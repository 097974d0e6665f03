---------------------------- MODULE MCCallRecords ----------------------------
EXTENDS CallRecords, TLC

Lost(transport) ==
    [transport |-> transport, status |-> 100, body |-> FALSE,
     usage |-> [valid |-> TRUE, input |-> None, output |-> None]]
Said(status, body, valid, input, output) ==
    [transport |-> "answered", status |-> status, body |-> body,
     usage |-> [valid |-> valid, input |-> input, output |-> output]]

(* A lost exchange, a refused key, a status no outcome may carry, a usable *)
(* body whose usage is complete, partial or invalid.                       *)
Exchanges ==
    {Lost("unexpected"), Said(401, FALSE, TRUE, None, None),
     Said(600, FALSE, TRUE, None, None), Said(200, TRUE, TRUE, 2, 1),
     Said(200, TRUE, TRUE, 1, None), Said(200, TRUE, FALSE, 1, 1)}

Prices == {[input |-> 0, output |-> 0], [input |-> 1, output |-> 2]}

Symmetry == Permutations(Call)
===============================================================================
