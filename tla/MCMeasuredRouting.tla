--------------------------- MODULE MCMeasuredRouting ---------------------------
EXTENDS MeasuredRouting

(* A pair that is good and dear, and one that is cheap and doubtful.       *)
TwoBaselines ==
    << [quality |-> 10, cost |-> 4, latency |-> 6, reliability |-> 11],
       [quality |-> 7, cost |-> 11, latency |-> 6, reliability |-> 8] >>

Observed(success, latency, cost) ==
    [success |-> success, latency |-> latency, estimated_cost |-> cost]

Good == Observed(TRUE, 0, 0)
Fair == Observed(TRUE, 3, 5)
Bad == Observed(FALSE, 9, None)

Observations == {Good, Fair, Bad}

(* Three rows as old as the clock: a full window of one pair, or rows of   *)
(* both pairs, in different orders.                                        *)
Row(p, observed) == [pair |-> p, finished_at |-> 0, observed |-> observed]

Histories ==
    {<<Row(1, Good), Row(1, Bad), Row(1, Fair)>>,
     <<Row(1, Bad), Row(1, Bad), Row(1, Good)>>,
     <<Row(2, Good), Row(2, Good), Row(2, Bad)>>,
     <<Row(1, Good), Row(2, Bad), Row(1, Bad)>>,
     <<Row(2, Fair), Row(1, Good), Row(1, Good)>>,
     <<Row(2, Bad), Row(2, Fair), Row(1, Bad)>>}

Weights(q, c, l, r) ==
    [quality |-> q, cost |-> c, latency |-> l, reliability |-> r]

Preferences == {Weights(1, 1, 1, 1), Weights(0, 1, 0, 0), Weights(0, 0, 2, 1)}

(* The second pair has been benchmarked.                                    *)
Evidence ==
    <<[score |-> None, confidence |-> 0], [score |-> 12, confidence |-> 1]>>
=============================================================================
