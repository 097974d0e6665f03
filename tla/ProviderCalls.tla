---------------------------- MODULE ProviderCalls ----------------------------
(***************************************************************************)
(* What an adapter makes of one HTTP exchange with its upstream            *)
(* (providers/base.py, openai_compatible.py, gemini.py): both adapters     *)
(* look at the transport, the status, the shape of the body and its usage, *)
(* in this order, and normalise them into a ProviderOutcome.  The payload  *)
(* itself and error messages are left out.                                 *)
(***************************************************************************)
EXTENDS Integers

CONSTANT None

(* transport: how client.post ended; status: of the response; body: the    *)
(* answer's text is where it should be; usage: what the upstream says of   *)
(* its tokens, None when it is silent, "invalid" when it cannot be read.   *)
Tokens == Nat \cup {None}
Silent == [input |-> None, output |-> None]
Exchange ==
    [transport : {"answered", "timeout", "no_connection", "broken", "unexpected"},
     status : 100 .. 999, body : BOOLEAN,
     usage : [valid : BOOLEAN, input : Tokens, output : Tokens]]

ProviderErrorType ==
    {"timeout", "connection_error", "authentication_error", "rate_limit",
     "provider_error", "invalid_response", "unknown_error"}

Answered(x) == x.transport = "answered"
Succeeds(status) == status \in 200 .. 299

(* classify_provider_error of the exception the exchange ends in: the      *)
(* transport's, raise_for_status's, or one about the body or its usage.    *)
ErrorType(x) ==
    CASE x.transport = "timeout"        -> "timeout"
      [] x.transport = "no_connection"  -> "connection_error"
      [] x.transport = "broken"         -> "provider_error"
      [] x.transport = "unexpected"     -> "unknown_error"
      [] Answered(x) /\ x.status \in {401, 403} -> "authentication_error"
      [] Answered(x) /\ x.status = 429  -> "rate_limit"
      [] Answered(x) /\ ~Succeeds(x.status) /\ x.status \notin {401, 403, 429}
                                        -> "provider_error"
      [] Answered(x) /\ Succeeds(x.status) -> "invalid_response"

Usable(x) == Answered(x) /\ Succeeds(x.status) /\ x.body /\ x.usage.valid

(* Mutant of TokenUsage: a count the upstream left out is zero.            *)
ZeroWhenSilent(usage) ==
    [input |-> IF usage.input = None THEN 0 ELSE usage.input,
     output |-> IF usage.output = None THEN 0 ELSE usage.output]

(* normalize_token_usage of a usage that can be read.                      *)
TokenUsage(usage) == [input |-> usage.input, output |-> usage.output]

(* successful_outcome and failed_outcome.                                  *)
Success(x) == [success |-> TRUE, error |-> None, tokens |-> TokenUsage(x.usage)]
Failure(error) == [success |-> FALSE, error |-> error, tokens |-> Silent]

(* The validator of ProviderOutcome accepts the status and the times.  The *)
(* status of an exchange that was not answered is None.                    *)
Accepted(x, started, finished) ==
    (Answered(x) => x.status <= 599) /\ started <= finished

(* estimate_cost, in tokens times price.                                   *)
EstimateCost(price, tokens) ==
    IF price = None \/ tokens.input = None \/ tokens.output = None THEN None
    ELSE tokens.input * price.input + tokens.output * price.output
===============================================================================
