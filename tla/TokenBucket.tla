---------------------------- MODULE TokenBucket ----------------------------
(***************************************************************************)
(* What the rate limiter promises: every address has a bucket of its own,  *)
(* which starts full, gives a token to each admitted request and is        *)
(* refilled from time to time.  A restart of the server fills all of them. *)
(***************************************************************************)
EXTENDS Naturals

CONSTANTS Addresses, maxTokens, refillRate

VARIABLES
    tokens,     \* tokens[a]: what is left in the bucket of address a
    verdict     \* the address and the outcome of the last request

Min(m, n) == IF m <= n THEN m ELSE n

Init ==
    /\ tokens = [a \in Addresses |-> maxTokens]
    /\ verdict = <<>>

Admit(a) ==
    /\ tokens[a] > 0
    /\ tokens' = [tokens EXCEPT ![a] = @ - 1]
    /\ verdict' = <<a, "admitted">>

Refuse(a) ==
    /\ tokens[a] = 0
    /\ verdict' = <<a, "refused">>
    /\ UNCHANGED tokens

Refill ==
    /\ tokens' = [a \in Addresses |-> Min(tokens[a] + refillRate, maxTokens)]
    /\ UNCHANGED verdict

Restart ==
    /\ tokens' = [a \in Addresses |-> maxTokens]
    /\ UNCHANGED verdict

Next == Refill \/ Restart \/ \E a \in Addresses : Admit(a) \/ Refuse(a)

Spec == Init /\ [][Next]_<<tokens, verdict>>
=============================================================================
