----------------------------- MODULE RateLimit -----------------------------
(***************************************************************************)
(* The middleware that limits registrations                                *)
(* (src/internal/server/http/ratelimit.go): a map of visitors, one token   *)
(* bucket per remote address, shared by the requests and by a goroutine    *)
(* that refills the buckets every second and forgets a visitor that has    *)
(* not been seen for ten minutes.  A mutex makes each of the two critical  *)
(* sections one step.                                                      *)
(*                                                                         *)
(* Time passes in seconds.  The goroutine sleeps for refillInterval, and   *)
(* the machine may let it wait longer, at most until maxDelay; nothing     *)
(* else ties the refills to the clock that idle visitors are judged by.    *)
(***************************************************************************)
EXTENDS Naturals

CONSTANTS
    Addresses,      \* remote addresses, each an IP with a port
    None,           \* no visitor
    maxTokens, refillInterval, refillRate,
    idleLimit,      \* seconds after which a visitor is forgotten
    maxDelay,       \* assumed: seconds between two refills, at most
    MaxSeconds,     \* bound: the length of the window that is looked at
    MaxRestarts     \* bound: restarts of the server

\* A bucket is full again before its visitor may be forgotten.  The code has
\* 20 tokens, 2 a second and 600 seconds: maxDelay may be up to 60 seconds.
ASSUME RateAssumption ==
    /\ {maxTokens, refillInterval, refillRate, idleLimit, maxDelay} \subseteq Nat
    /\ {MaxSeconds, MaxRestarts} \subseteq Nat
    /\ maxTokens > 0
    /\ 0 < refillInterval /\ refillInterval <= maxDelay
    /\ refillRate * idleLimit >= maxTokens * maxDelay
    /\ None \notin [tokens : Nat, idle : Nat]

VARIABLES
    visitors,   \* visitors[a] = [tokens, idle]: idle is time.Since(lastSeen)
    since,      \* seconds since the last refill
    verdict,    \* the address and the outcome of the last request
    watching,   \* a window of time has begun, and in it
    seconds,    \*   seconds have passed,
    restarts,   \*   the server was restarted and
    admitted    \*   admitted[a] requests of a have gone through

window == <<watching, seconds, restarts, admitted>>
vars == <<visitors, since, verdict, window>>

Bucket == [tokens : 0 .. maxTokens, idle : Nat]

Init ==
    /\ visitors = [a \in Addresses |-> None]
    /\ since = 0
    /\ verdict = <<>>
    /\ watching = FALSE
    /\ seconds = 0
    /\ restarts = 0
    /\ admitted = [a \in Addresses |-> 0]

-----------------------------------------------------------------------------
\* The tokens of an address: a new visitor gets a full bucket.
Tokens(a) == IF visitors[a] = None THEN maxTokens ELSE visitors[a].tokens

\* Mutant: lastSeen is set for a new visitor only.
BugAdmit(a) ==
    /\ Tokens(a) > 0
    /\ visitors' = [visitors EXCEPT
           ![a] = [tokens |-> Tokens(a) - 1,
                   idle   |-> IF visitors[a] = None THEN 0 ELSE visitors[a].idle]]
    /\ verdict' = <<a, "admitted">>
    /\ admitted' = IF watching THEN [admitted EXCEPT ![a] = @ + 1] ELSE admitted
    /\ UNCHANGED <<since, watching, seconds, restarts>>

Admit(a) ==
    /\ Tokens(a) > 0
    /\ visitors' = [visitors EXCEPT ![a] = [tokens |-> Tokens(a) - 1, idle |-> 0]]
    /\ verdict' = <<a, "admitted">>
    /\ admitted' = IF watching THEN [admitted EXCEPT ![a] = @ + 1] ELSE admitted
    /\ UNCHANGED <<since, watching, seconds, restarts>>

\* 429; the visitor has been seen all the same.
Refuse(a) ==
    /\ Tokens(a) = 0
    /\ visitors' = [visitors EXCEPT ![a].idle = 0]
    /\ verdict' = <<a, "refused">>
    /\ UNCHANGED <<since, window>>

\* Mutant: the bucket overflows.
BugRefilled(n) == n + refillRate

Refilled(n) == IF n + refillRate > maxTokens THEN maxTokens ELSE n + refillRate

\* Mutant: forgets visitors that are not idle for long enough.
BugPass(v) ==
    IF v = None \/ v.idle >= refillInterval THEN None
    ELSE [v EXCEPT !.tokens = Refilled(v.tokens)]

\* Mutant: no visitor is ever forgotten.
BugPassKeeps(v) ==
    IF v = None THEN None ELSE [v EXCEPT !.tokens = Refilled(v.tokens)]

\* One turn of the loop, for one visitor.
Pass(v) ==
    IF v = None \/ v.idle > idleLimit THEN None
    ELSE [v EXCEPT !.tokens = Refilled(v.tokens)]

\* Mutant: the loop does not sleep.
BugRefill ==
    /\ visitors' = [a \in Addresses |-> Pass(visitors[a])]
    /\ since' = 0
    /\ UNCHANGED <<verdict, window>>

Refill ==
    /\ since >= refillInterval
    /\ visitors' = [a \in Addresses |-> Pass(visitors[a])]
    /\ since' = 0
    /\ UNCHANGED <<verdict, window>>

\* A second passes.
Elapse ==
    /\ since < maxDelay
    /\ watching => seconds < MaxSeconds
    /\ since' = since + 1
    /\ visitors' = [a \in Addresses |->
           IF visitors[a] = None THEN None ELSE [visitors[a] EXCEPT !.idle = @ + 1]]
    /\ seconds' = IF watching THEN seconds + 1 ELSE seconds
    /\ UNCHANGED <<verdict, watching, restarts, admitted>>

\* The map is kept in memory only.
Restart ==
    /\ restarts < MaxRestarts
    /\ visitors' = [a \in Addresses |-> None]
    /\ since' = 0
    /\ restarts' = restarts + 1
    /\ UNCHANGED <<verdict, watching, seconds, admitted>>

\* From here on the admitted requests are counted.
Watch ==
    /\ ~watching
    /\ watching' = TRUE
    /\ seconds' = 0
    /\ restarts' = 0
    /\ admitted' = [a \in Addresses |-> 0]
    /\ UNCHANGED <<visitors, since, verdict>>

Next ==
    \/ \E a \in Addresses : Admit(a) \/ Refuse(a)
    \/ Refill
    \/ Elapse
    \/ Restart
    \/ Watch

Spec == Init /\ [][Next]_vars

-----------------------------------------------------------------------------
(* Properties.                                                             *)

TypeOK ==
    /\ visitors \in [Addresses -> Bucket \cup {None}]
    /\ since \in 0 .. maxDelay
    /\ verdict \in {<<>>} \cup (Addresses \X {"admitted", "refused"})
    /\ watching \in BOOLEAN
    /\ seconds \in Nat
    /\ restarts \in Nat
    /\ admitted \in [Addresses -> Nat]

\* A visitor seen long ago has had its bucket filled again: `since' is how late
\* the next refill is, and the bucket owes at most that.
IdleIsRefilled ==
    \A a \in Addresses : visitors[a] # None =>
        \/ visitors[a].tokens = maxTokens
        \/ maxDelay * visitors[a].tokens + refillRate * since
               >= refillRate * visitors[a].idle

\* The map does not keep growing: it holds the addresses seen in the last
\* idleLimit seconds and those the next refill will forget.
MapForgets ==
    \A a \in Addresses : visitors[a] # None => visitors[a].idle <= idleLimit + since

\* In any window of s seconds an address gets at most a full bucket, what s + 1
\* refills bring and a full bucket for every restart of the server.
Credit ==
    maxTokens * (restarts + 1)
        + refillRate * (seconds + (IF since < refillInterval THEN 1 ELSE 0))

AdmittedBounded ==
    watching => \A a \in Addresses : admitted[a] + Tokens(a) <= Credit

\* Forgetting visitors is invisible: the middleware is a bucket per address that
\* is never dropped.
Buckets == INSTANCE TokenBucket WITH
    tokens <- [a \in Addresses |-> Tokens(a)]

ImplementsTokenBucket == Buckets!Spec
=============================================================================
