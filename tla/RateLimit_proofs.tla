-------------------------- MODULE RateLimit_proofs --------------------------
(***************************************************************************)
(* The rate limiter for any number of addresses and any rates that satisfy *)
(* RateAssumption: the invariants of module RateLimit are inductive        *)
(* together, and the middleware implements module TokenBucket.             *)
(*                                                                         *)
(* The argument: between a visitor's last request and now, all but the     *)
(* last `since' seconds have been paid for by refills, at least one every  *)
(* maxDelay seconds (IdleIsRefilled).  A visitor that is idle for longer   *)
(* than idleLimit has therefore a full bucket when a refill meets it, and  *)
(* to forget it changes nothing that a request could see.                  *)
(***************************************************************************)
EXTENDS RateLimit, TLAPS

USE RateAssumption

IInv == TypeOK /\ IdleIsRefilled /\ MapForgets /\ AdmittedBounded

-----------------------------------------------------------------------------
(* Arithmetic.                                                             *)

\* Products of the constants and variables are natural numbers, and distribute.
LEMMA Times == \A m, n \in Nat : m * n \in Nat
  OBVIOUS

LEMMA Distributes ==
  \A k, m, n \in Nat : k * (m + n) = k * m + k * n
  OBVIOUS

\* A greater factor makes a greater product.
LEMMA Monotone ==
  ASSUME NEW k \in Nat, NEW m \in Nat, NEW n \in Nat, m <= n
  PROVE  k * m <= k * n
  <1>1. n - m \in Nat /\ n = m + (n - m)
    OBVIOUS
  <1>2. k * n = k * m + k * (n - m)
    BY <1>1, Distributes
  <1>3. k * m \in Nat /\ k * n \in Nat /\ k * (n - m) \in Nat
    BY <1>1, Times
  <1> QED BY <1>2, <1>3

\* A smaller or equal product with one positive factor has the smaller factor.
LEMMA Cancel ==
  ASSUME NEW k \in Nat, k > 0, NEW m \in Nat, NEW n \in Nat, k * m <= k * n
  PROVE  m <= n
  <1>1. SUFFICES ASSUME m > n PROVE FALSE
    OBVIOUS
  <1>2. n + 1 <= m
    BY <1>1
  <1>3. k * (n + 1) <= k * m
    BY <1>2, Monotone
  <1>4. k * (n + 1) = k * n + k * 1
    BY Distributes
  <1>5. k * 1 = k
    OBVIOUS
  <1>6. k * n \in Nat /\ k * m \in Nat
    BY Times
  <1> QED BY <1>3, <1>4, <1>5, <1>6

-----------------------------------------------------------------------------
(* Buckets.                                                                *)

\* A bucket is a record, and None is not one.
LEMMA BucketIsVisitor ==
  ASSUME NEW v \in Bucket
  PROVE  /\ v # None
         /\ v.tokens \in 0 .. maxTokens
         /\ v.idle \in Nat
  BY DEF Bucket

\* The tokens an address has are within the bucket.
LEMMA TokensType ==
  ASSUME TypeOK, NEW a \in Addresses
  PROVE  Tokens(a) \in 0 .. maxTokens
  BY BucketIsVisitor DEF TypeOK, Tokens

\* A refill keeps a bucket within its size and adds no more than refillRate.
LEMMA RefilledBounds ==
  ASSUME NEW n \in 0 .. maxTokens
  PROVE  /\ Refilled(n) \in 0 .. maxTokens
         /\ n <= Refilled(n)
         /\ Refilled(n) <= n + refillRate
         /\ Refilled(n) = maxTokens \/ Refilled(n) = n + refillRate
  BY DEF Refilled

\* What a turn of the loop leaves of a visitor.
LEMMA PassKept ==
  ASSUME NEW v \in Bucket
  PROVE  /\ v.idle > idleLimit => Pass(v) = None
         /\ v.idle <= idleLimit => /\ Pass(v) \in Bucket
                                   /\ Pass(v) # None
                                   /\ Pass(v).tokens = Refilled(v.tokens)
                                   /\ Pass(v).idle = v.idle
  <1>1. v # None /\ v.tokens \in 0 .. maxTokens /\ v.idle \in Nat
    BY BucketIsVisitor
  <1>2. CASE v.idle > idleLimit
    BY <1>1, <1>2 DEF Pass
  <1>3. CASE v.idle <= idleLimit
    <2>1. Pass(v) = [v EXCEPT !.tokens = Refilled(v.tokens)]
      BY <1>1, <1>3 DEF Pass
    <2>2. Refilled(v.tokens) \in 0 .. maxTokens
      BY <1>1, RefilledBounds
    <2>3. Pass(v) = [tokens |-> Refilled(v.tokens), idle |-> v.idle]
      BY <2>1 DEF Bucket
    <2>4. Pass(v) \in Bucket
      BY <1>1, <2>2, <2>3 DEF Bucket
    <2> QED BY <1>1, <1>3, <2>3, <2>4, BucketIsVisitor
  <1> QED BY <1>1, <1>2, <1>3

-----------------------------------------------------------------------------
(* The refills of an idle visitor.                                         *)

\* A refill pays for the seconds since the last one.
LEMMA RefillPays ==
  ASSUME TypeOK, NEW t \in 0 .. maxTokens, NEW i \in Nat,
         maxDelay * t + refillRate * since >= refillRate * i
  PROVE  maxDelay * (t + refillRate) >= refillRate * i
  <1>1. since \in Nat /\ since <= maxDelay
    BY DEF TypeOK
  <1>2. refillRate * since <= refillRate * maxDelay
    BY <1>1, Monotone
  <1>3. maxDelay * (t + refillRate) = maxDelay * t + maxDelay * refillRate
    BY Distributes
  <1>4. maxDelay * refillRate = refillRate * maxDelay
    OBVIOUS
  <1>5. /\ maxDelay * t \in Nat
        /\ refillRate * since \in Nat
        /\ refillRate * maxDelay \in Nat
        /\ refillRate * i \in Nat
    BY <1>1, Times
  <1> QED BY <1>2, <1>3, <1>4, <1>5

\* A visitor that may be forgotten has a full bucket by then.
LEMMA ForgottenIsFull ==
  ASSUME TypeOK, IdleIsRefilled, NEW a \in Addresses, visitors[a] # None,
         visitors[a].idle > idleLimit
  PROVE  Refilled(visitors[a].tokens) = maxTokens
  <1> DEFINE t == visitors[a].tokens
             i == visitors[a].idle
  <1>1. t \in 0 .. maxTokens /\ i \in Nat
    BY BucketIsVisitor DEF TypeOK
  <1>2. CASE t = maxTokens
    BY <1>1, <1>2, RefilledBounds
  <1>3. CASE t # maxTokens
    <2>1. maxDelay * t + refillRate * since >= refillRate * i
      BY <1>3 DEF IdleIsRefilled
    <2> HIDE DEF t, i
    <2>2. maxDelay * (t + refillRate) >= refillRate * i
      BY <1>1, <2>1, RefillPays
    <2>3. refillRate * idleLimit <= refillRate * i
      BY <1>1, Monotone DEF i
    <2>4. refillRate * idleLimit >= maxDelay * maxTokens
      <3>1. maxTokens * maxDelay = maxDelay * maxTokens
        OBVIOUS
      <3> QED BY <3>1
    <2>5. /\ maxDelay * (t + refillRate) \in Nat
          /\ refillRate * i \in Nat
          /\ refillRate * idleLimit \in Nat
          /\ maxDelay * maxTokens \in Nat
      BY <1>1, Times
    <2>6. maxDelay * maxTokens <= maxDelay * (t + refillRate)
      BY <2>2, <2>3, <2>4, <2>5
    <2>7. maxTokens <= t + refillRate
      BY <1>1, <2>6, Cancel
    <2> QED BY <1>1, <2>7 DEF Refilled, t
  <1> QED BY <1>2, <1>3

\* What the refill does to the tokens an address has, whether its visitor is
\* kept, forgotten or not there: the same as to a bucket that is never dropped.
LEMMA RefillTokens ==
  ASSUME TypeOK, IdleIsRefilled, Refill, NEW a \in Addresses
  PROVE  Tokens(a)' = Refilled(Tokens(a))
  <1>1. visitors'[a] = Pass(visitors[a])
    BY DEF Refill
  <1>2. CASE visitors[a] = None
    <2>1. visitors'[a] = None
      BY <1>1, <1>2 DEF Pass
    <2> QED BY <1>2, <2>1 DEF Tokens, Refilled
  <1>3. CASE visitors[a] # None
    <2>1. visitors[a] \in Bucket
      BY <1>3 DEF TypeOK
    <2>2. visitors[a].idle \in Nat
      BY <2>1, BucketIsVisitor
    <2>3. CASE visitors[a].idle > idleLimit
      <3>1. visitors'[a] = None
        BY <1>1, <2>1, <2>3, PassKept
      <3>2. Refilled(visitors[a].tokens) = maxTokens
        BY <1>3, <2>3, ForgottenIsFull
      <3> QED BY <1>3, <3>1, <3>2 DEF Tokens
    <2>4. CASE visitors[a].idle <= idleLimit
      BY <1>1, <1>3, <2>1, <2>4, PassKept DEF Tokens
    <2> QED BY <2>2, <2>3, <2>4
  <1> QED BY <1>2, <1>3

-----------------------------------------------------------------------------
(* The invariant.                                                          *)

\* Credit is a number.
LEMMA CreditType ==
  ASSUME TypeOK
  PROVE  Credit \in Nat
  <1>1. maxTokens * (restarts + 1) \in Nat
    BY Times DEF TypeOK
  <1>2. refillRate * (seconds + (IF since < refillInterval THEN 1 ELSE 0)) \in Nat
    BY Times DEF TypeOK
  <1> QED BY <1>1, <1>2 DEF Credit

\* It holds at first.
LEMMA InitInv == Init => IInv
  <1> SUFFICES ASSUME Init PROVE IInv
    OBVIOUS
  <1>1. TypeOK
    <2>1. visitors \in [Addresses -> Bucket \cup {None}]
      BY DEF Init
    <2>2. since \in 0 .. maxDelay
      BY DEF Init
    <2>3. verdict \in {<<>>}
      BY DEF Init
    <2>4. watching \in BOOLEAN /\ seconds \in Nat /\ restarts \in Nat
      BY DEF Init
    <2>5. admitted \in [Addresses -> Nat]
      BY DEF Init
    <2> QED BY <2>1, <2>2, <2>3, <2>4, <2>5, Zenon DEF TypeOK
  <1>2. IdleIsRefilled /\ MapForgets
    BY DEF Init, IdleIsRefilled, MapForgets
  <1>3. AdmittedBounded
    BY DEF Init, AdmittedBounded
  <1> QED BY <1>1, <1>2, <1>3 DEF IInv

\* A request sets one visitor's bucket; the arithmetic of the others is theirs.
LEMMA AdmitInv ==
  ASSUME IInv, NEW a \in Addresses, Admit(a)
  PROVE  IInv'
  <1>0. TypeOK /\ IdleIsRefilled /\ MapForgets /\ AdmittedBounded
    BY DEF IInv
  <1>1. Tokens(a) \in 0 .. maxTokens /\ Tokens(a) > 0
    BY <1>0, TokensType DEF Admit
  <1> DEFINE b == [tokens |-> Tokens(a) - 1, idle |-> 0]
  <1>2. b \in Bucket /\ b # None
    <2>1. b \in Bucket
      BY <1>1 DEF Bucket
    <2> QED BY <2>1, BucketIsVisitor
  <1>3. visitors' = [visitors EXCEPT ![a] = b]
    BY DEF Admit
  <1> HIDE DEF b
  <1>4. /\ visitors' \in [Addresses -> Bucket \cup {None}]
        /\ visitors'[a] = b
        /\ \A c \in Addresses : c # a => visitors'[c] = visitors[c]
    BY <1>0, <1>2, <1>3 DEF TypeOK
  <1>5. UNCHANGED <<since, watching, seconds, restarts>>
    BY DEF Admit
  <1>6. TypeOK'
    <2>1. verdict' \in Addresses \X {"admitted", "refused"}
      BY DEF Admit
    <2>2. admitted' \in [Addresses -> Nat]
      BY <1>0 DEF Admit, TypeOK
    <2> QED BY <1>0, <1>4, <1>5, <2>1, <2>2 DEF TypeOK
  <1>7. IdleIsRefilled'
    <2> SUFFICES ASSUME NEW c \in Addresses, visitors'[c] # None
                 PROVE  \/ visitors'[c].tokens = maxTokens
                        \/ maxDelay * visitors'[c].tokens + refillRate * since
                               >= refillRate * visitors'[c].idle
      BY <1>5 DEF IdleIsRefilled
    <2>1. CASE c = a
      <3>1. visitors'[c].idle = 0 /\ visitors'[c].tokens \in Nat
        BY <1>1, <1>4, <2>1 DEF b
      <3>2. maxDelay * visitors'[c].tokens \in Nat
        <4>1. maxDelay \in Nat
          OBVIOUS
        <4> QED BY <3>1, <4>1, Times
      <3>4. refillRate * since \in Nat
        BY <1>0, Times DEF TypeOK
      <3>3. refillRate * 0 = 0
        OBVIOUS
      <3> QED BY <3>1, <3>2, <3>3, <3>4
    <2>2. CASE c # a
      BY <1>0, <1>4, <2>2 DEF IdleIsRefilled
    <2> QED BY <2>1, <2>2
  <1>8. MapForgets'
    <2> SUFFICES ASSUME NEW c \in Addresses, visitors'[c] # None
                 PROVE  visitors'[c].idle <= idleLimit + since
      BY <1>5 DEF MapForgets
    <2>1. CASE c = a
      BY <1>0, <1>4, <2>1 DEF TypeOK, b
    <2>2. CASE c # a
      BY <1>0, <1>4, <2>2 DEF MapForgets
    <2> QED BY <2>1, <2>2
  <1>9. AdmittedBounded'
    <2> SUFFICES ASSUME watching, NEW c \in Addresses
                 PROVE  admitted'[c] + Tokens(c)' <= Credit'
      BY <1>5 DEF AdmittedBounded
    <2>1. Credit' = Credit
      BY <1>5 DEF Credit
    <2>2. admitted[c] + Tokens(c) <= Credit
      BY <1>0 DEF AdmittedBounded
    <2>3. CASE c = a
      <3>1. Tokens(c)' = Tokens(a) - 1
        BY <1>2, <1>4, <2>3 DEF Tokens, b
      <3>2. admitted'[c] = admitted[a] + 1 /\ admitted[a] \in Nat
        BY <1>0, <2>3 DEF Admit, TypeOK
      <3> QED BY <1>0, <1>1, <2>1, <2>2, <2>3, <3>1, <3>2, CreditType
    <2>4. CASE c # a
      <3>1. Tokens(c)' = Tokens(c)
        BY <1>4, <2>4 DEF Tokens
      <3>2. admitted'[c] = admitted[c]
        BY <1>0, <2>4 DEF Admit, TypeOK
      <3> QED BY <2>1, <2>2, <3>1, <3>2
    <2> QED BY <2>3, <2>4
  <1> QED BY <1>6, <1>7, <1>8, <1>9 DEF IInv

\* A refusal only marks the visitor as seen.
LEMMA RefuseInv ==
  ASSUME IInv, NEW a \in Addresses, Refuse(a)
  PROVE  IInv'
  <1>0. TypeOK /\ IdleIsRefilled /\ MapForgets /\ AdmittedBounded
    BY DEF IInv
  <1>1. visitors[a] # None /\ visitors[a].tokens = 0
    BY DEF Refuse, Tokens
  <1>2. visitors[a] \in Bucket
    BY <1>0, <1>1 DEF TypeOK
  <1> DEFINE b == [tokens |-> 0, idle |-> 0]
  <1>3. b \in Bucket /\ b # None
    <2>1. b \in Bucket
      BY DEF Bucket
    <2> QED BY <2>1, BucketIsVisitor
  <1>4. visitors' = [visitors EXCEPT ![a] = b]
    <2>1. [visitors[a] EXCEPT !.idle = 0] = b
      BY <1>1, <1>2 DEF Bucket
    <2> QED BY <1>0, <2>1 DEF Refuse, TypeOK
  <1> HIDE DEF b
  <1>5. /\ visitors' \in [Addresses -> Bucket \cup {None}]
        /\ visitors'[a] = b
        /\ \A c \in Addresses : c # a => visitors'[c] = visitors[c]
    BY <1>0, <1>3, <1>4 DEF TypeOK
  <1>6. UNCHANGED <<since, watching, seconds, restarts, admitted>>
    BY DEF Refuse, window
  <1>7. \A c \in Addresses : Tokens(c)' = Tokens(c)
    <2>1. Tokens(a)' = Tokens(a)
      BY <1>1, <1>3, <1>5 DEF Tokens, b
    <2>2. ASSUME NEW c \in Addresses, c # a
          PROVE  Tokens(c)' = Tokens(c)
      BY <1>5, <2>2 DEF Tokens
    <2> QED BY <2>1, <2>2
  <1>8. TypeOK'
    <2>1. verdict' \in Addresses \X {"admitted", "refused"}
      BY DEF Refuse
    <2> QED BY <1>0, <1>5, <1>6, <2>1 DEF TypeOK
  <1>9. IdleIsRefilled'
    <2> SUFFICES ASSUME NEW c \in Addresses, visitors'[c] # None
                 PROVE  \/ visitors'[c].tokens = maxTokens
                        \/ maxDelay * visitors'[c].tokens + refillRate * since
                               >= refillRate * visitors'[c].idle
      BY <1>6 DEF IdleIsRefilled
    <2>1. CASE c = a
      <3>1. visitors'[c].idle = 0 /\ visitors'[c].tokens = 0
        BY <1>5, <2>1 DEF b
      <3>2. refillRate * since \in Nat
        BY <1>0, Times DEF TypeOK
      <3>3. refillRate * 0 = 0 /\ maxDelay * 0 = 0
        OBVIOUS
      <3> QED BY <3>1, <3>2, <3>3
    <2>2. CASE c # a
      BY <1>0, <1>5, <2>2 DEF IdleIsRefilled
    <2> QED BY <2>1, <2>2
  <1>10. MapForgets'
    <2> SUFFICES ASSUME NEW c \in Addresses, visitors'[c] # None
                 PROVE  visitors'[c].idle <= idleLimit + since
      BY <1>6 DEF MapForgets
    <2>1. CASE c = a
      BY <1>0, <1>5, <2>1 DEF TypeOK, b
    <2>2. CASE c # a
      BY <1>0, <1>5, <2>2 DEF MapForgets
    <2> QED BY <2>1, <2>2
  <1>11. AdmittedBounded'
    BY <1>0, <1>6, <1>7 DEF AdmittedBounded, Credit
  <1> QED BY <1>8, <1>9, <1>10, <1>11 DEF IInv

\* The loop keeps each bucket, filled a little more, or forgets it; the credit
\* grows by what it adds, because the loop has slept since the last refill.
LEMMA RefillInv ==
  ASSUME IInv, Refill
  PROVE  IInv'
  <1>0. TypeOK /\ IdleIsRefilled /\ MapForgets /\ AdmittedBounded
    BY DEF IInv
  <1>1. /\ visitors' = [a \in Addresses |-> Pass(visitors[a])]
        /\ since' = 0
        /\ UNCHANGED <<verdict, watching, seconds, restarts, admitted>>
    BY DEF Refill, window
  <1>2. ASSUME NEW a \in Addresses, visitors'[a] # None
        PROVE  /\ visitors[a] \in Bucket
               /\ visitors[a] # None
               /\ visitors[a].idle <= idleLimit
               /\ visitors'[a] \in Bucket
               /\ visitors'[a].tokens = Refilled(visitors[a].tokens)
               /\ visitors'[a].idle = visitors[a].idle
    <2>1. visitors'[a] = Pass(visitors[a])
      BY <1>1
    <2>2. visitors[a] # None
      BY <1>2, <2>1 DEF Pass
    <2>3. visitors[a] \in Bucket
      BY <1>0, <2>2 DEF TypeOK
    <2>4. visitors[a].idle \in Nat
      BY <2>3, BucketIsVisitor
    <2>5. visitors[a].idle <= idleLimit
      <3>1. SUFFICES ASSUME visitors[a].idle > idleLimit PROVE FALSE
        BY <2>4
      <3> QED BY <1>2, <2>1, <2>3, <3>1, PassKept
    <2> QED BY <2>1, <2>2, <2>3, <2>5, PassKept
  <1>3. TypeOK'
    <2>1. visitors' \in [Addresses -> Bucket \cup {None}]
      BY <1>1, <1>2
    <2> QED BY <1>0, <1>1, <2>1 DEF TypeOK
  <1>4. IdleIsRefilled'
    <2> SUFFICES ASSUME NEW a \in Addresses, visitors'[a] # None
                 PROVE  \/ visitors'[a].tokens = maxTokens
                        \/ maxDelay * visitors'[a].tokens + refillRate * 0
                               >= refillRate * visitors'[a].idle
      BY <1>1 DEF IdleIsRefilled
    <2> DEFINE t == visitors[a].tokens
               i == visitors[a].idle
    <2>1. /\ t \in 0 .. maxTokens /\ i \in Nat
          /\ visitors'[a].tokens = Refilled(t)
          /\ visitors'[a].idle = i
      BY <1>2, BucketIsVisitor
    <2>2. \/ t = maxTokens
          \/ maxDelay * t + refillRate * since >= refillRate * i
      BY <1>0, <1>2 DEF IdleIsRefilled
    <2> HIDE DEF t, i
    <2>3. Refilled(t) = maxTokens \/ Refilled(t) = t + refillRate
      BY <2>1, RefilledBounds
    <2>4. CASE Refilled(t) = maxTokens
      BY <2>1, <2>4
    <2>5. CASE Refilled(t) # maxTokens
      <3>1. t # maxTokens
        BY <2>1, <2>5, RefilledBounds
      <3>2. maxDelay * (t + refillRate) >= refillRate * i
        BY <1>0, <2>1, <2>2, <3>1, RefillPays
      <3>3. Refilled(t) = t + refillRate
        BY <2>3, <2>5
      <3>4. t + refillRate \in Nat /\ maxDelay \in Nat
        BY <2>1
      <3>5. maxDelay * (t + refillRate) \in Nat
        BY <3>4, Times
      <3>6. refillRate * 0 = 0
        OBVIOUS
      <3> QED BY <2>1, <3>2, <3>3, <3>5, <3>6
    <2> QED BY <2>4, <2>5
  <1>5. MapForgets'
    <2> SUFFICES ASSUME NEW a \in Addresses, visitors'[a] # None
                 PROVE  visitors'[a].idle <= idleLimit + 0
      BY <1>1 DEF MapForgets
    <2> QED BY <1>2, BucketIsVisitor
  <1>6. AdmittedBounded'
    <2> SUFFICES ASSUME watching, NEW a \in Addresses
                 PROVE  admitted[a] + Tokens(a)' <= Credit'
      BY <1>1 DEF AdmittedBounded
    <2>1. admitted[a] + Tokens(a) <= Credit
      BY <1>0 DEF AdmittedBounded
    <2>2. Tokens(a) \in 0 .. maxTokens
      BY <1>0, TokensType
    <2>3. /\ Tokens(a)' \in 0 .. maxTokens
          /\ Tokens(a)' <= Tokens(a) + refillRate
      BY <1>0, <2>2, RefillTokens, RefilledBounds
    <2>4. Credit' = Credit + refillRate
      <3>1. seconds \in Nat
        BY <1>0 DEF TypeOK
      <3>2. Credit = maxTokens * (restarts + 1) + refillRate * seconds
        <4>1. ~(since < refillInterval)
          BY <1>0 DEF Refill, TypeOK
        <4>2. seconds + 0 = seconds
          BY <3>1
        <4> QED BY <4>1, <4>2 DEF Credit
      <3>3. Credit' = maxTokens * (restarts + 1) + refillRate * (seconds + 1)
        BY <1>1 DEF Credit
      <3>4. refillRate * (seconds + 1) = refillRate * seconds + refillRate
        <4>1. refillRate * (seconds + 1) = refillRate * seconds + refillRate * 1
          BY <3>1, Distributes
        <4>2. refillRate * 1 = refillRate
          OBVIOUS
        <4> QED BY <4>1, <4>2
      <3>5. maxTokens * (restarts + 1) \in Nat /\ refillRate * seconds \in Nat
        BY <1>0, Times DEF TypeOK
      <3> QED BY <3>2, <3>3, <3>4, <3>5
    <2>5. admitted[a] \in Nat /\ Credit \in Nat
      BY <1>0, CreditType DEF TypeOK
    <2> QED BY <2>1, <2>2, <2>3, <2>4, <2>5
  <1> QED BY <1>3, <1>4, <1>5, <1>6 DEF IInv

\* Each second adds the same to both sides.
LEMMA ElapseInv ==
  ASSUME IInv, Elapse
  PROVE  IInv'
  <1>0. TypeOK /\ IdleIsRefilled /\ MapForgets /\ AdmittedBounded
    BY DEF IInv
  <1>1. /\ since' = since + 1
        /\ UNCHANGED <<verdict, watching, restarts, admitted>>
    BY DEF Elapse
  <1>2. /\ seconds \in Nat /\ seconds' \in Nat /\ seconds' >= seconds
        /\ watching => seconds' = seconds + 1
    BY <1>0 DEF Elapse, TypeOK
  <1>3. ASSUME NEW a \in Addresses
        PROVE  \/ visitors[a] = None /\ visitors'[a] = None
               \/ /\ visitors[a] \in Bucket /\ visitors[a] # None
                  /\ visitors'[a] = [tokens |-> visitors[a].tokens,
                                     idle   |-> visitors[a].idle + 1]
                  /\ visitors'[a] \in Bucket /\ visitors'[a] # None
                  /\ visitors'[a].tokens = visitors[a].tokens
                  /\ visitors'[a].idle = visitors[a].idle + 1
    <2>1. visitors'[a] = IF visitors[a] = None THEN None
                         ELSE [visitors[a] EXCEPT !.idle = @ + 1]
      BY DEF Elapse
    <2>2. CASE visitors[a] = None
      BY <2>1, <2>2
    <2>3. CASE visitors[a] # None
      <3>1. visitors[a] \in Bucket
        BY <1>0, <2>3 DEF TypeOK
      <3>2. visitors'[a] = [tokens |-> visitors[a].tokens,
                            idle   |-> visitors[a].idle + 1]
        BY <2>1, <2>3, <3>1 DEF Bucket
      <3>3. visitors'[a] \in Bucket
        BY <3>1, <3>2 DEF Bucket
      <3> QED BY <2>3, <3>1, <3>2, <3>3, BucketIsVisitor
    <2> QED BY <2>2, <2>3
  <1>4. TypeOK'
    <2>1. visitors' = [a \in Addresses |-> visitors'[a]]
      BY DEF Elapse
    <2>2. visitors' \in [Addresses -> Bucket \cup {None}]
      BY <1>3, <2>1
    <2>3. since' \in 0 .. maxDelay
      BY <1>0 DEF Elapse, TypeOK
    <2> QED BY <1>0, <1>1, <1>2, <2>2, <2>3 DEF TypeOK
  <1>5. refillRate * (since + 1) = refillRate * since + refillRate * 1
    BY <1>0, Distributes DEF TypeOK
  <1>6. IdleIsRefilled'
    <2> SUFFICES ASSUME NEW a \in Addresses, visitors'[a] # None
                 PROVE  \/ visitors'[a].tokens = maxTokens
                        \/ maxDelay * visitors'[a].tokens
                               + refillRate * (since + 1)
                               >= refillRate * visitors'[a].idle
      BY <1>1 DEF IdleIsRefilled
    <2> DEFINE t == visitors[a].tokens
               i == visitors[a].idle
    <2>1. /\ t \in 0 .. maxTokens /\ i \in Nat
          /\ visitors'[a].tokens = t /\ visitors'[a].idle = i + 1
      BY <1>3, BucketIsVisitor
    <2>2. \/ t = maxTokens
          \/ maxDelay * t + refillRate * since >= refillRate * i
      BY <1>0, <1>3 DEF IdleIsRefilled
    <2> HIDE DEF t, i
    <2>3. refillRate * (i + 1) = refillRate * i + refillRate * 1
      BY <2>1, Distributes
    <2>4. /\ maxDelay * t \in Nat /\ refillRate * since \in Nat
          /\ refillRate * i \in Nat /\ refillRate * 1 \in Nat
      BY <1>0, <2>1, Times DEF TypeOK
    <2> QED BY <1>5, <2>1, <2>2, <2>3, <2>4
  <1>7. MapForgets'
    <2> SUFFICES ASSUME NEW a \in Addresses, visitors'[a] # None
                 PROVE  visitors'[a].idle <= idleLimit + (since + 1)
      BY <1>1 DEF MapForgets
    <2>1. visitors[a].idle \in Nat /\ visitors'[a].idle = visitors[a].idle + 1
      BY <1>3, BucketIsVisitor
    <2>2. visitors[a].idle <= idleLimit + since
      BY <1>0, <1>3 DEF MapForgets
    <2> QED BY <1>0, <2>1, <2>2 DEF TypeOK
  <1>8. AdmittedBounded'
    <2> SUFFICES ASSUME watching, NEW a \in Addresses
                 PROVE  admitted[a] + Tokens(a)' <= Credit'
      BY <1>1 DEF AdmittedBounded
    <2>1. admitted[a] + Tokens(a) <= Credit
      BY <1>0 DEF AdmittedBounded
    <2>2. Tokens(a)' = Tokens(a)
      BY <1>3 DEF Tokens
    <2>3. Credit <= Credit' /\ Credit' \in Nat
      <3> DEFINE m == seconds + (IF since < refillInterval THEN 1 ELSE 0)
                 n == seconds' + (IF since' < refillInterval THEN 1 ELSE 0)
      <3>1. m \in Nat /\ n \in Nat /\ m <= n
        BY <1>0, <1>2 DEF TypeOK
      <3> HIDE DEF m, n
      <3>2. refillRate * m <= refillRate * n
        BY <3>1, Monotone
      <3>3. /\ maxTokens * (restarts + 1) \in Nat
            /\ refillRate * m \in Nat /\ refillRate * n \in Nat
        BY <1>0, <3>1, Times DEF TypeOK
      <3>4. /\ Credit = maxTokens * (restarts + 1) + refillRate * m
            /\ Credit' = maxTokens * (restarts + 1) + refillRate * n
        BY <1>1 DEF Credit, m, n
      <3> QED BY <3>2, <3>3, <3>4
    <2>4. admitted[a] \in Nat /\ Tokens(a) \in Nat /\ Credit \in Nat
      <3>1. admitted[a] \in Nat
        BY <1>0 DEF TypeOK
      <3>2. Tokens(a) \in 0 .. maxTokens /\ Credit \in Nat
        BY <1>0, CreditType, TokensType
      <3> QED BY <3>1, <3>2
    <2> QED BY <2>1, <2>2, <2>3, <2>4
  <1> QED BY <1>4, <1>6, <1>7, <1>8 DEF IInv

\* A restart forgets every visitor and is paid for by another full bucket.
LEMMA RestartInv ==
  ASSUME IInv, Restart
  PROVE  IInv'
  <1>0. TypeOK /\ IdleIsRefilled /\ MapForgets /\ AdmittedBounded
    BY DEF IInv
  <1>1. /\ \A a \in Addresses : visitors'[a] = None
        /\ since' = 0 /\ restarts' = restarts + 1
        /\ UNCHANGED <<verdict, watching, seconds, admitted>>
    BY DEF Restart
  <1>2. TypeOK'
    <2>1. visitors' \in [Addresses -> Bucket \cup {None}]
      BY DEF Restart
    <2> QED BY <1>0, <1>1, <2>1 DEF TypeOK
  <1>3. IdleIsRefilled' /\ MapForgets'
    BY <1>1 DEF IdleIsRefilled, MapForgets
  <1>4. AdmittedBounded'
    <2> SUFFICES ASSUME watching, NEW a \in Addresses
                 PROVE  admitted[a] + Tokens(a)' <= Credit'
      BY <1>1 DEF AdmittedBounded
    <2>1. admitted[a] + Tokens(a) <= Credit
      BY <1>0 DEF AdmittedBounded
    <2>2. Tokens(a)' = maxTokens
      BY <1>1 DEF Tokens
    <2> DEFINE m == seconds + (IF since < refillInterval THEN 1 ELSE 0)
               r == restarts + 1
    <2>3. m \in Nat /\ m <= seconds + 1 /\ r \in Nat /\ seconds + 1 \in Nat
      BY <1>0 DEF TypeOK
    <2>4. Credit = maxTokens * r + refillRate * m
      BY DEF Credit
    <2>5. Credit' = maxTokens * (r + 1) + refillRate * (seconds + 1)
      BY <1>1 DEF Credit
    <2> HIDE DEF m, r
    <2>6. refillRate * m <= refillRate * (seconds + 1)
      BY <2>3, Monotone
    <2>7. maxTokens * (r + 1) = maxTokens * r + maxTokens
      <3>1. maxTokens * (r + 1) = maxTokens * r + maxTokens * 1
        BY <2>3, Distributes
      <3>2. maxTokens * 1 = maxTokens
        OBVIOUS
      <3> QED BY <3>1, <3>2
    <2>8. /\ maxTokens * r \in Nat /\ refillRate * m \in Nat
          /\ refillRate * (seconds + 1) \in Nat
      BY <2>3, Times
    <2>9. admitted[a] \in Nat
      BY <1>0 DEF TypeOK
    <2>10. Tokens(a) \in 0 .. maxTokens
      BY <1>0, TokensType
    <2> QED BY <2>1, <2>2, <2>4, <2>5, <2>6, <2>7, <2>8, <2>9, <2>10
  <1> QED BY <1>2, <1>3, <1>4 DEF IInv

\* A window begins with at most a full bucket and nothing admitted.
LEMMA WatchInv ==
  ASSUME IInv, Watch
  PROVE  IInv'
  <1>0. TypeOK /\ IdleIsRefilled /\ MapForgets /\ AdmittedBounded
    BY DEF IInv
  <1>1. /\ UNCHANGED <<visitors, since, verdict>>
        /\ watching' = TRUE /\ seconds' = 0 /\ restarts' = 0
    BY DEF Watch
  <1>2. TypeOK'
    <2>1. admitted' \in [Addresses -> Nat]
      BY DEF Watch
    <2> QED BY <1>0, <1>1, <2>1 DEF TypeOK
  <1>3. IdleIsRefilled' /\ MapForgets'
    BY <1>0, <1>1 DEF IdleIsRefilled, MapForgets
  <1>4. AdmittedBounded'
    <2> SUFFICES ASSUME NEW a \in Addresses
                 PROVE  admitted'[a] + Tokens(a)' <= Credit'
      BY DEF AdmittedBounded
    <2>1. admitted'[a] = 0
      BY DEF Watch
    <2>2. Tokens(a)' = Tokens(a) /\ Tokens(a) \in 0 .. maxTokens
      <3>1. Tokens(a) \in 0 .. maxTokens
        BY <1>0, TokensType
      <3> QED BY <1>1, <3>1 DEF Tokens
    <2> DEFINE n == 0 + (IF since < refillInterval THEN 1 ELSE 0)
    <2>3. n \in Nat
      BY <1>0 DEF TypeOK
    <2>4. Credit' = maxTokens * (0 + 1) + refillRate * n
      BY <1>1 DEF Credit
    <2> HIDE DEF n
    <2>5. maxTokens * (0 + 1) = maxTokens
      OBVIOUS
    <2>6. refillRate * n \in Nat
      BY <2>3, Times
    <2> QED BY <2>1, <2>2, <2>4, <2>5, <2>6
  <1> QED BY <1>2, <1>3, <1>4 DEF IInv

\* Every step keeps it.
LEMMA NextInv == IInv /\ [Next]_vars => IInv'
  <1> SUFFICES ASSUME IInv, [Next]_vars PROVE IInv'
    OBVIOUS
  <1>1. ASSUME NEW a \in Addresses, Admit(a) PROVE IInv'
    BY <1>1, AdmitInv
  <1>2. ASSUME NEW a \in Addresses, Refuse(a) PROVE IInv'
    BY <1>2, RefuseInv
  <1>3. CASE Refill
    BY <1>3, RefillInv
  <1>4. CASE Elapse
    BY <1>4, ElapseInv
  <1>5. CASE Restart
    BY <1>5, RestartInv
  <1>6. CASE Watch
    BY <1>6, WatchInv
  <1>7. CASE UNCHANGED vars
    BY <1>7 DEF IInv, vars, window, TypeOK, IdleIsRefilled, MapForgets,
                AdmittedBounded, Credit, Tokens
  <1> QED BY <1>1, <1>2, <1>3, <1>4, <1>5, <1>6, <1>7 DEF Next

\* The inductive invariant holds throughout.
LEMMA Invariant == Spec => []IInv
  BY InitInv, NextInv, PTL DEF Spec

-----------------------------------------------------------------------------
(* The theorems.                                                           *)

\* Visitors, counters and verdicts keep their types; a bucket never holds more
\* than maxTokens (ratelimit.go:29-31).
THEOREM TypeCorrect == Spec => []TypeOK
  <1>1. IInv => TypeOK
    BY DEF IInv
  <1> QED BY <1>1, Invariant, PTL

\* A bucket owes an idle visitor at most the refill that is due next.
THEOREM AlwaysRefilled == Spec => []IdleIsRefilled
  <1>1. IInv => IdleIsRefilled
    BY DEF IInv
  <1> QED BY <1>1, Invariant, PTL

\* A visitor is forgotten by the first refill after idleLimit
\* (ratelimit.go:32-34).
THEOREM Forgotten == Spec => []MapForgets
  <1>1. IInv => MapForgets
    BY DEF IInv
  <1> QED BY <1>1, Invariant, PTL

\* In any window an address gets no more requests through than a full bucket,
\* the refills of the window and its restarts allow (ratelimit.go:49-54).
THEOREM Bounded == Spec => []AdmittedBounded
  <1>1. IInv => AdmittedBounded
    BY DEF IInv
  <1> QED BY <1>1, Invariant, PTL

\* No visitors is a bucket per address, all of them full.
LEMMA InitRefines == Init => Buckets!Init
  BY DEF Init, Buckets!Init, Tokens

\* Each step of the middleware is a step of the buckets, or none.
LEMMA NextRefines ==
  ASSUME IInv, [Next]_vars
  PROVE  [Buckets!Next]_<<[a \in Addresses |-> Tokens(a)], verdict>>
  <1>0. TypeOK /\ IdleIsRefilled
    BY DEF IInv
  <1>1. ASSUME NEW a \in Addresses, Admit(a) PROVE Buckets!Admit(a)
    <2>1. Tokens(a) \in 0 .. maxTokens
      BY <1>0, TokensType
    <2> DEFINE b == [tokens |-> Tokens(a) - 1, idle |-> 0]
    <2>2. b \in Bucket
      BY <1>1, <2>1 DEF Admit, Bucket
    <2>3. b # None /\ b.tokens = Tokens(a) - 1
      BY <2>2, BucketIsVisitor
    <2>4. visitors' = [visitors EXCEPT ![a] = b]
      BY <1>1 DEF Admit
    <2> HIDE DEF b
    <2>5. Tokens(a)' = Tokens(a) - 1
      BY <1>0, <2>3, <2>4 DEF Tokens, TypeOK
    <2>6. ASSUME NEW c \in Addresses, c # a PROVE Tokens(c)' = Tokens(c)
      BY <1>0, <2>4, <2>6 DEF Tokens, TypeOK
    <2>7. [c \in Addresses |-> Tokens(c)']
              = [[c \in Addresses |-> Tokens(c)] EXCEPT ![a] = @ - 1]
      BY <2>5, <2>6
    <2> QED BY <1>1, <2>7 DEF Admit, Buckets!Admit
  <1>2. ASSUME NEW a \in Addresses, Refuse(a) PROVE Buckets!Refuse(a)
    <2>1. visitors[a] # None /\ visitors[a].tokens = 0 /\ visitors[a] \in Bucket
      BY <1>0, <1>2 DEF Refuse, Tokens, TypeOK
    <2> DEFINE b == [tokens |-> 0, idle |-> 0]
    <2>2. b \in Bucket
      BY DEF Bucket
    <2>3. b # None /\ b.tokens = 0
      BY <2>2, BucketIsVisitor
    <2>4. [visitors[a] EXCEPT !.idle = 0] = b
      BY <2>1 DEF Bucket
    <2>5. visitors' = [visitors EXCEPT ![a] = b]
      BY <1>0, <1>2, <2>4 DEF Refuse, TypeOK
    <2> HIDE DEF b
    <2>6. ASSUME NEW c \in Addresses PROVE Tokens(c)' = Tokens(c)
      <3>1. CASE c = a
        BY <1>0, <2>1, <2>3, <2>5, <3>1 DEF Tokens, TypeOK
      <3>2. CASE c # a
        BY <1>0, <2>5, <3>2 DEF Tokens, TypeOK
      <3> QED BY <3>1, <3>2
    <2>7. [c \in Addresses |-> Tokens(c)'] = [c \in Addresses |-> Tokens(c)]
      BY <2>6
    <2> QED BY <1>2, <2>7 DEF Refuse, Buckets!Refuse
  <1>3. CASE Refill
    <2>1. ASSUME NEW a \in Addresses
          PROVE  Tokens(a)' = Buckets!Min(Tokens(a) + refillRate, maxTokens)
      <3>1. Tokens(a)' = Refilled(Tokens(a)) /\ Tokens(a) \in 0 .. maxTokens
        BY <1>0, <1>3, RefillTokens, TokensType
      <3> QED BY <3>1 DEF Refilled, Buckets!Min
    <2>2. [a \in Addresses |-> Tokens(a)']
              = [a \in Addresses |->
                    Buckets!Min([c \in Addresses |-> Tokens(c)][a] + refillRate,
                                maxTokens)]
      BY <2>1
    <2>3. Buckets!Refill
      BY <1>3, <2>2 DEF Refill, Buckets!Refill
    <2> QED BY <2>3 DEF Buckets!Next
  <1>4. CASE Elapse
    <2>1. ASSUME NEW a \in Addresses PROVE Tokens(a)' = Tokens(a)
      <3>1. CASE visitors[a] = None
        BY <1>4, <3>1 DEF Elapse, Tokens
      <3>2. CASE visitors[a] # None
        <4>1. visitors[a] \in Bucket
          BY <1>0, <3>2 DEF TypeOK
        <4>2. visitors'[a] = [tokens |-> visitors[a].tokens,
                              idle   |-> visitors[a].idle + 1]
          BY <1>4, <3>2, <4>1 DEF Elapse, Bucket
        <4>3. visitors'[a] \in Bucket
          BY <4>1, <4>2 DEF Bucket
        <4> QED BY <3>2, <4>2, <4>3, BucketIsVisitor DEF Tokens
      <3> QED BY <3>1, <3>2
    <2>2. [a \in Addresses |-> Tokens(a)'] = [a \in Addresses |-> Tokens(a)]
      BY <2>1
    <2> QED BY <1>4, <2>2 DEF Elapse
  <1>5. CASE Restart
    <2>1. [a \in Addresses |-> Tokens(a)'] = [a \in Addresses |-> maxTokens]
      BY <1>5 DEF Restart, Tokens
    <2>2. Buckets!Restart
      BY <1>5, <2>1 DEF Restart, Buckets!Restart
    <2> QED BY <2>2 DEF Buckets!Next
  <1>6. CASE Watch
    <2>1. [a \in Addresses |-> Tokens(a)'] = [a \in Addresses |-> Tokens(a)]
      BY <1>6 DEF Watch, Tokens
    <2> QED BY <1>6, <2>1 DEF Watch
  <1>7. CASE UNCHANGED vars
    BY <1>7 DEF vars, Tokens
  <1> QED BY <1>1, <1>2, <1>3, <1>4, <1>5, <1>6, <1>7 DEF Next, Buckets!Next

\* What a request can see of the middleware is a bucket per address that is
\* never dropped, whichever visitors the loop forgets.
THEOREM Implements == Spec => ImplementsTokenBucket
  <1>1. IInv /\ [Next]_vars
            => [Buckets!Next]_<<[a \in Addresses |-> Tokens(a)], verdict>>
    BY NextRefines
  <1> QED BY <1>1, InitRefines, Invariant, PTL
          DEF Spec, ImplementsTokenBucket, Buckets!Spec
=============================================================================
