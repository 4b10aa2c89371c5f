-------------------------- MODULE FileStoreRefinement --------------------------
(* The statements of PushFile implement the compare-and-swap log. *)
EXTENDS FileStore_proofs, SequenceTheorems

LogBar == [p \in Paths |-> LogOf(p)]

(* A path holds one row per version, so looking a version up is looking at
   any row that has it. *)
LEMMA VersionAtIs ==
  ASSUME NEW S, NEW v \in S,
         \A w \in S : w.path = v.path /\ w.version = v.version => w = v
  PROVE  (CHOOSE w \in S : w.path = v.path /\ w.version = v.version) = v
  OBVIOUS

(* The abstract log of a path is as long as its latest version. *)
LEMMA LogLength ==
  ASSUME IInv, NEW p \in Paths
  PROVE  /\ latest[p] \in Nat
         /\ Len(LogOf(p)) = latest[p]
         /\ DOMAIN LogOf(p) = 1 .. latest[p]
<1>1. latest[p] \in Nat
  BY MaxBaseAssumption DEF IInv, TypeOK, Versions
<1> QED BY <1>1 DEF LogOf

(* A step that leaves the history, the answers and the committed pushes alone. *)
LEMMA LogStutter ==
  ASSUME UNCHANGED <<vault, latest, versions, req, answer>>, Committed' = Committed
  PROVE  UNCHANGED VL!vars
<1>1. UNCHANGED LogBar BY DEF LogBar, LogOf, VersionAt
<1> QED BY <1>1 DEF VL!vars, LogBar

(* Giving up tells the pusher something and changes no history. *)
LEMMA RollbackTells ==
  ASSUME IInv, NEW t \in Pushes, NEW status \in {"conflict", "failed", "lost"},
         pc[t] \in InTx \cup {"begin"}, Rollback(t, status)
  PROVE  /\ t \notin Committed
         /\ UNCHANGED LogBar
         /\ VL!Tell(t, status)
<1>1. t \notin Committed BY DEF Committed, InTx
<1>2. Committed' = Committed
  BY DEF IInv, TypeOK, Committed, Rollback, InTx, PushStates
<1>3. UNCHANGED <<vault, latest, versions, req>>
  BY DEF Rollback, tables
<1>4. UNCHANGED LogBar BY <1>3 DEF LogBar, LogOf, VersionAt
<1>5. answer[t] = "none"
  BY DEF IInv, TxInv, TypeOK, InTx
<1> QED BY <1>1, <1>2, <1>3, <1>4, <1>5 DEF VL!Tell, Rollback, LogBar

(* Answering 409 to a push whose base is not the latest version is the abstract
   refusal. *)
LEMMA ConflictRefuses ==
  ASSUME IInv, NEW t \in Pushes, pc[t] = "select", Rollback(t, "conflict"),
         latest[req[t].path] # req[t].base
  PROVE  VL!Refuse(t)
<1>1. req[t].path \in Paths BY DEF IInv, TypeOK, Request
<1>2. ~VL!AtBase(t) BY <1>1, LogLength DEF VL!AtBase
<1> QED BY <1>2, RollbackTells DEF VL!Refuse, InTx

(* The commit is the atomic compare-and-swap of the abstract log: the base equals
   the length of the log, and exactly one entry is appended. *)
LEMMA CommitAccepts ==
  ASSUME IInv, NEW t \in Pushes, Commit(t)
  PROVE  VL!Accept(t)
<1>0a. req[t].path \in Paths /\ req[t].base \in Nat
  BY DEF IInv, TypeOK, Request
<1>0b. PICK p \in Paths : p = req[t].path BY <1>0a
<1>0c. PICK n \in Nat \ {0} : n = req[t].base + 1 BY <1>0a
<1>0d. PICK e : e = [by |-> t, deleted |-> req[t].deleted] OBVIOUS
<1> USE <1>0b, <1>0c, <1>0d
<1>1. /\ p \in Paths /\ req[t].base \in Nat /\ vault
      /\ insVer[t] = n /\ setLatest[t] = n /\ latest[p] = req[t].base
      /\ pc[t] = "commit" /\ answer[t] = "none"
  BY DEF Commit, Goto, IInv, TypeOK, LockInv, TxInv, Holding, Request
<1>2. /\ latest' = [latest EXCEPT ![p] = n]
      /\ versions' = versions \cup {Written(t)}
      /\ UNCHANGED <<vault, req, answer>>
  BY <1>1 DEF Commit
<1>3. t \notin Committed /\ Committed' = Committed \cup {t}
  BY <1>1 DEF Commit, Goto, Committed, IInv, TypeOK, InTx, Versions
<1>4. VL!AtBase(t) BY <1>1, LogLength DEF VL!AtBase
<1>5. IInv' BY CommitInv
<1>6. \A q \in Paths, m \in Nat \ {0} :
        m <= latest[q] => VersionAt(q, m)' = VersionAt(q, m)
  <2> SUFFICES ASSUME NEW q \in Paths, NEW m \in Nat \ {0}, m <= latest[q]
               PROVE  VersionAt(q, m)' = VersionAt(q, m)
    OBVIOUS
  <2>1. PICK v \in versions : v.path = q /\ v.version = m
    BY LogLength DEF IInv, StoreInv, VersionsContiguous
  <2>2. VersionAt(q, m) = v
    BY <2>1, VersionAtIs DEF VersionAt, IInv, StoreInv, VersionsContiguous
  <2>3. v \in versions' BY <1>2
  <2>4. VersionAt(q, m)' = v
    BY <1>5, <2>1, <2>3, VersionAtIs DEF VersionAt, IInv, StoreInv,
          VersionsContiguous
  <2> QED BY <2>2, <2>4
<1>7. VersionAt(p, n)' = Written(t)
  <2>1. Written(t) \in versions' /\ Written(t).path = p /\ Written(t).version = n
    BY <1>1, <1>2 DEF Written
  <2> QED BY <1>5, <2>1, VersionAtIs
          DEF VersionAt, IInv, StoreInv, VersionsContiguous
<1>8. \A q \in Paths : q # p => LogOf(q)' = LogOf(q)
  <2> SUFFICES ASSUME NEW q \in Paths, q # p PROVE LogOf(q)' = LogOf(q)
    OBVIOUS
  <2>1. latest'[q] = latest[q] /\ latest[q] \in Nat
    BY <1>1, <1>2, LogLength DEF IInv, TypeOK
  <2> QED BY <2>1, <1>6 DEF LogOf
<1>9. LogOf(p)' = Append(LogOf(p), e)
  <2>1. latest'[p] = n /\ latest[p] = n - 1 /\ n \in Nat
    <3>1. latest \in [Paths -> {0} \cup Versions] BY DEF IInv, TypeOK
    <3> QED BY <1>1, <1>2, <3>1
  <2> DEFINE a == [i \in 1 .. n |-> IF i < n THEN LogOf(p)[i] ELSE e]
  <2>2. Append(LogOf(p), e) = a
    <3>1. Len(LogOf(p)) = n - 1 /\ LogOf(p) = [i \in 1 .. n - 1 |-> LogOf(p)[i]]
      BY <1>1, <2>1, LogLength DEF LogOf
    <3> HIDE <1>0b, <1>0c, <1>0d
    <3> QED BY <2>1, <3>1
  <2>3. \A i \in 1 .. n : LogOf(p)'[i] = a[i]
    <3> SUFFICES ASSUME NEW i \in 1 .. n PROVE LogOf(p)'[i] = a[i]
      OBVIOUS
    <3>1. CASE i = n
      <4>1. LogOf(p)'[n] = [by |-> VersionAt(p, n)'.by, deleted |-> VersionAt(p, n)'.deleted]
        BY <2>1 DEF LogOf
      <4> QED BY <4>1, <3>1, <1>7, <2>1 DEF Written
    <3>2. CASE i < n
      <4>1. LogOf(p)'[i] = [by |-> VersionAt(p, i)'.by, deleted |-> VersionAt(p, i)'.deleted]
        BY <2>1 DEF LogOf
      <4>2. LogOf(p)[i] = [by |-> VersionAt(p, i).by, deleted |-> VersionAt(p, i).deleted]
        BY <2>1, <3>2 DEF LogOf
      <4> QED BY <4>1, <4>2, <3>2, <1>1, <1>6, <2>1
    <3> QED BY <3>1, <3>2, <2>1
  <2>4. LogOf(p)' = [i \in 1 .. n |-> LogOf(p)'[i]]
    BY <2>1 DEF LogOf
  <2> QED BY <2>2, <2>3, <2>4
<1>10. LogBar' = [LogBar EXCEPT ![p] = Append(@, e)]
  BY <1>1, <1>8, <1>9 DEF LogBar
<1> QED BY <1>1, <1>2, <1>3, <1>4, <1>10 DEF VL!Accept, LogBar

(* Deleting the vault empties every log at once. *)
LEMMA DropDrops ==
  ASSUME IInv, DropVault
  PROVE  VL!Drop
<1>1. LogBar' = VL!Empty
  <2>1. \A p \in Paths : latest'[p] = 0 BY DEF DropVault
  <2>2. \A p \in Paths : LogOf(p)' = << >> BY <2>1 DEF LogOf
  <2> QED BY <2>2 DEF LogBar, VL!Empty
<1>2. Committed' = Committed BY DEF Committed, DropVault, pushing
<1> QED BY <1>1, <1>2 DEF VL!Drop, DropVault, pushing, LogBar

(* The HTTP answer tells the pusher what the commit did. *)
LEMMA AnswerTells ==
  ASSUME IInv, NEW t \in Pushes, NEW status \in {"ok", "lost"},
         pc[t] \in {"log", "reply"}, AnswerWith(t, status)
  PROVE  t \in Committed /\ VL!Tell(t, status)
<1>1. t \in Committed
  BY DEF IInv, TxInv, TypeOK, Request, Committed
<1>2. Committed' = Committed
  BY <1>1 DEF AnswerWith, Committed, IInv, TypeOK
<1>3. UNCHANGED <<vault, latest, versions, req>>
  BY DEF AnswerWith, tables
<1>4. UNCHANGED LogBar BY <1>3 DEF LogBar, LogOf, VersionAt
<1>5. answer[t] = "none" BY DEF IInv, TxInv
<1> QED BY <1>1, <1>2, <1>3, <1>4, <1>5 DEF VL!Tell, AnswerWith, LogBar

(* Every step of the store is a step of the log or changes nothing of it. *)
LEMMA StepRefines == IInv /\ [Next]_vars => [VL!Next]_(VL!vars)
<1> SUFFICES ASSUME IInv, [Next]_vars PROVE VL!Next \/ UNCHANGED VL!vars
  OBVIOUS
<1> USE DEF tables, pushing, pulling, Goto
<1>1. ASSUME NEW t \in Pushes, PushStep(t) \/ Arrive(t) \/ Abort(t) \/ LoseReply(t)
      PROVE  VL!Next \/ UNCHANGED VL!vars
  <2>1. CASE Arrive(t)
    BY <2>1, LogStutter DEF Arrive, Committed, IInv, TypeOK
  <2>2. CASE Begin(t)
    BY <2>2, LogStutter DEF Begin, Committed, IInv, TypeOK
  <2>3. CASE SelectNothing(t)
    <3>1. CASE req[t].base # 0 /\ pc[t] = "select" /\ Rollback(t, "conflict")
      <4>1. latest[req[t].path] = 0
        BY <2>3, MaxBaseAssumption
        DEF SelectNothing, IInv, StoreInv, VersionsContiguous, TypeOK, Request, Versions
      <4> QED BY <3>1, <4>1, ConflictRefuses DEF VL!Next
    <3>2. CASE Goto(t, "select", "insertFile")
      BY <2>3, <3>2, LogStutter, <3>1 DEF SelectNothing, Committed, IInv, TypeOK
    <3> QED BY <2>3, <3>1, <3>2 DEF SelectNothing
  <2>4. CASE SelectCurrent(t)
    BY <2>4, LogStutter DEF SelectCurrent, Committed, IInv, TypeOK
  <2>5. CASE SelectStale(t)
    BY <2>5, ConflictRefuses DEF SelectStale, Stale, VL!Next
  <2>6. CASE InsertFile(t)
    BY <2>6, LogStutter DEF InsertFile, Committed, IInv, TypeOK
  <2>7. CASE InsertFileFails(t)
    BY <2>7, RollbackTells DEF InsertFileFails, InTx, VL!Fail, VL!Next
  <2>8. CASE InsertVersion(t)
    <3>1. CASE pc[t] = "insertVersion" /\ Rollback(t, "failed")
      BY <3>1, RollbackTells DEF InTx, VL!Fail, VL!Next
    <3>2. CASE ~(pc[t] = "insertVersion" /\ Rollback(t, "failed"))
      BY <2>8, <3>2, LogStutter DEF InsertVersion, Committed, IInv, TypeOK
    <3> QED BY <3>1, <3>2
  <2>9. CASE UpdateFile(t)
    BY <2>9, LogStutter DEF UpdateFile, Committed, IInv, TypeOK
  <2>10. CASE Commit(t)
    BY <2>10, CommitAccepts DEF VL!Next
  <2>11. CASE LogPush(t)
    BY <2>11, LogStutter DEF LogPush, Committed, IInv, TypeOK
  <2>12. CASE Reply(t)
    BY <2>12, AnswerTells DEF Reply, VL!Acknowledge, VL!Next
  <2>13. CASE Abort(t)
    BY <2>13, RollbackTells DEF Abort, VL!LoseAnswer, VL!Next
  <2>14. CASE LoseReply(t)
    BY <2>14, AnswerTells DEF LoseReply, VL!LoseAnswer, VL!Next
  <2> QED BY <1>1, <2>1, <2>2, <2>3, <2>4, <2>5, <2>6, <2>7, <2>8, <2>9, <2>10,
             <2>11, <2>12, <2>13, <2>14 DEF PushStep
<1>2. ASSUME NEW r \in Pulls, PullStep(r) PROVE UNCHANGED VL!vars
  BY <1>2, LogStutter DEF PullStep, PullFile, PullVersion, Committed
<1>3. CASE DropVault BY <1>3, DropDrops DEF VL!Next
<1>4. CASE AllAnswered BY <1>4, LogStutter DEF AllAnswered, vars, Committed
<1>5. CASE UNCHANGED vars BY <1>5, LogStutter DEF vars, Committed
<1> QED BY <1>1, <1>2, <1>3, <1>4, <1>5 DEF Next

(* The empty store is the empty log. *)
LEMMA InitRefines == Init => VL!Init
<1> SUFFICES ASSUME Init PROVE VL!Init
  OBVIOUS
<1>1. \A p \in Paths : LogOf(p) = << >> BY DEF Init, LogOf
<1>2. Committed = {} BY DEF Init, Committed
<1>3. req \in [Pushes -> [path : Paths, base : Nat, deleted : BOOLEAN]]
  BY MaxBaseAssumption DEF Init, Request
<1> QED BY <1>1, <1>2, <1>3 DEF Init, VL!Init, VL!Empty

(* PushFile, on both engines and for any number of concurrent pushes, is an
   atomic compare-and-swap whose answers are true. *)
THEOREM Refinement == Spec => ImplementsVersionLog
<1>1. Init => VL!Init BY InitRefines
<1>2. IInv /\ [Next]_vars => [VL!Next]_(VL!vars) BY StepRefines
<1> QED BY <1>1, <1>2, Invariance, PTL DEF Spec, VL!Spec, ImplementsVersionLog
===============================================================================
