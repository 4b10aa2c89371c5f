---------------------------- MODULE FileStore_proofs ----------------------------
(* The invariant of FileStore, one lemma per action, and what follows from it. *)
EXTENDS FileStore, TLAPS

(* The empty tables satisfy the invariant. *)
LEMMA InitInv == Init => IInv
  BY MaxBaseAssumption, NoTxAssumption, EngineAssumption
  DEF Init, IInv, TypeOK, LockInv, TxInv, StoreInv, DeletedFlagCurrent, PullInv,
      PullNeverDangles, VersionsContiguous, Committed, Request, Versions, Version,
      PushStates, InTx, Holding

(* A push that gives up (defer tx.Rollback()) leaves the tables as they were and
   frees the lock and the connection, so the invariant survives whatever it is
   told. *)
LEMMA RollbackInv ==
  ASSUME IInv, NEW t \in Pushes, NEW status \in {"conflict", "failed", "lost"},
         pc[t] \in InTx \cup {"begin"}, Rollback(t, status)
  PROVE  IInv'
<1> USE MaxBaseAssumption, NoTxAssumption, EngineAssumption
<1> USE DEF IInv, tables, pushing, pulling, Goto, ConnFree, Release, Rollback,
      Available, TakeLock, Stale, SameVersion, Written, AnswerWith
<1>1. TypeOK'
  BY DEF TypeOK, TxInv, Request, Version, Versions, PushStates, InTx, Holding
<1>2. LockInv'
  BY DEF TypeOK, TxInv, LockInv, InTx, Holding, Request
<1>3. TxInv'
  BY DEF TypeOK, LockInv, TxInv, InTx, Holding, Request
<1>4. StoreInv'
  BY DEF TypeOK, LockInv, TxInv, StoreInv, VersionsContiguous, Committed, InTx,
        Holding, Request, Version, Versions
<1>5. DeletedFlagCurrent'
  BY DEF TypeOK, TxInv, StoreInv, VersionsContiguous, DeletedFlagCurrent, InTx,
        Holding, Version
<1>6. (audit \subseteq Committed)'
  BY DEF TypeOK, TxInv, Committed, InTx, Holding, Request
<1>7. PullInv'
  BY DEF TypeOK, TxInv, Versions, StoreInv, VersionsContiguous, PullInv, InTx,
        Holding, Request
<1>8. PullNeverDangles'
  BY DEF TypeOK, TxInv, PullInv, StoreInv, VersionsContiguous, PullNeverDangles,
        InTx, Holding
<1> QED BY <1>1, <1>2, <1>3, <1>4, <1>5, <1>6, <1>7, <1>8

(* A request that handlePush has decoded has written nothing yet. *)
LEMMA ArriveInv ==
  ASSUME IInv, NEW t \in Pushes, Arrive(t)
  PROVE  IInv'
<1> USE MaxBaseAssumption, NoTxAssumption, EngineAssumption
<1> USE DEF IInv, tables, pushing, pulling, Goto, ConnFree, Release, Rollback,
      Available, TakeLock, Stale, SameVersion, Written, AnswerWith
<1>1. TypeOK'
  BY DEF Arrive, TypeOK, TxInv, Request, Version, Versions, PushStates, InTx,
        Holding
<1>2. LockInv'
  BY DEF Arrive, TypeOK, TxInv, LockInv, InTx, Holding, Request
<1>3. TxInv'
  BY DEF Arrive, TypeOK, LockInv, TxInv, InTx, Holding, Request
<1>4. StoreInv'
  BY DEF Arrive, TypeOK, LockInv, TxInv, StoreInv, VersionsContiguous, Committed,
        InTx, Holding, Request, Version, Versions
<1>5. DeletedFlagCurrent'
  BY DEF Arrive, TypeOK, TxInv, StoreInv, VersionsContiguous, DeletedFlagCurrent,
        InTx, Holding, Version
<1>6. (audit \subseteq Committed)'
  BY DEF Arrive, TypeOK, TxInv, Committed, InTx, Holding, Request
<1>7. PullInv'
  BY DEF Arrive, TypeOK, TxInv, Versions, StoreInv, VersionsContiguous, PullInv,
        InTx, Holding, Request
<1>8. PullNeverDangles'
  BY DEF Arrive, TypeOK, TxInv, PullInv, StoreInv, VersionsContiguous,
        PullNeverDangles, InTx, Holding
<1> QED BY <1>1, <1>2, <1>3, <1>4, <1>5, <1>6, <1>7, <1>8

(* Opening a transaction takes at most the connection. *)
LEMMA BeginInv ==
  ASSUME IInv, NEW t \in Pushes, Begin(t)
  PROVE  IInv'
<1> USE MaxBaseAssumption, NoTxAssumption, EngineAssumption
<1> USE DEF IInv, tables, pushing, pulling, Goto, ConnFree, Release, Rollback,
      Available, TakeLock, Stale, SameVersion, Written, AnswerWith
<1>1. TypeOK'
  BY DEF Begin, TypeOK, TxInv, Request, Version, Versions, PushStates, InTx, Holding
<1>2. LockInv'
  BY DEF Begin, TypeOK, TxInv, LockInv, InTx, Holding, Request
<1>3. TxInv'
  BY DEF Begin, TypeOK, LockInv, TxInv, InTx, Holding, Request
<1>4. StoreInv'
  BY DEF Begin, TypeOK, LockInv, TxInv, StoreInv, VersionsContiguous, Committed,
        InTx, Holding, Request, Version, Versions
<1>5. DeletedFlagCurrent'
  BY DEF Begin, TypeOK, TxInv, StoreInv, VersionsContiguous, DeletedFlagCurrent,
        InTx, Holding, Version
<1>6. (audit \subseteq Committed)'
  BY DEF Begin, TypeOK, TxInv, Committed, InTx, Holding, Request
<1>7. PullInv'
  BY DEF Begin, TypeOK, TxInv, Versions, StoreInv, VersionsContiguous, PullInv,
        InTx, Holding, Request
<1>8. PullNeverDangles'
  BY DEF Begin, TypeOK, TxInv, PullInv, StoreInv, VersionsContiguous,
        PullNeverDangles, InTx, Holding
<1> QED BY <1>1, <1>2, <1>3, <1>4, <1>5, <1>6, <1>7, <1>8

(* The UPDATE of files is pending in the transaction: no committed row changes. *)
LEMMA UpdateFileInv ==
  ASSUME IInv, NEW t \in Pushes, UpdateFile(t)
  PROVE  IInv'
<1> USE MaxBaseAssumption, NoTxAssumption, EngineAssumption
<1> USE DEF IInv, tables, pushing, pulling, Goto, ConnFree, Release, Rollback,
      Available, TakeLock, Stale, SameVersion, Written, AnswerWith
<1>1. TypeOK'
  BY DEF UpdateFile, TypeOK, TxInv, Request, Version, Versions, PushStates, InTx,
        Holding
<1>2. LockInv'
  BY DEF UpdateFile, TypeOK, TxInv, LockInv, InTx, Holding, Request
<1>3. TxInv'
  BY DEF UpdateFile, TypeOK, LockInv, TxInv, InTx, Holding, Request
<1>4. StoreInv'
  BY DEF UpdateFile, TypeOK, LockInv, TxInv, StoreInv, VersionsContiguous,
        Committed, InTx, Holding, Request, Version, Versions
<1>5. DeletedFlagCurrent'
  BY DEF UpdateFile, TypeOK, TxInv, StoreInv, VersionsContiguous,
        DeletedFlagCurrent, InTx, Holding, Version
<1>6. (audit \subseteq Committed)'
  BY DEF UpdateFile, TypeOK, TxInv, Committed, InTx, Holding, Request
<1>7. PullInv'
  BY DEF UpdateFile, TypeOK, TxInv, Versions, StoreInv, VersionsContiguous, PullInv,
        InTx, Holding, Request
<1>8. PullNeverDangles'
  BY DEF UpdateFile, TypeOK, TxInv, PullInv, StoreInv, VersionsContiguous,
        PullNeverDangles, InTx, Holding
<1> QED BY <1>1, <1>2, <1>3, <1>4, <1>5, <1>6, <1>7, <1>8

(* The commit is where the history grows: the row that was checked against
   latest_version under the lock becomes the next version of its path, and the
   copies in files move with it. *)
LEMMA CommitInv ==
  ASSUME IInv, NEW t \in Pushes, Commit(t)
  PROVE  IInv'
<1> USE MaxBaseAssumption, NoTxAssumption, EngineAssumption
<1> USE DEF IInv, tables, pushing, pulling, Goto, ConnFree, Release, Rollback,
      Available, TakeLock, Stale, SameVersion, Written, AnswerWith
<1>1. TypeOK'
  BY DEF Commit, TypeOK, TxInv, Request, Version, Versions, PushStates, InTx,
        Holding
<1>2. LockInv'
  BY DEF Commit, TypeOK, TxInv, LockInv, InTx, Holding, Request
<1>3. TxInv'
  BY DEF Commit, TypeOK, LockInv, TxInv, InTx, Holding, Request
<1>4. StoreInv'
  <2> DEFINE p == req[t].path
             n == req[t].base + 1
  <2>1. /\ p \in Paths /\ n \in Versions /\ vault /\ vault'
        /\ pc[t] = "commit" /\ insVer[t] = n /\ setLatest[t] = n
        /\ latest[p] = n - 1 /\ (insFile[t] <=> p \notin rows)
    BY DEF Commit, TypeOK, LockInv, TxInv, Holding, Request, Versions
  <2>2. /\ latest' = [latest EXCEPT ![p] = n]
        /\ versions' = versions \cup {Written(t)}
        /\ rows' = rows \cup {p}
        /\ Written(t).path = p /\ Written(t).version = n /\ Written(t).by = t
    BY <2>1 DEF Commit
  <2>3. Committed' = Committed \cup {t}
    BY <2>1 DEF Commit, Committed, TypeOK, InTx, Versions
  <2>4. \A u \in Pushes : Written(u)' = Written(u)
    BY DEF Commit
  <2>5. VersionsContiguous'
    <3>1. (\A q \in Paths : latest[q] > 0 <=> q \in rows)'
      BY <2>1, <2>2 DEF StoreInv, VersionsContiguous, TypeOK, Versions
    <3> DEFINE new == Written(t)
    <3>a. /\ versions' = versions \cup {new}
          /\ new.path = p /\ new.version = n /\ new.by = t
      BY <2>2
    <3>b. /\ \A q \in Paths : latest[q] \in Nat
          /\ n \in Nat /\ n > 0 /\ p \in Paths
          /\ latest'[p] = n /\ latest[p] = n - 1
          /\ \A q \in Paths : q # p => latest'[q] = latest[q]
      BY <2>1, <2>2 DEF TypeOK, Versions
    <3>c. \A v \in versions : v.path \in Paths /\ v.version \in 1 .. latest[v.path]
      BY DEF StoreInv, VersionsContiguous, TypeOK, Version
    <3> HIDE DEF new, p, n
    <3>2. \A v \in versions' : v.version \in 1 .. latest'[v.path]
      <4> SUFFICES ASSUME NEW v \in versions'
                   PROVE  v.version \in 1 .. latest'[v.path]
        OBVIOUS
      <4>1. CASE v = new BY <4>1, <3>a, <3>b
      <4>2. CASE v \in versions BY <4>2, <3>b, <3>c
      <4> QED BY <4>1, <4>2, <3>a
    <3>3. \A q \in Paths : \A m \in 1 .. latest'[q] :
             \E v \in versions' : v.path = q /\ v.version = m
      <4> SUFFICES ASSUME NEW q \in Paths, NEW m \in 1 .. latest'[q]
                   PROVE  \E v \in versions' : v.path = q /\ v.version = m
        OBVIOUS
      <4>1. CASE q = p /\ m = n BY <4>1, <3>a
      <4>2. CASE ~(q = p /\ m = n)
        <5>1. m \in 1 .. latest[q] BY <4>2, <3>b
        <5> QED BY <5>1, <3>a DEF StoreInv, VersionsContiguous
      <4> QED BY <4>1, <4>2
    <3>4. \A v, w \in versions' : v.path = w.path /\ v.version = w.version => v = w
      <4>1. \A v \in versions : ~(v.path = p /\ v.version = n) BY <3>b, <3>c
      <4>2. \A v, w \in versions : v.path = w.path /\ v.version = w.version => v = w
        BY DEF StoreInv, VersionsContiguous
      <4> QED BY <4>1, <4>2, <3>a
    <3> QED BY <3>1, <3>2, <3>3, <3>4 DEF VersionsContiguous
  <2>6. \A v \in versions' : v.by \in Committed' /\ v = Written(v.by)'
    <3>1. \A v \in versions : v.by \in Pushes /\ v.by \in Committed /\ v = Written(v.by)
      BY DEF StoreInv, Committed
    <3> HIDE DEF Written
    <3> QED BY <3>1, <2>2, <2>3, <2>4
  <2>7. \A u \in Committed' : Written(u)' \in versions'
    <3>1. Committed \subseteq Pushes /\ \A u \in Committed : Written(u) \in versions
      BY <2>1 DEF StoreInv, Committed
    <3> HIDE DEF Written
    <3> QED BY <3>1, <2>2, <2>3, <2>4
  <2> QED BY <2>1, <2>5, <2>6, <2>7 DEF StoreInv
<1>5. DeletedFlagCurrent'
  BY DEF Commit, TypeOK, TxInv, StoreInv, VersionsContiguous, DeletedFlagCurrent,
        InTx, Holding, Version
<1>6. (audit \subseteq Committed)'
  BY DEF Commit, TypeOK, TxInv, Committed, InTx, Holding, Request
<1>7. PullInv'
  BY DEF Commit, TypeOK, TxInv, Versions, StoreInv, VersionsContiguous, PullInv,
        InTx, Holding, Request
<1>8. PullNeverDangles'
  BY DEF Commit, TypeOK, TxInv, PullInv, StoreInv, VersionsContiguous,
        PullNeverDangles, InTx, Holding
<1> QED BY <1>1, <1>2, <1>3, <1>4, <1>5, <1>6, <1>7, <1>8

(* The audit row is written after the commit, for a push that is stored. *)
LEMMA LogPushInv ==
  ASSUME IInv, NEW t \in Pushes, LogPush(t)
  PROVE  IInv'
<1> USE MaxBaseAssumption, NoTxAssumption, EngineAssumption
<1> USE DEF IInv, tables, pushing, pulling, Goto, ConnFree, Release, Rollback,
      Available, TakeLock, Stale, SameVersion, Written, AnswerWith
<1>1. TypeOK'
  BY DEF LogPush, TypeOK, TxInv, Request, Version, Versions, PushStates, InTx,
        Holding
<1>2. LockInv'
  BY DEF LogPush, TypeOK, TxInv, LockInv, InTx, Holding, Request
<1>3. TxInv'
  BY DEF LogPush, TypeOK, LockInv, TxInv, InTx, Holding, Request
<1>4. StoreInv'
  BY DEF LogPush, TypeOK, LockInv, TxInv, StoreInv, VersionsContiguous, Committed,
        InTx, Holding, Request, Version, Versions
<1>5. DeletedFlagCurrent'
  BY DEF LogPush, TypeOK, TxInv, StoreInv, VersionsContiguous, DeletedFlagCurrent,
        InTx, Holding, Version
<1>6. (audit \subseteq Committed)'
  BY DEF LogPush, TypeOK, TxInv, Committed, InTx, Holding, Request
<1>7. PullInv'
  BY DEF LogPush, TypeOK, TxInv, Versions, StoreInv, VersionsContiguous, PullInv,
        InTx, Holding, Request
<1>8. PullNeverDangles'
  BY DEF LogPush, TypeOK, TxInv, PullInv, StoreInv, VersionsContiguous,
        PullNeverDangles, InTx, Holding
<1> QED BY <1>1, <1>2, <1>3, <1>4, <1>5, <1>6, <1>7, <1>8

(* The answer of a committed push names the version it stored. *)
LEMMA ReplyInv ==
  ASSUME IInv, NEW t \in Pushes, Reply(t)
  PROVE  IInv'
<1> USE MaxBaseAssumption, NoTxAssumption, EngineAssumption
<1> USE DEF IInv, tables, pushing, pulling, Goto, ConnFree, Release, Rollback,
      Available, TakeLock, Stale, SameVersion, Written, AnswerWith
<1>1. TypeOK'
  BY DEF Reply, TypeOK, TxInv, Request, Version, Versions, PushStates, InTx, Holding
<1>2. LockInv'
  BY DEF Reply, TypeOK, TxInv, LockInv, InTx, Holding, Request
<1>3. TxInv'
  BY DEF Reply, TypeOK, LockInv, TxInv, InTx, Holding, Request
<1>4. StoreInv'
  BY DEF Reply, TypeOK, LockInv, TxInv, StoreInv, VersionsContiguous, Committed,
        InTx, Holding, Request, Version, Versions
<1>5. DeletedFlagCurrent'
  BY DEF Reply, TypeOK, TxInv, StoreInv, VersionsContiguous, DeletedFlagCurrent,
        InTx, Holding, Version
<1>6. (audit \subseteq Committed)'
  BY DEF Reply, TypeOK, TxInv, Committed, InTx, Holding, Request
<1>7. PullInv'
  BY DEF Reply, TypeOK, TxInv, Versions, StoreInv, VersionsContiguous, PullInv,
        InTx, Holding, Request
<1>8. PullNeverDangles'
  BY DEF Reply, TypeOK, TxInv, PullInv, StoreInv, VersionsContiguous,
        PullNeverDangles, InTx, Holding
<1> QED BY <1>1, <1>2, <1>3, <1>4, <1>5, <1>6, <1>7, <1>8

(* Losing the answer changes what the client knows and nothing else. *)
LEMMA LoseReplyInv ==
  ASSUME IInv, NEW t \in Pushes, LoseReply(t)
  PROVE  IInv'
<1> USE MaxBaseAssumption, NoTxAssumption, EngineAssumption
<1> USE DEF IInv, tables, pushing, pulling, Goto, ConnFree, Release, Rollback,
      Available, TakeLock, Stale, SameVersion, Written, AnswerWith
<1>1. TypeOK'
  BY DEF LoseReply, TypeOK, TxInv, Request, Version, Versions, PushStates, InTx,
        Holding
<1>2. LockInv'
  BY DEF LoseReply, TypeOK, TxInv, LockInv, InTx, Holding, Request
<1>3. TxInv'
  BY DEF LoseReply, TypeOK, LockInv, TxInv, InTx, Holding, Request
<1>4. StoreInv'
  BY DEF LoseReply, TypeOK, LockInv, TxInv, StoreInv, VersionsContiguous, Committed,
        InTx, Holding, Request, Version, Versions
<1>5. DeletedFlagCurrent'
  BY DEF LoseReply, TypeOK, TxInv, StoreInv, VersionsContiguous, DeletedFlagCurrent,
        InTx, Holding, Version
<1>6. (audit \subseteq Committed)'
  BY DEF LoseReply, TypeOK, TxInv, Committed, InTx, Holding, Request
<1>7. PullInv'
  BY DEF LoseReply, TypeOK, TxInv, Versions, StoreInv, VersionsContiguous, PullInv,
        InTx, Holding, Request
<1>8. PullNeverDangles'
  BY DEF LoseReply, TypeOK, TxInv, PullInv, StoreInv, VersionsContiguous,
        PullNeverDangles, InTx, Holding
<1> QED BY <1>1, <1>2, <1>3, <1>4, <1>5, <1>6, <1>7, <1>8

(* The first query of a pull notes a version that is in the history. *)
LEMMA PullFileInv ==
  ASSUME IInv, NEW r \in Pulls, PullFile(r)
  PROVE  IInv'
<1> USE MaxBaseAssumption, NoTxAssumption, EngineAssumption
<1> USE DEF IInv, tables, pushing, pulling, Goto, ConnFree, Release, Rollback,
      Available, TakeLock, Stale, SameVersion, Written, AnswerWith
<1>1. TypeOK'
  <2>1. want' \in [Pulls -> {0} \cup Versions]
    BY DEF PullFile, TypeOK, Versions
  <2>2. rpc' \in [Pulls -> {"idle", "version", "ok", "notFound"}]
    BY DEF PullFile, TypeOK
  <2> QED BY <2>1, <2>2 DEF PullFile, TypeOK
<1>2. LockInv'
  BY DEF PullFile, TypeOK, TxInv, LockInv, InTx, Holding, Request
<1>3. TxInv'
  BY DEF PullFile, TypeOK, LockInv, TxInv, InTx, Holding, Request
<1>4. StoreInv'
  BY DEF PullFile, TypeOK, LockInv, TxInv, StoreInv, VersionsContiguous, Committed,
        InTx, Holding, Request, Version, Versions
<1>5. DeletedFlagCurrent'
  BY DEF PullFile, TypeOK, TxInv, StoreInv, VersionsContiguous, DeletedFlagCurrent,
        InTx, Holding, Version
<1>6. (audit \subseteq Committed)'
  BY DEF PullFile, TypeOK, TxInv, Committed, InTx, Holding, Request
<1>7. PullInv'
  BY DEF PullFile, TypeOK, TxInv, Versions, StoreInv, VersionsContiguous, PullInv,
        InTx, Holding, Request
<1>8. PullNeverDangles'
  BY DEF PullFile, TypeOK, TxInv, PullInv, StoreInv, VersionsContiguous,
        PullNeverDangles, InTx, Holding
<1> QED BY <1>1, <1>2, <1>3, <1>4, <1>5, <1>6, <1>7, <1>8

(* The second query finds that version, as no version is ever taken away but
   with its whole vault. *)
LEMMA PullVersionInv ==
  ASSUME IInv, NEW r \in Pulls, PullVersion(r)
  PROVE  IInv'
<1> USE MaxBaseAssumption, NoTxAssumption, EngineAssumption
<1> USE DEF IInv, tables, pushing, pulling, Goto, ConnFree, Release, Rollback,
      Available, TakeLock, Stale, SameVersion, Written, AnswerWith
<1>1. TypeOK'
  BY DEF PullVersion, TypeOK, TxInv, Request, Version, Versions, PushStates, InTx,
        Holding
<1>2. LockInv'
  BY DEF PullVersion, TypeOK, TxInv, LockInv, InTx, Holding, Request
<1>3. TxInv'
  BY DEF PullVersion, TypeOK, LockInv, TxInv, InTx, Holding, Request
<1>4. StoreInv'
  BY DEF PullVersion, TypeOK, LockInv, TxInv, StoreInv, VersionsContiguous,
        Committed, InTx, Holding, Request, Version, Versions
<1>5. DeletedFlagCurrent'
  BY DEF PullVersion, TypeOK, TxInv, StoreInv, VersionsContiguous,
        DeletedFlagCurrent, InTx, Holding, Version
<1>6. (audit \subseteq Committed)'
  BY DEF PullVersion, TypeOK, TxInv, Committed, InTx, Holding, Request
<1>7. PullInv'
  BY DEF PullVersion, TypeOK, TxInv, Versions, StoreInv, VersionsContiguous,
        PullInv, InTx, Holding, Request
<1>8. PullNeverDangles'
  BY DEF PullVersion, TypeOK, TxInv, PullInv, StoreInv, VersionsContiguous,
        PullNeverDangles, InTx, Holding
<1> QED BY <1>1, <1>2, <1>3, <1>4, <1>5, <1>6, <1>7, <1>8

(* The cascade of a deleted vault removes files and versions together. *)
LEMMA DropVaultInv ==
  ASSUME IInv, DropVault
  PROVE  IInv'
<1> USE MaxBaseAssumption, NoTxAssumption, EngineAssumption
<1> USE DEF IInv, tables, pushing, pulling, Goto, ConnFree, Release, Rollback,
      Available, TakeLock, Stale, SameVersion, Written, AnswerWith
<1>1. TypeOK'
  BY DEF DropVault, TypeOK, TxInv, Request, Version, Versions, PushStates, InTx,
        Holding
<1>2. LockInv'
  BY DEF DropVault, TypeOK, TxInv, LockInv, InTx, Holding, Request
<1>3. TxInv'
  BY DEF DropVault, TypeOK, LockInv, TxInv, InTx, Holding, Request
<1>4. StoreInv'
  BY DEF DropVault, TypeOK, LockInv, TxInv, StoreInv, VersionsContiguous, Committed,
        InTx, Holding, Request, Version, Versions
<1>5. DeletedFlagCurrent'
  BY DEF DropVault, TypeOK, TxInv, StoreInv, VersionsContiguous, DeletedFlagCurrent,
        InTx, Holding, Version
<1>6. (audit \subseteq Committed)'
  BY DEF DropVault, TypeOK, TxInv, Committed, InTx, Holding, Request
<1>7. PullInv'
  BY DEF DropVault, TypeOK, TxInv, Versions, StoreInv, VersionsContiguous, PullInv,
        InTx, Holding, Request
<1>8. PullNeverDangles'
  BY DEF DropVault, TypeOK, TxInv, PullInv, StoreInv, VersionsContiguous,
        PullNeverDangles, InTx, Holding
<1> QED BY <1>1, <1>2, <1>3, <1>4, <1>5, <1>6, <1>7, <1>8

(* The SELECT that finds the expected version locks the row of its path. *)
LEMMA SelectCurrentInv ==
  ASSUME IInv, NEW t \in Pushes, SelectCurrent(t)
  PROVE  IInv'
<1> USE MaxBaseAssumption, NoTxAssumption, EngineAssumption
<1> USE DEF IInv, tables, pushing, pulling, Goto, ConnFree, Release, Rollback,
      Available, TakeLock, Stale, SameVersion, Written, AnswerWith
<1>1. TypeOK'
  BY DEF SelectCurrent, TypeOK, TxInv, Request, Version, Versions, PushStates, InTx,
        Holding
<1>2. LockInv'
  <2>1. CASE Engine = "postgres"
    <3>1. /\ lock' = [lock EXCEPT ![req[t].path] = t]
          /\ pc' = [pc EXCEPT ![t] = "insertVersion"]
          /\ lock[req[t].path] \in {NoTx, t} /\ req[t].path \in Paths
          /\ pc[t] = "select" /\ vault
      BY <2>1 DEF SelectCurrent, TypeOK, Request, StoreInv
    <3> QED BY <2>1, <3>1 DEF SelectCurrent, TypeOK, LockInv, Holding, Request
  <2>2. CASE Engine = "sqlite"
    BY <2>2 DEF SelectCurrent, TypeOK, LockInv, StoreInv, InTx, Holding, Request
  <2> QED BY <2>1, <2>2
<1>3. TxInv'
  BY DEF SelectCurrent, TypeOK, LockInv, TxInv, InTx, Holding, Request
<1>4. StoreInv'
  BY DEF SelectCurrent, TypeOK, LockInv, TxInv, StoreInv, VersionsContiguous,
        Committed, InTx, Holding, Request, Version, Versions
<1>5. DeletedFlagCurrent'
  BY DEF SelectCurrent, TypeOK, TxInv, StoreInv, VersionsContiguous,
        DeletedFlagCurrent, InTx, Holding, Version
<1>6. (audit \subseteq Committed)'
  BY DEF SelectCurrent, TypeOK, TxInv, Committed, InTx, Holding, Request
<1>7. PullInv'
  BY DEF SelectCurrent, TypeOK, TxInv, Versions, StoreInv, VersionsContiguous,
        PullInv, InTx, Holding, Request
<1>8. PullNeverDangles'
  BY DEF SelectCurrent, TypeOK, TxInv, PullInv, StoreInv, VersionsContiguous,
        PullNeverDangles, InTx, Holding
<1> QED BY <1>1, <1>2, <1>3, <1>4, <1>5, <1>6, <1>7, <1>8

(* The INSERT of a first push is pending in the transaction. *)
LEMMA InsertFileInv ==
  ASSUME IInv, NEW t \in Pushes, InsertFile(t)
  PROVE  IInv'
<1> USE MaxBaseAssumption, NoTxAssumption, EngineAssumption
<1> USE DEF IInv, tables, pushing, pulling, Goto, ConnFree, Release, Rollback,
      Available, TakeLock, Stale, SameVersion, Written, AnswerWith
<1>1. TypeOK'
  BY DEF InsertFile, TypeOK, TxInv, Request, Version, Versions, PushStates, InTx,
        Holding
<1>2. LockInv'
  BY DEF InsertFile, TypeOK, TxInv, LockInv, InTx, Holding, Request
<1>3. TxInv'
  BY DEF InsertFile, TypeOK, LockInv, TxInv, StoreInv, VersionsContiguous, InTx,
         Holding, Request, Versions
<1>4. StoreInv'
  BY DEF InsertFile, TypeOK, LockInv, TxInv, StoreInv, VersionsContiguous,
        Committed, InTx, Holding, Request, Version, Versions
<1>5. DeletedFlagCurrent'
  BY DEF InsertFile, TypeOK, TxInv, StoreInv, VersionsContiguous,
        DeletedFlagCurrent, InTx, Holding, Version
<1>6. (audit \subseteq Committed)'
  BY DEF InsertFile, TypeOK, TxInv, Committed, InTx, Holding, Request
<1>7. PullInv'
  BY DEF InsertFile, TypeOK, TxInv, Versions, StoreInv, VersionsContiguous, PullInv,
        InTx, Holding, Request
<1>8. PullNeverDangles'
  BY DEF InsertFile, TypeOK, TxInv, PullInv, StoreInv, VersionsContiguous,
        PullNeverDangles, InTx, Holding
<1> QED BY <1>1, <1>2, <1>3, <1>4, <1>5, <1>6, <1>7, <1>8

(* A SELECT that finds no row goes on to the INSERT when nothing was expected. *)
LEMMA SelectNothingGoes ==
  ASSUME IInv, NEW t \in Pushes, Goto(t, "select", "insertFile"), req[t].base = 0,
         UNCHANGED <<tables, lock, conn, req, seen, insFile, insVer, setLatest, answer,
                     pulling>>
  PROVE  IInv'
<1> USE MaxBaseAssumption, NoTxAssumption, EngineAssumption
<1> USE DEF IInv, tables, pushing, pulling, Goto, ConnFree, Release, Rollback,
      Available, TakeLock, Stale, SameVersion, Written, AnswerWith
<1>1. TypeOK'
  BY DEF TypeOK, TxInv, Request, Version, Versions, PushStates, InTx, Holding
<1>2. LockInv'
  BY DEF TypeOK, TxInv, LockInv, InTx, Holding, Request
<1>3. TxInv'
  BY DEF TypeOK, LockInv, TxInv, InTx, Holding, Request
<1>4. StoreInv'
  BY DEF TypeOK, LockInv, TxInv, StoreInv, VersionsContiguous, Committed, InTx,
        Holding, Request, Version, Versions
<1>5. DeletedFlagCurrent'
  BY DEF TypeOK, TxInv, StoreInv, VersionsContiguous, DeletedFlagCurrent, InTx,
        Holding, Version
<1>6. (audit \subseteq Committed)'
  BY DEF TypeOK, TxInv, Committed, InTx, Holding, Request
<1>7. PullInv'
  BY DEF TypeOK, TxInv, Versions, StoreInv, VersionsContiguous, PullInv, InTx,
        Holding, Request
<1>8. PullNeverDangles'
  BY DEF TypeOK, TxInv, PullInv, StoreInv, VersionsContiguous, PullNeverDangles,
        InTx, Holding
<1> QED BY <1>1, <1>2, <1>3, <1>4, <1>5, <1>6, <1>7, <1>8

(* The INSERT INTO file_versions is pending in the transaction. *)
LEMMA InsertVersionGoes ==
  ASSUME IInv, NEW t \in Pushes, Goto(t, "insertVersion", "update"),
         insVer' = [insVer EXCEPT ![t] = seen[t] + 1],
         UNCHANGED <<tables, lock, conn, req, seen, insFile, setLatest, answer,
                     pulling>>
  PROVE  IInv'
<1> USE MaxBaseAssumption, NoTxAssumption, EngineAssumption
<1> USE DEF IInv, tables, pushing, pulling, Goto, ConnFree, Release, Rollback,
      Available, TakeLock, Stale, SameVersion, Written, AnswerWith
<1>1. TypeOK'
  BY DEF TypeOK, TxInv, Request, Version, Versions, PushStates, InTx, Holding
<1>2. LockInv'
  BY DEF TypeOK, TxInv, LockInv, InTx, Holding, Request
<1>3. TxInv'
  BY DEF TypeOK, LockInv, TxInv, InTx, Holding, Request
<1>4. StoreInv'
  BY DEF TypeOK, LockInv, TxInv, StoreInv, VersionsContiguous, Committed, InTx,
        Holding, Request, Version, Versions
<1>5. DeletedFlagCurrent'
  BY DEF TypeOK, TxInv, StoreInv, VersionsContiguous, DeletedFlagCurrent, InTx,
        Holding, Version
<1>6. (audit \subseteq Committed)'
  BY DEF TypeOK, TxInv, Committed, InTx, Holding, Request
<1>7. PullInv'
  BY DEF TypeOK, TxInv, Versions, StoreInv, VersionsContiguous, PullInv, InTx,
        Holding, Request
<1>8. PullNeverDangles'
  BY DEF TypeOK, TxInv, PullInv, StoreInv, VersionsContiguous, PullNeverDangles,
        InTx, Holding
<1> QED BY <1>1, <1>2, <1>3, <1>4, <1>5, <1>6, <1>7, <1>8

(* A statement that may end its transaction: both ways keep the invariant. *)
LEMMA SelectNothingInv ==
  ASSUME IInv, NEW t \in Pushes, SelectNothing(t)
  PROVE  IInv'
  BY RollbackInv, SelectNothingGoes DEF SelectNothing, InTx

(* A stale push is told so and rolls back. *)
LEMMA SelectStaleInv ==
  ASSUME IInv, NEW t \in Pushes, SelectStale(t)
  PROVE  IInv'
  BY RollbackInv DEF SelectStale, InTx

(* The UNIQUE (vault_id, path) constraint makes the loser of two first pushes
   roll back. *)
LEMMA InsertFileFailsInv ==
  ASSUME IInv, NEW t \in Pushes, InsertFileFails(t)
  PROVE  IInv'
  BY RollbackInv DEF InsertFileFails, InTx

(* The INSERT INTO file_versions, or the rollback on its UNIQUE constraint. *)
LEMMA InsertVersionInv ==
  ASSUME IInv, NEW t \in Pushes, InsertVersion(t)
  PROVE  IInv'
  BY RollbackInv, InsertVersionGoes DEF InsertVersion, InTx

(* Any statement may fail, or the connection may break: the push rolls back. *)
LEMMA AbortInv ==
  ASSUME IInv, NEW t \in Pushes, Abort(t)
  PROVE  IInv'
  BY RollbackInv DEF Abort

(* A step that changes no variable keeps the invariant. *)
LEMMA StutterInv ==
  ASSUME IInv, UNCHANGED vars
  PROVE  IInv'
  BY DEF IInv, vars, tables, pushing, pulling, TypeOK, LockInv, TxInv, StoreInv,
         DeletedFlagCurrent, PullInv, PullNeverDangles, VersionsContiguous,
         Committed, Written

(* Every step keeps the inductive invariant. *)
LEMMA NextInv == IInv /\ [Next]_vars => IInv'
<1> SUFFICES ASSUME IInv, [Next]_vars PROVE IInv'
  OBVIOUS
<1>1. ASSUME NEW t \in Pushes, Arrive(t) \/ PushStep(t) \/ Abort(t) \/ LoseReply(t)
      PROVE  IInv'
  <2>1. CASE Arrive(t) BY <2>1, ArriveInv
  <2>2. CASE PushStep(t)
    BY <2>2, BeginInv, SelectNothingInv, SelectCurrentInv, SelectStaleInv,
       InsertFileInv, InsertFileFailsInv, InsertVersionInv, UpdateFileInv,
       CommitInv, LogPushInv, ReplyInv DEF PushStep
  <2>3. CASE Abort(t) BY <2>3, AbortInv
  <2>4. CASE LoseReply(t) BY <2>4, LoseReplyInv
  <2> QED BY <1>1, <2>1, <2>2, <2>3, <2>4
<1>2. ASSUME NEW r \in Pulls, PullStep(r) PROVE IInv'
  BY <1>2, PullFileInv, PullVersionInv DEF PullStep
<1>3. CASE DropVault BY <1>3, DropVaultInv
<1>4. CASE AllAnswered BY <1>4, StutterInv DEF AllAnswered
<1>5. CASE UNCHANGED vars BY <1>5, StutterInv
<1> QED BY <1>1, <1>2, <1>3, <1>4, <1>5 DEF Next

(* In every reachable state of Spec, for any number of pushes, pulls and
   paths and on both engines, the inductive invariant of PushFile holds. *)
THEOREM Invariance == Spec => []IInv
<1>1. Init => IInv BY InitInv
<1>2. IInv /\ [Next]_vars => IInv' BY NextInv
<1> QED BY <1>1, <1>2, PTL DEF Spec

(* Every variable keeps its type; no version exceeds MaxBase + 1. *)
THEOREM TypeCorrect == Spec => []TypeOK
<1>1. IInv => TypeOK BY DEF IInv
<1> QED BY <1>1, Invariance, PTL

(* The history of every path is 1 .. latest_version with no hole and no
   duplicate, whatever the interleaving of statements, aborts and drops. *)
THEOREM HistoryContiguous == Spec => []VersionsContiguous
<1>1. IInv => VersionsContiguous BY DEF IInv, StoreInv
<1> QED BY <1>1, Invariance, PTL

(* What a pusher was told is stored is stored, as the version after its base. *)
THEOREM AckedIsDurable == Spec => []AckedPushStored
<1>1. IInv => AckedPushStored
  <2> SUFFICES ASSUME IInv, NEW t \in Pushes, answer[t] = "ok", vault
               PROVE  \E v \in versions : v.by = t /\ v.path = req[t].path
                                       /\ v.version = req[t].base + 1
    BY DEF AckedPushStored
  <2>1. pc[t] = "done" /\ insVer[t] = req[t].base + 1
    BY DEF IInv, TypeOK, TxInv, Request
  <2>2. Written(t) \in versions
    BY <2>1 DEF IInv, StoreInv, Committed, TxInv, TypeOK, Request
  <2> QED BY <2>1, <2>2 DEF Written
<1> QED BY <1>1, Invariance, PTL

(* files.deleted always describes the version a pull returns. *)
THEOREM DeletedFlagTrue == Spec => []DeletedFlagCurrent
<1>1. IInv => DeletedFlagCurrent BY DEF IInv
<1> QED BY <1>1, Invariance, PTL

(* The two queries of a pull never miss the version the first one named. *)
THEOREM PullFindsLatest == Spec => []PullNeverDangles
<1>1. IInv => PullNeverDangles BY DEF IInv
<1> QED BY <1>1, Invariance, PTL

(* The audit log only names pushes that are in the history. *)
THEOREM AuditTrue == Spec => []AuditedIsStored
<1>1. IInv => AuditedIsStored
  BY DEF IInv, StoreInv, AuditedIsStored, Written
<1> QED BY <1>1, Invariance, PTL

(* While the vault exists no step rewrites or removes a stored version: commits
   only add to file_versions, and only the cascade of DeleteTeam empties it. *)
THEOREM HistoryNeverRewritten == Spec => HistoryKept
<1>1. ASSUME [Next]_vars, vault' PROVE versions \subseteq versions'
  <2>1. ASSUME NEW t \in Pushes, Arrive(t) \/ PushStep(t) \/ Abort(t) \/ LoseReply(t)
        PROVE  versions \subseteq versions'
    <3> USE DEF tables, Rollback, AnswerWith
    <3>1. CASE Arrive(t) \/ Begin(t) BY <3>1 DEF Arrive, Begin
    <3>2. CASE SelectNothing(t) \/ SelectCurrent(t) \/ SelectStale(t)
      BY <3>2 DEF SelectNothing, SelectCurrent, SelectStale
    <3>3. CASE InsertFile(t) \/ InsertFileFails(t) \/ InsertVersion(t) \/ UpdateFile(t)
      BY <3>3 DEF InsertFile, InsertFileFails, InsertVersion, UpdateFile
    <3>4. CASE Commit(t) BY <3>4 DEF Commit
    <3>5. CASE LogPush(t) \/ Reply(t) \/ Abort(t) \/ LoseReply(t)
      BY <3>5 DEF LogPush, Reply, Abort, LoseReply
    <3> QED BY <2>1, <3>1, <3>2, <3>3, <3>4, <3>5 DEF PushStep
  <2>2. ASSUME NEW r \in Pulls, PullStep(r) PROVE versions \subseteq versions'
    BY <2>2 DEF PullStep, PullFile, PullVersion, tables
  <2>3. ~DropVault BY <1>1 DEF DropVault
  <2>4. CASE UNCHANGED vars BY <2>4 DEF vars, tables
  <2> QED BY <1>1, <2>1, <2>2, <2>3, <2>4 DEF Next, AllAnswered
<1>2. [Next]_vars => [vault' => versions \subseteq versions']_versions
  BY <1>1
<1> QED BY <1>2, PTL DEF Spec, HistoryKept

-------------------------------------------------------------------------------
(* SQLite: the single connection lets no statement of another push between the
   SELECT that found no row and the INSERT of the first push. *)
NothingInserted == \A t \in Pushes : pc[t] = "insertFile" => req[t].path \notin rows

FailInv == NothingInserted /\ StaleIsConflict

(* No step brings a deleted vault back. *)
LEMMA VaultStaysGone ==
  ASSUME [Next]_vars, vault'
  PROVE  vault
<1> USE DEF tables, Rollback, AnswerWith
<1>1. ASSUME NEW t \in Pushes, Arrive(t) \/ PushStep(t) \/ Abort(t) \/ LoseReply(t)
      PROVE  vault' = vault
  <2>1. CASE Arrive(t) \/ Begin(t) BY <2>1 DEF Arrive, Begin
  <2>2. CASE SelectNothing(t) \/ SelectCurrent(t) \/ SelectStale(t)
    BY <2>2 DEF SelectNothing, SelectCurrent, SelectStale
  <2>3. CASE InsertFile(t) \/ InsertFileFails(t) \/ InsertVersion(t) \/ UpdateFile(t)
    BY <2>3 DEF InsertFile, InsertFileFails, InsertVersion, UpdateFile
  <2>4. CASE Commit(t) \/ LogPush(t) BY <2>4 DEF Commit, LogPush
  <2>5. CASE Reply(t) \/ Abort(t) \/ LoseReply(t)
    BY <2>5 DEF Reply, Abort, LoseReply
  <2> QED BY <1>1, <2>1, <2>2, <2>3, <2>4, <2>5 DEF PushStep
<1>2. ASSUME NEW r \in Pulls, PullStep(r) PROVE vault' = vault
  BY <1>2 DEF PullStep, PullFile, PullVersion
<1>3. CASE DropVault BY <1>3 DEF DropVault
<1>4. CASE UNCHANGED vars BY <1>4 DEF vars
<1> QED BY <1>1, <1>2, <1>3, <1>4 DEF Next, AllAnswered

(* On SQLite a transaction fails on a statement only when the vault is gone: its
   first push found no row and nobody inserted one since, and the version after
   the latest does not exist. *)
LEMMA OnlyTheVaultFails ==
  ASSUME IInv, FailInv, NEW t \in Pushes,
         InsertFileFails(t) \/ (InsertVersion(t) /\ answer'[t] = "failed")
  PROVE  ~vault
<1>1. CASE InsertFileFails(t)
  BY <1>1 DEF InsertFileFails, FailInv, NothingInserted
<1>2. CASE InsertVersion(t) /\ answer'[t] = "failed"
  <2>1. pc[t] = "insertVersion"
    BY <1>2 DEF InsertVersion, Goto
  <2>2. req[t].path \in Paths /\ latest[req[t].path] \in Nat
    BY MaxBaseAssumption DEF IInv, TypeOK, Request, Versions
  <2>3. seen[t] = latest[req[t].path] /\ answer[t] = "none"
    BY <2>1 DEF IInv, TxInv, Holding
  <2>4. SameVersion(req[t].path, seen[t] + 1) # {}
    BY <1>2, <2>3 DEF InsertVersion
  <2>5. PICK v \in versions : v.path = req[t].path /\ v.version = seen[t] + 1
    BY <2>4 DEF SameVersion
  <2>6. v.version \in 1 .. latest[v.path]
    BY DEF IInv, StoreInv, VersionsContiguous
  <2> QED BY <2>2, <2>3, <2>5, <2>6
<1> QED BY <1>1, <1>2

(* Only those two statements tell a pusher that its push failed. *)
LEMMA WhoFails ==
  ASSUME IInv, [Next]_vars, NEW t \in Pushes, answer'[t] = "failed",
         answer[t] # "failed"
  PROVE  InsertFileFails(t) \/ (InsertVersion(t) /\ answer'[t] = "failed")
<1> USE DEF pushing, Rollback, AnswerWith, IInv, TypeOK
<1>1. ASSUME NEW u \in Pushes, Arrive(u) \/ PushStep(u) \/ Abort(u) \/ LoseReply(u)
      PROVE  InsertFileFails(t) \/ InsertVersion(t)
  <2>1. CASE Arrive(u) \/ Begin(u) BY <2>1 DEF Arrive, Begin
  <2>2. CASE SelectNothing(u) \/ SelectCurrent(u) \/ SelectStale(u)
    BY <2>2 DEF SelectNothing, SelectCurrent, SelectStale
  <2>3. CASE InsertFile(u) \/ UpdateFile(u) BY <2>3 DEF InsertFile, UpdateFile
  <2>4. CASE InsertFileFails(u) BY <2>4 DEF InsertFileFails
  <2>5. CASE InsertVersion(u) BY <2>5 DEF InsertVersion
  <2>6. CASE Commit(u) \/ LogPush(u) BY <2>6 DEF Commit, LogPush
  <2>7. CASE Reply(u) \/ Abort(u) \/ LoseReply(u)
    BY <2>7 DEF Reply, Abort, LoseReply
  <2> QED BY <1>1, <2>1, <2>2, <2>3, <2>4, <2>5, <2>6, <2>7 DEF PushStep
<1>2. ASSUME NEW r \in Pulls, PullStep(r) PROVE FALSE
  BY <1>2 DEF PullStep, PullFile, PullVersion
<1>3. CASE DropVault BY <1>3 DEF DropVault
<1>4. CASE UNCHANGED vars BY <1>4 DEF vars
<1> QED BY <1>1, <1>2, <1>3, <1>4 DEF Next, AllAnswered

(* Between the SELECT and the INSERT of a first push the connection is its own,
   so nobody else commits a row of its path. *)
LEMMA NothingInsertedInv ==
  ASSUME Engine = "sqlite", IInv, NothingInserted, [Next]_vars
  PROVE  NothingInserted'
<1> USE DEF IInv, TypeOK, LockInv, NothingInserted, tables, pushing, Goto, Rollback,
            AnswerWith, InTx
<1>1. ASSUME NEW t \in Pushes, Arrive(t) \/ PushStep(t) \/ Abort(t) \/ LoseReply(t)
      PROVE  NothingInserted'
  <2>1. CASE Arrive(t) \/ Begin(t) BY <2>1 DEF Arrive, Begin
  <2>2. CASE SelectNothing(t) \/ SelectCurrent(t) \/ SelectStale(t)
    BY <2>2 DEF SelectNothing, SelectCurrent, SelectStale
  <2>3. CASE InsertFile(t) \/ InsertFileFails(t) BY <2>3 DEF InsertFile, InsertFileFails
  <2>4. CASE InsertVersion(t) \/ UpdateFile(t) BY <2>4 DEF InsertVersion, UpdateFile
  <2>5. CASE Commit(t)
    <3>1. \A u \in Pushes : pc[u] = "insertFile" => u = t BY <2>5 DEF Commit
    <3> QED BY <2>5, <3>1 DEF Commit
  <2>6. CASE LogPush(t) BY <2>6 DEF LogPush
  <2>7. CASE Reply(t) \/ Abort(t) \/ LoseReply(t)
    BY <2>7 DEF Reply, Abort, LoseReply
  <2> QED BY <1>1, <2>1, <2>2, <2>3, <2>4, <2>5, <2>6, <2>7 DEF PushStep
<1>2. ASSUME NEW r \in Pulls, PullStep(r) PROVE NothingInserted'
  BY <1>2 DEF PullStep, PullFile, PullVersion
<1>3. CASE DropVault BY <1>3 DEF DropVault
<1>4. CASE UNCHANGED vars BY <1>4 DEF vars
<1> QED BY <1>1, <1>2, <1>3, <1>4 DEF Next, AllAnswered

(* On SQLite a push that lost a race while its vault exists is told "conflict",
   for any number of pushes; on PostgreSQL the loser of two first pushes is not. *)
THEOREM LosersGetConflict ==
  ASSUME Engine = "sqlite"
  PROVE  Spec => []StaleIsConflict
<1>1. Init => FailInv
  BY DEF Init, FailInv, NothingInserted, StaleIsConflict
<1>2. IInv /\ FailInv /\ [Next]_vars => FailInv'
  <2> SUFFICES ASSUME IInv, FailInv, [Next]_vars PROVE FailInv'
    OBVIOUS
  <2>1. NothingInserted' BY NothingInsertedInv DEF FailInv
  <2>2. ASSUME NEW t \in Pushes, answer'[t] = "failed", vault' PROVE FALSE
    <3>1. vault BY <2>2, VaultStaysGone
    <3>2. CASE answer[t] = "failed" BY <3>1, <3>2 DEF FailInv, StaleIsConflict
    <3>3. CASE answer[t] # "failed"
      BY <2>2, <3>1, <3>3, WhoFails, OnlyTheVaultFails
    <3> QED BY <3>2, <3>3
  <2> QED BY <2>1, <2>2 DEF FailInv, StaleIsConflict
<1>3. FailInv => StaleIsConflict BY DEF FailInv
<1> QED BY <1>1, <1>2, <1>3, Invariance, PTL DEF Spec
===============================================================================
