------------------------------- MODULE FileStore -------------------------------
(***************************************************************************)
(* The versioned files of one vault as the server's SQL statements keep    *)
(* them: Store.PushFile and Store.GetFileVersion (server/store/files.go),  *)
(* the tail of handlePush (server/http/handlers_files.go) and the cascade  *)
(* of DeleteTeam.  Every statement is an action, because the two engines   *)
(* interleave them differently:                                            *)
(*   "postgres"  READ COMMITTED; SELECT ... FOR UPDATE locks the row of    *)
(*               the file, and a second INSERT of one unique key waits for *)
(*               the transaction that made the first;                      *)
(*   "sqlite"    one pooled connection (SetMaxOpenConns(1)), held by a     *)
(*               transaction from BEGIN to COMMIT or ROLLBACK.             *)
(* The content of a version is the request that wrote it.                  *)
(***************************************************************************)
EXTENDS Naturals

CONSTANTS
  Pushes,     \* push requests, each made once
  Pulls,      \* pull requests, each made once
  Paths,      \* paths of files in the vault
  MaxBase,    \* bound: largest base version a push may carry
  Engine,     \* "postgres" or "sqlite"
  NoTx        \* no transaction

ASSUME MaxBaseAssumption == MaxBase \in Nat
ASSUME EngineAssumption == Engine \in {"postgres", "sqlite"}
ASSUME NoTxAssumption == NoTx \notin Pushes

VARIABLES
  \* tables, as committed
  vault,      \* the row of the vault exists
  rows,       \* paths that have a row in files
  latest,     \* files.latest_version (0 where there is no row)
  deleted,    \* files.deleted
  versions,   \* file_versions
  audit,      \* pushes with a row in audit_log
  \* locks
  lock,       \* postgres: the transaction that locked, or inserted, the row of a path
  conn,       \* sqlite: the transaction that holds the only connection
  \* PushFile, one per push
  pc, req, seen,
  insFile,    \* uncommitted: the files row this transaction inserted
  insVer,     \* version this transaction inserted in file_versions (0: none)
  setLatest,  \* latest_version this transaction wrote in files (0: none)
  answer,     \* HTTP answer
  \* GetFileVersion, one per pull
  rpc, rreq, want, result

tables  == <<vault, rows, latest, deleted, versions, audit>>
pushing == <<pc, req, seen, insFile, insVer, setLatest, answer>>
pulling == <<rpc, rreq, want, result>>
vars == <<tables, lock, conn, pushing, pulling>>

Request == [path : Paths, base : 0 .. MaxBase, deleted : BOOLEAN]
Versions == 1 .. MaxBase + 1
Version == [path : Paths, version : Versions, by : Pushes, deleted : BOOLEAN]

(* Where a push stands: the statement it executes next. *)
InTx == {"select", "insertFile", "insertVersion", "update", "commit"}
PushStates == {"idle", "begin", "log", "reply", "done"} \cup InTx

Init ==
  /\ vault = TRUE
  /\ rows = {}
  /\ latest = [p \in Paths |-> 0]
  /\ deleted = [p \in Paths |-> FALSE]
  /\ versions = {}
  /\ audit = {}
  /\ lock = [p \in Paths |-> NoTx]
  /\ conn = NoTx
  /\ pc = [t \in Pushes |-> "idle"]
  /\ req \in [Pushes -> Request]
  /\ seen = [t \in Pushes |-> 0]
  /\ insFile = [t \in Pushes |-> FALSE]
  /\ insVer = [t \in Pushes |-> 0]
  /\ setLatest = [t \in Pushes |-> 0]
  /\ answer = [t \in Pushes |-> "none"]
  /\ rpc = [r \in Pulls |-> "idle"]
  /\ rreq \in [Pulls -> [path : Paths, version : {0} \cup Versions]]
  /\ want = [r \in Pulls |-> 0]
  /\ result = [r \in Pulls |-> {}]

-------------------------------------------------------------------------------
(* PushFile *)

Goto(t, from, to) == pc[t] = from /\ pc' = [pc EXCEPT ![t] = to]

BugConnFree == TRUE                        \* SetMaxOpenConns(1) forgotten

(* A statement outside a transaction needs the connection to itself. *)
ConnFree == Engine = "sqlite" => conn = NoTx

BugRelease(t) == UNCHANGED <<lock, conn>>  \* the transaction is left open

(* ROLLBACK or COMMIT: everything the transaction held is released. *)
Release(t) ==
  /\ lock' = [p \in Paths |-> IF lock[p] = t THEN NoTx ELSE lock[p]]
  /\ conn' = IF conn = t THEN NoTx ELSE conn

(* defer tx.Rollback() on an early return, and the handler's answer. *)
Rollback(t, status) ==
  /\ pc' = [pc EXCEPT ![t] = "done"]
  /\ answer' = [answer EXCEPT ![t] = status]
  /\ insFile' = [insFile EXCEPT ![t] = FALSE]
  /\ insVer' = [insVer EXCEPT ![t] = 0]
  /\ setLatest' = [setLatest EXCEPT ![t] = 0]
  /\ Release(t)
  /\ UNCHANGED <<tables, req, seen, pulling>>

(* The request passed authentication and the grant check. *)
Arrive(t) ==
  /\ Goto(t, "idle", "begin")
  /\ UNCHANGED <<tables, lock, conn, req, seen, insFile, insVer, setLatest,
                 answer, pulling>>

Begin(t) ==
  /\ Goto(t, "begin", "select")
  /\ ConnFree
  /\ conn' = IF Engine = "sqlite" THEN t ELSE conn
  /\ UNCHANGED <<tables, lock, req, seen, insFile, insVer, setLatest, answer,
                 pulling>>

(* A lock that SELECT ... FOR UPDATE, or a unique key, makes t wait for. *)
Available(t, p) == Engine = "postgres" => lock[p] \in {NoTx, t}

TakeLock(t, p) ==
  lock' = IF Engine = "postgres" THEN [lock EXCEPT ![p] = t] ELSE lock

BugStale(t) == latest[req[t].path] < req[t].base  \* only the future refused

(* latest != baseVersion *)
Stale(t) == latest[req[t].path] # req[t].base

(* SELECT id, latest_version ... FOR UPDATE finds no row: the file is new,
   or, for any other base version, the push is stale. *)
SelectNothing(t) ==
  /\ req[t].path \notin rows
  /\ \/ /\ req[t].base # 0
        /\ pc[t] = "select"
        /\ Rollback(t, "conflict")
     \/ /\ req[t].base = 0
        /\ Goto(t, "select", "insertFile")
        /\ UNCHANGED <<tables, lock, conn, req, seen, insFile, insVer,
                       setLatest, answer, pulling>>

(* It waits for the row, locks it and reads it as last committed. *)
SelectCurrent(t) ==
  LET p == req[t].path IN
  /\ p \in rows
  /\ Available(t, p)
  /\ ~Stale(t)
  /\ Goto(t, "select", "insertVersion")
  /\ TakeLock(t, p)
  /\ seen' = [seen EXCEPT ![t] = latest[p]]
  /\ UNCHANGED <<tables, conn, req, insFile, insVer, setLatest, answer, pulling>>

SelectStale(t) ==
  /\ pc[t] = "select"
  /\ req[t].path \in rows
  /\ Available(t, req[t].path)
  /\ Stale(t)
  /\ Rollback(t, "conflict")

(* INSERT INTO files: UNIQUE (vault_id, path) and the reference to vaults. *)
InsertFile(t) ==
  LET p == req[t].path IN
  /\ Available(t, p)
  /\ p \notin rows
  /\ vault
  /\ Goto(t, "insertFile", "insertVersion")
  /\ insFile' = [insFile EXCEPT ![t] = TRUE]
  /\ seen' = [seen EXCEPT ![t] = 0]
  /\ TakeLock(t, p)
  /\ UNCHANGED <<tables, conn, req, insVer, setLatest, answer, pulling>>

InsertFileFails(t) ==
  /\ pc[t] = "insertFile"
  /\ Available(t, req[t].path)
  /\ req[t].path \in rows \/ ~vault
  /\ Rollback(t, "failed")

SameVersion(p, n) == {v \in versions : v.path = p /\ v.version = n}

(* INSERT INTO file_versions: UNIQUE (file_id, version) makes it wait for an
   uncommitted row of the same key, and fail on a committed one. *)
VersionKeyFree(t) ==
  \A u \in Pushes \ {t} :
    pc[u] \in InTx /\ req[u].path = req[t].path => insVer[u] # seen[t] + 1

InsertVersion(t) ==
  LET n == seen[t] + 1 IN
  /\ VersionKeyFree(t)
  /\ \/ /\ SameVersion(req[t].path, n) # {}
        /\ pc[t] = "insertVersion"
        /\ Rollback(t, "failed")
     \/ /\ SameVersion(req[t].path, n) = {}
        /\ Goto(t, "insertVersion", "update")
        /\ insVer' = [insVer EXCEPT ![t] = n]
        /\ UNCHANGED <<tables, lock, conn, req, seen, insFile, setLatest,
                       answer, pulling>>

BugUpdateOldVersion(t) ==                  \* writes latest, not newVersion
  /\ Goto(t, "update", "commit")
  /\ setLatest' = [setLatest EXCEPT ![t] = seen[t]]
  /\ UNCHANGED <<tables, lock, conn, req, seen, insFile, insVer, answer, pulling>>

BugUpdateOutsideTx(t) ==                   \* s.db.Exec, not tx.Exec
  /\ Goto(t, "update", "commit")
  /\ setLatest' = [setLatest EXCEPT ![t] = insVer[t]]
  /\ latest' = [latest EXCEPT ![req[t].path] = insVer[t]]
  /\ UNCHANGED <<vault, rows, deleted, versions, audit, lock, conn, req, seen,
                 insFile, insVer, answer, pulling>>

(* UPDATE files SET latest_version, deleted *)
UpdateFile(t) ==
  /\ Goto(t, "update", "commit")
  /\ Available(t, req[t].path)
  /\ TakeLock(t, req[t].path)
  /\ setLatest' = [setLatest EXCEPT ![t] = insVer[t]]
  /\ UNCHANGED <<tables, conn, req, seen, insFile, insVer, answer, pulling>>

BugWritten(t) ==                           \* the tombstone flag is not passed on
  [path |-> req[t].path, version |-> insVer[t], by |-> t, deleted |-> FALSE]

Written(t) ==
  [path |-> req[t].path, version |-> insVer[t], by |-> t,
   deleted |-> req[t].deleted]

BugCommitPrunes(t) ==                      \* only the newest version is kept
  LET p == req[t].path IN
  /\ Goto(t, "commit", "log")
  /\ rows' = rows \cup {p}
  /\ versions' = {v \in versions : v.path # p} \cup {Written(t)}
  /\ latest' = [latest EXCEPT ![p] = setLatest[t]]
  /\ deleted' = [deleted EXCEPT ![p] = req[t].deleted]
  /\ Release(t)
  /\ UNCHANGED <<vault, audit, req, seen, insFile, insVer, setLatest, answer,
                 pulling>>

(* COMMIT makes the three writes visible at once. *)
Commit(t) ==
  LET p == req[t].path IN
  /\ Goto(t, "commit", "log")
  /\ rows' = IF insFile[t] THEN rows \cup {p} ELSE rows
  /\ versions' = versions \cup {Written(t)}
  /\ latest' = [latest EXCEPT ![p] = setLatest[t]]
  /\ deleted' = [deleted EXCEPT ![p] = req[t].deleted]
  /\ Release(t)
  /\ UNCHANGED <<vault, audit, req, seen, insFile, insVer, setLatest, answer,
                 pulling>>

BugAbortIgnored(t) ==                      \* the error of tx.Commit() is dropped
  /\ pc[t] = "commit"
  /\ Rollback(t, "ok")

BugAbortLogged(t) ==                       \* logged before the error check
  /\ Goto(t, "commit", "done")
  /\ Release(t)
  /\ audit' = audit \cup {t}
  /\ answer' = [answer EXCEPT ![t] = "lost"]
  /\ UNCHANGED <<vault, rows, latest, deleted, versions, req, seen, insFile,
                 insVer, setLatest, pulling>>

(* A cancelled request, a broken connection or a crash of either process
   before the commit: the database rolls the transaction back, and the
   pusher cannot tell. *)
Abort(t) ==
  /\ pc[t] \in InTx \cup {"begin"}
  /\ Rollback(t, "lost")

(* The audit row is a statement of its own whose error is ignored; its
   reference to vaults fails once the vault is gone. *)
LogPush(t) ==
  /\ Goto(t, "log", "reply")
  /\ ConnFree
  /\ \/ vault /\ audit' = audit \cup {t}
     \/ UNCHANGED audit
  /\ UNCHANGED <<vault, rows, latest, deleted, versions, lock, conn, req, seen,
                 insFile, insVer, setLatest, answer, pulling>>

AnswerWith(t, status) ==
  /\ pc' = [pc EXCEPT ![t] = "done"]
  /\ answer' = [answer EXCEPT ![t] = status]
  /\ UNCHANGED <<tables, lock, conn, req, seen, insFile, insVer, setLatest,
                 pulling>>

Reply(t) == pc[t] = "reply" /\ AnswerWith(t, "ok")

(* Crash, timeout or lost connection between the commit and the answer. *)
LoseReply(t) == pc[t] \in {"log", "reply"} /\ AnswerWith(t, "lost")

-------------------------------------------------------------------------------
(* GetFileVersion: two statements with no transaction around them. *)

(* SELECT id, latest_version; version 0 asks for the latest. *)
PullFile(r) ==
  /\ rpc[r] = "idle"
  /\ ConnFree
  /\ LET p == rreq[r].path IN
     \/ /\ p \notin rows
        /\ rpc' = [rpc EXCEPT ![r] = "notFound"]
        /\ UNCHANGED want
     \/ /\ p \in rows
        /\ rpc' = [rpc EXCEPT ![r] = "version"]
        /\ want' = [want EXCEPT ![r] =
                      IF rreq[r].version = 0 THEN latest[p] ELSE rreq[r].version]
  /\ UNCHANGED <<tables, lock, conn, pushing, rreq, result>>

(* SELECT ... FROM file_versions WHERE file_id=? AND version=? *)
PullVersion(r) ==
  LET found == SameVersion(rreq[r].path, want[r]) IN
  /\ rpc[r] = "version"
  /\ ConnFree
  /\ rpc' = [rpc EXCEPT ![r] = IF found = {} THEN "notFound" ELSE "ok"]
  /\ result' = [result EXCEPT ![r] = found]
  /\ UNCHANGED <<tables, lock, conn, pushing, rreq, want>>

(* DELETE FROM teams: the cascade takes the vault, its files and their
   versions, once no transaction holds a row of them. *)
DropVault ==
  /\ vault
  /\ conn = NoTx
  /\ \A p \in Paths : lock[p] = NoTx
  /\ vault' = FALSE
  /\ rows' = {}
  /\ latest' = [p \in Paths |-> 0]
  /\ deleted' = [p \in Paths |-> FALSE]
  /\ versions' = {}
  /\ UNCHANGED <<audit, lock, conn, pushing, pulling>>

(* Every request has been answered. *)
AllAnswered ==
  /\ \A t \in Pushes : pc[t] = "done"
  /\ \A r \in Pulls : rpc[r] \in {"ok", "notFound"}
  /\ ~vault
  /\ UNCHANGED vars

PushStep(t) ==
  \/ Begin(t)
  \/ SelectNothing(t) \/ SelectCurrent(t) \/ SelectStale(t)
  \/ InsertFile(t) \/ InsertFileFails(t) \/ InsertVersion(t)
  \/ UpdateFile(t) \/ Commit(t) \/ LogPush(t) \/ Reply(t)

PullStep(r) == PullFile(r) \/ PullVersion(r)

Next ==
  \/ \E t \in Pushes : Arrive(t) \/ PushStep(t) \/ Abort(t) \/ LoseReply(t)
  \/ \E r \in Pulls : PullStep(r)
  \/ DropVault
  \/ AllAnswered

Spec == Init /\ [][Next]_vars

(* A request the server took keeps running: goroutines are scheduled, the
   database executes the statements it is sent, and both queues (row locks,
   pooled connection) are served. *)
Fairness ==
  /\ \A t \in Pushes : WF_vars(PushStep(t))
  /\ \A r \in Pulls : WF_vars(PullStep(r))

FairSpec == Spec /\ Fairness

-------------------------------------------------------------------------------
(* Properties *)

TypeOK ==
  /\ vault \in BOOLEAN
  /\ rows \subseteq Paths
  /\ latest \in [Paths -> {0} \cup Versions]
  /\ deleted \in [Paths -> BOOLEAN]
  /\ versions \subseteq Version
  /\ audit \subseteq Pushes
  /\ lock \in [Paths -> Pushes \cup {NoTx}]
  /\ conn \in Pushes \cup {NoTx}
  /\ pc \in [Pushes -> PushStates]
  /\ req \in [Pushes -> Request]
  /\ seen \in [Pushes -> 0 .. MaxBase]
  /\ insFile \in [Pushes -> BOOLEAN]
  /\ insVer \in [Pushes -> {0} \cup Versions]
  /\ setLatest \in [Pushes -> {0} \cup Versions]
  /\ answer \in [Pushes -> {"none", "ok", "conflict", "failed", "lost"}]
  /\ rpc \in [Pulls -> {"idle", "version", "ok", "notFound"}]
  /\ rreq \in [Pulls -> [path : Paths, version : {0} \cup Versions]]
  /\ want \in [Pulls -> {0} \cup Versions]
  /\ result \in [Pulls -> SUBSET Version]

(* The committed versions of a path are 1 .. latest_version, each once: no
   hole, no duplicate, no version past the one files points to, and no row
   in files before its first version. *)
VersionsContiguous ==
  /\ \A p \in Paths : latest[p] > 0 <=> p \in rows
  /\ \A v \in versions : v.version \in 1 .. latest[v.path]
  /\ \A p \in Paths : \A n \in 1 .. latest[p] :
       \E v \in versions : v.path = p /\ v.version = n
  /\ \A v, w \in versions : v.path = w.path /\ v.version = w.version => v = w

(* files.deleted, which listings show and rotation skips by, agrees with
   the version a pull of the file returns. *)
DeletedFlagCurrent ==
  \A v \in versions :
    v.version = latest[v.path] => deleted[v.path] = v.deleted

(* A push that was acknowledged is the version after its base, and stays
   so as long as the vault exists, whatever pushes and crashes follow. *)
AckedPushStored ==
  \A t \in Pushes :
    answer[t] = "ok" /\ vault =>
      \E v \in versions : v.by = t /\ v.path = req[t].path
                              /\ v.version = req[t].base + 1

(* A pull of the latest version whose first query found the file is never
   told "not found", unless the vault went away between its two queries. *)
PullNeverDangles ==
  \A r \in Pulls :
    rpc[r] = "notFound" /\ want[r] # 0 /\ rreq[r].version = 0 => ~vault

(* The audit log never names a push that is not in the history. *)
AuditedIsStored ==
  \A t \in audit : vault => \E v \in versions : v.by = t

(* While the vault exists no step rewrites or removes a stored version. *)
HistoryKept == [][vault' => versions \subseteq versions']_versions

(* A push that lost a race while its vault exists is told "conflict" (409),
   not a failed statement (500). *)
StaleIsConflict == \A t \in Pushes : answer[t] = "failed" => ~vault

(* Every push the server took, and every pull, ends: no transaction waits
   for a lock or for the connection forever. *)
RequestsEnd ==
  /\ \A t \in Pushes : pc[t] = "begin" ~> pc[t] = "done"
  /\ \A r \in Pulls : rpc[r] = "version" ~> rpc[r] \in {"ok", "notFound"}

-------------------------------------------------------------------------------
(* The statements implement the compare-and-swap log of VersionLog. *)

VersionAt(p, n) == CHOOSE v \in versions : v.path = p /\ v.version = n

LogOf(p) ==
  [n \in 1 .. latest[p] |->
     [by |-> VersionAt(p, n).by, deleted |-> VersionAt(p, n).deleted]]

Committed == {t \in Pushes : insVer[t] # 0 /\ pc[t] \in {"log", "reply", "done"}}

VL == INSTANCE VersionLog WITH
        log <- [p \in Paths |-> LogOf(p)],
        alive <- vault,
        accepted <- Committed

(* A push is one atomic compare-and-swap, on either engine, and the answer
   it gets is true of the log at that moment. *)
ImplementsVersionLog == VL!Spec

-------------------------------------------------------------------------------
(* The inductive invariant *)

Holding == {"insertVersion", "update", "commit"}

(* Who may be past SELECT on a path: on Postgres the owner of the row lock or
   of the new unique key, on SQLite the owner of the connection. *)
LockInv ==
  /\ \A t \in Pushes : pc[t] \in Holding => vault
  /\ Engine = "postgres" =>
       /\ conn = NoTx
       /\ \A t \in Pushes : pc[t] \in Holding => lock[req[t].path] = t
       /\ \A p \in Paths : lock[p] # NoTx =>
            pc[lock[p]] \in Holding /\ req[lock[p]].path = p
  /\ Engine = "sqlite" =>
       /\ \A p \in Paths : lock[p] = NoTx
       /\ \A t \in Pushes : pc[t] \in InTx <=> conn = t

(* What a push has read and written so far is still true of the tables. *)
TxInv ==
  \A t \in Pushes :
    /\ pc[t] \in {"idle", "begin", "select", "insertFile"} =>
         insVer[t] = 0 /\ ~insFile[t]
    /\ pc[t] = "insertFile" => req[t].base = 0
    /\ pc[t] \in Holding =>
         /\ seen[t] = req[t].base /\ latest[req[t].path] = req[t].base
         /\ insFile[t] <=> req[t].path \notin rows
    /\ pc[t] = "insertVersion" => insVer[t] = 0
    /\ pc[t] \in {"update", "commit", "log", "reply"} =>
         insVer[t] = req[t].base + 1
    /\ pc[t] = "commit" => setLatest[t] = req[t].base + 1
    /\ pc[t] = "done" <=> answer[t] # "none"
    /\ pc[t] = "done" => insVer[t] \in {0, req[t].base + 1}
    /\ answer[t] = "ok" => insVer[t] # 0
    /\ answer[t] \in {"conflict", "failed"} => insVer[t] = 0

(* The versions of a live vault are exactly those of the committed pushes. *)
StoreInv ==
  /\ VersionsContiguous
  /\ ~vault => rows = {} /\ versions = {}
  /\ \A v \in versions : v.by \in Committed /\ v = Written(v.by)
  /\ vault => \A t \in Committed : Written(t) \in versions

(* A pull between its two queries asks for a version that is still there. *)
PullInv ==
  \A r \in Pulls :
    /\ rpc[r] = "idle" => want[r] = 0
    /\ rpc[r] = "version" /\ rreq[r].version = 0 /\ vault =>
         want[r] \in 1 .. latest[rreq[r].path]

IInv ==
  /\ TypeOK
  /\ LockInv
  /\ TxInv
  /\ StoreInv
  /\ DeletedFlagCurrent
  /\ audit \subseteq Committed
  /\ PullInv
  /\ PullNeverDangles
===============================================================================
