--------------------------- MODULE VaultKeys_proofs ---------------------------
(* The invariant of VaultKeys for any jobs, users and paths, and what follows. *)
EXTENDS VaultKeys, SequenceTheorems, TLAPS

(***************************************************************************)
(* Lemmas about the operators.                                             *)
(***************************************************************************)

(* A path's log is a sequence of rows. *)
LEMMA LogRows ==
  ASSUME log \in [Paths -> Seq(Row)], NEW p \in Paths
  PROVE  /\ Latest(p) \in Nat
         /\ log[p] \in Seq(Row)
         /\ \A n \in 1 .. Latest(p) : log[p][n] \in Row
  <1>1. log[p] \in Seq(Row)
    OBVIOUS
  <1> QED BY <1>1, LenProperties, ElementOfSeq DEF Latest

(* PushFile adds one row, in one place, and keeps the others. *)
LEMMA PushFileEffect ==
  ASSUME log \in [Paths -> Seq(Row)], NEW p \in Paths, NEW b, NEW row \in Row,
         PushFile(p, b, row)
  PROVE  /\ log' \in [Paths -> Seq(Row)]
         /\ b = Latest(p)
         /\ Latest(p)' = Latest(p) + 1
         /\ log'[p][Latest(p) + 1] = row
         /\ \A n \in 1 .. Latest(p) : log'[p][n] = log[p][n]
         /\ \A q \in Paths : q # p => log'[q] = log[q] /\ Latest(q)' = Latest(q)
  <1>1. /\ log' = [log EXCEPT ![p] = Append(log[p], row)]
        /\ log[p] \in Seq(Row)
        /\ b = Latest(p)
    BY DEF PushFile
  <1>2. /\ Append(log[p], row) \in Seq(Row)
        /\ Len(Append(log[p], row)) = Len(log[p]) + 1
        /\ \A n \in 1 .. Len(log[p]) : Append(log[p], row)[n] = log[p][n]
        /\ Append(log[p], row)[Len(log[p]) + 1] = row
    BY <1>1, AppendProperties
  <1> QED BY <1>1, <1>2 DEF Latest

(* AddShare keeps every share, adds at most one, and leaves its user with a share
   of that version. *)
LEMMA AddShareEffect ==
  ASSUME NEW old \in SUBSET Share, NEW u \in Users, NEW k,
         k.key \in Nat \ {0}, k.version \in Nat \ {0}
  PROVE  /\ AddShare(old, u, k) \subseteq Share
         /\ old \subseteq AddShare(old, u, k)
         /\ \A sh \in AddShare(old, u, k) :
              sh \in old \/ (sh.user = u /\ sh.key = k.key /\ sh.version = k.version)
         /\ \E sh \in AddShare(old, u, k) : sh.user = u /\ sh.version = k.version
  <1>1. CASE \E sh \in old : sh.user = u /\ sh.version = k.version
    BY <1>1 DEF AddShare
  <1>2. CASE ~ \E sh \in old : sh.user = u /\ sh.version = k.version
    <2> DEFINE new == [user |-> u, version |-> k.version, key |-> k.key]
    <2>1. new \in Share /\ AddShare(old, u, k) = old \cup {new}
      BY <1>2 DEF AddShare, Share
    <2>2. new.user = u /\ new.version = k.version /\ new.key = k.key
      OBVIOUS
    <2> HIDE DEF new
    <2> QED BY <2>1, <2>2
  <1> QED BY <1>1, <1>2

Rotating == {"version", "list", "reencrypt", "revokeGrant", "addShares", "pushFiles"}

(* What a command may be doing, and what it has fetched and made by then. *)
CommandInv ==
  \A j \in Jobs :
    /\ pc[j] = "base" => j.op \in {"push", "rm"}
    /\ pc[j] \in {"check", "store"} => j.op \in {"push", "rm", "grant"}
    /\ pc[j] = "get" => j.op \in {"pull", "checkout"}
    /\ pc[j] \in Rotating => j.op = "revoke"
    /\ pc[j] \in {"idle", "key"} => vk[j] = NoKey
    /\ pc[j] \notin {"idle", "key", "done"} => vk[j].key # 0 /\ vk[j].version # 0
    /\ pc[j] \notin (Rotating \ {"version"}) \cup {"done"} => nk[j] = NoKey
    /\ pc[j] \in Rotating \ {"version"} => nk[j].key # 0 /\ nk[j].version # 0
    /\ nk[j] # NoKey => j.op = "revoke"
    /\ pc[j] \notin {"reencrypt", "revokeGrant", "addShares", "pushFiles", "done"} =>
         todo[j] = {} /\ sealed[j] = {}

TypeInv == TypeOK /\ CommandInv

(* What a rotation has listed was there and live, and what it has re-encrypted is
   the content of that version, unless the file has moved on. *)
RotationInv ==
  \A j \in Jobs : \A p \in todo[j] \cup sealed[j] :
    /\ base[j][p] \in 1 .. Latest(p)
    /\ ~log[p][base[j][p]].deleted
    /\ p \in sealed[j] /\ base[j][p] = Latest(p) =>
         out[j][p] = log[p][base[j][p]].content

LEMMA TypeInit == Init => TypeInv
  <1> USE JobsAssumption
  <1> SUFFICES ASSUME Init PROVE TypeInv
    OBVIOUS
  <1>a. FirstRow \in Row
    BY DEF FirstRow, Row, FirstContent
  <1>b. <<FirstRow>> \in Seq(Row) /\ << >> \in Seq(Row)
    BY <1>a
  <1>1. \A p \in Paths : log[p] \in Seq(Row)
    BY <1>b DEF Init
  <1>2. TypeOK
    BY <1>1 DEF Init, TypeOK, Share, Key, NoKey, States
  <1>3. CommandInv
    BY DEF Init, CommandInv, Rotating
  <1> QED BY <1>2, <1>3 DEF TypeInv

LEMMA TypeStep == TypeInv /\ RotationInv /\ [Next]_vars => TypeInv'
  <1> USE DEF Goto, Fails, Finish, server, client
  <1> SUFFICES ASSUME TypeInv, RotationInv, [Next]_vars PROVE TypeInv'
    OBVIOUS
  <1> USE DEF TypeInv
  <1>0. ASSUME NEW j \in Jobs
        PROVE /\ j.id \in Nat /\ j.op \in Operations /\ j.user \in Users
              /\ j.path \in Paths /\ j.target \in Users /\ j.version \in Nat
    BY JobsAssumption
  <1>a. ASSUME NEW j \in Jobs
        PROVE  base[j][j.path] \in Nat /\ copy[j.user][j.path] \in Nat
    <2>1. base[j] \in [Paths -> Nat] /\ copy[j.user] \in [Paths -> Nat]
      BY <1>0 DEF TypeOK
    <2> QED BY <1>0, <2>1
  <1>1. ASSUME NEW j \in Jobs, NEW what \in {"ok", "no key", "refused", "conflict",
                                 "deleted", "undecryptable", "stopped"},
               Fails(j, what)
        PROVE  TypeInv'
    BY <1>1 DEF TypeOK, CommandInv, States, Rotating
  <1>2. ASSUME NEW j \in Jobs, Start(j) PROVE TypeInv'
    BY <1>2 DEF Start, TypeOK, CommandInv, States, Rotating
  <1>3. ASSUME NEW j \in Jobs, FetchKey(j) PROVE TypeInv'
    <2>1. CASE pc[j] = "key" /\ Fails(j, "no key")
      BY <1>1, <2>1
    <2>2. ASSUME NEW sh \in shares, Goto(j, "key", AfterKey(j)),
                 vk' = [vk EXCEPT ![j] = [key |-> sh.key, version |-> sh.version]],
                 UNCHANGED <<server, lastKey, copy, result, nk, base, todo, sealed, out>>
          PROVE  TypeInv'
      <3>1. sh.key \in Nat \ {0} /\ sh.version \in Nat \ {0}
        BY DEF TypeOK, Share
      <3>2. AfterKey(j) \in States \ {"idle", "key", "done"}
        BY <1>0 DEF AfterKey, States, Operations
      <3>3. TypeOK'
        BY <2>2, <3>1, <3>2 DEF TypeOK, Key
      <3>4. CommandInv'
        BY <2>2, <3>1, <3>2, <1>0 DEF TypeOK, CommandInv, AfterKey, Operations, Rotating, NoKey
      <3> QED BY <3>3, <3>4
    <2> QED BY <1>3, <2>1, <2>2 DEF FetchKey
  <1>4. ASSUME NEW j \in Jobs, ReadBase(j) PROVE TypeInv'
    <2>1. Latest(j.path) \in Nat
      BY <1>0, LogRows DEF TypeOK
    <2>2. CASE Goto(j, "base", "check") /\ base' = [base EXCEPT ![j][j.path] = Latest(j.path)]
               /\ UNCHANGED <<server, lastKey, copy, result, vk, nk, todo, sealed, out>>
      <3>1. TypeOK'
        BY <2>1, <2>2, <1>0 DEF TypeOK, States
      <3>2. CommandInv'
        BY <2>2 DEF TypeOK, CommandInv, Rotating
      <3> QED BY <3>1, <3>2
    <2> QED BY <1>1, <1>4, <2>2 DEF ReadBase
  <1>5. ASSUME NEW j \in Jobs, CheckGrant(j) PROVE TypeInv'
    <2>1. CASE Goto(j, "check", "store")
               /\ UNCHANGED <<server, lastKey, copy, result, vk, nk, base, todo, sealed, out>>
      BY <2>1 DEF TypeOK, CommandInv, States, Rotating
    <2> QED BY <1>1, <1>5, <2>1 DEF CheckGrant
  <1>6. ASSUME NEW j \in Jobs, StorePush(j) PROVE TypeInv'
    <2>1. CASE Fails(j, "conflict")
      BY <1>1, <2>1
    <2>2. CASE /\ PushFile(j.path, base[j][j.path], PushedRow(j))
               /\ Finish(j, "ok")
               /\ copy' = IF j.op = "rm" THEN copy
                          ELSE [copy EXCEPT ![j.user][j.path] = base[j][j.path] + 1]
               /\ UNCHANGED <<grants, shares, lastKey, vk, nk, base, todo, sealed, out>>
      <3>0. /\ vk[j].key \in Nat \ {0} /\ vk[j].version \in Nat \ {0}
            /\ copy[j.user][j.path] \in Nat
        BY <1>a, <1>6 DEF StorePush, TypeOK, CommandInv, Key
      <3>1. PushedRow(j) \in Row
        BY <1>0, <3>0 DEF PushedRow, Row, EmptyContent
      <3>2. log' \in [Paths -> Seq(Row)]
        BY <1>0, <2>2, <3>1, PushFileEffect DEF TypeOK
      <3>a. base[j][j.path] + 1 \in Nat
        BY <1>a
      <3>3. copy' \in [Users -> [Paths -> Nat]]
        <4>1. CASE j.op = "rm" BY <2>2, <4>1 DEF TypeOK
        <4>2. CASE j.op # "rm" BY <2>2, <4>2, <3>a, <1>0 DEF TypeOK
        <4> QED BY <4>1, <4>2
      <3>4. TypeOK'
        BY <2>2, <3>2, <3>3 DEF TypeOK, States
      <3>5. CommandInv'
        BY <2>2 DEF TypeOK, CommandInv, Rotating
      <3> QED BY <3>4, <3>5
    <2> QED BY <1>6, <2>1, <2>2 DEF StorePush
  <1>7. ASSUME NEW j \in Jobs, Obtain(j) PROVE TypeInv'
    <2>1. CASE \E n \in 1 .. Latest(j.path) :
                 /\ Finish(j, "ok")
                 /\ copy' = [copy EXCEPT ![j.user][j.path] = n]
                 /\ UNCHANGED <<server, lastKey, vk, nk, base, todo, sealed, out>>
      <3>0. Latest(j.path) \in Nat
        BY <1>0, LogRows DEF TypeOK
      <3>a. copy' \in [Users -> [Paths -> Nat]]
        <4>1. PICK n \in 1 .. Latest(j.path) : copy' = [copy EXCEPT ![j.user][j.path] = n]
          BY <2>1
        <4>2. n \in Nat
          BY <3>0
        <4> QED BY <4>1, <4>2, <1>0 DEF TypeOK
      <3>1. TypeOK'
        BY <2>1, <3>a DEF TypeOK, States
      <3>2. pc' = [pc EXCEPT ![j] = "done"] /\ UNCHANGED <<vk, nk, todo, sealed>>
        BY <2>1
      <3>3. CommandInv'
        BY <3>2 DEF TypeOK, CommandInv, Rotating
      <3> QED BY <3>1, <3>3
    <2> QED BY <1>1, <1>7, <2>1 DEF Obtain
  <1>8. ASSUME NEW j \in Jobs, StoreGrant(j) PROVE TypeInv'
    <2>1. vk[j].key \in Nat \ {0} /\ vk[j].version \in Nat \ {0}
      BY <1>8 DEF StoreGrant, TypeOK, CommandInv, Key, Rotating
    <2>2. shares' \subseteq Share
      <3>1. j.target \in Users /\ shares \in SUBSET Share
        BY <1>0 DEF TypeOK
      <3> QED BY <3>1, <2>1, <1>8, AddShareEffect DEF StoreGrant
    <2>3. TypeOK'
      BY <1>8, <2>2, <1>0 DEF StoreGrant, TypeOK, States
    <2>4. CommandInv'
      BY <1>8 DEF StoreGrant, TypeOK, CommandInv, Rotating
    <2> QED BY <2>3, <2>4
  <1>9. ASSUME NEW j \in Jobs, NEW v \in Nat, NewKey(j, v) PROVE TypeInv'
    <2> DEFINE new == [key |-> lastKey + 1, version |-> v + 1]
    <2>n. lastKey \in Nat
      BY DEF TypeOK
    <2>a. lastKey + 1 \in Nat \ {0} /\ v + 1 \in Nat \ {0}
      BY <2>n
    <2>0. /\ new \in Key /\ new.key # 0 /\ new.version # 0
          /\ nk' = [nk EXCEPT ![j] = new] /\ lastKey' = lastKey + 1
      BY <2>a, <1>9 DEF NewKey, Key
    <2> HIDE DEF new
    <2>1. TypeOK'
      BY <1>9, <2>a, <2>0 DEF NewKey, TypeOK, States
    <2>2. CommandInv'
      BY <1>9, <2>0 DEF NewKey, TypeOK, CommandInv, Rotating
    <2> QED BY <2>1, <2>2
  <1>10. ASSUME NEW j \in Jobs, FetchVersion(j) \/ FetchVersionFails(j) PROVE TypeInv'
    <2>1. \A sh \in shares : sh.version \in Nat
      BY DEF TypeOK, Share
    <2> QED BY <1>9, <1>10, <2>1 DEF FetchVersion, FetchVersionFails
  <1>11. ASSUME NEW j \in Jobs, ListFiles(j) PROVE TypeInv'
    <2>1. CASE /\ Goto(j, "list", "reencrypt")
               /\ base' = [base EXCEPT ![j] = [p \in Paths |-> Latest(p)]]
               /\ todo' = [todo EXCEPT ![j] = {p \in Paths : Live(p)}]
               /\ UNCHANGED <<server, lastKey, copy, result, vk, nk, sealed, out>>
      <3>1. [p \in Paths |-> Latest(p)] \in [Paths -> Nat]
        BY LogRows DEF TypeOK
      <3>2. TypeOK'
        BY <2>1, <3>1 DEF TypeOK, States
      <3>3. CommandInv'
        BY <2>1 DEF TypeOK, CommandInv, Rotating
      <3> QED BY <3>2, <3>3
    <2> QED BY <1>1, <1>11, <2>1 DEF ListFiles
  <1>12. ASSUME NEW j \in Jobs, ReEncrypt(j) PROVE TypeInv'
    <2>1. ASSUME NEW p \in todo[j], pc[j] = "reencrypt",
                 out' = [out EXCEPT ![j][p] = log[p][Latest(p)].content],
                 todo' = [todo EXCEPT ![j] = @ \ {p}],
                 sealed' = [sealed EXCEPT ![j] = @ \cup {p}],
                 UNCHANGED <<server, lastKey, copy, pc, result, vk, nk, base>>
          PROVE  TypeInv'
      <3>1. p \in Paths /\ base[j][p] \in 1 .. Latest(p)
        BY DEF TypeOK, RotationInv
      <3>2. Latest(p) \in 1 .. Latest(p)
        <4>1. Latest(p) \in Nat
          BY <3>1, LogRows DEF TypeOK
        <4> QED BY <3>1, <4>1
      <3>3. log[p][Latest(p)] \in Row
        BY <3>1, <3>2, LogRows DEF TypeOK
      <3>4. log[p][Latest(p)].content \in Nat
        BY <3>3 DEF Row
      <3>5. TypeOK'
        BY <2>1, <3>1, <3>4 DEF TypeOK
      <3>6. CommandInv'
        BY <2>1 DEF TypeOK, CommandInv
      <3> QED BY <3>5, <3>6
    <2> QED BY <1>1, <1>12, <2>1 DEF ReEncrypt
  <1>13. ASSUME NEW j \in Jobs, PostRevoke(j) PROVE TypeInv'
    BY <1>13 DEF PostRevoke, TypeOK, CommandInv, States, Rotating
  <1>14. ASSUME NEW j \in Jobs, RevokeGrant(j) PROVE TypeInv'
    BY <1>14 DEF RevokeGrant, TypeOK, CommandInv, States, Rotating
  <1>15. ASSUME NEW j \in Jobs, AddKeyShares(j) PROVE TypeInv'
    <2>1. nk[j].key \in Nat \ {0} /\ nk[j].version \in Nat \ {0}
      BY <1>15 DEF AddKeyShares, TypeOK, CommandInv, Key, Rotating
    <2>2. shares' \subseteq Share
      <3>1. j.user \in Users /\ shares \in SUBSET Share
        BY <1>0 DEF TypeOK
      <3> QED BY <3>1, <2>1, <1>15, AddShareEffect DEF AddKeyShares
    <2>3. TypeOK'
      BY <1>15, <2>2 DEF AddKeyShares, TypeOK, States
    <2>4. CommandInv'
      BY <1>15 DEF AddKeyShares, TypeOK, CommandInv, Rotating
    <2> QED BY <2>3, <2>4
  <1>16. ASSUME NEW j \in Jobs, RotateFile(j) PROVE TypeInv'
    <2>1. ASSUME NEW p \in sealed[j], pc[j] = "pushFiles",
                 PushFile(p, base[j][p], RotatedRow(j, p)),
                 sealed' = [sealed EXCEPT ![j] = @ \ {p}],
                 UNCHANGED <<grants, shares, lastKey, copy, pc, result, vk, nk, base,
                             todo, out>>
          PROVE  TypeInv'
      <3>1. p \in Paths
        BY DEF TypeOK
      <3>a. nk[j].key \in Nat \ {0} /\ nk[j].version \in Nat \ {0}
        BY <2>1 DEF TypeOK, CommandInv, Key, Rotating
      <3>b. base[j][p] \in Nat /\ out[j][p] \in Nat
        BY <3>1 DEF TypeOK
      <3>2. RotatedRow(j, p) \in Row
        BY <3>a, <3>b DEF RotatedRow, Row
      <3>3. log' \in [Paths -> Seq(Row)]
        BY <2>1, <3>1, <3>2, PushFileEffect DEF TypeOK
      <3>4. TypeOK'
        BY <2>1, <3>3 DEF TypeOK
      <3>5. CommandInv'
        BY <2>1 DEF TypeOK, CommandInv, Rotating
      <3> QED BY <3>4, <3>5
    <2> QED BY <1>1, <1>16, <2>1 DEF RotateFile
  <1>17. ASSUME NEW j \in Jobs, Revoked(j) \/ Stop(j) PROVE TypeInv'
    BY <1>1, <1>17 DEF Revoked, Stop
  <1>18. CASE UNCHANGED vars
    BY <1>18 DEF vars, TypeOK, CommandInv
  <1> QED
    BY <1>2, <1>3, <1>4, <1>5, <1>6, <1>7, <1>8, <1>10, <1>11, <1>12, <1>13, <1>14,
       <1>15, <1>16, <1>17, <1>18 DEF Next, Step, AllDone

(***************************************************************************)
(* Keys: where they come from and where they can be.                       *)
(***************************************************************************)

Label(x) == [key |-> x.key, version |-> x.version]
FirstKey == [key |-> 1, version |-> 1]
Made == {j \in Jobs : nk[j] # NoKey}

(* The keys there are: the first one and one per rotation. *)
Known == {FirstKey} \cup {nk[j] : j \in Made}

(* A new key is fresh, and every share, row and command has one of the known keys
   under the version it was made with. *)
KeysInv ==
  /\ \A j \in Made : nk[j].key \in 2 .. lastKey /\ nk[j].version \in Nat \ {0}
  /\ \A i, j \in Made : nk[i].key = nk[j].key => i = j
  /\ \A sh \in shares : Label(sh) \in Known
  /\ \A p \in Paths : \A n \in 1 .. Latest(p) : Label(log[p][n]) \in Known
  /\ \A j \in Jobs : vk[j] # NoKey => vk[j] \in Known

(* Rotations that have made a key and not yet handed out its first share. *)
Preparing == {"list", "reencrypt", "revokeGrant", "addShares"}

Reached(n) == \E sh \in shares : n <= sh.version
VersionMade(n) == \E j \in Made : nk[j].version = n

Newest(sh) == sh \in shares /\ \A x \in shares : x.version <= sh.version

OneChain == VersionsDistinct /\ \A j \in Jobs : ~RevokesItself(j)

(* As long as no version number is used twice, rotations follow each other: one
   that is being prepared belongs to a granted user who holds the newest key, it
   is the only one, and its version is the next.  So the newest key always has a
   granted holder. *)
Chain ==
  /\ \E sh \in shares : Newest(sh) /\ sh.user \in grants
  /\ \A j \in Jobs : vk[j] # NoKey => Reached(vk[j].version)
  /\ \A j \in Jobs : pc[j] = "pushFiles" => Reached(nk[j].version)
  /\ \A p \in Paths : \A n \in 1 .. Latest(p) : Reached(log[p][n].version)
  /\ \A sh \in shares : \A n \in 2 .. sh.version : VersionMade(n)
  /\ \A j \in Made : \A n \in 2 .. nk[j].version : VersionMade(n)
  /\ \A j \in Jobs : pc[j] \in Preparing =>
       /\ j.user \in grants
       /\ \E sh \in SharesOf(j.user) : Newest(sh) /\ nk[j].version = sh.version + 1
  /\ \A i, j \in Jobs : pc[i] \in Preparing /\ pc[j] \in Preparing => i = j

ChainInv == OneChain => Chain

IInv ==
  /\ TypeInv /\ KeysInv /\ ChainInv /\ RotationInv
  /\ RotationKeepsContent /\ GrantedHasShare /\ KeyWithheld

(***************************************************************************)
(* What a step does to keys, shares and files.                             *)
(***************************************************************************)

(* No command starts to prepare a rotation or to push its files. *)
StagesKept ==
  \A i \in Jobs :
    /\ pc'[i] \in Preparing => pc[i] \in Preparing
    /\ pc'[i] = "pushFiles" => pc[i] = "pushFiles"

NothingMoves ==
  UNCHANGED <<grants, shares, log, lastKey, vk, nk>> /\ StagesKept

KeyFetched(j, sh) ==
  /\ vk[j] = NoKey
  /\ sh \in shares
  /\ vk' = [vk EXCEPT ![j] = Label(sh)]
  /\ UNCHANGED <<grants, shares, log, lastKey, nk>>
  /\ StagesKept

RowAdded(p, row) ==
  /\ PushFile(p, Latest(p), row)
  /\ \E j \in Jobs : \/ vk[j] # NoKey /\ Label(row) = vk[j]
                     \/ pc[j] = "pushFiles" /\ nk[j] # NoKey /\ Label(row) = nk[j]
  /\ UNCHANGED <<grants, shares, lastKey, vk, nk>>
  /\ StagesKept

Granted(j) ==
  /\ j.op = "grant"
  /\ vk[j].key # 0 /\ vk[j].version # 0
  /\ grants' = grants \cup {j.target}
  /\ shares' = AddShare(shares, j.target, vk[j])
  /\ UNCHANGED <<log, lastKey, vk, nk>>
  /\ StagesKept

KeyMade(j, v) ==
  /\ nk[j] = NoKey
  /\ j.op = "revoke"
  /\ v = 0 \/ \E sh \in shares : CanFetch(j) /\ Highest(j.user, sh) /\ v = sh.version
  /\ lastKey' = lastKey + 1
  /\ nk' = [nk EXCEPT ![j] = [key |-> lastKey + 1, version |-> v + 1]]
  /\ UNCHANGED <<grants, shares, log, vk>>
  /\ \A i \in Jobs \ {j} : pc'[i] = pc[i]
  /\ pc'[j] = "list"

GrantRevoked(j) ==
  /\ pc[j] = "revokeGrant"
  /\ grants' = grants \ {j.target}
  /\ shares' = {sh \in shares : sh.user # j.target}
  /\ UNCHANGED <<log, lastKey, vk, nk>>
  /\ StagesKept

ShareAdded(j) ==
  /\ pc[j] = "addShares"
  /\ nk[j].key # 0 /\ nk[j].version # 0
  /\ shares' = AddShare(shares, j.user, nk[j])
  /\ UNCHANGED <<grants, log, lastKey, vk, nk>>
  /\ \A i \in Jobs \ {j} : pc'[i] = pc[i]
  /\ pc'[j] = "pushFiles"

LEMMA KeySteps ==
  ASSUME TypeInv, [Next]_vars
  PROVE  \/ NothingMoves
         \/ \E j \in Jobs :
              \/ \E sh \in shares : KeyFetched(j, sh)
              \/ \E v \in Nat : KeyMade(j, v)
              \/ Granted(j) \/ GrantRevoked(j) \/ ShareAdded(j)
         \/ \E p \in Paths : \E row \in Row : RowAdded(p, row)
  <1> DEFINE Moves(j) == \/ \E sh \in shares : KeyFetched(j, sh)
                         \/ \E v \in Nat : KeyMade(j, v)
                         \/ Granted(j) \/ GrantRevoked(j) \/ ShareAdded(j)
             Adds == \E p \in Paths : \E row \in Row : RowAdded(p, row)
             Goal == NothingMoves \/ (\E j \in Jobs : Moves(j)) \/ Adds
  <1> SUFFICES Goal
    OBVIOUS
  <1> USE DEF TypeInv, Goto, Fails, Finish, server, client
  <1>0. ASSUME NEW j \in Jobs
        PROVE /\ j.id \in Nat /\ j.op \in Operations /\ j.user \in Users
              /\ j.path \in Paths /\ j.target \in Users /\ j.version \in Nat
    BY JobsAssumption
  <1>1. ASSUME NEW j \in Jobs, NEW what, Fails(j, what)
        PROVE  NothingMoves
    BY <1>1 DEF NothingMoves, StagesKept, TypeOK, Preparing
  <1>2. ASSUME NEW j \in Jobs,
               \/ Start(j) \/ ReadBase(j) \/ CheckGrant(j) \/ Obtain(j) \/ ListFiles(j)
               \/ ReEncrypt(j) \/ PostRevoke(j) \/ Revoked(j) \/ Stop(j)
        PROVE  NothingMoves
    <2>1. CASE Start(j)
      BY <2>1 DEF Start, NothingMoves, StagesKept, TypeOK, Preparing
    <2>2. CASE ReadBase(j)
      BY <2>2, <1>1 DEF ReadBase, NothingMoves, StagesKept, TypeOK, Preparing
    <2>3. CASE CheckGrant(j)
      BY <2>3, <1>1 DEF CheckGrant, NothingMoves, StagesKept, TypeOK, Preparing
    <2>4. CASE Obtain(j)
      <3>1. CASE /\ Finish(j, "ok")
                 /\ UNCHANGED <<server, lastKey, vk, nk>>
        BY <3>1 DEF NothingMoves, StagesKept, TypeOK, Preparing
      <3> QED BY <2>4, <3>1, <1>1 DEF Obtain
    <2>5. CASE ListFiles(j)
      <3>1. CASE /\ Goto(j, "list", "reencrypt")
                 /\ UNCHANGED <<server, lastKey, vk, nk>>
        BY <3>1 DEF NothingMoves, StagesKept, TypeOK, Preparing
      <3> QED BY <2>5, <3>1, <1>1 DEF ListFiles
    <2>6. CASE ReEncrypt(j)
      <3>1. CASE UNCHANGED <<server, lastKey, pc, vk, nk>>
        BY <3>1 DEF NothingMoves, StagesKept, TypeOK, Preparing
      <3> QED BY <2>6, <3>1, <1>1 DEF ReEncrypt
    <2>7. CASE PostRevoke(j)
      BY <2>7 DEF PostRevoke, NothingMoves, StagesKept, TypeOK, Preparing
    <2>8. CASE Revoked(j) \/ Stop(j)
      BY <2>8, <1>1 DEF Revoked, Stop
    <2> QED BY <1>2, <2>1, <2>2, <2>3, <2>4, <2>5, <2>6, <2>7, <2>8
  <1>3. ASSUME NEW j \in Jobs, FetchKey(j) PROVE NothingMoves \/ Moves(j)
    <2>1. ASSUME NEW sh \in shares, Goto(j, "key", AfterKey(j)),
                 vk' = [vk EXCEPT ![j] = [key |-> sh.key, version |-> sh.version]],
                 UNCHANGED <<server, lastKey, copy, result, nk, base, todo, sealed, out>>
          PROVE  KeyFetched(j, sh)
      <3>1. AfterKey(j) \notin Preparing \cup {"pushFiles"}
        BY <1>0 DEF AfterKey, Preparing, Operations
      <3>2. StagesKept
        BY <2>1, <3>1 DEF StagesKept, TypeOK
      <3>3. vk[j] = NoKey
        BY <2>1 DEF CommandInv
      <3> QED BY <2>1, <3>2, <3>3 DEF KeyFetched, Label
    <2> QED BY <1>1, <1>3, <2>1 DEF FetchKey
  <1>4. ASSUME NEW j \in Jobs, StorePush(j) PROVE NothingMoves \/ Adds
    <2>1. CASE Fails(j, "conflict")
      BY <2>1, <1>1
    <2>2. CASE /\ PushFile(j.path, base[j][j.path], PushedRow(j))
               /\ Finish(j, "ok")
               /\ UNCHANGED <<grants, shares, lastKey, vk, nk, base, todo, sealed, out>>
      <3>0. vk[j].key \in Nat \ {0} /\ vk[j].version \in Nat \ {0}
        BY <1>4 DEF StorePush, TypeOK, CommandInv, Key
      <3>1. vk[j] # NoKey
        BY <3>0 DEF NoKey
      <3>a. copy[j.user] \in [Paths -> Nat] /\ vk[j] \in Key
        BY <1>0 DEF TypeOK
      <3>2. PushedRow(j) \in Row
        BY <1>0, <3>0, <3>a DEF PushedRow, Row, EmptyContent
      <3>3. Label(PushedRow(j)) = vk[j]
        BY <3>a DEF PushedRow, Label, Key
      <3>4. StagesKept
        BY <2>2 DEF StagesKept, TypeOK, Preparing
      <3>5. PushFile(j.path, Latest(j.path), PushedRow(j))
        BY <2>2 DEF PushFile
      <3>6. RowAdded(j.path, PushedRow(j))
        BY <2>2, <3>1, <3>3, <3>4, <3>5 DEF RowAdded
      <3> QED BY <1>0, <3>2, <3>6
    <2> QED BY <1>4, <2>1, <2>2 DEF StorePush
  <1>5. ASSUME NEW j \in Jobs, RotateFile(j) PROVE NothingMoves \/ Adds
    <2>1. ASSUME NEW p \in sealed[j], pc[j] = "pushFiles",
                 PushFile(p, base[j][p], RotatedRow(j, p)),
                 UNCHANGED <<grants, shares, lastKey, pc, vk, nk>>
          PROVE  Adds
      <3>1. p \in Paths
        BY DEF TypeOK
      <3>a. nk[j].key \in Nat \ {0} /\ nk[j].version \in Nat \ {0} /\ nk[j] \in Key
        BY <2>1 DEF TypeOK, CommandInv, Key, Rotating
      <3>c. nk[j] # NoKey
        BY <3>a DEF NoKey
      <3>b. base[j] \in [Paths -> Nat] /\ out[j] \in [Paths -> Nat]
        BY DEF TypeOK
      <3>2. RotatedRow(j, p) \in Row
        BY <3>1, <3>a, <3>b DEF RotatedRow, Row
      <3>3. Label(RotatedRow(j, p)) = nk[j]
        BY <3>a DEF RotatedRow, Label, Key
      <3>4. StagesKept
        BY <2>1 DEF StagesKept
      <3>5. PushFile(p, Latest(p), RotatedRow(j, p))
        BY <2>1 DEF PushFile
      <3>6. RowAdded(p, RotatedRow(j, p))
        BY <2>1, <3>c, <3>3, <3>4, <3>5 DEF RowAdded
      <3> QED BY <3>1, <3>2, <3>6
    <2> QED BY <1>1, <1>5, <2>1 DEF RotateFile
  <1>6. ASSUME NEW j \in Jobs, StoreGrant(j) PROVE Moves(j)
    <2>1. vk[j].key # 0 /\ vk[j].version # 0
      BY <1>6 DEF StoreGrant, CommandInv, Rotating
    <2>2. StagesKept
      BY <1>6 DEF StoreGrant, StagesKept, TypeOK, Preparing
    <2> QED BY <1>6, <2>1, <2>2 DEF StoreGrant, Granted
  <1>7. ASSUME NEW j \in Jobs, NEW v \in Nat, NewKey(j, v),
               v = 0 \/ \E sh \in shares : CanFetch(j) /\ Highest(j.user, sh) /\ v = sh.version
        PROVE  Moves(j)
    <2>1. nk[j] = NoKey /\ j.op = "revoke"
      BY <1>7 DEF NewKey, CommandInv, Rotating
    <2>2. (\A i \in Jobs \ {j} : pc'[i] = pc[i]) /\ pc'[j] = "list"
      BY <1>7 DEF NewKey, TypeOK
    <2>3. KeyMade(j, v)
      BY <1>7, <2>1, <2>2 DEF NewKey, KeyMade
    <2> QED BY <2>3
  <1>8. ASSUME NEW j \in Jobs, FetchVersion(j) \/ FetchVersionFails(j) PROVE Moves(j)
    <2>1. \A sh \in shares : sh.version \in Nat
      BY DEF TypeOK, Share
    <2> HIDE DEF Moves
    <2> QED BY <1>7, <1>8, <2>1 DEF FetchVersion, FetchVersionFails
  <1>9. ASSUME NEW j \in Jobs, RevokeGrant(j) PROVE Moves(j)
    <2>1. StagesKept
      BY <1>9 DEF RevokeGrant, StagesKept, TypeOK, Preparing
    <2> QED BY <1>9, <2>1 DEF RevokeGrant, GrantRevoked
  <1>10. ASSUME NEW j \in Jobs, AddKeyShares(j) PROVE Moves(j)
    <2>1. nk[j].key # 0 /\ nk[j].version # 0
      BY <1>10 DEF AddKeyShares, CommandInv, Rotating
    <2>2. (\A i \in Jobs \ {j} : pc'[i] = pc[i]) /\ pc'[j] = "pushFiles"
      BY <1>10 DEF AddKeyShares, TypeOK
    <2> QED BY <1>10, <2>1, <2>2 DEF AddKeyShares, ShareAdded
  <1>11. CASE UNCHANGED vars
    BY <1>11 DEF vars, NothingMoves, StagesKept
  <1> HIDE DEF Moves, Adds
  <1> QED
    BY <1>2, <1>3, <1>4, <1>5, <1>6, <1>8, <1>9, <1>10, <1>11 DEF Next, Step, AllDone

LEMMA KeysInit == Init => KeysInv
  <1> SUFFICES ASSUME Init PROVE KeysInv
    OBVIOUS
  <1>1. Made = {}
    BY DEF Init, Made
  <1>2. \A sh \in shares : Label(sh) = FirstKey
    BY DEF Init, Label, FirstKey
  <1>3. \A p \in Paths : \A n \in 1 .. Latest(p) : Label(log[p][n]) = FirstKey
    <2> SUFFICES ASSUME NEW p \in Paths, NEW n \in 1 .. Latest(p)
                 PROVE  Label(log[p][n]) = FirstKey
      OBVIOUS
    <2>1. log[p] = <<FirstRow>> \/ log[p] = << >>
      BY DEF Init
    <2>2. log[p][n] = FirstRow
      BY <2>1 DEF Latest
    <2> QED BY <2>2 DEF FirstRow, Label, FirstKey
  <1>4. \A j \in Jobs : vk[j] = NoKey
    BY DEF Init
  <1> QED BY <1>1, <1>2, <1>3, <1>4 DEF KeysInv, Known

LEMMA KeysStep ==
  ASSUME TypeInv, RotationInv, KeysInv, [Next]_vars
  PROVE  KeysInv'
  <1>0. /\ nk \in [Jobs -> Key] /\ vk \in [Jobs -> Key] /\ lastKey \in Nat \ {0}
        /\ shares \in SUBSET Share /\ log \in [Paths -> Seq(Row)]
        /\ log' \in [Paths -> Seq(Row)]
    BY TypeStep DEF TypeInv, TypeOK
  <1>1. ASSUME UNCHANGED <<lastKey, nk>>
        PROVE  Known' = Known /\ Made' = Made
    BY <1>1 DEF Known, Made
  <1>2. CASE NothingMoves
    BY <1>1, <1>2 DEF NothingMoves, KeysInv, Latest
  <1>3. ASSUME NEW j \in Jobs, NEW sh \in shares, KeyFetched(j, sh)
        PROVE  KeysInv'
    <2>1. \A i \in Jobs : vk'[i] = vk[i] \/ vk'[i] = Label(sh)
      BY <1>0, <1>3 DEF KeyFetched
    <2> QED BY <1>1, <1>3, <2>1 DEF KeyFetched, KeysInv, Latest
  <1>4. ASSUME NEW j \in Jobs, NEW v \in Nat, KeyMade(j, v)
        PROVE  KeysInv'
    <2> DEFINE new == [key |-> lastKey + 1, version |-> v + 1]
    <2>0. lastKey \in Nat
      BY <1>0
    <2>1. new.key = lastKey + 1 /\ new.version \in Nat \ {0} /\ new.key # 0
      BY <2>0
    <2>2. new # NoKey
      BY <2>1 DEF NoKey
    <2>3. j \notin Made /\ nk' = [nk EXCEPT ![j] = new] /\ lastKey' = lastKey + 1
      BY <1>4 DEF KeyMade, Made
    <2> HIDE DEF new
    <2>4. Made' = Made \cup {j} /\ nk'[j] = new /\ \A i \in Jobs \ {j} : nk'[i] = nk[i]
      BY <1>0, <2>2, <2>3 DEF Made
    <2>5. Known' = Known \cup {new}
      BY <2>3, <2>4 DEF Known, Made
    <2>6. \A i \in Made : nk[i].key \in 2 .. lastKey /\ nk[i].version \in Nat \ {0}
      BY DEF KeysInv
    <2>7. \A i \in Made' : nk'[i].key \in 2 .. lastKey' /\ nk'[i].version \in Nat \ {0}
      BY <2>0, <1>0, <2>1, <2>3, <2>4, <2>6 DEF Made
    <2>8. \A i \in Made : nk[i].key # new.key
      BY <2>0, <2>1, <2>6
    <2>9. \A i, k \in Made' : nk'[i].key = nk'[k].key => i = k
      BY <2>4, <2>3, <2>8 DEF KeysInv, Made
    <2>10. UNCHANGED <<shares, log, vk>>
      BY <1>4 DEF KeyMade
    <2> QED BY <2>5, <2>7, <2>9, <2>10 DEF KeysInv, Latest
  <1>5. ASSUME NEW j \in Jobs, NEW u \in Users, NEW k \in Known,
               k.key # 0, k.version # 0,
               shares' = AddShare(shares, u, k),
               UNCHANGED <<log, lastKey, vk, nk>>
        PROVE  KeysInv'
    <2>1. k \in Key
      BY <1>0 DEF Known, FirstKey, Key, Made
    <2>2. k.key \in Nat \ {0} /\ k.version \in Nat \ {0} /\ k = Label(k)
      BY <1>5, <2>1 DEF Key, Label
    <2>3. \A sh \in shares' : sh \in shares \/ Label(sh) = Label(k)
      BY <1>0, <1>5, <2>2, AddShareEffect DEF Label
    <2> QED BY <1>1, <1>5, <2>2, <2>3 DEF KeysInv, Latest
  <1>6. ASSUME NEW j \in Jobs, Granted(j) PROVE KeysInv'
    <2>1. j.target \in Users
      BY JobsAssumption
    <2>2. vk[j] # NoKey
      BY <1>6 DEF Granted, NoKey
    <2> QED BY <1>5, <1>6, <2>1, <2>2 DEF Granted, KeysInv
  <1>7. ASSUME NEW j \in Jobs, ShareAdded(j) PROVE KeysInv'
    <2>1. j.user \in Users
      BY JobsAssumption
    <2>2. nk[j] # NoKey
      BY <1>7 DEF ShareAdded, NoKey
    <2>3. nk[j] \in Known
      BY <2>2 DEF Known, Made
    <2> QED BY <1>5, <1>7, <2>1, <2>3 DEF ShareAdded
  <1>8. ASSUME NEW j \in Jobs, GrantRevoked(j) PROVE KeysInv'
    BY <1>1, <1>8 DEF GrantRevoked, KeysInv, Latest
  <1>9. ASSUME NEW p \in Paths, NEW row \in Row, RowAdded(p, row) PROVE KeysInv'
    <2>1. Label(row) \in Known
      BY <1>9 DEF RowAdded, KeysInv, Known, Made
    <2>2. \A q \in Paths : \A n \in 1 .. Latest(q)' :
             log'[q][n] = row \/ (n \in 1 .. Latest(q) /\ log'[q][n] = log[q][n])
      <3> SUFFICES ASSUME NEW q \in Paths, NEW n \in 1 .. Latest(q)'
                   PROVE  log'[q][n] = row \/ (n \in 1 .. Latest(q) /\ log'[q][n] = log[q][n])
        OBVIOUS
      <3>1. /\ Latest(p)' = Latest(p) + 1
            /\ log'[p][Latest(p) + 1] = row
            /\ \A i \in 1 .. Latest(p) : log'[p][i] = log[p][i]
            /\ \A r \in Paths : r # p => log'[r] = log[r] /\ Latest(r)' = Latest(r)
        BY <1>0, <1>9, PushFileEffect DEF RowAdded
      <3>2. Latest(p) \in Nat
        BY <1>0, LogRows
      <3> QED BY <3>1, <3>2
    <2> QED BY <1>1, <1>9, <2>1, <2>2 DEF RowAdded, KeysInv
  <1> QED BY KeySteps, <1>2, <1>3, <1>4, <1>6, <1>7, <1>8, <1>9

(***************************************************************************)
(* Files: a rotation carries content over.                                 *)
(***************************************************************************)

LEMMA RotationInit == Init => RotationInv /\ RotationKeepsContent
  <1> SUFFICES ASSUME Init PROVE RotationInv /\ RotationKeepsContent
    OBVIOUS
  <1>1. RotationInv
    BY DEF Init, RotationInv
  <1>2. ASSUME NEW p \in Paths, NEW n \in 1 .. Latest(p) PROVE ~log[p][n].rotated
    <2>1. log[p] = <<FirstRow>> \/ log[p] = << >>
      BY DEF Init
    <2>2. log[p][n] = FirstRow
      BY <2>1 DEF Latest
    <2> QED BY <2>2 DEF FirstRow
  <1> QED BY <1>1, <1>2 DEF RotationKeepsContent

(* A step that adds a row to one path, and sends what it sends from there. *)
LEMMA RotationAppend ==
  ASSUME TypeOK, RotationInv, RotationKeepsContent,
         NEW p \in Paths, NEW b, NEW row \in Row, PushFile(p, b, row),
         row.rotated => /\ b # 0
                        /\ log[p][b].content = row.content
                        /\ ~log[p][b].deleted,
         UNCHANGED <<base, todo, out>>,
         \A j \in Jobs : sealed'[j] \subseteq sealed[j]
  PROVE  RotationInv' /\ RotationKeepsContent'
  <1>0. \A q \in Paths : Latest(q) \in Nat
    BY LogRows DEF TypeOK
  <1>1. /\ b = Latest(p)
        /\ Latest(p)' = Latest(p) + 1
        /\ log'[p][Latest(p) + 1] = row
        /\ \A n \in 1 .. Latest(p) : log'[p][n] = log[p][n]
        /\ \A q \in Paths : q # p => log'[q] = log[q] /\ Latest(q)' = Latest(q)
    BY PushFileEffect DEF TypeOK
  <1>2. \A q \in Paths : \A n \in 1 .. Latest(q) :
          n \in 1 .. Latest(q)' /\ log'[q][n] = log[q][n]
    BY <1>0, <1>1
  <1>3. RotationInv'
    <2> SUFFICES ASSUME NEW j \in Jobs, NEW q \in todo'[j] \cup sealed'[j]
                 PROVE  /\ base'[j][q] \in 1 .. Latest(q)'
                        /\ ~log'[q][base'[j][q]].deleted
                        /\ q \in sealed'[j] /\ base'[j][q] = Latest(q)' =>
                             out'[j][q] = log'[q][base'[j][q]].content
      BY DEF RotationInv
    <2>1. q \in todo[j] \cup sealed[j] /\ q \in Paths
      BY DEF TypeOK
    <2>2. /\ base[j][q] \in 1 .. Latest(q)
          /\ ~log[q][base[j][q]].deleted
          /\ q \in sealed[j] /\ base[j][q] = Latest(q) =>
               out[j][q] = log[q][base[j][q]].content
      BY <2>1 DEF RotationInv
    <2>3. log'[q][base[j][q]] = log[q][base[j][q]] /\ base[j][q] \in 1 .. Latest(q)'
      BY <1>2, <2>1, <2>2
    <2>4. base[j][q] = Latest(q)' => base[j][q] = Latest(q)
      BY <1>0, <1>1, <2>1, <2>2
    <2> QED BY <2>2, <2>3, <2>4
  <1>4. RotationKeepsContent'
    <2> SUFFICES ASSUME NEW q \in Paths, NEW n \in 1 .. Latest(q)', log'[q][n].rotated
                 PROVE  /\ n > 1
                        /\ log'[q][n - 1].content = log'[q][n].content
                        /\ ~log'[q][n - 1].deleted
      BY DEF RotationKeepsContent
    <2>1. CASE n \in 1 .. Latest(q)
      <3>1. log[q][n] = log'[q][n]
        BY <1>2, <2>1
      <3>2. /\ n > 1
            /\ log[q][n - 1].content = log[q][n].content
            /\ ~log[q][n - 1].deleted
        BY <2>1, <3>1 DEF RotationKeepsContent
      <3>3. n - 1 \in 1 .. Latest(q)
        BY <1>0, <2>1, <3>2
      <3>4. log'[q][n - 1] = log[q][n - 1]
        BY <1>2, <3>3
      <3> QED BY <3>1, <3>2, <3>4
    <2>2. CASE n \notin 1 .. Latest(q)
      <3>1. q = p /\ n = Latest(p) + 1 /\ Latest(p) = n - 1
        BY <1>0, <1>1, <2>2
      <3>2. log'[q][n] = row /\ b = n - 1
        BY <1>1, <3>1
      <3>3. b \in 1 .. Latest(p)
        BY <1>0, <1>1, <3>2
      <3>4. log'[p][b] = log[p][b]
        BY <1>1, <3>3
      <3> QED BY <1>0, <1>1, <3>1, <3>2, <3>3, <3>4
    <2> QED BY <2>1, <2>2
  <1> QED BY <1>3, <1>4

LEMMA RotationStep ==
  ASSUME TypeInv, RotationInv, RotationKeepsContent, [Next]_vars
  PROVE  RotationInv' /\ RotationKeepsContent'
  <1> USE DEF TypeInv, Goto, Fails, Finish, server, client
  <1>0. ASSUME NEW j \in Jobs
        PROVE /\ j.id \in Nat /\ j.op \in Operations /\ j.user \in Users
              /\ j.path \in Paths /\ j.target \in Users /\ j.version \in Nat
    BY JobsAssumption
  <1>1. ASSUME UNCHANGED <<log, base, todo, sealed, out>>
        PROVE  RotationInv' /\ RotationKeepsContent'
    BY <1>1 DEF RotationInv, RotationKeepsContent, Latest
  <1>2. ASSUME NEW j \in Jobs,
               \/ Start(j) \/ FetchKey(j) \/ CheckGrant(j) \/ Obtain(j) \/ StoreGrant(j)
               \/ FetchVersion(j) \/ FetchVersionFails(j) \/ PostRevoke(j)
               \/ RevokeGrant(j) \/ AddKeyShares(j) \/ Revoked(j) \/ Stop(j)
        PROVE  UNCHANGED <<log, base, todo, sealed, out>>
    <2>1. CASE Start(j) \/ FetchKey(j) \/ CheckGrant(j) \/ StoreGrant(j)
      BY <2>1 DEF Start, FetchKey, CheckGrant, StoreGrant
    <2>2. CASE Obtain(j)
      BY <2>2 DEF Obtain
    <2>3. CASE FetchVersion(j) \/ FetchVersionFails(j)
      BY <2>3 DEF FetchVersion, FetchVersionFails, NewKey
    <2>4. CASE PostRevoke(j) \/ RevokeGrant(j) \/ AddKeyShares(j) \/ Revoked(j) \/ Stop(j)
      BY <2>4 DEF PostRevoke, RevokeGrant, AddKeyShares, Revoked, Stop
    <2> QED BY <1>2, <2>1, <2>2, <2>3, <2>4
  <1>3. ASSUME NEW j \in Jobs, ReadBase(j)
        PROVE  RotationInv' /\ RotationKeepsContent'
    <2>1. CASE Fails(j, "refused")
      BY <1>1, <2>1
    <2>2. CASE /\ pc[j] = "base"
               /\ base' = [base EXCEPT ![j][j.path] = Latest(j.path)]
               /\ UNCHANGED <<log, todo, sealed, out>>
      <3>1. todo[j] = {} /\ sealed[j] = {}
        BY <2>2 DEF CommandInv
      <3>2. \A i \in Jobs : i # j => base'[i] = base[i]
        BY <2>2 DEF TypeOK
      <3>3. RotationInv'
        BY <2>2, <3>1, <3>2 DEF RotationInv, Latest
      <3> QED BY <2>2, <3>3 DEF RotationKeepsContent, Latest
    <2> QED BY <1>3, <2>1, <2>2 DEF ReadBase
  <1>4. ASSUME NEW j \in Jobs, ListFiles(j)
        PROVE  RotationInv' /\ RotationKeepsContent'
    <2>1. CASE Fails(j, "refused")
      BY <1>1, <2>1
    <2>2. CASE /\ pc[j] = "list"
               /\ base' = [base EXCEPT ![j] = [p \in Paths |-> Latest(p)]]
               /\ todo' = [todo EXCEPT ![j] = {p \in Paths : Live(p)}]
               /\ UNCHANGED <<log, sealed, out>>
      <3>1. sealed[j] = {}
        BY <2>2 DEF CommandInv
      <3>2. \A i \in Jobs : i # j => base'[i] = base[i] /\ todo'[i] = todo[i]
        BY <2>2 DEF TypeOK
      <3>3. base'[j] = [p \in Paths |-> Latest(p)] /\ todo'[j] = {p \in Paths : Live(p)}
        BY <2>2 DEF TypeOK
      <3>4. ASSUME NEW p \in Paths, Live(p)
            PROVE  Latest(p) \in 1 .. Latest(p) /\ ~log[p][Latest(p)].deleted
        <4>1. log[p] \in Seq(Row) /\ log[p] # << >> /\ Latest(p) \in Nat
          BY <3>4, LogRows DEF TypeOK, Live
        <4>2. Latest(p) # 0
          BY <4>1, EmptySeq DEF Latest
        <4> QED BY <3>4, <4>1, <4>2 DEF Live
      <3>5. RotationInv'
        <4> SUFFICES ASSUME NEW i \in Jobs, NEW q \in todo'[i] \cup sealed'[i]
                     PROVE  /\ base'[i][q] \in 1 .. Latest(q)'
                            /\ ~log'[q][base'[i][q]].deleted
                            /\ q \in sealed'[i] /\ base'[i][q] = Latest(q)' =>
                                 out'[i][q] = log'[q][base'[i][q]].content
          BY DEF RotationInv
        <4>1. CASE i = j
          BY <4>1, <2>2, <3>1, <3>3, <3>4 DEF Latest
        <4>2. CASE i # j
          BY <4>2, <2>2, <3>2 DEF Latest, RotationInv
        <4> QED BY <4>1, <4>2
      <3> QED BY <2>2, <3>5 DEF RotationKeepsContent, Latest
    <2> QED BY <1>4, <2>1, <2>2 DEF ListFiles
  <1>5. ASSUME NEW j \in Jobs, ReEncrypt(j)
        PROVE  RotationInv' /\ RotationKeepsContent'
    <2>1. ASSUME NEW p \in todo[j],
                 out' = [out EXCEPT ![j][p] = log[p][Latest(p)].content],
                 todo' = [todo EXCEPT ![j] = @ \ {p}],
                 sealed' = [sealed EXCEPT ![j] = @ \cup {p}],
                 UNCHANGED <<log, base>>
          PROVE  RotationInv' /\ RotationKeepsContent'
      <3>0. p \in Paths
        BY DEF TypeOK
      <3>1. /\ \A i \in Jobs : todo'[i] \cup sealed'[i] = todo[i] \cup sealed[i]
            /\ \A i \in Jobs : i # j => sealed'[i] = sealed[i]
            /\ sealed'[j] = sealed[j] \cup {p}
        BY <2>1 DEF TypeOK
      <3>2. \A i \in Jobs : \A q \in Paths :
              out'[i][q] = IF i = j /\ q = p THEN log[p][Latest(p)].content ELSE out[i][q]
        BY <2>1, <3>0 DEF TypeOK
      <3>3. RotationInv'
        <4> SUFFICES ASSUME NEW i \in Jobs, NEW q \in todo'[i] \cup sealed'[i]
                     PROVE  /\ base'[i][q] \in 1 .. Latest(q)'
                            /\ ~log'[q][base'[i][q]].deleted
                            /\ q \in sealed'[i] /\ base'[i][q] = Latest(q)' =>
                                 out'[i][q] = log'[q][base'[i][q]].content
          BY DEF RotationInv
        <4>1. q \in todo[i] \cup sealed[i] /\ q \in Paths
          BY <3>1 DEF TypeOK
        <4>2. base[i][q] \in 1 .. Latest(q) /\ ~log[q][base[i][q]].deleted
          BY <4>1 DEF RotationInv
        <4>3. Latest(q)' = Latest(q)
          BY <2>1 DEF Latest
        <4>4. CASE i = j /\ q = p
          BY <4>4, <2>1, <3>0, <3>2, <4>2, <4>3
        <4>5. CASE ~(i = j /\ q = p)
          <5>1. out'[i][q] = out[i][q] /\ (q \in sealed'[i] => q \in sealed[i])
            BY <4>5, <3>1, <3>2, <4>1
          <5> QED BY <2>1, <4>1, <4>3, <5>1 DEF RotationInv
        <4> QED BY <4>4, <4>5
      <3> QED BY <2>1, <3>3 DEF RotationKeepsContent, Latest
    <2> QED BY <1>1, <1>5, <2>1 DEF ReEncrypt
  <1>6. ASSUME NEW j \in Jobs, StorePush(j)
        PROVE  RotationInv' /\ RotationKeepsContent'
    <2>1. CASE Fails(j, "conflict")
      BY <1>1, <2>1
    <2>2. CASE /\ PushFile(j.path, base[j][j.path], PushedRow(j))
               /\ UNCHANGED <<base, todo, sealed, out>>
      <3>0. vk[j].key \in Nat \ {0} /\ vk[j].version \in Nat \ {0}
        BY <1>6 DEF StorePush, TypeOK, CommandInv, Key
      <3>a. copy[j.user] \in [Paths -> Nat] /\ j.path \in Paths
        BY <1>0 DEF TypeOK
      <3>2. PushedRow(j) \in Row /\ ~PushedRow(j).rotated
        BY <1>0, <3>0, <3>a DEF PushedRow, Row, EmptyContent
      <3> QED BY <2>2, <3>a, <3>2, RotationAppend
    <2> QED BY <1>6, <2>1, <2>2 DEF StorePush
  <1>7. ASSUME NEW j \in Jobs, RotateFile(j)
        PROVE  RotationInv' /\ RotationKeepsContent'
    <2>1. ASSUME NEW p \in sealed[j], pc[j] = "pushFiles",
                 PushFile(p, base[j][p], RotatedRow(j, p)),
                 sealed' = [sealed EXCEPT ![j] = @ \ {p}],
                 UNCHANGED <<base, todo, out>>
          PROVE  RotationInv' /\ RotationKeepsContent'
      <3>1. p \in Paths
        BY DEF TypeOK
      <3>a. nk[j].key \in Nat \ {0} /\ nk[j].version \in Nat \ {0}
        BY <2>1 DEF TypeOK, CommandInv, Key, Rotating
      <3>b. base[j] \in [Paths -> Nat] /\ out[j] \in [Paths -> Nat]
        BY DEF TypeOK
      <3>2. RotatedRow(j, p) \in Row /\ RotatedRow(j, p).content = out[j][p]
        BY <3>1, <3>a, <3>b DEF RotatedRow, Row
      <3>3. base[j][p] = Latest(p)
        BY <2>1 DEF PushFile
      <3>4. /\ base[j][p] # 0
            /\ ~log[p][base[j][p]].deleted
            /\ out[j][p] = log[p][base[j][p]].content
        BY <3>3 DEF RotationInv
      <3>5. \A i \in Jobs : sealed'[i] \subseteq sealed[i]
        BY <2>1 DEF TypeOK
      <3> QED BY <2>1, <3>1, <3>2, <3>4, <3>5, RotationAppend
    <2> QED BY <1>1, <1>7, <2>1 DEF RotateFile
  <1>8. CASE UNCHANGED vars
    BY <1>1, <1>8 DEF vars
  <1> QED
    BY <1>1, <1>2, <1>3, <1>4, <1>5, <1>6, <1>7, <1>8 DEF Next, Step, AllDone

(***************************************************************************)
(* Shares: who has one, and of which key.                                  *)
(***************************************************************************)

LEMMA SharesInit == Init => GrantedHasShare /\ KeyWithheld
  <1> SUFFICES ASSUME Init PROVE GrantedHasShare /\ KeyWithheld
    OBVIOUS
  <1>1. ASSUME NEW u \in grants PROVE SharesOf(u) # {}
    <2> DEFINE first == [user |-> u, version |-> 1, key |-> 1]
    <2>1. first \in shares /\ first.user = u
      BY DEF Init
    <2> QED BY <2>1 DEF SharesOf
  <1> QED BY <1>1 DEF Init, GrantedHasShare, KeyWithheld

LEMMA GrantedStep ==
  ASSUME TypeInv, GrantedHasShare, [Next]_vars
  PROVE  GrantedHasShare'
  <1> USE DEF GrantedHasShare, SharesOf
  <1>0. shares \in SUBSET Share /\ vk \in [Jobs -> Key] /\ nk \in [Jobs -> Key]
    BY DEF TypeInv, TypeOK
  <1>1. CASE UNCHANGED <<grants, shares>>
    BY <1>1
  <1>2. ASSUME NEW j \in Jobs, NEW u \in Users, NEW k \in Key, k.key # 0, k.version # 0,
               shares' = AddShare(shares, u, k), grants' \subseteq grants \cup {u}
        PROVE  GrantedHasShare'
    <2>1. k.key \in Nat \ {0} /\ k.version \in Nat \ {0}
      BY <1>2 DEF Key
    <2>2. shares \subseteq shares' /\ \E sh \in shares' : sh.user = u
      BY <1>0, <1>2, <2>1, AddShareEffect
    <2> QED BY <1>2, <2>2
  <1>3. ASSUME NEW j \in Jobs, Granted(j) PROVE GrantedHasShare'
    BY <1>0, <1>2, <1>3, JobsAssumption DEF Granted
  <1>4. ASSUME NEW j \in Jobs, ShareAdded(j) PROVE GrantedHasShare'
    <2>1. j.user \in Users
      BY JobsAssumption
    <2> QED BY <1>0, <1>2, <1>4, <2>1 DEF ShareAdded
  <1>5. ASSUME NEW j \in Jobs, GrantRevoked(j) PROVE GrantedHasShare'
    BY <1>5 DEF GrantRevoked
  <1> QED
    BY KeySteps, <1>1, <1>3, <1>4, <1>5 DEF NothingMoves, KeyFetched, KeyMade, RowAdded

LEMMA WithheldStep ==
  ASSUME TypeInv, KeysInv, KeyWithheld, [Next]_vars
  PROVE  KeyWithheld'
  <1>0. shares \in SUBSET Share /\ vk \in [Jobs -> Key] /\ nk \in [Jobs -> Key]
    BY DEF TypeInv, TypeOK
  <1> DEFINE Withholds(j) == j.op = "revoke" /\ j.target # j.user /\ nk[j] # NoKey
             Through(j) == \E g \in Jobs : /\ g.op = "grant" /\ g.target = j.target
                                           /\ vk[g].key = nk[j].key
  <1>1. \A j \in Jobs : Withholds(j) =>
          \A sh \in shares : sh.user = j.target /\ sh.key = nk[j].key => Through(j)
    BY DEF KeyWithheld, SharesOf
  <1>2. SUFFICES ASSUME NEW j \in Jobs, Withholds(j)', NEW sh \in shares',
                        sh.user = j.target, sh.key = nk'[j].key
                 PROVE  Through(j)'
    BY DEF KeyWithheld, SharesOf
  <1>a. \A i \in Made : nk[i].key # 0
    BY DEF KeysInv
  <1>3. ASSUME shares' \subseteq shares, UNCHANGED <<nk, vk>>
        PROVE  Through(j)'
    BY <1>1, <1>2, <1>3
  <1>4. ASSUME NEW i \in Jobs, NEW s \in shares, KeyFetched(i, s) PROVE Through(j)'
    <2>1. PICK g \in Jobs : g.op = "grant" /\ g.target = j.target /\ vk[g].key = nk[j].key
      BY <1>1, <1>2, <1>4 DEF KeyFetched
    <2>2. nk[j].key # 0
      BY <1>2, <1>4, <1>a DEF KeyFetched, Made
    <2>3. g # i
      BY <1>4, <2>1, <2>2 DEF KeyFetched, NoKey
    <2>4. vk'[g] = vk[g]
      BY <1>0, <1>4, <2>3 DEF KeyFetched
    <2> QED BY <1>4, <2>1, <2>4 DEF KeyFetched
  <1>5. ASSUME NEW i \in Jobs, NEW v \in Nat, KeyMade(i, v) PROVE Through(j)'
    <2>1. CASE j = i
      <3>0. lastKey \in Nat \ {0}
        BY DEF TypeInv, TypeOK
      <3>1. nk'[j].key = lastKey + 1 /\ sh \in shares
        BY <1>0, <1>2, <1>5, <2>1 DEF KeyMade
      <3>2. Label(sh) \in Known
        BY <3>1 DEF KeysInv
      <3>3. Label(sh) = FirstKey \/ \E k \in Made : Label(sh) = nk[k]
        BY <3>2 DEF Known
      <3>4. sh.key = 1 \/ \E k \in Made : sh.key = nk[k].key
        BY <3>3 DEF Label, FirstKey
      <3>5. \A k \in Made : nk[k].key \in 2 .. lastKey
        BY DEF KeysInv
      <3>6. sh.key \in 1 .. lastKey
        BY <3>0, <3>4, <3>5
      <3>7. sh.key # lastKey + 1
        BY <3>0, <3>6
      <3> QED BY <1>2, <3>1, <3>7
    <2>2. CASE j # i
      <3>1. nk'[j] = nk[j]
        BY <1>0, <1>5, <2>2 DEF KeyMade
      <3> QED BY <1>1, <1>2, <1>5, <3>1 DEF KeyMade
    <2> QED BY <2>1, <2>2
  <1>6. ASSUME NEW u \in Users, NEW k \in Key, k.key # 0, k.version # 0,
               shares' = AddShare(shares, u, k)
        PROVE  sh \in shares \/ (sh.user = u /\ sh.key = k.key)
    <2>1. k.key \in Nat \ {0} /\ k.version \in Nat \ {0}
      BY <1>6 DEF Key
    <2> QED BY <1>0, <1>2, <1>6, <2>1, AddShareEffect
  <1>7. ASSUME NEW i \in Jobs, Granted(i) PROVE Through(j)'
    <2>1. i.target \in Users
      BY JobsAssumption
    <2>2. sh \in shares \/ (sh.user = i.target /\ sh.key = vk[i].key)
      BY <1>0, <1>6, <1>7, <2>1 DEF Granted
    <2> QED BY <1>1, <1>2, <1>7, <2>2 DEF Granted
  <1>8. ASSUME NEW i \in Jobs, ShareAdded(i) PROVE Through(j)'
    <2>1. i.user \in Users
      BY JobsAssumption
    <2>2. sh \in shares \/ (sh.user = i.user /\ sh.key = nk[i].key)
      BY <1>0, <1>6, <1>8, <2>1 DEF ShareAdded
    <2>3. i \in Made /\ j \in Made
      BY <1>2, <1>8 DEF ShareAdded, Made, NoKey
    <2>4. nk[i].key = nk[j].key => i = j
      BY <2>3 DEF KeysInv
    <2> QED BY <1>1, <1>2, <1>8, <2>2, <2>4 DEF ShareAdded
  <1>9. ASSUME NEW i \in Jobs, GrantRevoked(i) PROVE Through(j)'
    BY <1>3, <1>9 DEF GrantRevoked
  <1> HIDE DEF Through
  <1> QED
    BY KeySteps, <1>3, <1>4, <1>5, <1>7, <1>8, <1>9 DEF NothingMoves, RowAdded

(***************************************************************************)
(* The chain of rotations.                                                 *)
(***************************************************************************)

LEMMA ChainInit == Init => ChainInv
  <1> SUFFICES ASSUME Init PROVE Chain
    BY DEF ChainInv
  <1>1. PICK u \in FirstGrants : u \in grants
    BY JobsAssumption DEF Init
  <1> DEFINE first == [user |-> u, version |-> 1, key |-> 1]
  <1>2. first \in shares /\ first.user = u /\ first.version = 1
    BY DEF Init
  <1>3. \A sh \in shares : sh.version = 1
    BY DEF Init
  <1>4. ASSUME NEW p \in Paths, NEW n \in 1 .. Latest(p) PROVE log[p][n].version = 1
    <2>1. log[p] = <<FirstRow>> \/ log[p] = << >>
      BY DEF Init
    <2>2. log[p][n] = FirstRow
      BY <2>1 DEF Latest
    <2> QED BY <2>2 DEF FirstRow
  <1>5. Newest(first) /\ Reached(1)
    BY <1>2, <1>3 DEF Newest, Reached
  <1>6. \A j \in Jobs : vk[j] = NoKey /\ j \notin Made
    BY DEF Init, Made
  <1>7. \A j \in Jobs : pc[j] \notin Preparing \cup {"pushFiles"}
    BY DEF Init, Preparing
  <1> HIDE DEF first
  <1> QED BY <1>1, <1>2, <1>3, <1>4, <1>5, <1>6, <1>7 DEF Chain, Made

(* A step that leaves the keys and the grants alone. *)
LEMMA ChainKept ==
  ASSUME Chain, StagesKept, UNCHANGED <<grants, shares, nk>>,
         \A j \in Jobs : vk'[j] = vk[j] \/ Reached(vk'[j].version),
         \A p \in Paths : \A n \in 1 .. Latest(p)' : Reached(log'[p][n].version)
  PROVE  Chain'
  <1>1. Made' = Made /\ \A n : (VersionMade(n) <=> VersionMade(n)') /\ (Reached(n) <=> Reached(n)')
    BY DEF Made, VersionMade, Reached
  <1>2. \A j \in Jobs : vk'[j] # NoKey => Reached(vk'[j].version)
    BY DEF Chain
  <1>3. (\E sh \in shares : Newest(sh) /\ sh.user \in grants)'
    BY DEF Chain, Newest
  <1>4. \A j \in Jobs : pc'[j] = "pushFiles" => Reached(nk'[j].version)
    BY DEF Chain, StagesKept
  <1>5. \A j \in Jobs : pc'[j] \in Preparing =>
          /\ j.user \in grants'
          /\ (\E sh \in SharesOf(j.user) : Newest(sh) /\ nk[j].version = sh.version + 1)'
    BY DEF Chain, StagesKept, SharesOf, Newest
  <1>6. \A i, j \in Jobs : pc'[i] \in Preparing /\ pc'[j] \in Preparing => i = j
    BY DEF Chain, StagesKept
  <1>7. \A sh \in shares' : \A n \in 2 .. sh.version : VersionMade(n)'
    BY <1>1 DEF Chain
  <1>8. \A j \in Made' : \A n \in 2 .. nk'[j].version : VersionMade(n)'
    BY <1>1 DEF Chain
  <1>9. \A j \in Jobs : vk'[j] # NoKey => Reached(vk[j].version)'
    BY <1>1, <1>2
  <1>10. \A j \in Jobs : pc'[j] = "pushFiles" => Reached(nk[j].version)'
    BY <1>1, <1>4
  <1>11. \A p \in Paths : \A n \in 1 .. Latest(p)' : Reached(log[p][n].version)'
    BY <1>1
  <1> QED BY <1>3, <1>5, <1>6, <1>7, <1>8, <1>9, <1>10, <1>11 DEF Chain

(* A new key: the versions are distinct only if it follows the newest. *)
LEMMA ChainKeyMade ==
  ASSUME TypeInv, KeysInv, Chain, OneChain', NEW j \in Jobs, NEW v \in Nat, KeyMade(j, v)
  PROVE  Chain'
  <1>0. /\ nk \in [Jobs -> Key] /\ shares \in SUBSET Share
        /\ \A i \in Jobs : pc[i] \in Preparing => i \in Made
    <2>1. \A i \in Jobs : pc[i] \in Preparing => nk[i].key # 0
      BY DEF TypeInv, CommandInv, Rotating, Preparing
    <2>2. \A i \in Jobs : pc[i] \in Preparing => nk[i] # NoKey
      BY <2>1 DEF NoKey
    <2> QED BY <2>2 DEF TypeInv, TypeOK, Made
  <1> DEFINE new == [key |-> lastKey + 1, version |-> v + 1]
  <1>1. new.version = v + 1 /\ new # NoKey
    BY DEF NoKey
  <1>2. j \notin Made /\ nk' = [nk EXCEPT ![j] = new]
    BY DEF KeyMade, Made
  <1> HIDE DEF new
  <1>3. Made' = Made \cup {j} /\ nk'[j] = new /\ \A i \in Jobs \ {j} : nk'[i] = nk[i]
    BY <1>0, <1>1, <1>2 DEF Made
  <1>4. v # 0 /\ ~VersionMade(v + 1)
    <2>1. nk'[j] # NoKey /\ nk'[j].version = v + 1
      BY <1>1, <1>3
    <2>2. v + 1 # 1
      BY <2>1 DEF OneChain, VersionsDistinct
    <2>3. \A i \in Made : i # j /\ nk'[i] = nk[i]
      BY <1>2, <1>3 DEF Made
    <2>4. \A i \in Made : nk[i].version # v + 1
      BY <2>1, <2>3 DEF OneChain, VersionsDistinct, Made
    <2> QED BY <2>2, <2>4 DEF VersionMade
  <1>5. PICK sh \in shares : CanFetch(j) /\ Highest(j.user, sh) /\ v = sh.version
    BY <1>4 DEF KeyMade
  <1>6. Newest(sh)
    <2> SUFFICES ASSUME NEW x \in shares, ~(x.version <= sh.version) PROVE FALSE
      BY DEF Newest
    <2>1. x.version \in Nat
      BY <1>0 DEF Share
    <2>2. v + 1 \in 2 .. x.version
      BY <1>4, <1>5, <2>1
    <2> QED BY <1>4, <2>2 DEF Chain
  <1>7. \A i \in Jobs : pc[i] \notin Preparing
    <2> SUFFICES ASSUME NEW i \in Jobs, pc[i] \in Preparing PROVE FALSE
      OBVIOUS
    <2>1. PICK x \in shares : Newest(x) /\ nk[i].version = x.version + 1
      BY DEF Chain, SharesOf
    <2>2. x.version = sh.version
      <3>1. x.version \in Nat /\ sh.version \in Nat
        BY <1>0 DEF Share
      <3> QED BY <1>6, <2>1, <3>1 DEF Newest
    <2> QED BY <1>0, <1>4, <1>5, <2>1, <2>2 DEF VersionMade
  <1>8. UNCHANGED <<grants, shares, log, vk>> /\ \A i \in Jobs \ {j} : pc'[i] = pc[i]
    BY DEF KeyMade
  <1>9. \A n : VersionMade(n) => VersionMade(n)'
    <2>1. \A i \in Made : i \in Made' /\ nk'[i] = nk[i]
      BY <1>2, <1>3 DEF Made
    <2> QED BY <2>1 DEF VersionMade
  <1>10. \A n : Reached(n) <=> Reached(n)'
    BY <1>8 DEF Reached
  <1>11. (\E s \in shares : Newest(s) /\ s.user \in grants)'
    BY <1>8 DEF Chain, Newest
  <1>12. \A i \in Jobs : pc'[i] = "pushFiles" => Reached(nk[i].version)'
    BY <1>3, <1>8, <1>10 DEF Chain, KeyMade
  <1>13. \A i \in Made' : \A n \in 2 .. nk'[i].version : VersionMade(n)'
    <2>1. ASSUME NEW n \in 2 .. nk'[j].version PROVE VersionMade(n)'
      <3>1. CASE n = v + 1
        BY <1>1, <1>3, <3>1 DEF VersionMade
      <3>2. CASE n # v + 1
        <4>1. n \in 2 .. sh.version
          BY <1>1, <1>3, <1>5, <3>2
        <4> QED BY <4>1, <1>9 DEF Chain
      <3> QED BY <3>1, <3>2
    <2>2. ASSUME NEW i \in Made, NEW n \in 2 .. nk'[i].version PROVE VersionMade(n)'
      <3>1. nk'[i] = nk[i]
        BY <1>2, <1>3 DEF Made
      <3> QED BY <1>9, <3>1 DEF Chain
    <2> QED BY <1>3, <2>1, <2>2
  <1>14. /\ j.user \in grants'
         /\ (\E s \in SharesOf(j.user) : Newest(s) /\ nk[j].version = s.version + 1)'
    <2>1. j.user \in grants /\ sh.user = j.user
      BY <1>5 DEF CanFetch, HasGrant, Highest, SharesOf
    <2>2. sh \in shares' /\ Newest(sh)' /\ nk'[j].version = sh.version + 1
      BY <1>1, <1>3, <1>5, <1>6, <1>8 DEF Newest
    <2> QED BY <1>8, <2>1, <2>2 DEF SharesOf
  <1>15. \A i \in Jobs : pc'[i] \in Preparing => i = j
    BY <1>7, <1>8
  <1>16. \A i \in Jobs : vk'[i] # NoKey => Reached(vk[i].version)'
    BY <1>8, <1>10 DEF Chain
  <1>17. \A p \in Paths : \A n \in 1 .. Latest(p)' : Reached(log[p][n].version)'
    BY <1>8, <1>10 DEF Chain, Latest
  <1>18. \A s \in shares' : \A n \in 2 .. s.version : VersionMade(n)'
    BY <1>8, <1>9 DEF Chain
  <1> QED
    BY <1>11, <1>12, <1>13, <1>14, <1>15, <1>16, <1>17, <1>18 DEF Chain

(* A grant hands out a key that somebody holds, so none newer than the newest. *)
LEMMA ChainGranted ==
  ASSUME TypeInv, Chain, NEW j \in Jobs, Granted(j)
  PROVE  Chain'
  <1>0. /\ shares \in SUBSET Share /\ vk[j] \in Key /\ vk[j] # NoKey
        /\ j.target \in Users
    <2>1. j.target \in Users
      BY JobsAssumption
    <2>2. vk[j] # NoKey
      BY DEF Granted, NoKey
    <2> QED BY <2>1, <2>2 DEF TypeInv, TypeOK
  <1>1. /\ shares \subseteq shares' /\ shares' \in SUBSET Share
        /\ \A sh \in shares' : sh \in shares \/ sh.version = vk[j].version
    <2>1. vk[j].key \in Nat \ {0} /\ vk[j].version \in Nat \ {0}
      BY <1>0 DEF Granted, Key
    <2> QED BY <1>0, <2>1, AddShareEffect DEF Granted
  <1>2. PICK top \in shares : vk[j].version <= top.version
    BY <1>0 DEF Chain, Reached
  <1>3. /\ UNCHANGED <<log, lastKey, vk, nk>> /\ StagesKept
        /\ grants \subseteq grants'
    BY DEF Granted
  <1>4. \A n : (VersionMade(n) <=> VersionMade(n)') /\ (Reached(n) => Reached(n)')
    BY <1>1, <1>3 DEF VersionMade, Reached, Made
  <1>5. ASSUME NEW sh \in shares, Newest(sh) PROVE Newest(sh)'
    <2>1. \A x \in shares' : x.version \in Nat
      BY <1>1 DEF Share
    <2>2. vk[j].version \in Nat /\ vk[j].version <= sh.version
      BY <1>0, <1>1, <1>2, <1>5, <2>1 DEF Newest, Key
    <2> QED BY <1>1, <1>5, <2>2 DEF Newest
  <1>6. \A sh \in shares' : \A n \in 2 .. sh.version : VersionMade(n)'
    <2> SUFFICES ASSUME NEW sh \in shares', NEW n \in 2 .. sh.version PROVE VersionMade(n)
      BY <1>4
    <2>1. CASE sh \in shares
      BY <2>1 DEF Chain
    <2>2. CASE sh.version = vk[j].version
      <3>1. top.version \in Nat /\ vk[j].version \in Nat
        BY <1>0 DEF Share, Key
      <3>2. n \in 2 .. top.version
        BY <1>2, <2>2, <3>1
      <3> QED BY <3>2 DEF Chain
    <2> QED BY <1>1, <2>1, <2>2
  <1>7. (\E sh \in shares : Newest(sh) /\ sh.user \in grants)'
    BY <1>1, <1>3, <1>5 DEF Chain
  <1>8. \A i \in Jobs : pc'[i] \in Preparing =>
          /\ i.user \in grants'
          /\ (\E sh \in SharesOf(i.user) : Newest(sh) /\ nk[i].version = sh.version + 1)'
    <2> SUFFICES ASSUME NEW i \in Jobs, pc'[i] \in Preparing
                 PROVE  /\ i.user \in grants'
                        /\ \E sh \in shares' : /\ sh.user = i.user /\ Newest(sh)'
                                               /\ nk'[i].version = sh.version + 1
      BY DEF SharesOf
    <2>1. i.user \in grants /\ \E sh \in shares : /\ sh.user = i.user /\ Newest(sh)
                                                  /\ nk[i].version = sh.version + 1
      BY <1>3 DEF Chain, StagesKept, SharesOf
    <2> QED BY <1>1, <1>3, <1>5, <2>1
  <1>9. \A i, k \in Jobs : pc'[i] \in Preparing /\ pc'[k] \in Preparing => i = k
    BY <1>3 DEF Chain, StagesKept
  <1>10. \A i \in Made' : \A n \in 2 .. nk'[i].version : VersionMade(n)'
    BY <1>3, <1>4 DEF Chain, Made
  <1>11. \A i \in Jobs : vk'[i] # NoKey => Reached(vk[i].version)'
    BY <1>3, <1>4 DEF Chain
  <1>12. \A i \in Jobs : pc'[i] = "pushFiles" => Reached(nk[i].version)'
    BY <1>3, <1>4 DEF Chain, StagesKept
  <1>13. \A p \in Paths : \A n \in 1 .. Latest(p)' : Reached(log[p][n].version)'
    BY <1>3, <1>4 DEF Chain, Latest
  <1> QED BY <1>6, <1>7, <1>8, <1>9, <1>10, <1>11, <1>12, <1>13 DEF Chain

(* A revocation leaves the newest key with the user who revokes. *)
LEMMA ChainRevoked ==
  ASSUME TypeInv, Chain, NEW j \in Jobs, ~RevokesItself(j), GrantRevoked(j)
  PROVE  Chain'
  <1>0. /\ shares \in SUBSET Share /\ pc[j] \in Preparing
        /\ j.target # j.user
    <2>1. j.op = "revoke" /\ nk[j].key # 0
      BY DEF TypeInv, CommandInv, Rotating, GrantRevoked
    <2>2. nk[j] # NoKey
      BY <2>1 DEF NoKey
    <2> QED BY <2>1, <2>2 DEF TypeInv, TypeOK, RevokesItself, Preparing, GrantRevoked
  <1>1. j.user \in grants
    BY <1>0 DEF Chain
  <1>2. PICK top \in shares :
          top.user = j.user /\ Newest(top) /\ nk[j].version = top.version + 1
    BY <1>0 DEF Chain, SharesOf
  <1>3. /\ UNCHANGED <<log, lastKey, vk, nk>> /\ StagesKept
        /\ shares' \subseteq shares /\ top \in shares'
        /\ j.user \in grants'
    BY <1>0, <1>1, <1>2 DEF GrantRevoked
  <1>4. Newest(top)'
    BY <1>2, <1>3 DEF Newest
  <1>5. ASSUME NEW n \in Nat, Reached(n) PROVE Reached(n)'
    <2>1. \A x \in shares : x.version \in Nat /\ x.version <= top.version
      BY <1>0, <1>2 DEF Share, Newest
    <2>2. n <= top.version
      BY <1>5, <2>1 DEF Reached
    <2> QED BY <1>3, <2>2 DEF Reached
  <1>6. \A n : VersionMade(n) <=> VersionMade(n)'
    BY <1>3 DEF VersionMade, Made
  <1>7. (\E sh \in shares : Newest(sh) /\ sh.user \in grants)'
    BY <1>2, <1>3, <1>4
  <1>8. \A i \in Jobs : pc'[i] \in Preparing =>
          /\ i.user \in grants'
          /\ (\E sh \in SharesOf(i.user) : Newest(sh) /\ nk[i].version = sh.version + 1)'
    <2> SUFFICES ASSUME NEW i \in Jobs, pc'[i] \in Preparing
                 PROVE  /\ i.user \in grants'
                        /\ \E sh \in shares' : /\ sh.user = i.user /\ Newest(sh)'
                                               /\ nk'[i].version = sh.version + 1
      BY DEF SharesOf
    <2>1. i = j
      BY <1>0, <1>3 DEF Chain, StagesKept
    <2> QED BY <1>2, <1>3, <1>4, <2>1
  <1>9. \A i, k \in Jobs : pc'[i] \in Preparing /\ pc'[k] \in Preparing => i = k
    BY <1>3 DEF Chain, StagesKept
  <1>10. \A i \in Made' : \A n \in 2 .. nk'[i].version : VersionMade(n)'
    BY <1>3, <1>6 DEF Chain, Made
  <1>a. /\ \A i \in Jobs : vk[i].version \in Nat /\ nk[i].version \in Nat
        /\ \A p \in Paths : \A n \in 1 .. Latest(p) : log[p][n].version \in Nat
    <2>1. \A p \in Paths : \A n \in 1 .. Latest(p) : log[p][n] \in Row
      BY LogRows DEF TypeInv, TypeOK
    <2> QED BY <2>1 DEF TypeInv, TypeOK, Key, Row
  <1>11. \A i \in Jobs : vk'[i] # NoKey => Reached(vk[i].version)'
    BY <1>3, <1>5, <1>a DEF Chain
  <1>12. \A i \in Jobs : pc'[i] = "pushFiles" => Reached(nk[i].version)'
    BY <1>3, <1>5, <1>a DEF Chain, StagesKept
  <1>13. \A p \in Paths : \A n \in 1 .. Latest(p)' : Reached(log[p][n].version)'
    BY <1>3, <1>5, <1>a DEF Chain, Latest
  <1>14. \A sh \in shares' : \A n \in 2 .. sh.version : VersionMade(n)'
    BY <1>3, <1>6 DEF Chain
  <1> QED BY <1>7, <1>8, <1>9, <1>10, <1>11, <1>12, <1>13, <1>14 DEF Chain

(* The rotation hands out its key: it is the newest now. *)
LEMMA ChainShareAdded ==
  ASSUME TypeInv, Chain, NEW j \in Jobs, ShareAdded(j)
  PROVE  Chain'
  <1>0. /\ shares \in SUBSET Share /\ nk[j] \in Key /\ pc[j] \in Preparing /\ j \in Made
        /\ j.user \in Users
    <2>1. nk[j] # NoKey
      BY DEF ShareAdded, NoKey
    <2>2. j.user \in Users
      BY JobsAssumption
    <2> QED BY <2>1, <2>2 DEF TypeInv, TypeOK, Made, ShareAdded, Preparing
  <1>1. j.user \in grants
    BY <1>0 DEF Chain
  <1>2. PICK top \in shares :
          top.user = j.user /\ Newest(top) /\ nk[j].version = top.version + 1
    BY <1>0 DEF Chain, SharesOf
  <1>3. /\ shares \subseteq shares' /\ shares' \in SUBSET Share
        /\ \A sh \in shares' : sh \in shares \/ sh.version = nk[j].version
        /\ \E sh \in shares' : sh.user = j.user /\ sh.version = nk[j].version
    <2>1. nk[j].key \in Nat \ {0} /\ nk[j].version \in Nat \ {0}
      BY <1>0 DEF ShareAdded, Key
    <2> QED BY <1>0, <2>1, AddShareEffect DEF ShareAdded
  <1>4. PICK new \in shares' : new.user = j.user /\ new.version = nk[j].version
    BY <1>3
  <1>5. /\ UNCHANGED <<grants, log, lastKey, vk, nk>>
        /\ (\A i \in Jobs \ {j} : pc'[i] = pc[i]) /\ pc'[j] = "pushFiles"
    BY DEF ShareAdded
  <1>6. Newest(new)'
    <2>1. \A x \in shares' : x.version \in Nat
      BY <1>3 DEF Share
    <2>2. \A x \in shares : x.version <= top.version
      BY <1>2 DEF Newest
    <2>3. \A x \in shares' : x.version <= new.version
      BY <1>2, <1>3, <1>4, <2>1, <2>2
    <2> QED BY <2>3 DEF Newest
  <1>7. \A n : (VersionMade(n) <=> VersionMade(n)') /\ (Reached(n) => Reached(n)')
    BY <1>3, <1>5 DEF VersionMade, Reached, Made
  <1>8. \A i \in Jobs : pc'[i] \notin Preparing
    <2>1. \A i \in Jobs : pc[i] \in Preparing => i = j
      BY <1>0 DEF Chain
    <2> QED BY <1>5, <2>1 DEF Preparing
  <1>9. (\E sh \in shares : Newest(sh) /\ sh.user \in grants)'
    BY <1>1, <1>4, <1>5, <1>6
  <1>10. \A i \in Jobs : vk'[i] # NoKey => Reached(vk[i].version)'
    BY <1>5, <1>7 DEF Chain
  <1>11. \A i \in Jobs : pc'[i] = "pushFiles" => Reached(nk[i].version)'
    <2>1. Reached(nk[j].version)'
      <3>1. nk'[j].version \in Nat /\ nk'[j].version <= new.version
        BY <1>0, <1>4, <1>5 DEF Key
      <3> QED BY <3>1 DEF Reached
    <2>2. \A i \in Jobs \ {j} : pc[i] = "pushFiles" => Reached(nk[i].version)
      BY DEF Chain
    <2> QED BY <1>5, <1>7, <2>1, <2>2
  <1>12. \A p \in Paths : \A n \in 1 .. Latest(p)' : Reached(log[p][n].version)'
    BY <1>5, <1>7 DEF Chain, Latest
  <1>13. \A sh \in shares' : \A n \in 2 .. sh.version : VersionMade(n)'
    <2> SUFFICES ASSUME NEW sh \in shares', NEW n \in 2 .. sh.version PROVE VersionMade(n)
      BY <1>7
    <2>1. CASE sh \in shares
      BY <2>1 DEF Chain
    <2>2. CASE sh.version = nk[j].version
      BY <1>0, <2>2 DEF Chain
    <2> QED BY <1>3, <2>1, <2>2
  <1>14. \A i \in Made' : \A n \in 2 .. nk'[i].version : VersionMade(n)'
    BY <1>5, <1>7 DEF Chain, Made
  <1> QED BY <1>8, <1>9, <1>10, <1>11, <1>12, <1>13, <1>14 DEF Chain

LEMMA ChainStep ==
  ASSUME TypeInv, KeysInv, ChainInv, [Next]_vars
  PROVE  ChainInv'
  <1> SUFFICES ASSUME OneChain' PROVE Chain'
    BY DEF ChainInv
  <1>0. nk \in [Jobs -> Key] /\ log \in [Paths -> Seq(Row)]
    BY DEF TypeInv, TypeOK
  <1>1. \A i \in Made : nk'[i] = nk[i]
    <2>1. ASSUME NEW j \in Jobs, NEW v \in Nat, KeyMade(j, v), NEW i \in Made
          PROVE  nk'[i] = nk[i]
      <3>1. i # j
        BY <2>1 DEF KeyMade, Made
      <3> QED BY <1>0, <2>1, <3>1 DEF KeyMade, Made
    <2> QED BY KeySteps, <2>1 DEF NothingMoves, KeyFetched, RowAdded, Granted,
                                  GrantRevoked, ShareAdded
  <1>2. OneChain
    BY <1>1 DEF OneChain, VersionsDistinct, RevokesItself, Made
  <1>3. Chain
    BY <1>2 DEF ChainInv
  <1>4. CASE NothingMoves
    BY <1>3, <1>4, ChainKept DEF NothingMoves, Chain, Latest
  <1>5. ASSUME NEW j \in Jobs, NEW sh \in shares, KeyFetched(j, sh) PROVE Chain'
    <2>1. \A i \in Jobs : vk'[i] = vk[i] \/ vk'[i] = Label(sh)
      BY <1>5 DEF KeyFetched, TypeInv, TypeOK
    <2>2. Label(sh).version = sh.version /\ sh.version \in Nat
      BY DEF Label, TypeInv, TypeOK, Share
    <2>3. Reached(Label(sh).version)
      BY <2>2 DEF Reached
    <2>4. \A p \in Paths : \A n \in 1 .. Latest(p)' : Reached(log'[p][n].version)
      BY <1>3, <1>5 DEF KeyFetched, Chain, Latest
    <2> QED BY <1>3, <1>5, <2>1, <2>3, <2>4, ChainKept DEF KeyFetched
  <1>6. ASSUME NEW p \in Paths, NEW row \in Row, RowAdded(p, row) PROVE Chain'
    <2>1. Reached(row.version)
      <3>1. PICK k \in Key : Label(row) = k /\ Reached(k.version)
        BY <1>3, <1>6 DEF RowAdded, Chain, TypeInv, TypeOK
      <3> QED BY <3>1 DEF Label
    <2>2. ASSUME NEW q \in Paths, NEW n \in 1 .. Latest(q)'
          PROVE  Reached(log'[q][n].version)
      <3>1. /\ Latest(p)' = Latest(p) + 1
            /\ log'[p][Latest(p) + 1] = row
            /\ \A i \in 1 .. Latest(p) : log'[p][i] = log[p][i]
            /\ \A r \in Paths : r # p => log'[r] = log[r] /\ Latest(r)' = Latest(r)
        BY <1>0, <1>6, PushFileEffect DEF RowAdded
      <3>2. Latest(p) \in Nat
        BY <1>0, LogRows
      <3>3. log'[q][n] = row \/ (n \in 1 .. Latest(q) /\ log'[q][n] = log[q][n])
        BY <3>1, <3>2
      <3> QED BY <1>3, <2>1, <3>3 DEF Chain
    <2> QED BY <1>3, <1>6, <2>2, ChainKept DEF RowAdded
  <1>7. \A j \in Jobs : ~RevokesItself(j)
    BY <1>2 DEF OneChain
  <1> QED
    BY KeySteps, <1>3, <1>4, <1>5, <1>6, <1>7, ChainKeyMade, ChainGranted, ChainRevoked,
       ChainShareAdded

(***************************************************************************)
(* The inductive invariant.                                                *)
(***************************************************************************)

LEMMA InvInit == Init => IInv
  BY TypeInit, KeysInit, RotationInit, SharesInit, ChainInit DEF IInv

LEMMA InvStep == IInv /\ [Next]_vars => IInv'
  BY TypeStep, KeysStep, RotationStep, GrantedStep, WithheldStep, ChainStep DEF IInv

THEOREM Inductive == Spec => []IInv
  BY InvInit, InvStep, PTL DEF Spec

(* Where versions are distinct a version names its key. *)
LEMMA VersionNamesKey ==
  ASSUME VersionsDistinct, NEW k \in Known, NEW l \in Known, k.version = l.version
  PROVE  k = l
  <1>1. CASE k = FirstKey
    BY <1>1 DEF Known, Made, VersionsDistinct, FirstKey
  <1>2. CASE l = FirstKey
    BY <1>2 DEF Known, Made, VersionsDistinct, FirstKey
  <1>3. CASE k # FirstKey /\ l # FirstKey
    <2>1. PICK i \in Made : k = nk[i]
      BY <1>3 DEF Known
    <2>2. PICK j \in Made : l = nk[j]
      BY <1>3 DEF Known
    <2> QED BY <2>1, <2>2 DEF Made, VersionsDistinct
  <1> QED BY <1>1, <1>2, <1>3

(* Every variable keeps its type: store, shares and the locals of each command. *)
THEOREM TypeCorrect == Spec => []TypeOK
  <1>1. IInv => TypeOK
    BY DEF IInv, TypeInv
  <1> QED BY <1>1, Inductive, PTL

(* A key has one version number on every share and every file version. *)
THEOREM LabelsAlwaysAgree == Spec => []LabelsAgree
  <1>1. IInv => LabelsAgree
    <2> SUFFICES ASSUME IInv PROVE LabelsAgree
      OBVIOUS
    <2> USE DEF IInv
    <2> DEFINE labelled == shares \cup UNION {RowsOf(p) : p \in Paths}
    <2>1. \A x \in labelled : Label(x) \in Known
      BY DEF KeysInv, RowsOf
    <2>2. ASSUME NEW k \in Known, NEW l \in Known, k.key = l.key PROVE k = l
      <3>1. \A i \in Made : nk[i].key # 1
        BY DEF KeysInv
      <3>2. CASE k = FirstKey
        BY <2>2, <3>1, <3>2 DEF Known, FirstKey
      <3>3. CASE l = FirstKey
        BY <2>2, <3>1, <3>3 DEF Known, FirstKey
      <3>4. CASE k # FirstKey /\ l # FirstKey
        BY <2>2, <3>4 DEF Known, KeysInv
      <3> QED BY <3>2, <3>3, <3>4
    <2>3. ASSUME NEW x \in labelled, NEW y \in labelled, x.key = y.key
          PROVE  x.version = y.version
      <3>1. Label(x) = Label(y)
        <4>1. Label(x).key = Label(y).key
          BY <2>3 DEF Label
        <4> HIDE DEF labelled
        <4> QED BY <2>1, <2>2, <4>1
      <3> QED BY <3>1 DEF Label
    <2> QED BY <2>3 DEF LabelsAgree
  <1> QED BY <1>1, Inductive, PTL

(* A rotation carries the content of the version before it, whatever it races with. *)
THEOREM RotationNeverEdits == Spec => []RotationKeepsContent
  <1>1. IInv => RotationKeepsContent
    BY DEF IInv
  <1> QED BY <1>1, Inductive, PTL

(* A grant always comes with a share, and leaves with the last one. *)
THEOREM GrantsHaveShares == Spec => []GrantedHasShare
  <1>1. IInv => GrantedHasShare
    BY DEF IInv
  <1> QED BY <1>1, Inductive, PTL

(* The key of a revocation reaches the revoked user only by a later grant. *)
THEOREM RevokedKeyWithheld == Spec => []KeyWithheld
  <1>1. IInv => KeyWithheld
    BY DEF IInv
  <1> QED BY <1>1, Inductive, PTL

(* A file is lost only under a version that a rotation has overtaken. *)
THEOREM LossIsOvertaking == Spec => []LostIsOvertaken
  <1>1. IInv => LostIsOvertaken
    <2> SUFFICES ASSUME IInv, OneChain, NEW p \in Paths, Live(p)
                 PROVE  \/ Held(log[p][Latest(p)].key)
                        \/ \E sh \in shares : sh.version > log[p][Latest(p)].version
      BY DEF LostIsOvertaken, OneChain
    <2> USE DEF IInv
    <2> DEFINE row == log[p][Latest(p)]
    <2>1. Latest(p) \in 1 .. Latest(p) /\ row \in Row
      <3>1. /\ log[p] \in Seq(Row) /\ log[p] # << >> /\ Latest(p) \in Nat
            /\ \A n \in 1 .. Latest(p) : log[p][n] \in Row
        BY LogRows DEF TypeInv, TypeOK, Live
      <3>2. Latest(p) # 0
        BY <3>1, EmptySeq DEF Latest
      <3> QED BY <3>1, <3>2
    <2> HIDE DEF row
    <2>2. Chain
      BY DEF ChainInv
    <2>3. PICK top \in shares : Newest(top) /\ top.user \in grants
      BY <2>2 DEF Chain
    <2>4. row.version \in Nat /\ \A sh \in shares : sh.version \in Nat
      BY <2>1 DEF Row, TypeInv, TypeOK, Share
    <2>5. Reached(row.version)
      BY <2>1, <2>2 DEF Chain, row
    <2>6. row.version <= top.version
      BY <2>3, <2>4, <2>5 DEF Reached, Newest
    <2>7. CASE row.version = top.version
      <3>1. Label(row) \in Known /\ Label(top) \in Known
        BY <2>1 DEF KeysInv, row
      <3>2. Label(row).version = Label(top).version
        BY <2>7 DEF Label
      <3>3. Label(row) = Label(top)
        BY <3>1, <3>2, VersionNamesKey DEF OneChain
      <3>4. row.key = top.key
        BY <3>3 DEF Label
      <3> QED BY <2>3, <3>4 DEF Held, row
    <2>8. CASE row.version # top.version
      BY <2>4, <2>6, <2>8 DEF row
    <2> QED BY <2>7, <2>8
  <1> QED BY <1>1, Inductive, PTL

(* A reader fails to decrypt only a version of another number than its key's. *)
THEOREM UndecryptableOnlyOvertaken == Spec => UndecryptableIsOvertaken
  <1> DEFINE Overtaken ==
        \A j \in Jobs :
          j.op \in {"pull", "checkout"} /\ result[j] = "none"
            /\ result'[j] = "undecryptable" /\ VersionsDistinct =>
              log[j.path][Wanted(j)].version # vk[j].version
  <1>1. IInv /\ [Next]_vars => [Overtaken]_vars
    <2> SUFFICES ASSUME IInv, Next, NEW j \in Jobs,
                        VersionsDistinct, j.op \in {"pull", "checkout"},
                        result[j] = "none", result'[j] = "undecryptable",
                        log[j.path][Wanted(j)].version = vk[j].version
                 PROVE  FALSE
      OBVIOUS
    <2> USE DEF IInv, TypeInv, server, client, Goto
    <2>0. result \in [Jobs -> {"none", "ok", "no key", "refused", "conflict", "deleted",
                               "undecryptable", "stopped"}]
      BY DEF TypeOK
    <2>1. ASSUME NEW i \in Jobs, NEW what, Fails(i, what), what # "undecryptable"
          PROVE  FALSE
      BY <2>0, <2>1 DEF Fails, Finish
    <2>2. ASSUME UNCHANGED result PROVE FALSE
      BY <2>2
    <2>3. ASSUME NEW i \in Jobs, Finish(i, "ok") PROVE FALSE
      BY <2>0, <2>3 DEF Finish
    <2>4. ASSUME NEW i \in Jobs, ReEncrypt(i) PROVE FALSE
      <3>1. CASE Fails(i, "undecryptable") /\ pc[i] = "reencrypt"
        <4>1. i = j
          BY <2>0, <3>1 DEF Fails, Finish
        <4> QED BY <3>1, <4>1 DEF CommandInv, Rotating
      <3> QED BY <2>1, <2>2, <2>4, <3>1 DEF ReEncrypt
    <2>5. ASSUME NEW i \in Jobs, Obtain(i) PROVE FALSE
      <3>1. CASE /\ Fails(i, "undecryptable")
                 /\ pc[i] = "get"
                 /\ Wanted(i) \in 1 .. Latest(i.path)
                 /\ log[i.path][Wanted(i)].key # vk[i].key
        <4>1. i = j
          BY <2>0, <3>1 DEF Fails, Finish
        <4>2. j.path \in Paths
          BY JobsAssumption
        <4>3. Label(log[j.path][Wanted(j)]) \in Known
          BY <3>1, <4>1, <4>2 DEF KeysInv
        <4>4. vk[j].key # 0
          BY <3>1, <4>1 DEF CommandInv
        <4>5. vk[j] # NoKey
          BY <4>4 DEF NoKey
        <4>6. vk[j] \in Known
          BY <4>5 DEF KeysInv
        <4>7. Label(log[j.path][Wanted(j)]) = vk[j]
          <5>1. Label(log[j.path][Wanted(j)]).version = vk[j].version
            BY DEF Label
          <5> QED BY <4>3, <4>6, <5>1, VersionNamesKey
        <4> QED BY <3>1, <4>1, <4>7 DEF Label
      <3> QED BY <2>1, <2>3, <2>5, <3>1 DEF Obtain
    <2>6. ASSUME NEW i \in Jobs, Step(i) \/ Stop(i) PROVE FALSE
      <3>1. CASE Start(i) \/ FetchKey(i) \/ ReadBase(i) \/ CheckGrant(i)
        BY <2>1, <2>2, <3>1 DEF Start, FetchKey, ReadBase, CheckGrant
      <3>2. CASE StorePush(i)
        BY <2>1, <2>3, <3>2 DEF StorePush
      <3>3. CASE StoreGrant(i)
        BY <2>0, <3>3 DEF StoreGrant
      <3>4. CASE FetchVersion(i) \/ FetchVersionFails(i)
        BY <2>2, <3>4 DEF FetchVersion, FetchVersionFails, NewKey
      <3>5. CASE ListFiles(i)
        BY <2>1, <2>2, <3>5 DEF ListFiles
      <3>6. CASE PostRevoke(i) \/ RevokeGrant(i) \/ AddKeyShares(i)
        BY <2>2, <3>6 DEF PostRevoke, RevokeGrant, AddKeyShares
      <3>7. CASE RotateFile(i)
        BY <2>1, <2>2, <3>7 DEF RotateFile
      <3>8. CASE Revoked(i) \/ Stop(i)
        BY <2>1, <3>8 DEF Revoked, Stop
      <3> QED
        BY <2>4, <2>5, <2>6, <3>1, <3>2, <3>3, <3>4, <3>5, <3>6, <3>7, <3>8 DEF Step
    <2> QED BY <2>2, <2>6 DEF Next, AllDone, vars
  <1>2. Spec => [][Overtaken]_vars
    BY <1>1, Inductive, PTL DEF Spec
  <1> QED BY <1>2 DEF UndecryptableIsOvertaken
===============================================================================
