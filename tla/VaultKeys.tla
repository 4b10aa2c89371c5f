------------------------------- MODULE VaultKeys -------------------------------
(***************************************************************************)
(* Key rotation and file access in one vault: the client commands of       *)
(* client/actions (Push, Rm, Pull, Checkout, Grant, Revoke), each a chain  *)
(* of HTTP requests, over the handlers of server/http/handlers_vaults.go   *)
(* and handlers_files.go.  A request is one action, except where its       *)
(* handler runs several transactions.  Store.PushFile is the atomic        *)
(* compare-and-swap that module FileStore shows it to be.                  *)
(*                                                                         *)
(* A job is one run of one command.  A user stands for its active device.  *)
(* A vault key is a number, fresh for every NewVaultKey; decrypting        *)
(* succeeds under the key that encrypted and fails under any other.        *)
(***************************************************************************)
EXTENDS Naturals, Sequences

CONSTANTS
  Users,         \* users with one active device each
  Paths,         \* paths of files
  Jobs,          \* the commands that may run, each at most once
  Workloads,     \* bound: the sets of them that run together
  FirstGrants,   \* users granted the vault from the start, with key 1
  FirstFiles,    \* paths with a first version, under key 1
  FetchMayFail   \* the revocations whose second key fetch may fail

(* A job: an operation of a user on a path, a version of it or a user. *)
Operations == {"push", "rm", "pull", "checkout", "grant", "revoke"}

ASSUME JobsAssumption ==
  /\ Jobs \subseteq [id : Nat \ {0, 1}, op : Operations, user : Users, path : Paths,
                     version : Nat, target : Users]
  /\ \A i, j \in Jobs : i.id = j.id => i = j
  /\ FirstGrants \subseteq Users
  /\ FirstGrants # {}
  /\ FirstFiles \subseteq Paths
  /\ Workloads \subseteq SUBSET Jobs
  /\ FetchMayFail \subseteq Jobs

VARIABLES
  grants,   \* vault_grants
  shares,   \* vault_key_shares: which key each device holds as which version
  log,      \* log[p]: the versions of p
  lastKey,  \* number of vault keys made so far
  copy,     \* copy[u][p]: version of p that u's local file was last in step with
  pc, result,
  vk,       \* key and version the job fetched
  nk,       \* key and version a rotation made
  base,     \* base[j][p]: latest version of p as last listed
  todo,     \* live paths a rotation has still to re-encrypt
  sealed,   \* paths it has re-encrypted and has still to push
  out       \* out[j][p]: the content it re-encrypted

server == <<grants, shares, log>>
client == <<lastKey, copy, pc, result, vk, nk, base, todo, sealed, out>>
vars == <<server, client>>

Key == [key : Nat, version : Nat]
NoKey == [key |-> 0, version |-> 0]
Share == [user : Users, version : Nat \ {0}, key : Nat \ {0}]
Row == [key : Nat \ {0}, version : Nat \ {0}, content : Nat, deleted : BOOLEAN,
        rotated : BOOLEAN, from : Nat]

(* Contents: the empty plaintext of a tombstone, that of the first versions,
   and one per push, named by its id. *)
EmptyContent == 0
FirstContent == 1

States ==
  {"idle", "key", "base", "check", "store", "get", "version", "list",
   "reencrypt", "revokeGrant", "addShares", "pushFiles", "done"}

FirstRow == [key |-> 1, version |-> 1, content |-> FirstContent, deleted |-> FALSE,
             rotated |-> FALSE, from |-> 0]

Init ==
  /\ grants = FirstGrants
  /\ shares = {[user |-> u, version |-> 1, key |-> 1] : u \in FirstGrants}
  /\ log = [p \in Paths |-> IF p \in FirstFiles THEN <<FirstRow>> ELSE << >>]
  /\ lastKey = 1
  /\ copy = [u \in Users |-> [p \in Paths |-> 0]]
  /\ \E w \in Workloads :
       pc = [j \in Jobs |-> IF j \in w THEN "idle" ELSE "done"]
  /\ result = [j \in Jobs |-> "none"]
  /\ vk = [j \in Jobs |-> NoKey]
  /\ nk = [j \in Jobs |-> NoKey]
  /\ base = [j \in Jobs |-> [p \in Paths |-> 0]]
  /\ todo = [j \in Jobs |-> {}]
  /\ sealed = [j \in Jobs |-> {}]
  /\ out = [j \in Jobs |-> [p \in Paths |-> 0]]

-------------------------------------------------------------------------------
Latest(p) == Len(log[p])
Live(p) == log[p] # << >> /\ ~log[p][Latest(p)].deleted

Goto(j, from, to) == pc[j] = from /\ pc' = [pc EXCEPT ![j] = to]

(* The command ends; its locals no longer matter. *)
Finish(j, what) ==
  /\ pc' = [pc EXCEPT ![j] = "done"]
  /\ result' = [result EXCEPT ![j] = what]

Fails(j, what) ==
  /\ Finish(j, what)
  /\ UNCHANGED <<server, lastKey, copy, vk, nk, base, todo, sealed, out>>

BugPushFile(p, b, row) ==      \* the base version is not compared
  log' = [log EXCEPT ![p] = Append(@, row)]

(* PushFile: append row to p if base is still its latest version. *)
PushFile(p, b, row) ==
  /\ Latest(p) = b
  /\ log' = [log EXCEPT ![p] = Append(@, row)]

(* INSERT ... ON CONFLICT (vault, device, key_version) DO NOTHING *)
AddShare(old, u, k) ==
  IF \E sh \in old : sh.user = u /\ sh.version = k.version THEN old
  ELSE old \cup {[user |-> u, version |-> k.version, key |-> k.key]}

(* resolveVaultForUser *)
HasGrant(j) == j.user \in grants

SharesOf(u) == {sh \in shares : sh.user = u}

(* fetchVaultKey: the share of the highest version. *)
Highest(u, sh) == sh \in SharesOf(u) /\ \A x \in SharesOf(u) : x.version <= sh.version

CanFetch(j) == HasGrant(j) /\ SharesOf(j.user) # {}

AfterKey(j) ==
  CASE j.op \in {"push", "rm"} -> "base"
    [] j.op \in {"pull", "checkout"} -> "get"
    [] j.op = "grant" -> "check"
    [] j.op = "revoke" -> "version"

Start(j) ==
  /\ Goto(j, "idle", "key")
  /\ UNCHANGED <<server, lastKey, copy, result, vk, nk, base, todo, sealed, out>>

(* GET /vaults/keyshares *)
FetchKey(j) ==
  \/ /\ CanFetch(j)
     /\ Goto(j, "key", AfterKey(j))
     /\ \E sh \in shares :
          /\ Highest(j.user, sh)
          /\ vk' = [vk EXCEPT ![j] = [key |-> sh.key, version |-> sh.version]]
     /\ UNCHANGED <<server, lastKey, copy, result, nk, base, todo, sealed, out>>
  \/ /\ pc[j] = "key"
     /\ ~CanFetch(j)
     /\ Fails(j, "no key")

-------------------------------------------------------------------------------
(* Push and Rm *)

(* currentVersion: GET /files, after the key fetch and the encryption. *)
ReadBase(j) ==
  \/ /\ Goto(j, "base", "check")
     /\ HasGrant(j)
     /\ j.op = "rm" => Latest(j.path) # 0
     /\ base' = [base EXCEPT ![j][j.path] = Latest(j.path)]
     /\ UNCHANGED <<server, lastKey, copy, result, vk, nk, todo, sealed, out>>
  \/ /\ pc[j] = "base"
     /\ ~HasGrant(j) \/ (j.op = "rm" /\ Latest(j.path) = 0)
     /\ Fails(j, "refused")

(* The grant check of handlePush, and of handleGrant, before its transaction. *)
CheckGrant(j) ==
  \/ /\ Goto(j, "check", "store")
     /\ HasGrant(j)
     /\ UNCHANGED <<server, lastKey, copy, result, vk, nk, base, todo, sealed, out>>
  \/ /\ pc[j] = "check"
     /\ ~HasGrant(j)
     /\ Fails(j, "refused")

PushedRow(j) ==
  [key |-> vk[j].key, version |-> vk[j].version,
   content |-> IF j.op = "rm" THEN EmptyContent ELSE j.id,
   deleted |-> j.op = "rm", rotated |-> FALSE, from |-> copy[j.user][j.path]]

(* The PushFile of handlePush; the local file is then in step with it. *)
StorePush(j) ==
  /\ pc[j] = "store"
  /\ j.op \in {"push", "rm"}
  /\ \/ /\ PushFile(j.path, base[j][j.path], PushedRow(j))
        /\ Finish(j, "ok")
        /\ copy' = IF j.op = "rm" THEN copy
                   ELSE [copy EXCEPT ![j.user][j.path] = base[j][j.path] + 1]
        /\ UNCHANGED <<grants, shares, lastKey, vk, nk, base, todo, sealed, out>>
     \/ /\ Latest(j.path) # base[j][j.path]
        /\ Fails(j, "conflict")

-------------------------------------------------------------------------------
(* Pull and Checkout: GET /files/pull, then decrypt with the fetched key. *)

Wanted(j) == IF j.op = "checkout" /\ j.version # 0 THEN j.version ELSE Latest(j.path)

Obtain(j) ==
  LET n == Wanted(j)
      found == HasGrant(j) /\ n \in 1 .. Latest(j.path)
      row == log[j.path][n]
  IN
  /\ pc[j] = "get"
  /\ \/ /\ ~found
        /\ Fails(j, "refused")
     \/ /\ found /\ row.deleted /\ j.op = "pull"
        /\ Fails(j, "deleted")
     \/ /\ found /\ ~(row.deleted /\ j.op = "pull")
        /\ row.key # vk[j].key
        /\ Fails(j, "undecryptable")
     \/ /\ found /\ ~(row.deleted /\ j.op = "pull")
        /\ row.key = vk[j].key
        /\ Finish(j, "ok")
        /\ copy' = [copy EXCEPT ![j.user][j.path] = n]
        /\ UNCHANGED <<server, lastKey, vk, nk, base, todo, sealed, out>>

-------------------------------------------------------------------------------
(* Store.Grant: the grant and the grantee's share in one transaction. *)
StoreGrant(j) ==
  /\ j.op = "grant"
  /\ Goto(j, "store", "done")
  /\ grants' = grants \cup {j.target}
  /\ shares' = AddShare(shares, j.target, vk[j])
  /\ result' = [result EXCEPT ![j] = "ok"]
  /\ UNCHANGED <<log, lastKey, copy, vk, nk, base, todo, sealed, out>>

-------------------------------------------------------------------------------
(* Revoke, the client's side: key, version, list, one pull per live file. *)

NewKey(j, v) ==
  /\ Goto(j, "version", "list")
  /\ lastKey' = lastKey + 1
  /\ nk' = [nk EXCEPT ![j] = [key |-> lastKey + 1, version |-> v + 1]]
  /\ UNCHANGED <<server, copy, result, vk, base, todo, sealed, out>>

(* The version of the new key comes from a second fetch. *)
FetchVersion(j) ==
  \E sh \in shares : CanFetch(j) /\ Highest(j.user, sh) /\ NewKey(j, sh.version)

(* Its error is ignored, and the version is then 0. *)
FetchVersionFails(j) ==
  /\ j \in FetchMayFail \/ ~CanFetch(j)
  /\ NewKey(j, 0)

ListFiles(j) ==
  \/ /\ Goto(j, "list", "reencrypt")
     /\ HasGrant(j)
     /\ base' = [base EXCEPT ![j] = [p \in Paths |-> Latest(p)]]
     /\ todo' = [todo EXCEPT ![j] = {p \in Paths : Live(p)}]
     /\ UNCHANGED <<server, lastKey, copy, result, vk, nk, sealed, out>>
  \/ /\ pc[j] = "list"
     /\ ~HasGrant(j)
     /\ Fails(j, "refused")

(* Pull the latest version, decrypt with the old key, encrypt with the new. *)
ReEncrypt(j) ==
  \E p \in todo[j] :
    LET row == log[p][Latest(p)] IN
    /\ pc[j] = "reencrypt"
    /\ \/ /\ HasGrant(j) /\ row.key = vk[j].key
          /\ out' = [out EXCEPT ![j][p] = row.content]
          /\ todo' = [todo EXCEPT ![j] = @ \ {p}]
          /\ sealed' = [sealed EXCEPT ![j] = @ \cup {p}]
          /\ UNCHANGED <<server, lastKey, copy, pc, result, vk, nk, base>>
       \/ ~HasGrant(j) /\ Fails(j, "refused")
       \/ HasGrant(j) /\ row.key # vk[j].key /\ Fails(j, "undecryptable")

(* POST /teams/vaults/revoke: handleRevoke, one transaction after another. *)
PostRevoke(j) ==
  /\ todo[j] = {}
  /\ Goto(j, "reencrypt", "revokeGrant")
  /\ UNCHANGED <<server, lastKey, copy, result, vk, nk, base, todo, sealed, out>>

BugRevokeGrant(j) ==           \* only the shares are deleted
  /\ Goto(j, "revokeGrant", "addShares")
  /\ shares' = {sh \in shares : sh.user # j.target}
  /\ UNCHANGED <<grants, log, lastKey, copy, result, vk, nk, base, todo, sealed, out>>

RevokeGrant(j) ==
  /\ Goto(j, "revokeGrant", "addShares")
  /\ grants' = grants \ {j.target}
  /\ shares' = {sh \in shares : sh.user # j.target}
  /\ UNCHANGED <<log, lastKey, copy, result, vk, nk, base, todo, sealed, out>>

BugAddAllShares(j) ==          \* sealed to everybody who ever had a share
  /\ Goto(j, "addShares", "pushFiles")
  /\ shares' = shares \cup {[user |-> u, version |-> nk[j].version, key |-> nk[j].key] :
                            u \in FirstGrants}
  /\ UNCHANGED <<grants, log, lastKey, copy, result, vk, nk, base, todo, sealed, out>>

BugAddNoShares(j) ==           \* the rotation forgets the caller's own device
  /\ Goto(j, "addShares", "pushFiles")
  /\ UNCHANGED <<server, lastKey, copy, result, vk, nk, base, todo, sealed, out>>

(* The new key, sealed to the caller's device only. *)
AddKeyShares(j) ==
  /\ Goto(j, "addShares", "pushFiles")
  /\ shares' = AddShare(shares, j.user, nk[j])
  /\ UNCHANGED <<grants, log, lastKey, copy, result, vk, nk, base, todo, sealed, out>>

BugRotatedRow(j, p) ==         \* labelled with the version of the old key
  [key |-> nk[j].key, version |-> vk[j].version, content |-> out[j][p],
   deleted |-> FALSE, rotated |-> TRUE, from |-> base[j][p]]

RotatedRow(j, p) ==
  [key |-> nk[j].key, version |-> nk[j].version, content |-> out[j][p],
   deleted |-> FALSE, rotated |-> TRUE, from |-> base[j][p]]

(* One PushFile per file; the first conflict ends the request. *)
RotateFile(j) ==
  \E p \in sealed[j] :
    /\ pc[j] = "pushFiles"
    /\ \/ /\ PushFile(p, base[j][p], RotatedRow(j, p))
          /\ sealed' = [sealed EXCEPT ![j] = @ \ {p}]
          /\ UNCHANGED <<grants, shares, lastKey, copy, pc, result, vk, nk, base,
                         todo, out>>
       \/ /\ Latest(p) # base[j][p]
          /\ Fails(j, "conflict")

Revoked(j) ==
  /\ pc[j] = "pushFiles"
  /\ sealed[j] = {}
  /\ Fails(j, "ok")

-------------------------------------------------------------------------------
(* The command, its connection or the server dies: whatever transactions
   committed stay, the rest of the command does not happen. *)
Stop(j) ==
  /\ pc[j] \notin {"idle", "done"}
  /\ Fails(j, "stopped")

Step(j) ==
  \/ Start(j) \/ FetchKey(j) \/ ReadBase(j) \/ CheckGrant(j) \/ StorePush(j)
  \/ Obtain(j) \/ StoreGrant(j)
  \/ FetchVersion(j) \/ FetchVersionFails(j) \/ ListFiles(j) \/ ReEncrypt(j)
  \/ PostRevoke(j) \/ RevokeGrant(j) \/ AddKeyShares(j) \/ RotateFile(j)
  \/ Revoked(j)

AllDone == (\A j \in Jobs : pc[j] = "done") /\ UNCHANGED vars

Next == (\E j \in Jobs : Step(j) \/ Stop(j)) \/ AllDone

Spec == Init /\ [][Next]_vars

-------------------------------------------------------------------------------
(* Properties *)

TypeOK ==
  /\ grants \subseteq Users
  /\ shares \subseteq Share
  /\ log \in [Paths -> Seq(Row)]
  /\ lastKey \in Nat \ {0}
  /\ copy \in [Users -> [Paths -> Nat]]
  /\ pc \in [Jobs -> States]
  /\ result \in [Jobs -> {"none", "ok", "no key", "refused", "conflict", "deleted",
                          "undecryptable", "stopped"}]
  /\ vk \in [Jobs -> Key]
  /\ nk \in [Jobs -> Key]
  /\ base \in [Jobs -> [Paths -> Nat]]
  /\ todo \in [Jobs -> SUBSET Paths]
  /\ sealed \in [Jobs -> SUBSET Paths]
  /\ out \in [Jobs -> [Paths -> Nat]]

RowsOf(p) == {log[p][n] : n \in 1 .. Latest(p)}

(* A key has one version number, in every share and on every file version it
   encrypted, although commands carry the pair through several requests. *)
LabelsAgree ==
  LET labelled == shares \cup UNION {RowsOf(p) : p \in Paths} IN
  \A x, y \in labelled : x.key = y.key => x.version = y.version

(* A rotation re-encrypts, it does not edit: the version it adds to a file
   carries the content of the version before it and never revives a deleted
   file, whatever pushes and removals it races with. *)
RotationKeepsContent ==
  \A p \in Paths : \A n \in 1 .. Latest(p) :
    log[p][n].rotated =>
      /\ n > 1
      /\ log[p][n - 1].content = log[p][n].content
      /\ ~log[p][n - 1].deleted

(* Nobody is granted the vault without a key to open it with, and a user who
   loses the keys loses the grant, however grants and rotations interleave. *)
GrantedHasShare == \A u \in grants : SharesOf(u) # {}

(* The key made when a user is revoked reaches that user only through a later
   grant by somebody who holds it. *)
KeyWithheld ==
  \A j \in Jobs :
    j.op = "revoke" /\ j.target # j.user /\ nk[j] # NoKey =>
      \A sh \in SharesOf(j.target) :
        sh.key = nk[j].key =>
          \E g \in Jobs : g.op = "grant" /\ g.target = j.target
                                        /\ vk[g].key = nk[j].key

Held(key) == \E sh \in shares : sh.user \in grants /\ sh.key = key

(* The current version of every live file is encrypted under a key that some
   granted device holds a share of: no file is lost. *)
LatestKeyHeld ==
  \A p \in Paths : Live(p) => Held(log[p][Latest(p)].key)

(* Each key has a version number of its own. *)
VersionsDistinct ==
  \A i, j \in Jobs :
    /\ nk[j] # NoKey => nk[j].version # 1
    /\ i # j /\ nk[i] # NoKey /\ nk[j] # NoKey => nk[i].version # nk[j].version

(* A reader who fails to decrypt fetched a key of another version than the one
   it read: it was overtaken by a rotation, or reads past one.  Two keys of one
   version are the only other way. *)
UndecryptableIsOvertaken ==
  [][\A j \in Jobs :
       j.op \in {"pull", "checkout"} /\ result[j] = "none"
         /\ result'[j] = "undecryptable" /\ VersionsDistinct =>
           log[j.path][Wanted(j)].version # vk[j].version]_vars

RevokesItself(j) == j.op = "revoke" /\ j.target = j.user /\ nk[j] # NoKey

(* How a file is lost, its current version under a key that no granted device
   holds.  Unless somebody revokes himself or two keys have one version number,
   that is a version which a rotation has overtaken: it was sent by a push that
   had fetched its key before the rotation, or by an earlier rotation.  What is
   under the newest key stays readable, whoever is revoked and wherever a
   rotation stops. *)
LostIsOvertaken ==
  \A p \in Paths : Live(p) =>
    LET row == log[p][Latest(p)] IN
    \/ Held(row.key)
    \/ \E sh \in shares : sh.version > row.version
    \/ \E j \in Jobs : RevokesItself(j)
    \/ ~VersionsDistinct

(* "BaseVersion is the version the client edited from" (protocol/dto.go:155):
   a push of a local file follows the version that file was last pulled,
   checked out or pushed as. *)
BaseIsEditedFrom ==
  \A p \in Paths : \A n \in 1 .. Latest(p) :
    LET row == log[p][n] IN
    row.content > FirstContent /\ ~row.rotated => row.from = n - 1
===============================================================================
