--------------------------------- MODULE Teams ---------------------------------
(***************************************************************************)
(* Teams, their members, their invite tokens and the vaults created in     *)
(* them: the handlers of server/http/handlers_teams.go, handleCreateVault  *)
(* and the middleware of auth.go, over server/store/teams.go and           *)
(* invites.go.  A handler is a chain of SQL statements with no transaction *)
(* around them, so each statement is an action; only ClaimInviteToken runs *)
(* in a transaction, whose writes appear at its commit.                    *)
(*                                                                         *)
(* A row is named by the request that inserted it: the id of a team, a     *)
(* token or a vault is the id of its request.                              *)
(***************************************************************************)
EXTENDS Naturals, FiniteSets

CONSTANTS
  Users,
  Devices,        \* devices that make requests
  PendingDevices, \* those not active at first
  Names,          \* names of teams
  VaultNames,
  Requests,       \* the requests that may be made, each at most once
  Workloads       \* bound: the engine, the requests that run together, and how
                  \* many of them may die half way or meet a failing statement

Operations == {"create", "delete", "invite", "claim", "setAdmin", "createVault"}

ASSUME RequestsAssumption ==
  /\ Requests \subseteq
       [id : Nat \ {0}, op : Operations, user : Users, device : Devices,
        name : Names, target : Users, token : Nat, vault : VaultNames]
  /\ \A r, q \in Requests : r.id = q.id => r = q
  /\ \A r \in Requests : \E q \in Requests : r.token = q.id
  /\ PendingDevices \subseteq Devices
  /\ \A w \in Workloads :
       /\ w.engine \in {"postgres", "sqlite"}
       /\ w.requests \subseteq Requests
       /\ w.faults \in Nat

Ids == {r.id : r \in Requests}
NoTeam == 0
NoRequest == 0
RequestOf(i) == CHOOSE r \in Requests : r.id = i

VARIABLES
  teams,     \* teams[n]: id of the team named n
  role,      \* role[t][u]: team_members, every row of which is active
  tokens,    \* tokens[i] = [team, used]: invite_tokens
  expired,   \* tokens past expires_at
  vaults,    \* vaults, each with its team and name
  grants,    \* vault_grants, as <<vault, user>>
  active,    \* devices whose status is active
  lock,      \* postgres: the claim that updated the row of a token
  conn,      \* sqlite: the claim that holds the only connection
  pc,        \* statement a request executes next
  checked,   \* team the middleware found the caller an admin of
  found,     \* team the handler itself looked up
  answer,
  faults,    \* faults so far
  workload   \* the one of Workloads that runs

tables == <<teams, role, tokens, expired, vaults, grants, active>>
vars == <<tables, lock, conn, pc, checked, found, answer, faults, workload>>

Token == [team : {NoTeam} \cup Ids, used : BOOLEAN]
NoToken == [team |-> NoTeam, used |-> FALSE]
Live(t) == \E n \in Names : t # NoTeam /\ teams[n] = t

Statements ==
  {"insertTeam", "addOwner", "resolve", "isAdmin", "lookup", "deleteTeam",
   "insertToken", "selectToken", "markUsed", "commit", "targetAdmin",
   "listMembers", "setRole", "insertVault", "grantCreator"}

Init ==
  /\ teams = [n \in Names |-> NoTeam]
  /\ role = [t \in Ids |-> [u \in Users |-> "none"]]
  /\ tokens = [i \in Ids |-> NoToken]
  /\ expired = {}
  /\ vaults = {}
  /\ grants = {}
  /\ active = Devices \ PendingDevices
  /\ lock = [i \in Ids |-> NoRequest]
  /\ conn = NoRequest
  /\ workload \in Workloads
  /\ pc = [r \in Requests |-> IF r \in workload.requests THEN "idle" ELSE "done"]
  /\ checked = [r \in Requests |-> NoTeam]
  /\ found = [r \in Requests |-> NoTeam]
  /\ answer = [r \in Requests |-> "none"]
  /\ faults = 0

-------------------------------------------------------------------------------
(* Requests *)

Goto(r, from, to) == pc[r] = from /\ pc' = [pc EXCEPT ![r] = to]

BugConnFree(r) == TRUE               \* SetMaxOpenConns(1) forgotten

(* The single connection of SQLite is held by a transaction. *)
ConnFree(r) == workload.engine = "sqlite" => conn \in {NoRequest, r.id}

Answer(r, status) ==
  /\ pc' = [pc EXCEPT ![r] = "done"]
  /\ answer' = [answer EXCEPT ![r] = status]

Release(r) ==
  /\ lock' = [i \in Ids |-> IF lock[i] = r.id THEN NoRequest ELSE lock[i]]
  /\ conn' = IF conn = r.id THEN NoRequest ELSE conn

Fault == faults < workload.faults /\ faults' = faults + 1

(* An early return with an error status: nothing more is written. *)
Refuse(r, from) ==
  /\ pc[r] = from
  /\ Answer(r, "refused")
  /\ Release(r)
  /\ UNCHANGED <<tables, checked, found, faults>>

(* The transaction's or the statement's only effect is to go on. *)
Continue(r, from, to) ==
  /\ Goto(r, from, to)
  /\ UNCHANGED <<tables, lock, conn, checked, found, answer, faults>>

FirstStatement(r) ==
  CASE r.op = "create" -> "insertTeam"
    [] r.op = "claim" -> "selectToken"
    [] OTHER -> "resolve"

(* authed lets any known device claim; the other routes want an active one. *)
Authenticate(r) ==
  \/ (r.op = "claim" \/ r.device \in active) /\ Continue(r, "idle", FirstStatement(r))
  \/ r.op # "claim" /\ r.device \notin active /\ Refuse(r, "idle")

(* teamAdminAuthed: GetTeamByName, then IsTeamAdmin. *)
Resolve(r) ==
  /\ ConnFree(r)
  /\ \/ teams[r.name] = NoTeam /\ Refuse(r, "resolve")
     \/ /\ teams[r.name] # NoTeam
        /\ Goto(r, "resolve", "isAdmin")
        /\ checked' = [checked EXCEPT ![r] = teams[r.name]]
        /\ UNCHANGED <<tables, lock, conn, found, answer, faults>>

IsAdmin(t, u) == role[t][u] = "admin"

BugCheckAdmin(r) ==                        \* activeAuthed, not teamAdminAuthed
  ConnFree(r) /\ Continue(r, "isAdmin", "lookup")

CheckAdmin(r) ==
  /\ pc[r] = "isAdmin"
  /\ ConnFree(r)
  /\ \/ IsAdmin(checked[r], r.user) /\ Continue(r, "isAdmin", "lookup")
     \/ ~IsAdmin(checked[r], r.user) /\ Refuse(r, "isAdmin")

NextStatement(r) ==
  CASE r.op = "delete" -> "deleteTeam"
    [] r.op = "invite" -> "insertToken"
    [] r.op = "setAdmin" -> "targetAdmin"
    [] r.op = "createVault" -> "insertVault"

(* The handler looks the team up by its name once more. *)
Lookup(r) ==
  /\ ConnFree(r)
  /\ \/ teams[r.name] = NoTeam /\ Refuse(r, "lookup")
     \/ /\ teams[r.name] # NoTeam
        /\ Goto(r, "lookup", NextStatement(r))
        /\ found' = [found EXCEPT ![r] = teams[r.name]]
        /\ UNCHANGED <<tables, lock, conn, checked, answer, faults>>

-------------------------------------------------------------------------------
(* handleCreateTeam *)

InsertTeam(r) ==
  /\ ConnFree(r)
  /\ \/ teams[r.name] # NoTeam /\ Refuse(r, "insertTeam")
     \/ /\ teams[r.name] = NoTeam
        /\ Goto(r, "insertTeam", "addOwner")
        /\ teams' = [teams EXCEPT ![r.name] = r.id]
        /\ UNCHANGED <<role, tokens, expired, vaults, grants, active, lock, conn,
                       checked, found, answer, faults>>

(* AddTeamMember, whose error is ignored. *)
AddOwner(r) ==
  /\ pc[r] = "addOwner"
  /\ ConnFree(r)
  /\ Answer(r, "ok")
  /\ \/ /\ role' = IF Live(r.id) THEN [role EXCEPT ![r.id][r.user] = "admin"] ELSE role
        /\ UNCHANGED faults
     \/ Fault /\ UNCHANGED role
  /\ UNCHANGED <<teams, tokens, expired, vaults, grants, active, lock, conn,
                 checked, found>>

-------------------------------------------------------------------------------
(* handleDeleteTeam *)

BugCascade(t) ==                           \* team_members does not cascade
  /\ tokens' = [i \in Ids |-> IF tokens[i].team = t THEN NoToken ELSE tokens[i]]
  /\ vaults' = {v \in vaults : v.team # t}
  /\ UNCHANGED <<role, grants>>

(* The rows that reference team t go with it. *)
Cascade(t) ==
  /\ role' = [role EXCEPT ![t] = [u \in Users |-> "none"]]
  /\ tokens' = [i \in Ids |-> IF tokens[i].team = t THEN NoToken ELSE tokens[i]]
  /\ vaults' = {v \in vaults : v.team # t}
  /\ grants' = {g \in grants : \A v \in vaults : v.id = g[1] => v.team # t}

(* DELETE FROM teams WHERE name=?.  The cascade waits for a claim that has
   updated a token of the team; should each come to wait for the other, the
   engine aborts one of them. *)
DeleteTeam(r) ==
  LET t == teams[r.name] IN
  /\ pc[r] = "deleteTeam"
  /\ ConnFree(r)
  /\ \A i \in Ids : tokens[i].team = t /\ t # NoTeam => lock[i] = NoRequest
  /\ Answer(r, "ok")
  /\ IF t = NoTeam
     THEN UNCHANGED <<teams, role, tokens, vaults, grants>>
     ELSE teams' = [teams EXCEPT ![r.name] = NoTeam] /\ Cascade(t)
  /\ UNCHANGED <<expired, active, lock, conn, checked, found, faults>>

-------------------------------------------------------------------------------
(* handleInvite and handleClaimInvite *)

(* CreateInviteToken; its reference to teams fails if the team is gone. *)
InsertToken(r) ==
  /\ ConnFree(r)
  /\ \/ ~Live(found[r]) /\ Refuse(r, "insertToken")
     \/ /\ Live(found[r])
        /\ pc[r] = "insertToken"
        /\ Answer(r, "ok")
        /\ tokens' = [tokens EXCEPT ![r.id] = [team |-> found[r], used |-> FALSE]]
        /\ UNCHANGED <<teams, role, expired, vaults, grants, active, lock, conn,
                       checked, found, faults>>

(* 24 hours pass. *)
Expire(i) ==
  /\ tokens[i] # NoToken
  /\ i \notin expired
  /\ expired' = expired \cup {i}
  /\ UNCHANGED <<teams, role, tokens, vaults, grants, active, lock, conn, pc,
                 checked, found, answer, faults>>

BugClaimable(r) ==                         \* anybody may claim
  /\ tokens[r.token].team # NoTeam
  /\ ~tokens[r.token].used
  /\ r.token \notin expired

Claimable(r) ==
  /\ tokens[r.token].team # NoTeam
  /\ ~tokens[r.token].used
  /\ r.token \notin expired
  /\ RequestOf(r.token).target = r.user

(* BEGIN and SELECT: no row is locked. *)
SelectToken(r) ==
  /\ ConnFree(r)
  /\ \/ ~Claimable(r) /\ Refuse(r, "selectToken")
     \/ /\ Claimable(r)
        /\ Goto(r, "selectToken", "markUsed")
        /\ found' = [found EXCEPT ![r] = tokens[r.token].team]
        /\ conn' = IF workload.engine = "sqlite" THEN r.id ELSE conn
        /\ UNCHANGED <<tables, lock, checked, answer, faults>>

(* UPDATE invite_tokens, with no second look at used_by. *)
MarkUsed(r) ==
  /\ Goto(r, "markUsed", "commit")
  /\ lock[r.token] = NoRequest
  /\ lock' = IF workload.engine = "postgres" /\ tokens[r.token] # NoToken
             THEN [lock EXCEPT ![r.token] = r.id] ELSE lock
  /\ UNCHANGED <<tables, conn, checked, found, answer, faults>>

MarkInTx(i) ==
  IF tokens[i] = NoToken THEN tokens ELSE [tokens EXCEPT ![i].used = TRUE]

BugMembership(r) == role                   \* the upsert is forgotten

(* INSERT INTO team_members ... ON CONFLICT DO UPDATE SET status, role *)
Membership(r) == [role EXCEPT ![found[r]][r.user] = "member"]

(* The remaining statements of the claim, and its COMMIT. *)
CommitClaim(r) ==
  \/ ~Live(found[r]) /\ Refuse(r, "commit")
  \/ /\ Live(found[r])
     /\ pc[r] = "commit"
     /\ Answer(r, "ok")
     /\ Release(r)
     /\ tokens' = MarkInTx(r.token)
     /\ active' = active \cup {r.device}
     /\ role' = Membership(r)
     /\ UNCHANGED <<teams, expired, vaults, grants, checked, found, faults>>

-------------------------------------------------------------------------------
(* handleSetAdmin *)

TargetAdmin(r) ==
  /\ pc[r] = "targetAdmin"
  /\ ConnFree(r)
  /\ \/ IsAdmin(found[r], r.target) /\ Refuse(r, "targetAdmin")
     \/ ~IsAdmin(found[r], r.target) /\ Continue(r, "targetAdmin", "listMembers")

IsMember(t, u) == role[t][u] # "none"

ListMembers(r) ==
  /\ pc[r] = "listMembers"
  /\ ConnFree(r)
  /\ \/ IsMember(found[r], r.target) /\ Continue(r, "listMembers", "setRole")
     \/ ~IsMember(found[r], r.target) /\ Refuse(r, "listMembers")

(* SetTeamMemberRole updates the row if it is still there. *)
SetRole(r) ==
  /\ pc[r] = "setRole"
  /\ ConnFree(r)
  /\ Answer(r, "ok")
  /\ role' = IF role[found[r]][r.target] = "none" THEN role
             ELSE [role EXCEPT ![found[r]][r.target] = "admin"]
  /\ UNCHANGED <<teams, tokens, expired, vaults, grants, active, lock, conn,
                 checked, found, faults>>

-------------------------------------------------------------------------------
(* handleCreateVault *)

InsertVault(r) ==
  LET free == \A v \in vaults : v.name # r.vault IN
  /\ ConnFree(r)
  /\ \/ ~(free /\ Live(found[r])) /\ Refuse(r, "insertVault")
     \/ /\ free /\ Live(found[r])
        /\ Goto(r, "insertVault", "grantCreator")
        /\ vaults' = vaults \cup {[id |-> r.id, team |-> found[r], name |-> r.vault]}
        /\ UNCHANGED <<teams, role, tokens, expired, grants, active, lock, conn,
                       checked, found, answer, faults>>

(* Grant, whose error is ignored. *)
GrantCreator(r) ==
  /\ pc[r] = "grantCreator"
  /\ ConnFree(r)
  /\ Answer(r, "ok")
  /\ \/ /\ grants' = IF \E v \in vaults : v.id = r.id
                     THEN grants \cup {<<r.id, r.user>>} ELSE grants
        /\ UNCHANGED faults
     \/ Fault /\ UNCHANGED grants
  /\ UNCHANGED <<teams, role, tokens, expired, vaults, active, lock, conn,
                 checked, found>>

-------------------------------------------------------------------------------
(* The client hangs up (its request context is cancelled), the database is
   lost or the server dies: an open transaction is rolled back, statements
   already executed stay. *)
Stop(r) ==
  /\ Fault
  /\ pc[r] \in Statements
  /\ Answer(r, "lost")
  /\ Release(r)
  /\ UNCHANGED <<tables, checked, found>>

Step(r) ==
  \/ Authenticate(r) \/ Resolve(r) \/ CheckAdmin(r) \/ Lookup(r)
  \/ InsertTeam(r) \/ AddOwner(r) \/ DeleteTeam(r)
  \/ InsertToken(r) \/ SelectToken(r) \/ MarkUsed(r) \/ CommitClaim(r)
  \/ TargetAdmin(r) \/ ListMembers(r) \/ SetRole(r)
  \/ InsertVault(r) \/ GrantCreator(r)

AllAnswered == (\A r \in Requests : pc[r] = "done") /\ UNCHANGED vars

Next ==
  /\ \/ \E r \in Requests : Step(r) \/ Stop(r)
     \/ \E i \in Ids : Expire(i)
     \/ AllAnswered
  /\ UNCHANGED workload

Spec == Init /\ [][Next]_vars

-------------------------------------------------------------------------------
(* Properties *)

TypeOK ==
  /\ teams \in [Names -> {NoTeam} \cup Ids]
  /\ role \in [Ids -> [Users -> {"none", "member", "admin"}]]
  /\ tokens \in [Ids -> Token]
  /\ expired \subseteq Ids
  /\ vaults \subseteq [id : Ids, team : Ids, name : VaultNames]
  /\ grants \subseteq Ids \X Users
  /\ active \subseteq Devices
  /\ lock \in [Ids -> {NoRequest} \cup Ids]
  /\ conn \in {NoRequest} \cup Ids
  /\ pc \in [Requests -> {"idle", "done"} \cup Statements]
  /\ checked \in [Requests -> {NoTeam} \cup Ids]
  /\ found \in [Requests -> {NoTeam} \cup Ids]
  /\ answer \in [Requests -> {"none", "ok", "refused", "lost"}]
  /\ workload \in Workloads
  /\ faults \in 0 .. workload.faults

Creator(t) == RequestOf(t).user

(* Every member of a team created it or was invited into that very team by a
   token made out to the user, even when the team was deleted and another one
   took its name while the invitation was under way. *)
MembersInvited ==
  \A t \in Ids : \A u \in Users : role[t][u] # "none" =>
    \/ u = Creator(t)
    \/ \E i \in Ids : /\ tokens[i].team = t
                      /\ tokens[i].used
                      /\ RequestOf(i).target = u

Promoted(r, t, u) ==
  r.op = "setAdmin" /\ r.target = u /\ found[r] = t /\ answer[r] # "none"

Entitled(r) ==
  \/ r.user = Creator(checked[r])
  \/ \E q \in Requests : q # r /\ Promoted(q, checked[r], r.user)

(* Every admin of a team created it, or was promoted by somebody the
   middleware found to be an admin of that team, or of one of the same name
   that has been deleted since. *)
AdminsAppointed ==
  \A t \in Ids : \A u \in Users : role[t][u] = "admin" =>
    \/ u = Creator(t)
    \/ \E r \in Requests :
         Promoted(r, t, u) /\ Entitled(r) /\ (checked[r] = t \/ ~Live(checked[r]))

(* Claiming is all or nothing: as long as the team exists, a spent token has
   made its addressee a member for good. *)
SpentTokenJoined ==
  \A i \in Ids :
    tokens[i].used => role[tokens[i].team][RequestOf(i).target] # "none"

(* "Create a single-use invite token" (commands/teams.go:16): a token is
   accepted once, on the engine whose transactions run one at a time. *)
TokenUsedOnce ==
  workload.engine = "sqlite" => \A r, q \in Requests :
    r.op = "claim" /\ q.op = "claim" /\ r.token = q.token
      /\ answer[r] = "ok" /\ answer[q] = "ok" => r = q
===============================================================================
