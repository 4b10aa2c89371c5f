------------------------------ MODULE Teams_proofs ------------------------------
(* The invariant of Teams for any requests, users, devices and names. *)
EXTENDS Teams, TLAPS

(***************************************************************************)
(* The invariant.                                                          *)
(***************************************************************************)

InClaim == {"markUsed", "commit"}
InSetAdmin == {"targetAdmin", "listMembers", "setRole"}
InVault == {"insertVault", "grantCreator"}
ByName == {"resolve", "isAdmin", "lookup"}
Acting == {"deleteTeam", "insertToken"} \cup InSetAdmin \cup InVault

(* Which statements a request may execute, and what it has looked up by then. *)
Stage(r) ==
  /\ pc[r] \in {"insertTeam", "addOwner"} => r.op = "create"
  /\ pc[r] \in {"selectToken"} \cup InClaim => r.op = "claim"
  /\ pc[r] \in ByName => r.op \notin {"create", "claim"}
  /\ pc[r] = "deleteTeam" => r.op = "delete"
  /\ pc[r] = "insertToken" => r.op = "invite"
  /\ pc[r] \in InSetAdmin => r.op = "setAdmin"
  /\ pc[r] \in InVault => r.op = "createVault"
  /\ pc[r] \in {"isAdmin", "lookup"} \cup Acting => checked[r] # NoTeam
  /\ pc[r] \in {"idle"} \cup ByName => found[r] = NoTeam
  /\ pc[r] \in Acting \cup InClaim => found[r] # NoTeam
  /\ pc[r] # "done" => answer[r] = "none"

StageInv == \A r \in Requests : Stage(r)

TypeInv == TypeOK /\ StageInv

(* t is the id of a team that was inserted at some time. *)
Team(t) ==
  /\ t \in Ids
  /\ RequestOf(t).op = "create"
  /\ pc[RequestOf(t)] \notin {"idle", "insertTeam"}

(* What refers to a team refers to one that was inserted, members and tokens to
   one that is still there.  A request that looked its team up twice found one
   team, or the first of them is gone. *)
TeamsInv ==
  /\ \A n \in Names : teams[n] # NoTeam => Team(teams[n]) /\ RequestOf(teams[n]).name = n
  /\ \A t \in Ids : \A u \in Users : role[t][u] # "none" => Live(t)
  /\ \A i \in Ids : tokens[i] # NoToken =>
       /\ Live(tokens[i].team)
       /\ RequestOf(i).op = "invite"
       /\ pc[RequestOf(i)] = "done"
  /\ \A r \in Requests : checked[r] # NoTeam =>
       Team(checked[r]) /\ RequestOf(checked[r]).name = r.name
  /\ \A r \in Requests : found[r] # NoTeam =>
       /\ Team(found[r])
       /\ r.op # "claim" =>
            /\ RequestOf(found[r]).name = r.name
            /\ checked[r] # NoTeam
            /\ checked[r] = found[r] \/ ~Live(checked[r])

(* A token that was accepted is marked, or gone with its team and never back. *)
Spent(i) == tokens[i].used \/ (tokens[i] = NoToken /\ pc[RequestOf(i)] = "done")

(* An open claim is the addressee's, and its token is still one of the team it
   found.  On SQLite it owns the connection, and nobody else's was accepted. *)
ClaimInv ==
  /\ \A r \in Requests : pc[r] \in InClaim =>
       /\ RequestOf(r.token).target = r.user
       /\ Live(found[r]) => tokens[r.token].team = found[r]
       /\ workload.engine = "sqlite" =>
            /\ conn = r.id
            /\ \A q \in Requests : q.op = "claim" /\ q.token = r.token => answer[q] # "ok"
  /\ \A r \in Requests : r.op = "claim" /\ answer[r] = "ok" => Spent(r.token)

(* Whoever has passed the middleware of setAdmin was entitled to. *)
EntitledInv ==
  \A r \in Requests : pc[r] \in {"lookup"} \cup InSetAdmin /\ r.op = "setAdmin" => Entitled(r)

IInv ==
  /\ TypeInv /\ TeamsInv /\ ClaimInv /\ EntitledInv
  /\ MembersInvited /\ AdminsAppointed /\ SpentTokenJoined /\ TokenUsedOnce

(***************************************************************************)
(* Requests and their ids.                                                 *)
(***************************************************************************)

LEMMA RequestFields ==
  ASSUME NEW r \in Requests
  PROVE  /\ r.op \in Operations /\ r.user \in Users /\ r.device \in Devices
         /\ r.name \in Names /\ r.target \in Users /\ r.vault \in VaultNames
         /\ r.id \in Ids /\ r.token \in Ids
         /\ RequestOf(r.id) = r
  <1>1. /\ r.op \in Operations /\ r.user \in Users /\ r.device \in Devices
        /\ r.name \in Names /\ r.target \in Users /\ r.vault \in VaultNames
    BY RequestsAssumption
  <1>2. r.id \in Ids /\ r.token \in Ids
    BY RequestsAssumption DEF Ids
  <1>3. RequestOf(r.id) = r
    BY RequestsAssumption DEF RequestOf
  <1> QED BY <1>1, <1>2, <1>3

LEMMA IdsOfRequests ==
  ASSUME NEW i \in Ids
  PROVE  RequestOf(i) \in Requests /\ RequestOf(i).id = i /\ i # NoTeam /\ i # NoRequest
  <1>1. PICK r \in Requests : r.id = i
    BY DEF Ids
  <1>2. i \in Nat \ {0}
    BY <1>1, RequestsAssumption
  <1> QED BY <1>1, <1>2, RequestFields DEF NoTeam, NoRequest

(***************************************************************************)
(* Types and stages.                                                       *)
(***************************************************************************)

LEMMA TypeInit == Init => TypeInv
  <1> SUFFICES ASSUME Init PROVE TypeInv
    OBVIOUS
  <1>1. workload.faults \in Nat
    BY RequestsAssumption DEF Init
  <1>2. PendingDevices \subseteq Devices
    BY RequestsAssumption
  <1>3. TypeOK
    BY <1>1, <1>2 DEF Init, TypeOK, Token, NoToken, NoTeam, NoRequest
  <1>4. StageInv
    BY DEF Init, StageInv, Stage, InClaim, InSetAdmin, InVault, ByName, Acting
  <1> QED BY <1>3, <1>4 DEF TypeInv

Others(r) ==
  \A q \in Requests \ {r} :
    pc'[q] = pc[q] /\ answer'[q] = answer[q] /\ checked'[q] = checked[q] /\ found'[q] = found[q]

(* The request is over. *)
LEMMA StageDone ==
  ASSUME TypeInv, NEW r \in Requests, Others(r), pc'[r] = "done"
  PROVE  StageInv'
  BY DEF TypeInv, StageInv, Stage, Others, InClaim, InSetAdmin, InVault, ByName, Acting

(* The request goes on. *)
LEMMA StageGoes ==
  ASSUME TypeInv, NEW r \in Requests, Others(r), pc[r] # "done", answer'[r] = answer[r], Stage(r)'
  PROVE  StageInv'
  BY DEF TypeInv, StageInv, Stage, Others

LEMMA RefuseType ==
  ASSUME TypeInv, UNCHANGED workload, NEW r \in Requests, NEW from, Refuse(r, from)
  PROVE  TypeInv'
  <1>1. r.id \in Ids
    BY RequestFields
  <1>2. TypeOK'
    BY <1>1 DEF TypeInv, TypeOK, Refuse, Answer, Release, tables
  <1>3. Others(r) /\ pc'[r] = "done"
    BY DEF TypeInv, TypeOK, Refuse, Answer, Others
  <1> QED BY <1>2, <1>3, StageDone DEF TypeInv

LEMMA ContinueType ==
  ASSUME TypeInv, UNCHANGED workload, NEW r \in Requests, NEW from, NEW to \in Statements,
         from # "done", Continue(r, from, to),
         pc'[r] = to /\ checked'[r] = checked[r] /\ found'[r] = found[r]
           /\ answer'[r] = answer[r] => Stage(r)'
  PROVE  TypeInv'
  <1>1. TypeOK'
    BY DEF TypeInv, TypeOK, Continue, Goto, tables
  <1>2. /\ Others(r) /\ pc'[r] = to /\ pc[r] # "done"
        /\ checked'[r] = checked[r] /\ found'[r] = found[r] /\ answer'[r] = answer[r]
    BY DEF TypeInv, TypeOK, Continue, Goto, Others
  <1> QED BY <1>1, <1>2, StageGoes DEF TypeInv

LEMMA TypeStep == TypeInv /\ [Next]_vars => TypeInv'
  <1> SUFFICES ASSUME TypeInv, [Next]_vars PROVE TypeInv'
    OBVIOUS
  <1> USE DEF TypeInv, tables
  <1>0. UNCHANGED workload
    BY DEF Next, vars
  <1>a. ASSUME NEW r \in Requests PROVE Stage(r)
    BY DEF StageInv
  <1> USE DEF InClaim, InSetAdmin, InVault, ByName, Acting
  <1>1. ASSUME NEW r \in Requests, Authenticate(r) PROVE TypeInv'
    <2>1. CASE Continue(r, "idle", FirstStatement(r))
      <3>1. FirstStatement(r) \in Statements
        BY DEF FirstStatement, Statements
      <3>2. pc[r] = "idle"
        BY <2>1 DEF Continue, Goto
      <3>3. ASSUME pc'[r] = FirstStatement(r), checked'[r] = checked[r], found'[r] = found[r],
                   answer'[r] = answer[r]
            PROVE  Stage(r)'
        BY <1>a, <3>2, <3>3 DEF FirstStatement, Stage
      <3> QED BY <1>0, <2>1, <3>1, <3>3, ContinueType
    <2> QED BY <1>0, <1>1, <2>1, RefuseType DEF Authenticate
  <1>2. ASSUME NEW r \in Requests, Resolve(r) PROVE TypeInv'
    <2>1. CASE /\ teams[r.name] # NoTeam
               /\ Goto(r, "resolve", "isAdmin")
               /\ checked' = [checked EXCEPT ![r] = teams[r.name]]
               /\ UNCHANGED <<tables, lock, conn, found, answer, faults>>
      <3>1. r.name \in Names
        BY RequestFields
      <3>2. TypeOK'
        BY <1>0, <2>1, <3>1 DEF TypeOK, Goto, Statements
      <3>3. /\ Others(r) /\ pc[r] = "resolve" /\ pc'[r] = "isAdmin"
            /\ checked'[r] # NoTeam /\ found'[r] = found[r] /\ answer'[r] = answer[r]
        BY <2>1, <3>1 DEF TypeOK, Goto, Others
      <3>4. Stage(r)'
        BY <1>a, <3>3 DEF Stage
      <3> QED BY <3>2, <3>3, <3>4, StageGoes
    <2> QED BY <1>0, <1>2, <2>1, RefuseType DEF Resolve
  <1>3. ASSUME NEW r \in Requests, CheckAdmin(r) PROVE TypeInv'
    <2>1. CASE Continue(r, "isAdmin", "lookup")
      <3>1. pc[r] = "isAdmin"
        BY <2>1 DEF Continue, Goto
      <3>2. ASSUME pc'[r] = "lookup", checked'[r] = checked[r], found'[r] = found[r],
                   answer'[r] = answer[r]
            PROVE  Stage(r)'
        BY <1>a, <3>1, <3>2 DEF Stage
      <3>3. "lookup" \in Statements
        BY DEF Statements
      <3> QED BY <1>0, <2>1, <3>2, <3>3, ContinueType
    <2> QED BY <1>0, <1>3, <2>1, RefuseType DEF CheckAdmin
  <1>4. ASSUME NEW r \in Requests, Lookup(r) PROVE TypeInv'
    <2>1. CASE /\ teams[r.name] # NoTeam
               /\ Goto(r, "lookup", NextStatement(r))
               /\ found' = [found EXCEPT ![r] = teams[r.name]]
               /\ UNCHANGED <<tables, lock, conn, checked, answer, faults>>
      <3>1. r.name \in Names /\ r.op \in Operations
        BY RequestFields
      <3>a. r.op \notin {"create", "claim"}
        BY <1>a, <2>1 DEF Stage, Goto
      <3>2. NextStatement(r) \in Acting \cap Statements
        BY <3>1, <3>a DEF NextStatement, Statements, Operations
      <3>3. TypeOK'
        BY <1>0, <2>1, <3>1, <3>2 DEF TypeOK, Goto
      <3>4. /\ Others(r) /\ pc[r] = "lookup" /\ pc'[r] = NextStatement(r)
            /\ checked'[r] = checked[r] /\ found'[r] # NoTeam /\ answer'[r] = answer[r]
        BY <2>1, <3>1 DEF TypeOK, Goto, Others
      <3>5. Stage(r)'
        BY <1>a, <3>1, <3>a, <3>4 DEF Stage, NextStatement, Operations
      <3> QED BY <3>3, <3>4, <3>5, StageGoes
    <2> QED BY <1>0, <1>4, <2>1, RefuseType DEF Lookup
  <1>5. ASSUME NEW r \in Requests, InsertTeam(r) PROVE TypeInv'
    <2>1. CASE /\ Goto(r, "insertTeam", "addOwner")
               /\ teams' = [teams EXCEPT ![r.name] = r.id]
               /\ UNCHANGED <<role, tokens, expired, vaults, grants, active, lock, conn,
                              checked, found, answer, faults>>
      <3>1. r.id \in Ids
        BY RequestFields
      <3>2. TypeOK'
        BY <1>0, <2>1, <3>1 DEF TypeOK, Goto, Statements
      <3>3. /\ Others(r) /\ pc[r] = "insertTeam" /\ pc'[r] = "addOwner"
            /\ checked'[r] = checked[r] /\ found'[r] = found[r] /\ answer'[r] = answer[r]
        BY <2>1 DEF TypeOK, Goto, Others
      <3>4. Stage(r)'
        BY <1>a, <3>3 DEF Stage
      <3> QED BY <3>2, <3>3, <3>4, StageGoes
    <2> QED BY <1>0, <1>5, <2>1, RefuseType DEF InsertTeam
  <1>b. ASSUME NEW r \in Requests, NEW status \in {"none", "ok", "refused", "lost"},
               Answer(r, status), UNCHANGED <<checked, found>>
        PROVE  StageInv' /\ pc' \in [Requests -> {"idle", "done"} \cup Statements]
               /\ answer' \in [Requests -> {"none", "ok", "refused", "lost"}]
    <2>1. Others(r) /\ pc'[r] = "done"
      BY <1>b DEF TypeOK, Answer, Others
    <2> QED BY <1>b, <2>1, StageDone DEF TypeOK, Answer
  <1>c. ASSUME Fault PROVE faults' \in 0 .. workload.faults
    <2>1. workload.faults \in Nat
      BY RequestsAssumption DEF TypeOK
    <2> QED BY <1>c, <2>1 DEF Fault, TypeOK
  <1>6. ASSUME NEW r \in Requests, AddOwner(r) PROVE TypeInv'
    <2>1. StageInv' /\ pc' \in [Requests -> {"idle", "done"} \cup Statements]
               /\ answer' \in [Requests -> {"none", "ok", "refused", "lost"}]
      BY <1>b, <1>6 DEF AddOwner
    <2>2. role' \in [Ids -> [Users -> {"none", "member", "admin"}]]
      <3>1. r.id \in Ids /\ r.user \in Users
        BY RequestFields
      <3>2. CASE role' = role
        BY <3>2 DEF TypeOK
      <3>3. CASE role' = [role EXCEPT ![r.id][r.user] = "admin"]
        BY <3>1, <3>3 DEF TypeOK
      <3> QED BY <1>6, <3>2, <3>3 DEF AddOwner
    <2>3. faults' \in 0 .. workload.faults
      BY <1>6, <1>c DEF AddOwner, TypeOK
    <2>4. UNCHANGED <<teams, tokens, expired, vaults, grants, active, lock, conn, checked, found>>
      BY <1>6 DEF AddOwner
    <2>5. TypeOK'
      BY <1>0, <2>1, <2>2, <2>3, <2>4 DEF TypeOK
    <2> QED BY <2>1, <2>5
  <1>7. ASSUME NEW r \in Requests, DeleteTeam(r) PROVE TypeInv'
    <2>1. StageInv' /\ pc' \in [Requests -> {"idle", "done"} \cup Statements]
               /\ answer' \in [Requests -> {"none", "ok", "refused", "lost"}]
      BY <1>b, <1>7 DEF DeleteTeam
    <2>2. CASE UNCHANGED <<teams, role, tokens, vaults, grants>>
      BY <1>0, <1>7, <2>1, <2>2 DEF DeleteTeam, TypeOK
    <2>3. CASE teams' = [teams EXCEPT ![r.name] = NoTeam] /\ Cascade(teams[r.name])
      <3>1. teams' \in [Names -> {NoTeam} \cup Ids]
        BY <2>3 DEF TypeOK
      <3>2. role' \in [Ids -> [Users -> {"none", "member", "admin"}]]
        BY <2>3 DEF TypeOK, Cascade
      <3>3. tokens' \in [Ids -> Token]
        BY <2>3 DEF TypeOK, Cascade, Token, NoToken
      <3>4. vaults' \subseteq vaults /\ grants' \subseteq grants
        BY <2>3 DEF Cascade
      <3>5. UNCHANGED <<expired, active, lock, conn, checked, found, faults>>
        BY <1>7 DEF DeleteTeam
      <3>6. TypeOK'
        BY <1>0, <2>1, <3>1, <3>2, <3>3, <3>4, <3>5 DEF TypeOK
      <3> QED BY <2>1, <3>6
    <2> QED BY <1>7, <2>2, <2>3 DEF DeleteTeam
  <1>8. ASSUME NEW r \in Requests, InsertToken(r) PROVE TypeInv'
    <2>1. CASE /\ Answer(r, "ok")
               /\ tokens' = [tokens EXCEPT ![r.id] = [team |-> found[r], used |-> FALSE]]
               /\ UNCHANGED <<teams, role, expired, vaults, grants, active, lock, conn,
                              checked, found, faults>>
      <3>1. StageInv' /\ pc' \in [Requests -> {"idle", "done"} \cup Statements]
               /\ answer' \in [Requests -> {"none", "ok", "refused", "lost"}]
        BY <1>b, <2>1
      <3>2. [team |-> found[r], used |-> FALSE] \in Token
        BY DEF TypeOK, Token
      <3>3. tokens' \in [Ids -> Token]
        BY <2>1, <3>2 DEF TypeOK
      <3>4. TypeOK'
        BY <1>0, <2>1, <3>1, <3>3 DEF TypeOK
      <3> QED BY <3>1, <3>4
    <2> QED BY <1>0, <1>8, <2>1, RefuseType DEF InsertToken
  <1>9. ASSUME NEW r \in Requests, SelectToken(r) PROVE TypeInv'
    <2>1. CASE /\ Claimable(r)
               /\ Goto(r, "selectToken", "markUsed")
               /\ found' = [found EXCEPT ![r] = tokens[r.token].team]
               /\ conn' = IF workload.engine = "sqlite" THEN r.id ELSE conn
               /\ UNCHANGED <<tables, lock, checked, answer, faults>>
      <3>1. r.id \in Ids /\ r.token \in Ids
        BY RequestFields
      <3>2. tokens[r.token].team \in {NoTeam} \cup Ids /\ tokens[r.token].team # NoTeam
        BY <2>1, <3>1 DEF TypeOK, Token, Claimable
      <3>3. TypeOK'
        BY <1>0, <2>1, <3>1, <3>2 DEF TypeOK, Goto, Statements
      <3>4. /\ Others(r) /\ pc[r] = "selectToken" /\ pc'[r] = "markUsed"
            /\ checked'[r] = checked[r] /\ found'[r] # NoTeam /\ answer'[r] = answer[r]
        BY <2>1, <3>2 DEF TypeOK, Goto, Others
      <3>5. Stage(r)'
        BY <1>a, <3>4 DEF Stage
      <3> QED BY <3>3, <3>4, <3>5, StageGoes
    <2> QED BY <1>0, <1>9, <2>1, RefuseType DEF SelectToken
  <1>10. ASSUME NEW r \in Requests, MarkUsed(r) PROVE TypeInv'
    <2>1. r.id \in Ids
      BY RequestFields
    <2>2. TypeOK'
      BY <1>0, <1>10, <2>1 DEF TypeOK, MarkUsed, Goto, Statements
    <2>3. /\ Others(r) /\ pc[r] = "markUsed" /\ pc'[r] = "commit"
          /\ checked'[r] = checked[r] /\ found'[r] = found[r] /\ answer'[r] = answer[r]
      BY <1>10 DEF TypeOK, MarkUsed, Goto, Others
    <2>4. Stage(r)'
      BY <1>a, <2>3 DEF Stage
    <2> QED BY <2>2, <2>3, <2>4, StageGoes
  <1>11. ASSUME NEW r \in Requests, CommitClaim(r) PROVE TypeInv'
    <2>1. CASE /\ Answer(r, "ok")
               /\ Release(r)
               /\ tokens' = MarkInTx(r.token)
               /\ active' = active \cup {r.device}
               /\ role' = Membership(r)
               /\ UNCHANGED <<teams, expired, vaults, grants, checked, found, faults>>
      <3>1. StageInv' /\ pc' \in [Requests -> {"idle", "done"} \cup Statements]
               /\ answer' \in [Requests -> {"none", "ok", "refused", "lost"}]
        BY <1>b, <2>1
      <3>2. r.token \in Ids /\ r.device \in Devices /\ r.user \in Users
        BY RequestFields
      <3>3. tokens' \in [Ids -> Token]
        BY <2>1, <3>2 DEF TypeOK, MarkInTx, Token
      <3>4. role' \in [Ids -> [Users -> {"none", "member", "admin"}]]
        BY <2>1, <3>2 DEF TypeOK, Membership
      <3>5. lock' \in [Ids -> {NoRequest} \cup Ids] /\ conn' \in {NoRequest} \cup Ids
        BY <2>1 DEF TypeOK, Release
      <3>6. TypeOK'
        BY <1>0, <2>1, <3>1, <3>2, <3>3, <3>4, <3>5 DEF TypeOK
      <3> QED BY <3>1, <3>6
    <2> QED BY <1>0, <1>11, <2>1, RefuseType DEF CommitClaim
  <1>12. ASSUME NEW r \in Requests, TargetAdmin(r) \/ ListMembers(r) PROVE TypeInv'
    <2>1. ASSUME NEW from \in {"targetAdmin", "listMembers"}, NEW to \in {"listMembers", "setRole"},
                 Continue(r, from, to)
          PROVE  TypeInv'
      <3>1. pc[r] = from
        BY <2>1 DEF Continue, Goto
      <3>2. ASSUME pc'[r] = to, checked'[r] = checked[r], found'[r] = found[r],
                   answer'[r] = answer[r]
            PROVE  Stage(r)'
        BY <1>a, <3>1, <3>2 DEF Stage
      <3>3. to \in Statements
        BY DEF Statements
      <3> QED BY <1>0, <2>1, <3>2, <3>3, ContinueType
    <2> QED BY <1>0, <1>12, <2>1, RefuseType DEF TargetAdmin, ListMembers
  <1>13. ASSUME NEW r \in Requests, SetRole(r) PROVE TypeInv'
    <2>1. StageInv' /\ pc' \in [Requests -> {"idle", "done"} \cup Statements]
               /\ answer' \in [Requests -> {"none", "ok", "refused", "lost"}]
      BY <1>b, <1>13 DEF SetRole
    <2>2. role' \in [Ids -> [Users -> {"none", "member", "admin"}]]
      <3>1. r.target \in Users
        BY RequestFields
      <3>2. CASE role' = role
        BY <3>2 DEF TypeOK
      <3>3. CASE role' = [role EXCEPT ![found[r]][r.target] = "admin"]
        BY <3>1, <3>3 DEF TypeOK
      <3> QED BY <1>13, <3>2, <3>3 DEF SetRole
    <2>3. UNCHANGED <<teams, tokens, expired, vaults, grants, active, lock, conn, checked,
                      found, faults>>
      BY <1>13 DEF SetRole
    <2>4. TypeOK'
      BY <1>0, <2>1, <2>2, <2>3 DEF TypeOK
    <2> QED BY <2>1, <2>4
  <1>14. ASSUME NEW r \in Requests, InsertVault(r) PROVE TypeInv'
    <2>1. CASE /\ Goto(r, "insertVault", "grantCreator")
               /\ Live(found[r])
               /\ vaults' = vaults \cup {[id |-> r.id, team |-> found[r], name |-> r.vault]}
               /\ UNCHANGED <<teams, role, tokens, expired, grants, active, lock, conn,
                              checked, found, answer, faults>>
      <3>1. r.id \in Ids /\ r.vault \in VaultNames
        BY RequestFields
      <3>2. found[r] \in Ids
        BY <2>1 DEF TypeOK, Live
      <3>3. TypeOK'
        BY <1>0, <2>1, <3>1, <3>2 DEF TypeOK, Goto, Statements
      <3>4. /\ Others(r) /\ pc[r] = "insertVault" /\ pc'[r] = "grantCreator"
            /\ checked'[r] = checked[r] /\ found'[r] = found[r] /\ answer'[r] = answer[r]
        BY <2>1 DEF TypeOK, Goto, Others
      <3>5. Stage(r)'
        BY <1>a, <3>4 DEF Stage
      <3> QED BY <3>3, <3>4, <3>5, StageGoes
    <2> QED BY <1>0, <1>14, <2>1, RefuseType DEF InsertVault
  <1>15. ASSUME NEW r \in Requests, GrantCreator(r) PROVE TypeInv'
    <2>1. StageInv' /\ pc' \in [Requests -> {"idle", "done"} \cup Statements]
               /\ answer' \in [Requests -> {"none", "ok", "refused", "lost"}]
      BY <1>b, <1>15 DEF GrantCreator
    <2>2. r.id \in Ids /\ r.user \in Users
      BY RequestFields
    <2>3. grants' \subseteq Ids \X Users
      BY <1>15, <2>2 DEF GrantCreator, TypeOK
    <2>4. faults' \in 0 .. workload.faults
      BY <1>15, <1>c DEF GrantCreator, TypeOK
    <2>5. UNCHANGED <<teams, role, tokens, expired, vaults, active, lock, conn, checked, found>>
      BY <1>15 DEF GrantCreator
    <2>6. TypeOK'
      BY <1>0, <2>1, <2>3, <2>4, <2>5 DEF TypeOK
    <2> QED BY <2>1, <2>6
  <1>16. ASSUME NEW r \in Requests, Stop(r) PROVE TypeInv'
    <2>1. StageInv' /\ pc' \in [Requests -> {"idle", "done"} \cup Statements]
               /\ answer' \in [Requests -> {"none", "ok", "refused", "lost"}]
      BY <1>b, <1>16 DEF Stop
    <2>2. faults' \in 0 .. workload.faults
      BY <1>16, <1>c DEF Stop
    <2>3. lock' \in [Ids -> {NoRequest} \cup Ids] /\ conn' \in {NoRequest} \cup Ids
      BY <1>16 DEF Stop, TypeOK, Release
    <2>4. TypeOK'
      BY <1>0, <1>16, <2>1, <2>2, <2>3 DEF Stop, TypeOK
    <2> QED BY <2>1, <2>4
  <1>17. ASSUME NEW i \in Ids, Expire(i) PROVE TypeInv'
    BY <1>0, <1>17 DEF Expire, TypeOK, StageInv, Stage
  <1>18. CASE UNCHANGED vars
    BY <1>18 DEF vars, TypeOK, StageInv, Stage
  <1> QED
    BY <1>1, <1>2, <1>3, <1>4, <1>5, <1>6, <1>7, <1>8, <1>9, <1>10, <1>11, <1>12, <1>13,
       <1>14, <1>15, <1>16, <1>17, <1>18 DEF Next, Step, AllAnswered

(***************************************************************************)
(* What a step does to teams, members, tokens and what requests know.      *)
(***************************************************************************)

Kept == UNCHANGED <<teams, role, tokens, checked, found>>

Resolves(r) ==
  /\ pc[r] = "resolve" /\ teams[r.name] # NoTeam
  /\ checked' = [checked EXCEPT ![r] = teams[r.name]]
  /\ UNCHANGED <<teams, role, tokens, found>>

Finds(r) ==
  /\ pc[r] = "lookup" /\ teams[r.name] # NoTeam
  /\ found' = [found EXCEPT ![r] = teams[r.name]]
  /\ UNCHANGED <<teams, role, tokens, checked>>

Selects(r) ==
  /\ pc[r] = "selectToken" /\ Claimable(r)
  /\ workload.engine = "sqlite" => conn' = r.id
  /\ found' = [found EXCEPT ![r] = tokens[r.token].team]
  /\ UNCHANGED <<teams, role, tokens, checked, answer>>

Founds(r) ==
  /\ pc[r] = "insertTeam" /\ pc'[r] = "addOwner" /\ teams[r.name] = NoTeam
  /\ teams' = [teams EXCEPT ![r.name] = r.id]
  /\ UNCHANGED <<role, tokens, checked, found>>

Owns(r) ==
  /\ pc[r] = "addOwner" /\ Live(r.id)
  /\ role' = [role EXCEPT ![r.id][r.user] = "admin"]
  /\ UNCHANGED <<teams, tokens, checked, found>>

Deletes(r) ==
  /\ teams[r.name] # NoTeam
  /\ teams' = [teams EXCEPT ![r.name] = NoTeam]
  /\ Cascade(teams[r.name])
  /\ UNCHANGED <<checked, found>>

Issues(r) ==
  /\ pc[r] = "insertToken" /\ pc'[r] = "done" /\ Live(found[r])
  /\ tokens' = [tokens EXCEPT ![r.id] = [team |-> found[r], used |-> FALSE]]
  /\ UNCHANGED <<teams, role, checked, found>>

Joins(r) ==
  /\ pc[r] = "commit" /\ pc'[r] = "done" /\ Live(found[r])
  /\ tokens' = MarkInTx(r.token)
  /\ role' = Membership(r)
  /\ answer' = [answer EXCEPT ![r] = "ok"]
  /\ UNCHANGED <<teams, checked, found>>

Promotes(r) ==
  /\ pc[r] = "setRole" /\ role[found[r]][r.target] # "none" /\ answer'[r] = "ok"
  /\ role' = [role EXCEPT ![found[r]][r.target] = "admin"]
  /\ UNCHANGED <<teams, tokens, checked, found>>

(* Requests go forward, and what has been answered stays. *)
Forward ==
  /\ UNCHANGED workload
  /\ \A q \in Requests :
       /\ pc[q] \notin {"idle", "insertTeam"} => pc'[q] \notin {"idle", "insertTeam"}
       /\ pc[q] = "done" => pc'[q] = "done" /\ answer'[q] = answer[q]
       /\ pc'[q] = "done" \/ answer'[q] = answer[q]
       /\ pc'[q] \in InClaim =>
            \/ Selects(q)
            \/ pc[q] \in InClaim
                 /\ (workload.engine = "sqlite" /\ conn = q.id => conn' = q.id)
       /\ q.op = "claim" /\ answer'[q] = "ok" => answer[q] = "ok" \/ Joins(q)
       /\ pc'[q] \in {"lookup"} \cup InSetAdmin =>
            \/ pc[q] \in {"lookup"} \cup InSetAdmin
            \/ pc[q] = "isAdmin" /\ IsAdmin(checked[q], q.user) /\ Kept

LEMMA ForwardEnds ==
  ASSUME TypeInv, UNCHANGED workload, NEW r \in Requests, NEW s, pc[r] # "done", Answer(r, s),
         r.op = "claim" /\ s = "ok" => Joins(r),
         conn' = conn \/ (conn = r.id /\ conn' = NoRequest)
  PROVE  Forward
  <1>1. /\ pc'[r] = "done" /\ answer'[r] = s
        /\ \A q \in Requests \ {r} : pc'[q] = pc[q] /\ answer'[q] = answer[q]
    BY DEF TypeInv, TypeOK, Answer
  <1>2. \A q \in Requests \ {r} : q.id # r.id
    BY RequestsAssumption
  <1>3. ASSUME NEW q \in Requests \ {r}, conn = q.id PROVE conn' = q.id
    BY <1>2, <1>3
  <1> QED BY <1>1, <1>3 DEF Forward, InClaim, InSetAdmin

LEMMA ForwardGoes ==
  ASSUME TypeInv, UNCHANGED <<workload, answer>>, NEW r \in Requests, NEW from, NEW to,
         Goto(r, from, to), from # "done", to \notin {"idle", "insertTeam"} \/ from = "idle",
         to \in InClaim => Selects(r) \/ (from \in InClaim /\ conn' = conn),
         to \in {"lookup"} \cup InSetAdmin =>
           \/ from \in {"lookup"} \cup InSetAdmin
           \/ from = "isAdmin" /\ IsAdmin(checked[r], r.user) /\ Kept,
         conn' = conn \/ (workload.engine = "sqlite" => conn \in {NoRequest, r.id})
  PROVE  Forward
  <1>1. /\ pc[r] = from /\ pc'[r] = to /\ answer'[r] = answer[r]
        /\ \A q \in Requests \ {r} : pc'[q] = pc[q] /\ answer'[q] = answer[q]
    BY DEF TypeInv, TypeOK, Goto
  <1>2. \A q \in Requests \ {r} : q.id # r.id /\ q.id # NoRequest
    BY RequestsAssumption DEF NoRequest
  <1>3. ASSUME NEW q \in Requests \ {r}, workload.engine = "sqlite", conn = q.id
        PROVE  conn' = q.id
    BY <1>2, <1>3
  <1> QED BY <1>1, <1>3 DEF Forward, InClaim, InSetAdmin

LEMMA Steps ==
  ASSUME TypeInv, [Next]_vars
  PROVE  /\ Forward
         /\ \/ Kept
            \/ \E r \in Requests :
                 \/ Resolves(r) \/ Finds(r) \/ Selects(r) \/ Founds(r) \/ Owns(r)
                 \/ Deletes(r) \/ Issues(r) \/ Joins(r) \/ Promotes(r)
  <1> DEFINE Does(r) == \/ Resolves(r) \/ Finds(r) \/ Selects(r) \/ Founds(r) \/ Owns(r)
                        \/ Deletes(r) \/ Issues(r) \/ Joins(r) \/ Promotes(r)
             Goal == Forward /\ (Kept \/ \E r \in Requests : Does(r))
  <1> SUFFICES Goal
    OBVIOUS
  <1>0. UNCHANGED workload
    BY DEF Next, vars
  <1> USE DEF tables
  <1>a. ASSUME NEW r \in Requests, NEW from, from # "done", Refuse(r, from) PROVE Goal
    <2>1. Kept /\ pc[r] # "done"
      BY <1>a DEF Refuse, Kept
    <2>2. Forward
      BY <1>0, <1>a, <2>1, ForwardEnds DEF Refuse, Release
    <2> QED BY <2>1, <2>2
  <1>b. ASSUME NEW r \in Requests, NEW from, NEW to, Continue(r, from, to), from # "done",
               to \notin {"idle", "insertTeam"} \/ from = "idle", to \notin InClaim,
               to \in {"lookup"} \cup InSetAdmin =>
                 \/ from \in {"lookup"} \cup InSetAdmin
                 \/ from = "isAdmin" /\ IsAdmin(checked[r], r.user)
        PROVE  Goal
    <2>1. Kept
      BY <1>b DEF Continue, Kept
    <2>2. Forward
      BY <1>0, <1>b, <2>1, ForwardGoes DEF Continue
    <2> QED BY <2>1, <2>2
  <1>1. ASSUME NEW r \in Requests, Authenticate(r) PROVE Goal
    <2>1. FirstStatement(r) \notin InClaim \cup {"lookup"} \cup InSetAdmin
      BY DEF FirstStatement, InClaim, InSetAdmin
    <2> HIDE DEF Goal
    <2> QED BY <1>1, <1>a, <1>b, <2>1 DEF Authenticate
  <1>2. ASSUME NEW r \in Requests, Resolve(r) PROVE Goal
    <2>1. CASE /\ teams[r.name] # NoTeam
               /\ Goto(r, "resolve", "isAdmin")
               /\ checked' = [checked EXCEPT ![r] = teams[r.name]]
               /\ UNCHANGED <<tables, lock, conn, found, answer, faults>>
      <3>1. Forward
        BY <1>0, <2>1, ForwardGoes DEF InClaim, InSetAdmin
      <3>2. Resolves(r)
        BY <2>1 DEF Resolves, Goto
      <3> QED BY <3>1, <3>2
    <2> HIDE DEF Goal
    <2> QED BY <1>2, <1>a, <2>1 DEF Resolve
  <1>3. ASSUME NEW r \in Requests, CheckAdmin(r) PROVE Goal
    <2> HIDE DEF Goal
    <2> QED BY <1>3, <1>a, <1>b DEF CheckAdmin, InClaim
  <1>4. ASSUME NEW r \in Requests, Lookup(r) PROVE Goal
    <2>1. CASE /\ teams[r.name] # NoTeam
               /\ Goto(r, "lookup", NextStatement(r))
               /\ found' = [found EXCEPT ![r] = teams[r.name]]
               /\ UNCHANGED <<tables, lock, conn, checked, answer, faults>>
      <3>0. r.op \in Operations \ {"create", "claim"}
        BY <2>1, RequestFields DEF Goto, TypeInv, StageInv, Stage, ByName
      <3>a. NextStatement(r) \notin {"idle", "insertTeam"} \cup InClaim
        BY <3>0 DEF NextStatement, Operations, InClaim
      <3>1. Forward
        BY <1>0, <2>1, <3>a, ForwardGoes
      <3>2. Finds(r)
        BY <2>1 DEF Finds, Goto
      <3> QED BY <3>1, <3>2
    <2> HIDE DEF Goal
    <2> QED BY <1>4, <1>a, <2>1 DEF Lookup
  <1>5. ASSUME NEW r \in Requests, InsertTeam(r) PROVE Goal
    <2>1. CASE /\ teams[r.name] = NoTeam
               /\ Goto(r, "insertTeam", "addOwner")
               /\ teams' = [teams EXCEPT ![r.name] = r.id]
               /\ UNCHANGED <<role, tokens, expired, vaults, grants, active, lock, conn,
                              checked, found, answer, faults>>
      <3>1. Forward
        BY <1>0, <2>1, ForwardGoes DEF InClaim, InSetAdmin
      <3>2. pc'[r] = "addOwner"
        BY <2>1 DEF Goto, TypeInv, TypeOK
      <3>3. Founds(r)
        BY <2>1, <3>2 DEF Founds, Goto
      <3> QED BY <3>1, <3>3
    <2> HIDE DEF Goal
    <2> QED BY <1>5, <1>a, <2>1 DEF InsertTeam
  <1>c. ASSUME NEW r \in Requests, NEW s, Answer(r, s), pc[r] # "done", r.op # "claim" \/ s # "ok",
               conn' = conn \/ (conn = r.id /\ conn' = NoRequest)
        PROVE  Forward
    BY <1>0, <1>c, ForwardEnds
  <1>6. ASSUME NEW r \in Requests, AddOwner(r) PROVE Goal
    <2>1. Forward
      <3>1. r.op = "create"
        BY <1>6 DEF AddOwner, TypeInv, StageInv, Stage
      <3> QED BY <1>6, <1>c, <3>1 DEF AddOwner
    <2>2. Kept \/ Owns(r)
      BY <1>6 DEF AddOwner, Kept, Owns
    <2> QED BY <2>1, <2>2
  <1>7. ASSUME NEW r \in Requests, DeleteTeam(r) PROVE Goal
    <2>1. Forward
      <3>1. r.op = "delete"
        BY <1>7 DEF DeleteTeam, TypeInv, StageInv, Stage
      <3> QED BY <1>7, <1>c, <3>1 DEF DeleteTeam
    <2>2. Kept \/ Deletes(r)
      BY <1>7 DEF DeleteTeam, Kept, Deletes
    <2> QED BY <2>1, <2>2
  <1>8. ASSUME NEW r \in Requests, InsertToken(r) PROVE Goal
    <2>1. CASE /\ Live(found[r])
               /\ pc[r] = "insertToken"
               /\ Answer(r, "ok")
               /\ tokens' = [tokens EXCEPT ![r.id] = [team |-> found[r], used |-> FALSE]]
               /\ UNCHANGED <<teams, role, expired, vaults, grants, active, lock, conn,
                              checked, found, faults>>
      <3>1. r.op = "invite" /\ pc'[r] = "done"
        BY <2>1 DEF TypeInv, TypeOK, StageInv, Stage, Answer
      <3>2. Forward
        BY <2>1, <1>c, <3>1
      <3>3. Issues(r)
        BY <2>1, <3>1 DEF Issues
      <3> QED BY <3>2, <3>3
    <2> HIDE DEF Goal
    <2> QED BY <1>8, <1>a, <2>1 DEF InsertToken
  <1>9. ASSUME NEW r \in Requests, SelectToken(r) PROVE Goal
    <2>1. CASE /\ ConnFree(r)
               /\ Claimable(r)
               /\ Goto(r, "selectToken", "markUsed")
               /\ found' = [found EXCEPT ![r] = tokens[r.token].team]
               /\ conn' = IF workload.engine = "sqlite" THEN r.id ELSE conn
               /\ UNCHANGED <<tables, lock, checked, answer, faults>>
      <3>1. Selects(r)
        BY <2>1 DEF Selects, Goto
      <3>2. Forward
        BY <1>0, <2>1, <3>1, ForwardGoes DEF ConnFree, InClaim, InSetAdmin
      <3> QED BY <3>1, <3>2
    <2> HIDE DEF Goal
    <2> QED BY <1>9, <1>a, <2>1 DEF SelectToken
  <1>10. ASSUME NEW r \in Requests, MarkUsed(r) PROVE Goal
    <2>1. Kept
      BY <1>10 DEF MarkUsed, Kept
    <2>2. Forward
      BY <1>0, <1>10, ForwardGoes DEF MarkUsed, InClaim, InSetAdmin
    <2> QED BY <2>1, <2>2
  <1>11. ASSUME NEW r \in Requests, CommitClaim(r) PROVE Goal
    <2>1. CASE /\ Live(found[r])
               /\ pc[r] = "commit"
               /\ Answer(r, "ok")
               /\ Release(r)
               /\ tokens' = MarkInTx(r.token)
               /\ role' = Membership(r)
               /\ UNCHANGED <<teams, checked, found>>
      <3>1. Joins(r)
        BY <2>1 DEF Joins, Answer, TypeInv, TypeOK
      <3>2. Forward
        BY <1>0, <2>1, <3>1, ForwardEnds DEF Release
      <3> QED BY <3>1, <3>2
    <2> HIDE DEF Goal
    <2> QED BY <1>11, <1>a, <2>1 DEF CommitClaim
  <1>12. ASSUME NEW r \in Requests, TargetAdmin(r) \/ ListMembers(r) PROVE Goal
    <2> HIDE DEF Goal
    <2> QED BY <1>12, <1>a, <1>b DEF TargetAdmin, ListMembers, InClaim, InSetAdmin
  <1>13. ASSUME NEW r \in Requests, SetRole(r) PROVE Goal
    <2>1. r.op = "setAdmin"
      BY <1>13 DEF SetRole, TypeInv, StageInv, Stage, InSetAdmin
    <2>2. Forward
      BY <1>13, <1>c, <2>1 DEF SetRole
    <2>3. answer'[r] = "ok"
      BY <1>13 DEF SetRole, Answer, TypeInv, TypeOK
    <2>4. Kept \/ Promotes(r)
      BY <1>13, <2>3 DEF SetRole, Kept, Promotes
    <2> QED BY <2>2, <2>4
  <1>14. ASSUME NEW r \in Requests, InsertVault(r) PROVE Goal
    <2>1. CASE /\ Goto(r, "insertVault", "grantCreator")
               /\ UNCHANGED <<teams, role, tokens, conn, checked, found, answer>>
      <3>1. Forward
        BY <1>0, <2>1, ForwardGoes DEF InClaim, InSetAdmin
      <3> QED BY <2>1, <3>1 DEF Kept
    <2> HIDE DEF Goal
    <2> QED BY <1>14, <1>a, <2>1 DEF InsertVault
  <1>15. ASSUME NEW r \in Requests, GrantCreator(r) PROVE Goal
    <2>1. r.op = "createVault"
      BY <1>15 DEF GrantCreator, TypeInv, StageInv, Stage, InVault
    <2> QED BY <1>15, <1>c, <2>1 DEF GrantCreator, Kept
  <1>16. ASSUME NEW r \in Requests, Stop(r) PROVE Goal
    <2>1. pc[r] # "done" /\ (conn' = conn \/ (conn = r.id /\ conn' = NoRequest))
      BY <1>16 DEF Stop, Statements, Release
    <2>2. Kept
      BY <1>16 DEF Stop, Kept
    <2>3. Forward
      BY <1>16, <1>c, <2>1 DEF Stop
    <2> QED BY <2>2, <2>3
  <1>d. ASSUME UNCHANGED <<pc, answer, conn, teams, role, tokens, checked, found>> PROVE Goal
    BY <1>0, <1>d DEF Forward, Kept
  <1>17. ASSUME NEW i \in Ids, Expire(i) PROVE Goal
    BY <1>17, <1>d DEF Expire
  <1>18. CASE UNCHANGED vars
    BY <1>18, <1>d DEF vars
  <1> HIDE DEF Goal
  <1> QED
    BY <1>1, <1>2, <1>3, <1>4, <1>5, <1>6, <1>7, <1>8, <1>9, <1>10, <1>11, <1>12, <1>13,
       <1>14, <1>15, <1>16, <1>17, <1>18 DEF Next, Step, AllAnswered

(***************************************************************************)
(* Teams and what refers to them.                                          *)
(***************************************************************************)

LEMMA TeamsInit == Init => TeamsInv
  BY DEF Init, TeamsInv, Live

LEMMA TeamKept ==
  ASSUME Forward, NEW t, Team(t)
  PROVE  Team(t)'
  BY IdsOfRequests DEF Forward, Team

LEMMA TeamsStep ==
  ASSUME TypeInv, TeamsInv, [Next]_vars
  PROVE  TeamsInv'
  <1>0. Forward
    BY Steps
  <1>a. \A i \in Ids : pc[RequestOf(i)] = "done" => pc'[RequestOf(i)] = "done"
    BY <1>0, IdsOfRequests DEF Forward
  <1>b. \A t : Team(t) => Team(t)'
    BY <1>0, TeamKept
  <1>c. /\ teams \in [Names -> {NoTeam} \cup Ids]
        /\ role \in [Ids -> [Users -> {"none", "member", "admin"}]]
        /\ tokens \in [Ids -> Token]
        /\ checked \in [Requests -> {NoTeam} \cup Ids]
        /\ found \in [Requests -> {NoTeam} \cup Ids]
    BY DEF TypeInv, TypeOK
  <1>d. ASSUME UNCHANGED teams PROVE \A t : Live(t)' <=> Live(t)
    BY <1>d DEF Live
  <1>1. CASE Kept
    <2> USE <1>1 DEF Kept
    <2>1. \A t : Live(t)' <=> Live(t)
      BY <1>d
    <2> QED BY <1>a, <1>b, <2>1 DEF TeamsInv
  <1>2. ASSUME NEW r \in Requests, Resolves(r) PROVE TeamsInv'
    <2>1. \A t : Live(t)' <=> Live(t)
      BY <1>2, <1>d DEF Resolves
    <2>2. found[r] = NoTeam /\ r.name \in Names
      BY <1>2, RequestFields DEF Resolves, TypeInv, StageInv, Stage, ByName
    <2>3. Team(teams[r.name]) /\ RequestOf(teams[r.name]).name = r.name
      BY <1>2, <2>2 DEF Resolves, TeamsInv
    <2>4. checked'[r] = teams[r.name] /\ \A q \in Requests \ {r} : checked'[q] = checked[q]
      BY <1>2, <1>c DEF Resolves
    <2>5. UNCHANGED <<teams, role, tokens, found>>
      BY <1>2 DEF Resolves
    <2> QED BY <1>a, <1>b, <2>1, <2>2, <2>3, <2>4, <2>5 DEF TeamsInv
  <1>3. ASSUME NEW r \in Requests, Finds(r) PROVE TeamsInv'
    <2>1. \A t : Live(t)' <=> Live(t)
      BY <1>3, <1>d DEF Finds
    <2>2. r.op # "claim" /\ checked[r] # NoTeam /\ r.name \in Names
      BY <1>3, RequestFields DEF Finds, TypeInv, StageInv, Stage, ByName
    <2>3. Team(teams[r.name]) /\ RequestOf(teams[r.name]).name = r.name
      BY <1>3, <2>2 DEF Finds, TeamsInv
    <2>4. checked[r] = teams[r.name] \/ ~Live(checked[r])
      <3>1. ASSUME NEW n \in Names, teams[n] = checked[r] PROVE n = r.name
        BY <2>2, <3>1 DEF TeamsInv
      <3> QED BY <3>1 DEF Live
    <2>5. found'[r] = teams[r.name] /\ \A q \in Requests \ {r} : found'[q] = found[q]
      BY <1>3, <1>c DEF Finds
    <2>6. UNCHANGED <<teams, role, tokens, checked>>
      BY <1>3 DEF Finds
    <2> QED BY <1>a, <1>b, <2>1, <2>2, <2>3, <2>4, <2>5, <2>6 DEF TeamsInv
  <1>4. ASSUME NEW r \in Requests, Selects(r) PROVE TeamsInv'
    <2>1. \A t : Live(t)' <=> Live(t)
      BY <1>4, <1>d DEF Selects
    <2>2. r.op = "claim" /\ r.token \in Ids
      BY <1>4, RequestFields DEF Selects, TypeInv, StageInv, Stage
    <2>3. Team(tokens[r.token].team)
      <3>1. tokens[r.token] # NoToken
        BY <1>4 DEF Selects, Claimable, NoToken
      <3>2. Live(tokens[r.token].team)
        BY <2>2, <3>1 DEF TeamsInv
      <3> QED BY <3>2 DEF Live, TeamsInv
    <2>4. found'[r] = tokens[r.token].team /\ \A q \in Requests \ {r} : found'[q] = found[q]
      BY <1>4, <1>c DEF Selects
    <2>5. UNCHANGED <<teams, role, tokens, checked>>
      BY <1>4 DEF Selects
    <2> QED BY <1>a, <1>b, <2>1, <2>2, <2>3, <2>4, <2>5 DEF TeamsInv
  <1>5. ASSUME NEW r \in Requests, Founds(r) PROVE TeamsInv'
    <2>1. r.name \in Names /\ r.id \in Ids /\ RequestOf(r.id) = r /\ r.op = "create"
      BY <1>5, RequestFields DEF Founds, TypeInv, StageInv, Stage
    <2>2. teams'[r.name] = r.id /\ \A n \in Names \ {r.name} : teams'[n] = teams[n]
      BY <1>5, <1>c, <2>1 DEF Founds
    <2>3. Team(r.id)' /\ ~Team(r.id)
      BY <1>5, <2>1 DEF Founds, Team
    <2>4. \A t : Live(t) => Live(t)'
      BY <1>5, <2>2 DEF Founds, Live
    <2>5. \A t : Live(t)' => Live(t) \/ t = r.id
      BY <2>2 DEF Live
    <2>6. UNCHANGED <<role, tokens, checked, found>>
      BY <1>5 DEF Founds
    <2>7. \A q \in Requests : checked[q] # NoTeam => checked[q] # r.id
      BY <2>3 DEF TeamsInv
    <2>8. \A n \in Names : teams'[n] # NoTeam => Team(teams[n])' /\ RequestOf(teams'[n]).name = n
      BY <1>b, <2>1, <2>2, <2>3 DEF TeamsInv
    <2>9. \A q \in Requests : found'[q] # NoTeam =>
            /\ Team(found[q])'
            /\ q.op # "claim" =>
                 /\ RequestOf(found'[q]).name = q.name
                 /\ checked'[q] # NoTeam
                 /\ checked'[q] = found'[q] \/ ~Live(checked[q])'
      BY <1>b, <2>5, <2>6, <2>7 DEF TeamsInv
    <2> QED BY <1>a, <1>b, <2>4, <2>6, <2>8, <2>9 DEF TeamsInv
  <1>6. ASSUME NEW r \in Requests, Owns(r) PROVE TeamsInv'
    <2>1. \A t : Live(t)' <=> Live(t)
      BY <1>6, <1>d DEF Owns
    <2>2. r.id \in Ids /\ r.user \in Users
      BY RequestFields
    <2>3. \A t \in Ids : \A u \in Users : role'[t][u] # "none" => role[t][u] # "none" \/ t = r.id
      BY <1>6, <1>c, <2>2 DEF Owns
    <2>4. UNCHANGED <<teams, tokens, checked, found>> /\ Live(r.id)
      BY <1>6 DEF Owns
    <2> QED BY <1>a, <1>b, <2>1, <2>3, <2>4 DEF TeamsInv
  <1>7. ASSUME NEW r \in Requests, Deletes(r) PROVE TeamsInv'
    <2> DEFINE d == teams[r.name]
    <2>1. r.name \in Names
      BY RequestFields
    <2>a. d \in Ids /\ d # NoTeam
      BY <1>7, <1>c, <2>1 DEF Deletes
    <2>2. teams'[r.name] = NoTeam /\ \A n \in Names \ {r.name} : teams'[n] = teams[n]
      BY <1>7, <1>c, <2>1 DEF Deletes
    <2>3. \A t : Live(t)' => Live(t)
      BY <2>2 DEF Live
    <2>4. \A t : Live(t) /\ t # d => Live(t)'
      BY <2>2 DEF Live
    <2>5. /\ \A u \in Users : role'[d][u] = "none"
          /\ \A t \in Ids \ {d} : role'[t] = role[t]
      BY <1>7, <1>c, <2>a DEF Deletes, Cascade
    <2>6. \A i \in Ids : tokens'[i] = NoToken \/ (tokens'[i] = tokens[i] /\ tokens[i].team # d)
      BY <1>7 DEF Deletes, Cascade
    <2>7. UNCHANGED <<checked, found>>
      BY <1>7 DEF Deletes
    <2> HIDE DEF d
    <2>8. \A n \in Names : teams'[n] # NoTeam => Team(teams[n])' /\ RequestOf(teams'[n]).name = n
      BY <1>b, <2>2 DEF TeamsInv
    <2>9. \A t \in Ids : \A u \in Users : role'[t][u] # "none" => Live(t)'
      BY <2>4, <2>5 DEF TeamsInv
    <2>10. \A i \in Ids : tokens'[i] # NoToken =>
             /\ Live(tokens[i].team)'
             /\ RequestOf(i).op = "invite"
             /\ pc'[RequestOf(i)] = "done"
      BY <1>a, <2>4, <2>6 DEF TeamsInv
    <2>11. \A q \in Requests : checked'[q] # NoTeam =>
             Team(checked[q])' /\ RequestOf(checked'[q]).name = q.name
      BY <1>b, <2>7 DEF TeamsInv
    <2>12. \A q \in Requests : found'[q] # NoTeam =>
             /\ Team(found[q])'
             /\ q.op # "claim" =>
                  /\ RequestOf(found'[q]).name = q.name
                  /\ checked'[q] # NoTeam
                  /\ checked'[q] = found'[q] \/ ~Live(checked[q])'
      BY <1>b, <2>3, <2>7 DEF TeamsInv
    <2> QED BY <2>8, <2>9, <2>10, <2>11, <2>12 DEF TeamsInv
  <1>8. ASSUME NEW r \in Requests, Issues(r) PROVE TeamsInv'
    <2>1. \A t : Live(t)' <=> Live(t)
      BY <1>8, <1>d DEF Issues
    <2>2. r.id \in Ids /\ RequestOf(r.id) = r /\ r.op = "invite"
      BY <1>8, RequestFields DEF Issues, TypeInv, StageInv, Stage
    <2> DEFINE new == [team |-> found[r], used |-> FALSE]
    <2>3. new.team = found[r]
      OBVIOUS
    <2>4. tokens'[r.id] = new /\ \A i \in Ids \ {r.id} : tokens'[i] = tokens[i]
      BY <1>8, <1>c, <2>2 DEF Issues
    <2>5. UNCHANGED <<teams, role, checked, found>> /\ pc'[r] = "done" /\ Live(found[r])
      BY <1>8 DEF Issues
    <2> HIDE DEF new
    <2>6. \A i \in Ids : tokens'[i] # NoToken =>
            /\ Live(tokens[i].team)'
            /\ RequestOf(i).op = "invite"
            /\ pc'[RequestOf(i)] = "done"
      BY <1>a, <2>1, <2>2, <2>3, <2>4, <2>5 DEF TeamsInv
    <2> QED BY <1>b, <2>1, <2>5, <2>6 DEF TeamsInv
  <1>9. ASSUME NEW r \in Requests, Joins(r) PROVE TeamsInv'
    <2>1. \A t : Live(t)' <=> Live(t)
      BY <1>9, <1>d DEF Joins
    <2>2. r.user \in Users /\ r.token \in Ids
      BY RequestFields
    <2>3. \A i \in Ids :
             tokens'[i] # NoToken => tokens[i] # NoToken /\ tokens'[i].team = tokens[i].team
      BY <1>9, <1>c, <2>2 DEF Joins, MarkInTx, Token
    <2>4. UNCHANGED <<teams, checked, found>> /\ Live(found[r]) /\ role' = Membership(r)
      BY <1>9 DEF Joins
    <2>5. \A t \in Ids : \A u \in Users :
             role'[t][u] # "none" => role[t][u] # "none" \/ t = found[r]
      BY <1>c, <2>2, <2>4 DEF Membership
    <2> QED BY <1>a, <1>b, <2>1, <2>3, <2>4, <2>5 DEF TeamsInv
  <1>10. ASSUME NEW r \in Requests, Promotes(r) PROVE TeamsInv'
    <2>1. \A t : Live(t)' <=> Live(t)
      BY <1>10, <1>d DEF Promotes
    <2>2. r.target \in Users
      BY RequestFields
    <2>3. \A t \in Ids : \A u \in Users : role'[t][u] # "none" => role[t][u] # "none"
      BY <1>10, <1>c, <2>2 DEF Promotes
    <2>4. UNCHANGED <<teams, tokens, checked, found>>
      BY <1>10 DEF Promotes
    <2> QED BY <1>a, <1>b, <2>1, <2>3, <2>4 DEF TeamsInv
  <1> QED BY Steps, <1>1, <1>2, <1>3, <1>4, <1>5, <1>6, <1>7, <1>8, <1>9, <1>10

(***************************************************************************)
(* How single rows change.                                                 *)
(***************************************************************************)

(* A team that is gone does not come back. *)
LEMMA LiveBack ==
  ASSUME TypeInv, TeamsInv, [Next]_vars, NEW t, Team(t), Live(t)'
  PROVE  Live(t)
  <1>1. ASSUME NEW r \in Requests, Founds(r) PROVE Live(t)
    <2>1. r.name \in Names /\ RequestOf(r.id) = r
      BY RequestFields
    <2>2. t # r.id
      BY <1>1, <2>1 DEF Founds, Team
    <2>3. \A n \in Names : teams'[n] = teams[n] \/ teams'[n] = r.id
      BY <1>1, <2>1 DEF Founds, TypeInv, TypeOK
    <2> QED BY <2>2, <2>3 DEF Live
  <1>2. ASSUME NEW r \in Requests, Deletes(r) PROVE Live(t)
    <2>1. \A n \in Names : teams'[n] = teams[n] \/ teams'[n] = NoTeam
      BY <1>2 DEF Deletes, TypeInv, TypeOK
    <2> QED BY <2>1 DEF Live
  <1>3. CASE UNCHANGED teams
    BY <1>3 DEF Live
  <1> QED
    BY Steps, <1>1, <1>2, <1>3
       DEF Kept, Resolves, Finds, Selects, Owns, Issues, Joins, Promotes

(* A deleted team is gone under every name. *)
LEMMA DeletedGone ==
  ASSUME TypeInv, TeamsInv, NEW r \in Requests, Deletes(r), NEW t, t = teams[r.name]
  PROVE  ~Live(t)'
  <1>1. r.name \in Names
    BY RequestFields
  <1>2. ASSUME NEW n \in Names, teams[n] = t PROVE n = r.name
    BY <1>1, <1>2 DEF Deletes, TeamsInv
  <1>3. teams'[r.name] = NoTeam /\ \A n \in Names \ {r.name} : teams'[n] = teams[n]
    BY <1>1 DEF Deletes, TypeInv, TypeOK
  <1>4. ~ \E n \in Names : t # NoTeam /\ teams'[n] = t
    BY <1>2, <1>3
  <1> QED BY <1>4 DEF Live

(* A token goes with its team, is marked by the claim that commits, and is
   inserted by its own request. *)
LEMMA TokenSteps ==
  ASSUME TypeInv, TeamsInv, [Next]_vars, NEW i \in Ids, NEW t, t = tokens[i].team
  PROVE  \/ tokens'[i] = tokens[i]
         \/ tokens'[i] = NoToken /\ tokens[i] # NoToken /\ ~Live(t)'
         \/ /\ tokens[i] # NoToken /\ tokens'[i].used /\ tokens'[i].team = t
            /\ \E r \in Requests : Joins(r) /\ r.token = i
         \/ /\ tokens[i] = NoToken /\ pc[RequestOf(i)] = "insertToken"
            /\ ~tokens'[i].used
  <1>0. tokens \in [Ids -> Token]
    BY DEF TypeInv, TypeOK
  <1>1. ASSUME NEW r \in Requests, Deletes(r)
        PROVE  \/ tokens'[i] = tokens[i]
               \/ tokens'[i] = NoToken /\ tokens[i] # NoToken /\ ~Live(t)'
    <2>1. tokens'[i] = IF t = teams[r.name] THEN NoToken ELSE tokens[i]
      BY <1>1 DEF Deletes, Cascade
    <2>2. CASE t = teams[r.name]
      <3>a. t # NoTeam /\ NoToken.team = NoTeam
        BY <1>1, <2>2 DEF Deletes, NoToken
      <3>1. tokens[i] # NoToken
        BY <3>a
      <3>2. tokens'[i] = NoToken
        BY <2>1, <2>2
      <3>3. ~Live(t)'
        BY <1>1, <2>2, DeletedGone
      <3> QED BY <3>1, <3>2, <3>3
    <2> QED BY <2>1, <2>2
  <1>2. ASSUME NEW r \in Requests, Issues(r)
        PROVE  \/ tokens'[i] = tokens[i]
               \/ tokens[i] = NoToken /\ pc[RequestOf(i)] = "insertToken" /\ ~tokens'[i].used
    <2>1. r.id \in Ids /\ RequestOf(r.id) = r
      BY RequestFields
    <2>2. CASE i = r.id
      <3>1. tokens[i] = NoToken
        BY <1>2, <2>1, <2>2 DEF Issues, TeamsInv
      <3>2. tokens'[i] = [team |-> found[r], used |-> FALSE]
        BY <1>0, <1>2, <2>2 DEF Issues
      <3>3. ~tokens'[i].used
        BY <3>2
      <3> QED BY <1>2, <2>1, <2>2, <3>1, <3>3 DEF Issues
    <2>3. CASE i # r.id
      BY <1>0, <1>2, <2>3 DEF Issues
    <2> QED BY <2>2, <2>3
  <1>3. ASSUME NEW r \in Requests, Joins(r)
        PROVE  \/ tokens'[i] = tokens[i]
               \/ /\ tokens[i] # NoToken /\ tokens'[i].used /\ tokens'[i].team = t
                  /\ r.token = i
    BY <1>0, <1>3 DEF Joins, MarkInTx, Token
  <1>4. CASE UNCHANGED tokens
    BY <1>4
  <1> QED
    BY Steps, <1>1, <1>2, <1>3, <1>4
       DEF Kept, Resolves, Finds, Selects, Founds, Owns, Promotes

(* A role goes with its team, and comes from creating the team, from a claim or
   from an admin. *)
LEMMA RoleSteps ==
  ASSUME TypeInv, TeamsInv, [Next]_vars, NEW t \in Ids, NEW u \in Users
  PROVE  \/ role'[t][u] = role[t][u]
         \/ role'[t][u] = "none" /\ ~Live(t)'
         \/ role'[t][u] = "admin" /\ u = Creator(t)
         \/ /\ role'[t][u] = "member"
            /\ \E r \in Requests : Joins(r) /\ t = found[r] /\ u = r.user
         \/ /\ role'[t][u] = "admin" /\ role[t][u] # "none"
            /\ \E r \in Requests : Promotes(r) /\ t = found[r] /\ u = r.target
  <1>0. role \in [Ids -> [Users -> {"none", "member", "admin"}]]
    BY DEF TypeInv, TypeOK
  <1>1. ASSUME NEW r \in Requests, Deletes(r)
        PROVE  role'[t][u] = role[t][u] \/ (role'[t][u] = "none" /\ ~Live(t)')
    <2>1. CASE t = teams[r.name]
      <3>1. role'[t][u] = "none"
        BY <1>0, <1>1, <2>1 DEF Deletes, Cascade
      <3> QED BY <1>1, <2>1, <3>1, DeletedGone
    <2>2. CASE t # teams[r.name]
      BY <1>0, <1>1, <2>2 DEF Deletes, Cascade
    <2> QED BY <2>1, <2>2
  <1>2. ASSUME NEW r \in Requests, Owns(r)
        PROVE  role'[t][u] = role[t][u] \/ (role'[t][u] = "admin" /\ u = Creator(t))
    <2>1. RequestOf(r.id) = r
      BY RequestFields
    <2> QED BY <1>0, <1>2, <2>1 DEF Owns, Creator
  <1>3. ASSUME NEW r \in Requests, Joins(r)
        PROVE  \/ role'[t][u] = role[t][u]
               \/ role'[t][u] = "member" /\ t = found[r] /\ u = r.user
    BY <1>0, <1>3 DEF Joins, Membership
  <1>4. ASSUME NEW r \in Requests, Promotes(r)
        PROVE  \/ role'[t][u] = role[t][u]
               \/ /\ role'[t][u] = "admin" /\ role[t][u] # "none"
                  /\ t = found[r] /\ u = r.target
    BY <1>0, <1>4 DEF Promotes
  <1>5. CASE UNCHANGED role
    BY <1>5
  <1> QED
    BY Steps, <1>1, <1>2, <1>3, <1>4, <1>5
       DEF Kept, Resolves, Finds, Selects, Founds, Issues

(* What a request looked up stays. *)
LEMMA LookedUp ==
  ASSUME TypeInv, [Next]_vars, NEW r \in Requests
  PROVE  /\ pc[r] # "resolve" => checked'[r] = checked[r]
         /\ pc[r] \notin {"lookup", "selectToken"} => found'[r] = found[r]
  <1>1. ASSUME NEW q \in Requests, Resolves(q)
        PROVE  UNCHANGED found /\ (pc[r] # "resolve" => checked'[r] = checked[r])
    BY <1>1 DEF Resolves, TypeInv, TypeOK
  <1>2. ASSUME NEW q \in Requests, Finds(q)
        PROVE  UNCHANGED checked /\ (pc[r] # "lookup" => found'[r] = found[r])
    BY <1>2 DEF Finds, TypeInv, TypeOK
  <1>3. ASSUME NEW q \in Requests, Selects(q)
        PROVE  UNCHANGED checked /\ (pc[r] # "selectToken" => found'[r] = found[r])
    BY <1>3 DEF Selects, TypeInv, TypeOK
  <1>4. CASE UNCHANGED <<checked, found>>
    BY <1>4
  <1> QED
    BY Steps, <1>1, <1>2, <1>3, <1>4
       DEF Kept, Founds, Owns, Deletes, Issues, Joins, Promotes

LEMMA PromotedKept ==
  ASSUME TypeInv, [Next]_vars, NEW q \in Requests, NEW t, NEW u, Promoted(q, t, u)
  PROVE  Promoted(q, t, u)' /\ pc[q] = "done"
  <1>1. pc[q] = "done"
    BY DEF Promoted, TypeInv, StageInv, Stage
  <1>2. found'[q] = found[q] /\ answer'[q] = answer[q]
    BY <1>1, LookedUp, Steps DEF Forward
  <1> QED BY <1>1, <1>2 DEF Promoted

LEMMA EntitledKept ==
  ASSUME TypeInv, [Next]_vars, NEW r \in Requests, pc[r] # "resolve", Entitled(r)
  PROVE  Entitled(r)'
  <1>1. checked'[r] = checked[r]
    BY LookedUp
  <1>2. ASSUME NEW q \in Requests, Promoted(q, checked[r], r.user)
        PROVE  /\ q.op = "setAdmin" /\ q.target = r.user
               /\ found'[q] = checked'[r] /\ answer'[q] # "none"
    <2>1. \A t : t = checked[r] => Promoted(q, t, r.user)'
      BY <1>2, PromotedKept
    <2> QED BY <1>1, <2>1 DEF Promoted
  <1> QED BY <1>1, <1>2 DEF Entitled, Promoted, Creator


(***************************************************************************)
(* The claims under way.                                                   *)
(***************************************************************************)

LEMMA SpentKept ==
  ASSUME TypeInv, TeamsInv, [Next]_vars, NEW i \in Ids, Spent(i)
  PROVE  Spent(i)'
  <1>1. NoToken.used = FALSE
    BY DEF NoToken
  <1>2. RequestOf(i) \in Requests
    BY IdsOfRequests
  <1>3. tokens[i] # NoToken => pc[RequestOf(i)] = "done"
    BY DEF TeamsInv
  <1>4. pc[RequestOf(i)] = "done"
    BY <1>1, <1>3 DEF Spent
  <1>5. pc'[RequestOf(i)] = "done"
    BY <1>2, <1>4, Steps DEF Forward
  <1>6. tokens'[i] = tokens[i] \/ tokens'[i] = NoToken \/ tokens'[i].used
    BY <1>4, TokenSteps
  <1> QED BY <1>5, <1>6 DEF Spent

(* The token of an open claim whose team is still there is there too. *)
LEMMA ClaimedToken ==
  ASSUME TypeInv, ClaimInv, NEW r \in Requests, pc[r] \in InClaim, Live(found[r])
  PROVE  tokens[r.token] # NoToken /\ tokens[r.token].team = found[r]
  <1>1. tokens[r.token].team = found[r] /\ found[r] # NoTeam
    BY DEF ClaimInv, TypeInv, StageInv, Stage
  <1>2. NoToken.team = NoTeam
    BY DEF NoToken
  <1> QED BY <1>1, <1>2

(* Two claims that commit under SQLite are one: there is one connection. *)
LEMMA OneConnection ==
  ASSUME ClaimInv, NEW r \in Requests, NEW q \in Requests, workload.engine = "sqlite",
         pc[r] \in InClaim, pc[q] \in InClaim
  PROVE  r = q
  BY RequestsAssumption DEF ClaimInv

LEMMA ClaimStep ==
  ASSUME TypeInv, TeamsInv, ClaimInv, [Next]_vars
  PROVE  ClaimInv'
  <1>0. Forward
    BY Steps
  <1>a. UNCHANGED workload
    BY <1>0 DEF Forward
  <1>b. \A q \in Requests : Joins(q) => pc[q] \in InClaim /\ pc'[q] \notin InClaim
    BY DEF Joins, InClaim
  <1>1. ASSUME NEW r \in Requests, pc'[r] \in InClaim
        PROVE  /\ RequestOf(r.token).target = r.user
               /\ Live(found[r])' => tokens'[r.token].team = found'[r]
               /\ workload.engine = "sqlite" =>
                    /\ conn' = r.id
                    /\ \A q \in Requests :
                         q.op = "claim" /\ q.token = r.token => answer'[q] # "ok"
    <2>1. CASE Selects(r)
      <3>1. RequestOf(r.token).target = r.user /\ tokens[r.token] # NoToken
              /\ ~tokens[r.token].used
        BY <2>1 DEF Selects, Claimable, NoToken
      <3>2. found'[r] = tokens[r.token].team /\ tokens' = tokens /\ answer' = answer
        BY <2>1 DEF Selects, TypeInv, TypeOK
      <3>3. ~Spent(r.token)
        BY <3>1 DEF Spent
      <3>4. \A q \in Requests : q.op = "claim" /\ q.token = r.token => answer[q] # "ok"
        BY <3>3 DEF ClaimInv
      <3> QED BY <2>1, <3>1, <3>2, <3>4 DEF Selects
    <2>2. CASE pc[r] \in InClaim /\ (workload.engine = "sqlite" /\ conn = r.id => conn' = r.id)
      <3>1. found'[r] = found[r] /\ found[r] # NoTeam /\ r.token \in Ids
        BY <2>2, LookedUp, RequestFields DEF InClaim, TypeInv, StageInv, Stage
      <3>2. ASSUME Live(found[r])' PROVE tokens'[r.token].team = found'[r]
        <4>1. \A t : t = found[r] => Team(t) /\ Live(t)'
          BY <3>1, <3>2 DEF TeamsInv, Live
        <4>2. Live(found[r])
          BY <4>1, LiveBack
        <4>3. tokens[r.token] # NoToken /\ tokens[r.token].team = found[r]
          BY <2>2, <4>2, ClaimedToken
        <4>4. tokens'[r.token] = tokens[r.token] \/ tokens'[r.token].team = found[r]
          BY <3>1, <4>1, <4>3, TokenSteps
        <4> QED BY <3>1, <4>3, <4>4
      <3>3. ASSUME workload.engine = "sqlite", NEW q \in Requests, q.op = "claim",
                   q.token = r.token, answer'[q] = "ok"
            PROVE  FALSE
        <4>1. answer[q] # "ok"
          BY <2>2, <3>3 DEF ClaimInv
        <4>2. Joins(q)
          BY <1>0, <3>3, <4>1 DEF Forward
        <4>3. q = r
          BY <1>b, <2>2, <3>3, <4>2, OneConnection
        <4> QED BY <1>1, <1>b, <4>2, <4>3
      <3>4. workload.engine = "sqlite" => conn' = r.id
        BY <2>2 DEF ClaimInv
      <3> QED BY <2>2, <3>2, <3>3, <3>4 DEF ClaimInv
    <2> QED BY <1>0, <1>1, <2>1, <2>2 DEF Forward
  <1>2. ASSUME NEW r \in Requests, r.op = "claim", answer'[r] = "ok" PROVE Spent(r.token)'
    <2>1. r.token \in Ids
      BY RequestFields
    <2>2. CASE answer[r] = "ok"
      BY <1>2, <2>1, <2>2, SpentKept DEF ClaimInv
    <2>3. CASE Joins(r)
      <3>1. tokens[r.token] # NoToken
        BY <1>b, <2>3, ClaimedToken DEF Joins
      <3>2. tokens'[r.token].used
        BY <2>1, <2>3, <3>1 DEF Joins, MarkInTx, TypeInv, TypeOK, Token
      <3> QED BY <3>2 DEF Spent
    <2> QED BY <1>0, <1>2, <2>2, <2>3 DEF Forward
  <1> QED BY <1>a, <1>1, <1>2 DEF ClaimInv

(***************************************************************************)
(* Admins.                                                                 *)
(***************************************************************************)

LEMMA EntitledStep ==
  ASSUME TypeInv, TeamsInv, EntitledInv, AdminsAppointed, [Next]_vars
  PROVE  EntitledInv'
  <1> SUFFICES ASSUME NEW r \in Requests, pc'[r] \in {"lookup"} \cup InSetAdmin,
                      r.op = "setAdmin"
               PROVE  Entitled(r)'
    BY DEF EntitledInv
  <1>1. CASE pc[r] \in {"lookup"} \cup InSetAdmin
    <2>1. Entitled(r) /\ pc[r] # "resolve"
      BY <1>1 DEF EntitledInv, InSetAdmin
    <2> QED BY <2>1, EntitledKept
  <1>2. CASE pc[r] = "isAdmin" /\ IsAdmin(checked[r], r.user)
    <2>1. checked[r] \in Ids /\ r.user \in Users /\ answer[r] = "none"
      BY <1>2, RequestFields DEF TypeInv, TypeOK, StageInv, Stage
    <2>2. \/ r.user = Creator(checked[r])
          \/ \E q \in Requests : Promoted(q, checked[r], r.user)
      BY <1>2, <2>1 DEF AdminsAppointed, IsAdmin
    <2>3. ASSUME NEW q \in Requests, Promoted(q, checked[r], r.user) PROVE q # r
      BY <2>1, <2>3 DEF Promoted
    <2>4. Entitled(r)
      BY <2>2, <2>3 DEF Entitled
    <2> QED BY <1>2, <2>4, EntitledKept
  <1> QED BY <1>1, <1>2, Steps DEF Forward

LEMMA AdminsStep ==
  ASSUME TypeInv, TeamsInv, EntitledInv, AdminsAppointed, [Next]_vars
  PROVE  AdminsAppointed'
  <1> SUFFICES ASSUME NEW t \in Ids, NEW u \in Users, role'[t][u] = "admin", u # Creator(t)
               PROVE  \E r \in Requests :
                        /\ Promoted(r, t, u)' /\ Entitled(r)'
                        /\ checked'[r] = t \/ ~Live(checked[r])'
    BY DEF AdminsAppointed, Creator
  <1>0. ASSUME NEW r \in Requests, checked[r] # NoTeam, pc[r] # "resolve",
               checked[r] = t \/ ~Live(checked[r])
        PROVE  checked'[r] = t \/ ~Live(checked[r])'
    <2>1. checked'[r] = checked[r]
      BY <1>0, LookedUp
    <2>2. ASSUME NEW c, c = checked[r], ~Live(c) PROVE ~Live(c)'
      BY <1>0, <2>2, LiveBack DEF TeamsInv
    <2>3. ASSUME NEW c, c = checked'[r], ~Live(c)' PROVE ~Live(checked[r])'
      BY <2>3 DEF Live
    <2> QED BY <1>0, <2>1, <2>2, <2>3
  <1>1. CASE role[t][u] = "admin"
    <2>1. PICK r \in Requests :
            Promoted(r, t, u) /\ Entitled(r) /\ (checked[r] = t \/ ~Live(checked[r]))
      BY <1>1 DEF AdminsAppointed
    <2>2. Promoted(r, t, u)' /\ pc[r] # "resolve"
      BY <2>1, PromotedKept
    <2>3. Entitled(r)'
      BY <2>1, <2>2, EntitledKept
    <2>4. found[r] = t /\ r.op = "setAdmin" /\ t # NoTeam
      BY <2>1, IdsOfRequests DEF Promoted
    <2>5. checked[r] # NoTeam
      BY <2>4 DEF TeamsInv
    <2> QED BY <1>0, <2>1, <2>2, <2>3, <2>5
  <1>2. ASSUME NEW r \in Requests, Promotes(r), t = found[r], u = r.target
        PROVE  /\ Promoted(r, t, u)' /\ Entitled(r)'
               /\ checked'[r] = t \/ ~Live(checked[r])'
    <2>1. r.op = "setAdmin" /\ pc[r] = "setRole" /\ found[r] # NoTeam /\ answer'[r] = "ok"
      BY <1>2 DEF Promotes, InSetAdmin, Acting, TypeInv, StageInv, Stage
    <2>2. Entitled(r)'
      BY <2>1, EntitledKept DEF EntitledInv, InSetAdmin
    <2>3. found'[r] = t
      BY <1>2, <2>1, LookedUp
    <2>4. checked[r] # NoTeam /\ (checked[r] = t \/ ~Live(checked[r]))
      BY <1>2, <2>1 DEF TeamsInv
    <2> QED BY <1>0, <1>2, <2>1, <2>2, <2>3, <2>4 DEF Promoted
  <1> QED BY <1>1, <1>2, RoleSteps

(***************************************************************************)
(* Members and tokens.                                                     *)
(***************************************************************************)

LEMMA MembersStep ==
  ASSUME TypeInv, TeamsInv, ClaimInv, MembersInvited, [Next]_vars
  PROVE  MembersInvited'
  <1> SUFFICES ASSUME NEW t \in Ids, NEW u \in Users, role'[t][u] # "none", u # Creator(t)
               PROVE  \E i \in Ids : /\ tokens'[i].team = t /\ tokens'[i].used
                                     /\ RequestOf(i).target = u
    BY DEF MembersInvited, Creator
  <1>0. Live(t)' /\ t # NoTeam
    BY TeamsStep, IdsOfRequests DEF TeamsInv
  <1>1. CASE role[t][u] # "none"
    <2>1. PICK i \in Ids : tokens[i].team = t /\ tokens[i].used /\ RequestOf(i).target = u
      BY <1>1 DEF MembersInvited
    <2>2. tokens[i] # NoToken
      <3>1. NoToken.team = NoTeam
        BY DEF NoToken
      <3> QED BY <1>0, <2>1, <3>1
    <2>3. tokens'[i] = tokens[i] \/ (tokens'[i].used /\ tokens'[i].team = t)
      BY <1>0, <2>1, <2>2, TokenSteps
    <2> QED BY <2>1, <2>3
  <1>2. ASSUME NEW r \in Requests, Joins(r), t = found[r], u = r.user
        PROVE  /\ r.token \in Ids /\ tokens'[r.token].team = t /\ tokens'[r.token].used
               /\ RequestOf(r.token).target = u
    <2>1. pc[r] \in InClaim /\ Live(found[r]) /\ tokens' = MarkInTx(r.token)
      BY <1>2 DEF Joins, InClaim
    <2>2. tokens[r.token] # NoToken /\ tokens[r.token].team = t
      BY <1>2, <2>1, ClaimedToken
    <2>3. r.token \in Ids /\ RequestOf(r.token).target = u
      BY <1>2, <2>1, RequestFields DEF ClaimInv
    <2>4. tokens'[r.token].team = t /\ tokens'[r.token].used
      BY <2>1, <2>2, <2>3 DEF MarkInTx, TypeInv, TypeOK, Token
    <2> QED BY <2>3, <2>4
  <1> QED BY <1>1, <1>2, RoleSteps

LEMMA SpentTokenStep ==
  ASSUME TypeInv, TeamsInv, ClaimInv, SpentTokenJoined, [Next]_vars
  PROVE  SpentTokenJoined'
  <1> SUFFICES ASSUME NEW i \in Ids, tokens'[i].used, NEW t, t = tokens'[i].team,
                      NEW u, u = RequestOf(i).target
               PROVE  role'[t][u] # "none"
    BY DEF SpentTokenJoined
  <1>0. NoToken.used = FALSE /\ RequestOf(i) \in Requests
    BY IdsOfRequests DEF NoToken
  <1>1. Live(t)'
    <2>1. Live(tokens[i].team)'
      BY <1>0, TeamsStep DEF TeamsInv
    <2> QED BY <2>1 DEF Live
  <1>2. t \in Ids /\ u \in Users /\ t # NoTeam
    <2>1. TypeOK'
      BY TypeStep DEF TypeInv
    <2>2. t # NoTeam
      BY <1>1 DEF Live
    <2> QED BY <1>0, <2>1, <2>2, RequestFields DEF TypeOK, Token
  <1>3. CASE tokens'[i] = tokens[i]
    <2>1. role[t][u] # "none"
      BY <1>3 DEF SpentTokenJoined
    <2> QED BY <1>1, <1>2, <2>1, RoleSteps
  <1>4. ASSUME NEW r \in Requests, Joins(r), r.token = i, tokens'[i].team = tokens[i].team
        PROVE  role'[t][u] # "none"
    <2>1. pc[r] \in InClaim /\ Live(found[r]) /\ role' = Membership(r)
      BY <1>4 DEF Joins, InClaim
    <2>2. found[r] = t /\ r.user = u
      BY <1>4, <2>1, ClaimedToken DEF ClaimInv
    <2>3. role'[t][u] = "member"
      BY <1>2, <2>1, <2>2 DEF Membership, TypeInv, TypeOK
    <2> QED BY <2>3
  <1> QED BY <1>0, <1>3, <1>4, TokenSteps

LEMMA OnceStep ==
  ASSUME TypeInv, ClaimInv, TokenUsedOnce, [Next]_vars
  PROVE  TokenUsedOnce'
  <1>0. Forward
    BY Steps
  <1>1. \A q \in Requests : Joins(q) => pc[q] \in InClaim
    BY DEF Joins, InClaim
  <1> SUFFICES ASSUME workload.engine = "sqlite", NEW r \in Requests, NEW q \in Requests,
                      r.op = "claim", q.op = "claim", r.token = q.token,
                      answer'[r] = "ok", answer'[q] = "ok"
               PROVE  r = q
    BY <1>0 DEF TokenUsedOnce, Forward
  <1>2. (answer[r] = "ok" \/ Joins(r)) /\ (answer[q] = "ok" \/ Joins(q))
    BY <1>0 DEF Forward
  <1>3. CASE answer[r] = "ok" /\ answer[q] = "ok"
    BY <1>3 DEF TokenUsedOnce
  <1>4. CASE Joins(r) /\ Joins(q)
    BY <1>1, <1>4, OneConnection
  <1>5. CASE (Joins(r) /\ answer[q] = "ok") \/ (Joins(q) /\ answer[r] = "ok")
    BY <1>1, <1>5 DEF ClaimInv
  <1> QED BY <1>2, <1>3, <1>4, <1>5

(***************************************************************************)
(* The invariant and what follows from it.                                 *)
(***************************************************************************)

LEMMA InvInit == Init => IInv
  <1> SUFFICES ASSUME Init PROVE IInv
    OBVIOUS
  <1>1. /\ \A t \in Ids : \A u \in Users : role[t][u] = "none"
        /\ \A i \in Ids : ~tokens[i].used
        /\ \A r \in Requests : pc[r] \in {"idle", "done"} /\ answer[r] = "none"
    BY DEF Init, NoToken
  <1>2. \A i \in Ids : tokens[i].team \notin Ids
    BY IdsOfRequests DEF Init, NoToken
  <1>3. ClaimInv /\ EntitledInv
    BY <1>1 DEF ClaimInv, EntitledInv, InClaim, InSetAdmin
  <1>4. MembersInvited /\ AdminsAppointed /\ SpentTokenJoined /\ TokenUsedOnce
    BY <1>1 DEF MembersInvited, AdminsAppointed, SpentTokenJoined, TokenUsedOnce
  <1> QED BY <1>3, <1>4, TypeInit, TeamsInit DEF IInv

LEMMA InvStep == IInv /\ [Next]_vars => IInv'
  BY TypeStep, TeamsStep, ClaimStep, EntitledStep, MembersStep, AdminsStep, SpentTokenStep,
     OnceStep
     DEF IInv

(* IInv is inductive. *)
THEOREM Inductive == Spec => []IInv
  <1>1. Init => IInv
    BY InvInit
  <1>2. IInv /\ [Next]_vars => IInv'
    BY InvStep
  <1> QED BY <1>1, <1>2, PTL DEF Spec


(* The types, for any requests, users and devices. *)
THEOREM TypeCorrect == Spec => []TypeOK
  <1>1. IInv => TypeOK
    BY DEF IInv, TypeInv
  <1> QED BY Inductive, <1>1, PTL

(* Whoever is a member of a team created it or was invited into that very team:
   ClaimInviteToken writes the membership of the team its SELECT read, and the
   token it marks cannot have become another team's in between. *)
THEOREM OnlyInvitedMembers == Spec => []MembersInvited
  <1>1. IInv => MembersInvited
    BY DEF IInv
  <1> QED BY Inductive, <1>1, PTL

(* Whoever is an admin was appointed by somebody teamAdminAuthed found to be an
   admin of the team, or of a deleted one of the same name. *)
THEOREM OnlyAppointedAdmins == Spec => []AdminsAppointed
  <1>1. IInv => AdminsAppointed
    BY DEF IInv
  <1> QED BY Inductive, <1>1, PTL

(* A token is spent together with the membership it stands for: the two writes
   of ClaimInviteToken commit together, and members leave only with their team. *)
THEOREM SpentTokensJoined == Spec => []SpentTokenJoined
  <1>1. IInv => SpentTokenJoined
    BY DEF IInv
  <1> QED BY Inductive, <1>1, PTL

(* One connection to SQLite makes the SELECT and the UPDATE of a claim one step:
   no token is accepted twice. *)
THEOREM TokensUsedOnce == Spec => []TokenUsedOnce
  <1>1. IInv => TokenUsedOnce
    BY DEF IInv
  <1> QED BY Inductive, <1>1, PTL
===============================================================================
