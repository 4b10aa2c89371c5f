------------------------------ MODULE Onboarding -------------------------------
(***************************************************************************)
(* How a machine becomes a registered device: the files a client keeps     *)
(* (keystore, agent session, config), the commands that write them (init,  *)
(* register, recover, unlock, lock, the first-run wizard) and the server's *)
(* accounts (handleRegister, handleLinkDevice, the activation in           *)
(* ClaimInviteToken).  handleRegister is a chain of SQL statements, one    *)
(* action each; an answer may be lost after any of them.                   *)
(*                                                                         *)
(* A key stands for a recovery seed, the key pair derived from it and its  *)
(* fingerprint; a device row is named by its fingerprint, which is unique. *)
(* No client sends a link signature, so that branch is left out.           *)
(***************************************************************************)
EXTENDS Naturals

CONSTANTS
  Machines,
  Users,       \* user names
  Keys,        \* bound: keys that may be generated
  NoKey, NoUser,
  Commands,    \* bound: the commands given on each machine
  MaxFaults    \* bound: requests whose answer is lost, and commands killed

AllCommands == {"register", "recover", "wizard", "force", "remove", "revoke",
                "claim", "lock", "quit"}

ASSUME OnboardingAssumption ==
  /\ NoKey \notin Keys
  /\ NoUser \notin Users
  /\ Commands \in [Machines -> SUBSET AllCommands]
  /\ MaxFaults \in Nat

VARIABLES
  \* one machine
  keystore,  \* key in the keystore file
  session,   \* key cached by the agent
  config,    \* user and device id in config.json
  pc,        \* what the command running on the machine does next
  mode,      \* which command it is
  who,       \* user name it registers
  key,       \* key it registers
  \* the server
  users,     \* names with a row in users
  device,    \* device[k]: owner and status
  team,      \* owner of the team "personal"
  vault,     \* the vault "main" exists
  \* everybody
  made,      \* keys generated so far
  faults

host == <<keystore, session, config>>
command == <<pc, mode, who, key>>
server == <<users, device, team, vault>>
vars == <<host, command, server, made, faults>>

NoDevice == [user |-> NoUser, status |-> "none"]
NoConfig == [user |-> NoUser, device |-> NoKey]

Statements == {"lookupUser", "createUser", "lookupDevice", "reactivate", "addDevice",
               "saveConfig", "unlock", "createTeam", "createVault"}

Init ==
  /\ keystore = [m \in Machines |-> NoKey]
  /\ session = [m \in Machines |-> NoKey]
  /\ config = [m \in Machines |-> NoConfig]
  /\ pc = [m \in Machines |-> "idle"]
  /\ mode = [m \in Machines |-> "none"]
  /\ who = [m \in Machines |-> NoUser]
  /\ key = [m \in Machines |-> NoKey]
  /\ users = {}
  /\ device = [k \in Keys |-> NoDevice]
  /\ team = NoUser
  /\ vault = FALSE
  /\ made = {}
  /\ faults = 0

-------------------------------------------------------------------------------
(* The keystore and the agent *)

Generate(m) ==
  \E k \in Keys \ made :
    /\ keystore' = [keystore EXCEPT ![m] = k]
    /\ made' = made \cup {k}
    /\ UNCHANGED <<session, config, command, server, faults>>

(* InitDevice refuses to overwrite a key. *)
InitDevice(m) ==
  /\ pc[m] = "idle"
  /\ keystore[m] = NoKey
  /\ Generate(m)

(* devsync init --force; the cached session is left alone. *)
ForceInit(m) ==
  /\ "force" \in Commands[m]
  /\ pc[m] = "idle"
  /\ keystore[m] # NoKey
  /\ Generate(m)

(* The user deletes the key file, as the message of Recover suggests. *)
RemoveKeystore(m) ==
  /\ "remove" \in Commands[m]
  /\ pc[m] = "idle"
  /\ keystore[m] # NoKey
  /\ keystore' = [keystore EXCEPT ![m] = NoKey]
  /\ UNCHANGED <<session, config, command, server, made, faults>>

(* agent.Lock, or the session expires: Cached removes it. *)
Lock(m) ==
  /\ "lock" \in Commands[m]
  /\ session[m] # NoKey
  /\ session' = [session EXCEPT ![m] = NoKey]
  /\ UNCHANGED <<keystore, config, command, server, made, faults>>

-------------------------------------------------------------------------------
(* Commands that register *)

Begin(m, op, u, k) ==
  /\ pc' = [pc EXCEPT ![m] = "lookupUser"]
  /\ mode' = [mode EXCEPT ![m] = op]
  /\ who' = [who EXCEPT ![m] = u]
  /\ key' = [key EXCEPT ![m] = k]

(* Register, alone or after the wizard has made sure that there is a key. *)
StartRegister(m, u) ==
  /\ pc[m] = "idle"
  /\ keystore[m] # NoKey
  /\ \E op \in {"register", "wizard"} \cap Commands[m] : Begin(m, op, u, keystore[m])
  /\ UNCHANGED <<host, server, made, faults>>

(* Recover saves the key of the phrase, then registers it again. *)
StartRecover(m, u) ==
  /\ "recover" \in Commands[m]
  /\ pc[m] = "idle"
  /\ keystore[m] = NoKey
  /\ \E k \in made :
       /\ keystore' = [keystore EXCEPT ![m] = k]
       /\ Begin(m, "recover", u, k)
  /\ UNCHANGED <<session, config, server, made, faults>>

(* devsync recover only saves the key; register is a command of its own. *)
RestoreKeystore(m) ==
  /\ "recover" \in Commands[m]
  /\ pc[m] = "idle"
  /\ keystore[m] = NoKey
  /\ \E k \in made : keystore' = [keystore EXCEPT ![m] = k]
  /\ UNCHANGED <<session, config, command, server, made, faults>>

(* stepRetry of the wizard: enter, with any user name. *)
Retry(m, u) ==
  /\ pc[m] = "retry"
  /\ Begin(m, "wizard", u, keystore[m])
  /\ UNCHANGED <<host, server, made, faults>>

Goto(m, from, to) == pc[m] = from /\ pc' = [pc EXCEPT ![m] = to]

Continue(m, from, to) ==
  /\ Goto(m, from, to)
  /\ UNCHANGED <<host, mode, who, key, server, made, faults>>

Return(m, to) ==
  /\ pc' = [pc EXCEPT ![m] = to]
  /\ mode' = [mode EXCEPT ![m] = "none"]
  /\ who' = [who EXCEPT ![m] = NoUser]
  /\ key' = [key EXCEPT ![m] = NoKey]

(* The command reports an error; the wizard offers to try again. *)
ShowError(m) == Return(m, IF mode[m] = "wizard" THEN "retry" ELSE "idle")

Refuse(m, from) ==
  /\ pc[m] = from
  /\ ShowError(m)
  /\ UNCHANGED <<host, server, made, faults>>

-------------------------------------------------------------------------------
(* handleRegister *)

LookupUser(m) ==
  Continue(m, "lookupUser", IF who[m] \in users THEN "lookupDevice" ELSE "createUser")

BugNameFree(m) == TRUE          \* users.username is not UNIQUE

NameFree(m) == who[m] \notin users

BugCreated(m) ==                \* the user row alone, without the device
  /\ users' = users \cup {who[m]}
  /\ UNCHANGED device

(* CreateUserWithDevice inserts both rows in one transaction. *)
Created(m) ==
  /\ users' = users \cup {who[m]}
  /\ device' = [device EXCEPT ![key[m]] = [user |-> who[m], status |-> "active"]]

(* username and fingerprint are UNIQUE. *)
CreateUser(m) ==
  /\ pc[m] = "createUser"
  /\ IF NameFree(m) /\ device[key[m]] = NoDevice
     THEN /\ Goto(m, "createUser", "saveConfig")
          /\ Created(m)
          /\ UNCHANGED <<host, mode, who, key, team, vault, made, faults>>
     ELSE Refuse(m, "createUser")

BugOwned(m) == device[key[m]] # NoDevice   \* whoever the device belongs to

Owned(m) == device[key[m]].user = who[m]

(* GetDeviceByFingerprint: the device of the account, of another, or none. *)
LookupDevice(m) ==
  /\ pc[m] = "lookupDevice"
  /\ \/ Owned(m) /\ Continue(m, "lookupDevice", "reactivate")
     \/ device[key[m]] # NoDevice /\ ~Owned(m) /\ Refuse(m, "lookupDevice")
     \/ device[key[m]] = NoDevice /\ Continue(m, "lookupDevice", "addDevice")

Reactivate(m) ==
  /\ Goto(m, "reactivate", "saveConfig")
  /\ device' = [device EXCEPT ![key[m]].status = "active"]
  /\ UNCHANGED <<host, mode, who, key, users, team, vault, made, faults>>

(* A further device waits for approval. *)
AddDevice(m) ==
  /\ pc[m] = "addDevice"
  /\ IF device[key[m]] = NoDevice
     THEN /\ Goto(m, "addDevice", "saveConfig")
          /\ device' = [device EXCEPT ![key[m]] =
                          [user |-> who[m], status |-> "pending"]]
          /\ UNCHANGED <<host, mode, who, key, users, team, vault, made, faults>>
     ELSE Refuse(m, "addDevice")

-------------------------------------------------------------------------------
(* Back in the client *)

(* Register writes the config once the server has answered. *)
SaveConfig(m) ==
  /\ pc[m] = "saveConfig"
  /\ config' = [config EXCEPT ![m] = [user |-> who[m], device |-> key[m]]]
  /\ IF mode[m] = "register"
     THEN Return(m, "idle")
     ELSE Goto(m, "saveConfig", "unlock") /\ UNCHANGED <<mode, who, key>>
  /\ UNCHANGED <<keystore, session, server, made, faults>>

BugCache(m) == IF session[m] # NoKey THEN session[m] ELSE keystore[m]  \* still unlocked

Cache(m) == keystore[m]

AfterUnlock(m) == IF mode[m] = "wizard" THEN "createTeam" ELSE "dashboard"

(* The agent caches the key of the keystore; also devsync unlock. *)
Unlock(m) ==
  /\ \/ Goto(m, "unlock", AfterUnlock(m))
     \/ pc[m] = "idle" /\ keystore[m] # NoKey /\ UNCHANGED pc
  /\ session' = [session EXCEPT ![m] = Cache(m)]
  /\ UNCHANGED <<keystore, config, mode, who, key, server, made, faults>>

(* authed and activeAuthed, for a request signed with the session's key. *)
Signer(m) == IF session[m] = NoKey THEN NoDevice ELSE device[session[m]]

CreateTeam(m) ==
  LET ok == Signer(m).status = "active" /\ team = NoUser IN
  \/ ~ok /\ Refuse(m, "createTeam")
  \/ /\ ok
     /\ Goto(m, "createTeam", "createVault")
     /\ team' = Signer(m).user
     /\ UNCHANGED <<host, mode, who, key, users, device, vault, made, faults>>

CreateVault(m) ==
  LET ok == Signer(m).status = "active" /\ team = Signer(m).user /\ ~vault IN
  \/ ~ok /\ Refuse(m, "createVault")
  \/ /\ ok
     /\ Goto(m, "createVault", "dashboard")
     /\ vault' = TRUE
     /\ UNCHANGED <<host, mode, who, key, users, device, team, made, faults>>

(* The user leaves the program. *)
Quit(m) ==
  /\ pc[m] = "dashboard" \/ (pc[m] = "retry" /\ "quit" \in Commands[m])
  /\ Return(m, "idle")
  /\ UNCHANGED <<host, server, made, faults>>

(* The answer to a request is lost, whatever the server did, or the program
   is closed half-way (the wizard can then be left from its retry screen):
   the next run starts from the files. *)
Fail(m) ==
  /\ faults < MaxFaults
  /\ pc[m] \in Statements
  /\ faults' = faults + 1
  /\ ShowError(m)
  /\ UNCHANGED <<host, server, made>>

-------------------------------------------------------------------------------
(* handleLinkDevice: a known device revokes one of its own account. *)
RevokeDevice(m, k) ==
  /\ "revoke" \in Commands[m]
  /\ Signer(m) # NoDevice
  /\ device[k].user = Signer(m).user
  /\ device' = [device EXCEPT ![k].status = "revoked"]
  /\ UNCHANGED <<host, command, users, team, vault, made, faults>>

BugPending(k) == device[k] # NoDevice      \* UPDATE without AND status='pending'

Pending(k) == device[k].status = "pending"

(* ClaimInviteToken activates the device that claims; authed lets any
   registered device claim, a revoked one too. *)
ClaimActivates(m) ==
  /\ "claim" \in Commands[m]
  /\ session[m] # NoKey
  /\ Pending(session[m])
  /\ device' = [device EXCEPT ![session[m]].status = "active"]
  /\ UNCHANGED <<host, command, users, team, vault, made, faults>>

Step(m) ==
  \/ LookupUser(m) \/ CreateUser(m) \/ LookupDevice(m) \/ Reactivate(m) \/ AddDevice(m)
  \/ SaveConfig(m) \/ Unlock(m) \/ CreateTeam(m) \/ CreateVault(m)

UserAct(m) ==
  \/ InitDevice(m) \/ ForceInit(m) \/ RemoveKeystore(m) \/ Lock(m) \/ Quit(m)
  \/ RestoreKeystore(m) \/ ClaimActivates(m)
  \/ \E u \in Users : StartRegister(m, u) \/ StartRecover(m, u) \/ Retry(m, u)
  \/ \E k \in Keys : RevokeDevice(m, k)

Next == \E m \in Machines : Step(m) \/ UserAct(m) \/ Fail(m)

Spec == Init /\ [][Next]_vars

(* Requests are answered, and the user of the wizard never gives up and tries
   every name again and again. *)
Fairness ==
  \A m \in Machines :
    /\ WF_vars(pc[m] # "idle" /\ Step(m))
    /\ \A u \in Users : SF_vars(Retry(m, u))

FairSpec == Spec /\ Fairness

-------------------------------------------------------------------------------
(* Properties *)

TypeOK ==
  /\ keystore \in [Machines -> Keys \cup {NoKey}]
  /\ session \in [Machines -> Keys \cup {NoKey}]
  /\ config \in [Machines -> [user : Users \cup {NoUser}, device : Keys \cup {NoKey}]]
  /\ pc \in [Machines -> Statements \cup {"idle", "retry", "dashboard"}]
  /\ mode \in [Machines -> {"none", "register", "recover", "wizard"}]
  /\ who \in [Machines -> Users \cup {NoUser}]
  /\ key \in [Machines -> Keys \cup {NoKey}]
  /\ users \subseteq Users
  /\ device \in [Keys -> {NoDevice} \cup
                        [user : users, status : {"pending", "active", "revoked"}]]
  /\ team \in Users \cup {NoUser}
  /\ vault \in BOOLEAN
  /\ made \subseteq Keys
  /\ faults \in 0 .. MaxFaults

(* A name that is taken can be used: some device belongs to it, whichever
   statement or answer of its registration was the last to arrive. *)
UserHasDevice == \A u \in users : \E k \in Keys : device[k].user = u

(* The config never names a user the device is not registered for, although
   it is written after the answer and the keystore before the request. *)
ConfigIsTrue ==
  \A m \in Machines :
    config[m] # NoConfig => device[config[m].device].user = config[m].user

(* When the wizard or a recovery ends in the dashboard, the agent, the
   keystore and the config are about one key, whatever was cached before. *)
DashboardUsable ==
  [][\A m \in Machines :
       pc[m] # "dashboard" /\ pc'[m] = "dashboard" =>
         session'[m] \in {NoKey, keystore[m]} /\ config[m].device = keystore[m]]_vars

(* A revoked device comes back only by a registration with its own key. *)
RevokedOnlyRecovered ==
  [][\A k \in Keys :
       device[k].status = "revoked" /\ device'[k].status # "revoked" =>
         \E m \in Machines :
           pc[m] = "reactivate" /\ pc'[m] # "reactivate" /\ key[m] = k]_vars

(* One account per name: two first registrations of a name do not both get
   an active device without a claim or a second registration. *)
OneFirstDevice ==
  [][\A k, l \in Keys :
       /\ k # l /\ device[k] = NoDevice /\ device'[k].status = "active"
       => device[l].user # device'[k].user]_vars

(* "Auto-create a starter team + vault so push/pull work instantly"
   (tui/wizard.go:94): a user who keeps trying reaches the dashboard. *)
WizardFinishes ==
  \A m \in Machines :
    mode[m] = "wizard" /\ pc[m] = "lookupUser" ~> pc[m] = "dashboard"
===============================================================================
