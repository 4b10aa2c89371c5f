-------------------------- MODULE Onboarding_proofs ---------------------------
(* The invariant of Onboarding for any machines, users, keys and commands. *)
EXTENDS Onboarding, TLAPS

(***************************************************************************)
(* The invariant.                                                          *)
(***************************************************************************)

Running == Statements \cup {"dashboard"}
SignedIn == {"createTeam", "createVault", "dashboard"}

(* What holds on machine m while its command is where it is: nothing changes
   the keystore under a running command, and from the answer of the server on
   the device belongs to the user, first on the server, then in the config,
   then for the agent. *)
Machine(m) ==
  /\ pc[m] \in Running => key[m] \in Keys /\ who[m] \in Users /\ keystore[m] = key[m]
  /\ pc[m] = "retry" => keystore[m] # NoKey
  /\ pc[m] \in {"lookupDevice", "addDevice"} => who[m] \in users
  /\ pc[m] \in {"reactivate", "saveConfig", "unlock"} \cup SignedIn => Owned(m)
  /\ pc[m] \in {"unlock"} \cup SignedIn => config[m].device = key[m]
  /\ pc[m] \in SignedIn => session[m] \in {NoKey, keystore[m]}
  /\ config[m] # NoConfig => config[m].device \in Keys /\ config[m].user \in Users

MachineInv == \A m \in Machines : Machine(m)

IInv == TypeOK /\ MachineInv /\ ConfigIsTrue /\ UserHasDevice

(***************************************************************************)
(* What an action leaves alone.                                            *)
(***************************************************************************)

(* Only machine m acts. *)
Alone(m) ==
  \A n \in Machines \ {m} :
    /\ pc'[n] = pc[n] /\ who'[n] = who[n] /\ key'[n] = key[n]
    /\ keystore'[n] = keystore[n] /\ session'[n] = session[n] /\ config'[n] = config[n]

(* Accounts stay, and a device stays with its account. *)
AccountsStay ==
  /\ users \subseteq users'
  /\ \A k \in Keys : device[k] # NoDevice => device'[k].user = device[k].user

LEMMA NoDeviceFields == NoDevice.user = NoUser /\ NoDevice.status = "none"
  BY DEF NoDevice

(* A device row names a user, the absence of one does not. *)
LEMMA DeviceFields ==
  ASSUME TypeOK, NEW k \in Keys
  PROVE  /\ device[k].user \in Users => device[k] # NoDevice
         /\ device[k] # NoDevice => /\ device[k].user \in users /\ device[k].user \in Users
                                    /\ device[k].status \in {"pending", "active", "revoked"}
  <1>1. device[k] \in {NoDevice} \cup
                        [user : users, status : {"pending", "active", "revoked"}]
    BY DEF TypeOK
  <1>2. NoUser \notin Users
    BY OnboardingAssumption
  <1> QED BY <1>1, <1>2, NoDeviceFields DEF TypeOK

(* What holds on a machine that does not act goes on holding. *)
LEMMA Elsewhere ==
  ASSUME IInv, TypeOK', NEW m \in Machines, Alone(m), AccountsStay, Machine(m)'
  PROVE  MachineInv'
  <1> SUFFICES ASSUME NEW n \in Machines \ {m} PROVE Machine(n)'
    BY DEF MachineInv
  <1>1. Machine(n) /\ UNCHANGED <<pc[n], who[n], key[n], keystore[n], session[n], config[n]>>
    BY DEF IInv, MachineInv, Alone
  <1>2. ASSUME key[n] \in Keys, who[n] \in Users, Owned(n) PROVE Owned(n)'
    BY <1>1, <1>2, DeviceFields DEF Owned, AccountsStay, IInv
  <1>3. pc[n] \in {"reactivate", "saveConfig", "unlock"} \cup SignedIn => pc[n] \in Running
    BY DEF Running, SignedIn, Statements
  <1> QED BY <1>1, <1>2, <1>3 DEF Machine, AccountsStay

(* The config and the accounts outlive every step. *)
LEMMA ConfigElsewhere ==
  ASSUME IInv, TypeOK', AccountsStay, NEW m \in Machines, config'[m] = config[m]
  PROVE  config'[m] # NoConfig => device'[config'[m].device].user = config'[m].user
  <1> SUFFICES ASSUME config[m] # NoConfig
               PROVE  device'[config[m].device].user = config[m].user
    OBVIOUS
  <1>1. config[m].device \in Keys /\ config[m].user \in Users
    BY DEF IInv, MachineInv, Machine
  <1>2. device[config[m].device].user = config[m].user
    BY DEF IInv, ConfigIsTrue
  <1> QED BY <1>1, <1>2, DeviceFields DEF AccountsStay, IInv

LEMMA OldUsersHaveDevices ==
  ASSUME IInv, TypeOK', AccountsStay, NEW u \in users
  PROVE  \E k \in Keys : device'[k].user = u
  <1>1. PICK k \in Keys : device[k].user = u
    BY DEF IInv, UserHasDevice
  <1>2. device[k] # NoDevice
    BY <1>1, DeviceFields DEF IInv, TypeOK
  <1> QED BY <1>1, <1>2 DEF AccountsStay

(***************************************************************************)
(* The steps.                                                              *)
(***************************************************************************)

(* What a step of machine m has to show for the invariant. *)
Good(m) ==
  /\ TypeOK' /\ Alone(m) /\ AccountsStay /\ Machine(m)'
  /\ config'[m] = config[m] \/ device'[config'[m].device].user = config'[m].user
  /\ \A u \in users' \ users : \E k \in Keys : device'[k].user = u

LEMMA GoodStep ==
  ASSUME IInv, NEW m \in Machines, Good(m)
  PROVE  IInv'
  <1>1. TypeOK' /\ MachineInv'
    BY Elsewhere DEF Good
  <1>2. \A n \in Machines \ {m} : config'[n] = config[n]
    BY DEF Good, Alone
  <1>3. ConfigIsTrue'
    BY <1>1, <1>2, ConfigElsewhere DEF Good, ConfigIsTrue
  <1>4. UserHasDevice'
    BY <1>1, OldUsersHaveDevices DEF Good, UserHasDevice
  <1> QED BY <1>1, <1>3, <1>4 DEF IInv

(* A step that changes neither the accounts nor the config. *)
LEMMA GoodLocal ==
  ASSUME IInv, NEW m \in Machines, UNCHANGED <<config, users, device>>,
         TypeOK', Alone(m), Machine(m)'
  PROVE  Good(m)
  BY DEF Good, AccountsStay

LEMMA ReturnStep ==
  ASSUME IInv, NEW m \in Machines, NEW to \in {"idle", "retry"}, Return(m, to),
         to = "retry" => keystore[m] # NoKey,
         UNCHANGED <<host, server, made>>, faults' \in 0 .. MaxFaults
  PROVE  Good(m)
  <1>1. TypeOK'
    BY DEF IInv, TypeOK, Return, host, server
  <1>2. Alone(m) /\ pc'[m] = to
    BY DEF IInv, TypeOK, Return, host, Alone
  <1>3. Machine(m)
    BY DEF IInv, MachineInv
  <1>4. Machine(m)'
    BY <1>2, <1>3 DEF Machine, Running, SignedIn, Statements, host
  <1> QED BY <1>1, <1>2, <1>4, GoodLocal DEF host, server

(* An error sends the wizard to its retry screen, and any other command home. *)
LEMMA ErrorStep ==
  ASSUME IInv, NEW m \in Machines, pc[m] \in Statements, ShowError(m),
         UNCHANGED <<host, server, made>>, faults' \in 0 .. MaxFaults
  PROVE  Good(m)
  <1>1. keystore[m] \in Keys
    BY DEF IInv, MachineInv, Machine, Running
  <1>2. keystore[m] # NoKey
    BY <1>1, OnboardingAssumption
  <1> QED BY <1>2, ReturnStep DEF ShowError

LEMMA RefuseStep ==
  ASSUME IInv, NEW m \in Machines, NEW from \in Statements, Refuse(m, from)
  PROVE  Good(m)
  BY ErrorStep DEF Refuse, IInv, TypeOK

LEMMA ContinueStep ==
  ASSUME IInv, NEW m \in Machines, NEW from, NEW to \in Statements, Continue(m, from, to),
         pc'[m] = to => Machine(m)'
  PROVE  Good(m)
  <1>1. TypeOK'
    BY DEF IInv, TypeOK, Continue, Goto, host, server
  <1>2. Alone(m) /\ pc'[m] = to
    BY DEF IInv, TypeOK, Continue, Goto, host, Alone
  <1> QED BY <1>1, <1>2, GoodLocal DEF Continue, host, server

LEMMA StepGood ==
  ASSUME IInv, NEW m \in Machines, Step(m)
  PROVE  Good(m)
  <1>a. TypeOK /\ Machine(m) /\ (pc[m] \in Statements => key[m] \in Keys /\ who[m] \in Users)
    BY DEF IInv, MachineInv, Machine, Running
  <1>b. NoKey \notin Keys /\ NoUser \notin Users
    BY OnboardingAssumption
  <1>1. ASSUME LookupUser(m) PROVE Good(m)
    <2> DEFINE to == IF who[m] \in users THEN "lookupDevice" ELSE "createUser"
    <2>1. pc[m] = "lookupUser" /\ UNCHANGED <<host, mode, who, key, server>>
      BY <1>1 DEF LookupUser, Continue, Goto
    <2>2. pc'[m] = to => Machine(m)'
      BY <1>a, <2>1 DEF Machine, Running, SignedIn, Statements, host, server
    <2>3. to \in Statements
      BY DEF Statements
    <2> QED BY <1>1, <2>2, <2>3, ContinueStep DEF LookupUser
  <1>2. ASSUME CreateUser(m) PROVE Good(m)
    <2>1. CASE /\ device[key[m]] = NoDevice
               /\ Goto(m, "createUser", "saveConfig")
               /\ Created(m)
               /\ UNCHANGED <<host, mode, who, key, team, vault, made, faults>>
      <3>1. pc[m] = "createUser" /\ key[m] \in Keys /\ who[m] \in Users
        BY <1>a, <2>1 DEF Goto, Statements
      <3>2. device'[key[m]] = [user |-> who[m], status |-> "active"]
              /\ \A k \in Keys \ {key[m]} : device'[k] = device[k]
        BY <1>a, <2>1, <3>1 DEF Created, TypeOK
      <3>3. device' \in [Keys -> {NoDevice} \cup
                           [user : users', status : {"pending", "active", "revoked"}]]
        BY <1>a, <2>1, <3>1 DEF Created, TypeOK
      <3>4. TypeOK'
        BY <1>a, <2>1, <3>1, <3>3 DEF Created, TypeOK, Goto, Statements, host
      <3>5. Alone(m) /\ pc'[m] = "saveConfig"
        BY <1>a, <2>1 DEF TypeOK, Goto, Alone, host
      <3>6. AccountsStay
        BY <2>1, <3>2 DEF AccountsStay, Created
      <3>7. device'[key[m]].user = who[m]
        BY <3>2
      <3>8. Machine(m)'
        BY <1>a, <2>1, <3>1, <3>5, <3>7 DEF Machine, Running, SignedIn, Statements, Owned, host
      <3>9. \A u \in users' \ users : \E k \in Keys : device'[k].user = u
        BY <2>1, <3>1, <3>7 DEF Created
      <3> QED BY <2>1, <3>4, <3>5, <3>6, <3>8, <3>9 DEF Good, host
    <2> QED BY <1>2, <2>1, RefuseStep DEF CreateUser, Statements
  <1>3. ASSUME LookupDevice(m) PROVE Good(m)
    <2>1. pc[m] = "lookupDevice"
      BY <1>3 DEF LookupDevice
    <2>2. CASE Owned(m) /\ Continue(m, "lookupDevice", "reactivate")
      <3>1. pc'[m] = "reactivate" => Machine(m)'
        BY <1>a, <2>1, <2>2
           DEF Machine, Running, SignedIn, Statements, host, server, Continue, Owned
      <3> QED BY <2>2, <3>1, ContinueStep DEF Statements
    <2>3. CASE Continue(m, "lookupDevice", "addDevice")
      <3>1. pc'[m] = "addDevice" => Machine(m)'
        BY <1>a, <2>1, <2>3
           DEF Machine, Running, SignedIn, Statements, host, server, Continue
      <3> QED BY <2>3, <3>1, ContinueStep DEF Statements
    <2> QED BY <1>3, <2>2, <2>3, RefuseStep DEF LookupDevice, Statements
  <1>4. ASSUME Reactivate(m) PROVE Good(m)
    <2>1. /\ pc[m] = "reactivate" /\ key[m] \in Keys /\ who[m] \in Users
          /\ device[key[m]].user = who[m]
      BY <1>4, <1>a DEF Reactivate, Goto, Statements, Machine, Owned
    <2>2. device[key[m]] \in [user : users, status : {"pending", "active", "revoked"}]
      BY <1>a, <1>b, <2>1, NoDeviceFields DEF TypeOK
    <2>3. device'[key[m]].user = who[m] /\ \A k \in Keys \ {key[m]} : device'[k] = device[k]
      BY <1>4, <1>a, <2>1, <2>2 DEF Reactivate, TypeOK
    <2>4. device' \in [Keys -> {NoDevice} \cup
                         [user : users, status : {"pending", "active", "revoked"}]]
      BY <1>4, <1>a, <2>1, <2>2 DEF Reactivate, TypeOK
    <2>5. TypeOK'
      BY <1>4, <1>a, <2>4 DEF Reactivate, TypeOK, Goto, Statements, host
    <2>6. Alone(m) /\ pc'[m] = "saveConfig"
      BY <1>4, <1>a DEF Reactivate, TypeOK, Goto, Alone, host
    <2>7. AccountsStay
      BY <1>4, <2>1, <2>3 DEF AccountsStay, Reactivate
    <2>8. Machine(m)'
      BY <1>4, <1>a, <2>1, <2>3, <2>6
         DEF Reactivate, Machine, Running, SignedIn, Statements, Owned, host
    <2> QED BY <1>4, <2>5, <2>6, <2>7, <2>8 DEF Good, Reactivate, host
  <1>5. ASSUME AddDevice(m) PROVE Good(m)
    <2>1. CASE /\ device[key[m]] = NoDevice
               /\ Goto(m, "addDevice", "saveConfig")
               /\ device' = [device EXCEPT ![key[m]] =
                               [user |-> who[m], status |-> "pending"]]
               /\ UNCHANGED <<host, mode, who, key, users, team, vault, made, faults>>
      <3>1. pc[m] = "addDevice" /\ key[m] \in Keys /\ who[m] \in Users /\ who[m] \in users
        BY <1>a, <2>1 DEF Goto, Statements, Machine
      <3>2. device'[key[m]].user = who[m]
              /\ \A k \in Keys \ {key[m]} : device'[k] = device[k]
        BY <1>a, <2>1, <3>1 DEF TypeOK
      <3>3. device' \in [Keys -> {NoDevice} \cup
                           [user : users, status : {"pending", "active", "revoked"}]]
        BY <1>a, <2>1, <3>1 DEF TypeOK
      <3>4. TypeOK'
        BY <1>a, <2>1, <3>3 DEF TypeOK, Goto, Statements, host
      <3>5. Alone(m) /\ pc'[m] = "saveConfig"
        BY <1>a, <2>1 DEF TypeOK, Goto, Alone, host
      <3>6. AccountsStay
        BY <2>1, <3>2 DEF AccountsStay
      <3>7. Machine(m)'
        BY <1>a, <2>1, <3>1, <3>2, <3>5 DEF Machine, Running, SignedIn, Statements, Owned, host
      <3> QED BY <2>1, <3>4, <3>5, <3>6, <3>7 DEF Good, host
    <2> QED BY <1>5, <2>1, RefuseStep DEF AddDevice, Statements
  <1>6. ASSUME SaveConfig(m) PROVE Good(m)
    <2>1. /\ pc[m] = "saveConfig" /\ key[m] \in Keys /\ who[m] \in Users
          /\ device[key[m]].user = who[m]
      BY <1>6, <1>a DEF SaveConfig, Statements, Machine, Owned
    <2>2. UNCHANGED <<keystore, session, server, made, faults>>
      BY <1>6 DEF SaveConfig
    <2>3. config'[m].user = who[m] /\ config'[m].device = key[m]
      BY <1>6, <1>a DEF SaveConfig, TypeOK
    <2>4. config' \in [Machines -> [user : Users \cup {NoUser}, device : Keys \cup {NoKey}]]
      BY <1>6, <1>a, <2>1 DEF SaveConfig, TypeOK
    <2>5. TypeOK' /\ Alone(m)
      <3>1. CASE Return(m, "idle")
        BY <1>6, <1>a, <2>2, <2>4, <3>1 DEF SaveConfig, TypeOK, Return, Alone, server
      <3>2. CASE Goto(m, "saveConfig", "unlock") /\ UNCHANGED <<mode, who, key>>
        BY <1>6, <1>a, <2>2, <2>4, <3>2
           DEF SaveConfig, TypeOK, Goto, Statements, Alone, server
      <3> QED BY <1>6, <3>1, <3>2 DEF SaveConfig
    <2>6. pc'[m] = "idle" \/ (pc'[m] = "unlock" /\ UNCHANGED <<who, key>>)
      BY <1>6, <1>a DEF SaveConfig, Return, Goto, TypeOK
    <2>7. Machine(m)'
      BY <1>a, <2>1, <2>2, <2>3, <2>6 DEF Machine, Running, SignedIn, Statements, Owned, server
    <2>8. AccountsStay /\ UNCHANGED users
      BY <2>2 DEF AccountsStay, server
    <2>9. device'[config'[m].device].user = config'[m].user
      BY <2>1, <2>2, <2>3 DEF server
    <2> QED BY <2>5, <2>7, <2>8, <2>9 DEF Good
  <1>7. ASSUME Unlock(m) PROVE Good(m)
    <2>1. UNCHANGED <<keystore, config, mode, who, key, server, made, faults>>
      BY <1>7 DEF Unlock
    <2>2. session'[m] = keystore[m]
            /\ session' \in [Machines -> Keys \cup {NoKey}]
            /\ \A n \in Machines \ {m} : session'[n] = session[n]
      BY <1>7, <1>a DEF Unlock, Cache, TypeOK
    <2>3. \/ UNCHANGED pc /\ pc[m] = "idle"
          \/ pc[m] = "unlock" /\ pc' = [pc EXCEPT ![m] = AfterUnlock(m)]
      BY <1>7 DEF Unlock, Goto
    <2>4. AfterUnlock(m) \in {"createTeam", "dashboard"}
      BY DEF AfterUnlock
    <2>5. TypeOK' /\ Alone(m)
      BY <1>a, <2>1, <2>2, <2>3, <2>4 DEF TypeOK, Alone, Statements, server
    <2>6. \/ pc[m] = "idle" /\ pc'[m] = "idle"
          \/ pc[m] = "unlock" /\ pc'[m] \in {"createTeam", "dashboard"}
      BY <1>a, <2>3, <2>4 DEF TypeOK
    <2>7. Machine(m)'
      BY <1>a, <2>1, <2>2, <2>6 DEF Machine, Running, SignedIn, Statements, Owned, server
    <2> QED BY <2>1, <2>5, <2>7, GoodLocal DEF server
  <1>c. ASSUME NEW to \in SignedIn, pc[m] \in SignedIn, pc' = [pc EXCEPT ![m] = to],
               UNCHANGED <<host, mode, who, key, users, device, made, faults>>,
               team' \in Users \cup {NoUser}, vault' \in BOOLEAN
        PROVE  Good(m)
    <2>1. TypeOK' /\ Alone(m) /\ pc'[m] = to
      BY <1>a, <1>c DEF TypeOK, Alone, SignedIn, Statements, host
    <2>2. Machine(m)'
      BY <1>a, <1>c, <2>1 DEF Machine, Running, SignedIn, Statements, Owned, host
    <2> QED BY <1>c, <2>1, <2>2, GoodLocal DEF host
  <1>8. ASSUME CreateTeam(m) PROVE Good(m)
    <2>1. CASE /\ Signer(m).status = "active"
               /\ Goto(m, "createTeam", "createVault")
               /\ team' = Signer(m).user
               /\ UNCHANGED <<host, mode, who, key, users, device, vault, made, faults>>
      <3>1. session[m] \in Keys /\ Signer(m) = device[session[m]]
        BY <1>a, <2>1, NoDeviceFields DEF Signer, TypeOK
      <3>2. Signer(m).user \in Users
        BY <1>a, <2>1, <3>1, DeviceFields, NoDeviceFields
      <3>3. vault' \in BOOLEAN
        BY <1>a, <2>1 DEF TypeOK
      <3> QED BY <1>c, <2>1, <3>2, <3>3 DEF Goto, SignedIn
    <2> QED BY <1>8, <2>1, RefuseStep DEF CreateTeam, Statements
  <1>9. ASSUME CreateVault(m) PROVE Good(m)
    <2>1. CASE /\ Goto(m, "createVault", "dashboard")
               /\ vault' = TRUE
               /\ UNCHANGED <<host, mode, who, key, users, device, team, made, faults>>
      <3>1. team' \in Users \cup {NoUser}
        BY <1>a, <2>1 DEF TypeOK
      <3> QED BY <1>c, <2>1, <3>1 DEF Goto, SignedIn
    <2> QED BY <1>9, <2>1, RefuseStep DEF CreateVault, Statements
  <1> QED BY <1>1, <1>2, <1>3, <1>4, <1>5, <1>6, <1>7, <1>8, <1>9 DEF Step


LEMMA UserActGood ==
  ASSUME IInv, NEW m \in Machines, UserAct(m)
  PROVE  Good(m)
  <1>a. TypeOK /\ Machine(m)
    BY DEF IInv, MachineInv
  <1>b. NoKey \notin Keys /\ NoUser \notin Users
    BY OnboardingAssumption
  (* The keystore of an idle machine changes. *)
  <1>c. ASSUME pc[m] = "idle", NEW k \in Keys \cup {NoKey},
               keystore' = [keystore EXCEPT ![m] = k], made' \subseteq Keys,
               UNCHANGED <<session, config, command, server, faults>>
        PROVE  Good(m)
    <2>1. TypeOK' /\ Alone(m)
      BY <1>a, <1>c DEF TypeOK, Alone, command, server
    <2>2. Machine(m)'
      BY <1>a, <1>c DEF Machine, Running, SignedIn, Statements, command, server
    <2> QED BY <1>c, <2>1, <2>2, GoodLocal DEF command, server
  (* A command that registers begins with the key of the keystore. *)
  <1>d. ASSUME NEW op \in {"register", "recover", "wizard"}, NEW u \in Users, NEW k \in Keys,
               Begin(m, op, u, k), keystore' = [keystore EXCEPT ![m] = k],
               UNCHANGED <<session, config, server, made, faults>>
        PROVE  Good(m)
    <2>1. TypeOK' /\ Alone(m)
      BY <1>a, <1>d DEF TypeOK, Alone, Begin, Statements, server
    <2>2. pc'[m] = "lookupUser" /\ who'[m] = u /\ key'[m] = k /\ keystore'[m] = k
      BY <1>a, <1>d DEF TypeOK, Begin
    <2>3. Machine(m)'
      BY <1>a, <1>d, <2>2 DEF Machine, Running, SignedIn, Statements, server
    <2> QED BY <1>d, <2>1, <2>3, GoodLocal DEF server
  <1>e. keystore[m] # NoKey =>
          keystore[m] \in Keys /\ keystore = [keystore EXCEPT ![m] = keystore[m]]
    BY <1>a DEF TypeOK
  <1>1. ASSUME Generate(m), pc[m] = "idle" PROVE Good(m)
    <2>1. PICK k \in Keys \ made : /\ keystore' = [keystore EXCEPT ![m] = k]
                                   /\ made' = made \cup {k}
                                   /\ UNCHANGED <<session, config, command, server, faults>>
      BY <1>1 DEF Generate
    <2>2. made' \subseteq Keys
      BY <1>a, <2>1 DEF TypeOK
    <2> QED BY <1>1, <1>c, <2>1, <2>2
  <1>2. ASSUME RemoveKeystore(m) PROVE Good(m)
    <2>1. made' \subseteq Keys
      BY <1>2, <1>a DEF RemoveKeystore, TypeOK
    <2> QED BY <1>2, <1>c, <2>1 DEF RemoveKeystore
  <1>3. ASSUME Lock(m) PROVE Good(m)
    <2>1. TypeOK' /\ Alone(m) /\ session'[m] = NoKey
      BY <1>3, <1>a DEF Lock, TypeOK, Alone, command, server
    <2>2. Machine(m)'
      BY <1>3, <1>a, <2>1 DEF Lock, Machine, Owned, command, server
    <2> QED BY <1>3, <2>1, <2>2, GoodLocal DEF Lock, server
  <1>4. ASSUME Quit(m) PROVE Good(m)
    <2>1. faults' \in 0 .. MaxFaults
      BY <1>4, <1>a DEF Quit, TypeOK
    <2> QED BY <1>4, <2>1, ReturnStep DEF Quit
  <1>5. ASSUME RestoreKeystore(m) PROVE Good(m)
    <2>1. PICK k \in made : keystore' = [keystore EXCEPT ![m] = k]
      BY <1>5 DEF RestoreKeystore
    <2>2. k \in Keys /\ made' \subseteq Keys
      BY <1>5, <1>a, <2>1 DEF RestoreKeystore, TypeOK
    <2> QED BY <1>5, <1>c, <2>1, <2>2 DEF RestoreKeystore
  <1>f. ASSUME NEW k \in Keys, NEW s \in {"active", "revoked"}, device[k] # NoDevice,
               device' = [device EXCEPT ![k].status = s],
               UNCHANGED <<host, command, users, team, vault, made, faults>>
        PROVE  Good(m)
    <2>1. device[k] \in [user : users, status : {"pending", "active", "revoked"}]
      BY <1>a, <1>f DEF TypeOK
    <2>2. device'[k].user = device[k].user /\ \A l \in Keys \ {k} : device'[l] = device[l]
      BY <1>a, <1>f, <2>1 DEF TypeOK
    <2>3. device' \in [Keys -> {NoDevice} \cup
                         [user : users, status : {"pending", "active", "revoked"}]]
      BY <1>a, <1>f, <2>1 DEF TypeOK
    <2>4. TypeOK' /\ Alone(m)
      BY <1>a, <1>f, <2>3 DEF TypeOK, Alone, host, command
    <2>5. AccountsStay
      BY <1>f, <2>2 DEF AccountsStay
    <2>6. key[m] \in Keys /\ who[m] \in Users /\ Owned(m) => Owned(m)'
      BY <1>f, <2>2 DEF Owned, command
    <2>7. pc[m] \in {"reactivate", "saveConfig", "unlock"} \cup SignedIn => pc[m] \in Running
      BY DEF Running, SignedIn, Statements
    <2>8. Machine(m)'
      BY <1>a, <1>f, <2>6, <2>7 DEF Machine, host, command
    <2> QED BY <1>f, <2>4, <2>5, <2>8 DEF Good, host
  <1>6. ASSUME ClaimActivates(m) PROVE Good(m)
    <2>1. session[m] \in Keys /\ device[session[m]] # NoDevice
      BY <1>6, <1>a, NoDeviceFields DEF ClaimActivates, Pending, TypeOK
    <2> QED BY <1>6, <1>f, <2>1 DEF ClaimActivates
  <1>7. ASSUME NEW u \in Users, StartRegister(m, u) PROVE Good(m)
    <2>1. PICK op \in {"register", "wizard"} : Begin(m, op, u, keystore[m])
      BY <1>7 DEF StartRegister
    <2> QED BY <1>7, <1>d, <1>e, <2>1 DEF StartRegister, host
  <1>8. ASSUME NEW u \in Users, StartRecover(m, u) PROVE Good(m)
    <2>1. PICK k \in made : keystore' = [keystore EXCEPT ![m] = k] /\ Begin(m, "recover", u, k)
      BY <1>8 DEF StartRecover
    <2>2. k \in Keys
      BY <1>a, <2>1 DEF TypeOK
    <2> QED BY <1>8, <1>d, <2>1, <2>2 DEF StartRecover
  <1>9. ASSUME NEW u \in Users, Retry(m, u) PROVE Good(m)
    <2>1. keystore[m] # NoKey
      BY <1>9, <1>a DEF Retry, Machine
    <2> QED BY <1>9, <1>d, <1>e, <2>1 DEF Retry, host
  <1>10. ASSUME NEW k \in Keys, RevokeDevice(m, k) PROVE Good(m)
    <2>1. session[m] \in Keys /\ device[session[m]] # NoDevice
            /\ device[k].user = device[session[m]].user
      BY <1>10, <1>a DEF RevokeDevice, Signer, TypeOK
    <2>2. device[k] # NoDevice
      BY <1>a, <2>1, DeviceFields
    <2> QED BY <1>10, <1>f, <2>2 DEF RevokeDevice
  <1> QED
    BY <1>1, <1>2, <1>3, <1>4, <1>5, <1>6, <1>7, <1>8, <1>9, <1>10
       DEF UserAct, InitDevice, ForceInit

LEMMA FailGood ==
  ASSUME IInv, NEW m \in Machines, Fail(m)
  PROVE  Good(m)
  <1>1. faults' \in 0 .. MaxFaults
    BY OnboardingAssumption DEF Fail, IInv, TypeOK
  <1> QED BY <1>1, ErrorStep DEF Fail

LEMMA InvInit == Init => IInv
  <1> SUFFICES ASSUME Init PROVE IInv
    OBVIOUS
  <1>1. TypeOK
    <2>1. NoConfig \in [user : Users \cup {NoUser}, device : Keys \cup {NoKey}]
      BY DEF NoConfig
    <2>2. 0 \in 0 .. MaxFaults
      BY OnboardingAssumption
    <2> QED BY <2>1, <2>2 DEF Init, TypeOK
  <1>2. MachineInv
    BY DEF Init, MachineInv, Machine, Running, SignedIn, Statements
  <1>3. ConfigIsTrue /\ UserHasDevice
    BY DEF Init, ConfigIsTrue, UserHasDevice
  <1> QED BY <1>1, <1>2, <1>3 DEF IInv

LEMMA InvStep == IInv /\ [Next]_vars => IInv'
  <1>1. ASSUME IInv, UNCHANGED vars PROVE IInv'
    BY <1>1 DEF IInv, TypeOK, MachineInv, Machine, Owned, ConfigIsTrue, UserHasDevice, vars,
               host, command, server
  <1>2. ASSUME IInv, NEW m \in Machines, Step(m) \/ UserAct(m) \/ Fail(m) PROVE IInv'
    BY <1>2, StepGood, UserActGood, FailGood, GoodStep
  <1> QED BY <1>1, <1>2 DEF Next

(***************************************************************************)
(* What follows.                                                           *)
(***************************************************************************)

(* IInv is inductive. *)
THEOREM Inductive == Spec => []IInv
  <1> QED BY InvInit, InvStep, PTL DEF Spec

(* The types, for any machines, users and keys. *)
THEOREM TypeCorrect == Spec => []TypeOK
  <1>1. IInv => TypeOK
    BY DEF IInv
  <1> QED BY Inductive, <1>1, PTL

(* A name with an account has a device, since CreateUserWithDevice inserts both
   rows or none and no handler takes a device from its account. *)
THEOREM UsersHaveDevices == Spec => []UserHasDevice
  <1>1. IInv => UserHasDevice
    BY DEF IInv
  <1> QED BY Inductive, <1>1, PTL

(* config.json tells the truth about the account of its device. *)
THEOREM ConfigsAreTrue == Spec => []ConfigIsTrue
  <1>1. IInv => ConfigIsTrue
    BY DEF IInv
  <1> QED BY Inductive, <1>1, PTL

(* A machine reaches the dashboard by a step of its own, the agent's or the last
   one of the wizard. *)
LEMMA Arrival ==
  ASSUME IInv, [Next]_vars, NEW m \in Machines, pc[m] # "dashboard", pc'[m] = "dashboard"
  PROVE  Unlock(m) \/ CreateVault(m)
  <1>1. pc \in [Machines -> Statements \cup {"idle", "retry", "dashboard"}]
    BY DEF IInv, TypeOK
  <1>2. PICK n \in Machines : Step(n) \/ UserAct(n) \/ Fail(n)
    BY DEF Next, vars, command
  <1>3. n = m
    <2>1. Alone(n)
      BY <1>2, StepGood, UserActGood, FailGood DEF Good
    <2> QED BY <2>1 DEF Alone
  <1>a. ASSUME NEW to \in {"idle", "retry"}, Return(m, to) PROVE FALSE
    BY <1>1, <1>a DEF Return
  <1>b. ASSUME NEW from \in Statements, Refuse(m, from) PROVE FALSE
    BY <1>a, <1>b DEF Refuse, ShowError
  <1>c. ASSUME NEW from, NEW to, to # "dashboard", Goto(m, from, to) PROVE FALSE
    BY <1>1, <1>c DEF Goto
  <1>d. ASSUME NEW op, NEW u, NEW k, Begin(m, op, u, k) PROVE FALSE
    BY <1>1, <1>d DEF Begin
  <1>e. ASSUME UNCHANGED pc PROVE FALSE
    BY <1>e
  <1>4. ~(LookupUser(m) \/ CreateUser(m) \/ LookupDevice(m) \/ Reactivate(m) \/ AddDevice(m)
            \/ SaveConfig(m) \/ CreateTeam(m))
    BY <1>a, <1>b, <1>c
       DEF LookupUser, CreateUser, LookupDevice, Reactivate, AddDevice, SaveConfig, CreateTeam,
           Continue, Statements
  <1>5. ~UserAct(m)
    BY <1>a, <1>d, <1>e
       DEF UserAct, InitDevice, ForceInit, Generate, RemoveKeystore, Lock, Quit, RestoreKeystore,
           ClaimActivates, StartRegister, StartRecover, Retry, RevokeDevice, command
  <1>6. ~Fail(m)
    BY <1>a DEF Fail, ShowError
  <1> QED BY <1>2, <1>3, <1>4, <1>5, <1>6 DEF Step

(* Whoever reaches the dashboard can use it: the config is written from the
   answer to the key that Unlock then caches, and the keystore stays. *)
THEOREM DashboardsUsable == Spec => DashboardUsable
  <1> DEFINE Usable ==
        \A m \in Machines :
          pc[m] # "dashboard" /\ pc'[m] = "dashboard" =>
            session'[m] \in {NoKey, keystore[m]} /\ config[m].device = keystore[m]
  <1>1. ASSUME IInv, [Next]_vars, NEW m \in Machines,
               pc[m] # "dashboard", pc'[m] = "dashboard"
        PROVE  session'[m] \in {NoKey, keystore[m]} /\ config[m].device = keystore[m]
    <2>1. Machine(m) /\ TypeOK
      BY <1>1 DEF IInv, MachineInv
    <2>2. CASE CreateVault(m)
      <3>1. ~Refuse(m, "createVault")
        BY <1>1, <2>1 DEF Refuse, ShowError, Return, TypeOK
      <3>2. pc[m] = "createVault" /\ UNCHANGED session
        BY <2>2, <3>1 DEF CreateVault, Goto, host
      <3> QED BY <2>1, <3>2 DEF Machine, Running, SignedIn, Statements
    <2>3. CASE Unlock(m)
      <3>1. pc[m] = "unlock"
        BY <1>1, <2>3 DEF Unlock, Goto
      <3>2. session'[m] = keystore[m]
        BY <2>1, <2>3 DEF Unlock, Cache, TypeOK
      <3> QED BY <2>1, <3>1, <3>2 DEF Machine, Running, SignedIn, Statements
    <2> QED BY <1>1, <2>2, <2>3, Arrival
  <1>2. IInv /\ [Next]_vars => [Usable]_vars
    BY <1>1
  <1>3. Spec => [][Usable]_vars
    <2> HIDE DEF Usable
    <2> QED BY <1>2, Inductive, PTL DEF Spec
  <1> QED BY <1>3 DEF DashboardUsable

(* How one device row changes. *)
LEMMA DeviceSteps ==
  ASSUME IInv, [Next]_vars, NEW k \in Keys, device'[k] # device[k]
  PROVE  \E m \in Machines :
           \/ /\ pc[m] = "createUser" /\ device[k] = NoDevice /\ who[m] \notin users
              /\ who[m] \in Users /\ device'[k] = [user |-> who[m], status |-> "active"]
           \/ /\ pc[m] = "reactivate" /\ pc'[m] = "saveConfig" /\ key[m] = k
              /\ device[k] # NoDevice
           \/ /\ device[k] = NoDevice /\ device'[k].status = "pending"
           \/ /\ device[k] # NoDevice /\ device'[k].status = "revoked"
           \/ /\ device[k] # NoDevice /\ Pending(k)
  <1>a. TypeOK
    BY DEF IInv
  <1>b. PICK m \in Machines : Step(m) \/ UserAct(m) \/ Fail(m)
    BY DEF Next, vars, server
  <1>c. Machine(m) /\ (pc[m] \in Statements => key[m] \in Keys /\ who[m] \in Users)
    BY DEF IInv, MachineInv, Machine, Running
  <1>d. UNCHANGED device => FALSE
    OBVIOUS
  <1>1. ASSUME CreateUser(m)
        PROVE  /\ pc[m] = "createUser" /\ device[k] = NoDevice /\ who[m] \notin users
               /\ who[m] \in Users /\ device'[k] = [user |-> who[m], status |-> "active"]
    BY <1>a, <1>c, <1>1
       DEF CreateUser, Created, NameFree, Refuse, server, Statements, TypeOK
  <1>2. ASSUME Reactivate(m)
        PROVE  /\ pc[m] = "reactivate" /\ pc'[m] = "saveConfig" /\ key[m] = k
               /\ device[k] # NoDevice
    <2>1. pc[m] = "reactivate" /\ pc'[m] = "saveConfig" /\ key[m] = k
      BY <1>a, <1>2 DEF Reactivate, Goto, TypeOK
    <2>2. device[k].user \in Users
      BY <1>c, <2>1 DEF Machine, Owned, Statements
    <2> QED BY <1>a, <2>1, <2>2, DeviceFields
  <1>3. ASSUME AddDevice(m) PROVE device[k] = NoDevice /\ device'[k].status = "pending"
    BY <1>a, <1>c, <1>3 DEF AddDevice, Refuse, server, Statements, TypeOK
  <1>4. ASSUME NEW l \in Keys, RevokeDevice(m, l)
        PROVE  device[k] # NoDevice /\ device'[k].status = "revoked"
    <2>1. l = k
      BY <1>a, <1>4 DEF RevokeDevice, TypeOK
    <2>2. session[m] \in Keys /\ device[session[m]] # NoDevice
            /\ device[k].user = device[session[m]].user
      BY <1>a, <1>4, <2>1 DEF RevokeDevice, Signer, TypeOK
    <2>3. device[k] # NoDevice
      BY <1>a, <2>2, DeviceFields
    <2>4. device[k] \in [user : users, status : {"pending", "active", "revoked"}]
      BY <1>a, <2>3 DEF TypeOK
    <2>5. device'[k].status = "revoked"
      BY <1>a, <1>4, <2>1, <2>4 DEF RevokeDevice, TypeOK
    <2> QED BY <2>3, <2>5
  <1>5. ASSUME ClaimActivates(m) PROVE device[k] # NoDevice /\ Pending(k)
    <2>1. session[m] = k
      BY <1>a, <1>5 DEF ClaimActivates, TypeOK
    <2> QED BY <1>5, <2>1, NoDeviceFields DEF ClaimActivates, Pending
  <1>6. ~(LookupUser(m) \/ LookupDevice(m) \/ SaveConfig(m) \/ Unlock(m) \/ CreateTeam(m)
            \/ CreateVault(m) \/ Fail(m))
    BY <1>d
       DEF LookupUser, LookupDevice, SaveConfig, Unlock, CreateTeam, CreateVault, Fail,
           Continue, Refuse, server
  <1>7. UserAct(m) => ClaimActivates(m) \/ \E l \in Keys : RevokeDevice(m, l)
    BY <1>d
       DEF UserAct, InitDevice, ForceInit, Generate, RemoveKeystore, Lock, Quit, RestoreKeystore,
           StartRegister, StartRecover, Retry, server
  <1> QED BY <1>b, <1>1, <1>2, <1>3, <1>4, <1>5, <1>6, <1>7 DEF Step

(* A revoked device comes back through Reactivate alone: ClaimInviteToken
   activates pending devices only. *)
THEOREM RevokedStayRevoked == Spec => RevokedOnlyRecovered
  <1> DEFINE Recovered ==
        \A k \in Keys :
          device[k].status = "revoked" /\ device'[k].status # "revoked" =>
            \E m \in Machines :
              pc[m] = "reactivate" /\ pc'[m] # "reactivate" /\ key[m] = k
  <1>1. ASSUME IInv, [Next]_vars, NEW k \in Keys,
               device[k].status = "revoked", device'[k].status # "revoked"
        PROVE  \E m \in Machines :
                 pc[m] = "reactivate" /\ pc'[m] # "reactivate" /\ key[m] = k
    <2>1. device[k] # NoDevice /\ ~Pending(k)
      BY <1>1, NoDeviceFields DEF Pending
    <2> QED BY <1>1, <2>1, DeviceSteps
  <1>2. IInv /\ [Next]_vars => [Recovered]_vars
    BY <1>1
  <1>3. Spec => [][Recovered]_vars
    <2> HIDE DEF Recovered
    <2> QED BY <1>2, Inductive, PTL DEF Spec
  <1> QED BY <1>3 DEF RevokedOnlyRecovered

(* A device that is active from the start is the first of its account: users.username
   is UNIQUE, and every device has a user with a row there. *)
THEOREM FirstDevices == Spec => OneFirstDevice
  <1> DEFINE First ==
        \A k, l \in Keys :
          /\ k # l /\ device[k] = NoDevice /\ device'[k].status = "active"
          => device[l].user # device'[k].user
  <1>1. ASSUME IInv, [Next]_vars, NEW k \in Keys, NEW l \in Keys, k # l,
               device[k] = NoDevice, device'[k].status = "active"
        PROVE  device[l].user # device'[k].user
    <2>1. device'[k] # device[k]
      BY <1>1, NoDeviceFields
    <2>2. PICK m \in Machines : /\ who[m] \notin users /\ who[m] \in Users
                                /\ device'[k] = [user |-> who[m], status |-> "active"]
      BY <1>1, <2>1, DeviceSteps
    <2>3. device'[k].user = who[m]
      BY <2>2
    <2>4. device[l].user = who[m] => who[m] \in users
      BY <1>1, <2>2, DeviceFields DEF IInv
    <2> QED BY <2>2, <2>3, <2>4
  <1>2. IInv /\ [Next]_vars => [First]_vars
    BY <1>1
  <1>3. Spec => [][First]_vars
    <2> HIDE DEF First
    <2> QED BY <1>2, Inductive, PTL DEF Spec
  <1> QED BY <1>3 DEF OneFirstDevice
===============================================================================
