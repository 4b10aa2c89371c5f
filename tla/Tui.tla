-------------------------------- MODULE Tui --------------------------------
(***************************************************************************)
(* The terminal interface of devsync (src/internal/client/tui): a stack of *)
(* screens driven by a Bubble Tea event loop.                              *)
(*                                                                         *)
(* The event loop takes one message at a time.  A screen answers a message *)
(* with its next state and with commands; every command runs in a          *)
(* goroutine of its own and its result comes back as a message, in         *)
(* whatever order the goroutines finish.  The root model carries out the   *)
(* navigation messages (push, pop, replace) and gives everything else to   *)
(* the screen that is on top WHEN THE MESSAGE ARRIVES, which need not be   *)
(* the one that asked for it.                                              *)
(*                                                                         *)
(* Running goroutines are a bag of tasks.  A task is a sequence of items:  *)
(* commands still to run and messages still to deliver; a plain command    *)
(* has one item, tea.Sequence has several and delivers each before it runs *)
(* the next.  The server is whatever it answers: other users change it, so *)
(* a listing may hold anything and any request may fail.  What a screen    *)
(* draws, its status line and the spinner are left out.                    *)
(***************************************************************************)
EXTENDS Naturals, Sequences, Bags, SequencesExt

CONSTANTS
    Vaults, Paths, Teams, Devices,  \* names the server may list
    None,                           \* the absent name
    Sittings,       \* bound: what a user does in one sitting, as records of
                    \*   screens: the screens opened;
                    \*   tasks:   the goroutines running at most when a key is
                    \*            read;
                    \*   typing:  "paced" if a key is read only when no
                    \*            navigation message is on its way, as when a
                    \*            person types; "ahead" if keys may overtake
                    \*            them, as with type-ahead on a slow line
    Filtered,       \* bound: the screens whose list the user filters
    MaxStack        \* bound: screens on the stack

ASSUME TuiConstants ==
    /\ \A s \in Sittings : s.typing \in {"paced", "ahead"} /\ s.tasks \in Nat
    /\ MaxStack \in Nat \ {0}

VARIABLES
    stack,      \* rootModel.stack: the last screen is the one on top
    tasks,      \* the goroutines of the commands: a bag of sequences
    session,    \* the agent holds an unlocked key (actions.IsUnlocked)
    keystore,   \* this machine has a device key
    unlocked,   \* history: some command unlocked the key since the start
    sitting     \* the sitting, which never changes

vars == <<stack, tasks, session, keystore, unlocked, sitting>>

-----------------------------------------------------------------------------
(* Screens, commands and messages.                                         *)

\* Screens that show a list they fetch from the server.
Listings == {"vaults", "files", "history", "teams", "teamPick", "members",
             "devices", "auditPick", "auditLog"}

Screens == Listings \cup
    {"auth", "login", "unlock", "wizard", "recover", "menu", "picker",
     "confirm", "teamName", "vaultName"}

Target == (Vaults \cup Teams \cup Devices \cup {None})
              \X (Paths \cup Teams \cup {None})
Nothing == <<None, None>>

\* The message that carries the listing of a screen: the team picker of a new
\* vault asks for the same message as the list of teams.
Listing(screen) == IF screen = "teamPick" THEN "teams" ELSE screen

Command(name, of) == [cmd |-> name, of |-> of]
NoCommand == Command("none", Nothing)

\* Commands that destroy something, which a screen runs only through a dialog.
Destructive == {"rm", "deleteTeam", "revoke"}

\* A screen as its constructor makes it.
New(screen, of) ==
    [screen |-> screen, of |-> of, cmd |-> NoCommand, items |-> {},
     mode   |-> IF screen \in Listings THEN "loading" ELSE "ready",
     filter |-> FALSE]

UnlockView == New("unlock", Nothing)
Confirm(c) == [New("confirm", Nothing) EXCEPT !.cmd = c]

Msg(name) == [msg |-> name]
PushView(view) == [msg |-> "push", view |-> view]
PopView == Msg("pop")
ShowMenu == [msg |-> "replace", view |-> New("menu", Nothing)]
Result(name, ok) == [msg |-> name, ok |-> ok]
IsMsg(item) == "msg" \in DOMAIN item

\* What a list command may bring: some of the names, each one active (a file
\* that is not deleted, a team the user is in, an active device) or not.  An
\* error brings no item, and the screen shows it as an empty list.
Names(c) ==
    CASE c.cmd \in {"vaults", "auditPick"} -> Vaults \X {None}
      [] c.cmd = "files"   -> {c.of[1]} \X Paths
      [] c.cmd = "teams"   -> Teams \X {None}
      [] c.cmd = "devices" -> Devices \X {None}
      [] OTHER             -> {c.of}

Contents(c) ==
    { {[of |-> n, active |-> f[n]] : n \in DOMAIN f} :
          f \in UNION {[D -> BOOLEAN] : D \in SUBSET Names(c)} }

Load(view) == Command(Listing(view.screen), view.of)

\* The commands a screen starts when it is pushed (its Init).
Starts(view) ==
    IF view.screen \in Listings THEN SetToBag({<<Load(view)>>}) ELSE EmptyBag

Init ==
    /\ stack = <<New("auth", Nothing)>>
    /\ tasks = EmptyBag
    /\ session \in BOOLEAN
    /\ keystore \in BOOLEAN
    /\ unlocked = FALSE
    /\ sitting \in Sittings

Top == Last(stack)

-----------------------------------------------------------------------------
(* What a screen answers a message with.  `rest' is the bag of goroutines  *)
(* once the one that sent the message has gone on.                         *)

Becomes(view, rest) ==
    /\ stack' = [stack EXCEPT ![Len(stack)] = view]
    /\ tasks' = rest

Runs(task, rest) ==
    /\ UNCHANGED stack
    /\ tasks' = rest (+) SetToBag({task})

Opens(view, rest) ==
    /\ Len(stack) < MaxStack
    /\ view.screen \in sitting.screens
    /\ Runs(<<PushView(view)>>, rest)

\* The screen is busy with a command it has just started.
Works(mode, c, rest) ==
    /\ stack' = [stack EXCEPT ![Len(stack)].mode = mode]
    /\ tasks' = rest (+) SetToBag({<<c>>})

Pressed(m, k) == m = [msg |-> "key", key |-> k] /\ Top.mode = "ready"

\* The screen's own listing has arrived.  Nothing says for which vault, path
\* or team it was read.
Shows(m, rest) ==
    /\ m.msg = Listing(Top.screen)
    /\ Becomes([Top EXCEPT !.mode = "ready", !.items = m.items], rest)

\* An action has ended: its outcome goes to the status line, and after a
\* success the list is fetched again.
Reloads(m, rest) ==
    /\ m.msg = "done"
    /\ IF m.ok THEN Runs(<<Load(Top)>>, rest)
               ELSE UNCHANGED stack /\ tasks' = rest

Refreshes(m, rest) ==
    /\ Pressed(m, "r")
    /\ ~Top.filter
    /\ Works("loading", Load(Top), rest)

\* Run c if the key is unlocked, else ask for the passphrase.
IfUnlocked(c, rest) ==
    IF session THEN Runs(<<c>>, rest) ELSE Opens(UnlockView, rest)

-----------------------------------------------------------------------------
(* The screens before the dashboard.                                       *)

AuthScreen(m, rest) ==
    /\ Top.screen = "auth"
    /\ Pressed(m, "enter")
    /\ \E s \in {"login", "wizard", "recover"} : Opens(New(s, Nothing), rest)

\* Mutant: the error of the unlock is not looked at.
BugUnlockScreen(m, rest) ==
    /\ Top.screen \in {"login", "unlock"}
    /\ \/ Pressed(m, "enter") /\ Works("working", Command("unlock", Nothing), rest)
       \/ /\ m.msg = "unlocked"
          /\ Runs(<<IF Top.screen = "login" THEN ShowMenu ELSE PopView>>, rest)

\* Both unlock screens take any unlock result for their own; the one of the
\* log-in goes on to the menu, the other one goes back.
UnlockScreen(m, rest) ==
    /\ Top.screen \in {"login", "unlock"}
    /\ \/ /\ Pressed(m, "enter")
          /\ Works("working", Command("unlock", Nothing), rest)
       \/ /\ m.msg = "unlocked"
          /\ stack' = [stack EXCEPT ![Len(stack)].mode = "ready"]
          /\ tasks' = IF ~m.ok THEN rest
                      ELSE rest (+) SetToBag({<<IF Top.screen = "login"
                                                THEN ShowMenu ELSE PopView>>})

\* submitInputs, for inputs that pass its checks.
SubmitInputs(rest) ==
    Works("working",
          Command(IF keystore THEN "setup" ELSE "init", Nothing), rest)

WizardScreen(m, rest) ==
    /\ Top.screen = "wizard"
    /\ \/ Pressed(m, "enter") /\ SubmitInputs(rest)
       \/ /\ m.msg = "wizardInit"
          /\ Becomes([Top EXCEPT !.mode = IF m.ok THEN "recovery" ELSE "ready"],
                     rest)
       \/ /\ m = [msg |-> "key", key |-> "y"]
          /\ Top.mode = "recovery"
          /\ Becomes([Top EXCEPT !.mode = "saved"], rest)
       \/ /\ m = [msg |-> "key", key |-> "enter"]
          /\ Top.mode \in {"saved", "retry"}
          /\ Works("working", Command("setup", Nothing), rest)
       \/ /\ m.msg = "wizardSetup"
          /\ IF m.ok THEN Runs(<<ShowMenu>>, rest)
                     ELSE Becomes([Top EXCEPT !.mode = "retry"], rest)

\* Mutant: a failed recovery leaves the screen busy.
BugRecoverScreen(m, rest) ==
    /\ Top.screen = "recover"
    /\ \/ /\ Pressed(m, "enter")
          /\ Works("working", Command("recover", Nothing), rest)
       \/ /\ m.msg = "recovered"
          /\ IF m.ok THEN Runs(<<ShowMenu>>, rest)
                     ELSE UNCHANGED stack /\ tasks' = rest

RecoverScreen(m, rest) ==
    /\ Top.screen = "recover"
    /\ \/ /\ Pressed(m, "enter")
          /\ Works("working", Command("recover", Nothing), rest)
       \/ /\ m.msg = "recovered"
          /\ IF m.ok THEN Runs(<<ShowMenu>>, rest)
                     ELSE Becomes([Top EXCEPT !.mode = "ready"], rest)

-----------------------------------------------------------------------------
(* The dashboard.                                                          *)

MenuScreen(m, rest) ==
    /\ Top.screen = "menu"
    /\ Pressed(m, "enter")
    /\ \E s \in {"vaults", "teams", "devices", "auditPick"} :
          Opens(New(s, Nothing), rest)

VaultsScreen(m, rest) ==
    /\ Top.screen = "vaults"
    /\ \/ Shows(m, rest)
       \/ Reloads(m, rest)
       \/ Refreshes(m, rest)
       \/ Pressed(m, "enter") /\ \E i \in Top.items : Opens(New("files", i.of), rest)
       \/ Pressed(m, "c") /\ Opens(New("teamPick", Nothing), rest)

\* The dialog of d names the path only; the command it holds deletes that path
\* in the vault of the screen.
FilesScreen(m, rest) ==
    LET InVault(i) == <<Top.of[1], i.of[2]>>
    IN  /\ Top.screen = "files"
        /\ \/ Shows(m, rest)
           \/ Reloads(m, rest)
           \/ Refreshes(m, rest)
           \/ Pressed(m, "U") /\ Opens(UnlockView, rest)
           \/ /\ Pressed(m, "enter")
              /\ \E i \in Top.items : Opens(New("history", InVault(i)), rest)
           \/ /\ Pressed(m, "p")
              /\ \E i \in Top.items : IfUnlocked(Command("pull", InVault(i)), rest)
           \/ /\ Pressed(m, "u")
              /\ Opens(IF session THEN New("picker", Top.of) ELSE UnlockView, rest)
           \/ /\ Pressed(m, "d")
              /\ \E i \in Top.items :
                    /\ i.active
                    /\ Opens(Confirm(Command("rm", InVault(i))), rest)

\* An action's outcome changes only the status line here.
HistoryScreen(m, rest) ==
    /\ Top.screen = "history"
    /\ \/ Shows(m, rest)
       \/ m.msg = "done" /\ UNCHANGED stack /\ tasks' = rest
       \/ Pressed(m, "U") /\ Opens(UnlockView, rest)
       \/ Pressed(m, "c") /\ Top.items # {} /\ IfUnlocked(Command("checkout", Top.of), rest)

\* The file picker takes the outcome of ANY action for the one of its push.
PickerScreen(m, rest) ==
    /\ Top.screen = "picker"
    /\ \/ /\ Pressed(m, "enter")
          /\ Works("working", Command("push", Top.of), rest)
       \/ /\ m.msg = "done"
          /\ stack' = [stack EXCEPT ![Len(stack)].mode = "ready"]
          /\ tasks' = IF m.ok THEN rest (+) SetToBag({<<PopView, m>>}) ELSE rest

\* Mutant: the dialog asks for its pop once more.
BugConfirmScreen(m, rest) ==
    /\ Top.screen = "confirm"
    /\ \/ /\ Pressed(m, "y")
          /\ UNCHANGED stack
          /\ tasks' = rest (+) SetToBag({<<PopView>>, <<PopView, Top.cmd>>})
       \/ Pressed(m, "n") /\ Runs(<<PopView>>, rest)

\* The dialog stays as it is when it is answered: it relies on the pop.
ConfirmScreen(m, rest) ==
    /\ Top.screen = "confirm"
    /\ \/ Pressed(m, "y") /\ Runs(<<PopView, Top.cmd>>, rest)
       \/ Pressed(m, "n") /\ Runs(<<PopView>>, rest)

TeamPickScreen(m, rest) ==
    /\ Top.screen = "teamPick"
    /\ \/ /\ m.msg = "teams"
          /\ Becomes([Top EXCEPT !.mode = "ready",
                                !.items = {i \in m.items : i.active}], rest)
       \/ Pressed(m, "enter") /\ \E i \in Top.items : Opens(New("vaultName", i.of), rest)

VaultNameScreen(m, rest) ==
    /\ Top.screen = "vaultName"
    /\ \/ /\ Pressed(m, "enter")
          /\ Works("working", Command("createVault", Top.of), rest)
       \/ /\ m.msg = "vaultMade"
          /\ stack' = [stack EXCEPT ![Len(stack)].mode = "ready"]
          /\ tasks' = IF ~m.ok THEN rest
                      ELSE rest (+) SetToBag({<<PopView, PopView, Result("done", TRUE),
                                                Command("vaults", Nothing)>>})

TeamsScreen(m, rest) ==
    /\ Top.screen = "teams"
    /\ \/ Shows(m, rest)
       \/ Reloads(m, rest)
       \/ Refreshes(m, rest)
       \/ Pressed(m, "U") /\ Opens(UnlockView, rest)
       \/ Pressed(m, "c") /\ Opens(New("teamName", Nothing), rest)
       \/ \E i \in Top.items :
             /\ i.active
             /\ \/ Pressed(m, "enter") /\ Opens(New("members", i.of), rest)
                \/ Pressed(m, "d") /\ Opens(Confirm(Command("deleteTeam", i.of)), rest)

TeamNameScreen(m, rest) ==
    /\ Top.screen = "teamName"
    /\ \/ /\ Pressed(m, "enter")
          /\ Works("working", Command("createTeam", Nothing), rest)
       \/ /\ m.msg = "teamMade"
          /\ stack' = [stack EXCEPT ![Len(stack)].mode = "ready"]
          /\ tasks' = IF ~m.ok THEN rest
                      ELSE rest (+) SetToBag({<<PopView, Result("done", TRUE),
                                                Command("teams", Nothing)>>})

MembersScreen(m, rest) ==
    /\ Top.screen = "members"
    /\ \/ Shows(m, rest)
       \/ Reloads(m, rest)
       \/ Refreshes(m, rest)
       \/ Pressed(m, "U") /\ Opens(UnlockView, rest)

\* Mutant: d revokes at once.
BugDevicesScreen(m, rest) ==
    /\ Top.screen = "devices"
    /\ \/ Shows(m, rest)
       \/ /\ Pressed(m, "d")
          /\ \E i \in Top.items : Runs(<<Command("revoke", i.of)>>, rest)

DevicesScreen(m, rest) ==
    /\ Top.screen = "devices"
    /\ \/ Shows(m, rest)
       \/ Reloads(m, rest)
       \/ Refreshes(m, rest)
       \/ Pressed(m, "U") /\ Opens(UnlockView, rest)
       \/ /\ Pressed(m, "d")
          /\ \E i \in Top.items : Opens(Confirm(Command("revoke", i.of)), rest)

AuditPickScreen(m, rest) ==
    /\ Top.screen = "auditPick"
    /\ \/ Shows(m, rest)
       \/ Refreshes(m, rest)
       \/ Pressed(m, "enter") /\ \E i \in Top.items : Opens(New("auditLog", i.of), rest)

AuditLogScreen(m, rest) ==
    /\ Top.screen = "auditLog"
    /\ Shows(m, rest) \/ Refreshes(m, rest)

Screen(m, rest) ==
    \/ AuthScreen(m, rest)      \/ UnlockScreen(m, rest)
    \/ WizardScreen(m, rest)    \/ RecoverScreen(m, rest)
    \/ MenuScreen(m, rest)      \/ VaultsScreen(m, rest)
    \/ FilesScreen(m, rest)     \/ HistoryScreen(m, rest)
    \/ PickerScreen(m, rest)    \/ ConfirmScreen(m, rest)
    \/ TeamPickScreen(m, rest)  \/ VaultNameScreen(m, rest)
    \/ TeamsScreen(m, rest)     \/ TeamNameScreen(m, rest)
    \/ MembersScreen(m, rest)   \/ DevicesScreen(m, rest)
    \/ AuditPickScreen(m, rest) \/ AuditLogScreen(m, rest)

\* The results a screen handles; it lets any other one fall.
Accepts(screen) ==
    (IF screen \in Listings THEN {Listing(screen)} ELSE {}) \cup
    CASE screen \in {"vaults", "files", "history", "teams", "members", "devices",
                     "picker"}            -> {"done"}
      [] screen \in {"login", "unlock"}   -> {"unlocked"}
      [] screen = "wizard"                -> {"wizardInit", "wizardSetup"}
      [] screen = "recover"               -> {"recovered"}
      [] screen = "vaultName"             -> {"vaultMade"}
      [] screen = "teamName"              -> {"teamMade"}
      [] OTHER                            -> {}

-----------------------------------------------------------------------------
(* The root model.                                                         *)

Push(m, rest) ==
    /\ stack' = Append(stack, m.view)
    /\ tasks' = rest (+) Starts(m.view)

\* Mutant: the last screen can be popped.
BugPop(rest) ==
    /\ stack' = Front(stack)
    /\ tasks' = rest

Pop(rest) ==
    /\ stack' = IF Len(stack) > 1 THEN Front(stack) ELSE stack
    /\ tasks' = rest

Replace(m, rest) ==
    /\ stack' = <<m.view>>
    /\ tasks' = rest (+) Starts(m.view)

ToTop(m, rest) ==
    IF m.msg \in Accepts(Top.screen)
    THEN Screen(m, rest)
    ELSE UNCHANGED stack /\ tasks' = rest

\* The goroutines once t has sent or run its first item, which leaves `items'
\* in its place.
After(t, items) ==
    LET left == items \o Tail(t)
    IN  (tasks (-) SetToBag({t})) (+)
            (IF left = <<>> THEN EmptyBag ELSE SetToBag({left}))

\* The event loop takes the message a goroutine is waiting to send.
Deliver(t) ==
    LET m == Head(t)
        rest == After(t, <<>>)
    IN  /\ IsMsg(m)
        /\ CASE m.msg = "push"    -> Push(m, rest)
             [] m.msg = "pop"     -> Pop(rest)
             [] m.msg = "replace" -> Replace(m, rest)
             [] OTHER             -> ToTop(m, rest)
        /\ UNCHANGED <<session, keystore, unlocked, sitting>>

IsNavigation(item) == IsMsg(item) /\ item.msg \in {"push", "pop", "replace"}

Navigating == \E t \in BagToSet(tasks) : \E i \in DOMAIN t : IsNavigation(t[i])

KeyIsRead == sitting.typing = "paced" => ~Navigating

Press(k) ==
    /\ KeyIsRead
    /\ BagCardinality(tasks) < sitting.tasks
    /\ Screen([msg |-> "key", key |-> k], tasks)
    /\ UNCHANGED <<session, keystore, unlocked, sitting>>

\* "/" starts the filter of a list that is not empty.
StartFilter ==
    /\ KeyIsRead
    /\ Top.screen \in Filtered
    /\ Top.screen = "auth" \/ Top.items # {}
    /\ Becomes([Top EXCEPT !.filter = TRUE], tasks)
    /\ UNCHANGED <<session, keystore, unlocked, sitting>>

\* The program ends and its goroutines with it; the user starts it again.
Restart ==
    /\ stack' = <<New("auth", Nothing)>>
    /\ tasks' = EmptyBag
    /\ unlocked' = FALSE

\* esc clears a filter, else leaves the screen at once, else ends the program.
Esc ==
    /\ KeyIsRead
    /\ CASE Top.filter -> /\ Becomes([Top EXCEPT !.filter = FALSE], tasks)
                          /\ UNCHANGED unlocked
         [] ~Top.filter /\ Len(stack) > 1 -> Pop(tasks) /\ UNCHANGED unlocked
         [] OTHER -> Restart
    /\ UNCHANGED <<session, keystore, sitting>>

CtrlC ==
    /\ KeyIsRead
    /\ Restart
    /\ UNCHANGED <<session, keystore, sitting>>

-----------------------------------------------------------------------------
(* The commands: calls of the actions package in a goroutine.              *)

Answers(t, m) ==
    /\ tasks' = After(t, <<m>>)
    /\ UNCHANGED <<stack, sitting>>

\* A list command answers with what the server lists.
FetchList(t) ==
    /\ Head(t).cmd \in Listings
    /\ \E c \in Contents(Head(t)) : Answers(t, [msg |-> Head(t).cmd, items |-> c])
    /\ UNCHANGED <<session, keystore, unlocked>>

\* pullFile, checkoutFile, doPush, doRmFile, doDeleteTeam, doRevoke,
\* doTeamInput and doCreateVault: a signed request, which needs the session.
Act(t) ==
    /\ Head(t).cmd \in Destructive \cup
           {"pull", "checkout", "push", "createTeam", "createVault"}
    /\ \E ok \in IF session THEN BOOLEAN ELSE {FALSE} :
          Answers(t, Result(CASE Head(t).cmd = "createTeam"  -> "teamMade"
                              [] Head(t).cmd = "createVault" -> "vaultMade"
                              [] OTHER                       -> "done", ok))
    /\ UNCHANGED <<session, keystore, unlocked>>

DoUnlock(t) ==
    /\ Head(t).cmd = "unlock"
    /\ \E ok \in {FALSE, keystore} :
          /\ Answers(t, Result("unlocked", ok))
          /\ session' = (session \/ ok)
          /\ unlocked' = (unlocked \/ ok)
    /\ UNCHANGED keystore

DoWizardInit(t) ==
    /\ Head(t).cmd = "init"
    /\ \E ok \in {FALSE, ~keystore} :
          /\ Answers(t, Result("wizardInit", ok))
          /\ keystore' = (keystore \/ ok)
    /\ UNCHANGED <<session, unlocked>>

\* Register, unlock, create the team and the vault: a failure after the unlock
\* leaves the session.
DoWizardSetup(t) ==
    /\ Head(t).cmd = "setup"
    /\ \E opened \in {FALSE, keystore} : \E ok \in {FALSE, opened} :
          /\ Answers(t, Result("wizardSetup", ok))
          /\ session' = (session \/ opened)
          /\ unlocked' = (unlocked \/ opened)
    /\ UNCHANGED keystore

\* Recover saves the key before it registers and unlocks last.
DoRecover(t) ==
    /\ Head(t).cmd = "recover"
    /\ \E saved \in {FALSE, ~keystore} : \E ok \in {FALSE, saved} :
          /\ Answers(t, Result("recovered", ok))
          /\ keystore' = (keystore \/ saved)
          /\ session' = (session \/ ok)
          /\ unlocked' = (unlocked \/ ok)

Run(t) ==
    /\ ~IsMsg(Head(t))
    /\ \/ FetchList(t)    \/ Act(t)           \/ DoUnlock(t)
       \/ DoWizardInit(t) \/ DoWizardSetup(t) \/ DoRecover(t)

\* A goroutine goes on: it runs its command or hands over its message.
TaskStep == \E t \in BagToSet(tasks) : Run(t) \/ Deliver(t)

\* /register is posted without a timeout, unlike the signed requests: a command
\* that registers may wait for ever.
Registers(item) == ~IsMsg(item) /\ item.cmd \in {"setup", "recover"}

\* Any other goroutine goes on.
TimedStep == \E t \in BagToSet(tasks) : ~Registers(Head(t)) /\ (Run(t) \/ Deliver(t))

\* The session's time is over (unlockTTL).
Expire ==
    /\ session
    /\ session' = FALSE
    /\ UNCHANGED <<stack, tasks, keystore, unlocked, sitting>>

Keys == {"enter", "p", "u", "d", "c", "U", "r", "y", "n"}

Next ==
    \/ TaskStep
    \/ \E k \in Keys : Press(k)
    \/ StartFilter
    \/ Esc
    \/ CtrlC
    \/ Expire

\* The runtime schedules every goroutine, signed requests give up after 30 seconds,
\* and the event loop takes every message; the answer to a registration may never
\* come, and the user owes nothing.
Spec == Init /\ [][Next]_vars /\ WF_vars(TimedStep)

-----------------------------------------------------------------------------
(* Properties.                                                             *)

Entry == [of : Target, active : BOOLEAN]

View ==
    [screen : Screens, of : Target,
     cmd    : [cmd : Destructive \cup {"none"}, of : Target],
     items  : SUBSET Entry,
     mode   : {"loading", "ready", "working", "recovery", "saved", "retry"},
     filter : BOOLEAN]

Commands == Listings \cup Destructive \cup
    {"none", "pull", "checkout", "push", "createTeam", "createVault",
     "unlock", "init", "setup", "recover"}

Outcomes == {"done", "unlocked", "wizardInit", "wizardSetup", "recovered",
             "vaultMade", "teamMade"}

\* What a goroutine still has to run or to deliver.
Items ==
    [cmd : Commands, of : Target] \cup
    [msg : {"push", "replace"}, view : View] \cup
    [msg : {"pop"}] \cup
    [msg : Listings, items : SUBSET Entry] \cup
    [msg : Outcomes, ok : BOOLEAN]

\* The stack, its screens and the goroutines.
TypeOK ==
    /\ stack \in Seq(View) \ {<<>>}
    /\ IsABag(tasks)
    /\ BagToSet(tasks) \subseteq Seq(Items) \ {<<>>}
    /\ {session, keystore, unlocked} \subseteq BOOLEAN
    /\ sitting \in Sittings

\* "Esc pops the stack; the top menu is never popped" (app.go): from the log-in
\* on the menu lies under everything, whatever pops and replacements are still
\* on their way from screens the user has left.
MenuIsHome ==
    [][/\ stack' # <<>>
       /\ stack'[1].screen \in {"auth", "menu"}
       /\ stack[1].screen = "menu" => stack'[1].screen = "menu" \/ Restart]_vars

\* The dashboard appears only after a command has unlocked the device key, by
\* whichever of the three ways and whichever screen its result was given to.
DashboardUnlocked == stack[1].screen = "menu" => unlocked

\* How many goroutines hold command c.
Copies(c, bag) ==
    BagCardinality([t \in {u \in BagToSet(bag) : c \in ToSet(u)} |-> bag[t]])

\* The commands that destroy something.
Threats(bag) ==
    {c \in UNION {ToSet(t) : t \in BagToSet(bag)} :
        ~IsMsg(c) /\ c.cmd \in Destructive}

\* A file, a team or a device is deleted only from a dialog on top of the stack
\* that names exactly that command, never by a key on another screen or by a
\* result that arrives late.
Confirmed ==
    [][\A c \in Threats(tasks') :
          Copies(c, tasks') > Copies(c, tasks)
              => Top.screen = "confirm" /\ Top.cmd = c]_vars

\* The pop of an answered dialog removes that dialog, unless the program ends first.
AnswerPopsDialog ==
    ~Restart => \A t \in BagToSet(tasks) :
        /\ Len(t) = 2
        /\ t[1] = PopView
        /\ t[2] \in Threats(tasks)
        /\ BagIn(t, tasks') => tasks'[t] < tasks[t]
        => /\ Top.screen = "confirm"
           /\ Top.cmd = t[2]
           /\ stack' = Front(stack)

\* confirm.go: "When confirmed it pops itself and runs cmd".
PopsItself == [][AnswerPopsDialog]_vars

\* The same for a user whose keys do not overtake the navigation.
PopsItselfPaced == [][sitting.typing = "paced" => AnswerPopsDialog]_vars

Busy(view) == view.mode \in {"loading", "working"}

\* The wizard or the recovery waits for the answer to a registration.
Registering(view) ==
    /\ view.screen \in {"wizard", "recover"}
    /\ \E t \in BagToSet(tasks) : Registers(Head(t))

\* A screen that waits for the server does not wait for ever: for a paced user
\* the result of its command always finds it on top, or the user has left it.
\* Only a registration that is not answered keeps its screen busy.
BusyEnds ==
    \A n \in 1 .. MaxStack :
        (sitting.typing = "paced" /\ n <= Len(stack) /\ Busy(stack[n]))
            ~> (n > Len(stack) \/ ~Busy(stack[n]) \/ Registering(stack[n]))
=============================================================================
