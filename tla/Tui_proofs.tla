----------------------------- MODULE Tui_proofs -----------------------------
(***************************************************************************)
(* What Tui promises for any lists the server may send, any sitting and    *)
(* any depth of the stack:                                                 *)
(*   - the menu stays under every screen once it is there, and it is there *)
(*     only after a command has unlocked the key;                          *)
(*   - the answer to a dialog pops that dialog, for a user whose keys do   *)
(*     not overtake the navigation.                                        *)
(*                                                                         *)
(* A message is given to whichever screen is on top, so nothing about a    *)
(* message can be had from the screen that asked for it.  The first result *)
(* is therefore a property of the MESSAGES: whatever is on its way to the  *)
(* menu has its unlock behind it (HomeInv).  The second one is about the   *)
(* navigation: while the answer to a dialog is on its way nothing else     *)
(* navigates, for no key is read and a dialog lets every result fall       *)
(* (PacedInv).                                                             *)
(***************************************************************************)
EXTENDS Tui, TLAPS

\* What the message x says of the past, when `open' says if the key has been
\* unlocked.
Vouched(x, open) ==
    IsMsg(x) =>
        /\ x.msg = "replace" => open /\ x.view = New("menu", Nothing)
        /\ x.msg \in {"unlocked", "wizardSetup", "recovered"} /\ x.ok => open

\* The log-in or the menu is under everything, and whatever leads to the menu
\* comes after an unlock.
HomeInv ==
    /\ stack[1].screen \in {"auth", "menu"}
    /\ stack[1].screen = "menu" => unlocked
    /\ \A t \in BagToSet(tasks) : \A i \in DOMAIN t : Vouched(t[i], unlocked)

IsThreat(x) == ~IsMsg(x) /\ x.cmd \in Destructive

\* A goroutine that answers a dialog: it pops it and runs its command.
Answering(t) == Len(t) = 2 /\ t[1] = PopView /\ IsThreat(t[2])

\* A command that destroys something is alone in its goroutine, or waits there
\* for the pop of its dialog.
WellFormed(t) ==
    \A i \in DOMAIN t : IsThreat(t[i]) => Len(t) = 1 \/ (i = 2 /\ Answering(t))

ShapeInv == \A t \in BagToSet(tasks) : WellFormed(t)

Navigates(t) == \E i \in DOMAIN t : IsNavigation(t[i])

\* The dialog that t answers is on top and nothing but t navigates.
Alone(t) ==
    /\ Top.screen = "confirm"
    /\ Top.cmd = t[2]
    /\ tasks[t] = 1
    /\ \A u \in BagToSet(tasks) : Navigates(u) => u = t

PacedInv ==
    sitting.typing = "paced" => \A t \in BagToSet(tasks) : Answering(t) => Alone(t)

IInv == TypeOK /\ HomeInv /\ ShapeInv /\ PacedInv


-----------------------------------------------------------------------------
(* Bags: what one goroutine more or one goroutine less makes of them.      *)

LEMMA BagAdd ==
    ASSUME NEW b, IsABag(b), NEW t
    PROVE  LET c == b (+) SetToBag({t})
           IN  /\ IsABag(c)
               /\ BagToSet(c) = BagToSet(b) \cup {t}
               /\ \A u \in BagToSet(b) : u # t => c[u] = b[u]
               /\ t \notin BagToSet(b) => c[t] = 1
  BY DEF IsABag, BagToSet, SetToBag, (+)

LEMMA BagAddNone ==
    ASSUME NEW b, IsABag(b)
    PROVE  LET c == b (+) EmptyBag
           IN  /\ IsABag(c)
               /\ BagToSet(c) = BagToSet(b)
               /\ \A u \in BagToSet(b) : c[u] = b[u]
  BY DEF IsABag, BagToSet, EmptyBag, SetToBag, (+)

LEMMA BagDrop ==
    ASSUME NEW b, IsABag(b), NEW t \in BagToSet(b)
    PROVE  LET c == b (-) SetToBag({t})
           IN  /\ IsABag(c)
               /\ BagToSet(c) \subseteq BagToSet(b)
               /\ BagToSet(b) \ {t} \subseteq BagToSet(c)
               /\ \A u \in BagToSet(c) : u # t => c[u] = b[u]
               /\ b[t] = 1 => t \notin BagToSet(c)
  BY DEF IsABag, BagToSet, SetToBag, (-)

LEMMA EmptyIsABag == IsABag(EmptyBag) /\ BagToSet(EmptyBag) = {}
  BY DEF IsABag, BagToSet, EmptyBag, SetToBag

\* What is left of a goroutine that has sent or run its first item.
Left(t, items) == items \o Tail(t)

LEMMA LeftItems ==
    ASSUME NEW S, NEW t \in Seq(S), Len(t) # 0, NEW m \in S
    PROVE  /\ Len(Left(t, <<m>>)) = Len(t)
           /\ \A i \in 2 .. Len(t) : Left(t, <<m>>)[i] = t[i]
  BY DEF Left

LEMMA AfterBag ==
    ASSUME IsABag(tasks), NEW t \in BagToSet(tasks), NEW items
    PROVE  LET c == After(t, items)
           IN  /\ IsABag(c)
               /\ BagToSet(c) \subseteq
                      BagToSet(tasks) \cup ({Left(t, items)} \ {<<>>})
               /\ BagToSet(tasks) \ {t} \subseteq BagToSet(c)
               /\ \A u \in BagToSet(c) \ {t, Left(t, items)} : c[u] = tasks[u]
               /\ tasks[t] = 1 /\ t # Left(t, items) => t \notin BagToSet(c)
  <1> DEFINE d == tasks (-) SetToBag({t})
             l == Left(t, items)
             e == IF l = <<>> THEN EmptyBag ELSE SetToBag({l})
             c == d (+) e
  <1>1. After(t, items) = c
    BY DEF After, Left
  <1>2. /\ IsABag(d) /\ BagToSet(d) \subseteq BagToSet(tasks)
        /\ BagToSet(tasks) \ {t} \subseteq BagToSet(d)
        /\ \A u \in BagToSet(d) : u # t => d[u] = tasks[u]
        /\ tasks[t] = 1 => t \notin BagToSet(d)
    BY BagDrop
  <1> HIDE DEF d
  <1>3. CASE l = <<>>
    <2>1. c = d (+) EmptyBag
      BY <1>3
    <2> HIDE DEF c
    <2>2. /\ IsABag(c) /\ BagToSet(c) = BagToSet(d)
          /\ \A u \in BagToSet(d) : c[u] = d[u]
      BY <1>2, <2>1, BagAddNone
    <2> QED BY <1>1, <1>2, <2>2, <1>3
  <1>4. CASE l # <<>>
    <2>1. c = d (+) SetToBag({l})
      BY <1>4
    <2> HIDE DEF c
    <2>2. /\ IsABag(c) /\ BagToSet(c) = BagToSet(d) \cup {l}
          /\ \A u \in BagToSet(d) : u # l => c[u] = d[u]
      <3> HIDE DEF l, e
      <3>1. LET x == d (+) SetToBag({l})
            IN  /\ IsABag(x) /\ BagToSet(x) = BagToSet(d) \cup {l}
                /\ \A u \in BagToSet(d) : u # l => x[u] = d[u]
        BY <1>2, BagAdd, Zenon
      <3> QED BY <2>1, <3>1
    <2> QED BY <1>1, <1>2, <2>2, <1>4
  <1> QED BY <1>3, <1>4


-----------------------------------------------------------------------------
(* The operators that make screens, commands and messages.                 *)

LEMMA NewView ==
    ASSUME NEW s \in Screens, NEW of \in Target
    PROVE  New(s, of) \in View /\ New(s, of).screen = s
  <1>1. Nothing \in Target
    BY DEF Nothing, Target
  <1>2. NoCommand \in [cmd : Destructive \cup {"none"}, of : Target]
    BY <1>1 DEF NoCommand, Command
  <1> QED BY <1>2 DEF New, View

LEMMA ConfirmView ==
    ASSUME NEW n \in Destructive, NEW of \in Target
    PROVE  Confirm(Command(n, of)) \in View
  <1>1. New("confirm", Nothing) \in View
    BY NewView DEF Screens, Nothing, Target
  <1>2. Command(n, of) \in [cmd : Destructive \cup {"none"}, of : Target]
    BY DEF Command
  <1> QED BY <1>1, <1>2 DEF Confirm, View

LEMMA CommandItem ==
    ASSUME NEW n \in Commands, NEW of \in Target
    PROVE  /\ Command(n, of) \in Items
           /\ ~IsMsg(Command(n, of))
           /\ Command(n, of).cmd = n
           /\ Command(n, of).of = of
  BY DEF Command, Items, IsMsg

LEMMA ResultItem ==
    ASSUME NEW n \in Outcomes, NEW ok \in BOOLEAN
    PROVE  /\ Result(n, ok) \in Items
           /\ IsMsg(Result(n, ok))
           /\ Result(n, ok).msg = n
           /\ Result(n, ok).ok = ok
  BY DEF Result, Items, IsMsg

LEMMA PushItem ==
    ASSUME NEW v \in View
    PROVE  /\ PushView(v) \in Items
           /\ IsMsg(PushView(v))
           /\ PushView(v).msg = "push"
           /\ PushView(v).view = v
  BY DEF PushView, Items, IsMsg

LEMMA PopItem ==
    PopView \in Items /\ IsMsg(PopView) /\ PopView.msg = "pop"
  BY DEF PopView, Msg, Items, IsMsg

LEMMA MenuItem ==
    /\ ShowMenu \in Items
    /\ IsMsg(ShowMenu)
    /\ ShowMenu.msg = "replace"
    /\ ShowMenu.view = New("menu", Nothing)
  <1>1. New("menu", Nothing) \in View
    BY NewView DEF Screens, Nothing, Target
  <1> QED BY <1>1 DEF ShowMenu, Items, IsMsg

LEMMA ItemFields ==
    ASSUME NEW x \in Items
    PROVE  /\ IsMsg(x) =>
                /\ x.msg \in {"push", "replace", "pop"} \cup Listings \cup Outcomes
                /\ x.msg \in {"push", "replace"} => x.view \in View
                /\ x.msg \in Listings => x.items \subseteq Entry
                /\ x.msg \in Outcomes => x.ok \in BOOLEAN
           /\ ~IsMsg(x) => x.cmd \in Commands /\ x.of \in Target
  BY DEF Items, IsMsg, Listings, Outcomes

LEMMA TopView ==
    ASSUME TypeOK
    PROVE  /\ Len(stack) \in Nat \ {0}
           /\ Top = stack[Len(stack)]
           /\ Top \in View
           /\ Top.screen \in Screens
           /\ Top.of \in Target
           /\ Top.items \subseteq Entry
  <1>1. stack \in Seq(View) /\ stack # <<>>
    BY DEF TypeOK
  <1>2. Len(stack) \in Nat \ {0} /\ stack[Len(stack)] \in View
    BY <1>1
  <1>3. Top = stack[Len(stack)]
    BY DEF Top, Last
  <1> QED BY <1>2, <1>3 DEF View

LEMMA LoadItem ==
    ASSUME NEW v \in View, v.screen \in Listings
    PROVE  Load(v) \in Items /\ ~IsMsg(Load(v)) /\ Load(v).cmd \notin Destructive
  <1>1. Listing(v.screen) \in Commands \ Destructive
    BY DEF Listing, Commands, Listings, Destructive
  <1> QED BY <1>1, CommandItem DEF Load, View


-----------------------------------------------------------------------------
(* What a screen can do.                                                   *)

\* A goroutine that the screen on top may start.
Fit(t) ==
    /\ t \in Seq(Items) \ {<<>>}
    /\ \A i \in DOMAIN t : Vouched(t[i], unlocked)
    /\ WellFormed(t)
    /\ Answering(t) => Top.screen = "confirm" /\ Top.cmd = t[2]

\* The screen on top stays, with its command, and one goroutine starts at most.
Effect(rest) ==
    /\ \E v \in View :
          /\ v.screen = Top.screen
          /\ v.cmd = Top.cmd
          /\ stack' = [stack EXCEPT ![Len(stack)] = v]
    /\ tasks' = rest \/ \E t : Fit(t) /\ tasks' = rest (+) SetToBag({t})

\* The message is a key, or one that a goroutine has sent.
Sent(m) == m.msg # "key" => m \in Items /\ IsMsg(m) /\ Vouched(m, unlocked)

LEMMA SingleFit ==
    ASSUME NEW x \in Items, Vouched(x, unlocked), ~IsThreat(x)
    PROVE  Fit(<<x>>)
  <1>1. <<x>> \in Seq(Items) \ {<<>>} /\ DOMAIN <<x>> = {1} /\ <<x>>[1] = x /\ Len(<<x>>) = 1
    OBVIOUS
  <1> HIDE DEF Items
  <1> QED BY <1>1 DEF Fit, WellFormed, Answering

LEMMA CommandFit ==
    ASSUME NEW n \in Commands \ Destructive, NEW of \in Target
    PROVE  Fit(<<Command(n, of)>>)
  BY CommandItem, SingleFit DEF Vouched, IsThreat

LEMMA PushFit ==
    ASSUME NEW v \in View
    PROVE  Fit(<<PushView(v)>>)
  BY PushItem, SingleFit DEF Vouched, IsThreat

LEMMA PopFit == Fit(<<PopView>>)
  BY PopItem, SingleFit DEF Vouched, IsThreat

LEMMA MenuFit ==
    ASSUME unlocked
    PROVE  Fit(<<ShowMenu>>)
  BY MenuItem, SingleFit DEF Vouched, IsThreat

LEMMA SameStack ==
    ASSUME TypeOK
    PROVE  /\ Top \in View
           /\ stack = [stack EXCEPT ![Len(stack)] = Top]
  <1>1. stack \in Seq(View)
    BY DEF TypeOK
  <1> QED BY <1>1, TopView

LEMMA Quiet ==
    ASSUME TypeOK, NEW rest, UNCHANGED stack, tasks' = rest
    PROVE  Effect(rest)
  BY SameStack DEF Effect

LEMMA BecomesEffect ==
    ASSUME NEW v \in View, v.screen = Top.screen, v.cmd = Top.cmd,
           NEW rest, Becomes(v, rest)
    PROVE  Effect(rest)
  BY DEF Becomes, Effect

LEMMA RunsEffect ==
    ASSUME TypeOK, NEW t, Fit(t), NEW rest, Runs(t, rest)
    PROVE  Effect(rest)
  BY SameStack DEF Runs, Effect

LEMMA OpensEffect ==
    ASSUME TypeOK, NEW v \in View, NEW rest, Opens(v, rest)
    PROVE  Effect(rest)
  BY PushFit, RunsEffect DEF Opens

LEMMA OpensNew ==
    ASSUME TypeOK, NEW s \in Screens, NEW of \in Target, NEW rest,
           Opens(New(s, of), rest)
    PROVE  Effect(rest)
  BY NewView, OpensEffect

LEMMA NothingIsTarget == Nothing \in Target
  BY DEF Nothing, Target

LEMMA OpensUnlock ==
    ASSUME TypeOK, NEW rest, Opens(UnlockView, rest)
    PROVE  Effect(rest)
  <1>1. "unlock" \in Screens
    BY DEF Screens
  <1> QED BY <1>1, OpensNew, NothingIsTarget DEF UnlockView

Modes == {"loading", "ready", "working", "recovery", "saved", "retry"}

\* The screen changes its mode and at most one goroutine starts.
LEMMA ModeEffect ==
    ASSUME TypeOK, NEW mode \in Modes, NEW rest,
           stack' = [stack EXCEPT ![Len(stack)].mode = mode],
           tasks' = rest \/ \E t : Fit(t) /\ tasks' = rest (+) SetToBag({t})
    PROVE  Effect(rest)
  <1> DEFINE v == [Top EXCEPT !.mode = mode]
  <1>1. v \in View /\ v.screen = Top.screen /\ v.cmd = Top.cmd
    BY TopView DEF View, Modes
  <1>2. stack' = [stack EXCEPT ![Len(stack)] = v]
    BY TopView
  <1> HIDE DEF v
  <1> QED BY <1>1, <1>2 DEF Effect

LEMMA WorksEffect ==
    ASSUME TypeOK, NEW mode \in Modes, NEW c \in Items, ~IsMsg(c),
           c.cmd \notin Destructive, NEW rest, Works(mode, c, rest)
    PROVE  Effect(rest)
  <1>1. Fit(<<c>>)
    BY SingleFit DEF Vouched, IsThreat
  <1> QED BY <1>1, ModeEffect DEF Works

LEMMA WorksCommand ==
    ASSUME TypeOK, NEW n \in Commands \ Destructive, NEW of \in Target, NEW rest,
           Works("working", Command(n, of), rest)
    PROVE  Effect(rest)
  <1>1. "working" \in Modes
    BY DEF Modes
  <1> QED BY <1>1, CommandItem, WorksEffect

LEMMA IfUnlockedEffect ==
    ASSUME TypeOK, NEW n \in Commands \ Destructive, NEW of \in Target, NEW rest,
           IfUnlocked(Command(n, of), rest)
    PROVE  Effect(rest)
  BY CommandFit, RunsEffect, OpensUnlock DEF IfUnlocked

LEMMA ShowsEffect ==
    ASSUME TypeOK, NEW m, Sent(m), NEW rest, Top.screen \in Listings, Shows(m, rest)
    PROVE  Effect(rest)
  <1>1. Listing(Top.screen) \in Listings
    BY DEF Listing, Listings
  <1>2. "key" \notin Listings
    BY DEF Listings
  <1>3. m.items \subseteq Entry
    BY <1>1, <1>2, ItemFields DEF Sent, Shows
  <1> DEFINE v == [Top EXCEPT !.mode = "ready", !.items = m.items]
  <1>4. v \in View /\ v.screen = Top.screen /\ v.cmd = Top.cmd
    BY <1>3, TopView DEF View
  <1>5. Becomes(v, rest)
    BY DEF Shows
  <1> HIDE DEF v
  <1> QED BY <1>4, <1>5, BecomesEffect

LEMMA ReloadsEffect ==
    ASSUME TypeOK, NEW m, NEW rest, Top.screen \in Listings, Reloads(m, rest)
    PROVE  Effect(rest)
  <1>1. Fit(<<Load(Top)>>)
    BY TopView, LoadItem, SingleFit DEF Vouched, IsThreat
  <1> QED BY <1>1, RunsEffect, Quiet DEF Reloads

LEMMA RefreshesEffect ==
    ASSUME TypeOK, NEW m, NEW rest, Top.screen \in Listings, Refreshes(m, rest)
    PROVE  Effect(rest)
  <1>1. "loading" \in Modes
    BY DEF Modes
  <1> QED BY <1>1, TopView, LoadItem, WorksEffect DEF Refreshes


LEMMA BecomesMode ==
    ASSUME TypeOK, NEW mode \in Modes, NEW rest,
           Becomes([Top EXCEPT !.mode = mode], rest)
    PROVE  Effect(rest)
  <1> DEFINE v == [Top EXCEPT !.mode = mode]
  <1>1. v \in View /\ v.screen = Top.screen /\ v.cmd = Top.cmd
    BY TopView DEF View, Modes
  <1> HIDE DEF v
  <1> QED BY <1>1, BecomesEffect DEF v

\* A goroutine that destroys nothing.
LEMMA HarmlessFit ==
    ASSUME NEW t \in Seq(Items) \ {<<>>},
           \A i \in DOMAIN t : Vouched(t[i], unlocked) /\ ~IsThreat(t[i])
    PROVE  Fit(t)
  <1>1. ~Answering(t)
    <2> SUFFICES ASSUME Len(t) = 2, IsThreat(t[2]) PROVE FALSE
      BY DEF Answering
    <2>1. 2 \in DOMAIN t
      BY DEF Fit
    <2> QED BY <2>1
  <1> QED BY <1>1 DEF Fit, WellFormed

LEMMA AuthEffect ==
    ASSUME TypeOK, NEW m, NEW rest, AuthScreen(m, rest)
    PROVE  Effect(rest)
  <1>1. {"login", "wizard", "recover"} \subseteq Screens
    BY DEF Screens
  <1> QED BY <1>1, OpensNew, NothingIsTarget DEF AuthScreen

LEMMA UnlockEffect ==
    ASSUME TypeOK, NEW m, Sent(m), NEW rest, UnlockScreen(m, rest)
    PROVE  Effect(rest)
  <1>1. "unlock" \in Commands \ Destructive /\ "ready" \in Modes
    BY DEF Commands, Destructive, Modes
  <1>2. CASE Works("working", Command("unlock", Nothing), rest)
    BY <1>1, <1>2, WorksCommand, NothingIsTarget
  <1>3. CASE /\ m.msg = "unlocked"
             /\ stack' = [stack EXCEPT ![Len(stack)].mode = "ready"]
             /\ tasks' = IF ~m.ok THEN rest
                         ELSE rest (+) SetToBag({<<IF Top.screen = "login"
                                                   THEN ShowMenu ELSE PopView>>})
    <2>1. m.ok => unlocked
      BY <1>3 DEF Sent, Vouched
    <2>2. m.ok => Fit(<<IF Top.screen = "login" THEN ShowMenu ELSE PopView>>)
      BY <2>1, MenuFit, PopFit
    <2> QED BY <1>1, <1>3, <2>2, ModeEffect
  <1> QED BY <1>2, <1>3 DEF UnlockScreen

LEMMA WizardEffect ==
    ASSUME TypeOK, NEW m, Sent(m), NEW rest, WizardScreen(m, rest)
    PROVE  Effect(rest)
  <1>1. /\ {"setup", "init"} \subseteq Commands \ Destructive
        /\ {"recovery", "ready", "saved", "retry"} \subseteq Modes
    BY DEF Commands, Destructive, Modes
  <1>2. CASE SubmitInputs(rest)
    <2>1. (IF keystore THEN "setup" ELSE "init") \in Commands \ Destructive
      BY <1>1
    <2> QED BY <1>2, <2>1, WorksCommand, NothingIsTarget DEF SubmitInputs
  <1>3. CASE Becomes([Top EXCEPT !.mode = IF m.ok THEN "recovery" ELSE "ready"], rest)
    BY <1>1, <1>3, BecomesMode
  <1>4. CASE Becomes([Top EXCEPT !.mode = "saved"], rest)
    BY <1>1, <1>4, BecomesMode
  <1>5. CASE Works("working", Command("setup", Nothing), rest)
    BY <1>1, <1>5, WorksCommand, NothingIsTarget
  <1>6. CASE /\ m.msg = "wizardSetup"
             /\ IF m.ok THEN Runs(<<ShowMenu>>, rest)
                        ELSE Becomes([Top EXCEPT !.mode = "retry"], rest)
    <2>1. m.ok => unlocked
      BY <1>6 DEF Sent, Vouched
    <2> QED BY <1>1, <1>6, <2>1, MenuFit, RunsEffect, BecomesMode
  <1> QED BY <1>2, <1>3, <1>4, <1>5, <1>6 DEF WizardScreen

LEMMA RecoverEffect ==
    ASSUME TypeOK, NEW m, Sent(m), NEW rest, RecoverScreen(m, rest)
    PROVE  Effect(rest)
  <1>1. "recover" \in Commands \ Destructive /\ "ready" \in Modes
    BY DEF Commands, Destructive, Modes
  <1>2. CASE Works("working", Command("recover", Nothing), rest)
    BY <1>1, <1>2, WorksCommand, NothingIsTarget
  <1>3. CASE /\ m.msg = "recovered"
             /\ IF m.ok THEN Runs(<<ShowMenu>>, rest)
                        ELSE Becomes([Top EXCEPT !.mode = "ready"], rest)
    <2>1. m.ok => unlocked
      BY <1>3 DEF Sent, Vouched
    <2> QED BY <1>1, <1>3, <2>1, MenuFit, RunsEffect, BecomesMode
  <1> QED BY <1>2, <1>3 DEF RecoverScreen

LEMMA MenuEffect ==
    ASSUME TypeOK, NEW m, NEW rest, MenuScreen(m, rest)
    PROVE  Effect(rest)
  <1>1. {"vaults", "teams", "devices", "auditPick"} \subseteq Screens
    BY DEF Screens, Listings
  <1> QED BY <1>1, OpensNew, NothingIsTarget DEF MenuScreen

LEMMA EntryTarget ==
    ASSUME TypeOK, NEW i \in Top.items
    PROVE  /\ i.of \in Target
           /\ <<Top.of[1], i.of[2]>> \in Target
  <1>1. i.of \in Target /\ Top.of \in Target
    BY TopView DEF Entry
  <1> QED BY <1>1 DEF Target

LEMMA VaultsEffect ==
    ASSUME TypeOK, NEW m, Sent(m), NEW rest, VaultsScreen(m, rest)
    PROVE  Effect(rest)
  <1>1. {"files", "teamPick"} \subseteq Screens /\ Top.screen \in Listings
    BY DEF Screens, Listings, VaultsScreen
  <1> QED BY <1>1, ShowsEffect, ReloadsEffect, RefreshesEffect, OpensNew, EntryTarget,
             NothingIsTarget DEF VaultsScreen


LEMMA FilesEffect ==
    ASSUME TypeOK, NEW m, Sent(m), NEW rest, FilesScreen(m, rest)
    PROVE  Effect(rest)
  <1>1. /\ {"history", "picker"} \subseteq Screens
        /\ Top.screen \in Listings
        /\ "pull" \in Commands \ Destructive
        /\ "rm" \in Destructive
    BY DEF Screens, Listings, FilesScreen, Commands, Destructive
  <1>2. CASE Shows(m, rest) \/ Reloads(m, rest) \/ Refreshes(m, rest)
    BY <1>1, <1>2, ShowsEffect, ReloadsEffect, RefreshesEffect
  <1>3. CASE Opens(UnlockView, rest)
    BY <1>3, OpensUnlock
  <1>4. CASE Opens(New("picker", Top.of), rest)
    BY <1>1, <1>4, OpensNew, TopView
  <1>5. ASSUME NEW i \in Top.items, NEW of, of = <<Top.of[1], i.of[2]>>,
               \/ Opens(New("history", of), rest)
               \/ IfUnlocked(Command("pull", of), rest)
               \/ Opens(Confirm(Command("rm", of)), rest)
        PROVE  Effect(rest)
    <2>1. of \in Target
      BY <1>5, EntryTarget
    <2> QED BY <1>1, <1>5, <2>1, OpensNew, IfUnlockedEffect, ConfirmView, OpensEffect
  <1> QED BY <1>2, <1>3, <1>4, <1>5 DEF FilesScreen

LEMMA HistoryEffect ==
    ASSUME TypeOK, NEW m, Sent(m), NEW rest, HistoryScreen(m, rest)
    PROVE  Effect(rest)
  <1>1. "checkout" \in Commands \ Destructive /\ Top.screen \in Listings
    BY DEF Listings, HistoryScreen, Commands, Destructive
  <1> QED BY <1>1, ShowsEffect, Quiet, OpensUnlock, IfUnlockedEffect, TopView
          DEF HistoryScreen

LEMMA PickerEffect ==
    ASSUME TypeOK, NEW m, Sent(m), NEW rest, PickerScreen(m, rest)
    PROVE  Effect(rest)
  <1>1. "push" \in Commands \ Destructive /\ "ready" \in Modes
    BY DEF Commands, Destructive, Modes
  <1>2. CASE Works("working", Command("push", Top.of), rest)
    BY <1>1, <1>2, WorksCommand, TopView
  <1>3. CASE /\ m.msg = "done"
             /\ stack' = [stack EXCEPT ![Len(stack)].mode = "ready"]
             /\ tasks' = IF m.ok THEN rest (+) SetToBag({<<PopView, m>>}) ELSE rest
    <2>1. m \in Items /\ IsMsg(m) /\ Vouched(m, unlocked)
      BY <1>3 DEF Sent
    <2> DEFINE t == <<PopView, m>>
    <2>2. /\ t \in Seq(Items) \ {<<>>} /\ DOMAIN t = {1, 2}
          /\ t[1] = PopView /\ t[2] = m
      BY <2>1, PopItem
    <2> HIDE DEF t
    <2>3. Fit(t)
      BY <2>1, <2>2, PopItem, HarmlessFit DEF Vouched, IsThreat
    <2> QED BY <1>1, <1>3, <2>3, ModeEffect DEF t
  <1> QED BY <1>2, <1>3 DEF PickerScreen

LEMMA ConfirmEffect ==
    ASSUME TypeOK, NEW m, NEW rest, ConfirmScreen(m, rest)
    PROVE  Effect(rest)
  <1> DEFINE t == <<PopView, Top.cmd>>
  <1>1. Top.cmd \in Items /\ ~IsMsg(Top.cmd)
    <2>1. Top.cmd \in [cmd : Destructive \cup {"none"}, of : Target]
      BY TopView DEF View
    <2> QED BY <2>1 DEF Items, Commands, IsMsg
  <1>2. /\ t \in Seq(Items) \ {<<>>} /\ DOMAIN t = {1, 2} /\ Len(t) = 2
        /\ t[1] = PopView /\ t[2] = Top.cmd
    BY <1>1, PopItem
  <1>3. Top.screen = "confirm"
    BY DEF ConfirmScreen
  <1>4. Runs(t, rest) \/ Runs(<<PopView>>, rest)
    BY DEF ConfirmScreen
  <1> HIDE DEF t
  <1>5. Fit(t)
    <2>1. \A i \in DOMAIN t : Vouched(t[i], unlocked)
      BY <1>1, <1>2, PopItem DEF Vouched
    <2>2. WellFormed(t)
      BY <1>1, <1>2, PopItem DEF WellFormed, Answering, IsThreat
    <2> QED BY <1>2, <1>3, <2>1, <2>2 DEF Fit
  <1> QED BY <1>4, <1>5, PopFit, RunsEffect

LEMMA TeamPickEffect ==
    ASSUME TypeOK, NEW m, Sent(m), NEW rest, TeamPickScreen(m, rest)
    PROVE  Effect(rest)
  <1>1. "vaultName" \in Screens /\ "teams" \in Listings
    BY DEF Screens, Listings
  <1>2. ASSUME NEW i \in Top.items, Opens(New("vaultName", i.of), rest)
        PROVE  Effect(rest)
    BY <1>1, <1>2, OpensNew, EntryTarget
  <1>3. ASSUME m.msg = "teams", NEW v,
               v = [Top EXCEPT !.mode = "ready", !.items = {i \in m.items : i.active}],
               Becomes(v, rest)
        PROVE  Effect(rest)
    <2>1. m.items \subseteq Entry
      BY <1>1, <1>3, ItemFields DEF Sent
    <2>2. v \in View /\ v.screen = Top.screen /\ v.cmd = Top.cmd
      BY <1>3, <2>1, TopView DEF View
    <2> QED BY <1>3, <2>2, BecomesEffect
  <1> QED BY <1>2, <1>3 DEF TeamPickScreen


\* The screens that make a team and a vault close with a list to fetch.
LEMMA MadeFit ==
    ASSUME NEW n \in Commands \ Destructive
    PROVE  /\ Fit(<<PopView, Result("done", TRUE), Command(n, Nothing)>>)
           /\ Fit(<<PopView, PopView, Result("done", TRUE), Command(n, Nothing)>>)
  <1> DEFINE r == Result("done", TRUE)
             c == Command(n, Nothing)
             Good(x) == x \in Items /\ Vouched(x, unlocked) /\ ~IsThreat(x)
  <1>1. Good(PopView)
    BY PopItem DEF Vouched, IsThreat
  <1>2. Good(r)
    <2>1. "done" \in Outcomes
      BY DEF Outcomes
    <2> QED BY <2>1, ResultItem DEF Vouched, IsThreat
  <1>3. Good(c)
    BY CommandItem, NothingIsTarget DEF Vouched, IsThreat
  <1> HIDE DEF r, c
  <1>4. ASSUME NEW t \in {<<PopView, r, c>>, <<PopView, PopView, r, c>>}
        PROVE  Fit(t)
    <2> HIDE DEF Good
    <2>1. t \in Seq(Items) \ {<<>>}
      <3>1. PopView \in Items /\ r \in Items /\ c \in Items
        BY <1>1, <1>2, <1>3 DEF Good
      <3>2. CASE t = <<PopView, r, c>>
        BY <3>1, <3>2
      <3>3. CASE t = <<PopView, PopView, r, c>>
        BY <3>1, <3>3
      <3> QED BY <3>2, <3>3
    <2>2. \A i \in DOMAIN t : t[i] \in {PopView, r, c}
      OBVIOUS
    <2>3. \A i \in DOMAIN t : Vouched(t[i], unlocked) /\ ~IsThreat(t[i])
      BY <1>1, <1>2, <1>3, <2>2 DEF Good
    <2> QED BY <2>1, <2>3, HarmlessFit
  <1> QED BY <1>4 DEF r, c

LEMMA VaultNameEffect ==
    ASSUME TypeOK, NEW m, NEW rest, VaultNameScreen(m, rest)
    PROVE  Effect(rest)
  <1>1. {"createVault", "vaults"} \subseteq Commands \ Destructive /\ "ready" \in Modes
    BY DEF Commands, Listings, Destructive, Modes
  <1>2. CASE Works("working", Command("createVault", Top.of), rest)
    BY <1>1, <1>2, WorksCommand, TopView
  <1>3. CASE /\ stack' = [stack EXCEPT ![Len(stack)].mode = "ready"]
             /\ tasks' = IF ~m.ok THEN rest
                         ELSE rest (+) SetToBag({<<PopView, PopView,
                                 Result("done", TRUE), Command("vaults", Nothing)>>})
    BY <1>1, <1>3, MadeFit, ModeEffect
  <1> QED BY <1>2, <1>3 DEF VaultNameScreen

LEMMA TeamNameEffect ==
    ASSUME TypeOK, NEW m, NEW rest, TeamNameScreen(m, rest)
    PROVE  Effect(rest)
  <1>1. {"createTeam", "teams"} \subseteq Commands \ Destructive /\ "ready" \in Modes
    BY DEF Commands, Listings, Destructive, Modes
  <1>2. CASE Works("working", Command("createTeam", Nothing), rest)
    BY <1>1, <1>2, WorksCommand, NothingIsTarget
  <1>3. CASE /\ stack' = [stack EXCEPT ![Len(stack)].mode = "ready"]
             /\ tasks' = IF ~m.ok THEN rest
                         ELSE rest (+) SetToBag({<<PopView, Result("done", TRUE),
                                                   Command("teams", Nothing)>>})
    BY <1>1, <1>3, MadeFit, ModeEffect
  <1> QED BY <1>2, <1>3 DEF TeamNameScreen

LEMMA TeamsEffect ==
    ASSUME TypeOK, NEW m, Sent(m), NEW rest, TeamsScreen(m, rest)
    PROVE  Effect(rest)
  <1>1. /\ {"teamName", "members"} \subseteq Screens
        /\ Top.screen \in Listings
        /\ "deleteTeam" \in Destructive
    BY DEF Screens, Listings, TeamsScreen, Destructive
  <1>2. CASE Shows(m, rest) \/ Reloads(m, rest) \/ Refreshes(m, rest)
    BY <1>1, <1>2, ShowsEffect, ReloadsEffect, RefreshesEffect
  <1>3. CASE Opens(UnlockView, rest) \/ Opens(New("teamName", Nothing), rest)
    BY <1>1, <1>3, OpensUnlock, OpensNew, NothingIsTarget
  <1>4. ASSUME NEW i \in Top.items,
               \/ Opens(New("members", i.of), rest)
               \/ Opens(Confirm(Command("deleteTeam", i.of)), rest)
        PROVE  Effect(rest)
    BY <1>1, <1>4, EntryTarget, OpensNew, ConfirmView, OpensEffect
  <1> QED BY <1>2, <1>3, <1>4 DEF TeamsScreen

LEMMA MembersEffect ==
    ASSUME TypeOK, NEW m, Sent(m), NEW rest, MembersScreen(m, rest)
    PROVE  Effect(rest)
  <1>1. Top.screen \in Listings
    BY DEF Listings, MembersScreen
  <1> QED BY <1>1, ShowsEffect, ReloadsEffect, RefreshesEffect, OpensUnlock
          DEF MembersScreen

LEMMA DevicesEffect ==
    ASSUME TypeOK, NEW m, Sent(m), NEW rest, DevicesScreen(m, rest)
    PROVE  Effect(rest)
  <1>1. Top.screen \in Listings /\ "revoke" \in Destructive
    BY DEF Listings, DevicesScreen, Destructive
  <1>2. CASE Shows(m, rest) \/ Reloads(m, rest) \/ Refreshes(m, rest)
    BY <1>1, <1>2, ShowsEffect, ReloadsEffect, RefreshesEffect
  <1>3. CASE Opens(UnlockView, rest)
    BY <1>3, OpensUnlock
  <1>4. ASSUME NEW i \in Top.items, Opens(Confirm(Command("revoke", i.of)), rest)
        PROVE  Effect(rest)
    BY <1>1, <1>4, EntryTarget, ConfirmView, OpensEffect
  <1> QED BY <1>2, <1>3, <1>4 DEF DevicesScreen

LEMMA AuditEffect ==
    ASSUME TypeOK, NEW m, Sent(m), NEW rest,
           AuditPickScreen(m, rest) \/ AuditLogScreen(m, rest)
    PROVE  Effect(rest)
  <1>1. "auditLog" \in Screens /\ Top.screen \in Listings
    BY DEF Screens, Listings, AuditPickScreen, AuditLogScreen
  <1> QED BY <1>1, ShowsEffect, RefreshesEffect, EntryTarget, OpensNew
          DEF AuditPickScreen, AuditLogScreen

LEMMA ScreenEffect ==
    ASSUME TypeOK, NEW m, Sent(m), NEW rest, Screen(m, rest)
    PROVE  Effect(rest)
  BY AuthEffect, UnlockEffect, WizardEffect, RecoverEffect, MenuEffect, VaultsEffect,
     FilesEffect, HistoryEffect, PickerEffect, ConfirmEffect, TeamPickEffect,
     VaultNameEffect, TeamsEffect, TeamNameEffect, MembersEffect, DevicesEffect,
     AuditEffect DEF Screen


-----------------------------------------------------------------------------
(* The invariant, step by step.                                            *)

\* Goroutines as the invariant wants them.
Fine(t, open) ==
    /\ t \in Seq(Items) \ {<<>>}
    /\ \A i \in DOMAIN t : Vouched(t[i], open)
    /\ WellFormed(t)

FineBag(b, open) == IsABag(b) /\ \A t \in BagToSet(b) : Fine(t, open)

LEMMA Parts ==
    ASSUME IInv
    PROVE  TypeOK /\ HomeInv /\ PacedInv /\ FineBag(tasks, unlocked)
  BY DEF IInv, TypeOK, HomeInv, ShapeInv, FineBag, Fine

\* The stack and the log-in of a step.
StackInv ==
    /\ stack \in Seq(View) \ {<<>>}
    /\ stack[1].screen \in {"auth", "menu"}
    /\ stack[1].screen = "menu" => unlocked
    /\ {session, keystore, unlocked} \subseteq BOOLEAN
    /\ sitting \in Sittings

LEMMA Whole ==
    ASSUME StackInv', FineBag(tasks', unlocked'), PacedInv'
    PROVE  IInv'
  BY DEF IInv, TypeOK, HomeInv, ShapeInv, FineBag, Fine, StackInv

LEMMA EffectStack ==
    ASSUME TypeOK, NEW rest, Effect(rest)
    PROVE  /\ stack' \in Seq(View) \ {<<>>}
           /\ Len(stack') = Len(stack)
           /\ stack'[1].screen = stack[1].screen
           /\ Top'.screen = Top.screen
           /\ Top'.cmd = Top.cmd
  <1>1. stack \in Seq(View) /\ stack # <<>>
    BY DEF TypeOK
  <1>2. PICK v \in View : /\ v.screen = Top.screen
                          /\ v.cmd = Top.cmd
                          /\ stack' = [stack EXCEPT ![Len(stack)] = v]
    BY DEF Effect
  <1>3. Len(stack) \in Nat \ {0} /\ Top = stack[Len(stack)]
    BY TopView
  <1>4. stack' \in Seq(View) /\ Len(stack') = Len(stack)
    BY <1>1, <1>2
  <1>5. stack'[Len(stack)] = v /\ \A i \in 1 .. Len(stack) - 1 : stack'[i] = stack[i]
    BY <1>1, <1>2, <1>3
  <1>6. Top' = v
    BY <1>4, <1>5 DEF Top, Last
  <1>7. stack'[1].screen = stack[1].screen
    <2>1. CASE Len(stack) = 1
      BY <1>2, <1>3, <1>5, <2>1
    <2>2. CASE Len(stack) # 1
      <3>1. 1 \in 1 .. Len(stack) - 1
        BY <1>3, <2>2
      <3> QED BY <1>5, <3>1
    <2> QED BY <2>1, <2>2
  <1>8. stack' # <<>>
    BY <1>3, <1>4
  <1> QED BY <1>2, <1>4, <1>6, <1>7, <1>8

LEMMA FineAdd ==
    ASSUME NEW open, NEW b, FineBag(b, open), NEW t, Fine(t, open)
    PROVE  FineBag(b (+) SetToBag({t}), open)
  <1> DEFINE c == b (+) SetToBag({t})
  <1>1. IsABag(c) /\ BagToSet(c) = BagToSet(b) \cup {t}
    BY BagAdd DEF FineBag
  <1> HIDE DEF c
  <1> QED BY <1>1 DEF FineBag, c

LEMMA EffectFine ==
    ASSUME NEW rest, FineBag(rest, unlocked), Effect(rest)
    PROVE  FineBag(tasks', unlocked)
  <1>1. ASSUME NEW t, Fit(t), tasks' = rest (+) SetToBag({t})
        PROVE  FineBag(tasks', unlocked)
    <2>1. Fine(t, unlocked)
      BY <1>1 DEF Fit, Fine
    <2>2. FineBag(rest (+) SetToBag({t}), unlocked)
      BY <2>1, FineAdd
    <2> QED BY <1>1, <2>2
  <1> QED BY <1>1 DEF Effect

\* A goroutine that goes on: its first item is gone, and the answer of a
\* command has taken its place.
LEMMA LeftFine ==
    ASSUME NEW open, NEW t, Fine(t, open), NEW items,
           \/ items = <<>>
           \/ ~IsMsg(Head(t)) /\ \E m \in Items : /\ items = <<m>>
                                                  /\ IsMsg(m)
                                                  /\ Vouched(m, open)
                                                  /\ ~IsNavigation(m)
    PROVE  /\ Left(t, items) # <<>> => Fine(Left(t, items), open)
           /\ ~Answering(Left(t, items))
           /\ Left(t, items) # t
           /\ Navigates(Left(t, items)) => Navigates(t)
  <1> DEFINE l == Left(t, items)
  <1>1. /\ t \in Seq(Items) /\ Len(t) \in Nat \ {0} /\ Head(t) = t[1]
        /\ DOMAIN t = 1 .. Len(t) /\ t[1] \in Items
    BY DEF Fine
  <1>2. CASE items = <<>>
    <2>1. /\ l \in Seq(Items) /\ Len(l) = Len(t) - 1
          /\ \A i \in 1 .. Len(l) : i + 1 \in DOMAIN t /\ l[i] = t[i + 1]
      BY <1>1, <1>2 DEF Left
    <2> HIDE DEF l
    <2>2. \A i \in 1 .. Len(l) : IsThreat(l[i]) => i = 1 /\ Len(l) = 1
      BY <1>1, <2>1 DEF Fine, WellFormed, Answering
    <2>3. ~Answering(l)
      <3> SUFFICES ASSUME Answering(l) PROVE FALSE
        OBVIOUS
      <3>1. Len(l) = 2 /\ IsThreat(l[2])
        BY DEF Answering
      <3> QED BY <2>2, <3>1
    <2>4. WellFormed(l)
      BY <2>1, <2>2 DEF WellFormed
    <2>5. Navigates(l) => Navigates(t)
      BY <2>1 DEF Navigates
    <2>6. l # t
      BY <1>1, <2>1
    <2>7. \A i \in DOMAIN l : Vouched(l[i], open)
      BY <2>1 DEF Fine
    <2> QED BY <2>1, <2>3, <2>4, <2>5, <2>6, <2>7 DEF Fine, l
  <1>3. ASSUME NEW m \in Items, ~IsMsg(Head(t)), items = <<m>>, IsMsg(m), Vouched(m, open),
               ~IsNavigation(m)
        PROVE  /\ l # <<>> => Fine(l, open)
               /\ ~Answering(l)
               /\ l # t
               /\ Navigates(l) => Navigates(t)
    <2>1. /\ l \in Seq(Items) /\ Len(l) = Len(t) /\ l[1] = m
          /\ \A i \in 2 .. Len(l) : i \in DOMAIN t /\ l[i] = t[i]
      BY <1>1, <1>3 DEF Left
    <2> HIDE DEF l
    <2>2. ~IsMsg(t[1]) /\ t[1] # PopView
      BY <1>1, <1>3, PopItem
    <2>3. \A i \in DOMAIN l : ~IsThreat(l[i])
      <3> SUFFICES ASSUME NEW i \in DOMAIN l, IsThreat(l[i]) PROVE FALSE
        OBVIOUS
      <3>1. i # 1
        BY <1>3, <2>1 DEF IsThreat
      <3>2. i \in 2 .. Len(t) /\ IsThreat(t[i]) /\ i \in DOMAIN t
        BY <2>1, <3>1
      <3> QED BY <1>1, <2>2, <3>2 DEF Fine, WellFormed, Answering
    <2>4. ~Answering(l)
      <3> SUFFICES ASSUME Answering(l) PROVE FALSE
        OBVIOUS
      <3>1. 2 \in DOMAIN l /\ IsThreat(l[2])
        BY <2>1 DEF Answering
      <3> QED BY <2>3, <3>1
    <2>5. Navigates(l) => Navigates(t)
      <3> SUFFICES ASSUME NEW i \in DOMAIN l, IsNavigation(l[i]) PROVE Navigates(t)
        BY DEF Navigates
      <3>1. i \in 2 .. Len(l)
        BY <1>3, <2>1
      <3> QED BY <2>1, <3>1 DEF Navigates
    <2>6. l # t
      BY <1>3, <2>1, <2>2
    <2>7. \A i \in DOMAIN l : Vouched(l[i], open)
      BY <1>3, <2>1 DEF Fine
    <2>8. WellFormed(l)
      BY <2>3 DEF WellFormed
    <2> QED BY <2>1, <2>4, <2>5, <2>6, <2>7, <2>8 DEF Fine
  <1> QED BY <1>2, <1>3


LEMMA AfterFine ==
    ASSUME NEW open, FineBag(tasks, open), NEW t \in BagToSet(tasks), NEW items,
           Left(t, items) # <<>> => Fine(Left(t, items), open)
    PROVE  FineBag(After(t, items), open)
  <1> DEFINE c == After(t, items)
  <1>1. /\ IsABag(c)
        /\ BagToSet(c) \subseteq BagToSet(tasks) \cup ({Left(t, items)} \ {<<>>})
    BY AfterBag DEF FineBag
  <1> HIDE DEF c
  <1> QED BY <1>1 DEF FineBag, c

LEMMA HeadOf ==
    ASSUME FineBag(tasks, unlocked), NEW t \in BagToSet(tasks)
    PROVE  /\ Fine(t, unlocked)
           /\ Head(t) = t[1]
           /\ 1 \in DOMAIN t
           /\ Head(t) \in Items
           /\ Vouched(Head(t), unlocked)
           /\ IsNavigation(Head(t)) => Navigates(t)
  BY DEF FineBag, Fine, Navigates

LEMMA PopNavigates ==
    ASSUME NEW t, Fine(t, unlocked), Answering(t)
    PROVE  Navigates(t) /\ IsNavigation(t[1])
  <1>1. 1 \in DOMAIN t /\ t[1] = PopView
    BY DEF Fine, Answering
  <1> QED BY <1>1, PopItem DEF Navigates, IsNavigation

\* Once the message of a navigation is taken, no goroutine answers a dialog.
LEMMA AfterNavigation ==
    ASSUME IInv, sitting.typing = "paced", NEW t \in BagToSet(tasks), Navigates(t),
           NEW u \in BagToSet(After(t, <<>>))
    PROVE  ~Answering(u)
  <1> SUFFICES ASSUME Answering(u) PROVE FALSE
    OBVIOUS
  <1>1. FineBag(tasks, unlocked) /\ PacedInv /\ IsABag(tasks)
    BY Parts DEF FineBag
  <1>2. Fine(t, unlocked)
    BY <1>1, HeadOf
  <1>3. ~Answering(Left(t, <<>>)) /\ Left(t, <<>>) # t
    BY <1>2, LeftFine
  <1>4. u \in BagToSet(tasks)
    BY <1>1, <1>3, AfterBag
  <1>5. Alone(u)
    BY <1>1, <1>4 DEF PacedInv
  <1>6. u = t /\ tasks[t] = 1
    BY <1>5 DEF Alone
  <1> QED BY <1>1, <1>3, <1>6, AfterBag

\* A goroutine that goes on without a navigation leaves a dialog and the
\* goroutine that answers it as they are.
LEMMA AfterOther ==
    ASSUME IInv, sitting.typing = "paced", NEW t \in BagToSet(tasks), NEW items,
           ~IsNavigation(Head(t)),
           ~Answering(Left(t, items)),
           Navigates(Left(t, items)) => Navigates(t),
           NEW c, c = After(t, items),
           NEW u \in BagToSet(c), Answering(u)
    PROVE  /\ Top.screen = "confirm"
           /\ Top.cmd = u[2]
           /\ c[u] = 1
           /\ \A w \in BagToSet(c) : Navigates(w) => w = u
  <1>1. FineBag(tasks, unlocked) /\ PacedInv /\ IsABag(tasks)
    BY Parts DEF FineBag
  <1>2. /\ BagToSet(c) \subseteq BagToSet(tasks) \cup {Left(t, items)}
        /\ \A w \in BagToSet(c) \ {t, Left(t, items)} : c[w] = tasks[w]
    BY <1>1, AfterBag
  <1>3. u \in BagToSet(tasks) /\ u # Left(t, items)
    BY <1>2
  <1>4. Alone(u)
    BY <1>1, <1>3 DEF PacedInv
  <1>5. u # t
    BY <1>1, <1>3, HeadOf, PopNavigates
  <1>6. c[u] = 1
    BY <1>2, <1>3, <1>4, <1>5 DEF Alone
  <1>7. ASSUME NEW w \in BagToSet(c), Navigates(w) PROVE w = u
    <2>1. w # Left(t, items)
      BY <1>4, <1>5, <1>7 DEF Alone
    <2> QED BY <1>2, <1>4, <1>7, <2>1 DEF Alone
  <1> QED BY <1>4, <1>6, <1>7 DEF Alone

\* What has been unlocked stays unlocked until the program starts again.
LEMMA FineMonotone ==
    ASSUME FineBag(tasks, unlocked), unlocked => unlocked'
    PROVE  FineBag(tasks, unlocked')
  BY DEF FineBag, Fine, Vouched

\* A command is run: its answer is on its way.
LEMMA AnswerStep ==
    ASSUME IInv, NEW t \in BagToSet(tasks), ~IsMsg(Head(t)),
           NEW m \in Items, IsMsg(m), ~IsNavigation(m), Vouched(m, unlocked'),
           Answers(t, m), unlocked => unlocked',
           {session', keystore', unlocked'} \subseteq BOOLEAN
    PROVE  IInv'
  <1> DEFINE l == Left(t, <<m>>)
  <1>1. TypeOK /\ HomeInv /\ FineBag(tasks, unlocked)
    BY Parts
  <1>2. FineBag(tasks, unlocked')
    BY <1>1, FineMonotone
  <1>3. Fine(t, unlocked')
    BY <1>2 DEF FineBag
  <1>4. /\ l # <<>> => Fine(l, unlocked')
        /\ ~Answering(l)
        /\ Navigates(l) => Navigates(t)
    BY <1>3, LeftFine
  <1>5. tasks' = After(t, <<m>>) /\ stack' = stack /\ sitting' = sitting
    BY DEF Answers
  <1>6. FineBag(tasks', unlocked')
    BY <1>2, <1>4, <1>5, AfterFine
  <1>7. StackInv'
    BY <1>1, <1>5 DEF StackInv, TypeOK, HomeInv
  <1>8. PacedInv'
    <2> SUFFICES ASSUME sitting.typing = "paced",
                        NEW u \in BagToSet(tasks'), Answering(u)
                 PROVE  /\ Top'.screen = "confirm"
                        /\ Top'.cmd = u[2]
                        /\ tasks'[u] = 1
                        /\ \A w \in BagToSet(tasks') : Navigates(w) => w = u
      BY <1>5 DEF PacedInv, Alone
    <2>1. Top' = Top
      BY <1>5 DEF Top
    <2>2. ~IsNavigation(Head(t))
      BY DEF IsNavigation
    <2> QED BY <1>4, <1>5, <2>1, <2>2, AfterOther
  <1> QED BY <1>6, <1>7, <1>8, Whole


LEMMA ContentsEntries ==
    ASSUME NEW h \in Items, ~IsMsg(h), NEW c \in Contents(h)
    PROVE  c \subseteq Entry
  <1>1. h.of \in Target
    BY ItemFields
  <1>2. h.of[1] \in Vaults \cup Teams \cup Devices \cup {None}
    BY <1>1 DEF Target
  <1>3. Names(h) \subseteq Target
    BY <1>1, <1>2 DEF Names, Target
  <1>4. PICK D \in SUBSET Names(h) : \E f \in [D -> BOOLEAN] :
               c = {[of |-> n, active |-> f[n]] : n \in DOMAIN f}
    BY DEF Contents
  <1> QED BY <1>3, <1>4 DEF Entry

LEMMA RunStep ==
    ASSUME IInv, NEW t \in BagToSet(tasks), Run(t)
    PROVE  IInv'
  <1>1. /\ ~IsMsg(Head(t)) /\ Head(t) \in Items
        /\ {session, keystore, unlocked} \subseteq BOOLEAN
    BY Parts, HeadOf DEF Run, TypeOK
  <1>2. CASE FetchList(t)
    <2>1. PICK c \in Contents(Head(t)) : Answers(t, [msg |-> Head(t).cmd, items |-> c])
      BY <1>2 DEF FetchList
    <2>2. UNCHANGED <<session, keystore, unlocked>> /\ Head(t).cmd \in Listings
      BY <1>2 DEF FetchList
    <2> DEFINE m == [msg |-> Head(t).cmd, items |-> c]
    <2>3. c \subseteq Entry
      BY <1>1, ContentsEntries
    <2>4. m \in Items /\ IsMsg(m) /\ m.msg \in Listings
      BY <2>2, <2>3 DEF Items, IsMsg
    <2> HIDE DEF m
    <2>5. ~IsNavigation(m) /\ Vouched(m, unlocked')
      BY <2>4 DEF IsNavigation, Vouched, Listings
    <2>6. Answers(t, m)
      BY <2>1 DEF m
    <2> QED BY <1>1, <2>2, <2>4, <2>5, <2>6, AnswerStep
  <1>3. ASSUME NEW n \in Outcomes, NEW ok \in BOOLEAN, Answers(t, Result(n, ok)),
               n \in {"unlocked", "wizardSetup", "recovered"} /\ ok => unlocked',
               unlocked => unlocked', {session', keystore', unlocked'} \subseteq BOOLEAN
        PROVE  IInv'
    <2> DEFINE m == Result(n, ok)
    <2>1. m \in Items /\ IsMsg(m) /\ m.msg = n /\ m.ok = ok
      BY ResultItem
    <2> HIDE DEF m
    <2>2. ~IsNavigation(m) /\ Vouched(m, unlocked')
      BY <1>3, <2>1 DEF IsNavigation, Vouched, Outcomes
    <2>3. Answers(t, m)
      BY <1>3 DEF m
    <2> QED BY <1>1, <1>3, <2>1, <2>2, <2>3, AnswerStep
  <1>4. CASE Act(t)
    <2>1. UNCHANGED <<session, keystore, unlocked>>
      BY <1>4 DEF Act
    <2>2. PICK ok \in BOOLEAN :
              Answers(t, Result(CASE Head(t).cmd = "createTeam"  -> "teamMade"
                                  [] Head(t).cmd = "createVault" -> "vaultMade"
                                  [] OTHER                       -> "done", ok))
      BY <1>4 DEF Act
    <2>3. \E n \in {"teamMade", "vaultMade", "done"} : Answers(t, Result(n, ok))
      BY <2>2
    <2>4. {"teamMade", "vaultMade", "done"} \subseteq
              Outcomes \ {"unlocked", "wizardSetup", "recovered"}
      BY DEF Outcomes
    <2> QED BY <1>1, <1>3, <2>1, <2>3, <2>4
  <1>5. CASE DoUnlock(t)
    <2>1. PICK ok \in {FALSE, keystore} :
              /\ Answers(t, Result("unlocked", ok))
              /\ session' = (session \/ ok)
              /\ unlocked' = (unlocked \/ ok)
      BY <1>5 DEF DoUnlock
    <2>2. keystore' = keystore /\ ok \in BOOLEAN /\ "unlocked" \in Outcomes
      BY <1>1, <1>5 DEF DoUnlock, Outcomes
    <2>3. {session', keystore', unlocked'} \subseteq BOOLEAN
      BY <1>1, <2>1, <2>2
    <2>4. (ok => unlocked') /\ (unlocked => unlocked')
      BY <1>1, <2>1, <2>2
    <2> QED BY <1>3, <2>1, <2>2, <2>3, <2>4
  <1>6. CASE DoWizardInit(t)
    <2>1. PICK ok \in {FALSE, ~keystore} :
              /\ Answers(t, Result("wizardInit", ok))
              /\ keystore' = (keystore \/ ok)
      BY <1>6 DEF DoWizardInit
    <2>2. session' = session /\ unlocked' = unlocked /\ ok \in BOOLEAN
      BY <1>1, <1>6 DEF DoWizardInit
    <2>3. {session', keystore', unlocked'} \subseteq BOOLEAN
      BY <1>1, <2>1, <2>2
    <2>4. "wizardInit" \in Outcomes \ {"unlocked", "wizardSetup", "recovered"}
      BY DEF Outcomes
    <2> QED BY <1>3, <2>1, <2>2, <2>3, <2>4
  <1>7. CASE DoWizardSetup(t)
    <2>1. PICK opened \in {FALSE, keystore} : \E ok \in {FALSE, opened} :
              /\ Answers(t, Result("wizardSetup", ok))
              /\ session' = (session \/ opened)
              /\ unlocked' = (unlocked \/ opened)
      BY <1>7 DEF DoWizardSetup
    <2>2. PICK ok \in {FALSE, opened} : Answers(t, Result("wizardSetup", ok))
      BY <2>1
    <2>3. /\ keystore' = keystore /\ opened \in BOOLEAN /\ ok \in BOOLEAN
          /\ "wizardSetup" \in Outcomes
      BY <1>1, <1>7, <2>2 DEF DoWizardSetup, Outcomes
    <2>4. {session', keystore', unlocked'} \subseteq BOOLEAN
      BY <1>1, <2>1, <2>3
    <2>5. (ok => unlocked') /\ (unlocked => unlocked')
      BY <1>1, <2>1, <2>2, <2>3
    <2> QED BY <1>3, <2>2, <2>3, <2>4, <2>5
  <1>8. CASE DoRecover(t)
    <2>1. PICK saved \in {FALSE, ~keystore} : \E ok \in {FALSE, saved} :
              /\ Answers(t, Result("recovered", ok))
              /\ keystore' = (keystore \/ saved)
              /\ session' = (session \/ ok)
              /\ unlocked' = (unlocked \/ ok)
      BY <1>8 DEF DoRecover
    <2>2. PICK ok \in {FALSE, saved} :
              /\ Answers(t, Result("recovered", ok))
              /\ keystore' = (keystore \/ saved)
              /\ session' = (session \/ ok)
              /\ unlocked' = (unlocked \/ ok)
      BY <2>1
    <2>3. saved \in BOOLEAN /\ ok \in BOOLEAN /\ "recovered" \in Outcomes
      BY <1>1, <2>2 DEF Outcomes
    <2>4. {session', keystore', unlocked'} \subseteq BOOLEAN
      BY <1>1, <2>2, <2>3
    <2>5. (ok => unlocked') /\ (unlocked => unlocked')
      BY <1>1, <2>2, <2>3
    <2> QED BY <1>3, <2>2, <2>3, <2>4, <2>5
  <1> QED BY <1>2, <1>4, <1>5, <1>6, <1>7, <1>8 DEF Run


LEMMA StartsFine ==
    ASSUME NEW open, NEW b, FineBag(b, open), NEW v \in View
    PROVE  /\ FineBag(b (+) Starts(v), open)
           /\ \A u \in BagToSet(b (+) Starts(v)) \ BagToSet(b) : ~Answering(u)
  <1>1. CASE v.screen \in Listings
    <2> DEFINE t == <<Load(v)>>
    <2>1. /\ t \in Seq(Items) \ {<<>>} /\ DOMAIN t = {1} /\ Len(t) = 1
          /\ t[1] = Load(v) /\ ~IsMsg(t[1]) /\ ~IsThreat(t[1])
      BY <1>1, LoadItem DEF IsThreat
    <2>2. Starts(v) = SetToBag({t})
      BY <1>1 DEF Starts
    <2> HIDE DEF t
    <2>3. Fine(t, open) /\ ~Answering(t)
      BY <2>1 DEF Fine, WellFormed, Vouched, Answering
    <2>4. IsABag(b)
      BY DEF FineBag
    <2>5. BagToSet(b (+) SetToBag({t})) = BagToSet(b) \cup {t}
      BY <2>4, BagAdd
    <2> QED BY <2>2, <2>3, <2>5, FineAdd
  <1>2. CASE v.screen \notin Listings
    <2>1. Starts(v) = EmptyBag
      BY <1>2 DEF Starts
    <2> DEFINE c == b (+) EmptyBag
    <2>2. IsABag(c) /\ BagToSet(c) = BagToSet(b)
      BY BagAddNone DEF FineBag
    <2> HIDE DEF c
    <2>3. FineBag(c, open)
      BY <2>2 DEF FineBag
    <2> QED BY <2>1, <2>2, <2>3 DEF c
  <1> QED BY <1>1, <1>2, Zenon

LEMMA FrontStack ==
    ASSUME TypeOK, Len(stack) > 1
    PROVE  /\ Front(stack) \in Seq(View) \ {<<>>}
           /\ Front(stack)[1] = stack[1]
  <1>1. stack \in Seq(View) /\ Len(stack) \in Nat /\ 1 <= Len(stack) - 1
    BY TopView DEF TypeOK
  <1> DEFINE s == SubSeq(stack, 1, Len(stack) - 1)
  <1>2. s \in Seq(View) /\ Len(s) = Len(stack) - 1 /\ s[1] = stack[1]
    BY <1>1
  <1>3. Front(stack) = s
    BY DEF Front
  <1> HIDE DEF s
  <1>4. s # <<>>
    BY <1>1, <1>2
  <1> QED BY <1>2, <1>3, <1>4

LEMMA PopStack ==
    ASSUME TypeOK, NEW rest, Pop(rest)
    PROVE  stack' \in Seq(View) \ {<<>>} /\ stack'[1] = stack[1]
  BY FrontStack DEF Pop, TypeOK

LEMMA DeliverStep ==
    ASSUME IInv, NEW t \in BagToSet(tasks), Deliver(t)
    PROVE  IInv'
  <1> DEFINE m == Head(t)
             rest == After(t, <<>>)
  <1>1. TypeOK /\ HomeInv /\ PacedInv /\ FineBag(tasks, unlocked)
    BY Parts
  <1>2. UNCHANGED <<session, keystore, unlocked, sitting>> /\ IsMsg(m)
    BY DEF Deliver
  <1>3. m \in Items /\ Vouched(m, unlocked) /\ Fine(t, unlocked)
    BY <1>1, HeadOf
  <1>4. /\ Left(t, <<>>) # <<>> => Fine(Left(t, <<>>), unlocked)
        /\ ~Answering(Left(t, <<>>))
        /\ Navigates(Left(t, <<>>)) => Navigates(t)
    BY <1>3, LeftFine
  <1>5. FineBag(rest, unlocked)
    BY <1>1, <1>4, AfterFine
  <1>6. ASSUME m.msg \in {"push", "pop", "replace"}
        PROVE  /\ Navigates(t)
               /\ sitting.typing = "paced" => \A u \in BagToSet(rest) : ~Answering(u)
    <2>1. Navigates(t)
      BY <1>1, <1>2, <1>6, HeadOf DEF IsNavigation
    <2> QED BY <2>1, AfterNavigation
  <1>7. ASSUME sitting.typing = "paced" => \A u \in BagToSet(tasks') : ~Answering(u)
        PROVE  PacedInv'
    BY <1>2, <1>7 DEF PacedInv
  <1> HIDE DEF m, rest
  <1>8. CASE m.msg = "push" /\ Push(m, rest)
    <2>1. m.view \in View
      BY <1>2, <1>3, <1>8, ItemFields
    <2>2. stack' = Append(stack, m.view) /\ tasks' = rest (+) Starts(m.view)
      BY <1>8 DEF Push
    <2>3. stack' \in Seq(View) \ {<<>>} /\ stack'[1] = stack[1]
      <3>1. stack \in Seq(View) /\ Len(stack) \in Nat \ {0}
        BY <1>1, TopView DEF TypeOK
      <3> QED BY <2>1, <2>2, <3>1
    <2>4. StackInv'
      BY <1>1, <1>2, <2>3 DEF StackInv, TypeOK, HomeInv
    <2>5. /\ FineBag(tasks', unlocked)
          /\ \A u \in BagToSet(tasks') \ BagToSet(rest) : ~Answering(u)
      BY <1>5, <2>1, <2>2, StartsFine
    <2>6. PacedInv'
      BY <1>6, <1>7, <1>8, <2>5
    <2> QED BY <1>2, <2>4, <2>5, <2>6, Whole
  <1>9. CASE m.msg = "pop" /\ Pop(rest)
    <2>1. stack' \in Seq(View) \ {<<>>} /\ stack'[1] = stack[1]
      BY <1>1, <1>9, PopStack
    <2>2. StackInv'
      BY <1>1, <1>2, <2>1 DEF StackInv, TypeOK, HomeInv
    <2>3. tasks' = rest
      BY <1>9 DEF Pop
    <2> QED BY <1>2, <1>5, <1>6, <1>7, <1>9, <2>2, <2>3, Whole
  <1>10. CASE m.msg = "replace" /\ Replace(m, rest)
    <2>1. m.view = New("menu", Nothing) /\ unlocked
      BY <1>2, <1>3, <1>10 DEF Vouched
    <2>2. m.view \in View /\ m.view.screen = "menu"
      BY <2>1, NewView, NothingIsTarget DEF Screens
    <2>3. stack' = <<m.view>> /\ tasks' = rest (+) Starts(m.view)
      BY <1>10 DEF Replace
    <2>4. StackInv'
      <3>1. stack' \in Seq(View) \ {<<>>} /\ stack'[1] = m.view
        BY <2>2, <2>3
      <3> QED BY <1>1, <1>2, <2>1, <2>2, <3>1 DEF StackInv, TypeOK
    <2>5. /\ FineBag(tasks', unlocked)
          /\ \A u \in BagToSet(tasks') \ BagToSet(rest) : ~Answering(u)
      BY <1>5, <2>2, <2>3, StartsFine
    <2>6. PacedInv'
      BY <1>6, <1>7, <1>10, <2>5
    <2> QED BY <1>2, <2>4, <2>5, <2>6, Whole
  <1>11. CASE m.msg \notin {"push", "pop", "replace"} /\ ToTop(m, rest)
    <2>1. ~IsNavigation(m)
      BY <1>11 DEF IsNavigation
    <2>2. ASSUME sitting.typing = "paced", NEW u \in BagToSet(rest), Answering(u)
          PROVE  /\ Top.screen = "confirm" /\ Top.cmd = u[2] /\ rest[u] = 1
                 /\ \A w \in BagToSet(rest) : Navigates(w) => w = u
      BY <1>4, <2>1, <2>2, AfterOther DEF m, rest
    <2>3. CASE m.msg \notin Accepts(Top.screen)
      <3>1. stack' = stack /\ tasks' = rest /\ Top' = Top
        BY <1>11, <2>3 DEF ToTop, Top
      <3>2. StackInv'
        BY <1>1, <1>2, <3>1 DEF StackInv, TypeOK, HomeInv
      <3>3. PacedInv'
        BY <1>2, <2>2, <3>1 DEF PacedInv, Alone
      <3> QED BY <1>2, <1>5, <3>1, <3>2, <3>3, Whole
    <2>4. CASE m.msg \in Accepts(Top.screen)
      <3>1. Effect(rest)
        BY <1>1, <1>2, <1>3, <1>11, <2>4, ScreenEffect DEF ToTop, Sent
      <3>2. Top.screen # "confirm"
        BY <2>4 DEF Accepts, Listings
      <3>3. FineBag(tasks', unlocked)
        BY <1>5, <3>1, EffectFine
      <3>4. StackInv'
        BY <1>1, <1>2, <3>1, EffectStack DEF StackInv, TypeOK, HomeInv
      <3>5. ASSUME sitting.typing = "paced", NEW u \in BagToSet(tasks'), Answering(u)
            PROVE  FALSE
        <4>1. u \notin BagToSet(rest)
          BY <2>2, <3>2, <3>5
        <4>2. PICK n : Fit(n) /\ tasks' = rest (+) SetToBag({n})
          BY <3>1, <3>5, <4>1 DEF Effect
        <4>3. IsABag(rest)
          BY <1>5 DEF FineBag
        <4>4. BagToSet(rest (+) SetToBag({n})) = BagToSet(rest) \cup {n}
          BY <4>3, BagAdd
        <4>5. u = n
          BY <3>5, <4>1, <4>2, <4>4
        <4> QED BY <3>2, <3>5, <4>2, <4>5 DEF Fit
      <3> QED BY <1>2, <1>7, <3>3, <3>4, <3>5, Whole
    <2> QED BY <2>3, <2>4
  <1> QED BY <1>8, <1>9, <1>10, <1>11 DEF Deliver, m, rest


\* With no navigation on its way no goroutine answers a dialog.
LEMMA NoneAnswering ==
    ASSUME FineBag(tasks, unlocked), ~Navigating, NEW u \in BagToSet(tasks)
    PROVE  ~Navigates(u) /\ ~Answering(u)
  BY PopNavigates DEF FineBag, Navigating, Navigates

LEMMA PressStep ==
    ASSUME IInv, NEW k \in Keys, Press(k)
    PROVE  IInv'
  <1> DEFINE m == [msg |-> "key", key |-> k]
  <1>1. TypeOK /\ HomeInv /\ FineBag(tasks, unlocked)
    BY Parts
  <1>2. Screen(m, tasks) /\ KeyIsRead /\ UNCHANGED <<session, keystore, unlocked, sitting>>
    BY DEF Press
  <1>3. Sent(m)
    BY DEF Sent
  <1>4. Effect(tasks)
    BY <1>1, <1>2, <1>3, ScreenEffect
  <1>5. FineBag(tasks', unlocked')
    BY <1>1, <1>2, <1>4, EffectFine
  <1>6. StackInv'
    BY <1>1, <1>2, <1>4, EffectStack DEF StackInv, TypeOK, HomeInv
  <1>7. PacedInv'
    <2> SUFFICES ASSUME sitting.typing = "paced",
                        NEW u \in BagToSet(tasks'), Answering(u)
                 PROVE  /\ Top'.screen = "confirm"
                        /\ Top'.cmd = u[2]
                        /\ tasks'[u] = 1
                        /\ \A w \in BagToSet(tasks') : Navigates(w) => w = u
      BY <1>2 DEF PacedInv, Alone
    <2>1. \A w \in BagToSet(tasks) : ~Navigates(w) /\ ~Answering(w)
      BY <1>1, <1>2, NoneAnswering DEF KeyIsRead
    <2>2. u \notin BagToSet(tasks)
      BY <2>1
    <2>3. PICK n : Fit(n) /\ tasks' = tasks (+) SetToBag({n})
      BY <1>4, <2>2 DEF Effect
    <2>4. /\ BagToSet(tasks (+) SetToBag({n})) = BagToSet(tasks) \cup {n}
          /\ n \notin BagToSet(tasks) => (tasks (+) SetToBag({n}))[n] = 1
      BY <1>1, BagAdd DEF FineBag
    <2>5. u = n /\ tasks'[u] = 1 /\ BagToSet(tasks') = BagToSet(tasks) \cup {u}
      BY <2>2, <2>3, <2>4
    <2>6. Top.screen = "confirm" /\ Top.cmd = u[2]
      BY <2>3, <2>5 DEF Fit
    <2> QED BY <1>1, <1>4, <2>1, <2>5, <2>6, EffectStack
  <1> QED BY <1>5, <1>6, <1>7, Whole

\* A step of the user that starts no goroutine.
LEMMA UserStep ==
    ASSUME IInv, KeyIsRead, tasks' = tasks, UNCHANGED <<session, keystore, unlocked, sitting>>,
           stack' \in Seq(View) \ {<<>>}, stack'[1].screen = stack[1].screen
    PROVE  IInv'
  <1>1. TypeOK /\ HomeInv /\ FineBag(tasks, unlocked)
    BY Parts
  <1>2. StackInv'
    BY <1>1 DEF StackInv, TypeOK, HomeInv
  <1>3. PacedInv'
    BY <1>1, NoneAnswering DEF PacedInv, KeyIsRead
  <1> QED BY <1>1, <1>2, <1>3, Whole

LEMMA AuthView == New("auth", Nothing) \in View /\ New("auth", Nothing).screen = "auth"
  BY NewView, NothingIsTarget DEF Screens

LEMMA RestartStep ==
    ASSUME IInv, Restart, UNCHANGED <<session, keystore, sitting>>
    PROVE  IInv'
  <1>1. stack' = <<New("auth", Nothing)>> /\ tasks' = EmptyBag /\ unlocked' = FALSE
    BY DEF Restart
  <1>2. FineBag(tasks', unlocked') /\ PacedInv'
    BY <1>1, EmptyIsABag DEF FineBag, PacedInv
  <1>3. stack' \in Seq(View) \ {<<>>} /\ stack'[1] = New("auth", Nothing)
    BY <1>1, AuthView
  <1>4. StackInv'
    BY <1>1, <1>3, AuthView DEF IInv, TypeOK, StackInv
  <1> QED BY <1>2, <1>4, Whole

LEMMA FilterEffect ==
    ASSUME TypeOK, NEW on \in BOOLEAN, Becomes([Top EXCEPT !.filter = on], tasks)
    PROVE  Effect(tasks)
  <1> DEFINE v == [Top EXCEPT !.filter = on]
  <1>1. v \in View /\ v.screen = Top.screen /\ v.cmd = Top.cmd
    BY TopView DEF View
  <1> HIDE DEF v
  <1> QED BY <1>1, BecomesEffect DEF v

LEMMA FilterStep ==
    ASSUME IInv, KeyIsRead, NEW on \in BOOLEAN, Becomes([Top EXCEPT !.filter = on], tasks),
           UNCHANGED <<session, keystore, unlocked, sitting>>
    PROVE  IInv'
  <1>1. TypeOK
    BY DEF IInv
  <1>2. tasks' = tasks
    BY DEF Becomes
  <1> QED BY <1>1, <1>2, FilterEffect, EffectStack, UserStep

LEMMA EscStep ==
    ASSUME IInv, Esc
    PROVE  IInv'
  <1>1. KeyIsRead /\ UNCHANGED <<session, keystore, sitting>> /\ TypeOK
    BY DEF Esc, IInv
  <1>2. CASE Becomes([Top EXCEPT !.filter = FALSE], tasks) /\ UNCHANGED unlocked
    BY <1>1, <1>2, FilterStep
  <1>3. CASE Pop(tasks) /\ UNCHANGED unlocked
    <2>1. stack' \in Seq(View) \ {<<>>} /\ stack'[1] = stack[1] /\ tasks' = tasks
      BY <1>1, <1>3, PopStack DEF Pop
    <2> QED BY <1>1, <1>3, <2>1, UserStep
  <1>4. CASE Restart
    BY <1>1, <1>4, RestartStep
  <1> QED BY <1>2, <1>3, <1>4 DEF Esc

\* The session ends, or nothing happens.
LEMMA IdleStep ==
    ASSUME IInv, UNCHANGED <<stack, tasks, keystore, unlocked, sitting>>,
           session' \in BOOLEAN
    PROVE  IInv'
  BY DEF IInv, TypeOK, HomeInv, ShapeInv, PacedInv, Alone, Top

LEMMA InvInit == Init => IInv
  <1> SUFFICES ASSUME Init PROVE IInv
    OBVIOUS
  <1>1. stack \in Seq(View) \ {<<>>} /\ stack[1] = New("auth", Nothing)
    BY AuthView DEF Init
  <1>2. IsABag(tasks) /\ BagToSet(tasks) = {}
    BY EmptyIsABag DEF Init
  <1> QED BY <1>1, <1>2, AuthView DEF Init, IInv, TypeOK, HomeInv, ShapeInv, PacedInv

LEMMA InvStep == IInv /\ [Next]_vars => IInv'
  <1> SUFFICES ASSUME IInv, [Next]_vars PROVE IInv'
    OBVIOUS
  <1>1. CASE TaskStep
    BY <1>1, RunStep, DeliverStep DEF TaskStep
  <1>2. CASE \E k \in Keys : Press(k)
    BY <1>2, PressStep
  <1>3. CASE StartFilter
    BY <1>3, FilterStep DEF StartFilter
  <1>4. CASE Esc
    BY <1>4, EscStep
  <1>5. CASE CtrlC
    BY <1>5, RestartStep DEF CtrlC
  <1>6. CASE Expire
    BY <1>6, IdleStep DEF Expire
  <1>7. CASE UNCHANGED vars
    <2>1. session \in BOOLEAN
      BY DEF IInv, TypeOK
    <2> QED BY <1>7, <2>1, IdleStep DEF vars
  <1> QED BY <1>1, <1>2, <1>3, <1>4, <1>5, <1>6, <1>7 DEF Next


-----------------------------------------------------------------------------
(* The menu stays, and an answer pops its dialog.                          *)

LEMMA HomeStep ==
    ASSUME IInv, [Next]_vars
    PROVE  stack'[1].screen = stack[1].screen \/ stack'[1].screen = "menu" \/ Restart
  <1>1. TypeOK /\ HomeInv /\ FineBag(tasks, unlocked)
    BY Parts
  <1>2. CASE UNCHANGED stack
    BY <1>2
  <1>3. ASSUME NEW t \in BagToSet(tasks), Run(t)
        PROVE  UNCHANGED stack
    BY <1>3 DEF Run, FetchList, Act, DoUnlock, DoWizardInit, DoWizardSetup, DoRecover, Answers
  <1>4. ASSUME NEW t \in BagToSet(tasks), Deliver(t)
        PROVE  stack'[1].screen = stack[1].screen \/ stack'[1].screen = "menu"
    <2> DEFINE m == Head(t)
               rest == After(t, <<>>)
    <2>1. m \in Items /\ Vouched(m, unlocked) /\ IsMsg(m)
      BY <1>1, <1>4, HeadOf DEF Deliver
    <2> HIDE DEF m, rest
    <2>2. CASE m.msg = "push" /\ Push(m, rest)
      <3>1. stack \in Seq(View) /\ Len(stack) \in Nat \ {0} /\ m.view \in View
        BY <1>1, <2>1, <2>2, TopView, ItemFields DEF TypeOK
      <3> QED BY <2>2, <3>1 DEF Push
    <2>3. CASE Pop(rest)
      BY <1>1, <2>3, PopStack
    <2>4. CASE m.msg = "replace" /\ Replace(m, rest)
      <3>1. m.view.screen = "menu"
        BY <2>1, <2>4, NewView, NothingIsTarget DEF Vouched, Screens
      <3> QED BY <2>4, <3>1 DEF Replace
    <2>5. CASE m.msg \notin {"push", "pop", "replace"} /\ ToTop(m, rest)
      <3>1. CASE UNCHANGED stack
        BY <3>1
      <3>2. CASE m.msg \in Accepts(Top.screen)
        <4>1. Effect(rest)
          BY <1>1, <2>1, <2>5, <3>2, ScreenEffect DEF ToTop, Sent
        <4> QED BY <1>1, <4>1, EffectStack
      <3> QED BY <2>5, <3>1, <3>2 DEF ToTop
    <2> QED BY <1>4, <2>2, <2>3, <2>4, <2>5 DEF Deliver, m, rest
  <1>5. ASSUME NEW k \in Keys, Press(k)
        PROVE  stack'[1].screen = stack[1].screen
    <2>1. Sent([msg |-> "key", key |-> k])
      BY DEF Sent
    <2>2. Effect(tasks)
      BY <1>1, <1>5, <2>1, ScreenEffect DEF Press
    <2> QED BY <1>1, <2>2, EffectStack
  <1>6. ASSUME NEW on \in BOOLEAN, Becomes([Top EXCEPT !.filter = on], tasks)
        PROVE  stack'[1].screen = stack[1].screen
    BY <1>1, <1>6, FilterEffect, EffectStack
  <1>7. CASE Pop(tasks)
    BY <1>1, <1>7, PopStack
  <1> QED BY <1>2, <1>3, <1>4, <1>5, <1>6, <1>7
          DEF Next, TaskStep, StartFilter, Esc, CtrlC, Expire, vars

LEMMA AnswerPops ==
    ASSUME IInv, [Next]_vars, sitting.typing = "paced",
           NEW t \in BagToSet(tasks), Answering(t),
           BagIn(t, tasks') => tasks'[t] < tasks[t]
    PROVE  Top.screen = "confirm" /\ Top.cmd = t[2] /\ stack' = Front(stack)
  <1>1. TypeOK /\ HomeInv /\ PacedInv /\ FineBag(tasks, unlocked)
    BY Parts
  <1>2. Alone(t) /\ Fine(t, unlocked) /\ Navigates(t) /\ IsNavigation(t[1])
    BY <1>1, PopNavigates DEF PacedInv, FineBag
  <1>3. ~KeyIsRead
    BY <1>2 DEF KeyIsRead, Navigating, Navigates
  <1>4. ~UNCHANGED tasks
    BY <1>2 DEF Alone, BagIn
  <1>5. PICK u \in BagToSet(tasks) : Run(u) \/ Deliver(u)
    BY <1>3, <1>4 DEF Next, TaskStep, Press, StartFilter, Esc, CtrlC, Expire, vars
  <1>6. Fine(u, unlocked) /\ IsABag(tasks)
    BY <1>1 DEF FineBag
  <1>7. ASSUME NEW items, tasks' = After(u, items), u # t, t # Left(u, items)
        PROVE  FALSE
    <2> DEFINE c == After(u, items)
    <2>1. /\ BagToSet(tasks) \ {u} \subseteq BagToSet(c)
          /\ \A w \in BagToSet(c) \ {u, Left(u, items)} : c[w] = tasks[w]
      BY <1>6, AfterBag
    <2> HIDE DEF c
    <2>2. t \in BagToSet(c) /\ c[t] = tasks[t]
      BY <1>7, <2>1
    <2>3. tasks' = c
      BY <1>7 DEF c
    <2> QED BY <1>2, <2>2, <2>3 DEF BagIn, Alone
  <1>8. CASE u # t
    <2>1. ~Navigates(u)
      BY <1>2, <1>8 DEF Alone
    <2>2. ~IsNavigation(Head(u))
      BY <1>1, <2>1, HeadOf
    <2>3. CASE Deliver(u)
      <3> DEFINE m == Head(u)
      <3>1. m.msg \notin {"push", "pop", "replace"}
        BY <2>2, <2>3 DEF IsNavigation, Deliver
      <3>2. ToTop(m, After(u, <<>>))
        BY <2>3, <3>1 DEF Deliver
      <3>3. m.msg \notin Accepts(Top.screen)
        BY <1>2 DEF Accepts, Listings, Alone
      <3>4. tasks' = After(u, <<>>)
        BY <3>2, <3>3 DEF ToTop
      <3>5. ~Answering(Left(u, <<>>))
        BY <1>6, LeftFine
      <3> QED BY <1>7, <1>8, <3>4, <3>5
    <2>4. CASE Run(u)
      <3>1. PICK m : tasks' = After(u, <<m>>)
        BY <2>4 DEF Run, FetchList, Act, DoUnlock, DoWizardInit, DoWizardSetup, DoRecover,
                    Answers
      <3>2. t # Left(u, <<m>>)
        <4>1. ASSUME t = Left(u, <<m>>) PROVE FALSE
          <5>1. /\ Len(t) = 2 /\ t[1] = PopView /\ IsThreat(t[2])
                /\ u \in Seq(Items) /\ Len(u) \in Nat \ {0} /\ Head(u) = u[1]
            BY <1>6 DEF Answering, Fine
          <5>2. Len(u) = 2 /\ u[2] = t[2]
            <6> DEFINE S == Items \cup {m}
            <6>1. u \in Seq(S) /\ m \in S
              BY <5>1
            <6> HIDE DEF S
            <6>2. /\ Len(Left(u, <<m>>)) = Len(u)
                  /\ \A i \in 2 .. Len(u) : Left(u, <<m>>)[i] = u[i]
              BY <5>1, <6>1, LeftItems
            <6> QED BY <4>1, <5>1, <6>2
          <5>3. u[1] = PopView
            BY <1>6, <5>1, <5>2 DEF Fine, WellFormed, Answering
          <5> QED BY <2>4, <5>1, <5>3, PopItem DEF Run
        <4> QED BY <4>1
      <3> QED BY <1>7, <1>8, <3>1, <3>2
    <2> QED BY <1>5, <2>3, <2>4
  <1>9. CASE u = t
    <2>1. Head(t) = PopView
      BY <1>1, HeadOf DEF Answering
    <2>2. Pop(After(t, <<>>))
      BY <1>5, <1>9, <2>1, PopItem DEF Run, Deliver
    <2>3. Len(stack) > 1
      <3>1. Len(stack) \in Nat \ {0} /\ Top = stack[Len(stack)]
        BY <1>1, TopView
      <3>2. Len(stack) # 1
        BY <1>1, <1>2, <3>1 DEF HomeInv, Alone
      <3> QED BY <3>1, <3>2
    <2> QED BY <1>2, <2>2, <2>3 DEF Alone, Pop
  <1> QED BY <1>8, <1>9

-----------------------------------------------------------------------------
(* The results.                                                            *)

\* The inductive invariant holds for any lists the server may send.
THEOREM Inductive == Spec => []IInv
  BY InvInit, InvStep, PTL DEF Spec

\* Stack, screens, goroutines and their messages are what Tui says they are.
THEOREM TypeCorrect == Spec => []TypeOK
  <1>1. IInv => TypeOK
    BY DEF IInv
  <1> QED BY Inductive, <1>1, PTL

\* The menu is reached only after a command has unlocked the key (the three
\* places that replace the stack: app.go, auth.go and wizard.go).
THEOREM DashboardsUnlocked == Spec => []DashboardUnlocked
  <1>1. IInv => DashboardUnlocked
    BY DEF IInv, HomeInv, DashboardUnlocked
  <1> QED BY Inductive, <1>1, PTL

\* Once there, the menu is under everything until the program starts again,
\* whatever pops are still on their way.
THEOREM MenuStays == Spec => MenuIsHome
  <1> DEFINE Home ==
        /\ stack' # <<>>
        /\ stack'[1].screen \in {"auth", "menu"}
        /\ stack[1].screen = "menu" => stack'[1].screen = "menu" \/ Restart
  <1>1. IInv /\ IInv' /\ [Next]_vars => [Home]_vars
    BY HomeStep DEF IInv, TypeOK, HomeInv
  <1>2. Spec => [][Home]_vars
    <2> HIDE DEF Home
    <2> QED BY <1>1, Inductive, PTL DEF Spec
  <1> QED BY <1>2 DEF MenuIsHome

\* confirm.go promises that a confirmed dialog pops itself; it does for a user
\* whose keys do not overtake the navigation.
THEOREM AnswersPopDialogs == Spec => PopsItselfPaced
  <1> DEFINE Pops == sitting.typing = "paced" => AnswerPopsDialog
  <1>1. ASSUME IInv, [Next]_vars, sitting.typing = "paced"
        PROVE  AnswerPopsDialog
    <2> SUFFICES ASSUME NEW t \in BagToSet(tasks), Len(t) = 2, t[1] = PopView,
                        t[2] \in Threats(tasks),
                        BagIn(t, tasks') => tasks'[t] < tasks[t]
                 PROVE  Top.screen = "confirm" /\ Top.cmd = t[2] /\ stack' = Front(stack)
      BY DEF AnswerPopsDialog
    <2>1. Answering(t)
      BY DEF Answering, IsThreat, Threats
    <2> QED BY <1>1, <2>1, AnswerPops
  <1>2. IInv /\ [Next]_vars => [Pops]_vars
    BY <1>1
  <1>3. Spec => [][Pops]_vars
    <2> HIDE DEF Pops
    <2> QED BY <1>2, Inductive, PTL DEF Spec
  <1> QED BY <1>3 DEF PopsItselfPaced
===============================================================================
