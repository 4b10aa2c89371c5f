----------------------------- MODULE SelfUpdate -----------------------------
(***************************************************************************)
(* `devsync update' (src/internal/client/commands/update.go): it replaces  *)
(* the installed binaries, the running one included, by those of the       *)
(* latest release, or by one built from the latest commit.                 *)
(*                                                                         *)
(* Next to an installed binary `dst' the protocol keeps three more names:  *)
(* dst.old (the binary it has moved away), dst.tmp (the one it is writing) *)
(* and dst.new (the one it could not put in place).  Every system call on  *)
(* them is an action.  A call may fail, a run may be killed between two    *)
(* calls, and a second run may be under way in another terminal.  A file   *)
(* that io.Copy has written is not lost when it is closed.                 *)
(*                                                                         *)
(* On Windows a batch script, written to one fixed path, moves dst.new     *)
(* into place once nobody executes the old file any more; it goes on after *)
(* the run has ended.  Errors that come before the first file is touched   *)
(* all end a run in the same way.                                          *)
(***************************************************************************)
EXTENDS Naturals, Sequences

CONSTANTS
    Cli, Srv,       \* the two binaries of a release
    None, Empty,    \* no script, and one without a line
    Runs,           \* runs of `devsync update'
    Scenarios,      \* bound: the situations that are looked at, as records of
                    \*   platform:  "unix" or "windows"
                    \*   installed: the binaries there are at first
                    \*   inUse:     those that cannot be renamed while they run
                    \*   together:  whether runs may overlap
                    \*   faults:    system calls that fail at most
                    \*   crashes:   runs that are killed at most
    MaxRelease      \* bound: the last release

Binaries == {Cli, Srv}

ASSUME UpdateAssumption ==
    /\ Cli # Srv
    /\ Binaries \cap {None, Empty} = {}
    /\ None # Empty
    /\ MaxRelease \in Nat
    /\ MaxRelease >= 2
    /\ \A s \in Scenarios :
          /\ s.platform \in {"unix", "windows"}
          /\ s.installed \subseteq Binaries
          /\ s.inUse \subseteq {Cli}
          /\ s.together \in BOOLEAN
          /\ s.platform = "unix" => s.inUse = {}
          /\ s.faults \in Nat
          /\ s.crashes \in Nat

VARIABLES
    dst, old, tmp, new,     \* the four files of each binary
    mixed,      \* the runs whose last file another run has written as well
    script,     \* the binary that devsync-update.bat names
    mover,      \* the next line of the process started by a run for a binary
    release,    \* the latest release or commit
    pc,         \* a run's next system call
    tag, ver,   \* the version it announces, and the one it installs
    todo,       \* the binaries it has still to install, the current one first
    answer,
    faults, crashes,
    stranded,   \* history: the binaries that a run has failed to put back
    rerun,      \* history: a run began while an installed binary was missing
    scenario

disk == <<dst, old, tmp, new>>
batch == <<script, mover>>
history == <<crashes, stranded, rerun, scenario>>
vars == <<disk, mixed, batch, release, pc, tag, ver, todo, answer, faults, history>>

\* A file holds a version, the whole of it or a first part.
NoFile == [version |-> 0, whole |-> FALSE]
Whole(v) == [version |-> v, whole |-> TRUE]
Part(v) == [version |-> v, whole |-> FALSE]

\* A release packs both binaries, in this order (release.yml).
Archive == <<Cli, Srv>>

Calls == {"clear", "away", "create", "copy", "discard", "install", "restore",
          "drop", "createNew", "copyNew", "replaceSelf"}

\* The script: @echo off, :loop, timeout, move ("loop"); if exist, goto loop
\* ("check"); del ("delete").
Lines == {"loop", "check", "delete"}
Movers == Runs \X Binaries

Init ==
    /\ scenario \in Scenarios
    /\ dst = [b \in Binaries |-> IF b \in scenario.installed THEN Whole(1) ELSE NoFile]
    /\ old = [b \in Binaries |-> NoFile]
    /\ tmp = [b \in Binaries |-> NoFile]
    /\ new = [b \in Binaries |-> NoFile]
    /\ mixed = {}
    /\ script = None
    /\ mover = [m \in Movers |-> "none"]
    /\ release = 2
    /\ pc = [u \in Runs |-> "idle"]
    /\ tag = [u \in Runs |-> 0]
    /\ ver = [u \in Runs |-> 0]
    /\ todo = [u \in Runs |-> <<>>]
    /\ answer = [u \in Runs |-> "none"]
    /\ faults = 0
    /\ crashes = 0
    /\ stranded = {}
    /\ rerun = FALSE

-----------------------------------------------------------------------------
(* What the actions are made of.                                           *)

Current(u) == Head(todo[u])

\* The process of run u is there, and is past the network.
Alive(u) == pc[u] \in {"fetch"} \cup Calls
Calling(u) == pc[u] \in Calls

\* A binary that the system will not rename or replace.
Locked(b) == b \in scenario.inUse /\ \E u \in Runs : Alive(u)

\* Windows does not move or delete a file that a run has open.
Open(at, b) ==
    scenario.platform = "windows" /\ \E o \in Runs : pc[o] = at /\ Current(o) = b

Goto(u, from, to) == pc[u] = from /\ pc' = [pc EXCEPT ![u] = to]

Fault == faults < scenario.faults /\ faults' = faults + 1

Ends(u, how) ==
    /\ pc' = [pc EXCEPT ![u] = "done"]
    /\ answer' = [answer EXCEPT ![u] = how]
    /\ todo' = [todo EXCEPT ![u] = <<>>]

\* On to the next entry of the archive, or out of the loop.
NextEntry(u) ==
    IF Len(todo[u]) = 1 THEN Ends(u, "updated")
    ELSE /\ pc' = [pc EXCEPT ![u] = "clear"]
         /\ todo' = [todo EXCEPT ![u] = Tail(@)]
         /\ UNCHANGED answer

Others == <<batch, release, tag, ver, history>>

\* A call that goes well, or one that fails, and what comes after it.
Succeeds(u, from, to) ==
    Goto(u, from, to) /\ UNCHANGED <<todo, answer, faults, Others>>
Fails(u, from, to) ==
    Goto(u, from, to) /\ Fault /\ UNCHANGED <<todo, answer, Others>>

\* os.OpenFile(..., O_TRUNC): run u and those that have the file open write it
\* together from now on.
Shares(u, at) ==
    LET writers == {o \in Runs \ {u} : pc[o] = at /\ Current(o) = Current(u)}
    IN  mixed' = IF writers = {} THEN mixed \ {u} ELSE mixed \cup writers \cup {u}

\* What run u may have written, once it has written everything.
Written(u) == IF u \in mixed THEN {Whole(ver[u]), Part(ver[u])} ELSE {Whole(ver[u])}

\* os.Remove, whose error nobody looks at.
Removed(files, b) == {files, [files EXCEPT ![b] = NoFile]}

-----------------------------------------------------------------------------
(* updateRelease and updateDev.                                            *)

\* The run is a process of the installed command.  It reads the latest release,
\* whose archive has both binaries, or (--dev) the latest commit.
Start(u) ==
    /\ pc[u] = "idle"
    /\ dst[Cli].whole
    /\ ~scenario.together => \A o \in Runs : ~Alive(o)
    /\ pc' = [pc EXCEPT ![u] = "fetch"]
    /\ tag' = [tag EXCEPT ![u] = release]
    /\ \E entries \in {Archive, <<Cli>>} : todo' = [todo EXCEPT ![u] = entries]
    /\ rerun' = (rerun \/ \E b \in scenario.installed : dst[b] = NoFile)
    /\ UNCHANGED <<disk, mixed, batch, release, ver, answer, faults, crashes, stranded,
                   scenario>>

\* Mutant: a release run also takes what is the latest by now.
BugFetch(u) ==
    /\ pc[u] = "fetch"
    /\ \/ Ends(u, "failed") /\ UNCHANGED ver
       \/ /\ pc' = [pc EXCEPT ![u] = "clear"]
          /\ ver' = [ver EXCEPT ![u] = release]
          /\ UNCHANGED <<todo, answer>>
    /\ UNCHANGED <<disk, mixed, batch, release, tag, faults, history>>

\* The archive is the one of the release that was read; git clones whatever is
\* the latest commit by now.
Fetch(u) ==
    /\ pc[u] = "fetch"
    /\ \/ Ends(u, "failed") /\ UNCHANGED ver
       \/ /\ pc' = [pc EXCEPT ![u] = "clear"]
          /\ ver' = [ver EXCEPT ![u] = IF todo[u] = <<Cli>> THEN release ELSE tag[u]]
          /\ UNCHANGED <<todo, answer>>
    /\ UNCHANGED <<disk, mixed, batch, release, tag, faults, history>>

\* The next entry of the archive cannot be read.
BadEntry(u) ==
    /\ pc[u] = "clear"
    /\ Fault
    /\ Ends(u, "failed")
    /\ UNCHANGED <<disk, mixed, Others>>

-----------------------------------------------------------------------------
(* writeAtomic.                                                            *)

\* A left-over of an earlier update goes.
Clear(u) ==
    /\ Succeeds(u, "clear", "away")
    /\ old' \in Removed(old, Current(u))
    /\ UNCHANGED <<dst, tmp, new, mixed>>

\* Mutant: copies the old binary instead of moving it.
BugMoveAway(u) ==
    LET b == Current(u)
    IN  /\ pc[u] = "away"
        /\ dst[b] # NoFile
        /\ Succeeds(u, "away", "create")
        /\ old' = [old EXCEPT ![b] = dst[b]]
        /\ UNCHANGED <<dst, tmp, new, mixed>>

\* os.Rename(dst, old)
MoveAway(u) ==
    LET b == Current(u)
    IN  /\ pc[u] = "away"
        /\ dst[b] # NoFile
        /\ ~Locked(b)
        /\ Succeeds(u, "away", "create")
        /\ old' = [old EXCEPT ![b] = dst[b]]
        /\ dst' = [dst EXCEPT ![b] = NoFile]
        /\ UNCHANGED <<tmp, new, mixed>>

\* On Windows a dst.old that could not be removed may still be executed, and is
\* then not replaced either.
InTheWay(b) == scenario.platform = "windows" /\ old[b] # NoFile

\* The rename fails: the code takes the file to be locked, whatever the reason.
CannotMoveAway(u) ==
    LET b == Current(u)
    IN  /\ pc[u] = "away"
        /\ IF dst[b] = NoFile \/ Locked(b) \/ InTheWay(b)
           THEN Succeeds(u, "away", "createNew")
           ELSE Fails(u, "away", "createNew")
        /\ UNCHANGED <<disk, mixed>>

\* Mutant: opens dst itself.
BugCreateTmp(u) ==
    \/ /\ Succeeds(u, "create", "copy")
       /\ dst' = [dst EXCEPT ![Current(u)] = Part(ver[u])]
       /\ Shares(u, "copy")
       /\ UNCHANGED <<old, tmp, new>>
    \/ Fails(u, "create", "restore") /\ UNCHANGED <<disk, mixed>>

CreateTmp(u) ==
    \/ /\ Succeeds(u, "create", "copy")
       /\ tmp' = [tmp EXCEPT ![Current(u)] = Part(ver[u])]
       /\ Shares(u, "copy")
       /\ UNCHANGED <<dst, old, new>>
    \/ Fails(u, "create", "restore") /\ UNCHANGED <<disk, mixed>>

\* Mutant: a failed copy returns without putting the old binary back.
BugCopyTmp(u) ==
    \/ /\ Succeeds(u, "copy", "install")
       /\ tmp' = [tmp EXCEPT ![Current(u)] = Whole(ver[u])]
       /\ UNCHANGED <<dst, old, new, mixed>>
    \/ /\ pc[u] = "copy" /\ Fault /\ Ends(u, "failed")
       /\ UNCHANGED <<disk, mixed, Others>>

\* Mutant: the backup is deleted as soon as the new binary is written.
BugCopyTmpDrops(u) ==
    \/ /\ Succeeds(u, "copy", "install")
       /\ tmp' = [tmp EXCEPT ![Current(u)] = Whole(ver[u])]
       /\ old' = [old EXCEPT ![Current(u)] = NoFile]
       /\ UNCHANGED <<dst, new, mixed>>
    \/ Fails(u, "copy", "discard") /\ UNCHANGED <<disk, mixed>>

\* io.Copy and Close
CopyTmp(u) ==
    \/ /\ Succeeds(u, "copy", "install")
       /\ \E file \in Written(u) : tmp' = [tmp EXCEPT ![Current(u)] = file]
       /\ UNCHANGED <<dst, old, new, mixed>>
    \/ Fails(u, "copy", "discard") /\ UNCHANGED <<disk, mixed>>

\* The file is closed before it is removed.
DiscardTmp(u) ==
    /\ Succeeds(u, "discard", "restore")
    /\ tmp' \in Removed(tmp, Current(u))
    /\ UNCHANGED <<dst, old, new, mixed>>

\* os.Rename(tmp, dst)
Install(u) ==
    LET b == Current(u)
        works == tmp[b] # NoFile /\ ~Open("copy", b)
    IN  \/ /\ works
           /\ Succeeds(u, "install", "drop")
           /\ dst' = [dst EXCEPT ![b] = tmp[b]]
           /\ tmp' = [tmp EXCEPT ![b] = NoFile]
           /\ UNCHANGED <<old, new, mixed>>
        \/ /\ IF works THEN Fails(u, "install", "restore")
                        ELSE Succeeds(u, "install", "restore")
           /\ UNCHANGED <<disk, mixed>>

\* os.Rename(old, dst).  Nobody looks at its error: writeAtomic and the command
\* return the first one.
Restore(u) ==
    LET b == Current(u)
    IN  /\ pc[u] = "restore"
        /\ Ends(u, "failed")
        /\ \/ /\ old[b] # NoFile
              /\ dst' = [dst EXCEPT ![b] = old[b]]
              /\ old' = [old EXCEPT ![b] = NoFile]
              /\ UNCHANGED <<stranded, faults>>
           \/ /\ old[b] = NoFile
              /\ UNCHANGED <<dst, old, stranded, faults>>
           \/ /\ old[b] # NoFile
              /\ Fault
              /\ stranded' = stranded \cup {b}
              /\ UNCHANGED <<dst, old>>
        /\ UNCHANGED <<tmp, new, mixed, batch, release, tag, ver, crashes, rerun, scenario>>

Drop(u) ==
    /\ pc[u] = "drop"
    /\ NextEntry(u)
    /\ old' \in Removed(old, Current(u))
    /\ UNCHANGED <<dst, tmp, new, mixed, faults, Others>>

\* The way round a file that cannot be renamed.
CreateNew(u) ==
    \/ /\ Succeeds(u, "createNew", "copyNew")
       /\ new' = [new EXCEPT ![Current(u)] = Part(ver[u])]
       /\ Shares(u, "copyNew")
       /\ UNCHANGED <<dst, old, tmp>>
    \/ /\ pc[u] = "createNew" /\ Fault /\ Ends(u, "failed")
       /\ UNCHANGED <<disk, mixed, Others>>

CopyNew(u) ==
    \/ /\ Succeeds(u, "copyNew", "replaceSelf")
       /\ \E file \in Written(u) : new' = [new EXCEPT ![Current(u)] = file]
       /\ UNCHANGED <<dst, old, tmp, mixed>>
    \/ /\ pc[u] = "copyNew" /\ Fault /\ Ends(u, "failed")
       /\ new' \in Removed(new, Current(u))
       /\ UNCHANGED <<dst, old, tmp, mixed, Others>>

\* update_notwindows.go: give up.
ReplaceSelfUnix(u) ==
    /\ scenario.platform = "unix"
    /\ pc[u] = "replaceSelf"
    /\ Ends(u, "swap by hand")
    /\ new' \in Removed(new, Current(u))
    /\ UNCHANGED <<dst, old, tmp, mixed, faults, Others>>

\* Where process m reads on once the script names b.  It waits by its place in the
\* file, and the lines that name the server's binary are longer.
ReadsOn(m, b) ==
    LET shorter == script = Srv /\ b = Cli
    IN  CASE mover[m] = "check" /\ shorter  -> "delete"
          [] mover[m] = "delete" /\ shorter -> "ended"
          [] OTHER                          -> mover[m]

\* update_windows.go: write the script and start it, if it can be started: nobody
\* looks at that error.  Processes that read the file while it is being written
\* find it empty and end.
ReplaceSelfWindows(u) ==
    LET b == Current(u)
        running == {m \in Movers : mover[m] \in Lines}
    IN  /\ scenario.platform = "windows"
        /\ pc[u] = "replaceSelf"
        /\ \/ /\ NextEntry(u)
              /\ script' = b
              /\ \E late \in SUBSET running : \E line \in {"loop", "none"} :
                    /\ mover' = [m \in Movers |-> IF m = <<u, b>> THEN line
                                                  ELSE IF m \in late THEN "ended"
                                                  ELSE ReadsOn(m, b)]
                    /\ IF line = "none" THEN Fault ELSE UNCHANGED faults
           \/ /\ Ends(u, "failed")
              /\ Fault
              /\ script' \in {script, Empty}
              /\ UNCHANGED mover
        /\ UNCHANGED <<disk, mixed, release, tag, ver, history>>

-----------------------------------------------------------------------------
(* The batch script: cmd reads it line by line, so that a process executes  *)
(* whatever the file holds by then.                                         *)

Script == UNCHANGED <<old, tmp, mixed, release, pc, tag, ver, todo, answer, faults,
                      history>>

At(m, line) == mover[m] = line /\ script \in Binaries

\* move /y new dst
Move(m) ==
    LET works == new[script] # NoFile /\ ~Locked(script) /\ ~Open("copyNew", script)
    IN  /\ At(m, "loop")
        /\ mover' = [mover EXCEPT ![m] = "check"]
        /\ IF works
           THEN /\ dst' = [dst EXCEPT ![script] = new[script]]
                /\ new' = [new EXCEPT ![script] = NoFile]
           ELSE UNCHANGED <<dst, new>>
        /\ UNCHANGED script
        /\ Script

\* Mutant: the script does not try again.
BugCheck(m) ==
    /\ At(m, "check")
    /\ mover' = [mover EXCEPT ![m] = "delete"]
    /\ UNCHANGED <<dst, new, script>>
    /\ Script

\* if exist new goto loop
Check(m) ==
    /\ At(m, "check")
    /\ mover' = [mover EXCEPT ![m] = IF new[script] = NoFile THEN "delete" ELSE "loop"]
    /\ UNCHANGED <<dst, new, script>>
    /\ Script

\* del: the script that is there now, which may be another run's.
Delete(m) ==
    /\ At(m, "delete")
    /\ mover' = [mover EXCEPT ![m] = "ended"]
    /\ script' = None
    /\ UNCHANGED <<dst, new>>
    /\ Script

\* The script is no longer there, or has no line.
Stop(m) ==
    /\ mover[m] \in Lines
    /\ script \notin Binaries
    /\ mover' = [mover EXCEPT ![m] = "ended"]
    /\ UNCHANGED <<dst, new, script>>
    /\ Script

ScriptLine(m) == Move(m) \/ Check(m) \/ Delete(m) \/ Stop(m)

-----------------------------------------------------------------------------
Publish ==
    /\ release < MaxRelease
    /\ release' = release + 1
    /\ UNCHANGED <<disk, mixed, batch, pc, tag, ver, todo, answer, faults, history>>

\* The run is killed between two system calls.
Crash(u) ==
    /\ Calling(u)
    /\ crashes < scenario.crashes
    /\ crashes' = crashes + 1
    /\ Ends(u, "killed")
    /\ UNCHANGED <<disk, mixed, batch, release, tag, ver, faults, stranded, rerun,
                   scenario>>

Call(u) ==
    /\ Calling(u)
    /\ \/ Clear(u)     \/ MoveAway(u)   \/ CannotMoveAway(u)
       \/ CreateTmp(u) \/ CopyTmp(u)    \/ DiscardTmp(u)
       \/ Install(u)   \/ Restore(u)    \/ Drop(u)
       \/ CreateNew(u) \/ CopyNew(u)    \/ ReplaceSelfUnix(u)
       \/ ReplaceSelfWindows(u) \/ BadEntry(u)

Over ==
    /\ \A u \in Runs : ~Alive(u)
    /\ \A m \in Movers : mover[m] \notin Lines
    /\ UNCHANGED vars

Next ==
    \/ \E u \in Runs : Start(u) \/ Fetch(u) \/ Call(u) \/ Crash(u)
    \/ \E m \in Movers : ScriptLine(m)
    \/ Publish
    \/ Over

\* A run that has got its files goes on until it ends, and cmd executes the script;
\* nobody has to start a run, and the network may keep it waiting for ever: its
\* requests have no timeout.
Spec ==
    /\ Init
    /\ [][Next]_vars
    /\ \A u \in Runs : WF_vars(Call(u))
    /\ \A m \in Movers : WF_vars(ScriptLine(m))

-----------------------------------------------------------------------------
(* Properties.                                                             *)

File == [version : 0 .. MaxRelease, whole : BOOLEAN]

TypeOK ==
    /\ dst \in [Binaries -> File]
    /\ old \in [Binaries -> File]
    /\ tmp \in [Binaries -> File]
    /\ new \in [Binaries -> File]
    /\ mixed \subseteq Runs
    /\ script \in Binaries \cup {None, Empty}
    /\ mover \in [Movers -> Lines \cup {"none", "ended"}]
    /\ release \in Nat
    /\ pc \in [Runs -> {"idle", "fetch", "done"} \cup Calls]
    /\ tag \in [Runs -> 0 .. MaxRelease]
    /\ ver \in [Runs -> 0 .. MaxRelease]
    /\ todo \in [Runs -> {<<>>, <<Cli>>, <<Srv>>, Archive}]
    /\ \A u \in Runs : Alive(u) => todo[u] # <<>>
    /\ answer \in [Runs -> {"none", "updated", "failed", "swap by hand", "killed"}]
    /\ faults \in Nat
    /\ crashes \in Nat
    /\ stranded \subseteq Binaries
    /\ rerun \in BOOLEAN
    /\ scenario \in Scenarios

\* The binary has been moved away and the run has put nothing in its place yet.
Replacing(u, b) ==
    /\ pc[u] \in {"create", "copy", "discard", "install", "restore"}
    /\ Current(u) = b

\* On Unix two runs never write one dst.tmp: nothing but the missing dst keeps the
\* second one out, because its rename fails.  (On Windows the script of an earlier
\* run may put dst back while a run writes.)
OneWriter ==
    scenario.platform = "unix" =>
        \A b \in Binaries : \A u, o \in Runs :
            Replacing(u, b) /\ Replacing(o, b) => u = o

\* What the user would start is a whole binary, at every moment, even when runs
\* overlap or are killed.
NeverTorn ==
    scenario.platform = "unix" =>
        \A b \in Binaries : dst[b] = NoFile \/ dst[b].whole

\* A binary is missing only while a run is replacing it: every error puts the
\* old one back.  It takes two failing calls to leave it missing, the second one
\* that of putting it back; a killed run, which does not come to put it back; or
\* a failing run whose backup an overlapping run has deleted.
PutBack ==
    crashes = 0 /\ ~(scenario.together /\ faults > 0) =>
        \A b \in scenario.installed :
            dst[b] = NoFile => \/ \E u \in Runs : Replacing(u, b)
                               \/ b \in stranded /\ faults > 1

\* Wherever runs are killed and whatever fails, a whole copy of every binary is
\* left to be put back by hand, until a run begins that finds one missing: it
\* deletes dst.old first.  (On Windows the script of an earlier run may move a
\* dst.new that a killed run has left half-written.)
CopySurvives ==
    scenario.platform = "unix" /\ ~rerun /\ ~scenario.together =>
        \A b \in scenario.installed : dst[b].whole \/ old[b].whole

Entries(u) == IF todo[u] = <<Srv>> THEN Binaries ELSE {Cli}
Other(u) == {o \in Runs \ {u} : ver[o] # 0}

\* What run u says it has installed: the release it has read, or with --dev the
\* commit it has read or a later one.
Announced(u) == IF todo[u] = <<Cli>> THEN tag[u] .. MaxRelease ELSE {tag[u]}

\* After the step binary b is what run u announces, or what another run has made
\* of it.
Installed(u, b) ==
    \/ dst'[b] \in {Whole(v) : v \in Announced(u)}
    \/ scenario.together /\ Other(u) # {}
    \/ /\ scenario.platform = "windows"
       /\ \/ new'[b] \in {Whole(v) : v \in Announced(u)}
          \/ \E o \in Other(u) : dst'[b].version = ver[o]

\* "updated to <tag>": every binary of the archive is that version, whatever is
\* published meanwhile, and "updated to commit <sha>" at least that commit, unless
\* a run that overlaps has got hold of it.  On Windows it may still wait to be
\* moved, and the script of an earlier run may have moved over it what another run
\* has left in dst.new, be it a half-written one.
UpdatedIsNew ==
    [][\A u \in Runs :
          answer[u] = "none" /\ answer'[u] = "updated" =>
              \A b \in Entries(u) : Installed(u, b)]_vars

\* Processes execute a script for b, none of them is about to delete it, and no run
\* that has dst.new open is about to write it again.
Swapping(b) ==
    /\ script = b
    /\ \E m \in Movers : mover[m] \in {"loop", "check"}
    /\ \A m \in Movers : mover[m] # "delete"
    /\ \A u \in Runs : pc[u] \in {"copyNew", "replaceSelf"} => Current(u) # b

\* "batch script swaps after process exits" (update.go): what the script names is
\* moved into place once no process waiting for the network keeps it locked,
\* unless a second fallback writes another name over it or fails to write it, or a
\* process of an earlier script, already past its last check, deletes it.
SwapsAfterExit ==
    \A b \in Binaries : \A v \in 2 .. MaxRelease :
        (Swapping(b) /\ new[b] = Whole(v))
            ~> \/ dst[b] = Whole(v)
               \/ script \notin {b, None}
               \/ new[b] # Whole(v)
               \/ Locked(b) /\ \E u \in Runs : pc[u] = "fetch"
=============================================================================
