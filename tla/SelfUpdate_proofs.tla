-------------------------- MODULE SelfUpdate_proofs --------------------------
(* The invariant of SelfUpdate for any number of runs and any scenarios. *)
EXTENDS SelfUpdate, TLAPS

(***************************************************************************)
(* The invariant.                                                          *)
(***************************************************************************)

Unix == scenario.platform = "unix"

Torn(file) == file # NoFile /\ ~file.whole

(* What is true of a run by its own doing: it has a version from its fetch on, and
   that is the one it announces. *)
RunsInv ==
    /\ release \in 2 .. MaxRelease
    /\ \A u \in Runs : /\ pc[u] \in {"idle", "fetch"} => ver[u] = 0
                       /\ pc[u] = "fetch" => tag[u] \in 2 .. release /\ todo[u] # <<Srv>>
                       /\ Calling(u) => ver[u] # 0 /\ ver[u] \in Announced(u)
    /\ Unix => \A m \in Movers : mover[m] = "none"

(* Runs that do not overlap are alone, and what is missing before one of them has
   found it so is what that run is replacing. *)
AloneInv ==
    ~scenario.together =>
        /\ \A u, o \in Runs : Alive(u) /\ Alive(o) => u = o
        /\ ~rerun => \A u \in Runs : \A c \in scenario.installed :
                        Alive(u) /\ dst[c] = NoFile => Replacing(u, c)

(* The other writer of a file is another run; on Unix dst.tmp has none. *)
MixedInv ==
    /\ \A u \in mixed : scenario.together /\ Other(u) # {}
    /\ Unix => \A u \in Runs : pc[u] = "copy" => u \notin mixed

(* Where dst is missing its one writer is at work; what is in dst, in dst.old and
   about to be renamed to dst is whole. *)
FilesInv ==
    Unix =>
        /\ \A b \in Binaries : ~Torn(dst[b]) /\ ~Torn(old[b])
        /\ \A u \in Runs : \A b \in Binaries : Replacing(u, b) => dst[b] = NoFile
        /\ \A u \in Runs : pc[u] = "install" => tmp[Current(u)].whole

(* A run that nobody overlaps has its backup, and what it has written; it comes to
   put the backup back only after a call has failed. *)
BackupInv ==
    ~scenario.together =>
        \A u \in Runs :
            /\ \A b \in Binaries : Replacing(u, b) => old[b] # NoFile
            /\ pc[u] = "install" => tmp[Current(u)] # NoFile
            /\ pc[u] \in {"discard", "restore"} => faults # 0

(* The run is about to give b a new dst. *)
Bringing(u, b) ==
    /\ pc[u] \in {"create", "copy"} \/ (pc[u] = "install" /\ tmp[b] # NoFile)
    /\ Current(u) = b

(* While no call has failed and no run was killed, overlap or not, a missing binary
   is about to come back. *)
BringingInv ==
    crashes = 0 /\ faults = 0 =>
        /\ \A u \in Runs : pc[u] # "discard"
        /\ \A b \in scenario.installed : dst[b] = NoFile => \E u \in Runs : Bringing(u, b)

(* Run u has installed b, or on Windows left it to the script. *)
Done(u, b) ==
    \/ dst[b] = Whole(ver[u])
    \/ ~Unix /\ (new[b] = Whole(ver[u]) \/ \E o \in Other(u) : dst[b].version = ver[o])

(* How far a run that nobody interferes with has come. *)
ProgressInv ==
    \A u \in Runs : Alive(u) /\ (scenario.together => Other(u) = {}) =>
        /\ pc[u] = "install" => tmp[Current(u)] = Whole(ver[u])
        /\ pc[u] = "drop" => Done(u, Current(u))
        /\ pc[u] = "replaceSelf" /\ ~Unix => Done(u, Current(u))
        /\ todo[u] = <<Srv>> => Done(u, Cli)

(* Who has written dst.new, and whether all of it. *)
NewInv ==
    ~Unix => \A b \in Binaries : new[b] # NoFile =>
        \E o \in Runs :
            /\ ver[o] # 0 /\ new[b].version = ver[o]
            /\ Alive(o) => \/ new[b].whole
                           \/ pc[o] = "copyNew" /\ Current(o) = b
                           \/ scenario.together /\ Other(o) # {}

IInv ==
    /\ TypeOK /\ RunsInv /\ AloneInv /\ MixedInv /\ FilesInv /\ BackupInv /\ BringingInv
    /\ ProgressInv /\ NewInv /\ OneWriter /\ PutBack /\ CopySurvives


(***************************************************************************)
(* Files, versions and the entries of an archive.                          *)
(***************************************************************************)

LEMMA Files ==
  /\ NoFile.version = 0 /\ NoFile.whole = FALSE
  /\ \A v : Whole(v).version = v /\ Whole(v).whole = TRUE
  /\ \A v : Part(v).version = v /\ Part(v).whole = FALSE
  /\ NoFile \in File
  /\ \A v \in 0 .. MaxRelease : Whole(v) \in File /\ Part(v) \in File
  /\ \A f \in File : f.whole => f = Whole(f.version)
  BY UpdateAssumption DEF NoFile, Whole, Part, File

LEMMA WholeIsAFile ==
  /\ \A v : Whole(v) # NoFile /\ ~Torn(Whole(v)) /\ ~Torn(NoFile)
  /\ \A f : f.whole => f # NoFile /\ ~Torn(f)
  BY Files DEF Torn

LEMMA PartIsAFile ==
  ASSUME TypeOK, RunsInv, NEW u \in Runs, Calling(u)
  PROVE  Part(ver[u]) # NoFile
  BY Files DEF RunsInv

(* The binary a run is at, and what comes after it. *)
LEMMA EntryOf ==
  ASSUME TypeOK, NEW u \in Runs, todo[u] # <<>>
  PROVE  /\ Current(u) \in Binaries
         /\ Len(todo[u]) = 1 <=> todo[u] # Archive
         /\ todo[u] = Archive => Current(u) = Cli /\ Tail(todo[u]) = <<Srv>>
         /\ todo[u] = <<Cli>> => Current(u) = Cli /\ Entries(u) = {Cli}
         /\ todo[u] = <<Srv>> => Current(u) = Srv /\ Entries(u) = Binaries
  <1>1. todo[u] \in {<<Cli>>, <<Srv>>, Archive}
    BY DEF TypeOK
  <1>2. /\ Len(<<Cli>>) = 1 /\ Head(<<Cli>>) = Cli
        /\ Len(<<Srv>>) = 1 /\ Head(<<Srv>>) = Srv
        /\ Len(Archive) = 2 /\ Head(Archive) = Cli /\ Tail(Archive) = <<Srv>>
        /\ <<Cli>> # <<Srv>>
    BY UpdateAssumption DEF Archive
  <1>3. <<Cli>> # Archive /\ <<Srv>> # Archive
    BY <1>2
  <1>4. Cli \in Binaries /\ Srv \in Binaries
    BY DEF Binaries
  <1>5. CASE todo[u] = <<Cli>>
    BY <1>2, <1>3, <1>4, <1>5 DEF Current, Entries
  <1>6. CASE todo[u] = <<Srv>>
    BY <1>2, <1>3, <1>4, <1>6 DEF Current, Entries
  <1>7. CASE todo[u] = Archive
    BY <1>2, <1>3, <1>4, <1>7 DEF Current, Entries
  <1> QED BY <1>1, <1>5, <1>6, <1>7

LEMMA Lists ==
  /\ Archive # <<>> /\ <<Cli>> # <<>> /\ <<Srv>> # <<>>
  /\ Archive # <<Cli>> /\ Archive # <<Srv>> /\ <<Cli>> # <<Srv>>
  <1>1. Len(Archive) = 2 /\ Len(<<Cli>>) = 1 /\ Len(<<Srv>>) = 1 /\ Len(<<>>) = 0
    BY DEF Archive
  <1>2. <<Cli>> # <<Srv>>
    BY UpdateAssumption
  <1> QED BY <1>1, <1>2

LEMMA CallNames ==
  /\ Calls \cap {"idle", "fetch", "done"} = {}
  /\ \A u \in Runs : Calling(u) => Alive(u)
  BY DEF Calls, Calling, Alive

(***************************************************************************)
(* What a system call does, file by file.                                  *)
(***************************************************************************)

Moves(u, from, to) ==
    pc[u] = from /\ pc'[u] = to /\ todo'[u] = todo[u] /\ answer'[u] = answer[u]

Stops(u, from, how) ==
    pc[u] = from /\ pc'[u] = "done" /\ todo'[u] = <<>> /\ answer'[u] = how

GoesOn(u, from) ==
    \/ Len(todo[u]) = 1 /\ Stops(u, from, "updated")
    \/ pc[u] = from /\ pc'[u] = "clear" /\ todo[u] = Archive /\ todo'[u] = <<Srv>>
         /\ answer'[u] = answer[u]

Same(f, b) == f'[b] = f[b]
MayGo(f, b) == f'[b] \in {f[b], NoFile}

(* A run that opens a file finds those that have it open. *)
Mixes(u) ==
    \/ Moves(u, "create", "copy") /\ Shares(u, "copy")
    \/ Moves(u, "createNew", "copyNew") /\ Shares(u, "copyNew")
    \/ pc'[u] \notin {"copy", "copyNew"} /\ UNCHANGED mixed

(* The call of run u touches nothing but its own control and the files of b. *)
Touches(u, b) ==
    /\ Calling(u) /\ b = Current(u) /\ b \in Binaries
    /\ \A o \in Runs \ {u} : pc'[o] = pc[o] /\ todo'[o] = todo[o] /\ answer'[o] = answer[o]
    /\ \A c \in Binaries \ {b} :
          dst'[c] = dst[c] /\ old'[c] = old[c] /\ tmp'[c] = tmp[c] /\ new'[c] = new[c]
    /\ Mixes(u)
    /\ UNCHANGED <<release, tag, ver, crashes, rerun, scenario>>
    /\ Unix => UNCHANGED mover
    /\ (faults' = 0 => faults = 0) /\ (faults > 1 => faults' > 1)
    /\ stranded \subseteq stranded'

(* The calls of the way through dst.old and dst.tmp. *)
Renaming(u, b) ==
    /\ Same(new, b)
    /\ \/ /\ Moves(u, "clear", "away")
          /\ Same(dst, b) /\ Same(tmp, b) /\ MayGo(old, b)
       \/ /\ Moves(u, "away", "create") /\ dst[b] # NoFile
          /\ dst'[b] = NoFile /\ old'[b] = dst[b] /\ Same(tmp, b)
       \/ /\ Moves(u, "create", "copy")
          /\ Same(dst, b) /\ Same(old, b) /\ tmp'[b] = Part(ver[u])
       \/ /\ Moves(u, "create", "restore") \/ Moves(u, "copy", "discard")
          /\ Same(dst, b) /\ Same(old, b) /\ Same(tmp, b) /\ faults' # 0
       \/ /\ Moves(u, "copy", "install")
          /\ Same(dst, b) /\ Same(old, b) /\ tmp'[b] \in Written(u)
       \/ /\ Moves(u, "discard", "restore")
          /\ Same(dst, b) /\ Same(old, b) /\ MayGo(tmp, b)
       \/ /\ Moves(u, "install", "drop") /\ tmp[b] # NoFile
          /\ dst'[b] = tmp[b] /\ Same(old, b) /\ tmp'[b] = NoFile
       \/ /\ Moves(u, "install", "restore")
          /\ tmp[b] = NoFile \/ Open("copy", b) \/ faults' # 0
          /\ Same(dst, b) /\ Same(old, b) /\ Same(tmp, b)
       \/ /\ Stops(u, "restore", "failed") /\ Same(tmp, b)
          /\ \/ old[b] # NoFile /\ dst'[b] = old[b] /\ old'[b] = NoFile
             \/ old[b] = NoFile /\ Same(dst, b) /\ Same(old, b)
             \/ /\ Same(dst, b) /\ Same(old, b)
                /\ faults' # 0 /\ (faults # 0 => faults' > 1) /\ b \in stranded'
       \/ /\ GoesOn(u, "drop")
          /\ Same(dst, b) /\ Same(tmp, b) /\ MayGo(old, b)

(* The calls of the way through dst.new, and the errors that end a run. *)
Setting(u, b) ==
    /\ Same(dst, b) /\ Same(old, b) /\ Same(tmp, b)
    /\ \/ Moves(u, "away", "createNew") /\ Same(new, b)
       \/ Moves(u, "createNew", "copyNew") /\ new'[b] = Part(ver[u])
       \/ Moves(u, "copyNew", "replaceSelf") /\ new'[b] \in Written(u)
       \/ Stops(u, "copyNew", "failed") /\ MayGo(new, b)
       \/ Stops(u, "replaceSelf", "swap by hand") /\ MayGo(new, b)
       \/ GoesOn(u, "replaceSelf") /\ ~Unix /\ Same(new, b)
       \/ Same(new, b) /\ \E from \in {"clear", "createNew", "replaceSelf"} :
                            Stops(u, from, "failed")

(* A run begins, gets its files, or is killed. *)
Begins(u) ==
    /\ pc[u] = "idle" /\ pc'[u] = "fetch" /\ tag'[u] = release
    /\ ~scenario.together => \A o \in Runs : ~Alive(o)
    /\ rerun' = (rerun \/ \E c \in scenario.installed : dst[c] = NoFile)
    /\ todo'[u] # <<Srv>>
    /\ \A o \in Runs \ {u} : pc'[o] = pc[o] /\ tag'[o] = tag[o] /\ todo'[o] = todo[o]
    /\ UNCHANGED <<dst, old, tmp, new, mixed, mover, release, ver, answer, faults, crashes,
                   stranded, scenario>>

Fetches(u) ==
    /\ pc[u] = "fetch"
    /\ \/ pc'[u] = "done" /\ ver'[u] = ver[u] /\ answer'[u] = "failed"
       \/ /\ pc'[u] = "clear" /\ todo'[u] = todo[u] /\ answer'[u] = answer[u]
          /\ ver'[u] # 0 /\ ver'[u] \in Announced(u)
    /\ \A o \in Runs \ {u} :
          pc'[o] = pc[o] /\ ver'[o] = ver[o] /\ todo'[o] = todo[o] /\ answer'[o] = answer[o]
    /\ UNCHANGED <<dst, old, tmp, new, mixed, mover, release, tag, faults, crashes, stranded,
                   rerun, scenario>>

Dies(u) ==
    /\ Calling(u) /\ pc'[u] = "done" /\ answer'[u] = "killed" /\ crashes' > 0
    /\ \A o \in Runs \ {u} : pc'[o] = pc[o] /\ todo'[o] = todo[o] /\ answer'[o] = answer[o]
    /\ UNCHANGED <<dst, old, tmp, new, mixed, mover, release, tag, ver, faults, stranded,
                   rerun, scenario>>

(* The script moves dst.new of one binary. *)
Swaps(b) ==
    /\ ~Unix /\ b \in Binaries /\ new[b] # NoFile /\ ~Open("copyNew", b)
    /\ dst'[b] = new[b] /\ new'[b] = NoFile
    /\ \A c \in Binaries \ {b} : dst'[c] = dst[c] /\ new'[c] = new[c]
    /\ UNCHANGED <<old, tmp, mixed, release, pc, tag, ver, todo, answer, faults, crashes,
                   stranded, rerun, scenario>>

(* Something else: another line of a script, a release. *)
Elsewhere ==
    /\ Unix => UNCHANGED mover
    /\ release' \in release .. MaxRelease
    /\ UNCHANGED <<dst, old, tmp, new, mixed, pc, tag, ver, todo, answer, faults, crashes,
                   stranded, rerun, scenario>>

(* Every step is one of these. *)
LEMMA CallSteps ==
  ASSUME TypeOK, RunsInv, NEW u \in Runs, Call(u), NEW b, b = Current(u)
  PROVE  Touches(u, b) /\ (Renaming(u, b) \/ Setting(u, b))
  <1>a. Calling(u) /\ todo[u] # <<>> /\ b \in Binaries
    BY EntryOf, CallNames DEF Call, TypeOK
  <1>b. /\ dst \in [Binaries -> File] /\ old \in [Binaries -> File]
        /\ tmp \in [Binaries -> File] /\ new \in [Binaries -> File]
        /\ pc \in [Runs -> {"idle", "fetch", "done"} \cup Calls]
        /\ todo \in [Runs -> {<<>>, <<Cli>>, <<Srv>>, Archive}]
        /\ answer \in [Runs -> {"none", "updated", "failed", "swap by hand", "killed"}]
        /\ faults \in Nat
    BY DEF TypeOK
  (* How the call goes on. *)
  <1>c. ASSUME NEW from, NEW to, Goto(u, from, to), UNCHANGED <<todo, answer>>
        PROVE  /\ Moves(u, from, to)
               /\ \A o \in Runs \ {u} :
                    pc'[o] = pc[o] /\ todo'[o] = todo[o] /\ answer'[o] = answer[o]
    BY <1>b, <1>c DEF Goto, Moves
  <1>i. ASSUME NEW from, NEW to, Fails(u, from, to) \/ Succeeds(u, from, to)
        PROVE  pc'[u] = to
    BY <1>b, <1>i DEF Fails, Succeeds, Goto
  <1>d. ASSUME NEW from, pc[u] = from, NEW how, Ends(u, how)
        PROVE  /\ Stops(u, from, how)
               /\ \A o \in Runs \ {u} :
                    pc'[o] = pc[o] /\ todo'[o] = todo[o] /\ answer'[o] = answer[o]
    BY <1>b, <1>d DEF Ends, Stops
  <1>e. ASSUME NEW from, pc[u] = from, NextEntry(u)
        PROVE  /\ GoesOn(u, from)
               /\ pc'[u] \in {"clear", "done"}
               /\ \A o \in Runs \ {u} :
                    pc'[o] = pc[o] /\ todo'[o] = todo[o] /\ answer'[o] = answer[o]
    <2>1. CASE Len(todo[u]) = 1
      BY <1>d, <1>e, <2>1 DEF NextEntry, GoesOn, Stops
    <2>2. CASE Len(todo[u]) # 1
      <3>1. todo[u] = Archive /\ Tail(todo[u]) = <<Srv>>
        BY <1>a, <2>2, EntryOf
      <3> QED BY <1>b, <1>e, <2>2, <3>1 DEF NextEntry, GoesOn
    <2> QED BY <2>1, <2>2
  <1>f. Fault => faults' # 0 /\ (faults # 0 => faults' > 1) /\ (faults > 1 => faults' > 1)
    <2>1. faults \in Nat
      BY <1>b
    <2>2. faults' = faults + 1 =>
            faults' # 0 /\ (faults # 0 => faults' > 1) /\ (faults > 1 => faults' > 1)
      BY <2>1
    <2> QED BY <2>2 DEF Fault
  <1>g. ASSUME \A o \in Runs \ {u} :
                 pc'[o] = pc[o] /\ todo'[o] = todo[o] /\ answer'[o] = answer[o],
               \A c \in Binaries \ {b} :
                 dst'[c] = dst[c] /\ old'[c] = old[c] /\ tmp'[c] = tmp[c] /\ new'[c] = new[c],
               Mixes(u),
               UNCHANGED <<release, tag, ver, crashes, rerun, scenario>>,
               Unix => UNCHANGED mover,
               Fault \/ UNCHANGED faults,
               stranded \subseteq stranded'
        PROVE  Touches(u, b)
    BY <1>a, <1>f, <1>g DEF Touches
  <1>h. ASSUME NEW files \in [Binaries -> File], NEW gone \in Removed(files, b)
        PROVE  gone[b] \in {files[b], NoFile} /\ \A c \in Binaries \ {b} : gone[c] = files[c]
    BY <1>a, <1>h DEF Removed
  <1> USE DEF Others, disk, batch, history, Same, MayGo
  <1> DEFINE Goal == Touches(u, b) /\ (Renaming(u, b) \/ Setting(u, b))
  <1>1. ASSUME Clear(u) PROVE Goal
    <2>1. Moves(u, "clear", "away") /\ Mixes(u)
      BY <1>1, <1>c DEF Clear, Succeeds, Mixes, Moves
    <2> QED BY <1>1, <1>b, <1>c, <1>g, <1>h, <2>1 DEF Clear, Succeeds, Renaming
  <1>2. ASSUME MoveAway(u) PROVE Goal
    <2>1. Moves(u, "away", "create") /\ Mixes(u)
      BY <1>2, <1>c DEF MoveAway, Succeeds, Mixes, Moves
    <2> QED BY <1>2, <1>a, <1>b, <1>c, <1>g, <2>1 DEF MoveAway, Succeeds, Renaming
  <1>3. ASSUME CannotMoveAway(u) PROVE Goal
    <2>1. Moves(u, "away", "createNew") /\ Mixes(u)
      BY <1>3, <1>c DEF CannotMoveAway, Succeeds, Fails, Mixes, Moves
    <2> QED BY <1>3, <1>c, <1>g, <2>1 DEF CannotMoveAway, Succeeds, Fails, Setting
  <1>4. ASSUME CreateTmp(u) PROVE Goal
    <2>1. CASE Succeeds(u, "create", "copy")
      <3>1. Moves(u, "create", "copy")
        BY <1>c, <2>1 DEF Succeeds
      <3>2. Shares(u, "copy") /\ tmp' = [tmp EXCEPT ![b] = Part(ver[u])]
              /\ UNCHANGED <<dst, old, new>>
        BY <1>4, <1>i, <3>1 DEF CreateTmp, Moves
      <3>3. Mixes(u)
        BY <3>1, <3>2 DEF Mixes
      <3> QED BY <1>a, <1>b, <1>c, <1>g, <2>1, <3>1, <3>2, <3>3 DEF Succeeds, Renaming
    <2>2. CASE Fails(u, "create", "restore") /\ UNCHANGED <<disk, mixed>>
      <3>1. Moves(u, "create", "restore") /\ Mixes(u)
        BY <1>c, <2>2 DEF Fails, Mixes, Moves
      <3> QED BY <1>c, <1>f, <1>g, <2>2, <3>1 DEF Fails, Renaming
    <2> QED BY <1>4, <2>1, <2>2 DEF CreateTmp
  <1>5. ASSUME CopyTmp(u) PROVE Goal
    <2>1. CASE Succeeds(u, "copy", "install")
      <3>1. Moves(u, "copy", "install")
        BY <1>c, <2>1 DEF Succeeds
      <3>2. PICK file \in Written(u) : /\ tmp' = [tmp EXCEPT ![b] = file]
                                       /\ UNCHANGED <<dst, old, new, mixed>>
        BY <1>5, <1>i, <3>1 DEF CopyTmp, Moves
      <3>3. Mixes(u)
        BY <3>1, <3>2 DEF Mixes, Moves
      <3> QED BY <1>a, <1>b, <1>c, <1>g, <2>1, <3>1, <3>2, <3>3 DEF Succeeds, Renaming
    <2>2. CASE Fails(u, "copy", "discard") /\ UNCHANGED <<disk, mixed>>
      <3>1. Moves(u, "copy", "discard") /\ Mixes(u)
        BY <1>c, <2>2 DEF Fails, Mixes, Moves
      <3> QED BY <1>c, <1>f, <1>g, <2>2, <3>1 DEF Fails, Renaming
    <2> QED BY <1>5, <2>1, <2>2 DEF CopyTmp
  <1>6. ASSUME DiscardTmp(u) PROVE Goal
    <2>1. Moves(u, "discard", "restore") /\ Mixes(u)
      BY <1>6, <1>c DEF DiscardTmp, Succeeds, Mixes, Moves
    <2> QED BY <1>6, <1>b, <1>c, <1>g, <1>h, <2>1 DEF DiscardTmp, Succeeds, Renaming
  <1>7. ASSUME Install(u) PROVE Goal
    <2>1. CASE Succeeds(u, "install", "drop")
      <3>1. Moves(u, "install", "drop")
        BY <1>c, <2>1 DEF Succeeds
      <3>2. /\ tmp[b] # NoFile /\ dst' = [dst EXCEPT ![b] = tmp[b]]
            /\ tmp' = [tmp EXCEPT ![b] = NoFile] /\ UNCHANGED <<old, new, mixed>>
        BY <1>7, <1>i, <3>1 DEF Install, Moves
      <3>3. Mixes(u)
        BY <3>1, <3>2 DEF Mixes, Moves
      <3> QED BY <1>a, <1>b, <1>c, <1>g, <2>1, <3>1, <3>2, <3>3 DEF Succeeds, Renaming
    <2>2. CASE /\ IF tmp[b] # NoFile /\ ~Open("copy", b)
                  THEN Fails(u, "install", "restore") ELSE Succeeds(u, "install", "restore")
               /\ UNCHANGED <<disk, mixed>>
      <3>1. Moves(u, "install", "restore") /\ Mixes(u)
        BY <1>c, <2>2 DEF Fails, Succeeds, Mixes, Moves
      <3>2. tmp[b] = NoFile \/ Open("copy", b) \/ faults' # 0
        BY <1>f, <2>2 DEF Fails
      <3> QED BY <1>c, <1>g, <2>2, <3>1, <3>2 DEF Fails, Succeeds, Renaming
    <2> QED BY <1>7, <2>1, <2>2 DEF Install
  <1>8. ASSUME Restore(u) PROVE Goal
    <2>1. Stops(u, "restore", "failed") /\ Mixes(u)
      BY <1>8, <1>d DEF Restore, Mixes, Stops
    <2>2. /\ UNCHANGED <<tmp, new>>
          /\ \/ old[b] # NoFile /\ dst'[b] = old[b] /\ old'[b] = NoFile
             \/ old[b] = NoFile /\ UNCHANGED <<dst, old>>
             \/ UNCHANGED <<dst, old>> /\ Fault /\ b \in stranded'
      BY <1>8, <1>a, <1>b DEF Restore
    <2>3. \A c \in Binaries \ {b} : dst'[c] = dst[c] /\ old'[c] = old[c]
      BY <1>8, <1>a, <1>b DEF Restore
    <2>4. Touches(u, b)
      BY <1>8, <1>d, <1>g, <2>1, <2>2, <2>3 DEF Restore
    <2>5. Renaming(u, b)
      BY <1>f, <2>1, <2>2 DEF Renaming
    <2> QED BY <2>4, <2>5
  <1>9. ASSUME Drop(u) PROVE Goal
    <2>1. GoesOn(u, "drop") /\ Mixes(u)
      BY <1>9, <1>e DEF Drop, Mixes
    <2> QED BY <1>9, <1>b, <1>e, <1>g, <1>h, <2>1 DEF Drop, Renaming
  <1>10. ASSUME CreateNew(u) PROVE Goal
    <2>1. CASE Succeeds(u, "createNew", "copyNew")
      <3>1. Moves(u, "createNew", "copyNew")
        BY <1>c, <2>1 DEF Succeeds
      <3>2. Shares(u, "copyNew") /\ new' = [new EXCEPT ![b] = Part(ver[u])]
              /\ UNCHANGED <<dst, old, tmp>>
        BY <1>10, <1>d, <3>1 DEF CreateNew, Stops, Moves
      <3>3. Mixes(u)
        BY <3>1, <3>2 DEF Mixes
      <3> QED BY <1>a, <1>b, <1>c, <1>g, <2>1, <3>1, <3>2, <3>3 DEF Succeeds, Setting
    <2>2. CASE pc[u] = "createNew" /\ Fault /\ Ends(u, "failed") /\ UNCHANGED <<disk, mixed, Others>>
      <3>1. Stops(u, "createNew", "failed") /\ Mixes(u)
        BY <1>d, <2>2 DEF Mixes, Stops
      <3> QED BY <1>d, <1>g, <2>2, <3>1 DEF Setting
    <2> QED BY <1>10, <2>1, <2>2 DEF CreateNew
  <1>11. ASSUME CopyNew(u) PROVE Goal
    <2>1. CASE Succeeds(u, "copyNew", "replaceSelf")
      <3>1. Moves(u, "copyNew", "replaceSelf")
        BY <1>c, <2>1 DEF Succeeds
      <3>2. PICK file \in Written(u) : /\ new' = [new EXCEPT ![b] = file]
                                       /\ UNCHANGED <<dst, old, tmp, mixed>>
        BY <1>11, <1>d, <3>1 DEF CopyNew, Stops, Moves
      <3>3. Mixes(u)
        BY <3>1, <3>2 DEF Mixes, Moves
      <3> QED BY <1>a, <1>b, <1>c, <1>g, <2>1, <3>1, <3>2, <3>3 DEF Succeeds, Setting
    <2>2. CASE /\ pc[u] = "copyNew" /\ Fault /\ Ends(u, "failed")
               /\ new' \in Removed(new, Current(u))
               /\ UNCHANGED <<dst, old, tmp, mixed, Others>>
      <3>1. Stops(u, "copyNew", "failed") /\ Mixes(u)
        BY <1>d, <2>2 DEF Mixes, Stops
      <3> QED BY <1>b, <1>d, <1>g, <1>h, <2>2, <3>1 DEF Setting
    <2> QED BY <1>11, <2>1, <2>2 DEF CopyNew
  <1>12. ASSUME ReplaceSelfUnix(u) PROVE Goal
    <2>1. Stops(u, "replaceSelf", "swap by hand") /\ Mixes(u)
      BY <1>12, <1>d DEF ReplaceSelfUnix, Mixes, Stops
    <2> QED BY <1>12, <1>b, <1>d, <1>g, <1>h, <2>1 DEF ReplaceSelfUnix, Setting
  <1>13. ASSUME ReplaceSelfWindows(u) PROVE Goal
    <2>1. ~Unix /\ pc[u] = "replaceSelf" /\ (Fault \/ UNCHANGED faults)
            /\ UNCHANGED <<disk, mixed, release, tag, ver, history>>
      BY <1>13 DEF ReplaceSelfWindows, Unix
    <2>2. CASE NextEntry(u)
      <3>1. GoesOn(u, "replaceSelf") /\ Mixes(u)
        BY <1>e, <2>1, <2>2 DEF Mixes
      <3> QED BY <1>e, <1>g, <2>1, <2>2, <3>1 DEF Setting
    <2>3. CASE Ends(u, "failed")
      <3>1. Stops(u, "replaceSelf", "failed") /\ Mixes(u)
        BY <1>d, <2>1, <2>3 DEF Mixes, Stops
      <3> QED BY <1>d, <1>g, <2>1, <2>3, <3>1 DEF Setting
    <2> QED BY <1>13, <2>2, <2>3 DEF ReplaceSelfWindows
  <1>14. ASSUME BadEntry(u) PROVE Goal
    <2>1. Stops(u, "clear", "failed") /\ Mixes(u)
      BY <1>14, <1>d DEF BadEntry, Mixes, Stops
    <2> QED BY <1>14, <1>d, <1>g, <2>1 DEF BadEntry, Setting
  <1> HIDE DEF Goal
  <1>15. Goal
    BY <1>1, <1>2, <1>3, <1>4, <1>5, <1>6, <1>7, <1>8, <1>9, <1>10, <1>11, <1>12, <1>13,
       <1>14 DEF Call
  <1> QED BY <1>15 DEF Goal

LEMMA Steps ==
  ASSUME TypeOK, RunsInv, [Next]_vars
  PROVE  \/ \E u \in Runs : \E b \in Binaries :
              Touches(u, b) /\ (Renaming(u, b) \/ Setting(u, b))
         \/ \E u \in Runs : Begins(u) \/ Fetches(u) \/ Dies(u)
         \/ \E b \in Binaries : Swaps(b)
         \/ Elsewhere
  <1>b. /\ dst \in [Binaries -> File] /\ new \in [Binaries -> File]
        /\ pc \in [Runs -> {"idle", "fetch", "done"} \cup Calls]
        /\ tag \in [Runs -> 0 .. MaxRelease] /\ ver \in [Runs -> 0 .. MaxRelease]
        /\ todo \in [Runs -> {<<>>, <<Cli>>, <<Srv>>, Archive}]
        /\ answer \in [Runs -> {"none", "updated", "failed", "swap by hand", "killed"}]
        /\ crashes \in Nat
    BY DEF TypeOK
  <1>c. release \in 2 .. MaxRelease /\ MaxRelease \in Nat
    BY UpdateAssumption DEF RunsInv
  <1> USE DEF disk, batch, history
  <1>1. ASSUME NEW u \in Runs, Start(u) PROVE Begins(u)
    BY <1>1, <1>b, Lists DEF Start, Begins
  <1>2. ASSUME NEW u \in Runs, Fetch(u) PROVE Fetches(u)
    <2>1. CASE Ends(u, "failed") /\ UNCHANGED ver
      BY <1>2, <1>b, <2>1 DEF Fetch, Ends, Fetches
    <2>2. CASE /\ pc' = [pc EXCEPT ![u] = "clear"]
               /\ ver' = [ver EXCEPT ![u] = IF todo[u] = <<Cli>> THEN release ELSE tag[u]]
               /\ UNCHANGED <<todo, answer>>
      <3>1. pc[u] = "fetch"
        BY <1>2 DEF Fetch
      <3>2. tag[u] \in 2 .. release
        BY <3>1 DEF RunsInv
      <3>3. ver'[u] = IF todo[u] = <<Cli>> THEN release ELSE tag[u]
        BY <1>b, <2>2
      <3>4. release \in tag[u] .. MaxRelease /\ release # 0 /\ tag[u] # 0
        BY <1>c, <3>2
      <3>5. ver'[u] # 0 /\ ver'[u] \in Announced(u)
        BY <3>3, <3>4 DEF Announced
      <3> QED BY <1>2, <1>b, <2>2, <3>1, <3>5 DEF Fetch, Fetches
    <2> QED BY <1>2, <2>1, <2>2 DEF Fetch
  <1>3. ASSUME NEW u \in Runs, Call(u)
        PROVE  \E b \in Binaries : Touches(u, b) /\ (Renaming(u, b) \/ Setting(u, b))
    BY <1>3, CallSteps DEF Touches
  <1>4. ASSUME NEW u \in Runs, Crash(u) PROVE Dies(u)
    <2>1. crashes \in Nat
      BY <1>b
    <2>2. crashes' > 0
      BY <1>4, <2>1 DEF Crash
    <2> QED BY <1>4, <1>b, <2>2 DEF Crash, Ends, Dies
  <1>5. ASSUME NEW m \in Movers, ScriptLine(m)
        PROVE  (\E b \in Binaries : Swaps(b)) \/ Elsewhere
    <2>1. mover[m] \in Lines
      BY <1>5 DEF ScriptLine, Move, Check, Delete, Stop, At, Lines
    <2>2. ~Unix
      BY <2>1 DEF RunsInv, Lines
    <2>3. release \in release .. MaxRelease
      BY <1>c
    <2>4. CASE Move(m)
      <3>1. script \in Binaries /\ Script
        BY <2>4 DEF Move, At
      <3>2. CASE new[script] # NoFile /\ ~Locked(script) /\ ~Open("copyNew", script)
        BY <1>b, <2>2, <2>4, <3>1, <3>2 DEF Move, Script, Swaps
      <3>3. CASE ~(new[script] # NoFile /\ ~Locked(script) /\ ~Open("copyNew", script))
        BY <2>2, <2>3, <2>4, <3>1, <3>3 DEF Move, Script, Elsewhere
      <3> QED BY <3>2, <3>3
    <2>5. CASE Check(m) \/ Delete(m) \/ Stop(m)
      BY <2>2, <2>3, <2>5 DEF Check, Delete, Stop, Script, Elsewhere
    <2> QED BY <1>5, <2>4, <2>5 DEF ScriptLine
  <1>6. ASSUME Publish PROVE Elsewhere
    <2>1. release' \in release .. MaxRelease
      BY <1>6, <1>c DEF Publish
    <2> QED BY <1>6, <2>1 DEF Publish, Elsewhere
  <1>7. ASSUME UNCHANGED vars PROVE Elsewhere
    <2>1. release \in release .. MaxRelease
      BY <1>c
    <2> QED BY <1>7, <2>1 DEF vars, Elsewhere
  <1> QED BY <1>1, <1>2, <1>3, <1>4, <1>5, <1>6, <1>7 DEF Next, Over

(***************************************************************************)
(* Types.                                                                  *)
(***************************************************************************)

(* The part of TypeOK that is about a run's own control. *)
ControlOK ==
    /\ pc \in [Runs -> {"idle", "fetch", "done"} \cup Calls]
    /\ todo \in [Runs -> {<<>>, <<Cli>>, <<Srv>>, Archive}]
    /\ \A u \in Runs : Alive(u) => todo[u] # <<>>
    /\ answer \in [Runs -> {"none", "updated", "failed", "swap by hand", "killed"}]

FilesOK ==
    /\ dst \in [Binaries -> File]
    /\ old \in [Binaries -> File]
    /\ tmp \in [Binaries -> File]
    /\ new \in [Binaries -> File]

BatchOK ==
    /\ script \in Binaries \cup {None, Empty}
    /\ mover \in [Movers -> Lines \cup {"none", "ended"}]

LEMMA CallTypes ==
  ASSUME TypeOK, NEW u \in Runs, Call(u)
  PROVE  ControlOK' /\ FilesOK' /\ faults' \in Nat /\ mixed' \subseteq Runs
  <1> DEFINE b == Current(u)
  <1>a. Alive(u) /\ todo[u] # <<>> /\ b \in Binaries
    BY EntryOf, CallNames DEF Call, TypeOK
  <1> HIDE DEF b
  <1>b. ControlOK /\ FilesOK /\ faults \in Nat /\ mixed \subseteq Runs
          /\ ver[u] \in 0 .. MaxRelease
    BY DEF TypeOK, ControlOK, FilesOK
  <1>c. ASSUME NEW from, NEW to \in Calls, Goto(u, from, to), UNCHANGED <<todo, answer>>
        PROVE  ControlOK'
    BY <1>a, <1>b, <1>c DEF Goto, ControlOK, Alive
  <1>d. ASSUME NEW how \in {"updated", "failed", "swap by hand"}, Ends(u, how)
        PROVE  ControlOK'
    <2>1. "done" \notin Calls
      BY DEF Calls
    <2> QED BY <1>b, <1>d, <2>1 DEF Ends, ControlOK, Alive
  <1>e. ASSUME NextEntry(u) PROVE ControlOK'
    <2>1. CASE Len(todo[u]) = 1
      BY <1>d, <1>e, <2>1 DEF NextEntry
    <2>2. CASE Len(todo[u]) # 1
      <3>1. todo[u] = Archive /\ Tail(todo[u]) = <<Srv>>
        BY <1>a, <2>2, EntryOf
      <3>2. pc' = [pc EXCEPT ![u] = "clear"] /\ todo' = [todo EXCEPT ![u] = <<Srv>>]
              /\ UNCHANGED answer
        BY <1>b, <1>e, <2>2, <3>1 DEF NextEntry, ControlOK
      <3>3. "clear" \in Calls /\ <<Srv>> # <<>>
        BY DEF Calls
      <3> QED BY <1>b, <3>2, <3>3 DEF ControlOK, Alive
    <2> QED BY <2>1, <2>2
  <1>f. ASSUME Fault PROVE faults' \in Nat
    BY <1>b, <1>f DEF Fault
  <1>g. NoFile \in File /\ Whole(ver[u]) \in File /\ Part(ver[u]) \in File
          /\ Written(u) \subseteq File
    BY <1>b, Files DEF Written
  <1>h. {"clear", "away", "create", "copy", "discard", "install", "restore",
         "drop", "createNew", "copyNew", "replaceSelf"} \subseteq Calls
    BY DEF Calls
  <1>i. ASSUME NEW files \in [Binaries -> File] PROVE Removed(files, b) \subseteq [Binaries -> File]
    BY <1>g DEF Removed
  <1>j. ASSUME NEW at, Shares(u, at) PROVE mixed' \subseteq Runs
    BY <1>b, <1>j DEF Shares
  <1> USE DEF Others, disk, batch, history
  <1> DEFINE Goal == ControlOK' /\ FilesOK' /\ faults' \in Nat /\ mixed' \subseteq Runs
  <1>1. ASSUME Clear(u) PROVE Goal
    BY <1>1, <1>b, <1>c, <1>h, <1>i DEF b, Clear, Succeeds, FilesOK
  <1>2. ASSUME MoveAway(u) PROVE Goal
    BY <1>2, <1>a, <1>b, <1>c, <1>g, <1>h DEF b, MoveAway, Succeeds, FilesOK
  <1>3. ASSUME CannotMoveAway(u) PROVE Goal
    BY <1>3, <1>b, <1>c, <1>f, <1>h DEF CannotMoveAway, Succeeds, Fails, FilesOK
  <1>4. ASSUME CreateTmp(u) PROVE Goal
    BY <1>4, <1>a, <1>b, <1>c, <1>f, <1>g, <1>h, <1>j
       DEF b, CreateTmp, Succeeds, Fails, FilesOK
  <1>5. ASSUME CopyTmp(u) PROVE Goal
    BY <1>5, <1>a, <1>b, <1>c, <1>f, <1>g, <1>h
       DEF b, CopyTmp, Succeeds, Fails, FilesOK
  <1>6. ASSUME DiscardTmp(u) PROVE Goal
    BY <1>6, <1>b, <1>c, <1>h, <1>i DEF b, DiscardTmp, Succeeds, FilesOK
  <1>7. ASSUME Install(u) PROVE Goal
    <2>1. CASE Succeeds(u, "install", "drop") \/ UNCHANGED disk
      BY <1>7, <1>a, <1>b, <1>c, <1>f, <1>g, <1>h, <2>1
         DEF b, Install, Succeeds, Fails, FilesOK
    <2> QED BY <1>7, <2>1 DEF Install
  <1>8. ASSUME Restore(u) PROVE Goal
    BY <1>8, <1>a, <1>b, <1>d, <1>f, <1>g DEF b, Restore, FilesOK
  <1>9. ASSUME Drop(u) PROVE Goal
    BY <1>9, <1>b, <1>e, <1>i DEF b, Drop, FilesOK
  <1>10. ASSUME CreateNew(u) PROVE Goal
    BY <1>10, <1>a, <1>b, <1>c, <1>d, <1>f, <1>g, <1>h, <1>j
       DEF b, CreateNew, Succeeds, FilesOK
  <1>11. ASSUME CopyNew(u) PROVE Goal
    <2>1. CASE Succeeds(u, "copyNew", "replaceSelf")
      BY <1>11, <1>a, <1>b, <1>c, <1>g, <1>h, <1>i, <2>1 DEF b, CopyNew, Succeeds, FilesOK
    <2>2. CASE Fault /\ Ends(u, "failed")
      BY <1>11, <1>a, <1>b, <1>d, <1>f, <1>g, <1>i, <2>2 DEF b, CopyNew, FilesOK
    <2> QED BY <1>11, <2>1, <2>2 DEF CopyNew
  <1>12. ASSUME ReplaceSelfUnix(u) PROVE Goal
    BY <1>12, <1>b, <1>d, <1>i DEF b, ReplaceSelfUnix, FilesOK
  <1>13. ASSUME ReplaceSelfWindows(u) PROVE Goal
    <2>1. faults' \in Nat /\ UNCHANGED <<disk, mixed>>
      BY <1>13, <1>b, <1>f DEF ReplaceSelfWindows
    <2>2. ControlOK'
      BY <1>13, <1>d, <1>e DEF ReplaceSelfWindows
    <2> QED BY <1>b, <2>1, <2>2 DEF FilesOK
  <1>14. ASSUME BadEntry(u) PROVE Goal
    BY <1>14, <1>b, <1>d, <1>f DEF BadEntry, FilesOK
  <1> HIDE DEF Goal
  <1>15. Goal
    BY <1>1, <1>2, <1>3, <1>4, <1>5, <1>6, <1>7, <1>8, <1>9, <1>10, <1>11, <1>12, <1>13,
       <1>14 DEF Call
  <1> QED BY <1>15 DEF Goal

(* The rest of the state under a call. *)
LEMMA CallRest ==
  ASSUME TypeOK, NEW u \in Runs, Call(u)
  PROVE  /\ UNCHANGED <<release, tag, ver, crashes, rerun, scenario>>
         /\ BatchOK' /\ stranded' \subseteq Binaries
  <1>a. BatchOK /\ stranded \subseteq Binaries /\ Current(u) \in Binaries
    BY EntryOf, CallNames DEF Call, TypeOK, BatchOK
  <1> USE DEF Others, batch, history
  <1>1. CASE UNCHANGED Others
    BY <1>1, <1>a DEF BatchOK
  <1>2. CASE ReplaceSelfWindows(u)
    <2>1. \A m \in Movers : ReadsOn(m, Current(u)) \in Lines \cup {"none", "ended"}
      BY <1>a DEF ReadsOn, BatchOK, Lines
    <2>2. CASE script' = Current(u)
            /\ \E late \in SUBSET {m \in Movers : mover[m] \in Lines} :
                 \E line \in {"loop", "none"} :
                   mover' = [m \in Movers |-> IF m = <<u, Current(u)>> THEN line
                                              ELSE IF m \in late THEN "ended"
                                              ELSE ReadsOn(m, Current(u))]
      <3>1. mover' \in [Movers -> Lines \cup {"none", "ended"}]
        BY <2>1, <2>2 DEF Lines
      <3> QED BY <1>2, <1>a, <2>2, <3>1 DEF ReplaceSelfWindows, BatchOK
    <2>3. CASE script' \in {script, Empty} /\ UNCHANGED mover
      BY <1>2, <1>a, <2>3 DEF ReplaceSelfWindows, BatchOK
    <2> QED BY <1>2, <2>2, <2>3 DEF ReplaceSelfWindows
  <1>3. CASE Restore(u)
    BY <1>3, <1>a DEF Restore, BatchOK
  <1> QED
    BY <1>1, <1>2, <1>3
       DEF Call, Clear, MoveAway, CannotMoveAway, CreateTmp, CopyTmp, DiscardTmp, Install,
           Drop, CreateNew, CopyNew, ReplaceSelfUnix, BadEntry, Succeeds, Fails

LEMMA TypeStep ==
  ASSUME TypeOK, RunsInv, [Next]_vars
  PROVE  TypeOK'
  <1>b. ControlOK /\ FilesOK /\ BatchOK /\ release \in 2 .. MaxRelease
          /\ faults \in Nat /\ crashes \in Nat
    BY DEF TypeOK, ControlOK, FilesOK, BatchOK, RunsInv
  <1>c. release \in 0 .. MaxRelease
    BY <1>b, UpdateAssumption
  <1>d. "done" \notin Calls /\ "clear" \in Calls
    BY DEF Calls
  <1> USE DEF disk, batch, history
  <1>1. ASSUME NEW u \in Runs, Start(u) PROVE TypeOK'
    <2>1. ControlOK'
      BY <1>1, <1>b, <1>d, Lists DEF Start, ControlOK, Alive
    <2>2. tag' \in [Runs -> 0 .. MaxRelease] /\ rerun' \in BOOLEAN
      BY <1>1, <1>c DEF Start, TypeOK
    <2> QED BY <1>1, <2>1, <2>2 DEF Start, TypeOK, ControlOK
  <1>2. ASSUME NEW u \in Runs, Fetch(u) PROVE TypeOK'
    <2>1. ControlOK'
      <3>1. Alive(u)
        BY <1>2 DEF Fetch, Alive
      <3> QED BY <1>2, <1>b, <1>d, <3>1 DEF Fetch, Ends, ControlOK, Alive
    <2>2. ver' \in [Runs -> 0 .. MaxRelease]
      BY <1>2, <1>c DEF Fetch, TypeOK
    <2> QED BY <1>2, <2>1, <2>2 DEF Fetch, TypeOK, ControlOK
  <1>3. ASSUME NEW u \in Runs, Call(u) PROVE TypeOK'
    BY <1>3, CallTypes, CallRest DEF TypeOK, ControlOK, FilesOK, BatchOK
  <1>4. ASSUME NEW u \in Runs, Crash(u) PROVE TypeOK'
    <2>1. ControlOK'
      BY <1>4, <1>b, <1>d DEF Crash, Ends, ControlOK, Alive
    <2>2. crashes' \in Nat
      BY <1>4, <1>b DEF Crash
    <2> QED BY <1>4, <2>1, <2>2 DEF Crash, TypeOK, ControlOK
  <1>5. ASSUME NEW m \in Movers, ScriptLine(m) PROVE TypeOK'
    <2>1. BatchOK'
      <3>1. {"loop", "check", "delete"} \subseteq Lines
        BY DEF Lines
      <3> QED BY <1>5, <1>b, <3>1 DEF ScriptLine, Move, Check, Delete, Stop, BatchOK
    <2>2. FilesOK'
      BY <1>5, <1>b, Files
         DEF ScriptLine, Move, Check, Delete, Stop, At, Script, FilesOK
    <2>3. Script
      BY <1>5 DEF ScriptLine, Move, Check, Delete, Stop
    <2> QED BY <2>1, <2>2, <2>3 DEF Script, TypeOK, FilesOK, BatchOK, Alive
  <1>6. ASSUME Publish PROVE TypeOK'
    <2>1. release' \in Nat
      BY <1>6, <1>b, UpdateAssumption DEF Publish
    <2> QED BY <1>6, <2>1 DEF Publish, TypeOK, Alive
  <1>7. ASSUME UNCHANGED vars PROVE TypeOK'
    BY <1>7 DEF vars, TypeOK, Alive
  <1> QED BY <1>1, <1>2, <1>3, <1>4, <1>5, <1>6, <1>7 DEF Next, Over

(***************************************************************************)
(* Runs and what they share.                                               *)
(***************************************************************************)

LEMMA ScenarioStays ==
  ASSUME TypeOK, RunsInv, [Next]_vars
  PROVE  /\ UNCHANGED scenario /\ (Unix' <=> Unix)
         /\ scenario.installed \subseteq Binaries
  <1>1. UNCHANGED scenario
    BY Steps DEF Touches, Begins, Fetches, Dies, Swaps, Elsewhere
  <1> QED BY <1>1, UpdateAssumption DEF Unix, TypeOK

LEMMA RunsStep ==
  ASSUME TypeOK, RunsInv, [Next]_vars
  PROVE  RunsInv'
  <1>0. (Unix' <=> Unix) /\ release \in 2 .. MaxRelease /\ MaxRelease \in Nat
    BY ScenarioStays, UpdateAssumption DEF RunsInv
  <1> DEFINE Fine(u) == /\ pc[u] \in {"idle", "fetch"} => ver[u] = 0
                        /\ pc[u] = "fetch" => tag[u] \in 2 .. release /\ todo[u] # <<Srv>>
                        /\ Calling(u) => ver[u] # 0 /\ ver[u] \in Announced(u)
  <1>a. \A u \in Runs : Fine(u)
    BY DEF RunsInv
  (* A run that does nothing itself. *)
  <1>b. ASSUME NEW o \in Runs, pc'[o] = pc[o], todo'[o] = todo[o], ver'[o] = ver[o],
               tag'[o] = tag[o], release' \in release .. MaxRelease
        PROVE  Fine(o)'
    <2>1. tag[o] \in 2 .. release => tag[o] \in 2 .. release'
      BY <1>0, <1>b
    <2> QED BY <1>a, <1>b, <2>1 DEF Calling, Announced
  <1>c. release \in release .. MaxRelease
    BY <1>0
  <1>1. ASSUME NEW u \in Runs, NEW b \in Binaries, Touches(u, b), Renaming(u, b) \/ Setting(u, b)
        PROVE  RunsInv'
    <2>1. /\ Calling(u) /\ UNCHANGED <<release, tag, ver>> /\ (Unix => UNCHANGED mover)
          /\ \A o \in Runs \ {u} : pc'[o] = pc[o] /\ todo'[o] = todo[o]
      BY <1>1 DEF Touches
    <2>2. /\ pc'[u] \notin {"idle", "fetch"}
          /\ pc'[u] # "done" => todo'[u] = todo[u] \/ (todo[u] = Archive /\ todo'[u] = <<Srv>>)
      BY <1>1 DEF Renaming, Setting, Moves, Stops, GoesOn
    <2>3. Calling(u)' => ver[u] \in Announced(u)'
      <3>1. pc'[u] = "done" => ~Calling(u)'
        BY CallNames DEF Calling
      <3> QED BY <1>a, <2>1, <2>2, <3>1, Lists DEF Announced
    <2>4. Fine(u)'
      BY <1>a, <2>1, <2>2, <2>3
    <2>5. \A o \in Runs \ {u} : Fine(o)'
      BY <1>b, <1>c, <2>1
    <2> QED BY <1>0, <2>1, <2>4, <2>5 DEF RunsInv
  <1>2. ASSUME NEW u \in Runs, Begins(u) PROVE RunsInv'
    <2>1. Fine(u)'
      <3>1. ~Calling(u)' /\ ver[u] = 0 /\ tag'[u] \in 2 .. release
        BY <1>0, <1>2, <1>a, CallNames DEF Begins, Calling
      <3> QED BY <1>2, <3>1 DEF Begins
    <2>2. \A o \in Runs \ {u} : Fine(o)'
      BY <1>2, <1>b, <1>c DEF Begins
    <2> QED BY <1>0, <1>2, <2>1, <2>2 DEF Begins, RunsInv
  <1>3. ASSUME NEW u \in Runs, Fetches(u) PROVE RunsInv'
    <2>1. Fine(u)'
      <3>1. CASE pc'[u] = "done"
        BY <3>1, CallNames DEF Calling
      <3>2. CASE pc'[u] = "clear" /\ todo'[u] = todo[u] /\ ver'[u] # 0 /\ ver'[u] \in Announced(u)
        <4>1. Announced(u)' = Announced(u)
          BY <1>3, <3>2 DEF Fetches, Announced
        <4> QED BY <3>2, <4>1
      <3> QED BY <1>3, <3>1, <3>2 DEF Fetches
    <2>2. \A o \in Runs \ {u} : Fine(o)'
      BY <1>3, <1>b, <1>c DEF Fetches
    <2> QED BY <1>0, <1>3, <2>1, <2>2 DEF Fetches, RunsInv
  <1>4. ASSUME NEW u \in Runs, Dies(u) PROVE RunsInv'
    <2>1. Fine(u)'
      BY <1>4, CallNames DEF Dies, Calling
    <2>2. \A o \in Runs \ {u} : Fine(o)'
      BY <1>4, <1>b, <1>c DEF Dies
    <2> QED BY <1>0, <1>4, <2>1, <2>2 DEF Dies, RunsInv
  <1>5. ASSUME NEW b \in Binaries, Swaps(b) PROVE RunsInv'
    <2>1. \A o \in Runs : Fine(o)'
      BY <1>5, <1>b, <1>c DEF Swaps
    <2> QED BY <1>0, <1>5, <2>1 DEF Swaps, RunsInv
  <1>6. ASSUME Elsewhere PROVE RunsInv'
    <2>1. \A o \in Runs : Fine(o)'
      BY <1>6, <1>b DEF Elsewhere
    <2>2. release' \in 2 .. MaxRelease
      BY <1>0, <1>6 DEF Elsewhere
    <2> QED BY <1>0, <1>6, <2>1, <2>2 DEF Elsewhere, RunsInv
  <1> QED BY Steps, <1>1, <1>2, <1>3, <1>4, <1>5, <1>6

LEMMA ReplacingIsAlive ==
  ASSUME NEW u \in Runs, NEW b, Replacing(u, b)
  PROVE  Calling(u) /\ Alive(u) /\ Current(u) = b
  BY DEF Replacing, Calling, Alive, Calls

(* A run's own control does not change by another's step. *)
LEMMA Unmoved ==
  ASSUME NEW o \in Runs, pc'[o] = pc[o], todo'[o] = todo[o]
  PROVE  /\ \A c : Replacing(o, c)' <=> Replacing(o, c)
         /\ Current(o)' = Current(o)
         /\ Alive(o)' <=> Alive(o)
         /\ Calling(o)' <=> Calling(o)
  BY DEF Replacing, Current, Alive, Calling

LEMMA OthersUnmoved ==
  ASSUME NEW u \in Runs, NEW o \in Runs, o # u, NEW b \in Binaries, Touches(u, b)
  PROVE  /\ \A c : Replacing(o, c)' <=> Replacing(o, c)
         /\ Current(o)' = Current(o)
         /\ Alive(o)' <=> Alive(o)
         /\ Calling(o)' <=> Calling(o)
  BY Unmoved DEF Touches

(* The call of the run itself. *)
LEMMA ReplacingOwn ==
  ASSUME NEW u \in Runs, NEW b \in Binaries, Touches(u, b), Renaming(u, b) \/ Setting(u, b),
         NEW c, Replacing(u, c)'
  PROVE  /\ c = b /\ pc'[u] \in {"create", "copy", "discard", "install", "restore"}
         /\ (pc[u] = "away" /\ dst[b] # NoFile) \/ Replacing(u, b)
  <1>1. pc'[u] \in {"create", "copy", "discard", "install", "restore"} /\ Head(todo'[u]) = c
    BY DEF Replacing, Current
  <1>2. todo'[u] = todo[u]
    BY <1>1 DEF Renaming, Setting, Moves, Stops, GoesOn
  <1>3. c = b
    BY <1>1, <1>2 DEF Touches, Current
  <1>4. \/ pc[u] = "away" /\ dst[b] # NoFile
        \/ pc[u] \in {"create", "copy", "discard", "install", "restore"}
    BY <1>1 DEF Renaming, Setting, Moves, Stops, GoesOn
  <1> QED BY <1>1, <1>3, <1>4 DEF Touches, Replacing

LEMMA AloneStep ==
  ASSUME TypeOK, RunsInv, AloneInv, BackupInv, [Next]_vars
  PROVE  AloneInv'
  <1>0. UNCHANGED scenario /\ scenario.installed \subseteq Binaries
    BY ScenarioStays
  <1> SUFFICES ASSUME ~scenario.together
               PROVE  /\ \A u, o \in Runs : Alive(u)' /\ Alive(o)' => u = o
                      /\ ~rerun' => \A u \in Runs : \A c \in scenario.installed :
                            Alive(u)' /\ dst'[c] = NoFile => Replacing(u, c)'
    BY <1>0 DEF AloneInv
  <1>a. /\ \A u, o \in Runs : Alive(u) /\ Alive(o) => u = o
        /\ ~rerun => \A u \in Runs : \A c \in scenario.installed :
                        Alive(u) /\ dst[c] = NoFile => Replacing(u, c)
    BY DEF AloneInv
  <1> DEFINE Goal == /\ \A u, o \in Runs : Alive(u)' /\ Alive(o)' => u = o
                     /\ ~rerun' => \A u \in Runs : \A c \in scenario.installed :
                            Alive(u)' /\ dst'[c] = NoFile => Replacing(u, c)'
  <1>1. ASSUME NEW u \in Runs, NEW b \in Binaries, Touches(u, b), Renaming(u, b) \/ Setting(u, b)
        PROVE  Goal
    <2>1. Alive(u) /\ b = Current(u) /\ UNCHANGED rerun
            /\ \A c \in Binaries \ {b} : dst'[c] = dst[c]
      BY <1>1, CallNames DEF Touches
    <2>2. \A o \in Runs : Alive(o)' => o = u
      BY <1>1, <1>a, <2>1, OthersUnmoved
    <2>3. ASSUME ~rerun, NEW c \in scenario.installed, Alive(u)', dst'[c] = NoFile
          PROVE  Replacing(u, c)'
      <3>1. CASE dst[c] = NoFile
        <4>1. Replacing(u, c) /\ c = b
          BY <1>a, <2>1, <2>3, <3>1, ReplacingIsAlive
        <4>2. pc[u] \in {"create", "copy", "discard", "install", "restore"}
          BY <4>1 DEF Replacing
        <4>3. pc'[u] # "done"
          BY <2>3 DEF Alive, Calls
        <4>4. pc'[u] \in {"create", "copy", "discard", "install", "restore"}
                /\ todo'[u] = todo[u]
          BY <1>1, <2>3, <4>1, <4>2, <4>3 DEF Renaming, Setting, Same, Moves, Stops, GoesOn
        <4> QED BY <2>1, <4>1, <4>4 DEF Replacing, Current
      <3>2. CASE dst[c] # NoFile
        <4>1. c = b
          BY <1>0, <2>1, <2>3, <3>2
        <4>2. pc'[u] \in {"create"} /\ todo'[u] = todo[u]
          <5>1. pc[u] = "install" => tmp[b] # NoFile
            BY <2>1 DEF BackupInv
          <5>2. pc[u] = "restore" => pc'[u] = "done"
            BY <1>1 DEF Renaming, Setting, Moves, Stops, GoesOn
          <5>3. pc'[u] # "done"
            BY <2>3 DEF Alive, Calls
          <5> QED
            BY <1>1, <2>3, <3>2, <4>1, <5>1, <5>2, <5>3
               DEF Renaming, Setting, Same, Moves, Stops, GoesOn
        <4> QED BY <2>1, <4>1, <4>2 DEF Replacing, Current
      <3> QED BY <3>1, <3>2
    <2> QED BY <2>1, <2>2, <2>3
  <1>2. ASSUME NEW u \in Runs, Begins(u) PROVE Goal
    <2>1. \A o \in Runs : Alive(o)' => o = u
      <3>1. \A o \in Runs : ~Alive(o)
        BY <1>2 DEF Begins
      <3> QED BY <1>2, <3>1 DEF Begins, Alive
    <2>2. ~rerun' => \A c \in scenario.installed : dst'[c] # NoFile
      <3>1. rerun' = (rerun \/ \E c \in scenario.installed : dst[c] = NoFile) /\ UNCHANGED dst
        BY <1>2 DEF Begins
      <3> QED BY <3>1, Zenon
    <2> QED BY <2>1, <2>2
  <1>3. ASSUME NEW u \in Runs, Fetches(u) PROVE Goal
    <2>1. Alive(u) /\ UNCHANGED <<rerun, dst>>
            /\ \A o \in Runs \ {u} : pc'[o] = pc[o] /\ todo'[o] = todo[o]
      BY <1>3 DEF Fetches, Alive
    <2>2. \A o \in Runs : Alive(o)' => o = u
      BY <1>a, <2>1, Unmoved
    <2>3. \A c : ~Replacing(u, c)
      BY <1>3 DEF Fetches, Replacing
    <2> QED BY <1>a, <2>1, <2>2, <2>3
  <1>4. ASSUME NEW u \in Runs, Dies(u) PROVE Goal
    <2>1. \A o \in Runs : ~Alive(o)'
      <3>1. Alive(u) /\ ~Alive(u)'
        BY <1>4, CallNames DEF Dies, Alive
      <3>2. \A o \in Runs \ {u} : Alive(o)' <=> Alive(o)
        BY <1>4, Unmoved DEF Dies
      <3> QED BY <1>a, <3>1, <3>2
    <2> QED BY <2>1
  <1>5. ASSUME UNCHANGED <<pc, todo, rerun>>,
               \A c \in Binaries : dst'[c] = NoFile => dst[c] = NoFile
        PROVE  Goal
    <2>1. \A o \in Runs : (Alive(o)' <=> Alive(o)) /\ \A c : Replacing(o, c)' <=> Replacing(o, c)
      BY <1>5, Unmoved
    <2> QED BY <1>0, <1>5, <1>a, <2>1
  <1>6. ASSUME NEW b \in Binaries, Swaps(b)
        PROVE  UNCHANGED <<pc, todo, rerun>>
                 /\ \A c \in Binaries : dst'[c] = NoFile => dst[c] = NoFile
    BY <1>6 DEF Swaps
  <1> HIDE DEF Goal
  <1>7. Goal
    BY Steps, <1>1, <1>2, <1>3, <1>4, <1>5, <1>6 DEF Elsewhere
  <1> QED BY <1>7 DEF Goal

(* The runs that have a version, besides u: there are only ever more of them. *)
LEMMA OtherGrows ==
  ASSUME TypeOK, RunsInv, [Next]_vars, NEW u \in Runs
  PROVE  /\ Other(u) \subseteq Other(u)'
         /\ UNCHANGED ver => Other(u)' = Other(u)
  <1>1. \A o \in Runs : ver[o] # 0 => ver'[o] # 0
    <2>1. \A o \in Runs : pc[o] = "fetch" => ver[o] = 0
      BY DEF RunsInv
    <2> QED BY Steps, <2>1 DEF Touches, Begins, Fetches, Dies, Swaps, Elsewhere
  <1> QED BY <1>1 DEF Other

LEMMA MixedStep ==
  ASSUME TypeOK, RunsInv, AloneInv, OneWriter, MixedInv, [Next]_vars
  PROVE  MixedInv'
  <1>0. UNCHANGED scenario /\ (Unix' <=> Unix)
    BY ScenarioStays
  <1>a. ASSUME NEW u \in mixed PROVE u \in Runs /\ scenario.together /\ Other(u)' # {}
    BY <1>a, OtherGrows DEF MixedInv, TypeOK
  <1>1. ASSUME NEW u \in Runs, NEW b \in Binaries, Touches(u, b), Renaming(u, b) \/ Setting(u, b)
        PROVE  MixedInv'
    <2>0. /\ Calling(u) /\ b = Current(u) /\ UNCHANGED ver
          /\ \A o \in Runs \ {u} : pc'[o] = pc[o]
      BY <1>1 DEF Touches
    <2>1. ASSUME UNCHANGED mixed, pc'[u] # "copy" PROVE MixedInv'
      BY <1>0, <1>a, <2>0, <2>1 DEF MixedInv
    <2>2. ASSUME NEW at \in {"copy", "copyNew"}, Shares(u, at), pc'[u] = at,
                 at = "copy" => pc[u] = "create"
          PROVE  MixedInv'
      <3> DEFINE writers == {o \in Runs \ {u} : pc[o] = at /\ Current(o) = b}
      <3>1. mixed' = IF writers = {} THEN mixed \ {u} ELSE mixed \cup writers \cup {u}
        BY <2>0, <2>2 DEF Shares
      <3>2. \A o \in writers : Calling(o) /\ ver[o] # 0 /\ ver[u] # 0 /\ scenario.together
        <4>1. \A o \in writers : Calling(o) /\ Alive(o) /\ Alive(u)
          BY <2>0, <2>2, CallNames DEF Calling, Calls
        <4> QED BY <2>0, <4>1 DEF AloneInv, RunsInv
      <3>3. \A o \in mixed' : scenario.together /\ Other(o)' # {}
        <4>1. \A o \in writers : u \in Other(o)' /\ o \in Other(u)' /\ scenario.together
          BY <2>0, <3>2 DEF Other
        <4> QED BY <1>a, <3>1, <4>1
      <3>4. ASSUME Unix, NEW o \in Runs, pc'[o] = "copy" PROVE o \notin mixed'
        <4>1. CASE o # u
          <5>1. o \notin mixed /\ pc[o] = "copy"
            BY <2>0, <3>4, <4>1 DEF MixedInv
          <5>2. o \notin writers
            <6>1. SUFFICES ASSUME o \in writers PROVE FALSE
              OBVIOUS
            <6>2. at = "copy" /\ Current(o) = b
              BY <5>1, <6>1
            <6>3. Replacing(o, b) /\ Replacing(u, b)
              BY <2>0, <2>2, <5>1, <6>2 DEF Replacing
            <6> QED BY <3>4, <4>1, <6>3 DEF OneWriter, Unix
          <5> QED BY <3>1, <4>1, <5>1, <5>2
        <4>2. CASE o = u
          <5>1. at = "copy" /\ pc[u] = "create"
            BY <2>2, <3>4, <4>2
          <5>2. writers = {}
            <6>1. SUFFICES ASSUME NEW q \in writers PROVE FALSE
              OBVIOUS
            <6>2. Replacing(q, b) /\ Replacing(u, b) /\ q # u
              BY <2>0, <5>1 DEF Replacing
            <6> QED BY <3>4, <6>2 DEF OneWriter, Unix
          <5> QED BY <3>1, <4>2, <5>2
        <4> QED BY <4>1, <4>2
      <3> QED BY <1>0, <3>3, <3>4 DEF MixedInv
    <2>3. Mixes(u)
      BY <1>1 DEF Touches
    <2> QED BY <2>1, <2>2, <2>3 DEF Mixes, Moves
  <1>2. ASSUME NEW u \in Runs, Begins(u) \/ Fetches(u) \/ Dies(u) PROVE MixedInv'
    <2>1. UNCHANGED mixed /\ pc'[u] # "copy" /\ \A o \in Runs \ {u} : pc'[o] = pc[o]
      BY <1>2 DEF Begins, Fetches, Dies
    <2> QED BY <1>0, <1>a, <2>1 DEF MixedInv
  <1>3. CASE UNCHANGED <<mixed, pc>>
    BY <1>0, <1>3, <1>a DEF MixedInv
  <1> QED BY Steps, <1>1, <1>2, <1>3 DEF Swaps, Elsewhere

(***************************************************************************)
(* The files.                                                              *)
(***************************************************************************)

LEMMA OneWriterStep ==
  ASSUME TypeOK, RunsInv, FilesInv, OneWriter, [Next]_vars
  PROVE  OneWriter'
  <1>0. Unix' <=> Unix
    BY ScenarioStays
  <1> SUFFICES ASSUME Unix
               PROVE  \A b \in Binaries : \A u, o \in Runs :
                         Replacing(u, b)' /\ Replacing(o, b)' => u = o
    BY <1>0 DEF OneWriter, Unix
  <1>a. \A b \in Binaries : \A u, o \in Runs : Replacing(u, b) /\ Replacing(o, b) => u = o
    BY DEF OneWriter, Unix
  <1>1. ASSUME NEW u \in Runs, NEW b \in Binaries, Touches(u, b), Renaming(u, b) \/ Setting(u, b)
        PROVE  \A c \in Binaries : \A q, o \in Runs :
                  Replacing(q, c)' /\ Replacing(o, c)' => q = o
    <2>1. ASSUME NEW c \in Binaries, NEW o \in Runs \ {u}, Replacing(u, c)', Replacing(o, c)'
          PROVE  FALSE
      <3>1. c = b /\ ((pc[u] = "away" /\ dst[b] # NoFile) \/ Replacing(u, b))
        BY <1>1, <2>1, ReplacingOwn
      <3>2. Replacing(o, b)
        BY <1>1, <2>1, <3>1, OthersUnmoved
      <3> QED BY <1>a, <3>1, <3>2 DEF FilesInv
    <2>2. \A c \in Binaries : \A o \in Runs \ {u} : Replacing(o, c)' => Replacing(o, c)
      BY <1>1, OthersUnmoved
    <2> QED BY <1>a, <2>1, <2>2
  <1>2. ASSUME NEW u \in Runs, Begins(u) \/ Fetches(u) \/ Dies(u)
        PROVE  \A c \in Binaries : \A q, o \in Runs :
                  Replacing(q, c)' /\ Replacing(o, c)' => q = o
    <2>1. \A c \in Binaries : ~Replacing(u, c)'
      BY <1>2 DEF Begins, Fetches, Dies, Replacing
    <2>2. \A c \in Binaries : \A o \in Runs \ {u} : Replacing(o, c)' => Replacing(o, c)
      BY <1>2, Unmoved DEF Begins, Fetches, Dies
    <2> QED BY <1>a, <2>1, <2>2
  <1>3. CASE UNCHANGED <<pc, todo>>
    BY <1>3, <1>a, Unmoved
  <1> QED BY Steps, <1>1, <1>2, <1>3 DEF Swaps, Elsewhere

LEMMA FilesStep ==
  ASSUME TypeOK, RunsInv, MixedInv, FilesInv, OneWriter, [Next]_vars
  PROVE  FilesInv'
  <1>0. Unix' <=> Unix
    BY ScenarioStays
  <1> SUFFICES ASSUME Unix
               PROVE  /\ \A b \in Binaries : ~Torn(dst'[b]) /\ ~Torn(old'[b])
                      /\ \A u \in Runs : \A b \in Binaries :
                           Replacing(u, b)' => dst'[b] = NoFile
                      /\ \A u \in Runs : pc'[u] = "install" => tmp'[Current(u)'].whole
    BY <1>0 DEF FilesInv, Torn
  <1> USE DEF FilesInv
  <1>a. \A b \in Binaries : \A u, o \in Runs : Replacing(u, b) /\ Replacing(o, b) => u = o
    BY DEF OneWriter, Unix
  <1>1. ASSUME NEW u \in Runs, NEW b \in Binaries, Touches(u, b), Renaming(u, b) \/ Setting(u, b)
        PROVE  /\ \A c \in Binaries : ~Torn(dst'[c]) /\ ~Torn(old'[c])
               /\ \A o \in Runs : \A c \in Binaries : Replacing(o, c)' => dst'[c] = NoFile
               /\ \A o \in Runs : pc'[o] = "install" => tmp'[Current(o)'].whole
    <2>1. b = Current(u) /\ \A c \in Binaries \ {b} :
            dst'[c] = dst[c] /\ old'[c] = old[c] /\ tmp'[c] = tmp[c] /\ new'[c] = new[c]
      BY <1>1 DEF Touches
    <2>2. pc[u] = "install" => tmp[b].whole
      BY <2>1
    <2>a. /\ dst[b] # NoFile => dst[b].whole
          /\ old[b] # NoFile => old[b].whole
      BY DEF Torn
    <2>b. /\ dst'[b] # NoFile => dst'[b].whole
          /\ old'[b] # NoFile => old'[b].whole
      BY <1>1, <2>2, <2>a DEF Renaming, Setting, Same, MayGo, Moves
    <2>3. ~Torn(dst'[b]) /\ ~Torn(old'[b])
      BY <2>b DEF Torn
    <2>4. ASSUME NEW c \in Binaries, Replacing(u, c)' PROVE dst'[c] = NoFile
      <3>1. c = b /\ pc'[u] \in {"create", "copy", "discard", "install", "restore"}
              /\ ((pc[u] = "away" /\ dst[b] # NoFile) \/ Replacing(u, b))
        BY <1>1, <2>4, ReplacingOwn
      <3>2. Replacing(u, b) => dst[b] = NoFile
        OBVIOUS
      <3> QED BY <1>1, <3>1, <3>2 DEF Renaming, Setting, Same, Moves, Stops, GoesOn, Replacing
    <2>5. ASSUME NEW o \in Runs \ {u}, NEW c \in Binaries, Replacing(o, c)'
          PROVE  dst'[c] = NoFile
      <3>1. Replacing(o, c)
        BY <1>1, <2>5, OthersUnmoved
      <3>2. CASE c = b
        <4>1. dst[b] = NoFile /\ ~Replacing(u, b)
          BY <1>a, <3>1, <3>2
        <4>2. pc[u] \notin {"create", "copy", "discard", "install", "restore"}
          BY <2>1, <4>1 DEF Replacing
        <4> QED BY <1>1, <3>2, <4>1, <4>2 DEF Renaming, Setting, Same, Moves, Stops, GoesOn
      <3> QED BY <2>1, <3>1, <3>2
    <2>6. ASSUME pc'[u] = "install" PROVE tmp'[Current(u)'].whole
      <3>1. todo'[u] = todo[u] /\ pc[u] = "copy" /\ tmp'[b] \in Written(u)
        BY <1>1, <2>6 DEF Renaming, Setting, Moves, Stops, GoesOn
      <3>2. tmp'[b].whole
        BY <3>1, Files DEF MixedInv, Written
      <3> QED BY <2>1, <3>1, <3>2 DEF Current
    <2>7. ASSUME NEW o \in Runs \ {u}, pc'[o] = "install" PROVE tmp'[Current(o)'].whole
      <3>1. pc[o] = "install" /\ Current(o)' = Current(o) /\ Current(o) \in Binaries
        <4>1. pc[o] = "install" /\ Current(o)' = Current(o)
          BY <1>1, <2>7, OthersUnmoved DEF Touches
        <4>2. todo[o] # <<>>
          BY <4>1 DEF TypeOK, Alive, Calls
        <4> QED BY <4>1, <4>2, EntryOf
      <3>2. tmp[Current(o)].whole
        BY <3>1
      <3>3. CASE Current(o) = b
        <4>1. Replacing(o, b)
          BY <3>1, <3>3 DEF Replacing
        <4>2. ~Replacing(u, b)
          BY <1>a, <4>1
        <4>3. pc[u] \notin {"create", "copy", "discard", "install", "restore"}
          BY <2>1, <4>2 DEF Replacing
        <4>4. tmp'[b] = tmp[b]
          BY <1>1, <4>3 DEF Renaming, Setting, Same, Moves, Stops, GoesOn
        <4> QED BY <3>1, <3>2, <3>3, <4>4
      <3> QED BY <2>1, <3>1, <3>2, <3>3
    <2> QED BY <2>1, <2>3, <2>4, <2>5, <2>6, <2>7
  <1>2. ASSUME NEW u \in Runs, Begins(u) \/ Fetches(u) \/ Dies(u)
        PROVE  /\ \A o \in Runs : \A c \in Binaries : Replacing(o, c)' => dst'[c] = NoFile
               /\ \A o \in Runs : pc'[o] = "install" => tmp'[Current(o)'].whole
               /\ \A c \in Binaries : ~Torn(dst'[c]) /\ ~Torn(old'[c])
    <2>1. UNCHANGED <<dst, old, tmp>> /\ pc'[u] \in {"fetch", "clear", "done"}
            /\ \A o \in Runs \ {u} : pc'[o] = pc[o] /\ todo'[o] = todo[o]
      BY <1>2 DEF Begins, Fetches, Dies
    <2>2. \A c \in Binaries : ~Replacing(u, c)'
      BY <2>1 DEF Replacing
    <2>3. \A c \in Binaries : \A o \in Runs \ {u} : Replacing(o, c)' => Replacing(o, c)
      BY <2>1, Unmoved
    <2>4. \A o \in Runs :
             pc'[o] = "install" => o # u /\ pc[o] = "install" /\ Current(o)' = Current(o)
      BY <2>1 DEF Current
    <2> QED BY <2>1, <2>2, <2>3, <2>4
  <1>3. CASE UNCHANGED <<dst, old, tmp, pc, todo>>
    BY <1>3 DEF Replacing, Current
  <1>4. ASSUME NEW b \in Binaries, Swaps(b) PROVE FALSE
    BY <1>4 DEF Swaps
  <1> QED BY Steps, <1>1, <1>2, <1>3, <1>4 DEF Elsewhere

LEMMA BackupStep ==
  ASSUME TypeOK, RunsInv, AloneInv, BackupInv, [Next]_vars
  PROVE  BackupInv'
  <1>0. UNCHANGED scenario
    BY ScenarioStays
  <1> DEFINE Backed(o) == /\ \A c \in Binaries : Replacing(o, c) => old[c] # NoFile
                          /\ pc[o] = "install" => tmp[Current(o)] # NoFile
                          /\ pc[o] \in {"discard", "restore"} => faults # 0
  <1> SUFFICES ASSUME ~scenario.together, NEW o \in Runs PROVE Backed(o)'
    BY <1>0 DEF BackupInv
  <1>a. Backed(o)
    BY DEF BackupInv
  <1>b. ~Alive(o)' => Backed(o)'
    BY DEF Replacing, Alive, Calls
  <1>1. ASSUME NEW u \in Runs, NEW b \in Binaries, Touches(u, b), Renaming(u, b) \/ Setting(u, b)
        PROVE  Backed(o)'
    <2>1. CASE o # u
      <3>1. ~Alive(o)'
        BY <1>1, <2>1, OthersUnmoved, CallNames DEF Touches, AloneInv
      <3> QED BY <1>b, <3>1
    <2>2. CASE o = u
      <3>0. Calling(u) /\ Alive(u) /\ b = Current(u) /\ (faults' = 0 => faults = 0)
        BY <1>1, CallNames DEF Touches
      <3>1. ASSUME NEW c \in Binaries, Replacing(u, c)' PROVE old'[c] # NoFile
        <4>1. /\ c = b /\ pc'[u] \in {"create", "copy", "discard", "install", "restore"}
              /\ ((pc[u] = "away" /\ dst[b] # NoFile) \/ Replacing(u, b))
          BY <1>1, <3>1, ReplacingOwn
        <4>2. Replacing(u, b) => old[b] # NoFile
          BY <1>a, <2>2
        <4> QED
          BY <1>1, <4>1, <4>2
             DEF Renaming, Setting, Same, MayGo, Moves, Stops, GoesOn, Replacing
      <3>2. ASSUME pc'[u] = "install" PROVE tmp'[Current(u)'] # NoFile
        <4>1. tmp'[b] \in Written(u) /\ todo'[u] = todo[u]
          BY <1>1, <3>2 DEF Renaming, Setting, Moves, Stops, GoesOn
        <4>2. tmp'[b] # NoFile
          BY <3>0, <4>1, WholeIsAFile, PartIsAFile DEF Written
        <4> QED BY <3>0, <4>1, <4>2 DEF Current
      <3>3. ASSUME pc'[u] \in {"discard", "restore"} PROVE faults' # 0
        <4>1. ~Open("copy", b) \/ pc[u] # "install"
          BY <3>0, CallNames DEF Open, AloneInv, Alive, Calls
        <4>2. pc[u] = "install" => tmp[b] # NoFile
          BY <1>a, <2>2, <3>0
        <4>3. pc[u] = "discard" => faults # 0
          BY <1>a, <2>2
        <4> QED
          BY <1>1, <3>0, <3>3, <4>1, <4>2, <4>3 DEF Renaming, Setting, Moves, Stops, GoesOn
      <3> QED BY <2>2, <3>1, <3>2, <3>3
    <2> QED BY <2>1, <2>2
  <1>2. ASSUME NEW u \in Runs, Begins(u) \/ Fetches(u) \/ Dies(u) PROVE Backed(o)'
    <2>1. UNCHANGED <<old, tmp, faults>> /\ pc'[u] \in {"fetch", "clear", "done"}
            /\ \A q \in Runs \ {u} : pc'[q] = pc[q] /\ todo'[q] = todo[q]
      BY <1>2 DEF Begins, Fetches, Dies
    <2>2. CASE o = u
      BY <2>1, <2>2 DEF Replacing
    <2>3. CASE o # u
      BY <1>a, <2>1, <2>3, Unmoved
    <2> QED BY <2>2, <2>3
  <1>3. CASE UNCHANGED <<old, tmp, pc, todo, faults>>
    BY <1>3, <1>a, Unmoved
  <1> HIDE DEF Backed
  <1> QED BY Steps, <1>1, <1>2, <1>3 DEF Swaps, Elsewhere

LEMMA BringingStep ==
  ASSUME TypeOK, RunsInv, BringingInv, [Next]_vars
  PROVE  BringingInv'
  <1>0. UNCHANGED scenario /\ scenario.installed \subseteq Binaries
    BY ScenarioStays
  <1> SUFFICES ASSUME crashes' = 0, faults' = 0
               PROVE  /\ \A o \in Runs : pc'[o] # "discard"
                      /\ \A c \in scenario.installed :
                            dst'[c] = NoFile => \E o \in Runs : Bringing(o, c)'
    BY <1>0 DEF BringingInv
  <1>a. crashes = 0 /\ faults = 0
          => /\ \A o \in Runs : pc[o] # "discard"
             /\ \A c \in scenario.installed : dst[c] = NoFile => \E o \in Runs : Bringing(o, c)
    BY DEF BringingInv
  (* Another's step. *)
  <1>b. ASSUME NEW o \in Runs, NEW c, pc'[o] = pc[o], todo'[o] = todo[o],
               tmp'[c] = NoFile => tmp[c] = NoFile, Bringing(o, c)
        PROVE  Bringing(o, c)'
    BY <1>b DEF Bringing, Current
  <1>1. ASSUME NEW u \in Runs, NEW b \in Binaries, Touches(u, b), Renaming(u, b) \/ Setting(u, b)
        PROVE  /\ \A o \in Runs : pc'[o] # "discard"
               /\ \A c \in scenario.installed :
                     dst'[c] = NoFile => \E o \in Runs : Bringing(o, c)'
    <2>0. /\ crashes = 0 /\ faults = 0 /\ Calling(u) /\ b = Current(u)
          /\ \A o \in Runs \ {u} : pc'[o] = pc[o] /\ todo'[o] = todo[o]
          /\ \A c \in Binaries \ {b} : dst'[c] = dst[c] /\ tmp'[c] = tmp[c]
      BY <1>1 DEF Touches
    <2>1. pc[u] # "discard"
      BY <1>a, <2>0
    <2>2. pc'[u] # "discard"
      BY <1>1 DEF Renaming, Setting, Moves, Stops, GoesOn
    <2>3. ASSUME pc'[u] \in {"create", "copy"} \/ (pc'[u] = "install" /\ tmp'[b] # NoFile)
          PROVE  Bringing(u, b)'
      <3>1. todo'[u] = todo[u]
        BY <1>1, <2>3 DEF Renaming, Setting, Moves, Stops, GoesOn
      <3> QED BY <2>0, <2>3, <3>1 DEF Bringing, Current
    <2>4. \A file \in Written(u) : file # NoFile
      BY <2>0, WholeIsAFile, PartIsAFile DEF Written
    <2>5. ASSUME NEW c \in scenario.installed, dst'[c] = NoFile
          PROVE  \E o \in Runs : Bringing(o, c)'
      <3>1. CASE dst[c] # NoFile
        <4>1. c = b
          BY <1>0, <2>0, <2>5, <3>1
        <4>2. pc'[u] = "create"
          BY <1>1, <2>5, <3>1, <4>1 DEF Renaming, Setting, Same, Moves, Stops, GoesOn
        <4> QED BY <2>3, <4>1, <4>2
      <3>2. CASE dst[c] = NoFile
        <4>1. PICK o \in Runs : Bringing(o, c)
          BY <1>a, <2>0, <3>2
        <4>2. CASE o # u
          <5>1. tmp'[c] = NoFile => tmp[c] = NoFile
            <6>1. CASE c = b
              <7>1. tmp'[b] = tmp[b] \/ tmp'[b] = Part(ver[u]) \/ tmp'[b] \in Written(u)
                BY <1>1, <2>1, <2>5, <6>1 DEF Renaming, Setting, Same, Moves
              <7> QED BY <2>0, <2>4, <6>1, <7>1, PartIsAFile
            <6>2. CASE c # b
              BY <1>0, <2>0, <6>2
            <6> QED BY <6>1, <6>2
          <5> QED BY <1>b, <2>0, <4>1, <4>2, <5>1
        <4>3. CASE o = u
          <5>1. c = b
            BY <2>0, <4>1, <4>3 DEF Bringing
          <5>2. pc[u] \in {"create", "copy"} \/ (pc[u] = "install" /\ tmp[b] # NoFile)
            BY <4>1, <4>3, <5>1 DEF Bringing
          <5>3. CASE pc[u] = "install" /\ Open("copy", b)
            <6>1. PICK q \in Runs : pc[q] = "copy" /\ Current(q) = b
              BY <5>3 DEF Open
            <6>2. q # u /\ Bringing(q, b)'
              BY <2>0, <5>3, <6>1 DEF Bringing, Current
            <6> QED BY <5>1, <6>2
          <5>4. CASE ~(pc[u] = "install" /\ Open("copy", b))
            <6>1. pc'[u] = "copy" \/ (pc'[u] = "install" /\ tmp'[b] \in Written(u))
              BY <1>1, <2>5, <5>1, <5>2, <5>4 DEF Renaming, Setting, Same, Moves, Stops, GoesOn
            <6> QED BY <2>3, <2>4, <5>1, <6>1
          <5> QED BY <5>3, <5>4
        <4> QED BY <4>2, <4>3
      <3> QED BY <3>1, <3>2
    <2> QED BY <1>a, <2>0, <2>2, <2>5
  <1>2. ASSUME NEW u \in Runs, Begins(u) \/ Fetches(u)
        PROVE  /\ \A o \in Runs : pc'[o] # "discard"
               /\ \A c \in scenario.installed :
                     dst'[c] = NoFile => \E o \in Runs : Bringing(o, c)'
    <2>1. UNCHANGED <<dst, tmp, crashes, faults>> /\ pc'[u] # "discard"
            /\ \A o \in Runs \ {u} : pc'[o] = pc[o] /\ todo'[o] = todo[o]
      BY <1>2 DEF Begins, Fetches
    <2>2. \A c : ~Bringing(u, c)
      BY <1>2 DEF Begins, Fetches, Bringing
    <2>3. \A o \in Runs : \A c : Bringing(o, c) => Bringing(o, c)'
      BY <1>b, <2>1, <2>2
    <2> QED BY <1>a, <2>1, <2>3
  <1>3. ASSUME NEW u \in Runs, Dies(u) PROVE FALSE
    BY <1>3 DEF Dies
  <1>4. ASSUME UNCHANGED <<pc, todo, tmp, crashes, faults>>,
               \A c \in Binaries : dst'[c] = NoFile => dst[c] = NoFile
        PROVE  /\ \A o \in Runs : pc'[o] # "discard"
               /\ \A c \in scenario.installed :
                     dst'[c] = NoFile => \E o \in Runs : Bringing(o, c)'
    <2>1. \A o \in Runs : \A c : Bringing(o, c) => Bringing(o, c)'
      BY <1>b, <1>4
    <2> QED BY <1>0, <1>a, <1>4, <2>1
  <1>5. ASSUME NEW b \in Binaries, Swaps(b)
        PROVE  UNCHANGED <<pc, todo, tmp, crashes, faults>>
                 /\ \A c \in Binaries : dst'[c] = NoFile => dst[c] = NoFile
    BY <1>5 DEF Swaps
  <1> QED BY Steps, <1>1, <1>2, <1>3, <1>4, <1>5 DEF Elsewhere

LEMMA PutBackStep ==
  ASSUME TypeOK, RunsInv, BackupInv, BringingInv, PutBack, TypeOK', [Next]_vars
  PROVE  PutBack'
  <1>0. UNCHANGED scenario /\ scenario.installed \subseteq Binaries
    BY ScenarioStays
  <1> SUFFICES ASSUME crashes' = 0, ~(scenario.together /\ faults' > 0),
                      NEW c \in scenario.installed, dst'[c] = NoFile
               PROVE  (\E o \in Runs : Replacing(o, c)') \/ (c \in stranded' /\ faults' > 1)
    BY <1>0 DEF PutBack
  (* Nothing has failed. *)
  <1>1. CASE faults' = 0
    <2>1. PICK o \in Runs : Bringing(o, c)'
      BY <1>0, <1>1, BringingStep DEF BringingInv
    <2> QED BY <2>1 DEF Bringing, Replacing
  (* Runs do not overlap. *)
  <1>2. CASE faults' # 0
    <2>a. ~scenario.together
      <3>1. faults' \in Nat
        BY DEF TypeOK
      <3> QED BY <1>2, <3>1
    <2>b. ASSUME crashes = 0, dst[c] = NoFile
          PROVE  (\E o \in Runs : Replacing(o, c)) \/ (c \in stranded /\ faults > 1)
      BY <2>a, <2>b DEF PutBack
    <2>1. ASSUME NEW u \in Runs, NEW b \in Binaries, Touches(u, b),
                 Renaming(u, b) \/ Setting(u, b)
          PROVE  (\E o \in Runs : Replacing(o, c)') \/ (c \in stranded' /\ faults' > 1)
      <3>0. /\ crashes = 0 /\ b = Current(u) /\ (c # b => dst'[c] = dst[c])
            /\ stranded \subseteq stranded' /\ (faults > 1 => faults' > 1)
        BY <1>0, <2>1 DEF Touches
      <3>1. ASSUME c = b, pc'[u] \in {"create", "copy", "discard", "install", "restore"}
            PROVE  Replacing(u, c)'
        <4>1. todo'[u] = todo[u]
          BY <2>1, <3>1 DEF Renaming, Setting, Moves, Stops, GoesOn
        <4> QED BY <3>0, <3>1, <4>1 DEF Replacing, Current
      <3>2. CASE dst[c] # NoFile
        <4>1. c = b
          BY <3>0, <3>2
        <4>2. pc'[u] = "create" \/ (pc[u] = "install" /\ pc'[u] = "drop" /\ tmp[b] = NoFile)
                \/ (pc[u] = "restore" /\ Stops(u, "restore", "failed") /\ old[b] = NoFile)
          BY <2>1, <3>2, <4>1 DEF Renaming, Setting, Same, Moves, Stops, GoesOn
        <4>3. pc[u] = "install" => tmp[b] # NoFile
          BY <2>a, <3>0 DEF BackupInv
        <4>4. pc[u] = "restore" => old[b] # NoFile
          <5>1. pc[u] = "restore" => Replacing(u, b)
            BY <3>0 DEF Replacing
          <5> QED BY <2>a, <5>1 DEF BackupInv
        <4> QED BY <3>1, <4>1, <4>2, <4>3, <4>4
      <3>3. CASE dst[c] = NoFile /\ c \in stranded /\ faults > 1
        BY <3>0, <3>3
      <3>4. CASE dst[c] = NoFile /\ \E o \in Runs : Replacing(o, c)
        <4>1. PICK o \in Runs : Replacing(o, c)
          BY <3>4
        <4>2. CASE o # u
          BY <2>1, <4>1, <4>2, OthersUnmoved
        <4>3. CASE o = u
          <5>1. c = b /\ pc[u] \in {"create", "copy", "discard", "install", "restore"}
            BY <3>0, <4>1, <4>3 DEF Replacing
          <5>2. old[b] # NoFile /\ (pc[u] = "restore" => faults # 0)
            BY <2>a, <4>1, <4>3, <5>1 DEF BackupInv
          <5>3. \/ pc'[u] \in {"create", "copy", "discard", "install", "restore"}
                \/ b \in stranded' /\ faults' > 1
            BY <2>1, <5>1, <5>2 DEF Renaming, Setting, Same, Moves, Stops, GoesOn
          <5> QED BY <3>1, <5>1, <5>3
        <4> QED BY <4>2, <4>3
      <3> QED BY <2>b, <3>0, <3>2, <3>3, <3>4
    <2>2. ASSUME NEW u \in Runs, Begins(u) \/ Fetches(u)
          PROVE  (\E o \in Runs : Replacing(o, c)') \/ (c \in stranded' /\ faults' > 1)
      <3>1. UNCHANGED <<dst, crashes, faults, stranded>>
              /\ \A o \in Runs \ {u} : pc'[o] = pc[o] /\ todo'[o] = todo[o]
        BY <2>2 DEF Begins, Fetches
      <3>2. ~Replacing(u, c)
        BY <2>2 DEF Begins, Fetches, Replacing
      <3> QED BY <2>b, <3>1, <3>2, Unmoved
    <2>3. ASSUME NEW u \in Runs, Dies(u) PROVE FALSE
      BY <2>3 DEF Dies
    <2>4. ASSUME UNCHANGED <<pc, todo, crashes, faults, stranded>>, dst'[c] = dst[c]
          PROVE  (\E o \in Runs : Replacing(o, c)') \/ (c \in stranded' /\ faults' > 1)
      BY <2>b, <2>4, Unmoved
    <2>5. ASSUME NEW b \in Binaries, Swaps(b)
          PROVE  UNCHANGED <<pc, todo, crashes, faults, stranded>> /\ dst'[c] = dst[c]
      BY <1>0, <2>5 DEF Swaps
    <2> QED BY Steps, <2>1, <2>2, <2>3, <2>4, <2>5 DEF Elsewhere
  <1> QED BY <1>1, <1>2

LEMMA CopyStep ==
  ASSUME TypeOK, RunsInv, AloneInv, FilesInv, CopySurvives, [Next]_vars
  PROVE  CopySurvives'
  <1>0. UNCHANGED scenario /\ scenario.installed \subseteq Binaries
    BY ScenarioStays
  <1> SUFFICES ASSUME Unix, ~rerun', ~scenario.together, NEW c \in scenario.installed
               PROVE  dst'[c].whole \/ old'[c].whole
    BY <1>0 DEF CopySurvives, Unix
  <1>b. ~rerun => dst[c].whole \/ old[c].whole
    BY DEF CopySurvives, Unix
  <1>1. ASSUME NEW u \in Runs, NEW b \in Binaries, Touches(u, b), Renaming(u, b) \/ Setting(u, b)
        PROVE  dst'[c].whole \/ old'[c].whole
    <2>0. /\ ~rerun /\ Alive(u) /\ b = Current(u)
          /\ c # b => dst'[c] = dst[c] /\ old'[c] = old[c]
      BY <1>0, <1>1, CallNames DEF Touches
    <2>1. CASE c # b
      BY <1>b, <2>0, <2>1
    <2>2. CASE c = b
      <3>1. pc[u] \in {"clear", "drop"} => dst[b] # NoFile
        BY <2>0, <2>2 DEF AloneInv, Replacing
      <3>2. /\ dst[b] # NoFile => dst[b].whole
            /\ old[b] # NoFile => old[b].whole
            /\ pc[u] = "install" => tmp[b].whole
        BY <2>0 DEF FilesInv, Torn
      <3> QED
        BY <1>1, <1>b, <2>0, <2>2, <3>1, <3>2
           DEF Renaming, Setting, Same, MayGo, Moves, Stops, GoesOn
    <2> QED BY <2>1, <2>2
  <1>2. ASSUME NEW u \in Runs, Begins(u) PROVE dst'[c].whole \/ old'[c].whole
    <2>1. ~rerun
      <3>1. rerun' = (rerun \/ \E b \in scenario.installed : dst[b] = NoFile)
        BY <1>2 DEF Begins
      <3> QED BY <3>1, Zenon
    <2> QED BY <1>2, <1>b, <2>1 DEF Begins
  <1>3. ASSUME NEW b \in Binaries, Swaps(b) PROVE FALSE
    BY <1>3 DEF Swaps
  <1>4. CASE UNCHANGED <<dst, old, rerun>>
    BY <1>4, <1>b
  <1> QED BY Steps, <1>1, <1>2, <1>3, <1>4 DEF Fetches, Dies, Elsewhere

(***************************************************************************)
(* How far a run has come.                                                 *)
(***************************************************************************)

LEMMA NewStep ==
  ASSUME TypeOK, RunsInv, MixedInv, NewInv, [Next]_vars
  PROVE  NewInv'
  <1>0. (Unix' <=> Unix) /\ UNCHANGED scenario
    BY ScenarioStays
  <1> SUFFICES ASSUME ~Unix, NEW c \in Binaries, new'[c] # NoFile
               PROVE  \E o \in Runs :
                        /\ ver'[o] # 0 /\ new'[c].version = ver'[o]
                        /\ Alive(o)' => \/ new'[c].whole
                                        \/ pc'[o] = "copyNew" /\ Current(o)' = c
                                        \/ scenario.together /\ Other(o)' # {}
    BY <1>0 DEF NewInv
  <1> DEFINE Writer(o) == /\ ver[o] # 0 /\ new[c].version = ver[o]
                          /\ Alive(o) => \/ new[c].whole
                                         \/ pc[o] = "copyNew" /\ Current(o) = c
                                         \/ scenario.together /\ Other(o) # {}
             Good(o) == /\ ver'[o] # 0 /\ new'[c].version = ver'[o]
                        /\ Alive(o)' => \/ new'[c].whole
                                        \/ pc'[o] = "copyNew" /\ Current(o)' = c
                                        \/ scenario.together /\ Other(o)' # {}
  <1>a. new[c] # NoFile => \E o \in Runs : Writer(o)
    BY DEF NewInv
  <1>b. \A o \in Runs : Other(o) # {} => Other(o)' # {}
    BY OtherGrows
  (* A writer that does nothing itself. *)
  <1>c. ASSUME NEW o \in Runs, Writer(o), new'[c] = new[c], ver'[o] = ver[o],
               pc'[o] = pc[o], todo'[o] = todo[o]
        PROVE  Good(o)
    BY <1>b, <1>c, Unmoved
  <1>1. ASSUME NEW u \in Runs, NEW b \in Binaries, Touches(u, b), Renaming(u, b) \/ Setting(u, b)
        PROVE  \E o \in Runs : Good(o)
    <2>0. /\ Calling(u) /\ b = Current(u) /\ UNCHANGED ver /\ ver[u] # 0
          /\ c # b => new'[c] = new[c]
          /\ \A o \in Runs \ {u} : pc'[o] = pc[o] /\ todo'[o] = todo[o]
      BY <1>1 DEF Touches, RunsInv
    <2>1. ASSUME new'[c] = new[c], c = b /\ pc[u] = "copyNew" => ~Alive(u)'
          PROVE  \E o \in Runs : Good(o)
      <3>1. PICK o \in Runs : Writer(o)
        BY <1>a, <2>1
      <3>2. CASE o # u
        BY <1>c, <2>0, <2>1, <3>1, <3>2
      <3>3. CASE o = u
        <4>1. Alive(u)
          BY <2>0, CallNames
        <4>2. ~Alive(u)' \/ new[c].whole \/ (scenario.together /\ Other(u) # {})
          BY <2>0, <2>1, <3>1, <3>3, <4>1
        <4> QED BY <1>b, <2>0, <2>1, <3>1, <3>3, <4>2
      <3> QED BY <3>2, <3>3
    <2>2. CASE c = b /\ new'[c] \in Written(u)
      <3>1. new'[c].version = ver[u]
        BY <2>2, Files DEF Written
      <3>2. new'[c].whole \/ u \in mixed
        BY <2>2, Files DEF Written
      <3>3. u \in mixed => scenario.together /\ Other(u)' # {}
        BY <1>b DEF MixedInv
      <3> QED BY <2>0, <3>1, <3>2, <3>3
    <2>3. CASE c = b /\ new'[c] = Part(ver[u]) /\ Moves(u, "createNew", "copyNew")
      <3>1. Current(u)' = b /\ pc'[u] = "copyNew"
        BY <2>0, <2>3 DEF Moves, Current
      <3> QED BY <2>0, <2>3, <3>1, Files
    <2>4. CASE c = b
      <3>1. \/ new'[c] = new[c] /\ (pc[u] = "copyNew" => pc'[u] = "done")
            \/ new'[c] \in Written(u)
            \/ new'[c] = Part(ver[u]) /\ Moves(u, "createNew", "copyNew")
        BY <1>1, <2>4 DEF Renaming, Setting, Same, MayGo, Moves, Stops, GoesOn
      <3>2. pc'[u] = "done" => ~Alive(u)'
        BY CallNames DEF Alive
      <3> QED BY <2>1, <2>2, <2>3, <2>4, <3>1, <3>2
    <2> QED BY <2>0, <2>1, <2>4
  <1>2. ASSUME NEW u \in Runs, Begins(u) \/ Fetches(u) \/ Dies(u) PROVE \E o \in Runs : Good(o)
    <2>1. UNCHANGED new /\ (ver[u] # 0 => ver'[u] = ver[u] /\ pc'[u] = "done")
            /\ \A o \in Runs \ {u} : pc'[o] = pc[o] /\ todo'[o] = todo[o] /\ ver'[o] = ver[o]
      <3>1. pc[u] \in {"idle", "fetch"} => ver[u] = 0
        BY DEF RunsInv
      <3>2. CASE Begins(u) \/ Fetches(u)
        BY <3>1, <3>2 DEF Begins, Fetches
      <3>3. CASE Dies(u)
        BY <3>3 DEF Dies
      <3> QED BY <1>2, <3>2, <3>3
    <2>2. PICK o \in Runs : Writer(o)
      BY <1>a, <2>1
    <2>3. CASE o = u
      <3>1. ~Alive(o)'
        BY <2>1, <2>2, <2>3, CallNames DEF Alive
      <3> QED BY <2>1, <2>2, <2>3, <3>1
    <2>4. CASE o # u
      BY <1>c, <2>1, <2>2, <2>4
    <2> QED BY <2>3, <2>4
  <1>3. ASSUME UNCHANGED <<pc, todo, ver>>, new'[c] = new[c] PROVE \E o \in Runs : Good(o)
    BY <1>a, <1>c, <1>3
  <1>4. ASSUME NEW b \in Binaries, Swaps(b)
        PROVE  UNCHANGED <<pc, todo, ver>> /\ new'[c] = new[c]
    BY <1>4 DEF Swaps
  <1>5. \E o \in Runs : Good(o)
    <2> HIDE DEF Good, Writer
    <2> QED BY Steps, <1>1, <1>2, <1>3, <1>4 DEF Elsewhere
  <1> QED BY <1>5

LEMMA ProgressStep ==
  ASSUME TypeOK, RunsInv, AloneInv, MixedInv, ProgressInv, NewInv, [Next]_vars
  PROVE  ProgressInv'
  <1>0. UNCHANGED scenario /\ (Unix' <=> Unix)
    BY ScenarioStays
  <1> DEFINE Free(u) == Alive(u) /\ (scenario.together => Other(u) = {})
             Far(u) == /\ pc[u] = "install" => tmp[Current(u)] = Whole(ver[u])
                       /\ pc[u] = "drop" => Done(u, Current(u))
                       /\ pc[u] = "replaceSelf" /\ ~Unix => Done(u, Current(u))
                       /\ todo[u] = <<Srv>> => Done(u, Cli)
  <1> SUFFICES ASSUME NEW u \in Runs, Alive(u)', scenario.together => Other(u)' = {}
               PROVE  Far(u)'
    BY <1>0 DEF ProgressInv
  <1>a. Free(u) => Far(u)
    BY DEF ProgressInv
  <1>b. todo[u] # <<>> => Current(u) \in Binaries
    BY EntryOf
  <1>c. Cli \in Binaries /\ Srv \in Binaries /\ Cli # Srv
    BY UpdateAssumption DEF Binaries
  <1>n. scenario.together => Other(u) = {}
    BY OtherGrows
  (* A step that changes no file that counts. *)
  <1>d. ASSUME Free(u), ver'[u] = ver[u], pc'[u] = pc[u], todo'[u] = todo[u], UNCHANGED tmp,
               \A b \in Binaries : Done(u, b) => Done(u, b)'
        PROVE  Far(u)'
    <2>1. todo[u] # <<>>
      BY <1>d DEF TypeOK
    <2>2. Current(u)' = Current(u) /\ Current(u) \in Binaries
      BY <1>b, <1>d, <2>1 DEF Current
    <2>3. ASSUME NEW b, b = Current(u), Done(u, b) PROVE Done(u, Current(u))'
      <3>1. Done(u, b)'
        BY <1>d, <2>2, <2>3
      <3> QED BY <2>2, <2>3, <3>1 DEF Done
    <2>4. Done(u, Cli) => Done(u, Cli)'
      BY <1>c, <1>d
    <2> QED BY <1>0, <1>a, <1>d, <2>2, <2>3, <2>4
  <1>1. ASSUME NEW v \in Runs, NEW b \in Binaries, Touches(v, b), Renaming(v, b) \/ Setting(v, b)
        PROVE  Far(u)'
    <2>1. UNCHANGED ver /\ Calling(v) /\ Alive(v) /\ ver[v] # 0 /\ b = Current(v)
      BY <1>1, CallNames DEF Touches, RunsInv
    <2>2. Other(u)' = Other(u)
      BY <2>1, OtherGrows
    <2>3. v = u
      <3>1. CASE v # u
        <4>1. Alive(u)
          BY <1>1, <3>1, OthersUnmoved
        <4>2. scenario.together
          BY <2>1, <3>1, <4>1 DEF AloneInv
        <4>3. v \in Other(u)
          BY <2>1, <3>1 DEF Other
        <4> QED BY <2>2, <4>2, <4>3
      <3> QED BY <3>1
    <2>4. Far(u)
      BY <1>a, <1>n, <2>1, <2>3
    <2>m. Written(u) = {Whole(ver[u])}
      BY <1>n DEF MixedInv, Written
    <2>5. b = Current(u) /\ todo[u] # <<>>
            /\ \A c \in Binaries \ {b} : dst'[c] = dst[c] /\ new'[c] = new[c]
      BY <1>1, <2>1, <2>3 DEF Touches, TypeOK
    <2>6. ASSUME NEW c \in Binaries, dst'[c] = dst[c], new'[c] = new[c], Done(u, c)
          PROVE  Done(u, c)'
      BY <1>0, <2>1, <2>2, <2>6 DEF Done
    <2>7. todo'[u] = todo[u] => Current(u)' = b
      BY <2>5 DEF Current
    <2>8. pc'[u] = "install" => tmp'[b] = Whole(ver[u]) /\ todo'[u] = todo[u]
      BY <1>1, <2>3, <2>m DEF Renaming, Setting, Moves, Stops, GoesOn
    <2>9. ASSUME pc'[u] = "drop" PROVE Done(u, b)' /\ todo'[u] = todo[u]
      <3>1. pc[u] = "install" /\ dst'[b] = tmp[b] /\ todo'[u] = todo[u]
        BY <1>1, <2>3, <2>9 DEF Renaming, Setting, Moves, Stops, GoesOn
      <3>2. tmp[b] = Whole(ver[u])
        BY <2>4, <2>5, <3>1
      <3> QED BY <2>1, <3>1, <3>2 DEF Done
    <2>10. ASSUME pc'[u] = "replaceSelf", ~Unix PROVE Done(u, b)' /\ todo'[u] = todo[u]
      <3>1. new'[b] = Whole(ver[u]) /\ todo'[u] = todo[u]
        BY <1>1, <2>3, <2>10, <2>m DEF Renaming, Setting, Moves, Stops, GoesOn
      <3> QED BY <1>0, <2>1, <2>10, <3>1 DEF Done
    <2>11. ASSUME todo'[u] = <<Srv>> PROVE Done(u, Cli)'
      <3>1. CASE todo[u] = <<Srv>>
        <4>1. b = Srv
          BY <2>5, <3>1, EntryOf
        <4> QED BY <1>c, <2>4, <2>5, <2>6, <3>1, <4>1
      <3>2. CASE todo[u] # <<Srv>>
        <4>2. todo[u] = Archive /\ (GoesOn(u, "drop") \/ (GoesOn(u, "replaceSelf") /\ ~Unix))
                /\ dst'[b] = dst[b] /\ new'[b] = new[b]
          BY <1>1, <2>3, <2>11, <3>2, Lists DEF Renaming, Setting, Same, Moves, Stops, GoesOn
        <4>3. b = Cli
          BY <2>5, <4>2, EntryOf
        <4>4. pc[u] = "drop" \/ (pc[u] = "replaceSelf" /\ ~Unix)
          BY <4>2 DEF GoesOn, Stops
        <4>5. Done(u, Current(u))
          BY <2>4, <4>4
        <4>6. ASSUME NEW c, c = Current(u) PROVE Done(u, c)
          BY <4>5, <4>6 DEF Done
        <4> QED BY <1>c, <2>5, <2>6, <4>2, <4>3, <4>6
      <3> QED BY <3>1, <3>2
    <2>12. ASSUME Done(u, b)', Current(u)' = b PROVE Done(u, Current(u))'
      BY <2>12 DEF Done
    <2> QED BY <2>1, <2>7, <2>8, <2>9, <2>10, <2>11, <2>12, <1>0
  <1>2. ASSUME NEW v \in Runs, Begins(v) \/ Fetches(v) \/ Dies(v) PROVE Far(u)'
    <2>1. CASE v = u
      <3>1. pc'[u] \in {"fetch", "clear"} /\ todo'[u] # <<Srv>>
        <4>1. pc'[u] # "done"
          BY CallNames DEF Alive
        <4>2. pc[u] = "fetch" => todo[u] # <<Srv>>
          BY DEF RunsInv
        <4> QED BY <1>2, <2>1, <4>1, <4>2 DEF Begins, Fetches, Dies
      <3> QED BY <3>1
    <2>2. CASE v # u
      <3>1. pc'[u] = pc[u] /\ todo'[u] = todo[u] /\ ver'[u] = ver[u]
              /\ UNCHANGED <<dst, tmp, new>>
        BY <1>2, <2>2 DEF Begins, Fetches, Dies
      <3>2. Alive(u)
        BY <3>1 DEF Alive
      <3>3. \A o \in Other(u) : ver'[o] = ver[o]
        <4>1. pc[v] = "fetch" => ver[v] = 0
          BY DEF RunsInv
        <4> QED BY <1>2, <4>1 DEF Begins, Fetches, Dies, Other
      <3>4. \A b \in Binaries : Done(u, b) => Done(u, b)'
        <4>1. Other(u) \subseteq Other(u)'
          BY OtherGrows
        <4> QED BY <1>0, <3>1, <3>3, <4>1 DEF Done
      <3> QED BY <1>d, <1>n, <3>1, <3>2, <3>4
    <2> QED BY <2>1, <2>2
  <1>3. ASSUME NEW b \in Binaries, Swaps(b) PROVE Far(u)'
    <2>1. ~Unix /\ UNCHANGED <<pc, todo, ver, tmp>> /\ new[b] # NoFile /\ ~Open("copyNew", b)
            /\ dst'[b] = new[b]
            /\ \A c \in Binaries \ {b} : dst'[c] = dst[c] /\ new'[c] = new[c]
      BY <1>3 DEF Swaps
    <2>2. scenario.platform = "windows"
      BY <2>1, UpdateAssumption DEF Unix, TypeOK
    <2>3. Other(u)' = Other(u) /\ Alive(u)
      BY <2>1, OtherGrows DEF Alive
    <2>4. Done(u, b)'
      <3>1. PICK o \in Runs :
              /\ ver[o] # 0 /\ new[b].version = ver[o]
              /\ Alive(o) => \/ new[b].whole
                             \/ pc[o] = "copyNew" /\ Current(o) = b
                             \/ scenario.together /\ Other(o) # {}
        BY <2>1 DEF NewInv
      <3>2. CASE o = u
        <4>1. new[b].whole /\ new[b] \in File
          BY <1>n, <2>1, <2>2, <2>3, <3>1, <3>2 DEF Open, TypeOK
        <4>2. new[b] = Whole(ver[u])
          BY <3>1, <3>2, <4>1, Files
        <4> QED BY <2>1, <4>2 DEF Done
      <3>3. CASE o # u
        <4>1. o \in Other(u) /\ dst'[b].version = ver[o]
          BY <2>1, <3>1, <3>3 DEF Other
        <4> QED BY <1>0, <2>1, <2>3, <4>1 DEF Done
      <3> QED BY <3>2, <3>3
    <2>5. \A c \in Binaries : Done(u, c) => Done(u, c)'
      BY <1>0, <2>1, <2>3, <2>4 DEF Done
    <2> QED BY <1>d, <1>n, <2>1, <2>3, <2>5
  <1>4. ASSUME Elsewhere PROVE Far(u)'
    <2>1. UNCHANGED <<pc, todo, ver, dst, tmp, new>>
      BY <1>4 DEF Elsewhere
    <2>2. Other(u)' = Other(u) /\ Alive(u)
      BY <2>1, OtherGrows DEF Alive
    <2>3. \A b \in Binaries : Done(u, b) => Done(u, b)'
      BY <1>0, <2>1, <2>2 DEF Done
    <2> QED BY <1>d, <1>n, <2>1, <2>2, <2>3
  <1> HIDE DEF Far
  <1> QED BY Steps, <1>1, <1>2, <1>3, <1>4

(***************************************************************************)
(* The invariant and what follows from it.                                 *)
(***************************************************************************)

LEMMA InvInit == Init => IInv
  <1> SUFFICES ASSUME Init PROVE IInv
    OBVIOUS
  <1>a. /\ \A u \in Runs : pc[u] = "idle" /\ ver[u] = 0 /\ ~Alive(u) /\ ~Calling(u)
        /\ \A u \in Runs : \A b \in Binaries : ~Replacing(u, b)
    BY CallNames DEF Init, Alive, Calling, Replacing
  <1>b. /\ \A b \in Binaries : /\ dst[b] = IF b \in scenario.installed THEN Whole(1) ELSE NoFile
                               /\ old[b] = NoFile
        /\ Whole(1).whole
    BY Files DEF Init
  <1>1. TypeOK
    <2>1. 1 \in 0 .. MaxRelease /\ 0 \in 0 .. MaxRelease
      BY UpdateAssumption
    <2>2. NoFile \in File /\ Whole(1) \in File
      BY <2>1, Files
    <2>3. FilesOK
      BY <2>2 DEF Init, FilesOK
    <2> QED BY <1>a, <2>1, <2>3 DEF Init, TypeOK, FilesOK
  <1>2. RunsInv
    BY <1>a, UpdateAssumption DEF Init, RunsInv
  <1>3. AloneInv /\ BackupInv /\ ProgressInv /\ OneWriter
    BY <1>a DEF AloneInv, BackupInv, ProgressInv, OneWriter
  <1>4. FilesInv
    BY <1>a, <1>b, Files DEF FilesInv, Torn
  <1>5. NewInv /\ MixedInv
    BY <1>a DEF Init, NewInv, MixedInv
  <1>6. PutBack /\ CopySurvives /\ BringingInv
    <2>1. \A b \in scenario.installed : dst[b].whole
      BY <1>1, <1>b, UpdateAssumption DEF TypeOK
    <2>2. \A b \in scenario.installed : dst[b] # NoFile
      BY <2>1, WholeIsAFile
    <2> QED BY <1>a, <2>1, <2>2 DEF PutBack, CopySurvives, BringingInv
  <1> QED BY <1>1, <1>2, <1>3, <1>4, <1>5, <1>6 DEF IInv

LEMMA InvStep == IInv /\ [Next]_vars => IInv'
  BY TypeStep, RunsStep, AloneStep, MixedStep, FilesStep, BackupStep, BringingStep,
     ProgressStep, NewStep, OneWriterStep, PutBackStep, CopyStep
     DEF IInv

(* IInv is inductive; the fairness of Spec is not needed. *)
THEOREM Inductive == Spec => []IInv
  <1> QED BY InvInit, InvStep, PTL DEF Spec

(* The types, for any number of runs and any scenarios. *)
THEOREM TypeCorrect == Spec => []TypeOK
  <1>1. IInv => TypeOK
    BY DEF IInv
  <1> QED BY Inductive, <1>1, PTL

(* On Unix any number of overlapping runs have one writer of a dst.tmp at a time:
   the rename of dst to dst.old works for one of them. *)
THEOREM OneWriterEach == Spec => []OneWriter
  <1>1. IInv => OneWriter
    BY DEF IInv
  <1> QED BY Inductive, <1>1, PTL

(* On Unix no half-written binary ever bears the name the user starts. *)
THEOREM NeverStartsTorn == Spec => []NeverTorn
  <1>1. IInv => NeverTorn
    BY DEF IInv, FilesInv, NeverTorn, Torn, Unix
  <1> QED BY Inductive, <1>1, PTL

(* writeAtomic puts the old binary back on every error but that of putting it
   back; where runs overlap, as long as no call fails. *)
THEOREM ErrorsPutBack == Spec => []PutBack
  <1>1. IInv => PutBack
    BY DEF IInv
  <1> QED BY Inductive, <1>1, PTL

(* On Unix killed and failing runs, that of putting the old binary back among the
   failures, leave a whole copy behind until a run begins that finds one missing. *)
THEOREM CopiesSurvive == Spec => []CopySurvives
  <1>1. IInv => CopySurvives
    BY DEF IInv
  <1> QED BY Inductive, <1>1, PTL

(* "updated to <tag>" is said by the last call of a run, whose binaries are then
   that version, with --dev a commit not older than the one it names, or what
   another run has made of them. *)
THEOREM SaysUpdatedWhenDone == Spec => UpdatedIsNew
  <1> DEFINE New ==
        \A u \in Runs :
          answer[u] = "none" /\ answer'[u] = "updated" =>
              \A b \in Entries(u) : Installed(u, b)
  <1>1. ASSUME IInv, [Next]_vars, NEW u \in Runs, answer[u] = "none", answer'[u] = "updated",
               NEW c \in Entries(u)
        PROVE  Installed(u, c)
    <2> USE DEF IInv
    <2>1. PICK b \in Binaries : Touches(u, b) /\ (Renaming(u, b) \/ Setting(u, b))
      <3>1. ASSUME NEW v \in Runs, v # u, NEW b \in Binaries, Touches(v, b) PROVE FALSE
        BY <1>1, <3>1 DEF Touches
      <3>2. ASSUME NEW v \in Runs, Begins(v) \/ Fetches(v) \/ Dies(v) PROVE FALSE
        BY <1>1, <3>2 DEF Begins, Fetches, Dies
      <3> QED BY <1>1, <3>1, <3>2, Steps DEF Swaps, Elsewhere
    <2>2. /\ Alive(u) /\ b = Current(u) /\ todo[u] # <<>>
          /\ ver[u] \in Announced(u)
          /\ \A d \in Binaries \ {b} : dst'[d] = dst[d] /\ new'[d] = new[d]
      BY <1>1, <2>1, CallNames DEF Touches, TypeOK, RunsInv
    <2>3. /\ todo[u] # Archive /\ dst'[b] = dst[b] /\ new'[b] = new[b]
          /\ pc[u] = "drop" \/ (pc[u] = "replaceSelf" /\ ~Unix)
      BY <1>1, <2>1, <2>2, EntryOf DEF Renaming, Setting, Same, Moves, Stops, GoesOn
    <2>4. CASE scenario.together /\ Other(u) # {}
      BY <2>4 DEF Installed
    <2>5. CASE scenario.together => Other(u) = {}
      <3>1. Done(u, Current(u)) /\ (todo[u] = <<Srv>> => Done(u, Cli))
        BY <1>1, <2>2, <2>3, <2>5 DEF ProgressInv
      <3>2. todo[u] \in {<<Cli>>, <<Srv>>}
        BY <1>1, <2>2, <2>3 DEF TypeOK
      <3>3. c \in Binaries /\ (c = Current(u) \/ (todo[u] = <<Srv>> /\ c = Cli))
        BY <1>1, <2>2, <3>2, EntryOf DEF Binaries
      <3>4. ASSUME NEW d, d = Current(u) PROVE Done(u, d)
        BY <3>1, <3>4 DEF Done
      <3>5. Done(u, c)
        BY <3>1, <3>3, <3>4
      <3>6. dst'[c] = dst[c] /\ new'[c] = new[c]
        BY <2>2, <2>3, <3>3
      <3>7. ~Unix => scenario.platform = "windows"
        BY <1>1, UpdateAssumption DEF Unix, TypeOK
      <3>8. Whole(ver[u]) \in {Whole(v) : v \in Announced(u)}
        BY <2>2
      <3> QED BY <3>5, <3>6, <3>7, <3>8 DEF Done, Installed
    <2> QED BY <2>4, <2>5
  <1>2. IInv /\ [Next]_vars => [New]_vars
    BY <1>1
  <1>3. Spec => [][New]_vars
    <2> HIDE DEF New
    <2> QED BY <1>2, Inductive, PTL DEF Spec
  <1> QED BY <1>3 DEF UpdatedIsNew
===============================================================================
