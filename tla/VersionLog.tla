------------------------------ MODULE VersionLog ------------------------------
(***************************************************************************)
(* What the server promises about the files of one vault, with no SQL in   *)
(* it: every path has an append-only log of versions, a push is a          *)
(* compare-and-swap on the length of that log, and whatever the pusher is  *)
(* told is true at the moment the store decides it.  Dropping the vault    *)
(* (its team was deleted) empties every log for good.                      *)
(***************************************************************************)
EXTENDS Naturals, Sequences

CONSTANTS
  Paths,      \* paths of files in the vault
  Pushes      \* push requests; each is made once

VARIABLES
  log,        \* log[p]: versions of p, oldest first
  alive,      \* the vault exists
  req,        \* what each push asks: path, base version, deletion or not
  accepted,   \* pushes that appended their version
  answer      \* what each pusher was told

vars == <<log, alive, req, accepted, answer>>

Empty == [p \in Paths |-> << >>]

Init ==
  /\ log = Empty
  /\ alive = TRUE
  /\ req \in [Pushes -> [path : Paths, base : Nat, deleted : BOOLEAN]]
  /\ accepted = {}
  /\ answer = [w \in Pushes |-> "none"]

AtBase(w) == Len(log[req[w].path]) = req[w].base

(* Push w finds its path at its base version and appends one version. *)
Accept(w) ==
  /\ alive
  /\ w \notin accepted
  /\ answer[w] = "none"
  /\ AtBase(w)
  /\ log' = [log EXCEPT ![req[w].path] =
               Append(@, [by |-> w, deleted |-> req[w].deleted])]
  /\ accepted' = accepted \cup {w}
  /\ UNCHANGED <<alive, req, answer>>

Tell(w, what) ==
  /\ answer[w] = "none"
  /\ answer' = [answer EXCEPT ![w] = what]
  /\ UNCHANGED <<log, alive, req, accepted>>

(* "conflict" is only said while the base version is not the current one. *)
Refuse(w) == w \notin accepted /\ ~AtBase(w) /\ Tell(w, "conflict")

(* A failed push has appended nothing, and never will. *)
Fail(w) == w \notin accepted /\ Tell(w, "failed")

Acknowledge(w) == w \in accepted /\ Tell(w, "ok")

(* No answer: the version may or may not be stored. *)
LoseAnswer(w) == Tell(w, "lost")

Drop ==
  /\ alive
  /\ alive' = FALSE
  /\ log' = Empty
  /\ UNCHANGED <<req, accepted, answer>>

Next ==
  \/ \E w \in Pushes :
       Accept(w) \/ Refuse(w) \/ Fail(w) \/ Acknowledge(w) \/ LoseAnswer(w)
  \/ Drop

Spec == Init /\ [][Next]_vars
===============================================================================
