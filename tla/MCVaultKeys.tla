----------------------------- MODULE MCVaultKeys ------------------------------
(* Workloads for VaultKeys: small sets of commands that may interleave. *)
EXTENDS VaultKeys

CONSTANTS ann, bob, cho, dan, f, g      \* users and paths

Job(id, op, u, p, n, t) ==
  [id |-> id, op |-> op, user |-> u, path |-> p, version |-> n, target |-> t]

Push(id, u, p) == Job(id, "push", u, p, 0, u)
Rm(id, u, p) == Job(id, "rm", u, p, 0, u)
Pull(id, u, p) == Job(id, "pull", u, p, 0, u)
Checkout(id, u, p, n) == Job(id, "checkout", u, p, n, u)
Grant(id, u, t) == Job(id, "grant", u, f, 0, t)
Revoke(id, u, t) == Job(id, "revoke", u, f, 0, t)

(* One rotation among the commands of everybody else. *)
OneRotation ==
  {Revoke(2, ann, bob), Push(3, bob, f), Grant(4, ann, cho), Rm(5, ann, f),
   Pull(6, cho, f)}

(* Two rotations at once, one revoking the admin who runs the other, while the
   file is pushed and a revoked user is granted the vault again; the version of
   the first one's new key may be fetched in vain. *)
FailingRevoke == Revoke(7, ann, dan)

TwoRotations ==
  {FailingRevoke, Revoke(8, bob, ann), Push(9, ann, f), Grant(10, bob, dan)}

(* The admin who rotated restores an old version. *)
RotateThenRestore ==
  {Revoke(2, ann, bob), Checkout(11, ann, f, 1), Checkout(12, ann, f, 0)}

(* An admin hands the vault over while somebody who is revoked still pushes. *)
HandOver ==
  {Revoke(14, ann, dan), Grant(4, ann, cho), Revoke(13, cho, ann), Push(9, ann, f)}

(* An admin runs two rotations at once. *)
SameAdminTwice == {Revoke(2, ann, bob), Revoke(3, ann, dan)}

(* Two users edit one file, each from the version they have pulled. *)
EditTwice == {Pull(2, ann, f), Pull(3, bob, f), Push(4, ann, f), Push(5, bob, f)}

AllRotations == {OneRotation, TwoRotations, RotateThenRestore, HandOver}
AllJobs == UNION AllRotations
Failing == {FailingRevoke}
OneSameAdmin == {SameAdminTwice}
OneEdit == {EditTwice}
===============================================================================
