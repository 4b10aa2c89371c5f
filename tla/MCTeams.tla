-------------------------------- MODULE MCTeams --------------------------------
(* Workloads for Teams. *)
EXTENDS Teams

CONSTANTS ann, bob, cho, a1, b1, b2, c1, x, v     \* users, devices, names

Request(id, op, u, d, n, t, tok) ==
  [id |-> id, op |-> op, user |-> u, device |-> d, name |-> n, target |-> t,
   token |-> tok, vault |-> v]

(* A team is created, staffed and deleted while another user takes its name;
   the new member's device is pending until the claim activates it. *)
Recreated ==
  {Request(1, "create", ann, a1, x, ann, 1),
   Request(2, "invite", ann, a1, x, bob, 1),
   Request(3, "claim", bob, b2, x, bob, 2),
   Request(4, "setAdmin", ann, a1, x, bob, 1),
   Request(5, "delete", ann, a1, x, ann, 1),
   Request(6, "create", cho, c1, x, cho, 1),
   Request(7, "createVault", bob, b2, x, bob, 1),
   Request(8, "setAdmin", bob, b2, x, bob, 1)}

(* One token claimed from two devices of its addressee, one of them pending,
   and by somebody else, while the admin promotes the new member. *)
TwoDevices ==
  {Request(11, "create", ann, a1, x, ann, 11),
   Request(12, "invite", ann, a1, x, bob, 11),
   Request(13, "claim", bob, b1, x, bob, 12),
   Request(14, "claim", bob, b2, x, bob, 12),
   Request(15, "claim", cho, c1, x, cho, 12),
   Request(16, "setAdmin", ann, a1, x, bob, 11)}

(* The first on PostgreSQL, the second on SQLite. *)
AllRequests == Recreated \cup TwoDevices
OnBoth ==
  {[engine |-> "postgres", requests |-> Recreated, faults |-> 1],
   [engine |-> "sqlite", requests |-> TwoDevices, faults |-> 2]}
===============================================================================
