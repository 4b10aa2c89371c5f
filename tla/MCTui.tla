------------------------------- MODULE MCTui -------------------------------
\* Instances of Tui for TLC: what one user opens after the log-in.
EXTENDS Tui

Sitting(screens, typing, n) ==
    [screens |-> {"login"} \cup screens, typing |-> typing, tasks |-> n]

MCSittings ==
    { Sitting(s, "paced", 2) : s \in {
        {"vaults", "files", "picker", "unlock"},
        {"vaults", "files", "history", "confirm"} } }
    \cup
    { Sitting(s, "paced", 3) : s \in {
        {"wizard", "recover"},
        {"vaults", "teamPick", "vaultName"},
        {"teams", "members", "teamName", "confirm"},
        {"devices", "confirm", "unlock"},
        {"auditPick", "auditLog"} } }
    \cup
    { Sitting(s, "ahead", 2) : s \in {
        {"wizard", "recover"},
        {"vaults", "teamPick", "vaultName"},
        {"devices", "confirm", "unlock"} } }

\* A user whose second key overtakes the answer to the first one.
MCDialogs == {Sitting({"devices", "confirm"}, "ahead", 2)}
=============================================================================
