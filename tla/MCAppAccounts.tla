---------------------------- MODULE MCAppAccounts ----------------------------
(* Values of the constants of AppAccounts for TLC. *)
EXTENDS AppAccounts, TLC

CONSTANTS c1, c2, c3

\* Two clubs of one app.
OneApp == [c \in {c1, c2} |-> "pppoker"]

\* No definition names a player, a game ID, a primary key or a handler.
Symmetry == Permutations(Players) \cup Permutations(Ids) \cup Permutations(Accounts)
            \cup Permutations(Handlers)
=============================================================================
