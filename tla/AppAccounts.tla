---------------------------- MODULE AppAccounts ----------------------------
(***************************************************************************)
(* Game accounts of the players in the clubs of the poker apps:            *)
(* services/chips.py, models/players.py.                                   *)
(*                                                                         *)
(* A request checks that the game ID is free, inserts and commits; the     *)
(* checks see committed rows and the request's own.  The database keeps    *)
(* one index: a game ID is held once per club by a binding that is not     *)
(* rejected.  An insert into that index waits while another transaction    *)
(* has inserted the same key and has not ended.                            *)
(***************************************************************************)
EXTENDS Integers, FiniteSets

CONSTANTS
  Players,
  Clubs,
  AppOf,        \* the poker app of each club
  Ids,          \* game IDs, spaces inside removed
  Accounts,     \* primary keys of player_accounts; bound: no more rows than these
  Handlers,     \* transactions that may be open at the same time
  None,         \* nothing: no player, club, game ID or transaction
  MaxRollbacks  \* bound: failed transactions

ASSUME ConstantsAssumption ==
  /\ None \notin Players \cup Clubs \cup Ids \cup Handlers
  /\ MaxRollbacks \in Nat

VARIABLES
  row,        \* player_accounts: whose, in which club, under which game ID
  status,     \* player_accounts.status; "absent" for a key not used yet
  writer,     \* the open transaction that inserted a row, None once committed
  op,         \* what each handler is doing
  who,        \* the player it serves
  goal,       \* the game ID of the request
  asked,      \* the clubs of the request
  todo,       \* of these, the clubs still to do
  mine,       \* of these, the clubs where the player has the ID already, as loaded
  checked,    \* the club whose checks passed and whose row is not inserted yet
  picked,     \* the rows an edit or a review has loaded
  seen,       \* the status a reviewed row had when it was loaded
  alone,      \* no other request was open since this one started (history)
  rollbacks   \* transactions lost so far (bounds Rollback)

table == <<row, status, writer>>
request == <<who, goal, asked, mine, alone>>
vars == <<table, request, op, todo, checked, picked, seen, rollbacks>>

-----------------------------------------------------------------------------

Row    == [player : Players, club : Clubs, id : Ids]
NoRow  == [player |-> None, club |-> None, id |-> None]
Status == {"absent", "confirmed", "rejected"}
Ops    == {"idle", "bind", "rename", "renaming", "confirm", "reject"}

Init ==
  /\ row = [a \in Accounts |-> NoRow]
  /\ status = [a \in Accounts |-> "absent"]
  /\ writer = [a \in Accounts |-> None]
  /\ op = [h \in Handlers |-> "idle"]
  /\ who = [h \in Handlers |-> None]
  /\ goal = [h \in Handlers |-> None]
  /\ asked = [h \in Handlers |-> {}]
  /\ todo = [h \in Handlers |-> {}]
  /\ mine = [h \in Handlers |-> {}]
  /\ checked = [h \in Handlers |-> None]
  /\ picked = [h \in Handlers |-> {}]
  /\ seen = [h \in Handlers |-> "absent"]
  /\ alone = [h \in Handlers |-> FALSE]
  /\ rollbacks = 0

-----------------------------------------------------------------------------

\* The rows a transaction reads: committed ones and its own.
Visible(h) == {a \in Accounts : status[a] # "absent" /\ writer[a] \in {None, h}}

\* A rejected binding does not hold its ID.
Active(h) == {a \in Visible(h) : status[a] # "rejected"}

\* Mutant of FreeInApp: the check looks at the club, not at its app.
FreeInClub(h, p, c, i) ==
  \A a \in Active(h) : row[a].club = c /\ row[a].id = i => row[a].player = p

\* _ensure_app_id_free: no other player has the ID in the app of the club.
FreeInApp(h, p, c, i) ==
  \A a \in Active(h) : AppOf[row[a].club] = AppOf[c] /\ row[a].id = i => row[a].player = p

\* No binding holds the ID in the club, but for the rows that are being edited.
Untaken(h, c, i, edited) ==
  \A a \in Active(h) \ edited : ~(row[a].club = c /\ row[a].id = i)

\* The rows, of whatever transaction, that hold a key of the index.
Holders(c, i) == {a \in Accounts : /\ status[a] = "confirmed"
                                   /\ row[a].club = c /\ row[a].id = i}

\* The index lets a row take the key.
KeyFree(h, c, i, edited) == Holders(c, i) \subseteq edited

\* Someone's row that is not committed holds the key: the database waits.
KeyAwaited(h, c, i) == \E a \in Holders(c, i) : writer[a] \notin {None, h}

-----------------------------------------------------------------------------
(* A request ends.                                                         *)

Release(h) ==
  /\ op' = [op EXCEPT ![h] = "idle"]
  /\ asked' = [asked EXCEPT ![h] = {}]
  /\ todo' = [todo EXCEPT ![h] = {}]
  /\ mine' = [mine EXCEPT ![h] = {}]
  /\ checked' = [checked EXCEPT ![h] = None]
  /\ picked' = [picked EXCEPT ![h] = {}]
  /\ seen' = [seen EXCEPT ![h] = "absent"]
  /\ who' = [who EXCEPT ![h] = None]
  /\ goal' = [goal EXCEPT ![h] = None]
  /\ alone' = [alone EXCEPT ![h] = FALSE]

\* Mutant of Undo: what was inserted before the error stays.
UndoNothing(h) ==
  /\ writer' = [a \in Accounts |-> IF writer[a] = h THEN None ELSE writer[a]]
  /\ UNCHANGED <<row, status>>

\* Nothing of a transaction that fails is stored.
Undo(h) ==
  /\ status' = [a \in Accounts |-> IF writer[a] = h THEN "absent" ELSE status[a]]
  /\ row' = [a \in Accounts |-> IF writer[a] = h THEN NoRow ELSE row[a]]
  /\ writer' = [a \in Accounts |-> IF writer[a] = h THEN None ELSE writer[a]]

Fail(h) == Undo(h) /\ Release(h) /\ UNCHANGED rollbacks

-----------------------------------------------------------------------------
(* add_account and add_app_account.                                        *)

Begin(h, what, p, i, cs, own, rows, st) ==
  /\ op[h] = "idle"
  /\ op' = [op EXCEPT ![h] = what]
  /\ who' = [who EXCEPT ![h] = p]
  /\ goal' = [goal EXCEPT ![h] = i]
  /\ asked' = [asked EXCEPT ![h] = cs]
  /\ todo' = [todo EXCEPT ![h] = cs]
  /\ mine' = [mine EXCEPT ![h] = own]
  /\ picked' = [picked EXCEPT ![h] = rows]
  /\ seen' = [seen EXCEPT ![h] = st]
  /\ alone' = [k \in Handlers |-> k = h /\ \A j \in Handlers \ {h} : op[j] = "idle"]
  /\ UNCHANGED <<table, checked, rollbacks>>

\* The player's own rows count with any status.
LoadForBind(h, p, i, cs) ==
  /\ cs # {}
  /\ Begin(h, "bind", p, i, cs,
           {c \in cs : \E a \in Visible(h) : row[a] = [player |-> p, club |-> c, id |-> i]},
           {}, "absent")

\* One club: the player's own rows are not looked at.
LoadForAdd(h, p, i, c) == Begin(h, "bind", p, i, {c}, {}, {}, "absent")

\* The checks of the next club; a club that is the player's already is passed over.
CheckClub(h, c) ==
  /\ op[h] = "bind" /\ checked[h] = None /\ c \in todo[h]
  /\ IF ~FreeInApp(h, who[h], c, goal[h]) THEN Fail(h)
     ELSE IF c \in mine[h]
     THEN /\ todo' = [todo EXCEPT ![h] = @ \ {c}]
          /\ UNCHANGED <<table, request, op, checked, picked, seen, rollbacks>>
     ELSE IF ~Untaken(h, c, goal[h], {}) THEN Fail(h)
     ELSE /\ checked' = [checked EXCEPT ![h] = c]
          /\ UNCHANGED <<table, request, op, todo, picked, seen, rollbacks>>

\* The row is inserted and flushed; a key held by a committed row is an error.
InsertAccount(h) ==
  LET c == checked[h] IN
  /\ op[h] = "bind" /\ c # None
  /\ ~KeyAwaited(h, c, goal[h])
  /\ IF ~KeyFree(h, c, goal[h], {}) THEN Fail(h)
     ELSE \E a \in Accounts :
       /\ status[a] = "absent"
       /\ row' = [row EXCEPT ![a] = [player |-> who[h], club |-> c, id |-> goal[h]]]
       /\ status' = [status EXCEPT ![a] = "confirmed"]
       /\ writer' = [writer EXCEPT ![a] = h]
       /\ todo' = [todo EXCEPT ![h] = @ \ {c}]
       /\ checked' = [checked EXCEPT ![h] = None]
       /\ UNCHANGED <<request, op, picked, seen, rollbacks>>

CommitBind(h) ==
  /\ op[h] = "bind" /\ todo[h] = {}
  /\ writer' = [a \in Accounts |-> IF writer[a] = h THEN None ELSE writer[a]]
  /\ Release(h)
  /\ UNCHANGED <<row, status, rollbacks>>

-----------------------------------------------------------------------------
(* update_account: the ID changes in all clubs of the app at once.         *)

Siblings(h, a) ==
  {b \in Visible(h) : /\ row[b].player = row[a].player
                      /\ AppOf[row[b].club] = AppOf[row[a].club]
                      /\ row[b].id = row[a].id}

LoadForRename(h, a, i) ==
  /\ a \in Visible(h)
  /\ i # row[a].id
  /\ Begin(h, "rename", row[a].player, i, {row[a].club}, {}, Siblings(h, a), "absent")

CheckRename(h) ==
  /\ op[h] = "rename"
  /\ IF \A c \in asked[h] : FreeInApp(h, who[h], c, goal[h])
        /\ \A b \in picked[h] : Untaken(h, row[b].club, goal[h], picked[h])
     THEN /\ op' = [op EXCEPT ![h] = "renaming"]
          /\ UNCHANGED <<table, request, todo, checked, picked, seen, rollbacks>>
     ELSE Fail(h)

\* The UPDATE of the loaded rows, and the commit.
CommitRename(h) ==
  /\ op[h] = "renaming"
  /\ \A b \in picked[h] :
       status[b] = "confirmed" => ~KeyAwaited(h, row[b].club, goal[h])
  /\ IF \A b, d \in picked[h] :
          status[b] = "confirmed" =>
            /\ KeyFree(h, row[b].club, goal[h], picked[h])
            /\ status[d] = "confirmed" /\ row[d].club = row[b].club => d = b
     THEN /\ row' = [a \in Accounts |->
                      IF a \in picked[h] THEN [row[a] EXCEPT !.id = goal[h]] ELSE row[a]]
          /\ Release(h)
          /\ UNCHANGED <<status, writer, rollbacks>>
     ELSE Fail(h)

-----------------------------------------------------------------------------
(* review_account: a manager confirms or rejects a binding, in any status. *)

LoadForReview(h, a, verdict) ==
  /\ a \in Visible(h)
  /\ Begin(h, verdict, row[a].player, row[a].id, {}, {}, {a}, status[a])

\* A rejection always passes; a status that is as it was loaded is not written.
CommitReject(h) ==
  /\ op[h] = "reject"
  /\ status' = [a \in Accounts |->
       IF a \in picked[h] /\ seen[h] # "rejected" THEN "rejected" ELSE status[a]]
  /\ Release(h)
  /\ UNCHANGED <<row, writer, rollbacks>>

\* No check but the index's.
CommitConfirm(h) ==
  /\ op[h] = "confirm"
  /\ \/ /\ seen[h] = "confirmed"
        /\ UNCHANGED table
     \/ /\ seen[h] = "rejected"
        /\ \A a \in picked[h] : ~KeyAwaited(h, row[a].club, row[a].id)
        /\ \A a \in picked[h] : KeyFree(h, row[a].club, row[a].id, {a})
        /\ status' = [a \in Accounts |-> IF a \in picked[h] THEN "confirmed" ELSE status[a]]
        /\ UNCHANGED <<row, writer>>
     \/ /\ seen[h] = "rejected"
        /\ \E a \in picked[h] : /\ ~KeyAwaited(h, row[a].club, row[a].id)
                                /\ ~KeyFree(h, row[a].club, row[a].id, {a})
        /\ Undo(h)
  /\ Release(h)
  /\ UNCHANGED rollbacks

-----------------------------------------------------------------------------

\* The keys a transaction waits for.
AwaitedBy(h) ==
  IF op[h] = "bind" /\ checked[h] # None THEN {<<checked[h], goal[h]>>}
  ELSE IF op[h] = "renaming"
  THEN {<<row[b].club, goal[h]>> : b \in {a \in picked[h] : status[a] = "confirmed"}}
  ELSE {}

\* Two transactions wait for keys of each other: the database ends one of them.
Deadlocked(h) ==
  \E k \in Handlers \ {h} :
    /\ \E key \in AwaitedBy(h) : \E a \in Holders(key[1], key[2]) : writer[a] = k
    /\ \E key \in AwaitedBy(k) : \E a \in Holders(key[1], key[2]) : writer[a] = h

\* A request fails, or its client goes away.  A request that finds no key left
\* in Accounts ends too: that is the bound, not the program.
Rollback(h) ==
  /\ op[h] # "idle"
  /\ \/ rollbacks < MaxRollbacks
     \/ Deadlocked(h)
     \/ \A a \in Accounts : status[a] # "absent"
  /\ rollbacks' = IF rollbacks < MaxRollbacks THEN rollbacks + 1 ELSE rollbacks
  /\ Undo(h)
  /\ Release(h)

Load(h) ==
  \/ \E p \in Players, i \in Ids :
       \/ \E cs \in SUBSET Clubs : LoadForBind(h, p, i, cs)
       \/ \E c \in Clubs : LoadForAdd(h, p, i, c)
  \/ \E a \in Accounts :
       \/ \E i \in Ids : LoadForRename(h, a, i)
       \/ \E verdict \in {"confirm", "reject"} : LoadForReview(h, a, verdict)

Step(h) ==
  \/ \E c \in Clubs : CheckClub(h, c)
  \/ InsertAccount(h) \/ CommitBind(h)
  \/ CheckRename(h) \/ CommitRename(h)
  \/ CommitReject(h) \/ CommitConfirm(h)

Next == \E h \in Handlers : Load(h) \/ Step(h) \/ Rollback(h)

Spec == Init /\ [][Next]_vars

-----------------------------------------------------------------------------
(* Properties.                                                             *)

TypeOK ==
  /\ row \in [Accounts -> Row \cup {NoRow}]
  /\ status \in [Accounts -> Status]
  /\ writer \in [Accounts -> Handlers \cup {None}]
  /\ op \in [Handlers -> Ops]
  /\ who \in [Handlers -> Players \cup {None}]
  /\ goal \in [Handlers -> Ids \cup {None}]
  /\ asked \in [Handlers -> SUBSET Clubs]
  /\ todo \in [Handlers -> SUBSET Clubs]
  /\ mine \in [Handlers -> SUBSET Clubs]
  /\ checked \in [Handlers -> Clubs \cup {None}]
  /\ picked \in [Handlers -> SUBSET Accounts]
  /\ seen \in [Handlers -> Status]
  /\ alone \in [Handlers -> BOOLEAN]
  /\ rollbacks \in 0..MaxRollbacks

\* In one club a game ID has one holder, whatever requests, edits and reviews
\* overlap, committed or not.
OneHolderPerClub ==
  \A a, b \in Accounts :
    /\ status[a] = "confirmed" /\ status[b] = "confirmed"
    /\ row[a].club = row[b].club /\ row[a].id = row[b].id
    => a = b

Bound == {a \in Accounts : status[a] = "confirmed" /\ writer[a] = None}
Clashes == {pair \in Bound \X Bound :
              /\ AppOf[row[pair[1]].club] = AppOf[row[pair[2]].club]
              /\ row[pair[1]].id = row[pair[2]].id
              /\ row[pair[1]].player # row[pair[2]].player}

\* "A game ID is unique in the whole base within an app": a binding or an edit
\* that no other request overlaps gives no ID to a second player of the app,
\* whatever overlapped or was reviewed before.
AloneNeverClashes ==
  [][\A h \in Handlers :
       alone[h] /\ op[h] \in {"bind", "renaming"} /\ op'[h] = "idle"
       => Clashes' \subseteq Clashes]_vars

\* The same without its condition: no two players of an app hold one game ID.
IdUniqueInApp == Clashes = {}

\* A request for several clubs is stored for all of them or for none: a row it
\* inserted outlives it only when no club of the request is left without one,
\* unless another request overlapped and changed the player's accounts.
AllClubsOrNone ==
  [][\A h \in Handlers :
       /\ alone[h] /\ op[h] = "bind" /\ op'[h] = "idle"
       /\ \E a \in Accounts : writer[a] = h /\ status'[a] # "absent"
       => \A c \in asked[h] : \E a \in Accounts :
            /\ status'[a] # "absent" /\ writer'[a] = None
            /\ row'[a] = [player |-> who[h], club |-> c, id |-> goal[h]]]_vars

\* "A rejected binding does not hold the ID": a request that ends well leaves the
\* player a binding that counts in every club of the request.
RejectedHoldsNothing ==
  [][\A h \in Handlers :
       CommitBind(h) =>
       \A c \in asked[h] : \E a \in Accounts :
         /\ status'[a] = "confirmed" /\ writer'[a] = None
         /\ row'[a] = [player |-> who[h], club |-> c, id |-> goal[h]]]_vars
=============================================================================
