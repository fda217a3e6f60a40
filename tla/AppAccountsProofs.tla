------------------------- MODULE AppAccountsProofs -------------------------
(* Proofs about AppAccounts for any players, clubs, game IDs and requests. *)
EXTENDS AppAccounts, TLAPS

-----------------------------------------------------------------------------
(* The inductive invariant.                                                *)

\* A row that is there has an owner, a club and a game ID.
RowsAreFilled == \A a \in Accounts : status[a] # "absent" => row[a] \in Row

\* A request that runs has a player and a game ID.
RequestsAreFilled ==
  \A h \in Handlers : op[h] # "idle" => who[h] \in Players /\ goal[h] \in Ids

\* A row that is not committed was inserted by a binding that is still open.
OwnRows ==
  \A h \in Handlers, a \in Accounts : writer[a] = h =>
    /\ op[h] = "bind"
    /\ status[a] = "confirmed"
    /\ row[a].player = who[h]
    /\ row[a].id = goal[h]

\* Edits and reviews work on committed rows, a review on one.
PickedAreCommitted ==
  \A h \in Handlers :
    /\ \A a \in picked[h] : status[a] # "absent" /\ writer[a] = None
    /\ op[h] = "confirm" => \A a, b \in picked[h] : a = b

IInv ==
  /\ TypeOK
  /\ RowsAreFilled
  /\ RequestsAreFilled
  /\ OwnRows
  /\ PickedAreCommitted
  /\ OneHolderPerClub

-----------------------------------------------------------------------------

LEMMA Initial == Init => IInv
  BY ConstantsAssumption
  DEF Init, IInv, TypeOK, Status, Ops, RowsAreFilled, RequestsAreFilled, OwnRows,
      PickedAreCommitted, OneHolderPerClub

\* A load changes no row.
LEMMA BeginKeeps ==
  ASSUME IInv, NEW h \in Handlers, NEW what \in Ops \ {"idle"}, NEW p \in Players,
         NEW i \in Ids, NEW cs \in SUBSET Clubs, NEW own \in SUBSET Clubs,
         NEW rows \in SUBSET Accounts, NEW st \in Status,
         \A a \in rows : status[a] # "absent" /\ writer[a] = None,
         what = "confirm" => \A a, b \in rows : a = b,
         Begin(h, what, p, i, cs, own, rows, st)
  PROVE  IInv'
  <1>1. TypeOK'
    BY DEF IInv, TypeOK, Begin, table
  <1>2. RowsAreFilled' /\ OneHolderPerClub'
    BY DEF IInv, Begin, table, RowsAreFilled, OneHolderPerClub
  <1>3. RequestsAreFilled'
    BY DEF IInv, TypeOK, Begin, RequestsAreFilled
  <1>4. OwnRows'
    BY DEF IInv, TypeOK, Begin, table, OwnRows
  <1>5. PickedAreCommitted'
    BY DEF IInv, TypeOK, Begin, table, PickedAreCommitted
  <1>6. QED
    BY <1>1, <1>2, <1>3, <1>4, <1>5 DEF IInv

\* What a handler knew is forgotten when it ends.
LEMMA ReleaseTypes ==
  ASSUME TypeOK, NEW h \in Handlers, Release(h)
  PROVE  /\ op' \in [Handlers -> Ops]
         /\ who' \in [Handlers -> Players \cup {None}]
         /\ goal' \in [Handlers -> Ids \cup {None}]
         /\ asked' \in [Handlers -> SUBSET Clubs]
         /\ todo' \in [Handlers -> SUBSET Clubs]
         /\ mine' \in [Handlers -> SUBSET Clubs]
         /\ checked' \in [Handlers -> Clubs \cup {None}]
         /\ picked' \in [Handlers -> SUBSET Accounts]
         /\ seen' \in [Handlers -> Status]
         /\ alone' \in [Handlers -> BOOLEAN]
  BY DEF TypeOK, Release, Ops, Status

\* A request that fails takes its rows with it and touches no other.
LEMMA FailKeeps ==
  ASSUME IInv, NEW h \in Handlers, Undo(h), Release(h), rollbacks' \in 0..MaxRollbacks
  PROVE  IInv'
  <1>1. TypeOK'
    BY ReleaseTypes, ConstantsAssumption DEF IInv, TypeOK, Undo, Status
  <1>2. RowsAreFilled' /\ OneHolderPerClub'
    BY DEF IInv, TypeOK, Undo, RowsAreFilled, OneHolderPerClub
  <1>3. RequestsAreFilled'
    BY DEF IInv, TypeOK, Release, RequestsAreFilled
  <1>4. OwnRows'
    BY ConstantsAssumption DEF IInv, TypeOK, Undo, Release, OwnRows
  <1>5. PickedAreCommitted'
    BY ConstantsAssumption DEF IInv, TypeOK, Undo, Release, PickedAreCommitted
  <1>6. QED
    BY <1>1, <1>2, <1>3, <1>4, <1>5 DEF IInv

LEMMA CheckClubKeeps ==
  ASSUME IInv, NEW h \in Handlers, NEW c \in Clubs, CheckClub(h, c)
  PROVE  IInv'
  <1>1. CASE Fail(h)
    BY <1>1, FailKeeps DEF Fail, IInv, TypeOK
  <1>2. CASE ~Fail(h)
    <2>1. /\ UNCHANGED <<table, request, op, picked, seen, rollbacks>>
          /\ todo' \in [Handlers -> SUBSET Clubs]
          /\ checked' \in [Handlers -> Clubs \cup {None}]
      BY <1>2 DEF CheckClub, IInv, TypeOK
    <2>2. QED
      BY <2>1
      DEF IInv, TypeOK, table, request, RowsAreFilled, RequestsAreFilled, OwnRows,
          PickedAreCommitted, OneHolderPerClub
  <1>3. QED
    BY <1>1, <1>2

LEMMA InsertKeeps ==
  ASSUME IInv, NEW h \in Handlers, InsertAccount(h)
  PROVE  IInv'
  <1>1. CASE Fail(h)
    BY <1>1, FailKeeps DEF Fail, IInv, TypeOK
  <1>2. CASE ~Fail(h)
    <2> DEFINE c == checked[h]
               new == [player |-> who[h], club |-> c, id |-> goal[h]]
    <2>1. /\ op[h] = "bind"
          /\ c \in Clubs
          /\ who[h] \in Players /\ goal[h] \in Ids
          /\ KeyFree(h, c, goal[h], {})
      BY <1>2 DEF InsertAccount, IInv, TypeOK, RequestsAreFilled
    <2>2. PICK a \in Accounts :
            /\ status[a] = "absent"
            /\ row' = [row EXCEPT ![a] = new]
            /\ status' = [status EXCEPT ![a] = "confirmed"]
            /\ writer' = [writer EXCEPT ![a] = h]
            /\ todo' = [todo EXCEPT ![h] = @ \ {c}]
            /\ checked' = [checked EXCEPT ![h] = None]
            /\ UNCHANGED <<request, op, picked, seen, rollbacks>>
      BY <1>2 DEF InsertAccount
    <2>3. new \in Row
      BY <2>1 DEF Row
    <2>4. new.player = who[h] /\ new.club = c /\ new.id = goal[h]
      OBVIOUS
    <2> HIDE DEF new
    <2>5. TypeOK'
      BY <2>2, <2>3 DEF IInv, TypeOK, Status, request
    <2>6. RowsAreFilled' /\ RequestsAreFilled'
      BY <2>2, <2>3 DEF IInv, TypeOK, RowsAreFilled, RequestsAreFilled, request
    <2>7. OwnRows'
      BY <2>1, <2>2, <2>4 DEF IInv, TypeOK, OwnRows, request
    <2>8. PickedAreCommitted'
      BY <2>1, <2>2 DEF IInv, TypeOK, PickedAreCommitted, request
    <2>9. OneHolderPerClub'
      <3>1. \A b \in Accounts \ {a} :
              status[b] = "confirmed" => ~(row[b].club = c /\ row[b].id = goal[h])
        BY <2>1 DEF KeyFree, Holders
      <3>2. QED
        BY <2>2, <2>4, <3>1 DEF IInv, TypeOK, OneHolderPerClub
    <2>10. QED
      BY <2>5, <2>6, <2>7, <2>8, <2>9 DEF IInv
  <1>3. QED
    BY <1>1, <1>2

LEMMA CommitBindKeeps ==
  ASSUME IInv, NEW h \in Handlers, CommitBind(h)
  PROVE  IInv'
  <1>1. TypeOK'
    BY ReleaseTypes DEF IInv, TypeOK, CommitBind
  <1>2. RowsAreFilled' /\ OneHolderPerClub'
    BY DEF IInv, CommitBind, RowsAreFilled, OneHolderPerClub
  <1>3. RequestsAreFilled'
    BY DEF IInv, TypeOK, CommitBind, Release, RequestsAreFilled
  <1>4. OwnRows'
    BY ConstantsAssumption DEF IInv, TypeOK, CommitBind, Release, OwnRows
  <1>5. PickedAreCommitted'
    BY ConstantsAssumption DEF IInv, TypeOK, CommitBind, Release, PickedAreCommitted
  <1>6. QED
    BY <1>1, <1>2, <1>3, <1>4, <1>5 DEF IInv

LEMMA CheckRenameKeeps ==
  ASSUME IInv, NEW h \in Handlers, CheckRename(h)
  PROVE  IInv'
  <1>1. CASE Fail(h)
    BY <1>1, FailKeeps DEF Fail, IInv, TypeOK
  <1>2. CASE ~Fail(h)
    <2>1. /\ op[h] = "rename"
          /\ op' = [op EXCEPT ![h] = "renaming"]
          /\ UNCHANGED <<table, request, todo, checked, picked, seen, rollbacks>>
      BY <1>2 DEF CheckRename
    <2>2. TypeOK'
      BY <2>1 DEF IInv, TypeOK, Ops, table, request
    <2>3. RequestsAreFilled' /\ OwnRows'
      BY <2>1 DEF IInv, TypeOK, table, request, RequestsAreFilled, OwnRows
    <2>4. QED
      BY <2>1, <2>2, <2>3
      DEF IInv, TypeOK, table, RowsAreFilled, PickedAreCommitted, OneHolderPerClub
  <1>3. QED
    BY <1>1, <1>2

LEMMA CommitRenameKeeps ==
  ASSUME IInv, NEW h \in Handlers, CommitRename(h)
  PROVE  IInv'
  <1>1. CASE Fail(h)
    BY <1>1, FailKeeps DEF Fail, IInv, TypeOK
  <1>2. CASE ~Fail(h)
    <2>1. /\ op[h] = "renaming"
          /\ Release(h)
          /\ UNCHANGED <<status, writer, rollbacks>>
          /\ \A b, d \in picked[h] :
               status[b] = "confirmed" =>
                 /\ KeyFree(h, row[b].club, goal[h], picked[h])
                 /\ status[d] = "confirmed" /\ row[d].club = row[b].club => d = b
      BY <1>2 DEF CommitRename
    <2>2. row' = [a \in Accounts |->
                   IF a \in picked[h] THEN [row[a] EXCEPT !.id = goal[h]] ELSE row[a]]
      BY <1>2 DEF CommitRename
    <2>3. goal[h] \in Ids
      BY <2>1 DEF IInv, RequestsAreFilled
    <2>4. \A a \in Accounts :
            /\ a \in picked[h] => /\ row'[a] \in Row
                                  /\ row'[a].player = row[a].player
                                  /\ row'[a].club = row[a].club
                                  /\ row'[a].id = goal[h]
            /\ a \notin picked[h] => row'[a] = row[a]
      <3>1. ASSUME NEW a \in picked[h] PROVE a \in Accounts /\ row[a] \in Row
        BY <3>1 DEF IInv, TypeOK, PickedAreCommitted, RowsAreFilled
      <3>2. QED
        BY <2>2, <2>3, <3>1 DEF Row
    <2>5. TypeOK'
      <3>1. row' \in [Accounts -> Row \cup {NoRow}]
        BY <2>2, <2>4 DEF IInv, TypeOK
      <3>2. QED
        BY <3>1, <2>1, ReleaseTypes DEF IInv, TypeOK
    <2>6. RowsAreFilled' /\ RequestsAreFilled'
      BY <2>1, <2>4 DEF IInv, TypeOK, Release, RowsAreFilled, RequestsAreFilled
    <2>7. OwnRows' /\ PickedAreCommitted'
      BY <2>1, <2>4, ConstantsAssumption
      DEF IInv, TypeOK, Release, OwnRows, PickedAreCommitted
    <2>8. OneHolderPerClub'
      BY <2>1, <2>4 DEF IInv, TypeOK, OneHolderPerClub, KeyFree, Holders
    <2>9. QED
      BY <2>5, <2>6, <2>7, <2>8 DEF IInv
  <1>3. QED
    BY <1>1, <1>2

LEMMA CommitRejectKeeps ==
  ASSUME IInv, NEW h \in Handlers, CommitReject(h)
  PROVE  IInv'
  <1>1. TypeOK'
    BY ReleaseTypes DEF IInv, TypeOK, CommitReject, Status
  <1>2. RowsAreFilled' /\ OneHolderPerClub'
    BY DEF IInv, TypeOK, CommitReject, RowsAreFilled, OneHolderPerClub, PickedAreCommitted
  <1>3. RequestsAreFilled'
    BY DEF IInv, TypeOK, CommitReject, Release, RequestsAreFilled
  <1>4. OwnRows' /\ PickedAreCommitted'
    BY ConstantsAssumption
    DEF IInv, TypeOK, CommitReject, Release, OwnRows, PickedAreCommitted
  <1>5. QED
    BY <1>1, <1>2, <1>3, <1>4 DEF IInv

LEMMA CommitConfirmKeeps ==
  ASSUME IInv, NEW h \in Handlers, CommitConfirm(h)
  PROVE  IInv'
  <1>1. op[h] = "confirm" /\ Release(h) /\ UNCHANGED rollbacks
    BY DEF CommitConfirm
  <1>2. CASE Undo(h)
    BY <1>1, <1>2, FailKeeps DEF IInv, TypeOK
  <1>3. CASE UNCHANGED table
    <2>1. UNCHANGED <<row, status, writer>>
      BY <1>3 DEF table
    <2>2. TypeOK'
      BY <1>1, <2>1, ReleaseTypes DEF IInv, TypeOK
    <2>3. RowsAreFilled' /\ OneHolderPerClub'
      BY <2>1 DEF IInv, RowsAreFilled, OneHolderPerClub
    <2>4. RequestsAreFilled'
      BY <1>1 DEF IInv, TypeOK, Release, RequestsAreFilled
    <2>5. OwnRows' /\ PickedAreCommitted'
      BY <1>1, <2>1 DEF IInv, TypeOK, Release, OwnRows, PickedAreCommitted
    <2>6. QED
      BY <2>2, <2>3, <2>4, <2>5 DEF IInv
  <1>4. CASE /\ \A a \in picked[h] : KeyFree(h, row[a].club, row[a].id, {a})
             /\ status' = [a \in Accounts |->
                            IF a \in picked[h] THEN "confirmed" ELSE status[a]]
             /\ UNCHANGED <<row, writer>>
    <2>1. TypeOK'
      BY <1>1, <1>4, ReleaseTypes DEF IInv, TypeOK, Status
    <2>2. RowsAreFilled'
      BY <1>4 DEF IInv, TypeOK, RowsAreFilled, PickedAreCommitted
    <2>3. RequestsAreFilled'
      BY <1>1 DEF IInv, TypeOK, Release, RequestsAreFilled
    <2>4. OwnRows' /\ PickedAreCommitted'
      BY <1>1, <1>4, ConstantsAssumption
      DEF IInv, TypeOK, Release, OwnRows, PickedAreCommitted
    <2>5. OneHolderPerClub'
      BY <1>1, <1>4 DEF PickedAreCommitted, IInv, TypeOK, OneHolderPerClub, KeyFree, Holders
    <2>6. QED
      BY <2>1, <2>2, <2>3, <2>4, <2>5 DEF IInv
  <1>5. QED
    BY <1>2, <1>3, <1>4 DEF CommitConfirm

-----------------------------------------------------------------------------
(* Every step keeps the invariant.                                         *)

LEMMA LoadKeeps ==
  ASSUME IInv, NEW h \in Handlers, Load(h)
  PROVE  IInv'
  <1>1. ASSUME op[h] = "idle", NEW a \in Visible(h)
        PROVE  /\ a \in Accounts /\ status[a] # "absent" /\ writer[a] = None
               /\ row[a].player \in Players /\ row[a].club \in Clubs /\ row[a].id \in Ids
    BY <1>1 DEF Visible, IInv, OwnRows, RowsAreFilled, Row
  <1>2. ASSUME NEW p \in Players, NEW i \in Ids, NEW cs \in SUBSET Clubs,
               LoadForBind(h, p, i, cs)
        PROVE  IInv'
    <2> DEFINE own == {c \in cs : \E a \in Visible(h) :
                                    row[a] = [player |-> p, club |-> c, id |-> i]}
    <2>1. Begin(h, "bind", p, i, cs, own, {}, "absent")
      BY <1>2 DEF LoadForBind
    <2>2. own \in SUBSET Clubs
      OBVIOUS
    <2> HIDE DEF own
    <2>3. QED
      BY <2>1, <2>2, BeginKeeps DEF Ops, Status
  <1>3. ASSUME NEW p \in Players, NEW i \in Ids, NEW c \in Clubs, LoadForAdd(h, p, i, c)
        PROVE  IInv'
    BY <1>3, BeginKeeps DEF LoadForAdd, Ops, Status
  <1>4. ASSUME NEW a \in Accounts, NEW i \in Ids, LoadForRename(h, a, i)
        PROVE  IInv'
    <2>1. /\ op[h] = "idle" /\ a \in Visible(h)
          /\ Begin(h, "rename", row[a].player, i, {row[a].club}, {}, Siblings(h, a), "absent")
      BY <1>4 DEF LoadForRename, Begin
    <2>2. \A b \in Siblings(h, a) : b \in Visible(h)
      BY DEF Siblings
    <2>3. QED
      BY <1>1, <2>1, <2>2, BeginKeeps DEF Ops, Status
  <1>5. ASSUME NEW a \in Accounts, NEW verdict \in {"confirm", "reject"},
               LoadForReview(h, a, verdict)
        PROVE  IInv'
    <2>1. /\ op[h] = "idle" /\ a \in Visible(h)
          /\ Begin(h, verdict, row[a].player, row[a].id, {}, {}, {a}, status[a])
      BY <1>5 DEF LoadForReview, Begin
    <2>2. status[a] \in Status
      BY DEF IInv, TypeOK
    <2>3. QED
      BY <1>1, <2>1, <2>2, BeginKeeps DEF Ops
  <1>6. QED
    BY <1>2, <1>3, <1>4, <1>5 DEF Load

LEMMA RollbackKeeps ==
  ASSUME IInv, NEW h \in Handlers, Rollback(h)
  PROVE  IInv'
  BY FailKeeps, ConstantsAssumption DEF Rollback, IInv, TypeOK

LEMMA Invariance == Spec => []IInv
  <1>1. IInv /\ [Next]_vars => IInv'
    <2> SUFFICES ASSUME IInv, [Next]_vars PROVE IInv'
      OBVIOUS
    <2>1. ASSUME NEW h \in Handlers, Step(h) PROVE IInv'
      BY <2>1, CheckClubKeeps, InsertKeeps, CommitBindKeeps, CheckRenameKeeps,
         CommitRenameKeeps, CommitRejectKeeps, CommitConfirmKeeps
      DEF Step
    <2>2. CASE UNCHANGED vars
      BY <2>2
      DEF vars, table, request, IInv, TypeOK, RowsAreFilled, RequestsAreFilled, OwnRows,
          PickedAreCommitted, OneHolderPerClub
    <2>3. QED
      BY <2>1, <2>2, LoadKeeps, RollbackKeeps DEF Next
  <1>2. QED
    BY Initial, <1>1, PTL DEF Spec

-----------------------------------------------------------------------------
(* Theorems.                                                               *)

\* Every variable keeps its type, whatever requests overlap.
THEOREM AccountTypeCorrect == Spec => []TypeOK
  <1>1. IInv => TypeOK
    BY DEF IInv
  <1>2. QED
    BY <1>1, Invariance, PTL

\* The index of models/players.py and the waiting for uncommitted keys leave one
\* holder of a game ID in a club, through bindings, edits and reviews.
THEOREM HolderIsUnique == Spec => []OneHolderPerClub
  <1>1. IInv => OneHolderPerClub
    BY DEF IInv
  <1>2. QED
    BY <1>1, Invariance, PTL

-----------------------------------------------------------------------------
(* A request that no other overlaps gives no game ID to a second player.    *)

\* Nothing else is open while a request is alone.
AloneMeansAlone ==
  \A h \in Handlers : alone[h] =>
    op[h] # "idle" /\ \A k \in Handlers \ {h} : op[k] = "idle"

\* The rows a binding has inserted clash with nobody's.
OwnRowsAreFree ==
  \A h \in Handlers, a \in Accounts : alone[h] /\ writer[a] = h =>
    FreeInApp(h, who[h], row[a].club, goal[h])

\* What a request has checked still holds when it writes.
CheckedIsFree ==
  \A h \in Handlers :
    /\ checked[h] # None => op[h] = "bind"
    /\ alone[h] /\ checked[h] # None => FreeInApp(h, who[h], checked[h], goal[h])
    /\ alone[h] /\ op[h] = "renaming" => \A c \in asked[h] : FreeInApp(h, who[h], c, goal[h])

\* An edit changes accounts of its player, all of the app it has checked.
EditsOwnRows ==
  \A h \in Handlers : alone[h] /\ op[h] \in {"rename", "renaming"} =>
    \A b \in picked[h] : /\ row[b].player = who[h]
                         /\ \E c \in asked[h] : AppOf[row[b].club] = AppOf[c]

SInv == AloneMeansAlone /\ OwnRowsAreFree /\ CheckedIsFree /\ EditsOwnRows

\* While a request runs no other one is alone.
LEMMA OthersAreNotAlone ==
  ASSUME SInv, NEW h \in Handlers, op[h] # "idle", NEW k \in Handlers, alone[k]
  PROVE  k = h
  BY DEF SInv, AloneMeansAlone

\* A request that ends has nothing left to keep.
LEMMA EndKeeps ==
  ASSUME SInv, TypeOK, NEW h \in Handlers, op[h] # "idle", Release(h)
  PROVE  SInv'
  <1>1. \A k \in Handlers : ~alone'[k]
    BY OthersAreNotAlone DEF Release, TypeOK
  <1>2. \A k \in Handlers : checked'[k] # None => op'[k] = "bind"
    BY DEF Release, TypeOK, SInv, CheckedIsFree
  <1>3. QED
    BY <1>1, <1>2 DEF SInv, AloneMeansAlone, OwnRowsAreFree, CheckedIsFree, EditsOwnRows

\* A request that is not a binding has no row of its own.
LEMMA NoOwnRows ==
  ASSUME IInv, NEW h \in Handlers, op[h] # "bind"
  PROVE  \A a \in Accounts : writer[a] # h
  BY DEF IInv, OwnRows

LEMMA LoadKeepsAlone ==
  ASSUME IInv, SInv, NEW h \in Handlers, Load(h)
  PROVE  SInv'
  <1> DEFINE Loaded(what, rows) ==
               /\ op[h] = "idle"
               /\ op' = [op EXCEPT ![h] = what]
               /\ picked' = [picked EXCEPT ![h] = rows]
               /\ UNCHANGED <<row, status, writer, checked>>
               /\ alone' = [k \in Handlers |->
                            k = h /\ \A j \in Handlers \ {h} : op[j] = "idle"]
               /\ what = "rename" => \A b \in rows : /\ row[b].player = who'[h]
                                                    /\ \E c \in asked'[h] :
                                                         AppOf[row[b].club] = AppOf[c]
  <1>1. \E what \in Ops \ {"idle", "renaming"}, rows \in SUBSET Accounts : Loaded(what, rows)
    <2>1. ASSUME NEW a \in Accounts, NEW i \in Ids, LoadForRename(h, a, i)
          PROVE  Loaded("rename", Siblings(h, a)) /\ Siblings(h, a) \in SUBSET Accounts
      <3>1. /\ who'[h] = row[a].player /\ asked'[h] = {row[a].club}
            /\ op[h] = "idle" /\ op' = [op EXCEPT ![h] = "rename"]
            /\ picked' = [picked EXCEPT ![h] = Siblings(h, a)]
            /\ UNCHANGED <<row, status, writer, checked>>
            /\ alone' = [k \in Handlers |->
                         k = h /\ \A j \in Handlers \ {h} : op[j] = "idle"]
        BY <2>1 DEF LoadForRename, Begin, IInv, TypeOK, table
      <3>2. /\ Siblings(h, a) \in SUBSET Accounts
            /\ \A b \in Siblings(h, a) : /\ row[b].player = row[a].player
                                         /\ AppOf[row[b].club] = AppOf[row[a].club]
        BY DEF Siblings, Visible
      <3>3. QED
        BY <3>1, <3>2
    <2>2. ASSUME NEW p \in Players, NEW i \in Ids, NEW cs \in SUBSET Clubs,
                 LoadForBind(h, p, i, cs)
          PROVE  Loaded("bind", {})
      BY <2>2 DEF LoadForBind, Begin, table
    <2>3. ASSUME NEW p \in Players, NEW i \in Ids, NEW c \in Clubs, LoadForAdd(h, p, i, c)
          PROVE  Loaded("bind", {})
      BY <2>3 DEF LoadForAdd, Begin, table
    <2>4. ASSUME NEW a \in Accounts, NEW verdict \in {"confirm", "reject"},
                 LoadForReview(h, a, verdict)
          PROVE  Loaded(verdict, {a})
      BY <2>4 DEF LoadForReview, Begin, table
    <2> HIDE DEF Loaded
    <2>5. QED
      BY <2>1, <2>2, <2>3, <2>4 DEF Load, Ops
  <1>2. checked[h] = None
    BY <1>1 DEF SInv, CheckedIsFree
  <1>3. \A a \in Accounts : writer[a] # h
    BY <1>1, NoOwnRows
  <1>4. QED
    BY <1>1, <1>2, <1>3
    DEF IInv, TypeOK, SInv, AloneMeansAlone, OwnRowsAreFree, CheckedIsFree, EditsOwnRows

LEMMA CheckClubKeepsAlone ==
  ASSUME IInv, SInv, NEW h \in Handlers, NEW c \in Clubs, CheckClub(h, c)
  PROVE  SInv'
  <1>1. CASE Fail(h)
    BY <1>1, EndKeeps DEF Fail, CheckClub, IInv
  <1>2. CASE ~Fail(h)
    <2>1. /\ op[h] = "bind"
          /\ UNCHANGED <<row, status, writer, who, goal, asked, op, picked, alone>>
          /\ \A k \in Handlers \ {h} : checked'[k] = checked[k]
          /\ alone[h] /\ checked'[h] # None =>
               checked'[h] = c /\ FreeInApp(h, who[h], c, goal[h])
      BY <1>2 DEF CheckClub, table, request, IInv, TypeOK
    <2>2. \A d : FreeInApp(h, who[h], d, goal[h]) => FreeInApp(h, who[h], d, goal[h])'
      BY <2>1 DEF FreeInApp, Active, Visible
    <2>3. QED
      BY <2>1, <2>2, OthersAreNotAlone
      DEF SInv, AloneMeansAlone, OwnRowsAreFree, CheckedIsFree, EditsOwnRows
  <1>3. QED
    BY <1>1, <1>2

LEMMA InsertKeepsAlone ==
  ASSUME IInv, SInv, NEW h \in Handlers, InsertAccount(h)
  PROVE  SInv'
  <1>1. CASE Fail(h)
    BY <1>1, EndKeeps DEF Fail, InsertAccount, IInv
  <1>2. CASE ~Fail(h)
    <2> DEFINE c == checked[h]
               new == [player |-> who[h], club |-> c, id |-> goal[h]]
    <2>1. op[h] = "bind" /\ c # None
      BY <1>2 DEF InsertAccount
    <2>2. alone[h] => FreeInApp(h, who[h], c, goal[h])
      BY <2>1 DEF SInv, CheckedIsFree
    <2>3. PICK a \in Accounts :
            /\ status[a] = "absent"
            /\ row' = [row EXCEPT ![a] = new]
            /\ status' = [status EXCEPT ![a] = "confirmed"]
            /\ writer' = [writer EXCEPT ![a] = h]
            /\ checked' = [checked EXCEPT ![h] = None]
            /\ UNCHANGED <<who, goal, asked, op, picked, alone>>
      BY <1>2 DEF InsertAccount, request
    <2>4. new.player = who[h] /\ new.club = c /\ new.id = goal[h]
      OBVIOUS
    <2> HIDE DEF new
    <2>5. \A b \in Accounts : /\ b # a => row'[b] = row[b] /\ status'[b] = status[b]
                                         /\ writer'[b] = writer[b]
                              /\ b = a => row'[b] = new /\ writer'[b] = h
      BY <2>3 DEF IInv, TypeOK
    <2>6. \A d : FreeInApp(h, who[h], d, goal[h]) => FreeInApp(h, who[h], d, goal[h])'
      BY <2>3, <2>4, <2>5 DEF FreeInApp, Active, Visible
    <2>7. ASSUME NEW b \in Accounts, writer'[b] = h, alone[h]
          PROVE  FreeInApp(h, who[h], row[b].club, goal[h])'
      <3>1. CASE b = a
        BY <2>2, <2>4, <2>5, <2>6, <2>7, <3>1 DEF c
      <3>2. CASE b # a
        <4>1. writer[b] = h /\ row'[b] = row[b]
          BY <2>5, <2>7, <3>2
        <4>2. FreeInApp(h, who[h], row[b].club, goal[h])
          BY <2>7, <4>1 DEF SInv, OwnRowsAreFree
        <4>3. QED
          BY <2>6, <4>1, <4>2
      <3>3. QED
        BY <3>1, <3>2
    <2>8. OwnRowsAreFree'
      BY <2>1, <2>3, <2>7, OthersAreNotAlone DEF OwnRowsAreFree
    <2>9. CheckedIsFree' /\ EditsOwnRows' /\ AloneMeansAlone'
      BY <2>1, <2>3, OthersAreNotAlone
      DEF SInv, AloneMeansAlone, CheckedIsFree, EditsOwnRows, IInv, TypeOK
    <2>10. QED
      BY <2>8, <2>9 DEF SInv
  <1>3. QED
    BY <1>1, <1>2

LEMMA CheckRenameKeepsAlone ==
  ASSUME IInv, SInv, NEW h \in Handlers, CheckRename(h)
  PROVE  SInv'
  <1>1. CASE Fail(h)
    BY <1>1, EndKeeps DEF Fail, CheckRename, IInv
  <1>2. CASE ~Fail(h)
    <2>1. /\ op[h] = "rename"
          /\ op' = [op EXCEPT ![h] = "renaming"]
          /\ UNCHANGED <<row, status, writer, who, goal, asked, checked, picked, alone>>
          /\ \A c \in asked[h] : FreeInApp(h, who[h], c, goal[h])
      BY <1>2 DEF CheckRename, table, request
    <2>2. \A a \in Accounts : writer[a] # h
      BY <2>1, NoOwnRows
    <2>3. checked[h] = None
      BY <2>1 DEF SInv, CheckedIsFree
    <2>4. QED
      BY <2>1, <2>2, <2>3, OthersAreNotAlone
      DEF IInv, TypeOK, SInv, AloneMeansAlone, OwnRowsAreFree, CheckedIsFree, EditsOwnRows,
          FreeInApp, Active, Visible
  <1>3. QED
    BY <1>1, <1>2

\* The steps that end a request.
LEMMA CommitKeepsAlone ==
  ASSUME IInv, SInv, NEW h \in Handlers,
         CommitBind(h) \/ CommitRename(h) \/ CommitReject(h) \/ CommitConfirm(h)
  PROVE  SInv'
  <1>1. op[h] # "idle" /\ Release(h)
    BY DEF CommitBind, CommitRename, CommitReject, CommitConfirm, Fail
  <1>2. QED
    BY <1>1, EndKeeps DEF IInv

LEMMA AloneInvariance == Spec => [](IInv /\ SInv)
  <1>1. Init => SInv
    BY ConstantsAssumption DEF Init, SInv, AloneMeansAlone, OwnRowsAreFree, CheckedIsFree, EditsOwnRows
  <1>2. IInv /\ SInv /\ [Next]_vars => SInv'
    <2> SUFFICES ASSUME IInv, SInv, [Next]_vars PROVE SInv'
      OBVIOUS
    <2>1. ASSUME NEW h \in Handlers, Step(h) PROVE SInv'
      BY <2>1, CheckClubKeepsAlone, InsertKeepsAlone, CheckRenameKeepsAlone, CommitKeepsAlone DEF Step
    <2>2. ASSUME NEW h \in Handlers, Rollback(h) PROVE SInv'
      BY <2>2, EndKeeps DEF Rollback, IInv
    <2>3. CASE UNCHANGED vars
      BY <2>3
      DEF vars, table, request, SInv, AloneMeansAlone, OwnRowsAreFree, CheckedIsFree,
          EditsOwnRows, FreeInApp, Active, Visible
    <2>4. QED
      BY <2>1, <2>2, <2>3, LoadKeepsAlone DEF Next
  <1>3. QED
    BY <1>1, <1>2, Invariance, PTL DEF Spec

LEMMA ClashOf ==
  ASSUME NEW a \in Bound, NEW b \in Bound
  PROVE  <<a, b>> \in Clashes <=> /\ AppOf[row[a].club] = AppOf[row[b].club]
                                 /\ row[a].id = row[b].id
                                 /\ row[a].player # row[b].player
  BY DEF Clashes

\* A clash that is there after a step and was not before is between two rows
\* that are bound after it.
LEMMA NoNewClash ==
  ASSUME \A a, b \in Bound' :
           /\ AppOf[row'[a].club] = AppOf[row'[b].club]
           /\ row'[a].id = row'[b].id
           /\ row'[a].player # row'[b].player
           => a \in Bound /\ b \in Bound /\ row'[a] = row[a] /\ row'[b] = row[b]
  PROVE  Clashes' \subseteq Clashes
  BY DEF Clashes

LEMMA FailMakesNoClash ==
  ASSUME IInv, NEW h \in Handlers, Undo(h)
  PROVE  Clashes' \subseteq Clashes
  <1>1. \A a \in Bound' : a \in Bound /\ row'[a] = row[a]
    BY DEF Bound, Undo
  <1>2. QED
    BY <1>1, NoNewClash

LEMMA BindMakesNoClash ==
  ASSUME IInv, SInv, NEW h \in Handlers, alone[h], CommitBind(h)
  PROVE  Clashes' \subseteq Clashes
  <1>1. UNCHANGED <<row, status>>
    BY DEF CommitBind
  <1>2. \A a \in Bound' : a \in Accounts /\ status[a] = "confirmed" /\ writer[a] \in {None, h}
    BY DEF CommitBind, Bound
  <1>3. ASSUME NEW a \in Bound', NEW b \in Bound', writer[a] = h,
               AppOf[row[a].club] = AppOf[row[b].club], row[a].id = row[b].id
        PROVE  row[a].player = row[b].player
    <2>1. row[a].player = who[h] /\ row[a].id = goal[h]
      BY <1>2, <1>3 DEF IInv, OwnRows
    <2>2. FreeInApp(h, who[h], row[a].club, goal[h])
      BY <1>2, <1>3 DEF SInv, OwnRowsAreFree
    <2>3. b \in Active(h)
      BY <1>2 DEF Active, Visible
    <2>4. QED
      BY <1>3, <2>1, <2>2, <2>3 DEF FreeInApp
  <1>4. QED
    BY <1>1, <1>2, <1>3, NoNewClash DEF Bound

LEMMA RenameMakesNoClash ==
  ASSUME IInv, SInv, NEW h \in Handlers, alone[h], CommitRename(h)
  PROVE  Clashes' \subseteq Clashes
  <1>1. CASE Fail(h)
    BY <1>1, FailMakesNoClash DEF Fail
  <1>2. CASE ~Fail(h)
    <2>1. /\ op[h] = "renaming"
          /\ UNCHANGED <<status, writer>>
          /\ row' = [a \in Accounts |->
                      IF a \in picked[h] THEN [row[a] EXCEPT !.id = goal[h]] ELSE row[a]]
      BY <1>2 DEF CommitRename
    <2>2. \A a \in Bound : a \in Accounts /\ status[a] = "confirmed" /\ writer[a] = None
                         /\ row[a] \in Row
      BY DEF Bound, IInv, RowsAreFilled
    <2>3. \A a \in Bound :
            /\ a \in picked[h] => /\ row'[a].player = row[a].player
                                  /\ row'[a].club = row[a].club
                                  /\ row'[a].id = goal[h]
            /\ a \notin picked[h] => row'[a] = row[a]
      BY <2>1, <2>2 DEF Row
    <2>4. ASSUME NEW a \in Bound, NEW b \in Bound, a \in picked[h],
                 AppOf[row[a].club] = AppOf[row[b].club], row'[b].id = goal[h]
          PROVE  row[a].player = row[b].player
      <3>1. row[a].player = who[h]
        BY <2>1, <2>4 DEF SInv, EditsOwnRows
      <3>2. PICK c \in asked[h] : AppOf[row[a].club] = AppOf[c]
        BY <2>1, <2>4 DEF SInv, EditsOwnRows
      <3>3. CASE b \in picked[h]
        BY <2>1, <3>1, <3>3 DEF SInv, EditsOwnRows
      <3>4. CASE b \notin picked[h]
        <4>1. row[b].id = goal[h]
          BY <2>3, <2>4, <3>4
        <4>2. b \in Active(h)
          BY <2>2 DEF Active, Visible
        <4>3. FreeInApp(h, who[h], c, goal[h])
          BY <2>1, <3>2 DEF SInv, CheckedIsFree
        <4>4. QED
          BY <2>4, <3>1, <3>2, <4>1, <4>2, <4>3 DEF FreeInApp
      <3>5. QED
        BY <3>3, <3>4
    <2>5. Bound' = Bound
      BY <2>1 DEF Bound
    <2>6. ASSUME NEW a \in Bound, NEW b \in Bound,
                 AppOf[row'[a].club] = AppOf[row'[b].club],
                 row'[a].id = row'[b].id, row'[a].player # row'[b].player
          PROVE  a \notin picked[h] /\ b \notin picked[h]
      <3>1. /\ row'[a].player = row[a].player /\ row'[a].club = row[a].club
            /\ row'[b].player = row[b].player /\ row'[b].club = row[b].club
        BY <2>3
      <3>2. a \notin picked[h]
        BY <2>3, <2>4, <2>6, <3>1
      <3>3. b \notin picked[h]
        BY <2>3, <2>4, <2>6, <3>1
      <3>4. QED
        BY <3>2, <3>3
    <2>7. QED
      BY <2>3, <2>5, <2>6, NoNewClash
  <1>3. QED
    BY <1>1, <1>2

\* The checks of services/chips.py are enough for a request that nothing overlaps:
\* it gives no game ID to a second player of the app, for any number of players,
\* clubs, game IDs and accounts, and whatever happened before it.
THEOREM AloneIsUnique == Spec => AloneNeverClashes
  <1> DEFINE A == \A h \in Handlers :
       alone[h] /\ op[h] \in {"bind", "renaming"} /\ op'[h] = "idle"
       => Clashes' \subseteq Clashes
  <1>1. ASSUME IInv, SInv, Next PROVE A
    <2> SUFFICES ASSUME NEW h \in Handlers, alone[h], op[h] \in {"bind", "renaming"},
                        op'[h] = "idle"
                 PROVE  Clashes' \subseteq Clashes
      OBVIOUS
    <2>1. PICK k \in Handlers : Load(k) \/ Step(k) \/ Rollback(k)
      BY <1>1 DEF Next
    <2>2. k = h
      <3>1. CASE op[k] # "idle"
        BY <1>1, <3>1, OthersAreNotAlone
      <3>2. CASE op[k] = "idle"
        <4>1. Load(k)
          BY <2>1, <3>2
          DEF Step, CheckClub, InsertAccount, CommitBind, CheckRename, CommitRename,
              CommitReject, CommitConfirm, Rollback
        <4>2. \A j \in Handlers \ {k} : op'[j] = op[j]
          BY <1>1, <4>1
          DEF IInv, TypeOK, Load, LoadForBind, LoadForAdd, LoadForRename, LoadForReview, Begin
        <4>3. QED
          BY <4>2
      <3>3. QED
        BY <3>1, <3>2
    <2>3. ~Load(h)
      BY DEF Load, LoadForBind, LoadForAdd, LoadForRename, LoadForReview, Begin
    <2>4. CASE Undo(h)
      BY <1>1, <2>4, FailMakesNoClash
    <2>5. CASE ~Undo(h)
      <3>1. Step(h)
        BY <2>1, <2>2, <2>3, <2>5 DEF Rollback
      <3>2. ASSUME NEW c \in Clubs, CheckClub(h, c) PROVE FALSE
        BY <2>5, <3>2 DEF CheckClub, Fail, request
      <3>3. ~InsertAccount(h)
        BY <2>5 DEF InsertAccount, Fail, request
      <3>4. ~CheckRename(h) /\ ~CommitReject(h) /\ ~CommitConfirm(h)
        BY DEF CheckRename, CommitReject, CommitConfirm
      <3>5. CommitBind(h) \/ CommitRename(h)
        BY <3>1, <3>2, <3>3, <3>4 DEF Step
      <3>6. QED
        BY <1>1, <3>5, BindMakesNoClash, RenameMakesNoClash
    <2>6. QED
      BY <2>4, <2>5
  <1>2. ASSUME IInv, SInv, UNCHANGED vars PROVE [A]_vars
    BY <1>2
  <1>3. IInv /\ SInv /\ [Next]_vars => [A]_vars
    BY <1>1, <1>2
  <1>4. QED
    BY <1>3, AloneInvariance, PTL DEF Spec, AloneNeverClashes

-----------------------------------------------------------------------------
(* A request for several clubs is stored for all of them or for none.       *)

\* The player has the game ID of the request in the club: a row that is stored,
\* or one the request has inserted.
Covered(h, c) ==
  \E a \in Accounts : /\ status[a] # "absent" /\ writer[a] \in {None, h}
                      /\ row[a] = [player |-> who[h], club |-> c, id |-> goal[h]]

\* A binding leaves no club behind it uncovered, and passes over covered ones only.
LeavesNoGap ==
  \A h \in Handlers : alone[h] /\ op[h] = "bind" =>
    \A c \in (asked[h] \ todo[h]) \cup mine[h] : Covered(h, c)

\* What is covered stays so while the rows that exist are left as they are.
LEMMA CoveredStays ==
  ASSUME NEW h \in Handlers, NEW c, Covered(h, c),
         UNCHANGED <<who, goal>>,
         \A a \in Accounts : status[a] # "absent" =>
           /\ row'[a] = row[a] /\ status'[a] = status[a] /\ writer'[a] = writer[a]
  PROVE  Covered(h, c)'
  <1>1. PICK a \in Accounts :
          /\ status[a] # "absent" /\ writer[a] \in {None, h}
          /\ row[a] = [player |-> who[h], club |-> c, id |-> goal[h]]
    BY DEF Covered
  <1>2. QED
    BY <1>1 DEF Covered

LEMMA LoadLeavesNoGap ==
  ASSUME IInv, SInv, NEW h \in Handlers, Load(h)
  PROVE  LeavesNoGap'
  <1>1. \A k \in Handlers : alone'[k] => k = h
    BY DEF Load, LoadForBind, LoadForAdd, LoadForRename, LoadForReview, Begin
  <1>2. ASSUME NEW p \in Players, NEW i \in Ids, NEW cs \in SUBSET Clubs,
               LoadForBind(h, p, i, cs)
        PROVE  LeavesNoGap'
    <2> DEFINE own == {c \in cs : \E a \in Visible(h) :
                                    row[a] = [player |-> p, club |-> c, id |-> i]}
    <2>1. /\ who'[h] = p /\ goal'[h] = i
          /\ asked'[h] = cs /\ todo'[h] = cs /\ mine'[h] = own
          /\ UNCHANGED <<row, status, writer>>
      BY <1>2 DEF LoadForBind, Begin, IInv, TypeOK, table
    <2>2. ASSUME NEW c \in own PROVE Covered(h, c)'
      <3>1. PICK a \in Visible(h) : row[a] = [player |-> p, club |-> c, id |-> i]
        BY <2>2
      <3>2. a \in Accounts /\ status[a] # "absent" /\ writer[a] \in {None, h}
        BY DEF Visible
      <3>3. QED
        BY <2>1, <3>1, <3>2 DEF Covered
    <2> HIDE DEF own
    <2>3. QED
      BY <1>1, <2>1, <2>2 DEF LeavesNoGap
  <1>3. ASSUME NEW p \in Players, NEW i \in Ids, NEW c \in Clubs, LoadForAdd(h, p, i, c)
        PROVE  LeavesNoGap'
    <2>1. asked'[h] = {c} /\ todo'[h] = {c} /\ mine'[h] = {}
      BY <1>3 DEF LoadForAdd, Begin, IInv, TypeOK
    <2>2. QED
      BY <1>1, <2>1 DEF LeavesNoGap
  <1>4. ASSUME NEW a \in Accounts, NEW i \in Ids, LoadForRename(h, a, i)
        PROVE  LeavesNoGap'
    <2>1. op'[h] = "rename"
      BY <1>4 DEF LoadForRename, Begin, IInv, TypeOK
    <2>2. QED
      BY <1>1, <2>1 DEF LeavesNoGap
  <1>5. ASSUME NEW a \in Accounts, NEW verdict \in {"confirm", "reject"},
               LoadForReview(h, a, verdict)
        PROVE  LeavesNoGap'
    <2>1. op'[h] = verdict
      BY <1>5 DEF LoadForReview, Begin, IInv, TypeOK
    <2>2. QED
      BY <1>1, <2>1 DEF LeavesNoGap
  <1>6. QED
    BY <1>2, <1>3, <1>4, <1>5 DEF Load

\* No request is alone once the only one has ended.
LEMMA EndLeavesNoGap ==
  ASSUME SInv, TypeOK, NEW h \in Handlers, op[h] # "idle", Release(h)
  PROVE  LeavesNoGap'
  <1>1. \A k \in Handlers : ~alone'[k]
    BY OthersAreNotAlone DEF Release, TypeOK
  <1>2. QED
    BY <1>1 DEF LeavesNoGap

LEMMA CheckClubLeavesNoGap ==
  ASSUME IInv, SInv, LeavesNoGap, NEW h \in Handlers, NEW c \in Clubs, CheckClub(h, c)
  PROVE  LeavesNoGap'
  <1>1. CASE Fail(h)
    BY <1>1, EndLeavesNoGap DEF Fail, CheckClub, IInv
  <1>2. CASE ~Fail(h)
    <2>1. /\ op[h] = "bind"
          /\ UNCHANGED <<row, status, writer, who, goal, asked, mine, alone, op>>
          /\ \/ todo'[h] = todo[h]
             \/ todo'[h] = todo[h] \ {c} /\ c \in mine[h]
      BY <1>2 DEF CheckClub, table, request, IInv, TypeOK
    <2>2. ASSUME NEW d \in (asked[h] \ todo'[h]) \cup mine[h], alone[h]
          PROVE  Covered(h, d)'
      <3>1. Covered(h, d)
        BY <2>1, <2>2 DEF LeavesNoGap
      <3>2. QED
        BY <2>1, <3>1 DEF Covered
    <2>3. QED
      BY <2>1, <2>2, OthersAreNotAlone DEF LeavesNoGap
  <1>3. QED
    BY <1>1, <1>2

LEMMA InsertLeavesNoGap ==
  ASSUME IInv, SInv, LeavesNoGap, NEW h \in Handlers, InsertAccount(h)
  PROVE  LeavesNoGap'
  <1>1. CASE Fail(h)
    BY <1>1, EndLeavesNoGap DEF Fail, InsertAccount, IInv
  <1>2. CASE ~Fail(h)
    <2>0. PICK c : c = checked[h]
      OBVIOUS
    <2> DEFINE new == [player |-> who[h], club |-> c, id |-> goal[h]]
    <2>1. PICK a \in Accounts :
            /\ status[a] = "absent"
            /\ row' = [row EXCEPT ![a] = new]
            /\ status' = [status EXCEPT ![a] = "confirmed"]
            /\ writer' = [writer EXCEPT ![a] = h]
            /\ todo' = [todo EXCEPT ![h] = @ \ {c}]
            /\ UNCHANGED <<who, goal, asked, mine, alone, op>>
      BY <1>2, <2>0 DEF InsertAccount, request
    <2>2. op[h] = "bind"
      BY DEF InsertAccount
    <2>3. /\ row'[a] = new /\ status'[a] = "confirmed" /\ writer'[a] = h
          /\ \A b \in Accounts \ {a} : /\ row'[b] = row[b] /\ status'[b] = status[b]
                                       /\ writer'[b] = writer[b]
          /\ todo'[h] = todo[h] \ {c}
      BY <2>1 DEF IInv, TypeOK
    <2>4. Covered(h, c)'
      BY <2>1, <2>3 DEF Covered
    <2> HIDE DEF new
    <2>5. ASSUME NEW d \in (asked[h] \ todo'[h]) \cup mine[h], d # c, alone[h]
          PROVE  Covered(h, d)'
      <3>1. Covered(h, d)
        BY <2>2, <2>3, <2>5 DEF LeavesNoGap
      <3>2. QED
        BY <2>1, <2>3, <3>1, CoveredStays
    <2>6. QED
      BY <2>1, <2>2, <2>4, <2>5, OthersAreNotAlone DEF LeavesNoGap
  <1>3. QED
    BY <1>1, <1>2

LEMMA GapInvariance == Spec => [](IInv /\ SInv /\ LeavesNoGap)
  <1>1. Init => LeavesNoGap
    BY DEF Init, LeavesNoGap
  <1>2. IInv /\ SInv /\ LeavesNoGap /\ [Next]_vars => LeavesNoGap'
    <2> SUFFICES ASSUME IInv, SInv, LeavesNoGap, [Next]_vars PROVE LeavesNoGap'
      OBVIOUS
    <2>1. ASSUME NEW h \in Handlers, CheckRename(h) PROVE LeavesNoGap'
      <3>1. op[h] = "rename"
        BY <2>1 DEF CheckRename
      <3>2. CASE Fail(h)
        BY <3>1, <3>2, EndLeavesNoGap DEF Fail, IInv
      <3>3. CASE ~Fail(h)
        <4>1. op'[h] = "renaming" /\ UNCHANGED alone
          BY <2>1, <3>3 DEF CheckRename, request, IInv, TypeOK
        <4>2. QED
          BY <3>1, <4>1, OthersAreNotAlone DEF LeavesNoGap
      <3>4. QED
        BY <3>2, <3>3
    <2>2. ASSUME NEW h \in Handlers,
                 CommitBind(h) \/ CommitRename(h) \/ CommitReject(h) \/ CommitConfirm(h)
          PROVE  LeavesNoGap'
      <3>1. op[h] # "idle" /\ Release(h)
        BY <2>2 DEF CommitBind, CommitRename, CommitReject, CommitConfirm, Fail
      <3>2. QED
        BY <3>1, EndLeavesNoGap DEF IInv
    <2>3. ASSUME NEW h \in Handlers, Rollback(h) PROVE LeavesNoGap'
      BY <2>3, EndLeavesNoGap DEF Rollback, IInv
    <2>4. CASE UNCHANGED vars
      BY <2>4 DEF vars, table, request, LeavesNoGap, Covered
    <2>5. QED
      BY <2>1, <2>2, <2>3, <2>4, LoadLeavesNoGap, CheckClubLeavesNoGap, InsertLeavesNoGap
      DEF Next, Step
  <1>3. QED
    BY <1>1, <1>2, AloneInvariance, PTL DEF Spec

\* When a binding that nothing overlapped has stored a row, every club of its
\* request has one: a failure half way leaves none of them, and the commit comes
\* after the last club, for any number of clubs, players and game IDs.
THEOREM AllOrNone == Spec => AllClubsOrNone
  <1> DEFINE A == \A h \in Handlers :
       /\ alone[h] /\ op[h] = "bind" /\ op'[h] = "idle"
       /\ \E a \in Accounts : writer[a] = h /\ status'[a] # "absent"
       => \A c \in asked[h] : \E a \in Accounts :
            /\ status'[a] # "absent" /\ writer'[a] = None
            /\ row'[a] = [player |-> who[h], club |-> c, id |-> goal[h]]
  <1>1. ASSUME IInv, SInv, LeavesNoGap, Next PROVE A
    <2> SUFFICES ASSUME NEW h \in Handlers, alone[h], op[h] = "bind", op'[h] = "idle",
                        NEW o \in Accounts, writer[o] = h, status'[o] # "absent",
                        NEW c \in asked[h]
                 PROVE  \E a \in Accounts :
                          /\ status'[a] # "absent" /\ writer'[a] = None
                          /\ row'[a] = [player |-> who[h], club |-> c, id |-> goal[h]]
      OBVIOUS
    <2>1. PICK k \in Handlers : Load(k) \/ Step(k) \/ Rollback(k)
      BY <1>1 DEF Next
    <2>2. k = h
      <3>1. CASE op[k] # "idle"
        BY <1>1, <3>1, OthersAreNotAlone
      <3>2. CASE op[k] = "idle"
        <4>1. Load(k)
          BY <2>1, <3>2
          DEF Step, CheckClub, InsertAccount, CommitBind, CheckRename, CommitRename,
              CommitReject, CommitConfirm, Rollback
        <4>2. \A j \in Handlers \ {k} : op'[j] = op[j]
          BY <1>1, <4>1
          DEF IInv, TypeOK, Load, LoadForBind, LoadForAdd, LoadForRename, LoadForReview, Begin
        <4>3. QED
          BY <4>2
      <3>3. QED
        BY <3>1, <3>2
    <2>3. ~Undo(h)
      BY DEF Undo
    <2>4. CommitBind(h)
      <3>1. ~Load(h)
        BY DEF Load, LoadForBind, LoadForAdd, LoadForRename, LoadForReview, Begin
      <3>2. Step(h)
        BY <2>1, <2>2, <2>3, <3>1 DEF Rollback
      <3>3. ASSUME NEW d \in Clubs, CheckClub(h, d) PROVE FALSE
        BY <2>3, <3>3 DEF CheckClub, Fail, request
      <3>4. ~InsertAccount(h)
        BY <2>3 DEF InsertAccount, Fail, request
      <3>5. QED
        BY <3>2, <3>3, <3>4 DEF Step, CheckRename, CommitRename, CommitReject, CommitConfirm
    <2>5. c \in asked[h] \ todo[h]
      BY <2>4 DEF CommitBind
    <2>6. PICK a \in Accounts :
            /\ status[a] # "absent" /\ writer[a] \in {None, h}
            /\ row[a] = [player |-> who[h], club |-> c, id |-> goal[h]]
      BY <1>1, <2>5 DEF LeavesNoGap, Covered
    <2>7. status'[a] # "absent" /\ writer'[a] = None /\ row'[a] = row[a]
      BY <1>1, <2>4, <2>6 DEF CommitBind, IInv, TypeOK
    <2>8. QED
      BY <2>6, <2>7
  <1>2. IInv /\ SInv /\ LeavesNoGap /\ [Next]_vars => [A]_vars
    BY <1>1
  <1>3. QED
    BY <1>2, GapInvariance, PTL DEF Spec, AllClubsOrNone
=============================================================================
