------------------------------ MODULE Threads ------------------------------
(***************************************************************************)
(* Dialogues of a player with the managers: services/threads.py.           *)
(*                                                                         *)
(* As in ChipRequests a handler loads a thread without locking its row and *)
(* commits later, writing the columns that differ from what it loaded.     *)
(* Messages are shown to a side when one of its handlers ends: opening and *)
(* writing both return the whole dialogue.  A handler takes its moment     *)
(* when it starts; no two handlers start at the same microsecond, so every *)
(* start advances the clock.  Time 0 stands for SQL NULL: the code         *)
(* compares an absent mark as the epoch.                                   *)
(***************************************************************************)
EXTENDS Integers, Sequences, FiniteSets

CONSTANTS
  Threads,        \* dialogues, present and future
  Handlers,       \* transactions that may be open at the same time
  ManagerCount,   \* editors and admins, who are pushed about messages
  Silence,        \* thread_autoclose_days, in ticks
  MaxTime,        \* bound: the clock stops here
  MaxMessages,    \* bound: messages of one thread
  MaxRollbacks    \* bound: failed transactions

VARIABLES
  thread,     \* threads
  messages,   \* thread_messages, in the order they are committed
  pushed,     \* notification_queue: pushes to managers about a thread
  shown,      \* how many messages a side has been shown (history)
  txn,        \* the transaction each handler has open
  overlap,    \* two transactions have been open at the same time (history)
  clock,
  rollbacks   \* transactions lost so far (bounds Rollback)

vars == <<thread, messages, pushed, shown, txn, overlap, clock, rollbacks>>

-----------------------------------------------------------------------------

Sides    == {"player", "manager"}
Other(s) == IF s = "player" THEN "manager" ELSE "player"
Status   == {"absent", "open", "answered", "closed"}
Ops      == {"create", "post", "read", "close", "autoclose"}
Time     == 0..MaxTime

\* A row of threads: per side the time of its last message and of its last reading.
Row == [status : Status, last : Time, said : [Sides -> Time], read : [Sides -> Time],
        closed : Time]
Never == [s \in Sides |-> 0]
NoRow == [status |-> "absent", last |-> 0, said |-> Never, read |-> Never, closed |-> 0]

Message == [by : Sides, at : Time]

\* What a handler remembers between its load and its commit.
Txn  == [op : Ops \cup {"idle"}, by : Sides, thread : Threads, snap : Row, moment : Time]
Idle == [op |-> "idle", by |-> "player", thread |-> CHOOSE t \in Threads : TRUE,
         snap |-> NoRow, moment |-> 0]

Init ==
  /\ thread = [t \in Threads |-> NoRow]
  /\ messages = [t \in Threads |-> <<>>]
  /\ pushed = [t \in Threads |-> 0]
  /\ shown = [t \in Threads |-> [s \in Sides |-> 0]]
  /\ txn = [h \in Handlers |-> Idle]
  /\ overlap = FALSE
  /\ clock = 0
  /\ rollbacks = 0

-----------------------------------------------------------------------------

\* The mark on a dialogue in the list of a side.
Unread(row, s) == row.said[Other(s)] > row.read[s]

\* The UPDATE of the unit of work: only the columns that differ from the snapshot.
Merge(db, old, new) ==
  LET col(d, o, n) == IF n # o THEN n ELSE d IN
  [status |-> col(db.status, old.status, new.status),
   last   |-> col(db.last, old.last, new.last),
   said   |-> [s \in Sides |-> col(db.said[s], old.said[s], new.said[s])],
   read   |-> [s \in Sides |-> col(db.read[s], old.read[s], new.read[s])],
   closed |-> col(db.closed, old.closed, new.closed)]

\* Mutant of Said: a player's message leaves the status alone.
SaidQuietly(row, s, moment) ==
  [row EXCEPT !.last = moment, !.said[s] = moment, !.read[s] = moment,
              !.status = IF s = "manager" THEN "answered" ELSE @]

\* _add_message: a message of a side moves its marks and the status.
Said(row, s, moment) ==
  [row EXCEPT !.last = moment, !.said[s] = moment, !.read[s] = moment,
              !.status = IF s = "manager" THEN "answered" ELSE "open",
              !.closed = IF s = "manager" THEN @ ELSE 0]

\* The row of the message itself; an empty one is refused before.
AddMessage(t, s, moment) ==
  messages' = [messages EXCEPT ![t] = Append(@, [by |-> s, at |-> moment])]

-----------------------------------------------------------------------------
(* Handlers load.                                                          *)

Begin(h, op, s, t) ==
  /\ txn[h].op = "idle"
  /\ clock < MaxTime
  /\ clock' = clock + 1
  /\ txn' = [txn EXCEPT ![h] =
       [op |-> op, by |-> s, thread |-> t, snap |-> thread[t], moment |-> clock']]
  /\ overlap' = (overlap \/ \E k \in Handlers \ {h} : txn[k].op # "idle")
  /\ UNCHANGED <<thread, messages, pushed, shown, rollbacks>>

\* A new dialogue; a dialogue about a chip request that has one goes on in it.
LoadForCreate(h, t) == thread[t].status = "absent" /\ Begin(h, "create", "player", t)
LoadForPost(h, s, t) ==
  /\ thread[t].status # "absent"
  /\ Len(messages[t]) < MaxMessages
  /\ Begin(h, "post", s, t)
LoadForRead(h, s, t)  == thread[t].status # "absent" /\ Begin(h, "read", s, t)
LoadForClose(h, t)    == thread[t].status # "absent" /\ Begin(h, "close", "manager", t)
LoadForHousekeeping(h) == Begin(h, "autoclose", "manager", Idle.thread)

-----------------------------------------------------------------------------
(* Handlers commit.                                                        *)

Done(h) == txn' = [txn EXCEPT ![h] = Idle] /\ UNCHANGED overlap

\* The dialogue a handler returns shows its side every message committed by then.
ShowAll(t, s) == shown' = [shown EXCEPT ![t][s] = Len(messages'[t])]

\* Managers are pushed about every message of a player; a reply goes to Telegram only.
Notify(t, s) ==
  pushed' = [pushed EXCEPT ![t] = IF s = "player" THEN @ + ManagerCount ELSE @]

\* The index on chip_request_id: a thread that exists by now is not made again.
CommitCreate(h) ==
  LET t == txn[h].thread
      new == [Said(NoRow, "player", txn[h].moment) EXCEPT !.status = "open"]
  IN /\ txn[h].op = "create"
     /\ thread[t].status = "absent"
     /\ thread' = [thread EXCEPT ![t] = new]
     /\ AddMessage(t, "player", txn[h].moment)
     /\ Notify(t, "player")
     /\ ShowAll(t, "player")
     /\ Done(h)
     /\ UNCHANGED <<clock, rollbacks>>

\* post_player_message and post_manager_message.
CommitPost(h) ==
  LET x == txn[h]
      t == x.thread
  IN /\ x.op = "post"
     /\ thread' = [thread EXCEPT ![t] = Merge(@, x.snap, Said(x.snap, x.by, x.moment))]
     /\ AddMessage(t, x.by, x.moment)
     /\ Notify(t, x.by)
     /\ ShowAll(t, x.by)
     /\ Done(h)
     /\ UNCHANGED <<clock, rollbacks>>

\* Opening a dialogue marks it read as of the moment the handler started.
CommitRead(h) ==
  LET x == txn[h]
      t == x.thread
  IN /\ x.op = "read"
     /\ thread' = [thread EXCEPT ![t].read[x.by] = x.moment]
     /\ UNCHANGED <<messages, pushed, clock, rollbacks>>
     /\ ShowAll(t, x.by)
     /\ Done(h)

\* close_thread is not a reading: no mark moves.
CommitClose(h) ==
  LET x == txn[h]
      t == x.thread
      new == IF x.snap.status = "closed" THEN x.snap
             ELSE [x.snap EXCEPT !.status = "closed", !.closed = x.moment]
  IN /\ x.op = "close"
     /\ thread' = [thread EXCEPT ![t] = Merge(@, x.snap, new)]
     /\ Done(h)
     /\ UNCHANGED <<messages, pushed, shown, clock, rollbacks>>

Silent(row, moment) == row.status \in {"open", "answered"} /\ row.last + Silence < moment

\* close_stale_threads: one UPDATE, decided on the rows as they are by then.
CommitAutoclose(h) ==
  /\ txn[h].op = "autoclose"
  /\ thread' = [t \in Threads |->
       IF Silent(thread[t], txn[h].moment)
       THEN [thread[t] EXCEPT !.status = "closed", !.closed = txn[h].moment]
       ELSE thread[t]]
  /\ Done(h)
  /\ UNCHANGED <<messages, pushed, shown, clock, rollbacks>>

\* A handler fails, or its client goes away: nothing of it is stored.
Rollback(h) ==
  /\ txn[h].op # "idle"
  /\ \/ rollbacks < MaxRollbacks
     \/ txn[h].op = "create" /\ thread[txn[h].thread].status # "absent"
  /\ rollbacks' = IF rollbacks < MaxRollbacks THEN rollbacks + 1 ELSE rollbacks
  /\ Done(h)
  /\ UNCHANGED <<thread, messages, pushed, shown, clock>>

-----------------------------------------------------------------------------

Load(h) ==
  \/ \E t \in Threads : LoadForCreate(h, t) \/ LoadForClose(h, t)
  \/ \E t \in Threads, s \in Sides : LoadForPost(h, s, t) \/ LoadForRead(h, s, t)
  \/ LoadForHousekeeping(h)

Commit(h) ==
  \/ CommitCreate(h) \/ CommitPost(h) \/ CommitRead(h) \/ CommitClose(h) \/ CommitAutoclose(h)

Next == \E h \in Handlers : Load(h) \/ Commit(h) \/ Rollback(h)

Spec == Init /\ [][Next]_vars

-----------------------------------------------------------------------------
(* Properties.                                                             *)

TypeOK ==
  /\ thread \in [Threads -> Row]
  /\ messages \in [Threads -> Seq(Message)]
  /\ pushed \in [Threads -> Nat]
  /\ shown \in [Threads -> [Sides -> Nat]]
  /\ txn \in [Handlers -> Txn]
  /\ overlap \in BOOLEAN
  /\ clock \in Time
  /\ rollbacks \in 0..MaxRollbacks

By(t, s) == {i \in 1..Len(messages[t]) : messages[t][i].by = s}
Unseen(t, s) == {i \in By(t, Other(s)) : i > shown[t][s]}

\* The counter of a side is exact while requests do not overlap: a dialogue is
\* unread for a side just when the other side wrote something it was not shown.
UnreadIsExact ==
  ~overlap => \A t \in Threads, s \in Sides : Unread(thread[t], s) <=> Unseen(t, s) # {}

\* A new message of the player opens the dialogue again, even a closed one.
Reopened(t) ==
  /\ Len(messages'[t]) > Len(messages[t])
  /\ messages'[t][Len(messages'[t])].by = "player"
  => thread'[t].status = "open"

\* The comment of _add_message, whatever overlaps.
PlayerReopens == [][\A t \in Threads : Reopened(t)]_vars

\* Every message of a player is stored together with a push to every manager,
\* whatever overlaps or fails.
EveryMessageIsPushed ==
  \A t \in Threads :
    pushed[t] = ManagerCount * Cardinality(By(t, "player"))

\* A dialogue that awaits an answer is not called answered, and the list is
\* ordered by the newest message: while requests do not overlap, the status and
\* the time of a dialogue tell who wrote last and when.
StatusTellsWhoWroteLast ==
  ~overlap =>
  \A t \in Threads : LET n == Len(messages[t]) IN
    /\ n > 0 => thread[t].last = messages[t][n].at
    /\ thread[t].status = "answered" => messages[t][n].by = "manager"
    /\ thread[t].status = "open" => messages[t][n].by = "player"

\* What the two sides see of a dialogue fits what was written in it: the marks,
\* the status and the pushes, each as far as it holds.
DialoguesAreExact == UnreadIsExact /\ StatusTellsWhoWroteLast /\ EveryMessageIsPushed
=============================================================================
