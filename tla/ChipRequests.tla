---------------------------- MODULE ChipRequests ----------------------------
(***************************************************************************)
(* Chip requests: services/chips.py of the backend, with the attachments   *)
(* that hold payment screenshots (services/attachments.py).                *)
(*                                                                         *)
(* Every HTTP request and every pass of the housekeeping loop is one       *)
(* database transaction run by a handler.  PostgreSQL runs them at READ    *)
(* COMMITTED and nearly all of them read a request without locking its     *)
(* row, so a handler works in two steps: it loads a snapshot and decides   *)
(* on it, and later it commits, writing only the columns whose value       *)
(* differs from the snapshot (SQLAlchemy's unit of work).  Anything may    *)
(* commit in between.  Cancelling is the one operation that holds the row  *)
(* lock from its load to its commit.                                       *)
(***************************************************************************)
EXTENDS Integers, Sequences, FiniteSets

CONSTANTS
  Players,        \* players of the club
  Requests,       \* identifiers of chip requests
  PlayerOf,       \* the player each request belongs to
  Attachments,    \* identifiers of uploaded screenshots
  Handlers,       \* transactions that may be open at the same time
  ManagerCount,   \* editors and admins, who are pushed about requests
  PayTimeout,     \* chip_payment_timeout_minutes, in ticks
  Retention,      \* screenshot_retention_days, in ticks
  None,           \* SQL NULL
  MaxTime,        \* bound: the clock stops here
  MaxEvents,      \* bound: journal entries of one request
  MaxRollbacks    \* bound: failed transactions and process restarts

ASSUME PlayersAssumption   == PlayerOf \in [Requests -> Players]
ASSUME ManagersAssumption  == ManagerCount \in Nat
ASSUME DurationsAssumption == PayTimeout \in Nat \ {0} /\ Retention \in Nat \ {0}
ASSUME NoneAssumption      == None \notin Nat /\ None \notin Attachments
ASSUME BoundsAssumption    == MaxTime \in Nat /\ MaxEvents \in Nat /\ MaxRollbacks \in Nat

VARIABLES
  player,      \* players: kind, and whether the account is active
  request,     \* chip_requests
  events,      \* chip_request_events, in the order they are committed
  outbox,      \* notification_queue: pushes queued for a request, by type
  attachment,  \* attachments: whether the row exists, and delete_after
  files,       \* files in the upload directory
  txn,         \* the transaction each handler has open
  clock,
  rollbacks    \* transactions lost so far (bounds Rollback and Restart)

vars == <<player, request, events, outbox, attachment, files, txn, clock, rollbacks>>

-----------------------------------------------------------------------------

Final       == {"completed", "rejected", "expired", "cancelled"}
Cancellable == {"sent", "accepted", "awaiting_payment"}
Status      == {"sent", "accepted", "awaiting_payment", "paid"} \cup Final
Kinds       == {"topup", "withdrawal"}
PlayerKinds == {"credit", "deposit"}
PushTypes   == {"new_chip_request", "requisites_ready", "chips_issued", "withdrawal_sent",
                "request_rejected", "chip_request_cancelled"}
Ops         == {"create", "accept", "send_requisites", "complete", "reject",
                "cancel", "attach", "expire", "housekeeping"}

\* A row of chip_requests; a request that was not created yet is NoRow.
Row == [status : Status \cup {"absent"}, kind : Kinds,
        deadline : Nat \cup {None}, screenshot : Attachments \cup {None}]
NoRow == [status |-> "absent", kind |-> "topup", deadline |-> None, screenshot |-> None]

\* A row of attachments; storage keys are fresh, so a deleted one never returns.
AttachmentRow == [row : {"unused", "stored", "deleted"}, deleteAfter : Nat \cup {None}]

Event == [from : Status \cup {None}, to : Status]

\* What a handler remembers between its load and its commit.
Txn  == [op : Ops \cup {"idle"}, reqs : SUBSET Requests, snap : [Requests -> Row],
         moment : Nat,
         file : Attachments \cup {None}, purge : SUBSET Attachments, step : {"loaded", "ready"}]
Idle == [op |-> "idle", reqs |-> {}, snap |-> [r \in Requests |-> NoRow],
         moment |-> 0, file |-> None, purge |-> {}, step |-> "loaded"]

Init ==
  /\ player \in [Players -> [kind : PlayerKinds, active : {TRUE}]]
  /\ request = [r \in Requests |-> NoRow]
  /\ events = [r \in Requests |-> <<>>]
  /\ outbox = [r \in Requests |-> [t \in PushTypes |-> 0]]
  /\ attachment = [a \in Attachments |-> [row |-> "unused", deleteAfter |-> None]]
  /\ files = {}
  /\ txn = [h \in Handlers |-> Idle]
  /\ clock = 0
  /\ rollbacks = 0

-----------------------------------------------------------------------------
(* Helpers of the services and of the database.                            *)

\* Mutant of Overdue: the comparison turned round.
OverdueReversed(row, moment) ==
  row.status = "awaiting_payment" /\ row.deadline # None /\ moment < row.deadline

Overdue(row, moment) ==
  /\ row.status = "awaiting_payment"
  /\ row.deadline # None
  /\ row.deadline < moment

\* Mutant of Locked: cancel_request reads its row without FOR UPDATE.
LockedNever(r, h) == FALSE

\* The row lock taken by SELECT ... FOR UPDATE in cancel_request.
Locked(r, h) == \E g \in Handlers \ {h} : txn[g].op = "cancel" /\ r \in txn[g].reqs

\* The UPDATE of the unit of work: only the columns that differ from the snapshot.
Merge(db, old, new) ==
  [status     |-> IF new.status # old.status THEN new.status ELSE db.status,
   kind       |-> db.kind,
   deadline   |-> IF new.deadline # old.deadline THEN new.deadline ELSE db.deadline,
   screenshot |-> IF new.screenshot # old.screenshot THEN new.screenshot ELSE db.screenshot]

Transition(from, to) == [from |-> from, to |-> to]

\* Mutant of Push: a push that is already queued is not queued again.
PushOnce(r, type, count) == [outbox EXCEPT ![r][type] = count]

Push(r, type, count) == [outbox EXCEPT ![r][type] = @ + count]

\* Mutant of Scheduled: the deletion of the screenshot is forgotten.
ScheduledNever(a, moment) == attachment

\* _schedule_screenshot_deletion; the row of a is read when the handler commits.
Scheduled(a, moment) ==
  IF a # None /\ attachment[a].row = "stored"
  THEN [attachment EXCEPT ![a].deleteAfter = moment + Retention]
  ELSE attachment

\* Mutant of ExpiredAttachments: no delete_after counts as one that has passed.
ExpiredAttachmentsNullable(moment) ==
  {a \in Attachments : /\ attachment[a].row = "stored"
                       /\ attachment[a].deleteAfter = None \/ attachment[a].deleteAfter < moment}

ExpiredAttachments(moment) ==
  {a \in Attachments : /\ attachment[a].row = "stored"
                       /\ attachment[a].deleteAfter # None
                       /\ attachment[a].deleteAfter < moment}

-----------------------------------------------------------------------------
(* The checks each operation makes on the rows it has loaded.  A failed    *)
(* check raises, the transaction is rolled back and nothing is stored,     *)
(* not even an expiry noticed on the way.                                  *)

Open(row, moment) == row.status \in Status \ Final /\ ~Overdue(row, moment)

CreateAllowed(p, kind) ==
  /\ player[p].active
  /\ kind = "withdrawal" => player[p].kind = "deposit"

AcceptAllowed(row, playerKind) ==
  /\ row.status = "sent"
  /\ ~(row.kind = "topup" /\ playerKind = "deposit")

SendRequisitesAllowed(row) ==
  /\ row.kind = "topup"
  /\ row.status \in {"sent", "accepted"}

CompleteAllowed(row, playerKind, moment) ==
  /\ Open(row, moment)
  /\ row.kind = "topup" /\ playerKind = "deposit" => row.status \in {"awaiting_payment", "paid"}

RejectAllowed(row, moment) == Open(row, moment)

\* Mutant of CancelAllowed: a paid request is not told apart.
CancelAllowedPaid(row, moment) ==
  /\ ~Overdue(row, moment)
  /\ row.status \in Cancellable \cup {"paid"}

CancelAllowed(row, moment) ==
  /\ ~Overdue(row, moment)
  /\ row.status \in Cancellable

AttachAllowed(row, moment) ==
  /\ ~Overdue(row, moment)
  /\ row.status = "awaiting_payment"

-----------------------------------------------------------------------------
(* First step: load, decide.                                               *)

Snapshot(S) == [r \in Requests |-> IF r \in S THEN request[r] ELSE NoRow]

Begin(h, op, S) ==
  /\ txn[h] = Idle
  /\ txn' = [txn EXCEPT ![h] = [Idle EXCEPT !.op = op, !.reqs = S, !.snap = Snapshot(S),
                                            !.moment = clock]]
  /\ UNCHANGED <<player, request, events, outbox, attachment, files, clock, rollbacks>>

\* A user's operation on one request; MaxEvents bounds how many there are.
BeginOn(h, op, r) == Len(events[r]) < MaxEvents /\ Begin(h, op, {r})

LoadForCreate(h, r) ==
  /\ request[r] = NoRow
  /\ \A g \in Handlers : ~(txn[g].op = "create" /\ r \in txn[g].reqs)
  /\ \E k \in Kinds :
       /\ CreateAllowed(PlayerOf[r], k)
       /\ txn[h] = Idle
       /\ txn' = [txn EXCEPT ![h] = [Idle EXCEPT !.op = "create", !.reqs = {r}, !.moment = clock,
                                       !.snap = [Idle.snap EXCEPT ![r].kind = k]]]
  /\ UNCHANGED <<player, request, events, outbox, attachment, files, clock, rollbacks>>

LoadForAccept(h, r) ==
  /\ AcceptAllowed(request[r], player[PlayerOf[r]].kind)
  /\ BeginOn(h, "accept", r)

LoadForRequisites(h, r) ==
  /\ SendRequisitesAllowed(request[r])
  /\ clock + PayTimeout < MaxTime
  /\ BeginOn(h, "send_requisites", r)

LoadForComplete(h, r) ==
  /\ CompleteAllowed(request[r], player[PlayerOf[r]].kind, clock)
  /\ BeginOn(h, "complete", r)

LoadForReject(h, r) ==
  /\ RejectAllowed(request[r], clock)
  /\ BeginOn(h, "reject", r)

\* SELECT ... FOR UPDATE first: waits for the holder, then reads the newest row.
LoadForCancel(h, r) ==
  /\ ~Locked(r, h)
  /\ CancelAllowed(request[r], clock)
  /\ BeginOn(h, "cancel", r)

\* The storage key is a fresh uuid: no file, row or upload has it.
LoadForAttach(h, r) ==
  /\ AttachAllowed(request[r], clock)
  /\ Len(events[r]) < MaxEvents
  /\ txn[h] = Idle
  /\ \E a \in Attachments \ files :
       /\ attachment[a].row = "unused"
       /\ \A g \in Handlers : txn[g].file # a
       /\ txn' = [txn EXCEPT ![h] = [Idle EXCEPT !.op = "attach", !.reqs = {r}, !.file = a,
                                       !.snap = Snapshot({r}), !.moment = clock]]
  /\ UNCHANGED <<player, request, events, outbox, attachment, files, clock, rollbacks>>

\* Reading endpoints expire what they show: one request, one player's list,
\* or the managers' queue.
LoadForRead(h) ==
  LET overdue == {r \in Requests : Overdue(request[r], clock)}
      views   == {{r} : r \in Requests} \cup {{r \in Requests : PlayerOf[r] = p} : p \in Players}
                 \cup {Requests}
  IN \E V \in views :
       /\ V \cap overdue # {}
       /\ Begin(h, "expire", V \cap overdue)

\* The loop runs one pass at a time.
LoadForHousekeeping(h) ==
  LET overdue == {r \in Requests : Overdue(request[r], clock)}
  IN /\ \A g \in Handlers : txn[g].op # "housekeeping"
     /\ overdue # {} \/ ExpiredAttachments(clock) # {}
     /\ Begin(h, "housekeeping", overdue)

-----------------------------------------------------------------------------
(* Steps that touch the disk before the transaction commits.               *)

\* save_image: the file is written first.
SaveFile(h) ==
  /\ txn[h].op = "attach" /\ txn[h].step = "loaded"
  /\ files' = files \cup {txn[h].file}
  /\ txn' = [txn EXCEPT ![h].step = "ready"]
  /\ UNCHANGED <<player, request, events, outbox, attachment, clock, rollbacks>>

\* purge_expired: the files of the expired attachments are unlinked first.
PurgeFiles(h) ==
  /\ txn[h].op = "housekeeping" /\ txn[h].step = "loaded"
  /\ files' = files \ ExpiredAttachments(clock)
  /\ txn' = [txn EXCEPT ![h].purge = ExpiredAttachments(clock), ![h].step = "ready"]
  /\ UNCHANGED <<player, request, events, outbox, attachment, clock, rollbacks>>

-----------------------------------------------------------------------------
(* Second step: flush and commit.  The row, its journal entry and the      *)
(* pushes are written by one transaction.                                  *)

\* The UPDATE waits for the row lock of a cancellation.
Flush(h, op) ==
  /\ txn[h].op = op
  /\ \A r \in txn[h].reqs : ~Locked(r, h)
  /\ txn' = [txn EXCEPT ![h] = Idle]
  /\ UNCHANGED <<player, clock, rollbacks>>

Append1(r, from, to) == events' = [events EXCEPT ![r] = Append(@, Transition(from, to))]

CommitCreate(h) ==
  \E r \in txn[h].reqs :
    /\ Flush(h, "create")
    /\ request' = [request EXCEPT ![r] = [txn[h].snap[r] EXCEPT !.status = "sent"]]
    /\ Append1(r, None, "sent")
    /\ outbox' = Push(r, "new_chip_request", ManagerCount)
    /\ UNCHANGED <<attachment, files>>

CommitAccept(h) ==
  \E r \in txn[h].reqs : LET old == txn[h].snap[r] IN
    /\ Flush(h, "accept")
    /\ request' = [request EXCEPT ![r] = Merge(@, old, [old EXCEPT !.status = "accepted"])]
    /\ Append1(r, old.status, "accepted")
    /\ UNCHANGED <<outbox, attachment, files>>

\* The new deadline differs from any old one: both are in microseconds.
CommitRequisites(h) ==
  \E r \in txn[h].reqs, seen \in BOOLEAN : LET old == txn[h].snap[r] IN
    /\ Flush(h, "send_requisites")
    /\ request' = [request EXCEPT ![r] =
                     [Merge(@, old, [old EXCEPT !.status = "awaiting_payment"])
                        EXCEPT !.deadline = txn[h].moment + PayTimeout]]
    /\ Append1(r, old.status, "awaiting_payment")
    /\ outbox' = IF seen THEN outbox ELSE Push(r, "requisites_ready", 1)
    /\ UNCHANGED <<attachment, files>>

CommitComplete(h) ==
  \E r \in txn[h].reqs, seen \in BOOLEAN : LET old == txn[h].snap[r] IN
    /\ Flush(h, "complete")
    /\ request' = [request EXCEPT ![r] =
                     Merge(@, old, [old EXCEPT !.status = "completed", !.deadline = None])]
    /\ Append1(r, old.status, "completed")
    /\ attachment' = Scheduled(old.screenshot, txn[h].moment)
    /\ outbox' = IF seen THEN outbox
                 ELSE Push(r, IF old.kind = "withdrawal" THEN "withdrawal_sent" ELSE "chips_issued", 1)
    /\ UNCHANGED files

CommitReject(h) ==
  \E r \in txn[h].reqs, seen \in BOOLEAN : LET old == txn[h].snap[r] IN
    /\ Flush(h, "reject")
    /\ request' = [request EXCEPT ![r] =
                     Merge(@, old, [old EXCEPT !.status = "rejected", !.deadline = None])]
    /\ Append1(r, old.status, "rejected")
    /\ attachment' = Scheduled(old.screenshot, txn[h].moment)
    /\ outbox' = IF seen THEN outbox ELSE Push(r, "request_rejected", 1)
    /\ UNCHANGED files

\* The attachment row is inserted together with the request's change.
CommitAttach(h) ==
  \E r \in txn[h].reqs : LET old == txn[h].snap[r]
                             a   == txn[h].file IN
    /\ txn[h].step = "ready"
    /\ Flush(h, "attach")
    /\ request' = [request EXCEPT ![r] =
                     Merge(@, old, [old EXCEPT !.status = "paid", !.deadline = None,
                                               !.screenshot = a])]
    /\ Append1(r, old.status, "paid")
    /\ attachment' = [attachment EXCEPT ![a].row = "stored"]
    /\ UNCHANGED <<outbox, files>>

CommitCancel(h) ==
  \E r \in txn[h].reqs : LET old == txn[h].snap[r] IN
    /\ Flush(h, "cancel")
    /\ request' = [request EXCEPT ![r] =
                     Merge(@, old, [old EXCEPT !.status = "cancelled", !.deadline = None])]
    /\ Append1(r, old.status, "cancelled")
    /\ outbox' = Push(r, "chip_request_cancelled", ManagerCount)
    /\ UNCHANGED <<attachment, files>>

Expired(h) ==
  [r \in Requests |->
     IF r \in txn[h].reqs
     THEN Merge(request[r], txn[h].snap[r],
                [txn[h].snap[r] EXCEPT !.status = "expired", !.deadline = None])
     ELSE request[r]]

\* Mutant of AppendExpired: an expiry is not written to the journal.
AppendExpiredSilent(h) == UNCHANGED events

AppendExpired(h) ==
  events' = [r \in Requests |->
               IF r \in txn[h].reqs
               THEN Append(events[r], Transition(txn[h].snap[r].status, "expired"))
               ELSE events[r]]

CommitRead(h) ==
  /\ Flush(h, "expire")
  /\ request' = Expired(h)
  /\ AppendExpired(h)
  /\ UNCHANGED <<outbox, attachment, files>>

\* expire_overdue, then purge_expired, in one transaction; deleting an
\* attachment sets the screenshot_id that refers to it to NULL.
CommitHousekeeping(h) ==
  LET gone == txn[h].purge
      refs == {r \in Requests : Expired(h)[r].screenshot \in gone}
  IN /\ txn[h].step = "ready"
     /\ Flush(h, "housekeeping")
     /\ \A r \in refs : ~Locked(r, h)
     /\ request' = [r \in Requests |-> IF r \in refs THEN [Expired(h)[r] EXCEPT !.screenshot = None]
                                       ELSE Expired(h)[r]]
     /\ AppendExpired(h)
     /\ attachment' = [a \in Attachments |->
                         IF a \in gone THEN [attachment[a] EXCEPT !.row = "deleted"]
                         ELSE attachment[a]]
     /\ UNCHANGED <<outbox, files>>

-----------------------------------------------------------------------------
(* Failures, the manager's changes to a player, time.                      *)

\* get_db rolls a failed transaction back; a file already written stays.
Rollback(h) ==
  /\ txn[h] # Idle /\ rollbacks < MaxRollbacks
  /\ txn' = [txn EXCEPT ![h] = Idle]
  /\ rollbacks' = rollbacks + 1
  /\ UNCHANGED <<player, request, events, outbox, attachment, files, clock>>

\* The process stops: every open transaction is lost at once.
Restart ==
  /\ \E h \in Handlers : txn[h] # Idle
  /\ rollbacks < MaxRollbacks
  /\ txn' = [h \in Handlers |-> Idle]
  /\ rollbacks' = rollbacks + 1
  /\ UNCHANGED <<player, request, events, outbox, attachment, files, clock>>

UpdatePlayer(p) ==
  /\ \E new \in [kind : PlayerKinds, active : BOOLEAN] :
       player' = [player EXCEPT ![p] = new]
  /\ UNCHANGED <<request, events, outbox, attachment, files, txn, clock, rollbacks>>

Tick ==
  /\ clock < MaxTime
  /\ clock' = clock + 1
  /\ UNCHANGED <<player, request, events, outbox, attachment, files, txn, rollbacks>>

Load(h) ==
  \/ \E r \in Requests :
       \/ LoadForCreate(h, r)
       \/ LoadForAccept(h, r)
       \/ LoadForRequisites(h, r)
       \/ LoadForComplete(h, r)
       \/ LoadForReject(h, r)
       \/ LoadForCancel(h, r)
       \/ LoadForAttach(h, r)
  \/ LoadForRead(h)
  \/ LoadForHousekeeping(h)

Commit(h) ==
  \/ CommitCreate(h)
  \/ CommitAccept(h)
  \/ CommitRequisites(h)
  \/ CommitComplete(h)
  \/ CommitReject(h)
  \/ CommitCancel(h)
  \/ CommitAttach(h)
  \/ CommitRead(h)
  \/ CommitHousekeeping(h)

Next ==
  \/ \E h \in Handlers : Load(h) \/ SaveFile(h) \/ PurgeFiles(h) \/ Commit(h) \/ Rollback(h)
  \/ Restart
  \/ \E p \in Players : UpdatePlayer(p)
  \/ Tick

Spec == Init /\ [][Next]_vars

\* A transaction that was started goes on, the loop wakes up every minute, and
\* time passes.  Nobody is obliged to act on a request.
Fairness ==
  /\ WF_vars(Tick)
  /\ \A h \in Handlers : WF_vars(SaveFile(h) \/ PurgeFiles(h) \/ Commit(h))
  /\ WF_vars(\E h \in Handlers : LoadForHousekeeping(h))

FairSpec == Spec /\ Fairness

-----------------------------------------------------------------------------
(* Properties.                                                             *)

TypeOK ==
  /\ player \in [Players -> [kind : PlayerKinds, active : BOOLEAN]]
  /\ request \in [Requests -> Row]
  /\ events \in [Requests -> Seq(Event)]
  /\ outbox \in [Requests -> [PushTypes -> Nat]]
  /\ attachment \in [Attachments -> AttachmentRow]
  /\ files \in SUBSET Attachments
  /\ txn \in [Handlers -> Txn]
  /\ clock \in Nat
  /\ rollbacks \in Nat

\* The statuses an operation decides on, and the one it leads to.
DecidedOn(op) ==
  CASE op = "create"                                     -> {"absent"}
    [] op = "accept"                                     -> {"sent"}
    [] op = "send_requisites"                            -> {"sent", "accepted"}
    [] op \in {"complete", "reject"}                     -> Status \ Final
    [] op = "cancel"                                     -> Cancellable
    [] op \in {"attach", "expire", "housekeeping"}       -> {"awaiting_payment"}
    [] OTHER                                             -> {}

LeadsTo(op) ==
  CASE op = "create"                      -> "sent"
    [] op = "accept"                      -> "accepted"
    [] op = "send_requisites"             -> "awaiting_payment"
    [] op = "complete"                    -> "completed"
    [] op = "reject"                      -> "rejected"
    [] op = "cancel"                      -> "cancelled"
    [] op = "attach"                      -> "paid"
    [] op \in {"expire", "housekeeping"}  -> "expired"

\* Until it commits, a handler acts on a request whose status allowed the
\* operation when it was loaded: no check is skipped on any path.
DecisionWasAllowed ==
  \A h \in Handlers : \A r \in txn[h].reqs :
    txn[h].snap[r].status \in DecidedOn(txn[h].op)

\* While a cancellation is open its request stays as it was read under the lock.
LockedRowIsFresh ==
  \A h \in Handlers :
    txn[h].op = "cancel" => \A r \in txn[h].reqs : request[r] = txn[h].snap[r]

\* Cancelling takes the row lock, so it replaces a status the player may still
\* cancel from, never a payment, an issue or a refusal that got there first.
CancelNeverOverwrites ==
  [][\A r \in Requests :
       request'[r].status = "cancelled" /\ request[r].status # "cancelled"
         => request[r].status \in Cancellable]_vars

\* A paid request has its screenshot, the file is on disk and nothing has
\* scheduled it for deletion, whatever ran at the same time; a screenshot that was
\* deleted is gone from the disk as well.
PaidKeepsScreenshot ==
  /\ \A r \in Requests : request[r].status = "paid" =>
       /\ request[r].screenshot # None
       /\ request[r].screenshot \in files
       /\ attachment[request[r].screenshot] = [row |-> "stored", deleteAfter |-> None]
  /\ \A a \in Attachments : attachment[a].row = "deleted" => a \notin files

Count(r, S) == Cardinality({i \in 1..Len(events[r]) : events[r][i].to \in S})

\* Transactional outbox: every manager is told of every creation and every
\* cancellation that was committed and of no other, and a player gets at most
\* one push for each outcome in the journal.
OutboxMatchesJournal ==
  \A r \in Requests :
    /\ outbox[r]["new_chip_request"] = ManagerCount * Count(r, {"sent"})
    /\ outbox[r]["chip_request_cancelled"] = ManagerCount * Count(r, {"cancelled"})
    /\ outbox[r]["requisites_ready"] <= Count(r, {"awaiting_payment"})
    /\ outbox[r]["chips_issued"] + outbox[r]["withdrawal_sent"] <= Count(r, {"completed"})
    /\ outbox[r]["request_rejected"] <= Count(r, {"rejected"})

\* The status of a request is what the entry committed last says.
JournalEndsInStatus ==
  \A r \in Requests : request[r].status # "absent" =>
    /\ events[r] # <<>>
    /\ events[r][Len(events[r])].to = request[r].status

\* A request that waits for payment always has a deadline to expire by.
AwaitingHasDeadline ==
  \A r \in Requests : request[r].status = "awaiting_payment" => request[r].deadline # None

\* No request waits for payment for ever.
AwaitingEnds ==
  \A r \in Requests :
    request[r].status = "awaiting_payment" ~> request[r].status # "awaiting_payment"

-----------------------------------------------------------------------------
(* What the code's comments say and overlapping transactions break; the    *)
(* same statements hold when no two transactions overlap.                  *)

\* cancel_request: managers are told "so that nobody sends chips on a
\* cancelled request".
CancelledGetsNoChips ==
  [][\A r \in Requests :
       request[r].status = "cancelled" => request'[r].status # "completed"]_vars

\* attach_screenshot: "the screenshot stops the timer".
PaidNeverExpires ==
  [][\A r \in Requests :
       request[r].status = "paid" => request'[r].status # "expired"]_vars

\* Attachment: "delete_after is 90 days after the request is closed".
ClosedScreenshotIsScheduled ==
  \A r \in Requests :
    request[r].status \in {"completed", "rejected"} /\ request[r].screenshot # None
      => attachment[request[r].screenshot].deleteAfter # None

\* With one handler at a time the program implements the life cycle.
Lifecycle == INSTANCE ChipLifecycle WITH
  status <- [r \in Requests |-> request[r].status],
  kind   <- [r \in Requests |-> request[r].kind]

ImplementsLifecycle == Lifecycle!Spec

=============================================================================
