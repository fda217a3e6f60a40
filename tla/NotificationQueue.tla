------------------------- MODULE NotificationQueue -------------------------
(***************************************************************************)
(* The notification queue: the backend puts rows in it (services/          *)
(* push_notify.py, services/tournaments/reminders.py), players register    *)
(* devices and Telegram chats (services/push.py, services/telegram.py),    *)
(* and the worker sends what is due (worker/jobs/notifications.py).        *)
(*                                                                         *)
(* One pass of the worker is one transaction for a whole batch: it locks   *)
(* the due rows, sends them one after another and commits at the end.      *)
(* What was sent cannot be taken back, so a pass that is lost (a crash,    *)
(* or a failing flush) sends its batch again.  The ORM flushes its changes *)
(* before each query; a flushed row stays locked until the commit.         *)
(* A transaction of the backend is one step, taken when no row it writes   *)
(* is locked by the worker: otherwise PostgreSQL makes it wait.            *)
(***************************************************************************)
EXTENDS Integers, FiniteSets

CONSTANTS
  Users,
  Devices,       \* push endpoints of browsers
  Chats,         \* Telegram chats
  Notices,       \* rows of notification_queue, present and future
  UserOf,        \* the user each row is for
  ChannelOf,     \* "push" or "telegram"
  Bells,         \* the rows that belong to a tournament reminder
  BatchSize,     \* notification_batch_size
  None,          \* SQL NULL
  MaxTime,       \* bound: the clock stops here
  MaxLosses      \* bound: batches and answers lost

MaxAttempts == 3

ASSUME NoticesAssumption == /\ UserOf \in [Notices -> Users]
                            /\ ChannelOf \in [Notices -> {"push", "telegram"}]
                            /\ Bells \subseteq Notices
ASSUME TargetsAssumption == /\ Devices \cap Chats = {}
                            /\ None \notin Users \cup Devices \cup Chats \cup Notices
ASSUME NaturalsAssumption == /\ BatchSize \in Nat \ {0}
                             /\ MaxTime \in Nat
                             /\ MaxLosses \in Nat

VARIABLES
  queue,      \* notification_queue as committed
  owner,      \* push_subscriptions: the user an endpoint belongs to
  chat,       \* telegram_links: the chat of a user
  claimed,    \* the worker's batch: rows it holds FOR UPDATE
  todo,       \* rows of the batch not yet begun
  row,        \* the row being sent
  session,    \* the rows of the batch as the worker's session has them
  sending,    \* devices or chats the row is still to be sent to
  got,        \* outcomes of the row so far
  mark,       \* what the session has done to a subscription
  unlink,     \* what the session has done to a Telegram link
  stale,      \* subscriptions the session holds whose row is deleted meanwhile
  received,   \* how often a row reached a device or a chat (history)
  clock,
  losses      \* batches rolled back and answers that never came (history, and bound)

stored == <<queue, owner, chat>>
batch  == <<claimed, todo, row, session, sending, got, mark, unlink, stale>>
vars   == <<stored, batch, received, clock, losses>>

-----------------------------------------------------------------------------

Statuses == {"absent", "pending", "sent", "failed", "withdrawn"}
Row      == [status : Statuses, attempts : 0..MaxAttempts, at : Nat]
Outcomes == {"success", "gone", "retryable", "fatal"}
\* What a call to a push service or to Telegram may end with: a status, told
\* apart as the two clients do, or no answer in time; refused: any other status,
\* and a client without keys.
Answers  == {"ok", "no_chat", "unauthorized", "forbidden", "not_there", "slow", "busy",
             "broken", "refused", "silence"}
\* A subscription in the unit of work: last_success_at set or the row deleted,
\* first in memory, then flushed.
Marks    == {"none", "touch", "drop", "touched", "dropped"}

Init ==
  /\ queue = [n \in Notices |-> [status |-> "absent", attempts |-> 0, at |-> 0]]
  /\ owner \in [Devices -> Users \cup {None}]
  /\ chat \in [Users -> {None}]
  /\ claimed = {} /\ todo = {} /\ row = None /\ session = queue
  /\ sending = {} /\ got = {}
  /\ mark = [d \in Devices |-> "none"]
  /\ unlink = [u \in Users |-> "none"]
  /\ stale = {}
  /\ received = [n \in Notices |-> [x \in Devices \cup Chats |-> 0]]
  /\ clock = 0
  /\ losses = 0

-----------------------------------------------------------------------------
(* The backend.                                                            *)

Channels(u, push) ==
  (IF push THEN {"push"} ELSE {}) \cup (IF chat[u] # None THEN {"telegram"} ELSE {})

\* New rows for the channels of a user, one for each.
Fresh(u, push, rows) ==
  /\ \A n \in rows : UserOf[n] = u /\ queue[n].status = "absent"
  /\ \A n, m \in rows : ChannelOf[n] = ChannelOf[m] => n = m
  /\ {ChannelOf[n] : n \in rows} = Channels(u, push)
  /\ rows # {}

Placed(at) == [status |-> "pending", attempts |-> 0, at |-> at]

\* A message of the bot, or a push too: what happened to a user's requests, or the
\* test notification he sends himself.
Enqueue(u, push) ==
  \E rows \in SUBSET (Notices \ Bells) :
    /\ Fresh(u, push, rows)
    /\ queue' = [n \in Notices |-> IF n \in rows THEN Placed(clock) ELSE queue[n]]
    /\ UNCHANGED <<owner, chat, batch, received, clock, losses>>

\* The rows of a user's reminder that are in the table.
BellRows(u) == {n \in Bells : UserOf[n] = u /\ queue[n].status \notin {"absent", "withdrawn"}}

SetBell(u, at) ==
  /\ BellRows(u) = {}
  /\ at >= clock
  /\ \E rows \in SUBSET Bells :
       /\ Fresh(u, TRUE, rows)
       /\ queue' = [n \in Notices |-> IF n \in rows THEN Placed(at) ELSE queue[n]]
  /\ UNCHANGED <<owner, chat, batch, received, clock, losses>>

\* Mutant of ClearBell: the rows are deleted whether or not the worker holds them.
ClearBellUnlocked(u) ==
  /\ BellRows(u) # {}
  /\ queue' = [n \in Notices |->
                 IF n \in BellRows(u) THEN [queue[n] EXCEPT !.status = "withdrawn"] ELSE queue[n]]
  /\ UNCHANGED <<owner, chat, batch, received, clock, losses>>

\* Removing a reminder deletes its rows by cascade, sent ones too; the delete
\* waits for rows the worker holds.
ClearBell(u) ==
  /\ BellRows(u) # {}
  /\ BellRows(u) \cap claimed = {}
  /\ queue' = [n \in Notices |->
                 IF n \in BellRows(u) THEN [queue[n] EXCEPT !.status = "withdrawn"] ELSE queue[n]]
  /\ UNCHANGED <<owner, chat, batch, received, clock, losses>>

\* A tournament moved: its pending reminders are scheduled anew.
Reschedule(at) ==
  LET moved == {n \in Bells : queue[n].status = "pending"} IN
  /\ \E n \in moved : queue[n].at # at
  /\ moved \cap claimed = {}
  /\ queue' = [n \in Notices |-> IF n \in moved THEN [queue[n] EXCEPT !.at = at] ELSE queue[n]]
  /\ UNCHANGED <<owner, chat, batch, received, clock, losses>>

LockedDevices == {d \in Devices : mark[d] \in {"touched", "dropped"}}
LockedLinks   == {u \in Users : unlink[u] = "dropped"}

Subscribe(u, d) ==
  /\ owner[d] # u
  /\ d \notin LockedDevices
  /\ owner' = [owner EXCEPT ![d] = u]
  /\ UNCHANGED <<queue, chat, batch, received, clock, losses>>

\* Subscriptions the worker's session has loaded for the row it is sending, or
\* changed without flushing.
Held == sending \cup {d \in Devices : mark[d] \in {"touch", "drop"}}

Unsubscribe(d) ==
  /\ owner[d] # None
  /\ d \notin LockedDevices
  /\ d \in Held => losses < MaxLosses
  /\ owner' = [owner EXCEPT ![d] = None]
  /\ stale' = IF d \in Held THEN stale \cup {d} ELSE stale
  /\ UNCHANGED <<queue, chat, claimed, todo, row, session, sending, got, mark, unlink,
                 received, clock, losses>>

\* /start in the bot: a chat belongs to one user, so its previous one loses it.
Link(u, c) ==
  /\ chat[u] # c
  /\ u \notin LockedLinks
  /\ \A v \in Users : chat[v] = c => v \notin LockedLinks
  /\ chat' = [v \in Users |-> IF v = u THEN c ELSE IF chat[v] = c THEN None ELSE chat[v]]
  /\ UNCHANGED <<queue, owner, batch, received, clock, losses>>

Unlink(u) ==
  /\ chat[u] # None
  /\ u \notin LockedLinks
  /\ chat' = [chat EXCEPT ![u] = None]
  /\ UNCHANGED <<queue, owner, batch, received, clock, losses>>

-----------------------------------------------------------------------------
(* The worker.                                                             *)

Due(n) == queue[n].status = "pending" /\ queue[n].at <= clock

\* SELECT ... WHERE due ORDER BY scheduled_at LIMIT batch_size FOR UPDATE.
Claim ==
  LET due == {n \in Notices : Due(n)} IN
  /\ claimed = {}
  /\ \E rows \in SUBSET due :
       /\ rows # {}
       /\ Cardinality(rows) <= BatchSize
       /\ rows # due => Cardinality(rows) = BatchSize
       /\ \A n \in rows, m \in due \ rows : queue[n].at <= queue[m].at
       /\ claimed' = rows
       /\ todo' = rows
  /\ session' = queue
  /\ UNCHANGED <<stored, row, sending, got, mark, unlink, stale, received,
                 clock, losses>>

\* The flush: an UPDATE of a subscription whose row is gone raises; a DELETE does not.
FlushOk == \A d \in stale : mark[d] # "touch"
Flushed == [d \in Devices |->
              CASE mark[d] = "touch" -> "touched"
                [] mark[d] = "drop"  -> IF d \in stale THEN "none" ELSE "dropped"
                [] OTHER             -> mark[d]]
FlushedLinks == [u \in Users |->
                   IF unlink[u] # "drop" THEN unlink[u]
                   ELSE IF chat[u] = None THEN "none" ELSE "dropped"]

\* Where a row goes: every device of its user, or the user's chat.
Targets(n) ==
  LET u == UserOf[n] IN
  IF ChannelOf[n] = "push"
  THEN {d \in Devices : owner[d] = u /\ Flushed[d] # "dropped"}
  ELSE {chat[u]} \ (IF FlushedLinks[u] = "dropped" THEN {chat[u]} ELSE {None})

\* Mutant of Settled: one failing device keeps the row pending although another
\* got it.
SettledRetry(r, outcomes) ==
  IF outcomes = {"success"} THEN [r EXCEPT !.status = "sent"]
  ELSE [r EXCEPT !.status = IF r.attempts < MaxAttempts - 1 THEN "pending" ELSE "failed",
                 !.attempts = IF @ < MaxAttempts THEN @ + 1 ELSE @]

\* Mutant of Settled: attempts are counted but never end.
SettledForever(r, outcomes) ==
  [r EXCEPT !.status = IF "success" \in outcomes THEN "sent"
                       ELSE IF "retryable" \in outcomes THEN "pending" ELSE "failed"]

\* The row after its devices have answered; no outcome at all: nobody to send to.
Settled(r, outcomes) ==
  LET attempts == IF r.attempts < MaxAttempts THEN r.attempts + 1 ELSE r.attempts
      again == /\ "retryable" \in outcomes
               /\ "fatal" \notin outcomes
               /\ attempts < MaxAttempts
  IN IF "success" \in outcomes
     THEN [r EXCEPT !.status = "sent"]
     ELSE [r EXCEPT !.status = IF again THEN "pending" ELSE "failed", !.attempts = attempts]

\* The next row of the batch, after the flush its queries cause.
BeginRow ==
  /\ row = None
  /\ FlushOk
  /\ \E n \in todo :
       /\ \A m \in todo : queue[n].at <= queue[m].at
       /\ row' = n
       /\ todo' = todo \ {n}
       /\ sending' = Targets(n)
  /\ mark' = Flushed
  /\ unlink' = FlushedLinks
  /\ stale' = {}
  /\ UNCHANGED <<stored, claimed, session, got, received, clock, losses>>

Marked(m, o) ==
  CASE o = "success" -> IF m = "touched" THEN "touched" ELSE "touch"
    [] o = "gone"    -> IF m = "touched" THEN "dropped" ELSE "drop"
    [] OTHER         -> m

\* 404 and 410 end a subscription; 401 and 403 are about the keys of the server.
PushOutcome(a) ==
  CASE a = "ok"                                   -> "success"
    [] a = "not_there"                            -> "gone"
    [] a \in {"slow", "busy", "broken", "silence"} -> "retryable"
    [] OTHER                                      -> "fatal"

\* 403 is a user who blocked the bot, 400 may be a chat that is no more.
TelegramOutcome(a) ==
  CASE a = "ok"                             -> "success"
    [] a \in {"forbidden", "no_chat"}       -> "gone"
    [] a \in {"busy", "broken", "silence"}  -> "retryable"
    [] OTHER                                -> "fatal"

OutcomeOf(x, a) == IF x \in Devices THEN PushOutcome(a) ELSE TelegramOutcome(a)

\* A call that timed out or broke off on the way back may have delivered.
MayHaveReached == {"broken", "silence"}

\* One HTTP call to a push service or to Telegram, with its answer; reached:
\* the message got to the device or the chat.
Send(x, a, reached) ==
  LET o == OutcomeOf(x, a) IN
  /\ x \in sending
  /\ IF a = "ok" THEN reached ELSE reached => a \in MayHaveReached /\ losses < MaxLosses
  /\ sending' = sending \ {x}
  /\ got' = got \cup {o}
  /\ received' = IF reached THEN [received EXCEPT ![row][x] = @ + 1] ELSE received
  /\ losses' = IF reached /\ a # "ok" THEN losses + 1 ELSE losses
  /\ IF x \in Devices
     THEN /\ mark' = [mark EXCEPT ![x] = Marked(@, o)]
          /\ UNCHANGED unlink
     ELSE /\ unlink' = IF o = "gone" THEN [unlink EXCEPT ![UserOf[row]] = "drop"] ELSE unlink
          /\ UNCHANGED mark
  /\ UNCHANGED <<stored, claimed, todo, row, session, stale, clock>>

EndRow ==
  /\ row # None
  /\ sending = {}
  /\ session' = [session EXCEPT ![row] = Settled(@, got)]
  /\ row' = None
  /\ got' = {}
  /\ UNCHANGED <<stored, claimed, todo, sending, mark, unlink, stale, received,
                 clock, losses>>

\* The session is closed and the row locks are released.
EndBatch ==
  /\ claimed' = {} /\ todo' = {} /\ row' = None /\ session' = queue'
  /\ sending' = {} /\ got' = {}
  /\ mark' = [d \in Devices |-> "none"]
  /\ unlink' = [u \in Users |-> "none"]
  /\ stale' = {}
  /\ UNCHANGED <<received, clock>>

\* Mutant of Commit: the batch is marked sent before it is sent.
CommitEarly ==
  /\ claimed # {} /\ row = None
  /\ queue' = [n \in Notices |-> IF n \in claimed THEN [queue[n] EXCEPT !.status = "sent"]
                                 ELSE queue[n]]
  /\ UNCHANGED <<owner, chat, losses>>
  /\ EndBatch

Commit ==
  /\ claimed # {} /\ todo = {} /\ row = None
  /\ FlushOk
  /\ queue' = [n \in Notices |-> IF n \in claimed THEN session[n] ELSE queue[n]]
  /\ owner' = [d \in Devices |-> IF Flushed[d] = "dropped" THEN None ELSE owner[d]]
  /\ chat' = [u \in Users |-> IF FlushedLinks[u] = "dropped" THEN None ELSE chat[u]]
  /\ UNCHANGED losses
  /\ EndBatch

\* A flush raised StaleDataError: session_scope rolls the whole batch back.
FlushFails ==
  /\ claimed # {} /\ row = None
  /\ ~FlushOk
  /\ losses' = losses + 1
  /\ UNCHANGED stored
  /\ EndBatch

\* The process is stopped or loses the database in the middle of a batch.
Crash ==
  /\ claimed # {}
  /\ losses < MaxLosses
  /\ losses' = losses + 1
  /\ UNCHANGED stored
  /\ EndBatch

Tick ==
  /\ clock < MaxTime
  /\ clock' = clock + 1
  /\ UNCHANGED <<stored, batch, received, losses>>

-----------------------------------------------------------------------------

Backend ==
  \/ \E u \in Users, push \in BOOLEAN : Enqueue(u, push)
  \/ \E u \in Users, at \in 0..MaxTime : SetBell(u, at)
  \/ \E u \in Users : ClearBell(u)
  \/ \E at \in 0..MaxTime : Reschedule(at)
  \/ \E u \in Users, d \in Devices : Subscribe(u, d)
  \/ \E d \in Devices : Unsubscribe(d)
  \/ \E u \in Users, c \in Chats : Link(u, c)
  \/ \E u \in Users : Unlink(u)

Worker ==
  \/ Claim
  \/ BeginRow
  \/ \E x \in sending, a \in Answers, reached \in BOOLEAN : Send(x, a, reached)
  \/ EndRow
  \/ Commit
  \/ FlushFails

Next == Backend \/ Worker \/ Crash \/ Tick

Spec == Init /\ [][Next]_vars

\* APScheduler runs the job again and again, and every call has a timeout; time
\* passes.  Nothing is assumed of players, answers or failures.
FairSpec == Spec /\ WF_vars(Worker) /\ WF_vars(Tick)

-----------------------------------------------------------------------------
(* Properties.                                                             *)

TypeOK ==
  /\ queue \in [Notices -> Row]
  /\ owner \in [Devices -> Users \cup {None}]
  /\ chat \in [Users -> Chats \cup {None}]
  /\ claimed \in SUBSET Notices
  /\ todo \in SUBSET claimed
  /\ row \in claimed \cup {None}
  /\ session \in [Notices -> Row]
  /\ sending \in SUBSET (Devices \cup Chats)
  /\ got \in SUBSET Outcomes
  /\ mark \in [Devices -> Marks]
  /\ unlink \in [Users -> {"none", "drop", "dropped"}]
  /\ stale \in SUBSET Devices
  /\ received \in [Notices -> [Devices \cup Chats -> Nat]]
  /\ clock \in Nat
  /\ losses \in Nat

\* A notification shown as sent in the history did reach a device or a chat
\* (_process_one marks a row SENT only when a device accepted it).
SentWasReceived ==
  \A n \in Notices : queue[n].status = "sent" => \E x \in Devices \cup Chats : received[n][x] > 0

\* A device or chat gets a notification a second time only because a batch was
\* lost after it was sent or the answer to the call was: retries of what failed
\* elsewhere never repeat it.
DuplicatesNeedLoss ==
  \A n \in Notices, x \in Devices \cup Chats : received[n][x] <= losses + 1

\* While the worker holds a row nobody changes it: the cascade of a removed
\* reminder and the rescheduling of a moved tournament wait for the batch.
ClaimHolds ==
  /\ \A n \in claimed : queue[n].status = "pending"
  /\ \A n \in todo \cup ({row} \ {None}) : session[n] = queue[n]

\* A removed reminder, a sent row and a given-up row send nothing: whoever is
\* sent something has a pending row for it.
OnlyPendingIsSent ==
  [][\A n \in Notices : received'[n] # received[n] => queue[n].status = "pending"]_vars

\* The promise of at-least-once delivery.
Promise == INSTANCE DeliveryPromise
             WITH status <- [n \in Notices |-> queue[n].status],
                  reached <- {n \in Notices : \E x \in Devices \cup Chats : received[n][x] > 0}
ImplementsPromise == Promise!Spec

\* Under the fairness of the worker's schedule every row that is queued is
\* sooner or later sent, given up or withdrawn: retries end.
PendingSettles ==
  \A n \in Notices : queue[n].status = "pending" ~> queue[n].status # "pending"
=============================================================================
