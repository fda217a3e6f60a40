------------------------- MODULE ChipRequestsProofs -------------------------
(***************************************************************************)
(* Theorems of ChipRequests, for any number of players, requests,          *)
(* screenshots and overlapping transactions.                               *)
(***************************************************************************)
EXTENDS ChipRequests, FiniteSetTheorems, TLAPS

USE NoneAssumption, DurationsAssumption, ManagersAssumption

-----------------------------------------------------------------------------
(* Lemmas about the helpers.                                               *)

LEMMA NoRowType == NoRow \in Row
  BY DEF NoRow, Row, Kinds

LEMMA IdleType == Idle \in Txn
  BY NoRowType DEF Idle, Txn, Ops

\* The unit of work never builds anything but a row.
LEMMA MergeType ==
  ASSUME NEW db \in Row, NEW old \in Row, NEW new \in Row
  PROVE  Merge(db, old, new) \in Row
  BY DEF Merge, Row

\* A status that differs from the one in the snapshot is always written.
LEMMA MergeStatus ==
  ASSUME NEW db \in Row, NEW old \in Row, NEW new \in Row, new.status # old.status
  PROVE  Merge(db, old, new).status = new.status
  BY DEF Merge, Row

LEMMA SnapshotType ==
  ASSUME TypeOK, NEW S \in SUBSET Requests
  PROVE  Snapshot(S) \in [Requests -> Row]
  BY NoRowType DEF Snapshot, TypeOK

LEMMA ScheduledType ==
  ASSUME TypeOK, NEW a \in Attachments \cup {None}, NEW m \in Nat
  PROVE  Scheduled(a, m) \in [Attachments -> AttachmentRow]
  <1>1. m + Retention \in Nat
    OBVIOUS
  <1>2. CASE a # None /\ attachment[a].row = "stored"
    BY <1>1, <1>2 DEF Scheduled, TypeOK, AttachmentRow
  <1>3. CASE ~(a # None /\ attachment[a].row = "stored")
    BY <1>3 DEF Scheduled, TypeOK
  <1>4. QED
    BY <1>2, <1>3

LEMMA PushTyped ==
  ASSUME TypeOK, NEW r \in Requests, NEW t \in PushTypes, NEW n \in Nat
  PROVE  Push(r, t, n) \in [Requests -> [PushTypes -> Nat]]
  BY DEF Push, TypeOK

\* A push to the player, which is skipped while the player is in the app.
LEMMA PushMaybeTyped ==
  ASSUME TypeOK, NEW r \in Requests,
         outbox' = outbox \/ \E t \in PushTypes : outbox' = Push(r, t, 1)
  PROVE  outbox' \in [Requests -> [PushTypes -> Nat]]
  <1>1. CASE outbox' = outbox
    BY <1>1 DEF TypeOK
  <1>2. ASSUME NEW t \in PushTypes, outbox' = Push(r, t, 1)
        PROVE  outbox' \in [Requests -> [PushTypes -> Nat]]
    BY <1>2, PushTyped
  <1>3. QED
    BY <1>1, <1>2

LEMMA AppendType ==
  ASSUME TypeOK, NEW r \in Requests, NEW from \in Status \cup {None}, NEW to \in Status,
         Append1(r, from, to)
  PROVE  events' \in [Requests -> Seq(Event)]
  <1>1. Transition(from, to) \in Event
    BY DEF Transition, Event
  <1>2. Append(events[r], Transition(from, to)) \in Seq(Event)
    BY <1>1 DEF TypeOK
  <1>3. QED
    BY <1>2 DEF Append1, TypeOK

\* What a handler remembers is well typed.
LEMMA TxnType ==
  ASSUME TypeOK, NEW h \in Handlers, NEW r \in txn[h].reqs
  PROVE  /\ r \in Requests
         /\ txn[h].snap[r] \in Row
         /\ txn[h].snap[r].status \in Status \cup {"absent"}
         /\ txn[h].moment \in Nat
         /\ txn[h].file \in Attachments \cup {None}
         /\ request[r] \in Row
  BY DEF TypeOK, Txn, Row

\* The row a handler writes is a row.
LEMMA WriteType ==
  ASSUME TypeOK, NEW h \in Handlers, NEW r \in txn[h].reqs, NEW new \in Row
  PROVE  [request EXCEPT ![r] = Merge(@, txn[h].snap[r], new)] \in [Requests -> Row]
  <1>1. Merge(request[r], txn[h].snap[r], new) \in Row
    BY TxnType, MergeType
  <1>2. QED
    BY <1>1, TxnType DEF TypeOK

LEMMA ExpiredType ==
  ASSUME TypeOK, NEW h \in Handlers
  PROVE  Expired(h) \in [Requests -> Row]
  <1> SUFFICES ASSUME NEW r \in Requests
               PROVE  (IF r \in txn[h].reqs
                       THEN Merge(request[r], txn[h].snap[r],
                              [txn[h].snap[r] EXCEPT !.status = "expired", !.deadline = None])
                       ELSE request[r]) \in Row
    BY DEF Expired
  <1>1. CASE r \in txn[h].reqs
    <2>1. txn[h].snap[r] \in Row /\ request[r] \in Row
      BY <1>1, TxnType
    <2>2. [txn[h].snap[r] EXCEPT !.status = "expired", !.deadline = None] \in Row
      BY <2>1 DEF Row, Status, Final
    <2>3. QED
      BY <1>1, <2>1, <2>2, MergeType
  <1>2. CASE r \notin txn[h].reqs
    BY <1>2 DEF TypeOK
  <1>3. QED
    BY <1>1, <1>2

-----------------------------------------------------------------------------
(* The inductive invariant.  The properties alone are not inductive: that  *)
(* the journal is well typed and that a status is really written both need *)
(* the status the handler decided on, and the freshness of a locked row    *)
(* needs the lock.                                                         *)

\* An upload knows the file it writes.
UploadHasKey == \A h \in Handlers : txn[h].op = "attach" => txn[h].file \in Attachments

IInv ==
  /\ TypeOK
  /\ UploadHasKey
  /\ DecisionWasAllowed
  /\ LockedRowIsFresh
  /\ JournalEndsInStatus
  /\ AwaitingHasDeadline

\* What every commit of handler h comes to for the requests S it writes.
Writes(h, S, to) ==
  /\ S \in SUBSET txn[h].reqs
  /\ request' \in [Requests -> Row]
  /\ events' \in [Requests -> Seq(Event)]
  /\ \A r \in S :
       /\ request'[r].status = to
       /\ request'[r].status = "awaiting_payment" => request'[r].deadline # None
       /\ events'[r] # <<>> /\ events'[r][Len(events'[r])].to = to
  /\ \A r \in Requests \ S :
       /\ request'[r].status = request[r].status
       /\ request'[r].deadline = request[r].deadline
       /\ Locked(r, h) => request'[r] = request[r]
       /\ events'[r] = events[r]

LEMMA InitIInv == Init => IInv
  <1> SUFFICES ASSUME Init PROVE IInv
    OBVIOUS
  <1>1. TypeOK
    <2>1. player \in [Players -> [kind : PlayerKinds, active : BOOLEAN]]
      BY DEF Init
    <2>2. request \in [Requests -> Row] /\ txn \in [Handlers -> Txn]
      BY NoRowType, IdleType DEF Init
    <2>3. events \in [Requests -> Seq(Event)]
      BY DEF Init
    <2>4. /\ outbox \in [Requests -> [PushTypes -> Nat]]
          /\ attachment \in [Attachments -> AttachmentRow]
          /\ files \in SUBSET Attachments
          /\ clock \in Nat
          /\ rollbacks \in Nat
      BY DEF Init, AttachmentRow
    <2>5. QED
      BY <2>1, <2>2, <2>3, <2>4 DEF TypeOK
  <1>2. DecisionWasAllowed /\ LockedRowIsFresh /\ UploadHasKey
    BY DEF Init, DecisionWasAllowed, LockedRowIsFresh, UploadHasKey, Idle
  <1>3. JournalEndsInStatus /\ AwaitingHasDeadline
    BY DEF Init, JournalEndsInStatus, AwaitingHasDeadline, NoRow
  <1>4. QED
    BY <1>1, <1>2, <1>3 DEF IInv

\* Starting a transaction on requests whose status allows it.
LEMMA BeginKeepsIInv ==
  ASSUME IInv, NEW h \in Handlers, NEW t \in Txn, t.op \in Ops,
         txn' = [txn EXCEPT ![h] = t],
         \A r \in t.reqs : t.snap[r].status \in DecidedOn(t.op),
         t.op = "cancel" => \A r \in t.reqs : t.snap[r] = request[r],
         t.op = "attach" => t.file \in Attachments,
         UNCHANGED <<player, request, events, outbox, attachment, files, clock, rollbacks>>
  PROVE  IInv'
  <1>1. TypeOK'
    BY DEF IInv, TypeOK
  <1>2. DecisionWasAllowed' /\ LockedRowIsFresh' /\ UploadHasKey'
    BY DEF IInv, TypeOK, DecisionWasAllowed, LockedRowIsFresh, UploadHasKey
  <1>3. JournalEndsInStatus' /\ AwaitingHasDeadline'
    BY DEF IInv, JournalEndsInStatus, AwaitingHasDeadline
  <1>4. QED
    BY <1>1, <1>2, <1>3 DEF IInv

\* Committing.
LEMMA WritesKeepsIInv ==
  ASSUME IInv, NEW h \in Handlers, NEW S, NEW to \in Status, Writes(h, S, to), Flush(h, txn[h].op),
         outbox' \in [Requests -> [PushTypes -> Nat]],
         attachment' \in [Attachments -> AttachmentRow], files' \in SUBSET Attachments
  PROVE  IInv'
  <1>1. TypeOK'
    BY IdleType DEF IInv, TypeOK, Writes, Flush
  <1>2. DecisionWasAllowed' /\ UploadHasKey'
    BY DEF IInv, TypeOK, DecisionWasAllowed, UploadHasKey, Flush, Idle
  <1>3. LockedRowIsFresh'
    <2> SUFFICES ASSUME NEW g \in Handlers, txn'[g].op = "cancel", NEW r \in txn'[g].reqs
                 PROVE  request'[r] = txn'[g].snap[r]
      BY DEF LockedRowIsFresh
    <2>1. g # h /\ txn'[g] = txn[g]
      BY DEF Flush, Idle, IInv, TypeOK
    <2>2. Locked(r, h)
      BY <2>1 DEF Locked
    <2>3. r \notin S /\ r \in Requests
      BY <2>1, <2>2 DEF Flush, Writes, IInv, TypeOK, Txn
    <2>4. request'[r] = request[r]
      BY <2>2, <2>3 DEF Writes
    <2>5. request[r] = txn[g].snap[r]
      BY <2>1 DEF IInv, LockedRowIsFresh
    <2>6. QED
      BY <2>1, <2>4, <2>5
  <1>4. JournalEndsInStatus' /\ AwaitingHasDeadline'
    BY DEF IInv, JournalEndsInStatus, AwaitingHasDeadline, Writes
  <1>5. QED
    BY <1>1, <1>2, <1>3, <1>4 DEF IInv

-----------------------------------------------------------------------------
(* Every load starts a transaction its checks allow.                       *)

LEMMA BeginFacts ==
  ASSUME IInv, NEW h \in Handlers, NEW op \in Ops \ {"attach"}, NEW S \in SUBSET Requests,
         Begin(h, op, S), \A r \in S : request[r].status \in DecidedOn(op)
  PROVE  IInv'
  <1> DEFINE t == [Idle EXCEPT !.op = op, !.reqs = S, !.snap = Snapshot(S), !.moment = clock]
  <1>1. Snapshot(S) \in [Requests -> Row]
    BY SnapshotType DEF IInv
  <1>2. t \in Txn /\ t.op = op /\ t.reqs = S /\ t.snap = Snapshot(S)
    BY <1>1, IdleType DEF IInv, TypeOK, Txn, Idle
  <1>3. \A r \in S : t.snap[r] = request[r]
    BY <1>2 DEF Snapshot
  <1>4. txn' = [txn EXCEPT ![h] = t]
    BY DEF Begin
  <1> HIDE DEF t
  <1>5. QED
    BY <1>2, <1>3, <1>4, BeginKeepsIInv DEF Begin

LEMMA LoadKeepsIInv ==
  ASSUME IInv, NEW h \in Handlers, Load(h)
  PROVE  IInv'
  <1>1. ASSUME NEW r \in Requests, LoadForCreate(h, r) PROVE IInv'
    <2>1. PICK k \in Kinds :
            txn' = [txn EXCEPT ![h] = [Idle EXCEPT !.op = "create", !.reqs = {r}, !.moment = clock,
                                       !.snap = [Idle.snap EXCEPT ![r].kind = k]]]
      BY <1>1 DEF LoadForCreate
    <2> DEFINE s == [Idle.snap EXCEPT ![r].kind = k]
               t == [Idle EXCEPT !.op = "create", !.reqs = {r}, !.moment = clock, !.snap = s]
    <2>2. s \in [Requests -> Row] /\ s[r].status = "absent"
      BY NoRowType DEF Idle, Row, NoRow
    <2>3. t \in Txn /\ t.op = "create" /\ t.reqs = {r} /\ t.snap = s
      <3> HIDE DEF s
      <3>1. QED
        BY <2>2, IdleType DEF IInv, TypeOK, Txn, Idle, Ops
    <2>4. \A q \in t.reqs : t.snap[q].status \in DecidedOn(t.op)
      BY <2>2, <2>3 DEF DecidedOn
    <2>5. txn' = [txn EXCEPT ![h] = t]
      BY <2>1
    <2> HIDE DEF t
    <2>6. QED
      BY <1>1, <2>3, <2>4, <2>5, BeginKeepsIInv DEF LoadForCreate, Ops
  <1>2. ASSUME NEW r \in Requests, LoadForAccept(h, r) PROVE IInv'
    BY <1>2, BeginFacts DEF LoadForAccept, AcceptAllowed, BeginOn, Ops, DecidedOn
  <1>3. ASSUME NEW r \in Requests, LoadForRequisites(h, r) PROVE IInv'
    BY <1>3, BeginFacts DEF LoadForRequisites, SendRequisitesAllowed, BeginOn, Ops, DecidedOn
  <1>4. ASSUME NEW r \in Requests, LoadForComplete(h, r) PROVE IInv'
    BY <1>4, BeginFacts DEF LoadForComplete, CompleteAllowed, Open, BeginOn, Ops, DecidedOn
  <1>5. ASSUME NEW r \in Requests, LoadForReject(h, r) PROVE IInv'
    BY <1>5, BeginFacts DEF LoadForReject, RejectAllowed, Open, BeginOn, Ops, DecidedOn
  <1>6. ASSUME NEW r \in Requests, LoadForCancel(h, r) PROVE IInv'
    BY <1>6, BeginFacts DEF LoadForCancel, CancelAllowed, BeginOn, Ops, DecidedOn
  <1>7. ASSUME NEW r \in Requests, LoadForAttach(h, r) PROVE IInv'
    <2>1. PICK a \in Attachments :
            txn' = [txn EXCEPT ![h] = [Idle EXCEPT !.op = "attach", !.reqs = {r}, !.file = a,
                                       !.snap = Snapshot({r}), !.moment = clock]]
      BY <1>7 DEF LoadForAttach
    <2> DEFINE t == [Idle EXCEPT !.op = "attach", !.reqs = {r}, !.file = a,
                                 !.snap = Snapshot({r}), !.moment = clock]
    <2>2. Snapshot({r}) \in [Requests -> Row] /\ Snapshot({r})[r] = request[r]
      BY SnapshotType DEF IInv, Snapshot
    <2>3. t \in Txn /\ t.op = "attach" /\ t.reqs = {r} /\ t.snap = Snapshot({r}) /\ t.file = a
      BY <2>2, IdleType DEF IInv, TypeOK, Txn, Idle, Ops
    <2>4. \A q \in t.reqs : t.snap[q].status \in DecidedOn(t.op)
      BY <1>7, <2>2, <2>3 DEF DecidedOn, LoadForAttach, AttachAllowed
    <2>5. txn' = [txn EXCEPT ![h] = t]
      BY <2>1
    <2> HIDE DEF t
    <2>6. QED
      BY <1>7, <2>3, <2>4, <2>5, BeginKeepsIInv DEF LoadForAttach, Ops
  <1>8. CASE LoadForRead(h)
    BY <1>8, BeginFacts DEF LoadForRead, Overdue, Ops, DecidedOn
  <1>9. CASE LoadForHousekeeping(h)
    BY <1>9, BeginFacts DEF LoadForHousekeeping, Overdue, Ops, DecidedOn
  <1>10. QED
    BY <1>1, <1>2, <1>3, <1>4, <1>5, <1>6, <1>7, <1>8, <1>9 DEF Load

-----------------------------------------------------------------------------
(* Every commit writes the status its operation leads to.                  *)

\* Any row stored for r together with a journal entry that ends in its status.
LEMMA StoredWrites ==
  ASSUME IInv, NEW h \in Handlers, NEW r \in txn[h].reqs, NEW row \in Row, NEW to \in Status,
         NEW from \in Status \cup {None},
         row.status = to, to = "awaiting_payment" => row.deadline # None,
         request' = [request EXCEPT ![r] = row], Append1(r, from, to)
  PROVE  Writes(h, {r}, to)
  <1>1. r \in Requests /\ request \in [Requests -> Row] /\ events \in [Requests -> Seq(Event)]
    BY TxnType DEF IInv, TypeOK
  <1>2. request' \in [Requests -> Row] /\ request'[r] = row
    BY <1>1
  <1>3. \A q \in Requests \ {r} : request'[q] = request[q]
    BY <1>1
  <1>4. events' \in [Requests -> Seq(Event)]
    BY <1>1, AppendType DEF IInv
  <1>5. Transition(from, to) \in Event /\ Transition(from, to).to = to
    BY DEF Transition, Event
  <1>6. events'[r] = Append(events[r], Transition(from, to))
    BY <1>1 DEF Append1
  <1>7. events'[r] # <<>> /\ events'[r][Len(events'[r])].to = to
    <2>1. events[r] \in Seq(Event)
      BY <1>1
    <2> DEFINE e == Transition(from, to)
    <2>2. e \in Event /\ e.to = to /\ events'[r] = Append(events[r], e)
      BY <1>5, <1>6
    <2> HIDE DEF e
    <2>3. QED
      BY <2>1, <2>2
  <1>8. \A q \in Requests \ {r} : events'[q] = events[q]
    BY <1>1 DEF Append1
  <1>9. QED
    BY <1>2, <1>3, <1>4, <1>7, <1>8 DEF Writes

\* The common case: the merge of a new row whose status differs from the old.
LEMMA MergedWrites ==
  ASSUME IInv, NEW h \in Handlers, NEW r \in txn[h].reqs, NEW new \in Row, NEW to \in Status,
         new.status = to, to # "awaiting_payment",
         txn[h].snap[r].status \in Status \ {to},
         request' = [request EXCEPT ![r] = Merge(@, txn[h].snap[r], new)],
         Append1(r, txn[h].snap[r].status, to)
  PROVE  Writes(h, {r}, to)
  <1>1. r \in Requests /\ txn[h].snap[r] \in Row /\ request[r] \in Row
    BY TxnType DEF IInv
  <1> DEFINE row == Merge(request[r], txn[h].snap[r], new)
  <1>2. row \in Row
    BY <1>1, MergeType
  <1>3. row.status = to
    BY <1>1, MergeStatus
  <1>4. request' = [request EXCEPT ![r] = row]
    OBVIOUS
  <1> HIDE DEF row
  <1>5. QED
    BY <1>2, <1>3, <1>4, StoredWrites

\* A handler's step is taken from a status that allowed it.
LEMMA DecidedStatus ==
  ASSUME IInv, NEW h \in Handlers, NEW r \in txn[h].reqs
  PROVE  /\ txn[h].snap[r].status \in DecidedOn(txn[h].op)
         /\ txn[h].snap[r] \in Row
         /\ r \in Requests
         /\ txn[h].moment \in Nat
         /\ txn[h].file \in Attachments \cup {None}
         /\ request[r] \in Row
  BY TxnType DEF IInv, DecisionWasAllowed

\* All requests of a pass expire at once.
LEMMA ExpiredWrites ==
  ASSUME IInv, NEW h \in Handlers, txn[h].op \in {"expire", "housekeeping"},
         request' \in [Requests -> Row],
         \A r \in Requests : /\ request'[r].status = Expired(h)[r].status
                             /\ request'[r].deadline = Expired(h)[r].deadline
                             /\ Locked(r, h) => request'[r] = Expired(h)[r],
         AppendExpired(h)
  PROVE  Writes(h, txn[h].reqs, "expired")
  <1>1. txn[h].reqs \in SUBSET Requests
    BY DEF IInv, TypeOK, Txn
  <1>2. ASSUME NEW r \in txn[h].reqs
        PROVE  /\ Transition(txn[h].snap[r].status, "expired") \in Event
               /\ Transition(txn[h].snap[r].status, "expired").to = "expired"
               /\ Expired(h)[r].status = "expired"
    <2>1. txn[h].snap[r].status = "awaiting_payment"
      BY DecidedStatus DEF DecidedOn
    <2>2. txn[h].snap[r] \in Row /\ request[r] \in Row /\ r \in Requests
      BY DecidedStatus
    <2>3. [txn[h].snap[r] EXCEPT !.status = "expired", !.deadline = None] \in Row
      BY <2>2 DEF Row, Status, Final
    <2>4. [txn[h].snap[r] EXCEPT !.status = "expired", !.deadline = None].status = "expired"
      BY <2>2 DEF Row
    <2>5. Merge(request[r], txn[h].snap[r],
                [txn[h].snap[r] EXCEPT !.status = "expired", !.deadline = None]).status = "expired"
      BY <2>1, <2>2, <2>3, <2>4, MergeStatus
    <2>6. Expired(h)[r].status = "expired"
      BY <2>2, <2>5 DEF Expired
    <2>7. QED
      BY <2>1, <2>6 DEF Transition, Event, Status, Final
  <1>3. ASSUME NEW r \in Requests \ txn[h].reqs
        PROVE  Expired(h)[r] = request[r] /\ events'[r] = events[r]
    BY DEF Expired, AppendExpired
  <1>4. events' \in [Requests -> Seq(Event)]
    <2>1. ASSUME NEW r \in Requests
          PROVE  (IF r \in txn[h].reqs
                  THEN Append(events[r], Transition(txn[h].snap[r].status, "expired"))
                  ELSE events[r]) \in Seq(Event)
      BY <1>2 DEF IInv, TypeOK
    <2>2. QED
      BY <2>1 DEF AppendExpired
  <1>5. ASSUME NEW r \in txn[h].reqs
        PROVE  events'[r] # <<>> /\ events'[r][Len(events'[r])].to = "expired"
    <2>1. events'[r] = Append(events[r], Transition(txn[h].snap[r].status, "expired"))
      BY <1>1 DEF AppendExpired
    <2>2. events[r] \in Seq(Event)
      BY <1>1 DEF IInv, TypeOK
    <2>3. QED
      BY <1>2, <2>1, <2>2
  <1>6. QED
    BY <1>1, <1>2, <1>3, <1>4, <1>5 DEF Writes

\* One step per commit; each also says which operation it completes.
LEMMA CommitWrites ==
  ASSUME IInv, NEW h \in Handlers, Commit(h)
  PROVE  /\ \E S : Writes(h, S, LeadsTo(txn[h].op))
         /\ LeadsTo(txn[h].op) \in Status
         /\ txn[h].op \in Ops
         /\ Flush(h, txn[h].op)
         /\ outbox' \in [Requests -> [PushTypes -> Nat]]
         /\ attachment' \in [Attachments -> AttachmentRow]
         /\ files' \in SUBSET Attachments
  <1>1. CASE CommitCreate(h)
    <2>1. PICK r \in txn[h].reqs :
            /\ Flush(h, "create")
            /\ request' = [request EXCEPT ![r] = [txn[h].snap[r] EXCEPT !.status = "sent"]]
            /\ Append1(r, None, "sent")
            /\ outbox' = Push(r, "new_chip_request", ManagerCount)
            /\ UNCHANGED <<attachment, files>>
      BY <1>1 DEF CommitCreate
    <2> DEFINE row == [txn[h].snap[r] EXCEPT !.status = "sent"]
    <2>2. row \in Row /\ row.status = "sent" /\ r \in Requests
      BY DecidedStatus DEF Row, Status
    <2>3. request' = [request EXCEPT ![r] = row]
      BY <2>1
    <2> HIDE DEF row
    <2>4. Writes(h, {r}, "sent")
      BY <2>1, <2>2, <2>3, StoredWrites DEF Status
    <2>5. txn[h].op = "create" /\ LeadsTo("create") = "sent"
      BY <2>1 DEF Flush, LeadsTo
    <2>6. outbox' \in [Requests -> [PushTypes -> Nat]]
      BY <2>1, <2>2, PushTyped DEF PushTypes, IInv
    <2>7. QED
      BY <2>1, <2>4, <2>5, <2>6 DEF IInv, TypeOK, Ops, Status
  <1>2. CASE CommitAccept(h)
    <2>1. PICK r \in txn[h].reqs :
            /\ Flush(h, "accept")
            /\ request' = [request EXCEPT ![r] = Merge(@, txn[h].snap[r],
                             [txn[h].snap[r] EXCEPT !.status = "accepted"])]
            /\ Append1(r, txn[h].snap[r].status, "accepted")
            /\ UNCHANGED <<outbox, attachment, files>>
      BY <1>2 DEF CommitAccept
    <2>2. txn[h].op = "accept" /\ LeadsTo("accept") = "accepted"
      BY <2>1 DEF Flush, LeadsTo
    <2>3. txn[h].snap[r].status = "sent" /\ txn[h].snap[r] \in Row
      BY <2>2, DecidedStatus DEF DecidedOn
    <2> DEFINE new == [txn[h].snap[r] EXCEPT !.status = "accepted"]
    <2>4. new \in Row /\ new.status = "accepted"
      BY <2>3 DEF Row, Status
    <2>5. request' = [request EXCEPT ![r] = Merge(@, txn[h].snap[r], new)]
      BY <2>1
    <2> HIDE DEF new
    <2>6. Writes(h, {r}, "accepted")
      BY <2>1, <2>3, <2>4, <2>5, MergedWrites DEF Status
    <2>7. QED
      BY <2>1, <2>2, <2>6 DEF IInv, TypeOK, Ops, Status
  <1>3. CASE CommitRequisites(h)
    <2>1. PICK r \in txn[h].reqs :
            /\ Flush(h, "send_requisites")
            /\ request' = [request EXCEPT ![r] =
                  [Merge(@, txn[h].snap[r], [txn[h].snap[r] EXCEPT !.status = "awaiting_payment"])
                     EXCEPT !.deadline = txn[h].moment + PayTimeout]]
            /\ Append1(r, txn[h].snap[r].status, "awaiting_payment")
            /\ outbox' = outbox \/ outbox' = Push(r, "requisites_ready", 1)
            /\ UNCHANGED <<attachment, files>>
      BY <1>3 DEF CommitRequisites
    <2>2. txn[h].op = "send_requisites" /\ LeadsTo("send_requisites") = "awaiting_payment"
      BY <2>1 DEF Flush, LeadsTo
    <2>3. /\ txn[h].snap[r].status \in {"sent", "accepted"}
          /\ txn[h].snap[r] \in Row /\ request[r] \in Row /\ r \in Requests
          /\ txn[h].moment + PayTimeout \in Nat
      BY <2>2, DecidedStatus DEF DecidedOn
    <2> DEFINE new == [txn[h].snap[r] EXCEPT !.status = "awaiting_payment"]
               mid == Merge(request[r], txn[h].snap[r], new)
               row == [mid EXCEPT !.deadline = txn[h].moment + PayTimeout]
    <2>4. new \in Row /\ new.status = "awaiting_payment"
      BY <2>3 DEF Row, Status
    <2>5. mid \in Row /\ mid.status = "awaiting_payment"
      <3> HIDE DEF new
      <3>1. QED
        BY <2>3, <2>4, MergeType, MergeStatus
    <2>6. row \in Row /\ row.status = "awaiting_payment" /\ row.deadline # None
      <3> HIDE DEF mid
      <3>1. QED
        BY <2>3, <2>5 DEF Row
    <2>7. request' = [request EXCEPT ![r] = row]
      BY <2>1
    <2> HIDE DEF row
    <2>8. Writes(h, {r}, "awaiting_payment")
      BY <2>1, <2>3, <2>6, <2>7, StoredWrites DEF Status
    <2>9. outbox' \in [Requests -> [PushTypes -> Nat]]
      BY <2>1, <2>3, PushMaybeTyped DEF PushTypes, IInv
    <2>10. QED
      BY <2>1, <2>2, <2>8, <2>9 DEF IInv, TypeOK, Ops, Status
  <1>4. CASE CommitComplete(h)
    <2>1. PICK r \in txn[h].reqs :
            /\ Flush(h, "complete")
            /\ request' = [request EXCEPT ![r] = Merge(@, txn[h].snap[r],
                             [txn[h].snap[r] EXCEPT !.status = "completed", !.deadline = None])]
            /\ Append1(r, txn[h].snap[r].status, "completed")
            /\ attachment' = Scheduled(txn[h].snap[r].screenshot, txn[h].moment)
            /\ \/ UNCHANGED outbox
               \/ \E t \in PushTypes : outbox' = Push(r, t, 1)
            /\ UNCHANGED files
      BY <1>4 DEF CommitComplete, PushTypes
    <2>2. txn[h].op = "complete" /\ LeadsTo("complete") = "completed"
      BY <2>1 DEF Flush, LeadsTo
    <2>3. /\ txn[h].snap[r].status \in Status \ {"completed"}
          /\ txn[h].snap[r] \in Row /\ r \in Requests
          /\ txn[h].snap[r].screenshot \in Attachments \cup {None}
          /\ txn[h].moment \in Nat /\ txn[h].file \in Attachments \cup {None}
      BY <2>2, DecidedStatus DEF DecidedOn, Status, Final, Cancellable, Row
    <2> DEFINE new == [txn[h].snap[r] EXCEPT !.status = "completed", !.deadline = None]
    <2>4. new \in Row /\ new.status = "completed"
      BY <2>3 DEF Row, Status, Final
    <2>5. request' = [request EXCEPT ![r] = Merge(@, txn[h].snap[r], new)]
      BY <2>1
    <2> HIDE DEF new
    <2>6. Writes(h, {r}, "completed")
      BY <2>1, <2>3, <2>4, <2>5, MergedWrites DEF Status, Final
    <2>7. attachment' \in [Attachments -> AttachmentRow]
      BY <2>1, <2>3, ScheduledType DEF IInv
    <2>8. outbox' \in [Requests -> [PushTypes -> Nat]]
      BY <2>1, <2>3, PushMaybeTyped DEF IInv
    <2>9. QED
      BY <2>1, <2>2, <2>6, <2>7, <2>8 DEF IInv, TypeOK, Ops, Status, Final
  <1>5. CASE CommitReject(h)
    <2>1. PICK r \in txn[h].reqs :
            /\ Flush(h, "reject")
            /\ request' = [request EXCEPT ![r] = Merge(@, txn[h].snap[r],
                             [txn[h].snap[r] EXCEPT !.status = "rejected", !.deadline = None])]
            /\ Append1(r, txn[h].snap[r].status, "rejected")
            /\ attachment' = Scheduled(txn[h].snap[r].screenshot, txn[h].moment)
            /\ \/ UNCHANGED outbox
               \/ \E t \in PushTypes : outbox' = Push(r, t, 1)
            /\ UNCHANGED files
      BY <1>5 DEF CommitReject, PushTypes
    <2>2. txn[h].op = "reject" /\ LeadsTo("reject") = "rejected"
      BY <2>1 DEF Flush, LeadsTo
    <2>3. /\ txn[h].snap[r].status \in Status \ {"rejected"}
          /\ txn[h].snap[r] \in Row /\ r \in Requests
          /\ txn[h].snap[r].screenshot \in Attachments \cup {None}
          /\ txn[h].moment \in Nat /\ txn[h].file \in Attachments \cup {None}
      BY <2>2, DecidedStatus DEF DecidedOn, Status, Final, Cancellable, Row
    <2> DEFINE new == [txn[h].snap[r] EXCEPT !.status = "rejected", !.deadline = None]
    <2>4. new \in Row /\ new.status = "rejected"
      BY <2>3 DEF Row, Status, Final
    <2>5. request' = [request EXCEPT ![r] = Merge(@, txn[h].snap[r], new)]
      BY <2>1
    <2> HIDE DEF new
    <2>6. Writes(h, {r}, "rejected")
      BY <2>1, <2>3, <2>4, <2>5, MergedWrites DEF Status, Final
    <2>7. attachment' \in [Attachments -> AttachmentRow]
      BY <2>1, <2>3, ScheduledType DEF IInv
    <2>8. outbox' \in [Requests -> [PushTypes -> Nat]]
      BY <2>1, <2>3, PushMaybeTyped DEF IInv
    <2>9. QED
      BY <2>1, <2>2, <2>6, <2>7, <2>8 DEF IInv, TypeOK, Ops, Status, Final
  <1>6. CASE CommitCancel(h)
    <2>1. PICK r \in txn[h].reqs :
            /\ Flush(h, "cancel")
            /\ request' = [request EXCEPT ![r] = Merge(@, txn[h].snap[r],
                             [txn[h].snap[r] EXCEPT !.status = "cancelled", !.deadline = None])]
            /\ Append1(r, txn[h].snap[r].status, "cancelled")
            /\ outbox' = Push(r, "chip_request_cancelled", ManagerCount)
            /\ UNCHANGED <<attachment, files>>
      BY <1>6 DEF CommitCancel
    <2>2. txn[h].op = "cancel" /\ LeadsTo("cancel") = "cancelled"
      BY <2>1 DEF Flush, LeadsTo
    <2>3. /\ txn[h].snap[r].status \in Status \ {"cancelled"}
          /\ txn[h].snap[r] \in Row /\ r \in Requests
          /\ txn[h].snap[r].screenshot \in Attachments \cup {None}
          /\ txn[h].moment \in Nat /\ txn[h].file \in Attachments \cup {None}
      BY <2>2, DecidedStatus DEF DecidedOn, Status, Final, Cancellable, Row
    <2> DEFINE new == [txn[h].snap[r] EXCEPT !.status = "cancelled", !.deadline = None]
    <2>4. new \in Row /\ new.status = "cancelled"
      BY <2>3 DEF Row, Status, Final
    <2>5. request' = [request EXCEPT ![r] = Merge(@, txn[h].snap[r], new)]
      BY <2>1
    <2> HIDE DEF new
    <2>6. Writes(h, {r}, "cancelled")
      BY <2>1, <2>3, <2>4, <2>5, MergedWrites DEF Status, Final
    <2>7. outbox' \in [Requests -> [PushTypes -> Nat]]
      BY <2>1, <2>3, PushTyped DEF PushTypes, IInv
    <2>8. QED
      BY <2>1, <2>2, <2>6, <2>7 DEF IInv, TypeOK, Ops, Status, Final
  <1>7. CASE CommitAttach(h)
    <2>1. PICK r \in txn[h].reqs :
            /\ Flush(h, "attach")
            /\ request' = [request EXCEPT ![r] = Merge(@, txn[h].snap[r],
                             [txn[h].snap[r] EXCEPT !.status = "paid", !.deadline = None, !.screenshot = txn[h].file])]
            /\ Append1(r, txn[h].snap[r].status, "paid")
            /\ attachment' = [attachment EXCEPT ![txn[h].file].row = "stored"]
            /\ UNCHANGED <<outbox, files>>
      BY <1>7 DEF CommitAttach
    <2>2. txn[h].op = "attach" /\ LeadsTo("attach") = "paid"
      BY <2>1 DEF Flush, LeadsTo
    <2>3. /\ txn[h].snap[r].status \in Status \ {"paid"}
          /\ txn[h].snap[r] \in Row /\ r \in Requests
          /\ txn[h].snap[r].screenshot \in Attachments \cup {None}
          /\ txn[h].moment \in Nat /\ txn[h].file \in Attachments \cup {None}
      BY <2>2, DecidedStatus DEF DecidedOn, Status, Final, Cancellable, Row
    <2> DEFINE new == [txn[h].snap[r] EXCEPT !.status = "paid", !.deadline = None, !.screenshot = txn[h].file]
    <2>4. new \in Row /\ new.status = "paid"
      BY <2>3 DEF Row, Status
    <2>5. request' = [request EXCEPT ![r] = Merge(@, txn[h].snap[r], new)]
      BY <2>1
    <2> HIDE DEF new
    <2>6. Writes(h, {r}, "paid")
      BY <2>1, <2>3, <2>4, <2>5, MergedWrites DEF Status
    <2>7. attachment' \in [Attachments -> AttachmentRow]
      BY <2>1, <2>3 DEF IInv, TypeOK, AttachmentRow
    <2>8. QED
      BY <2>1, <2>2, <2>6, <2>7 DEF IInv, TypeOK, Ops, Status
  <1>8. CASE CommitRead(h)
    <2>1. Flush(h, "expire") /\ txn[h].op = "expire" /\ LeadsTo("expire") = "expired"
      BY <1>8 DEF CommitRead, Flush, LeadsTo
    <2>2. request' = Expired(h) /\ request' \in [Requests -> Row]
      BY <1>8, ExpiredType DEF CommitRead, IInv
    <2>3. Writes(h, txn[h].reqs, "expired")
      BY <1>8, <2>1, <2>2, ExpiredWrites DEF CommitRead
    <2>4. QED
      BY <1>8, <2>1, <2>3 DEF CommitRead, IInv, TypeOK, Ops, Status, Final
  <1>9. CASE CommitHousekeeping(h)
    <2> DEFINE refs == {r \in Requests : Expired(h)[r].screenshot \in txn[h].purge}
    <2>1. /\ Flush(h, "housekeeping") /\ txn[h].op = "housekeeping"
          /\ LeadsTo("housekeeping") = "expired"
      BY <1>9 DEF CommitHousekeeping, Flush, LeadsTo
    <2>2. Expired(h) \in [Requests -> Row]
      BY ExpiredType DEF IInv
    <2>3. \A r \in refs : ~Locked(r, h)
      BY <1>9 DEF CommitHousekeeping
    <2>4. request' = [r \in Requests |-> IF r \in refs THEN [Expired(h)[r] EXCEPT !.screenshot = None]
                                        ELSE Expired(h)[r]]
      BY <1>9 DEF CommitHousekeeping
    <2>5. \A r \in Requests : /\ request'[r] \in Row
                              /\ request'[r].status = Expired(h)[r].status
                              /\ request'[r].deadline = Expired(h)[r].deadline
      BY <2>2, <2>4 DEF Row
    <2>6. \A r \in Requests : Locked(r, h) => request'[r] = Expired(h)[r]
      BY <2>3, <2>4
    <2>7. request' \in [Requests -> Row]
      BY <2>4, <2>5
    <2>8. AppendExpired(h)
      BY <1>9 DEF CommitHousekeeping
    <2>9. Writes(h, txn[h].reqs, "expired")
      BY <2>1, <2>5, <2>6, <2>7, <2>8, ExpiredWrites
    <2>10. attachment' \in [Attachments -> AttachmentRow]
      BY <1>9 DEF CommitHousekeeping, IInv, TypeOK, AttachmentRow
    <2>11. QED
      BY <1>9, <2>1, <2>9, <2>10 DEF CommitHousekeeping, IInv, TypeOK, Ops, Status, Final
  <1>10. QED
    BY <1>1, <1>2, <1>3, <1>4, <1>5, <1>6, <1>7, <1>8, <1>9 DEF Commit

-----------------------------------------------------------------------------
(* The theorems.                                                           *)

LEMMA NextKeepsIInv == IInv /\ [Next]_vars => IInv'
  <1> SUFFICES ASSUME IInv, [Next]_vars PROVE IInv'
    OBVIOUS
  <1>1. ASSUME NEW h \in Handlers, Load(h) PROVE IInv'
    BY <1>1, LoadKeepsIInv
  <1>2. ASSUME NEW h \in Handlers, Commit(h) PROVE IInv'
    <2>1. PICK S : Writes(h, S, LeadsTo(txn[h].op))
      BY <1>2, CommitWrites
    <2>2. QED
      BY <1>2, <2>1, CommitWrites, WritesKeepsIInv
  \* Writing or unlinking files touches only the handler's own record.
  <1>3. ASSUME NEW h \in Handlers, SaveFile(h) \/ PurgeFiles(h) PROVE IInv'
    <2>1. /\ UNCHANGED <<player, request, events, outbox, attachment, clock, rollbacks>>
          /\ files' \in SUBSET Attachments
          /\ \E P \in SUBSET Attachments :
               txn' = [txn EXCEPT ![h].purge = P, ![h].step = "ready"]
      <3>1. CASE SaveFile(h)
        <4>1. txn' = [txn EXCEPT ![h].purge = txn[h].purge, ![h].step = "ready"]
          BY <3>1 DEF SaveFile, IInv, TypeOK, Txn
        <4>2. QED
          BY <3>1, <4>1 DEF SaveFile, IInv, TypeOK, UploadHasKey, Txn
      <3>2. CASE PurgeFiles(h)
        BY <3>2 DEF PurgeFiles, ExpiredAttachments, IInv, TypeOK
      <3>3. QED
        BY <1>3, <3>1, <3>2
    <2>2. PICK P \in SUBSET Attachments : txn' = [txn EXCEPT ![h].purge = P, ![h].step = "ready"]
      BY <2>1
    <2> DEFINE t == [txn[h] EXCEPT !.purge = P, !.step = "ready"]
    <2>3. txn' = [txn EXCEPT ![h] = t]
      BY <2>2
    <2>4. txn[h] \in Txn /\ txn \in [Handlers -> Txn]
      BY DEF IInv, TypeOK
    <2>5. /\ t \in Txn
          /\ t.op = txn[h].op /\ t.reqs = txn[h].reqs /\ t.snap = txn[h].snap /\ t.file = txn[h].file
      BY <2>4 DEF Txn
    <2> HIDE DEF t
    <2>6. TypeOK'
      BY <2>1, <2>3, <2>4, <2>5 DEF IInv, TypeOK
    <2>7. \A g \in Handlers : /\ txn'[g].op = txn[g].op /\ txn'[g].reqs = txn[g].reqs
                             /\ txn'[g].snap = txn[g].snap /\ txn'[g].file = txn[g].file
      BY <2>3, <2>4, <2>5
    <2>8. DecisionWasAllowed' /\ UploadHasKey'
      <3>1. ASSUME NEW g \in Handlers, NEW r \in txn'[g].reqs
            PROVE  txn'[g].snap[r].status \in DecidedOn(txn'[g].op)
        <4>1. /\ txn'[g].op = txn[g].op /\ txn'[g].snap = txn[g].snap
              /\ r \in txn[g].reqs
          BY <2>7
        <4>2. txn[g].snap[r].status \in DecidedOn(txn[g].op)
          BY <4>1 DEF IInv, DecisionWasAllowed
        <4>3. QED
          BY <4>1, <4>2
      <3>2. ASSUME NEW g \in Handlers, txn'[g].op = "attach"
            PROVE  txn'[g].file \in Attachments
        BY <2>7, <3>2 DEF IInv, UploadHasKey
      <3>3. QED
        BY <3>1, <3>2 DEF DecisionWasAllowed, UploadHasKey
    <2>9. LockedRowIsFresh'
      <3>1. ASSUME NEW g \in Handlers, txn'[g].op = "cancel", NEW r \in txn'[g].reqs
            PROVE  request'[r] = txn'[g].snap[r]
        <4>1. /\ txn[g].op = "cancel" /\ txn'[g].snap = txn[g].snap
              /\ r \in txn[g].reqs
          BY <2>7, <3>1
        <4>2. request[r] = txn[g].snap[r]
          BY <4>1 DEF IInv, LockedRowIsFresh
        <4>3. QED
          BY <2>1, <4>1, <4>2
      <3>2. QED
        BY <3>1 DEF LockedRowIsFresh
    <2>10. JournalEndsInStatus' /\ AwaitingHasDeadline'
      BY <2>1 DEF IInv, JournalEndsInStatus, AwaitingHasDeadline
    <2>11. QED
      BY <2>6, <2>8, <2>9, <2>10 DEF IInv
  \* A lost transaction leaves no trace in the database.
  <1>4. ASSUME NEW T \in SUBSET Handlers,
               txn' = [h \in Handlers |-> IF h \in T THEN Idle ELSE txn[h]],
               rollbacks' = rollbacks + 1,
               UNCHANGED <<player, request, events, outbox, attachment, files, clock>>
        PROVE  IInv'
    <2>1. TypeOK'
      BY <1>4, IdleType DEF IInv, TypeOK
    <2>2. \A g \in Handlers : txn'[g] = txn[g] \/ txn'[g] = Idle
      BY <1>4
    <2>3. QED
      BY <1>4, <2>1, <2>2
      DEF IInv, DecisionWasAllowed, LockedRowIsFresh, UploadHasKey, JournalEndsInStatus,
          AwaitingHasDeadline, Idle
  <1>5. ASSUME NEW h \in Handlers, Rollback(h) PROVE IInv'
    <2>1. txn' = [g \in Handlers |-> IF g \in {h} THEN Idle ELSE txn[g]]
      BY <1>5 DEF Rollback, IInv, TypeOK
    <2>2. QED
      BY <1>4, <1>5, <2>1 DEF Rollback
  <1>6. CASE Restart
    <2>1. txn' = [g \in Handlers |-> IF g \in Handlers THEN Idle ELSE txn[g]]
      BY <1>6 DEF Restart
    <2>2. QED
      BY <1>4, <1>6, <2>1 DEF Restart
  <1>7. ASSUME UNCHANGED <<request, events, outbox, attachment, files, txn, rollbacks>>,
               player' \in [Players -> [kind : PlayerKinds, active : BOOLEAN]], clock' \in Nat
        PROVE  IInv'
    BY <1>7 DEF IInv, TypeOK, DecisionWasAllowed, LockedRowIsFresh, UploadHasKey,
                JournalEndsInStatus, AwaitingHasDeadline
  <1>8. ASSUME NEW p \in Players, UpdatePlayer(p) PROVE IInv'
    BY <1>7, <1>8 DEF UpdatePlayer, IInv, TypeOK
  <1>9. CASE Tick
    BY <1>7, <1>9 DEF Tick, IInv, TypeOK
  <1>10. CASE UNCHANGED vars
    BY <1>7, <1>10 DEF vars, IInv, TypeOK
  <1>11. QED
    BY <1>1, <1>2, <1>3, <1>5, <1>6, <1>8, <1>9, <1>10 DEF Next

LEMMA Invariance == Spec => []IInv
  BY InitIInv, NextKeepsIInv, PTL DEF Spec

\* Every state the program reaches is well typed.
THEOREM TypeCorrect == Spec => []TypeOK
  <1>1. IInv => TypeOK
    BY DEF IInv
  <1>2. QED
    BY <1>1, Invariance, PTL

\* services/chips.py writes a status and its journal entry together, and the
\* status always differs from the one it was decided on, so the entry committed
\* last tells the status, whatever transactions overlap.
THEOREM JournalTellsStatus == Spec => []JournalEndsInStatus
  <1>1. IInv => JournalEndsInStatus
    BY DEF IInv
  <1>2. QED
    BY <1>1, Invariance, PTL

\* The housekeeping loop can expire every request that waits for payment.
THEOREM AwaitingIsTimed == Spec => []AwaitingHasDeadline
  <1>1. IInv => AwaitingHasDeadline
    BY DEF IInv
  <1>2. QED
    BY <1>1, Invariance, PTL

\* FOR UPDATE in cancel_request: nothing changes a request between the moment
\* its cancellation reads it and the moment it commits.
THEOREM LockHolds == Spec => []LockedRowIsFresh
  <1>1. IInv => LockedRowIsFresh
    BY DEF IInv
  <1>2. QED
    BY <1>1, Invariance, PTL

\* A commit changes the status only of requests it is decided on, to the one
\* status of its operation.
LEMMA CancelledByCancel ==
  ASSUME IInv, [Next]_vars, NEW r \in Requests,
         request'[r].status = "cancelled", request[r].status # "cancelled"
  PROVE  request[r].status \in Cancellable
  <1>1. PICK h \in Handlers : Commit(h)
    <2>1. ASSUME NEW h \in Handlers, Load(h) PROVE UNCHANGED request
      BY <2>1
      DEF Load, LoadForCreate, LoadForAccept, LoadForRequisites, LoadForComplete, LoadForReject,
          LoadForCancel, LoadForAttach, LoadForRead, LoadForHousekeeping, BeginOn, Begin
    <2>2. QED
      BY <2>1 DEF Next, vars, SaveFile, PurgeFiles, Rollback, Restart, UpdatePlayer, Tick
  <1>2. PICK S : Writes(h, S, LeadsTo(txn[h].op))
    BY <1>1, CommitWrites
  <1>3. r \in S /\ LeadsTo(txn[h].op) = "cancelled"
    BY <1>2 DEF Writes
  <1>4. txn[h].op \in Ops
    BY <1>1, CommitWrites
  <1>5. txn[h].op = "cancel"
    BY <1>3, <1>4 DEF LeadsTo, Ops
  <1>6. r \in txn[h].reqs
    BY <1>2, <1>3 DEF Writes
  <1>7. request[r] = txn[h].snap[r]
    BY <1>5, <1>6 DEF IInv, LockedRowIsFresh
  <1>8. txn[h].snap[r].status \in Cancellable
    BY <1>5, <1>6, DecidedStatus DEF DecidedOn
  <1>9. QED
    BY <1>7, <1>8

\* cancel_request never replaces a payment, an issue or a refusal, however many
\* transactions overlap with it: the lock makes the row it checked the row it
\* replaces.
THEOREM CancelIsSafe == Spec => CancelNeverOverwrites
  <1>1. IInv /\ [Next]_vars =>
          [\A r \in Requests : request'[r].status = "cancelled" /\ request[r].status # "cancelled"
             => request[r].status \in Cancellable]_vars
    BY CancelledByCancel
  <1>2. QED
    BY <1>1, Invariance, PTL DEF Spec, CancelNeverOverwrites

-----------------------------------------------------------------------------
(* The outbox and the journal.                                             *)

\* Appending an entry counts it, if it is one of those that are counted.
LEMMA CountAppended ==
  ASSUME TypeOK, NEW r \in Requests, NEW e, NEW S, events'[r] = Append(events[r], e)
  PROVE  /\ Count(r, S) \in Nat
         /\ Count(r, S)' = Count(r, S) + (IF e.to \in S THEN 1 ELSE 0)
  <1> DEFINE n == Len(events[r])
             C == {i \in 1..n : events[r][i].to \in S}
             D == {i \in 1..Len(events'[r]) : events'[r][i].to \in S}
  <1>1. events[r] \in Seq(Event) /\ n \in Nat
    BY DEF TypeOK
  <1>2. /\ Len(events'[r]) = n + 1 /\ events'[r][n + 1] = e
        /\ \A i \in 1..n : events'[r][i] = events[r][i]
    BY <1>1
  <1>3. IsFiniteSet(C) /\ n + 1 \notin C
    <2>1. C \subseteq 1..n /\ n + 1 \notin 1..n
      BY <1>1
    <2>2. IsFiniteSet(1..n)
      BY <1>1, FS_Interval
    <2>3. QED
      BY <2>1, <2>2, FS_Subset
  <1>4. D = IF e.to \in S THEN C \cup {n + 1} ELSE C
    BY <1>1, <1>2
  <1>5. Cardinality(D) = Cardinality(C) + (IF e.to \in S THEN 1 ELSE 0)
    <2>1. Cardinality(C) \in Nat /\ Cardinality(C \cup {n + 1}) = Cardinality(C) + 1
      BY <1>3, FS_AddElement, FS_CardinalityType
    <2>2. CASE e.to \in S
      <3> HIDE DEF C, D
      <3>1. QED
        BY <1>4, <2>1, <2>2
    <2>3. CASE e.to \notin S
      <3> HIDE DEF C, D
      <3>1. QED
        BY <1>4, <2>1, <2>3
    <2>4. QED
      BY <2>2, <2>3
  <1>6. Count(r, S) = Cardinality(C) /\ Count(r, S)' = Cardinality(D)
    BY DEF Count
  <1>7. QED
    BY <1>3, <1>5, <1>6, FS_CardinalityType

LEMMA CountKept ==
  ASSUME NEW r, NEW S, events'[r] = events[r]
  PROVE  Count(r, S)' = Count(r, S)
  BY DEF Count

LEMMA CountType ==
  ASSUME TypeOK, NEW r \in Requests, NEW S
  PROVE  Count(r, S) \in Nat
  <1> DEFINE C == {i \in 1..Len(events[r]) : events[r][i].to \in S}
  <1>1. IsFiniteSet(C)
    BY FS_Interval, FS_Subset DEF TypeOK
  <1>2. QED
    BY <1>1, FS_CardinalityType DEF Count

\* Every manager once more, or nobody.
LEMMA OneMoreEach ==
  ASSUME NEW m \in Nat, NEW n \in Nat
  PROVE  m * (n + 1) = m * n + m /\ m * (n + 0) = m * n + 0
  <1>1. m * n \in Nat
    OBVIOUS
  <1>2. QED
    BY <1>1

\* One push more, and one entry more.
LEMMA BoundMoves ==
  ASSUME NEW k \in Nat, NEW l \in Nat, NEW n \in Nat, NEW m, NEW i \in {0, 1},
         l <= k + i, k <= n, m = n + i
  PROVE  l <= m
  OBVIOUS

\* The outbox of one request.
Matches(r) ==
  /\ outbox[r]["new_chip_request"] = ManagerCount * Count(r, {"sent"})
  /\ outbox[r]["chip_request_cancelled"] = ManagerCount * Count(r, {"cancelled"})
  /\ outbox[r]["requisites_ready"] <= Count(r, {"awaiting_payment"})
  /\ outbox[r]["chips_issued"] + outbox[r]["withdrawal_sent"] <= Count(r, {"completed"})
  /\ outbox[r]["request_rejected"] <= Count(r, {"rejected"})

\* What a push adds to the outbox of a request.
PushedFor(r, t, n) ==
  /\ outbox'[r][t] = outbox[r][t] + n
  /\ \A s \in PushTypes \ {t} : outbox'[r][s] = outbox[r][s]

LEMMA PushAdds ==
  ASSUME TypeOK, NEW r \in Requests, NEW t \in PushTypes, NEW n \in Nat,
         outbox' = Push(r, t, n)
  PROVE  /\ PushedFor(r, t, n)
         /\ \A q \in Requests \ {r} : outbox'[q] = outbox[q]
  BY DEF Push, PushedFor, TypeOK

\* The pushes an operation may send together with its entry in the journal.
PushFits(r, to) ==
  \/ to = "sent" /\ PushedFor(r, "new_chip_request", ManagerCount)
  \/ to = "cancelled" /\ PushedFor(r, "chip_request_cancelled", ManagerCount)
  \/ to = "awaiting_payment" /\ PushedFor(r, "requisites_ready", 1)
  \/ to = "completed" /\ (PushedFor(r, "chips_issued", 1) \/ PushedFor(r, "withdrawal_sent", 1))
  \/ to = "rejected" /\ PushedFor(r, "request_rejected", 1)
  \/ to \notin {"sent", "cancelled"} /\ outbox'[r] = outbox[r]

LEMMA MatchesKept ==
  ASSUME TypeOK, NEW r \in Requests, NEW e, NEW to \in Status, Matches(r),
         e.to = to, events'[r] = Append(events[r], e), PushFits(r, to)
  PROVE  Matches(r)'
  <1> DEFINE Is(s, n) == IF to = s THEN n ELSE 0
  <1>1. \A s : Count(r, {s}) \in Nat /\ Count(r, {s})' = Count(r, {s}) + Is(s, 1)
    BY CountAppended
  <1>2. \A s : ManagerCount * Count(r, {s})' = ManagerCount * Count(r, {s}) + Is(s, ManagerCount)
    <2> SUFFICES ASSUME NEW s
                 PROVE  ManagerCount * Count(r, {s})' = ManagerCount * Count(r, {s}) + Is(s, ManagerCount)
      OBVIOUS
    <2>1. /\ Count(r, {s}) \in Nat
          /\ \/ Count(r, {s})' = Count(r, {s}) + 1 /\ Is(s, ManagerCount) = ManagerCount
             \/ Count(r, {s})' = Count(r, {s}) + 0 /\ Is(s, ManagerCount) = 0
      <3>1. CASE to = s
        BY <1>1, <3>1
      <3>2. CASE to # s
        BY <1>1, <3>2
      <3>3. QED
        BY <3>1, <3>2
    <2> HIDE DEF Is
    <2> DEFINE k == Count(r, {s})
               l == Count(r, {s})'
    <2>2. /\ ManagerCount * (k + 1) = ManagerCount * k + ManagerCount
          /\ ManagerCount * (k + 0) = ManagerCount * k + 0
      BY <2>1, OneMoreEach
    <2>3. /\ l = k + 1 => ManagerCount * l = ManagerCount * (k + 1)
          /\ l = k + 0 => ManagerCount * l = ManagerCount * (k + 0)
      OBVIOUS
    <2> HIDE DEF k, l
    <2>4. ManagerCount * l = ManagerCount * k + Is(s, ManagerCount)
      BY <2>1, <2>2, <2>3 DEF k, l
    <2>5. QED
      BY <2>4 DEF k, l
  <1>3. \A t \in PushTypes : outbox[r][t] \in Nat
    BY DEF TypeOK
  <1>4. /\ outbox'[r]["new_chip_request"] = outbox[r]["new_chip_request"] + Is("sent", ManagerCount)
        /\ outbox'[r]["chip_request_cancelled"]
             = outbox[r]["chip_request_cancelled"] + Is("cancelled", ManagerCount)
    BY <1>3 DEF PushFits, PushedFor, PushTypes
  <1>5. /\ outbox[r]["chips_issued"] \in Nat /\ outbox[r]["withdrawal_sent"] \in Nat
        /\ outbox[r]["requisites_ready"] \in Nat /\ outbox[r]["request_rejected"] \in Nat
    BY <1>3 DEF PushTypes
  <1>6. /\ outbox'[r]["requisites_ready"]
             \in {outbox[r]["requisites_ready"], outbox[r]["requisites_ready"] + Is("awaiting_payment", 1)}
        /\ outbox'[r]["request_rejected"]
             \in {outbox[r]["request_rejected"], outbox[r]["request_rejected"] + Is("rejected", 1)}
    BY <1>5 DEF PushFits, PushedFor, PushTypes
  <1>7. /\ outbox'[r]["chips_issued"] \in Nat /\ outbox'[r]["withdrawal_sent"] \in Nat
        /\ outbox'[r]["chips_issued"] + outbox'[r]["withdrawal_sent"]
             <= outbox[r]["chips_issued"] + outbox[r]["withdrawal_sent"] + Is("completed", 1)
    <2>1. \/ /\ outbox'[r]["chips_issued"] = outbox[r]["chips_issued"]
             /\ outbox'[r]["withdrawal_sent"] = outbox[r]["withdrawal_sent"]
          \/ /\ to = "completed" /\ outbox'[r]["chips_issued"] = outbox[r]["chips_issued"] + 1
             /\ outbox'[r]["withdrawal_sent"] = outbox[r]["withdrawal_sent"]
          \/ /\ to = "completed" /\ outbox'[r]["chips_issued"] = outbox[r]["chips_issued"]
             /\ outbox'[r]["withdrawal_sent"] = outbox[r]["withdrawal_sent"] + 1
      BY DEF PushFits, PushedFor, PushTypes
    <2>2. QED
      BY <1>5, <2>1
  <1> HIDE DEF Is
  <1>8. /\ outbox'[r]["new_chip_request"] = ManagerCount * Count(r, {"sent"})'
        /\ outbox'[r]["chip_request_cancelled"] = ManagerCount * Count(r, {"cancelled"})'
    BY <1>2, <1>4 DEF Matches
  <1>9. ASSUME NEW s
        PROVE  /\ Count(r, {s}) \in Nat /\ Is(s, 1) \in {0, 1}
               /\ Count(r, {s})' = Count(r, {s}) + Is(s, 1)
    BY <1>1 DEF Is
  <1>10. ASSUME NEW t \in PushTypes, NEW s, outbox[r][t] \in Nat, outbox[r][t] <= Count(r, {s}),
                outbox'[r][t] \in {outbox[r][t], outbox[r][t] + Is(s, 1)}
         PROVE  outbox'[r][t] <= Count(r, {s})'
    <2> DEFINE k == outbox[r][t]
               l == outbox'[r][t]
               c == Count(r, {s})
               d == Count(r, {s})'
               i == Is(s, 1)
    <2>1. /\ k \in Nat /\ c \in Nat /\ i \in {0, 1} /\ d = c + i /\ k <= c /\ l \in {k, k + i}
      BY <1>9, <1>10
    <2> HIDE DEF k, l, c, d, i
    <2>2. l <= d
      BY <2>1
    <2>3. QED
      BY <2>2 DEF l, d
  <1>11. /\ outbox'[r]["requisites_ready"] <= Count(r, {"awaiting_payment"})'
         /\ outbox'[r]["request_rejected"] <= Count(r, {"rejected"})'
    BY <1>5, <1>6, <1>10 DEF Matches, PushTypes
  <1>12. outbox'[r]["chips_issued"] + outbox'[r]["withdrawal_sent"] <= Count(r, {"completed"})'
    <2> DEFINE k == outbox[r]["chips_issued"] + outbox[r]["withdrawal_sent"]
               l == outbox'[r]["chips_issued"] + outbox'[r]["withdrawal_sent"]
               c == Count(r, {"completed"})
               d == Count(r, {"completed"})'
    <2>1. k \in Nat /\ l \in Nat /\ l <= k + Is("completed", 1) /\ k <= c
      BY <1>5, <1>7 DEF Matches
    <2>2. c \in Nat /\ d = c + Is("completed", 1) /\ Is("completed", 1) \in {0, 1}
      BY <1>9
    <2> HIDE DEF k, l, c, d
    <2>3. l <= d
      BY <2>1, <2>2, BoundMoves
    <2>4. QED
      BY <2>3 DEF l, d
  <1>13. QED
    BY <1>8, <1>11, <1>12 DEF Matches

LEMMA MatchesStays ==
  ASSUME NEW r, Matches(r), events'[r] = events[r], outbox'[r] = outbox[r]
  PROVE  Matches(r)'
  BY CountKept DEF Matches

\* A commit of one request, its journal entry and its pushes.
LEMMA StoresMatch ==
  ASSUME TypeOK, OutboxMatchesJournal, NEW r \in Requests, NEW from, NEW to \in Status,
         Append1(r, from, to), PushFits(r, to), \A q \in Requests \ {r} : outbox'[q] = outbox[q]
  PROVE  OutboxMatchesJournal'
  <1>1. /\ events'[r] = Append(events[r], Transition(from, to))
        /\ \A q \in Requests \ {r} : events'[q] = events[q]
    BY DEF Append1, TypeOK
  <1>2. Transition(from, to).to = to
    BY DEF Transition
  <1>3. \A q \in Requests : Matches(q)
    BY DEF OutboxMatchesJournal, Matches
  <1>4. Matches(r)'
    BY <1>1, <1>2, <1>3, MatchesKept
  <1>5. \A q \in Requests \ {r} : Matches(q)'
    BY <1>1, <1>3, MatchesStays
  <1>6. QED
    BY <1>4, <1>5 DEF OutboxMatchesJournal, Matches

\* Reading endpoints and housekeeping expire requests and push nobody.
LEMMA ExpiryMatches ==
  ASSUME TypeOK, OutboxMatchesJournal, NEW h \in Handlers, AppendExpired(h), UNCHANGED outbox
  PROVE  OutboxMatchesJournal'
  <1>1. ASSUME NEW r \in Requests PROVE Matches(r)'
    <2>1. Matches(r)
      BY DEF OutboxMatchesJournal, Matches
    <2>2. CASE r \in txn[h].reqs
      <3> DEFINE e == Transition(txn[h].snap[r].status, "expired")
      <3>1. events'[r] = Append(events[r], e) /\ e.to = "expired" /\ PushFits(r, "expired")
        BY <2>2 DEF AppendExpired, Transition, PushFits
      <3> HIDE DEF e
      <3>2. QED
        BY <2>1, <3>1, MatchesKept DEF Status, Final
    <2>3. CASE r \notin txn[h].reqs
      BY <2>1, <2>3, MatchesStays DEF AppendExpired
    <2>4. QED
      BY <2>2, <2>3
  <1>2. QED
    BY <1>1 DEF OutboxMatchesJournal, Matches

LEMMA CommitMatches ==
  ASSUME TypeOK, OutboxMatchesJournal, NEW h \in Handlers, Commit(h)
  PROVE  OutboxMatchesJournal'
  <1>1. CASE CommitCreate(h)
    <2>1. PICK r \in txn[h].reqs : /\ Append1(r, None, "sent")
                                   /\ outbox' = Push(r, "new_chip_request", ManagerCount)
      BY <1>1 DEF CommitCreate
    <2>2. r \in Requests
      BY TxnType
    <2>3. PushFits(r, "sent") /\ \A q \in Requests \ {r} : outbox'[q] = outbox[q]
      BY <2>1, <2>2, PushAdds DEF PushFits, PushTypes
    <2>4. QED
      BY <2>1, <2>2, <2>3, StoresMatch DEF Status
  <1>2. CASE CommitAccept(h)
    <2>1. PICK r \in txn[h].reqs : Append1(r, txn[h].snap[r].status, "accepted") /\ UNCHANGED outbox
      BY <1>2 DEF CommitAccept
    <2>2. QED
      BY <2>1, TxnType, StoresMatch DEF PushFits, Status
  <1>3. CASE CommitRequisites(h)
    <2>1. PICK r \in txn[h].reqs : /\ Append1(r, txn[h].snap[r].status, "awaiting_payment")
                                   /\ outbox' = outbox \/ outbox' = Push(r, "requisites_ready", 1)
      BY <1>3 DEF CommitRequisites
    <2>2. r \in Requests
      BY TxnType
    <2>3. PushFits(r, "awaiting_payment") /\ \A q \in Requests \ {r} : outbox'[q] = outbox[q]
      BY <2>1, <2>2, PushAdds DEF PushFits, PushTypes
    <2>4. QED
      BY <2>1, <2>2, <2>3, StoresMatch DEF Status
  <1>4. CASE CommitComplete(h)
    <2>1. PICK r \in txn[h].reqs : /\ Append1(r, txn[h].snap[r].status, "completed")
                                   /\ \/ outbox' = outbox
                                      \/ outbox' = Push(r, "withdrawal_sent", 1)
                                      \/ outbox' = Push(r, "chips_issued", 1)
      BY <1>4 DEF CommitComplete
    <2>2. r \in Requests
      BY TxnType
    <2>3. PushFits(r, "completed") /\ \A q \in Requests \ {r} : outbox'[q] = outbox[q]
      BY <2>1, <2>2, PushAdds DEF PushFits, PushTypes
    <2>4. QED
      BY <2>1, <2>2, <2>3, StoresMatch DEF Status, Final
  <1>5. CASE CommitReject(h)
    <2>1. PICK r \in txn[h].reqs : /\ Append1(r, txn[h].snap[r].status, "rejected")
                                   /\ outbox' = outbox \/ outbox' = Push(r, "request_rejected", 1)
      BY <1>5 DEF CommitReject
    <2>2. r \in Requests
      BY TxnType
    <2>3. PushFits(r, "rejected") /\ \A q \in Requests \ {r} : outbox'[q] = outbox[q]
      BY <2>1, <2>2, PushAdds DEF PushFits, PushTypes
    <2>4. QED
      BY <2>1, <2>2, <2>3, StoresMatch DEF Status, Final
  <1>6. CASE CommitCancel(h)
    <2>1. PICK r \in txn[h].reqs : /\ Append1(r, txn[h].snap[r].status, "cancelled")
                                   /\ outbox' = Push(r, "chip_request_cancelled", ManagerCount)
      BY <1>6 DEF CommitCancel
    <2>2. r \in Requests
      BY TxnType
    <2>3. PushFits(r, "cancelled") /\ \A q \in Requests \ {r} : outbox'[q] = outbox[q]
      BY <2>1, <2>2, PushAdds DEF PushFits, PushTypes
    <2>4. QED
      BY <2>1, <2>2, <2>3, StoresMatch DEF Status, Final
  <1>7. CASE CommitAttach(h)
    <2>1. PICK r \in txn[h].reqs : Append1(r, txn[h].snap[r].status, "paid") /\ UNCHANGED outbox
      BY <1>7 DEF CommitAttach
    <2>2. QED
      BY <2>1, TxnType, StoresMatch DEF PushFits, Status
  <1>8. CASE CommitRead(h) \/ CommitHousekeeping(h)
    BY <1>8, ExpiryMatches DEF CommitRead, CommitHousekeeping
  <1>9. QED
    BY <1>1, <1>2, <1>3, <1>4, <1>5, <1>6, <1>7, <1>8 DEF Commit

LEMMA OnlyCommitsPush ==
  ASSUME [Next]_vars, ~\E h \in Handlers : Commit(h)
  PROVE  UNCHANGED <<events, outbox>>
  <1>1. ASSUME NEW h \in Handlers, Load(h) PROVE UNCHANGED <<events, outbox>>
    BY <1>1
    DEF Load, LoadForCreate, LoadForAccept, LoadForRequisites, LoadForComplete, LoadForReject,
        LoadForCancel, LoadForAttach, LoadForRead, LoadForHousekeeping, BeginOn, Begin
  <1>2. QED
    BY <1>1 DEF Next, vars, SaveFile, PurgeFiles, Rollback, Restart, UpdatePlayer, Tick

\* The outbox is transactional: enqueue_push runs in the transaction that writes
\* the journal, so every manager has one push for every creation and every
\* cancellation that was committed, and a player at most one for each outcome,
\* whatever transactions overlap, fail or are lost.
THEOREM OutboxIsTransactional == Spec => []OutboxMatchesJournal
  <1>1. Init => OutboxMatchesJournal
    <2> SUFFICES ASSUME Init, NEW r \in Requests PROVE Matches(r)
      BY DEF OutboxMatchesJournal, Matches
    <2>1. \A S : {i \in 1..Len(events[r]) : events[r][i].to \in S} = {}
      BY DEF Init
    <2>2. \A S : Count(r, S) = 0
      BY <2>1, FS_EmptySet DEF Count
    <2>3. \A t \in PushTypes : outbox[r][t] = 0
      BY DEF Init
    <2>4. QED
      BY <2>2, <2>3 DEF Matches, PushTypes
  <1>2. ASSUME TypeOK, OutboxMatchesJournal, [Next]_vars PROVE OutboxMatchesJournal'
    <2>1. CASE \E h \in Handlers : Commit(h)
      BY <1>2, <2>1, CommitMatches
    <2>2. CASE ~\E h \in Handlers : Commit(h)
      <3>1. UNCHANGED <<events, outbox>>
        BY <1>2, <2>2, OnlyCommitsPush
      <3>2. ASSUME NEW r \in Requests PROVE Matches(r) => Matches(r)'
        BY <3>1, MatchesStays
      <3>3. QED
        BY <1>2, <3>2 DEF OutboxMatchesJournal, Matches
    <2>3. QED
      BY <2>1, <2>2
  <1>3. QED
    BY <1>1, <1>2, TypeCorrect, PTL DEF Spec

-----------------------------------------------------------------------------
(* The screenshot of a paid request.  What keeps it is that a storage key is *)
(* fresh: it has no row before its upload commits, one upload writes it, and *)
(* one request refers to it.                                                 *)

\* Nothing schedules a screenshot that was not stored yet.
UnusedIsUnscheduled ==
  \A a \in Attachments : attachment[a].row = "unused" => attachment[a].deleteAfter = None

\* What a request refers to is stored; what a handler remembers, was.
ScreenshotsAreStored ==
  /\ \A r \in Requests : request[r].screenshot # None => attachment[request[r].screenshot].row = "stored"
  /\ \A h \in Handlers : \A r \in txn[h].reqs :
       txn[h].snap[r].screenshot # None => attachment[txn[h].snap[r].screenshot].row # "unused"

\* No two requests refer to one screenshot, now or in what a handler remembers.
ScreenshotsAreApart ==
  /\ \A r, q \in Requests :
       r # q /\ request[r].screenshot # None => request[r].screenshot # request[q].screenshot
  /\ \A h \in Handlers : \A r \in txn[h].reqs : \A q \in Requests :
       r # q /\ request[q].screenshot # None => txn[h].snap[r].screenshot # request[q].screenshot

\* The file of an upload has no row yet and belongs to that upload alone.
UploadsAreFresh ==
  \A h \in Handlers : txn[h].op = "attach" =>
    /\ attachment[txn[h].file].row = "unused"
    /\ txn[h].step = "ready" => txn[h].file \in files
    /\ \A g \in Handlers \ {h} : txn[g].op = "attach" => txn[g].file # txn[h].file

\* What a pass of the loop is about to forget was scheduled, and is off the disk.
PurgesWereScheduled ==
  \A h \in Handlers : txn[h].op = "housekeeping" /\ txn[h].step = "ready" =>
    \A a \in txn[h].purge :
      attachment[a].row # "unused" /\ attachment[a].deleteAfter # None /\ a \notin files

\* A request that is being created has no screenshot.
NewIsBlank ==
  \A h \in Handlers : txn[h].op = "create" => \A r \in txn[h].reqs : txn[h].snap[r].screenshot = None

PInv ==
  /\ UnusedIsUnscheduled
  /\ ScreenshotsAreStored
  /\ ScreenshotsAreApart
  /\ UploadsAreFresh
  /\ PurgesWereScheduled
  /\ NewIsBlank
  /\ PaidKeepsScreenshot

LEMMA InitPInv == Init => PInv
  <1> SUFFICES ASSUME Init PROVE PInv
    OBVIOUS
  <1>1. /\ \A r \in Requests : request[r].status = "absent" /\ request[r].screenshot = None
        /\ \A h \in Handlers : txn[h].op = "idle" /\ txn[h].reqs = {}
        /\ \A a \in Attachments : attachment[a].row = "unused" /\ attachment[a].deleteAfter = None
    BY DEF Init, NoRow, Idle
  <1>2. QED
    BY <1>1 DEF PInv, UnusedIsUnscheduled, ScreenshotsAreStored, ScreenshotsAreApart, UploadsAreFresh,
                PurgesWereScheduled, NewIsBlank, PaidKeepsScreenshot

\* A step of a handler that touches no row: what it remembers changes.
LEMMA RemembersKeepsPInv ==
  ASSUME IInv, PInv, UNCHANGED <<request, attachment, files>>,
         \A h \in Handlers :
           \/ txn'[h] = txn[h]
           \/ /\ txn'[h].op \notin {"attach", "housekeeping"} \/ txn'[h].step = "loaded"
              /\ \A r \in txn'[h].reqs :
                   /\ r \in Requests
                   /\ txn'[h].snap[r].screenshot \in {None, request[r].screenshot}
                   /\ txn'[h].op = "create" => txn'[h].snap[r].screenshot = None
              /\ txn'[h].op = "attach" =>
                   /\ txn'[h].file \in Attachments /\ attachment[txn'[h].file].row = "unused"
                   /\ \A g \in Handlers \ {h} : txn'[g].op = "attach" => txn'[g].file # txn'[h].file
  PROVE  PInv'
  <1>1. UnusedIsUnscheduled' /\ PaidKeepsScreenshot'
    BY DEF PInv, UnusedIsUnscheduled, PaidKeepsScreenshot
  <1>2. ScreenshotsAreStored'
    BY DEF PInv, ScreenshotsAreStored
  <1>3. ScreenshotsAreApart'
    BY DEF PInv, ScreenshotsAreApart
  <1>4. UploadsAreFresh'
    <2> SUFFICES ASSUME NEW h \in Handlers, txn'[h].op = "attach"
                 PROVE  /\ attachment[txn'[h].file].row = "unused"
                        /\ txn'[h].step = "ready" => txn'[h].file \in files
                        /\ \A g \in Handlers \ {h} : txn'[g].op = "attach" => txn'[g].file # txn'[h].file
      BY DEF UploadsAreFresh
    <2>1. CASE txn'[h] = txn[h]
      BY <2>1 DEF PInv, UploadsAreFresh
    <2>2. CASE txn'[h] # txn[h]
      BY <2>2
    <2>3. QED
      BY <2>1, <2>2
  <1>5. PurgesWereScheduled'
    BY DEF PInv, PurgesWereScheduled
  <1>6. NewIsBlank'
    BY DEF PInv, NewIsBlank
  <1>7. QED
    BY <1>1, <1>2, <1>3, <1>4, <1>5, <1>6 DEF PInv

\* Any commit but an upload's: it stores no new screenshot, takes nothing from a
\* request that stays paid, and schedules or forgets only what was stored.
Releases(h) ==
  /\ \A r \in Requests :
       /\ request'[r].screenshot \in {request[r].screenshot, None}
       /\ request'[r].screenshot # None => attachment'[request'[r].screenshot].row = "stored"
       /\ request'[r].status = "paid" =>
            /\ request[r].status = "paid" /\ request'[r].screenshot = request[r].screenshot
            /\ attachment'[request[r].screenshot] = attachment[request[r].screenshot]
  /\ \A a \in Attachments :
       /\ attachment[a].row = "unused" => attachment'[a] = attachment[a]
       /\ attachment'[a].row = "unused" => attachment[a].row = "unused"
       /\ attachment[a].deleteAfter # None => attachment'[a].deleteAfter # None
       /\ attachment'[a].row = "deleted" => a \notin files
  /\ UNCHANGED files

LEMMA ReleasesKeepsPInv ==
  ASSUME IInv, PInv, NEW h \in Handlers, Releases(h), txn' = [txn EXCEPT ![h] = Idle]
  PROVE  PInv'
  <1>1. /\ txn'[h].op = "idle" /\ txn'[h].reqs = {}
        /\ \A g \in Handlers \ {h} : txn'[g] = txn[g]
    BY DEF IInv, TypeOK, Idle
  <1>2. /\ \A r \in Requests : request[r].screenshot \in Attachments \cup {None}
        /\ \A g \in Handlers : txn[g].reqs \subseteq Requests /\ txn[g].purge \subseteq Attachments
        /\ \A g \in Handlers : \A r \in txn[g].reqs : txn[g].snap[r].screenshot \in Attachments \cup {None}
        /\ \A g \in Handlers : txn[g].op = "attach" => txn[g].file \in Attachments
    BY DEF IInv, TypeOK, Txn, Row, UploadHasKey
  <1>3. UnusedIsUnscheduled'
    BY DEF PInv, UnusedIsUnscheduled, Releases
  <1>4. ScreenshotsAreStored'
    BY <1>1, <1>2 DEF PInv, ScreenshotsAreStored, Releases
  <1>5. ScreenshotsAreApart'
    BY <1>1 DEF PInv, ScreenshotsAreApart, Releases
  <1>6. UploadsAreFresh'
    BY <1>1, <1>2 DEF PInv, UploadsAreFresh, Releases
  <1>7. PurgesWereScheduled'
    BY <1>1, <1>2 DEF PInv, PurgesWereScheduled, Releases
  <1>8. NewIsBlank'
    BY <1>1 DEF PInv, NewIsBlank
  <1>9. PaidKeepsScreenshot'
    BY DEF PInv, PaidKeepsScreenshot, Releases
  <1>10. QED
    BY <1>3, <1>4, <1>5, <1>6, <1>7, <1>8, <1>9 DEF PInv

\* A commit that merges a row with the screenshot it was loaded with.
LEMMA MergedReleases ==
  ASSUME IInv, PInv, NEW h \in Handlers, NEW r \in txn[h].reqs, NEW row \in Row,
         row.screenshot \in {request[r].screenshot, None}, row.status # "paid",
         request' = [request EXCEPT ![r] = row], UNCHANGED <<attachment, files>>
  PROVE  Releases(h)
  <1>1. r \in Requests /\ request \in [Requests -> Row]
    BY TxnType DEF IInv, TypeOK
  <1>2. request'[r] = row /\ \A q \in Requests \ {r} : request'[q] = request[q]
    BY <1>1
  <1>3. \A q \in Requests : request'[q].screenshot # None => attachment[request'[q].screenshot].row = "stored"
    BY <1>1, <1>2 DEF PInv, ScreenshotsAreStored
  <1>4. QED
    BY <1>1, <1>2, <1>3 DEF Releases, PInv, PaidKeepsScreenshot

\* Completing and rejecting schedule the screenshot of a request that is no
\* longer paid by then; it is no other request's.
LEMMA ScheduledReleases ==
  ASSUME IInv, PInv, NEW h \in Handlers, NEW r \in txn[h].reqs, NEW row \in Row,
         row.screenshot = request[r].screenshot, row.status # "paid",
         request' = [request EXCEPT ![r] = row], UNCHANGED files,
         attachment' = Scheduled(txn[h].snap[r].screenshot, txn[h].moment)
  PROVE  Releases(h)
  <1> DEFINE a == txn[h].snap[r].screenshot
             later == txn[h].moment + Retention
  <1>1. /\ r \in Requests /\ request \in [Requests -> Row] /\ a \in Attachments \cup {None}
        /\ attachment \in [Attachments -> AttachmentRow] /\ later # None
    <2>1. later \in Nat
      BY TxnType, DurationsAssumption DEF IInv
    <2>2. QED
      BY <2>1, TxnType, NoneAssumption DEF IInv, TypeOK, Row
  <1>2. request'[r] = row /\ \A q \in Requests \ {r} : request'[q] = request[q]
    BY <1>1
  <1>3. \/ attachment' = attachment
        \/ a # None /\ attachment[a].row = "stored" /\ attachment' = [attachment EXCEPT ![a].deleteAfter = later]
    BY DEF Scheduled
  <1>4. \A b \in Attachments : /\ attachment'[b].row = attachment[b].row
                               /\ attachment'[b] = attachment[b] \/ attachment'[b].deleteAfter = later
                               /\ b # a \/ attachment[b].row = "unused" => attachment'[b] = attachment[b]
    <2>1. CASE attachment' = attachment
      BY <2>1
    <2>2. CASE a # None /\ attachment[a].row = "stored" /\ attachment' = [attachment EXCEPT ![a].deleteAfter = later]
      <3> HIDE DEF a, later
      <3>1. QED
        BY <1>1, <2>2 DEF AttachmentRow
    <2>3. QED
      BY <1>3, <2>1, <2>2
  <1> HIDE DEF later
  <1>5. \A q \in Requests : request'[q].screenshot # None => attachment'[request'[q].screenshot].row = "stored"
    BY <1>1, <1>2, <1>4 DEF PInv, ScreenshotsAreStored, Row
  <1>6. ASSUME NEW q \in Requests, request'[q].status = "paid"
        PROVE  attachment'[request[q].screenshot] = attachment[request[q].screenshot]
    <2>1. q # r /\ request[q].status = "paid"
      BY <1>2, <1>6
    <2>2. request[q].screenshot \in Attachments /\ request[q].screenshot # None
      BY <1>1, <2>1 DEF PInv, PaidKeepsScreenshot, Row
    <2>3. request[q].screenshot # a
      BY <2>1, <2>2 DEF PInv, ScreenshotsAreApart
    <2>4. QED
      BY <1>4, <2>2, <2>3
  <1>7. \A q \in Requests : /\ request'[q].screenshot = request[q].screenshot
                            /\ request'[q].status = "paid" => request[q].status = "paid"
    BY <1>1, <1>2
  <1>8. \A b \in Attachments :
          /\ attachment[b].row = "unused" => attachment'[b] = attachment[b]
          /\ attachment'[b].row = "unused" => attachment[b].row = "unused"
          /\ attachment[b].deleteAfter # None => attachment'[b].deleteAfter # None
          /\ attachment'[b].row = "deleted" => b \notin files
    BY <1>1, <1>4 DEF PInv, PaidKeepsScreenshot
  <1>9. QED
    BY <1>5, <1>6, <1>7, <1>8 DEF Releases

\* What a merge with the snapshot leaves of a row.
LEMMA MergeKeepsScreenshot ==
  ASSUME NEW db \in Row, NEW old \in Row, NEW new \in Row, new.screenshot = old.screenshot
  PROVE  Merge(db, old, new).screenshot = db.screenshot
  BY DEF Merge

\* The new row of a commit that changes a status, and maybe the deadline.
LEMMA NewRow ==
  ASSUME NEW old \in Row, NEW to \in Status
  PROVE  /\ [old EXCEPT !.status = to] \in Row
         /\ [old EXCEPT !.status = to].status = to
         /\ [old EXCEPT !.status = to].screenshot = old.screenshot
         /\ [old EXCEPT !.status = to, !.deadline = None] \in Row
         /\ [old EXCEPT !.status = to, !.deadline = None].status = to
         /\ [old EXCEPT !.status = to, !.deadline = None].screenshot = old.screenshot
  BY DEF Row

\* The row such a commit stores.
LEMMA StoredRow ==
  ASSUME IInv, NEW h \in Handlers, NEW r \in txn[h].reqs, NEW new \in Row,
         new.status # txn[h].snap[r].status, new.screenshot = txn[h].snap[r].screenshot
  PROVE  /\ Merge(request[r], txn[h].snap[r], new) \in Row
         /\ Merge(request[r], txn[h].snap[r], new).status = new.status
         /\ Merge(request[r], txn[h].snap[r], new).screenshot = request[r].screenshot
  <1>1. request[r] \in Row /\ txn[h].snap[r] \in Row
    BY TxnType DEF IInv
  <1>2. QED
    BY <1>1, MergeType, MergeStatus, MergeKeepsScreenshot

LEMMA CommitReleases ==
  ASSUME IInv, PInv, NEW h \in Handlers, Commit(h), ~CommitAttach(h)
  PROVE  Releases(h) /\ txn' = [txn EXCEPT ![h] = Idle]
  <1>1. CASE CommitCreate(h)
    <2>1. PICK r \in txn[h].reqs :
            /\ txn[h].op = "create" /\ txn' = [txn EXCEPT ![h] = Idle]
            /\ request' = [request EXCEPT ![r] = [txn[h].snap[r] EXCEPT !.status = "sent"]]
            /\ UNCHANGED <<attachment, files>>
      BY <1>1 DEF CommitCreate, Flush
    <2> DEFINE row == [txn[h].snap[r] EXCEPT !.status = "sent"]
    <2>2. row \in Row /\ row.status = "sent" /\ row.screenshot = txn[h].snap[r].screenshot
      BY TxnType, NewRow DEF IInv, Status
    <2>3. txn[h].snap[r].screenshot = None
      BY <2>1 DEF PInv, NewIsBlank
    <2>4. request' = [request EXCEPT ![r] = row]
      BY <2>1
    <2> HIDE DEF row
    <2>5. Releases(h)
      BY <2>1, <2>2, <2>3, <2>4, MergedReleases
    <2>6. QED
      BY <2>1, <2>5
  <1>2. CASE CommitAccept(h)
    <2>1. PICK r \in txn[h].reqs :
            /\ txn[h].op = "accept" /\ txn' = [txn EXCEPT ![h] = Idle]
            /\ request' = [request EXCEPT ![r] = Merge(@, txn[h].snap[r], [txn[h].snap[r] EXCEPT !.status = "accepted"])]
            /\ UNCHANGED <<attachment, files>>
      BY <1>2 DEF CommitAccept, Flush
    <2> DEFINE new == [txn[h].snap[r] EXCEPT !.status = "accepted"]
               row == Merge(request[r], txn[h].snap[r], new)
    <2>2. txn[h].snap[r] \in Row /\ txn[h].snap[r].status # "accepted"
      BY <2>1, DecidedStatus DEF DecidedOn, Status, Final, Cancellable
    <2>3. new \in Row /\ new.status = "accepted" /\ new.screenshot = txn[h].snap[r].screenshot
      BY <2>2, NewRow DEF Status, Final
    <2>4. row \in Row /\ row.status = "accepted" /\ row.screenshot = request[r].screenshot
      <3> HIDE DEF new
      <3>1. QED
        BY <2>2, <2>3, StoredRow
    <2>5. request' = [request EXCEPT ![r] = row]
      BY <2>1
    <2> HIDE DEF row
    <2>6. Releases(h)
      BY <2>1, <2>4, <2>5, MergedReleases
    <2>7. QED
      BY <2>1, <2>6
  <1>3. CASE CommitRequisites(h)
    <2>1. PICK r \in txn[h].reqs :
            /\ txn[h].op = "send_requisites" /\ txn' = [txn EXCEPT ![h] = Idle]
            /\ request' = [request EXCEPT ![r] =
                  [Merge(@, txn[h].snap[r], [txn[h].snap[r] EXCEPT !.status = "awaiting_payment"])
                     EXCEPT !.deadline = txn[h].moment + PayTimeout]]
            /\ UNCHANGED <<attachment, files>>
      BY <1>3 DEF CommitRequisites, Flush
    <2> DEFINE new == [txn[h].snap[r] EXCEPT !.status = "awaiting_payment"]
               mid == Merge(request[r], txn[h].snap[r], new)
               row == [mid EXCEPT !.deadline = txn[h].moment + PayTimeout]
    <2>2. /\ txn[h].snap[r] \in Row /\ txn[h].snap[r].status # "awaiting_payment"
          /\ txn[h].moment + PayTimeout \in Nat
      BY <2>1, DecidedStatus, DurationsAssumption DEF DecidedOn
    <2>3. new \in Row /\ new.status = "awaiting_payment" /\ new.screenshot = txn[h].snap[r].screenshot
      BY <2>2, NewRow DEF Status
    <2>4. mid \in Row /\ mid.status = "awaiting_payment" /\ mid.screenshot = request[r].screenshot
      <3> HIDE DEF new
      <3>1. QED
        BY <2>2, <2>3, StoredRow
    <2>5. row \in Row /\ row.status = "awaiting_payment" /\ row.screenshot = request[r].screenshot
      <3> HIDE DEF mid
      <3>1. QED
        BY <2>2, <2>4 DEF Row
    <2>6. request' = [request EXCEPT ![r] = row]
      BY <2>1
    <2> HIDE DEF row
    <2>7. Releases(h)
      BY <2>1, <2>5, <2>6, MergedReleases
    <2>8. QED
      BY <2>1, <2>7
  <1>4. CASE CommitComplete(h)
    <2>1. PICK r \in txn[h].reqs :
            /\ txn[h].op = "complete" /\ txn' = [txn EXCEPT ![h] = Idle]
            /\ request' = [request EXCEPT ![r] = Merge(@, txn[h].snap[r], [txn[h].snap[r] EXCEPT !.status = "completed", !.deadline = None])]
            /\ UNCHANGED files /\ attachment' = Scheduled(txn[h].snap[r].screenshot, txn[h].moment)
      BY <1>4 DEF CommitComplete, Flush
    <2> DEFINE new == [txn[h].snap[r] EXCEPT !.status = "completed", !.deadline = None]
               row == Merge(request[r], txn[h].snap[r], new)
    <2>2. txn[h].snap[r] \in Row /\ txn[h].snap[r].status # "completed"
      BY <2>1, DecidedStatus DEF DecidedOn, Status, Final, Cancellable
    <2>3. new \in Row /\ new.status = "completed" /\ new.screenshot = txn[h].snap[r].screenshot
      BY <2>2, NewRow DEF Status, Final
    <2>4. row \in Row /\ row.status = "completed" /\ row.screenshot = request[r].screenshot
      <3> HIDE DEF new
      <3>1. QED
        BY <2>2, <2>3, StoredRow
    <2>5. request' = [request EXCEPT ![r] = row]
      BY <2>1
    <2> HIDE DEF row
    <2>6. Releases(h)
      BY <2>1, <2>4, <2>5, ScheduledReleases
    <2>7. QED
      BY <2>1, <2>6
  <1>5. CASE CommitReject(h)
    <2>1. PICK r \in txn[h].reqs :
            /\ txn[h].op = "reject" /\ txn' = [txn EXCEPT ![h] = Idle]
            /\ request' = [request EXCEPT ![r] = Merge(@, txn[h].snap[r], [txn[h].snap[r] EXCEPT !.status = "rejected", !.deadline = None])]
            /\ UNCHANGED files /\ attachment' = Scheduled(txn[h].snap[r].screenshot, txn[h].moment)
      BY <1>5 DEF CommitReject, Flush
    <2> DEFINE new == [txn[h].snap[r] EXCEPT !.status = "rejected", !.deadline = None]
               row == Merge(request[r], txn[h].snap[r], new)
    <2>2. txn[h].snap[r] \in Row /\ txn[h].snap[r].status # "rejected"
      BY <2>1, DecidedStatus DEF DecidedOn, Status, Final, Cancellable
    <2>3. new \in Row /\ new.status = "rejected" /\ new.screenshot = txn[h].snap[r].screenshot
      BY <2>2, NewRow DEF Status, Final
    <2>4. row \in Row /\ row.status = "rejected" /\ row.screenshot = request[r].screenshot
      <3> HIDE DEF new
      <3>1. QED
        BY <2>2, <2>3, StoredRow
    <2>5. request' = [request EXCEPT ![r] = row]
      BY <2>1
    <2> HIDE DEF row
    <2>6. Releases(h)
      BY <2>1, <2>4, <2>5, ScheduledReleases
    <2>7. QED
      BY <2>1, <2>6
  <1>6. CASE CommitCancel(h)
    <2>1. PICK r \in txn[h].reqs :
            /\ txn[h].op = "cancel" /\ txn' = [txn EXCEPT ![h] = Idle]
            /\ request' = [request EXCEPT ![r] = Merge(@, txn[h].snap[r], [txn[h].snap[r] EXCEPT !.status = "cancelled", !.deadline = None])]
            /\ UNCHANGED <<attachment, files>>
      BY <1>6 DEF CommitCancel, Flush
    <2> DEFINE new == [txn[h].snap[r] EXCEPT !.status = "cancelled", !.deadline = None]
               row == Merge(request[r], txn[h].snap[r], new)
    <2>2. txn[h].snap[r] \in Row /\ txn[h].snap[r].status # "cancelled"
      BY <2>1, DecidedStatus DEF DecidedOn, Status, Final, Cancellable
    <2>3. new \in Row /\ new.status = "cancelled" /\ new.screenshot = txn[h].snap[r].screenshot
      BY <2>2, NewRow DEF Status, Final
    <2>4. row \in Row /\ row.status = "cancelled" /\ row.screenshot = request[r].screenshot
      <3> HIDE DEF new
      <3>1. QED
        BY <2>2, <2>3, StoredRow
    <2>5. request' = [request EXCEPT ![r] = row]
      BY <2>1
    <2> HIDE DEF row
    <2>6. Releases(h)
      BY <2>1, <2>4, <2>5, MergedReleases
    <2>7. QED
      BY <2>1, <2>6
  <1>7. ASSUME txn[h].op \in {"expire", "housekeeping"}
        PROVE  \A r \in Requests : /\ Expired(h)[r].screenshot = request[r].screenshot
                                   /\ Expired(h)[r].status = "paid" => request[r].status = "paid"
    <2> SUFFICES ASSUME NEW r \in Requests
                 PROVE  /\ Expired(h)[r].screenshot = request[r].screenshot
                        /\ Expired(h)[r].status = "paid" => request[r].status = "paid"
      OBVIOUS
    <2>1. CASE r \in txn[h].reqs
      <3> DEFINE new == [txn[h].snap[r] EXCEPT !.status = "expired", !.deadline = None]
      <3>1. txn[h].snap[r] \in Row /\ txn[h].snap[r].status # "expired"
        BY <1>7, <2>1, DecidedStatus DEF DecidedOn
      <3>2. new \in Row /\ new.status = "expired" /\ new.screenshot = txn[h].snap[r].screenshot
        BY <3>1, NewRow DEF Status, Final
      <3>3. Expired(h)[r] = Merge(request[r], txn[h].snap[r], new)
        BY <2>1 DEF Expired
      <3> HIDE DEF new
      <3>4. QED
        BY <2>1, <3>1, <3>2, <3>3, StoredRow
    <2>2. CASE r \notin txn[h].reqs
      BY <2>2 DEF Expired
    <2>3. QED
      BY <2>1, <2>2
  <1>8. CASE CommitRead(h)
    <2>1. /\ txn[h].op = "expire" /\ txn' = [txn EXCEPT ![h] = Idle] /\ request' = Expired(h)
          /\ UNCHANGED <<attachment, files>>
      BY <1>8 DEF CommitRead, Flush
    <2>2. QED
      BY <1>7, <2>1 DEF Releases, PInv, ScreenshotsAreStored, PaidKeepsScreenshot
  <1>9. CASE CommitHousekeeping(h)
    <2> DEFINE gone == txn[h].purge
               refs == {r \in Requests : Expired(h)[r].screenshot \in gone}
    <2>1. /\ txn[h].op = "housekeeping" /\ txn[h].step = "ready" /\ txn' = [txn EXCEPT ![h] = Idle]
          /\ request' = [r \in Requests |-> IF r \in refs THEN [Expired(h)[r] EXCEPT !.screenshot = None]
                                            ELSE Expired(h)[r]]
          /\ attachment' = [a \in Attachments |->
                              IF a \in gone THEN [attachment[a] EXCEPT !.row = "deleted"] ELSE attachment[a]]
          /\ UNCHANGED files
      BY <1>9 DEF CommitHousekeeping, Flush
    <2>2. \A r \in Requests : /\ Expired(h)[r].screenshot = request[r].screenshot
                              /\ Expired(h)[r].status = "paid" => request[r].status = "paid"
                              /\ Expired(h)[r] \in Row
      BY <1>7, <2>1, ExpiredType DEF IInv
    <2>3. \A a \in gone : a \in Attachments /\ attachment[a].row # "unused" /\ attachment[a].deleteAfter # None
                          /\ a \notin files
      BY <2>1 DEF PInv, PurgesWereScheduled, IInv, TypeOK, Txn
    <2>4. \A a \in Attachments : /\ attachment[a] \in AttachmentRow
                                 /\ a \in gone => attachment'[a].row = "deleted"
                                                  /\ attachment'[a].deleteAfter = attachment[a].deleteAfter
                                 /\ a \notin gone => attachment'[a] = attachment[a]
      BY <2>1 DEF IInv, TypeOK, AttachmentRow
    <2>5. \A r \in Requests : /\ request'[r].status = Expired(h)[r].status
                              /\ request[r].screenshot \in gone => request'[r].screenshot = None
                              /\ request[r].screenshot \notin gone => request'[r].screenshot = request[r].screenshot
      BY <2>1, <2>2 DEF Row
    <2>6. \A r \in Requests : request[r].screenshot \in Attachments \cup {None}
      BY DEF IInv, TypeOK, Row
    <2> HIDE DEF gone
    <2>7. \A r \in Requests :
            /\ request'[r].screenshot \in {request[r].screenshot, None}
            /\ request'[r].screenshot # None => attachment'[request'[r].screenshot].row = "stored"
      BY <2>4, <2>5, <2>6 DEF PInv, ScreenshotsAreStored
    <2>8. ASSUME NEW r \in Requests, request'[r].status = "paid"
          PROVE  /\ request[r].status = "paid" /\ request'[r].screenshot = request[r].screenshot
                 /\ attachment'[request[r].screenshot] = attachment[request[r].screenshot]
      <3>1. request[r].status = "paid"
        BY <2>2, <2>5, <2>8
      <3>2. request[r].screenshot # None /\ attachment[request[r].screenshot].deleteAfter = None
        BY <3>1 DEF PInv, PaidKeepsScreenshot
      <3>3. request[r].screenshot \in Attachments \ gone
        BY <2>3, <2>6, <3>2
      <3>4. QED
        BY <2>4, <2>5, <3>1, <3>3
    <2>9. \A a \in Attachments :
            /\ attachment[a].row = "unused" => attachment'[a] = attachment[a]
            /\ attachment'[a].row = "unused" => attachment[a].row = "unused"
            /\ attachment[a].deleteAfter # None => attachment'[a].deleteAfter # None
            /\ attachment'[a].row = "deleted" => a \notin files
      BY <2>3, <2>4 DEF PInv, PaidKeepsScreenshot
    <2>10. Releases(h)
      BY <2>1, <2>7, <2>8, <2>9 DEF Releases
    <2>11. QED
      BY <2>1, <2>10
  <1>10. QED
    BY <1>1, <1>2, <1>3, <1>4, <1>5, <1>6, <1>8, <1>9 DEF Commit

\* An upload commits: its file becomes the screenshot of its request.
LEMMA AttachKeepsPInv ==
  ASSUME IInv, PInv, NEW h \in Handlers, CommitAttach(h)
  PROVE  PInv'
  <1>1. PICK r \in txn[h].reqs :
          /\ txn[h].op = "attach" /\ txn[h].step = "ready" /\ txn' = [txn EXCEPT ![h] = Idle]
          /\ request' = [request EXCEPT ![r] = Merge(@, txn[h].snap[r],
                [txn[h].snap[r] EXCEPT !.status = "paid", !.deadline = None, !.screenshot = txn[h].file])]
          /\ attachment' = [attachment EXCEPT ![txn[h].file].row = "stored"]
          /\ UNCHANGED files
    BY DEF CommitAttach, Flush
  <1> DEFINE a == txn[h].file
             new == [txn[h].snap[r] EXCEPT !.status = "paid", !.deadline = None, !.screenshot = a]
             row == Merge(request[r], txn[h].snap[r], new)
  <1>2. /\ r \in Requests /\ a \in Attachments /\ a # None /\ a \in files
        /\ attachment[a].row = "unused" /\ attachment[a].deleteAfter = None
        /\ txn[h].snap[r] \in Row /\ request[r] \in Row
        /\ txn[h].snap[r].status # "paid"
    BY <1>1, DecidedStatus, NoneAssumption
    DEF DecidedOn, IInv, UploadHasKey, PInv, UploadsAreFresh, UnusedIsUnscheduled
  <1>3. /\ \A q \in Requests : request[q].screenshot # a
        /\ \A g \in Handlers : \A q \in txn[g].reqs : txn[g].snap[q].screenshot # a
    BY <1>2 DEF PInv, ScreenshotsAreStored
  <1>4. new \in Row /\ new.status = "paid" /\ new.screenshot = a
    BY <1>2 DEF Row, Status
  <1>5. row.status = "paid" /\ row.screenshot = a
    <2>1. txn[h].snap[r].screenshot # a
      BY <1>3
    <2> HIDE DEF new
    <2>2. QED
      BY <1>2, <1>4, <2>1 DEF Merge
  <1>6. request' = [request EXCEPT ![r] = row]
    BY <1>1
  <1> HIDE DEF row
  <1>7. /\ request'[r].status = "paid" /\ request'[r].screenshot = a
        /\ \A q \in Requests \ {r} : request'[q] = request[q]
    BY <1>2, <1>5, <1>6 DEF IInv, TypeOK
  <1>8. /\ attachment'[a] = [row |-> "stored", deleteAfter |-> None]
        /\ \A b \in Attachments \ {a} : attachment'[b] = attachment[b]
    BY <1>1, <1>2 DEF IInv, TypeOK, AttachmentRow
  <1>9. /\ txn'[h].op = "idle" /\ txn'[h].reqs = {}
        /\ \A g \in Handlers \ {h} : txn'[g] = txn[g]
    BY <1>1 DEF IInv, TypeOK, Idle
  <1>10. /\ \A q \in Requests : request[q].screenshot \in Attachments \cup {None}
         /\ \A g \in Handlers : txn[g].reqs \subseteq Requests /\ txn[g].purge \subseteq Attachments
         /\ \A g \in Handlers : \A q \in txn[g].reqs : txn[g].snap[q].screenshot \in Attachments \cup {None}
         /\ \A g \in Handlers : txn[g].op = "attach" => txn[g].file \in Attachments
    BY DEF IInv, TypeOK, Txn, Row, UploadHasKey
  <1>11. \A g \in Handlers \ {h} : txn[g].op = "attach" => txn[g].file # a
    BY <1>1 DEF PInv, UploadsAreFresh
  <1> HIDE DEF a
  <1>12. UnusedIsUnscheduled'
    BY <1>8 DEF PInv, UnusedIsUnscheduled
  <1>13. ScreenshotsAreStored'
    <2>1. \A q \in Requests : request'[q].screenshot # None => attachment'[request'[q].screenshot].row = "stored"
      BY <1>3, <1>7, <1>8, <1>10 DEF PInv, ScreenshotsAreStored
    <2>2. \A g \in Handlers : \A q \in txn'[g].reqs :
            txn'[g].snap[q].screenshot # None => attachment'[txn'[g].snap[q].screenshot].row # "unused"
      BY <1>3, <1>8, <1>9, <1>10 DEF PInv, ScreenshotsAreStored
    <2>3. QED
      BY <2>1, <2>2 DEF ScreenshotsAreStored
  <1>14. ScreenshotsAreApart'
    BY <1>3, <1>7, <1>9 DEF PInv, ScreenshotsAreApart
  <1>15. UploadsAreFresh'
    BY <1>1, <1>8, <1>9, <1>10, <1>11 DEF PInv, UploadsAreFresh
  <1>16. PurgesWereScheduled'
    BY <1>1, <1>2, <1>8, <1>9, <1>10 DEF PInv, PurgesWereScheduled
  <1>17. NewIsBlank'
    BY <1>9 DEF PInv, NewIsBlank
  <1>18. PaidKeepsScreenshot'
    BY <1>1, <1>2, <1>3, <1>7, <1>8, <1>10 DEF PInv, PaidKeepsScreenshot
  <1>19. QED
    BY <1>12, <1>13, <1>14, <1>15, <1>16, <1>17, <1>18 DEF PInv

\* Loading remembers rows as they are.
LEMMA BeginKeepsPInv ==
  ASSUME IInv, PInv, NEW h \in Handlers, NEW op \in Ops \ {"create", "attach"}, NEW S \in SUBSET Requests,
         Begin(h, op, S)
  PROVE  PInv'
  <1> DEFINE t == [Idle EXCEPT !.op = op, !.reqs = S, !.snap = Snapshot(S), !.moment = clock]
  <1>1. t.op = op /\ t.reqs = S /\ t.snap = Snapshot(S) /\ t.step = "loaded"
    BY DEF Idle
  <1>2. txn' = [txn EXCEPT ![h] = t] /\ UNCHANGED <<request, attachment, files>>
    BY DEF Begin
  <1> HIDE DEF t
  <1>3. txn'[h] = t /\ \A g \in Handlers \ {h} : txn'[g] = txn[g]
    BY <1>2 DEF IInv, TypeOK
  <1>4. \A r \in S : t.snap[r].screenshot = request[r].screenshot
    BY <1>1 DEF Snapshot
  <1>5. QED
    BY <1>1, <1>2, <1>3, <1>4, RemembersKeepsPInv

LEMMA LoadKeepsPInv ==
  ASSUME IInv, PInv, NEW h \in Handlers, Load(h)
  PROVE  PInv'
  <1>1. ASSUME NEW r \in Requests, LoadForCreate(h, r) PROVE PInv'
    <2>1. PICK k \in Kinds :
            txn' = [txn EXCEPT ![h] = [Idle EXCEPT !.op = "create", !.reqs = {r}, !.moment = clock,
                                       !.snap = [Idle.snap EXCEPT ![r].kind = k]]]
      BY <1>1 DEF LoadForCreate
    <2> DEFINE s == [Idle.snap EXCEPT ![r].kind = k]
               t == [Idle EXCEPT !.op = "create", !.reqs = {r}, !.moment = clock, !.snap = s]
    <2>2. s[r].screenshot = None
      BY DEF Idle, NoRow
    <2>3. t.op = "create" /\ t.reqs = {r} /\ t.snap = s /\ t.step = "loaded"
      BY DEF Idle
    <2>4. txn' = [txn EXCEPT ![h] = t]
      BY <2>1
    <2> HIDE DEF s, t
    <2>5. txn'[h] = t /\ \A g \in Handlers \ {h} : txn'[g] = txn[g]
      BY <2>4 DEF IInv, TypeOK
    <2>6. UNCHANGED <<request, attachment, files>>
      BY <1>1 DEF LoadForCreate
    <2>7. QED
      BY <2>2, <2>3, <2>5, <2>6, RemembersKeepsPInv
  <1>2. ASSUME NEW r \in Requests, LoadForAttach(h, r) PROVE PInv'
    <2>1. PICK a \in Attachments :
            /\ attachment[a].row = "unused" /\ \A g \in Handlers : txn[g].file # a
            /\ txn' = [txn EXCEPT ![h] = [Idle EXCEPT !.op = "attach", !.reqs = {r}, !.file = a,
                                          !.snap = Snapshot({r}), !.moment = clock]]
      BY <1>2 DEF LoadForAttach
    <2> DEFINE t == [Idle EXCEPT !.op = "attach", !.reqs = {r}, !.file = a,
                                 !.snap = Snapshot({r}), !.moment = clock]
    <2>2. /\ t.op = "attach" /\ t.reqs = {r} /\ t.snap = Snapshot({r}) /\ t.file = a /\ t.step = "loaded"
          /\ Snapshot({r})[r] = request[r]
      BY DEF Idle, Snapshot
    <2>3. txn' = [txn EXCEPT ![h] = t] /\ UNCHANGED <<request, attachment, files>>
      BY <1>2, <2>1 DEF LoadForAttach
    <2> HIDE DEF t
    <2>4. txn'[h] = t /\ \A g \in Handlers \ {h} : txn'[g] = txn[g]
      BY <2>3 DEF IInv, TypeOK
    <2>5. /\ attachment[a].row = "unused" /\ UNCHANGED <<request, attachment, files>>
          /\ \A g \in Handlers \ {h} : txn'[g].file # a
      BY <2>1, <2>3, <2>4
    <2>6. QED
      BY <2>2, <2>4, <2>5, RemembersKeepsPInv
  <1>3. ASSUME NEW op \in Ops \ {"create", "attach"}, NEW r \in Requests, BeginOn(h, op, r) PROVE PInv'
    BY <1>3, BeginKeepsPInv DEF BeginOn
  <1>4. CASE LoadForRead(h)
    BY <1>4, BeginKeepsPInv DEF LoadForRead, Ops
  <1>5. CASE LoadForHousekeeping(h)
    BY <1>5, BeginKeepsPInv DEF LoadForHousekeeping, Ops
  <1>6. QED
    BY <1>1, <1>2, <1>3, <1>4, <1>5
    DEF Load, LoadForAccept, LoadForRequisites, LoadForComplete, LoadForReject, LoadForCancel, Ops

LEMMA SaveFileKeepsPInv ==
  ASSUME IInv, PInv, NEW h \in Handlers, SaveFile(h)
  PROVE  PInv'
  <1>1. /\ txn[h].op = "attach" /\ files' = files \cup {txn[h].file}
        /\ txn' = [txn EXCEPT ![h].step = "ready"] /\ UNCHANGED <<request, attachment>>
    BY DEF SaveFile
  <1>2. /\ \A g \in Handlers : /\ txn'[g].op = txn[g].op /\ txn'[g].reqs = txn[g].reqs
                               /\ txn'[g].snap = txn[g].snap /\ txn'[g].file = txn[g].file
                               /\ txn'[g].purge = txn[g].purge
        /\ \A g \in Handlers \ {h} : txn'[g] = txn[g]
    BY <1>1 DEF IInv, TypeOK, Txn
  <1>3. txn[h].file \in Attachments /\ attachment[txn[h].file].row = "unused"
    BY <1>1 DEF IInv, UploadHasKey, PInv, UploadsAreFresh
  <1>4. /\ UnusedIsUnscheduled' /\ ScreenshotsAreStored' /\ ScreenshotsAreApart' /\ NewIsBlank'
    <2>1. UnusedIsUnscheduled'
      BY <1>1 DEF PInv, UnusedIsUnscheduled
    <2>2. ScreenshotsAreStored'
      BY <1>1, <1>2 DEF PInv, ScreenshotsAreStored
    <2>3. ScreenshotsAreApart'
      BY <1>1, <1>2 DEF PInv, ScreenshotsAreApart
    <2>4. NewIsBlank'
      BY <1>2 DEF PInv, NewIsBlank
    <2>5. QED
      BY <2>1, <2>2, <2>3, <2>4
  <1>5. UploadsAreFresh'
    BY <1>1, <1>2 DEF PInv, UploadsAreFresh
  <1>6. PurgesWereScheduled'
    BY <1>1, <1>2, <1>3 DEF PInv, PurgesWereScheduled
  <1>7. PaidKeepsScreenshot'
    BY <1>1, <1>3 DEF PInv, PaidKeepsScreenshot
  <1>8. QED
    BY <1>4, <1>5, <1>6, <1>7 DEF PInv

LEMMA PurgeFilesKeepsPInv ==
  ASSUME IInv, PInv, NEW h \in Handlers, PurgeFiles(h)
  PROVE  PInv'
  <1> DEFINE gone == ExpiredAttachments(clock)
  <1>1. txn[h].op = "housekeeping" /\ files' = files \ gone /\ UNCHANGED <<request, attachment>>
    BY DEF PurgeFiles
  <1>2. \A a \in gone : a \in Attachments /\ attachment[a].row = "stored" /\ attachment[a].deleteAfter # None
    BY DEF ExpiredAttachments
  <1> HIDE DEF gone
  <1>3. /\ \A g \in Handlers : /\ txn'[g].op = txn[g].op /\ txn'[g].reqs = txn[g].reqs
                               /\ txn'[g].snap = txn[g].snap /\ txn'[g].file = txn[g].file
        /\ \A g \in Handlers \ {h} : txn'[g] = txn[g]
        /\ txn'[h].purge = gone
    <2>1. txn' = [txn EXCEPT ![h].purge = gone, ![h].step = "ready"]
      BY DEF PurgeFiles, gone
    <2>2. QED
      BY <2>1 DEF IInv, TypeOK, Txn
  <1>4. /\ UnusedIsUnscheduled' /\ ScreenshotsAreStored' /\ ScreenshotsAreApart' /\ NewIsBlank'
    <2>1. UnusedIsUnscheduled'
      BY <1>1 DEF PInv, UnusedIsUnscheduled
    <2>2. ScreenshotsAreStored'
      BY <1>1, <1>3 DEF PInv, ScreenshotsAreStored
    <2>3. ScreenshotsAreApart'
      BY <1>1, <1>3 DEF PInv, ScreenshotsAreApart
    <2>4. NewIsBlank'
      BY <1>3 DEF PInv, NewIsBlank
    <2>5. QED
      BY <2>1, <2>2, <2>3, <2>4
  <1>5. UploadsAreFresh'
    <2>1. \A g \in Handlers : txn[g].op = "attach" => txn[g].file \notin gone
      BY <1>2 DEF PInv, UploadsAreFresh
    <2>2. QED
      BY <1>1, <1>3, <2>1 DEF PInv, UploadsAreFresh
  <1>6. PurgesWereScheduled'
    BY <1>1, <1>2, <1>3 DEF PInv, PurgesWereScheduled
  <1>7. PaidKeepsScreenshot'
    BY <1>1, <1>2 DEF PInv, PaidKeepsScreenshot
  <1>8. QED
    BY <1>4, <1>5, <1>6, <1>7 DEF PInv

LEMMA NextKeepsPInv ==
  ASSUME IInv, PInv, [Next]_vars
  PROVE  PInv'
  <1>1. ASSUME NEW h \in Handlers, Load(h) PROVE PInv'
    BY <1>1, LoadKeepsPInv
  <1>2. ASSUME NEW h \in Handlers, Commit(h) PROVE PInv'
    <2>1. CASE CommitAttach(h)
      BY <2>1, AttachKeepsPInv
    <2>2. CASE ~CommitAttach(h)
      BY <1>2, <2>2, CommitReleases, ReleasesKeepsPInv
    <2>3. QED
      BY <2>1, <2>2
  <1>3. ASSUME NEW h \in Handlers, SaveFile(h) \/ PurgeFiles(h) PROVE PInv'
    BY <1>3, SaveFileKeepsPInv, PurgeFilesKeepsPInv
  <1>4. ASSUME \A g \in Handlers : txn'[g] = txn[g] \/ txn'[g] = Idle, UNCHANGED <<request, attachment, files>>
        PROVE  PInv'
    <2>1. Idle.op = "idle" /\ Idle.reqs = {}
      BY DEF Idle
    <2>2. QED
      BY <1>4, <2>1, RemembersKeepsPInv
  <1>5. ASSUME NEW h \in Handlers, Rollback(h) PROVE PInv'
    BY <1>4, <1>5 DEF Rollback, IInv, TypeOK
  <1>6. CASE Restart
    BY <1>4, <1>6 DEF Restart
  <1>7. ASSUME NEW p \in Players, UpdatePlayer(p) PROVE PInv'
    BY <1>4, <1>7 DEF UpdatePlayer
  <1>8. CASE Tick
    BY <1>4, <1>8 DEF Tick
  <1>9. CASE UNCHANGED vars
    BY <1>4, <1>9 DEF vars
  <1>10. QED
    BY <1>1, <1>2, <1>3, <1>5, <1>6, <1>7, <1>8, <1>9 DEF Next

LEMMA ScreenshotInvariance == Spec => []PInv
  <1>1. IInv /\ PInv /\ [Next]_vars => PInv'
    BY NextKeepsPInv
  <1>2. QED
    BY <1>1, InitPInv, Invariance, PTL DEF Spec

\* attach_screenshot and purge_expired: while a request is paid its screenshot is
\* there, in the table and on the disk, and nothing is going to delete it,
\* whatever runs at the same time; what the table calls deleted is off the disk.
THEOREM PaymentIsKept == Spec => []PaidKeepsScreenshot
  <1>1. PInv => PaidKeepsScreenshot
    BY DEF PInv
  <1>2. QED
    BY <1>1, ScreenshotInvariance, PTL

-----------------------------------------------------------------------------
(* One transaction at a time.  The statements below are false as soon as two *)
(* overlap; they hold when what a handler loaded is still so at its commit.  *)

OneAtATime == \A g, h \in Handlers : g = h

\* What a handler remembers of its requests is what the table says.
SnapshotsAreCurrent ==
  \A h \in Handlers : \A r \in txn[h].reqs :
    /\ txn[h].op # "create" => txn[h].snap[r] = request[r]
    /\ txn[h].op = "create" => request[r].status = "absent"
    /\ txn[h].op = "send_requisites" => txn[h].snap[r].kind = "topup"

\* All but the expiries are about one request.
OneTarget ==
  \A h \in Handlers : txn[h].op \notin {"idle", "expire", "housekeeping"} =>
    \E r \in Requests : txn[h].reqs = {r}

SInv == SnapshotsAreCurrent /\ OneTarget /\ ClosedScreenshotIsScheduled

LEMMA InitSInv == Init => SInv
  <1> SUFFICES ASSUME Init PROVE SInv
    OBVIOUS
  <1>1. /\ \A r \in Requests : request[r].status = "absent"
        /\ \A h \in Handlers : txn[h].op = "idle" /\ txn[h].reqs = {}
    BY DEF Init, NoRow, Idle
  <1>2. QED
    BY <1>1 DEF SInv, SnapshotsAreCurrent, OneTarget, ClosedScreenshotIsScheduled

\* A step of a handler that touches no row.
LEMMA RemembersKeepsSInv ==
  ASSUME SInv, UNCHANGED <<request, attachment>>,
         \A h \in Handlers :
           \/ txn'[h].reqs = {} /\ txn'[h].op \in {"idle", "expire", "housekeeping"}
           \/ txn'[h].op = txn[h].op /\ txn'[h].reqs = txn[h].reqs /\ txn'[h].snap = txn[h].snap
           \/ /\ \A r \in txn'[h].reqs :
                   /\ txn'[h].op # "create" => txn'[h].snap[r] = request[r]
                   /\ txn'[h].op = "create" => request[r].status = "absent"
                   /\ txn'[h].op = "send_requisites" => request[r].kind = "topup"
              /\ txn'[h].op \notin {"idle", "expire", "housekeeping"} =>
                   \E r \in Requests : txn'[h].reqs = {r}
  PROVE  SInv'
  <1>1. ASSUME NEW h \in Handlers, NEW r \in txn'[h].reqs
        PROVE  /\ txn'[h].op # "create" => txn'[h].snap[r] = request[r]
               /\ txn'[h].op = "create" => request[r].status = "absent"
               /\ txn'[h].op = "send_requisites" => txn'[h].snap[r].kind = "topup"
    BY <1>1 DEF SInv, SnapshotsAreCurrent
  <1>2. OneTarget'
    BY DEF SInv, OneTarget
  <1>3. ClosedScreenshotIsScheduled'
    BY DEF SInv, ClosedScreenshotIsScheduled
  <1>4. QED
    BY <1>1, <1>2, <1>3 DEF SInv, SnapshotsAreCurrent

LEMMA BeginKeepsSInv ==
  ASSUME IInv, SInv, NEW h \in Handlers, NEW op \in Ops \ {"create", "attach"}, NEW S \in SUBSET Requests,
         Begin(h, op, S), op = "send_requisites" => \A r \in S : request[r].kind = "topup",
         op \notin {"expire", "housekeeping"} => \E r \in Requests : S = {r}
  PROVE  SInv'
  <1> DEFINE t == [Idle EXCEPT !.op = op, !.reqs = S, !.snap = Snapshot(S), !.moment = clock]
  <1>1. t.op = op /\ t.reqs = S /\ t.snap = Snapshot(S)
    BY DEF Idle
  <1>2. txn' = [txn EXCEPT ![h] = t] /\ UNCHANGED <<request, attachment>>
    BY DEF Begin
  <1> HIDE DEF t
  <1>3. txn'[h] = t /\ \A g \in Handlers \ {h} : txn'[g] = txn[g]
    BY <1>2 DEF IInv, TypeOK
  <1>4. \A r \in S : t.snap[r] = request[r]
    BY <1>1 DEF Snapshot
  <1>5. UNCHANGED <<request, attachment>>
    BY <1>2
  <1>6. QED
    BY <1>1, <1>3, <1>4, <1>5, RemembersKeepsSInv

LEMMA LoadKeepsSInv ==
  ASSUME IInv, SInv, NEW h \in Handlers, Load(h)
  PROVE  SInv'
  <1>1. ASSUME NEW r \in Requests, LoadForCreate(h, r) PROVE SInv'
    <2>1. PICK k \in Kinds :
            txn' = [txn EXCEPT ![h] = [Idle EXCEPT !.op = "create", !.reqs = {r}, !.moment = clock,
                                       !.snap = [Idle.snap EXCEPT ![r].kind = k]]]
      BY <1>1 DEF LoadForCreate
    <2> DEFINE t == [Idle EXCEPT !.op = "create", !.reqs = {r}, !.moment = clock,
                                 !.snap = [Idle.snap EXCEPT ![r].kind = k]]
    <2>2. t.op = "create" /\ t.reqs = {r}
      BY DEF Idle
    <2>3. txn' = [txn EXCEPT ![h] = t]
      BY <2>1
    <2> HIDE DEF t
    <2>4. txn'[h] = t /\ \A g \in Handlers \ {h} : txn'[g] = txn[g]
      BY <2>3 DEF IInv, TypeOK
    <2>5. UNCHANGED <<request, attachment>> /\ request[r].status = "absent"
      BY <1>1 DEF LoadForCreate, NoRow
    <2>6. QED
      BY <2>2, <2>4, <2>5, RemembersKeepsSInv
  <1>2. ASSUME NEW r \in Requests, LoadForAttach(h, r) PROVE SInv'
    <2>1. PICK a \in Attachments :
            txn' = [txn EXCEPT ![h] = [Idle EXCEPT !.op = "attach", !.reqs = {r}, !.file = a,
                                       !.snap = Snapshot({r}), !.moment = clock]]
      BY <1>2 DEF LoadForAttach
    <2> DEFINE t == [Idle EXCEPT !.op = "attach", !.reqs = {r}, !.file = a,
                                 !.snap = Snapshot({r}), !.moment = clock]
    <2>2. t.op = "attach" /\ t.reqs = {r} /\ t.snap = Snapshot({r}) /\ Snapshot({r})[r] = request[r]
      BY DEF Idle, Snapshot
    <2>3. txn' = [txn EXCEPT ![h] = t]
      BY <2>1
    <2> HIDE DEF t
    <2>4. txn'[h] = t /\ \A g \in Handlers \ {h} : txn'[g] = txn[g]
      BY <2>3 DEF IInv, TypeOK
    <2>5. UNCHANGED <<request, attachment>>
      BY <1>2 DEF LoadForAttach
    <2>6. QED
      BY <2>2, <2>4, <2>5, RemembersKeepsSInv
  <1>3. ASSUME NEW op \in Ops \ {"create", "attach"}, NEW r \in Requests, BeginOn(h, op, r),
               op = "send_requisites" => request[r].kind = "topup"
        PROVE  SInv'
    BY <1>3, BeginKeepsSInv DEF BeginOn
  <1>4. ASSUME NEW r \in Requests, LoadForRequisites(h, r) PROVE SInv'
    BY <1>3, <1>4 DEF LoadForRequisites, SendRequisitesAllowed, Ops
  <1>5. CASE LoadForRead(h)
    BY <1>5, BeginKeepsSInv DEF LoadForRead, Ops
  <1>6. CASE LoadForHousekeeping(h)
    BY <1>6, BeginKeepsSInv DEF LoadForHousekeeping, Ops
  <1>7. QED
    BY <1>1, <1>2, <1>3, <1>4, <1>5, <1>6
    DEF Load, LoadForAccept, LoadForComplete, LoadForReject, LoadForCancel, Ops

\* The UPDATE never changes the kind of a request.
LEMMA KindStays ==
  ASSUME IInv, NEW h \in Handlers, Commit(h), ~CommitCreate(h), NEW q \in Requests
  PROVE  request'[q].kind = request[q].kind
  <1>1. request \in [Requests -> Row] /\ txn[h].reqs \subseteq Requests
    BY DEF IInv, TypeOK, Txn
  <1>2. \A old, new : Merge(request[q], old, new).kind = request[q].kind
    BY DEF Merge
  <1>3. ASSUME NEW r \in txn[h].reqs, NEW old, NEW new,
               request' = [request EXCEPT ![r] = Merge(@, old, new)]
        PROVE  request'[q].kind = request[q].kind
    BY <1>1, <1>2, <1>3
  <1>4. CASE CommitAccept(h) \/ CommitComplete(h) \/ CommitReject(h) \/ CommitCancel(h) \/ CommitAttach(h)
    <2>1. PICK r \in txn[h].reqs : \E new : request' = [request EXCEPT ![r] = Merge(@, txn[h].snap[r], new)]
      BY <1>4 DEF CommitAccept, CommitComplete, CommitReject, CommitCancel, CommitAttach
    <2>2. QED
      BY <1>3, <2>1
  <1>5. CASE CommitRequisites(h)
    <2>1. PICK r \in txn[h].reqs : \E new, later :
            request' = [request EXCEPT ![r] = [Merge(@, txn[h].snap[r], new) EXCEPT !.deadline = later]]
      BY <1>5 DEF CommitRequisites
    <2>2. \A new, later :
            [Merge(request[r], txn[h].snap[r], new) EXCEPT !.deadline = later].kind = request[r].kind
      BY DEF Merge
    <2>3. QED
      BY <1>1, <2>1, <2>2
  <1>6. Expired(h)[q].kind = request[q].kind
    BY <1>2 DEF Expired
  <1>7. CASE CommitRead(h)
    BY <1>6, <1>7 DEF CommitRead
  <1>8. CASE CommitHousekeeping(h)
    <2>1. request'[q] = Expired(h)[q] \/ request'[q] = [Expired(h)[q] EXCEPT !.screenshot = None]
      BY <1>8 DEF CommitHousekeeping
    <2>2. Expired(h)[q] \in Row
      BY ExpiredType DEF IInv
    <2>3. QED
      BY <1>6, <2>1, <2>2 DEF Row
  <1>9. QED
    BY <1>4, <1>5, <1>7, <1>8 DEF Commit

\* A commit of the only transaction is a step of the life cycle, or none.
LEMMA CommitAdvances ==
  ASSUME IInv, SInv, NEW h \in Handlers, Commit(h)
  PROVE  [Lifecycle!Next]_<<[r \in Requests |-> request[r].status], [r \in Requests |-> request[r].kind]>>
  <1> DEFINE status == [r \in Requests |-> request[r].status]
             kind == [r \in Requests |-> request[r].kind]
             op == txn[h].op
             to == LeadsTo(op)
  <1>1. \A r \in txn[h].reqs : r \in Requests /\ txn[h].snap[r].status \in DecidedOn(op)
    BY DecidedStatus
  <1>2. CASE CommitCreate(h)
    <2>1. PICK r \in txn[h].reqs :
            op = "create" /\ request' = [request EXCEPT ![r] = [txn[h].snap[r] EXCEPT !.status = "sent"]]
      BY <1>2 DEF CommitCreate, Flush
    <2> DEFINE row == [txn[h].snap[r] EXCEPT !.status = "sent"]
    <2>2. row.status = "sent" /\ row.kind \in Kinds
      BY TxnType DEF IInv, Row
    <2>3. request' = [request EXCEPT ![r] = row]
      BY <2>1
    <2> HIDE DEF row
    <2>4. r \in Requests /\ request[r].status = "absent"
      BY <1>1, <2>1 DEF SInv, SnapshotsAreCurrent
    <2>5. status' = [status EXCEPT ![r] = "sent"] /\ kind' = [kind EXCEPT ![r] = row.kind]
      BY <2>2, <2>3, <2>4 DEF IInv, TypeOK
    <2>6. Lifecycle!Create(r)
      BY <2>2, <2>4, <2>5 DEF Lifecycle!Create, Kinds
    <2>7. QED
      BY <2>4, <2>6 DEF Lifecycle!Next
  <1>3. CASE ~CommitCreate(h)
    <2>1. PICK S : Writes(h, S, to)
      BY CommitWrites
    <2>2. op \in Ops /\ Flush(h, op)
      BY CommitWrites
    <2>3. op # "create"
      BY <1>3 DEF Commit, Flush, CommitAccept, CommitRequisites, CommitComplete, CommitReject,
                  CommitCancel, CommitAttach, CommitRead, CommitHousekeeping
    <2>4. kind' = kind
      BY <1>3, KindStays
    <2>5. status' = [r \in Requests |-> IF r \in S THEN to ELSE status[r]] /\ S \subseteq txn[h].reqs
      BY <1>1, <2>1 DEF Writes
    <2>6. \A r \in S : r \in Requests /\ status[r] \in DecidedOn(op)
      BY <1>1, <2>3, <2>5 DEF SInv, SnapshotsAreCurrent
    <2>7. CASE S = {}
      BY <2>4, <2>5, <2>7
    <2>8. CASE S # {} /\ op \in {"expire", "housekeeping"}
      <3>1. to = "expired" /\ \A r \in S : status[r] \in Lifecycle!Before("expired")
        BY <2>6, <2>8 DEF LeadsTo, DecidedOn, Lifecycle!Before
      <3>2. Lifecycle!Expire(S)
        BY <2>4, <2>5, <3>1 DEF Lifecycle!Expire
      <3>3. S \in (SUBSET Requests) \ {{}}
        BY <2>6, <2>8
      <3>4. QED
        BY <3>2, <3>3 DEF Lifecycle!Next
    <2>9. CASE S # {} /\ op \notin {"expire", "housekeeping"}
      <3>1. PICK r \in Requests : txn[h].reqs = {r}
        BY <2>2, <2>9 DEF SInv, OneTarget, Ops
      <3>2. S = {r} /\ r \in txn[h].reqs
        BY <2>5, <2>9, <3>1
      <3>3. status' = [status EXCEPT ![r] = to]
        BY <2>5, <3>2
      <3>4. to = "awaiting_payment" => kind[r] = "topup"
        BY <2>2, <2>3, <3>2 DEF LeadsTo, Ops, SInv, SnapshotsAreCurrent
      <3>5. /\ to \in {"accepted", "awaiting_payment", "paid", "cancelled", "completed", "rejected"}
            /\ status[r] \in Lifecycle!Before(to)
        <4>1. status[r] \in DecidedOn(op)
          BY <2>6, <3>2
        <4>2. CASE op = "accept"
          BY <4>1, <4>2 DEF LeadsTo, DecidedOn, Lifecycle!Before
        <4>3. CASE op = "send_requisites"
          BY <4>1, <4>3 DEF LeadsTo, DecidedOn, Lifecycle!Before
        <4>4. CASE op = "complete"
          BY <4>1, <4>4 DEF LeadsTo, DecidedOn, Lifecycle!Before, Lifecycle!Open, Status, Final
        <4>5. CASE op = "reject"
          BY <4>1, <4>5 DEF LeadsTo, DecidedOn, Lifecycle!Before, Lifecycle!Open, Status, Final
        <4>6. CASE op = "cancel"
          BY <4>1, <4>6 DEF LeadsTo, DecidedOn, Lifecycle!Before, Cancellable
        <4>7. CASE op = "attach"
          BY <4>1, <4>7 DEF LeadsTo, DecidedOn, Lifecycle!Before
        <4>8. QED
          BY <2>2, <2>3, <2>9, <4>2, <4>3, <4>4, <4>5, <4>6, <4>7 DEF Ops
      <3>6. \E t \in {"accepted", "awaiting_payment", "paid", "cancelled", "completed", "rejected"} :
              Lifecycle!Advance(r, t)
        <4> HIDE DEF to
        <4>1. QED
          BY <2>4, <3>3, <3>4, <3>5 DEF Lifecycle!Advance
      <3>7. QED
        BY <3>1, <3>6 DEF Lifecycle!Next
    <2>10. QED
      BY <2>7, <2>8, <2>9
  <1>4. QED
    BY <1>2, <1>3

\* Completing and rejecting schedule the screenshot the request has.
LEMMA CommitSchedules ==
  ASSUME IInv, PInv, SInv, NEW h \in Handlers, Commit(h)
  PROVE  ClosedScreenshotIsScheduled'
  <1> SUFFICES ASSUME NEW q \in Requests, request'[q].status \in {"completed", "rejected"},
                      request'[q].screenshot # None
               PROVE  attachment'[request'[q].screenshot].deleteAfter # None
    BY DEF ClosedScreenshotIsScheduled
  <1>1. PICK S : Writes(h, S, LeadsTo(txn[h].op))
    BY CommitWrites
  <1>2. request[q].screenshot \in Attachments \cup {None} /\ txn[h].op \in Ops
    BY CommitWrites DEF IInv, TypeOK, Row
  <1>3. CASE q \in S
    <2>1. txn[h].op \in {"complete", "reject"}
      BY <1>1, <1>2, <1>3 DEF Writes, LeadsTo, Ops
    <2>2. CommitComplete(h) \/ CommitReject(h)
      BY <2>1 DEF Commit, Flush, CommitCreate, CommitAccept, CommitRequisites,
                  CommitCancel, CommitAttach, CommitRead, CommitHousekeeping
    <2>3. PICK r \in txn[h].reqs : attachment' = Scheduled(txn[h].snap[r].screenshot, txn[h].moment)
      BY <2>2 DEF CommitComplete, CommitReject
    <2>4. q = r /\ txn[h].snap[q] = request[q]
      BY <1>1, <1>3, <2>1, <2>3 DEF Writes, SInv, OneTarget, SnapshotsAreCurrent
    <2>5. ~CommitAttach(h)
      BY <2>1 DEF CommitAttach, Flush
    <2>6. request'[q].screenshot = request[q].screenshot
      BY <2>5, CommitReleases DEF Releases
    <2>7. attachment[request[q].screenshot].row = "stored"
      BY <2>6 DEF PInv, ScreenshotsAreStored
    <2>8. txn[h].moment + Retention # None
      <3>1. txn[h].moment \in Nat
        BY <2>3, TxnType DEF IInv
      <3>2. QED
        BY <3>1, DurationsAssumption, NoneAssumption
    <2>9. attachment' = [attachment EXCEPT ![request[q].screenshot].deleteAfter = txn[h].moment + Retention]
      BY <2>3, <2>4, <2>6, <2>7 DEF Scheduled
    <2>10. attachment \in [Attachments -> AttachmentRow] /\ request[q].screenshot \in Attachments
      BY <1>2, <2>6 DEF IInv, TypeOK
    <2>11. attachment'[request[q].screenshot].deleteAfter = txn[h].moment + Retention
      BY <2>9, <2>10 DEF AttachmentRow
    <2>12. QED
      BY <2>6, <2>8, <2>11
  <1>4. CASE q \notin S
    <2>1. request[q].status \in {"completed", "rejected"}
      BY <1>1, <1>4 DEF Writes
    <2>2. request[q].screenshot # None => attachment[request[q].screenshot].deleteAfter # None
      BY <2>1 DEF SInv, ClosedScreenshotIsScheduled
    <2>3. CASE CommitAttach(h)
      <3>1. PICK r \in txn[h].reqs :
              /\ \E row : request' = [request EXCEPT ![r] = row]
              /\ attachment' = [attachment EXCEPT ![txn[h].file].row = "stored"]
        BY <2>3 DEF CommitAttach
      <3>2. txn[h].op = "attach" /\ txn[h].reqs = {r} /\ LeadsTo(txn[h].op) = "paid"
        BY <2>3, <3>1 DEF CommitAttach, Flush, LeadsTo, SInv, OneTarget
      <3>3. S # {} => r \in S
        BY <1>1, <3>2 DEF Writes
      <3>4. PICK p \in txn[h].reqs :
              /\ request' = [request EXCEPT ![p] = Merge(@, txn[h].snap[p],
                    [txn[h].snap[p] EXCEPT !.status = "paid", !.deadline = None, !.screenshot = txn[h].file])]
        BY <2>3 DEF CommitAttach
      <3>5. p = r /\ r \in Requests
        BY <3>2, TxnType DEF IInv
      <3>6. request'[r].status = "paid"
        <4> DEFINE new == [txn[h].snap[r] EXCEPT !.status = "paid", !.deadline = None, !.screenshot = txn[h].file]
        <4>1. txn[h].snap[r] \in Row /\ txn[h].snap[r].status # "paid"
          BY <3>2, DecidedStatus DEF DecidedOn
        <4>2. new.status = "paid"
          BY <4>1 DEF Row
        <4>3. Merge(request[r], txn[h].snap[r], new).status = "paid"
          <5> HIDE DEF new
          <5>1. QED
            BY <4>1, <4>2 DEF Merge
        <4>4. QED
          BY <3>4, <3>5, <4>3 DEF IInv, TypeOK
      <3>7. q # r /\ request'[q] = request[q]
        BY <3>1, <3>5, <3>6
      <3>8. attachment'[request[q].screenshot].deleteAfter = attachment[request[q].screenshot].deleteAfter
        BY <1>2, <3>1, <3>7 DEF IInv, TypeOK, AttachmentRow
      <3>9. QED
        BY <2>2, <3>7, <3>8
    <2>4. CASE ~CommitAttach(h)
      BY <1>2, <2>2, <2>4, CommitReleases DEF Releases
    <2>5. QED
      BY <2>3, <2>4
  <1>5. QED
    BY <1>3, <1>4

LEMMA CommitKeepsSInv ==
  ASSUME OneAtATime, IInv, PInv, SInv, NEW h \in Handlers, Commit(h)
  PROVE  SInv'
  <1>1. txn' = [txn EXCEPT ![h] = Idle]
    BY CommitWrites DEF Flush
  <1>2. \A g \in Handlers : txn'[g].op = "idle" /\ txn'[g].reqs = {}
    BY <1>1 DEF OneAtATime, IInv, TypeOK, Idle
  <1>3. QED
    BY <1>2, CommitSchedules DEF SInv, SnapshotsAreCurrent, OneTarget

LEMMA OnlyCommitsWrite ==
  ASSUME [Next]_vars, ~\E h \in Handlers : Commit(h)
  PROVE  UNCHANGED <<request, attachment>>
  <1>1. ASSUME NEW h \in Handlers, Load(h) PROVE UNCHANGED <<request, attachment>>
    BY <1>1
    DEF Load, LoadForCreate, LoadForAccept, LoadForRequisites, LoadForComplete, LoadForReject,
        LoadForCancel, LoadForAttach, LoadForRead, LoadForHousekeeping, BeginOn, Begin
  <1>2. QED
    BY <1>1 DEF Next, vars, SaveFile, PurgeFiles, Rollback, Restart, UpdatePlayer, Tick

LEMMA NextKeepsSInv ==
  ASSUME OneAtATime, IInv, PInv, SInv, [Next]_vars
  PROVE  SInv'
  <1>1. ASSUME NEW h \in Handlers, Load(h) PROVE SInv'
    BY <1>1, LoadKeepsSInv
  <1>2. ASSUME NEW h \in Handlers, Commit(h) PROVE SInv'
    BY <1>2, CommitKeepsSInv
  <1>3. ASSUME UNCHANGED <<request, attachment>>,
               \A g \in Handlers : \/ txn'[g] = Idle
                                   \/ /\ txn'[g].op = txn[g].op /\ txn'[g].reqs = txn[g].reqs
                                      /\ txn'[g].snap = txn[g].snap
        PROVE  SInv'
    <2>1. Idle.op = "idle" /\ Idle.reqs = {}
      BY DEF Idle
    <2>2. QED
      BY <1>3, <2>1, RemembersKeepsSInv
  <1>4. ASSUME NEW h \in Handlers, SaveFile(h) \/ PurgeFiles(h) PROVE SInv'
    <2>1. UNCHANGED <<request, attachment>>
      BY <1>4 DEF SaveFile, PurgeFiles
    <2>2. CASE SaveFile(h)
      BY <1>3, <2>1, <2>2 DEF SaveFile, IInv, TypeOK, Txn
    <2>3. CASE PurgeFiles(h)
      <3>1. txn' = [txn EXCEPT ![h].purge = ExpiredAttachments(clock), ![h].step = "ready"]
        BY <2>3 DEF PurgeFiles
      <3>2. \A g \in Handlers : /\ txn'[g].op = txn[g].op /\ txn'[g].reqs = txn[g].reqs
                                /\ txn'[g].snap = txn[g].snap
        BY <3>1 DEF IInv, TypeOK, Txn
      <3>3. QED
        BY <1>3, <2>1, <3>2
    <2>4. QED
      BY <1>4, <2>2, <2>3
  <1>5. ASSUME NEW h \in Handlers, Rollback(h) PROVE SInv'
    BY <1>3, <1>5 DEF Rollback, IInv, TypeOK
  <1>6. CASE Restart
    BY <1>3, <1>6 DEF Restart
  <1>7. ASSUME NEW p \in Players, UpdatePlayer(p) PROVE SInv'
    BY <1>3, <1>7 DEF UpdatePlayer
  <1>8. CASE Tick
    BY <1>3, <1>8 DEF Tick
  <1>9. CASE UNCHANGED vars
    BY <1>3, <1>9 DEF vars
  <1>10. QED
    BY <1>1, <1>2, <1>4, <1>5, <1>6, <1>7, <1>8, <1>9 DEF Next

\* One transaction at a time: the screenshot of a request that was completed or
\* rejected is going to be deleted (the comment of Attachment.delete_after).
THEOREM ClosedIsScheduled == ASSUME OneAtATime PROVE Spec => []ClosedScreenshotIsScheduled
  <1>1. IInv /\ PInv /\ SInv /\ [Next]_vars => SInv'
    BY NextKeepsSInv
  <1>2. SInv => ClosedScreenshotIsScheduled
    BY DEF SInv
  <1>3. QED
    BY <1>1, <1>2, InitSInv, Invariance, ScreenshotInvariance, PTL DEF Spec

\* One transaction at a time: every request goes through the life cycle of
\* ChipLifecycle and no other way, whatever fails or is lost.
THEOREM FollowsLifecycle == ASSUME OneAtATime PROVE Spec => ImplementsLifecycle
  <1> DEFINE seen == <<[r \in Requests |-> request[r].status], [r \in Requests |-> request[r].kind]>>
  <1>1. Init => Lifecycle!Init
    BY DEF Init, Lifecycle!Init, NoRow
  <1>2. IInv /\ SInv /\ [Next]_vars => [Lifecycle!Next]_seen
    <2> SUFFICES ASSUME IInv, SInv, [Next]_vars PROVE [Lifecycle!Next]_seen
      OBVIOUS
    <2>1. ASSUME NEW h \in Handlers, Commit(h) PROVE [Lifecycle!Next]_seen
      BY <2>1, CommitAdvances
    <2>2. CASE ~\E h \in Handlers : Commit(h)
      BY <2>2, OnlyCommitsWrite
    <2>3. QED
      BY <2>1, <2>2
  <1>3. IInv /\ PInv /\ SInv /\ [Next]_vars => SInv'
    BY NextKeepsSInv
  <1>4. QED
    BY <1>1, <1>2, <1>3, InitSInv, Invariance, ScreenshotInvariance, PTL
    DEF Spec, ImplementsLifecycle, Lifecycle!Spec
=============================================================================
