---------------------- MODULE NotificationQueueProofs ----------------------
(***************************************************************************)
(* Theorems about NotificationQueue, for any number of users, devices,     *)
(* chats and rows, any batch size and any number of losses.                *)
(*                                                                         *)
(* The invariant adds to TypeOK and ClaimHolds what a batch in flight is   *)
(* like (Phase), that every row still to be sent has reached a device at   *)
(* most once per loss (Counted), and that every success the session         *)
(* remembers was a delivery (Witnessed).                                   *)
(***************************************************************************)
EXTENDS NotificationQueue, TLAPS

Phase ==
  /\ row \notin todo
  /\ row = None => sending = {} /\ got = {}
  /\ \A n \in claimed : session[n].status \in {"pending", "sent", "failed"}

\* The rows that may still be sent before the current batch ends or is lost.
Unsent(n) ==
  \/ n \notin claimed /\ queue[n].status \in {"absent", "pending"}
  \/ n \in todo
  \/ n \in claimed \ todo /\ n # row /\ session[n].status = "pending"

AtMost(n, limit) == \A x \in Devices \cup Chats : received[n][x] <= limit

Counted ==
  /\ \A n \in Notices : AtMost(n, losses + 1)
  /\ \A n \in Notices : Unsent(n) => AtMost(n, losses)
  /\ row # None =>
       /\ \A x \in sending : received[row][x] <= losses
       /\ "success" \notin got => AtMost(row, losses)

Got(n) == \E x \in Devices \cup Chats : received[n][x] > 0

Witnessed ==
  /\ \A n \in Notices : queue[n].status = "sent" => Got(n)
  /\ \A n \in claimed : session[n].status = "sent" => Got(n)
  /\ "success" \in got => Got(row)

IInv == TypeOK /\ Phase /\ ClaimHolds /\ Counted /\ Witnessed

-----------------------------------------------------------------------------
(* Helpers.                                                                *)

LEMMA SettledType ==
  ASSUME NEW r \in Row, NEW outcomes \in SUBSET Outcomes
  PROVE  /\ Settled(r, outcomes) \in Row
         /\ Settled(r, outcomes).status \in {"pending", "sent", "failed"}
         /\ (Settled(r, outcomes).status = "sent" <=> "success" \in outcomes)
<1>1. CASE "success" \in outcomes
  <2>1. [r EXCEPT !.status = "sent"] \in Row /\ [r EXCEPT !.status = "sent"].status = "sent"
    BY DEF Row, Statuses
  <2> QED
    BY <1>1, <2>1 DEF Settled
<1>2. CASE "success" \notin outcomes
  <2>1. ASSUME NEW s \in {"pending", "failed"}, NEW a \in 0..MaxAttempts
        PROVE  LET new == [r EXCEPT !.status = s, !.attempts = a]
               IN  new \in Row /\ new.status = s
    BY DEF Row, Statuses
  <2>2. r.attempts \in 0..MaxAttempts /\ (r.attempts < MaxAttempts => r.attempts + 1 \in 0..MaxAttempts)
    BY DEF Row, MaxAttempts
  <2> QED
    BY <1>2, <2>1, <2>2 DEF Settled
<1> QED
  BY <1>1, <1>2

LEMMA FlushedType ==
  ASSUME TypeOK
  PROVE  Flushed \in [Devices -> Marks] /\ FlushedLinks \in [Users -> {"none", "drop", "dropped"}]
BY DEF TypeOK, Flushed, FlushedLinks, Marks

LEMMA TargetsType ==
  ASSUME TypeOK, NEW n \in Notices
  PROVE  Targets(n) \in SUBSET (Devices \cup Chats)
BY NoticesAssumption DEF TypeOK, Targets

\* What closing the session establishes by itself.
LEMMA BatchEnds ==
  ASSUME TypeOK, EndBatch, queue' \in [Notices -> Row], owner' \in [Devices -> Users \cup {None}],
         chat' \in [Users -> Chats \cup {None}], losses' \in Nat
  PROVE  TypeOK' /\ Phase' /\ ClaimHolds'
BY DEF TypeOK, EndBatch, Phase, ClaimHolds, Marks

-----------------------------------------------------------------------------
(* The invariant.                                                          *)

LEMMA InitInvariant == Init => IInv
<1> SUFFICES ASSUME Init PROVE IInv
  OBVIOUS
<1>1. TypeOK
  BY DEF Init, TypeOK, Row, Statuses, Marks, MaxAttempts
<1>2. Phase /\ ClaimHolds
  BY DEF Init, Phase, ClaimHolds
<1>3. Counted
  BY DEF Init, Counted, Unsent, AtMost
<1>4. Witnessed
  BY DEF Init, Witnessed
<1> QED
  BY <1>1, <1>2, <1>3, <1>4 DEF IInv

\* A transaction of the backend that writes the queue: it leaves the worker's
\* rows alone and makes no row pending that was sent before.
LEMMA QueueWritten ==
  ASSUME IInv, queue' \in [Notices -> Row],
         UNCHANGED <<owner, chat, batch, received, clock, losses>>,
         \A n \in claimed : queue'[n] = queue[n],
         \A n \in Notices : queue'[n].status \in {"absent", "pending"}
                              => queue[n].status \in {"absent", "pending"},
         \A n \in Notices : queue'[n].status = "sent" => queue[n].status = "sent"
  PROVE  IInv'
<1> USE DEF IInv, batch
<1>1. TypeOK'
  BY DEF TypeOK
<1>2. Phase'
  BY DEF Phase
<1>3. ClaimHolds'
  BY DEF ClaimHolds, TypeOK
<1>4. Counted'
  <2>1. \A n \in Notices : AtMost(n, losses)' <=> AtMost(n, losses)
    BY DEF AtMost
  <2>2. \A n \in Notices : AtMost(n, losses + 1)' <=> AtMost(n, losses + 1)
    BY DEF AtMost
  <2>3. \A n \in Notices : Unsent(n)' => Unsent(n)
    BY DEF Unsent
  <2>4. row # None => row \in Notices
    BY DEF TypeOK
  <2> QED
    BY <2>1, <2>2, <2>3, <2>4 DEF Counted
<1>5. Witnessed'
  BY DEF Witnessed, Got
<1> QED
  BY <1>1, <1>2, <1>3, <1>4, <1>5

\* The next row of the batch is begun.
LEMMA RowBegun == IInv /\ BeginRow => IInv'
<1> SUFFICES ASSUME IInv, BeginRow PROVE IInv'
  OBVIOUS
<1> PICK n \in todo : row' = n /\ todo' = todo \ {n} /\ sending' = Targets(n)
  BY DEF BeginRow
<1> USE DEF IInv
<1>1. n \in Notices /\ n \in claimed /\ n # None /\ row = None
  BY TargetsAssumption DEF TypeOK, BeginRow
<1>2. TypeOK'
  BY <1>1, FlushedType, TargetsType DEF TypeOK, BeginRow, stored
<1>3. Phase'
  BY <1>1 DEF Phase, BeginRow
<1>4. ClaimHolds'
  BY <1>1 DEF ClaimHolds, BeginRow, stored
<1>5. Counted'
  <2>1. AtMost(n, losses)
    BY <1>1 DEF Counted, Unsent
  <2>2. \A k \in Notices : (AtMost(k, losses)' <=> AtMost(k, losses))
                           /\ (AtMost(k, losses + 1)' <=> AtMost(k, losses + 1))
    BY DEF AtMost, BeginRow
  <2>3. \A k \in Notices : Unsent(k)' => Unsent(k)
    BY <1>1, TargetsAssumption DEF Unsent, BeginRow, stored
  <2>4. \A x \in sending' : received'[n][x] <= losses'
    BY <1>1, <2>1, TargetsType DEF AtMost, BeginRow
  <2> QED
    BY <1>1, <2>1, <2>2, <2>3, <2>4 DEF Counted
<1>6. Witnessed'
  BY <1>1 DEF Witnessed, Got, BeginRow, stored, Phase
<1> QED
  BY <1>2, <1>3, <1>4, <1>5, <1>6

\* One call and its answer.
LEMMA Answered ==
  ASSUME IInv, NEW x \in sending, NEW a \in Answers, NEW reached \in BOOLEAN, Send(x, a, reached)
  PROVE  IInv'
<1> USE DEF IInv
<1> DEFINE o == OutcomeOf(x, a)
<1>0. /\ x \in Devices \cup Chats
      /\ o \in Outcomes
      /\ o = "success" => reached
      /\ losses' = losses + (IF reached /\ o # "success" THEN 1 ELSE 0)
  BY DEF TypeOK, Send, OutcomeOf, PushOutcome, TelegramOutcome, Outcomes
<1>s. /\ x \in sending /\ sending' = sending \ {x} /\ got' = got \cup {o}
      /\ received' = IF reached THEN [received EXCEPT ![row][x] = @ + 1] ELSE received
      /\ x \in Devices => mark' = [mark EXCEPT ![x] = Marked(@, o)] /\ UNCHANGED unlink
      /\ x \notin Devices =>
           /\ unlink' = IF o = "gone" THEN [unlink EXCEPT ![UserOf[row]] = "drop"] ELSE unlink
           /\ UNCHANGED mark
      /\ UNCHANGED <<queue, owner, chat, claimed, todo, row, session, stale, clock>>
  BY DEF Send, stored
<1> HIDE DEF o
<1>1. row # None /\ row \in Notices /\ row \in claimed /\ row \notin todo
  BY <1>s DEF Phase, TypeOK
<1>2. /\ received' \in [Notices -> [Devices \cup Chats -> Nat]]
      /\ \A k \in Notices : k # row => received'[k] = received[k]
      /\ \A y \in Devices \cup Chats : y # x => received'[row][y] = received[row][y]
      /\ received'[row][x] = received[row][x] + (IF reached THEN 1 ELSE 0)
  <2> DEFINE cell == [received[row] EXCEPT ![x] = @ + 1]
  <2>1. cell \in [Devices \cup Chats -> Nat] /\ cell[x] = received[row][x] + 1
        /\ \A y \in Devices \cup Chats : y # x => cell[y] = received[row][y]
    BY <1>0, <1>1 DEF TypeOK
  <2>2. received' = IF reached THEN [received EXCEPT ![row] = cell] ELSE received
    BY <1>s
  <2> HIDE DEF cell
  <2>3. received \in [Notices -> [Devices \cup Chats -> Nat]]
    BY DEF TypeOK
  <2>4. CASE reached
    <3>1. received'[row] = cell /\ \A k \in Notices : k # row => received'[k] = received[k]
      BY <1>1, <2>2, <2>3, <2>4
    <3>2. received' \in [Notices -> [Devices \cup Chats -> Nat]]
      BY <2>1, <2>2, <2>3, <2>4
    <3> QED
      BY <2>1, <2>4, <3>1, <3>2
  <2>5. CASE ~reached
    <3>1. received[row][x] \in Nat
      BY <1>0, <1>1, <2>3
    <3>2. received' = received
      BY <2>2, <2>5
    <3>3. received[row][x] = received[row][x] + (IF reached THEN 1 ELSE 0)
      BY <2>5, <3>1
    <3> QED
      BY <2>3, <3>2, <3>3
  <2> QED
    BY <2>4, <2>5
<1>3. TypeOK'
  <2>1. mark' \in [Devices -> Marks]
    BY <1>0, <1>s DEF TypeOK, Marked, Marks, Outcomes
  <2>2. unlink' \in [Users -> {"none", "drop", "dropped"}]
    BY <1>1, <1>s, NoticesAssumption DEF TypeOK
  <2>3. losses' \in Nat
    BY <1>0 DEF TypeOK
  <2> QED
    BY <1>0, <1>2, <1>s, <2>1, <2>2, <2>3 DEF TypeOK
<1>4. Phase' /\ ClaimHolds'
  BY <1>1, <1>s DEF Phase, ClaimHolds
<1>5. /\ received[row][x] <= losses
      /\ losses \in Nat /\ losses' \in Nat /\ losses' >= losses
      /\ \A k \in Notices, y \in Devices \cup Chats : received[k][y] \in Nat
  BY <1>0, <1>1, <1>s DEF Counted, TypeOK
<1>6. Counted'
  <2>1. ASSUME NEW k \in Notices PROVE AtMost(k, losses + 1)'
    BY <1>0, <1>1, <1>2, <1>5 DEF Counted, AtMost
  <2>2. ASSUME NEW k \in Notices, Unsent(k)' PROVE AtMost(k, losses)'
    <3>1. k # row /\ Unsent(k)
      BY <1>1, <1>s, <2>2 DEF Unsent
    <3> QED
      BY <1>2, <1>5, <3>1 DEF Counted, AtMost
  <2>3. ASSUME NEW y \in sending' PROVE received'[row][y] <= losses'
    <3>1. y \in sending /\ y # x /\ y \in Devices \cup Chats
      BY <1>s, <2>3 DEF TypeOK
    <3>2. received[row][y] <= losses
      BY <1>1, <3>1 DEF Counted
    <3> QED
      BY <1>1, <1>2, <1>5, <3>1, <3>2
  <2>4. ASSUME "success" \notin got' PROVE AtMost(row, losses)'
    <3>1. o # "success" /\ AtMost(row, losses)
      BY <1>1, <1>s, <2>4 DEF Counted
    <3>2. \A y \in Devices \cup Chats : received'[row][y] <= losses'
      BY <1>0, <1>1, <1>2, <1>5, <3>1 DEF AtMost
    <3>3. row' = row
      BY <1>s
    <3> QED
      BY <3>2, <3>3 DEF AtMost
  <2> QED
    BY <1>s, <2>1, <2>2, <2>3, <2>4 DEF Counted
<1>7. Witnessed'
  <2>1. ASSUME NEW k \in Notices, Got(k) PROVE Got(k)'
    <3>1. PICK y \in Devices \cup Chats : received[k][y] > 0
      BY <2>1 DEF Got
    <3>2. received[k][y] \in Nat
      BY DEF TypeOK
    <3>3. received'[k][y] \in Nat /\ received'[k][y] >= received[k][y]
      BY <1>2, <3>2
    <3> QED
      BY <3>1, <3>2, <3>3 DEF Got
  <2>2. o = "success" => Got(row)'
    BY <1>0, <1>1, <1>2, <1>5, <1>s DEF Got
  <2>4. claimed \subseteq Notices
    BY DEF TypeOK
  <2>5. "success" \in got' => Got(row)'
    BY <1>1, <1>s, <2>1, <2>2 DEF Witnessed
  <2> QED
    BY <1>s, <2>1, <2>4, <2>5 DEF Witnessed, Got
<1> QED
  BY <1>3, <1>4, <1>6, <1>7

\* The row is settled in the session.
LEMMA RowEnded == IInv /\ EndRow => IInv'
<1> SUFFICES ASSUME IInv, EndRow PROVE IInv'
  OBVIOUS
<1> USE DEF IInv
<1>1. row # None /\ row \in Notices /\ row \in claimed /\ row \notin todo /\ None \notin Notices
  BY TargetsAssumption DEF EndRow, Phase, TypeOK
<1> DEFINE r == Settled(session[row], got)
<1>2. r \in Row /\ r.status \in {"pending", "sent", "failed"}
      /\ (r.status = "sent" <=> "success" \in got)
  BY <1>1, SettledType DEF TypeOK
<1>3. session' = [session EXCEPT ![row] = r]
  BY DEF EndRow
<1> HIDE DEF r
<1>4. /\ session'[row] = r
      /\ \A k \in Notices : k # row => session'[k] = session[k]
  BY <1>1, <1>3 DEF TypeOK
<1>5. TypeOK'
  BY <1>1, <1>2, <1>3 DEF TypeOK, EndRow, stored
<1>6. claimed \subseteq Notices /\ todo \subseteq claimed
  BY DEF TypeOK
<1>7. Phase'
  BY <1>1, <1>2, <1>4, <1>6 DEF Phase, EndRow, TypeOK
<1>8. ClaimHolds'
  BY <1>1, <1>4, <1>6 DEF ClaimHolds, EndRow, stored
<1>9. Counted'
  <2>1. \A k \in Notices : (AtMost(k, losses)' <=> AtMost(k, losses))
                           /\ (AtMost(k, losses + 1)' <=> AtMost(k, losses + 1))
    BY DEF AtMost, EndRow
  <2>2. ASSUME NEW k \in Notices, Unsent(k)' PROVE AtMost(k, losses)
    <3>1. CASE k = row
      <4>1. "success" \notin got
        BY <1>1, <1>2, <1>4, <2>2, <3>1 DEF Unsent, EndRow, stored
      <4> QED
        BY <1>1, <3>1, <4>1 DEF Counted
    <3>2. CASE k # row
      <4>1. Unsent(k)
        BY <1>4, <2>2, <3>2 DEF Unsent, EndRow, stored
      <4> QED
        BY <4>1 DEF Counted
    <3> QED
      BY <3>1, <3>2
  <2>3. row' = None
    BY DEF EndRow
  <2> QED
    BY <2>1, <2>2, <2>3 DEF Counted
<1>10. Witnessed'
  <2>1. \A k \in Notices : Got(k)' <=> Got(k)
    BY DEF Got, EndRow
  <2>2. ASSUME NEW k \in claimed, session'[k].status = "sent" PROVE Got(k)
    BY <1>1, <1>2, <1>4, <1>6, <2>2 DEF Witnessed
  <2>3. claimed' = claimed /\ queue' = queue /\ got' = {}
    BY DEF EndRow, stored
  <2> QED
    BY <1>6, <2>1, <2>2, <2>3 DEF Witnessed
<1> QED
  BY <1>5, <1>7, <1>8, <1>9, <1>10

\* The batch is committed: pending rows are those that reached nobody this time.
LEMMA Committed == IInv /\ Commit => IInv'
<1> SUFFICES ASSUME IInv, Commit PROVE IInv'
  OBVIOUS
<1> USE DEF IInv
<1>1. TypeOK' /\ Phase' /\ ClaimHolds'
  <2>1. queue' \in [Notices -> Row] /\ owner' \in [Devices -> Users \cup {None}]
        /\ chat' \in [Users -> Chats \cup {None}] /\ losses' \in Nat /\ EndBatch
    BY DEF TypeOK, Commit
  <2> QED
    BY <2>1, BatchEnds
<1>2. /\ row = None /\ todo = {} /\ claimed' = {} /\ todo' = {} /\ row' = None /\ got' = {}
      /\ received' = received /\ losses' = losses
      /\ \A n \in Notices : queue'[n] = IF n \in claimed THEN session[n] ELSE queue[n]
  BY DEF Commit, EndBatch
<1>3. Counted'
  <2>1. \A k \in Notices : (AtMost(k, losses)' <=> AtMost(k, losses))
                           /\ (AtMost(k, losses + 1)' <=> AtMost(k, losses + 1))
    BY <1>2 DEF AtMost
  <2>2. ASSUME NEW k \in Notices, Unsent(k)' PROVE Unsent(k)
    <3>1. queue'[k].status \in {"absent", "pending"}
      BY <1>2, <2>2 DEF Unsent
    <3>2. k \in claimed => session[k].status \in {"pending", "sent", "failed"} /\ k # None
      BY TargetsAssumption DEF Phase, TypeOK
    <3> QED
      BY <1>2, <3>1, <3>2 DEF Unsent
  <2> QED
    BY <1>2, <2>1, <2>2 DEF Counted
<1>4. Witnessed'
  BY <1>2 DEF Witnessed, Got
<1> QED
  BY <1>1, <1>3, <1>4

\* The batch is lost: one more delivery of each of its rows is now allowed for.
LEMMA Lost ==
  ASSUME IInv, EndBatch, UNCHANGED stored, losses' = losses + 1
  PROVE  IInv'
<1> USE DEF IInv
<1>1. TypeOK' /\ Phase' /\ ClaimHolds'
  <2>1. queue' \in [Notices -> Row] /\ owner' \in [Devices -> Users \cup {None}]
        /\ chat' \in [Users -> Chats \cup {None}] /\ losses' \in Nat
    BY DEF TypeOK, stored
  <2> QED
    BY <2>1, BatchEnds
<1>2. /\ claimed' = {} /\ row' = None /\ got' = {} /\ received' = received /\ queue' = queue
  BY DEF EndBatch, stored
<1>3. Counted'
  <2>1. \A n \in Notices : AtMost(n, losses)' /\ AtMost(n, losses + 1)'
    BY <1>2 DEF Counted, AtMost, TypeOK
  <2> QED
    BY <1>2, <2>1 DEF Counted
<1>4. Witnessed'
  BY <1>2 DEF Witnessed, Got
<1> QED
  BY <1>1, <1>3, <1>4

\* A step that changes neither the queue nor the batch.
LEMMA Aside ==
  ASSUME IInv, TypeOK',
         UNCHANGED <<queue, claimed, todo, row, session, sending, got, received, losses>>
  PROVE  IInv'
<1> USE DEF IInv
<1>1. Phase' /\ ClaimHolds'
  BY DEF Phase, ClaimHolds
<1>2. Counted'
  BY DEF Counted, Unsent, AtMost
<1>3. Witnessed'
  BY DEF Witnessed, Got
<1> QED
  BY <1>1, <1>2, <1>3

LEMMA NextInvariant == IInv /\ [Next]_vars => IInv'
<1> SUFFICES ASSUME IInv, [Next]_vars PROVE IInv'
  OBVIOUS
<1>T. TypeOK
  BY DEF IInv
<1>1. ASSUME NEW u \in Users, NEW push \in BOOLEAN, Enqueue(u, push) PROVE IInv'
  <2>1. PICK rows \in SUBSET (Notices \ Bells) :
          /\ Fresh(u, push, rows)
          /\ queue' = [n \in Notices |-> IF n \in rows THEN Placed(clock) ELSE queue[n]]
    BY <1>1 DEF Enqueue
  <2>2. Placed(clock) \in Row /\ Placed(clock).status = "pending"
    BY <1>T DEF Placed, Row, Statuses, MaxAttempts, TypeOK
  <2> HIDE DEF Placed
  <2>3. \A n \in claimed : n \notin rows
    BY <2>1 DEF Fresh, IInv, ClaimHolds
  <2> QED
    BY <1>T, <1>1, <2>1, <2>2, <2>3, QueueWritten DEF TypeOK, Enqueue, Fresh
<1>2. ASSUME NEW u \in Users, NEW at \in 0..MaxTime, SetBell(u, at) PROVE IInv'
  <2>1. PICK rows \in SUBSET Bells :
          /\ Fresh(u, TRUE, rows)
          /\ queue' = [n \in Notices |-> IF n \in rows THEN Placed(at) ELSE queue[n]]
    BY <1>2 DEF SetBell
  <2>2. Placed(at) \in Row /\ Placed(at).status = "pending"
    BY NaturalsAssumption DEF Placed, Row, Statuses, MaxAttempts
  <2>3. \A n \in claimed : n \notin rows
    BY <2>1 DEF Fresh, IInv, ClaimHolds
  <2> QED
    BY <1>T, <1>2, <2>1, <2>2, <2>3, QueueWritten DEF TypeOK, SetBell, Fresh
<1>3. ASSUME NEW u \in Users, ClearBell(u) PROVE IInv'
  <2>1. \A n \in Notices : [queue[n] EXCEPT !.status = "withdrawn"] \in Row
    BY <1>T DEF TypeOK, Row, Statuses
  <2>2. \A n \in Notices : [queue[n] EXCEPT !.status = "withdrawn"].status = "withdrawn"
    BY <1>T DEF TypeOK, Row
  <2>3. \A n \in claimed : n \in Notices /\ n \notin BellRows(u)
    BY <1>T, <1>3 DEF ClearBell, TypeOK
  <2> HIDE DEF BellRows
  <2>4. queue' \in [Notices -> Row] /\ \A n \in claimed : queue'[n] = queue[n]
    BY <1>T, <1>3, <2>1, <2>3 DEF TypeOK, ClearBell
  <2>5. \A n \in Notices : queue'[n].status = "withdrawn" \/ queue'[n] = queue[n]
    BY <1>3, <2>2 DEF ClearBell
  <2> QED
    BY <1>3, <2>4, <2>5, QueueWritten DEF ClearBell
<1>4. ASSUME NEW at \in 0..MaxTime, Reschedule(at) PROVE IInv'
  <2>1. \A n \in Notices : [queue[n] EXCEPT !.at = at] \in Row
    BY <1>T, NaturalsAssumption DEF TypeOK, Row
  <2>2. \A n \in Notices : [queue[n] EXCEPT !.at = at].status = queue[n].status
    BY <1>T DEF TypeOK, Row
  <2>3. queue' \in [Notices -> Row] /\ \A n \in claimed : queue'[n] = queue[n]
    BY <1>T, <1>4, <2>1 DEF TypeOK, Reschedule
  <2>4. \A n \in Notices : queue'[n].status = queue[n].status
    BY <1>4, <2>2 DEF Reschedule
  <2> QED
    BY <1>4, <2>3, <2>4, QueueWritten DEF Reschedule
<1>5. ASSUME NEW u \in Users, NEW d \in Devices, Subscribe(u, d) PROVE IInv'
  <2>1. TypeOK'
    BY <1>T, <1>5 DEF TypeOK, Subscribe, batch
  <2> QED
    BY <1>5, <2>1, Aside DEF Subscribe, batch
<1>6. ASSUME NEW d \in Devices, Unsubscribe(d) PROVE IInv'
  <2>1. TypeOK'
    BY <1>T, <1>6 DEF TypeOK, Unsubscribe
  <2> QED
    BY <1>6, <2>1, Aside DEF Unsubscribe
<1>7. ASSUME NEW u \in Users, NEW c \in Chats, Link(u, c) PROVE IInv'
  <2>1. TypeOK'
    BY <1>T, <1>7 DEF TypeOK, Link, batch
  <2> QED
    BY <1>7, <2>1, Aside DEF Link, batch
<1>8. ASSUME NEW u \in Users, Unlink(u) PROVE IInv'
  <2>1. TypeOK'
    BY <1>T, <1>8 DEF TypeOK, Unlink, batch
  <2> QED
    BY <1>8, <2>1, Aside DEF Unlink, batch
<1>9. ASSUME Claim PROVE IInv'
  <2>1. claimed = {} /\ todo = {} /\ row = None
    BY <1>9, <1>T DEF Claim, TypeOK
  <2>2. /\ claimed' \in SUBSET Notices /\ todo' = claimed' /\ session' = queue
        /\ \A n \in claimed' : queue[n].status = "pending"
    BY <1>9 DEF Claim, Due
  <2>3. TypeOK'
    BY <1>T, <1>9, <2>1, <2>2 DEF TypeOK, Claim, stored
  <2>4. Phase' /\ ClaimHolds'
    BY <1>9, <2>1, <2>2, TargetsAssumption DEF IInv, Phase, ClaimHolds, Claim, stored
  <2>5. Counted'
    <3>1. \A k \in Notices : Unsent(k)' => Unsent(k)
      BY <1>9, <2>1, <2>2 DEF Unsent, Claim, stored
    <3>2. row' = None /\ received' = received /\ losses' = losses
      BY <1>9, <2>1 DEF Claim
    <3> QED
      BY <3>1, <3>2 DEF IInv, Counted, AtMost
  <2>6. Witnessed'
    BY <1>9, <2>1, <2>2 DEF IInv, Witnessed, Got, Claim, stored
  <2> QED
    BY <2>3, <2>4, <2>5, <2>6 DEF IInv
<1>10. CASE FlushFails
  BY <1>10, Lost DEF FlushFails
<1>11. CASE Crash
  BY <1>11, Lost DEF Crash
<1>12. CASE Tick
  <2>1. clock' \in Nat
    BY <1>T, <1>12 DEF TypeOK, Tick
  <2>2. UNCHANGED <<stored, batch, received, losses>>
    BY <1>12 DEF Tick
  <2>3. TypeOK'
    BY <1>T, <2>1, <2>2 DEF TypeOK, stored, batch
  <2> QED
    BY <2>2, <2>3, Aside DEF stored, batch
<1>13. CASE UNCHANGED vars
  <2>1. TypeOK'
    BY <1>T, <1>13 DEF TypeOK, vars, stored, batch
  <2> QED
    BY <1>13, <2>1, Aside DEF vars, stored, batch
<1> QED
  BY <1>1, <1>2, <1>3, <1>4, <1>5, <1>6, <1>7, <1>8, <1>9, <1>10, <1>11, <1>12, <1>13,
     RowBegun, Answered, RowEnded, Committed
  DEF Next, Backend, Worker

-----------------------------------------------------------------------------
(* The theorems.                                                           *)

THEOREM Invariant == Spec => []IInv
BY InitInvariant, NextInvariant, PTL DEF Spec

\* Every reachable state is well typed, whatever the constants.
THEOREM QueueTypeCorrect == Spec => []TypeOK
<1>1. IInv => TypeOK
  BY DEF IInv
<1> QED
  BY <1>1, Invariant, PTL

\* A notification is called sent only after it reached a device or a chat.
THEOREM SentIsTrue == Spec => []SentWasReceived
<1>1. IInv => SentWasReceived
  BY DEF IInv, Witnessed, Got, SentWasReceived
<1> QED
  BY <1>1, Invariant, PTL

\* Nobody gets a notification more often than once plus once per loss:
\* of a batch, or of the answer to a call.
THEOREM DuplicatesBounded == Spec => []DuplicatesNeedLoss
<1>1. IInv => DuplicatesNeedLoss
  BY DEF IInv, Counted, AtMost, DuplicatesNeedLoss
<1> QED
  BY <1>1, Invariant, PTL

\* The rows of a batch stay as the worker claimed them until the batch ends.
THEOREM ClaimIsExclusive == Spec => []ClaimHolds
<1>1. IInv => ClaimHolds
  BY DEF IInv
<1> QED
  BY <1>1, Invariant, PTL

\* Only a pending row is ever sent: a removed reminder stays silent.
THEOREM RemovedIsSilent == Spec => OnlyPendingIsSent
<1> DEFINE A == \A n \in Notices : received'[n] # received[n] => queue[n].status = "pending"
<1>1. ASSUME IInv, Next PROVE A
  <2>1. ASSUME NEW x \in sending, NEW a \in Answers, NEW reached \in BOOLEAN, Send(x, a, reached)
        PROVE  A
    <3>1. row \in claimed
      BY <1>1, <2>1 DEF IInv, Phase, TypeOK, Send
    <3>2. \A n \in Notices : received'[n] # received[n] => n = row
      BY <1>1, <2>1 DEF IInv, TypeOK, Send
    <3> QED
      BY <1>1, <3>1, <3>2 DEF IInv, ClaimHolds
  <2>2. CASE Backend
    BY <2>2 DEF Backend, Enqueue, SetBell, ClearBell, Reschedule, Subscribe, Unsubscribe, Link, Unlink
  <2>3. CASE Claim \/ BeginRow \/ EndRow \/ Commit \/ FlushFails \/ Crash \/ Tick
    BY <2>3 DEF Claim, BeginRow, EndRow, Commit, FlushFails, Crash, Tick, EndBatch
  <2> QED
    BY <1>1, <2>1, <2>2, <2>3 DEF Next, Worker
<1>2. IInv /\ [Next]_vars => [A]_vars
  BY <1>1
<1> QED
  BY <1>2, Invariant, PTL DEF Spec, OnlyPendingIsSent

-----------------------------------------------------------------------------
(* The queue keeps the promise of DeliveryPromise.                         *)

Stat    == [n \in Notices |-> queue[n].status]
Reached == {n \in Notices : Got(n)}

LEMMA MapsInit == Init => Promise!Init
BY DEF Init, Promise!Init

\* A transaction of the backend places rows, withdraws rows or changes neither.
LEMMA MapsBackend == IInv /\ Backend => [Promise!Next]_Promise!vars
<1> SUFFICES ASSUME IInv, Backend PROVE [Promise!Next]_(<<Stat, Reached>>)
  BY DEF Promise!vars, Stat, Reached, Got
<1>T. TypeOK
  BY DEF IInv
<1>1. Reached' = Reached
  BY DEF Backend, Enqueue, SetBell, ClearBell, Reschedule, Subscribe, Unsubscribe, Link, Unlink,
         Reached, Got
<1>2. ASSUME NEW rows \in SUBSET Notices, NEW at,
             \A n \in rows : queue[n].status = "absent",
             queue' = [n \in Notices |-> IF n \in rows THEN Placed(at) ELSE queue[n]]
      PROVE  Promise!Next
  <2>1. Stat' = [n \in Notices |-> IF n \in rows THEN "pending" ELSE Stat[n]]
    BY <1>2 DEF Stat, Placed
  <2>2. Promise!Place(rows)
    BY <1>1, <1>2, <2>1 DEF Promise!Place, Stat, Reached, Got
  <2> QED
    BY <2>2 DEF Promise!Next
<1>3. ASSUME NEW u \in Users, NEW push \in BOOLEAN, Enqueue(u, push) PROVE Promise!Next
  <2>1. PICK rows \in SUBSET Notices :
          /\ \A n \in rows : queue[n].status = "absent"
          /\ queue' = [n \in Notices |-> IF n \in rows THEN Placed(clock) ELSE queue[n]]
    BY <1>3 DEF Enqueue, Fresh
  <2> QED
    BY <1>2, <2>1
<1>4. ASSUME NEW u \in Users, NEW at \in 0..MaxTime, SetBell(u, at) PROVE Promise!Next
  <2>1. PICK rows \in SUBSET Notices :
          /\ \A n \in rows : queue[n].status = "absent"
          /\ queue' = [n \in Notices |-> IF n \in rows THEN Placed(at) ELSE queue[n]]
    BY <1>4, NoticesAssumption DEF SetBell, Fresh
  <2> QED
    BY <1>2, <2>1
<1>5. ASSUME NEW u \in Users, ClearBell(u) PROVE Promise!Next
  <2>1. PICK rows \in SUBSET Notices :
          rows = BellRows(u) /\ \A n \in rows : queue[n].status # "absent"
    <3>1. BellRows(u) \in SUBSET Notices /\ \A n \in BellRows(u) : queue[n].status # "absent"
      BY NoticesAssumption DEF BellRows
    <3> HIDE DEF BellRows
    <3> QED
      BY <3>1
  <2>2. queue' = [n \in Notices |->
                   IF n \in rows THEN [queue[n] EXCEPT !.status = "withdrawn"] ELSE queue[n]]
    BY <1>5, <2>1 DEF ClearBell
  <2>3. \A n \in Notices : [queue[n] EXCEPT !.status = "withdrawn"].status = "withdrawn"
    BY <1>T DEF TypeOK, Row
  <2>4. Stat' = [n \in Notices |-> IF n \in rows THEN "withdrawn" ELSE Stat[n]]
    BY <2>2, <2>3 DEF Stat
  <2>5. Promise!Withdraw(rows)
    BY <1>1, <2>1, <2>4 DEF Promise!Withdraw, Stat, Reached, Got
  <2> QED
    BY <2>1, <2>5 DEF Promise!Next
<1>6. ASSUME NEW at \in 0..MaxTime, Reschedule(at) PROVE Stat' = Stat
  <2>1. \A n \in Notices : [queue[n] EXCEPT !.at = at].status = queue[n].status
    BY <1>T DEF TypeOK, Row
  <2>2. \A n \in Notices : queue'[n].status = queue[n].status
    BY <1>6, <2>1 DEF Reschedule
  <2> QED
    BY <2>2 DEF Stat
<1>7. ASSUME UNCHANGED queue PROVE Stat' = Stat
  BY <1>7 DEF Stat
<1> QED
  BY <1>1, <1>3, <1>4, <1>5, <1>6, <1>7
  DEF Backend, Subscribe, Unsubscribe, Link, Unlink

\* A delivery reaches a pending row; a commit settles the batch.
LEMMA MapsWorker == IInv /\ (Worker \/ Crash \/ Tick \/ UNCHANGED vars) => [Promise!Next]_Promise!vars
<1> SUFFICES ASSUME IInv, Worker \/ Crash \/ Tick \/ UNCHANGED vars
             PROVE  [Promise!Next]_(<<Stat, Reached>>)
  BY DEF Promise!vars, Stat, Reached, Got
<1>T. TypeOK
  BY DEF IInv
<1>1. ASSUME NEW x \in sending, NEW a \in Answers, NEW reached \in BOOLEAN, Send(x, a, reached)
      PROVE  [Promise!Next]_(<<Stat, Reached>>)
  <2>0. x \in Devices \cup Chats
    BY <1>T DEF TypeOK
  <2>1. PICK r \in Notices : r = row /\ queue' = queue /\ queue[r].status = "pending"
    BY <1>1 DEF IInv, TypeOK, Phase, ClaimHolds, Send, stored
  <2>2. Stat' = Stat /\ Stat[r] = "pending"
    BY <2>1 DEF Stat
  <2>3. CASE ~reached
    <3>1. received' = received
      BY <1>1, <2>3 DEF Send
    <3> QED
      BY <2>2, <3>1 DEF Reached, Got
  <2>4. CASE reached
    <3> DEFINE cell == [received[r] EXCEPT ![x] = @ + 1]
    <3>1. received' = [received EXCEPT ![r] = cell]
      BY <1>1, <2>1, <2>4 DEF Send
    <3>2. cell[x] > 0
      BY <1>T, <2>0 DEF TypeOK
    <3> HIDE DEF cell
    <3>3. received'[r][x] > 0 /\ \A n \in Notices : n # r => received'[n] = received[n]
      BY <1>T, <3>1, <3>2 DEF TypeOK
    <3>4. Got(r)' /\ \A n \in Notices : n # r => (Got(n)' <=> Got(n))
      BY <2>0, <3>3 DEF Got
    <3>5. Reached' = Reached \cup {r}
      BY <3>4 DEF Reached
    <3>6. Promise!Reach(r)
      BY <2>2, <3>5 DEF Promise!Reach, Stat, Reached, Got
    <3> QED
      BY <3>6 DEF Promise!Next
  <2> QED
    BY <2>3, <2>4
<1>2. CASE Commit
  <2>1. PICK sent \in SUBSET Notices, failed \in SUBSET Notices :
          /\ sent = {n \in claimed : session[n].status = "sent"}
          /\ failed = {n \in claimed : session[n].status = "failed"}
          /\ sent \cap failed = {}
    <3>1. \A s \in {"sent", "failed"} : {n \in claimed : session[n].status = s} \in SUBSET Notices
      BY <1>T DEF TypeOK
    <3> QED
      BY <3>1
  <2>2. \A n \in sent \cup failed : Stat[n] = "pending"
    BY <1>T, <2>1 DEF IInv, ClaimHolds, TypeOK, Stat
  <2>3. sent \subseteq Reached
    BY <1>T, <2>1 DEF IInv, Witnessed, TypeOK, Reached
  <2>4. received' = received
    BY <1>2 DEF Commit, EndBatch
  <2>5. Reached' = Reached
    BY <2>4 DEF Reached, Got
  <2>6. \A n \in Notices : queue'[n].status = IF n \in sent THEN "sent"
                                              ELSE IF n \in failed THEN "failed" ELSE queue[n].status
    <3>1. ASSUME NEW n \in claimed PROVE session[n].status \in {"pending", "sent", "failed"}
                                          /\ queue[n].status = "pending"
      BY DEF IInv, Phase, ClaimHolds
    <3> QED
      BY <1>2, <2>1, <3>1 DEF Commit
  <2>7. Stat' = [n \in Notices |-> IF n \in sent THEN "sent"
                                   ELSE IF n \in failed THEN "failed" ELSE Stat[n]]
    BY <2>6 DEF Stat
  <2>8. Promise!Settle(sent, failed)
    BY <2>1, <2>2, <2>3, <2>5, <2>7 DEF Promise!Settle, Stat, Reached, Got
  <2> QED
    BY <2>1, <2>8 DEF Promise!Next
<1>3. CASE Claim \/ BeginRow \/ EndRow \/ FlushFails \/ Crash \/ Tick \/ UNCHANGED vars
  <2>1. queue' = queue /\ received' = received
    BY <1>3 DEF Claim, BeginRow, EndRow, FlushFails, Crash, Tick, EndBatch, vars, stored
  <2> QED
    BY <2>1 DEF Stat, Reached, Got
<1> QED
  BY <1>1, <1>2, <1>3 DEF Worker

\* The queue implements at-least-once delivery for any constants.
THEOREM PromiseKept == Spec => ImplementsPromise
<1>1. IInv /\ [Next]_vars => [Promise!Next]_Promise!vars
  BY MapsBackend, MapsWorker DEF Next
<1> QED
  BY <1>1, MapsInit, Invariant, PTL DEF Spec, Promise!Spec, ImplementsPromise
=============================================================================
