------------------------------ MODULE FetchPass ------------------------------
(***************************************************************************)
(* The daily pass over the clubs whose schedule is published as a sheet     *)
(* (tournaments/auto_fetch): an advisory lock of the database session       *)
(* around it, and a commit after every club. A commit gives the connection  *)
(* back to the pool, the next statement takes the one that has waited       *)
(* longest (the engine's default queue); the lock stays with the connection *)
(* it was taken on. Schedule models what one club's import does.            *)
(***************************************************************************)
EXTENDS Integers, FiniteSets, Sequences, SequencesExt

CONSTANTS
    None,       \* no connection
    Clubs,      \* clubs with a schedule_source_url
    Conns,      \* connections the pool keeps
    Requests,   \* requests that use the same pool
    MaxPasses, MaxRequests  \* bounds

VARIABLES
    pool,       \* connections not in use, the one that has waited longest first
    using,      \* the connection of the pass and of each request, or None
    holds,      \* times each connection holds the advisory lock
    pass,       \* the pass: how far it is and the clubs it has left
    fetched,    \* clubs whose schedule has been written and committed
    pending,    \* the club whose rows are written and not committed
    skipped,    \* history: a pass found the lock taken
    passes,     \* history: passes so far, for the bound
    requests    \* history: requests so far, for the bound

vars == <<pool, using, holds, pass, fetched, pending, skipped, passes, requests>>

Pass == "pass"
Users == Requests \cup {Pass}

Init ==
    /\ pool = SetToSeq(Conns)
    /\ using = [u \in Users |-> None]
    /\ holds = [c \in Conns |-> 0]
    /\ pass = [step |-> "idle", left |-> {}]
    /\ fetched = {} /\ pending = {}
    /\ skipped = FALSE /\ passes = 0 /\ requests = 0

\* A session takes a connection with its first statement, and its commit or
\* its close gives it back: rolled back, with its session locks.
Take(u) == using' = [using EXCEPT ![u] = Head(pool)] /\ pool' = Tail(pool)
Give(u) == using' = [using EXCEPT ![u] = None] /\ pool' = Append(pool, using[u])

RequestBegins(r) ==
    /\ using[r] = None /\ pool # <<>> /\ requests < MaxRequests
    /\ Take(r) /\ requests' = requests + 1
    /\ UNCHANGED <<holds, pass, fetched, pending, skipped, passes>>

RequestEnds(r) ==
    /\ using[r] # None /\ Give(r)
    /\ UNCHANGED <<holds, pass, fetched, pending, skipped, passes, requests>>

Free(c) == \A o \in Conns \ {c} : holds[o] = 0

\* pg_try_advisory_lock: the connection that holds it already gets it again.
TryLock ==
    /\ pass.step = "idle" /\ pool # <<>> /\ passes < MaxPasses
    /\ Free(Head(pool)) /\ Take(Pass)
    /\ holds' = [holds EXCEPT ![Head(pool)] = @ + 1]
    /\ pass' = [step |-> "clubs", left |-> Clubs]
    /\ passes' = passes + 1
    /\ UNCHANGED <<fetched, pending, skipped, requests>>

NotLocked ==
    /\ pass.step = "idle" /\ pool # <<>> /\ passes < MaxPasses
    /\ ~Free(Head(pool))
    /\ skipped' = TRUE /\ passes' = passes + 1
    /\ pool' = Append(Tail(pool), Head(pool))
    /\ UNCHANGED <<using, holds, pass, fetched, pending, requests>>

\* Each statement after a commit takes a connection if there is none.
Connected == using[Pass] # None \/ pool # <<>>
Connect == IF using[Pass] = None THEN Take(Pass) ELSE UNCHANGED <<using, pool>>

\* fetch_club_schedule: the rows are written, or the error is noted; either
\* way the pass goes on to its commit.
FetchClub(c) ==
    /\ pass.step = "clubs" /\ c \in pass.left /\ Connected /\ Connect
    /\ pass' = [step |-> "fetched", left |-> pass.left \ {c}]
    /\ pending' \in {{c}, {}}
    /\ UNCHANGED <<holds, fetched, skipped, passes, requests>>

\* A commit for every club: the failure of one does not undo the others.
CommitClub ==
    /\ pass.step = "fetched"
    /\ fetched' = fetched \cup pending
    /\ pending' = {} /\ pass' = [pass EXCEPT !.step = "clubs"]
    /\ Give(Pass)
    /\ UNCHANGED <<holds, skipped, passes, requests>>

\* Something fetch_club_schedule does not catch: the transaction is gone.
Breaks ==
    /\ pass.step \in {"clubs", "fetched"} /\ pass.left # {}
    /\ pending' = {} /\ pass' = [step |-> "clubs", left |-> {}]
    /\ UNCHANGED <<pool, using, holds, fetched, skipped, passes, requests>>

\* pg_advisory_unlock, on whichever connection the session has by then: one
\* that does not hold the lock is only warned.
Unlock ==
    /\ pass.step = "clubs" /\ pass.left = {} /\ Connected /\ Connect
    /\ LET c == IF using[Pass] = None THEN Head(pool) ELSE using[Pass]
       IN  holds' = [holds EXCEPT ![c] = IF @ > 0 THEN @ - 1 ELSE 0]
    /\ pass' = [step |-> "unlocked", left |-> {}]
    /\ UNCHANGED <<fetched, pending, skipped, passes, requests>>

Close ==
    /\ pass.step = "unlocked" /\ Give(Pass)
    /\ pass' = [step |-> "idle", left |-> {}]
    /\ UNCHANGED <<holds, fetched, pending, skipped, passes, requests>>

Next ==
    \/ \E r \in Requests : RequestBegins(r) \/ RequestEnds(r)
    \/ TryLock \/ NotLocked
    \/ \E c \in Clubs : FetchClub(c)
    \/ CommitClub \/ Breaks \/ Unlock \/ Close

Spec == Init /\ [][Next]_vars

-----------------------------------------------------------------------------

\* "The schedules are fetched by themselves once a day": a pass finds the lock
\* taken only while another pass is under way, and one loop runs the passes.
DailyPassRuns == ~skipped
=============================================================================
