----------------------------- MODULE Collector -----------------------------
(***************************************************************************)
(* The lobby collector on top of the schedule (services/collector.py): a   *)
(* phone walks the clubs of an application and sends what their lobbies    *)
(* show. A tournament it recognises is refined at once; a new one, a       *)
(* missing one or another buy-in waits in a queue for a manager, and the   *)
(* managers decide without a lock. Meanwhile the imports and the           *)
(* roll-forward of Schedule keep rewriting the same starts and templates.  *)
(***************************************************************************)
EXTENDS Schedule, Sequences, Functions

CONSTANTS
    Managers,      \* staff deciding on the queue; bound: one decision each
    Changes,       \* row numbers of tournament_changes (1..n, in order)
    Lobbies,       \* sequences of what a lobby may show, in order of time
    Near,          \* CANCEL_HORIZON, in days
    MaxPasses      \* bound: snapshots sent

ASSUME LobbiesAssumption ==
    Lobbies \subseteq Seq([day : Day, name : Names, core : {1, 2}, late : {None, 0, 1}])

VARIABLES
    run,       \* status of the collector's run
    changes,   \* tournament_changes
    deciding,  \* what each manager has read: [change, payload, verdict]
    shown,     \* history: the lobby of the snapshot just taken
    passes     \* history: snapshots sent, for the bound

cvars == <<run, changes, deciding, shown, passes>>

NoChange == [none |-> TRUE]
Idle == [none |-> TRUE]
Done == [done |-> TRUE]
Open(m) == deciding[m] \notin {Idle, Done}
NoPayload == [ours |-> None, lobby |-> None, seen |-> None]

CInit ==
    /\ Init
    /\ run = "none"
    /\ changes = [c \in Changes |-> NoChange]
    /\ deciding = [m \in Managers |-> Idle]
    /\ shown = <<>>
    /\ passes = 0

\* Any step but a snapshot.
Forget == shown' = <<>>

\* A commit while handlers of the schedule are in flight.
Overlaps == overlap' = [h \in Handlers |-> overlap[h] \/ Busy(h)]

Queued(cs) == {c \in Changes : cs[c] # NoChange}

\* tournament_id ON DELETE SET NULL
Unlinked(cs, view) ==
    [c \in Changes |->
        IF cs[c] # NoChange /\ cs[c].linked /\ view[cs[c].at] = NoStart
          THEN [cs[c] EXCEPT !.linked = FALSE] ELSE cs[c]]

(***************************************************************************)
(* start_run, finish_run                                                   *)
(***************************************************************************)
Running == run = "running"

start_run ==
    /\ ~Running /\ passes < MaxPasses
    /\ run' = "running"
    /\ UNCHANGED <<vars, changes, deciding, passes>> /\ Forget

finish_run ==
    /\ Running
    /\ run' = "finished"
    /\ UNCHANGED <<vars, changes, deciding, passes>> /\ Forget

(***************************************************************************)
(* _queue: the same difference waits once; a decided one is not asked      *)
(* again (a changed start is, if it differs in another way).               *)
(***************************************************************************)
About(cs, kind, i) ==
    {c \in Queued(cs) : cs[c].kind = kind /\ cs[c].at = i /\ (kind = "new" \/ cs[c].linked)}

Waiting(cs, kind, i) == {c \in About(cs, kind, i) : cs[c].status = "pending"}

Settled(cs, kind, i, payload) ==
    \E c \in About(cs, kind, i) :
        cs[c].status # "pending" /\ (kind # "changed" \/ cs[c].payload = payload)

FreshChange(cs) == CHOOSE c \in Changes \ Queued(cs) :
                    \A d \in Changes \ Queued(cs) : c <= d

NewChange(kind, i, payload) ==
    [kind |-> kind, status |-> "pending", at |-> i, linked |-> kind # "new",
     payload |-> payload, verdicts |-> {}, raced |-> FALSE]

Queue(cs, kind, i, payload) ==
    IF Waiting(cs, kind, i) # {}
      THEN [c \in Changes |-> IF c \in Waiting(cs, kind, i)
                                THEN [cs[c] EXCEPT !.payload = payload] ELSE cs[c]]
    ELSE IF Settled(cs, kind, i, payload) THEN cs
    ELSE [cs EXCEPT ![FreshChange(cs)] = NewChange(kind, i, payload)]

(***************************************************************************)
(* ingest_snapshot                                                         *)
(***************************************************************************)
Score(i, s, x) == (IF x.name \in {i[2], s.lobby} THEN 2 ELSE 0)
                  + (IF x.core = s.core THEN 1 ELSE 0)

Candidates(acc, x) == {i \in acc.unmatched : i[1] = x.day}

\* Of two starts with one score the nearer one is taken, or either.
Best(acc, x) ==
    {i \in Candidates(acc, x) :
        \A j \in Candidates(acc, x) : Score(j, acc.starts[j], x) <= Score(i, acc.starts[i], x)}

\* The start the lobby shows as x is i, or is not known (None).
Recognised(acc, x, i) ==
    IF i = None THEN \A j \in Candidates(acc, x) : Score(j, acc.starts[j], x) = 0
    ELSE i \in Best(acc, x) /\ Score(i, acc.starts[i], x) > 0

\* The close of the late registration follows the levels, when the lobby says them.
refresh_late_reg(late, x) == IF x.late # None THEN x.late ELSE late

Refine(row, x, i) ==
    [row EXCEPT !.late = refresh_late_reg(row.late, x),
                !.lobby = IF x.name \in {i[2], row.lobby} THEN row.lobby ELSE x.name]

\* Only what differs on the start is written, to it and to its template.
RefineTemplate(t, s, x, i) ==
    [t EXCEPT !.late = IF x.late # s.late THEN refresh_late_reg(t.late, x) ELSE t.late,
              !.lobby = IF x.name \in {i[2], s.lobby} THEN t.lobby ELSE x.name]

See(acc, x, i) ==
    IF i = None
      THEN [acc EXCEPT !.changes =
              Queue(acc.changes, "new", <<x.day, x.name>>, [ours |-> None, lobby |-> x.core, seen |-> x])]
    ELSE
      LET s == acc.starts[i]
          t == IF s.detached THEN None ELSE s.tpl
      IN  [acc EXCEPT
             !.unmatched = acc.unmatched \ {i},
             !.starts = [acc.starts EXCEPT ![i] = Refine(s, x, i)],
             !.templates = IF t = None THEN acc.templates
                           ELSE [acc.templates EXCEPT ![t] = RefineTemplate(@, s, x, i)],
             !.changes = IF x.core = s.core THEN acc.changes
                         ELSE Queue(acc.changes, "changed", i,
                                    [ours |-> s.core, lobby |-> x.core, seen |-> None])]

InWindow(from) == {i \in Window(from) : starts[i] # NoStart /\ starts[i].status = "scheduled"}

Unseen == [starts |-> starts, templates |-> templates, changes |-> changes,
           unmatched |-> InWindow(now)]

\* What is left after each of the lobby's entries, match being what they are.
Ingested(lobby, match) ==
    LET acc[k \in 0..Len(lobby)] ==
          IF k = 0 THEN Unseen ELSE See(acc[k - 1], lobby[k], match[k])
    IN  acc

\* The missing starts that neither wait in the queue nor were decided on.
Unasked(cs, missing) ==
    {i \in missing : Waiting(cs, "missing", i) = {} /\ ~Settled(cs, "missing", i, NoPayload)}

QueueMissing(cs, missing) ==
    LET new == Unasked(cs, missing)
        number == CHOOSE f \in Injection(new, Changes \ Queued(cs)) : TRUE
    IN  [c \in Changes |->
           IF \E i \in new : number[i] = c
             THEN NewChange("missing", CHOOSE i \in new : number[i] = c, NoPayload)
           ELSE IF \E i \in missing : c \in Waiting(cs, "missing", i)
             THEN [cs[c] EXCEPT !.payload = NoPayload]
           ELSE cs[c]]

\* Only what the lobby surely shows by now is taken off the schedule.
Cancellable_Always(i) == TRUE

Cancellable(i) == i[1] <= now + Near

ingest_snapshot ==
    \E lobby \in Lobbies, complete \in BOOLEAN :
        /\ Running /\ passes < MaxPasses
        /\ \A k \in DOMAIN lobby : lobby[k].day \in now..(now + Horizon)
        /\ Cardinality(Changes \ Queued(changes)) >= Len(lobby)     \* bound: |Changes| rows
        /\ \E match \in [DOMAIN lobby -> Identity \cup {None}] :
             LET acc == Ingested(lobby, match)
                 seen == acc[Len(lobby)]
                 gone == seen.unmatched
             IN  /\ \A k \in DOMAIN lobby : Recognised(acc[k - 1], lobby[k], match[k])
                 /\ Cardinality(Changes \ Queued(seen.changes))
                       >= Cardinality(Unasked(seen.changes, gone))  \* bound: |Changes| rows
                 /\ changes' = QueueMissing(seen.changes, gone)
                 /\ templates' = seen.templates
                 /\ starts' = [i \in Identity |->
                       IF i \in gone /\ complete /\ Cancellable(i)
                         THEN [seen.starts[i] EXCEPT !.status = "cancelled"]
                         ELSE seen.starts[i]]
        /\ shown' = lobby /\ passes' = passes + 1
        /\ Overlaps
        /\ UNCHANGED <<now, bells, fetchError, mem, lost, strays, started, run, deciding>>

(***************************************************************************)
(* apply_change, dismiss_change                                            *)
(***************************************************************************)
PendingChange_AnyStatus(m) ==
    \E c \in Queued(changes), verdict \in {"applied", "dismissed"} :
        /\ deciding[m] = Idle
        /\ deciding' = [deciding EXCEPT ![m] =
              [change |-> c, payload |-> changes[c].payload, verdict |-> verdict]]
        /\ UNCHANGED <<vars, run, changes, passes>> /\ Forget

PendingChange(m) ==
    \E c \in Queued(changes), verdict \in {"applied", "dismissed"} :
        /\ deciding[m] = Idle
        /\ changes[c].status = "pending"
        /\ deciding' = [deciding EXCEPT ![m] =
              [change |-> c, payload |-> changes[c].payload, verdict |-> verdict]]
        /\ UNCHANGED <<vars, run, changes, passes>> /\ Forget

\* The decision is written over whatever is there by now.
Decide(m) ==
    LET c == deciding[m].change
        r == changes[c]
    IN  [changes EXCEPT ![c] =
           [r EXCEPT !.status = deciding[m].verdict,
                     !.verdicts = r.verdicts \cup {deciding[m].verdict},
                     !.raced = r.raced \/ \E k \in Managers \ {m} :
                         Open(k) /\ deciding[k].change = c]]

Decided(m) == deciding' = [deciding EXCEPT ![m] = Done]

dismiss_change(m) ==
    /\ Open(m) /\ deciding[m].verdict = "dismissed"
    /\ changes' = Decide(m)
    /\ Decided(m)
    /\ UNCHANGED <<vars, run, passes>> /\ Forget

Applying(m, kind) ==
    /\ Open(m) /\ deciding[m].verdict = "applied"
    /\ changes[deciding[m].change].kind = kind

apply_new(m) ==
    /\ Applying(m, "new")
    /\ LET c == deciding[m].change
           i == changes[c].at
           x == deciding[m].payload.seen
       IN  IF starts[i] # NoStart
             THEN UNCHANGED <<starts, changes>>   \* the identity is taken: rolled back
             ELSE /\ starts' = [starts EXCEPT ![i] =
                        [tpl |-> None, core |-> x.core, late |-> x.late, lobby |-> None,
                         detached |-> TRUE, status |-> "scheduled"]]
                  /\ changes' = [Decide(m) EXCEPT ![c].linked = TRUE]
    /\ Decided(m)
    /\ Overlaps
    /\ UNCHANGED <<now, templates, bells, fetchError, mem, lost, strays, started, run, passes>>
    /\ Forget

apply_missing(m) ==
    /\ Applying(m, "missing")
    /\ LET c == deciding[m].change
       IN  starts' = IF changes[c].linked
                       THEN [starts EXCEPT ![changes[c].at].status = "cancelled"]
                       ELSE starts
    /\ changes' = Decide(m)
    /\ Decided(m)
    /\ Overlaps
    /\ UNCHANGED <<now, templates, bells, fetchError, mem, lost, strays, started, run, passes>>
    /\ Forget

\* The start, its template and the other starts to come of that template.
Affected(i) ==
    {i} \cup IF starts[i].tpl = None \/ starts[i].detached THEN {}
             ELSE {j \in Live(starts) : starts[j].tpl = starts[i].tpl /\ ~starts[j].detached
                                        /\ j[1] > now}

apply_changed(m) ==
    /\ Applying(m, "changed")
    /\ LET c == deciding[m].change
           i == changes[c].at
           value == deciding[m].payload.lobby
       IN  IF ~changes[c].linked
             THEN UNCHANGED <<starts, templates, changes>>   \* tournament_gone
             ELSE /\ starts' = [j \in Identity |->
                        IF j \in Affected(i) THEN [starts[j] EXCEPT !.core = value]
                        ELSE starts[j]]
                  /\ templates' = [t \in Templates |->
                        IF t = starts[i].tpl /\ ~starts[i].detached
                          THEN [templates[t] EXCEPT !.core = value] ELSE templates[t]]
                  /\ changes' = Decide(m)
    /\ Decided(m)
    /\ Overlaps
    /\ UNCHANGED <<now, bells, fetchError, mem, lost, strays, started, run, passes>>
    /\ Forget

\* Imports and passes of Schedule; its bells and removals are checked there.
ScheduleWork(h) ==
    \/ ImportSync(h) \/ ExpandRead(h) \/ ImportCommit(h) \/ ImportFails(h)
    \/ RollForwardBegin(h) \/ RollForwardRead(h) \/ RollForwardCommit(h)
    \/ RollForwardFails(h)

CNext ==
    \/ /\ Tick \/ \E h \in Handlers : ScheduleWork(h)
       /\ changes' = Unlinked(changes, starts')
       /\ UNCHANGED <<run, deciding, passes>> /\ Forget
    \/ start_run \/ finish_run \/ ingest_snapshot
    \/ \E m \in Managers : \/ PendingChange(m) \/ dismiss_change(m)
                           \/ apply_new(m) \/ apply_missing(m) \/ apply_changed(m)

CSpec == CInit /\ [][CNext]_<<vars, cvars>>

(***************************************************************************)
(* Properties.                                                             *)
(***************************************************************************)

\* A difference is decided one way, unless two managers were deciding on it
\* at once: _pending reads it without a lock.
OneVerdict ==
    \A c \in Queued(changes) :
        Cardinality(changes[c].verdicts) > 1 => changes[c].raced

\* A snapshot takes off the schedule no start that begins later than the lobby
\* can be trusted about (a night pass once cancelled 263 live tournaments), and
\* none the lobby shows under its own name, unless another start of that time
\* bears the name and was taken for it.
CancelsOnlyTheMissing ==
    [][ingest_snapshot =>
        \A i \in Live(starts) :
            starts[i].status = "scheduled" /\ starts'[i].status = "cancelled" =>
                /\ i[1] <= now + Near
                /\ \A k \in DOMAIN shown' : shown'[k].day = i[1] /\ shown'[k].name = i[2] =>
                     \E j \in Identity \ {i} :
                        /\ j[1] = i[1] /\ starts'[j].status = "scheduled"
                        /\ starts'[j].lobby = i[2]
      ]_<<vars, cvars>>

\* A difference that was dismissed is not asked again every morning, one that
\* nobody dismissed is (collector.py:200).
StandingDifferenceIsAsked ==
    [][ingest_snapshot =>
        \A k \in DOMAIN shown', i \in Live(starts) :
            /\ shown'[k].day = i[1] /\ shown'[k].name = i[2]
            /\ starts[i].status = "scheduled"
            /\ shown'[k].core # starts'[i].core
            => \E c \in About(changes', "changed", i) :
                  /\ changes'[c].status \in {"pending", "dismissed"}
                  /\ changes'[c].payload.lobby = shown'[k].core
      ]_<<vars, cvars>>
=============================================================================
