------------------------------ MODULE Schedule ------------------------------
(***************************************************************************)
(* The tournament schedule of a club: the templates of its grid, the      *)
(* starts unrolled from them over the horizon, and the bells players hang  *)
(* on the starts (services/tournaments/schedule_sync, rollforward,         *)
(* imports, auto_fetch, reminders).                                        *)
(*                                                                         *)
(* Four kinds of work write the same rows and none locks them: the import  *)
(* of a file by a manager, the daily fetch of the union's sheet, the       *)
(* roll-forward loop (which only excludes another roll-forward) and the    *)
(* removal of one template. Each is one READ COMMITTED transaction: it     *)
(* reads the templates, then the starts, and writes at its commit, so      *)
(* another one may commit in between. The days of the clock are the unit   *)
(* of time; a template's weekdays, dates and weeks of the month are the    *)
(* set of days on which it occurs.                                         *)
(***************************************************************************)
EXTENDS Naturals, FiniteSets

CONSTANTS
    None,          \* NULL
    Handlers,      \* requests and loops in flight
    Templates,     \* row numbers of tournament_templates (a set of naturals)
    Names,         \* names of tournaments
    MaxDay,        \* bound: the last day of the clock
    Horizon,       \* schedule_horizon_days
    Files,         \* grids an import may bring: [source, drafts]
    InitStarts,    \* the starts a clean database may begin with
    GuardMin,      \* _GUARD_MIN_TEMPLATES
    MaxRequests    \* bound: imports, fetches, passes, removals, bells begun

Lead == 1                      \* tournament_reminder_lead_minutes
Day == 0..MaxDay
Identity == Day \X Names       \* (starts_at, name) of one club
Kinds == {"start", "late_reg"}
NoTemplate == [none |-> TRUE]
NoStart == [none |-> TRUE]
NoBell == [none |-> TRUE]
NoMem == [op |-> "none"]

ASSUME ScheduleAssumption ==
    /\ Templates \subseteq Nat
    /\ MaxDay \in Nat /\ Horizon \in Nat /\ GuardMin \in Nat /\ MaxRequests \in Nat
    /\ None \notin Templates
    /\ \E last \in Templates \cup {0} : \A t \in Templates : t <= last

VARIABLES
    now,        \* the clock
    templates,  \* tournament_templates
    starts,     \* tournaments, by their unique identity
    bells,      \* tournament_reminders with their queued pushes
    fetchError, \* clubs.schedule_fetch_error is set
    mem,        \* what each handler has read
    lost,       \* rows deleted by others since the handler began
    overlap,    \* history: someone else committed since the handler began
    strays,     \* history: starts whose template went in an overlapped commit
    started     \* history: handlers begun, for the bound

vars == <<now, templates, starts, bells, fetchError, mem, lost, overlap, strays, started>>
db == <<templates, starts, bells, fetchError>>

Draft == [name : Names, kind : {"weekly", "monthly", "dated"}, days : SUBSET Day,
          core : {1, 2}, late : {None, 0, 1}, lobby : Names \cup {None}]
Start == [tpl : Templates \cup {None}, core : {1, 2}, late : {None, 0, 1},
          lobby : Names \cup {None}, detached : BOOLEAN,
          status : {"scheduled", "cancelled"}]
Bell == [due : 0..(MaxDay + 1), sent : BOOLEAN, asked : Day, stale : BOOLEAN]

\* A clean database holds hand-made starts at most.
ASSUME FilesAssumption ==
    /\ \A file \in Files : file.drafts \subseteq Draft
    /\ \A view \in InitStarts :
          /\ view \in [Identity -> Start \cup {NoStart}]
          /\ \A i \in Identity : view[i] # NoStart => view[i].tpl = None /\ view[i].detached

Ids(view) == {t \in Templates : view[t] # NoTemplate}
Live(view) == {i \in Identity : view[i] # NoStart}

Init ==
    /\ now = 0
    /\ templates = [t \in Templates |-> NoTemplate]
    /\ starts \in InitStarts
    /\ bells = [b \in Identity \X Kinds |-> NoBell]
    /\ fetchError = FALSE
    /\ mem = [h \in Handlers |-> NoMem]
    /\ lost = [h \in Handlers |-> [t |-> {}, s |-> {}]]
    /\ overlap = [h \in Handlers |-> FALSE]
    /\ strays = {}
    /\ started = 0

(***************************************************************************)
(* Transactions.                                                           *)
(***************************************************************************)
Busy(h) == mem[h] # NoMem

Begin(h, m) ==
    /\ ~Busy(h) /\ started < MaxRequests
    /\ started' = started + 1
    /\ mem' = [mem EXCEPT ![h] = m]
    /\ lost' = [lost EXCEPT ![h] = [t |-> {}, s |-> {}]]
    /\ overlap' = [overlap EXCEPT ![h] = FALSE]

Continue(h, m) ==
    /\ mem' = [mem EXCEPT ![h] = m]
    /\ UNCHANGED <<lost, overlap, started>>

\* The transaction of h ends; goneT and goneS are the rows it deleted.
Commit(h, goneT, goneS) ==
    /\ mem' = [mem EXCEPT ![h] = NoMem]
    /\ lost' = [k \in Handlers |->
                  IF k = h \/ ~Busy(k) THEN [t |-> {}, s |-> {}]
                  ELSE [t |-> lost[k].t \cup goneT, s |-> lost[k].s \cup goneS]]
    /\ overlap' = [k \in Handlers |-> k # h /\ Busy(k)]
    /\ UNCHANGED started

\* An exception: get_db, or the loop's session, rolls everything back.
Rollback(h) ==
    /\ mem' = [mem EXCEPT ![h] = NoMem]
    /\ lost' = [lost EXCEPT ![h] = [t |-> {}, s |-> {}]]
    /\ overlap' = [overlap EXCEPT ![h] = FALSE]
    /\ UNCHANGED <<started, templates, starts, bells>>

(***************************************************************************)
(* sync_club_templates: the templates of one source brought to the file.   *)
(***************************************************************************)
Signature(t) ==
    <<t.name, t.kind, t.core, t.late, t.lobby, IF t.kind = "dated" THEN t.days ELSE {}>>

template_kind(t) == t.kind

OfSource(view, source) == {t \in Ids(view) : view[t].source = source}

\* by_signature: the first template of each signature; its doubles are stale.
FirstOfSignature(view, source) ==
    {t \in OfSource(view, source) :
        \A u \in OfSource(view, source) : Signature(view[u]) = Signature(view[t]) => t <= u}

MatchOf(view, file, d) ==
    {t \in FirstOfSignature(view, file.source) : Signature(view[t]) = Signature(d)}

Created(view, file) == {d \in file.drafts : MatchOf(view, file, d) = {}}

stale_template_ids(view, file) ==
    LET matched == UNION {MatchOf(view, file, d) : d \in file.drafts}
        kinds == {template_kind(d) : d \in file.drafts}
        first == FirstOfSignature(view, file.source)
    IN  (OfSource(view, file.source) \ first)
        \cup {t \in first \ matched : template_kind(view[t]) \in kinds}

\* The matched templates whose days the file changes (no code deactivates one).
Updated(view, file) ==
    {t \in Ids(view) : \E d \in file.drafts :
        t \in MatchOf(view, file, d) /\ view[t].days # d.days}

NewDays(view, file, t) ==
    (CHOOSE d \in file.drafts : t \in MatchOf(view, file, d)).days

(***************************************************************************)
(* expand_templates. A grid is the set of templates to unroll; a template  *)
(* the import is about to insert has no number yet.                        *)
(***************************************************************************)
AsGrid(view, t) ==
    [id |-> t, name |-> view[t].name, days |-> view[t].days, core |-> view[t].core,
     late |-> view[t].late, lobby |-> view[t].lobby]

ActiveGrid(view) == {AsGrid(view, t) : t \in Ids(view)}

ImportGrid_KeepsStale(view, file) ==
    {IF t \in Updated(view, file)
       THEN [AsGrid(view, t) EXCEPT !.days = NewDays(view, file, t)]
       ELSE AsGrid(view, t) : t \in Ids(view)}
    \cup {[id |-> None, name |-> d.name, days |-> d.days, core |-> d.core,
            late |-> d.late, lobby |-> d.lobby] : d \in Created(view, file)}

\* What an import unrolls: every template but the stale, and the new drafts.
ImportGrid(view, file) ==
    LET kept == Ids(view) \ stale_template_ids(view, file)
    IN  {IF t \in Updated(view, file)
           THEN [AsGrid(view, t) EXCEPT !.days = NewDays(view, file, t)]
           ELSE AsGrid(view, t) : t \in kept}
        \cup {[id |-> None, name |-> d.name, days |-> d.days, core |-> d.core,
                late |-> d.late, lobby |-> d.lobby] : d \in Created(view, file)}

Window(from) == {i \in Identity : from <= i[1] /\ i[1] <= from + Horizon}

Offers(grid, i) == {g \in grid : g.name = i[2] /\ i[1] \in g.days}

desired(grid, from) == {i \in Window(from) : Offers(grid, i) # {}}

\* Of two templates for one start the later one of the query wins; the query
\* names no order, and the row numbers stand for the one it happens to have.
Winner(grid, i) ==
    CHOOSE g \in Offers(grid, i) :
        g.id = None \/ \A o \in Offers(grid, i) : o.id # None /\ o.id <= g.id

apply_template(s, g, id) ==
    [s EXCEPT !.tpl = id, !.core = g.core, !.late = g.late, !.lobby = g.lobby]

NewStart(g, id) ==
    [tpl |-> id, core |-> g.core, late |-> g.late, lobby |-> g.lobby,
     detached |-> FALSE, status |-> "scheduled"]

\* The unit of work writes only the columns that differ from what was read.
Merge(current, seen, new) ==
    [f \in DOMAIN current |-> IF new[f] # seen[f] THEN new[f] ELSE current[f]]

Dropped_ByTemplate(seen, grid, from) ==
    {i \in Window(from) :
        /\ seen[i] # NoStart /\ ~seen[i].detached /\ seen[i].tpl # None
        /\ i \in desired(grid, from) => Winner(grid, i).id # seen[i].tpl}

\* What the loop over the existing starts decides from the starts it read.
Dropped(seen, grid, from) ==
    {i \in Window(from) \ desired(grid, from) :
        seen[i] # NoStart /\ ~seen[i].detached /\ seen[i].tpl # None}

Adopted(seen, grid, from) ==
    {i \in desired(grid, from) : seen[i] # NoStart /\ ~seen[i].detached}

Added(seen, grid, from) == {i \in desired(grid, from) : seen[i] = NoStart}

\* The commit of an expansion breaks no constraint: no start of the same
\* identity, no reference to a template that is gone, no update of a row
\* that is gone.
Writable(h, seen, grid, from) ==
    /\ \A i \in Added(seen, grid, from) :
          starts[i] = NoStart /\ Winner(grid, i).id \notin lost[h].t
    /\ \A i \in Adopted(seen, grid, from) :
          LET g == Winner(grid, i)
              new == apply_template(seen[i], g, g.id)
          IN  new # seen[i] => /\ i \notin lost[h].s
                               /\ g.id # seen[i].tpl => g.id \notin lost[h].t

Deleted(h, seen, grid, from) == Dropped(seen, grid, from) \ lost[h].s

\* number[g] is the row number of the template g stands for.
Expanded(h, seen, grid, from, number) ==
    [i \in Identity |->
        IF i \in Deleted(h, seen, grid, from) THEN NoStart
        ELSE IF i \in Added(seen, grid, from)
               THEN NewStart(Winner(grid, i), number[Winner(grid, i)])
        ELSE IF i \in Adopted(seen, grid, from) /\ i \notin lost[h].s
               THEN LET g == Winner(grid, i)
                    IN  Merge(starts[i], seen[i], apply_template(seen[i], g, number[g]))
        ELSE starts[i]]

(***************************************************************************)
(* Bells. anchor: the start, or the end of late registration.              *)
(***************************************************************************)
anchor(s, i, kind) ==
    IF kind = "start" THEN i[1]
    ELSE IF s.late = None THEN None ELSE i[1] + s.late

Later(a, b) == IF a > b THEN a ELSE b
Early(a) == IF a > Lead THEN a - Lead ELSE 0

\* The bells of a deleted start go with it.
Cascade(view, ring) ==
    [b \in Identity \X Kinds |-> IF view[b[1]] = NoStart THEN NoBell ELSE ring[b]]

reschedule_pending_Skipped(view, ring) == Cascade(view, ring)

\* reschedule_pending, with the cascade that took the bells of deleted starts.
reschedule_pending(view, ring) ==
    [b \in Identity \X Kinds |->
        IF view[b[1]] = NoStart THEN NoBell
        ELSE IF \/ ring[b] = NoBell \/ ring[b].sent
                \/ anchor(view[b[1]], b[1], b[2]) = None THEN ring[b]
        ELSE [ring[b] EXCEPT !.due = Early(anchor(view[b[1]], b[1], b[2])),
                             !.stale = FALSE]]

\* ON DELETE SET NULL of tournaments.template_id.
SetNull(view, gone) ==
    [i \in Identity |->
        IF view[i] # NoStart /\ view[i].tpl \in gone
          THEN [view[i] EXCEPT !.tpl = None] ELSE view[i]]

Orphaned(view, gone, from) ==
    {i \in Live(view) : view[i].tpl \in gone /\ ~view[i].detached /\ i[1] >= from}

(***************************************************************************)
(* apply_templates_import: a manager's file (op "import"), or the sheet    *)
(* fetched for the club (op "fetch").                                      *)
(***************************************************************************)
ImportSync(h) ==
    \E file \in Files :
        /\ Begin(h, [op |-> "import", file |-> file, from |-> now, tpls |-> templates])
        /\ UNCHANGED <<db, now, strays>>

\* fetch_club_schedule: the preview, which is rolled back, and the guard.
Guarded_All(view, file) ==
    /\ Cardinality(Ids(view)) >= GuardMin
    /\ Cardinality(stale_template_ids(view, file)) > Cardinality(Ids(view))

Guarded(view, file) ==
    /\ Cardinality(Ids(view)) >= GuardMin
    /\ 2 * Cardinality(stale_template_ids(view, file)) > Cardinality(Ids(view))

FetchPreview(h) ==
    \E file \in Files :
        IF Guarded(templates, file)
          THEN /\ Begin(h, [op |-> "refused"])
               /\ UNCHANGED <<db, now, strays>>
          ELSE /\ Begin(h, [op |-> "preview", file |-> file, from |-> now])
               /\ UNCHANGED <<db, now, strays>>

\* The sheet does not download or does not parse: nothing but the error.
FetchFails(h) ==
    /\ Begin(h, [op |-> "refused"])
    /\ UNCHANGED <<db, now, strays>>

FetchRefused(h) ==
    /\ mem[h].op = "refused"
    /\ fetchError' = TRUE
    /\ Commit(h, {}, {})
    /\ UNCHANGED <<templates, starts, bells, now, strays>>

FetchSync(h) ==
    /\ mem[h].op = "preview"
    /\ Continue(h, [op |-> "fetch", file |-> mem[h].file, from |-> mem[h].from,
                    tpls |-> templates])
    /\ UNCHANGED <<db, now, strays>>

ExpandRead(h) ==
    /\ mem[h].op \in {"import", "fetch"} /\ "seen" \notin DOMAIN mem[h]
    /\ Continue(h, [op |-> mem[h].op, file |-> mem[h].file, from |-> mem[h].from,
                    tpls |-> mem[h].tpls, seen |-> starts])
    /\ UNCHANGED <<db, now, strays>>

Free == Templates \ Ids(templates)

\* Row numbers for the created templates, in some order.
Numberings(new) ==
    {f \in [new -> Free] : \A d, e \in new : d # e => f[d] # f[e]}

\* created, updated and stale templates written
Synced(h, number) ==
    LET view == mem[h].tpls
        file == mem[h].file
        stale == stale_template_ids(view, file)
        updated == Updated(view, file)
        new == Created(view, file)
    IN  [t \in Templates |->
           IF \E d \in new : number[d] = t
             THEN LET d == CHOOSE d \in new : number[d] = t
                  IN  [name |-> d.name, kind |-> d.kind, days |-> d.days, core |-> d.core,
                       late |-> d.late, lobby |-> d.lobby, source |-> file.source]
           ELSE IF t \in stale \ lost[h].t THEN NoTemplate
           ELSE IF t \in updated
             THEN [templates[t] EXCEPT !.days = NewDays(view, file, t)]
           ELSE templates[t]]

Imported(h) == mem[h].op \in {"import", "fetch"} /\ "seen" \in DOMAIN mem[h]

Importable(h) ==
    LET view == mem[h].tpls
        grid == ImportGrid(view, mem[h].file)
    IN  /\ Updated(view, mem[h].file) \cap lost[h].t = {}
        /\ Writable(h, mem[h].seen, grid, mem[h].from)

ImportCommit(h) ==
    /\ Imported(h) /\ Importable(h)
    /\ LET view == mem[h].tpls
           file == mem[h].file
           grid == ImportGrid(view, file)
           stale == stale_template_ids(view, file) \ lost[h].t
           new == Created(view, file)
           draft(g) == CHOOSE d \in new : d.name = g.name /\ d.days = g.days /\ d.core = g.core
                                          /\ d.late = g.late /\ d.lobby = g.lobby
           number == CHOOSE f \in Numberings(new) : TRUE
           row == [g \in grid |-> IF g.id = None THEN number[draft(g)] ELSE g.id]
           unrolled == Expanded(h, mem[h].seen, grid, mem[h].from, row)
           after == SetNull(unrolled, stale)
       IN  /\ Numberings(new) # {}          \* bound: |Templates| rows
           /\ templates' = Synced(h, number)
           /\ starts' = after
           /\ bells' = reschedule_pending(after, bells)
           /\ strays' = IF overlap[h] THEN strays \cup Orphaned(unrolled, stale, now)
                        ELSE strays
           /\ fetchError' = (mem[h].op = "import" /\ fetchError)
           /\ Commit(h, stale, Deleted(h, mem[h].seen, grid, mem[h].from))
    /\ UNCHANGED now

\* A constraint breaks, or a row to update is gone.
ImportFails(h) ==
    /\ Imported(h) /\ ~Importable(h)
    /\ Rollback(h)
    /\ UNCHANGED <<fetchError, now, strays>>

(***************************************************************************)
(* expand_all_clubs: one process at a time, by an advisory lock.           *)
(***************************************************************************)
RollForwardBegin(h) ==
    /\ \A k \in Handlers : mem[k].op # "roll"
    /\ Ids(templates) # {}
    /\ Begin(h, [op |-> "roll", from |-> now, grid |-> ActiveGrid(templates)])
    /\ UNCHANGED <<db, now, strays>>

RollForwardRead(h) ==
    /\ mem[h].op = "roll" /\ "seen" \notin DOMAIN mem[h]
    /\ Continue(h, [op |-> "roll", from |-> mem[h].from, grid |-> mem[h].grid,
                    seen |-> starts])
    /\ UNCHANGED <<db, now, strays>>

RollForwardCommit(h) ==
    /\ mem[h].op = "roll" /\ "seen" \in DOMAIN mem[h]
    /\ Writable(h, mem[h].seen, mem[h].grid, mem[h].from)
    /\ LET row == [g \in mem[h].grid |-> g.id]
           after == Expanded(h, mem[h].seen, mem[h].grid, mem[h].from, row)
       IN  /\ starts' = after
           /\ bells' = reschedule_pending(after, bells)
    /\ Commit(h, {}, Deleted(h, mem[h].seen, mem[h].grid, mem[h].from))
    /\ UNCHANGED <<templates, fetchError, now, strays>>

RollForwardFails(h) ==
    /\ mem[h].op = "roll" /\ "seen" \in DOMAIN mem[h]
    /\ ~Writable(h, mem[h].seen, mem[h].grid, mem[h].from)
    /\ Rollback(h)
    /\ UNCHANGED <<fetchError, now, strays>>

(***************************************************************************)
(* delete_template                                                         *)
(***************************************************************************)
DeleteTemplateRead(h) ==
    \E t \in Ids(templates) :
        /\ Begin(h, [op |-> "delete", t |-> t,
                     ids |-> {i \in Live(starts) : starts[i].tpl = t /\ i[1] >= now
                                                   /\ ~starts[i].detached}])
        /\ UNCHANGED <<db, now, strays>>

DeleteTemplate(h) ==
    /\ mem[h].op = "delete"
    /\ LET ids == mem[h].ids \ lost[h].s
           gone == {mem[h].t} \ lost[h].t
           cleared == [i \in Identity |-> IF i \in ids THEN NoStart ELSE starts[i]]
       IN  /\ templates' = [t \in Templates |-> IF t \in gone THEN NoTemplate ELSE templates[t]]
           /\ starts' = SetNull(cleared, gone)
           /\ bells' = Cascade(cleared, bells)
           /\ strays' = IF overlap[h] THEN strays \cup Orphaned(cleared, gone, now) ELSE strays
           /\ Commit(h, gone, ids)
    /\ UNCHANGED <<fetchError, now>>

(***************************************************************************)
(* set_reminders: the player's bells on one start brought to `kinds`. The  *)
(* refusals (start gone, cancelled, no late registration, too late) change *)
(* nothing.                                                                *)
(***************************************************************************)
Ringing(i) == {k \in Kinds : bells[<<i, k>>] # NoBell}

Bellable(i, kinds) ==
    /\ starts[i].status = "scheduled" \/ kinds = {}
    /\ \A k \in kinds \ Ringing(i) :
          /\ anchor(starts[i], i, k) # None
          /\ anchor(starts[i], i, k) > now

SetRemindersRead(h) ==
    \E i \in Live(starts), kinds \in SUBSET Kinds :
        /\ Bellable(i, kinds)
        /\ kinds # Ringing(i)
        /\ Begin(h, [op |-> "bell", i |-> i, kinds |-> kinds, have |-> Ringing(i),
                     start |-> starts[i], from |-> now])
        /\ UNCHANGED <<db, now, strays>>

SetReminders(h) ==
    /\ mem[h].op = "bell"
    /\ LET i == mem[h].i
           new == mem[h].kinds \ mem[h].have
           at(k) == anchor(mem[h].start, i, k)
           moved(k) == at(k) # anchor(starts[i], i, k)
       IN  \* the reminder refers to a start that is there, once per kind
           IF new # {} /\ (i \in lost[h].s \/ new \cap Ringing(i) # {})
             THEN Rollback(h) /\ UNCHANGED <<fetchError, now, strays>>
           ELSE
             /\ bells' = [b \in Identity \X Kinds |->
                  IF b[1] # i \/ i \in lost[h].s THEN bells[b]
                  ELSE IF b[2] \in new
                    THEN [due |-> Later(Early(at(b[2])), mem[h].from), sent |-> FALSE,
                          asked |-> mem[h].from, stale |-> moved(b[2])]
                  ELSE IF b[2] \in mem[h].have \ mem[h].kinds THEN NoBell
                  ELSE bells[b]]
             /\ Commit(h, {}, {})
             /\ UNCHANGED <<templates, starts, fetchError, now, strays>>

\* The worker sends the push when its time has come.
Ring ==
    \E b \in Identity \X Kinds :
        /\ bells[b] # NoBell /\ ~bells[b].sent /\ bells[b].due <= now
        /\ bells' = [bells EXCEPT ![b].sent = TRUE]
        /\ UNCHANGED <<now, templates, starts, fetchError, mem, lost, overlap, strays, started>>

Tick ==
    /\ now < MaxDay
    /\ now' = now + 1
    /\ UNCHANGED <<db, mem, lost, overlap, strays, started>>

Work(h) ==
    \/ ImportSync(h) \/ FetchPreview(h) \/ FetchFails(h) \/ FetchRefused(h) \/ FetchSync(h)
    \/ ExpandRead(h) \/ ImportCommit(h) \/ ImportFails(h)
    \/ RollForwardBegin(h) \/ RollForwardRead(h) \/ RollForwardCommit(h)
    \/ RollForwardFails(h)
    \/ DeleteTemplateRead(h) \/ DeleteTemplate(h)
    \/ SetRemindersRead(h) \/ SetReminders(h)

Next == Ring \/ Tick \/ \E h \in Handlers : Work(h)

Spec == Init /\ [][Next]_vars

(***************************************************************************)
(* Properties.                                                             *)
(***************************************************************************)
\* The shape of the state.
TypeOK ==
    /\ now \in Day
    /\ \A t \in Ids(templates) :
          /\ templates[t].source \in {f.source : f \in Files}
          /\ templates[t].days \subseteq Day
    /\ starts \in [Identity -> Start \cup {NoStart}]
    /\ bells \in [Identity \X Kinds -> Bell \cup {NoBell}]
    /\ strays \subseteq Identity /\ fetchError \in BOOLEAN

\* A future start that came from the grid keeps a template to be managed by:
\* it loses it only to an import or a removal during which somebody else
\* committed (expand_templates: a start without a template is never touched
\* again, so such a stray stays in the schedule for good).
StrayOnlyByRace ==
    \A i \in Live(starts) :
        starts[i].tpl = None /\ ~starts[i].detached /\ i[1] >= now => i \in strays

\* What a pass leaves in its window: one start for each occurrence of each
\* template with the fields of that template, and no start no template wants,
\* but hand-made ones and strays.
Unrolled ==
    LET grid == ActiveGrid(templates)
    IN  \A i \in Window(now) :
          IF i \in desired(grid, now)
            THEN /\ starts[i] # NoStart
                 /\ \/ starts[i].detached
                    \/ \E g \in Offers(grid, i) :
                         apply_template(starts[i], g, g.id) = starts[i]
            ELSE starts[i] = NoStart \/ starts[i].detached \/ starts[i].tpl = None

PassCommits(h) == ImportCommit(h) \/ RollForwardCommit(h)

\* An import, a fetch or a roll-forward that nobody overlapped, and that did
\* not see midnight, leaves the schedule unrolled and every waiting bell at
\* its time (apply_templates_import, expand_all_clubs).
BellsInTime ==
    \A b \in Identity \X Kinds :
        bells[b] # NoBell /\ ~bells[b].sent =>
            LET a == anchor(starts[b[1]], b[1], b[2])
            IN  a # None => bells[b].due \in {Early(a), Later(Early(a), bells[b].asked)}

PassLeavesExactSchedule ==
    [][\A h \in Handlers :
         PassCommits(h) /\ ~overlap[h] /\ mem[h].from = now
            => Unrolled' /\ BellsInTime']_vars

\* A start that some template still offers keeps its bells, whichever template
\* it hangs on (uq_tournaments_club_starts_at_name): they go by the player's
\* hand, with the removal of the very template the start hangs on
\* (delete_template), or in a transaction that another one overlapped.
WantedStartKeepsBells ==
    [][\A b \in Identity \X Kinds :
         /\ bells[b] # NoBell /\ bells'[b] = NoBell
         /\ b[1] \in desired(ActiveGrid(templates'), now)
         => \E h \in Handlers :
              /\ Busy(h) /\ mem'[h] = NoMem
              /\ \/ overlap[h] \/ mem[h].op = "bell"
                 \/ mem[h].op = "delete" /\ starts[b[1]].tpl = mem[h].t]_vars

\* The daily fetch never removes more than half of a grid worth guarding,
\* unless the grid changed between its preview and its import.
FetchNeverGuts ==
    [][\A h \in Handlers :
         /\ mem[h].op = "fetch" /\ ImportCommit(h) /\ ~overlap[h]
         /\ Cardinality(Ids(templates)) >= GuardMin
         => 2 * Cardinality({t \in Ids(templates) : templates'[t] # templates[t]
                                /\ (templates'[t] = NoTemplate
                                     \/ Signature(templates'[t]) # Signature(templates[t]))})
               <= Cardinality(Ids(templates))]_vars
=============================================================================
