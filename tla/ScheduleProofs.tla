--------------------------- MODULE ScheduleProofs ---------------------------
(* Proofs about Schedule for any grids, files, clock and handlers.            *)
EXTENDS Schedule, FiniteSetTheorems, WellFoundedInduction, TLAPS

-----------------------------------------------------------------------------
(* Row numbers.                                                               *)

\* Row numbers are finitely many.
LEMMA TemplatesAreFinite == IsFiniteSet(Templates)
    <1>1. PICK last \in Templates \cup {0} : \A t \in Templates : t <= last
        BY ScheduleAssumption
    <1>2. last \in Nat /\ Templates \subseteq 0..last
        BY <1>1, ScheduleAssumption
    <1>3. IsFiniteSet(0..last)
        BY <1>2, FS_Interval
    <1> QED  BY <1>2, <1>3, FS_Subset

\* Of some row numbers one is the last.
LEMMA LastOfRows ==
    ASSUME NEW T \in SUBSET Templates, T # {}
    PROVE  \E t \in T : \A u \in T : u <= t
    <1>1. PICK last \in Templates \cup {0} : \A t \in Templates : t <= last
        BY ScheduleAssumption
    <1> DEFINE D == {last - t : t \in T}
    <1>2. last \in Nat /\ \A t \in T : t \in Nat /\ t <= last
        BY <1>1, ScheduleAssumption
    <1>3. D \subseteq Nat /\ D # {}
        <2>1. \A t \in T : last - t \in Nat
            BY <1>2
        <2>2. PICK t \in T : TRUE
            OBVIOUS
        <2>3. last - t \in D
            OBVIOUS
        <2> QED  BY <2>1, <2>3
    <1>4. PICK m \in D : \A d \in D : ~(<<d, m>> \in OpToRel(<, Nat))
        <2> HIDE DEF D
        <2> QED  BY <1>3, NatLessThanWellFounded, WFMin
    <1>5. \A d \in D : ~(d < m)
        BY <1>3, <1>4 DEF OpToRel
    <1>6. PICK t \in T : m = last - t
        BY <1>4
    <1>7. \A u \in T : last - u \in D
        OBVIOUS
    <1> HIDE DEF D
    <1>8. \A u \in T : u <= t
        BY <1>2, <1>5, <1>6, <1>7
    <1> QED  BY <1>8

-----------------------------------------------------------------------------
(* The inductive invariant.                                                   *)

\* A start, a template and a bell as rows: their columns, and what the proofs
\* ask of two of them.
StartField == {"tpl", "core", "late", "lobby", "detached", "status"}
IsStart(s) ==
    /\ s = [f \in StartField |-> s[f]]
    /\ s.tpl \in Templates \cup {None} /\ s.detached \in BOOLEAN

RowField == {"name", "kind", "days", "core", "late", "lobby", "source"}
IsRow(r) == r = [f \in RowField |-> r[f]]

BellField == {"due", "sent", "asked", "stale"}
IsBell(b) == b = [f \in BellField |-> b[f]]

IsView(view) ==
    /\ view = [i \in Identity |-> view[i]]
    /\ \A i \in Identity : view[i] = NoStart \/ IsStart(view[i])
IsTable(table) ==
    /\ table = [t \in Templates |-> table[t]]
    /\ \A t \in Templates : table[t] = NoTemplate \/ IsRow(table[t])
IsRing(ring) ==
    /\ ring = [b \in Identity \X Kinds |-> ring[b]]
    /\ \A b \in Identity \X Kinds : ring[b] = NoBell \/ IsBell(ring[b])

Shape ==
    /\ now \in Nat
    /\ IsTable(templates) /\ IsView(starts) /\ IsRing(bells)
    /\ mem = [h \in Handlers |-> mem[h]]
    /\ lost = [h \in Handlers |-> lost[h]]
    /\ overlap \in [Handlers -> BOOLEAN]

\* What a handler remembers, at the time of a clock.
IsMemory(m, clock) ==
    /\ m.op \in {"import", "fetch"} => m.file \in Files /\ IsTable(m.tpls)
    /\ m.op = "preview" => m.file \in Files
    /\ m.op = "roll" => \A g \in m.grid : g.id \in Templates
    /\ m.op \in {"import", "fetch", "roll", "preview"} => m.from \in Nat /\ m.from <= clock
    /\ "seen" \in DOMAIN m => IsView(m.seen)
    /\ m.op = "delete" => m.t \in Templates
    /\ m.op = "bell" => m.i \in Identity

\* A start it has read and nobody took away is still in the view.
Seen(m, i) == ("seen" \in DOMAIN m /\ m.seen[i] # NoStart) \/ (m.op = "bell" /\ m.i = i)
SeenStays(m, gone, view) ==
    \A i \in Identity : Seen(m, i) /\ i \notin gone => view[i] # NoStart

\* A start of the grid lies no further than a pass unrolls.
Within(view, from) ==
    \A i \in Identity :
        view[i] # NoStart /\ view[i].tpl # None => i[1] <= from + Horizon

\* What it remembers is what is there.
IsFresh(m, table, view, clock) ==
    /\ m.op \in {"import", "fetch"} => m.tpls = table
    /\ m.op \in {"fetch", "preview"} => ~Guarded(table, m.file)
    /\ m.op = "roll" => m.grid = ActiveGrid(table)
    /\ m.op \in {"import", "fetch", "roll", "preview"} => Within(view, m.from)
    /\ "seen" \in DOMAIN m => m.seen = view
    /\ m.op = "delete" =>
          /\ \A i \in m.ids : view[i].tpl = m.t
          /\ \A i \in Live(view) :
                view[i].tpl = m.t /\ ~view[i].detached /\ i[1] >= clock => i \in m.ids

\* As long as nobody else commits, a handler remembers what is there.
MemoryOK(m, gone, overlapped, table, view, clock) ==
    /\ IsMemory(m, clock)
    /\ SeenStays(m, gone.s, view)
    /\ ~overlapped => gone.t = {} /\ gone.s = {} /\ IsFresh(m, table, view, clock)

Memories ==
    \A h \in Handlers : MemoryOK(mem[h], lost[h], overlap[h], templates, starts, now)

\* A bell hangs on a start.
BellsHang(view, ring) == \A b \in Identity \X Kinds : ring[b] # NoBell => view[b[1]] # NoStart

IInv == Shape /\ Memories /\ Within(starts, now) /\ BellsHang(starts, bells) /\ StrayOnlyByRace

-----------------------------------------------------------------------------
(* Rows.                                                                      *)

LEMMA RowsAreThere ==
    /\ \A s : IsStart(s) => s # NoStart
    /\ \A r : IsRow(r) => r # NoTemplate
    /\ \A b : IsBell(b) => b # NoBell
    <1>1. DOMAIN NoStart = {"none"} /\ DOMAIN NoTemplate = {"none"} /\ DOMAIN NoBell = {"none"}
        BY DEF NoStart, NoTemplate, NoBell
    <1>2. ASSUME NEW s, IsStart(s)
          PROVE  s # NoStart
        BY <1>1, <1>2 DEF IsStart, StartField
    <1>3. ASSUME NEW r, IsRow(r)
          PROVE  r # NoTemplate
        BY <1>1, <1>3 DEF IsRow, RowField
    <1>4. ASSUME NEW b, IsBell(b)
          PROVE  b # NoBell
        BY <1>1, <1>4 DEF IsBell, BellField
    <1> QED  BY <1>2, <1>3, <1>4

LEMMA NothingRemembered == NoMem.op = "none" /\ "seen" \notin DOMAIN NoMem
    BY DEF NoMem

LEMMA IdleMemory ==
    ASSUME NEW gone, NEW table, NEW view, NEW clock
    PROVE  /\ IsMemory(NoMem, clock) /\ SeenStays(NoMem, gone, view)
           /\ IsFresh(NoMem, table, view, clock)
    BY NothingRemembered DEF IsMemory, SeenStays, Seen, IsFresh

LEMMA Initial == Init => IInv
    <1> SUFFICES ASSUME Init
                 PROVE  IInv
        OBVIOUS
    <1>1. /\ starts = [i \in Identity |-> starts[i]]
          /\ \A i \in Identity : starts[i] = NoStart \/ starts[i] \in Start
          /\ \A i \in Identity : starts[i] # NoStart => starts[i].tpl = None /\ starts[i].detached
        BY FilesAssumption DEF Init
    <1>2. \A s \in Start : IsStart(s)
        BY DEF Start, IsStart, StartField
    <1>3. IsView(starts)
        BY <1>1, <1>2 DEF IsView
    <1>4. IsTable(templates) /\ IsRing(bells) /\ BellsHang(starts, bells)
        BY DEF Init, IsTable, IsRing, BellsHang
    <1>5. Shape
        BY <1>3, <1>4 DEF Init, Shape
    <1>6. Within(starts, now)
        BY <1>1 DEF Within
    <1>7. StrayOnlyByRace
        BY <1>1 DEF StrayOnlyByRace, Live
    <1>8. Memories
        BY IdleMemory DEF Init, Memories, MemoryOK
    <1> QED  BY <1>4, <1>5, <1>6, <1>7, <1>8 DEF IInv

-----------------------------------------------------------------------------
(* Handlers begin and go on; the clock and the worker do not touch rows.      *)

\* A later clock keeps what is remembered.
LEMMA LaterMemory ==
    ASSUME NEW m, NEW gone, NEW o, NEW table, NEW view, NEW clock \in Nat, NEW later \in Nat,
           clock <= later, MemoryOK(m, gone, o, table, view, clock)
    PROVE  MemoryOK(m, gone, o, table, view, later)
    <1>1. IsMemory(m, later)
        BY DEF MemoryOK, IsMemory
    <1>2. ASSUME IsFresh(m, table, view, clock)
          PROVE  IsFresh(m, table, view, later)
        BY <1>2 DEF IsFresh, Live, Identity, Day
    <1> QED  BY <1>1, <1>2 DEF MemoryOK

\* A handler that begins, or reads on, with what is there.
LEMMA ReadKeeps ==
    ASSUME IInv, NEW h \in Handlers, NEW m, UNCHANGED <<db, now, strays>>,
           Begin(h, m) \/ (Continue(h, m) /\ MemoryOK(m, lost[h], overlap[h], templates, starts, now)),
           Begin(h, m) => /\ IsMemory(m, now) /\ SeenStays(m, {}, starts)
                          /\ IsFresh(m, templates, starts, now)
    PROVE  IInv'
    <1>1. /\ mem' = [mem EXCEPT ![h] = m]
          /\ lost' = [k \in Handlers |-> lost'[k]] /\ overlap' \in [Handlers -> BOOLEAN]
          /\ \A k \in Handlers \ {h} : lost'[k] = lost[k] /\ overlap'[k] = overlap[k]
          /\ MemoryOK(m, lost'[h], overlap'[h], templates, starts, now)
        <2>1. CASE Begin(h, m)
            BY <2>1 DEF Begin, IInv, Shape, MemoryOK
        <2>2. CASE Continue(h, m) /\ MemoryOK(m, lost[h], overlap[h], templates, starts, now)
            BY <2>2 DEF Continue, IInv, Shape
        <2> QED  BY <2>1, <2>2
    <1>2. UNCHANGED <<templates, starts, bells, now, strays>>
        BY DEF db
    <1>3. Shape'
        BY <1>1, <1>2 DEF IInv, Shape
    <1>4. Memories'
        BY <1>1, <1>2 DEF IInv, Shape, Memories
    <1> QED  BY <1>2, <1>3, <1>4 DEF IInv, StrayOnlyByRace

\* What the reads of a handler leave in its memory.
LEMMA ReadsKeep ==
    ASSUME IInv, NEW h \in Handlers,
           \/ ImportSync(h) \/ FetchPreview(h) \/ FetchFails(h) \/ FetchSync(h)
           \/ ExpandRead(h) \/ RollForwardBegin(h) \/ RollForwardRead(h)
           \/ DeleteTemplateRead(h) \/ SetRemindersRead(h)
    PROVE  IInv'
    <1> USE DEF IInv, Shape
    <1>0. MemoryOK(mem[h], lost[h], overlap[h], templates, starts, now)
        BY DEF Memories
    <1>1. CASE ImportSync(h)
        <2>1. PICK file \in Files :
                /\ Begin(h, [op |-> "import", file |-> file, from |-> now, tpls |-> templates])
                /\ UNCHANGED <<db, now, strays>>
            BY <1>1 DEF ImportSync
        <2> DEFINE m == [op |-> "import", file |-> file, from |-> now, tpls |-> templates]
        <2>2. IsMemory(m, now) /\ SeenStays(m, {}, starts) /\ IsFresh(m, templates, starts, now)
            BY DEF IsMemory, SeenStays, Seen, IsFresh
        <2> HIDE DEF m
        <2>3. Begin(h, m) /\ UNCHANGED <<db, now, strays>>
            BY <2>1 DEF m
        <2> QED  BY <2>2, <2>3, ReadKeeps
    <1>2. CASE FetchPreview(h)
        <2>1. PICK file \in Files : IF Guarded(templates, file)
                THEN /\ Begin(h, [op |-> "refused"])
                     /\ UNCHANGED <<db, now, strays>>
                ELSE /\ Begin(h, [op |-> "preview", file |-> file, from |-> now])
                     /\ UNCHANGED <<db, now, strays>>
            BY <1>2 DEF FetchPreview
        <2> DEFINE m == IF Guarded(templates, file) THEN [op |-> "refused"]
                        ELSE [op |-> "preview", file |-> file, from |-> now]
        <2>2. IsMemory(m, now) /\ SeenStays(m, {}, starts) /\ IsFresh(m, templates, starts, now)
            BY DEF IsMemory, SeenStays, Seen, IsFresh
        <2>3. Begin(h, m) /\ UNCHANGED <<db, now, strays>>
            BY <2>1
        <2> HIDE DEF m
        <2> QED  BY <2>2, <2>3, ReadKeeps
    <1>3. CASE FetchFails(h)
        <2> DEFINE m == [op |-> "refused"]
        <2>2. IsMemory(m, now) /\ SeenStays(m, {}, starts) /\ IsFresh(m, templates, starts, now)
            BY DEF IsMemory, SeenStays, Seen, IsFresh
        <2> HIDE DEF m
        <2>3. Begin(h, m) /\ UNCHANGED <<db, now, strays>>
            BY <1>3 DEF m, FetchFails
        <2> QED  BY <2>2, <2>3, ReadKeeps
    <1>4. CASE FetchSync(h)
        <2> DEFINE m == [op |-> "fetch", file |-> mem[h].file, from |-> mem[h].from,
                         tpls |-> templates]
        <2>1. mem[h].op = "preview"
            BY <1>4 DEF FetchSync
        <2>2. MemoryOK(m, lost[h], overlap[h], templates, starts, now)
            BY <1>0, <2>1 DEF MemoryOK, IsMemory, SeenStays, Seen, IsFresh
        <2> HIDE DEF m
        <2>3. Continue(h, m) /\ UNCHANGED <<db, now, strays>>
            BY <1>4 DEF m, FetchSync
        <2>4. ~Begin(h, m) \/ Begin(h, m)
            OBVIOUS
        <2> QED  BY <2>2, <2>3, ReadKeeps, <2>1, NothingRemembered DEF Begin, Busy
    <1>5. CASE ExpandRead(h)
        <2> DEFINE m == [op |-> mem[h].op, file |-> mem[h].file, from |-> mem[h].from,
                         tpls |-> mem[h].tpls, seen |-> starts]
        <2>1. mem[h].op \in {"import", "fetch"}
            BY <1>5 DEF ExpandRead
        <2>2. MemoryOK(m, lost[h], overlap[h], templates, starts, now)
            BY <1>0, <2>1 DEF MemoryOK, IsMemory, SeenStays, Seen, IsFresh
        <2> HIDE DEF m
        <2>3. Continue(h, m) /\ UNCHANGED <<db, now, strays>>
            BY <1>5 DEF m, ExpandRead
        <2> QED  BY <2>2, <2>3, ReadKeeps, <2>1, NothingRemembered DEF Begin, Busy
    <1>6. CASE RollForwardBegin(h)
        <2> DEFINE m == [op |-> "roll", from |-> now, grid |-> ActiveGrid(templates)]
        <2>1. \A g \in ActiveGrid(templates) : g.id \in Templates
            BY DEF ActiveGrid, AsGrid, Ids
        <2>2. IsMemory(m, now) /\ SeenStays(m, {}, starts) /\ IsFresh(m, templates, starts, now)
            BY <2>1 DEF IsMemory, SeenStays, Seen, IsFresh
        <2> HIDE DEF m
        <2>3. Begin(h, m) /\ UNCHANGED <<db, now, strays>>
            BY <1>6 DEF m, RollForwardBegin
        <2> QED  BY <2>2, <2>3, ReadKeeps
    <1>7. CASE RollForwardRead(h)
        <2> DEFINE m == [op |-> "roll", from |-> mem[h].from, grid |-> mem[h].grid, seen |-> starts]
        <2>1. mem[h].op = "roll"
            BY <1>7 DEF RollForwardRead
        <2>2. MemoryOK(m, lost[h], overlap[h], templates, starts, now)
            BY <1>0, <2>1 DEF MemoryOK, IsMemory, SeenStays, Seen, IsFresh
        <2> HIDE DEF m
        <2>3. Continue(h, m) /\ UNCHANGED <<db, now, strays>>
            BY <1>7 DEF m, RollForwardRead
        <2> QED  BY <2>2, <2>3, ReadKeeps, <2>1, NothingRemembered DEF Begin, Busy
    <1>8. CASE DeleteTemplateRead(h)
        <2>1. PICK t \in Ids(templates) :
                /\ Begin(h, [op |-> "delete", t |-> t,
                             ids |-> {i \in Live(starts) : starts[i].tpl = t /\ i[1] >= now
                                                           /\ ~starts[i].detached}])
                /\ UNCHANGED <<db, now, strays>>
            BY <1>8 DEF DeleteTemplateRead
        <2> DEFINE m == [op |-> "delete", t |-> t,
                         ids |-> {i \in Live(starts) : starts[i].tpl = t /\ i[1] >= now
                                                       /\ ~starts[i].detached}]
        <2>2. IsMemory(m, now) /\ SeenStays(m, {}, starts) /\ IsFresh(m, templates, starts, now)
            BY DEF IsMemory, SeenStays, Seen, IsFresh, Ids
        <2> HIDE DEF m
        <2>3. Begin(h, m) /\ UNCHANGED <<db, now, strays>>
            BY <2>1 DEF m
        <2> QED  BY <2>2, <2>3, ReadKeeps
    <1>9. CASE SetRemindersRead(h)
        <2>1. PICK i \in Live(starts), kinds \in SUBSET Kinds :
                /\ Begin(h, [op |-> "bell", i |-> i, kinds |-> kinds, have |-> Ringing(i),
                             start |-> starts[i], from |-> now])
                /\ UNCHANGED <<db, now, strays>>
            BY <1>9 DEF SetRemindersRead
        <2> DEFINE m == [op |-> "bell", i |-> i, kinds |-> kinds, have |-> Ringing(i),
                         start |-> starts[i], from |-> now]
        <2>2. IsMemory(m, now) /\ SeenStays(m, {}, starts) /\ IsFresh(m, templates, starts, now)
            BY DEF IsMemory, SeenStays, Seen, IsFresh, Live
        <2> HIDE DEF m
        <2>3. Begin(h, m) /\ UNCHANGED <<db, now, strays>>
            BY <2>1 DEF m
        <2> QED  BY <2>2, <2>3, ReadKeeps
    <1> QED  BY <1>1, <1>2, <1>3, <1>4, <1>5, <1>6, <1>7, <1>8, <1>9

-----------------------------------------------------------------------------
(* Commits and rollbacks.                                                     *)

\* A transaction that ends leaves the others stale: what is kept of their
\* memory is what the rows it names as deleted allow.
LEMMA CommitKeeps ==
    ASSUME IInv, NEW h \in Handlers, NEW goneT, NEW goneS, Commit(h, goneT, goneS), now' = now,
           IsTable(templates'), IsView(starts'), IsRing(bells'),
           \A i \in Identity : starts[i] # NoStart /\ i \notin goneS => starts'[i] # NoStart,
           Within(starts', now), BellsHang(starts', bells'), StrayOnlyByRace'
    PROVE  IInv'
    <1> USE DEF IInv, Shape
    <1>1. Shape'
        BY DEF Commit
    <1>2. ASSUME NEW k \in Handlers
          PROVE  MemoryOK(mem[k], lost[k], overlap[k], templates, starts, now)'
        <2>1. CASE k = h \/ mem[k] = NoMem
            <3>1. mem'[k] = NoMem /\ lost'[k] = [t |-> {}, s |-> {}]
                BY <2>1 DEF Commit, Busy
            <3> QED  BY <3>1, IdleMemory DEF MemoryOK
        <2>2. CASE k # h /\ mem[k] # NoMem
            <3>1. mem'[k] = mem[k] /\ overlap'[k] /\ lost'[k].s = lost[k].s \cup goneS
                BY <2>2 DEF Commit, Busy
            <3>2. MemoryOK(mem[k], lost[k], overlap[k], templates, starts, now)
                BY DEF Memories
            <3> QED  BY <3>1, <3>2 DEF MemoryOK, SeenStays
        <2> QED  BY <2>1, <2>2
    <1> QED  BY <1>1, <1>2 DEF Memories

LEMMA RollbackKeeps ==
    ASSUME IInv, NEW h \in Handlers, Rollback(h), UNCHANGED <<fetchError, now, strays>>
    PROVE  IInv'
    <1> USE DEF IInv, Shape
    <1>1. Shape'
        BY DEF Rollback
    <1>2. ASSUME NEW k \in Handlers
          PROVE  MemoryOK(mem[k], lost[k], overlap[k], templates, starts, now)'
        <2>1. CASE k = h
            <3>1. mem'[k] = NoMem /\ lost'[k] = [t |-> {}, s |-> {}]
                BY <2>1 DEF Rollback
            <3> QED  BY <3>1, IdleMemory DEF MemoryOK
        <2>2. CASE k # h
            <3>1. MemoryOK(mem[k], lost[k], overlap[k], templates, starts, now)
                BY DEF Memories
            <3> QED  BY <2>2, <3>1 DEF Rollback
        <2> QED  BY <2>1, <2>2
    <1> QED  BY <1>1, <1>2 DEF Memories, Rollback, StrayOnlyByRace

-----------------------------------------------------------------------------
(* expand_templates.                                                          *)

IsGrid(grid) == \A g \in grid : g.id \in Templates \cup {None}

\* The template that wins a start offers it.
LEMMA WinnerOffers ==
    ASSUME NEW grid, IsGrid(grid), NEW i, Offers(grid, i) # {}
    PROVE  Winner(grid, i) \in Offers(grid, i)
    <1> SUFFICES \E g \in Offers(grid, i) :
                    g.id = None \/ \A o \in Offers(grid, i) : o.id # None /\ o.id <= g.id
        BY DEF Winner
    <1>1. CASE \E g \in Offers(grid, i) : g.id = None
        BY <1>1
    <1>2. CASE \A g \in Offers(grid, i) : g.id # None
        <2> DEFINE T == {g.id : g \in Offers(grid, i)}
        <2>1. Offers(grid, i) \subseteq grid
            BY DEF Offers
        <2>2. T \in SUBSET Templates /\ T # {}
            BY <1>2, <2>1 DEF IsGrid
        <2>3. PICK t \in T : \A u \in T : u <= t
            <3> HIDE DEF T
            <3> QED  BY <2>2, LastOfRows
        <2>4. PICK g \in Offers(grid, i) : g.id = t
            OBVIOUS
        <2>5. \A o \in Offers(grid, i) : o.id <= g.id
            BY <2>3, <2>4
        <2> QED  BY <1>2, <2>4, <2>5
    <1> QED  BY <1>1, <1>2

LEMMA Wanted ==
    ASSUME NEW grid, IsGrid(grid), NEW from, NEW i \in desired(grid, from)
    PROVE  Winner(grid, i) \in Offers(grid, i) /\ Winner(grid, i) \in grid
    BY WinnerOffers DEF desired, Offers

\* A template written on a start, and a start of a template.
LEMMA AppliedIsStart ==
    ASSUME NEW s, IsStart(s), NEW g, NEW t \in Templates
    PROVE  /\ IsStart(apply_template(s, g, t)) /\ apply_template(s, g, t).tpl = t
           /\ apply_template(s, g, t).detached = s.detached
    BY DEF IsStart, StartField, apply_template

LEMMA NewIsStart ==
    ASSUME NEW g, NEW t \in Templates
    PROVE  IsStart(NewStart(g, t)) /\ NewStart(g, t).tpl = t /\ ~NewStart(g, t).detached
    BY DEF IsStart, StartField, NewStart

\* What a unit of work that changed only the template's columns leaves.
LEMMA MergedIsStart ==
    ASSUME NEW s, IsStart(s), NEW seen, IsStart(seen), NEW g, NEW t \in Templates
    PROVE  LET m == Merge(s, seen, apply_template(seen, g, t))
           IN  IsStart(m) /\ m.tpl \in {s.tpl, t} /\ m.detached = s.detached
    <1> DEFINE new == apply_template(seen, g, t)
               m == Merge(s, seen, new)
    <1>1. IsStart(new) /\ new.tpl = t /\ new.detached = seen.detached
        BY AppliedIsStart
    <1> HIDE DEF new
    <1>2. DOMAIN s = StartField
        BY DEF IsStart
    <1>3. m = [f \in StartField |-> IF new[f] # seen[f] THEN new[f] ELSE s[f]]
        BY <1>2 DEF Merge
    <1> HIDE DEF m
    <1>4. m = [f \in StartField |-> m[f]] /\ m.tpl \in {s.tpl, t} /\ m.detached = s.detached
        BY <1>1, <1>3 DEF StartField
    <1>5. IsStart(m)
        BY <1>4 DEF IsStart
    <1> QED  BY <1>4, <1>5 DEF m, new

\* A unit of work that read the row as it is writes the template's columns.
LEMMA MergeOfSame ==
    ASSUME NEW s, IsStart(s), NEW g, NEW t \in Templates
    PROVE  Merge(s, s, apply_template(s, g, t)) = apply_template(s, g, t)
    <1> DEFINE new == apply_template(s, g, t)
    <1>1. IsStart(new) /\ DOMAIN s = StartField
        BY AppliedIsStart DEF IsStart
    <1> HIDE DEF new
    <1>2. Merge(s, s, new) = [f \in StartField |-> new[f]]
        BY <1>1 DEF Merge
    <1> QED  BY <1>1, <1>2 DEF IsStart, new

\* A pass that may commit: what it read, its grid and its row numbers.
Pass(h, seen, grid, from, number) ==
    /\ IsView(seen) /\ IsView(starts) /\ IsGrid(grid)
    /\ \A g \in grid : number[g] \in Templates
    /\ Writable(h, seen, grid, from)
    /\ \A i \in Identity : seen[i] # NoStart /\ i \notin lost[h].s => starts[i] # NoStart

\* What an expansion makes of one start: n, from the template w that wins it.
Outcome(h, seen, grid, from, number, i, n, w) ==
    \/ i \in Deleted(h, seen, grid, from) /\ n = NoStart
    \/ /\ i \in Added(seen, grid, from) /\ starts[i] = NoStart /\ w \in grid
       /\ n = NewStart(w, number[w]) /\ IsStart(n) /\ n.tpl = number[w] /\ ~n.detached
    \/ /\ i \in Adopted(seen, grid, from) \ lost[h].s /\ starts[i] # NoStart /\ w \in grid
       /\ n = Merge(starts[i], seen[i], apply_template(seen[i], w, number[w]))
       /\ IsStart(n) /\ n.tpl \in {starts[i].tpl, number[w]}
       /\ n.detached = starts[i].detached
    \/ /\ i \notin Deleted(h, seen, grid, from) /\ i \notin Added(seen, grid, from)
       /\ i \notin Adopted(seen, grid, from) \ lost[h].s
       /\ n = starts[i]

LEMMA ExpandedStart ==
    ASSUME NEW h, NEW seen, NEW grid, NEW from, NEW number, Pass(h, seen, grid, from, number),
           NEW i \in Identity
    PROVE  Outcome(h, seen, grid, from, number, i,
                   Expanded(h, seen, grid, from, number)[i], Winner(grid, i))
    <1> USE DEF Pass
    <1>0. PICK n, w : n = Expanded(h, seen, grid, from, number)[i] /\ w = Winner(grid, i)
        OBVIOUS
    <1> SUFFICES Outcome(h, seen, grid, from, number, i, n, w)
        BY <1>0
    <1> USE DEF Outcome
    <1>1. n = IF i \in Deleted(h, seen, grid, from) THEN NoStart
                ELSE IF i \in Added(seen, grid, from) THEN NewStart(w, number[w])
                ELSE IF i \in Adopted(seen, grid, from) /\ i \notin lost[h].s
                       THEN Merge(starts[i], seen[i], apply_template(seen[i], w, number[w]))
                ELSE starts[i]
        BY <1>0 DEF Expanded
    <1>2. i \in desired(grid, from) => w \in grid /\ number[w] \in Templates
        BY <1>0, Wanted
    <1>3. CASE i \in Deleted(h, seen, grid, from)
        BY <1>1, <1>3
    <1>4. CASE i \notin Deleted(h, seen, grid, from) /\ i \in Added(seen, grid, from)
        <2>1. starts[i] = NoStart /\ i \in desired(grid, from)
            BY <1>4 DEF Writable, Added
        <2>2. n = NewStart(w, number[w])
            BY <1>1, <1>4
        <2>3. IsStart(n) /\ n.tpl = number[w] /\ ~n.detached
            BY <1>2, <2>1, <2>2, NewIsStart
        <2> QED  BY <1>2, <1>4, <2>1, <2>2, <2>3
    <1>5. CASE /\ i \notin Deleted(h, seen, grid, from) /\ i \notin Added(seen, grid, from)
               /\ i \in Adopted(seen, grid, from) /\ i \notin lost[h].s
        <2>1. seen[i] # NoStart /\ i \in desired(grid, from)
            BY <1>5 DEF Adopted
        <2>2. starts[i] # NoStart /\ IsStart(starts[i]) /\ IsStart(seen[i])
            BY <1>5, <2>1 DEF IsView
        <2>3. n = Merge(starts[i], seen[i], apply_template(seen[i], w, number[w]))
            BY <1>1, <1>5
        <2>4. IsStart(n) /\ n.tpl \in {starts[i].tpl, number[w]}
              /\ n.detached = starts[i].detached
            BY <1>2, <2>1, <2>2, <2>3, MergedIsStart
        <2> QED  BY <1>2, <1>5, <2>1, <2>2, <2>3, <2>4
    <1>6. CASE /\ i \notin Deleted(h, seen, grid, from) /\ i \notin Added(seen, grid, from)
               /\ ~(i \in Adopted(seen, grid, from) /\ i \notin lost[h].s)
        BY <1>1, <1>6
    <1> QED  BY <1>3, <1>4, <1>5, <1>6

\* What a pass, overlapped or not, makes of the starts: rows, no stray of its
\* own, no row lost but those it deletes, and nothing beyond the horizon.
LEMMA ExpandedView ==
    ASSUME NEW h, NEW seen, NEW grid, NEW from \in Nat, NEW number,
           Pass(h, seen, grid, from, number),
           now \in Nat, from <= now, Within(starts, now)
    PROVE  LET new == Expanded(h, seen, grid, from, number)
           IN  /\ IsView(new) /\ Within(new, now)
               /\ \A i \in Identity :
                     /\ starts[i] # NoStart /\ i \notin Deleted(h, seen, grid, from) => new[i] # NoStart
                     /\ new[i] # NoStart /\ new[i].tpl = None
                        => /\ starts[i] # NoStart /\ starts[i].tpl = None
                           /\ new[i].detached = starts[i].detached
    <1> DEFINE new == Expanded(h, seen, grid, from, number)
    <1>1. new = [i \in Identity |-> new[i]]
        BY DEF Expanded
    <1>2. ASSUME NEW i \in Identity
          PROVE  /\ new[i] = NoStart \/ IsStart(new[i])
                 /\ new[i] # NoStart /\ new[i].tpl # None => i[1] <= now + Horizon
                 /\ starts[i] # NoStart /\ i \notin Deleted(h, seen, grid, from) => new[i] # NoStart
                 /\ new[i] # NoStart /\ new[i].tpl = None
                    => /\ starts[i] # NoStart /\ starts[i].tpl = None
                       /\ new[i].detached = starts[i].detached
        <2>0. PICK n, w : n = Expanded(h, seen, grid, from, number)[i] /\ w = Winner(grid, i)
            OBVIOUS
        <2>1. Outcome(h, seen, grid, from, number, i, n, w)
            BY <2>0, ExpandedStart
        <2>2. i \in Added(seen, grid, from) \cup Adopted(seen, grid, from) => i[1] <= from + Horizon
            BY DEF Added, Adopted, desired, Window
        <2>3. i[1] \in Nat /\ Horizon \in Nat
            BY ScheduleAssumption DEF Identity, Day
        <2>4. starts[i] = NoStart \/ IsStart(starts[i])
            BY DEF Pass, IsView
        <2>5. starts[i] # NoStart /\ starts[i].tpl # None => i[1] <= now + Horizon
            BY DEF Within
        <2>6. w \in grid => number[w] # None
            BY ScheduleAssumption DEF Pass
        <2> HIDE DEF new
        <2>7. /\ n = NoStart \/ IsStart(n)
              /\ n # NoStart /\ n.tpl # None => i[1] <= now + Horizon
            BY <2>1, <2>2, <2>3, <2>4, <2>5 DEF Outcome
        <2>8. starts[i] # NoStart /\ i \notin Deleted(h, seen, grid, from) => n # NoStart
            BY <2>1, RowsAreThere DEF Outcome
        <2>9. n # NoStart /\ n.tpl = None
              => starts[i] # NoStart /\ starts[i].tpl = None /\ n.detached = starts[i].detached
            BY <2>1, <2>6 DEF Outcome
        <2> QED  BY <2>0, <2>7, <2>8, <2>9 DEF new
    <1> HIDE DEF new
    <1> QED  BY <1>1, <1>2 DEF IsView, Within, new

\* Columns that are the template's already stay as they are when written.
LEMMA AppliedSame ==
    ASSUME NEW s, s = [f \in StartField |-> s[f]], NEW g, NEW t,
           s.tpl = t, s.core = g.core, s.late = g.late, s.lobby = g.lobby
    PROVE  apply_template(s, g, t) = s
    <1> DEFINE a == apply_template(s, g, t)
    <1>1. a = [f \in StartField |-> IF f = "tpl" THEN t ELSE IF f = "core" THEN g.core
                 ELSE IF f = "late" THEN g.late ELSE IF f = "lobby" THEN g.lobby ELSE s[f]]
        BY DEF apply_template, StartField
    <1> HIDE DEF a
    <1>2. \A f \in StartField : a[f] = s[f]
        BY <1>1 DEF StartField
    <1>3. a = [f \in StartField |-> a[f]]
        BY <1>1
    <1> QED  BY <1>2, <1>3 DEF a

\* The columns a template writes.
LEMMA NewColumns ==
    ASSUME NEW w, NEW t
    PROVE  /\ NewStart(w, t).core = w.core /\ NewStart(w, t).late = w.late
           /\ NewStart(w, t).lobby = w.lobby
    BY DEF NewStart

LEMMA AppliedColumns ==
    ASSUME NEW s, IsStart(s), NEW w, NEW t
    PROVE  /\ apply_template(s, w, t).core = w.core /\ apply_template(s, w, t).late = w.late
           /\ apply_template(s, w, t).lobby = w.lobby
    BY DEF apply_template, IsStart, StartField

\* The grid that is left when the templates of another have these numbers.
Leaves(grid, number, left) ==
    /\ \A g \in grid : \E l \in left :
          /\ l.id = number[g] /\ l.name = g.name /\ l.days = g.days
          /\ l.core = g.core /\ l.late = g.late /\ l.lobby = g.lobby
    /\ \A l \in left : \E g \in grid : g.name = l.name /\ g.days = l.days

\* The starts of a window are those a grid wants, under the given numbers.
Exact(view, grid, number, left, from) ==
    \A i \in Window(from) :
        IF i \in desired(left, from)
          THEN /\ view[i] # NoStart
               /\ \/ view[i].detached
                  \/ /\ \E g \in Offers(left, i) : apply_template(view[i], g, g.id) = view[i]
                     /\ \E g \in grid : view[i].tpl = number[g]
          ELSE view[i] = NoStart \/ view[i].detached \/ view[i].tpl = None

LEMMA SameWanted ==
    ASSUME NEW grid, NEW number, NEW left, Leaves(grid, number, left), NEW from
    PROVE  desired(left, from) = desired(grid, from)
    <1>1. \A i : Offers(left, i) # {} <=> Offers(grid, i) # {}
        BY DEF Offers, Leaves
    <1> QED  BY <1>1 DEF desired

\* A pass that reads the rows as they are makes of them exactly what the grid
\* that is left wants.
LEMMA ExactlyUnrolled ==
    ASSUME NEW h, NEW seen, NEW grid, NEW from, NEW number, Pass(h, seen, grid, from, number),
           seen = starts, lost[h].s = {}, NEW left, Leaves(grid, number, left)
    PROVE  Exact(Expanded(h, seen, grid, from, number), grid, number, left, from)
    <1> DEFINE new == Expanded(h, seen, grid, from, number)
    <1>2. desired(left, from) = desired(grid, from)
        BY SameWanted
    <1>3. ASSUME NEW i \in Identity
          PROVE  /\ i \in Window(from) =>
                      IF i \in desired(left, from)
                        THEN /\ new[i] # NoStart
                             /\ \/ new[i].detached
                                \/ /\ \E g \in Offers(left, i) : apply_template(new[i], g, g.id) = new[i]
                                   /\ \E g \in grid : new[i].tpl = number[g]
                        ELSE new[i] = NoStart \/ new[i].detached \/ new[i].tpl = None
        <2>0. PICK n, w : n = Expanded(h, seen, grid, from, number)[i] /\ w = Winner(grid, i)
            OBVIOUS
        <2>1. \/ i \in Deleted(h, seen, grid, from) /\ n = NoStart
              \/ /\ i \in Added(seen, grid, from) /\ w \in grid
                 /\ n = NewStart(w, number[w]) /\ IsStart(n) /\ n.tpl = number[w]
              \/ /\ i \in Adopted(seen, grid, from) /\ starts[i] # NoStart /\ w \in grid
                 /\ n = Merge(starts[i], starts[i], apply_template(starts[i], w, number[w]))
              \/ /\ i \notin Deleted(h, seen, grid, from) /\ i \notin Added(seen, grid, from)
                 /\ i \notin Adopted(seen, grid, from) /\ n = starts[i]
            <3>1. Outcome(h, seen, grid, from, number, i, n, w)
                BY <2>0, ExpandedStart
            <3>2. Adopted(seen, grid, from) \ lost[h].s = Adopted(seen, grid, from)
                OBVIOUS
            <3> QED  BY <3>1, <3>2 DEF Outcome
        <2>6. n = new[i]
            BY <2>0
        <2> HIDE DEF new
        <2>2. CASE i \in Deleted(h, seen, grid, from) /\ n = NoStart
            BY <1>2, <2>2, <2>6 DEF Deleted, Dropped
        <2>3. CASE /\ w \in grid /\ i \in desired(grid, from)
                   /\ \/ n = NewStart(w, number[w]) /\ IsStart(n) /\ n.tpl = number[w]
                      \/ /\ starts[i] # NoStart
                         /\ n = Merge(starts[i], starts[i], apply_template(starts[i], w, number[w]))
            <3>1. PICK l \in left :
                    /\ l.id = number[w] /\ l.name = w.name /\ l.days = w.days
                    /\ l.core = w.core /\ l.late = w.late /\ l.lobby = w.lobby
                BY <2>3 DEF Leaves
            <3>2. w \in Offers(grid, i)
                BY <2>0, <2>3, Wanted DEF Pass
            <3>3. l \in Offers(left, i)
                BY <3>1, <3>2 DEF Offers
            <3>4. number[w] \in Templates
                BY <2>3 DEF Pass
            <3>5. /\ n.tpl = number[w] /\ n.core = l.core /\ n.late = l.late /\ n.lobby = l.lobby
                  /\ IsStart(n)
                <4>1. CASE n = NewStart(w, number[w]) /\ IsStart(n) /\ n.tpl = number[w]
                    BY <3>1, <4>1, NewColumns
                <4>2. CASE /\ starts[i] # NoStart
                           /\ n = Merge(starts[i], starts[i], apply_template(starts[i], w, number[w]))
                    <5>1. IsStart(starts[i])
                        BY <4>2 DEF Pass, IsView
                    <5>2. n = apply_template(starts[i], w, number[w])
                        BY <3>4, <4>2, <5>1, MergeOfSame
                    <5>3. /\ apply_template(starts[i], w, number[w]).core = w.core
                          /\ apply_template(starts[i], w, number[w]).late = w.late
                          /\ apply_template(starts[i], w, number[w]).lobby = w.lobby
                        BY <5>1, AppliedColumns
                    <5>4. /\ IsStart(apply_template(starts[i], w, number[w]))
                          /\ apply_template(starts[i], w, number[w]).tpl = number[w]
                        BY <3>4, <5>1, AppliedIsStart
                    <5> QED  BY <3>1, <5>2, <5>3, <5>4
                <4> QED  BY <2>3, <4>1, <4>2
            <3>6. apply_template(n, l, l.id) = n /\ n # NoStart
                BY <3>1, <3>5, AppliedSame, RowsAreThere DEF IsStart
            <3> QED  BY <1>2, <2>3, <2>6, <3>1, <3>3, <3>5, <3>6
        <2>4. CASE /\ i \notin Deleted(h, seen, grid, from) /\ i \notin Added(seen, grid, from)
                   /\ i \notin Adopted(seen, grid, from) /\ n = starts[i]
            BY <1>2, <2>4, <2>6 DEF Deleted, Dropped, Added, Adopted, desired
        <2>5. i \in Added(seen, grid, from) \cup Adopted(seen, grid, from) => i \in desired(grid, from)
            BY DEF Added, Adopted
        <2> QED  BY <2>1, <2>2, <2>3, <2>4, <2>5
    <1>4. Window(from) \subseteq Identity
        BY DEF Window
    <1> HIDE DEF new
    <1>5. Exact(new, grid, number, left, from)
        BY <1>3, <1>4 DEF Exact
    <1> QED  BY <1>5 DEF new

-----------------------------------------------------------------------------
(* reschedule_pending and the cascades of the database.                       *)

LEMMA BellsFollow ==
    ASSUME NEW view, NEW ring, IsRing(ring)
    PROVE  /\ IsRing(reschedule_pending(view, ring)) /\ BellsHang(view, reschedule_pending(view, ring))
           /\ IsRing(Cascade(view, ring)) /\ BellsHang(view, Cascade(view, ring))
           /\ \A b \in Identity \X Kinds :
                 /\ ring[b] # NoBell /\ reschedule_pending(view, ring)[b] = NoBell
                    => view[b[1]] = NoStart
                 /\ ring[b] # NoBell /\ Cascade(view, ring)[b] = NoBell => view[b[1]] = NoStart
    <1> DEFINE r == reschedule_pending(view, ring)
               c == Cascade(view, ring)
    <1>1. ASSUME NEW b \in Identity \X Kinds
          PROVE  /\ view[b[1]] = NoStart => r[b] = NoBell
                 /\ view[b[1]] # NoStart => (r[b] = NoBell <=> ring[b] = NoBell)
                 /\ r[b] = NoBell \/ IsBell(r[b])
        <2> DEFINE due == Early(anchor(view[b[1]], b[1], b[2]))
        <2>1. \/ view[b[1]] = NoStart /\ r[b] = NoBell
              \/ view[b[1]] # NoStart /\ r[b] = ring[b]
              \/ /\ view[b[1]] # NoStart /\ ring[b] # NoBell
                 /\ r[b] = [ring[b] EXCEPT !.due = due, !.stale = FALSE]
            BY DEF reschedule_pending
        <2>2. ring[b] = NoBell \/ IsBell(ring[b])
            BY DEF IsRing
        <2> HIDE DEF r, due
        <2>3. ASSUME ring[b] # NoBell, r[b] = [ring[b] EXCEPT !.due = due, !.stale = FALSE]
              PROVE  IsBell(r[b])
            BY <2>2, <2>3 DEF IsBell, BellField
        <2> QED  BY <2>1, <2>2, <2>3, RowsAreThere
    <1>2. \A b \in Identity \X Kinds : c[b] = IF view[b[1]] = NoStart THEN NoBell ELSE ring[b]
        BY DEF Cascade
    <1>3. r = [b \in Identity \X Kinds |-> r[b]] /\ c = [b \in Identity \X Kinds |-> c[b]]
        BY DEF reschedule_pending, Cascade
    <1> HIDE DEF r, c
    <1>4. IsRing(r) /\ BellsHang(view, r)
        BY <1>1, <1>3 DEF IsRing, BellsHang
    <1>5. IsRing(c) /\ BellsHang(view, c)
        BY <1>2, <1>3 DEF IsRing, BellsHang
    <1> QED  BY <1>1, <1>2, <1>4, <1>5 DEF r, c

\* ON DELETE SET NULL keeps rows rows.
LEMMA NulledView ==
    ASSUME NEW view, IsView(view), NEW gone, NEW null, null = SetNull(view, gone)
    PROVE  /\ IsView(null)
           /\ \A i \in Identity :
                 /\ null[i] = NoStart <=> view[i] = NoStart
                 /\ null[i] = view[i] \/ (view[i] # NoStart /\ view[i].tpl \in gone /\ null[i].tpl = None)
                 /\ view[i] # NoStart => null[i].detached = view[i].detached
                 /\ view[i] # NoStart /\ view[i].tpl \notin gone => null[i] = view[i]
    <1>1. null = [i \in Identity |-> null[i]]
        BY DEF SetNull
    <1>2. ASSUME NEW i \in Identity
          PROVE  /\ null[i] = NoStart <=> view[i] = NoStart
                 /\ null[i] = view[i] \/ (view[i] # NoStart /\ view[i].tpl \in gone /\ null[i].tpl = None)
                 /\ view[i] # NoStart => null[i].detached = view[i].detached
                 /\ view[i] # NoStart /\ view[i].tpl \notin gone => null[i] = view[i]
                 /\ null[i] = NoStart \/ IsStart(null[i])
        <2>1. view[i] = NoStart \/ IsStart(view[i])
            BY DEF IsView
        <2>2. null[i] = IF view[i] # NoStart /\ view[i].tpl \in gone
                          THEN [view[i] EXCEPT !.tpl = None] ELSE view[i]
            BY DEF SetNull
        <2>3. CASE view[i] # NoStart /\ view[i].tpl \in gone
            <3>1. null[i] = [view[i] EXCEPT !.tpl = None] /\ IsStart(view[i])
                BY <2>1, <2>2, <2>3
            <3>2. IsStart(null[i]) /\ null[i].tpl = None /\ null[i].detached = view[i].detached
                BY <3>1 DEF IsStart, StartField
            <3> QED  BY <2>3, <3>2, RowsAreThere
        <2>4. CASE ~(view[i] # NoStart /\ view[i].tpl \in gone)
            BY <2>1, <2>2, <2>4
        <2> QED  BY <2>3, <2>4
    <1>3. IsView(null)
        BY <1>1, <1>2 DEF IsView
    <1> QED  BY <1>2, <1>3

-----------------------------------------------------------------------------
(* sync_club_templates.                                                       *)

\* A template the file keeps is not stale.
LEMMA UpdatedIsKept ==
    ASSUME NEW view, NEW file
    PROVE  /\ stale_template_ids(view, file) \subseteq Ids(view)
           /\ Updated(view, file) \subseteq Ids(view)
           /\ Updated(view, file) \cap stale_template_ids(view, file) = {}
    <1>1. stale_template_ids(view, file) \subseteq Ids(view)
        BY DEF stale_template_ids, FirstOfSignature, OfSource
    <1>2. Updated(view, file) \subseteq Ids(view)
        BY DEF Updated
    <1>3. ASSUME NEW t \in Updated(view, file)
          PROVE  t \notin stale_template_ids(view, file)
        <2>1. PICK d \in file.drafts : t \in MatchOf(view, file, d)
            BY DEF Updated
        <2>2. t \in FirstOfSignature(view, file.source)
            BY <2>1 DEF MatchOf
        <2> QED  BY <2>1, <2>2 DEF stale_template_ids
    <1> QED  BY <1>1, <1>2, <1>3

\* The days the file gives a matched template are those of a draft it matches.
LEMMA NewDaysAreDrafted ==
    ASSUME NEW view, NEW file, NEW t \in Updated(view, file)
    PROVE  \E d \in file.drafts : t \in MatchOf(view, file, d) /\ NewDays(view, file, t) = d.days
    <1>1. \E d \in file.drafts : t \in MatchOf(view, file, d)
        BY DEF Updated
    <1> QED  BY <1>1 DEF NewDays

\* The number a draft without one gets, and the numbers of a whole grid.
DraftOf(new, g) ==
    CHOOSE d \in new : d.name = g.name /\ d.days = g.days /\ d.core = g.core
                       /\ d.late = g.late /\ d.lobby = g.lobby
RowOf(grid, new, number) ==
    [g \in grid |-> IF g.id = None THEN number[DraftOf(new, g)] ELSE g.id]

\* The grid of an import: the templates that stay, under their numbers, and
\* the new drafts, under numbers of their own.
LEMMA ImportRows ==
    ASSUME NEW view, NEW file, NEW grid, grid = ImportGrid(view, file),
           NEW new, new = Created(view, file), NEW number \in [new -> Templates],
           NEW row, row = RowOf(grid, new, number)
    PROVE  /\ IsGrid(grid) /\ \A g \in grid : row[g] \in Templates
           /\ \A g \in grid : g.id # None =>
                /\ row[g] = g.id /\ g.id \in Ids(view) \ stale_template_ids(view, file)
                /\ g = IF g.id \in Updated(view, file)
                         THEN [AsGrid(view, g.id) EXCEPT !.days = NewDays(view, file, g.id)]
                         ELSE AsGrid(view, g.id)
           /\ \A g \in grid : g.id = None =>
                \E d \in new : /\ row[g] = number[d] /\ d.name = g.name /\ d.days = g.days
                               /\ d.core = g.core /\ d.late = g.late /\ d.lobby = g.lobby
    <1> DEFINE kept == Ids(view) \ stale_template_ids(view, file)
               asIs(t) == IF t \in Updated(view, file)
                            THEN [AsGrid(view, t) EXCEPT !.days = NewDays(view, file, t)]
                            ELSE AsGrid(view, t)
               drafted(d) == [id |-> None, name |-> d.name, days |-> d.days, core |-> d.core,
                              late |-> d.late, lobby |-> d.lobby]
    <1>1. grid = {asIs(t) : t \in kept} \cup {drafted(d) : d \in new}
        BY DEF ImportGrid
    <1>2. \A t \in kept : asIs(t).id = t /\ t \in Templates
        BY DEF AsGrid, Ids
    <1>3. \A d \in new : drafted(d).id = None
        OBVIOUS
    <1>4. ASSUME NEW g \in grid
          PROVE  /\ g.id \in Templates \cup {None} /\ row[g] \in Templates
                 /\ g.id # None => row[g] = g.id /\ g.id \in kept /\ g = asIs(g.id)
                 /\ g.id = None =>
                      \E d \in new : /\ row[g] = number[d] /\ d.name = g.name /\ d.days = g.days
                                     /\ d.core = g.core /\ d.late = g.late /\ d.lobby = g.lobby
        <2>1. row[g] = IF g.id = None THEN number[DraftOf(new, g)] ELSE g.id
            BY DEF RowOf
        <2>2. CASE g \in {asIs(t) : t \in kept}
            <3>1. PICK t \in kept : g = asIs(t)
                BY <2>2
            <3> HIDE DEF asIs, kept
            <3>2. g.id = t /\ t \in Templates
                BY <1>2, <3>1
            <3> QED  BY <2>1, <3>1, <3>2, ScheduleAssumption
        <2>3. CASE g \in {drafted(d) : d \in new}
            <3>1. PICK d \in new : g = drafted(d)
                BY <2>3
            <3>2. /\ g.id = None /\ d.name = g.name /\ d.days = g.days
                  /\ d.core = g.core /\ d.late = g.late /\ d.lobby = g.lobby
                BY <3>1
            <3>3. PICK e : e = DraftOf(new, g)
                OBVIOUS
            <3>4. /\ e \in new /\ e.name = g.name /\ e.days = g.days
                  /\ e.core = g.core /\ e.late = g.late /\ e.lobby = g.lobby
                BY <3>2, <3>3 DEF DraftOf
            <3> HIDE DEF drafted
            <3> QED  BY <2>1, <3>2, <3>3, <3>4
        <2> QED  BY <1>1, <2>2, <2>3
    <1> QED  BY <1>4 DEF IsGrid

\* A template that gets other days.
LEMMA RowOfNewDays ==
    ASSUME NEW r, IsRow(r), NEW days, NEW n, n = [r EXCEPT !.days = days]
    PROVE  /\ IsRow(n) /\ n.name = r.name /\ n.kind = r.kind /\ n.days = days
           /\ n.core = r.core /\ n.late = r.late /\ n.lobby = r.lobby
    BY DEF IsRow, RowField

\* What one template becomes.
LEMMA SyncedRow ==
    ASSUME NEW h, NEW number, IsTable(templates), NEW new, new = Created(mem[h].tpls, mem[h].file),
           NEW t \in Templates, NEW r, r = Synced(h, number)[t],
           NEW stale, stale = stale_template_ids(mem[h].tpls, mem[h].file)
    PROVE  \/ \E d \in new :
                /\ number[d] = t /\ IsRow(r)
                /\ r.name = d.name /\ r.days = d.days /\ r.core = d.core
                /\ r.late = d.late /\ r.lobby = d.lobby
           \/ /\ ~\E d \in new : number[d] = t
              /\ \/ t \in stale \ lost[h].t /\ r = NoTemplate
                 \/ /\ t \notin stale \ lost[h].t /\ t \in Updated(mem[h].tpls, mem[h].file)
                    /\ r = [templates[t] EXCEPT !.days = NewDays(mem[h].tpls, mem[h].file, t)]
                    /\ templates[t] # NoTemplate => IsRow(r)
                    /\ templates[t] = NoTemplate => r = NoTemplate
                 \/ /\ t \notin stale \ lost[h].t /\ t \notin Updated(mem[h].tpls, mem[h].file)
                    /\ r = templates[t]
    <1> DEFINE row(d) == [name |-> d.name, kind |-> d.kind, days |-> d.days, core |-> d.core,
                          late |-> d.late, lobby |-> d.lobby, source |-> mem[h].file.source]
    <1>1. r = IF \E d \in new : number[d] = t
                THEN row(CHOOSE e \in new : number[e] = t)
              ELSE IF t \in stale \ lost[h].t THEN NoTemplate
              ELSE IF t \in Updated(mem[h].tpls, mem[h].file)
                THEN [templates[t] EXCEPT !.days = NewDays(mem[h].tpls, mem[h].file, t)]
              ELSE templates[t]
        BY DEF Synced
    <1>2. CASE \E d \in new : number[d] = t
        <2>1. PICK d : d = CHOOSE e \in new : number[e] = t
            OBVIOUS
        <2>2. d \in new /\ number[d] = t
            BY <1>2, <2>1
        <2>3. r = row(d)
            BY <1>1, <1>2, <2>1
        <2>4. /\ IsRow(r) /\ r.name = d.name /\ r.days = d.days /\ r.core = d.core
              /\ r.late = d.late /\ r.lobby = d.lobby
            BY <2>3 DEF IsRow, RowField
        <2> QED  BY <2>2, <2>4
    <1>3. CASE ~\E d \in new : number[d] = t
        <2>1. templates[t] = NoTemplate \/ IsRow(templates[t])
            BY DEF IsTable
        <2>2. ASSUME NEW days, IsRow(templates[t])
              PROVE  IsRow([templates[t] EXCEPT !.days = days])
            BY <2>2 DEF IsRow, RowField
        <2>3. ASSUME NEW days, templates[t] = NoTemplate
              PROVE  [templates[t] EXCEPT !.days = days] = NoTemplate
            BY <2>3 DEF NoTemplate
        <2> HIDE DEF row
        <2> QED  BY <1>1, <1>3, <2>1, <2>2, <2>3
    <1> QED  BY <1>2, <1>3

LEMMA SyncedTable ==
    ASSUME NEW h, NEW number, IsTable(templates)
    PROVE  IsTable(Synced(h, number))
    <1> DEFINE table == Synced(h, number)
    <1>1. table = [t \in Templates |-> table[t]]
        BY DEF Synced
    <1>2. ASSUME NEW t \in Templates
          PROVE  table[t] = NoTemplate \/ IsRow(table[t])
        <2>1. PICK new, stale, r : /\ new = Created(mem[h].tpls, mem[h].file)
                                  /\ stale = stale_template_ids(mem[h].tpls, mem[h].file)
                                  /\ r = table[t]
            OBVIOUS
        <2>2. templates[t] = NoTemplate \/ IsRow(templates[t])
            BY DEF IsTable
        <2>3. r = NoTemplate \/ IsRow(r)
            BY <2>1, <2>2, SyncedRow
        <2> QED  BY <2>1, <2>3
    <1> HIDE DEF table
    <1> QED  BY <1>1, <1>2 DEF IsTable, table

-----------------------------------------------------------------------------
(* apply_templates_import.                                                    *)

\* The commit of an import, by its parts: the grid, the new drafts and their
\* numbers, the numbers of the grid, the starts unrolled from it.
ImportStep(h, grid, new, number, row, unrolled, stale) ==
    /\ new = Created(mem[h].tpls, mem[h].file) /\ grid = ImportGrid(mem[h].tpls, mem[h].file)
    /\ number \in [new -> Free] /\ (\A d, e \in new : d # e => number[d] # number[e])
    /\ row = RowOf(grid, new, number)
    /\ stale = stale_template_ids(mem[h].tpls, mem[h].file) \ lost[h].t
    /\ unrolled = Expanded(h, mem[h].seen, grid, mem[h].from, row)
    /\ Pass(h, mem[h].seen, grid, mem[h].from, row)
    /\ templates' = Synced(h, number) /\ starts' = SetNull(unrolled, stale)
    /\ bells' = reschedule_pending(starts', bells)
    /\ strays' = (IF overlap[h] THEN strays \cup Orphaned(unrolled, stale, now) ELSE strays)
    /\ Commit(h, stale, Deleted(h, mem[h].seen, grid, mem[h].from)) /\ now' = now
    /\ mem[h].op \in {"import", "fetch"} /\ "seen" \in DOMAIN mem[h]
    /\ mem[h].from \in Nat /\ mem[h].from <= now

\* What the memory of a handler is worth.
LEMMA Remembered ==
    ASSUME IInv, NEW h \in Handlers
    PROVE  /\ IsMemory(mem[h], now) /\ SeenStays(mem[h], lost[h].s, starts)
           /\ ~overlap[h] => /\ lost[h].t = {} /\ lost[h].s = {}
                             /\ IsFresh(mem[h], templates, starts, now)
    BY DEF IInv, Memories, MemoryOK

LEMMA ImportSteps ==
    ASSUME IInv, NEW h \in Handlers, ImportCommit(h)
    PROVE  \E grid, new, number, row, unrolled, stale :
              ImportStep(h, grid, new, number, row, unrolled, stale)
    <1> DEFINE view == mem[h].tpls
               file == mem[h].file
               grid == ImportGrid(view, file)
               stale == stale_template_ids(view, file) \ lost[h].t
               new == Created(view, file)
               number == CHOOSE f \in Numberings(new) : TRUE
               row == RowOf(grid, new, number)
               unrolled == Expanded(h, mem[h].seen, grid, mem[h].from, row)
    <1>1. /\ Imported(h) /\ Importable(h) /\ Numberings(new) # {}
          /\ templates' = Synced(h, number) /\ starts' = SetNull(unrolled, stale)
          /\ bells' = reschedule_pending(SetNull(unrolled, stale), bells)
          /\ strays' = (IF overlap[h] THEN strays \cup Orphaned(unrolled, stale, now) ELSE strays)
          /\ Commit(h, stale, Deleted(h, mem[h].seen, grid, mem[h].from)) /\ now' = now
        BY DEF ImportCommit, RowOf, DraftOf
    <1>2. /\ mem[h].op \in {"import", "fetch"} /\ "seen" \in DOMAIN mem[h]
          /\ Writable(h, mem[h].seen, grid, mem[h].from)
        BY <1>1 DEF Imported, Importable
    <1> HIDE DEF new
    <1>3. number \in Numberings(new)
        BY <1>1
    <1>4. number \in [new -> Free] /\ (\A d, e \in new : d # e => number[d] # number[e])
        <2> HIDE DEF number
        <2> QED  BY <1>3 DEF Numberings
    <1>5. /\ IsView(mem[h].seen) /\ mem[h].from \in Nat /\ mem[h].from <= now
          /\ \A i \in Identity : mem[h].seen[i] # NoStart /\ i \notin lost[h].s => starts[i] # NoStart
        BY <1>2, Remembered DEF IsMemory, SeenStays, Seen
    <1>6. IsGrid(grid) /\ \A g \in grid : row[g] \in Templates
        <2>1. number \in [new -> Templates]
            BY <1>4 DEF Free
        <2>2. grid = ImportGrid(view, file) /\ new = Created(view, file) /\ row = RowOf(grid, new, number)
            BY DEF new
        <2> HIDE DEF grid, number, row
        <2> QED  BY <2>1, <2>2, ImportRows
    <1>7. Pass(h, mem[h].seen, grid, mem[h].from, row)
        BY <1>2, <1>5, <1>6 DEF Pass, IInv, Shape
    <1>8. ImportStep(h, grid, new, number, row, unrolled, stale)
        <2> HIDE DEF grid, number, row, unrolled, stale
        <2>1. /\ new = Created(mem[h].tpls, mem[h].file) /\ grid = ImportGrid(mem[h].tpls, mem[h].file)
              /\ row = RowOf(grid, new, number)
              /\ stale = stale_template_ids(mem[h].tpls, mem[h].file) \ lost[h].t
              /\ unrolled = Expanded(h, mem[h].seen, grid, mem[h].from, row)
            BY DEF new, grid, row, stale, unrolled
        <2> QED  BY <1>1, <1>2, <1>4, <1>5, <1>7, <2>1 DEF ImportStep
    <1> QED  BY <1>8

\* An import that nobody overlapped leaves the grid it unrolled.
LEMMA FreshImport ==
    ASSUME IInv, NEW h \in Handlers, NEW grid, NEW new, NEW number, NEW row, NEW unrolled, NEW stale,
           ImportStep(h, grid, new, number, row, unrolled, stale), ~overlap[h]
    PROVE  /\ mem[h].seen = starts /\ lost[h].s = {} /\ lost[h].t = {}
           /\ Within(starts, mem[h].from)
           /\ \A g \in grid : row[g] \notin stale
           /\ Leaves(grid, row, ActiveGrid(templates'))
    <1> DEFINE view == mem[h].tpls
               file == mem[h].file
    <1>1. /\ mem[h].seen = starts /\ lost[h].s = {} /\ lost[h].t = {} /\ view = templates
          /\ Within(starts, mem[h].from)
        BY Remembered DEF ImportStep, IsFresh
    <1>2. /\ new = Created(view, file) /\ grid = ImportGrid(view, file) /\ row = RowOf(grid, new, number)
          /\ stale = stale_template_ids(view, file) /\ templates' = Synced(h, number)
          /\ number \in [new -> Free] /\ (\A d, e \in new : d # e => number[d] # number[e])
        BY <1>1 DEF ImportStep
    <1>3. IsTable(templates)
        BY DEF IInv, Shape
    <1>4. number \in [new -> Templates] /\ \A d \in new : number[d] \notin Ids(view)
        BY <1>1, <1>2 DEF Free
    <1>5. /\ stale \subseteq Ids(view) /\ Updated(view, file) \subseteq Ids(view)
          /\ Updated(view, file) \cap stale = {}
        BY <1>2, UpdatedIsKept
    <1> HIDE DEF view, file
    <1>6. /\ \A g \in grid : row[g] \in Templates
          /\ \A g \in grid : g.id # None =>
                /\ row[g] = g.id /\ g.id \in Ids(view) \ stale
                /\ g = IF g.id \in Updated(view, file)
                         THEN [AsGrid(view, g.id) EXCEPT !.days = NewDays(view, file, g.id)]
                         ELSE AsGrid(view, g.id)
          /\ \A g \in grid : g.id = None =>
                \E d \in new : /\ row[g] = number[d] /\ d.name = g.name /\ d.days = g.days
                               /\ d.core = g.core /\ d.late = g.late /\ d.lobby = g.lobby
        BY <1>2, <1>4, ImportRows
    <1>7. ASSUME NEW t \in Templates
          PROVE  \/ \E d \in new :
                       /\ number[d] = t /\ IsRow(templates'[t])
                       /\ templates'[t].name = d.name /\ templates'[t].days = d.days
                       /\ templates'[t].core = d.core /\ templates'[t].late = d.late
                       /\ templates'[t].lobby = d.lobby
                 \/ /\ ~\E d \in new : number[d] = t
                    /\ \/ t \in stale /\ templates'[t] = NoTemplate
                       \/ /\ t \in Updated(view, file) \ stale
                          /\ templates'[t] = [templates[t] EXCEPT !.days = NewDays(view, file, t)]
                       \/ /\ t \notin Updated(view, file) \cup stale
                          /\ templates'[t] = templates[t]
        <2>1. PICK r : r = templates'[t]
            OBVIOUS
        <2>2. /\ new = Created(mem[h].tpls, mem[h].file) /\ r = Synced(h, number)[t]
              /\ stale = stale_template_ids(mem[h].tpls, mem[h].file) /\ stale \ lost[h].t = stale
            BY <1>1, <1>2, <2>1 DEF view, file
        <2> QED  BY <1>3, <2>1, <2>2, SyncedRow DEF view, file
    <1>8. \A g \in grid : row[g] \notin stale
        BY <1>4, <1>5, <1>6
    <1>9. \A t \in Templates : t \in Ids(view) => IsRow(templates[t])
        BY <1>1, <1>3 DEF Ids, IsTable
    <1>11. ASSUME NEW t \in Templates \ stale, t \in Ids(view)
           PROVE  /\ IsRow(templates'[t]) /\ templates'[t].name = templates[t].name
                  /\ templates'[t].days = IF t \in Updated(view, file) THEN NewDays(view, file, t)
                                          ELSE templates[t].days
                  /\ templates'[t].core = templates[t].core /\ templates'[t].late = templates[t].late
                  /\ templates'[t].lobby = templates[t].lobby
        <2>1. IsRow(templates[t]) /\ ~\E d \in new : number[d] = t
            BY <1>4, <1>9, <1>11
        <2>2. CASE t \in Updated(view, file)
            <3>1. templates'[t] = [templates[t] EXCEPT !.days = NewDays(view, file, t)]
                BY <1>7, <2>1, <2>2
            <3> QED  BY <2>1, <2>2, <3>1, RowOfNewDays
        <2>3. CASE t \notin Updated(view, file)
            <3>1. templates'[t] = templates[t]
                BY <1>7, <2>1, <2>3
            <3> QED  BY <2>1, <2>3, <3>1
        <2> QED  BY <2>2, <2>3
    <1>12. \A l, t : l = AsGrid(templates', t) =>
              /\ l.id = t /\ l.name = templates'[t].name /\ l.days = templates'[t].days
              /\ l.core = templates'[t].core /\ l.late = templates'[t].late
              /\ l.lobby = templates'[t].lobby
        BY DEF AsGrid
    <1>13. ASSUME NEW g \in grid
           PROVE  \E l \in ActiveGrid(templates') :
                    /\ l.id = row[g] /\ l.name = g.name /\ l.days = g.days
                    /\ l.core = g.core /\ l.late = g.late /\ l.lobby = g.lobby
        <2>1. PICK t, l : t = row[g] /\ l = AsGrid(templates', t)
            OBVIOUS
        <2>2. t \in Templates
            BY <1>6, <2>1
        <2>3. CASE g.id = None
            <3>1. PICK d \in new : /\ t = number[d] /\ d.name = g.name /\ d.days = g.days
                                   /\ d.core = g.core /\ d.late = g.late /\ d.lobby = g.lobby
                BY <1>6, <2>1, <2>3
            <3>2. PICK e \in new :
                    /\ number[e] = t /\ IsRow(templates'[t])
                    /\ templates'[t].name = e.name /\ templates'[t].days = e.days
                    /\ templates'[t].core = e.core /\ templates'[t].late = e.late
                    /\ templates'[t].lobby = e.lobby
                BY <1>7, <2>2, <3>1
            <3>3. d = e
                BY <1>2, <3>1, <3>2
            <3>4. l \in ActiveGrid(templates')
                BY <2>1, <2>2, <3>2, RowsAreThere DEF ActiveGrid, Ids
            <3> QED  BY <1>12, <2>1, <3>1, <3>2, <3>3, <3>4
        <2>4. CASE g.id # None
            <3>1. t = g.id /\ t \in Ids(view) /\ t \notin stale
                BY <1>6, <2>1, <2>4
            <3>2. g = IF t \in Updated(view, file)
                        THEN [AsGrid(view, t) EXCEPT !.days = NewDays(view, file, t)]
                        ELSE AsGrid(view, t)
                BY <1>6, <2>4, <3>1
            <3>3. /\ g.name = templates[t].name /\ g.core = templates[t].core
                  /\ g.late = templates[t].late /\ g.lobby = templates[t].lobby
                  /\ g.days = IF t \in Updated(view, file) THEN NewDays(view, file, t)
                              ELSE templates[t].days
                BY <1>1, <3>2 DEF AsGrid
            <3>4. l \in ActiveGrid(templates')
                BY <1>11, <2>1, <2>2, <3>1, RowsAreThere DEF ActiveGrid, Ids
            <3> QED  BY <1>11, <1>12, <2>1, <2>2, <3>1, <3>3, <3>4
        <2> QED  BY <2>3, <2>4
    <1>14. ASSUME NEW l \in ActiveGrid(templates')
           PROVE  \E g \in grid : g.name = l.name /\ g.days = l.days
        <2>1. PICK t \in Templates : templates'[t] # NoTemplate /\ l = AsGrid(templates', t)
            BY DEF ActiveGrid, Ids
        <2>2. l.name = templates'[t].name /\ l.days = templates'[t].days
            BY <1>12, <2>1
        <2>3. CASE \E d \in new : /\ templates'[t].name = d.name /\ templates'[t].days = d.days
            <3>1. PICK d \in new : templates'[t].name = d.name /\ templates'[t].days = d.days
                BY <2>3
            <3> DEFINE g == [id |-> None, name |-> d.name, days |-> d.days, core |-> d.core,
                             late |-> d.late, lobby |-> d.lobby]
            <3>2. g \in grid
                BY <1>2 DEF ImportGrid
            <3>3. g.name = d.name /\ g.days = d.days
                OBVIOUS
            <3> HIDE DEF g
            <3> QED  BY <2>2, <3>1, <3>2, <3>3
        <2>4. CASE t \notin stale /\ t \in Ids(view)
            <3> DEFINE g == IF t \in Updated(view, file)
                             THEN [AsGrid(view, t) EXCEPT !.days = NewDays(view, file, t)]
                             ELSE AsGrid(view, t)
            <3>1. g \in grid
                BY <1>2, <2>4 DEF ImportGrid
            <3>2. /\ g.name = templates[t].name
                  /\ g.days = IF t \in Updated(view, file) THEN NewDays(view, file, t)
                              ELSE templates[t].days
                BY <1>1 DEF AsGrid
            <3> HIDE DEF g
            <3> QED  BY <1>11, <2>1, <2>2, <2>4, <3>1, <3>2
        <2>5. t \in Ids(view) \/ templates[t] = NoTemplate
            BY <1>1 DEF Ids
        <2>6. \/ \E d \in new : /\ templates'[t].name = d.name /\ templates'[t].days = d.days
              \/ t \notin stale /\ (templates'[t] = templates[t] \/ t \in Updated(view, file))
            BY <1>7, <2>1
        <2> QED  BY <1>5, <2>1, <2>3, <2>4, <2>5, <2>6
    <1> QED  BY <1>1, <1>8, <1>13, <1>14 DEF Leaves

-----------------------------------------------------------------------------
(* Every step keeps the invariant.                                            *)

LEMMA ImportKeeps ==
    ASSUME IInv, NEW h \in Handlers, ImportCommit(h)
    PROVE  IInv'
    <1>1. PICK grid, new, number, row, unrolled, stale :
            ImportStep(h, grid, new, number, row, unrolled, stale)
        BY ImportSteps
    <1>0. /\ row = RowOf(grid, new, number) /\ new = Created(mem[h].tpls, mem[h].file)
          /\ stale = stale_template_ids(mem[h].tpls, mem[h].file) \ lost[h].t
          /\ unrolled = Expanded(h, mem[h].seen, grid, mem[h].from, row)
          /\ Pass(h, mem[h].seen, grid, mem[h].from, row)
          /\ templates' = Synced(h, number) /\ starts' = SetNull(unrolled, stale)
          /\ bells' = reschedule_pending(starts', bells)
          /\ strays' = (IF overlap[h] THEN strays \cup Orphaned(unrolled, stale, now) ELSE strays)
          /\ Commit(h, stale, Deleted(h, mem[h].seen, grid, mem[h].from)) /\ now' = now
          /\ mem[h].from \in Nat /\ mem[h].from <= now
        BY <1>1 DEF ImportStep
    <1>2. IsView(starts) /\ IsTable(templates) /\ IsRing(bells) /\ now \in Nat /\ Within(starts, now)
        BY DEF IInv, Shape
    <1>3. /\ IsView(unrolled) /\ Within(unrolled, now)
          /\ \A i \in Identity :
                /\ starts[i] # NoStart /\ i \notin Deleted(h, mem[h].seen, grid, mem[h].from)
                   => unrolled[i] # NoStart
                /\ unrolled[i] # NoStart /\ unrolled[i].tpl = None
                   => /\ starts[i] # NoStart /\ starts[i].tpl = None
                      /\ unrolled[i].detached = starts[i].detached
        BY <1>0, <1>2, ExpandedView
    <1>4. /\ IsView(starts')
          /\ \A i \in Identity :
                /\ starts'[i] = NoStart <=> unrolled[i] = NoStart
                /\ \/ starts'[i] = unrolled[i]
                   \/ unrolled[i] # NoStart /\ unrolled[i].tpl \in stale /\ starts'[i].tpl = None
                /\ unrolled[i] # NoStart => starts'[i].detached = unrolled[i].detached
                /\ unrolled[i] # NoStart /\ unrolled[i].tpl \notin stale => starts'[i] = unrolled[i]
        BY <1>0, <1>3, NulledView
    <1>5. IsTable(templates')
        BY <1>0, <1>2, SyncedTable
    <1>6. IsRing(bells') /\ BellsHang(starts', bells')
        BY <1>0, <1>2, BellsFollow
    <1>7. Within(starts', now)
        BY <1>3, <1>4 DEF Within
    <1>8. ~overlap[h] => Orphaned(unrolled, stale, now) = {}
        <2> SUFFICES ASSUME ~overlap[h], NEW i \in Orphaned(unrolled, stale, now)
                     PROVE  FALSE
            OBVIOUS
        <2>1. /\ mem[h].seen = starts /\ lost[h].s = {} /\ Within(starts, mem[h].from)
              /\ \A g \in grid : row[g] \notin stale
            BY <1>1, FreshImport
        <2>2. i \in Identity /\ unrolled[i] # NoStart /\ unrolled[i].tpl \in stale
              /\ ~unrolled[i].detached /\ i[1] >= now
            BY DEF Orphaned, Live
        <2>3. PICK n, w : n = unrolled[i] /\ w = Winner(grid, i)
            OBVIOUS
        <2>4. Outcome(h, mem[h].seen, grid, mem[h].from, row, i, n, w)
            BY <1>0, <2>2, <2>3, ExpandedStart
        <2>5. n = starts[i] /\ i \notin Adopted(starts, grid, mem[h].from)
              /\ i \notin Deleted(h, starts, grid, mem[h].from)
            <3>1. \A g \in grid : n.tpl # row[g]
                BY <2>1, <2>2, <2>3
            <3>2. i \in Adopted(starts, grid, mem[h].from) =>
                     n = apply_template(starts[i], w, row[w]) /\ w \in grid /\ IsStart(starts[i])
                     /\ row[w] \in Templates
                <4> SUFFICES ASSUME i \in Adopted(starts, grid, mem[h].from)
                             PROVE  n = apply_template(starts[i], w, row[w]) /\ w \in grid
                                    /\ IsStart(starts[i]) /\ row[w] \in Templates
                    OBVIOUS
                <4>1. starts[i] # NoStart /\ IsStart(starts[i])
                    BY <1>2, <2>2 DEF Adopted, IsView
                <4>2. i \notin Deleted(h, starts, grid, mem[h].from) /\ i \notin Added(starts, grid, mem[h].from)
                    BY <4>1 DEF Deleted, Dropped, Adopted, Added
                <4>3. w \in grid /\ n = Merge(starts[i], starts[i], apply_template(starts[i], w, row[w]))
                    BY <2>1, <2>4, <4>2 DEF Outcome
                <4>4. row[w] \in Templates
                    BY <1>0, <4>3 DEF Pass
                <4> QED  BY <4>1, <4>3, <4>4, MergeOfSame
            <3>3. i \notin Adopted(starts, grid, mem[h].from)
                BY <3>1, <3>2, AppliedIsStart
            <3> QED  BY <2>1, <2>2, <2>3, <2>4, <3>1, <3>3 DEF Outcome
        <2>6. starts[i] # NoStart /\ starts[i].tpl # None /\ ~starts[i].detached
            <3>1. stale \subseteq Templates
                BY <1>0, UpdatedIsKept DEF Ids
            <3> QED  BY <2>2, <2>3, <2>5, <3>1, ScheduleAssumption
        <2>7. i[1] <= mem[h].from + Horizon
            BY <2>1, <2>2, <2>6 DEF Within
        <2>8. i \in Window(mem[h].from)
            BY <1>0, <1>2, <2>2, <2>7 DEF Window, Identity, Day
        <2>9. i \in desired(grid, mem[h].from)
            BY <2>1, <2>5, <2>6, <2>8 DEF Deleted, Dropped
        <2> QED  BY <2>5, <2>6, <2>9 DEF Adopted
    <1>9. StrayOnlyByRace'
        <2> SUFFICES ASSUME NEW i \in Identity, starts'[i] # NoStart, starts'[i].tpl = None,
                            ~starts'[i].detached, i[1] >= now
                     PROVE  i \in strays'
            BY <1>0 DEF StrayOnlyByRace, Live
        <2>1. CASE unrolled[i].tpl \in stale
            <3>1. i \in Orphaned(unrolled, stale, now)
                BY <1>4, <2>1 DEF Orphaned, Live
            <3> QED  BY <1>0, <1>8, <3>1
        <2>2. CASE unrolled[i].tpl \notin stale
            <3>1. unrolled[i] # NoStart /\ unrolled[i].tpl = None /\ ~unrolled[i].detached
                BY <1>4, <2>2
            <3>2. i \in strays
                BY <1>3, <3>1 DEF IInv, StrayOnlyByRace, Live
            <3> QED  BY <1>0, <3>2
        <2> QED  BY <2>1, <2>2
    <1>10. \A i \in Identity : starts[i] # NoStart
             /\ i \notin Deleted(h, mem[h].seen, grid, mem[h].from) => starts'[i] # NoStart
        BY <1>3, <1>4
    <1> QED  BY <1>0, <1>4, <1>5, <1>6, <1>7, <1>9, <1>10, CommitKeeps

\* The pass of the loop.
RollStep(h, grid, row, from) ==
    /\ grid = mem[h].grid /\ row = [g \in grid |-> g.id] /\ from = mem[h].from
    /\ from \in Nat /\ from <= now /\ "seen" \in DOMAIN mem[h] /\ mem[h].op = "roll"
    /\ Pass(h, mem[h].seen, grid, from, row)
    /\ starts' = Expanded(h, mem[h].seen, grid, from, row)
    /\ bells' = reschedule_pending(starts', bells)
    /\ Commit(h, {}, Deleted(h, mem[h].seen, grid, from))
    /\ UNCHANGED <<templates, fetchError, now, strays>>

LEMMA RollSteps ==
    ASSUME IInv, NEW h \in Handlers, RollForwardCommit(h)
    PROVE  \E grid, row, from : RollStep(h, grid, row, from)
    <1>1. PICK grid, row, from : /\ grid = mem[h].grid /\ row = [g \in mem[h].grid |-> g.id]
                                 /\ from = mem[h].from
        OBVIOUS
    <1>2. /\ mem[h].op = "roll" /\ "seen" \in DOMAIN mem[h]
          /\ Writable(h, mem[h].seen, grid, from)
          /\ starts' = Expanded(h, mem[h].seen, grid, from, row)
          /\ bells' = reschedule_pending(starts', bells)
          /\ Commit(h, {}, Deleted(h, mem[h].seen, grid, from))
          /\ UNCHANGED <<templates, fetchError, now, strays>>
        BY <1>1 DEF RollForwardCommit
    <1>3. /\ IsView(mem[h].seen) /\ from \in Nat /\ from <= now
          /\ \A g \in grid : g.id \in Templates
          /\ \A i \in Identity : mem[h].seen[i] # NoStart /\ i \notin lost[h].s => starts[i] # NoStart
        BY <1>1, <1>2, Remembered DEF IsMemory, SeenStays, Seen
    <1>4. Pass(h, mem[h].seen, grid, from, row)
        BY <1>1, <1>2, <1>3 DEF Pass, IsGrid, IInv, Shape
    <1> QED  BY <1>1, <1>2, <1>3, <1>4 DEF RollStep

LEMMA RollKeeps ==
    ASSUME IInv, NEW h \in Handlers, RollForwardCommit(h)
    PROVE  IInv'
    <1>1. PICK grid, row, from : RollStep(h, grid, row, from)
        BY RollSteps
    <1> USE DEF RollStep
    <1>2. IsView(starts) /\ IsTable(templates) /\ IsRing(bells) /\ now \in Nat /\ Within(starts, now)
        BY DEF IInv, Shape
    <1>3. /\ IsView(starts') /\ Within(starts', now)
          /\ \A i \in Identity :
                /\ starts[i] # NoStart /\ i \notin Deleted(h, mem[h].seen, grid, from)
                   => starts'[i] # NoStart
                /\ starts'[i] # NoStart /\ starts'[i].tpl = None
                   => /\ starts[i] # NoStart /\ starts[i].tpl = None
                      /\ starts'[i].detached = starts[i].detached
        BY <1>1, <1>2, ExpandedView
    <1>4. IsRing(bells') /\ BellsHang(starts', bells')
        BY <1>1, <1>2, BellsFollow
    <1>5. StrayOnlyByRace'
        BY <1>1, <1>3 DEF StrayOnlyByRace, Live, IInv
    <1> QED  BY <1>1, <1>2, <1>3, <1>4, <1>5, CommitKeeps

\* The removal of a template, by its parts.
DeleteStep(h, ids, gone, cleared) ==
    /\ mem[h].op = "delete" /\ ids = mem[h].ids \ lost[h].s /\ gone = {mem[h].t} \ lost[h].t
    /\ cleared = [i \in Identity |-> IF i \in ids THEN NoStart ELSE starts[i]]
    /\ templates' = [t \in Templates |-> IF t \in gone THEN NoTemplate ELSE templates[t]]
    /\ starts' = SetNull(cleared, gone) /\ bells' = Cascade(cleared, bells)
    /\ strays' = (IF overlap[h] THEN strays \cup Orphaned(cleared, gone, now) ELSE strays)
    /\ Commit(h, gone, ids) /\ UNCHANGED <<fetchError, now>>

LEMMA DeleteSteps ==
    ASSUME NEW h, DeleteTemplate(h)
    PROVE  \E ids, gone, cleared : DeleteStep(h, ids, gone, cleared)
    <1> DEFINE ids == mem[h].ids \ lost[h].s
               gone == {mem[h].t} \ lost[h].t
               cleared == [i \in Identity |-> IF i \in ids THEN NoStart ELSE starts[i]]
    <1>1. DeleteStep(h, ids, gone, cleared)
        BY DEF DeleteTemplate, DeleteStep
    <1> QED  BY <1>1

LEMMA DeleteKeeps ==
    ASSUME IInv, NEW h \in Handlers, DeleteTemplate(h)
    PROVE  IInv'
    <1>1. PICK ids, gone, cleared : DeleteStep(h, ids, gone, cleared)
        BY DeleteSteps
    <1> USE DEF DeleteStep
    <1>2. IsView(starts) /\ IsTable(templates) /\ IsRing(bells) /\ now \in Nat /\ Within(starts, now)
        BY DEF IInv, Shape
    <1>3. /\ IsView(cleared)
          /\ \A i \in Identity : cleared[i] = IF i \in ids THEN NoStart ELSE starts[i]
        <2>1. \A i \in Identity : cleared[i] = IF i \in ids THEN NoStart ELSE starts[i]
            BY <1>1
        <2>2. cleared = [i \in Identity |-> cleared[i]]
            BY <1>1
        <2> QED  BY <1>2, <2>1, <2>2 DEF IsView
    <1>4. /\ IsView(starts')
          /\ \A i \in Identity :
                /\ starts'[i] = NoStart <=> cleared[i] = NoStart
                /\ \/ starts'[i] = cleared[i]
                   \/ cleared[i] # NoStart /\ cleared[i].tpl \in gone /\ starts'[i].tpl = None
                /\ cleared[i] # NoStart => starts'[i].detached = cleared[i].detached
                /\ cleared[i] # NoStart /\ cleared[i].tpl \notin gone => starts'[i] = cleared[i]
        BY <1>1, <1>3, NulledView
    <1>5. IsTable(templates')
        <2>1. templates' = [t \in Templates |-> templates'[t]]
            BY <1>1
        <2>2. \A t \in Templates : templates'[t] = NoTemplate \/ templates'[t] = templates[t]
            BY <1>1
        <2> QED  BY <1>2, <2>1, <2>2 DEF IsTable
    <1>6. IsRing(bells') /\ BellsHang(starts', bells')
        <2>1. IsRing(bells') /\ BellsHang(cleared, bells')
            BY <1>1, <1>2, BellsFollow
        <2>2. \A b \in Identity \X Kinds : b[1] \in Identity
            OBVIOUS
        <2> QED  BY <1>4, <2>1, <2>2 DEF BellsHang
    <1>7. Within(starts', now)
        BY <1>2, <1>3, <1>4 DEF Within
    <1>8. ~overlap[h] => Orphaned(cleared, gone, now) = {}
        <2> SUFFICES ASSUME ~overlap[h], NEW i \in Orphaned(cleared, gone, now)
                     PROVE  FALSE
            OBVIOUS
        <2>1. lost[h].s = {} /\ IsFresh(mem[h], templates, starts, now)
            BY Remembered
        <2>2. i \in Live(cleared) /\ cleared[i].tpl \in gone /\ ~cleared[i].detached /\ i[1] >= now
            BY DEF Orphaned
        <2>3. i \in Live(starts) /\ starts[i].tpl = mem[h].t /\ ~starts[i].detached /\ i \notin ids
            BY <1>1, <1>3, <2>2 DEF Live
        <2>4. i \in mem[h].ids
            BY <1>1, <2>1, <2>2, <2>3 DEF IsFresh
        <2> QED  BY <1>1, <2>1, <2>3, <2>4
    <1>9. StrayOnlyByRace'
        <2> SUFFICES ASSUME NEW i \in Identity, starts'[i] # NoStart, starts'[i].tpl = None,
                            ~starts'[i].detached, i[1] >= now
                     PROVE  i \in strays'
            BY <1>1 DEF StrayOnlyByRace, Live
        <2>1. CASE cleared[i].tpl \in gone
            <3>1. i \in Orphaned(cleared, gone, now)
                BY <1>4, <2>1 DEF Orphaned, Live
            <3> QED  BY <1>1, <1>8, <3>1
        <2>2. CASE cleared[i].tpl \notin gone
            <3>1. starts[i] # NoStart /\ starts[i].tpl = None /\ ~starts[i].detached
                BY <1>3, <1>4, <2>2
            <3>2. i \in strays
                BY <3>1 DEF IInv, StrayOnlyByRace, Live
            <3> QED  BY <1>1, <3>2
        <2> QED  BY <2>1, <2>2
    <1>10. \A i \in Identity : starts[i] # NoStart /\ i \notin ids => starts'[i] # NoStart
        BY <1>3, <1>4
    <1>11. Commit(h, gone, ids) /\ now' = now
        BY <1>1
    <1> QED  BY <1>2, <1>4, <1>5, <1>6, <1>7, <1>9, <1>10, <1>11, CommitKeeps

LEMMA BellKeeps ==
    ASSUME IInv, NEW h \in Handlers, SetReminders(h)
    PROVE  IInv'
    <1> DEFINE i == mem[h].i
               new == mem[h].kinds \ mem[h].have
    <1>1. mem[h].op = "bell"
        BY DEF SetReminders
    <1>2. i \in Identity /\ (i \notin lost[h].s => starts[i] # NoStart)
        BY <1>1, Remembered DEF IsMemory, SeenStays, Seen
    <1>3. CASE new # {} /\ (i \in lost[h].s \/ new \cap Ringing(i) # {})
        <2>1. Rollback(h) /\ UNCHANGED <<fetchError, now, strays>>
            BY <1>3 DEF SetReminders
        <2> QED  BY <2>1, RollbackKeeps
    <1>4. CASE ~(new # {} /\ (i \in lost[h].s \/ new \cap Ringing(i) # {}))
        <2>1. /\ Commit(h, {}, {}) /\ UNCHANGED <<templates, starts, fetchError, now, strays>>
              /\ bells' = [b \in Identity \X Kinds |-> bells'[b]]
              /\ \A b \in Identity \X Kinds :
                    \/ bells'[b] \in {bells[b], NoBell}
                    \/ b[1] = i /\ b[2] \in new /\ IsBell(bells'[b])
            BY <1>4 DEF SetReminders, IsBell, BellField
        <2>2. IsRing(bells) /\ BellsHang(starts, bells) /\ IsView(starts) /\ IsTable(templates)
            BY DEF IInv, Shape
        <2>3. IsRing(bells')
            BY <2>1, <2>2 DEF IsRing
        <2>4. BellsHang(starts', bells')
            BY <1>2, <1>4, <2>1, <2>2 DEF BellsHang
        <2>5. StrayOnlyByRace'
            BY <2>1 DEF IInv, StrayOnlyByRace
        <2> QED  BY <2>1, <2>2, <2>3, <2>4, <2>5, CommitKeeps DEF IInv
    <1> QED  BY <1>3, <1>4

LEMMA Invariance == IInv /\ [Next]_vars => IInv'
    <1> SUFFICES ASSUME IInv, [Next]_vars
                 PROVE  IInv'
        OBVIOUS
    <1>1. CASE Ring
        <2>1. PICK b \in Identity \X Kinds :
                /\ bells[b] # NoBell
                /\ bells' = [bells EXCEPT ![b].sent = TRUE]
                /\ UNCHANGED <<now, templates, starts, fetchError, mem, lost, overlap, strays, started>>
            BY <1>1 DEF Ring
        <2>2. IsRing(bells')
            <3>1. bells = [c \in Identity \X Kinds |-> bells[c]] /\ IsBell(bells[b])
                  /\ \A c \in Identity \X Kinds : bells[c] = NoBell \/ IsBell(bells[c])
                BY <2>1 DEF IInv, Shape, IsRing
            <3>2. IsBell([bells[b] EXCEPT !.sent = TRUE])
                BY <3>1 DEF IsBell, BellField
            <3>3. bells' = [c \in Identity \X Kinds |->
                              IF c = b THEN [bells[b] EXCEPT !.sent = TRUE] ELSE bells[c]]
                BY <2>1, <3>1
            <3> QED  BY <3>1, <3>2, <3>3 DEF IsRing
        <2>3. \A c \in Identity \X Kinds : bells'[c] # NoBell => bells[c] # NoBell
            BY <2>1 DEF IInv, Shape, IsRing
        <2>4. Shape'
            BY <2>1, <2>2 DEF IInv, Shape
        <2>5. Memories'
            BY <2>1 DEF IInv, Memories
        <2>6. BellsHang(starts', bells')
            BY <2>1, <2>3 DEF IInv, BellsHang
        <2> QED  BY <2>1, <2>4, <2>5, <2>6 DEF IInv, StrayOnlyByRace
    <1>2. CASE Tick
        <2>1. /\ now' = now + 1 /\ now \in Nat /\ now' \in Nat
              /\ UNCHANGED <<templates, starts, bells, mem, lost, overlap, strays>>
            BY <1>2 DEF Tick, db, IInv, Shape
        <2>2. Shape'
            BY <2>1 DEF IInv, Shape
        <2>3. Memories'
            <3> SUFFICES ASSUME NEW h \in Handlers
                         PROVE  MemoryOK(mem[h], lost[h], overlap[h], templates, starts, now)'
                BY DEF Memories
            <3>1. MemoryOK(mem[h], lost[h], overlap[h], templates, starts, now)
                BY DEF IInv, Memories
            <3>2. MemoryOK(mem[h], lost[h], overlap[h], templates, starts, now + 1)
                BY <2>1, <3>1, LaterMemory
            <3> QED  BY <2>1, <3>2
        <2>4. Within(starts', now')
            BY <2>1, ScheduleAssumption DEF IInv, Within, Identity, Day
        <2>5. StrayOnlyByRace'
            BY <2>1 DEF IInv, StrayOnlyByRace, Live, Identity, Day
        <2> QED  BY <2>1, <2>2, <2>3, <2>4, <2>5 DEF IInv
    <1>3. CASE \E h \in Handlers : Work(h)
        <2>1. PICK h \in Handlers : Work(h)
            BY <1>3
        <2>2. CASE \/ ImportSync(h) \/ FetchPreview(h) \/ FetchFails(h) \/ FetchSync(h)
                   \/ ExpandRead(h) \/ RollForwardBegin(h) \/ RollForwardRead(h)
                   \/ DeleteTemplateRead(h) \/ SetRemindersRead(h)
            BY <2>2, ReadsKeep
        <2>3. CASE FetchRefused(h)
            <3>1. Commit(h, {}, {}) /\ UNCHANGED <<templates, starts, bells, now, strays>>
                BY <2>3 DEF FetchRefused
            <3> QED  BY <3>1, CommitKeeps DEF IInv, Shape, StrayOnlyByRace
        <2>4. CASE ImportCommit(h)
            BY <2>4, ImportKeeps
        <2>5. CASE ImportFails(h)
            BY <2>5, RollbackKeeps DEF ImportFails
        <2>6. CASE RollForwardCommit(h)
            BY <2>6, RollKeeps
        <2>7. CASE RollForwardFails(h)
            BY <2>7, RollbackKeeps DEF RollForwardFails
        <2>8. CASE DeleteTemplate(h)
            BY <2>8, DeleteKeeps
        <2>9. CASE SetReminders(h)
            BY <2>9, BellKeeps
        <2> QED  BY <2>1, <2>2, <2>3, <2>4, <2>5, <2>6, <2>7, <2>8, <2>9 DEF Work
    <1>4. CASE UNCHANGED vars
        <2>1. UNCHANGED <<now, templates, starts, bells, mem, lost, overlap, strays>>
            BY <1>4 DEF vars
        <2> QED  BY <2>1 DEF IInv, Shape, Memories, StrayOnlyByRace
    <1> QED  BY <1>1, <1>2, <1>3, <1>4 DEF Next

\* What holds in every state.
LEMMA Invariant == Spec => []IInv
    BY Initial, Invariance, PTL DEF Spec

-----------------------------------------------------------------------------
(* The results.                                                               *)

\* A future start that came from the grid loses its template only to an import
\* or a removal that another transaction overlapped (apply_templates_import,
\* delete_template, ON DELETE SET NULL).
THEOREM StraysOnlyByRace == Spec => []StrayOnlyByRace
    <1>1. IInv => StrayOnlyByRace
        BY DEF IInv
    <1> QED  BY <1>1, Invariant, PTL

\* A pending bell rescheduled rings at the time of its start.
LEMMA BellsAtTime ==
    ASSUME NEW view, NEW ring, IsRing(ring), NEW b \in Identity \X Kinds,
           NEW r, r = reschedule_pending(view, ring)[b], r # NoBell, ~r.sent,
           NEW a, a = anchor(view[b[1]], b[1], b[2]), a # None
    PROVE  r.due = Early(a)
    <1>1. ring[b] # NoBell /\ ~ring[b].sent => r = [ring[b] EXCEPT !.due = Early(a), !.stale = FALSE]
        BY DEF reschedule_pending
    <1>2. ring[b] = NoBell \/ ring[b].sent => r = ring[b]
        BY DEF reschedule_pending
    <1>3. IsBell(ring[b])
        BY <1>2 DEF IsRing
    <1>4. ~ring[b].sent /\ ring[b] # NoBell
        BY <1>2
    <1> QED  BY <1>1, <1>3, <1>4 DEF IsBell, BellField

LEMMA PassIsExact ==
    ASSUME IInv, NEW h \in Handlers, PassCommits(h), ~overlap[h], mem[h].from = now
    PROVE  Unrolled' /\ BellsInTime'
    <1> DEFINE left == ActiveGrid(templates')
    <1>1. IsRing(bells) /\ IsView(starts)
        BY DEF IInv, Shape
    <1>2. CASE ImportCommit(h)
        <2>1. PICK grid, new, number, row, unrolled, stale :
                ImportStep(h, grid, new, number, row, unrolled, stale)
            BY <1>2, ImportSteps
        <2>2. /\ unrolled = Expanded(h, mem[h].seen, grid, mem[h].from, row)
              /\ Pass(h, mem[h].seen, grid, mem[h].from, row)
              /\ starts' = SetNull(unrolled, stale) /\ bells' = reschedule_pending(starts', bells)
              /\ stale \subseteq Templates /\ now' = now /\ now \in Nat
            BY <2>1, UpdatedIsKept DEF ImportStep, Ids, IInv, Shape
        <2>3. /\ mem[h].seen = starts /\ lost[h].s = {}
              /\ \A g \in grid : row[g] \notin stale
              /\ Leaves(grid, row, left)
            BY <2>1, FreshImport
        <2> HIDE DEF left
        <2>4. Exact(unrolled, grid, row, left, now)
            BY <2>2, <2>3, ExactlyUnrolled
        <2>5. IsView(unrolled)
            BY <2>2, ExpandedView DEF IInv
        <2>6. \A i \in Identity :
                /\ starts'[i] = NoStart <=> unrolled[i] = NoStart
                /\ \/ starts'[i] = unrolled[i]
                   \/ unrolled[i] # NoStart /\ unrolled[i].tpl \in stale /\ starts'[i].tpl = None
                /\ unrolled[i] # NoStart => starts'[i].detached = unrolled[i].detached
                /\ unrolled[i] # NoStart /\ unrolled[i].tpl \notin stale => starts'[i] = unrolled[i]
            BY <2>2, <2>5, NulledView
        <2>7. \A i \in Window(now) :
                IF i \in desired(left, now)
                  THEN /\ starts'[i] # NoStart
                       /\ \/ starts'[i].detached
                          \/ \E g \in Offers(left, i) : apply_template(starts'[i], g, g.id) = starts'[i]
                  ELSE starts'[i] = NoStart \/ starts'[i].detached \/ starts'[i].tpl = None
            <3> SUFFICES ASSUME NEW i \in Window(now)
                         PROVE  IF i \in desired(left, now)
                                  THEN /\ starts'[i] # NoStart
                                       /\ \/ starts'[i].detached
                                          \/ \E g \in Offers(left, i) :
                                                apply_template(starts'[i], g, g.id) = starts'[i]
                                  ELSE starts'[i] = NoStart \/ starts'[i].detached \/ starts'[i].tpl = None
                OBVIOUS
            <3>1. i \in Identity
                BY DEF Window
            <3>2. CASE i \in desired(left, now)
                BY <2>3, <2>4, <2>6, <3>1, <3>2 DEF Exact
            <3>3. CASE i \notin desired(left, now)
                BY <2>4, <2>6, <3>1, <3>3 DEF Exact
            <3> QED  BY <3>2, <3>3
        <2>8. Unrolled'
            BY <2>2, <2>7 DEF Unrolled, left
        <2> QED  BY <1>1, <2>2, <2>8, BellsAtTime DEF BellsInTime
    <1>3. CASE RollForwardCommit(h)
        <2>1. PICK grid, row, from : RollStep(h, grid, row, from)
            BY <1>3, RollSteps
        <2>2. /\ grid = mem[h].grid /\ row = [g \in grid |-> g.id] /\ from = now
              /\ starts' = Expanded(h, mem[h].seen, grid, from, row)
              /\ Pass(h, mem[h].seen, grid, from, row)
              /\ bells' = reschedule_pending(starts', bells)
              /\ now' = now /\ templates' = templates
            BY <2>1 DEF RollStep
        <2>3. mem[h].seen = starts /\ lost[h].s = {} /\ left = grid
            BY <2>1, <2>2, Remembered DEF RollStep, IsFresh
        <2> HIDE DEF left
        <2>4. Leaves(grid, row, left)
            BY <2>2, <2>3 DEF Leaves
        <2>5. Exact(starts', grid, row, left, now)
            BY <2>2, <2>3, <2>4, ExactlyUnrolled
        <2>6. Unrolled'
            BY <2>2, <2>5 DEF Unrolled, Exact, left
        <2> QED  BY <1>1, <2>2, <2>6, BellsAtTime DEF BellsInTime
    <1> QED  BY <1>2, <1>3 DEF PassCommits

\* An import, a fetch or a roll-forward that nobody overlapped and that did not
\* see midnight leaves exactly the grid's starts in its window, and every
\* waiting bell at its time (expand_templates, reschedule_pending).
THEOREM ExactSchedule == Spec => PassLeavesExactSchedule
    <1>1. IInv /\ [Next]_vars => [\A h \in Handlers :
            PassCommits(h) /\ ~overlap[h] /\ mem[h].from = now => Unrolled' /\ BellsInTime']_vars
        BY PassIsExact
    <1> QED  BY <1>1, Invariant, PTL DEF Spec, PassLeavesExactSchedule

\* A bell that a pass takes away hung on a start the pass deletes.
LEMMA PassKeepsBells ==
    ASSUME IInv, NEW h \in Handlers, PassCommits(h), ~overlap[h],
           NEW b \in Identity \X Kinds, bells[b] # NoBell, bells'[b] = NoBell
    PROVE  b[1] \notin desired(ActiveGrid(templates'), now)
    <1>1. IsRing(bells) /\ starts[b[1]] # NoStart /\ b[1] \in Identity
          /\ IsView(starts) /\ now \in Nat /\ Within(starts, now)
        BY DEF IInv, Shape, BellsHang
    <1> DEFINE left == ActiveGrid(templates')
    <1>2. ASSUME NEW grid, NEW row, NEW from \in Nat, NEW unrolled, from <= now,
                 Pass(h, mem[h].seen, grid, from, row), Leaves(grid, row, left),
                 unrolled = Expanded(h, mem[h].seen, grid, from, row), unrolled[b[1]] = NoStart
          PROVE  b[1] \notin desired(left, now)
        <2>1. b[1] \in Deleted(h, mem[h].seen, grid, from)
            BY <1>1, <1>2, ExpandedView
        <2>2. b[1] \in Window(from) /\ b[1] \notin desired(grid, from)
            BY <2>1 DEF Deleted, Dropped
        <2>3. desired(grid, from) = desired(left, from)
            BY <1>2, SameWanted
        <2> HIDE DEF left
        <2> QED  BY <2>2, <2>3 DEF desired
    <1>3. CASE ImportCommit(h)
        <2>1. PICK grid, new, number, row, unrolled, stale :
                ImportStep(h, grid, new, number, row, unrolled, stale)
            BY <1>3, ImportSteps
        <2>2. /\ unrolled = Expanded(h, mem[h].seen, grid, mem[h].from, row)
              /\ Pass(h, mem[h].seen, grid, mem[h].from, row)
              /\ mem[h].from \in Nat /\ mem[h].from <= now
              /\ starts' = SetNull(unrolled, stale) /\ bells' = reschedule_pending(starts', bells)
            BY <2>1 DEF ImportStep
        <2>3. Leaves(grid, row, left)
            BY <2>1, FreshImport
        <2>4. starts'[b[1]] = NoStart
            BY <1>1, <2>2, BellsFollow
        <2>5. IsView(unrolled)
            BY <1>1, <2>2, ExpandedView
        <2>6. unrolled[b[1]] = NoStart
            BY <1>1, <2>2, <2>4, <2>5, NulledView
        <2> HIDE DEF left
        <2>7. b[1] \notin desired(left, now)
            BY <1>2, <2>2, <2>3, <2>6
        <2> QED  BY <2>7 DEF left
    <1>4. CASE RollForwardCommit(h)
        <2>1. PICK grid, row, from : RollStep(h, grid, row, from)
            BY <1>4, RollSteps
        <2>2. /\ grid = mem[h].grid /\ row = [g \in grid |-> g.id]
              /\ from \in Nat /\ from <= now
              /\ starts' = Expanded(h, mem[h].seen, grid, from, row)
              /\ Pass(h, mem[h].seen, grid, from, row)
              /\ bells' = reschedule_pending(starts', bells) /\ templates' = templates
            BY <2>1 DEF RollStep
        <2>3. left = grid
            BY <2>1, <2>2, Remembered DEF RollStep, IsFresh
        <2>4. Leaves(grid, row, left)
            BY <2>2, <2>3 DEF Leaves
        <2>5. starts'[b[1]] = NoStart
            BY <1>1, <2>2, BellsFollow
        <2> HIDE DEF left
        <2>6. b[1] \notin desired(left, now)
            BY <1>2, <2>2, <2>4, <2>5
        <2> QED  BY <2>6 DEF left
    <1> QED  BY <1>3, <1>4 DEF PassCommits

LEMMA BellsAreKept ==
    ASSUME IInv, Next, NEW b \in Identity \X Kinds, bells[b] # NoBell, bells'[b] = NoBell,
           b[1] \in desired(ActiveGrid(templates'), now)
    PROVE  \E h \in Handlers :
              /\ Busy(h) /\ mem'[h] = NoMem
              /\ \/ overlap[h] \/ mem[h].op = "bell"
                 \/ mem[h].op = "delete" /\ starts[b[1]].tpl = mem[h].t
    <1>1. IsRing(bells) /\ starts[b[1]] # NoStart /\ b[1] \in Identity
          /\ mem = [h \in Handlers |-> mem[h]]
        BY DEF IInv, Shape, BellsHang
    <1>2. ~Ring
        <2> SUFFICES ASSUME Ring
                     PROVE  FALSE
            OBVIOUS
        <2>1. PICK c \in Identity \X Kinds :
                bells[c] # NoBell /\ bells' = [bells EXCEPT ![c].sent = TRUE]
            BY DEF Ring
        <2>2. c = b /\ bells'[b] = [bells[b] EXCEPT !.sent = TRUE]
            BY <1>1, <2>1 DEF IsRing
        <2>3. IsBell(bells[b])
            BY <1>1 DEF IsRing
        <2>4. IsBell(bells'[b])
            BY <2>2, <2>3 DEF IsBell, BellField
        <2> QED  BY <2>4, RowsAreThere
    <1>3. bells' # bells
        OBVIOUS
    <1>4. PICK h \in Handlers : Work(h)
        BY <1>2, <1>3 DEF Next, Tick, db
    <1>5. \/ ImportCommit(h) \/ RollForwardCommit(h) \/ DeleteTemplate(h) \/ SetReminders(h)
        BY <1>3, <1>4 DEF Work, ImportSync, FetchPreview, FetchFails, FetchRefused, FetchSync,
                          ExpandRead, ImportFails, RollForwardBegin, RollForwardRead,
                          RollForwardFails, DeleteTemplateRead, SetRemindersRead, Rollback, db
    <1>6. CASE ImportCommit(h) \/ RollForwardCommit(h)
        <2>1. overlap[h]
            BY <1>6, PassKeepsBells DEF PassCommits
        <2>2. mem[h].op # "none" /\ \E goneT, goneS : Commit(h, goneT, goneS)
            <3>1. CASE ImportCommit(h)
                BY <3>1, ImportSteps DEF ImportStep
            <3>2. CASE RollForwardCommit(h)
                BY <3>2 DEF RollForwardCommit
            <3> QED  BY <1>6, <3>1, <3>2
        <2> QED  BY <1>1, <2>1, <2>2, NothingRemembered DEF Commit, Busy
    <1>7. CASE DeleteTemplate(h)
        <2>1. PICK ids, gone, cleared : DeleteStep(h, ids, gone, cleared)
            BY <1>7, DeleteSteps
        <2>2. cleared[b[1]] = NoStart
            BY <1>1, <2>1, BellsFollow DEF DeleteStep
        <2>3. b[1] \in mem[h].ids
            BY <1>1, <2>1, <2>2 DEF DeleteStep
        <2>4. ~overlap[h] => starts[b[1]].tpl = mem[h].t
            BY <2>1, <2>3, Remembered DEF DeleteStep, IsFresh
        <2> QED  BY <1>1, <2>1, <2>4, NothingRemembered DEF DeleteStep, Commit, Busy
    <1>8. CASE SetReminders(h)
        <2>1. mem[h].op = "bell" /\ (Commit(h, {}, {}) \/ Rollback(h))
            BY <1>8 DEF SetReminders
        <2> QED  BY <1>1, <2>1, NothingRemembered DEF Commit, Rollback, Busy
    <1> QED  BY <1>5, <1>6, <1>7, <1>8

\* The bells of a start some template still offers go by the player's hand,
\* with the template the start hangs on, or where two transactions overlapped
\* (expand_templates, delete_template, set_reminders).
THEOREM WantedKeepsBells == Spec => WantedStartKeepsBells
    <1>1. IInv /\ [Next]_vars =>
            [\A b \in Identity \X Kinds :
               /\ bells[b] # NoBell /\ bells'[b] = NoBell
               /\ b[1] \in desired(ActiveGrid(templates'), now)
               => \E h \in Handlers :
                    /\ Busy(h) /\ mem'[h] = NoMem
                    /\ \/ overlap[h] \/ mem[h].op = "bell"
                       \/ mem[h].op = "delete" /\ starts[b[1]].tpl = mem[h].t]_vars
        BY BellsAreKept
    <1> QED  BY <1>1, Invariant, PTL DEF Spec, WantedStartKeepsBells

-----------------------------------------------------------------------------
(* The guard of the daily fetch.                                              *)

\* Other days leave the signature of a template that is not of single dates.
LEMMA SignatureOfNewDays ==
    ASSUME NEW r, IsRow(r), r.kind # "dated", NEW days, NEW n, n = [r EXCEPT !.days = days]
    PROVE  Signature(n) = Signature(r)
    <1>1. IsRow(n) /\ n.name = r.name /\ n.kind = r.kind /\ n.core = r.core
          /\ n.late = r.late /\ n.lobby = r.lobby
        BY RowOfNewDays
    <1> QED  BY <1>1 DEF Signature

\* A template of single dates keeps its days when the file keeps the template.
LEMMA DatedKeepsDays ==
    ASSUME NEW view, NEW file, NEW t \in Updated(view, file)
    PROVE  view[t].kind # "dated"
    <1>1. PICK d \in file.drafts : t \in MatchOf(view, file, d) /\ view[t].days # d.days
        BY DEF Updated
    <1>2. Signature(view[t]) = Signature(d)
        BY <1>1 DEF MatchOf
    <1> QED  BY <1>1, <1>2 DEF Signature

LEMMA FetchIsGuarded ==
    ASSUME IInv, NEW h \in Handlers, mem[h].op = "fetch", ImportCommit(h), ~overlap[h],
           Cardinality(Ids(templates)) >= GuardMin
    PROVE  2 * Cardinality({t \in Ids(templates) : templates'[t] # templates[t]
                              /\ (templates'[t] = NoTemplate
                                   \/ Signature(templates'[t]) # Signature(templates[t]))})
             <= Cardinality(Ids(templates))
    <1> DEFINE lostRows == {t \in Ids(templates) : templates'[t] # templates[t]
                              /\ (templates'[t] = NoTemplate
                                   \/ Signature(templates'[t]) # Signature(templates[t]))}
    <1>1. PICK grid, new, number, row, unrolled, stale :
            ImportStep(h, grid, new, number, row, unrolled, stale)
        BY ImportSteps
    <1>2. mem[h].tpls = templates /\ ~Guarded(templates, mem[h].file)
        BY Remembered DEF IsFresh
    <1>3. lost[h].t = {}
        BY Remembered
    <1>4. /\ new = Created(mem[h].tpls, mem[h].file) /\ templates' = Synced(h, number)
          /\ number \in [new -> Free]
          /\ stale = stale_template_ids(mem[h].tpls, mem[h].file) /\ stale \ lost[h].t = stale
        BY <1>1, <1>3 DEF ImportStep
    <1>5. IsTable(templates)
        BY DEF IInv, Shape
    <1>6. ASSUME NEW t \in lostRows
          PROVE  t \in stale
        <2>1. t \in Templates /\ IsRow(templates[t]) /\ t \in Ids(templates)
            BY <1>5 DEF Ids, IsTable
        <2>2. ~\E d \in new : number[d] = t
            BY <1>4, <2>1 DEF Free
        <2>3. PICK r : r = templates'[t]
            OBVIOUS
        <2>4. \/ t \in stale
              \/ /\ t \in Updated(templates, mem[h].file)
                 /\ r = [templates[t] EXCEPT !.days = NewDays(templates, mem[h].file, t)] /\ IsRow(r)
              \/ r = templates[t]
            BY <1>2, <1>4, <1>5, <2>1, <2>2, <2>3, SyncedRow, RowsAreThere
        <2>5. CASE /\ t \in Updated(templates, mem[h].file)
                   /\ r = [templates[t] EXCEPT !.days = NewDays(templates, mem[h].file, t)] /\ IsRow(r)
            <3>1. templates[t].kind # "dated"
                BY <2>5, DatedKeepsDays
            <3>2. Signature(r) = Signature(templates[t])
                BY <2>1, <2>5, <3>1, SignatureOfNewDays
            <3> QED  BY <2>3, <2>5, <3>2, RowsAreThere
        <2> QED  BY <2>3, <2>4, <2>5
    <1>7. stale \subseteq Ids(templates) /\ Ids(templates) \subseteq Templates
        BY <1>2, <1>4, UpdatedIsKept DEF Ids
    <1>8. 2 * Cardinality(stale) <= Cardinality(Ids(templates))
        <2>1. IsFiniteSet(stale) /\ IsFiniteSet(Ids(templates))
            BY <1>7, TemplatesAreFinite, FS_Subset
        <2>2. Cardinality(stale) \in Nat /\ Cardinality(Ids(templates)) \in Nat
            BY <2>1, FS_CardinalityType
        <2> QED  BY <1>2, <1>4, <2>2 DEF Guarded
    <1> HIDE DEF lostRows
    <1>9. /\ Cardinality(lostRows) <= Cardinality(stale)
          /\ Cardinality(lostRows) \in Nat /\ Cardinality(stale) \in Nat
          /\ Cardinality(Ids(templates)) \in Nat
        <2>1. IsFiniteSet(stale) /\ IsFiniteSet(Ids(templates))
            BY <1>7, TemplatesAreFinite, FS_Subset
        <2>2. lostRows \in SUBSET stale
            BY <1>6
        <2>3. IsFiniteSet(lostRows) /\ Cardinality(lostRows) <= Cardinality(stale)
            BY <2>1, <2>2, FS_Subset
        <2> QED  BY <2>1, <2>3, FS_CardinalityType
    <1>10. 2 * Cardinality(lostRows) <= Cardinality(Ids(templates))
        BY <1>8, <1>9
    <1> QED  BY <1>10 DEF lostRows

\* The daily fetch never removes more than half of a grid worth guarding, unless
\* the grid changed between its preview and its import (fetch_club_schedule).
THEOREM FetchGutsNothing == Spec => FetchNeverGuts
    <1>1. IInv /\ [Next]_vars =>
            [\A h \in Handlers :
               /\ mem[h].op = "fetch" /\ ImportCommit(h) /\ ~overlap[h]
               /\ Cardinality(Ids(templates)) >= GuardMin
               => 2 * Cardinality({t \in Ids(templates) : templates'[t] # templates[t]
                                      /\ (templates'[t] = NoTemplate
                                           \/ Signature(templates'[t]) # Signature(templates[t]))})
                     <= Cardinality(Ids(templates))]_vars
        BY FetchIsGuarded
    <1> QED  BY <1>1, Invariant, PTL DEF Spec, FetchNeverGuts
=============================================================================
