--------------------------- MODULE CollectorProofs ---------------------------
(* Proofs about Collector for any lobbies, managers and grids. What Schedule  *)
(* keeps it keeps beside the collector too (IInv of ScheduleProofs).          *)
EXTENDS Collector, ScheduleProofs

-----------------------------------------------------------------------------
(* The walk over a lobby.                                                     *)

LEMMA LeastOf ==
    ASSUME NEW T \in SUBSET Nat, T # {}
    PROVE  \E m \in T : \A n \in T : m <= n
    <1>1. T \subseteq Nat
        OBVIOUS
    <1>2. PICK m \in T : \A n \in T : ~(<<n, m>> \in OpToRel(<, Nat))
        BY <1>1, NatLessThanWellFounded, WFMin
    <1>3. \A n \in T : ~(n < m)
        BY <1>2 DEF OpToRel
    <1> QED  BY <1>1, <1>3

\* g is the walk over the first n entries.
Walk(g, n, lobby, match) ==
    g = [k \in 0..n |-> IF k = 0 THEN Unseen ELSE See(g[k - 1], lobby[k], match[k])]

\* A walk goes on to its end.
LEMMA WalkExists ==
    ASSUME NEW lobby, NEW match, NEW n \in Nat
    PROVE  \E g : Walk(g, n, lobby, match)
    <1> DEFINE T == {k \in Nat : ~\E g : Walk(g, k, lobby, match)}
    <1> SUFFICES ASSUME T # {}
                 PROVE  FALSE
        OBVIOUS
    <1>1. PICK m \in T : \A k \in T : m <= k
        <2>1. T \in SUBSET Nat
            OBVIOUS
        <2> HIDE DEF T
        <2> QED  BY <2>1, LeastOf
    <1>2. m # 0
        <2> DEFINE g == [k \in 0..0 |-> Unseen]
        <2>1. Walk(g, 0, lobby, match)
            BY DEF Walk
        <2> QED  BY <2>1
    <1>3. m - 1 \in Nat /\ m - 1 \notin T
        BY <1>1, <1>2
    <1>4. PICK g : Walk(g, m - 1, lobby, match)
        BY <1>3
    <1> DEFINE e == [k \in 0..m |-> IF k = m THEN See(g[m - 1], lobby[m], match[m]) ELSE g[k]]
    <1>5. Walk(e, m, lobby, match)
        <2>1. \A k \in 0..(m - 1) : e[k] = g[k]
            BY <1>3
        <2>2. \A k \in 0..(m - 1) :
                g[k] = IF k = 0 THEN Unseen ELSE See(g[k - 1], lobby[k], match[k])
            BY <1>4 DEF Walk
        <2>3. ASSUME NEW k \in 0..m
              PROVE  e[k] = IF k = 0 THEN Unseen ELSE See(e[k - 1], lobby[k], match[k])
            <3>1. CASE k = m
                BY <1>2, <1>3, <2>1, <3>1
            <3>2. CASE k # m
                <4>1. k \in 0..(m - 1) /\ (k # 0 => k - 1 \in 0..(m - 1))
                    BY <1>3, <3>2
                <4> QED  BY <2>1, <2>2, <4>1
            <3> QED  BY <3>1, <3>2
        <2>4. e = [k \in 0..m |-> e[k]]
            OBVIOUS
        <2> HIDE DEF e
        <2> QED  BY <2>3, <2>4 DEF Walk
    <1> QED  BY <1>5

LEMMA IngestedIsWalk ==
    ASSUME NEW lobby, Len(lobby) \in Nat, NEW match
    PROVE  Walk(Ingested(lobby, match), Len(lobby), lobby, match)
    <1>1. \E g : Walk(g, Len(lobby), lobby, match)
        BY WalkExists
    <1> QED  BY <1>1 DEF Ingested, Walk

-----------------------------------------------------------------------------
(* The queue.                                                                 *)

ChangeField == {"kind", "status", "at", "linked", "payload", "verdicts", "raced"}
IsChange(r) == r = [f \in ChangeField |-> r[f]] /\ r.raced \in BOOLEAN

IsLedger(cs) ==
    /\ cs = [c \in Changes |-> cs[c]]
    /\ \A c \in Changes : cs[c] = NoChange \/ IsChange(cs[c])

\* A difference as it is put in the queue.
Asked(r) == IsChange(r) /\ r.status = "pending" /\ r.verdicts = {} /\ r.raced = FALSE

\* One row before and after work that decides nothing.
Follows(o, n) ==
    \/ Asked(n)
    \/ o = NoChange /\ n = NoChange
    \/ /\ IsChange(o) /\ IsChange(n)
       /\ n.status = o.status /\ n.verdicts = o.verdicts /\ n.raced = o.raced

Undecided(old, new) ==
    /\ IsLedger(new)
    /\ \A c \in Changes : Follows(old[c], new[c])

LEMMA ChangesAreThere == \A r : IsChange(r) => r # NoChange
    <1>1. DOMAIN NoChange = {"none"}
        BY DEF NoChange
    <1>2. \A r : IsChange(r) => DOMAIN r = ChangeField
        BY DEF IsChange
    <1> QED  BY <1>1, <1>2 DEF ChangeField

LEMMA NothingDecided ==
    ASSUME NEW cs, IsLedger(cs)
    PROVE  Undecided(cs, cs)
    BY DEF Undecided, IsLedger, Follows

LEMMA StillUndecided ==
    ASSUME NEW a, NEW b, NEW c, Undecided(a, b), Undecided(b, c)
    PROVE  Undecided(a, c)
    <1> SUFFICES ASSUME NEW k \in Changes
                 PROVE  Follows(a[k], c[k])
        BY DEF Undecided
    <1>1. Follows(a[k], b[k]) /\ Follows(b[k], c[k])
        BY DEF Undecided
    <1> QED  BY <1>1, ChangesAreThere DEF Follows, Asked

LEMMA NewIsAsked ==
    ASSUME NEW kind, NEW i, NEW payload
    PROVE  Asked(NewChange(kind, i, payload))
    BY DEF Asked, IsChange, ChangeField, NewChange

LEMMA Reworded ==
    ASSUME NEW r, r = NoChange \/ IsChange(r), NEW payload
    PROVE  /\ Follows(r, [r EXCEPT !.payload = payload])
           /\ Follows(r, [r EXCEPT !.linked = FALSE])
           /\ Follows(r, r)
    <1>1. CASE r = NoChange
        <2>1. [r EXCEPT !.payload = payload] = NoChange /\ [r EXCEPT !.linked = FALSE] = NoChange
            BY <1>1 DEF NoChange
        <2> QED  BY <1>1, <2>1 DEF Follows
    <1>2. CASE IsChange(r)
        <2>1. /\ IsChange([r EXCEPT !.payload = payload]) /\ IsChange([r EXCEPT !.linked = FALSE])
              /\ \A f \in {"status", "verdicts", "raced"} :
                    /\ [r EXCEPT !.payload = payload][f] = r[f]
                    /\ [r EXCEPT !.linked = FALSE][f] = r[f]
            BY <1>2 DEF IsChange, ChangeField
        <2> QED  BY <1>2, <2>1 DEF Follows
    <1> QED  BY <1>1, <1>2

LEMMA LedgerOf ==
    ASSUME NEW old, NEW new, new = [c \in Changes |-> new[c]],
           \A c \in Changes : Follows(old[c], new[c])
    PROVE  Undecided(old, new)
    BY DEF Undecided, IsLedger, Follows, Asked

\* To queue a difference decides none (_queue).
LEMMA QueueDecidesNothing ==
    ASSUME NEW cs, IsLedger(cs), NEW kind, NEW i, NEW payload
    PROVE  Undecided(cs, Queue(cs, kind, i, payload))
    <1>1. CASE Waiting(cs, kind, i) # {}
        <2> DEFINE new == [c \in Changes |-> IF c \in Waiting(cs, kind, i)
                                             THEN [cs[c] EXCEPT !.payload = payload] ELSE cs[c]]
        <2>1. Queue(cs, kind, i, payload) = new
            BY <1>1 DEF Queue
        <2>2. \A c \in Changes : Follows(cs[c], new[c])
            BY Reworded DEF IsLedger
        <2>3. new = [c \in Changes |-> new[c]]
            OBVIOUS
        <2> HIDE DEF new
        <2> QED  BY <2>1, <2>2, <2>3, LedgerOf
    <1>2. CASE Waiting(cs, kind, i) = {} /\ Settled(cs, kind, i, payload)
        BY <1>2, NothingDecided DEF Queue
    <1>3. CASE Waiting(cs, kind, i) = {} /\ ~Settled(cs, kind, i, payload)
        <2> DEFINE r == NewChange(kind, i, payload)
                   new == [cs EXCEPT ![FreshChange(cs)] = r]
        <2>1. Queue(cs, kind, i, payload) = new
            BY <1>3 DEF Queue
        <2>2. Asked(r)
            BY NewIsAsked
        <2> HIDE DEF r
        <2>3. \A c \in Changes : Follows(cs[c], new[c])
            BY <2>2, Reworded DEF IsLedger, Follows
        <2>4. new = [c \in Changes |-> new[c]]
            BY DEF IsLedger
        <2> HIDE DEF new
        <2> QED  BY <2>1, <2>3, <2>4, LedgerOf
    <1> QED  BY <1>1, <1>2, <1>3

LEMMA QueueMissingDecidesNothing ==
    ASSUME NEW cs, IsLedger(cs), NEW missing
    PROVE  Undecided(cs, QueueMissing(cs, missing))
    <1>1. PICK new, number, queue :
            /\ new = Unasked(cs, missing)
            /\ number = CHOOSE f \in Injection(new, Changes \ Queued(cs)) : TRUE
            /\ queue = QueueMissing(cs, missing)
        OBVIOUS
    <1>2. queue = [c \in Changes |->
           IF \E i \in new : number[i] = c
             THEN NewChange("missing", CHOOSE i \in new : number[i] = c, NoPayload)
           ELSE IF \E i \in missing : c \in Waiting(cs, "missing", i)
             THEN [cs[c] EXCEPT !.payload = NoPayload]
           ELSE cs[c]]
        BY <1>1 DEF QueueMissing
    <1>3. ASSUME NEW c \in Changes
          PROVE  Follows(cs[c], queue[c])
        <2>1. \/ \E i : queue[c] = NewChange("missing", i, NoPayload)
              \/ queue[c] = [cs[c] EXCEPT !.payload = NoPayload]
              \/ queue[c] = cs[c]
            BY <1>2
        <2>2. cs[c] = NoChange \/ IsChange(cs[c])
            BY DEF IsLedger
        <2>3. \A i : Follows(cs[c], NewChange("missing", i, NoPayload))
            BY NewIsAsked DEF Follows
        <2>4. Follows(cs[c], [cs[c] EXCEPT !.payload = NoPayload]) /\ Follows(cs[c], cs[c])
            BY <2>2, Reworded
        <2> QED  BY <2>1, <2>3, <2>4
    <1>4. queue = [c \in Changes |-> queue[c]]
        BY <1>2
    <1> QED  BY <1>1, <1>3, <1>4, LedgerOf

-----------------------------------------------------------------------------
(* What a snapshot makes of the rows.                                         *)

AccField == {"starts", "templates", "changes", "unmatched"}

\* The start of the schedule after some entries of the lobby: none is added or
\* taken off, and what it hangs on is left.
Refined(view) ==
    /\ IsView(view)
    /\ \A i \in Identity :
          /\ view[i] = NoStart <=> starts[i] = NoStart
          /\ starts[i] # NoStart => /\ view[i].tpl = starts[i].tpl
                                    /\ view[i].detached = starts[i].detached
                                    /\ view[i].status = starts[i].status

Kept(acc) ==
    /\ acc = [f \in AccField |-> acc[f]]
    /\ Refined(acc.starts) /\ IsTable(acc.templates)
    /\ Undecided(changes, acc.changes)
    /\ acc.unmatched \subseteq InWindow(now)

\* A start left over that an entry names was passed over for one that bears
\* the name.
Passed(acc, x) ==
    \A i \in acc.unmatched : x.day = i[1] /\ x.name = i[2] =>
        \E j \in InWindow(now) \ acc.unmatched :
            j # i /\ j[1] = i[1] /\ acc.starts[j].lobby = i[2]

LEMMA RefinedRow ==
    ASSUME NEW s, IsStart(s), NEW x, NEW i, NEW n, n = Refine(s, x, i)
    PROVE  /\ IsStart(n)
           /\ n.tpl = s.tpl /\ n.detached = s.detached /\ n.status = s.status
           /\ x.name = s.lobby => n.lobby = x.name
    BY DEF Refine, IsStart, StartField

LEMMA RefinedTemplate ==
    ASSUME NEW t, t = NoTemplate \/ IsRow(t), NEW s, NEW x, NEW i, NEW core
    PROVE  /\ LET n == RefineTemplate(t, s, x, i) IN n = NoTemplate \/ IsRow(n)
           /\ LET n == [t EXCEPT !.core = core] IN n = NoTemplate \/ IsRow(n)
    <1>1. CASE t = NoTemplate
        BY <1>1 DEF RefineTemplate, NoTemplate
    <1>2. CASE IsRow(t)
        BY <1>2 DEF RefineTemplate, IsRow, RowField
    <1> QED  BY <1>1, <1>2

LEMMA SeeUnknown ==
    ASSUME NEW acc, acc = [f \in AccField |-> acc[f]], NEW x, NEW n, n = See(acc, x, None)
    PROVE  /\ n = [f \in AccField |-> n[f]]
           /\ n.starts = acc.starts /\ n.templates = acc.templates /\ n.unmatched = acc.unmatched
           /\ \E p : n.changes = Queue(acc.changes, "new", <<x.day, x.name>>, p)
    BY DEF See, AccField

\* What a start that is recognised changes.
Known(acc, x, i, n) ==
    /\ n = [f \in AccField |-> n[f]]
    /\ n.unmatched = acc.unmatched \ {i}
    /\ n.starts = [acc.starts EXCEPT ![i] = Refine(acc.starts[i], x, i)]
    /\ \/ n.templates = acc.templates
       \/ \E t : n.templates = [acc.templates EXCEPT ![t] =
                   RefineTemplate(acc.templates[t], acc.starts[i], x, i)]
    /\ \/ n.changes = acc.changes
       \/ \E p : n.changes = Queue(acc.changes, "changed", i, p)

LEMMA SeeKnown ==
    ASSUME NEW acc, acc = [f \in AccField |-> acc[f]], NEW x, NEW i, i # None
    PROVE  Known(acc, x, i, See(acc, x, i))
    <1>0. PICK n : n = See(acc, x, i)
        OBVIOUS
    <1> DEFINE s == acc.starts[i]
               t == IF s.detached THEN None ELSE s.tpl
               a == [acc.starts EXCEPT ![i] = Refine(s, x, i)]
               b == IF t = None THEN acc.templates
                    ELSE [acc.templates EXCEPT ![t] = RefineTemplate(acc.templates[t], s, x, i)]
               c == IF x.core = s.core THEN acc.changes
                    ELSE Queue(acc.changes, "changed", i,
                               [ours |-> s.core, lobby |-> x.core, seen |-> None])
    <1>4. n = [acc EXCEPT !.unmatched = acc.unmatched \ {i}, !.starts = a, !.templates = b,
                          !.changes = c]
        BY Zenon, <1>0 DEF See
    <1>2. /\ b = acc.templates \/ \E u : b = [acc.templates EXCEPT ![u] =
                                                RefineTemplate(acc.templates[u], s, x, i)]
          /\ c = acc.changes \/ \E p : c = Queue(acc.changes, "changed", i, p)
        OBVIOUS
    <1> HIDE DEF a, b, c
    <1>3. /\ n = [f \in AccField |-> n[f]]
          /\ n.unmatched = acc.unmatched \ {i} /\ n.starts = a /\ n.templates = b /\ n.changes = c
        BY <1>4 DEF AccField
    <1>5. Known(acc, x, i, n)
        BY <1>2, <1>3 DEF a, Known
    <1> QED  BY <1>0, <1>5

\* One entry of the lobby more.
LEMMA SeeKeeps ==
    ASSUME NEW acc, Kept(acc), NEW x, NEW i \in Identity \cup {None}, Recognised(acc, x, i),
           NEW n, n = See(acc, x, i)
    PROVE  Kept(n) /\ n.unmatched \subseteq acc.unmatched
    <1>0. acc = [f \in AccField |-> acc[f]] /\ IsLedger(acc.changes)
        BY DEF Kept, Undecided
    <1>1. CASE i = None
        <2>1. /\ n = [f \in AccField |-> n[f]]
              /\ n.starts = acc.starts /\ n.templates = acc.templates /\ n.unmatched = acc.unmatched
              /\ \E p : n.changes = Queue(acc.changes, "new", <<x.day, x.name>>, p)
            BY <1>0, <1>1, SeeUnknown
        <2>2. Undecided(acc.changes, n.changes)
            BY <1>0, <2>1, QueueDecidesNothing
        <2>3. Undecided(changes, n.changes)
            BY <2>2, StillUndecided DEF Kept
        <2> QED  BY <2>1, <2>3 DEF Kept
    <1>2. CASE i # None
        <2>1. Known(acc, x, i, n)
            BY <1>0, <1>2, SeeKnown
        <2> USE DEF Known
        <2>2. /\ i \in Identity /\ i \in acc.unmatched
              /\ starts[i] # NoStart /\ IsStart(acc.starts[i])
            BY <1>2 DEF Recognised, Best, Candidates, Kept, InWindow, Window, Refined, IsView
        <2>3. Undecided(changes, n.changes)
            <3>1. Undecided(acc.changes, n.changes)
                BY <1>0, <2>1, QueueDecidesNothing, NothingDecided
            <3> QED  BY <3>1, StillUndecided DEF Kept
        <2>4. IsTable(n.templates)
            <3>1. IsTable(acc.templates)
                BY DEF Kept
            <3>2. ASSUME NEW t, n.templates = [acc.templates EXCEPT ![t] =
                             RefineTemplate(acc.templates[t], acc.starts[i], x, i)]
                  PROVE  IsTable(n.templates)
                <4>1. PICK r : r = RefineTemplate(acc.templates[t], acc.starts[i], x, i)
                    OBVIOUS
                <4>2. t \in Templates => r = NoTemplate \/ IsRow(r)
                    BY <3>1, <4>1, RefinedTemplate DEF IsTable
                <4>3. n.templates = [acc.templates EXCEPT ![t] = r]
                    BY <3>2, <4>1
                <4> QED  BY <3>1, <4>2, <4>3 DEF IsTable
            <3> QED  BY <2>1, <3>1, <3>2
        <2>5. Refined(n.starts)
            <3>1. PICK r : r = Refine(acc.starts[i], x, i)
                OBVIOUS
            <3>2. /\ IsStart(r)
                  /\ r.tpl = acc.starts[i].tpl /\ r.detached = acc.starts[i].detached
                  /\ r.status = acc.starts[i].status
                BY <2>2, <3>1, RefinedRow
            <3>3. n.starts = [acc.starts EXCEPT ![i] = r] /\ Refined(acc.starts)
                BY <2>1, <3>1 DEF Kept
            <3> QED  BY <2>2, <3>2, <3>3, RowsAreThere DEF Refined, IsView
        <2> QED  BY <2>1, <2>3, <2>4, <2>5 DEF Kept
    <1> QED  BY <1>1, <1>2

\* The entry itself passes over a start it names only for one that bears the name.
LEMMA SeePasses ==
    ASSUME NEW acc, Kept(acc), NEW x, NEW i \in Identity \cup {None},
           Recognised(acc, x, i), NEW n, n = See(acc, x, i)
    PROVE  Passed(n, x)
    <1>0. acc = [f \in AccField |-> acc[f]]
        BY DEF Kept
    <1> SUFFICES ASSUME NEW j \in n.unmatched, x.day = j[1], x.name = j[2]
                 PROVE  \E k \in InWindow(now) \ n.unmatched :
                            k # j /\ k[1] = j[1] /\ n.starts[k].lobby = j[2]
        BY DEF Passed
    <1>1. n.unmatched \subseteq acc.unmatched
        BY SeeKeeps
    <1>2. j \in Candidates(acc, x) /\ j \in Identity
        BY <1>1 DEF Candidates, Kept, InWindow, Window
    <1>3. Score(j, acc.starts[j], x) \in {2, 3}
        BY DEF Score
    <1>4. i # None
        BY <1>2, <1>3 DEF Recognised
    <1>5. /\ i \in Candidates(acc, x) /\ i \in Identity
          /\ Score(j, acc.starts[j], x) <= Score(i, acc.starts[i], x)
        BY <1>2, <1>4 DEF Recognised, Best
    <1>6. x.name \in {i[2], acc.starts[i].lobby}
        BY <1>3, <1>5 DEF Score
    <1>7. /\ n.unmatched = acc.unmatched \ {i}
          /\ n.starts = [acc.starts EXCEPT ![i] = Refine(acc.starts[i], x, i)]
        <2>1. Known(acc, x, i, n)
            BY <1>0, <1>4, SeeKnown
        <2> QED  BY <2>1 DEF Known
    <1>8. i # j /\ i[1] = x.day /\ i \in InWindow(now)
        BY <1>5, <1>7 DEF Candidates, Kept
    <1>9. i[2] # j[2]
        BY <1>2, <1>5, <1>8 DEF Identity
    <1>10. x.name = acc.starts[i].lobby
        BY <1>6, <1>9
    <1>11. IsStart(acc.starts[i])
        BY <1>5, <1>8 DEF Kept, Refined, IsView, InWindow
    <1>12. n.starts[i].lobby = x.name
        <2>1. PICK r : r = Refine(acc.starts[i], x, i)
            OBVIOUS
        <2>2. r.lobby = x.name
            BY <1>10, <1>11, <2>1, RefinedRow
        <2>3. n.starts = [acc.starts EXCEPT ![i] = r]
            BY <1>7, <2>1
        <2> QED  BY <1>5, <2>2, <2>3 DEF Kept, Refined, IsView
    <1> QED  BY <1>7, <1>8, <1>12

\* What was passed over stays so: a start that was recognised is not seen again.
LEMMA PassedStays ==
    ASSUME NEW acc, Kept(acc), NEW x, NEW i \in Identity \cup {None}, Recognised(acc, x, i),
           NEW n, n = See(acc, x, i), NEW y, Passed(acc, y)
    PROVE  Passed(n, y)
    <1>0. acc = [f \in AccField |-> acc[f]]
        BY DEF Kept
    <1>1. n.unmatched \subseteq acc.unmatched
        BY SeeKeeps
    <1>2. ASSUME NEW j \in InWindow(now) \ acc.unmatched
          PROVE  n.starts[j] = acc.starts[j]
        <2>1. CASE i = None
            BY <1>0, <2>1, SeeUnknown
        <2>2. CASE i # None
            <3>1. i # j
                BY <2>2 DEF Recognised, Best, Candidates
            <3>2. n.starts = [acc.starts EXCEPT ![i] = Refine(acc.starts[i], x, i)]
                <4>1. Known(acc, x, i, n)
                    BY <1>0, <2>2, SeeKnown
                <4> QED  BY <4>1 DEF Known
            <3> QED  BY <3>1, <3>2 DEF Kept, Refined, IsView, InWindow, Window
        <2> QED  BY <2>1, <2>2
    <1> QED  BY <1>1, <1>2 DEF Passed

\* Where the walk is after k entries.
Reached(acc, lobby, k) == Kept(acc) /\ \A l \in 1..k : Passed(acc, lobby[l])

LEMMA UnseenIsKept ==
    ASSUME IInv, IsLedger(changes)
    PROVE  Kept(Unseen)
    <1>1. PICK n : n = Unseen
        OBVIOUS
    <1>2. /\ n = [f \in AccField |-> n[f]]
          /\ n.starts = starts /\ n.templates = templates /\ n.changes = changes
          /\ n.unmatched = InWindow(now)
        BY <1>1 DEF Unseen, AccField
    <1>3. Undecided(changes, changes)
        BY NothingDecided
    <1>4. Refined(starts) /\ IsTable(templates)
        BY DEF IInv, Shape, Refined
    <1>5. Kept(n)
        BY <1>2, <1>3, <1>4 DEF Kept
    <1> QED  BY <1>1, <1>5

\* The whole walk.
LEMMA WalkKeeps ==
    ASSUME IInv, IsLedger(changes), NEW lobby, Len(lobby) \in Nat, DOMAIN lobby = 1..Len(lobby),
           NEW match \in [DOMAIN lobby -> Identity \cup {None}],
           NEW acc, Walk(acc, Len(lobby), lobby, match),
           \A k \in DOMAIN lobby : Recognised(acc[k - 1], lobby[k], match[k])
    PROVE  Reached(acc[Len(lobby)], lobby, Len(lobby))
    <1> DEFINE T == {k \in 0..Len(lobby) : ~Reached(acc[k], lobby, k)}
    <1> SUFFICES ASSUME T # {}
                 PROVE  FALSE
        OBVIOUS
    <1>1. PICK m \in T : \A k \in T : m <= k
        <2>1. T \in SUBSET Nat
            OBVIOUS
        <2> HIDE DEF T
        <2> QED  BY <2>1, LeastOf
    <1>2. m # 0
        <2>1. acc[0] = Unseen
            BY DEF Walk
        <2>2. Reached(acc[0], lobby, 0)
            BY <2>1, UnseenIsKept DEF Reached
        <2> QED  BY <2>2
    <1>3. /\ m - 1 \in 0..Len(lobby) /\ m \in DOMAIN lobby /\ m - 1 \notin T
          /\ match[m] \in Identity \cup {None}
        BY <1>1, <1>2
    <1>4. PICK a, x, i, n : a = acc[m - 1] /\ x = lobby[m] /\ i = match[m] /\ n = acc[m]
        OBVIOUS
    <1>5. n = See(a, x, i) /\ Recognised(a, x, i) /\ i \in Identity \cup {None}
        BY <1>2, <1>3, <1>4 DEF Walk
    <1>6. Kept(a) /\ \A l \in 1..(m - 1) : Passed(a, lobby[l])
        BY <1>3, <1>4 DEF Reached
    <1>7. Kept(n) /\ Passed(n, x)
        BY <1>5, <1>6, SeeKeeps, SeePasses
    <1>8. \A l \in 1..(m - 1) : Passed(n, lobby[l])
        BY <1>5, <1>6, PassedStays
    <1>9. \A l \in 1..m : Passed(n, lobby[l])
        <2>1. ASSUME NEW l \in 1..m
              PROVE  Passed(n, lobby[l])
            <3>1. l = m \/ l \in 1..(m - 1)
                BY <1>3
            <3> QED  BY <1>4, <1>7, <1>8, <3>1
        <2> QED  BY <2>1
    <1>10. Reached(acc[m], lobby, m)
        BY <1>4, <1>7, <1>9 DEF Reached
    <1> QED  BY <1>1, <1>10

-----------------------------------------------------------------------------
(* The rows of the schedule beside the collector.                             *)

\* A step of the collector that takes no start away keeps what Schedule keeps.
LEMMA BesideKeeps ==
    ASSUME IInv, Overlaps, UNCHANGED <<now, bells, mem, lost, strays>>,
           IsTable(templates'), IsView(starts'),
           \A i \in Identity :
             \/ starts[i] # NoStart /\ starts'[i] # NoStart /\ starts'[i].tpl = starts[i].tpl
                /\ starts'[i].detached = starts[i].detached
             \/ starts'[i] # NoStart /\ starts'[i].tpl = None /\ starts'[i].detached
                /\ starts[i] = NoStart
             \/ starts[i] = NoStart /\ starts'[i] = NoStart
    PROVE  IInv'
    <1> USE DEF IInv, Shape
    <1>1. Shape'
        BY DEF Overlaps
    <1>2. ASSUME NEW k \in Handlers
          PROVE  MemoryOK(mem[k], lost[k], overlap[k], templates, starts, now)'
        <2>1. MemoryOK(mem[k], lost[k], overlap[k], templates, starts, now)
            BY DEF Memories
        <2>2. overlap'[k] = (overlap[k] \/ Busy(k))
            BY DEF Overlaps
        <2>3. SeenStays(mem[k], lost[k].s, starts')
            BY <2>1 DEF MemoryOK, SeenStays
        <2>4. CASE Busy(k)
            BY <2>1, <2>2, <2>3, <2>4 DEF MemoryOK
        <2>5. CASE ~Busy(k)
            BY <2>1, <2>2, <2>5, IdleMemory DEF MemoryOK, Busy
        <2> QED  BY <2>4, <2>5
    <1>3. Within(starts', now')
        BY DEF Within
    <1>4. BellsHang(starts', bells')
        <2>1. \A b \in Identity \X Kinds : b[1] \in Identity
            OBVIOUS
        <2> QED  BY <2>1 DEF BellsHang
    <1>5. StrayOnlyByRace'
        BY DEF StrayOnlyByRace, Live
    <1> QED  BY <1>1, <1>2, <1>3, <1>4, <1>5 DEF Memories

-----------------------------------------------------------------------------
(* The inductive invariant.                                                   *)

\* A manager decides on a difference that is in the queue.
Choices ==
    /\ deciding = [m \in Managers |-> deciding[m]]
    /\ \A m \in Managers : Open(m) =>
          /\ deciding[m].change \in Changes /\ changes[deciding[m].change] # NoChange
          /\ deciding[m].verdict \in {"applied", "dismissed"}

\* A difference that waits has no verdict; one that was not raced has one at
\* most, and nobody decides on it once it has.
OneDecision(r, c) ==
    /\ r.status = "pending" => r.verdicts = {}
    /\ ~r.raced =>
          /\ r.verdicts = {} \/ \E v : r.verdicts = {v}
          /\ \A m \in Managers : Open(m) /\ deciding[m].change = c => r.status = "pending"

Decisions == \A c \in Changes : changes[c] # NoChange => OneDecision(changes[c], c)

QueueOK == IsLedger(changes) /\ Choices /\ Decisions

CInv == IInv /\ QueueOK

LEMMA CInitial == CInit => CInv
    <1> SUFFICES ASSUME CInit
                 PROVE  CInv
        OBVIOUS
    <1>1. IInv
        BY Initial DEF CInit
    <1>2. IsLedger(changes) /\ Decisions
        BY DEF CInit, IsLedger, Decisions
    <1>3. Choices
        BY DEF CInit, Choices, Open
    <1> QED  BY <1>1, <1>2, <1>3 DEF CInv, QueueOK

\* Work that decides nothing, while no manager reads or decides.
LEMMA QueueStays ==
    ASSUME QueueOK, Undecided(changes, changes'), deciding' = deciding
    PROVE  QueueOK'
    <1>1. IsLedger(changes')
        BY DEF Undecided
    <1>2. \A m \in Managers : Open(m)' <=> Open(m)
        BY DEF Open
    <1>3. ASSUME NEW c \in Changes
          PROVE  /\ changes[c] # NoChange => changes'[c] # NoChange
                 /\ changes'[c] # NoChange => OneDecision(changes[c], c)'
        <2>1. Follows(changes[c], changes'[c])
            BY DEF Undecided
        <2>2. CASE Asked(changes'[c])
            BY <2>2, ChangesAreThere DEF Asked, OneDecision
        <2>3. CASE changes[c] = NoChange /\ changes'[c] = NoChange
            BY <2>3
        <2>4. CASE /\ IsChange(changes[c]) /\ IsChange(changes'[c])
                   /\ changes'[c].status = changes[c].status
                   /\ changes'[c].verdicts = changes[c].verdicts
                   /\ changes'[c].raced = changes[c].raced
            <3>1. OneDecision(changes[c], c)
                BY <2>4, ChangesAreThere DEF QueueOK, Decisions
            <3>2. OneDecision(changes[c], c)'
                BY <1>2, <2>4, <3>1 DEF OneDecision
            <3> QED  BY <2>4, <3>2, ChangesAreThere
        <2> QED  BY <2>1, <2>2, <2>3, <2>4 DEF Follows
    <1>4. Choices'
        BY <1>2, <1>3 DEF QueueOK, Choices
    <1> QED  BY <1>1, <1>3, <1>4 DEF QueueOK, Decisions

\* The reading of a difference, before a decision (_pending).
LEMMA PendingKeeps ==
    ASSUME QueueOK, NEW m \in Managers, PendingChange(m)
    PROVE  QueueOK'
    <1>1. PICK c \in Queued(changes), verdict \in {"applied", "dismissed"} :
            /\ changes[c].status = "pending"
            /\ deciding' = [deciding EXCEPT ![m] =
                  [change |-> c, payload |-> changes[c].payload, verdict |-> verdict]]
            /\ changes' = changes
        BY DEF PendingChange
    <1> DEFINE d == [change |-> c, payload |-> changes[c].payload, verdict |-> verdict]
    <1>2. d.change = c /\ d.verdict = verdict
        OBVIOUS
    <1>3. deciding' = [deciding EXCEPT ![m] = d]
        BY <1>1
    <1> HIDE DEF d
    <1>4. c \in Changes /\ changes[c] # NoChange
        BY DEF Queued
    <1>5. \A k \in Managers \ {m} : deciding'[k] = deciding[k]
        BY <1>3 DEF QueueOK, Choices
    <1>6. deciding'[m] = d
        BY <1>3 DEF QueueOK, Choices
    <1>7. Choices'
        <2>1. deciding' = [k \in Managers |-> deciding'[k]]
            BY <1>3 DEF QueueOK, Choices
        <2>2. ASSUME NEW k \in Managers, Open(k)'
              PROVE  /\ deciding'[k].change \in Changes /\ changes'[deciding'[k].change] # NoChange
                     /\ deciding'[k].verdict \in {"applied", "dismissed"}
            <3>1. CASE k = m
                BY <1>1, <1>2, <1>4, <1>6, <3>1
            <3>2. CASE k # m
                BY <1>1, <1>5, <2>2, <3>2 DEF Open, QueueOK, Choices
            <3> QED  BY <3>1, <3>2
        <2> QED  BY <2>1, <2>2 DEF Choices
    <1>8. Decisions'
        <2> SUFFICES ASSUME NEW e \in Changes, changes[e] # NoChange
                     PROVE  OneDecision(changes[e], e)'
            BY <1>1 DEF Decisions
        <2>1. OneDecision(changes[e], e)
            BY DEF QueueOK, Decisions
        <2>2. ASSUME NEW k \in Managers, Open(k)', deciding'[k].change = e, ~changes[e].raced
              PROVE  changes[e].status = "pending"
            <3>1. CASE k = m
                BY <1>1, <1>2, <1>6, <2>2, <3>1
            <3>2. CASE k # m
                BY <1>5, <2>1, <2>2, <3>2 DEF Open, OneDecision
            <3> QED  BY <3>1, <3>2
        <2> QED  BY <1>1, <2>1, <2>2 DEF OneDecision
    <1> QED  BY <1>1, <1>7, <1>8 DEF QueueOK

\* A manager who is done decides nothing any more.
LEMMA DoneIsClosed ==
    ASSUME Choices, NEW m \in Managers, Decided(m)
    PROVE  /\ deciding' = [k \in Managers |-> deciding'[k]]
           /\ ~Open(m)'
           /\ \A k \in Managers \ {m} : deciding'[k] = deciding[k] /\ (Open(k)' <=> Open(k))
    BY DEF Decided, Choices, Open

\* A refused decision, or one that is rolled back.
LEMMA GivenUpKeeps ==
    ASSUME QueueOK, NEW m \in Managers, Decided(m), changes' = changes
    PROVE  QueueOK'
    <1>1. /\ deciding' = [k \in Managers |-> deciding'[k]]
          /\ ~Open(m)'
          /\ \A k \in Managers \ {m} : deciding'[k] = deciding[k] /\ (Open(k)' <=> Open(k))
        BY DoneIsClosed DEF QueueOK
    <1>2. \A k \in Managers : Open(k)' => Open(k) /\ deciding'[k] = deciding[k]
        BY <1>1
    <1>3. Choices'
        BY <1>1, <1>2 DEF QueueOK, Choices
    <1>4. Decisions'
        BY <1>2 DEF QueueOK, Decisions, OneDecision
    <1> QED  BY <1>3, <1>4 DEF QueueOK

\* A decision: the verdict is added, and the row is raced if another manager
\* was deciding on it (apply_change, dismiss_change).
LEMMA DecisionKeeps ==
    ASSUME QueueOK, NEW m \in Managers, Open(m), Decided(m),
           NEW c, c = deciding[m].change,
           \/ changes' = Decide(m)
           \/ changes' = [Decide(m) EXCEPT ![c].linked = TRUE]
    PROVE  QueueOK'
    <1> DEFINE r == changes[c]
               v == deciding[m].verdict
               raced == r.raced \/ \E k \in Managers \ {m} : Open(k) /\ deciding[k].change = c
               n == [r EXCEPT !.status = v, !.verdicts = r.verdicts \cup {v}, !.raced = raced]
               linked == [n EXCEPT !.linked = TRUE]
    <1>1. /\ c \in Changes /\ r # NoChange /\ IsChange(r) /\ v \in {"applied", "dismissed"}
          /\ OneDecision(r, c)
        BY DEF QueueOK, Choices, IsLedger, Decisions
    <1>2. /\ IsChange(n) /\ n.status = v /\ n.verdicts = r.verdicts \cup {v} /\ n.raced = raced
        BY <1>1 DEF IsChange, ChangeField
    <1>3. Decide(m) = [changes EXCEPT ![c] = n]
        BY Zenon DEF Decide
    <1> HIDE DEF raced, n
    <1>4. /\ IsChange(linked) /\ linked.status = v /\ linked.verdicts = r.verdicts \cup {v}
          /\ linked.raced = raced
        BY <1>2 DEF IsChange, ChangeField
    <1> HIDE DEF linked
    <1>5. PICK w : /\ changes' = [changes EXCEPT ![c] = w]
                   /\ IsChange(w) /\ w.status = v /\ w.verdicts = r.verdicts \cup {v}
                   /\ w.raced = raced
        <2>1. CASE changes' = Decide(m)
            BY <1>2, <1>3, <2>1
        <2>2. CASE changes' = [Decide(m) EXCEPT ![c].linked = TRUE]
            <3>1. changes' = [changes EXCEPT ![c] = linked]
                BY <1>1, <1>3, <2>2 DEF linked, QueueOK, IsLedger
            <3> QED  BY <1>4, <3>1
        <2> QED  BY <2>1, <2>2
    <1>6. /\ changes' = [k \in Changes |-> changes'[k]]
          /\ changes'[c] = w /\ \A e \in Changes \ {c} : changes'[e] = changes[e]
        BY <1>1, <1>5 DEF QueueOK, IsLedger
    <1>7. IsLedger(changes')
        BY <1>5, <1>6 DEF QueueOK, IsLedger
    <1>8. /\ deciding' = [k \in Managers |-> deciding'[k]]
          /\ ~Open(m)'
          /\ \A k \in Managers \ {m} : deciding'[k] = deciding[k] /\ (Open(k)' <=> Open(k))
        BY DoneIsClosed DEF QueueOK
    <1>9. \A k \in Managers : Open(k)' => k # m /\ Open(k) /\ deciding'[k] = deciding[k]
        BY <1>8
    <1>10. \A e \in Changes : changes[e] # NoChange => changes'[e] # NoChange
        BY <1>5, <1>6, ChangesAreThere
    <1>11. Choices'
        BY <1>8, <1>9, <1>10 DEF QueueOK, Choices
    <1>12. OneDecision(changes[c], c)'
        <2>1. w.status # "pending"
            BY <1>1, <1>5
        <2>2. ASSUME ~w.raced
              PROVE  /\ w.verdicts = {v}
                     /\ \A k \in Managers \ {m} : ~(Open(k) /\ deciding[k].change = c)
            <3>1. ~r.raced /\ \A k \in Managers \ {m} : ~(Open(k) /\ deciding[k].change = c)
                BY <1>5, <2>2 DEF raced
            <3>2. r.status = "pending" /\ r.verdicts = {}
                BY <1>1, <3>1 DEF OneDecision
            <3> QED  BY <1>5, <3>1, <3>2
        <2> QED  BY <1>6, <2>1, <2>2, <1>9 DEF OneDecision
    <1>13. ASSUME NEW e \in Changes \ {c}, changes'[e] # NoChange
           PROVE  OneDecision(changes[e], e)'
        <2>1. OneDecision(changes[e], e)
            BY <1>6, <1>13 DEF QueueOK, Decisions
        <2> QED  BY <1>6, <1>9, <2>1 DEF OneDecision
    <1> QED  BY <1>7, <1>11, <1>12, <1>13 DEF QueueOK, Decisions

-----------------------------------------------------------------------------
(* The steps.                                                                 *)

\* The start i of the schedule after a snapshot.
Cleared(seen, complete) ==
    [i \in Identity |->
        IF i \in seen.unmatched /\ complete /\ Cancellable(i)
          THEN [seen.starts[i] EXCEPT !.status = "cancelled"]
          ELSE seen.starts[i]]

SnapshotStep(lobby, complete, seen) ==
    /\ DOMAIN lobby = 1..Len(lobby)
    /\ Reached(seen, lobby, Len(lobby))
    /\ changes' = QueueMissing(seen.changes, seen.unmatched)
    /\ templates' = seen.templates
    /\ starts' = Cleared(seen, complete)
    /\ shown' = lobby

LEMMA SnapshotSteps ==
    ASSUME CInv, ingest_snapshot
    PROVE  \E lobby, complete, seen : SnapshotStep(lobby, complete, seen)
    <1>a. PICK lobby \in Lobbies, complete \in BOOLEAN :
            /\ shown' = lobby
            /\ \E match \in [DOMAIN lobby -> Identity \cup {None}] :
                  /\ \A k \in DOMAIN lobby :
                        Recognised(Ingested(lobby, match)[k - 1], lobby[k], match[k])
                  /\ changes' = QueueMissing(Ingested(lobby, match)[Len(lobby)].changes,
                                            Ingested(lobby, match)[Len(lobby)].unmatched)
                  /\ templates' = Ingested(lobby, match)[Len(lobby)].templates
                  /\ starts' = Cleared(Ingested(lobby, match)[Len(lobby)], complete)
        BY Zenon DEF ingest_snapshot, Cleared
    <1>1. PICK match \in [DOMAIN lobby -> Identity \cup {None}] :
            /\ \A k \in DOMAIN lobby :
                  Recognised(Ingested(lobby, match)[k - 1], lobby[k], match[k])
            /\ changes' = QueueMissing(Ingested(lobby, match)[Len(lobby)].changes,
                                      Ingested(lobby, match)[Len(lobby)].unmatched)
            /\ templates' = Ingested(lobby, match)[Len(lobby)].templates
            /\ starts' = Cleared(Ingested(lobby, match)[Len(lobby)], complete)
        BY Zenon, <1>a
    <1>2. Len(lobby) \in Nat /\ DOMAIN lobby = 1..Len(lobby)
        BY LobbiesAssumption
    <1>3. PICK acc : acc = Ingested(lobby, match)
        OBVIOUS
    <1>4. Walk(acc, Len(lobby), lobby, match)
        BY <1>2, <1>3, IngestedIsWalk
    <1>5. Reached(acc[Len(lobby)], lobby, Len(lobby))
        BY <1>1, <1>2, <1>3, <1>4, WalkKeeps DEF CInv, QueueOK
    <1>6. SnapshotStep(lobby, complete, acc[Len(lobby)])
        BY <1>a, <1>1, <1>2, <1>3, <1>5 DEF SnapshotStep
    <1> QED  BY <1>6

LEMMA SnapshotKeeps ==
    ASSUME CInv, ingest_snapshot
    PROVE  CInv'
    <1>1. PICK lobby, complete, seen : SnapshotStep(lobby, complete, seen)
        BY SnapshotSteps
    <1>2. /\ Overlaps /\ UNCHANGED <<now, bells, mem, lost, strays, deciding>>
        BY DEF ingest_snapshot
    <1>3. Kept(seen)
        BY <1>1 DEF SnapshotStep, Reached
    <1>4. Undecided(changes, changes')
        <2>1. Undecided(changes, seen.changes) /\ IsLedger(seen.changes)
            BY <1>3 DEF Kept, Undecided
        <2>2. Undecided(seen.changes, changes')
            BY <1>1, <2>1, QueueMissingDecidesNothing DEF SnapshotStep
        <2> QED  BY <2>1, <2>2, StillUndecided
    <1>5. IsView(starts)
        BY DEF CInv, IInv, Shape
    <1>6. starts' = Cleared(seen, complete) /\ IsTable(templates')
        BY <1>1, <1>3 DEF SnapshotStep, Kept
    <1>7. ASSUME NEW i \in Identity
          PROVE  /\ starts'[i] = NoStart \/ IsStart(starts'[i])
                 /\ starts[i] = NoStart => starts'[i] = NoStart
                 /\ starts[i] # NoStart => /\ starts'[i] # NoStart
                                           /\ starts'[i].tpl = starts[i].tpl
                                           /\ starts'[i].detached = starts[i].detached
        <2>1. PICK s : s = seen.starts[i]
            OBVIOUS
        <2>2. /\ s = NoStart \/ IsStart(s)
              /\ s = NoStart <=> starts[i] = NoStart
              /\ starts[i] # NoStart => s.tpl = starts[i].tpl /\ s.detached = starts[i].detached
            BY <1>3, <2>1 DEF Kept, Refined, IsView
        <2>3. starts'[i] = s \/ starts'[i] = [s EXCEPT !.status = "cancelled"]
            BY <1>6, <2>1 DEF Cleared
        <2>4. PICK n : n = [s EXCEPT !.status = "cancelled"]
            OBVIOUS
        <2>5. s = NoStart => n = NoStart
            BY <2>4 DEF NoStart
        <2>6. IsStart(s) => IsStart(n) /\ n.tpl = s.tpl /\ n.detached = s.detached
            BY <2>4 DEF IsStart, StartField
        <2> QED  BY <2>2, <2>3, <2>4, <2>5, <2>6, RowsAreThere
    <1>8. IsView(starts')
        BY <1>6, <1>7 DEF IsView, Cleared
    <1>9. IInv'
        BY <1>2, <1>6, <1>7, <1>8, BesideKeeps DEF CInv
    <1>10. QueueOK'
        BY <1>2, <1>4, QueueStays DEF CInv
    <1> QED  BY <1>9, <1>10 DEF CInv

\* One column of some starts is written.
Column(S, f, value) ==
    [i \in Identity |-> IF i \in S THEN [starts[i] EXCEPT ![f] = value] ELSE starts[i]]

LEMMA ColumnWritten ==
    ASSUME IInv, NEW S, NEW f \in {"core", "status"}, NEW value,
           NEW view, view = Column(S, f, value)
    PROVE  /\ IsView(view)
           /\ \A i \in Identity :
                 \/ /\ starts[i] # NoStart /\ view[i] # NoStart /\ view[i].tpl = starts[i].tpl
                    /\ view[i].detached = starts[i].detached
                 \/ starts[i] = NoStart /\ view[i] = NoStart
    <1>1. ASSUME NEW i \in Identity
          PROVE  \/ /\ IsStart(starts[i]) /\ IsStart(view[i]) /\ view[i].tpl = starts[i].tpl
                    /\ view[i].detached = starts[i].detached
                 \/ starts[i] = NoStart /\ view[i] = NoStart
        <2>1. PICK s, n : s = starts[i] /\ n = [s EXCEPT ![f] = value]
            OBVIOUS
        <2>2. s = NoStart => n = NoStart
            BY <2>1 DEF NoStart
        <2>3. IsStart(s) => IsStart(n) /\ n.tpl = s.tpl /\ n.detached = s.detached
            BY <2>1 DEF IsStart, StartField
        <2>4. view[i] = n \/ view[i] = s
            BY <2>1 DEF Column
        <2>5. s = NoStart \/ IsStart(s)
            BY <2>1 DEF IInv, Shape, IsView
        <2> QED  BY <2>1, <2>2, <2>3, <2>4, <2>5
    <1> QED  BY <1>1, RowsAreThere DEF IsView, Column

LEMMA DismissKeeps ==
    ASSUME CInv, NEW m \in Managers, dismiss_change(m)
    PROVE  CInv'
    <1>1. QueueOK'
        BY DecisionKeeps DEF dismiss_change, CInv
    <1>2. [Next]_vars
        BY DEF dismiss_change
    <1> QED  BY <1>1, <1>2, Invariance DEF CInv

LEMMA ApplyNewKeeps ==
    ASSUME CInv, NEW m \in Managers, apply_new(m)
    PROVE  CInv'
    <1>1. /\ Open(m) /\ Decided(m) /\ Overlaps
          /\ UNCHANGED <<now, templates, bells, mem, lost, strays>>
        BY DEF apply_new, Applying
    <1>2. PICK c, i, x :
            /\ c = deciding[m].change /\ i = changes[c].at
            /\ \/ starts[i] # NoStart /\ UNCHANGED <<starts, changes>>
               \/ /\ starts[i] = NoStart
                  /\ starts' = [starts EXCEPT ![i] =
                        [tpl |-> None, core |-> x.core, late |-> x.late, lobby |-> None,
                         detached |-> TRUE, status |-> "scheduled"]]
                  /\ changes' = [Decide(m) EXCEPT ![c].linked = TRUE]
        BY Zenon DEF apply_new
    <1>3. QueueOK'
        BY <1>1, <1>2, DecisionKeeps, GivenUpKeeps DEF CInv
    <1>4. IsView(starts) /\ IsTable(templates')
        BY <1>1 DEF CInv, IInv, Shape
    <1>5. CASE UNCHANGED starts
        <2>1. \A j \in Identity :
                \/ starts[j] # NoStart /\ starts'[j] # NoStart /\ starts'[j].tpl = starts[j].tpl
                   /\ starts'[j].detached = starts[j].detached
                \/ starts[j] = NoStart /\ starts'[j] = NoStart
            BY <1>5
        <2> QED  BY <1>1, <1>3, <1>4, <1>5, <2>1, BesideKeeps DEF CInv
    <1>6. CASE ~UNCHANGED starts
        <2> DEFINE s == [tpl |-> None, core |-> x.core, late |-> x.late, lobby |-> None,
                         detached |-> TRUE, status |-> "scheduled"]
        <2>1. starts[i] = NoStart /\ starts' = [starts EXCEPT ![i] = s]
            BY <1>2, <1>6
        <2>2. IsStart(s) /\ s.tpl = None /\ s.detached
            BY DEF IsStart, StartField
        <2> HIDE DEF s
        <2>3. IsView(starts')
            BY <1>4, <2>1, <2>2 DEF IsView
        <2>4. \A j \in Identity :
                \/ /\ starts[j] # NoStart /\ starts'[j] # NoStart /\ starts'[j].tpl = starts[j].tpl
                   /\ starts'[j].detached = starts[j].detached
                \/ /\ starts'[j] # NoStart /\ starts'[j].tpl = None /\ starts'[j].detached
                   /\ starts[j] = NoStart
                \/ starts[j] = NoStart /\ starts'[j] = NoStart
            BY <1>4, <2>1, <2>2, RowsAreThere DEF IsView
        <2> QED  BY <1>1, <1>3, <1>4, <2>3, <2>4, BesideKeeps DEF CInv
    <1> QED  BY <1>5, <1>6

LEMMA ApplyMissingKeeps ==
    ASSUME CInv, NEW m \in Managers, apply_missing(m)
    PROVE  CInv'
    <1>1. /\ Open(m) /\ Decided(m) /\ Overlaps /\ changes' = Decide(m)
          /\ UNCHANGED <<now, templates, bells, mem, lost, strays>>
        BY DEF apply_missing, Applying
    <1>2. QueueOK'
        BY <1>1, DecisionKeeps DEF CInv
    <1>3. IsView(starts) /\ IsTable(templates')
        BY <1>1 DEF CInv, IInv, Shape
    <1>4. \E S : starts' = Column(S, "status", "cancelled")
        <2>1. PICK at : starts' = [starts EXCEPT ![at].status = "cancelled"] \/ starts' = starts
            BY DEF apply_missing
        <2>2. starts = [i \in Identity |-> starts[i]]
            BY <1>3 DEF IsView
        <2>3. CASE starts' = starts
            <3>1. starts' = Column({}, "status", "cancelled")
                BY <2>2, <2>3 DEF Column
            <3> QED  BY Zenon, <3>1
        <2>4. CASE starts' = [starts EXCEPT ![at].status = "cancelled"]
            <3>1. starts' = Column({at}, "status", "cancelled")
                BY <2>2, <2>4 DEF Column
            <3> QED  BY Zenon, <3>1
        <2> QED  BY <2>1, <2>3, <2>4
    <1>5. /\ IsView(starts')
          /\ \A i \in Identity :
                 \/ /\ starts[i] # NoStart /\ starts'[i] # NoStart /\ starts'[i].tpl = starts[i].tpl
                    /\ starts'[i].detached = starts[i].detached
                 \/ starts[i] = NoStart /\ starts'[i] = NoStart
        BY <1>4, ColumnWritten DEF CInv
    <1> QED  BY <1>1, <1>2, <1>3, <1>5, BesideKeeps DEF CInv

LEMMA ApplyChangedKeeps ==
    ASSUME CInv, NEW m \in Managers, apply_changed(m)
    PROVE  CInv'
    <1>1. /\ Open(m) /\ Decided(m) /\ Overlaps
          /\ UNCHANGED <<now, bells, mem, lost, strays>>
        BY DEF apply_changed, Applying
    <1>2. PICK i, value :
            \/ UNCHANGED <<starts, templates, changes>>
            \/ /\ starts' = [j \in Identity |-> IF j \in Affected(i) THEN [starts[j] EXCEPT !.core = value]
                                                ELSE starts[j]]
               /\ templates' = [t \in Templates |->
                     IF t = starts[i].tpl /\ ~starts[i].detached
                       THEN [templates[t] EXCEPT !.core = value] ELSE templates[t]]
               /\ changes' = Decide(m)
        <2> DEFINE at == changes[deciding[m].change].at
                   new == deciding[m].payload.lobby
        <2>1. CASE ~changes[deciding[m].change].linked
            BY Zenon, <2>1 DEF apply_changed
        <2>2. CASE changes[deciding[m].change].linked
            <3>1. /\ starts' = [j \in Identity |-> IF j \in Affected(at) THEN [starts[j] EXCEPT !.core = new]
                                                   ELSE starts[j]]
                  /\ templates' = [t \in Templates |->
                        IF t = starts[at].tpl /\ ~starts[at].detached
                          THEN [templates[t] EXCEPT !.core = new] ELSE templates[t]]
                  /\ changes' = Decide(m)
                BY Zenon, <2>2 DEF apply_changed
            <3> QED  BY Zenon, <3>1
        <2> QED  BY Zenon, <2>1, <2>2
    <1>3. QueueOK'
        BY <1>1, <1>2, DecisionKeeps, GivenUpKeeps DEF CInv
    <1>4. IsView(starts) /\ IsTable(templates)
        BY DEF CInv, IInv, Shape
    <1>5. CASE UNCHANGED <<starts, templates, changes>>
        <2>1. \A j \in Identity :
                \/ starts[j] # NoStart /\ starts'[j] # NoStart /\ starts'[j].tpl = starts[j].tpl
                   /\ starts'[j].detached = starts[j].detached
                \/ starts[j] = NoStart /\ starts'[j] = NoStart
            BY <1>5
        <2> QED  BY <1>1, <1>3, <1>4, <1>5, <2>1, BesideKeeps DEF CInv
    <1>6. CASE ~UNCHANGED <<starts, templates, changes>>
        <2>1. /\ IsView(starts')
              /\ \A j \in Identity :
                     \/ /\ starts[j] # NoStart /\ starts'[j] # NoStart /\ starts'[j].tpl = starts[j].tpl
                        /\ starts'[j].detached = starts[j].detached
                     \/ starts[j] = NoStart /\ starts'[j] = NoStart
            <3>1. PICK S : S = Affected(i)
                OBVIOUS
            <3>2. starts' = Column(S, "core", value)
                BY <1>2, <1>6, <3>1 DEF Column
            <3> QED  BY <3>2, ColumnWritten DEF CInv
        <2>2. IsTable(templates')
            <3>1. ASSUME NEW t \in Templates
                  PROVE  templates'[t] = NoTemplate \/ IsRow(templates'[t])
                <4>1. templates'[t] = templates[t] \/ templates'[t] = [templates[t] EXCEPT !.core = value]
                    BY <1>2, <1>6
                <4>2. templates[t] = NoTemplate \/ IsRow(templates[t])
                    BY <1>4 DEF IsTable
                <4>3. PICK r : r = [templates[t] EXCEPT !.core = value]
                    OBVIOUS
                <4>4. r = NoTemplate \/ IsRow(r)
                    BY <4>2, <4>3, RefinedTemplate
                <4> QED  BY <4>1, <4>2, <4>3, <4>4
            <3> QED  BY <1>2, <1>6, <3>1 DEF IsTable
        <2> QED  BY <1>1, <1>3, <2>1, <2>2, BesideKeeps DEF CInv
    <1> QED  BY <1>5, <1>6

LEMMA CInvariance == CInv /\ [CNext]_<<vars, cvars>> => CInv'
    <1> SUFFICES ASSUME CInv, [CNext]_<<vars, cvars>>
                 PROVE  CInv'
        OBVIOUS
    <1>1. CASE /\ Tick \/ \E h \in Handlers : ScheduleWork(h)
               /\ changes' = Unlinked(changes, starts')
               /\ deciding' = deciding
        <2>1. [Next]_vars
            BY <1>1 DEF Next, Work, ScheduleWork
        <2>2. \A c \in Changes : \/ changes'[c] = changes[c]
                                 \/ changes'[c] = [changes[c] EXCEPT !.linked = FALSE]
            BY <1>1 DEF Unlinked
        <2>3. \A c \in Changes : Follows(changes[c], changes'[c])
            BY <2>2, Reworded DEF CInv, QueueOK, IsLedger
        <2>4. changes' = [c \in Changes |-> changes'[c]]
            BY <1>1 DEF Unlinked
        <2>5. Undecided(changes, changes')
            BY <2>3, <2>4, LedgerOf
        <2> QED  BY <1>1, <2>1, <2>5, Invariance, QueueStays DEF CInv
    <1>2. CASE start_run \/ finish_run \/ UNCHANGED <<vars, cvars>>
        <2>1. UNCHANGED <<vars, changes, deciding>>
            BY <1>2 DEF start_run, finish_run, cvars
        <2>2. Undecided(changes, changes')
            BY <2>1, NothingDecided DEF CInv, QueueOK
        <2> QED  BY <2>1, <2>2, Invariance, QueueStays DEF CInv
    <1>3. CASE ingest_snapshot
        BY <1>3, SnapshotKeeps
    <1>4. ASSUME NEW m \in Managers,
                 \/ PendingChange(m) \/ dismiss_change(m)
                 \/ apply_new(m) \/ apply_missing(m) \/ apply_changed(m)
          PROVE  CInv'
        <2>1. CASE PendingChange(m)
            <3>1. UNCHANGED vars
                BY <2>1 DEF PendingChange
            <3> QED  BY <2>1, <3>1, Invariance, PendingKeeps DEF CInv
        <2> QED  BY <1>4, <2>1, DismissKeeps, ApplyNewKeeps, ApplyMissingKeeps, ApplyChangedKeeps
    <1> QED  BY <1>1, <1>2, <1>3, <1>4 DEF CNext

LEMMA CInvariant == CSpec => []CInv
    BY CInitial, CInvariance, PTL DEF CSpec

-----------------------------------------------------------------------------
(* The results.                                                               *)

\* A difference gets one verdict, unless two managers were deciding on it at
\* once (_pending, apply_change, dismiss_change): however many managers there
\* are, whatever the lobbies show and the schedule does meanwhile.
THEOREM OneVerdictHolds == CSpec => []OneVerdict
    <1>1. ASSUME CInv
          PROVE  OneVerdict
        <2> SUFFICES ASSUME NEW c \in Changes, changes[c] # NoChange, ~changes[c].raced
                     PROVE  ~(Cardinality(changes[c].verdicts) > 1)
            BY DEF OneVerdict, Queued
        <2>1. changes[c].verdicts = {} \/ \E v : changes[c].verdicts = {v}
            BY <1>1 DEF CInv, QueueOK, Decisions, OneDecision
        <2>2. Cardinality(changes[c].verdicts) \in {0, 1}
            BY <2>1, FS_EmptySet, FS_Singleton
        <2> QED  BY <2>2
    <1>2. CInv => OneVerdict
        BY <1>1
    <1> QED  BY <1>2, CInvariant, PTL

\* A snapshot takes off no start beyond the horizon of the lobby, and of those
\* the lobby names only what it takes another start of the name for
\* (ingest_snapshot).
THEOREM CancelsTheMissing == CSpec => CancelsOnlyTheMissing
    <1> DEFINE Missing == ingest_snapshot =>
        \A i \in Live(starts) :
            starts[i].status = "scheduled" /\ starts'[i].status = "cancelled" =>
                /\ i[1] <= now + Near
                /\ \A k \in DOMAIN shown' : shown'[k].day = i[1] /\ shown'[k].name = i[2] =>
                     \E j \in Identity \ {i} :
                        /\ j[1] = i[1] /\ starts'[j].status = "scheduled"
                        /\ starts'[j].lobby = i[2]
    <1>1. ASSUME CInv
          PROVE  Missing
        <2> SUFFICES ASSUME ingest_snapshot, NEW i \in Live(starts),
                            starts[i].status = "scheduled", starts'[i].status = "cancelled"
                     PROVE  /\ i[1] <= now + Near
                            /\ \A k \in DOMAIN shown' : shown'[k].day = i[1] /\ shown'[k].name = i[2] =>
                                 \E j \in Identity \ {i} :
                                    /\ j[1] = i[1] /\ starts'[j].status = "scheduled"
                                    /\ starts'[j].lobby = i[2]
            OBVIOUS
        <2>1. PICK lobby, complete, seen : SnapshotStep(lobby, complete, seen)
            BY <1>1, SnapshotSteps
        <2>2. /\ Kept(seen) /\ shown' = lobby /\ \A k \in DOMAIN lobby : Passed(seen, lobby[k])
              /\ starts' = Cleared(seen, complete)
            BY <2>1 DEF SnapshotStep, Reached
        <2>3. i \in Identity /\ starts[i] # NoStart
            BY DEF Live
        <2>4. seen.starts[i].status = "scheduled"
            BY <2>2, <2>3 DEF Kept, Refined
        <2>5. i \in seen.unmatched /\ Cancellable(i)
            BY <2>2, <2>3, <2>4 DEF Cleared
        <2>6. ASSUME NEW k \in DOMAIN lobby, lobby[k].day = i[1], lobby[k].name = i[2]
              PROVE  \E j \in Identity \ {i} :
                        /\ j[1] = i[1] /\ starts'[j].status = "scheduled"
                        /\ starts'[j].lobby = i[2]
            <3>1. PICK j \in InWindow(now) \ seen.unmatched :
                    j # i /\ j[1] = i[1] /\ seen.starts[j].lobby = i[2]
                BY <2>2, <2>5, <2>6 DEF Passed
            <3>2. j \in Identity /\ starts[j] # NoStart /\ starts[j].status = "scheduled"
                BY DEF InWindow, Window
            <3>3. starts'[j] = seen.starts[j]
                BY <2>2, <3>2 DEF Cleared
            <3>4. seen.starts[j].status = "scheduled"
                BY <2>2, <3>2 DEF Kept, Refined
            <3> QED  BY <3>1, <3>2, <3>3, <3>4
        <2> QED  BY <2>2, <2>5, <2>6 DEF Cancellable
    <1>2. CInv /\ [CNext]_<<vars, cvars>> => [Missing]_<<vars, cvars>>
        BY <1>1
    <1> QED  BY <1>2, CInvariant, PTL DEF CSpec, CancelsOnlyTheMissing

\* A start of the grid loses its template to a race only, beside the collector
\* too: its snapshots and the managers' decisions keep what Schedule keeps.
THEOREM StraysBesideCollector == CSpec => []StrayOnlyByRace
    <1>1. CInv => StrayOnlyByRace
        BY DEF CInv, IInv
    <1> QED  BY <1>1, CInvariant, PTL
=============================================================================
