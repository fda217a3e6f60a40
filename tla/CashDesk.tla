------------------------------ MODULE CashDesk ------------------------------
(***************************************************************************)
(* The cash games players see (services/cash, picks): the collector sends   *)
(* the whole list of a club's limits at a time, the editor picks some of    *)
(* them, and a pick whose limit the collector does not see is shown as a    *)
(* line of its own.                                                         *)
(***************************************************************************)
EXTENDS Integers, FiniteSets, Sequences

CONSTANTS
    None,       \* NULL
    Runs,       \* snapshots in flight, each of a run of its own
    Limits,     \* game and blinds of one club, the key of cash_games
    GameOf,     \* the game of a limit
    PickSeq,    \* editor_picks of the club, by sort_order: game, limit (or None for all)
    Fresh,      \* FRESH_FOR
    MaxTime, MaxSnapshots  \* bounds

VARIABLES
    now,
    games,      \* cash_games: rows by limit
    open,       \* runs the collector has not finished
    active,     \* indices of the active picks
    snapshot,   \* each snapshot in flight: its list and the rows it has read
    last,       \* history: the list committed last
    mixed,      \* history: that list was merged into rows it had not read
    sent        \* history: snapshots so far, for the bound

vars == <<now, games, open, active, snapshot, last, mixed, sent>>

Quiet == [step |-> "idle"]
NoGame == [row |-> 0, link |-> None, seen |-> 0]
Present == {l \in Limits : games[l].row # 0}

Init ==
    /\ now = 0
    /\ games = [l \in Limits |-> NoGame]
    /\ open = Runs /\ active = DOMAIN PickSeq
    /\ snapshot = [r \in Runs |-> Quiet]
    /\ last = {} /\ mixed = FALSE /\ sent = 0

\* ingest_cash_snapshot up to its first write.
IngestRead(r, list, link) ==
    /\ snapshot[r] = Quiet /\ r \in open /\ sent < MaxSnapshots
    /\ snapshot' = [snapshot EXCEPT ![r] =
          [step |-> "read", list |-> list, link |-> link, existing |-> games, stale |-> FALSE]]
    /\ sent' = sent + 1
    /\ UNCHANGED <<now, games, open, active, last, mixed>>

Existing(r) == {l \in Limits : snapshot[r].existing[l].row # 0}
Updated(r) == snapshot[r].list \cap Existing(r)
Closed_Kept(r) == {}

Closed(r) == Existing(r) \ snapshot[r].list

\* A row updated must still be there, a row inserted must not.
Writable(r) ==
    /\ \A l \in Updated(r) : games[l].row = snapshot[r].existing[l].row
    /\ \A l \in snapshot[r].list \ Existing(r) : l \notin Present

\* An empty link does not wipe the one known; a limit gone is deleted.
Kept(r, l) ==
    [row |-> games[l].row, seen |-> now,
     link |-> IF snapshot[r].link # None THEN snapshot[r].link ELSE games[l].link]

IngestCommit(r) ==
    /\ snapshot[r].step = "read" /\ Writable(r)
    /\ games' = [l \in Limits |->
          IF l \in Updated(r) THEN Kept(r, l)
          ELSE IF l \in snapshot[r].list THEN [row |-> sent, link |-> snapshot[r].link, seen |-> now]
          ELSE IF l \in Closed(r) /\ games[l].row = snapshot[r].existing[l].row THEN NoGame
          ELSE games[l]]
    /\ last' = snapshot[r].list /\ mixed' = snapshot[r].stale
    /\ snapshot' = [s \in Runs |->
          IF s = r THEN Quiet
          ELSE IF snapshot[s] = Quiet THEN Quiet ELSE [snapshot[s] EXCEPT !.stale = TRUE]]
    /\ UNCHANGED <<now, open, active, sent>>

IngestFails(r) ==
    /\ snapshot[r].step = "read" /\ ~Writable(r)
    /\ snapshot' = [snapshot EXCEPT ![r] = Quiet]
    /\ UNCHANGED <<now, games, open, active, last, mixed, sent>>

finish_run(r) ==
    /\ r \in open /\ snapshot[r] = Quiet /\ open' = open \ {r}
    /\ UNCHANGED <<now, games, active, snapshot, last, mixed, sent>>

update_pick(p) ==
    /\ active' = IF p \in active THEN active \ {p} ELSE active \cup {p}
    /\ UNCHANGED <<now, games, open, snapshot, last, mixed, sent>>

Tick ==
    /\ now < MaxTime /\ now' = now + 1
    /\ UNCHANGED <<games, open, active, snapshot, last, mixed, sent>>

Next ==
    \/ \E r \in Runs, list \in SUBSET Limits, link \in {None, 1} : IngestRead(r, list, link)
    \/ \E r \in Runs : IngestCommit(r) \/ IngestFails(r) \/ finish_run(r)
    \/ \E p \in DOMAIN PickSeq : update_pick(p)
    \/ Tick

Spec == Init /\ [][Next]_vars

-----------------------------------------------------------------------------
\* The list players see.

Listed == {l \in Present : games[l].seen >= now - Fresh}

\* The first active pick of the limit's game that names it or names no limit.
Matching(l) ==
    {p \in active : PickSeq[p].game = GameOf[l] /\ PickSeq[p].limit \in {None, l}}

match_cash(l) == {p \in Matching(l) : \A q \in Matching(l) : p <= q}

\* The picks of a limit no listed game was matched to.
manual_picks ==
    {p \in active : PickSeq[p].limit # None /\ p \notin UNION {match_cash(l) : l \in Listed}}

\* The list is one snapshot of the lobby: unless two snapshots overlapped, the
\* rows are exactly the limits sent last, and none of them is older than another.
ShownIsOneSnapshot ==
    ~mixed => /\ Present = last
              /\ \A l, k \in Present : games[l].seen = games[k].seen

\* "As soon as the collector sees the limit, the real line replaces this one"
\* (_manual_picks).
RealLineReplaces == \A p \in manual_picks : PickSeq[p].limit \notin Listed
=============================================================================
