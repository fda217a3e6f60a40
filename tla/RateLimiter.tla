----------------------------- MODULE RateLimiter -----------------------------
(***************************************************************************)
(* The limiter of schedule requests (core/rate_limit): counters in the      *)
(* memory of the one backend process, per guest address or per player.      *)
(* Requests above the limit of a window, or for too many different days,    *)
(* are strikes; several strikes within an hour are a ban. When there are    *)
(* too many counters the stale ones are thrown away.                        *)
(***************************************************************************)
EXTENDS Integers, FiniteSets, Sequences, SequencesExt

CONSTANTS
    Guests, Players,   \* keys: "ip:" and "user:"
    Days,              \* values of the "from" parameter
    Absent,            \* no such parameter
    Window, StrikeWindow, Ban,  \* WINDOW_SECONDS, STRIKE_WINDOW_SECONDS, BAN_SECONDS
    GuestLimit, UserLimit, StrikesToBan, SweepDays, MaxTracks,
    MaxTime            \* bound

Keys == Guests \cup Players
limit(k) == IF k \in Players THEN UserLimit ELSE GuestLimit

VARIABLES
    now,      \* the monotonic clock
    tracks,   \* _tracks: the counter of each key that has one
    passed,   \* history: the times of the requests let through, of each key
    bans      \* history: when the last ban of each key ends

vars == <<now, tracks, passed, bans>>

NoTrack == [hits |-> <<>>, strikes |-> <<>>, days |-> {}, until |-> 0]

Init ==
    /\ now = 1
    /\ tracks = <<>>
    /\ passed = [k \in Keys |-> <<>>] /\ bans = [k \in Keys |-> 0]

Stale_Banned ==
    {k \in DOMAIN tracks :
        tracks[k].hits = <<>> \/ now - Last(tracks[k].hits) > StrikeWindow}

\* _track: the counters thrown away to make room for a new key.
Stale ==
    {k \in DOMAIN tracks :
        /\ tracks[k].until < now
        /\ tracks[k].hits = <<>> \/ now - Last(tracks[k].hits) > StrikeWindow}

Evicted(k) ==
    IF k \notin DOMAIN tracks /\ Cardinality(DOMAIN tracks) >= MaxTracks THEN Stale ELSE {}

Track(k) == IF k \in DOMAIN tracks THEN tracks[k] ELSE NoTrack

Recent_Late(times, width) ==
    LET first == CHOOSE i \in 1..(Len(times) + 1) :
                   /\ i \in DOMAIN times => now - times[i] < width
                   /\ \A j \in 1..(i - 1) : now - times[j] >= width
    IN  SubSeq(times, first, Len(times))

\* popleft, as long as the oldest is too old.
Recent(times, width) ==
    LET first == CHOOSE i \in 1..(Len(times) + 1) :
                   /\ i \in DOMAIN times => now - times[i] <= width
                   /\ \A j \in 1..(i - 1) : now - times[j] > width
    IN  SubSeq(times, first, Len(times))

Store(k, track) ==
    tracks' = [q \in (DOMAIN tracks \ Evicted(k)) \cup {k} |-> IF q = k THEN track ELSE tracks[q]]

\* _strike: one more; enough of them within the hour are a ban.
Struck(track) ==
    LET strikes == Recent(Append(track.strikes, now), StrikeWindow)
    IN  IF Len(strikes) >= StrikesToBan
        THEN [track EXCEPT !.strikes = <<>>, !.until = now + Ban]
        ELSE [track EXCEPT !.strikes = strikes]

\* A banned key is answered before anything is counted.
HitBanned(k) ==
    /\ Track(k).until > now
    /\ Store(k, Track(k))
    /\ UNCHANGED <<now, passed, bans>>

Seen(track, day) ==
    IF day = Absent THEN track.days
    ELSE {d \in track.days : d.day # day /\ now - d.at <= StrikeWindow} \cup {[day |-> day, at |-> now]}

Counted(k, day) ==
    [Track(k) EXCEPT !.hits = Recent(Track(k).hits, Window), !.days = Seen(Track(k), day)]

Sweeping(k, day) == day # Absent /\ Cardinality(Counted(k, day).days) > SweepDays
Above(k, day) == Len(Counted(k, day).hits) >= limit(k)

Strike(k, track) ==
    /\ Store(k, Struck(track))
    /\ bans' = [bans EXCEPT ![k] = IF Struck(track).until > @ THEN Struck(track).until ELSE @]
    /\ UNCHANGED <<now, passed>>

HitSweeping(k, day) ==
    /\ Track(k).until <= now /\ Sweeping(k, day)
    /\ Strike(k, [Counted(k, day) EXCEPT !.days = {}])

HitAbove(k, day) ==
    /\ Track(k).until <= now /\ ~Sweeping(k, day) /\ Above(k, day)
    /\ Strike(k, Counted(k, day))

HitPasses(k, day) ==
    /\ Track(k).until <= now /\ ~Sweeping(k, day) /\ ~Above(k, day)
    /\ Store(k, [Counted(k, day) EXCEPT !.hits = Append(@, now)])
    /\ passed' = [passed EXCEPT ![k] = Append(@, now)]
    /\ UNCHANGED <<now, bans>>

\* guard_schedule: the day counts for players only.
Hit(k) ==
    \E day \in IF k \in Players THEN Days \cup {Absent} ELSE {Absent} :
        HitSweeping(k, day) \/ HitAbove(k, day) \/ HitPasses(k, day)

Tick == now < MaxTime /\ now' = now + 1 /\ UNCHANGED <<tracks, passed, bans>>

Next == (\E k \in Keys : HitBanned(k) \/ Hit(k)) \/ Tick

Spec == Init /\ [][Next]_vars

-----------------------------------------------------------------------------
\* No window of WINDOW_SECONDS lets more than the limit of a key through,
\* whichever counters are thrown away in between (hit, _track).
WindowHolds ==
    \A k \in Keys : \A i \in DOMAIN passed[k] :
        LET j == i + limit(k)
        IN  j \in DOMAIN passed[k] => passed[k][j] - passed[k][i] > Window

\* Nothing passes for a banned key before its ban is over, though the counter
\* that holds the ban may be up for eviction ("a ban for an hour").
BannedStaysOut ==
    [][\A k \in Keys : passed'[k] # passed[k] => bans[k] <= now]_vars
=============================================================================
