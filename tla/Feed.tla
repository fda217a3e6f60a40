-------------------------------- MODULE Feed --------------------------------
(***************************************************************************)
(* The player's schedule and the feed (tournaments/queries, picks, feed):  *)
(* what the front page shows of the starts, and the news the loop writes   *)
(* about them: one post for each start of the Editor's Pick, or one major  *)
(* of the day when there is none.                                          *)
(*                                                                         *)
(* A day has four slots: the night and morning before 10:00, the day, the  *)
(* evening from 18:00, and the late evening from 22:00.                    *)
(***************************************************************************)
EXTENDS Integers, FiniteSets

CONSTANTS
    None,       \* NULL
    Starts,     \* tournaments.id
    Grid,       \* each start: club, name, at, late (late_reg_closes_at), guarantee, sat (the
                \* name of its target, or None), ticket (ticket_value), live (its event, or None)
    Rate,       \* money per chip of each club, None where unknown
    Rub, Ruble, \* the same in a part of the ruble, and how many parts a ruble has
    MinorBelow, \* minor_satellite_below_rub and _usd, in the club's money
    PerDay,     \* how many highlights a day has
    LiveLookahead,
    Manual,     \* posts written by hand
    Bodies,     \* what a manager sends: delay of publication (or None), life (or None), pinned
    PostsLimit, \* POSTS_LIMIT
    MaxNow,     \* bound: the last slot
    MaxEdits    \* bound: manager's and schedule's changes

VARIABLES
    now,        \* slots since the first midnight
    onGrid,     \* status of each start: "none", "scheduled" or "cancelled"
    picks,      \* editor_picks of the schedule: "on", "off" or "none" by the name they match
    posts,      \* feed_posts: of a start (auto) or by hand, NoPost when absent
    pass,       \* the autopost pass: what it read
    taken,      \* history: posts a manager took off and did not bring back
    made,       \* history: the day each automatic post was written
    edits       \* history: changes so far, for the bound

vars == <<now, onGrid, picks, posts, pass, taken, made, edits>>

Slots == 4
Day(t) == t \div Slots
DayStart(d) == d * Slots
At(s) == Grid[s].at
Names == {Grid[s].name : s \in Starts}
Scheduled == {s \in Starts : onGrid[s] = "scheduled"}
NoPost == [kind |-> "none", pinned |-> FALSE, published |-> 0, expires |-> None]
Quiet == [step |-> "idle"]

Init ==
    /\ now = 0
    /\ onGrid = [s \in Starts |-> "scheduled"]
    /\ picks \in [Names -> {"none", "on"}]
    /\ posts = [p \in Starts \cup Manual |-> NoPost]
    /\ pass = Quiet /\ taken = {} /\ edits = 0
    /\ made = [s \in Starts |-> None]

-----------------------------------------------------------------------------
\* What the player sees of the schedule.

period_of(t) == CASE t % Slots = 1 -> "day" [] t % Slots = 2 -> "evening" [] OTHER -> "night"

\* A satellite to something cheap; without a ticket or a rate nobody can tell.
is_minor_satellite(s) ==
    /\ Grid[s].ticket # None /\ Rate[Grid[s].club] # None
    /\ Grid[s].ticket * Rate[Grid[s].club] < MinorBelow

\* A start under way stays listed while its late registration is open.
Window(from, to) ==
    {s \in Scheduled : (At(s) >= from \/ Grid[s].late > from) /\ At(s) < to}

Online(from, to) == {s \in Window(from, to) : Grid[s].live = None}

list_tournaments(from, to) == {s \in Online(from, to) : ~is_minor_satellite(s)}

Contenders_Listed(listed) ==
    {s \in listed : Grid[s].sat = None /\ Grid[s].guarantee > 0}

\* The starts that compete for major: all of the day, listed or not.
Contenders(listed) ==
    {s \in Scheduled :
        /\ \E l \in listed : Grid[l].club = Grid[s].club /\ Day(At(l)) = Day(At(s))
        /\ Grid[s].live = None /\ Grid[s].sat = None /\ Grid[s].guarantee > 0}

Beats(a, b) ==
    \/ Grid[a].guarantee > Grid[b].guarantee
    \/ Grid[a].guarantee = Grid[b].guarantee /\ At(a) < At(b)

\* Of equal ones the first read, for which the first in Starts stands.
major_ids(listed) ==
    LET all == Contenders(listed)
    IN  {s \in all : \A o \in all \ {s} :
            Grid[o].club = Grid[s].club /\ Day(At(o)) = Day(At(s)) =>
                ~Beats(o, s) /\ (Beats(s, o) \/ s < o)}

MajorsFrom(from, to) == list_tournaments(from, to) \cap major_ids(list_tournaments(from, to))

majors(t) ==
    LET today == MajorsFrom(t, DayStart(Day(t) + 1))
        tomorrow == MajorsFrom(DayStart(Day(t) + 1), DayStart(Day(t) + 2))
    IN  IF today # {} THEN today ELSE tomorrow

\* Whole rubles, a half to the even one.
Rounded(parts) ==
    LET whole == parts \div Ruble
        rest  == parts % Ruble
    IN  IF 2 * rest > Ruble \/ (2 * rest = Ruble /\ whole % 2 = 1) THEN whole + 1 ELSE whole

\* The guarantee in rubles: nothing where the club has no rate.
guarantee_rub(s) ==
    IF Rub[Grid[s].club] = None THEN 0 ELSE Rounded(Grid[s].guarantee * Rub[Grid[s].club])

\* One start of each club, replaced by an earlier day or a bigger guarantee.
Better(s, current) ==
    \/ Day(At(s)) < Day(At(current))
    \/ Day(At(s)) = Day(At(current)) /\ guarantee_rub(s) > guarantee_rub(current)

Keep(best, s) ==
    LET rival == {b \in best : Grid[b].club = Grid[s].club}
    IN  IF rival = {} THEN best \cup {s}
        ELSE IF \E b \in rival : Better(s, b) THEN (best \ rival) \cup {s} ELSE best

\* The starts come by time, equal ones as in Starts.
LastOf(S) == CHOOSE s \in S : \A o \in S : At(o) < At(s) \/ (At(o) = At(s) /\ o <= s)

Evening(t) ==
    {s \in list_tournaments(t, t + 2 * Slots) : Grid[s].sat = None /\ period_of(At(s)) = "evening"}

evening_by_club(t) ==
    LET best[S \in SUBSET Evening(t)] ==
          IF S = {} THEN {} ELSE Keep(best[S \ {LastOf(S)}], LastOf(S))
    IN  best[Evening(t)]

\* The starts with the biggest guarantees in rubles of each day, satellites
\* too; equal ones by time and then as they come.
Brighter(a, b) ==
    \/ guarantee_rub(a) > guarantee_rub(b)
    \/ guarantee_rub(a) = guarantee_rub(b) /\ At(a) < At(b)

list_highlights(from, to) ==
    LET shown == {s \in list_tournaments(from, to) : guarantee_rub(s) > 0}
        Before(o, s) == Brighter(o, s) \/ (~Brighter(s, o) /\ o < s)
    IN  {s \in shown :
            Cardinality({o \in shown \ {s} : Day(At(o)) = Day(At(s)) /\ Before(o, s)}) < PerDay}

\* The ways into live series, one group for each event of a club.
list_live_events(t) ==
    LET live == {s \in Window(t, t + LiveLookahead) : Grid[s].live # None}
    IN  {{o \in live : Grid[o].club = Grid[s].club /\ Grid[o].live = Grid[s].live} : s \in live}

\* On the card of a start: the satellites to it, the cheap ones too.
list_satellites(target, t) ==
    {s \in Online(t, At(target)) :
        /\ onGrid[target] # "none" /\ At(target) > t
        /\ Grid[s].club = Grid[target].club /\ Grid[s].sat = Grid[target].name}

active_picks == {n \in Names : picks[n] = "on"}

match_tournament(s) == Grid[s].name \in active_picks

\* The page of the picks: how many starts of the next seven days bear the name,
\* cancelled ones with them.
list_admin_picks(name, t) ==
    Cardinality({s \in Starts :
        onGrid[s] # "none" /\ Grid[s].name = name /\ t <= At(s) /\ At(s) < t + 7 * Slots})

-----------------------------------------------------------------------------
\* The posts.

Exists(p) == posts[p].kind # "none"
Visible(p) ==
    /\ Exists(p) /\ posts[p].published <= now
    /\ posts[p].expires = None \/ posts[p].expires > now
Above(p, q) ==
    \/ posts[p].pinned /\ ~posts[q].pinned
    \/ posts[p].pinned = posts[q].pinned /\ posts[p].published > posts[q].published

list_posts ==
    {p \in DOMAIN posts : /\ Visible(p)
                          /\ Cardinality({q \in DOMAIN posts : Visible(q) /\ Above(q, p)}) < PostsLimit}

Edit == edits < MaxEdits /\ edits' = edits + 1
Write(p, post) == posts' = [posts EXCEPT ![p] = post]

After(slots) == IF slots = None THEN None ELSE now + slots

\* An id is given once: the post of a deleted one is not written again.
create_post(p, body) ==
    /\ p \in Manual \ taken /\ ~Exists(p) /\ Edit
    /\ Write(p, [kind |-> "manual", pinned |-> body.pinned, expires |-> After(body.life),
                 published |-> IF body.delay = None THEN now ELSE After(body.delay)])
    /\ UNCHANGED <<now, onGrid, picks, pass, taken, made>>

\* published_at stays when the body has none; expires_at is overwritten.
update_post(p, body) ==
    /\ Exists(p) /\ Edit
    /\ Write(p, [posts[p] EXCEPT !.pinned = body.pinned, !.expires = After(body.life),
                                 !.published = IF body.delay = None THEN @ ELSE After(body.delay)])
    /\ taken' = taken \ {p}
    /\ UNCHANGED <<now, onGrid, picks, pass, made>>

Removed_Deleted(p) == NoPost

\* An automatic post is taken off the feed, not deleted.
Removed(p) ==
    IF p \in Starts THEN [posts[p] EXCEPT !.expires = posts[p].published] ELSE NoPost

delete_post(p) ==
    /\ Exists(p) /\ Edit
    /\ Write(p, Removed(p))
    /\ taken' = taken \cup {p}
    /\ UNCHANGED <<now, onGrid, picks, pass, made>>

Pick(name, state) ==
    /\ Edit
    /\ picks' = [picks EXCEPT ![name] = state]
    /\ UNCHANGED <<now, onGrid, posts, pass, taken, made>>

create_pick(name) == picks[name] = "none" /\ Pick(name, "on")
update_pick(name) == picks[name] # "none" /\ \E state \in {"on", "off"} : Pick(name, state)
delete_pick(name) == picks[name] # "none" /\ Pick(name, "none")

\* The schedule cancels a start or removes it; its post goes with it.
CancelStart(s) ==
    /\ onGrid[s] = "scheduled" /\ Edit
    /\ onGrid' = [onGrid EXCEPT ![s] = "cancelled"]
    /\ UNCHANGED <<now, picks, posts, pass, taken, made>>

RemoveStart(s) ==
    /\ onGrid[s] # "none" /\ Edit
    /\ onGrid' = [onGrid EXCEPT ![s] = "none"]
    /\ Write(s, NoPost)
    /\ taken' = taken \ {s}
    /\ UNCHANGED <<now, picks, pass, made>>

-----------------------------------------------------------------------------
\* The loop.

OfToday(p) == p \in Starts /\ Exists(p) /\ Day(At(p)) = Day(now)

\* The posts one pass would add: each pick that has none yet, or one major.
SyncRead ==
    /\ pass = Quiet
    /\ LET upcoming == list_tournaments(now, DayStart(Day(now) + 1))
           picked == {s \in upcoming : match_tournament(s)}
           candidates == upcoming \cap major_ids(upcoming)
           plan(kind, new) == pass' = [step |-> "read", kind |-> kind, new |-> new, at |-> now]
       IN  \/ picked # {} /\ plan("pick", {s \in picked : ~Exists(s)})
           \/ /\ picked = {} /\ ~\E p \in DOMAIN posts : OfToday(p)
              /\ \E s \in candidates : plan("major", {s})
    /\ UNCHANGED <<now, onGrid, picks, posts, taken, made, edits>>

published_at(s, t) ==
    LET morning == DayStart(Day(t)) + 1
        early == IF At(s) - 1 < morning THEN At(s) - 1 ELSE morning
    IN  IF t > early THEN t ELSE early

\* The unique index and the foreign key of tournament_id.
Insertable(s) == onGrid[s] # "none" /\ ~Exists(s)

SyncCommit ==
    /\ pass.step = "read" /\ \A s \in pass.new : Insertable(s)
    /\ posts' = [p \in DOMAIN posts |->
          IF p \in pass.new
          THEN [kind |-> pass.kind, pinned |-> FALSE,
                published |-> published_at(p, pass.at), expires |-> None]
          ELSE posts[p]]
    /\ made' = [s \in Starts |-> IF s \in pass.new THEN Day(pass.at) ELSE made[s]]
    /\ pass' = Quiet
    /\ UNCHANGED <<now, onGrid, picks, taken, edits>>

\* One row refused refuses the pass: the loop logs it and tries again later.
SyncFails ==
    /\ pass.step = "read" /\ \E s \in pass.new : ~Insertable(s)
    /\ pass' = Quiet
    /\ UNCHANGED <<now, onGrid, picks, posts, taken, made, edits>>

Tick ==
    /\ now < MaxNow /\ pass = Quiet /\ now' = now + 1
    /\ UNCHANGED <<onGrid, picks, posts, pass, taken, made, edits>>

Next ==
    \/ \E p \in DOMAIN posts, body \in Bodies : create_post(p, body) \/ update_post(p, body)
    \/ \E p \in DOMAIN posts : delete_post(p)
    \/ \E name \in Names : create_pick(name) \/ update_pick(name) \/ delete_pick(name)
    \/ \E s \in Starts : CancelStart(s) \/ RemoveStart(s)
    \/ SyncRead \/ SyncCommit \/ SyncFails \/ Tick

Spec == Init /\ [][Next]_vars

-----------------------------------------------------------------------------
\* A post a manager took off the feed does not come back until a manager
\* brings it back (delete_post: an automatic post is not deleted "otherwise
\* the next pass would create it again").
TakenOffStaysOff == \A p \in taken : p \notin list_posts

MajorsWrittenOn(d) == {s \in Starts : Exists(s) /\ posts[s].kind = "major" /\ made[s] = d}

\* "One post about the Major of the day": one major is written on a day,
\* whatever day its start belongs to (sync_auto_posts).
OneMajorADay == \A d \in 0..Day(MaxNow) : Cardinality(MajorsWrittenOn(d)) <= 1

\* The front page is exact: a major is never smaller than another start its
\* club plays that day, even one that is over; each club's evening start is
\* the biggest of the nearest evening that has any; the brightest start of
\* the day is the major of its club or worth as many rubles, unless that one is
\* over; and every start to come is listed, or in one live event, or on the card
\* of the later start it is a cheap satellite to. The page of the picks counts
\* no less than the player sees marked.
MajorsAreBiggest ==
    \A s \in majors(now), o \in Scheduled :
        Grid[o].live = None /\ Grid[o].sat = None /\ Grid[o].club = Grid[s].club
          /\ Day(At(o)) = Day(At(s)) => Grid[o].guarantee <= Grid[s].guarantee

EveningsAreBiggest ==
    \A s \in Evening(now) : \E b \in evening_by_club(now) :
        Grid[b].club = Grid[s].club /\ ~Better(s, b)

BrightestIsMajor ==
    LET tonight == list_tournaments(now, DayStart(Day(now) + 1))
    IN  \A s \in list_highlights(now, DayStart(Day(now) + 1)) :
          /\ Day(At(s)) = Day(now) /\ Grid[s].sat = None
          /\ ~\E o \in tonight \ {s} : Day(At(o)) = Day(now) /\ Brighter(o, s)
          => \A m \in major_ids({s}) \cap tonight :
                /\ guarantee_rub(m) = guarantee_rub(s)
                /\ Grid[m].guarantee = Grid[s].guarantee => At(m) = At(s)

EveryStartIsShown ==
    \A s \in Window(now, now + LiveLookahead) :
        \/ s \in list_tournaments(now, now + LiveLookahead)
        \/ Cardinality({e \in list_live_events(now) : s \in e}) = 1
        \/ /\ is_minor_satellite(s)
           /\ \A target \in Scheduled :
                 /\ Grid[target].name = Grid[s].sat /\ Grid[target].club = Grid[s].club
                 /\ At(target) > At(s) /\ At(target) > now
                 => s \in list_satellites(target, now)

PicksAreCounted ==
    \A name \in active_picks :
        Cardinality({s \in list_tournaments(now, now + 7 * Slots) :
                        At(s) >= now /\ match_tournament(s) /\ Grid[s].name = name})
          <= list_admin_picks(name, now)

ShowcaseIsExact ==
    /\ MajorsAreBiggest /\ EveningsAreBiggest /\ BrightestIsMajor
    /\ EveryStartIsShown /\ PicksAreCounted
=============================================================================
