----------------------------- MODULE References -----------------------------
(***************************************************************************)
(* Clubs, their unions and the rates of their chips (clubs,                 *)
(* admin_references, the fx job of the worker). A handler reads and checks, *)
(* then writes what differs and commits; foreign keys, the unique slug and  *)
(* the CHECK on the pair of the chip rate are enforced there. A rate is     *)
(* stored for a day; the one in use is the one of the latest day.           *)
(***************************************************************************)
EXTENDS Integers, FiniteSets

CONSTANTS
    None,
    Clubs, Unions, Slugs,
    Seeded,             \* the slugs of the unions there are at first
    Managers,           \* requests of administrators
    ClubBodies,         \* what a save of a club names: some of its fields
    Published,          \* currencies the central bank has a rate for
    ManualCodes,        \* currencies a manager sets a rate for
    EffectiveOn,        \* the day whose rates the bank answers with, by day
    Retries,            \* attempts of one fetch
    MaxDay, MaxEdits    \* bounds

VARIABLES
    today,
    slug,       \* unions: the slug of each, None where there is none
    clubs,      \* organizer and the pair of the chip rate
    rates,      \* fx_rates: code, day, who wrote it and what day it speaks of
    request,    \* what each administrator's request has read
    job,        \* the daily fx job
    joined,     \* history: when each club was given its union
    edits       \* history: requests so far, for the bound and as a clock

vars == <<today, slug, clubs, rates, request, job, joined, edits>>

Quiet == [step |-> "idle"]
Asleep == [step |-> "asleep", ran |-> 0]
NewClub == [organizer |-> None, chip_value |-> None, chip_currency |-> None]

Init ==
    /\ today = 1 /\ edits = 0
    /\ slug = Seeded
    /\ clubs = [c \in Clubs |-> NewClub]
    /\ rates = {} /\ request = [m \in Managers |-> Quiet] /\ job = Asleep
    /\ joined = [c \in Clubs |-> 0]

-----------------------------------------------------------------------------
\* Requests of administrators.

Exists(u) == slug[u] # None
Whole(club) == (club.chip_value = None) = (club.chip_currency = None)
With(club, body) == [f \in DOMAIN club |-> IF f \in DOMAIN body THEN body[f] ELSE club[f]]
Storable(club) == Whole(club) /\ club.organizer \in {None} \cup {u \in Unions : Exists(u)}
SlugFree(s, u) == \A other \in Unions \ {u} : slug[other] # s
clubs_count(u) == Cardinality({c \in Clubs : clubs[c].organizer = u})

Reads(m, what) ==
    /\ request[m] = Quiet /\ edits < MaxEdits
    /\ edits' = edits + 1
    /\ request' = [request EXCEPT ![m] = what]
    /\ UNCHANGED <<today, slug, clubs, rates, job, joined>>

\* update_club checks the union, then the pair as the club would have it.
UpdateClubRead(m, c, body) ==
    /\ Storable(With(clubs[c], body))
    /\ Reads(m, [step |-> "club", club |-> c, body |-> body, was |-> clubs[c]])

SaveUnionRead(m, u, s) ==
    /\ SlugFree(s, u)
    /\ Reads(m, [step |-> IF Exists(u) THEN "update_organizer" ELSE "create_organizer", union |-> u, slug |-> s])

DeleteUnionRead(m, u) ==
    /\ Exists(u) /\ clubs_count(u) = 0
    /\ Reads(m, [step |-> "delete_organizer", union |-> u, at |-> edits + 1])

Done(m) == request' = [request EXCEPT ![m] = Quiet] /\ UNCHANGED <<today, rates, job, edits>>

\* What the save would leave: fields named that differ from what was read.
Saved(r) ==
    LET named == {f \in DOMAIN r.body : r.body[f] # r.was[f]}
    IN  [f \in DOMAIN clubs[r.club] |-> IF f \in named THEN r.body[f] ELSE clubs[r.club][f]]

CanSave(r) == r.step = "club" /\ Storable(Saved(r))
CanSaveUnion(r) ==
    /\ r.step \in {"create_organizer", "update_organizer"}
    /\ SlugFree(r.slug, r.union) /\ (r.step = "create_organizer") = ~Exists(r.union)

update_club(m) ==
    LET r == request[m]
    IN  /\ CanSave(r)
        /\ clubs' = [clubs EXCEPT ![r.club] = Saved(r)]
        /\ joined' = IF Saved(r).organizer = clubs[r.club].organizer THEN joined
                     ELSE [joined EXCEPT ![r.club] = edits]
        /\ Done(m) /\ UNCHANGED slug

save_organizer(m) ==
    /\ CanSaveUnion(request[m])
    /\ slug' = [slug EXCEPT ![request[m].union] = request[m].slug]
    /\ Done(m) /\ UNCHANGED <<clubs, joined>>

\* ON DELETE SET NULL.
delete_organizer(m) ==
    LET u == request[m].union
    IN  /\ request[m].step = "delete_organizer"
        /\ slug' = [slug EXCEPT ![u] = None]
        /\ clubs' = [c \in Clubs |-> IF clubs[c].organizer = u THEN [clubs[c] EXCEPT !.organizer = None]
                                                               ELSE clubs[c]]
        /\ Done(m) /\ UNCHANGED joined

\* The constraints of the tables refuse, or the row is gone: nothing is left.
Refused(m) ==
    /\ request[m].step \notin {"idle", "delete_organizer"}
    /\ ~CanSave(request[m]) /\ ~CanSaveUnion(request[m])
    /\ Done(m) /\ UNCHANGED <<slug, clubs, joined>>

-----------------------------------------------------------------------------
\* Rates.

Stored(row) == {r \in rates : ~(r.code = row.code /\ r.day = row.day)} \cup {row}

set_manual_rate(code) ==
    /\ edits < MaxEdits /\ edits' = edits + 1
    /\ rates' = Stored([code |-> code, day |-> today, by |-> "manager", of |-> today])
    /\ UNCHANGED <<today, slug, clubs, request, job, joined>>

FxStart ==
    /\ job.step = "asleep" /\ job.ran < today
    /\ job' = [step |-> "fetch", ran |-> today, attempt |-> 1]
    /\ UNCHANGED <<today, slug, clubs, rates, request, joined, edits>>

\* No answer: another attempt; after the last one, or at once when the answer
\* lacks a currency, the job is over until tomorrow.
FetchFails ==
    /\ job.step = "fetch" /\ job.attempt < Retries
    /\ job' = [job EXCEPT !.attempt = @ + 1]
    /\ UNCHANGED <<today, slug, clubs, rates, request, joined, edits>>

FxGivesUp ==
    /\ job.step = "fetch"
    /\ job' = [step |-> "asleep", ran |-> job.ran]
    /\ UNCHANGED <<today, slug, clubs, rates, request, joined, edits>>

\* "Persist on the actual CBR Date attribute."
rate_date_Requested(requested) == requested
rate_date(requested) == EffectiveOn[requested]
parse_daily_xml(requested) ==
    {[code |-> code, day |-> rate_date(requested), by |-> "bank", of |-> EffectiveOn[requested]] :
        code \in Published}

FetchAnswered ==
    /\ job.step = "fetch"
    /\ job' = [step |-> "upsert", ran |-> job.ran, rows |-> parse_daily_xml(job.ran)]
    /\ UNCHANGED <<today, slug, clubs, rates, request, joined, edits>>

upsert_rates ==
    /\ job.step = "upsert"
    /\ rates' = {r \in rates : \A row \in job.rows : r.code # row.code \/ r.day # row.day} \cup job.rows
    /\ job' = [step |-> "asleep", ran |-> job.ran]
    /\ UNCHANGED <<today, slug, clubs, request, joined, edits>>

NextDay ==
    /\ today < MaxDay /\ today' = today + 1
    /\ UNCHANGED <<slug, clubs, rates, request, job, joined, edits>>

latest_rates_rub(code) ==
    LET rows == {r \in rates : r.code = code}
    IN  {r \in rows : \A other \in rows : other.day <= r.day}

rub_per_chip(c) ==
    IF clubs[c].chip_value = None THEN {} ELSE latest_rates_rub(clubs[c].chip_currency)

Next ==
    \/ \E m \in Managers :
          \/ \E c \in Clubs, body \in ClubBodies : UpdateClubRead(m, c, body)
          \/ \E u \in Unions, s \in Slugs : SaveUnionRead(m, u, s)
          \/ \E u \in Unions : DeleteUnionRead(m, u)
          \/ update_club(m) \/ save_organizer(m) \/ delete_organizer(m) \/ Refused(m)
    \/ \E code \in ManualCodes : set_manual_rate(code)
    \/ FxStart \/ FetchFails \/ FxGivesUp \/ FetchAnswered \/ upsert_rates
    \/ NextDay

Spec == Init /\ [][Next]_vars

-----------------------------------------------------------------------------
\* A club loses its union only when somebody takes it away, or when the union
\* is deleted by a request that counted its clubs before this one joined
\* (delete_organizer). And the chips of a club are worth what the manager said
\* until a rate for the same or a later day is known: a bank that answers on a
\* Sunday with the rates of Saturday replaces nothing a manager set on Sunday
\* (latest_rates_rub, upsert_rates).
TakesAway(m, c) ==
    LET r == request[m]
    IN  \/ r.step = "club" /\ r.club = c /\ "organizer" \in DOMAIN r.body
        \/ r.step = "delete_organizer" /\ r.union = clubs[c].organizer /\ joined[c] >= r.at
GivesWay(c) ==
    \A old \in rub_per_chip(c) : old.by = "manager" =>
        \A new \in rub_per_chip(c)' : new.code = old.code => new = old \/ new.of >= old.of
ReferencesGiveWay ==
    [][\A c \in Clubs :
        /\ clubs'[c].organizer = clubs[c].organizer \/ \E m \in Managers : TakesAway(m, c)
        /\ GivesWay(c)]_vars
=============================================================================
