------------------------------- MODULE Sheets -------------------------------
(***************************************************************************)
(* The sheets a club's schedule is read from (tournaments/imports): the     *)
(* grid of NUTS, the sheet of ProSto and the club's own CSV, each read row  *)
(* by row into templates. A row depends on the headings above it, and equal *)
(* rows of different days become one template.                              *)
(*                                                                         *)
(* A week has Week days of DayLength minutes, and the day that only leap    *)
(* years have is the last of the year.                                      *)
(***************************************************************************)
EXTENDS Integers, FiniteSets, Sequences, SequencesExt, FiniteSetsExt, Functions, TLC

CONSTANTS
    None,       \* an empty or unreadable cell
    Week, DayLength, Hour,
    Shift,      \* _MSK_SHIFT_FROM_MINUS5
    Break,      \* DEFAULT_BREAK_MINUTES
    Years,      \* days of each year
    ThisYear, Today,    \* the current year and day, counted from the first year
    Grace, Half,        \* days a date without a year may lie back, and half a year
    Rows,       \* the rows a sheet of each format may have
    MaxRows     \* bound

VARIABLES
    format,     \* "nuts", "prosto" or "manual"
    outcome,    \* "reading", "parsed", "refused" (422) or "broken" (500)
    section,    \* how many headers were read, or None outside the tables
    weekday, one_off,   \* the heading the next line stands under
    groups,     \* days of each draft
    issues,     \* rows that were reported, and why
    counted,    \* the rows counted in rows_total
    tickets,    \* ticket_value of the satellites
    rows        \* history: the rows read

vars == <<format, outcome, section, weekday, one_off, groups, issues, counted, tickets, rows>>

Modifiers == {"free", "super"}

\* import_club_templates: a file with our own columns is read as ours, any
\* other by the club's union; a union without a parser refuses it.
Init ==
    /\ \E ours \in BOOLEAN, union \in {"nuts", "prosto", None} :
          /\ format = IF ours THEN "manual" ELSE union
          /\ outcome = IF ~ours /\ union = None THEN "refused" ELSE "reading"
    /\ section = IF format = "manual" THEN 1 ELSE None
    /\ weekday = None /\ one_off = None
    /\ groups = <<>> /\ issues = {} /\ counted = {} /\ tickets = <<>> /\ rows = <<>>

Here == Len(rows) + 1

-----------------------------------------------------------------------------
\* Cells.

\* What remains of the levels, and the minute of the hour it is.
Left == [remaining : Nat \ {0}, minute : 0..Hour]

\* Minutes until it is played, with a break at the end of every hour (late_reg).
CloseOffset[left \in Left] ==
    LET playUntil == Hour - Break
        block == playUntil - left.minute
    IN  IF left.minute >= playUntil
        THEN Hour - left.minute + CloseOffset[[remaining |-> left.remaining, minute |-> 0]]
        ELSE IF left.remaining <= block THEN left.remaining
        ELSE block + CloseOffset[[remaining |-> left.remaining - block, minute |-> playUntil]]

late_reg_close_offset(minute, levels, length) ==
    IF length = None \/ levels = 0 THEN None
    ELSE CloseOffset[[remaining |-> levels * length, minute |-> minute]]

\* The tournament a satellite leads to, from the words of its name.
satellite_target(words) ==
    LET at == SelectInSeq(words, LAMBDA w : w = "sat")
        head == SubSeq(words, 1, at - 1)
        tail == SubSeq(words, at + 1, Len(words))
    IN  IF at = 0 THEN None
        ELSE IF tail # <<>> /\ Range(head) \subseteq Modifiers THEN tail
        ELSE IF at = 1 \/ Range(head) \subseteq Modifiers THEN None
        ELSE head \o tail

FirstOf[y \in DOMAIN Years] == IF y = 1 THEN 0 ELSE FirstOf[y - 1] + Years[y - 1]
DateOf(y, doy) == IF doy <= Years[y] THEN FirstOf[y] + doy ELSE None
Weekday(date) == (date % Week) + 1

\* Without a year: this year's, or the next one's when that is long past.
parse_date(d) ==
    LET date == DateOf(ThisYear, d.doy)
    IN  IF d.year # None THEN DateOf(d.year, d.doy)
        ELSE IF date # None /\ Today - date > Grace THEN DateOf(ThisYear + 1, d.doy)
        ELSE date

\* The year that brings the date nearest to today.
NearestYear(date) ==
    CASE date - Today > Half -> ThisYear - 1
      [] Today - date > Half -> ThisYear + 1
      [] OTHER               -> ThisYear
nearest_date(doy) ==
    LET date == DateOf(ThisYear, doy)
    IN  IF date = None THEN None ELSE DateOf(NearestYear(date), doy)

\* date.replace raises where the other year has no such day.
NearestBreaks(doy) == DateOf(ThisYear, doy) # None /\ nearest_date(doy) = None

-----------------------------------------------------------------------------
\* Rows.

\* All fields of a draft but its days.
Draft(line, at, on, week) ==
    [name |-> line.name, start_time |-> at, buyin |-> line.buyin,
     valid_from |-> on, month_week |-> week,
     offset |-> late_reg_close_offset(at % Hour, line.levels, line.length),
     satellite_target |-> satellite_target(line.name)]

Read(row) == rows' = Append(rows, row)
Reading(f) == outcome = "reading" /\ format = f /\ Len(rows) < MaxRows

Skip(row) == Read(row) /\ UNCHANGED <<format, outcome, section, weekday, one_off, groups, issues, counted, tickets>>
Stop(as) == outcome' = as
            /\ UNCHANGED <<format, section, weekday, one_off, groups, issues, counted, tickets>>
Heading(row, s, day, on) ==
    /\ Read(row) /\ section' = s /\ weekday' = day /\ one_off' = on
    /\ UNCHANGED <<format, outcome, groups, issues, counted, tickets>>

\* A counted line becomes an issue, or joins the draft it agrees with unless
\* that one is already played on one of its days.
Count(row) ==
    /\ Read(row) /\ counted' = counted \cup {Here}
    /\ UNCHANGED <<format, outcome, section, weekday, one_off, tickets>>
Report(why) == issues' = issues \cup {<<Here, why>>}
Faulty(row, why) == Count(row) /\ Report(why) /\ UNCHANGED groups
Enter(row, draft, days, warnings) ==
    LET known == IF draft \in DOMAIN groups THEN groups[draft] ELSE {}
    IN  /\ Count(row)
        /\ IF known \cap days # {}
           THEN issues' = issues \cup warnings \cup {<<Here, "twin">>} /\ UNCHANGED groups
           ELSE /\ issues' = issues \cup warnings
                /\ groups' = [d \in DOMAIN groups \cup {draft} |->
                                 IF d = draft THEN known \cup days ELSE groups[d]]

\* NUTS: the day runs by the column "-5", the schedule by Moscow.
NutsHeader(row) ==
    /\ Reading("nuts") /\ row.kind = "header"
    /\ IF row.whole THEN Heading(row, 1, weekday, None) ELSE Read(row) /\ Stop("refused")

NutsDay(row) == Reading("nuts") /\ row.kind = "day" /\ Heading(row, section, row.day, None)

MskDay_OfSheet(at) == weekday
MskDay(at) == ((weekday - 1 + ((at + Shift) \div DayLength)) % Week) + 1
MskMinutes(at) == (at + Shift) % DayLength

NutsLine(row) ==
    /\ Reading("nuts") /\ row.kind = "line"
    /\ IF section = None \/ row.name = <<>> THEN Skip(row)
       ELSE IF weekday = None THEN Faulty(row, "day")
       ELSE IF row.at = None THEN Faulty(row, "time")
       ELSE LET msk == MskMinutes(row.at)
                warnings == IF row.check \in {None, msk} THEN {} ELSE {<<Here, "check">>}
            IN  IF row.buyin = None
                THEN Count(row) /\ UNCHANGED groups
                     /\ issues' = issues \cup warnings \cup {<<Here, "buyin">>}
                ELSE Enter(row, Draft(row, msk, None, None), {MskDay(row.at)}, warnings)

\* ProSto: the first table is the week, the later ones series of dates.
Series == section # None /\ section > 1

ProstoHeader(row) ==
    /\ Reading("prosto") /\ row.kind = "header"
    /\ Heading(row, Cardinality({i \in DOMAIN rows : rows[i].kind = "header"}) + 1, None, None)

ProstoSides(row) ==
    Reading("prosto") /\ row.kind = "sides" /\ Heading(row, None, weekday, one_off)

ProstoDay(row) ==
    /\ Reading("prosto") /\ row.kind = "day"
    /\ IF section = 1 THEN Heading(row, section, row.day, one_off) ELSE Skip(row)

ProstoDate(row) ==
    /\ Reading("prosto") /\ row.kind = "date"
    /\ IF ~Series THEN Skip(row)
       ELSE IF NearestBreaks(row.doy) THEN Read(row) /\ Stop("broken")
       ELSE Heading(row, section, row.day, nearest_date(row.doy))

ProstoLine(row) ==
    /\ Reading("prosto") /\ row.kind = "line"
    /\ IF \/ section = None \/ row.at = None \/ row.name = <<>> \/ row.closed
          \/ Series /\ one_off # None /\ one_off < Today
       THEN Skip(row)
       ELSE IF weekday = None \/ (Series /\ one_off = None) THEN Faulty(row, "day")
       ELSE IF row.buyin = None THEN Faulty(row, "buyin")
       ELSE Enter(row, Draft(row, row.at, IF Series THEN one_off ELSE None, None), {weekday}, {})

\* Our own CSV: a date, a day of a week of the month, or days of the week. A
\* file without the column "days" fails on a row without a date.
ManualDays(row) ==
    CASE row.date # None    -> {Weekday(parse_date(row.date))}
      [] row.monthly # None -> {row.monthly.day}
      [] OTHER              -> row.days

ManualLine(row) ==
    /\ Reading("manual") /\ row.kind = "line"
    /\ IF row.name = <<>> THEN Skip(row)
       ELSE IF row.date # None /\ parse_date(row.date) = None THEN Faulty(row, "date")
       ELSE IF row.date # None /\ parse_date(row.date) < Today THEN Faulty(row, "past")
       ELSE IF row.date = None /\ row.monthly = None /\ ~row.column
            THEN Read(row) /\ Stop("broken")
       ELSE IF row.date = None /\ row.monthly = None /\ row.days = None THEN Faulty(row, "days")
       ELSE IF row.at = None THEN Faulty(row, "time")
       ELSE IF row.buyin = None THEN Faulty(row, "buyin")
       ELSE LET on == IF row.date = None THEN None ELSE parse_date(row.date)
                week == IF row.date = None /\ row.monthly # None THEN row.monthly.week ELSE None
            IN  Enter(row, Draft(row, row.at, on, week), ManualDays(row), {})

\* The ticket of a satellite of ProSto is the biggest buy-in it may lead to.
LeadsTo(sat, draft) ==
    /\ draft.satellite_target = None /\ draft.buyin > 0
    /\ IsPrefix(sat.satellite_target, draft.name)
TicketOf(sat) ==
    LET targets == {d \in DOMAIN groups : LeadsTo(sat, d)}
    IN  IF targets = {} THEN None ELSE Max({d.buyin : d \in targets})

Finish ==
    /\ outcome = "reading"
    /\ outcome' = IF format # "manual" /\ ~\E i \in DOMAIN rows : rows[i].kind = "header"
                  THEN "refused" ELSE "parsed"
    /\ tickets' = IF format # "prosto" THEN <<>>
                  ELSE [d \in {s \in DOMAIN groups : s.satellite_target # None} |-> TicketOf(d)]
    /\ UNCHANGED <<format, section, weekday, one_off, groups, issues, counted, rows>>

Next ==
    \/ \E row \in Rows["nuts"] : NutsHeader(row) \/ NutsDay(row) \/ NutsLine(row)
    \/ \E row \in Rows["prosto"] : \/ ProstoHeader(row) \/ ProstoSides(row) \/ ProstoDay(row)
                                   \/ ProstoDate(row) \/ ProstoLine(row)
    \/ \E row \in Rows["manual"] : ManualLine(row)
    \/ Finish

Spec == Init /\ [][Next]_vars

-----------------------------------------------------------------------------
\* What a line says to a reader of the sheet: the moment it is played, from
\* the headings that stand above it in its own table.
Latest(S) == IF S = {} THEN 0 ELSE Max(S)
HeadingAbove(i, kind) ==
    LET top == IF format = "nuts" THEN 0
               ELSE Latest({h \in 1..(i - 1) : rows[h].kind = "header"})
    IN  Latest({h \in top..(i - 1) : h > 0 /\ rows[h].kind = kind})
Said(i) ==
    LET row == rows[i]
        series == Cardinality({h \in 1..i : rows[h].kind = "header"}) > 1
    IN  CASE format = "nuts" ->
               LET minute == (rows[HeadingAbove(i, "day")].day - 1) * DayLength + row.at + Shift
               IN  [days |-> {((minute \div DayLength) % Week) + 1},
                    at |-> minute % DayLength, on |-> None, week |-> None]
          [] format = "prosto" /\ ~series ->
               [days |-> {rows[HeadingAbove(i, "day")].day}, at |-> row.at, on |-> None, week |-> None]
          [] format = "prosto" /\ series ->
               LET day == rows[HeadingAbove(i, "date")]
               IN  [days |-> {day.day}, at |-> row.at, on |-> nearest_date(day.doy), week |-> None]
          [] OTHER ->
               [days |-> ManualDays(row), at |-> row.at,
                on |-> IF row.date = None THEN None ELSE parse_date(row.date),
                week |-> IF row.date # None \/ row.monthly = None THEN None ELSE row.monthly.week]

\* Playing time between two minutes, the first of them a minute of the hour.
Played(from, to) == Cardinality({t \in from..(to - 1) : t % Hour < Hour - Break})

\* The lines that were counted and not reported, and the draft one belongs to:
\* late registration closes when its levels have been played.
Rejecting == {"day", "date", "past", "days", "time", "buyin", "twin"}
Entered == {i \in counted : ~\E why \in Rejecting : <<i, why>> \in issues}
ClosesOnTime(from, offset, net) ==
    Played(from, from + offset) = net /\ Played(from, from + offset - 1) < net
IsFrom(d, i) ==
    /\ d.name = rows[i].name /\ d.buyin = rows[i].buyin
    /\ d.start_time = Said(i).at /\ d.valid_from = Said(i).on /\ d.month_week = Said(i).week
    /\ IF rows[i].length = None \/ rows[i].levels = 0 THEN d.offset = None
       ELSE /\ d.offset # None
            /\ ClosesOnTime(d.start_time % Hour, d.offset, rows[i].levels * rows[i].length)

\* No tournament is lost, doubled or moved: a line that was counted and not
\* reported stands in a template on all its days, at the time the line and the
\* heading above it say, whatever the order of headings and lines; no other
\* day is in a template; and late registration closes when its levels have
\* been played.
RowsAreAccounted ==
    /\ \A i \in Entered : \E d \in DOMAIN groups : IsFrom(d, i) /\ Said(i).days \subseteq groups[d]
    /\ \A d \in DOMAIN groups : \A day \in groups[d] :
          Cardinality({i \in Entered : IsFrom(d, i) /\ day \in Said(i).days}) = 1
=============================================================================
