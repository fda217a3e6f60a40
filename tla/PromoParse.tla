----------------------------- MODULE PromoParse -----------------------------
(***************************************************************************)
(* The parser of promotions (services/promo_parse): from the text of a post *)
(* or of a recognised picture to a draft whose doubtful fields are marked.  *)
(* What the regular expressions find in the text is the input: the prizes   *)
(* by place, the amounts without place, the fund, the dates. Days are       *)
(* counted within years of Year days; some days not every year has.         *)
(***************************************************************************)
EXTENDS Integers, FiniteSets, Sequences, FiniteSetsExt

CONSTANTS
    None,
    Label,      \* a prize that is not money
    Texts,      \* inputs, see Init
    Year, ThisYear, Today, \* days in a year, the year and the day of the year of now
    YearsOf,    \* the years that have a given day of the year
    MonthDays,  \* days add_month adds
    Far         \* the days an end that cannot be is put after the start

VARIABLES
    text,       \* what is found in the text
    outcome,    \* "none" yet, "draft" or "broken"
    draft       \* the parsed promotion, or None

vars == <<text, outcome, draft>>

Init == text \in Texts /\ outcome = "none" /\ draft = None

-----------------------------------------------------------------------------
\* Prizes.

\* Places go on from the first one without a gap.
prizes(found) ==
    LET n == CHOOSE n \in 0..Cardinality(DOMAIN found) :
                /\ 1..n \subseteq DOMAIN found /\ (n + 1) \notin DOMAIN found
    IN  [place \in 1..n |-> found[place]]

\* One amount more: the fund itself is not a prize, and prizes fall.
Take(taken, amount, fund) ==
    IF ~taken.going \/ (fund # None /\ amount >= fund) THEN taken
    ELSE IF taken.list # <<>> /\ amount >= taken.list[Len(taken.list)]
    THEN [taken EXCEPT !.going = FALSE]
    ELSE [taken EXCEPT !.list = Append(taken.list, amount)]

Amounts(amounts, fund) ==
    LET taken[k \in 0..Len(amounts)] ==
          IF k = 0 THEN [list |-> <<>>, going |-> TRUE]
          ELSE Take(taken[k - 1], amounts[k], fund)
    IN  taken[Len(amounts)].list

\* A single amount is no list of prizes.
unnumbered_prizes(amounts, fund) ==
    IF Len(Amounts(amounts, fund)) < 2 THEN <<>> ELSE Amounts(amounts, fund)

Money(prize) == IF prize = Label THEN 0 ELSE prize
total(list) ==
    LET sum[k \in 0..Len(list)] == IF k = 0 THEN 0 ELSE sum[k - 1] + Money(list[k])
    IN  sum[Len(list)]

\* A counter without a caption counts only when no fund is named.
stated_fund(t) == IF t.fund # None THEN t.fund ELSE IF t.image THEN t.counter ELSE None
counter_fund(t) == t.fund = None /\ stated_fund(t) # None

Chosen_Numbered(t) ==
    LET numbered == prizes(t.found)
        unnumbered == unnumbered_prizes(t.amounts, stated_fund(t))
    IN  IF numbered = <<>> THEN unnumbered ELSE numbered

\* The reading that adds up to the fund.
Chosen(t) ==
    LET numbered == prizes(t.found)
        unnumbered == unnumbered_prizes(t.amounts, stated_fund(t))
    IN  IF /\ unnumbered # <<>>
           /\ \/ numbered = <<>>
              \/ stated_fund(t) # None /\ total(numbered) # stated_fund(t)
                   /\ total(unnumbered) = stated_fund(t)
        THEN unnumbered ELSE numbered

prize_fund(t) ==
    IF stated_fund(t) # None THEN stated_fund(t)
    ELSE IF total(Chosen(t)) # 0 THEN total(Chosen(t)) ELSE None

FundDoubts(t) ==
    LET sum == total(Chosen(t))
    IN  (IF stated_fund(t) = None
         THEN (IF sum = 0 THEN {"prize_fund"} ELSE {})
         ELSE (IF counter_fund(t) /\ sum # stated_fund(t) THEN {"prize_fund"} ELSE {})
              \cup (IF sum # 0 /\ sum # stated_fund(t) THEN {"prize_fund", "prizes"} ELSE {}))
        \cup (IF stated_fund(t) = None /\ prizes(t.found) = <<>> /\ Chosen(t) # <<>>
              THEN {"prizes"} ELSE {})

-----------------------------------------------------------------------------
\* Dates.

Distance(year, day) ==
    LET d == (year - ThisYear) * Year + day - Today IN IF d < 0 THEN -d ELSE d

\* The years near this one that have the day; the nearest of them.
Candidates(day) == ((ThisYear - 1)..(ThisYear + 1)) \cap YearsOf[day]
nearest_year(day) ==
    CHOOSE y \in Candidates(day) : \A o \in Candidates(day) :
        Distance(y, day) < Distance(o, day) \/ (Distance(y, day) = Distance(o, day) /\ y <= o)

At(m) == (IF m.year = None THEN nearest_year(m.day) ELSE m.year) * Year + m.day

\* A date of a year that does not have the day is passed over; without a year
\* the nearest one is sought first, among none if no near year has the day.
Breaks(t) == \E i \in DOMAIN t.dates : t.dates[i].year = None /\ Candidates(t.dates[i].day) = {}
Readable(t) ==
    {i \in DOMAIN t.dates : t.dates[i].year # None => t.dates[i].year \in YearsOf[t.dates[i].day]}

\* The first date and the first one after it.
Moments(t) ==
    LET first == t.dates[Min(Readable(t))]
        later == {i \in Readable(t) : At(t.dates[i]) > At(first)}
    IN  CASE Readable(t) = {}                  -> <<>>
          [] Readable(t) # {} /\ later = {} -> <<first>>
          [] OTHER                          -> <<first, t.dates[Min(later)]>>

starts_at(t) == IF Moments(t) = <<>> THEN None ELSE At(Moments(t)[1])
found_end(t) ==
    CASE Len(Moments(t)) = 2 -> At(Moments(t)[2])
      [] Len(Moments(t)) = 1 /\ t.monthly -> starts_at(t) + MonthDays
      [] OTHER -> None
Inverted(t) == found_end(t) # None /\ found_end(t) <= starts_at(t)
ends_at(t) == IF Inverted(t) THEN starts_at(t) + Far ELSE found_end(t)

\* The time zone is known when one of the dates or the text says so.
ZoneUnknown(t) ==
    LET moments == Moments(t)
    IN  \/ \E i \in DOMAIN moments : moments[i].app
        \/ ~t.msk /\ ~\E i \in DOMAIN moments : moments[i].msk

DateDoubts(t) ==
    CASE Moments(t) = <<>> -> {"starts_at", "ends_at"}
      [] OTHER -> (IF Len(Moments(t)) = 1 \/ Inverted(t) THEN {"ends_at"} ELSE {})
                  \cup (IF ZoneUnknown(t)
                        THEN {"starts_at"} \cup (IF found_end(t) # None THEN {"ends_at"} ELSE {})
                        ELSE {})

-----------------------------------------------------------------------------
\* The club is the one named, or the first of the union named.
club(t) == IF t.named THEN "named" ELSE IF t.union > 0 THEN "first" ELSE None
ClubDoubts(t) == IF ~t.named /\ t.union # 1 THEN {"club_id"} ELSE {}

parse_promo ==
    /\ outcome = "none" /\ ~Breaks(text)
    /\ outcome' = "draft"
    /\ draft' =
         [fund |-> prize_fund(text), prizes |-> Chosen(text), club |-> club(text),
          starts |-> starts_at(text), ends |-> ends_at(text),
          uncertain |-> FundDoubts(text) \cup DateDoubts(text) \cup ClubDoubts(text)]
    /\ UNCHANGED text

\* min of no candidate raises, and the request fails.
ParseFails ==
    /\ outcome = "none" /\ Breaks(text)
    /\ outcome' = "broken"
    /\ UNCHANGED <<text, draft>>

Next == parse_promo \/ ParseFails
Spec == Init /\ [][Next]_vars

-----------------------------------------------------------------------------
\* "Everything the parser is not sure of is marked": a field it left empty, an
\* end not after the start, prizes that do not add up to the fund though they
\* are money, and a fund two readings disagree about.
UnsureIsMarked ==
    outcome = "draft" =>
      /\ draft.fund = None => "prize_fund" \in draft.uncertain
      /\ draft.club = None => "club_id" \in draft.uncertain
      /\ draft.starts = None => "starts_at" \in draft.uncertain
      /\ draft.ends = None => "ends_at" \in draft.uncertain
      /\ draft.starts # None /\ draft.ends # None => draft.starts < draft.ends
      /\ total(draft.prizes) \notin {0, draft.fund} => {"prizes", "prize_fund"} \subseteq draft.uncertain
      /\ \/ total(draft.prizes) = draft.fund
         \/ draft.fund \notin {total(prizes(text.found)),
                               total(unnumbered_prizes(text.amounts, stated_fund(text)))}
         \/ draft.fund = 0

\* Whatever dates the text holds, the manager gets a draft: a date that cannot
\* be is passed over (the "except ValueError: continue" of _moments).
AlwaysADraft == outcome # "broken"
=============================================================================
