------------------------------ MODULE MCOffice ------------------------------
(* Values of the constants of Office for TLC. *)
EXTENDS Office, TLC

CONSTANTS
    r1, r2,     \* requests, managers, snapshots
    u1, u2,     \* people
    f1, f2, f3, \* files, sessions, connections
    x1, x2      \* posts, promotions, clubs, chats, dialogues

\* Feed: starts of club a, one in the first evening whose late registration
\* outlives the day, three on the second, the biggest of them over by the
\* evening and the last a satellite; a cheap satellite to the evening's start,
\* and a way into a live event. Club b plays that evening for fewer chips and
\* more rubles.
Start(club, name, at, late, guarantee, sat, ticket, live) ==
    [club |-> club, name |-> name, at |-> at, late |-> late, guarantee |-> guarantee,
     sat |-> sat, ticket |-> ticket, live |-> live]
MCGrid ==
    1 :> Start("a", "x", 5, 5, 3, None, None, None) @@ 2 :> Start("a", "y", 2, 5, 3, None, None, None)
    @@ 3 :> Start("a", "x", 6, 7, 1, None, None, None) @@ 4 :> Start("a", "x", 6, 6, 2, "y", 2, None)
    @@ 5 :> Start("a", "x", 5, 5, 0, "x", 1, None)     @@ 6 :> Start("a", "x", 6, 6, 0, None, None, "wpt")
    @@ 7 :> Start("b", "x", 6, 6, 2, None, None, None)
MCStarts == DOMAIN MCGrid
MCRate == [c \in {"a", "b"} |-> 1]
\* In halves of a ruble: of two starts of club a one rounds up and one to nothing.
MCRub  == "a" :> 1 @@ "b" :> 3
MCBodies == {[delay |-> None, life |-> None, pinned |-> FALSE], [delay |-> 1, life |-> 1, pinned |-> TRUE]}

\* PlayerWins: lines of a week and wins typed by hand; "gk" is within "gk main".
Line(title, place, valid) ==
    [club |-> "c", nick |-> "n", title |-> title, place |-> place, on |-> 1, valid |-> valid]
MCForms  == {Line("gk", None, TRUE), Line("main", 2, TRUE)}
MCWeeks  == {<<Line("gk main", 1, TRUE)>>,
             <<Line("gk", 1, FALSE), Line("main", None, TRUE), Line("gk", 1, TRUE)>>}
MCWithin == {<<"gk", "gk main">>, <<"main", "gk main">>}

\* CashDesk: one game with two limits, a pick of each and one of all limits.
MCGameOf  == [l \in {"l1", "l2"} |-> "nlh"]
MCPickSeq == <<[game |-> "nlh", limit |-> "l1"], [game |-> "nlh", limit |-> None],
               [game |-> "nlh", limit |-> "l2"]>>

\* Promos: two months of three days with a month of one day between them.
Form(state, monthly, starts, ends) ==
    [state |-> state, monthly |-> monthly, starts |-> starts, ends |-> ends]
MCMonthLengths == <<3, 1, 3>>
MCPromoForms == {Form("published", TRUE, 0, 2), Form("published", TRUE, 2, 3),
                 Form("draft", TRUE, None, 2), Form("published", FALSE, 0, 3)}

\* PromoParse: texts with prizes and no dates, and texts with dates.
Date(day, year, msk, app) == [day |-> day, year |-> year, msk |-> msk, app |-> app]
MCMoneyTexts ==
    [found : UNION {[S -> {x1, 1, 3}] : S \in SUBSET (1..2)},
     amounts : {<<>>, <<1>>, <<3, 1>>, <<4, 2, 1>>, <<2, 2>>, <<3, 1, 2>>},
     fund : {None, 4, 3}, counter : {None, 4}, image : BOOLEAN, dates : {<<>>},
     monthly : {FALSE}, msk : {FALSE}, named : BOOLEAN, union : 0..2]
MCDates == {Date(1, None, TRUE, FALSE), Date(3, None, FALSE, TRUE), Date(4, None, FALSE, FALSE),
            Date(5, None, FALSE, FALSE), Date(2, 2, FALSE, FALSE), Date(5, 2, FALSE, FALSE)}
MCDateTexts ==
    [found : {<<>>}, amounts : {<<>>}, fund : {None}, counter : {None}, image : {FALSE},
     dates : UNION {[1..n -> MCDates] : n \in 0..3},
     monthly : BOOLEAN, msk : BOOLEAN, named : {TRUE}, union : {0}]
MCTexts == MCMoneyTexts \cup MCDateTexts
\* Day 5 is no day of any year, day 4 one of leap years only.
MCYearsOf == [d \in 1..5 |-> IF d = 5 THEN {} ELSE IF d = 4 THEN {1} ELSE 0..4]

\* Sessions: one admin and one user.
MCInitRole == [u \in {u1, u2} |-> IF u = u1 THEN "admin" ELSE "user"]

\* Sheets: weeks of three days, days of four hours, the third year a leap year.
SheetLine(name, at, check, buyin) ==
    [kind |-> "line", name |-> name, at |-> at, check |-> check, buyin |-> buyin,
     levels |-> 2, length |-> 3, date |-> None, closed |-> FALSE,
     monthly |-> None, days |-> None, column |-> TRUE]
Regular == SheetLine(<<"main">>, 4, None, 5)
MCYears == <<10, 10, 11>>
MCSheetRows == [
    nuts |-> {[kind |-> "header", whole |-> TRUE], [kind |-> "header", whole |-> FALSE],
              [kind |-> "day", day |-> 1], [kind |-> "day", day |-> 3],
              Regular, SheetLine(<<"main">>, 20, 4, 5), SheetLine(<<"main">>, 20, 5, None),
              SheetLine(<<"main">>, None, None, 5)},
    prosto |-> {[kind |-> "header"], [kind |-> "sides"], [kind |-> "day", day |-> 1],
                [kind |-> "date", day |-> 3, doy |-> 8],
                [kind |-> "date", day |-> 1, doy |-> 1], [kind |-> "date", day |-> 2, doy |-> 11],
                Regular, SheetLine(<<"free", "sat", "main">>, 4, None, None),
                [SheetLine(<<"sat", "main">>, 9, None, 1) EXCEPT !.levels = 4]},
    manual |-> {[Regular EXCEPT !.days = {1, 2}], [Regular EXCEPT !.days = {2, 3}], Regular,
                [Regular EXCEPT !.days = {1, 2}, !.length = None],
                [Regular EXCEPT !.column = FALSE], [Regular EXCEPT !.monthly = [day |-> 2, week |-> 1]],
                [Regular EXCEPT !.date = [year |-> None, doy |-> 1]],
                [Regular EXCEPT !.date = [year |-> 2, doy |-> 11]]}]

\* Crm: the active base, one tag and the sleeping; a block and a tag.
MCSegments == {[kind |-> "all", of |-> None], [kind |-> "tag", of |-> x1],
               [kind |-> "sleeping", of |-> None]}
MCCards == {[status |-> "blocked"], [tags |-> {x1}]}

\* References: a club that joins or leaves a union, and the pair of its chip
\* rate, whole and by halves; on the second day the bank repeats the first.
MCClubBodies == {[organizer |-> f1], [organizer |-> None], [chip_value |-> 1, chip_currency |-> "USD"],
                 [chip_value |-> 2], [chip_value |-> None, chip_currency |-> None]}
MCSeeded == [u \in {f1, f2} |-> IF u = f1 THEN "s1" ELSE None]
MCEffectiveOn == <<1, 1>>
=============================================================================
