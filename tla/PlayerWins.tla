----------------------------- MODULE PlayerWins -----------------------------
(***************************************************************************)
(* The players' winnings of the feed (services/feed): a manager enters them *)
(* by hand or uploads the week as CSV, which completes what was entered by  *)
(* hand instead of doubling it. No constraint of the table says what a      *)
(* double is: the import compares with the rows it read.                    *)
(***************************************************************************)
EXTENDS Integers, Sequences

CONSTANTS
    None,       \* NULL
    Managers,   \* requests in flight
    Forms,      \* wins typed by hand: club, nick, title, place, on, valid
    Files,      \* weeks uploaded: sequences of the same records
    Within,     \* pairs of titles one of which contains the other, read without case and emoji
    MaxWins     \* bound: rows ever written

VARIABLES
    wins,       \* player_wins: rows by id, in the order they were written
    request,    \* each manager's import: the file and the rows it has read
    overlap,    \* history: rows an import wrote beside rows it had not read
    imported,   \* history: rows written by imports
    next        \* history: the next id

vars == <<wins, request, overlap, imported, next>>

Quiet == [step |-> "idle"]
Row(id, l) == [id |-> id, club |-> l.club, nick |-> l.nick, title |-> l.title, place |-> l.place, on |-> l.on]

Init ==
    /\ wins = {} /\ overlap = {} /\ imported = {} /\ next = 1
    /\ request = [m \in Managers |-> Quiet]

SameTitle(a, b) == a = b \/ <<a, b>> \in Within \/ <<b, a>> \in Within

\* Place and prize are not compared: a satellite pays several the same.
Same(a, b) == a.on = b.on /\ a.club = b.club /\ a.nick = b.nick /\ SameTitle(a.title, b.title)

create_win(l) ==
    /\ next <= MaxWins /\ l.valid
    /\ wins' = wins \cup {Row(next, l)}
    /\ next' = next + 1
    /\ UNCHANGED <<request, overlap, imported>>

delete_win(w) ==
    /\ wins' = wins \ {w}
    /\ UNCHANGED <<request, overlap, imported, next>>

\* Lines that cannot be read are named in the answer; the others go on.
Readable(file) == {i \in DOMAIN file : file[i].valid}

\* The rows of the days of the file.
Known(file) ==
    {w \in wins : \E i, j \in Readable(file) : file[i].on <= w.on /\ w.on <= file[j].on}

ImportRead(m, file) ==
    /\ request[m] = Quiet /\ Readable(file) # {}
    /\ request' = [request EXCEPT ![m] = [step |-> "read", file |-> file, known |-> Known(file)]]
    /\ UNCHANGED <<wins, overlap, imported, next>>

Twins_ByPlace(l, known) == {w \in known : Same(w, l) /\ w.place = l.place}

\* The rows known that are the same win; the query has no order, the oldest
\* row stands for whichever comes first.
Twins(l, known) == {w \in known : Same(w, l)}
First(twins) == CHOOSE w \in twins : \A o \in twins : w.id <= o.id

WithPlace(w, l) == [w EXCEPT !.place = IF w.place = None THEN l.place ELSE w.place]

\* One line: it is added, or completes the first row it equals.
Line(acc, l) ==
    LET same == First(Twins(l, acc.known))
        filled == WithPlace(same, l)
        new == Row(acc.next, l)
    IN  IF ~l.valid THEN acc
        ELSE IF Twins(l, acc.known) = {}
        THEN [known |-> acc.known \cup {new}, added |-> acc.added \cup {new},
              filled |-> acc.filled, next |-> acc.next + 1]
        ELSE [known |-> (acc.known \ {same}) \cup {filled},
              added |-> IF same \in acc.added THEN (acc.added \ {same}) \cup {filled} ELSE acc.added,
              filled |-> IF same \in acc.added \/ filled = same THEN acc.filled
                         ELSE acc.filled \cup {filled},
              next |-> acc.next]

\* The rows known, written and filled, before the first line and after each.
Begun(known) == [known |-> known, added |-> {}, filled |-> {}, next |-> next]

Lines(known, file) ==
    LET acc[k \in 0..Len(file)] ==
          IF k = 0 THEN Begun(known) ELSE Line(acc[k - 1], file[k])
    IN  acc

Merge(m) == Lines(request[m].known, request[m].file)[Len(request[m].file)]

Ids(S) == {w.id : w \in S}

\* Filling the place of a row deleted meanwhile refuses the whole file.
Writable(m) == Ids(Merge(m).filled) \subseteq Ids(wins)

Filled(w, filled) ==
    IF w.id \in Ids(filled)
    THEN [w EXCEPT !.place = (CHOOSE f \in filled : f.id = w.id).place] ELSE w

ImportCommit(m) ==
    /\ request[m].step = "read" /\ Writable(m)
    /\ LET merged == Merge(m)
           unread == Ids(wins) \ Ids(request[m].known)
       IN  /\ merged.next <= MaxWins + 1
           /\ wins' = {Filled(w, merged.filled) : w \in wins} \cup merged.added
           /\ next' = merged.next
           /\ imported' = imported \cup Ids(merged.added)
           /\ overlap' = overlap \cup
                {a.id : a \in {w \in merged.added : \E o \in wins : o.id \in unread /\ Same(o, w)}}
    /\ request' = [request EXCEPT ![m] = Quiet]

ImportFails(m) ==
    /\ request[m].step = "read" /\ ~Writable(m)
    /\ request' = [request EXCEPT ![m] = Quiet]
    /\ UNCHANGED <<wins, overlap, imported, next>>

Next ==
    \/ \E l \in Forms : create_win(l)
    \/ \E w \in wins : delete_win(w)
    \/ \E m \in Managers, file \in Files : ImportRead(m, file)
    \/ \E m \in Managers : ImportCommit(m) \/ ImportFails(m)

Spec == Init /\ [][Next]_vars

-----------------------------------------------------------------------------
\* A week uploaded once more, or over what was entered by hand, doubles no
\* win: a row an import wrote equals no earlier row, except one that was
\* written while the import was under way (import_wins_csv: "without
\* doubles").
ImportAddsNoTwin ==
    \A w, o \in wins :
        w.id \in imported /\ o.id < w.id /\ Same(o, w) => w.id \in overlap
=============================================================================
