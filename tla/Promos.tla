------------------------------- MODULE Promos -------------------------------
(***************************************************************************)
(* Promotions (services/promos): managers write and publish them, a loop    *)
(* leaves a draft for the next month when a published monthly one is over,  *)
(* players see the published ones that run or are about to. A month is a    *)
(* run of days: add_month keeps the day of the month or takes the last one. *)
(***************************************************************************)
EXTENDS Integers, FiniteSets, Sequences

CONSTANTS
    None,       \* NULL
    Written, Renewals, \* promotions.id: of those managers write, of those the loop does
    Managers,   \* requests in flight
    Forms,      \* what managers send: state, monthly, starts, ends
    MonthLengths, \* days of each month of the calendar
    MaxDay, MaxEdits  \* bounds

Ids == Written \cup Renewals

VARIABLES
    today,
    promos,     \* promotions: rows by id
    edit,       \* each manager's update: the row it read and the body
    renewal,    \* the loop's pass: the promotions that are due
    edits       \* history: requests so far, for the bound

vars == <<today, promos, edit, renewal, edits>>

NoPromo == [state |-> "none", monthly |-> FALSE, starts |-> None, ends |-> None, from |-> None]
Quiet == [step |-> "idle"]
Exists(p) == promos[p].state # "none"

(***************************************************************************)
(* What a manager may send (PromotionWrite).                               *)
(***************************************************************************)
Bodies ==
    {b \in Forms :
        /\ b.starts # None /\ b.ends # None => b.starts < b.ends
        /\ b.state = "published" => b.starts # None /\ b.ends # None}

Init ==
    /\ today = 0 /\ edits = 0
    /\ promos \in [Ids -> {NoPromo} \cup {[state |-> b.state, monthly |-> b.monthly, from |-> None,
                                        starts |-> b.starts, ends |-> b.ends] : b \in Bodies}]
    /\ Cardinality({p \in Ids : Exists(p)}) <= 1 /\ \A p \in Renewals : ~Exists(p)
    /\ edit = [m \in Managers |-> Quiet]
    /\ renewal = Quiet

\* The calendar: the first day of each month, and the month of a day.
FirstDay[m \in DOMAIN MonthLengths] == IF m = 1 THEN 0 ELSE FirstDay[m - 1] + MonthLengths[m - 1]
Month(d) == CHOOSE m \in DOMAIN MonthLengths : FirstDay[m] <= d /\ d < FirstDay[m] + MonthLengths[m]

add_month(d) ==
    LET next == Month(d) + 1
        day == d - FirstDay[Month(d)]
        last == MonthLengths[next] - 1
    IN  FirstDay[next] + (IF day > last THEN last ELSE day)

-----------------------------------------------------------------------------
Edit == edits < MaxEdits /\ edits' = edits + 1

create(p, body) ==
    /\ p \in Written /\ ~Exists(p) /\ Edit
    /\ \A q \in Ids : promos[q].from # p
    /\ promos' = [promos EXCEPT ![p] =
          [state |-> body.state, monthly |-> body.monthly,
           starts |-> body.starts, ends |-> body.ends, from |-> None]]
    /\ UNCHANGED <<today, edit, renewal>>

\* A draft from a text or a picture: whatever the parser read, and no body that
\* anybody checks.
create_from_text(p, parsed) ==
    /\ p \in Written /\ ~Exists(p) /\ Edit
    /\ \A q \in Ids : promos[q].from # p
    /\ promos' = [promos EXCEPT ![p] =
          [state |-> "draft", monthly |-> parsed.monthly,
           starts |-> parsed.starts, ends |-> parsed.ends, from |-> None]]
    /\ UNCHANGED <<today, edit, renewal>>

UpdateRead(m, p, body) ==
    /\ edit[m] = Quiet /\ Exists(p) /\ Edit
    /\ edit' = [edit EXCEPT ![m] = [step |-> "read", id |-> p, old |-> promos[p], body |-> body]]
    /\ UNCHANGED <<today, promos, renewal>>

\* _apply assigns every field; the ones that equal what was read are not
\* written.
Assigned(m, field) ==
    LET e == edit[m]
    IN  IF e.body[field] = e.old[field] THEN promos[e.id][field] ELSE e.body[field]

UpdateCommit(m) ==
    /\ edit[m].step = "read" /\ Exists(edit[m].id)
    /\ LET p == edit[m].id
       IN  /\ promos' = [promos EXCEPT ![p] =
                 [@ EXCEPT !.state = Assigned(m, "state"), !.monthly = Assigned(m, "monthly"),
                           !.starts = Assigned(m, "starts"), !.ends = Assigned(m, "ends")]]
    /\ edit' = [edit EXCEPT ![m] = Quiet]
    /\ UNCHANGED <<today, renewal, edits>>

UpdateFails(m) ==
    /\ edit[m].step = "read" /\ ~Exists(edit[m].id)
    /\ edit' = [edit EXCEPT ![m] = Quiet]
    /\ UNCHANGED <<today, promos, renewal, edits>>

\* The draft made of it stays, of nothing.
delete(p) ==
    /\ Exists(p) /\ Edit
    /\ promos' = [q \in Ids |->
          IF q = p THEN NoPromo
          ELSE IF promos[q].from = p THEN [promos[q] EXCEPT !.from = None] ELSE promos[q]]
    /\ UNCHANGED <<today, edit, renewal>>

-----------------------------------------------------------------------------
\* The loop.

Over(p) ==
    /\ promos[p].state = "published" /\ promos[p].monthly
    /\ promos[p].starts # None /\ promos[p].ends # None /\ promos[p].ends <= today

Renewed(p) == \E q \in Ids : promos[q].from = p

Ended_All == {p \in Ids : Over(p)}
Ended == {p \in Ids : Over(p) /\ ~Renewed(p)}

RenewRead ==
    /\ renewal = Quiet /\ Ended # {}
    /\ renewal' = [step |-> "read", due |-> Ended, old |-> promos]
    /\ UNCHANGED <<today, promos, edit, edits>>

\* The copied row must still be there, and have no draft yet.
Insertable == \A p \in renewal.due : Exists(p) /\ ~Renewed(p)

\* New ids: the first free ones.
Drafts(due) ==
    LET free == {p \in Renewals : ~Exists(p)}
    IN  {new \in [due -> free] :
            /\ \A p, q \in due : p < q => new[p] < new[q]
            /\ \A q \in due, f \in free : f < new[q] => \E o \in due : new[o] = f}

RenewCommit ==
    /\ renewal.step = "read" /\ Insertable
    /\ \E new \in Drafts(renewal.due) :
          promos' = [n \in Ids |->
              IF \E p \in renewal.due : new[p] = n
              THEN LET p == CHOOSE p \in renewal.due : new[p] = n
                   IN  [state |-> "draft", monthly |-> renewal.old[p].monthly, from |-> p,
                        starts |-> renewal.old[p].ends, ends |-> add_month(renewal.old[p].ends)]
              ELSE promos[n]]
    /\ renewal' = Quiet
    /\ UNCHANGED <<today, edit, edits>>

RenewFails ==
    /\ renewal.step = "read" /\ ~Insertable
    /\ renewal' = Quiet
    /\ UNCHANGED <<today, promos, edit, edits>>

Tick == today < MaxDay /\ today' = today + 1 /\ UNCHANGED <<promos, edit, renewal, edits>>

Next ==
    \/ \E p \in Ids : delete(p) \/ \E body \in Bodies : create(p, body)
    \/ \E p \in Ids, parsed \in Forms : create_from_text(p, parsed)
    \/ \E m \in Managers, p \in Ids, body \in Bodies : UpdateRead(m, p, body)
    \/ \E m \in Managers : UpdateCommit(m) \/ UpdateFails(m)
    \/ RenewRead \/ RenewCommit \/ RenewFails
    \/ Tick

Spec == Init /\ [][Next]_vars

\* The loop passes again and again, and a pass ends.
Fairness == WF_vars(RenewRead) /\ WF_vars(RenewCommit \/ RenewFails)

-----------------------------------------------------------------------------

\* "A monthly promotion that is over leaves a draft for the next month": it
\* gets one though passes fail on rows deleted or renewed meanwhile, unless it
\* is taken back first (renew_monthly).
RenewalComes == \A p \in Ids : Over(p) /\ ~Renewed(p) ~> Renewed(p) \/ ~Over(p)
=============================================================================
