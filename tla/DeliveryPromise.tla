-------------------------- MODULE DeliveryPromise --------------------------
(***************************************************************************)
(* What the notification queue promises to those who put rows in it: a     *)
(* row is called sent only when it reached somebody, it reaches nobody     *)
(* unless it is pending, and how it ended is final until it is withdrawn.  *)
(***************************************************************************)
CONSTANT Notices

VARIABLES
  status,    \* of each notification
  reached    \* the notifications that got to a device or a chat

vars == <<status, reached>>

Init == status = [n \in Notices |-> "absent"] /\ reached = {}

\* New notifications, for all channels of a user at once.
Place(rows) ==
  /\ \A n \in rows : status[n] = "absent"
  /\ status' = [n \in Notices |-> IF n \in rows THEN "pending" ELSE status[n]]
  /\ UNCHANGED reached

Reach(n) ==
  /\ status[n] = "pending"
  /\ reached' = reached \cup {n}
  /\ UNCHANGED status

\* The end of a batch: some of its rows were sent, some are given up, the others
\* stay pending.
Settle(sent, failed) ==
  /\ sent \cap failed = {}
  /\ \A n \in sent \cup failed : status[n] = "pending"
  /\ sent \subseteq reached
  /\ status' = [n \in Notices |->
                  IF n \in sent THEN "sent" ELSE IF n \in failed THEN "failed" ELSE status[n]]
  /\ UNCHANGED reached

Withdraw(rows) ==
  /\ \A n \in rows : status[n] # "absent"
  /\ status' = [n \in Notices |-> IF n \in rows THEN "withdrawn" ELSE status[n]]
  /\ UNCHANGED reached

Next ==
  \/ \E rows \in SUBSET Notices : Place(rows) \/ Withdraw(rows)
  \/ \E n \in Notices : Reach(n)
  \/ \E sent, failed \in SUBSET Notices : Settle(sent, failed)

Spec == Init /\ [][Next]_vars
=============================================================================
