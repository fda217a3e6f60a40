---------------------------- MODULE ChipLifecycle ----------------------------
(***************************************************************************)
(* What one chip request goes through, as its managers and players see it: *)
(* the docstring of models/chips.py ChipRequest together with the          *)
(* cancellation of services/chips.py.  A request is created, may be        *)
(* accepted or billed, may be paid, and ends once, in one final status.    *)
(***************************************************************************)
CONSTANT Requests

VARIABLES status, kind

Open == {"sent", "accepted", "awaiting_payment", "paid"}

\* The statuses a request may be in just before it gets the status to.
Before(to) ==
  CASE to = "accepted"         -> {"sent"}
    [] to = "awaiting_payment" -> {"sent", "accepted"}
    [] to = "paid"             -> {"awaiting_payment"}
    [] to = "expired"          -> {"awaiting_payment"}
    [] to = "cancelled"        -> {"sent", "accepted", "awaiting_payment"}
    [] to = "completed"        -> Open
    [] to = "rejected"         -> Open

Init ==
  /\ status = [r \in Requests |-> "absent"]
  /\ kind = [r \in Requests |-> "topup"]

Create(r) ==
  /\ status[r] = "absent"
  /\ status' = [status EXCEPT ![r] = "sent"]
  /\ \E k \in {"topup", "withdrawal"} : kind' = [kind EXCEPT ![r] = k]

Advance(r, to) ==
  /\ status[r] \in Before(to)
  /\ to = "awaiting_payment" => kind[r] = "topup"
  /\ status' = [status EXCEPT ![r] = to]
  /\ UNCHANGED kind

\* One pass may let several requests expire.
Expire(S) ==
  /\ \A r \in S : status[r] \in Before("expired")
  /\ status' = [r \in Requests |-> IF r \in S THEN "expired" ELSE status[r]]
  /\ UNCHANGED kind

Next ==
  \/ \E r \in Requests : Create(r)
  \/ \E r \in Requests :
       \E to \in {"accepted", "awaiting_payment", "paid", "cancelled", "completed", "rejected"} :
         Advance(r, to)
  \/ \E S \in (SUBSET Requests) \ {{}} : Expire(S)

Spec == Init /\ [][Next]_<<status, kind>>
=============================================================================
