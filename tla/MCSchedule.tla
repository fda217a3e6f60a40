----------------------------- MODULE MCSchedule -----------------------------
(* Two tournaments over three days. The second edition of the sheet moves a   *)
(* day of "sat" to a template of its own; a manual file wants "sun" as well.  *)
EXTENDS Schedule, TLC

D(n, k, ds, c, l) ==
    [name |-> n, kind |-> k, days |-> ds, core |-> c, late |-> l, lobby |-> None]

MCFiles ==
    { [source |-> "sheet", drafts |-> {D("sat", "weekly", {1, 2}, 1, 1),
                                       D("sun", "monthly", {2}, 1, None)}],
      [source |-> "sheet", drafts |-> {D("sat", "weekly", {1}, 1, 0),
                                       D("sat", "weekly", {2}, 2, 1)}],
      [source |-> "manual", drafts |-> {D("sun", "weekly", {1, 2}, 2, None)}] }

HandMade == [tpl |-> None, core |-> 2, late |-> 1, lobby |-> None, detached |-> TRUE,
             status |-> "scheduled"]

MCInitStarts ==
    { [i \in Identity |-> NoStart],
      [i \in Identity |-> IF i = <<2, "sat">> THEN HandMade ELSE NoStart] }

Symmetry == Permutations(Handlers)
=============================================================================
