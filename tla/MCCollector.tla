---------------------------- MODULE MCCollector ----------------------------
(* One grid of one tournament on two days; the lobby shows it at another     *)
(* buy-in, under another name, late, next to a newcomer, twice under one      *)
(* name, or not at all.                                                      *)
EXTENDS Collector, TLC

MCFiles ==
    { [source |-> "sheet",
       drafts |-> {[name |-> "sat", kind |-> "weekly", days |-> {0, 1}, core |-> 1,
                    late |-> None, lobby |-> None]}] }

MCInitStarts == {[i \in Identity |-> NoStart]}

X(d, n, c, l) == [day |-> d, name |-> n, core |-> c, late |-> l]

MCLobbies == { <<>>,
               <<X(0, "sat", 2, 1)>>,
               <<X(0, "knockout", 1, None), X(0, "knockout", 2, None)>>,
               <<X(0, "knockout", 1, None), X(1, "knockout", 2, 1)>> }

Symmetry == Permutations(Managers)
=============================================================================
