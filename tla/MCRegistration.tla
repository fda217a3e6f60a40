--------------------------- MODULE MCRegistration ---------------------------
EXTENDS Registration

\* Requests are interchangeable, and so are the newcomers.
Interchangeable ==
  {p @@ q : p \in Permutations(Handler), q \in Permutations(Email \ {Root})}
=============================================================================
