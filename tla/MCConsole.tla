----------------------------- MODULE MCConsole -----------------------------
(***************************************************************************)
(* Two rows and one that may be created, two tags and one that may be; every page in turn.     *)
(***************************************************************************)
EXTENDS Console

CONSTANTS u1, u2, u3, t1, t2, t3

AllPages == DOMAIN FieldsOf

EventsOf == [p \in Pages |-> IF p = "team" THEN 2 ELSE 3]

Symmetry == Permutations({u1, u2}) \cup Permutations({t1, t2})

=============================================================================
