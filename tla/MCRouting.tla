----------------------------- MODULE MCRouting ------------------------------
(***************************************************************************)
(* A tenant with one administrator, two employees and one or two roles,    *)
(* the first held by one of the employees.                                 *)
(***************************************************************************)
EXTENDS Routing, TLC

CONSTANTS adm, joe, kim, hr, it, people, devices

RowOf(admin, lead) ==
    [admin |-> admin, reachable |-> TRUE, onLeave |-> FALSE, formal |-> FALSE,
     lead |-> lead]

SmallTeam == [u \in Users |-> IF u = joe THEN RowOf(FALSE, kim) ELSE RowOf(u = adm, NoOne)]

OneRole == [t \in Tags |-> IF t = hr THEN people ELSE NoName]

KimIsHr == {<<kim, hr>>}

CallSymmetry == Permutations(Calls)

=============================================================================
