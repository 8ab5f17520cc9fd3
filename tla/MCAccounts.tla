----------------------------- MODULE MCAccounts -----------------------------
(***************************************************************************)
(* A tenant with two administrators, one of whom was never in Slack, and a *)
(* Slack workspace with two members, one of whom has no account yet; two   *)
(* global platform administrators.                                         *)
(***************************************************************************)
EXTENDS Accounts, TLC

CONSTANTS adm, ann, n1, n2, root, bob, eve, e1, e2, e3, s2, s3

RowOf(state, email) ==
    [state |-> state, role |-> "SYSTEM_ADMIN", active |-> TRUE, email |-> email,
     password |-> TRUE, slack |-> NoSlack, ties |-> {}]

TwoAdmins == [u \in Users |-> CASE u = adm -> RowOf("live", e1)
                                [] u = ann -> RowOf("live", e2)
                                [] OTHER   -> RowOf("free", e1)]

TwoGlobals == [a \in Staff |-> [state |-> IF a = eve THEN "free" ELSE "live",
                               active |-> TRUE, global |-> TRUE]]

Addresses == [s \in SlackIds |-> IF s = s2 THEN e2 ELSE e3]

Everybody == {adm, ann, root, bob}

CallSymmetry == Permutations(Calls) \cup Permutations({n1, n2})

=============================================================================
