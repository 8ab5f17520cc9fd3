------------------------------- MODULE MCDesk -------------------------------
(***************************************************************************)
(* A manager and an employee use one browser.  The manager's request is    *)
(* routed to a role the employee holds, the notification is for the        *)
(* employee.                                                               *)
(***************************************************************************)
EXTENDS Desk

CONSTANTS boss, emp

Requesters == [r \in Requests |-> boss]

Recipients == [n \in Notes |-> emp]

=============================================================================
