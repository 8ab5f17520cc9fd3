---------------------------- MODULE ApprovalFlow ----------------------------
(***************************************************************************)
(* What deciding a request means to the people involved: a request waits   *)
(* at one stage, one decision is taken there, and the decision and the     *)
(* move it causes are one event.  A manager's approval passes the request  *)
(* on; any other decision ends it.  Requests.tla implements this with a    *)
(* lock, half a dozen separate writes and many calls at once.              *)
(***************************************************************************)
CONSTANTS
    Cases,      \* the requests
    Stages,     \* where a case can wait for a decision
    First,      \* the stage that passes cases on
    Onward      \* the stages it passes them on to

VARIABLES
    place,      \* a stage, or "new", "filed", "noted", "approved", "rejected"
    log         \* decisions taken

flowVars == <<place, log>>

FlowInit ==
    /\ place = [k \in Cases |-> "new"]
    /\ log = {}

Submit(k) ==
    /\ place[k] = "new"
    /\ place' = [place EXCEPT ![k] = "filed"]
    /\ UNCHANGED log

Route(k) ==
    /\ place[k] = "filed"
    /\ \E p \in Stages \cup {"noted"} : place' = [place EXCEPT ![k] = p]
    /\ UNCHANGED log

(* The case waits here, and nothing was decided here before. *)
Decide(k, decision, target) ==
    /\ place[k] \in Stages
    /\ \A e \in log : e.case # k \/ e.stage # place[k]
    /\ log' = log \cup {[case |-> k, stage |-> place[k], decision |-> decision]}
    /\ place' = [place EXCEPT ![k] = target]

PassOn(k)  == place[k] = First /\ \E p \in Onward : Decide(k, "APPROVED", p)
Approve(k) == place[k] # First /\ Decide(k, "APPROVED", "approved")
Reject(k)  == Decide(k, "REJECTED", "rejected")

FlowNext == \E k \in Cases : Submit(k) \/ Route(k) \/ PassOn(k) \/ Approve(k) \/ Reject(k)

FlowSpec == FlowInit /\ [][FlowNext]_flowVars

=============================================================================
