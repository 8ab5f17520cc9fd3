--------------------------- MODULE MCConversation ---------------------------
(***************************************************************************)
(* An employee who writes and sends files in Slack, and one who does not;  *)
(* both use the browser.  One request is there to be joined.               *)
(***************************************************************************)
EXTENDS Conversation, TLC

CONSTANTS joe, kim, text, files, r0

Senders == [e \in Events |-> joe]

RowSymmetry == Permutations(Calls) \cup Permutations(Convs) \cup Permutations(Requests \ {r0})

=============================================================================
