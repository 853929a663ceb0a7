---------------------------- MODULE MCAgentInbox ----------------------------
(* Instances of AgentInbox for TLC. *)
EXTENDS AgentInbox, TLC

CONSTANTS w, r, a, b, n1, n0

(* Envelope files: one signed by its author, one whose content was edited. *)
Signed == [id |-> a, nonce |-> n1, sender |-> None, intact |-> TRUE, signed |-> TRUE]
Edited == [id |-> a, nonce |-> None, sender |-> None, intact |-> FALSE, signed |-> TRUE]
MCForeign == {Signed, Edited}

MCShared == w :> {"init", "append", "send"} @@ r :> {"send", "receive"}
MCSender == w :> {"send", "receive"}
=============================================================================
