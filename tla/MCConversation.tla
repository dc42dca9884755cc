--------------------------- MODULE MCConversation ---------------------------
(***************************************************************************)
(* Instances of the conversation: one or two chats, two customers, a name  *)
(* of one customer and a name that fits both.                              *)
(***************************************************************************)
EXTENDS Conversation, TLC

CONSTANTS s1, s2, c1, c2, ana, don, bolt, drill, nothing

Matches == [n \in {ana, don} |-> IF n = ana THEN {c1} ELSE {c1, c2}]
Unlike == {}
DrillLikeYes == {drill}

=============================================================================
