--------------------------- MODULE MCConversation ---------------------------
(* Instances of Conversation for TLC. *)
EXTENDS Conversation

CONSTANTS r1, r2, chat, other

\* Two messages of one conversation, or one in each of two.
MCPlacements ==
    {[r \in Requests |-> chat], [r \in Requests |-> IF r = r1 THEN chat ELSE other]}

=============================================================================
