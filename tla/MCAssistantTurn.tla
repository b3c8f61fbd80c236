--------------------------- MODULE MCAssistantTurn ---------------------------
(* Small instance of AssistantTurn alone. *)
EXTENDS AssistantTurn
=============================================================================
