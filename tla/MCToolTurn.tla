----------------------------- MODULE MCToolTurn -----------------------------
(* Small instances of ToolTurn: the deliveries of one task and the decisions *)
(* its language model may return.                                           *)
EXTENDS ToolTurn
=============================================================================
