---------------------------- MODULE MCCodexOriginal ----------------------------
(* The original codex tool run over the same stdout streams as             *)
(* MCCodexExecute.                                                          *)
EXTENDS CodexOriginal, MCCodexExecute
=============================================================================
