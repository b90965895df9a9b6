------------------------------ MODULE MCCodexAuth ------------------------------
(* Two concurrent getCodexCliAuth callers next to the Codex CLI: the first *)
(* access token may expire within the leeway from the start or after a    *)
(* tick, so refreshes by both callers and by the CLI overlap.              *)
EXTENDS CodexAuth, TLC

CONSTANTS c1, c2

MCCallers == {c1, c2}

\* Nothing in getCodexCliAuth tells two callers apart.
CallerSymmetry == Permutations(MCCallers)
=============================================================================
