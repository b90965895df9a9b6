--------------------------- MODULE MCCodexExecute ---------------------------
EXTENDS CodexExecute

\* stdout streams: a line split across chunks, blank and malformed lines,
\* an unterminated last line, an empty agent message after a real one,
\* an item.completed event without its item.
MCOutputs ==
  { <<"turn", NL, "msgC1", "msgC2", NL, "msgA">>,
    <<"msgA", NL, NL, "junk", NL, "msgEmpty", NL>>,
    <<"msgB", NL, "msgC1", "msgC2">>,
    <<"noItem", NL, "msgA", NL>> }
=============================================================================
