----------------------------- MODULE CodexEvents -----------------------------
(***************************************************************************)
(* The data of a codex tool call, shared by the models of its variants and *)
(* by the abstract ToolCall specification: stdout atoms, the JSONL events  *)
(* they parse to, the line reassembly of the stdout 'data' handler, and    *)
(* the shape of the Promise's value (CodexDetails).                        *)
(***************************************************************************)
EXTENDS Naturals, Sequences, FiniteSets

NL == "nl"

\* JSON text a line may consist of.  "msgC1" \o "msgC2" is one line split
\* across two pieces, so a chunk boundary can fall inside it.
Pieces == {"msgA", "msgB", "msgEmpty", "turn", "noItem", "junk", "msgC1", "msgC2"}
Atoms == Pieces \cup {NL}

\* The empty JavaScript string.
EmptyText == ""

Texts == {EmptyText, "A", "B", "C"}
\* An event as the code looks at it: an agent_message item with its text,
\* any other well-formed event, or an item.completed event without `item`.
Events == [kind : {"agent_message", "other", "no_item"}, text : Texts]
AgentMsg(t) == [kind |-> "agent_message", text |-> t]

\* The lines JSON.parse accepts, and the event each parses to.
PieceEvent == {[src |-> <<"msgA">>,           ev |-> AgentMsg("A")],
               [src |-> <<"msgB">>,           ev |-> AgentMsg("B")],
               [src |-> <<"msgEmpty">>,       ev |-> AgentMsg(EmptyText)],
               [src |-> <<"msgC1", "msgC2">>, ev |-> AgentMsg("C")],
               [src |-> <<"turn">>,   ev |-> [kind |-> "other", text |-> EmptyText]],
               [src |-> <<"noItem">>, ev |-> [kind |-> "no_item", text |-> EmptyText]]}

\* What the for-loop makes of a line that is not an event.
Blank == [kind |-> "blank", text |-> EmptyText]
Malformed == [kind |-> "malformed", text |-> EmptyText]

\* `if (!line.trim()) continue;` then `JSON.parse(line)` (throws on
\* anything that is not one JSON value).
Classify(line) ==
  IF line = << >> THEN Blank
  ELSE IF \E r \in PieceEvent : r.src = line
       THEN (CHOOSE r \in PieceEvent : r.src = line).ev
       ELSE Malformed

IsEventLine(c) == c \notin {Blank, Malformed}

\* formatEventForDisplay throws a TypeError on `item.type` when an
\* item.completed event has no item; every other event renders.
Renders(ev) == ev.kind # "no_item"

\* The last agent_message text that is truthy, else `prev`: the effect of
\* `if (item?.type === "agent_message" && item?.text) lastMessage = text`
\* applied to each event of `evs` in order.
LastAgentText(evs, prev) ==
  LET idx == {i \in DOMAIN evs : evs[i].kind = "agent_message" /\ evs[i].text # EmptyText}
  IN  IF idx = {} THEN prev
      ELSE evs[CHOOSE i \in idx : \A j \in idx : j <= i].text

\* `buffer.split("\n")` followed by `buffer = lines.pop() || ""`: the
\* complete lines, and the text after the last newline.
SplitLines(text) ==
  LET F[i \in 0..Len(text)] ==
        IF i = 0 THEN [lines |-> << >>, rest |-> << >>]
        ELSE IF text[i] = NL
             THEN [lines |-> Append(F[i-1].lines, F[i-1].rest), rest |-> << >>]
             ELSE [lines |-> F[i-1].lines, rest |-> Append(F[i-1].rest, text[i])]
  IN  F[Len(text)]

\* The events the for-loop over `lines` pushes, in order.
ParsedEvents(lines) ==
  LET cls == [i \in DOMAIN lines |-> Classify(lines[i])]
  IN  SelectSeq(cls, IsEventLine)

-----------------------------------------------------------------------------
\* The exit codes 'close' reports ("null": ended by a signal, "-2": after a
\* failed spawn) and the outcomes a resolved result distinguishes.
ExitCodes == {"0", "1", "null", "-2"}
ResultKinds == {"abortedBeforeStart", "aborted", "failed", "succeeded"}

\* The Promise's value: pending, the resolved result's details, or the
\* rejection with the error message.
Pending == [status |-> "pending"]
Resolved(kind, evs, msg, code, err) ==
  [status |-> "resolved", kind |-> kind, events |-> evs, lastMessage |-> msg,
   exitCode |-> code, error |-> err]
Rejected(msg) == [status |-> "rejected", reason |-> msg]

\* The lines of a whole stream s taken at once: the segments between the
\* newlines, the text after the last one included.
NLIndices(s) == {i \in 1..Len(s) : s[i] = NL}
NthNL(s, k) == CHOOSE i \in NLIndices(s) : Cardinality({j \in NLIndices(s) : j <= i}) = k
ReferenceLines(s) ==
  LET n == Cardinality(NLIndices(s))
      Lo(k) == IF k = 1 THEN 1 ELSE NthNL(s, k - 1) + 1
      Hi(k) == IF k = n + 1 THEN Len(s) ELSE NthNL(s, k) - 1
  IN  [k \in 1..(n + 1) |-> SubSeq(s, Lo(k), Hi(k))]

\* renderResult's verdict on a final result: the error view when
\* `isError || details?.error` (isError is false for a resolved result).
RenderResult(r) == IF r.error \in {EmptyText, "undefined"} THEN "ok" ELSE "error"

===============================================================================
