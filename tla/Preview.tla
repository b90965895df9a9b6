------------------------------- MODULE Preview -------------------------------
(***************************************************************************)
(* The bounded previews the TUI shows of a tool call and its result.      *)
(* Three places of both variants cut a JavaScript string the same way,    *)
(* `s.length > N ? s.slice(0, N - 3) + "..." : s`: renderCall's prompt     *)
(* (N = 80), renderResult's collapsed message (N = 200) and                *)
(* formatEventForDisplay's command output (N = 50, then `.trim()`).  A    *)
(* string is a sequence of UTF-16 code units, as `length` and `slice`     *)
(* count them: a BMP character, a space, and the two halves of a          *)
(* surrogate pair (a character outside the BMP, an emoji say).            *)
(***************************************************************************)
EXTENDS Naturals, Sequences

CONSTANTS
  PromptLimit,   \* renderCall: 80
  ResultLimit,   \* renderResult: 200
  OutputLimit,   \* formatEventForDisplay: 50
  MaxLen         \* the longest text TLC feeds the renderers

ASSUME PreviewAssumption ==
  /\ PromptLimit \in Nat /\ PromptLimit >= 3
  /\ ResultLimit \in Nat /\ ResultLimit >= 3
  /\ OutputLimit \in Nat /\ OutputLimit >= 3
  /\ MaxLen \in Nat

Units == {"b", "sp", "hi", "lo"}
Dot == "dot"
Ellipsis == <<Dot, Dot, Dot>>
ShownUnits == Units \cup {Dot}

\* The texts TLC feeds the renderers.
Texts == UNION {[1..n -> Units] : n \in 0..MaxLen}

\* Variant that keeps one code unit too many.
TruncateOffByOne(s, limit) ==
  IF Len(s) > limit THEN SubSeq(s, 1, limit - 2) \o Ellipsis ELSE s

\* `s.length > limit ? s.slice(0, limit - 3) + "..." : s`
Truncate(s, limit) ==
  IF Len(s) > limit THEN SubSeq(s, 1, limit - 3) \o Ellipsis ELSE s

\* String.prototype.trim: drop the white space at both ends.
Solid(s) == {i \in 1..Len(s) : s[i] # "sp"}
Trim(s) ==
  IF Solid(s) = {} THEN << >>
  ELSE SubSeq(s, CHOOSE i \in Solid(s) : \A j \in Solid(s) : i <= j,
                 CHOOSE i \in Solid(s) : \A j \in Solid(s) : j <= i)

-----------------------------------------------------------------------------
VARIABLES
  text,        \* the prompt, agent message or command output
  callView,    \* what renderCall shows of it as the prompt
  eventView,   \* what formatEventForDisplay shows of it as command output
  resultView   \* what renderResult shows of it as the final message

vars == <<text, callView, eventView, resultView>>

Init ==
  /\ text \in Texts
  /\ callView = << >> /\ eventView = << >> /\ resultView = << >>

\* renderCall: the prompt line under the title.
RenderCall ==
  /\ callView' = Truncate(text, PromptLimit)
  /\ UNCHANGED <<text, eventView, resultView>>

\* formatEventForDisplay of a completed command_execution item:
\* `${status} ${preview.trim()}` (the status is left out).
RenderEvent ==
  /\ eventView' = Trim(Truncate(text, OutputLimit))
  /\ UNCHANGED <<text, callView, resultView>>

\* renderResult of a successful result: the preview when collapsed, the
\* whole message when expanded.
RenderResult(expanded) ==
  /\ resultView' = IF expanded THEN text ELSE Truncate(text, ResultLimit)
  /\ UNCHANGED <<text, callView, eventView>>

Next == RenderCall \/ RenderEvent \/ \E e \in BOOLEAN : RenderResult(e)

Spec == Init /\ [][Next]_vars

-----------------------------------------------------------------------------
TypeOK ==
  /\ text \in Seq(Units)
  /\ callView \in Seq(ShownUnits) /\ eventView \in Seq(ShownUnits)
  /\ resultView \in Seq(ShownUnits)

\* v is a preview of t within limit: t itself when it fits, else a
\* beginning of t followed by the ellipsis, never longer than limit.
PreviewOf(v, t, limit) ==
  /\ Len(v) <= limit
  /\ Len(t) <= limit => v = t
  /\ Len(t) > limit =>
       /\ Len(v) >= 3 /\ SubSeq(v, Len(v) - 2, Len(v)) = Ellipsis
       /\ SubSeq(v, 1, Len(v) - 3) = SubSeq(t, 1, Len(v) - 3)

\* Every preview the renderers show stays within its limit and shows the
\* text unchanged when it fits (renderCall's prompt, renderResult's
\* collapsed message); the trimmed command output is never longer than
\* formatEventForDisplay's limit.
PreviewsBounded ==
  /\ callView # << >> => PreviewOf(callView, text, PromptLimit)
  /\ Len(eventView) <= OutputLimit
  /\ resultView # << >> /\ resultView # text => PreviewOf(resultView, text, ResultLimit)
=============================================================================
