# Formal models of the Codex CLI tool integration

This directory holds TLA+ models of the Codex tool that pi-mono ships as an
example custom tool.  It has TLC configurations that check the models on
small instances and TLAPS proofs of the main safety properties.

## The system

The repository under `src/` has three pieces of code.

* `packages/coding-agent/examples/custom-tools/codex-experimental/index.ts`
  is the tool's `execute()`.  It spawns `codex exec --json` with
  stdin ignored and stdout/stderr piped.  It then wires Node callbacks
  around the child:
  * the pre-start abort check (line 167);
  * `onAbort`: SIGTERM now, plus a 2 s timer that sends SIGKILL
    (lines 192-206);
  * the stdout `data` handler: JSONL line reassembly, `events`,
    `lastMessage` and `onUpdate` progress (lines 209-243);
  * the stderr `data` handler (246-248);
  * the `close` handler: it flushes the buffer and resolves with
    aborted / failed / succeeded (251-301);
  * the `error` handler: it rejects with an errno-specific message
    (303-323).

  Both settle paths go through `safeResolve`/`safeReject`, which share a
  `settled` flag (149-164).  `renderResult` and `formatEventForDisplay`
  turn results and events into TUI text.
* `packages/coding-agent/examples/custom-tools/codex/index.ts` is the
  original variant of the same tool.  It has no `settled` guard and a single
  spawn error message.
* `unnamed/part_000` is the review request.  It embeds the Codex CLI
  credential code:
  * `getCodexCliAuth` with token refresh and write-back (lines 402-513);
  * a read-only reader (518-600);
  * `applyCodexHeaders` with JWT account-id extraction (607-681).

  `unnamed/part_001` is the tool's README.

The parts interact only inside `execute()`.  Four actors share its closure
variables:
* the host, which may abort the `AbortSignal` at any time;
* the event loop, which runs the callbacks one at a time;
* the child process, which writes, exits, or is killed by a signal;
* Node's child-process layer.  It sets `child.killed` when `kill()` sends a
  signal, not when the child dies.  It reaps the child (after which
  `kill()` is a no-op).  It emits `error` for a failed spawn, possibly
  followed by `close` with code -2.

What is hard about it is the order of these events.  Examples:
* an abort before spawn, during streaming, after exit but before `close`,
  or after settlement;
* chunk boundaries inside a JSON line;
* `error` followed by `close`;
* a child that ignores SIGTERM;
* a timer that is never cleared.

## Modules

| module | models |
| --- | --- |
| `CodexEvents` | the data: stdout atoms, JSONL events, `Classify`, the line-splitting fold `SplitLines`, `ParsedEvents`, `LastAgentText`, the Promise's values, `renderResult`'s verdict, and the whole-stream reference split `ReferenceLines` |
| `CodexExecute` | the whole `execute()` of codex-experimental: state, handlers, environment, properties, inductive invariant |
| `CodexOriginal` | the original `codex/index.ts`: its own pre-start check, `close` and `error` handlers with bare `resolve`/`reject`; the shared handlers are CodexExecute's |
| `ToolCall` | the abstract specification of one tool call, which both variants implement |
| `MCCodexExecute`, `MCCodexOriginal` | the stdout streams TLC explores |
| `CodexExecuteProofs` | TLAPS proofs of the inductive invariant and the safety properties |
| `CodexOriginalProofs` | TLAPS proof that the original variant's Promise settles once and for good |
| `CodexAuth` | `getCodexCliAuth` with refresh and write-back (part_000 lines 356-513), concurrent callers, the Codex CLI, the token endpoint, faults, and the read-only reader (576-600) |
| `MCCodexAuth` | two callers, model values under symmetry |
| `AuthFile` | the abstract specification of the auth file and the token endpoint, which the refresher implements |
| `CodexAuthProofs` | TLAPS proofs of the refresher's type invariant, of `NoStaleCredential` and of `NoTornAuthFile` |
| `CodexAuthLiveProofs` | TLAPS proof of `RefreshTokenLive` without faults and with write-back |
| `CodexAuthRefinement` | TLAPS proof that the refresher implements `AuthFile` |
| `StdoutDecoding` | the stdout `data` handler and the `close` flush at the byte level: UTF-8 bytes in chunks, `data.toString()` per chunk, `SplitLines` |
| `MCStdoutDecoding` | the texts the child writes |
| `Preview`, `MCPreview` | the three bounded previews (`renderCall`'s prompt, `renderResult`'s collapsed message, `formatEventForDisplay`'s command output and its `trim`), in UTF-16 code units |
| `PreviewProofs` | TLAPS proof that every preview stays within its limit |

### CodexExecute: state

The closure variables of `execute()` are variables of the module:
* `events`, `lastMessage`, `buffer`, `stderr` and `settled`;
* `listener`: the abort listener is registered;
* `timer`: the force-kill `setTimeout`;
* `promise`: the Promise the call returns;
* `calls`: how many times `resolve`/`reject` ran;
* `updates`: how many `onUpdate` calls succeeded.

The child's side is:
* `child`: `none`, `failed`, `running` or `dead`;
* `exitCode`, `killed` (= `child.killed`), the signals `pendingSig` not yet
  delivered, and `reaped`;
* the stdout stream `out`, of which `written` atoms are in the pipe and
  `delivered` have been handed to `data`.

Data is abstracted to what the properties tell apart.
* A stream is a sequence of *atoms*: a newline `NL` or a piece of JSON text.
  One JSON line may be two pieces (`msgC1`,`msgC2`), so a chunk boundary can
  fall inside it.
* `Classify` is the for-loop's view of a line: blank (skipped by
  `line.trim()`), malformed (the `JSON.parse` throw), or the event it parses
  to.
* An event is a record `[kind, text]`.  `no_item` is an `item.completed`
  without `item`, on which `formatEventForDisplay` throws.
* Texts are `""`, `A`, `B` and `C`.  `""` is named `EmptyText`.

### CodexExecute: actions

Each handler is one action.  The action covers the whole handler, including
the settle call inside it.
* `Start` is the Promise executor up to its return: the pre-start abort
  branch, or the spawn and the listener registration.
* `Abort` is the host aborting, with the `{once: true}` listener removing
  itself and running `OnAbort`.
* `TimerFire` is the `setTimeout` callback.
* `Data(k)` is a stdout chunk of `k` atoms.  It splits `buffer + chunk` with
  `SplitLines` (a fold written as a recursive function), keeps the tail,
  appends the parsed events, tracks `lastMessage` and counts the
  `onUpdate` calls that do not throw.
* `StderrData` is a stderr chunk.
* `Close` is `close` after an exit: the child is dead and reaped and stdout
  has ended (`delivered = written`).
* `CloseAfterError` is `close` after the `error` of a failed spawn.
* `Error` is the `error` handler.

`OnClose`, `SafeSettle`, `Settle` and `Kill` are the helpers these actions
call.  `Kill(sig)` follows Node: it sets `killed` and queues the signal only
while the child has a handle.

The environment actions are `ChildWrite`, `ChildExit`, `ExternalKill`,
`DeliverSignal` and `Reap`:
* `ChildExit` exits 0 only after writing everything, or exits 1 at any time;
* `ExternalKill` is an OOM killer or a user's `kill`;
* on `DeliverSignal`, SIGTERM kills the child, or makes it exit 0/1, or is
  ignored.

### CodexAuth: state and actions

The auth file and the tokens are abstracted to numbers.  Token `i` is the
i-th access token the endpoint issued.  If the endpoint rotates, `i` is also
the refresh token issued with it.  `expOf[i]` is the `exp` claim that
`extractJwtExpMs` reads; `Unknown` stands for `undefined`.  The variables:
* `disk`: the auth file's tokens and whether `last_refresh` was stamped.
  `at = 0` stands for every reason `readJsonFile` and the checks of lines
  463-477 return undefined.
* `tmps`: the temporary files that exist.
* `valid`, `issued`, `rotates`: the endpoint's state.
* Per caller: `pc` (its place between the awaits), `snap` (the document it
  read), `readNow` (its `Date.now()`), `resp` (the endpoint's answer), `next`
  (the updated document) and `result` (what it returned).
* `ro`: the read-only reader's last answer and the time it read.

Each caller's `getCodexCliAuth` is split at its awaits:
* `Read`: the read and the decision of lines 463-483, using
  `IsExpiringSoon`, which is line 481 with the `Math.max(0, leeway)` clamp;
* `Fetch`: the POST of `refreshTokens`.  The endpoint either issues a token,
  or refuses a revoked refresh token (`!resp.ok` throws);
* `Receive`: lines 484-497.  The refresh token falls back to the old one
  (`?? refreshToken`), `last_refresh` is stamped, and then the caller writes
  back or returns;
* `WriteTmp` and `Rename`: `writeJsonFile`'s `writeFile` of the temporary
  file and the `rename`.  The return of lines 499-504 happens after the
  rename.

The other actors and the faults:
* `CliRefresh`: the Codex CLI refreshes the same file atomically, at any
  time;
* `Tick`: the clock;
* `ReadOnlyRead`: the read-only `getCodexCliAuth`;
* `FetchLost` (fault "lostResponse"): the endpoint handled the refresh but
  `fetch` or `resp.text()` rejects;
* `Crash` (fault "crash"): the process dies at one of the awaits.

Only safety is checked for CodexAuth, so `Spec` has no fairness.

### StdoutDecoding: state and actions

The `data` handler is the same in both variants (codex/index.ts 173-176,
codex-experimental 209-212).  A character is a model value for its class:
an ASCII letter, the newline, a 2-byte and a 3-byte character.  `Encode`
gives its UTF-8 bytes (a lead byte and continuation bytes).  `Decode` is
`Buffer.toString("utf8")` as Node does it: a fold of `FeedByte` over the
chunk, which puts one U+FFFD in place of each maximal ill-formed piece and
one for a sequence the chunk ends inside of.  The state is:
* `text`, what the child writes, and `sent`, how many of its bytes have
  been delivered;
* `cuts`, the byte positions where a chunk ended;
* `buffer` and `lines`: the closure's buffer and the lines handed to
  `JSON.parse`;
* `closed`.

The actions are:
* `Data(k)`: the next k bytes, decoded on their own, appended to the
  buffer, split, the rest kept;
* `Close`: after the last byte, a non-empty rest is one more line.

### Preview: state and actions

A JavaScript string is a sequence of UTF-16 code units, which is what
`length` and `slice` count: a plain unit, a space, and the two halves
`"hi"`/`"lo"` of a surrogate pair.  `Truncate(s, N)` is
`s.length > N ? s.slice(0, N - 3) + "..." : s`; `Trim` drops the spaces at
both ends.  The state is the `text` and what each renderer last showed of
it: `RenderCall` (N = 80), `RenderEvent` (N = 50, then `trim`) and
`RenderResult(expanded)` (N = 200 when collapsed, the whole text when
expanded).  The limits are constants.

### Fairness

`FairSpec` adds weak fairness for the actions the event loop and the OS
perform:
* `Start`, `DataStep`, `Close` and `Error`;
* `TimerFire`: a 2 s timer does fire;
* `DeliverSignal` and `Reap`.

There is no fairness for the child's own progress or for the host's abort.
A child may run forever, and nobody has to abort.

## Runs

The runs use `MCCodexExecute`, or `MCCodexOriginal`, which extends it and keeps
the same streams.  There are four stdout streams:
* a turn event, then a message split across two pieces, then an unterminated
  message;
* a message, a blank line, a malformed line and an empty-text message;
* a message, then a split unterminated message;
* an item-less `item.completed`, then a message.

TLC explores every chunking of each stream, every abort time, every spawn
error, and every signal and exit outcome.  That is 5776 states.

**`lifecycle`** (`MCCodexExecute.cfg`, pass) checks these properties:
* `TypeOK`;
* `AtMostOneSettleCall`: resolve/reject runs once, whichever of the
  pre-start check, `error` and `close` fire;
* `EventsMatchOutput`: whatever the chunk boundaries between whole
  characters, the result's events are those of `ReferenceLines` and its
  lastMessage is the last non-empty message text.  `ReferenceLines` splits
  the whole stream at its newlines, independently of `SplitLines`.  The
  atoms of `out` are characters and `Data` takes `data.toString()` to
  return them unchanged, so this property is about line reassembly only.
  A chunk cut inside a multi-byte character does change the event text;
  that is `StdoutDecoding`'s subject (`stdout_split_character`), and the two
  models are not composed;
* `SettlesOnceChildGone`: every child that exits or fails to spawn settles
  the call.  This is checked under `FairSpec`;
* `SettledIsFinal` (an action property): once the Promise has settled, no
  step changes it and the child writes nothing more.

Deadlock checking is off.  The system really does stop once the call has
settled and the child is gone.

Each property has a mutant, listed in PROJECT.json, that TLC catches:
* onUpdate for every line breaks `TypeOK`;
* a dropped `settled` test breaks `AtMostOneSettleCall`;
* no flush of the buffer on `close` breaks `EventsMatchOutput`;
* an `error` handler that never rejects breaks `SettlesOnceChildGone`;
* `StartNoReturn` (below) breaks `SettledIsFinal`: the aborted call's child
  writes after settlement.

The same run checks `ImplementsToolCall`: `Abstract == INSTANCE ToolCall` maps `out`, `written`
and `promise` by name, and `Abstract!Spec` is the property.  ToolCall says:
* while pending, the child may write;
* the call settles once and for good:
  * a resolve carries `ParsedEvents(ReferenceLines(...))` of exactly what was
    written, and the last non-empty agent message among those events;
  * a rejection only happens when nothing was written;
* nothing is written after settlement.

The mutant `StartNoReturn` leaves out the `return` after the pre-start
`safeResolve`, so an aborted call still spawns a child that writes after
settlement.  TLC catches it.

**`original_refines_toolcall`** (`MCCodexOriginal.cfg`, pass) checks
`TypeOK`, `ImplementsToolCall` and `SettledIsFinal` for the original variant.  Without the
`settled` guard the original still implements ToolCall, because a Promise
ignores every call after the first.  The mutant `OrigStartNoReturn` drops
the `return` after the pre-start resolve.  TLC catches it in both
properties.

The violation runs check what the spec or a comment says, and TLC finds the
code disagreeing:
* `abort_escalation` (`AbortSettles`).  The force-kill timer tests
  `!child.killed`, which is already true after SIGTERM, so a child that
  ignores SIGTERM is never killed and the aborted call hangs.
* `misreported_outcome` (`OkOnlyOnExitZero`: `renderResult` shows success
  only for exit code 0).  Two paths break it.  Exit code `null` counts as
  success (`code !== 0 && code !== null`).  Exit 1 with empty stderr gives
  `error: ""`, which `renderResult` shows as `[ok]`; this is the trace TLC
  reports.
* `lost_progress` (`EveryEventRendered`).  An item-less `item.completed`
  event is pushed, but its progress update is lost to the throw in
  `formatEventForDisplay`.

In the original variant a failed spawn emits `error` and then `close`, so
it calls `reject` and then `resolve`.  The experimental variant's
`settled` guard was added against this double settlement.  It is harmless
to the Promise, as `original_refines_toolcall` shows.

**`auth_concurrency`** (`MCCodexAuth.cfg`, pass, no faults; 169587
states).  It checks `TypeOK` and `RefreshTokenLive`: the file's refresh
token is accepted by the endpoint, or a caller holding an accepted one is
between the answer and the rename.  This holds with two callers and the CLI
all refreshing against a rotating endpoint.  A late caller is refused,
because its refresh token was revoked, and it throws.  The mutant
`ReceiveKeepsOldRefreshToken` ignores the answer's new refresh token.  TLC
catches it.

**`auth_faults`** (`MCCodexAuth_Faults.cfg`, pass, both faults; 387303
states).  It checks four properties:
* `TypeOK`;
* `NoStaleCredential`: no caller returns the credential it read when that
  credential was expiring and refreshable;
* `NoTornAuthFile`: an action property saying that no step takes the file
  from having an access token to having none;
* `ImplementsAuthFile`: the refresher implements `AuthFile` (below): the
  file only ever holds an access token together with the refresh token the
  endpoint issued it with.

The mutants:
* `ReceiveFallsBack` returns the stale tokens on a failed refresh;
* `WriteTmpInPlace` truncates the target instead of writing a temporary
  file.  It breaks `NoTornAuthFile`;
* `ReceiveKeepsOldRefreshToken` writes back the refresh token it read
  instead of the rotated one in the answer.  It breaks `ImplementsAuthFile`:
  the file pairs a new access token with a revoked refresh token;
* `ReadOnlyAuthReturnsTokens` returns the stored tokens object.  It is the
  `TypeOK` mutant of both auth runs.

TLC catches all four.

`AuthFile` states what the refresher promises about the file (spec 4.6 and
5), seen by someone who cannot see the callers.  Its state is the file's
access and refresh token (`file`), the endpoint's `valid`, `issued` and
`rotates`, and `grants`, the credentials the endpoint has issued as pairs:
each new access token with the new refresh token when the endpoint
rotates, else with the refresh token it was exchanged against.  Its steps:
* `Refresh`: an exchange of an accepted refresh token that leaves the file
  as it is.  A success, a refusal and a lost answer all leave the file
  unchanged;
* `Replace`: the whole file becomes one of `grants`.  It may be older than
  the one it replaces, because refreshers are not coordinated (last writer
  wins: two callers of a non-rotating endpoint can rename in either order),
  but it never pairs an access token with another exchange's refresh
  token;
* `CliReplace`: the CLI exchanges the file's own refresh token and replaces
  the file in one step.

`CodexAuth` instantiates it as `File == INSTANCE AuthFile WITH file <-
[at |-> disk.at, rt |-> disk.rt], grants <- Grants`.  `Grants` pairs token
`i >= 2` with refresh token `i` when the endpoint rotates and with token 1
otherwise: a non-rotating endpoint only ever accepts the first
credential's refresh token.  The other variables keep their names,
and `stamped`, the clock, the expiries, the temporary files and every
caller's local state are hidden.

Two more violation runs:
* `auth_lost_rotation` (`RefreshTokenLive`, with faults).  The endpoint
  rotates, then the answer is lost or the process dies before `rename`.  The
  file keeps a revoked refresh token, and every later refresh fails.
  Nothing in the code or the review request handles this window.
* `readonly_unknown_expiry` (`ReadOnlyReturnsOnlyValid`).  The read-only
  reader treats an unreadable expiry as valid (line 594), while the spec
  says read-only consumers must treat it as invalid.

The auth bounds are:
* two callers, which is enough for every pair of overlapping refreshes, and
  the CLI makes a third refresher;
* at most 3 issued tokens, which allows the initial one and two refreshes;
* a clock up to 3, with `Lifetime` 2 and `Leeway` 1.  Tokens are therefore
  fresh, inside the leeway and expired at different times;
* an initial file that is missing, has no refresh token, or has one, with an
  expiry that is unknown or any of 0..3.

`WriteBack` is TRUE.  With write-back off the caller owns the new refresh
token by design, so `RefreshTokenLive` would fail trivially.

**`stdout_chunk_damage`** (`MCStdoutDecoding.cfg`, pass; 474 states)
checks `TypeOK` and `DamageConfined`:
* the handler hands `JSON.parse` one line per newline the child wrote (and
  the rest on `close`);
* every line that no chunk boundary cuts a character of is exactly the
  line the child wrote.

So a split character damages only its own line: the decoder never
swallows a newline or a neighbour, and the buffer carries the incomplete
line over.  The texts (`MCWrites`) mix all four character classes, with
the multi-byte ones next to newlines and at the ends; the chunks are 1 to
3 bytes, so every byte position is a possible cut.  Deadlock checking is
off, since the handler stops after `close`.  The mutants: a latin1 decode
(`DecodeLatin1`) breaks `TypeOK`; `DataDropsRest`, which clears the buffer
instead of keeping the rest, breaks `DamageConfined`.

**`stdout_split_character`** (`ChunkingInvisible`, violation).  The spec
says the lines do not depend on where the chunks break.  A chunk that ends
after the lead byte of a 3-byte character gives three U+FFFD instead of the
character.

**`previews_bounded`** (`MCPreview.cfg`, pass; 64149 states) checks
`PreviewsBounded` over every text of up to 6 code units, with limits 5, 4
and 3:
* every preview is within its limit;
* `renderCall`'s and `renderResult`'s preview of a text that fits is the
  text;
* otherwise the preview is a beginning of the text and `"..."`.

`TruncateOffByOne` (`slice(0, N - 2)`) breaks it.

Because `slice` counts code units, a cut can fall between the halves of a
surrogate pair.  The preview then holds a lone high surrogate before the
`"..."`.  In a TUI line this is cosmetic, and no run checks it.

### Why the bounds are enough

The streams have at most 7 atoms.  Between them they contain:
* every line kind: event, blank, malformed, unterminated, split;
* a newline at the very end and none at the end;
* consecutive newlines.

The `data` handler only keeps the tail after the last newline, so longer
streams repeat these cases.  There is one child per call, so one process is
the real number.  Every abort position relative to the other events is
explored, because `Abort` is enabled in every state until it fires.

The decoding texts have up to 5 characters and 9 bytes.  Between them they
put a multi-byte character first, last, before and after a newline, and next
to another.  Chunks of up to 3 bytes reach every cut inside a 3-byte
character.  The preview texts of up to 6 units exceed every limit (3 to 5),
with a surrogate pair across every cut.  The code's limits (50, 80, 200)
only move the cut; the proof covers every limit.

## Proofs

`PreviewProofs` proves `PreviewsBoundedHolds` (`Spec => []PreviewsBounded`)
for every limit of at least 3 and every text.  The inductive invariant is
`TypeOK /\ PreviewsBounded`.  It rests on three lemmas:
* `TruncateIsPreview`: the cut text is a preview of the text within the
  limit.  This uses the lengths of `SubSeq` and `\o` and the two halves of a
  concatenation (`ConcatParts`);
* `TrimShorter`: `trim` returns a piece of the text.  Its two ends exist
  because a non-empty set of naturals has a least element (`LeastExists`,
  from `WFMin` and the well-foundedness of `<` on Nat) and a bounded one a
  greatest (`GreatestExists`, by taking `N - t`);
* `TextsAreSeqs`: the texts `Init` picks from are sequences.


`CodexExecuteProofs` proves, for every set `Outputs` of streams allowed by
`OutputsAssumption`:
* `IInvHolds`: `Spec => []IInv`;
* `ControlTypeCorrect`;
* `SettleCalledAtMostOnce` (`[]AtMostOneSettleCall`);
* `SettledIsFinalHolds` (`Spec => SettledIsFinal`).

`IInv` is `ControlTypeOK /\ SettleAccounting /\ NoProcessNoOutput /\
SettledOnlyWhenDrained`.  `AtMostOneSettleCall` alone is not inductive.  It
needs (the last conjunct, that a `close` result exists only once the child
is gone and stdout is drained, is `Close`'s enabling condition carried
through the induction, not a property of its own):
* `SettleAccounting`: `calls` is 1 exactly when `settled` is set, and
  `settled` holds exactly when the Promise is no longer pending;
* `NoProcessNoOutput`:
  * before the executor has run there is no child and nothing settled;
  * without a process nothing was written;
  * a running child implies not settled.

These give `SettledOnlyWhenDrained` its induction step.  Once the call is
settled no action can write, deliver or re-spawn.  The proof has one case
per action and one step per conjunct.  It uses two lemmas:
* `KillTyped`: `child.kill` keeps its types;
* `SafeSettleTyped`: `safeResolve`/`safeReject` keep their types.

`SettledIsFinalHolds` rests on the step lemma `SettledFinalStep`: under
`IInv`, a step from a settled state keeps `promise` and `written`.  A
settled Promise means `settled` is set (`SettleAccounting`), so every
`safeResolve`/`safeReject` is a no-op.  It also means no child is running
(`NoProcessNoOutput`), so `ChildWrite` is not enabled.  The theorem then
follows from `IInvHolds` by PTL.

`CodexOriginalProofs` proves `OrigSettledIsFinal` (`OrigSpec =>
SettledIsFinal`) for the original variant, which has no `settled` guard.
Its inductive invariant `OrigInv` (checked by TLC over the same streams
before it was proved) says two things:
* before the executor runs there is no child and the Promise is pending;
* a running child means a pending Promise.

It is inductive because of where the handlers run:
* resolve and reject run only at the pre-start check, which leaves no
  child, or once the child is dead or failed to spawn;
* the child becomes running only in the branch that does not settle.

Given `OrigInv`, a second resolve/reject leaves the settled Promise as it is
(`SettleKeepsSettled`), and no child is left to write.

TLC checked `IInv` as an invariant before it was proved.

`CodexAuthProofs` proves three theorems for every set of callers, all
bounds, any leeway (negative included), either write-back setting and any
faults:
* `IInvHolds`;
* `AuthTypeCorrect` (`[]TypeOK`);
* `NoStaleCredentialHolds` (`[]NoStaleCredential`).

`NoStaleCredential` is not inductive alone.  `IInv` adds `CallerInv` for
each caller:
* every token held, in the file or by a caller, has been issued;
* a caller has a result only once it is done, and that result names an
  issued token;
* a caller past a successful POST holds an access token newer than the one
  it read.

Because issuing a token never changes an earlier token's expiry, a returned
credential equal to the one read can only come from `Read`'s
not-expiring branch.  The proof has one lemma per action.  Two frame lemmas,
`CallerFrame` and `OthersFrame`, carry the other callers' part of the
invariant across a step; `AllCallersFrame` does the same for the CLI's
refresh, the clock and the read-only reader, which touch no caller.  TLC checked `IInv` on the `auth_faults` instance
before it was proved.

`NoTornAuthFileHolds` (`Spec => NoTornAuthFile`, in `CodexAuthProofs`)
holds for every configuration as well.  It follows from `IInv` one step at
a time (`NoTornStep`):
* only `Rename` and `CliRefresh` write the file;
* `CliRefresh` writes token `issued + 1`;
* a caller in `renaming` holds an access token newer than the one it read
  (`CallerInv`), so that token is not 0.

`CodexAuthLiveProofs` proves `RefreshTokenLiveHolds`:
`Reliable => (Spec => []RefreshTokenLive)`, where `Reliable` is
`Faults = {} /\ WriteBack = TRUE`.  It holds for any callers, bounds and
leeway, with a rotating or a non-rotating endpoint.  Both hypotheses are
needed:
* with faults the property is false (`auth_lost_rotation`);
* with write-back off the caller keeps the rotated token by design.

`RefreshTokenLive` is not inductive.  The strengthening `LiveInv` (in
`CodexAuth`) has three parts:
* `TokensHeld`: every refresh token in the file, a snapshot, an answer or a
  write-back has been issued, and a caller writing back writes the token it
  holds (`Held`);
* `KeptTokens`: a non-rotating endpoint never changes `valid`, and every
  token anyone holds is in it;
* `OwnedToken`: a rotating endpoint accepts at most the newest token.  While
  a caller holds a successful answer (`Answered`), that caller is unique,
  its token is the accepted one, and neither the file nor any other caller
  has read it.  Otherwise the file's token is the accepted one.

So a second refresh while a caller holds an answer is refused.  A `Fetch`
succeeds only with the newest token, which means no one else was answered.
`Read` copies the file's token, which is never the answered caller's.
`Rename` puts the answered caller's token into the file.  TLC checked
`LiveInv` as an invariant on the `auth_concurrency` instance (169587
states) before it was proved.  The proof has one lemma per action.  Two
more lemmas carry the part of `LiveInv` a step does not touch:
* `UntouchedLive`, for the clock and the read-only reader;
* `LocalLive`, for a caller's step that moves only its own `pc` and `next`.

`CodexAuthRefinement` proves `ImplementsAuthFileHolds`
(`Spec => ImplementsAuthFile`) for every configuration, faults included,
step by step:
* `InitRefines`: the initial states map to `AuthFile`'s;
* `NextRefines`: every step maps to an `AuthFile` step or a stutter:
  * a successful or lost POST is `Refresh`;
  * `Rename` is `Replace`;
  * `CliRefresh` is `CliReplace`;
  * every other step leaves the file's tokens and the endpoint alone.

`Replace` needs a pair in `Grants`, and an exchange must add exactly
the pair `AuthFile` adds.  Both rest on the inductive invariant `Paired`,
which TLC checked on the `auth_faults` instance before it was proved
(`PairedHolds`, with one case per action in `NextPaired`):
* a non-rotating endpoint accepts at most token 1, so the refresh token an
  exchange pairs with is token 1;
* a caller holding a successful answer holds, as `Held`, a pair in `Grants`:
  `Fetch` makes it from the answer (the rotated token, or the fallback to
  the token it sent);
* a caller writing back or renaming writes a pair in `Grants`: `Receive`
  copies the held pair into `next`.

`GrantsGrow` shows that an exchange adds one pair, and `GrantsMono` that
no step removes one.  `TokensHeldHolds` proves, separately and for every
configuration, that no file, snapshot, answer or write-back names a
refresh token not yet issued.

The following are checked by TLC only:
* `StreamTypeOK`, and with it the whole `TypeOK` of CodexExecute,
  `EventsMatchOutput`, `StdoutDecoding`'s `TypeOK` and `DamageConfined`, and
  the refinement of ToolCall.  They are about what `SplitLines`,
  `ParsedEvents` (`SelectSeq`) and `Decode` compute.  These are recursive
  functions or RECURSIVE folds (`FoldLeft` and `FlattenSeq` in
  `StdoutDecoding`).  Using what they return would need induction over data,
  and that is out of the prover's reach;
* the liveness properties, since TLAPS does not handle fairness or ENABLED
  here.

## Not modelled, and the plan

* stderr and the events array grow without bound, and every progress
  update copies the events array (codex-experimental line 247).  Unbounded
  growth is outside a finite model; the runs bound the stream instead.
* `StdoutDecoding` covers 1-, 2- and 3-byte characters; 4-byte ones and
  overlong or invalid lead bytes are left out, since the child writes
  valid UTF-8.  `DamageConfined` is model-checked only (it is about what
  the decoding fold computes).
* In CodexAuth, the token POST always answers.  It has no timeout and no
  signal (line 414), so a hung endpoint keeps a caller pending forever.
  This is a liveness question with no fairness the code could justify.
* Planned next:
  * a run on the exact millisecond boundary of the leeway and of the
    read-only reader's `expiresAtMs <= now`.
* Left out for good:
  * the argument builder, `renderCall`'s header, the text of results and
    events, and theme layout.  These are pure string formatting.
  * `applyCodexHeaders` and the JWT/base64url decoding.  These are pure
    conversions with no state.
