------------------------------ MODULE CodexAuth ------------------------------
(***************************************************************************)
(* The Codex CLI credential code of the review request (unnamed/part_000): *)
(* getCodexCliAuth with refresh and write-back, run by several callers at  *)
(* once (pi processes, tool calls), next to the Codex CLI itself, which    *)
(* refreshes the same ~/.codex/auth.json; the OAuth token endpoint, which  *)
(* may rotate refresh tokens; and the read-only getCodexCliAuth, which     *)
(* only checks validity.                                                   *)
(*                                                                         *)
(* Tokens are numbers: token i is the i-th access token the endpoint       *)
(* issued and, if it rotated, the refresh token issued with it.  Time is   *)
(* whole seconds.  The document's unknown keys and the id token follow     *)
(* the refresh token's fallback and are left out.                          *)
(***************************************************************************)
EXTENDS Integers, FiniteSets

CONSTANTS
  Callers,     \* concurrent getCodexCliAuth invocations
  MaxIssued,   \* bound on the tokens the endpoint issues
  MaxTime,     \* bound on the clock
  Lifetime,    \* seconds an issued access token is valid for
  Leeway,      \* refreshLeewaySeconds
  WriteBack,   \* options.writeBack
  Faults       \* which of "crash", "lostResponse" the environment may do

ASSUME AuthAssumption ==
  /\ MaxIssued \in Nat \ {0} /\ MaxTime \in Nat /\ Lifetime \in Nat
  /\ Leeway \in Int /\ WriteBack \in BOOLEAN
  /\ Faults \subseteq {"crash", "lostResponse"}

Unknown == -1     \* extractJwtExpMs returned undefined

\* A document: `at` 0 when the file is unreadable, not an object, or has no
\* access_token; `rt` 0 when there is no refresh_token; `stamped` when a
\* refresher set last_refresh.
NoDoc == [at |-> 0, rt |-> 0, stamped |-> FALSE]
Docs == [at : 0..MaxIssued, rt : 0..MaxIssued, stamped : BOOLEAN]

\* What getCodexCliAuth returns: undefined, or the credential.
Undefined == [at |-> 0, rt |-> 0]
Results == [at : 0..MaxIssued, rt : 0..MaxIssued]

Max0(n) == IF n < 0 THEN 0 ELSE n

\* `expiresAtMs !== undefined && expiresAtMs - now <= max(0, leeway) * 1000`
IsExpiringSoon(exp, t) == exp # Unknown /\ exp - t <= Max0(Leeway)

VARIABLES
  now,       \* Date.now()
  disk,      \* the auth file at authJsonPath
  tmps,      \* callers whose temporary file exists
  expOf,     \* the exp claim of each access token issued
  valid,     \* the refresh tokens the endpoint accepts
  issued,    \* tokens issued so far
  rotates,   \* the endpoint returns a new refresh_token and revokes the old one
  pc,        \* each caller's place in getCodexCliAuth
  snap,      \* the document the caller read
  readNow,   \* the caller's `now`
  resp,      \* the token endpoint's answer to the caller
  next,      \* the updated document the caller writes back
  result,    \* what the caller returned
  ro         \* the read-only reader's last result and the time it read

vars == <<now, disk, tmps, expOf, valid, issued, rotates, pc, snap, readNow,
          resp, next, result, ro>>
serverVars == <<expOf, valid, issued, rotates>>
callerVars == <<pc, snap, readNow, resp, next, result>>

NoResp == [ok |-> FALSE, at |-> 0, rt |-> 0]

Init ==
  /\ now = 0
  /\ \E e \in {Unknown} \cup (0..MaxTime), r \in {0, 1} :
       /\ disk \in {NoDoc, [at |-> 1, rt |-> r, stamped |-> FALSE]}
       /\ expOf = [i \in 1..MaxIssued |-> IF i = 1 THEN e ELSE Unknown]
       /\ valid = IF r = 1 THEN {1} ELSE {}
  /\ tmps = {}
  /\ issued = 1
  /\ rotates \in BOOLEAN
  /\ pc = [c \in Callers |-> "idle"]
  /\ snap = [c \in Callers |-> NoDoc]
  /\ readNow = [c \in Callers |-> 0]
  /\ resp = [c \in Callers |-> NoResp]
  /\ next = [c \in Callers |-> NoDoc]
  /\ result = [c \in Callers |-> Undefined]
  /\ ro = [res |-> Undefined, at |-> 0]
-----------------------------------------------------------------------------
\* The endpoint's answer to a refresh with refresh token rt: a new access
\* token, with a new refresh token (the old one revoked) if it rotates.
Issue(rt) ==
  /\ rt \in valid
  /\ issued < MaxIssued
  /\ issued' = issued + 1
  /\ expOf' = [expOf EXCEPT ![issued + 1] = now + Lifetime]
  /\ valid' = IF rotates THEN (valid \ {rt}) \cup {issued + 1} ELSE valid
  /\ UNCHANGED rotates

Answer == [ok |-> TRUE, at |-> issued + 1, rt |-> IF rotates THEN issued + 1 ELSE 0]

\* `readJsonFile` up to the decision: undefined without an access token,
\* the credential unchanged when it is not expiring soon or there is no
\* refresh token, otherwise on to refreshTokens.
Read(c) ==
  /\ pc[c] = "idle"
  /\ snap' = [snap EXCEPT ![c] = disk]
  /\ readNow' = [readNow EXCEPT ![c] = now]
  /\ IF disk.at = 0
     THEN /\ pc' = [pc EXCEPT ![c] = "done"]
          /\ UNCHANGED result
     ELSE IF IsExpiringSoon(expOf[disk.at], now) /\ disk.rt # 0
     THEN /\ pc' = [pc EXCEPT ![c] = "fetching"]
          /\ UNCHANGED result
     ELSE /\ pc' = [pc EXCEPT ![c] = "done"]
          /\ result' = [result EXCEPT ![c] = [at |-> disk.at, rt |-> disk.rt]]
  /\ UNCHANGED <<now, disk, tmps, serverVars, resp, next, ro>>

\* The POST reaches the endpoint, which answers.
Fetch(c) ==
  /\ pc[c] = "fetching"
  /\ \/ /\ Issue(snap[c].rt)
        /\ resp' = [resp EXCEPT ![c] = Answer]
     \/ /\ snap[c].rt \notin valid
        /\ resp' = [resp EXCEPT ![c] = NoResp]
        /\ UNCHANGED serverVars
  /\ pc' = [pc EXCEPT ![c] = "responded"]
  /\ UNCHANGED <<now, disk, tmps, snap, readNow, next, result, ro>>

\* The endpoint handled the refresh but the answer never arrives: fetch or
\* resp.text() rejects and the error propagates out of getCodexCliAuth.
FetchLost(c) ==
  /\ "lostResponse" \in Faults
  /\ pc[c] = "fetching"
  /\ Issue(snap[c].rt)
  /\ pc' = [pc EXCEPT ![c] = "failed"]
  /\ UNCHANGED <<now, disk, tmps, snap, readNow, resp, next, result, ro>>

\* Variant that falls back to the stale credential when the refresh fails.
ReceiveFallsBack(c) ==
  /\ pc[c] = "responded"
  /\ IF ~resp[c].ok
     THEN /\ pc' = [pc EXCEPT ![c] = "done"]
          /\ result' = [result EXCEPT ![c] = [at |-> snap[c].at, rt |-> snap[c].rt]]
          /\ UNCHANGED next
     ELSE LET doc == [at |-> resp[c].at,
                      rt |-> IF resp[c].rt = 0 THEN snap[c].rt ELSE resp[c].rt,
                      stamped |-> TRUE]
          IN  /\ next' = [next EXCEPT ![c] = doc]
              /\ IF WriteBack
                 THEN /\ pc' = [pc EXCEPT ![c] = "writing"]
                      /\ UNCHANGED result
                 ELSE /\ pc' = [pc EXCEPT ![c] = "done"]
                      /\ result' = [result EXCEPT ![c] = [at |-> doc.at, rt |-> doc.rt]]
  /\ UNCHANGED <<now, disk, tmps, serverVars, snap, readNow, resp, ro>>

\* Variant that keeps the old refresh token even when the answer has a new
\* one (`nextRefreshToken = refreshToken`).
ReceiveKeepsOldRefreshToken(c) ==
  /\ pc[c] = "responded"
  /\ IF ~resp[c].ok
     THEN /\ pc' = [pc EXCEPT ![c] = "failed"]
          /\ UNCHANGED <<next, result>>
     ELSE LET doc == [at |-> resp[c].at, rt |-> snap[c].rt, stamped |-> TRUE]
          IN  /\ next' = [next EXCEPT ![c] = doc]
              /\ IF WriteBack
                 THEN /\ pc' = [pc EXCEPT ![c] = "writing"]
                      /\ UNCHANGED result
                 ELSE /\ pc' = [pc EXCEPT ![c] = "done"]
                      /\ result' = [result EXCEPT ![c] = [at |-> doc.at, rt |-> doc.rt]]
  /\ UNCHANGED <<now, disk, tmps, serverVars, snap, readNow, resp, ro>>

\* The rest of refreshTokens and getCodexCliAuth: throw on a failed answer;
\* otherwise take the new tokens (the refresh token falls back to the old
\* one), stamp last_refresh, and write back or return.
Receive(c) ==
  /\ pc[c] = "responded"
  /\ IF ~resp[c].ok
     THEN /\ pc' = [pc EXCEPT ![c] = "failed"]
          /\ UNCHANGED <<next, result>>
     ELSE LET doc == [at |-> resp[c].at,
                      rt |-> IF resp[c].rt = 0 THEN snap[c].rt ELSE resp[c].rt,
                      stamped |-> TRUE]
          IN  /\ next' = [next EXCEPT ![c] = doc]
              /\ IF WriteBack
                 THEN /\ pc' = [pc EXCEPT ![c] = "writing"]
                      /\ UNCHANGED result
                 ELSE /\ pc' = [pc EXCEPT ![c] = "done"]
                      /\ result' = [result EXCEPT ![c] = [at |-> doc.at, rt |-> doc.rt]]
  /\ UNCHANGED <<now, disk, tmps, serverVars, snap, readNow, resp, ro>>

\* Variant of writeJsonFile that writes the target in place: the file is
\* truncated first and filled by a later step.
WriteTmpInPlace(c) ==
  /\ pc[c] = "writing"
  /\ disk' = NoDoc
  /\ pc' = [pc EXCEPT ![c] = "renaming"]
  /\ UNCHANGED <<now, tmps, serverVars, snap, readNow, resp, next, result, ro>>

\* writeJsonFile: mkdir, then writeFile of the uniquely named temporary file.
WriteTmp(c) ==
  /\ pc[c] = "writing"
  /\ tmps' = tmps \cup {c}
  /\ pc' = [pc EXCEPT ![c] = "renaming"]
  /\ UNCHANGED <<now, disk, serverVars, snap, readNow, resp, next, result, ro>>

\* rename(tmpPath, path), then getCodexCliAuth returns the new credential.
Rename(c) ==
  /\ pc[c] = "renaming"
  /\ disk' = next[c]
  /\ tmps' = tmps \ {c}
  /\ pc' = [pc EXCEPT ![c] = "done"]
  /\ result' = [result EXCEPT ![c] = [at |-> next[c].at, rt |-> next[c].rt]]
  /\ UNCHANGED <<now, serverVars, snap, readNow, resp, next, ro>>

\* The process dies at one of getCodexCliAuth's awaits.
Crash(c) ==
  /\ "crash" \in Faults
  /\ pc[c] \in {"fetching", "responded", "writing", "renaming"}
  /\ pc' = [pc EXCEPT ![c] = "crashed"]
  /\ UNCHANGED <<now, disk, tmps, serverVars, snap, readNow, resp, next, result, ro>>
-----------------------------------------------------------------------------
(* The other actors.                                                       *)

Tick ==
  /\ now < MaxTime
  /\ now' = now + 1
  /\ UNCHANGED <<disk, tmps, serverVars, callerVars, ro>>

\* The Codex CLI refreshes, on its own schedule, with the file's refresh
\* token and replaces the file atomically.
CliRefresh ==
  /\ disk.at # 0
  /\ Issue(disk.rt)
  /\ disk' = [at |-> issued + 1, rt |-> IF rotates THEN issued + 1 ELSE disk.rt,
              stamped |-> disk.stamped]
  /\ UNCHANGED <<now, tmps, callerVars, ro>>

\* Variant that returns the stored tokens object as it is.
ReadOnlyAuthReturnsTokens(doc, t) ==
  IF doc.at = 0 \/ (expOf[doc.at] # Unknown /\ expOf[doc.at] <= t)
  THEN Undefined
  ELSE doc

\* The read-only getCodexCliAuth: undefined without an access token or when
\* `expiresAtMs !== undefined && expiresAtMs <= Date.now()`.
ReadOnlyAuth(doc, t) ==
  IF doc.at = 0 \/ (expOf[doc.at] # Unknown /\ expOf[doc.at] <= t)
  THEN Undefined
  ELSE [at |-> doc.at, rt |-> 0]

ReadOnlyRead ==
  /\ ro' = [res |-> ReadOnlyAuth(disk, now), at |-> now]
  /\ UNCHANGED <<now, disk, tmps, serverVars, callerVars>>

Next ==
  \/ \E c \in Callers :
       \/ Read(c) \/ Fetch(c) \/ FetchLost(c) \/ Receive(c)
       \/ WriteTmp(c) \/ Rename(c) \/ Crash(c)
  \/ Tick \/ CliRefresh \/ ReadOnlyRead

Spec == Init /\ [][Next]_vars
-----------------------------------------------------------------------------
TypeOK ==
  /\ now \in 0..MaxTime
  /\ disk \in Docs /\ tmps \subseteq Callers
  /\ expOf \in [1..MaxIssued -> {Unknown} \cup Nat]
  /\ valid \subseteq 1..MaxIssued /\ issued \in 1..MaxIssued /\ rotates \in BOOLEAN
  /\ pc \in [Callers -> {"idle", "fetching", "responded", "writing", "renaming",
                         "done", "failed", "crashed"}]
  /\ snap \in [Callers -> Docs] /\ next \in [Callers -> Docs]
  /\ readNow \in [Callers -> 0..MaxTime]
  /\ resp \in [Callers -> [ok : BOOLEAN, at : 0..MaxIssued, rt : 0..MaxIssued]]
  /\ result \in [Callers -> Results]
  /\ ro \in [res : Results, at : 0..MaxTime]

\* Whoever refreshes, the credential chain is never broken: the refresh
\* token in the file is one the endpoint still accepts, or a caller holds
\* an accepted one and is about to rename it into place.  (Rotation revokes
\* the token the file still names between a refresh and its write-back.)
RefreshTokenLive ==
  \/ disk.rt = 0
  \/ disk.rt \in valid
  \/ \E c \in Callers : pc[c] \in {"responded", "writing", "renaming"} /\
                        resp[c].ok /\ (IF resp[c].rt = 0 THEN snap[c].rt ELSE resp[c].rt) \in valid

\* Readers of the auth file never see it without its credential while a
\* refresher writes it back (writeJsonFile's temporary file and rename).
NoTornAuthFile == [][disk.at # 0 => disk'.at # 0]_vars

\* A failed refresh is surfaced, never papered over with the stale token:
\* a caller returns the credential it read only if that credential was not
\* expiring soon, or there was no refresh token to refresh it with.
NoStaleCredential ==
  \A c \in Callers :
    (pc[c] = "done" /\ result[c] # Undefined /\ result[c].at = snap[c].at) =>
      ~(IsExpiringSoon(expOf[snap[c].at], readNow[c]) /\ snap[c].rt # 0)

\* spec §3: for read-only consumers an unknown expiry means the token is
\* already invalid; the read-only reader returns only tokens that are known
\* to be unexpired.
ReadOnlyReturnsOnlyValid ==
  ro.res # Undefined => (expOf[ro.res.at] # Unknown /\ expOf[ro.res.at] > ro.at)

\* The credentials the endpoint has issued, as pairs.  Token i >= 2 came
\* with refresh token i from a rotating endpoint; an endpoint that does not
\* rotate only ever accepts the refresh token of the first credential,
\* token 1, and each new access token goes with it.
Grants == {[at |-> i, rt |-> IF rotates THEN i ELSE 1] : i \in 2..issued}

\* The refresher, seen through the auth file's access and refresh token and
\* the endpoint, is an AuthFile: the endpoint issues only against accepted
\* tokens, a caller's POST leaves the file alone, and the file is replaced
\* only whole (writeJsonFile's rename, the CLI's refresh) by a pair the
\* endpoint issued together: the `refreshed.refresh_token ?? refreshToken`
\* fallback and the write-back of the caller's own answer never pair an
\* access token with another exchange's refresh token.
File == INSTANCE AuthFile WITH file <- [at |-> disk.at, rt |-> disk.rt], grants <- Grants
ImplementsAuthFile == File!Spec
-----------------------------------------------------------------------------
\* The strengthening of NoStaleCredential that is inductive: every token in
\* the file or held by a caller has been issued; a caller holds a result
\* only once it is done; and a caller past a successful POST holds an
\* access token newer than the one it read, so whatever it returns is not
\* the stale credential.
CallerInv(c) ==
  /\ snap[c].at <= issued /\ next[c].at <= issued
  /\ pc[c] # "done" => result[c] = Undefined
  /\ result[c] # Undefined => result[c].at \in 1..issued
  /\ pc[c] = "responded" /\ resp[c].ok => snap[c].at < resp[c].at /\ resp[c].at <= issued
  /\ pc[c] \in {"writing", "renaming"} => snap[c].at < next[c].at

IInv ==
  /\ TypeOK
  /\ disk.at <= issued
  /\ \A c \in Callers : CallerInv(c)
  /\ NoStaleCredential
-----------------------------------------------------------------------------
(* The strengthening of RefreshTokenLive that is inductive when no caller  *)
(* crashes or loses an answer and write-back is on.  A caller "answered"   *)
(* holds a successful answer it has not renamed into place yet; the        *)
(* refresh token it will write is Held(c).                                 *)
Answered(c) == pc[c] \in {"responded", "writing", "renaming"} /\ resp[c].ok
Held(c) == IF resp[c].rt = 0 THEN snap[c].rt ELSE resp[c].rt

\* Every refresh token in the file or held by a caller has been issued,
\* and a caller writing back writes the token it holds.
TokensHeld ==
  /\ disk.rt <= issued
  /\ \A c \in Callers :
       /\ snap[c].rt <= issued /\ resp[c].rt <= issued /\ next[c].rt <= issued
       /\ pc[c] \in {"writing", "renaming"} => resp[c].ok /\ next[c].rt = Held(c)

\* An endpoint that does not rotate keeps its refresh tokens, and every
\* token anyone holds is one of them.
KeptTokens ==
  ~rotates =>
    /\ disk.rt \in {0} \cup valid
    /\ \A c \in Callers : resp[c].rt = 0 /\ snap[c].rt \in {0} \cup valid

\* A rotating endpoint accepts at most the newest token.  While a caller
\* holds an answer, that caller is the only one, the token is its own and
\* neither the file nor any other caller has read it; otherwise the file's
\* refresh token is the accepted one (or there is none).
OwnedToken ==
  rotates =>
    /\ valid \subseteq {issued}
    /\ \A c, d \in Callers : Answered(c) /\ Answered(d) => c = d
    /\ \A c \in Callers : Answered(c) =>
         /\ resp[c].rt = issued /\ issued \in valid /\ disk.rt # issued
         /\ \A d \in Callers \ {c} : snap[d].rt # issued
    /\ (\A c \in Callers : ~Answered(c)) => disk.rt \in {0} \cup valid

LiveInv == TokensHeld /\ KeptTokens /\ OwnedToken
-----------------------------------------------------------------------------
(* The strengthening that makes the refinement of AuthFile provable, for   *)
(* every configuration: an endpoint that does not rotate accepts at most   *)
(* token 1, and an answered caller holds, and a caller writing back        *)
(* writes, a pair in Grants.                                               *)
Paired ==
  /\ ~rotates => valid \subseteq {1}
  /\ \A c \in Callers :
       /\ pc[c] = "responded" /\ resp[c].ok =>
            [at |-> resp[c].at, rt |-> Held(c)] \in Grants
       /\ pc[c] \in {"writing", "renaming"} =>
            [at |-> next[c].at, rt |-> next[c].rt] \in Grants
=============================================================================
