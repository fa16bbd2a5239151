---------------------------- MODULE RequestLoop -----------------------------
(***************************************************************************)
(* What every request backend does around one logical request: it waits    *)
(* for the rate limiter once, makes up to max_retries + 1 attempts, and    *)
(* lets its HTTP library follow the redirects of each attempt.  The Python *)
(* requesters (PythonRequester) and the Rust transport (NativeTransport)   *)
(* fill in what an attempt sends and how a reply is judged.                *)
(*                                                                         *)
(* The server, the network and the HTTP library are the environment: a     *)
(* message may be answered, challenged, redirected to this or to another   *)
(* origin, or fail.                                                        *)
(***************************************************************************)
EXTENDS RateLimiter, FiniteSets

CONSTANTS
  Configs,      \* [backend, proxies, follow, paths]: options and wordlist
  MaxRetries,   \* options["max_retries"]
  MaxRedirects  \* MAX_REDIRECTS

ASSUME RequestAssumption ==
  /\ Configs \subseteq
       [backend : {"threads", "async", "basic", "digest", "ntlm"},
        proxies : Nat, follow : BOOLEAN, paths : Nat]
  /\ MaxRetries \in Nat
  /\ MaxRedirects \in Nat

VARIABLES
  conf,          \* the options and the number of paths, fixed for the run
  req,           \* each worker's logical request
  next_request,  \* paths taken so far: ScanTask.next_request, the dictionary
  challenge,     \* OriginAuth::Digest.challenges of the target's origin
  issued,        \* external: nonces that the server has issued
  answered,      \* history: Digest answers sent since their nonce was issued
  repeated       \* history: one of them was sent again

httpVars == <<conf, req, next_request, challenge, issued, answered, repeated>>
allVars == <<vars, httpVars>>

NoAuth == [scheme |-> "none", nonce |-> 0, count |-> 0]
NoChallenge == [nonce |-> 0, count |-> 0]
Home == "home"
Away == "away"

(* stage   none, limit, attempt, sent (on the wire) or response            *)
(* tries   attempts begun                                                  *)
(* hops    redirects followed since the last top-level send                *)
(* to      the origin the message went to                                  *)
(* target  what would put the raw target on the next hop: the thread-local *)
(*         (threads), the request's extension (async)                      *)
(* armed   INITIAL_COOKIE_OVERRIDE is still to be taken                    *)
(* raw, cookie, auth  the message carries the raw target, the configured   *)
(*         Cookie, an Authorization value                                  *)
(* step    of the authentication: first, negotiate or final                *)
(* index   request_index                                                   *)
Idle == [stage |-> "none", tries |-> 0, hops |-> 0, to |-> Home,
         target |-> FALSE, armed |-> FALSE, raw |-> FALSE, cookie |-> FALSE,
         auth |-> NoAuth, step |-> "first", index |-> 0]

Native == conf.backend \in {"basic", "digest", "ntlm"}

LoopInit ==
  /\ Init
  /\ conf \in Configs
  /\ req = [w \in Workers |-> Idle]
  /\ next_request = 0
  /\ challenge = NoChallenge
  /\ issued = 0
  /\ answered = {} /\ repeated = FALSE

\* Only worker w's request changes.
Becomes(w, r) == req' = [req EXCEPT ![w] = r]

-----------------------------------------------------------------------------

\* A worker takes the next path and calls request().
Begin(w) ==
  /\ req[w].stage = "none"
  /\ next_request < conf.paths
  /\ Wait(w)
  /\ Becomes(w, [Idle EXCEPT !.stage = "limit", !.index = next_request])
  /\ next_request' = next_request + 1
  /\ UNCHANGED <<conf, challenge, issued, answered, repeated>>

\* The limiter lets the request pass: one reservation for all its attempts.
Pass(w) ==
  /\ req[w].stage = "limit"
  /\ Reserve(w)
  /\ Becomes(w, [req[w] EXCEPT !.stage = "attempt"])
  /\ UNCHANGED <<conf, next_request, challenge, issued, answered, repeated>>

Limited(w) ==
  /\ ReserveLater(w) \/ Wake(w)
  /\ UNCHANGED httpVars

\* The attempt is not counted.
NextTry_uncounted(r) == [Idle EXCEPT !.stage = "attempt", !.index = r.index]

\* The next attempt starts from a fresh request.
NextTry(r) ==
  [Idle EXCEPT !.stage = "attempt", !.index = r.index, !.tries = r.tries]

\* The retry loop: another attempt, or the last error is raised.
Failed(r, fatal) ==
  IF ~fatal /\ r.tries <= MaxRetries THEN NextTry(r) ELSE Idle

\* External: the library may follow one more redirect of w's message.
Follows(w) == conf.follow /\ req[w].hops < MaxRedirects

\* External: the errors of a redirect chain that is too long.
Overruns(w) == conf.follow /\ req[w].hops = MaxRedirects

=============================================================================
