-------------------------- MODULE NativeTransport ---------------------------
(***************************************************************************)
(* request_with_client and raw_http_request of the Rust engine             *)
(* (native/src/transport.rs, raw_client.rs, proxy.rs, session.rs), called  *)
(* by run_scan_worker (scan.rs).                                           *)
(*                                                                         *)
(* Reqwest follows redirects, asks the cookie provider on every hop and    *)
(* drops Authorization when a hop changes origin (external).  Basic sends  *)
(* its credentials with the request; Digest answers a challenge once and   *)
(* then pre-empts it from a cache that all workers share; NTLM proves the  *)
(* credentials on one connection with a negotiate and a final message.     *)
(***************************************************************************)
EXTENDS RequestLoop

CONSTANTS
  RawPaths,   \* indices of the paths that should_use_raw_http picks
  MaxNonces   \* bound: nonces that the server issues

\* Workers are worker indices.
ASSUME WorkerAssumption ==
  IsFiniteSet(Workers) /\ Workers = 0 .. Cardinality(Workers) - 1

\* Workers share their proxy's client whatever the authentication.
clients_per_proxy_shared == 1

\* ProxyClientPool: one client per proxy, or per proxy and worker.
clients_per_proxy ==
  IF conf.backend = "ntlm" THEN Cardinality(Workers) ELSE 1

proxy_count == IF conf.proxies = 0 THEN 1 ELSE conf.proxies

client_index(index, w) ==
  IF clients_per_proxy = 1 THEN index % proxy_count
  ELSE (index % proxy_count) * clients_per_proxy + w

\* A redirect may widen the credential scope.
same_origin_any(a, b) == TRUE

same_origin(a, b) == a = b

\* NativeCookieStore.cookies: the first lookup takes the configured Cookie.
cookies(r) == [r EXCEPT !.cookie = r.armed, !.armed = FALSE]

\* send_with_cookie_override: a new top-level send, to the request's URL or
\* to the URL that a challenge came from.
TopSend(r, origin, auth, step) ==
  cookies([r EXCEPT !.stage = "sent", !.hops = 0, !.to = origin,
                    !.armed = TRUE, !.auth = auth, !.step = step])

Basic == [scheme |-> "basic", nonce |-> 0, count |-> 0]
Ntlm == [scheme |-> "ntlm", nonce |-> 0, count |-> 0]
Digest(c) == [scheme |-> "digest", nonce |-> c.nonce, count |-> c.count]

\* The prompt is copied out of the cache before it counts.
respond_copy(c) == [auth |-> Digest([c EXCEPT !.count = @ + 1]), cached |-> c]

\* prompt.respond under the lock: the count grows in the cache.
respond(c) ==
  LET next == [c EXCEPT !.count = @ + 1]
  IN  [auth |-> Digest(next), cached |-> next]

\* History: an answer is sent; a nonce that is issued again starts afresh.
Answer(auth, fresh) ==
  LET kept == {a \in answered : ~(fresh /\ a.nonce = auth.nonce)} IN
  /\ answered' = kept \cup {auth}
  /\ repeated' = (repeated \/ auth \in kept)

-----------------------------------------------------------------------------

use_raw_path(w) ==
  conf.proxies = 0 /\ ~conf.follow /\ req[w].index \in RawPaths

requires_challenge == conf.backend \in {"digest", "ntlm"}

\* request_once: what the first message of an attempt carries.
SendFirst(w) ==
  /\ Native /\ req[w].stage = "attempt" /\ ~use_raw_path(w)
  /\ LET r == [req[w] EXCEPT !.tries = @ + 1] IN
     IF conf.backend = "digest" /\ challenge # NoChallenge
     THEN LET a == respond(challenge) IN
          /\ Becomes(w, TopSend(r, Home, a.auth, "first"))
          /\ challenge' = a.cached
          /\ Answer(a.auth, FALSE)
     ELSE /\ Becomes(w, TopSend(r, Home, IF conf.backend = "basic" THEN Basic
                                         ELSE NoAuth, "first"))
          /\ UNCHANGED <<challenge, answered, repeated>>
  /\ UNCHANGED <<vars, conf, next_request, issued>>

\* raw_http_request: the bytes of the path, one connection, no redirects.
SendRaw(w) ==
  /\ Native /\ req[w].stage = "attempt" /\ use_raw_path(w)
  /\ ~requires_challenge
  /\ Becomes(w, [req[w] EXCEPT !.stage = "sent", !.tries = @ + 1, !.raw = TRUE,
                               !.cookie = TRUE, !.auth = Basic])
  /\ UNCHANGED <<vars, conf, next_request, challenge, issued, answered, repeated>>

\* A challenge cannot be answered on a raw target: an error result.
RefuseRaw(w) ==
  /\ Native /\ req[w].stage = "attempt" /\ use_raw_path(w)
  /\ requires_challenge
  /\ Becomes(w, Idle)
  /\ UNCHANGED <<vars, conf, next_request, challenge, issued, answered, repeated>>

\* Reqwest follows a redirect.
FollowRedirect(w) ==
  /\ Native /\ req[w].stage = "sent" /\ Follows(w)
  /\ \E o \in {Home, Away} :
       Becomes(w, cookies([req[w] EXCEPT
         !.hops = @ + 1, !.to = o,
         !.auth = IF o = req[w].to THEN @ ELSE NoAuth]))
  /\ UNCHANGED <<vars, conf, next_request, challenge, issued, answered, repeated>>

\* 401 with a Digest challenge: answered once, within the origin.
DigestChallenge(w) ==
  /\ conf.backend = "digest" /\ req[w].stage = "sent"
  /\ \E n \in 1 .. issued + 1 :
       /\ n <= MaxNonces
       /\ issued' = IF n > issued THEN n ELSE issued
       /\ IF req[w].step = "first" /\ same_origin(Home, req[w].to)
          THEN LET a == respond([nonce |-> n, count |-> 0]) IN
               /\ Becomes(w, TopSend(req[w], req[w].to, a.auth, "final"))
               /\ challenge' = a.cached
               /\ Answer(a.auth, TRUE)
          ELSE /\ Becomes(w, [req[w] EXCEPT !.stage = "response"])
               /\ UNCHANGED <<challenge, answered, repeated>>
  /\ UNCHANGED <<vars, conf, next_request>>

\* digest_authorization fails: a prompt cannot be answered, or a panic has
\* poisoned the lock of the cache.  A new challenge is cached before that.
AnswerFails(w) ==
  /\ conf.backend = "digest"
  /\ \/ /\ req[w].stage = "attempt" /\ ~use_raw_path(w)
        /\ Becomes(w, Failed([req[w] EXCEPT !.tries = @ + 1], FALSE))
        /\ UNCHANGED <<challenge, issued, answered>>
     \/ /\ req[w].stage = "sent" /\ req[w].step = "first"
        /\ same_origin(Home, req[w].to)
        /\ Becomes(w, Failed(req[w], FALSE))
        /\ \E n \in 1 .. issued + 1 :
             /\ n <= MaxNonces
             /\ issued' = IF n > issued THEN n ELSE issued
             /\ challenge' = [nonce |-> n, count |-> 0]
             /\ answered' = {a \in answered : a.nonce # n}
  /\ UNCHANGED <<vars, conf, next_request, repeated>>

\* 401 with an NTLM challenge: negotiate, then authenticate; the bodies of the
\* challenges are drained first so that the connection is used again.
NtlmChallenge(w) ==
  /\ conf.backend = "ntlm" /\ req[w].stage = "sent"
  /\ Becomes(w,
       IF req[w].step # "final" /\ same_origin(Home, req[w].to)
       THEN TopSend(req[w], req[w].to, Ntlm,
                    IF req[w].step = "first" THEN "negotiate" ELSE "final")
       ELSE IF req[w].step = "negotiate" THEN Failed(req[w], FALSE)
       ELSE [req[w] EXCEPT !.stage = "response"])
  /\ UNCHANGED <<vars, conf, next_request, challenge, issued, answered, repeated>>

\* Any other response.  To a negotiate message it is an error: the server
\* accepted without a proof.
OtherResponse(w) ==
  /\ Native /\ req[w].stage = "sent"
  /\ Becomes(w, IF req[w].step = "negotiate" THEN Failed(req[w], FALSE)
                ELSE [req[w] EXCEPT !.stage = "response"])
  /\ UNCHANGED <<vars, conf, next_request, challenge, issued, answered, repeated>>

\* The body is read and decoded, or fails.
ReadBody(w) ==
  /\ Native /\ req[w].stage = "response"
  /\ \E ok \in BOOLEAN : Becomes(w, IF ok THEN Idle ELSE Failed(req[w], FALSE))
  /\ UNCHANGED <<vars, conf, next_request, challenge, issued, answered, repeated>>

\* send() failed, or a challenge cannot be read or drained; a proxy that
\* refuses the tunnel or the credentials is not asked again.
ClientFails(w) ==
  /\ Native /\ req[w].stage = "sent"
  /\ \E fatal \in BOOLEAN :
       /\ fatal => conf.proxies > 0
       /\ Becomes(w, Failed(req[w], fatal))
  /\ UNCHANGED <<vars, conf, next_request, challenge, issued, answered, repeated>>

NativeStep(w) ==
  \/ SendFirst(w) \/ SendRaw(w) \/ RefuseRaw(w) \/ FollowRedirect(w)
  \/ DigestChallenge(w) \/ AnswerFails(w) \/ NtlmChallenge(w) \/ OtherResponse(w)
  \/ ReadBody(w) \/ ClientFails(w)

=============================================================================
