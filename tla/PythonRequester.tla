-------------------------- MODULE PythonRequester ---------------------------
(***************************************************************************)
(* Requester (requests, one thread per worker) and AsyncRequester (httpx)  *)
(* of lib/connection/requester.py.                                         *)
(*                                                                         *)
(* Both send the path byte for byte: the raw target is kept beside the     *)
(* request, in a thread-local that PathPreservingSocketOptionsAdapter.send *)
(* sets and deletes, or in request.extensions["target"], which httpx       *)
(* copies into the request of a redirect.  Authentication is left to the   *)
(* libraries' plug-ins.                                                    *)
(***************************************************************************)
EXTENDS RequestLoop

Python == conf.backend \in {"threads", "async"}

\* What is left of the raw target when the transport returns: the finally
\* clause deletes the thread-local; the extension is popped on a redirect.
target_after(r, redirected) ==
  conf.backend = "async" /\ r.target /\ ~redirected

\* The order in which the except clause asks what went wrong; the kinds after
\* the proxy's do not decide anything.
ErrorKinds ==
  IF conf.backend = "threads"
  THEN <<"dns", "timeout", "ssl", "redirects", "proxy">>
  ELSE <<"dns", "timeout", "connect", "ssl", "redirects", "proxy">>

\* An exception is the set of the kinds that its chain answers to, with
\* "refused" when proxy_error_status finds 407 or 429.
Exceptions ==
  {{}, {"timeout"}, {"redirects"}, {"proxy"}, {"proxy", "refused"},
   {"timeout", "proxy", "refused"}}

Kind(e) ==
  LET hits == {i \in 1 .. Len(ErrorKinds) : ErrorKinds[i] \in e} IN
  IF hits = {} THEN "other"
  ELSE ErrorKinds[CHOOSE i \in hits : \A j \in hits : i <= j]

\* raise RequestException: a proxy that refused is not asked again.
Fatal(e) == Kind(e) = "proxy" /\ "refused" \in e

-----------------------------------------------------------------------------

\* An attempt builds the request and sends it.
Send(w) ==
  /\ Python
  /\ req[w].stage = "attempt"
  /\ Becomes(w, [req[w] EXCEPT !.stage = "sent", !.tries = @ + 1,
                               !.target = TRUE, !.raw = TRUE])
  /\ UNCHANGED <<vars, conf, next_request, challenge, issued, answered, repeated>>

\* The library builds the next hop from Location.
Redirect(w) ==
  /\ Python
  /\ req[w].stage = "sent"
  /\ Follows(w)
  /\ \E o \in {Home, Away} :
       Becomes(w, [req[w] EXCEPT !.hops = @ + 1, !.to = o,
                                 !.target = target_after(req[w], TRUE),
                                 !.raw = target_after(req[w], TRUE)])
  /\ UNCHANGED <<vars, conf, next_request, challenge, issued, answered, repeated>>

\* A response arrives; its stream is open.
Respond(w) ==
  /\ Python
  /\ req[w].stage = "sent"
  /\ Becomes(w, [req[w] EXCEPT !.stage = "response",
                               !.target = target_after(req[w], FALSE)])
  /\ UNCHANGED <<vars, conf, next_request, challenge, issued, answered, repeated>>

\* 407 through a proxy raises at once; a body that cannot be read is retried;
\* otherwise the response is returned.  The stream is closed in all cases.
Finish(w) ==
  /\ Python
  /\ req[w].stage = "response"
  /\ \E outcome \in {"ok", "read_error", "proxy_auth"} :
       /\ outcome = "proxy_auth" => conf.proxies > 0
       /\ Becomes(w, IF outcome = "read_error" THEN Failed(req[w], FALSE)
                     ELSE Idle)
  /\ UNCHANGED <<vars, conf, next_request, challenge, issued, answered, repeated>>

\* The transport raises.
SendFails(w) ==
  /\ Python
  /\ req[w].stage = "sent"
  /\ \E e \in Exceptions :
       /\ "redirects" \in e => Overruns(w)
       /\ "proxy" \in e => conf.proxies > 0
       /\ Becomes(w, Failed(req[w], Fatal(e)))
  /\ UNCHANGED <<vars, conf, next_request, challenge, issued, answered, repeated>>

PythonStep(w) ==
  Send(w) \/ Redirect(w) \/ Respond(w) \/ Finish(w) \/ SendFails(w)

=============================================================================
