---------------------------- MODULE HttpRequests ----------------------------
(***************************************************************************)
(* The request backends at work: workers of one backend share the rate     *)
(* limiter, the HTTP clients and the authentication state.                 *)
(***************************************************************************)
EXTENDS PythonRequester, NativeTransport

RequestStep(w) ==
  Begin(w) \/ Pass(w) \/ Limited(w) \/ PythonStep(w) \/ NativeStep(w)

TimePasses == Tick /\ UNCHANGED httpVars

ReadRate == Rate /\ UNCHANGED httpVars

HttpNext ==
  \/ \E w \in Workers : RequestStep(w)
  \/ TimePasses
  \/ ReadRate

\* Threads, tasks and time go on; a server answers or a timeout strikes.
HttpSpec ==
  /\ LoopInit /\ [][HttpNext]_allVars
  /\ \A w \in Workers : WF_allVars(RequestStep(w))
  /\ WF_allVars(TimePasses)

-----------------------------------------------------------------------------
(* Properties                                                              *)

\* What belongs to the request the user configured stays with it: neither the
\* raw target nor the configured Cookie travels on a redirect, and no
\* Authorization value ever reaches another origin, however redirects and
\* challenges are chained.  The last two are the Rust transport's own work; of
\* the Python requesters it speaks of the raw target alone, since the configured
\* header fields and the credentials are then in the hands of requests and httpx.
HopScope ==
  \A w \in Workers :
    req[w].stage = "sent" =>
      /\ req[w].hops > 0 => ~req[w].raw /\ ~req[w].cookie
      /\ req[w].to # Home => req[w].auth = NoAuth

\* While a worker's NTLM exchange is under way no other worker has a request
\* on its client: the messages of two exchanges never meet on a connection.
OwnConnection ==
  \A v, w \in Workers :
    /\ conf.backend = "ntlm" /\ v # w
    /\ req[v].stage \in {"sent", "response"} /\ req[v].step # "first"
    /\ req[w].stage \in {"sent", "response"}
    => client_index(req[v].index, v) # client_index(req[w].index, w)

\* No two Digest answers of any workers carry the same nonce and count, unless
\* the server issued that nonce again in between.
NonceCounts == ~repeated

\* Every path is requested and every request ends, whatever the server, the
\* proxies and the limiter do.
RequestsEnd ==
  <>(/\ next_request = conf.paths
     /\ \A w \in Workers : pc[w] = "idle" /\ req[w] = Idle)

=============================================================================
