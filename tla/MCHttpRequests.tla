--------------------------- MODULE MCHttpRequests ---------------------------
(* TLC instance of HttpRequests: two workers of every backend, with two     *)
(* proxies and redirects or with neither.                                   *)
EXTENDS HttpRequests

MCConfigs ==
  {c \in [backend : {"threads", "async", "basic", "digest", "ntlm"},
          proxies : {0, 2}, follow : BOOLEAN, paths : {2, 3}] :
     /\ c.follow <=> c.proxies > 0
     /\ c.paths = 2 <=> c.backend = "digest"}
=============================================================================
