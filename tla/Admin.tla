-------------------------------- MODULE Admin --------------------------------
(***************************************************************************)
(* One request to the relay's admin server, admin.rs `route`.  A header value *)
(* is a sequence of letters behind the scheme it starts with, if any.        *)
(***************************************************************************)
EXTENDS Naturals, Sequences

\* mutant: as many letters as both have are compared
EqOnCommonPart(a, b) ==
  \A i \in DOMAIN a \cap DOMAIN b : a[i] = b[i]

\* constant_time_eq: unequal lengths first, then every letter.
constant_time_eq(a, b) == Len(a) = Len(b) /\ \A i \in DOMAIN a : a[i] = b[i]

\* is_authorized: open without a token; otherwise "Bearer " and the token.
is_authorized(token, authorization) ==
  token = << >> \/
  /\ authorization # << >>
  /\ authorization[1].scheme = "Bearer "
  /\ constant_time_eq(authorization[1].presented, token[1])

\* to_str().ok(): a value with a letter outside of visible ASCII ("umlaut" stands
\* for them) counts as no value.
Ascii(text) == \A i \in DOMAIN text : text[i] # "umlaut"

to_str(authorization) ==
  IF authorization # << >> /\ Ascii(authorization[1].presented) THEN authorization ELSE << >>

Probes == {"/healthz", "/readyz"}

\* route
route(req, token, ready) ==
  IF req.path \notin Probes /\ ~is_authorized(token, to_str(req.authorization)) THEN 401
  ELSE CASE req.path = "/healthz" -> 200
         [] req.path = "/readyz"  -> IF ready THEN 200 ELSE 503
         [] req.path \in {"/metrics", "/version"} -> 200
         [] OTHER -> 404
=============================================================================
