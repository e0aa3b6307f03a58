------------------------------- MODULE MCRelay -------------------------------
(***************************************************************************)
(* Relay over one good configuration and the ways in which one or two of its  *)
(* fields may be wrong, and over requests with and without the token.         *)
(***************************************************************************)
EXTENDS Relay

Ref(text)  == << [found |-> TRUE, text |-> text] >>
NoRef      == << >>
Unfound    == << [found |-> FALSE, text |-> << >>] >>
Padded     == <<"space", "k", "e", "space">>
AllRefs    == {NoRef, Unfound, Ref(<< >>), Ref(<<"space">>), Ref(Padded), Ref(<<"k", "e">>)}

GoodSub == [id |-> "one", httpUrl |-> TRUE, secretEnv |-> Ref(<<"s">>), secretFile |-> NoRef,
            maxAttempts |-> 1, baseDelay |-> 2, maxDelay |-> 2, enabled |-> TRUE]

Subs ==
  {[GoodSub EXCEPT !.secretEnv = e, !.secretFile = f] : e \in AllRefs, f \in AllRefs}
  \cup {[GoodSub EXCEPT !.httpUrl = u, !.maxAttempts = a, !.baseDelay = b, !.enabled = on] :
          u \in BOOLEAN, a \in 0..1, b \in 2..3, on \in BOOLEAN}
  \cup {[GoodSub EXCEPT !.id = "two"]}

Good == [loads |-> TRUE, validateOnly |-> FALSE, addrParses |-> TRUE, sources |-> 1,
         relay |-> [subscriberQueue |-> 1, tokenEnv |-> NoRef, tokenFile |-> NoRef],
         subscribers |-> <<GoodSub>>]

MCConfigs ==
  {[Good EXCEPT !.loads = l, !.validateOnly = v, !.addrParses = p, !.sources = n,
                !.relay.subscriberQueue = q] :
     l \in BOOLEAN, v \in BOOLEAN, p \in BOOLEAN, n \in 0..1, q \in 0..1}
  \cup {[Good EXCEPT !.relay.tokenEnv = e, !.relay.tokenFile = f] :
          e \in AllRefs, f \in AllRefs}
  \cup {[Good EXCEPT !.relay.tokenEnv = Ref(<<"k", "umlaut">>)]}
  \cup {[Good EXCEPT !.subscribers = <<GoodSub, s>>] : s \in Subs}
  \cup {[Good EXCEPT !.subscribers = <<[s EXCEPT !.id = "two"], GoodSub>>] : s \in Subs}
  \cup {[Good EXCEPT !.subscribers = << >>]}

\* What a header value can hold behind its scheme: it does not end in whitespace.
Shown == {<<"k">>, <<"k", "umlaut">>, <<"k", "e">>, <<"k", "e", "y">>, <<"k", "o">>, <<"space", "k", "e">>}

MCRequests ==
  [path : {"/healthz", "/readyz", "/metrics", "/other"},
   authorization : {<< >>} \cup
     {<<[scheme |-> s, presented |-> p]>> : s \in {"Bearer ", "Basic "}, p \in Shown}]
=============================================================================
