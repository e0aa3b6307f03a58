---------------------------- MODULE RelayConfig ----------------------------
(***************************************************************************)
(* The relay's configuration, config.rs: what `load_from_file` and `validate` *)
(* make of a file, the environment and the secret files it refers to.        *)
(*                                                                         *)
(* A reference to a secret is a sequence of length at most one: what the      *)
(* variable or file holds, with found = FALSE when it cannot be read.  A text *)
(* is a sequence of letters and "space" for the whitespace.  The result of a   *)
(* step that may bail is empty, or the value alone.                          *)
(***************************************************************************)
EXTENDS Integers, Sequences, SequencesExt

Blank(c) == c = "space"

\* The file's trailing whitespace; env variables are taken as they are.
TrimEnd(text) ==
  LET solid == SelectLastInSeq(text, LAMBDA c : ~Blank(c)) IN SubSeq(text, 1, solid)

\* str::trim
TrimBoth(text) ==
  LET first == SelectInSeq(text, LAMBDA c : ~Blank(c))
  IN  IF first = 0 THEN << >> ELSE SubSeq(TrimEnd(text), first, Len(TrimEnd(text)))

NonEmpty(text) == IF text = << >> THEN << >> ELSE <<text>>

\* Exactly one of the two references, and it holds something.
ResolveSecret(s) ==
  CASE Len(s.secretEnv) = Len(s.secretFile) -> << >>
    [] s.secretEnv # << >>  -> IF s.secretEnv[1].found THEN NonEmpty(s.secretEnv[1].text)
                               ELSE << >>
    [] s.secretFile # << >> -> IF s.secretFile[1].found
                               THEN NonEmpty(TrimEnd(s.secretFile[1].text)) ELSE << >>

\* resolve_admin_token: none configured is <<<< >>>>.
resolve_admin_token(relay) ==
  LET Token(text) == IF text = << >> THEN << >> ELSE << <<text>> >>
  IN  CASE relay.tokenEnv = << >> /\ relay.tokenFile = << >> -> << << >> >>
        [] relay.tokenEnv # << >> /\ relay.tokenFile # << >> -> << >>
        [] relay.tokenEnv # << >> /\ relay.tokenFile = << >> ->
             IF relay.tokenEnv[1].found THEN Token(relay.tokenEnv[1].text) ELSE << >>
        [] relay.tokenEnv = << >> /\ relay.tokenFile # << >> ->
             IF relay.tokenFile[1].found THEN Token(TrimBoth(relay.tokenFile[1].text)) ELSE << >>

UniqueIds(subs) == \A i, j \in DOMAIN subs : subs[i].id = subs[j].id => i = j

RetryOk(s) == s.maxAttempts >= 1 /\ s.baseDelay <= s.maxDelay

SubscriberOk(s) == s.httpUrl /\ ResolveSecret(s) # << >> /\ RetryOk(s)

\* mutant: a subscriber that is disabled is not looked at
ValidateEnabled(cfg) ==
  LET token == resolve_admin_token(cfg.relay)
      subs  == SelectSeq(cfg.subscribers, LAMBDA s : s.enabled)
  IN  IF \/ cfg.sources = 0 \/ cfg.relay.subscriberQueue = 0
         \/ ~UniqueIds(subs) \/ token = << >>
         \/ \E i \in DOMAIN subs : ~SubscriberOk(subs[i])
      THEN << >>
      ELSE << [raw |-> cfg, adminToken |-> token[1],
               secrets |-> [i \in DOMAIN cfg.subscribers |->
                              ResolveSecret(cfg.subscribers[i])]] >>

\* validate
validate(cfg) ==
  LET token == resolve_admin_token(cfg.relay)
  IN  IF \/ cfg.sources = 0 \/ cfg.relay.subscriberQueue = 0
         \/ ~UniqueIds(cfg.subscribers) \/ token = << >>
         \/ \E i \in DOMAIN cfg.subscribers : ~SubscriberOk(cfg.subscribers[i])
      THEN << >>
      ELSE << [raw |-> cfg, adminToken |-> token[1],
               secrets |-> [i \in DOMAIN cfg.subscribers |->
                              ResolveSecret(cfg.subscribers[i])]] >>

\* load_from_file, then validate.
Resolve(cfg) == IF cfg.loads THEN validate(cfg) ELSE << >>
=============================================================================
