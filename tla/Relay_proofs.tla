----------------------------- MODULE Relay_proofs -----------------------------
(***************************************************************************)
(* Proofs about Relay, for every set of configuration files and of requests  *)
(* to the admin server: the exit status is true, only a valid configuration  *)
(* is started, and the operator's data are guarded by the token.             *)
(***************************************************************************)
EXTENDS Relay, SequenceTheorems, WellFoundedInduction, TLAPS

-----------------------------------------------------------------------------
(* The inductive invariant.                                                *)

\* The two tasks exist exactly while the process waits for them, and what they
\* leave behind is looked at after the process has joined them.
SpawnInv ==
  /\ proc = "starting" => resolved = << >>
  /\ Spawned => resolved # << >>

\* The life of the pipeline's task: its result is decided before its teardown, and
\* it is ready between its start and its teardown only.
TaskInv ==
  /\ stage \in {"building", "running", "closing", "ended"}
  /\ result \in {"none", "ok", "err"}
  /\ stage \in {"closing", "ended"} => result # "none"
  /\ ready => stage = "running"

\* Nobody is told to stop before the select has returned, so that an admin server
\* which has ended by then has failed.
AdminInv ==
  /\ admin \in {"none", "binding", "serving"} \cup AdminEnded
  /\ told => proc \notin {"starting", "supervising"}
  /\ admin = "stopped" => told
  /\ stop = "admin" => admin = "failed"

IInv ==
  /\ TypeOK
  /\ SpawnInv
  /\ TaskInv
  /\ AdminInv
  /\ ExitTellsTheTruth
  /\ NobodyLeftBehind

-----------------------------------------------------------------------------
\* A process that has not looked at its configuration yet.
LEMMA InitEstablishesIInv == Init => IInv
BY DEF Init, TaskInit, IInv, TypeOK, SpawnInv, TaskInv, AdminInv, Spawned, AdminEnded, NoAnswer,
   ExitTellsTheTruth, NobodyLeftBehind

\* From the command line to the two tasks: the only exit without them is the one
\* of a configuration that was to be checked, or that is not valid.
LEMMA StartKeepsIInv == IInv /\ Start => IInv'
BY DEF Start, Exit, taskVars, IInv, TypeOK, SpawnInv, TaskInv, AdminInv, Spawned, AdminEnded,
   NoAnswer, ExitTellsTheTruth, NobodyLeftBehind

\* A signal kills the process or is noted for the select, which alone acts on it.
LEMMA SignalKeepsIInv == IInv /\ (SignalArrives \/ InstallHandlers) => IInv'
BY DEF SignalArrives, InstallHandlers, Exit, taskVars, IInv, TypeOK, SpawnInv, TaskInv, AdminInv,
   Spawned, AdminEnded, NoAnswer, ExitTellsTheTruth, NobodyLeftBehind

\* The admin server stops only when it was told, and its answers change nothing.
LEMMA AdminKeepsIInv ==
  IInv /\ (AdminBinds \/ AdminHearsStop \/ Connect \/ AnswerRequest) => IInv'
BY DEF AdminBinds, AdminHearsStop, AdminGoes, Connect, AnswerRequest, taskVars, IInv, TypeOK,
   SpawnInv, TaskInv, AdminInv, Spawned, AdminEnded, NoAnswer, ExitTellsTheTruth, NobodyLeftBehind

\* The pipeline's task goes through its life, whatever the process does.
LEMMA PipelineKeepsIInv == IInv /\ Pipeline => IInv'
BY DEF Pipeline, TaskStep, BuildFails, GetReady, Decide, Close, Worsen, End, IInv, TypeOK,
   SpawnInv, TaskInv, AdminInv, Spawned, AdminEnded, NoAnswer, ExitTellsTheTruth, NobodyLeftBehind

\* The select: an admin server that it finds ended was not told to end.
LEMMA SelectKeepsIInv ==
  IInv /\ (StopBySignal \/ StopByAdmin \/ StopByPipeline) => IInv'
BY DEF StopBySignal, StopByAdmin, StopByPipeline, Stops, Tell, Waiting, IInv, TypeOK, SpawnInv,
   TaskInv, AdminInv, Spawned, AdminEnded, NoAnswer, ExitTellsTheTruth, NobodyLeftBehind

\* The exit: both tasks have ended, and each error of theirs is the process's.
LEMMA FinishKeepsIInv == IInv /\ Finish => IInv'
BY DEF Finish, Joined, AllWell, Exit, taskVars, IInv, TypeOK, SpawnInv, TaskInv, AdminInv,
   Spawned, AdminEnded, NoAnswer, ExitTellsTheTruth, NobodyLeftBehind

\* Every step of the process, of its two tasks and of the operator.
LEMMA NextKeepsIInv == IInv /\ [Next]_vars => IInv'
<1> SUFFICES ASSUME IInv, [Next]_vars PROVE IInv'
  OBVIOUS
<1>1. CASE UNCHANGED vars
  BY <1>1 DEF vars, taskVars, IInv, TypeOK, SpawnInv, TaskInv, AdminInv, Spawned, AdminEnded,
     NoAnswer, ExitTellsTheTruth, NobodyLeftBehind
<1>. QED  BY <1>1, StartKeepsIInv, SignalKeepsIInv, AdminKeepsIInv, PipelineKeepsIInv,
             SelectKeepsIInv, FinishKeepsIInv DEF Next, Supervisor

\* lib.rs run and main.rs: whatever the configuration, the requests and the moment
\* of a signal, the exit status tells how both tasks ended, and neither is running.
THEOREM ExitStaysTrue == Spec => []ExitIsTrue
<1>1. IInv => ExitIsTrue
  BY DEF IInv, ExitIsTrue
<1>. QED  BY <1>1, InitEstablishesIInv, NextKeepsIInv, PTL DEF Spec

-----------------------------------------------------------------------------
(* What was started is what validate accepted.                             *)

\* The two tasks run with the configuration that was resolved at the start.
StartedInv ==
  resolved # << >> => cfg.addrParses /\ ~cfg.validateOnly /\ resolved = Resolve(cfg)

\* No step after the start changes the configuration in force.
LEMMA StartedInvHolds == Spec => []StartedInv
<1>1. Init => StartedInv
  BY DEF Init, StartedInv
<1>2. StartedInv /\ [Next]_vars => StartedInv'
  <2> SUFFICES ASSUME StartedInv, [Next]_vars PROVE StartedInv'
    OBVIOUS
  <2>1. CASE Start
    BY <2>1 DEF Start, Exit, StartedInv
  <2>2. CASE ~Start
    <3>1. UNCHANGED <<cfg, resolved>>
      BY <2>2 DEF Next, Supervisor, SignalArrives, InstallHandlers, AdminBinds, AdminHearsStop,
         AdminGoes, Connect, AnswerRequest, Pipeline, StopBySignal, StopByAdmin, StopByPipeline,
         Stops, Finish, vars
    <3>. QED  BY <3>1 DEF StartedInv
  <2>. QED  BY <2>1, <2>2
<1>. QED  BY <1>1, <1>2, PTL DEF Spec

\* A secret that was resolved is a text with letters.
LEMMA SecretIsText ==
  ASSUME NEW s, ResolveSecret(s) # << >>
  PROVE  \E secret \in ToSet(ResolveSecret(s)) : secret # << >>
<1>1. ASSUME NEW text, NonEmpty(text) # << >>
      PROVE  \E secret \in ToSet(NonEmpty(text)) : secret # << >>
  <2>1. NonEmpty(text) = <<text>> /\ text # << >>
    BY <1>1 DEF NonEmpty
  <2>2. text \in ToSet(<<text>>)
    BY DEF ToSet
  <2>. QED  BY <2>1, <2>2
<1>2. \/ ResolveSecret(s) = NonEmpty(s.secretEnv[1].text)
      \/ ResolveSecret(s) = NonEmpty(TrimEnd(s.secretFile[1].text))
  BY DEF ResolveSecret
<1>. QED  BY <1>1, <1>2

\* config.rs validate: no pipeline without a source, a queue with room and, for each
\* subscriber, an attempt, a secret and a name of its own.
THEOREM StartsOnlyValid == Spec => []StartedOnlyValid
<1>1. TypeOK /\ StartedInv => StartedOnlyValid
  <2> SUFFICES ASSUME TypeOK, StartedInv, resolved # << >>
               PROVE  StartedOnlyValid
    BY DEF StartedOnlyValid
  <2>1. cfg \in Configs /\ cfg.loads /\ resolved = validate(cfg) /\ validate(cfg) # << >>
    BY DEF TypeOK, StartedInv, Resolve
  <2>2. /\ cfg.sources # 0 /\ cfg.relay.subscriberQueue # 0
        /\ UniqueIds(cfg.subscribers)
        /\ \A i \in DOMAIN cfg.subscribers : SubscriberOk(cfg.subscribers[i])
        /\ resolved[1].raw = cfg
        /\ resolved[1].secrets = [i \in DOMAIN cfg.subscribers |->
                                    ResolveSecret(cfg.subscribers[i])]
    BY <2>1 DEF validate
  <2>3. cfg.sources > 0 /\ cfg.relay.subscriberQueue > 0
    BY <2>1, <2>2, ConfigsAssumption
  <2>4. ASSUME NEW i \in DOMAIN cfg.subscribers
        PROVE  /\ cfg.subscribers[i].maxAttempts > 0
               /\ cfg.subscribers[i].baseDelay <= cfg.subscribers[i].maxDelay
               /\ \E secret \in ToSet(resolved[1].secrets[i]) : secret # << >>
               /\ \A j \in DOMAIN cfg.subscribers :
                    i # j => cfg.subscribers[i].id # cfg.subscribers[j].id
    <3>1. cfg.subscribers[i].maxAttempts \in Nat
      BY <2>1, ConfigsAssumption
    <3>2. RetryOk(cfg.subscribers[i]) /\ ResolveSecret(cfg.subscribers[i]) # << >>
      BY <2>2 DEF SubscriberOk
    <3>3. resolved[1].secrets[i] = ResolveSecret(cfg.subscribers[i])
      BY <2>2
    <3>. QED  BY <2>2, <3>1, <3>2, <3>3, SecretIsText DEF RetryOk, UniqueIds
  <2>. QED  BY SMTT(40), <2>1, <2>2, <2>3, <2>4 DEF StartedOnlyValid, StartedInv
<1>2. IInv => TypeOK
  BY DEF IInv
<1>. QED  BY <1>1, <1>2, InitEstablishesIInv, NextKeepsIInv, StartedInvHolds, PTL DEF Spec

-----------------------------------------------------------------------------
(* The admin token.                                                        *)

\* A set of naturals has a least element: less-than is well-founded.
LEMMA LeastNatural ==
  ASSUME NEW S \in SUBSET Nat, S # {}
  PROVE  \E x \in S : \A y \in S : x <= y
<1>1. PICK x \in S : \A y \in S : ~ (<<y, x>> \in OpToRel(<, Nat))
  BY NatLessThanWellFounded, WFMin
<1>2. ASSUME NEW y \in S PROVE x <= y
  <2>1. ~ (y < x)
    BY <1>1 DEF OpToRel
  <2>. QED  BY <2>1
<1>. QED  BY <1>2

\* The index of a first letter is one of the indices.
LEMMA MinOfNaturals ==
  ASSUME NEW S \in SUBSET Nat, S # {}
  PROVE  Min(S) \in S
BY LeastNatural DEF Min

\* The index of a last letter is one of the indices.
LEMMA MaxOfBounded ==
  ASSUME NEW n \in Nat, NEW S \in SUBSET (1 .. n), S # {}
  PROVE  Max(S) \in S
<1> DEFINE T == {n - i : i \in S}
<1>1. T \in SUBSET Nat /\ T # {}
  <2>1. \A i \in S : n - i \in Nat
    OBVIOUS
  <2>2. PICK i \in S : TRUE
    OBVIOUS
  <2>3. n - i \in T
    OBVIOUS
  <2>. QED  BY <2>1, <2>3
<1>2. PICK t \in T : \A y \in T : t <= y
  BY <1>1, LeastNatural
<1>3. PICK i \in S : t = n - i
  OBVIOUS
<1>4. \A j \in S : i >= j
  <2>1. \A j \in S : t <= n - j
    BY <1>2
  <2>. QED  BY <2>1, <1>3
<1>. QED  BY <1>4 DEF Max

\* What is left of a text after trimming is a text.
LEMMA TrimIsText ==
  ASSUME NEW text \in Seq(STRING)
  PROVE  TrimBoth(text) \in Seq(STRING)
<1> DEFINE Solid == {i \in 1 .. Len(text) : ~Blank(text[i])}
           last  == SelectLastInSeq(text, LAMBDA c : ~Blank(c))
           first == SelectInSeq(text, LAMBDA c : ~Blank(c))
<1>1. last \in 0 .. Len(text)
  <2>1. last = IF Solid # {} THEN Max(Solid) ELSE 0
    BY DEF SelectLastInSeq
  <2>2. Solid \in SUBSET (1 .. Len(text)) /\ Len(text) \in Nat
    OBVIOUS
  <2>3. Solid # {} => Max(Solid) \in Solid
    BY <2>2, MaxOfBounded
  <2>. QED  BY <2>1, <2>2, <2>3
<1>2. first \in 0 .. Len(text)
  <2>1. first = IF Solid # {} THEN Min(Solid) ELSE 0
    BY DEF SelectInSeq
  <2>2. Solid \in SUBSET Nat /\ Len(text) \in Nat
    OBVIOUS
  <2>3. Solid # {} => Min(Solid) \in Solid
    BY <2>2, MinOfNaturals
  <2>. QED  BY <2>1, <2>2, <2>3
<1>3. TrimEnd(text) = SubSeq(text, 1, last)
  BY DEF TrimEnd
<1>4. TrimEnd(text) \in Seq(STRING) /\ Len(TrimEnd(text)) \in Nat
  <2>. HIDE DEF last
  <2>. QED  BY <1>1, <1>3
<1>5. TrimBoth(text) = IF first = 0 THEN << >>
                       ELSE SubSeq(TrimEnd(text), first, Len(TrimEnd(text)))
  BY DEF TrimBoth
<1> DEFINE kept == TrimEnd(text)
<1>6. ASSUME first # 0 PROVE SubSeq(kept, first, Len(kept)) \in Seq(STRING)
  <2>1. \A i \in first .. Len(kept) : kept[i] \in STRING
    <3>1. first \in Nat \ {0}
      BY <1>2, <1>6
    <3>. HIDE DEF first, kept
    <3>2. kept \in Seq(STRING) /\ Len(kept) \in Nat
      BY <1>4 DEF kept
    <3>. QED  BY <3>1, <3>2, ElementOfSeq
  <2>2. first \in Int /\ Len(kept) \in Int
    BY <1>2, <1>4
  <2>. HIDE DEF first, kept
  <2>. QED  BY <2>1, <2>2, SubSeqProperties
<1>7. CASE first = 0
  BY <1>5, <1>7, EmptySeq
<1>8. CASE first # 0
  <2>1. TrimBoth(text) = SubSeq(kept, first, Len(kept))
    BY <1>5, <1>8
  <2>. QED  BY <1>6, <1>8, <2>1
<1>. QED  BY <1>7, <1>8

\* Two texts of one length with the same letters are one text.
LEMMA EqualTexts ==
  ASSUME NEW a \in Seq(STRING), NEW b \in Seq(STRING)
  PROVE  constant_time_eq(a, b) <=> a = b
BY SeqEqual DEF constant_time_eq

\* A header value is what its scheme and the text behind it are.
LEMMA EqualHeaders ==
  ASSUME NEW a \in [scheme : STRING, presented : Seq(STRING)], NEW s, NEW t
  PROVE  a = [scheme |-> s, presented |-> t] <=> a.scheme = s /\ a.presented = t
OBVIOUS

\* What the operator configured as a token, and what validate made of it.
Refs == cfg.relay.tokenEnv \o cfg.relay.tokenFile

TokenText == IF cfg.relay.tokenFile = << >> THEN Refs[1].text ELSE TrimBoth(Refs[1].text)

\* A configuration that was accepted has no reference to a token and no token, or one
\* reference and the text behind it.
LEMMA TokenIsConfigured ==
  ASSUME cfg \in Configs, resolve_admin_token(cfg.relay) # << >>
  PROVE  LET token == resolve_admin_token(cfg.relay)[1]
         IN  /\ token = << >> <=> Refs = << >>
             /\ token # << >> => token = <<TokenText>> /\ TokenText \in Seq(STRING)
<1> DEFINE relay == cfg.relay
           env   == relay.tokenEnv
           file  == relay.tokenFile
           token == resolve_admin_token(relay)
<1>1. env \in Seq(SecretRef) /\ file \in Seq(SecretRef)
  BY ConfigsAssumption
<1>2. CASE env = << >> /\ file = << >>
  <2>1. token = << << >> >>
    BY <1>2 DEF resolve_admin_token
  <2>2. Refs = << >>
    BY <1>2 DEF Refs
  <2>. QED  BY <2>1, <2>2
<1>3. CASE env # << >> /\ file # << >>
  BY <1>3 DEF resolve_admin_token
<1>4. CASE env # << >> /\ file = << >>
  <2>1. Refs = env
    BY <1>1, <1>4 DEF Refs
  <2>2. env[1] \in SecretRef
    BY <1>1, <1>4
  <2>3. token = << <<env[1].text>> >>
    BY <1>4 DEF resolve_admin_token
  <2>4. TokenText = env[1].text /\ TokenText \in Seq(STRING)
    BY <1>4, <2>1, <2>2 DEF TokenText, SecretRef
  <2>. QED  BY <1>4, <2>1, <2>3, <2>4
<1>5. CASE env = << >> /\ file # << >>
  <2>1. Refs = file
    BY <1>1, <1>5 DEF Refs
  <2>2. file[1] \in SecretRef
    BY <1>1, <1>5
  <2>3. token = << <<TrimBoth(file[1].text)>> >>
    BY <1>5 DEF resolve_admin_token
  <2>4. TokenText = TrimBoth(file[1].text) /\ TokenText \in Seq(STRING)
    BY <1>5, <2>1, <2>2, TrimIsText DEF TokenText, SecretRef
  <2>. QED  BY <1>5, <2>1, <2>3, <2>4
<1>. QED  BY <1>2, <1>3, <1>4, <1>5

\* Every answer is route's, for the token of the configuration in force.
AnswerInv ==
  answer # NoAnswer =>
    /\ resolved # << >>
    /\ answer[1].req \in Requests
    /\ \E isReady : answer[1].status = route(answer[1].req, resolved[1].adminToken, isReady)

\* Only an answer of the server changes the last answer.
LEMMA AnswerInvHolds == Spec => []AnswerInv
<1>1. Init => AnswerInv
  BY DEF Init, AnswerInv
<1>2. IInv /\ AnswerInv /\ [Next]_vars => AnswerInv'
  <2> SUFFICES ASSUME IInv, AnswerInv, [Next]_vars PROVE AnswerInv'
    OBVIOUS
  <2>1. CASE AnswerRequest
    <3>1. PICK req \in Requests :
            answer' = <<[req |-> req, status |-> route(req, resolved[1].adminToken, ready)]>>
      BY <2>1 DEF AnswerRequest
    <3>2. resolved # << >> /\ resolved' = resolved
      BY <2>1 DEF AnswerRequest, IInv, SpawnInv
    <3>3. answer'[1].req = req /\ answer'[1].status = route(req, resolved[1].adminToken, ready)
      BY <3>1
    <3>. QED  BY <3>2, <3>3 DEF AnswerInv
  <2>2. CASE Start
    <3>1. answer = NoAnswer
      BY <2>2 DEF Start, IInv, TypeOK, SpawnInv
    <3>. QED  BY <2>2, <3>1 DEF Start, AnswerInv, NoAnswer
  <2>3. CASE ~Start /\ ~AnswerRequest
    <3>1. resolved' = resolved /\ answer' \in {answer, NoAnswer}
      BY <2>3 DEF Next, Supervisor, SignalArrives, InstallHandlers, AdminBinds, AdminHearsStop,
         AdminGoes, Connect, Pipeline, StopBySignal, StopByAdmin, StopByPipeline, Stops, Finish,
         vars
    <3>. QED  BY <3>1 DEF AnswerInv, NoAnswer
  <2>. QED  BY <2>1, <2>2, <2>3
<1>. QED  BY <1>1, <1>2, InitEstablishesIInv, NextKeepsIInv, PTL DEF Spec

\* admin.rs route and is_authorized with config.rs resolve_admin_token: for every
\* token, in a variable or in a file, and every request.
THEOREM DataStaysGuarded == Spec => []DataGuarded
<1>1. TypeOK /\ StartedInv /\ AnswerInv => DataGuarded
  <2> SUFFICES ASSUME TypeOK, StartedInv, AnswerInv, answer # NoAnswer
               PROVE  DataGuarded
    BY DEF DataGuarded
  <2> DEFINE req   == answer[1].req
             auth  == req.authorization
             token == resolved[1].adminToken
             value == to_str(auth)
             shown == /\ auth # << >> /\ auth[1] = [scheme |-> "Bearer ", presented |-> TokenText]
                      /\ Ascii(TokenText)
  <2>1. PICK isReady : answer[1].status = route(req, token, isReady)
    BY DEF AnswerInv
  <2>2. /\ cfg \in Configs /\ req \in Requests
        /\ resolve_admin_token(cfg.relay) # << >>
        /\ token = resolve_admin_token(cfg.relay)[1]
    <3>1. resolved = validate(cfg) /\ validate(cfg) # << >>
      BY DEF AnswerInv, StartedInv, Resolve
    <3>. QED  BY <3>1 DEF validate, TypeOK, AnswerInv
  <2>3. /\ token = << >> <=> Refs = << >>
        /\ token # << >> => token = <<TokenText>> /\ TokenText \in Seq(STRING)
    BY <2>2, TokenIsConfigured
  <2>4. answer[1].status = 401 <=> req.path \notin Probes /\ ~is_authorized(token, value)
    BY <2>1 DEF route
  <2>5. is_authorized(token, value) <=> Refs = << >> \/ shown
    <3>1. CASE token = << >>
      BY <2>3, <3>1 DEF is_authorized
    <3>2. CASE token # << >> /\ auth = << >>
      BY <2>3, <3>2 DEF is_authorized, to_str
    <3>4. CASE token # << >> /\ auth # << >> /\ ~Ascii(auth[1].presented)
      <4>1. value = << >>
        BY <3>4 DEF to_str
      <4>2. ~shown
        <5>1. ASSUME NEW header, NEW scheme, NEW text,
                     header = [scheme |-> scheme, presented |-> text]
              PROVE  header.presented = text
          BY <5>1
        <5>. HIDE DEF auth
        <5>. QED  BY <3>4, <5>1
      <4>. QED  BY <2>3, <3>4, <4>1, <4>2 DEF is_authorized
    <3>3. CASE token # << >> /\ auth # << >> /\ Ascii(auth[1].presented)
      <4>1. auth[1] \in [scheme : STRING, presented : Seq(STRING)]
        BY <2>2, <3>3, RequestsAssumption
      <4>2. constant_time_eq(auth[1].presented, TokenText) <=> auth[1].presented = TokenText
        BY <2>3, <3>3, <4>1, EqualTexts
      <4>3. token[1] = TokenText
        BY <2>3, <3>3
      <4>4. is_authorized(token, value) <=> /\ auth[1].scheme = "Bearer "
                                            /\ auth[1].presented = TokenText
        <5>1. value = auth
          BY <3>3 DEF to_str
        <5>. QED  BY <3>3, <4>2, <4>3, <5>1 DEF is_authorized
      <4>5. auth[1] = [scheme |-> "Bearer ", presented |-> TokenText] <=>
              auth[1].scheme = "Bearer " /\ auth[1].presented = TokenText
        <5> DEFINE header == auth[1]
                   scheme == "Bearer "
        <5>1. header \in [scheme : STRING, presented : Seq(STRING)]
          BY <4>1
        <5>. HIDE DEF header, scheme
        <5>2. header = [scheme |-> scheme, presented |-> TokenText] <=>
                header.scheme = scheme /\ header.presented = TokenText
          BY <5>1, EqualHeaders
        <5>. QED  BY <5>2 DEF header, scheme
      <4>. QED  BY <2>3, <3>3, <4>4, <4>5
    <3>. QED  BY <3>1, <3>2, <3>3, <3>4
  <2>. QED  BY <2>4, <2>5 DEF DataGuarded, Refs, TokenText, Probes
<1>2. IInv => TypeOK
  BY DEF IInv
<1>. QED  BY <1>1, <1>2, InitEstablishesIInv, NextKeepsIInv, StartedInvHolds, AnswerInvHolds,
             PTL DEF Spec
=============================================================================
