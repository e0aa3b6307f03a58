----------------------------- MODULE GuestInput -----------------------------
(***************************************************************************)
(* From the host's buffers to verdicts: the stretch of entry.rs `inspect`    *)
(* that reads header names, the value of each name, address, URI and method  *)
(* from the host, builds the request view and runs the content detectors.    *)
(* The body is what BodyDrain makes of it; the decision on the verdicts is    *)
(* in Policy and GuestRequest.                                              *)
(*                                                                         *)
(* The host may hold more headers or values at a retry than it did at the     *)
(* first call (`Later`); `changed` records that it did.                     *)
(***************************************************************************)
EXTENDS HostBuffers, Detectors, Policy, FiniteSets

\* What clients send: method, path, params (names and values), headers (a name
\* and its values), body, peer (address and the form the host writes it in) and
\* the configured xff.trustedHops.
CONSTANT Requests

VARIABLES
  client,   \* the request
  phase,    \* what the guest reads next
  names,    \* header names still to look up
  headers,  \* headers found so far
  line,     \* path, raw query and source address
  changed,  \* the host changed its mind between two calls
  verdicts

vars == <<client, phase, names, headers, line, changed, verdicts>>

NoLine == [path |-> << >>, query |-> << >>, sourceIp |-> "0.0.0.0"]

Init ==
  /\ client \in Requests
  /\ phase = "names" /\ names = << >> /\ headers = << >> /\ line = NoLine
  /\ changed = FALSE /\ verdicts = << >>

\* What the host has of the request.
HostNames == [i \in DOMAIN client.headers |-> <<Plain(client.headers[i].name)>>]

HostValues(name) ==
  LET i == SelectInSeq(client.headers, LAMBDA h : <<Plain(h.name)>> = name)
  IN  IF i = 0 THEN << >> ELSE client.headers[i].values

RawQuery ==
  FlattenSeq([i \in DOMAIN client.params |->
    (IF i = 1 THEN <<Plain("?")>> ELSE <<Plain("&")>>)
      \o client.params[i].name \o <<Plain("=")>> \o client.params[i].value])

HostUri == client.path \o RawQuery

HostAddr ==
  LET ip == AddrText(client.peer.ip)
      bracketed == <<Plain("[")>> \o ip \o <<Plain("]")>>
      port == <<Plain(":"), Plain("port5")>>
  IN  CASE client.peer.form = "bare"            -> ip
        [] client.peer.form = "with port"       -> ip \o port
        [] client.peer.form = "bracketed"       -> bracketed
        [] client.peer.form = "bracketed, port" -> bracketed \o port
        [] client.peer.form = "short port"      -> ip \o <<Plain(":"), Plain("port4")>>

Later(list) == {list, list \o list}

ReadNames ==
  /\ phase = "names"
  /\ \E later \in Later(HostNames) :
       /\ names' = read_buf_multi(HostNames, later)
       /\ changed' = (changed \/ later # HostNames)
  /\ phase' = "values"
  /\ UNCHANGED <<client, headers, line, verdicts>>

\* get_request_header of the next name: a name without a value is dropped.
ReadValue ==
  /\ phase = "values" /\ names # << >>
  /\ \E later \in Later(HostValues(Head(names))) :
       LET value == join_header_values(read_buf_multi(HostValues(Head(names)), later))
       IN  /\ headers' = IF value = << >> THEN headers
                         ELSE Append(headers, [name  |-> Lower(Head(names)[1].what),
                                               value |-> value[1]])
           /\ changed' = (changed \/ later # HostValues(Head(names)))
  /\ names' = Tail(names)
  /\ UNCHANGED <<client, phase, line, verdicts>>

\* Address, URI and method.
ReadLine ==
  /\ phase = "values" /\ names = << >>
  /\ \E later \in Later(HostUri) :
       LET uri  == Lossy(read_buf(HostUri, later))
           mark == FirstOf(uri, "?")
           peer == parse_peer(read_buf(HostAddr, HostAddr))
       IN  /\ line' = [path  |-> IF mark = 0 THEN uri ELSE Before(uri, mark),
                       query |-> IF mark = 0 THEN << >> ELSE After(uri, mark),
                       sourceIp |-> client_ip(headers, peer, client.hops)]
           /\ changed' = (changed \/ later # HostUri)
  /\ phase' = "inspect"
  /\ UNCHANGED <<client, names, headers, verdicts>>

Request == build(client.method, line.path, line.query, headers, client.body, line.sourceIp)

\* Engine::inspect with the three content detectors.
Inspect ==
  /\ phase = "inspect"
  /\ LET req == Request
     IN  verdicts' = Collect([g \in Group |->
                                CASE g = "injection"  -> InspectInjection(req)
                                  [] g = "signatures" -> InspectSignatures(req)
                                  [] g = "structural" -> InspectStructural(req)
                                  [] g = "reputation" -> << >>],
                             {"injection", "signatures", "structural"})
  /\ phase' = "done"
  /\ UNCHANGED <<client, names, headers, line, changed>>

Next == ReadNames \/ ReadValue \/ ReadLine \/ Inspect

Spec == Init /\ [][Next]_vars
-----------------------------------------------------------------------------
(* Properties.                                                             *)

\* Types, and what each phase has.
TypeOK ==
  /\ phase \in {"names", "values", "inspect", "done"}
  /\ changed \in BOOLEAN
  /\ Len(names) <= MAX_MULTI_VALUES /\ Len(headers) <= MAX_MULTI_VALUES
  /\ line.sourceIp \in Ip4 \cup Ip6 \cup {"longer6", "0.0.0.0"}
  /\ \A i \in DOMAIN verdicts : /\ verdicts[i].group \in Group
                                /\ verdicts[i].severity \in Severity

Parts(value)   == [i \in DOMAIN Split(value, ",") |-> Trim(Split(value, ",")[i])]
SentParts(h)   == FlattenSeq([i \in DOMAIN h.values |-> Parts(Lossy(h.values[i]))])
Sent(name)     == CHOOSE h \in Range(client.headers) : Lower(h.name) = name

\* The padding of a buffer the host did not fill is never taken for header values
\* (host.rs read_buf_multi, the checks around the retry): whatever the host does in
\* between, each part of a value is one the client sent.
NothingInvented ==
  \A i \in DOMAIN headers :
    /\ \E h \in Range(client.headers) : Lower(h.name) = headers[i].name
    /\ Range(Parts(headers[i].value)) \subseteq Range(SentParts(Sent(headers[i].name)))

\* The request is one the guest has room for, and the host stood by its answers.
Whole ==
  /\ ~changed
  /\ Len(client.headers) <= MAX_MULTI_VALUES
  /\ Len(Packed(HostNames)) <= MAX_ALLOC /\ Len(HostUri) <= MAX_ALLOC
  /\ \A h \in Range(client.headers) :
       Len(h.values) \in 1 .. MAX_MULTI_VALUES /\ Len(Packed(h.values)) <= MAX_ALLOC

\* No header and no value of a repeated header is lost or moved on the way through
\* the buffers (entry.rs inspect, host.rs join_header_values).
HeadersComplete ==
  Whole /\ phase \in {"inspect", "done"} =>
    /\ [i \in DOMAIN headers |-> headers[i].name]
         = [i \in DOMAIN client.headers |-> Lower(client.headers[i].name)]
    /\ \A i \in DOMAIN headers : Parts(headers[i].value) = SentParts(client.headers[i])

\* The limit on names stays above the detector's threshold: more headers than it
\* allows are reported although the guest does not read all of them
\* (host.rs MAX_MULTI_VALUES, structural.rs MAX_HEADER_COUNT).
TooManyHeadersReported ==
  /\ phase = "done" /\ ~changed
  /\ Len(client.headers) > MAX_HEADER_COUNT /\ Len(Packed(HostNames)) <= MAX_ALLOC
  /\ \A h \in Range(client.headers) : Len(h.values) > 0 /\ Len(Packed(h.values)) <= MAX_ALLOC
  => Verdict("structural", "too_many_headers", "medium") \in Range(verdicts)

\* A parameter is one parameter with its own value, whatever is encoded in it
\* (request.rs parse_query splits before it decodes).
ParamsKept ==
  Whole /\ phase = "done" =>
    Request.query = [i \in DOMAIN client.params |->
                       [name  |-> decode(Lossy(client.params[i].name)),
                        value |-> decode(Lossy(client.params[i].value))]]

\* The rules that report a payload.
RulesFor(what) ==
  CASE what = "sqli" -> {"sqli"}       [] what = "xss" -> {"xss"}
    [] what = "nul"  -> {"null_byte"}  [] what = "crlf" -> {"crlf_injection"}
    [] what \in Literals -> {SIGNATURES[i].rule : i \in {j \in DOMAIN SIGNATURES :
                                                           SIGNATURES[j].lit = what}}

\* The URL, the inspected header values and the body, as the client sent them.
Url     == {client.path} \cup {client.params[i].value : i \in DOMAIN client.params}
Values  == UNION {Range(h.values) : h \in {g \in Range(client.headers) :
                                             Inspectable(Lower(g.name))}}
Reported(what) == \E i \in DOMAIN verdicts : verdicts[i].rule \in RulesFor(what)

\* Text in which a detector can be expected to see every payload: libinjection
\* does not fail on it, and it does not pass for a browser's name.
Clear(s) == /\ \A i \in DOMAIN s : s[i].what \notin {"upset", "browser"}
            /\ \A i \in 2 .. Len(s) : ~Shares(s[i - 1].what, s[i].what)

Payloads(s, passes) == {s[i].what : i \in {j \in DOMAIN s : s[j].enc <= passes}}

\* A payload behind at most MAX_DECODE_PASSES encodings is reported wherever
\* detectors look: path, query values, inspected headers, and the body as it is
\* (request.rs decode and inspectable_fields, with every detector's own scan).
PayloadsReported ==
  Whole /\ phase = "done" =>
    LET seen == Literals \cup {"sqli", "xss"}
    IN  /\ \A s \in Url : Clear(s) =>
             \A p \in Payloads(s, MAX_DECODE_PASSES) \cap (seen \cup {"nul", "crlf"}) : Reported(p)
        /\ \A s \in Values : Clear(s) =>
             \A p \in Payloads(s, MAX_DECODE_PASSES) \cap seen : Reported(p)
        /\ Clear(client.body) => \A p \in Payloads(client.body, 0) \cap seen : Reported(p)

\* SQL behind a browser's User-Agent, after its last ")" or its first space, is
\* reported too (injection.rs, the suffix probe).
UserAgentTailReported ==
  Whole /\ phase = "done" =>
    \A h \in Range(client.headers) :
      \A s \in Range(h.values) :
        /\ h.name = "User-Agent" /\ Len(h.values) = 1
        /\ Plain("sqli") \in Range(After(s, LastOf(s, ")")))
        /\ LastOf(s, ")") # 0 \/ FirstOf(s, "space") \in 1 .. (LastOf(s, "sqli") - 1)
        /\ Plain("browser") \notin Range(Tail(s)) /\ \A i \in DOMAIN s : s[i].what # "upset"
        => Reported("sqli")

\* No verdict without a cause: an injection or signature verdict names something the
\* client sent, and a libinjection error (-1) is not one (ffi.rs is_sqli).
VerdictsHaveCause ==
  LET content == UNION {Range(s) : s \in Url \cup Values \cup {client.body}}
      sent    == {p.what : p \in content}
  IN  \A i \in DOMAIN verdicts :
        verdicts[i].group \in {"injection", "signatures"} =>
          \E what \in sent \cap (Literals \cup {"sqli", "xss", "sjis"}) :
            verdicts[i].rule \in IF what = "sjis" THEN {"sqli"} ELSE RulesFor(what)

\* A literal is reported once per request, in however many fields it stands
\* (signatures.rs inspect: verdicts are bounded by the table).
OncePerSignature ==
  \A i \in DOMAIN verdicts :
    LET rule == verdicts[i].rule
    IN  verdicts[i].group = "signatures" =>
          Cardinality({j \in DOMAIN verdicts : verdicts[j].rule = rule})
            <= Cardinality({j \in DOMAIN SIGNATURES : SIGNATURES[j].rule = rule})

\* The entries of X-Forwarded-For, over all its values, and the addresses among those
\* that have the trusted hops behind them.
XffEntries ==
  IF \E h \in Range(client.headers) : h.name = "X-Forwarded-For"
  THEN SentParts(Sent("x-forwarded-for")) ELSE << >>

Unpeeled == {i \in 1 .. Len(XffEntries) - client.hops : ParseIpAddr(XffEntries[i]) # << >>}

RealIp ==
  {ip \in Ip4 \cup Ip6 : \E h \in Range(client.headers) :
                           h.name = "X-Real-Ip" /\ SentParts(h) = <<AddrText(ip)>>}

\* With trusted hops, what they appended never names the source: it is the leftmost
\* address they leave (which the client itself may have written), where they leave
\* none X-Real-IP's, and the peer's at last (request.rs client_ip).
TrustedHopsPeeled ==
  Whole /\ phase = "done" /\ client.hops > 0 /\ client.peer.form # "short port" =>
    IF Unpeeled # {}
    THEN \E i \in Unpeeled : /\ \A j \in Unpeeled : i <= j
                             /\ ParseIpAddr(XffEntries[i]) = <<line.sourceIp>>
    ELSE IF RealIp # {} THEN line.sourceIp \in RealIp
    ELSE line.sourceIp = client.peer.ip

\* Two peers are two addresses for the limiter, in every form a host writes them
\* (entry.rs parse_ip); only an IPv6 address with a bare short port is misread.
PeersKeptApart ==
  Whole /\ phase = "done" /\ client.hops = 0 /\ client.peer.form # "short port" =>
    line.sourceIp = client.peer.ip
-----------------------------------------------------------------------------
(* The properties of a run, each from its parts.                           *)

\* The headers the detectors see are the ones the client sent, all of them and no
\* others, unless the guest says that there were too many (host.rs
\* read_header_names, read_header_values, read_buf_multi).
HeadersTrue ==
  /\ TypeOK
  /\ NothingInvented
  /\ HeadersComplete

\* Three ways to write a request that do not keep its payload from the detectors: up
\* to MAX_DECODE_PASSES encodings, a browser's name in front of it in the User-Agent,
\* and more headers than the guest reads, which are reported as such (request.rs
\* decode, detectors/{injection,signatures,structural}.rs).
NothingMissed ==
  /\ TooManyHeadersReported
  /\ PayloadsReported
  /\ UserAgentTailReported

\* Every verdict has its cause in the request, and a signature gives one verdict
\* however often it matches (detectors/{signatures,sqli,xss}.rs).
VerdictsSound ==
  /\ VerdictsHaveCause
  /\ OncePerSignature

\* A request is attributed to its peer where no proxy is trusted, and otherwise to the
\* first address that the trusted hops leave, whoever wrote it (request.rs client_ip,
\* entry.rs parse_ip).
SourceAttributed ==
  /\ PeersKeptApart
  /\ TrustedHopsPeeled
=============================================================================
