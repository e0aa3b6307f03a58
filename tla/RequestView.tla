----------------------------- MODULE RequestView -----------------------------
(***************************************************************************)
(* The normalised request that detectors read: request.rs `Request::build`, *)
(* bounded percent-decoding, the inspectable fields and the client address. *)
(***************************************************************************)
EXTENDS Naturals, Sequences, SequencesExt, Text

CONSTANT MAX_DECODE_PASSES

ASSUME DecodePassesAssumption == MAX_DECODE_PASSES \in Nat \ {0}

INSPECTABLE_HEADERS_EXACT == {"cookie", "referer", "host", "authorization", "user-agent"}
\* The names that begin with "x-".
INSPECTABLE_HEADER_PREFIX == {"x-forwarded-for", "x-real-ip", "x-app", "x-other"}

\* make_ascii_lowercase on the names the host delivers in their canonical case.
Lower(name) ==
  CASE name = "Cookie" -> "cookie"            [] name = "Host" -> "host"
    [] name = "User-Agent" -> "user-agent"    [] name = "X-App" -> "x-app"
    [] name = "X-Forwarded-For" -> "x-forwarded-for"
    [] name = "X-Real-Ip" -> "x-real-ip"      [] name = "Accept" -> "accept"
    [] name = "Referer" -> "referer"          [] name = "X-Other" -> "x-other"
    [] name = "Authorization" -> "authorization"
    [] OTHER -> name

\* One pass of percent_decode_str and decode_utf8_lossy.
DecodePass(s) ==
  [i \in DOMAIN s |->
     CASE s[i].enc = 0 -> s[i]
       [] s[i].enc = 1 /\ s[i].what = "sjis" -> Plain("mangled")
       [] OTHER -> [s[i] EXCEPT !.enc = @ - 1]]

\* A percent sign: an escape, or one that stands for itself.
HasPercent(s) == \E i \in DOMAIN s : s[i].enc > 0 \/ s[i].what = "percent"

\* mutant: one pass too few
DecodeShort(s) ==
  LET cur[n \in 1 .. MAX_DECODE_PASSES] == IF n = 1 THEN s ELSE DecodePass(cur[n - 1])
  IN  cur[MAX_DECODE_PASSES]

\* decode: to a fixpoint, but only so many passes.
decode(s) ==
  LET cur[n \in 1 .. MAX_DECODE_PASSES] ==
        IF n = 1 THEN DecodePass(s)
        ELSE IF ~HasPercent(cur[n - 1]) THEN cur[n - 1] ELSE DecodePass(cur[n - 1])
  IN  cur[MAX_DECODE_PASSES]

\* mutant: the parameters are split after decoding
ParseQueryDecoded(raw) ==
  LET params == SelectSeq(Split(decode(raw), "&"), LAMBDA p : p # << >>)
  IN  [i \in DOMAIN params |->
         LET eq == FirstOf(params[i], "=")
         IN  [name  |-> IF eq = 0 THEN params[i] ELSE Before(params[i], eq),
              value |-> IF eq = 0 THEN << >> ELSE After(params[i], eq)]]

\* parse_query: split first, decode afterwards.
parse_query(raw) ==
  LET Param(p) == LET eq == FirstOf(p, "=")
                  IN  IF eq = 0 THEN [name |-> decode(p), value |-> << >>]
                      ELSE [name |-> decode(Before(p, eq)), value |-> decode(After(p, eq))]
      params == SelectSeq(Split(raw, "&"), LAMBDA p : p # << >>)
  IN  [i \in DOMAIN params |-> Param(params[i])]

Inspectable(name) == name \in INSPECTABLE_HEADERS_EXACT \cup INSPECTABLE_HEADER_PREFIX

\* Each value as sent and, where that differs, decoded.
build_inspectable_headers(headers) ==
  LET Forms(v) == IF HasPercent(v) /\ decode(v) # v THEN <<v, decode(v)>> ELSE <<v>>
      chosen   == SelectSeq(headers, LAMBDA h : Inspectable(h.name))
  IN  FlattenSeq([i \in DOMAIN chosen |-> Forms(chosen[i].value)])

\* Total of the lengths of names (one piece each) and values.
HeaderBytes(headers) == FoldLeft(LAMBDA n, h : n + 1 + Len(h.value), 0, headers)

build(method, path, rawQuery, headers, body, sourceIp) ==
  [method      |-> method,
   path        |-> decode(path),
   query       |-> parse_query(rawQuery),
   headers     |-> headers,
   headerBytes |-> HeaderBytes(headers),
   body        |-> body,
   bodyInspected      |-> body # << >>,
   sourceIp           |-> sourceIp,
   inspectableHeaders |-> build_inspectable_headers(headers)]

\* The iterator: path, query values, the body when it was read, headers.
inspectable_fields(req) ==
  <<req.path>> \o [i \in DOMAIN req.query |-> req.query[i].value]
               \o (IF req.bodyInspected THEN <<req.body>> ELSE << >>)
               \o req.inspectableHeaders

\* header(): the first one of that name, or none.
header(headers, name) ==
  LET i == SelectInSeq(headers, LAMBDA h : h.name = name)
  IN  IF i = 0 THEN << >> ELSE <<headers[i].value>>

-----------------------------------------------------------------------------
(* Addresses.                                                              *)

Ip4 == {"ip4", "ip4b"}
Ip6 == {"ip6", "ip6b"}

\* The text of an address: an IPv6 address has colons in it.
AddrText(ip) == IF ip \in Ip6 THEN <<Plain(ip), Plain(":"), Plain("group")>> ELSE <<Plain(ip)>>

\* str::parse::<IpAddr>, none for text that is no address.  A short port behind an
\* IPv6 address reads as one more group of it.
ParseIpAddr(s) ==
  LET exact == {ip \in Ip4 \cup Ip6 : s = AddrText(ip)}
  IN  IF exact # {} THEN <<CHOOSE ip \in exact : TRUE>>
      ELSE IF \E ip \in Ip6 : s = AddrText(ip) \o <<Plain(":"), Plain("port4")>>
      THEN <<"longer6">> ELSE << >>

FirstParsed(parts) ==
  LET parsed == SelectSeq([i \in DOMAIN parts |-> ParseIpAddr(Trim(parts[i]))],
                          LAMBDA ip : ip # << >>)
  IN  IF parsed = << >> THEN << >> ELSE Head(parsed)

\* mutant: one hop too few is peeled off
ForwardedShort(value, trustHops) ==
  LET parts == Split(value, ",")
  IN  IF Len(parts) >= trustHops
      THEN FirstParsed(SubSeq(parts, 1, Len(parts) - trustHops + 1)) ELSE << >>

\* What one X-Forwarded-For value gives when the trusted hops are peeled off.
Forwarded(value, trustHops) ==
  LET parts == Split(value, ",")
  IN  IF Len(parts) > trustHops
      THEN FirstParsed(SubSeq(parts, 1, Len(parts) - trustHops)) ELSE << >>

client_ip(headers, peer, trustHops) ==
  LET Named(name) == SelectSeq(headers, LAMBDA h : h.name = name)
      xff  == Named("x-forwarded-for")
      real == Named("x-real-ip")
      found == SelectSeq([i \in DOMAIN xff |-> Forwarded(xff[i].value, trustHops)]
                           \o <<FirstParsed([i \in DOMAIN real |-> real[i].value])>>,
                         LAMBDA ip : ip # << >>)
  IN  IF trustHops = 0 \/ found = << >> THEN peer ELSE found[1][1]

\* parse_peer: the address with or without port and brackets.
Unbracket(s) == SelectSeq(s, LAMBDA p : p \notin {Plain("["), Plain("]")})

\* mutant: the port is cut off before anything else is tried
ParsePeerCutting(addr) ==
  LET colon == LastOf(addr, ":")
      ip    == FirstParsed(<<Unbracket(IF colon = 0 THEN addr ELSE Before(addr, colon))>>)
  IN  IF ip = << >> THEN "0.0.0.0" ELSE ip[1]

parse_peer(addr) ==
  LET colon == LastOf(addr, ":")
      host  == Before(addr, colon)
      tries == <<addr>>
                 \o (IF colon # 0 /\ After(addr, colon) \in {<<Plain("port4")>>, <<Plain("port5")>>}
                     THEN <<host, Unbracket(host)>> ELSE << >>)
                 \o <<Unbracket(addr)>>
      ip    == FirstParsed(tries)
  IN  IF ip = << >> THEN "0.0.0.0" ELSE ip[1]

=============================================================================
