------------------------------ MODULE EventPath ------------------------------
(***************************************************************************)
(* One line on its way through the relay's parser task, pipeline.rs          *)
(* `process_one`: parsed, its labels taken out and filled in by one enricher  *)
(* after the other, wrapped in an envelope and handed to the subscribers      *)
(* whose filters match.  What the sources bring and what a subscriber's queue *)
(* and sink do with an envelope is in Pipeline and Sink.                     *)
(*                                                                         *)
(* There is no clock: timers and cache entries hold the time they have been   *)
(* running or have left, and a moment passes (Tick) when nothing is due.     *)
(***************************************************************************)
EXTENDS AuditLine, EnrichCache, Filter, TLC

CONSTANTS
  Char,            \* what texts are made of, percent escapes apart
  Worlds,          \* what may arrive and be configured: records [lines, filters,
                   \* versions], the last a bound on the changes of the services' data
  Enrichers,       \* a sequence of [kind, onLabel, table] or [kind, onLabel, timeout, ttl,
                   \* capacity, gives]: `gives` is the label that the service knows
  EnricherTimeout  \* run_with_sources' 500 ms

\* percent_encode: the characters that mean something in a URL.
UrlValueEncode == [c \in {"?", "/", "%", "."} |->
  CASE c = "?" -> "%3F" [] c = "/" -> "%2F" [] c = "%" -> "%25" [] c = "." -> "%2E"]

\* A version number in a service's answer.
Digits(n) == ToString(n)

ASSUME WorldsAssumption ==
  \A w \in Worlds :
    /\ w.versions \in Nat \ {0}
    /\ \A n \in 0 .. w.versions : Digits(n) \in Char
    /\ \A l \in w.lines : \A d \in ToSet(l.documents) : \A k \in DOMAIN d.labels :
         d.labels[k] # << >> => d.labels[k][1] \in Seq(Char)
    /\ \A l \in w.lines : \A d \in ToSet(l.documents) :
         ToSet(d.blockedRule) \cup ToSet(d.wouldBlock) \subseteq Seq(Char)
    /\ \A s \in DOMAIN w.filters :
         w.filters[s].pattern \in Seq(Seq(Char \cup {"*"})) /\ Len(w.filters[s].pattern) <= 1

\* What the scanners of the parser look for.
Keys    == {"middlewareName=", "routerName=", "entryPointName="}
Special == {"ESC", "{", "}", "quote", "backslash", "space", "@"} \cup Keys

\* Of the lines: colours are switched in whole sequences, JSON writes no raw escape,
\* the documents of a line can be told apart, and names hold none of these.
ASSUME LinesAssumption ==
  \A w \in Worlds : \A l \in w.lines :
    /\ l.before \in Seq(ToSet(l.before))
    /\ \A i \in DOMAIN l.before : l.before[i] = "ESC" =>
         \E j \in DOMAIN l.before : i < j /\ l.before[j] \in Letters
    /\ l.documents \in Seq(ToSet(l.documents))
    /\ \A d \in ToSet(l.documents) :
         d.detail \in Seq(ToSet(d.detail) \ {"ESC"}) /\ d.id \notin Special
    /\ \A d, e \in ToSet(l.documents) : d.id = e.id => d = e
    /\ l.names = [middleware |-> l.names.middleware, router |-> l.names.router,
                  entryPoint |-> l.names.entryPoint]
    /\ \A n \in {l.names.middleware, l.names.router, l.names.entryPoint} :
         \/ n = << >>
         \/ n = <<n[1]>> /\ n[1] # << >> /\ n[1] \in Seq(ToSet(n[1]) \ Special)

ASSUME EnrichersAssumption ==
  /\ Enrichers \in Seq(ToSet(Enrichers))
  /\ \A e \in ToSet(Enrichers) :
       \/ /\ e.kind = "lookup"
          /\ \A v \in DOMAIN e.table : \A k \in DOMAIN e.table[v] : e.table[v][k] \in Seq(Char)
       \/ /\ e.kind = "http"
          /\ e.timeout \in Nat /\ e.ttl \in Nat /\ e.capacity \in Nat
  /\ EnricherTimeout \in Nat
  /\ "canonical" \in Char
  /\ {"%3F", "%2F", "%25", "%2E"} \cap Char = {}

VARIABLES
  world,     \* the lines and the filters of this behaviour
  line,      \* the last line taken, or none
  parsed,    \* what parse_line made of it, or none
  labels,    \* the labels of the event being enriched
  at,        \* the enricher that is next; 0 when process_one is not running
  call,      \* the HTTP call of that enricher
  caches,    \* the cache of every enricher
  version,   \* the version of the data the services answer from
  retired,   \* for every older version, the time since it was replaced (capped)
  out        \* the last envelope, with the subscribers it was offered to, or none

vars == <<world, line, parsed, labels, at, call, caches, version, retired, out>>

NoCall == [phase |-> "none", age |-> 0, since |-> 0, answer |-> << >>]
Http   == {i \in DOMAIN Enrichers : Enrichers[i].kind = "http"}

-----------------------------------------------------------------------------
(* Outside of the relay.                                                   *)

\* Traefik's fields behind the event: coloured, and with the provider of a name.
Field(key, names, provider) ==
  IF names = << >> THEN << >>
  ELSE <<"space", key, "ESC", "[", "m">> \o names[1] \o provider

Fields(names) == Field("entryPointName=", names.entryPoint, << >>)
                 \o Field("middlewareName=", names.middleware, <<"@", "word">>)
                 \o Field("routerName=", names.router, <<"@", "word">>)

\* A line as it is in the log.
Written(l) == [text |-> l.before \o FlattenSeq([i \in DOMAIN l.documents |-> Json(l.documents[i])])
                        \o Fields(l.names),
               utf8 |-> l.utf8, documents |-> ToSet(l.documents)]

\* The part of a URL a server looks up: the last segment without a query, decoded.
Resource(url) ==
  LET slash   == SelectLastInSeq(url, LAMBDA c : c = "/")
      segment == SubSeq(url, slash + 1, Len(url))
      query   == SelectInSeq(segment, LAMBDA c : c = "?")
      path    == IF query = 0 THEN segment ELSE SubSeq(segment, 1, query - 1)
  IN  [i \in DOMAIN path |-> CASE path[i] = "%3F" -> "?" [] path[i] = "%2F" -> "/"
                               [] path[i] = "%25" -> "%" [] path[i] = "%2E" -> "."
                               [] OTHER -> path[i]]

\* A service's answer names the resource it is about; it also sets a label the
\* operator sets.
AnswerLabels(i, answer) ==
  [k \in {Enrichers[i].gives, Enrichers[i].onLabel} |->
     IF k = Enrichers[i].gives THEN Append(answer.resource, Digits(answer.version))
     ELSE <<"canonical">>]

-----------------------------------------------------------------------------
(* enrichers                                                               *)

\* mutant: the enricher's labels replace those that are there
MergeReplacing(mine, extra) ==
  [k \in DOMAIN mine \cup DOMAIN extra |-> IF k \in DOMAIN extra THEN extra[k] ELSE mine[k]]

\* merge_in_place: insert only.
merge_in_place(mine, extra) ==
  [k \in DOMAIN mine \cup DOMAIN extra |-> IF k \in DOMAIN mine THEN mine[k] ELSE extra[k]]

\* mutant: the value goes into the URL as it is
UrlUnencoded(template, value) ==
  FlattenSeq([i \in DOMAIN template |-> IF template[i] = "{value}" THEN value
                                        ELSE <<template[i]>>])

build_enrich_url(template, value) ==
  FlattenSeq([i \in DOMAIN template |->
    IF template[i] = "{value}"
    THEN [j \in DOMAIN value |-> IF value[j] \in DOMAIN UrlValueEncode
                                 THEN UrlValueEncode[value[j]] ELSE value[j]]
    ELSE <<template[i]>>])

Template == <<"service", "/", "{value}">>

\* mutant: only the two phases of a call are timed, not the call
InnerDuePerPhase(c, i) == c.since >= Enrichers[i].timeout

\* The timeouts inside of HttpEnricher::enrich: the client's on the whole call, and
\* one around each phase.
InnerDue(c, i) == c.age >= Enrichers[i].timeout \/ c.since >= Enrichers[i].timeout

\* The one around the enricher in process_one.
OuterTimeout == 2 * EnricherTimeout
OuterDue(c) == c.age >= OuterTimeout

-----------------------------------------------------------------------------
(* process_one                                                             *)

\* take_labels: a value that is not a string (none here) is dropped.
take_labels(event) ==
  LET kept == {k \in DOMAIN event.labels : event.labels[k] # << >>}
  IN  [k \in kept |-> event.labels[k][1]]

\* The event that is left: its labels are the envelope's now.
Unlabelled(event) ==
  [id |-> event.id, detail |-> event.detail, hasWouldBlock |-> event.hasWouldBlock,
   wouldBlock |-> event.wouldBlock, blockedRule |-> event.blockedRule,
   severity |-> event.severity, action |-> event.action]

Init == /\ world \in Worlds
        /\ line = << >> /\ parsed = << >> /\ out = << >>
        /\ labels = << >> /\ at = 0 /\ call = NoCall
        /\ caches = [i \in Http |-> NewCache]
        /\ version = 0 /\ retired = << >>

\* A line that is no event is counted, and that is all.
TakeLine ==
  /\ at = 0
  /\ \E l \in world.lines :
       /\ line' = <<l>>
       /\ parsed' = parse_line(Written(l))
       /\ out' = << >>
       /\ IF parsed' = << >> THEN UNCHANGED <<at, labels>>
          ELSE at' = 1 /\ labels' = take_labels(parsed'[1].event)
  /\ UNCHANGED <<world, call, caches, version, retired>>

Enriching(kind) == at \in DOMAIN Enrichers /\ call = NoCall /\ Enrichers[at].kind = kind

\* The enricher has returned, with labels to add.
Return(extra) == at' = at + 1 /\ labels' = merge_in_place(labels, extra) /\ call' = NoCall

Lookup ==
  /\ Enriching("lookup")
  /\ LET e == Enrichers[at]
     IN  IF e.onLabel \in DOMAIN labels /\ labels[e.onLabel] \in DOMAIN e.table
         THEN Return(e.table[labels[e.onLabel]])
         ELSE Return(<< >>)
  /\ UNCHANGED <<world, line, parsed, caches, version, retired, out>>

\* HttpEnricher::enrich up to the request: no label, a hit, or a request.
NothingToLookUp ==
  /\ Enriching("http") /\ Enrichers[at].onLabel \notin DOMAIN labels
  /\ Return(<< >>)
  /\ UNCHANGED <<world, line, parsed, caches, version, retired, out>>

AskCache ==
  /\ Enriching("http") /\ Enrichers[at].onLabel \in DOMAIN labels
  /\ LET read == get(caches[at], labels[Enrichers[at].onLabel])
     IN  IF Enrichers[at].ttl = 0
         THEN call' = [NoCall EXCEPT !.phase = "send"] /\ UNCHANGED <<at, labels, caches>>
         ELSE /\ caches' = [caches EXCEPT ![at] = read.cache]
              /\ IF read.hit # << >> THEN Return(AnswerLabels(at, read.hit[1]))
                 ELSE call' = [NoCall EXCEPT !.phase = "send"] /\ UNCHANGED <<at, labels>>
  /\ UNCHANGED <<world, line, parsed, version, retired, out>>

Waiting(phase) == at \in Http /\ call.phase = phase

\* The service answers, from the data it has now; the body is still to come.
ResponseStarts ==
  /\ Waiting("send")
  /\ LET url == build_enrich_url(Template, labels[Enrichers[at].onLabel])
     IN  call' = [call EXCEPT !.phase = "body", !.since = 0,
                              !.answer = <<[resource |-> Resource(url), version |-> version]>>]
  /\ UNCHANGED <<world, line, parsed, labels, at, caches, version, retired, out>>

ResponseRead ==
  /\ Waiting("body")
  /\ LET answer == call.answer[1]
         e      == Enrichers[at]
     IN  /\ caches' = IF e.ttl = 0 THEN caches
                      ELSE [caches EXCEPT ![at] =
                              put(@, labels[e.onLabel], answer, e.ttl, e.capacity)]
         /\ Return(AnswerLabels(at, answer))
  /\ UNCHANGED <<world, line, parsed, version, retired, out>>

\* The request fails, the status is none of success, or the body is no such JSON.
CallFails ==
  /\ at \in Http /\ call # NoCall
  /\ Return(<< >>)
  /\ UNCHANGED <<world, line, parsed, caches, version, retired, out>>

\* mutant: an enricher that timed out is tried again
InnerTimeoutRetries ==
  /\ at \in Http /\ call # NoCall /\ InnerDue(call, at)
  /\ call' = NoCall
  /\ UNCHANGED <<world, line, parsed, labels, at, caches, version, retired, out>>

\* A timeout of the enricher's own: it returns, with nothing to add.
InnerTimeoutFires ==
  /\ at \in Http /\ call # NoCall /\ InnerDue(call, at)
  /\ Return(<< >>)
  /\ UNCHANGED <<world, line, parsed, caches, version, retired, out>>

\* mutant: the call outlives the timeout around it
OuterTimeoutLeaks ==
  /\ at \in Http /\ call # NoCall /\ OuterDue(call) /\ ~InnerDue(call, at)
  /\ at' = at + 1
  /\ UNCHANGED <<world, line, parsed, labels, call, caches, version, retired, out>>

\* The timeout around it: the enricher is dropped where it is.
OuterTimeoutFires ==
  /\ at \in Http /\ call # NoCall /\ OuterDue(call) /\ ~InnerDue(call, at)
  /\ Return(<< >>)
  /\ UNCHANGED <<world, line, parsed, caches, version, retired, out>>

\* The envelope, with the labels beside the event, and the subscribers fan_out does
\* not skip.
FanOut ==
  /\ at = Len(Enrichers) + 1
  /\ LET event == Unlabelled(parsed[1].event)
     IN  out' = <<[event |-> event, source |-> parsed[1].source, labels |-> labels,
                   to |-> {s \in DOMAIN world.filters :
                             matches(world.filters[s], labels, event)}]>>
  /\ at' = 0 /\ labels' = << >>
  /\ UNCHANGED <<world, line, parsed, call, caches, version, retired>>

-----------------------------------------------------------------------------
(* Time, and the services' data.                                           *)

\* Beyond this a version is just old.
Old == CHOOSE n \in {Enrichers[i].ttl + Enrichers[i].timeout + 1 : i \in Http} :
         \A i \in Http : n >= Enrichers[i].ttl + Enrichers[i].timeout + 1

Tick ==
  /\ call # NoCall => ~InnerDue(call, at) /\ ~OuterDue(call)
  /\ call' = IF call = NoCall THEN call ELSE [call EXCEPT !.age = @ + 1, !.since = @ + 1]
  /\ caches' = [i \in Http |-> Aged(caches[i])]
  /\ retired' = [v \in DOMAIN retired |-> IF retired[v] = Old THEN Old ELSE retired[v] + 1]
  /\ UNCHANGED <<world, line, parsed, labels, at, version, out>>

DataChanges ==
  /\ version + 1 < world.versions
  /\ version' = version + 1
  /\ retired' = [v \in 0 .. version |-> IF v = version THEN 0 ELSE retired[v]]
  /\ UNCHANGED <<world, line, parsed, labels, at, call, caches, out>>

Parser == \/ Lookup \/ NothingToLookUp \/ AskCache
          \/ InnerTimeoutFires \/ OuterTimeoutFires \/ FanOut

Next == \/ TakeLine \/ Parser \/ ResponseStarts \/ ResponseRead \/ CallFails
        \/ Tick \/ DataChanges

Spec == Init /\ [][Next]_vars

\* The runtime polls a task that is ready and fires a timer that is due, and time
\* goes on.  No service has to answer.
FairSpec == Spec /\ WF_vars(Parser) /\ WF_vars(Tick)
-----------------------------------------------------------------------------
(* Properties.                                                             *)

\* The shape of the state: at most one call, of the enricher that is next, and
\* labels only while an event is on its way.
TypeOK ==
  /\ at \in 0 .. Len(Enrichers) + 1
  /\ call = NoCall \/ (at \in Http /\ call.phase \in {"send", "body"})
  /\ call.phase = "body" <=> call.answer # << >>
  /\ at = 0 => labels = << >>
  /\ DOMAIN retired = 0 .. version - 1
  /\ out # << >> => at = 0

-----------------------------------------------------------------------------
(* The parser.                                                             *)

\* A line with JSON in it, and no brace before that.
Tidy(l) == l.utf8 /\ l.documents # << >> /\ ~Contains(l.before, "{")

\* parse_line's scanner: where no brace stands before the line's JSON, the first
\* object is taken if it is an audit event, unchanged whatever its strings hold
\* (braces, quotes, backslashes); from any line, JSON that lacks either of the two
\* signature fields is not taken for an event.
ParsedExactly ==
  line # << >> =>
    LET l      == line[1]
        audits == {d \in ToSet(l.documents) : d.hasWouldBlock /\ d.action \in {"block", "allow"}}
    IN  /\ Tidy(l) => (parsed # << >> <=> l.documents[1] \in audits)
        /\ parsed # << >> => /\ parsed[1].event \in audits
                             /\ Tidy(l) => parsed[1].event = l.documents[1]

\* extract_traefik_enrichment: the bare names Traefik wrote, coloured or not, of a
\* line in which neither the text before the JSON nor a string of the JSON holds the
\* key of one of Traefik's fields: the first key in the line is the one that counts.
NamesExact ==
  parsed # << >> =>
    LET l == line[1]
    IN  (ToSet(l.before) \cup UNION {ToSet(d.detail) : d \in ToSet(l.documents)}) \cap Keys = {}
        => parsed[1].source = l.names

-----------------------------------------------------------------------------
(* Enrichment.                                                             *)

\* merge_in_place's contract over the whole chain of enrichers: the labels of the
\* audit line reach the subscribers as they were.
OperatorWins ==
  out # << >> =>
    LET written == parsed[1].event.labels
    IN  \A k \in DOMAIN written :
          written[k] # << >> => k \in DOMAIN out[1].labels /\ out[1].labels[k] = written[k][1]

\* build_enrich_url and the cache's keys: what a service is asked, and what its
\* cache holds, is about the value of this event's label and of no other.
AnswersAreAboutTheValue ==
  /\ \A i \in Http : \A k \in DOMAIN caches[i].entries : caches[i].entries[k].labels.resource = k
  /\ call.answer # << >> => call.answer[1].resource = labels[Enrichers[at].onLabel]

\* Cache: the queue holds each key of the entries once, and there are never more
\* than the capacity, whichever of expiry and eviction removed the others.
CacheInStep ==
  \A i \in Http :
    /\ ToSet(caches[i].lru) = DOMAIN caches[i].entries
    /\ Len(caches[i].lru) = Cardinality(DOMAIN caches[i].entries)
    /\ Len(caches[i].lru) <= Enrichers[i].capacity

\* cache_ttl_s: an entry that can still be served is no more out of date than its
\* time in the cache and the one call that brought it explain.
StalenessBounded ==
  \A i \in Http : \A k \in DOMAIN caches[i].entries :
    LET entry == caches[i].entries[k]
    IN  ~Expired(entry) /\ entry.labels.version < version =>
          retired[entry.labels.version] <= Enrichers[i].ttl - entry.left + Enrichers[i].timeout

\* "MUST honor timeout": no call holds the parser longer than the enricher's own
\* timeout allows, headers and body together, nor longer than the outer one.
DelayBounded ==
  call # NoCall => call.age <= Enrichers[at].timeout /\ call.age <= OuterTimeout

-----------------------------------------------------------------------------
(* The filters.                                                            *)

\* What a glob means: a star stands for any text, everything else for itself.  The
\* lengths of the texts that the first characters of the pattern stand for.
GlobMeans(pattern, s) ==
  LET reach[n \in 0 .. Len(pattern)] ==
        IF n = 0 THEN {0}
        ELSE IF pattern[n] = "*" THEN {j \in 0 .. Len(s) : \E k \in reach[n - 1] : k <= j}
        ELSE {j \in 1 .. Len(s) : s[j] = pattern[n] /\ j - 1 \in reach[n - 1]}
  IN  Len(s) \in reach[Len(pattern)]

\* The two patterns whose meaning is another: the empty one matches everything,
\* and the only part of "*part" is looked for at its first occurrence.
LoneTail(pattern) == StartsWild(pattern) /\ ~EndsWild(pattern) /\ Len(Parts(pattern)) = 1

\* CompiledFilter::matches: a subscriber gets the events its three clauses describe
\* and no others.
FilterExact ==
  out # << >> => \A s \in DOMAIN world.filters :
    LET filter == world.filters[s]
        event  == out[1].event
        rules  == ToSet(event.blockedRule) \cup ToSet(event.wouldBlock)
        others == /\ \A k \in DOMAIN filter.labels :
                       k \in DOMAIN out[1].labels /\ out[1].labels[k] = filter.labels[k]
                  /\ filter.severityMin # << >> =>
                       \E r \in 1 .. 4 : /\ r >= SeverityRank[filter.severityMin[1]]
                                         /\ event.severity \in {"low", "medium", "high", "critical"}
                                         /\ SeverityRank[event.severity] = r
        meant  == filter.pattern = << >> \/
                  \E rule \in rules : filter.pattern[1] = << >> \/ GlobMeans(filter.pattern[1], rule)
        got    == s \in out[1].to
    IN  /\ got => others /\ meant
        /\ others /\ meant => got \/ (filter.pattern # << >> /\ LoneTail(filter.pattern[1]))

-----------------------------------------------------------------------------
(* Liveness.                                                               *)

\* "a runaway enricher can't stall the parser task": an event that is being
\* enriched is fanned out, whether any service answers or not.
EnrichmentNeverBlocks == at # 0 ~> at = 0
-----------------------------------------------------------------------------
(* The properties of a run, each from its parts.                           *)

\* Of a line without a brace before its JSON, the first object is taken exactly when
\* it is an audit event, as it was written; of a line that holds the keys of Traefik's
\* fields only where Traefik wrote them, the names are Traefik's (parser.rs
\* parse_line, extract_traefik_enrichment).
EventsTakenExactly ==
  /\ ParsedExactly
  /\ NamesExact

\* What the cache answers is what the service said of that very value, no older
\* than the entry's time allows, and its recency queue stays in step with its
\* entries (enrichers/http.rs:49-143).
CacheIsTrue ==
  /\ CacheInStep
  /\ AnswersAreAboutTheValue
  /\ StalenessBounded

\* One event is enriched at a time, by one call at most, and no call outlasts its
\* time (pipeline.rs:355-400, enrichers/http.rs:145-200).
EnrichmentBounded ==
  /\ TypeOK
  /\ DelayBounded
=============================================================================
