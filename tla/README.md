# Purple Wolf in TLA+

Purple Wolf is a web application firewall for Traefik. A **guest** (crates
`purple-wolf-core` and `purple-wolf-traefik`, compiled to one http-wasm module)
inspects every request inside Traefik, answers it or lets it go on, and writes
audit lines to the log. A **relay** (crate `purple-wolf-relay`, a tokio program
next to Traefik) reads these lines from stdin or from log files, enriches them
and posts them to HTTP subscribers. This directory models both as TLA+ modules,
checks them with TLC on small instances and proves part of the results with
TLAPS for every value of the constants. Paths below are relative to `src/`;
`core/`, `traefik/` and `relay/` stand for `crates/purple-wolf-*/src/`.

## 1. Inventory

| component | state | operations | interacts with |
|---|---|---|---|
| request path of the guest: `traefik/entry.rs`, `traefik/host.rs`, `core/policy.rs`, `core/audit.rs` | `STATE`, the lazily built plugin (configuration and engine); the locals of one request: body prefix, truncation mark, verdicts | `handle_request` / `inspect`, `drain_body`, `Engine::inspect`, `decide`, audit line, `write_response` | host calls of http-wasm: read and write the body in chunks, get the configuration, log, respond |
| plugin configuration: `traefik/config.rs`, `core/config.rs` | none | `parse`, `validate_labels`, the fallback of `state` | text from the Middleware resource |
| reputation: `core/detectors/reputation.rs` | an index, a slab of nodes with a linked list (LRU), a token bucket per address; one per guest | `inspect`, `check`, `touch`, `evict_tail`, `acquire_slot` | the clock; guests of a pool share nothing |
| request normalisation: `core/request.rs` | none | `decode`, `parse_query`, `client_ip` | input of all detectors |
| content detectors: `core/detectors/{injection,signatures,structural}.rs`, `core/ffi.rs` | immutable automata | `inspect` | vendored libinjection through FFI |
| host buffers: `traefik/host.rs` | a scratch buffer | `read_buf`, `read_buf_multi`, `split_nul`, `join_header_values` | two-call protocol: size, then data; the host may answer the second call differently |
| sources of the relay: `relay/sources/stdin.rs`, `log_tail.rs` | reader, position, inode, bookmark file, events since the last bookmark | `run_reader`, `run_tail`, rotation, bookmark | the file system; the channel to the parser; shutdown broadcast |
| parser and fan-out: `relay/pipeline.rs`, `parser.rs`, `envelope.rs` | the bounded channel of lines, the senders of the sinks | `process_one`, `fan_out` | sources, enrichers, sinks |
| enrichers: `relay/enrichers/*` | a cache with TTL and capacity per HTTP enricher | `enrich`, `Cache::get`, `put` | called by the parser, under an outer timeout |
| sinks: `relay/subscribers/{http,dlq,retry,filter}.rs` | a bounded queue, the envelope in hand, attempts, a dead-letter ring, counters | `run_sink`, `deliver_one`, `DeadLetter::push` | subscribers over HTTP; shutdown broadcast |
| supervisor: `relay/pipeline.rs` `run` | join sets, `sources_exhausted`, `parser_finished`, the result, readiness | spawn, select loop, abort, drain with timeouts | all tasks |
| process and admin server: `relay/lib.rs`, `main.rs`, `admin.rs` | the two task handles, the broadcast channel, the signal handlers, open connections | start, `wait_for_signal`, the select, joins, `serve_listener`, `route` | the pipeline; clients of the admin server |
| relay configuration, signatures, metrics: `relay/{config,signer,metrics}.rs` | counters | validation, HMAC | everywhere |

What is hard here:

* **The body of a request** passes through guest memory. The host cuts it into
  chunks as it likes, may deliver nothing for a while, may break its contract;
  the guest may keep only a prefix, must give back everything, and must know
  when it no longer can (then forwarding would corrupt the request).
  *Correct* means: forwarded requests carry the client's body, detectors see an
  exact prefix, reads are bounded, and every request is answered.
* **The decision** mixes a global mode, a mode per group, a fallback and
  `failMode`. *Correct* means: no enforced finding is overruled, no verdict is
  lost on the way to the audit line, the fallback never blocks.
* **What detectors read** comes through buffers of a fixed size from a host that
  answers twice, is decoded a bounded number of times and split at separators
  that may themselves be encoded. *Correct* means: no value is lost, moved or made
  up, and a payload within the promised depth is reported wherever detectors look.
* **The limiter** is a linked list by slot numbers and a refill clamped at both
  ends. *Correct* means: the list stays whole, the stalest address is evicted,
  the rate is bounded above and no address is refused early.
* **The relay's task graph**: tasks on several threads, bounded channels, a
  broadcast that a late receiver misses, polls that have passed the shutdown
  branch, aborts that take effect later, four timeouts. *Correct* means: it
  ends, it ends with nothing left running, failures reach the exit status, a
  good exit means that everything was delivered, a stuck subscriber stops nobody.
* **A line of the log** is Traefik's text around JSON with client text in it; its
  labels are filled in by services that are slow, gone or out of date, through a
  cache with expiry and eviction. *Correct* means: an event is taken from its line
  as it was written, with the names of Traefik's own fields where no text before them
  looks like one, operators' labels win, answers are about the value asked for,
  nothing holds the parser longer than its timeouts, filters select what they say.
* **The process** waits for a signal, an admin server and a pipeline at once.
  *Correct* means: the end of one ends the others, and the exit status tells.
* **The log tail** goes on after stops, kills, failed reads and rotations from a
  bookmark that is saved every so many events. *Correct* means: no gap before what
  it passed on or before the place where it goes on, little repeated. What a file
  still held when it was renamed is not within that: the code loses it (section 5).

`PROJECT.json` lists the hazards one by one, with the line where each bites and
the properties that would catch it going wrong, or why none does.

## 2. Modules

| module | models | proofs |
|---|---|---|
| `Picks` | what a loop that keeps or drops each element leaves of a list | `Picks_proofs` |
| `BodyDrain` | `host.rs drain_body`, byte by byte | in `GuestRequest_proofs` |
| `Policy` | `policy.rs decide`, `Engine::inspect` | in `GuestRequest_proofs` |
| `PluginConfig` | `config.rs parse`, the fallback of `entry.rs state` | in `GuestRequest_proofs` |
| `GuestRequest` | `entry.rs handle_request`; composes `BodyDrain`, `Policy` and `PluginConfig` | `GuestRequest_proofs` |
| `Text` | strings as sequences of pieces, each encoded so many times | |
| `HostBuffers` | `host.rs read_buf`, `read_buf_multi` and what splits them | |
| `RequestView` | `request.rs`: decoding, queries, inspectable fields, `client_ip`, `parse_ip` | |
| `Detectors` | structural, signature and injection detectors | |
| `GuestInput` | the stretch of `inspect` from header names to verdicts; composes the four above | |
| `BucketStore` | token buckets in recency order, as operators | in `PodRate_proofs` |
| `TokenBuckets` | what the limiter promises: one check, one step | in `SlabLru_proofs` |
| `SlabLru` | the slab, index and linked list that implement it | `SlabLru_proofs` |
| `PodRate` | the rate a pod of several guests delivers, through an observer | `PodRate_proofs` |
| `Delivery` | what the relay promises each subscriber | in `Pipeline_proofs` |
| `Sink` | the sinks and the fan-out; implements `Delivery` | in `Pipeline_proofs` |
| `Pipeline` | the whole task graph; extends `Sink`, implements `PipelineTask` | `Pipeline_proofs` |
| `AuditLine` | `parser.rs`: the event in a line and Traefik's names around it | in `EventPath_proofs` |
| `EnrichCache` | the cache of `enrichers/http.rs` | in `EventPath_proofs` |
| `Filter` | `filter.rs CompiledFilter`, `Glob` | in `EventPath_proofs` |
| `EventPath` | `process_one` for one line after the other; composes the three above | `EventPath_proofs` |
| `PipelineTask` | what the pipeline promises the process: one task | |
| `RelayConfig` | `config.rs load_from_file`, `validate` | |
| `Admin` | `admin.rs route`, `is_authorized` | |
| `Relay` | `lib.rs run` over `PipelineTask`, `RelayConfig` and `Admin` | `Relay_proofs` |
| `LogTail` | the log_tail source with its file, writer, kills and restarts | `LogTail_proofs` |
| `MC*` | the small instances TLC checks | |

### The guest

`GuestRequest` has an action per stretch of `handle_request` between two host
calls that matter: `HandleRequest` (state, `BeginDrain`), one `DrainStep` per
read of `drain_body`, then `RejectBrokenBody`, `RejectOverCap` or `AcceptBody`,
`Inspect` (detectors, `decide`, audit line, answer). The variables of
`BodyDrain` are the locals of the loop; `written` is what went back to the host.
The operators of `Policy` keep the code's scan and its `swap_remove`; the loop that
parts the verdicts is `Picked` of `Picks`, a recursive function, as is
`Cache::evict_expired` in `EnrichCache`. A wire
configuration is the record of the fields the request path reads; syntax is one
flag (`wellFormed`), since every syntax error leads to the same fallback.
Verdicts are an arbitrary input here; where they come from is `GuestInput`. Left out: the arm of `handle_request` behind
`catch_unwind` (the shipped guest is built with `panic = "abort"`), the human
readable detail of a verdict, the response body.

`GuestInput` covers what happens before: `ReadNames`, one `ReadValue` per name,
`ReadLine` (method, URI, address) and `Inspect`. A string is a sequence of
pieces of `Text`; a piece is a payload, a word, an address or one separator, with
the number of times it is percent-encoded, so that one pass of `decode` takes one
layer off every piece and the fixpoint, its bound and the order of splitting and
decoding are as in the code. A buffer is a sequence of cells that stay NUL where
the host wrote nothing. The host may hold more headers or values at its second
answer than at its first (`Later`), and `changed` records that it did: most
properties are about hosts that stand by their answers, `NothingInvented` about
all. libinjection and aho-corasick are oracles: which pieces they recognise, when
libinjection fails (`upset`) or takes a text for a browser's name (`browser`), and
that overlapping literals hide each other. Left out: letter case apart from
header names, the text of verdicts, lossy conversion beyond its marker.

### The limiter

`SlabLru` is the structure of `reputation.rs`, slot by slot: `Unlink`,
`PushFront`, `Touch`, `EvictTail`, `AcquireSlot`, and `Inspect` for a whole check
(the lock makes it one step). It is shown to implement `TokenBuckets`, whose
store is a function and a recency list. Time is counted in ticks of 1/G second
and tokens in 1/G token, so the arithmetic is exact: the rounding of the code's
`f64` is abstracted away. `PodRate` composes several stores with an observer
that starts at any moment and counts what each guest, and the pod, allows.

### The relay

`Sink` has one process per subscriber: `waiting` in `rx.recv`, `sending` a POST,
in `backoff`, or ended (returned, failed or aborted). Responses are classes of
the code's `classify`. `inbox` records the POSTs whose outcome the relay saw; an
abort in the middle of a POST may leave one more with the subscriber, which the
relay cannot know. `FanOut` gives an event to all subscribers in one step
though the code sends to them in turn: no task reads two queues, and a sink that
ends in between could as well have ended before or after the step.

`Pipeline` adds sources, the channel of lines (`raw`), the parser and the
supervisor. Four things are taken from the runtime and not from the text of the
functions:

* Every task may move between any two steps of another one (the runtime has
  several threads).
* A `biased` select looks at the shutdown branch first. A task in the middle of
  a poll when the broadcast comes may be past that branch and take one other
  branch: such a receiver is `"missed"` until its next poll.
* A receiver made by `resubscribe()` holds only what is sent later. A shutdown
  that comes before a task was spawned is not heard by it (`"no"`).
* `abort()` only asks: the task is dropped at its next await point. Group aborts
  are recorded in `cancelled` and `Abort…` actions carry them out.

The join branches of the supervisor come in no fixed order, as a task may end
when a poll has passed its branch. Timeouts may fire at any time, backoffs and
POSTs take any time. Panics of tasks are left out. A line is what `parse_line`
makes of it: an event or none.

`EventPath` takes one line after the other through `process_one`: `TakeLine`
(`parse_line`, `take_labels`), then for each enricher `Lookup`, `NothingToLookUp`
or `AskCache`, and after a miss the call with its two phases (headers, body),
failures and the two nested timeouts, and `FanOut` to the subscribers whose
filters match. Time is a `Tick` that ages the call under way, the entries of the
caches and the services' data; it does not pass a timer that is due. A line is
made of documents (JSON objects of this program or another) between other text;
`Json` writes them and `parse_line` has to find them again. `version` counts how
often the services' data changed, which makes staleness a number. The labels of an
event go into the envelope and out of the event (`take_labels`, `Unlabelled`); a label
whose value is no string is one of those dropped.

`Relay` is the process: `Start` loads and validates the configuration and spawns
two tasks, the select is left by `StopBySignal`, `StopByAdmin` or
`StopByPipeline`, each of which sends the broadcast, and `Finish` needs both tasks
joined. A signal that comes without its handler (before the first poll of
`wait_for_signal`, or when installing it failed) kills the process; one that comes
after the select is not looked at. The pipeline is `PipelineTask`, of which
`Pipeline` is shown to be an implementation (`ImplementsTask`): that is how the
readiness the admin server reports, and the result that becomes the exit status,
are tied to the task graph without multiplying the two state spaces. Connections
of the admin server outlive its accept loop, so requests are answered during the
whole teardown. `Admin` takes an `Authorization` value for absent when it is not
visible ASCII, as `HeaderValue::to_str` does (`to_str`), so that a token with another
letter in it can be presented by nobody; `DataGuarded` says so.

`LogTail` counts a file in half lines, so that a line may be read in two parts.
Rotated files stay on the disk, hence inode numbers are not used again. There are
three ways for a run to end: an orderly exit that saves the bookmark (`Stop` and
`SendFails`, both through `Saved`), and two without one (`Dies`): a kill (`Crash`)
and the error arm of `read_line` (`ReadFails`: the device, or a line that is not
UTF-8). `StartFails` is `open_at_start` returning an error. The variable `happened`
keeps which kinds of disturbance occurred (kill, failed read, rename, truncation,
full disk and so on): each property says under which of them it holds.

## 3. Runs

Bounds are in the `.cfg` files and the `MC` modules; the table says why they
suffice. All counters the model needs are bounded by a named constant. A property of a
run is one statement or a conjunction of named parts that belong together
(`DecisionIsTrue`, `HeadersTrue`, `NothingMissed`, `EndIsTrue`, `LogIsRead` and so on);
each part has its comment, and its mutant in `PROJECT.json`.

| run | instance | shows | why it is enough |
|---|---|---|---|
| `guest_request` | bodies of 0–4 bytes, scratch buffer 2, caps 1–3, 3 empty reads, 112 configurations | body forwarded intact, exact prefix, bounded over-read, enforcement, fallback, complete and true audit line, every request answered | caps below, at and above the body length and the buffer; several chunks per body; two verdicts per detector, so ties and `swap_remove` in the middle occur |
| `guest_input` | about 2 200 requests in families: every kind of piece at every place encoded 0–4 times; several pieces with separators; parameters with an `=` or `&` in them, encoded 1–4 times or, in a value, not at all; 0–6 headers with 0–4 values of 0–3 cells; two addresses in five notations; forwarding chains of up to 3 entries with 0–3 trusted hops. Buffers of the sizes in the `.cfg`, 3 decoding passes | no value lost, moved or invented; parameters kept; payloads, User-Agent tails and header floods reported; verdicts have causes and do not multiply; addresses kept apart and hops peeled | a parameter split after instead of before its decoding falls apart; chains shorter than, as long as and longer than the hops; one encoding more than the passes; values at, below and above the scratch buffer and the hard limit; more headers than the guest reads |
| `slab_lru` | 4 addresses, 3 slots, quota 2, 2 ticks per second | links and index whole, stalest evicted, refinement of `TokenBuckets` | unlinking at head, middle and tail, and reuse of slots need three slots and four addresses |
| `pod_rate` | two guests, 2 addresses, 1 bucket each, quota 2, 5 instants | rate of a guest bounded above, no early refusal, with evictions; the pod has one budget per guest | windows shorter and longer than a second, refills clamped and not; the other address evicts |
| `sink` | 3 events, 2 subscribers, queue 1, ring 1, 1 or 2 attempts, every mix of responses | counters balance, ring keeps the latest, retries are runs, fates fit responses, refinement of `Delivery` | queues and rings overflow; retries and ends interleave |
| `pipeline` | one source that may fail, 2 events and a line that is none, 2 subscribers whose endpoints never take anything, one of them retried, channel 2, queues and rings 1 | teardown, results, refinement of `PipelineTask` | every join order against every teardown phase; full channel, full queue and full ring occur, and any receiver may miss the broadcast; what endpoints answer in other ways is the business of `sink` |
| `two_sources` | a source that ends or fails, with 2 events, and one tailed for ever, with 1; 1 subscriber, who takes those of the first, channel 1, queue 1; of the receivers only the supervisor's may miss the broadcast in the middle of a poll | of each source no event lost before the parser has it, and none overtaken; termination; a stuck sink stops nobody | the lines of the two mix in the channel; the tailed source ends only when it hears the shutdown or is aborted; two events fill the queue of a sink that does not move |
| `eof_is_not_an_error` (violation) | as `pipeline` | a clean end of input may end in an error | |
| `log_tail` | 3 lines, 2 inodes, bookmark every 2 events, 2 runs, any 3 kinds of disturbance, failed reads and starts among them | exactly once over stops, no gap before what was passed on or where reading goes on, bounded replay, catching up | a bookmark falls between events; lines before, across and after a rotation |
| `restarts_are_continuous` (violation) | as `log_tail`, 2 kinds | a stop may lose the event in hand | |
| `event_path` | every text of up to 3 of five odd pieces inside an event, three texts before it, two documents on a line; every pattern of up to 4 over `a`, `b`, `*` against every rule of up to 3; three tenants, one of them with the name of another behind a `/` and before a `?`, a lookup table and two HTTP enrichers with caches of 2 | events taken exactly where no brace stands before them, names exact where no text holds their keys; operator labels win; answers are about the value; cache in step; staleness and delay bounded; filters exact; enrichment never blocks | braces, quotes and escapes nest; eviction and expiry compete for the same entries; one timeout below and one above the outer one |
| `relay` | 174 configurations: a good one, and one or two fields wrong at a time, a second subscriber in either order; requests to four paths with six tokens, one of them not ASCII, or none under two schemes | only valid configurations start; the token guards; exit status; nobody left behind; either end ends the process | both tasks end in every way and order, before and after the handlers are installed |

The runs of the relay's tasks and process say `CHECK_DEADLOCK FALSE` because they
really end, and the runs of the guest whose `.cfg` says so because a bound on time
or a single request ends the model; the others check for deadlock.

### Fairness

* Guest: weak fairness of the guest's own steps once it was called (`Guest`): a
  host call that was made returns. Clients need not send anything.
* Pipeline: weak fairness of each source, the parser and the supervisor: tokio runs every task
  that can go on; an enrichment ends in its timeout, and the teardown timeout
  passes. Nothing obliges a signal to come, a read to fail or a sink to go on:
  `FanOutNeverWaits` holds with a stuck subscriber. `Stops` assumes in addition
  (`SinksGoOn`) that a POST ends in a response or in the client's timeout and a
  backoff passes, for the drain after the end of the sources waits for the sinks
  without a timeout.
* EventPath: weak fairness of `process_one` and of time: a timer fires when it is
  due. No service has to answer.
* Relay: weak fairness of the supervisor, of the admin server and of the pipeline's
  task once it was told to stop, which is what `Stops` shows of `Pipeline`. Signals,
  clients and the pipeline's own end are free.
* LogTail: weak fairness of the task. Writers and rotations are free; a wakeup
  is either an inotify event or the poll interval, so it always comes.

## 4. Proofs

Every theorem is proved for all values of the constants, under the named
assumptions of the modules and no other. Each goes through an inductive invariant
whose parts are named; TLC has checked each of these on the instance of its run.

`GuestRequest_proofs` proves, for any bodies, configurations, reports and sizes,
that `RequestTypeOK /\ IInv` is inductive: `IInv` says what the loop has
kept and written at every read (`DrainInv`), which loop state goes with which
phase (`PhaseInv`), what a fallback configuration is (`ConfigInv`) and that a
request goes on only after a complete read or no read (`ForwardInv`).
`ForwardedIntact` alone is not inductive: it needs `WrittenIsConsumed` through
the whole loop. From it follow `TypeCorrect`, `ForwardingPreservesBody`,
`InspectionSeesThePrefix`, `OverreadIsBounded`, `EnforcementStops` (with lemmas
on what `Collect` and `Decide` keep) and `FallbackNeverEnforces`.
`DecisionStaysTrue` adds the audit line. Its invariant, `AuditInv`, is small: after
an inspection the line is the one of `Decide` over what the detectors reported. The
work is in `decide` itself: `Decided` says that the findings in the decision are
those reported that no group switches off, in the order the scan left them, each
from a position of its own, so that none is lost, doubled or invented when the worst
is moved out by `swap_remove`. `Collect` keeps the findings of a group together.

`Picks_proofs` holds what that rests on: `PickedMarks` (a loop that keeps some
elements leaves them in their order) and `SameCounts` (two sequences that are
renumberings of each other hold everything equally often), and for `Kept`, the
elements of a list that are in a set, that it is the same over the parts of a list as
over the whole (`KeptOfJoin`). A recursive function is
reasoned about through the least place where a claim about it fails, which exists
because the naturals are well-founded (`LeastMember`).

`PodRate_proofs` proves that `IInv` of `PodRate` is inductive for every pool,
quota, capacity and clock rate: what a guest has allowed, plus what is left in
the bucket, is at most (`SpentAtMost`) what the window supplied and at least
(`SpentAtLeast`) its refill. From it follow `StoresStayBounded` (the type
invariant with the capacity and the recency list), `RateIsBounded` and
`NoEarlyRefusal`. The clock's bound `MaxNow` and `MaxPod` are arbitrary naturals.
`PodIsBounded` adds up the guests without a sum: `PodInv` says that the pod's counter
is the cardinality of the set of pairs of a guest and one of its grants (`Grants`),
and that set lies in the guests times the numbers up to one guest's bound
(`GrantsOfAll`). For that the pool is assumed to be finite.

`SlabLru_proofs` proves `StructureStaysOK` and `SlabImplementsBuckets`, for any
addresses, capacity, quota and clock. That the links and the index agree is about
paths through the slab, which no finite number of field equations describes. The
invariant `SlabInv` therefore says that there is an order of the slots (`Whole`), each
once, of which `head`, `tail` and every `prev` and `next` are the neighbours
(`Linked`), and that index and nodes name each other (`Named`). The operations are
first described field by field (`UnlinkSpec`, `PushFrontSpec`, `EvictSpec`, ...), then
by what they do to the order: `Unlink` takes a slot out, `PushFront` puts one before
it. A check is one of three (`Known`, `Grown`, `Evicted`) and in each moves the slot
from its place to the front (`Front`), with its effect on data and index in `Changed`.
From there `Walk`, a recursive function, is the order (`WalkIsTheOrder`, at the least
place where it would not be); `ListIsWhole` and `IndexAgrees` follow, the latter's
count through a bijection of slots and addresses; and the refinement follows by
reading both stores off the order (`Reads`): the same place, the same victim, the same
tokens (`SamePlace`), the same list and buckets after it (`SameRecency`,
`SameBuckets`). No assumption is needed but those on the bounds: they are naturals and
the clock's resolution is not 0.

`Relay_proofs` proves `ExitStaysTrue`, `StartsOnlyValid` and `DataStaysGuarded` for
every set of configurations and requests (the assumptions of `Relay` say only that
counts are naturals and texts are sequences). `ExitTellsTheTruth` is not inductive:
that a process which lost its admin server exits with a failure needs that the
server cannot have been told to stop before the select returned (`AdminInv`), and
that a pipeline which has ended has a result (`TaskInv`). `StartsOnlyValid` goes
through `StartedInv` (what runs is what `validate` returned for this file) and
unfolds `validate`. `DataStaysGuarded` adds `AnswerInv` (every answer is `route`'s,
for the token in force) and `TokenIsConfigured`; that trimming a text leaves a text
needs a least and a greatest index, which follow from the well-foundedness of the
naturals.

`Pipeline_proofs` begins with the sinks and proves, for any subscribers, filters,
answers, budgets and capacities: `BooksAreKept` (types, `MetricsBalance` and the ring), `FatesAreEarned` and
`PromiseIsKept`. `SinkTypeOK` is inductive together with the types of the histories
(`Typed`); the balance is inductive given the types, one subscriber at a time. The
ring needs a numbering of the dead letters (`Numbering`). What the retries are needs
`RetryInv`: the envelope in hand continues the run of POSTs that the inbox ends with
(`RunGoesOn`), and no event is on its way twice (`EventsApart`). `PromiseIsKept` is
the refinement of `Delivery`, step by step: `Waits` is the refinement mapping, the
envelope in hand before the queue; receiving and retrying are stutters.

`Pipeline_proofs` proves, for any sources, lines, subscribers and capacities, that
`Pipeline` implements `PipelineTask` (`PipelineIsATask`), that a drain after a clean
end is not cut short (`DrainIsPatient`), and `EndStaysTrue`: a run that has returned
left no task behind, reported every failed source, and if it ended well without a
shutdown every event of every source was fanned out and settled. `RunInv` says which
result, readiness and aborts go with which phase; `EndInv` that what was joined has
ended and has counted; both rest on lemmas that no task but the supervisor changes
the supervisor's state, and that an ended task takes no step. `DrainInv` follows the
lines: no event goes missing while there is a parser (`LinesInv`), a source that
ended well has sent everything (`SourceInv`), the parser left its loop for the
reason it gave (`ParserInv`), an ended sink holds nothing (`SinkInv`).
`EventsStayInOrder` adds that of what is fanned out, in the parser's hand, in the
channel, in the source's hand and unread (`Flow`), the events of each source are all
of its events in their order. Its invariant `FlowInv` needs `OwnInv`, that what a
source holds is of its own lines: a line that another source sends is then none of
this one's events, and a step that moves a line from one place to the next leaves what
`Kept` returns alone (`KeepsBoth`, `KeptOfJoin`). Sources and subscribers are assumed
to be different things, as they are in the code's two join sets, the lines of a source
to be a sequence, and events of different sources to be different (they are names for
occurrences, not texts).

`LogTail_proofs` proves, for any number of lines, inodes, starts and disturbances and
any bookmark interval, `TheLogIsRead` (exactly once and in order over stops; over kills,
failed reads, renames and unwritten bookmarks no gap in any file before what was passed
on of it, nor in the open file before the point of resumption) and `LittleIsRepeated`.
Neither says anything of what a renamed file held behind the last unit passed on. The
invariant `LogInv` says, besides the types, that what the source holds is what the
file has at its position (`FileInv`), that it is past all it passed on (`PastInv`),
that everything behind it and behind the bookmark was passed on, without a gap in any
file (`SkipInv`), that with the bookmarks in place (`BookmarksInPlace`: no kill, failed
read, full disk or truncation) nothing is ahead of it (`RepeatInv`), that its counter
bounds what a kill would repeat (`ReplayInv`), and that without disturbances the
pieces lie end to end (`CalmInv`). Each holds under the disturbances it names, which
is why they are parts and not one statement. For `CalmInv`, `ExactlyOnceInOrder` is
stated through `EndOf`, the end of the piece before.

`EventPath_proofs` proves, for any lines, chains of enrichers, timeouts, times to live
and capacities, and whatever the services answer, `EnrichmentStaysBounded`,
`OperatorAlwaysWins` and `CacheStaysTrue`. The invariant `PathInv` has five parts: the
shape of the state and that labels are texts (`ShapeInv`), the services' versions
(`DataInv`), the caches (`CacheInv`), the call (`CallInv`), and that the event's own
labels are among those that will be sent (`CarriesInv`). `StalenessBounded` is not
inductive: an entry is as fresh as the call that brought it, so `CallInv` says that a
replaced version in a call's answer was replaced no longer ago than its second phase
began, and that the call is no older than its timeout; `CacheInv` then trades an
entry's time left against the age of its data, tick by tick. That answers are about
the value needs `AskedAboutTheValue`: what `build_enrich_url` encodes, a server that
splits the URL at `/` and `?` and decodes it reads back, for every text. The queue of
keys lists the entries, each once (`InStep`); that `touch`, `evict_expired` and the
loop of `put` keep it so are lemmas about sequences that list a set. Assumed are
(`WorldsAssumption`, `EnrichersAssumption`) that labels, rules and tables hold texts
over `Char`, that a filter has at most one pattern, over `Char` and the star, that no
percent escape is one character of a text, and that timeouts, times and capacities are
naturals.

It also proves `FiltersStayExact`. The heart of it is `GlobIsMeant`: `Glob::matches`,
which jumps from part to part with a cursor, agrees with the meaning of a glob
(`GlobMeans`, which goes through the pattern character by character and says which
lengths of the text it can have reached) on every pattern and every text, the two
exceptions aside. The two recursions run over different things, so the invariant
`Tracks` relates them at every character: before the first star, one length, that of
the text seen so far; after it, every length at which the part read so far can end
behind the cursor of the parts already closed. A star then closes a part, and taking
its first occurrence loses nothing (`StarLets`), because behind a star every longer
text is reached as well; that is the step that fails for a lone part after a star,
which has to be at the end. `CutsDoFit` says that the parts found so far lead the parts
`Glob::new` makes of the whole pattern. Induction over the characters is done with
`Climb` (a set of numbers with 0 and closed under successors), and that the recursive
functions have values is `Iterates`. `FilterInv` carries the result to the envelopes.

And it proves `EventsStayExact`. Of a line with no brace before its JSON (`Tidy`), the
first object is taken exactly when it is an audit event, unchanged whatever braces,
quotes and backslashes its strings hold. The names are Traefik's where neither the text
before the JSON nor a string of it holds the key of one of Traefik's fields
(`Keyless`); where one does, the code takes the first key of the line, and nothing is claimed of the
names (section 5). `Passes(a, s, b)` says that the scanner goes over `s` from
state `a` to state `b` wherever `s` stands and does not end in it; it is closed under
putting texts together (`PassesJoin`), so that a string body, of any length, leaves the
scanner in the string (`EscapedPasses`), a document but its last brace leaves it one
level deep (`JsonIs`), and that brace is where it ends (`FindsObject`). `StripsTo` is
the same argument for `strip_ansi` (`StripsJoin`): every coloured field becomes the
field without its colour, and what stood before the event loses whole sequences and
gains nothing (`LineStrips`). The names are what `find_value` then finds behind the one
place of each key (`FindsValue`, `NamesAre`), and `LineInv` carries this to the states.
What it assumes of the lines is `LinesAssumption`: the documents of a line can be told
apart, JSON holds no raw escape character, an ESC in front is followed by a letter, and
names hold none of the characters the scanners look for.

Only model-checked:

* Liveness, which is out of the prover's reach: `EveryRequestAnswered`, `Stops`,
  `FanOutNeverWaits`, `CatchesUp`, `EnrichmentNeverBlocks`, `StopsWithEither`.
* The properties of `GuestInput`: they compare `Split`, `join_header_values`, the
  deduplication of matches and their kin with what is meant, for every text. These are
  written with the library's folds, which recurse over sets of places; to be proved about,
  each would first have to become a recursive function along the text, as `strip_ansi`
  and the scanner are in `AuditLine`, with an induction of its own.

## 5. Where code and documents disagree

Two runs end in a violation on purpose and quote in `PROJECT.json`, under
`findings`, the sentence they refute: the end of stdin may be reported as an
error, and a stop may lose the event a source holds.

Other disagreements met while modelling. The models follow the code, and the
properties are stated so that they say what does hold:

* Guest. `docs/configuration.md` says that monitor mode never blocks, but an
  over-cap body under `overCap: block`, a broken body and, under `failMode: closed`,
  a host that cannot buffer are answered 403 (`traefik/entry.rs:222-245`). These
  blocks leave no audit line, though the relay's README promises one for every
  block. `docs/configuration.md:13` gives `reputation.perSecond` per pod; the
  limiter is per pooled guest (`PodBounded`).
* `traefik/entry.rs:188` calls header values byte-faithful; `host.rs` converts them
  lossily, only the body stays raw.
* `signatures.rs` says that every field is scanned for distinct patterns, but the
  matches do not overlap: in `../etc/passwd` the second literal is not reported
  (`Shares` in `GuestInput` excludes such neighbours).
* `entry.rs parse_ip` reads an unbracketed IPv6 address with a port of at most four
  digits as a longer address (the form `short port`).
* `filter.rs:97` calls `*` zero or more characters; the pattern `*x` matches only when
  the first `x` of the rule is at its end (`LoneTail`). `config.rs` documents
  `severity_min` as the maximum over `would_block_rules` too; an event without a
  `blocked_severity` never passes it.
* Log tail, rotation. `log_tail.rs:14-16` says that events of the down period "are
  delivered", `config.rs:77` that the source "survives rotation". On a wakeup it looks
  at the path first (`Wakeup`, `log_tail.rs:120-134`) and reopens it when another file
  has it: lines written to the old file after the last end of file are never read. After
  a rename during the down period `open_at_start` (264-288) looks only at the new file.
  In `LogTail`: `ReadEof`, `Write`, `Rename`, `Wakeup`. `NothingSkipped` says what is
  left: no gap before anything passed on, in any file, and none in the open file.
* Log tail, failed reads. `log_tail.rs:14-15` says that events are not emitted again
  after a restart, but the error arm of `read_line` (158-161), which a line that is not
  UTF-8 takes too, returns without saving the bookmark: the next run repeats what came
  since the last one (`Send`, `ReadFails`, `Start`, ... `Send`). `NotReemitted` leaves
  such runs out, `ReplayIsBounded` covers them.
* `client_ip` takes the leftmost address that parses after the trusted hops are peeled
  (`request.rs:375`). The comment (343-345) calls it "the client as observed by your
  outermost trusted proxy", and `THREAT_MODEL.md` 4.1 warns of entries that the client
  wrote only where more hops are configured than there are; but what that proxy observed
  is what it appended, the rightmost of those left. With several left, the source is a
  text that the client may have written, whatever the hops. `TrustedHopsPeeled` says
  which entry the code takes, and claims no more of it.
* `parser.rs` documents Traefik's fields as the line's trailing text, behind the JSON
  (36-37, 158-160); `find_value` takes the first key in the whole line, the text before
  the event and the event's own strings included. `NamesExact` says nothing of lines
  that hold a key there. `ParseError::Malformed` is never made.
* `pipeline.rs:373` says that the inner timeout of an enricher fires first; a
  configured `timeout_ms` above 1000 is cut by the outer, fixed one.
* `--validate-only` does not look at the admin address (`ExitTellsTheTruth` is
  stated accordingly). A token from an environment variable is not trimmed, so one
  that ends in whitespace can be presented by nobody.

## 6. Not modelled, and the plan

* Retry delays, signatures (HMAC) and the rendering of metrics: functions without
  state; every schedule is included in `Sink`'s backoffs.
* How long things take beyond `EventPath`, in particular the drain after the end of
  the sources.
* Panics of tasks; YAML and JSON syntax; lenient numbers and labels of the plugin's
  wire configuration (`traefik/config.rs de_lenient_*`, `validate_labels`), each one
  flag of the models.
* Vendored libinjection; charts, benchmarks, fuzzers and the site.

The proofs that are left are those listed under *only model-checked*: they need
liveness reasoning, or induction over texts in the folds and scanners of `RequestView`,
`HostBuffers` and `Detectors`.
