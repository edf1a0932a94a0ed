# A TLA+ verification of nanoapi

nanoapi is a gateway in Go. It accepts Anthropic Messages and OpenAI Chat
Completions requests, forwards them to an OpenAI-compatible upstream
(OpenWebUI), translates the answers back, and keeps a usage record of every
request. This directory holds TLA+ models of the parts of the gateway in which
order, failure and concurrency matter, the TLC runs that check them, and TLAPS
proofs of theorems about them.

* `PROJECT.json` lists the components, the runs, the mutants that show that each
  property can fail, the source lines each definition translates, the hazards
  the properties are aimed at, the findings and the theorems.
* Run a check with `tlc -config <X>.cfg <Module>`, a proof with `tlapm <Module>.tla`.

Contents: [the system](#the-system), [plan](#plan), [modules](#modules),
[runs](#runs), [findings](#findings), [proofs](#proofs),
[limits](#what-is-not-covered).

## The system

### Components

| Component | Source | State it keeps | Operations | What is hard |
|---|---|---|---|---|
| request pipeline | `server/public_anthropic.go`, `server/public_openai.go`, `execute/executor.go` | per request: selection, attempt, the context of the attempt, what was sent | read and decode the body, select, override, encode, `executeWithRetry`, `Executor.Execute`, respond, record | three attempts per provider inside a loop over providers; client, upstream and timer race; a dozen exits |
| Anthropic streaming | `codec/upstream_stream.go`, `codec/anthropic_encode_stream.go`, `server/public_anthropic.go` (`streamOpenAIToClient`) | `AnthropicStreamEncoder`: open block, tool blocks, stop reason, usage; the captured search results | decode a line, encode an event, inject the web search, `Done` | events in any order; blocks that must nest; `message_delta` waits for two events |
| OpenAI streaming and aggregation | `codec/openai_encode_stream.go`, `server/public_openai.go` (`streamOpenAIToOpenAIClient`), `execute/aggregate.go` | `OpenAIStreamEncoder.started`; `streamAggregator` | encode an event, add the footer; merge events into an answer | two implementations of one promise |
| usage store | `server/usage.go`, `server/usage_model.go`, `server/api.go` | records in memory, a JSONL file, an RWMutex | load, record, query, summarise | concurrent recorders and readers; a file that is appended to after a crash |
| provider selection | `server/provider.go` | none (reads the configuration) | `SelectAll`, `resolveOverride`, `applyOverride` | order of fallback; parameters shared between attempts |
| configuration | `config/config.go`, `config/validate.go` | the loaded `Config` | load, default, validate | ties of priority between providers |
| parameters and reasoning | `codec/types.go`, `codec/reasoning.go` | `Params` with pointers | `Clone`, `NormalizeResponse`, `BuildOpenAIReasoning` | aliasing; effort outside the allowed ones |
| request translation | `codec/anthropic_decode.go`, `codec/openai_decode.go`, `codec/upstream.go` | none | decode a request to the canonical form, encode it for the upstream | roles and the grouping of tool results |
| whole responses for Anthropic clients | `codec/anthropic_encode.go` | none | encode a response | block order against the streamed one |
| web search results | `codec/websearch_inject.go` | none | parse sources, format the footer | where the results go in a stream |
| token authentication | `server/auth.go` | map of keys | look a key up | which id a key stands for |
| debug log | `server/logging.go` | a buffer per request | log, flush on errors | which exits flush |
| router and process | `main.go`, `server/router.go` | the HTTP server | start, graceful shutdown in five seconds | requests that are cut off |
| usage script | `scripts/usage.sh` | none | print the summaries | trusts the order of `/api/logs` |

### How they interact

`main` loads and validates the configuration, builds the usage service from its
file, and serves. The token middleware lets a request through to
`ProxyHandler` or `OpenAIProxyHandler`, in the goroutine of its connection. The
handler decodes the body to the canonical form, asks the selector for every
provider that serves the model, best first, and goes through them: it clones
and overrides the parameters, encodes the request, and calls
`executeWithRetry`, which calls `Executor.Execute` up to three times, each under
a context with a timeout that is derived from the client's. The result is a
response to decode, an aggregate of a stream, or a stream to pass on under the
same context; the handler writes it to the client in the client's protocol,
hands one record to the usage service, and flushes its debug log if it has to.
`/api/usage` and `/api/logs` read the usage service under its read lock.

The actors that run at the same time are the handlers, their clients (which may
leave at any moment), the upstreams (which may answer anything, or nothing),
the timers, and the operator who stops or kills the process. The only state
that handlers share is the usage store; the pipelines of two requests meet
nowhere else, so the pipeline is checked with one request and proved for any
number of them.

### What makes each part correct

* Pipeline: the order and the number of calls; no work for a client that left
  beyond the call under way; every context cancelled, none too early; one
  response and one record that agree; every accepted request ends.
* Anthropic streaming: well-formed blocks and messages whatever the upstream
  sends; nothing lost; the web search before the text; tool arguments in their
  own block.
* OpenAI: a client that streams and one that does not are told the same, and
  charged the same.
* Usage store: records survive restarts except for those a cut-off write
  touched; readers are told all that was stored and nothing that is not kept;
  recording always returns.
* Configuration and selection: every configuration that is accepted tells which
  provider a request starts with, and whose usage a key counts for.
* Overrides: a request tried on a second provider carries nothing over from the
  first.
* Translation: over a whole conversation nothing is lost, doubled or put into
  another's mouth; results follow their calls; what the upstream said comes back
  to it, texts and ids as they were, arguments as a first reading leaves them.
* Whole responses: they tell a client what a stream would have told it.

## Plan

The modules, in the order of importance, all written by now:

1. `RequestContract`, `RequestPipeline`, `RequestPipeline_proofs`.
2. `StreamEvents`, `AnthropicEncoder`, `AnthropicPassthrough`;
   `StreamEvents_proofs`, `AnthropicPassthrough_proofs`.
3. `OpenAIStream`, `StreamAggregate`, composed by `StreamModes`;
   `StreamModes_proofs`.
4. `UsageStore`, `UsageStore_proofs`.
5. `Routing`, `Routing_proofs`; `Overrides`, `Overrides_proofs`.
6. `ContentBlocks`, `AnthropicResponse`, composed with the stream by
   `AnthropicPassthrough`.
7. `Translation`, composed with clients and upstreams by `Conversation`;
   `Conversation_proofs`.

Open: the pipeline with the store in the place of its `records`.

## Modules

### RequestPipeline (implements RequestContract)

The life of a request from the token check to its record. The two handlers have
the same control flow line for line, so one module stands for both. `pc` is
where the goroutine is:

| `pc` | the code |
|---|---|
| `idle`, `body` | before the handler; reading, decoding, selecting (`ProxyHandler` steps 1 to 3) |
| `plan` | the head of the loop over the selections (steps 4 to 7) |
| `attempt`, `executing` | the head of `executeWithRetry`'s loop; inside `Executor.Execute` |
| `answering`, `streaming` | steps 9 and 10 with a whole response, or a stream |
| `done` | the handler has returned |

An action is the code between two points where another actor can be observed,
and includes all that code does: `AttemptFails` appends the outcome of the
call, cancels the context, looks at the client's context and continues with the
next attempt (`Retry`), the next selection (`FallBack`), an error (`GiveUp`) or
nothing (`Abandon`). `Disconnect` is enabled whenever the handler runs.
`ContextEnds` and `StreamContextEnds` are the timer or the disconnection,
seen by the HTTP client; `ExecuteSucceeds` and `ExecuteFails` are the upstream.
`calls` is a history variable: every `Execute`, whether its client had gone when
it started (`late`), and what it returned. `live` counts contexts that were
created and not cancelled.

Abstracted: bodies and messages; the configuration, of which `Selections` (what
`SelectAll` finds), `ForceStream` and `Unencodable` are left; the debug log, of
which `flushed` is left.

`RequestContract` is the abstract specification: a request is refused, or it is
closed with an answer and, in the same step, the one record that agrees with
it, or it is closed without either, which takes an excuse (its client is gone,
or the upstream said 499). `KeepsContract` is the refinement, with `phase` and
`excused` computed from `pc`, `client` and `calls`.

### StreamEvents, AnthropicEncoder, AnthropicPassthrough

`StreamEvents` has the canonical events, and how a chunk is taken apart into
them, in the code's order. `AnthropicEncoder` has the encoder as a record and
one operator per kind of event; `out` is the sequence of frames written.
`AnthropicPassthrough` is the loop around it: `ReadChunk` puts the events of a
line in `pending`, `EncodeEvent` is one turn of the inner loop with the
injection of the web search, `ReadSources` captures results,
`ReadDone` and `StreamBreaks` are the two ends. `SkipLine` is a line without
events or one that does not decode, which is logged and skipped. The upstream
keeps to the order of the OpenAI API (`InOrder`, where `upstream.conforming`) or
is free; the properties that no code could give for a free one say so.

### ContentBlocks, AnthropicResponse

`AnthropicResponse` is the other way to answer the same client: `Finalize` of
what `StreamAggregate` has merged, the blocks of the web search put first, and
`EncodeAnthropicClientResponse`. `AnthropicPassthrough` has the events of its
stream in `received`, and `SameMessage` folds them through the aggregator and
compares: per type of block the same pieces in the same order, the same calls,
stop reason and counts. The blocks need not stand in the same order, since an
aggregate puts its thinking before its text. Two differences are the code's own, and the
property says them: arguments that are JSON come as they are in the stream and as
`Reparsed` leaves them in the whole response (read into an `any` and written again:
white space and the order of keys go, long integers are rounded), and a usage
that no chunk reported is zeros in the stream (`UsagePayload`) and missing in the whole
response (`EncodeUsage`, which also leaves out a cached count of 0).

### OpenAIStream, StreamAggregate, StreamModes

`OpenAIStream` is the encoder of `/v1/chat/completions` and the loop around
it, with the footer of the search results; `StreamAggregate` is
`streamAggregator` and what `/v1/chat/completions` makes of its result
(`Answer`). `StreamModes` gives both the same lines, as if two clients had sent
the same request, one with `stream` and one without, and compares what
they are told. `ReadChunk` puts the events of a line in `pending`, and
`TakeNext` is one turn of the inner loop of either mode, so that what both are
told is compared after every event. The results of a search stand for their
footer, which is a value of its own (`Results \cap Pieces = {}`): `SameContent`
tells footers from the upstream's text by where they come from. Null usage fields matter here: a report without cached tokens
must not erase an earlier one. `SameCalls` compares the arguments that are JSON,
which the stream passes on and the aggregate has as `Reparsed` leaves them; others are
left out of it: the aggregate replaces them by `null`.

### UsageStore

Records are known by their requests; memory is a set of them (nobody sees the
order of the slice), the file a sequence of writes. A write is `whole`, `torn`
(some bytes) or `unended` (all but the newline); the next write then continues
its line. `Load` is the loop of `NewUsageService` over such a file.
`AnswerClient` is the handler that has written its response; `StampRecord`, its
last call, takes the time, before the lock; `AskForLock` is the record encoded and
`mu.Lock` called, apart from the stamp since others may record and read in
between; `AppendRecord` gets the lock and appends in memory; `WriteRecord` or `WriteFails` writes and unlocks: the two
steps of `RecordUsage` are apart so that a kill can come between them.
`LockForReading` respects a waiting writer, as `sync.RWMutex` does. `Killed`
may come at any moment, and stands for the end of the five seconds of
`srv.Shutdown` too; `Shutdown` is a stop that they suffice for, when every
handler has returned. An answer stands in `answers` until its reader asks anew.
`history` and `failed` are history variables.

### Routing

`main` from the configuration to serving: `Validate` goes over the tokens
(`DuplicateID`, `AcceptToken`) and the providers (`AmbiguousPriority`,
`AcceptProvider`), with `seenTokenIDs` and `bestPerModel` as in the code;
`StoreToken` is the loop of `NewTokenService`; `SelectAll` then gives the
candidates of a model in any order that the unstable sort may leave. The check
of one field alone (an empty name, a port out of range, a malformed rule) may
fail at any entry: `FieldRefused`.

### Overrides

The parameters of one request on their way through the fallbacks. `Params`
refers to a `Reasoning` by an index into `heap`, because `applyOverride` changes
that object in place: `Clone` appends a copy, and `Overridden` changes the one
its argument refers to. `MergeLayer` and `NextSelection` are `resolveOverride`
inside the loop of `SelectAll`, one layer at a time; `KeepOriginal`,
`ApplyOverride`, `Send` and `FallBack` are the loop of the handler. Plain fields
(`MaxTokens`, `Temperature`, `TopP`, `Stop`) are members of `Fields`.
`BuildOpenAIReasoning` is modelled with its two ways to compare efforts, trimmed
(`Canonical`) and not (`Folded`, `strings.EqualFold`).

### Translation, Conversation

`Translation` has the pure functions of package `codec` on whole requests and
responses: `DecodeAnthropicRequest` and `DecodeOpenAIRequest` to the canonical
form, `EncodeOpenAIRequest` from there to the upstream's, `DecodeOpenAIResponse`
and the two answers back. A text is a sequence of pieces, since the code puts
texts together; arguments of calls are values, with `Reparsed` for what is left
of them when `json.Unmarshal` reads them into `any` and they are written again.

`Conversation` is what makes these functions hard to get right: the gateway
keeps nothing, so that all it ever told a client comes back with the next
request. The client is the environment (`UserSpeaks`, with an optional
instruction and an optional beginning of the answer; `CallsReturn`, with words
before or after the results), `Forward` and `Answer` are the handler of its
protocol, and the upstream's answers are free.

## Runs

| Run | Config | Shows | Distinct states |
|---|---|---|---|
| `pipeline` | `RequestPipeline.cfg` | safety, the refinement and the end of every accepted request, over every course of a request | 3,226 |
| `untracked`, `truncated`, `unflushed` | `RequestPipeline{Tracked,Truncated,Flush}.cfg` | findings 1 to 3 | |
| `anthropic` | `AnthropicPassthrough.cfg` | blocks, framing, content and search, whatever is sent; tool arguments, the end of the message and the whole response, with a conforming upstream | 476,452 |
| `modes` | `StreamModes.cfg` | same text, reasoning and tokens in both modes, after every event, whatever is sent; same answer and calls, with a conforming upstream | 532,306 |
| `usage` | `UsageStore.cfg` | durability, orderly stops, what readers are told and that it is complete, recording returns | 249,714 |
| `usage_long` | `UsageStoreLong.cfg` | finding 4 | |
| `routing` | `Routing.cfg` | the first choice and the ids of keys, over every configuration | 928,450 |
| `ties` | `RoutingTies.cfg` | finding 5 | |
| `overrides` | `Overrides.cfg` | what each provider is sent, through fallbacks | 1,556,736 |
| `conversation` | `Conversation.cfg` | both translations over whole conversations | 426,830 |

### Bounds, and why they are enough

* Pipeline: one request, since requests share nothing here; two candidates,
  three attempts each (the code's own bound), which has a first and a last one
  and a step between them; a candidate that always streams, so that the three
  modes occur, and one that cannot be encoded, behind one that can. One status
  per branch of the code: a redirect, a client error, 499, a server error, and
  no answer. The theorems below lift the bounds.
* Streams: four lines of anything (a free upstream), which reaches every pair of block types with
  something before and after, two tool calls in a chunk, every repetition of a
  finish reason, usage or search; six lines in order: two parallel calls with
  two fragments, the finish reason, the usage, and `[DONE]`. Two values of each
  kind are enough to tell "lost" from "swapped". `MaxLines` is the bound.
* Store: three records of two tokens, two lives of the process and what a third
  would load, and one failing write beside the ones that are cut off: a damaged
  line before, between and after whole ones, and a restart after the one that
  appended to it. Two clock values: a record stored behind one with a later stamp,
  and a window that has one of the two.
  `MaxTime`, `MaxStarts` and `MaxFailures` are the bounds.
* Routing: every configuration of up to three tokens and three providers over
  two models: a tie needs two providers, and the one that hides it a third.
* Overrides: one or two providers; defaults and up to two rules of every kind of
  target, so that layers replace each other and some do not match; efforts in
  several spellings, mapped, allowed and not. One plain field stands for the
  four, which are treated alike. The theorems lift these bounds.
* Conversation: two answers and a third request, so that calls are made,
  answered, and come back a second time; messages of one and two blocks, with
  images that can be sent, and others that cannot: by URL, not in base64, without data; results that are errors, empty,
  or begin with an image; up to two calls in an answer, with arguments that are
  JSON, no JSON, absent, or a number that is rounded. `MaxTurns` is the bound.

Deadlock is checked in every run; `Finished`, `Returned` and `Stopped` are
the states the system may rest in, with `Idle` (a gateway that serves, or was
refused) and the `Done` of the last two modules.

### Fairness

* `RequestPipeline!FairSpec` has weak fairness of `HandlerStep`: the Go scheduler
  runs the goroutine, the timer of an attempt fires (`context.WithTimeout` at the
  head of the attempt; the stream is read under the same context), and writes
  to the client return, as it reads or disconnects. Nothing is assumed of the
  upstream (`ExecuteSucceeds`, `ExecuteFails` and `UpstreamEndsStream` are not
  fair), nor of the client's body: the server has no read timeout, so
  `AcceptedRequestsEnd` starts behind the body.
* `UsageStore!FairSpec`: a free mutex is given to a waiting writer (RWMutex
  holds new readers up while a writer waits), a write returns or fails, a
  reader finishes its loop, a stamped record is encoded. Nothing is assumed of new readers, of the clock, or
  of restarts.

### Mutants

Each property of a passing run has a mutant: a plausible mistake in one
translated definition, under which TLC finds the property violated. They stand
in the modules before the definitions they change, marked "Mutant of".

## Findings

Where the code does not do what the repository says of it:

1. `untracked`: a 499 that the upstream itself returns is taken for the
   handler's own mark of a client that is gone
   (`server/public_anthropic.go:216`). The client, still connected, gets an
   empty 200, and no usage record is written; `README.md:13` promises
   "per-request tracking".
2. `truncated`: a stream that breaks off is recorded with `success=true`,
   because success is read off the status that was sent with the first byte
   (`server/public_anthropic.go:253`); `server/server_test.go:192` says
   "failed request should record success=false".
3. `unflushed`: when a 2xx stream cannot be aggregated, its status goes with
   the error (`execute/executor.go:206`): the client gets an error body under
   HTTP 200 and the debug log is not flushed, against
   `server/logging.go:19`, "flush writes to disk on errors only".
4. `usage_long`: `bufio.Scanner` ends the load at a line over 64 KB, and the
   loop does not look at its error (`server/usage.go:25`), so that one long
   record hides all later ones from the next start on, against
   `server/usage.go:28`, "skip malformed lines".

5. `ties`: `Validate` compares a provider with the best one before it only
   (`config/validate.go:89`). Behind a provider of higher priority two that tie
   are accepted, and the unstable sort of `SelectAll` decides between them when a
   request falls back, against the error of `config/validate.go:92`, "ambiguous
   priority: client model %q is served by providers %q and %q at the same
   priority", and `TestValidate_PriorityAmbiguity`.

Met while modelling, and left to the notes of the hazards, as nothing in the
repository says otherwise: two tokens with one key are accepted, and the later
one gets the requests of both; `tool_choice: "none"` is dropped, not sent; when
nothing of a client's last message can be sent (an image by URL alone, or one whose
data is no base64 or empty), the assistant's answer before it is sent as the user's; a web search turn without
tools infers none for the calls in its history; an image by URL, in another encoding or without data is dropped without a word;
long integers in arguments are rounded when they are read and written again, so
that a stream has them and a whole response, and every later turn, does not; a
line of a stream with sources and choices loses its choices where the sources are
captured, which is every aggregate and, for streams, a request with a web search; an effort that is not allowed becomes `medium`, allowed or not.

The passing properties are stated so that they hold with these: `TellsOutcome`
names the 499, `RecordTellsOutcome` compares the record with the status that
was sent, `GivesUpOnlyWhenExhausted` allows a request that cannot be encoded for one
provider not to be tried with the next, `UsageStore.cfg` has no
long record, `FirstChoiceIsClear` is about the first provider, and
`WordsKeepTheirSpeaker` and `CallsHaveTools` name the two cases above.

## Proofs

`RequestPipeline_proofs` proves, for every number of requests, models and
providers, every outcome of selection and every set of failure statuses, from
`PipelineAssumption` alone:

| Theorem | Property |
|---|---|
| `TypeCorrect` | `TypeOK` |
| `CallsInOrder` | `CallOrder` |
| `LateCallIsLast` | `LateIsLast` |
| `NoContextLeaks` | `ContextsReleased` |
| `OneTruthfulRecord` | `RecordTellsOutcome` |

The invariants of the runs are not inductive, and are strengthened in three
layers, each proved with the ones below it (`TypeOK` has in it that the loops stay in
range, `LoopsInRange`: the selection is one of the candidates and the attempt one of
three, wherever the handler uses them):

* `TypeInv` is `TypeOK` and `Located`, which says that every request is
  `WellPlaced`: behind the body `sel` is the index of a candidate, in the retry
  loop `attempt` is that of an attempt, and where a call is under way or answered
  there is a last call. Without it `Rule(r)` and `LastCall(r)` have no type.
* `History`, with `HistoryOf` for one request, ties `calls` to the program
  counter: every call but the last has failed and is followed by the one
  `Follows` allows, and the last one has the `sel` and `attempt` the handler is
  at, or is the one before them. It also says that a call that started late can
  only be followed by the end of the handler, which is what makes `LateIsLast`
  inductive: a late call cannot succeed, and its failure finds the client gone.
* `OutcomeInv` is `Silent` (until a request is done it has written nothing and
  recorded nothing) and `RecordTellsOutcome`; `ContextsReleased` is inductive on
  top of `TypeInv`.

`ReplaceLast`, `AppendCall`, `UpdateCall` and `OneRequest` are the lemmas on
sequences and on functions updated at one request; `AttemptFails`, which five
actions share, has one lemma per layer.

The same module goes on to what a client is told, with the same assumption:

| Theorem | Property |
|---|---|
| `ErrorsHaveReasons` | `GivesUpOnlyWhenExhausted` |
| `PipelineKeepsContract` | `KeepsContract`, the refinement of `RequestContract` |

For the first, `History` says which selection and attempt the failed call was, and
`Silent` that nothing was told before the handler's end. The refinement adds
`Pending` (the call under way has no result yet): the excuse of a 499 must come in the
very step that drops the request. Each step of the pipeline then is `Fail`
(`FailStep`), `Deliver` (`DeliverStep`), `Drop` (`DropStep`), one of the three others,
or leaves the mapped variables as they are (`QuietStep`).

`Routing_proofs` proves, for every set of models, tokens and priorities and every
configuration, from `RoutingAssumption`:

| Theorem | Property |
|---|---|
| `RoutingTypes` | `TypeOK` |
| `FirstChoice` | `FirstChoiceIsClear` |
| `KeysApart` | `KeysAreApart` |

`FirstChoiceIsClear` is about the sort, but rests on a loop that ended before:
the strengthening says that `bestPerModel` is, for the providers checked so far,
better than every other one of its model, which is what `Ambiguous` and `Better`
keep up together, and that this still holds of all of them when the gateway
serves. For `KeysAreApart` it says that the ids of the tokens checked so far are
different, and that a key stands for an id of a token that has it.

`Overrides_proofs` proves, for every request, every override and any number of
providers, from `OverridesAssumption`:

| Theorem | Property |
|---|---|
| `OverridesTypes` | `TypeOK` |
| `OwnOverride` | `SentIsOwnOverride` |
| `DisabledStays` | `DisabledStaysDisabled` |

The inductive invariant adds four parts: `ResolvedInv`, what the override of each
provider is after the layers merged so far; `OriginalInv`, that the object
`original` refers to says what the client asked for, after any number of overrides: this is
where `Clone` is needed, and what the change in place would break;
`ParamsInv`, that after `ApplyOverride` the parameters are the client's
under the override of the provider in hand; and `SentInv`, the same of what was
sent. The lemmas say what `Clone`, `Merge` and `Overridden` return.

`UsageStore_proofs` proves, for any number of requests, tokens, readers, restarts
and failing writes, from `StoreAssumption`, and the last three from `Long = {}`, which
leaves out the lines that end the scan (see `BadLinesAreSkipped` under Findings):

| Theorem | Property |
|---|---|
| `StoreTypes` | `TypeOK`, mutual exclusion included |
| `AnswersKept` | `AnswersAreKept` |
| `DamageLocal` | `DamageIsLocal` |
| `StopsKeep` | `StopsKeepAnswered` |
| `StoredAlwaysTold` | `StoredIsTold` |

Every step of the store ends the write of a record, begins one, or does neither
(`KindsOfStep`), and most of the argument needs no more. What readers are told
rests on `MemoryInv`: memory is ahead of the file by at most the record whose
request holds the lock, so that who holds it for reading sees only what is kept.
What survives rests on `WrittenInv`, which says of
each record in `history` that it stands on a line of its own, or that its write or
the one before it failed; it is kept up by `EndInv`, which says whose fault it is
when the file ends in the middle of a line. `PlaceInv` ties the handlers to
`history`: who is done has recorded, and a stop by signal leaves nobody between. It also says that
no reader outlives the process, so that a query always finds memory as
`DamageIsLocal` has it; `StoredIsTold` follows, since a log is an injection of as many
numbers as there are matching records (`LogIsComplete`), whatever their order.

`AnthropicPassthrough_proofs` proves, for streams of any length and any sets of
chunks, pieces, call indices and ids, reasons, usages and results, from
`EventsAssumption`, `AggregateAssumption`, `EncoderAssumption` and
`PassthroughAssumption` (empty and absent values are told from others; a chunk has
the fields of a chunk):

| Theorem | Property |
|---|---|
| `TypesHold` | `TypeOK` |
| `BlocksAreWellFormed` | `BlocksWellFormed` |
| `MessageIsFramed` | `MessageFraming` |
| `SearchComesBeforeText` | `SearchBeforeText` |
| `NothingIsLost` | `NothingLost` |
| `ToolDeltasReachTheirCall` | `ToolDeltasLand` |
| `MessageEndsAsRecorded` | `EndsAsRecorded` |
| `BothClientsGetTheSameMessage` | `SameMessage` |

The properties speak of the frames, the code keeps a few fields beside them; the
inductive invariant says what the fields tell of the frames:

* `Tracks`: every number below the next block's was started, no lower one is
  open, and if `blockOpen`, the frames have left the block `blockIdx` open, and it has
  the type in `blockType`. `Framed`: `messageStarted` and `messageDeltaEmitted` say
  whether those frames went out. `NothingToEnd`: nothing is kept for the end of a
  message that has not started. They hold until `[DONE]`, whose frames are looked
  at once. Each operator of the encoder has a lemma that it keeps them (`Good`),
  whatever it is called with, and `CoreInv` joins them to the types.
* `SearchInv` ties `injected` and `results` to the one result block.
* `MatchesInv` is `NothingLost` itself: by `CarriesEvent` each event with a
  payload adds one frame with content, and `KeepsContent` covers the others;
  the rank of the last of a set of positions is its size.
* `Conforms`, for an upstream that keeps to the order: what is pending is in turn
  and belongs to the last call (`PendingInTurn`); that call's block is the open
  one until the finish reason (`CallsInTurn`); the end comes once (`EndInTurn`);
  and what the encoder keeps of it is what the handler records (`EndAgrees`).
* `MirrorInv`, for `SameMessage`: at every point of the stream, and not just at its
  end, what can be read back from the frames is what the aggregate of the same
  events holds. For the pieces of text and reasoning (`MirrorsPieces`) that is so
  for every upstream. For the calls (`MirrorsCalls`) an upstream that keeps to the
  order is needed: the n-th call of the aggregate is the n-th block of a call, no
  two share a block, the deltas with the index of that block carry its fragments,
  no other block has any, and the encoder's map leads to that block
  (`CallsPlaced`). `EncodeAdds` says which frame an event adds, and `Quiet` that all
  others are read back as nothing. What the whole response makes of the aggregate
  at the end is computed in `WholeTells`, type by type, as a concatenation over its
  parts; `Conforms` says that the order of the events allows no other end
  (`EndMirrored`).

`StreamEvents_proofs` has the lemmas both modules need: of `DecodeOpenAIStreamLine`
the types of the events and their order in a line, of the aggregate what `Apply`
keeps, and of concatenations over a sequence (`FlatMap`) what the
proofs below need. `FlattenSeq` is
recursive; `FlattenUnfold` unfolds it from its definition by choice, with
`SetInduction`, an induction whose predicate is a set, derived from
`WFMin` of the library, since the provers take no operator for a parameter.
`FoldLeft`, which merges the events, is defined by a choice of a function on the
subsets of the positions: `FoldsSome` shows that there is one, `FoldsAgree` that
two of them agree, and `AggregatedAppend` that one more event is applied last.
`SameMessage` selects elements with `Where`, a concatenation, and not with
`SelectSeq`, of whose definition tlapm knows nothing.

`StreamModes_proofs` proves, from `EventsAssumption`, `AggregateAssumption` and
`ModesAssumption`, for streams of any length:

| Theorem | Property |
|---|---|
| `TypesHold` | `TypeOK` |
| `RoleIsFirst` | `RoleComesFirst` |
| `ContentAgrees` | `SameContent` |
| `TokensAgree` | `SameTokens` |
| `AnswersAgree` | `SameAnswer` |
| `CallsAgree` | `SameCalls` |

`SameTokens` is inductive with the types; the others are not:

* `Told` says of a set of chunks what `Tell` says of its positions, and that every
  rank is taken, so that the chunks tell one sequence only. One lemma says what
  another chunk does to it (`ToldAppend`), one what each event writes
  (`TakeWrites`). `RoleTold` ties `started` to the roles that were sent.
* `AnswerInv`: between two events, the finish reason and the usage are still
  pending or were taken, never both (`EndsInTurn`); the stream ends between two
  lines, and is complete if it says so (`StopsInTurn`); both have the same
  results (`ResultsAgree`); and `AnswerTold` is `SameAnswer` for the answer so
  far, where the footer counts once the finish reason is out.
* `CallsInv`: the pending events number the calls they start from the ones that
  are kept to the ones the upstream started, and extend only calls that have
  started (`Numbered`, which a line has by `LineNumbered` and its tail keeps by
  `NumberedTail`); the calls kept are numbered by their positions, and of each the
  id and the fragments were told in order (`CallsTold`). This is what makes the
  search for the last call with an index find the right one.

`Conversation_proofs` proves, for conversations of any length, any texts, images,
results, offers and answers, from `ConversationAssumption` and `ContentAssumption`
(what the constants are made of; `Empty` is no name and no id, and arguments that
were read once are not changed by a second reading). `AnswersComeBack` also
uses `SpeakersAssumption`: the first piece of a text tells whether the upstream
wrote it, with the footer below it, or a client, a tool or the operator. That is
a label of where a text came from, which the property needs to speak of the
upstream's texts among the others; no definition of the model of the code reads it.

| Theorem | Property |
|---|---|
| `ConversationTypes` | `TypeOK` |
| `RequestsHaveTools` | `CallsHaveTools` |
| `NothingIsLost` | `NothingLost` |
| `SpeakersKeepTheirWords` | `WordsKeepTheirSpeaker` |
| `ResultsStayWithCalls` | `ToolResultsFollowCalls` |
| `AnswersComeBack` | `WhatWasSaidComesBack` |

All of it rests on `FlatMap(h, s)`, the concatenation of `h` over `s`, which is what
the loops of the decoders and the encoder compute once their operators are written
as functions on the sets they are given (`Decode`, `Encode`). `FlatMapAppend`,
`FlatMapConcat`, `FlatMapTwice` (a concatenation over a concatenation is one over
the compositions) and `FlatMapType` are proved by the induction over sets of
`SetInduction`.

* `TypeOK` is inductive: what `Answer` adds is a message of the client's protocol
  (`AnthropicAnswerType`, `OpenAIAnswerIs`), what `Forward` sends is one of
  `SentMessages` (`UnroledType`, `ReRoleType`), message by message.
* `NothingLost` compares three concatenations, what is told by the history, by the
  canonical messages and by the upstream's. `EncodedTells` and `DecodedTells`
  (`EncodedResults` and `AnthropicResults`, `OpenAIResults` for the results) say that
  one message tells before its translation what its messages tell after it;
  `FlatMapTwice` carries that over to a history, and `ReRoleSays` and `ReRoleResults`
  over the re-roled message. `ResultWords` is about the mark that an error gets.
* `WordsKeepTheirSpeaker` needs to know that what the gateway is given does not end
  with a system message (`LastSpeaks`). The message that `ReRole` changes then comes
  from the client's last one (`LastEncoded`), and if it is the assistant's it is all
  that the last one becomes, so that no word before it changes its speaker.
* `ToolResultsFollowCalls` speaks of a request, but holds because of the whole
  conversation before it. `CallsOpenLast` says it of `SoFar`, what the history
  becomes on its way upstream: it is `Answered`, but for the calls of its last
  message, which are `Open`, when the client has been given calls and has not
  answered them. A turn keeps it: a message becomes its results, one each, and only
  then at most one message of its own, wherever in it the client wrote them
  (`Shape`); a client with calls pending gives the results of all of them
  (`ResultsGiven`), which closes what was open, and a message opens at most its
  own calls (`UnitAnswered`, `AnsweredConcat`).
  `ReRoleAnswered` adds that the last message may change its role.
* `WhatWasSaidComesBack` rests on `CameBack`, which compares the texts (`UpText`)
  and the calls (`CallsIn`) of `SoFar` with those of `said`. An answer keeps it by
  the round trip of one message through the encoder to the client and the decoder
  back (`AnthropicBack`, `OpenAIBack`), in which arguments are read twice
  (`ReparsedTwice`); what a client says adds nothing to it (`MuteThrough`,
  `MuteAdds`). `AsItReadsIs` turns it into the form the property has.

Only model-checked: every liveness property, since TLAPS has no rules here for
fairness and ENABLED. Every other property of the passing runs is a theorem.

## What is not covered

* Parsing and formatting of JSON, SSE, YAML and of the search footer: the
  models start from decoded chunks and lines that decode or do not. The same
  goes for `response_format`, stop strings and the schemas of tools, which the
  translation passes through.
* A line of a stream with both sources and choices: a line of the models has one of
  them. `NothingLost`, `SameContent` and the other properties of streams say
  nothing of it, and the code loses its choices (see Findings).
* What reading JSON into `any` makes of a text: `Reparsed` is a constant, any function
  for the streams, one that changes nothing twice for `Translation`.
* The headers a key may come in, and the route table.
* The sums of `SummaryUsage`: of its answer the number of records is left.
* A file system that loses or reorders what was written: the code does not
  sync, and promises nothing.
* Interleaved fragments of parallel tool calls for Anthropic clients: the
  encoder writes them to a block that was stopped, as Anthropic's protocol has
  one open block at a time. `ToolDeltasLand` assumes contiguous fragments.
* Clients that break their protocol (a call that is never answered): the
  upstream is told of it as it is.
* Slow clients: there is no read or write timeout, and nothing to promise.
