# Verification of pi-moe

pi-moe is a Go service and command line around an LLM agent: it answers a user's
message by talking to a chat provider, executing tools the provider asks for, and
keeping the conversation in an append-only session file. This directory models the
parts of it whose correctness depends on the order of steps: the goroutines of a
run, the channels between them, cancellation, the stream of a provider, the session file
under failing and interrupted writes, concurrent requests for one session, and the
metadata index that requests and processes share; what the client of a turn is told while
its context may end at any moment; one algorithm with many boundaries, the selection of
what fits the context window; and what the program makes of its inputs: flags, files that
are edited under it, and text a model wrote.

Paths below are relative to the repository root.

## The system

| Component | State it keeps | Operations | Hard to get right |
|---|---|---|---|
| Agent loop (`internal/agent/loop.go`) | the transcript of the run, the round, the batch of tool calls, an event channel of 64 | one goroutine per run: prepare, ask the provider, forward its stream, execute the calls, end | cancellation between any two steps; a full channel; part of a batch reported over the run context and part over a background context |
| Governed tools (`internal/agent/governed_tools.go`) | the request's tools, policies and approval gate | `execute`: authorisation, argument check, approval, timeout, status | the order of the checks, and which error becomes which status |
| Runtime (`internal/agent/runtime.go`) | whether a terminal event was sent, an event channel of 64 | one goroutine per run: forward, convert the terminal event, extract memory | exactly one terminal event, also when the caller is slow or the Agent's stream ends early |
| Context preparation (`internal/agent/context.go`) | none | select what fits the context window, at most one compaction | budgets and boundaries between turns |
| Session (`internal/session/session.go`) | transcript, summarized prefix, memory candidates, whether a turn is active | `Prompt`, `Cancel`, `runPrompt` | the transcript in memory, on disk and as told to the caller must agree after every failure |
| Session file (`internal/session/storage.go`) | a JSONL file, the position of the next append | `appendRun`, `load` | interrupted writes; the leaf that commits a turn |
| Session service (`internal/application/service/session.go`) | a run lock per session | `Run`, `Stream`, `Create`, `List`, `Get`, diagnostics | requests for one session side by side, clients that go away, which provider a run gets |
| Handlers (`internal/application/handler`) | the event being written | `Run`, `Stream`, diagnostics | a reply put together from events that may have been dropped |
| Memory extraction (`internal/agent/llm_memory_extractor.go`, `memory.go`) | none | `Extract`, decoding and validation | part of a response taken for the whole |
| Metadata store (`internal/session/manager.go`, `internal/storage/postgres`) | the index of sessions | `Create`, `Resolve`, `List`, `Touch`, `UpdateConfig` | two processes on one index file |
| Providers (`internal/llms`) | the deltas of one stream | `ChatStream` | a goroutine that sends while nobody reads |
| Configuration and assembly (`internal/config`, `internal/agent/configured.go`) | none: the providers file is read for every decision | `Load`, `LoadApp`, `NewConfiguredRuntime` | a file that changes between two readings |
| Server and command line (`cmd/server`, `cmd/cli`) | their options; the open session of the command line | parsing, opening the store, collecting the output of a run | flags, an app config and the environment, each of which may make another needless |
| Tools (`internal/tools`) | the registry | `Register`, `Call`, the calculator | arguments that are decoded twice, by different rules |
| Routes, logging | none | | |

A request goes down this chain and its events come back up: service → Session →
Runtime → Agent → provider and tools. Each `→` is a goroutine and a bounded channel,
and one `context.Context` runs through all of them. Each layer decides for itself what
to do when that context ends while its channel is full.

## Modules

| Module | Models | Correspondence |
|---|---|---|
| `AgentLoop` | `stream`, `streamAssistantMessage`, `execute`, `emitEvent`, `emitCancellation` | `pc` is the program point of the goroutine; each emit, each early return and each wait is a step; `stream` is the buffered channel; `messages`, `calls`, `round` (`chatRound`), `canceled` (`batchCanceled`) are the code's locals. Provider, executors, gate and context policy choose freely among the outcomes the code distinguishes |
| `Transcript` | the messages of `message.go`: which sequences pair calls with results (`Paired`), and the validator message by message (`Accepted`) | `AfterMessage` is one turn of the loop of `toLLMMessages`, its state the pending calls |
| `RuntimeRun` | the goroutine of `Runtime.Run`, `emitRuntimeEvent`; extends `AgentLoop` | `rpc` is its program point, `held` the events it must send before it reads again, `out` its channel; `received` is a caller that rebuilds the transcript as `session.go` does |
| `TranscriptFile` | the lines of the session file, what interrupted writes leave, `loadSessionState`, `messagePathToLeaf` | an entry is identified by its position; `parent_id` is `parent`; a leaf names an entry and a summary |
| `ConversationLog` | nothing in the code: the abstract promise of a durable session | `log` only grows, by one whole turn at one instant; `told` only holds committed turns |
| `SessionTurn` | `Prompt`, `Cancel`, `runPrompt` with its deferred cleanup, `appendRun` write by write, crash and reopening; extends `TranscriptFile`; implements `ConversationLog` | `session` is the object, `store` its `fileStore`, `run` the locals of `runPrompt` |
| `SessionService` | `Run`, `Stream`, `lockSessionRun`, `forwardStreamEvents`, `persistRunSuccess`, with one Session goroutine per request; extends `TranscriptFile` | `handler` is the request, `prompt` its Session's goroutine, which may outlive it |
| `ContextPrepare` | `contextPolicy.prepare` in the rounds of a run; extends `Transcript` | `from` is where the projection starts, `condensed` and `candidate` what the compactor gave and what it replaces; `pc` separates the steps between two estimates. Tokens are weights that add up; the estimator may fail anywhere, the compactor may return anything |
| `ProviderStream` | the goroutine of `ChatStream`, the merging of tool-call fragments, and the reader of its channel (the Agent or `CollectChat`) | `wire` is what was read of the response, `role`, `content` and `toolCalls` are the goroutine's locals, `pending` the event its blocked send holds |
| `SessionMetadata` | nothing in the code: what a metadata store promises | `rows` changes by one whole creation or one named override at a time |
| `SessionIndex` | `Create`, `Resolve`, `Touch` and `UpdateConfig` of the file store and of the PostgreSQL store, under the service's requests and the command line; refines `SessionMetadata` | `index` is the file's list of entries (or the table), `mutex` the Manager's, `runLock` the service's; `job` is what a request has read and is about to write |
| `RunReport` | what a client learns of its turn: `runPrompt`'s channel, `forwardStreamEvents` with `sendStreamEvent` and the handler of `Stream`, `collectRunResult` with the handler of `Run`, `collectRunOutput` of the command line | `session` is the Session's goroutine with the event in its hand, `reader` the locals of the loop over its channel, `handed` what the handler has taken and not yet written, `told` what went to the client |
| `Startup` | `parseServerOptions`, `loadServerAppConfig`, `LoadApp`, `validateServerOptions`, `openServerSessionStore`, and `parseCLIOptions` with its validation | `opened` is the store with its DSN as the steps settle it |
| `RunSetup` | from a request to its runtime: `resolveRunConfig`, `ensureProviderConfigured`, `NewConfiguredRuntime`, `defaultSessionConfig`, `CurrentProviderDiagnostics`, `newCLISessionWithStore`, `persistRunSuccess`, while the providers file is edited | `request.at` is the point between two readings of `file`; `stored` is the provider in the session's metadata |
| `ModelOutput` | `newGovernedToolSet`, `validateToolArguments`, `validateJSONSchemaValue`, the calculator's second decoding; `collectMemoryExtractionResponse`, `decodeMemoryCandidates`, `validateMemoryCandidates` | a text is the sequence of JSON values it holds, an object the sequence of its pairs as written |
| `AgentProofs`, `ContextPrepareProofs`, `TranscriptFileProofs`, `SessionTurnProofs`, `SessionServiceProofs`, `RunReportProofs`, `SessionIndexProofs`, `InputProofs` | theorems about the module they are named after (`AgentProofs`: about `AgentLoop` and `RuntimeRun`; `InputProofs`: about `Startup`, `RunSetup`, `ModelOutput` and `ProviderStream`; `TranscriptFileProofs`: lemmas for the two after it) | |

`MCInputs` runs `Startup`, `RunSetup` and `ModelOutput` side by side: they share no state,
a behaviour is of one of them, and the other two rest.

`MC…` modules give the constants values for TLC. Operators introduced by a comment
"Mutant of X" are wrong versions of X; they are not part of any specification and show
what each property would catch.

### Abstractions

- A tool call is its name and position. Message text, identifiers, digests and
  timestamps are left out: nothing that is checked depends on them.
- `ctx` is "live" or "done": `Canceled` and `DeadlineExceeded` are handled alike.
- `emitEvent` looks at the context and then selects between the channel and the
  context. `inSelect` says that the first look has passed, so that an event may still
  go out after the context ended, or be lost although there is room.
- An error is "cancel" when `isCancellationError` holds of it, otherwise "plain".
- In `SessionTurn` the Runtime is the environment. It sends what `RuntimeRun` shows of
  it: completion only after an answer (`CompletedIsWhole`), failure or cancellation at
  any time, and no terminal event only once the context is done (`SilentEndMeansOverflow`).
  `RunReport` takes the same Runtime, and makes one failure of the three ways to fail,
  which its readers do not tell apart.
- `SessionTurn` runs with and without damage to its file; `Undamaged` names the instances
  without it, those the proofs are about.
- In `ContextPrepare` a message weighs one and each of its calls one more; the text of the
  prompt, the memory and the tool schemas has one weight, `Fixed`. The approximate
  estimator is additive in the same way; an estimator of the caller's that is not is
  outside `LongestFittingSuffixIsSent` and `BudgetErrorIsForced`.
- In `ProviderStream` the text of a fragment is the number of the payload it came with,
  and the arguments of a call are pieces of which some sequences make valid JSON.
- In `SessionIndex` a value of a preference is the request that chose it. The `current`
  pointer of the index is left out: nothing reads it. `newSessionID` is taken never to
  repeat (it is the second and three random bytes).
- In `RunReport` the arguments of a call, and its result, are the number of the call in
  the turn, so that a mix-up shows; identifiers are given by the provider and may repeat.
  Whether an event can be encoded as JSON, and whether a write to a client that has gone
  fails, are left out: the handler ignores both.
- In `Startup` names of stores are in the normal form the code gives them before each
  comparison; addresses, directories and log settings are left out.
- In `RunSetup` a provider is its type, whether its settings are complete and whether its
  key is in the environment. The YAML reader lower-cases the keys of the file, so a
  provider can only be found under a lower-case name; that is an assumption on the
  `Files`, not a step.
- In `ModelOutput` numbers are their text and whether they fit the types they are decoded
  into; `items` of a schema is not looked at by the code, and so is not there. Results of
  the arithmetic are left out, its operands are not. The lists of a schema (`enum`,
  `required`) are all Go lists or all JSON lists: `lists` says which of a whole tool, not of
  each level. `Conforms` goes through a value level by level, down to `Depth`, where the
  code calls itself. An object, of arguments or of a response, is the sequence of its pairs
  as written, with repeated keys and keys that differ in case; decoding keeps what Go's
  decoder keeps of them. The decoding of a response into the envelope is written in a closed
  form (`ListsFor`, `FieldText`): of each field the last text that was written, in a list
  that no empty list follows.
- In `SessionService` a turn is two messages; what happens inside one is `SessionTurn`'s.

## Runs

| Run | Configuration | Bounds | Shows |
|---|---|---|---|
| `agent_loop` | `AgentLoop.cfg` | four kinds of tool names (free, with approval and timeout, known but not allowed, unknown), 1 tool round, 2 calls, 1 delta, a channel of 2 | every property of one run below |
| `runtime_run` | `RuntimeRun.cfg` | one tool that needs approval, with and without a gate, channels of 2 and 1 | the forwarding |
| `context` | `ContextPrepare.cfg` | every transcript of up to 3 messages and some of 4, and up to 3 turns of history; windows, reserves and margins on both sides of the boundaries; 2 further rounds | the selection, and the validator against `Paired` |
| `provider_stream` | `ProviderStream.cfg` | 15 kinds of payload, up to 4 in a response | one streamed answer |
| `session_turn` | `SessionTurn.cfg` | a session with one turn, 2 more turns of up to 4 messages, failing writes, one crash | the session and its refinement of `ConversationLog` |
| `service` | `SessionService.cfg` | three requests, one of them a stream | the run lock and what it protects |
| `session_index` | `SessionIndex.cfg` | two requests of a server and one command; two sessions at first, two preferences; both stores | the metadata index and its refinement of `SessionMetadata` |
| `run_report` | `RunReport.cfg` | turns of up to two rounds of no, one or two calls with two identifiers, one delta a message, a channel of 2; all three ways to ask | what the client is told |
| `inputs` | `Inputs.cfg` | every combination of flags, app config and environment; 7 provider names and 8 providers files; 12 tool sets and a few hundred texts of arguments, some with an object in an object (`Depth` 2); a few hundred extraction responses, some with lists and fields written twice, with a limit of 2 candidates | what the program makes of its inputs |
| `session_first_run` | `SessionFirstRun.cfg` | a new session | violated: `OnlyWholeTurnsRecovered` |
| `session_oversized` | `SessionOversized.cfg` | lines of tool results over 1 MiB | violated: `CommittedIsLoadable` |
| `service_serial` | `ServiceSerial.cfg` | as `service` | violated: `LeafAdvancesSerially` |

Deadlock is not checked: every one of these systems is meant to stop (a run ends, the
bounded number of turns or requests is used up).

### Why the bounds are enough

Two calls are the fewest with a call before and after a cancellation; one tool round
with `MaxSteps = 1` reaches both sides of the comparison with `maxSteps`; channels of one
and two events are full at every emit in some behaviour, which a channel of 64 is as well,
later. Two turns after a first one give every turn a predecessor and a successor in the
file, and one crash can fall between any two writes of either. Three requests let one
wait while another holds the lock and a third has given it back early.

For context preparation what matters is which side of each comparison a number is on: the
weights of the turns (2 and 5) and windows from 0 to 40 put every sum below, at and above
every budget, and reserves and margins larger than the window reach the saturation. Three
turns of history are one to prune, one to prune or keep, and one that is never pruned.
Four payloads let a call arrive in two pieces with another call between them and end with
a marker; a channel of one needs two sends to block. For the index, two requests in one
process race for its mutex and the third worker is the other process that has none of it;
two sessions tell a lost update of another session from one of the same, and two
preferences a lost preference from an overridden one.

For the report two calls with one identifier, in one message and again in the next, are the
fewest in which arguments, steps and results can be taken for each other's; the channel of
two is full at the terminal event in some behaviours and empty in others. Up to three lists of candidates in a response, of no,
one or two items that say all, nothing or one field, give each list one to replace, to merge
with and to clear. The providers
files have a default that is found, in capitals, without a key, between blanks, of an
unknown type and missing, and one file that cannot be read: each rule by which the
readings could differ tells two of them apart. The objects of arguments hold every subset
of the calculator's fields with every type of value, and one more key, before or after
them, that repeats one or differs from it in case only.

### What the properties say

`AgentLoop`:
- `TerminalIsLast`: `Error` or `RunEnd` is the last event, also when `emitCancellation`
  makes room in a full channel.
- `CallsResulted`: whenever the provider is asked, calls and results of the transcript pair
  up, and when the run is over a call without a result means that the context ended or
  that a tool reported a cancellation of its own.
- `CancellationEndsBatch`: after a canceled result only skipped ones follow, and no round.
- `GovernedExecution`: an executor runs only for an allowed tool, after the approval of
  this very call where one is needed.
- With fairness, `CancelStopsRun`: the goroutine of a canceled run ends, whether or not its
  stream is read, or is blocked in one place that `Stuck` names.

`RuntimeRun`: `OneTerminal`, `CompletedIsWhole` (a caller told "completed" holds the run's
transcript exactly), `SilentEndMeansOverflow` (the one way to end without a terminal
event), `ForwardingEnds`, and `AgentGoroutineEnds`: the Agent's goroutine ends behind it,
with the same exception, which needs a `Runtime` that has left its loop.

`SessionTurn`: `IdleMatchesDisk` (between turns memory equals what a new process would
load), `SummaryEndsATurn`, `MemoryIsCommitted`, `ImplementsLog` (a turn told as completed
is on disk, whole, and stays) and `CancelFreesSession`.

`SessionService`: `LoadsWholeTurns` (also when turns overlap), `LockCoversTurn`,
`ViewOnlyGrows` and `DoneIsKept` (as long as no streaming client has gone away), and
`EveryRequestEnds`.

`ContextPrepare`: `OrderAgrees` (the validator accepts exactly the paired transcripts),
`PreparedIsPaired` (nothing that is left out separates a call from its result),
`LongestFittingSuffixIsSent` (answer and margin have room, and no turn is left out that
would have fitted), `SentOrReplaced` (a compaction loses no message) and
`BudgetErrorIsForced` (it gives up only where the newest turn of the history, the current
turn and the summary cannot fit together).

`ProviderStream`: `AnswerIsWhatWasStreamed` (an answer is what the reader was shown, from a
stream that said it was complete) and `EndsUnlessStuck` (the stream ends with an answer or
an error, or because its reader left; or a reader has left the goroutine blocked on a full
channel).

`SessionIndex`: `ImplementsStore` (each change of the metadata is a whole step of
`SessionMetadata`, of a session of the requester's and in nothing the request does not
name, except for a worker that another process has overtaken between its read and its
save: `disturbed` is a history variable that records this) and `EveryRequestEnds`.

`RunReport`: `ToldInOrder` (a stream is, at every moment, the turn as it happened up to
some point, each call with its own arguments and result, and nothing follows a terminal
event; where a message gives one identifier to several calls, the arguments, and they alone,
are excused), `DoneTellsTheTurn` ("done" stands for a turn that is committed and recorded, with
its last text and all its steps, with the same excuse, also when events were dropped on the
way),
`AnsweredUnlessGone` (a client that is still there is told the outcome) and `ReportEnds`.

`Startup`: `StartsAsTold` (a flag wins over the file, a file or a variable that is not
needed stops nothing, and PostgreSQL is opened with a whole DSN only).

`RunSetup`: `ReadyMeansRunnable` (while nobody edits the file, a server that calls its
provider ready refuses no run that is left to it), `RescuedByName` (naming a provider the
file has always gets a session running) and `ProviderFollowsRuns` (a session changes its
provider only by a completed run that named it and ran on it).

`ModelOutput`: `CheckedIsWhatRuns` (an executor runs for one JSON value that is right for the
schema of the one tool of its name, and so are its parts at every depth: the type, also of
numbers and texts, the listed values, what is required, and no undeclared key of a closed
object; `RightFor` says this without the check's own operators. The calculator computes with
the values that were checked, unless a key that differs in case hides one) and
`CandidatesAreTheWholeResponse` (candidates are complete and say nothing that the item in
their place does not say; of a response that writes no field twice they are all its items, in
order, with all they say).

The types of the variables are an invariant of `AgentLoop`, and elsewhere a conjunct of the
first invariant of a module or of its refinement property.

### Fairness

The scheduler runs every goroutine that can take a step: weak fairness of the run's, the
Runtime's and the Session's own steps. Executors and the gate receive the context, and
are assumed to answer once it is done; the provider is not assumed to say anything in
`CancelStopsRun`.
The caller of `Runtime.Run` is assumed to read its channel where a property is about what it
learns; the Session, which is this caller, does. The reader of the Agent's stream is not
assumed to read in `CancelStopsRun`: `Runtime.Run` leaves its loop when an event in its hand
loses to a done context (`runtime.go:135`). What it does read is in `FairRuntimeSpec` of
`RuntimeRun`, where it is a step of the Runtime. A Go channel hands its value to the receiver
that has waited longest, hence strong fairness of taking the run lock. The provider's
client has a timeout that covers the response body (120 s by default), so a read returns;
its reader reads on or leaves. In `SessionIndex` a request may give up at any point where
the code looks at its context or can fail, but never has to, and the mutex, which no
context interrupts, is never given up on. In `RunReport` the Session's goroutine, the
reader of its channel and the handler each run on; the fairness of the Session's steps
includes that the run ends, which `RuntimeRun` shows of a context that ends and the
timeouts of provider and tools of one that does not, and that of the handler that a write
to a client returns, as the server's connection does when the client has gone. Liveness
under crashes is not claimed.

## What the code does differently from its words

Each violated run states a sentence of the repository that the code does not keep:
- A first append that stops half way leaves a transcript that the next process restores
  (`storage.go:194`), with a call that has no result in the worst case: every later prompt
  is then refused by the Agent.
- A message whose JSON line is over 1 MiB is committed and can never be loaded
  (`storage.go:152`). With `CanTear = TRUE` the same property also fails for a line cut
  off by a crash.
- A streaming client that goes away releases the run lock while its turn still runs
  (`service/session.go:504`).

Where each of the three sentences does hold is proved: for a session that has committed a
turn (`RecoversWholeTurns`), while lines are whole and none is too long (`CommittedLoads`),
and while no streaming client goes away (`SerialUnlessAbandoned`).

More observations follow from the models without a run of their own.

A slow caller whose context ends gets a stream without a terminal event
(`runtime.go:150`), where the comment on `Run` says exactly one (`runtime.go:89`);
`SilentEndMeansOverflow` says when. A tool whose executor returns `context.Canceled` or
`DeadlineExceeded` of its own cancels the whole run although the Run context is live
(`governed_tools.go:396`), where `ToolResultCanceled` is said to mean the Run context
(`governed_tools.go:31`); `CallsResulted` excuses it.

A client that is slow and whose context ends while an executor runs can leave the Agent's
goroutine behind for good: the Runtime returns with an event it could not send
(`runtime.go:135`), and the events of the canceled batch are sent over a background context
(`loop.go:170`, `loop.go:198`) to a channel nobody reads. It takes a full channel of 64
events; `Stuck` in `AgentLoop` and `AgentGoroutineEnds` say that there is no other way.

A response of the memory extraction that has its list, or a field of an item, twice or in
another case is not refused (`llm_memory_extractor.go:165`): a later list replaces the one
before, and an item that leaves a field out keeps that of the item that was in its place. A
candidate can thus be put together of two items; `WrittenOnce` in
`CandidatesAreTheWholeResponse` makes the exception.

A `ToolStep` is said to be one call, with its arguments and its result
(`service/session.go:127`). Of two calls with one identifier in a message, which nothing
refuses, the first is shown with the arguments of the second (`service/session.go:647`, and
L586 for a stream): `ArgsShown` in `RunReport` takes the call's own arguments, and makes the
exception for a message that repeats the identifier.

`Create` does not look up the provider it stores
(`service/session.go:264`), and an unreadable providers file is put down to the session's
choice of provider (`service/session.go:349`). The diagnostics use the server's provider
name as it was given, while a run trims it, so that a name between blanks is diagnosed as
missing and runs; a name with capitals never matches, since the keys of the file are
lower-cased. A missing key is reported by the diagnostics and is no error when the runtime
is built. A key of the arguments that differs in case only overrides the value that was
checked (`calculator.go:56`), which is why `ComputesWhatWasSaid` makes that exception. With
`--session-store=postgres` and an app config whose store is a file, no DSN is put together
and the process refuses to start.

The provider
goroutine looks at no context while it sends: a run that ends with the channel full leaves
it blocked with its response open (`openai_compatible.go:131`, `Stuck`). Two processes on
one index file save over each other, so that a session just created can vanish from the
index (`manager.go:219`), and a preference that another process changed during a turn is
written back to what it was before, with either store (`service/session.go:373`): these
are the steps that `ImplementsStore` excuses. The caller that
stops reading while the Runtime sends its made-up terminal event blocks that goroutine
forever (`runtime.go:166`; `ForwardingEnds` assumes a caller that listens), and the report
of an approval decision may be lost while the approved tool executes
(`governed_tools.go:371`).

## Proofs

Every safety property of the passing runs, each invariant, action property and refinement,
is a theorem, for every value of the constants. The proofs use the named assumptions of
these modules, and, for `SessionTurn`, one hypothesis. All of them follow the same scheme:
an inductive invariant, one lemma for each action or group of actions, and a last temporal
step.

### Agent and Runtime

About `AgentLoop`, `AgentProofs` proves, for every set of tools, every policy and every bound, from
`ToolAssumption` and `BoundAssumption`: `TypeCorrect` (`Spec => []TypeOK`), `TerminalLast`,
`Governed`, `NoCallUnanswered` (`CallsResulted`) and `CancellationEnds`
(`CancellationEndsBatch`).

- `TypeOK` and `TerminalIsLast` are inductive (the latter with `TypeOK`): as long as the
  channel is open there is no terminal event in it, and the steps that add one close it.
- `GovernedExecution` is not inductive: `GovernedInv` adds what each program point on the
  way to the executor already knows about the call.
- `CallsResulted` speaks of three program points, `BatchInv` of all: within a batch the
  calls before `idx` have their results (`OpenBatch`), elsewhere the transcript pairs up,
  and only a done context leaves a batch early. That an answer opens a batch, that a result
  extends it and that the last one closes it are the lemmas `BatchOpens`, `BatchGrows` and
  `BatchCloses`, about sequences alone.
- `CancelInv` adds to `CancellationEndsBatch` that a canceled batch is marked as such, and
  that the outcome of a call in it is "skipped" before its end is reported.

About `RuntimeRun` it proves, for every capacity of the two channels and also from
`RuntimeAssumption`: `AtMostOneTerminal` (`OneTerminal`), `SilentOnlyOnOverflow`
(`SilentEndMeansOverflow`) and `CompletedMeansWhole` (`CompletedIsWhole`).

- `PipeInv` follows an event from the Agent's channel through the goroutine's hand to the
  caller. `HeldEndsRun` says what the goroutine may have in hand: a terminal event is the
  last of it, and only once the Agent's run is over and read to its end. This is where the
  Agent's `TerminalIsLast` is needed.
- `WholeInv` follows the messages. `Carries(events, a, b, m)` says that the events report
  the messages `a + 1` to `b` of `m` and nothing else; `InFlight` chains the caller's
  transcript, its channel, the goroutine's hand and the Agent's channel into the Agent's
  transcript. The chain may break when a run is canceled or fails, which drops events; a
  run that gets to its `RunEnd` has never dropped one. That the transcript ends in an
  answer with nothing open needs the Agent's `BatchInv`.

### Context

`ContextPrepareProofs` proves, for every window, reserve and margin, every set of
transcripts and every number of rounds, from `ContextAssumption`: `ContextTypeCorrect`
(`Spec => []TypeOK`), `ValidatorMatchesOrder` (`OrderAgrees`), `OnlyWholeTurnsSent`
(`PreparedIsPaired`), `NoTurnCutNeedlessly` (`LongestFittingSuffixIsSent`),
`NothingLostInCompaction` (`SentOrReplaced`) and `BudgetRefusalIsDue`
(`BudgetErrorIsForced`).

- `PreparedIsPaired` is not inductive: `IInv` adds that the transcript itself pairs up, has
  a user message and is cut only at its start or at a user message. A suffix of a paired
  transcript that starts at a user message is paired, and a round adds a batch that is
  paired by itself; these two lemmas carry the proof.
- `Chosen` adds to the two properties of the selection what holds while turns are pruned:
  the cut is at a turn, and each earlier cut would have gone over the budget. A step of
  pruning skips no cut, and the current turn without any summary, which is checked first,
  never weighs more than a longer projection (`LongerWeighsMore`). A projection weighs at
  least one, so a budget it fits in has not been used up by the deductions (`BudgetMeans`).
- `OrderAgrees` is about a loop. `Found` is the loop's invariant: the results seen stand
  where they must, and the pending identifiers are the calls of the last assistant message
  that have none. `FoundMore` shows that a message that is not refused keeps it, and
  `PairedGoesOn` that a paired transcript is never refused. The proof needs that only
  assistant messages ask for calls, as the Go types have it (`MessageType`).

### Session and its file

`TranscriptFileProofs` has what the next two share: the thread of an entry (`ParentPath`,
`Thread`) follows the parents, appending a line leaves every thread as it was, and a sound
file stays sound with a line that fits (`SoundStep`, `LeafStep`, `LoadSound`).

`SessionTurnProofs` proves, for every number and length of turns, every number of crashes
and failing writes anywhere: `IdleAgrees` (`IdleMatchesDisk`), `PrefixOfWholeTurns`
(`SummaryEndsATurn`), `CandidatesCommitted` (`MemoryIsCommitted`) and
`SessionImplementsLog` (`ImplementsLog`), and, of the properties that other instances
violate, `CommittedLoads` (`CommittedIsLoadable`) and `RecoversWholeTurns`
(`OnlyWholeTurnsRecovered`), all under the hypothesis `Undamaged`; the last also asks that
the messages found at the start pair calls and results.

- `Undamaged` says that the file found at the start has committed a turn, that a line is
  written whole or not at all, and that lines can be read back. Without any of the three
  `ImplementsLog` is false, and without the second or the third so are `IdleMatchesDisk` and
  `MemoryIsCommitted`: TLC finds the counterexamples with a new file, with `CanTear = TRUE`
  and with `OversizedRoles` of `SessionOversized.cfg`. The constants of the passing run
  satisfy it, which `UsedFileIsUndamaged` in `MCSessionTurn` has TLC evaluate.
- `SessionInv` says of each point of a turn what memory, store and file have in common:
  `DiskInv` relates the file to the latest leaf (what comes after it is not committed and
  disturbs no thread), and `Phase` says how far the turn has been written, so that the line
  of the leaf commits all of it at once and a rollback returns to what is committed. The
  crash is the easy case: a new process starts from the file alone.
- The refinement has one step that is no stutter: writing the leaf appends one whole turn
  to the log, and the report that follows it names a turn of the log (`LogStep`). The log
  thus stays one that can be sent (`ViewStaysAcceptable`), which `RecoversWholeTurns` uses.

`SessionServiceProofs` proves, for every number of requests and from `ServiceAssumption`:
`LockCovers` (`LockCoversTurn`), `FileStaysWhole` (`LoadsWholeTurns`), `DoneStays`
(`DoneIsKept`), `NoTurnLost` (`ViewOnlyGrows`) and `SerialUnlessAbandoned`
(`LeafAdvancesSerially` while no streaming client has gone away). `ServiceAssumption` has the first and
the third part of `Undamaged`, of files with whole turns; torn writes are not part of this
module.

- `LockInv` adds which requests have the token, that a turn has not begun before its
  request starts it and is over once its verdict is out, and that a request waits for the
  turn it started unless its client went away.
- `FileInv` holds also when turns overlap: each append builds on an entry that ends whole
  turns, and has its own lines so far, whatever lines of others are in between. Hence a leaf
  always commits whole turns, though maybe not those of a request beside it.
- `CommitsOnLeaf` and `ToldAfterCommit` hold as long as no streaming client has gone away:
  what a request opened is still what the latest leaf commits, so its leaf extends it.

### Metadata

`SessionIndexProofs` proves `StoresImplementMetadata` (`ImplementsStore`), for both stores,
any number of requests and of processes, and from `IndexAssumption`.

- In `IndexInv` the mutex makes the copy that a request is about to save the index itself
  (`CopyIsCurrent`), and the run lock the configuration that a run writes back the one that
  its session has (`ConfigIsCurrent`), both for workers no other process has overtaken.
  `HasMutex` and `HasRunLock` are mutual exclusion: two requests between reading and writing
  would be one. A creation needs neither, for nobody else knows its identifier (`Unmet`).
- That an update or a creation of entries is the one of rows in `SessionMetadata` are the
  lemmas `UpdatedRows` and `CreatedRows`.

### What a client is told

`RunReportProofs` proves, for every capacity of the Session's channel, every set of batches
and every number of rounds and pieces, from `ReportAssumption`: `ClientIsAnswered`
(`AnsweredUnlessGone`), `ToldAsItHappened` (`ToldInOrder`) and `DoneTellsAll`
(`DoneTellsTheTurn`).

- `AnsweredUnlessGone` speaks of the end; `ReportInv` says why the end is reached only in
  this way. `OutcomeIsThere`: when the Session has closed its channel, the outcome of the
  run is the last event in it, or the request is over, so that the loop of a stream cannot
  come to the end of the channel with nothing to say. `TerminalIsLast`: what has been told
  once is not told again. `RecordedForDone`: from the moment the use is recorded only "done"
  can be on its way, which is why an error means that it was not. `StopsForAReason` ties the
  end of the loop to what the handler still holds.
- `ArgumentsAreRight` is where identifiers matter: the one call of a message with an
  identifier is the last one with it, so that what is remembered is the call's own.
- The types need that a batch of calls makes events of the known kinds, which is a fact
  about flattening a sequence (`FlatSeq`).
- `TellInv` is about order, and goes through the whole pipe. `Ordered` says what the events of
  a turn look like: a call begins after the message that asks for it, with an identifier and
  arguments of this message (`Lists`), and ends before the next begins. `Heard` says that the loop of the reader
  stands after some number `c` of events of the turn: `Passed(c)`, what it has not read is
  in the channel or in the Session's hand, and a gap comes only with the context, after
  which nothing but the outcome goes out; `Reads(c)`, its steps and its arguments by
  identifier are those of the first `c` events; `Speaks(c)`, what the client has, what the
  handler holds and what the loop is about to send are together exactly what these `c` events
  say. That a dropped event is never followed by another of the turn is why `ToldInOrder`
  holds when the context ends at any moment.
- `Concludes` and `DonesAreTrue` carry the end: a run that is said to have completed has its
  answer and is committed (`Finished`), and while the context lives no event before the
  outcome is missing, so that "done" is said only after all of them; `LastWord` says that
  nothing comes after it. That one event adds one step, or the result to the last, are
  lemmas about sequences alone (`LastBecomes`, `Replaces`).

### Inputs

`InputProofs` is about four modules that share nothing but lemmas on sets and sequences.

From `OutputAssumption` and `ResponseAssumption` it proves, for every set of tools, schema, text and depth:
`CheckedRuns` (`CheckedIsWhatRuns`) and `CandidatesAreWhole`
(`CandidatesAreTheWholeResponse`).

- `OutputInv` adds what a call has passed when it is executed (`Passed`: the tools were
  accepted as a set, the name is the name of one of them, the arguments conform), and that
  the calculator computes with `Operands`. A name stands for one declared tool because a set with two of a
  name was refused; what conforms is right in all its parts
  (`CheckedIsRight`, `PassedConforms`). The last value for a field is the one that was checked, if no key but
  the field's own decodes into it, for a checked object keeps the last of equal keys as well
  (`OperandIsChecked`).
- The candidates are an invariant by themselves: decoding is one step that takes all of the
  response or nothing. `ReadWasSaid` shows that a text that is read is written in that field
  of that item, `SaidIsRead` that where no field is written twice every text written is read,
  and `CountIs` that no item is made up.

From `PayloadAssumption` it proves, for every set of payloads and any number of them, of
calls and of pieces of their arguments: `AnswerWasStreamed` (`AnswerIsWhatWasStreamed`).

- `Tells(F, text, calls)` relates the events `F` to what the goroutine has merged: the text
  of the events is the text, for each index the pieces in the events are the arguments of the
  call, every index has its call, and a call of which no event tells is blank. `ToldMore` shows
  that an event more and its fragments merged keep this: merging is by index and pads with
  blank calls, in whatever order the fragments come (`MergeOneIs`, `MergeMerges`).
- `StreamInv` says that this holds of the events the reader has taken, the one in the channel
  and the one in the goroutine's hand (`Shown`). `HandInv` and `ChannelInv` say that an event
  that ends the stream is true of the payloads read (`Terminal`) and that nothing comes after
  it. When it is received, channel and hand are empty, so what was shown is what was merged,
  and valid calls leave no blank one to drop (`NoCallLeftOut`).

About the configuration, `InputProofs` proves, for every set of names, files and services, every way to trim that is
idempotent, and any number of requests and edits: `ReadyRuns` (`ReadyMeansRunnable`),
`NamingRescues` (`RescuedByName`) and `SessionFollowsRuns` (`ProviderFollowsRuns`), from
`SetupAssumption`; and `StartedAsTold` (`StartsAsTold`) from `StartupAssumption`.

- The first three follow from one inductive invariant, `SetupInv`. `RequestShape` ties the
  point a request has reached to its kind and its answer; `NamedIsResolved` carries the name
  of the request through resolution and building, where the file is read again;
  `ReadyIsKept` says that a file that was ready, and was not edited, is one the runtime can
  be built from, which relates three readings by three rules. `ReadyIsBuildable`,
  `OverrideIsWanted` and `LeftToReady` are those relations without the steps.
- `StartupInv` adds what stands between the steps, above all where a DSN comes from.

### Recursive definitions

What a recursive function computes is proved by a least counterexample: a nonempty set of
numbers has a least element (`LeastNat`, `SmallestNumber`, `FirstNumber`), so a statement that holds of 0
and passes from `k - 1` to `k` holds of every number. `StepsExist` shows in this way that a
value computed from the one before it exists for every number, which gives the functions
inside `Accepted` and `Total` their equations (`AcceptedByState`, `TotalIsSum`);
`ChainsExist` does the same for `ParentPath`, `FlatExists` for `FlattenSeq`, and
`MergesExist` for the merging of fragments.

### Only model-checked

- The liveness properties, which need fairness: `CancelStopsRun`, `ForwardingEnds`,
  `AgentGoroutineEnds`, `CancelFreesSession`, both `EveryRequestEnds`, `EndsUnlessStuck` and `ReportEnds`.

Of a session file that can be damaged, where `Undamaged` does not hold, nothing is proved:
`SessionFirstRun.cfg` and `SessionOversized.cfg` show what then goes wrong.

## Plan

1. `AgentLoop`, `RuntimeRun`, `TranscriptFile`, `SessionTurn` and `SessionService`;
   `Transcript`, `ContextPrepare`, `ProviderStream` and `SessionIndex`; with their runs
   (done).
2. The tool set, the schema check and the memory candidates (`ModelOutput`), the report of
   a turn to its client (`RunReport`), the choice of provider and store (`RunSetup`,
   `Startup`) (done).
3. Proofs of every safety property of `AgentLoop`, `RuntimeRun`, `ContextPrepare`,
   `SessionTurn`, `SessionService`, `SessionIndex`, `Startup` and `RunSetup`, and that a
   client is answered (`RunReport`) (done).
4. Proofs that a stream is told in order (`RunReport`), that an answer is what was streamed
   (`ProviderStream`), and about the tools and the extraction of `ModelOutput` (done).

## Not modelled

- Routes, request binding and the status codes of the handlers, but for the refusal of a
  provider: they change no state and decide nothing that follows.
- The shutdown of the server, which gives open requests the context of the process; their
  ends are those of a context in the other models.
- The interactive loop and the printing of the command line, and its mutually exclusive
  flags: one request at a time, each as in `RunSetup` and `RunReport`.
- The conversion of a transcript to a provider request (`openai_compatible.go`) and the
  fake provider: data, without a choice. The same holds for the texts of prompts, digests
  and safe messages.
- The titles of sessions (`manager.go:323`): nothing reads them again.
- Logging.
