# A verification development for Crossa

Crossa compiles `.cra` programs (lexer, parser, project linker, semantic
analyzer, IR) and runs them: on the command line through `ExecutionEngine`, and
inside Android and iOS applications through a C ABI over `NativeRuntime`. This
directory holds TLA+ modules of the language from its characters to its results,
of the requests a program makes, and of the parts where threads meet; TLC
configurations that check them on small instances; and proofs, checked by
TLAPS, of the safety properties of the modules that have state, for every size of
the instance, those of the requests included, for every list of headers, every
configuration and every text.

The modules are translated from the C++ sources. Where a document or a comment
of the repository says something else, the disagreement is a run of its own and
a finding (section 6).

## 1. The system and its components

| Component | State it keeps | Operations | Modelled |
|---|---|---|---|
| Lexer, parser (`compiler/lexer/`, `compiler/parser/`) | a position in a text, in its tokens | scan, parse | `Lexer`, `Parser` over `Text`, `Ast` |
| Project linker (`compiler/project/`) | index of files, the path of sources being visited, the states of the others, linked declarations | `link`: index, visit, resolve, collect | `ProjectLinker` |
| Semantic analyzer (`compiler/semantic/`, `compiler/types/`) | names, signatures, scopes | `analyze` | `SemanticAnalyzer` over `TypedAst` |
| IR (`compiler/ir/`) | none | `lower` | `IrLowerer` over `TypedAst` |
| Interpreter (`IrInterpreter.cpp`, `RuntimeValue.cpp`, `ExecutionFrame.cpp`) | globals and whether they are initialized, frames, count of assertions | evaluate, execute, invoke | `IrInterpreter` over `RuntimeValue`; threads in `ExecutionEngine` |
| Command line (`CrossaApplication.cpp`) | the stage a source is in | `executeSource` | `Compiler`; arguments, prompts, packaging are not |
| Configuration and policies (`RuntimeConfiguration.cpp`, `NetworkConfiguration.cpp`, `NetworkPolicy.cpp`) | the settings | `load`, the policy parsers | `RuntimeConfiguration` |
| Requests (`network/request/`, `network/utils/`, `NetworkInterceptor.cpp`) | none | build, prepare, authenticate, complete, key | `NetworkRequest`, `Exchange` |
| JSON, response decoding (`network/json/`, `network/response/`) | a position in a text | parse, serialize, decode | `Json`, `ResponseDecoder` |
| Task scheduler, request handles (`runtime/scheduler/`, `RequestHandle.cpp`) | queue, count of active tasks, handles of running tasks, stopping/joining/terminated, three condition variables; per task one atomic | `submit`, `submitDetached`, `submitWithCompletion`, `await`, `waitUntilIdle`, `shutdown`, `cancel`, the worker loop | `TaskScheduler` |
| Native runtime (`NativeRuntime.cpp`, `CrossaRuntimeContext.cpp`) | operation records, lifecycle, next identifier, result and error tables | `startAsync`, `startAsyncAfter`, `cancelOperation`, `requestShutdown`, `shutdown`, retain and release of handles | `NativeRuntime` |
| C ABI (`CrossaAbi.cpp`) | `runtimes_`, `retired_`, the reaper | create, release, shutdown, operations, exit of the process; arguments, paths, accessors | `AbiRegistry`; values in `AbiValues` |
| Network engine (`NetworkEngine.cpp`) | coalescing table, access tokens, interceptor | `execute`: prepare, coalesce, send, retry, refresh a token, back off | `NetworkEngine`, `Exchange` |
| Curl transport (`CurlTransport.cpp`) | free handles, active requests, stopping | acquire, transfer, cancel, release, draining destructor | `CurlTransport` |
| Execution engine and the call policies (`ExecutionEngine.cpp`, `IrInterpreter.cpp`) | the stack of every thread, count of assertions, life of the interpreter | `@Sync`, `@Async`, `@AsyncAfter` calls, assertions, failures, unwinding | `ExecutionEngine`, `Compiler` |
| Generators, packaging, doctor, JNI and iOS bridges | files, host tools, the JVM | text and I/O | no |

How they interact. A source is read, linked with what it imports, analyzed,
lowered, and then executed or generated as a library. A platform thread enters
such a library through the C ABI: it takes a `shared_ptr` to a runtime out of the
registry and calls it. `NativeRuntime` reserves an operation record and submits a
task; a worker takes it and runs the interpreter, whose requests call
`NetworkEngine::execute`, which calls `CurlTransport::execute`, all on that
worker; the decoder makes a value of the response. The outcome travels back: the
pool decides on a terminal state with the `RequestHandle`, the runtime removes the
record, the ABI adapter stores a result or an error and calls the completion,
still on the worker. A completion may call the ABI again: start, cancel, shut
down, release the runtime it runs in. Cancellation goes the other way, through
the atomic in the `RequestHandle`, which all layers look at.

What is hard. Everything is callable from any thread, completions re-enter the
system on the very threads a shutdown has to join, cancellation is only a flag
that each layer polls at points of its own, and several waits have their
wake-up after an unlock. The language has four stages, each of which relies on
what the one before it refused; the interpreter casts and looks up without asking
again. Requests are assembled from five sources with rules of precedence, shared by
a key that is a text, and their responses are read by two decoders that should
agree. The hazards in `PROJECT.json` name each such place at its line; the
properties below were chosen from that list.

What makes each component correct:

* linker: what is imported is linked first, once, whole; a cycle is reported if
  and only if there is one; every graph is decided;
* parser: reading what was written gives back its tree, at every precedence;
* analyzer and interpreter: an accepted program does not fail for its types, values
  have the types they were declared with, an expression is what it means within
  the width of integers, an operation never runs between initializers;
* requests: the strongest source of a header is what is sent, parameters arrive
  unchanged, requests share an exchange only if they would have sent the same, a
  configuration that loads is usable, both decoders agree;
* values at the ABI: a platform reads all of a result, each value at its own place,
  within the limits and the narrower Int of the ABI;
* pool: every accepted task is decided once and reported once, on whichever side
  of `cancel` and `shutdown` it falls; nothing is lost between queue and worker;
  no wake-up is lost; `waitUntilIdle` and termination mean what they say;
* runtime: the same contract through a second layer of records, whatever starts
  race whatever shutdowns; identifiers are never reused and a reported success
  has a value behind it;
* registry: a runtime is destroyed by a thread that can join its workers, once
  nobody uses it, and none is forgotten, whenever the process exits (but for an exit
  before any reaper was started, section 6);
* network: the number of sends is bounded, requests that must not be repeated are
  not, a refresh never gives back a rejected token, which is sent again only by an
  ordinary retry, coalesced requests share one exchange and its outcome and always end;
* transport: handles are neither lost, shared nor freed in use, and the
  destructor reaches all transfers and returns;
* engine: recursion is bounded over threads, failures reach the caller they
  belong to, and a run ends with nothing left to execute.

## 2. The modules

`<Component>Proofs` extends a module with its theorems. `MC<Component>` extends it with
what an instance needs to define; where a cfg with model values is enough
(`MCNativeRuntime.cfg`, `MCCurlTransport.cfg`) it is for the component's own module.

### The language

Characters, tokens and trees are data, so these modules are operators, many of them
recursive, and TLC evaluates them; theorems are only about `ProjectLinker` and
`Arithmetic`, which need no recursion over trees. A reader starts at a position and answers what it
read and the position behind it, as the code's classes do with a member.

**Text** has characters, the escapes that sources and JSON share, and the values
of JSON; a character that a TLA+ string cannot hold is written `U+n;`. **Lexer** scans
a source from its characters to tokens. **Ast** and **Parser**: every production of
`Parser.cpp` with the limit on nesting; an error ends the parse. **TypedAst** and
**SemanticAnalyzer**: every rule, as a sequence of conditions each of which names
the code of its diagnostic; the first that does not hold is the one that is
reported. **IrLowerer** translates typed nodes into the intermediate representation, whose
nodes `TypedAst` has too.

**ProjectLinker** is a state machine, and proved about: `activePath` is the stack of
the recursive `visitModule`, one frame per source with the number of imports it
has followed; the directory iterator chooses the order of the files. It sees of a
source only what it imports and declares.

**Arithmetic** has the integers up to `Maximum` with the checks for overflow that stand
in front of each operation, what the operation is in the numbers of mathematics, and
integers and doubles (with their exponents) from texts. **RuntimeValue** has the values and their texts.
**IrInterpreter** evaluates: an evaluation answers a value or a
failure, and the effects it had in their order (what was printed, requested,
asserted), so that order and laziness are visible. Scheduling is in
`ExecutionEngine`; here a task is what its function computes.

**Compiler** composes all of them: `ReadSource`, `LinkProject` (the steps of
`ProjectLinker` over the parsed texts), `AnalyzeSource`, `LowerSource`,
`ConfigureRuntime` or `GenerateKotlin`, and then either `InitializeProgram` and
`ExecuteProgram` or a host that invokes the operations of the library one after
the other. It also holds a reference the code is compared with: how a tree is
written with the fewest parentheses by the documented precedence, and what it means
in the numbers of mathematics.

### Requests

**Json** parses and serializes within the limits on bytes and depth.
**ResponseDecoder** has both ways to a typed value: from the text directly, and over
a parsed value. **RuntimeConfiguration** folds config blocks and overrides into the
settings and parses the policies; what may not be set leaves `Invalid`, and a name
that is no setting is left alone. The bounds of `workerThreads` and `maxQueuedTasks` are
asked of the final values only (`SchedulerFits`), so that a value out of range may be
overridden. What an entry is at compile time is a constant of it: `ReadJson` of `Json`
recurses over the expression of the entry.
**NetworkRequest** goes from a `RequestSpec` to the message that is sent; its
telemetry policy is read only when there is an answer to report, and may fail
the request then (`ReportsTelemetry`).

**AbiValues** has what the C ABI does with values: which arguments become some
(`Compiler` invokes operations through it), and what an accessor answers for a result
and a path or a model handle. `ReadByPath` and `ReadByHandle` are a platform that
knows the type of a result and puts it together from the answers.

**Exchange** composes them into the requests of one runtime: `Configure`, `Execute`,
which builds, authenticates, and takes part in an exchange of the same key or opens
one, and `Answer`, after which every participant decodes the body for its own type.
The two recursions it rests on, what an entry is (`ReadEntry`) and what a body is decoded to
(`DecodedBody`), are constants of it, so that it can be proved about.
**ResponseExchange** has the operators the code has in their place (the cfg gives the
constants these values), and the properties that are about what these compute:
the decoders, the accessors of the ABI, and a server that reads a url.

### Threads

**AsyncOperation** is the abstract specification of what a submitter may rely on
(`docs/runtime/scheduling.md`): a task is refused or accepted once, a cancel
that wins before the decision leaves Cancelled as the only outcome, one outcome
is decided, never changed and reported once. `TaskScheduler` and
`NativeRuntime` both implement it, through different refinement mappings: the
first reads a task's status off its stage, terminal state and handle, the second
off what the ABI caller was told.

**WorkPool** is the other abstract specification: what a user sees of a pool whose mutex
and condition variables are left out. A queue takes what is submitted until the pool
stops, each worker has at most one task and takes the oldest, and a worker leaves only
when the pool stops and the queue is empty. `TaskScheduler` implements it
(`ImplementsPool`, a theorem) and `ExecutionEngine`, whose pool is one step per operation, relies on
no more than it (`UsesPool`): the two modules meet there. **UnorderedPool** is the same
for `NativeRuntime`, which does not rely on the order of the queue: a set of
tasks, each accepted once.

**TaskScheduler.** One action is one critical section of `mutex_`, one atomic
access of a handle, one notification made after the unlock, or one stretch of
foreign code. A condition variable is the set of threads parked on it. The pc of
a thread is the point in `enqueue`, `workerLoop`, `runTask`, `awaitTermination`
it has reached. A completion may cancel and shut down, and with
`CallbacksSubmit` also submit.

**NativeRuntime** keeps operation records, lifecycle and handle tables in detail
and uses the pool through what `TaskScheduler` is checked to do: queued work is
taken by some worker (`UnorderedPool`), decided once, and a shutdown cancels what is
queued or running. A start waits in `enqueue` while the queue holds `MaximumQueuedTasks`
operations and the pool is not stopping, on whatever thread it is made: a completion
that starts an operation waits on a worker. It keeps the width of identifiers: `OperationIds` and `MaximumHandle`
are the last values of their types, and the instance reaches them.

**AbiRegistry** models several runtimes by their references only: `registered`
and `retired` are the tables, `holds` the `shared_ptr` in the local of an ABI
call, `pending` and busy workers the references of completion adapters. It has
the reaper, which may fail to start, the static destructor of a process that leaves
`main` at any time (`LeaveMain`), with operations in flight or not, and the destruction
by whoever drops the last reference: on a worker of its own pool, it leaves joinable
threads behind and the process ends (`Abort`).

**NetworkEngine** models `execute` for several threads with requests of one
specification: the worst case for coalescing and the token. The policy is a
record drawn from `Policies` in `Init`; transport, token server and canceller
are the environment. `token`, `key` and `rejected` tell which Authorization
header a request carries, was coalesced under, and had rejected. `Exchange` has the
texts that are abstracted here.

**CurlTransport** models the handle pool and the destructor; a handle is given back under
the lock and its `notify_one` comes after it, as a step of its own. Time inside a
transfer is counted in intervals between two progress callbacks, so that the
request timeout is `TimeoutIntervals` of them.

**ExecutionEngine** gives every thread a stack of activations of a program that
is a constant (`Body`, `Policy`, `TopLevel`). It decides where a call runs, how
deep, and whom its failure reaches; a statement that is neither a call nor an
assertion is `Work`, which may fail. Its pool is one step per operation.

In every module the conditions and updates of the code are operators of their
own (`Outstanding`, `Popped`, `Decides`, ...). Next to some of them stands a
faulty form under another name (`OutstandingQueued`, `LeftInPlace`,
`NeverDecides`, ...): a plausible bug. No specification uses the faulty forms;
exchanging one for the right form makes the property it is paired with in
`PROJECT.json` fail, which shows that the property depends on that line of the
code.

## 3. What the runs check

Bounds were chosen so that every action happens and each resource reaches its
limit; the theorems of section 5 hold without them.

| Run | Instance | Shows |
|---|---|---|
| `language` | expressions of two operators written from their trees; functions of all pairs of ten or more statements, with a caller each; import graphs; programs with configurations, commands, policies; libraries for a host | linking orders and decides; parsing inverts writing; what an expression prints is what it means; accepted programs do not fail for their types; operations see all globals |
| `exchange` | the configurations, calls and bodies of `MCExchange`, two requests each | headers, parameters, keys, policies, that the decoders agree, and that what they decode can be read at the ABI |
| `exchange_decoder` | the same | violated: `DirectDecoderReplacesParser` |
| `pool` | 1 worker, 2 clients, 1 future, 1 completion, queue of 1, foreign cancellations | shutdown reaches every outstanding task, `waitUntilIdle` means what it says, somebody can always go on, the pool implements `AsyncOperation`, and under fairness calls return and accepted tasks end |
| `runtime` | 1 caller, 1 worker, 3 operations (1 without a completion), queue of 1, 1 handle per table | what a shutdown reaches, reported results, the contract, and that calls return and operations report, full queue or not, unless the pool jams for ever |
| `network` | 2 requests, 2 tokens after the first, the policies of `MCNetworkEngine` | sends, rejected tokens, coalescing, termination |
| `transport` | 3 requests (1 monitored), 2 handles, 1 send each, timeout 2 | freed handles, the destructor, termination |
| `transport_cancel` | 2 requests, 2 handles | violated: `CancelStopsTransfer` |
| `registry` | 2 runtimes with a worker each, 1 caller that leaves `main` at any time, registry of 1 | who destroys a runtime, when, and that it happens, also at an exit with operations in flight |
| `engine` | 2 workers, 3 functions of all policies that call each other, depth 4, queue of 1, both modes | quiet success, failures, globals that no worker reads too early, use of the pool, termination |
| `engine_unwind` | the same, depth 3 | violated: `InterpreterOutlivesTasks` |
| `engine_assert` | the same, depth 3 | violated: `FalseAssertionFails` |

Why the bounds are enough to mean something.

*Language.* Integers have four bits, so that the operands of one expression reach
both ends of the width and every branch of the overflow checks; a value in the code
has 64 (Int) bits, and nothing in the checks depends on the number. Literals are
0, 1, 2, 3, 7 and 8: the last is the first that has no value. Two operators in either
shape tell precedence and associativity apart for each pair of operators, with and
without the parentheses they need. Two statements in a body are all that definite
return can join, a declaration and its use, and a branch and what follows it. Import
graphs have three files (plus `config.cra`): enough for a chain, a diamond, a cycle
beside the entry and one through it, an ambiguous name, a file that is not there, and each limit
(two modules, depth 3, three files, 200 bytes). Calls are at most three deep, and
expressions nest eight deep (the code: 512). A host makes two invocations, the
second of which follows an initialization that failed.

*Exchange.* Two requests are an owner and one that takes part. Headers of one name
differ in case and come from any two of the sources; parameters hold each character
that has a meaning in a URL; keys hold messages that differ in one part, or in where
a part ends. Bodies contain every token of JSON, nested to the limit of 2 and one
beyond it, numbers at both ends of the width and next to them. A path may have the two
segments that reach the deepest value, and an Int at the ABI has eight bits, which some
of the numbers need more than.

*Threads.* A queue of one is full with one
task and makes submitters wait; one worker is enough to lose a wake-up, to be
joined by one client while another waits for the join, and to run a completion
that shuts the pool down. Interleavings of two workers are in
`engine`, whose pool is coarser, and in the theorems, which hold for any number. In
`runtime`, one operation may be running, one queued, and the third wait for a place, in a
call of the platform or in the completion of the first on the only worker: the jam, from
which a shutdown from outside is the only way out, and with the wait of `enqueue` deaf
to the stop (`WaitsForSpace`) not even that. One handle per table
is used up by the first result, and the second becomes an error. Two requests are an owner and a follower and
race the one token; two tokens beyond the configured one let both refresh. The
policies list 401 as a status to retry or not and have a provider that refreshes, one that does
not, and none, so that a rejected token meets an ordinary retry. Three
requests over two handles make one wait; a second send of one request adds no
state of the pool that another request does not. Two runtimes are what a completion of
one can do to the other and a second creation to the registry's limit. Depth 4
lets a task submitted at depth 2 recurse to the limit while its caller waits.

Runs whose processes may all stop for good say `CHECK_DEADLOCK FALSE`: a source
that is rejected or has ended (`language`), a runtime that has made its requests
(`exchange`), a process that has exited (`registry`), a run that has ended
(`engine`).

## 4. Fairness

Threads: weak fairness of each thread inside a call: a mutex is handed out and
threads are scheduled. A body ends, since requests have timeouts (`CurlTransport`,
`EverythingEnds` shows it from libcurl's clock) and the language has no loops
and a bounded depth. The return of a completion has strong fairness: it may call
the ABI on its way, which disables its return, but not for ever. Nobody is
obliged to submit, cancel, release, answer or shut down. `CurlTransport` assumes
neither that a server answers nor that a wait wakes up by itself.

Language: weak fairness of reading and linking, one thread that goes on while there is an
import to follow; `LinkingIsDecided` is about nothing else. `Exchange` has no fairness
and no liveness: how exchanges end is in `NetworkEngine`.

## 5. What is proved

TLAPS proves, for every value of the constants that satisfies the named
assumptions of the modules, the theorems listed in `PROJECT.json`. Each proof
module has the same shape: `Init` establishes `IInv`; one lemma per action (or
kind of action) shows that it preserves `IInv`, with one step per conjunct it can
disturb; the invariance of `IInv` follows by PTL; the safety properties follow
from `IInv`, the action properties from `IInv` and the step.

The properties are not inductive by themselves; the invariants add this:

* `ProjectLinker`, for every project, file system and limit: the sources on the path
  are those being visited, each once, and each was entered through the import its
  predecessor followed last (`PathAgrees`); the imports a source on the path has
  followed are linked, but for that one (`FollowedAreLinked`); so are all imports of
  a linked source (`LinkedAreClosed`), and only linked sources have declarations
  (`DeclarationsAreLinked`). When a source is left, all its imports are therefore in
  front of it. With it: dependencies come first, each declaration is linked once, a
  linked project is closed under imports, and a reported cycle is one.
  `LinkingIsBounded`: the path is never longer than `MaximumImportDepth`. The count of
  modules is taken when a source is left (`ProjectLinker.cpp:284`) and compared when
  one is entered (line 186), so that those on the path are not in it yet: more
  than `MaximumImportedModules` may be linked, and at most as many more as the path is
  deep, less one. TLC finds a project that exceeds the limit itself.
  `LinkingAdvances` is the measure of `run` and `visitModule`: a step decides, begins the
  next stage, indexes another file, enters a source that is new, leaves one without a new
  one becoming unentered, or follows one more import of the source on top; and by
  `CanGoOn` there is always such a step until linking is decided.
* `TaskScheduler`: every task is in one place (`OneOwner`), got as far as that
  place says (`ProgressByPlace`), none is dropped (`NoneLost`), its handle agrees
  with both (`HandleAgrees`), the counter counts (`CounterAgrees`, by the library's
  theorems on cardinality), and what stopping has reached (`ShutdownProgress`).
  With it: the outcome agrees with what `cancel` returned, a terminal handle is
  closed, a shutdown reaches every outstanding task, termination and idleness
  mean every accepted task has reported, a cancelled body is skipped, and the pool
  implements `AsyncOperation`, `WorkPool` and `UnorderedPool`, each step a step or a
  stutter of it. For the last, that the queue holds no task twice and none that a worker
  has (`OneOwner`) turns the sequence into a set.
* `TaskScheduler` again, its wake-ups. Every notification comes after an unlock, and two
  of the three conditions are told by `notify_one`, so that a thread woken for one task
  may find it taken. What is inductive is a count: while a worker sleeps there are at
  most as many tasks as workers about to look plus submitters about to notify
  (`WorkersAreWoken`), and while a submitter sleeps the queue and the submitters about to
  enter it fill its bound (`SubmittersAreWoken`); a stopping pool has a thread between its
  shutdown and the `notify_all` as long as anybody sleeps (`ShutdownWakesAll`), and the
  same holds of idleness and termination (`IdleIsAnnounced`). `OnlyCompletionsJam`
  follows: if no thread can go on while a call or a task is unfinished, every worker waits
  in `enqueue` inside a completion and the queue is full. `NoDeadlock` is the case of
  completions that do not submit. This is the safety half of `EverythingEnds`, for every
  number of threads.
* `NativeRuntime`: the same parts one level up, with `RecordsAgree` (which
  operations may have a record) and `NumbersAgree` (identifiers given out lie
  below the counter and are distinct). With it: uniqueness of identifiers up to
  the end of their type, no record after a report, nothing after Stopped,
  and the refinements: of `AsyncOperation` from the ABI caller's side, and of
  `UnorderedPool` (`UsesPool`), by which the pool that the runtime assumes is one that
  `TaskScheduler` has.
* `NetworkEngine`: the retry counters by place, where unpublished tokens can be
  (nowhere else), the table and its owners in step, outcomes and followers. What is proved
  of rejected tokens (`RejectedTokenIsReplaced`) has two parts. A refresh never gives a
  request a token that it had rejected. And a send with a rejected token is an ordinary
  retry: the method is retryable, and 401 is in the policy's list, or the refresh
  that should have replaced the token has failed (`NetworkEngine.cpp:154`), for
  then the back-off of lines 174 to 205 leads to a send with the old one. A request that is not
  retryable never sends a rejected token again.
* `CurlTransport`: pool and map partition the handles, the destructor's progress
  implies idle handles, stopping has cancelled what is checked out. The destructor sleeps
  only while a handle is checked out, and so does a request that finds none: whoever
  waits for a release has one coming (`WaitsEndWithRelease`).
* `AbiRegistry`: what is referred to is alive, workers run while their runtime
  lives, and a destructor runs alone. Its theorems assume nothing about the exit: `main` may
  be left at any time, with calls and operations in flight. What they say
  of an exit that finds no reaper is in the properties themselves (`ExitWithoutReaper`,
  `LeftBehind`): only then may a runtime be destroyed by its own worker, or be left to
  whoever still uses it; with a reaper the sweep of the destructor joins every
  pool. They do not assume anything about `CrossRelease` either, but for
  `JoinsEnd`: without completions that stop foreign runtimes, behind every join stands
  a worker that can go on by itself, so that joins close no circle. The reaper neither
  sleeps nor ends with something to reap (`ReaperIsAwake`).
* `ExecutionEngine`: the depth of each activation by its position, with the base
  of a task where its caller stands (`DepthsAgree`, `AwaitAgrees`), and what the
  phase of the main thread implies for the pool (`PhaseAgrees`, `FailuresAgree`). A
  failure on behalf of the main thread has ended the run or sits in the future it
  awaits. Submissions come from the main thread alone, at a depth within the bound and
  before the pool stops: what `UsesPool` needs.
* `ExecutionEngine`, the globals. `globals_` has no lock. `GlobalsAreNotRaced` says when it
  needs none: if there is a set of functions that holds what the initializers call,
  is closed under the calls of its `@Sync` members (which stay on the main thread), and has no
  `@Async` member, then no worker runs a function while the globals are initialized,
  unless the main thread awaits it. `InitializersAgree` is the
  strengthening: the main thread's stack stays in that set, and the pool has only tasks
  that are awaited. An `@AsyncAfter` function may do as it likes, for on its worker all
  calls run inline. The condition is needed: with `Initializers = 3` the program of
  the `engine` run starts background work in an initializer, and a worker runs it while
  the main thread declares the global. Operations that a host starts on a
  `NativeRuntime` initialize under `call_once` before they submit.
* `Exchange`, for every set of inputs and whatever `ReadEntry` and `DecodedBody` are.
  `ExchangeInv` keeps, over all steps, where things came from: the configuration is what `Load`
  makes of the host's blocks, every request has a call of the host, a refused one could
  not be prepared or sent, one that takes part has the key of its exchange, and each
  exchange was opened by the first of its requests and holds what was prepared and sent
  for it. What the properties say then lies in the operators, which fold over lists of
  any length; the proofs are inductions over the positions of these lists:
  - `HeadersAreSent`. After any number of headers the list `Represents` the sources so
    far: each name once, in whatever case, with the value of its strongest source.
    `setHeader` with and without overwriting keeps it, which is the order of `build`,
    `beforeRequest` and the completion of types.
  - `LoadedPoliciesServe`. After any entry the configuration is invalid or is still one
    whose settings have their types; `load` ends with `PoliciesAreValid`, which has all
    conditions that `executePrepared` asks again, so that only the url, the headers or a
    missing token of a request without policies of its own remain as reasons.
  - `SharedMessagesAreOwn`. A key is read back from its front: the first line feed ends the method,
    the next one the url; a line up to its first colon is a name, which is a token and
    has neither; the value ends at the line feed. After the headers comes the body,
    which has no line feed, so that no header line can be taken for one. Two messages
    with one key are therefore equal, by induction over the headers of both. It needs
    that url and header values have no line feed (`OnItsLines`); an encoded query has none,
    but nothing keeps one out of the url of a program or a token of the configuration.
  The assumptions are `InputsAssumption`, which TLC evaluates: what the parser and the decoder of
  arguments guarantee of a call and a block (lists are sequences, texts are strings,
  a body is JSON on one line). `SharedMessagesAreOwn` has one more, as its antecedent: that strings
  are sequences of characters (`TextsAreSequences`), which is TLA+'s definition of a
  string but is not known to the provers.
* `Arithmetic`, in the last section of `ExchangeProofs`, for every width: an operation is
  refused exactly if its result is not
  representable, for each operator and each pair of signs (`OverflowIsCaught`); the
  checks themselves, which compute with the same type, stay within it
  (`ChecksDoNotOverflow`); division goes towards zero (`DivisionTruncates`). The width
  is the assumption `Maximum \in Nat \ {0}` and two's complement, so that int64_t is one
  instance; `language` evaluates the same operators at four bits inside whole programs.

Type correctness and the inductive invariants are theorems and not listed in the
runs; add `IInv` to a cfg to let TLC look at them. The same holds for the
properties that `IInv` or the refinement covers: `CancelDecides`,
`TerminalHandleIsClosed`, `TerminationIsComplete`, `CancelledBodyIsSkipped`,
`CancelReachesCaller`, `CircularIsReal`, `IdentifiersAreUnique`, `NoRecordOutlivesOperation`,
`StoppedIsComplete`, `NothingAfterStopped`, `EntryHasLiveOwner`, `PoolIsPartitioned`,
`MonitoredTransferStops`, `DestroyedIsUnused`, `RecursionIsBounded`,
`StoppedEntersNothing`, `LinkedOnce`, `LinkedIsClosed`, `LinkingIsBounded`, `LinkingAdvances`, `CanGoOn`,
`NoWakeUpIsLost`, `WaitsEndWithRelease`, `ReaperIsAwake`, `JoinsEnd`, the three of
`Arithmetic`, and the refinements of `WorkPool` by `TaskScheduler` (`ImplementsPool`, whose
order and bound show only with more workers and a longer queue than `pool` has) and of
`UnorderedPool` (`ImplementsUnordered` and `UsesPool` of `NativeRuntime`).

Only model-checked:

* all liveness properties and whatever needs ENABLED, which is out of the prover's reach;
* the five invariants of `Compiler`, and of `ResponseExchange` `DirectDecodingAgrees` and
  `DecodedValuesReadBack`: they are about operators that recurse over trees (expressions,
  JSON, values), declared `RECURSIVE`, about which tlapm proves nothing. A fold over a list
  can be written as a function and proved about by induction over positions, as above; a
  parser whose result is a tree and a position in a text cannot without being written in
  another way than the code;
* `ParametersArriveUnchanged`, for the same reason: the server that reads the url is recursive
  over its text, and the code points of single characters are a table;
* for `LinkingIsDecided` the two halves are proved, that every step advances and that a visit
  can go on until it is decided; that finitely many steps of each kind then end it
  needs an order of all of them, and is left to TLC.

## 6. Where code and text disagree

Each has a run that ends in a counterexample; `PROJECT.json` quotes both sides.

1. `transport_cancel`: without `uploadProgress` libcurl never calls the function
   that looks at the cancellation (`CurlTransport.cpp:501`).
2. `engine_unwind`: when a program fails, the interpreter is destroyed before the
   workers that run its functions are joined (`ExecutionEngine.cpp:66`).
3. `engine_assert`: an assertion that fails in an `@Async` function is logged and
   the test succeeds (`IrInterpreter.cpp:464`).
4. `exchange_decoder`: the direct decoder refuses a typed body that starts with
   whitespace, which the parser accepts (`ResponseDecoder.cpp:44`).

More of them can be seen by changing a constant or adding a property:

* `AcceptedOperationsReport` of `NativeRuntime`, in the instance of `runtime`: a completion
  that starts an operation while the queue is full parks the worker that would have to
  make room (`TaskScheduler.cpp:227`), and an operation that was accepted never
  reports, where `docs/runtime/scheduling.md:7` says that `@AsyncAfter` "produces
  exactly one `CrossaState<T>` terminal result". It needs one caller, one worker and three
  operations. `EverythingEnds` names this as its one exception (`Jammed`, for ever):
  whenever the jam is ended, and a shutdown from outside ends it, or never comes about,
  all calls return and all operations report. `TaskScheduler` with
  `CallbacksSubmit = TRUE` shows the same below the ABI, and `OnlyCompletionsJamTheorem`
  that it is the only deadlock of the pool.
* `OneTerminalEvent` of `NetworkEngine`: a failing status reaches the interceptor in
  the try block and again in the catch around it (`NetworkEngine.cpp:168`).
* `TerminationIsAwaited` of `AbiRegistry`, in the instance of `registry`: the destructor of
  the registry retires the live runtimes and joins the reaper only if there is one
  (`CrossaAbi.cpp:49`), which only a release from a completion starts. Without it the
  runtimes are dropped, an operation in flight keeps its own alive through its adapter,
  and a worker destroys the runtime it belongs to, where `memory-ownership.md:33` says
  that "scheduler termination is awaited". `DestroyedElsewhere` and `NoOrphan` name
  this exit as their exception and hold for every other.
* `AbiRegistry` with `CrossRelease = TRUE`: two completions that release each other's
  runtime wait for each other, and `EverythingEnds` fails.

## 7. What is assumed or left out

* Allocation failure and streams that throw, everywhere.
* Characters are ASCII, except those an escape makes. Lines, columns and the wording
  of diagnostics are left out; a diagnostic is its code or the stage that made it.
* A Double is a number of hundredths with truncation. Its text has an exponent, and one too
  large for a double is refused as `stod` does; the border of that range is within a power
  of ten, and numbers beyond `MaximumHundredths` are taken for that. Rounding below a
  hundredth, infinities and NaN are left out, and no property is about fractions. Int and
  Long have one width.
* A body that cannot be decoded is refused; which of the kinds of error the decoder reports is
  left out.
* `SharedExchangeIsOwnExchange` is about URLs and header values without a line feed: with one, two
  messages can have one key, since nothing in `requestKey` escapes it and nothing
  in the request builder refuses it.
* In `AcceptedProgramsDoNotGoWrong` an initializer may meet a global that has no value yet, or
  one that an earlier attempt left: the analyzer accepts both. A literal beyond the
  width, overflow, division by zero, depth, assertions, configuration, requests and
  decoding may fail as well.
* `registry` takes `CrossRelease = FALSE`, and `pool` completions that do not submit,
  for the reasons above (those of `runtime` do); the safety theorems cover both values.
* What is called on the registry after its destructor, and how long threads of the process
  run on once `main` has returned: the model lets them run on.
* Callers that still wait in `acquireHandle` when the transport is destroyed; both
  owners of a transport join their workers first.
* `ExecutionEngine` takes submitting, popping and stopping as single steps, since
  `TaskScheduler` has their critical sections; its values are open. `IrInterpreter`
  has the values and runs a task at its call. What a read of `globals_` returns that
  races their initialization is in neither; `GlobalsAreNotRaced` says which programs have
  no such read.
* `DecodedValuesReadBack` takes a path of as many segments as JSON may be nested to be
  allowed: so it is with the default of 128 levels and a limit of 256 segments, but
  `maxJsonDepth` may be set up to 1024, and what lies deeper than 256 then has no path.
* An accessor of the ABI reads a value in one step; that it lends memory of the
  result, which another thread may release meanwhile, is in the hazards only. So are
  null pointers and the accessors of an error, which copy its fields.
* Not modelled: generators, packaging, doctor and the two bridges, which print text,
  run host tools or forward calls; command-line arguments and prompts.

## 8. Plan

Done: the pool and its contract, the runtime over it, the engine of requests, the
transport, the registry, the execution engine; the compiler from characters to the
intermediate representation; the interpreter's values; configuration, requests,
decoding and the values of the ABI; the theorems about the state of all of them but the
compiler, and about headers, policies and keys. Next, in this order:

1. **Views**: the lifetime of what an accessor lends, over the tables of `NativeRuntime`.
2. **Globals under threads**: a refinement from `ExecutionEngine` with values to
   `IrInterpreter`, for programs whose tasks do not touch the same state.
3. **Emitted wrappers**: the life cycle of the Kotlin and Swift classes over the
   ABI, composed with `AbiRegistry`.

The proof that should follow: that what happens to a handle in the pool of
`NativeRuntime`, its cancellation and its decision, is what `TaskScheduler` does to it.
