# Formal models of cberl

`cberl` is an Erlang client for CouchBase: an Erlang API and gen_server
(`src/src/cberl.erl`), a NIF library in C++ (`src/c_src/src/`), an asio
io_service with one worker thread, and libcouchbase underneath. This directory
holds TLA+ models of it, the TLC configurations that check them and TLAPS
proofs about the core. Paths below are relative to the repository root, which
is `src/` in `PROJECT.json`.

## The system

| Part | State | Operations |
| --- | --- | --- |
| API, `cberl:call/3` (`src/cberl.erl:101-268, 388-409`) | the calling process's mailbox and its place in the call | cast the request, wait for `{Ref, {ok, ResponseRef}}`, wait for `{ResponseRef, Response}`; either wait may time out |
| gen_server (`src/cberl.erl:283-363`) | client and connection handles, its mailbox | `init/1` (connect with a timeout), `handle_cast/2` (call the NIF, acknowledge), a crash on `badarg` |
| NIF (`c_src/src/cberl_nif.cc`, `nifpp.h`) | a random engine per thread | convert the arguments, draw a request id, post a task to the Client; the task's callback sends the response to the caller |
| Client (`c_src/src/client.cc`) | io_service queue, worker thread | `connect` and the six operations post tasks; the destructor stops the io_service and joins the thread |
| Connection (`c_src/src/connection.cc`) | a libcouchbase instance | the six operations: build commands, schedule them, `lcb_wait`, collect responses through callbacks |
| Responses, requests (`c_src/src/responses`, `requests`) | a response list or http status, an error code | `add`, `toTerm`, conversion of arguments |
| Encoding (`src/cberl.erl:418-468`) | none | `encode`, `decode`, operation ids |
| asio's `io_service` (`c_src/deps/asio/.../scheduler.ipp`, `posix_event.hpp`) | a mutex, a queue, an event, a count of outstanding work | `post`, `run`, `stop`, `shutdown` |
| libcouchbase | external | pipelines, callbacks, timeouts |

How they interact: a caller never talks to the NIF. It casts to the server; the
server calls the NIF, which posts a task and returns a request id; the server
sends that id to the caller; the worker thread runs the task on the connection
and sends `{Id, Response}` straight to the caller. A request therefore passes
through three threads of control and comes back as two messages from two of
them, in either order.

What is hard to test: the response overtaking the acknowledgement; messages of
a call that timed out arriving in the next call of the same process; requests
that run after their caller gave up; the death of the server, by an exit signal
or because one request could not be converted, while requests of others are
queued and one is running; casts to a dead server; the destructor of the Client
joining a thread that is busy; responses from several nodes in any order; error
paths of an operation that has three places to fail. `PROJECT.json` lists these
as hazards, each at its line and with the properties that would catch it.

What makes each part correct:

* API and server: an answer belongs to the call that returns it; the requests
  of one process run at most once, in the order of its calls; a call with a
  finite timeout returns; a call returns if the server lives.
* Client: tasks run one at a time, in the order of posting; a destroyed Client
  leaves no thread, no task and no owner of a Connection behind.
* Connection: no callback outlives its operation; a successful reply covers the
  request; errors are not mixed up with results.
* Lifecycle: a connection is destroyed once, after its last use, also when
  `init/1` has given up on it.
* Requests, responses and encoding: what is written can be read back, whoever
  reads it; a CAS value names one version, and no update guarded by one is
  lost; an operation id, a delta, a number of nodes mean on the server what
  they meant to the caller.

## Modules

| Module | Models |
| --- | --- |
| `CallService` | what the API promises, without the machinery: calls applied at most once and in order per process, answers that belong to their calls |
| `Cberl` | callers, gen_server, NIF and Client with its worker: the core |
| `CberlInvariants` | the inductive invariant of `Cberl` |
| `CberlProofs`, `CberlRefinement` | TLAPS proofs about `Cberl` |
| `TimedCberl` | `Cberl` with a clock: how long `call/3` waits |
| `LinkedCberl` | `Cberl` with the link between the server and the process that connected |
| `ExtensionProofs` | TLAPS proofs about `TimedCberl` and `LinkedCberl` |
| `Executor` | what the rest of the program takes an `io_service` for: a queue of tasks run one at a time |
| `IoService` | the `io_service` of a Client: two threads, a mutex, an event, a counter |
| `IoServiceProofs` | TLAPS proofs about `IoService` |
| `Connection` | one libcouchbase instance, operation by operation |
| `ConnectionProofs` | TLAPS proofs about `Connection` |
| `Lifecycle` | `connect/6`, `init/1`, who owns Client and Connection, up to both destructors |
| `LifecycleProofs` | TLAPS proofs about `Lifecycle` |
| `Documents` | what the API's functions do to documents, with the decoding of values |
| `DocumentsProofs` | TLAPS proofs about `Documents` |
| `Marshalling` | the conversions of every request on its way to libcouchbase and back |
| `MarshallingProofs` | TLAPS proofs about `Marshalling` |
| `MC...` | instances for TLC |

`TimedCberl` and `LinkedCberl` extend `Cberl`, one with clocks, the other with
exit signals. `Cberl` takes its queue and worker thread for an `Executor`
(`UsesExecutor`), which `IoService` implements (`ImplementsExecutor`): what
`Cberl` does in one step of its worker, the scheduler does with a mutex and a
condition variable. The others look at one connection from different sides and
meet in the worker: a task that `Cberl` executes in one step is an operation of
`Connection`, whose items are those of `Documents`, converted as in
`Marshalling`, and a task of `Lifecycle` that holds a shared pointer.

### Cberl

`calls` is the history of `call/3` invocations, indexed by `Ref`. `make_ref/0`
returns numbers in this model; the code only compares references, the order is
recorded for the properties. `pc`, `cur`, `respRef` and `mbox` are the caller:
its place in `call/3`, the two references it waits on, and the messages of this
protocol in its mailbox. The mailbox is a set: a selective receive takes the
first match, and `ReceiveIsUnambiguous` shows (and a theorem proves) that there
is never a second. `inbox` holds the casts on their way, a FIFO per sender,
since Erlang orders signals per pair of processes and `gen_server:cast` to a
dead process is dropped. `handling` is the moment inside `handle_cast/2`
between the return of the NIF and the acknowledgement. `issued` records which
`Ref` got which request id, `queue`, `stopped`, `worker` and `task` are the
io_service and its thread, `executed` is the history of what ran.

Every action is one step of one thread of control. `Call`, `ReceiveAck`,
`ReceiveResponse`, `Timeout` and `CallerExit` are the caller; `HandleCast`,
`SendAck`, `CrashOnBadarg` and `ServerExit` the server with the NIF functions
it runs; `WorkerTake`, `WorkerExecute`, `WorkerRespond` and `WorkerExit` the
worker; `StopClient` and `DropQueue` the destructor of `Client`, which runs in
the runtime's thread that frees the server's heap. A request is `valid` or not:
an invalid one is one that the NIF cannot convert, e.g. a key that is no
binary, a number out of range or a caller on another node. The six NIF
functions and the six Client operations differ in the data they carry and are
one action each. What a request does to documents is not modelled; the `Ref` of
the request that ran stands for its answer.

Definitions that begin with a comment "Wrong:" (and `StaticReqId`,
`NifRequestAtFront`, `NifRequestTwice`) are deliberately faulty variants of the
definition that follows; `PROJECT.json` lists, for each property, a variant
that TLC must find to violate it.

### TimedCberl

Adds to each process the time spent in the current receive (`waited`) and in
the current call (`total`). Time advances by `Tick`, which waits for timers
that are due: timers of the runtime are idealised as punctual. Patient
processes (Timeout `infinity`) have no timer.

### LinkedCberl

`connect/6` uses `gen_server:start_link`, so the process that connects and the
server are linked. `toServer` and `toOwner` are the exit signals on their way,
`ownerEnd` records how the owner ended. `OwnerEnds`, `ServerFollows`,
`ServerStays`, `ServerEnds` and `OwnerHears` are the two ends of the link, all
else (`UnlinkedStep`) is `Cberl`. The server traps no exits, so a signal other than `normal`
ends it, at once or in the middle of a request; an owner that ends normally
leaves the connection running without an owner. An owner that does not trap
exits dies with the server, also if all that happened is that a request of
somebody else could not be converted.

### IoService

`opQueue`, `outstanding`, `stopped`, `mutex` and the event (`signalled` and
`waiters`, the low bit and the rest of `posix_event::state_`) are the members of
`scheduler`; `guard` is `m_work` of the Client. `user` is the thread that runs
the gen_server, later the one that runs `~Client`, and `worker` the thread in
`run()`. An action is what a thread does between two points where the other one
can see it: up to a lock, up to an unlock, up to the call of
`pthread_cond_signal`, which `wake_one_thread_and_unlock` makes after unlocking
(`Push`, then `Notify`). `Sleep` releases the mutex and blocks in one step, as
`pthread_cond_wait` does; `SpuriousWakeUp` lets it return without a signal.
`run_one`'s fast paths for several threads, private queues and the reactor are
left out: the concurrency hint is 1, no task posts a task and no reactor is
started.

`Executor` is the specification of it: `Post`, `Start`, `Finish`, `Stop`, `End`
of the worker and `Discard` of what it never ran.

### Connection

One operation at a time, since only the worker uses the instance: `Begin`,
`Schedule` or `ScheduleError`, `Callback`s, `WaitSuccess` or `WaitError`.
The operations that send a command per item are one "multi" operation,
durability is one of its own, and http has one command and overwrites its
response. `nodeOf` distributes keys over nodes in every
possible way. `outstanding` is the set of the commands whose callback has not run,
each with its key and its place in the request. Taken from libcouchbase's contract, as `connection.cc` relies on
it: a scheduling call takes all commands or none, each node answers in order
(`First`), except that `lcb_durability_poll` polls and reports an item as soon as
it has its copies, in any order (`Due`), every command gets exactly one callback (an answer, an error or a timeout), and
`lcb_wait` returns when nothing is outstanding.

### Lifecycle

`server` is the place of the gen_server in `init/1` (`cberl.erl:283-298`),
`result` what `connect/6` has returned, `mailbox` the answer `init/1` waits
for. `client`, `queue` and `worker` are the Client with its io_service and
thread, `response` the `ConnectResponse` of the connect task. `instance` is the
libcouchbase instance, `count` the use count of the Connection's shared
pointers, and `resource` where the one term that refers to the Connection's
resource is: in the environment of the message, in the mailbox, on the heap of
the server, or freed.

`New`, `Connect`, `ConnectBadarg`, `ReceiveConnection`, `ReceiveError`,
`InitTimeout`, `Exit` and `Request` are the server; `Take`, `CreateFails`,
`Create`, `ConnectFails`, `Connected`, `Respond`, `Finish`, `FinishOp` and
`WorkerExit` the worker; `FreeConnection`, `FreeClient` and `DestroyClient` what
the runtime does with a dead process. `count` is only ever added to and taken
from, as a `shared_ptr` does it; that it is the number of owners is a property.
Taken from the Erlang runtime: it frees the terms of a dead process in any
order, and a message that cannot be delivered stays in the environment it was
made in. `Client` has one owner, the resource on the server's heap, and needs no
count.

### Documents

`docs` is the bucket, `copies` the number of nodes that have persisted each
document, `lastCas` the source of CAS values; `queue` holds the requests posted
to the worker, `waiting` the call each process waits in, `seen` the CAS values
each has got. `written`, `acks` and `reads` are histories for the properties;
`written` has every version anyone wrote, with its flags and body.

A call goes through the conversions in the order of the code: `Call` (the API's
items), `Command` (`encode/2`, `get_store_operation_id/1`, the request classes,
`Connection`), `Execute` (the server, then the callback's `Response`), `Reply` or
`ReplyError`, and `Return` with `Decode` (`bulk_get/3` maps `decode/2` over its
results, so one exception takes them all). A process that times out does not
see the answer, though its request still runs. Other clients write meanwhile
(`ForeignStore`), with their own flags.

External, as the code uses them: the servers (CAS comparison, flags kept by
append and prepend, counters; an `add` with a CAS value is refused), and jiffy and `term_to_binary`, whose round trip
is the identity on the values in `Values`; of bytes that are no encoding of
theirs, or more than one, a decoder makes some other term or an exception, and
`binary_to_term` ignores what follows the first term. Counters saturate at 0 and
do not overflow. Not in this model: expiry, locks of `get`, documents reached by
`http`, and `replicate_to`, which is converted as `persist_to` is.

### Marshalling

One request at a time is followed through all conversions: `ItemTerm` is what
the API function makes of its arguments, `Converted` the `nifpp::get` of the
NIF with the `Raw` types of the request classes, `CommandsOf` the commands that
`Connection` builds, with the options of `connect/6`; `ReplyTerm` is `toTerm`
with `errorMessage` and `Result` the clauses of the API function that take the
reply apart. Terms are records with one field, the kind of the term; a string
is a model value, a number an integer, and the widths of the C++ types are
constants. Here a request may fail to convert (`Refuse`), which is the `badarg`
of `Cberl!CrashOnBadarg`; `Representable` says independently what fits, so
`RefusedIfUnfit` states that nothing else is refused and nothing is cut off.
The one place where a number does change is the pair `persist_to`,
`replicate_to`: 16 bits in the command, 32 in the request (`Short`).

With encoder `none` a value that is not a binary reaches `nifpp` as it is. A
list of bytes, numbers from 0 to 255, is taken for a string; for every other term of the type
`value()` the request is refused and the connection's server goes down with it,
although the type specification of `store/7` admits it.

## Runs

| Run | Instance | Shows |
| --- | --- | --- |
| `cberl_safety` | 2 processes, 4 calls | `AnswerIsOwn`, `ExecutedInCallOrder`, `LeftoversAreTimedOut`, `ReceiveIsUnambiguous`, the inductive invariant's `RequestsAreTracked`, and types |
| `cberl_service` | one patient and one impatient process, 3 calls | `Cberl` implements `CallService` (`ImplementsService`) on an `Executor` (`UsesExecutor`); `EveryCallReturns`, `AnsweredWhileUp`, `TornDown` |
| `timed_waits` | the same, 3 calls, Timeout of 2 ticks | `WaitAtMostTwice` |
| `timed_one_timeout` | 2 calls, Timeout of 2 ticks | violated: `CallWithinTimeout` |
| `linked_owner` | 2 processes, one the owner and patient, 2 calls | `ConnectionFollowsOwner`, `OwnerNeverHangs` |
| `lifecycle` | 4 requests | `UsedWhileOpen`, `UpMeansConnected`, `NothingIsLeft`, the inductive invariant `OwnersAreCounted`, types; `ConnectReturns`, `ClientGoes`, `ConnectionGoes` |
| `io_service_tasks` | 5 tasks | `NoLostWakeUp`, `OutstandingIsCounted`, types; `ImplementsExecutor`, `DestructorEnds`, `EveryTaskRuns` |
| `connection_replies` | 2 keys, 2 nodes, 0 to 3 items, 2 operations | `CookieIsAlive`, `RepliesCoverRequest`, `HttpStatusIsSet` |
| `connection_order` | 3 keys, 2 nodes, 1 operation | violated: `RepliesInRequestOrder` |
| `documents_data` | 2 processes, 2 keys, 3 calls, 1 foreign write | `CasIdentifiesValue`, `AckNamesOwnVersion`, and types |
| `documents_effects` | 2 processes, 1 key, 3 nodes, 3 calls, 1 foreign write | `NoLostUpdate`, `EffectIsAsAsked`, `DurableWhenTold` |
| `marshalling_requests` | widths of 2, 4 and 5 bits, all kinds of requests, all error codes, 1 call | `RefusedIfUnfit`, `CommandIsAsAsked`, `ResultIsTold` |

Bounds. Two processes are enough for one to disturb the other (a crash, a full
queue ahead); two calls of one process for a stale message to meet a later
call; the third and fourth call let two stale calls pile up, or both processes
have one. `MaxCalls` is the only bound of `Cberl`; all queues and mailboxes are
bounded by it. Symmetry over processes is used in `cberl_safety` only, where
the two are interchangeable and no liveness is checked. Deadlock checking is
off because the system may really stop: all calls made, or everybody dead.
In `LinkedCberl`, two calls are one of the owner and one of another process,
or a call behind one that crashes the server; the owner has no timeout, so only
the link can end its wait.
In `IoService`, five tasks let a task be posted in every state of the worker
while others wait; the worker can sleep and wake any number of times.
In `Marshalling`, the order of the widths is that of the real ones (16, 32, 64
bits) and the workload has, for every number of every request, the largest
value that fits and the smallest that does not, and for signed ones both ends;
conversions share no state, so one call is enough.
In `Connection`, three items with two keys include a duplicated key, no items
are an empty bulk request, two nodes give both orders of answers, and a second
operation lets leftovers of the first reach it.
In `Lifecycle`, `MaxOps` bounds the requests; the worker has one, so with two or
more there are tasks dropped by the destructor next to one that finishes.
In `Documents`, three calls are a write, a read and a write between or after
them, and the foreign client adds one more; two processes are one that reads a
CAS value and one that interferes. The requests are listed in `MCDocuments`:
`DataWorkload` has every encoder, a guarded replace and remove, an append and
bulk requests; `EffectsWorkload` one document, every way to create or change
it, and durability with `-1` and `2` of three nodes, where `-1` differs from
every number that a clamped or dropped conversion would give.

Fairness (`Cberl!Fairness`): weak fairness of each process's receives and
timers (the Erlang scheduler), of the server's handling of casts, of the worker
(an OS thread; `lcb_wait` returns because libcouchbase times out each
operation), and of the destruction of a dead process's heap. No fairness is
assumed of calls, deaths or exits: nobody has to make or suffer them.
`Lifecycle!Fairness` is the same for `init/1`, the worker and the runtime;
`InitTimeout` is not in it, so `connect/6` returns even with `infinity`.
`LinkedCberl!LinkedFairness` adds that exit signals arrive.
`IoService!FairSpec` has weak fairness of the worker and strong fairness of the
thread outside once it has begun: a worker that is woken for nothing again and
again takes the mutex again and again, and a thread that waits for the mutex
gets it at last. `SpuriousWakeUp` is not in it: nothing waits for one.

Two runs find what the documentation says to be false of the code: the comment
on `call/3` speaks of one timeout where each of two waits has the whole of it,
and the test suite and README expect bulk replies in the order of the request,
which on several nodes is the order of the answers instead. On a single node
that order is the order of the request, except for durability
(`RepliesCoverRequest`).

A call with timeout `infinity` whose server dies waits for ever, since nothing
monitors the server; that is why `AnsweredWhileUp` speaks of a living server and
`EveryCallReturns` of finite timeouts. For the owner of the connection the link
takes the place of a monitor (`OwnerNeverHangs`), unless it traps exits.

## Proofs

Those about `Cberl` are for arbitrary sets of processes and any number of calls; they
assume only `PatientAssumption` and `MaxCallsAssumption`, and beyond them what the
model itself says: request ids are fresh, `lcb_wait` is one step.

* `TypeCorrect`: `Spec => []TypeOK`.
* `Invariance`: `Spec => []IInv`. The properties relate the two ends of a
  request, so none is inductive alone. `IInv` follows a request in between:
  a process is in at most one call, the pending one (`OnePending`); casts on
  their way are in order and later than all the server has handled of that
  process (`CastsInOrder`); so request ids are issued in order
  (`IssuedInOrder`); what ran is a prefix of what was issued and the worker's
  task and the queue come next (`QueueInOrder`); messages carry the id of their
  own request (`MessagesMatch`); and the second wait is for that id
  (`WaitsForOwn`). TLC checks it in `cberl_safety`. There is a lemma per action.
* From it `RequestsTracked`, `AnswersAreOwn`, `RequestsRunInOrder` and
  `ReceivesAreUnambiguous`.
* `LeftoversTimedOut`: `LeftoversAreTimedOut`. It needs three facts more: a request
  that is about to be acknowledged has no acknowledgement yet (`AckedOnce`) and one
  about to be answered no response (`RespondedOnce`), so a call that returns an
  answer has taken all that is ever sent for it; and who died in a call gets no
  messages (`DeadAreSilent`).
* `CberlRefinement!Refinement`: `Spec => ImplementsService`, every step is a step of
  `CallService` or leaves `calls` (as seen by callers) and `executed` alone.
* `CberlRefinement!TaskQueueRefinement`: `Spec => UsesExecutor`. That the server is
  alive when a task is posted, and so the service not stopped, comes from
  `QueueInOrder`; that a task is only begun when none runs from `WorkerIsIdle`.

About `TimedCberl`, for any `TimeoutArg` (`TimeoutArgAssumption`), and about
`LinkedCberl`, whether the owner traps exits or not (`OwnerAssumption`):

* `Untimed`: `TimedSpec => Spec`, so all of the above holds with a clock, too.
* `WaitsAtMostTwice`: `TimedSpec => []WaitAtMostTwice`, from `ClocksAgree`: in the
  first wait both clocks agree, the second begins at no more than `TimeoutArg`.
* `Unlinked`: `LinkedSpec => Spec`, so all safety proved of `Cberl` holds with a
  link, too.
* `NoEndIsLost`: `LinkedSpec => []EndsAreTold`: while one end of the link does not
  know of the other's end, the signal is on its way. The two liveness properties of
  `linked_owner` rest on it; that signals arrive is fairness. The inductive
  invariant (`LinkInv`) adds that signals tell only of ends that happened.

About `Lifecycle`, for any number of requests (`MaxOpsAssumption`):

* `TypeCorrect` and `OwnersCounted`: `Spec => []TypeOK`, `Spec =>
  []OwnersAreCounted`. `UsedWhileOpen` is not inductive: that the instance is
  open when a task starts follows from the pointer the task holds (`count =
  Owners`), from `OwnedMeansOpen`, and, for the first owner, from `StepsInOrder`
  and `QueueShape`: nothing but the connect task is there before the connection
  is. There is one step per action.
* From it `NoUseAfterDestroy` (`UsedWhileOpen`) and `UpIsConnected`
  (`UpMeansConnected`).
* `NoConnectionIsLeft`: `NothingIsLeft`. It needs two facts more: a destroyed
  Client has no thread and no task (`Joined`), so that no owner is left in them,
  and a reported connection without owners is closed (`ClosedByLast`). That the
  response in the worker's hands and the environment of its message are gone,
  too, comes from `StepsInOrder`, and that nothing else counts from `count = Owners`.

About `IoService`, for any number of tasks (`MaxTasksAssumption`):

* `Invariance`: `Spec => []IInv`. `NoLostWakeUp` is not inductive: it follows
  from `EventIsSet` (the event is set whenever a waiting worker has a reason to
  go on, and a blocked worker with a set event has its signal on the way), which
  holds because `waiters` counts exactly a worker inside `pthread_cond_wait` and
  because the event is cleared and the queue looked at under one lock
  (`CriticalSections`). `OutstandingIsCounted` needs `Places`: until `~Client` has
  joined the worker the guard holds a unit of work, so neither `run()` nor the end
  of a task ever finds the count at 0.
* From it `TypeCorrect`, `NoWakeUpIsLost`, `WorkIsCounted`, and `Refinement`:
  `Spec => ImplementsExecutor`.

About `Documents`, for any documents, processes and requests of the types of the
API (`WorkloadAssumption`), any number of calls and of foreign writes, and up to
65535 nodes (`NodesAssumption`: `persist_to` has 16 bits in the command):

* `TypeCorrect`: `Spec => []TypeOK`.
* `ReadsAreWrites`: `CasIdentifiesValue`. Not inductive, since a value passes
  through the bucket and through answers that wait in the queue. The inductive
  invariant says of both that they carry the version that their CAS value names,
  whoever wrote it (`Carries`: they have its flags and its body), of the history
  that a version stored as a whole is what one encoder made of the value, or what
  another client stored (`AsWritten`), and that the bucket never writes an old
  version again (`NoOldVersion`).
* `AcksAreOwn`: `AckNamesOwnVersion`. Answers that wait in the queue tell the CAS
  value of a version this call wrote (`AnswersFit`), and no two requests in the
  queue are of one call (`CallsInOrder`).
* `NothingIsLost`, `OperationsKeepTheirNames` and `ToldIsDurable`: the action
  properties `NoLostUpdate`, `EffectIsAsAsked` and `DurableWhenTold`. The lemmas
  under them follow one item through encoder, operation id, request class and
  command to the server.

About `Connection`, for any keys, nodes, sizes of requests and numbers of operations
(`MaxItemsAssumption`, `MaxOpsAssumption`):

* `TypeCorrect`, `CookiesAreAlive` (`CookieIsAlive`), `EveryItemIsAnswered`
  (`RepliesCoverRequest`) and `StatusesAreSet` (`HttpStatusIsSet`), from one inductive
  invariant. In between, commands that are out belong to the operation in progress
  (`OwnCommands`); the responses that have come answer one item each and the
  commands that are out are exactly the items that are left; except in durability,
  the responses are in increasing order for the items of one node, and what is out
  is behind those of its node that have been answered (`Answering`); and an http operation with neither error nor status still has its
  command out (`Completing`).

About `Marshalling`, for any requests of the types of the API
(`WorkloadAssumption`), any error codes, and any widths in the order of the real
ones such that an int holds the id of an operation (`WidthsAssumption`,
`PowersAssumption`, which spells out the powers, of which the provers know little):

* `UnfitIsRefused`: `RefusedIfUnfit`, in both directions.
* `CommandsAreAsAsked`: `CommandIsAsAsked`, for every item of a bulk request; of the
  options of connect, the loop over them is shown to leave the last value of each
  name (`AllOptions`, a closed form of the fold).
* `ResultsAreTold`: `ResultIsTold`, for all operations, bulk or not, and all codes.

The inductive invariant is simple here: each stage of a request is the conversion of
the stage before. The work is in lemmas about the conversions, one for each kind of
request (`GetItem` ... `StoreItem`), and about their way back (`AnswersAreTold`). TLC
has checked the inductive invariants of `Connection`, `Lifecycle`, `Documents`,
`Marshalling` and `LinkedCberl` on the instances of their runs.

Only model-checked: the liveness properties (out of TLAPS's reach), among them both
of `LinkedCberl`.

An instance whose constructor throws after `lcb_create` (`connection.cc:103-155`)
is never destroyed, since the destructor of an incomplete object does not run:
each failed connect leaves one behind. `ConnectionGoes` excludes it, by
`count = 0`, and says that it is the only kind that stays.

## Not modelled, and the plan

Every part of the program that keeps state or converts data is modelled, and every
invariant and action property that a passing run checks is proved. What is left
are proofs that the parts fit: that a whole operation of `Connection` is what
`Cberl` and `Lifecycle` take for one step of the worker.

Not modelled:

* the loader (`cberl_nif.erl`: stubs that the library replaces when it is
  loaded; `load` and `upgrade` register resource types and keep no state), the
  tests and the build;
* `handle_call`, `handle_info` and `code_change`, which change nothing;
* `replicate_to`, which counts replicas in memory; it is converted as `persist_to`
  is, and so is the `-1` that the README passes for it;
* the exit signal by which a server that fails in `init/1` may end a caller that
  traps no exits; `ConnectReturns` speaks of what `connect/6` returns to others;
* libcouchbase, whose source is not part of the repository: only its contract
  as `connection.cc` uses it;
* what asio has beyond the scheduler of one thread, and the templates of
  `nifpp.h` that no request uses (maps, sets, arrays, pointers);
* exceptions for want of memory or threads (`std::bad_alloc`,
  `std::system_error`), which no NIF catches (`c_src/src/cberl_nif.cc:73`).

Freshness of request ids is an assumption: the code draws three integers from a
31-bit engine per thread (`c_src/src/cberl_nif.cc:25, 40-47`), which makes a
collision unlikely, not impossible.
