------------------------------- MODULE Cberl -------------------------------
(***************************************************************************)
(* One cberl connection at work: the processes that call the API, the      *)
(* gen_server that owns the connection, the NIF that turns a request into  *)
(* a task of the Client, and the Client's single worker thread.            *)
(*                                                                         *)
(* A call has two receive phases (cberl:call/3).  The caller casts the     *)
(* request to the server and waits for {Ref, {ok, ResponseRef}}; then it   *)
(* waits for {ResponseRef, Response}, which the worker thread sends        *)
(* directly to the caller.  Each wait may time out; nothing withdraws the  *)
(* request, so the messages of an abandoned call arrive all the same.      *)
(*                                                                         *)
(* Refs are numbered in the order make_ref/0 returns them and request ids  *)
(* in the order the NIF draws them: only equality of either is ever used   *)
(* by the code, the numbers also record who came first.                    *)
(***************************************************************************)
EXTENDS Naturals, Sequences

CONSTANTS
  Callers,      \* the processes that use the connection
  Patient,      \* those of them that pass the timeout 'infinity'
  MaxCalls      \* bound on the number of calls made in a behaviour

ASSUME PatientAssumption  == Patient \subseteq Callers
ASSUME MaxCallsAssumption == MaxCalls \in Nat

VARIABLES
  calls,     \* the calls made so far, indexed by Ref
  pc,        \* where each process is: idle, in the first or second wait, dead
  cur,       \* the Ref of the call a process is in
  respRef,   \* the ResponseRef a process waits on in its second wait
  mbox,      \* the messages of this protocol in each process's mailbox
  server,    \* "up" or "down"
  inbox,     \* casts on their way to the server, one FIFO per sender
  handling,  \* the request posted by handle_cast/2 but not acknowledged yet
  issued,    \* the Ref for which each request id was drawn
  queue,     \* the io_service's queue of tasks
  stopped,   \* io_service::stop was called
  worker,    \* "idle", "taken", "done" or "exited"
  task,      \* the task the worker is running
  executed   \* the Refs whose request ran on the connection, in order

callerVars == <<pc, cur, respRef, mbox>>
serverVars == <<server, inbox, handling>>
workerVars == <<worker, task, executed>>
vars == <<calls, callerVars, serverVars, issued, queue, stopped, workerVars>>

NoTask == [ref |-> 0, rid |-> 0]
Task   == [ref : Nat, rid : Nat]

Outcomes == {"pending", "answered", "timeout", "aborted"}
CallRecord == [from : Callers, valid : BOOLEAN, outcome : Outcomes, answer : Nat]

(* {Ref, {ok, ResponseRef}} is an "ack", {ResponseRef, Response} a "resp". *)
(* A Ref is a reference and a ResponseRef a triple, so they never match    *)
(* each other; the answer to a request is identified by its Ref.           *)
Message == [tag : {"ack", "resp"}, id : Nat, val : Nat]

TypeOK ==
  /\ calls \in Seq(CallRecord)
  /\ pc \in [Callers -> {"idle", "ack", "resp", "dead"}]
  /\ cur \in [Callers -> Nat]
  /\ respRef \in [Callers -> Nat]
  /\ mbox \in [Callers -> SUBSET Message]
  /\ server \in {"up", "down"}
  /\ inbox \in [Callers -> Seq(Nat)]
  /\ handling \in Task
  /\ issued \in Seq(Nat)
  /\ queue \in Seq(Task)
  /\ stopped \in BOOLEAN
  /\ worker \in {"idle", "taken", "done", "exited"}
  /\ task \in Task
  /\ executed \in Seq(Nat)

Init ==
  /\ calls = <<>>
  /\ pc = [c \in Callers |-> "idle"]
  /\ cur = [c \in Callers |-> 0]
  /\ respRef = [c \in Callers |-> 0]
  /\ mbox = [c \in Callers |-> {}]
  /\ server = "up"
  /\ inbox = [c \in Callers |-> <<>>]
  /\ handling = NoTask
  /\ issued = <<>>
  /\ queue = <<>>
  /\ stopped = FALSE
  /\ worker = "idle"
  /\ task = NoTask
  /\ executed = <<>>

-----------------------------------------------------------------------------
(* Sending to a process that is dead is not an error and has no effect. *)
Deliver(c, m) ==
  mbox' = IF pc[c] = "dead" THEN mbox ELSE [mbox EXCEPT ![c] = @ \cup {m}]

(* The call a process is in comes to an end. *)
Settle(c, result, val) ==
  calls' = [calls EXCEPT ![cur[c]] =
              [from |-> @.from, valid |-> @.valid,
               outcome |-> result, answer |-> val]]

(* The messages the receive expression of the current wait matches. *)
Matching(c) ==
  {m \in mbox[c] : \/ pc[c] = "ack"  /\ m.tag = "ack"  /\ m.id = cur[c]
                   \/ pc[c] = "resp" /\ m.tag = "resp" /\ m.id = respRef[c]}

-----------------------------------------------------------------------------
(* The caller. *)

(* make_ref, then gen_server:cast.  'valid' says whether the NIF will be   *)
(* able to convert the arguments; a cast to a dead server is dropped.      *)
Call(c, valid) ==
  /\ pc[c] = "idle"
  /\ Len(calls) < MaxCalls
  /\ calls' = Append(calls, [from |-> c, valid |-> valid,
                             outcome |-> "pending", answer |-> 0])
  /\ cur' = [cur EXCEPT ![c] = Len(calls) + 1]
  /\ pc' = [pc EXCEPT ![c] = "ack"]
  /\ inbox' = IF server = "up"
                THEN [inbox EXCEPT ![c] = Append(@, Len(calls) + 1)]
                ELSE inbox
  /\ UNCHANGED <<respRef, mbox, server, handling, issued, queue, stopped,
                 workerVars>>

(* Wrong: the first wait also throws away what it did not match. *)
ReceiveAckAndFlush(c) ==
  /\ pc[c] = "ack"
  /\ \E m \in Matching(c) :
       /\ mbox' = [mbox EXCEPT ![c] = {}]
       /\ respRef' = [respRef EXCEPT ![c] = m.val]
  /\ pc' = [pc EXCEPT ![c] = "resp"]
  /\ UNCHANGED <<calls, cur, serverVars, issued, queue, stopped, workerVars>>

(* The first receive_response returns {ok, ResponseRef}. *)
ReceiveAck(c) ==
  /\ pc[c] = "ack"
  /\ \E m \in Matching(c) :
       /\ mbox' = [mbox EXCEPT ![c] = @ \ {m}]
       /\ respRef' = [respRef EXCEPT ![c] = m.val]
  /\ pc' = [pc EXCEPT ![c] = "resp"]
  /\ UNCHANGED <<calls, cur, serverVars, issued, queue, stopped, workerVars>>

(* The second receive_response returns the response, and so does the call. *)
ReceiveResponse(c) ==
  /\ pc[c] = "resp"
  /\ \E m \in Matching(c) :
       /\ mbox' = [mbox EXCEPT ![c] = @ \ {m}]
       /\ Settle(c, "answered", m.val)
  /\ pc' = [pc EXCEPT ![c] = "idle"]
  /\ UNCHANGED <<cur, respRef, serverVars, issued, queue, stopped, workerVars>>

(* Wrong: only the first wait has a timeout. *)
TimeoutOfFirstWait(c) ==
  /\ pc[c] = "ack"
  /\ c \notin Patient
  /\ Matching(c) = {}
  /\ Settle(c, "timeout", 0)
  /\ pc' = [pc EXCEPT ![c] = "idle"]
  /\ UNCHANGED <<cur, respRef, mbox, serverVars, issued, queue, stopped,
                 workerVars>>

(* Wrong: a wait that times out returns something else than a timeout. *)
TimeoutAsError(c) ==
  /\ pc[c] \in {"ack", "resp"}
  /\ c \notin Patient
  /\ Matching(c) = {}
  /\ Settle(c, "error", 0)
  /\ pc' = [pc EXCEPT ![c] = "idle"]
  /\ UNCHANGED <<cur, respRef, mbox, serverVars, issued, queue, stopped,
                 workerVars>>

(* Either wait runs into 'after Timeout' with no matching message. *)
Timeout(c) ==
  /\ pc[c] \in {"ack", "resp"}
  /\ c \notin Patient
  /\ Matching(c) = {}
  /\ Settle(c, "timeout", 0)
  /\ pc' = [pc EXCEPT ![c] = "idle"]
  /\ UNCHANGED <<cur, respRef, mbox, serverVars, issued, queue, stopped,
                 workerVars>>

(* The process dies, in a call or not; its mailbox goes with it. *)
CallerExit(c) ==
  /\ pc[c] # "dead"
  /\ IF pc[c] = "idle" THEN UNCHANGED calls ELSE Settle(c, "aborted", 0)
  /\ pc' = [pc EXCEPT ![c] = "dead"]
  /\ mbox' = [mbox EXCEPT ![c] = {}]
  /\ UNCHANGED <<cur, respRef, serverVars, issued, queue, stopped, workerVars>>

-----------------------------------------------------------------------------
(* The gen_server and the NIF functions it calls. *)

(* The request id NifCTX draws: three random integers, taken to be fresh. *)
StaticReqId == 1                \* were the id drawn once per connection
FreshReqId  == Len(issued) + 1

(* Two wrong ways of posting the task, against which properties are tried: *)
(* in front of those that wait, and twice.                                 *)
NifRequestAtFront(ref) ==
  LET t == [ref |-> ref, rid |-> FreshReqId]
  IN /\ issued' = Append(issued, ref)
     /\ queue' = <<t>> \o queue
     /\ handling' = t

NifRequestTwice(ref) ==
  LET t == [ref |-> ref, rid |-> FreshReqId]
  IN /\ issued' = Append(issued, ref)
     /\ queue' = queue \o <<t, t>>
     /\ handling' = t

(* The NIF posts the task to the Client's io_service and returns the id. *)
NifRequest(ref) ==
  LET t == [ref |-> ref, rid |-> FreshReqId]
  IN /\ issued' = Append(issued, ref)
     /\ queue' = Append(queue, t)
     /\ handling' = t

(* handle_cast/2 up to the return of the NIF call. *)
HandleCast(c) ==
  /\ server = "up" /\ handling = NoTask /\ inbox[c] # <<>>
  /\ calls[Head(inbox[c])].valid
  /\ NifRequest(Head(inbox[c]))
  /\ inbox' = [inbox EXCEPT ![c] = Tail(@)]
  /\ UNCHANGED <<calls, callerVars, server, stopped, workerVars>>

(* From ! {Ref, {ok, Ref2}}: the rest of handle_cast/2. *)
SendAck ==
  /\ handling # NoTask
  /\ Deliver(calls[handling.ref].from,
             [tag |-> "ack", id |-> handling.ref, val |-> handling.rid])
  /\ handling' = NoTask
  /\ UNCHANGED <<calls, pc, cur, respRef, server, inbox, issued, queue, stopped,
                 workerVars>>

(* The server process is gone, with the casts it had not handled. *)
ServerDown ==
  /\ server' = "down"
  /\ inbox' = [c \in Callers |-> <<>>]
  /\ handling' = NoTask
  /\ UNCHANGED <<calls, callerVars, issued, queue, stopped, workerVars>>

(* The NIF cannot convert an argument: badarg is not caught in handle_cast. *)
CrashOnBadarg(c) ==
  /\ server = "up" /\ handling = NoTask /\ inbox[c] # <<>>
  /\ ~calls[Head(inbox[c])].valid
  /\ ServerDown

(* An exit signal: the server is linked to its starter and traps no exits. *)
ServerExit == server = "up" /\ ServerDown

-----------------------------------------------------------------------------
(* The Client: its worker thread and its destructor. *)

(* do_run_one pops the first task unless the io_service is stopped. *)
WorkerTake ==
  /\ worker = "idle" /\ ~stopped /\ queue # <<>>
  /\ worker' = "taken"
  /\ task' = Head(queue)
  /\ queue' = Tail(queue)
  /\ UNCHANGED <<calls, callerVars, serverVars, issued, stopped, executed>>

(* connection->get(request) and its siblings, including the lcb_wait. *)
WorkerExecute ==
  /\ worker = "taken"
  /\ worker' = "done"
  /\ executed' = Append(executed, task.ref)
  /\ UNCHANGED <<calls, callerVars, serverVars, issued, queue, stopped, task>>

(* callback(...): ctx.send to the process that made the call. *)
WorkerRespond ==
  /\ worker = "done"
  /\ Deliver(calls[task.ref].from,
             [tag |-> "resp", id |-> task.rid, val |-> task.ref])
  /\ worker' = "idle"
  /\ task' = NoTask
  /\ UNCHANGED <<calls, pc, cur, respRef, serverVars, issued, queue, stopped,
                 executed>>

(* Wrong: the destructor only joins. *)
JoinWithoutStop ==
  /\ server = "down" /\ ~stopped
  /\ UNCHANGED vars

(* The server's heap is freed: the Client resource's destructor runs.     *)
(* m_ioService.stop() ...                                                 *)
StopClient ==
  /\ server = "down" /\ ~stopped
  /\ stopped' = TRUE
  /\ UNCHANGED <<calls, callerVars, serverVars, issued, queue, workerVars>>

(* ... m_worker.join(): run() returns once the current task is finished ... *)
WorkerExit ==
  /\ worker = "idle" /\ stopped
  /\ worker' = "exited"
  /\ UNCHANGED <<calls, callerVars, serverVars, issued, queue, stopped, task,
                 executed>>

(* ... and ~io_service destroys the tasks that were never run. *)
DropQueue ==
  /\ worker = "exited" /\ queue # <<>>
  /\ queue' = <<>>
  /\ UNCHANGED <<calls, callerVars, serverVars, issued, stopped, workerVars>>

-----------------------------------------------------------------------------
CallerNext(c) ==
  \/ \E valid \in BOOLEAN : Call(c, valid)
  \/ ReceiveAck(c)
  \/ ReceiveResponse(c)
  \/ Timeout(c)
  \/ CallerExit(c)

ServerNext ==
  \/ \E c \in Callers : HandleCast(c) \/ CrashOnBadarg(c)
  \/ SendAck
  \/ ServerExit

WorkerNext == WorkerTake \/ WorkerExecute \/ WorkerRespond \/ WorkerExit

TeardownNext == StopClient \/ DropQueue

Next ==
  (\E c \in Callers : CallerNext(c)) \/ ServerNext \/ WorkerNext \/ TeardownNext

Spec == Init /\ [][Next]_vars

(* Processes and the worker thread are scheduled, lcb_wait returns because  *)
(* libcouchbase times operations out, timers fire and a dead process's heap *)
(* is freed.  Nobody has to make a call, to die or to be killed.            *)
Fairness ==
  /\ \A c \in Callers : /\ WF_vars(ReceiveAck(c))
                        /\ WF_vars(ReceiveResponse(c))
                        /\ WF_vars(Timeout(c))
                        /\ WF_vars(HandleCast(c) \/ CrashOnBadarg(c))
  /\ WF_vars(SendAck)
  /\ WF_vars(WorkerNext)
  /\ WF_vars(TeardownNext)

FairSpec == Spec /\ Fairness

-----------------------------------------------------------------------------
(* Safety. *)

RunRefs == {executed[i] : i \in DOMAIN executed}

(* A call that returns an answer returns the answer to its own request, and *)
(* that request did run: whatever is left in the mailbox by calls that      *)
(* timed out is never taken for it (receive_response/2, NifCTX::reqId).     *)
AnswerIsOwn ==
  \A r \in DOMAIN calls :
     calls[r].outcome = "answered" => calls[r].answer = r /\ r \in RunRefs

(* No request runs twice, and the requests of one process run in the order  *)
(* in which it made its calls, also when it gave up on the earlier ones and *)
(* they run behind its back (call/3, handle_cast/2, Client's single thread).*)
ExecutedInCallOrder ==
  \A i, j \in DOMAIN executed :
     i < j /\ calls[executed[i]].from = calls[executed[j]].from
       => executed[i] < executed[j]

(* The call a message belongs to. *)
RefOf(m) == IF m.tag = "ack" THEN m.id ELSE m.val

(* The mailbox of a process holds only messages of the call it is in and of *)
(* calls that timed out: a call that succeeds leaves nothing behind, so     *)
(* only timeouts make a mailbox grow (receive_response/2).                  *)
LeftoversAreTimedOut ==
  \A c \in Callers : \A m \in mbox[c] :
     calls[RefOf(m)].outcome \in {"pending", "timeout"}

(* A receive expression never has two messages to choose between, so that   *)
(* the order of the mailbox does not matter (it is a set here).             *)
ReceiveIsUnambiguous ==
  \A c \in Callers : \A m, n \in Matching(c) : m = n

(* A call as its caller sees it. *)
CallsSeen == [r \in DOMAIN calls |-> [from    |-> calls[r].from,
                                      outcome |-> calls[r].outcome,
                                      answer  |-> calls[r].answer]]

(* The whole implements the service the API promises: at most once, in the  *)
(* order of each process, answers that belong to their calls, and calls     *)
(* that never change once they have returned.                               *)
Service == INSTANCE CallService WITH calls <- CallsSeen, applied <- executed

ImplementsService == Service!Spec

(* The Client's queue and worker are an executor of tasks in the order in   *)
(* which their request ids were drawn, as IoService implements it; the task *)
(* counts as run when its answer is on its way.                             *)
TaskQueue == INSTANCE Executor WITH
  posted  <- Len(issued),
  waiting <- [i \in DOMAIN queue |-> queue[i].rid],
  running <- task.rid,
  ran     <- IF worker = "done" THEN Len(executed) - 1 ELSE Len(executed),
  ended   <- worker = "exited"

UsesExecutor == TaskQueue!Spec

-----------------------------------------------------------------------------
(* Liveness, under FairSpec. *)

Pending(r) == r \in DOMAIN calls /\ calls[r].outcome = "pending"

(* A call with a finite timeout returns, whatever happens to the server,    *)
(* the worker or the messages (the two 'after' clauses of call/3).          *)
EveryCallReturns ==
  \A r \in 1..MaxCalls :
     Pending(r) /\ calls[r].from \notin Patient ~> ~Pending(r)

(* A call returns as long as the server lives, even with the timeout        *)
(* 'infinity' and even when the response overtakes the acknowledgement.     *)
AnsweredWhileUp ==
  \A r \in 1..MaxCalls : Pending(r) ~> ~Pending(r) \/ server = "down"

(* When the server is gone the worker thread ends - ~Client never waits for *)
(* ever in join() - and no task keeps a connection alive.                   *)
TornDown == server = "down" ~> worker = "exited" /\ queue = <<>>
=============================================================================
