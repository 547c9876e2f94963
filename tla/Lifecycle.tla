----------------------------- MODULE Lifecycle -----------------------------
(***************************************************************************)
(* The life of one connection, from cberl:connect/6 to the end of its      *)
(* gen_server: who creates, holds and destroys the Client, the Connection  *)
(* and the libcouchbase instance.                                          *)
(*                                                                         *)
(* The Connection is owned by shared pointers: one in the ConnectResponse  *)
(* that reports it, one in the Erlang resource made from that response and *)
(* one in every task that works on it.  They are dropped by three threads: *)
(* the worker, the one that frees the dead server's heap, and the one that *)
(* runs the Client's destructor.  The Client has one owner, the resource   *)
(* on the server's heap.  What operations do is in Cberl and Connection.   *)
(***************************************************************************)
EXTENDS Naturals, Sequences

CONSTANT MaxOps     \* bound on the number of requests

ASSUME MaxOpsAssumption == MaxOps \in Nat

VARIABLES
  server,     \* the gen_server: place in init/1, "up" or "dead"
  result,     \* what connect/6 has returned
  mailbox,    \* the answer to the connect request, "ok" or "error"
  client,     \* the Client: "none", "live", "stopping" or "destroyed"
  queue,      \* its io_service's tasks
  worker,     \* what its thread does
  response,   \* the ConnectResponse in the worker's hands
  instance,   \* the libcouchbase instance: "none", "open" or "destroyed"
  resource,   \* where the term of the Connection's resource is
  count,      \* the use count of the Connection's shared pointers
  ops         \* number of requests so far

serverVars == <<server, result, mailbox>>
clientVars == <<client, queue, worker, response>>
connVars   == <<instance, resource, count>>
vars       == <<serverVars, clientVars, connVars, ops>>

Answers == {"none", "ok", "error"}

TypeOK ==
  /\ server \in {"new", "connect", "wait", "up", "dead"}
  /\ result \in Answers
  /\ mailbox \in Answers
  /\ client \in {"none", "live", "stopping", "destroyed"}
  /\ queue \in Seq({"connect", "op"})
  /\ worker \in {"none", "idle", "create", "configure", "respond", "finish",
                 "op", "exited"}
  /\ response \in Answers
  /\ instance \in {"none", "open", "destroyed"}
  /\ resource \in {"none", "env", "mailbox", "heap", "freed"}
  /\ count \in Nat
  /\ ops \in 0..MaxOps

Init ==
  /\ server = "new" /\ result = "none" /\ mailbox = "none"
  /\ client = "none" /\ queue = <<>> /\ worker = "none" /\ response = "none"
  /\ instance = "none" /\ resource = "none" /\ count = 0
  /\ ops = 0

-----------------------------------------------------------------------------
One(owned) == IF owned THEN 1 ELSE 0

(* Tasks that hold a shared pointer: the connect task has none.             *)
QueuedOps == IF queue = <<"connect">> THEN 0 ELSE Len(queue)

(* n shared pointers go; the last one takes the Connection and the instance *)
(* with it.                                                                 *)
Drop(n) ==
  /\ count' = count - n
  /\ instance' = IF n > 0 /\ count = n THEN "destroyed" ELSE instance

(* The server ends, and its mailbox with it.  A process that still waits in *)
(* connect/6 learns of it.                                                  *)
ServerEnds ==
  /\ server' = "dead"
  /\ result' = IF result = "none" THEN "error" ELSE result
  /\ UNCHANGED <<mailbox, clientVars, connVars, ops>>

-----------------------------------------------------------------------------
(* The server.  cberl_nif:new/0: the Client starts its thread.              *)
New ==
  /\ server = "new"
  /\ server' = "connect"
  /\ client' = "live" /\ worker' = "idle"
  /\ UNCHANGED <<result, mailbox, queue, response, connVars, ops>>

(* cberl_nif:connect/7, Client::connect. *)
Connect ==
  /\ server = "connect"
  /\ server' = "wait"
  /\ queue' = Append(queue, "connect")
  /\ UNCHANGED <<result, mailbox, client, worker, response, connVars, ops>>

(* An argument that cannot be converted: badarg in init/1. *)
ConnectBadarg == server = "connect" /\ ServerEnds

(* Wrong: an error is taken for a connection. *)
ReceiveAnything ==
  /\ server = "wait" /\ mailbox # "none"
  /\ server' = "up" /\ result' = "ok" /\ mailbox' = "none"
  /\ resource' = IF resource = "mailbox" THEN "heap" ELSE resource
  /\ UNCHANGED <<clientVars, instance, count, ops>>

(* {Ref, {ok, Connection}}. *)
ReceiveConnection ==
  /\ server = "wait" /\ mailbox = "ok"
  /\ server' = "up" /\ result' = "ok" /\ mailbox' = "none"
  /\ resource' = "heap"
  /\ UNCHANGED <<clientVars, instance, count, ops>>

(* {Ref, {error, Reason}} -> {stop, Reason}. *)
ReceiveError == server = "wait" /\ mailbox = "error" /\ ServerEnds

(* after Timeout -> {stop, timeout}, while the Client is still at it. *)
InitTimeout == server = "wait" /\ mailbox = "none" /\ ServerEnds

(* An exit signal, or the crash of handle_cast/2 on badarg. *)
Exit == server # "dead" /\ ServerEnds

(* Wrong: the task borrows the resource's Connection. *)
RequestBorrows ==
  /\ server = "up" /\ ops < MaxOps
  /\ ops' = ops + 1
  /\ queue' = Append(queue, "op")
  /\ UNCHANGED <<serverVars, client, worker, response, connVars>>

(* A NIF request: get copies the resource's shared pointer into the task. *)
Request ==
  /\ server = "up" /\ ops < MaxOps
  /\ ops' = ops + 1
  /\ queue' = Append(queue, "op")
  /\ count' = count + 1
  /\ UNCHANGED <<serverVars, client, worker, response, instance, resource>>

-----------------------------------------------------------------------------
(* The worker. *)
Take ==
  /\ worker = "idle" /\ client = "live" /\ queue # <<>>
  /\ worker' = IF Head(queue) = "connect" THEN "create" ELSE "op"
  /\ queue' = Tail(queue)
  /\ UNCHANGED <<serverVars, client, response, connVars, ops>>

(* lcb_create fails: the constructor throws before there is an instance. *)
CreateFails ==
  /\ worker = "create"
  /\ worker' = "respond" /\ response' = "error"
  /\ UNCHANGED <<serverVars, client, queue, connVars, ops>>

Create ==
  /\ worker = "create"
  /\ worker' = "configure"
  /\ instance' = "open"
  /\ UNCHANGED <<serverVars, client, queue, response, resource, count, ops>>

(* Wrong: nobody catches what the constructor throws. *)
ConnectFailsSilently ==
  /\ worker = "configure"
  /\ worker' = "idle"
  /\ UNCHANGED <<serverVars, client, queue, response, connVars, ops>>

(* lcb_cntl, lcb_connect or lcb_wait fails: the constructor throws, and as  *)
(* the object was never complete the destructor does not run.               *)
ConnectFails ==
  /\ worker = "configure"
  /\ worker' = "respond" /\ response' = "error"
  /\ UNCHANGED <<serverVars, client, queue, connVars, ops>>

(* The Connection is complete; its first owner is the response. *)
Connected ==
  /\ worker = "configure"
  /\ worker' = "respond" /\ response' = "ok"
  /\ count' = 1
  /\ UNCHANGED <<serverVars, client, queue, instance, resource, ops>>

(* ConnectResponse::toTerm and NifCTX::send.  A term for a dead process     *)
(* stays in the task's environment.                                         *)
Respond ==
  /\ worker = "respond"
  /\ worker' = "finish"
  /\ mailbox' = IF server = "dead" THEN mailbox ELSE response
  /\ IF response = "ok"
       THEN /\ resource' = IF server = "dead" THEN "env" ELSE "mailbox"
            /\ count' = count + 1
       ELSE UNCHANGED <<resource, count>>
  /\ UNCHANGED <<server, result, client, queue, response, instance, ops>>

(* Wrong: the environment of a message that was not delivered is lost. *)
FinishWithoutEnv ==
  /\ worker = "finish"
  /\ worker' = "idle" /\ response' = "none"
  /\ Drop(One(response = "ok"))
  /\ UNCHANGED <<serverVars, client, queue, resource, ops>>

(* Wrong: the environment is freed although the message has left it. *)
FinishWithEnv ==
  /\ worker = "finish"
  /\ worker' = "idle" /\ response' = "none"
  /\ Drop(2 * One(response = "ok"))
  /\ UNCHANGED <<serverVars, client, queue, resource, ops>>

(* The task ends: its response goes, and its environment with it. *)
Finish ==
  /\ worker = "finish"
  /\ worker' = "idle" /\ response' = "none"
  /\ Drop(One(response = "ok") + One(resource = "env"))
  /\ resource' = IF resource = "env" THEN "freed" ELSE resource
  /\ UNCHANGED <<serverVars, client, queue, ops>>

(* The task of a request ends and drops its shared pointer. *)
FinishOp ==
  /\ worker = "op"
  /\ worker' = "idle"
  /\ Drop(1)
  /\ UNCHANGED <<serverVars, client, queue, response, resource, ops>>

(* io_service::run returns once stopped. *)
WorkerExit ==
  /\ worker = "idle" /\ client = "stopping"
  /\ worker' = "exited"
  /\ UNCHANGED <<serverVars, client, queue, response, connVars, ops>>

-----------------------------------------------------------------------------
(* The runtime frees the heap and the mailbox of the dead server, its terms *)
(* in no particular order.                                                  *)
FreeConnection ==
  /\ server = "dead" /\ resource \in {"mailbox", "heap"}
  /\ resource' = "freed"
  /\ Drop(1)
  /\ UNCHANGED <<serverVars, clientVars, ops>>

(* Wrong: the Client is only destroyed with a connection. *)
FreeClientOfConnection ==
  /\ server = "dead" /\ client = "live" /\ resource = "freed"
  /\ client' = "stopping"
  /\ UNCHANGED <<serverVars, queue, worker, response, connVars, ops>>

(* The destructor of the Client stops the io_service ... *)
FreeClient ==
  /\ server = "dead" /\ client = "live"
  /\ client' = "stopping"
  /\ UNCHANGED <<serverVars, queue, worker, response, connVars, ops>>

(* Wrong: without the join, the io_service goes while its thread runs. *)
DestroyClientAtOnce ==
  /\ client = "stopping"
  /\ client' = "destroyed" /\ queue' = <<>>
  /\ Drop(QueuedOps)
  /\ UNCHANGED <<serverVars, worker, response, resource, ops>>

(* ... joins the thread, and destroys the tasks that are left. *)
DestroyClient ==
  /\ client = "stopping" /\ worker = "exited"
  /\ client' = "destroyed" /\ queue' = <<>>
  /\ Drop(QueuedOps)
  /\ UNCHANGED <<serverVars, worker, response, resource, ops>>

-----------------------------------------------------------------------------
ServerNext == \/ New \/ Connect \/ ConnectBadarg
              \/ ReceiveConnection \/ ReceiveError \/ InitTimeout
              \/ Exit \/ Request

WorkerNext == \/ Take \/ CreateFails \/ Create \/ ConnectFails \/ Connected
              \/ Respond \/ Finish \/ FinishOp \/ WorkerExit

RuntimeNext == FreeConnection \/ FreeClient \/ DestroyClient

Next == ServerNext \/ WorkerNext \/ RuntimeNext

Spec == Init /\ [][Next]_vars

(* The scheduler runs init/1 on; an OS thread runs on, and lcb_wait returns *)
(* since libcouchbase bounds the bootstrap and each operation; the terms of *)
(* a dead process are freed.  No one has to time out, exit or make a call.  *)
Fairness ==
  /\ WF_vars(New) /\ WF_vars(Connect \/ ConnectBadarg)
  /\ WF_vars(ReceiveConnection) /\ WF_vars(ReceiveError)
  /\ WF_vars(WorkerNext)
  /\ WF_vars(FreeConnection) /\ WF_vars(FreeClient) /\ WF_vars(DestroyClient)

FairSpec == Spec /\ Fairness

-----------------------------------------------------------------------------
(* A task that runs an operation has an instance to run it on, whatever has *)
(* been freed since it was posted (Client::get and its siblings capture the *)
(* shared pointer).                                                         *)
UsedWhileOpen == worker = "op" => instance = "open"

(* A server that accepts requests owns a connection: none ever sees badarg  *)
(* for want of one (init/1 only returns {ok, State} with a Connection).     *)
UpMeansConnected == server = "up" => resource = "heap" /\ instance = "open"

(* When ~Client is done and the terms of the dead server are freed, nothing *)
(* owns the Connection any more, and one that was reported is closed.  This *)
(* holds wherever in connect/6 or in a request the server died, and         *)
(* whichever of the three threads came last: ~Client joins a worker that    *)
(* may have a Connection in its hands, and what the join has not let it     *)
(* finish is in the queue.                                                  *)
NothingIsLeft ==
  client = "destroyed" /\ resource \notin {"mailbox", "heap"} =>
    count = 0 /\ (resource = "freed" => instance = "destroyed")

-----------------------------------------------------------------------------
(* The inductive invariant behind these.                                    *)
Owners ==
  One(response = "ok") + One(resource \in {"env", "mailbox", "heap"})
  + One(worker = "op") + QueuedOps

OwnedMeansOpen == count > 0 => instance = "open"

(* Requests come after the connection, so the queue never mixes the two.    *)
QueueShape ==
  \/ queue = <<"connect">> /\ worker \in {"idle", "exited"} /\ response = "none"
  \/ \A i \in DOMAIN queue : queue[i] = "op"

Connecting == worker \in {"create", "configure", "respond"} \/ queue = <<"connect">>

StepsInOrder ==
  /\ server \in {"new", "connect"} => queue = <<>> /\ worker \in {"none", "idle"}
                                     /\ resource = "none" /\ response = "none"
                                     /\ mailbox = "none"
  /\ Connecting => /\ server \in {"wait", "dead"}
                   /\ resource = "none" /\ mailbox = "none"
                   /\ queue # <<"connect">> => queue = <<>>
  /\ worker \in {"respond", "finish"} <=> response # "none"
  /\ worker = "configure" => instance = "open"
  /\ worker = "finish" /\ response = "ok" => resource # "none"
  /\ resource = "env" => server = "dead" /\ worker = "finish" /\ response = "ok"
  /\ server = "wait" => resource = (IF mailbox = "ok" THEN "mailbox" ELSE "none")
  /\ server = "wait" => \A i \in DOMAIN queue : queue[i] = "connect"
  /\ server = "up" => resource = "heap"
  /\ client = "none" <=> worker = "none"
  /\ client = "none" => queue = <<>>
  /\ worker = "exited" => client \in {"stopping", "destroyed"}
  /\ server = "new" => client = "none"
  /\ server \in {"connect", "wait", "up"} => client = "live"

(* The use count is exactly the number of owners there are, an owned        *)
(* Connection has an open instance, and server, worker and queue agree on   *)
(* how far connect/6 has got (nifpp's construct_resource and resource_dtor, *)
(* and the captures in client.cc, keep the count).                          *)
OwnersAreCounted ==
  count = Owners /\ OwnedMeansOpen /\ QueueShape /\ StepsInOrder

-----------------------------------------------------------------------------
(* connect/6 returns, also with the timeout infinity: every path of the     *)
(* connect task reports to init/1 (Client::connect catches what the         *)
(* constructor throws).  A caller that traps no exits may end by the link   *)
(* to a server that fails before it sees the result.                        *)
ConnectReturns == <>(result # "none")

(* The thread of a dead server's Client goes away, also if the server gave  *)
(* up in init/1 or never had a connection.                                  *)
ClientGoes == server = "dead" ~> client \in {"none", "destroyed"}

(* No connection outlives its server, not even one that is completed after  *)
(* init/1 has timed out; only an instance whose constructor threw (count 0) *)
(* stays open for ever.                                                     *)
ConnectionGoes == server = "dead" ~> [](instance = "open" => count = 0)
=============================================================================
