-------------------------- MODULE LifecycleProofs --------------------------
(***************************************************************************)
(* Proofs of the safety properties of Lifecycle, for any number of         *)
(* requests.                                                               *)
(***************************************************************************)
EXTENDS Lifecycle, TLAPS

(* A destroyed Client has neither a thread nor a task.                      *)
Joined == client = "destroyed" => worker \in {"none", "exited"} /\ queue = <<>>

(* A connection that was reported is closed by its last owner.              *)
ClosedByLast == resource # "none" /\ count = 0 => instance = "destroyed"

IInv == TypeOK /\ OwnersAreCounted /\ Joined /\ ClosedByLast

Held == resource \in {"env", "mailbox", "heap"}

(* The queue that Append and Tail leave. *)
LEMMA QueueFacts ==
  ASSUME NEW q \in Seq({"connect", "op"}), NEW t \in {"connect", "op"}
  PROVE  /\ Len(q) \in Nat
         /\ Append(q, t) \in Seq({"connect", "op"})
         /\ Len(Append(q, t)) = Len(q) + 1
         /\ \A i \in DOMAIN Append(q, t) : i = Len(q) + 1 \/ i \in DOMAIN q
         /\ \A i \in DOMAIN q : Append(q, t)[i] = q[i]
         /\ Append(q, t)[Len(q) + 1] = t
         /\ q # <<>> => /\ Tail(q) \in Seq({"connect", "op"})
                        /\ Len(Tail(q)) = Len(q) - 1
                        /\ \A i \in DOMAIN Tail(q) : i + 1 \in DOMAIN q /\ Tail(q)[i] = q[i + 1]
                        /\ 1 \in DOMAIN q /\ Head(q) = q[1]
  OBVIOUS

LEMMA NoConnectTask ==
  ASSUME NEW q \in Seq({"connect", "op"}), \A i \in DOMAIN q : q[i] = "op"
  PROVE  q # <<"connect">>
<1>1. SUFFICES ASSUME q = <<"connect">> PROVE FALSE
  OBVIOUS
<1>2. 1 \in DOMAIN q /\ q[1] = "connect"
  BY <1>1
<1>. QED
  BY <1>2

(* A queue of requests only holds a shared pointer in each of its tasks. *)
LEMMA OpsOnly ==
  ASSUME queue \in Seq({"connect", "op"}), \A i \in DOMAIN queue : queue[i] = "op"
  PROVE  queue # <<"connect">> /\ QueuedOps = Len(queue)
<1>1. queue # <<"connect">>
  BY NoConnectTask
<1>. QED
  BY <1>1 DEF QueuedOps

LEMMA CountsAreNat ==
  ASSUME TypeOK
  PROVE  /\ One(response = "ok") \in {0, 1} /\ One(worker = "op") \in {0, 1}
         /\ One(Held) \in {0, 1} /\ One(resource = "env") \in {0, 1}
         /\ Len(queue) \in Nat /\ QueuedOps \in Nat
<1>1. Len(queue) \in Nat
  BY DEF TypeOK
<1>2. QueuedOps \in Nat
  BY <1>1 DEF QueuedOps
<1>. QED
  BY <1>1, <1>2 DEF One

LEMMA InitInv == Init => IInv
  BY MaxOpsAssumption DEF Init, IInv, TypeOK, Answers, OwnersAreCounted, OwnedMeansOpen, Owners, QueuedOps, QueueShape, Connecting, StepsInOrder, Joined, ClosedByLast, One

LEMMA NewInv ==
  ASSUME IInv, New
  PROVE  IInv'
<1>. USE DEF New, vars, serverVars, clientVars, connVars
<1>0. /\ TypeOK /\ Joined /\ ClosedByLast
      /\ count = Owners /\ OwnedMeansOpen /\ QueueShape /\ StepsInOrder
  BY DEF IInv, OwnersAreCounted
<1>1. (count = Owners)'
  BY <1>0 DEF TypeOK, Owners, One, QueuedOps, QueueShape, StepsInOrder, Connecting
<1>2. TypeOK'
  BY <1>0, MaxOpsAssumption DEF TypeOK, Answers
<1>3. OwnedMeansOpen'
  BY <1>0 DEF TypeOK, OwnedMeansOpen, Owners, One, QueuedOps, StepsInOrder, Connecting
<1>4. QueueShape'
  BY <1>0 DEF TypeOK, QueueShape, StepsInOrder, Connecting
<1>5. StepsInOrder'
  BY <1>0 DEF TypeOK, QueueShape, StepsInOrder, Connecting
<1>6. Joined'
  BY <1>0 DEF TypeOK, Joined, StepsInOrder
<1>7. ClosedByLast'
  BY <1>0 DEF TypeOK, ClosedByLast, StepsInOrder, Connecting
<1>. QED
  BY <1>1, <1>2, <1>3, <1>4, <1>5, <1>6, <1>7 DEF IInv, OwnersAreCounted

LEMMA ConnectInv ==
  ASSUME IInv, Connect
  PROVE  IInv'
<1>. USE DEF Connect, vars, serverVars, clientVars, connVars
<1>0. /\ TypeOK /\ Joined /\ ClosedByLast
      /\ count = Owners /\ OwnedMeansOpen /\ QueueShape /\ StepsInOrder
  BY DEF IInv, OwnersAreCounted
<1>a. queue = <<>> /\ queue' = <<"connect">>
  BY <1>0 DEF StepsInOrder, TypeOK
<1>1. (count = Owners)'
  BY <1>0 DEF TypeOK, Owners, One, QueuedOps, QueueShape, StepsInOrder, Connecting
<1>2. TypeOK'
  BY <1>0, MaxOpsAssumption DEF TypeOK, Answers
<1>3. OwnedMeansOpen'
  BY <1>0 DEF TypeOK, OwnedMeansOpen, Owners, One, QueuedOps, StepsInOrder, Connecting
<1>4. QueueShape'
  BY <1>0, <1>a DEF TypeOK, QueueShape, StepsInOrder
<1>5. StepsInOrder'
  <2>1. \A i \in DOMAIN queue' : queue'[i] = "connect"
    BY <1>a
  <2>. QED
    BY <1>0, <1>a, <2>1 DEF TypeOK, StepsInOrder, Connecting
<1>6. Joined'
  BY <1>0 DEF TypeOK, Joined, StepsInOrder
<1>7. ClosedByLast'
  BY <1>0 DEF TypeOK, ClosedByLast, StepsInOrder, Connecting
<1>. QED
  BY <1>1, <1>2, <1>3, <1>4, <1>5, <1>6, <1>7 DEF IInv, OwnersAreCounted

LEMMA ServerEndsInv ==
  ASSUME IInv, ServerEnds
  PROVE  IInv'
<1>. USE DEF ServerEnds, vars, serverVars, clientVars, connVars
<1>0. /\ TypeOK /\ Joined /\ ClosedByLast
      /\ count = Owners /\ OwnedMeansOpen /\ QueueShape /\ StepsInOrder
  BY DEF IInv, OwnersAreCounted
<1>1. (count = Owners)'
  BY <1>0 DEF TypeOK, Owners, One, QueuedOps, QueueShape, StepsInOrder, Connecting
<1>2. TypeOK'
  BY <1>0, MaxOpsAssumption DEF TypeOK, Answers
<1>3. OwnedMeansOpen'
  BY <1>0 DEF TypeOK, OwnedMeansOpen, Owners, One, QueuedOps, StepsInOrder, Connecting
<1>4. QueueShape'
  BY <1>0 DEF TypeOK, QueueShape, StepsInOrder, Connecting
<1>5. StepsInOrder'
  BY <1>0 DEF TypeOK, QueueShape, StepsInOrder, Connecting
<1>6. Joined'
  BY <1>0 DEF TypeOK, Joined, StepsInOrder
<1>7. ClosedByLast'
  BY <1>0 DEF TypeOK, ClosedByLast, StepsInOrder, Connecting
<1>. QED
  BY <1>1, <1>2, <1>3, <1>4, <1>5, <1>6, <1>7 DEF IInv, OwnersAreCounted

LEMMA ReceiveConnectionInv ==
  ASSUME IInv, ReceiveConnection
  PROVE  IInv'
<1>. USE DEF ReceiveConnection, vars, serverVars, clientVars, connVars
<1>0. /\ TypeOK /\ Joined /\ ClosedByLast
      /\ count = Owners /\ OwnedMeansOpen /\ QueueShape /\ StepsInOrder
  BY DEF IInv, OwnersAreCounted
<1>1. (count = Owners)'
  BY <1>0 DEF TypeOK, Owners, One, QueuedOps, QueueShape, StepsInOrder, Connecting
<1>2. TypeOK'
  BY <1>0, MaxOpsAssumption DEF TypeOK, Answers
<1>3. OwnedMeansOpen'
  BY <1>0 DEF TypeOK, OwnedMeansOpen, Owners, One, QueuedOps, StepsInOrder, Connecting
<1>4. QueueShape'
  BY <1>0 DEF TypeOK, QueueShape, StepsInOrder, Connecting
<1>5. StepsInOrder'
  BY <1>0 DEF TypeOK, QueueShape, StepsInOrder, Connecting
<1>6. Joined'
  BY <1>0 DEF TypeOK, Joined, StepsInOrder
<1>7. ClosedByLast'
  BY <1>0 DEF TypeOK, ClosedByLast, StepsInOrder, Connecting
<1>. QED
  BY <1>1, <1>2, <1>3, <1>4, <1>5, <1>6, <1>7 DEF IInv, OwnersAreCounted

LEMMA RequestInv ==
  ASSUME IInv, Request
  PROVE  IInv'
<1>. USE DEF Request, vars, serverVars, clientVars, connVars
<1>0. /\ TypeOK /\ Joined /\ ClosedByLast
      /\ count = Owners /\ OwnedMeansOpen /\ QueueShape /\ StepsInOrder
  BY DEF IInv, OwnersAreCounted
<1>a. queue \in Seq({"connect", "op"}) /\ \A i \in DOMAIN queue : queue[i] = "op"
  BY <1>0 DEF QueueShape, StepsInOrder, Connecting, TypeOK
<1>b. /\ queue' \in Seq({"connect", "op"}) /\ Len(queue') = Len(queue) + 1
      /\ \A i \in DOMAIN queue' : queue'[i] = "op"
  BY <1>a, QueueFacts
<1>c. queue' # <<"connect">>
  BY <1>b, NoConnectTask
<1>n. count \in Nat /\ Len(queue) \in Nat /\ One(response = "ok") \in {0, 1} /\ One(worker = "op") \in {0, 1}
      /\ One(Held) \in {0, 1} /\ One(resource = "env") \in {0, 1} /\ QueuedOps \in Nat
  BY <1>0, CountsAreNat DEF TypeOK
<1>d. /\ One(response = "ok")' = One(response = "ok") /\ One(response = "ok")' \in {0, 1}
      /\ One(worker = "op")' = One(worker = "op") /\ One(worker = "op")' \in {0, 1}
      /\ One(Held)' = One(Held) /\ One(Held)' \in {0, 1}
  BY <1>0, <1>b, MaxOpsAssumption DEF One, Held, StepsInOrder, TypeOK
<1>q. QueuedOps' = QueuedOps + 1
  BY <1>a, <1>b, <1>c, OpsOnly DEF QueuedOps
<1>o. /\ Owners = One(response = "ok") + One(Held) + One(worker = "op") + QueuedOps
      /\ Owners' = One(response = "ok")' + One(Held)' + One(worker = "op")' + QueuedOps'
  BY DEF Owners, Held
<1>1. (count = Owners)'
  BY <1>0, <1>n, <1>d, <1>q, <1>o
<1>2. TypeOK'
  <2>1. count' \in Nat
    BY <1>1, <1>n, <1>d, <1>q, <1>o
  <2>2. instance' \in {"none", "open", "destroyed"}
    BY <1>0 DEF TypeOK
  <2>. QED
    BY <1>0, <2>1, <2>2, <1>b, MaxOpsAssumption DEF TypeOK, Answers
<1>3. OwnedMeansOpen'
  <2>1. One(Held) = 1
    BY <1>0 DEF One, Held, StepsInOrder
  <2>. QED
    BY <1>0, <1>n, <1>o, <2>1 DEF OwnedMeansOpen
<1>4. QueueShape'
  BY <1>b DEF QueueShape
<1>5. StepsInOrder'
  BY <1>0, <1>a, <1>c DEF TypeOK, StepsInOrder, Connecting
<1>6. Joined'
  BY <1>0 DEF TypeOK, Joined, StepsInOrder
<1>7. ClosedByLast'
  BY <1>0, <1>n DEF TypeOK, ClosedByLast, StepsInOrder, Connecting
<1>. QED
  BY <1>1, <1>2, <1>3, <1>4, <1>5, <1>6, <1>7 DEF IInv, OwnersAreCounted

LEMMA TakeInv ==
  ASSUME IInv, Take
  PROVE  IInv'
<1>. USE DEF Take, vars, serverVars, clientVars, connVars
<1>0. /\ TypeOK /\ Joined /\ ClosedByLast
      /\ count = Owners /\ OwnedMeansOpen /\ QueueShape /\ StepsInOrder
  BY DEF IInv, OwnersAreCounted
<1>a. /\ queue' \in Seq({"connect", "op"}) /\ Len(queue') = Len(queue) - 1
      /\ \A i \in DOMAIN queue' : i + 1 \in DOMAIN queue /\ queue'[i] = queue[i + 1]
      /\ 1 \in DOMAIN queue /\ Head(queue) = queue[1]
  BY <1>0, QueueFacts DEF TypeOK
<1>b. CASE queue = <<"connect">>
  <2>1. queue' = <<>> /\ worker' = "create"
    BY <1>b
  <2>. QED
    BY <1>0, <2>1, <1>b, MaxOpsAssumption DEF IInv, OwnersAreCounted, TypeOK, Answers, Joined, ClosedByLast, Owners, One, QueuedOps, OwnedMeansOpen, QueueShape, StepsInOrder, Connecting
<1>c. CASE queue # <<"connect">>
  <2>1. /\ \A i \in DOMAIN queue : queue[i] = "op"
        /\ \A i \in DOMAIN queue' : queue'[i] = "op"
    BY <1>0, <1>a, <1>c DEF QueueShape
  <2>2. worker' = "op" /\ queue' # <<"connect">>
    BY <1>a, <2>1, NoConnectTask
  <2>3. count \in Nat /\ Len(queue) \in Nat
    BY <1>0, CountsAreNat DEF TypeOK
  <2>4. (count = Owners)'
    <3>1. One(worker = "op") = 0 /\ One(worker = "op")' = 1 /\ One(response = "ok")' = One(response = "ok") /\ One(Held)' = One(Held)
      BY <2>2 DEF One, Held
    <3>2. QueuedOps = Len(queue) /\ QueuedOps' = Len(queue) - 1
      BY <1>a, <1>c, <2>2 DEF QueuedOps
    <3>3. One(response = "ok") \in {0, 1} /\ One(Held) \in {0, 1}
      BY <1>0, CountsAreNat
    <3>4. /\ Owners = One(response = "ok") + One(Held) + One(worker = "op") + QueuedOps
          /\ Owners' = One(response = "ok")' + One(Held)' + One(worker = "op")' + QueuedOps'
      BY DEF Owners, Held
    <3>. QED
      BY <1>0, <2>3, <3>1, <3>2, <3>3, <3>4
  <2>5. TypeOK'
    BY <1>0, <1>a, <2>2 DEF TypeOK, Answers
  <2>6. OwnedMeansOpen' /\ QueueShape'
    BY <1>0, <2>1 DEF OwnedMeansOpen, QueueShape
  <2>7. StepsInOrder'
    <3>1. server # "wait"
      <4>1. server = "wait" => queue[1] = "connect"
        BY <1>0, <1>a DEF StepsInOrder
      <4>2. queue[1] = "op"
        BY <1>a, <2>1
      <4>. QED
        BY <4>1, <4>2
    <3>. QED
      BY <1>0, <1>c, <2>2, <3>1 DEF TypeOK, StepsInOrder, Connecting
  <2>8. Joined' /\ ClosedByLast'
    BY <1>0 DEF Joined, ClosedByLast
  <2>. QED
    BY <2>4, <2>5, <2>6, <2>7, <2>8 DEF IInv, OwnersAreCounted
<1>. QED
  BY <1>b, <1>c

LEMMA CreateFailsInv ==
  ASSUME IInv, CreateFails
  PROVE  IInv'
<1>. USE DEF CreateFails, vars, serverVars, clientVars, connVars
<1>0. /\ TypeOK /\ Joined /\ ClosedByLast
      /\ count = Owners /\ OwnedMeansOpen /\ QueueShape /\ StepsInOrder
  BY DEF IInv, OwnersAreCounted
<1>1. (count = Owners)'
  BY <1>0 DEF TypeOK, Owners, One, QueuedOps, QueueShape, StepsInOrder, Connecting
<1>2. TypeOK'
  BY <1>0, MaxOpsAssumption DEF TypeOK, Answers
<1>3. OwnedMeansOpen'
  BY <1>0 DEF TypeOK, OwnedMeansOpen, Owners, One, QueuedOps, StepsInOrder, Connecting
<1>4. QueueShape'
  BY <1>0 DEF TypeOK, QueueShape, StepsInOrder, Connecting
<1>5. StepsInOrder'
  BY <1>0 DEF TypeOK, QueueShape, StepsInOrder, Connecting
<1>6. Joined'
  BY <1>0 DEF TypeOK, Joined, StepsInOrder
<1>7. ClosedByLast'
  BY <1>0 DEF TypeOK, ClosedByLast, StepsInOrder, Connecting
<1>. QED
  BY <1>1, <1>2, <1>3, <1>4, <1>5, <1>6, <1>7 DEF IInv, OwnersAreCounted

LEMMA CreateInv ==
  ASSUME IInv, Create
  PROVE  IInv'
<1>. USE DEF Create, vars, serverVars, clientVars, connVars
<1>0. /\ TypeOK /\ Joined /\ ClosedByLast
      /\ count = Owners /\ OwnedMeansOpen /\ QueueShape /\ StepsInOrder
  BY DEF IInv, OwnersAreCounted
<1>1. (count = Owners)'
  BY <1>0 DEF TypeOK, Owners, One, QueuedOps, QueueShape, StepsInOrder, Connecting
<1>2. TypeOK'
  BY <1>0, MaxOpsAssumption DEF TypeOK, Answers
<1>3. OwnedMeansOpen'
  BY <1>0 DEF TypeOK, OwnedMeansOpen, Owners, One, QueuedOps, StepsInOrder, Connecting
<1>4. QueueShape'
  BY <1>0 DEF TypeOK, QueueShape, StepsInOrder, Connecting
<1>5. StepsInOrder'
  BY <1>0 DEF TypeOK, QueueShape, StepsInOrder, Connecting
<1>6. Joined'
  BY <1>0 DEF TypeOK, Joined, StepsInOrder
<1>7. ClosedByLast'
  BY <1>0 DEF TypeOK, ClosedByLast, StepsInOrder, Connecting
<1>. QED
  BY <1>1, <1>2, <1>3, <1>4, <1>5, <1>6, <1>7 DEF IInv, OwnersAreCounted

LEMMA ConnectFailsInv ==
  ASSUME IInv, ConnectFails
  PROVE  IInv'
<1>. USE DEF ConnectFails, vars, serverVars, clientVars, connVars
<1>0. /\ TypeOK /\ Joined /\ ClosedByLast
      /\ count = Owners /\ OwnedMeansOpen /\ QueueShape /\ StepsInOrder
  BY DEF IInv, OwnersAreCounted
<1>1. (count = Owners)'
  BY <1>0 DEF TypeOK, Owners, One, QueuedOps, QueueShape, StepsInOrder, Connecting
<1>2. TypeOK'
  BY <1>0, MaxOpsAssumption DEF TypeOK, Answers
<1>3. OwnedMeansOpen'
  BY <1>0 DEF TypeOK, OwnedMeansOpen, Owners, One, QueuedOps, StepsInOrder, Connecting
<1>4. QueueShape'
  BY <1>0 DEF TypeOK, QueueShape, StepsInOrder, Connecting
<1>5. StepsInOrder'
  BY <1>0 DEF TypeOK, QueueShape, StepsInOrder, Connecting
<1>6. Joined'
  BY <1>0 DEF TypeOK, Joined, StepsInOrder
<1>7. ClosedByLast'
  BY <1>0 DEF TypeOK, ClosedByLast, StepsInOrder, Connecting
<1>. QED
  BY <1>1, <1>2, <1>3, <1>4, <1>5, <1>6, <1>7 DEF IInv, OwnersAreCounted

LEMMA ConnectedInv ==
  ASSUME IInv, Connected
  PROVE  IInv'
<1>. USE DEF Connected, vars, serverVars, clientVars, connVars
<1>0. /\ TypeOK /\ Joined /\ ClosedByLast
      /\ count = Owners /\ OwnedMeansOpen /\ QueueShape /\ StepsInOrder
  BY DEF IInv, OwnersAreCounted
<1>1. (count = Owners)'
  BY <1>0 DEF TypeOK, Owners, One, QueuedOps, QueueShape, StepsInOrder, Connecting
<1>2. TypeOK'
  BY <1>0, MaxOpsAssumption DEF TypeOK, Answers
<1>3. OwnedMeansOpen'
  BY <1>0 DEF TypeOK, OwnedMeansOpen, Owners, One, QueuedOps, StepsInOrder, Connecting
<1>4. QueueShape'
  BY <1>0 DEF TypeOK, QueueShape, StepsInOrder, Connecting
<1>5. StepsInOrder'
  BY <1>0 DEF TypeOK, QueueShape, StepsInOrder, Connecting
<1>6. Joined'
  BY <1>0 DEF TypeOK, Joined, StepsInOrder
<1>7. ClosedByLast'
  BY <1>0 DEF TypeOK, ClosedByLast, StepsInOrder, Connecting
<1>. QED
  BY <1>1, <1>2, <1>3, <1>4, <1>5, <1>6, <1>7 DEF IInv, OwnersAreCounted

LEMMA RespondInv ==
  ASSUME IInv, Respond
  PROVE  IInv'
<1>. USE DEF Respond, vars, serverVars, clientVars, connVars
<1>0. /\ TypeOK /\ Joined /\ ClosedByLast
      /\ count = Owners /\ OwnedMeansOpen /\ QueueShape /\ StepsInOrder
  BY DEF IInv, OwnersAreCounted
<1>n. count \in Nat /\ Len(queue) \in Nat /\ One(response = "ok") \in {0, 1} /\ One(worker = "op") \in {0, 1}
      /\ One(Held) \in {0, 1} /\ One(resource = "env") \in {0, 1} /\ QueuedOps \in Nat
  BY <1>0, CountsAreNat DEF TypeOK
<1>d. /\ One(response = "ok")' = One(response = "ok") /\ One(response = "ok")' \in {0, 1}
      /\ One(worker = "op")' = One(worker = "op") /\ One(worker = "op")' \in {0, 1}
      /\ One(Held)' = One(Held) + One(response = "ok") /\ One(Held)' \in {0, 1}
  <2>1. resource = "none" /\ response \in {"ok", "error"}
    BY <1>0 DEF StepsInOrder, Connecting, TypeOK, Answers
  <2>. QED
    BY <2>1 DEF One, Held
<1>q. QueuedOps' = QueuedOps
  BY DEF QueuedOps
<1>o. /\ Owners = One(response = "ok") + One(Held) + One(worker = "op") + QueuedOps
      /\ Owners' = One(response = "ok")' + One(Held)' + One(worker = "op")' + QueuedOps'
  BY DEF Owners, Held
<1>e. count' = count + One(response = "ok")
  BY <1>0, <1>n DEF StepsInOrder, TypeOK, Answers, One
<1>1. (count = Owners)'
  BY <1>0, <1>n, <1>d, <1>e, <1>q, <1>o
<1>2. TypeOK'
  <2>1. count' \in Nat
    BY <1>1, <1>n, <1>d, <1>q, <1>o
  <2>2. instance' \in {"none", "open", "destroyed"}
    BY <1>0 DEF TypeOK
  <2>. QED
    BY <1>0, <2>1, <2>2 DEF TypeOK, Answers
<1>3. OwnedMeansOpen'
  BY <1>0, <1>n, <1>d, <1>o, CountsAreNat DEF OwnedMeansOpen, One
<1>4. QueueShape'
  BY <1>0 DEF TypeOK, QueueShape, StepsInOrder, Connecting
<1>5. StepsInOrder'
  BY <1>0 DEF TypeOK, QueueShape, StepsInOrder, Connecting
<1>6. Joined'
  BY <1>0 DEF TypeOK, Joined, StepsInOrder
<1>7. ClosedByLast'
  BY <1>0, <1>n DEF TypeOK, ClosedByLast, StepsInOrder, Connecting
<1>. QED
  BY <1>1, <1>2, <1>3, <1>4, <1>5, <1>6, <1>7 DEF IInv, OwnersAreCounted

LEMMA FinishInv ==
  ASSUME IInv, Finish
  PROVE  IInv'
<1>. USE DEF Finish, vars, serverVars, clientVars, connVars
<1>0. /\ TypeOK /\ Joined /\ ClosedByLast
      /\ count = Owners /\ OwnedMeansOpen /\ QueueShape /\ StepsInOrder
  BY DEF IInv, OwnersAreCounted
<1>n. count \in Nat /\ Len(queue) \in Nat /\ One(response = "ok") \in {0, 1} /\ One(worker = "op") \in {0, 1}
      /\ One(Held) \in {0, 1} /\ One(resource = "env") \in {0, 1} /\ QueuedOps \in Nat
  BY <1>0, CountsAreNat DEF TypeOK
<1>d. /\ One(response = "ok")' = 0 /\ One(response = "ok")' \in {0, 1}
      /\ One(worker = "op")' = One(worker = "op") /\ One(worker = "op")' \in {0, 1}
      /\ One(Held)' = One(Held) - One(resource = "env") /\ One(Held)' \in {0, 1}
  BY <1>0 DEF One, Held, StepsInOrder, TypeOK
<1>q. QueuedOps' = QueuedOps
  BY DEF QueuedOps
<1>o. /\ Owners = One(response = "ok") + One(Held) + One(worker = "op") + QueuedOps
      /\ Owners' = One(response = "ok")' + One(Held)' + One(worker = "op")' + QueuedOps'
  BY DEF Owners, Held
<1>1. (count = Owners)'
  BY <1>0, <1>n, <1>d, <1>q, <1>o DEF Drop
<1>2. TypeOK'
  <2>1. count' \in Nat
    BY <1>1, <1>n, <1>d, <1>q, <1>o
  <2>2. instance' \in {"none", "open", "destroyed"}
    BY <1>0 DEF Drop, TypeOK
  <2>. QED
    BY <1>0, <2>1, <2>2 DEF TypeOK, Answers
<1>3. OwnedMeansOpen'
  BY <1>0, <1>n, <1>o DEF OwnedMeansOpen, Drop
<1>4. QueueShape'
  BY <1>0 DEF TypeOK, QueueShape, StepsInOrder, Connecting
<1>5. StepsInOrder'
  BY <1>0 DEF TypeOK, QueueShape, StepsInOrder, Connecting
<1>6. Joined'
  BY <1>0 DEF TypeOK, Joined, StepsInOrder
<1>7. ClosedByLast'
  BY <1>0, <1>n DEF TypeOK, ClosedByLast, StepsInOrder, Connecting, Drop
<1>. QED
  BY <1>1, <1>2, <1>3, <1>4, <1>5, <1>6, <1>7 DEF IInv, OwnersAreCounted

LEMMA FinishOpInv ==
  ASSUME IInv, FinishOp
  PROVE  IInv'
<1>. USE DEF FinishOp, vars, serverVars, clientVars, connVars
<1>0. /\ TypeOK /\ Joined /\ ClosedByLast
      /\ count = Owners /\ OwnedMeansOpen /\ QueueShape /\ StepsInOrder
  BY DEF IInv, OwnersAreCounted
<1>n. count \in Nat /\ Len(queue) \in Nat /\ One(response = "ok") \in {0, 1} /\ One(worker = "op") \in {0, 1}
      /\ One(Held) \in {0, 1} /\ One(resource = "env") \in {0, 1} /\ QueuedOps \in Nat
  BY <1>0, CountsAreNat DEF TypeOK
<1>d. /\ One(response = "ok")' = One(response = "ok") /\ One(response = "ok")' \in {0, 1}
      /\ One(worker = "op")' = One(worker = "op") - 1 /\ One(worker = "op")' \in {0, 1}
      /\ One(Held)' = One(Held) /\ One(Held)' \in {0, 1}
  BY <1>0 DEF One, Held, StepsInOrder, TypeOK
<1>q. QueuedOps' = QueuedOps
  BY DEF QueuedOps
<1>o. /\ Owners = One(response = "ok") + One(Held) + One(worker = "op") + QueuedOps
      /\ Owners' = One(response = "ok")' + One(Held)' + One(worker = "op")' + QueuedOps'
  BY DEF Owners, Held
<1>1. (count = Owners)'
  BY <1>0, <1>n, <1>d, <1>q, <1>o DEF Drop
<1>2. TypeOK'
  <2>1. count' \in Nat
    BY <1>1, <1>n, <1>d, <1>q, <1>o
  <2>2. instance' \in {"none", "open", "destroyed"}
    BY <1>0 DEF Drop, TypeOK
  <2>. QED
    BY <1>0, <2>1, <2>2 DEF TypeOK, Answers
<1>3. OwnedMeansOpen'
  BY <1>0, <1>n, <1>o DEF OwnedMeansOpen, Drop
<1>4. QueueShape'
  BY <1>0 DEF TypeOK, QueueShape, StepsInOrder, Connecting
<1>5. StepsInOrder'
  BY <1>0 DEF TypeOK, QueueShape, StepsInOrder, Connecting
<1>6. Joined'
  BY <1>0 DEF TypeOK, Joined, StepsInOrder
<1>7. ClosedByLast'
  BY <1>0, <1>n DEF TypeOK, ClosedByLast, StepsInOrder, Connecting, Drop
<1>. QED
  BY <1>1, <1>2, <1>3, <1>4, <1>5, <1>6, <1>7 DEF IInv, OwnersAreCounted

LEMMA WorkerExitInv ==
  ASSUME IInv, WorkerExit
  PROVE  IInv'
<1>. USE DEF WorkerExit, vars, serverVars, clientVars, connVars
<1>0. /\ TypeOK /\ Joined /\ ClosedByLast
      /\ count = Owners /\ OwnedMeansOpen /\ QueueShape /\ StepsInOrder
  BY DEF IInv, OwnersAreCounted
<1>1. (count = Owners)'
  BY <1>0 DEF TypeOK, Owners, One, QueuedOps, QueueShape, StepsInOrder, Connecting
<1>2. TypeOK'
  BY <1>0, MaxOpsAssumption DEF TypeOK, Answers
<1>3. OwnedMeansOpen'
  BY <1>0 DEF TypeOK, OwnedMeansOpen, Owners, One, QueuedOps, StepsInOrder, Connecting
<1>4. QueueShape'
  BY <1>0 DEF TypeOK, QueueShape, StepsInOrder, Connecting
<1>5. StepsInOrder'
  BY <1>0 DEF TypeOK, QueueShape, StepsInOrder, Connecting
<1>6. Joined'
  BY <1>0 DEF TypeOK, Joined, StepsInOrder
<1>7. ClosedByLast'
  BY <1>0 DEF TypeOK, ClosedByLast, StepsInOrder, Connecting
<1>. QED
  BY <1>1, <1>2, <1>3, <1>4, <1>5, <1>6, <1>7 DEF IInv, OwnersAreCounted

LEMMA FreeConnectionInv ==
  ASSUME IInv, FreeConnection
  PROVE  IInv'
<1>. USE DEF FreeConnection, vars, serverVars, clientVars, connVars
<1>0. /\ TypeOK /\ Joined /\ ClosedByLast
      /\ count = Owners /\ OwnedMeansOpen /\ QueueShape /\ StepsInOrder
  BY DEF IInv, OwnersAreCounted
<1>n. count \in Nat /\ Len(queue) \in Nat /\ One(response = "ok") \in {0, 1} /\ One(worker = "op") \in {0, 1}
      /\ One(Held) \in {0, 1} /\ One(resource = "env") \in {0, 1} /\ QueuedOps \in Nat
  BY <1>0, CountsAreNat DEF TypeOK
<1>d. /\ One(response = "ok")' = One(response = "ok") /\ One(response = "ok")' \in {0, 1}
      /\ One(worker = "op")' = One(worker = "op") /\ One(worker = "op")' \in {0, 1}
      /\ One(Held)' = One(Held) - 1 /\ One(Held)' \in {0, 1}
  BY <1>0 DEF One, Held, StepsInOrder, TypeOK
<1>q. QueuedOps' = QueuedOps
  BY DEF QueuedOps
<1>o. /\ Owners = One(response = "ok") + One(Held) + One(worker = "op") + QueuedOps
      /\ Owners' = One(response = "ok")' + One(Held)' + One(worker = "op")' + QueuedOps'
  BY DEF Owners, Held
<1>1. (count = Owners)'
  BY <1>0, <1>n, <1>d, <1>q, <1>o DEF Drop
<1>2. TypeOK'
  <2>1. count' \in Nat
    BY <1>1, <1>n, <1>d, <1>q, <1>o
  <2>2. instance' \in {"none", "open", "destroyed"}
    BY <1>0 DEF Drop, TypeOK
  <2>. QED
    BY <1>0, <2>1, <2>2 DEF TypeOK, Answers
<1>3. OwnedMeansOpen'
  BY <1>0, <1>n, <1>o DEF OwnedMeansOpen, Drop
<1>4. QueueShape'
  BY <1>0 DEF TypeOK, QueueShape, StepsInOrder, Connecting
<1>5. StepsInOrder'
  BY <1>0 DEF TypeOK, QueueShape, StepsInOrder, Connecting
<1>6. Joined'
  BY <1>0 DEF TypeOK, Joined, StepsInOrder
<1>7. ClosedByLast'
  BY <1>0, <1>n DEF TypeOK, ClosedByLast, StepsInOrder, Connecting, Drop
<1>. QED
  BY <1>1, <1>2, <1>3, <1>4, <1>5, <1>6, <1>7 DEF IInv, OwnersAreCounted

LEMMA FreeClientInv ==
  ASSUME IInv, FreeClient
  PROVE  IInv'
<1>. USE DEF FreeClient, vars, serverVars, clientVars, connVars
<1>0. /\ TypeOK /\ Joined /\ ClosedByLast
      /\ count = Owners /\ OwnedMeansOpen /\ QueueShape /\ StepsInOrder
  BY DEF IInv, OwnersAreCounted
<1>1. (count = Owners)'
  BY <1>0 DEF TypeOK, Owners, One, QueuedOps, QueueShape, StepsInOrder, Connecting
<1>2. TypeOK'
  BY <1>0, MaxOpsAssumption DEF TypeOK, Answers
<1>3. OwnedMeansOpen'
  BY <1>0 DEF TypeOK, OwnedMeansOpen, Owners, One, QueuedOps, StepsInOrder, Connecting
<1>4. QueueShape'
  BY <1>0 DEF TypeOK, QueueShape, StepsInOrder, Connecting
<1>5. StepsInOrder'
  BY <1>0 DEF TypeOK, QueueShape, StepsInOrder, Connecting
<1>6. Joined'
  BY <1>0 DEF TypeOK, Joined, StepsInOrder
<1>7. ClosedByLast'
  BY <1>0 DEF TypeOK, ClosedByLast, StepsInOrder, Connecting
<1>. QED
  BY <1>1, <1>2, <1>3, <1>4, <1>5, <1>6, <1>7 DEF IInv, OwnersAreCounted

LEMMA DestroyClientInv ==
  ASSUME IInv, DestroyClient
  PROVE  IInv'
<1>. USE DEF DestroyClient, vars, serverVars, clientVars, connVars
<1>0. /\ TypeOK /\ Joined /\ ClosedByLast
      /\ count = Owners /\ OwnedMeansOpen /\ QueueShape /\ StepsInOrder
  BY DEF IInv, OwnersAreCounted
<1>n. count \in Nat /\ Len(queue) \in Nat /\ One(response = "ok") \in {0, 1} /\ One(worker = "op") \in {0, 1}
      /\ One(Held) \in {0, 1} /\ One(resource = "env") \in {0, 1} /\ QueuedOps \in Nat
  BY <1>0, CountsAreNat DEF TypeOK
<1>d. /\ One(response = "ok")' = One(response = "ok") /\ One(response = "ok")' \in {0, 1}
      /\ One(worker = "op")' = One(worker = "op") /\ One(worker = "op")' \in {0, 1}
      /\ One(Held)' = One(Held) /\ One(Held)' \in {0, 1}
  BY <1>0 DEF One, Held, StepsInOrder, TypeOK
<1>q. QueuedOps' = 0
  BY DEF QueuedOps
<1>o. /\ Owners = One(response = "ok") + One(Held) + One(worker = "op") + QueuedOps
      /\ Owners' = One(response = "ok")' + One(Held)' + One(worker = "op")' + QueuedOps'
  BY DEF Owners, Held
<1>1. (count = Owners)'
  BY <1>0, <1>n, <1>d, <1>q, <1>o DEF Drop
<1>2. TypeOK'
  <2>1. count' \in Nat
    BY <1>1, <1>n, <1>d, <1>q, <1>o
  <2>2. instance' \in {"none", "open", "destroyed"}
    BY <1>0 DEF Drop, TypeOK
  <2>. QED
    BY <1>0, <2>1, <2>2 DEF TypeOK, Answers
<1>3. OwnedMeansOpen'
  BY <1>0, <1>n, <1>o DEF OwnedMeansOpen, Drop
<1>4. QueueShape'
  BY <1>0 DEF TypeOK, QueueShape, StepsInOrder, Connecting
<1>5. StepsInOrder'
  BY <1>0 DEF TypeOK, QueueShape, StepsInOrder, Connecting
<1>6. Joined'
  BY <1>0 DEF TypeOK, Joined, StepsInOrder
<1>7. ClosedByLast'
  BY <1>0, <1>n DEF TypeOK, ClosedByLast, StepsInOrder, Connecting, Drop
<1>. QED
  BY <1>1, <1>2, <1>3, <1>4, <1>5, <1>6, <1>7 DEF IInv, OwnersAreCounted

LEMMA Invariance == Spec => []IInv
<1>1. ASSUME IInv, [Next]_vars PROVE IInv'
  <2>1. CASE ServerNext
    <3>1. CASE ServerEnds
      BY <1>1, <3>1, ServerEndsInv
    <3>2. CASE New \/ Connect \/ ReceiveConnection \/ Request
      BY <1>1, <3>2, NewInv, ConnectInv, ReceiveConnectionInv, RequestInv
    <3>. QED
      BY <2>1, <3>1, <3>2 DEF ServerNext, ConnectBadarg, ReceiveError, InitTimeout, Exit
  <2>2. CASE WorkerNext
    BY <1>1, <2>2, TakeInv, CreateFailsInv, CreateInv, ConnectFailsInv, ConnectedInv,
       RespondInv, FinishInv, FinishOpInv, WorkerExitInv DEF WorkerNext
  <2>3. CASE RuntimeNext
    BY <1>1, <2>3, FreeConnectionInv, FreeClientInv, DestroyClientInv DEF RuntimeNext
  <2>4. CASE UNCHANGED vars
    BY <1>1, <2>4 DEF IInv, TypeOK, OwnersAreCounted, Joined, ClosedByLast, Owners, QueuedOps,
       OwnedMeansOpen, QueueShape, Connecting, StepsInOrder, vars, serverVars, clientVars, connVars
  <2>. QED
    BY <1>1, <2>1, <2>2, <2>3, <2>4 DEF Next
<1>. QED
  BY <1>1, InitInv, PTL DEF Spec

(* The variables of a connection's life have their types: no shared pointer *)
(* is dropped that is not there.                                            *)
THEOREM TypeCorrect == Spec => []TypeOK
  BY Invariance, PTL DEF IInv

(* The use count is the number of owners, in every reachable state. *)
THEOREM OwnersCounted == Spec => []OwnersAreCounted
  BY Invariance, PTL DEF IInv

(* The worker never runs an operation on a destroyed instance, whoever has *)
(* dropped the connection since the task was posted.                       *)
THEOREM NoUseAfterDestroy == Spec => []UsedWhileOpen
<1>1. ASSUME IInv PROVE UsedWhileOpen
  <2>1. SUFFICES ASSUME worker = "op" PROVE instance = "open"
    BY DEF UsedWhileOpen
  <2>2. One(worker = "op") = 1
    BY <2>1 DEF One
  <2>3. TypeOK /\ count = Owners /\ OwnedMeansOpen
    BY <1>1 DEF IInv, OwnersAreCounted
  <2>4. count > 0
    BY <2>2, <2>3, CountsAreNat DEF Owners, Held
  <2>. QED
    BY <2>3, <2>4 DEF OwnedMeansOpen
<1>. QED
  BY <1>1, Invariance, PTL

(* A server that is up has a connection with an open instance. *)
THEOREM UpIsConnected == Spec => []UpMeansConnected
<1>1. ASSUME IInv PROVE UpMeansConnected
  <2>1. SUFFICES ASSUME server = "up" PROVE resource = "heap" /\ instance = "open"
    BY DEF UpMeansConnected
  <2>2. TypeOK /\ count = Owners /\ OwnedMeansOpen /\ StepsInOrder
    BY <1>1 DEF IInv, OwnersAreCounted
  <2>3. resource = "heap" /\ One(Held) = 1
    BY <2>1, <2>2 DEF StepsInOrder, One, Held
  <2>4. count > 0
    BY <2>2, <2>3, CountsAreNat DEF Owners, Held
  <2>. QED
    BY <2>2, <2>3, <2>4 DEF OwnedMeansOpen
<1>. QED
  BY <1>1, Invariance, PTL

(* Once the Client is destroyed and the terms of the dead server are freed, *)
(* no owner of the Connection is left, and one that was reported is closed. *)
THEOREM NoConnectionIsLeft == Spec => []NothingIsLeft
<1>1. ASSUME IInv PROVE NothingIsLeft
  <2>1. SUFFICES ASSUME client = "destroyed", resource \notin {"mailbox", "heap"}
                 PROVE  count = 0 /\ (resource = "freed" => instance = "destroyed")
    BY DEF NothingIsLeft
  <2>2. TypeOK /\ count = Owners /\ StepsInOrder /\ ClosedByLast
    BY <1>1 DEF IInv, OwnersAreCounted
  <2>3. worker \in {"none", "exited"} /\ queue = <<>>
    BY <1>1, <2>1 DEF IInv, Joined
  <2>4. response = "none" /\ resource \in {"none", "freed"}
    BY <2>1, <2>2, <2>3 DEF StepsInOrder, TypeOK
  <2>5. count = 0
    <3>1. QueuedOps = 0
      BY <2>3 DEF QueuedOps
    <3> QED BY <2>2, <2>3, <2>4, <3>1 DEF Owners, One
  <2>. QED
    BY <2>2, <2>5 DEF ClosedByLast
<1>. QED
  BY <1>1, Invariance, PTL
=============================================================================
