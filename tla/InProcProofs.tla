---------------------------- MODULE InProcProofs ----------------------------
(***************************************************************************)
(* Theorems about InProcServer, for any number of peers and requests.      *)
(***************************************************************************)
EXTENDS InProcServer, TLAPS

\* What the queues' elements and ends are after a message has gone in or out.
LEMMA AppendFacts ==
    ASSUME NEW q \in Seq(Nat), NEW n \in Nat
    PROVE  /\ Append(q, n) \in Seq(Nat)
           /\ Len(Append(q, n)) = Len(q) + 1
           /\ DOMAIN Append(q, n) = 1..(Len(q) + 1)
           /\ \A i \in DOMAIN q : Append(q, n)[i] = q[i]
           /\ Append(q, n)[Len(q) + 1] = n
  OBVIOUS

LEMMA TailFacts ==
    ASSUME NEW q \in Seq(Nat), q # <<>>
    PROVE  /\ Tail(q) \in Seq(Nat)
           /\ Head(q) = q[1] /\ Head(q) \in Nat /\ 1 \in DOMAIN q
           /\ Len(q) \in Nat /\ Len(Tail(q)) = Len(q) - 1
           /\ \A i \in DOMAIN Tail(q) :
                 i \in Nat /\ i + 1 \in DOMAIN q /\ Tail(q)[i] = q[i + 1]
  OBVIOUS

-----------------------------------------------------------------------------
(* Types *)

\* Threads never get a program counter of the other end.
LEMMA NotifyType ==
    ASSUME TypeOK, NEW next \in [Threads -> ServerPcs \cup PeerPcs],
           next[Server] \in ServerPcs, \A p \in Peers : next[p] \in PeerPcs,
           NotifyOne(next) \/ NotifyAll(next)
    PROVE  /\ pc' \in [Threads -> ServerPcs \cup PeerPcs]
           /\ pc'[Server] \in ServerPcs
           /\ \A p \in Peers : pc'[p] \in PeerPcs
  BY PeerAssumption DEF NotifyOne, NotifyAll, Asleep, Threads, ServerPcs, PeerPcs

LEMMA FinishType ==
    ASSUME TypeOK, NEW t \in Threads, Finish(t)
    PROVE  TypeOK'
<1> USE PeerAssumption DEF TypeOK, Finish, ownerVars, Threads, ServerPcs, PeerPcs
<1>1. CASE t = Server /\ Take
  <2>1. Tail(toServer) \in Seq(Nat) /\ Head(toServer) \in Nat
    BY <1>1, TailFacts DEF Take
  <2>2. QED
    BY <1>1, <2>1 DEF Take
<1>2. CASE t # Server /\ Deliver(t)
  <2>1. Tail(toClient) \in Seq(Nat) /\ Head(toClient) \in Nat
    BY <1>2, TailFacts DEF Deliver
  <2>2. QED
    BY <1>2, <2>1 DEF Deliver
<1>3. CASE /\ Queue(t) = <<>>
           /\ pc' = [pc EXCEPT ![t] = IF t = Server THEN "test" ELSE "idle"]
           /\ UNCHANGED <<toServer, toClient, held, taken, delivered>>
  BY <1>3
<1>4. QED
  BY <1>1, <1>2, <1>3

\* Every state has the declared types (all of inproc_transport.cpp, and serve and
\* stop at agent.cpp:749-771).
THEOREM TypeCorrect == Spec => []TypeOK
<1>1. ASSUME Init PROVE TypeOK
  <2>1. <<>> \in Seq(Nat)
    OBVIOUS
  <2>2. /\ pc \in [Threads -> ServerPcs \cup PeerPcs]
        /\ pc[Server] \in ServerPcs
        /\ \A p \in Peers : pc[p] \in PeerPcs
    BY <1>1, PeerAssumption DEF Init, Threads, ServerPcs, PeerPcs
  <2>3. QED
    BY <1>1, <2>1, <2>2 DEF Init, TypeOK
<1>2. ASSUME TypeOK, [Next]_vars
      PROVE  TypeOK'
  <2>1. ASSUME NEW p \in Peers, Send(p)
        PROVE  TypeOK'
    <3>1. Append(toServer, sent + 1) \in Seq(Nat)
      BY <1>2, AppendFacts DEF TypeOK
    <3>2. NotifyOne(pc)
      BY <2>1 DEF Send
    <3>3. QED
      BY <1>2, <2>1, <3>1, <3>2, NotifyType DEF TypeOK, Send, ownerVars
  <2>2. ASSUME NEW p \in Peers, Receive(p)
        PROVE  TypeOK'
    BY <1>2, <2>2, PeerAssumption DEF TypeOK, Receive, pairVars, ownerVars, ghostVars,
       Threads, ServerPcs, PeerPcs
  <2>3. ASSUME NEW t \in Threads, Wake(t)
        PROVE  TypeOK'
    <3>1. CASE Finish(t)
      BY <1>2, <3>1, FinishType
    <3>2. CASE pc' = [pc EXCEPT ![t] = "asleep"]
               /\ UNCHANGED <<pairVars, ownerVars, held, ghostVars>>
      BY <1>2, <3>2, PeerAssumption DEF TypeOK, pairVars, ownerVars, ghostVars,
         Threads, ServerPcs, PeerPcs
    <3>3. QED
      BY <2>3, <3>1, <3>2 DEF Wake, Look, TimedOut
  <2>4. CASE LoopTest
    <3>1. CASE pc' = [pc EXCEPT ![Server] = "receive"]
               \/ pc' = [pc EXCEPT ![Server] = "exited"]
      BY <1>2, <2>4, <3>1, PeerAssumption DEF TypeOK, LoopTest, ownerVars, ghostVars,
         Threads, ServerPcs, PeerPcs
    <3>2. CASE NotifyAll([pc EXCEPT ![Server] = "exited"])
      <4> DEFINE next == [pc EXCEPT ![Server] = "exited"]
      <4>1. /\ next \in [Threads -> ServerPcs \cup PeerPcs]
            /\ next[Server] \in ServerPcs
            /\ \A p \in Peers : next[p] \in PeerPcs
        BY <1>2, PeerAssumption DEF TypeOK, Threads, ServerPcs, PeerPcs
      <4> HIDE DEF next
      <4>2. NotifyAll(next)
        BY <3>2 DEF next
      <4>3. QED
        BY <1>2, <2>4, <4>1, <4>2, NotifyType DEF TypeOK, LoopTest, ownerVars, ghostVars
    <3>3. QED
      BY <2>4, <3>1, <3>2 DEF LoopTest
  <2>5. CASE Reply
    <3> DEFINE next == [pc EXCEPT ![Server] = "test"]
    <3>1. /\ next \in [Threads -> ServerPcs \cup PeerPcs]
          /\ next[Server] \in ServerPcs
          /\ \A p \in Peers : next[p] \in PeerPcs
      BY <1>2, PeerAssumption DEF TypeOK, Threads, ServerPcs, PeerPcs
    <3>2. Append(toClient, held) \in Seq(Nat)
      BY <1>2, AppendFacts DEF TypeOK
    <3>3. pc' = next \/ NotifyOne(next)
      BY <2>5 DEF Reply
    <3> HIDE DEF next
    <3>4. QED
      BY <1>2, <2>5, <3>1, <3>2, <3>3, NotifyType DEF TypeOK, Reply, ownerVars, ghostVars
  <2>6. CASE Close
    <3>1. NotifyAll(pc)
      BY <2>6 DEF Close
    <3>2. QED
      BY <1>2, <2>6, <3>1, NotifyType DEF TypeOK, Close, ownerVars, ghostVars
  <2>7. CASE Serve \/ Stop \/ StopJoined
    BY <1>2, <2>7, PeerAssumption DEF TypeOK, Serve, Stop, StopJoined, pairVars,
       ghostVars, Threads, ServerPcs, PeerPcs
  <2>8. CASE UNCHANGED vars
    BY <1>2, <2>8 DEF TypeOK, vars, pairVars, ownerVars, ghostVars
  <2>9. QED
    BY <1>2, <2>1, <2>2, <2>3, <2>4, <2>5, <2>6, <2>7, <2>8 DEF Next
<1>3. QED
  BY <1>1, <1>2, PTL DEF Spec

-----------------------------------------------------------------------------
(***************************************************************************)
(* The exchange.  ExchangeInOrder is inductive once the server thread is   *)
(* known to hold a request only while it serves: otherwise Take could      *)
(* overwrite one that has not been answered.                               *)
(***************************************************************************)

HoldsWhileServing == held > 0 <=> pc[Server] = "serving"

OrderInv == TypeOK /\ ExchangeInOrder /\ HoldsWhileServing

\* Notifications leave a server thread that is not asleep where it is.
LEMMA NotifyServing ==
    ASSUME NEW next \in [Threads -> ServerPcs \cup PeerPcs],
           \A t \in Asleep : next[t] = "asleep",
           NotifyOne(next) \/ NotifyAll(next)
    PROVE  pc'[Server] = "serving" <=> next[Server] = "serving"
  BY PeerAssumption DEF NotifyOne, NotifyAll, Asleep, Threads

LEMMA SendInOrder ==
    ASSUME OrderInv, TypeOK', NEW p \in Peers, Send(p)
    PROVE  OrderInv'
<1>1. /\ toServer \in Seq(Nat) /\ sent \in Nat /\ taken \in Nat
      /\ Len(toServer) = sent - taken
      /\ \A i \in DOMAIN toServer : toServer[i] = taken + i
  BY DEF OrderInv, TypeOK, ExchangeInOrder
<1>2. toServer' = Append(toServer, sent + 1) /\ sent' = sent + 1
      /\ UNCHANGED <<toClient, held, taken, delivered>> /\ NotifyOne(pc)
  BY DEF Send
<1>3. /\ Len(toServer') = Len(toServer) + 1 /\ Len(toServer) \in Nat
      /\ DOMAIN toServer' = 1..(Len(toServer) + 1) /\ DOMAIN toServer = 1..Len(toServer)
      /\ \A i \in DOMAIN toServer : toServer'[i] = toServer[i]
      /\ toServer'[Len(toServer) + 1] = sent + 1
  <2>1. sent + 1 \in Nat /\ toServer \in Seq(Nat)
    BY <1>1
  <2>2. toServer' = Append(toServer, sent + 1)
    BY <1>2
  <2>3. QED
    BY <2>1, <2>2, AppendFacts
<1>4. Len(toServer') = sent' - taken'
  BY <1>1, <1>2, <1>3
<1>5. \A i \in DOMAIN toServer' : toServer'[i] = taken' + i
  BY <1>1, <1>2, <1>3
<1>6. HoldsWhileServing'
  BY <1>2, NotifyServing DEF OrderInv, TypeOK, HoldsWhileServing, Asleep
<1>7. QED
  BY <1>2, <1>4, <1>5, <1>6 DEF OrderInv, ExchangeInOrder

LEMMA ReplyInOrder ==
    ASSUME OrderInv, TypeOK', Reply
    PROVE  OrderInv'
<1>1. held' = 0 /\ UNCHANGED <<toServer, sent, taken, delivered>>
  BY DEF Reply, ghostVars
<1>2. HoldsWhileServing'
  <2> DEFINE next == [pc EXCEPT ![Server] = "test"]
  <2>1. /\ next \in [Threads -> ServerPcs \cup PeerPcs] /\ next[Server] = "test"
        /\ \A t \in Asleep : next[t] = "asleep"
    BY PeerAssumption DEF OrderInv, TypeOK, Reply, Asleep, Threads, ServerPcs
  <2>2. pc' = next \/ NotifyOne(next)
    BY DEF Reply
  <2> HIDE DEF next
  <2>3. pc'[Server] # "serving"
    BY <2>1, <2>2, NotifyServing
  <2>4. QED
    BY <1>1, <2>3 DEF HoldsWhileServing
<1>3. /\ toClient \in Seq(Nat) /\ held \in Nat /\ held > 0 /\ held = taken /\ delivered < held
      /\ \A i \in DOMAIN toClient :
            /\ delivered < toClient[i]
            /\ toClient[i] <= taken
            /\ toClient[i] < held
            /\ \A j \in DOMAIN toClient : i < j => toClient[i] < toClient[j]
  BY DEF OrderInv, TypeOK, ExchangeInOrder, HoldsWhileServing, Reply
<1>4. CASE UNCHANGED toClient
  BY <1>1, <1>2, <1>3, <1>4 DEF OrderInv, ExchangeInOrder
<1>5. CASE toClient' = Append(toClient, held)
  <2>1. /\ DOMAIN toClient' = 1..(Len(toClient) + 1) /\ DOMAIN toClient = 1..Len(toClient)
        /\ Len(toClient) \in Nat
        /\ \A i \in DOMAIN toClient : toClient'[i] = toClient[i]
        /\ toClient'[Len(toClient) + 1] = held
    BY <1>3, <1>5, AppendFacts
  <2>2. \A i \in DOMAIN toClient' :
           /\ delivered < toClient'[i]
           /\ toClient'[i] <= taken
           /\ \A j \in DOMAIN toClient' : i < j => toClient'[i] < toClient'[j]
    <3>1. ASSUME NEW i \in DOMAIN toClient'
          PROVE  \/ i \in DOMAIN toClient /\ toClient'[i] = toClient[i]
                 \/ i = Len(toClient) + 1 /\ toClient'[i] = held
      BY <2>1, <3>1
    <3>2. QED
      BY <1>3, <2>1, <3>1
  <2>3. QED
    BY <1>1, <1>2, <2>2 DEF OrderInv, ExchangeInOrder
<1>6. QED
  BY <1>4, <1>5 DEF Reply

LEMMA TakeInOrder ==
    ASSUME OrderInv, TypeOK', pc[Server] # "serving", Take, UNCHANGED sent
    PROVE  OrderInv'
<1>1. /\ toServer \in Seq(Nat) /\ toServer # <<>> /\ sent \in Nat /\ taken \in Nat
      /\ Len(toServer) = sent - taken /\ held = 0
      /\ \A i \in DOMAIN toServer : toServer[i] = taken + i
  BY DEF OrderInv, TypeOK, ExchangeInOrder, HoldsWhileServing, Take
<1>2. /\ held' = Head(toServer) /\ toServer' = Tail(toServer) /\ taken' = taken + 1
      /\ UNCHANGED <<toClient, delivered>> /\ pc' = [pc EXCEPT ![Server] = "serving"]
  BY DEF Take
<1>3. held' = taken + 1
  BY <1>1, <1>2, TailFacts
<1>4. Len(toServer') = sent' - taken'
  BY <1>1, <1>2, TailFacts
<1>5. \A i \in DOMAIN toServer' : toServer'[i] = taken' + i
  BY <1>1, <1>2, TailFacts
<1>6. HoldsWhileServing'
  BY <1>1, <1>2, <1>3 DEF HoldsWhileServing, OrderInv, TypeOK, Threads
<1>7. /\ delivered \in Nat /\ delivered <= taken
      /\ \A i \in DOMAIN toClient : toClient[i] \in Nat /\ toClient[i] <= taken
  BY DEF OrderInv, TypeOK, ExchangeInOrder
<1>8. QED
  BY <1>1, <1>2, <1>3, <1>4, <1>5, <1>6, <1>7 DEF OrderInv, ExchangeInOrder

LEMMA DeliverInOrder ==
    ASSUME OrderInv, TypeOK', NEW p \in Peers, Deliver(p), UNCHANGED sent
    PROVE  OrderInv'
<1>1. /\ toClient \in Seq(Nat) /\ toClient # <<>>
      /\ held \in Nat /\ taken \in Nat /\ delivered \in Nat
      /\ \A i \in DOMAIN toClient :
            /\ toClient[i] \in Nat
            /\ toClient[i] <= taken
            /\ held > 0 => toClient[i] < held
            /\ \A j \in DOMAIN toClient : i < j => toClient[i] < toClient[j]
  BY DEF OrderInv, TypeOK, ExchangeInOrder, Deliver
<1>2. /\ delivered' = Head(toClient) /\ toClient' = Tail(toClient)
      /\ UNCHANGED <<toServer, held, taken>> /\ pc' = [pc EXCEPT ![p] = "idle"]
  BY DEF Deliver
<1>3. /\ delivered' = toClient[1] /\ 1 \in DOMAIN toClient
      /\ \A i \in DOMAIN toClient' :
            i \in Nat /\ i > 0 /\ i + 1 \in DOMAIN toClient /\ toClient'[i] = toClient[i + 1]
  BY <1>1, <1>2, TailFacts
<1>4. HoldsWhileServing'
  BY <1>2, PeerAssumption DEF OrderInv, TypeOK, HoldsWhileServing, Threads
<1>5. \A i \in DOMAIN toClient' :
         /\ delivered' < toClient'[i]
         /\ toClient'[i] <= taken
         /\ held > 0 => toClient'[i] < held
         /\ \A j \in DOMAIN toClient' : i < j => toClient'[i] < toClient'[j]
  BY <1>1, <1>3
<1>6. delivered' <= taken /\ (held > 0 => delivered' < held)
  BY <1>1, <1>3
<1>7. QED
  BY <1>2, <1>4, <1>5, <1>6 DEF OrderInv, ExchangeInOrder

\* A step that leaves queues and counts alone and does not touch a serving server.
LEMMA QuietInOrder ==
    ASSUME OrderInv, TypeOK', UNCHANGED <<toServer, toClient, held, sent, taken, delivered>>,
           pc'[Server] = "serving" <=> pc[Server] = "serving"
    PROVE  OrderInv'
  BY DEF OrderInv, ExchangeInOrder, HoldsWhileServing

LEMMA FinishInOrder ==
    ASSUME OrderInv, TypeOK', NEW t \in Threads, pc[t] \in {"receive", "asleep"}, Finish(t)
    PROVE  OrderInv'
<1>1. UNCHANGED sent
  BY DEF Finish
<1>2. CASE t = Server /\ Take
  BY <1>1, <1>2, TakeInOrder
<1>3. CASE t # Server /\ Deliver(t)
  BY <1>1, <1>3, DeliverInOrder DEF Threads
<1>4. CASE /\ pc' = [pc EXCEPT ![t] = IF t = Server THEN "test" ELSE "idle"]
           /\ UNCHANGED <<toServer, toClient, held, taken, delivered>>
  <2>1. pc'[Server] = "serving" <=> pc[Server] = "serving"
    BY <1>4 DEF OrderInv, TypeOK, Threads
  <2>2. QED
    BY <1>1, <1>4, <2>1, QuietInOrder
<1>5. QED
  BY <1>2, <1>3, <1>4 DEF Finish

LEMMA OrderStarts ==
    ASSUME Init, TypeOK
    PROVE  OrderInv
  BY PeerAssumption DEF Init, OrderInv, ExchangeInOrder, HoldsWhileServing, Threads

LEMMA OrderStep ==
    ASSUME OrderInv, TypeOK', [Next]_vars
    PROVE  OrderInv'
<1> USE DEF OrderInv
<1>1. ASSUME NEW p \in Peers, Send(p)
      PROVE  OrderInv'
  BY <1>1, SendInOrder
<1>2. ASSUME NEW p \in Peers, Receive(p)
      PROVE  OrderInv'
  BY <1>2, QuietInOrder, PeerAssumption DEF Receive, pairVars, ghostVars, TypeOK, Threads
<1>3. ASSUME NEW t \in Threads, Wake(t)
      PROVE  OrderInv'
  <2>1. CASE Finish(t)
    BY <1>3, <2>1, FinishInOrder DEF Wake, Look, TimedOut
  <2>2. CASE pc' = [pc EXCEPT ![t] = "asleep"]
             /\ UNCHANGED <<pairVars, ownerVars, held, ghostVars>>
    BY <1>3, <2>2, QuietInOrder
       DEF Wake, Look, TimedOut, pairVars, ghostVars, TypeOK, Threads
  <2>3. QED
    BY <1>3, <2>1, <2>2 DEF Wake, Look, TimedOut
<1>4. CASE LoopTest
  <2>1. UNCHANGED <<toServer, toClient, held, sent, taken, delivered>>
    BY <1>4 DEF LoopTest, ghostVars
  <2>2. pc'[Server] # "serving"
    BY <1>4, PeerAssumption DEF LoopTest, NotifyAll, TypeOK, Threads
  <2>3. pc[Server] # "serving"
    BY <1>4 DEF LoopTest
  <2>4. QED
    BY <2>1, <2>2, <2>3, QuietInOrder
<1>5. CASE Reply
  BY <1>5, ReplyInOrder
<1>6. CASE Close
  <2>1. pc'[Server] = "serving" <=> pc[Server] = "serving"
    BY <1>6, NotifyServing DEF Close, TypeOK, Asleep
  <2>2. QED
    BY <1>6, <2>1, QuietInOrder DEF Close, ghostVars
<1>7. CASE Serve \/ Stop \/ StopJoined
  <2>1. pc'[Server] = "serving" <=> pc[Server] = "serving"
    BY <1>7 DEF Serve, Stop, StopJoined, TypeOK, Threads
  <2>2. QED
    BY <1>7, <2>1, QuietInOrder DEF Serve, Stop, StopJoined, pairVars, ghostVars
<1>8. CASE UNCHANGED vars
  BY <1>8, QuietInOrder DEF vars, pairVars, ghostVars
<1>9. QED
  BY <1>1, <1>2, <1>3, <1>4, <1>5, <1>6, <1>7, <1>8 DEF Next

\* No request is lost, answered twice or overtaken, and replies reach the peers in
\* the order of their requests, for any number of peers (inproc_transport.cpp:13-57
\* under the server loop at agent.cpp:752-762).
THEOREM ExchangesAreInOrder == Spec => []ExchangeInOrder
<1>1. Init /\ TypeOK => OrderInv
  BY OrderStarts
<1>2. OrderInv /\ TypeOK' /\ [Next]_vars => OrderInv'
  BY OrderStep
<1>3. OrderInv => ExchangeInOrder
  BY DEF OrderInv
<1>4. QED
  BY <1>1, <1>2, <1>3, TypeCorrect, PTL DEF Spec

-----------------------------------------------------------------------------

\* The pair is closed before the server thread's end is out of sight.
ClosedAtExit == pc[Server] \in {"off", "exited"} /\ ~kept => closed

\* Once stop() has returned, nobody can send to a server that is not there, unless
\* the owner kept an end of the pair (agent.cpp:751, inproc_transport.cpp:11).
THEOREM NoServerNoTalk == Spec => []NobodyTalksToNoServer
<1>1. Init => ClosedAtExit
  BY DEF Init, ClosedAtExit
<1>2. ASSUME TypeOK, ClosedAtExit, [Next]_vars
      PROVE  ClosedAtExit'
  <2> USE PeerAssumption DEF TypeOK, ClosedAtExit, Threads
  <2>1. ASSUME NEW p \in Peers, Send(p) \/ Receive(p)
        PROVE  ClosedAtExit'
    BY <1>2, <2>1 DEF Send, Receive, NotifyOne, Asleep, pairVars, ownerVars
  <2>2. ASSUME NEW t \in Threads, Wake(t)
        PROVE  ClosedAtExit'
    BY <1>2, <2>2 DEF Wake, Look, TimedOut, Finish, Take, Deliver, pairVars, ownerVars,
       PeerPcs
  <2>3. CASE LoopTest
    BY <1>2, <2>3 DEF LoopTest, NotifyAll, ownerVars
  <2>4. CASE Reply
    BY <1>2, <2>4 DEF Reply, NotifyOne, Asleep, ownerVars
  <2>5. CASE Close \/ Serve \/ Stop \/ StopJoined
    BY <1>2, <2>5 DEF Close, Serve, Stop, StopJoined, NotifyAll, pairVars, ownerVars
  <2>6. CASE UNCHANGED vars
    BY <1>2, <2>6 DEF vars, pairVars, ownerVars
  <2>7. QED
    BY <1>2, <2>1, <2>2, <2>3, <2>4, <2>5, <2>6 DEF Next
<1>3. ClosedAtExit => NobodyTalksToNoServer
  BY DEF ClosedAtExit, NobodyTalksToNoServer
<1>4. QED
  BY <1>1, <1>2, <1>3, TypeCorrect, PTL DEF Spec

-----------------------------------------------------------------------------
(***************************************************************************)
(* The safety half of StopReturns.  While stop waits in join, no step of   *)
(* anybody takes the server thread away from its end, and taking a request *)
(* or passing the loop condition brings it nearer.                         *)
(***************************************************************************)

StopIsSeen == stopping => stopFlag /\ pc[Server] # "off"

StepsToExit(place) ==
    CASE place \in {"receive", "asleep"} -> 3
      [] place = "serving" -> 2
      [] place = "test"    -> 1
      [] OTHER             -> 0

\* It has not got anywhere: it is where it was, or looks at its queue and sleeps again.
ServerStays ==
    /\ taken' = taken
    /\ \/ pc'[Server] = pc[Server]
       \/ {pc[Server], pc'[Server]} \subseteq {"receive", "asleep"}

StopDrawsNear ==
    stopping /\ stopping' =>
        ServerStays \/ StepsToExit(pc'[Server]) < StepsToExit(pc[Server])

\* What a step can do to the server thread while stop waits for it.
LEMMA ServerMoves ==
    ASSUME TypeOK, StopIsSeen, stopping, [Next]_vars
    PROVE  \/ ~stopping'
           \/ /\ stopFlag' /\ pc'[Server] # "off"
              /\ \/ ServerStays
                 \/ pc[Server] \in {"receive", "asleep"} /\ pc'[Server] \in {"serving", "test"}
                 \/ pc[Server] = "serving" /\ pc'[Server] = "test"
                 \/ pc[Server] = "test" /\ pc'[Server] = "exited"
<1> USE PeerAssumption DEF TypeOK, StopIsSeen, ServerStays, Threads
<1>1. ASSUME NEW p \in Peers, Send(p) \/ Receive(p)
      PROVE  stopFlag' /\ pc'[Server] # "off" /\ ServerStays
  BY <1>1 DEF Send, Receive, NotifyOne, Asleep, pairVars, ownerVars, ghostVars
<1>2. ASSUME NEW p \in Peers, Wake(p)
      PROVE  stopFlag' /\ pc'[Server] # "off" /\ ServerStays
  BY <1>2 DEF Wake, Look, TimedOut, Finish, Deliver, pairVars, ownerVars, ghostVars
<1>3. CASE Wake(Server)
  BY <1>3 DEF Wake, Look, TimedOut, Finish, Take, pairVars, ownerVars, ghostVars
<1>4. CASE LoopTest
  BY <1>4 DEF LoopTest, NotifyAll, ownerVars, ghostVars
<1>5. CASE Reply
  BY <1>5 DEF Reply, NotifyOne, Asleep, ownerVars, ghostVars
<1>6. CASE Close \/ Serve \/ Stop \/ StopJoined
  BY <1>6 DEF Close, Serve, Stop, StopJoined, NotifyAll, pairVars, ownerVars, ghostVars
<1>7. CASE UNCHANGED vars
  BY <1>7 DEF vars, pairVars, ownerVars, ghostVars
<1>8. QED
  BY <1>1, <1>2, <1>3, <1>4, <1>5, <1>6, <1>7 DEF Next

\* While stop waits in join, the server thread takes one more request at most, and
\* whatever it does after waking brings it nearer to returning: no peer that goes on
\* sending can keep it (agent.cpp:752-762 under 766-768).
THEOREM StopsDrawNear == Spec => []StopIsSeen /\ [][StopDrawsNear]_vars
<1>1. Init => StopIsSeen
  BY DEF Init, StopIsSeen
<1>2. ASSUME TypeOK, StopIsSeen, [Next]_vars
      PROVE  StopIsSeen'
  <2>1. CASE stopping
    BY <1>2, <2>1, ServerMoves DEF StopIsSeen
  <2>2. CASE ~stopping
    BY <1>2, <2>2 DEF StopIsSeen, Next, Send, Receive, Wake, Look, TimedOut, Finish,
       LoopTest, Reply, Close, Serve, Stop, StopJoined, vars, pairVars, ownerVars
  <2>3. QED
    BY <2>1, <2>2
<1>3. ASSUME TypeOK, StopIsSeen, [Next]_vars
      PROVE  StopDrawsNear
  BY <1>3, ServerMoves DEF StopDrawsNear, StepsToExit
<1>4. QED
  BY <1>1, <1>2, <1>3, TypeCorrect, PTL DEF Spec
=============================================================================
