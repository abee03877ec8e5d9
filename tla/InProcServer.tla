---------------------------- MODULE InProcServer ----------------------------
(***************************************************************************)
(* AgentService::serve and stop (src/agent.cpp) over the in-process        *)
(* transport (src/inproc_transport.cpp).                                   *)
(*                                                                         *)
(* Actors: the peers, threads that send and receive at the client end; the *)
(* server thread; the owner, which calls serve and stop.  The two queues   *)
(* share one mutex and one condition variable: a critical section is one   *)
(* step, and notify_one may wake a thread of either end.                   *)
(*                                                                         *)
(* Requests are numbered in the order send accepts them, a reply has its   *)
(* request's number.  What handle() does with a request is in Agent.       *)
(***************************************************************************)
EXTENDS Naturals, Sequences

CONSTANTS
    Peers,       \* threads at the client end
    Server,      \* the server thread
    MaxRequests  \* no send after this many

ASSUME PeerAssumption == Server \notin Peers /\ MaxRequests \in Nat

VARIABLES
    \* --- InProcTransportPair ---
    toServer, toClient, closed,
    \* --- AgentService ---
    stopFlag,
    stopping,  \* the owner is inside stop(), at the join
    kept,      \* somebody besides the server thread holds the server's end
    \* --- the threads ---
    pc,
    held,      \* the request the server thread is handling, 0 if none
    \* --- not in the code, for the properties ---
    sent,      \* requests accepted so far
    taken,     \* requests the server thread has taken
    delivered  \* the last reply a peer has received

pairVars  == <<toServer, toClient, closed>>
ownerVars == <<stopFlag, stopping, kept>>
ghostVars == <<sent, taken, delivered>>
vars      == <<pairVars, ownerVars, pc, held, ghostVars>>

Threads == Peers \cup {Server}

\* The server thread is not there, at its loop condition, inside receive (about to
\* look, or asleep), handling a request, or has returned.
ServerPcs == {"off", "test", "receive", "asleep", "serving", "exited"}
PeerPcs   == {"idle", "receive", "asleep"}

Init ==
    /\ toServer = <<>> /\ toClient = <<>> /\ closed = FALSE
    /\ stopFlag = FALSE /\ stopping = FALSE /\ kept = TRUE
    /\ pc = [t \in Threads |-> IF t = Server THEN "off" ELSE "idle"]
    /\ held = 0
    /\ sent = 0 /\ taken = 0 /\ delivered = 0

-----------------------------------------------------------------------------
(* The condition variable *)

Asleep == {t \in Threads : pc[t] = "asleep"}

\* Threads move on to `next`, and one sleeper, whichever, goes to look.
NotifyOne(next) ==
    \/ Asleep = {} /\ pc' = next
    \/ \E t \in Asleep : pc' = [next EXCEPT ![t] = "receive"]

NotifyAll(next) ==
    pc' = [t \in Threads |-> IF next[t] = "asleep" THEN "receive" ELSE next[t]]

-----------------------------------------------------------------------------
(* send *)

\* Mutant: the newest request is put first.
Send_Front(p) ==
    /\ pc[p] = "idle"
    /\ ~closed
    /\ sent < MaxRequests
    /\ toServer' = <<sent + 1>> \o toServer
    /\ sent' = sent + 1
    /\ NotifyOne(pc)
    /\ UNCHANGED <<toClient, closed, ownerVars, held, taken, delivered>>

\* A peer sends.  On a closed pair send fails and changes nothing.
Send(p) ==
    /\ pc[p] = "idle"
    /\ ~closed
    /\ sent < MaxRequests
    /\ toServer' = Append(toServer, sent + 1)
    /\ sent' = sent + 1
    /\ NotifyOne(pc)
    /\ UNCHANGED <<toClient, closed, ownerVars, held, taken, delivered>>

\* The server thread has its answer and sends it; on a closed pair it is lost.
Reply ==
    /\ pc[Server] = "serving"
    /\ held' = 0
    /\ IF closed
       THEN /\ pc' = [pc EXCEPT ![Server] = "test"]
            /\ UNCHANGED toClient
       ELSE /\ toClient' = Append(toClient, held)
            /\ NotifyOne([pc EXCEPT ![Server] = "test"])
    /\ UNCHANGED <<toServer, closed, ownerVars, ghostVars>>

-----------------------------------------------------------------------------
(* receive *)

Take ==
    /\ toServer # <<>>
    /\ held' = Head(toServer)
    /\ toServer' = Tail(toServer)
    /\ taken' = taken + 1
    /\ pc' = [pc EXCEPT ![Server] = "serving"]
    /\ UNCHANGED <<toClient, delivered>>

Deliver(p) ==
    /\ toClient # <<>>
    /\ delivered' = Head(toClient)
    /\ toClient' = Tail(toClient)
    /\ pc' = [pc EXCEPT ![p] = "idle"]
    /\ UNCHANGED <<toServer, held, taken>>

Queue(t) == IF t = Server THEN toServer ELSE toClient

\* Mutant: whoever has waited in vain goes on as the server thread does.
Finish_AsServer(t) ==
    /\ \/ t = Server /\ Take
       \/ t # Server /\ Deliver(t)
       \/ /\ Queue(t) = <<>>
          /\ pc' = [pc EXCEPT ![t] = "test"]
          /\ UNCHANGED <<toServer, toClient, held, taken, delivered>>
    /\ UNCHANGED <<closed, ownerVars, sent>>

\* receive returns: with the first message, or, if there is none, with
\* not_connected or timeout; the server thread goes round its loop either way.
Finish(t) ==
    /\ \/ t = Server /\ Take
       \/ t # Server /\ Deliver(t)
       \/ /\ Queue(t) = <<>>
          /\ pc' = [pc EXCEPT ![t] = IF t = Server THEN "test" ELSE "idle"]
          /\ UNCHANGED <<toServer, toClient, held, taken, delivered>>
    /\ UNCHANGED <<closed, ownerVars, sent>>

Receive(p) ==
    /\ pc[p] = "idle"
    /\ pc' = [pc EXCEPT ![p] = "receive"]
    /\ UNCHANGED <<pairVars, ownerVars, held, ghostVars>>

\* The predicate of wait_for, looked at before the first sleep and after each
\* notification.
Look(t) ==
    /\ pc[t] = "receive"
    /\ IF Queue(t) # <<>> \/ closed
       THEN Finish(t)
       ELSE /\ pc' = [pc EXCEPT ![t] = "asleep"]
            /\ UNCHANGED <<pairVars, ownerVars, held, ghostVars>>

\* Mutant: wait instead of wait_for.
TimedOut_Never(t) == FALSE

\* 50 ms have passed: the predicate decides once more, notified or not.
TimedOut(t) ==
    /\ pc[t] = "asleep"
    /\ Finish(t)

-----------------------------------------------------------------------------
(* close, serve and stop *)

\* close() at either end, by a peer between two calls or by who kept the server's.
Close ==
    /\ ~closed
    /\ kept \/ \E p \in Peers : pc[p] = "idle"
    /\ closed' = TRUE
    /\ NotifyAll(pc)
    /\ UNCHANGED <<toServer, toClient, ownerVars, held, ghostVars>>

\* serve() on an end of the pair, which the caller may keep or hand over.  Calling
\* it while a server thread is there would end the program.
Serve ==
    /\ pc[Server] = "off"
    /\ stopFlag' = FALSE
    /\ kept' \in BOOLEAN
    /\ pc' = [pc EXCEPT ![Server] = "test"]
    /\ UNCHANGED <<pairVars, stopping, held, ghostVars>>

\* Mutant: the thread returns and the server's end stays open.
LoopTest_LeavesOpen ==
    /\ pc[Server] = "test"
    /\ pc' = [pc EXCEPT ![Server] = IF stopFlag THEN "exited" ELSE "receive"]
    /\ UNCHANGED <<pairVars, ownerVars, held, ghostVars>>

\* The loop condition.  When the thread returns its lambda lets go of the server's
\* end, and the end's destructor closes the pair unless somebody kept it.
LoopTest ==
    /\ pc[Server] = "test"
    /\ IF ~stopFlag
       THEN /\ pc' = [pc EXCEPT ![Server] = "receive"]
            /\ UNCHANGED closed
       ELSE /\ closed' = (closed \/ ~kept)
            /\ LET next == [pc EXCEPT ![Server] = "exited"] IN
               IF kept THEN pc' = next ELSE NotifyAll(next)
    /\ UNCHANGED <<toServer, toClient, ownerVars, held, ghostVars>>

\* stop(), the destructor included; without a server thread only the flag is set.
Stop ==
    /\ ~stopping
    /\ stopFlag' = TRUE
    /\ stopping' = (pc[Server] # "off")
    /\ UNCHANGED <<pairVars, kept, pc, held, ghostVars>>

StopJoined ==
    /\ stopping
    /\ pc[Server] = "exited"
    /\ stopping' = FALSE
    /\ pc' = [pc EXCEPT ![Server] = "off"]
    /\ UNCHANGED <<pairVars, stopFlag, kept, held, ghostVars>>

-----------------------------------------------------------------------------

Wake(t) == Look(t) \/ TimedOut(t)

Next ==
    \/ \E p \in Peers : Send(p) \/ Receive(p)
    \/ \E t \in Threads : Wake(t)
    \/ LoopTest \/ Reply
    \/ Close \/ Serve \/ Stop \/ StopJoined

Spec == Init /\ [][Next]_vars

\* Threads that can run do, the clock of wait_for runs, and handle() answers.
\* Nobody has to send, receive, close, serve or stop.
Fairness ==
    /\ \A t \in Threads : WF_vars(Wake(t))
    /\ WF_vars(LoopTest) /\ WF_vars(Reply) /\ WF_vars(StopJoined)

FairSpec == Spec /\ Fairness

-----------------------------------------------------------------------------
(* Properties *)

TypeOK ==
    /\ toServer \in Seq(Nat) /\ toClient \in Seq(Nat)
    /\ closed \in BOOLEAN
    /\ stopFlag \in BOOLEAN /\ stopping \in BOOLEAN /\ kept \in BOOLEAN
    /\ pc \in [Threads -> ServerPcs \cup PeerPcs]
    /\ pc[Server] \in ServerPcs
    /\ \A p \in Peers : pc[p] \in PeerPcs
    /\ held \in Nat /\ sent \in Nat /\ taken \in Nat /\ delivered \in Nat

\* No request is lost, answered twice or overtaken: what waits at the server's end
\* is exactly what was accepted and not taken yet; what waits at the client's end
\* is in order, after all that was delivered and before the one being handled
\* (the two queues of inproc_transport.cpp:24-30 and 54-56).
ExchangeInOrder ==
    /\ Len(toServer) = sent - taken
    /\ \A i \in DOMAIN toServer : toServer[i] = taken + i
    /\ held \in {0, taken}
    /\ \A i \in DOMAIN toClient :
          /\ delivered < toClient[i]
          /\ toClient[i] <= taken
          /\ held > 0 => toClient[i] < held
          /\ \A j \in DOMAIN toClient : i < j => toClient[i] < toClient[j]
    /\ delivered <= taken
    /\ held > 0 => delivered < held

\* After stop() has returned the pair is closed unless the owner kept an end of it:
\* no request is accepted that nobody will look at (agent.cpp:751, the lambda's copy
\* of the transport, and inproc_transport.cpp:11).
NobodyTalksToNoServer ==
    pc[Server] = "off" /\ ~kept => closed

\* Every request that was accepted is taken while the server runs, closed pair or
\* not: no wakeup is lost for good, although a notification can go to the wrong
\* thread (inproc_transport.cpp:30, 41).
RequestsAreTaken ==
    \A n \in 1..MaxRequests :
        sent >= n /\ pc[Server] \notin {"off", "exited"} ~> taken >= n \/ stopFlag

\* stop() returns, though nothing wakes the server thread for it (agent.cpp:766).
StopReturns == stopping ~> ~stopping
=============================================================================
