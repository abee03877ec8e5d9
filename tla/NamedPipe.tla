------------------------------ MODULE NamedPipe ------------------------------
(***************************************************************************)
(* AgentService::serve and stop (src/agent.cpp) over the named pipe of     *)
(* src/named_pipe_transport.cpp.                                           *)
(*                                                                         *)
(* Actors: the server thread, the owner that calls stop, and the clients,  *)
(* each a NamedPipeClient in a process of its own that may exit at any     *)
(* moment.  The one pipe instance between them belongs to Windows: it      *)
(* listens, is connected, or is closing once the client's end is shut; it  *)
(* is gone when the server has disconnected and closed it.                 *)
(*                                                                         *)
(* A request is two frames, the header (magic and length) and the payload, *)
(* written and read one after the other; a foreign client may write a      *)
(* frame with another magic.                                               *)
(***************************************************************************)
EXTENDS Naturals, Sequences

CONSTANTS
    Clients,
    Foreign,      \* clients that do not speak the protocol
    MaxRequests,  \* no send after this many
    NoClient

ASSUME PipeAssumption ==
    /\ Foreign \subseteq Clients /\ NoClient \notin Clients
    /\ MaxRequests \in Nat

VARIABLES
    \* --- the pipe instance ---
    pipe,      \* the server's pipe_ and what Windows says of it
    peer,      \* the client at the other end, alive or not
    frames,    \* written by the client, not yet read by the server
    \* --- the server thread ---
    srv,
    head,      \* request the header in hand belongs to
    body,      \* request the payload in hand belongs to
    stopFlag,
    kept,      \* somebody besides the server thread holds the transport
    \* --- each client ---
    pc,
    handle,    \* its pipe_: none, open, or dead once the server's end is closed
    req,       \* the request it is sending or has sent last
    \* --- not in the code, for the properties ---
    started,   \* sends begun so far; a request carries its number
    taken,     \* requests handed to handle()
    answered,  \* replies that found a client
    late       \* requests handed over after stop was called

pipeVars   == <<pipe, peer, frames>>
serverVars == <<srv, head, body>>
ownerVars  == <<stopFlag, kept>>
clientVars == <<pc, handle, req>>
ghostVars  == <<started, taken, answered, late>>
vars       == <<pipeVars, serverVars, ownerVars, clientVars, ghostVars>>

PipeStates == {"none", "listening", "connected", "closing"}
\* At the loop condition, about to arm the pipe, about to wait, waiting inside
\* ConnectNamedPipe, reading, about to drop the pipe, in handle(), returned.
ServerPcs  == {"test", "arm", "connect", "waiting", "header", "payload", "rearm",
               "handle", "exited"}
\* Idle, connecting for a send, writing, waiting for the answer, connecting for a
\* receive that nothing was sent before, waiting in that, gone.
ClientPcs  == {"idle", "connecting", "header", "payload", "receiving", "opening",
               "early", "gone"}
Requests   == 1..MaxRequests
Frames     == [kind : {"header", "payload", "other"}, req : Requests]

Init ==
    /\ pipe = "none" /\ peer = NoClient /\ frames = <<>>
    /\ srv = "test" /\ head = 0 /\ body = 0
    /\ stopFlag = FALSE /\ kept \in BOOLEAN
    /\ pc = [c \in Clients |-> "idle"]
    /\ handle = [c \in Clients |-> "none"]
    /\ req = [c \in Clients |-> 0]
    /\ started = 0 /\ taken = {} /\ answered = 0 /\ late = 0

-----------------------------------------------------------------------------
(* The server thread: the loop of serve *)

\* Mutant: the flag is not looked at when receive has failed.
LoopTest_Deaf ==
    /\ srv = "test"
    /\ srv' = IF stopFlag /\ pipe = "none" THEN "exited" ELSE "arm"
    /\ UNCHANGED <<pipeVars, head, body, ownerVars, clientVars, ghostVars>>

\* Mutant: the loop does not end.
LoopTest_Forever ==
    /\ srv = "test"
    /\ srv' = "arm"
    /\ UNCHANGED <<pipeVars, head, body, ownerVars, clientVars, ghostVars>>

LoopTest ==
    /\ srv = "test"
    /\ srv' = IF stopFlag THEN "exited" ELSE "arm"
    /\ UNCHANGED <<pipeVars, head, body, ownerVars, clientVars, ghostVars>>

\* An instance left over from a failed receive is used again; a new one may be
\* refused (somebody else owns the name), and receive fails.
Arm ==
    /\ srv = "arm"
    /\ \/ pipe # "none" /\ srv' = "connect" /\ UNCHANGED pipe
       \/ pipe = "none" /\ srv' = "connect" /\ pipe' = "listening"
       \/ pipe = "none" /\ srv' = "test" /\ UNCHANGED pipe
    /\ UNCHANGED <<peer, frames, head, body, ownerVars, clientVars, ghostVars>>

\* Mutant: a client that was there before the call counts as a failure.
CallConnect_Late ==
    /\ srv = "connect"
    /\ srv' = IF pipe = "listening" THEN "waiting" ELSE "test"
    /\ UNCHANGED <<pipeVars, head, body, ownerVars, clientVars, ghostVars>>

\* Mutant: an instance whose client has left is made to listen again.
CallConnect_Recovers ==
    /\ srv = "connect"
    /\ srv' = IF pipe = "connected" THEN "header" ELSE "waiting"
    /\ pipe' = IF pipe = "closing" THEN "listening" ELSE pipe
    /\ UNCHANGED <<peer, frames, head, body, ownerVars, clientVars, ghostVars>>

\* ConnectNamedPipe.  It blocks without a timeout, accepts a client that is
\* there already, and fails on one that has gone again.
CallConnect ==
    /\ srv = "connect"
    /\ srv' = CASE pipe = "listening" -> "waiting"
                [] pipe = "connected" -> "header"
                [] OTHER              -> "test"
    /\ UNCHANGED <<pipeVars, head, body, ownerVars, clientVars, ghostVars>>

\* A read of a closing pipe that holds no more data fails, and so does receive:
\* the instance stays as it is.
ReadFails ==
    /\ srv \in {"header", "payload"}
    /\ frames = <<>> /\ pipe = "closing"
    /\ srv' = "test" /\ head' = 0
    /\ UNCHANGED <<pipeVars, body, ownerVars, clientVars, ghostVars>>

\* Mutant: only the header is waited for, the payload is what comes next time.
ReadHeader_Short ==
    /\ srv = "header" /\ frames # <<>>
    /\ frames' = Tail(frames)
    /\ srv' = "rearm" /\ head' = Head(frames).req
    /\ UNCHANGED <<pipe, peer, body, ownerVars, clientVars, ghostVars>>

\* A frame with another magic is consumed; receive fails, the client stays.
ReadHeader ==
    /\ srv = "header" /\ frames # <<>>
    /\ frames' = Tail(frames)
    /\ IF Head(frames).kind = "header"
       THEN srv' = "payload" /\ head' = Head(frames).req
       ELSE srv' = "test" /\ UNCHANGED head
    /\ UNCHANGED <<pipe, peer, body, ownerVars, clientVars, ghostVars>>

ReadPayload ==
    /\ srv = "payload" /\ frames # <<>>
    /\ frames' = Tail(frames)
    /\ srv' = "rearm" /\ body' = Head(frames).req
    /\ UNCHANGED <<pipe, peer, head, ownerVars, clientVars, ghostVars>>

\* Mutant: what was not read stays for the next client.
Drop_Leftovers ==
    /\ pipe' = "none" /\ peer' = NoClient /\ UNCHANGED frames
    /\ handle' = [c \in Clients |-> IF handle[c] = "open" THEN "dead" ELSE handle[c]]

\* The server's end is closed: the client's handle is good for nothing more and
\* what was not read is thrown away.
Drop ==
    /\ pipe' = "none" /\ peer' = NoClient /\ frames' = <<>>
    /\ handle' = [c \in Clients |-> IF handle[c] = "open" THEN "dead" ELSE handle[c]]

\* The end of receive: disconnect and close, then hand the request over.
Rearm ==
    /\ srv = "rearm"
    /\ Drop
    /\ srv' = "handle"
    /\ taken' = taken \cup {body}
    /\ late' = IF stopFlag THEN late + 1 ELSE late
    /\ UNCHANGED <<head, body, ownerVars, pc, req, started, answered>>

\* handle() has its answer; send refuses when there is no pipe.
Reply ==
    /\ srv = "handle"
    /\ srv' = "test" /\ head' = 0 /\ body' = 0
    /\ answered' = IF pipe = "none" THEN answered ELSE answered + 1
    /\ UNCHANGED <<pipeVars, ownerVars, clientVars, started, taken, late>>

\* When the thread has returned its lambda lets go of the transport; the last
\* reference runs ~NamedPipeServer.
Close ==
    /\ srv = "exited" /\ pipe # "none" /\ ~kept
    /\ Drop
    /\ UNCHANGED <<serverVars, ownerVars, pc, req, ghostVars>>

\* Who made the server may keep it as long as he likes.
LetGo ==
    /\ kept /\ kept' = FALSE
    /\ UNCHANGED <<pipeVars, serverVars, stopFlag, clientVars, ghostVars>>

\* The owner sets the flag and waits in join until srv is "exited".
Stop ==
    /\ ~stopFlag
    /\ stopFlag' = TRUE
    /\ UNCHANGED <<pipeVars, serverVars, kept, clientVars, ghostVars>>

-----------------------------------------------------------------------------
(* The clients *)

\* send: a handle is used as long as the client has one, dead or not.
Send(c) ==
    /\ pc[c] = "idle" /\ started < MaxRequests
    /\ started' = started + 1
    /\ req' = [req EXCEPT ![c] = started + 1]
    /\ pc' = [pc EXCEPT ![c] = IF handle[c] = "none" THEN "connecting" ELSE "header"]
    /\ UNCHANGED <<pipeVars, serverVars, ownerVars, handle, taken, answered, late>>

\* ensure_connected: CreateFileA finds a listening instance, and a server that
\* waits in ConnectNamedPipe goes on.
Connect(c) ==
    /\ pc[c] \in {"connecting", "opening"} /\ pipe = "listening"
    /\ pipe' = "connected" /\ peer' = c
    /\ handle' = [handle EXCEPT ![c] = "open"]
    /\ pc' = [pc EXCEPT ![c] = IF @ = "connecting" THEN "header" ELSE "early"]
    /\ srv' = IF srv = "waiting" THEN "header" ELSE srv
    /\ UNCHANGED <<frames, head, body, ownerVars, req, ghostVars>>

\* The last of the 50 attempts has found no listening instance: the call fails.
GiveUp(c) ==
    /\ pc[c] \in {"connecting", "opening"} /\ pipe # "listening"
    /\ pc' = [pc EXCEPT ![c] = "idle"]
    /\ UNCHANGED <<pipeVars, serverVars, ownerVars, handle, req, ghostVars>>

\* write_all.  On a dead handle it fails, and the client keeps the handle.
Write(c) ==
    /\ pc[c] \in {"header", "payload"}
    /\ IF handle[c] = "dead"
       THEN /\ pc' = [pc EXCEPT ![c] = "idle"] /\ UNCHANGED frames
       ELSE /\ frames' = Append(frames,
                 [kind |-> IF c \in Foreign THEN "other" ELSE pc[c], req |-> req[c]])
            /\ pc' = [pc EXCEPT ![c] = IF pc[c] = "header" /\ c \notin Foreign
                                        THEN "payload" ELSE "idle"]
    /\ UNCHANGED <<pipe, peer, serverVars, ownerVars, handle, req, ghostVars>>

\* receive waits on the same handle, or connects first: only the end of the pipe
\* wakes it.
Receive(c) ==
    /\ pc[c] = "idle"
    /\ pc' = [pc EXCEPT ![c] = IF handle[c] = "none" THEN "opening" ELSE "receiving"]
    /\ UNCHANGED <<pipeVars, serverVars, ownerVars, handle, req, ghostVars>>

ReceiveFails(c) ==
    /\ pc[c] \in {"receiving", "early"} /\ handle[c] = "dead"
    /\ pc' = [pc EXCEPT ![c] = "idle"]
    /\ UNCHANGED <<pipeVars, serverVars, ownerVars, handle, req, ghostVars>>

\* close, or the process is gone; what it has written can still be read.
Leave(c) ==
    /\ pc[c] # "gone"
    /\ pc' = [pc EXCEPT ![c] = "gone"]
    /\ handle' = [handle EXCEPT ![c] = "none"]
    /\ pipe' = IF handle[c] = "open" THEN "closing" ELSE pipe
    /\ UNCHANGED <<peer, frames, serverVars, ownerVars, req, ghostVars>>

-----------------------------------------------------------------------------

Server ==
    \/ LoopTest \/ Arm \/ CallConnect \/ ReadFails \/ ReadHeader \/ ReadPayload
    \/ Rearm \/ Reply \/ Close

\* What a client inside a call does; calling and leaving are up to its program.
Client(c) == Connect(c) \/ GiveUp(c) \/ Write(c) \/ ReceiveFails(c)

Next ==
    \/ Server
    \/ Stop \/ LetGo
    \/ \E c \in Clients : Client(c) \/ Send(c) \/ Receive(c) \/ Leave(c)

\* The threads run; nobody has to send, leave, receive, call stop or let go.
Fairness ==
    /\ WF_vars(Server)
    /\ \A c \in Clients : WF_vars(Client(c))

Spec == Init /\ [][Next]_vars
FairSpec == Spec /\ Fairness

-----------------------------------------------------------------------------
(* Properties *)

TypeOK ==
    /\ pipe \in PipeStates /\ peer \in Clients \cup {NoClient}
    /\ frames \in Seq(Frames)
    /\ srv \in ServerPcs /\ stopFlag \in BOOLEAN /\ kept \in BOOLEAN
    /\ head \in 0..MaxRequests /\ body \in 0..MaxRequests
    /\ pc \in [Clients -> ClientPcs]
    /\ handle \in [Clients -> {"none", "open", "dead"}]
    /\ req \in [Clients -> 0..MaxRequests]
    /\ started \in 0..MaxRequests /\ taken \subseteq Requests
    /\ answered \in Nat /\ late \in Nat

\* A request is handed over whole: its header and its payload were written by one
\* send, whatever clients left half-sent before (NamedPipeServer::receive).
TakenWhole == srv \in {"rearm", "handle"} => head = body /\ body # 0

\* receive closes the pipe before handle() runs, so whatever send is called with,
\* no client is there to read it: no answer ever leaves the server.
NoAnswerLeaves == answered = 0

\* Once stop has been called the server hands over one more request at most.
LastRequest == late <= 1

\* Half a conversation is final: a client that leaves when the server is not
\* reading it yet, or before its request is complete, leaves an instance nobody
\* drops.  Only the end of the service, once the transport is let go, closes it;
\* no client gets in again.
AbortIsFinal ==
    [][pipe = "closing" /\ srv \in {"test", "arm", "connect"}
          => pipe' = "closing" /\ srv' \in {"test", "arm", "connect", "exited"}]_vars

\* The doc's reply to every request (docs/AGENT.md:16) over this transport, its
\* production one (docs/AGENT.md:4): while handle() works on a request and its client
\* waits in receive, there is a connection to answer on.
WaitingClientCanBeAnswered ==
    srv = "handle" =>
        \A c \in Clients \ Foreign :
            pc[c] = "receiving" /\ req[c] = body => handle[c] = "open"

\* A client of the library that has sent and waits in receive is released, whoever
\* keeps the transport after stop: the thread does not look at the flag between such a
\* client's request and the drop of its pipe.  One that calls receive first ("early")
\* waits for a server that waits for it.
ReceiveReturns ==
    \A c \in Clients \ Foreign : pc[c] = "receiving" ~> pc[c] # "receiving"

\* stop's join ends or waits for a client: the thread is inside ConnectNamedPipe
\* with nobody there, or reads from a client that has not finished.
StopEndsOrWaits ==
    stopFlag ~> (\/ srv = "exited"
                 \/ srv = "waiting"
                 \/ srv \in {"header", "payload"} /\ frames = <<>> /\ pipe = "connected")
=============================================================================
