--------------------------- MODULE NamedPipeProofs ---------------------------
(***************************************************************************)
(* Theorems about NamedPipe, for any number of clients and requests.       *)
(***************************************************************************)
EXTENDS NamedPipe, TLAPS

USE DEF ownerVars

\* What was written before the i-th unread frame.  Of what the server has read only
\* a header in hand counts.
Before(i) ==
    IF i = 1 THEN [kind |-> IF srv = "payload" THEN "header" ELSE "other", req |-> head]
    ELSE frames[i - 1]

\* A payload follows its own header and nothing else does.
FramesAlternate ==
    \A i \in DOMAIN frames :
       /\ frames[i].kind = "payload" <=> Before(i).kind = "header"
       /\ frames[i].kind = "payload" => frames[i].req = Before(i).req

\* A client that can still write goes on where the frames leave off.
WriterInStep ==
    \A c \in Clients : handle[c] = "open" =>
       /\ pc[c] = "payload" <=> Before(Len(frames) + 1).kind = "header"
       /\ pc[c] = "payload" => req[c] = Before(Len(frames) + 1).req

\* Only the peer of a connected pipe can write; a client that sends has a request
\* and has had a pipe.
HandlesFit ==
    \A c \in Clients :
       /\ handle[c] = "open" => pipe = "connected" /\ peer = c
       /\ pc[c] \in {"header", "payload"} => handle[c] # "none"
       /\ pc[c] \in {"connecting", "header", "payload"} => req[c] # 0
       /\ c \in Foreign => pc[c] # "payload"

\* A pipe nobody is connected to holds nothing, and the server is not reading it.
QuietUnlessConnected ==
    /\ pipe \in {"none", "listening"} =>
          frames = <<>> /\ srv \notin {"header", "payload", "rearm"}
    /\ srv = "handle" => pipe = "none"

\* Past its last request the server is on its way out.
LateIsLast ==
    late = 0 \/ (late = 1 /\ stopFlag /\ srv \in {"handle", "test", "exited"})

PInv ==
    /\ TypeOK /\ FramesAlternate /\ WriterInStep /\ HandlesFit
    /\ QuietUnlessConnected /\ TakenWhole

-----------------------------------------------------------------------------
(* Sequences of frames *)

LEMMA AppendFacts ==
    ASSUME NEW q \in Seq(Frames), NEW f \in Frames
    PROVE  /\ Append(q, f) \in Seq(Frames)
           /\ Len(q) \in Nat /\ Len(Append(q, f)) = Len(q) + 1
           /\ DOMAIN q = 1..Len(q) /\ DOMAIN Append(q, f) = 1..(Len(q) + 1)
           /\ \A i \in 1..Len(q) : Append(q, f)[i] = q[i]
           /\ Append(q, f)[Len(q) + 1] = f
  OBVIOUS

LEMMA TailFacts ==
    ASSUME NEW q \in Seq(Frames), q # <<>>
    PROVE  /\ Tail(q) \in Seq(Frames)
           /\ Head(q) = q[1] /\ Head(q) \in Frames /\ 1 \in DOMAIN q
           /\ Len(q) \in Nat /\ Len(q) >= 1 /\ Len(Tail(q)) = Len(q) - 1
           /\ DOMAIN q = 1..Len(q) /\ DOMAIN Tail(q) = 1..(Len(q) - 1)
           /\ \A i \in 1..(Len(q) - 1) : Tail(q)[i] = q[i + 1]
  OBVIOUS

\* Steps that leave the frames, the header in hand and the writers where they are.
LEMMA FramesStay ==
    ASSUME TypeOK, FramesAlternate, WriterInStep, frames' = frames, head' = head,
           srv' = "payload" <=> srv = "payload",
           \A c \in Clients : handle'[c] = "open" =>
              /\ handle[c] = "open"
              /\ pc'[c] = "payload" <=> pc[c] = "payload"
              /\ pc'[c] = "payload" => req'[c] = req[c]
    PROVE  FramesAlternate' /\ WriterInStep'
<1>1. \A i : Before(i)' = Before(i)
  BY DEF Before
<1>2. FramesAlternate'
  BY <1>1 DEF FramesAlternate
<1>3. WriterInStep'
  BY <1>1 DEF WriterInStep
<1>4. QED
  BY <1>2, <1>3

\* Steps after which the pipe is empty and has no writer.
LEMMA FramesGone ==
    ASSUME frames' = <<>>, \A c \in Clients : handle'[c] # "open"
    PROVE  FramesAlternate' /\ WriterInStep'
  BY DEF FramesAlternate, WriterInStep

\* No client has an open handle when the server's end is closed.
LEMMA DropFacts ==
    ASSUME TypeOK, Drop
    PROVE  /\ pipe' = "none" /\ peer' = NoClient /\ frames' = <<>> /\ frames' \in Seq(Frames)
           /\ handle' \in [Clients -> {"none", "open", "dead"}]
           /\ \A c \in Clients : handle'[c] # "open"
           /\ \A c \in Clients : handle'[c] = "none" <=> handle[c] = "none"
  BY DEF TypeOK, Drop

-----------------------------------------------------------------------------
(* One lemma per action that moves frames *)

LEMMA ReadHeaderKeeps ==
    ASSUME PInv, ReadHeader
    PROVE  PInv'
<1> USE DEF PInv
<1>1. /\ srv = "header" /\ frames # <<>> /\ frames' = Tail(frames)
      /\ UNCHANGED <<pipe, peer, body, stopFlag, kept, pc, handle, req,
                     started, taken, answered, late>>
  BY DEF ReadHeader, clientVars, ghostVars
<1>2. /\ Tail(frames) \in Seq(Frames) /\ Head(frames) = frames[1] /\ frames[1] \in Frames
      /\ Len(frames) \in Nat /\ Len(frames) >= 1 /\ Len(frames') = Len(frames) - 1
      /\ DOMAIN frames = 1..Len(frames) /\ DOMAIN frames' = 1..(Len(frames) - 1)
      /\ \A i \in 1..(Len(frames) - 1) : frames'[i] = frames[i + 1]
  BY <1>1, TailFacts DEF TypeOK
<1>3. pipe \notin {"none", "listening"}
  BY <1>1 DEF QuietUnlessConnected
<1>4. frames[1].kind # "payload"
  <2>1. 1 \in DOMAIN frames
    BY <1>2
  <2>2. Before(1).kind = "other"
    BY <1>1 DEF Before
  <2>3. QED
    BY <2>1, <2>2 DEF FramesAlternate
<1>5. \/ srv' = "payload" /\ head' = frames[1].req /\ frames[1].kind = "header"
      \/ srv' = "test" /\ head' = head /\ frames[1].kind # "header"
  BY <1>2 DEF ReadHeader
<1>6. TypeOK'
  BY <1>1, <1>2, <1>5 DEF TypeOK, Frames, Requests, ServerPcs
<1>7. \A i \in 1..Len(frames) :
         /\ Before(i)'.kind = "header" <=> Before(i + 1).kind = "header"
         /\ Before(i)'.kind = "header" => Before(i)'.req = Before(i + 1).req
  BY <1>2, <1>5 DEF Before
<1>8. FramesAlternate'
  <2> SUFFICES ASSUME NEW i \in DOMAIN frames'
               PROVE  /\ frames'[i].kind = "payload" <=> Before(i)'.kind = "header"
                      /\ frames'[i].kind = "payload" => frames'[i].req = Before(i)'.req
    BY DEF FramesAlternate
  <2>1. i \in 1..Len(frames) /\ i + 1 \in DOMAIN frames /\ frames'[i] = frames[i + 1]
    BY <1>2
  <2>2. QED
    BY <2>1, <1>7 DEF FramesAlternate
<1>9. WriterInStep'
  <2>1. PICK n \in Nat : n = Len(frames)
    BY <1>2
  <2>2. n \in 1..Len(frames) /\ Len(frames)' + 1 = n
    BY <1>2, <2>1
  <2>3. \A c \in Clients : handle[c] = "open" =>
           /\ pc[c] = "payload" <=> Before(n)'.kind = "header"
           /\ pc[c] = "payload" => req[c] = Before(n)'.req
    BY <1>7, <2>1, <2>2 DEF WriterInStep
  <2>4. QED
    BY <1>1, <2>2, <2>3 DEF WriterInStep
<1>10. HandlesFit' /\ QuietUnlessConnected' /\ TakenWhole'
  BY <1>1, <1>3, <1>5 DEF HandlesFit, QuietUnlessConnected, TakenWhole
<1>11. QED
  BY <1>6, <1>8, <1>9, <1>10

\* The payload in hand is the one of the header in hand.
LEMMA ReadPayloadKeeps ==
    ASSUME PInv, ReadPayload
    PROVE  PInv'
<1> USE DEF PInv
<1>1. /\ srv = "payload" /\ frames # <<>> /\ frames' = Tail(frames)
      /\ srv' = "rearm" /\ body' = Head(frames).req
      /\ UNCHANGED <<pipe, peer, head, stopFlag, kept, pc, handle, req,
                     started, taken, answered, late>>
  BY DEF ReadPayload, clientVars, ghostVars
<1>2. /\ Tail(frames) \in Seq(Frames) /\ Head(frames) = frames[1] /\ frames[1] \in Frames
      /\ Len(frames) \in Nat /\ Len(frames) >= 1 /\ Len(frames') = Len(frames) - 1
      /\ DOMAIN frames = 1..Len(frames) /\ DOMAIN frames' = 1..(Len(frames) - 1)
      /\ \A i \in 1..(Len(frames) - 1) : frames'[i] = frames[i + 1]
  BY <1>1, TailFacts DEF TypeOK
<1>3. pipe \notin {"none", "listening"}
  BY <1>1 DEF QuietUnlessConnected
<1>4. frames[1].kind = "payload" /\ frames[1].req = head
  BY <1>1, <1>2 DEF FramesAlternate, Before
<1>5. body' = head /\ body' # 0 /\ body' \in 0..MaxRequests
  BY <1>1, <1>2, <1>4, PipeAssumption DEF Frames, Requests
<1>6. TypeOK'
  BY <1>1, <1>2, <1>5 DEF TypeOK, ServerPcs
<1>7. \A i \in 1..Len(frames) :
         /\ Before(i)'.kind = "header" <=> Before(i + 1).kind = "header"
         /\ Before(i)'.kind = "header" => Before(i)'.req = Before(i + 1).req
  BY <1>1, <1>2, <1>4 DEF Before
<1>8. FramesAlternate'
  <2> SUFFICES ASSUME NEW i \in DOMAIN frames'
               PROVE  /\ frames'[i].kind = "payload" <=> Before(i)'.kind = "header"
                      /\ frames'[i].kind = "payload" => frames'[i].req = Before(i)'.req
    BY DEF FramesAlternate
  <2>1. i \in 1..Len(frames) /\ i + 1 \in DOMAIN frames /\ frames'[i] = frames[i + 1]
    BY <1>2
  <2>2. QED
    BY <2>1, <1>7 DEF FramesAlternate
<1>9. WriterInStep'
  <2>1. PICK n \in Nat : n = Len(frames)
    BY <1>2
  <2>2. n \in 1..Len(frames) /\ Len(frames)' + 1 = n
    BY <1>2, <2>1
  <2>3. \A c \in Clients : handle[c] = "open" =>
           /\ pc[c] = "payload" <=> Before(n)'.kind = "header"
           /\ pc[c] = "payload" => req[c] = Before(n)'.req
    BY <1>7, <2>1, <2>2 DEF WriterInStep
  <2>4. QED
    BY <1>1, <2>2, <2>3 DEF WriterInStep
<1>10. HandlesFit' /\ QuietUnlessConnected' /\ TakenWhole'
  BY <1>1, <1>3, <1>5 DEF HandlesFit, QuietUnlessConnected, TakenWhole
<1>11. QED
  BY <1>6, <1>8, <1>9, <1>10

\* What a client with a live handle writes comes next after what is there.
LEMMA WriteKeeps ==
    ASSUME PInv, NEW c \in Clients, Write(c)
    PROVE  PInv'
<1> USE DEF PInv
<1>1. /\ pc[c] \in {"header", "payload"}
      /\ UNCHANGED <<pipe, peer, srv, head, body, stopFlag, kept, handle, req,
                     started, taken, answered, late>>
  BY DEF Write, serverVars, ghostVars
<1>2. handle[c] \in {"open", "dead"} /\ req[c] \in Requests
  BY <1>1, PipeAssumption DEF HandlesFit, TypeOK, Requests
<1>3. CASE handle[c] = "dead"
  <2>1. pc' = [pc EXCEPT ![c] = "idle"] /\ frames' = frames
    BY <1>3 DEF Write
  <2>2. TypeOK'
    BY <1>1, <2>1 DEF TypeOK, ClientPcs
  <2>3. FramesAlternate' /\ WriterInStep'
    BY <1>1, <1>3, <2>1, FramesStay DEF TypeOK
  <2>4. QED
    BY <1>1, <2>1, <2>2, <2>3 DEF HandlesFit, QuietUnlessConnected, TakenWhole, TypeOK
<1>4. CASE handle[c] = "open"
  <2> DEFINE f == [kind |-> IF c \in Foreign THEN "other" ELSE pc[c], req |-> req[c]]
             next == IF pc[c] = "header" /\ c \notin Foreign THEN "payload" ELSE "idle"
  <2>1. frames' = Append(frames, f) /\ pc' = [pc EXCEPT ![c] = next]
    BY <1>4 DEF Write
  <2>2. /\ f \in Frames /\ f.req = req[c]
        /\ f.kind = "payload" <=> pc[c] = "payload"
        /\ f.kind = "header" <=> next = "payload"
        /\ next \in {"payload", "idle"}
        /\ c \in Foreign => next = "idle"
    BY <1>1, <1>2 DEF Frames, HandlesFit
  <2> HIDE DEF f, next
  <2>3. /\ frames' \in Seq(Frames) /\ Len(frames) \in Nat /\ Len(frames') = Len(frames) + 1
        /\ DOMAIN frames = 1..Len(frames) /\ DOMAIN frames' = 1..(Len(frames) + 1)
        /\ \A i \in 1..Len(frames) : frames'[i] = frames[i]
        /\ frames'[Len(frames) + 1] = f
    BY <2>1, <2>2, AppendFacts DEF TypeOK
  <2>4. TypeOK'
    BY <1>1, <2>1, <2>2, <2>3 DEF TypeOK, ClientPcs
  <2>5. \A i \in 1..(Len(frames) + 1) : Before(i)' = Before(i)
    BY <1>1, <2>3 DEF Before
  <2>6. PICK n \in Nat : n = Len(frames) + 2
    BY <2>3
  <2>7. Before(n)' = f /\ Len(frames)' + 1 = n
    BY <2>3, <2>6 DEF Before
  <2>8. FramesAlternate'
    <3> SUFFICES ASSUME NEW i \in 1..(Len(frames) + 1)
                 PROVE  /\ frames'[i].kind = "payload" <=> Before(i)'.kind = "header"
                        /\ frames'[i].kind = "payload" => frames'[i].req = Before(i)'.req
      BY <2>3 DEF FramesAlternate
    <3>1. CASE i \in 1..Len(frames)
      BY <2>3, <2>5, <3>1 DEF FramesAlternate
    <3>2. CASE i = Len(frames) + 1
      BY <1>4, <2>2, <2>3, <2>5, <3>2 DEF WriterInStep
    <3>3. QED
      BY <2>3, <3>1, <3>2
  <2>9. WriterInStep'
    <3> SUFFICES ASSUME NEW d \in Clients, handle[d] = "open"
                 PROVE  /\ pc'[d] = "payload" <=> Before(n)'.kind = "header"
                        /\ pc'[d] = "payload" => req[d] = Before(n)'.req
      BY <1>1, <2>7 DEF WriterInStep
    <3>1. d = c
      BY <1>4 DEF HandlesFit
    <3>2. pc'[c] = next
      BY <2>1 DEF TypeOK
    <3>3. QED
      BY <2>2, <2>7, <3>1, <3>2
  <2>10. pipe \notin {"none", "listening"}
    BY <1>4 DEF HandlesFit
  <2>11. HandlesFit' /\ QuietUnlessConnected' /\ TakenWhole'
    BY <1>1, <1>2, <2>1, <2>2, <2>10, PipeAssumption
       DEF HandlesFit, QuietUnlessConnected, TakenWhole, TypeOK, Requests
  <2>12. QED
    BY <2>4, <2>8, <2>9, <2>11
<1>5. QED
  BY <1>2, <1>3, <1>4

\* A new connection starts with an empty pipe and a client that has written nothing.
LEMMA ConnectKeeps ==
    ASSUME PInv, NEW c \in Clients, Connect(c)
    PROVE  PInv'
<1> USE DEF PInv
<1> DEFINE next == IF pc[c] = "connecting" THEN "header" ELSE "early"
<1>1. /\ pc[c] \in {"connecting", "opening"} /\ pipe = "listening"
      /\ pipe' = "connected" /\ peer' = c
      /\ handle' = [handle EXCEPT ![c] = "open"] /\ pc' = [pc EXCEPT ![c] = next]
      /\ srv' = IF srv = "waiting" THEN "header" ELSE srv
      /\ UNCHANGED <<frames, head, body, stopFlag, kept, req, started, taken, answered, late>>
  BY DEF Connect, ghostVars
<1>2. frames = <<>> /\ srv \notin {"header", "payload", "rearm", "handle"}
  BY <1>1 DEF QuietUnlessConnected
<1>3. TypeOK'
  BY <1>1 DEF TypeOK, PipeStates, ServerPcs, ClientPcs
<1>4. \A d \in Clients : handle[d] # "open"
  BY <1>1 DEF HandlesFit
<1>5. FramesAlternate'
  BY <1>1, <1>2 DEF FramesAlternate
<1>6. Len(frames') + 1 = 1 /\ Before(1)'.kind = "other"
  BY <1>1, <1>2 DEF Before
<1>7. WriterInStep'
  <2> SUFFICES ASSUME NEW d \in Clients, handle'[d] = "open"
               PROVE  pc'[d] # "payload"
    BY <1>6 DEF WriterInStep
  <2>1. QED
    BY <1>1, <1>4 DEF TypeOK
<1>8. HandlesFit' /\ QuietUnlessConnected' /\ TakenWhole'
  BY <1>1, <1>2, <1>4 DEF HandlesFit, QuietUnlessConnected, TakenWhole, TypeOK
<1>9. QED
  BY <1>3, <1>5, <1>7, <1>8

\* Disconnecting throws the rest away.
LEMMA RearmKeeps ==
    ASSUME PInv, Rearm
    PROVE  PInv'
<1> USE DEF PInv
<1>1. /\ srv = "rearm" /\ srv' = "handle" /\ taken' = taken \cup {body}
      /\ late' = IF stopFlag THEN late + 1 ELSE late
      /\ UNCHANGED <<head, body, stopFlag, kept, pc, req, started, answered>>
  BY DEF Rearm
<1>2. /\ pipe' = "none" /\ peer' = NoClient /\ frames' = <<>> /\ frames' \in Seq(Frames)
      /\ handle' \in [Clients -> {"none", "open", "dead"}]
      /\ \A c \in Clients : handle'[c] # "open"
      /\ \A c \in Clients : handle'[c] = "none" <=> handle[c] = "none"
  BY DropFacts DEF Rearm
<1>3. body \in Requests
  BY <1>1, PipeAssumption DEF TakenWhole, TypeOK, Requests
<1>4. TypeOK'
  BY <1>1, <1>2, <1>3 DEF TypeOK, PipeStates, ServerPcs
<1>5. FramesAlternate' /\ WriterInStep'
  BY <1>2, FramesGone
<1>6. HandlesFit' /\ QuietUnlessConnected' /\ TakenWhole'
  BY <1>1, <1>2 DEF HandlesFit, QuietUnlessConnected, TakenWhole
<1>7. QED
  BY <1>4, <1>5, <1>6

LEMMA CloseKeeps ==
    ASSUME PInv, Close
    PROVE  PInv'
<1> USE DEF PInv
<1>1. /\ srv = "exited"
      /\ UNCHANGED <<srv, head, body, stopFlag, kept, pc, req, started, taken, answered, late>>
  BY DEF Close, serverVars, ghostVars
<1>2. /\ pipe' = "none" /\ peer' = NoClient /\ frames' = <<>> /\ frames' \in Seq(Frames)
      /\ handle' \in [Clients -> {"none", "open", "dead"}]
      /\ \A c \in Clients : handle'[c] # "open"
      /\ \A c \in Clients : handle'[c] = "none" <=> handle[c] = "none"
  BY DropFacts DEF Close
<1>3. TypeOK'
  BY <1>1, <1>2 DEF TypeOK, PipeStates
<1>4. FramesAlternate' /\ WriterInStep'
  BY <1>2, FramesGone
<1>5. HandlesFit' /\ QuietUnlessConnected' /\ TakenWhole'
  BY <1>1, <1>2 DEF HandlesFit, QuietUnlessConnected, TakenWhole
<1>6. QED
  BY <1>3, <1>4, <1>5

\* The other steps of the server move no frame.
LEMMA LoopKeeps ==
    ASSUME PInv, LoopTest \/ Arm \/ CallConnect \/ Stop \/ LetGo
    PROVE  PInv'
<1> USE DEF PInv
<1>1. /\ UNCHANGED <<frames, peer, head, body, pc, handle, req, started, taken, answered, late>>
      /\ srv' = "payload" <=> srv = "payload"
  BY DEF LoopTest, Arm, CallConnect, Stop, LetGo, pipeVars, serverVars, clientVars, ghostVars
<1>2. FramesAlternate' /\ WriterInStep'
  BY <1>1, FramesStay
<1>3. TypeOK' /\ HandlesFit' /\ QuietUnlessConnected' /\ TakenWhole'
  <2> USE <1>1 DEF TypeOK, HandlesFit, QuietUnlessConnected, TakenWhole, PipeStates, ServerPcs
  <2>1. CASE LoopTest
    BY <2>1 DEF LoopTest, pipeVars
  <2>2. CASE Arm
    BY <2>2 DEF Arm
  <2>3. CASE CallConnect
    BY <2>3 DEF CallConnect, pipeVars
  <2>4. CASE Stop \/ LetGo
    BY <2>4 DEF Stop, LetGo, pipeVars, serverVars
  <2>5. QED
    BY <2>1, <2>2, <2>3, <2>4
<1>4. QED
  BY <1>2, <1>3

LEMMA ReadFailsKeeps ==
    ASSUME PInv, ReadFails
    PROVE  PInv'
<1> USE DEF PInv
<1>1. /\ frames = <<>> /\ pipe = "closing" /\ srv' = "test" /\ head' = 0
      /\ UNCHANGED <<pipe, peer, frames, body, stopFlag, kept, pc, handle, req,
                     started, taken, answered, late>>
  BY DEF ReadFails, pipeVars, clientVars, ghostVars
<1>2. FramesAlternate' /\ WriterInStep'
  BY <1>1, FramesGone DEF HandlesFit
<1>3. TypeOK'
  BY <1>1, PipeAssumption DEF TypeOK, ServerPcs
<1>4. HandlesFit' /\ QuietUnlessConnected' /\ TakenWhole'
  BY <1>1 DEF HandlesFit, QuietUnlessConnected, TakenWhole
<1>5. QED
  BY <1>2, <1>3, <1>4

LEMMA ReplyKeeps ==
    ASSUME PInv, Reply
    PROVE  PInv' /\ answered' = answered
<1> USE DEF PInv
<1>1. /\ srv = "handle" /\ srv' = "test" /\ head' = 0 /\ body' = 0
      /\ answered' = IF pipe = "none" THEN answered ELSE answered + 1
      /\ UNCHANGED <<pipe, peer, frames, stopFlag, kept, pc, handle, req, started, taken, late>>
  BY DEF Reply, pipeVars, clientVars
<1>2. pipe = "none" /\ frames = <<>>
  BY <1>1 DEF QuietUnlessConnected
<1>3. FramesAlternate' /\ WriterInStep'
  BY <1>1, <1>2, FramesGone DEF HandlesFit
<1>4. TypeOK'
  BY <1>1, <1>2, PipeAssumption DEF TypeOK, ServerPcs
<1>5. HandlesFit' /\ QuietUnlessConnected' /\ TakenWhole'
  BY <1>1 DEF HandlesFit, QuietUnlessConnected, TakenWhole
<1>6. QED
  BY <1>1, <1>2, <1>3, <1>4, <1>5

\* A client that calls, gives up, waits or leaves writes nothing.
LEMMA ClientKeeps ==
    ASSUME PInv, NEW c \in Clients,
           Send(c) \/ GiveUp(c) \/ Receive(c) \/ ReceiveFails(c) \/ Leave(c)
    PROVE  PInv'
<1> USE DEF PInv
<1>1. UNCHANGED <<frames, peer, srv, head, body, stopFlag, kept, taken, answered, late>>
  BY DEF Send, GiveUp, Receive, ReceiveFails, Leave, pipeVars, serverVars, ghostVars
<1>2. /\ \A d \in Clients : handle'[d] = "open" =>
            /\ handle[d] = "open"
            /\ pc'[d] = "payload" <=> pc[d] = "payload"
            /\ pc'[d] = "payload" => req'[d] = req[d]
      /\ TypeOK' /\ HandlesFit' /\ QuietUnlessConnected' /\ TakenWhole'
  <2> USE <1>1, PipeAssumption
      DEF TypeOK, HandlesFit, QuietUnlessConnected, TakenWhole, ClientPcs
  <2>1. CASE Send(c)
    <3>1. /\ pc[c] = "idle" /\ started < MaxRequests /\ started' = started + 1
          /\ req' = [req EXCEPT ![c] = started + 1]
          /\ pc' = [pc EXCEPT ![c] = IF handle[c] = "none" THEN "connecting" ELSE "header"]
          /\ UNCHANGED <<pipe, handle>>
      BY <2>1 DEF Send, pipeVars
    <3>2. started' \in 0..MaxRequests /\ started' # 0
      BY <3>1
    <3>3. req' \in [Clients -> 0..MaxRequests] /\ pc' \in [Clients -> ClientPcs]
      BY <3>1, <3>2
    <3>4. TypeOK'
      BY <3>1, <3>2, <3>3
    <3>5. QED
      BY <3>1, <3>2, <3>3, <3>4
  <2>2. CASE GiveUp(c)
    BY <2>2 DEF GiveUp, pipeVars, ghostVars
  <2>3. CASE Receive(c)
    BY <2>3 DEF Receive, pipeVars, ghostVars
  <2>4. CASE ReceiveFails(c)
    BY <2>4 DEF ReceiveFails, pipeVars, ghostVars
  <2>5. CASE Leave(c)
    BY <2>5 DEF Leave, ghostVars, PipeStates
  <2>6. QED
    BY <2>1, <2>2, <2>3, <2>4, <2>5
<1>3. FramesAlternate' /\ WriterInStep'
  BY <1>1, <1>2, FramesStay
<1>4. QED
  BY <1>2, <1>3

LEMMA StutterKeeps ==
    ASSUME PInv, UNCHANGED vars
    PROVE  PInv'
<1> USE DEF PInv, vars, pipeVars, serverVars, clientVars, ghostVars
<1>1. FramesAlternate' /\ WriterInStep'
  BY FramesStay
<1>2. QED
  BY <1>1 DEF TypeOK, HandlesFit, QuietUnlessConnected, TakenWhole

-----------------------------------------------------------------------------
(* The theorems *)

LEMMA PInvStarts == Init => PInv
<1> SUFFICES ASSUME Init PROVE PInv
  OBVIOUS
<1>1. <<>> \in Seq(Frames) /\ 0 \in 0..MaxRequests
  BY PipeAssumption
<1>2. TypeOK
  BY <1>1 DEF Init, TypeOK, PipeStates, ServerPcs, ClientPcs
<1>3. QED
  BY <1>2 DEF Init, PInv, FramesAlternate, WriterInStep, HandlesFit,
     QuietUnlessConnected, TakenWhole

LEMMA PInvStep == PInv /\ [Next]_vars => PInv'
<1> SUFFICES ASSUME PInv, [Next]_vars PROVE PInv'
  OBVIOUS
<1>1. CASE Server
  BY <1>1, LoopKeeps, ReadFailsKeeps, ReadHeaderKeeps, ReadPayloadKeeps, RearmKeeps,
     ReplyKeeps, CloseKeeps DEF Server
<1>2. CASE Stop \/ LetGo
  BY <1>2, LoopKeeps
<1>3. ASSUME NEW c \in Clients, Client(c) \/ Send(c) \/ Receive(c) \/ Leave(c)
      PROVE  PInv'
  BY <1>3, ConnectKeeps, WriteKeeps, ClientKeeps DEF Client
<1>4. CASE UNCHANGED vars
  BY <1>4, StutterKeeps
<1>5. QED
  BY <1>1, <1>2, <1>3, <1>4 DEF Next

LEMMA PInvHolds == Spec => []PInv
  BY PInvStarts, PInvStep, PTL DEF Spec

\* Every state has the declared types (all of named_pipe_transport.cpp, and serve
\* and stop at agent.cpp:749-771).
THEOREM TypeCorrect == Spec => []TypeOK
<1>1. PInv => TypeOK
  BY DEF PInv
<1>2. QED
  BY <1>1, PInvHolds, PTL

\* What receive hands over was written by one send, for any number of clients that
\* leave half-way, write too early or speak another protocol
\* (named_pipe_transport.cpp:90-120).
THEOREM RequestsAreWhole == Spec => []TakenWhole
<1>1. PInv => TakenWhole
  BY DEF PInv
<1>2. QED
  BY <1>1, PInvHolds, PTL

\* No reply finds a client: receive has closed the pipe before send is called
\* (named_pipe_transport.cpp:45, 114-118).
THEOREM NoReplyLeaves == Spec => []NoAnswerLeaves
<1>1. Init => NoAnswerLeaves
  BY DEF Init, NoAnswerLeaves
<1>2. NoAnswerLeaves /\ PInv /\ [Next]_vars => NoAnswerLeaves'
  <2> SUFFICES ASSUME NoAnswerLeaves, PInv, [Next]_vars PROVE answered' = answered
    BY DEF NoAnswerLeaves
  <2>1. CASE Server
    BY <2>1, ReplyKeeps DEF Server, LoopTest, Arm, CallConnect, ReadFails, ReadHeader,
       ReadPayload, Rearm, Close, ghostVars
  <2>2. CASE Stop \/ LetGo
    BY <2>2 DEF Stop, LetGo, ghostVars
  <2>3. ASSUME NEW c \in Clients, Client(c) \/ Send(c) \/ Receive(c) \/ Leave(c)
        PROVE  answered' = answered
    BY <2>3 DEF Client, Connect, GiveUp, Write, ReceiveFails, Send, Receive, Leave, ghostVars
  <2>4. CASE UNCHANGED vars
    BY <2>4 DEF vars, ghostVars
  <2>5. QED
    BY <2>1, <2>2, <2>3, <2>4 DEF Next
<1>3. QED
  BY <1>1, <1>2, PInvHolds, PTL DEF Spec

\* However many clients queue up, one request at most is handed over after stop was
\* called (agent.cpp:751, 766).
THEOREM OneRequestAfterStop == Spec => []LastRequest
<1>1. Init => LateIsLast
  BY DEF Init, LateIsLast
<1>2. LateIsLast /\ [Next]_vars => LateIsLast'
  <2> SUFFICES ASSUME LateIsLast, [Next]_vars PROVE LateIsLast'
    OBVIOUS
  <2> USE DEF LateIsLast
  <2>1. CASE LoopTest
    BY <2>1 DEF LoopTest, ghostVars
  <2>2. CASE Rearm
    BY <2>2 DEF Rearm
  <2>3. CASE Arm \/ CallConnect \/ ReadFails \/ ReadHeader \/ ReadPayload \/ Reply \/ Close
    BY <2>3 DEF Arm, CallConnect, ReadFails, ReadHeader, ReadPayload, Reply, Close,
       serverVars, ghostVars
  <2>4. CASE Stop \/ LetGo
    BY <2>4 DEF Stop, LetGo, serverVars, ghostVars
  <2>5. ASSUME NEW c \in Clients, Client(c) \/ Send(c) \/ Receive(c) \/ Leave(c)
        PROVE  LateIsLast'
    BY <2>5 DEF Client, Connect, GiveUp, Write, ReceiveFails, Send, Receive, Leave,
       serverVars, ghostVars
  <2>6. CASE UNCHANGED vars
    BY <2>6 DEF vars, serverVars, ghostVars
  <2>7. QED
    BY <2>1, <2>2, <2>3, <2>4, <2>5, <2>6 DEF Next, Server
<1>3. LateIsLast => LastRequest
  BY DEF LateIsLast, LastRequest
<1>4. QED
  BY <1>1, <1>2, <1>3, PTL DEF Spec

\* Once a client has left at the wrong moment, no step but the end of the service
\* frees the pipe again, whoever else is there (named_pipe_transport.cpp:68-90).
THEOREM AbortsAreFinal == Spec => AbortIsFinal
<1>1. ASSUME [Next]_vars, pipe = "closing", srv \in {"test", "arm", "connect"}
      PROVE  pipe' = "closing" /\ srv' \in {"test", "arm", "connect", "exited"}
  <2>1. CASE Server
    BY <1>1, <2>1 DEF Server, LoopTest, Arm, CallConnect, ReadFails, ReadHeader, ReadPayload,
       Rearm, Reply, Close, pipeVars, serverVars
  <2>2. CASE Stop \/ LetGo
    BY <1>1, <2>2 DEF Stop, LetGo, pipeVars, serverVars
  <2>3. ASSUME NEW c \in Clients, Client(c) \/ Send(c) \/ Receive(c) \/ Leave(c)
        PROVE  pipe' = "closing" /\ srv' = srv
    BY <1>1, <2>3 DEF Client, Connect, GiveUp, Write, ReceiveFails, Send, Receive, Leave,
       pipeVars, serverVars
  <2>4. CASE UNCHANGED vars
    BY <1>1, <2>4 DEF vars, pipeVars, serverVars
  <2>5. QED
    BY <1>1, <2>1, <2>2, <2>3, <2>4 DEF Next
<1>2. QED
  BY <1>1, PTL DEF Spec, AbortIsFinal

-----------------------------------------------------------------------------
(***************************************************************************)
(* The safety half of ReceiveReturns.  While a client of the library has   *)
(* sent and waits for its answer the server is in receive: it neither      *)
(* listens for somebody else nor looks at the flag, and what it goes on to *)
(* read is there.  So whatever step it takes brings it nearer to dropping  *)
(* the pipe, whoever keeps the transport.                                  *)
(***************************************************************************)

Waits(c) == pc[c] = "receiving" /\ handle[c] = "open"

\* With a client there, from ConnectNamedPipe to the drop.
Serving == {"connect", "header", "payload", "rearm"}

NoMutualWait ==
    \A c \in Clients \ Foreign : Waits(c) =>
       /\ srv \in Serving
       /\ srv \in {"header", "payload"} => frames # <<>>

\* A client of the library that is connected is being served, and one between two
\* calls has been heard of: there is a frame of it that the server has not read, or
\* its request is complete.
Heard(c) ==
    /\ handle[c] = "open" =>
          /\ srv \in Serving
          /\ \A i \in DOMAIN frames : frames[i].kind # "other"
          /\ pc[c] \in {"idle", "receiving"} => frames # <<>> \/ srv = "rearm"
    /\ pc[c] \in {"connecting", "opening"} => handle[c] # "open"

WInv ==
    /\ PInv
    /\ srv = "waiting" => pipe = "listening"
    /\ pipe = "listening" => srv \in {"connect", "waiting"}
    /\ \A c \in Clients \ Foreign : Heard(c)

\* The server's steps until it closes its end of the pipe.
StepsToDrop(place) ==
    CASE place = "connect" -> 3
      [] place = "header"  -> 2
      [] place = "payload" -> 1
      [] OTHER             -> 0

ReleaseDrawsNear(c) ==
    Waits(c) /\ Waits(c)' => srv' = srv \/ StepsToDrop(srv') < StepsToDrop(srv)

\* While a client of the library is connected, the frame in front of a server that
\* begins to read is a header.
LEMMA HeaderComesFirst ==
    ASSUME WInv, ReadHeader, NEW c \in Clients \ Foreign, handle[c] = "open"
    PROVE  srv' = "payload"
<1>1. /\ Head(frames) = frames[1] /\ 1 \in DOMAIN frames /\ frames[1] \in Frames
      /\ srv = "header"
  BY TailFacts DEF ReadHeader, WInv, PInv, TypeOK
<1>2. frames[1].kind \notin {"payload", "other"}
  BY <1>1 DEF WInv, PInv, FramesAlternate, Before, Heard
<1>3. frames[1].kind \in {"header", "payload", "other"}
  BY <1>1 DEF Frames
<1>4. QED
  BY <1>1, <1>2, <1>3 DEF ReadHeader

LEMMA ReadIsHeard ==
    ASSUME WInv, PInv', ReadHeader \/ ReadPayload, NEW c \in Clients \ Foreign
    PROVE  Heard(c)'
<1>1. /\ frames # <<>> /\ frames' = Tail(frames) /\ frames \in Seq(Frames)
      /\ UNCHANGED <<pc, handle>>
  BY DEF ReadHeader, ReadPayload, clientVars, WInv, PInv, TypeOK
<1>2. Heard(c)
  BY DEF WInv
<1>3. CASE handle[c] # "open"
  BY <1>1, <1>2, <1>3 DEF Heard
<1>4. CASE handle[c] = "open"
  <2>1. \A i \in DOMAIN frames' : frames'[i].kind # "other"
    <3>1. \A i \in DOMAIN frames' : i + 1 \in DOMAIN frames /\ frames'[i] = frames[i + 1]
      BY <1>1, TailFacts
    <3>2. QED
      BY <1>2, <1>4, <3>1 DEF Heard
  <2>2. srv' \in Serving
    BY <1>4, HeaderComesFirst DEF ReadHeader, ReadPayload, Serving
  <2>3. ASSUME pc[c] \in {"idle", "receiving"}
        PROVE  frames' # <<>> \/ srv' = "rearm"
    <3>1. CASE ReadPayload
      BY <3>1 DEF ReadPayload
    <3>2. CASE ReadHeader
      <4>1. SUFFICES ASSUME frames' = <<>> PROVE FALSE
        OBVIOUS
      <4>2. srv' = "payload"
        BY <1>4, <3>2, HeaderComesFirst
      <4>3. Before(Len(frames) + 1)'.kind = "header"
        BY <4>1, <4>2 DEF Before
      <4>4. pc'[c] = "payload"
        BY <1>1, <1>4, <4>3 DEF PInv, WriterInStep
      <4>5. QED
        BY <1>1, <2>3, <4>4
    <3>3. QED
      BY <3>1, <3>2
  <2>4. QED
    BY <1>1, <1>2, <1>4, <2>1, <2>2, <2>3 DEF Heard
<1>5. QED
  BY <1>3, <1>4

LEMMA WriteIsHeard ==
    ASSUME WInv, NEW d \in Clients, Write(d), NEW c \in Clients \ Foreign
    PROVE  Heard(c)'
<1>1. /\ pc[d] \in {"header", "payload"} /\ UNCHANGED <<srv, handle>>
      /\ pc' \in [Clients -> ClientPcs] /\ \A e \in Clients \ {d} : pc'[e] = pc[e]
      /\ pc'[d] \in {"payload", "idle"}
  BY DEF Write, serverVars, WInv, PInv, TypeOK, ClientPcs
<1>2. Heard(c)
  BY DEF WInv
<1>3. CASE handle[d] = "dead"
  BY <1>1, <1>2, <1>3 DEF Write, Heard
<1>4. CASE handle[c] # "open"
  BY <1>1, <1>2, <1>4 DEF Heard
<1>5. CASE handle[d] # "dead" /\ handle[c] = "open"
  <2>1. d = c
    BY <1>1, <1>5 DEF WInv, PInv, HandlesFit, TypeOK
  <2> DEFINE f == [kind |-> IF d \in Foreign THEN "other" ELSE pc[d], req |-> req[d]]
  <2>2. frames' = Append(frames, f)
    BY <1>5 DEF Write
  <2>3. f \in Frames /\ f.kind # "other"
    BY <1>1, <2>1, PipeAssumption DEF Frames, Requests, WInv, PInv, HandlesFit, TypeOK
  <2> HIDE DEF f
  <2>4. /\ frames' # <<>>
        /\ \A i \in DOMAIN frames' :
              \/ frames'[i] = f
              \/ i \in DOMAIN frames /\ frames'[i] = frames[i]
    <3>1. frames \in Seq(Frames)
      BY DEF WInv, PInv, TypeOK
    <3>2. /\ Len(frames) \in Nat /\ Len(frames') = Len(frames) + 1
          /\ DOMAIN frames = 1..Len(frames) /\ DOMAIN frames' = 1..(Len(frames) + 1)
          /\ \A i \in 1..Len(frames) : frames'[i] = frames[i]
          /\ frames'[Len(frames) + 1] = f
      BY ONLY <2>2, <2>3, <3>1, AppendFacts
    <3>3. QED
      BY <3>2
  <2>5. QED
    BY <1>1, <1>2, <1>5, <2>1, <2>3, <2>4 DEF Heard
<1>6. QED
  BY <1>3, <1>4, <1>5

\* The other steps leave the frames, or no client connected.
LEMMA ClientIsHeard ==
    ASSUME WInv, NEW d \in Clients,
           Connect(d) \/ Send(d) \/ GiveUp(d) \/ Receive(d) \/ ReceiveFails(d) \/ Leave(d),
           NEW c \in Clients \ Foreign
    PROVE  Heard(c)'
<1>1. Heard(c) /\ (d \notin Foreign => Heard(d))
  BY DEF WInv
<1> USE <1>1 DEF Heard, WInv, PInv, TypeOK, HandlesFit, QuietUnlessConnected
<1>2. CASE Connect(d)
  <2>1. /\ frames' = <<>> /\ handle' = [handle EXCEPT ![d] = "open"]
        /\ \A e \in Clients : handle[e] # "open"
        /\ pc'[d] \in {"header", "early"} /\ \A e \in Clients \ {d} : pc'[e] = pc[e]
    BY <1>2 DEF Connect
  <2>2. srv' \in Serving
    BY <1>2 DEF Connect, Serving
  <2>3. QED
    BY <2>1, <2>2
<1>3. CASE Send(d)
  BY <1>3 DEF Send, pipeVars, serverVars
<1>4. CASE GiveUp(d)
  BY <1>4 DEF GiveUp, pipeVars, serverVars
<1>5. CASE Receive(d)
  BY <1>5 DEF Receive, pipeVars, serverVars
<1>6. CASE ReceiveFails(d)
  BY <1>6 DEF ReceiveFails, pipeVars, serverVars
<1>7. CASE Leave(d)
  BY <1>7 DEF Leave, serverVars
<1>8. QED
  BY <1>2, <1>3, <1>4, <1>5, <1>6, <1>7

LEMMA ServerIsHeard ==
    ASSUME WInv, NEW c \in Clients \ Foreign,
           \/ LoopTest \/ Arm \/ CallConnect \/ ReadFails \/ Rearm \/ Reply \/ Close
           \/ Stop \/ LetGo \/ UNCHANGED vars
    PROVE  Heard(c)'
<1>1. Heard(c)
  BY DEF WInv
<1>2. CASE LoopTest \/ Arm \/ CallConnect \/ Stop \/ LetGo \/ UNCHANGED vars
  BY <1>1, <1>2 DEF Heard, Serving, LoopTest, Arm, CallConnect, Stop, LetGo, vars, pipeVars,
     serverVars, clientVars, WInv, PInv, HandlesFit
<1>3. CASE ReadFails \/ Reply
  <2>1. handle[c] # "open" /\ UNCHANGED <<pc, handle>>
    BY <1>3 DEF ReadFails, Reply, clientVars, WInv, PInv, HandlesFit, QuietUnlessConnected
  <2>2. QED
    BY <1>1, <2>1 DEF Heard
<1>4. CASE Rearm \/ Close
  <2>1. handle'[c] # "open"
    BY <1>4, DropFacts DEF Rearm, Close, WInv, PInv
  <2>2. QED
    BY <2>1 DEF Heard
<1>5. QED
  BY <1>2, <1>3, <1>4

LEMMA WaitingListens ==
    ASSUME WInv, [Next]_vars
    PROVE  /\ srv' = "waiting" => pipe' = "listening"
           /\ pipe' = "listening" => srv' \in {"connect", "waiting"}
<1> USE DEF WInv
<1>1. CASE Server
  BY <1>1 DEF Server, LoopTest, Arm, CallConnect, ReadFails, ReadHeader, ReadPayload,
     Rearm, Drop, Reply, Close, pipeVars, serverVars, PInv, QuietUnlessConnected
<1>2. CASE Stop \/ LetGo
  BY <1>2 DEF Stop, LetGo, pipeVars, serverVars
<1>3. ASSUME NEW c \in Clients, Client(c) \/ Send(c) \/ Receive(c) \/ Leave(c)
      PROVE  /\ srv' = "waiting" => pipe' = "listening"
             /\ pipe' = "listening" => srv' \in {"connect", "waiting"}
  BY <1>3 DEF Client, Connect, GiveUp, Write, ReceiveFails, Send, Receive, Leave, pipeVars,
     serverVars, PInv, HandlesFit
<1>4. CASE UNCHANGED vars
  BY <1>4 DEF vars, pipeVars, serverVars
<1>5. QED
  BY <1>1, <1>2, <1>3, <1>4 DEF Next

LEMMA WInvHolds == Spec => []WInv
<1>1. ASSUME Init, PInv
      PROVE  WInv
  BY <1>1 DEF Init, WInv, Heard
<1>2. ASSUME WInv, PInv', [Next]_vars
      PROVE  WInv'
  <2>1. ASSUME NEW c \in Clients \ Foreign
        PROVE  Heard(c)'
    BY <1>2, ReadIsHeard, WriteIsHeard, ClientIsHeard, ServerIsHeard DEF Next, Server, Client
  <2>2. QED
    BY <1>2, <2>1, WaitingListens DEF WInv
<1>3. QED
  BY <1>1, <1>2, PInvHolds, PTL DEF Spec

\* A client of the library that waits for an answer and the server never wait for each
\* other, the server does not end before it, and every step of the server until the wait ends is one towards the drop
\* that ends it (named_pipe_transport.cpp:45-125, agent.cpp:752-762).
THEOREM ReceivesDrawNear ==
    Spec => []NoMutualWait /\ [][\A c \in Clients \ Foreign : ReleaseDrawsNear(c)]_vars
<1>1. WInv => NoMutualWait
  BY DEF WInv, PInv, NoMutualWait, Serving, Waits, Heard, HandlesFit, QuietUnlessConnected
<1>2. ASSUME WInv, [Next]_vars
      PROVE  \A c \in Clients \ Foreign : ReleaseDrawsNear(c)
  <2> SUFFICES ASSUME NEW c \in Clients \ Foreign, Waits(c), Waits(c)'
               PROVE  srv' = srv \/ StepsToDrop(srv') < StepsToDrop(srv)
    BY DEF ReleaseDrawsNear
  <2>1. handle[c] = "open" /\ handle'[c] = "open" /\ pipe = "connected"
        /\ srv \in Serving
    BY <1>2, <1>1 DEF Waits, NoMutualWait, WInv, PInv, HandlesFit
  <2>2. CASE Server
    <3>1. ~(ReadFails \/ Reply)
      BY <2>1 DEF ReadFails, Reply, Serving
    <3>2. ~(Rearm \/ Close)
      BY <1>2, <2>1, DropFacts DEF Rearm, Close, WInv, PInv
    <3>3. CASE LoopTest \/ Arm \/ CallConnect \/ ReadPayload
      BY <2>1, <3>3 DEF LoopTest, Arm, CallConnect, ReadPayload, StepsToDrop, Serving
    <3>4. CASE ReadHeader
      <4>1. srv = "header" /\ srv' = "payload"
        BY <1>2, <2>1, <3>4, HeaderComesFirst DEF ReadHeader
      <4>2. QED
        BY <4>1 DEF StepsToDrop
    <3>5. QED
      BY <2>2, <3>1, <3>2, <3>3, <3>4 DEF Server
  <2>3. ASSUME NEW d \in Clients, Client(d) \/ Send(d) \/ Receive(d) \/ Leave(d)
        PROVE  srv' = srv
    BY <2>1, <2>3 DEF Client, Connect, GiveUp, Write, ReceiveFails, Send, Receive, Leave,
       serverVars
  <2>4. CASE Stop \/ LetGo \/ UNCHANGED vars
    BY <2>4 DEF Stop, LetGo, vars, serverVars
  <2>5. QED
    BY <1>2, <2>2, <2>3, <2>4 DEF Next
<1>3. QED
  BY <1>1, <1>2, WInvHolds, PTL DEF Spec

-----------------------------------------------------------------------------
(***************************************************************************)
(* The safety half of StopEndsOrWaits: once stop has been called, whatever *)
(* moves the server thread moves it towards its return.  The two places    *)
(* that need a client for that come before the last request.               *)
(***************************************************************************)

StepsToExit(place) ==
    CASE place = "arm"     -> 8
      [] place = "connect" -> 7
      [] place = "waiting" -> 6
      [] place = "header"  -> 5
      [] place = "payload" -> 4
      [] place = "rearm"   -> 3
      [] place = "handle"  -> 2
      [] place = "test"    -> 1
      [] OTHER             -> 0

StopDrawsNear ==
    stopFlag => stopFlag' /\ (srv' = srv \/ StepsToExit(srv') < StepsToExit(srv))

\* After stop was called no step, of the server or of a client that connects, leads
\* the server thread away from its return (agent.cpp:751-768).
THEOREM StopsDrawNear == Spec => [][StopDrawsNear]_vars
<1>1. ASSUME TypeOK, [Next]_vars
      PROVE  StopDrawsNear
  <2> SUFFICES ASSUME stopFlag
               PROVE  stopFlag' /\ (srv' = srv \/ StepsToExit(srv') < StepsToExit(srv))
    BY DEF StopDrawsNear
  <2>0. stopFlag = TRUE
    BY <1>1 DEF TypeOK
  <2>1. ASSUME LoopTest
        PROVE  stopFlag' /\ srv = "test" /\ srv' = "exited"
    BY <2>0, <2>1 DEF LoopTest
  <2>2. ASSUME Arm
        PROVE  stopFlag' /\ srv = "arm" /\ srv' \in {"connect", "test"}
    BY <2>0, <2>2 DEF Arm
  <2>3. ASSUME CallConnect
        PROVE  stopFlag' /\ srv = "connect" /\ srv' \in {"waiting", "header", "test"}
    BY <2>0, <2>3 DEF CallConnect
  <2>4. ASSUME ReadFails \/ ReadHeader \/ ReadPayload
        PROVE  /\ stopFlag' /\ srv \in {"header", "payload"}
               /\ srv' = "test" \/ srv' = IF srv = "header" THEN "payload" ELSE "rearm"
    BY <2>0, <2>4 DEF ReadFails, ReadHeader, ReadPayload
  <2>5. ASSUME Rearm \/ Reply
        PROVE  stopFlag' /\ srv \in {"rearm", "handle"}
               /\ srv' = IF srv = "rearm" THEN "handle" ELSE "test"
    BY <2>0, <2>5 DEF Rearm, Reply
  <2>6. CASE Close \/ Stop \/ LetGo \/ UNCHANGED vars
    BY <2>0, <2>6 DEF Close, Stop, LetGo, vars, serverVars
  <2>7. ASSUME NEW c \in Clients, Connect(c)
        PROVE  stopFlag' /\ srv' \in {srv, "header"} /\ (srv' # srv => srv = "waiting")
    BY <2>0, <2>7 DEF Connect
  <2>8. ASSUME NEW c \in Clients,
               \/ GiveUp(c) \/ Write(c) \/ ReceiveFails(c)
               \/ Send(c) \/ Receive(c) \/ Leave(c)
        PROVE  stopFlag' /\ srv' = srv
    BY <2>0, <2>8 DEF GiveUp, Write, ReceiveFails, Send, Receive, Leave, serverVars
  <2>9. QED
    BY <1>1, <2>1, <2>2, <2>3, <2>4, <2>5, <2>6, <2>7, <2>8 DEF Next, Server, Client, StepsToExit
<1>2. QED
  BY <1>1, TypeCorrect, PTL DEF Spec
=============================================================================
