---------------------------- MODULE FreezeProofs ----------------------------
(***************************************************************************)
(* Theorems about FreezeManager, for any sets of clients, ids, addresses   *)
(* and values.  The last three sections assume in addition that the        *)
(* callers keep an order: nobody names an id whose freeze call has not     *)
(* returned (FreezesReturnFirst), and cancel_all runs alone (InOrder).     *)
(***************************************************************************)
EXTENDS FreezeManager, TLAPS

USE DEF Results, Ops, Pcs, Threads, Running

(***************************************************************************)
(* Types.  A call that works on an entry names a registered one: without   *)
(* that a write would go to an unknown address.                            *)
(***************************************************************************)

ArgIsEntry ==
    \A c \in Clients :
        /\ pc[c] \notin {"idle", "collect"} => arg[c] \in entries
        /\ toJoin[c] \subseteq entries

TInv == TypeOK /\ ArgIsEntry

LEMMA SaturatingType ==
    ASSUME NEW n \in 0..MaxCount
    PROVE  Saturating(n) \in 0..MaxCount
  BY FreezeAssumption DEF Saturating

LEMMA DefaultsType ==
    /\ (CHOOSE r \in Requests : TRUE) \in Requests
    /\ (CHOOSE v \in TargetValues : TRUE) \in TargetValues
<1>1. PICK a \in Addrs, v \in FreezeValues : TRUE
  BY FreezeAssumption
<1>2. [addr |-> a, value |-> v] \in Requests
  BY <1>1 DEF Requests
<1>3. QED
  BY <1>2, FreezeAssumption

\* A write leaves well-typed memory.
LEMMA WriteType ==
    ASSUME TypeOK, NEW a \in Addrs, NEW v \in Memory, NEW status,
           WriteBytes(a, v, status)
    PROVE  mem' \in [Addrs -> Memory]
  BY DEF WriteBytes, TypeOK, Memory

\* The first step of a call keeps types and arguments.
LEMMA CallType ==
    ASSUME TInv, NEW c \in Clients, Call(c)
    PROVE  TInv'
<1> USE DEF TInv, TypeOK, ArgIsEntry, Return, Enter, CanCall, targetVars, entryVars,
            threadVars
<1>1. ASSUME NEW id \in Ids, FreezeRefused(c, id)
      PROVE  TInv'
  <2>1. PICK code \in Results : Return(c, code)
    BY <1>1 DEF FreezeRefused
  <2>2. QED
    BY <1>1, <2>1 DEF FreezeRefused
<1>2. ASSUME NEW id \in Ids, FreezeRegister(c, id)
      PROVE  TInv'
  <2>1. PICK r \in Requests : /\ request' = [request EXCEPT ![id] = r]
                              /\ original' = [original EXCEPT ![id] = mem[r.addr]]
    BY <1>2 DEF FreezeRegister
  <2>2. mem[r.addr] \in Memory
    BY DEF Requests
  <2>3. QED
    BY <1>2, <2>1, <2>2 DEF FreezeRegister
<1>3. ASSUME NEW id \in Ids, StopMissing(c, id)
      PROVE  TInv'
  BY <1>3 DEF StopMissing
<1>4. ASSUME NEW id \in Ids, NEW o \in {"unfreeze", "restore"}, StopBegin(c, o, id)
      PROVE  TInv'
  BY <1>4 DEF StopBegin, AfterJoin
<1>5. ASSUME NEW o \in {"cancel_all", "destroy"}, CancelBegin(c, o)
      PROVE  TInv'
  BY <1>5 DEF CancelBegin
<1>6. QED
  BY <1>1, <1>2, <1>3, <1>4, <1>5 DEF Call

\* Every later step of a call keeps types and arguments.
LEMMA StepType ==
    ASSUME TInv, NEW c \in Clients, Step(c)
    PROVE  TInv'
<1> USE DEF TInv, TypeOK, ArgIsEntry, Goto, Return, Enter, targetVars, entryVars,
            threadVars
<1>1. CASE FreezeStart(c)
  BY <1>1 DEF FreezeStart
<1>2. CASE FreezeStartFails(c)
  BY <1>2 DEF FreezeStartFails
<1>3. CASE FreezePublish(c)
  BY <1>3 DEF FreezePublish
<1>4. CASE StopRequest(c)
  BY <1>4 DEF StopRequest
<1>5. CASE StopJoined(c)
  BY <1>5 DEF StopJoined, AfterJoin
<1>6. CASE UnfreezeFinish(c)
  BY <1>6 DEF UnfreezeFinish
<1>7. CASE RestoreWrite(c)
  <2>1. PICK status \in {"ok", "partial_write", "write_failed"} :
            /\ WriteBytes(request[arg[c]].addr, original[arg[c]], status)
            /\ IF status = "ok" THEN Goto(c, "finish") ELSE Return(c, status)
    BY <1>7 DEF RestoreWrite
  <2>2. request[arg[c]].addr \in Addrs /\ original[arg[c]] \in Memory
    BY <1>7 DEF RestoreWrite, Requests
  <2>3. mem' \in [Addrs -> Memory]
    BY <2>1, <2>2, WriteType
  <2>4. CASE status = "ok"
    BY <1>7, <2>1, <2>3, <2>4 DEF RestoreWrite
  <2>5. CASE status # "ok"
    BY <1>7, <2>1, <2>3, <2>5 DEF RestoreWrite
  <2>6. QED
    BY <2>4, <2>5
<1>8. CASE RestoreFinish(c)
  BY <1>8 DEF RestoreFinish
<1>9. ASSUME NEW id \in Ids, CancelMark(c, id)
      PROVE  TInv'
  BY <1>9 DEF CancelMark
<1>10. ASSUME NEW id \in Ids, CancelVisit(c, id)
       PROVE  TInv'
  <2>1. id \in entries /\ toJoin' = [toJoin EXCEPT ![c] = @ \ {id}]
    BY <1>10 DEF CancelVisit
  <2>2. CASE joinable[id]
    BY <1>10, <2>1, <2>2 DEF CancelVisit
  <2>3. CASE ~joinable[id]
    BY <1>10, <2>1, <2>3 DEF CancelVisit
  <2>4. QED
    BY <2>2, <2>3
<1>11. CASE CancelFinish(c)
  BY <1>11 DEF CancelFinish
<1>12. QED
  BY <1>1, <1>2, <1>3, <1>4, <1>5, <1>6, <1>7, <1>8, <1>9, <1>10, <1>11 DEF Step

\* A worker step and a step of the target keep them too.
LEMMA WorkerType ==
    ASSUME TInv, NEW id \in Ids, Worker(id)
    PROVE  TInv'
<1> USE DEF TInv, TypeOK, ArgIsEntry, targetVars, entryVars, threadVars, callVars
<1>1. CASE WorkerGuard(id)
  BY <1>1 DEF WorkerGuard
<1>2. CASE WorkerProbe(id)
  <2>1. CASE alive
    BY <1>2, <2>1 DEF WorkerProbe
  <2>2. CASE ~alive
    <3>1. failCount' \in [Ids -> 0..MaxCount]
      BY <1>2, <2>2, SaturatingType DEF WorkerProbe
    <3>2. QED
      BY <1>2, <2>2, <3>1 DEF WorkerProbe
  <2>3. QED
    BY <2>1, <2>2
<1>3. CASE WorkerWrite(id)
  <2>1. PICK status \in {"ok", "partial_write", "write_failed"} :
            /\ WriteBytes(request[id].addr, request[id].value, status)
            /\ IF status = "ok"
               THEN /\ okCount' = [okCount EXCEPT ![id] = Saturating(@)]
                    /\ UNCHANGED failCount
               ELSE /\ failCount' = [failCount EXCEPT ![id] = Saturating(@)]
                    /\ UNCHANGED okCount
    BY <1>3 DEF WorkerWrite
  <2>2. request[id].addr \in Addrs /\ request[id].value \in Memory
    BY DEF Requests, Memory
  <2>3. mem' \in [Addrs -> Memory]
    BY <2>1, <2>2, WriteType
  <2>4. okCount' \in [Ids -> 0..MaxCount] /\ failCount' \in [Ids -> 0..MaxCount]
    BY <2>1, SaturatingType
  <2>5. QED
    BY <1>3, <2>3, <2>4 DEF WorkerWrite
<1>4. QED
  BY <1>1, <1>2, <1>3 DEF Worker

LEMMA TargetType ==
    ASSUME TInv, TargetWrites \/ TargetDies
    PROVE  TInv'
<1> USE DEF TInv, TypeOK, ArgIsEntry, targetVars, entryVars, threadVars, callVars
<1>1. CASE TargetWrites
  BY <1>1 DEF TargetWrites, Memory
<1>2. CASE TargetDies
  BY <1>2 DEF TargetDies
<1>3. QED
  BY <1>1, <1>2

LEMMA Typing == Spec => []TInv
<1>1. ASSUME Init PROVE TInv
  <2>1. 0 \in 0..MaxCount
    BY FreezeAssumption
  <2>2. mem \in [Addrs -> Memory]
    BY <1>1 DEF Init, Memory
  <2>3. request \in [Ids -> Requests] /\ original \in [Ids -> Memory]
    BY <1>1, DefaultsType DEF Init, Memory
  <2>4. QED
    BY <1>1, <2>1, <2>2, <2>3 DEF Init, TInv, TypeOK, ArgIsEntry
<1>2. TInv /\ [Next]_vars => TInv'
  <2> SUFFICES ASSUME TInv, [Next]_vars
               PROVE  TInv'
    OBVIOUS
  <2>1. ASSUME NEW c \in Clients, Call(c) \/ Step(c)
        PROVE  TInv'
    BY <2>1, CallType, StepType
  <2>2. ASSUME NEW id \in Ids, Worker(id)
        PROVE  TInv'
    BY <2>2, WorkerType
  <2>3. CASE TargetWrites \/ TargetDies
    BY <2>3, TargetType
  <2>4. CASE UNCHANGED vars
    BY <2>4 DEF TInv, TypeOK, ArgIsEntry, vars, targetVars, entryVars, threadVars,
                callVars
  <2>5. QED
    BY <2>1, <2>2, <2>3, <2>4 DEF Next
<1>3. QED
  BY <1>1, <1>2, PTL DEF Spec

\* Every variable keeps its type: the flags and counters of each entry, where
\* each worker stands, and the state of every call (freeze.hpp:63-81).
THEOREM TypeCorrect == Spec => []TypeOK
<1>1. TInv => TypeOK
  BY DEF TInv
<1>2. QED
  BY <1>1, Typing, PTL

-----------------------------------------------------------------------------
(***************************************************************************)
(* Ownership and shutdown.  The destructor is alone with the manager, and  *)
(* every handle it has not joined yet is on its list or is the one it is   *)
(* joining; a worker is behind a handle unless its freeze call is about to *)
(* store one, and no freeze call runs beside the destructor.               *)
(***************************************************************************)

JoinableIsEntry == \A id \in Ids : joinable[id] => id \in entries

DestroyIsAlone ==
    \A c \in Clients : op[c] = "destroy" =>
        /\ pc[c] \in {"collect", "stop", "joining"}
        /\ \A d \in Clients \ {c} : pc[d] = "idle"
        /\ \A id \in Ids : joinable[id] =>
              \/ id \in toJoin[c]
              \/ pc[c] # "collect" /\ arg[c] = id

DestroyedIsQuiet ==
    destroyed =>
        /\ \A c \in Clients : pc[c] = "idle"
        /\ \A id \in Ids : worker[id] \notin Running /\ ~joinable[id]

OInv == TInv /\ WorkerIsOwned /\ JoinableIsEntry /\ DestroyIsAlone /\ DestroyedIsQuiet

LEMMA CallOwned ==
    ASSUME OInv, NEW c \in Clients, Call(c), TInv'
    PROVE  OInv'
<1> USE DEF OInv, TInv, TypeOK, ArgIsEntry, WorkerIsOwned, JoinableIsEntry,
            DestroyIsAlone, DestroyedIsQuiet, Return, Enter, CanCall, targetVars,
            entryVars, threadVars
<1>1. ASSUME NEW id \in Ids, FreezeRefused(c, id)
      PROVE  OInv'
  BY <1>1 DEF FreezeRefused
<1>2. ASSUME NEW id \in Ids, FreezeRegister(c, id)
      PROVE  OInv'
  BY <1>2 DEF FreezeRegister
<1>3. ASSUME NEW id \in Ids, StopMissing(c, id)
      PROVE  OInv'
  BY <1>3 DEF StopMissing
<1>4. ASSUME NEW id \in Ids, NEW o \in {"unfreeze", "restore"}, StopBegin(c, o, id)
      PROVE  OInv'
  BY <1>4 DEF StopBegin, AfterJoin
<1>5. ASSUME NEW o \in {"cancel_all", "destroy"}, CancelBegin(c, o)
      PROVE  OInv'
  BY <1>5 DEF CancelBegin
<1>6. QED
  BY <1>1, <1>2, <1>3, <1>4, <1>5 DEF Call

LEMMA StepOwned ==
    ASSUME OInv, NEW c \in Clients, Step(c), TInv'
    PROVE  OInv'
<1> USE DEF OInv, TInv, TypeOK, ArgIsEntry, WorkerIsOwned, JoinableIsEntry,
            DestroyIsAlone, DestroyedIsQuiet, Goto, Return, Enter, targetVars,
            entryVars, threadVars
<1>1. CASE FreezeStart(c)
  BY <1>1 DEF FreezeStart
<1>2. CASE FreezeStartFails(c)
  BY <1>2 DEF FreezeStartFails
<1>3. CASE FreezePublish(c)
  BY <1>3 DEF FreezePublish
<1>4. CASE StopRequest(c)
  BY <1>4 DEF StopRequest
<1>5. CASE StopJoined(c)
  <2>1. WorkerIsOwned' /\ JoinableIsEntry'
    BY <1>5 DEF StopJoined, AfterJoin, ThreadReturned
  <2>2. DestroyIsAlone'
    BY <1>5 DEF StopJoined, AfterJoin, ThreadReturned
  <2>3. DestroyedIsQuiet'
    BY <1>5 DEF StopJoined, AfterJoin, ThreadReturned
  <2>4. QED
    BY ONLY TInv', <2>1, <2>2, <2>3 DEF OInv
<1>6. CASE UnfreezeFinish(c)
  BY <1>6 DEF UnfreezeFinish
<1>7. CASE RestoreWrite(c)
  <2>1. WorkerIsOwned' /\ JoinableIsEntry'
    BY <1>7 DEF RestoreWrite
  <2>2. DestroyIsAlone'
    BY <1>7 DEF RestoreWrite
  <2>3. DestroyedIsQuiet'
    BY <1>7 DEF RestoreWrite
  <2>4. QED
    BY ONLY TInv', <2>1, <2>2, <2>3 DEF OInv
<1>8. CASE RestoreFinish(c)
  BY <1>8 DEF RestoreFinish
<1>9. ASSUME NEW id \in Ids, CancelMark(c, id)
      PROVE  OInv'
  BY <1>9 DEF CancelMark
<1>10. ASSUME NEW id \in Ids, CancelVisit(c, id)
       PROVE  OInv'
  BY <1>10 DEF CancelVisit
<1>11. CASE CancelFinish(c)
  BY <1>11 DEF CancelFinish
<1>12. QED
  BY <1>1, <1>2, <1>3, <1>4, <1>5, <1>6, <1>7, <1>8, <1>9, <1>10, <1>11 DEF Step

LEMMA WorkerOwned ==
    ASSUME OInv, NEW id \in Ids, Worker(id), TInv'
    PROVE  OInv'
<1> USE DEF OInv, TInv, TypeOK, WorkerIsOwned, JoinableIsEntry, DestroyIsAlone,
            DestroyedIsQuiet, targetVars, entryVars, threadVars, callVars
<1>1. CASE WorkerGuard(id)
  BY <1>1 DEF WorkerGuard
<1>2. CASE WorkerProbe(id)
  BY <1>2 DEF WorkerProbe
<1>3. CASE WorkerWrite(id)
  BY <1>3 DEF WorkerWrite
<1>4. QED
  BY <1>1, <1>2, <1>3 DEF Worker

LEMMA TargetOwned ==
    ASSUME OInv, TargetWrites \/ TargetDies, TInv'
    PROVE  OInv'
  BY DEF OInv, WorkerIsOwned, JoinableIsEntry, DestroyIsAlone, DestroyedIsQuiet,
         TargetWrites, TargetDies, targetVars, entryVars, threadVars, callVars

LEMMA StutterOwned ==
    ASSUME OInv, UNCHANGED vars, TInv'
    PROVE  OInv'
  BY DEF OInv, WorkerIsOwned, JoinableIsEntry, DestroyIsAlone, DestroyedIsQuiet,
         vars, targetVars, entryVars, threadVars, callVars

LEMMA Owned == Spec => []OInv
<1>1. ASSUME Init, TInv
      PROVE  OInv
  BY <1>1 DEF Init, OInv, WorkerIsOwned, JoinableIsEntry, DestroyIsAlone,
              DestroyedIsQuiet
<1>2. ASSUME OInv, TInv', [Next]_vars
      PROVE  OInv'
  BY <1>2, CallOwned, StepOwned, WorkerOwned, TargetOwned, StutterOwned DEF Next
<1>3. QED
  BY <1>1, <1>2, Typing, PTL DEF Spec

\* A running worker always has an owner that can join it, however many clients
\* call and in whatever order (freeze.cpp:96, 171, 192, 284).
THEOREM WorkersAreOwned == Spec => []WorkerIsOwned
<1>1. OInv => WorkerIsOwned
  BY DEF OInv
<1>2. QED
  BY <1>1, Owned, PTL

\* When the destructor has returned no worker thread runs, so none touches the
\* session the manager held, and no handle is left that would end the program
\* when it is destroyed (freeze.cpp:27-29, 273-289).
THEOREM NoWorkerOutlives == Spec => []NoWorkerOutlivesManager
<1>1. OInv => NoWorkerOutlivesManager
  BY DEF OInv, DestroyedIsQuiet, NoWorkerOutlivesManager
<1>2. QED
  BY <1>1, Owned, PTL

-----------------------------------------------------------------------------
(***************************************************************************)
(* The safety half of what a call and a worker come to.  A join waits only *)
(* for a thread that has been told to end, and from then on, as from the   *)
(* death of the target, each step of that thread brings it nearer its end. *)
(* This needs that a thread is started once: only a new id can be, and one *)
(* client is about to.                                                     *)
(***************************************************************************)

StartsOnce ==
    /\ \A id \in Ids : id \notin entries => worker[id] = "none" /\ ~cancel[id]
    /\ \A id \in Ids : joinable[id] => worker[id] # "none"
    /\ \A c \in Clients :
          /\ toMark[c] \subseteq entries
          /\ pc[c] = "start" => worker[arg[c]] = "none"
          /\ pc[c] = "publish" => worker[arg[c]] # "none"
    /\ \A c, d \in Clients :
          pc[c] = "start" /\ pc[d] = "start" /\ arg[c] = arg[d] => c = d

JoinIsAsked ==
    \A c \in Clients : pc[c] = "joining" => cancel[arg[c]] /\ worker[arg[c]] # "none"

JInv == OInv /\ StartsOnce /\ JoinIsAsked

\* How far a worker is from its end once it has been cancelled: the value is written
\* once more at most.
StepsIfCancelled(place) ==
    CASE place = "none"  -> 4
      [] place = "probe" -> 3
      [] place = "write" -> 2
      [] place = "guard" -> 1
      [] OTHER           -> 0

\* And once its target is dead, cancelled or not.
StepsIfDead(place) ==
    CASE place = "none"  -> 4
      [] place = "write" -> 3
      [] place = "guard" -> 2
      [] place = "probe" -> 1
      [] OTHER           -> 0

WindsDown(id) ==
    /\ cancel[id] =>
          /\ cancel'[id]
          /\ worker'[id] # worker[id] =>
                StepsIfCancelled(worker'[id]) < StepsIfCancelled(worker[id])
    /\ ~alive =>
          /\ ~alive'
          /\ worker'[id] # worker[id] =>
                StepsIfDead(worker'[id]) < StepsIfDead(worker[id])

\* What of OInv the steps below need.
LEMMA JoinFacts ==
    ASSUME OInv
    PROVE  /\ entries \subseteq Ids
           /\ cancel \in [Ids -> BOOLEAN] /\ joinable \in [Ids -> BOOLEAN]
           /\ worker \in [Ids -> Threads]
           /\ op \in [Clients -> Ops] /\ pc \in [Clients -> Pcs]
           /\ arg \in [Clients -> Ids \cup {NoId}]
           /\ toMark \in [Clients -> SUBSET Ids]
           /\ ArgIsEntry /\ JoinableIsEntry
  BY DEF OInv, TInv, TypeOK

LEMMA CallStartsOnce ==
    ASSUME JInv, NEW c \in Clients, Call(c), OInv'
    PROVE  JInv'
<1> USE DEF StartsOnce, JoinIsAsked, ArgIsEntry, JoinableIsEntry, Return, Enter, CanCall,
            targetVars, entryVars, threadVars
<1>0. OInv /\ StartsOnce /\ JoinIsAsked
  BY DEF JInv
<1>1. ASSUME NEW id \in Ids, FreezeRefused(c, id)
      PROVE  StartsOnce' /\ JoinIsAsked'
  BY <1>0, <1>1, JoinFacts DEF FreezeRefused
<1>2. ASSUME NEW id \in Ids, FreezeRegister(c, id)
      PROVE  StartsOnce' /\ JoinIsAsked'
  BY <1>0, <1>2, JoinFacts DEF FreezeRegister
<1>3. ASSUME NEW id \in Ids, StopMissing(c, id)
      PROVE  StartsOnce' /\ JoinIsAsked'
  BY <1>0, <1>3, JoinFacts DEF StopMissing
<1>4. ASSUME NEW id \in Ids, NEW o \in {"unfreeze", "restore"}, StopBegin(c, o, id)
      PROVE  StartsOnce' /\ JoinIsAsked'
  BY <1>0, <1>4, JoinFacts DEF StopBegin, AfterJoin
<1>5. ASSUME NEW o \in {"cancel_all", "destroy"}, CancelBegin(c, o)
      PROVE  StartsOnce' /\ JoinIsAsked'
  BY <1>0, <1>5, JoinFacts DEF CancelBegin
<1>6. QED
  BY <1>1, <1>2, <1>3, <1>4, <1>5 DEF Call, JInv

LEMMA StepStartsOnce ==
    ASSUME JInv, NEW c \in Clients, Step(c), OInv'
    PROVE  JInv'
<1> USE DEF StartsOnce, JoinIsAsked, ArgIsEntry, Goto, Return, Enter, targetVars,
            entryVars, threadVars
<1>0. OInv /\ StartsOnce /\ JoinIsAsked
  BY DEF JInv
<1>1. ASSUME FreezeStart(c)
      PROVE  StartsOnce' /\ JoinIsAsked'
  BY <1>0, <1>1, JoinFacts DEF FreezeStart
<1>2. ASSUME FreezeStartFails(c)
      PROVE  StartsOnce' /\ JoinIsAsked'
  BY <1>0, <1>2, JoinFacts DEF FreezeStartFails
<1>3. ASSUME FreezePublish(c)
      PROVE  StartsOnce' /\ JoinIsAsked'
  BY <1>0, <1>3, JoinFacts DEF FreezePublish
<1>4. ASSUME StopRequest(c)
      PROVE  StartsOnce' /\ JoinIsAsked'
  BY <1>0, <1>4, JoinFacts DEF StopRequest
<1>5. ASSUME StopJoined(c)
      PROVE  StartsOnce' /\ JoinIsAsked'
  BY <1>0, <1>5, JoinFacts DEF StopJoined, AfterJoin
<1>6. ASSUME UnfreezeFinish(c)
      PROVE  StartsOnce' /\ JoinIsAsked'
  BY <1>0, <1>6, JoinFacts DEF UnfreezeFinish
<1>7. ASSUME RestoreWrite(c)
      PROVE  StartsOnce' /\ JoinIsAsked'
  BY <1>0, <1>7, JoinFacts DEF RestoreWrite
<1>8. ASSUME RestoreFinish(c)
      PROVE  StartsOnce' /\ JoinIsAsked'
  BY <1>0, <1>8, JoinFacts DEF RestoreFinish
<1>9. ASSUME NEW id \in Ids, CancelMark(c, id)
      PROVE  StartsOnce' /\ JoinIsAsked'
  BY <1>0, <1>9, JoinFacts DEF CancelMark
<1>10. ASSUME NEW id \in Ids, CancelVisit(c, id)
       PROVE  StartsOnce' /\ JoinIsAsked'
  BY <1>0, <1>10, JoinFacts DEF CancelVisit
<1>11. ASSUME CancelFinish(c)
      PROVE  StartsOnce' /\ JoinIsAsked'
  BY <1>0, <1>11, JoinFacts DEF CancelFinish
<1>12. QED
  BY <1>1, <1>2, <1>3, <1>4, <1>5, <1>6, <1>7, <1>8, <1>9, <1>10, <1>11 DEF Step, JInv

LEMMA WorkerStartsOnce ==
    ASSUME JInv, NEW id \in Ids, Worker(id), OInv'
    PROVE  JInv'
<1> USE DEF StartsOnce, JoinIsAsked, targetVars, entryVars, threadVars, callVars
<1>0. OInv /\ StartsOnce /\ JoinIsAsked
  BY DEF JInv
<1>1. ASSUME WorkerGuard(id)
      PROVE  StartsOnce' /\ JoinIsAsked'
  BY <1>0, <1>1, JoinFacts DEF WorkerGuard
<1>2. ASSUME WorkerProbe(id)
      PROVE  StartsOnce' /\ JoinIsAsked'
  <2>1. \E place \in {"write", "exited"} : worker' = [worker EXCEPT ![id] = place]
    BY <1>2 DEF WorkerProbe
  <2>2. QED
    BY <1>0, <1>2, <2>1, JoinFacts DEF WorkerProbe
<1>3. ASSUME WorkerWrite(id)
      PROVE  StartsOnce' /\ JoinIsAsked'
  BY <1>0, <1>3, JoinFacts DEF WorkerWrite
<1>4. QED
  BY <1>1, <1>2, <1>3 DEF Worker, JInv

LEMMA Joins == Spec => []JInv
<1>1. ASSUME Init, OInv
      PROVE  JInv
  BY <1>1 DEF Init, JInv, StartsOnce, JoinIsAsked
<1>2. ASSUME JInv, OInv', [Next]_vars
      PROVE  JInv'
  <2>1. CASE TargetWrites \/ TargetDies \/ UNCHANGED vars
    BY <1>2, <2>1 DEF JInv, StartsOnce, JoinIsAsked, TargetWrites, TargetDies, vars,
       targetVars, entryVars, threadVars, callVars
  <2>2. QED
    BY <1>2, <2>1, CallStartsOnce, StepStartsOnce, WorkerStartsOnce DEF Next
<1>3. QED
  BY <1>1, <1>2, Owned, PTL DEF Spec

\* A call that waits in join waits for a thread that was started and has been told to
\* end, whatever the other clients do in the meantime (freeze.cpp:171-173, 192-194,
\* 284-286): nobody takes the cancel token back.
THEOREM JoinsAreAsked == Spec => []JoinIsAsked
<1>1. JInv => JoinIsAsked
  BY DEF JInv
<1>2. QED
  BY <1>1, Joins, PTL

LEMMA CallWindsDown ==
    ASSUME JInv, NEW c \in Clients, Call(c), NEW id \in Ids
    PROVE  WindsDown(id)
<1> USE DEF WindsDown, targetVars, entryVars, threadVars
<1>1. ASSUME NEW i \in Ids, FreezeRegister(c, i)
      PROVE  WindsDown(id)
  BY <1>1 DEF FreezeRegister, JInv, OInv, TInv, TypeOK, StartsOnce
<1>2. ASSUME UNCHANGED <<alive, cancel, worker>>
      PROVE  WindsDown(id)
  BY <1>2
<1>3. QED
  BY <1>1, <1>2 DEF Call, FreezeRefused, StopMissing, StopBegin, CancelBegin

LEMMA StepWindsDown ==
    ASSUME JInv, NEW c \in Clients, Step(c), NEW id \in Ids
    PROVE  WindsDown(id)
<1> USE DEF WindsDown, JInv, OInv, TInv, TypeOK, ArgIsEntry, targetVars, entryVars, threadVars
<1>1. CASE FreezeStart(c)
  <2>1. worker[arg[c]] = "none" /\ worker' = [worker EXCEPT ![arg[c]] = "guard"]
    BY <1>1 DEF FreezeStart, StartsOnce
  <2>2. worker'[id] # worker[id] => worker[id] = "none" /\ worker'[id] = "guard"
    BY <2>1
  <2>3. QED
    BY <1>1, <2>2 DEF FreezeStart, StepsIfCancelled, StepsIfDead
<1>2. CASE StopRequest(c)
  BY <1>2 DEF StopRequest
<1>3. ASSUME NEW i \in Ids, CancelMark(c, i)
      PROVE  WindsDown(id)
  BY <1>3 DEF CancelMark
<1>4. ASSUME UNCHANGED <<alive, cancel, worker>>
      PROVE  WindsDown(id)
  BY <1>4
<1>5. QED
  BY <1>1, <1>2, <1>3, <1>4 DEF Step, FreezeStartFails, FreezePublish, StopJoined,
     UnfreezeFinish, RestoreWrite, RestoreFinish, CancelVisit, CancelFinish

LEMMA WorkerWindsDown ==
    ASSUME JInv, NEW i \in Ids, Worker(i), NEW id \in Ids
    PROVE  WindsDown(id)
<1> USE DEF WindsDown, StepsIfCancelled, StepsIfDead, JInv, OInv, TInv, TypeOK,
            targetVars, entryVars
<1>1. CASE WorkerGuard(i)
  BY <1>1 DEF WorkerGuard, StopSeen
<1>2. CASE WorkerProbe(i)
  BY <1>2 DEF WorkerProbe
<1>3. CASE WorkerWrite(i)
  BY <1>3 DEF WorkerWrite
<1>4. QED
  BY <1>1, <1>2, <1>3 DEF Worker

\* From the moment its cancel token is set, or its target is dead, every step of a
\* worker brings it nearer its end, and no client's step takes it back: it writes once
\* more at most (the loop at freeze.cpp:130-155, for any number of clients).
THEOREM WorkersWindDown == Spec => [][\A id \in Ids : WindsDown(id)]_vars
<1>1. ASSUME JInv, [Next]_vars
      PROVE  \A id \in Ids : WindsDown(id)
  <2>1. CASE TargetWrites \/ TargetDies \/ UNCHANGED vars
    BY <1>1, <2>1 DEF WindsDown, TargetWrites, TargetDies, vars, targetVars, entryVars,
       threadVars
  <2>2. QED
    BY <1>1, <2>1, CallWindsDown, StepWindsDown, WorkerWindsDown DEF Next
<1>2. QED
  BY <1>1, Joins, PTL DEF Spec

\* How far a call is from its return, between two entries of cancel_all's list.
StepsToReturn(place) ==
    CASE place = "stop"       -> 6
      [] place = "joining"    -> 5
      [] place = "collect"    -> 4
      [] place = "rewrite"    -> 3
      [] place = "start"      -> 2
      [] place \in {"publish", "deactivate", "finish"} -> 1
      [] OTHER                -> 0

CallDrawsNear(c) ==
    pc[c] # "idle" =>
        \/ pc'[c] = "idle"
        \/ /\ toMark'[c] \subseteq toMark[c] /\ toJoin'[c] \subseteq toJoin[c]
           /\ toMark'[c] = toMark[c] /\ toJoin'[c] = toJoin[c] =>
                 pc'[c] = pc[c] \/ StepsToReturn(pc'[c]) < StepsToReturn(pc[c])

\* No client moves another client's call.
LEMMA OthersStay ==
    ASSUME TypeOK, NEW c \in Clients, NEW d \in Clients, d # c, Call(d) \/ Step(d)
    PROVE  pc'[c] = pc[c] /\ toMark'[c] = toMark[c] /\ toJoin'[c] = toJoin[c]
<1> USE DEF TypeOK, Return, Enter, Goto
<1>1. CASE Call(d)
  BY <1>1 DEF Call, FreezeRefused, FreezeRegister, StopMissing, StopBegin, CancelBegin
<1>2. CASE FreezeStart(d) \/ FreezeStartFails(d) \/ FreezePublish(d)
  BY <1>2 DEF FreezeStart, FreezeStartFails, FreezePublish
<1>3. CASE StopRequest(d) \/ StopJoined(d) \/ UnfreezeFinish(d)
  BY <1>3 DEF StopRequest, StopJoined, UnfreezeFinish
<1>4. CASE RestoreWrite(d) \/ RestoreFinish(d)
  BY <1>4 DEF RestoreWrite, RestoreFinish
<1>5. ASSUME NEW id \in Ids, CancelMark(d, id) \/ CancelVisit(d, id)
      PROVE  pc'[c] = pc[c] /\ toMark'[c] = toMark[c] /\ toJoin'[c] = toJoin[c]
  BY <1>5 DEF CancelMark, CancelVisit
<1>6. CASE CancelFinish(d)
  BY <1>6 DEF CancelFinish
<1>7. QED
  BY <1>1, <1>2, <1>3, <1>4, <1>5, <1>6 DEF Step

LEMMA StepDrawsNear ==
    ASSUME TypeOK, NEW c \in Clients, Step(c)
    PROVE  CallDrawsNear(c)
<1> USE DEF CallDrawsNear, StepsToReturn, TypeOK, Return, Enter, Goto
<1>1. CASE FreezeStart(c) \/ FreezeStartFails(c) \/ FreezePublish(c)
  BY <1>1 DEF FreezeStart, FreezeStartFails, FreezePublish
<1>2. CASE StopRequest(c)
  BY <1>2 DEF StopRequest
<1>3. CASE StopJoined(c)
  BY <1>3 DEF StopJoined, AfterJoin
<1>4. CASE UnfreezeFinish(c) \/ RestoreFinish(c) \/ CancelFinish(c)
  BY <1>4 DEF UnfreezeFinish, RestoreFinish, CancelFinish
<1>5. CASE RestoreWrite(c)
  BY <1>5 DEF RestoreWrite
<1>6. ASSUME NEW id \in Ids, CancelMark(c, id)
      PROVE  CallDrawsNear(c)
  BY <1>6 DEF CancelMark
<1>7. ASSUME NEW id \in Ids, CancelVisit(c, id)
      PROVE  CallDrawsNear(c)
  <2>1. id \in toJoin[c] /\ toJoin'[c] = toJoin[c] \ {id} /\ toMark'[c] = toMark[c]
    BY <1>7 DEF CancelVisit
  <2>2. QED
    BY <2>1
<1>8. QED
  BY <1>1, <1>2, <1>3, <1>4, <1>5, <1>6, <1>7 DEF Step

\* Every step of a call brings it nearer its return, and nobody else's step takes it
\* back: cancel_all does not get new work from the ids that are registered while it
\* runs (freeze.cpp:158-211, 273-289).
THEOREM CallsDrawNear == Spec => [][\A c \in Clients : CallDrawsNear(c)]_vars
<1>1. ASSUME TypeOK, [Next]_vars
      PROVE  \A c \in Clients : CallDrawsNear(c)
  <2> SUFFICES ASSUME NEW c \in Clients PROVE CallDrawsNear(c)
    OBVIOUS
  <2>1. CASE Call(c)
    <3>1. pc[c] = "idle"
      BY <2>1 DEF Call, FreezeRefused, FreezeRegister, StopMissing, StopBegin, CancelBegin,
         CanCall
    <3>2. QED
      BY <3>1 DEF CallDrawsNear
  <2>2. CASE Step(c)
    BY <1>1, <2>2, StepDrawsNear
  <2>3. ASSUME NEW d \in Clients, d # c, Call(d) \/ Step(d)
        PROVE  CallDrawsNear(c)
    BY <1>1, <2>3, OthersStay DEF CallDrawsNear
  <2>4. ASSUME UNCHANGED callVars
        PROVE  CallDrawsNear(c)
    BY <2>4 DEF CallDrawsNear, callVars
  <2>5. ASSUME (\E id \in Ids : Worker(id)) \/ TargetWrites \/ TargetDies \/ UNCHANGED vars
        PROVE  UNCHANGED callVars
    BY <2>5 DEF Worker, WorkerGuard, WorkerProbe, WorkerWrite, TargetWrites, TargetDies,
       vars, callVars
  <2>6. QED
    BY <1>1, <2>1, <2>2, <2>3, <2>4, <2>5 DEF Next
<1>2. QED
  BY <1>1, TypeCorrect, PTL DEF Spec

-----------------------------------------------------------------------------
(***************************************************************************)
(* Which ids are left active without a worker.  A worker that ends with    *)
(* its id active was asked to, and whoever asks while the id is active     *)
(* stays in its call until it has joined: then the id is inactive or the   *)
(* call says that it failed.  A stop that comes before the handle is       *)
(* stored asks nobody, so the freeze call that stores it has nothing to    *)
(* hide.                                                                   *)
(***************************************************************************)

Cancels == {"cancel_all", "destroy"}

\* A freeze call that has registered its id and not stored the handle.
Starting(c) == pc[c] \in {"start", "publish"}

OpsFit ==
    \A c \in Clients :
        /\ pc[c] = "idle" => arg[c] = NoId
        /\ pc[c] = "collect" => op[c] \in Cancels
        /\ pc[c] \in {"stop", "joining"} => op[c] \in Cancels \cup {"unfreeze", "restore"}

\* While an id is being started its handle is empty, nobody else starts it, nobody
\* stops it, and a cancel comes with active = FALSE.
StartsUndisturbed ==
    \A c \in Clients : Starting(c) =>
        /\ ~joinable[arg[c]]
        /\ cancel[arg[c]] => ~active[arg[c]]
        /\ \A d \in Clients \ {c} :
              Starting(d) \/ pc[d] \in {"stop", "joining"} => arg[d] # arg[c]

\* cancel_all visits only ids it has marked.
ListsAreMarked ==
    \A c \in Clients : op[c] \in Cancels =>
        /\ arg[c] # NoId => arg[c] \in entries /\ ~active[arg[c]]
        /\ \A id \in toJoin[c] \ toMark[c] : ~active[id]

EndsAreAsked ==
    \A id \in Ids : active[id] /\ id \in entries =>
        /\ worker[id] = "exited" => cancel[id]
        /\ worker[id] \in Running /\ cancel[id] =>
              \E c \in Clients : pc[c] = "joining" /\ arg[c] = id

AInv == JInv /\ OpsFit /\ StartsUndisturbed /\ ListsAreMarked /\ EndsAreAsked

LEMMA AskedFacts ==
    ASSUME AInv
    PROVE  /\ entries \subseteq Ids
           /\ cancel \in [Ids -> BOOLEAN] /\ joinable \in [Ids -> BOOLEAN]
           /\ active \in [Ids -> BOOLEAN] /\ worker \in [Ids -> Threads]
           /\ op \in [Clients -> Ops] /\ pc \in [Clients -> Pcs]
           /\ arg \in [Clients -> Ids \cup {NoId}] /\ result \in [Clients -> Results]
           /\ toMark \in [Clients -> SUBSET Ids] /\ toJoin \in [Clients -> SUBSET Ids]
           /\ NoId \notin Ids /\ ArgIsEntry /\ JoinableIsEntry /\ StartsOnce /\ JoinIsAsked
           /\ OpsFit /\ StartsUndisturbed /\ ListsAreMarked /\ EndsAreAsked /\ WorkerIsOwned
  BY FreezeAssumption DEF AInv, JInv, OInv, TInv, TypeOK

LEMMA CallAsks ==
    ASSUME AInv, NEW c \in Clients, Call(c), JInv'
    PROVE  AInv'
<1> USE DEF OpsFit, StartsUndisturbed, ListsAreMarked, EndsAreAsked, Starting, Cancels,
            ArgIsEntry, JoinableIsEntry, StartsOnce, Return, Enter, CanCall,
            targetVars, entryVars, threadVars
<1>1. ASSUME NEW id \in Ids, FreezeRefused(c, id)
      PROVE  OpsFit' /\ StartsUndisturbed' /\ ListsAreMarked' /\ EndsAreAsked'
  BY <1>1, AskedFacts DEF FreezeRefused
<1>2. ASSUME NEW id \in Ids, FreezeRegister(c, id)
      PROVE  OpsFit' /\ StartsUndisturbed' /\ ListsAreMarked' /\ EndsAreAsked'
  <2>1. OpsFit'
    BY <1>2, AskedFacts DEF FreezeRegister
  <2>2. StartsUndisturbed'
    BY <1>2, AskedFacts DEF FreezeRegister
  <2>3. ListsAreMarked'
    BY <1>2, AskedFacts DEF FreezeRegister
  <2>4. EndsAreAsked'
    BY <1>2, AskedFacts DEF FreezeRegister
  <2>5. QED
    BY <2>1, <2>2, <2>3, <2>4
<1>3. ASSUME NEW id \in Ids, StopMissing(c, id)
      PROVE  OpsFit' /\ StartsUndisturbed' /\ ListsAreMarked' /\ EndsAreAsked'
  BY <1>3, AskedFacts DEF StopMissing
<1>4. ASSUME NEW id \in Ids, NEW o \in {"unfreeze", "restore"}, StopBegin(c, o, id)
      PROVE  OpsFit' /\ StartsUndisturbed' /\ ListsAreMarked' /\ EndsAreAsked'
  BY <1>4, AskedFacts DEF StopBegin, AfterJoin
<1>5. ASSUME NEW o \in {"cancel_all", "destroy"}, CancelBegin(c, o)
      PROVE  OpsFit' /\ StartsUndisturbed' /\ ListsAreMarked' /\ EndsAreAsked'
  BY <1>5, AskedFacts DEF CancelBegin
<1>6. QED
  BY <1>1, <1>2, <1>3, <1>4, <1>5 DEF Call, AInv

LEMMA StepAsks ==
    ASSUME AInv, NEW c \in Clients, Step(c), JInv'
    PROVE  AInv'
<1> USE DEF OpsFit, StartsUndisturbed, ListsAreMarked, EndsAreAsked, Starting, Cancels,
            ArgIsEntry, JoinableIsEntry, StartsOnce, Return, Enter, Goto,
            targetVars, entryVars, threadVars
<1>1. ASSUME FreezeStart(c)
      PROVE  OpsFit' /\ StartsUndisturbed' /\ ListsAreMarked' /\ EndsAreAsked'
  BY <1>1, AskedFacts DEF FreezeStart
<1>2. ASSUME FreezeStartFails(c)
      PROVE  OpsFit' /\ StartsUndisturbed' /\ ListsAreMarked' /\ EndsAreAsked'
  BY <1>2, AskedFacts DEF FreezeStartFails
<1>3. ASSUME FreezePublish(c)
      PROVE  OpsFit' /\ StartsUndisturbed' /\ ListsAreMarked' /\ EndsAreAsked'
  BY <1>3, AskedFacts DEF FreezePublish
<1>4. ASSUME StopRequest(c)
      PROVE  OpsFit' /\ StartsUndisturbed' /\ ListsAreMarked' /\ EndsAreAsked'
  BY <1>4, AskedFacts DEF StopRequest, WorkerIsOwned
<1>5. ASSUME StopJoined(c)
      PROVE  OpsFit' /\ StartsUndisturbed' /\ ListsAreMarked' /\ EndsAreAsked'
  BY <1>5, AskedFacts DEF StopJoined, AfterJoin, ThreadReturned
<1>6. ASSUME UnfreezeFinish(c)
      PROVE  OpsFit' /\ StartsUndisturbed' /\ ListsAreMarked' /\ EndsAreAsked'
  BY <1>6, AskedFacts DEF UnfreezeFinish
<1>7. ASSUME RestoreWrite(c)
      PROVE  OpsFit' /\ StartsUndisturbed' /\ ListsAreMarked' /\ EndsAreAsked'
  BY <1>7, AskedFacts DEF RestoreWrite
<1>8. ASSUME RestoreFinish(c)
      PROVE  OpsFit' /\ StartsUndisturbed' /\ ListsAreMarked' /\ EndsAreAsked'
  BY <1>8, AskedFacts DEF RestoreFinish
<1>9. ASSUME NEW id \in Ids, CancelMark(c, id)
      PROVE  OpsFit' /\ StartsUndisturbed' /\ ListsAreMarked' /\ EndsAreAsked'
  BY <1>9, AskedFacts DEF CancelMark
<1>10. ASSUME NEW id \in Ids, CancelVisit(c, id)
       PROVE  OpsFit' /\ StartsUndisturbed' /\ ListsAreMarked' /\ EndsAreAsked'
  <2>1. OpsFit'
    BY <1>10, AskedFacts DEF CancelVisit
  <2>2. StartsUndisturbed'
    BY <1>10, AskedFacts DEF CancelVisit
  <2>3. ListsAreMarked'
    BY <1>10, AskedFacts DEF CancelVisit
  <2>4. EndsAreAsked'
    BY <1>10, AskedFacts DEF CancelVisit
  <2>5. QED
    BY <2>1, <2>2, <2>3, <2>4
<1>11. ASSUME CancelFinish(c)
       PROVE  OpsFit' /\ StartsUndisturbed' /\ ListsAreMarked' /\ EndsAreAsked'
  BY <1>11, AskedFacts DEF CancelFinish
<1>12. QED
  BY <1>1, <1>2, <1>3, <1>4, <1>5, <1>6, <1>7, <1>8, <1>9, <1>10, <1>11 DEF Step, AInv

\* A worker's end is the only thing in it that matters here.
LEMMA WorkerAsks ==
    ASSUME AInv, NEW id \in Ids, Worker(id), JInv'
    PROVE  AInv'
<1>1. /\ UNCHANGED <<entries, cancel, joinable, op, pc, arg, toMark, toJoin>>
      /\ \A i \in Ids \ {id} : worker'[i] = worker[i] /\ active'[i] = active[i]
      /\ active'[id] => active[id]
      /\ worker'[id] \in Threads /\ worker[id] \in Running
      /\ worker'[id] = "exited" => cancel[id] \/ ~active'[id]
  <2>1. CASE WorkerGuard(id)
    BY <2>1, AskedFacts DEF WorkerGuard, StopSeen, entryVars, callVars
  <2>2. CASE WorkerProbe(id)
    BY <2>2, AskedFacts DEF WorkerProbe, callVars
  <2>3. CASE WorkerWrite(id)
    BY <2>3, AskedFacts DEF WorkerWrite, callVars
  <2>4. QED
    BY <2>1, <2>2, <2>3 DEF Worker
<1>2. OpsFit'
  BY <1>1, AskedFacts DEF OpsFit
<1>3. StartsUndisturbed'
  <2>1. \A i \in Ids : active'[i] => active[i]
    BY <1>1
  <2>2. QED
    BY <1>1, <2>1, AskedFacts DEF StartsUndisturbed, Starting, ArgIsEntry
<1>4. ListsAreMarked'
  BY <1>1, AskedFacts DEF ListsAreMarked
<1>5. EndsAreAsked'
  BY <1>1, AskedFacts DEF EndsAreAsked
<1>6. QED
  BY <1>2, <1>3, <1>4, <1>5 DEF AInv

LEMMA Asks == Spec => []AInv
<1>1. ASSUME Init, JInv
      PROVE  AInv
  BY <1>1 DEF Init, AInv, OpsFit, StartsUndisturbed, ListsAreMarked, EndsAreAsked, Starting,
     Cancels
<1>2. ASSUME AInv, JInv', [Next]_vars
      PROVE  AInv'
  <2>1. ASSUME TargetWrites \/ TargetDies \/ UNCHANGED vars
        PROVE  UNCHANGED <<entryVars, threadVars, callVars>>
    BY <2>1 DEF TargetWrites, TargetDies, vars
  <2>2. CASE UNCHANGED <<entryVars, threadVars, callVars>>
    BY <1>2, <2>2 DEF AInv, OpsFit, StartsUndisturbed, ListsAreMarked, EndsAreAsked,
       Starting, entryVars, threadVars, callVars
  <2>3. QED
    BY <1>2, <2>1, <2>2, CallAsks, StepAsks, WorkerAsks DEF Next
<1>3. QED
  BY <1>1, <1>2, Joins, PTL DEF Spec

\* A step strands an id only if it is the failing return of a call on it.
Strands(id) ==
    ~Stranded(id) /\ Stranded(id)' =>
        \E c \in Clients : arg[c] = id /\ result'[c] \in Failures

\* Calls that begin hold their id or leave every id as it was.
LEMMA CallStrands ==
    ASSUME AInv, NEW c \in Clients, Call(c), NEW id \in Ids
    PROVE  Strands(id)
<1> USE AskedFacts DEF Strands, Stranded, OpsFit, Return, Enter, CanCall, targetVars,
        entryVars, threadVars
<1>1. ASSUME NEW i \in Ids, FreezeRefused(c, i) \/ StopMissing(c, i)
      PROVE  Strands(id)
  BY <1>1 DEF FreezeRefused, StopMissing
<1>2. ASSUME NEW i \in Ids, FreezeRegister(c, i)
      PROVE  Strands(id)
  BY <1>2 DEF FreezeRegister
<1>3. ASSUME NEW i \in Ids, NEW o \in {"unfreeze", "restore"}, StopBegin(c, o, i)
      PROVE  Strands(id)
  BY <1>3 DEF StopBegin
<1>4. ASSUME NEW o \in {"cancel_all", "destroy"}, CancelBegin(c, o)
      PROVE  Strands(id)
  BY <1>4 DEF CancelBegin
<1>5. QED
  BY <1>1, <1>2, <1>3, <1>4 DEF Call

LEMMA StepStrands ==
    ASSUME AInv, NEW c \in Clients, Step(c), NEW id \in Ids
    PROVE  Strands(id)
<1> USE AskedFacts DEF Strands, Stranded, Return, Enter, Goto, targetVars, entryVars,
        threadVars
<1>1. CASE FreezeStart(c) \/ StopJoined(c)
  BY <1>1 DEF FreezeStart, StopJoined, ArgIsEntry
<1>2. CASE FreezeStartFails(c)
  BY <1>2 DEF FreezeStartFails, Failures
<1>3. CASE FreezePublish(c)
  BY <1>3 DEF FreezePublish, StartsUndisturbed, Starting, EndsAreAsked, StartsOnce,
     ArgIsEntry
<1>4. CASE StopRequest(c)
  BY <1>4 DEF StopRequest, Failures
<1>5. CASE UnfreezeFinish(c) \/ RestoreFinish(c)
  BY <1>5 DEF UnfreezeFinish, RestoreFinish, ArgIsEntry
<1>6. CASE RestoreWrite(c)
  BY <1>6 DEF RestoreWrite, Failures
<1>7. ASSUME NEW i \in Ids, CancelMark(c, i)
      PROVE  Strands(id)
  BY <1>7 DEF CancelMark
<1>8. ASSUME NEW i \in Ids, CancelVisit(c, i)
      PROVE  Strands(id)
  BY <1>8 DEF CancelVisit, OpsFit, ListsAreMarked
<1>9. CASE CancelFinish(c)
  BY <1>9 DEF CancelFinish, OpsFit, ListsAreMarked
<1>10. QED
  BY <1>1, <1>2, <1>3, <1>4, <1>5, <1>6, <1>7, <1>8, <1>9 DEF Step

LEMMA WorkerStrands ==
    ASSUME AInv, NEW i \in Ids, Worker(i), NEW id \in Ids
    PROVE  Strands(id)
<1>1. UNCHANGED <<entries, arg>>
  BY DEF Worker, WorkerGuard, WorkerProbe, WorkerWrite, entryVars, callVars
<1>2. CASE id # i
  BY <1>1, <1>2, AskedFacts DEF Worker, WorkerGuard, WorkerProbe, WorkerWrite, entryVars,
     Strands, Stranded
<1>3. CASE id = i
  <2>1. CASE WorkerGuard(i)
    BY <1>1, <1>3, <2>1, AskedFacts DEF WorkerGuard, StopSeen, entryVars, EndsAreAsked,
       Strands, Stranded
  <2>2. CASE WorkerProbe(i)
    BY <1>1, <1>3, <2>2, AskedFacts DEF WorkerProbe, Strands, Stranded
  <2>3. CASE WorkerWrite(i)
    BY <1>1, <1>3, <2>3, AskedFacts DEF WorkerWrite, Strands, Stranded
  <2>4. QED
    BY <2>1, <2>2, <2>3 DEF Worker
<1>4. QED
  BY <1>2, <1>3

\* No call that succeeds, no worker that ends and no interleaving of clients leaves an
\* id active with nobody rewriting it; only a call that reports a failure does
\* (freeze.cpp:96, 110-114, 130-137, 171-176, 192-209, 273-289).
THEOREM StrandsByFailure == Spec => StrandedByFailure
<1>1. ASSUME AInv, [Next]_vars, NEW id \in Ids
      PROVE  Strands(id)
  <2>1. CASE TargetWrites \/ TargetDies \/ UNCHANGED vars
    BY <2>1 DEF Strands, Stranded, TargetWrites, TargetDies, vars, entryVars, threadVars,
       callVars
  <2>2. QED
    BY <1>1, <2>1, CallStrands, StepStrands, WorkerStrands DEF Next
<1>2. AInv /\ [Next]_vars =>
         [\A id \in Ids : ~Stranded(id) /\ Stranded(id)' =>
             \E c \in Clients : arg[c] = id /\ result'[c] \in Failures]_vars
  <2>1. AInv /\ [Next]_vars => \A id \in Ids : Strands(id)
    BY <1>1
  <2>2. QED
    BY <2>1 DEF Strands
<1>3. QED
  BY <1>2, Asks, PTL DEF Spec, StrandedByFailure

-----------------------------------------------------------------------------
(***************************************************************************)
(* Ids that are left alone until their freeze call has returned.  Between  *)
(* registering an entry and storing its handle a stop finds no handle to   *)
(* join, but a worker all the same.  If no other call names the id in that *)
(* time, any number of clients may share the manager.                      *)
(***************************************************************************)

FreezesReturnFirst ==
    \A c, d \in Clients :
        c # d /\ pc[d] \in {"start", "publish"} /\ pc[c] # "idle" => arg[c] # arg[d]

\* An id about to be started was never restored; past its join a call finds no
\* worker running.
PlaceOf(c) ==
    /\ pc[c] = "start" => ~restored[arg[c]]
    /\ pc[c] \in {"deactivate", "rewrite", "finish"} => worker[arg[c]] \notin Running

SerialInv ==
    /\ \A id \in Ids : id \notin entries => ~restored[id]
    /\ \A id \in Ids : restored[id] => worker[id] \notin Running
    /\ \A c \in Clients : PlaceOf(c)

SInv == JInv /\ SerialInv

LEMMA SerialFacts ==
    ASSUME SInv
    PROVE  /\ entries \subseteq Ids /\ restored \in [Ids -> BOOLEAN]
           /\ worker \in [Ids -> Threads]
           /\ op \in [Clients -> Ops] /\ pc \in [Clients -> Pcs]
           /\ arg \in [Clients -> Ids \cup {NoId}]
           /\ ArgIsEntry /\ JoinableIsEntry /\ WorkerIsOwned /\ StartsOnce /\ SerialInv
  BY DEF SInv, JInv, OInv, TInv, TypeOK

LEMMA CallSerial ==
    ASSUME FreezesReturnFirst', SInv, NEW c \in Clients, Call(c), JInv'
    PROVE  SInv'
<1> USE SerialFacts DEF SerialInv, PlaceOf, Return, Enter, CanCall, targetVars, entryVars,
            threadVars
<1>1. ASSUME NEW id \in Ids, FreezeRefused(c, id)
      PROVE  SerialInv'
  BY <1>1 DEF FreezeRefused
<1>2. ASSUME NEW id \in Ids, FreezeRegister(c, id)
      PROVE  SerialInv'
  BY <1>2 DEF FreezeRegister, ArgIsEntry
<1>3. ASSUME NEW id \in Ids, StopMissing(c, id)
      PROVE  SerialInv'
  BY <1>3 DEF StopMissing
<1>4. ASSUME NEW id \in Ids, NEW o \in {"unfreeze", "restore"}, StopBegin(c, o, id)
      PROVE  SerialInv'
  <2>1. ~joinable[id] => worker[id] \notin Running
    <3>1. ASSUME NEW d \in Clients, pc[d] = "publish", arg[d] = id
          PROVE  FALSE
      <4>1. d # c /\ pc'[d] = "publish" /\ arg'[d] = id /\ pc'[c] # "idle" /\ arg'[c] = id
        BY <1>4, <3>1 DEF StopBegin, AfterJoin
      <4>2. QED
        BY <4>1 DEF FreezesReturnFirst
    <3>2. QED
      BY <3>1 DEF WorkerIsOwned
  <2>2. QED
    BY <1>4, <2>1 DEF StopBegin, AfterJoin
<1>5. ASSUME NEW o \in {"cancel_all", "destroy"}, CancelBegin(c, o)
      PROVE  SerialInv'
  BY <1>5 DEF CancelBegin
<1>6. QED
  BY <1>1, <1>2, <1>3, <1>4, <1>5 DEF Call, SInv

LEMMA StepSerial ==
    ASSUME FreezesReturnFirst, SInv, NEW c \in Clients, Step(c), JInv'
    PROVE  SInv'
<1> USE SerialFacts DEF SerialInv, PlaceOf, Goto, Return, Enter, targetVars, entryVars,
            threadVars
<1>1. ASSUME FreezeStart(c)
      PROVE  SerialInv'
  BY <1>1 DEF FreezeStart, FreezesReturnFirst, StartsOnce, ArgIsEntry
<1>2. ASSUME FreezeStartFails(c)
      PROVE  SerialInv'
  BY <1>2 DEF FreezeStartFails
<1>3. ASSUME FreezePublish(c)
      PROVE  SerialInv'
  BY <1>3 DEF FreezePublish
<1>4. ASSUME StopRequest(c)
      PROVE  SerialInv'
  BY <1>4 DEF StopRequest
<1>5. ASSUME StopJoined(c)
      PROVE  SerialInv'
  BY <1>5 DEF StopJoined, AfterJoin, ThreadReturned
<1>6. ASSUME UnfreezeFinish(c)
      PROVE  SerialInv'
  BY <1>6 DEF UnfreezeFinish
<1>7. ASSUME RestoreWrite(c)
      PROVE  SerialInv'
  BY <1>7 DEF RestoreWrite
<1>8. ASSUME RestoreFinish(c)
      PROVE  SerialInv'
  BY <1>8 DEF RestoreFinish, FreezesReturnFirst, ArgIsEntry
<1>9. ASSUME NEW id \in Ids, CancelMark(c, id)
      PROVE  SerialInv'
  BY <1>9 DEF CancelMark
<1>10. ASSUME NEW id \in Ids, CancelVisit(c, id)
       PROVE  SerialInv'
  BY <1>10 DEF CancelVisit
<1>11. ASSUME CancelFinish(c)
       PROVE  SerialInv'
  BY <1>11 DEF CancelFinish
<1>12. QED
  BY <1>1, <1>2, <1>3, <1>4, <1>5, <1>6, <1>7, <1>8, <1>9, <1>10, <1>11 DEF Step, SInv

LEMMA WorkerSerial ==
    ASSUME SInv, NEW id \in Ids, Worker(id), JInv'
    PROVE  SInv'
<1>1. /\ worker[id] \in Running /\ \E place \in Threads : worker' = [worker EXCEPT ![id] = place]
      /\ UNCHANGED <<entries, restored, pc, arg>>
  BY DEF Worker, WorkerGuard, WorkerProbe, WorkerWrite, entryVars, callVars
<1>2. SerialInv'
  BY <1>1, SerialFacts DEF SerialInv, PlaceOf
<1>3. QED
  BY <1>2 DEF SInv

LEMMA TargetSerial ==
    ASSUME SInv, TargetWrites \/ TargetDies \/ UNCHANGED vars, JInv'
    PROVE  SInv'
  BY DEF SInv, SerialInv, PlaceOf, TargetWrites, TargetDies, vars, targetVars, entryVars,
         threadVars, callVars

LEMMA Serial == Spec /\ []FreezesReturnFirst => []SInv
<1>1. ASSUME Init, JInv
      PROVE  SInv
  BY <1>1 DEF Init, SInv, SerialInv, PlaceOf
<1>2. ASSUME FreezesReturnFirst, FreezesReturnFirst', SInv, JInv', [Next]_vars
      PROVE  SInv'
  BY <1>2, CallSerial, StepSerial, WorkerSerial, TargetSerial DEF Next
<1>3. QED
  BY <1>1, <1>2, Joins, PTL DEF Spec

\* If ids are left alone until their freeze call has returned, a restore that reported
\* success is final, however many clients call at a time: the worker of that id writes
\* no more (freeze.cpp:179-211; freeze.cpp:96 is what makes the hypothesis necessary).
THEOREM RestoresAreFinal == Spec /\ []FreezesReturnFirst => []RestoreIsFinal
<1>1. SInv => RestoreIsFinal
  BY DEF SInv, SerialInv, RestoreIsFinal
<1>2. QED
  BY <1>1, Serial, PTL

-----------------------------------------------------------------------------
(***************************************************************************)
(* A worker stops unasked only because its target is dead.  A running      *)
(* worker whose flag is false has been cancelled, so the loop condition    *)
(* ends no worker that nobody has asked to end.                            *)
(***************************************************************************)

OnlyCancelled ==
    /\ \A id \in Ids : worker[id] \in Running /\ ~active[id] => cancel[id]
    /\ \A c \in Clients : pc[c] = "start" => active[arg[c]] \/ cancel[arg[c]]

DInv == OnlyCancelled /\ DeathIsReported

\* What the steps below need of SInv.
LEMMA ReportFacts ==
    ASSUME SInv
    PROVE  /\ active \in [Ids -> BOOLEAN] /\ cancel \in [Ids -> BOOLEAN]
           /\ failCount \in [Ids -> 0..MaxCount] /\ worker \in [Ids -> Threads]
           /\ pc \in [Clients -> Pcs] /\ arg \in [Clients -> Ids \cup {NoId}]
           /\ ArgIsEntry /\ entries \subseteq Ids /\ StartsOnce /\ \A c \in Clients : PlaceOf(c)
  BY DEF SInv, JInv, OInv, TInv, TypeOK, SerialInv

LEMMA CallReports ==
    ASSUME SInv, DInv, NEW c \in Clients, Call(c)
    PROVE  DInv'
<1> USE ReportFacts DEF DInv, OnlyCancelled, DeathIsReported, Return, Enter, CanCall,
            entryVars, threadVars
<1>1. ASSUME NEW id \in Ids, FreezeRegister(c, id)
      PROVE  DInv'
  BY <1>1 DEF FreezeRegister, StartsOnce, ArgIsEntry
<1>2. ASSUME NEW id \in Ids, FreezeRefused(c, id) \/ StopMissing(c, id)
      PROVE  DInv'
  BY <1>2 DEF FreezeRefused, StopMissing
<1>3. ASSUME NEW id \in Ids, NEW o \in {"unfreeze", "restore"}, StopBegin(c, o, id)
      PROVE  DInv'
  BY <1>3 DEF StopBegin, AfterJoin
<1>4. ASSUME NEW o \in {"cancel_all", "destroy"}, CancelBegin(c, o)
      PROVE  DInv'
  BY <1>4 DEF CancelBegin
<1>5. QED
  BY <1>1, <1>2, <1>3, <1>4 DEF Call

LEMMA StepReports ==
    ASSUME FreezesReturnFirst, SInv, DInv, NEW c \in Clients, Step(c)
    PROVE  DInv'
<1> USE ReportFacts DEF DInv, OnlyCancelled, DeathIsReported, Goto, Return, Enter,
            entryVars, threadVars
<1>1. CASE FreezeStart(c)
  BY <1>1 DEF FreezeStart, StartsOnce, ArgIsEntry
<1>2. CASE FreezeStartFails(c) \/ FreezePublish(c) \/ CancelFinish(c)
  BY <1>2 DEF FreezeStartFails, FreezePublish, CancelFinish
<1>3. CASE StopRequest(c)
  BY <1>3 DEF StopRequest
<1>4. CASE StopJoined(c)
  BY <1>4 DEF StopJoined, AfterJoin
<1>5. CASE UnfreezeFinish(c)
  BY <1>5 DEF UnfreezeFinish, PlaceOf, FreezesReturnFirst, ArgIsEntry
<1>6. CASE RestoreWrite(c)
  BY <1>6 DEF RestoreWrite
<1>7. CASE RestoreFinish(c)
  BY <1>7 DEF RestoreFinish, PlaceOf, FreezesReturnFirst, ArgIsEntry
<1>8. ASSUME NEW id \in Ids, CancelMark(c, id)
      PROVE  DInv'
  BY <1>8 DEF CancelMark
<1>9. ASSUME NEW id \in Ids, CancelVisit(c, id)
      PROVE  DInv'
  BY <1>9 DEF CancelVisit
<1>10. QED
  BY <1>1, <1>2, <1>3, <1>4, <1>5, <1>6, <1>7, <1>8, <1>9 DEF Step

LEMMA WorkerReports ==
    ASSUME SInv, DInv, NEW id \in Ids, Worker(id)
    PROVE  DInv'
<1> USE ReportFacts DEF DInv, OnlyCancelled, DeathIsReported, entryVars, callVars
<1>1. Saturating(failCount[id]) > 0
  BY FreezeAssumption DEF Saturating
<1>2. CASE WorkerGuard(id)
  BY <1>2 DEF WorkerGuard, StopSeen
<1>3. CASE WorkerProbe(id)
  <2>1. pc' = pc /\ arg' = arg /\ cancel' = cancel
    BY <1>3 DEF WorkerProbe
  <2>2. CASE alive
    BY <1>3, <2>1, <2>2 DEF WorkerProbe
  <2>3. CASE ~alive
    <3>1. /\ worker' = [worker EXCEPT ![id] = "exited"]
          /\ active' = [active EXCEPT ![id] = FALSE]
          /\ failCount' = [failCount EXCEPT ![id] = Saturating(@)]
      BY <1>3, <2>3 DEF WorkerProbe
    <3>2. \A c \in Clients : pc[c] = "start" => arg[c] # id
      BY <1>3 DEF WorkerProbe, StartsOnce
    <3>3. QED
      BY <1>1, <2>1, <3>1, <3>2
  <2>4. QED
    BY <2>2, <2>3
<1>4. CASE WorkerWrite(id)
  BY <1>1, <1>4 DEF WorkerWrite
<1>5. QED
  BY <1>2, <1>3, <1>4 DEF Worker

\* Under the same hypothesis a worker that ends unasked has found its target dead and
\* says so: the id is inactive and the failure is counted (freeze.cpp:131-136).
THEOREM DeathsAreReported == Spec /\ []FreezesReturnFirst => []DeathIsReported
<1>1. ASSUME Init
      PROVE  DInv
  BY <1>1 DEF Init, DInv, OnlyCancelled, DeathIsReported
<1>2. ASSUME FreezesReturnFirst, SInv, DInv, [Next]_vars
      PROVE  DInv'
  <2>1. CASE TargetWrites \/ TargetDies \/ UNCHANGED vars
    BY <1>2, <2>1 DEF DInv, OnlyCancelled, DeathIsReported, TargetWrites, TargetDies, vars,
       entryVars, threadVars, callVars
  <2>2. QED
    BY <1>2, <2>1, CallReports, StepReports, WorkerReports DEF Next
<1>3. DInv => DeathIsReported
  BY DEF DInv
<1>4. QED
  BY <1>1, <1>2, <1>3, Serial, PTL DEF Spec

-----------------------------------------------------------------------------
(***************************************************************************)
(* active = false can be relied on.  Only a cancel_all can leave a worker  *)
(* running behind a false flag, and it has that worker on its list until   *)
(* it has joined it.  It keeps to its list only if nobody else joins one   *)
(* of its entries: otherwise its own join throws and the rest of the list  *)
(* is forgotten.                                                           *)
(***************************************************************************)

CancelsRunAlone ==
    \A c, d \in Clients : c # d /\ op[c] \in Cancels => pc[d] = "idle"

InOrder == FreezesReturnFirst /\ CancelsRunAlone

\* The agent's server loop and the trainer call from one thread: they are in order.
LEMMA OneClientIsInOrder ==
    ASSUME \A c, d \in Clients : c = d
    PROVE  InOrder
  BY DEF InOrder, FreezesReturnFirst, CancelsRunAlone

ListOf(c) ==
    /\ op[c] \notin Cancels => toJoin[c] = {}
    /\ pc[c] = "collect" => op[c] \in Cancels
    /\ op[c] \in Cancels =>
          /\ pc[c] \in {"collect", "stop", "joining"}
          /\ pc[c] # "collect" => joinable[arg[c]]
    /\ toMark[c] \subseteq toJoin[c]
    /\ pc[c] \in {"stop", "joining"} => toMark[c] = {} /\ op[c] \notin {"none", "freeze"}

Listed(id) ==
    \E c \in Clients :
        \/ id \in toJoin[c]
        \/ pc[c] \in {"stop", "joining"} /\ arg[c] = id /\ op[c] \in Cancels

QuietInv ==
    /\ \A c \in Clients : ListOf(c) /\ (pc[c] = "start" => active[arg[c]])
    /\ \A id \in Ids : worker[id] \in Running /\ ~active[id] => Listed(id)

QInv == SInv /\ QuietInv

LEMMA QuietFacts ==
    ASSUME QInv
    PROVE  /\ entries \subseteq Ids /\ active \in [Ids -> BOOLEAN]
           /\ joinable \in [Ids -> BOOLEAN] /\ worker \in [Ids -> Threads]
           /\ op \in [Clients -> Ops] /\ pc \in [Clients -> Pcs]
           /\ arg \in [Clients -> Ids \cup {NoId}]
           /\ toMark \in [Clients -> SUBSET Ids] /\ toJoin \in [Clients -> SUBSET Ids]
           /\ ArgIsEntry /\ WorkerIsOwned /\ StartsOnce
           /\ \A c \in Clients : PlaceOf(c) /\ ListOf(c)
           /\ QuietInv
  BY DEF QInv, QuietInv, SInv, SerialInv, JInv, OInv, TInv, TypeOK

LEMMA CallQuiet ==
    ASSUME InOrder', QInv, NEW c \in Clients, Call(c), SInv'
    PROVE  QInv'
<1> USE QuietFacts DEF QuietInv, ListOf, Listed, Cancels, Return, Enter, CanCall,
            targetVars, entryVars, threadVars
<1>1. ASSUME NEW id \in Ids, FreezeRefused(c, id)
      PROVE  QuietInv'
  BY <1>1 DEF FreezeRefused
<1>2. ASSUME NEW id \in Ids, FreezeRegister(c, id)
      PROVE  QuietInv'
  BY <1>2 DEF FreezeRegister, StartsOnce, ArgIsEntry
<1>3. ASSUME NEW id \in Ids, StopMissing(c, id)
      PROVE  QuietInv'
  BY <1>3 DEF StopMissing
<1>4. ASSUME NEW id \in Ids, NEW o \in {"unfreeze", "restore"}, StopBegin(c, o, id)
      PROVE  QuietInv'
  BY <1>4 DEF StopBegin, AfterJoin
<1>5. ASSUME NEW o \in {"cancel_all", "destroy"}, CancelBegin(c, o)
      PROVE  QuietInv'
  BY <1>5 DEF CancelBegin
<1>6. QED
  BY <1>1, <1>2, <1>3, <1>4, <1>5 DEF Call, QInv

LEMMA StepQuiet ==
    ASSUME InOrder, QInv, NEW c \in Clients, Step(c), SInv'
    PROVE  QInv'
<1> USE QuietFacts DEF QuietInv, ListOf, Listed, Cancels, Goto, Return, Enter, targetVars,
            entryVars, threadVars
<1>1. ASSUME FreezeStart(c)
      PROVE  QuietInv'
  BY <1>1 DEF FreezeStart, StartsOnce
<1>2. ASSUME FreezeStartFails(c)
      PROVE  QuietInv'
  BY <1>2 DEF FreezeStartFails
<1>3. ASSUME FreezePublish(c)
      PROVE  QuietInv'
  BY <1>3 DEF FreezePublish
<1>4. ASSUME StopRequest(c)
      PROVE  QuietInv'
  BY <1>4 DEF StopRequest, InOrder, CancelsRunAlone
<1>5. ASSUME StopJoined(c)
      PROVE  QuietInv'
  <2>1. /\ pc[c] = "joining" /\ worker[arg[c]] = "exited" /\ arg[c] \in Ids
        /\ pc' = [pc EXCEPT ![c] = AfterJoin(op[c])]
        /\ joinable' = [joinable EXCEPT ![arg[c]] = FALSE]
        /\ UNCHANGED <<op, arg, toMark, toJoin, worker, active>>
    BY <1>5 DEF StopJoined, ThreadReturned, ArgIsEntry
  <2>2. /\ op[c] \in Cancels => pc'[c] = "collect"
        /\ op[c] \notin Cancels => pc'[c] \in {"deactivate", "rewrite"}
    BY <2>1 DEF AfterJoin
  <2>3. \A d \in Clients \ {c} : pc'[d] = pc[d] /\ op[d] \notin Cancels
    BY <2>1 DEF InOrder, CancelsRunAlone
  <2>4. ASSUME NEW d \in Clients
        PROVE  (ListOf(d) /\ (pc[d] = "start" => active[arg[d]]))'
    <3>1. CASE d = c
      BY <2>1, <2>2, <3>1
    <3>2. CASE d # c
      BY <2>1, <2>3, <3>2
    <3>3. QED
      BY <3>1, <3>2
  <2>5. ASSUME NEW id \in Ids, worker'[id] \in Running, ~active'[id]
        PROVE  Listed(id)'
    <3>1. PICK d \in Clients :
             \/ id \in toJoin[d]
             \/ pc[d] \in {"stop", "joining"} /\ arg[d] = id /\ op[d] \in Cancels
      BY <2>1, <2>5
    <3>2. id # arg[c]
      BY <2>1, <2>5
    <3>3. QED
      BY <2>1, <2>3, <3>1, <3>2
  <2>6. QED
    BY <2>4, <2>5
<1>6. ASSUME UnfreezeFinish(c)
      PROVE  QuietInv'
  BY <1>6 DEF UnfreezeFinish, PlaceOf, InOrder, FreezesReturnFirst, ArgIsEntry
<1>7. ASSUME RestoreWrite(c)
      PROVE  QuietInv'
  BY <1>7 DEF RestoreWrite
<1>8. ASSUME RestoreFinish(c)
      PROVE  QuietInv'
  BY <1>8 DEF RestoreFinish, PlaceOf, InOrder, FreezesReturnFirst, ArgIsEntry
<1>9. ASSUME NEW id \in Ids, CancelMark(c, id)
      PROVE  QuietInv'
  BY <1>9 DEF CancelMark, InOrder, CancelsRunAlone
<1>10. ASSUME NEW id \in Ids, CancelVisit(c, id)
       PROVE  QuietInv'
  BY <1>10 DEF CancelVisit, WorkerIsOwned, InOrder, CancelsRunAlone
<1>11. ASSUME CancelFinish(c)
       PROVE  QuietInv'
  BY <1>11 DEF CancelFinish
<1>12. QED
  BY <1>1, <1>2, <1>3, <1>4, <1>5, <1>6, <1>7, <1>8, <1>9, <1>10, <1>11 DEF Step, QInv

LEMMA WorkerQuiet ==
    ASSUME QInv, NEW id \in Ids, Worker(id), SInv'
    PROVE  QInv'
<1> USE QuietFacts DEF QuietInv, ListOf, Listed, Cancels, targetVars, entryVars,
            threadVars, callVars
<1>1. CASE WorkerGuard(id)
  BY <1>1 DEF WorkerGuard, QInv
<1>2. CASE WorkerProbe(id)
  <2>1. /\ worker[id] = "probe" /\ worker' \in {[worker EXCEPT ![id] = "write"],
                                               [worker EXCEPT ![id] = "exited"]}
        /\ active' # active => active' = [active EXCEPT ![id] = FALSE]
                                /\ worker' = [worker EXCEPT ![id] = "exited"]
        /\ UNCHANGED <<joinable, op, pc, arg, toMark, toJoin>>
    BY <1>2 DEF WorkerProbe
  <2>2. \A c \in Clients : pc[c] = "start" => arg[c] # id
    BY <2>1 DEF StartsOnce
  <2>3. \A c \in Clients : (ListOf(c) /\ (pc[c] = "start" => active[arg[c]]))'
    <3>1. \A c \in Clients : ListOf(c)'
      BY <2>1
    <3>2. \A c \in Clients : pc[c] = "start" => arg[c] \in Ids /\ active[arg[c]]
      BY DEF ArgIsEntry
    <3>3. \A k \in Ids \ {id} : active'[k] = active[k]
      BY <2>1
    <3>4. QED
      BY <2>1, <2>2, <3>1, <3>2, <3>3
  <2>4. ASSUME NEW k \in Ids, worker'[k] \in Running, ~active'[k]
        PROVE  Listed(k)'
    <3>1. worker[k] \in Running /\ ~active[k]
      BY <2>1, <2>4
    <3>2. QED
      BY <2>1, <3>1
  <2>5. QED
    BY <2>3, <2>4 DEF QInv
<1>3. CASE WorkerWrite(id)
  BY <1>3 DEF WorkerWrite, QInv
<1>4. QED
  BY <1>1, <1>2, <1>3 DEF Worker

LEMMA TargetQuiet ==
    ASSUME QInv, TargetWrites \/ TargetDies \/ UNCHANGED vars, SInv'
    PROVE  QInv'
  BY DEF QInv, QuietInv, ListOf, Listed, TargetWrites, TargetDies, vars, targetVars,
         entryVars, threadVars, callVars

\* If ids are left alone until their freeze call has returned, and cancel_all until it
\* has, then whenever no call is in progress an id reported inactive has no worker
\* left that could write (freeze.cpp:130, 175, 209, 281).
THEOREM InactiveIsReliable == Spec /\ []InOrder => []InactiveIsQuiet
<1>1. ASSUME Init, SInv
      PROVE  QInv
  BY <1>1 DEF Init, QInv, QuietInv, ListOf, Listed, Cancels
<1>2. ASSUME InOrder, InOrder', QInv, SInv', [Next]_vars
      PROVE  QInv'
  BY <1>2, CallQuiet, StepQuiet, WorkerQuiet, TargetQuiet DEF Next
<1>3. ASSUME QInv
      PROVE  InactiveIsQuiet
  BY <1>3, QuietFacts DEF QuietInv, ListOf, Listed, InactiveIsQuiet, Cancels
<1>4. InOrder => FreezesReturnFirst
  BY DEF InOrder
<1>5. QED
  BY <1>1, <1>2, <1>3, <1>4, Serial, PTL DEF Spec
=============================================================================
