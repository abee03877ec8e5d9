-------------------------- MODULE FreezeRefinement --------------------------
(***************************************************************************)
(* FreezeManager implements FreezeContract as long as an id is left alone  *)
(* until its freeze call has returned, for any number of clients.  An id   *)
(* is held from its registration until its worker has returned (or could   *)
(* not be created); the flags cancel and active play no part in the        *)
(* mapping.                                                                *)
(***************************************************************************)
EXTENDS FreezeProofs

USE DEF Running

\* A step the contract does not see.
Silent ==
    /\ UNCHANGED <<mem, entries, request, original>>
    /\ \A id \in Ids : Held(id)' <=> Held(id)

LEMMA SilentStutters ==
    ASSUME Silent
    PROVE  UNCHANGED Contract!contractVars
  BY DEF Silent, Contract!contractVars, Phase

\* One id changes its phase.
LEMMA PhaseChanges ==
    ASSUME NEW id \in Ids, \A other \in Ids \ {id} : Phase(other)' = Phase(other)
    PROVE  [i \in Ids |-> Phase(i)]' = [[i \in Ids |-> Phase(i)] EXCEPT ![id] = Phase(id)']
  OBVIOUS

LEMMA LetsGo ==
    ASSUME NEW id \in Ids, id \in entries, Held(id), ~Held(id)',
           UNCHANGED <<mem, entries, request, original>>,
           \A other \in Ids \ {id} : Held(other)' <=> Held(other)
    PROVE  Contract!LetGo(id)
<1>1. Phase(id) = "held" /\ Phase(id)' = "released"
  BY DEF Phase
<1>2. \A other \in Ids \ {id} : Phase(other)' = Phase(other)
  BY DEF Phase
<1>3. [i \in Ids |-> Phase(i)]' = [[i \in Ids |-> Phase(i)] EXCEPT ![id] = "released"]
  BY <1>1, <1>2, PhaseChanges
<1>4. QED
  BY <1>1, <1>3 DEF Contract!LetGo

\* Registering an entry begins the hold, with the bytes found at that instant.
LEMMA RegisterHolds ==
    ASSUME SInv, NEW c \in Clients, NEW id \in Ids, FreezeRegister(c, id)
    PROVE  Contract!Hold(id)
<1> USE DEF FreezeRegister, Enter, CanCall, SInv, JInv, OInv, TInv, TypeOK,
            ArgIsEntry, targetVars, threadVars
<1>1. Phase(id) = "absent"
  BY DEF Phase
<1>2. Held(id)'
  BY DEF Held
<1>3. Phase(id)' = "held"
  BY <1>2 DEF Phase
<1>4. \A other \in Ids \ {id} : Held(other)' <=> Held(other)
  BY DEF Held
<1>5. \A other \in Ids \ {id} : Phase(other)' = Phase(other)
  BY <1>4 DEF Phase
<1>6. [i \in Ids |-> Phase(i)]' = [[i \in Ids |-> Phase(i)] EXCEPT ![id] = "held"]
  BY <1>3, <1>5, PhaseChanges
<1>7. \E r \in Contract!Requests :
         /\ request' = [request EXCEPT ![id] = r]
         /\ original' = [original EXCEPT ![id] = mem[r.addr]]
  BY DEF Contract!Requests, Requests
<1>8. QED
  BY <1>1, <1>6, <1>7 DEF Contract!Hold

LEMMA CallRefines ==
    ASSUME SInv, NEW c \in Clients, Call(c)
    PROVE  [Contract!Next]_Contract!contractVars
<1> USE DEF SInv, JInv, OInv, TInv, TypeOK, Return, Enter, CanCall, targetVars,
            entryVars, threadVars, Silent, Held
<1>1. ASSUME NEW id \in Ids, FreezeRefused(c, id)
      PROVE  Silent
  BY <1>1 DEF FreezeRefused
<1>2. ASSUME NEW id \in Ids, FreezeRegister(c, id)
      PROVE  Contract!Next
  BY <1>2, RegisterHolds DEF Contract!Next
<1>3. ASSUME NEW id \in Ids, StopMissing(c, id)
      PROVE  Silent
  BY <1>3 DEF StopMissing
<1>4. ASSUME NEW id \in Ids, NEW o \in {"unfreeze", "restore"}, StopBegin(c, o, id)
      PROVE  Silent
  BY <1>4 DEF StopBegin, AfterJoin
<1>5. ASSUME NEW o \in {"cancel_all", "destroy"}, CancelBegin(c, o)
      PROVE  Silent
  BY <1>5 DEF CancelBegin
<1>6. QED
  BY <1>1, <1>2, <1>3, <1>4, <1>5, SilentStutters DEF Call

\* The original goes back only once the id has been let go.
LEMMA RestorePutsBack ==
    ASSUME FreezesReturnFirst, SInv, NEW c \in Clients, RestoreWrite(c)
    PROVE  Silent \/ Contract!PutBack(arg[c])
<1> USE DEF SInv, JInv, OInv, TInv, TypeOK, ArgIsEntry, SerialInv, PlaceOf,
            RestoreWrite, Goto, Return, entryVars, threadVars
<1>1. \A id \in Ids : Held(id)' <=> Held(id)
  BY DEF Held
<1>2. arg[c] \in entries /\ ~Held(arg[c])
  BY DEF Held, FreezesReturnFirst
<1>3. Phase(arg[c]) = "released"
  BY <1>2 DEF Phase
<1>4. PICK status \in {"ok", "partial_write", "write_failed"} :
         WriteBytes(request[arg[c]].addr, original[arg[c]], status)
  OBVIOUS
<1>5. CASE status = "write_failed"
  BY <1>1, <1>4, <1>5 DEF Silent, WriteBytes
<1>6. CASE status # "write_failed"
  <2>1. \E v \in {original[arg[c]], Torn} :
           mem' = [mem EXCEPT ![request[arg[c]].addr] = v]
    BY <1>4, <1>6 DEF WriteBytes
  <2>2. UNCHANGED <<[i \in Ids |-> Phase(i)], request, original>>
    BY <1>1 DEF Phase
  <2>3. QED
    BY <1>2, <1>3, <2>1, <2>2 DEF Contract!PutBack
<1>7. QED
  BY <1>5, <1>6

LEMMA StepRefines ==
    ASSUME FreezesReturnFirst, SInv, NEW c \in Clients, Step(c)
    PROVE  [Contract!Next]_Contract!contractVars
<1> USE DEF SInv, JInv, OInv, TInv, TypeOK, ArgIsEntry, SerialInv, PlaceOf, Goto,
            Return, Enter, targetVars, entryVars, threadVars
<1>1. CASE FreezeStart(c)
  <2>1. Silent
    BY <1>1 DEF FreezeStart, Silent, Held
  <2>2. QED
    BY <2>1, SilentStutters
<1>2. CASE FreezeStartFails(c)
  <2>1. PICK id \in Ids : id = arg[c]
    BY <1>2 DEF FreezeStartFails
  <2>2. id \in entries /\ Held(id)
    BY <1>2, <2>1 DEF FreezeStartFails, Held
  <2>3. ~Held(id)'
    BY <1>2, <2>1 DEF FreezeStartFails, Held, StartsOnce
  <2>4. \A other \in Ids \ {id} : Held(other)' <=> Held(other)
    BY <1>2, <2>1 DEF FreezeStartFails, Held
  <2>5. UNCHANGED <<mem, entries, request, original>>
    BY <1>2 DEF FreezeStartFails
  <2>6. Contract!LetGo(id)
    BY <2>2, <2>3, <2>4, <2>5, LetsGo
  <2>7. QED
    BY <2>6 DEF Contract!Next
<1>3. CASE RestoreWrite(c)
  <2>1. arg[c] \in Ids
    BY <1>3 DEF RestoreWrite
  <2>2. QED
    BY <1>3, <2>1, RestorePutsBack, SilentStutters DEF Contract!Next
<1>4. CASE FreezePublish(c) \/ StopRequest(c) \/ StopJoined(c)
  <2>1. Silent
    BY <1>4 DEF FreezePublish, StopRequest, StopJoined, AfterJoin, Silent, Held
  <2>2. QED
    BY <2>1, SilentStutters
<1>5. CASE UnfreezeFinish(c) \/ RestoreFinish(c) \/ CancelFinish(c)
  <2>1. Silent
    BY <1>5 DEF UnfreezeFinish, RestoreFinish, CancelFinish, Silent, Held
  <2>2. QED
    BY <2>1, SilentStutters
<1>6. ASSUME NEW id \in Ids, CancelMark(c, id) \/ CancelVisit(c, id)
      PROVE  UNCHANGED Contract!contractVars
  <2>1. Silent
    BY <1>6 DEF CancelMark, CancelVisit, Silent, Held
  <2>2. QED
    BY <2>1, SilentStutters
<1>7. QED
  BY <1>1, <1>2, <1>3, <1>4, <1>5, <1>6 DEF Step

\* A worker that leaves its loop lets its id go; one that writes rewrites it.
LEMMA WorkerRefines ==
    ASSUME SInv, NEW id \in Ids, Worker(id)
    PROVE  [Contract!Next]_Contract!contractVars
<1> USE DEF SInv, JInv, OInv, TInv, TypeOK, ArgIsEntry, SerialInv, PlaceOf, targetVars,
            entryVars, threadVars, callVars
<1>1. Held(id) /\ id \in entries
  BY DEF Worker, WorkerGuard, WorkerProbe, WorkerWrite, Held, StartsOnce
<1>2. \A other \in Ids \ {id} : Held(other)' <=> Held(other)
  BY DEF Worker, WorkerGuard, WorkerProbe, WorkerWrite, Held
<1>3. UNCHANGED <<entries, request, original>>
  BY DEF Worker, WorkerGuard, WorkerProbe, WorkerWrite
<1>4. CASE UNCHANGED mem /\ worker'[id] \in Running
  <2>1. Held(id)'
    BY <1>4 DEF Held
  <2>2. Silent
    BY <1>1, <1>2, <1>3, <1>4, <2>1 DEF Silent
  <2>3. QED
    BY <2>2, SilentStutters
<1>5. CASE UNCHANGED mem /\ worker'[id] = "exited"
  <2>1. ~Held(id)'
    BY <1>5 DEF Worker, WorkerGuard, WorkerProbe, WorkerWrite, Held, StartsOnce
  <2>2. Contract!LetGo(id)
    BY <1>1, <1>2, <1>3, <1>5, <2>1, LetsGo
  <2>3. QED
    BY <2>2 DEF Contract!Next
<1>6. CASE ~(UNCHANGED mem)
  <2>1. WorkerWrite(id)
    BY <1>6 DEF Worker, WorkerGuard, WorkerProbe
  <2>2. \E v \in {request[id].value, Torn} :
           mem' = [mem EXCEPT ![request[id].addr] = v]
    BY <1>6, <2>1 DEF WorkerWrite, WriteBytes
  <2>3. Held(id)'
    BY <2>1 DEF WorkerWrite, Held
  <2>4. UNCHANGED [i \in Ids |-> Phase(i)]
    BY <1>1, <1>2, <1>3, <2>3 DEF Phase
  <2>5. Phase(id) = "held"
    BY <1>1 DEF Phase
  <2>6. Contract!Rewrite(id)
    BY <1>3, <2>2, <2>4, <2>5 DEF Contract!Rewrite
  <2>7. QED
    BY <2>6 DEF Contract!Next
<1>7. QED
  BY <1>4, <1>5, <1>6 DEF Worker, WorkerGuard, WorkerProbe, WorkerWrite

LEMMA TargetRefines ==
    ASSUME SInv, TargetWrites \/ TargetDies \/ UNCHANGED vars
    PROVE  [Contract!Next]_Contract!contractVars
<1> USE DEF vars, targetVars, entryVars, threadVars, callVars
<1>1. \A id \in Ids : Held(id)' <=> Held(id)
  BY DEF TargetWrites, TargetDies, Held
<1>2. UNCHANGED <<entries, request, original>>
  BY DEF TargetWrites, TargetDies
<1>3. CASE TargetWrites
  <2>1. UNCHANGED [i \in Ids |-> Phase(i)]
    BY <1>1, <1>2 DEF Phase
  <2>2. Contract!TargetWrites
    BY <1>2, <1>3, <2>1 DEF TargetWrites, Contract!TargetWrites
  <2>3. QED
    BY <2>2 DEF Contract!Next
<1>4. CASE TargetDies \/ UNCHANGED vars
  <2>1. Silent
    BY <1>1, <1>2, <1>4 DEF TargetDies, Silent
  <2>2. QED
    BY <2>1, SilentStutters
<1>5. QED
  BY <1>3, <1>4

LEMMA InitRefines ==
    ASSUME Init
    PROVE  Contract!Init
<1>1. (CHOOSE r \in Requests : TRUE) \in Contract!Requests
  BY DefaultsType DEF Requests, Contract!Requests
<1>2. (CHOOSE v \in TargetValues : TRUE) \in TargetValues
  BY DefaultsType
<1>3. [i \in Ids |-> Phase(i)] = [i \in Ids |-> "absent"]
  BY DEF Init, Phase
<1>4. request \in [Ids -> Contract!Requests] /\ original \in [Ids -> TargetValues]
  BY <1>1, <1>2 DEF Init
<1>5. QED
  BY <1>3, <1>4 DEF Init, Contract!Init

\* If ids are left alone until their freeze call has returned, the manager keeps its
\* contract, however many clients call at a time: an id rewrites only while it is
\* held, a hold once let go is never taken up again, and the original bytes found at
\* the start go back only after that (freeze.cpp:39-211).
THEOREM ManagerKeepsContract == Spec /\ []FreezesReturnFirst => KeepsContract
<1>1. ASSUME FreezesReturnFirst, SInv, [Next]_vars
      PROVE  [Contract!Next]_Contract!contractVars
  BY <1>1, CallRefines, StepRefines, WorkerRefines, TargetRefines DEF Next
<1>2. QED
  BY <1>1, InitRefines, Serial, PTL DEF Spec, KeepsContract, Contract!Spec
=============================================================================
