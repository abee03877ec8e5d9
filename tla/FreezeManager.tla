---------------------------- MODULE FreezeManager ----------------------------
(***************************************************************************)
(* gtlibcpp::FreezeManager (src/freeze.cpp): one worker thread per freeze  *)
(* id rewrites a value in the target process until a client unfreezes,     *)
(* restores or cancels it.                                                 *)
(*                                                                         *)
(* Actors: the client threads that call the manager, one worker thread per *)
(* registered id, and the target process, which writes its own memory and  *)
(* may die.  A step is what one of them does between two points where      *)
(* another could intervene: entries_mutex_ makes a critical section one    *)
(* step, everything outside it interleaves.  Entries are never erased, so  *)
(* looking an id up and the unlocked step after it are one step.           *)
(***************************************************************************)
EXTENDS Naturals

CONSTANTS
    Clients,       \* threads that call the manager
    Ids,           \* freeze ids
    NoId,          \* a client that names no id
    Addrs,         \* addresses of the target process
    TargetValues,  \* values the target itself stores
    FreezeValues,  \* values a client asks to hold
    Torn,          \* what a partial write leaves behind
    MaxCount       \* ok_count and fail_count saturate here

ASSUME FreezeAssumption ==
    /\ NoId \notin Ids
    /\ Addrs # {} /\ TargetValues # {} /\ FreezeValues # {}
    /\ MaxCount \in Nat \ {0}

VARIABLES
    \* --- the target process ---
    mem, alive,
    \* --- FreezeManager::entries_, field by field; entries holds its keys ---
    entries, request, original, cancel, active, restored, okCount, failCount,
    \* --- Entry::worker: where the thread is, and whether the handle owns it ---
    worker, joinable,
    \* --- the calls in progress ---
    op, pc, arg, toMark, toJoin, result,
    destroyed

targetVars == <<mem, alive>>
entryVars  == <<entries, request, original, cancel, active, restored,
                okCount, failCount>>
threadVars == <<worker, joinable>>
callVars   == <<op, pc, arg, toMark, toJoin, result, destroyed>>
vars       == <<targetVars, entryVars, threadVars, callVars>>

Requests == [addr : Addrs, value : FreezeValues]
Memory   == TargetValues \cup FreezeValues \cup {Torn}

Ops     == {"none", "freeze", "unfreeze", "restore", "cancel_all", "destroy"}
Pcs     == {"idle", "start", "publish", "stop", "joining", "deactivate",
            "rewrite", "finish", "collect"}
Results == {"none", "ok", "invalid_request", "invalid_entry_id", "read_failed",
            "snapshot_missing", "write_failed", "partial_write", "internal",
            "system_error"}

\* A worker thread is not yet created, at its loop condition, asking whether
\* the target lives, about to write, or has returned from worker_loop.
Running == {"guard", "probe", "write"}
Threads == Running \cup {"none", "exited"}

Init ==
    /\ mem \in [Addrs -> TargetValues]
    /\ alive = TRUE
    /\ entries = {}
    /\ request = [id \in Ids |-> CHOOSE r \in Requests : TRUE]
    /\ original = [id \in Ids |-> CHOOSE v \in TargetValues : TRUE]
    /\ cancel = [id \in Ids |-> FALSE]
    /\ active = [id \in Ids |-> FALSE]
    /\ restored = [id \in Ids |-> FALSE]
    /\ okCount = [id \in Ids |-> 0]
    /\ failCount = [id \in Ids |-> 0]
    /\ worker = [id \in Ids |-> "none"]
    /\ joinable = [id \in Ids |-> FALSE]
    /\ op = [c \in Clients |-> "none"]
    /\ pc = [c \in Clients |-> "idle"]
    /\ arg = [c \in Clients |-> NoId]
    /\ toMark = [c \in Clients |-> {}]
    /\ toJoin = [c \in Clients |-> {}]
    /\ result = [c \in Clients |-> "none"]
    /\ destroyed = FALSE

-----------------------------------------------------------------------------
(* Calls *)

\* Nobody may call an object whose destructor has begun.
CanCall(c) ==
    /\ pc[c] = "idle"
    /\ ~destroyed
    /\ \A d \in Clients : op[d] # "destroy"

Enter(c, o, id, l) ==
    /\ op' = [op EXCEPT ![c] = o]
    /\ pc' = [pc EXCEPT ![c] = l]
    /\ arg' = [arg EXCEPT ![c] = id]
    /\ result' = [result EXCEPT ![c] = "none"]

Goto(c, l) ==
    /\ pc' = [pc EXCEPT ![c] = l]
    /\ UNCHANGED <<op, arg, result>>

Return(c, code) ==
    /\ op' = [op EXCEPT ![c] = "none"]
    /\ pc' = [pc EXCEPT ![c] = "idle"]
    /\ arg' = [arg EXCEPT ![c] = NoId]
    /\ result' = [result EXCEPT ![c] = code]

\* Mutant: address and value change places.
WriteBytes_Swapped(a, v, status) ==
    IF status = "write_failed" THEN UNCHANGED mem
    ELSE alive /\ mem' = [mem EXCEPT ![a] = a]

\* MemorySession::write_bytes through the backend: all of it, part of it or
\* nothing; a dead target takes nothing.
WriteBytes(a, v, status) ==
    \/ /\ status = "ok" /\ alive
       /\ mem' = [mem EXCEPT ![a] = v]
    \/ /\ status = "partial_write" /\ alive
       /\ mem' = [mem EXCEPT ![a] = Torn]
    \/ /\ status = "write_failed"
       /\ UNCHANGED mem

Saturating(n) == IF n < MaxCount THEN n + 1 ELSE n

-----------------------------------------------------------------------------
(* freeze *)

\* Every early return: a request the validation refuses, an id the map already
\* has (in whatever state it is), an address that cannot be read.
FreezeRefused(c, id) ==
    /\ CanCall(c)
    /\ \/ Return(c, "invalid_request")
       \/ id \in entries /\ Return(c, "invalid_entry_id")
       \/ id \notin entries /\ Return(c, "read_failed")
    /\ UNCHANGED <<targetVars, entryVars, threadVars, toMark, toJoin, destroyed>>

\* Under the lock: snapshot the original value, then register the entry, active.
FreezeRegister(c, id) ==
    /\ CanCall(c)
    /\ id \notin entries
    /\ alive
    /\ \E r \in Requests :
          /\ request' = [request EXCEPT ![id] = r]
          /\ original' = [original EXCEPT ![id] = mem[r.addr]]
    /\ entries' = entries \cup {id}
    /\ active' = [active EXCEPT ![id] = TRUE]
    /\ cancel' = [cancel EXCEPT ![id] = FALSE]
    /\ Enter(c, "freeze", id, "start")
    /\ UNCHANGED <<targetVars, restored, okCount, failCount, threadVars, toMark,
                   toJoin, destroyed>>

\* The std::thread constructor: the worker runs before its handle is stored.
FreezeStart(c) ==
    /\ pc[c] = "start"
    /\ worker' = [worker EXCEPT ![arg[c]] = "guard"]
    /\ Goto(c, "publish")
    /\ UNCHANGED <<targetVars, entryVars, joinable, toMark, toJoin, destroyed>>

\* The constructor throws: the catch reports it, the entry stays, active.
FreezeStartFails(c) ==
    /\ pc[c] = "start"
    /\ Return(c, "internal")
    /\ UNCHANGED <<targetVars, entryVars, threadVars, toMark, toJoin, destroyed>>

\* Mutant: the worker is detached, its handle never stored.
FreezePublish_Detached(c) ==
    /\ pc[c] = "publish"
    /\ Return(c, "ok")
    /\ UNCHANGED <<targetVars, entryVars, threadVars, toMark, toJoin, destroyed>>

\* The move assignment to captured->worker, outside the lock.
FreezePublish(c) ==
    /\ pc[c] = "publish"
    /\ joinable' = [joinable EXCEPT ![arg[c]] = TRUE]
    /\ Return(c, "ok")
    /\ UNCHANGED <<targetVars, entryVars, worker, toMark, toJoin, destroyed>>

-----------------------------------------------------------------------------
(* unfreeze and restore *)

AfterJoin(o) ==
    CASE o = "unfreeze" -> "deactivate"
      [] o = "restore"  -> "rewrite"
      [] OTHER          -> "collect"

StopMissing(c, id) ==
    /\ CanCall(c)
    /\ id \notin entries
    /\ Return(c, "snapshot_missing")
    /\ UNCHANGED <<targetVars, entryVars, threadVars, toMark, toJoin, destroyed>>

\* Mutant: the worker is not joined before the call goes on.
StopBegin_NoJoin(c, o, id) ==
    /\ CanCall(c)
    /\ id \in entries
    /\ Enter(c, o, id, AfterJoin(o))
    /\ UNCHANGED <<targetVars, entryVars, threadVars, toMark, toJoin, destroyed>>

\* A worker whose handle is not stored yet is passed over without a join.
StopBegin(c, o, id) ==
    /\ CanCall(c)
    /\ id \in entries
    /\ Enter(c, o, id, IF joinable[id] THEN "stop" ELSE AfterJoin(o))
    /\ UNCHANGED <<targetVars, entryVars, threadVars, toMark, toJoin, destroyed>>

\* cancel->store(true), then join().  The handle may have been joined since the
\* check, or another client may be inside join: both make join throw, and two
\* callers inside one join may also both be let through.
StopRequest(c) ==
    /\ pc[c] = "stop"
    /\ cancel' = [cancel EXCEPT ![arg[c]] = TRUE]
    /\ \/ joinable[arg[c]] /\ Goto(c, "joining") /\ UNCHANGED toJoin
       \/ /\ \/ ~joinable[arg[c]]
             \/ \E d \in Clients \ {c} : pc[d] = "joining" /\ arg[d] = arg[c]
          /\ Return(c, "system_error")
          /\ toJoin' = [toJoin EXCEPT ![c] = {}]
    /\ UNCHANGED <<targetVars, entries, request, original, active, restored,
                   okCount, failCount, threadVars, toMark, destroyed>>

\* Mutant: the join does not wait.
ThreadReturned_Detached(id) == TRUE

\* join() returns when the thread has returned.
ThreadReturned(id) == worker[id] = "exited"

StopJoined(c) ==
    /\ pc[c] = "joining"
    /\ ThreadReturned(arg[c])
    /\ joinable' = [joinable EXCEPT ![arg[c]] = FALSE]
    /\ Goto(c, AfterJoin(op[c]))
    /\ UNCHANGED <<targetVars, entryVars, worker, toMark, toJoin, destroyed>>

UnfreezeFinish(c) ==
    /\ pc[c] = "deactivate"
    /\ active' = [active EXCEPT ![arg[c]] = FALSE]
    /\ Return(c, "ok")
    /\ UNCHANGED <<targetVars, entries, request, original, cancel, restored,
                   okCount, failCount, threadVars, toMark, toJoin, destroyed>>

\* Mutant: the frozen value goes back instead of the original.
RestoreWrite_Frozen(c) ==
    /\ pc[c] = "rewrite"
    /\ \E status \in {"ok", "partial_write", "write_failed"} :
          /\ WriteBytes(request[arg[c]].addr, request[arg[c]].value, status)
          /\ IF status = "ok" THEN Goto(c, "finish") ELSE Return(c, status)
    /\ UNCHANGED <<alive, entryVars, threadVars, toMark, toJoin, destroyed>>

\* Both failures return at once: active keeps its value.
RestoreWrite(c) ==
    /\ pc[c] = "rewrite"
    /\ \E status \in {"ok", "partial_write", "write_failed"} :
          /\ WriteBytes(request[arg[c]].addr, original[arg[c]], status)
          /\ IF status = "ok" THEN Goto(c, "finish") ELSE Return(c, status)
    /\ UNCHANGED <<alive, entryVars, threadVars, toMark, toJoin, destroyed>>

\* Two stores; no thread that could act on the first reads it.
RestoreFinish(c) ==
    /\ pc[c] = "finish"
    /\ restored' = [restored EXCEPT ![arg[c]] = TRUE]
    /\ active' = [active EXCEPT ![arg[c]] = FALSE]
    /\ Return(c, "ok")
    /\ UNCHANGED <<targetVars, entries, request, original, cancel, okCount,
                   failCount, threadVars, toMark, toJoin, destroyed>>

-----------------------------------------------------------------------------
(* cancel_all, which is also all the destructor does *)

\* The destructor has the manager to itself: the contract of every C++ object.
CancelBegin(c, o) ==
    /\ CanCall(c)
    /\ o = "destroy" => \A d \in Clients : pc[d] = "idle"
    /\ Enter(c, o, NoId, "collect")
    /\ toMark' = [toMark EXCEPT ![c] = entries]
    /\ toJoin' = [toJoin EXCEPT ![c] = entries]
    /\ UNCHANGED <<targetVars, entryVars, threadVars, destroyed>>

CancelMark(c, id) ==
    /\ pc[c] = "collect"
    /\ id \in toMark[c]
    /\ cancel' = [cancel EXCEPT ![id] = TRUE]
    /\ active' = [active EXCEPT ![id] = FALSE]
    /\ toMark' = [toMark EXCEPT ![c] = @ \ {id}]
    /\ UNCHANGED <<targetVars, entries, request, original, restored, okCount,
                   failCount, threadVars, op, pc, arg, toJoin, result, destroyed>>

\* Mutant: cancel_all marks the entries and joins none.
CancelVisit_NoJoin(c, id) ==
    /\ pc[c] = "collect"
    /\ toMark[c] = {}
    /\ id \in toJoin[c]
    /\ toJoin' = [toJoin EXCEPT ![c] = @ \ {id}]
    /\ UNCHANGED <<targetVars, entryVars, threadVars, op, pc, arg, result, toMark,
                   destroyed>>

\* All are marked before the first is joined.
CancelVisit(c, id) ==
    /\ pc[c] = "collect"
    /\ toMark[c] = {}
    /\ id \in toJoin[c]
    /\ toJoin' = [toJoin EXCEPT ![c] = @ \ {id}]
    /\ IF joinable[id]
       THEN Enter(c, op[c], id, "stop")
       ELSE UNCHANGED <<op, pc, arg, result>>
    /\ UNCHANGED <<targetVars, entryVars, threadVars, toMark, destroyed>>

CancelFinish(c) ==
    /\ pc[c] = "collect"
    /\ toMark[c] = {}
    /\ toJoin[c] = {}
    /\ destroyed' = (op[c] = "destroy")
    /\ Return(c, "ok")
    /\ UNCHANGED <<targetVars, entryVars, threadVars, toMark, toJoin>>

-----------------------------------------------------------------------------
(* worker_loop; the sliced sleep between two rounds only delays the guard *)

\* Mutant: the loop condition forgets the cancel token.
StopSeen_NoCancel(id) == ~active[id]

StopSeen(id) == cancel[id] \/ ~active[id]

WorkerGuard(id) ==
    /\ worker[id] = "guard"
    /\ worker' = [worker EXCEPT ![id] = IF StopSeen(id) THEN "exited" ELSE "probe"]
    /\ UNCHANGED <<targetVars, entryVars, joinable, callVars>>

\* Mutant: a dead target ends the loop and active stays set.
WorkerProbe_Silent(id) ==
    /\ worker[id] = "probe"
    /\ worker' = [worker EXCEPT ![id] = IF alive THEN "write" ELSE "exited"]
    /\ UNCHANGED <<targetVars, entryVars, joinable, callVars>>

\* Mutant: the worker never asks whether the target lives.
WorkerProbe_Blind(id) ==
    /\ worker[id] = "probe"
    /\ worker' = [worker EXCEPT ![id] = "write"]
    /\ UNCHANGED <<targetVars, entryVars, joinable, callVars>>

\* is_alive(): a dead target ends the freeze and is counted as a failure.
WorkerProbe(id) ==
    /\ worker[id] = "probe"
    /\ IF alive
       THEN /\ worker' = [worker EXCEPT ![id] = "write"]
            /\ UNCHANGED <<active, failCount>>
       ELSE /\ worker' = [worker EXCEPT ![id] = "exited"]
            /\ active' = [active EXCEPT ![id] = FALSE]
            /\ failCount' = [failCount EXCEPT ![id] = Saturating(@)]
    /\ UNCHANGED <<targetVars, entries, request, original, cancel, restored,
                   okCount, joinable, callVars>>

\* A failed or partial write is counted and retried in the next round.
WorkerWrite(id) ==
    /\ worker[id] = "write"
    /\ worker' = [worker EXCEPT ![id] = "guard"]
    /\ \E status \in {"ok", "partial_write", "write_failed"} :
          /\ WriteBytes(request[id].addr, request[id].value, status)
          /\ IF status = "ok"
             THEN /\ okCount' = [okCount EXCEPT ![id] = Saturating(@)]
                  /\ UNCHANGED failCount
             ELSE /\ failCount' = [failCount EXCEPT ![id] = Saturating(@)]
                  /\ UNCHANGED okCount
    /\ UNCHANGED <<alive, entries, request, original, cancel, active, restored,
                   joinable, callVars>>

-----------------------------------------------------------------------------
(* The target process *)

TargetWrites ==
    /\ alive
    /\ \E a \in Addrs, v \in TargetValues : mem' = [mem EXCEPT ![a] = v]
    /\ UNCHANGED <<alive, entryVars, threadVars, callVars>>

TargetDies ==
    /\ alive
    /\ alive' = FALSE
    /\ UNCHANGED <<mem, entryVars, threadVars, callVars>>

-----------------------------------------------------------------------------

\* The steps a call takes once it has begun.
Step(c) ==
    \/ FreezeStart(c) \/ FreezeStartFails(c) \/ FreezePublish(c)
    \/ StopRequest(c) \/ StopJoined(c)
    \/ UnfreezeFinish(c) \/ RestoreWrite(c) \/ RestoreFinish(c)
    \/ \E id \in Ids : CancelMark(c, id) \/ CancelVisit(c, id)
    \/ CancelFinish(c)

Call(c) ==
    \/ \E id \in Ids :
          \/ FreezeRefused(c, id) \/ FreezeRegister(c, id)
          \/ StopMissing(c, id)
          \/ StopBegin(c, "unfreeze", id) \/ StopBegin(c, "restore", id)
    \/ CancelBegin(c, "cancel_all") \/ CancelBegin(c, "destroy")

Worker(id) == WorkerGuard(id) \/ WorkerProbe(id) \/ WorkerWrite(id)

Next ==
    \/ \E c \in Clients : Call(c) \/ Step(c)
    \/ \E id \in Ids : Worker(id)
    \/ TargetWrites
    \/ TargetDies

Spec == Init /\ [][Next]_vars

\* A thread that can run does: the scheduler is fair to client threads inside a
\* call and to workers.  Nobody has to call, and the target need not die.
Fairness ==
    /\ \A c \in Clients : WF_vars(Step(c))
    /\ \A id \in Ids : WF_vars(Worker(id))

FairSpec == Spec /\ Fairness

-----------------------------------------------------------------------------
(* Properties *)

TypeOK ==
    /\ mem \in [Addrs -> Memory]
    /\ alive \in BOOLEAN
    /\ entries \subseteq Ids
    /\ request \in [Ids -> Requests]
    /\ original \in [Ids -> Memory]
    /\ cancel \in [Ids -> BOOLEAN]
    /\ active \in [Ids -> BOOLEAN]
    /\ restored \in [Ids -> BOOLEAN]
    /\ okCount \in [Ids -> 0..MaxCount]
    /\ failCount \in [Ids -> 0..MaxCount]
    /\ worker \in [Ids -> Threads]
    /\ joinable \in [Ids -> BOOLEAN]
    /\ op \in [Clients -> Ops]
    /\ pc \in [Clients -> Pcs]
    /\ arg \in [Clients -> Ids \cup {NoId}]
    /\ toMark \in [Clients -> SUBSET Ids]
    /\ toJoin \in [Clients -> SUBSET Ids]
    /\ result \in [Clients -> Results]
    /\ destroyed \in BOOLEAN

\* A running worker is owned: its handle can be joined, or the freeze call that
\* created it has yet to store the handle (freeze.cpp:96).  A worker that loses
\* its owner could never be joined, and destroying its handle ends the program.
WorkerIsOwned ==
    \A id \in Ids :
        worker[id] \in Running =>
            \/ joinable[id]
            \/ \E c \in Clients : pc[c] = "publish" /\ arg[c] = id

\* After the destructor no worker runs and no handle is left to join
\* (freeze.cpp:27, cancel_all at 273).
NoWorkerOutlivesManager ==
    destroyed => \A id \in Ids : worker[id] \notin Running /\ ~joinable[id]

\* Once restore has reported success for an id, its worker does not stand before
\* another write: the restored bytes stay until the target or another id changes
\* them (restore at freeze.cpp:179).
RestoreIsFinal == \A id \in Ids : restored[id] => worker[id] # "write"

\* When no call is in progress an id reported inactive has no worker about to
\* write: active=false can be relied on (the loop condition at freeze.cpp:130).
InactiveIsQuiet ==
    (\A c \in Clients : pc[c] = "idle") =>
        \A id \in Ids : ~active[id] => worker[id] \notin Running

\* An id status() reports active though no worker rewrites its value and no call is
\* busy with it.
Stranded(id) ==
    /\ id \in entries /\ active[id] /\ worker[id] \notin Running
    /\ \A c \in Clients : arg[c] # id

Failures == {"internal", "write_failed", "partial_write", "system_error"}

\* An id is left so only by a call on it that reports a failure as it returns: a
\* thread that could not be made (freeze.cpp:96, 110-114), a restore whose write failed
\* after the join (freeze.cpp:198-207), a join that threw.  No call that succeeds, no
\* worker and no other client ever strands one, whatever else is under way.
StrandedByFailure ==
    [][\A id \in Ids : ~Stranded(id) /\ Stranded(id)' =>
          \E c \in Clients : arg[c] = id /\ result'[c] \in Failures]_vars

\* Every call returns: no join waits for ever (the joins at freeze.cpp:173, 194
\* and 286), whatever the target does.
CallsReturn == \A c \in Clients : pc[c] # "idle" ~> pc[c] = "idle"

\* A dead target ends every worker without anybody asking (freeze.cpp:131).
DeadTargetStopsWorkers ==
    ~alive ~> \A id \in Ids : worker[id] \notin Running

\* A worker that ends without having been asked to does not end silently: the
\* id is inactive and the failure is counted (freeze.cpp:131-136).
DeathIsReported ==
    \A id \in Ids :
        worker[id] = "exited" /\ ~cancel[id] => ~active[id] /\ failCount[id] > 0

-----------------------------------------------------------------------------
(* What the calling code was promised *)

Held(id) ==
    \/ worker[id] \in Running
    \/ \E c \in Clients : pc[c] = "start" /\ arg[c] = id

Phase(id) ==
    IF id \notin entries THEN "absent" ELSE IF Held(id) THEN "held" ELSE "released"

Contract == INSTANCE FreezeContract WITH phase <- [id \in Ids |-> Phase(id)]

\* The manager keeps the contract: an id rewrites only while held, a hold once
\* let go is never taken up again, and the original bytes go back only after.
KeepsContract == Contract!Spec
=============================================================================
