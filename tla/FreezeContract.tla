--------------------------- MODULE FreezeContract ---------------------------
(***************************************************************************)
(* What a freeze promises the code that asks for one.                      *)
(*                                                                         *)
(* A freeze id is held at most once in its life.  While it is held the     *)
(* library may rewrite its value; once it is let go it never rewrites      *)
(* again, and only then may the library put the original bytes back.  The  *)
(* original is whatever the address held in the instant the freeze began.  *)
(* How threads, flags and joins bring this about is FreezeManager's        *)
(* business.                                                               *)
(***************************************************************************)
EXTENDS Naturals

CONSTANTS
    Ids,           \* freeze ids
    Addrs,         \* addresses of the target process
    TargetValues,  \* values the target itself stores
    FreezeValues,  \* values a client asks to hold
    Torn           \* what a partial write leaves behind

VARIABLES
    mem,       \* the target's memory
    phase,     \* "absent", then "held", then "released"
    request,   \* what each id was asked to hold, and where
    original   \* the value found when the hold began

contractVars == <<mem, phase, request, original>>

Requests == [addr : Addrs, value : FreezeValues]

Init ==
    /\ mem \in [Addrs -> TargetValues]
    /\ phase = [id \in Ids |-> "absent"]
    /\ request \in [Ids -> Requests]
    /\ original \in [Ids -> TargetValues]

Hold(id) ==
    /\ phase[id] = "absent"
    /\ \E r \in Requests :
          /\ request' = [request EXCEPT ![id] = r]
          /\ original' = [original EXCEPT ![id] = mem[r.addr]]
    /\ phase' = [phase EXCEPT ![id] = "held"]
    /\ UNCHANGED mem

Rewrite(id) ==
    /\ phase[id] = "held"
    /\ \E v \in {request[id].value, Torn} :
          mem' = [mem EXCEPT ![request[id].addr] = v]
    /\ UNCHANGED <<phase, request, original>>

LetGo(id) ==
    /\ phase[id] = "held"
    /\ phase' = [phase EXCEPT ![id] = "released"]
    /\ UNCHANGED <<mem, request, original>>

PutBack(id) ==
    /\ phase[id] = "released"
    /\ \E v \in {original[id], Torn} :
          mem' = [mem EXCEPT ![request[id].addr] = v]
    /\ UNCHANGED <<phase, request, original>>

TargetWrites ==
    /\ \E a \in Addrs, v \in TargetValues : mem' = [mem EXCEPT ![a] = v]
    /\ UNCHANGED <<phase, request, original>>

Next ==
    \/ \E id \in Ids : Hold(id) \/ Rewrite(id) \/ LetGo(id) \/ PutBack(id)
    \/ TargetWrites

Spec == Init /\ [][Next]_contractVars
=============================================================================
