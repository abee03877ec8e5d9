----------------------------- MODULE AgentProofs -----------------------------
(***************************************************************************)
(* Theorems about Agent, for any number of threads inside handle(), any    *)
(* requests, any lifetimes and any budget.                                 *)
(*                                                                         *)
(* An approval is either pending, or in the hands of one apply, or spent:  *)
(* the numbers that tell approvals apart make these places disjoint.       *)
(***************************************************************************)
EXTENDS Agent, TLAPS

USE DEF Pcs

LEMMA NoWindowType == NoWindow \in [start : Nat, count : Nat]
  BY DEF NoWindow

LEMMA RolledType ==
    ASSUME NEW w \in [start : Nat, count : Nat], NEW t \in Nat
    PROVE  Rolled(w, t) \in [start : Nat, count : Nat]
  BY DEF Rolled

LEMMA RequestFields ==
    ASSUME NEW r \in Requests
    PROVE  /\ r.id \in RequestIds /\ r.alias \in Aliases /\ r.preview \in BOOLEAN
           /\ [r EXCEPT !.preview = TRUE] \in Requests
  BY DEF Requests

LEMMA ApprovalFields ==
    ASSUME NEW t \in Approvals
    PROVE  t.serial \in Nat /\ t.alias \in Aliases
  BY DEF Approvals

\* What a request in progress carries at each point.
LEMMA Carried ==
    ASSUME TypeOK, NEW c \in Handlers
    PROVE  /\ pc[c] # "idle" => /\ req[c] \in Requests /\ req[c].preview \in BOOLEAN
                                /\ req[c].id \in RequestIds /\ req[c].alias \in Aliases
           /\ InHand(c) => token[c] \in Approvals /\ token[c].serial \in Nat
<1>1. Carries(c)
  BY DEF TypeOK
<1>2. QED
  BY <1>1, RequestFields, ApprovalFields DEF Carries

LEMMA StartsTyped ==
    ASSUME Init
    PROVE  TypeOK
<1>1. windows \in [Aliases -> [start : Nat, count : Nat]] /\ seen \in [Handlers -> Nat]
  BY NoWindowType DEF Init
<1>2. /\ late \in [Handlers -> BOOLEAN] /\ engaged \in BOOLEAN
      /\ counted \subseteq Nat /\ mutations \subseteq Mutations
  BY DEF Init
<1>3. QED
  BY <1>1, <1>2 DEF Init, TypeOK, Carries, InHand

LEMMA HandlerTyped ==
    ASSUME TypeOK, NEW c \in Handlers,
           \/ \E r \in Requests : Preview(c, r) \/ Take(c, r)
           \/ Mint(c) \/ Authorize(c) \/ LimitCheck(c) \/ LimitLoad(c) \/ LimitCount(c)
           \/ Write(c)
    PROVE  TypeOK'
<1> USE DEF TypeOK, Carries, InHand, Arrive, Answer, Goto, policyVars, ghostVars
<1>1. ASSUME NEW r \in Requests, Preview(c, r)
      PROVE  TypeOK'
  <2>1. [r EXCEPT !.preview = TRUE] \in Requests
    BY RequestFields
  <2>2. QED
    BY <1>1, <2>1 DEF Preview
<1>2. ASSUME NEW r \in Requests, Take(c, r)
      PROVE  TypeOK'
  <2>1. r.id \in RequestIds
    BY RequestFields
  <2>2. QED
    BY <1>2, <2>1 DEF Take
<1>3. CASE Mint(c)
  <2>1. req[c].id \in RequestIds /\ req[c].alias \in Aliases
    BY <1>3, Carried DEF Mint
  <2> DEFINE new == [alias |-> req[c].alias, issued |-> now, serial |-> minted + 1]
  <2>2. new \in Approvals
    BY <2>1 DEF Approvals
  <2> HIDE DEF new
  <2>3. pending' \in [RequestIds -> Approvals \cup {None}]
    BY <1>3, <2>1, <2>2 DEF Mint, new
  <2>4. QED
    BY <1>3, <2>3 DEF Mint
<1>4. CASE Authorize(c)
  BY <1>4 DEF Authorize
<1>5. CASE LimitCheck(c)
  <2> DEFINE w == Rolled(windows[req[c].alias], now)
  <2>1. req[c].alias \in Aliases
    BY <1>5, Carried DEF LimitCheck
  <2>2. w \in [start : Nat, count : Nat]
    BY <2>1, RolledType
  <2>3. w.count \in Nat
    BY <2>2
  <2> HIDE DEF w
  <2>4. /\ pc[c] = "limit" /\ windows' = [windows EXCEPT ![req[c].alias] = w]
        /\ \/ HasSlot(w) /\ seen' = [seen EXCEPT ![c] = w.count] /\ Goto(c, "count")
           \/ UNCHANGED seen /\ Answer(c)
        /\ UNCHANGED <<now, engaged, pending, ghostVars>>
    BY <1>5 DEF LimitCheck, w
  <2>5. windows' \in [Aliases -> [start : Nat, count : Nat]]
    BY <2>1, <2>2, <2>4
  <2>6. QED
    BY <2>3, <2>4, <2>5
<1>6. CASE LimitLoad(c)
  <2>1. req[c].alias \in Aliases
    BY <1>6, Carried DEF LimitLoad
  <2>2. {seen[c], windows[req[c].alias].count} \subseteq Nat
    BY <2>1
  <2>3. seen' \in [Handlers -> Nat]
    BY <1>6, <2>2 DEF LimitLoad
  <2>4. QED
    BY <1>6, <2>3 DEF LimitLoad
<1>7. CASE LimitCount(c)
  <2>1. req[c].alias \in Aliases /\ token[c].serial \in Nat
    BY <1>7, Carried DEF LimitCount
  <2>2. [windows[req[c].alias] EXCEPT !.count = seen[c] + 1] \in [start : Nat, count : Nat]
    BY <2>1
  <2>3. windows' \in [Aliases -> [start : Nat, count : Nat]]
    BY <1>7, <2>1, <2>2 DEF LimitCount
  <2>4. QED
    BY <1>7, <2>1, <2>3 DEF LimitCount
<1>8. CASE Write(c)
  <2>1. token[c].serial \in Nat /\ req[c].alias \in Aliases /\ req[c].preview \in BOOLEAN
    BY <1>8, Carried DEF Write
  <2>2. [serial |-> token[c].serial, alias |-> req[c].alias,
         preview |-> req[c].preview] \in Mutations
    BY <2>1 DEF Mutations
  <2>3. QED
    BY <1>8, <2>2 DEF Write
<1>9. QED
  BY <1>1, <1>2, <1>3, <1>4, <1>5, <1>6, <1>7, <1>8

LEMMA OthersTyped ==
    ASSUME TypeOK, Engage \/ Release \/ Tick \/ UNCHANGED vars
    PROVE  TypeOK'
<1> USE DEF TypeOK, Carries, InHand, policyVars, callVars, ghostVars
<1>1. CASE Engage
  BY <1>1 DEF Engage
<1>2. CASE Release
  BY <1>2 DEF Release
<1>3. CASE Tick
  BY <1>3 DEF Tick
<1>4. CASE UNCHANGED vars
  BY <1>4 DEF vars
<1>5. QED
  BY <1>1, <1>2, <1>3, <1>4

\* Every variable stays in its type (the fields at agent.hpp:117-122, policy.hpp:136-140):
\* inside handle() a thread has its request, past the lookup its approval.
THEOREM TypeCorrect == Spec => []TypeOK
<1>1. ASSUME TypeOK, [Next]_vars
      PROVE  TypeOK'
  BY <1>1, HandlerTyped, OthersTyped DEF Next
<1>2. QED
  BY <1>1, StartsTyped, PTL DEF Spec

-----------------------------------------------------------------------------
(* An approval is spent once *)

\* Approvals still pending are told apart from each other, and from those that
\* were written on; all were minted.
PendingApart ==
    \A id \in RequestIds : pending[id] # None =>
        /\ pending[id].serial <= minted
        /\ \A other \in RequestIds \ {id} :
              pending[other] # None => pending[other].serial # pending[id].serial
        /\ \A m \in mutations : m.serial # pending[id].serial

AllMinted ==
    /\ \A c \in Handlers : InHand(c) => token[c].serial <= minted
    /\ \A m \in mutations : m.serial <= minted

OnceInv == TypeOK /\ ApprovalIsSpentOnce /\ PendingApart /\ AllMinted

LEMMA HandlerOnce ==
    ASSUME OnceInv, NEW c \in Handlers, TypeOK',
           \/ \E r \in Requests : Preview(c, r) \/ Take(c, r)
           \/ Mint(c) \/ Authorize(c) \/ LimitCheck(c) \/ LimitLoad(c) \/ LimitCount(c)
           \/ Write(c)
    PROVE  OnceInv'
<1> USE DEF OnceInv, TypeOK, ApprovalIsSpentOnce, PendingApart, AllMinted,
            Carries, InHand, Arrive, Answer, Goto, policyVars, ghostVars
<1>1. ASSUME NEW r \in Requests, Preview(c, r)
      PROVE  OnceInv'
  BY <1>1 DEF Preview
<1>2. ASSUME NEW r \in Requests, Take(c, r)
      PROVE  OnceInv'
  <2>1. CASE pending[r.id] = None
    BY <1>2, <2>1 DEF Take
  <2>2. CASE pending[r.id] # None
    <3>1. r.id \in RequestIds
      BY RequestFields
    <3>2. /\ token' = [token EXCEPT ![c] = pending[r.id]]
          /\ pending' = [pending EXCEPT ![r.id] = None]
          /\ pc' = [pc EXCEPT ![c] = "authorize"]
          /\ UNCHANGED <<minted, mutations>>
      BY <1>2, <2>2 DEF Take
    <3>3. PendingApart' /\ AllMinted'
      BY <2>2, <3>1, <3>2
    <3>4. ApprovalIsSpentOnce'
      BY <2>2, <3>1, <3>2
    <3>5. QED
      BY <3>3, <3>4
  <2>3. QED
    BY <2>1, <2>2
<1>3. CASE Mint(c)
  <2>1. req[c].id \in RequestIds
    BY <1>3, Carried DEF Mint
  <2> DEFINE new == [alias |-> req[c].alias, issued |-> now, serial |-> minted + 1]
  <2>2. /\ pending' = [pending EXCEPT ![req[c].id] = new]
        /\ minted' = minted + 1 /\ new.serial = minted + 1
        /\ UNCHANGED mutations
        /\ pc' = [pc EXCEPT ![c] = "idle"] /\ token' = [token EXCEPT ![c] = None]
    BY <1>3 DEF Mint
  <2> HIDE DEF new
  <2>3. \A id \in RequestIds : pending[id] # None => pending[id].serial \in Nat
    BY ApprovalFields
  <2>4. \A d \in Handlers : InHand(d) => token[d].serial \in Nat
    BY Carried
  <2>5. \A m \in mutations : m.serial \in Nat
    BY DEF Mutations
  <2>6. PendingApart' /\ AllMinted'
    BY <2>1, <2>2, <2>3, <2>4, <2>5
  <2>7. ApprovalIsSpentOnce'
    BY <2>1, <2>2, <2>3, <2>4, <2>5
  <2>8. QED
    BY <2>6, <2>7
<1>4. CASE Authorize(c)
  BY <1>4 DEF Authorize
<1>5. CASE LimitCheck(c)
  <2>1. /\ pc[c] = "limit" /\ UNCHANGED <<pending, minted, mutations>>
        /\ \/ pc' = [pc EXCEPT ![c] = "count"] /\ UNCHANGED token
           \/ pc' = [pc EXCEPT ![c] = "idle"] /\ token' = [token EXCEPT ![c] = None]
    BY <1>5 DEF LimitCheck
  <2>2. QED
    BY <2>1
<1>6. CASE LimitLoad(c) \/ LimitCount(c)
  BY <1>6 DEF LimitLoad, LimitCount
<1>7. CASE Write(c)
  <2>1. \A m \in mutations' : m \in mutations \/ m.serial = token[c].serial
    BY <1>7 DEF Write
  <2>2. /\ pc[c] = "write" /\ pc' = [pc EXCEPT ![c] = "idle"]
        /\ token' = [token EXCEPT ![c] = None] /\ UNCHANGED <<pending, minted>>
    BY <1>7 DEF Write
  <2>3. QED
    BY <2>1, <2>2
<1>8. QED
  BY <1>1, <1>2, <1>3, <1>4, <1>5, <1>6, <1>7

LEMMA OthersOnce ==
    ASSUME OnceInv, Engage \/ Release \/ Tick \/ UNCHANGED vars, TypeOK'
    PROVE  OnceInv'
  BY DEF OnceInv, ApprovalIsSpentOnce, PendingApart, AllMinted, InHand, Engage, Release,
         Tick, vars, policyVars, callVars, ghostVars

\* An approval buys one write, however many applies name it at the same time
\* (agent.cpp:485-495).
THEOREM SpentOnce == Spec => []ApprovalIsSpentOnce
<1>1. ASSUME Init, TypeOK
      PROVE  OnceInv
  BY <1>1 DEF Init, OnceInv, ApprovalIsSpentOnce, PendingApart, AllMinted, InHand
<1>2. ASSUME OnceInv, TypeOK', [Next]_vars
      PROVE  OnceInv'
  BY <1>2, HandlerOnce, OthersOnce DEF Next
<1>3. OnceInv => ApprovalIsSpentOnce
  BY DEF OnceInv
<1>4. QED
  BY <1>1, <1>2, <1>3, TypeCorrect, PTL DEF Spec

-----------------------------------------------------------------------------
(* The kill switch, and the slots *)

\* A request that came in under the switch is still under it, and before or at the
\* gate.
LateInv ==
    \A c \in Handlers :
        late[c] => engaged /\ pc[c] \in {"idle", "mint", "authorize"}

\* The switch holds back every request that came in after it was thrown until it is
\* released, approvals minted earlier included (policy.cpp:110-113).
THEOREM SwitchHolds == Spec => []KillSwitchHolds
<1>1. Init => LateInv
  BY DEF Init, LateInv
<1>2. ASSUME TypeOK, LateInv, [Next]_vars
      PROVE  LateInv'
  <2> USE DEF TypeOK, LateInv, Arrive, Answer, Goto, policyVars, callVars, ghostVars
  <2>1. ASSUME NEW c \in Handlers, NEW r \in Requests, Preview(c, r) \/ Take(c, r)
        PROVE  LateInv'
    BY <1>2, <2>1 DEF Preview, Take
  <2>2. ASSUME NEW c \in Handlers, Mint(c) \/ Write(c)
        PROVE  LateInv'
    BY <1>2, <2>2 DEF Mint, Write
  <2>3. ASSUME NEW c \in Handlers, Authorize(c)
        PROVE  LateInv'
    BY <1>2, <2>3 DEF Authorize, Refused
  <2>4. ASSUME NEW c \in Handlers, LimitCheck(c) \/ LimitLoad(c) \/ LimitCount(c)
        PROVE  LateInv'
    BY <1>2, <2>4 DEF LimitCheck, LimitLoad, LimitCount
  <2>5. CASE Engage \/ Release \/ Tick \/ UNCHANGED vars
    BY <1>2, <2>5 DEF Engage, Release, Tick, vars
  <2>6. QED
    BY <1>2, <2>1, <2>2, <2>3, <2>4, <2>5 DEF Next
<1>3. LateInv => KillSwitchHolds
  BY DEF LateInv, KillSwitchHolds
<1>4. QED
  BY <1>1, <1>2, <1>3, TypeCorrect, PTL DEF Spec

\* An apply not marked preview has its slot when it stands before the write.
SlotInv ==
    /\ \A c \in Handlers :
          /\ pc[c] = "write" /\ ~req[c].preview => token[c].serial \in counted
          /\ pc[c] \in {"limit", "count", "store"} => ~req[c].preview
    /\ ApprovedWritesAreCounted

\* A write not marked preview consumed a slot of the limiter (policy.cpp:175).
THEOREM WritesAreCounted == Spec => []ApprovedWritesAreCounted
<1>1. Init => SlotInv
  BY DEF Init, SlotInv, ApprovedWritesAreCounted
<1>2. ASSUME TypeOK, SlotInv, [Next]_vars
      PROVE  SlotInv'
  <2> USE DEF TypeOK, SlotInv, ApprovedWritesAreCounted, Answer, Goto, policyVars,
              callVars, ghostVars
  <2>1. ASSUME NEW c \in Handlers, NEW r \in Requests, Preview(c, r) \/ Take(c, r)
        PROVE  SlotInv'
    BY <1>2, <2>1 DEF Preview, Take
  <2>2. ASSUME NEW c \in Handlers, Mint(c) \/ Authorize(c)
        PROVE  SlotInv'
    BY <1>2, <2>2 DEF Mint, Authorize
  <2>3. ASSUME NEW c \in Handlers, LimitCheck(c) \/ LimitLoad(c) \/ LimitCount(c)
        PROVE  SlotInv'
    BY <1>2, <2>3 DEF LimitCheck, LimitLoad, LimitCount
  <2>4. ASSUME NEW c \in Handlers, Write(c)
        PROVE  SlotInv'
    BY <1>2, <2>4 DEF Write
  <2>5. CASE Engage \/ Release \/ Tick \/ UNCHANGED vars
    BY <1>2, <2>5 DEF Engage, Release, Tick, vars
  <2>6. QED
    BY <1>2, <2>1, <2>2, <2>3, <2>4, <2>5 DEF Next
<1>3. SlotInv => ApprovedWritesAreCounted
  BY DEF SlotInv
<1>4. QED
  BY <1>1, <1>2, <1>3, TypeCorrect, PTL DEF Spec
=============================================================================
