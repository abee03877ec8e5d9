-------------------------------- MODULE Agent --------------------------------
(***************************************************************************)
(* gtlibcpp::AgentService (src/agent.cpp) and the Policy it asks           *)
(* (src/policy.cpp): preview mints an approval, apply spends it on one     *)
(* write, the kill switch stops both.                                      *)
(*                                                                         *)
(* Several threads may be inside handle(): the server thread and those     *)
(* that call it directly.  pending_ is guarded by pending_mutex_ and the   *)
(* switch is atomic; the limiter is neither: its count is compared in one  *)
(* step, read to be incremented in a second and stored in a third, so that *)
(* no bound on it survives.  Time is the steady clock both files read.     *)
(*                                                                         *)
(* freeze, unfreeze and restore hand over to the FreezeManager, which has  *)
(* a module of its own; inspect, read, resolve, verify, status and parse   *)
(* change nothing here.                                                    *)
(***************************************************************************)
EXTENDS RateWindow

CONSTANTS
    Handlers,      \* threads that call handle()
    RequestIds,
    Aliases,       \* target aliases a request may name
    Granted,       \* those with a manifest that matches the session's identity
    Writable,      \* those whose manifest has allow_write
    Lifetime,      \* 5 minutes, in ticks
    MaxTime,       \* the clock stops here
    MaxApprovals,  \* no preview once this many approvals have been minted
    None           \* no pending approval, no request

ASSUME AgentAssumption ==
    /\ Granted \subseteq Aliases /\ Writable \subseteq Granted
    /\ Lifetime \in Nat /\ MaxTime \in Nat /\ MaxApprovals \in Nat

VARIABLES
    now,        \* steady clock
    engaged,    \* kill_switch_
    pending,    \* pending_: the approval under each request id
    windows,    \* RateLimiter::windows_
    \* --- each thread's handle() in progress ---
    pc, req, token, seen,
    \* --- not in the code, for the properties ---
    minted,     \* approvals minted so far; an approval carries its number
    counted,    \* approvals a rate-limiter slot was consumed for
    mutations,  \* writes that reached the target, by approval
    late        \* requests that came in under the switch still engaged

policyVars == <<engaged, windows>>
callVars   == <<pc, req, token, seen>>
ghostVars  == <<minted, counted, mutations, late>>
vars       == <<now, policyVars, pending, callVars, ghostVars>>

\* MutationRequest.  write: the capability asked for is "write"; valid: address,
\* size and expected_current_hash are in order.
Requests ==
    [id : RequestIds, alias : Aliases, write : BOOLEAN, valid : BOOLEAN,
     preview : BOOLEAN, approved : BOOLEAN]

Approvals == [alias : Aliases, issued : Nat, serial : Nat]
Mutations == [serial : Nat, alias : Aliases, preview : BOOLEAN]

Pcs == {"idle", "mint", "authorize", "limit", "count", "store", "write"}

\* An apply past the lookup: it has its approval in hand.
InHand(c) == pc[c] \in {"authorize", "limit", "count", "store", "write"}

Init ==
    /\ now = 1
    /\ engaged = FALSE
    /\ pending = [id \in RequestIds |-> None]
    /\ windows = [a \in Aliases |-> NoWindow]
    /\ pc = [c \in Handlers |-> "idle"]
    /\ req = [c \in Handlers |-> None]
    /\ token = [c \in Handlers |-> None]
    /\ seen = [c \in Handlers |-> 0]
    /\ minted = 0 /\ counted = {} /\ mutations = {}
    /\ late = [c \in Handlers |-> FALSE]

-----------------------------------------------------------------------------

\* The part of authorize_with_token a preview goes through too.
Refused(r) ==
    \/ engaged
    \/ r.alias \notin Granted
    \/ r.write /\ r.alias \notin Writable
    \/ ~r.valid

Goto(c, l) ==
    /\ pc' = [pc EXCEPT ![c] = l]
    /\ UNCHANGED <<req, token>>

\* Any answer, success or error: the request is over.
Answer(c) ==
    /\ pc' = [pc EXCEPT ![c] = "idle"]
    /\ req' = [req EXCEPT ![c] = None]
    /\ token' = [token EXCEPT ![c] = None]

Arrive(c) == late' = [late EXCEPT ![c] = engaged]

-----------------------------------------------------------------------------
(* preview *)

Preview(c, r) ==
    /\ pc[c] = "idle"
    /\ minted < MaxApprovals
    /\ IF Refused(r)
       THEN UNCHANGED <<pc, req>>
       ELSE /\ pc' = [pc EXCEPT ![c] = "mint"]
            /\ req' = [req EXCEPT ![c] = [r EXCEPT !.preview = TRUE]]
    /\ Arrive(c)
    /\ UNCHANGED <<now, policyVars, pending, token, seen, minted, counted, mutations>>

\* An approval already pending under the id is replaced.
Mint(c) ==
    /\ pc[c] = "mint"
    /\ minted' = minted + 1
    /\ pending' = [pending EXCEPT ![req[c].id] =
          [alias |-> req[c].alias, issued |-> now, serial |-> minted + 1]]
    /\ Answer(c)
    /\ UNCHANGED <<now, policyVars, seen, counted, mutations, late>>

-----------------------------------------------------------------------------
(* apply *)

\* Mutant: what find() returned is used without a look at whether it found anything.
Take_Unchecked(c, r) ==
    /\ pc[c] = "idle"
    /\ pc' = [pc EXCEPT ![c] = "authorize"]
    /\ req' = [req EXCEPT ![c] = r]
    /\ token' = [token EXCEPT ![c] = pending[r.id]]
    /\ pending' = [pending EXCEPT ![r.id] = None]
    /\ Arrive(c)
    /\ UNCHANGED <<now, policyVars, seen, minted, counted, mutations>>

\* Mutant: the approval is read and left where it is.
Take_Keeps(c, r) ==
    /\ pc[c] = "idle"
    /\ IF pending[r.id] = None
       THEN UNCHANGED <<pc, req, token, pending>>
       ELSE /\ pc' = [pc EXCEPT ![c] = "authorize"]
            /\ req' = [req EXCEPT ![c] = r]
            /\ token' = [token EXCEPT ![c] = pending[r.id]]
            /\ UNCHANGED pending
    /\ Arrive(c)
    /\ UNCHANGED <<now, policyVars, seen, minted, counted, mutations>>

\* Under the lock: look the approval up and erase it, whatever becomes of it.
Take(c, r) ==
    /\ pc[c] = "idle"
    /\ IF pending[r.id] = None
       THEN UNCHANGED <<pc, req, token, pending>>
       ELSE /\ pc' = [pc EXCEPT ![c] = "authorize"]
            /\ req' = [req EXCEPT ![c] = r]
            /\ token' = [token EXCEPT ![c] = pending[r.id]]
            /\ pending' = [pending EXCEPT ![r.id] = None]
    /\ Arrive(c)
    /\ UNCHANGED <<now, policyVars, seen, minted, counted, mutations>>

Approved(c) ==
    /\ req[c].approved
    /\ token[c].alias = req[c].alias
    /\ now <= token[c].issued + Lifetime

\* Mutant: an approval in hand is taken for the whole of the policy's word.
Authorize_SkipsPolicy(c) ==
    /\ pc[c] = "authorize"
    /\ \/ ~Approved(c) /\ Answer(c)
       \/ Approved(c) /\ Goto(c, "limit")
    /\ UNCHANGED <<now, policyVars, pending, seen, ghostVars>>

\* Mutant: an approved request does not go through the limiter.
Authorize_SkipsLimiter(c) ==
    /\ pc[c] = "authorize"
    /\ \/ Refused(req[c]) /\ Answer(c)
       \/ ~Refused(req[c]) /\ Goto(c, "write")
    /\ UNCHANGED <<now, policyVars, pending, seen, ghostVars>>

\* A request that says preview is let through here, before approval and rate.
Authorize(c) ==
    /\ pc[c] = "authorize"
    /\ \/ Refused(req[c]) /\ Answer(c)
       \/ ~Refused(req[c]) /\ req[c].preview /\ Goto(c, "write")
       \/ ~Refused(req[c]) /\ ~req[c].preview /\ ~Approved(c) /\ Answer(c)
       \/ ~Refused(req[c]) /\ ~req[c].preview /\ Approved(c) /\ Goto(c, "limit")
    /\ UNCHANGED <<now, policyVars, pending, seen, ghostVars>>

\* RateLimiter::allow up to the comparison.
LimitCheck(c) ==
    LET w == Rolled(windows[req[c].alias], now) IN
    /\ pc[c] = "limit"
    /\ windows' = [windows EXCEPT ![req[c].alias] = w]
    /\ \/ HasSlot(w) /\ seen' = [seen EXCEPT ![c] = w.count] /\ Goto(c, "count")
       \/ ~HasSlot(w) /\ UNCHANGED seen /\ Answer(c)
    /\ UNCHANGED <<now, engaged, pending, ghostVars>>

\* The read of ++window.count: the build may read the count once more, whatever it
\* has become since, or keep the value it compared.
LimitLoad(c) ==
    /\ pc[c] = "count"
    /\ \E n \in {seen[c], windows[req[c].alias].count} : seen' = [seen EXCEPT ![c] = n]
    /\ Goto(c, "store")
    /\ UNCHANGED <<now, policyVars, pending, ghostVars>>

\* The write of ++window.count, in whatever window the alias has by now.
LimitCount(c) ==
    /\ pc[c] = "store"
    /\ windows' = [windows EXCEPT ![req[c].alias].count = seen[c] + 1]
    /\ counted' = counted \cup {token[c].serial}
    /\ seen' = [seen EXCEPT ![c] = 0]
    /\ Goto(c, "write")
    /\ UNCHANGED <<now, engaged, pending, minted, mutations, late>>

\* write_bytes reaches the target, in full or in part; or it fails, or value_hex
\* is not a byte string and nothing is written.
Write(c) ==
    /\ pc[c] = "write"
    /\ \/ mutations' = mutations \cup {[serial |-> token[c].serial,
                                        alias |-> req[c].alias,
                                        preview |-> req[c].preview]}
       \/ UNCHANGED mutations
    /\ Answer(c)
    /\ UNCHANGED <<now, policyVars, pending, seen, minted, counted, late>>

-----------------------------------------------------------------------------
(* kill_switch, from any thread that may call handle() *)

Engage ==
    /\ \E c \in Handlers : pc[c] = "idle"
    /\ engaged' = TRUE
    /\ UNCHANGED <<now, windows, pending, callVars, ghostVars>>

Release ==
    /\ \E c \in Handlers : pc[c] = "idle"
    /\ engaged' = FALSE
    /\ late' = [c \in Handlers |-> FALSE]
    /\ UNCHANGED <<now, windows, pending, callVars, minted, counted, mutations>>

Tick ==
    /\ now < MaxTime
    /\ now' = now + 1
    /\ UNCHANGED <<policyVars, pending, callVars, ghostVars>>

Next ==
    \/ \E c \in Handlers :
          \/ \E r \in Requests : Preview(c, r) \/ Take(c, r)
          \/ Mint(c) \/ Authorize(c) \/ LimitCheck(c) \/ LimitLoad(c) \/ LimitCount(c)
          \/ Write(c)
    \/ Engage \/ Release \/ Tick

Spec == Init /\ [][Next]_vars

-----------------------------------------------------------------------------
(* Properties *)

\* A thread has a request while it is inside handle(), and an approval from the
\* lookup of apply to its answer.
Carries(c) ==
    /\ pc[c] # "idle" => req[c] \in Requests
    /\ InHand(c) => token[c] \in Approvals

\* What the fields hold, and what each thread carries.  A window's count is not
\* bounded by the limit: increments that race may take it past that.
TypeOK ==
    /\ now \in Nat
    /\ engaged \in BOOLEAN
    /\ pending \in [RequestIds -> Approvals \cup {None}]
    /\ windows \in [Aliases -> [start : Nat, count : Nat]]
    /\ pc \in [Handlers -> Pcs]
    /\ req \in [Handlers -> Requests \cup {None}]
    /\ token \in [Handlers -> Approvals \cup {None}]
    /\ \A c \in Handlers : Carries(c)
    /\ seen \in [Handlers -> Nat]
    /\ minted \in Nat
    /\ counted \subseteq Nat
    /\ mutations \subseteq Mutations
    /\ late \in [Handlers -> BOOLEAN]

\* An approval buys one write.  While an apply holds it no other apply does, it is
\* no longer pending, and nothing has been written on it (agent.cpp:485-495).
ApprovalIsSpentOnce ==
    \A c \in Handlers : InHand(c) =>
        /\ \A d \in Handlers \ {c} : InHand(d) => token[d].serial # token[c].serial
        /\ \A id \in RequestIds :
              pending[id] # None => pending[id].serial # token[c].serial
        /\ \A m \in mutations : m.serial # token[c].serial

\* No request that came in under the switch gets as far as a write before somebody
\* releases it, whatever was approved before (policy.cpp:110, agent.cpp:671).
KillSwitchHolds == \A c \in Handlers : late[c] => pc[c] # "write"

\* A write that is not marked preview consumed a slot of the limiter first, on the
\* approval it was written on (policy.cpp:175).
ApprovedWritesAreCounted ==
    \A m \in mutations : ~m.preview => m.serial \in counted

\* Every mutation consumed a slot: docs/POLICY.md:135 says so of each one.
EveryMutationIsCounted ==
    \A m \in mutations : m.serial \in counted
=============================================================================
