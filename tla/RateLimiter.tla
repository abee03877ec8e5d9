----------------------------- MODULE RateLimiter -----------------------------
(***************************************************************************)
(* gtlibcpp::RateLimiter (src/policy.cpp) used by one thread, the way the  *)
(* agent's server thread uses it: allow(alias) consumes a slot of the      *)
(* alias's window or refuses.  The code takes no lock; Agent.tla has what  *)
(* happens when two threads call it.                                       *)
(***************************************************************************)
EXTENDS RateWindow, Sequences

CONSTANTS
    Aliases,  \* target aliases
    MaxTime   \* the clock stops here

ASSUME TimeAssumption == MaxTime \in Nat

VARIABLES
    now,      \* steady clock
    windows,  \* windows_
    log       \* not in the code: for each alias, the admissions so far, each
              \* with its time and the start of the window it was counted in

vars == <<now, windows, log>>

Admission == [at : Nat, window : Nat]

Init ==
    /\ now = 1
    /\ windows = [a \in Aliases |-> NoWindow]
    /\ log = [a \in Aliases |-> <<>>]

Tick ==
    /\ now < MaxTime
    /\ now' = now + 1
    /\ UNCHANGED <<windows, log>>

Admit(a) ==
    LET w == Rolled(windows[a], now) IN
    /\ HasSlot(w)
    /\ windows' = [windows EXCEPT ![a] = [w EXCEPT !.count = @ + 1]]
    /\ log' = [log EXCEPT ![a] = Append(@, [at |-> now, window |-> w.start])]
    /\ UNCHANGED now

\* rate_limited; a window that was over has been replaced all the same.
Refuse(a) ==
    LET w == Rolled(windows[a], now) IN
    /\ ~HasSlot(w)
    /\ windows' = [windows EXCEPT ![a] = w]
    /\ UNCHANGED <<now, log>>

Next == Tick \/ \E a \in Aliases : Admit(a) \/ Refuse(a)

Spec == Init /\ [][Next]_vars

-----------------------------------------------------------------------------

TypeOK ==
    /\ now \in Nat
    /\ windows \in [Aliases -> Windows]
    /\ log \in [Aliases -> Seq(Admission)]

\* No burst is longer than two windows' worth: of any 2 * MaxPerMinute + 1
\* admissions in a row the last comes at least a minute after the first.  This is
\* what a fixed window guarantees (policy.cpp:52-63), whatever the arrival times.
BurstIsBounded ==
    \A a \in Aliases : \A i \in DOMAIN log[a] :
        i + 2 * MaxPerMinute \in DOMAIN log[a] =>
            log[a][i + 2 * MaxPerMinute].at >= log[a][i].at + Minute

\* The window's count is the number of admissions counted in it: none is lost when
\* a window closes and none is charged to the next one (policy.cpp:54-55, 63).
CountsItsAdmissions ==
    \A a \in Aliases : windows[a].start > 0 =>
        \A i \in DOMAIN log[a] :
            log[a][i].window = windows[a].start <=> i > Len(log[a]) - windows[a].count
=============================================================================
