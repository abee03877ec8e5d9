----------------------------- MODULE RateWindow -----------------------------
(***************************************************************************)
(* One window of gtlibcpp::RateLimiter (src/policy.cpp): when it opened,   *)
(* and how many mutations it has let through.  Times are ticks of the      *)
(* steady clock that policy.cpp calls now_ms.                              *)
(***************************************************************************)
EXTENDS Naturals

CONSTANTS
    MaxPerMinute,  \* max_per_minute_
    Minute         \* 60'000 ms, in ticks

ASSUME RateAssumption == MaxPerMinute \in Nat /\ Minute \in Nat \ {0}

Windows == [start : Nat, count : 0..MaxPerMinute]

\* operator[] of an alias never seen: window_start_ms = 0 means "never opened".
NoWindow == [start |-> 0, count |-> 0]

\* Mutant: the count is reset but the window still opens where the old one did.
Rolled_KeepsStart(w, t) ==
    IF w.start = 0 THEN [start |-> t, count |-> 0]
    ELSE IF t - w.start >= Minute THEN [w EXCEPT !.count = 0] ELSE w

\* Mutant: a new window starts with the old one's count.
Rolled_KeepsCount(w, t) ==
    IF w.start = 0 \/ t - w.start >= Minute THEN [w EXCEPT !.start = t] ELSE w

\* The window a request at time t falls in: a new one once the old is over.
Rolled(w, t) ==
    IF w.start = 0 \/ t - w.start >= Minute THEN [start |-> t, count |-> 0] ELSE w

\* Mutant: one too many.
HasSlot_OffByOne(w) == w.count <= MaxPerMinute

HasSlot(w) == w.count < MaxPerMinute
=============================================================================
