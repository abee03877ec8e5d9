----------------------------- MODULE RateProofs -----------------------------
(***************************************************************************)
(* Theorems about RateLimiter, for every MaxPerMinute and every minute.    *)
(*                                                                         *)
(* Windows of one alias never overlap: each opens at least a minute after  *)
(* the one before it.  So MaxPerMinute admissions apart means a later      *)
(* window, and twice that means a window in between, which lasts a minute. *)
(***************************************************************************)
EXTENDS RateLimiter, TLAPS

\* Windows open in order and apart, and each holds at most MaxPerMinute.
Apart(l) ==
    /\ \A i \in DOMAIN l : l[i].window <= l[i].at /\ l[i].at < l[i].window + Minute
    /\ \A i \in DOMAIN l :
          i + MaxPerMinute \in DOMAIN l =>
              l[i + MaxPerMinute].window >= l[i].window + Minute

\* The window w at time t is the last one of the log l, or opened after it.
IsCurrent(w, l, t) ==
    /\ w.start <= t
    /\ w.start = 0 => Len(l) = 0
    /\ w.count <= Len(l)
    /\ w.start > 0 =>
          \A i \in DOMAIN l :
              IF i > Len(l) - w.count THEN l[i].window = w.start
                                      ELSE w.start >= l[i].window + Minute

RInv ==
    /\ TypeOK
    /\ now > 0
    /\ \A a \in Aliases : Apart(log[a]) /\ IsCurrent(windows[a], log[a], now)

LEMMA Element ==
    ASSUME NEW l \in Seq(Admission), NEW i \in DOMAIN l
    PROVE  l[i] \in Admission /\ l[i].at \in Nat /\ l[i].window \in Nat
<1>1. l[i] \in Admission
  OBVIOUS
<1>2. QED
  BY <1>1 DEF Admission

LEMMA RolledType ==
    ASSUME NEW w \in Windows, NEW t \in Nat
    PROVE  Rolled(w, t) \in Windows
  BY RateAssumption DEF Rolled, Windows

\* Looking for a slot keeps the window current, and leaves one that is open.
LEMMA RolledIsCurrent ==
    ASSUME NEW w \in Windows, NEW l \in Seq(Admission), NEW t \in Nat, t > 0,
           IsCurrent(w, l, t)
    PROVE  /\ IsCurrent(Rolled(w, t), l, t)
           /\ Rolled(w, t).start > 0 /\ t < Rolled(w, t).start + Minute
<1> USE RateAssumption DEF Windows, Admission, IsCurrent
<1>1. CASE w.start = 0
  BY <1>1 DEF Rolled
<1>2. CASE w.start > 0 /\ t - w.start < Minute
  <2>1. Rolled(w, t) = w
    BY <1>2 DEF Rolled
  <2>2. w.start \in Nat /\ t < w.start + Minute
    BY <1>2
  <2>3. QED
    BY <1>2, <2>1, <2>2
<1>3. CASE w.start > 0 /\ t - w.start >= Minute
  <2>1. Rolled(w, t) = [start |-> t, count |-> 0]
    BY <1>3 DEF Rolled
  <2>2. ASSUME NEW i \in DOMAIN l
        PROVE  t >= l[i].window + Minute
    <3>1. w.start \in Nat /\ Minute \in Nat /\ t - w.start >= Minute
      BY <1>3
    <3>2. l[i].window \in Nat
      BY <2>2, Element
    <3>3. l[i].window <= w.start
      BY <1>3, <2>2, <3>1, <3>2
    <3>4. QED
      BY ONLY <3>1, <3>2, <3>3, t \in Nat
  <2>3. QED
    BY <2>1, <2>2
<1>4. QED
  BY <1>1, <1>2, <1>3

\* An admission is appended to the current window.
LEMMA AdmissionKeeps ==
    ASSUME NEW w \in Windows, NEW l \in Seq(Admission), NEW t \in Nat,
           Apart(l), IsCurrent(w, l, t), w.start > 0, t < w.start + Minute, HasSlot(w),
           NEW e, e = [at |-> t, window |-> w.start],
           NEW v, v = [w EXCEPT !.count = @ + 1]
    PROVE  /\ v \in Windows /\ Append(l, e) \in Seq(Admission)
           /\ Apart(Append(l, e)) /\ IsCurrent(v, Append(l, e), t)
<1> USE RateAssumption
<1> DEFINE m == Append(l, e)
<1>1. v \in Windows /\ e \in Admission
  <2>1. w.count + 1 \in 0..MaxPerMinute /\ w.start \in Nat
    BY DEF Windows, HasSlot
  <2>2. v = [start |-> w.start, count |-> w.count + 1]
    BY DEF Windows
  <2>3. QED
    BY <2>1, <2>2 DEF Windows, Admission
<1>2. /\ m \in Seq(Admission) /\ Len(l) \in Nat
      /\ Len(m) = Len(l) + 1 /\ m[Len(l) + 1] = e
  BY <1>1
<1>3. \A i \in DOMAIN l : i \in DOMAIN m /\ m[i] = l[i]
  BY <1>2
<1>4. \A i \in DOMAIN m : i \in DOMAIN l \/ i = Len(l) + 1
  BY <1>2
<1> HIDE DEF m
<1>5. ASSUME NEW i \in DOMAIN m, i + MaxPerMinute \in DOMAIN m
      PROVE  m[i + MaxPerMinute].window >= m[i].window + Minute
  <2>1. CASE i + MaxPerMinute \in DOMAIN l
    <3>1. i \in DOMAIN l
      BY <2>1, <1>2
    <3>2. QED
      BY <2>1, <3>1, <1>3 DEF Apart
  <2>2. CASE i + MaxPerMinute = Len(l) + 1
    <3>1. MaxPerMinute > 0 /\ w.count < MaxPerMinute /\ w.count \in Nat
      BY DEF HasSlot, Windows
    <3>2. i \in DOMAIN l /\ i <= Len(l) - w.count
      BY <2>2, <3>1, <1>2
    <3>3. w.start >= l[i].window + Minute
      BY <3>1, <3>2 DEF IsCurrent
    <3>4. m[i] = l[i] /\ m[i + MaxPerMinute].window = w.start
      BY <2>2, <3>2, <1>2, <1>3
    <3>5. w.start \in Nat /\ l[i].window \in Nat
      BY <3>2, Element DEF Windows
    <3>6. QED
      BY <3>3, <3>4, <3>5
  <2>3. i + MaxPerMinute \in DOMAIN l \/ i + MaxPerMinute = Len(l) + 1
    BY <1>4, <1>5
  <2>4. QED
    BY <2>1, <2>2, <2>3
<1>6. \A i \in DOMAIN m : m[i].window <= m[i].at /\ m[i].at < m[i].window + Minute
  BY <1>2, <1>3, <1>4 DEF Apart, IsCurrent, Windows
<1>7. ASSUME NEW i \in DOMAIN m
      PROVE  IF i > Len(m) - v.count THEN m[i].window = v.start
                                     ELSE v.start >= m[i].window + Minute
  <2>1. v.start = w.start /\ v.count = w.count + 1 /\ w.count \in Nat
    BY DEF Windows
  <2>2. CASE i = Len(l) + 1
    BY <2>1, <2>2, <1>2
  <2>3. CASE i \in DOMAIN l
    <3>1. IF i > Len(l) - w.count THEN l[i].window = w.start
                                  ELSE w.start >= l[i].window + Minute
      BY <2>3 DEF IsCurrent
    <3>2. Len(m) - v.count = Len(l) - w.count
      BY ONLY <2>1, <1>2
    <3>3. QED
      BY <2>1, <2>3, <3>1, <3>2, <1>3
  <2>4. QED
    BY <2>2, <2>3, <1>4
<1>8. v.start = w.start /\ v.count <= Len(m)
  BY <1>2 DEF IsCurrent, Windows
<1>9. IsCurrent(v, m, t)
  BY <1>7, <1>8 DEF IsCurrent
<1>10. Apart(m)
  BY <1>5, <1>6 DEF Apart
<1>11. QED
  BY <1>1, <1>2, <1>9, <1>10 DEF m

LEMMA StartsWell ==
    ASSUME Init
    PROVE  RInv
<1>1. NoWindow \in Windows /\ NoWindow.start = 0 /\ NoWindow.count = 0
  BY RateAssumption DEF NoWindow, Windows
<1>2. TypeOK
  BY <1>1 DEF Init, TypeOK
<1>3. \A a \in Aliases : Apart(log[a]) /\ IsCurrent(windows[a], log[a], now)
  BY <1>1 DEF Init, Apart, IsCurrent
<1>4. QED
  BY <1>2, <1>3 DEF Init, RInv

LEMMA TickKeeps ==
    ASSUME RInv, Tick
    PROVE  RInv'
<1> USE DEF Tick, RInv, TypeOK
<1>1. ASSUME NEW a \in Aliases
      PROVE  IsCurrent(windows[a], log[a], now')
  BY <1>1 DEF IsCurrent, Windows
<1>2. QED
  BY <1>1

LEMMA AdmitKeeps ==
    ASSUME RInv, NEW a \in Aliases, Admit(a)
    PROVE  RInv'
<1> DEFINE w == Rolled(windows[a], now)
           v == [w EXCEPT !.count = @ + 1]
           e == [at |-> now, window |-> w.start]
<1>1. /\ windows[a] \in Windows /\ log[a] \in Seq(Admission) /\ now \in Nat /\ now > 0
      /\ Apart(log[a]) /\ IsCurrent(windows[a], log[a], now)
  BY DEF RInv, TypeOK
<1>2. /\ HasSlot(w) /\ windows' = [windows EXCEPT ![a] = v]
      /\ log' = [log EXCEPT ![a] = Append(log[a], e)] /\ now' = now
  BY DEF Admit
<1>3. w \in Windows
  BY <1>1, RolledType
<1>4. IsCurrent(w, log[a], now) /\ w.start > 0 /\ now < w.start + Minute
  BY <1>1, RolledIsCurrent
<1> HIDE DEF w
<1>5. /\ v \in Windows /\ Append(log[a], e) \in Seq(Admission)
      /\ Apart(Append(log[a], e)) /\ IsCurrent(v, Append(log[a], e), now)
  BY <1>1, <1>2, <1>3, <1>4, AdmissionKeeps
<1> HIDE DEF v, e
<1>6. QED
  BY <1>2, <1>5 DEF RInv, TypeOK

LEMMA RefuseKeeps ==
    ASSUME RInv, NEW a \in Aliases, Refuse(a)
    PROVE  RInv'
<1> DEFINE w == Rolled(windows[a], now)
<1>1. w \in Windows /\ IsCurrent(w, log[a], now)
  BY RolledType, RolledIsCurrent DEF RInv, TypeOK
<1>2. windows' = [windows EXCEPT ![a] = w] /\ log' = log /\ now' = now
  BY DEF Refuse
<1> HIDE DEF w
<1>3. QED
  BY <1>1, <1>2 DEF RInv, TypeOK

LEMMA Limiter == Spec => []RInv
<1>1. ASSUME RInv, [Next]_vars
      PROVE  RInv'
  <2>1. CASE UNCHANGED vars
    BY <1>1, <2>1 DEF vars, RInv, TypeOK
  <2>2. QED
    BY <1>1, <2>1, TickKeeps, AdmitKeeps, RefuseKeeps DEF Next
<1>2. QED
  BY <1>1, StartsWell, PTL DEF Spec

\* The windows keep their types: no window ever counts more than MaxPerMinute
\* (policy.cpp:57-63).
THEOREM TypeCorrect == Spec => []TypeOK
<1>1. RInv => TypeOK
  BY DEF RInv
<1>2. QED
  BY <1>1, Limiter, PTL

\* Whatever the arrival times, of any 2 * MaxPerMinute + 1 admissions of an alias
\* in a row the last comes a minute or more after the first (policy.cpp:49-65).
THEOREM BurstsAreBounded == Spec => []BurstIsBounded
<1>1. ASSUME RInv, NEW a \in Aliases, NEW i \in DOMAIN log[a],
             i + 2 * MaxPerMinute \in DOMAIN log[a]
      PROVE  log[a][i + 2 * MaxPerMinute].at >= log[a][i].at + Minute
  <2> DEFINE l == log[a]
             j == i + MaxPerMinute
             k == j + MaxPerMinute
  <2>1. l \in Seq(Admission) /\ Apart(l) /\ MaxPerMinute \in Nat /\ Minute \in Nat
    BY <1>1, RateAssumption DEF RInv, TypeOK
  <2>2. k = i + 2 * MaxPerMinute /\ i \in DOMAIN l /\ j \in DOMAIN l /\ k \in DOMAIN l
    BY <1>1, <2>1
  <2>3. l[j].window >= l[i].window + Minute
    BY <2>1, <2>2 DEF Apart
  <2>4. l[k].window >= l[j].window + Minute
    BY <2>1, <2>2 DEF Apart
  <2>5. l[i].at < l[i].window + Minute /\ l[k].window <= l[k].at
    BY <2>1, <2>2 DEF Apart
  <2>6. l[k].at >= l[i].at + Minute
    <3>1. PICK first \in Nat, opened \in Nat, next \in Nat, third \in Nat, last \in Nat :
             /\ first = l[i].at /\ opened = l[i].window /\ next = l[j].window
             /\ third = l[k].window /\ last = l[k].at
      BY <2>1, <2>2, Element
    <3>2. /\ next >= opened + Minute /\ third >= next + Minute
          /\ first < opened + Minute /\ third <= last
      BY <2>3, <2>4, <2>5, <3>1
    <3>3. last >= first + Minute
      BY ONLY <2>1, <3>2, first \in Nat, opened \in Nat, next \in Nat, third \in Nat,
              last \in Nat
    <3>4. QED
      BY <3>1, <3>3
  <2>7. QED
    BY <2>2, <2>6
<1>2. RInv => BurstIsBounded
  BY <1>1 DEF BurstIsBounded
<1>3. QED
  BY <1>2, Limiter, PTL

\* A window is charged with exactly the admissions made while it was open
\* (policy.cpp:52-55 and 63).
THEOREM CountsAreExact == Spec => []CountsItsAdmissions
<1>1. ASSUME RInv
      PROVE  CountsItsAdmissions
  BY <1>1, RateAssumption
     DEF CountsItsAdmissions, RInv, IsCurrent, TypeOK, Windows, Admission
<1>2. QED
  BY <1>1, Limiter, PTL
=============================================================================
