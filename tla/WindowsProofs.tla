---------------------------- MODULE WindowsProofs ----------------------------
(***************************************************************************)
(* What TLAPS proves about Windows: the windows of any range tile it,      *)
(* whatever the length of an hour, the maximum and the instants.           *)
(*                                                                         *)
(* While the loop cuts, its windows lie in order before cur and cover what *)
(* is before it; the last one, which may be shorter than the step, covers  *)
(* the rest (Before, Covered).                                             *)
(*                                                                         *)
(* Nor are there too many: cur has advanced by one step for each window,   *)
(* and the step fits into the range no more than MaxWindows times          *)
(* (Advanced).                                                             *)
(***************************************************************************)
EXTENDS Windows, TLAPS

Inside == \A i \in DOMAIN out :
              /\ start <= out[i].start /\ out[i].start <= out[i].end
              /\ out[i].end <= end
Ordered == \A i, j \in DOMAIN out : i < j => out[i].end < out[j].start
Before == cur < end => \A i \in DOMAIN out : out[i].end < cur
Covered == \A t \in start..end :
               t < cur \/ cur >= end => \E i \in DOMAIN out : Holds(out[i], t)

IInv ==
    /\ TypeOK
    /\ pc \in {"coarsen", "cut"} => start < end
    /\ pc \in {"plan", "coarsen"} => out = <<>>
    /\ pc = "coarsen" => cur = start
    /\ pc = "cut" => start <= cur
    /\ pc = "windowed" => cur >= end
    /\ pc \in {"cut", "windowed"} => Inside /\ Ordered /\ Before /\ Covered

\* What Append does to a sequence of windows.
LEMMA AppendWindow ==
  ASSUME NEW s \in Seq(Window), NEW w \in Window
  PROVE  /\ Append(s, w) \in Seq(Window)
         /\ DOMAIN Append(s, w) = DOMAIN s \cup {Len(s) + 1}
         /\ DOMAIN s = 1..Len(s) /\ Len(s) \in Nat
         /\ \A i \in DOMAIN s : Append(s, w)[i] = s[i]
         /\ Append(s, w)[Len(s) + 1] = w
  OBVIOUS

\* The step that a range of any length starts with.
LEMMA StepOfRange ==
  ASSUME NEW d \in Nat
  PROVE  WindowStep(d) \in Nat
<1>1. Hour \in Nat
  BY WindowsAssumption
<1> QED
  BY <1>1 DEF WindowStep

\* Cutting off one more window keeps order, coverage and bounds.
LEMMA CutKeeps == ASSUME IInv, Cut PROVE IInv'
<1>1. /\ pc = "cut" /\ pc' = "cut" /\ cur < end /\ cur' = cur + step
      /\ UNCHANGED <<known, start, end, step>>
  BY DEF Cut, job
<1>2. /\ {start, end, cur, step, cur'} \subseteq Nat /\ step > 0 /\ start <= cur
      /\ out \in Seq(Window) /\ Inside /\ Ordered /\ Before /\ Covered
  <2>1. start \in Nat /\ end \in Nat /\ cur \in Nat /\ step \in Nat /\ step > 0
    BY <1>1, WindowsAssumption DEF IInv, TypeOK
  <2>2. start <= cur /\ out \in Seq(Window) /\ Inside /\ Ordered /\ Before /\ Covered
    BY <1>1 DEF IInv, TypeOK
  <2> QED
    BY <1>1, <2>1, <2>2
<1> DEFINE last == IF cur + step < end THEN cur + step - 1 ELSE end
           w == [start |-> cur, end |-> last]
           n == Len(out) + 1
<1>3. last \in Nat /\ cur <= last /\ last <= end
      /\ (cur' < end => last = cur' - 1) /\ (cur' >= end => last = end)
  BY <1>1, <1>2
<1>4. w \in Window /\ w.start = cur /\ w.end = last
  BY <1>2, <1>3 DEF Window
<1>5. out' = Append(out, w)
  BY DEF Cut
<1> HIDE DEF last, w
<1>6. /\ out' \in Seq(Window) /\ DOMAIN out' = DOMAIN out \cup {n}
      /\ n \in Nat /\ \A i \in DOMAIN out : i \in Nat /\ i < n /\ out'[i] = out[i]
      /\ out'[n] = w
  BY <1>2, <1>4, <1>5, AppendWindow
<1> HIDE DEF n
<1>7. \A i \in DOMAIN out : out[i].start \in Nat /\ out[i].end \in Nat
  <2>1. \A i \in DOMAIN out : out[i] \in Window
    BY <1>2
  <2> QED
    BY <2>1 DEF Window
<1>8. Inside'
  BY <1>1, <1>2, <1>3, <1>4, <1>6 DEF Inside
<1>9. Ordered'
  BY <1>1, <1>2, <1>4, <1>6 DEF Ordered, Before
<1>10. Before'
  BY <1>1, <1>2, <1>3, <1>4, <1>6, <1>7 DEF Before
<1>11. Covered'
  <2> SUFFICES ASSUME NEW t \in start..end, t < cur' \/ cur' >= end
               PROVE  \E i \in DOMAIN out' : Holds(out'[i], t)
    BY <1>1 DEF Covered
  <2>1. CASE t < cur
    BY <1>2, <1>6, <2>1 DEF Covered
  <2>2. CASE cur <= t
    <3>1. t <= last
      BY <1>1, <1>2, <1>3, <2>2
    <3> QED
      BY <1>4, <1>6, <2>2, <3>1 DEF Holds
  <2> QED
    BY <1>2, <2>1, <2>2
<1>12. TypeOK'
  BY <1>1, <1>2, <1>6 DEF IInv, TypeOK
<1>13. start' < end' /\ start' <= cur'
  BY <1>1, <1>2 DEF IInv
<1> QED
  BY <1>1, <1>8, <1>9, <1>10, <1>11, <1>12, <1>13 DEF IInv

\* Every step keeps the invariant.
LEMMA Stepwise == IInv /\ [Next]_vars => IInv'
<1> SUFFICES ASSUME IInv, [Next]_vars PROVE IInv'
  OBVIOUS
<1>1. {start, end, MaxDuration} \subseteq Nat /\ TypeOK
  BY WindowsAssumption DEF IInv, TypeOK
<1>2. CASE Single
  BY <1>1, <1>2 DEF IInv, Single, job, TypeOK
<1>3. CASE Plan
  <2>1. Duration \in Nat
    <3>1. end > start
      BY <1>1, <1>3 DEF Plan, Whole
    <3> QED
      BY <1>1, <3>1 DEF Duration
  <2>2. start < end /\ step' \in Nat /\ step' > 0 /\ cur' = start
    BY <1>1, <1>3, <2>1, StepOfRange DEF Plan, Whole
  <2> QED
    BY <1>1, <1>3, <2>2 DEF IInv, Plan, job, TypeOK
<1>4. CASE Coarsen
  <2>1. step \in Nat /\ step > 0 /\ start < end /\ out = <<>> /\ cur = start
    BY <1>4 DEF IInv, TypeOK, Coarsen
  <2>2. step' \in Nat /\ step' > 0 /\ pc' \in {"coarsen", "cut"}
        /\ UNCHANGED <<known, start, end, cur, out>>
    BY <1>4, <2>1 DEF Coarsen, job
  <2>3. TypeOK'
    BY <1>1, <2>2 DEF TypeOK
  <2>4. Inside' /\ Ordered' /\ Before' /\ Covered'
    BY <1>1, <2>1, <2>2 DEF Inside, Ordered, Before, Covered
  <2> QED
    BY <1>1, <2>1, <2>2, <2>3, <2>4 DEF IInv
<1>5. CASE Cut
  BY <1>5, CutKeeps
<1>6. CASE Finish
  BY <1>1, <1>6
     DEF IInv, Finish, job, TypeOK, Inside, Ordered, Before, Covered
<1>7. CASE UNCHANGED vars
  BY <1>7 DEF IInv, vars, TypeOK, Inside, Ordered, Before, Covered
<1> QED
  BY <1>2, <1>3, <1>4, <1>5, <1>6, <1>7 DEF Next

\* The strengthened invariant, for every hour, maximum and set of instants.
THEOREM Invariance == Spec => []IInv
<1>1. Init => IInv
  BY DEF Init, IInv, TypeOK
<1> QED
  BY <1>1, Stepwise, PTL DEF Spec

\* Types, and a step that is never zero when it divides or advances.
THEOREM TypeCorrect == Spec => []TypeOK
<1>1. IInv => TypeOK
  BY DEF IInv
<1> QED
  BY <1>1, Invariance, PTL

\* The windows cover every instant of the range exactly once.
THEOREM RangeIsTiled == Spec => []WindowsTile
<1>1. IInv => WindowsTile
  BY DEF IInv, WindowsTile, Inside, Ordered, Covered
<1> QED
  BY <1>1, Invariance, PTL

-----------------------------------------------------------------------------
(* The number of windows *)

\* The next multiple of the step lies beyond what is divided.
LEMMA QuotientBelow ==
  ASSUME NEW d \in Nat, NEW s \in Nat, NEW m \in Nat, s > 0, d \div s <= m
  PROVE  d < (m + 1) * s
  BY SMTT(20)

\* A smaller multiple is of a smaller number.
LEMMA FewerMultiples ==
  ASSUME NEW n \in Nat, NEW m \in Nat, NEW s \in Nat, n * s < (m + 1) * s
  PROVE  n <= m
  BY SMTT(20)

\* One multiple more.
LEMMA NextMultiple ==
  ASSUME NEW n \in Nat, NEW s \in Nat
  PROVE  (n + 1) * s = n * s + s /\ n * s \in Nat
  BY SMTT(20)

Measured == end <= start + MaxDuration
Advanced == pc = "cut" => /\ cur = start + Len(out) * step
                          /\ Measured => (end - start) \div step <= MaxWindows
BoundInv == Advanced /\ WindowsBounded

\* One more window is cut only where the range has room for a step.
LEMMA CutCounts == ASSUME IInv, BoundInv, Cut PROVE BoundInv'
<1>1. /\ pc = "cut" /\ cur < end /\ cur' = cur + step
      /\ UNCHANGED <<start, end, step>>
  BY DEF Cut, job
<1>2. /\ start \in Nat /\ end \in Nat /\ step \in Nat /\ step > 0
      /\ Len(out) \in Nat /\ Len(out') = Len(out) + 1 /\ MaxWindows \in Nat
  <2>1. start \in Nat /\ end \in Nat /\ step \in Nat /\ step > 0 /\ out \in Seq(Window)
    BY <1>1, WindowsAssumption DEF IInv, TypeOK
  <2>2. \E w : out' = Append(out, w)
    BY DEF Cut
  <2>3. MaxWindows \in Nat
    BY WindowsAssumption
  <2> QED
    BY <2>1, <2>2, <2>3
<1> DEFINE n == Len(out)
<1>3. cur = start + n * step /\ (Measured => (end - start) \div step <= MaxWindows)
  BY <1>1 DEF BoundInv, Advanced
<1>4. (n + 1) * step = n * step + step /\ n * step \in Nat
  BY <1>2, NextMultiple
<1>5. cur' = start + Len(out') * step'
  BY <1>1, <1>2, <1>3, <1>4
<1>6. Measured => n <= MaxWindows
  <2> SUFFICES ASSUME Measured PROVE n <= MaxWindows
    OBVIOUS
  <2>1. end - start \in Nat /\ n * step < end - start
    BY <1>1, <1>2, <1>3, <1>4
  <2>2. end - start < (MaxWindows + 1) * step
    BY <1>2, <1>3, <2>1, QuotientBelow
  <2>3. (MaxWindows + 1) * step \in Nat
    BY <1>2
  <2>4. n * step < (MaxWindows + 1) * step
    BY <1>4, <2>1, <2>2, <2>3
  <2> QED
    BY <1>2, <2>4, FewerMultiples
<1>7. WindowsBounded'
  BY <1>1, <1>2, <1>6 DEF WindowsBounded, Measured
<1> QED
  BY <1>1, <1>3, <1>5, <1>7 DEF BoundInv, Advanced, Measured

\* Every step keeps the number of windows bounded.
LEMMA NextCounts == IInv /\ BoundInv /\ [Next]_vars => BoundInv'
<1> SUFFICES ASSUME IInv, BoundInv, [Next]_vars PROVE BoundInv'
  OBVIOUS
<1>1. CASE Cut
  BY <1>1, CutCounts
<1>2. CASE Single \/ Plan \/ Finish \/ UNCHANGED vars
  BY <1>2 DEF Single, Plan, Finish, vars, job, BoundInv, Advanced, WindowsBounded, Measured
<1>3. CASE Coarsen
  <2>1. /\ UNCHANGED <<start, end, cur, out>> /\ cur = start /\ out = <<>>
        /\ start \in Nat /\ end \in Nat /\ start < end
        /\ step \in Nat /\ step > 0 /\ MaxWindows \in Nat /\ MaxDuration \in Nat
    BY <1>3, WindowsAssumption DEF Coarsen, job, IInv, TypeOK
  <2>2. WindowsBounded'
    BY <2>1 DEF BoundInv, WindowsBounded
  <2>3. CASE Duration \div step > MaxWindows
    <3>1. pc' = "coarsen"
      BY <1>3, <2>3 DEF Coarsen
    <3> QED
      BY <2>2, <3>1 DEF BoundInv, Advanced
  <2>4. CASE ~(Duration \div step > MaxWindows)
    <3>1. step' = step
      BY <1>3, <2>4 DEF Coarsen
    <3>2. cur' = start' + Len(out') * step'
      BY <2>1, <3>1
    <3>3. Measured => (end - start) \div step <= MaxWindows
      <4>1. Measured => Duration = end - start
        BY <2>1 DEF Measured, Duration
      <4>2. end - start \in Nat
        BY <2>1
      <4>3. (end - start) \div step \in Nat
        BY <2>1, <4>2
      <4> QED
        BY <2>1, <2>4, <4>1, <4>3
    <3> QED
      BY <2>1, <2>2, <3>1, <3>2, <3>3 DEF BoundInv, Advanced, Measured
  <2> QED
    BY <2>3, <2>4
<1> QED
  BY <1>1, <1>2, <1>3 DEF Next

\* However often the step is doubled, there are at most MaxWindows windows and
\* one, for any hour, maximum and range that a duration can measure.
THEOREM FewWindows == Spec => []WindowsBounded
<1>1. Init => BoundInv
  BY WindowsAssumption DEF Init, BoundInv, Advanced, WindowsBounded
<1>2. BoundInv => WindowsBounded
  BY DEF BoundInv
<1>3. Init => IInv
  BY DEF Init, IInv, TypeOK
<1> QED
  BY <1>1, <1>2, <1>3, Stepwise, NextCounts, PTL DEF Spec
=============================================================================
