------------------------------- MODULE Windows -------------------------------
(***************************************************************************)
(* planWindows: how the range of an export is cut into the windows that    *)
(* are fetched one by one.  Instants are nanoseconds.  A window includes   *)
(* both its ends, as VictoriaLogs takes them.                              *)
(***************************************************************************)
EXTENDS Naturals, Sequences

CONSTANTS Instant,    \* what the bounds of a job can be
          Hour,
          MaxWindows,
          MaxDuration \* the largest duration, to which Sub saturates

ASSUME WindowsAssumption ==
    /\ Instant \subseteq Nat
    /\ {Hour, MaxWindows, MaxDuration} \subseteq Nat \ {0}

VARIABLES
    known, \* both bounds of the job are known: parsed, or found by the probe
    start, end, step, cur, out,
    pc

vars == <<known, start, end, step, cur, out, pc>>
job == <<known, start, end>>

Window == [start : Nat, end : Nat]

-----------------------------------------------------------------------------
\* end.Sub(start)
Duration == IF end - start <= MaxDuration THEN end - start ELSE MaxDuration

WindowStep(d) ==
    CASE d <= 2 * Hour  -> 0
      [] d > 2 * Hour  /\ d <= 48 * Hour  -> Hour
      [] d > 48 * Hour /\ d <= 336 * Hour -> 6 * Hour
      [] OTHER -> 24 * Hour

Whole == ~known \/ end <= start \/ WindowStep(Duration) = 0

\* one window, with the bounds as the job has them
Single ==
    /\ pc = "plan" /\ Whole
    /\ pc' = "single"
    /\ UNCHANGED <<job, step, cur, out>>

Plan ==
    /\ pc = "plan" /\ ~Whole
    /\ step' = WindowStep(Duration) /\ cur' = start
    /\ pc' = "coarsen"
    /\ UNCHANGED <<job, out>>

\* Mutation: the step is doubled once, not as often as it takes
CoarsenOnce ==
    /\ pc = "coarsen"
    /\ IF Duration \div step > MaxWindows
         THEN step' = 2 * step
         ELSE UNCHANGED step
    /\ pc' = "cut"
    /\ UNCHANGED <<job, cur, out>>

Coarsen ==
    /\ pc = "coarsen"
    /\ IF Duration \div step > MaxWindows
         THEN step' = 2 * step /\ UNCHANGED pc
         ELSE pc' = "cut" /\ UNCHANGED step
    /\ UNCHANGED <<job, cur, out>>

\* Mutation: a window ends where the next one starts
CutShared ==
    /\ pc = "cut" /\ cur < end
    /\ out' = Append(out, [start |-> cur,
                           end |-> IF cur + step < end THEN cur + step ELSE end])
    /\ cur' = cur + step
    /\ UNCHANGED <<job, step, pc>>

Cut ==
    /\ pc = "cut" /\ cur < end
    /\ out' = Append(out, [start |-> cur,
                           end |-> IF cur + step < end THEN cur + step - 1 ELSE end])
    /\ cur' = cur + step
    /\ UNCHANGED <<job, step, pc>>

Finish ==
    /\ pc = "cut" /\ cur >= end
    /\ pc' = IF Len(out) <= 1 THEN "single" ELSE "windowed"
    /\ UNCHANGED <<job, step, cur, out>>

-----------------------------------------------------------------------------
Init ==
    /\ known \in BOOLEAN /\ start \in Instant /\ end \in Instant
    /\ step = 0 /\ cur = 0 /\ out = <<>>
    /\ pc = "plan"

Next == Single \/ Plan \/ Coarsen \/ Cut \/ Finish

Spec == Init /\ [][Next]_vars

\* Every variable has its type; the step is not zero once it is used.
TypeOK ==
    /\ known \in BOOLEAN /\ {start, end} \subseteq Instant
    /\ step \in Nat /\ cur \in Nat
    /\ out \in Seq(Window)
    /\ pc \in {"plan", "coarsen", "cut", "single", "windowed"}
    /\ pc \in {"coarsen", "cut"} => step > 0

Holds(w, t) == w.start <= t /\ t <= w.end

\* Every instant of the range is in exactly one window, and none outside is:
\* no log line is left out and none is fetched twice, whatever the step, at
\* the ends of windows and in a last one that is cut short.
WindowsTile ==
    pc = "windowed" =>
      /\ \A t \in start..end : \E i \in DOMAIN out : Holds(out[i], t)
      /\ \A i, j \in DOMAIN out : i < j => out[i].end < out[j].start
      /\ \A i \in DOMAIN out : start <= out[i].start /\ out[i].start <= out[i].end
                               /\ out[i].end <= end

\* Where a duration can measure the range, doubling the step keeps the number
\* of windows at the maximum, or one above it, as the division rounds down.
WindowsBounded == end <= start + MaxDuration => Len(out) <= MaxWindows + 1
=============================================================================
