------------------------------ MODULE Schedules ------------------------------
(***************************************************************************)
(* The schedules in the store and the scheduler's ticks.  A tick looks at  *)
(* a copy of the schedules and writes to the store when an export has been *)
(* started, while requests (Requests) change and delete schedules.         *)
(*                                                                         *)
(* What runs is left out: last_error, last_job_id and the manual run,      *)
(* which writes only these; the start of an export, whether it fails or    *)
(* not, leads to the same plan.                                            *)
(***************************************************************************)
EXTENDS Integers, FiniteSets

CONSTANTS MaxItems, \* bound on the ids: of schedules, and of other records
          MaxTime,  \* bound on the clock
          Cron,     \* the cron expressions
          NextMatch \* what Cron.Next answers for each of them at each time

Nil == -1  \* no NextRunAt
Zero == 0  \* Go's zero time: before every other

\* The schedules at first are two.  The answer is a later time, or the zero time
\* when nothing matches in the five years after the time it is asked for: the
\* same expression may have a match at one time and none left at another.
ASSUME SchedulesAssumption ==
    /\ MaxItems \in Nat /\ MaxItems > 1
    /\ MaxTime \in Nat /\ MaxTime > 0
    /\ Cron # {}
    /\ NextMatch \in [Cron -> [1..MaxTime -> Zero..(MaxTime + 1)]]
    /\ \A c \in Cron, t \in 1..MaxTime : NextMatch[c][t] = Zero \/ NextMatch[c][t] > t

Item == 1..MaxItems

Plan == [there : BOOLEAN, enabled : BOOLEAN, cron : Cron, ds : 0..MaxItems,
         next : Nil..(MaxTime + 1)]
NoPlan == [there |-> FALSE, enabled |-> FALSE, cron |-> CHOOSE c \in Cron : TRUE,
           ds |-> 0, next |-> Nil]

VARIABLES
    now,
    plans,  \* Store.schedules
    due,    \* the copies the tick has still to run: [id, plan, at]
    torn,   \* history: written while another one held a copy to write back
    ranFor  \* history: the last planned time, but for the zero time, that a
            \* tick ran the schedule for

scheduler == <<now, plans, due, torn, ranFor>>

\* Cron.Next of a parsed expression
NextRun(cron, t) == NextMatch[cron][t]

Due(p, t) == p.there /\ p.enabled /\ p.next # Nil /\ p.next <= t

\* refreshNextRuns, of schedules that have no NextRunAt
Unplanned == {i \in Item : plans[i].there /\ plans[i].enabled /\ plans[i].next = Nil}
Refreshed == [i \in Item |->
                IF i \in Unplanned
                  THEN [plans[i] EXCEPT !.next = NextRun(plans[i].cron, now)]
                  ELSE plans[i]]

\* Mutation: the first schedule that is not due ends the tick
TickEnds ==
    /\ due = {}
    /\ \A i \in Item : plans[i].there => Due(plans[i], now)
    /\ due' = {[id |-> i, plan |-> plans[i], at |-> now] :
                 i \in {j \in Item : Due(plans[j], now)}}
    /\ due' # {}
    /\ UNCHANGED <<now, plans, torn, ranFor>>

\* tick up to its first run; the others leave everything as it is
Tick ==
    /\ due = {}
    /\ due' = {[id |-> i, plan |-> plans[i], at |-> now] :
                 i \in {j \in Item : Due(plans[j], now)}}
    /\ due' # {} \/ Unplanned # {}
    /\ plans' = Refreshed
    /\ UNCHANGED <<now, torn, ranFor>>

\* run, with UpdateSchedule at its end: the next time is stored as it comes, the
\* zero time too, which ComputeNext would refuse; held: a request holds a copy, too
Run(d, held) ==
    /\ due' = due \ {d}
    /\ plans' = IF plans[d.id].there
                  THEN [plans EXCEPT ![d.id].next = NextRun(d.plan.cron, d.at)]
                  ELSE plans
    /\ torn' = [torn EXCEPT ![d.id] = @ \/ held]
    /\ ranFor' = [ranFor EXCEPT ![d.id] = IF d.plan.next = Zero THEN @
                                                                ELSE d.plan.next]
    /\ UNCHANGED now

Pass == now < MaxTime /\ now' = now + 1 /\ UNCHANGED <<plans, due, torn, ranFor>>

\* one schedule that is enabled, and one that is not, of the same cron
SchedulesInit ==
    /\ now = 1
    /\ \E cron \in Cron :
         /\ NextRun(cron, 1) # Zero
         /\ plans = [i \in Item |->
              IF i \in {1, 2}
                THEN [there |-> TRUE, enabled |-> i = 1, cron |-> cron, ds |-> 1,
                      next |-> IF i = 1 THEN NextRun(cron, 1) ELSE Nil]
                ELSE NoPlan]
    /\ due = {} /\ torn = [i \in Item |-> FALSE] /\ ranFor = [i \in Item |-> 0]

-----------------------------------------------------------------------------
(* Properties *)

SchedulesTypeOK ==
    /\ now \in 1..MaxTime /\ plans \in [Item -> Plan]
    /\ due \subseteq [id : Item, plan : Plan, at : 1..MaxTime]
    /\ torn \in [Item -> BOOLEAN] /\ ranFor \in [Item -> 0..(MaxTime + 1)]

\* a tick ran the last match that Cron.Next can see, and stored the zero time
RanOut(p, i) ==
    /\ p.next = Zero /\ ranFor[i] > 0
    /\ \E t \in 1..now : NextRun(p.cron, t) = Zero

\* An enabled schedule always has a time to run at.  As long as requests and
\* ticks for one schedule do not overlap, that time is one no tick has run for
\* yet, so no planned time runs twice, and a disabled schedule has none left
\* over.  The zero time, which every tick takes for due, comes in one way only:
\* the schedule has run, and its expression had no match left in five years.
SchedulePlanned ==
    \A i \in Item : plans[i].there =>
      /\ plans[i].enabled => plans[i].next # Nil
      /\ ~torn[i] => IF plans[i].enabled
                       THEN plans[i].next > ranFor[i] \/ RanOut(plans[i], i)
                       ELSE plans[i].next = Nil

\* A schedule whose time has come is run, disabled or deleted, whatever the
\* other schedules are and whatever is requested meanwhile; one that has run
\* out of matches stays due and runs at every tick.
Waiting(i) == Due(plans[i], now) /\ plans[i].next # Zero
DueRuns == \A i \in Item : Waiting(i) /\ ~torn[i] ~> ~Waiting(i) \/ torn[i]
=============================================================================
