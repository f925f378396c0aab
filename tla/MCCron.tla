------------------------------- MODULE MCCron -------------------------------
(* Instances of Cron for TLC: days of four hours of two minutes, weeks of two *)
(* days, months of two and three days                                       *)
EXTENDS Cron

TwoMonths == [m \in 0..2 |-> <<0, 2, 5>>[m + 1]]
Some(S) == SUBSET S \ {{}}
AllCrons == [minute : Some(0..1), hour : Some(0..3), dom : Some(1..3),
             month : Some(1..2), dow : Some(0..1)]
\* two days, from the second to the fourth
TwoDays == 17..48
\* a zone west of Greenwich; like the one to the east, it leaves out the
\* second hour of the fourth day
West == -2
=============================================================================
