------------------------------ MODULE MCConsole ------------------------------
(* An instance of Console for TLC *)
EXTENDS Console

\* every minute; a leap day that is a Tuesday
Crons == {"often", "rare"}

\* the rare one matches at time 2, and then not for five years: from then on it
\* is to the server what an expression that never matches is
Matches ==
    [c \in Crons |-> [t \in 1..MaxTime |->
        IF c = "often" THEN t + 1 ELSE IF c = "rare" /\ t < 2 THEN 2 ELSE Zero]]
=============================================================================
