---------------------------- MODULE JobLifecycle ----------------------------
(***************************************************************************)
(* What the export engine promises about the life of an export job, with   *)
(* the queue, the dispatcher, the locks, the contexts and the files left   *)
(* out: ExportWorker is shown to implement it.                             *)
(***************************************************************************)
EXTENDS Naturals, FiniteSets

CONSTANTS NumJobs,  \* jobs are numbered by their creation time
          MaxLimit  \* the largest settings.worker.max_concurrent in use

Job == 1 .. NumJobs

\* "none" and "deleted" are jobs the store does not hold (not yet, no more)
Status == {"none", "queued", "running", "done", "failed", "deleted"}

VARIABLES status,  \* of each job in the store
          live     \* the jobs that occupy one of the export slots

lifecycleVars == <<status, live>>

LifecycleInit ==
    /\ status = [j \in Job |-> "none"]
    /\ live = {}

Submit(j) ==
    /\ status[j] = "none"
    /\ status' = [status EXCEPT ![j] = "queued"]
    /\ UNCHANGED live

\* a slot is claimed for a queued job, and only when one is free
Claim(j) ==
    /\ status[j] = "queued"
    /\ j \notin live
    /\ Cardinality(live) < MaxLimit
    /\ live' = live \cup {j}
    /\ UNCHANGED status

\* only a job that holds a slot runs, and it ends in done or failed, once
Advance(j, from, to) ==
    /\ j \in live
    /\ status[j] = from
    /\ status' = [status EXCEPT ![j] = to]
    /\ UNCHANGED live

Run(j) == Advance(j, "queued", "running")
Finish(j) == \E end \in {"done", "failed"} : Advance(j, "running", end)

\* deletion by its owner, by retention or by a share is possible at any time
Delete(S) ==
    /\ \A j \in S : status[j] \notin {"none", "deleted"}
    /\ status' = [j \in Job |-> IF j \in S THEN "deleted" ELSE status[j]]
    /\ UNCHANGED live

\* a slot is given back only by a job that has left the queue
Free(j) ==
    /\ j \in live
    /\ status[j] # "queued"
    /\ live' = live \ {j}
    /\ UNCHANGED status

LifecycleNext ==
    \/ \E j \in Job : Submit(j) \/ Claim(j) \/ Run(j) \/ Finish(j) \/ Free(j)
    \/ \E S \in SUBSET Job : Delete(S)

LifecycleSpec == LifecycleInit /\ [][LifecycleNext]_lifecycleVars
=============================================================================
