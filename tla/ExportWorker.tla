---------------------------- MODULE ExportWorker ----------------------------
(***************************************************************************)
(* The export engine while the server is up: the job records of the store, *)
(* the queue and the dispatcher of worker.go, one goroutine per running    *)
(* export (export.go, package.go), and the requests that start, cancel,    *)
(* delete and prune jobs at the same time.                                 *)
(*                                                                         *)
(* Atomicity.  A critical section of store.mu is one action.  worker.mu    *)
(* protects queue, queued, cancels and running; dispatch holds it over a   *)
(* whole batch, in which it calls the store several times, so a batch is   *)
(* several actions (dpc "scan" and "start") and every other section of     *)
(* worker.mu waits for them (MutexFree).                                   *)
(* A file is named by its job: file names are taken to be distinct.        *)
(***************************************************************************)
EXTENDS Naturals, FiniteSets, Sequences, SequencesExt

CONSTANTS NumJobs,   \* jobs are numbered by their creation time
          MaxLimit,  \* the largest settings.worker.max_concurrent in use
          Deletable, \* the jobs that a DELETE /api/jobs/{id} may arrive for
          Limits     \* the values an administrator gives max_concurrent

Job == 1 .. NumJobs

ASSUME ConstantsAssumption ==
    /\ NumJobs \in Nat
    /\ MaxLimit \in Nat \ {0}
    /\ Deletable \subseteq Job
    /\ Limits \subseteq 1 .. MaxLimit

\* exports/<name>.tmp, exports/<name>.tar.gz, exports/<name>_volNNN.tar.gz
Kind == {"tmp", "out", "vol"}

VARIABLES
    status,    \* Store.jobs[j].Status; "none" or "deleted": not in the map
    shares,    \* the jobs a link of Store.shares points to
    limit,     \* settings.Worker.MaxConcurrent
    files,     \* the files of job j on disk
    output,    \* what packageOutput made: one archive or many volumes
    queue, queued, cancels, running, wake,  \* the fields of Worker
    dpc, dmax, djob,  \* the dispatcher: where it is, its max, the job it starts
    cancelled, \* the jobs whose context is cancelled
    epc,       \* where the goroutine of an export is; "off" without one
    spc,       \* where StartExport is for job j
    rpc,       \* where deleteJob is for job j
    apc,       \* where updateSettings is
    silent     \* history: the limit was written without a signal, and the
               \* dispatcher has not read it since

storeVars == <<status, shares, limit>>
diskVars == <<files, output>>
queueVars == <<queue, queued>>
slotVars == <<cancels, running>>
dispatchVars == <<dpc, dmax, djob>>
settingsVars == <<apc, silent>>
vars == <<storeVars, diskVars, queueVars, slotVars, wake, dispatchVars,
          cancelled, epc, spc, rpc, settingsVars>>

Init ==
    /\ status = [j \in Job |-> "none"]
    /\ shares = {}
    /\ limit \in Limits
    /\ files = [j \in Job |-> {}]
    /\ output = [j \in Job |-> "none"]
    /\ queue = <<>> /\ queued = {} /\ cancels = {} /\ running = 0
    /\ wake = FALSE
    /\ dpc = "wait" /\ dmax = 0 /\ djob = 0
    /\ cancelled = {}
    /\ epc = [j \in Job |-> "off"]
    /\ spc = [j \in Job |-> "idle"]
    /\ rpc = [j \in Job |-> "idle"]
    /\ apc = "idle" /\ silent = FALSE

InStore(j) == status[j] \notin {"none", "deleted"}

MutexFree == dpc \in {"wait", "woken"}

\* Mutation: UpdateJob puts the record back when the job was deleted
UpdatedJobResurrects(j, st) == [status EXCEPT ![j] = st]

\* UpdateJob does nothing when the job is no longer in the map
UpdatedJob(j, st) == IF InStore(j) THEN [status EXCEPT ![j] = st] ELSE status

\* the files that the record of job j names
JobFileNames(j) ==
    IF status[j] = "done" /\ output[j] = "many" THEN {"vol"} ELSE {"out", "tmp"}

(* Deleting records, with store.mu held: files, record and links go together *)
RemoveJobs(S) ==
    /\ files' = [j \in Job |-> IF j \in S THEN files[j] \ JobFileNames(j)
                                          ELSE files[j]]
    /\ status' = [j \in Job |-> IF j \in S THEN "deleted" ELSE status[j]]
    /\ shares' = shares \ S

-----------------------------------------------------------------------------
(* StartExport: two critical sections and a wake-up *)

AddJob(j) ==
    /\ status[j] = "none"
    /\ status' = [status EXCEPT ![j] = "queued"]
    \* when jobs.json cannot be written the record stays, and nobody enqueues it
    /\ \E next \in {"added", "refused"} : spc' = [spc EXCEPT ![j] = next]
    /\ UNCHANGED <<shares, limit, diskVars, queueVars, slotVars, wake,
                   dispatchVars, cancelled, epc, rpc, settingsVars>>

Enqueue(j) ==
    /\ spc[j] = "added"
    /\ MutexFree
    /\ IF j \in queued
         THEN UNCHANGED queueVars
         ELSE queued' = queued \cup {j} /\ queue' = Append(queue, j)
    /\ spc' = [spc EXCEPT ![j] = "signal"]
    /\ UNCHANGED <<storeVars, diskVars, slotVars, wake, dispatchVars,
                   cancelled, epc, rpc, settingsVars>>

EnqueueSignal(j) ==
    /\ spc[j] = "signal"
    /\ spc' = [spc EXCEPT ![j] = "over"]
    /\ wake' = TRUE
    /\ UNCHANGED <<storeVars, diskVars, queueVars, slotVars, dispatchVars,
                   cancelled, epc, rpc, settingsVars>>

-----------------------------------------------------------------------------
(* deleteJob: load the job, Worker.Cancel, Store.DeleteJob *)

LoadJob(j) ==
    /\ j \in Deletable
    /\ rpc[j] = "idle"
    /\ InStore(j)
    /\ rpc' = [rpc EXCEPT ![j] = "loaded"]
    /\ UNCHANGED <<storeVars, diskVars, queueVars, slotVars, wake,
                   dispatchVars, cancelled, epc, spc, settingsVars>>

\* Mutation: Cancel leaves the job in the slice
CancelKeepsSlice(j) ==
    /\ rpc[j] = "loaded"
    /\ MutexFree
    /\ queued' = queued \ {j}
    /\ cancelled' = IF j \in cancels THEN cancelled \cup {j} ELSE cancelled
    /\ rpc' = [rpc EXCEPT ![j] = "cancelled"]
    /\ UNCHANGED <<storeVars, diskVars, queue, slotVars, wake, dispatchVars,
                   epc, spc, settingsVars>>

\* cancel() runs after the unlock; nothing can tell it from a later Cancel
Cancel(j) ==
    /\ rpc[j] = "loaded"
    /\ MutexFree
    /\ IF j \in queued
         THEN queued' = queued \ {j} /\ queue' = RemoveFirst(queue, j)
         ELSE UNCHANGED queueVars
    /\ cancelled' = IF j \in cancels THEN cancelled \cup {j} ELSE cancelled
    /\ rpc' = [rpc EXCEPT ![j] = "cancelled"]
    /\ UNCHANGED <<storeVars, diskVars, slotVars, wake, dispatchVars,
                   epc, spc, settingsVars>>

\* Mutation: DeleteJob spares the jobs retention would spare
DeleteJobOnlyFinished(j) ==
    /\ rpc[j] = "cancelled"
    /\ IF status[j] \in {"done", "failed"}
         THEN RemoveJobs({j})
         ELSE UNCHANGED <<files, status, shares>>
    /\ rpc' = [rpc EXCEPT ![j] = "idle"]
    /\ UNCHANGED <<limit, output, queueVars, slotVars, wake, dispatchVars,
                   cancelled, epc, spc, settingsVars>>

DeleteJob(j) ==
    /\ rpc[j] = "cancelled"
    /\ IF InStore(j) THEN RemoveJobs({j}) ELSE UNCHANGED <<files, status, shares>>
    /\ rpc' = [rpc EXCEPT ![j] = "idle"]
    /\ UNCHANGED <<limit, output, queueVars, slotVars, wake, dispatchVars,
                   cancelled, epc, spc, settingsVars>>

(* Retention: finished jobs, whether their goroutine has ended or not *)
PruneExports(S) ==
    /\ S # {}
    /\ \A j \in S : status[j] \in {"done", "failed"}
    /\ RemoveJobs(S)
    /\ UNCHANGED <<limit, output, queueVars, slotVars, wake, dispatchVars,
                   cancelled, epc, spc, rpc, settingsVars>>

(* A link that expired or was used up takes its job with it, whatever its
   status, and does not go through Worker.Cancel *)
PurgeShare(j) ==
    /\ j \in shares
    /\ IF InStore(j)
         THEN RemoveJobs({j})
         ELSE shares' = shares \ {j} /\ UNCHANGED <<files, status>>
    /\ UNCHANGED <<limit, output, queueVars, slotVars, wake, dispatchVars,
                   cancelled, epc, spc, rpc, settingsVars>>

(* updateSettings stores max_concurrent and wakes the dispatcher, unless
   settings.json cannot be written: then the limit is in memory, and it returns
   without a signal.  An update that leaves the value as it is only adds a
   wake-up, as the timer does. *)
UpdateSettings(n) ==
    /\ apc = "idle"
    /\ n # limit
    /\ limit' = n
    /\ apc' \in {"signal", "idle"}
    /\ silent' = (apc' = "idle")
    /\ UNCHANGED <<status, shares, diskVars, queueVars, slotVars, wake,
                   dispatchVars, cancelled, epc, spc, rpc>>

(* createDatasource, updateDatasource and deleteDatasource store the whole
   settings as they read them before, the limit of that time included, and
   signal nobody.  How many of them are under way and what each has read is
   left out: n is any limit that can have been in force. *)
SaveSettings(n) ==
    /\ n # limit
    /\ limit' = n
    /\ silent' = TRUE
    /\ UNCHANGED <<status, shares, diskVars, queueVars, slotVars, wake,
                   dispatchVars, cancelled, epc, spc, rpc, apc>>

SettingsSignal ==
    /\ apc = "signal"
    /\ apc' = "idle"
    /\ wake' = TRUE
    /\ UNCHANGED <<storeVars, diskVars, queueVars, slotVars, dispatchVars,
                   cancelled, epc, spc, rpc, silent>>

-----------------------------------------------------------------------------
(* dispatch *)

\* a token of the wake channel is taken, or the 5 s timer fires
DispatchWake ==
    /\ dpc = "wait"
    /\ dpc' = "woken"
    /\ wake' \in {FALSE, wake}
    /\ UNCHANGED <<storeVars, diskVars, queueVars, slotVars, dmax, djob,
                   cancelled, epc, spc, rpc, settingsVars>>

DispatchLock ==
    /\ dpc = "woken"
    /\ dpc' = "scan"
    /\ dmax' = limit
    /\ silent' = FALSE
    /\ UNCHANGED <<storeVars, diskVars, queueVars, slotVars, wake, djob,
                   cancelled, epc, spc, rpc, apc>>

\* Mutation: one slot too few
MoreToStartOffByOne == running + 1 < dmax /\ queue # <<>>

MoreToStart == running < dmax /\ queue # <<>>

\* pop, GetJob; a job that is gone or no longer queued is dropped
DispatchPop ==
    /\ dpc = "scan"
    /\ MoreToStart
    /\ queue' = Tail(queue)
    /\ queued' = queued \ {Head(queue)}
    /\ IF status[Head(queue)] = "queued"
         THEN /\ cancels' = cancels \cup {Head(queue)}
              /\ running' = running + 1
              /\ djob' = Head(queue)
              /\ dpc' = "start"
         ELSE UNCHANGED <<slotVars, djob, dpc>>
    /\ UNCHANGED <<storeVars, diskVars, wake, dmax, cancelled, epc, spc, rpc,
                   settingsVars>>

DispatchStart ==
    /\ dpc = "start"
    /\ status' = UpdatedJob(djob, "running")
    /\ epc' = [epc EXCEPT ![djob] = "begin"]
    /\ djob' = 0
    /\ dpc' = "scan"
    /\ UNCHANGED <<shares, limit, diskVars, queueVars, slotVars, wake, dmax,
                   cancelled, spc, rpc, settingsVars>>

DispatchUnlock ==
    /\ dpc = "scan"
    /\ ~MoreToStart
    /\ dpc' = "wait"
    /\ dmax' = 0
    /\ UNCHANGED <<storeVars, diskVars, queueVars, slotVars, wake, djob,
                   cancelled, epc, spc, rpc, settingsVars>>

Dispatcher == \/ DispatchWake \/ DispatchLock \/ DispatchPop
              \/ DispatchStart \/ DispatchUnlock
-----------------------------------------------------------------------------
(* The goroutine of an export: runExport and the deferred calls around it.
   cancelled[j] is only looked at where the code looks at ctx.Err(). *)

\* the variables no step of this goroutine writes
Elsewhere == <<limit, queueVars, dispatchVars, cancelled, spc, rpc,
               settingsVars>>

At(j, pc) == epc[j] = pc
Goto(j, pc) == epc' = [epc EXCEPT ![j] = pc]

SetFiles(j, F) == files' = [files EXCEPT ![j] = F]

\* Mutation: the export ends without a status
FailSilently(j) ==
    /\ Goto(j, "cleanup")
    /\ UNCHANGED <<status, shares, output, slotVars, wake, Elsewhere>>

Fail(j) ==
    /\ status' = UpdatedJob(j, "failed")
    /\ Goto(j, "cleanup")
    /\ UNCHANGED <<shares, output, slotVars, wake, Elsewhere>>

\* an error that ends the export, at any of the places that call fail
ExportFails(j) ==
    /\ epc[j] \in {"begin", "open", "fetch", "package", "packing"}
    /\ Fail(j)
    /\ UNCHANGED files

\* the datasource is there, windows and estimate are computed, ctx looked at
PlanExport(j) ==
    /\ At(j, "begin")
    /\ Goto(j, IF j \in cancelled THEN "cleanup" ELSE "open")
    /\ UNCHANGED <<status, shares, files, output, slotVars, wake, Elsewhere>>

OpenSink(j) ==
    /\ At(j, "open")
    /\ SetFiles(j, files[j] \cup {"tmp"})
    /\ Goto(j, "fetch")
    /\ UNCHANGED <<status, shares, output, slotVars, wake, Elsewhere>>

\* a window's request or the wait before a retry ends because ctx is cancelled
FetchCancelled(j) ==
    /\ At(j, "fetch")
    /\ j \in cancelled
    /\ Goto(j, "cleanup")
    /\ UNCHANGED <<status, shares, files, output, slotVars, wake, Elsewhere>>

\* every window is written and the sink closed; ctx is looked at again
FetchDone(j) ==
    /\ At(j, "fetch")
    /\ Goto(j, IF j \in cancelled THEN "cleanup" ELSE "package")
    /\ UNCHANGED <<status, shares, files, output, slotVars, wake, Elsewhere>>

\* packageOutput does not look at ctx; runExport does when it returns, and
\* removes what was made (F: the files after packaging, made: the new ones)
Packaged(j, result, F, made) ==
    /\ IF j \in cancelled
         THEN /\ SetFiles(j, F \ made)
              /\ Goto(j, "cleanup")
              /\ UNCHANGED output
         ELSE /\ SetFiles(j, F)
              /\ Goto(j, "publish")
              /\ output' = [output EXCEPT ![j] = result]
    /\ UNCHANGED <<status, shares, slotVars, wake, Elsewhere>>

\* .log without a CSV header: the raw file is renamed
PackagePlain(j) ==
    /\ At(j, "package")
    /\ "tmp" \in files[j]
    /\ Packaged(j, "one", (files[j] \ {"tmp"}) \cup {"out"}, {"out"})

\* the other formats write a new file, and tar.gz goes on to further volumes
PackageOpen(j) ==
    /\ At(j, "package")
    /\ "tmp" \in files[j]
    /\ SetFiles(j, files[j] \cup {"out"})
    /\ Goto(j, "packing")
    /\ UNCHANGED <<status, shares, output, slotVars, wake, Elsewhere>>

PackageNextVolume(j) ==
    /\ At(j, "packing")
    /\ "vol" \notin files[j]
    /\ SetFiles(j, files[j] \cup {"vol"})
    /\ UNCHANGED <<status, shares, output, slotVars, wake, Elsewhere, epc>>

PackageClose(j) ==
    /\ At(j, "packing")
    /\ IF "vol" \in files[j]
         THEN /\ "out" \in files[j]  \* else renaming it to _vol001 fails
              /\ Packaged(j, "many", files[j] \ {"out"}, {"vol"})
         ELSE Packaged(j, "one", files[j], {"out"})

\* UpdateJob: status done and the names of the files, in one write
Publish(j) ==
    /\ At(j, "publish")
    /\ status' = UpdatedJob(j, "done")
    /\ Goto(j, "final")
    /\ UNCHANGED <<shares, files, output, slotVars, wake, Elsewhere>>

\* GetJob again: a job deleted meanwhile is neither shared nor announced
FinalExport(j) ==
    /\ At(j, "final")
    /\ IF InStore(j)
         THEN \E next \in {"share", "cleanup"} : Goto(j, next)
         ELSE Goto(j, "cleanup")
    /\ UNCHANGED <<status, shares, files, output, slotVars, wake, Elsewhere>>

AutoShare(j) ==
    /\ At(j, "share")
    /\ shares' = shares \cup {j}
    /\ Goto(j, "cleanup")
    /\ UNCHANGED <<status, files, output, slotVars, wake, Elsewhere>>

\* Mutation: the archive is removed whether the export was cancelled or not
CleanupRemovesAll(j) ==
    /\ At(j, "cleanup")
    /\ SetFiles(j, {})
    /\ Goto(j, "release")
    /\ UNCHANGED <<status, shares, output, slotVars, wake, Elsewhere>>

\* Mutation: only the raw file is removed
CleanupTmpOnly(j) ==
    /\ At(j, "cleanup")
    /\ SetFiles(j, files[j] \ {"tmp"})
    /\ Goto(j, "release")
    /\ UNCHANGED <<status, shares, output, slotVars, wake, Elsewhere>>

\* the deferred removals of runExport
Cleanup(j) ==
    /\ At(j, "cleanup")
    /\ SetFiles(j, IF j \in cancelled THEN {} ELSE files[j] \ {"tmp"})
    /\ Goto(j, "release")
    /\ UNCHANGED <<status, shares, output, slotVars, wake, Elsewhere>>

\* Mutation: the counter is not decremented
ReleaseUncounted(j) ==
    /\ At(j, "release")
    /\ MutexFree
    /\ cancels' = cancels \ {j}
    /\ Goto(j, "signal")
    /\ UNCHANGED <<status, shares, files, output, running, wake, Elsewhere>>

\* the deferred call of the goroutine, under worker.mu
Release(j) ==
    /\ At(j, "release")
    /\ MutexFree
    /\ running' = running - 1
    /\ cancels' = cancels \ {j}
    /\ Goto(j, "signal")
    /\ UNCHANGED <<status, shares, files, output, wake, Elsewhere>>

\* Mutation: the goroutine ends without waking the dispatcher
ReleaseNoSignal(j) ==
    /\ At(j, "signal")
    /\ Goto(j, "off")
    /\ UNCHANGED <<status, shares, files, output, slotVars, wake, Elsewhere>>

ReleaseSignal(j) ==
    /\ At(j, "signal")
    /\ wake' = TRUE
    /\ Goto(j, "off")
    /\ UNCHANGED <<status, shares, files, output, slotVars, Elsewhere>>

ExportStep(j) ==
    \/ ExportFails(j) \/ PlanExport(j) \/ OpenSink(j)
    \/ FetchCancelled(j) \/ FetchDone(j)
    \/ PackagePlain(j) \/ PackageOpen(j) \/ PackageNextVolume(j)
    \/ PackageClose(j) \/ Publish(j) \/ FinalExport(j) \/ AutoShare(j)
    \/ Cleanup(j) \/ Release(j) \/ ReleaseSignal(j)

StartStep(j) == AddJob(j) \/ Enqueue(j) \/ EnqueueSignal(j)
DeleteStep(j) == LoadJob(j) \/ Cancel(j) \/ DeleteJob(j)

Next ==
    \/ Dispatcher
    \/ \E j \in Job : StartStep(j) \/ DeleteStep(j) \/ ExportStep(j) \/ PurgeShare(j)
    \/ \E S \in SUBSET Job : PruneExports(S)
    \/ \E n \in Limits : UpdateSettings(n) \/ SaveSettings(n)
    \/ SettingsSignal

Spec == Init /\ [][Next]_vars

(* Fairness.  The dispatcher and the goroutines are scheduled by Go; a
   sync.Mutex admits every waiter in the end, hence SF where worker.mu is
   taken.  One condition for all jobs is enough: a job takes each step once.
   WF on the steps of ExportStep assumes that VictoriaLogs answers or fails:
   DoLongRunning sets no timeout of its own. *)
Fairness ==
    /\ WF_vars(Dispatcher)
    /\ WF_vars(SettingsSignal)
    /\ WF_vars(\E j \in Job : EnqueueSignal(j) \/ DeleteJob(j) \/ ExportStep(j))
    /\ SF_vars(\E j \in Job : Enqueue(j) \/ Cancel(j) \/ Release(j))

FairSpec == Spec /\ Fairness

-----------------------------------------------------------------------------
(* Properties *)

TypeOK ==
    /\ status \in [Job -> {"none", "queued", "running", "done", "failed", "deleted"}]
    /\ shares \subseteq Job
    /\ limit \in 1 .. MaxLimit
    /\ files \in [Job -> SUBSET Kind]
    /\ output \in [Job -> {"none", "one", "many"}]
    /\ queue \in Seq(Job) /\ queued \subseteq Job
    /\ cancels \subseteq Job /\ running \in Nat /\ wake \in BOOLEAN
    /\ dpc \in {"wait", "woken", "scan", "start"} /\ dmax \in 0 .. MaxLimit
    /\ djob \in 0 .. NumJobs /\ (dpc = "start" <=> djob \in Job)
    /\ cancelled \subseteq Job
    /\ epc \in [Job -> {"off", "begin", "open", "fetch", "package",
                        "packing", "publish", "final", "share", "cleanup",
                        "release", "signal"}]
    /\ spc \in [Job -> {"idle", "added", "refused", "signal", "over"}]
    /\ rpc \in [Job -> {"idle", "loaded", "cancelled"}]
    /\ apc \in {"idle", "signal"}
    /\ silent \in BOOLEAN

\* where a goroutine still has the outcome of its job before it
Producing == {"begin", "open", "fetch", "package", "packing", "publish"}

MadeFile(j) == IF output[j] = "many" THEN "vol" ELSE "out"

\* the job the dispatcher has popped and not yet started
Starting(j) == dpc = "start" /\ djob = j

\* from its pop to the lock its last defer takes, an export holds a slot
HoldsSlot(j) == Starting(j) \/ epc[j] \notin {"off", "signal"}

(* The map queued and the slice queue of Worker hold the same jobs and the
   slice holds none twice, whatever Cancel removes from its middle. *)
QueueAgrees ==
    /\ queued = ToSet(queue)
    /\ IsInjective(queue)

(* The counter running, the map cancels and the goroutines of dispatch agree:
   no slot leaks and none is given back twice, and no lowering of
   max_concurrent, nor a job deleted between pop and start, lets more exports
   run than the largest limit in use. *)
SlotsAgree ==
    /\ cancels = {j \in Job : HoldsSlot(j)}
    /\ running = Cardinality(cancels)
    /\ running <= MaxLimit

(* A job the store shows as queued is on its way: StartExport has not yet
   enqueued it, it is in the queue, the dispatcher holds it, or deleteJob has
   taken it out of the queue and will delete it.  The one exception is the
   record AddJob keeps when it could not write jobs.json. *)
NoQueuedJobLost ==
    \A j \in Job : status[j] = "queued" =>
        \/ spc[j] \in {"added", "refused"}
        \/ j \in queued
        \/ Starting(j)
        \/ rpc[j] = "cancelled"

(* A job the store shows as running has a goroutine that will end it, or was
   cancelled by a deleteJob that is about to remove the record: a cancelled
   export returns without setting a status. *)
NoZombie ==
    \A j \in Job : status[j] = "running" =>
        \/ epc[j] \in Producing
        \/ j \in cancelled /\ rpc[j] = "cancelled"

(* The file a done job names is on disk, although deletions, retention and
   the clean-up of a cancelled export remove files at any time; only a job
   whose deletion is under way may already have lost it. *)
DoneIsDownloadable ==
    \A j \in Job : status[j] = "done" =>
        \/ MadeFile(j) \in files[j]
        \/ j \in cancelled /\ rpc[j] = "cancelled"

(* What a deleted job whose context was cancelled leaves on disk once its
   goroutine has ended: nothing, whichever of the two removed last, but for
   the volumes of a packaging that failed. *)
CancelledLeavesNothing ==
    \A j \in Job :
        status[j] = "deleted" /\ epc[j] = "off" /\ j \in cancelled =>
            files[j] \subseteq (IF output[j] = "none" THEN {"vol"} ELSE {})

(* A wake-up is never lost: while the dispatcher sleeps although a job could
   start, a token is in the wake channel or somebody is about to put it
   there, so the 5 s timer is never what a job waits for.  The one exception
   is a limit that was written and announced to nobody: by updateSettings when
   it cannot save, or by a datasource handler with an older copy. *)
NoLostWakeup ==
    dpc = "wait" /\ queue # <<>> /\ running < limit =>
        \/ wake
        \/ apc = "signal"
        \/ \E j \in Job : spc[j] = "signal" \/ epc[j] = "signal"
        \/ silent

(* The inductive invariant: the properties above and what they rest on *)

\* a job is enqueued once, and has no goroutine before the dispatcher pops it
QueueOnce ==
    \A j \in Job :
        /\ status[j] = "none" <=> spc[j] = "idle"
        /\ spc[j] \in {"idle", "added", "refused"} =>
              j \notin queued /\ ~Starting(j) /\ epc[j] = "off"
        /\ j \in queued \/ Starting(j) \/ spc[j] \in {"added", "refused"} =>
              epc[j] = "off" /\ status[j] \in {"queued", "deleted"}
        /\ ~(j \in queued /\ Starting(j))

\* the status follows the goroutine, and a cancelled job is being deleted
StatusFollows ==
    \A j \in Job :
        /\ epc[j] \in Producing => status[j] \in {"running", "deleted"}
        /\ epc[j] \in {"final", "share"} => status[j] \in {"done", "deleted"}
        /\ epc[j] # "off" => status[j] # "queued"
        /\ j \in cancelled => status[j] = "deleted" \/ rpc[j] = "cancelled"
        /\ status[j] = "none" => j \notin cancelled /\ rpc[j] = "idle"
        /\ j \in shares => status[j] \in {"done", "deleted"}

\* what is packed and about to be published is on disk unless the job is deleted
PublishedExists ==
    \A j \in Job : status[j] # "deleted" =>
        /\ epc[j] = "packing" => "out" \in files[j]
        /\ epc[j] = "publish" => MadeFile(j) \in files[j]

\* a limit the dispatcher has not seen comes with a wake-up, or unannounced
LimitSeen ==
    dpc \in {"scan", "start"} /\ dmax # limit =>
        wake \/ apc = "signal" \/ silent

InductiveInvariant ==
    /\ TypeOK /\ QueueAgrees /\ SlotsAgree
    /\ QueueOnce /\ StatusFollows /\ PublishedExists /\ LimitSeen
    /\ NoQueuedJobLost /\ NoZombie /\ DoneIsDownloadable /\ NoLostWakeup

(* The slots, queue and requests implement the life cycle of JobLifecycle. *)
Lifecycle == INSTANCE JobLifecycle WITH live <- cancels
ImplementsLifecycle == Lifecycle!LifecycleSpec

(* An enqueued job leaves the queue: it is started or deleted. *)
QueuedIsServed ==
    \A j \in Job : spc[j] = "signal" ~> status[j] # "queued"

(* A running export ends as done, failed or deleted. *)
RunningEnds ==
    \A j \in Job : status[j] = "running" ~> status[j] # "running"

-----------------------------------------------------------------------------
(* What the repository says and the code does not keep *)

(* handler/jobs.go: a queued job is taken out of the queue, a running one is
   stopped.  A job deleted while it runs has its context cancelled. *)
DeletedRunIsCancelled ==
    \A j \in Job : status[j] = "deleted" /\ epc[j] \in {"begin", "open", "fetch"} =>
        j \in cancelled
=============================================================================
