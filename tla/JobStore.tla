------------------------------ MODULE JobStore ------------------------------
(***************************************************************************)
(* What the store keeps on disk and what a restart makes of it: jobs.json, *)
(* shares.json, the files in exports/, the memory that a crash takes away, *)
(* and the start-up (store.New, RecoverJobs, Worker.Start).                *)
(*                                                                         *)
(* A store operation changes its maps and then works through disk steps    *)
(* with store.mu held: todo holds the steps that are left, and a crash may *)
(* come between any two of them.  The removals of one operation come in    *)
(* any order (the code's follows its maps).  The slots, the queue's order  *)
(* and the races between requests are the subject of ExportWorker: here a  *)
(* queued job may start at any time, and adding a job ends by enqueueing.  *)
(***************************************************************************)
EXTENDS Naturals, FiniteSets, Sequences

CONSTANTS Job,        \* the jobs that are ever submitted
          MaxCrashes, \* bound on the number of crashes
          TornWrites  \* whether an os.WriteFile may be cut short

ASSUME StoreAssumption == MaxCrashes \in Nat /\ TornWrites \in BOOLEAN

Kind == {"tmp", "out", "vol"}
Finished == {"done", "failed"}

\* names: the files jobFileNames lists, the volumes of a job counting as one
NoJob == [status |-> "none", names |-> {}]
NewJob == [status |-> "queued", names |-> {"out", "tmp"}]

VARIABLES
    server,     \* "up", "down", or "recover" between store.New and Worker.Start
    jobs, links,         \* the maps of Store; links: the jobs with a share link
    jobsFile, linksFile, \* what store.New reads from jobs.json and shares.json
    files,      \* the files of each job in exports/
    todo,       \* the disk steps of the operation that holds store.mu
    queued,     \* the jobs in Worker.queue
    epc,        \* where the goroutine of an export is; "off" without one
    cancelled,  \* the jobs whose context is cancelled
    deleting,   \* the jobs between the two calls of deleteJob
    sharing,    \* the jobs that createShare or the auto-share found done
    fate,       \* history: "new", "submitted", "accepted", "unwanted"
    crashes

memory == <<jobs, links>>
disk == <<jobsFile, linksFile, files>>
threads == <<queued, epc, cancelled, deleting, sharing>>
vars == <<server, memory, disk, todo, threads, fate, crashes>>

\* also what is read from a file that was cut short: json.Unmarshal refuses it
\* and sets nothing
Empty == [j \in Job |-> NoJob]

Init ==
    /\ server = "up"
    /\ jobs = Empty /\ links = {} /\ jobsFile = Empty /\ linksFile = {}
    /\ files = [j \in Job |-> {}]
    /\ todo = <<>>
    /\ queued = {} /\ epc = [j \in Job |-> "off"]
    /\ cancelled = {} /\ deleting = {} /\ sharing = {}
    /\ fate = [j \in Job |-> "new"] /\ crashes = 0

InStore(j) == jobs[j] # NoJob
MutexFree == server = "up" /\ todo = <<>>

\* the disk steps
SaveJobs == [op |-> "jobs"]
SaveLinks == [op |-> "links"]
RemoveFiles(W) == [op |-> "remove", what |-> W]
Return(j, to) == [op |-> "return", job |-> j, to |-> to]

Doing(op) == todo # <<>> /\ Head(todo).op = op

-----------------------------------------------------------------------------
(* The disk steps of the operation in progress *)

RemoveFile ==
    /\ Doing("remove")
    /\ LET left == {f \in Head(todo).what : f[2] \in files[f[1]]}
       IN  IF left = {}
             THEN todo' = Tail(todo) /\ UNCHANGED files
             ELSE \E f \in left :
                    /\ files' = [files EXCEPT ![f[1]] = @ \ {f[2]}]
                    /\ todo' = <<RemoveFiles(left \ {f})>> \o Tail(todo)
    /\ UNCHANGED <<server, memory, jobsFile, linksFile, threads, fate, crashes>>

\* os.WriteFile truncates and then writes; cut short, by an error or by the
\* crash that may follow, it leaves a torn file, and AddJob reports the error
WriteJobs ==
    /\ Doing("jobs")
    /\ \/ jobsFile' = jobs /\ todo' = Tail(todo)
       \/ /\ TornWrites
          /\ jobsFile' = Empty
          /\ todo' = IF \E j \in Job : Tail(todo) = <<Return(j, "enqueue")>>
                       THEN <<>> ELSE Tail(todo)
    /\ UNCHANGED <<server, memory, linksFile, files, threads, fate, crashes>>

WriteLinks ==
    /\ Doing("links")
    /\ linksFile' \in {links} \cup (IF TornWrites THEN {{}} ELSE {})
    /\ todo' = Tail(todo)
    /\ UNCHANGED <<server, memory, jobsFile, files, threads, fate, crashes>>

\* the operation returns: StartExport enqueues, a goroutine takes its next step
ReturnTo ==
    /\ Doing("return")
    /\ LET j == Head(todo).job  to == Head(todo).to
       IN  IF to = "enqueue"
             THEN /\ queued' = queued \cup {j}
                  /\ fate' = [fate EXCEPT ![j] = "accepted"]
                  /\ UNCHANGED epc
             ELSE epc' = [epc EXCEPT ![j] = to] /\ UNCHANGED <<queued, fate>>
    /\ todo' = Tail(todo)
    /\ UNCHANGED <<server, memory, disk, cancelled, deleting, sharing, crashes>>

DiskStep == RemoveFile \/ WriteJobs \/ WriteLinks \/ ReturnTo

-----------------------------------------------------------------------------
(* Requests, retention and links *)

\* Mutation: the new record is only kept in memory
AddJobUnsaved(j) ==
    /\ MutexFree
    /\ fate[j] = "new"
    /\ fate' = [fate EXCEPT ![j] = "submitted"]
    /\ jobs' = [jobs EXCEPT ![j] = NewJob]
    /\ todo' = <<Return(j, "enqueue")>>
    /\ UNCHANGED <<server, links, disk, threads, crashes>>

AddJob(j) ==
    /\ MutexFree
    /\ fate[j] = "new"
    /\ fate' = [fate EXCEPT ![j] = "submitted"]
    /\ jobs' = [jobs EXCEPT ![j] = NewJob]
    /\ todo' = <<SaveJobs, Return(j, "enqueue")>>
    /\ UNCHANGED <<server, links, disk, threads, crashes>>

\* Worker.Cancel, the first call of deleteJob
Cancel(j) ==
    /\ MutexFree
    /\ InStore(j) /\ j \notin deleting
    /\ queued' = queued \ {j}
    /\ cancelled' = IF epc[j] # "off" THEN cancelled \cup {j} ELSE cancelled
    /\ deleting' = deleting \cup {j}
    /\ fate' = [fate EXCEPT ![j] = "unwanted"]
    /\ UNCHANGED <<server, memory, disk, todo, epc, sharing, crashes>>

\* the records of S go with their files and links: jobs.json is written in any
\* case, shares.json when it has to be
RemoveJobs(S, linksChanged) ==
    /\ jobs' = [j \in Job |-> IF j \in S THEN NoJob ELSE jobs[j]]
    /\ links' = links \ S
    /\ todo' = <<RemoveFiles({f \in S \X Kind : f[2] \in jobs[f[1]].names}), SaveJobs>>
                 \o (IF linksChanged THEN <<SaveLinks>> ELSE <<>>)

DeleteJob(j) ==
    /\ MutexFree
    /\ j \in deleting
    /\ deleting' = deleting \ {j}
    /\ IF InStore(j) THEN RemoveJobs({j}, j \in links) ELSE UNCHANGED <<memory, todo>>
    /\ UNCHANGED <<server, disk, queued, epc, cancelled, sharing, fate, crashes>>

PruneExports(S) ==
    /\ MutexFree
    /\ S # {} /\ \A j \in S : jobs[j].status \in Finished
    /\ RemoveJobs(S, TRUE)
    /\ fate' = [j \in Job |-> IF j \in S THEN "unwanted" ELSE fate[j]]
    /\ UNCHANGED <<server, disk, threads, crashes>>

\* an expired or used-up link
PurgeShare(j) ==
    /\ MutexFree
    /\ j \in links
    /\ IF InStore(j)
         THEN RemoveJobs({j}, TRUE)
         ELSE links' = links \ {j} /\ todo' = <<SaveLinks>> /\ UNCHANGED jobs
    /\ fate' = [fate EXCEPT ![j] = "unwanted"]
    /\ UNCHANGED <<server, disk, threads, crashes>>

\* createShare and the auto-share look at the job, then save the link
CheckShare(j) ==
    /\ MutexFree
    /\ jobs[j].status = "done"
    /\ sharing' = sharing \cup {j}
    /\ UNCHANGED <<server, memory, disk, todo, queued, epc, cancelled, deleting,
                   fate, crashes>>

\* the auto-share goes on to store the link's address in the record
SaveShare(j) ==
    /\ MutexFree
    /\ j \in sharing
    /\ sharing' = sharing \ {j}
    /\ links' = links \cup {j}
    /\ todo' \in {<<SaveLinks>>, <<SaveLinks, SaveJobs>>}
    /\ UNCHANGED <<server, jobs, disk, queued, epc, cancelled, deleting, fate,
                   crashes>>

DeleteShare(j) ==
    /\ MutexFree
    /\ j \in links
    /\ links' = links \ {j}
    /\ todo' = <<SaveLinks>>
    /\ UNCHANGED <<server, jobs, disk, threads, fate, crashes>>

-----------------------------------------------------------------------------
(* The dispatcher and the goroutine of an export *)

\* UpdateJob with persist: nothing happens when the record is gone; else the
\* caller waits ("saving") until jobs.json is written
UpdateJob(j, rec, next) ==
    IF InStore(j)
      THEN /\ jobs' = [jobs EXCEPT ![j] = rec]
           /\ todo' = <<SaveJobs, Return(j, next)>>
           /\ epc' = [epc EXCEPT ![j] = "saving"]
      ELSE epc' = [epc EXCEPT ![j] = next] /\ UNCHANGED <<jobs, todo>>

WithStatus(j, st) == [jobs[j] EXCEPT !.status = st]

\* Mutation: the status "running" is not persisted
DispatchUnsaved(j) ==
    /\ MutexFree
    /\ j \in queued
    /\ queued' = queued \ {j}
    /\ IF jobs[j].status = "queued"
         THEN /\ jobs' = [jobs EXCEPT ![j] = WithStatus(j, "running")]
              /\ epc' = [epc EXCEPT ![j] = "begin"]
         ELSE UNCHANGED <<jobs, epc>>
    /\ UNCHANGED <<server, links, disk, todo, cancelled, deleting, sharing, fate,
                   crashes>>

Dispatch(j) ==
    /\ MutexFree
    /\ j \in queued
    /\ queued' = queued \ {j}
    /\ IF jobs[j].status = "queued"
         THEN UpdateJob(j, WithStatus(j, "running"), "begin")
         ELSE UNCHANGED <<jobs, todo, epc>>
    /\ UNCHANGED <<server, links, disk, cancelled, deleting, sharing, fate, crashes>>

At(j, pc) == server = "up" /\ epc[j] = pc

\* a step on the files only; store.mu may be taken meanwhile
FileStep(j, F, pc) ==
    /\ files' = [files EXCEPT ![j] = F]
    /\ epc' = [epc EXCEPT ![j] = pc]
    /\ UNCHANGED <<server, memory, jobsFile, linksFile, todo, queued, cancelled,
                   deleting, sharing, fate, crashes>>

OpenSink(j) ==
    /\ At(j, "begin") /\ j \notin cancelled
    /\ FileStep(j, files[j] \cup {"tmp"}, "fetch")

Abandon(j) ==
    /\ At(j, "begin") \/ At(j, "fetch")
    /\ j \in cancelled
    /\ FileStep(j, files[j], "cleanup")

\* the next step after packaging, which does not look at the context
Packaged(j, pc) == IF j \in cancelled THEN "cleanup" ELSE pc

\* .log: the raw file is renamed; the other formats write a file next to it
PackagePlain(j) ==
    /\ At(j, "fetch") /\ "tmp" \in files[j]
    /\ FileStep(j, (files[j] \ {"tmp"}) \cup {"out"}, Packaged(j, "one"))

PackageOpen(j) ==
    /\ At(j, "fetch") /\ "tmp" \in files[j]
    /\ FileStep(j, files[j] \cup {"out"}, "pack")

PackageNextVolume(j) ==
    /\ At(j, "pack") /\ "vol" \notin files[j]
    /\ FileStep(j, files[j] \cup {"vol"}, "pack")

PackageClose(j) ==
    /\ At(j, "pack")
    /\ IF "vol" \in files[j]
         THEN "out" \in files[j] /\ FileStep(j, files[j] \ {"out"}, Packaged(j, "many"))
         ELSE FileStep(j, files[j], Packaged(j, "one"))

Fail(j) ==
    /\ MutexFree
    /\ epc[j] \in {"begin", "fetch", "pack"}
    /\ UpdateJob(j, WithStatus(j, "failed"), "cleanup")
    /\ UNCHANGED <<server, links, disk, queued, cancelled, deleting, sharing, fate,
                   crashes>>

Publish(j) ==
    /\ MutexFree
    /\ epc[j] \in {"one", "many"}
    /\ UpdateJob(j, [status |-> "done",
                     names |-> IF epc[j] = "many" THEN {"vol"} ELSE {"out", "tmp"}],
                 "cleanup")
    /\ UNCHANGED <<server, links, disk, queued, cancelled, deleting, sharing, fate,
                   crashes>>

\* the deferred removals; then the context is forgotten
Cleanup(j) ==
    /\ At(j, "cleanup")
    /\ files' = [files EXCEPT ![j] = IF j \in cancelled THEN {} ELSE @ \ {"tmp"}]
    /\ epc' = [epc EXCEPT ![j] = "off"]
    /\ cancelled' = cancelled \ {j}
    /\ UNCHANGED <<server, memory, jobsFile, linksFile, todo, queued, deleting,
                   sharing, fate, crashes>>

-----------------------------------------------------------------------------
(* Crash and start-up *)

Crash ==
    /\ server # "down"
    /\ crashes < MaxCrashes
    /\ crashes' = crashes + 1
    /\ server' = "down"
    /\ jobs' = Empty /\ links' = {}
    /\ todo' = <<>>
    /\ queued' = {} /\ epc' = [j \in Job |-> "off"]
    /\ cancelled' = {} /\ deleting' = {} /\ sharing' = {}
    /\ UNCHANGED <<disk, fate>>

\* Mutation: an interrupted export gets a status of its own
RecoveredInterrupted(job) ==
    IF job.status = "running" THEN [job EXCEPT !.status = "interrupted"] ELSE job

\* Mutation: an interrupted export is put back in the queue
RecoveredQueued(job) ==
    IF job.status = "running" THEN [job EXCEPT !.status = "queued"] ELSE job

\* an export that was interrupted has failed
Recovered(job) ==
    IF job.status = "running" THEN [job EXCEPT !.status = "failed"] ELSE job

\* Mutation: the files of done jobs are not known
KnownUnlessDone(job) == IF job.status = "failed" THEN job.names ELSE {}

\* the files of a job that are no orphans
Known(job) == IF job.status \in Finished THEN job.names ELSE {}

\* Mutation: every link is kept
KnownLinksAll(recovered) == linksFile

\* the links that still lead to a file
KnownLinks(recovered) == {j \in linksFile : recovered[j].status = "done"}

RecoverJobs ==
    /\ server = "down"
    /\ server' = "recover"
    /\ jobs' = [j \in Job |-> Recovered(jobsFile[j])]
    /\ links' = KnownLinks(jobs')
    /\ todo' = <<RemoveFiles({f \in Job \X Kind :
                     /\ f[2] \in files[f[1]]
                     /\ f[2] \notin Known(jobsFile[f[1]])})>>
                 \o (IF jobs' # jobsFile THEN <<SaveJobs>> ELSE <<>>)
                 \o (IF links' # linksFile THEN <<SaveLinks>> ELSE <<>>)
    /\ UNCHANGED <<disk, threads, fate, crashes>>

\* Mutation: only exports that are submitted from now on are started
StartWorkerEmpty ==
    /\ server = "recover" /\ todo = <<>>
    /\ server' = "up"
    /\ UNCHANGED <<memory, disk, todo, threads, fate, crashes>>

\* Worker.Start enqueues QueuedJobIDs
StartWorker ==
    /\ server = "recover" /\ todo = <<>>
    /\ server' = "up"
    /\ queued' = {j \in Job : jobs[j].status = "queued"}
    /\ UNCHANGED <<memory, disk, todo, epc, cancelled, deleting, sharing, fate,
                   crashes>>

ExportStep(j) ==
    \/ Dispatch(j) \/ OpenSink(j) \/ Abandon(j) \/ PackagePlain(j)
    \/ PackageOpen(j) \/ PackageNextVolume(j) \/ PackageClose(j)
    \/ Fail(j) \/ Publish(j) \/ Cleanup(j)

Request(j) ==
    \/ AddJob(j) \/ Cancel(j) \/ DeleteJob(j) \/ PurgeShare(j)
    \/ CheckShare(j) \/ SaveShare(j) \/ DeleteShare(j)

Next ==
    \/ DiskStep
    \/ \E j \in Job : Request(j) \/ ExportStep(j)
    \/ \E S \in SUBSET Job : PruneExports(S)
    \/ Crash \/ RecoverJobs \/ StartWorker

Spec == Init /\ [][Next]_vars

-----------------------------------------------------------------------------
(* Properties *)

Record == [status : {"none", "queued", "running"} \cup Finished, names : SUBSET Kind]

TypeOK ==
    /\ server \in {"up", "down", "recover"}
    /\ jobs \in [Job -> Record] /\ links \subseteq Job
    /\ jobsFile \in [Job -> Record] /\ linksFile \subseteq Job
    /\ files \in [Job -> SUBSET Kind]
    /\ \A i \in 1 .. Len(todo) : todo[i].op \in {"jobs", "links", "remove", "return"}
    /\ queued \subseteq Job
    /\ epc \in [Job -> {"off", "begin", "fetch", "pack", "one", "many", "saving",
                        "cleanup"}]
    /\ cancelled \subseteq Job /\ deleting \subseteq Job /\ sharing \subseteq Job
    /\ fate \in [Job -> {"new", "submitted", "accepted", "unwanted"}]
    /\ crashes \in 0 .. MaxCrashes

(* Whenever store.mu is free, jobs.json and shares.json say what the maps say:
   no status and no link that a client can see is only in memory. *)
DiskIsCurrent == MutexFree => jobsFile = jobs /\ linksFile = links

(* A job that StartExport accepted, and that nobody asked to remove, is in the
   store whenever the server is up, however often it crashed. *)
AcceptedIsKept ==
    server = "up" => \A j \in Job : fate[j] = "accepted" => InStore(j)

(* A job that is done and wanted, in memory or in jobs.json, has its file, at
   any point of a crash or of the recovery from it. *)
DoneHasFile ==
    \A j \in Job : \A record \in {jobs[j], jobsFile[j]} :
        fate[j] = "accepted" /\ record.status = "done" =>
            record.names \cap {"out", "vol"} \subseteq files[j]

(* A queued job waits in the worker's queue, before and after a restart,
   unless its deletion is under way. *)
QueueIsRestored ==
    MutexFree => \A j \in Job :
        jobs[j].status = "queued" => j \in queued \/ j \in deleting

(* When recovery has ended every file in exports/ is named by a finished job,
   every link points to a done job, and the next crash finds it so: even if
   recovery itself was interrupted before. *)
RecoveryIsClean ==
    server = "recover" /\ todo = <<>> =>
        /\ \A j \in Job : files[j] # {} =>
              jobs[j].status \in Finished /\ files[j] \subseteq jobs[j].names
        /\ \A j \in links : jobs[j].status = "done"
        /\ jobsFile = jobs /\ linksFile = links

(* What jobs.json says of a job only moves forward, across crashes too: no
   export is run twice to an end and none comes back once it is removed. *)
PersistedMovesForward ==
    [][\A j \in Job : jobsFile'[j].status # jobsFile[j].status =>
          <<jobsFile[j].status, jobsFile'[j].status>> \in
              {<<"none", "queued">>, <<"queued", "running">>,
               <<"running", "done">>, <<"running", "failed">>,
               <<"queued", "none">>, <<"running", "none">>,
               <<"done", "none">>, <<"failed", "none">>}]_jobsFile
=============================================================================
