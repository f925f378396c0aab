--------------------------- MODULE JobStoreProofs ---------------------------
(***************************************************************************)
(* What TLAPS proves about JobStore, for any jobs and any number of        *)
(* crashes: types, DoneHasFile and what recovery removes, torn writes or   *)
(* not; and, when no os.WriteFile is cut short, DiskIsCurrent,             *)
(* AcceptedIsKept, QueueIsRestored, RecoveryIsClean and                    *)
(* PersistedMovesForward.  MCJobStoreTorn shows that AcceptedIsKept is     *)
(* lost without that assumption; the jobs that are left are still queued.  *)
(*                                                                         *)
(* The invariant relates the maps, the files and the disk steps that an    *)
(* operation has still to take (Pending): a map may be ahead of its file   *)
(* only while the save is pending, and only by one move of each job        *)
(* (Saving); a file that is to be removed belongs to a job that is not     *)
(* wanted or, in recovery, to none that is finished (Removing); what is    *)
(* kept of an accepted job, in memory and on disk, is enough for the next  *)
(* recovery (Kept, Recovering).  A torn write leaves a file that counts as *)
(* empty (Behind), whatever was in it, and an AddJob that failed may leave *)
(* a job that is queued in the store only (Waiting).                       *)
(***************************************************************************)
EXTENDS JobStore, SequencesExt, TLAPS

Step == {SaveJobs, SaveLinks} \cup [op : {"remove"}, what : SUBSET (Job \X Kind)]
          \cup [op : {"return"}, job : Job, to : {"enqueue", "begin", "cleanup"}]
\* the steps still to be taken
Pending == ToSet(todo)

\* an operation starts with its removals and ends by returning
Shape(s) == /\ s \in Seq(Step)
            /\ \A i \in 1 .. Len(s) : /\ s[i].op = "remove" => i = 1
                                      /\ s[i].op = "return" => i = Len(s)

\* what jobs.json may say next of a job
Moves == {<<"none", "queued">>, <<"queued", "running">>,
          <<"running", "done">>, <<"running", "failed">>,
          <<"queued", "none">>, <<"running", "none">>,
          <<"done", "none">>, <<"failed", "none">>}

\* TypeOK with the shape of todo
Types ==
    /\ server \in {"up", "down", "recover"}
    /\ jobs \in [Job -> Record] /\ jobsFile \in [Job -> Record]
    /\ links \subseteq Job /\ linksFile \subseteq Job
    /\ files \in [Job -> SUBSET Kind]
    /\ queued \subseteq Job
    /\ epc \in [Job -> {"off", "begin", "fetch", "pack", "one", "many", "saving",
                        "cleanup"}]
    /\ cancelled \subseteq Job /\ deleting \subseteq Job /\ sharing \subseteq Job
    /\ fate \in [Job -> {"new", "submitted", "accepted", "unwanted"}]
    /\ crashes \in 0 .. MaxCrashes
    /\ Shape(todo)

\* the status tells whether there is a record
Absent == \A j \in Job : /\ jobs[j].status = "none" <=> jobs[j] = NoJob
                         /\ jobsFile[j].status = "none" <=> jobsFile[j] = NoJob

\* a crash leaves no memory and no goroutine
Crashed == /\ server = "down" => jobs = Empty /\ todo = <<>>
           /\ server # "up" => \A j \in Job : epc[j] = "off"

\* what jobs.json may say of a job while its record is r
Behind(j, r) == \/ jobsFile[j].status = r.status
                \/ <<jobsFile[j].status, r.status>> \in Moves
                \/ TornWrites /\ jobsFile[j].status = "none"

\* a map is ahead of its file only while the save is pending, or when it was torn
Saving ==
    server # "down" =>
      /\ jobsFile = jobs \/ SaveJobs \in Pending \/ (TornWrites /\ jobsFile = Empty)
      /\ linksFile = links \/ SaveLinks \in Pending \/ (TornWrites /\ linksFile = {})
      /\ \A j \in Job : Behind(j, jobs[j])

\* where a goroutine is and what its record says
Progress ==
    \A j \in Job :
      /\ jobs[j].status = "queued" => epc[j] = "off"
      /\ epc[j] \in {"begin", "fetch", "pack", "one", "many"}
           => jobs[j].status \in {"running", "none"}
      /\ fate[j] = "new" => jobs[j] = NoJob /\ jobsFile[j] = NoJob /\ epc[j] = "off"

\* the record is as the operation that is about to return left it
Returning ==
    \A s \in Pending : s.op = "return" =>
      /\ server = "up"
      /\ s.to = "enqueue" => /\ jobs[s.job].status = "queued"
                             /\ fate[s.job] = "submitted"
      /\ s.to = "begin" => jobs[s.job].status = "running"
      /\ s.to = "cleanup" => jobs[s.job].status \in Finished

\* no file of a wanted job is about to be removed, but for recovery's orphans
Removing ==
    \A s \in Pending : s.op = "remove" =>
      \A f \in s.what : \/ fate[f[1]] = "unwanted"
                        \/ /\ server = "recover"
                           /\ f[2] \notin Known(jobsFile[f[1]])

\* a cancelled job is not wanted any more
Unwanted == \A j \in deleting \cup cancelled : fate[j] = "unwanted"

\* an accepted job has its record, in memory and on disk, and its file
Kept ==
    \A j \in Job : fate[j] = "accepted" =>
      /\ ~TornWrites => /\ jobsFile[j].status # "none"
                        /\ server # "down" => jobs[j].status # "none"
      /\ epc[j] # "off" => jobs[j].status # "none"
      /\ epc[j] \in {"pack", "one"} => "out" \in files[j]
      /\ epc[j] = "many" => "vol" \in files[j]
      /\ jobs[j].status = "done" => jobs[j].names \cap {"out", "vol"} \subseteq files[j]
      /\ jobsFile[j].status = "done" =>
           jobsFile[j].names \cap {"out", "vol"} \subseteq files[j]

\* a queued job is in the queue, or about to be put there, unless AddJob failed
Waiting ==
    server = "up" => \A j \in Job : jobs[j].status = "queued" =>
      \/ j \in queued \cup deleting
      \/ Return(j, "enqueue") \in Pending
      \/ TornWrites /\ fate[j] = "submitted"

\* recovery knows the files it keeps and is about to remove the others
Recovering ==
    server = "recover" =>
      /\ \A j \in Job :
           /\ (\E s \in Pending : s.op = "remove") => jobs[j] = Recovered(jobsFile[j])
           /\ \A k \in files[j] : \/ k \in Known(jobs[j])
                                  \/ \E s \in Pending : s.op = "remove" /\ <<j, k>> \in s.what
      /\ \A j \in links : jobs[j].status = "done"

IInv == Types /\ Absent /\ Crashed /\ Saving /\ Progress /\ Returning /\ Removing
        /\ Unwanted /\ Kept /\ Waiting /\ Recovering

-----------------------------------------------------------------------------
(* The disk steps of an operation *)

\* The four kinds of step.
LEMMA StepKinds ==
  ASSUME NEW s \in Step
  PROVE  /\ s.op \in {"jobs", "links", "remove", "return"}
         /\ s.op = "jobs" => s = SaveJobs
         /\ s.op = "links" => s = SaveLinks
         /\ s.op = "remove" => s.what \subseteq Job \X Kind
         /\ s.op = "return" => s.job \in Job /\ s.to \in {"enqueue", "begin", "cleanup"}
  BY DEF Step, SaveJobs, SaveLinks

\* The steps the operations are made of.
LEMMA MadeSteps ==
  /\ SaveJobs \in Step /\ SaveJobs.op = "jobs"
  /\ SaveLinks \in Step /\ SaveLinks.op = "links"
  /\ SaveJobs # SaveLinks
  /\ \A W \in SUBSET (Job \X Kind) :
       /\ RemoveFiles(W) \in Step /\ RemoveFiles(W).op = "remove"
       /\ RemoveFiles(W).what = W
  /\ \A j \in Job, to \in {"enqueue", "begin", "cleanup"} :
       /\ Return(j, to) \in Step /\ Return(j, to).op = "return"
       /\ Return(j, to).job = j /\ Return(j, to).to = to
<1>1. SaveJobs \in Step /\ SaveJobs.op = "jobs"
  BY DEF Step, SaveJobs
<1>2. SaveLinks \in Step /\ SaveLinks.op = "links"
  BY DEF Step, SaveLinks
<1>3. ASSUME NEW W \in SUBSET (Job \X Kind)
      PROVE  /\ RemoveFiles(W) \in Step /\ RemoveFiles(W).op = "remove"
             /\ RemoveFiles(W).what = W
  BY DEF Step, RemoveFiles
<1>4. ASSUME NEW j \in Job, NEW to \in {"enqueue", "begin", "cleanup"}
      PROVE  /\ Return(j, to) \in Step /\ Return(j, to).op = "return"
             /\ Return(j, to).job = j /\ Return(j, to).to = to
  BY DEF Step, Return
<1> QED
  BY <1>1, <1>2, <1>3, <1>4

\* A step that is done leaves the others, and none comes after the return.
LEMMA PopStep ==
  ASSUME NEW s, Shape(s), s # <<>>
  PROVE  /\ Head(s) \in Step /\ Shape(Tail(s))
         /\ ToSet(s) = {Head(s)} \cup ToSet(Tail(s))
         /\ \A x \in ToSet(Tail(s)) : x \in Step /\ x.op # "remove"
         /\ Head(s).op = "return" => ToSet(Tail(s)) = {}
<1> DEFINE t == Tail(s)
           n == Len(s)
           h == Head(s)
<1>1. /\ h = s[1] /\ s[1] \in Step
      /\ n \in Nat /\ n >= 1 /\ DOMAIN s = 1 .. n
      /\ t \in Seq(Step) /\ DOMAIN t = 1 .. n - 1 /\ Len(t) = n - 1
      /\ \A i \in 1 .. n - 1 : t[i] = s[i + 1]
  BY DEF Shape
<1>2. \A i \in 1 .. n : /\ s[i] \in Step
                        /\ s[i].op = "remove" => i = 1
                        /\ s[i].op = "return" => i = n
  BY DEF Shape
<1> HIDE DEF t, n, h
<1>3. ASSUME NEW i \in 1 .. n - 1
      PROVE  i + 1 \in 1 .. n /\ i + 1 # 1 /\ (i + 1 = n => i = n - 1)
  BY <1>1
<1>4. \A i \in 1 .. n - 1 : /\ t[i] \in Step /\ t[i].op # "remove"
                            /\ t[i].op = "return" => i = n - 1
  BY <1>1, <1>2, <1>3
<1>5. Shape(t) /\ \A x \in ToSet(t) : x \in Step /\ x.op # "remove"
  BY <1>1, <1>4 DEF Shape, ToSet
<1>6. ToSet(s) = {h} \cup ToSet(t)
  <2>1. ASSUME NEW i \in 1 .. n, i # 1
        PROVE  i - 1 \in 1 .. n - 1 /\ t[i - 1] = s[i]
    <3>1. i - 1 \in 1 .. n - 1 /\ (i - 1) + 1 = i
      BY <2>1, <1>1
    <3> QED
      BY <3>1, <1>1
  <2>2. 1 \in 1 .. n
    BY <1>1
  <2>3. ToSet(s) \subseteq {h} \cup ToSet(t)
    BY <1>1, <2>1 DEF ToSet
  <2>4. ToSet(t) \subseteq ToSet(s)
    BY <1>1, <1>3 DEF ToSet
  <2>5. h \in ToSet(s)
    BY <1>1, <2>2 DEF ToSet
  <2> QED
    BY <2>3, <2>4, <2>5
<1>7. h.op = "return" => ToSet(t) = {}
  <2> SUFFICES ASSUME h.op = "return" PROVE 1 .. n - 1 = {}
    BY <1>1 DEF ToSet
  <2>1. 1 \in 1 .. n
    BY <1>1
  <2>2. n = 1
    BY <1>1, <1>2, <2>1
  <2> QED
    BY <2>2
<1> QED
  BY <1>1, <1>5, <1>6, <1>7 DEF t, n, h

\* A removal that is put in front of the steps without one.
LEMMA PushRemoval ==
  ASSUME NEW s, Shape(s), \A x \in ToSet(s) : x.op # "remove",
         NEW W \in SUBSET (Job \X Kind)
  PROVE  /\ Shape(<<RemoveFiles(W)>> \o s)
         /\ ToSet(<<RemoveFiles(W)>> \o s) = {RemoveFiles(W)} \cup ToSet(s)
<1> DEFINE r == RemoveFiles(W)
           t == <<r>> \o s
<1>1. r \in Step /\ r.op = "remove"
  BY MadeSteps
<1>2. s \in Seq(Step) /\ Len(s) \in Nat /\ DOMAIN s = 1 .. Len(s)
  BY DEF Shape
<1> HIDE DEF r
<1>3. /\ t \in Seq(Step) /\ Len(t) = Len(s) + 1 /\ DOMAIN t = 1 .. Len(s) + 1
      /\ t[1] = r /\ \A i \in 2 .. Len(s) + 1 : t[i] = s[i - 1]
  BY <1>1, <1>2
<1> HIDE DEF t
<1>4. ASSUME NEW i \in 2 .. Len(s) + 1
      PROVE  i - 1 \in 1 .. Len(s) /\ (i - 1 = Len(s) => i = Len(t))
  BY <1>2, <1>3
<1>5. ASSUME NEW i \in 1 .. Len(s)
      PROVE  i + 1 \in 2 .. Len(s) + 1 /\ t[i + 1] = s[i]
  BY <1>2, <1>3
<1>6. 1 .. Len(s) + 1 = {1} \cup (2 .. Len(s) + 1)
  BY <1>2
<1>7. Shape(t)
  BY <1>1, <1>2, <1>3, <1>4, <1>6 DEF Shape, ToSet
<1>8. ToSet(t) = {r} \cup ToSet(s)
  BY <1>2, <1>3, <1>4, <1>5, <1>6 DEF ToSet
<1> QED
  BY <1>7, <1>8 DEF r, t

\* Nothing to do.
LEMMA NoStep == Shape(<<>>) /\ ToSet(<<>>) = {}
  BY DEF Shape, ToSet

\* A single step.
LEMMA OneStep ==
  ASSUME NEW a \in Step PROVE Shape(<<a>>) /\ ToSet(<<a>>) = {a}
  BY DEF Shape, ToSet

\* Two: a removal comes first, the return last.
LEMMA TwoSteps ==
  ASSUME NEW a \in Step, NEW b \in Step, a.op # "return", b.op # "remove"
  PROVE  Shape(<<a, b>>) /\ ToSet(<<a, b>>) = {a, b}
  BY DEF Shape, ToSet

\* Three.
LEMMA ThreeSteps ==
  ASSUME NEW a \in Step, NEW b \in Step, NEW c \in Step,
         a.op # "return", b.op \notin {"remove", "return"}, c.op # "remove"
  PROVE  Shape(<<a, b, c>>) /\ ToSet(<<a, b, c>>) = {a, b, c}
  BY DEF Shape, ToSet

\* What joining short sequences gives.
LEMMA JoinTwo ==
  ASSUME NEW a \in Step, NEW b \in Step, NEW c \in Step
  PROVE  /\ <<a>> \o <<>> = <<a>> /\ <<a>> \o <<b>> = <<a, b>>
         /\ <<a, b>> \o <<>> = <<a, b>> /\ <<a, b>> \o <<c>> = <<a, b, c>>
<1>1. <<a>> \o <<>> = <<a>>
  OBVIOUS
<1>2. <<a>> \o <<b>> = <<a, b>>
  <2> DEFINE t == <<a>> \o <<b>>
  <2>1. t \in Seq(Step) /\ Len(t) = 2 /\ t[1] = a /\ t[2] = b
    OBVIOUS
  <2> HIDE DEF t
  <2>2. t = <<a, b>>
    BY <2>1
  <2> QED
    BY <2>2 DEF t
<1>3. <<a, b>> \o <<>> = <<a, b>>
  OBVIOUS
<1>4. <<a, b>> \o <<c>> = <<a, b, c>>
  <2> DEFINE t == <<a, b>> \o <<c>>
  <2>1. t \in Seq(Step) /\ Len(t) = 3 /\ t[1] = a /\ t[2] = b /\ t[3] = c
    OBVIOUS
  <2> HIDE DEF t
  <2>2. t = <<a, b, c>>
    BY <2>1
  <2> QED
    BY <2>2 DEF t
<1> QED
  BY <1>1, <1>2, <1>3, <1>4

-----------------------------------------------------------------------------
(* The first state, and the steps of a goroutine on its files *)

\* The records that the code makes.
LEMMA Records ==
  /\ NoJob \in Record /\ NoJob.status = "none"
  /\ NewJob \in Record /\ NewJob.status = "queued"
  /\ \A r \in Record : r.status = "none" \/ r.status \in {"queued", "running"}
                       \/ r.status \in Finished
  /\ \A r \in Record, st \in {"running", "failed"} :
       /\ [r EXCEPT !.status = st] \in Record
       /\ [r EXCEPT !.status = st].status = st
  BY DEF Record, NoJob, NewJob, Kind, Finished

\* The server starts with an empty store.
LEMMA InitHolds == Init => IInv
<1> SUFFICES ASSUME Init PROVE IInv
  OBVIOUS
<1>1. Types
  BY Records, StoreAssumption, NoStep DEF Init, Types, Empty
<1>2. Pending = {}
  BY NoStep DEF Init, Pending
<1>3. Absent /\ Crashed /\ Saving /\ Progress /\ Unwanted /\ Kept /\ Waiting /\ Recovering
  BY Records DEF Init, Empty, Absent, Crashed, Saving, Behind, Progress, Unwanted,
                 Kept, Waiting, Recovering
<1>4. Returning /\ Removing
  BY <1>2 DEF Returning, Removing
<1> QED
  BY <1>1, <1>3, <1>4 DEF IInv

\* What a step of a goroutine on its files must respect.
LEMMA FilesKeep ==
  ASSUME IInv, server = "up", NEW j \in Job, NEW F \in SUBSET Kind,
         NEW pc \in {"fetch", "pack", "one", "many", "cleanup", "off"},
         epc[j] \in {"begin", "fetch", "pack", "cleanup"},
         epc[j] = "cleanup" => pc = "off",
         fate[j] = "accepted" => /\ pc \in {"pack", "one"} => "out" \in F
                                 /\ pc = "many" => "vol" \in F
                                 /\ epc[j] = "cleanup" => files[j] \ {"tmp"} \subseteq F,
         files' = [files EXCEPT ![j] = F], epc' = [epc EXCEPT ![j] = pc],
         cancelled' \subseteq cancelled,
         UNCHANGED <<server, memory, jobsFile, linksFile, todo, queued, deleting,
                     sharing, fate, crashes>>
  PROVE  IInv'
<1>1. /\ \A i \in Job : i # j => files'[i] = files[i] /\ epc'[i] = epc[i]
      /\ files'[j] = F /\ epc'[j] = pc
      /\ Pending' = Pending
  BY DEF IInv, Types, Pending
<1>2. Types'
  BY DEF IInv, Types, memory
<1>3. Absent' /\ Crashed' /\ Saving' /\ Returning' /\ Removing' /\ Unwanted' /\ Waiting'
  BY <1>1 DEF IInv, Absent, Crashed, Saving, Behind, Returning, Removing, Unwanted, Waiting,
              memory
<1>4. Progress'
  BY <1>1 DEF IInv, Progress, memory
<1>5. Kept'
  <2> SUFFICES ASSUME fate[j] = "accepted"
               PROVE  /\ jobs[j].status = "done" =>
                           jobs[j].names \cap {"out", "vol"} \subseteq F
                      /\ jobsFile[j].status = "done" =>
                           jobsFile[j].names \cap {"out", "vol"} \subseteq F
    BY <1>1 DEF IInv, Kept, memory
  <2>1. CASE epc[j] = "cleanup"
    BY <2>1 DEF IInv, Kept
  <2>2. CASE epc[j] # "cleanup"
    <3>1. jobs[j].status = "running"
      BY <2>2 DEF IInv, Progress, Kept
    <3>2. jobsFile[j].status # "done"
      BY <3>1 DEF IInv, Saving, Behind, Moves
    <3> QED
      BY <3>1, <3>2
  <2> QED
    BY <2>1, <2>2
<1>6. Recovering'
  BY DEF Recovering
<1> QED
  BY <1>2, <1>3, <1>4, <1>5, <1>6 DEF IInv

\* Sink and packaging respect it: they only take a file that the next one replaces.
LEMMA FileStepsKeep ==
  ASSUME IInv, NEW j \in Job,
         \/ OpenSink(j) \/ Abandon(j) \/ PackagePlain(j) \/ PackageOpen(j)
         \/ PackageNextVolume(j) \/ PackageClose(j)
  PROVE  IInv'
<1>1. files[j] \in SUBSET Kind
  BY DEF IInv, Types
<1>2. j \in cancelled => fate[j] = "unwanted"
  BY DEF IInv, Unwanted
<1>3. epc[j] = "pack" /\ fate[j] = "accepted" => "out" \in files[j]
  BY DEF IInv, Kept
<1>4. CASE OpenSink(j)
  BY <1>1, <1>4, FilesKeep DEF OpenSink, At, FileStep, Kind
<1>5. CASE Abandon(j)
  BY <1>1, <1>5, FilesKeep DEF Abandon, At, FileStep, Kind
<1>6. CASE PackagePlain(j)
  BY <1>1, <1>2, <1>6, FilesKeep DEF PackagePlain, At, FileStep, Packaged, Kind
<1>7. CASE PackageOpen(j)
  BY <1>1, <1>7, FilesKeep DEF PackageOpen, At, FileStep, Kind
<1>8. CASE PackageNextVolume(j)
  BY <1>1, <1>3, <1>8, FilesKeep DEF PackageNextVolume, At, FileStep, Kind
<1>9. CASE PackageClose(j)
  BY <1>1, <1>2, <1>3, <1>9, FilesKeep DEF PackageClose, At, FileStep, Packaged, Kind
<1> QED
  BY <1>4, <1>5, <1>6, <1>7, <1>8, <1>9

\* So does the clean-up, which removes all files of a cancelled job only.
LEMMA CleanupKeeps ==
  ASSUME IInv, NEW j \in Job, Cleanup(j) PROVE IInv'
<1>1. files[j] \in SUBSET Kind
  BY DEF IInv, Types
<1>2. j \in cancelled => fate[j] = "unwanted"
  BY DEF IInv, Unwanted
<1> DEFINE F == IF j \in cancelled THEN {} ELSE files[j] \ {"tmp"}
<1>3. F \in SUBSET Kind /\ files' = [files EXCEPT ![j] = F]
  BY <1>1 DEF Cleanup
<1>4. fate[j] = "accepted" => files[j] \ {"tmp"} \subseteq F
  BY <1>2
<1> HIDE DEF F
<1> QED
  BY <1>3, <1>4, FilesKeep DEF Cleanup, At

-----------------------------------------------------------------------------
(* The operations on the store *)

\* While store.mu is free nothing is pending, and the files say what the maps say,
\* but for those that were torn.
LEMMA MutexIsFree ==
  ASSUME IInv, MutexFree
  PROVE  /\ server = "up" /\ Pending = {}
         /\ jobsFile = jobs \/ (TornWrites /\ jobsFile = Empty)
         /\ linksFile = links \/ (TornWrites /\ linksFile = {})
         /\ \A j \in Job : \/ jobsFile[j] = jobs[j]
                           \/ TornWrites /\ jobsFile[j].status = "none"
<1>1. Pending = {} /\ server = "up"
  BY NoStep DEF MutexFree, Pending
<1>2. /\ jobsFile = jobs \/ (TornWrites /\ jobsFile = Empty)
      /\ linksFile = links \/ (TornWrites /\ linksFile = {})
  BY <1>1 DEF IInv, Saving
<1> QED
  BY <1>1, <1>2, Records DEF Empty

\* A new job is about to be saved and enqueued.
LEMMA AddJobKeeps ==
  ASSUME IInv, NEW j \in Job, AddJob(j) PROVE IInv'
<1>1. /\ MutexFree /\ fate[j] = "new" /\ jobs[j] = NoJob /\ epc[j] = "off"
      /\ jobsFile[j] = NoJob /\ server = "up" /\ server' = server
      /\ UNCHANGED <<links, jobsFile, linksFile, files, queued, epc, cancelled,
                     deleting, sharing, crashes>>
  BY MutexIsFree DEF AddJob, IInv, Progress, disk, threads
<1>2. /\ jobs'[j] = NewJob /\ fate'[j] = "submitted"
      /\ \A i \in Job : i # j => jobs'[i] = jobs[i] /\ fate'[i] = fate[i]
  BY DEF AddJob, IInv, Types
<1>3. Shape(todo') /\ Pending' = {SaveJobs, Return(j, "enqueue")}
  BY MadeSteps, TwoSteps DEF AddJob, Pending
<1>4. Types'
  <2>1. jobs' \in [Job -> Record]
        /\ fate' \in [Job -> {"new", "submitted", "accepted", "unwanted"}]
    BY Records DEF IInv, Types, AddJob
  <2> QED
    BY <1>1, <1>3, <2>1 DEF IInv, Types
<1>5. Absent'
  BY <1>1, <1>2, Records DEF IInv, Absent
<1>6. Crashed' /\ Unwanted'
  BY <1>1, <1>2 DEF IInv, Types, Crashed, Unwanted
<1>7. Saving'
  <2>1. \A i \in Job : Behind(i, jobs[i])'
    BY <1>1, <1>2, MutexIsFree, Records DEF Behind, Moves
  <2> QED
    BY <1>1, <1>3, <2>1, MutexIsFree DEF Saving
<1>8. Progress'
  BY <1>1, <1>2, Records DEF IInv, Progress
<1>9. Returning'
  BY <1>1, <1>2, <1>3, MadeSteps, Records DEF Returning
<1>10. Removing'
  BY <1>3, MadeSteps DEF Removing
<1>11. Kept'
  BY <1>1, <1>2 DEF IInv, Kept
<1>12. Waiting'
  <2>1. \A i \in Job \ {j} : jobs[i].status = "queued" =>
           i \in queued \cup deleting \/ (TornWrites /\ fate[i] = "submitted")
    BY <1>1, MutexIsFree DEF IInv, Waiting
  <2> QED
    BY <1>1, <1>2, <1>3, <2>1 DEF Waiting
<1>13. Recovering'
  BY <1>1 DEF Recovering
<1> QED
  BY <1>4, <1>5, <1>6, <1>7, <1>8, <1>9, <1>10, <1>11, <1>12, <1>13 DEF IInv

\* A cancelled job leaves the queue on its way to deletion.
LEMMA CancelKeeps ==
  ASSUME IInv, NEW j \in Job, Cancel(j) PROVE IInv'
<1>1. /\ server = "up" /\ Pending = {} /\ Pending' = Pending
      /\ jobs[j].status # "none"
      /\ UNCHANGED <<server, jobs, links, jobsFile, linksFile, files, todo, epc>>
  BY MutexIsFree DEF Cancel, InStore, IInv, Absent, Pending, memory, disk
<1>2. /\ fate'[j] = "unwanted" /\ \A i \in Job : i # j => fate'[i] = fate[i]
      /\ queued' = queued \ {j} /\ deleting' = deleting \cup {j}
      /\ cancelled' \subseteq cancelled \cup {j}
  BY DEF Cancel, IInv, Types
<1>3. Types'
  BY DEF Cancel, IInv, Types, memory, disk
<1>4. Absent' /\ Crashed' /\ Saving' /\ Recovering'
  BY <1>1 DEF IInv, Absent, Crashed, Saving, Behind, Recovering
<1>5. Returning' /\ Removing'
  BY <1>1 DEF Returning, Removing
<1>6. Progress' /\ Unwanted'
  BY <1>1, <1>2 DEF IInv, Types, Progress, Unwanted
<1>7. Kept'
  BY <1>1, <1>2 DEF IInv, Kept
<1>8. Waiting'
  BY <1>1, <1>2 DEF IInv, Waiting
<1> QED
  BY <1>3, <1>4, <1>5, <1>6, <1>7, <1>8 DEF IInv

\* The records of unwanted jobs are removed.
LEMMA RemoveJobsKeeps ==
  ASSUME IInv, MutexFree, NEW S \in SUBSET Job, NEW c \in BOOLEAN, RemoveJobs(S, c),
         links \cap S # {} => c,
         \A j \in S : jobs[j].status # "none" /\ fate'[j] = "unwanted",
         \A j \in Job \ S : fate'[j] = fate[j],
         fate' \in [Job -> {"new", "submitted", "accepted", "unwanted"}],
         deleting \ S \subseteq deleting', deleting' \subseteq deleting,
         UNCHANGED <<server, disk, queued, epc, cancelled, sharing, crashes>>
  PROVE  IInv'
<1>1. /\ server = "up" /\ server' = server /\ Pending = {}
      /\ UNCHANGED <<jobsFile, linksFile, files, queued, epc, cancelled, sharing, crashes>>
  BY MutexIsFree DEF disk
<1>2. /\ \A j \in S : jobs'[j] = NoJob
      /\ \A j \in Job \ S : jobs'[j] = jobs[j]
      /\ links' = links \ S
  BY DEF RemoveJobs
<1> DEFINE W == {f \in S \X Kind : f[2] \in jobs[f[1]].names}
<1>3. W \in SUBSET (Job \X Kind) /\ \A f \in W : f[1] \in S
  OBVIOUS
<1>4. /\ Shape(todo') /\ SaveJobs \in Pending' /\ (c => SaveLinks \in Pending')
      /\ Pending' \subseteq {RemoveFiles(W), SaveJobs, SaveLinks}
  <2>1. todo' = <<RemoveFiles(W), SaveJobs>> \o (IF c THEN <<SaveLinks>> ELSE <<>>)
    BY DEF RemoveJobs
  <2> HIDE DEF W
  <2>2. CASE c
    <3>1. /\ todo' = <<RemoveFiles(W), SaveJobs>> \o <<SaveLinks>>
          /\ RemoveFiles(W) \in Step /\ SaveJobs \in Step /\ SaveLinks \in Step
      BY <1>3, <2>1, <2>2, MadeSteps
    <3>2. todo' = <<RemoveFiles(W), SaveJobs, SaveLinks>>
      BY <3>1, JoinTwo
    <3> QED
      BY <3>2, <1>3, MadeSteps, ThreeSteps DEF Pending
  <2>3. CASE ~c
    <3>1. todo' = <<RemoveFiles(W), SaveJobs>>
      BY <1>3, <2>1, <2>3, MadeSteps, JoinTwo
    <3> QED
      BY <3>1, <1>3, <2>3, MadeSteps, TwoSteps DEF Pending
  <2> QED
    BY <2>2, <2>3
<1> HIDE DEF W
<1>5. jobs' \in [Job -> Record]
  BY Records DEF RemoveJobs, IInv, Types
<1>6. Types'
  <2>1. /\ deleting' \subseteq Job /\ links' \subseteq Job
        /\ UNCHANGED <<server, jobsFile, linksFile, files, queued, epc, cancelled,
                       sharing, crashes>>
    BY <1>1, <1>2 DEF IInv, Types
  <2> QED
    BY <1>4, <1>5, <2>1 DEF IInv, Types
<1>7. Absent'
  BY <1>1, <1>2, Records DEF IInv, Absent
<1>8. Crashed' /\ Unwanted'
  BY <1>1, <1>2 DEF IInv, Types, Crashed, Unwanted
<1>9. Saving'
  <2>1. links' = links \/ c
    BY <1>2
  <2>2. \A j \in S : jobs[j].status \in {"queued", "running", "done", "failed"}
    BY Records DEF IInv, Types, Finished
  <2>3. \A j \in Job : Behind(j, jobs[j])'
    BY <1>1, <1>2, <2>2, MutexIsFree, Records DEF Behind, Moves
  <2> QED
    BY <1>1, <1>4, <2>1, <2>3, MutexIsFree DEF Saving
<1>10. Progress' /\ Kept'
  BY <1>1, <1>2, Records DEF IInv, Progress, Kept
<1>11. Returning'
  BY <1>3, <1>4, MadeSteps DEF Returning
<1>12. Removing'
  BY <1>3, <1>4, MadeSteps DEF Removing
<1>13. Waiting'
  BY <1>1, <1>2, Records DEF IInv, Waiting
<1>14. Recovering'
  BY <1>1 DEF Recovering
<1> QED
  BY <1>6, <1>7, <1>8, <1>9, <1>10, <1>11, <1>12, <1>13, <1>14 DEF IInv

\* Operations that leave the records alone.
LEMMA LinksKeep ==
  ASSUME IInv, MutexFree, Shape(todo'), Pending' \subseteq {SaveJobs, SaveLinks},
         links' \subseteq Job, links' = links \/ SaveLinks \in Pending',
         \A i \in Job : \/ fate'[i] = fate[i]
                        \/ fate'[i] = "unwanted" /\ jobs[i].status # "queued",
         fate' \in [Job -> {"new", "submitted", "accepted", "unwanted"}],
         deleting' \subseteq deleting,
         \A i \in deleting \ deleting' : jobs[i].status # "queued",
         sharing' \subseteq Job,
         UNCHANGED <<server, jobs, disk, queued, epc, cancelled, crashes>>
  PROVE  IInv'
<1>1. /\ server = "up" /\ server' = server
      /\ UNCHANGED <<jobs, jobsFile, linksFile, files, queued, epc, cancelled, crashes>>
      /\ Pending = {}
  BY MutexIsFree DEF disk
<1>2. Types'
  BY <1>1 DEF IInv, Types
<1>3. Absent' /\ Crashed'
  BY <1>1 DEF IInv, Absent, Crashed
<1>4. Unwanted'
  BY <1>1 DEF IInv, Types, Unwanted
<1>5. Saving'
  <2>1. \A i \in Job : Behind(i, jobs[i])'
    BY <1>1, MutexIsFree DEF Behind
  <2> QED
    BY <1>1, <2>1, MutexIsFree DEF Saving
<1>6. Progress' /\ Kept'
  BY <1>1 DEF IInv, Progress, Kept
<1>7. Returning' /\ Removing'
  BY MadeSteps DEF Returning, Removing
<1>8. Waiting'
  BY <1>1 DEF IInv, Waiting
<1>9. Recovering'
  BY <1>1 DEF Recovering
<1> QED
  BY <1>2, <1>3, <1>4, <1>5, <1>6, <1>7, <1>8, <1>9 DEF IInv

\* Deletion, of a job that may be gone already.
LEMMA DeleteJobKeeps ==
  ASSUME IInv, NEW j \in Job, DeleteJob(j) PROVE IInv'
<1>1. fate[j] = "unwanted" /\ deleting' = deleting \ {j} /\ MutexFree /\ j \in deleting
      /\ UNCHANGED <<server, disk, queued, epc, cancelled, sharing, fate, crashes>>
  BY DEF DeleteJob, IInv, Unwanted
<1>2. fate \in [Job -> {"new", "submitted", "accepted", "unwanted"}]
      /\ sharing \subseteq Job /\ links \subseteq Job /\ Shape(todo)
  BY DEF IInv, Types
<1>3. CASE InStore(j)
  <2>1. RemoveJobs({j}, j \in links) /\ jobs[j].status # "none"
    BY <1>3 DEF DeleteJob, InStore, IInv, Absent
  <2>2. /\ {j} \in SUBSET Job /\ (j \in links) \in BOOLEAN
        /\ links \cap {j} # {} => j \in links
        /\ \A i \in {j} : jobs[i].status # "none" /\ fate'[i] = "unwanted"
        /\ \A i \in Job \ {j} : fate'[i] = fate[i]
        /\ deleting \ {j} \subseteq deleting' /\ deleting' \subseteq deleting
    BY <1>1, <2>1
  <2> QED
    BY <1>1, <1>2, <2>1, <2>2, RemoveJobsKeeps
<1>4. CASE ~InStore(j)
  <2>1. /\ jobs[j].status # "queued" /\ jobs' = jobs /\ links' = links /\ todo' = todo
        /\ Pending' = {}
    BY <1>1, <1>4, MutexIsFree, Records DEF DeleteJob, InStore, memory, Pending
  <2> QED
    BY <1>1, <1>2, <2>1, LinksKeep
<1> QED
  BY <1>3, <1>4

\* Retention.
LEMMA PruneExportsKeeps ==
  ASSUME IInv, NEW S \in SUBSET Job, PruneExports(S) PROVE IInv'
<1>1. /\ MutexFree /\ RemoveJobs(S, TRUE) /\ \A j \in S : jobs[j].status # "none"
      /\ fate' = [j \in Job |-> IF j \in S THEN "unwanted" ELSE fate[j]]
      /\ UNCHANGED <<server, disk, threads, crashes>>
  BY DEF PruneExports, Finished
<1>2. /\ fate' \in [Job -> {"new", "submitted", "accepted", "unwanted"}]
      /\ \A j \in S : fate'[j] = "unwanted"
      /\ \A j \in Job \ S : fate'[j] = fate[j]
  BY <1>1 DEF IInv, Types
<1>3. UNCHANGED <<server, disk, queued, epc, cancelled, deleting, sharing, crashes>>
  BY <1>1 DEF threads
<1> QED
  BY <1>1, <1>2, <1>3, RemoveJobsKeeps

\* The purge of a link, whose job may be gone already.
LEMMA PurgeShareKeeps ==
  ASSUME IInv, NEW j \in Job, PurgeShare(j) PROVE IInv'
<1>1. /\ MutexFree /\ fate'[j] = "unwanted"
      /\ \A i \in Job : i # j => fate'[i] = fate[i]
      /\ fate' \in [Job -> {"new", "submitted", "accepted", "unwanted"}]
      /\ UNCHANGED <<server, disk, queued, epc, cancelled, deleting, sharing, crashes>>
  BY DEF PurgeShare, IInv, Types, threads
<1>2. CASE InStore(j)
  <2>1. RemoveJobs({j}, TRUE) /\ jobs[j].status # "none"
    BY <1>2 DEF PurgeShare, InStore, IInv, Absent
  <2>2. /\ {j} \in SUBSET Job
        /\ \A i \in {j} : jobs[i].status # "none" /\ fate'[i] = "unwanted"
        /\ \A i \in Job \ {j} : fate'[i] = fate[i]
    BY <1>1, <2>1
  <2> QED
    BY <1>1, <2>1, <2>2, RemoveJobsKeeps
<1>3. CASE ~InStore(j)
  <2>1. links' = links \ {j} /\ todo' = <<SaveLinks>> /\ jobs' = jobs
        /\ jobs[j].status # "queued"
    BY <1>3, Records DEF PurgeShare, InStore
  <2>2. Shape(todo') /\ Pending' = {SaveLinks}
    BY <2>1, MadeSteps, OneStep DEF Pending
  <2>3. links' \subseteq Job /\ sharing \subseteq Job
    BY <2>1 DEF IInv, Types
  <2> QED
    BY <1>1, <2>1, <2>2, <2>3, LinksKeep
<1> QED
  BY <1>2, <1>3

\* Links that come and go leave the jobs alone.
LEMMA SharesKeep ==
  ASSUME IInv, NEW j \in Job, CheckShare(j) \/ SaveShare(j) \/ DeleteShare(j)
  PROVE  IInv'
<1>1. /\ fate \in [Job -> {"new", "submitted", "accepted", "unwanted"}]
      /\ links \subseteq Job /\ sharing \subseteq Job /\ Shape(todo)
  BY DEF IInv, Types
<1>2. CASE CheckShare(j)
  <2>1. /\ MutexFree /\ sharing' = sharing \cup {j} /\ links' = links /\ todo' = todo
        /\ UNCHANGED <<server, jobs, disk, queued, epc, cancelled, deleting, fate, crashes>>
    BY <1>2 DEF CheckShare, memory
  <2>2. Pending' = {}
    BY <2>1, MutexIsFree DEF Pending
  <2> QED
    BY <1>1, <2>1, <2>2, LinksKeep
<1>3. CASE SaveShare(j)
  <2>1. /\ MutexFree /\ sharing' = sharing \ {j} /\ links' = links \cup {j}
        /\ UNCHANGED <<server, jobs, disk, queued, epc, cancelled, deleting, fate, crashes>>
    BY <1>3 DEF SaveShare
  <2>2. todo' \in {<<SaveLinks>>, <<SaveLinks, SaveJobs>>}
    BY <1>3 DEF SaveShare
  <2>3. Shape(todo') /\ SaveLinks \in Pending' /\ Pending' \subseteq {SaveLinks, SaveJobs}
    BY <2>2, MadeSteps, OneStep, TwoSteps DEF Pending
  <2> QED
    BY <1>1, <2>1, <2>3, LinksKeep
<1>4. CASE DeleteShare(j)
  <2>1. /\ MutexFree /\ links' = links \ {j} /\ todo' = <<SaveLinks>>
        /\ UNCHANGED <<server, jobs, disk, queued, epc, cancelled, deleting, sharing,
                       fate, crashes>>
    BY <1>4 DEF DeleteShare, threads
  <2>2. Shape(todo') /\ Pending' = {SaveLinks}
    BY <2>1, MadeSteps, OneStep DEF Pending
  <2> QED
    BY <1>1, <2>1, <2>2, LinksKeep
<1> QED
  BY <1>2, <1>3, <1>4

\* A status that a goroutine stores: one that the job may move to.
LEMMA UpdateJobKeeps ==
  ASSUME IInv, MutexFree, NEW j \in Job, NEW rec \in Record,
         NEW next \in {"begin", "cleanup"}, UpdateJob(j, rec, next),
         queued' \subseteq queued, queued \ {j} \subseteq queued',
         <<jobs[j].status, rec.status>> \in Moves \/ jobs[j] = NoJob,
         rec.status \in {"running", "done", "failed"},
         next = "begin" => rec.status = "running" /\ jobs[j] # NoJob,
         next = "cleanup" => rec.status # "running" /\ epc[j] # "off",
         fate[j] = "accepted" /\ rec.status = "done" =>
            rec.names \cap {"out", "vol"} \subseteq files[j],
         UNCHANGED <<server, links, disk, cancelled, deleting, sharing, fate, crashes>>
  PROVE  IInv'
<1>1. /\ server = "up" /\ server' = server
      /\ UNCHANGED <<links, jobsFile, linksFile, files, cancelled, deleting, sharing,
                     fate, crashes>>
      /\ Pending = {}
  BY MutexIsFree DEF disk
<1>2. CASE InStore(j)
  <2>1. /\ jobs'[j] = rec /\ epc'[j] = "saving"
        /\ \A i \in Job : i # j => jobs'[i] = jobs[i] /\ epc'[i] = epc[i]
        /\ jobs' \in [Job -> Record]
        /\ epc' \in [Job -> {"off", "begin", "fetch", "pack", "one", "many", "saving",
                             "cleanup"}]
        /\ todo' = <<SaveJobs, Return(j, next)>>
        /\ jobs[j] # NoJob /\ fate[j] # "new"
    BY <1>2 DEF UpdateJob, InStore, IInv, Types, Progress
  <2>2. Shape(todo') /\ Pending' = {SaveJobs, Return(j, next)}
    BY <2>1, MadeSteps, TwoSteps DEF Pending
  <2>3. Types'
    BY <1>1, <2>1, <2>2 DEF IInv, Types
  <2>4. Absent'
    BY <1>1, <2>1, Records DEF IInv, Absent
  <2>5. Crashed' /\ Unwanted' /\ Recovering'
    BY <1>1 DEF IInv, Crashed, Unwanted, Recovering
  <2>6. Saving'
    <3>1. \A i \in Job : Behind(i, jobs[i])'
      BY <1>1, <2>1, MutexIsFree DEF Behind
    <3> QED
      BY <1>1, <2>2, <3>1, MutexIsFree DEF Saving
  <2>7. Progress'
    BY <1>1, <2>1 DEF IInv, Progress
  <2>8. Returning' /\ Removing'
    BY <1>1, <2>1, <2>2, MadeSteps DEF Returning, Removing, Finished
  <2>9. Kept'
    BY <1>1, <2>1 DEF IInv, Kept
  <2>10. Waiting'
    BY <1>1, <2>1 DEF IInv, Waiting
  <2> QED
    BY <2>3, <2>4, <2>5, <2>6, <2>7, <2>8, <2>9, <2>10 DEF IInv
<1>3. CASE ~InStore(j)
  <2>1. /\ jobs' = jobs /\ todo' = todo /\ Pending' = Pending
        /\ jobs[j] = NoJob /\ next = "cleanup" /\ epc[j] # "off"
        /\ epc'[j] = "cleanup" /\ \A i \in Job : i # j => epc'[i] = epc[i]
        /\ epc' \in [Job -> {"off", "begin", "fetch", "pack", "one", "many", "saving",
                             "cleanup"}]
    BY <1>3 DEF UpdateJob, InStore, IInv, Types, Pending
  <2>2. Types'
    BY <1>1, <2>1 DEF IInv, Types
  <2>3. Absent' /\ Crashed' /\ Unwanted' /\ Recovering'
    BY <1>1, <2>1 DEF IInv, Absent, Crashed, Unwanted, Recovering
  <2>4. Saving' /\ Returning' /\ Removing'
    BY <1>1, <2>1 DEF IInv, Saving, Behind, Returning, Removing
  <2>5. Progress'
    BY <1>1, <2>1, Records DEF IInv, Progress
  <2>6. Kept'
    BY <1>1, <2>1 DEF IInv, Kept
  <2>7. Waiting'
    BY <1>1, <2>1, Records DEF IInv, Waiting
  <2> QED
    BY <2>2, <2>3, <2>4, <2>5, <2>6, <2>7 DEF IInv
<1> QED
  BY <1>2, <1>3

\* The dispatcher stores that a queued job is running.
LEMMA DispatchKeeps ==
  ASSUME IInv, NEW j \in Job, Dispatch(j) PROVE IInv'
<1>1. /\ MutexFree /\ queued' = queued \ {j} /\ jobs[j] \in Record
      /\ UNCHANGED <<server, links, disk, cancelled, deleting, sharing, fate, crashes>>
  BY DEF Dispatch, IInv, Types
<1>2. CASE jobs[j].status = "queued"
  <2> DEFINE rec == WithStatus(j, "running")
  <2>1. UpdateJob(j, rec, "begin") /\ rec \in Record /\ rec.status = "running"
    BY <1>1, <1>2, Records DEF Dispatch, WithStatus
  <2>2. jobs[j] # NoJob /\ <<jobs[j].status, rec.status>> \in Moves
    BY <1>2, <2>1, Records DEF Moves
  <2> HIDE DEF rec
  <2> QED
    BY <1>1, <2>1, <2>2, UpdateJobKeeps
<1>3. CASE jobs[j].status # "queued"
  <2>1. UNCHANGED <<server, jobs, links, jobsFile, linksFile, files, todo, epc, cancelled,
                    deleting, sharing, fate, crashes>>
        /\ Pending' = Pending
    BY <1>1, <1>3 DEF Dispatch, disk, Pending
  <2>2. Types'
    BY <1>1, <2>1 DEF IInv, Types
  <2>3. Absent' /\ Crashed' /\ Saving' /\ Progress' /\ Unwanted' /\ Kept'
    BY <2>1 DEF IInv, Absent, Crashed, Saving, Behind, Progress, Unwanted, Kept
  <2>4. Returning' /\ Removing' /\ Recovering'
    BY <2>1 DEF IInv, Returning, Removing, Recovering
  <2>5. Waiting'
    BY <1>1, <1>3, <2>1 DEF IInv, Waiting
  <2> QED
    BY <2>2, <2>3, <2>4, <2>5 DEF IInv
<1> QED
  BY <1>2, <1>3

\* A goroutine stores that its export has failed.
LEMMA FailKeeps ==
  ASSUME IInv, NEW j \in Job, Fail(j) PROVE IInv'
<1> DEFINE rec == WithStatus(j, "failed")
<1>1. /\ MutexFree /\ UpdateJob(j, rec, "cleanup") /\ queued' = queued
      /\ epc[j] \in {"begin", "fetch", "pack"}
      /\ UNCHANGED <<server, links, disk, cancelled, deleting, sharing, fate, crashes>>
  BY DEF Fail
<1>2. rec \in Record /\ rec.status = "failed"
  BY Records DEF WithStatus, IInv, Types
<1>3. <<jobs[j].status, rec.status>> \in Moves \/ jobs[j] = NoJob
  BY <1>1, <1>2 DEF IInv, Progress, Absent, Moves
<1> HIDE DEF rec
<1> QED
  BY <1>1, <1>2, <1>3, UpdateJobKeeps

\* It stores that it is done, when the file the record names is there.
LEMMA PublishKeeps ==
  ASSUME IInv, NEW j \in Job, Publish(j) PROVE IInv'
<1> DEFINE rec == [status |-> "done",
                   names |-> IF epc[j] = "many" THEN {"vol"} ELSE {"out", "tmp"}]
<1>1. /\ MutexFree /\ UpdateJob(j, rec, "cleanup") /\ queued' = queued
      /\ epc[j] \in {"one", "many"}
      /\ UNCHANGED <<server, links, disk, cancelled, deleting, sharing, fate, crashes>>
  BY DEF Publish
<1>2. rec \in Record /\ rec.status = "done"
  BY DEF Record, Finished, Kind
<1>3. <<jobs[j].status, rec.status>> \in Moves \/ jobs[j] = NoJob
  BY <1>1, <1>2 DEF IInv, Progress, Absent, Moves
<1>4. fate[j] = "accepted" => rec.names \cap {"out", "vol"} \subseteq files[j]
  BY <1>1 DEF IInv, Kept
<1> HIDE DEF rec
<1> QED
  BY <1>1, <1>2, <1>3, <1>4, UpdateJobKeeps

-----------------------------------------------------------------------------
(* The disk steps *)

\* What is known of the step that comes next, and of those after it.
LEMMA NextStep ==
  ASSUME IInv, todo # <<>>
  PROVE  /\ server # "down" /\ Head(todo) \in Step /\ Shape(Tail(todo))
         /\ Pending = {Head(todo)} \cup ToSet(Tail(todo))
         /\ \A x \in ToSet(Tail(todo)) : x \in Step /\ x.op # "remove"
         /\ Head(todo).op = "return" => ToSet(Tail(todo)) = {}
<1>1. Shape(todo) /\ server # "down"
  BY DEF IInv, Types, Crashed
<1> QED
  BY <1>1, PopStep DEF Pending

\* A file goes that no wanted job names.
LEMMA RemoveFileKeeps ==
  ASSUME IInv, RemoveFile PROVE IInv'
<1> DEFINE h == Head(todo)
           rest == ToSet(Tail(todo))
           left == {f \in h.what : f[2] \in files[f[1]]}
<1>1. /\ todo # <<>> /\ h.op = "remove"
      /\ UNCHANGED <<server, jobs, links, jobsFile, linksFile, queued, epc, cancelled,
                     deleting, sharing, fate, crashes>>
  BY DEF RemoveFile, Doing, memory, threads
<1>2. /\ server # "down" /\ h \in Step /\ Shape(Tail(todo))
      /\ Pending = {h} \cup rest
      /\ \A x \in rest : x \in Step /\ x.op # "remove"
  BY <1>1, NextStep
<1>3. h.what \subseteq Job \X Kind
  BY <1>1, <1>2, StepKinds
<1>4. /\ files' \in [Job -> SUBSET Kind] /\ Shape(todo') /\ rest \subseteq Pending'
      /\ \A x \in Pending' : x \in rest \/ (x.op = "remove" /\ x.what \subseteq h.what)
      /\ \A j \in Job : /\ files'[j] \subseteq files[j]
                        /\ \A k \in files[j] \ files'[j] : <<j, k>> \in h.what
                        /\ \A k \in files'[j] : <<j, k>> \in h.what =>
                             \E x \in Pending' : x.op = "remove" /\ <<j, k>> \in x.what
  <2>1. CASE left = {}
    <3>1. todo' = Tail(todo) /\ files' = files
      BY <2>1 DEF RemoveFile
    <3>2. Pending' = rest
      BY <3>1 DEF Pending
    <3>3. \A j \in Job : \A k \in files[j] : <<j, k>> \notin h.what
      BY <2>1
    <3>4. files' \in [Job -> SUBSET Kind]
      BY <3>1 DEF IInv, Types
    <3> QED
      BY <1>2, <3>1, <3>2, <3>3, <3>4
  <2>2. CASE left # {}
    <3>1. PICK f \in left : /\ files' = [files EXCEPT ![f[1]] = @ \ {f[2]}]
                            /\ todo' = <<RemoveFiles(left \ {f})>> \o Tail(todo)
      BY <2>2 DEF RemoveFile
    <3> DEFINE r == RemoveFiles(left \ {f})
    <3>2. left \ {f} \in SUBSET (Job \X Kind) /\ f \in Job \X Kind /\ f \in h.what
          /\ left \ {f} \subseteq h.what
      BY <1>3
    <3>3. r.op = "remove" /\ r.what = left \ {f}
      BY <3>2, MadeSteps
    <3>4. Shape(todo') /\ Pending' = {r} \cup rest
      BY <1>2, <3>1, <3>2, PushRemoval DEF Pending
    <3> HIDE DEF r
    <3>5. files' \in [Job -> SUBSET Kind]
      BY <3>1, <3>2 DEF IInv, Types
    <3>6. /\ f[1] \in Job /\ f = <<f[1], f[2]>>
          /\ files'[f[1]] = files[f[1]] \ {f[2]}
          /\ \A j \in Job : j # f[1] => files'[j] = files[j]
      BY <3>1, <3>2 DEF IInv, Types
    <3>7. ASSUME NEW j \in Job
          PROVE  /\ files'[j] \subseteq files[j]
                 /\ \A k \in files[j] \ files'[j] : <<j, k>> \in h.what
                 /\ \A k \in files'[j] : <<j, k>> \in h.what => <<j, k>> \in r.what
      BY <3>2, <3>3, <3>6
    <3>8. \A x \in Pending' : x \in rest \/ (x.op = "remove" /\ x.what \subseteq h.what)
      <4> HIDE DEF left
      <4> QED
        BY <3>2, <3>3, <3>4
    <3> QED
      BY <3>3, <3>4, <3>5, <3>7, <3>8
  <2> QED
    BY <2>1, <2>2
<1> HIDE DEF left
<1>5. Types'
  BY <1>1, <1>4 DEF IInv, Types
<1>6. Absent' /\ Progress' /\ Unwanted'
  BY <1>1 DEF IInv, Absent, Progress, Unwanted
<1>7. Crashed'
  BY <1>1, <1>2 DEF IInv, Crashed
<1>8. Saving'
  BY <1>1, <1>2, <1>4, MadeSteps DEF IInv, Saving, Behind
<1>9. Returning'
  BY <1>1, <1>2, <1>4 DEF IInv, Returning
<1>10. Removing'
  BY <1>1, <1>2, <1>4 DEF IInv, Removing
<1>11. Kept'
  <2> SUFFICES ASSUME NEW j \in Job, fate[j] = "accepted"
               PROVE  /\ epc[j] \in {"pack", "one"} => "out" \in files'[j]
                      /\ epc[j] = "many" => "vol" \in files'[j]
                      /\ jobs[j].status = "done" =>
                           jobs[j].names \cap {"out", "vol"} \subseteq files'[j]
                      /\ jobsFile[j].status = "done" =>
                           jobsFile[j].names \cap {"out", "vol"} \subseteq files'[j]
    BY <1>1 DEF IInv, Kept
  <2>1. ASSUME NEW k \in files[j] \ files'[j]
        PROVE  server = "recover" /\ k \notin Known(jobsFile[j])
    <3>1. <<j, k>> \in h.what
      BY <1>4
    <3>2. \A f \in h.what : \/ fate[f[1]] = "unwanted"
                            \/ (server = "recover" /\ f[2] \notin Known(jobsFile[f[1]]))
      BY <1>1, <1>2 DEF IInv, Removing
    <3> QED
      BY <3>1, <3>2
  <2>2. CASE server = "up"
    BY <2>1, <2>2 DEF IInv, Kept
  <2>3. CASE server = "recover"
    <3>1. epc[j] = "off" /\ jobs[j] = Recovered(jobsFile[j])
      BY <1>1, <1>2, <2>3 DEF IInv, Crashed, Recovering
    <3>2. jobs[j].status = "done" => jobs[j] = jobsFile[j]
      BY <3>1, Records DEF Recovered, IInv, Types
    <3>3. jobsFile[j].status = "done" => Known(jobsFile[j]) = jobsFile[j].names
      BY DEF Known, Finished
    <3> QED
      BY <2>1, <3>1, <3>2, <3>3 DEF IInv, Kept
  <2> QED
    BY <1>2, <2>2, <2>3 DEF IInv, Types
<1>12. Waiting'
  BY <1>1, <1>2, <1>4, MadeSteps DEF IInv, Waiting
<1>13. Recovering'
  <2>0. server = "recover" => \A j \in Job : jobs[j] = Recovered(jobsFile[j])
    BY <1>1, <1>2 DEF IInv, Recovering
  <2> SUFFICES ASSUME server = "recover", NEW j \in Job, NEW k \in files'[j],
                      k \notin Known(jobs[j])
               PROVE  \E s \in Pending' : s.op = "remove" /\ <<j, k>> \in s.what
    BY <1>1, <1>4, <2>0 DEF IInv, Recovering
  <2>1. PICK s \in Pending : s.op = "remove" /\ <<j, k>> \in s.what
    BY <1>4 DEF IInv, Recovering
  <2>2. s = h
    BY <1>2, <2>1
  <2> QED
    BY <1>4, <2>1, <2>2
<1> QED
  BY <1>5, <1>6, <1>7, <1>8, <1>9, <1>10, <1>11, <1>12, <1>13 DEF IInv

\* A step that is done without removing anything, and what it leaves pending.
LEMMA StepDone ==
  ASSUME IInv, todo # <<>>, todo' = Tail(todo), Head(todo).op # "remove"
  PROVE  /\ server # "down" /\ Head(todo) \in Step /\ Shape(todo')
         /\ Pending = {Head(todo)} \cup Pending'
         /\ \A x \in Pending : x.op # "remove"
         /\ Head(todo).op = "return" => Pending' = {}
<1>1. Pending' = ToSet(Tail(todo))
  BY DEF Pending
<1> QED
  BY <1>1, NextStep

\* jobs.json catches up with the map, or is torn.
LEMMA WriteJobsKeeps ==
  ASSUME IInv, WriteJobs PROVE IInv'
<1>1. /\ todo # <<>> /\ Head(todo).op = "jobs"
      /\ UNCHANGED <<server, jobs, links, linksFile, files, queued, epc, cancelled,
                     deleting, sharing, fate, crashes>>
  BY DEF WriteJobs, Doing, memory, threads
<1>2. /\ server # "down" /\ Head(todo) = SaveJobs /\ Shape(Tail(todo))
      /\ Pending = {SaveJobs} \cup ToSet(Tail(todo))
      /\ \A x \in Pending : x.op # "remove"
  BY <1>1, NextStep, StepKinds, MadeSteps
<1>3. \/ jobsFile' = jobs /\ todo' = Tail(todo)
      \/ /\ TornWrites /\ jobsFile' = Empty
         /\ \/ todo' = Tail(todo)
            \/ todo' = <<>> /\ \E j \in Job : Tail(todo) = <<Return(j, "enqueue")>>
  BY DEF WriteJobs
<1>4. /\ Shape(todo') /\ Pending' \subseteq Pending
      /\ SaveLinks \in Pending => SaveLinks \in Pending'
      /\ \A s \in Pending : s.op = "return" => s \in Pending' \/ TornWrites
  <2>1. CASE todo' = Tail(todo)
    BY <1>2, <2>1, MadeSteps DEF Pending
  <2>2. CASE todo' # Tail(todo)
    <3>1. PICK j \in Job : todo' = <<>> /\ TornWrites /\ Tail(todo) = <<Return(j, "enqueue")>>
      BY <1>3, <2>2
    <3>2. Return(j, "enqueue") \in Step /\ Return(j, "enqueue").op = "return"
      BY MadeSteps
    <3>3. ToSet(Tail(todo)) = {Return(j, "enqueue")}
      BY <3>1, <3>2, OneStep
    <3> QED
      BY <1>2, <3>1, <3>2, <3>3, NoStep, MadeSteps DEF Pending
  <2> QED
    BY <2>1, <2>2
<1>5. /\ jobsFile' = jobs \/ (TornWrites /\ jobsFile' = Empty)
      /\ \A j \in Job : \/ jobsFile'[j] = jobs[j]
                        \/ TornWrites /\ jobsFile'[j] = NoJob
  BY <1>3 DEF Empty
<1>6. Types'
  <2>1. jobsFile' \in [Job -> Record]
    BY <1>5, Records DEF IInv, Types, Empty
  <2> QED
    BY <1>1, <1>4, <2>1 DEF IInv, Types
<1>7. Absent' /\ Crashed' /\ Progress' /\ Unwanted'
  BY <1>1, <1>2, <1>5, Records DEF IInv, Absent, Crashed, Progress, Unwanted
<1>8. Saving'
  <2>1. \A j \in Job : Behind(j, jobs[j])'
    BY <1>1, <1>5, Records DEF Behind
  <2>2. (linksFile = links \/ SaveLinks \in Pending \/ (TornWrites /\ linksFile = {}))'
    BY <1>1, <1>2, <1>4 DEF IInv, Saving
  <2> QED
    BY <1>1, <1>5, <2>1, <2>2 DEF Saving
<1>9. Returning' /\ Removing'
  BY <1>1, <1>2, <1>4 DEF IInv, Returning, Removing
<1>10. Kept'
  BY <1>1, <1>2, <1>5, Records DEF IInv, Kept
<1>11. Waiting'
  <2>1. ASSUME NEW j \in Job, Return(j, "enqueue") \in Pending
        PROVE  \/ Return(j, "enqueue") \in Pending'
               \/ TornWrites /\ fate[j] = "submitted"
    BY <1>4, <2>1, MadeSteps DEF IInv, Returning
  <2> QED
    BY <1>1, <2>1 DEF IInv, Waiting
<1>12. Recovering'
  BY <1>1, <1>2, <1>4 DEF IInv, Recovering
<1> QED
  BY <1>6, <1>7, <1>8, <1>9, <1>10, <1>11, <1>12 DEF IInv

\* shares.json catches up with its map, or is torn.
LEMMA WriteLinksKeeps ==
  ASSUME IInv, WriteLinks PROVE IInv'
<1>1. /\ todo # <<>> /\ Head(todo).op = "links" /\ todo' = Tail(todo)
      /\ linksFile' = links \/ (TornWrites /\ linksFile' = {})
      /\ UNCHANGED <<server, jobs, links, jobsFile, files, queued, epc, cancelled,
                     deleting, sharing, fate, crashes>>
  BY DEF WriteLinks, Doing, memory, threads
<1>2. /\ server # "down" /\ Head(todo) \in Step /\ Shape(todo')
      /\ Pending = {Head(todo)} \cup Pending'
      /\ \A x \in Pending : x.op # "remove"
  BY <1>1, StepDone
<1>3. Head(todo) = SaveLinks
  BY <1>1, <1>2, StepKinds
<1>4. Types'
  BY <1>1, <1>2 DEF IInv, Types
<1>5. Absent' /\ Crashed' /\ Progress' /\ Unwanted' /\ Kept'
  BY <1>1, <1>2 DEF IInv, Absent, Crashed, Progress, Unwanted, Kept
<1>6. Saving'
  BY <1>1, <1>2, <1>3, MadeSteps DEF IInv, Saving, Behind
<1>7. Returning' /\ Removing'
  BY <1>1, <1>2 DEF IInv, Returning, Removing
<1>8. Waiting'
  BY <1>1, <1>2, <1>3, MadeSteps DEF IInv, Waiting
<1>9. Recovering'
  BY <1>1, <1>2 DEF IInv, Recovering
<1> QED
  BY <1>4, <1>5, <1>6, <1>7, <1>8, <1>9 DEF IInv

\* An operation returns, and nothing is pending any more.
LEMMA ReturnToKeeps ==
  ASSUME IInv, ReturnTo PROVE IInv'
<1> DEFINE h == Head(todo)
           j == h.job
<1>1. /\ todo # <<>> /\ h.op = "return" /\ todo' = Tail(todo)
      /\ UNCHANGED <<server, jobs, links, jobsFile, linksFile, files, cancelled,
                     deleting, sharing, crashes>>
  BY DEF ReturnTo, Doing, memory, disk
<1>2. /\ server # "down" /\ h \in Step /\ Shape(todo')
      /\ Pending = {h} /\ Pending' = {}
  BY <1>1, StepDone
<1>3. /\ j \in Job /\ h.to \in {"enqueue", "begin", "cleanup"} /\ h = Return(j, h.to)
  <2>1. h \in [op : {"return"}, job : Job, to : {"enqueue", "begin", "cleanup"}]
    BY <1>1, <1>2, MadeSteps DEF Step
  <2> QED
    BY <2>1 DEF Return
<1>4. /\ server = "up"
      /\ jobsFile = jobs \/ (TornWrites /\ jobsFile = Empty)
      /\ linksFile = links \/ (TornWrites /\ linksFile = {})
      /\ h.to = "enqueue" => jobs[j].status = "queued" /\ fate[j] = "submitted"
      /\ h.to = "begin" => jobs[j].status = "running"
      /\ h.to = "cleanup" => jobs[j].status \in Finished
  BY <1>1, <1>2, MadeSteps DEF IInv, Saving, Returning
<1>5. /\ h.to = "enqueue" => /\ queued' = queued \cup {j} /\ epc' = epc
                             /\ fate' = [fate EXCEPT ![j] = "accepted"]
      /\ h.to # "enqueue" => /\ epc' = [epc EXCEPT ![j] = h.to]
                             /\ queued' = queued /\ fate' = fate
  BY DEF ReturnTo
<1> HIDE DEF h, j
<1>6. Types'
  <2>1. /\ queued' \subseteq Job
        /\ fate' \in [Job -> {"new", "submitted", "accepted", "unwanted"}]
        /\ epc' \in [Job -> {"off", "begin", "fetch", "pack", "one", "many", "saving",
                             "cleanup"}]
    BY <1>3, <1>5 DEF IInv, Types
  <2> QED
    BY <1>1, <1>2, <2>1 DEF IInv, Types
<1>7. Absent' /\ Crashed' /\ Saving' /\ Recovering'
  BY <1>1, <1>4 DEF IInv, Absent, Crashed, Saving, Behind, Recovering
<1>8. Returning' /\ Removing'
  BY <1>2 DEF Returning, Removing
<1>9. /\ \A i \in Job : i # j => fate'[i] = fate[i] /\ epc'[i] = epc[i]
      /\ fate'[j] = IF h.to = "enqueue" THEN "accepted" ELSE fate[j]
      /\ epc'[j] = IF h.to = "enqueue" THEN epc[j] ELSE h.to
  BY <1>3, <1>5 DEF IInv, Types
<1>10. Progress'
  BY <1>1, <1>3, <1>4, <1>9, Records DEF IInv, Progress, Finished
<1>11. Unwanted'
  BY <1>1, <1>3, <1>4, <1>9 DEF IInv, Types, Unwanted
<1>12. Kept'
  <2>1. jobs[j].status = "queued" => epc[j] = "off"
    BY <1>3 DEF IInv, Progress
  <2>2. jobs[j].status \in {"queued"} => jobsFile[j].status \notin {"done"}
    BY <1>3, <1>4 DEF IInv, Saving, Behind, Moves
  <2>3. ~TornWrites => jobsFile = jobs
    BY <1>4
  <2> QED
    BY <1>1, <1>3, <1>4, <1>9, <2>1, <2>2, <2>3 DEF IInv, Kept, Finished
<1>13. Waiting'
  <2>1. ASSUME NEW i \in Job, jobs[i].status = "queued"
        PROVE  i \in queued' \cup deleting \/ (TornWrites /\ fate'[i] = "submitted")
    <3>1. \/ i \in queued \cup deleting \/ h = Return(i, "enqueue")
          \/ TornWrites /\ fate[i] = "submitted"
      BY <1>2, <1>4, <2>1 DEF IInv, Waiting
    <3>2. h = Return(i, "enqueue") => i = j /\ h.to = "enqueue"
      BY <1>3, MadeSteps DEF j
    <3> QED
      BY <1>3, <1>5, <1>9, <3>1, <3>2
  <2> QED
    BY <1>1, <2>1 DEF Waiting
<1> QED
  BY <1>6, <1>7, <1>8, <1>10, <1>11, <1>12, <1>13 DEF IInv

-----------------------------------------------------------------------------
(* Crash and start-up *)

\* What is on disk at a crash is enough.
LEMMA CrashKeeps ==
  ASSUME IInv, Crash PROVE IInv'
<1>1. /\ server' = "down" /\ jobs' = Empty /\ links' = {} /\ todo' = <<>>
      /\ queued' = {} /\ epc' = [j \in Job |-> "off"]
      /\ cancelled' = {} /\ deleting' = {} /\ sharing' = {}
      /\ UNCHANGED <<jobsFile, linksFile, files, fate>>
  BY DEF Crash, disk
<1>2. crashes' \in 0 .. MaxCrashes
  BY StoreAssumption DEF Crash, IInv, Types
<1>3. Pending' = {}
  BY <1>1, NoStep DEF Pending
<1>4. Types'
  BY <1>1, <1>2, NoStep, Records DEF IInv, Types, Empty
<1>5. Absent' /\ Crashed' /\ Saving' /\ Progress' /\ Unwanted'
  BY <1>1, Records DEF IInv, Absent, Crashed, Saving, Progress, Unwanted, Empty
<1>6. Returning' /\ Removing'
  BY <1>3 DEF Returning, Removing
<1>7. Kept'
  BY <1>1, Records DEF IInv, Kept, Empty
<1>8. Waiting' /\ Recovering'
  BY <1>1 DEF Waiting, Recovering
<1> QED
  BY <1>4, <1>5, <1>6, <1>7, <1>8 DEF IInv

\* The worker starts with the queued jobs.
LEMMA StartWorkerKeeps ==
  ASSUME IInv, StartWorker PROVE IInv'
<1>1. /\ server = "recover" /\ server' = "up" /\ Pending = {} /\ Pending' = {}
      /\ queued' = {j \in Job : jobs[j].status = "queued"}
      /\ UNCHANGED <<jobs, links, jobsFile, linksFile, files, todo, epc, cancelled,
                     deleting, sharing, fate, crashes>>
  BY NoStep DEF StartWorker, memory, disk, Pending
<1>2. Types'
  BY <1>1 DEF IInv, Types
<1>3. Absent' /\ Crashed' /\ Saving' /\ Progress' /\ Unwanted' /\ Kept'
  BY <1>1 DEF IInv, Absent, Crashed, Saving, Behind, Progress, Unwanted, Kept
<1>4. Returning' /\ Removing' /\ Waiting' /\ Recovering'
  BY <1>1 DEF Returning, Removing, Waiting, Recovering
<1> QED
  BY <1>2, <1>3, <1>4 DEF IInv

\* What store.New reads, RecoverJobs ends: running exports have failed, files and
\* links that lead nowhere go.
LEMMA RecoverJobsKeeps ==
  ASSUME IInv, RecoverJobs PROVE IInv'
<1> DEFINE W == {f \in Job \X Kind : /\ f[2] \in files[f[1]]
                                     /\ f[2] \notin Known(jobsFile[f[1]])}
           J == IF jobs' # jobsFile THEN <<SaveJobs>> ELSE <<>>
           L == IF links' # linksFile THEN <<SaveLinks>> ELSE <<>>
<1>1. /\ server = "down" /\ server' = "recover"
      /\ jobs' = [j \in Job |-> Recovered(jobsFile[j])]
      /\ links' = {j \in linksFile : jobs'[j].status = "done"}
      /\ todo' = <<RemoveFiles(W)>> \o J \o L
      /\ UNCHANGED <<jobsFile, linksFile, files, queued, epc, cancelled, deleting,
                     sharing, fate, crashes>>
  BY DEF RecoverJobs, KnownLinks, disk, threads
<1>2. \A f \in W : f[2] \notin Known(jobsFile[f[1]])
  OBVIOUS
<1>3. ASSUME NEW j \in Job, NEW k \in files[j], k \notin Known(jobsFile[j])
      PROVE  <<j, k>> \in W
  <2>1. k \in Kind
    BY DEF IInv, Types
  <2> QED
    BY <1>3, <2>1
<1>4. /\ RemoveFiles(W) \in Step /\ RemoveFiles(W).op = "remove"
      /\ RemoveFiles(W).what = W
  BY MadeSteps
<1> HIDE DEF W
<1>5. /\ Shape(todo') /\ RemoveFiles(W) \in Pending'
      /\ Pending' \subseteq {RemoveFiles(W), SaveJobs, SaveLinks}
      /\ jobs' # jobsFile => SaveJobs \in Pending'
      /\ links' # linksFile => SaveLinks \in Pending'
  <2>0. /\ SaveJobs \in Step /\ SaveLinks \in Step
        /\ <<RemoveFiles(W)>> \o <<>> = <<RemoveFiles(W)>>
        /\ <<RemoveFiles(W)>> \o <<SaveJobs>> = <<RemoveFiles(W), SaveJobs>>
        /\ <<RemoveFiles(W)>> \o <<SaveLinks>> = <<RemoveFiles(W), SaveLinks>>
        /\ <<RemoveFiles(W), SaveJobs>> \o <<>> = <<RemoveFiles(W), SaveJobs>>
        /\ <<RemoveFiles(W), SaveJobs>> \o <<SaveLinks>>
              = <<RemoveFiles(W), SaveJobs, SaveLinks>>
    <3>1. SaveJobs \in Step /\ SaveLinks \in Step
      BY MadeSteps
    <3> QED
      BY <1>4, <3>1, JoinTwo
  <2>1. CASE jobs' # jobsFile /\ links' # linksFile
    <3>1. J = <<SaveJobs>> /\ L = <<SaveLinks>>
      BY <2>1
    <3>2. todo' = <<RemoveFiles(W), SaveJobs, SaveLinks>>
      BY <1>1, <2>0, <3>1, Zenon
    <3> QED
      BY <3>2, <1>4, MadeSteps, ThreeSteps DEF Pending
  <2>2. CASE jobs' # jobsFile /\ links' = linksFile
    <3>1. J = <<SaveJobs>> /\ L = <<>>
      BY <2>2
    <3>2. todo' = <<RemoveFiles(W), SaveJobs>>
      BY <1>1, <2>0, <3>1, Zenon
    <3> QED
      BY <2>2, <3>2, <1>4, MadeSteps, TwoSteps DEF Pending
  <2>3. CASE jobs' = jobsFile /\ links' # linksFile
    <3>1. J = <<>> /\ L = <<SaveLinks>>
      BY <2>3
    <3>2. todo' = <<RemoveFiles(W), SaveLinks>>
      BY <1>1, <2>0, <3>1, Zenon
    <3> QED
      BY <2>3, <3>2, <1>4, MadeSteps, TwoSteps DEF Pending
  <2>4. CASE jobs' = jobsFile /\ links' = linksFile
    <3>1. J = <<>> /\ L = <<>>
      BY <2>4
    <3>2. todo' = <<RemoveFiles(W)>>
      BY <1>1, <2>0, <3>1, Zenon
    <3> QED
      BY <2>4, <3>2, <1>4, OneStep DEF Pending
  <2> QED
    BY <2>1, <2>2, <2>3, <2>4
<1> HIDE DEF J, L
<1>6. ASSUME NEW j \in Job
      PROVE  /\ jobs'[j] \in Record /\ jobs'[j] = Recovered(jobsFile[j])
             /\ jobsFile[j].status # "running" => jobs'[j] = jobsFile[j]
             /\ jobsFile[j].status = "running" => jobs'[j].status = "failed"
             /\ Known(jobsFile[j]) \subseteq Known(jobs'[j])
  <2>1. jobsFile[j] \in Record /\ jobs'[j] = Recovered(jobsFile[j])
    BY <1>1 DEF IInv, Types
  <2> QED
    BY <2>1, Records DEF Recovered, Known, Finished
<1>7. \A s \in Pending' : s.op = "remove" => s = RemoveFiles(W)
  BY <1>5, MadeSteps
<1>8. Types'
  <2>1. jobs' \in [Job -> Record] /\ links' \subseteq Job
    BY <1>1, <1>6 DEF IInv, Types
  <2> QED
    BY <1>1, <1>5, <2>1 DEF IInv, Types
<1>9. Absent' /\ Crashed' /\ Unwanted'
  BY <1>1, <1>6, Records DEF IInv, Absent, Crashed, Unwanted
<1>10. Saving'
  <2>1. \A j \in Job : Behind(j, jobs[j])'
    BY <1>1, <1>6 DEF Behind, Moves
  <2> QED
    BY <1>1, <1>5, <2>1 DEF Saving
<1>11. Progress'
  BY <1>1, <1>6, Records DEF IInv, Progress, Crashed
<1>12. Returning'
  BY <1>4, <1>5, MadeSteps DEF Returning
<1>13. Removing'
  BY <1>1, <1>2, <1>4, <1>7 DEF Removing
<1>14. Kept'
  <2>1. \A j \in Job : epc'[j] = "off"
    BY <1>1 DEF IInv, Crashed
  <2> QED
    BY <1>1, <1>6, <2>1 DEF IInv, Kept
<1>15. Waiting'
  BY <1>1 DEF Waiting
<1>16. Recovering'
  BY <1>1, <1>3, <1>4, <1>5, <1>6 DEF Recovering
<1> QED
  BY <1>8, <1>9, <1>10, <1>11, <1>12, <1>13, <1>14, <1>15, <1>16 DEF IInv

-----------------------------------------------------------------------------
(* The theorems *)

\* The invariant is inductive.
LEMMA NextKeeps ==
  ASSUME IInv, [Next]_vars PROVE IInv'
<1>1. CASE UNCHANGED vars
  <2>1. UNCHANGED <<server, jobs, links, jobsFile, linksFile, files, todo, queued, epc,
                    cancelled, deleting, sharing, fate, crashes>>
        /\ Pending' = Pending
    BY <1>1 DEF vars, memory, disk, threads, Pending
  <2>2. Types'
    BY <2>1 DEF IInv, Types
  <2>3. Absent' /\ Crashed' /\ Saving' /\ Progress' /\ Unwanted' /\ Kept'
    BY <2>1 DEF IInv, Absent, Crashed, Saving, Behind, Progress, Unwanted, Kept
  <2>4. Returning' /\ Removing' /\ Waiting' /\ Recovering'
    BY <2>1 DEF IInv, Returning, Removing, Waiting, Recovering
  <2> QED
    BY <2>2, <2>3, <2>4 DEF IInv
<1>2. CASE DiskStep
  BY <1>2, RemoveFileKeeps, WriteJobsKeeps, WriteLinksKeeps, ReturnToKeeps DEF DiskStep
<1>3. ASSUME NEW j \in Job, Request(j) PROVE IInv'
  BY <1>3, AddJobKeeps, CancelKeeps, DeleteJobKeeps, PurgeShareKeeps, SharesKeep DEF Request
<1>4. ASSUME NEW j \in Job, ExportStep(j) PROVE IInv'
  BY <1>4, DispatchKeeps, FileStepsKeep, FailKeeps, PublishKeeps, CleanupKeeps DEF ExportStep
<1>5. ASSUME NEW S \in SUBSET Job, PruneExports(S) PROVE IInv'
  BY <1>5, PruneExportsKeeps
<1>6. CASE Crash \/ RecoverJobs \/ StartWorker
  BY <1>6, CrashKeeps, RecoverJobsKeeps, StartWorkerKeeps
<1> QED
  BY <1>1, <1>2, <1>3, <1>4, <1>5, <1>6 DEF Next

\* The inductive invariant holds in every reachable state.
THEOREM Invariance == Spec => []IInv
<1>1. IInv /\ [Next]_vars => IInv'
  BY NextKeeps
<1> QED
  BY <1>1, InitHolds, PTL DEF Spec

\* Types.
THEOREM TypeCorrect == Spec => []TypeOK
<1>1. IInv => TypeOK
  BY StepKinds DEF IInv, Types, Shape, TypeOK
<1> QED
  BY <1>1, Invariance, PTL

\* DiskIsCurrent: no status and no link that a client can see is only in memory.
THEOREM FilesAreCurrent == ASSUME ~TornWrites PROVE Spec => []DiskIsCurrent
<1>1. IInv => DiskIsCurrent
  BY MutexIsFree DEF DiskIsCurrent
<1> QED
  BY <1>1, Invariance, PTL

\* AcceptedIsKept: an accepted job outlives any number of crashes.
THEOREM AcceptedOutlivesCrashes == ASSUME ~TornWrites PROVE Spec => []AcceptedIsKept
<1>1. IInv => AcceptedIsKept
  BY Records DEF IInv, Kept, AcceptedIsKept, InStore
<1> QED
  BY <1>1, Invariance, PTL

\* DoneHasFile: a wanted done job has its file, at any point of a crash, whatever
\* writes are torn.
THEOREM DoneKeepsFile == Spec => []DoneHasFile
<1>1. IInv => DoneHasFile
  BY DEF IInv, Kept, DoneHasFile
<1> QED
  BY <1>1, Invariance, PTL

\* A queued job waits in the worker's queue or is being deleted, unless AddJob failed
\* to save it and told its client so.
AcceptedIsQueued ==
    MutexFree => \A j \in Job : jobs[j].status = "queued" =>
        j \in queued \/ j \in deleting \/ (TornWrites /\ fate[j] = "submitted")

\* AcceptedIsQueued: whatever writes are torn, no accepted job that is left in the
\* store is forgotten by the worker.
THEOREM AcceptedStaysQueued == Spec => []AcceptedIsQueued
<1>1. IInv => AcceptedIsQueued
  BY MutexIsFree DEF IInv, Waiting, AcceptedIsQueued
<1> QED
  BY <1>1, Invariance, PTL

\* QueueIsRestored: a queued job waits in the queue, after a restart too.
THEOREM QueuedIsRestored == ASSUME ~TornWrites PROVE Spec => []QueueIsRestored
<1>1. AcceptedIsQueued => QueueIsRestored
  BY DEF AcceptedIsQueued, QueueIsRestored
<1> QED
  BY <1>1, AcceptedStaysQueued, PTL

\* When recovery has ended every file in exports/ is named by a finished job, and
\* every link points to a done one.
RecoverySweeps ==
    server = "recover" /\ todo = <<>> =>
        /\ \A j \in Job : files[j] # {} =>
              jobs[j].status \in Finished /\ files[j] \subseteq jobs[j].names
        /\ \A j \in links : jobs[j].status = "done"

\* RecoverySweeps: whatever writes are torn, before recovery or in it, it leaves no
\* orphan and no link to nothing.
THEOREM RecoveryLeavesNoOrphan == Spec => []RecoverySweeps
<1>1. IInv => RecoverySweeps
  <2> SUFFICES ASSUME IInv, server = "recover", todo = <<>>
               PROVE  /\ \A j \in Job : files[j] # {} =>
                            jobs[j].status \in Finished /\ files[j] \subseteq jobs[j].names
                      /\ \A j \in links : jobs[j].status = "done"
    BY DEF RecoverySweeps
  <2>1. Pending = {}
    BY NoStep DEF Pending
  <2>2. \A j \in Job : \A k \in files[j] : k \in Known(jobs[j])
    BY <2>1 DEF IInv, Recovering
  <2>3. ASSUME NEW j \in Job, files[j] # {}
        PROVE  jobs[j].status \in Finished /\ files[j] \subseteq jobs[j].names
    BY <2>2, <2>3 DEF Known
  <2> QED
    BY <2>3 DEF IInv, Recovering
<1> QED
  BY <1>1, Invariance, PTL

\* RecoveryIsClean: recovery, even an interrupted one, ends with no orphan, and the
\* next crash finds it so.
THEOREM RecoveryEndsClean == ASSUME ~TornWrites PROVE Spec => []RecoveryIsClean
<1>1. IInv /\ RecoverySweeps => RecoveryIsClean
  BY NoStep DEF IInv, Saving, Pending, RecoverySweeps, RecoveryIsClean
<1> QED
  BY <1>1, Invariance, RecoveryLeavesNoOrphan, PTL

\* PersistedMovesForward: jobs.json never takes a job back, across crashes too.
THEOREM JobsFileMovesForward == ASSUME ~TornWrites PROVE Spec => PersistedMovesForward
<1> DEFINE Forward == \A j \in Job : jobsFile'[j].status # jobsFile[j].status =>
                        <<jobsFile[j].status, jobsFile'[j].status>> \in Moves
<1>1. IInv /\ [Next]_vars => [Forward]_jobsFile
  <2> SUFFICES ASSUME IInv, [Next]_vars, jobsFile' # jobsFile PROVE Forward
    OBVIOUS
  <2>1. WriteJobs
    BY DEF Next, vars, memory, disk, threads, DiskStep, Request, ExportStep, RemoveFile,
         WriteLinks, ReturnTo, AddJob, Cancel, DeleteJob, PruneExports, PurgeShare,
         CheckShare, SaveShare, DeleteShare, Dispatch, OpenSink, Abandon, PackagePlain,
         PackageOpen, PackageNextVolume, PackageClose, FileStep, Fail, Publish, Cleanup,
         Crash, RecoverJobs, StartWorker
  <2>2. jobsFile' = jobs /\ server # "down"
    BY <2>1, NextStep DEF WriteJobs, Doing
  <2> QED
    BY <2>2 DEF IInv, Saving, Behind
<1>2. [Forward]_jobsFile => [\A j \in Job : jobsFile'[j].status # jobsFile[j].status =>
          <<jobsFile[j].status, jobsFile'[j].status>> \in
              {<<"none", "queued">>, <<"queued", "running">>,
               <<"running", "done">>, <<"running", "failed">>,
               <<"queued", "none">>, <<"running", "none">>,
               <<"done", "none">>, <<"failed", "none">>}]_jobsFile
  BY DEF Moves
<1> HIDE DEF Forward
<1> QED
  BY <1>1, <1>2, Invariance, PTL DEF Spec, PersistedMovesForward
=============================================================================
