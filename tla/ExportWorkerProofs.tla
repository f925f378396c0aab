------------------------- MODULE ExportWorkerProofs -------------------------
(***************************************************************************)
(* The safety properties of ExportWorker, for every number of jobs and     *)
(* every set of limits, and that it implements JobLifecycle.  What a       *)
(* cancelled export leaves on disk has an invariant of its own             *)
(* (FilesFollow), on top of InductiveInvariant.                            *)
(***************************************************************************)
EXTENDS ExportWorker, TLAPS, FiniteSetTheorems

-----------------------------------------------------------------------------
(* What the three operations on the slice Worker.queue do to the set of its *)
(* elements and to the absence of duplicates: enqueue's append, the         *)
(* dispatcher's pop, and Cancel's removal from the middle.                  *)

(* enqueue: the new job joins the set, and a queue without it stays free of doubles. *)
LEMMA AppendQueue ==
    ASSUME NEW S, NEW q \in Seq(S), NEW e \in S,
           e \notin ToSet(q), IsInjective(q)
    PROVE  /\ Append(q, e) \in Seq(S)
           /\ ToSet(Append(q, e)) = ToSet(q) \cup {e}
           /\ IsInjective(Append(q, e))
<1>1. DOMAIN Append(q, e) = 1 .. Len(q) + 1 /\ DOMAIN q = 1 .. Len(q)
  OBVIOUS
<1>2. \A i \in 1 .. Len(q) : Append(q, e)[i] = q[i]
  OBVIOUS
<1>3. Append(q, e)[Len(q) + 1] = e
  OBVIOUS
<1>4. 1 .. Len(q) + 1 = (1 .. Len(q)) \cup {Len(q) + 1}
  OBVIOUS
<1> QED
  BY <1>1, <1>2, <1>3, <1>4 DEF ToSet, IsInjective

(* The dispatcher's pop takes its head, and only it, out of the set. *)
LEMMA TailQueue ==
    ASSUME NEW S, NEW q \in Seq(S), q # <<>>, IsInjective(q)
    PROVE  /\ Head(q) \in S /\ Tail(q) \in Seq(S)
           /\ Head(q) \in ToSet(q)
           /\ ToSet(Tail(q)) = ToSet(q) \ {Head(q)}
           /\ IsInjective(Tail(q))
<1>1. /\ Head(q) = q[1] /\ Head(q) \in S
      /\ Tail(q) \in Seq(S) /\ Len(Tail(q)) = Len(q) - 1
      /\ \A i \in 1 .. Len(q) - 1 : Tail(q)[i] = q[i + 1]
  OBVIOUS
<1>2. Len(q) \in Nat /\ Len(q) >= 1
  OBVIOUS
<1>3. DOMAIN q = 1 .. Len(q) /\ DOMAIN Tail(q) = 1 .. Len(q) - 1
  BY <1>1
<1>4. ToSet(Tail(q)) \subseteq ToSet(q) \ {Head(q)}
  BY <1>1, <1>2, <1>3 DEF ToSet, IsInjective
<1>5. ToSet(q) \ {Head(q)} \subseteq ToSet(Tail(q))
  <2> SUFFICES ASSUME NEW i \in 1 .. Len(q), q[i] # Head(q)
               PROVE  q[i] \in ToSet(Tail(q))
    BY <1>3 DEF ToSet
  <2>1. i - 1 \in 1 .. Len(q) - 1 /\ Tail(q)[i - 1] = q[i]
    BY <1>1, <1>2
  <2> QED
    BY <2>1, <1>3 DEF ToSet
<1>6. IsInjective(Tail(q))
  BY <1>1, <1>2, <1>3 DEF IsInjective
<1>7. Head(q) \in ToSet(q)
  <2>1. 1 \in DOMAIN q
    BY <1>2, <1>3
  <2> QED
    BY <1>1, <2>1 DEF ToSet
<1> QED
  BY <1>1, <1>4, <1>5, <1>6, <1>7

(* Joining what lies before and after a place shifts the rest by one. *)
LEMMA ConcatHalves ==
    ASSUME NEW S, NEW a \in Seq(S), NEW b \in Seq(S),
           NEW L \in Nat, NEW i \in 1 .. L, Len(a) = i - 1, Len(b) = L - i
    PROVE  /\ a \o b \in Seq(S) /\ Len(a \o b) = L - 1
           /\ \A n \in 1 .. i - 1 : (a \o b)[n] = a[n]
           /\ \A n \in i .. L - 1 : (a \o b)[n] = b[n - (i - 1)]
OBVIOUS

(* Removal at a place: what was before it stays, what was after it moves up. *)
LEMMA RemoveAtQueue ==
    ASSUME NEW S, NEW q \in Seq(S), NEW i \in 1 .. Len(q)
    PROVE  /\ RemoveAt(q, i) \in Seq(S)
           /\ DOMAIN RemoveAt(q, i) = 1 .. Len(q) - 1
           /\ \A n \in 1 .. i - 1 : RemoveAt(q, i)[n] = q[n]
           /\ \A n \in i .. Len(q) - 1 : RemoveAt(q, i)[n] = q[n + 1]
<1> DEFINE a == SubSeq(q, 1, i - 1)
           b == SubSeq(q, i + 1, Len(q))
<1>1. /\ a \in Seq(S) /\ Len(a) = i - 1
      /\ \A n \in 1 .. i - 1 : a[n] = q[n]
  OBVIOUS
<1>2. /\ b \in Seq(S) /\ Len(b) = Len(q) - i
      /\ \A n \in 1 .. Len(q) - i : b[n] = q[i + n]
  OBVIOUS
<1>3. RemoveAt(q, i) = a \o b
  BY DEF RemoveAt
<1> HIDE DEF a, b
<1>4. /\ a \o b \in Seq(S) /\ Len(a \o b) = Len(q) - 1
      /\ \A n \in 1 .. i - 1 : (a \o b)[n] = a[n]
      /\ \A n \in i .. Len(q) - 1 : (a \o b)[n] = b[n - (i - 1)]
  <2>1. Len(q) \in Nat
    OBVIOUS
  <2> QED
    BY <1>1, <1>2, <2>1, ConcatHalves
<1>5. ASSUME NEW n \in i .. Len(q) - 1
      PROVE  b[n - (i - 1)] = q[n + 1]
  <2>1. n - (i - 1) \in 1 .. Len(q) - i /\ i + (n - (i - 1)) = n + 1
    OBVIOUS
  <2> QED
    BY <2>1, <1>2
<1> QED
  BY <1>1, <1>3, <1>4, <1>5

(* Cancel: the removed job leaves the set, the others and their order stay. *)
LEMMA RemoveFromQueue ==
    ASSUME NEW S, NEW q \in Seq(S), NEW e \in ToSet(q), IsInjective(q)
    PROVE  /\ RemoveFirst(q, e) \in Seq(S)
           /\ ToSet(RemoveFirst(q, e)) = ToSet(q) \ {e}
           /\ IsInjective(RemoveFirst(q, e))
<1>1. DOMAIN q = 1 .. Len(q) /\ Len(q) \in Nat
  OBVIOUS
<1>2. PICK i \in 1 .. Len(q) : q[i] = e
  BY <1>1 DEF ToSet
<1>3. \A n \in 1 .. Len(q) : q[n] = e => n = i
  BY <1>1, <1>2 DEF IsInjective
<1>4. SelectInSeq(q, LAMBDA v : v = e) = i
  <2>1. {n \in 1 .. Len(q) : q[n] = e} = {i}
    BY <1>2, <1>3
  <2>2. Min({i}) = i
    BY DEF Min
  <2> QED
    BY <2>1, <2>2 DEF SelectInSeq
<1> DEFINE r == RemoveAt(q, i)
<1>5. RemoveFirst(q, e) = r
  BY <1>2, <1>4 DEF RemoveFirst
<1>6. /\ r \in Seq(S) /\ DOMAIN r = 1 .. Len(q) - 1
      /\ \A n \in 1 .. i - 1 : r[n] = q[n]
      /\ \A n \in i .. Len(q) - 1 : r[n] = q[n + 1]
  BY RemoveAtQueue
<1> HIDE DEF r
<1>7. \A n \in 1 .. Len(q) - 1 : r[n] = IF n < i THEN q[n] ELSE q[n + 1]
  BY <1>1, <1>2, <1>6
<1>8. ToSet(r) \subseteq ToSet(q) \ {e}
  BY <1>1, <1>3, <1>6, <1>7 DEF ToSet
<1>9. ToSet(q) \ {e} \subseteq ToSet(r)
  <2> SUFFICES ASSUME NEW n \in 1 .. Len(q), n # i
               PROVE  q[n] \in ToSet(r)
    BY <1>1, <1>2 DEF ToSet
  <2>1. CASE n < i
    <3>1. n \in 1 .. Len(q) - 1 /\ r[n] = q[n]
      BY <2>1, <1>1, <1>7
    <3> QED
      BY <3>1, <1>6 DEF ToSet
  <2>2. CASE n > i
    <3>1. n - 1 \in 1 .. Len(q) - 1 /\ ~(n - 1 < i) /\ (n - 1) + 1 = n
      BY <2>2, <1>1
    <3>2. r[n - 1] = q[n]
      BY <3>1, <1>7
    <3> QED
      BY <3>1, <3>2, <1>6 DEF ToSet
  <2> QED
    BY <2>1, <2>2, <1>1
<1>10. IsInjective(r)
  BY <1>1, <1>2, <1>3, <1>6, <1>7 DEF IsInjective
<1> QED
  BY <1>5, <1>6, <1>8, <1>9, <1>10

-----------------------------------------------------------------------------

(* Jobs are numbers, and 0 is none of them: djob = 0 names no job. *)
LEMMA JobNumbers ==
    0 \notin Job /\ Job \subseteq 0 .. NumJobs /\ IsFiniteSet(Job)
BY ConstantsAssumption, FS_Interval DEF Job

(* The inductive invariant in three groups that are disturbed together *)
Queueing == QueueAgrees /\ SlotsAgree /\ QueueOnce
Outcomes == /\ StatusFollows /\ PublishedExists /\ NoQueuedJobLost /\ NoZombie
            /\ DoneIsDownloadable
Wakeups == LimitSeen /\ NoLostWakeup

(* What the request handlers and the clean-up ticker do *)
Requests ==
    \/ \E j \in Job : StartStep(j) \/ DeleteStep(j) \/ PurgeShare(j)
    \/ \E S \in SUBSET Job : PruneExports(S)
    \/ \E n \in Limits : UpdateSettings(n) \/ SaveSettings(n)
    \/ SettingsSignal

(* The invariant holds when the server has started. *)
LEMMA InitInvariant == Init => InductiveInvariant
<1> SUFFICES ASSUME Init
             PROVE  InductiveInvariant
  OBVIOUS
<1> USE ConstantsAssumption, JobNumbers DEF Init
<1>1. TypeOK
  <2>1. /\ status \in [Job -> {"none", "queued", "running", "done", "failed", "deleted"}]
        /\ files \in [Job -> SUBSET Kind]
        /\ output \in [Job -> {"none", "one", "many"}]
    BY DEF Kind
  <2>2. queue \in Seq(Job) /\ djob \in 0 .. NumJobs /\ dmax \in 0 .. MaxLimit
    OBVIOUS
  <2>3. limit \in 1 .. MaxLimit
    OBVIOUS
  <2> QED
    BY <2>1, <2>2, <2>3 DEF TypeOK
<1>2. QueueAgrees
  BY DEF QueueAgrees, ToSet, IsInjective
<1>3. SlotsAgree
  BY FS_EmptySet DEF SlotsAgree, HoldsSlot, Starting
<1>4. QueueOnce /\ StatusFollows /\ PublishedExists /\ LimitSeen
  BY DEF QueueOnce, StatusFollows, PublishedExists, LimitSeen, Producing,
         Starting, InStore
<1>5. NoQueuedJobLost /\ NoZombie /\ DoneIsDownloadable /\ NoLostWakeup
  BY DEF NoQueuedJobLost, NoZombie, DoneIsDownloadable, NoLostWakeup
<1> QED
  BY <1>1, <1>2, <1>3, <1>4, <1>5 DEF InductiveInvariant

(* Requests, retention and links preserve it. *)
LEMMA RequestsPreserve ==
    ASSUME InductiveInvariant, Requests
    PROVE  InductiveInvariant'
<1> USE ConstantsAssumption, JobNumbers
    DEF InductiveInvariant, Queueing, Outcomes, Wakeups, storeVars, diskVars,
        queueVars, slotVars, dispatchVars, settingsVars, Elsewhere, At,
        Goto, SetFiles, Kind, InStore, TypeOK
<1>1. ASSUME NEW j \in Job, AddJob(j)
      PROVE  InductiveInvariant'
  <2>1. PICK next \in {"added", "refused"} : spc' = [spc EXCEPT ![j] = next]
    BY <1>1 DEF AddJob
  <2>2. /\ status[j] = "none" /\ status' = [status EXCEPT ![j] = "queued"]
        /\ UNCHANGED <<shares, limit, diskVars, queueVars, slotVars, wake,
                       dispatchVars, cancelled, epc, rpc, settingsVars>>
    BY <1>1 DEF AddJob
  <2>3. TypeOK'
    BY <2>1, <2>2
  <2>4. Queueing'
    BY <2>1, <2>2, SMTT(60)
       DEF QueueAgrees, SlotsAgree, QueueOnce,
           HoldsSlot, Starting
  <2>5. Outcomes'
    BY <2>1, <2>2, SMTT(60)
       DEF QueueOnce, StatusFollows,
           PublishedExists, NoQueuedJobLost, NoZombie, DoneIsDownloadable,
           Producing, MadeFile, Starting
  <2>6. Wakeups'
    BY <2>1, <2>2 DEF LimitSeen, NoLostWakeup, QueueOnce
  <2> QED
    BY <2>3, <2>4, <2>5, <2>6
<1>2. ASSUME NEW j \in Job, Enqueue(j)
      PROVE  InductiveInvariant'
  <2>1. j \notin queued /\ queue \in Seq(Job) /\ j \notin ToSet(queue)
    BY <1>2 DEF Enqueue, QueueOnce, QueueAgrees
  <2>2. queued' = queued \cup {j} /\ queue' = Append(queue, j)
    BY <1>2, <2>1 DEF Enqueue
  <2>3. queue' \in Seq(Job) /\ QueueAgrees'
    BY <2>1, <2>2, AppendQueue DEF QueueAgrees
  <2>4. TypeOK'
    BY <1>2, <2>2, <2>3 DEF Enqueue
  <2>5. SlotsAgree' /\ QueueOnce'
    <3>1. SlotsAgree'
      BY <1>2, <2>2 DEF Enqueue, SlotsAgree, HoldsSlot, Starting
    <3>2. status[j] \in {"queued", "deleted"}
      BY <1>2 DEF Enqueue, QueueOnce, StatusFollows
    <3>3. QueueOnce'
      BY <1>2, <2>2, <3>2 DEF Enqueue, QueueOnce, Starting
    <3> QED
      BY <3>1, <3>3
  <2>6. Outcomes'
    BY <1>2, <2>2, SMTT(60)
       DEF Enqueue, QueueOnce, StatusFollows,
           PublishedExists, NoQueuedJobLost, NoZombie, DoneIsDownloadable,
           Producing, MadeFile, Starting
  <2>7. Wakeups'
    BY <1>2 DEF Enqueue, MutexFree, LimitSeen, NoLostWakeup
  <2> QED
    BY <2>3, <2>4, <2>5, <2>6, <2>7
<1>3. ASSUME NEW j \in Job, EnqueueSignal(j)
      PROVE  InductiveInvariant'
  <2>1. TypeOK'
    BY <1>3 DEF EnqueueSignal
  <2>2. Queueing'
    BY <1>3, SMTT(60)
       DEF EnqueueSignal, QueueAgrees, SlotsAgree, QueueOnce,
           HoldsSlot, Starting
  <2>3. Outcomes'
    BY <1>3, SMTT(60)
       DEF EnqueueSignal, QueueOnce, StatusFollows,
           PublishedExists, NoQueuedJobLost, NoZombie, DoneIsDownloadable,
           Producing, MadeFile, Starting
  <2>4. Wakeups'
    BY <1>3 DEF EnqueueSignal, LimitSeen, NoLostWakeup, MoreToStart
  <2> QED
    BY <2>1, <2>2, <2>3, <2>4
<1>4. ASSUME NEW j \in Job, LoadJob(j)
      PROVE  InductiveInvariant'
  <2>1. TypeOK'
    BY <1>4 DEF LoadJob
  <2>2. Queueing'
    BY <1>4, SMTT(60)
       DEF LoadJob, QueueAgrees, SlotsAgree, QueueOnce,
           HoldsSlot, Starting
  <2>3. Outcomes'
    BY <1>4, SMTT(60)
       DEF LoadJob, QueueOnce, StatusFollows,
           PublishedExists, NoQueuedJobLost, NoZombie, DoneIsDownloadable,
           Producing, MadeFile, Starting
  <2>4. Wakeups'
    BY <1>4 DEF LoadJob, LimitSeen, NoLostWakeup, MoreToStart
  <2> QED
    BY <2>1, <2>2, <2>3, <2>4
<1>5. ASSUME NEW j \in Job, Cancel(j)
      PROVE  InductiveInvariant'
  <2>1. queue' \in Seq(Job) /\ queued' = queued \ {j} /\ QueueAgrees'
    <3>1. CASE j \in queued
      <4>1. queued' = queued \ {j} /\ queue' = RemoveFirst(queue, j)
        BY <1>5, <3>1 DEF Cancel
      <4> QED
        BY <3>1, <4>1, RemoveFromQueue DEF QueueAgrees
    <3>2. CASE j \notin queued
      BY <1>5, <3>2 DEF Cancel, QueueAgrees
    <3> QED
      BY <3>1, <3>2
  <2>2. TypeOK'
    BY <1>5, <2>1 DEF Cancel
  <2>3. SlotsAgree' /\ QueueOnce'
    BY <1>5, <2>1 DEF Cancel, SlotsAgree, QueueOnce, HoldsSlot, Starting
  <2>4. Outcomes'
    BY <1>5, <2>1, SMTT(60)
       DEF Cancel, QueueOnce, StatusFollows,
           PublishedExists, NoQueuedJobLost, NoZombie, DoneIsDownloadable,
           Producing, MadeFile, Starting
  <2>5. Wakeups'
    <3>1. queue' # <<>> => queue # <<>>
      BY <1>5 DEF Cancel, QueueAgrees, ToSet
    <3> QED
      BY <1>5, <3>1 DEF Cancel, MutexFree, LimitSeen, NoLostWakeup
  <2> QED
    BY <2>1, <2>2, <2>3, <2>4, <2>5
<1>6. ASSUME NEW j \in Job, DeleteJob(j)
      PROVE  InductiveInvariant'
  <2>1. TypeOK'
    <3>1. CASE InStore(j)
      <4>1. files' \in [Job -> SUBSET Kind]
        BY <1>6, <3>1 DEF DeleteJob, RemoveJobs, JobFileNames
      <4>2. status' \in [Job -> {"none", "queued", "running", "done", "failed", "deleted"}]
        BY <1>6, <3>1 DEF DeleteJob, RemoveJobs
      <4> QED
        BY <1>6, <3>1, <4>1, <4>2 DEF DeleteJob, RemoveJobs
    <3>2. CASE ~InStore(j)
      BY <1>6, <3>2 DEF DeleteJob
    <3> QED
      BY <3>1, <3>2
  <2>2. Queueing'
    BY <1>6, SMTT(60)
       DEF DeleteJob, RemoveJobs, JobFileNames, QueueAgrees, SlotsAgree, QueueOnce,
           HoldsSlot, Starting
  <2>3. Outcomes'
    BY <1>6, SMTT(60)
       DEF DeleteJob, RemoveJobs, JobFileNames, QueueOnce, StatusFollows,
           PublishedExists, NoQueuedJobLost, NoZombie, DoneIsDownloadable,
           Producing, MadeFile, Starting
  <2>4. Wakeups'
    BY <1>6 DEF DeleteJob, RemoveJobs, JobFileNames, LimitSeen, NoLostWakeup, MoreToStart
  <2> QED
    BY <2>1, <2>2, <2>3, <2>4
<1>7. ASSUME NEW j \in Job, PurgeShare(j)
      PROVE  InductiveInvariant'
  <2>1. TypeOK'
    <3>1. CASE InStore(j)
      <4>1. files' \in [Job -> SUBSET Kind]
        BY <1>7, <3>1 DEF PurgeShare, RemoveJobs, JobFileNames
      <4>2. status' \in [Job -> {"none", "queued", "running", "done", "failed", "deleted"}]
        BY <1>7, <3>1 DEF PurgeShare, RemoveJobs
      <4> QED
        BY <1>7, <3>1, <4>1, <4>2 DEF PurgeShare, RemoveJobs
    <3>2. CASE ~InStore(j)
      BY <1>7, <3>2 DEF PurgeShare
    <3> QED
      BY <3>1, <3>2
  <2>2. Queueing'
    BY <1>7, SMTT(60)
       DEF PurgeShare, RemoveJobs, JobFileNames, QueueAgrees, SlotsAgree, QueueOnce,
           HoldsSlot, Starting
  <2>3. Outcomes'
    BY <1>7, SMTT(60)
       DEF PurgeShare, RemoveJobs, JobFileNames, QueueOnce, StatusFollows,
           PublishedExists, NoQueuedJobLost, NoZombie, DoneIsDownloadable,
           Producing, MadeFile, Starting
  <2>4. Wakeups'
    BY <1>7 DEF PurgeShare, RemoveJobs, JobFileNames, LimitSeen, NoLostWakeup, MoreToStart
  <2> QED
    BY <2>1, <2>2, <2>3, <2>4
<1>8. ASSUME NEW S \in SUBSET Job, PruneExports(S)
      PROVE  InductiveInvariant'
  <2>1. TypeOK'
    BY <1>8 DEF PruneExports, RemoveJobs, JobFileNames
  <2>2. Queueing'
    BY <1>8, SMTT(60)
       DEF PruneExports, RemoveJobs, JobFileNames, QueueAgrees, SlotsAgree, QueueOnce,
           HoldsSlot, Starting
  <2>3. Outcomes'
    BY <1>8, SMTT(60)
       DEF PruneExports, RemoveJobs, JobFileNames, QueueOnce, StatusFollows,
           PublishedExists, NoQueuedJobLost, NoZombie, DoneIsDownloadable,
           Producing, MadeFile, Starting
  <2>4. Wakeups'
    BY <1>8
       DEF PruneExports, RemoveJobs, JobFileNames, LimitSeen, NoLostWakeup, MoreToStart
  <2> QED
    BY <2>1, <2>2, <2>3, <2>4
<1>9. ASSUME NEW n \in Limits, UpdateSettings(n)
      PROVE  InductiveInvariant'
  <2>1. TypeOK'
    BY <1>9 DEF UpdateSettings
  <2>2. Queueing'
    BY <1>9, SMTT(60)
       DEF UpdateSettings, QueueAgrees, SlotsAgree, QueueOnce,
           HoldsSlot, Starting
  <2>3. Outcomes'
    BY <1>9, SMTT(60)
       DEF UpdateSettings, QueueOnce, StatusFollows,
           PublishedExists, NoQueuedJobLost, NoZombie, DoneIsDownloadable,
           Producing, MadeFile, Starting
  <2>4. Wakeups'
    BY <1>9 DEF UpdateSettings, LimitSeen, NoLostWakeup, MoreToStart
  <2> QED
    BY <2>1, <2>2, <2>3, <2>4
<1>11. ASSUME NEW n \in Limits, SaveSettings(n)
       PROVE  InductiveInvariant'
  <2>1. TypeOK'
    BY <1>11 DEF SaveSettings
  <2>2. Queueing'
    BY <1>11, SMTT(60)
       DEF SaveSettings, QueueAgrees, SlotsAgree, QueueOnce,
           HoldsSlot, Starting
  <2>3. Outcomes'
    BY <1>11, SMTT(60)
       DEF SaveSettings, QueueOnce, StatusFollows,
           PublishedExists, NoQueuedJobLost, NoZombie, DoneIsDownloadable,
           Producing, MadeFile, Starting
  <2>4. Wakeups'
    BY <1>11 DEF SaveSettings, LimitSeen, NoLostWakeup
  <2> QED
    BY <2>1, <2>2, <2>3, <2>4
<1>10. ASSUME SettingsSignal
      PROVE  InductiveInvariant'
  <2>1. TypeOK'
    BY <1>10 DEF SettingsSignal
  <2>2. Queueing'
    BY <1>10, SMTT(60)
       DEF SettingsSignal, QueueAgrees, SlotsAgree, QueueOnce,
           HoldsSlot, Starting
  <2>3. Outcomes'
    BY <1>10, SMTT(60)
       DEF SettingsSignal, QueueOnce, StatusFollows,
           PublishedExists, NoQueuedJobLost, NoZombie, DoneIsDownloadable,
           Producing, MadeFile, Starting
  <2>4. Wakeups'
    BY <1>10 DEF SettingsSignal, LimitSeen, NoLostWakeup, MoreToStart
  <2> QED
    BY <2>1, <2>2, <2>3, <2>4
<1> QED
  BY <1>1, <1>2, <1>3, <1>4, <1>5, <1>6, <1>7, <1>8, <1>9, <1>10, <1>11
     DEF Requests, StartStep, DeleteStep

(* The dispatcher preserves it. *)
LEMMA DispatcherPreserves ==
    ASSUME InductiveInvariant, Dispatcher
    PROVE  InductiveInvariant'
<1> USE ConstantsAssumption, JobNumbers
    DEF InductiveInvariant, Queueing, Outcomes, Wakeups, storeVars, diskVars,
        queueVars, slotVars, dispatchVars, settingsVars, Elsewhere, At,
        Goto, SetFiles, Kind, InStore, TypeOK
<1>1. ASSUME DispatchWake
      PROVE  InductiveInvariant'
  <2>1. TypeOK'
    BY <1>1 DEF DispatchWake
  <2>2. Queueing'
    BY <1>1, SMTT(60)
       DEF DispatchWake, QueueAgrees, SlotsAgree, QueueOnce,
           HoldsSlot, Starting
  <2>3. Outcomes'
    BY <1>1, SMTT(60)
       DEF DispatchWake, QueueOnce, StatusFollows,
           PublishedExists, NoQueuedJobLost, NoZombie, DoneIsDownloadable,
           Producing, MadeFile, Starting
  <2>4. Wakeups'
    BY <1>1 DEF DispatchWake, LimitSeen, NoLostWakeup, MoreToStart
  <2> QED
    BY <2>1, <2>2, <2>3, <2>4
<1>2. ASSUME DispatchLock
      PROVE  InductiveInvariant'
  <2>1. TypeOK'
    <3>1. silent' \in BOOLEAN
      BY <1>2, Zenon DEF DispatchLock
    <3> QED
      BY <1>2, <3>1 DEF DispatchLock
  <2>2. Queueing'
    BY <1>2, SMTT(60)
       DEF DispatchLock, QueueAgrees, SlotsAgree, QueueOnce,
           HoldsSlot, Starting
  <2>3. Outcomes'
    BY <1>2, SMTT(60)
       DEF DispatchLock, QueueOnce, StatusFollows,
           PublishedExists, NoQueuedJobLost, NoZombie, DoneIsDownloadable,
           Producing, MadeFile, Starting
  <2>4. Wakeups'
    BY <1>2 DEF DispatchLock, LimitSeen, NoLostWakeup, MoreToStart
  <2> QED
    BY <2>1, <2>2, <2>3, <2>4
<1>3. ASSUME DispatchPop
      PROVE  InductiveInvariant'
  <2> DEFINE h == Head(queue)
  <2>1. /\ h \in Job /\ h \in queued /\ queue' \in Seq(Job)
        /\ queued' = queued \ {h} /\ QueueAgrees'
    BY <1>3, TailQueue DEF DispatchPop, MoreToStart, QueueAgrees
  <2> HIDE DEF h
  <2>2. CASE status[h] # "queued"
    <3>1. UNCHANGED <<status, spc, rpc, epc, slotVars, djob, dpc, cancelled, shares,
                      files, output, dmax, limit, wake, settingsVars>>
      BY <1>3, <2>2 DEF DispatchPop, h
    <3>2. TypeOK'
      BY <1>3, <2>1, <3>1 DEF DispatchPop
    <3>3. SlotsAgree' /\ QueueOnce' /\ Wakeups'
      BY <1>3, <2>1, <3>1
         DEF DispatchPop, SlotsAgree, QueueOnce, HoldsSlot, Starting,
             LimitSeen, NoLostWakeup
    <3>4. Outcomes'
      BY <2>1, <2>2, <3>1, SMTT(60)
         DEF QueueOnce, StatusFollows,
           PublishedExists, NoQueuedJobLost, NoZombie, DoneIsDownloadable,
           Producing, MadeFile, Starting
    <3> QED
      BY <2>1, <3>2, <3>3, <3>4
  <2>3. CASE status[h] = "queued"
    <3>1. /\ cancels' = cancels \cup {h} /\ running' = running + 1
          /\ djob' = h /\ dpc' = "start"
          /\ UNCHANGED <<status, spc, rpc, epc, cancelled, shares, files, output,
                         dmax, limit, wake, settingsVars>>
      BY <1>3, <2>3 DEF DispatchPop, h
    <3>2. dpc = "scan" /\ running < dmax
      BY <1>3 DEF DispatchPop, MoreToStart
    <3>3. h \notin cancels /\ IsFiniteSet(cancels)
      BY <2>1, <3>2, FS_Subset DEF SlotsAgree, QueueOnce, HoldsSlot, Starting
    <3>4. Cardinality(cancels') = Cardinality(cancels) + 1
      BY <3>1, <3>3, FS_AddElement
    <3>5. TypeOK'
      BY <2>1, <3>1, <3>2
    <3>6. SlotsAgree'
      BY <2>1, <3>1, <3>2, <3>4 DEF SlotsAgree, HoldsSlot, Starting
    <3>7. QueueOnce' /\ Wakeups'
      BY <2>1, <2>3, <3>1, <3>2
         DEF QueueOnce, Starting, LimitSeen, NoLostWakeup
    <3>8. Outcomes'
      BY <2>1, <2>3, <3>1, <3>2, SMTT(60)
         DEF QueueOnce, StatusFollows,
           PublishedExists, NoQueuedJobLost, NoZombie, DoneIsDownloadable,
           Producing, MadeFile, Starting
    <3> QED
      BY <2>1, <3>5, <3>6, <3>7, <3>8
  <2> QED
    BY <2>2, <2>3
<1>4. ASSUME DispatchStart
      PROVE  InductiveInvariant'
  <2>1. TypeOK'
    BY <1>4 DEF DispatchStart, UpdatedJob
  <2>2. Queueing'
    BY <1>4, SMTT(60)
       DEF DispatchStart, UpdatedJob, QueueAgrees, SlotsAgree, QueueOnce,
           HoldsSlot, Starting
  <2>3. Outcomes'
    BY <1>4, SMTT(60)
       DEF DispatchStart, UpdatedJob, QueueOnce, StatusFollows,
           PublishedExists, NoQueuedJobLost, NoZombie, DoneIsDownloadable,
           Producing, MadeFile, Starting
  <2>4. Wakeups'
    BY <1>4 DEF DispatchStart, UpdatedJob, LimitSeen, NoLostWakeup, MoreToStart
  <2> QED
    BY <2>1, <2>2, <2>3, <2>4
<1>5. ASSUME DispatchUnlock
      PROVE  InductiveInvariant'
  <2>1. TypeOK'
    BY <1>5 DEF DispatchUnlock, MoreToStart
  <2>2. Queueing'
    BY <1>5, SMTT(60)
       DEF DispatchUnlock, MoreToStart, QueueAgrees, SlotsAgree, QueueOnce,
           HoldsSlot, Starting
  <2>3. Outcomes'
    BY <1>5, SMTT(60)
       DEF DispatchUnlock, MoreToStart, QueueOnce, StatusFollows,
           PublishedExists, NoQueuedJobLost, NoZombie, DoneIsDownloadable,
           Producing, MadeFile, Starting
  <2>4. Wakeups'
    BY <1>5 DEF DispatchUnlock, MoreToStart, LimitSeen, NoLostWakeup
  <2> QED
    BY <2>1, <2>2, <2>3, <2>4
<1> QED
  BY <1>1, <1>2, <1>3, <1>4, <1>5 DEF Dispatcher

(* The goroutine of an export preserves it. *)
LEMMA ExportPreserves ==
    ASSUME InductiveInvariant, NEW i \in Job, ExportStep(i)
    PROVE  InductiveInvariant'
<1> USE ConstantsAssumption, JobNumbers
    DEF InductiveInvariant, Queueing, Outcomes, Wakeups, storeVars, diskVars,
        queueVars, slotVars, dispatchVars, settingsVars, Elsewhere, At,
        Goto, SetFiles, Kind, InStore, TypeOK
<1>1. ASSUME NEW j \in Job, ExportFails(j)
      PROVE  InductiveInvariant'
  <2>1. TypeOK'
    BY <1>1 DEF ExportFails, Fail, UpdatedJob
  <2>2. Queueing'
    BY <1>1, SMTT(60)
       DEF ExportFails, Fail, UpdatedJob, QueueAgrees, SlotsAgree, QueueOnce,
           HoldsSlot, Starting
  <2>3. Outcomes'
    BY <1>1, SMTT(60)
       DEF ExportFails, Fail, UpdatedJob, QueueOnce, StatusFollows,
           PublishedExists, NoQueuedJobLost, NoZombie, DoneIsDownloadable,
           Producing, MadeFile, Starting
  <2>4. Wakeups'
    BY <1>1 DEF ExportFails, Fail, UpdatedJob, LimitSeen, NoLostWakeup, MoreToStart
  <2> QED
    BY <2>1, <2>2, <2>3, <2>4
<1>2. ASSUME NEW j \in Job, PlanExport(j)
      PROVE  InductiveInvariant'
  <2>1. TypeOK'
    BY <1>2 DEF PlanExport
  <2>2. Queueing'
    BY <1>2, SMTT(60)
       DEF PlanExport, QueueAgrees, SlotsAgree, QueueOnce,
           HoldsSlot, Starting
  <2>3. Outcomes'
    BY <1>2, SMTT(60)
       DEF PlanExport, QueueOnce, StatusFollows,
           PublishedExists, NoQueuedJobLost, NoZombie, DoneIsDownloadable,
           Producing, MadeFile, Starting
  <2>4. Wakeups'
    BY <1>2 DEF PlanExport, LimitSeen, NoLostWakeup, MoreToStart
  <2> QED
    BY <2>1, <2>2, <2>3, <2>4
<1>3. ASSUME NEW j \in Job, OpenSink(j)
      PROVE  InductiveInvariant'
  <2>1. TypeOK'
    BY <1>3 DEF OpenSink
  <2>2. Queueing'
    BY <1>3, SMTT(60)
       DEF OpenSink, QueueAgrees, SlotsAgree, QueueOnce,
           HoldsSlot, Starting
  <2>3. Outcomes'
    BY <1>3, SMTT(60)
       DEF OpenSink, QueueOnce, StatusFollows,
           PublishedExists, NoQueuedJobLost, NoZombie, DoneIsDownloadable,
           Producing, MadeFile, Starting
  <2>4. Wakeups'
    BY <1>3 DEF OpenSink, LimitSeen, NoLostWakeup, MoreToStart
  <2> QED
    BY <2>1, <2>2, <2>3, <2>4
<1>4. ASSUME NEW j \in Job, FetchCancelled(j)
      PROVE  InductiveInvariant'
  <2>1. TypeOK'
    BY <1>4 DEF FetchCancelled
  <2>2. Queueing'
    BY <1>4, SMTT(60)
       DEF FetchCancelled, QueueAgrees, SlotsAgree, QueueOnce,
           HoldsSlot, Starting
  <2>3. Outcomes'
    BY <1>4, SMTT(60)
       DEF FetchCancelled, QueueOnce, StatusFollows,
           PublishedExists, NoQueuedJobLost, NoZombie, DoneIsDownloadable,
           Producing, MadeFile, Starting
  <2>4. Wakeups'
    BY <1>4 DEF FetchCancelled, LimitSeen, NoLostWakeup, MoreToStart
  <2> QED
    BY <2>1, <2>2, <2>3, <2>4
<1>5. ASSUME NEW j \in Job, FetchDone(j)
      PROVE  InductiveInvariant'
  <2>1. TypeOK'
    BY <1>5 DEF FetchDone
  <2>2. Queueing'
    BY <1>5, SMTT(60)
       DEF FetchDone, QueueAgrees, SlotsAgree, QueueOnce,
           HoldsSlot, Starting
  <2>3. Outcomes'
    BY <1>5, SMTT(60)
       DEF FetchDone, QueueOnce, StatusFollows,
           PublishedExists, NoQueuedJobLost, NoZombie, DoneIsDownloadable,
           Producing, MadeFile, Starting
  <2>4. Wakeups'
    BY <1>5 DEF FetchDone, LimitSeen, NoLostWakeup, MoreToStart
  <2> QED
    BY <2>1, <2>2, <2>3, <2>4
<1>6. ASSUME NEW j \in Job, PackagePlain(j)
      PROVE  InductiveInvariant'
  <2>1. TypeOK'
    <3>1. CASE j \in cancelled
      BY <1>6, <3>1 DEF PackagePlain, Packaged
    <3>2. CASE j \notin cancelled
      BY <1>6, <3>2 DEF PackagePlain, Packaged
    <3> QED
      BY <3>1, <3>2
  <2>2. Queueing'
    <3>1. CASE j \in cancelled
      BY <1>6, <3>1
         DEF PackagePlain, Packaged, QueueAgrees, SlotsAgree, QueueOnce,
             HoldsSlot, Starting
    <3>2. CASE j \notin cancelled
      BY <1>6, <3>2
         DEF PackagePlain, Packaged, QueueAgrees, SlotsAgree, QueueOnce,
             HoldsSlot, Starting
    <3> QED
      BY <3>1, <3>2
  <2>3. Outcomes'
    <3>1. CASE j \in cancelled
      BY <1>6, <3>1
         DEF PackagePlain, Packaged, QueueOnce, StatusFollows,
             PublishedExists, NoQueuedJobLost, NoZombie, DoneIsDownloadable,
             Producing, MadeFile, Starting
    <3>2. CASE j \notin cancelled
      BY <1>6, <3>2
         DEF PackagePlain, Packaged, QueueOnce, StatusFollows,
             PublishedExists, NoQueuedJobLost, NoZombie, DoneIsDownloadable,
             Producing, MadeFile, Starting
    <3> QED
      BY <3>1, <3>2
  <2>4. Wakeups'
    BY <1>6 DEF PackagePlain, Packaged, LimitSeen, NoLostWakeup, MoreToStart
  <2> QED
    BY <2>1, <2>2, <2>3, <2>4
<1>7. ASSUME NEW j \in Job, PackageOpen(j)
      PROVE  InductiveInvariant'
  <2>1. TypeOK'
    BY <1>7 DEF PackageOpen
  <2>2. Queueing'
    BY <1>7, SMTT(60)
       DEF PackageOpen, QueueAgrees, SlotsAgree, QueueOnce,
           HoldsSlot, Starting
  <2>3. Outcomes'
    BY <1>7, SMTT(60)
       DEF PackageOpen, QueueOnce, StatusFollows,
           PublishedExists, NoQueuedJobLost, NoZombie, DoneIsDownloadable,
           Producing, MadeFile, Starting
  <2>4. Wakeups'
    BY <1>7 DEF PackageOpen, LimitSeen, NoLostWakeup, MoreToStart
  <2> QED
    BY <2>1, <2>2, <2>3, <2>4
<1>8. ASSUME NEW j \in Job, PackageNextVolume(j)
      PROVE  InductiveInvariant'
  <2>1. TypeOK'
    BY <1>8 DEF PackageNextVolume
  <2>2. Queueing'
    BY <1>8, SMTT(60)
       DEF PackageNextVolume, QueueAgrees, SlotsAgree, QueueOnce,
           HoldsSlot, Starting
  <2>3. Outcomes'
    BY <1>8, SMTT(60)
       DEF PackageNextVolume, QueueOnce, StatusFollows,
           PublishedExists, NoQueuedJobLost, NoZombie, DoneIsDownloadable,
           Producing, MadeFile, Starting
  <2>4. Wakeups'
    BY <1>8 DEF PackageNextVolume, LimitSeen, NoLostWakeup, MoreToStart
  <2> QED
    BY <2>1, <2>2, <2>3, <2>4
<1>9. ASSUME NEW j \in Job, PackageClose(j)
      PROVE  InductiveInvariant'
  <2>1. At(j, "packing") /\ UNCHANGED <<status, shares, slotVars, wake, Elsewhere>>
    BY <1>9 DEF PackageClose, Packaged
  <2> DEFINE F == files'[j]
             result == IF "vol" \in files[j] THEN "many" ELSE "one"
  <2>2. /\ result \in {"one", "many"}
        /\ F \in SUBSET Kind /\ files' = [files EXCEPT ![j] = F]
        /\ \/ /\ epc' = [epc EXCEPT ![j] = "cleanup"] /\ UNCHANGED output
              /\ j \in cancelled
           \/ /\ epc' = [epc EXCEPT ![j] = "publish"]
              /\ output' = [output EXCEPT ![j] = result]
              /\ status[j] # "deleted" =>
                    (IF result = "many" THEN "vol" ELSE "out") \in F
    <3>1. status[j] # "deleted" => "out" \in files[j]
      BY <2>1 DEF PublishedExists
    <3>2. CASE "vol" \in files[j] /\ j \in cancelled
      BY <1>9, <3>2 DEF PackageClose, Packaged
    <3>3. CASE "vol" \in files[j] /\ j \notin cancelled
      BY <1>9, <3>3 DEF PackageClose, Packaged
    <3>4. CASE "vol" \notin files[j] /\ j \in cancelled
      BY <1>9, <3>4 DEF PackageClose, Packaged
    <3>5. CASE "vol" \notin files[j] /\ j \notin cancelled
      BY <1>9, <3>1, <3>5 DEF PackageClose, Packaged
    <3> QED
      BY <3>2, <3>3, <3>4, <3>5
  <2> HIDE DEF F, result
  <2>3. TypeOK'
    <3>1. files' \in [Job -> SUBSET Kind]
      BY <2>2
    <3>2. output' \in [Job -> {"none", "one", "many"}]
      BY <2>2
    <3>3. epc' \in [Job -> {"off", "begin", "open", "fetch", "package",
                             "packing", "publish", "final", "share", "cleanup",
                             "release", "signal"}]
      BY <2>2
    <3> QED
      BY <2>1, <3>1, <3>2, <3>3
  <2>4. Queueing'
    <3>1. QueueAgrees' /\ QueueOnce'
      BY <2>1, <2>2, SMTT(60) DEF QueueAgrees, QueueOnce, Starting
    <3>2. \A k \in Job : HoldsSlot(k)' <=> HoldsSlot(k)
      BY <2>1, <2>2, SMTT(60) DEF HoldsSlot, Starting
    <3>3. UNCHANGED <<cancels, running>>
      BY <2>1, <2>2
    <3>4. SlotsAgree'
      BY <3>2, <3>3 DEF SlotsAgree
    <3> QED
      BY <3>1, <3>4
  <2>5. Outcomes'
    <3>1. PublishedExists'
      BY <2>1, <2>2 DEF PublishedExists, MadeFile
    <3>2. StatusFollows' /\ NoQueuedJobLost' /\ NoZombie'
      BY <2>1, <2>2
         DEF QueueOnce, StatusFollows, NoQueuedJobLost, NoZombie, Producing,
             Starting
    <3>3. DoneIsDownloadable'
      BY <2>1, <2>2 DEF StatusFollows, DoneIsDownloadable, Producing, MadeFile
    <3> QED
      BY <3>1, <3>2, <3>3
  <2>6. Wakeups'
    BY <2>1, <2>2 DEF LimitSeen, NoLostWakeup
  <2> QED
    BY <2>3, <2>4, <2>5, <2>6
<1>10. ASSUME NEW j \in Job, Publish(j)
      PROVE  InductiveInvariant'
  <2>1. TypeOK'
    BY <1>10 DEF Publish, UpdatedJob
  <2>2. Queueing'
    BY <1>10, SMTT(60)
       DEF Publish, UpdatedJob, QueueAgrees, SlotsAgree, QueueOnce,
           HoldsSlot, Starting
  <2>3. Outcomes'
    BY <1>10, SMTT(60)
       DEF Publish, UpdatedJob, QueueOnce, StatusFollows,
           PublishedExists, NoQueuedJobLost, NoZombie, DoneIsDownloadable,
           Producing, MadeFile, Starting
  <2>4. Wakeups'
    BY <1>10 DEF Publish, UpdatedJob, LimitSeen, NoLostWakeup, MoreToStart
  <2> QED
    BY <2>1, <2>2, <2>3, <2>4
<1>11. ASSUME NEW j \in Job, FinalExport(j)
      PROVE  InductiveInvariant'
  <2>1. TypeOK'
    BY <1>11 DEF FinalExport
  <2>2. Queueing'
    <3>1. QueueAgrees' /\ QueueOnce'
      BY <1>11, SMTT(60) DEF FinalExport, QueueAgrees, QueueOnce, Starting
    <3>2. \A k \in Job : HoldsSlot(k)' <=> HoldsSlot(k)
      BY <1>11, SMTT(60) DEF FinalExport, HoldsSlot, Starting
    <3>3. UNCHANGED <<cancels, running>>
      BY <1>11 DEF FinalExport
    <3>4. SlotsAgree'
      BY <3>2, <3>3 DEF SlotsAgree
    <3> QED
      BY <3>1, <3>4
  <2>3. Outcomes'
    BY <1>11, SMTT(60)
       DEF FinalExport, QueueOnce, StatusFollows,
           PublishedExists, NoQueuedJobLost, NoZombie, DoneIsDownloadable,
           Producing, MadeFile, Starting
  <2>4. Wakeups'
    BY <1>11 DEF FinalExport, LimitSeen, NoLostWakeup, MoreToStart
  <2> QED
    BY <2>1, <2>2, <2>3, <2>4
<1>12. ASSUME NEW j \in Job, AutoShare(j)
      PROVE  InductiveInvariant'
  <2>1. TypeOK'
    BY <1>12 DEF AutoShare
  <2>2. Queueing'
    BY <1>12, SMTT(60)
       DEF AutoShare, QueueAgrees, SlotsAgree, QueueOnce,
           HoldsSlot, Starting
  <2>3. Outcomes'
    BY <1>12, SMTT(60)
       DEF AutoShare, QueueOnce, StatusFollows,
           PublishedExists, NoQueuedJobLost, NoZombie, DoneIsDownloadable,
           Producing, MadeFile, Starting
  <2>4. Wakeups'
    BY <1>12 DEF AutoShare, LimitSeen, NoLostWakeup, MoreToStart
  <2> QED
    BY <2>1, <2>2, <2>3, <2>4
<1>13. ASSUME NEW j \in Job, Cleanup(j)
      PROVE  InductiveInvariant'
  <2>1. TypeOK'
    BY <1>13 DEF Cleanup
  <2>2. Queueing'
    BY <1>13, SMTT(60)
       DEF Cleanup, QueueAgrees, SlotsAgree, QueueOnce,
           HoldsSlot, Starting
  <2>3. Outcomes'
    BY <1>13, SMTT(60)
       DEF Cleanup, QueueOnce, StatusFollows,
           PublishedExists, NoQueuedJobLost, NoZombie, DoneIsDownloadable,
           Producing, MadeFile, Starting
  <2>4. Wakeups'
    BY <1>13 DEF Cleanup, LimitSeen, NoLostWakeup, MoreToStart
  <2> QED
    BY <2>1, <2>2, <2>3, <2>4
<1>14. ASSUME NEW j \in Job, Release(j)
      PROVE  InductiveInvariant'
  <2>1. j \in cancels /\ IsFiniteSet(cancels)
    BY <1>14, FS_Subset DEF Release, SlotsAgree, HoldsSlot
  <2>2. /\ Cardinality(cancels \ {j}) = Cardinality(cancels) - 1
        /\ Cardinality(cancels \ {j}) \in Nat
    BY <2>1, FS_RemoveElement, FS_CardinalityType
  <2>3. TypeOK'
    BY <1>14, <2>2 DEF Release, SlotsAgree
  <2>4. SlotsAgree'
    BY <1>14, <2>1, <2>2 DEF Release, MutexFree, SlotsAgree, HoldsSlot, Starting
  <2>5. QueueAgrees' /\ QueueOnce'
    BY <1>14 DEF Release, QueueAgrees, QueueOnce, Starting
  <2>6. Outcomes'
    BY <1>14, SMTT(60)
       DEF Release, QueueOnce, StatusFollows,
           PublishedExists, NoQueuedJobLost, NoZombie, DoneIsDownloadable,
           Producing, MadeFile, Starting
  <2>7. Wakeups'
    BY <1>14 DEF Release, MutexFree, LimitSeen, NoLostWakeup
  <2> QED
    BY <2>3, <2>4, <2>5, <2>6, <2>7
<1>15. ASSUME NEW j \in Job, ReleaseSignal(j)
      PROVE  InductiveInvariant'
  <2>1. TypeOK'
    BY <1>15 DEF ReleaseSignal
  <2>2. Queueing'
    BY <1>15, SMTT(60)
       DEF ReleaseSignal, QueueAgrees, SlotsAgree, QueueOnce,
           HoldsSlot, Starting
  <2>3. Outcomes'
    BY <1>15, SMTT(60)
       DEF ReleaseSignal, QueueOnce, StatusFollows,
           PublishedExists, NoQueuedJobLost, NoZombie, DoneIsDownloadable,
           Producing, MadeFile, Starting
  <2>4. Wakeups'
    BY <1>15 DEF ReleaseSignal, LimitSeen, NoLostWakeup, MoreToStart
  <2> QED
    BY <2>1, <2>2, <2>3, <2>4
<1> QED
  BY <1>1, <1>2, <1>3, <1>4, <1>5, <1>6, <1>7, <1>8, <1>9, <1>10, <1>11, <1>12, <1>13, <1>14, <1>15
     DEF ExportStep

(* Every reachable state satisfies the invariant. *)
THEOREM Invariance == Spec => []InductiveInvariant
<1>1. InductiveInvariant /\ [Next]_vars => InductiveInvariant'
  <2> SUFFICES ASSUME InductiveInvariant, [Next]_vars
               PROVE  InductiveInvariant'
    OBVIOUS
  <2>1. CASE Requests
    BY <2>1, RequestsPreserve
  <2>2. CASE Dispatcher
    BY <2>2, DispatcherPreserves
  <2>3. CASE \E j \in Job : ExportStep(j)
    BY <2>3, ExportPreserves
  <2>4. CASE UNCHANGED vars
    BY <2>4
       DEF vars, storeVars, diskVars, queueVars, slotVars, dispatchVars,
           settingsVars, InductiveInvariant, TypeOK, QueueAgrees, SlotsAgree, QueueOnce,
           StatusFollows, PublishedExists, LimitSeen, NoQueuedJobLost,
           NoZombie, DoneIsDownloadable, NoLostWakeup, Starting, HoldsSlot,
           MadeFile, InStore
  <2> QED
    BY <2>1, <2>2, <2>3, <2>4 DEF Next, Requests
<1> QED
  BY <1>1, InitInvariant, PTL DEF Spec

(* The variables keep their types; in particular running, which Release     *)
(* decrements, never goes below zero.                                       *)
THEOREM TypeCorrect == Spec => []TypeOK
BY Invariance, PTL DEF InductiveInvariant

(* The slice and the map of Worker hold the same jobs, each once. *)
THEOREM QueueConsistent == Spec => []QueueAgrees
BY Invariance, PTL DEF InductiveInvariant

(* No slot leaks, none is given back twice, and no more exports run than    *)
(* the largest limit, whatever the interleaving of cancellation and release. *)
THEOREM SlotsBounded == Spec => []SlotsAgree
BY Invariance, PTL DEF InductiveInvariant

(* A queued record is always on its way to the dispatcher or to deletion. *)
THEOREM QueuedIsKept == Spec => []NoQueuedJobLost
BY Invariance, PTL DEF InductiveInvariant

(* A running record has a goroutine that will end it. *)
THEOREM RunningIsAlive == Spec => []NoZombie
BY Invariance, PTL DEF InductiveInvariant

(* The file a done record names is on disk. *)
THEOREM DoneHasFile == Spec => []DoneIsDownloadable
BY Invariance, PTL DEF InductiveInvariant

(* A sleeping dispatcher that could start a job has a wake-up coming, or its
   limit was written without one. *)
THEOREM WakeupsKept == Spec => []NoLostWakeup
BY Invariance, PTL DEF InductiveInvariant

-----------------------------------------------------------------------------
(* What a cancelled export leaves on disk *)

\* a job whose goroutine is still to come
Early(j) == j \in queued \/ Starting(j) \/ spc[j] \in {"idle", "added", "refused"}

\* a goroutine past its clean-up, or none
CleanedUp(j) == epc[j] \in {"release", "signal", "off"}

LeftOver(j) == IF output[j] = "none" THEN {"vol"} ELSE {}

\* the files a job may have where its goroutine is, and once it is cancelled or
\* its record is deleted
FilesFollow(j) ==
    /\ Early(j) => files[j] = {} /\ output[j] = "none" /\ j \notin cancelled
    /\ epc[j] \in {"begin", "open", "fetch", "package", "packing"} => output[j] = "none"
    /\ epc[j] \in {"begin", "open", "fetch", "package"} => "vol" \notin files[j]
    /\ epc[j] \in {"publish", "final", "share"} => output[j] # "none"
    /\ status[j] = "done" => output[j] # "none"
    /\ status[j] = "failed" => output[j] = "none"
    /\ output[j] = "one" => "vol" \notin files[j]
    /\ output[j] = "many" => "out" \notin files[j]
    /\ CleanedUp(j) => "tmp" \notin files[j]
    /\ j \in cancelled =>
         /\ status[j] # "queued"
         /\ status[j] = "running" /\ CleanedUp(j) => files[j] = {}
         /\ status[j] = "deleted" /\ CleanedUp(j) => files[j] \subseteq LeftOver(j)
    /\ status[j] = "deleted" /\ rpc[j] = "loaded" =>
         /\ ~Early(j) /\ epc[j] \notin Producing
         /\ files[j] \subseteq {"tmp"} \cup LeftOver(j)

\* a step that does not concern job j
Untouched(j) ==
    /\ status'[j] = status[j] /\ files'[j] = files[j] /\ output'[j] = output[j]
    /\ epc'[j] = epc[j] /\ rpc'[j] = rpc[j]
    /\ j \in cancelled' <=> j \in cancelled
    /\ Early(j)' => Early(j)

(* Such a step changes nothing for it. *)
LEMMA UntouchedFollows ==
    ASSUME NEW j \in Job, FilesFollow(j), Untouched(j)
    PROVE  FilesFollow(j)'
BY DEF FilesFollow, Untouched, CleanedUp, LeftOver

(* A record that goes, finished or cancelled, takes its files with it. *)
LEMMA RemovalFollows ==
    ASSUME InductiveInvariant, NEW j \in Job, FilesFollow(j), InStore(j),
           status[j] \in {"done", "failed"} \/ rpc[j] = "cancelled",
           files'[j] = files[j] \ JobFileNames(j), status'[j] = "deleted",
           rpc'[j] = "loaded" => rpc[j] = "loaded",
           output'[j] = output[j], epc'[j] = epc[j],
           j \in cancelled' <=> j \in cancelled, Early(j)' => Early(j)
    PROVE  FilesFollow(j)'
<1>1. files[j] \subseteq Kind /\ output[j] \in {"none", "one", "many"}
  BY DEF InductiveInvariant, TypeOK
<1>2. status[j] \in {"done", "failed"} =>
          /\ ~Early(j) /\ epc[j] \notin Producing
          /\ files'[j] \subseteq {"tmp"} \cup LeftOver(j)
  <2>1. ASSUME status[j] \in {"done", "failed"} PROVE ~Early(j) /\ epc[j] \notin Producing
    BY <2>1 DEF InductiveInvariant, QueueOnce, StatusFollows, Early
  <2>2. ASSUME status[j] \in {"done", "failed"}
        PROVE  files'[j] \subseteq {"tmp"} \cup LeftOver(j)
    BY <1>1, <2>2 DEF FilesFollow, LeftOver, JobFileNames, Kind
  <2> QED
    BY <2>1, <2>2
<1>3. j \in cancelled /\ CleanedUp(j) => files'[j] \subseteq LeftOver(j)
  <2> SUFFICES ASSUME j \in cancelled, CleanedUp(j)
               PROVE  files'[j] \subseteq LeftOver(j)
    OBVIOUS
  <2>1. "tmp" \notin files'[j]
    BY DEF FilesFollow
  <2>2. CASE status[j] \in {"done", "failed"}
    BY <1>2, <2>1, <2>2
  <2>3. CASE status[j] = "running"
    BY <2>3 DEF FilesFollow
  <2> QED
    BY <2>2, <2>3 DEF FilesFollow, InStore, InductiveInvariant, TypeOK
<1> QED
  BY <1>1, <1>2, <1>3 DEF FilesFollow, CleanedUp, LeftOver

(* What a goroutine does to its own files follows its way. *)
LEMMA ExportFollows ==
    ASSUME InductiveInvariant, NEW k \in Job, FilesFollow(k), ExportStep(k)
    PROVE  FilesFollow(k)' /\ \A j \in Job \ {k} : Untouched(j)
<1> USE DEF storeVars, diskVars, queueVars, slotVars, dispatchVars, settingsVars,
            Elsewhere, At, Goto, SetFiles, Untouched, Early, Starting
<1>1. /\ status[k] \in {"none", "queued", "running", "done", "failed", "deleted"}
      /\ files[k] \subseteq Kind /\ output[k] \in {"none", "one", "many"}
      /\ Early(k) => epc[k] = "off"
      /\ epc[k] \in Producing => status[k] \in {"running", "deleted"}
      /\ epc[k] \in {"final", "share"} => status[k] \in {"done", "deleted"}
      /\ epc[k] # "off" => status[k] # "queued"
  BY DEF InductiveInvariant, TypeOK, QueueOnce, StatusFollows
<1>2. /\ \A f : /\ [status EXCEPT ![k] = f][k] = f
              /\ \A j \in Job \ {k} : [status EXCEPT ![k] = f][j] = status[j]
      /\ \A f : /\ [files EXCEPT ![k] = f][k] = f
              /\ \A j \in Job \ {k} : [files EXCEPT ![k] = f][j] = files[j]
      /\ \A f : /\ [output EXCEPT ![k] = f][k] = f
              /\ \A j \in Job \ {k} : [output EXCEPT ![k] = f][j] = output[j]
      /\ \A f : /\ [epc EXCEPT ![k] = f][k] = f
              /\ \A j \in Job \ {k} : [epc EXCEPT ![k] = f][j] = epc[j]
  BY DEF InductiveInvariant, TypeOK
<1>3. ASSUME NEW result \in {"one", "many"}, NEW F, NEW made,
             epc[k] \in {"package", "packing"}, Packaged(k, result, F, made),
             result = "one" => "vol" \notin F, result = "many" => "out" \notin F
      PROVE  FilesFollow(k)' /\ \A j \in Job \ {k} : Untouched(j)
  <2>1. /\ \A j \in Job \ {k} : Untouched(j)
        /\ status'[k] = status[k] /\ rpc' = rpc /\ cancelled' = cancelled
        /\ ~Early(k)' /\ ~Early(k)
        /\ \/ epc'[k] = "cleanup" /\ output'[k] = "none"
           \/ /\ epc'[k] = "publish" /\ output'[k] = result /\ files'[k] = F
              /\ k \notin cancelled
    <3>1. ~Early(k) /\ output[k] = "none"
      BY <1>1, <1>3 DEF FilesFollow
    <3>2. /\ UNCHANGED <<status, rpc, cancelled, queued, dpc, djob, spc>>
          /\ \A j \in Job \ {k} : /\ files'[j] = files[j] /\ epc'[j] = epc[j]
                                  /\ output'[j] = output[j]
      <4>1. UNCHANGED <<status, rpc, cancelled, queued, dpc, djob, spc>>
        BY <1>3 DEF Packaged
      <4>2. \A j \in Job \ {k} : epc'[j] = epc[j]
        BY <1>3 DEF Packaged, InductiveInvariant, TypeOK
      <4>3. \A j \in Job \ {k} : files'[j] = files[j]
        BY <1>3 DEF Packaged, InductiveInvariant, TypeOK
      <4>4. \A j \in Job \ {k} : output'[j] = output[j]
        BY <1>3 DEF Packaged, InductiveInvariant, TypeOK
      <4> QED
        BY <4>1, <4>2, <4>3, <4>4
    <3>3. \/ epc'[k] = "cleanup" /\ output'[k] = "none"
          \/ /\ epc'[k] = "publish" /\ output'[k] = result /\ files'[k] = F
             /\ k \notin cancelled
      BY <1>2, <1>3, <3>1 DEF Packaged
    <3> QED
      BY <3>1, <3>2, <3>3
  <2>2. status[k] \in {"running", "deleted"}
    BY <1>1, <1>3 DEF Producing
  <2>3. status[k] = "deleted" => rpc[k] # "loaded"
    BY <1>3 DEF FilesFollow, Producing
  <2> QED
    BY <1>3, <2>1, <2>2, <2>3 DEF FilesFollow, CleanedUp, LeftOver
<1>4. CASE ExportFails(k)
  BY <1>1, <1>2, <1>4
     DEF ExportFails, Fail, UpdatedJob, InStore, FilesFollow, CleanedUp, LeftOver,
         Producing
<1>5. CASE PlanExport(k)
  BY <1>1, <1>2, <1>5 DEF PlanExport, FilesFollow, CleanedUp, LeftOver, Producing
<1>6. CASE OpenSink(k)
  BY <1>1, <1>2, <1>6 DEF OpenSink, FilesFollow, CleanedUp, LeftOver, Producing
<1>7. CASE FetchCancelled(k)
  BY <1>1, <1>2, <1>7 DEF FetchCancelled, FilesFollow, CleanedUp, LeftOver, Producing
<1>8. CASE FetchDone(k)
  BY <1>1, <1>2, <1>8 DEF FetchDone, FilesFollow, CleanedUp, LeftOver, Producing
<1>9. CASE PackagePlain(k)
  BY <1>9, <1>3 DEF PackagePlain, FilesFollow
<1>10. CASE PackageOpen(k)
  BY <1>1, <1>2, <1>10 DEF PackageOpen, FilesFollow, CleanedUp, LeftOver, Producing
<1>11. CASE PackageNextVolume(k)
  BY <1>1, <1>2, <1>11 DEF PackageNextVolume, FilesFollow, CleanedUp, LeftOver, Producing
<1>12. CASE PackageClose(k)
  <2>1. CASE "vol" \in files[k]
    BY <1>12, <1>3, <2>1 DEF PackageClose
  <2>2. CASE "vol" \notin files[k]
    BY <1>12, <1>3, <2>2 DEF PackageClose
  <2> QED
    BY <2>1, <2>2
<1>13. CASE Publish(k)
  BY <1>1, <1>2, <1>13 DEF Publish, UpdatedJob, InStore, FilesFollow, CleanedUp, LeftOver, Producing
<1>14. CASE FinalExport(k)
  <2>1. PICK pc \in {"share", "cleanup"} : Goto(k, pc) /\ (pc = "share" => InStore(k))
    BY <1>14 DEF FinalExport
  <2>2. /\ epc[k] = "final"
        /\ UNCHANGED <<status, files, output, cancelled, rpc, spc, queued, dpc, djob>>
    BY <1>14 DEF FinalExport
  <2> QED
    BY <1>1, <1>2, <2>1, <2>2 DEF FilesFollow, CleanedUp, LeftOver, Producing
<1>15. CASE AutoShare(k)
  BY <1>1, <1>2, <1>15 DEF AutoShare, FilesFollow, CleanedUp, LeftOver, Producing
<1>16. CASE Cleanup(k)
  BY <1>1, <1>2, <1>16 DEF Cleanup, FilesFollow, CleanedUp, LeftOver, Producing
<1>17. CASE Release(k)
  BY <1>1, <1>2, <1>17 DEF Release, FilesFollow, CleanedUp, LeftOver, Producing
<1>18. CASE ReleaseSignal(k)
  BY <1>1, <1>2, <1>18 DEF ReleaseSignal, FilesFollow, CleanedUp, LeftOver, Producing
<1> QED
  BY <1>4, <1>5, <1>6, <1>7, <1>8, <1>9, <1>10, <1>11, <1>12, <1>13, <1>14, <1>15,
     <1>16, <1>17, <1>18 DEF ExportStep

(* What the other threads do to a job. *)
LEMMA RequestsFollow ==
    ASSUME InductiveInvariant, NEW k \in Job, FilesFollow(k), Requests
    PROVE  FilesFollow(k)'
<1> USE DEF storeVars, diskVars, queueVars, slotVars, dispatchVars, settingsVars
<1>1. /\ status \in [Job -> {"none", "queued", "running", "done", "failed", "deleted"}]
      /\ spc \in [Job -> {"idle", "added", "refused", "signal", "over"}]
      /\ rpc \in [Job -> {"idle", "loaded", "cancelled"}]
      /\ files \in [Job -> SUBSET Kind]
  BY DEF InductiveInvariant, TypeOK
<1>2. ASSUME NEW j \in Job, AddJob(j) PROVE FilesFollow(k)'
  <2>1. CASE j # k
    BY <1>1, <1>2, <2>1, UntouchedFollows DEF AddJob, Untouched, Early, Starting
  <2>2. CASE j = k
    <3>1. /\ status'[k] = "queued" /\ Early(k) /\ epc[k] = "off" /\ k \notin cancelled
          /\ UNCHANGED <<files, output, epc, rpc, cancelled>>
      BY <1>1, <1>2, <2>2
         DEF AddJob, InductiveInvariant, QueueOnce, StatusFollows, Early
    <3> QED
      BY <3>1 DEF FilesFollow, CleanedUp
  <2> QED
    BY <2>1, <2>2
<1>3. ASSUME NEW j \in Job, Enqueue(j) \/ EnqueueSignal(j) PROVE FilesFollow(k)'
  <2>1. Early(k)' => Early(k)
    BY <1>1, <1>3 DEF Enqueue, EnqueueSignal, Early, Starting
  <2> QED
    BY <1>3, <2>1, UntouchedFollows DEF Enqueue, EnqueueSignal, Untouched
<1>4. ASSUME NEW j \in Job, LoadJob(j) PROVE FilesFollow(k)'
  <2>1. CASE j # k
    BY <1>1, <1>4, <2>1, UntouchedFollows DEF LoadJob, Untouched, Early, Starting
  <2>2. CASE j = k
    <3>1. /\ status[k] # "deleted" /\ (Early(k)' <=> Early(k))
          /\ UNCHANGED <<status, files, output, epc, cancelled>>
      BY <1>4, <2>2 DEF LoadJob, InStore, Early, Starting
    <3> QED
      BY <3>1 DEF FilesFollow, CleanedUp
  <2> QED
    BY <2>1, <2>2
<1>5. ASSUME NEW j \in Job, Cancel(j) PROVE FilesFollow(k)'
  <2>1. /\ queued' \subseteq queued /\ (Early(k)' => Early(k))
        /\ UNCHANGED <<status, files, output, epc>>
    BY <1>5 DEF Cancel, Early, Starting
  <2>2. CASE j # k
    BY <1>1, <1>5, <2>1, <2>2, UntouchedFollows DEF Cancel, Untouched
  <2>3. CASE j = k
    <3>1. rpc[k] = "loaded" /\ rpc'[k] = "cancelled"
      BY <1>1, <1>5, <2>3 DEF Cancel
    <3>2. CASE k \in cancelled' /\ k \notin cancelled
      <4>1. k \in cancels /\ ~Starting(k)
        BY <1>5, <2>3, <3>2 DEF Cancel, MutexFree, Starting
      <4>2. epc[k] \notin {"off", "signal"} /\ ~Early(k) /\ status[k] # "queued"
        BY <4>1
           DEF InductiveInvariant, SlotsAgree, QueueOnce, StatusFollows, HoldsSlot, Early
      <4>3. status[k] = "running" => epc[k] \in Producing
        BY <3>1 DEF InductiveInvariant, NoZombie
      <4>4. status[k] = "deleted" /\ CleanedUp(k) => files[k] \subseteq LeftOver(k)
        BY <3>1 DEF FilesFollow
      <4> QED
        BY <2>1, <3>1, <4>2, <4>3, <4>4 DEF FilesFollow, CleanedUp, LeftOver, Producing
    <3>3. CASE k \in cancelled' <=> k \in cancelled
      BY <2>1, <3>1, <3>3 DEF FilesFollow, CleanedUp, LeftOver
    <3> QED
      BY <1>5, <3>2, <3>3 DEF Cancel
  <2> QED
    BY <2>2, <2>3
<1>6. ASSUME NEW S \in SUBSET Job, RemoveJobs(S), \A j \in S : InStore(j),
             k \in S => status[k] \in {"done", "failed"} \/ rpc[k] = "cancelled",
             rpc'[k] = rpc[k] \/ (rpc'[k] # "loaded" /\ k \in S),
             UNCHANGED <<output, epc, cancelled, queued, dpc, djob, spc>>
      PROVE  FilesFollow(k)'
  <2>1. Early(k)' <=> Early(k)
    BY <1>6 DEF Early, Starting
  <2>2. CASE k \in S
    <3>1. InStore(k) /\ files'[k] = files[k] \ JobFileNames(k) /\ status'[k] = "deleted"
      BY <1>6, <2>2 DEF RemoveJobs
    <3>2. rpc'[k] = "loaded" => rpc[k] = "loaded"
      BY <1>6
    <3> QED
      BY <1>6, <2>1, <2>2, <3>1, <3>2, RemovalFollows
  <2>3. CASE k \notin S
    BY <1>6, <2>1, <2>3, UntouchedFollows DEF RemoveJobs, Untouched
  <2> QED
    BY <2>2, <2>3
<1>7. ASSUME NEW j \in Job, DeleteJob(j) PROVE FilesFollow(k)'
  <2>1. /\ rpc[j] = "cancelled" /\ rpc'[j] = "idle" /\ (j # k => rpc'[k] = rpc[k])
        /\ UNCHANGED <<output, epc, cancelled, queued, dpc, djob, spc>>
    BY <1>1, <1>7 DEF DeleteJob
  <2>2. CASE InStore(j)
    <3>1. RemoveJobs({j}) /\ {j} \in SUBSET Job /\ \A i \in {j} : InStore(i)
      BY <1>7, <2>2 DEF DeleteJob
    <3> QED
      BY <1>6, <2>1, <3>1
  <2>3. CASE ~InStore(j)
    <3>1. UNCHANGED <<status, files>> /\ (Early(k)' <=> Early(k))
      BY <1>7, <2>1, <2>3 DEF DeleteJob, Early, Starting
    <3> QED
      BY <2>1, <3>1 DEF FilesFollow, CleanedUp, LeftOver
  <2> QED
    BY <2>2, <2>3
<1>8. ASSUME NEW j \in Job, PurgeShare(j) PROVE FilesFollow(k)'
  <2>1. UNCHANGED <<output, epc, cancelled, queued, dpc, djob, spc, rpc>>
    BY <1>8 DEF PurgeShare
  <2>2. CASE InStore(j)
    <3>1. RemoveJobs({j}) /\ {j} \in SUBSET Job /\ \A i \in {j} : InStore(i)
      BY <1>8, <2>2 DEF PurgeShare
    <3>2. status[j] \in {"done", "failed"}
      BY <1>8, <2>2 DEF PurgeShare, InductiveInvariant, StatusFollows, InStore
    <3> QED
      BY <1>6, <2>1, <3>1, <3>2
  <2>3. CASE ~InStore(j)
    <3>1. UNCHANGED <<status, files>> /\ (Early(k)' <=> Early(k))
      BY <1>8, <2>1, <2>3 DEF PurgeShare, Early, Starting
    <3> QED
      BY <2>1, <3>1, UntouchedFollows DEF Untouched
  <2> QED
    BY <2>2, <2>3
<1>9. ASSUME NEW S \in SUBSET Job, PruneExports(S) PROVE FilesFollow(k)'
  <2>1. /\ RemoveJobs(S) /\ \A j \in S : status[j] \in {"done", "failed"}
        /\ UNCHANGED <<output, epc, cancelled, queued, dpc, djob, spc, rpc>>
    BY <1>9 DEF PruneExports
  <2> QED
    BY <1>6, <2>1 DEF InStore
<1>10. ASSUME \/ SettingsSignal
              \/ \E n \in Limits : UpdateSettings(n) \/ SaveSettings(n)
       PROVE  FilesFollow(k)'
  BY <1>10, UntouchedFollows
     DEF SettingsSignal, UpdateSettings, SaveSettings, Untouched, Early, Starting
<1> QED
  BY <1>2, <1>3, <1>4, <1>5, <1>7, <1>8, <1>9, <1>10 DEF Requests, StartStep, DeleteStep

(* The dispatcher gives a job its goroutine, once. *)
LEMMA DispatcherFollows ==
    ASSUME InductiveInvariant, NEW k \in Job, FilesFollow(k), Dispatcher
    PROVE  FilesFollow(k)'
<1> USE DEF storeVars, diskVars, queueVars, slotVars, dispatchVars, settingsVars
<1>1. CASE DispatchWake \/ DispatchLock \/ DispatchUnlock
  BY <1>1, UntouchedFollows
     DEF DispatchWake, DispatchLock, DispatchUnlock, Untouched, Early, Starting
<1>2. CASE DispatchPop
  <2> DEFINE h == Head(queue)
  <2>1. h \in Job /\ h \in queued
    BY <1>2, TailQueue
       DEF DispatchPop, MoreToStart, InductiveInvariant, TypeOK, QueueAgrees
  <2>2. /\ queued' = queued \ {h} /\ \/ djob' = h
                                     \/ UNCHANGED <<djob, dpc>>
        /\ UNCHANGED <<status, files, output, epc, rpc, cancelled, spc>>
    BY <1>2 DEF DispatchPop
  <2> HIDE DEF h
  <2>3. Early(k)' => Early(k)
    BY <2>1, <2>2 DEF Early, Starting
  <2> QED
    BY <2>2, <2>3, UntouchedFollows DEF Untouched
<1>3. CASE DispatchStart
  <2>1. /\ djob \in Job /\ Starting(djob) /\ dpc' = "scan"
        /\ epc' = [epc EXCEPT ![djob] = "begin"] /\ status' = UpdatedJob(djob, "running")
        /\ UNCHANGED <<files, output, rpc, cancelled, spc, queued>>
    BY <1>3 DEF DispatchStart, Starting, InductiveInvariant, TypeOK
  <2>2. CASE djob # k
    <3>1. Untouched(k)
      BY <2>1, <2>2
         DEF Untouched, Early, Starting, UpdatedJob, InductiveInvariant, TypeOK
    <3> QED
      BY <3>1, UntouchedFollows
  <2>3. CASE djob = k
    <3>1. epc'[k] = "begin" /\ status'[k] \in {"running", "deleted"}
      BY <2>1, <2>3
         DEF UpdatedJob, InStore, InductiveInvariant, TypeOK, QueueOnce
    <3>2. Early(k) /\ status[k] \in {"queued", "deleted"}
      BY <2>1, <2>3 DEF Early, InductiveInvariant, QueueOnce
    <3>3. status'[k] = "deleted" => status[k] = "deleted"
      BY <2>1, <2>3 DEF UpdatedJob, InductiveInvariant, TypeOK
    <3>4. /\ files'[k] = {} /\ output'[k] = "none" /\ k \notin cancelled'
          /\ ~(status[k] = "deleted" /\ rpc[k] = "loaded")
      BY <2>1, <3>2 DEF FilesFollow
    <3> QED
      BY <2>1, <3>1, <3>3, <3>4 DEF FilesFollow, CleanedUp, LeftOver
  <2> QED
    BY <2>2, <2>3
<1> QED
  BY <1>1, <1>2, <1>3 DEF Dispatcher

(* A deleted job whose context was cancelled leaves nothing on disk, but for  *)
(* the volumes of a packaging that failed, however the deletion, retention    *)
(* and the goroutine's own clean-up fall.                                     *)
THEOREM CancelledIsCleanedUp == Spec => []CancelledLeavesNothing
<1> DEFINE AllFollow == \A j \in Job : FilesFollow(j)
<1>1. Init => AllFollow
  BY DEF Init, FilesFollow, Early, Starting, CleanedUp
<1>2. InductiveInvariant /\ AllFollow /\ [Next]_vars => AllFollow'
  <2> SUFFICES ASSUME InductiveInvariant, AllFollow, [Next]_vars, NEW j \in Job
               PROVE  FilesFollow(j)'
    OBVIOUS
  <2>1. CASE Requests
    BY <2>1, RequestsFollow
  <2>2. CASE Dispatcher
    BY <2>2, DispatcherFollows
  <2>3. ASSUME NEW k \in Job, ExportStep(k) PROVE FilesFollow(j)'
    BY <2>3, ExportFollows, UntouchedFollows
  <2>4. CASE UNCHANGED vars
    BY <2>4, UntouchedFollows
       DEF vars, storeVars, diskVars, queueVars, slotVars, dispatchVars, Untouched,
           Early, Starting
  <2> QED
    BY <2>1, <2>2, <2>3, <2>4 DEF Next, Requests
<1>3. AllFollow => CancelledLeavesNothing
  BY DEF FilesFollow, CleanedUp, LeftOver, CancelledLeavesNothing
<1> HIDE DEF AllFollow
<1> QED
  BY <1>1, <1>2, <1>3, Invariance, PTL DEF Spec

-----------------------------------------------------------------------------
(* The instance has its own copy of Cardinality, with the same definition. *)
LEMMA SameCardinality == ASSUME NEW S PROVE Lifecycle!Cardinality(S) = Cardinality(S)
BY DEF Lifecycle!Cardinality, Cardinality

(* Every step of the engine is a step of JobLifecycle or changes neither    *)
(* the status of a job nor the slots that are taken.                        *)
LEMMA StepRefines ==
    ASSUME InductiveInvariant, [Next]_vars
    PROVE  [Lifecycle!LifecycleNext]_<<status, cancels>>
<1> USE DEF storeVars, diskVars, queueVars, slotVars, dispatchVars, settingsVars,
            Elsewhere, At, Goto
<1>1. Lifecycle!Job = Job
  BY DEF Lifecycle!Job, Job
<1>2. ASSUME NEW S \in SUBSET Job, \A j \in S : InStore(j), RemoveJobs(S),
             UNCHANGED cancels
      PROVE  Lifecycle!Delete(S)
  BY <1>1, <1>2 DEF RemoveJobs, Lifecycle!Delete, InStore
<1>3. CASE Requests
  <2>1. ASSUME NEW j \in Job, AddJob(j)
        PROVE  Lifecycle!Submit(j)
    BY <2>1 DEF AddJob, Lifecycle!Submit
  <2>2. ASSUME NEW j \in Job, DeleteJob(j) \/ PurgeShare(j)
        PROVE  Lifecycle!Delete({j}) \/ UNCHANGED <<status, cancels>>
    <3>1. CASE InStore(j)
      BY <1>2, <2>2, <3>1 DEF DeleteJob, PurgeShare
    <3>2. CASE ~InStore(j)
      BY <2>2, <3>2 DEF DeleteJob, PurgeShare
    <3> QED
      BY <3>1, <3>2
  <2>3. ASSUME NEW S \in SUBSET Job, PruneExports(S)
        PROVE  Lifecycle!Delete(S)
    BY <1>2, <2>3 DEF PruneExports, InStore
  <2>4. ASSUME NEW j \in Job,
               \/ Enqueue(j) \/ EnqueueSignal(j) \/ LoadJob(j) \/ Cancel(j)
        PROVE  UNCHANGED <<status, cancels>>
    BY <2>4 DEF Enqueue, EnqueueSignal, LoadJob, Cancel
  <2>5. ASSUME \/ SettingsSignal
               \/ \E n \in Limits : UpdateSettings(n) \/ SaveSettings(n)
        PROVE  UNCHANGED <<status, cancels>>
    BY <2>5 DEF SettingsSignal, UpdateSettings, SaveSettings
  <2> QED
    BY <1>1, <1>3, <2>1, <2>2, <2>3, <2>4, <2>5
       DEF Requests, StartStep, DeleteStep, Lifecycle!LifecycleNext
<1>4. CASE Dispatcher
  <2>1. CASE DispatchPop
    <3> DEFINE h == Head(queue)
    <3>1. h \in Job /\ h \in queued
      BY <2>1, TailQueue
         DEF DispatchPop, MoreToStart, InductiveInvariant, TypeOK, QueueAgrees
    <3>2. Cardinality(cancels) < MaxLimit /\ h \notin cancels
      BY <2>1, <3>1, ConstantsAssumption
         DEF DispatchPop, MoreToStart, InductiveInvariant, TypeOK, SlotsAgree,
             QueueOnce, HoldsSlot, Starting
    <3>3. CASE status[h] = "queued"
      <4>1. cancels' = cancels \cup {h} /\ UNCHANGED status
        BY <2>1, <3>3 DEF DispatchPop
      <4> HIDE DEF h
      <4>2. Lifecycle!Claim(h)
        BY <3>2, <3>3, <4>1, SameCardinality DEF Lifecycle!Claim
      <4> QED
        BY <1>1, <3>1, <4>2 DEF Lifecycle!LifecycleNext
    <3>4. CASE status[h] # "queued"
      BY <2>1, <3>4 DEF DispatchPop
    <3> QED
      BY <3>3, <3>4
  <2>2. CASE DispatchStart
    <3>1. djob \in Job /\ status[djob] \in {"queued", "deleted"} /\ djob \in cancels
      BY <2>2
         DEF DispatchStart, InductiveInvariant, TypeOK, SlotsAgree, QueueOnce,
             HoldsSlot, Starting
    <3>2. Lifecycle!Run(djob) \/ UNCHANGED <<status, cancels>>
      BY <2>2, <3>1
         DEF DispatchStart, UpdatedJob, InStore, Lifecycle!Run, Lifecycle!Advance
    <3> QED
      BY <1>1, <3>1, <3>2 DEF Lifecycle!LifecycleNext
  <2>3. CASE DispatchWake \/ DispatchLock \/ DispatchUnlock
    BY <2>3 DEF DispatchWake, DispatchLock, DispatchUnlock
  <2> QED
    BY <1>4, <2>1, <2>2, <2>3 DEF Dispatcher
<1>5. ASSUME NEW j \in Job, ExportStep(j)
      PROVE  [Lifecycle!LifecycleNext]_<<status, cancels>>
  <2>1. CASE ExportFails(j) \/ Publish(j)
    <3>1. status[j] \in {"running", "deleted"} /\ j \in cancels
      BY <2>1
         DEF ExportFails, Publish, InductiveInvariant, StatusFollows, SlotsAgree,
             HoldsSlot, Producing
    <3>2. Lifecycle!Finish(j) \/ UNCHANGED <<status, cancels>>
      BY <2>1, <3>1
         DEF ExportFails, Fail, Publish, UpdatedJob, InStore, Lifecycle!Finish,
             Lifecycle!Advance
    <3> QED
      BY <1>1, <3>2 DEF Lifecycle!LifecycleNext
  <2>2. CASE Release(j)
    <3>1. Lifecycle!Free(j)
      BY <2>2
         DEF Release, InductiveInvariant, StatusFollows, SlotsAgree, HoldsSlot,
             Lifecycle!Free
    <3> QED
      BY <1>1, <3>1 DEF Lifecycle!LifecycleNext
  <2>3. CASE ~ExportFails(j) /\ ~Publish(j) /\ ~Release(j)
    BY <1>5, <2>3
       DEF ExportStep, PlanExport, OpenSink, FetchCancelled, FetchDone,
           PackagePlain, PackageOpen, PackageNextVolume, PackageClose, Packaged,
           FinalExport, AutoShare, Cleanup, ReleaseSignal
  <2> QED
    BY <2>1, <2>2, <2>3
<1>6. CASE UNCHANGED vars
  BY <1>6 DEF vars
<1> QED
  BY <1>3, <1>4, <1>5, <1>6 DEF Next, Requests

(* The engine implements the abstract life cycle of a job: one slot per job *)
(* that runs, at most MaxLimit of them, an outcome decided once, and no     *)
(* record that comes back after its deletion.                               *)
THEOREM Refinement == Spec => ImplementsLifecycle
<1>1. Init => Lifecycle!LifecycleInit
  BY DEF Init, Lifecycle!LifecycleInit, Lifecycle!Job, Job
<1>2. InductiveInvariant /\ [Next]_vars =>
          [Lifecycle!LifecycleNext]_<<status, cancels>>
  BY StepRefines
<1> QED
  BY <1>1, <1>2, Invariance, PTL
     DEF Spec, ImplementsLifecycle, Lifecycle!LifecycleSpec,
         Lifecycle!lifecycleVars
=============================================================================
