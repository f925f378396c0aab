# LogDownloader in TLA+

LogDownloader exports logs from VictoriaLogs. A Go server (`src/backend`) keeps
users, datasources, saved queries, schedules, export jobs and share links in JSON
files, runs the exports in the background and serves the archives; a React
application (`src/frontend`) is its user interface. This directory holds the TLA+
models of the server and of the pages that drive it, what TLC checks about them and
what TLAPS proves.

Everything is run from this directory: `tlc -config <cfg> <module>` for the runs
of `PROJECT.json`, `tlapm <module>` for the modules whose names end in `Proofs`.

## 1. Inventory

Paths are relative to `src/backend/internal/` unless they start with `src/`.

| Component | State | Operations | Hard behaviour |
|---|---|---|---|
| Export worker `worker/worker.go` | `queue`, `queued`, `cancels`, `running` under `w.mu`; one-token channel `wake` | `StartExport`, `Cancel`, `Start`, `Signal`, `dispatch` | two locks (`w.mu`, `store.mu`) and jobs that vanish between critical sections; lost wake-ups; slots leaked or freed twice |
| Export goroutine `worker/export.go` | context, phase, deferred calls | `runExport`, `fail`, `fetchWindow`, `createAutoShare` | deletion in any phase; retry with rollback; the auto-share is a check and a later act |
| Raw sink `worker/sink.go` | file, buffer, part tracker, line count | `writeLine`, `mark`, `rollback`, `close`, `parts` | a retried window must leave no trace in four places at once |
| Packaging `worker/package.go` | open volume, list of files | `packagePlain`, `packageGz`, `packageTarGz` | renames, failures between volumes |
| Windows `worker/windows.go` | none | `planWindows`, `windowStep` | inclusive ends, a last window cut short, doubling of the step, the limit of 2000 |
| Job store `store/jobs.go`, `store/store.go` | maps `jobs`, `shares`, ... under `store.mu`; one JSON file per map; `exports/` | `AddJob`, `UpdateJob`, `DeleteJob`, `PruneExports`, `RecoverJobs`, `saveFile` | crash between files, records and links; torn files; quota |
| Share links `store/shares.go`, `handler/shares.go` | `shares` | create, revoke, `ConsumeShare`, `PurgeShare`, `CleanupExpiredShares` | counting downloads against purge; links to jobs that are gone |
| Job requests `handler/jobs.go` | none | start, list, download, delete | load, cancel, delete are three critical sections |
| Start-up `src/backend/cmd/main.go` | none | order of recovery, worker, scheduler, timers | recovery must precede the worker |
| Settings and datasources `store/store.go`, `handler/admin.go`, `handler/datasources.go` | `settings` | get, save, update | read-modify-write of the whole settings |
| Users and authentication `auth/auth.go`, `handler/handler.go` | `users` | login, create, update, delete | read-modify-write of a user, resurrection after deletion |
| Login limiter `auth/ratelimit.go` | timestamps per key | `Allow` | sliding window at its limit |
| Scheduler `scheduler/scheduler.go`, `store/schedules.go`, `handler/schedules.go` | `schedules` | tick, `RunNow`, create, update, delete | the tick works on a copy; updates store a stale copy |
| Cron `scheduler/cron.go` | none | `Parse`, `Next` | no match: zero time; jumps over matches; hours that the clock leaves out |
| History `store/history.go` | per-user list | add | bound of 50, no duplicates |
| Audit log `store/audit.go` | file and its rotations | append, rotate, read | rotation at 20 MB, three files |
| Saved queries `handler/queries.go` | `queries` | create, update, delete | none: one record, one lock |
| Notifications, metrics, LDAP, VictoriaLogs client, log proxy, configuration | none of their own | outgoing requests | none, or out of the process |
| Log viewer `src/frontend/src/pages/LogViewerPage.tsx`, `components/` | form, rows, histogram, tail, fields panel, address bar | search, page, sort, zoom, tail, filter, export | several promises in flight; answers to older questions; a page that is left while it waits |
| Jobs page `src/frontend/src/pages/JobsPage.tsx` | list, share modal | poll, delete, download, share | the modal is closed and opened for another job while an answer is under way |
| Administration pages `SchedulesPage.tsx`, `SettingsPage.tsx`, `UsersPage.tsx` (and the saved queries of the log viewer) | list, form, the id a save goes to | open, edit, save, delete, switch | form and id are separate pieces of state, changed by clicks, answers and timers |
| API client and routes `api.ts`, `App.tsx`, `components/Layout.tsx` | token | requests, navigation | what counts as an error |

Interactions. Handlers and the scheduler call `Worker.StartExport` and the store.
`StartExport` stores a job (`store.mu`), then enqueues it (`w.mu`), then signals
the dispatcher. The dispatcher holds `w.mu` over a whole batch and takes `store.mu`
inside it. The goroutine of an export takes the two locks one at a time. Deleting a
job goes through `Worker.Cancel` and then `Store.DeleteJob`; retention, expired
links and used-up links remove jobs from the store without the worker knowing. Every
store operation changes its map, removes files and writes its JSON files with
`store.mu` held, but no two files change at once as far as a crash is concerned.

What makes each part correct: the worker's two views of the queue agree, slots are
counted exactly, wake-ups are not lost, no record is stuck; files exist exactly as
long as the records that name them; each line of each window is in the archive
once; what a client was told survives a restart; a link leads to a done job; a
schedule runs once per due time; an accepted change is not lost to another one.

## 2. Plan

Done, in this order:

1. `JobLifecycle`: abstract specification of jobs and slots.
2. `ExportWorker` (with `MCExportWorker`): worker, dispatcher, goroutines, requests.
3. `ExportWorkerProofs`: lemmas on the queue, the inductive invariant of `ExportWorker`,
   its safety properties, and the refinement of `JobLifecycle`.
4. `JobStore` (with `MCJobStore`): disk, crash, recovery.
5. `ExportContent` (with `MCExportContent`): bytes, windows, retries, parts, volumes.
6. `ExportContentProofs`: what file and buffer hold.
7. `LogViewer` (with `MCLogViewer`): the log viewer page against late answers.
8. `Shares`, `JobsPage` (with `MCJobsPage`): share links under concurrent requests,
   downloads, expiry and retention, composed with the page that sends the requests.
9. `Schedules`, `Requests`, `Console` (with `MCConsole`): schedules under the
   scheduler's ticks; the requests that read, change and save schedules, datasources,
   users and queries; the pages that send them.
10. `LogViewerProofs`, `ConsoleProofs`: `OneLiveTail` and `FormGoesHome`.
11. `JobsPageProofs`: `LinkBounds` and `LiveLinkKeepsJob`.
12. `Windows` (with `MCWindows`), `WindowsProofs`: how a range is cut.
13. `Cron` (with `MCCron`): the search for the next time of a schedule.
14. `JobStoreProofs`: the safety of the store across crashes, with whole and torn writes.
15. More of what exists: `CancelledLeavesNothing` of `ExportWorker`; the parts and
   the archive of `ExportContent`; `ModalShowsItsJob` of `JobsPage`; types and `SchedulePlanned` of
   `Console`; types and the other safety properties of `LogViewer`; `WindowsBounded`.
16. `CronProofs`: that the search finds the first match, where it does not, and where it
   cannot loop.

Next:

17. `parseField` of cron against the sets it stands for; retention by quota; the
   rotation of the audit log.

## 3. The modules

### ExportWorker

One action per critical section or unlocked step of the code. `status`, `shares` and
`limit` are the parts of the store that the engine looks at; `queue`, `queued`,
`cancels`, `running` and `wake` are the fields of `Worker`; `dpc`, `dmax`, `djob` are
the locals of `dispatch`; `epc[j]` is where the goroutine of job `j` is, `spc`, `rpc`
and `apc` where `StartExport`, `deleteJob` and `updateSettings` are; `cancelled` holds
the jobs whose context is cancelled; `files[j]` the raw file (`tmp`), the archive
(`out`) and the further volumes (`vol`) of job `j`.

- `StartExport`: `AddJob`, `Enqueue`, `EnqueueSignal`. `AddJob` also covers a
  `jobs.json` that cannot be written: the record stays in memory and is not enqueued.
- `deleteJob`: `LoadJob`, `Cancel`, `DeleteJob`. `Cancel` waits for the dispatcher's
  batch (`MutexFree`), `DeleteJob` does not.
- `updateSettings`: `UpdateSettings`, `SettingsSignal`; when `settings.json` cannot be
  written the limit has changed in memory, and no signal follows. The handlers of
  datasources store whole settings that they read before (`SaveSettings`): any limit that
  can have been in force may come back, and nobody is woken for it. `silent` (history)
  says that the limit was last written in one of these ways and that the dispatcher has
  not read it since.
- `PruneExports(S)`: any set of finished jobs, which covers both the age and the quota;
  `PurgeShare`: a used-up or expired link.
- `dispatch`: `DispatchWake`, `DispatchLock`, `DispatchPop`, `DispatchStart`,
  `DispatchUnlock`; the store may change between pop and start.
- `runExport`: `PlanExport`, `OpenSink`, `FetchCancelled`, `FetchDone`,
  `PackagePlain`, `PackageOpen`, `PackageNextVolume`, `PackageClose`, `Publish`,
  `FinalExport`, `AutoShare`, `ExportFails`, `Cleanup`, `Release`, `ReleaseSignal`.
  The context is looked at only where the code looks at it.

Abstracted: texts, sizes, progress; what is in the files (see `ExportContent`); that
file names of different jobs could coincide (a name ends in the millisecond of its
creation). The volumes after the first one count as one file.

### JobLifecycle

The promise: a job goes from queued to running to done or failed, once; at most
`MaxLimit` jobs hold a slot; a slot is claimed only for a queued job; a record may be
deleted at any time and does not come back. `ExportWorker` implements it with
`live <- cancels`.

### JobStore

The same operations seen from the disk. `jobs`, `links` are in memory; `jobsFile`,
`linksFile` are what the next `store.New` will read; `todo` holds the disk steps left
for the operation that holds `store.mu`, and `Crash` may come between any two of
them, during recovery too. `RecoverJobs` and `StartWorker` are the start-up in the
order of `main.go`. The lock of the worker, slots and order are left out (any queued
job may start), so the module is an abstraction of a different side of the code than
`ExportWorker`. `TornWrites` says whether `os.WriteFile` may stop half-way.

### ExportContent

One export: bytes that carry the window, attempt and line they come from, a file with
a position, the `bufio.Writer`, the tracker, `mark` and `rollback`, the retry loop,
`parts` and the volumes. `kept` and `answer` are history: the bytes and the number of
lines that the windows done, and the attempt in progress, have sent. `volumes` are the
closed volumes of the archive and `volume` the open one, as lists of the parts they
hold, `packed` is the loop's index. A repeated
request may be answered with other lines. Left out: what `transform` does to a line
beyond the size of its result, compression, CSV headers. Formats other than tar.gz
are `PackWhole`. Failures of the disk are one action, `Fail`; what they leave in the
raw file is removed with it.

### LogViewer

The page asks the server with promises and goes on, so every click, key, answer and
row of the tail is an action, and `fetchLogs` is four: `Fetch` (up to its first await),
`LogsArrive`, `HitsArrive`, `FetchFails`. `fetches`, `streams` and `fieldAsks` are the
calls of `fetchLogs`, of `api.tail` and of `FieldsPanel`'s effect that have not ended;
the other variables are the states of the components. An operation is its number, and
`asked` (history) is what it was asked with. A handler reads what its closure holds:
the histogram that a later page keeps is the one on show when it was asked for
(`kept`). Effects run in the step that changes what triggers them (`NewForm`,
`PanelEffect`, `Mount`), among them the search that runs by itself when the address
has a query. Leaving the page loses its state and runs its clean-ups; `fetchLogs` and
`handleExport` go on, and what they still can do is change the address (`LateAnswer`,
`LateExport`): React ignores the updates of a page that is gone, the router does not.

Left out: columns, expanded rows, suggestions, the values of a field, copying; the
options of an export, which are data.

### Shares, JobsPage

`Shares` has one action per operation of the store and splits handlers where they call
it twice: `createShare` and `revokeShare` load and later save (`LoadForCreate`,
`SaveShare`, `LoadForRevoke`, `DeleteShare`), a public download counts (`Consume`),
opens the file (`OpenFile`), and when the copy is over purges its link if it was the
last one (`Sent`). Opening the file may fail, with the job gone or not, and then nothing
is purged: `unopened` (history) holds the links whose last download ended in this way.
`granted` (history) counts the files that were served for a link. A `shares.json` that
cannot be written leaves the new link in memory and out of the answer.
The clock (`ExpiryPasses`), the timer (`CleanupExpiredShares`) and the retention
(`PruneExports`) come at any time. `JobsPage` extends it with the page: `Send` puts a
request in `calls`, an answer is an action, and the modal can be closed and opened
again while one is under way. `raced` (history) says that this has happened since the
modal was last opened on a page without pending answers; then the modal may show the
link of another job, which is why `ModalShowsItsJob` excludes it.

### Schedules, Requests, Console

`Schedules`: the plans in the store and `tick`, which takes copies of what is due and
runs them one after the other (`Run`), each time writing the next time into the store.
`NextRun` is what `Cron.Next` answers: `NextMatch` gives for each expression and each time
a later time, or the zero time when no match is left in the five years that are searched
- which can come with the years, as for a 29th of February that has to be a Tuesday.
`ComputeNext` refuses the zero time (`Acceptable`); `run` and `refreshNextRuns` store it, it
lies before any clock, and so the schedule is due at every tick from then on. `ranFor`
(history) is the last planned time that a tick ran the schedule for. `last_error`,
`last_job_id` and the manual run, which writes only these two, are left out. `Requests` adds the handlers; `updateSchedule`,
`updateUser`, `updateQuery` and the three handlers of datasources load in one step and
save in another, and others come between. The answer to a save of a record is an error when
its file cannot be written, though memory has it (`Saved`). `torn` (history) marks a
schedule that was written while another one held a copy of it to write back: in the code, such a write
takes back a time that has just been run, and the planned time runs twice; the
promises of `SchedulePlanned` are for schedules without such an overlap. `Console` adds
the pages. A form is what it was filled from (`from`) and where a save goes (`target`);
`calls[c].by` says which handler waits for the answer. A page that is left ignores
what comes later. The list that follows an answer is what the server has when it
arrives; the ten-second poll of the schedules is one step.

### Windows

`planWindows` as a state machine: `Single` and `Plan` are its early returns and the first
step, `Coarsen` one round of the loop that doubles the step, `Cut` one round of the loop
that makes a window, `Finish` the end. `known` says that both bounds were parsed, or that
the oldest log was found for an open start; `end` of an open range is the clock's time.
`Duration` is Go's `Sub`, which saturates. `ExportContent` takes the windows as given.

### Cron

`Next` as a state machine, one action per branch of its loop. The calendar and `Date` are
Go's `time` package: `Date` reads a local time with the offset that is in force at the
same number of UTC, and, if that is not the offset where it leads, with the one that is
in force there. For a local time that the clock leaves out this is the offset before the
change east of Greenwich and the one after it to the west. The calendar is a table of the
days before each month (`DaysBefore`), as in the `time` package. `Schedules` uses only what
`Next` may answer, when.

## 4. What the runs check

| Run | Expected | Shows |
|---|---|---|
| `export_engine` | pass | the safety of `ExportWorker`, no wake-up lost but for limits that are written without one, and the refinement of `JobLifecycle` |
| `export_liveness` | pass | an enqueued job is served, a running export ends |
| `deleted_run` | violation | a deleted job may run on with a live context |
| `job_store` | pass | disk and memory, crash and recovery |
| `torn_jobs_file` | violation | a torn `jobs.json` loses all jobs and their files |
| `export_content` | pass | content of file, parts and archive under retries |
| `log_viewer` | pass | one live tail, rows and histogram of one origin, current fields, no endless "loading" |
| `jobs_and_shares` | pass | one link per job, within its limit, purged when used up (unless its file could not be opened) and never by an older one; the modal shows its job's link |
| `administration` | pass | planned times run once and are not forgotten, the zero time comes only after a run; a form's values go to the record they came from |
| `windows` | pass | windows cover a range exactly once, are no more than the maximum allows |
| `cron_next` | pass | `Next` returns the first match, or the zero time when there is none |
| `cron_west` | violation | where the clock is put forward west of Greenwich, `Next` may not return |

Bounds.

- `export_engine`: two jobs, limits 1 and 2, one of the jobs deletable. Two jobs are
  the fewest for which order in the queue, competition for one slot and the wake-up of
  one job by the end of another appear; the second job exercises everything that
  happens beside a deletion. The theorems cover any number of jobs.
- `export_liveness`: one slot for two jobs, the case in which waiting matters.
- `job_store`: two jobs, symmetric; two crashes, so that recovery can be interrupted
  and followed by another recovery.
- `export_content`: buffer of 2 bytes, parts of 3, lines of 0 to 3 bytes: lines that
  are dropped, that fit the buffer, that overflow it, that bypass it, and that fill a
  part alone; up to two lines per answer (`MaxLines`), two windows so that a rollback
  has earlier content to respect, and the code's three retries (`MaxRetries`).

- `log_viewer`: three operations (`MaxOps`), the fewest for a search whose two answers
  another search and a tail come between; one export or change of the form
  (`MaxEdits`), leaving, returning and choosing a datasource as often as one likes; a
  datasource that is listed and one that is not; tails of two rows (`MaxRows`), so that
  the oldest is dropped. `overlapped` (history) limits `ShownTogether` to searches that
  do not overlap: with overlapping ones the page may show one's rows beside the other's
  histogram.
- `jobs_and_shares`: two jobs, so that links can be confused, one of them still running
  at first; two links in all (`MaxLinks`), an old and a new one; two requests in flight
  (`MaxCalls`) after three clicks (`MaxClicks`); limits 0 (none) and 1, so that the
  first download (`MaxGets`) is also the last.
- `administration`: two records of each kind and one to be created (`MaxItems`), two
  requests in flight after three clicks, times 1 and 2 (`MaxTime`): a schedule becomes
  due, is run, and has a next time beyond the clock. Two expressions (`Cron`): one that
  matches at every time, and one that matches at time 2 and not again, so that its schedule
  is accepted, is run, and runs out; asked for at time 2 it is an expression that never
  matches.
- `windows`: an hour of two instants, so that a window has more than one; ranges around
  the lengths where the step changes (2, 48 and 336 hours), where 12 windows
  (`MaxWindows`) are not enough, and beyond what a duration measures (`MaxDuration`).
- `cron_next`, `cron_west`: every combination of non-empty fields over months of two and
  three days, weeks of two days, days of four hours of two minutes; two seconds to a
  minute, so that an instant lies inside one; every second of two days as the instant,
  which are before, around and after the change of the clock. Years have five days, so
  that weekdays move against dates, and two of them are searched (`Years`; the code has
  five).

Deadlock is checked in the runs of `ExportWorker` (the dispatcher never stops); the
other modules end by themselves (a bounded number of crashes, clicks or operations; an
export ends), so their runs switch it off.

Fairness. `ExportWorker` assumes that the Go scheduler runs the dispatcher and the
goroutines (WF), that a `sync.Mutex` admits a waiter in the end (SF on the steps that
take `w.mu`, as Go's mutex hands over to a starving waiter), and that VictoriaLogs
answers or fails in the end: the client sets no time limit on a long request, so
`RunningEnds` depends on it. Requests, retention and links are under no fairness.
`ExportContent` is one goroutine under WF, with finite answers; `Cron` is a function that
does not wait, under WF of its steps. `LogViewer` assumes that
the server answers a search or the browser gives it up (WF on `Answer`), `JobsPage` that a
handler that has begun runs on and an answer arrives, `Console` that the scheduler's
ticker goes on and a run that has begun ends. What users, clocks and timers do is under
no fairness.

## 5. What is proved

`ExportWorkerProofs` proves, for every number of jobs, every `MaxLimit`, every set of
limits and of deletable jobs (assumption `ConstantsAssumption`, nothing else), that
`InductiveInvariant` is an invariant of `Spec` (`Invariance`), hence `TypeOK`,
`QueueAgrees`, `SlotsAgree`, `NoQueuedJobLost`, `NoZombie`, `DoneIsDownloadable` and
`NoLostWakeup`, and that `Spec` implements `JobLifecycle` (`Refinement`).

None of the properties is inductive alone. The invariant adds

- `QueueOnce`: a job that waits in the queue, or that is not yet enqueued, has no
  goroutine and is nowhere else. Without it a second `DispatchPop` of a job could
  count a slot twice and break `SlotsAgree`.
- `StatusFollows`: what the status can be in each phase, and that a cancelled job is
  deleted or about to be. `NoZombie` and the refinement rest on it (`Finish` needs
  "running").
- `PublishedExists`: while a job is not deleted, what is packed is on disk. It is what
  `DoneIsDownloadable` needs at the moment of `Publish`.
- `LimitSeen`: a limit changed behind the dispatcher's back comes with a wake-up. It
  is what `NoLostWakeup` needs when the dispatcher goes to sleep on an old limit.

Both have one exception, `silent`: a limit that was written without a wake-up, by a save
that failed or by a handler of datasources. What they say is that the wake-ups of every
other change are kept, and that the dispatcher's next pass, for whatever reason it comes,
ends the exception.

The proof has one lemma per group of actions (`RequestsPreserve`,
`DispatcherPreserves`, `ExportPreserves`), in each one step per action. `AppendQueue`,
`TailQueue` and `RemoveAtQueue` state what appending to the queue, taking its head and
removing an element do to its set of elements and its injectivity. `StepRefines` maps each step to a step
of `JobLifecycle` or to a stutter.

`CancelledLeavesNothing` needs a second invariant on top of it, `FilesFollow`: which of
the three files a job may have for each place of its goroutine, its record and its
deletion, cancelled or not.

`ExportContentProofs` proves, for every number of windows, retries and lines, every
size of buffer, part and line (`ContentAssumption`), that `Spec` of `ExportContent`
keeps `TypeOK`, `ContentExact`, `LinesCounted`, `PartsTile`, `PartsAreFull` and
`ArchiveComplete`. The invariant `IInv` adds to them
where the descriptor stands (`Written`) and what the mark means during an answer
(`Marked`): it lies at the end of what the windows done have sent, and that much is in
the file, not in the buffer. This is what `Retry` needs, and what the flush in `mark`
establishes: without it the file is cut at an offset it has not reached. The lemmas on
sequences say that writing at the end appends, that a split sequence joins again
(what spills and what stays in the buffer), and that cutting a file at the end of an
earlier content gives that content.

The parts have an invariant of their own, `PartsInv`: the bounds of the tracker tile the
bytes it has seen (`Tiled`, of any bytes and any tracker), those of the mark tile what
the windows done have sent and are the first of the tracker's bounds (`BoundsGrow`), and
bytes of different lines differ (`Tagged`). `LineKeepsTiles` is the core: one more line
keeps a tiling, whether it is added to the last part or begins the next one. `PartsRetry`
shows why it is enough that `restore` knows the number of the bounds. `Parts` spells out
the two cases that occur, all spans full or the only one empty, beside the general one:
`SelectSeq` is recursive, and the proof then never has to look into it.

The archive needs `ArchiveInv`: while it is packed, the parts in the closed volumes and
the open one lie end to end, and the open volume is empty only while there are parts to
come (`Packing`) - which is what the condition `i+1 < len(parts)` of the code is for.
`ArchiveComplete` says that the archive is the output by its parts: they begin at 0,
follow each other, and end where the file does. On the run's instance this is the same
as joining the bytes of all parts.

`JobStoreProofs` proves, for any jobs and any number of crashes, `TypeOK` and
`DoneHasFile`, and as long as a write of a JSON file is whole (`~TornWrites`),
`DiskIsCurrent`, `AcceptedIsKept`, `QueueIsRestored`, `RecoveryIsClean` and the action
property `PersistedMovesForward`. Without the assumption these five are false; of
`AcceptedIsKept` it is what `torn_jobs_file` shows. Two theorems say what is left of them
when any write may be torn: an accepted job that is still in the store is in the queue, so
that only a job whose `AddJob` reported the error may be queued in the map alone
(`AcceptedStaysQueued`), and recovery, cut short itself or not, leaves no orphan and no
link to nothing (`RecoveryLeavesNoOrphan`). An operation is a list of disk steps that a
crash may cut anywhere, so the invariant speaks of the steps that are still pending: a map
is ahead of its file only while its save is pending, and then each job by one allowed move
- or the file was torn, and then it says nothing of any job (`Saving`, `Behind`); what is
about to be removed belongs to a job nobody wants, or in recovery to
none that is finished (`Removing`); what is kept of an accepted job, in memory and on
disk, is enough for the next recovery (`Kept`); and recovery knows each file that it
keeps or is about to remove each that it does not know (`Recovering`). `Kept` is the part
that a crash needs: after it only the file remains, and the file of a job may be older
than the map by one move.

`LogViewerProofs` proves `OneLiveTail` for any filters, datasources and ranges and any
number of operations (`ViewerAssumption`). The property compares operations by their
number, so the invariant `IInv` says that what is in flight has a number that has been
given (`FetchesAsked`, `StreamsAsked`) and that no two tail requests share one
(`StreamsDistinct`); for this it needs that the history of operations is a sequence of
forms, hence that what the page holds is one (`FormsTyped`). `StoppedNoneLive` is the
core: aborting the request that `tailAbort` holds aborts the only live one. On top of it:

- `TypeOK`. That the fields are refreshed no more often than there are operations is a
  count: each refresh is the end of a search that was asked, so refreshes and searches in
  flight together stay within the operations (`RefreshCounted`).
- `FieldsAreCurrent`, from `PanelInv`: a request of the panel that is not cancelled asks
  for what the panel is to show. This is what the clean-up of the effect is for.
- `RowsOfOneOrigin`, from `RowsInv`: while the page tails, whatever else is in flight or
  on show is a search that was asked before the tail.
- `ShownTogether`, from `ShownInv`: until searches overlap there is one in flight, or a
  tail, or none, and a page that has been left shows nothing. `Alone` also says that the
  rows have arrived before the histogram is set.

`JobsPageProofs` proves `TypeOK`, `LinkBounds` and `LiveLinkKeepsJob` for any jobs and
limits and any number of links, requests, downloads and clicks (`SharesAssumption`,
`JobsPageAssumption`). `LinkBounds` speaks of downloads that were served (`granted`), the
store counts those it has let in, and between the two lie the downloads whose file is
still to be opened. `Counted` adds them: served and still to be opened together are no
more than the count, and the count no more than the limit. It is kept when a link is
replaced because nothing was served for a token that has not been given (`Untouched`,
`TokensGiven`). For the first half, links differ in job and token (`LinksUnique`), which
the removal inside `SaveShare` keeps. `LiveLinkKeepsJob` needs that a link whose last
download is under way is used up for as long as it is there (`LastIsUsedUp`): a newer
link of the job has another token, and the late purge does not find it. The invariant
falls into the parts that the store, the requests and the page change (`StoreInv`,
`CallsInv`, `PageInv`), and there is a lemma for each kind of step. `ModalShowsItsJob`
adds `ModalOfOneJob`: unless a modal was closed over a request, all requests of the modal
are about the open job, and nothing is left of a modal that is closed.

`WindowsProofs` proves `TypeOK` and `WindowsTile` for any instants, any length of an hour,
any maximum and any largest duration (`WindowsAssumption`). While the second loop runs, its
windows lie in order before `cur` (`Before`, `Ordered`) and cover what is before it; once
`cur` has passed the end they cover all (`Covered`), because the last window is cut at
the end of the range. `WindowsBounded` follows from `Advanced`: after `n` windows `cur`
stands `n` steps after the start, and a step fits into the range no more often than
`MaxWindows` times. The three facts on products and quotients that it needs
(`QuotientBelow`, `FewerMultiples`, `NextMultiple`) are lemmas of their own.

`CronProofs` proves `NextIsFirst` for any calendar (a table of the days before each month),
any lengths of minutes, hours, days and weeks, any expression and instant
(`CronAssumption`), in a zone that satisfies two conditions on its change of the clock:

- `FullHour`: it happens when local time shows a full hour and moves it by an hour at most,
  as the changes in nearly all zones do. The search jumps to ends of hours, days and months,
  and rests on no change lying inside one of these hours.
- `~LosesHour`: it is not the change back by an hour in a zone at or east of Greenwich.
  There `NextIsFirst` is false, as TLC shows when `MCCron` is given such offsets
  (`Standard = 2`, `Saving = 0`): `Date` reads the hour that comes twice as its second
  coming, and a jump to it passes over the first.

`NextLosesOneHour` says what holds without the second condition: the result is a match,
strictly later than the instant, and an earlier match that was passed over lies in the first
coming of an hour that comes twice (`Lost`). The invariant `SearchInv` says it of the
minutes between the first one to be looked at (`Start`) and `t`, on whichever side of `Start`
`t` is: west of Greenwich in spring a jump may lead back, and then what lies between is no
match either. `JumpStays` is the core, an argument about integers: between a minute and the
place where `Date` leads from the end of its hour, day or month, every minute has a local
time in that same hour, day or month. What remains is the calendar: a local time determines
day and hour (`InDay`, `InHour`), a day of the year has one month (`MonthOfDay`, which needs
a least element, and `OneMonth`), and a day between the first of a month and the first of the
next is of that month in whichever year (`InMonth`). `SearchGoesOn` is the other side of
`cron_west`: except where the clock is put forward west of Greenwich every step of the search
leads to a later minute, so that it reaches its limit. TLC was asked about 144 combinations
of offsets and of the hour of the change, all of them under `FullHour`: `NextIsFirst` failed
in those with `LosesHour` and in no other.

`ConsoleProofs` proves `FormGoesHome` for any number of records, requests and clicks.
It is inductive as it stands: each action that opens a form sets both sides, each one
that closes it leaves no values; that `target` survives a click beside the modal does
no harm for this reason alone.

`TypeOK` and `SchedulePlanned` need an invariant of store and requests. A request and a
tick write back copies that they took before, so that the copies have to be as good as
what is stored (`CopiesAhead`), what a tick is to run has to have been due, after what was
run before, and to be what
is stored (`DueAsStored`), both as long as no two writers of the schedule overlap. A plan is
good (`Ahead`) when its time is after the one the schedule last ran for, or when it is the
zero time and the schedule has run out (`RanOut`): it has run, at a time after which its
expression had no match. This is proved for any expressions and any `NextMatch` that gives
later times or the zero time (`SchedulesAssumption`). And an id that a new schedule gets must be in nobody's hands (`Numbered`): otherwise a late save
would bring back the old plan under the new one's name.

`InductiveInvariant` and the invariants of each module were checked by TLC, on the
instances of the runs; the runs keep the properties that follow from them.

Assumptions on constants. Apart from types, they say that a bound is not so small that
the initial state or the first step is impossible: two schedules exist at first
(`MaxItems > 1`) and there is an expression for them (`Cron # {}`), the search of the first address is an operation (`MaxOps > 0`), a tail
shows a row (`MaxRows > 0`), a clock moves (`MaxTime > 0`).

Only model-checked:

- liveness (`QueuedIsServed`, `RunningEnds`, `ExportEnds`, `LoadingEnds`,
  `UsedUpIsPurged`, `DueRuns`), which no prover here handles;
- that the search of `Cron` ends in the zones where `SearchGoesOn` says that it goes on: from
  there to the end is a step of liveness;
- that the code disagrees with its documents, in the three runs that expect a violation.

## 6. Where the code and its documents disagree

- A deletion between `AddJob` and `enqueue` finds nothing to cancel, and the export of
  the deleted job runs to its end (`deleted_run`); its file is an orphan until the next
  start.
- `saveFile` writes in place and `loadJSON` ignores errors: a crash in the middle of a
  write loses all jobs, and recovery then removes all exports (`torn_jobs_file`). What
  holds in spite of it is proved (`TypeCorrect`, `DoneKeepsFile`, `AcceptedStaysQueued`,
  `RecoveryLeavesNoOrphan`); the other properties need writes that are whole.
- In spring, in a zone west of Greenwich, `Next` may run for ever (`cron_west`): from the
  last hour before the gap, `time.Date` of the next hour gives the same hour again. With
  it hangs the scheduler, or the request that saves the schedule.

Found on the way, without a run of its own: the auto-share looks at the job and stores the
link later, and a deletion in between leaves a link to nothing; when packaging fails after
its first volume, the volumes stay and no record names them; a crash between the stored
outcome and the deferred removal leaves a raw file that recovery keeps; two handlers of
datasources that overlap lose one of the changes, or bring a deleted datasource back; an
update of a schedule that overlaps a tick takes its new time back; a limit that
`updateSettings` could not save, or that a handler of datasources writes back, is in force
and nobody is woken for it (`admin.go:254`, `datasources.go:76`, `126`, `154`), although a
change of the limit is to wake the dispatcher (`worker.go:115`), and the timer has to; when
the file of a last download cannot be opened (`shares.go:182`) the used-up link stays with
its job and its files until the link is asked for again, expires, or the job is removed,
although a link at its limit is to go with them (`.memory/data-model.md:45`); an accepted
expression such as `0 0 29 2 2`, entered in 2026, gets the zero time after its run of 2028
(`scheduler.go:133`), and from then on every tick starts an export, although the next time
is to be computed (`.memory/api-reference.md:144`); in autumn, in a zone at
or east of Greenwich, `Next` passes over the first coming of the hour that comes twice when
it jumps to it, although it is to return the next match (`cron.go:112`; this hour is proved
to be all that it loses, `NextLosesOneHour`); an answer that comes
after the log viewer was left brings the user back to it; the modal for share links,
closed and opened for another job while it waits, shows the first job's link. The models
take these steps, and the properties are stated around them. The number of windows may be
one above the constant 2000, as the division that is compared with it rounds down.

## 7. Not modelled

Token cryptography, LDAP, HTTP routing, metrics, notifications and the proxying of
queries keep no state that anything else reads, or live outside the process. In the
frontend: the audit, profile and login pages, the other tabs of the settings, texts, and
the formatting of what is shown. The login limiter and the query history are lists behind
one lock each, which nothing else reads. The parsing of cron expressions, the audit log's
rotation and the choice of jobs by quota are in the plan; `PROJECT.json` lists each
component with the reason.
