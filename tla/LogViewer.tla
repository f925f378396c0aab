------------------------------ MODULE LogViewer ------------------------------
(***************************************************************************)
(* The log viewer of the web frontend: searches, their pages and their     *)
(* histogram, the live tail, the fields panel and the address bar.         *)
(*                                                                         *)
(* The page asks the server with promises and goes on: a click, a key, an  *)
(* answer and a row of the tail are steps that come in any order.  What a  *)
(* handler closes over (the form, the histogram on show) is read when the  *)
(* handler runs, which is when it was last rendered.  A query is the set   *)
(* of its filters, "*" among them, and {} is the blank one; the rows of an *)
(* answer or of a tail are the number of the operation that brought them.  *)
(***************************************************************************)
EXTENDS Naturals, Sequences, FiniteSets

CONSTANTS Filter,     \* the filters a click can add to a query
          Datasource, \* every datasource an address may name
          Listed,     \* those the server lists for this user
          TimeRange,  \* time ranges
          MaxRows,    \* TAIL_MAX_ROWS
          MaxPage,    \* bound on the pages of a result
          MaxOps,     \* bound on searches and tails
          MaxEdits    \* bound on the exports and changes of the form

\* the search of the first address is an operation, a tail shows a row
ASSUME ViewerAssumption ==
    /\ Listed \subseteq Datasource /\ Listed # {} /\ "" \notin Datasource
    /\ "*" \notin Filter /\ "all" \in TimeRange
    /\ {MaxRows, MaxPage, MaxOps, MaxEdits} \subseteq Nat
    /\ MaxRows > 0 /\ MaxOps > 0

Query == {{}, {"*"}} \cup {F \in SUBSET Filter : F # {}}
Order == {"asc", "desc"}
Form == [query : Query, ds : Datasource \cup {""}, range : TimeRange, order : Order]
NoUrl == [query |-> {}, ds |-> "", range |-> "all", order |-> "asc"]
Op == 1..MaxOps
Key == (Datasource \cup {""}) \X (0..MaxOps)
NoKey == <<"", 0>>

VARIABLES
    at,         \* "viewer", or "elsewhere": another page of the application
    form,       \* query, selectedDS, timeStart and timeEnd, sortOrder
    url,        \* the search parameters of the address bar
    autoRan,
    dsAsked,    \* getDatasources is in flight
    loading, error, searched,
    info,       \* page, hasMore, and whose answer they and total are from
    logs, hits, \* where each row, newest first, and the histogram are from
    tailAbort, tailing,
    streams,    \* the tail requests whose promise has not settled
    sidePanel, fieldsRefresh,  \* "saved" stands for the history's panel, too
    panel,      \* FieldsPanel: loading, error, and what fields was asked for
    fieldAsks,  \* its requests in flight
    fetches,    \* the calls of fetchLogs in flight
    export,     \* exporting; late: how many calls of handleExport by a page
                \* that has been left still wait
    asked,      \* history: what each operation is, and the form it was given
    overlapped, \* history: since the last search that was asked alone, a
                \* search or tail was started with another search in flight
    edits

results == <<loading, error, searched, info, logs, hits>>
tail == <<tailAbort, tailing, streams>>
fields == <<sidePanel, fieldsRefresh, panel, fieldAsks>>
address == <<at, url>>
history == <<asked, overlapped>>
vars == <<address, form, autoRan, dsAsked, results, tail, fields, fetches,
          export, history, edits>>

ops == Len(asked)
NewOp == ops + 1
Mine(f) == ~f.gone

FromUrl(u) == [u EXCEPT !.query = IF @ = {} THEN {"*"} ELSE @]
NoInfo == [by |-> 0, page |-> 0, hasMore |-> FALSE]
NoPanel == [busy |-> FALSE, failed |-> FALSE, shows |-> NoKey]

-----------------------------------------------------------------------------
(* Parts of handlers *)

\* stopTail, of what fetchLogs and startTail call
StopStreams ==
    {[s EXCEPT !.aborted = @ \/ s.op = tailAbort] : s \in streams}
TailStopped == streams' = StopStreams /\ tailAbort' = 0 /\ tailing' = FALSE

\* Mutation: fetchLogs lets the tail go on
FetchKeepsTail(page, f, others) ==
    /\ ops < MaxOps
    /\ fetches' = others \cup {[op |-> NewOp, page |-> page, kept |-> hits,
                                got |-> FALSE, gone |-> FALSE]}
    /\ asked' = Append(asked, [form |-> f, tail |-> FALSE])
    /\ loading' = TRUE /\ error' = FALSE
    /\ overlapped' = (others # {} \/ (overlapped /\ page # 0))
    /\ UNCHANGED <<searched, info, logs, hits, tail>>

\* fetchLogs up to its first await, with the other calls in flight
Fetch(page, f, others) ==
    /\ ops < MaxOps
    /\ fetches' = others \cup {[op |-> NewOp, page |-> page, kept |-> hits,
                                got |-> FALSE, gone |-> FALSE]}
    /\ asked' = Append(asked, [form |-> f, tail |-> FALSE])
    /\ IF tailing THEN TailStopped ELSE UNCHANGED tail
    /\ loading' = TRUE /\ error' = FALSE
    /\ overlapped' = (others # {} \/ (overlapped /\ page # 0))
    /\ UNCHANGED <<searched, info, logs, hits>>

\* the effect of FieldsPanel that its datasourceId and refreshKey trigger, and
\* its cleanup; d and key are their values after the step
Cancelled == {[a EXCEPT !.cancelled = TRUE] : a \in fieldAsks}
PanelEffect(d, key) ==
    IF sidePanel = "fields" /\ <<d, key>> # <<form.ds, fieldsRefresh>> /\ d # ""
      THEN /\ panel' = [panel EXCEPT !.busy = TRUE, !.failed = FALSE]
           /\ fieldAsks' = Cancelled \cup {[key |-> <<d, key>>, cancelled |-> FALSE]}
      ELSE UNCHANGED <<panel, fieldAsks>>

\* a new form, and the effects of a new selectedDS: the search that is due
\* when the address has a query and none has run by itself
NewForm(f) ==
    /\ form' = f
    /\ PanelEffect(f.ds, fieldsRefresh)
    /\ IF f.ds # form.ds /\ ~autoRan /\ url.query # {}
         THEN autoRan' = TRUE /\ Fetch(0, f, fetches)
         ELSE UNCHANGED <<autoRan, results, tail, fetches, history>>
    /\ UNCHANGED <<address, sidePanel, fieldsRefresh, export>>

Edit == at = "viewer" /\ edits < MaxEdits /\ edits' = edits + 1

-----------------------------------------------------------------------------
(* The form *)

\* the text area; the date pickers, the presets and their clear button
TypeQuery ==
    /\ Edit
    /\ \E q \in Query \ {form.query} : NewForm([form EXCEPT !.query = q])
    /\ UNCHANGED dsAsked

PickRange ==
    /\ Edit
    /\ \E r \in TimeRange \ {form.range} : NewForm([form EXCEPT !.range = r])
    /\ UNCHANGED dsAsked

\* the datasource selector, offered when the list has come
PickDatasource ==
    /\ at = "viewer" /\ ~dsAsked
    /\ \E d \in Listed \ {form.ds} : NewForm([form EXCEPT !.ds = d])
    /\ UNCHANGED <<dsAsked, edits>>

\* a saved query, whose datasource may be gone, if it names one at all
TakeSaved ==
    /\ Edit /\ sidePanel # "fields"
    /\ \E q \in Query \ {{}}, d \in Datasource \cup {form.ds} :
         NewForm([form EXCEPT !.query = q, !.ds = d])
    /\ UNCHANGED dsAsked

\* an entry of the history, with its datasource if that is listed
TakeHistory ==
    /\ Edit /\ sidePanel # "fields"
    /\ \E q \in Query \ {{}}, d \in Listed \cup {form.ds} :
         /\ dsAsked => d = form.ds
         /\ NewForm([form EXCEPT !.query = q, !.ds = d])
    /\ UNCHANGED dsAsked

\* the answer of getDatasources; the server's list may have lost form.ds
DatasourcesArrive ==
    /\ at = "viewer" /\ dsAsked
    /\ dsAsked' = FALSE
    /\ \/ form.ds \in Listed /\ NewForm(form)
       \/ /\ form.ds \notin Listed
          /\ \E d \in Listed : NewForm([form EXCEPT !.ds = d])
    /\ UNCHANGED edits

-----------------------------------------------------------------------------
(* Searches *)

UserFetch(page, f) ==
    /\ at = "viewer"
    /\ Fetch(page, f, fetches)
    /\ form' = f
    /\ UNCHANGED <<address, autoRan, dsAsked, fields, export, edits>>

Shown == searched /\ ~error

\* the button is disabled where Enter in the text area is not
Search == ~loading /\ form.query # {} /\ form.ds # "" /\ UserFetch(0, form)
PressEnter == UserFetch(0, form)

\* Mutation: the first page has a previous one
PrevPageOfFirst ==
    Shown /\ ~tailing /\ ~loading
    /\ IF info.page = 0 THEN UserFetch(MaxPage + 1, form)
                        ELSE UserFetch(info.page - 1, form)

PrevPage == Shown /\ ~tailing /\ info.page # 0 /\ ~loading
            /\ UserFetch(info.page - 1, form)
NextPage == Shown /\ ~tailing /\ info.hasMore /\ ~loading
            /\ UserFetch(info.page + 1, form)

Toggled(order) == IF order = "asc" THEN "desc" ELSE "asc"

\* the header of the column _time
ToggleSort ==
    /\ Shown /\ ~tailing /\ logs # <<>>
    /\ UserFetch(0, [form EXCEPT !.order = Toggled(@)])

\* a bar of the histogram
ZoomTo ==
    /\ Shown /\ hits # 0 /\ ~tailing
    /\ \E r \in TimeRange \ {"all"} : UserFetch(0, [form EXCEPT !.range = r])

\* addFilterToQuery
WithFilter(q, e) == (q \ {"*"}) \cup {e}

\* a value or a stream of the fields panel
AddFilter ==
    /\ sidePanel = "fields" /\ ~panel.failed /\ panel.shows # NoKey
    /\ \E e \in Filter :
         UserFetch(0, [form EXCEPT !.query = WithFilter(@, e)])

-----------------------------------------------------------------------------
(* Answers *)

\* the server refuses a blank query and a datasource it does not list
Answerable(f) ==
    asked[f.op].form.query # {} /\ asked[f.op].form.ds \in Listed

\* queryLogs answers; a later page has no histogram to wait for
LogsArrive ==
    \E f \in fetches :
      /\ ~f.got /\ Mine(f) /\ Answerable(f)
      /\ \E row \in {<<>>, <<f.op>>}, more \in BOOLEAN :
           /\ more => row # <<>> /\ f.page < MaxPage
           /\ logs' = row
           /\ info' = [by |-> f.op, page |-> f.page, hasMore |-> more]
      /\ searched' = TRUE
      /\ IF f.page = 0
           THEN /\ fetches' = (fetches \ {f}) \cup {[f EXCEPT !.got = TRUE]}
                /\ UNCHANGED <<hits, loading>>
           ELSE /\ fetches' = fetches \ {f}
                /\ hits' = f.kept /\ loading' = FALSE
      /\ UNCHANGED <<address, form, autoRan, dsAsked, error, tail, fields,
                     export, history, edits>>

\* getHits settles, with null when it fails, and fetchLogs ends
HitsArrive ==
    \E f \in fetches :
      /\ f.got /\ Mine(f)
      /\ hits' \in {0, f.op}
      /\ fieldsRefresh' = fieldsRefresh + 1
      /\ PanelEffect(form.ds, fieldsRefresh')
      /\ url' = asked[f.op].form
      /\ loading' = FALSE
      /\ fetches' = fetches \ {f}
    /\ UNCHANGED <<at, form, autoRan, dsAsked, error, searched, info, logs,
                   tail, sidePanel, export, history, edits>>

\* Mutation: no finally
FetchFailsLoading ==
    \E f \in fetches :
      /\ ~f.got /\ Mine(f)
      /\ fetches' = fetches \ {f}
      /\ error' = TRUE /\ logs' = <<>> /\ hits' = 0
      /\ UNCHANGED <<address, form, autoRan, dsAsked, loading, searched, info,
                     tail, fields, export, history, edits>>

FetchFails ==
    \E f \in fetches :
      /\ ~f.got /\ Mine(f)
      /\ fetches' = fetches \ {f}
      /\ error' = TRUE /\ logs' = <<>> /\ hits' = 0 /\ loading' = FALSE
      /\ UNCHANGED <<address, form, autoRan, dsAsked, searched, info, tail,
                     fields, export, history, edits>>

-----------------------------------------------------------------------------
(* The live tail *)

\* Mutation: the histogram of the last search stays
StartTailKeepsHits ==
    /\ at = "viewer" /\ ~tailing /\ form.query # {} /\ form.ds # ""
    /\ ops < MaxOps
    /\ asked' = Append(asked, [form |-> form, tail |-> TRUE])
    /\ tailAbort' = NewOp /\ tailing' = TRUE
    /\ streams' = StopStreams \cup {[op |-> NewOp, aborted |-> FALSE]}
    /\ logs' = <<>> /\ searched' = TRUE /\ error' = FALSE
    /\ overlapped' = (overlapped \/ fetches # {})
    /\ UNCHANGED <<address, form, autoRan, dsAsked, loading, info, hits,
                   fields, fetches, export, edits>>

StartTail ==
    /\ at = "viewer" /\ ~tailing /\ form.query # {} /\ form.ds # ""
    /\ ops < MaxOps
    /\ asked' = Append(asked, [form |-> form, tail |-> TRUE])
    /\ tailAbort' = NewOp /\ tailing' = TRUE
    /\ streams' = StopStreams \cup {[op |-> NewOp, aborted |-> FALSE]}
    /\ logs' = <<>> /\ hits' = 0 /\ searched' = TRUE /\ error' = FALSE
    /\ overlapped' = (overlapped \/ fetches # {})
    /\ UNCHANGED <<address, form, autoRan, dsAsked, loading, info, fields,
                   fetches, export, edits>>

StopTail ==
    /\ at = "viewer" /\ tailing
    /\ TailStopped
    /\ UNCHANGED <<address, form, autoRan, dsAsked, results, fields, fetches,
                   export, history, edits>>

TailRow ==
    /\ \E s \in streams :
         /\ ~s.aborted
         /\ logs' = SubSeq(<<s.op>> \o logs, 1,
                           IF Len(logs) < MaxRows THEN Len(logs) + 1 ELSE MaxRows)
    /\ UNCHANGED <<address, form, autoRan, dsAsked, loading, error, searched,
                   info, hits, tail, fields, fetches, export, history, edits>>

\* Mutation: finally clears whatever tail there is
TailSettlesAny ==
    /\ \E s \in streams :
         /\ streams' = streams \ {s}
         /\ error' \in {error, error \/ ~s.aborted}
         /\ tailAbort' = 0 /\ tailing' = FALSE
    /\ UNCHANGED <<address, form, autoRan, dsAsked, loading, searched, info,
                   logs, hits, fields, fetches, export, history, edits>>

\* the promise of api.tail settles: the stream ends or fails, or the rejection
\* of an aborted one is noticed, which may be after another has started
TailSettles ==
    /\ \E s \in streams :
         /\ streams' = streams \ {s}
         /\ error' \in {error, error \/ ~s.aborted}
         /\ IF tailAbort = s.op
              THEN tailAbort' = 0 /\ tailing' = FALSE
              ELSE UNCHANGED <<tailAbort, tailing>>
    /\ UNCHANGED <<address, form, autoRan, dsAsked, loading, searched, info,
                   logs, hits, fields, fetches, export, history, edits>>

-----------------------------------------------------------------------------
(* The fields panel *)

OpenFields ==
    /\ Edit /\ sidePanel # "fields"
    /\ sidePanel' = "fields"
    /\ IF form.ds = ""
         THEN UNCHANGED <<panel, fieldAsks>>
         ELSE /\ panel' = [NoPanel EXCEPT !.busy = TRUE]
              /\ fieldAsks' = fieldAsks \cup
                   {[key |-> <<form.ds, fieldsRefresh>>, cancelled |-> FALSE]}
    /\ UNCHANGED <<address, form, autoRan, dsAsked, results, tail,
                   fieldsRefresh, fetches, export, history>>

OpenOther ==
    /\ at = "viewer" /\ sidePanel = "fields"
    /\ sidePanel' = "saved" /\ panel' = NoPanel /\ fieldAsks' = Cancelled
    /\ UNCHANGED <<address, form, autoRan, dsAsked, results, tail,
                   fieldsRefresh, fetches, export, history, edits>>

\* Mutation: no flag cancelled
FieldsArriveLate ==
    /\ \E a \in fieldAsks :
         /\ fieldAsks' = fieldAsks \ {a}
         /\ \/ panel' = [panel EXCEPT !.busy = FALSE, !.shows = a.key]
            \/ panel' = [panel EXCEPT !.busy = FALSE, !.failed = TRUE]
    /\ UNCHANGED <<address, form, autoRan, dsAsked, results, tail, sidePanel,
                   fieldsRefresh, fetches, export, history, edits>>

FieldsArrive ==
    /\ \E a \in fieldAsks :
         /\ fieldAsks' = fieldAsks \ {a}
         /\ IF a.cancelled
              THEN UNCHANGED panel
              ELSE \/ panel' = [panel EXCEPT !.busy = FALSE, !.shows = a.key]
                   \/ panel' = [panel EXCEPT !.busy = FALSE, !.failed = TRUE]
    /\ UNCHANGED <<address, form, autoRan, dsAsked, results, tail, sidePanel,
                   fieldsRefresh, fetches, export, history, edits>>

-----------------------------------------------------------------------------
(* The page comes and goes *)

\* the initial state of the page and its effects: the list of datasources is
\* asked for, and a query in the address runs by itself
Mount(u, others) ==
    /\ at' = "viewer" /\ form' = FromUrl(u) /\ dsAsked' = TRUE
    /\ IF u.query # {} /\ u.ds # ""
         THEN autoRan' = TRUE /\ Fetch(0, FromUrl(u), others)
         ELSE /\ autoRan' = FALSE /\ fetches' = others
              /\ UNCHANGED <<results, tail, history>>

\* another page: the clean-ups abort the tail and cancel the fields' request,
\* fetchLogs and handleExport go on, and the state of the page is lost
Unmount ==
    /\ at' = "elsewhere"
    /\ form' = FromUrl(NoUrl) /\ dsAsked' = FALSE /\ autoRan' = FALSE
    /\ loading' = FALSE /\ error' = FALSE /\ searched' = FALSE
    /\ info' = NoInfo /\ logs' = <<>> /\ hits' = 0
    /\ TailStopped
    /\ sidePanel' = "saved" /\ fieldsRefresh' = 0
    /\ panel' = NoPanel /\ fieldAsks' = Cancelled
    /\ fetches' = {[f EXCEPT !.gone = TRUE] : f \in fetches}
    /\ UNCHANGED <<url, history>>

Leave ==
    /\ at = "viewer"
    /\ Unmount
    /\ export' = [export EXCEPT !.busy = FALSE,
                                !.late = IF export.busy THEN @ + 1 ELSE @]
    /\ UNCHANGED edits

\* by the link of the menu or by going back to the address it had
Return ==
    /\ at = "elsewhere"
    /\ url' \in {NoUrl, url}
    /\ Mount(url', fetches)
    /\ UNCHANGED <<fields, export, edits>>

\* fetchLogs ends on a page that has been left: of all its updates the new
\* address alone has an effect, and it brings the viewer back
LateAnswer ==
    /\ \E f \in fetches :
         /\ f.gone
         /\ \/ /\ fetches' = fetches \ {f}
               /\ UNCHANGED <<address, form, autoRan, dsAsked, results, tail,
                              history>>
            \/ /\ f.page = 0 /\ Answerable(f)
               /\ url' = asked[f.op].form
               /\ IF at = "elsewhere"
                    THEN Mount(url', fetches \ {f})
                    ELSE /\ fetches' = fetches \ {f}
                         /\ UNCHANGED <<at, form, autoRan, dsAsked, results,
                                        tail, history>>
    /\ UNCHANGED <<fields, export, edits>>

-----------------------------------------------------------------------------
(* Exports *)

HandleExport ==
    /\ Edit
    /\ form.query # {} /\ form.ds # "" /\ ~export.busy
    /\ export' = [export EXCEPT !.busy = TRUE]
    /\ UNCHANGED <<address, form, autoRan, dsAsked, results, tail, fields,
                   fetches, history>>

\* the page of the jobs follows the answer, a message the refusal
ExportArrives ==
    /\ export.busy
    /\ export' = [export EXCEPT !.busy = FALSE]
    /\ \/ Unmount
       \/ UNCHANGED <<address, form, autoRan, dsAsked, results, tail, fields,
                      fetches, history>>
    /\ UNCHANGED edits

\* whatever page the user is on by now
LateExport ==
    /\ export.late > 0
    /\ export' = [export EXCEPT !.late = @ - 1]
    /\ \/ at = "viewer" /\ Unmount
       \/ UNCHANGED <<address, form, autoRan, dsAsked, results, tail, fields,
                      fetches, history>>
    /\ UNCHANGED edits

-----------------------------------------------------------------------------
Init ==
    /\ \E u \in {NoUrl} \cup [query : {{"*"}}, ds : Datasource,
                              range : {"all"}, order : {"asc"}] :
         /\ url = u /\ form = FromUrl(u)
         /\ autoRan = (u # NoUrl)
         /\ asked = IF u = NoUrl THEN <<>> ELSE <<[form |-> u, tail |-> FALSE]>>
         /\ loading = (u # NoUrl)
         /\ fetches = IF u = NoUrl THEN {} ELSE
              {[op |-> 1, page |-> 0, kept |-> 0, got |-> FALSE, gone |-> FALSE]}
    /\ at = "viewer" /\ dsAsked = TRUE
    /\ error = FALSE /\ searched = FALSE
    /\ info = NoInfo /\ logs = <<>> /\ hits = 0
    /\ tailAbort = 0 /\ tailing = FALSE /\ streams = {}
    /\ sidePanel = "saved" /\ fieldsRefresh = 0
    /\ panel = NoPanel /\ fieldAsks = {}
    /\ export = [busy |-> FALSE, late |-> 0]
    /\ overlapped = FALSE /\ edits = 0

User == TypeQuery \/ PickRange \/ PickDatasource \/ TakeSaved \/ TakeHistory
        \/ Search \/ PressEnter \/ PrevPage \/ NextPage \/ ToggleSort \/ ZoomTo
        \/ AddFilter \/ StartTail \/ StopTail \/ OpenFields \/ OpenOther
        \/ HandleExport \/ Leave \/ Return
Answer == LogsArrive \/ HitsArrive \/ FetchFails
Next == User \/ Answer \/ DatasourcesArrive \/ TailRow \/ TailSettles
        \/ FieldsArrive \/ LateAnswer \/ ExportArrives \/ LateExport

Spec == Init /\ [][Next]_vars

\* the server answers a request or the browser gives it up
FairSpec == Spec /\ WF_vars(Answer)

-----------------------------------------------------------------------------
(* Properties *)

\* every variable has its type
TypeOK ==
    /\ at \in {"viewer", "elsewhere"} /\ form \in Form /\ url \in Form
    /\ {autoRan, dsAsked, loading, error, searched, tailing, overlapped}
         \subseteq BOOLEAN
    /\ info \in [by : 0..MaxOps, page : 0..MaxPage, hasMore : BOOLEAN]
    /\ logs \in Seq(Op) /\ Len(logs) <= MaxRows
    /\ hits \in 0..MaxOps /\ tailAbort \in 0..MaxOps
    /\ streams \subseteq [op : Op, aborted : BOOLEAN]
    /\ sidePanel \in {"saved", "fields"} /\ fieldsRefresh \in 0..MaxOps
    /\ panel \in [busy : BOOLEAN, failed : BOOLEAN, shows : Key]
    /\ fieldAsks \subseteq [key : Key, cancelled : BOOLEAN]
    /\ fetches \subseteq [op : Op, page : 0..MaxPage, kept : 0..MaxOps,
                          got : BOOLEAN, gone : BOOLEAN]
    /\ asked \in Seq([form : Form, tail : BOOLEAN]) /\ ops <= MaxOps
    /\ export \in [busy : BOOLEAN, late : 0..MaxEdits]
    /\ edits \in 0..MaxEdits

\* The stop button always reaches the tail: one request is live when the page
\* says that it tails, it is the one tailAbort holds, and none is otherwise.
\* startTail and fetchLogs stop the old one, and finally compares.
OneLiveTail ==
    /\ tailing = (tailAbort # 0)
    /\ {s.op : s \in {r \in streams : ~r.aborted}} = {tailAbort} \ {0}

\* Rows of two origins stand together in one way only: a tail's rows on the
\* answer of a search that was asked before the tail started.  Two tails, or a
\* tail and a search that was asked during it, never mix.
RowsOfOneOrigin ==
    \A i, j \in DOMAIN logs :
      i < j /\ logs[i] # logs[j] =>
        asked[logs[i]].tail /\ ~asked[logs[j]].tail /\ logs[j] < logs[i]

\* What fetchLogs sets in two renders agrees at the end: as long as searches
\* do not overlap, the histogram is that of the rows and of the numbers above
\* them, and the address bar holds the form they were asked with.
ShownTogether ==
    Shown /\ ~tailing /\ ~overlapped /\ fetches = {}
          /\ info.page = 0 /\ hits # 0 =>
      /\ hits = info.by
      /\ \A i \in DOMAIN logs : logs[i] = hits
      /\ url = asked[hits].form

\* An answer to an older datasource or search never becomes the fields on show
\* (the flag cancelled of FieldsPanel's effect).
FieldsAreCurrent ==
    sidePanel = "fields" /\ form.ds # "" /\ ~panel.busy /\ ~panel.failed =>
      panel.shows = <<form.ds, fieldsRefresh>>

\* The page does not say "loading" for ever, whatever overlaps or fails.
LoadingEnds == loading ~> ~loading
=============================================================================
