--------------------------- MODULE LogViewerProofs ---------------------------
(***************************************************************************)
(* What TLAPS proves about LogViewer, for any filters, datasources and     *)
(* ranges and any number of operations.                                    *)
(*                                                                         *)
(* OneLiveTail: the invariant adds to it that operations are numbered in   *)
(* order and that no two tail requests have one number.  Without this, the *)
(* comparison in startTail's finally could take another request for the    *)
(* current one.                                                            *)
(*                                                                         *)
(* TypeOK: each refresh of the fields is the end of one of the searches    *)
(* that were asked, each late export one of the edits.                     *)
(*                                                                         *)
(* FieldsAreCurrent: a request of the panel that is not cancelled asks for *)
(* what the panel is to show.                                              *)
(*                                                                         *)
(* RowsOfOneOrigin: while the page tails, whatever else is in flight or on *)
(* show is a search that was asked before the tail.                        *)
(*                                                                         *)
(* ShownTogether: until searches overlap, there is one in flight, or a     *)
(* tail, or none, and a page that has been left shows nothing.             *)
(***************************************************************************)
EXTENDS LogViewer, FiniteSetTheorems, TLAPS

Asked == [form : Form, tail : BOOLEAN]

\* the forms that searches and tails are asked with
FormsTyped == form \in Form /\ url \in Form /\ asked \in Seq(Asked)

\* what is in flight has been asked
Numbered(F, n) == \A f \in F : "op" \in DOMAIN f /\ f.op \in 1..n
FetchesAsked == Numbered(fetches, ops)
StreamsAsked == streams \subseteq [op : 1..ops, aborted : BOOLEAN]

StreamsDistinct == \A r, s \in streams : r.op = s.op => r = s

IInv == FormsTyped /\ FetchesAsked /\ StreamsAsked /\ StreamsDistinct
        /\ OneLiveTail /\ tailAbort \in Nat

-----------------------------------------------------------------------------
(* Forms *)

\* A new value of one field of the form is again a form.
LEMMA FormFields ==
  ASSUME NEW f \in Form
  PROVE  /\ \A q \in Query : [f EXCEPT !.query = q] \in Form
         /\ \A d \in Datasource \cup {""} : [f EXCEPT !.ds = d] \in Form
         /\ \A r \in TimeRange : [f EXCEPT !.range = r] \in Form
         /\ [f EXCEPT !.order = Toggled(@)] \in Form
         /\ \A q \in Query, d \in Datasource \cup {""} :
              [f EXCEPT !.query = q, !.ds = d] \in Form
         /\ FromUrl(f) \in Form
<1>1. /\ \A q \in Query : [f EXCEPT !.query = q] \in Form
      /\ \A d \in Datasource \cup {""} : [f EXCEPT !.ds = d] \in Form
      /\ \A r \in TimeRange : [f EXCEPT !.range = r] \in Form
      /\ \A o \in Order : [f EXCEPT !.order = o] \in Form
  BY DEF Form
<1>2. Toggled(f.order) \in Order
  BY DEF Order, Toggled
<1>3. [f EXCEPT !.order = Toggled(@)] \in Form
  BY <1>1, <1>2
<1>4. \A q \in Query, d \in Datasource \cup {""} :
        [f EXCEPT !.query = q, !.ds = d] \in Form
  BY DEF Form
<1>5. f.query \in Query /\ {"*"} \in Query
  BY DEF Form, Query
<1>6. FromUrl(f) \in Form
  BY <1>1, <1>5 DEF FromUrl
<1> QED
  BY <1>1, <1>3, <1>4, <1>6

\* So is the form with a filter added to its query.
LEMMA FilteredForm ==
  ASSUME NEW f \in Form, NEW e \in Filter
  PROVE  [f EXCEPT !.query = WithFilter(@, e)] \in Form
<1>1. WithFilter(f.query, e) \in Query
  <2>1. f.query \in Query
    BY DEF Form
  <2>2. WithFilter(f.query, e) \in SUBSET Filter
    BY <2>1 DEF WithFilter, Query
  <2>3. WithFilter(f.query, e) # {}
    BY DEF WithFilter
  <2> QED
    BY <2>2, <2>3 DEF Query
<1> QED
  BY <1>1, FormFields

\* The form of an address without parameters.
LEMMA NoUrlIsForm == NoUrl \in Form /\ FromUrl(NoUrl) \in Form
<1>1. NoUrl \in Form
  BY ViewerAssumption DEF NoUrl, Form, Query, Order
<1> QED
  BY <1>1, FormFields

-----------------------------------------------------------------------------
(* Tails *)

\* the state a step starts from, as far as the tail is concerned
TailInv == StreamsAsked /\ StreamsDistinct /\ OneLiveTail /\ tailAbort \in Nat

\* stopTail aborts the one request that is live.
LEMMA StoppedNoneLive ==
  ASSUME TailInv
  PROVE  /\ \A s \in StopStreams : s.aborted
         /\ StopStreams \subseteq [op : 1..ops, aborted : BOOLEAN]
         /\ \A r, s \in StopStreams : r.op = s.op => r = s
<1>1. ASSUME NEW s \in streams, ~s.aborted PROVE s.op = tailAbort
  BY <1>1 DEF TailInv, OneLiveTail
<1> DEFINE Stopped(s) == [s EXCEPT !.aborted = @ \/ s.op = tailAbort]
<1>2. ASSUME NEW s \in streams
      PROVE  /\ Stopped(s) \in [op : 1..ops, aborted : BOOLEAN]
             /\ Stopped(s).op = s.op /\ Stopped(s).aborted
  <2>1. s \in [op : 1..ops, aborted : BOOLEAN]
    BY DEF TailInv, StreamsAsked
  <2>2. s.aborted \/ s.op = tailAbort
    BY <1>1
  <2>3. Stopped(s).aborted = (s.aborted \/ s.op = tailAbort)
    BY <2>1
  <2> QED
    BY <2>1, <2>2, <2>3
<1>3. StopStreams = {Stopped(s) : s \in streams}
  BY DEF StopStreams
<1> HIDE DEF Stopped
<1>4. \A r, s \in streams : r.op = s.op => r = s
  BY DEF TailInv, StreamsDistinct
<1> QED
  BY <1>2, <1>3, <1>4

\* Numbers that have been given stay so.
LEMMA MoreAsked ==
  ASSUME asked \in Seq(Asked),
         \/ asked' = asked
         \/ \E e \in Asked : asked' = Append(asked, e)
  PROVE  /\ asked' \in Seq(Asked)
         /\ ops \in Nat /\ ops' \in Nat /\ ops <= ops'
         /\ 1..ops \subseteq 1..ops'
<1>1. asked' \in Seq(Asked) /\ Len(asked) \in Nat /\ Len(asked) <= Len(asked')
  OBVIOUS
<1> QED
  BY <1>1 DEF ops

\* A step that leaves the tail alone, or stops it, keeps what concerns it.
LEMMA TailKept ==
  ASSUME TailInv, UNCHANGED tail \/ TailStopped,
         asked \in Seq(Asked),
         \/ asked' = asked
         \/ \E e \in Asked : asked' = Append(asked, e)
  PROVE  TailInv'
<1>1. 1..ops \subseteq 1..ops'
  BY MoreAsked
<1>2. CASE UNCHANGED tail
  BY <1>1, <1>2 DEF TailInv, tail, StreamsAsked, StreamsDistinct, OneLiveTail
<1>3. CASE TailStopped
  <2>1. streams' = StopStreams /\ tailAbort' = 0 /\ tailing' = FALSE
    BY <1>3 DEF TailStopped
  <2>2. StreamsAsked' /\ StreamsDistinct'
    BY <1>1, <2>1, StoppedNoneLive DEF StreamsAsked, StreamsDistinct
  <2>3. OneLiveTail'
    BY <2>1, StoppedNoneLive DEF OneLiveTail
  <2> QED
    BY <2>1, <2>2, <2>3 DEF TailInv
<1> QED
  BY <1>2, <1>3

-----------------------------------------------------------------------------
(* The parts of handlers *)

\* What fetchLogs asks for is numbered, and the tail is stopped.
LEMMA FetchKeeps ==
  ASSUME IInv, NEW page, NEW f \in Form, NEW others,
         Numbered(others, ops),
         Fetch(page, f, others)
  PROVE  asked' \in Seq(Asked) /\ FetchesAsked' /\ TailInv'
<1> DEFINE e == [form |-> f, tail |-> FALSE]
<1>1. e \in Asked /\ asked' = Append(asked, e)
  BY DEF Fetch, Asked
<1>2. asked' \in Seq(Asked) /\ ops \in Nat /\ 1..ops \subseteq 1..ops'
      /\ ops' = NewOp /\ NewOp \in 1..ops'
  BY <1>1, MoreAsked DEF IInv, FormsTyped, NewOp, ops
<1>3. FetchesAsked'
  <2>1. fetches' = others \cup {[op |-> NewOp, page |-> page, kept |-> hits,
                                 got |-> FALSE, gone |-> FALSE]}
    BY DEF Fetch
  <2> QED
    BY <1>2, <2>1 DEF FetchesAsked, Numbered
<1>4. TailInv'
  BY <1>1, TailKept DEF Fetch, IInv, FormsTyped, TailInv
<1> QED
  BY <1>2, <1>3, <1>4

\* A new form keeps the invariant, whether or not a search follows it.
LEMMA NewFormKeeps ==
  ASSUME IInv, NEW f \in Form, NewForm(f) PROVE IInv'
<1>1. form' \in Form /\ url' \in Form
  BY DEF NewForm, IInv, FormsTyped, address
<1>2. CASE Fetch(0, f, fetches)
  BY <1>1, <1>2, FetchKeeps DEF IInv, FormsTyped, FetchesAsked, TailInv
<1>3. CASE UNCHANGED <<autoRan, results, tail, fetches, history>>
  BY <1>1, <1>3 DEF IInv, FormsTyped, FetchesAsked, StreamsAsked,
       StreamsDistinct, OneLiveTail, tail, history, ops
<1> QED
  BY <1>2, <1>3 DEF NewForm

\* So does a search by a click or a key.
LEMMA UserFetchKeeps ==
  ASSUME IInv, NEW page, NEW f \in Form, UserFetch(page, f) PROVE IInv'
<1>1. form' \in Form /\ url' \in Form
  BY DEF UserFetch, IInv, FormsTyped, address
<1> QED
  BY <1>1, FetchKeeps DEF UserFetch, IInv, FormsTyped, FetchesAsked, TailInv

\* A step that asks for nothing, and leaves the tail alone or stops it.
LEMMA QuietKeeps ==
  ASSUME IInv, form' \in Form, url' \in Form, FetchesAsked', asked' = asked,
         UNCHANGED tail \/ TailStopped
  PROVE  IInv'
  BY TailKept DEF IInv, FormsTyped, TailInv

\* The fetches in flight stay asked when some end or are marked.
LEMMA FetchesMarked ==
  ASSUME FetchesAsked, asked' = asked,
         \A g \in fetches' : \E f \in fetches :
           g = f \/ g = [f EXCEPT !.got = TRUE] \/ g = [f EXCEPT !.gone = TRUE]
  PROVE  FetchesAsked'
  BY DEF FetchesAsked, Numbered, ops

\* The form of an operation is a form.
LEMMA AskedForm ==
  ASSUME asked \in Seq(Asked), NEW i \in 1..ops PROVE asked[i].form \in Form
<1>1. asked[i] \in Asked
  BY DEF ops
<1> QED
  BY <1>1 DEF Asked

-----------------------------------------------------------------------------
(* The steps *)

\* The form: queries, ranges, datasources, the list of datasources.
LEMMA FormStepsKeep ==
  ASSUME IInv, \/ TypeQuery \/ PickRange \/ PickDatasource \/ TakeSaved
               \/ TakeHistory \/ DatasourcesArrive
  PROVE  IInv'
<1>0. form \in Form /\ form.ds \in Datasource \cup {""}
      /\ Listed \subseteq Datasource
  BY ViewerAssumption DEF IInv, FormsTyped, Form
<1> USE FormFields, NewFormKeeps
<1>1. CASE TypeQuery
  BY <1>0, <1>1 DEF TypeQuery
<1>2. CASE PickRange
  BY <1>0, <1>2 DEF PickRange
<1>3. CASE PickDatasource
  BY <1>0, <1>3 DEF PickDatasource
<1>4. CASE TakeSaved
  BY <1>0, <1>4 DEF TakeSaved
<1>5. CASE TakeHistory
  BY <1>0, <1>5 DEF TakeHistory
<1>6. CASE DatasourcesArrive
  BY <1>0, <1>6 DEF DatasourcesArrive
<1> QED
  BY <1>1, <1>2, <1>3, <1>4, <1>5, <1>6

\* The searches: button, Enter, pages, sorting, histogram, filters.
LEMMA SearchesKeep ==
  ASSUME IInv, \/ Search \/ PressEnter \/ PrevPage \/ NextPage \/ ToggleSort
               \/ ZoomTo \/ AddFilter
  PROVE  IInv'
<1>0. form \in Form
  BY DEF IInv, FormsTyped
<1> USE UserFetchKeeps
<1>1. CASE Search \/ PressEnter \/ PrevPage \/ NextPage
  BY <1>0, <1>1 DEF Search, PressEnter, PrevPage, NextPage
<1>2. CASE ToggleSort
  BY <1>0, <1>2, FormFields DEF ToggleSort
<1>3. CASE ZoomTo
  BY <1>0, <1>3, FormFields DEF ZoomTo
<1>4. CASE AddFilter
  BY <1>0, <1>4, FilteredForm DEF AddFilter
<1> QED
  BY <1>1, <1>2, <1>3, <1>4

\* A new tail is the only live one.
LEMMA StartTailKeeps == ASSUME IInv, StartTail PROVE IInv'
<1> DEFINE e == [form |-> form, tail |-> TRUE]
           new == [op |-> NewOp, aborted |-> FALSE]
<1>1. e \in Asked /\ asked' = Append(asked, e)
  BY DEF StartTail, Asked, IInv, FormsTyped
<1>2. asked' \in Seq(Asked) /\ ops \in Nat /\ 1..ops \subseteq 1..ops'
      /\ NewOp \in 1..ops' /\ NewOp \notin 1..ops /\ NewOp \in Nat /\ NewOp # 0
  BY <1>1, MoreAsked DEF IInv, FormsTyped, NewOp, ops
<1>3. FormsTyped' /\ FetchesAsked'
  BY <1>2 DEF StartTail, IInv, FormsTyped, FetchesAsked, Numbered, address
<1>4. /\ \A s \in StopStreams : s.aborted /\ s.op # NewOp
      /\ StopStreams \subseteq [op : 1..ops, aborted : BOOLEAN]
      /\ \A r, s \in StopStreams : r.op = s.op => r = s
  BY <1>2, StoppedNoneLive DEF IInv, TailInv
<1>5. /\ streams' = StopStreams \cup {new}
      /\ tailAbort' = NewOp /\ tailing' = TRUE
  BY DEF StartTail
<1>6. /\ new \in [op : 1..ops', aborted : BOOLEAN]
      /\ new.op = NewOp /\ ~new.aborted
  BY <1>2
<1> HIDE DEF new
<1>7. StreamsAsked' /\ StreamsDistinct'
  <2>1. \A s \in StopStreams : s \in [op : 1..ops', aborted : BOOLEAN]
    BY <1>2, <1>4
  <2> QED
    BY <1>4, <1>5, <1>6, <2>1 DEF StreamsAsked, StreamsDistinct
<1>8. OneLiveTail'
  <2>1. {r \in streams' : ~r.aborted} = {new}
    BY <1>4, <1>5, <1>6
  <2>2. {s.op : s \in {r \in streams' : ~r.aborted}} = {NewOp}
    BY <1>6, <2>1
  <2> QED
    BY <1>2, <1>5, <2>2 DEF OneLiveTail
<1> QED
  BY <1>2, <1>3, <1>5, <1>7, <1>8 DEF IInv

\* A request that settles clears the tail only when it is the current one.
LEMMA TailSettlesKeeps == ASSUME IInv, TailSettles PROVE IInv'
<1>1. UNCHANGED <<form, url, asked, fetches>>
  BY DEF TailSettles, address, history
<1>2. FormsTyped' /\ FetchesAsked'
  BY <1>1 DEF IInv, FormsTyped, FetchesAsked, ops
<1>3. PICK s \in streams :
        /\ streams' = streams \ {s}
        /\ IF tailAbort = s.op
             THEN tailAbort' = 0 /\ tailing' = FALSE
             ELSE UNCHANGED <<tailAbort, tailing>>
  BY DEF TailSettles
<1>4. StreamsAsked' /\ StreamsDistinct'
  BY <1>1, <1>3 DEF IInv, StreamsAsked, StreamsDistinct, ops
<1>5. OneLiveTail'
  <2>1. \A r \in streams : ~r.aborted => r.op = tailAbort
    BY DEF IInv, OneLiveTail
  <2>2. CASE tailAbort = s.op
    <3>1. \A r \in streams' : r.aborted
      BY <1>3, <2>1, <2>2 DEF IInv, StreamsDistinct
    <3> QED
      BY <1>3, <2>2, <3>1 DEF OneLiveTail
  <2>3. CASE tailAbort # s.op
    <3>1. s.aborted
      BY <2>1, <2>3
    <3>2. {r \in streams' : ~r.aborted} = {r \in streams : ~r.aborted}
      BY <1>3, <3>1
    <3> QED
      BY <1>3, <2>3, <3>2 DEF OneLiveTail, IInv
  <2> QED
    BY <2>2, <2>3
<1> QED
  BY <1>2, <1>3, <1>4, <1>5 DEF IInv

\* Answers to searches, and what else leaves form and tail alone.
LEMMA QuietStepsKeep ==
  ASSUME IInv, \/ LogsArrive \/ HitsArrive \/ FetchFails \/ StopTail \/ TailRow
               \/ OpenFields \/ OpenOther \/ FieldsArrive \/ HandleExport
  PROVE  IInv'
<1>0. form \in Form /\ url \in Form /\ FetchesAsked /\ asked \in Seq(Asked)
  BY DEF IInv, FormsTyped
<1> USE QuietKeeps, FetchesMarked
<1>1. CASE LogsArrive
  <2>1. UNCHANGED <<form, url, asked, tail>>
    BY <1>1 DEF LogsArrive, address, history
  <2>2. PICK f \in fetches : \/ fetches' = fetches \ {f}
                            \/ fetches' = (fetches \ {f}) \cup {[f EXCEPT !.got = TRUE]}
    BY <1>1 DEF LogsArrive
  <2> QED
    BY <1>0, <2>1, <2>2
<1>2. CASE HitsArrive
  <2>1. PICK f \in fetches : url' = asked[f.op].form /\ fetches' = fetches \ {f}
    BY <1>2 DEF HitsArrive
  <2>2. UNCHANGED <<form, asked, tail>>
    BY <1>2 DEF HitsArrive, history
  <2>3. asked[f.op].form \in Form
    BY <1>0, AskedForm DEF FetchesAsked, Numbered
  <2> QED
    BY <1>0, <2>1, <2>2, <2>3
<1>3. CASE FetchFails
  BY <1>0, <1>3 DEF FetchFails, address, history
<1>4. CASE StopTail
  BY <1>0, <1>4 DEF StopTail, address, history
<1>5. CASE TailRow
  BY <1>0, <1>5 DEF TailRow, address, history
<1>6. CASE OpenFields \/ OpenOther
  BY <1>0, <1>6 DEF OpenFields, OpenOther, address, history
<1>7. CASE FieldsArrive
  BY <1>0, <1>7 DEF FieldsArrive, address, history
<1>8. CASE HandleExport
  BY <1>0, <1>8 DEF HandleExport, address, history
<1> QED
  BY <1>1, <1>2, <1>3, <1>4, <1>5, <1>6, <1>7, <1>8

\* The page is left, by a link or behind an export's answer.
LEMMA UnmountKeeps == ASSUME IInv, Unmount PROVE IInv'
<1>1. form' \in Form /\ url' \in Form /\ asked' = asked /\ TailStopped
  BY NoUrlIsForm DEF Unmount, IInv, FormsTyped, history
<1>2. FetchesAsked'
  BY <1>1, FetchesMarked DEF Unmount, IInv
<1> QED
  BY <1>1, <1>2, QuietKeeps

\* The page is mounted with an address u, while others are in flight.
LEMMA MountKeeps ==
  ASSUME IInv, NEW u \in Form, url' = u, NEW others \in SUBSET fetches,
         Mount(u, others)
  PROVE  IInv'
<1>1. form' \in Form /\ url' \in Form /\ FromUrl(u) \in Form
  BY FormFields DEF Mount
<1>2. Numbered(others, ops)
  BY DEF IInv, FetchesAsked, Numbered
<1>3. CASE Fetch(0, FromUrl(u), others)
  BY <1>1, <1>2, <1>3, FetchKeeps DEF IInv, FormsTyped, TailInv
<1>4. CASE fetches' = others /\ UNCHANGED <<results, tail, history>>
  BY <1>1, <1>4, QuietKeeps, FetchesMarked DEF IInv, history
<1> QED
  BY <1>3, <1>4 DEF Mount

\* Leaving, returning, and what arrives after the page has been left.
LEMMA PageStepsKeep ==
  ASSUME IInv, \/ Leave \/ Return \/ LateAnswer \/ ExportArrives \/ LateExport
  PROVE  IInv'
<1>0. form \in Form /\ url \in Form /\ FetchesAsked /\ asked \in Seq(Asked)
  BY DEF IInv, FormsTyped
<1>1. CASE Leave
  BY <1>1, UnmountKeeps DEF Leave
<1>2. CASE Return
  <2>1. url' \in Form /\ Mount(url', fetches)
    BY <1>0, <1>2, NoUrlIsForm DEF Return
  <2> QED
    BY <2>1, MountKeeps
<1>3. CASE LateAnswer
  <2>1. PICK f \in fetches :
          \/ /\ fetches' = fetches \ {f}
             /\ UNCHANGED <<address, form, autoRan, dsAsked, results, tail,
                            history>>
          \/ /\ url' = asked[f.op].form
             /\ IF at = "elsewhere"
                  THEN Mount(url', fetches \ {f})
                  ELSE /\ fetches' = fetches \ {f}
                       /\ UNCHANGED <<at, form, autoRan, dsAsked, results,
                                      tail, history>>
    BY <1>3 DEF LateAnswer
  <2>2. asked[f.op].form \in Form
    BY <1>0, AskedForm DEF FetchesAsked, Numbered
  <2>3. CASE url' = asked[f.op].form /\ Mount(url', fetches \ {f})
    BY <2>2, <2>3, MountKeeps
  <2>4. CASE /\ url' \in {url, asked[f.op].form} /\ fetches' = fetches \ {f}
             /\ UNCHANGED <<form, tail, history>>
    BY <1>0, <2>2, <2>4, QuietKeeps, FetchesMarked DEF history
  <2> QED
    BY <2>1, <2>3, <2>4 DEF address
<1>4. CASE ExportArrives \/ LateExport
  <2>1. CASE Unmount
    BY <2>1, UnmountKeeps
  <2>2. CASE UNCHANGED <<address, form, autoRan, dsAsked, results, tail, fields,
                         fetches, history>>
    BY <1>0, <2>2, QuietKeeps, FetchesMarked DEF address, history
  <2> QED
    BY <1>4, <2>1, <2>2 DEF ExportArrives, LateExport
<1> QED
  BY <1>1, <1>2, <1>3, <1>4

-----------------------------------------------------------------------------
(* The invariant *)

\* It holds when the page is first mounted.
LEMMA InitInv == Init => IInv
<1> SUFFICES ASSUME Init PROVE IInv
  OBVIOUS
<1>1. PICK u \in {NoUrl} \cup [query : {{"*"}}, ds : Datasource,
                               range : {"all"}, order : {"asc"}] :
        /\ url = u /\ form = FromUrl(u)
        /\ asked = IF u = NoUrl THEN <<>> ELSE <<[form |-> u, tail |-> FALSE]>>
        /\ fetches = IF u = NoUrl THEN {} ELSE
             {[op |-> 1, page |-> 0, kept |-> 0, got |-> FALSE, gone |-> FALSE]}
  BY DEF Init
<1>2. u \in Form
  BY NoUrlIsForm, ViewerAssumption DEF Form, Query, Order
<1>3. FormsTyped
  <2>1. asked \in Seq(Asked)
    <3>1. CASE u = NoUrl
      BY <1>1, <3>1
    <3>2. CASE u # NoUrl
      <4>1. [form |-> u, tail |-> FALSE] \in Asked
        BY <1>2 DEF Asked
      <4> QED
        BY <1>1, <3>2, <4>1
    <3> QED
      BY <3>1, <3>2
  <2> QED
    BY <1>1, <1>2, <2>1, FormFields DEF FormsTyped
<1>4. FetchesAsked
  BY <1>1 DEF FetchesAsked, Numbered, ops
<1>5. streams = {} /\ tailAbort = 0 /\ tailing = FALSE
  BY DEF Init
<1> QED
  BY <1>3, <1>4, <1>5
     DEF IInv, StreamsAsked, StreamsDistinct, OneLiveTail

\* Every step keeps it.
LEMMA NextInv == IInv /\ [Next]_vars => IInv'
<1> SUFFICES ASSUME IInv, [Next]_vars PROVE IInv'
  OBVIOUS
<1>1. CASE UNCHANGED vars
  BY <1>1, QuietKeeps, FetchesMarked DEF vars, address, history, IInv, FormsTyped
<1>2. CASE Next
  BY <1>2, FormStepsKeep, SearchesKeep, StartTailKeeps, TailSettlesKeeps,
     QuietStepsKeep, PageStepsKeep DEF Next, User, Answer
<1> QED
  BY <1>1, <1>2

\* Operations, forms and tails, for any number of them.
THEOREM Invariance == Spec => []IInv
  BY InitInv, NextInv, PTL DEF Spec

\* The stop button reaches the tail in every reachable state, for any number
\* of searches, tails, exports and datasources.
THEOREM TailIsReached == Spec => []OneLiveTail
<1>1. IInv => OneLiveTail
  BY DEF IInv
<1> QED
  BY <1>1, Invariance, PTL


-----------------------------------------------------------------------------
(* Types *)

\* the calls of fetchLogs of the page that is mounted
Mines == {f \in fetches : Mine(f)}

Panels == [busy : BOOLEAN, failed : BOOLEAN, shows : Key]
Asks == [key : Key, cancelled : BOOLEAN]
Infos == [by : 0..MaxOps, page : 0..MaxPage, hasMore : BOOLEAN]
Fetches == [op : Op, page : 0..MaxPage, kept : 0..MaxOps, got : BOOLEAN,
            gone : BOOLEAN]

PageTypes ==
    /\ at \in {"viewer", "elsewhere"} /\ sidePanel \in {"saved", "fields"}
    /\ autoRan \in BOOLEAN /\ dsAsked \in BOOLEAN /\ overlapped \in BOOLEAN
ResultTypes ==
    /\ loading \in BOOLEAN /\ error \in BOOLEAN /\ searched \in BOOLEAN
    /\ info \in Infos /\ (info.hasMore => info.page < MaxPage)
    /\ logs \in Seq(Op) /\ Len(logs) <= MaxRows
    /\ hits \in 0..MaxOps
FetchTypes == fetches \subseteq Fetches /\ ops <= MaxOps
FieldTypes == panel \in Panels /\ fieldAsks \subseteq Asks
\* each refresh of the fields is the end of a search that was asked
RefreshCounted ==
    /\ fieldsRefresh \in Nat /\ IsFiniteSet(Mines)
    /\ fieldsRefresh + Cardinality(Mines) <= ops
\* each call of handleExport is one of the edits
ExportTypes ==
    /\ export \in [busy : BOOLEAN, late : Nat] /\ edits \in 0..MaxEdits
    /\ export.late + (IF export.busy THEN 1 ELSE 0) <= edits

Typed == PageTypes /\ ResultTypes /\ FetchTypes /\ FieldTypes /\ RefreshCounted
         /\ ExportTypes

\* The bounds are numbers.
LEMMA Bounds == /\ MaxRows \in Nat /\ MaxRows >= 1 /\ MaxPage \in Nat
                /\ MaxOps \in Nat /\ MaxOps >= 1 /\ MaxEdits \in Nat
<1>1. MaxRows \in Nat /\ MaxPage \in Nat /\ MaxOps \in Nat /\ MaxEdits \in Nat
  BY ViewerAssumption
<1>2. MaxRows > 0 /\ MaxOps > 0
  BY ViewerAssumption
<1> QED
  BY <1>1, <1>2

\* The number of refreshes is one the type of the keys allows.
LEMMA RefreshBound ==
  ASSUME RefreshCounted, ops \in Nat, ops <= MaxOps
  PROVE  fieldsRefresh \in 0..MaxOps
<1>1. Cardinality(Mines) \in Nat
  BY FS_CardinalityType DEF RefreshCounted
<1> QED
  BY <1>1, Bounds DEF RefreshCounted

\* The page's calls only end, and no refresh.
LEMMA FewerMine ==
  ASSUME RefreshCounted, fieldsRefresh' = fieldsRefresh, Mines' \subseteq Mines,
         ops \in Nat, ops' \in Nat, ops <= ops'
  PROVE  RefreshCounted'
<1>1. IsFiniteSet(Mines) /\ Cardinality(Mines) \in Nat
  BY FS_CardinalityType DEF RefreshCounted
<1>2. IsFiniteSet(Mines') /\ Cardinality(Mines') <= Cardinality(Mines)
  BY <1>1, FS_Subset
<1>3. Cardinality(Mines') \in Nat
  BY <1>2, FS_CardinalityType
<1> QED
  BY <1>1, <1>2, <1>3 DEF RefreshCounted

\* A call more, and an operation more.
LEMMA OneMore ==
  ASSUME RefreshCounted, fieldsRefresh' = fieldsRefresh,
         NEW g, Mines' \subseteq Mines \cup {g},
         ops \in Nat, ops' = ops + 1
  PROVE  RefreshCounted'
<1>1. IsFiniteSet(Mines) /\ Cardinality(Mines) \in Nat
  BY FS_CardinalityType DEF RefreshCounted
<1>2. /\ IsFiniteSet(Mines \cup {g})
      /\ Cardinality(Mines \cup {g}) <= Cardinality(Mines) + 1
  BY <1>1, FS_AddElement
<1>3. Cardinality(Mines \cup {g}) \in Nat
  BY <1>2, FS_CardinalityType
<1>4. /\ IsFiniteSet(Mines')
      /\ Cardinality(Mines') <= Cardinality(Mines \cup {g})
  BY <1>2, FS_Subset
<1>5. Cardinality(Mines') \in Nat
  BY <1>4, FS_CardinalityType
<1> QED
  BY <1>1, <1>2, <1>3, <1>4, <1>5 DEF RefreshCounted

\* A call goes on or ends with a refresh.
LEMMA OneReplaced ==
  ASSUME RefreshCounted, NEW f \in Mines, ops \in Nat, ops' = ops,
         \/ fieldsRefresh' = fieldsRefresh + 1 /\ Mines' \subseteq Mines \ {f}
         \/ /\ fieldsRefresh' = fieldsRefresh
            /\ \E g : Mines' \subseteq (Mines \ {f}) \cup {g}
  PROVE  RefreshCounted'
<1>1. IsFiniteSet(Mines) /\ Cardinality(Mines) \in Nat
  BY FS_CardinalityType DEF RefreshCounted
<1>2. /\ IsFiniteSet(Mines \ {f})
      /\ Cardinality(Mines \ {f}) = Cardinality(Mines) - 1
  BY <1>1, FS_RemoveElement
<1>3. CASE fieldsRefresh' = fieldsRefresh + 1 /\ Mines' \subseteq Mines \ {f}
  <2>1. IsFiniteSet(Mines') /\ Cardinality(Mines') <= Cardinality(Mines \ {f})
    BY <1>2, <1>3, FS_Subset
  <2>2. Cardinality(Mines') \in Nat
    BY <2>1, FS_CardinalityType
  <2> QED
    BY <1>1, <1>2, <1>3, <2>1, <2>2 DEF RefreshCounted
<1>4. CASE /\ fieldsRefresh' = fieldsRefresh
           /\ \E g : Mines' \subseteq (Mines \ {f}) \cup {g}
  <2>1. PICK g : Mines' \subseteq (Mines \ {f}) \cup {g}
    BY <1>4
  <2>2. /\ IsFiniteSet((Mines \ {f}) \cup {g})
        /\ Cardinality((Mines \ {f}) \cup {g}) <= Cardinality(Mines)
    <3>1. \/ Cardinality((Mines \ {f}) \cup {g}) = Cardinality(Mines \ {f})
          \/ Cardinality((Mines \ {f}) \cup {g}) = Cardinality(Mines \ {f}) + 1
      BY <1>2, FS_AddElement
    <3>2. IsFiniteSet((Mines \ {f}) \cup {g})
      BY <1>2, FS_AddElement
    <3> QED
      BY <1>1, <1>2, <3>1, <3>2
  <2>3. Cardinality((Mines \ {f}) \cup {g}) \in Nat
    BY <2>2, FS_CardinalityType
  <2>4. /\ IsFiniteSet(Mines')
        /\ Cardinality(Mines') <= Cardinality((Mines \ {f}) \cup {g})
    BY <2>1, <2>2, FS_Subset
  <2>5. Cardinality(Mines') \in Nat
    BY <2>4, FS_CardinalityType
  <2> QED
    BY <1>1, <1>4, <2>2, <2>3, <2>4, <2>5 DEF RefreshCounted
<1> QED
  BY <1>3, <1>4

\* What fetchLogs sets before it waits has its type.
LEMMA FetchTyped ==
  ASSUME IInv, Typed, NEW page \in 0..MaxPage, NEW f, NEW others \in SUBSET fetches,
         Fetch(page, f, others), fieldsRefresh' = fieldsRefresh
  PROVE  ResultTypes' /\ FetchTypes' /\ RefreshCounted' /\ overlapped' \in BOOLEAN
<1> DEFINE new == [op |-> NewOp, page |-> page, kept |-> hits, got |-> FALSE,
                   gone |-> FALSE]
<1>1. fetches' = others \cup {new} /\ ops < MaxOps
  BY DEF Fetch
<1>2. ops \in Nat /\ ops' = ops + 1 /\ NewOp = ops + 1
  <2>1. asked \in Seq(Asked) /\ asked' = Append(asked, [form |-> f, tail |-> FALSE])
    BY DEF Fetch, IInv, FormsTyped
  <2> QED
    BY <2>1 DEF ops, NewOp
<1>3. new \in Fetches
  <2>1. NewOp \in Op /\ hits \in 0..MaxOps
    BY <1>1, <1>2, Bounds DEF Op, Typed, ResultTypes
  <2> QED
    BY <2>1 DEF Fetches
<1> HIDE DEF new
<1>4. FetchTypes'
  BY <1>1, <1>2, <1>3, Bounds DEF Typed, FetchTypes
<1>5. Mines' \subseteq Mines \cup {new}
  BY <1>1 DEF Mines, Mine
<1>6. RefreshCounted'
  BY <1>2, <1>5, OneMore DEF Typed
<1>7. ResultTypes'
  BY DEF Fetch, Typed, ResultTypes
<1>8. overlapped' \in BOOLEAN
  BY DEF Fetch
<1> QED
  BY <1>4, <1>6, <1>7, <1>8

\* So has what the panel's effect sets.
LEMMA PanelTyped ==
  ASSUME FieldTypes, NEW d \in Datasource \cup {""}, NEW key \in 0..MaxOps,
         PanelEffect(d, key)
  PROVE  FieldTypes'
<1>1. CASE UNCHANGED <<panel, fieldAsks>>
  BY <1>1 DEF FieldTypes
<1>2. CASE /\ panel' = [panel EXCEPT !.busy = TRUE, !.failed = FALSE]
           /\ fieldAsks' = Cancelled \cup {[key |-> <<d, key>>, cancelled |-> FALSE]}
  <2>1. panel' \in Panels
    BY <1>2 DEF FieldTypes, Panels
  <2>2. Cancelled \subseteq Asks
    BY DEF FieldTypes, Cancelled, Asks
  <2>3. [key |-> <<d, key>>, cancelled |-> FALSE] \in Asks
    BY DEF Asks, Key
  <2> QED
    BY <1>2, <2>1, <2>2, <2>3 DEF FieldTypes
<1> QED
  BY <1>1, <1>2 DEF PanelEffect

\* An edit that is no export leaves room for those in flight.
LEMMA ExportsKept ==
  ASSUME ExportTypes, export' = export, edits' = edits \/ Edit
  PROVE  ExportTypes'
<1>1. CASE edits' = edits
  BY <1>1 DEF ExportTypes
<1>2. CASE Edit
  <2>1. edits < MaxEdits /\ edits' = edits + 1 /\ edits \in 0..MaxEdits
    BY <1>2 DEF Edit, ExportTypes
  <2>2. edits' \in 0..MaxEdits /\ edits \in Nat
    BY <2>1, Bounds
  <2> QED
    BY <2>1, <2>2 DEF ExportTypes
<1> QED
  BY <1>1, <1>2

\* A step that touches neither calls nor refreshes.
LEMMA SameCalls ==
  ASSUME IInv, Typed, UNCHANGED <<fetches, fieldsRefresh, asked>>
  PROVE  FetchTypes' /\ RefreshCounted'
<1>1. ops' = ops /\ Mines' = Mines
  BY DEF ops, Mines, Mine
<1> QED
  BY <1>1 DEF Typed, FetchTypes, RefreshCounted

\* A new form, with the search that may follow.
LEMMA NewFormTyped ==
  ASSUME IInv, Typed, NEW f \in Form, NewForm(f), dsAsked' \in BOOLEAN,
         edits' = edits \/ Edit
  PROVE  Typed'
<1>1. UNCHANGED <<at, sidePanel, fieldsRefresh, export>>
  BY DEF NewForm, address
<1>2. FieldTypes'
  <2>1. f.ds \in Datasource \cup {""}
    BY DEF Form
  <2>2. fieldsRefresh \in 0..MaxOps
    <3>1. ops \in Nat /\ ops <= MaxOps
      BY DEF Typed, FetchTypes, IInv, FormsTyped, ops
    <3> QED
      BY <3>1, RefreshBound DEF Typed
  <2> QED
    BY <2>1, <2>2, PanelTyped DEF NewForm, Typed
<1>3. ExportTypes'
  BY <1>1, ExportsKept DEF Typed
<1>4. CASE autoRan' = TRUE /\ Fetch(0, f, fetches)
  <2>1. 0 \in 0..MaxPage
    BY Bounds
  <2>2. ResultTypes' /\ FetchTypes' /\ RefreshCounted' /\ overlapped' \in BOOLEAN
    BY <1>1, <1>4, <2>1, FetchTyped
  <2> QED
    BY <1>1, <1>2, <1>3, <1>4, <2>2 DEF Typed, PageTypes
<1>5. CASE UNCHANGED <<autoRan, results, tail, fetches, history>>
  <2>1. FetchTypes' /\ RefreshCounted'
    BY <1>1, <1>5, SameCalls DEF history
  <2> QED
    BY <1>1, <1>2, <1>3, <1>5, <2>1
       DEF Typed, PageTypes, ResultTypes, results, history
<1> QED
  BY <1>4, <1>5 DEF NewForm

\* A search by a click or a key.
LEMMA UserFetchTyped ==
  ASSUME IInv, Typed, NEW page \in 0..MaxPage, NEW f, UserFetch(page, f)
  PROVE  Typed'
<1>1. UNCHANGED <<at, autoRan, dsAsked, sidePanel, fieldsRefresh, panel, fieldAsks,
                  export, edits>>
  BY DEF UserFetch, address, fields
<1>2. ResultTypes' /\ FetchTypes' /\ RefreshCounted' /\ overlapped' \in BOOLEAN
  BY <1>1, FetchTyped DEF UserFetch
<1> QED
  BY <1>1, <1>2, ExportsKept DEF Typed, PageTypes, FieldTypes

\* The form and the list of datasources.
LEMMA FormStepsTyped ==
  ASSUME IInv, Typed, \/ TypeQuery \/ PickRange \/ PickDatasource \/ TakeSaved
                      \/ TakeHistory \/ DatasourcesArrive
  PROVE  Typed'
<1>0. /\ form \in Form /\ form.ds \in Datasource \cup {""}
      /\ Listed \subseteq Datasource /\ dsAsked \in BOOLEAN
  BY ViewerAssumption DEF IInv, FormsTyped, Form, Typed, PageTypes
<1> USE FormFields, NewFormTyped
<1>1. CASE TypeQuery
  BY <1>0, <1>1 DEF TypeQuery
<1>2. CASE PickRange
  BY <1>0, <1>2 DEF PickRange
<1>3. CASE PickDatasource
  BY <1>0, <1>3 DEF PickDatasource
<1>4. CASE TakeSaved
  BY <1>0, <1>4 DEF TakeSaved
<1>5. CASE TakeHistory
  BY <1>0, <1>5 DEF TakeHistory
<1>6. CASE DatasourcesArrive
  BY <1>0, <1>6 DEF DatasourcesArrive
<1> QED
  BY <1>1, <1>2, <1>3, <1>4, <1>5, <1>6

\* The searches: a page is one of those there are.
LEMMA SearchesTyped ==
  ASSUME IInv, Typed, \/ Search \/ PressEnter \/ PrevPage \/ NextPage
                      \/ ToggleSort \/ ZoomTo \/ AddFilter
  PROVE  Typed'
<1>0. 0 \in 0..MaxPage
  BY Bounds
<1>1. info.page \in 0..MaxPage /\ (info.hasMore => info.page < MaxPage)
  BY DEF Typed, ResultTypes, Infos
<1> USE UserFetchTyped
<1>2. CASE Search \/ PressEnter
  BY <1>0, <1>2 DEF Search, PressEnter
<1>3. CASE PrevPage
  <2>1. info.page - 1 \in 0..MaxPage
    BY <1>1, <1>3, Bounds DEF PrevPage
  <2> QED
    BY <1>3, <2>1 DEF PrevPage
<1>4. CASE NextPage
  <2>1. info.page + 1 \in 0..MaxPage
    BY <1>1, <1>4, Bounds DEF NextPage
  <2> QED
    BY <1>4, <2>1 DEF NextPage
<1>5. CASE ToggleSort \/ ZoomTo \/ AddFilter
  BY <1>0, <1>5 DEF ToggleSort, ZoomTo, AddFilter
<1> QED
  BY <1>2, <1>3, <1>4, <1>5

\* A row of a tail goes on top, and the last may fall off.
LEMMA RowOnTop ==
  ASSUME NEW S, NEW s \in Seq(S), NEW e \in S, NEW k \in 1..(Len(s) + 1)
  PROVE  LET t == SubSeq(<<e>> \o s, 1, k)
         IN  /\ t \in Seq(S) /\ Len(t) = k /\ t[1] = e
             /\ \A i \in 2..k : i - 1 \in 1..Len(s) /\ t[i] = s[i - 1]
<1> DEFINE u == <<e>> \o s
<1>1. Len(s) \in Nat /\ s \in [1..Len(s) -> S]
  OBVIOUS
<1>2. u \in Seq(S) /\ Len(u) = Len(s) + 1
  OBVIOUS
<1>3. u[1] = e /\ \A i \in 2..Len(u) : u[i] = s[i - 1]
  BY <1>1, <1>2
<1> HIDE DEF u
<1>4. SubSeq(u, 1, k) \in Seq(S) /\ Len(SubSeq(u, 1, k)) = k
  BY <1>1, <1>2
<1>5. \A i \in 1..k : SubSeq(u, 1, k)[i] = u[i]
  BY <1>1, <1>2
<1> QED
  BY <1>1, <1>2, <1>3, <1>4, <1>5 DEF u

\* How many rows there are after one more.
LEMMA RowsCapped ==
  ASSUME NEW n \in Nat, n <= MaxRows,
         NEW k, k = IF n < MaxRows THEN n + 1 ELSE MaxRows
  PROVE  k \in 1..(n + 1) /\ k <= MaxRows
  BY Bounds

\* The rows of an answer are few enough.
LEMMA FewRows ==
  /\ <<>> \in Seq(Op) /\ Len(<<>>) <= MaxRows
  /\ \A n \in Op : <<n>> \in Seq(Op) /\ Len(<<n>>) <= MaxRows
  /\ 0 \in 0..MaxOps /\ Op \subseteq 0..MaxOps
<1>1. <<>> \in Seq(Op) /\ Len(<<>>) = 0
  OBVIOUS
<1>2. \A n \in Op : <<n>> \in Seq(Op) /\ Len(<<n>>) = 1
  OBVIOUS
<1>3. 0 \in 0..MaxOps /\ Op \subseteq 0..MaxOps
  BY Bounds DEF Op
<1> QED
  BY <1>1, <1>2, <1>3, Bounds

\* Answers to searches.
LEMMA AnswersTyped ==
  ASSUME IInv, Typed, LogsArrive \/ HitsArrive \/ FetchFails
  PROVE  Typed'
<1>0. ops \in Nat
  BY DEF IInv, FormsTyped, ops
<1>1. CASE LogsArrive
  <2>1. PICK f \in fetches :
          /\ Mine(f)
          /\ logs' \in {<<>>, <<f.op>>}
          /\ \E more \in BOOLEAN :
               /\ more => f.page < MaxPage
               /\ info' = [by |-> f.op, page |-> f.page, hasMore |-> more]
          /\ IF f.page = 0
               THEN /\ fetches' = (fetches \ {f}) \cup {[f EXCEPT !.got = TRUE]}
                    /\ UNCHANGED <<hits, loading>>
               ELSE /\ fetches' = fetches \ {f}
                    /\ hits' = f.kept /\ loading' = FALSE
    BY <1>1 DEF LogsArrive
  <2>2. /\ searched' = TRUE
        /\ UNCHANGED <<at, autoRan, dsAsked, error, sidePanel, fieldsRefresh, panel,
                       fieldAsks, export, asked, overlapped, edits>>
    BY <1>1 DEF LogsArrive, address, fields, history
  <2>3. f \in Fetches /\ [f EXCEPT !.got = TRUE] \in Fetches
    BY DEF Typed, FetchTypes, Fetches
  <2>4. f.op \in Op /\ f.page \in 0..MaxPage /\ f.kept \in 0..MaxOps
    BY <2>3 DEF Fetches
  <2>5. ResultTypes'
    <3>1. logs' \in Seq(Op) /\ Len(logs') <= MaxRows
      BY <2>1, <2>4, FewRows
    <3>2. info' \in Infos /\ (info'.hasMore => info'.page < MaxPage)
      BY <2>1, <2>4, Bounds DEF Infos, Op
    <3>3. hits' \in 0..MaxOps /\ loading' \in BOOLEAN
      BY <2>1, <2>4 DEF Typed, ResultTypes
    <3> QED
      BY <2>2, <3>1, <3>2, <3>3 DEF Typed, ResultTypes
  <2>6. FetchTypes' /\ ops' = ops
    BY <2>1, <2>2, <2>3 DEF Typed, FetchTypes, ops
  <2>7. Mines' \subseteq (Mines \ {f}) \cup {[f EXCEPT !.got = TRUE]} /\ f \in Mines
    BY <2>1 DEF Mines, Mine
  <2>8. RefreshCounted'
    BY <1>0, <2>2, <2>6, <2>7, OneReplaced DEF Typed
  <2> QED
    BY <2>2, <2>5, <2>6, <2>8, ExportsKept DEF Typed, PageTypes, FieldTypes
<1>2. CASE HitsArrive
  <2>1. PICK f \in fetches :
          /\ Mine(f)
          /\ hits' \in {0, f.op}
          /\ fieldsRefresh' = fieldsRefresh + 1
          /\ PanelEffect(form.ds, fieldsRefresh')
          /\ loading' = FALSE
          /\ fetches' = fetches \ {f}
    BY <1>2 DEF HitsArrive
  <2>2. UNCHANGED <<at, autoRan, dsAsked, error, searched, info, logs, sidePanel,
                    export, asked, overlapped, edits>>
    BY <1>2 DEF HitsArrive, history
  <2>3. f.op \in Op
    BY DEF Typed, FetchTypes, Fetches
  <2>4. ResultTypes'
    <3>1. hits' \in 0..MaxOps
      BY <2>1, <2>3, FewRows
    <3> QED
      BY <2>1, <2>2, <3>1 DEF Typed, ResultTypes
  <2>5. FetchTypes' /\ ops' = ops
    BY <2>1, <2>2 DEF Typed, FetchTypes, ops
  <2>6. Mines' \subseteq Mines \ {f} /\ f \in Mines
    BY <2>1 DEF Mines, Mine
  <2>7. RefreshCounted'
    BY <1>0, <2>1, <2>5, <2>6, OneReplaced DEF Typed
  <2>8. FieldTypes'
    <3>1. fieldsRefresh' \in 0..MaxOps
      <4>1. IsFiniteSet(Mines') /\ fieldsRefresh' \in Nat
            /\ fieldsRefresh' + Cardinality(Mines') <= ops
        BY <2>5, <2>7 DEF RefreshCounted
      <4>2. Cardinality(Mines') \in Nat
        BY <4>1, FS_CardinalityType
      <4> QED
        BY <1>0, <4>1, <4>2, Bounds DEF Typed, FetchTypes
    <3>2. form.ds \in Datasource \cup {""}
      BY DEF IInv, FormsTyped, Form
    <3> QED
      BY <2>1, <3>1, <3>2, PanelTyped DEF Typed
  <2> QED
    BY <2>2, <2>4, <2>5, <2>7, <2>8, ExportsKept DEF Typed, PageTypes
<1>3. CASE FetchFails
  <2>1. PICK f \in fetches : fetches' = fetches \ {f}
    BY <1>3 DEF FetchFails
  <2>2. /\ error' = TRUE /\ logs' = <<>> /\ hits' = 0 /\ loading' = FALSE
        /\ UNCHANGED <<at, autoRan, dsAsked, searched, info, sidePanel, fieldsRefresh,
                       panel, fieldAsks, export, asked, overlapped, edits>>
    BY <1>3 DEF FetchFails, address, fields, history
  <2>3. ResultTypes'
    BY <2>2, FewRows DEF Typed, ResultTypes
  <2>4. FetchTypes' /\ ops' = ops /\ Mines' \subseteq Mines
    BY <2>1, <2>2 DEF Typed, FetchTypes, ops, Mines, Mine
  <2>5. RefreshCounted'
    BY <1>0, <2>2, <2>4, FewerMine DEF Typed
  <2> QED
    BY <2>2, <2>3, <2>4, <2>5, ExportsKept DEF Typed, PageTypes, FieldTypes
<1> QED
  BY <1>1, <1>2, <1>3

\* The live tail.
LEMMA TailStepsTyped ==
  ASSUME IInv, Typed, StartTail \/ StopTail \/ TailRow \/ TailSettles
  PROVE  Typed'
<1>0. asked \in Seq(Asked) /\ ops \in Nat
  BY DEF IInv, FormsTyped, ops
<1>1. CASE StartTail
  <2>1. /\ ops < MaxOps /\ asked' = Append(asked, [form |-> form, tail |-> TRUE])
        /\ logs' = <<>> /\ hits' = 0 /\ searched' = TRUE /\ error' = FALSE
        /\ overlapped' = (overlapped \/ fetches # {})
        /\ UNCHANGED <<at, autoRan, dsAsked, loading, info, sidePanel, fieldsRefresh,
                       panel, fieldAsks, fetches, export, edits>>
    BY <1>1 DEF StartTail, address, fields
  <2>2. ops' = ops + 1
    BY <1>0, <2>1 DEF ops
  <2>3. ResultTypes'
    BY <2>1, FewRows DEF Typed, ResultTypes
  <2>4. FetchTypes' /\ Mines' = Mines
    BY <1>0, <2>1, <2>2, Bounds DEF Typed, FetchTypes, Mines, Mine
  <2>5. RefreshCounted'
    BY <1>0, <2>1, <2>2, <2>4, FewerMine DEF Typed
  <2> QED
    BY <2>1, <2>3, <2>4, <2>5, ExportsKept DEF Typed, PageTypes, FieldTypes
<1>2. CASE StopTail
  BY <1>2, SameCalls, ExportsKept
     DEF StopTail, Typed, PageTypes, ResultTypes, FieldTypes, address, results, fields,
         history
<1>3. CASE TailRow
  <2>1. PICK s \in streams :
          logs' = SubSeq(<<s.op>> \o logs, 1,
                         IF Len(logs) < MaxRows THEN Len(logs) + 1 ELSE MaxRows)
    BY <1>3 DEF TailRow
  <2>2. UNCHANGED <<at, autoRan, dsAsked, loading, error, searched, info, hits,
                    sidePanel, fieldsRefresh, panel, fieldAsks, fetches, export,
                    asked, overlapped, edits>>
    BY <1>3 DEF TailRow, address, fields, history
  <2>3. s.op \in Op /\ logs \in Seq(Op) /\ Len(logs) \in Nat /\ Len(logs) <= MaxRows
    <3>1. s.op \in 1..ops /\ ops <= MaxOps
      BY DEF IInv, StreamsAsked, Typed, FetchTypes
    <3> QED
      BY <1>0, <3>1, Bounds DEF Op, Typed, ResultTypes
  <2> DEFINE k == IF Len(logs) < MaxRows THEN Len(logs) + 1 ELSE MaxRows
  <2>4. k \in 1..(Len(logs) + 1) /\ k <= MaxRows
    BY <2>3, RowsCapped
  <2>5. logs' = SubSeq(<<s.op>> \o logs, 1, k)
    BY <2>1
  <2> HIDE DEF k
  <2>6. logs' \in Seq(Op) /\ Len(logs') <= MaxRows
    BY <2>3, <2>4, <2>5, RowOnTop
  <2> QED
    BY <2>2, <2>6, SameCalls, ExportsKept DEF Typed, PageTypes, ResultTypes, FieldTypes
<1>4. CASE TailSettles
  <2>1. PICK s \in streams : error' \in {error, error \/ ~s.aborted}
    BY <1>4 DEF TailSettles
  <2>2. UNCHANGED <<at, autoRan, dsAsked, loading, searched, info, logs, hits,
                    sidePanel, fieldsRefresh, panel, fieldAsks, fetches, export,
                    asked, overlapped, edits>>
    BY <1>4 DEF TailSettles, address, fields, history
  <2>3. error' \in BOOLEAN
    BY <2>1 DEF Typed, ResultTypes
  <2> QED
    BY <2>2, <2>3, SameCalls, ExportsKept DEF Typed, PageTypes, ResultTypes, FieldTypes
<1> QED
  BY <1>1, <1>2, <1>3, <1>4

\* The panel that has been asked for nothing.
LEMMA EmptyPanel == NoPanel \in Panels
<1>1. 0 \in 0..MaxOps
  BY FewRows
<1>2. NoKey \in Key
  BY <1>1 DEF NoKey, Key
<1> QED
  BY <1>2 DEF NoPanel, Panels

\* The fields panel and the button of the export.
LEMMA PanelStepsTyped ==
  ASSUME IInv, Typed, OpenFields \/ OpenOther \/ FieldsArrive \/ HandleExport
  PROVE  Typed'
<1>0. NoPanel \in Panels /\ form.ds \in Datasource \cup {""}
      /\ fieldsRefresh \in 0..MaxOps
  <2>1. NoPanel \in Panels
    BY EmptyPanel
  <2>2. form.ds \in Datasource \cup {""}
    BY DEF IInv, FormsTyped, Form
  <2>3. ops \in Nat /\ ops <= MaxOps
    BY DEF Typed, FetchTypes, IInv, FormsTyped, ops
  <2> QED
    BY <2>1, <2>2, <2>3, RefreshBound DEF Typed
<1>1. CASE OpenFields
  <2>1. /\ sidePanel' = "fields"
        /\ UNCHANGED <<at, autoRan, dsAsked, loading, error, searched, info, logs, hits,
                       fieldsRefresh, fetches, export, asked, overlapped>>
    BY <1>1 DEF OpenFields, address, results, history
  <2>2. FieldTypes'
    <3>1. [key |-> <<form.ds, fieldsRefresh>>, cancelled |-> FALSE] \in Asks
      BY <1>0 DEF Asks, Key
    <3>2. [NoPanel EXCEPT !.busy = TRUE] \in Panels
      BY <1>0 DEF Panels
    <3> QED
      BY <1>1, <3>1, <3>2 DEF OpenFields, Typed, FieldTypes
  <2>3. ExportTypes'
    BY <1>1, <2>1, ExportsKept DEF OpenFields, Typed
  <2> QED
    BY <2>1, <2>2, <2>3, SameCalls DEF Typed, PageTypes, ResultTypes
<1>2. CASE OpenOther
  <2>1. /\ sidePanel' = "saved" /\ panel' = NoPanel /\ fieldAsks' = Cancelled
        /\ UNCHANGED <<at, autoRan, dsAsked, loading, error, searched, info, logs, hits,
                       fieldsRefresh, fetches, export, asked, overlapped, edits>>
    BY <1>2 DEF OpenOther, address, results, history
  <2>2. FieldTypes'
    BY <1>0, <2>1 DEF Cancelled, Typed, FieldTypes, Asks
  <2> QED
    BY <2>1, <2>2, SameCalls, ExportsKept DEF Typed, PageTypes, ResultTypes
<1>3. CASE FieldsArrive
  <2>1. PICK a \in fieldAsks :
          /\ fieldAsks' = fieldAsks \ {a}
          /\ \/ UNCHANGED panel
             \/ panel' = [panel EXCEPT !.busy = FALSE, !.shows = a.key]
             \/ panel' = [panel EXCEPT !.busy = FALSE, !.failed = TRUE]
    BY <1>3 DEF FieldsArrive
  <2>2. UNCHANGED <<at, autoRan, dsAsked, loading, error, searched, info, logs, hits,
                    sidePanel, fieldsRefresh, fetches, export, asked, overlapped,
                    edits>>
    BY <1>3 DEF FieldsArrive, address, results, history
  <2>3. FieldTypes'
    <3>1. a.key \in Key /\ panel \in Panels
      BY DEF Typed, FieldTypes, Asks
    <3>2. panel' \in Panels
      BY <2>1, <3>1 DEF Panels
    <3> QED
      BY <2>1, <3>2 DEF Typed, FieldTypes
  <2> QED
    BY <2>2, <2>3, SameCalls, ExportsKept DEF Typed, PageTypes, ResultTypes
<1>4. CASE HandleExport
  <2>1. /\ ~export.busy /\ export' = [export EXCEPT !.busy = TRUE]
        /\ edits < MaxEdits /\ edits' = edits + 1
        /\ UNCHANGED <<at, autoRan, dsAsked, loading, error, searched, info, logs, hits,
                       sidePanel, fieldsRefresh, panel, fieldAsks, fetches, asked,
                       overlapped>>
    BY <1>4 DEF HandleExport, Edit, address, results, fields, history
  <2>2. ExportTypes'
    <3>1. /\ export \in [busy : BOOLEAN, late : Nat] /\ edits \in 0..MaxEdits
          /\ export.late <= edits
      BY <2>1 DEF Typed, ExportTypes
    <3>2. export' \in [busy : BOOLEAN, late : Nat] /\ export'.busy
          /\ export'.late = export.late
      BY <2>1, <3>1
    <3>3. export.late \in Nat /\ edits \in Nat /\ edits' \in 0..MaxEdits
      BY <2>1, <3>1, Bounds
    <3> QED
      BY <2>1, <3>1, <3>2, <3>3 DEF ExportTypes
  <2> QED
    BY <2>1, <2>2, SameCalls DEF Typed, PageTypes, ResultTypes, FieldTypes
<1> QED
  BY <1>1, <1>2, <1>3, <1>4

\* A page that is left loses its state.
LEMMA UnmountTyped ==
  ASSUME IInv, Typed, Unmount
  PROVE  PageTypes' /\ ResultTypes' /\ FetchTypes' /\ FieldTypes' /\ RefreshCounted'
<1>1. PageTypes'
  BY DEF Unmount, Typed, PageTypes, history
<1>2. ResultTypes'
  <2>1. NoInfo \in Infos /\ ~NoInfo.hasMore
    BY Bounds DEF NoInfo, Infos
  <2> QED
    BY <2>1, FewRows DEF Unmount, ResultTypes
<1>3. fetches' = {[f EXCEPT !.gone = TRUE] : f \in fetches} /\ ops' = ops
  BY DEF Unmount, history, ops
<1>4. FetchTypes'
  BY <1>3 DEF Typed, FetchTypes, Fetches
<1>5. FieldTypes'
  BY EmptyPanel DEF Unmount, Typed, FieldTypes, Cancelled, Asks
<1>6. RefreshCounted'
  <2>1. Mines' = {}
    <3>1. \A f \in fetches : [f EXCEPT !.gone = TRUE].gone
      BY DEF Typed, FetchTypes, Fetches
    <3> QED
      BY <1>3, <3>1 DEF Mines, Mine
  <2>2. fieldsRefresh' = 0 /\ ops \in Nat
    BY DEF Unmount, IInv, FormsTyped, ops
  <2> QED
    BY <1>3, <2>1, <2>2, FS_EmptySet DEF RefreshCounted
<1> QED
  BY <1>1, <1>2, <1>4, <1>5, <1>6

\* A page that comes, and searches by itself or does not.
LEMMA MountTyped ==
  ASSUME IInv, Typed, NEW u, NEW others \in SUBSET fetches, Mount(u, others),
         UNCHANGED fields, export' = export, edits' = edits
  PROVE  Typed'
<1>0. asked \in Seq(Asked) /\ ops \in Nat
  BY DEF IInv, FormsTyped, ops
<1>1. /\ UNCHANGED <<sidePanel, fieldsRefresh, panel, fieldAsks>>
      /\ at' = "viewer" /\ dsAsked' = TRUE /\ autoRan' \in BOOLEAN
  BY DEF Mount, fields
<1>2. CASE Fetch(0, FromUrl(u), others)
  <2>1. 0 \in 0..MaxPage
    BY Bounds
  <2>2. ResultTypes' /\ FetchTypes' /\ RefreshCounted' /\ overlapped' \in BOOLEAN
    BY <1>1, <1>2, <2>1, FetchTyped
  <2> QED
    BY <1>1, <2>2, ExportsKept DEF Typed, PageTypes, FieldTypes
<1>3. CASE fetches' = others /\ UNCHANGED <<results, tail, history>>
  <2>1. FetchTypes' /\ ops' = ops /\ Mines' \subseteq Mines
    BY <1>3 DEF Typed, FetchTypes, history, ops, Mines, Mine
  <2>2. RefreshCounted'
    BY <1>0, <1>1, <2>1, FewerMine DEF Typed
  <2> QED
    BY <1>1, <1>3, <2>1, <2>2, ExportsKept
       DEF Typed, PageTypes, ResultTypes, FieldTypes, results, history
<1> QED
  BY <1>2, <1>3 DEF Mount

\* Leaving, returning, and what arrives later.
LEMMA PageStepsTyped ==
  ASSUME IInv, Typed, \/ Leave \/ Return \/ LateAnswer \/ ExportArrives \/ LateExport
  PROVE  Typed'
<1>0. /\ export \in [busy : BOOLEAN, late : Nat] /\ edits \in 0..MaxEdits
      /\ export.late + (IF export.busy THEN 1 ELSE 0) <= edits
      /\ edits \in Nat /\ export.late \in Nat
  BY Bounds DEF Typed, ExportTypes
<1>1. CASE Leave
  <2>1. /\ export' = [export EXCEPT !.busy = FALSE,
                                    !.late = IF export.busy THEN @ + 1 ELSE @]
        /\ edits' = edits /\ Unmount
    BY <1>1 DEF Leave
  <2>2. ExportTypes'
    <3>1. CASE export.busy
      <4>1. export' = [busy |-> FALSE, late |-> export.late + 1]
        BY <1>0, <2>1, <3>1
      <4>2. export.late + 1 <= edits /\ edits' = edits
        BY <1>0, <2>1, <3>1
      <4>3. export'.late + (IF export'.busy THEN 1 ELSE 0) = export.late + 1
        BY <1>0, <4>1
      <4>4. export' \in [busy : BOOLEAN, late : Nat]
        BY <1>0, <4>1
      <4> QED
        BY <1>0, <4>2, <4>3, <4>4 DEF ExportTypes
    <3>2. CASE ~export.busy
      <4>1. export' = [busy |-> FALSE, late |-> export.late]
        BY <1>0, <2>1, <3>2
      <4> QED
        BY <1>0, <2>1, <3>2, <4>1 DEF ExportTypes
    <3> QED
      BY <3>1, <3>2
  <2> QED
    BY <2>1, <2>2, UnmountTyped DEF Typed
<1>2. CASE Return
  BY <1>2, MountTyped DEF Return
<1>3. CASE LateAnswer
  <2>1. PICK f \in fetches :
          \/ /\ fetches' = fetches \ {f}
             /\ UNCHANGED <<at, autoRan, dsAsked, results, history>>
          \/ \E u : Mount(u, fetches \ {f})
    BY <1>3 DEF LateAnswer, address
  <2>2. UNCHANGED fields /\ export' = export /\ edits' = edits
    BY <1>3 DEF LateAnswer
  <2>3. CASE \E u : Mount(u, fetches \ {f})
    BY <2>2, <2>3, MountTyped
  <2>4. CASE /\ fetches' = fetches \ {f}
             /\ UNCHANGED <<at, autoRan, dsAsked, results, history>>
    <3>1. /\ FetchTypes' /\ ops' = ops /\ Mines' \subseteq Mines
          /\ fieldsRefresh' = fieldsRefresh /\ ops \in Nat
      BY <2>2, <2>4
         DEF Typed, FetchTypes, history, ops, Mines, Mine, IInv, FormsTyped, fields
    <3>2. RefreshCounted'
      BY <3>1, FewerMine DEF Typed
    <3> QED
      BY <2>2, <2>4, <3>1, <3>2, ExportsKept
         DEF Typed, PageTypes, ResultTypes, FieldTypes, results, history, fields
  <2> QED
    BY <2>1, <2>3, <2>4
<1>4. CASE ExportArrives \/ LateExport
  <2>1. ExportTypes'
    <3>1. CASE ExportArrives
      <4>1. export.busy /\ export' = [busy |-> FALSE, late |-> export.late]
            /\ edits' = edits
        BY <1>0, <3>1 DEF ExportArrives
      <4> QED
        BY <1>0, <4>1 DEF ExportTypes
    <3>2. CASE LateExport
      <4>1. /\ export.late > 0 /\ edits' = edits
            /\ export' = [busy |-> export.busy, late |-> export.late - 1]
        BY <1>0, <3>2 DEF LateExport
      <4> QED
        BY <1>0, <4>1 DEF ExportTypes
    <3> QED
      BY <1>4, <3>1, <3>2
  <2>2. CASE Unmount
    BY <2>1, <2>2, UnmountTyped DEF Typed
  <2>3. CASE UNCHANGED <<address, form, autoRan, dsAsked, results, tail, fields,
                         fetches, history>>
    <3>1. UNCHANGED <<at, autoRan, dsAsked, loading, error, searched, info, logs, hits,
                      sidePanel, fieldsRefresh, panel, fieldAsks, fetches, asked,
                      overlapped>>
      BY <2>3 DEF address, results, fields, history
    <3> QED
      BY <2>1, <3>1, SameCalls DEF Typed, PageTypes, ResultTypes, FieldTypes
  <2> QED
    BY <1>4, <2>2, <2>3 DEF ExportArrives, LateExport
<1> QED
  BY <1>1, <1>2, <1>3, <1>4

\* The first state has its types: its search is the one operation there is.
LEMMA InitTyped == Init => Typed
<1> SUFFICES ASSUME Init PROVE Typed
  OBVIOUS
<1>0. IInv
  BY InitInv
<1>1. PageTypes /\ ExportTypes
  <2>1. autoRan \in BOOLEAN /\ loading \in BOOLEAN
    BY DEF Init
  <2>2. /\ at = "viewer" /\ dsAsked = TRUE /\ sidePanel = "saved"
        /\ overlapped = FALSE /\ edits = 0
        /\ export = [busy |-> FALSE, late |-> 0]
    BY DEF Init
  <2>3. edits \in 0..MaxEdits
    BY <2>2, Bounds
  <2>4. export \in [busy : BOOLEAN, late : Nat] /\ ~export.busy /\ export.late = 0
    BY <2>2
  <2>5. ExportTypes
    BY <2>2, <2>3, <2>4 DEF ExportTypes
  <2> QED
    BY <2>1, <2>2, <2>5 DEF PageTypes
<1>2. ResultTypes
  <2>1. NoInfo \in Infos /\ ~NoInfo.hasMore
    BY Bounds DEF NoInfo, Infos
  <2> QED
    BY <2>1, FewRows DEF Init, ResultTypes
<1>3. FieldTypes
  BY EmptyPanel DEF Init, FieldTypes
<1> DEFINE new == [op |-> 1, page |-> 0, kept |-> 0, got |-> FALSE, gone |-> FALSE]
<1>4. \/ fetches = {} /\ asked = <<>>
      \/ fetches = {new} /\ \E e : asked = <<e>>
  BY DEF Init
<1>5. new \in Fetches
  BY Bounds DEF Fetches, Op
<1> HIDE DEF new
<1>6. FetchTypes
  BY <1>4, <1>5, Bounds DEF FetchTypes, ops
<1>7. RefreshCounted
  <2>1. fieldsRefresh = 0
    BY DEF Init
  <2>2. CASE fetches = {} /\ asked = <<>>
    <3>1. Mines = {}
      BY <2>2 DEF Mines
    <3> QED
      BY <2>1, <2>2, <3>1, FS_EmptySet DEF RefreshCounted, ops
  <2>3. CASE fetches = {new} /\ \E e : asked = <<e>>
    <3>1. Mines \subseteq {new} /\ ops = 1
      BY <2>3 DEF Mines, ops
    <3>2. IsFiniteSet({new}) /\ Cardinality({new}) = 1
      BY FS_Singleton
    <3>3. IsFiniteSet(Mines) /\ Cardinality(Mines) <= 1
      BY <3>1, <3>2, FS_Subset
    <3>4. Cardinality(Mines) \in Nat
      BY <3>3, FS_CardinalityType
    <3> QED
      BY <2>1, <3>1, <3>3, <3>4 DEF RefreshCounted
  <2> QED
    BY <1>4, <2>2, <2>3
<1> QED
  BY <1>1, <1>2, <1>3, <1>6, <1>7 DEF Typed

\* Every step keeps the types.
LEMMA NextTyped == IInv /\ Typed /\ [Next]_vars => Typed'
<1> SUFFICES ASSUME IInv, Typed, [Next]_vars PROVE Typed'
  OBVIOUS
<1>1. CASE UNCHANGED vars
  <2>1. UNCHANGED <<at, autoRan, dsAsked, loading, error, searched, info, logs, hits,
                    sidePanel, fieldsRefresh, panel, fieldAsks, fetches, asked,
                    overlapped, export, edits>>
    BY <1>1 DEF vars, address, results, fields, history
  <2> QED
    BY <2>1, SameCalls, ExportsKept DEF Typed, PageTypes, ResultTypes, FieldTypes
<1>2. CASE Next
  BY <1>2, FormStepsTyped, SearchesTyped, AnswersTyped, TailStepsTyped,
     PanelStepsTyped, PageStepsTyped DEF Next, User, Answer
<1> QED
  BY <1>1, <1>2

\* The types are those the runs check.
LEMMA TypesAreChecked == IInv /\ Typed => TypeOK
<1> SUFFICES ASSUME IInv, Typed PROVE TypeOK
  OBVIOUS
<1>1. ops \in Nat /\ ops <= MaxOps /\ asked \in Seq([form : Form, tail : BOOLEAN])
  BY DEF IInv, FormsTyped, ops, Typed, FetchTypes, Asked
<1>2. 1..ops \subseteq Op
  BY <1>1, Bounds DEF Op
<1>3. streams \subseteq [op : Op, aborted : BOOLEAN]
  BY <1>2 DEF IInv, StreamsAsked
<1>4. tailing \in BOOLEAN /\ tailAbort \in 0..MaxOps
  <2>1. tailing = (tailAbort # 0)
        /\ {s.op : s \in {r \in streams : ~r.aborted}} = {tailAbort} \ {0}
    BY DEF IInv, OneLiveTail
  <2>2. tailAbort # 0 => \E s \in streams : s.op = tailAbort
    BY <2>1
  <2>3. tailAbort \in {0} \cup Op
    BY <1>3, <2>2
  <2> QED
    BY <2>1, <2>3, FewRows
<1>5. fieldsRefresh \in 0..MaxOps
  BY <1>1, RefreshBound DEF Typed
<1>6. export \in [busy : BOOLEAN, late : 0..MaxEdits] /\ edits \in 0..MaxEdits
  <2>1. /\ export \in [busy : BOOLEAN, late : Nat] /\ edits \in 0..MaxEdits
        /\ export.late <= edits
    BY DEF Typed, ExportTypes
  <2>2. export.late \in 0..MaxEdits
    BY <2>1, Bounds
  <2> QED
    BY <2>1, <2>2
<1>7. form \in Form /\ url \in Form
  BY DEF IInv, FormsTyped
<1>8. PageTypes /\ ResultTypes /\ FieldTypes /\ fetches \subseteq Fetches
  BY DEF Typed, FetchTypes
<1> QED
  BY <1>1, <1>3, <1>4, <1>5, <1>6, <1>7, <1>8
     DEF TypeOK, PageTypes, ResultTypes, FieldTypes, Fetches, Infos, Panels, Asks

\* Every variable has its type in every reachable state, with the numbers of
\* pages, refreshes and late exports within their bounds.
THEOREM TypeCorrect == Spec => []TypeOK
  BY Invariance, InitTyped, NextTyped, TypesAreChecked, PTL DEF Spec

-----------------------------------------------------------------------------
(* The fields panel *)

\* the requests that are not cancelled ask for what the panel is to show, and
\* there are none while it is closed
PanelInv ==
    /\ at = "elsewhere" => sidePanel = "saved"
    /\ \A a \in fieldAsks : ~a.cancelled =>
         sidePanel = "fields" /\ form.ds # "" /\ a.key = <<form.ds, fieldsRefresh>>
    /\ FieldsAreCurrent

\* A step that concerns neither the panel nor what it shows.
LEMMA PanelStays ==
  ASSUME PanelInv, at' \in {at, "viewer"}, form'.ds = form.ds,
         UNCHANGED <<sidePanel, fieldsRefresh, panel, fieldAsks>>
  PROVE  PanelInv'
  BY DEF PanelInv, FieldsAreCurrent

\* The panel is closed, and its requests are cancelled.
LEMMA PanelIdle ==
  ASSUME sidePanel' = "saved", \A a \in fieldAsks' : a.cancelled
  PROVE  PanelInv'
  BY DEF PanelInv, FieldsAreCurrent

\* What a clean-up cancels is cancelled.
LEMMA AllCancelled == ASSUME FieldTypes PROVE \A a \in Cancelled : a.cancelled
  BY DEF FieldTypes, Asks, Cancelled

\* A new request asks for its key.
LEMMA AskIsFor ==
  ASSUME NEW k, NEW a \in {[key |-> k, cancelled |-> FALSE]} PROVE a.key = k
  OBVIOUS

\* Its effect cancels the old requests when the datasource or the search is
\* another, and asks for the new ones.
LEMMA EffectKeeps ==
  ASSUME PanelInv, FieldTypes, NEW d, NEW n, PanelEffect(d, n),
         sidePanel \in {"saved", "fields"}, d = "" => form.ds = "",
         form'.ds = d, fieldsRefresh' = n, UNCHANGED <<at, sidePanel>>
  PROVE  PanelInv'
<1>1. CASE sidePanel = "saved"
  BY <1>1, PanelIdle DEF PanelInv, PanelEffect
<1>2. CASE sidePanel = "fields" /\ d = form.ds /\ n = fieldsRefresh
  BY <1>2, PanelStays DEF PanelEffect
<1>3. CASE sidePanel = "fields" /\ d = ""
  <2>1. UNCHANGED <<panel, fieldAsks>> /\ form.ds = "" /\ form'.ds = ""
    BY <1>3 DEF PanelEffect
  <2> QED
    BY <1>3, <2>1 DEF PanelInv, FieldsAreCurrent
<1>4. CASE sidePanel = "fields" /\ d # "" /\ (d # form.ds \/ n # fieldsRefresh)
  <2>1. /\ panel' = [panel EXCEPT !.busy = TRUE, !.failed = FALSE]
        /\ fieldAsks' = Cancelled \cup {[key |-> <<d, n>>, cancelled |-> FALSE]}
    BY <1>4 DEF PanelEffect
  <2>2. panel'.busy
    BY <2>1 DEF FieldTypes, Panels
  <2>3. \A a \in fieldAsks' : ~a.cancelled => a.key = <<d, n>>
    <3>1. \A a \in Cancelled : a.cancelled
      BY AllCancelled
    <3>2. \A a \in {[key |-> <<d, n>>, cancelled |-> FALSE]} : a.key = <<d, n>>
      BY AskIsFor
    <3> QED
      BY <2>1, <3>1, <3>2
  <2>4. FieldsAreCurrent'
    BY <2>2 DEF FieldsAreCurrent
  <2>5. at' = "elsewhere" => sidePanel' = "saved"
    BY DEF PanelInv
  <2> QED
    BY <1>4, <2>3, <2>4, <2>5 DEF PanelInv
<1> QED
  BY <1>1, <1>2, <1>3, <1>4

\* The form: no step takes a datasource back.
LEMMA FormStepsPanel ==
  ASSUME IInv, Typed, PanelInv,
         \/ TypeQuery \/ PickRange \/ PickDatasource \/ TakeSaved
         \/ TakeHistory \/ DatasourcesArrive
  PROVE  PanelInv'
<1>0. /\ form \in Form /\ Listed \subseteq Datasource /\ "" \notin Datasource
      /\ FieldTypes /\ sidePanel \in {"saved", "fields"}
  BY ViewerAssumption DEF IInv, FormsTyped, Typed, PageTypes
<1>1. ASSUME NEW f \in Form, NewForm(f), f.ds = "" => form.ds = "" PROVE PanelInv'
  <2>1. form' = f /\ UNCHANGED <<at, sidePanel, fieldsRefresh>>
    BY <1>1 DEF NewForm, address
  <2> QED
    BY <1>0, <1>1, <2>1, EffectKeeps DEF NewForm
<1>2. \E f \in Form : NewForm(f) /\ (f.ds = "" => form.ds = "")
  <2>1. \A q \in Query : [form EXCEPT !.query = q].ds = form.ds
    BY <1>0 DEF Form
  <2>2. \A r \in TimeRange : [form EXCEPT !.range = r].ds = form.ds
    BY <1>0 DEF Form
  <2>3. \A d \in Datasource : [form EXCEPT !.ds = d].ds # ""
    BY <1>0 DEF Form
  <2>4. \A q \in Query, d \in Datasource \cup {form.ds} :
          [form EXCEPT !.query = q, !.ds = d].ds = "" => form.ds = ""
    BY <1>0 DEF Form
  <2>5. form.ds \in Datasource \cup {""}
    BY <1>0 DEF Form
  <2> USE FormFields
  <2>6. CASE TypeQuery
    BY <1>0, <2>1, <2>6 DEF TypeQuery
  <2>7. CASE PickRange
    BY <1>0, <2>2, <2>7 DEF PickRange
  <2>8. CASE PickDatasource
    BY <1>0, <2>3, <2>8 DEF PickDatasource
  <2>9. CASE TakeSaved
    BY <1>0, <2>4, <2>5, <2>9 DEF TakeSaved
  <2>10. CASE TakeHistory
    BY <1>0, <2>4, <2>5, <2>10 DEF TakeHistory
  <2>11. CASE DatasourcesArrive
    BY <1>0, <2>3, <2>11 DEF DatasourcesArrive
  <2> QED
    BY <2>6, <2>7, <2>8, <2>9, <2>10, <2>11
<1> QED
  BY <1>1, <1>2

\* The searches keep the datasource.
LEMMA SearchesPanel ==
  ASSUME IInv, PanelInv, \/ Search \/ PressEnter \/ PrevPage \/ NextPage
                         \/ ToggleSort \/ ZoomTo \/ AddFilter
  PROVE  PanelInv'
<1>0. form \in Form
  BY DEF IInv, FormsTyped
<1>1. ASSUME NEW page, NEW f, UserFetch(page, f), f.ds = form.ds PROVE PanelInv'
  <2>1. form' = f /\ UNCHANGED <<at, sidePanel, fieldsRefresh, panel, fieldAsks>>
    BY <1>1 DEF UserFetch, address, fields
  <2> QED
    BY <1>1, <2>1, PanelStays
<1>2. CASE Search \/ PressEnter \/ PrevPage \/ NextPage
  BY <1>1, <1>2 DEF Search, PressEnter, PrevPage, NextPage
<1>3. CASE ToggleSort
  <2>1. [form EXCEPT !.order = Toggled(@)].ds = form.ds
    BY <1>0 DEF Form
  <2> QED
    BY <1>1, <1>3, <2>1 DEF ToggleSort
<1>4. CASE ZoomTo
  <2>1. \A r \in TimeRange : [form EXCEPT !.range = r].ds = form.ds
    BY <1>0 DEF Form
  <2> QED
    BY <1>1, <1>4, <2>1 DEF ZoomTo
<1>5. CASE AddFilter
  <2>1. \A e \in Filter : [form EXCEPT !.query = WithFilter(@, e)].ds = form.ds
    BY <1>0 DEF Form
  <2> QED
    BY <1>1, <1>5, <2>1 DEF AddFilter
<1> QED
  BY <1>2, <1>3, <1>4, <1>5

\* The end of a search refreshes the fields; the panel's own steps.
LEMMA PanelStepsKeep ==
  ASSUME IInv, Typed, PanelInv, HitsArrive \/ OpenFields \/ OpenOther \/ FieldsArrive
  PROVE  PanelInv'
<1>0. FieldTypes /\ sidePanel \in {"saved", "fields"}
  BY DEF Typed, PageTypes
<1>1. CASE HitsArrive
  <2>1. /\ UNCHANGED <<at, form, sidePanel>>
        /\ PanelEffect(form.ds, fieldsRefresh')
    BY <1>1 DEF HitsArrive
  <2> QED
    BY <1>0, <2>1, EffectKeeps
<1>2. CASE OpenFields
  <2>1. /\ sidePanel # "fields" /\ sidePanel' = "fields" /\ at = "viewer"
        /\ UNCHANGED <<at, form, fieldsRefresh>>
    BY <1>2 DEF OpenFields, Edit, address
  <2>2. \A a \in fieldAsks : a.cancelled
    BY <2>1 DEF PanelInv
  <2>3. CASE form.ds = ""
    BY <1>2, <2>1, <2>2, <2>3 DEF OpenFields, PanelInv, FieldsAreCurrent
  <2>4. CASE form.ds # ""
    <3>1. /\ panel' = [NoPanel EXCEPT !.busy = TRUE]
          /\ fieldAsks' = fieldAsks \cup
               {[key |-> <<form.ds, fieldsRefresh>>, cancelled |-> FALSE]}
      BY <1>2, <2>4 DEF OpenFields
    <3>2. panel'.busy
      BY <3>1 DEF NoPanel
    <3>3. FieldsAreCurrent'
      BY <3>2 DEF FieldsAreCurrent
    <3>4. \A a \in fieldAsks' : ~a.cancelled => a.key = <<form.ds, fieldsRefresh>>
      BY <2>2, <3>1
    <3> QED
      BY <2>1, <2>4, <3>3, <3>4 DEF PanelInv
  <2> QED
    BY <2>3, <2>4
<1>3. CASE OpenOther
  BY <1>0, <1>3, AllCancelled, PanelIdle DEF OpenOther
<1>4. CASE FieldsArrive
  <2>1. PICK a \in fieldAsks :
          /\ fieldAsks' = fieldAsks \ {a}
          /\ IF a.cancelled
               THEN UNCHANGED panel
               ELSE \/ panel' = [panel EXCEPT !.busy = FALSE, !.shows = a.key]
                    \/ panel' = [panel EXCEPT !.busy = FALSE, !.failed = TRUE]
    BY <1>4 DEF FieldsArrive
  <2>2. UNCHANGED <<at, form, sidePanel, fieldsRefresh>>
    BY <1>4 DEF FieldsArrive, address
  <2>3. FieldsAreCurrent'
    <3>1. CASE a.cancelled
      BY <2>1, <2>2, <3>1 DEF PanelInv, FieldsAreCurrent
    <3>2. CASE ~a.cancelled
      <4>1. a.key = <<form.ds, fieldsRefresh>>
        BY <3>2 DEF PanelInv
      <4>2. panel'.failed \/ panel'.shows = a.key
        BY <1>0, <2>1, <3>2 DEF FieldTypes, Panels
      <4> QED
        BY <2>2, <4>1, <4>2 DEF FieldsAreCurrent
    <3> QED
      BY <3>1, <3>2
  <2> QED
    BY <2>1, <2>2, <2>3 DEF PanelInv
<1> QED
  BY <1>1, <1>2, <1>3, <1>4

\* A page that is left has no panel; one that comes has it closed.
LEMMA PageStepsPanel ==
  ASSUME IInv, Typed, PanelInv,
         \/ Leave \/ Return \/ LateAnswer \/ ExportArrives \/ LateExport
  PROVE  PanelInv'
<1>1. ASSUME Unmount PROVE PanelInv'
  BY <1>1, AllCancelled, PanelIdle DEF Unmount, Typed
<1>2. ASSUME at = "elsewhere", UNCHANGED fields PROVE PanelInv'
  BY <1>2, PanelIdle DEF PanelInv, fields
<1>3. ASSUME UNCHANGED <<at, form, fields>> PROVE PanelInv'
  BY <1>3, PanelStays DEF fields
<1>4. CASE Leave
  BY <1>1, <1>4 DEF Leave
<1>5. CASE Return
  BY <1>2, <1>5 DEF Return
<1>6. CASE LateAnswer
  <2>1. UNCHANGED fields /\ (at = "elsewhere" \/ UNCHANGED <<at, form>>)
    BY <1>6 DEF LateAnswer, address
  <2> QED
    BY <1>2, <1>3, <2>1
<1>7. CASE ExportArrives \/ LateExport
  BY <1>1, <1>3, <1>7 DEF ExportArrives, LateExport, address
<1> QED
  BY <1>4, <1>5, <1>6, <1>7

\* Every step keeps the panel current.
LEMMA NextPanel == IInv /\ Typed /\ PanelInv /\ [Next]_vars => PanelInv'
<1> SUFFICES ASSUME IInv, Typed, PanelInv, [Next]_vars PROVE PanelInv'
  OBVIOUS
<1>1. CASE UNCHANGED vars
  BY <1>1, PanelStays DEF vars, address, fields
<1>2. CASE LogsArrive \/ FetchFails \/ StartTail \/ StopTail \/ TailRow
           \/ TailSettles \/ HandleExport
  <2>1. UNCHANGED <<at, form, sidePanel, fieldsRefresh, panel, fieldAsks>>
    BY <1>2 DEF LogsArrive, FetchFails, StartTail, StopTail, TailRow, TailSettles,
         HandleExport, address, fields
  <2> QED
    BY <2>1, PanelStays
<1> QED
  BY <1>1, <1>2, FormStepsPanel, SearchesPanel, PanelStepsKeep, PageStepsPanel
     DEF Next, User, Answer

\* No answer to an older datasource or search becomes the fields on show, for
\* any number of searches, answers and pages in between.
THEOREM PanelIsCurrent == Spec => []FieldsAreCurrent
<1>1. Init => PanelInv
  BY DEF Init, PanelInv, FieldsAreCurrent
<1>2. PanelInv => FieldsAreCurrent
  BY DEF PanelInv
<1> QED
  BY <1>1, <1>2, Invariance, InitTyped, NextTyped, NextPanel, PTL DEF Spec

-----------------------------------------------------------------------------
(* The rows *)

\* what is in flight is what it was asked as
RightKind == /\ \A f \in fetches : ~asked[f.op].tail
             /\ \A s \in streams : asked[s.op].tail
RowsAsked == logs \in Seq(Nat) /\ \A i \in DOMAIN logs : logs[i] \in 1..ops
\* while the page tails, everything else in flight or on show is a search that
\* was asked before
BeforeTail ==
    tailing => /\ \A f \in fetches : f.op < tailAbort
               /\ \A i \in DOMAIN logs :
                    \/ logs[i] = tailAbort
                    \/ ~asked[logs[i]].tail /\ logs[i] < tailAbort
RowsInv == RightKind /\ RowsAsked /\ BeforeTail /\ RowsOfOneOrigin

\* What an operation is does not change.
LEMMA AskedKept ==
  ASSUME asked \in Seq(Asked),
         \/ asked' = asked
         \/ \E e \in Asked : asked' = Append(asked, e)
  PROVE  \A n \in 1..ops : n \in 1..ops' /\ asked'[n] = asked[n]
<1>1. CASE asked' = asked
  BY <1>1 DEF ops
<1>2. CASE \E e \in Asked : asked' = Append(asked, e)
  BY <1>2 DEF ops
<1> QED
  BY <1>1, <1>2

\* A step that brings no row: the rows stay or go, what is in flight was in
\* flight before or has just been asked, and no tail starts.
LEMMA RowsStay ==
  ASSUME IInv, RowsInv, logs' = logs \/ logs' = <<>>,
         \/ asked' = asked
         \/ \E e \in Asked : asked' = Append(asked, e),
         \A g \in fetches' : \/ \E f \in fetches : g.op = f.op
                             \/ ~asked'[g.op].tail /\ ~tailing',
         \A r \in streams' : \E s \in streams : r.op = s.op,
         tailing' => tailing /\ tailAbort' = tailAbort
  PROVE  RowsInv'
<1>0. asked \in Seq(Asked)
  BY DEF IInv, FormsTyped
<1>1. \A n \in 1..ops : n \in 1..ops' /\ asked'[n] = asked[n]
  BY <1>0, AskedKept
<1>2. /\ \A f \in fetches : f.op \in 1..ops /\ ~asked[f.op].tail
      /\ \A s \in streams : s.op \in 1..ops /\ asked[s.op].tail
  BY DEF IInv, FetchesAsked, Numbered, StreamsAsked, RowsInv, RightKind
<1>3. RightKind'
  <2>1. \A g \in fetches' : ~asked'[g.op].tail
    BY <1>1, <1>2
  <2>2. \A r \in streams' : asked'[r.op].tail
    BY <1>1, <1>2
  <2> QED
    BY <2>1, <2>2 DEF RightKind
<1>4. CASE logs' = <<>>
  <2>1. DOMAIN logs' = {} /\ logs' \in Seq(Nat)
    BY <1>4
  <2>2. RowsAsked' /\ RowsOfOneOrigin'
    BY <2>1 DEF RowsAsked, RowsOfOneOrigin
  <2>3. BeforeTail'
    BY <2>1 DEF BeforeTail, RowsInv
  <2> QED
    BY <1>3, <2>2, <2>3 DEF RowsInv
<1>5. CASE logs' = logs
  <2>1. logs \in Seq(Nat) /\ \A i \in DOMAIN logs : logs[i] \in 1..ops
    BY DEF RowsInv, RowsAsked
  <2>2. \A i \in DOMAIN logs : logs[i] \in 1..ops' /\ asked'[logs[i]] = asked[logs[i]]
    BY <1>1, <2>1
  <2>3. RowsAsked'
    BY <1>5, <2>1, <2>2 DEF RowsAsked
  <2>4. RowsOfOneOrigin'
    BY <1>5, <2>2 DEF RowsInv, RowsOfOneOrigin
  <2>5. BeforeTail'
    BY <1>5, <2>2 DEF BeforeTail, RowsInv
  <2> QED
    BY <1>3, <2>3, <2>4, <2>5 DEF RowsInv
<1> QED
  BY <1>4, <1>5

\* Stopping the tail changes no request's number.
LEMMA StoppedSameOps ==
  ASSUME TailInv, TailStopped
  PROVE  \A r \in streams' : \E s \in streams : r.op = s.op
<1>1. \A s \in streams : [s EXCEPT !.aborted = @ \/ s.op = tailAbort].op = s.op
  BY DEF TailInv, StreamsAsked
<1> QED
  BY <1>1 DEF TailStopped, StopStreams

\* A search that starts stops the tail.
LEMMA FetchRows ==
  ASSUME IInv, RowsInv, NEW page, NEW f \in Form, NEW others \in SUBSET fetches,
         Fetch(page, f, others)
  PROVE  RowsInv'
<1> DEFINE e == [form |-> f, tail |-> FALSE]
           new == [op |-> NewOp, page |-> page, kept |-> hits, got |-> FALSE,
                   gone |-> FALSE]
<1>1. /\ e \in Asked /\ asked' = Append(asked, e)
      /\ fetches' = others \cup {new} /\ logs' = logs
  BY DEF Fetch, Asked
<1>2. asked'[NewOp] = e /\ ~e.tail /\ new.op = NewOp
  BY <1>1 DEF NewOp, ops, IInv, FormsTyped
<1> HIDE DEF new
<1>3. \A g \in fetches' : \/ \E h \in fetches : g.op = h.op
                          \/ g.op = NewOp /\ ~asked'[g.op].tail
  BY <1>1, <1>2
<1>4. ~tailing' /\ \A r \in streams' : \E s \in streams : r.op = s.op
  <2>1. CASE tailing
    <3>1. TailStopped
      BY <2>1 DEF Fetch
    <3> QED
      BY <3>1, StoppedSameOps DEF IInv, TailInv, TailStopped
  <2>2. CASE ~tailing
    BY <2>2 DEF Fetch, tail
  <2> QED
    BY <2>1, <2>2
<1> HIDE DEF e
<1> QED
  BY <1>1, <1>3, <1>4, RowsStay

\* One row, or none, is of one origin.
LEMMA ShortRows ==
  ASSUME logs' = <<>> \/ \E n \in 1..ops' : logs' = <<n>>, ops' \in Nat
  PROVE  RowsAsked' /\ RowsOfOneOrigin'
<1>1. CASE logs' = <<>>
  <2>1. DOMAIN logs' = {} /\ logs' \in Seq(Nat)
    BY <1>1
  <2> QED
    BY <2>1 DEF RowsAsked, RowsOfOneOrigin
<1>2. CASE \E n \in 1..ops' : logs' = <<n>>
  <2>1. PICK n \in 1..ops' : logs' = <<n>>
    BY <1>2
  <2>2. DOMAIN logs' = {1} /\ logs'[1] = n /\ logs' \in Seq(Nat)
    BY <2>1
  <2> QED
    BY <2>2 DEF RowsAsked, RowsOfOneOrigin
<1> QED
  BY <1>1, <1>2

\* The row of an answer stands alone, the tail's rows on top of it.
LEMMA LogsArriveRows == ASSUME IInv, Typed, RowsInv, LogsArrive PROVE RowsInv'
<1>1. PICK f \in fetches :
        /\ logs' \in {<<>>, <<f.op>>}
        /\ \/ fetches' = (fetches \ {f}) \cup {[f EXCEPT !.got = TRUE]}
           \/ fetches' = fetches \ {f}
  BY DEF LogsArrive
<1>2. UNCHANGED <<tailAbort, tailing, streams, asked>>
  BY DEF LogsArrive, tail, history
<1>3. /\ f.op \in 1..ops /\ ~asked[f.op].tail /\ ops' = ops /\ ops \in Nat
      /\ \A g \in fetches : ~asked[g.op].tail
      /\ \A s \in streams : asked[s.op].tail
      /\ tailing => \A g \in fetches : g.op < tailAbort
  BY <1>2 DEF IInv, FormsTyped, FetchesAsked, Numbered, RowsInv, RightKind, BeforeTail,
       ops
<1>4. \A g \in fetches' : \E h \in fetches : g.op = h.op
  <2>1. [f EXCEPT !.got = TRUE].op = f.op
    BY DEF Typed, FetchTypes, Fetches
  <2> QED
    BY <1>1, <2>1
<1>5. RightKind'
  BY <1>2, <1>3, <1>4 DEF RightKind
<1>6. RowsAsked' /\ RowsOfOneOrigin'
  BY <1>1, <1>3, ShortRows
<1>7. \A i \in DOMAIN logs' : logs'[i] = f.op
  BY <1>1
<1>8. BeforeTail'
  BY <1>2, <1>3, <1>4, <1>7 DEF BeforeTail
<1> QED
  BY <1>5, <1>6, <1>8 DEF RowsInv

\* A new tail starts with no rows, and after everything that is in flight.
LEMMA StartTailRows == ASSUME IInv, RowsInv, StartTail PROVE RowsInv'
<1> DEFINE e == [form |-> form, tail |-> TRUE]
           new == [op |-> NewOp, aborted |-> FALSE]
<1>1. /\ e \in Asked /\ asked' = Append(asked, e) /\ tailAbort' = NewOp
      /\ streams' = StopStreams \cup {new} /\ logs' = <<>> /\ fetches' = fetches
  BY DEF StartTail, Asked, IInv, FormsTyped
<1>2. asked'[NewOp] = e /\ e.tail /\ new.op = NewOp /\ NewOp = ops + 1
      /\ ops \in Nat /\ ops' \in Nat
  BY <1>1 DEF NewOp, ops, IInv, FormsTyped
<1> HIDE DEF new
<1>3. \A n \in 1..ops : asked'[n] = asked[n]
  BY <1>1, AskedKept DEF IInv, FormsTyped
<1> HIDE DEF e
<1>4. /\ \A f \in fetches : f.op \in 1..ops /\ ~asked[f.op].tail
      /\ \A s \in streams : s.op \in 1..ops /\ asked[s.op].tail
  BY DEF IInv, FetchesAsked, Numbered, StreamsAsked, RowsInv, RightKind
<1>5. \A r \in StopStreams : \E s \in streams : r.op = s.op
  <2>1. \A s \in streams : [s EXCEPT !.aborted = @ \/ s.op = tailAbort].op = s.op
    BY DEF IInv, StreamsAsked
  <2> QED
    BY <2>1 DEF StopStreams
<1>6. RightKind'
  <2>1. \A f \in fetches' : ~asked'[f.op].tail
    BY <1>1, <1>3, <1>4
  <2>2. \A r \in streams' : asked'[r.op].tail
    <3>1. \A r \in StopStreams : asked'[r.op].tail
      BY <1>3, <1>4, <1>5
    <3>2. asked'[new.op].tail
      BY <1>2
    <3> QED
      BY <1>1, <3>1, <3>2
  <2> QED
    BY <2>1, <2>2 DEF RightKind
<1>7. RowsAsked' /\ RowsOfOneOrigin'
  BY <1>1, <1>2, ShortRows
<1>8. BeforeTail'
  <2>1. \A f \in fetches' : f.op < tailAbort'
    BY <1>1, <1>2, <1>4
  <2>2. DOMAIN logs' = {}
    BY <1>1
  <2> QED
    BY <2>1, <2>2 DEF BeforeTail
<1> QED
  BY <1>6, <1>7, <1>8 DEF RowsInv

\* A row of the live tail goes on top of its own and of an older search's.
LEMMA TailRowRows == ASSUME IInv, Typed, RowsInv, TailRow PROVE RowsInv'
<1> DEFINE k == IF Len(logs) < MaxRows THEN Len(logs) + 1 ELSE MaxRows
<1>1. PICK s \in streams : ~s.aborted /\ logs' = SubSeq(<<s.op>> \o logs, 1, k)
  BY DEF TailRow
<1>2. UNCHANGED <<tailAbort, tailing, streams, fetches, asked>> /\ ops' = ops
  BY DEF TailRow, tail, history, ops
<1>3. s.op = tailAbort /\ tailing /\ s.op \in 1..ops /\ asked[s.op].tail
      /\ ops \in Nat
  <2>1. /\ tailing = (tailAbort # 0)
        /\ {r.op : r \in {q \in streams : ~q.aborted}} = {tailAbort} \ {0}
    BY DEF IInv, OneLiveTail
  <2>2. s.op \in {tailAbort} \ {0}
    BY <1>1, <2>1
  <2>3. s.op \in 1..ops /\ asked[s.op].tail /\ ops \in Nat
    BY DEF IInv, FormsTyped, ops, StreamsAsked, RowsInv, RightKind
  <2> QED
    BY <2>1, <2>2, <2>3
<1>4. logs \in Seq(Nat) /\ Len(logs) \in Nat /\ Len(logs) <= MaxRows
      /\ s.op \in Nat
  BY <1>3 DEF RowsInv, RowsAsked, Typed, ResultTypes
<1>5. k \in 1..(Len(logs) + 1)
  BY <1>4, RowsCapped
<1> HIDE DEF k
<1>6. /\ logs' \in Seq(Nat) /\ Len(logs') = k /\ logs'[1] = tailAbort
      /\ \A i \in 2..k : i - 1 \in 1..Len(logs) /\ logs'[i] = logs[i - 1]
  BY <1>1, <1>3, <1>4, <1>5, RowOnTop
<1>7. DOMAIN logs = 1..Len(logs) /\ DOMAIN logs' = 1..k
  BY <1>4, <1>6
<1>8. \A i \in DOMAIN logs' :
        \/ i = 1 /\ logs'[i] = tailAbort
        \/ i \in 2..k /\ i - 1 \in DOMAIN logs /\ logs'[i] = logs[i - 1]
  BY <1>4, <1>5, <1>6, <1>7
<1>9. /\ \A i \in DOMAIN logs : logs[i] \in 1..ops
      /\ \A i \in DOMAIN logs : \/ logs[i] = tailAbort
                                \/ ~asked[logs[i]].tail /\ logs[i] < tailAbort
  BY <1>3 DEF RowsInv, RowsAsked, BeforeTail
<1>10. RowsAsked'
  BY <1>2, <1>3, <1>6, <1>8, <1>9 DEF RowsAsked
<1>11. RightKind'
  BY <1>2 DEF RowsInv, RightKind
<1>12. BeforeTail'
  BY <1>2, <1>3, <1>8, <1>9 DEF RowsInv, BeforeTail
<1>13. RowsOfOneOrigin'
  <2> SUFFICES ASSUME NEW i \in DOMAIN logs', NEW j \in DOMAIN logs', i < j,
                      logs'[i] # logs'[j]
               PROVE  /\ asked[logs'[i]].tail /\ ~asked[logs'[j]].tail
                      /\ logs'[j] < logs'[i]
    BY <1>2 DEF RowsOfOneOrigin
  <2>1. j \in 2..k /\ j - 1 \in DOMAIN logs /\ logs'[j] = logs[j - 1]
    BY <1>5, <1>7, <1>8
  <2>2. CASE i = 1
    BY <1>3, <1>6, <1>9, <2>1, <2>2
  <2>3. CASE i # 1
    <3>1. i - 1 \in DOMAIN logs /\ logs'[i] = logs[i - 1] /\ i - 1 < j - 1
      BY <1>5, <1>7, <1>8, <2>1, <2>3
    <3> QED
      BY <2>1, <3>1 DEF RowsInv, RowsOfOneOrigin
  <2> QED
    BY <2>2, <2>3
<1> QED
  BY <1>10, <1>11, <1>12, <1>13 DEF RowsInv

\* The form, the searches and the mount bring no rows.
LEMMA FormStepsRows ==
  ASSUME IInv, RowsInv, \/ TypeQuery \/ PickRange \/ PickDatasource \/ TakeSaved
                        \/ TakeHistory \/ DatasourcesArrive
  PROVE  RowsInv'
<1>0. form \in Form /\ form.ds \in Datasource \cup {""}
      /\ Listed \subseteq Datasource
  BY ViewerAssumption DEF IInv, FormsTyped, Form
<1>1. ASSUME NEW f \in Form, NewForm(f) PROVE RowsInv'
  <2>1. CASE Fetch(0, f, fetches)
    BY <2>1, FetchRows
  <2>2. CASE UNCHANGED <<autoRan, results, tail, fetches, history>>
    <3>1. UNCHANGED <<logs, asked, fetches, streams, tailing, tailAbort>>
      BY <2>2 DEF results, tail, history
    <3> QED
      BY <3>1, RowsStay
  <2> QED
    BY <1>1, <2>1, <2>2 DEF NewForm
<1> USE FormFields
<1>2. CASE TypeQuery
  BY <1>0, <1>1, <1>2 DEF TypeQuery
<1>3. CASE PickRange
  BY <1>0, <1>1, <1>3 DEF PickRange
<1>4. CASE PickDatasource
  BY <1>0, <1>1, <1>4 DEF PickDatasource
<1>5. CASE TakeSaved
  BY <1>0, <1>1, <1>5 DEF TakeSaved
<1>6. CASE TakeHistory
  BY <1>0, <1>1, <1>6 DEF TakeHistory
<1>7. CASE DatasourcesArrive
  BY <1>0, <1>1, <1>7 DEF DatasourcesArrive
<1> QED
  BY <1>2, <1>3, <1>4, <1>5, <1>6, <1>7

\* Searches leave the rows on show until their answer.
LEMMA SearchesRows ==
  ASSUME IInv, RowsInv, \/ Search \/ PressEnter \/ PrevPage \/ NextPage
                        \/ ToggleSort \/ ZoomTo \/ AddFilter
  PROVE  RowsInv'
<1>0. form \in Form
  BY DEF IInv, FormsTyped
<1>1. ASSUME NEW page, NEW f \in Form, UserFetch(page, f) PROVE RowsInv'
  BY <1>1, FetchRows DEF UserFetch
<1>2. CASE Search \/ PressEnter \/ PrevPage \/ NextPage
  BY <1>0, <1>1, <1>2 DEF Search, PressEnter, PrevPage, NextPage
<1>3. CASE ToggleSort
  BY <1>0, <1>1, <1>3, FormFields DEF ToggleSort
<1>4. CASE ZoomTo
  BY <1>0, <1>1, <1>4, FormFields DEF ZoomTo
<1>5. CASE AddFilter
  BY <1>0, <1>1, <1>5, FilteredForm DEF AddFilter
<1> QED
  BY <1>2, <1>3, <1>4, <1>5

\* Answers without rows, tails that end, and what leaves rows and tail alone.
LEMMA QuietStepsRows ==
  ASSUME IInv, RowsInv, \/ HitsArrive \/ FetchFails \/ StopTail \/ TailSettles
                        \/ OpenFields \/ OpenOther \/ FieldsArrive \/ HandleExport
                        \/ UNCHANGED vars
  PROVE  RowsInv'
<1>1. CASE HitsArrive \/ FetchFails
  <2>1. UNCHANGED <<asked, streams, tailing, tailAbort>>
        /\ fetches' \subseteq fetches /\ logs' \in {logs, <<>>}
    BY <1>1 DEF HitsArrive, FetchFails, tail, history
  <2> QED
    BY <2>1, RowsStay
<1>2. CASE StopTail
  <2>1. UNCHANGED <<asked, fetches, logs>> /\ TailStopped /\ ~tailing'
    BY <1>2 DEF StopTail, TailStopped, results, history
  <2> QED
    BY <2>1, RowsStay, StoppedSameOps DEF IInv, TailInv
<1>3. CASE TailSettles
  <2>1. UNCHANGED <<asked, fetches, logs>> /\ streams' \subseteq streams
        /\ (~tailing' \/ UNCHANGED <<tailAbort, tailing>>)
    BY <1>3 DEF TailSettles, history
  <2> QED
    BY <2>1, RowsStay
<1>4. CASE \/ OpenFields \/ OpenOther \/ FieldsArrive \/ HandleExport
           \/ UNCHANGED vars
  <2>1. UNCHANGED <<asked, fetches, logs, streams, tailing, tailAbort>>
    BY <1>4 DEF OpenFields, OpenOther, FieldsArrive, HandleExport, results, tail,
         history, vars
  <2> QED
    BY <2>1, RowsStay
<1> QED
  BY <1>1, <1>2, <1>3, <1>4

\* Leaving, returning, and what arrives later.
LEMMA PageStepsRows ==
  ASSUME IInv, Typed, RowsInv,
         \/ Leave \/ Return \/ LateAnswer \/ ExportArrives \/ LateExport
  PROVE  RowsInv'
<1>0. url \in Form /\ FetchesAsked /\ asked \in Seq(Asked)
  BY DEF IInv, FormsTyped
<1>1. ASSUME Unmount PROVE RowsInv'
  <2>1. logs' = <<>> /\ asked' = asked /\ TailStopped /\ ~tailing'
        /\ fetches' = {[f EXCEPT !.gone = TRUE] : f \in fetches}
    BY <1>1 DEF Unmount, TailStopped, history
  <2>2. \A f \in fetches : [f EXCEPT !.gone = TRUE].op = f.op
    BY DEF Typed, FetchTypes, Fetches
  <2> QED
    BY <2>1, <2>2, RowsStay, StoppedSameOps DEF IInv, TailInv
<1>2. ASSUME NEW others \in SUBSET fetches, fetches' = others,
             UNCHANGED <<results, tail, history>>
      PROVE  RowsInv'
  <2>1. UNCHANGED <<logs, asked, streams, tailing, tailAbort>>
    BY <1>2 DEF results, tail, history
  <2> QED
    BY <1>2, <2>1, RowsStay
<1>3. ASSUME NEW u \in Form, NEW others \in SUBSET fetches, Mount(u, others)
      PROVE  RowsInv'
  <2>1. FromUrl(u) \in Form
    BY FormFields
  <2> QED
    BY <1>2, <1>3, <2>1, FetchRows DEF Mount
<1>4. CASE Leave
  BY <1>1, <1>4 DEF Leave
<1>5. CASE Return
  BY <1>0, <1>3, <1>5, NoUrlIsForm DEF Return
<1>6. CASE LateAnswer
  <2>1. PICK f \in fetches :
          \/ /\ fetches' = fetches \ {f}
             /\ UNCHANGED <<results, tail, history>>
          \/ Mount(asked[f.op].form, fetches \ {f})
    BY <1>6 DEF LateAnswer
  <2>2. asked[f.op].form \in Form
    BY <1>0, AskedForm DEF FetchesAsked, Numbered
  <2> QED
    BY <1>2, <1>3, <2>1, <2>2
<1>7. CASE ExportArrives \/ LateExport
  BY <1>1, <1>2, <1>7 DEF ExportArrives, LateExport
<1> QED
  BY <1>4, <1>5, <1>6, <1>7

\* Every step keeps the rows apart.
LEMMA NextRows == IInv /\ Typed /\ RowsInv /\ [Next]_vars => RowsInv'
  BY FormStepsRows, SearchesRows, QuietStepsRows, PageStepsRows, LogsArriveRows,
     StartTailRows, TailRowRows DEF Next, User, Answer

\* The rows of two tails, or of a tail and a search asked during it, never
\* stand together, in whatever order answers and rows arrive.
THEOREM RowsDoNotMix == Spec => []RowsOfOneOrigin
<1>1. Init => RowsInv
  <2> SUFFICES ASSUME Init PROVE RowsInv
    OBVIOUS
  <2>0. PICK u : /\ asked = IF u = NoUrl THEN <<>> ELSE <<[form |-> u, tail |-> FALSE]>>
                 /\ fetches = IF u = NoUrl THEN {} ELSE
                      {[op |-> 1, page |-> 0, kept |-> 0, got |-> FALSE, gone |-> FALSE]}
    BY DEF Init
  <2>1. /\ logs = <<>> /\ streams = {} /\ tailing = FALSE
        /\ \A f \in fetches : ~asked[f.op].tail
    <3>1. \A f \in fetches : f.op = 1 /\ asked[1] = [form |-> u, tail |-> FALSE]
      BY <2>0
    <3> QED
      BY <3>1 DEF Init
  <2>2. DOMAIN logs = {} /\ logs \in Seq(Nat)
    BY <2>1
  <2>3. RightKind
    BY <2>1 DEF RightKind
  <2> QED
    BY <2>1, <2>2, <2>3 DEF RowsInv, RowsAsked, BeforeTail, RowsOfOneOrigin
<1>2. RowsInv => RowsOfOneOrigin
  BY DEF RowsInv
<1> QED
  BY <1>1, <1>2, Invariance, InitTyped, NextTyped, NextRows, PTL DEF Spec

-----------------------------------------------------------------------------
(* What a search shows *)

\* as long as searches do not overlap: one is in flight, or a tail, or none; and
\* its rows and numbers are on show when its histogram arrives
Alone ==
    ~overlapped =>
      /\ \A f, g \in fetches : f = g
      /\ tailing => fetches = {} /\ hits = 0
      /\ \A f \in fetches :
           /\ f.gone => hits = 0
           /\ f.got /\ ~f.gone =>
                f.page = 0 /\ info.by = f.op /\ \A i \in DOMAIN logs : logs[i] = f.op
\* a page that has been left shows nothing
Left == at = "elsewhere" => hits = 0 /\ ~tailing /\ \A f \in fetches : f.gone
ShownInv == Alone /\ Left /\ ShownTogether

\* A step that changes nothing of this, but for an error of the tail.
LEMMA ShownStays ==
  ASSUME ShownInv, error => error',
         UNCHANGED <<at, url, searched, info, logs, hits, tailing, fetches, asked,
                     overlapped>>
  PROVE  ShownInv'
<1>1. Alone'
  BY DEF ShownInv, Alone
<1>2. Left'
  BY DEF ShownInv, Left
<1>3. ShownTogether'
  BY DEF ShownInv, ShownTogether, Shown
<1> QED
  BY <1>1, <1>2, <1>3 DEF ShownInv

\* Where there is no histogram, nothing is compared.
LEMMA NothingShown ==
  ASSUME hits' = 0, Alone', Left' PROVE ShownInv'
  BY DEF ShownInv, ShownTogether

\* A search that starts alone is alone, one that does not is marked.
LEMMA FetchShown ==
  ASSUME NEW page, NEW f, NEW others, Fetch(page, f, others), at' = "viewer"
  PROVE  ShownInv'
<1> DEFINE new == [op |-> NewOp, page |-> page, kept |-> hits, got |-> FALSE,
                   gone |-> FALSE]
<1>1. /\ fetches' = others \cup {new}
      /\ overlapped' = (others # {} \/ (overlapped /\ page # 0))
  BY DEF Fetch
<1>2. ~tailing'
  BY DEF Fetch, TailStopped, tail
<1>3. ~new.got /\ ~new.gone
  OBVIOUS
<1> HIDE DEF new
<1>4. ~overlapped' => fetches' = {new}
  BY <1>1
<1>5. Alone'
  BY <1>2, <1>3, <1>4 DEF Alone
<1>6. Left'
  BY DEF Left
<1>7. ShownTogether'
  BY <1>1, <1>4 DEF ShownTogether
<1> QED
  BY <1>5, <1>6, <1>7 DEF ShownInv

\* Of a search that is alone, the answer has no other in flight.
LEMMA LogsArriveShown == ASSUME Typed, ShownInv, LogsArrive PROVE ShownInv'
<1>1. PICK f \in fetches :
        /\ ~f.got /\ Mine(f)
        /\ logs' \in {<<>>, <<f.op>>}
        /\ info'.by = f.op /\ info'.page = f.page
        /\ IF f.page = 0
             THEN /\ fetches' = (fetches \ {f}) \cup {[f EXCEPT !.got = TRUE]}
                  /\ UNCHANGED <<hits, loading>>
             ELSE /\ fetches' = fetches \ {f}
                  /\ hits' = f.kept /\ loading' = FALSE
  BY DEF LogsArrive
<1>2. UNCHANGED <<at, url, tailing, asked, overlapped>>
  BY DEF LogsArrive, address, tail, history
<1>3. at # "elsewhere"
  BY <1>1 DEF ShownInv, Left, Mine
<1>4. Left'
  BY <1>2, <1>3 DEF Left
<1>5. CASE overlapped
  BY <1>2, <1>4, <1>5 DEF ShownInv, Alone, ShownTogether
<1>6. CASE ~overlapped
  <2>1. fetches = {f} /\ ~tailing
    BY <1>1, <1>6 DEF ShownInv, Alone
  <2>2. CASE f.page = 0
    <3> DEFINE g == [f EXCEPT !.got = TRUE]
    <3>1. fetches' = {g}
      BY <1>1, <2>1, <2>2
    <3>2. g.page = f.page /\ g.op = f.op /\ ~g.gone
      BY <1>1 DEF Typed, FetchTypes, Fetches, Mine
    <3> HIDE DEF g
    <3>3. \A i \in DOMAIN logs' : logs'[i] = f.op
      BY <1>1
    <3>4. Alone'
      BY <1>1, <1>2, <2>1, <2>2, <3>1, <3>2, <3>3 DEF Alone
    <3>5. ShownTogether'
      BY <3>1 DEF ShownTogether
    <3> QED
      BY <1>4, <3>4, <3>5 DEF ShownInv
  <2>3. CASE f.page # 0
    <3>1. fetches' = {} /\ info'.page # 0
      BY <1>1, <2>1, <2>3
    <3>2. Alone'
      BY <1>2, <2>1, <3>1 DEF Alone
    <3>3. ShownTogether'
      BY <3>1 DEF ShownTogether
    <3> QED
      BY <1>4, <3>2, <3>3 DEF ShownInv
  <2> QED
    BY <2>2, <2>3
<1> QED
  BY <1>5, <1>6

\* Its histogram and its address come to the rows and numbers it brought.
LEMMA HitsArriveShown == ASSUME ShownInv, HitsArrive PROVE ShownInv'
<1>1. PICK f \in fetches :
        /\ f.got /\ Mine(f)
        /\ hits' \in {0, f.op}
        /\ url' = asked[f.op].form
        /\ fetches' = fetches \ {f}
  BY DEF HitsArrive
<1>2. UNCHANGED <<at, info, logs, tailing, asked, overlapped>>
  BY DEF HitsArrive, tail, history
<1>3. at # "elsewhere"
  BY <1>1 DEF ShownInv, Left, Mine
<1>4. Left'
  BY <1>2, <1>3 DEF Left
<1>5. CASE overlapped
  BY <1>2, <1>4, <1>5 DEF ShownInv, Alone, ShownTogether
<1>6. CASE ~overlapped
  <2>1. fetches = {f} /\ ~tailing
    BY <1>1, <1>6 DEF ShownInv, Alone
  <2>2. info.by = f.op /\ \A i \in DOMAIN logs : logs[i] = f.op
    BY <1>1, <1>6 DEF ShownInv, Alone, Mine
  <2>3. Alone'
    BY <1>1, <1>2, <2>1 DEF Alone
  <2>4. ShownTogether'
    BY <1>1, <1>2, <2>2 DEF ShownTogether
  <2> QED
    BY <1>4, <2>3, <2>4 DEF ShownInv
<1> QED
  BY <1>5, <1>6

\* A search that fails leaves no histogram.
LEMMA FetchFailsShown == ASSUME ShownInv, FetchFails PROVE ShownInv'
<1>1. PICK f \in fetches : Mine(f) /\ fetches' = fetches \ {f}
  BY DEF FetchFails
<1>2. hits' = 0 /\ UNCHANGED <<at, tailing, overlapped>>
  BY DEF FetchFails, address, tail, history
<1>3. Left'
  BY <1>1, <1>2 DEF ShownInv, Left, Mine
<1>4. Alone'
  <2>1. ~overlapped => fetches' = {}
    BY <1>1 DEF ShownInv, Alone
  <2> QED
    BY <1>2, <2>1 DEF Alone
<1> QED
  BY <1>2, <1>3, <1>4, NothingShown

\* A tail has no histogram, and leaves none when it ends.
LEMMA TailStepsShown ==
  ASSUME IInv, Typed, ShownInv, StartTail \/ StopTail \/ TailRow \/ TailSettles
  PROVE  ShownInv'
<1>1. CASE StartTail
  <2>1. /\ hits' = 0 /\ at' = "viewer" /\ fetches' = fetches
        /\ overlapped' = (overlapped \/ fetches # {})
    BY <1>1 DEF StartTail, address
  <2>2. Left'
    BY <2>1 DEF Left
  <2>3. Alone'
    BY <2>1 DEF Alone
  <2> QED
    BY <2>1, <2>2, <2>3, NothingShown
<1>2. CASE StopTail
  <2>1. /\ tailing /\ ~tailing'
        /\ UNCHANGED <<at, info, logs, hits, fetches, overlapped>>
    BY <1>2 DEF StopTail, TailStopped, address, results, history
  <2>2. Left' /\ Alone'
    BY <2>1 DEF ShownInv, Left, Alone
  <2>3. ShownTogether'
    BY <2>1 DEF ShownInv, Alone, ShownTogether
  <2> QED
    BY <2>2, <2>3 DEF ShownInv
<1>3. CASE TailRow
  <2>1. PICK s \in streams : ~s.aborted
    BY <1>3 DEF TailRow
  <2>2. tailing
    <3>1. /\ tailing = (tailAbort # 0)
          /\ {r.op : r \in {q \in streams : ~q.aborted}} = {tailAbort} \ {0}
      BY DEF IInv, OneLiveTail
    <3>2. s.op \in {tailAbort} \ {0}
      BY <2>1, <3>1
    <3> QED
      BY <3>1, <3>2
  <2>3. UNCHANGED <<at, info, hits, tailing, fetches, overlapped>>
    BY <1>3 DEF TailRow, address, tail, history
  <2>4. Left'
    BY <2>3 DEF ShownInv, Left
  <2>5. Alone'
    BY <2>2, <2>3 DEF ShownInv, Alone
  <2>6. ShownTogether'
    BY <2>2, <2>3 DEF ShownTogether
  <2> QED
    BY <2>4, <2>5, <2>6 DEF ShownInv
<1>4. CASE TailSettles
  <2>1. PICK s \in streams : error' \in {error, error \/ ~s.aborted}
    BY <1>4 DEF TailSettles
  <2>2. /\ tailing' = FALSE \/ tailing' = tailing
        /\ UNCHANGED <<at, url, searched, info, logs, hits, fetches, asked, overlapped>>
    BY <1>4 DEF TailSettles, address, history
  <2>3. error => error'
    BY <2>1
  <2>4. CASE tailing' = tailing
    BY <2>2, <2>3, <2>4, ShownStays
  <2>5. CASE tailing /\ ~tailing'
    <3>1. Left' /\ Alone'
      BY <2>2, <2>5 DEF ShownInv, Left, Alone
    <3>2. ShownTogether'
      BY <2>2, <2>5 DEF ShownInv, Alone, ShownTogether
    <3> QED
      BY <3>1, <3>2 DEF ShownInv
  <2>6. tailing' = tailing \/ (tailing /\ ~tailing')
    <3>1. tailing = TRUE \/ tailing = FALSE
      BY DEF IInv, OneLiveTail
    <3> QED
      BY <2>2, <3>1
  <2> QED
    BY <2>4, <2>5, <2>6
<1> QED
  BY <1>1, <1>2, <1>3, <1>4

\* The form and the searches.
LEMMA FormAndSearchesShown ==
  ASSUME ShownInv, \/ TypeQuery \/ PickRange \/ PickDatasource \/ TakeSaved
                   \/ TakeHistory \/ DatasourcesArrive
                   \/ Search \/ PressEnter \/ PrevPage \/ NextPage \/ ToggleSort
                   \/ ZoomTo \/ AddFilter
  PROVE  ShownInv'
<1>1. ASSUME NEW f, NewForm(f), at = "viewer" PROVE ShownInv'
  <2>1. at' = "viewer"
    BY <1>1 DEF NewForm, address
  <2>2. CASE Fetch(0, f, fetches)
    BY <2>1, <2>2, FetchShown
  <2>3. CASE UNCHANGED <<autoRan, results, tail, fetches, history>>
    <3>1. UNCHANGED <<at, url, error, searched, info, logs, hits, tailing, fetches,
                      asked, overlapped>>
      BY <1>1, <2>3 DEF NewForm, address, results, tail, history
    <3> QED
      BY <3>1, ShownStays
  <2> QED
    BY <1>1, <2>2, <2>3 DEF NewForm
<1>2. ASSUME NEW page, NEW f, UserFetch(page, f) PROVE ShownInv'
  <2>1. at' = "viewer" /\ Fetch(page, f, fetches)
    BY <1>2 DEF UserFetch, address
  <2> QED
    BY <2>1, FetchShown
<1>3. CASE \/ TypeQuery \/ PickRange \/ PickDatasource \/ TakeSaved
           \/ TakeHistory \/ DatasourcesArrive
  <2>1. at = "viewer" /\ \E f : NewForm(f)
    BY <1>3 DEF TypeQuery, PickRange, PickDatasource, TakeSaved, TakeHistory,
         DatasourcesArrive, Edit
  <2> QED
    BY <1>1, <2>1
<1>4. CASE \/ Search \/ PressEnter \/ PrevPage \/ NextPage \/ ToggleSort
           \/ ZoomTo \/ AddFilter
  <2>1. \E page, f : UserFetch(page, f)
    BY <1>4 DEF Search, PressEnter, PrevPage, NextPage, ToggleSort, ZoomTo, AddFilter
  <2> QED
    BY <1>2, <2>1
<1> QED
  BY <1>3, <1>4

\* A page that is left shows nothing any more, and what comes to it later finds
\* no histogram whose address it could change.
LEMMA PageStepsShown ==
  ASSUME Typed, ShownInv,
         \/ Leave \/ Return \/ LateAnswer \/ ExportArrives \/ LateExport
  PROVE  ShownInv'
<1>1. ASSUME Unmount PROVE ShownInv'
  <2>1. /\ hits' = 0 /\ ~tailing' /\ overlapped' = overlapped
        /\ fetches' = {[f EXCEPT !.gone = TRUE] : f \in fetches}
    BY <1>1 DEF Unmount, TailStopped, history
  <2>2. \A g \in fetches' : g.gone
    <3>1. \A f \in fetches : [f EXCEPT !.gone = TRUE].gone
      BY DEF Typed, FetchTypes, Fetches
    <3> QED
      BY <2>1, <3>1
  <2>3. Left'
    BY <2>1, <2>2 DEF Left
  <2>4. Alone'
    <3>1. ~overlapped => \A f, g \in fetches' : f = g
      BY <2>1 DEF ShownInv, Alone
    <3> QED
      BY <2>1, <2>2, <3>1 DEF Alone
  <2> QED
    BY <2>1, <2>3, <2>4, NothingShown
<1>2. ASSUME UNCHANGED <<address, form, autoRan, dsAsked, results, tail, fields,
                         fetches, history>>
      PROVE  ShownInv'
  <2>1. UNCHANGED <<at, url, error, searched, info, logs, hits, tailing, fetches,
                    asked, overlapped>>
    BY <1>2 DEF address, results, tail, history
  <2> QED
    BY <2>1, ShownStays
<1>3. ASSUME at = "elsewhere", NEW u, NEW others \in SUBSET fetches, Mount(u, others)
      PROVE  ShownInv'
  <2>1. at' = "viewer"
    BY <1>3 DEF Mount
  <2>2. CASE Fetch(0, FromUrl(u), others)
    BY <2>1, <2>2, FetchShown
  <2>3. CASE fetches' = others /\ UNCHANGED <<results, tail, history>>
    <3>1. fetches' \subseteq fetches /\ UNCHANGED <<info, logs, hits, tailing, overlapped>>
      BY <2>3 DEF results, tail, history
    <3>2. hits' = 0
      BY <1>3, <3>1 DEF ShownInv, Left
    <3>3. Left' /\ Alone'
      BY <1>3, <2>1, <3>1, <3>2 DEF ShownInv, Left, Alone
    <3> QED
      BY <3>2, <3>3, NothingShown
  <2> QED
    BY <1>3, <2>2, <2>3 DEF Mount
<1>4. CASE Leave
  BY <1>1, <1>4 DEF Leave
<1>5. CASE Return
  BY <1>3, <1>5 DEF Return
<1>6. CASE LateAnswer
  <2>1. PICK f \in fetches :
          /\ f.gone
          /\ \/ fetches' = fetches \ {f} /\ UNCHANGED <<at, results, tail, history>>
             \/ at = "elsewhere" /\ \E u : Mount(u, fetches \ {f})
    BY <1>6 DEF LateAnswer, address
  <2>2. CASE fetches' = fetches \ {f} /\ UNCHANGED <<at, results, tail, history>>
    <3>1. UNCHANGED <<at, info, logs, hits, tailing, overlapped>>
      BY <2>2 DEF results, tail, history
    <3>2. Left' /\ Alone'
      BY <2>2, <3>1 DEF ShownInv, Left, Alone
    <3>3. ~overlapped => hits = 0
      BY <2>1 DEF ShownInv, Alone
    <3>4. ShownTogether'
      BY <3>1, <3>3 DEF ShownTogether
    <3> QED
      BY <3>2, <3>4 DEF ShownInv
  <2>3. CASE at = "elsewhere" /\ \E u : Mount(u, fetches \ {f})
    BY <1>3, <2>3
  <2> QED
    BY <2>1, <2>2, <2>3
<1>7. CASE ExportArrives \/ LateExport
  BY <1>1, <1>2, <1>7 DEF ExportArrives, LateExport
<1> QED
  BY <1>4, <1>5, <1>6, <1>7

\* Every step keeps together what a search brought.
LEMMA NextShown == IInv /\ Typed /\ ShownInv /\ [Next]_vars => ShownInv'
<1> SUFFICES ASSUME IInv, Typed, ShownInv, [Next]_vars PROVE ShownInv'
  OBVIOUS
<1>1. CASE OpenFields \/ OpenOther \/ FieldsArrive \/ HandleExport \/ UNCHANGED vars
  <2>1. UNCHANGED <<at, url, error, searched, info, logs, hits, tailing, fetches, asked,
                    overlapped>>
    BY <1>1 DEF OpenFields, OpenOther, FieldsArrive, HandleExport, address, results,
         tail, history, vars
  <2> QED
    BY <2>1, ShownStays
<1> QED
  BY <1>1, LogsArriveShown, HitsArriveShown, FetchFailsShown, TailStepsShown,
     FormAndSearchesShown, PageStepsShown DEF Next, User, Answer

\* As long as searches do not overlap, rows, numbers, histogram and address are
\* those of one search, whatever was left, failed or came late before it.
THEOREM OneSearchOnShow == Spec => []ShownTogether
<1>1. Init => ShownInv
  <2> SUFFICES ASSUME Init PROVE ShownInv
    OBVIOUS
  <2>1. /\ hits = 0 /\ tailing = FALSE /\ at = "viewer"
        /\ \A f, g \in fetches : f = g /\ ~f.got
    <3> DEFINE new == [op |-> 1, page |-> 0, kept |-> 0, got |-> FALSE, gone |-> FALSE]
    <3>1. PICK u : fetches = IF u = NoUrl THEN {} ELSE {new}
      BY DEF Init
    <3>2. \A f, g \in fetches : f = g /\ ~f.got
      <4>1. ~new.got
        OBVIOUS
      <4> HIDE DEF new
      <4>2. \A f \in fetches : f = new
        BY <3>1
      <4> QED
        BY <4>1, <4>2
    <3> QED
      BY <3>2 DEF Init
  <2> QED
    BY <2>1 DEF ShownInv, Alone, Left, ShownTogether
<1>2. ShownInv => ShownTogether
  BY DEF ShownInv
<1> QED
  BY <1>1, <1>2, Invariance, InitTyped, NextTyped, NextShown, PTL DEF Spec
=============================================================================
