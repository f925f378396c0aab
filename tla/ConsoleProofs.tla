---------------------------- MODULE ConsoleProofs ----------------------------
(***************************************************************************)
(* What TLAPS proves about Console, Requests and Schedules, for any number *)
(* of records, requests, clicks and times: FormGoesHome, types, and        *)
(* SchedulePlanned.                                                        *)
(*                                                                         *)
(* FormGoesHome is inductive: an action that opens a form sets both sides, *)
(* one that closes it leaves no values.  That target survives CloseForm is *)
(* harmless for this reason alone.                                         *)
(*                                                                         *)
(* SchedulePlanned is about what is stored, but a request and a tick write *)
(* copies that they took before: the copies have to be as good as what is  *)
(* stored (CopiesAhead), what a tick is to run has to be what was due and  *)
(* is stored (DueAsStored), and both only as long as no two writers of a   *)
(* schedule overlap.  An id that is given to a new schedule must be in     *)
(* nobody's hands (Numbered).  A run takes its time from when it was due:  *)
(* that nothing later has been run for (DueAsStored, RanBefore) puts the   *)
(* new time ahead, or, when it is the zero time, the run before it.        *)
(***************************************************************************)
EXTENDS Console, TLAPS

\* The marks for "no form" and "a new record" are no ids, and differ.
LEMMA MarksAreNoIds == None \notin Item /\ New \notin Item /\ None # New
  BY SchedulesAssumption DEF None, New, Item

\* Steps that leave the form alone, or close it, keep the property.
LEMMA SameFormKeeps == FormGoesHome /\ SameForm => FormGoesHome'
  BY DEF FormGoesHome, SameForm

LEMMA ClosedFormKeeps == ClosedForm => FormGoesHome'
  BY MarksAreNoIds DEF FormGoesHome, ClosedForm

\* Opening, closing and sending the forms of the pages.
LEMMA UserKeeps == FormGoesHome /\ User => FormGoesHome'
<1> SUFFICES ASSUME FormGoesHome, User PROVE FormGoesHome'
  OBVIOUS
<1> USE SameFormKeeps, ClosedFormKeeps
<1>1. CASE OpenNew
  BY <1>1, MarksAreNoIds DEF OpenNew, FormGoesHome
<1>2. CASE CloseForm
  BY <1>2, MarksAreNoIds DEF CloseForm, FormGoesHome
<1>3. CASE Save \/ HandleCreate \/ HandleUpdate \/ SaveRecordForm
  BY <1>3 DEF Save, HandleCreate, HandleUpdate, SaveRecordForm
<1>4. CASE ShowNew \/ OpenSaveModal
  BY <1>4 DEF ShowNew, OpenSaveModal
<1>5. CASE CloseRecord
  BY <1>5 DEF CloseRecord
<1>6. CASE CreateUser \/ SaveQuery
  BY <1>6 DEF CreateUser, SaveQuery, form, SameForm
<1>7. ASSUME NEW i \in Item,
             \/ OpenEdit(i) \/ Remove(i) \/ ToggleEnabled(i) \/ ToggleExpand(i)
             \/ HandleDelete(i) \/ OpenRecord(i) \/ DeleteRow(i)
      PROVE  FormGoesHome'
  <2>1. CASE OpenEdit(i) \/ OpenRecord(i)
    BY <2>1, MarksAreNoIds DEF OpenEdit, OpenRecord, FormGoesHome
  <2>2. CASE ToggleExpand(i)
    BY <2>2, MarksAreNoIds DEF ToggleExpand, FormGoesHome
  <2>3. CASE Remove(i) \/ ToggleEnabled(i) \/ HandleDelete(i) \/ DeleteRow(i)
    BY <2>3 DEF Remove, ToggleEnabled, HandleDelete, DeleteRow, form, SameForm
  <2> QED
    BY <1>7, <2>1, <2>2, <2>3
<1>8. ASSUME NEW p \in Page, Navigate(p) PROVE FormGoesHome'
  BY <1>8 DEF Navigate, Blank
<1> QED
  BY <1>1, <1>2, <1>3, <1>4, <1>5, <1>6, <1>7, <1>8 DEF User

\* Answers, lists and timers, whichever form they find.
LEMMA ArriveKeeps ==
  ASSUME NEW c \in Call, FormGoesHome, Arrive(c) PROVE FormGoesHome'
<1> USE SameFormKeeps, ClosedFormKeeps
<1>1. CASE ScheduleArrives(c) \/ DatasourceArrives(c) \/ UserArrives(c)
  BY <1>1 DEF ScheduleArrives, DatasourceArrives, UserArrives
<1>2. CASE QueryArrives(c) \/ Dropped(c)
  BY <1>2 DEF QueryArrives, Dropped, form, SameForm
<1>3. CASE RefusalArrives(c) \/ ListArrives(c) \/ TimerFires(c)
  BY <1>3 DEF RefusalArrives, ListArrives, TimerFires
<1> QED
  BY <1>1, <1>2, <1>3 DEF Arrive

\* A form's values go to the record they came from, in every reachable state,
\* for any number of records, requests and clicks.
THEOREM FormsGoHome == Spec => []FormGoesHome
<1>1. Init => FormGoesHome
  BY MarksAreNoIds DEF Init, FormGoesHome
<1>2. FormGoesHome /\ [Next]_vars => FormGoesHome'
  <2> SUFFICES ASSUME FormGoesHome, [Next]_vars PROVE FormGoesHome'
    OBVIOUS
  <2>1. CASE User
    BY <2>1, UserKeeps
  <2>2. ASSUME NEW c \in Call, Arrive(c) PROVE FormGoesHome'
    BY <2>2, ArriveKeeps
  <2>3. CASE \E c \in Call : Serve(c) /\ UNCHANGED <<view, form, clicks>>
    BY <2>3, SameFormKeeps DEF form, SameForm
  <2>4. CASE Poll \/ FirstList
    BY <2>4, SameFormKeeps DEF Poll, FirstList, form, SameForm
  <2>5. CASE (Scheduling \/ Pass) /\ UNCHANGED Background
    BY <2>5, SameFormKeeps DEF Background, form, SameForm
  <2>6. CASE UNCHANGED vars
    BY <2>6, SameFormKeeps DEF vars, form, SameForm
  <2> QED
    BY <2>1, <2>2, <2>3, <2>4, <2>5, <2>6 DEF Next
<1> QED
  BY <1>1, <1>2, PTL DEF Spec
-----------------------------------------------------------------------------
(* Types, and the schedules' plans: the invariant *)

CallRecord ==
    [res : Kind \cup {"schedule", "none"},
     kind : {"none", "create", "update", "delete"}, id : 0..MaxItems,
     by : {"button", "save", "closing"}, gone : BOOLEAN, ok : BOOLEAN,
     at : {"idle", "sent", "loaded", "answered", "listing", "timer"},
     plan : Plan, seen : SUBSET Item]
CallTypes ==
    /\ calls \in [Call -> CallRecord]
    /\ \A c \in Call : calls[c].kind \in {"update", "delete"} => calls[c].id \in Item
ServerTypes ==
    SchedulesTypeOK /\ stored \in [Kind -> SUBSET Item] /\ lastId \in 0..MaxItems
PageTypes ==
    /\ at \in Page /\ listed \subseteq Item /\ shown \in [Item -> Plan]
    /\ offered \subseteq Item /\ from \in 0..New /\ target \in 0..MaxItems
    /\ formDS \in 0..MaxItems /\ fresh \in BOOLEAN /\ saving \in BOOLEAN
    /\ clicks \in 0..MaxClicks
    /\ from = New => at = "schedule"

\* an update that holds the copy it is to save
Loaded(c) == Is(c, {"schedule"}, "update", "loaded")

\* an enabled schedule has a time to run at, which is ahead of what has run
HasTime(p) == p.enabled => p.next # Nil
Ahead(p, i) == IF p.enabled THEN p.next > ranFor[i] \/ RanOut(p, i)
                            ELSE p.next = Nil

\* a step in which no copy is made or changed
CopiesSame ==
    \A c \in Call : Loaded(c)' => /\ Loaded(c) /\ calls'[c].id = calls[c].id
                                 /\ calls'[c].plan = calls[c].plan

\* ids are not used before they are given
Numbered ==
    /\ \A i \in Item : plans[i].there => i <= lastId
    /\ \A d \in due : d.id <= lastId
    /\ \A c \in Call : Loaded(c) => calls[c].id <= lastId
PlansAhead ==
    \A i \in Item : plans[i].there =>
      HasTime(plans[i]) /\ (~torn[i] => Ahead(plans[i], i))
\* a copy that is to be saved is as good as what is stored
CopiesAhead ==
    \A c \in Call : Loaded(c) =>
      /\ HasTime(calls[c].plan)
      /\ ~torn[calls[c].id] => Ahead(calls[c].plan, calls[c].id)
\* what a tick is to run was due, and is what is stored
DueAsStored ==
    /\ \A d \in due : /\ d.at <= now /\ d.plan.next <= d.at
                      /\ d.plan.enabled /\ d.plan.next # Nil
                      /\ ranFor[d.id] <= d.at
                      /\ ~torn[d.id] => plans[d.id] = d.plan
    /\ \A d, e \in due : d.id = e.id => d = e
RanBefore == \A i \in Item : ranFor[i] <= now

PlanInv == Numbered /\ PlansAhead /\ CopiesAhead /\ DueAsStored /\ RanBefore
IInv == ServerTypes /\ CallTypes /\ PageTypes /\ PlanInv

\* What the provers are to know of the sets of numbers.
LEMMA Numbers ==
  /\ MaxItems \in Nat /\ MaxItems > 1 /\ MaxTime \in Nat /\ MaxTime > 0
  /\ MaxClicks \in Nat /\ Item = 1..MaxItems /\ New = MaxItems + 1 /\ Me \in Item
  /\ Nil = -1 /\ Zero = 0 /\ None = 0
  BY SchedulesAssumption, RequestsAssumption, ConsoleAssumption
     DEF Nil, Zero, None, Item, New

\* The next time is a time after, or the zero time.
LEMMA NextTypes ==
  ASSUME NEW cron \in Cron, NEW t \in 1..MaxTime
  PROVE  /\ NextRun(cron, t) \in Nil..(MaxTime + 1) /\ NextRun(cron, t) # Nil
         /\ NextRun(cron, t) = 0 \/ NextRun(cron, t) > t
<1>1. /\ NextMatch[cron][t] \in 0..(MaxTime + 1)
      /\ NextMatch[cron][t] = 0 \/ NextMatch[cron][t] > t
  BY Numbers, SchedulesAssumption
<1> QED
  BY <1>1, Numbers DEF NextRun

\* An idle request and an empty plan.
LEMMA Blanks ==
  /\ NoPlan \in Plan /\ NoPlan.there = FALSE /\ NoPlan.enabled = FALSE
  /\ NoPlan.next = Nil
  /\ Idle \in CallRecord /\ Idle.at = "idle" /\ Idle.kind = "none"
<1>1. Nil \in Nil..(MaxTime + 1) /\ 0 \in 0..MaxItems
      /\ (CHOOSE c \in Cron : TRUE) \in Cron
  BY Numbers, SchedulesAssumption
<1>2. NoPlan \in Plan /\ NoPlan.there = FALSE /\ NoPlan.enabled = FALSE
      /\ NoPlan.next = Nil
  BY <1>1 DEF NoPlan, Plan
<1>3. Idle \in CallRecord /\ Idle.at = "idle" /\ Idle.kind = "none"
  BY <1>1, <1>2 DEF Idle, CallRecord
<1> QED
  BY <1>2, <1>3

\* One request changes.
LEMMA CallSet ==
  ASSUME CallTypes, NEW c \in Call, NEW r \in CallRecord,
         calls' = [calls EXCEPT ![c] = r],
         r.kind \in {"update", "delete"} => r.id \in Item
  PROVE  CallTypes' /\ calls'[c] = r /\ \A d \in Call \ {c} : calls'[d] = calls[d]
  BY DEF CallTypes

\* An answer.
LEMMA AnswerSet ==
  ASSUME CallTypes, NEW c \in Call, NEW ok \in BOOLEAN, Answer(c, ok)
  PROVE  CallTypes' /\ ~Loaded(c)' /\ \A d \in Call \ {c} : calls'[d] = calls[d]
<1> DEFINE r == [calls[c] EXCEPT !.at = "answered", !.ok = ok, !.plan = NoPlan,
                                 !.seen = {}]
<1>1. calls' = [calls EXCEPT ![c] = r]
  BY DEF Answer, CallTypes, CallRecord
<1>2. r \in CallRecord /\ r.res = calls[c].res /\ r.kind = calls[c].kind
      /\ r.id = calls[c].id /\ r.at = "answered"
  BY Blanks DEF CallTypes, CallRecord
<1> HIDE DEF r
<1>3. r.kind \in {"update", "delete"} => r.id \in Item
  BY <1>2 DEF CallTypes
<1>4. CallTypes' /\ calls'[c] = r /\ \A d \in Call \ {c} : calls'[d] = calls[d]
  BY <1>1, <1>2, <1>3, CallSet
<1> QED
  BY <1>2, <1>4 DEF Loaded, Is

\* The answer to a save, whether the file was written or not.
LEMMA SavedSet ==
  ASSUME CallTypes, NEW c \in Call, Saved(c)
  PROVE  CallTypes' /\ ~Loaded(c)' /\ \A d \in Call \ {c} : calls'[d] = calls[d]
  BY AnswerSet DEF Saved

\* A request moves on without loading anything.
LEMMA AtSet ==
  ASSUME CallTypes, NEW c \in Call,
         NEW a \in {"loaded", "listing", "timer"}, NEW S \in SUBSET Item,
         \/ calls' = [calls EXCEPT ![c].at = a]
         \/ calls' = [calls EXCEPT ![c].at = a, ![c].seen = S],
         a = "loaded" => calls[c].res # "schedule"
  PROVE  CallTypes' /\ ~Loaded(c)' /\ \A d \in Call \ {c} : calls'[d] = calls[d]
<1> DEFINE r == [calls[c] EXCEPT !.at = a]
           s == [calls[c] EXCEPT !.at = a, !.seen = S]
<1>1. \/ calls' = [calls EXCEPT ![c] = r]
      \/ calls' = [calls EXCEPT ![c] = s]
  BY DEF CallTypes, CallRecord
<1>2. r \in CallRecord /\ r.res = calls[c].res /\ r.kind = calls[c].kind
      /\ r.id = calls[c].id /\ r.at = a
  BY DEF CallTypes, CallRecord
<1>3. s \in CallRecord /\ s.res = calls[c].res /\ s.kind = calls[c].kind
      /\ s.id = calls[c].id /\ s.at = a
  BY DEF CallTypes, CallRecord
<1> HIDE DEF r, s
<1>4. calls[c].kind \in {"update", "delete"} => calls[c].id \in Item
  BY DEF CallTypes
<1>5. PICK t \in {r, s} : calls' = [calls EXCEPT ![c] = t]
  BY <1>1
<1>6. t \in CallRecord /\ t.res = calls[c].res /\ t.kind = calls[c].kind
      /\ t.id = calls[c].id /\ t.at = a
  BY <1>2, <1>3
<1>7. CallTypes' /\ calls'[c] = t /\ \A d \in Call \ {c} : calls'[d] = calls[d]
  BY <1>4, <1>5, <1>6, CallSet
<1> QED
  BY <1>6, <1>7 DEF Loaded, Is

\* A request is over.
LEMMA EndSet ==
  ASSUME CallTypes, NEW c \in Call, EndCall(c)
  PROVE  CallTypes' /\ ~Loaded(c)' /\ \A d \in Call \ {c} : calls'[d] = calls[d]
  BY Blanks, CallSet DEF EndCall, Loaded, Is

\* The page sends a request.
LEMMA SendSet ==
  ASSUME CallTypes, PageTypes, NEW kind \in {"create", "update", "delete"},
         NEW id \in 0..MaxItems, NEW by \in {"button", "save", "closing"},
         NEW plan \in Plan, kind # "create" => id \in Item, Send(kind, id, by, plan)
  PROVE  /\ CallTypes' /\ clicks' \in 0..MaxClicks
         /\ CopiesSame /\ UNCHANGED <<scheduler, stored, lastId, view>>
<1> DEFINE r == [Idle EXCEPT !.res = at, !.kind = kind, !.id = id, !.by = by,
                             !.plan = plan, !.at = "sent"]
<1>1. PICK c \in Call : calls' = [calls EXCEPT ![c] = r]
  BY DEF Send
<1>2. r \in CallRecord /\ r.at = "sent" /\ r.kind = kind /\ r.id = id
  BY Blanks DEF CallRecord, PageTypes, Page
<1> HIDE DEF r
<1>3. CallTypes' /\ calls'[c] = r /\ \A d \in Call \ {c} : calls'[d] = calls[d]
  BY <1>1, <1>2, CallSet
<1>4. clicks' \in 0..MaxClicks /\ UNCHANGED <<scheduler, stored, lastId, view>>
  BY Numbers DEF Send, Click, PageTypes
<1> QED
  BY <1>2, <1>3, <1>4 DEF CopiesSame, Loaded, Is

\* What changes neither schedules nor copies changes no plan.
LEMMA PlansSame ==
  ASSUME PlanInv, UNCHANGED <<scheduler, lastId>>, CopiesSame
  PROVE  PlanInv'
<1>1. UNCHANGED <<now, plans, due, torn, ranFor>>
  BY DEF scheduler
<1>2. Numbered' /\ CopiesAhead'
  BY <1>1 DEF PlanInv, Numbered, CopiesAhead, Ahead, RanOut, HasTime, CopiesSame
<1>3. PlansAhead' /\ DueAsStored' /\ RanBefore'
  BY <1>1 DEF PlanInv, PlansAhead, DueAsStored, RanBefore, Ahead, RanOut
<1> QED
  BY <1>2, <1>3 DEF PlanInv

-----------------------------------------------------------------------------
(* The server's steps *)

\* applySchedule gives an enabled schedule a time that is ahead, from a body the
\* server accepts.
LEMMA AppliedAhead ==
  ASSUME ServerTypes, RanBefore, NEW base \in Plan, NEW body \in Plan,
         Acceptable(base, body), NEW i \in Item
  PROVE  /\ Applied(base, body) \in Plan /\ HasTime(Applied(base, body))
         /\ base.next = Nil \/ Ahead(base, i) => Ahead(Applied(base, body), i)
<1> DEFINE planned == body.cron # base.cron \/ base.next = Nil
           next == IF ~body.enabled THEN Nil
                   ELSE IF planned THEN NextRun(body.cron, now) ELSE base.next
<1>1. Applied(base, body) = [body EXCEPT !.next = next]
  BY DEF Applied
<1>2. /\ now \in 1..MaxTime /\ base.next \in Nil..(MaxTime + 1)
      /\ body.cron \in Cron /\ base.cron \in Cron
      /\ ranFor[i] \in 0..(MaxTime + 1) /\ ranFor[i] <= now
      /\ body.enabled \in BOOLEAN /\ base.enabled \in BOOLEAN
  BY DEF ServerTypes, SchedulesTypeOK, Plan, RanBefore
<1>3. body.enabled /\ planned => /\ NextRun(body.cron, now) > now
                                 /\ NextRun(body.cron, now) \in Nil..(MaxTime + 1)
  BY <1>2, NextTypes, Numbers DEF Acceptable
<1>4. next \in Nil..(MaxTime + 1)
  BY <1>2, <1>3, Numbers
<1>5. body.enabled => next # Nil
  BY <1>2, <1>3, Numbers
<1>6. ASSUME base.next = Nil \/ Ahead(base, i)
      PROVE  IF body.enabled THEN \/ next > ranFor[i]
                                  \/ /\ next = Zero /\ ranFor[i] > 0
                                     /\ \E t \in 1..now : NextRun(body.cron, t) = Zero
                             ELSE next = Nil
  <2>1. CASE ~body.enabled
    BY <2>1
  <2>2. CASE body.enabled /\ planned
    BY <1>2, <1>3, <2>2, Numbers
  <2>3. CASE body.enabled /\ ~planned
    <3>1. next = base.next /\ body.cron = base.cron /\ base.next # Nil
      BY <2>3
    <3>2. base.enabled
      BY <1>6, <3>1 DEF Ahead
    <3> QED
      BY <1>6, <3>1, <3>2, <2>3 DEF Ahead, RanOut
  <2> QED
    BY <1>2, <2>1, <2>2, <2>3
<1> HIDE DEF next
<1>7. /\ [body EXCEPT !.next = next] \in Plan
      /\ [body EXCEPT !.next = next].next = next
      /\ [body EXCEPT !.next = next].enabled = body.enabled
      /\ [body EXCEPT !.next = next].cron = body.cron
      /\ [body EXCEPT !.next = next].there = body.there
  BY <1>4 DEF Plan
<1> QED
  BY <1>1, <1>5, <1>6, <1>7 DEF HasTime, Ahead, RanOut

\* An answer whose handler writes no schedule.
LEMMA RecordsKeep ==
  ASSUME ServerTypes, CallTypes, PlanInv, NEW c \in Call,
         LoadSettings(c) \/ SaveSettings(c) \/ CreateRecord(c) \/ LoadRecord(c)
           \/ SaveRecord(c) \/ DeleteRecord(c)
  PROVE  ServerTypes' /\ CallTypes' /\ PlanInv'
<1>1. UNCHANGED scheduler
  BY DEF LoadSettings, SaveSettings, CreateRecord, LoadRecord, SaveRecord, DeleteRecord
<1>2. /\ calls[c].res \in Kind => stored[calls[c].res] \subseteq Item
      /\ calls[c].seen \subseteq Item /\ calls[c].id \in 0..MaxItems
      /\ "datasource" \in Kind /\ stored["datasource"] \subseteq Item
      /\ stored \in [Kind -> SUBSET Item] /\ lastId \in 0..MaxItems
  BY DEF ServerTypes, CallTypes, CallRecord, Kind
<1>3. lastId < MaxItems => NewId \in Item /\ NewId \in 0..MaxItems /\ lastId <= NewId
  BY <1>2, Numbers DEF NewId, Item
<1>4. /\ CallTypes' /\ ~Loaded(c)' /\ \A d \in Call \ {c} : calls'[d] = calls[d]
      /\ stored' \in [Kind -> SUBSET Item]
      /\ lastId' \in 0..MaxItems /\ lastId <= lastId'
  <2>1. CASE LoadSettings(c)
    <3>1. PICK kind \in {"create", "update", "delete"} :
            /\ Is(c, {"datasource"}, kind, "sent")
            /\ IF kind = "update" /\ calls[c].id \notin stored["datasource"]
                 THEN Answer(c, FALSE)
                 ELSE calls' = [calls EXCEPT ![c].at = "loaded",
                                             ![c].seen = stored["datasource"]]
      BY <2>1 DEF LoadSettings
    <3>2. calls[c].res # "schedule" /\ stored["datasource"] \in SUBSET Item
      BY <1>2, <3>1 DEF Is
    <3>3. CallTypes' /\ ~Loaded(c)' /\ \A d \in Call \ {c} : calls'[d] = calls[d]
      BY <3>1, <3>2, AnswerSet, AtSet
    <3> QED
      BY <1>2, <2>1, <3>3, Numbers DEF LoadSettings
  <2>2. CASE SaveSettings(c)
    <3>1. CallTypes' /\ ~Loaded(c)' /\ \A d \in Call \ {c} : calls'[d] = calls[d]
      BY <2>2, AnswerSet, SavedSet DEF SaveSettings
    <3>2. PICK S : /\ stored' = [stored EXCEPT !["datasource"] = S]
                   /\ \/ lastId' = NewId /\ lastId < MaxItems
                         /\ S = calls[c].seen \cup {NewId}
                      \/ lastId' = lastId /\ S \subseteq calls[c].seen
      BY <2>2 DEF SaveSettings
    <3>3. S \in SUBSET Item
      BY <1>2, <1>3, <3>2
    <3>4. lastId' \in 0..MaxItems /\ lastId <= lastId'
      BY <1>2, <1>3, <3>2, Numbers
    <3>5. stored' \in [Kind -> SUBSET Item]
      BY <1>2, <3>2, <3>3
    <3> QED
      BY <3>1, <3>4, <3>5
  <2>3. CASE CreateRecord(c)
    <3>1. CallTypes' /\ ~Loaded(c)' /\ \A d \in Call \ {c} : calls'[d] = calls[d]
      BY <2>3, AnswerSet, SavedSet DEF CreateRecord
    <3>2. \/ /\ lastId < MaxItems /\ lastId' = NewId
             /\ stored' = [stored EXCEPT ![calls[c].res] = @ \cup {NewId}]
          \/ UNCHANGED <<stored, lastId>>
      BY <2>3 DEF CreateRecord
    <3>3. lastId' \in 0..MaxItems /\ lastId <= lastId'
      BY <1>2, <1>3, <3>2, Numbers
    <3>4. calls[c].res \in Kind /\ stored[calls[c].res] \subseteq Item
      BY <1>2, <2>3 DEF CreateRecord, Is, Kind
    <3>5. stored' \in [Kind -> SUBSET Item]
      BY <1>2, <1>3, <3>2, <3>4
    <3> QED
      BY <3>1, <3>3, <3>5
  <2>4. CASE LoadRecord(c)
    <3>1. calls[c].res # "schedule"
      BY <2>4 DEF LoadRecord, Is
    <3>2. CallTypes' /\ ~Loaded(c)' /\ \A d \in Call \ {c} : calls'[d] = calls[d]
      BY <2>4, <3>1, AnswerSet, AtSet DEF LoadRecord
    <3> QED
      BY <1>2, <2>4, <3>2, Numbers DEF LoadRecord
  <2>5. CASE SaveRecord(c) \/ DeleteRecord(c)
    <3>1. CallTypes' /\ ~Loaded(c)' /\ \A d \in Call \ {c} : calls'[d] = calls[d]
      BY <2>5, AnswerSet, SavedSet DEF SaveRecord, DeleteRecord
    <3>2. calls[c].res \in Kind /\ calls[c].id \in Item
          /\ stored[calls[c].res] \subseteq Item
      BY <1>2, <2>5 DEF SaveRecord, DeleteRecord, Is, Kind, CallTypes
    <3>3. /\ lastId' = lastId
          /\ \E S \in SUBSET Item :
               stored' = stored \/ stored' = [stored EXCEPT ![calls[c].res] = S]
      BY <2>5, <3>2 DEF SaveRecord, DeleteRecord
    <3>4. stored' \in [Kind -> SUBSET Item]
      BY <1>2, <3>3
    <3> QED
      BY <1>2, <3>1, <3>3, <3>4, Numbers
  <2> QED
    BY <2>1, <2>2, <2>3, <2>4, <2>5
<1>5. UNCHANGED <<now, plans, due, torn, ranFor>>
  BY <1>1 DEF scheduler
<1>6. ServerTypes'
  BY <1>4, <1>5 DEF ServerTypes, SchedulesTypeOK
<1>7. \A d \in Call : Loaded(d)' => Loaded(d) /\ calls'[d] = calls[d]
  BY <1>4 DEF Loaded, Is
<1>8. PlanInv'
  <2>1. /\ \A i \in Item : i \in Nat
        /\ \A d \in due : d.id \in Nat
        /\ lastId \in Nat /\ lastId' \in Nat
    BY <1>2, <1>4, Numbers DEF ServerTypes, SchedulesTypeOK
  <2>2. \A d \in Call : calls[d].id \in Nat
    BY Numbers DEF CallTypes, CallRecord
  <2>3. Numbered'
    BY <1>4, <1>5, <1>7, <2>1, <2>2 DEF PlanInv, Numbered
  <2> QED
    BY <1>5, <1>7, <2>3
       DEF PlanInv, PlansAhead, CopiesAhead, DueAsStored, RanBefore, Ahead, RanOut
<1> QED
  BY <1>4, <1>6, <1>8

\* createSchedule: an id that nothing uses yet.
LEMMA CreateKeeps ==
  ASSUME ServerTypes, CallTypes, PlanInv, NEW c \in Call, CreateSchedule(c)
  PROVE  ServerTypes' /\ CallTypes' /\ PlanInv'
<1>1. CallTypes' /\ ~Loaded(c)' /\ \A d \in Call \ {c} : calls'[d] = calls[d]
  BY AnswerSet, SavedSet DEF CreateSchedule
<1>2. \A d \in Call : Loaded(d)' => Loaded(d) /\ calls'[d] = calls[d]
  BY <1>1 DEF Loaded, Is
<1>3. UNCHANGED <<now, due, torn, ranFor, stored>>
  BY DEF CreateSchedule
<1>4. CASE UNCHANGED <<plans, lastId>>
  <2>1. UNCHANGED scheduler
    BY <1>3, <1>4 DEF scheduler
  <2>2. PlanInv'
    BY <1>2, <1>4, <2>1, PlansSame DEF CopiesSame
  <2>3. ServerTypes'
    BY <1>3, <1>4 DEF ServerTypes, SchedulesTypeOK
  <2> QED
    BY <1>1, <2>2, <2>3
<1>5. CASE ~UNCHANGED <<plans, lastId>>
  <2> DEFINE p == Applied(NoPlan, calls[c].plan)
  <2>1. /\ Acceptable(NoPlan, calls[c].plan)
        /\ lastId < MaxItems /\ lastId' = NewId
        /\ plans' = [plans EXCEPT ![NewId] = p]
    BY <1>5 DEF CreateSchedule
  <2>2. lastId \in Nat /\ lastId \in 0..MaxItems /\ lastId' = lastId + 1
        /\ NewId = lastId + 1 /\ NewId \in Item /\ lastId' \in 0..MaxItems
    BY <2>1, Numbers DEF ServerTypes, NewId
  <2>3. p \in Plan /\ HasTime(p) /\ Ahead(p, NewId)
    <3>1. calls[c].plan \in Plan
      BY DEF CallTypes, CallRecord
    <3> QED
      BY <2>1, <2>2, <3>1, AppliedAhead, Blanks DEF PlanInv
  <2> HIDE DEF p
  <2>4. ServerTypes'
    BY <1>3, <2>1, <2>2, <2>3 DEF ServerTypes, SchedulesTypeOK
  <2>5. plans'[NewId] = p /\ \A i \in Item \ {NewId} : plans'[i] = plans[i]
    BY <2>1, <2>2 DEF ServerTypes, SchedulesTypeOK
  <2>6. /\ \A i \in Item : i \in Nat
        /\ \A d \in due : d.id \in Item /\ d.id \in Nat
        /\ \A d \in Call : calls[d].id \in Nat
    BY Numbers DEF ServerTypes, SchedulesTypeOK, CallTypes, CallRecord
  <2>7. Numbered'
    <3>1. ASSUME NEW i \in Item, plans'[i].there PROVE i <= lastId'
      <4>1. CASE i = NewId
        BY <2>2, <4>1
      <4>2. CASE i # NewId
        <5>1. plans[i].there /\ i \in Nat
          BY <2>5, <2>6, <3>1, <4>2
        <5>2. i <= lastId
          BY <5>1 DEF PlanInv, Numbered
        <5> QED
          BY <2>2, <5>1, <5>2
      <4> QED
        BY <4>1, <4>2
    <3>2. \A d \in due' : d.id <= lastId'
      BY <1>3, <2>2, <2>6 DEF PlanInv, Numbered
    <3>3. \A d \in Call : Loaded(d)' => calls'[d].id <= lastId'
      BY <1>2, <2>2, <2>6 DEF PlanInv, Numbered
    <3> QED
      BY <3>1, <3>2, <3>3 DEF Numbered
  <2>8. \A d \in due : plans'[d.id] = plans[d.id]
    BY <2>2, <2>5, <2>6 DEF PlanInv, Numbered
  <2>9. PlansAhead' /\ CopiesAhead'
    BY <1>2, <1>3, <2>3, <2>5 DEF PlanInv, PlansAhead, CopiesAhead, Ahead, RanOut
  <2>10. DueAsStored' /\ RanBefore'
    BY <1>3, <2>8 DEF PlanInv, DueAsStored, RanBefore
  <2> QED
    BY <1>1, <2>4, <2>7, <2>9, <2>10 DEF PlanInv
<1> QED
  BY <1>4, <1>5

\* The first half of updateSchedule takes a copy that is as good as the original.
LEMMA LoadKeeps ==
  ASSUME ServerTypes, CallTypes, PlanInv, NEW c \in Call, LoadSchedule(c)
  PROVE  ServerTypes' /\ CallTypes' /\ PlanInv'
<1> DEFINE i == calls[c].id
           base == plans[i]
           body == calls[c].plan
           p == Applied(base, body)
<1>1. UNCHANGED <<scheduler, stored, lastId>>
  BY DEF LoadSchedule
<1>2. UNCHANGED <<now, plans, due, torn, ranFor>>
  BY <1>1 DEF scheduler
<1>3. ServerTypes'
  BY <1>1, <1>2 DEF ServerTypes, SchedulesTypeOK
<1>4. CASE Answer(c, FALSE)
  <2>1. CallTypes' /\ ~Loaded(c)' /\ \A d \in Call \ {c} : calls'[d] = calls[d]
    BY <1>4, AnswerSet
  <2>2. CopiesSame
    BY <2>1 DEF CopiesSame, Loaded, Is
  <2> QED
    BY <1>1, <1>3, <2>1, <2>2, PlansSame
<1>5. CASE ~Answer(c, FALSE)
  <2>1. base.there /\ Acceptable(base, body)
        /\ calls' = [calls EXCEPT ![c].at = "loaded", ![c].plan = p]
    BY <1>5 DEF LoadSchedule
  <2>2. i \in Item
    BY DEF LoadSchedule, Is, CallTypes
  <2>3. base \in Plan /\ body \in Plan
    BY <2>2 DEF ServerTypes, SchedulesTypeOK, CallTypes, CallRecord
  <2>4. HasTime(base) /\ (~torn[i] => Ahead(base, i)) /\ i <= lastId
    BY <2>1, <2>2 DEF PlanInv, PlansAhead, Numbered
  <2>5. p \in Plan /\ HasTime(p) /\ (~torn[i] => Ahead(p, i))
    BY <2>1, <2>2, <2>3, <2>4, AppliedAhead DEF PlanInv
  <2> DEFINE r == [calls[c] EXCEPT !.at = "loaded", !.plan = p]
  <2> HIDE DEF p
  <2>6. calls' = [calls EXCEPT ![c] = r]
    BY <2>1 DEF CallTypes, CallRecord
  <2>7. r \in CallRecord /\ r.kind = calls[c].kind /\ r.id = i /\ r.plan = p
    BY <2>5 DEF CallTypes, CallRecord
  <2> HIDE DEF r
  <2>8. r.kind \in {"update", "delete"} => r.id \in Item
    BY <2>2, <2>7
  <2>9. CallTypes' /\ calls'[c] = r /\ \A d \in Call \ {c} : calls'[d] = calls[d]
    BY <2>6, <2>7, <2>8, CallSet
  <2>10. \A d \in Call : Loaded(d)' => d = c \/ (Loaded(d) /\ calls'[d] = calls[d])
    BY <2>9 DEF Loaded, Is
  <2>11. Numbered'
    BY <1>1, <1>2, <2>4, <2>7, <2>9, <2>10 DEF PlanInv, Numbered
  <2>12. CopiesAhead'
    <3>1. ASSUME NEW d \in Call, Loaded(d)'
          PROVE  (/\ HasTime(calls[d].plan)
                  /\ ~torn[calls[d].id] => Ahead(calls[d].plan, calls[d].id))'
      <4>1. CASE d = c
        <5>1. calls'[d].id = i /\ calls'[d].plan = p
          BY <2>7, <2>9, <4>1
        <5> QED
          BY <1>2, <2>5, <5>1 DEF Ahead, RanOut, HasTime
      <4>2. CASE d # c
        <5>1. Loaded(d) /\ calls'[d] = calls[d]
          BY <2>10, <3>1, <4>2
        <5> QED
          BY <1>2, <5>1 DEF PlanInv, CopiesAhead, Ahead, RanOut, HasTime
      <4> QED
        BY <4>1, <4>2
    <3> QED
      BY <3>1 DEF CopiesAhead
  <2>13. PlansAhead' /\ DueAsStored' /\ RanBefore'
    BY <1>2 DEF PlanInv, PlansAhead, DueAsStored, RanBefore, Ahead, RanOut
  <2> QED
    BY <1>3, <2>9, <2>11, <2>12, <2>13 DEF PlanInv
<1> QED
  BY <1>4, <1>5

\* A step that writes the plan of one schedule, and overlaps with no other one
\* that has still to write it, unless it says so.
LEMMA WriteKeeps ==
  ASSUME ServerTypes, CallTypes, PlanInv, NEW c \in Call, NEW i \in Item, NEW p \in Plan,
         plans' = [plans EXCEPT ![i] = p],
         torn' = [torn EXCEPT ![i] = @ \/ Held(i, c)],
         UNCHANGED <<now, due, ranFor, stored, lastId>>,
         \A d \in Call : Loaded(d)' => d # c /\ Loaded(d) /\ calls'[d] = calls[d],
         p.there => i <= lastId /\ HasTime(p) /\ (~torn[i] => Ahead(p, i))
  PROVE  ServerTypes' /\ PlanInv'
<1>1. Held(i, c) \in BOOLEAN
  BY DEF Held, Holds, Is
<1>2. /\ plans'[i] = p /\ \A j \in Item \ {i} : plans'[j] = plans[j]
      /\ torn'[i] = (torn[i] \/ Held(i, c)) /\ \A j \in Item \ {i} : torn'[j] = torn[j]
  BY DEF ServerTypes, SchedulesTypeOK
<1>3. ServerTypes'
  <2>1. torn[i] \in BOOLEAN /\ (torn[i] \/ Held(i, c)) \in BOOLEAN
    BY <1>1 DEF ServerTypes, SchedulesTypeOK
  <2>2. torn' \in [Item -> BOOLEAN]
    BY <2>1 DEF ServerTypes, SchedulesTypeOK
  <2>3. plans' \in [Item -> Plan]
    BY DEF ServerTypes, SchedulesTypeOK
  <2> QED
    BY <2>2, <2>3 DEF ServerTypes, SchedulesTypeOK
<1>4. \A d \in Call : Loaded(d)' /\ calls[d].id = i => torn'[i]
  BY <1>2 DEF Held, Holds, Loaded
<1>5. \A d \in due : d.id \in Item /\ (d.id = i => torn'[i])
  BY <1>2 DEF Held, ServerTypes, SchedulesTypeOK
<1>6. Numbered' /\ PlansAhead'
  <2>1. Numbered'
    BY <1>2 DEF PlanInv, Numbered
  <2>2. ASSUME NEW j \in Item, plans'[j].there
        PROVE  (HasTime(plans[j]) /\ (~torn[j] => Ahead(plans[j], j)))'
    <3>1. CASE j = i
      <4>1. plans'[j] = p /\ p.there /\ now' = now /\ ranFor' = ranFor
        BY <1>2, <2>2, <3>1
      <4>2. HasTime(p) /\ (~torn'[j] => Ahead(p, j))
        BY <1>2, <3>1, <4>1
      <4>3. HasTime(plans[j])'
        BY <4>1, <4>2 DEF HasTime
      <4>4. Ahead(p, j) => Ahead(plans[j], j)'
        BY <4>1 DEF Ahead, RanOut, NextRun
      <4> QED
        BY <4>2, <4>3, <4>4
    <3>2. CASE j # i
      BY <1>2, <2>2, <3>2 DEF PlanInv, PlansAhead, HasTime, Ahead, RanOut
    <3> QED
      BY <3>1, <3>2
  <2> QED
    BY <2>1, <2>2 DEF PlansAhead
<1>7. CopiesAhead'
  <2>1. ASSUME NEW d \in Call, Loaded(d)'
        PROVE  (/\ HasTime(calls[d].plan)
                /\ ~torn[calls[d].id] => Ahead(calls[d].plan, calls[d].id))'
    <3>1. calls'[d] = calls[d] /\ Loaded(d)
      BY <2>1
    <3>2. calls[d].id \in Item
      BY <3>1 DEF Loaded, Is, CallTypes
    <3>3. /\ HasTime(calls[d].plan)
          /\ ~torn[calls[d].id] => Ahead(calls[d].plan, calls[d].id)
      BY <3>1 DEF PlanInv, CopiesAhead
    <3>4. ~torn'[calls[d].id] => ~torn[calls[d].id]
      BY <1>2, <1>4, <2>1, <3>2
    <3> QED
      BY <3>1, <3>3, <3>4 DEF HasTime, Ahead, RanOut
  <2> QED
    BY <2>1 DEF CopiesAhead
<1>8. DueAsStored' /\ RanBefore'
  BY <1>2, <1>5 DEF PlanInv, DueAsStored, RanBefore
<1> QED
  BY <1>3, <1>6, <1>7, <1>8 DEF PlanInv

\* The second half of updateSchedule, and deleteSchedule.
LEMMA SaveKeeps ==
  ASSUME ServerTypes, CallTypes, PlanInv, NEW c \in Call,
         SaveSchedule(c) \/ DeleteSchedule(c)
  PROVE  ServerTypes' /\ CallTypes' /\ PlanInv'
<1> DEFINE i == calls[c].id
<1>1. CallTypes' /\ ~Loaded(c)' /\ \A d \in Call \ {c} : calls'[d] = calls[d]
  BY AnswerSet, SavedSet DEF SaveSchedule, DeleteSchedule
<1>2. \A d \in Call : Loaded(d)' => d # c /\ Loaded(d) /\ calls'[d] = calls[d]
  BY <1>1 DEF Loaded, Is
<1>3. i \in Item
  BY DEF SaveSchedule, DeleteSchedule, Is, CallTypes
<1>4. UNCHANGED <<now, due, ranFor, stored, lastId>>
  BY DEF SaveSchedule, DeleteSchedule
<1>5. torn' = [torn EXCEPT ![i] = @ \/ Held(i, c)]
  BY DEF SaveSchedule, DeleteSchedule
<1>6. CASE SaveSchedule(c)
  <2>1. Loaded(c) /\ plans' = [plans EXCEPT ![i] = calls[c].plan]
    BY <1>6 DEF SaveSchedule, Loaded
  <2>2. i <= lastId /\ HasTime(calls[c].plan) /\ (~torn[i] => Ahead(calls[c].plan, i))
    BY <2>1 DEF PlanInv, Numbered, CopiesAhead
  <2>3. calls[c].plan \in Plan
    BY DEF CallTypes, CallRecord
  <2> HIDE DEF i
  <2> QED
    BY <1>1, <1>2, <1>3, <1>4, <1>5, <2>1, <2>2, <2>3, WriteKeeps
<1>7. CASE DeleteSchedule(c)
  <2>1. plans' = [plans EXCEPT ![i] = NoPlan]
    BY <1>7 DEF DeleteSchedule
  <2> HIDE DEF i
  <2> QED
    BY <1>1, <1>2, <1>3, <1>4, <1>5, <2>1, Blanks, WriteKeeps
<1> QED
  BY <1>6, <1>7

-----------------------------------------------------------------------------
(* The scheduler's steps *)

\* No enabled schedule is without a time, so a tick plans none anew; what it
\* takes to run is what is stored.
LEMMA TickKeeps ==
  ASSUME ServerTypes, CallTypes, PlanInv, Tick, UNCHANGED <<stored, lastId, calls>>
  PROVE  ServerTypes' /\ CallTypes' /\ PlanInv'
<1>1. Unplanned = {}
  BY DEF Unplanned, PlanInv, PlansAhead, HasTime
<1>2. plans' = plans
  BY <1>1 DEF Tick, Refreshed, ServerTypes, SchedulesTypeOK
<1>3. UNCHANGED <<now, torn, ranFor>>
  BY DEF Tick
<1>4. \A d \in due' : /\ d.id \in Item /\ d.plan = plans[d.id] /\ d.at = now
                      /\ Due(plans[d.id], now)
                      /\ d = [id |-> d.id, plan |-> plans[d.id], at |-> now]
  BY DEF Tick
<1>5. ServerTypes'
  <2>1. now \in 1..MaxTime /\ plans \in [Item -> Plan]
    BY DEF ServerTypes, SchedulesTypeOK
  <2>2. due' \subseteq [id : Item, plan : Plan, at : 1..MaxTime]
    BY <1>4, <2>1
  <2> QED
    BY <1>2, <1>3, <2>1, <2>2 DEF ServerTypes, SchedulesTypeOK
<1>6. CallTypes'
  BY DEF CallTypes
<1>7. \A d \in Call : Loaded(d)' => Loaded(d)
  BY DEF Loaded, Is
<1>8. Numbered' /\ PlansAhead' /\ CopiesAhead' /\ RanBefore'
  BY <1>2, <1>3, <1>4, <1>7
     DEF PlanInv, Numbered, PlansAhead, CopiesAhead, RanBefore, Ahead, RanOut, Due
<1>9. DueAsStored'
  <2>1. now \in Nat
    BY Numbers DEF ServerTypes, SchedulesTypeOK
  <2> QED
    BY <1>2, <1>3, <1>4, <2>1 DEF PlanInv, DueAsStored, RanBefore, Due
<1> QED
  BY <1>5, <1>6, <1>8, <1>9 DEF PlanInv

\* A run: the time it writes is after the one it ran for, unless something else
\* is to write the schedule or has written it.
LEMMA RunKeeps ==
  ASSUME ServerTypes, CallTypes, PlanInv, UNCHANGED <<stored, lastId, calls>>,
         NEW d \in due, Run(d, Holds(d.id, 0))
  PROVE  ServerTypes' /\ CallTypes' /\ PlanInv'
<1> DEFINE i == d.id
           next == NextRun(d.plan.cron, d.at)
<1>1. /\ i \in Item /\ d.plan \in Plan /\ d.at \in 1..MaxTime /\ now \in 1..MaxTime
      /\ d.at <= now /\ d.plan.next <= d.at /\ d.plan.next # Nil /\ d.plan.enabled
      /\ ranFor[i] <= d.at /\ ranFor[i] \in 0..(MaxTime + 1)
      /\ ~torn[i] => plans[i] = d.plan
  BY DEF ServerTypes, SchedulesTypeOK, PlanInv, DueAsStored
<1>2. /\ d.plan.next \in 0..(MaxTime + 1) /\ d.plan.next <= now
      /\ next \in Nil..(MaxTime + 1) /\ next # Nil
      /\ next = 0 \/ next > d.at
  <2>1. d.plan.next \in Nil..(MaxTime + 1) /\ d.plan.cron \in Cron
    BY <1>1 DEF Plan
  <2> QED
    BY <1>1, <2>1, Numbers, NextTypes
<1>3. \A e \in due' : e \in due /\ e.id \in Item /\ e.id # i
  BY DEF Run, PlanInv, DueAsStored, ServerTypes, SchedulesTypeOK
<1>4. UNCHANGED now
  BY DEF Run
<1> DEFINE p == [plans[i] EXCEPT !.next = next]
<1>5. /\ p \in Plan /\ p.next = next /\ p.enabled = plans[i].enabled
      /\ p.cron = plans[i].cron /\ p.there = plans[i].there
  BY <1>1, <1>2 DEF ServerTypes, SchedulesTypeOK, Plan
<1>6. plans' = plans \/ plans' = [plans EXCEPT ![i] = p]
  BY <1>1 DEF Run, ServerTypes, SchedulesTypeOK, Plan
<1> HIDE DEF p, next
<1>7. /\ plans' \in [Item -> Plan] /\ \A j \in Item \ {i} : plans'[j] = plans[j]
      /\ plans'[i].there => plans[i].there /\ plans'[i] = p
  <2>1. plans[i].there => plans' = [plans EXCEPT ![i] = p]
    BY <1>1 DEF Run, ServerTypes, SchedulesTypeOK, Plan, p, next
  <2> QED
    BY <1>1, <1>5, <1>6, <2>1 DEF ServerTypes, SchedulesTypeOK
<1>8. /\ ranFor'[i] = IF d.plan.next = 0 THEN ranFor[i] ELSE d.plan.next
      /\ \A j \in Item \ {i} : ranFor'[j] = ranFor[j]
      /\ ranFor' \in [Item -> 0..(MaxTime + 1)]
  BY <1>1, <1>2, Numbers DEF Run, ServerTypes, SchedulesTypeOK
<1>9. /\ torn'[i] = (torn[i] \/ Holds(i, 0)) /\ torn' \in [Item -> BOOLEAN]
      /\ \A j \in Item \ {i} : torn'[j] = torn[j]
  <2>1. Holds(i, 0) \in BOOLEAN
    BY DEF Holds
  <2>2. (torn[i] \/ Holds(i, 0)) \in BOOLEAN
    BY <1>1, <2>1 DEF ServerTypes, SchedulesTypeOK
  <2>3. torn' = [torn EXCEPT ![i] = torn[i] \/ Holds(i, 0)]
    BY <1>1 DEF Run
  <2> QED
    BY <1>1, <2>2, <2>3 DEF ServerTypes, SchedulesTypeOK
<1>10. ServerTypes'
  <2>1. due' \subseteq due
    BY DEF Run
  <2> QED
    BY <1>4, <1>7, <1>8, <1>9, <2>1 DEF ServerTypes, SchedulesTypeOK
<1>11. CallTypes' /\ \A c \in Call : (Loaded(c)' <=> Loaded(c))
  BY DEF CallTypes, Loaded, Is
<1>12. Numbered'
  BY <1>1, <1>3, <1>7, <1>11 DEF PlanInv, Numbered
<1>13. PlansAhead'
  <2>1. ASSUME NEW j \in Item, plans'[j].there
        PROVE  (HasTime(plans[j]) /\ (~torn[j] => Ahead(plans[j], j)))'
    <3>1. CASE j # i
      <4>1. plans'[j] = plans[j] /\ ranFor'[j] = ranFor[j] /\ torn'[j] = torn[j]
        BY <1>7, <1>8, <1>9, <3>1
      <4> QED
        BY <1>4, <2>1, <4>1 DEF PlanInv, PlansAhead, HasTime, Ahead, RanOut
    <3>2. CASE j = i
      <4>1. plans'[i] = p /\ plans[i].there
        BY <1>7, <2>1, <3>2
      <4>2. ASSUME ~torn'[i]
            PROVE  p.enabled /\ (p.next > ranFor'[i] \/ RanOut(plans[i], i)')
        <5>1. ~torn[i] /\ plans[i] = d.plan /\ plans[i].enabled
          BY <1>1, <1>9, <4>2
        <5>2. d.plan.next > ranFor[i] \/ (d.plan.next = 0 /\ ranFor[i] > 0)
          BY <1>1, <4>1, <5>1, Numbers DEF PlanInv, PlansAhead, Ahead, RanOut
        <5>3. ranFor'[i] > 0 /\ ranFor'[i] <= d.at
          BY <1>1, <1>2, <1>8, <5>2
        <5>4. CASE next > d.at
          BY <1>1, <1>2, <1>5, <1>8, <5>1, <5>3, <5>4
        <5>5. CASE next = 0
          <6>1. d.at \in 1..now' /\ NextRun(p.cron, d.at) = 0
            BY <1>1, <1>4, <1>5, <5>1, <5>5 DEF next
          <6> QED
            BY <1>5, <4>1, <5>1, <5>3, <5>5, <6>1, Numbers DEF RanOut, NextRun
        <5> QED
          BY <1>2, <5>4, <5>5
      <4>3. p.next # Nil
        BY <1>2, <1>5
      <4> QED
        BY <3>2, <4>1, <4>2, <4>3 DEF HasTime, Ahead
    <3> QED
      BY <3>1, <3>2
  <2> QED
    BY <2>1 DEF PlansAhead
<1>14. CopiesAhead'
  <2>1. ASSUME NEW c \in Call, Loaded(c)
        PROVE  (/\ HasTime(calls[c].plan)
                /\ ~torn[calls[c].id] => Ahead(calls[c].plan, calls[c].id))'
    <3>1. calls' = calls /\ calls[c].id \in Item /\ 0 \notin Call
      BY <2>1 DEF Loaded, Is, CallTypes, Call
    <3>2. /\ HasTime(calls[c].plan)
          /\ ~torn[calls[c].id] => Ahead(calls[c].plan, calls[c].id)
      BY <2>1 DEF PlanInv, CopiesAhead
    <3>3. CASE calls[c].id = i
      <4>1. Holds(i, 0)
        BY <2>1, <3>1, <3>3 DEF Holds, Loaded
      <4> QED
        BY <1>9, <3>1, <3>2, <3>3, <4>1 DEF HasTime
    <3>4. CASE calls[c].id # i
      BY <1>4, <1>8, <1>9, <3>1, <3>2, <3>4 DEF HasTime, Ahead, RanOut
    <3> QED
      BY <3>3, <3>4
  <2> QED
    BY <1>11, <2>1 DEF CopiesAhead
<1>15. DueAsStored'
  BY <1>3, <1>4, <1>7, <1>8, <1>9 DEF PlanInv, DueAsStored
<1>16. RanBefore'
  BY <1>1, <1>2, <1>4, <1>8 DEF PlanInv, RanBefore
<1> QED
  BY <1>10, <1>11, <1>12, <1>13, <1>14, <1>15, <1>16 DEF PlanInv

\* Time.
LEMMA PassKeeps ==
  ASSUME ServerTypes, CallTypes, PlanInv, Pass, UNCHANGED <<stored, lastId, calls>>
  PROVE  ServerTypes' /\ CallTypes' /\ PlanInv'
<1>1. UNCHANGED <<plans, due, torn, ranFor>> /\ now' = now + 1 /\ now < MaxTime
  BY DEF Pass
<1>2. now \in Nat /\ now' \in 1..MaxTime
  BY <1>1, Numbers DEF ServerTypes, SchedulesTypeOK
<1>3. ServerTypes' /\ CallTypes'
  BY <1>1, <1>2 DEF ServerTypes, SchedulesTypeOK, CallTypes
<1>4. \A d \in Call : Loaded(d)' => Loaded(d)
  BY DEF Loaded, Is
<1>5. Numbered' /\ PlansAhead' /\ CopiesAhead'
  <2>1. \A t \in 1..now : t \in 1..now'
    BY <1>1, <1>2
  <2> QED
    BY <1>1, <1>4, <2>1
       DEF PlanInv, Numbered, PlansAhead, CopiesAhead, Ahead, RanOut, NextRun
<1>6. /\ \A d \in due : d.at \in Nat
      /\ \A i \in Item : ranFor[i] \in Nat
  BY Numbers DEF ServerTypes, SchedulesTypeOK
<1>7. DueAsStored' /\ RanBefore'
  BY <1>1, <1>2, <1>6 DEF PlanInv, DueAsStored, RanBefore
<1> QED
  BY <1>3, <1>5, <1>7 DEF PlanInv

-----------------------------------------------------------------------------
(* The pages' steps *)

\* What a page step leaves to be shown: its types and its requests.
Quiet == UNCHANGED <<scheduler, stored, lastId>> /\ CallTypes' /\ CopiesSame

\* A quiet step keeps the server's part of the invariant.
LEMMA QuietKeeps ==
  ASSUME IInv, Quiet, PageTypes' PROVE IInv'
<1>1. UNCHANGED <<now, plans, due, torn, ranFor, stored, lastId>>
  BY DEF Quiet, scheduler
<1>2. ServerTypes'
  BY <1>1 DEF IInv, ServerTypes, SchedulesTypeOK
<1>3. PlanInv'
  BY PlansSame DEF IInv, Quiet
<1> QED
  BY <1>2, <1>3 DEF IInv, Quiet

\* So does one that leaves the requests alone.
LEMMA CallsSameQuiet ==
  ASSUME IInv, UNCHANGED server PROVE Quiet
  BY DEF IInv, Quiet, server, CallTypes, CopiesSame, Loaded, Is

\* What can be sent from the form is a plan.
LEMMA BodiesArePlans == PageTypes => Bodies \subseteq Plan
<1> SUFFICES ASSUME PageTypes, NEW b \in Bodies PROVE b \in Plan
  OBVIOUS
<1>1. Nil \in Nil..(MaxTime + 1) /\ offered \cup {formDS} \subseteq 0..MaxItems
  BY Numbers DEF PageTypes
<1> QED
  BY <1>1 DEF Bodies, Plan

\* A send by a page that keeps what it shows.
LEMMA SendKeeps ==
  ASSUME IInv, NEW kind \in {"create", "update", "delete"},
         NEW id \in 0..MaxItems, NEW by \in {"button", "save", "closing"},
         NEW plan \in Plan, kind # "create" => id \in Item, Send(kind, id, by, plan),
         UNCHANGED <<from, target, formDS, fresh>>, saving' \in BOOLEAN
  PROVE  IInv'
<1>1. /\ CallTypes' /\ clicks' \in 0..MaxClicks
      /\ CopiesSame /\ UNCHANGED <<scheduler, stored, lastId, view>>
  BY SendSet DEF IInv
<1>2. Quiet
  BY <1>1 DEF Quiet
<1>3. PageTypes'
  BY <1>1 DEF IInv, PageTypes, view
<1> QED
  BY <1>2, <1>3, QuietKeeps

\* The user's clicks that send.
LEMMA SendingKeeps ==
  ASSUME IInv, FormGoesHome,
         \/ Save \/ HandleCreate \/ HandleUpdate \/ SaveRecordForm \/ CreateUser
         \/ SaveQuery
         \/ \E i \in Item : Remove(i) \/ ToggleEnabled(i) \/ HandleDelete(i) \/ DeleteRow(i)
  PROVE  IInv'
<1> USE Blanks, Numbers
<1>1. PageTypes /\ None \in 0..MaxItems /\ Item \subseteq 0..MaxItems
  BY DEF IInv
<1>2. CASE Save
  <2>1. PICK b \in Bodies : IF target = None THEN Send("create", None, "save", b)
                                             ELSE Send("update", target, "save", b)
    BY <1>2 DEF Save
  <2>2. b \in Plan /\ (target # None => target \in Item) /\ target \in 0..MaxItems
    BY <1>1, BodiesArePlans DEF PageTypes
  <2>3. UNCHANGED <<from, target, formDS, fresh>> /\ saving' \in BOOLEAN
    BY <1>2 DEF Save, SameForm
  <2> QED
    BY <1>1, <2>1, <2>2, <2>3, SendKeeps
<1>3. CASE HandleCreate
  BY <1>1, <1>3, SendKeeps DEF HandleCreate, SameForm
<1>4. CASE HandleUpdate
  <2>1. target \in Item
    BY <1>1, <1>4 DEF HandleUpdate, PageTypes
  <2> QED
    BY <1>1, <1>4, <2>1, SendKeeps DEF HandleUpdate, SameForm
<1>5. CASE SaveRecordForm
  <2>1. from \in Item
    BY <1>1, <1>5 DEF SaveRecordForm, PageTypes
  <2>2. target \in Item
    BY <2>1 DEF FormGoesHome
  <2> QED
    BY <1>1, <1>5, <2>2, SendKeeps DEF SaveRecordForm, SameForm
<1>6. CASE CreateUser \/ SaveQuery
  BY <1>1, <1>6, SendKeeps DEF CreateUser, SaveQuery, form, PageTypes
<1>7. ASSUME NEW i \in Item, Remove(i) \/ HandleDelete(i) \/ DeleteRow(i) PROVE IInv'
  <2>1. \E by \in {"button", "closing"} : Send("delete", i, by, NoPlan)
    BY <1>7 DEF Remove, HandleDelete, DeleteRow
  <2>2. UNCHANGED form
    BY <1>7 DEF Remove, HandleDelete, DeleteRow
  <2> QED
    BY <1>1, <2>1, <2>2, SendKeeps DEF form, PageTypes
<1>8. ASSUME NEW i \in Item, ToggleEnabled(i) PROVE IInv'
  <2> DEFINE p == [shown[i] EXCEPT !.enabled = ~@]
  <2>1. p \in Plan
    BY <1>1 DEF PageTypes, Plan
  <2>2. Send("update", i, "button", p) /\ UNCHANGED form
    BY <1>8 DEF ToggleEnabled
  <2> HIDE DEF p
  <2> QED
    BY <1>1, <2>1, <2>2, SendKeeps DEF form, PageTypes
<1> QED
  BY <1>2, <1>3, <1>4, <1>5, <1>6, <1>7, <1>8

\* The clicks that open and close forms.
LEMMA FormsKeep ==
  ASSUME IInv,
         \/ OpenNew \/ CloseForm \/ ShowNew \/ CloseRecord \/ OpenSaveModal
         \/ \E i \in Item : OpenEdit(i) \/ ToggleExpand(i) \/ OpenRecord(i)
  PROVE  IInv'
<1>1. PageTypes /\ None \in 0..MaxItems /\ Item \subseteq 0..MaxItems
      /\ None \in 0..New /\ Item \subseteq 0..New /\ New \in 0..New
      /\ New \notin Item /\ None # New
  BY Numbers DEF IInv
<1>2. Click => clicks' \in 0..MaxClicks
  BY <1>1, Numbers DEF Click, PageTypes
<1>3. UNCHANGED <<server, view>>
  BY DEF OpenNew, CloseForm, ShowNew, CloseRecord, OpenSaveModal, OpenEdit,
         ToggleExpand, OpenRecord
<1>4. UNCHANGED <<at, listed, shown, offered>>
  BY <1>3 DEF view
<1> DEFINE Formed ==
             /\ from' \in 0..New /\ target' \in 0..MaxItems /\ formDS' \in 0..MaxItems
             /\ fresh' \in BOOLEAN /\ saving' \in BOOLEAN /\ clicks' \in 0..MaxClicks
             /\ from' = New => at = "schedule"
<1>5. Formed
  <2>1. CASE OpenNew
    BY <1>1, <1>2, <2>1 DEF OpenNew, PageTypes
  <2>2. CASE CloseForm
    BY <1>1, <2>2 DEF CloseForm, PageTypes
  <2>3. CASE ShowNew \/ OpenSaveModal
    BY <1>1, <1>2, <2>3 DEF ShowNew, OpenSaveModal, SameForm, PageTypes
  <2>4. CASE CloseRecord
    BY <1>1, <2>4 DEF CloseRecord, ClosedForm, PageTypes
  <2>5. ASSUME NEW i \in Item, OpenEdit(i) PROVE Formed
    <3>1. shown[i].ds \in 0..MaxItems
      BY <1>1 DEF PageTypes, Plan
    <3> QED
      BY <1>1, <1>2, <2>5, <3>1 DEF OpenEdit, PageTypes
  <2>6. ASSUME NEW i \in Item, ToggleExpand(i) \/ OpenRecord(i) PROVE Formed
    BY <1>1, <1>2, <2>6 DEF ToggleExpand, OpenRecord, ClosedForm, PageTypes
  <2> QED
    BY <2>1, <2>2, <2>3, <2>4, <2>5, <2>6
<1>6. PageTypes'
  BY <1>1, <1>4, <1>5 DEF PageTypes
<1>7. Quiet
  BY <1>3, CallsSameQuiet
<1> QED
  BY <1>6, <1>7, QuietKeeps

\* What the server has of a page's records.
LEMMA ShownTypes ==
  ASSUME IInv, NEW p \in Page, Shown(p)
  PROVE  listed' \subseteq Item /\ shown' \in [Item -> Plan] /\ offered' \subseteq Item
<1>1. /\ ListOf(p) \subseteq Item /\ plans \in [Item -> Plan]
      /\ stored["datasource"] \subseteq Item
  BY DEF IInv, ServerTypes, SchedulesTypeOK, ListOf, Page, Kind
<1>2. \A i \in Item : [plans[i] EXCEPT !.next = Nil] \in Plan
  BY <1>1, Blanks DEF Plan
<1> QED
  BY <1>1, <1>2, Blanks DEF Shown

\* Lists that come by themselves.
LEMMA ListsKeep ==
  ASSUME IInv, Poll \/ FirstList PROVE IInv'
<1>1. Shown(at) /\ at \in Page /\ UNCHANGED <<server, at, form, clicks>>
  BY DEF Poll, FirstList, IInv, PageTypes
<1>2. PageTypes'
  BY <1>1, ShownTypes DEF IInv, PageTypes, form
<1>3. Quiet
  BY <1>1, CallsSameQuiet
<1> QED
  BY <1>2, <1>3, QuietKeeps

\* Another page: requests that are not answered are still handled.
LEMMA NavigateKeeps ==
  ASSUME IInv, NEW p \in Page, Navigate(p) PROVE IInv'
<1>1. PageTypes'
  <2>1. clicks' \in 0..MaxClicks
    BY Numbers DEF Navigate, Click, IInv, PageTypes
  <2>2. None \in 0..New /\ None # New /\ None \in 0..MaxItems
    BY Numbers
  <2> QED
    BY <2>1, <2>2, Blanks DEF Navigate, Blank, ClosedForm, PageTypes
<1>2. \A c \in Call : calls'[c] = Idle \/ calls'[c] = [calls[c] EXCEPT !.gone = TRUE]
  BY DEF Navigate
<1>3. calls' \in [Call -> CallRecord]
  <2>1. \A c \in Call : [calls[c] EXCEPT !.gone = TRUE] \in CallRecord
    BY DEF IInv, CallTypes, CallRecord
  <2> QED
    BY <2>1, Blanks DEF Navigate
<1>4. ASSUME NEW c \in Call
      PROVE  /\ calls'[c].kind \in {"update", "delete"} => calls'[c].id \in Item
             /\ Loaded(c)' => /\ Loaded(c) /\ calls'[c].id = calls[c].id
                              /\ calls'[c].plan = calls[c].plan
  <2>1. CASE calls'[c] = Idle
    BY <2>1, Blanks DEF Loaded, Is
  <2>2. CASE calls'[c] = [calls[c] EXCEPT !.gone = TRUE]
    <3>1. /\ calls'[c].kind = calls[c].kind /\ calls'[c].id = calls[c].id
          /\ calls'[c].plan = calls[c].plan /\ calls'[c].at = calls[c].at
          /\ calls'[c].res = calls[c].res
      BY <2>2 DEF IInv, CallTypes, CallRecord
    <3> QED
      BY <3>1 DEF IInv, CallTypes, Loaded, Is
  <2> QED
    BY <1>2, <2>1, <2>2
<1>5. Quiet
  BY <1>3, <1>4 DEF Quiet, CopiesSame, CallTypes, Navigate
<1> QED
  BY <1>1, <1>5, QuietKeeps

\* Answers, lists, timers and refusals.
LEMMA AnswersKeep ==
  ASSUME IInv, NEW c \in Call, Arrive(c) PROVE IInv'
<1>1. CallTypes /\ PageTypes /\ None \in 0..New /\ None # New /\ None \in 0..MaxItems
  BY Numbers DEF IInv
<1>2. UNCHANGED <<scheduler, stored, lastId>>
  BY DEF Arrive, ScheduleArrives, DatasourceArrives, UserArrives, QueryArrives,
         RefusalArrives, ListArrives, TimerFires, Dropped
<1>3. Listing(c) \/ EndCall(c) \/ calls' = [calls EXCEPT ![c].at = "timer"]
  BY DEF Arrive, ScheduleArrives, DatasourceArrives, UserArrives, QueryArrives,
         RefusalArrives, ListArrives, TimerFires, Dropped
<1>4. CallTypes' /\ ~Loaded(c)' /\ \A d \in Call \ {c} : calls'[d] = calls[d]
  <2>1. {} \in SUBSET Item
    OBVIOUS
  <2> QED
    BY <1>1, <1>3, <2>1, AtSet, EndSet DEF Listing
<1>5. Quiet
  BY <1>2, <1>4 DEF Quiet, CopiesSame, Loaded, Is
<1>6. UNCHANGED at /\ (UNCHANGED view \/ Shown(at)) /\ UNCHANGED clicks
  BY DEF Arrive, ScheduleArrives, DatasourceArrives, UserArrives, QueryArrives,
         RefusalArrives, ListArrives, TimerFires, Dropped, view
<1>7. listed' \subseteq Item /\ shown' \in [Item -> Plan] /\ offered' \subseteq Item
  BY <1>1, <1>6, ShownTypes DEF PageTypes, view
<1>8. SameForm \/ ClosedForm
  BY DEF Arrive, ScheduleArrives, DatasourceArrives, UserArrives, QueryArrives,
         RefusalArrives, ListArrives, TimerFires, Dropped, SameForm, form
<1>9. fresh' \in BOOLEAN /\ saving' \in BOOLEAN
  <2> USE <1>1 DEF PageTypes
  <2>1. CASE ScheduleArrives(c) \/ DatasourceArrives(c) \/ UserArrives(c)
    BY <2>1 DEF ScheduleArrives, DatasourceArrives, UserArrives
  <2>2. CASE QueryArrives(c) \/ Dropped(c)
    BY <2>2 DEF QueryArrives, Dropped, form
  <2>3. CASE RefusalArrives(c) \/ ListArrives(c) \/ TimerFires(c)
    BY <2>3 DEF RefusalArrives, ListArrives, TimerFires
  <2> QED
    BY <2>1, <2>2, <2>3 DEF Arrive
<1>10. PageTypes'
  BY <1>1, <1>6, <1>7, <1>8, <1>9 DEF PageTypes, SameForm, ClosedForm
<1> QED
  BY <1>5, <1>10, QuietKeeps

-----------------------------------------------------------------------------
(* Types and plans: the theorems *)

\* At first there are two schedules, one of them enabled.
LEMMA InitPlanned == Init => IInv
<1> SUFFICES ASSUME Init PROVE IInv
  OBVIOUS
<1> USE Numbers
<1>1. PICK cron \in Cron :
        /\ NextRun(cron, 1) # Zero
        /\ plans = [i \in Item |->
             IF i \in {1, 2}
               THEN [there |-> TRUE, enabled |-> i = 1, cron |-> cron, ds |-> 1,
                     next |-> IF i = 1 THEN NextRun(cron, 1) ELSE Nil]
               ELSE NoPlan]
  BY DEF Init, RequestsInit, SchedulesInit
<1>2. /\ now = 1 /\ due = {} /\ torn = [i \in Item |-> FALSE]
      /\ ranFor = [i \in Item |-> 0] /\ lastId = 2
      /\ stored = [k \in Kind |-> {1, 2}] /\ calls = [c \in Call |-> Idle]
  BY DEF Init, RequestsInit, SchedulesInit
<1>3. ASSUME NEW i \in Item
      PROVE  /\ plans[i] \in Plan
             /\ plans[i].there => i <= 2
             /\ plans[i].enabled => plans[i].next > 0
             /\ ~plans[i].enabled => plans[i].next = Nil
  <2>1. CASE i \in {1, 2}
    <3> DEFINE enabled == i = 1
               next == IF i = 1 THEN NextRun(cron, 1) ELSE Nil
               p == [there |-> TRUE, enabled |-> enabled, cron |-> cron, ds |-> 1,
                     next |-> next]
    <3>1. plans[i] = p
      BY <1>1, <2>1
    <3>2. /\ enabled \in BOOLEAN /\ next \in Nil..(MaxTime + 1) /\ 1 \in 0..MaxItems
          /\ (enabled => next > 0) /\ (~enabled => next = Nil)
      BY <1>1, NextTypes
    <3> HIDE DEF enabled, next
    <3> QED
      BY <2>1, <3>1, <3>2 DEF Plan
  <2>2. CASE i \notin {1, 2}
    BY <1>1, <2>2, Blanks
  <2> QED
    BY <2>1, <2>2
<1>4. ServerTypes
  <2>1. plans \in [Item -> Plan]
    BY <1>1, <1>3
  <2>2. now \in 1..MaxTime /\ lastId \in 0..MaxItems
    BY <1>2
  <2>3. stored \in [Kind -> SUBSET Item] /\ torn \in [Item -> BOOLEAN]
        /\ ranFor \in [Item -> 0..(MaxTime + 1)]
    BY <1>2
  <2> QED
    BY <1>2, <2>1, <2>2, <2>3 DEF ServerTypes, SchedulesTypeOK
<1>5. CallTypes /\ \A c \in Call : ~Loaded(c)
  BY <1>2, Blanks DEF CallTypes, Loaded, Is
<1>6. PageTypes
  <2>1. None \in 0..New /\ None # New /\ None \in 0..MaxItems /\ 0 \in 0..MaxClicks
    OBVIOUS
  <2> QED
    BY <2>1, Blanks DEF Init, PageTypes
<1>7. Numbered /\ CopiesAhead /\ DueAsStored /\ RanBefore
  BY <1>2, <1>3, <1>5 DEF Numbered, CopiesAhead, DueAsStored, RanBefore
<1>8. PlansAhead
  <2>1. \A i \in Item : plans[i].enabled => plans[i].next > ranFor[i]
    BY <1>2, <1>3
  <2> QED
    BY <1>3, <2>1 DEF PlansAhead, HasTime, Ahead
<1> QED
  BY <1>4, <1>5, <1>6, <1>7, <1>8 DEF IInv, PlanInv

\* Every step of the user, the network, the server and the clock keeps it.
LEMMA StepPlanned == IInv /\ FormGoesHome /\ [Next]_vars => IInv'
<1> SUFFICES ASSUME IInv, FormGoesHome, [Next]_vars PROVE IInv'
  OBVIOUS
<1>1. CASE User
  BY <1>1, SendingKeeps, FormsKeep, NavigateKeeps DEF User
<1>2. ASSUME NEW c \in Call, Serve(c), UNCHANGED <<view, form, clicks>> PROVE IInv'
  <2>1. ServerTypes' /\ CallTypes' /\ PlanInv'
    BY <1>2, RecordsKeep, CreateKeeps, LoadKeeps, SaveKeeps DEF Serve, IInv
  <2>2. PageTypes'
    BY <1>2 DEF IInv, PageTypes, view, form
  <2> QED
    BY <2>1, <2>2 DEF IInv
<1>3. CASE (Scheduling \/ Pass) /\ UNCHANGED Background
  <2>1. UNCHANGED <<stored, lastId, calls>>
    BY <1>3 DEF Background
  <2>2. ServerTypes' /\ CallTypes' /\ PlanInv'
    BY <1>3, <2>1, TickKeeps, RunKeeps, PassKeeps DEF Scheduling, IInv
  <2>3. PageTypes'
    BY <1>3 DEF IInv, PageTypes, Background, view, form
  <2> QED
    BY <2>2, <2>3 DEF IInv
<1>4. CASE UNCHANGED vars
  <2>1. Quiet
    BY <1>4, CallsSameQuiet DEF vars
  <2>2. PageTypes'
    BY <1>4 DEF IInv, PageTypes, vars, view, form
  <2> QED
    BY <2>1, <2>2, QuietKeeps
<1> QED
  BY <1>1, <1>2, <1>3, <1>4, AnswersKeep, ListsKeep DEF Next

\* The invariant, for any number of records, requests, clicks and times.
THEOREM Invariance == Spec => []IInv
  BY InitPlanned, StepPlanned, FormsGoHome, PTL DEF Spec

\* Types of the server's and the pages' variables.
THEOREM TypeCorrect == Spec => []TypeOK
<1>1. IInv => TypeOK
  BY DEF IInv, ServerTypes, CallTypes, CallRecord, PageTypes, TypeOK, RequestsTypeOK
<1> QED
  BY <1>1, Invariance, PTL

\* An enabled schedule has a time to run at, and as long as no two writers of it
\* overlap it is one that no tick has run for; or else the schedule has run, and
\* its expression had no match left when it did.
THEOREM SchedulesArePlanned == Spec => []SchedulePlanned
<1>1. IInv => SchedulePlanned
  BY DEF IInv, PlanInv, PlansAhead, HasTime, Ahead, SchedulePlanned
<1> QED
  BY <1>1, Invariance, PTL
=============================================================================
