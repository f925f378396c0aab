------------------------------- MODULE Console -------------------------------
(***************************************************************************)
(* The administration pages of the web frontend: schedules, datasources    *)
(* (the first tab of the settings), users, and the saved queries beside    *)
(* the log viewer.  Each lists records and opens a form on one of them; a  *)
(* save sends what the form holds to the id the page keeps beside it.      *)
(*                                                                         *)
(* What a form holds is the record it was filled from; a field is chosen   *)
(* when the form is sent.  A page reads its list again after each answer,  *)
(* and what it then shows is what the server has when that list arrives.   *)
(* Only one page is mounted; after it, answers have no effect.  Texts and  *)
(* the other tabs of the settings are left out.                            *)
(***************************************************************************)
EXTENDS Requests

CONSTANT MaxClicks \* bound on the clicks that open a form, send or navigate

ASSUME ConsoleAssumption == MaxClicks \in Nat

VARIABLES
    at,       \* the page: what it keeps records of
    listed,   \* the ids of its list
    shown,    \* on the page of schedules: what it shows of them,
    offered,  \* and the datasources for its form
    from,     \* editing, editingDS, editingUser, editingQuery: whose values
              \* the form holds, None when there is no form
    target,   \* the id a save goes to: editingId, expandedId; None to create
    formDS,   \* the datasource in the form of a schedule
    fresh,    \* the form for a new record, where it is another one, is open
    saving,
    clicks

form == <<from, target, formDS, fresh, saving>>
view == <<at, listed, shown, offered>>
vars == <<server, view, form, clicks>>

None == 0
New == MaxItems + 1
Page == Kind \cup {"schedule"}

ClosedForm == from' = None /\ target' = None /\ formDS' = None
SameForm == UNCHANGED <<from, target, formDS>>
Click == clicks < MaxClicks /\ clicks' = clicks + 1

\* what the server has of the records of page p; the next run is only displayed
ListOf(p) == IF p = "schedule" THEN {i \in Item : plans[i].there} ELSE stored[p]
Shown(p) ==
    /\ listed' = ListOf(p)
    /\ shown' = [i \in Item |-> IF p = "schedule" THEN [plans[i] EXCEPT !.next = Nil]
                                                 ELSE NoPlan]
    /\ offered' = IF p = "schedule" THEN stored["datasource"] ELSE {}

Send(kind, id, by, plan) ==
    /\ Click
    /\ \E c \in Call :
         /\ calls[c] = Idle /\ \A d \in 1..(c - 1) : calls[d] # Idle
         /\ calls' = [calls EXCEPT ![c] =
              [Idle EXCEPT !.res = at, !.kind = kind, !.id = id, !.by = by,
                           !.plan = plan, !.at = "sent"]]
    /\ UNCHANGED <<scheduler, stored, lastId, view>>

\* the state of a page when it is mounted
Blank(p) ==
    /\ at' = p /\ listed' = {} /\ offered' = {}
    /\ shown' = [i \in Item |-> NoPlan]
    /\ ClosedForm /\ fresh' = FALSE /\ saving' = FALSE

-----------------------------------------------------------------------------
(* Schedules: the form is a modal over the list *)

\* what can be sent from the form
Bodies == [there : {TRUE}, enabled : BOOLEAN, cron : Cron,
           ds : offered \cup {formDS}, next : {Nil}]

\* Mutation: the id of the last edited schedule stays
OpenNewKeepsId ==
    /\ at = "schedule" /\ from = None /\ offered # {} /\ Click
    /\ from' = New /\ formDS' \in offered
    /\ UNCHANGED <<server, view, target, fresh, saving>>

OpenNew ==
    /\ at = "schedule" /\ from = None /\ offered # {} /\ Click
    /\ from' = New /\ target' = None /\ formDS' \in offered
    /\ UNCHANGED <<server, view, fresh, saving>>

OpenEdit(i) ==
    /\ at = "schedule" /\ from = None /\ i \in listed /\ Click
    /\ from' = i /\ target' = i /\ formDS' = shown[i].ds
    /\ UNCHANGED <<server, view, fresh, saving>>

\* a click beside the modal, or cancel: what editingId says is left
CloseForm ==
    /\ at = "schedule" /\ from # None
    /\ from' = None
    /\ UNCHANGED <<server, view, target, formDS, fresh, saving, clicks>>

Save ==
    /\ at = "schedule" /\ from # None /\ ~saving
    /\ \E b \in Bodies : IF target = None
                           THEN Send("create", None, "save", b)
                           ELSE Send("update", target, "save", b)
    /\ saving' = TRUE
    /\ SameForm /\ UNCHANGED fresh

Remove(i) ==
    /\ at = "schedule" /\ from = None /\ i \in listed
    /\ Send("delete", i, "button", NoPlan)
    /\ UNCHANGED form

\* sends the schedule as the list shows it, but for enabled
ToggleEnabled(i) ==
    /\ at = "schedule" /\ from = None /\ i \in listed
    /\ Send("update", i, "button",
            [shown[i] EXCEPT !.enabled = ~@])
    /\ UNCHANGED form

\* every ten seconds
Poll ==
    /\ at = "schedule"
    /\ Shown(at)
    /\ <<shown', offered'>> # <<shown, offered>>
    /\ UNCHANGED <<server, at, form, clicks>>

-----------------------------------------------------------------------------
(* Datasources: the form is in the card that is expanded, a new one's above *)

ToggleExpand(i) ==
    /\ at = "datasource" /\ i \in listed /\ Click
    /\ IF target = i THEN ClosedForm
                     ELSE from' = i /\ target' = i /\ UNCHANGED formDS
    /\ UNCHANGED <<server, view, fresh, saving>>

ShowNew ==
    /\ at = "datasource" /\ Click
    /\ fresh' = ~fresh
    /\ SameForm /\ UNCHANGED <<server, view, saving>>

HandleCreate ==
    /\ at = "datasource" /\ fresh /\ ~saving
    /\ Send("create", None, "save", NoPlan)
    /\ saving' = TRUE
    /\ SameForm /\ UNCHANGED fresh

HandleUpdate ==
    /\ at = "datasource" /\ from # None /\ target \in listed /\ ~saving
    /\ Send("update", target, "save", NoPlan)
    /\ saving' = TRUE
    /\ SameForm /\ UNCHANGED fresh

\* what the answer closes is decided now: expandedId is that of the click
HandleDelete(i) ==
    /\ at = "datasource" /\ i \in listed
    /\ Send("delete", i, IF target = i THEN "closing" ELSE "button", NoPlan)
    /\ UNCHANGED form

-----------------------------------------------------------------------------
(* Users and saved queries: the form is a modal *)

OpenRecord(i) ==
    /\ at \in {"user", "query"} /\ from = None /\ ~fresh /\ i \in listed
    /\ Click
    /\ from' = i /\ target' = i
    /\ UNCHANGED <<server, view, formDS, fresh, saving>>

\* closeEdit, closeEditQuery: by cancel, or by a click beside the modal
CloseRecord ==
    /\ at \in {"user", "query"} /\ from # None
    /\ ClosedForm
    /\ UNCHANGED <<server, view, fresh, saving, clicks>>

\* handleEditSave, handleUpdateQuery
SaveRecordForm ==
    /\ at \in {"user", "query"} /\ from # None /\ ~saving
    /\ Send("update", target, "save", NoPlan)
    /\ saving' = TRUE
    /\ SameForm /\ UNCHANGED fresh

\* the fields for a new user are part of the page, and nothing disables the
\* button while an answer is awaited; nor Enter in the modal of a new query
CreateUser ==
    /\ at = "user" /\ from = None
    /\ Send("create", None, "button", NoPlan)
    /\ UNCHANGED form

OpenSaveModal ==
    /\ at = "query" /\ from = None /\ Click
    /\ fresh' = ~fresh
    /\ SameForm /\ UNCHANGED <<server, view, saving>>

SaveQuery ==
    /\ at = "query" /\ fresh
    /\ Send("create", None, "button", NoPlan)
    /\ UNCHANGED form

DeleteRow(i) ==
    /\ at \in {"user", "query"} /\ from = None /\ ~fresh /\ i \in listed
    /\ Send("delete", i, "button", NoPlan)
    /\ UNCHANGED form

-----------------------------------------------------------------------------
(* Answers *)

Accepted(c) == calls[c].at = "answered" /\ calls[c].ok /\ ~calls[c].gone
Listing(c) == calls' = [calls EXCEPT ![c].at = "listing"]
EndCall(c) == calls' = [calls EXCEPT ![c] = Idle]

\* the list is asked for again; what the page does before that
ScheduleArrives(c) ==
    /\ at = "schedule" /\ Accepted(c) /\ Listing(c)
    /\ IF calls[c].by = "save" THEN ClosedForm ELSE SameForm
    /\ UNCHANGED <<scheduler, stored, lastId, view, fresh, saving, clicks>>

DatasourceArrives(c) ==
    /\ at = "datasource" /\ Accepted(c) /\ Listing(c)
    /\ IF calls[c].kind = "update" \/ calls[c].by = "closing"
         THEN ClosedForm ELSE SameForm
    /\ fresh' = (fresh /\ calls[c].kind # "create")
    /\ UNCHANGED <<scheduler, stored, lastId, view, saving, clicks>>

UserArrives(c) ==
    /\ at = "user" /\ Accepted(c) /\ Listing(c)
    /\ IF calls[c].by = "save" THEN ClosedForm /\ saving' = FALSE
                               ELSE SameForm /\ UNCHANGED saving
    /\ UNCHANGED <<scheduler, stored, lastId, view, fresh, clicks>>

QueryArrives(c) ==
    /\ at = "query" /\ Accepted(c) /\ Listing(c)
    /\ UNCHANGED <<scheduler, stored, lastId, view, form, clicks>>

\* the handler ends with a message, or without one
RefusalArrives(c) ==
    /\ calls[c].at = "answered" /\ ~calls[c].ok /\ ~calls[c].gone
    /\ EndCall(c)
    /\ saving' = (saving /\ calls[c].by # "save")
    /\ SameForm
    /\ UNCHANGED <<scheduler, stored, lastId, view, fresh, clicks>>

\* the list has come; a saved query's form stays open for the time of a message
ListArrives(c) ==
    /\ calls[c].at = "listing" /\ ~calls[c].gone
    /\ Shown(at)
    /\ IF at = "query" /\ calls[c].kind # "delete"
         THEN /\ calls' = [calls EXCEPT ![c].at = "timer"]
              /\ UNCHANGED saving
         ELSE /\ EndCall(c)
              /\ saving' = (saving /\ (calls[c].by # "save" \/ at = "user"))
    /\ SameForm
    /\ UNCHANGED <<scheduler, stored, lastId, at, fresh, clicks>>

\* setTimeout of handleUpdateQuery and handleSaveQuery: closes what is open
TimerFires(c) ==
    /\ calls[c].at = "timer" /\ ~calls[c].gone
    /\ EndCall(c)
    /\ IF calls[c].kind = "update"
         THEN ClosedForm /\ saving' = FALSE /\ UNCHANGED fresh
         ELSE SameForm /\ fresh' = FALSE /\ UNCHANGED saving
    /\ UNCHANGED <<scheduler, stored, lastId, view, clicks>>

-----------------------------------------------------------------------------
(* Navigation *)

\* another page is mounted, and its list comes; what the server has not yet
\* answered it still handles
Navigate(p) ==
    /\ p # at /\ Click
    /\ Blank(p)
    /\ calls' = [c \in Call |->
                   IF calls[c].at \in {"sent", "loaded"}
                     THEN [calls[c] EXCEPT !.gone = TRUE] ELSE Idle]
    /\ UNCHANGED <<scheduler, stored, lastId>>

FirstList ==
    /\ listed = {} /\ ListOf(at) # {}
    /\ Shown(at)
    /\ UNCHANGED <<server, at, form, clicks>>

Dropped(c) ==
    /\ calls[c].gone /\ calls[c].at = "answered"
    /\ EndCall(c)
    /\ UNCHANGED <<scheduler, stored, lastId, view, form, clicks>>

-----------------------------------------------------------------------------
Init ==
    /\ RequestsInit
    /\ at \in Page /\ listed = {} /\ offered = {}
    /\ shown = [i \in Item |-> NoPlan]
    /\ from = None /\ target = None /\ formDS = None
    /\ fresh = FALSE /\ saving = FALSE
    /\ clicks = 0

User ==
    \/ OpenNew \/ CloseForm \/ Save
    \/ ShowNew \/ HandleCreate \/ HandleUpdate
    \/ CloseRecord \/ SaveRecordForm \/ CreateUser \/ OpenSaveModal \/ SaveQuery
    \/ \E i \in Item : \/ OpenEdit(i) \/ Remove(i) \/ ToggleEnabled(i)
                       \/ ToggleExpand(i) \/ HandleDelete(i)
                       \/ OpenRecord(i) \/ DeleteRow(i)
    \/ \E p \in Page : Navigate(p)
Arrive(c) ==
    \/ ScheduleArrives(c) \/ DatasourceArrives(c) \/ UserArrives(c)
    \/ QueryArrives(c) \/ RefusalArrives(c) \/ ListArrives(c) \/ TimerFires(c)
    \/ Dropped(c)
Background == <<stored, lastId, calls, view, form, clicks>>
Next ==
    \/ User
    \/ \E c \in Call : \/ Arrive(c)
                       \/ Serve(c) /\ UNCHANGED <<view, form, clicks>>
    \/ Poll \/ FirstList
    \/ (Scheduling \/ Pass) /\ UNCHANGED Background

Spec == Init /\ [][Next]_vars

\* the scheduler's ticker goes on, and a run that has begun ends
FairSpec == Spec /\ WF_vars(Scheduling /\ UNCHANGED Background)

-----------------------------------------------------------------------------
(* Properties *)

\* every variable has its type
TypeOK ==
    /\ RequestsTypeOK
    /\ at \in Page /\ listed \subseteq Item /\ shown \in [Item -> Plan]
    /\ offered \subseteq Item /\ from \in 0..New /\ target \in 0..MaxItems
    /\ formDS \in 0..MaxItems /\ {fresh, saving} \subseteq BOOLEAN
    /\ clicks \in 0..MaxClicks

\* A form never sends one record's values to another: what it was filled from
\* is what a save goes to, and a new schedule's values go to none, in whatever
\* order forms are opened, closed beside, and closed by late answers.
FormGoesHome ==
    /\ from \in Item => target = from
    /\ from = New => target = None
=============================================================================
