------------------------------- MODULE Requests -------------------------------
(***************************************************************************)
(* The requests of the administration pages as the server handles them:    *)
(* schedules, datasources, users and saved queries are created, changed    *)
(* and deleted.  An operation of the store is one step (store.mu); a       *)
(* handler that loads, changes and saves is two, and others come between:  *)
(* it saves a whole record, or the whole settings, over what they did.     *)
(*                                                                         *)
(* The user is an administrator.  A record is its id, but for a schedule;  *)
(* ids are never used again (uuid).  What validation only reads, it reads  *)
(* in the step of the load, or of the only write.                          *)
(***************************************************************************)
EXTENDS Schedules

CONSTANTS MaxCalls, \* bound on the requests in flight
          Me        \* the id of the user who is logged in

ASSUME RequestsAssumption == MaxCalls \in Nat /\ Me \in Item

Call == 1..MaxCalls
Kind == {"datasource", "user", "query"}

VARIABLES
    stored,  \* the datasources of Store.settings, Store.users, Store.queries
    lastId,
    calls    \* the requests in flight; what by and gone say is for the pages

server == <<scheduler, stored, lastId, calls>>

Idle == [res |-> "none", kind |-> "none", id |-> 0, by |-> "button",
         at |-> "idle", ok |-> TRUE, plan |-> NoPlan, seen |-> {},
         gone |-> FALSE]

Is(c, R, kind, at) ==
    calls[c].res \in R /\ calls[c].kind = kind /\ calls[c].at = at
Answer(c, ok) ==
    calls' = [calls EXCEPT ![c].at = "answered", ![c].ok = ok,
                           ![c].plan = NoPlan, ![c].seen = {}]
\* the answer to a save: an error when the file could not be written, though
\* the store has changed what it holds in memory, and does not take it back
Saved(c) == \E ok \in BOOLEAN : Answer(c, ok)
NewId == lastId + 1

\* a request that is to save a copy of schedule i, other than c
Holds(i, c) == \E d \in Call \ {c} : Is(d, {"schedule"}, "update", "loaded")
                                     /\ calls[d].id = i
Held(i, c) == Holds(i, c) \/ \E d \in due : d.id = i

-----------------------------------------------------------------------------
(* Schedules *)

\* Mutation: a disabled schedule keeps its time
AppliedKeeps(base, body) ==
    [body EXCEPT !.next = IF body.cron # base.cron \/ base.next = Nil
                            THEN NextRun(body.cron, now) ELSE base.next]

\* applySchedule, and the time that follows from it
Applied(base, body) ==
    [body EXCEPT !.next =
       IF ~body.enabled THEN Nil
       ELSE IF body.cron # base.cron \/ base.next = Nil
              THEN NextRun(body.cron, now) ELSE base.next]

\* validateSchedule, and ComputeNext, which refuses the zero time
Acceptable(base, body) ==
    /\ body.ds \in stored["datasource"]
    /\ body.enabled /\ (body.cron # base.cron \/ base.next = Nil)
         => NextRun(body.cron, now) # Zero

CreateSchedule(c) ==
    /\ Is(c, {"schedule"}, "create", "sent")
    /\ IF Acceptable(NoPlan, calls[c].plan)
         THEN /\ lastId < MaxItems /\ lastId' = NewId
              /\ plans' = [plans EXCEPT ![NewId] = Applied(NoPlan, calls[c].plan)]
              /\ Saved(c)
         ELSE Answer(c, FALSE) /\ UNCHANGED <<plans, lastId>>
    /\ UNCHANGED <<now, due, torn, ranFor, stored>>

\* updateSchedule changes a copy, and later saves it whole
LoadSchedule(c) ==
    /\ Is(c, {"schedule"}, "update", "sent")
    /\ LET base == plans[calls[c].id]
           body == calls[c].plan
       IN  IF base.there /\ Acceptable(base, body)
             THEN calls' = [calls EXCEPT ![c].at = "loaded",
                                         ![c].plan = Applied(base, body)]
             ELSE Answer(c, FALSE)
    /\ UNCHANGED <<scheduler, stored, lastId>>

SaveSchedule(c) ==
    /\ Is(c, {"schedule"}, "update", "loaded")
    /\ LET i == calls[c].id
       IN  /\ plans' = [plans EXCEPT ![i] = calls[c].plan]
           /\ torn' = [torn EXCEPT ![i] = @ \/ Held(i, c)]
    /\ Saved(c)
    /\ UNCHANGED <<now, due, ranFor, stored, lastId>>

DeleteSchedule(c) ==
    /\ Is(c, {"schedule"}, "delete", "sent")
    /\ plans' = [plans EXCEPT ![calls[c].id] = NoPlan]
    /\ torn' = [torn EXCEPT ![calls[c].id] = @ \/ Held(calls[c].id, c)]
    /\ Answer(c, TRUE)
    /\ UNCHANGED <<now, due, ranFor, stored, lastId>>

Scheduling == Tick \/ \E d \in due : Run(d, Holds(d.id, 0))

-----------------------------------------------------------------------------
(* Datasources: a list in the settings, which are saved whole *)

LoadSettings(c) ==
    /\ \E kind \in {"create", "update", "delete"} :
         /\ Is(c, {"datasource"}, kind, "sent")
         /\ IF kind = "update" /\ calls[c].id \notin stored["datasource"]
              THEN Answer(c, FALSE)
              ELSE calls' = [calls EXCEPT ![c].at = "loaded",
                                          ![c].seen = stored["datasource"]]
    /\ UNCHANGED <<scheduler, stored, lastId>>

\* Mutation: the new datasource gets no id
SaveSettingsNoId(c) ==
    /\ calls[c].res = "datasource" /\ calls[c].at = "loaded"
    /\ stored' = [stored EXCEPT !["datasource"] =
         IF calls[c].kind = "delete" THEN calls[c].seen \ {calls[c].id}
                                     ELSE calls[c].seen \cup {calls[c].id}]
    /\ Answer(c, TRUE)
    /\ UNCHANGED <<scheduler, lastId>>

SaveSettings(c) ==
    /\ calls[c].res = "datasource" /\ calls[c].at = "loaded"
    /\ LET seen == calls[c].seen
       IN  \/ /\ calls[c].kind = "create" /\ lastId < MaxItems
              /\ stored' = [stored EXCEPT !["datasource"] = seen \cup {NewId}]
              /\ lastId' = NewId
           \/ /\ calls[c].kind = "update"
              /\ stored' = [stored EXCEPT !["datasource"] = seen]
              /\ UNCHANGED lastId
           \/ /\ calls[c].kind = "delete"
              /\ stored' = [stored EXCEPT !["datasource"] = seen \ {calls[c].id}]
              /\ UNCHANGED lastId
    /\ Saved(c)
    /\ UNCHANGED scheduler

-----------------------------------------------------------------------------
(* Users and saved queries: one record each *)

\* the name of a new user may be taken
CreateRecord(c) ==
    /\ Is(c, {"user", "query"}, "create", "sent")
    /\ \/ /\ lastId < MaxItems /\ lastId' = NewId
          /\ stored' = [stored EXCEPT ![calls[c].res] = @ \cup {NewId}]
          /\ Saved(c)
       \/ /\ calls[c].res = "user" /\ Answer(c, FALSE)
          /\ UNCHANGED <<stored, lastId>>
    /\ UNCHANGED scheduler

LoadRecord(c) ==
    /\ Is(c, {"user", "query"}, "update", "sent")
    /\ IF calls[c].id \in stored[calls[c].res]
         THEN calls' = [calls EXCEPT ![c].at = "loaded"]
         ELSE Answer(c, FALSE)
    /\ UNCHANGED <<scheduler, stored, lastId>>

SaveRecord(c) ==
    /\ Is(c, {"user", "query"}, "update", "loaded")
    /\ stored' = [stored EXCEPT ![calls[c].res] = @ \cup {calls[c].id}]
    /\ Saved(c)
    /\ UNCHANGED <<scheduler, lastId>>

\* deleteUser refuses the user's own id; the client takes any answer for a yes
DeleteRecord(c) ==
    /\ Is(c, {"user", "query"}, "delete", "sent")
    /\ IF calls[c].res = "user" /\ calls[c].id = Me
         THEN UNCHANGED stored
         ELSE stored' = [stored EXCEPT ![calls[c].res] = @ \ {calls[c].id}]
    /\ Answer(c, TRUE)
    /\ UNCHANGED <<scheduler, lastId>>

Serve(c) == CreateSchedule(c) \/ LoadSchedule(c) \/ SaveSchedule(c)
            \/ DeleteSchedule(c) \/ LoadSettings(c) \/ SaveSettings(c)
            \/ CreateRecord(c) \/ LoadRecord(c) \/ SaveRecord(c)
            \/ DeleteRecord(c)

RequestsInit ==
    /\ SchedulesInit
    /\ stored = [k \in Kind |-> {1, 2}] /\ lastId = 2
    /\ calls = [c \in Call |-> Idle]

RequestsTypeOK ==
    /\ SchedulesTypeOK
    /\ stored \in [Kind -> SUBSET Item] /\ lastId \in 0..MaxItems
    /\ calls \in [Call ->
         [res : Kind \cup {"schedule", "none"},
          kind : {"none", "create", "update", "delete"}, id : 0..MaxItems,
          by : {"button", "save", "closing"}, gone : BOOLEAN, ok : BOOLEAN,
          at : {"idle", "sent", "loaded", "answered", "listing", "timer"},
          plan : Plan, seen : SUBSET Item]]
=============================================================================
