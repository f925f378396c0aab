------------------------------ MODULE JobsPage ------------------------------
(***************************************************************************)
(* The jobs page of the web frontend: the list and its polling, deletion,  *)
(* downloads, and the modal for a job's share link, over the requests of   *)
(* Shares.  Answers come in any order, and whether or not the modal that   *)
(* asked for them is still open.  Error texts are left out: no button is   *)
(* bound to them.                                                          *)
(***************************************************************************)
EXTENDS Shares

CONSTANT MaxClicks \* bound on the clicks that send a request

ASSUME JobsPageAssumption == MaxClicks \in Nat

VARIABLES
    list,    \* jobs: the status of each, "gone" when it is not listed
    shareJob, shareExisting, shareLoading,
    raced,   \* history: the modal was closed with a request of it in flight
    clicks

modal == <<shareJob, shareExisting, shareLoading, raced>>
page == <<list, modal, clicks>>
vars == <<server, page>>

Empty == [j \in Job |-> "gone"]
Open == shareJob # "none"
ShareCalls == {c \in Call : calls[c].kind \in {"get", "create", "revoke"}}

\* a click that sends a request
Send(kind, j, l) ==
    /\ clicks < MaxClicks /\ clicks' = clicks + 1
    /\ \E c \in Call :
         /\ calls[c] = Idle /\ \A d \in 1..(c - 1) : calls[d] # Idle
         /\ calls' = [calls EXCEPT ![c] = [kind |-> kind, job |-> j, at |-> "sent",
                                           ok |-> TRUE, link |-> l]]
    /\ UNCHANGED <<store, gets, lastToken, granted, unopened>>

-----------------------------------------------------------------------------
(* The list *)

\* loadJobs, at once and then every two seconds: between two answers the list
\* is what the server had at some time before
LoadJobs ==
    /\ list # status
    /\ list' = status
    /\ UNCHANGED <<server, modal, clicks>>

\* the modal covers the list
HandleDelete(j) ==
    /\ ~Open /\ list[j] # "gone"
    /\ Send("delete", j, NoLink)
    /\ UNCHANGED <<list, modal>>

DeleteArrives(c) ==
    /\ Is(c, "delete", "answered")
    /\ calls' = [calls EXCEPT ![c] = Idle]
    /\ list' = status
    /\ UNCHANGED <<store, gets, lastToken, granted, unopened, modal, clicks>>

\* downloadJob asks for a token and has the browser get the file with it
HandleDownload(j) ==
    /\ ~Open /\ list[j] = "done"
    /\ Send("token", j, NoLink)
    /\ UNCHANGED <<list, modal>>

TokenArrives(c) ==
    /\ Is(c, "token", "answered")
    /\ IF calls[c].ok
         THEN calls' = [calls EXCEPT ![c].kind = "file", ![c].at = "sent"]
         ELSE calls' = [calls EXCEPT ![c] = Idle]
    /\ UNCHANGED <<store, gets, lastToken, granted, unopened, list, modal, clicks>>

\* the browser has the file, or a page with the error
FileArrives(c) ==
    /\ Is(c, "file", "answered")
    /\ calls' = [calls EXCEPT ![c] = Idle]
    /\ UNCHANGED <<store, gets, lastToken, granted, unopened, page>>

-----------------------------------------------------------------------------
(* The share modal *)

OpenShare(j) ==
    /\ ~Open /\ list[j] = "done"
    /\ Send("get", j, NoLink)
    /\ shareJob' = j /\ shareLoading' = TRUE
    /\ raced' = (raced /\ (ShareCalls # {} \/ shareExisting # NoLink))
    /\ UNCHANGED <<list, shareExisting>>

\* Mutation: the link of the closed modal stays
CloseShareKeeps ==
    /\ Open
    /\ shareJob' = "none"
    /\ raced' = (raced \/ ShareCalls # {})
    /\ UNCHANGED <<server, list, shareExisting, shareLoading, clicks>>

\* by its buttons, or by a click beside the modal, which nothing disables
CloseShare ==
    /\ Open
    /\ shareJob' = "none" /\ shareExisting' = NoLink
    /\ raced' = (raced \/ ShareCalls # {})
    /\ UNCHANGED <<server, list, shareLoading, clicks>>

HandleCreateShare ==
    /\ Open /\ shareExisting = NoLink /\ ~shareLoading
    /\ \E m \in Limits, e \in {"never", "later"} :
         Send("create", shareJob, [token |-> 0, job |-> shareJob, max |-> m,
                                   count |-> 0, expiry |-> e])
    /\ shareLoading' = TRUE
    /\ UNCHANGED <<list, shareJob, shareExisting, raced>>

HandleRevokeShare ==
    /\ Open /\ shareExisting # NoLink /\ ~shareLoading
    /\ Send("revoke", shareJob, NoLink)
    /\ shareLoading' = TRUE
    /\ UNCHANGED <<list, shareJob, shareExisting, raced>>

\* the rest of openShare, handleCreateShare and handleRevokeShare
ShareArrives(c) ==
    /\ c \in ShareCalls /\ calls[c].at = "answered"
    /\ calls' = [calls EXCEPT ![c] = Idle]
    /\ shareLoading' = FALSE
    /\ IF calls[c].ok
         THEN shareExisting' = calls[c].link
         ELSE UNCHANGED shareExisting
    /\ UNCHANGED <<store, gets, lastToken, granted, unopened, list, shareJob,
                   raced, clicks>>

-----------------------------------------------------------------------------
Init ==
    /\ SharesInit
    /\ list = Empty
    /\ shareJob = "none" /\ shareExisting = NoLink
    /\ shareLoading = FALSE
    /\ raced = FALSE /\ clicks = 0

Click == \/ \E j \in Job : HandleDelete(j) \/ HandleDownload(j) \/ OpenShare(j)
         \/ CloseShare \/ HandleCreateShare \/ HandleRevokeShare
Arrive(c) == DeleteArrives(c) \/ TokenArrives(c) \/ FileArrives(c)
             \/ ShareArrives(c)
Next ==
    \/ Click
    \/ \E c \in Call : Serve(c) /\ UNCHANGED page
    \/ \E c \in Call : Arrive(c)
    \/ LoadJobs
    \/ Download /\ UNCHANGED page
    \/ Others /\ UNCHANGED page

Spec == Init /\ [][Next]_vars

\* a handler that has begun runs on, and an answer arrives
FairSpec ==
    /\ Spec
    /\ WF_vars(Serving /\ UNCHANGED page)
    /\ \A c \in Call : WF_vars(Arrive(c) \/ (Serve(c) /\ UNCHANGED page))

\* every variable has its type
TypeOK ==
    /\ SharesTypeOK
    /\ list \in [Job -> Status]
    /\ shareJob \in Job \cup {"none"} /\ shareExisting \in Link \cup {NoLink}
    /\ {shareLoading, raced} \subseteq BOOLEAN
    /\ clicks \in 0..MaxClicks

\* The link in the modal is the open job's, and so is the one that revoke
\* takes: unless a modal was closed while it waited for an answer.
ModalShowsItsJob ==
    Open /\ shareExisting # NoLink /\ ~raced => shareExisting.job = shareJob
=============================================================================
