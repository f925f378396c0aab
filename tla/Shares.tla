------------------------------- MODULE Shares -------------------------------
(***************************************************************************)
(* Share links as the server keeps them: requests that make, show and      *)
(* revoke them, public downloads that count against a limit, and the       *)
(* purges, which take the job and its files along.                         *)
(*                                                                         *)
(* An operation of the store is one step (store.mu), a handler is as many  *)
(* as it makes calls of the store.  The files of a job exist as long as it *)
(* is done.  Crashes and the order of the disk writes are in JobStore.     *)
(***************************************************************************)
EXTENDS Naturals, FiniteSets

CONSTANTS Job,
          Unfinished, \* the jobs whose export has not ended at first
          MaxCalls, \* bound on the requests in flight
          Limits,   \* the values of max_downloads; 0 is no limit
          MaxLinks, \* bound on the links that are ever made
          MaxGets   \* bound on the downloads of one link

ASSUME SharesAssumption ==
    /\ {MaxCalls, MaxLinks, MaxGets} \subseteq Nat /\ MaxLinks > 0
    /\ Limits \subseteq 0..MaxGets
    /\ Unfinished \subseteq Job /\ "none" \notin Job

Call == 1..MaxCalls

Status == {"unfinished", "done", "failed", "gone"}
Expiry == {"never", "later", "past"}
Token == 1..MaxLinks
Link == [token : Token, job : Job, max : Limits, count : 0..MaxGets,
         expiry : Expiry]
NoLink == [token |-> 0, job |-> "none", max |-> 0, count |-> 0,
           expiry |-> "never"]

VARIABLES
    status, links,  \* Store.jobs and Store.shares
    calls,   \* the requests in flight: [kind, job, at, ok, link]
    gets,    \* the public downloads in progress; n: the count they were given
    lastToken,
    granted,  \* history: how often a link's bytes were served
    unopened  \* history: the links whose last download had no file to send

store == <<status, links>>
server == <<store, calls, gets, lastToken, granted, unopened>>

Idle == [kind |-> "none", job |-> "none", at |-> "idle", ok |-> TRUE,
         link |-> NoLink]

Expired(l) == l.expiry = "past"
Exhausted(l) == l.max > 0 /\ l.count >= l.max
LinksOf(J) == {l \in links : l.job \in J}

\* GetShareByJob
LinkOf(j) == IF LinksOf({j}) = {} THEN NoLink ELSE CHOOSE l \in links : l.job = j

-----------------------------------------------------------------------------
(* Requests *)

Is(c, kind, at) == calls[c].kind = kind /\ calls[c].at = at
Answer(c, ok, l) ==
    calls' = [calls EXCEPT ![c].at = "answered", ![c].ok = ok, ![c].link = l]
Proceed(c, l) ==
    calls' = [calls EXCEPT ![c].at = "loaded", ![c].link = l]

ServeGetShare(c) ==
    /\ Is(c, "get", "sent")
    /\ Answer(c, TRUE, IF status[calls[c].job] = "gone"
                         THEN NoLink ELSE LinkOf(calls[c].job))
    /\ UNCHANGED <<store, gets, lastToken, granted, unopened>>

\* createShare finds the job done, and later saves the link of the request
LoadForCreate(c) ==
    /\ Is(c, "create", "sent")
    /\ IF status[calls[c].job] = "done"
         THEN Proceed(c, calls[c].link)
         ELSE Answer(c, FALSE, NoLink)
    /\ UNCHANGED <<store, gets, lastToken, granted, unopened>>

SaveShare(c) ==
    /\ Is(c, "create", "loaded") /\ lastToken < MaxLinks
    /\ lastToken' = lastToken + 1
    /\ LET l == [calls[c].link EXCEPT !.token = lastToken']
       IN  /\ links' = (links \ LinksOf({l.job})) \cup {l}
           \* without shares.json written, the link is there and not answered
           /\ Answer(c, TRUE, l) \/ Answer(c, FALSE, NoLink)
    /\ UNCHANGED <<status, gets, granted, unopened>>

\* revokeShare reads the link of the job, and later deletes its token
LoadForRevoke(c) ==
    /\ Is(c, "revoke", "sent")
    /\ LET l == LinkOf(calls[c].job)
       IN  IF status[calls[c].job] = "gone" \/ l = NoLink
             THEN Answer(c, TRUE, NoLink)
             ELSE Proceed(c, l)
    /\ UNCHANGED <<store, gets, lastToken, granted, unopened>>

DeleteShare(c) ==
    /\ Is(c, "revoke", "loaded")
    /\ links' = {l \in links : l.token # calls[c].link.token}
    /\ Answer(c, TRUE, NoLink)
    /\ UNCHANGED <<status, gets, lastToken, granted, unopened>>

\* Store.DeleteJob and PruneExports: the jobs, their files and their links
Remove(J) ==
    /\ status' = [j \in Job |-> IF j \in J THEN "gone" ELSE status[j]]
    /\ links' = links \ LinksOf(J)

\* deleteJob; what Worker.Cancel does is in ExportWorker
ServeDelete(c) ==
    /\ Is(c, "delete", "sent")
    /\ IF status[calls[c].job] = "gone" THEN UNCHANGED store
                                        ELSE Remove({calls[c].job})
    /\ Answer(c, TRUE, NoLink)
    /\ UNCHANGED <<gets, lastToken, granted, unopened>>

\* downloadToken, and downloadJob with it
ServeToken(c) ==
    /\ \/ Is(c, "token", "sent")
       \/ Is(c, "file", "sent")
    /\ Answer(c, status[calls[c].job] = "done", NoLink)
    /\ UNCHANGED <<store, gets, lastToken, granted, unopened>>

Serve(c) == ServeGetShare(c) \/ LoadForCreate(c) \/ SaveShare(c)
            \/ LoadForRevoke(c) \/ DeleteShare(c) \/ ServeDelete(c)
            \/ ServeToken(c)

-----------------------------------------------------------------------------
(* Public downloads *)

\* purgeShareLocked
Purge(L) ==
    /\ status' = [j \in Job |-> IF \E l \in L : l.job = j THEN "gone"
                                ELSE status[j]]
    /\ links' = links \ L

\* Mutation: the limit is looked at, and the download counted when it is over
ConsumeUncounted(l) ==
    /\ IF Expired(l) \/ Exhausted(l) \/ status[l.job] # "done"
         THEN Purge({l}) /\ UNCHANGED gets
         ELSE /\ \E n \in 1..MaxGets :
                   gets' = gets \cup {[token |-> l.token, job |-> l.job, n |-> n,
                                       last |-> TRUE, at |-> "open"]}
              /\ UNCHANGED store
    /\ UNCHANGED <<calls, lastToken, granted, unopened>>

\* ConsumeShare of downloadShare; a token without a link is answered 404
Consume(l) ==
    /\ IF Expired(l) \/ Exhausted(l) \/ status[l.job] # "done"
         THEN Purge({l}) /\ UNCHANGED gets
         ELSE LET counted == [l EXCEPT !.count = @ + 1]
              IN  /\ l.count < MaxGets
                  /\ links' = (links \ {l}) \cup {counted}
                  /\ gets' = gets \cup
                       {[token |-> l.token, job |-> l.job, n |-> counted.count,
                         last |-> Exhausted(counted), at |-> "open"]}
                  /\ UNCHANGED status
    /\ UNCHANGED <<calls, lastToken, granted, unopened>>

\* os.Open and Stat: without the job there is no file, and with it they may
\* fail, too; the handler then returns, and purges nothing
OpenFile(g) ==
    /\ g.at = "open"
    /\ \/ /\ status[g.job] = "done"
          /\ gets' = (gets \ {g}) \cup {[g EXCEPT !.at = "send"]}
          /\ granted' = [granted EXCEPT ![g.token] = @ + 1]
          /\ UNCHANGED unopened
       \/ /\ gets' = gets \ {g}
          /\ unopened' = IF g.last THEN unopened \cup {g.token} ELSE unopened
          /\ UNCHANGED granted
    /\ UNCHANGED <<store, calls, lastToken>>

\* Mutation: the purge takes whatever link its job has
SentPurgesJob(g) ==
    /\ g.at = "send" /\ gets' = gets \ {g}
    /\ IF g.last THEN Purge(LinksOf({g.job})) ELSE UNCHANGED store
    /\ UNCHANGED <<calls, lastToken, granted, unopened>>

\* Mutation: nothing follows the last download
SentNoPurge(g) ==
    /\ g.at = "send" /\ gets' = gets \ {g}
    /\ UNCHANGED <<store, calls, lastToken, granted, unopened>>

\* the copy is over, complete or not, and the last download purges its link
Sent(g) ==
    /\ g.at = "send" /\ gets' = gets \ {g}
    /\ IF g.last THEN Purge({l \in links : l.token = g.token})
                 ELSE UNCHANGED store
    /\ UNCHANGED <<calls, lastToken, granted, unopened>>

-----------------------------------------------------------------------------
(* Time and others *)

ExpiryPasses ==
    /\ \E l \in links : l.expiry = "later"
                        /\ links' = (links \ {l}) \cup {[l EXCEPT !.expiry = "past"]}
    /\ UNCHANGED <<status, calls, gets, lastToken, granted, unopened>>

CleanupExpiredShares ==
    /\ \E l \in links : Expired(l)
    /\ Purge({l \in links : Expired(l)})
    /\ UNCHANGED <<calls, gets, lastToken, granted, unopened>>

JobEnds ==
    /\ \E j \in Job, s \in {"done", "failed"} :
         status[j] = "unfinished" /\ status' = [status EXCEPT ![j] = s]
    /\ UNCHANGED <<links, calls, gets, lastToken, granted, unopened>>

\* the retention; another client's deletion has the same effect on the store
PruneExports ==
    /\ \E J \in SUBSET {j \in Job : status[j] \in {"done", "failed"}} :
         J # {} /\ Remove(J)
    /\ UNCHANGED <<calls, gets, lastToken, granted, unopened>>

Serving == \E g \in gets : OpenFile(g) \/ Sent(g)
Download == (\E l \in links : Consume(l)) \/ Serving
Others == ExpiryPasses \/ CleanupExpiredShares \/ JobEnds \/ PruneExports

\* one job may have been shared before, by hand or when its export ended
SharesInit ==
    /\ status = [j \in Job |-> IF j \in Unfinished THEN "unfinished" ELSE "done"]
    /\ links \in {{}} \cup
         {{[token |-> 1, job |-> j, max |-> m, count |-> 0, expiry |-> "never"]} :
            j \in Job \ Unfinished, m \in Limits}
    /\ calls = [c \in Call |-> Idle] /\ gets = {}
    /\ lastToken = Cardinality(links) /\ granted = [t \in Token |-> 0]
    /\ unopened = {}

-----------------------------------------------------------------------------
(* Properties *)

SharesTypeOK ==
    /\ status \in [Job -> Status] /\ links \subseteq Link
    /\ calls \in [Call ->
         [kind : {"none", "get", "create", "revoke", "delete", "token", "file"},
          job : Job \cup {"none"}, at : {"idle", "sent", "loaded", "answered"},
          ok : BOOLEAN, link : Link \cup {NoLink} \cup
            [token : {0}, job : Job, max : Limits, count : {0}, expiry : Expiry]]]
    /\ gets \subseteq [token : Token, job : Job, n : 1..MaxGets,
                       last : BOOLEAN, at : {"open", "send"}]
    /\ lastToken \in 0..MaxLinks /\ granted \in [Token -> Nat]
    /\ unopened \subseteq Token

\* A job never has two links, whoever makes them at a time, and a link is never
\* served more often than its limit: SaveShare removes the old link and
\* ConsumeShare checks and counts in the same critical section.
LinkBounds ==
    /\ \A k, l \in links : k.job = l.job => k = l
    /\ \A l \in links : l.max > 0 => granted[l.token] <= l.max

\* A download of an older link, however late it ends, takes no job that has
\* been given a new link: but for a deletion or the retention, a job goes only
\* with a link of its own that is used up or expired.
LiveLinkKeepsJob ==
    [][\A j \in Job :
         status[j] = "done" /\ status'[j] = "gone" =>
           \/ \E l \in LinksOf({j}) : Expired(l) \/ Exhausted(l)
           \/ PruneExports \/ \E c \in Call : ServeDelete(c)]_server

\* A link whose last download has been granted goes, and its job with it,
\* unless the file could not be opened for that download: then the two wait for
\* a further request of the link, its expiry, a deletion or the retention.
UsedUp(t) == \E l \in links : l.token = t /\ Exhausted(l)
UsedUpIsPurged == \A t \in Token : UsedUp(t) ~> ~UsedUp(t) \/ t \in unopened
=============================================================================
