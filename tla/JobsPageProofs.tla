---------------------------- MODULE JobsPageProofs ----------------------------
(***************************************************************************)
(* What TLAPS proves about JobsPage and Shares, for any jobs and limits    *)
(* and any number of requests, links and downloads: types, LinkBounds and  *)
(* LiveLinkKeepsJob.                                                       *)
(*                                                                         *)
(* LinkBounds counts what was served, the store counts what was granted:   *)
(* the invariant has the downloads that are still to be opened between the *)
(* two (Counted), and new tokens that nothing was served for (Untouched).  *)
(* LiveLinkKeepsJob needs that the link of a last download, as long as it  *)
(* is there, is used up (LastIsUsedUp).                                    *)
(*                                                                         *)
(* ModalShowsItsJob needs that requests bring links of the job they are    *)
(* about (LinksAreOwn), and that the requests in flight are of the open    *)
(* job unless a modal was closed over one (ModalOfOneJob).                 *)
(***************************************************************************)
EXTENDS JobsPage, FiniteSetTheorems, TLAPS

\* the downloads of a token that have been counted and not yet opened
Opening(t) == {g \in gets : g.token = t /\ g.at = "open"}

\* what a create request brings
NewLink == [token : {0}, job : Job, max : Limits, count : {0}, expiry : Expiry]

LinksUnique == \A k, l \in links : k.job = l.job \/ k.token = l.token => k = l
TokensGiven == /\ \A l \in links : l.token <= lastToken
               /\ \A g \in gets : g.token <= lastToken
Untouched == \A t \in Token : t > lastToken => granted[t] = 0
Counted ==
    \A l \in links :
      /\ granted[l.token] + Cardinality(Opening(l.token)) <= l.count
      /\ l.max > 0 => l.count <= l.max
LastIsUsedUp ==
    \A g \in gets, l \in links : g.last /\ g.token = l.token => Exhausted(l)
Creating ==
    \A c \in Call : calls[c].kind = "create" /\ calls[c].at \in {"sent", "loaded"}
                      => calls[c].link \in NewLink
Answered ==
    \A c \in Call : calls[c].at = "answered" => calls[c].link \in Link \cup {NoLink}

IInv == TypeOK /\ IsFiniteSet(gets) /\ LinksUnique /\ TokensGiven /\ Untouched
        /\ Counted /\ LastIsUsedUp /\ Creating /\ Answered

\* the part of it that requests do not touch
StoreInv == /\ status \in [Job -> Status] /\ links \subseteq Link
            /\ gets \subseteq [token : Token, job : Job, n : 1..MaxGets,
                               last : BOOLEAN, at : {"open", "send"}]
            /\ lastToken \in 0..MaxLinks /\ granted \in [Token -> Nat]
            /\ unopened \subseteq Token
            /\ IsFiniteSet(gets) /\ LinksUnique /\ TokensGiven /\ Untouched
            /\ Counted /\ LastIsUsedUp
CallRecord ==
    [kind : {"none", "get", "create", "revoke", "delete", "token", "file"},
     job : Job \cup {"none"}, at : {"idle", "sent", "loaded", "answered"},
     ok : BOOLEAN, link : Link \cup {NoLink} \cup NewLink]
CallsInv == calls \in [Call -> CallRecord] /\ Creating /\ Answered
PageInv == /\ list \in [Job -> Status]
           /\ shareJob \in Job \cup {"none"} /\ shareExisting \in Link \cup {NoLink}
           /\ {shareLoading, raced} \subseteq BOOLEAN
           /\ clicks \in 0..MaxClicks

\* The invariant in three parts.
LEMMA InvParts == IInv <=> StoreInv /\ CallsInv /\ PageInv
  BY DEF IInv, TypeOK, SharesTypeOK, StoreInv, CallsInv, PageInv, CallRecord, NewLink

-----------------------------------------------------------------------------
(* The store *)

\* Limits and counters are numbers.
LEMMA LinkNumbers ==
  /\ MaxGets \in Nat /\ MaxLinks \in Nat
  /\ \A l \in Link : /\ l.max \in Nat /\ l.count \in Nat /\ l.token \in Token
                     /\ l.job \in Job
<1>1. MaxGets \in Nat /\ MaxLinks \in Nat /\ Limits \subseteq 0..MaxGets
  BY SharesAssumption
<1>2. Limits \subseteq Nat
  BY <1>1
<1>3. ASSUME NEW l \in Link
      PROVE  /\ l.max \in Nat /\ l.count \in Nat /\ l.token \in Token
             /\ l.job \in Job
  <2>1. l.max \in Limits /\ l.count \in 0..MaxGets
    BY DEF Link
  <2>2. l.token \in Token /\ l.job \in Job
    BY DEF Link
  <2>3. l.max \in Nat
    BY <1>2, <2>1, Zenon
  <2>4. l.count \in Nat
    BY <1>1, <2>1
  <2> QED
    BY <2>2, <2>3, <2>4
<1> QED
  BY <1>1, <1>3

\* Links that go, and jobs that go with them, disturb nothing.
LEMMA FewerLinks ==
  ASSUME StoreInv, links' \subseteq links, status' \in [Job -> Status],
         UNCHANGED <<gets, lastToken, granted, unopened>>
  PROVE  StoreInv'
<1>1. \A t : Opening(t)' = Opening(t)
  BY DEF Opening
<1>2. LinksUnique' /\ TokensGiven' /\ Untouched' /\ LastIsUsedUp'
  BY DEF StoreInv, LinksUnique, TokensGiven, Untouched, LastIsUsedUp, Exhausted
<1>3. Counted'
  BY <1>1 DEF StoreInv, Counted
<1> QED
  BY <1>2, <1>3 DEF StoreInv

\* So does a purge.
LEMMA PurgeKeeps ==
  ASSUME StoreInv, NEW L, Purge(L), UNCHANGED <<gets, lastToken, granted, unopened>>
  PROVE  StoreInv'
<1>1. links' \subseteq links /\ status' \in [Job -> Status]
  BY DEF Purge, StoreInv, Status
<1> QED
  BY <1>1, FewerLinks

\* And the removal of jobs with their links.
LEMMA RemoveKeeps ==
  ASSUME StoreInv, NEW J, Remove(J), UNCHANGED <<gets, lastToken, granted, unopened>>
  PROVE  StoreInv'
<1>1. links' \subseteq links /\ status' \in [Job -> Status]
  BY DEF Remove, StoreInv, Status
<1> QED
  BY <1>1, FewerLinks

\* A link with a new token replaces those of its job.
LEMMA NewLinkKeeps ==
  ASSUME StoreInv, NEW l \in Link, l.token = lastToken + 1, l.count = 0,
         lastToken < MaxLinks, lastToken' = lastToken + 1,
         links' = (links \ LinksOf({l.job})) \cup {l},
         UNCHANGED <<status, gets, granted, unopened>>
  PROVE  StoreInv'
<1>1. /\ lastToken \in Nat /\ MaxLinks \in Nat /\ lastToken' \in 0..MaxLinks
      /\ links' \subseteq Link
  BY SharesAssumption DEF StoreInv
<1>2. \A k \in links : k.token # l.token /\ k.token \in Nat
  BY <1>1 DEF StoreInv, TokensGiven, Link, Token
<1>3. LinksUnique'
  BY <1>2 DEF StoreInv, LinksUnique, LinksOf
<1>4. \A g \in gets : g.token # l.token /\ g.token \in Nat
  BY <1>1 DEF StoreInv, TokensGiven, Token
<1>5. TokensGiven' /\ Untouched'
  BY <1>1, <1>2, <1>4 DEF StoreInv, TokensGiven, Untouched, Token
<1>6. Counted'
  <2>1. \A t : Opening(t)' = Opening(t)
    BY DEF Opening
  <2>2. Opening(l.token) = {} /\ Cardinality({}) = 0
    BY <1>4, FS_EmptySet DEF Opening
  <2>3. granted[l.token] = 0
    BY <1>1 DEF StoreInv, Untouched, Link
  <2>4. l.max \in Nat
    BY LinkNumbers
  <2>5. ASSUME NEW k \in links', k # l
        PROVE  /\ granted'[k.token] + Cardinality(Opening(k.token)') <= k.count
               /\ k.max > 0 => k.count <= k.max
    BY <2>1, <2>5 DEF StoreInv, Counted
  <2>6. /\ granted'[l.token] + Cardinality(Opening(l.token)') <= l.count
        /\ l.max > 0 => l.count <= l.max
    <3>1. granted'[l.token] = 0 /\ Cardinality(Opening(l.token)') = 0
      BY <2>1, <2>2, <2>3
    <3> QED
      BY <2>4, <3>1
  <2> QED
    BY <2>5, <2>6 DEF Counted
<1>7. LastIsUsedUp'
  BY <1>4 DEF StoreInv, LastIsUsedUp, Exhausted
<1> QED
  BY <1>1, <1>3, <1>5, <1>6, <1>7 DEF StoreInv

\* A download is counted against its link.
LEMMA ConsumeKeeps ==
  ASSUME StoreInv, NEW l \in links, Consume(l) PROVE StoreInv'
<1>1. CASE Expired(l) \/ Exhausted(l) \/ status[l.job] # "done"
  BY <1>1, PurgeKeeps DEF Consume
<1>2. CASE ~(Expired(l) \/ Exhausted(l) \/ status[l.job] # "done")
  <2> DEFINE counted == [l EXCEPT !.count = @ + 1]
             g == [token |-> l.token, job |-> l.job, n |-> counted.count,
                   last |-> Exhausted(counted), at |-> "open"]
  <2>1. /\ l.count < MaxGets
        /\ links' = (links \ {l}) \cup {counted}
        /\ gets' = gets \cup {g}
        /\ UNCHANGED <<status, lastToken, granted, unopened>>
    BY <1>2 DEF Consume
  <2>2. /\ l \in Link /\ l.count \in Nat /\ l.max \in Nat /\ l.token \in Token
        /\ MaxGets \in Nat
    BY LinkNumbers DEF StoreInv
  <2>3. /\ counted \in Link /\ counted.token = l.token /\ counted.job = l.job
        /\ counted.max = l.max /\ counted.count = l.count + 1
    BY <2>1, <2>2 DEF Link
  <2>4. /\ g \in [token : Token, job : Job, n : 1..MaxGets, last : BOOLEAN,
                  at : {"open", "send"}]
        /\ g.token = l.token /\ g.last = Exhausted(counted) /\ g.at = "open"
    <3>1. Exhausted(counted) \in BOOLEAN
      BY DEF Exhausted
    <3>2. counted.count \in 1..MaxGets /\ l.job \in Job
      BY <2>1, <2>2, <2>3 DEF Link
    <3> QED
      BY <2>2, <3>1, <3>2
  <2> HIDE DEF counted, g
  <2>5. LinksUnique'
    BY <2>1, <2>3 DEF StoreInv, LinksUnique
  <2>6. TokensGiven' /\ Untouched'
    BY <2>1, <2>3, <2>4 DEF StoreInv, TokensGiven, Untouched
  <2>7. IsFiniteSet(gets')
    BY <2>1, FS_AddElement DEF StoreInv
  <2>8. Counted'
    <3>1. ASSUME NEW k \in links, k # l
          PROVE  /\ granted'[k.token] + Cardinality(Opening(k.token)') <= k.count
                 /\ k.max > 0 => k.count <= k.max
      <4>1. k.token # l.token
        BY <3>1 DEF StoreInv, LinksUnique
      <4>2. Opening(k.token)' = Opening(k.token)
        BY <2>1, <2>4, <4>1 DEF Opening
      <4> QED
        BY <2>1, <4>2 DEF StoreInv, Counted
    <3>2. /\ IsFiniteSet(Opening(l.token)) /\ Cardinality(Opening(l.token)) \in Nat
          /\ Cardinality(Opening(l.token)') <= Cardinality(Opening(l.token)) + 1
      <4>1. Opening(l.token) \subseteq gets
        BY DEF Opening
      <4>2. Opening(l.token)' = Opening(l.token) \cup {g}
        BY <2>1, <2>4 DEF Opening
      <4>3. IsFiniteSet(Opening(l.token)) /\ Cardinality(Opening(l.token)) \in Nat
        BY <4>1, FS_Subset, FS_CardinalityType DEF StoreInv
      <4>4. Cardinality(Opening(l.token) \cup {g}) <= Cardinality(Opening(l.token)) + 1
        <5>1. Cardinality(Opening(l.token) \cup {g})
                = IF g \in Opening(l.token) THEN Cardinality(Opening(l.token))
                                            ELSE Cardinality(Opening(l.token)) + 1
          BY <4>3, FS_AddElement
        <5> QED
          BY <4>3, <5>1
      <4> QED
        BY <4>2, <4>3, <4>4
    <3>3. IsFiniteSet(Opening(l.token)') /\ Cardinality(Opening(l.token)') \in Nat
      <4>1. Opening(l.token)' \subseteq gets'
        BY DEF Opening
      <4> QED
        BY <2>7, <4>1, FS_Subset, FS_CardinalityType
    <3>4. granted[l.token] \in Nat
          /\ granted[l.token] + Cardinality(Opening(l.token)) <= l.count
      BY <2>2 DEF StoreInv, Counted
    <3>5. granted'[counted.token] + Cardinality(Opening(counted.token)') <= counted.count
      BY <2>1, <2>2, <2>3, <3>2, <3>3, <3>4
    <3>6. counted.max > 0 => counted.count <= counted.max
      BY <1>2, <2>2, <2>3 DEF Exhausted
    <3> QED
      BY <2>1, <3>1, <3>5, <3>6 DEF Counted
  <2>9. LastIsUsedUp'
    <3>1. ASSUME NEW h \in gets, h.last, h.token = l.token PROVE FALSE
      BY <1>2, <3>1 DEF StoreInv, LastIsUsedUp
    <3>2. ASSUME NEW k \in links, k # l PROVE k.token # l.token
      BY <3>2 DEF StoreInv, LinksUnique
    <3> QED
      BY <2>1, <2>3, <2>4, <3>1, <3>2 DEF StoreInv, LastIsUsedUp, Exhausted
  <2> QED
    BY <2>1, <2>3, <2>4, <2>5, <2>6, <2>7, <2>8, <2>9 DEF StoreInv
<1> QED
  BY <1>1, <1>2

\* A download ends; links and jobs may go with it.
LEMMA FewerGets ==
  ASSUME StoreInv, NEW g \in gets, gets' = gets \ {g}, links' \subseteq links,
         status' \in [Job -> Status], unopened' \subseteq Token,
         UNCHANGED <<lastToken, granted>>
  PROVE  StoreInv'
<1>1. IsFiniteSet(gets')
  BY FS_RemoveElement DEF StoreInv
<1>2. Counted'
  <2>1. ASSUME NEW l \in links
        PROVE  granted'[l.token] + Cardinality(Opening(l.token)') <= l.count
    <3>1. Opening(l.token)' \subseteq Opening(l.token) /\ Opening(l.token) \subseteq gets
      BY DEF Opening
    <3>2. /\ Cardinality(Opening(l.token)') <= Cardinality(Opening(l.token))
          /\ Cardinality(Opening(l.token)') \in Nat
          /\ Cardinality(Opening(l.token)) \in Nat
      BY <3>1, FS_Subset, FS_CardinalityType DEF StoreInv
    <3>3. granted[l.token] \in Nat /\ l.count \in Nat
          /\ granted[l.token] + Cardinality(Opening(l.token)) <= l.count
      BY DEF StoreInv, Counted, Link
    <3> QED
      BY <3>2, <3>3
  <2> QED
    BY <2>1 DEF StoreInv, Counted
<1>3. LinksUnique' /\ TokensGiven' /\ Untouched' /\ LastIsUsedUp'
  BY DEF StoreInv, LinksUnique, TokensGiven, Untouched, LastIsUsedUp, Exhausted
<1> QED
  BY <1>1, <1>2, <1>3 DEF StoreInv

\* A file that is opened moves from the downloads to open to those served.
LEMMA OpenFileKeeps ==
  ASSUME StoreInv, NEW g \in gets, OpenFile(g) PROVE StoreInv'
<1>1. CASE gets' = gets \ {g} /\ UNCHANGED granted
  <2>1. unopened' \subseteq Token
    BY DEF OpenFile, StoreInv
  <2> QED
    BY <1>1, <2>1, FewerGets DEF OpenFile, store, StoreInv
<1>2. CASE /\ gets' = (gets \ {g}) \cup {[g EXCEPT !.at = "send"]}
           /\ granted' = [granted EXCEPT ![g.token] = @ + 1]
           /\ UNCHANGED unopened
  <2> DEFINE sent == [g EXCEPT !.at = "send"]
  <2>1. /\ gets' = (gets \ {g}) \cup {sent}
        /\ granted' = [granted EXCEPT ![g.token] = @ + 1]
        /\ UNCHANGED <<status, links, lastToken, unopened>> /\ g.at = "open"
    BY <1>2 DEF OpenFile, store
  <2>2. g.token \in Token /\ granted \in [Token -> Nat]
    BY DEF StoreInv
  <2>3. /\ sent \in [token : Token, job : Job, n : 1..MaxGets, last : BOOLEAN,
                     at : {"open", "send"}]
        /\ sent.token = g.token /\ sent.last = g.last /\ sent.at = "send"
    BY DEF StoreInv
  <2> HIDE DEF sent
  <2>4. IsFiniteSet(gets')
    BY <2>1, FS_AddElement, FS_RemoveElement DEF StoreInv
  <2>5. granted' \in [Token -> Nat]
    BY <2>1, <2>2
  <2>6. TokensGiven' /\ LinksUnique' /\ LastIsUsedUp'
    BY <2>1, <2>3 DEF StoreInv, TokensGiven, LinksUnique, LastIsUsedUp, Exhausted
  <2>7. Untouched'
    BY <2>1, <2>2, SharesAssumption DEF StoreInv, Untouched, TokensGiven, Token
  <2>8. Counted'
    <3>1. ASSUME NEW l \in links
          PROVE  granted'[l.token] + Cardinality(Opening(l.token)') <= l.count
      <4>1. Opening(l.token) \subseteq gets
        BY DEF Opening
      <4>2. IsFiniteSet(Opening(l.token)) /\ Cardinality(Opening(l.token)) \in Nat
        BY <4>1, FS_Subset, FS_CardinalityType DEF StoreInv
      <4>3. granted[l.token] \in Nat /\ l.count \in Nat /\ l.token \in Token
            /\ granted[l.token] + Cardinality(Opening(l.token)) <= l.count
        BY DEF StoreInv, Counted, Link
      <4>4. CASE l.token = g.token
        <5>1. Opening(l.token)' = Opening(l.token) \ {g} /\ g \in Opening(l.token)
          BY <2>1, <2>3, <4>4 DEF Opening
        <5>2. Cardinality(Opening(l.token)') = Cardinality(Opening(l.token)) - 1
          BY <4>2, <5>1, FS_RemoveElement
        <5> QED
          BY <2>1, <2>2, <4>2, <4>3, <4>4, <5>2
      <4>5. CASE l.token # g.token
        <5>1. Opening(l.token)' = Opening(l.token)
          BY <2>1, <2>3, <4>5 DEF Opening
        <5> QED
          BY <2>1, <2>2, <4>3, <4>5, <5>1
      <4> QED
        BY <4>4, <4>5
    <3> QED
      BY <2>1, <3>1 DEF StoreInv, Counted
  <2> QED
    BY <2>1, <2>3, <2>4, <2>5, <2>6, <2>7, <2>8 DEF StoreInv
<1> QED
  BY <1>1, <1>2 DEF OpenFile

\* The end of a download, and the purge behind the last one.
LEMMA SentKeeps ==
  ASSUME StoreInv, NEW g \in gets, Sent(g) PROVE StoreInv'
<1>1. gets' = gets \ {g} /\ UNCHANGED <<lastToken, granted, unopened>>
      /\ links' \subseteq links /\ status' \in [Job -> Status]
  BY DEF Sent, Purge, store, StoreInv, Status
<1>2. unopened' \subseteq Token
  BY <1>1 DEF StoreInv
<1> QED
  BY <1>1, <1>2, FewerGets

\* What leaves the store alone.
LEMMA StoreSame ==
  ASSUME StoreInv, UNCHANGED <<store, gets, lastToken, granted, unopened>> PROVE StoreInv'
<1>1. links' \subseteq links /\ status' \in [Job -> Status]
  BY DEF store, StoreInv
<1> QED
  BY <1>1, FewerLinks

\* The clock, the timer, the engine and the retention.
LEMMA OthersKeep == ASSUME StoreInv, Others PROVE StoreInv'
<1>1. CASE ExpiryPasses
  <2>1. PICK l \in links : links' = (links \ {l}) \cup {[l EXCEPT !.expiry = "past"]}
    BY <1>1 DEF ExpiryPasses
  <2> DEFINE past == [l EXCEPT !.expiry = "past"]
  <2>2. /\ past \in Link /\ past.token = l.token /\ past.job = l.job
        /\ past.max = l.max /\ past.count = l.count
    BY DEF StoreInv, Link, Expiry
  <2>3. links' = (links \ {l}) \cup {past}
    BY <2>1
  <2> HIDE DEF past
  <2>4. UNCHANGED <<status, gets, lastToken, granted, unopened>>
    BY <1>1 DEF ExpiryPasses
  <2>5. \A t : Opening(t)' = Opening(t)
    BY <2>4 DEF Opening
  <2>6. Counted'
    <3>1. ASSUME NEW k \in links
          PROVE  /\ granted'[k.token] + Cardinality(Opening(k.token)') <= k.count
                 /\ k.max > 0 => k.count <= k.max
      BY <2>4, <2>5 DEF StoreInv, Counted
    <3>2. /\ granted'[past.token] + Cardinality(Opening(past.token)') <= past.count
          /\ past.max > 0 => past.count <= past.max
      BY <2>2, <3>1
    <3> QED
      BY <2>3, <3>1, <3>2 DEF Counted
  <2>7. LinksUnique' /\ TokensGiven' /\ Untouched' /\ LastIsUsedUp'
    BY <2>2, <2>3, <2>4
       DEF StoreInv, LinksUnique, TokensGiven, Untouched, LastIsUsedUp, Exhausted
  <2> QED
    BY <2>2, <2>3, <2>4, <2>6, <2>7 DEF StoreInv
<1>2. CASE CleanupExpiredShares
  BY <1>2, PurgeKeeps DEF CleanupExpiredShares
<1>3. CASE JobEnds
  <2>1. status' \in [Job -> Status] /\ links' \subseteq links
        /\ UNCHANGED <<gets, lastToken, granted, unopened>>
    BY <1>3 DEF JobEnds, StoreInv, Status
  <2> QED
    BY <2>1, FewerLinks
<1>4. CASE PruneExports
  BY <1>4, RemoveKeeps DEF PruneExports
<1> QED
  BY <1>1, <1>2, <1>3, <1>4 DEF Others

-----------------------------------------------------------------------------
(* The requests *)

\* An answer, a handler on its way, and a request that is over.
LEMMA AnswerKeeps ==
  ASSUME CallsInv, NEW c \in Call, NEW ok \in BOOLEAN, NEW l \in Link \cup {NoLink},
         Answer(c, ok, l)
  PROVE  CallsInv'
<1>1. calls' = [calls EXCEPT ![c] = [@ EXCEPT !.at = "answered", !.ok = ok, !.link = l]]
  BY DEF Answer, CallsInv, CallRecord
<1>2. [calls[c] EXCEPT !.at = "answered", !.ok = ok, !.link = l] \in CallRecord
  BY DEF CallsInv, CallRecord
<1>3. calls' \in [Call -> CallRecord]
  BY <1>1, <1>2 DEF CallsInv
<1>4. calls'[c].at = "answered" /\ calls'[c].link = l
      /\ \A d \in Call \ {c} : calls'[d] = calls[d]
  BY <1>1 DEF CallsInv, CallRecord
<1> QED
  BY <1>3, <1>4 DEF CallsInv, Creating, Answered

\* A handler that has read the store goes on with what it read.
LEMMA ProceedKeeps ==
  ASSUME CallsInv, NEW c \in Call, NEW l \in Link \cup {NoLink} \cup NewLink,
         calls[c].kind = "create" => l \in NewLink, Proceed(c, l)
  PROVE  CallsInv'
<1>1. calls' = [calls EXCEPT ![c] = [@ EXCEPT !.at = "loaded", !.link = l]]
  BY DEF Proceed, CallsInv, CallRecord
<1>2. [calls[c] EXCEPT !.at = "loaded", !.link = l] \in CallRecord
  BY DEF CallsInv, CallRecord
<1>3. calls' \in [Call -> CallRecord]
  BY <1>1, <1>2 DEF CallsInv
<1>4. calls'[c].at = "loaded" /\ calls'[c].link = l /\ calls'[c].kind = calls[c].kind
      /\ \A d \in Call \ {c} : calls'[d] = calls[d]
  BY <1>1 DEF CallsInv, CallRecord
<1> QED
  BY <1>3, <1>4 DEF CallsInv, Creating, Answered

\* The request of an answer is over.
LEMMA EndKeeps ==
  ASSUME CallsInv, NEW c \in Call, calls' = [calls EXCEPT ![c] = Idle]
  PROVE  CallsInv'
<1>1. Idle \in CallRecord /\ Idle.at = "idle"
  BY DEF Idle, CallRecord
<1>2. calls' \in [Call -> CallRecord]
  BY <1>1 DEF CallsInv
<1>3. calls'[c].at = "idle" /\ \A d \in Call \ {c} : calls'[d] = calls[d]
  BY <1>1 DEF CallsInv
<1> QED
  BY <1>2, <1>3 DEF CallsInv, Creating, Answered

\* A click that sends one.
LEMMA SendKeeps ==
  ASSUME CallsInv, clicks \in 0..MaxClicks,
         NEW kind \in {"get", "create", "revoke", "delete", "token"},
         NEW j \in Job, NEW l \in {NoLink} \cup NewLink,
         kind = "create" => l \in NewLink, Send(kind, j, l)
  PROVE  CallsInv' /\ clicks' \in 0..MaxClicks
         /\ UNCHANGED <<store, gets, lastToken, granted, unopened>>
<1> DEFINE sent == [kind |-> kind, job |-> j, at |-> "sent", ok |-> TRUE, link |-> l]
<1>1. PICK c \in Call : calls' = [calls EXCEPT ![c] = sent]
  BY DEF Send
<1>2. sent \in CallRecord /\ sent.at = "sent" /\ sent.kind = kind /\ sent.link = l
  BY DEF CallRecord
<1> HIDE DEF sent
<1>3. calls' \in [Call -> CallRecord]
  BY <1>1, <1>2 DEF CallsInv
<1>4. calls'[c] = sent /\ \A d \in Call \ {c} : calls'[d] = calls[d]
  BY <1>1 DEF CallsInv
<1>5. CallsInv'
  BY <1>2, <1>3, <1>4 DEF CallsInv, Creating, Answered
<1>6. clicks' \in 0..MaxClicks /\ UNCHANGED <<store, gets, lastToken, granted, unopened>>
  BY JobsPageAssumption DEF Send
<1> QED
  BY <1>5, <1>6

\* GetShareByJob gives a link of the store, or none.
LEMMA LinkOfType == ASSUME StoreInv, NEW j PROVE LinkOf(j) \in Link \cup {NoLink}
<1>1. CASE LinksOf({j}) = {}
  BY <1>1 DEF LinkOf
<1>2. CASE LinksOf({j}) # {}
  <2>1. \E l \in links : l.job = j
    BY <1>2 DEF LinksOf
  <2> QED
    BY <1>2, <2>1 DEF LinkOf, StoreInv
<1> QED
  BY <1>1, <1>2

\* The handlers.
LEMMA ServeKeeps ==
  ASSUME StoreInv, CallsInv, NEW c \in Call, Serve(c) PROVE StoreInv' /\ CallsInv'
<1> USE StoreSame
<1>1. CASE ServeGetShare(c)
  BY <1>1, AnswerKeeps, LinkOfType DEF ServeGetShare
<1>2. CASE LoadForCreate(c)
  <2>1. calls[c].link \in NewLink
    BY <1>2 DEF LoadForCreate, Is, CallsInv, Creating
  <2> QED
    BY <1>2, <2>1, AnswerKeeps, ProceedKeeps DEF LoadForCreate
<1>3. CASE SaveShare(c)
  <2> DEFINE l == [calls[c].link EXCEPT !.token = lastToken']
  <2>1. calls[c].link \in NewLink
    BY <1>3 DEF SaveShare, Is, CallsInv, Creating
  <2>2. /\ lastToken < MaxLinks /\ lastToken' = lastToken + 1
        /\ links' = (links \ LinksOf({l.job})) \cup {l}
        /\ Answer(c, TRUE, l) \/ Answer(c, FALSE, NoLink)
        /\ UNCHANGED <<status, gets, granted, unopened>>
    BY <1>3 DEF SaveShare
  <2>3. lastToken' \in Token /\ 0 \in 0..MaxGets
    BY <2>2, LinkNumbers DEF StoreInv, Token
  <2>4. l \in Link /\ l.token = lastToken + 1 /\ l.count = 0
    BY <2>1, <2>2, <2>3 DEF NewLink, Link
  <2> HIDE DEF l
  <2> QED
    BY <2>2, <2>4, AnswerKeeps, NewLinkKeeps
<1>4. CASE LoadForRevoke(c)
  <2>1. calls[c].kind = "revoke" /\ LinkOf(calls[c].job) \in Link \cup {NoLink}
    BY <1>4, LinkOfType DEF LoadForRevoke, Is
  <2> QED
    BY <1>4, <2>1, AnswerKeeps, ProceedKeeps DEF LoadForRevoke
<1>5. CASE DeleteShare(c)
  <2>1. links' \subseteq links /\ UNCHANGED <<status, gets, lastToken, granted, unopened>>
        /\ Answer(c, TRUE, NoLink)
    BY <1>5 DEF DeleteShare
  <2> QED
    BY <2>1, AnswerKeeps, FewerLinks DEF StoreInv
<1>6. CASE ServeDelete(c)
  BY <1>6, AnswerKeeps, RemoveKeeps DEF ServeDelete
<1>7. CASE ServeToken(c)
  BY <1>7, AnswerKeeps DEF ServeToken
<1> QED
  BY <1>1, <1>2, <1>3, <1>4, <1>5, <1>6, <1>7 DEF Serve

-----------------------------------------------------------------------------
(* The page *)

\* The user's clicks.
LEMMA ClickKeeps == ASSUME IInv, Click PROVE IInv'
<1>1. StoreInv /\ CallsInv /\ PageInv
  BY InvParts
<1>2. clicks \in 0..MaxClicks
  BY <1>1 DEF PageInv
<1>3. ASSUME NEW j \in Job, HandleDelete(j) \/ HandleDownload(j) PROVE IInv'
  <2>1. CallsInv' /\ clicks' \in 0..MaxClicks
        /\ UNCHANGED <<store, gets, lastToken, granted, unopened>>
    BY <1>1, <1>2, <1>3, SendKeeps DEF HandleDelete, HandleDownload
  <2>2. UNCHANGED <<list, modal>>
    BY <1>3 DEF HandleDelete, HandleDownload
  <2>3. PageInv'
    BY <1>1, <2>1, <2>2 DEF PageInv, modal
  <2> QED
    BY <1>1, <2>1, <2>3, StoreSame, InvParts, PTL
<1>4. ASSUME NEW j \in Job, OpenShare(j) PROVE IInv'
  <2>1. CallsInv' /\ clicks' \in 0..MaxClicks
        /\ UNCHANGED <<store, gets, lastToken, granted, unopened>>
    BY <1>1, <1>2, <1>4, SendKeeps DEF OpenShare
  <2>2. PageInv'
    BY <1>1, <1>4, <2>1 DEF PageInv, OpenShare
  <2> QED
    BY <1>1, <2>1, <2>2, StoreSame, InvParts, PTL
<1>5. CASE CloseShare
  <2>1. calls' = calls /\ UNCHANGED <<store, gets, lastToken, granted, unopened>>
    BY <1>5 DEF CloseShare, server
  <2>2. CallsInv'
    BY <1>1, <2>1 DEF CallsInv, Creating, Answered
  <2>3. PageInv'
    BY <1>1, <1>5 DEF PageInv, CloseShare
  <2> QED
    BY <1>1, <2>1, <2>2, <2>3, StoreSame, InvParts, PTL
<1>6. CASE HandleCreateShare
  <2>1. shareJob \in Job
    BY <1>1, <1>6 DEF HandleCreateShare, Open, PageInv
  <2>2. PICK m \in Limits, e \in {"never", "later"} :
          Send("create", shareJob, [token |-> 0, job |-> shareJob, max |-> m,
                                    count |-> 0, expiry |-> e])
    BY <1>6 DEF HandleCreateShare
  <2>3. [token |-> 0, job |-> shareJob, max |-> m, count |-> 0, expiry |-> e]
          \in NewLink
    BY <2>1 DEF NewLink, Expiry
  <2>4. CallsInv' /\ clicks' \in 0..MaxClicks
        /\ UNCHANGED <<store, gets, lastToken, granted, unopened>>
    BY <1>1, <1>2, <2>1, <2>2, <2>3, SendKeeps
  <2>5. PageInv'
    BY <1>1, <1>6, <2>4 DEF PageInv, HandleCreateShare
  <2> QED
    BY <1>1, <2>4, <2>5, StoreSame, InvParts, PTL
<1>7. CASE HandleRevokeShare
  <2>1. shareJob \in Job
    BY <1>1, <1>7 DEF HandleRevokeShare, Open, PageInv
  <2>2. CallsInv' /\ clicks' \in 0..MaxClicks
        /\ UNCHANGED <<store, gets, lastToken, granted, unopened>>
    BY <1>1, <1>2, <1>7, <2>1, SendKeeps DEF HandleRevokeShare
  <2>3. PageInv'
    BY <1>1, <1>7, <2>2 DEF PageInv, HandleRevokeShare
  <2> QED
    BY <1>1, <2>2, <2>3, StoreSame, InvParts, PTL
<1> QED
  BY <1>3, <1>4, <1>5, <1>6, <1>7 DEF Click

\* Answers, at whatever page they arrive.
LEMMA ArriveKeeps == ASSUME IInv, NEW c \in Call, Arrive(c) PROVE IInv'
<1>1. StoreInv /\ CallsInv /\ PageInv
  BY InvParts
<1>2. UNCHANGED <<store, gets, lastToken, granted, unopened>>
  BY DEF Arrive, DeleteArrives, TokenArrives, FileArrives, ShareArrives
<1>3. PageInv'
  <2>1. CASE DeleteArrives(c)
    BY <1>1, <2>1 DEF DeleteArrives, PageInv, StoreInv, modal
  <2>2. CASE TokenArrives(c) \/ FileArrives(c)
    BY <1>1, <2>2 DEF TokenArrives, FileArrives, PageInv, page, modal
  <2>3. CASE ShareArrives(c)
    <3>1. calls[c].link \in Link \cup {NoLink}
      BY <1>1, <2>3 DEF ShareArrives, CallsInv, Answered
    <3> QED
      BY <1>1, <2>3, <3>1 DEF ShareArrives, PageInv
  <2> QED
    BY <2>1, <2>2, <2>3 DEF Arrive
<1>4. CallsInv'
  <2>1. CASE calls' = [calls EXCEPT ![c] = Idle]
    BY <1>1, <2>1, EndKeeps
  <2>2. CASE calls' = [calls EXCEPT ![c].kind = "file", ![c].at = "sent"]
    <3>1. calls' = [calls EXCEPT ![c] = [@ EXCEPT !.kind = "file", !.at = "sent"]]
      BY <1>1, <2>2 DEF CallsInv, CallRecord
    <3>2. [calls[c] EXCEPT !.kind = "file", !.at = "sent"] \in CallRecord
      BY <1>1 DEF CallsInv, CallRecord
    <3>3. calls' \in [Call -> CallRecord]
      BY <1>1, <3>1, <3>2 DEF CallsInv
    <3>4. calls'[c].at = "sent" /\ calls'[c].kind = "file"
          /\ \A d \in Call \ {c} : calls'[d] = calls[d]
      BY <1>1, <3>1 DEF CallsInv, CallRecord
    <3> QED
      BY <1>1, <3>3, <3>4 DEF CallsInv, Creating, Answered
  <2> QED
    BY <2>1, <2>2
       DEF Arrive, DeleteArrives, TokenArrives, FileArrives, ShareArrives
<1> QED
  BY <1>1, <1>2, <1>3, <1>4, StoreSame, InvParts, PTL

\* What leaves the page alone.
LEMMA ServerKeeps ==
  ASSUME IInv, \/ \E c \in Call : Serve(c) /\ UNCHANGED page
               \/ (Download \/ Others) /\ UNCHANGED page
  PROVE  IInv'
<1>1. StoreInv /\ CallsInv /\ PageInv
  BY InvParts
<1>2. PageInv'
  BY <1>1 DEF PageInv, page, modal
<1>3. ASSUME NEW c \in Call, Serve(c) PROVE StoreInv' /\ CallsInv'
  BY <1>1, <1>3, ServeKeeps
<1>4. ASSUME Download \/ Others PROVE StoreInv' /\ CallsInv'
  <2>1. calls' = calls
    BY <1>4 DEF Download, Serving, Consume, OpenFile, Sent, Others, ExpiryPasses,
         CleanupExpiredShares, JobEnds, PruneExports
  <2>2. CallsInv'
    BY <1>1, <2>1 DEF CallsInv, Creating, Answered
  <2>3. StoreInv'
    BY <1>1, <1>4, ConsumeKeeps, OpenFileKeeps, SentKeeps, OthersKeep
       DEF Download, Serving
  <2> QED
    BY <2>2, <2>3
<1>5. StoreInv' /\ CallsInv'
  BY <1>3, <1>4
<1> QED
  BY <1>2, <1>5, InvParts, PTL

-----------------------------------------------------------------------------
(* The theorems *)

\* The invariant holds at first.
LEMMA Initially == Init => IInv
<1> SUFFICES ASSUME Init PROVE IInv
  OBVIOUS
<1>1. gets = {} /\ unopened = {} /\ granted = [t \in Token |-> 0]
      /\ calls = [c \in Call |-> Idle]
      /\ status \in [Job -> Status] /\ lastToken = Cardinality(links)
  BY DEF Init, SharesInit, Status
<1>2. links = {} \/ \E l \in Link : l.token = 1 /\ l.count = 0 /\ links = {l}
  <2>1. ASSUME NEW j \in Job \ Unfinished, NEW m \in Limits,
               links = {[token |-> 1, job |-> j, max |-> m, count |-> 0,
                         expiry |-> "never"]}
        PROVE  \E l \in Link : l.token = 1 /\ l.count = 0 /\ links = {l}
    <3>1. 1 \in Token /\ 0 \in 0..MaxGets
      BY LinkNumbers, SharesAssumption DEF Token
    <3>2. [token |-> 1, job |-> j, max |-> m, count |-> 0,
           expiry |-> "never"] \in Link
      BY <3>1 DEF Link, Expiry
    <3> QED
      BY <2>1, <3>2
  <2> QED
    BY <2>1 DEF Init, SharesInit
<1>3. /\ links \subseteq Link /\ lastToken \in {0, 1}
      /\ \A l \in links : l.token = 1 /\ lastToken = 1 /\ l.count = 0
      /\ \A k, l \in links : k = l
  BY <1>1, <1>2, FS_EmptySet, FS_Singleton
<1>4. \A t \in Token : granted[t] + Cardinality(Opening(t)) = 0
  <2>1. \A t \in Token : Opening(t) = {}
    BY <1>1 DEF Opening
  <2> QED
    BY <1>1, <2>1, FS_EmptySet
<1>5. StoreInv
  <2>1. lastToken \in 0..MaxLinks
    BY <1>3, LinkNumbers, SharesAssumption
  <2>2. Counted
    BY <1>3, <1>4, LinkNumbers DEF Counted
  <2>3. LinksUnique /\ TokensGiven /\ Untouched /\ LastIsUsedUp
    BY <1>1, <1>3 DEF LinksUnique, TokensGiven, Untouched, LastIsUsedUp
  <2>4. IsFiniteSet(gets)
    BY <1>1, FS_EmptySet
  <2> QED
    BY <1>1, <1>3, <2>1, <2>2, <2>3, <2>4 DEF StoreInv
<1>6. CallsInv
  <2>1. Idle \in CallRecord /\ Idle.at = "idle"
    BY DEF Idle, CallRecord
  <2> QED
    BY <1>1, <2>1 DEF CallsInv, Creating, Answered
<1>7. PageInv
  <2>1. clicks \in 0..MaxClicks
    BY JobsPageAssumption DEF Init
  <2>2. list \in [Job -> Status]
    BY DEF Init, Empty, Status
  <2>3. {shareLoading, raced} \subseteq BOOLEAN
    BY DEF Init
  <2> QED
    BY <2>1, <2>2, <2>3 DEF Init, PageInv
<1> QED
  BY <1>5, <1>6, <1>7, InvParts

\* Every step of the page, the server and the network keeps it.
LEMMA Stepwise == IInv /\ [Next]_vars => IInv'
<1> SUFFICES ASSUME IInv, [Next]_vars PROVE IInv'
  OBVIOUS
<1>1. StoreInv /\ CallsInv /\ PageInv
  BY InvParts
<1>2. CASE LoadJobs
  <2>1. calls' = calls /\ UNCHANGED <<store, gets, lastToken, granted, unopened>>
    BY <1>2 DEF LoadJobs, server
  <2>2. CallsInv' /\ PageInv'
    BY <1>1, <1>2, <2>1
       DEF LoadJobs, CallsInv, Creating, Answered, PageInv, StoreInv, modal
  <2> QED
    BY <1>1, <2>1, <2>2, StoreSame, InvParts, PTL
<1>3. CASE UNCHANGED vars
  <2>1. UNCHANGED <<calls, page>> /\ UNCHANGED <<store, gets, lastToken, granted, unopened>>
    BY <1>3 DEF vars, server
  <2>2. CallsInv' /\ PageInv'
    BY <1>1, <2>1 DEF CallsInv, Creating, Answered, PageInv, page, modal
  <2> QED
    BY <1>1, <2>1, <2>2, StoreSame, InvParts, PTL
<1> QED
  BY <1>2, <1>3, ClickKeeps, ArriveKeeps, ServerKeeps DEF Next

\* The strengthened invariant, for any jobs, limits, requests and downloads.
THEOREM Invariance == Spec => []IInv
  BY Initially, Stepwise, PTL DEF Spec

\* Types of the server's and the page's variables.
THEOREM TypeCorrect == Spec => []TypeOK
<1>1. IInv => TypeOK
  BY DEF IInv
<1> QED
  BY <1>1, Invariance, PTL

\* One link per job, and none served beyond its limit, however downloads, new
\* links, revocations and purges interleave.
THEOREM LinksBounded == Spec => []LinkBounds
<1>1. IInv => LinkBounds
  <2> SUFFICES ASSUME IInv PROVE LinkBounds
    OBVIOUS
  <2>1. \A k, l \in links : k.job = l.job => k = l
    BY DEF IInv, LinksUnique
  <2>2. ASSUME NEW l \in links, l.max > 0 PROVE granted[l.token] <= l.max
    <3>1. StoreInv
      BY InvParts
    <3>2. l \in Link /\ l.token \in Token /\ l.count \in Nat /\ l.max \in Nat
      BY <3>1, LinkNumbers DEF StoreInv
    <3>3. Opening(l.token) \subseteq gets /\ IsFiniteSet(gets)
      BY <3>1 DEF Opening, StoreInv
    <3>4. Cardinality(Opening(l.token)) \in Nat /\ granted[l.token] \in Nat
      BY <3>1, <3>2, <3>3, FS_Subset, FS_CardinalityType DEF StoreInv
    <3>5. granted[l.token] + Cardinality(Opening(l.token)) <= l.count
          /\ l.count <= l.max
      BY <2>2, <3>1 DEF StoreInv, Counted
    <3> QED
      BY <3>2, <3>4, <3>5
  <2> QED
    BY <2>1, <2>2 DEF LinkBounds
<1> QED
  BY <1>1, Invariance, PTL

\* A job that is done goes with its own link, when that is used up or expired,
\* or by a deletion or the retention: never with an older link's download.
THEOREM JobsGoWithTheirLink == Spec => LiveLinkKeepsJob
<1> DEFINE Allowed(j) ==
      \/ \E l \in LinksOf({j}) : Expired(l) \/ Exhausted(l)
      \/ PruneExports \/ \E c \in Call : ServeDelete(c)
<1>1. ASSUME IInv, [Next]_vars, NEW j \in Job, status[j] = "done", status'[j] = "gone"
      PROVE  Allowed(j)
  <2>1. ASSUME NEW L \in SUBSET links, Purge(L)
        PROVE  \E l \in L : l.job = j
    BY <1>1, <2>1 DEF Purge
  <2>2. ASSUME NEW l \in links, Consume(l) PROVE Allowed(j)
    <3>1. Expired(l) \/ Exhausted(l) \/ status[l.job] # "done"
      BY <1>1, <2>2 DEF Consume
    <3>2. Purge({l})
      BY <2>2, <3>1 DEF Consume
    <3>3. l.job = j
      BY <2>1, <3>2
    <3> QED
      BY <1>1, <3>1, <3>3 DEF LinksOf
  <2>3. ASSUME NEW g \in gets, Sent(g) PROVE Allowed(j)
    <3>1. g.last /\ Purge({l \in links : l.token = g.token})
      BY <1>1, <2>3 DEF Sent, store
    <3>2. PICK l \in links : l.token = g.token /\ l.job = j
      BY <2>1, <3>1
    <3>3. Exhausted(l)
      BY <1>1, <3>1, <3>2 DEF IInv, LastIsUsedUp
    <3> QED
      BY <3>2, <3>3 DEF LinksOf
  <2>4. CASE CleanupExpiredShares
    <3>1. PICK l \in {k \in links : Expired(k)} : l.job = j
      BY <2>1, <2>4 DEF CleanupExpiredShares
    <3> QED
      BY <3>1 DEF LinksOf
  <2>5. CASE PruneExports
    BY <2>5
  <2>6. ASSUME NEW c \in Call, Serve(c) PROVE Allowed(j)
    <3>1. ServeDelete(c) \/ status' = status
      BY <2>6 DEF Serve, ServeGetShare, LoadForCreate, SaveShare, LoadForRevoke,
           DeleteShare, ServeToken, store
    <3> QED
      BY <1>1, <3>1
  <2>7. CASE JobEnds
    BY <1>1, <2>7 DEF JobEnds, IInv, TypeOK, SharesTypeOK
  <2>8. CASE status' = status
    BY <1>1, <2>8
  <2>9. ASSUME NEW g \in gets, OpenFile(g) PROVE status' = status
    BY <2>9 DEF OpenFile, store
  <2>10. ExpiryPasses \/ Click \/ LoadJobs \/ UNCHANGED vars => status' = status
    BY DEF ExpiryPasses, Click, HandleDelete, HandleDownload, OpenShare, CloseShare,
         HandleCreateShare, HandleRevokeShare, Send, LoadJobs, vars, server, store
  <2>11. (\E c \in Call : Arrive(c)) => status' = status
    BY DEF Arrive, DeleteArrives, TokenArrives, FileArrives, ShareArrives, store
  <2> QED
    BY <1>1, <2>2, <2>3, <2>4, <2>5, <2>6, <2>7, <2>8, <2>9, <2>10, <2>11
       DEF Next, Download, Serving, Others
<1>2. IInv /\ [Next]_vars =>
        [\A j \in Job : status[j] = "done" /\ status'[j] = "gone" => Allowed(j)]_server
  BY <1>1
<1> QED
  BY <1>2, Invariance, PTL DEF Spec, LiveLinkKeepsJob
-----------------------------------------------------------------------------
(* The modal *)

\* A request brings links of the job it is about, or none.
LinksAreOwn ==
    \A c \in Call : calls[c].link = NoLink \/ calls[c].link.job = calls[c].job

\* Unless a modal was closed over a request, the requests in flight and the link
\* shown are the open job's; nothing is left of a modal that is closed.
ModalOfOneJob ==
    ~raced =>
      IF Open THEN /\ \A c \in ShareCalls : calls[c].job = shareJob
                   /\ shareExisting = NoLink \/ shareExisting.job = shareJob
              ELSE ShareCalls = {} /\ shareExisting = NoLink

ModalInv == IInv /\ LinksAreOwn /\ ModalOfOneJob

\* A step of one request: it keeps its job, unless it is none of the modal's.
LEMMA RequestMoves ==
  ASSUME ModalInv, NEW c \in Call, NEW r, calls' = [calls EXCEPT ![c] = r],
         r.link = NoLink \/ r.link.job = r.job,
         r.kind \in {"get", "create", "revoke"} =>
           calls[c].kind = r.kind /\ calls[c].job = r.job,
         UNCHANGED modal
  PROVE  LinksAreOwn' /\ ModalOfOneJob'
<1>1. calls'[c] = r /\ \A d \in Call \ {c} : calls'[d] = calls[d]
  BY InvParts DEF ModalInv, CallsInv
<1>2. LinksAreOwn'
  BY <1>1 DEF ModalInv, LinksAreOwn
<1>3. \A d \in ShareCalls' : d \in ShareCalls /\ calls'[d].job = calls[d].job
  BY <1>1 DEF ShareCalls
<1>4. UNCHANGED <<shareJob, shareExisting, raced>>
  BY DEF modal
<1> QED
  BY <1>2, <1>3, <1>4 DEF ModalInv, ModalOfOneJob, Open

\* An answer, and a handler that goes on, with a link of the job or none.
LEMMA AnswerMoves ==
  ASSUME ModalInv, NEW c \in Call, NEW ok, NEW l, Answer(c, ok, l) \/ Proceed(c, l),
         l = NoLink \/ l.job = calls[c].job, UNCHANGED modal
  PROVE  LinksAreOwn' /\ ModalOfOneJob'
<1>1. calls \in [Call -> CallRecord]
  BY InvParts DEF ModalInv, CallsInv
<1>2. CASE Answer(c, ok, l)
  <2> DEFINE r == [calls[c] EXCEPT !.at = "answered", !.ok = ok, !.link = l]
  <2>1. calls' = [calls EXCEPT ![c] = r]
    BY <1>1, <1>2 DEF Answer, CallRecord
  <2>2. r.kind = calls[c].kind /\ r.job = calls[c].job /\ r.link = l
    BY <1>1 DEF CallRecord
  <2> HIDE DEF r
  <2> QED
    BY <2>1, <2>2, RequestMoves
<1>3. CASE Proceed(c, l)
  <2> DEFINE r == [calls[c] EXCEPT !.at = "loaded", !.link = l]
  <2>1. calls' = [calls EXCEPT ![c] = r]
    BY <1>1, <1>3 DEF Proceed, CallRecord
  <2>2. r.kind = calls[c].kind /\ r.job = calls[c].job /\ r.link = l
    BY <1>1 DEF CallRecord
  <2> HIDE DEF r
  <2> QED
    BY <2>1, <2>2, RequestMoves
<1> QED
  BY <1>2, <1>3

\* GetShareByJob gives the job's own link.
LEMMA LinkOfOwn == \A j : LinkOf(j) = NoLink \/ LinkOf(j).job = j
<1> SUFFICES ASSUME NEW j, LinksOf({j}) # {} PROVE LinkOf(j).job = j
  BY DEF LinkOf
<1>1. \E l \in links : l.job = j
  BY DEF LinksOf
<1> QED
  BY <1>1 DEF LinkOf

\* The handlers answer about the job they were asked for.
LEMMA ServeShows ==
  ASSUME ModalInv, NEW c \in Call, Serve(c), UNCHANGED modal
  PROVE  LinksAreOwn' /\ ModalOfOneJob'
<1>1. calls[c].link = NoLink \/ calls[c].link.job = calls[c].job
  BY DEF ModalInv, LinksAreOwn
<1>2. CASE ServeGetShare(c)
  BY <1>2, AnswerMoves, LinkOfOwn DEF ServeGetShare
<1>3. CASE LoadForCreate(c)
  BY <1>1, <1>3, AnswerMoves DEF LoadForCreate
<1>4. CASE SaveShare(c)
  <2> DEFINE l == [calls[c].link EXCEPT !.token = lastToken']
  <2>1. Answer(c, TRUE, l) \/ Answer(c, FALSE, NoLink)
    BY <1>4 DEF SaveShare
  <2>2. calls[c].link \in NewLink
    BY <1>4, InvParts DEF ModalInv, SaveShare, Is, CallsInv, Creating
  <2>3. l.job = calls[c].link.job /\ calls[c].link # NoLink
    <3>1. calls[c].link.job \in Job
      BY <2>2 DEF NewLink
    <3> QED
      BY <2>2, <3>1, SharesAssumption DEF NewLink, NoLink
  <2> HIDE DEF l
  <2> QED
    BY <1>1, <2>1, <2>3, AnswerMoves
<1>5. CASE LoadForRevoke(c)
  BY <1>5, AnswerMoves, LinkOfOwn DEF LoadForRevoke
<1>6. CASE DeleteShare(c) \/ ServeDelete(c) \/ ServeToken(c)
  BY <1>6, AnswerMoves DEF DeleteShare, ServeDelete, ServeToken
<1> QED
  BY <1>2, <1>3, <1>4, <1>5, <1>6 DEF Serve

\* The clicks send requests of the open modal, or open and close it.
LEMMA ClickShows ==
  ASSUME ModalInv, Click PROVE LinksAreOwn' /\ ModalOfOneJob'
<1>1. \A c \in Call : calls[c].kind \in {"get", "create", "revoke"} => c \in ShareCalls
  BY DEF ShareCalls
<1>2. ASSUME NEW kind, NEW j, NEW l, Send(kind, j, l), l = NoLink \/ l.job = j
      PROVE  /\ LinksAreOwn'
             /\ \A c \in ShareCalls' : \/ c \in ShareCalls /\ calls'[c] = calls[c]
                                       \/ /\ kind \in {"get", "create", "revoke"}
                                          /\ calls'[c].job = j
  <2> DEFINE sent == [kind |-> kind, job |-> j, at |-> "sent", ok |-> TRUE, link |-> l]
  <2>1. PICK c \in Call : calls' = [calls EXCEPT ![c] = sent]
    BY <1>2 DEF Send
  <2>2. sent.kind = kind /\ sent.job = j /\ sent.link = l
    OBVIOUS
  <2> HIDE DEF sent
  <2>3. calls'[c] = sent /\ \A d \in Call \ {c} : calls'[d] = calls[d]
    BY <2>1, InvParts DEF ModalInv, CallsInv
  <2> QED
    BY <1>2, <2>2, <2>3 DEF ModalInv, LinksAreOwn, ShareCalls
<1>3. ASSUME NEW j \in Job, HandleDelete(j) \/ HandleDownload(j)
      PROVE  LinksAreOwn' /\ ModalOfOneJob'
  <2>1. Send("delete", j, NoLink) \/ Send("token", j, NoLink)
    BY <1>3 DEF HandleDelete, HandleDownload
  <2>2. LinksAreOwn' /\ \A c \in ShareCalls' : c \in ShareCalls /\ calls'[c] = calls[c]
    BY <1>2, <2>1
  <2>3. UNCHANGED <<shareJob, shareExisting, raced>>
    BY <1>3 DEF HandleDelete, HandleDownload, modal
  <2> QED
    BY <2>2, <2>3 DEF ModalInv, ModalOfOneJob, Open
<1>4. ASSUME NEW j \in Job, OpenShare(j) PROVE LinksAreOwn' /\ ModalOfOneJob'
  <2>1. Send("get", j, NoLink) /\ ~Open /\ shareJob' = j
        /\ shareExisting' = shareExisting
        /\ raced' = (raced /\ (ShareCalls # {} \/ shareExisting # NoLink))
    BY <1>4 DEF OpenShare
  <2>2. LinksAreOwn'
        /\ \A c \in ShareCalls' : c \in ShareCalls \/ calls'[c].job = j
    BY <1>2, <2>1
  <2>3. ~raced' => ShareCalls = {} /\ shareExisting = NoLink
    BY <2>1 DEF ModalInv, ModalOfOneJob
  <2>4. Open'
    BY <2>1, SharesAssumption DEF Open
  <2> QED
    BY <2>1, <2>2, <2>3, <2>4 DEF ModalOfOneJob
<1>5. CASE CloseShare
  <2>1. UNCHANGED calls /\ ~Open'
    BY <1>5 DEF CloseShare, server, Open
  <2>2. LinksAreOwn' /\ ShareCalls' = ShareCalls
    BY <2>1 DEF ModalInv, LinksAreOwn, ShareCalls
  <2> QED
    BY <1>5, <2>1, <2>2 DEF CloseShare, ModalOfOneJob
<1>6. CASE HandleCreateShare \/ HandleRevokeShare
  <2>1. Open /\ UNCHANGED <<shareJob, shareExisting, raced>>
    BY <1>6 DEF HandleCreateShare, HandleRevokeShare
  <2>2. \E kind, l : Send(kind, shareJob, l) /\ (l = NoLink \/ l.job = shareJob)
    <3>1. ASSUME NEW m, NEW e,
                 Send("create", shareJob, [token |-> 0, job |-> shareJob, max |-> m,
                                           count |-> 0, expiry |-> e])
          PROVE  \E kind, l : Send(kind, shareJob, l) /\ (l = NoLink \/ l.job = shareJob)
      <4> DEFINE l == [token |-> 0, job |-> shareJob, max |-> m, count |-> 0,
                       expiry |-> e]
      <4>1. Send("create", shareJob, l) /\ l.job = shareJob
        BY <3>1
      <4> HIDE DEF l
      <4> QED
        BY <4>1
    <3> QED
      BY <1>6, <3>1 DEF HandleCreateShare, HandleRevokeShare
  <2>3. LinksAreOwn' /\ \A c \in ShareCalls' : \/ c \in ShareCalls /\ calls'[c] = calls[c]
                                               \/ calls'[c].job = shareJob
    BY <1>2, <2>2
  <2> QED
    BY <2>1, <2>3 DEF ModalInv, ModalOfOneJob, Open
<1> QED
  BY <1>3, <1>4, <1>5, <1>6 DEF Click

\* An answer of the modal's is shown in it.
LEMMA ArriveShows ==
  ASSUME ModalInv, NEW c \in Call, Arrive(c) PROVE LinksAreOwn' /\ ModalOfOneJob'
<1>1. calls \in [Call -> CallRecord]
  BY InvParts DEF ModalInv, CallsInv
<1>2. CASE TokenArrives(c) /\ calls[c].ok
  <2> DEFINE r == [calls[c] EXCEPT !.kind = "file", !.at = "sent"]
  <2>1. calls' = [calls EXCEPT ![c] = r]
    BY <1>1, <1>2 DEF TokenArrives, CallRecord
  <2>2. r.kind = "file" /\ r.job = calls[c].job /\ r.link = calls[c].link
    BY <1>1 DEF CallRecord
  <2>3. UNCHANGED modal
    BY <1>2 DEF TokenArrives
  <2> HIDE DEF r
  <2> QED
    BY <2>1, <2>2, <2>3, RequestMoves DEF ModalInv, LinksAreOwn
<1>3. CASE calls' = [calls EXCEPT ![c] = Idle] /\ UNCHANGED modal
  BY <1>3, RequestMoves DEF Idle
<1>4. CASE ShareArrives(c)
  <2>1. c \in ShareCalls /\ calls' = [calls EXCEPT ![c] = Idle]
        /\ UNCHANGED <<shareJob, raced>>
        /\ shareExisting' \in {shareExisting, calls[c].link}
    BY <1>4 DEF ShareArrives
  <2>2. calls'[c] = Idle /\ \A d \in Call \ {c} : calls'[d] = calls[d]
    BY <1>1, <2>1
  <2>3. LinksAreOwn' /\ ShareCalls' \subseteq ShareCalls
        /\ \A d \in ShareCalls' : calls'[d] = calls[d]
    BY <2>2 DEF ModalInv, LinksAreOwn, ShareCalls, Idle
  <2>4. calls[c].link = NoLink \/ calls[c].link.job = calls[c].job
    BY DEF ModalInv, LinksAreOwn
  <2> QED
    BY <2>1, <2>3, <2>4 DEF ModalInv, ModalOfOneJob, Open
<1> QED
  BY <1>2, <1>3, <1>4
     DEF Arrive, DeleteArrives, TokenArrives, FileArrives, page

\* The rest of the steps touch neither the modal nor its requests.
LEMMA OthersShow ==
  ASSUME ModalInv, \/ LoadJobs
                   \/ (Download \/ Others) /\ UNCHANGED page
                   \/ UNCHANGED vars
  PROVE  LinksAreOwn' /\ ModalOfOneJob'
<1>1. UNCHANGED <<calls, modal>>
  BY DEF LoadJobs, Download, Consume, Serving, OpenFile, Sent, Others, ExpiryPasses,
         CleanupExpiredShares, JobEnds, PruneExports, vars, server, page
<1>2. UNCHANGED <<shareJob, shareExisting, raced>>
  BY <1>1 DEF modal
<1> QED
  BY <1>1, <1>2 DEF ModalInv, LinksAreOwn, ModalOfOneJob, Open, ShareCalls

\* The modal shows the link of its own job, and revokes no other, unless one was
\* closed while it waited: answers are told apart by nothing else.
THEOREM ModalIsOfItsJob == Spec => []ModalShowsItsJob
<1>1. Init => ModalInv
  <2> SUFFICES ASSUME Init PROVE ModalInv
    OBVIOUS
  <2>1. LinksAreOwn
    BY DEF Init, SharesInit, LinksAreOwn, Idle
  <2>2. ModalOfOneJob
    BY DEF Init, SharesInit, ModalOfOneJob, Open, ShareCalls, Idle
  <2> QED
    BY <2>1, <2>2, Initially DEF ModalInv
<1>2. ModalInv /\ [Next]_vars => ModalInv'
  <2> SUFFICES ASSUME ModalInv, [Next]_vars PROVE ModalInv'
    OBVIOUS
  <2>1. IInv'
    BY Stepwise DEF ModalInv
  <2>2. ASSUME NEW c \in Call, Serve(c), UNCHANGED page
        PROVE  LinksAreOwn' /\ ModalOfOneJob'
    BY <2>2, ServeShows DEF page
  <2>3. LinksAreOwn' /\ ModalOfOneJob'
    BY <2>2, ClickShows, ArriveShows, OthersShow DEF Next
  <2> QED
    BY <2>1, <2>3 DEF ModalInv
<1>3. ModalInv => ModalShowsItsJob
  BY DEF ModalInv, ModalOfOneJob, ModalShowsItsJob
<1> QED
  BY <1>1, <1>2, <1>3, PTL DEF Spec
=============================================================================
