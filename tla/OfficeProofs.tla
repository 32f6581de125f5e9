------------------------------ MODULE OfficeProofs ------------------------------
(***************************************************************************)
(* What the parts of MCOffice guarantee for any size of their constants:   *)
(* the outreach routes, the seeker's profile, the gates around a fetch and *)
(* the review of a draft.                                                  *)
(***************************************************************************)
EXTENDS MCOffice, ActionQueueProofs, SequenceTheorems, FiniteSetTheorems

-----------------------------------------------------------------------------
(* What the outreach routes guarantee for any number of seekers, events,   *)
(* proposals and operator decisions.                                       *)
(*                                                                         *)
(* RefusedOnlyByNews is inductive once two facts stand beside it: the      *)
(* table is well-typed (a row never changes its target or its queue), and  *)
(* what an offer remembers lies in the past.  A step of the table then     *)
(* revives nothing, or brings a row back and counts it, or issues an id no *)
(* offer has seen; a step of a cycle keeps offers or adds one just looked  *)
(* at.                                                                     *)

Offer == [to : Seekers, seen : Nat, reopens : Nat]

Fields == {"route", "event", "todo", "offers"}

Shaped(held) == /\ DOMAIN held = Fields
                /\ held.route \in {"none", "event", "react"}
                /\ held.event \in 0 .. Len(Upcoming)
                /\ held.route = "event" => held.todo \subseteq DOMAIN Ranking
                /\ held.route = "react" => held.todo \subseteq DOMAIN Unreacted

OffersOfPast == /\ cycle.offers \in Seq(Offer)
                /\ \A n \in DOMAIN cycle.offers : /\ cycle.offers[n].seen <= lastId
                                                  /\ cycle.offers[n].reopens <= reopens

CycleOK == Shaped(cycle) /\ OffersOfPast

OutreachInv == QueueTypeOK /\ reopens \in Nat /\ CycleOK /\ RefusedOnlyByNews

\* What a step may do to the table.
Quiet == NoneLivelier(queue') /\ UNCHANGED <<lastId, reopens>>
Reopen == Updates(queue') /\ lastId' = lastId /\ reopens' = reopens + 1
Insert == /\ \E row \in Row : queue' = Inserted(queue, row)
          /\ lastId' = lastId + 1 /\ reopens' = reopens

\* What a step may do to the offers in hand.
Keeps == \/ cycle' = cycle
         \/ cycle' = Resting
         \/ /\ Shaped(cycle')
            /\ \/ cycle'.offers \in {cycle.offers, <<>>}
               \/ cycle.offers # <<>> /\ cycle'.offers = Tail(cycle.offers)

-----------------------------------------------------------------------------

\* What an offer in hand is.
LEMMA PastOffers ==
    ASSUME cycle.offers \in Seq(Offer), NEW n \in DOMAIN cycle.offers
    PROVE  /\ cycle.offers[n] \in Offer
           /\ cycle.offers[n].seen \in Nat /\ cycle.offers[n].reopens \in Nat
  <1>1. cycle.offers[n] \in Offer
    OBVIOUS
  <1> QED
    BY <1>1 DEF Offer

\* Leaving the table as it is revives nothing.
LEMMA StillQuiet ==
    ASSUME QueueTypeOK, queue' = queue, UNCHANGED <<lastId, reopens>>
    PROVE  Quiet
  BY DEF QueueTypeOK, Quiet, NoneLivelier, Updates

\* A cycle at rest holds nothing.
LEMMA RestingShaped == Shaped(Resting) /\ Resting.offers = <<>>
  <1>1. Len(Upcoming) \in Nat
    BY OutreachAssumption
  <1>2. 0 \in 0 .. Len(Upcoming)
    BY <1>1
  <1> QED
    BY <1>2 DEF Resting, Shaped, Fields

\* Offers that are kept are still of the past, whatever the table did.
LEMMA KeptOffers ==
    ASSUME OutreachInv, Keeps, lastId' \in {lastId, lastId + 1},
           reopens' \in {reopens, reopens + 1}
    PROVE  /\ reopens' \in Nat
           /\ CycleOK'
           /\ \A n \in DOMAIN cycle'.offers :
                  \E m \in DOMAIN cycle.offers : cycle'.offers[n] = cycle.offers[m]
  <1>1. lastId \in Nat /\ reopens \in Nat
    BY MaxIdAssumption DEF OutreachInv, QueueTypeOK
  <1>2. cycle.offers \in Seq(Offer)
    BY DEF OutreachInv, CycleOK, OffersOfPast
  <1>3. cycle'.offers \in {cycle.offers, <<>>} \/
            (cycle.offers # <<>> /\ cycle'.offers = Tail(cycle.offers))
    BY RestingShaped DEF Keeps
  <1>4. cycle'.offers \in Seq(Offer) /\
        \A n \in DOMAIN cycle'.offers :
            \E m \in DOMAIN cycle.offers : cycle'.offers[n] = cycle.offers[m]
    <2>1. CASE cycle'.offers = cycle.offers
      BY <1>2, <2>1
    <2>2. CASE cycle'.offers = <<>>
      BY <2>2
    <2>3. CASE cycle.offers # <<>> /\ cycle'.offers = Tail(cycle.offers)
      <3>1. /\ cycle'.offers \in Seq(Offer)
            /\ Len(cycle'.offers) = Len(cycle.offers) - 1
            /\ \A n \in 1 .. Len(cycle'.offers) : cycle'.offers[n] = cycle.offers[n + 1]
        BY <1>2, <2>3
      <3>2. /\ DOMAIN cycle.offers = 1 .. Len(cycle.offers) /\ Len(cycle.offers) \in Nat
            /\ DOMAIN cycle'.offers = 1 .. Len(cycle'.offers)
        BY <1>2, <3>1
      <3>3. \A n \in 1 .. Len(cycle'.offers) : n + 1 \in 1 .. Len(cycle.offers)
        BY <3>1, <3>2
      <3> QED
        BY <3>1, <3>2, <3>3
    <2> QED
      BY <1>3, <2>1, <2>2, <2>3
  <1>5. \A m \in DOMAIN cycle.offers :
            cycle.offers[m].seen <= lastId' /\ cycle.offers[m].reopens <= reopens'
    <2>1. \A m \in DOMAIN cycle.offers :
              cycle.offers[m].seen \in Nat /\ cycle.offers[m].reopens \in Nat
      BY <1>2, PastOffers
    <2> QED
      BY <1>1, <2>1 DEF OutreachInv, CycleOK, OffersOfPast
  <1>6. OffersOfPast'
    BY <1>4, <1>5 DEF OffersOfPast
  <1>7. Shaped(cycle')
    BY RestingShaped DEF Keeps, OutreachInv, CycleOK
  <1> QED
    BY <1>1, <1>4, <1>6, <1>7 DEF CycleOK

\* A table step leaves kept offers refusable by news only: it revives nothing,
\* counts what it brings back, or uses an id nobody has seen.
LEMMA NewsOnly ==
    ASSUME OutreachInv, Keeps, Quiet \/ Reopen \/ Insert
    PROVE  reopens' \in Nat /\ CycleOK' /\ RefusedOnlyByNews'
  <1>1. lastId \in Nat /\ reopens \in Nat /\ QueueTypeOK
    <2>1. QueueTypeOK /\ reopens \in Nat
      BY DEF OutreachInv
    <2>2. lastId \in Nat
      BY <2>1, MaxIdAssumption DEF QueueTypeOK
    <2> QED
      BY <2>1, <2>2
  <1>2. lastId' \in {lastId, lastId + 1} /\ reopens' \in {reopens, reopens + 1}
    BY DEF Quiet, Reopen, Insert
  <1>3. /\ reopens' \in Nat /\ CycleOK'
        /\ \A n \in DOMAIN cycle'.offers :
               \E m \in DOMAIN cycle.offers : cycle'.offers[n] = cycle.offers[m]
    BY <1>2, KeptOffers
  <1>4. ASSUME NEW n \in DOMAIN cycle'.offers, NEW id \in Rows',
               queue'[id].target_id = cycle'.offers[n].to,
               queue'[id].queue_type = "proactive_message", Live(queue'[id])
        PROVE  id > cycle'.offers[n].seen \/ reopens' > cycle'.offers[n].reopens
    <2>1. PICK m \in DOMAIN cycle.offers : cycle'.offers[n] = cycle.offers[m]
      BY <1>3
    <2>2. /\ cycle.offers[m].seen \in Nat /\ cycle.offers[m].seen <= lastId
          /\ cycle.offers[m].reopens \in Nat /\ cycle.offers[m].reopens <= reopens
      BY PastOffers DEF OutreachInv, CycleOK, OffersOfPast
    <2>3. ASSUME id \in Rows, queue'[id].target_id = queue[id].target_id,
                 queue'[id].queue_type = queue[id].queue_type, Live(queue[id])
          PROVE  id > cycle.offers[m].seen \/ reopens > cycle.offers[m].reopens
      BY <1>4, <2>1, <2>3 DEF OutreachInv, RefusedOnlyByNews
    <2>4. CASE Quiet
      <3>1. id \in Rows /\ reopens' = reopens
        BY <2>4 DEF Quiet, Rows
      <3> QED
        BY <1>4, <2>1, <2>3, <2>4, <3>1 DEF Quiet, NoneLivelier, Updates
    <2>5. CASE Reopen
      BY <1>1, <2>1, <2>2, <2>5 DEF Reopen
    <2>6. CASE Insert
      <3>1. PICK row \in Row : queue' = Inserted(queue, row)
        BY <2>6 DEF Insert
      <3>2. id \in Rows \/ id = lastId + 1
        BY <1>1, <2>6 DEF Insert, Rows
      <3>3. \A other \in Rows : queue'[other] = queue[other]
        BY <1>1, <3>1, InsertedRow DEF QueueTypeOK
      <3> QED
        BY <1>1, <1>4, <2>1, <2>2, <2>3, <2>6, <3>2, <3>3 DEF Insert
    <2> QED
      BY <2>4, <2>5, <2>6
  <1> QED
    BY <1>3, <1>4 DEF RefusedOnlyByNews

\* An insert of the next proposal, or its refusal: of the table, a step that is
\* typed; of the cycle, the rest or nothing.
LEMMA EnqueueStep ==
    ASSUME QueueTypeOK, NEW row \in Row, NEW rest, Enqueues(row, rest)
    PROVE  QueueTypeOK' /\ (Quiet \/ Insert) /\ cycle' \in {rest, Resting}
  <1>1. CASE EnqueueAction(row) /\ cycle' = rest
    <2>1. Insert
      BY <1>1 DEF EnqueueAction, Insert, Enqueues, OtherUnchanged
    <2>2. QueueTypeOK'
      BY <1>1, InsertTypes DEF EnqueueAction, QueueTypeOK
    <2> QED
      BY <1>1, <2>1, <2>2
  <1>2. CASE CycleEnds
    <2>1. UNCHANGED queueVars /\ reopens' = reopens
      BY <1>2 DEF CycleEnds, Enqueues, OtherUnchanged
    <2> QED
      BY <1>2, <2>1, StillQuiet DEF CycleEnds, queueVars, QueueTypeOK, Txs, Rows
  <1> QED
    BY <1>1, <1>2 DEF Enqueues

\* Whom a search finds is in the ranking.
LEMMA FoundRanked ==
    ASSUME NEW city
    PROVE  Found(city) \subseteq DOMAIN Ranking
  BY DEF Found, Limited

\* The steps that leave the table alone, the look at a seeker aside.
LEMMA SearchInv ==
    ASSUME OutreachInv,
           \/ EventStart \/ EventSearch \/ SearchFails \/ EventDone \/ CycleFails
           \/ ReactStart \/ ReactDone \/ \E s \in Seekers : SeekerChanges(s)
    PROVE  OutreachInv'
  <1>1. UNCHANGED <<queueVars, reopens>>
    BY DEF EventStart, EventSearch, SearchFails, EventDone, CycleFails, ReactStart, ReactDone,
           SeekerChanges, CycleEnds, OtherUnchanged
  <1>2. QueueTypeOK /\ Shaped(cycle) /\ Len(Upcoming) \in Nat
    BY OutreachAssumption DEF OutreachInv, CycleOK
  <1>3. Keeps
    <2>1. EventStart => Keeps
      BY <1>2 DEF EventStart, Resting, Keeps, Shaped, Fields
    <2>2. EventSearch \/ SearchFails => Keeps
      <3> SUFFICES ASSUME EventSearch \/ SearchFails PROVE Keeps
        OBVIOUS
      <3>1. cycle.event + 1 \in 0 .. Len(Upcoming)
        BY <1>2 DEF EventSearch, SearchFails, Searching, Shaped
      <3>2. /\ DOMAIN cycle' = DOMAIN cycle /\ cycle'.route = cycle.route
            /\ cycle'.event = cycle.event + 1 /\ cycle'.offers = cycle.offers
        BY <1>2 DEF EventSearch, SearchFails, Shaped, Fields
      <3>3. cycle'.todo \subseteq DOMAIN Ranking
        <4>1. CASE EventSearch
          BY <1>2, <4>1, FoundRanked DEF EventSearch, Shaped, Fields
        <4>2. CASE SearchFails
          BY <1>2, <4>2 DEF SearchFails, Searching, Shaped, Fields
        <4> QED
          BY <4>1, <4>2
      <3>4. cycle.route = "event"
        BY DEF EventSearch, SearchFails, Searching, Running
      <3> QED
        BY <1>2, <3>1, <3>2, <3>3, <3>4 DEF Keeps, Shaped
    <2>3. EventDone \/ CycleFails \/ ReactDone => Keeps
      BY DEF EventDone, CycleFails, ReactDone, CycleEnds, Keeps
    <2>4. ReactStart => Keeps
      BY <1>2 DEF ReactStart, Resting, Keeps, Shaped, Fields
    <2>5. (\E s \in Seekers : SeekerChanges(s)) => Keeps
      BY DEF SeekerChanges, Keeps
    <2> QED
      BY <2>1, <2>2, <2>3, <2>4, <2>5
  <1>4. Quiet
    BY <1>1, <1>2, StillQuiet DEF queueVars
  <1>5. QueueTypeOK'
    BY <1>1, <1>2 DEF queueVars, QueueTypeOK, Txs, Rows
  <1> QED
    BY <1>3, <1>4, <1>5, NewsOnly DEF OutreachInv

\* An offer is made to a seeker without a live proposal at that moment.
LEMMA LookInv ==
    ASSUME OutreachInv, EventLook
    PROVE  OutreachInv'
  <1>1. UNCHANGED <<queueVars, reopens>> /\ Rows' = Rows
    BY DEF EventLook, OtherUnchanged, queueVars, Rows
  <1>2. QueueTypeOK' /\ reopens' \in Nat
    BY <1>1 DEF OutreachInv, queueVars, QueueTypeOK, Txs
  <1>3. lastId \in Nat /\ reopens \in Nat /\ cycle.offers \in Seq(Offer)
    BY MaxIdAssumption DEF OutreachInv, QueueTypeOK, CycleOK, OffersOfPast
  <1> PICK n \in cycle.todo :
            \E looked \in BOOLEAN :
               LET p == Ranking[n]
                   writes == p \in Seekers /\ Eligible(p) /\ ~(looked /\ contact[p] = "waits")
                   offer == [to |-> p, seen |-> lastId, reopens |-> reopens]
               IN  cycle' = [cycle EXCEPT !.todo = @ \ {n},
                                          !.offers = IF writes THEN Append(@, offer) ELSE @]
    BY DEF EventLook
  <1> DEFINE p == Ranking[n]
             offer == [to |-> p, seen |-> lastId, reopens |-> reopens]
  <1>4. /\ Shaped(cycle')
        /\ \/ cycle'.offers = cycle.offers
           \/ p \in Seekers /\ Eligible(p) /\ cycle'.offers = Append(cycle.offers, offer)
    <2>1. Shaped(cycle) /\ cycle.route = "event"
      BY DEF EventLook, Running, OutreachInv, CycleOK
    <2>2. /\ DOMAIN cycle' = DOMAIN cycle /\ cycle'.route = "event"
          /\ cycle'.event = cycle.event /\ cycle'.todo = cycle.todo \ {n}
      BY <2>1 DEF Shaped, Fields
    <2>3. \/ cycle'.offers = cycle.offers
          \/ p \in Seekers /\ Eligible(p) /\ cycle'.offers = Append(cycle.offers, offer)
      BY <2>1 DEF Shaped, Fields
    <2> QED
      BY <2>1, <2>2, <2>3 DEF Shaped
  <1>5. CASE cycle'.offers = cycle.offers
    <2>1. Keeps
      BY <1>4, <1>5 DEF Keeps
    <2>2. Quiet
      BY <1>1, StillQuiet DEF OutreachInv, queueVars
    <2> QED
      BY <1>2, <2>1, <2>2, NewsOnly DEF OutreachInv
  <1>6. CASE p \in Seekers /\ Eligible(p) /\ cycle'.offers = Append(cycle.offers, offer)
    <2>1. offer \in Offer /\ offer.to = p /\ offer.seen = lastId /\ offer.reopens = reopens
      BY <1>3, <1>6 DEF Offer
    <2> HIDE DEF offer
    <2>2. /\ cycle'.offers \in Seq(Offer)
          /\ \A k \in DOMAIN cycle'.offers :
                 \/ k \in DOMAIN cycle.offers /\ cycle'.offers[k] = cycle.offers[k]
                 \/ cycle'.offers[k] = offer
      BY <1>3, <1>6, <2>1
    <2>3. OffersOfPast'
      BY <1>1, <1>3, <2>1, <2>2 DEF OutreachInv, CycleOK, OffersOfPast, queueVars
    <2>4. ~HasActiveProposal(p)
      BY <1>6 DEF Eligible
    <2>5. RefusedOnlyByNews'
      BY <1>1, <2>1, <2>2, <2>4 DEF OutreachInv, RefusedOnlyByNews, HasActiveProposal, queueVars
    <2> QED
      BY <1>2, <1>4, <2>3, <2>5 DEF OutreachInv, CycleOK
  <1> QED
    BY <1>4, <1>5, <1>6

\* The inserts of the event cycle.
LEMMA EventProposeInv ==
    ASSUME OutreachInv, EventPropose
    PROVE  OutreachInv'
  <1> DEFINE rest == [cycle EXCEPT !.offers = Tail(@)]
             row(text) == Proposal("proactive_message", Head(cycle.offers).to, Plain, text,
                                   NoSnapshot)
  <1>1. cycle.offers \in Seq(Offer) /\ cycle.offers # <<>> /\ Shaped(cycle)
    BY DEF OutreachInv, CycleOK, OffersOfPast, EventPropose
  <1>2. PICK text \in Texts : Enqueues(row(text), rest)
    BY DEF EventPropose
  <1>3. row(text) \in Row
    <2>1. Head(cycle.offers) \in Offer
      BY <1>1
    <2>2. Head(cycle.offers).to \in Targets
      BY <2>1, OutreachAssumption DEF Offer
    <2> QED
      BY <2>2, ProposalRow, OutreachAssumption, QueueTypesAssumption, SnapshotsAssumption
         DEF OutboundQueueTypes
  <1>4. QueueTypeOK' /\ (Quiet \/ Insert) /\ cycle' \in {rest, Resting}
    BY <1>2, <1>3, EnqueueStep DEF OutreachInv
  <1>5. Keeps
    BY <1>1, <1>4 DEF Keeps, Shaped, Fields
  <1> QED
    BY <1>4, <1>5, NewsOnly DEF OutreachInv

\* The inserts of the reaction cycle.
LEMMA ReactProposeInv ==
    ASSUME OutreachInv, ReactPropose
    PROVE  OutreachInv'
  <1>1. Shaped(cycle) /\ cycle.route = "react"
    BY DEF OutreachInv, CycleOK, ReactPropose, Running
  <1>2. PICK n \in cycle.todo, text \in Texts :
            LET item == Unreacted[n]
                qtype == IF item \in CommentIds THEN "reply_comment" ELSE "reply_message"
            IN  Enqueues(Proposal(qtype, item, Plain, text, NoSnapshot),
                         [cycle EXCEPT !.todo = @ \ {n}])
    BY DEF ReactPropose
  <1> DEFINE rest == [cycle EXCEPT !.todo = @ \ {n}]
             item == Unreacted[n]
             qtype == IF item \in CommentIds THEN "reply_comment" ELSE "reply_message"
             row == Proposal(qtype, item, Plain, text, NoSnapshot)
  <1>3. row \in Row
    <2>1. item \in Targets
      <3>1. n \in DOMAIN Unreacted
        BY <1>1 DEF Shaped
      <3>2. Unreacted \in Seq(Targets)
        BY OutreachAssumption
      <3> QED
        BY <3>1, <3>2
    <2>2. qtype \in QueueTypes
      BY OutreachAssumption, QueueTypesAssumption DEF OutboundQueueTypes
    <2> HIDE DEF item, qtype
    <2> QED
      BY <2>1, <2>2, ProposalRow, OutreachAssumption, SnapshotsAssumption
  <1>4. QueueTypeOK' /\ (Quiet \/ Insert) /\ cycle' \in {rest, Resting}
    <2>1. Enqueues(row, rest)
      BY <1>2
    <2> HIDE DEF row, rest
    <2> QED
      BY <1>3, <2>1, EnqueueStep DEF OutreachInv
  <1>5. Keeps
    <2>1. Shaped(rest) /\ rest.offers = cycle.offers
      BY <1>1 DEF Shaped, Fields
    <2> QED
      BY <1>4, <2>1 DEF Keeps
  <1> QED
    BY <1>4, <1>5, NewsOnly DEF OutreachInv

\* The worker finds an approved row outdated, and touches no other.
LEMMA WorkerQuiet ==
    ASSUME QueueTypeOK, NEW id \in Rows, Worker(id)
    PROVE  /\ NoneLivelier(queue') /\ UNCHANGED <<lastId, regen, claim>>
           /\ Unlocked /\ Live(queue[id])
           /\ \A other \in Rows \ {id} : queue'[other] = queue[other]
  <1>1. queue' = [queue EXCEPT ![id].status = "rejected", ![id].delivery_status = "outdated",
                               ![id].fetch_request = "pending"]
    BY DEF Worker
  <1>2. queue \in [Rows -> Row] /\ queue[id] \in Row
    BY DEF QueueTypeOK
  <1>3. queue' = [queue EXCEPT ![id] = [queue[id] EXCEPT
                      !.status = "rejected", !.delivery_status = "outdated",
                      !.fetch_request = "pending"]]
    BY <1>1, <1>2
  <1> DEFINE row == [queue[id] EXCEPT !.status = "rejected", !.delivery_status = "outdated",
                                      !.fetch_request = "pending"]
  <1>4. /\ row \in Row /\ row.status = "rejected" /\ row.target_id = queue[id].target_id
        /\ row.queue_type = queue[id].queue_type /\ row.kind = queue[id].kind
    BY <1>2, StatusesWritten DEF Row
  <1> HIDE DEF row
  <1>5. /\ queue' \in [Rows -> Row] /\ queue'[id] = row
        /\ \A other \in Rows \ {id} : queue'[other] = queue[other]
    BY <1>2, <1>3, <1>4 DEF row
  <1>6. NoneLivelier(queue')
    BY <1>4, <1>5 DEF NoneLivelier, Updates, Live, TerminalStatuses
  <1> QED
    BY <1>5, <1>6 DEF Worker, Live, TerminalStatuses

\* What operators and the worker do around the cycles.
LEMMA AroundInv ==
    ASSUME OutreachInv,
           \/ \E s \in Seekers : CareCommand(s)
           \/ \E id \in Rows : Operator(id) \/ Worker(id)
    PROVE  OutreachInv'
  <1>1. QueueTypeOK
    BY DEF OutreachInv
  <1>2. Keeps
    BY DEF CareCommand, Operator, Worker, Keeps
  <1>3. ASSUME NEW s \in Seekers, CareCommand(s)
        PROVE  QueueTypeOK' /\ Insert
    <2>1. PICK text \in Texts :
              EnqueueAction(Proposal("proactive_message", s, CareKind, text, NoSnapshot))
      BY <1>3 DEF CareCommand
    <2> DEFINE row == Proposal("proactive_message", s, CareKind, text, NoSnapshot)
    <2>2. row \in Row
      BY ProposalRow, OutreachAssumption, QueueTypesAssumption, SnapshotsAssumption
         DEF OutboundQueueTypes
    <2> HIDE DEF row
    <2>3. EnqueueAction(row)
      BY <2>1 DEF row
    <2> QED
      BY <1>1, <1>3, <2>2, <2>3, InsertTypes DEF EnqueueAction, CareCommand, Insert, QueueTypeOK
  <1>4. ASSUME NEW id \in Rows, Operator(id)
        PROVE  QueueTypeOK' /\ (Quiet \/ Reopen)
    <2>1. CASE (ApproveAction(id) \/ RejectAction(id)) /\ UNCHANGED reopens
      <3>1. NoneLivelier(queue')
        BY <1>1, <2>1, QuietApproval, QuietStatus, StatusesWritten
           DEF ApproveAction, RejectAction, TerminalStatuses
      <3>2. UNCHANGED <<lastId, regen, claim, reopens>>
        BY <2>1 DEF ApproveAction, RejectAction
      <3> QED
        BY <1>1, <3>1, <3>2, UpdateTypes DEF NoneLivelier, Quiet
    <2>2. CASE WebApprove(id) /\ reopens' = reopens + 1
      BY <1>1, <2>2, SetApprovedUpdates, UpdateTypes DEF WebApprove, Reopen
    <2> QED
      BY <1>4, <2>1, <2>2 DEF Operator
  <1>5. ASSUME NEW id \in Rows, Worker(id)
        PROVE  QueueTypeOK' /\ Quiet
    <2>1. NoneLivelier(queue') /\ UNCHANGED <<lastId, regen, claim>>
      BY <1>1, <1>5, WorkerQuiet
    <2> QED
      BY <1>1, <1>5, <2>1, UpdateTypes DEF Worker, Quiet, NoneLivelier
  <1>6. QueueTypeOK' /\ (Quiet \/ Reopen \/ Insert)
    BY <1>3, <1>4, <1>5
  <1> QED
    BY <1>2, <1>6, NewsOnly DEF OutreachInv

-----------------------------------------------------------------------------

\* The invariant of outreach holds at first, and each step keeps it.
LEMMA OutreachInvInit == QueueInit /\ OutreachInit => OutreachInv
  <1> SUFFICES ASSUME QueueInit, OutreachInit PROVE OutreachInv
    OBVIOUS
  <1>1. QueueTypeOK
    BY InitInv DEF QueueInv
  <1>2. cycle.offers = <<>> /\ Shaped(cycle) /\ reopens = 0
    BY RestingShaped DEF OutreachInit
  <1> QED
    BY <1>1, <1>2 DEF OutreachInv, CycleOK, OffersOfPast, RefusedOnlyByNews

LEMMA OutreachInvNext == OutreachInv /\ [OutreachNext]_outreachVars => OutreachInv'
  <1> SUFFICES ASSUME OutreachInv, [OutreachNext]_outreachVars PROVE OutreachInv'
    OBVIOUS
  <1>1. CASE UNCHANGED outreachVars
    BY <1>1 DEF outreachVars, queueVars, OutreachInv, QueueTypeOK, Txs, Rows, CycleOK, OffersOfPast,
                RefusedOnlyByNews
  <1> QED
    BY <1>1, SearchInv, LookInv, EventProposeInv, ReactProposeInv, AroundInv
       DEF OutreachNext

\* l5_action_queue.py:58-60, for any number of seekers and events: when the event
\* cycle inserts an offer, no live proposal to that seeker is older than its
\* check; what the index then refuses came or was brought back in between.
THEOREM OnlyNewsRefuses == OutreachSpec => []RefusedOnlyByNews
  <1>1. OutreachInv => RefusedOnlyByNews
    BY DEF OutreachInv
  <1> QED
    BY <1>1, OutreachInvInit, OutreachInvNext, PTL DEF OutreachSpec

-----------------------------------------------------------------------------
(* What a fresh classification is worth, for any number of turns, cities,  *)
(* programmes and classifiers.                                             *)
(*                                                                         *)
(* FreshMeansRead is inductive beside the types and two facts: no turn     *)
(* lies in the future, so that a verification stamps a time no stored turn *)
(* is later than; and what a classifier read is stored.  Storing turns     *)
(* moves last_interaction to the latest exact time: either past the        *)
(* verification, and the row is stale, or every such turn was sent before. *)

TurnsPast == /\ turns \in Seq(Turn)
             /\ \A n \in DOMAIN turns : turns[n].at <= clock

ReadsStored == \A p \in Passes : pass[p].read <= stored

\* Only a row that exists is classified.
NoUserYet == ~user.exists => /\ user.verified_at = Never
                             /\ \A p \in Passes : pass[p] = Idle

ProfileInv == ProfileTypeOK /\ TurnsPast /\ ReadsStored /\ NoUserYet /\ FreshMeansRead

\* A step that concerns none of the facts behind FreshMeansRead.
SameFacts == /\ UNCHANGED <<turns, stored, read>>
             /\ user'.last_interaction = user.last_interaction
             /\ user'.verified_at = user.verified_at

-----------------------------------------------------------------------------

\* The bounds and the time columns are integers.
LEMMA Numbers ==
    ASSUME ProfileTypeOK, turns \in Seq(Turn)
    PROVE  /\ clock \in 0 .. MaxClock /\ MaxClock \in Nat /\ UtcLag \in Nat \ {0}
           /\ stored \in 0 .. Len(turns) /\ Len(turns) \in Nat /\ read \in 0 .. stored
           /\ user.last_interaction \in Int /\ user.verified_at \in Int
           /\ Never \in Int /\ Never < -UtcLag
           /\ \A n \in DOMAIN turns : turns[n].at \in Int
  <1>1. \A n \in DOMAIN turns : turns[n] \in Turn
    OBVIOUS
  <1> QED
    BY <1>1, ProfileAssumption DEF ProfileTypeOK, User, Never, Turn

\* Positions after the ones read lie within the turns.
LEMMA Within ==
    ASSUME NEW from \in Nat, NEW to \in Nat, NEW length \in Nat, to <= length
    PROVE  \A n \in (from + 1) .. to : n \in 1 .. length
  OBVIOUS

\* A row that stays about what was verified, or turns stale, stays sound.
LEMMA SameFactsSound ==
    ASSUME FreshMeansRead, SameFacts,
           user'.exists => user.exists, corrected' = corrected,
           user'.proof \in {user.proof, "retryable"}
    PROVE  FreshMeansRead'
  BY DEF FreshMeansRead, SameFacts, Stale

\* The steps that touch neither the users row nor what it was read from.
LEMMA QuietInv ==
    ASSUME ProfileInv,
           Minute \/ Write \/ \E p \in Passes : PassStart(p) \/ Retry(p)
    PROVE  ProfileInv'
  <1>1. /\ ProfileTypeOK /\ TurnsPast /\ ReadsStored /\ NoUserYet /\ FreshMeansRead
        /\ turns \in Seq(Turn)
    BY DEF ProfileInv, TurnsPast
  <1>2. /\ clock \in 0 .. MaxClock /\ MaxClock \in Nat /\ Len(turns) \in Nat
        /\ stored \in 0 .. Len(turns)
        /\ \A n \in DOMAIN turns : turns[n].at \in Int
    BY <1>1, Numbers
  <1>3. CASE Minute
    <2>1. UNCHANGED <<turns, stored, user, pass, read, corrected>>
          /\ clock' = clock + 1 /\ clock' \in 0 .. MaxClock
      BY <1>2, <1>3 DEF Minute
    <2>2. ProfileTypeOK'
      BY <1>1, <2>1 DEF ProfileTypeOK
    <2>3. TurnsPast'
      BY <1>1, <1>2, <2>1 DEF TurnsPast
    <2> QED
      BY <1>1, <2>1, <2>2, <2>3 DEF ProfileInv, ReadsStored, NoUserYet, FreshMeansRead, Stale
  <1>4. CASE Write
    <2>1. PICK dated \in BOOLEAN : turns' = Append(turns, [at |-> clock, dated |-> dated])
      BY <1>4 DEF Write
    <2> DEFINE turn == [at |-> clock, dated |-> dated]
    <2>2. turn \in Turn /\ turn.at = clock
      BY <1>2 DEF Turn
    <2> HIDE DEF turn
    <2>3. UNCHANGED <<clock, stored, user, pass, read, corrected>> /\ Len(turns) < MaxTurns
      BY <1>4 DEF Write
    <2>4. /\ turns' \in Seq(Turn) /\ Len(turns') = Len(turns) + 1
          /\ \A n \in DOMAIN turns' : \/ turns'[n] = turn
                                      \/ n \in DOMAIN turns /\ turns'[n] = turns[n]
          /\ \A n \in 1 .. stored : turns'[n] = turns[n]
      BY <1>1, <1>2, <2>1, <2>2 DEF turn
    <2>5. ProfileTypeOK'
      <3>1. Len(turns') <= MaxTurns /\ \A n \in DOMAIN turns' : turns'[n] \in Turn
        BY <1>2, <2>3, <2>4, ProfileAssumption
      <3>2. stored' \in 0 .. Len(turns')
        BY <1>2, <2>3, <2>4
      <3> QED
        BY <1>1, <2>3, <3>1, <3>2 DEF ProfileTypeOK
    <2>6. TurnsPast'
      BY <1>1, <1>2, <2>2, <2>3, <2>4 DEF TurnsPast
    <2>7. FreshMeansRead'
      <3>1. \A n \in (read + 1) .. stored : n \in 1 .. stored
        BY <1>1, <1>2, Numbers
      <3> QED
        BY <1>1, <2>3, <2>4, <3>1 DEF FreshMeansRead, Stale
    <2> QED
      BY <1>1, <2>3, <2>5, <2>6, <2>7 DEF ProfileInv, ReadsStored, NoUserYet
  <1>5. ASSUME NEW p \in Passes, PassStart(p) \/ Retry(p)
        PROVE  ProfileInv'
    <2>1. UNCHANGED <<clock, turns, stored, user, read, corrected>>
      BY <1>5 DEF PassStart, Retry
    <2>2. /\ pass' \in [Passes -> Doing]
          /\ \A q \in Passes : pass'[q].read \in {pass[q].read, stored}
      <3>1. CASE PassStart(p)
        <4>1. pass' = [pass EXCEPT ![p] = [step |-> "asking", attempt |-> 1, read |-> stored]]
          BY <3>1 DEF PassStart
        <4>2. [step |-> "asking", attempt |-> 1, read |-> stored] \in Doing
          BY <1>1, <1>2, ProfileAssumption DEF ProfileTypeOK, Doing
        <4> QED
          BY <1>1, <4>1, <4>2 DEF ProfileTypeOK
      <3>2. CASE Retry(p)
        <4>1. pass' = [pass EXCEPT ![p].attempt = @ + 1] /\ pass[p].attempt < MaxRetries
          BY <3>2 DEF Retry
        <4>2. pass[p] \in Doing
          BY <1>1 DEF ProfileTypeOK
        <4>3. [pass[p] EXCEPT !.attempt = @ + 1] \in Doing
          BY <4>1, <4>2, ProfileAssumption DEF Doing
        <4>4. \A q \in Passes : pass'[q].read = pass[q].read
          BY <1>1, <4>1 DEF ProfileTypeOK, Doing
        <4> QED
          BY <1>1, <4>1, <4>2, <4>3, <4>4 DEF ProfileTypeOK
      <3> QED
        BY <1>5, <3>1, <3>2
    <2>3. ProfileTypeOK'
      BY <1>1, <2>1, <2>2 DEF ProfileTypeOK
    <2>4. TurnsPast' /\ FreshMeansRead'
      BY <1>1, <2>1 DEF TurnsPast, FreshMeansRead, Stale
    <2>5. ReadsStored'
      BY <1>1, <1>2, <2>1, <2>2 DEF ReadsStored
    <2>6. NoUserYet'
      BY <1>1, <1>5, <2>1 DEF NoUserYet, PassStart, Retry, Asking, Idle
    <2> QED
      BY <2>3, <2>4, <2>5, <2>6 DEF ProfileInv
  <1> QED
    BY <1>3, <1>4, <1>5

\* Storing what was crawled.
LEMMA PersistInv ==
    ASSUME ProfileInv, Persist
    PROVE  ProfileInv'
  <1>1. /\ ProfileTypeOK /\ TurnsPast /\ ReadsStored /\ NoUserYet /\ FreshMeansRead
        /\ turns \in Seq(Turn)
    BY DEF ProfileInv, TurnsPast
  <1>2. /\ clock \in 0 .. MaxClock /\ MaxClock \in Nat /\ UtcLag \in Nat \ {0}
        /\ stored \in 0 .. Len(turns) /\ Len(turns) \in Nat /\ read \in 0 .. stored
        /\ user.last_interaction \in Int /\ user.verified_at \in Int
        /\ Never \in Int /\ Never < -UtcLag
        /\ \A n \in DOMAIN turns : turns[n].at \in Int
    BY <1>1, Numbers
  <1>3. UNCHANGED <<clock, turns, pass, read, corrected>> /\ stored' = Len(turns)
    BY DEF Persist
  <1>4. PICK t : /\ user' = Touched(t)
                 /\ \/ stored = Len(turns) /\ t = user.last_interaction
                    \/ t \in InteractionTimes
    BY <1>2 DEF Persist
  <1>5. user \in User
    BY <1>1 DEF ProfileTypeOK
  <1>6. InteractionTimes \subseteq Never .. MaxClock
    <2>1. \A n \in DOMAIN turns : turns[n].at \in 0 .. MaxClock
      BY <1>1 DEF ProfileTypeOK, Turn
    <2>2. {clock, clock - 1, clock - UtcLag} \subseteq Never .. MaxClock
      BY <1>2
    <2>3. 0 .. MaxClock \subseteq Never .. MaxClock
      BY <1>2
    <2> QED
      BY <2>1, <2>2, <2>3 DEF InteractionTimes
  <1>7. t \in Never .. MaxClock
    BY <1>4, <1>5, <1>6 DEF User
  <1>8. /\ user' \in User /\ user'.last_interaction = t /\ user'.verified_at = user.verified_at
        /\ user'.proof = user.proof /\ user'.exists
    BY <1>4, <1>5, <1>7 DEF Touched, User
  <1>9. ProfileTypeOK'
    BY <1>1, <1>2, <1>3, <1>8 DEF ProfileTypeOK
  <1>10. ReadsStored'
    <2>1. \A p \in Passes : pass[p].read \in Nat
      BY <1>1, ProfileAssumption DEF ProfileTypeOK, Doing
    <2> QED
      BY <1>1, <1>2, <1>3, <2>1 DEF ReadsStored
  <1>11. FreshMeansRead'
    <2>1. CASE stored = Len(turns) /\ t = user.last_interaction
      <3>1. CASE user.exists
        BY <1>1, <1>3, <1>8, <2>1, <3>1, SameFactsSound DEF SameFacts
      <3>2. CASE ~user.exists
        BY <1>1, <1>8, <3>2 DEF FreshMeansRead, Stale, NoUserYet
      <3> QED
        BY <3>1, <3>2
    <2>2. CASE t \in InteractionTimes
      <3> SUFFICES ASSUME ~Stale', NEW n \in (read' + 1) .. stored', turns'[n].dated
                   PROVE  turns'[n].at <= user'.verified_at
        BY DEF FreshMeansRead
      <3>1. n \in DOMAIN turns /\ turns[n].dated /\ turns' = turns
        BY <1>1, <1>2, <1>3
      <3>2. turns[n].at <= t
        BY <2>2, <3>1 DEF InteractionTimes
      <3>3. t <= user.verified_at
        BY <1>2, <1>7, <1>8 DEF Stale
      <3> QED
        BY <1>2, <1>7, <1>8, <3>1, <3>2, <3>3
    <2> QED
      BY <1>4, <2>1, <2>2
  <1> QED
    BY <1>1, <1>3, <1>8, <1>9, <1>10, <1>11 DEF ProfileInv, TurnsPast, NoUserYet

\* What a classifier, a correction, an operator or the stage gate may do to the
\* row: a verification stamps the time and what was read, a correction says so,
\* the rest leaves what FreshMeansRead is about.
LEMMA RowWritten ==
    ASSUME ProfileInv, user' \in User, UNCHANGED <<clock, turns, stored>>,
           pass' \in [Passes -> Doing],
           \A p \in Passes : pass'[p].read \in {pass[p].read, 0},
           (user.exists /\ user'.exists) \/ UNCHANGED <<user, pass>>,
           \/ /\ SameFacts /\ corrected' = corrected
              /\ user'.proof \in {user.proof, "retryable"}
           \/ /\ user'.verified_at = clock /\ read' \in 0 .. stored /\ corrected' = FALSE
           \/ corrected' = TRUE /\ read' = read
    PROVE  ProfileInv'
  <1>1. /\ ProfileTypeOK /\ TurnsPast /\ ReadsStored /\ NoUserYet /\ FreshMeansRead
        /\ turns \in Seq(Turn)
    BY DEF ProfileInv, TurnsPast
  <1>2. /\ clock \in 0 .. MaxClock /\ stored \in 0 .. Len(turns) /\ Len(turns) \in Nat
        /\ read \in 0 .. stored
        /\ \A n \in DOMAIN turns : turns[n].at \in Int
    BY <1>1, Numbers
  <1>3. read' \in 0 .. stored /\ corrected' \in BOOLEAN
    BY <1>1, <1>2 DEF SameFacts, ProfileTypeOK
  <1>4. ProfileTypeOK'
    BY <1>1, <1>3 DEF ProfileTypeOK
  <1>5. TurnsPast'
    BY <1>1 DEF TurnsPast
  <1>6. ReadsStored'
    BY <1>1, <1>2 DEF ReadsStored
  <1>7. FreshMeansRead'
    <2>1. CASE /\ SameFacts /\ corrected' = corrected
               /\ user'.proof \in {user.proof, "retryable"}
      BY <1>1, <2>1, SameFactsSound
    <2>2. CASE user'.verified_at = clock /\ read' \in 0 .. stored
      <3>1. \A n \in (read' + 1) .. stored : n \in DOMAIN turns
        <4>1. DOMAIN turns = 1 .. Len(turns)
          BY <1>1
        <4>2. read' \in Nat /\ stored \in Nat /\ stored <= Len(turns) /\ Len(turns) \in Nat
          BY <1>2, <1>3
        <4> QED
          BY <4>1, <4>2, Within
      <3>2. \A n \in (read' + 1) .. stored : turns[n].at <= clock
        BY <1>1, <3>1 DEF TurnsPast
      <3> QED
        BY <2>2, <3>2 DEF FreshMeansRead
    <2>3. CASE corrected' = TRUE
      BY <2>3 DEF FreshMeansRead
    <2> QED
      BY <2>1, <2>2, <2>3
  <1>8. NoUserYet'
    BY <1>1 DEF NoUserYet
  <1> QED
    BY <1>4, <1>5, <1>6, <1>7, <1>8 DEF ProfileInv

\* A classifier's outcome.
LEMMA ClassifierInv ==
    ASSUME ProfileInv, NEW p \in Passes, GiveUp(p) \/ Verify(p) \/ ToolWrites(p)
    PROVE  ProfileInv'
  <1>1. ProfileTypeOK /\ ReadsStored /\ turns \in Seq(Turn) /\ user \in User /\ user.exists
    <2>1. ProfileTypeOK /\ ReadsStored /\ turns \in Seq(Turn) /\ NoUserYet
      BY DEF ProfileInv, TurnsPast
    <2>2. pass[p].step = "asking"
      BY DEF GiveUp, Verify, ToolWrites, Asking
    <2>3. pass[p] # Idle
      BY <2>2 DEF Idle
    <2> QED
      BY <2>1, <2>3 DEF ProfileTypeOK, NoUserYet
  <1>2. /\ clock \in 0 .. MaxClock /\ MaxClock \in Nat /\ Never \in Int /\ Never < -UtcLag
        /\ UtcLag \in Nat \ {0} /\ stored \in Nat
    BY <1>1, Numbers
  <1>3. pass' = [pass EXCEPT ![p] = Idle] /\ UNCHANGED <<clock, turns, stored>>
    BY DEF GiveUp, Verify, ToolWrites, Finished
  <1>4. /\ pass' \in [Passes -> Doing]
        /\ \A q \in Passes : pass'[q].read \in {pass[q].read, 0}
    <2>1. Idle \in Doing
          /\ Idle.read = 0
      BY ProfileAssumption DEF Idle, Doing
    <2> QED
      BY <1>1, <1>3, <2>1 DEF ProfileTypeOK
  <1>5. CASE GiveUp(p)
    <2>1. user' = [user EXCEPT !.proof = "retryable"] \/ user' = user
      BY <1>5 DEF GiveUp
    <2>2. /\ user' \in User /\ user'.exists = user.exists
          /\ user'.last_interaction = user.last_interaction
          /\ user'.verified_at = user.verified_at /\ user'.proof \in {user.proof, "retryable"}
      BY <1>1, <2>1 DEF User, Proofs
    <2>3. SameFacts /\ corrected' = corrected
      BY <1>5, <2>2 DEF GiveUp, SameFacts
    <2> QED
      BY <1>1, <1>3, <1>4, <2>2, <2>3, RowWritten
  <1>6. CASE Verify(p)
    <2>1. PICK written \in Classifications :
              user' = [user EXCEPT !.city = written.city, !.program = written.program,
                                   !.proof = written.proof, !.verified_at = clock]
      BY <1>6 DEF Verify
    <2>2. /\ written.city \in Cities \cup {"Unknown", Null}
          /\ written.program \in Programs \cup {Null} /\ written.proof \in Proofs
      BY ProfileAssumption DEF Classifications, Result, Programs, Proofs
    <2>3. clock \in Never .. MaxClock
      BY <1>2
    <2>4. user' \in User /\ user'.verified_at = clock /\ user'.exists
      BY <1>1, <2>1, <2>2, <2>3 DEF User
    <2>5. read' \in 0 .. stored /\ corrected' = FALSE
      <3>1. pass[p].read \in Nat /\ pass[p].read <= stored
        BY <1>1, ProfileAssumption DEF ProfileTypeOK, ReadsStored, Doing
      <3>2. read' = pass[p].read /\ corrected' = FALSE
        BY <1>6 DEF Verify
      <3> QED
        BY <1>2, <3>1, <3>2
    <2> QED
      BY <1>1, <1>3, <1>4, <2>4, <2>5, RowWritten
  <1>7. CASE ToolWrites(p)
    <2>1. PICK written \in Classifications :
              user' = [user EXCEPT
                         !.city = IF written.city = "Unknown" THEN @ ELSE written.city,
                         !.program = IF written.program = Null THEN @ ELSE written.program]
      BY <1>7 DEF ToolWrites
    <2>2. /\ written.city \in Cities \cup {"Unknown", Null}
          /\ written.program \in Programs \cup {Null}
      BY ProfileAssumption DEF Classifications, Result, Programs
    <2>3. /\ user' \in User /\ user'.exists = user.exists
          /\ user'.last_interaction = user.last_interaction
          /\ user'.verified_at = user.verified_at /\ user'.proof = user.proof
      BY <1>1, <2>1, <2>2 DEF User
    <2>4. SameFacts /\ corrected' = corrected
      BY <1>7, <2>3 DEF ToolWrites, SameFacts
    <2> QED
      BY <1>1, <1>3, <1>4, <2>3, <2>4, RowWritten
  <1> QED
    BY <1>5, <1>6, <1>7

\* A correction by the inbox MAS, applied or not.
LEMMA CorrectInv ==
    ASSUME ProfileInv, NEW blocked \in BOOLEAN, NEW applies \in BOOLEAN,
           NEW row \in User, row.exists = user.exists, Correct(blocked, applies, row)
    PROVE  ProfileInv'
  <1>1. ProfileTypeOK /\ turns \in Seq(Turn) /\ user \in User
    BY DEF ProfileInv, TurnsPast, ProfileTypeOK
  <1>2. UNCHANGED <<clock, turns, stored, pass, read>>
    BY DEF Correct
  <1>3. /\ pass' \in [Passes -> Doing]
        /\ \A q \in Passes : pass'[q].read \in {pass[q].read, 0}
    BY <1>1, <1>2 DEF ProfileTypeOK
  <1>4. CASE /\ user' = [row EXCEPT !.last_interaction = clock - UtcLag]
             /\ corrected' = TRUE /\ user.exists
    <2>1. clock - UtcLag \in Never .. MaxClock
      BY <1>1, Numbers
    <2>2. user' \in User /\ user'.exists
      BY <1>4, <2>1 DEF User
    <2> QED
      BY <1>2, <1>3, <1>4, <2>2, RowWritten
  <1>5. CASE user' = user /\ corrected' = corrected
    <2>1. SameFacts
      BY <1>2, <1>5 DEF SameFacts
    <2> QED
      BY <1>1, <1>2, <1>3, <1>5, <2>1, RowWritten
  <1>6. \/ /\ user' = [row EXCEPT !.last_interaction = clock - UtcLag]
           /\ corrected' = TRUE /\ user.exists
        \/ user' = user /\ corrected' = corrected
    BY <1>1 DEF Correct, ProfileTypeOK, User
  <1> QED
    BY <1>4, <1>5, <1>6

\* The other writers of the row.
LEMMA WritersInv ==
    ASSUME ProfileInv,
           \/ EvaluateStage
           \/ \E city \in Cities : HumanSets(city)
           \/ \E confident \in BOOLEAN :
                 \/ ProposeName(confident)
                 \/ \E city \in Cities : ProposeCity(city, confident)
                 \/ \E program \in Programs : ProposeProgram(program, confident)
    PROVE  ProfileInv'
  <1>1. ProfileTypeOK /\ user \in User
    BY DEF ProfileInv, ProfileTypeOK
  <1>2. ASSUME EvaluateStage \/ \E city \in Cities : HumanSets(city)
        PROVE  ProfileInv'
    <2>1. UNCHANGED <<clock, turns, stored, pass, read, corrected>> /\ user.exists
      BY <1>2 DEF EvaluateStage, HumanSets
    <2>2. \/ \E stage \in {"Seeker", "Seeker_Public_Program"} :
                 user' = [user EXCEPT !.stage = stage]
          \/ \E city \in Cities : user' = [user EXCEPT !.city = city, !.city_source = "human"]
      BY <1>2 DEF EvaluateStage, HumanSets
    <2>3. /\ user' \in User /\ user'.exists = user.exists
          /\ user'.last_interaction = user.last_interaction
          /\ user'.verified_at = user.verified_at /\ user'.proof = user.proof
      BY <1>1, <2>2 DEF User
    <2>4. /\ pass' \in [Passes -> Doing]
          /\ \A q \in Passes : pass'[q].read \in {pass[q].read, 0}
      BY <1>1, <2>1 DEF ProfileTypeOK
    <2>5. SameFacts
      BY <2>1, <2>3 DEF SameFacts
    <2> QED
      BY <2>1, <2>3, <2>4, <2>5, RowWritten
  <1>3. ASSUME NEW confident \in BOOLEAN, ProposeName(confident)
        PROVE  ProfileInv'
    BY <1>1, <1>3, CorrectInv DEF ProposeName
  <1>4. ASSUME NEW confident \in BOOLEAN, NEW city \in Cities, ProposeCity(city, confident)
        PROVE  ProfileInv'
    <2> DEFINE row == [user EXCEPT !.city = city, !.city_source = "mas"]
    <2>1. row \in User /\ row.exists = user.exists
      BY <1>1 DEF User
    <2>2. Correct(user.city_source = "human", confident /\ user.city # city, row)
      BY <1>4 DEF ProposeCity
    <2>3. (user.city_source = "human") \in BOOLEAN /\ (confident /\ user.city # city) \in BOOLEAN
      OBVIOUS
    <2> HIDE DEF row
    <2> QED
      BY <2>1, <2>2, <2>3, CorrectInv
  <1>5. ASSUME NEW confident \in BOOLEAN, NEW program \in Programs,
               ProposeProgram(program, confident)
        PROVE  ProfileInv'
    <2> DEFINE row == [user EXCEPT !.program = program]
    <2>1. row \in User /\ row.exists = user.exists
      BY <1>1 DEF User
    <2>2. Correct(FALSE, confident /\ user.program # program, row)
      BY <1>5 DEF ProposeProgram
    <2>3. (confident /\ user.program # program) \in BOOLEAN
      OBVIOUS
    <2> HIDE DEF row
    <2> QED
      BY <2>1, <2>2, <2>3, CorrectInv
  <1> QED
    BY <1>2, <1>3, <1>4, <1>5

-----------------------------------------------------------------------------

\* The invariant of the profile holds at first, and each step keeps it.
LEMMA ProfileInvInit == ProfileInit => ProfileInv
  <1> SUFFICES ASSUME ProfileInit PROVE ProfileInv
    OBVIOUS
  <1>1. /\ clock = 0 /\ turns = <<>> /\ stored = 0 /\ read = 0 /\ corrected = FALSE
        /\ user = NoUser /\ pass = [p \in Passes |-> Idle]
    BY DEF ProfileInit
  <1>2. turns \in Seq(Turn) /\ Len(turns) = 0 /\ DOMAIN turns = {}
    BY <1>1
  <1>3. user \in User /\ user.exists = FALSE /\ user.verified_at = Never
    BY <1>1, ProfileAssumption DEF NoUser, User, Never, Null, Proofs
  <1>4. /\ pass \in [Passes -> Doing]
        /\ \A p \in Passes : pass[p].read = 0
    BY <1>1, ProfileAssumption DEF Idle, Doing
  <1>5. clock \in 0 .. MaxClock /\ stored \in 0 .. Len(turns) /\ read \in 0 .. stored
        /\ Len(turns) <= MaxTurns
    BY <1>1, <1>2, ProfileAssumption
  <1>6. ProfileTypeOK
    BY <1>1, <1>2, <1>3, <1>4, <1>5 DEF ProfileTypeOK
  <1>7. TurnsPast /\ ReadsStored
    BY <1>1, <1>2, <1>4 DEF TurnsPast, ReadsStored
  <1>8. NoUserYet /\ FreshMeansRead
    BY <1>1, <1>3 DEF NoUserYet, FreshMeansRead
  <1> QED
    BY <1>6, <1>7, <1>8 DEF ProfileInv

LEMMA ProfileInvNext == ProfileInv /\ [ProfileNext]_profileVars => ProfileInv'
  <1> SUFFICES ASSUME ProfileInv, [ProfileNext]_profileVars PROVE ProfileInv'
    OBVIOUS
  <1>1. CASE UNCHANGED profileVars
    BY <1>1 DEF profileVars, ProfileInv, ProfileTypeOK, TurnsPast, ReadsStored,
                NoUserYet, FreshMeansRead, Stale
  <1> QED
    BY <1>1, QuietInv, PersistInv, ClassifierInv, WritersInv DEF ProfileNext

\* The invariant is inductive.
THEOREM ProfileInvariance == ProfileSpec => []ProfileInv
  BY ProfileInvInit, ProfileInvNext, PTL DEF ProfileSpec

\* l5_fetch_fb_city_classify.py:18-20, for any number of turns and classifiers: a
\* row that counts as fresh was classified with every stored turn in view that
\* has an exact time after the classification, unless the MAS rewrote it since.
THEOREM FreshIsRead == ProfileSpec => []FreshMeansRead
  <1>1. ProfileInv => FreshMeansRead
    BY DEF ProfileInv
  <1> QED
    BY <1>1, ProfileInvariance, PTL

-----------------------------------------------------------------------------
(* Whose row a verdict of Fetch QA stands on, for any number of runs.      *)
(*                                                                         *)
(* The times decide: a row is written after its run started and before it  *)
(* ended; who judged a row it did not write had started by the time it was *)
(* written, and ended after.  Neither run is then over before the other    *)
(* starts.                                                                 *)

Verdict == {"", "passed", "warn", "failed"}

Errors == {"", "facebook_temporarily_blocked", "other",
           "fetch_qa_message_history_or_sender_mismatch"}

Entry == [fetched_at : Nat, complete : BOOLEAN,
          qa_status : Verdict \cup {Unjudged, "skipped"},
          of : Runs, judge : Runs \cup {NoRun}]

Process == [step : {"ready", "scrape", "qa", "record", "done"}, started : Nat,
            reason : Reasons \cup {""}, verdict : Verdict, ended : Nat, error : Errors]

GateShape == ticks \in Nat /\ log \in Seq(Entry) /\ run \in [Runs -> Process]

StartsPast == \A r \in Runs : run[r].started <= ticks

\* The writer and the judge of a row, in time.
WrittenInside(row) ==
    /\ row.fetched_at <= ticks
    /\ run[row.of].step # "ready" /\ run[row.of].started < row.fetched_at
    /\ run[row.of].step = "done" => row.fetched_at <= run[row.of].ended

JudgedInside(row) ==
    row.judge \notin {NoRun, row.of} /\ row.qa_status # "skipped" =>
        /\ run[row.judge].started <= row.fetched_at
        /\ run[row.judge].step = "done" /\ row.fetched_at <= run[row.judge].ended

Inside(row) == WrittenInside(row) /\ JudgedInside(row)

GateInv == GateShape /\ StartsPast /\ \A n \in DOMAIN log : Inside(log[n])

\* A process goes on, and comes to the record with a verdict.
Onward(old, new) ==
    /\ new.ended \in {old.ended, ticks'}
    /\ old.step \in {"qa", "record"} => new.step \in {"record", "done"}
    /\ new.step = "record" => new.verdict # ""

\* What a step does to the run that takes it.
Proceeds(r) ==
    /\ ticks' \in {ticks, ticks + 1}
    /\ run' \in [Runs -> Process]
    /\ \A q \in Runs \ {r} : run'[q] = run[q]
    /\ run[r].step # "done" /\ run'[r].step # "ready"
    /\ run'[r].started = IF run[r].step = "ready" THEN ticks' ELSE run[r].started
    /\ run'[r].step = "done" => run'[r].ended = ticks'
    /\ Onward(run[r], run'[r])

-----------------------------------------------------------------------------

\* A row of the log is one.
LEMMA RowOfLog ==
    ASSUME GateInv, NEW n \in DOMAIN log
    PROVE  log[n] \in Entry /\ Inside(log[n])
  BY DEF GateInv, GateShape

\* The times are numbers.
LEMMA Times ==
    ASSUME GateInv, NEW r \in Runs, Proceeds(r)
    PROVE  /\ ticks \in Nat /\ ticks' \in Nat /\ ticks <= ticks'
           /\ \A q \in Runs : /\ run[q].started \in Nat /\ run[q].ended \in Nat
                              /\ run'[q].started \in Nat /\ run'[q].ended \in Nat
                              /\ run[q].started <= ticks /\ run'[q].started <= ticks'
  <1>1. ticks \in Nat /\ ticks' \in Nat /\ ticks <= ticks'
    BY DEF GateInv, GateShape, Proceeds
  <1>2. \A q \in Runs : run[q] \in Process /\ run'[q] \in Process
    BY DEF GateInv, GateShape, Proceeds
  <1>3. \A q \in Runs : /\ run[q].started \in Nat /\ run[q].ended \in Nat
                        /\ run'[q].started \in Nat /\ run'[q].ended \in Nat
    BY <1>2 DEF Process
  <1>4. \A q \in Runs : run[q].started <= ticks
    BY DEF GateInv, StartsPast
  <1>5. \A q \in Runs : run'[q].started <= ticks'
    BY <1>1, <1>3, <1>4 DEF Proceeds
  <1> QED
    BY <1>1, <1>3, <1>4, <1>5

\* Whatever run proceeds, a row that was written and judged inside stays so.
LEMMA RowStays ==
    ASSUME GateInv, NEW r \in Runs, Proceeds(r), NEW row \in Entry, Inside(row)
    PROVE  Inside(row)'
  <1>1. /\ ticks \in Nat /\ ticks' \in Nat /\ ticks <= ticks'
        /\ \A q \in Runs : /\ run[q].started \in Nat /\ run[q].ended \in Nat
                           /\ run'[q].started \in Nat /\ run'[q].ended \in Nat
                           /\ run[q].started <= ticks
    BY Times
  <1>2. row.fetched_at \in Nat /\ row.of \in Runs /\ row.judge \in Runs \cup {NoRun}
    BY DEF Entry
  <1>3. WrittenInside(row)'
    <2>1. CASE row.of = r
      BY <1>1, <1>2, <2>1 DEF Inside, WrittenInside, Proceeds
    <2>2. CASE row.of # r
      BY <1>1, <1>2, <2>2 DEF Inside, WrittenInside, Proceeds
    <2> QED
      BY <2>1, <2>2
  <1>4. JudgedInside(row)'
    BY <1>1, <1>2 DEF Inside, JudgedInside, Proceeds
  <1> QED
    BY <1>3, <1>4 DEF Inside

\* A step keeps the invariant if each row of the log is an old one, or is inside.
LEMMA LogInv ==
    ASSUME GateInv, NEW r \in Runs, Proceeds(r), log' \in Seq(Entry),
           \A n \in DOMAIN log' : \/ n \in DOMAIN log /\ log'[n] = log[n]
                                  \/ \E row \in Entry : log'[n] = row /\ Inside(row)'
    PROVE  GateInv'
  <1>1. GateShape' /\ StartsPast'
    BY Times DEF GateShape, StartsPast, Proceeds
  <1>2. ASSUME NEW n \in DOMAIN log'
        PROVE  Inside(log[n])'
    <2>1. PICK row \in Entry : log'[n] = row /\ Inside(row)'
      BY RowOfLog, RowStays
    <2> QED
      BY <2>1 DEF Inside, WrittenInside, JudgedInside
  <1> QED
    BY <1>1, <1>2 DEF GateInv

\* A step that leaves the log alone.
LEMMA SameLogInv ==
    ASSUME GateInv, NEW r \in Runs, Proceeds(r), log' = log
    PROVE  GateInv'
  <1>1. log \in Seq(Entry)
    BY DEF GateInv, GateShape
  <1> QED
    BY <1>1, LogInv

\* A step that appends a row of its own run.
LEMMA AppendInv ==
    ASSUME GateInv, NEW r \in Runs, Proceeds(r), run[r].step # "ready",
           ticks' = ticks + 1,
           NEW complete \in BOOLEAN, NEW status \in Verdict \cup {Unjudged, "skipped"},
           NEW judge \in {r, NoRun},
           Logged(r, complete, status, judge)
    PROVE  GateInv'
  <1>1. ticks \in Nat /\ log \in Seq(Entry)
    BY DEF GateInv, GateShape
  <1>2. PICK row \in Entry :
            row = [fetched_at |-> ticks + 1, complete |-> complete, qa_status |-> status,
                   of |-> r, judge |-> judge]
    <2>1. ticks + 1 \in Nat
      BY <1>1
    <2>2. [fetched_at |-> ticks + 1, complete |-> complete, qa_status |-> status,
           of |-> r, judge |-> judge] \in Entry
      BY <2>1 DEF Entry
    <2> QED
      BY <2>2
  <1>3. log' = Append(log, row) /\ row.fetched_at = ticks + 1 /\ row.of = r
        /\ row.judge \in {r, NoRun}
    BY <1>2 DEF Logged
  <1>4. /\ log' \in Seq(Entry)
        /\ \A n \in DOMAIN log' : log'[n] = row \/ (n \in DOMAIN log /\ log'[n] = log[n])
    BY <1>1, <1>2, <1>3
  <1>5. Inside(row)'
    <2>1. WrittenInside(row)'
      BY <1>1, <1>3, Times DEF WrittenInside, Proceeds
    <2>2. JudgedInside(row)'
      BY <1>3 DEF JudgedInside
    <2> QED
      BY <2>1, <2>2 DEF Inside
  <1> QED
    BY <1>2, <1>4, <1>5, LogInv

\* A step that stamps the newest row: with a verdict, by a run that had started
\* when the row was written and is done now, or with "skipped".
LEMMA StampInv ==
    ASSUME GateInv, NEW r \in Runs, Proceeds(r), log # <<>>,
           NEW status \in Verdict \cup {Unjudged, "skipped"},
           log' = [log EXCEPT ![Len(log)].qa_status = status, ![Len(log)].judge = r],
           \/ status = "skipped"
           \/ /\ log[Len(log)].fetched_at >= run[r].started
              /\ run[r].step # "ready" /\ run'[r].step = "done"
    PROVE  GateInv'
  <1>1. log \in Seq(Entry) /\ Len(log) \in DOMAIN log
    BY DEF GateInv, GateShape
  <1>2. PICK last \in DOMAIN log : last = Len(log)
    BY <1>1
  <1>3. PICK old \in Entry : old = log[last] /\ Inside(old)
    BY RowOfLog
  <1>4. PICK row \in Entry :
            /\ row = [old EXCEPT !.qa_status = status, !.judge = r]
            /\ row.fetched_at = old.fetched_at /\ row.of = old.of
            /\ row.judge = r /\ row.qa_status = status
    <2> DEFINE row == [old EXCEPT !.qa_status = status, !.judge = r]
    <2>1. /\ row \in Entry
          /\ row.fetched_at = old.fetched_at /\ row.of = old.of
          /\ row.judge = r /\ row.qa_status = status
      BY DEF Entry
    <2> QED
      BY <2>1
  <1>5. log' = [log EXCEPT ![last] = row]
    BY <1>1, <1>2, <1>3, <1>4
  <1>6. log' \in Seq(Entry) /\ \A n \in DOMAIN log' : n \in DOMAIN log /\ log'[n] \in {log[n], row}
    <2>1. last \in 1 .. Len(log)
      BY <1>1
    <2>2. log' \in Seq(Entry)
      <3>1. log \in Seq(Entry)
        BY <1>1
      <3>2. [log EXCEPT ![last] = row] \in Seq(Entry)
        BY <2>1, <3>1, ExceptSeq, Zenon
      <3> QED
        BY <1>5, <3>2
    <2>3. \A n \in DOMAIN log : log'[n] \in {log[n], row}
      BY <1>5
    <2>4. DOMAIN log' = DOMAIN log
      BY <1>5
    <2> QED
      BY <2>2, <2>3, <2>4
  <1>7. Inside(row)'
    <2>1. Inside(old)' /\ old.fetched_at \in Nat /\ old.of \in Runs
      BY <1>3, RowStays DEF Entry
    <2>2. WrittenInside(row)'
      BY <1>4, <2>1 DEF Inside, WrittenInside
    <2>3. JudgedInside(row)'
      <3>1. CASE status = "skipped"
        BY <1>4, <3>1 DEF JudgedInside
      <3>2. CASE /\ old.fetched_at >= run[r].started
                 /\ run[r].step # "ready" /\ run'[r].step = "done"
        <4>1. old.fetched_at <= ticks
          BY <1>3 DEF Inside, WrittenInside
        <4> QED
          BY <1>4, <2>1, <3>2, <4>1, Times DEF JudgedInside, Proceeds
      <3> QED
        BY <1>2, <1>3, <3>1, <3>2
    <2> QED
      BY <2>2, <2>3 DEF Inside
  <1> QED
    BY <1>4, <1>6, <1>7, LogInv

\* A judgement is a verdict, and an error or none.
LEMMA JudgementKnown ==
    ASSUME NEW judgement \in Judgements
    PROVE  judgement.status \in Verdict \ {""} /\ judgement.stop \in Errors
  <1>1. PICK v : judgement = [status |-> QaStatus(v), stop |-> StopError(v)]
    BY DEF Judgements
  <1>2. QaStatus(v) \in Verdict \ {""} /\ StopError(v) \in Errors
    BY DEF QaStatus, StopError, Verdict, Errors
  <1> QED
    BY <1>1, <1>2

\* Each step of a run is a proceeding of it.
LEMMA StepProceeds ==
    ASSUME GateInv, NEW r \in Runs,
           \/ Start(r) \/ Stopped(r) \/ SkipQa(r) \/ Judge(r) \/ QaCrashes(r)
           \/ RecordQa(r) \/ QaUnrecorded(r) \/ Kill(r)
           \/ \E reason \in Reasons : Trip(r, reason)
           \/ \E complete \in BOOLEAN : Scraped(r, complete)
    PROVE  Proceeds(r)
  <1>1. ticks \in Nat /\ run \in [Runs -> Process]
    BY DEF GateInv, GateShape
  <1>2. run[r] \in Process
    BY <1>1
  <1>3. ticks' \in {ticks, ticks + 1} /\ ticks' \in Nat
    <2>1. CASE Start(r) \/ RecordQa(r) \/ \E complete \in BOOLEAN : Scraped(r, complete)
      <3>1. ticks' = ticks + 1 \/ ticks' = ticks
        BY <2>1 DEF Start, RecordQa, Scraped, Ticks
      <3> QED
        BY <1>1, <3>1
    <2>2. CASE \/ Stopped(r) \/ SkipQa(r) \/ Judge(r) \/ QaCrashes(r) \/ QaUnrecorded(r)
               \/ Kill(r) \/ \E reason \in Reasons : Trip(r, reason)
      BY <1>1, <2>2 DEF Stopped, SkipQa, Judge, QaCrashes, QaUnrecorded, Kill, Trip
    <2> QED
      BY <2>1, <2>2
  <1>4. ASSUME NEW process \in Process, run' = [run EXCEPT ![r] = process],
               run[r].step # "done", process.step # "ready",
               process.started = IF run[r].step = "ready" THEN ticks' ELSE run[r].started,
               process.step = "done" => process.ended = ticks', Onward(run[r], process)
        PROVE  Proceeds(r)
    BY <1>1, <1>3, <1>4 DEF Proceeds
  <1>5. ASSUME NEW error \in Errors, Ends(r, error), run[r].step \notin {"ready", "done"}
        PROVE  Proceeds(r)
    <2> DEFINE process == [run[r] EXCEPT !.step = "done", !.ended = ticks', !.error = error]
    <2>1. run' = [run EXCEPT ![r] = process]
      BY <1>1, <1>5 DEF Ends
    <2>2. process \in Process /\ process.step = "done" /\ process.ended = ticks'
          /\ process.started = run[r].started /\ Onward(run[r], process)
      BY <1>2, <1>3, <1>5 DEF Process, Onward
    <2> QED
      BY <1>4, <1>5, <2>1, <2>2
  <1>6. CASE Stopped(r) \/ SkipQa(r) \/ QaCrashes(r) \/ RecordQa(r) \/ QaUnrecorded(r) \/ Kill(r)
    <2>1. run[r].step \notin {"ready", "done"}
      BY <1>6 DEF Stopped, SkipQa, QaCrashes, RecordQa, QaUnrecorded, Kill, At
    <2>2. \E error \in Errors : Ends(r, error)
      BY <1>2, <1>6 DEF Stopped, SkipQa, QaCrashes, RecordQa, QaUnrecorded, Kill, Process, Errors
    <2> QED
      BY <1>5, <2>1, <2>2
  <1>7. CASE Start(r)
    <2> DEFINE process == [run[r] EXCEPT !.step = "scrape", !.started = ticks + 1]
    <2>1. run' = [run EXCEPT ![r] = process] /\ run[r].step = "ready" /\ ticks' = ticks + 1
      BY <1>1, <1>7 DEF Start, At, Ticks
    <2>2. ticks + 1 \in Nat
      BY <1>1
    <2>3. process \in Process /\ process.step = "scrape" /\ process.started = ticks + 1
          /\ Onward(run[r], process)
      BY <1>2, <2>1, <2>2 DEF Process, Onward
    <2> QED
      BY <1>4, <2>1, <2>3
  <1>8. ASSUME NEW reason \in Reasons, Trip(r, reason)
        PROVE  Proceeds(r)
    <2> DEFINE process == [run[r] EXCEPT !.reason = reason]
    <2>1. run' = [run EXCEPT ![r] = process] /\ run[r].step = "scrape"
      BY <1>1, <1>8 DEF Trip, At
    <2>2. process \in Process /\ process.step = "scrape" /\ process.started = run[r].started
          /\ Onward(run[r], process)
      BY <1>2, <2>1 DEF Process, Reasons, Onward
    <2> QED
      BY <1>4, <2>1, <2>2
  <1>9. ASSUME NEW complete \in BOOLEAN, Scraped(r, complete)
        PROVE  Proceeds(r)
    <2> DEFINE process == [run[r] EXCEPT !.step = "qa"]
    <2>1. run' = [run EXCEPT ![r] = process] /\ run[r].step = "scrape"
      BY <1>1, <1>9 DEF Scraped, At
    <2>2. process \in Process /\ process.step = "qa" /\ process.started = run[r].started
          /\ Onward(run[r], process)
      BY <1>2, <2>1 DEF Process, Onward
    <2> QED
      BY <1>4, <2>1, <2>2
  <1>10. CASE Judge(r)
    <2>1. PICK judgement \in Judgements :
              run' = [run EXCEPT ![r].step = "record", ![r].verdict = judgement.status,
                                 ![r].error = judgement.stop]
      BY <1>10 DEF Judge
    <2> DEFINE process == [run[r] EXCEPT !.step = "record", !.verdict = judgement.status,
                                         !.error = judgement.stop]
    <2>2. run' = [run EXCEPT ![r] = process] /\ run[r].step = "qa"
      BY <1>1, <1>10, <2>1 DEF Judge, At
    <2>3. process \in Process /\ process.step = "record" /\ process.started = run[r].started
          /\ Onward(run[r], process)
      BY <1>2, <2>2, JudgementKnown DEF Process, Onward
    <2> QED
      BY <1>4, <2>2, <2>3
  <1> QED
    BY <1>6, <1>7, <1>8, <1>9, <1>10

\* Each step of a run keeps the invariant.
LEMMA StepInv ==
    ASSUME GateInv, NEW r \in Runs,
           \/ Start(r) \/ Stopped(r) \/ SkipQa(r) \/ Judge(r) \/ QaCrashes(r)
           \/ RecordQa(r) \/ QaUnrecorded(r) \/ Kill(r)
           \/ \E reason \in Reasons : Trip(r, reason)
           \/ \E complete \in BOOLEAN : Scraped(r, complete)
    PROVE  GateInv'
  <1>1. Proceeds(r)
    BY StepProceeds
  <1>2. run[r] \in Process /\ run \in [Runs -> Process]
    BY DEF GateInv, GateShape
  <1>3. CASE Start(r) \/ Stopped(r) \/ Judge(r) \/ QaCrashes(r) \/ QaUnrecorded(r) \/ Kill(r)
             \/ \E reason \in Reasons : Trip(r, reason)
    <2>1. log' = log
      BY <1>3 DEF Start, Stopped, Judge, QaCrashes, QaUnrecorded, Kill, Trip
    <2> QED
      BY <1>1, <2>1, SameLogInv
  <1>4. ASSUME NEW complete \in BOOLEAN, Scraped(r, complete)
        PROVE  GateInv'
    <2>1. run[r].step # "ready"
      BY <1>4 DEF Scraped, At
    <2>2. CASE complete = FALSE
      BY <1>1, <1>4, <2>2, SameLogInv DEF Scraped
    <2>3. CASE complete = TRUE
      <3>1. ticks' = ticks + 1 /\ Logged(r, TRUE, Unjudged, NoRun)
        BY <1>4, <2>3 DEF Scraped, Ticks
      <3> QED
        BY <1>1, <2>1, <3>1, AppendInv
    <2> QED
      BY <2>2, <2>3
  <1>5. CASE SkipQa(r)
    <2>1. CASE log = <<>>
      BY <1>1, <1>5, <2>1, SameLogInv DEF SkipQa
    <2>2. CASE log # <<>>
      BY <1>1, <1>5, <2>2, StampInv DEF SkipQa
    <2> QED
      BY <2>1, <2>2
  <1>6. CASE RecordQa(r)
    <2>1. run[r].step = "record" /\ run'[r].step = "done" /\ run[r].verdict \in Verdict
      BY <1>2, <1>6 DEF RecordQa, At, Ends, Process
    <2>2. CASE OwnRow(r)
      BY <1>1, <1>6, <2>1, <2>2, StampInv DEF RecordQa, OwnRow
    <2>3. CASE ~OwnRow(r)
      <3>1. ticks' = ticks + 1 /\ Logged(r, FALSE, run[r].verdict, r)
        BY <1>6, <2>3 DEF RecordQa, Ticks
      <3> QED
        BY <1>1, <2>1, <3>1, AppendInv
    <2> QED
      BY <2>2, <2>3
  <1> QED
    BY <1>3, <1>4, <1>5, <1>6

\* Rows judged inside are rows of runs that overlapped.
LEMMA InsideOverlaps ==
    ASSUME GateInv
    PROVE  VerdictOfOwnRun
  <1> SUFFICES ASSUME NEW n \in DOMAIN log, log[n].judge \notin {NoRun, log[n].of},
                      log[n].qa_status # "skipped"
               PROVE  Overlapped(log[n].judge, log[n].of)
    BY DEF VerdictOfOwnRun
  <1>1. log[n] \in Entry /\ Inside(log[n])
    BY RowOfLog
  <1>2. /\ log[n].of \in Runs /\ log[n].judge \in Runs /\ log[n].fetched_at \in Nat
    BY <1>1 DEF Entry
  <1>3. \A r \in Runs : run[r].started \in Nat /\ run[r].ended \in Nat
    BY DEF GateInv, GateShape, Process
  <1>4. /\ run[log[n].of].started < log[n].fetched_at
        /\ run[log[n].of].step = "done" => log[n].fetched_at <= run[log[n].of].ended
        /\ run[log[n].judge].started <= log[n].fetched_at
        /\ log[n].fetched_at <= run[log[n].judge].ended
    BY <1>1 DEF Inside, WrittenInside, JudgedInside
  <1> QED
    BY <1>2, <1>3, <1>4 DEF Overlapped

-----------------------------------------------------------------------------

\* The invariant of the gate holds at first, and each step keeps it.
LEMMA GateInvInit == GateInit => GateInv
  <1> SUFFICES ASSUME GateInit PROVE GateInv
    OBVIOUS
  <1>1. ticks = 0 /\ log = <<>> /\ run = [r \in Runs |-> NewRun]
    BY DEF GateInit
  <1>2. NewRun \in Process /\ NewRun.started = 0
    BY DEF NewRun, Process, Verdict, Errors
  <1>3. log \in Seq(Entry) /\ DOMAIN log = {}
    BY <1>1
  <1> QED
    BY <1>1, <1>2, <1>3 DEF GateInv, GateShape, StartsPast

LEMMA GateInvNext == GateInv /\ [GateNext]_gateVars => GateInv'
  <1> SUFFICES ASSUME GateInv, [GateNext]_gateVars PROVE GateInv'
    OBVIOUS
  <1>1. CASE UNCHANGED gateVars
    BY <1>1 DEF gateVars, GateInv, GateShape, StartsPast, Inside, WrittenInside, JudgedInside
  <1> QED
    BY <1>1, StepInv DEF GateNext

\* l3_fetch_qa.py:496, for any number of runs and conversations and any sample: a
\* verdict stands on a row of its own run, or of one it overlapped with.
THEOREM OwnVerdict == GateSpec => []VerdictOfOwnRun
  <1>1. GateInv => VerdictOfOwnRun
    BY InsideOverlaps
  <1> QED
    BY <1>1, GateInvInit, GateInvNext, PTL DEF GateSpec

-----------------------------------------------------------------------------
(* The bounds of the gate.                                                 *)
(*                                                                         *)
(* A run takes a timestamp when it starts and with each row it inserts,    *)
(* and it inserts two rows at most: one on leaving the scrape, one on      *)
(* coming to its end.  So the runs that have come that far bound the rows, *)
(* and with the runs that have started, the timestamps.                    *)

\* The runs that are past some steps.
Past(steps) == {r \in Runs : run[r].step \notin steps}

HaveStarted == Past({"ready"})
HaveFetched == Past({"ready", "scrape"})
HaveEnded == Past({"ready", "scrape", "qa", "record"})

Counted == /\ ticks <= Cardinality(HaveStarted) + Len(log)
           /\ Len(log) <= Cardinality(HaveFetched) + Cardinality(HaveEnded)

RunsKnown == \A r \in Runs : /\ run[r].ended <= ticks
                             /\ run[r].step = "record" => run[r].verdict # ""

RowsKnown == \A n \in DOMAIN log : log[n].qa_status # ""

GateBounds == Counted /\ RunsKnown /\ RowsKnown /\ alerts \subseteq Runs

-----------------------------------------------------------------------------

\* The members of a set of runs are counted by numbers, more by more.
LEMMA RunsCount ==
    ASSUME NEW B \in SUBSET Runs, NEW A \in SUBSET B
    PROVE  /\ Cardinality(A) \in Nat /\ Cardinality(B) \in Nat
           /\ Cardinality(A) <= Cardinality(B)
           /\ A # B => Cardinality(A) + 1 <= Cardinality(B)
  <1>1. IsFiniteSet(A) /\ IsFiniteSet(B)
    BY GateAssumption, FS_Subset
  <1>2. Cardinality(A) \in Nat /\ Cardinality(B) \in Nat /\ Cardinality(A) <= Cardinality(B)
    BY <1>1, FS_CardinalityType, FS_Subset
  <1>3. A # B => Cardinality(A) # Cardinality(B)
    BY <1>1, FS_Subset
  <1> QED
    BY <1>2, <1>3

\* A run never goes back.
LEMMA GoesOn ==
    ASSUME GateInv, NEW r \in Runs, Proceeds(r)
    PROVE  /\ HaveStarted \subseteq HaveStarted' /\ HaveFetched \subseteq HaveFetched'
           /\ HaveEnded \subseteq HaveEnded'
  <1>1. /\ \A q \in Runs \ {r} : run'[q] = run[q]
        /\ run[r].step # "done" /\ run'[r].step # "ready"
        /\ run[r].step \in {"qa", "record"} => run'[r].step \in {"record", "done"}
    BY DEF Proceeds, Onward
  <1>2. run[r].step \in {"ready", "scrape", "qa", "record"}
    BY <1>1 DEF GateInv, GateShape, Process
  <1> QED
    BY <1>1, <1>2 DEF HaveStarted, HaveFetched, HaveEnded, Past

\* A step keeps the bounds.
LEMMA BoundsInv ==
    ASSUME GateInv, GateBounds, NEW r \in Runs,
           \/ Start(r) \/ Stopped(r) \/ SkipQa(r) \/ Judge(r) \/ QaCrashes(r)
           \/ RecordQa(r) \/ QaUnrecorded(r) \/ Kill(r)
           \/ \E reason \in Reasons : Trip(r, reason)
           \/ \E complete \in BOOLEAN : Scraped(r, complete)
    PROVE  GateBounds'
  <1>1. Proceeds(r)
    BY StepProceeds
  <1>2. /\ run \in [Runs -> Process] /\ run[r] \in Process /\ log \in Seq(Entry)
        /\ ticks \in Nat /\ Len(log) \in Nat
    BY DEF GateInv, GateShape
  <1>3. /\ HaveStarted \subseteq HaveStarted' /\ HaveFetched \subseteq HaveFetched'
        /\ HaveEnded \subseteq HaveEnded'
    BY <1>1, GoesOn
  <1>4. /\ HaveStarted' \subseteq Runs /\ HaveFetched' \subseteq Runs /\ HaveEnded' \subseteq Runs
    BY DEF HaveStarted, HaveFetched, HaveEnded, Past
  <1>5. /\ Cardinality(HaveStarted) \in Nat /\ Cardinality(HaveStarted') \in Nat
        /\ Cardinality(HaveStarted) <= Cardinality(HaveStarted')
        /\ HaveStarted # HaveStarted' => Cardinality(HaveStarted) + 1 <= Cardinality(HaveStarted')
        /\ Cardinality(HaveFetched) \in Nat /\ Cardinality(HaveFetched') \in Nat
        /\ Cardinality(HaveFetched) <= Cardinality(HaveFetched')
        /\ HaveFetched # HaveFetched' => Cardinality(HaveFetched) + 1 <= Cardinality(HaveFetched')
        /\ Cardinality(HaveEnded) \in Nat /\ Cardinality(HaveEnded') \in Nat
        /\ Cardinality(HaveEnded) <= Cardinality(HaveEnded')
        /\ HaveEnded # HaveEnded' => Cardinality(HaveEnded) + 1 <= Cardinality(HaveEnded')
    BY <1>3, <1>4, RunsCount
  <1>6. \/ ticks' = ticks /\ Len(log') = Len(log)
        \/ ticks' = ticks + 1 /\ Len(log') = Len(log) /\ HaveStarted # HaveStarted'
        \/ /\ ticks' = ticks + 1 /\ Len(log') = Len(log) + 1
           /\ HaveFetched # HaveFetched' \/ HaveEnded # HaveEnded'
    <2>1. CASE Stopped(r) \/ Judge(r) \/ QaCrashes(r) \/ QaUnrecorded(r) \/ Kill(r)
               \/ \E reason \in Reasons : Trip(r, reason)
      BY <2>1 DEF Stopped, Judge, QaCrashes, QaUnrecorded, Kill, Trip
    <2>2. CASE Start(r)
      <3>1. r \notin HaveStarted /\ r \in HaveStarted'
        BY <1>2, <2>2 DEF Start, At, HaveStarted, Past
      <3> QED
        BY <2>2, <3>1 DEF Start, Ticks
    <2>3. CASE SkipQa(r)
      <3>1. log' = log \/ log' = [log EXCEPT ![Len(log)].qa_status = "skipped",
                                             ![Len(log)].judge = r]
        BY <2>3 DEF SkipQa
      <3>2. Len(log') = Len(log)
        BY <1>2, <3>1
      <3> QED
        BY <2>3, <3>2 DEF SkipQa
    <2>4. ASSUME NEW complete \in BOOLEAN, Scraped(r, complete)
          PROVE  \/ ticks' = ticks /\ Len(log') = Len(log)
                 \/ ticks' = ticks + 1 /\ Len(log') = Len(log) + 1 /\ HaveFetched # HaveFetched'
      <3>1. run[r].step = "scrape" /\ run'[r].step = "qa"
        <4>1. run[r].step = "scrape" /\ run' = [run EXCEPT ![r].step = "qa"]
          BY <2>4 DEF Scraped, At
        <4> QED
          BY <1>2, <4>1 DEF Process
      <3>2. r \notin HaveFetched /\ r \in HaveFetched'
        BY <3>1 DEF HaveFetched, Past
      <3>3. CASE complete
        <4>1. ticks' = ticks + 1 /\ Logged(r, TRUE, Unjudged, NoRun)
          BY <2>4, <3>3 DEF Scraped, Ticks
        <4> QED
          BY <1>2, <3>2, <4>1 DEF Logged
      <3>4. CASE ~complete
        BY <2>4, <3>4 DEF Scraped
      <3> QED
        BY <3>3, <3>4
    <2>5. CASE RecordQa(r)
      <3>1. r \notin HaveEnded /\ r \in HaveEnded'
        BY <1>2, <2>5 DEF RecordQa, At, Ends, HaveEnded, Past
      <3>2. CASE OwnRow(r)
        <4>1. ticks' = ticks /\ log' = [log EXCEPT ![Len(log)].qa_status = run[r].verdict,
                                                   ![Len(log)].judge = r]
          BY <2>5, <3>2 DEF RecordQa
        <4> QED
          BY <1>2, <4>1
      <3>3. CASE ~OwnRow(r)
        BY <1>2, <2>5, <3>1, <3>3 DEF RecordQa, Ticks, Logged
      <3> QED
        BY <3>2, <3>3
    <2> QED
      BY <2>1, <2>2, <2>3, <2>4, <2>5
  <1>7. Counted'
    <2>1. ticks' \in Nat /\ Len(log') \in Nat
      BY <1>2, <1>6
    <2>2. /\ ticks <= Cardinality(HaveStarted) + Len(log)
          /\ Len(log) <= Cardinality(HaveFetched) + Cardinality(HaveEnded)
      BY DEF GateBounds, Counted
    <2>3. ticks' <= Cardinality(HaveStarted') + Len(log')
      BY <1>2, <1>5, <1>6, <2>1, <2>2
    <2>4. Len(log') <= Cardinality(HaveFetched') + Cardinality(HaveEnded')
      BY <1>2, <1>5, <1>6, <2>1, <2>2
    <2> QED
      BY <2>3, <2>4 DEF Counted
  <1>8. RunsKnown'
    <2>1. \A q \in Runs : run[q].ended \in Nat /\ run[q].ended <= ticks
      BY <1>2 DEF Process, GateBounds, RunsKnown
    <2>2. ticks' \in Nat /\ ticks <= ticks'
      BY <1>1, Times
    <2>3. ASSUME NEW q \in Runs
          PROVE  /\ run'[q].ended <= ticks'
                 /\ run'[q].step = "record" => run'[q].verdict # ""
      <3>1. CASE q = r
        <4>1. run'[q].ended \in {run[q].ended, ticks'}
          BY <1>1, <3>1 DEF Proceeds, Onward
        <4>2. run'[q].step = "record" => run'[q].verdict # ""
          BY <1>1, <3>1 DEF Proceeds, Onward
        <4>3. run'[q].ended <= ticks'
          BY <1>2, <2>1, <2>2, <4>1
        <4> QED
          BY <4>2, <4>3
      <3>2. CASE q # r
        <4>1. run'[q] = run[q]
          BY <1>1, <3>2 DEF Proceeds
        <4>2. run'[q].step = "record" => run'[q].verdict # ""
          BY <4>1 DEF GateBounds, RunsKnown
        <4>3. run'[q].ended = run[q].ended
          BY <4>1
        <4>4. run'[q].ended <= ticks'
          BY <1>2, <2>1, <2>2, <4>3
        <4> QED
          BY <4>2, <4>4
      <3> QED
        BY <3>1, <3>2
    <2> QED
      BY <2>3 DEF RunsKnown
  <1>9. RowsKnown'
    <2>1. \A n \in DOMAIN log : log[n] \in Entry /\ log[n].qa_status # ""
      <3>1. \A n \in DOMAIN log : log[n] \in Entry
        BY <1>2
      <3> QED
        BY <3>1 DEF GateBounds, RowsKnown
    <2>2. CASE log' = log
      BY <2>1, <2>2 DEF RowsKnown
    <2>3. ASSUME NEW status, status # "", log # <<>>,
                 log' = [log EXCEPT ![Len(log)].qa_status = status, ![Len(log)].judge = r]
          PROVE  RowsKnown'
      <3>1. DOMAIN log' = DOMAIN log
        BY <1>2, <2>3
      <3>2. \A n \in DOMAIN log : log'[n].qa_status \in {log[n].qa_status, status}
        BY <1>2, <2>1, <2>3 DEF Entry
      <3> QED
        BY <2>1, <2>3, <3>1, <3>2 DEF RowsKnown
    <2>4. ASSUME NEW complete, NEW status, NEW judge, status # "",
                 Logged(r, complete, status, judge)
          PROVE  RowsKnown'
      <3> DEFINE row == [fetched_at |-> ticks + 1, complete |-> complete, qa_status |-> status,
                         of |-> r, judge |-> judge]
      <3>1. row.qa_status = status /\ log' = Append(log, row)
        BY <2>4 DEF Logged
      <3> HIDE DEF row
      <3>2. \A n \in DOMAIN log' : log'[n] = row \/ (n \in DOMAIN log /\ log'[n] = log[n])
        BY <1>2, <3>1
      <3> QED
        BY <2>1, <2>4, <3>1, <3>2 DEF RowsKnown
    <2>5. CASE SkipQa(r)
      BY <2>2, <2>3, <2>5 DEF SkipQa
    <2>6. ASSUME NEW complete \in BOOLEAN, Scraped(r, complete)
          PROVE  RowsKnown'
      BY <2>2, <2>4, <2>6 DEF Scraped, Unjudged
    <2>7. CASE RecordQa(r)
      <3>1. run[r].verdict # ""
        BY <2>7 DEF RecordQa, At, GateBounds, RunsKnown
      <3> QED
        BY <2>3, <2>4, <2>7, <3>1 DEF RecordQa, OwnRow
    <2>8. CASE Start(r) \/ Stopped(r) \/ Judge(r) \/ QaCrashes(r) \/ QaUnrecorded(r) \/ Kill(r)
               \/ \E reason \in Reasons : Trip(r, reason)
      BY <2>2, <2>8 DEF Start, Stopped, Judge, QaCrashes, QaUnrecorded, Kill, Trip
    <2> QED
      BY <2>5, <2>6, <2>7, <2>8
  <1>10. alerts' \subseteq Runs
    <2>1. alerts \subseteq Runs
      BY DEF GateBounds
    <2> QED
      BY <2>1 DEF Start, Stopped, SkipQa, Judge, QaCrashes, RecordQa, QaUnrecorded, Kill, Trip,
                  Scraped
  <1> QED
    BY <1>7, <1>8, <1>9, <1>10 DEF GateBounds

\* What the gate keeps: the times, and the bounds.
GateKept == GateInv /\ GateBounds

LEMMA GateKeptInit == GateInit => GateKept
  <1> SUFFICES ASSUME GateInit PROVE GateKept
    OBVIOUS
  <1>1. ticks = 0 /\ log = <<>> /\ alerts = {} /\ run = [r \in Runs |-> NewRun]
    BY DEF GateInit
  <1>2. NewRun.ended = 0 /\ NewRun.step = "ready"
    BY DEF NewRun
  <1>3. DOMAIN log = {} /\ Len(log) = 0
    BY <1>1
  <1>4. GateInv
    BY GateInvInit
  <1>5. /\ HaveStarted \in SUBSET Runs /\ HaveFetched \in SUBSET Runs /\ HaveEnded \in SUBSET Runs
    BY DEF HaveStarted, HaveFetched, HaveEnded, Past
  <1>6. /\ Cardinality(HaveStarted) \in Nat /\ Cardinality(HaveFetched) \in Nat
        /\ Cardinality(HaveEnded) \in Nat
    BY <1>5, RunsCount
  <1>7. GateBounds
    <2>1. Counted
      BY <1>1, <1>3, <1>6 DEF Counted
    <2>2. RunsKnown
      <3>1. \A r \in Runs : run[r] = NewRun
        BY <1>1
      <3>2. \A r \in Runs : run[r].ended <= ticks
        BY <1>1, <1>2, <3>1
      <3>3. \A r \in Runs : run[r].step # "record"
        BY <1>2, <3>1
      <3> QED
        BY <3>2, <3>3 DEF RunsKnown
    <2>3. RowsKnown
      BY <1>3 DEF RowsKnown
    <2> QED
      BY <1>1, <2>1, <2>2, <2>3 DEF GateBounds
  <1> QED
    BY <1>4, <1>7 DEF GateKept

LEMMA GateKeptNext == GateKept /\ [GateNext]_gateVars => GateKept'
  <1> SUFFICES ASSUME GateKept, [GateNext]_gateVars PROVE GateKept'
    OBVIOUS
  <1>1. CASE UNCHANGED gateVars
    BY <1>1 DEF gateVars, GateKept, GateInv, GateShape, StartsPast, Inside, WrittenInside,
                JudgedInside, GateBounds, Counted, RunsKnown, RowsKnown, HaveStarted, HaveFetched,
                HaveEnded, Past
  <1>2. CASE GateNext
    <2>1. GateInv /\ GateBounds
      BY DEF GateKept
    <2>2. PICK r \in Runs :
              \/ Start(r) \/ Stopped(r) \/ SkipQa(r) \/ Judge(r) \/ QaCrashes(r)
              \/ RecordQa(r) \/ QaUnrecorded(r) \/ Kill(r)
              \/ \E reason \in Reasons : Trip(r, reason)
              \/ \E complete \in BOOLEAN : Scraped(r, complete)
      BY <1>2 DEF GateNext
    <2> QED
      BY <2>1, <2>2, StepInv, BoundsInv DEF GateKept
  <1> QED
    BY <1>1, <1>2

\* What is kept has the shape it should.
LEMMA GateTypes == GateKept => GateTypeOK
  <1> SUFFICES ASSUME GateKept PROVE GateTypeOK
    OBVIOUS
  <1>1. /\ run \in [Runs -> Process] /\ log \in Seq(Entry) /\ ticks \in Nat
        /\ Len(log) \in Nat
    BY DEF GateKept, GateInv, GateShape
  <1>2. /\ HaveStarted \in SUBSET Runs /\ HaveFetched \in SUBSET Runs /\ HaveEnded \in SUBSET Runs
    BY DEF HaveStarted, HaveFetched, HaveEnded, Past
  <1>3. /\ Cardinality(HaveStarted) \in Nat /\ Cardinality(HaveFetched) \in Nat
        /\ Cardinality(HaveEnded) \in Nat /\ Cardinality(Runs) \in Nat
        /\ Cardinality(HaveStarted) <= Cardinality(Runs)
        /\ Cardinality(HaveFetched) <= Cardinality(Runs)
        /\ Cardinality(HaveEnded) <= Cardinality(Runs)
    BY <1>2, RunsCount
  <1>4. Len(log) <= 2 * Cardinality(Runs) /\ ticks <= 3 * Cardinality(Runs)
    BY <1>1, <1>3 DEF GateKept, GateBounds, Counted
  <1>5. ASSUME NEW n \in DOMAIN log
        PROVE  log[n] \in LogRow
    <2>1. log[n] \in Entry /\ WrittenInside(log[n]) /\ log[n].qa_status # ""
      BY RowOfLog DEF GateKept, Inside, GateBounds, RowsKnown
    <2>2. log[n].fetched_at \in 1 .. MaxTicks
      <3>1. log[n].of \in Runs /\ log[n].fetched_at \in Nat
        BY <2>1 DEF Entry
      <3>2. run[log[n].of].started \in Nat
        BY <1>1, <3>1 DEF Process
      <3>3. /\ run[log[n].of].started < log[n].fetched_at
            /\ log[n].fetched_at <= ticks
        BY <2>1 DEF WrittenInside
      <3>4. 1 <= log[n].fetched_at /\ log[n].fetched_at <= 3 * Cardinality(Runs)
        BY <1>1, <1>3, <1>4, <3>1, <3>2, <3>3
      <3> QED
        BY <1>3, <3>1, <3>4 DEF MaxTicks
    <2> QED
      BY <2>1, <2>2 DEF Entry, LogRow, Verdict
  <1>6. ASSUME NEW r \in Runs
        PROVE  run[r].started \in 0 .. ticks /\ run[r].ended \in 0 .. ticks
    <2>1. run[r].started \in Nat /\ run[r].ended \in Nat
      BY <1>1 DEF Process
    <2>2. run[r].started <= ticks /\ run[r].ended <= ticks
      BY DEF GateKept, GateInv, StartsPast, GateBounds, RunsKnown
    <2> QED
      BY <1>1, <2>1, <2>2
  <1>7. \A r \in Runs : run[r] \in Process
    BY <1>1
  <1>8. alerts \subseteq Runs /\ ticks \in 0 .. MaxTicks
    BY <1>1, <1>3, <1>4 DEF GateKept, GateBounds, MaxTicks
  <1> QED
    BY <1>4, <1>5, <1>6, <1>7, <1>8 DEF GateTypeOK, Process, Verdict, Errors

-----------------------------------------------------------------------------
(* What leaves the review of a draft, for any budget of calls and repairs. *)
(*                                                                         *)
(* OnlyReviewedLeaves needs to know what a PASS in the session state is    *)
(* worth before it is used: it is of the newest draft, or shows as `late`; *)
(* and where the order of the specialists is fixed and no PASS is          *)
(* corrected, there is none before the review, and then of the newest.     *)

CareSteps == {"analyst", "librarian", "compose", "review", "decide"}

ReviewShape ==
    /\ drafts \in Seq(DraftKinds)
    /\ step = "loop" => pipeline = "inbox"
    /\ step \in CareSteps => pipeline \in Purposes
    /\ result.reply_text # NoText => step = "done"

PassKnown == verdict = "PASS" /\ Draft > 0 => late \/ Draft \in passed

PassInOrder ==
    pipeline \in {"warmup", "event"} =>
        /\ step \in CareSteps \ {"decide"} => verdict # "PASS"
        /\ verdict = "PASS" /\ Draft > 0 => Draft \in passed

ReviewInv == ReviewShape /\ PassKnown /\ PassInOrder /\ OnlyReviewedLeaves

-----------------------------------------------------------------------------

\* The newest draft is one.
LEMMA NewestDraft ==
    ASSUME drafts \in Seq(DraftKinds)
    PROVE  Draft \in Nat /\ (Draft > 0 => drafts[Draft] \in DraftKinds)
  BY DEF Draft

\* So is what the composer adds.
LEMMA OneMore ==
    ASSUME drafts \in Seq(DraftKinds), NEW kind \in DraftKinds
    PROVE  Append(drafts, kind) \in Seq(DraftKinds)
  OBVIOUS

\* A specialist's step that ends nothing: silent, a draft, or a verdict of the
\* newest draft.
LEMMA SpecialistInv ==
    ASSUME ReviewInv, UNCHANGED <<pipeline, result>>, result.reply_text = NoText,
           \/ UNCHANGED <<drafts, verdict, passed, late>>
           \/ (\E kind \in DraftKinds : Composed(kind)) /\ step \in {"loop", "compose"}
           \/ \E answer \in Answers \ {""} : Reviewed(answer),
           \/ step = "loop" /\ step' = "loop"
           \/ /\ {step, step'} \subseteq CareSteps \ {"decide"}
              /\ verdict' = verdict
           \/ step = "review" /\ step' = "decide"
    PROVE  ReviewInv'
  <1>1. /\ drafts \in Seq(DraftKinds) /\ Draft \in Nat
        /\ step = "loop" => pipeline = "inbox"
        /\ step \in CareSteps => pipeline \in Purposes
    BY NewestDraft DEF ReviewInv, ReviewShape
  <1>2. drafts' \in Seq(DraftKinds) /\ (drafts' = drafts \/ late')
    <2>1. ASSUME NEW kind \in DraftKinds, Composed(kind)
          PROVE  drafts' \in Seq(DraftKinds) /\ late'
      <3>1. Append(drafts, kind) \in Seq(DraftKinds)
        BY <1>1, OneMore
      <3> QED
        BY <2>1, <3>1 DEF Composed
    <2> QED
      BY <1>1, <2>1 DEF Reviewed
  <1>3. ReviewShape'
    BY <1>1, <1>2 DEF ReviewShape, CareSteps
  <1>4. PassKnown'
    <2>1. CASE UNCHANGED <<drafts, verdict, passed, late>>
      BY <2>1 DEF ReviewInv, PassKnown, Draft
    <2>2. CASE \E kind \in DraftKinds : Composed(kind)
      BY <2>2 DEF PassKnown, Composed
    <2>3. CASE \E answer \in Answers \ {""} : Reviewed(answer)
      BY <1>1, <2>3 DEF PassKnown, Reviewed, Draft
    <2> QED
      BY <2>1, <2>2, <2>3
  <1>5. PassInOrder'
    <2> SUFFICES ASSUME pipeline \in {"warmup", "event"}
                 PROVE  /\ step' \in CareSteps \ {"decide"} => verdict' # "PASS"
                        /\ verdict' = "PASS" /\ Draft' > 0 => Draft' \in passed'
      BY DEF PassInOrder
    <2>1. step \in CareSteps
      BY <1>1 DEF CareSteps
    <2>2. /\ step # "decide" => verdict # "PASS"
          /\ verdict = "PASS" /\ Draft > 0 => Draft \in passed
      BY <2>1 DEF ReviewInv, PassInOrder
    <2>3. CASE UNCHANGED <<drafts, verdict, passed, late>>
      BY <2>1, <2>2, <2>3 DEF Draft, CareSteps
    <2>4. CASE (\E kind \in DraftKinds : Composed(kind)) /\ step \in {"loop", "compose"}
      BY <2>1, <2>2, <2>4 DEF Composed, CareSteps
    <2>5. CASE \E answer \in Answers \ {""} : Reviewed(answer)
      BY <1>1, <2>1, <2>2, <2>5 DEF Reviewed, Draft, CareSteps
    <2> QED
      BY <2>3, <2>4, <2>5
  <1>6. OnlyReviewedLeaves'
    BY DEF OnlyReviewedLeaves
  <1> QED
    BY <1>3, <1>4, <1>5, <1>6 DEF ReviewInv

\* A step that ends the work with a text that is allowed to leave, or with none,
\* or goes on to another attempt.
LEMMA EndInv ==
    ASSUME ReviewInv, UNCHANGED <<pipeline, drafts, verdict, passed, late>>,
           \/ step' = "done" /\ OnlyReviewedLeaves'
           \/ /\ step \in CareSteps /\ step' \in CareSteps \ {"decide"}
              /\ pipeline \in {"warmup", "event"} => verdict # "PASS"
              /\ result' = result /\ result.reply_text = NoText
    PROVE  ReviewInv'
  <1>1. ReviewShape'
    BY DEF ReviewInv, ReviewShape, CareSteps
  <1>2. PassKnown' /\ PassInOrder'
    BY DEF ReviewInv, PassKnown, PassInOrder, Draft, CareSteps
  <1>3. OnlyReviewedLeaves'
    BY DEF OnlyReviewedLeaves
  <1> QED
    BY <1>1, <1>2, <1>3 DEF ReviewInv

\* Ending without a text lets nothing leave.
LEMMA NothingLeaves ==
    ASSUME NEW outcome, EndsWith(outcome, NoText)
    PROVE  step' = "done" /\ OnlyReviewedLeaves'
  BY DEF EndsWith, OnlyReviewedLeaves

\* _approved_draft lets only the newest draft leave, and on a PASS only.
LEMMA ConcludesSound ==
    ASSUME ReviewInv, UNCHANGED <<pipeline, drafts, verdict, passed, late>>,
           NEW final, Concludes(final), pipeline \in {"inbox"} \cup Purposes,
           pipeline = "class_reminder" => ~Corrected
    PROVE  step' = "done" /\ OnlyReviewedLeaves'
  <1>1. /\ step' = "done" /\ result'.reply_text = Approved(final)
    BY DEF Concludes, EndsWith
  <1>2. CASE Approved(final) = NoText
    BY <1>1, <1>2 DEF OnlyReviewedLeaves
  <1>3. CASE Approved(final) # NoText
    <2>1. Draft \in Nat /\ (Draft > 0 => drafts[Draft] \in DraftKinds)
      BY NewestDraft DEF ReviewInv, ReviewShape
    <2>2. /\ verdict = "PASS" /\ Draft > 0 /\ Approved(final) = Draft
          /\ drafts[Draft] # "unsafe"
      BY <1>3, <2>1 DEF Approved, NoText
    <2>3. Draft \in passed \/ (late /\ pipeline \in {"inbox", "class_reminder"})
      BY <2>2 DEF ReviewInv, PassKnown, PassInOrder, Purposes
    <2>4. pipeline = "class_reminder" => drafts[Draft] = "fit"
      BY <2>1, <2>2 DEF Corrected, DraftKinds
    <2>5. Draft' = Draft
      BY DEF Draft
    <2> QED
      BY <1>1, <2>2, <2>3, <2>4, <2>5 DEF OnlyReviewedLeaves
  <1> QED
    BY <1>2, <1>3

\* The inbox pipeline.
LEMMA InboxInv ==
    ASSUME ReviewInv, CallComposer \/ CallReviewer \/ CallOther \/ FinalTurn
    PROVE  ReviewInv'
  <1>1. step = "loop" /\ pipeline = "inbox" /\ result.reply_text = NoText
    BY DEF ReviewInv, ReviewShape, CallComposer, CallReviewer, CallOther, Call, FinalTurn
  <1>2. CASE CallComposer \/ CallReviewer \/ CallOther
    BY <1>1, <1>2, SpecialistInv DEF CallComposer, CallReviewer, CallOther, Call, Silent
  <1>3. CASE FinalTurn
    <2>1. UNCHANGED <<pipeline, drafts, verdict, passed, late>>
      BY <1>3 DEF FinalTurn
    <2>2. EndsWith("escalated", NoText) \/ \E final : Concludes(final)
      BY <1>3 DEF FinalTurn
    <2>3. step' = "done" /\ OnlyReviewedLeaves'
      BY <1>1, <2>1, <2>2, NothingLeaves, ConcludesSound
    <2> QED
      BY <2>1, <2>3, EndInv
  <1> QED
    BY <1>2, <1>3

\* The care pipeline.
LEMMA CareInv ==
    ASSUME ReviewInv, Analyst \/ Librarian \/ Compose \/ Review \/ Settle \/ Fails
    PROVE  ReviewInv'
  <1>1. step \in CareSteps /\ pipeline \in Purposes /\ result.reply_text = NoText
    BY DEF ReviewInv, ReviewShape, Analyst, Librarian, Compose, Review, Settle, Fails, Moves,
           CareSteps
  <1>2. CASE Librarian \/ Compose
    BY <1>1, <1>2, SpecialistInv DEF Librarian, Compose, Moves, Silent, Composed, CareSteps
  <1>3. CASE Review
    BY <1>1, <1>3, SpecialistInv DEF Review, Moves, Silent
  <1>4. CASE Analyst
    <2>1. UNCHANGED <<pipeline, drafts, verdict, passed, late>>
      BY <1>4 DEF Analyst
    <2>2. CASE EndsWith("no_send", NoText)
      BY <2>1, <2>2, NothingLeaves, EndInv
    <2>3. CASE step' = "librarian" /\ UNCHANGED result
      BY <1>1, <1>4, <2>1, <2>3, SpecialistInv DEF Analyst, CareSteps
    <2> QED
      BY <1>4, <2>2, <2>3 DEF Analyst
  <1>5. CASE Fails
    BY <1>5, NothingLeaves, EndInv DEF Fails
  <1>6. CASE Settle
    <2>1. UNCHANGED <<pipeline, drafts, verdict, passed, late>> /\ step = "decide"
      BY <1>6 DEF Settle
    <2>2. \/ Effective = "PASS" /\ Concludes(NoText)
          \/ \E outcome : EndsWith(outcome, NoText)
          \/ Effective = "REPAIR" /\ step' = "compose" /\ UNCHANGED result
      BY <1>6 DEF Settle
    <2>3. CASE Effective = "PASS" /\ Concludes(NoText)
      <3>1. ~Corrected
        BY <2>3 DEF Effective
      <3> QED
        BY <1>1, <2>1, <2>3, <3>1, ConcludesSound, EndInv
    <2>4. CASE \E outcome : EndsWith(outcome, NoText)
      BY <2>1, <2>4, NothingLeaves, EndInv
    <2>5. CASE Effective = "REPAIR" /\ step' = "compose" /\ UNCHANGED result
      <3>1. pipeline \in {"warmup", "event"} => verdict # "PASS"
        BY <2>5 DEF Effective, Corrected
      <3> QED
        BY <1>1, <2>1, <2>5, <3>1, EndInv DEF CareSteps
    <2> QED
      BY <2>2, <2>3, <2>4, <2>5
  <1> QED
    BY <1>2, <1>3, <1>4, <1>5, <1>6

\* The invariant of the review holds at first, and each step keeps it.
LEMMA ReviewInvInit == ReviewInit => ReviewInv
  <1> SUFFICES ASSUME ReviewInit PROVE ReviewInv
    OBVIOUS
  <1>1. /\ drafts = <<>> /\ verdict = "" /\ result.reply_text = NoText
        /\ pipeline \in {"inbox"} \cup Purposes
        /\ step = IF pipeline = "inbox" THEN "loop" ELSE "analyst"
    BY DEF ReviewInit, Pending
  <1>2. <<>> \in Seq(DraftKinds)
    OBVIOUS
  <1>3. ReviewShape
    BY <1>1, <1>2 DEF ReviewShape, CareSteps, Purposes
  <1>4. PassKnown /\ PassInOrder /\ OnlyReviewedLeaves
    BY <1>1 DEF PassKnown, PassInOrder, OnlyReviewedLeaves
  <1> QED
    BY <1>3, <1>4 DEF ReviewInv

LEMMA ReviewInvNext == ReviewInv /\ [ReviewNext]_reviewVars => ReviewInv'
  <1> SUFFICES ASSUME ReviewInv, [ReviewNext]_reviewVars PROVE ReviewInv'
    OBVIOUS
  <1>1. CASE UNCHANGED reviewVars
    BY <1>1 DEF reviewVars, ReviewInv, ReviewShape, PassKnown, PassInOrder,
                OnlyReviewedLeaves, Draft
  <1> QED
    BY <1>1, InboxInv, CareInv DEF ReviewNext

-----------------------------------------------------------------------------

\* l5_inbox_mas_pipeline.py:125-126, for any budget: what leaves is the newest
\* draft, never unsafe, never a reminder with a known failure, and QA passed it
\* but for the two ways around that show as `late`.
THEOREM OnlyReviewed == ReviewSpec => []OnlyReviewedLeaves
  <1>1. ReviewInv => OnlyReviewedLeaves
    BY DEF ReviewInv
  <1> QED
    BY <1>1, ReviewInvInit, ReviewInvNext, PTL DEF ReviewSpec

-----------------------------------------------------------------------------
(* The bounds of a review: the budget of calls, and the attempts of the    *)
(* repair loop, bound the drafts there can be.                             *)

Outcomes == {"pending", "approved", "rejected", "no_send", "escalated", "invalid_result"}

ReviewKnown ==
    /\ pipeline \in {"inbox"} \cup Purposes
    /\ step \in CareSteps \cup {"loop", "done"}
    /\ verdict \in Answers
    /\ passed \subseteq 1 .. Draft
    /\ result.reply_text \in 0 .. Draft /\ result.outcome \in Outcomes

DraftsBounded ==
    /\ loops \in Nat
    /\ pipeline = "inbox" => Draft <= loops /\ loops <= MaxLoops
    /\ pipeline \in Purposes =>
          /\ loops < MaxAttempts /\ Draft <= loops + 1
          /\ step \in {"analyst", "librarian", "compose"} => Draft <= loops

ReviewKept == ReviewInv /\ ReviewKnown /\ DraftsBounded /\ late \in BOOLEAN

-----------------------------------------------------------------------------

\* What a specialist does to the drafts and what is known of them.
SpecialistAnswers == \/ Silent
                     \/ \E kind \in DraftKinds : Composed(kind)
                     \/ \E answer \in Answers \ {""} : Reviewed(answer)

LEMMA SpecialistTypes ==
    ASSUME drafts \in Seq(DraftKinds), verdict \in Answers, passed \subseteq 1 .. Draft,
           SpecialistAnswers
    PROVE  /\ verdict' \in Answers /\ passed' \subseteq 1 .. Draft'
           /\ Draft' \in Nat /\ Draft <= Draft' /\ Draft' <= Draft + 1
  <1>1. Draft \in Nat
    BY NewestDraft
  <1>2. CASE Silent
    BY <1>1, <1>2 DEF Silent, Draft
  <1>3. CASE \E kind \in DraftKinds : Composed(kind)
    <2>1. PICK kind \in DraftKinds :
              drafts' = Append(drafts, kind) /\ verdict' = verdict /\ passed' = passed
      BY <1>3 DEF Composed
    <2>2. Draft' = Draft + 1
      BY <2>1 DEF Draft
    <2>3. passed' \subseteq 1 .. Draft'
      BY <1>1, <2>1, <2>2
    <2> QED
      BY <1>1, <2>1, <2>2, <2>3
  <1>4. CASE \E answer \in Answers \ {""} : Reviewed(answer)
    <2>1. verdict' \in Answers /\ drafts' = drafts
          /\ (passed' = passed \/ (Draft > 0 /\ passed' = passed \cup {Draft}))
      BY <1>4, Zenon DEF Reviewed
    <2>2. Draft' = Draft
      BY <2>1 DEF Draft
    <2>3. passed' \subseteq 1 .. Draft
      <3>1. passed' = passed => passed' \subseteq 1 .. Draft
        OBVIOUS
      <3>2. Draft > 0 /\ passed' = passed \cup {Draft} => passed' \subseteq 1 .. Draft
        BY <1>1
      <3> QED
        BY <2>1, <3>1, <3>2, Zenon
    <2> QED
      BY <1>1, <2>1, <2>2, <2>3
  <1> QED
    BY <1>2, <1>3, <1>4 DEF SpecialistAnswers

\* `late` is one of two.
LEMMA LateType ==
    ASSUME late \in BOOLEAN, [ReviewNext]_reviewVars
    PROVE  late' \in BOOLEAN
  <1>1. late' \in {late, TRUE, FALSE}
    <2>1. CASE UNCHANGED reviewVars
      BY <2>1 DEF reviewVars
    <2>2. CASE CallComposer \/ CallReviewer \/ CallOther
      BY <2>2, Zenon DEF CallComposer, CallReviewer, CallOther, Silent, Composed, Reviewed
    <2>3. CASE Compose \/ Review
      BY <2>3, Zenon DEF Compose, Review, Silent, Composed, Reviewed
    <2>4. CASE FinalTurn \/ Analyst \/ Librarian \/ Settle \/ Fails
      BY <2>4, Zenon DEF FinalTurn, Analyst, Librarian, Settle, Fails
    <2> QED
      BY <2>1, <2>2, <2>3, <2>4, Zenon DEF ReviewNext
  <1> QED
    BY <1>1, Zenon

\* The end of a review leaves the drafts as they are.
LEMMA EndTypes ==
    ASSUME ReviewKept, UNCHANGED <<pipeline, drafts, verdict, passed, late>>,
           NEW outcome \in Outcomes, NEW text \in {NoText, Draft}, EndsWith(outcome, text)
    PROVE  ReviewKnown'
  <1>1. Draft \in Nat /\ Draft' = Draft
    BY NewestDraft DEF ReviewKept, ReviewInv, ReviewShape, Draft
  <1>2. /\ step' = "done" /\ result'.outcome = outcome /\ result'.reply_text = text
        /\ text \in 0 .. Draft
    BY <1>1 DEF EndsWith, NoText
  <1> QED
    BY <1>1, <1>2 DEF ReviewKept, ReviewKnown

\* _approved_draft gives the newest draft or nothing.
LEMMA ConcludesTypes ==
    ASSUME ReviewKept, UNCHANGED <<pipeline, drafts, verdict, passed, late>>,
           NEW final, Concludes(final)
    PROVE  ReviewKnown'
  <1>1. Approved(final) \in {NoText, Draft}
    BY DEF Approved
  <1>2. \E outcome \in Outcomes : EndsWith(outcome, Approved(final))
    BY DEF Concludes, Outcomes
  <1> QED
    BY <1>1, <1>2, EndTypes

\* The inbox pipeline keeps the bounds.
LEMMA InboxBounds ==
    ASSUME ReviewKept, CallComposer \/ CallReviewer \/ CallOther \/ FinalTurn
    PROVE  ReviewKnown' /\ DraftsBounded'
  <1>1. /\ step = "loop" /\ pipeline = "inbox" /\ drafts \in Seq(DraftKinds) /\ Draft \in Nat
        /\ pipeline' = pipeline
    BY NewestDraft DEF ReviewKept, ReviewInv, ReviewShape, CallComposer, CallReviewer, CallOther,
                       Call, FinalTurn
  <1>2. /\ loops \in Nat /\ Draft <= loops /\ loops <= MaxLoops /\ "inbox" \notin Purposes
    BY <1>1 DEF ReviewKept, DraftsBounded, Purposes
  <1>3. CASE CallComposer \/ CallReviewer \/ CallOther
    <2>1. /\ loops < MaxLoops /\ loops' = loops + 1 /\ step' = step /\ result' = result
      BY <1>3 DEF CallComposer, CallReviewer, CallOther, Call
    <2>2. /\ verdict' \in Answers /\ passed' \subseteq 1 .. Draft'
          /\ Draft' \in Nat /\ Draft <= Draft' /\ Draft' <= Draft + 1
      <3>1. verdict \in Answers /\ passed \subseteq 1 .. Draft
        BY DEF ReviewKept, ReviewKnown
      <3> QED
        BY <1>1, <1>3, <3>1, SpecialistTypes
           DEF SpecialistAnswers, CallComposer, CallReviewer, CallOther
    <2>3. ReviewKnown'
      <3>1. result.reply_text \in 0 .. Draft'
        BY <1>1, <2>2 DEF ReviewKept, ReviewKnown
      <3> QED
        BY <1>1, <2>1, <2>2, <3>1 DEF ReviewKept, ReviewKnown
    <2>4. loops' \in Nat /\ Draft' <= loops' /\ loops' <= MaxLoops
      BY <1>1, <1>2, <2>1, <2>2, ReviewAssumption
    <2> QED
      BY <1>1, <1>2, <2>3, <2>4 DEF DraftsBounded
  <1>4. CASE FinalTurn
    <2>1. UNCHANGED <<pipeline, drafts, verdict, loops, passed, late>>
      BY <1>4 DEF FinalTurn
    <2>2. EndsWith("escalated", NoText) \/ \E final : Concludes(final)
      BY <1>4 DEF FinalTurn
    <2>3. ReviewKnown'
      BY <2>1, <2>2, EndTypes, ConcludesTypes DEF Outcomes
    <2>4. Draft' = Draft
      BY <2>1 DEF Draft
    <2> QED
      BY <1>1, <1>2, <2>1, <2>3, <2>4 DEF DraftsBounded
  <1> QED
    BY <1>3, <1>4

\* So does the care pipeline.
LEMMA CareBounds ==
    ASSUME ReviewKept, Analyst \/ Librarian \/ Compose \/ Review \/ Settle \/ Fails
    PROVE  ReviewKnown' /\ DraftsBounded'
  <1>1. /\ step \in CareSteps /\ pipeline \in Purposes /\ drafts \in Seq(DraftKinds)
        /\ Draft \in Nat /\ pipeline' = pipeline
    BY NewestDraft DEF ReviewKept, ReviewInv, ReviewShape, Analyst, Librarian, Compose, Review,
                       Settle, Fails, Moves, CareSteps
  <1>2. /\ loops \in Nat /\ loops < MaxAttempts /\ Draft <= loops + 1 /\ "inbox" \notin Purposes
        /\ step \in {"analyst", "librarian", "compose"} => Draft <= loops
    BY <1>1 DEF ReviewKept, DraftsBounded, Purposes
  <1>3. ASSUME UNCHANGED drafts, step' \in {"analyst", "librarian", "compose"} => Draft <= loops',
               loops' \in {loops, loops + 1}, loops' < MaxAttempts
        PROVE  DraftsBounded'
    <2>1. Draft' = Draft /\ loops' \in Nat /\ Draft' <= loops' + 1
      BY <1>1, <1>2, <1>3 DEF Draft
    <2> QED
      BY <1>1, <1>2, <1>3, <2>1 DEF DraftsBounded
  <1>4. CASE Librarian
    <2>1. UNCHANGED <<pipeline, drafts, verdict, loops, passed, late, result>>
          /\ step' = "compose" /\ step = "librarian"
      BY <1>4 DEF Librarian, Moves
    <2>2. ReviewKnown'
      BY <2>1 DEF ReviewKept, ReviewKnown, Draft, CareSteps
    <2> QED
      BY <1>2, <1>3, <2>1, <2>2
  <1>5. CASE Compose \/ Review
    <2>1. /\ step' \in {"review", "decide"} /\ result' = result /\ loops' = loops
      BY <1>5 DEF Compose, Review, Moves
    <2>2. /\ verdict' \in Answers /\ passed' \subseteq 1 .. Draft'
          /\ Draft' \in Nat /\ Draft <= Draft' /\ Draft' <= Draft + 1
      <3>1. verdict \in Answers /\ passed \subseteq 1 .. Draft
        BY DEF ReviewKept, ReviewKnown
      <3> QED
        BY <1>1, <1>5, <3>1, SpecialistTypes DEF SpecialistAnswers, Compose, Review
    <2>3. Draft' <= loops + 1
      <3>1. CASE Compose
        BY <1>1, <1>2, <2>2, <3>1 DEF Compose, Moves
      <3>2. CASE Review
        <4>1. Draft' = Draft
          BY <3>2 DEF Review, Silent, Reviewed, Draft
        <4> QED
          BY <1>2, <4>1
      <3> QED
        BY <1>5, <3>1, <3>2
    <2>4. ReviewKnown'
      <3>1. result.reply_text \in 0 .. Draft'
        BY <1>1, <2>2 DEF ReviewKept, ReviewKnown
      <3> QED
        BY <1>1, <2>1, <2>2, <3>1 DEF ReviewKept, ReviewKnown, CareSteps
    <2> QED
      BY <1>1, <1>2, <2>1, <2>3, <2>4 DEF DraftsBounded
  <1>6. CASE Analyst \/ Fails
    <2>1. UNCHANGED <<pipeline, drafts, verdict, loops, passed, late>>
      BY <1>6 DEF Analyst, Fails
    <2>2. \/ EndsWith("no_send", NoText) \/ EndsWith("invalid_result", NoText)
          \/ step = "analyst" /\ step' = "librarian" /\ UNCHANGED result
      BY <1>6 DEF Analyst, Fails
    <2>3. CASE EndsWith("no_send", NoText) \/ EndsWith("invalid_result", NoText)
      <3>1. ReviewKnown'
        BY <2>1, <2>3, EndTypes DEF Outcomes
      <3> QED
        BY <1>2, <1>3, <2>1, <2>3, <3>1 DEF EndsWith
    <2>4. CASE step = "analyst" /\ step' = "librarian" /\ UNCHANGED result
      <3>1. ReviewKnown'
        BY <2>1, <2>4 DEF ReviewKept, ReviewKnown, Draft, CareSteps
      <3> QED
        BY <1>2, <1>3, <2>1, <2>4, <3>1
    <2> QED
      BY <2>2, <2>3, <2>4
  <1>7. CASE Settle
    <2>1. UNCHANGED <<pipeline, drafts, verdict, passed, late>>
      BY <1>7 DEF Settle
    <2>2. \/ /\ loops' = loops
             /\ \/ Concludes(NoText) \/ EndsWith("no_send", NoText)
                \/ EndsWith("escalated", NoText) \/ EndsWith("invalid_result", NoText)
          \/ /\ loops + 1 < MaxAttempts /\ loops' = loops + 1
             /\ step' = "compose" /\ UNCHANGED result
      BY <1>7 DEF Settle
    <2>3. CASE /\ loops' = loops
               /\ \/ Concludes(NoText) \/ EndsWith("no_send", NoText)
                  \/ EndsWith("escalated", NoText) \/ EndsWith("invalid_result", NoText)
      <3>1. ReviewKnown'
        BY <2>1, <2>3, EndTypes, ConcludesTypes DEF Outcomes
      <3>2. step' = "done"
        BY <2>3 DEF Concludes, EndsWith
      <3> QED
        BY <1>2, <1>3, <2>1, <2>3, <3>1, <3>2
    <2>4. CASE /\ loops + 1 < MaxAttempts /\ loops' = loops + 1
               /\ step' = "compose" /\ UNCHANGED result
      <3>1. ReviewKnown'
        BY <2>1, <2>4 DEF ReviewKept, ReviewKnown, Draft, CareSteps
      <3> QED
        BY <1>2, <1>3, <2>1, <2>4, <3>1
    <2> QED
      BY <2>2, <2>3, <2>4
  <1> QED
    BY <1>4, <1>5, <1>6, <1>7

LEMMA ReviewKeptInit == ReviewInit => ReviewKept
  <1> SUFFICES ASSUME ReviewInit PROVE ReviewKept
    OBVIOUS
  <1>1. /\ drafts = <<>> /\ verdict = "" /\ loops = 0 /\ passed = {}
        /\ result.reply_text = 0 /\ result.outcome = "pending"
        /\ pipeline \in {"inbox"} \cup Purposes
        /\ step = IF pipeline = "inbox" THEN "loop" ELSE "analyst"
    BY DEF ReviewInit, Pending, NoText
  <1>2. Draft = 0
    BY <1>1 DEF Draft
  <1>3. ReviewKnown
    <2>1. passed \subseteq 1 .. Draft
      BY <1>1
    <2>2. step \in CareSteps \cup {"loop", "done"}
      BY <1>1 DEF CareSteps
    <2>3. result.reply_text \in 0 .. Draft /\ result.outcome \in Outcomes /\ verdict \in Answers
      <3>1. 0 \in 0 .. Draft
        BY <1>2
      <3>2. result.reply_text \in 0 .. Draft
        BY <1>1, <3>1
      <3> QED
        BY <1>1, <3>2 DEF Answers, Outcomes
    <2> QED
      BY <1>1, <2>1, <2>2, <2>3 DEF ReviewKnown
  <1>4. DraftsBounded
    <2>1. 0 <= MaxLoops /\ 0 < MaxAttempts /\ loops \in Nat /\ Draft <= loops
          /\ loops <= MaxLoops /\ loops < MaxAttempts /\ Draft <= loops + 1
      <3>1. loops = 0 /\ Draft = 0
        BY <1>1, <1>2
      <3> QED
        BY <3>1, ReviewAssumption
    <2> QED
      BY <2>1 DEF DraftsBounded
  <1> QED
    BY <1>3, <1>4, ReviewInvInit, Zenon DEF ReviewKept, ReviewInit

LEMMA ReviewKeptNext == ReviewKept /\ [ReviewNext]_reviewVars => ReviewKept'
  <1> SUFFICES ASSUME ReviewKept, [ReviewNext]_reviewVars PROVE ReviewKept'
    OBVIOUS
  <1>1. ReviewInv' /\ late' \in BOOLEAN
    BY ReviewInvNext, LateType, Zenon DEF ReviewKept
  <1>2. CASE UNCHANGED reviewVars
    BY <1>1, <1>2 DEF reviewVars, ReviewKept, ReviewKnown, DraftsBounded, Draft
  <1>3. CASE ReviewNext
    BY <1>1, <1>3, InboxBounds, CareBounds DEF ReviewNext, ReviewKept
  <1> QED
    BY <1>2, <1>3

LEMMA ReviewTypes == ReviewKept => ReviewTypeOK
  <1> SUFFICES ASSUME ReviewKept PROVE ReviewTypeOK
    OBVIOUS
  <1>1. drafts \in Seq(DraftKinds) /\ Draft \in Nat /\ ReviewKnown
    BY NewestDraft DEF ReviewKept, ReviewInv, ReviewShape
  <1>2. Draft < Words /\ loops \in 0 .. MaxLoops + MaxAttempts
    BY <1>1, ReviewAssumption DEF ReviewKept, ReviewKnown, DraftsBounded, Words
  <1> QED
    <2>1. late \in BOOLEAN
      BY Zenon DEF ReviewKept
    <2>2. /\ step \in {"analyst", "librarian", "compose", "review", "decide", "loop", "done"}
          /\ result.outcome \in Outcomes /\ passed \subseteq 1 .. Draft
          /\ pipeline \in {"inbox"} \cup Purposes /\ verdict \in Answers
          /\ result.reply_text \in 0 .. Draft
      BY <1>1 DEF ReviewKnown, CareSteps
    <2> QED
      BY <1>1, <1>2, <2>1, <2>2, Zenon DEF ReviewTypeOK, Outcomes

-----------------------------------------------------------------------------
(* The parts together.  A behaviour is one part's; what the others own     *)
(* stays as it began, the table alone being worked on by two parts: by     *)
(* whoever is around while no cycle runs, and by the outreach routes.      *)

OutsideOK == /\ contact \in [Seekers -> {"free", "waits", "out"}]
             /\ reopens \in 0 .. MaxReopens

TableOK == /\ QueueInv
           /\ Backend = "sqlite" => SerialWriters
           /\ IF part = "table" THEN cycle = Resting ELSE OutreachInv

OfficeInv == TableOK /\ OutsideOK /\ ProfileInv /\ GateKept /\ ReviewKept

-----------------------------------------------------------------------------

\* Only seekers and operators change what is outside the cycles.
LEMMA OutsideInv ==
    ASSUME OutsideOK, OutreachNext
    PROVE  OutsideOK'
  <1>1. reopens \in 0 .. MaxReopens /\ MaxReopens \in Nat
    BY OutreachAssumption DEF OutsideOK
  <1>2. CASE OtherUnchanged
    BY <1>2 DEF OtherUnchanged, OutsideOK
  <1>3. ASSUME NEW s \in Seekers, SeekerChanges(s)
        PROVE  OutsideOK'
    BY <1>3 DEF SeekerChanges, OutsideOK
  <1>4. ASSUME NEW s \in Seekers, CareCommand(s)
        PROVE  OutsideOK'
    BY <1>4 DEF CareCommand, OutsideOK
  <1>5. ASSUME NEW id \in Rows, Operator(id) \/ Worker(id)
        PROVE  OutsideOK'
    <2>1. contact' = contact
      BY <1>5 DEF Operator, Worker
    <2>2. reopens' = reopens \/ (reopens < MaxReopens /\ reopens' = reopens + 1)
      BY <1>5 DEF Operator, Worker
    <2>3. reopens' \in 0 .. MaxReopens
      BY <1>1, <2>2
    <2> QED
      BY <2>1, <2>3 DEF OutsideOK
  <1>6. ASSUME \/ EventStart \/ EventSearch \/ SearchFails \/ EventLook \/ EventPropose
               \/ EventDone \/ CycleFails \/ ReactStart \/ ReactPropose \/ ReactDone
        PROVE  OtherUnchanged
    BY <1>6 DEF EventStart, EventSearch, SearchFails, EventLook, EventPropose, EventDone,
                CycleFails, ReactStart, ReactPropose, ReactDone, Enqueues
  <1> QED
    BY <1>2, <1>3, <1>4, <1>5, <1>6 DEF OutreachNext

\* To the table, the outreach routes are proposers like any other, and what is
\* around them operators and a worker.
LEMMA ProposesHere ==
    ASSUME NEW qtype \in QueueTypes, NEW target \in Targets, NEW kind \in Kinds,
           NEW text \in Texts, EnqueueAction(Proposal(qtype, target, kind, text, NoSnapshot))
    PROVE  QueueNext
  <1>1. Propose
    BY SnapshotsAssumption DEF Propose
  <1> QED
    BY <1>1 DEF QueueNext

LEMMA OutreachOnTable ==
    ASSUME OutreachInv, OutreachNext
    PROVE  [QueueNext]_queueVars \/ \E id \in Rows : Worker(id)
  <1>1. CASE EventPropose
    <2>1. PICK text \in Texts :
              \/ EnqueueAction(Proposal("proactive_message", Head(cycle.offers).to, Plain, text,
                                        NoSnapshot))
              \/ UNCHANGED queueVars
      BY <1>1 DEF EventPropose, Enqueues, CycleEnds
    <2>2. Head(cycle.offers) \in Offer
      BY <1>1 DEF EventPropose, OutreachInv, CycleOK, OffersOfPast
    <2>3. Head(cycle.offers).to \in Targets
      BY <2>2, OutreachAssumption DEF Offer
    <2> QED
      BY <2>1, <2>3, ProposesHere, OutreachAssumption, QueueTypesAssumption
         DEF OutboundQueueTypes
  <1>2. CASE ReactPropose
    <2>1. PICK n \in cycle.todo, text \in Texts, qtype \in {"reply_comment", "reply_message"} :
              \/ EnqueueAction(Proposal(qtype, Unreacted[n], Plain, text, NoSnapshot))
              \/ UNCHANGED queueVars
      BY <1>2 DEF ReactPropose, Enqueues, CycleEnds
    <2>2. n \in DOMAIN Unreacted /\ Unreacted \in Seq(Targets)
      BY <1>2, OutreachAssumption DEF ReactPropose, Running, OutreachInv, CycleOK, Shaped
    <2>3. Unreacted[n] \in Targets
      BY <2>2
    <2>4. qtype \in QueueTypes
      BY OutreachAssumption, QueueTypesAssumption DEF OutboundQueueTypes
    <2> QED
      BY <2>1, <2>3, <2>4, ProposesHere, OutreachAssumption
  <1>3. ASSUME NEW s \in Seekers, CareCommand(s)
        PROVE  QueueNext
    BY <1>3, ProposesHere, OutreachAssumption, QueueTypesAssumption
       DEF CareCommand, OutboundQueueTypes
  <1>4. ASSUME NEW id \in Rows, Operator(id)
        PROVE  QueueNext
    BY <1>4 DEF Operator, Decide, QueueNext
  <1>5. CASE \/ EventStart \/ EventSearch \/ SearchFails \/ EventLook \/ EventDone
             \/ CycleFails \/ ReactStart \/ ReactDone \/ \E s \in Seekers : SeekerChanges(s)
    BY <1>5 DEF EventStart, EventSearch, SearchFails, EventLook, EventDone, CycleFails,
                ReactStart, ReactDone, SeekerChanges, CycleEnds
  <1> QED
    BY <1>1, <1>2, <1>3, <1>4, <1>5 DEF OutreachNext

\* The worker's steps keep the invariant of the table, and reopen nothing.
LEMMA WorkerInv ==
    ASSUME QueueInv, NEW id \in Rows, Worker(id)
    PROVE  /\ QueueInv' /\ OnlyReopened
           /\ Backend = "sqlite" /\ SerialWriters => SerialWriters'
  <1>1. /\ NoneLivelier(queue') /\ UNCHANGED <<lastId, regen, claim>>
        /\ Unlocked /\ Live(queue[id])
        /\ \A other \in Rows \ {id} : queue'[other] = queue[other]
    BY WorkerQuiet DEF QueueInv
  <1>2. ClaimClear' /\ OneDmPerRecipient' /\ OneLivePerSlot'
    BY <1>1, QuietUpdate
  <1>3. QueueTypeOK'
    BY <1>1, UpdateTypes DEF NoneLivelier, QueueInv
  <1>4. PendingRegen'
    BY <1>1 DEF QueueInv, PendingRegen
  <1>5. Backend = "sqlite" => SerialWriters'
    BY <1>1 DEF Unlocked, SerialWriters
  <1> QED
    BY <1>1, <1>2, <1>3, <1>4, <1>5 DEF QueueInv, OnlyReopened

\* Whichever part works on the table.
LEMMA TableStep ==
    ASSUME OfficeInv,
           [OfficeNext]_<<part, outreachVars, profileVars, gateVars, reviewVars>>
    PROVE  /\ QueueInv'
           /\ Backend = "sqlite" => SerialWriters'
           /\ Backend = "sqlite" /\ ~UNCHANGED queueVars => OnlyReopened
  <1>1. QueueInv /\ (Backend = "sqlite" => SerialWriters)
    BY DEF OfficeInv, TableOK
  <1>2. [QueueNext]_queueVars \/ \E id \in Rows : Worker(id)
    <2>1. CASE part = "table"
      BY <2>1 DEF OfficeNext, outreachVars
    <2>2. CASE part # "table"
      <3>1. OutreachInv /\ [OutreachNext]_outreachVars
        BY <2>2 DEF OfficeNext, OfficeInv, TableOK
      <3> QED
        BY <3>1, OutreachOnTable DEF outreachVars
    <2> QED
      BY <2>1, <2>2
  <1>3. CASE [QueueNext]_queueVars
    BY <1>1, <1>3, NextInv, SerialInv, OnlyReopenedStep DEF RegenLive, SerialWriters
  <1>4. CASE \E id \in Rows : Worker(id)
    BY <1>1, <1>4, WorkerInv
  <1> QED
    BY <1>2, <1>3, <1>4

\* The offers in hand, and where a cycle is, have the shape they should.
LEMMA OutreachTypes ==
    ASSUME QueueTypeOK, OutsideOK, CycleOK
    PROVE  OutreachTypeOK
  <1>1. lastId \in Nat /\ reopens \in Nat /\ cycle.offers \in Seq(Offer)
    <2>1. MaxReopens \in Nat /\ reopens \in 0 .. MaxReopens
      BY OutreachAssumption DEF OutsideOK
    <2>2. lastId \in Nat
      BY MaxIdAssumption DEF QueueTypeOK
    <2> QED
      BY <2>1, <2>2 DEF CycleOK, OffersOfPast
  <1> DEFINE Held == [to : Seekers, seen : 0 .. lastId, reopens : 0 .. reopens]
  <1>2. \A n \in DOMAIN cycle.offers : cycle.offers[n] \in Held
    <2> SUFFICES ASSUME NEW n \in DOMAIN cycle.offers
                 PROVE  cycle.offers[n] \in Held
      OBVIOUS
    <2>1. /\ cycle.offers[n] \in Offer
          /\ cycle.offers[n].seen \in Nat /\ cycle.offers[n].reopens \in Nat
          /\ cycle.offers[n].seen <= lastId /\ cycle.offers[n].reopens <= reopens
      BY <1>1, PastOffers DEF CycleOK, OffersOfPast
    <2>2. cycle.offers[n].seen \in 0 .. lastId /\ cycle.offers[n].reopens \in 0 .. reopens
      BY <1>1, <2>1
    <2> QED
      BY <2>1, <2>2 DEF Offer
  <1>3. cycle.offers \in Seq(Held)
    <2> HIDE DEF Held
    <2>1. DOMAIN cycle.offers = 1 .. Len(cycle.offers) /\ Len(cycle.offers) \in Nat
          /\ cycle.offers = [n \in DOMAIN cycle.offers |-> cycle.offers[n]]
      BY <1>1
    <2>2. cycle.offers \in [1 .. Len(cycle.offers) -> Held]
      BY <1>2, <2>1
    <2> QED
      BY <2>1, <2>2, SeqDef
  <1> QED
    BY <1>3 DEF OutreachTypeOK, OutsideOK, CycleOK, Shaped

\* The invariant of the parts together holds at first, and each step keeps it.
LEMMA OfficeInvInit == OfficeInit => OfficeInv
  <1> SUFFICES ASSUME OfficeInit PROVE OfficeInv
    OBVIOUS
  <1>1. QueueInit /\ OutreachInit /\ ProfileInit /\ GateInit /\ ReviewInit
    BY DEF OfficeInit
  <1>2. TableOK
    BY <1>1, InitInv, OutreachInvInit DEF TableOK, OutreachInit
  <1>3. OutsideOK
    <2>1. MaxReopens \in Nat
      BY OutreachAssumption
    <2>2. 0 \in 0 .. MaxReopens
      BY <2>1
    <2> QED
      BY <1>1, <2>2 DEF OutreachInit, OutsideOK
  <1> QED
    BY <1>1, <1>2, <1>3, ProfileInvInit, GateKeptInit, ReviewKeptInit DEF OfficeInv

LEMMA OfficeInvNext ==
    OfficeInv /\ [OfficeNext]_<<part, outreachVars, profileVars, gateVars, reviewVars>>
        => OfficeInv'
  <1> SUFFICES ASSUME OfficeInv,
                      [OfficeNext]_<<part, outreachVars, profileVars, gateVars, reviewVars>>
               PROVE  OfficeInv'
    OBVIOUS
  <1>1. part' = part
    BY DEF OfficeNext
  <1>2. ProfileInv'
    BY ProfileInvNext DEF OfficeInv, OfficeNext
  <1>3. GateKept'
    BY GateKeptNext DEF OfficeInv, OfficeNext
  <1>4. ReviewKept'
    BY ReviewKeptNext DEF OfficeInv, OfficeNext
  <1>5. OutsideOK'
    <2>1. CASE UNCHANGED <<contact, reopens>>
      BY <2>1 DEF OfficeInv, OutsideOK
    <2>2. CASE OutreachNext
      BY <2>2, OutsideInv DEF OfficeInv
    <2> QED
      BY <2>1, <2>2 DEF OfficeNext, outreachVars
  <1>6. TableOK'
    <2>1. QueueInv' /\ (Backend = "sqlite" => SerialWriters')
      BY TableStep
    <2>2. CASE part = "table"
      <3>1. cycle' = cycle
        BY <2>2 DEF OfficeNext, outreachVars
      <3> QED
        BY <1>1, <2>1, <2>2, <3>1 DEF OfficeInv, TableOK
    <2>3. CASE part # "table"
      <3>1. [OutreachNext]_outreachVars
        BY <2>3 DEF OfficeNext
      <3> QED
        BY <1>1, <2>1, <2>3, <3>1, OutreachInvNext DEF OfficeInv, TableOK
    <2> QED
      BY <2>2, <2>3
  <1> QED
    BY <1>2, <1>3, <1>4, <1>5, <1>6 DEF OfficeInv

\* What it says of the table and the cycles, whichever part works on them.
LEMMA TableKnown ==
    ASSUME OfficeInv
    PROVE  QueueTypeOK /\ CycleOK /\ RefusedOnlyByNews
  <1>1. CASE part = "table"
    <2>1. QueueTypeOK /\ cycle = Resting /\ cycle.offers = <<>> /\ Shaped(cycle)
      BY <1>1, RestingShaped DEF OfficeInv, TableOK, QueueInv
    <2>2. OffersOfPast /\ RefusedOnlyByNews
      BY <2>1 DEF OffersOfPast, RefusedOnlyByNews
    <2> QED
      BY <2>1, <2>2 DEF CycleOK
  <1>2. CASE part # "table"
    BY <1>2 DEF OfficeInv, TableOK, OutreachInv
  <1> QED
    BY <1>1, <1>2

\* The types of the table, the outreach routes, the profile, the gate and the
\* review, for any size of their constants: among them that no run of a fetch
\* leaves more than two rows or takes more than three timestamps, that an offer
\* remembers only what has happened, and that budget and repairs bound the drafts.
THEOREM OfficeTypes == OfficeSpec => []OfficeTypeOK
  <1>1. OfficeInv => OfficeTypeOK
    <2> SUFFICES ASSUME OfficeInv PROVE OfficeTypeOK
      OBVIOUS
    <2>1. QueueTypeOK /\ CycleOK
      BY TableKnown
    <2>2. OutreachTypeOK
      BY <2>1, OutreachTypes DEF OfficeInv
    <2>3. ProfileTypeOK /\ GateTypeOK /\ ReviewTypeOK
      BY GateTypes, ReviewTypes DEF OfficeInv, ProfileInv
    <2> QED
      BY <2>1, <2>2, <2>3 DEF OfficeTypeOK
  <1> QED
    BY <1>1, OfficeInvInit, OfficeInvNext, PTL DEF OfficeSpec

\* What the table and each part promise they keep beside the others, whether the
\* table is worked on by anybody or by the outreach routes and who is around them.
THEOREM OfficeSafe ==
    OfficeSpec => [](/\ OneDmPerRecipient /\ OneLivePerSlot
                     /\ RefusedOnlyByNews /\ FreshMeansRead
                     /\ VerdictOfOwnRun /\ OnlyReviewedLeaves)
  <1>1. OfficeInv => /\ OneDmPerRecipient /\ OneLivePerSlot
                     /\ RefusedOnlyByNews /\ FreshMeansRead
                     /\ VerdictOfOwnRun /\ OnlyReviewedLeaves
    BY TableKnown, InsideOverlaps
       DEF OfficeInv, TableOK, QueueInv, ProfileInv, GateKept, ReviewKept, ReviewInv
  <1> QED
    BY <1>1, OfficeInvInit, OfficeInvNext, PTL DEF OfficeSpec

\* Under SQLite no proposer, operator, cycle or worker takes a decided row out of
\* its status but back to "approved".
THEOREM OfficeFinal ==
    ASSUME Backend = "sqlite"
    PROVE  OfficeSpec => TerminalOnlyReopened
  <1>1. OfficeInv /\ [OfficeNext]_<<part, outreachVars, profileVars, gateVars, reviewVars>> =>
            [\A id \in Rows : ~Live(queue[id]) =>
                queue'[id].status \in {queue[id].status, "approved"}]_queueVars
    BY TableStep DEF OnlyReopened
  <1> QED
    BY <1>1, OfficeInvInit, OfficeInvNext, PTL DEF OfficeSpec, TerminalOnlyReopened
=============================================================================
