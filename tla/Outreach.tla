------------------------------- MODULE Outreach -------------------------------
(***************************************************************************)
(* The scheduler's two outreach routes: the daily event cycle, which       *)
(* offers upcoming events to the seekers of their city, and the reaction   *)
(* cycle.  Both only put proposals into action_queue.  The scheduler runs  *)
(* one route at a time; operators and the delivery worker act in between.  *)
(*                                                                         *)
(* Nothing in the code writes a live row into event_campaigns or           *)
(* reactions: the queue is all the cycles know of earlier offers, no item  *)
(* ever counts as reacted to, and the limits on recent touches never bind. *)
(***************************************************************************)
EXTENDS ActionQueue, Sequences, FiniteSets

CONSTANTS
    Seekers,      \* conversations of seekers with a users row
    Latest,       \* they and people known from comments only, by last interaction
    Ranking,      \* the same by journey stage, interest and last interaction
    CityOf,       \* users.city, comment_users.city
    Upcoming,     \* the cities of the upcoming events, by date
    MaxSeekers,   \* max_seekers
    Unreacted,    \* customer messages, then comments, each newest first
    CommentIds,   \* which of these are comments
    Plain,        \* a payload without type and dedupe_key
    CareKind,     \* the payload of an operator's care command
    MaxReopens    \* bound: decided rows that are brought back

People == {Ranking[n] : n \in DOMAIN Ranking}

ASSUME OutreachAssumption ==
    /\ Seekers \subseteq Targets /\ Seekers \subseteq People /\ Unreacted \in Seq(Targets)
    /\ Ranking \in Seq(People) /\ Latest \in Seq(People)
    /\ Len(Upcoming) \in Nat \ {0} /\ MaxSeekers \in Nat /\ MaxReopens \in Nat
    /\ {Plain, CareKind} \subseteq Kinds /\ IndexKey(Plain) = ""
    /\ "reply_comment" \in QueueTypes

VARIABLES
    contact,   \* seeker -> "free", "waits" for an answer, or has opted "out"
    cycle,     \* the route that runs, and what it holds in memory: todo are places
               \* in Ranking or Unreacted; with an offer, as a ghost, what had
               \* happened when its seeker was looked at
    reopens    \* decided rows brought back so far

outreachVars == <<queueVars, contact, cycle, reopens>>

Resting == [route |-> "none", event |-> 0, todo |-> {}, offers |-> <<>>]

OutreachTypeOK ==
    /\ contact \in [Seekers -> {"free", "waits", "out"}]
    /\ cycle.route \in {"none", "event", "react"}
    /\ cycle.event \in 0 .. Len(Upcoming)
    /\ cycle.route = "event" => cycle.todo \subseteq DOMAIN Ranking
    /\ cycle.route = "react" => cycle.todo \subseteq DOMAIN Unreacted
    /\ cycle.offers \in Seq([to : Seekers, seen : 0 .. lastId, reopens : 0 .. reopens])
    /\ reopens \in 0 .. MaxReopens

OutreachInit == /\ contact = [s \in Seekers |-> "free"]
                /\ cycle = Resting
                /\ reopens = 0

\* The lists are worked off in their order.
First(n) == n \in cycle.todo /\ \A m \in cycle.todo : n <= m

OtherUnchanged == UNCHANGED <<contact, reopens>>
Running(route) == cycle.route = route
CycleEnds == cycle' = Resting /\ UNCHANGED queueVars

\* An exception ends the cycle where it is, and so does the process.
CycleFails == ~Running("none") /\ CycleEnds /\ OtherUnchanged

\* enqueue_action of the next proposal.  What the index refuses ends the cycle,
\* whatever is still in its hands.
Enqueues(row, rest) ==
    /\ Unlocked
    /\ IF IndexAdmits(queue, row, NoId) THEN EnqueueAction(row) /\ cycle' = rest
                                        ELSE CycleEnds
    /\ OtherUnchanged

-----------------------------------------------------------------------------
(* The event cycle looks at everybody, and has every text written, before  *)
(* it inserts the first proposal.                                          *)

Searching == Running("event") /\ cycle.todo = {} /\ cycle.event < Len(Upcoming)
Offering == Running("event") /\ cycle.todo = {} /\ cycle.event = Len(Upcoming)

EventStart == /\ Running("none")
              /\ cycle' = [Resting EXCEPT !.route = "event"]
              /\ UNCHANGED queueVars /\ OtherUnchanged

\* LIMIT, seekers[:max_seekers]: the first max_seekers of some places in a list.
Limited(places) == {n \in places : Cardinality({m \in places : m <= n}) <= MaxSeekers}

\* find_target_seekers_for_event: max_seekers of the city, chosen among the
\* latest max_seekers seekers and as many commenters.
Found(city) ==
    LET Matches(p) == CityOf[p] = city /\ (p \in Seekers => contact[p] # "out")
        latest == {n \in DOMAIN Latest : Matches(Latest[n])}
        seekers == {n \in latest : Latest[n] \in Seekers}
        recent == {Latest[n] : n \in Limited(seekers) \cup Limited(latest \ seekers)}
    IN  Limited({n \in DOMAIN Ranking : Ranking[n] \in recent})

EventSearch == /\ Searching
               /\ cycle' = [cycle EXCEPT !.event = @ + 1, !.todo = Found(Upcoming[cycle.event + 1])]
               /\ UNCHANGED queueVars /\ OtherUnchanged

SearchFails == /\ Searching
               /\ cycle' = [cycle EXCEPT !.event = @ + 1]
               /\ UNCHANGED queueVars /\ OtherUnchanged

\* Mutant: what was approved is taken for done.
HasUndecidedProposal(target) ==
    \E id \in Rows : /\ queue[id].target_id = target
                     /\ queue[id].queue_type = "proactive_message"
                     /\ queue[id].status = "pending"

HasActiveProposal(target) ==
    \E id \in Rows : /\ queue[id].target_id = target
                     /\ queue[id].queue_type = "proactive_message"
                     /\ Live(queue[id])

\* _evaluate_proactive_eligibility, but for the pending reply.
Eligible(s) == contact[s] # "out" /\ ~HasActiveProposal(s)

\* The next person is skipped (a commenter has no delivery channel), or a text
\* is written for them.  A pending reply that cannot be looked up counts as none.
EventLook ==
    /\ Running("event")
    /\ \E n \in cycle.todo, looked \in BOOLEAN :
          LET p == Ranking[n]
              writes == p \in Seekers /\ Eligible(p) /\ ~(looked /\ contact[p] = "waits")
              offer == [to |-> p, seen |-> lastId, reopens |-> reopens]
          IN  /\ First(n)
              /\ cycle' = [cycle EXCEPT !.todo = @ \ {n},
                                        !.offers = IF writes THEN Append(@, offer) ELSE @]
    /\ UNCHANGED queueVars /\ OtherUnchanged

EventPropose ==
    /\ Offering /\ cycle.offers # <<>>
    /\ \E text \in Texts :
          Enqueues(Proposal("proactive_message", Head(cycle.offers).to, Plain, text, NoSnapshot),
                   [cycle EXCEPT !.offers = Tail(@)])

EventDone == Offering /\ cycle.offers = <<>> /\ CycleEnds /\ OtherUnchanged

-----------------------------------------------------------------------------
(* The reaction cycle inserts as it goes.                                  *)

ReactStart == /\ Running("none")
              /\ cycle' = [Resting EXCEPT !.route = "react", !.todo = DOMAIN Unreacted]
              /\ UNCHANGED queueVars /\ OtherUnchanged

ReactPropose ==
    /\ Running("react")
    /\ \E n \in cycle.todo, text \in Texts :
          LET item == Unreacted[n]
              qtype == IF item \in CommentIds THEN "reply_comment" ELSE "reply_message"
          IN  /\ First(n)
              /\ Enqueues(Proposal(qtype, item, Plain, text, NoSnapshot),
                          [cycle EXCEPT !.todo = @ \ {n}])

ReactDone == Running("react") /\ cycle.todo = {} /\ CycleEnds /\ OtherUnchanged

-----------------------------------------------------------------------------
(* Around the cycles.                                                      *)

\* The seeker writes, is answered, opts out.
SeekerChanges(s) ==
    /\ contact[s] # "out"
    /\ \E state \in {"free", "waits", "out"} : contact' = [contact EXCEPT ![s] = state]
    /\ UNCHANGED <<queueVars, cycle, reopens>>

CareCommand(s) ==
    /\ \E text \in Texts :
          EnqueueAction(Proposal("proactive_message", s, CareKind, text, NoSnapshot))
    /\ UNCHANGED <<contact, cycle, reopens>>

Operator(id) ==
    /\ \/ (ApproveAction(id) \/ RejectAction(id)) /\ UNCHANGED reopens
       \/ /\ ~Live(queue[id]) /\ reopens < MaxReopens
          /\ WebApprove(id) /\ reopens' = reopens + 1
    /\ UNCHANGED <<contact, cycle>>

\* The delivery worker serves the two DM queues.  A row of these cycles has no
\* conversation snapshot: claimed, it is found outdated.
Worker(id) ==
    /\ Unlocked
    /\ queue[id].status = "approved" /\ queue[id].queue_type \in OutboundQueueTypes
    /\ queue' = [queue EXCEPT ![id].status = "rejected", ![id].delivery_status = "outdated",
                             ![id].fetch_request = "pending"]
    /\ UNCHANGED <<lastId, regen, claim, contact, cycle, reopens>>

OutreachNext ==
    \/ EventStart \/ EventSearch \/ SearchFails \/ EventLook \/ EventPropose \/ EventDone
    \/ CycleFails
    \/ ReactStart \/ ReactPropose \/ ReactDone
    \/ \E s \in Seekers : SeekerChanges(s) \/ CareCommand(s)
    \/ \E id \in Rows : Operator(id) \/ Worker(id)

OutreachSpec == QueueInit /\ OutreachInit /\ [][OutreachNext]_outreachVars

-----------------------------------------------------------------------------
\* l5_action_queue.py:58-60: whoever enqueues for a target checks first that it
\* has no live proposal of the kind.  The event cycle does so long before it
\* inserts, for many seekers and through LLM calls: when it comes to an offer, a
\* live row of that seeker was inserted or brought back after the check (a
\* second event's offer in the same cycle sees the first one's), so that no
\* refusal of the index, which costs everybody behind, could have been foreseen.
RefusedOnlyByNews ==
    \A n \in DOMAIN cycle.offers :
        LET offer == cycle.offers[n]
        IN  \A id \in Rows : /\ queue[id].target_id = offer.to
                             /\ queue[id].queue_type = "proactive_message"
                             /\ Live(queue[id])
                             => id > offer.seen \/ reopens > offer.reopens
=============================================================================
