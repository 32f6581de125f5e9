----------------------------- MODULE HitlDelivery -----------------------------
(***************************************************************************)
(* The human-approved DM executor (tools/l5_hitl_execution.py and          *)
(* l5_delivery_guard.py) around the queue of ActionQueue, with the browser *)
(* tabs it fills, the Facebook conversations it reads, and the people who  *)
(* act meanwhile: seekers who write, the operator who decides on the       *)
(* dashboard and types in the same tabs.                                   *)
(*                                                                         *)
(* A cycle runs five phases in order.  Every read of the page, key press   *)
(* and commit is a step of its own, so that anything may happen between    *)
(* two of them, a crash of the worker included.                            *)
(*                                                                         *)
(* A conversation is a sequence of messages; the position of a message     *)
(* stands for its stable Facebook source_id.  A conversation_snapshot is   *)
(* the position of the last message MAS saw, 0 when there is none.         *)
(***************************************************************************)
EXTENDS ActionQueue, Sequences

CONSTANTS
    MaxMessages,   \* bound: length of a conversation
    MaxCrashes,    \* bound: crashes of the worker
    Modes,         \* the values --auto-send is given; the deployed unit has FALSE
    TabActs,       \* what the operator does to a composer, Enter aside
    RefreshLimit   \* rows one refetch pass takes (5 in the code)

ASSUME MessagesAssumption == MaxMessages \in Nat \ {0} /\ Snapshots = 0 .. MaxMessages
ASSUME NoSnapshotAssumption == NoSnapshot = 0
ASSUME TargetsAssumption == NoId \notin Targets
ASSUME CrashesAssumption == MaxCrashes \in Nat
ASSUME ModesAssumption == Modes \subseteq BOOLEAN /\ Modes # {}
ASSUME TabActsAssumption == TabActs \subseteq {"edited", "empty", "closed"}
ASSUME RefreshAssumption == RefreshLimit \in Nat \ {0}

VARIABLES
    autoSend,      \* the worker runs with --auto-send
    phase, step,   \* where the worker's cycle is
    item,          \* the row the worker holds in memory, or NoId
    todo,          \* ids a SELECT returned and this phase has yet to visit
    seen,          \* how many messages the last read of the page returned
    conversation,  \* Facebook: the messages of each thread
    outbox,        \* ids whose text was sent and is not in the thread yet
    composer,      \* the text box of the tab with role outbound:<id>
    provenance,    \* mas_message_provenance: message recorded for each id, or 0
    enters,        \* history: worker's Enter presses since the last approval
    crashes

workerVars == <<autoSend, phase, step, item, todo, seen>>
worldVars == <<conversation, outbox, composer>>
vars == <<queueVars, workerVars, worldVars, provenance, enters, crashes>>

-----------------------------------------------------------------------------
(* What the worker sees.                                                   *)

\* Only a Page message can be taken for the approved text; what a seeker writes
\* matters by its position alone.
OtherText == "other"
Message == [sender : {"Customer"}, text : {OtherText}]
             \cup [sender : {"Page"}, text : Texts \cup {OtherText}]

\* A tab that is closed has no composer; "edited" is any text that is not the
\* approved one.
Composer == {"closed", "empty", "approved", "edited"}

Thread(id) == conversation[queue[id].target_id]

\* assert_context_current on the first `n` messages of the thread: the last of
\* them is the message of the snapshot.
Current(id, n) == n > 0 /\ queue[id].snapshot = n

\* The n-th message is a Page bubble with the approved text.
Bubble(id, n) == /\ n > 0
                 /\ Thread(id)[n] = [sender |-> "Page", text |-> queue[id].action_text]

Drafted(id) == queue[id].status = "executing" /\ queue[id].delivery_status = "drafted"
Refetchable(id) == queue[id].status = "rejected" /\ queue[id].fetch_request = "pending"

Append1(target, message) ==
    [conversation EXCEPT ![target] = Append(@, message)]

\* Mutant: the clean-up forgets the composer.
ClearedNothing(id) == composer

\* The exception handler clears the composer only while it holds our text.
Cleared(id) == IF composer[id] = "approved" THEN [composer EXCEPT ![id] = "empty"]
                                            ELSE composer

\* INSERT OR IGNORE into a table unique by message and by action.
RecordMasDelivery(id, n) ==
    provenance' =
        IF /\ queue[id].kind.source = "inbox_mas"
           /\ provenance[id] = 0
           /\ \A other \in Rows : ~(/\ queue[other].target_id = queue[id].target_id
                                    /\ provenance[other] = n)
        THEN [provenance EXCEPT ![id] = n]
        ELSE provenance

NextPhase == [reconcile         |-> "reply_message",
              reply_message     |-> "proactive_message",
              proactive_message |-> "refresh",
              refresh           |-> "telegram",
              telegram          |-> "reconcile"]

EndPhase == /\ phase' = NextPhase[phase]
            /\ step' = "start"
            /\ item' = NoId
            /\ todo' = {}
            /\ UNCHANGED <<autoSend, seen>>

\* The reconciled row is done with; the phase goes on with the others.
NextRow == /\ step' = "rows"
           /\ item' = NoId
           /\ seen' = 0
           /\ UNCHANGED <<autoSend, phase, todo>>

Goto(s) == step' = s /\ UNCHANGED <<autoSend, phase, item, todo, seen>>

At(p, s) == phase = p /\ step = s
Delivering(s) == phase \in OutboundQueueTypes /\ step = s

-----------------------------------------------------------------------------
(* A phase is skipped while a fetch holds the browser, or when its SELECT  *)
(* returns nothing.  A claim waits for the writer it meets.                *)

SkipPhase == /\ step = "start"
             /\ phase \in OutboundQueueTypes => Unlocked
             /\ EndPhase
             /\ UNCHANGED <<queueVars, worldVars, provenance, enters, crashes>>

-----------------------------------------------------------------------------
(* Phase 1, reconcile_drafts: look at the tabs that were handed over.      *)

ReconcileSelect ==
    /\ At("reconcile", "start")
    /\ todo' = {id \in Rows : Drafted(id)}
    /\ todo' # {}
    /\ step' = "rows"
    /\ UNCHANGED <<queueVars, autoSend, phase, item, seen, worldVars,
                   provenance, enters, crashes>>

\* The tab is gone, or reading it fails: the draft stays for a later cycle.
ReconcileMiss(id) ==
    /\ At("reconcile", "rows")
    /\ id \in todo
    /\ todo' = todo \ {id}
    /\ UNCHANGED <<queueVars, autoSend, phase, step, item, seen, worldVars,
                   provenance, enters, crashes>>

ReconcileRead(id) ==
    /\ At("reconcile", "rows")
    /\ id \in todo
    /\ composer[id] # "closed"
    /\ Thread(id) # <<>>
    /\ item' = id
    /\ seen' = Len(Thread(id))
    /\ todo' = todo \ {id}
    /\ step' = "read"
    /\ UNCHANGED <<queueVars, autoSend, phase, worldVars, provenance, enters, crashes>>

\* Mutants: an empty composer alone counts as sent; the text is expected to stay.
HumanSentEmpty == composer[item] = "empty"
HumanSentKept == composer[item] = "approved" /\ Bubble(item, seen)

\* The composer is empty and the last message read is our text.
HumanSent == composer[item] = "empty" /\ Bubble(item, seen)

ReconcileConfirm ==
    /\ At("reconcile", "read")
    /\ HumanSent /\ Current(item, seen - 1)
    /\ RecordMasDelivery(item, seen)
    /\ Goto("sent")
    /\ UNCHANGED <<queueVars, worldVars, enters, crashes>>

ReconcileFinish ==
    /\ At("reconcile", "sent")
    /\ FinishAction(item, "executed")
    /\ NextRow
    /\ UNCHANGED <<worldVars, provenance, enters, crashes>>

\* Nothing changed, what changed needs a human, or looking closer failed: the
\* row is kept as it is.
ReconcileRetain ==
    /\ At("reconcile", "read")
    /\ NextRow
    /\ UNCHANGED <<queueVars, worldVars, provenance, enters, crashes>>

ReconcileClear ==
    /\ At("reconcile", "read")
    /\ composer[item] # "closed"
    /\ ~HumanSent /\ ~Current(item, seen)
    /\ composer' = Cleared(item)
    /\ Goto("stale")
    /\ UNCHANGED <<queueVars, conversation, outbox, provenance, enters, crashes>>

ReconcileOutdate ==
    /\ At("reconcile", "stale")
    /\ SetDelivery(item, "outdated")
    /\ NextRow
    /\ UNCHANGED <<worldVars, provenance, enters, crashes>>

RowsDone ==
    /\ phase \in {"reconcile", "refresh"} /\ step = "rows" /\ todo = {}
    /\ EndPhase
    /\ UNCHANGED <<queueVars, worldVars, provenance, enters, crashes>>

-----------------------------------------------------------------------------
(* Phases 2 and 3: claim one approved DM of the queue and deliver it.      *)

Claim(id) ==
    /\ step = "start"
    /\ phase \in OutboundQueueTypes
    /\ ClaimSelect(id, phase)
    /\ Goto("selected")
    /\ UNCHANGED <<worldVars, provenance, enters, crashes>>

Claimed ==
    /\ Delivering("selected")
    /\ ClaimUpdate
    /\ IF queue[claim].status = "approved"
       THEN item' = claim /\ step' = "claimed" /\ UNCHANGED <<autoSend, phase, todo, seen>>
       ELSE EndPhase
    /\ UNCHANGED <<worldVars, provenance, enters, crashes>>

MissingSnapshot ==
    /\ Delivering("claimed")
    /\ queue[item].snapshot = NoSnapshot
    /\ Goto("outdated")
    /\ UNCHANGED <<queueVars, worldVars, provenance, enters, crashes>>

\* The tab of this role is reused or opened, then navigated: the composer is
\* fresh, unless Facebook restores what it held.
Attach ==
    /\ Delivering("claimed")
    /\ queue[item].snapshot # NoSnapshot
    /\ \E text \in {"empty", composer[item]} \ {"closed"} :
           composer' = [composer EXCEPT ![item] = text]
    /\ Goto("attached")
    /\ UNCHANGED <<queueVars, conversation, outbox, provenance, enters, crashes>>

\* prepare_draft, first guard: the thread still ends with the snapshot, and the
\* composer is free.
Guard ==
    /\ Delivering("attached")
    /\ Thread(item) # <<>>
    /\ Goto(IF ~Current(item, Len(Thread(item))) THEN "outdated"
            ELSE IF composer[item] # "empty" THEN "failed" ELSE "guarded")
    /\ UNCHANGED <<queueVars, worldVars, provenance, enters, crashes>>

Fill ==
    /\ Delivering("guarded")
    /\ composer[item] # "closed"
    /\ composer' = [composer EXCEPT ![item] = "approved"]
    /\ Goto("filled")
    /\ UNCHANGED <<queueVars, conversation, outbox, provenance, enters, crashes>>

\* Second guard, after the text is in the composer.
Recheck ==
    /\ Delivering("filled")
    /\ composer[item] # "closed"
    /\ IF Current(item, Len(Thread(item))) /\ composer[item] = "approved"
       THEN Goto("checked") /\ UNCHANGED composer
       ELSE /\ Goto(IF Current(item, Len(Thread(item))) THEN "failed" ELSE "outdated")
            /\ composer' = Cleared(item)
    /\ UNCHANGED <<queueVars, conversation, outbox, provenance, enters, crashes>>

HandOver ==
    /\ Delivering("checked")
    /\ ~autoSend
    /\ Goto("drafted")
    /\ UNCHANGED <<queueVars, worldVars, provenance, enters, crashes>>

\* What Enter in the tab of `id` does: Facebook takes the text and shows it
\* later, or never; or the key press has no effect.
EnterEffect(id) ==
    \/ /\ composer[id] = "approved"
       /\ composer' = [composer EXCEPT ![id] = "empty"]
       /\ \/ outbox' = outbox \cup {id} \/ UNCHANGED outbox
       /\ UNCHANGED conversation
    \/ /\ composer[id] = "edited"
       /\ Len(Thread(id)) < MaxMessages
       /\ composer' = [composer EXCEPT ![id] = "empty"]
       /\ conversation' = Append1(queue[id].target_id,
                                  [sender |-> "Page", text |-> OtherText])
       /\ UNCHANGED outbox
    \/ UNCHANGED worldVars

Press ==
    /\ Delivering("checked")
    /\ autoSend
    /\ EnterEffect(item)
    /\ enters' = [enters EXCEPT ![item] = @ + 1]
    /\ Goto("pressed")
    /\ UNCHANGED <<queueVars, provenance, crashes>>

\* Mutant: an empty composer and any new message count as sent.
SendSeenEmpty == composer[item] = "empty" /\ Len(Thread(item)) > queue[item].snapshot

\* The composer is empty, and the thread ends with our text in a message that
\* was not there before.
SendSeen == /\ composer[item] = "empty"
            /\ Bubble(item, Len(Thread(item)))
            /\ Len(Thread(item)) > queue[item].snapshot

Confirm ==
    /\ Delivering("pressed")
    /\ SendSeen
    /\ IF Current(item, Len(Thread(item)) - 1)
       THEN RecordMasDelivery(item, Len(Thread(item))) /\ Goto("sent")
       ELSE UNCHANGED provenance /\ Goto("outdated")
    /\ UNCHANGED <<queueVars, worldVars, enters, crashes>>

\* Mutant: an unconfirmed send is tried again.
GiveUpRetries ==
    /\ Delivering("pressed")
    /\ ~SendSeen
    /\ Goto("checked")
    /\ UNCHANGED <<queueVars, worldVars, provenance, enters, crashes>>

\* Ten polls without the bubble: send_unconfirmed.
GiveUp ==
    /\ Delivering("pressed")
    /\ ~SendSeen
    /\ composer' = Cleared(item)
    /\ Goto("failed")
    /\ UNCHANGED <<queueVars, conversation, outbox, provenance, enters, crashes>>

\* The browser may raise at any point; the clean-up itself may fail too.
BrowserError ==
    /\ phase \in OutboundQueueTypes
    /\ step \in {"claimed", "attached", "guarded", "filled", "checked", "pressed"}
    /\ \/ UNCHANGED composer
       \/ step \in {"filled", "checked", "pressed"} /\ composer' = Cleared(item)
    /\ Goto("failed")
    /\ UNCHANGED <<queueVars, conversation, outbox, provenance, enters, crashes>>

\* hitl_execution_job writes the outcome and goes on with the next phase.
Settle ==
    /\ phase \in OutboundQueueTypes
    /\ \/ step = "sent" /\ FinishAction(item, "executed")
       \/ step = "failed" /\ FinishAction(item, "failed")
       \/ step \in {"drafted", "outdated"} /\ SetDelivery(item, step)
    /\ EndPhase
    /\ UNCHANGED <<worldVars, provenance, enters, crashes>>

-----------------------------------------------------------------------------
(* Phase 4, refresh_outdated_actions: refetch the threads of Out-date      *)
(* rows, the oldest RefreshLimit of them.                                  *)

RefreshSelect ==
    /\ At("refresh", "start")
    /\ todo' = {id \in Rows : /\ Refetchable(id)
                              /\ Cardinality({r \in 1 .. id : Refetchable(r)}) <= RefreshLimit}
    /\ todo' # {}
    /\ step' = "rows"
    /\ UNCHANGED <<queueVars, autoSend, phase, item, seen, worldVars,
                   provenance, enters, crashes>>

Oldest(ids) == {id \in ids : \A other \in ids : id <= other}

\* Mutant: the payload goes back the way it was read.
RefreshRowStale(id) ==
    /\ At("refresh", "rows")
    /\ id \in Oldest(todo)
    /\ RefreshWrite(id, queue[id].fetch_request)
    /\ todo' = todo \ {id}
    /\ UNCHANGED <<autoSend, phase, step, item, seen, worldVars,
                   provenance, enters, crashes>>

\* The fetch succeeded, or found evidence a human must review.
RefreshRow(id) ==
    /\ At("refresh", "rows")
    /\ id \in Oldest(todo)
    /\ \E outcome \in {"completed", "needs_review"} : RefreshWrite(id, outcome)
    /\ todo' = todo \ {id}
    /\ UNCHANGED <<autoSend, phase, step, item, seen, worldVars,
                   provenance, enters, crashes>>

\* The fetch failed: the payload is written back with the request pending.
RefreshError(id) ==
    /\ At("refresh", "rows")
    /\ id \in Oldest(todo)
    /\ RefreshWrite(id, "pending")
    /\ todo' = todo \ {id}
    /\ UNCHANGED <<autoSend, phase, step, item, seen, worldVars,
                   provenance, enters, crashes>>

-----------------------------------------------------------------------------
(* Phase 5, poll_telegram_updates: a reaction approves, a reply rejects.   *)

TelegramDecision(id) ==
    /\ At("telegram", "start")
    /\ \/ ApproveAction(id) /\ enters' = [enters EXCEPT ![id] = 0]
       \/ RejectAction(id) /\ UNCHANGED enters
    /\ UNCHANGED <<workerVars, worldVars, provenance, crashes>>

-----------------------------------------------------------------------------
(* The worker dies; the database, Facebook and the tabs survive.  A failed *)
(* commit that aborts the cycle leaves the same state.  It may come back   *)
(* with the other delivery mode.                                           *)

Crash ==
    /\ crashes < MaxCrashes
    /\ crashes' = crashes + 1
    /\ \/ ClaimRollback
       \/ claim = NoId /\ UNCHANGED queueVars
    /\ phase' = "reconcile" /\ step' = "start"
    /\ item' = NoId /\ todo' = {} /\ seen' = 0
    /\ autoSend' \in Modes
    /\ UNCHANGED <<worldVars, provenance, enters>>

-----------------------------------------------------------------------------
(* Everybody else.                                                         *)

\* A proposal's snapshot is some prefix of the thread: what the database held
\* when the MAS run started, possibly long before the INSERT.
Proposed ==
    /\ \E qtype \in OutboundQueueTypes, target \in Targets, kind \in Kinds, text \in Texts :
         \E snapshot \in 0 .. Len(conversation[target]) :
           LET row == Proposal(qtype, target, kind, text, snapshot)
           IN  EnqueueAction(row) \/ \E e \in Engines : ReplaceSelect(e, row)
    /\ UNCHANGED <<workerVars, worldVars, provenance, enters, crashes>>

Regenerated ==
    /\ Replace
    /\ UNCHANGED <<workerVars, worldVars, provenance, enters, crashes>>

OperatorApproves(id) ==
    /\ WebApprove(id) \/ WebReprocess(id)
    /\ enters' = [enters EXCEPT ![id] = 0]
    /\ UNCHANGED <<workerVars, worldVars, provenance, crashes>>

OperatorDiscards(id) ==
    /\ WebReject(id) \/ WebDelete(id)
    /\ UNCHANGED <<workerVars, worldVars, provenance, enters, crashes>>

\* A seeker writes, or somebody answers for the Page outside the tabs.
MessageArrives(target, message) ==
    /\ Len(conversation[target]) < MaxMessages
    /\ conversation' = Append1(target, message)
    /\ UNCHANGED <<queueVars, workerVars, outbox, composer, provenance, enters, crashes>>

\* A sent text shows up in its thread.
MessageDelivered(id) ==
    /\ id \in outbox
    /\ Len(Thread(id)) < MaxMessages
    /\ outbox' = outbox \ {id}
    /\ conversation' = Append1(queue[id].target_id,
                               [sender |-> "Page", text |-> queue[id].action_text])
    /\ UNCHANGED <<queueVars, workerVars, composer, provenance, enters, crashes>>

\* The operator edits, empties or closes the tab, or presses Enter in it.
OperatorTypes(id) ==
    /\ composer[id] # "closed"
    /\ composer' \in {[composer EXCEPT ![id] = text] : text \in TabActs}
    /\ UNCHANGED <<queueVars, workerVars, conversation, outbox, provenance, enters, crashes>>

OperatorEnter(id) ==
    /\ composer[id] # "closed"
    /\ EnterEffect(id)
    /\ UNCHANGED <<queueVars, workerVars, provenance, enters, crashes>>

-----------------------------------------------------------------------------
(* Specification.                                                          *)

Init ==
    /\ QueueInit
    /\ autoSend \in Modes
    /\ phase = "reconcile" /\ step = "start"
    /\ item = NoId /\ todo = {} /\ seen = 0
    /\ conversation = [target \in Targets |-> <<[sender |-> "Customer", text |-> OtherText]>>]
    /\ outbox = {}
    /\ composer = [id \in Ids |-> "closed"]
    /\ provenance = [id \in Ids |-> 0]
    /\ enters = [id \in Ids |-> 0]
    /\ crashes = 0

Reconcile == \/ ReconcileSelect \/ ReconcileConfirm \/ ReconcileFinish
             \/ ReconcileRetain \/ ReconcileClear \/ ReconcileOutdate
             \/ \E id \in Rows : ReconcileMiss(id) \/ ReconcileRead(id)

Deliver == \/ \E id \in Rows : Claim(id)
           \/ Claimed \/ MissingSnapshot \/ Attach \/ Guard \/ Fill \/ Recheck
           \/ HandOver \/ Press \/ Confirm \/ GiveUp \/ BrowserError \/ Settle

Refresh == RefreshSelect \/ \E id \in Rows : RefreshRow(id) \/ RefreshError(id)

Worker == Reconcile \/ Deliver \/ Refresh \/ RowsDone \/ SkipPhase

People == \/ Proposed \/ Regenerated
          \/ \E id \in Rows : \/ OperatorApproves(id) \/ OperatorDiscards(id)
                              \/ OperatorTypes(id) \/ OperatorEnter(id)
                              \/ MessageDelivered(id) \/ TelegramDecision(id)
          \/ \E target \in Targets, message \in Message : MessageArrives(target, message)

Next == Worker \/ People \/ Crash

Spec == Init /\ [][Next]_vars

-----------------------------------------------------------------------------
(* Properties.                                                             *)

Steps == {"start", "rows", "read", "stale", "selected", "claimed", "attached", "guarded",
          "filled", "checked", "pressed", "sent", "drafted", "outdated", "failed"}

\* Every variable has its type.
TypeOK ==
    /\ QueueTypeOK
    /\ autoSend \in Modes
    /\ phase \in DOMAIN NextPhase /\ step \in Steps
    /\ item \in {NoId} \cup Rows
    /\ todo \subseteq Rows
    /\ seen \in 0 .. MaxMessages
    /\ conversation \in [Targets -> Seq(Message)]
    /\ \A target \in Targets : Len(conversation[target]) <= MaxMessages
    /\ outbox \subseteq Rows
    /\ composer \in [Ids -> Composer]
    /\ provenance \in [Ids -> 0 .. MaxMessages]
    /\ enters \in [Ids -> Nat]
    /\ crashes \in 0 .. MaxCrashes

\* route.ts:36-38: a worker cannot lose the action it has already claimed.  While
\* the worker works on a row from memory, the table still says executing, and a
\* human had approved it; nobody reopens, rejects or deletes it underneath.
ClaimHeld ==
    phase \in OutboundQueueTypes /\ item # NoId =>
        /\ queue[item].status = "executing"
        /\ queue[item].approved_at
        /\ queue[item].delivery_status # "drafted"

\* README.md:93: the worker never retries an uncertain send automatically.
\* Between two Enter presses for one row a human has approved it again, through
\* crashes, restarts, unconfirmed sends and refetches.
AtMostOneEnterPerApproval == \A id \in Ids : enters[id] <= 1

\* README.md:91-92: executed means the approved text was confirmed as a new Page
\* message; it directly follows the message the proposal was written for.
ExecutedMeansDelivered ==
    \A id \in Rows : queue[id].status = "executed" =>
        /\ queue[id].snapshot < Len(Thread(id))
        /\ Bubble(id, queue[id].snapshot + 1)

\* Provenance names the delivered message of its action and of no other action
\* (l5_delivery_guard.py:181-199), also when the worker dies before the row is
\* finished and the confirmation is repeated.
ProvenanceExact ==
    \A id \in Rows : provenance[id] # 0 =>
        /\ provenance[id] = queue[id].snapshot + 1
        /\ provenance[id] <= Len(Thread(id))
        /\ Bubble(id, provenance[id])
        /\ \A other \in Rows \ {id} :
               queue[other].target_id = queue[id].target_id => provenance[other] # provenance[id]

\* The executor keeps DeliveryPromise: executing rows are the held messages,
\* approved rows the grants, Enter presses the attempts.
Promise == INSTANCE DeliveryPromise WITH
    Messages    <- Ids,
    Recipients  <- Targets,
    NoRecipient <- NoId,
    recipient   <- [id \in Ids |-> IF id \in Rows THEN queue[id].target_id ELSE NoId],
    granted     <- {id \in Rows : queue[id].status = "approved"},
    held        <- {id \in Rows : queue[id].status = "executing"},
    attempts    <- enters

\* Every behaviour of the executor is one the promise allows: presses of Enter,
\* claims, reopened rows and crashes included.
KeepsPromise == Promise!Spec

-----------------------------------------------------------------------------
(* Fairness.  systemd keeps the worker running, a transaction it meets ends *)
(* (SQLite waits for the lock), and a phase that could do its work again    *)
(* and again does it in the end: no fetch holds the browser at each visit,  *)
(* and Facebook can be read now and then.  Nobody else has to act at all.   *)

WorkerFairness == SF_vars(Worker) /\ WF_vars(Regenerated)

ClaimFairness == \A id \in Ids : SF_vars(id \in Rows /\ Claim(id))

ReconcileFairness ==
    /\ SF_vars(ReconcileSelect) /\ SF_vars(ReconcileConfirm) /\ SF_vars(ReconcileClear)
    /\ \A id \in Ids : SF_vars(id \in Rows /\ ReconcileRead(id))

RefreshFairness ==
    SF_vars(RefreshSelect) /\ \A id \in Ids : SF_vars(id \in Rows /\ RefreshRow(id))

FairSpec == Spec /\ WorkerFairness /\ ClaimFairness /\ ReconcileFairness /\ RefreshFairness

\* Less fairness is enough for what is said of claims, and of drafts and refetches.
ClaimSpec == Spec /\ WorkerFairness /\ ClaimFairness
FollowUpSpec == Spec /\ WorkerFairness /\ ReconcileFairness /\ RefreshFairness

Approved(id) == id \in Rows /\ queue[id].status = "approved"
Executed(id) == id \in Rows /\ queue[id].status = "executed"
Awaiting(id) == id \in Rows /\ Drafted(id)

\* README.md:69-70: pending drafts for other seekers do not block an approved
\* action, another active DM for the same recipient does.  An approved row waits
\* for ever only behind an executing DM to its own recipient, or because an older
\* row of its queue is approved again and again.
OnlySameRecipientBlocks ==
    \A id \in Ids :
        LET Waiting == /\ Approved(id) /\ ~Busy(id)
                       /\ \A older \in 1 .. id - 1 :
                              /\ queue[older].queue_type = queue[id].queue_type
                              => queue[older].status # "approved"
        IN  Waiting ~> ~Waiting

\* A draft handed to the operator is taken out of the composer once the seeker
\* has written again, unless the operator was faster, with the text or with
\* "re-process" (reconcile_drafts, l5_delivery_guard.py:316-322).
StaleDraftWithdrawn ==
    \A id \in Ids :
        LET Stale == /\ Awaiting(id)
                     /\ composer[id] = "approved"
                     /\ ~Current(id, Len(Thread(id)))
        IN  Stale ~> composer[id] # "approved" \/ Approved(id)

\* A draft the operator sent with Enter becomes executed on a later cycle, as
\* long as nothing else happens to the thread, the tab or the row (README.md:91-93).
\* A text the worker is just taking out of the composer was not sent from there.
ManualSendConfirmed ==
    \A id \in Ids :
        LET Undisturbed == /\ id \in Rows
                           /\ composer[id] = "empty"
                           /\ Len(Thread(id)) = queue[id].snapshot + 1
            Sent == /\ Awaiting(id) /\ ~(step = "stale" /\ item = id)
                    /\ Undisturbed /\ Bubble(id, Len(Thread(id)))
        IN  Sent ~> Executed(id) \/ Approved(id) \/ ~Undisturbed

\* The refetch an Out-date row asks for is durable: it is retried until it is
\* completed or handed to a human (README.md:99-101).
RefetchServed ==
    \A id \in Ids :
        LET Asked == id \in Rows /\ Refetchable(id)
        IN  Asked ~> ~Asked
=============================================================================
