-------------------------- MODULE HitlDeliveryProofs --------------------------
(***************************************************************************)
(* What the executor of HitlDelivery guarantees for every number of        *)
(* proposals, recipients and messages, any length of the conversations,    *)
(* any number of crashes and both delivery modes.                          *)
(*                                                                         *)
(* Three inductive invariants, two of them on top of the first:            *)
(*   BaseInv      the table's own invariant (every step of the executor is *)
(*                one the table allows), the types, a row in hand when one *)
(*                is worked on;                                            *)
(*   HeldInv      SQLite only: what a transaction read is still so when it *)
(*                writes, an approved row starts with no Enter counted, a  *)
(*                row in preparation has none;                             *)
(*   DeliveryInv  a confirmation has found the approved text right after   *)
(*                the message it answers, where it stays.                  *)
(* The last part shows that the executor implements DeliveryPromise.       *)
(***************************************************************************)
EXTENDS HitlDelivery, ActionQueueProofs, SequenceTheorems

\* Steps at which the worker works on the row `item`; at Preparing it has not
\* pressed Enter for it.
Preparing == {"claimed", "attached", "guarded", "filled", "checked"}
Holding == Preparing \cup {"read", "stale", "pressed", "sent", "drafted", "outdated", "failed"}

\* The worker's variables have their types.
WorkerTypeOK ==
    /\ autoSend \in Modes
    /\ phase \in DOMAIN NextPhase /\ step \in Steps
    /\ item \in {NoId} \cup Rows
    /\ todo \subseteq Rows
    /\ seen \in 0 .. MaxMessages

\* So have the tabs, what is sent and what is recorded.
WorldTypeOK ==
    /\ outbox \subseteq Rows
    /\ composer \in [Ids -> Composer]
    /\ provenance \in [Ids -> 0 .. MaxMessages]
    /\ enters \in [Ids -> Nat]
    /\ crashes \in 0 .. MaxCrashes

\* Conversations are sequences that never outgrow the bound.
ThreadsOK ==
    /\ conversation \in [Targets -> Seq(Message)]
    /\ \A target \in Targets : Len(conversation[target]) <= MaxMessages

\* The worker holds a row whenever it works on one.
ItemHeld == step \in Holding => item \in Rows

\* A refetch that fails leaves its request pending; ActionQueue's workers never do.
Refetched == \E id \in Rows : RefreshWrite(id, "pending")

-----------------------------------------------------------------------------
(* The table under the executor.                                           *)

\* A proposal's snapshot is a position of the thread.
LEMMA ProposedProposes ==
    ASSUME ThreadsOK, Proposed
    PROVE  Propose
  <1>1. PICK qtype \in OutboundQueueTypes, target \in Targets, kind \in Kinds, text \in Texts :
               \E snapshot \in 0 .. Len(conversation[target]) :
                 LET row == Proposal(qtype, target, kind, text, snapshot)
                 IN  EnqueueAction(row) \/ \E e \in Engines : ReplaceSelect(e, row)
    BY DEF Proposed
  <1>2. PICK snapshot \in 0 .. Len(conversation[target]) :
                 LET row == Proposal(qtype, target, kind, text, snapshot)
                 IN  EnqueueAction(row) \/ \E e \in Engines : ReplaceSelect(e, row)
    BY <1>1
  <1>3. snapshot \in Snapshots
    BY MessagesAssumption DEF ThreadsOK
  <1> QED
    BY <1>2, <1>3, QueueTypesAssumption DEF Propose

\* Whatever the executor and the people do is something the table's own
\* specification allows, or a failed refetch.
LEMMA TableStep ==
    ASSUME WorkerTypeOK, ThreadsOK, ItemHeld, Next
    PROVE  [QueueNext]_queueVars \/ Refetched
  <1>1. CASE Reconcile
    <2>1. ReconcileFinish => Work
      BY DEF ReconcileFinish, At, ItemHeld, Holding, Work
    <2>2. ReconcileOutdate => Work
      BY DEF ReconcileOutdate, At, ItemHeld, Holding, Work
    <2>3. Reconcile => ReconcileFinish \/ ReconcileOutdate \/ UNCHANGED queueVars
      BY DEF Reconcile, ReconcileSelect, ReconcileConfirm, ReconcileRetain, ReconcileClear,
             ReconcileMiss, ReconcileRead
    <2> QED
      BY <1>1, <2>1, <2>2, <2>3 DEF QueueNext
  <1>2. CASE Deliver
    <2>1. Claimed => ClaimUpdate
      BY DEF Claimed
    <2>2. (\E id \in Rows : Claim(id)) => Work
      BY DEF Claim, Work
    <2>3. Settle => Work
      BY DEF Settle, ItemHeld, Holding, Work
    <2>4. Deliver => \/ Claimed \/ Settle \/ \E id \in Rows : Claim(id)
                     \/ UNCHANGED queueVars
      BY DEF Deliver, MissingSnapshot, Attach, Guard, Fill, Recheck, HandOver, Press, Confirm,
             GiveUp, BrowserError
    <2> QED
      BY <1>2, <2>1, <2>2, <2>3, <2>4 DEF QueueNext
  <1>3. CASE Refresh \/ RowsDone \/ SkipPhase
    <2>1. Refresh => Work \/ Refetched \/ UNCHANGED queueVars
      BY DEF Refresh, RefreshSelect, RefreshRow, RefreshError, Work, Refetched
    <2> QED
      BY <1>3, <2>1 DEF RowsDone, SkipPhase, QueueNext
  <1>4. CASE People
    <2>1. Proposed => Propose
      BY ProposedProposes
    <2>2. Regenerated => Replace
      BY DEF Regenerated
    <2>3. ASSUME NEW id \in Rows, OperatorApproves(id) \/ OperatorDiscards(id)
                                    \/ TelegramDecision(id)
          PROVE  Decide
      BY <2>3 DEF OperatorApproves, OperatorDiscards, TelegramDecision, Decide
    <2>4. ASSUME NEW id \in Rows, OperatorTypes(id) \/ OperatorEnter(id) \/ MessageDelivered(id)
          PROVE  UNCHANGED queueVars
      BY <2>4 DEF OperatorTypes, OperatorEnter, MessageDelivered
    <2>5. ASSUME NEW target, NEW message, MessageArrives(target, message)
          PROVE  UNCHANGED queueVars
      BY <2>5 DEF MessageArrives
    <2> QED
      BY <1>4, <2>1, <2>2, <2>3, <2>4, <2>5 DEF People, QueueNext
  <1>5. CASE Crash
    BY <1>5 DEF Crash, QueueNext
  <1> QED
    BY <1>1, <1>2, <1>3, <1>4, <1>5 DEF Next, Worker

\* A failed refetch disturbs nothing the table promises.
LEMMA RefetchInv ==
    ASSUME QueueInv, SerialWriters, Refetched
    PROVE  QueueInv' /\ SerialWriters'
  <1>1. PICK id \in Rows : RefreshWrite(id, "pending")
    BY DEF Refetched
  <1>2. QueueTypeOK
    BY DEF QueueInv
  <1>3. NoneLivelier(queue') /\ UNCHANGED <<lastId, regen, claim>>
    BY <1>1, <1>2, ZenonT(30) DEF RefreshWrite, QueueTypeOK, Row, NoneLivelier, Updates, Live
  <1>4. ClaimClear' /\ OneDmPerRecipient' /\ OneLivePerSlot'
    BY <1>3, QuietUpdate
  <1>5. QueueTypeOK'
    BY <1>2, <1>3, UpdateTypes DEF NoneLivelier
  <1>6. SerialWriters'
    BY <1>1 DEF RefreshWrite, Unlocked, SerialWriters
  <1> QED
    BY <1>3, <1>4, <1>5, <1>6 DEF QueueInv, PendingRegen

\* A row is never about anything else than what it was written for.
RowsKept ==
    /\ Rows \subseteq Rows'
    /\ \A id \in Rows : /\ queue'[id].target_id = queue[id].target_id
                        /\ queue'[id].queue_type = queue[id].queue_type
                        /\ queue'[id].action_text = queue[id].action_text
                        /\ queue'[id].snapshot = queue[id].snapshot
                        /\ queue'[id].kind = queue[id].kind

\* No statement of the table's operations changes what a row is about.
LEMMA RowsKeptStep ==
    ASSUME QueueInv, [QueueNext]_queueVars \/ Refetched
    PROVE  RowsKept
  <1>1. QueueTypeOK /\ queue \in [Rows -> Row] /\ lastId \in Nat
    <2>1. QueueTypeOK
      BY DEF QueueInv
    <2>2. lastId \in 0 .. MaxId /\ queue \in [Rows -> Row]
      BY <2>1 DEF QueueTypeOK
    <2> QED
      BY <2>1, <2>2, MaxIdAssumption
  <1>2. CASE queue' = queue /\ lastId' = lastId
    BY <1>2 DEF RowsKept, Rows
  <1>3. ASSUME NEW table \in [Rows -> Row], NEW row \in Row,
               \A id \in Rows : /\ table[id].target_id = queue[id].target_id
                               /\ table[id].queue_type = queue[id].queue_type
                               /\ table[id].action_text = queue[id].action_text
                               /\ table[id].snapshot = queue[id].snapshot
                               /\ table[id].kind = queue[id].kind,
               queue' = Inserted(table, row), lastId' = lastId + 1
        PROVE  RowsKept
    <2>1. Rows \subseteq Rows'
      BY <1>1, <1>3 DEF Rows
    <2>2. \A id \in Rows : queue'[id] = table[id]
      BY <1>1, <1>3, InsertedRow
    <2> QED
      BY <1>3, <2>1, <2>2 DEF RowsKept
  <1>4. CASE Propose
    <2>1. PICK qtype \in QueueTypes, target \in Targets, kind \in Kinds,
               text \in Texts, snapshot \in Snapshots :
               LET row == Proposal(qtype, target, kind, text, snapshot)
               IN  EnqueueAction(row) \/ \E e \in Engines : ReplaceSelect(e, row)
      BY <1>4 DEF Propose
    <2> DEFINE row == Proposal(qtype, target, kind, text, snapshot)
    <2>2. row \in Row
      BY ProposalRow
    <2> HIDE DEF row
    <2>3. CASE EnqueueAction(row)
      BY <1>1, <1>3, <2>2, <2>3 DEF EnqueueAction
    <2>4. ASSUME NEW e \in Engines, ReplaceSelect(e, row) PROVE RowsKept
      BY <1>2, <2>4 DEF ReplaceSelect
    <2> QED
      BY <2>1, <2>3, <2>4 DEF row
  <1>5. ASSUME NEW e \in Engines, ReplaceCommit(e)
        PROVE  RowsKept
    <2>1. regen[e].row \in Row
      BY <1>1, <1>5, OpenTx DEF ReplaceCommit
    <2>2. Rejected(regen[e].old) \in [Rows -> Row]
      BY <1>1, RejectedUpdates DEF NoneLivelier, Updates
    <2>3. \A id \in Rows : /\ Rejected(regen[e].old)[id].target_id = queue[id].target_id
                          /\ Rejected(regen[e].old)[id].queue_type = queue[id].queue_type
                          /\ Rejected(regen[e].old)[id].action_text = queue[id].action_text
                          /\ Rejected(regen[e].old)[id].snapshot = queue[id].snapshot
                          /\ Rejected(regen[e].old)[id].kind = queue[id].kind
      BY <1>1 DEF Rejected, Row
    <2> QED
      BY <1>3, <1>5, <2>1, <2>2, <2>3 DEF ReplaceCommit
  <1>6. ASSUME NEW id \in Rows, lastId' = lastId,
               \/ \E status : queue' = SetStatus(id, status)
               \/ queue' = SetApproved(id)
        PROVE  RowsKept
    <2>1. ASSUME NEW status, queue' = SetStatus(id, status) PROVE RowsKept
      BY <1>1, <1>6, <2>1, ZenonT(30) DEF SetStatus, Row, RowsKept, Rows
    <2>2. CASE queue' = SetApproved(id)
      BY <1>1, <1>6, <2>2, ZenonT(30) DEF SetApproved, Row, RowsKept, Rows
    <2> QED
      BY <1>6, <2>1, <2>2
  <1>7. CASE Decide
    BY <1>6, <1>7 DEF Decide, ApproveAction, RejectAction, WebApprove, WebReject, WebReprocess,
                      WebDelete
  <1>8. CASE Work
    <2>1. PICK id \in Rows :
            \/ \E qtype \in OutboundQueueTypes : ClaimSelect(id, qtype)
            \/ \E outcome \in {"executed", "failed"} : FinishAction(id, outcome)
            \/ \E outcome \in {"drafted", "outdated"} : SetDelivery(id, outcome)
            \/ \E outcome \in {"completed", "needs_review"} : RefreshWrite(id, outcome)
      BY <1>8 DEF Work
    <2>2. ASSUME NEW qtype, ClaimSelect(id, qtype) PROVE RowsKept
      BY <1>2, <2>2 DEF ClaimSelect
    <2>3. ASSUME NEW outcome, FinishAction(id, outcome) PROVE RowsKept
      BY <1>2, <1>6, <2>3 DEF FinishAction
    <2>4. ASSUME NEW outcome, SetDelivery(id, outcome) PROVE RowsKept
      BY <1>1, <2>4, ZenonT(30) DEF SetDelivery, Row, RowsKept, Rows
    <2>5. ASSUME NEW outcome, RefreshWrite(id, outcome) PROVE RowsKept
      BY <1>1, <2>5 DEF RefreshWrite, Row, RowsKept, Rows
    <2> QED
      BY <2>1, <2>2, <2>3, <2>4, <2>5
  <1>9. CASE ClaimUpdate
    <2>1. claim \in Rows
      BY <1>1, <1>9 DEF QueueTypeOK, ClaimUpdate
    <2> QED
      BY <1>2, <1>6, <1>9, <2>1 DEF ClaimUpdate
  <1>10. CASE Refetched
    <2>1. PICK id \in Rows : RefreshWrite(id, "pending")
      BY <1>10 DEF Refetched
    <2> QED
      BY <1>1, <2>1 DEF RefreshWrite, Row, RowsKept, Rows
  <1> QED
    BY <1>2, <1>4, <1>5, <1>7, <1>8, <1>9, <1>10
       DEF QueueNext, Replace, ReplaceRollback, ClaimRollback, queueVars
-----------------------------------------------------------------------------
(* Types.                                                                  *)

\* The phases and what follows each of them.
LEMMA PhaseFacts ==
    /\ DOMAIN NextPhase = {"reconcile", "reply_message", "proactive_message", "refresh", "telegram"}
    /\ \A p \in DOMAIN NextPhase : NextPhase[p] \in DOMAIN NextPhase
    /\ OutboundQueueTypes \subseteq DOMAIN NextPhase
  BY DEF NextPhase, OutboundQueueTypes

\* What every step of the worker does to its own variables.
LEMMA WorkerStep ==
    ASSUME QueueTypeOK, WorkerTypeOK, ThreadsOK, ItemHeld, Rows \subseteq Rows', Next
    PROVE  WorkerTypeOK' /\ ItemHeld'
  <1> USE PhaseFacts
  <1>1. CASE UNCHANGED workerVars
    BY <1>1 DEF workerVars, WorkerTypeOK, ItemHeld
  <1>2. CASE EndPhase
    BY <1>2 DEF EndPhase, WorkerTypeOK, ItemHeld, Holding, Preparing, Steps
  <1>3. CASE NextRow
    BY <1>3, MessagesAssumption DEF NextRow, WorkerTypeOK, ItemHeld, Holding, Preparing, Steps
  <1>4. ASSUME NEW s \in Steps, Goto(s), step \in Holding \/ s \notin Holding
        PROVE  WorkerTypeOK' /\ ItemHeld'
    BY <1>4 DEF Goto, WorkerTypeOK, ItemHeld
  <1>5. CASE Reconcile
    <2>1. CASE ReconcileSelect
      BY <2>1 DEF ReconcileSelect, WorkerTypeOK, ItemHeld, Holding, Preparing, Steps
    <2>2. CASE ReconcileFinish \/ ReconcileRetain \/ ReconcileOutdate
      BY <1>3, <2>2 DEF ReconcileFinish, ReconcileRetain, ReconcileOutdate
    <2>3. CASE ReconcileConfirm \/ ReconcileClear
      BY <1>4, <2>3 DEF ReconcileConfirm, ReconcileClear, At, Holding, Steps
    <2>4. ASSUME NEW id \in Rows, ReconcileMiss(id)
          PROVE  WorkerTypeOK' /\ ItemHeld'
      BY <2>4 DEF ReconcileMiss, At, WorkerTypeOK, ItemHeld, Holding, Preparing
    <2>5. ASSUME NEW id \in Rows, ReconcileRead(id)
          PROVE  WorkerTypeOK' /\ ItemHeld'
      <3>1. queue[id].target_id \in Targets
        BY DEF QueueTypeOK, Row
      <3>2. Len(Thread(id)) \in 0 .. MaxMessages
        BY <3>1, MessagesAssumption DEF ThreadsOK, Thread
      <3> QED
        BY <2>5, <3>2 DEF ReconcileRead, WorkerTypeOK, ItemHeld, Steps
    <2> QED
      BY <1>5, <2>1, <2>2, <2>3, <2>4, <2>5 DEF Reconcile
  <1>6. CASE Deliver
    <2>1. ASSUME NEW id \in Rows, Claim(id)
          PROVE  WorkerTypeOK' /\ ItemHeld'
      BY <1>4, <2>1 DEF Claim, Holding, Preparing, Steps
    <2>2. CASE Claimed
      <3>1. claim \in Rows
        BY <2>2 DEF Claimed, ClaimUpdate, QueueTypeOK
      <3> QED
        BY <1>2, <2>2, <3>1 DEF Claimed, WorkerTypeOK, ItemHeld, Steps
    <2>3. CASE MissingSnapshot \/ Attach \/ Guard \/ Fill \/ Recheck \/ HandOver
      BY <1>4, <2>3 DEF MissingSnapshot, Attach, Guard, Fill, Recheck, HandOver, Delivering,
                        Holding, Preparing, Steps
    <2>4. CASE Press \/ Confirm \/ GiveUp \/ BrowserError
      BY <1>4, <2>4 DEF Press, Confirm, GiveUp, BrowserError, Delivering, Holding, Preparing, Steps
    <2>5. CASE Settle
      BY <1>2, <2>5 DEF Settle
    <2> QED
      BY <1>6, <2>1, <2>2, <2>3, <2>4, <2>5 DEF Deliver
  <1>7. CASE Refresh
    <2>1. CASE RefreshSelect
      BY <2>1 DEF RefreshSelect, WorkerTypeOK, ItemHeld, Holding, Preparing, Steps
    <2>2. ASSUME NEW id \in Rows, RefreshRow(id) \/ RefreshError(id)
          PROVE  WorkerTypeOK' /\ ItemHeld'
      BY <2>2 DEF RefreshRow, RefreshError, WorkerTypeOK, ItemHeld
    <2> QED
      BY <1>7, <2>1, <2>2 DEF Refresh
  <1>8. CASE RowsDone \/ SkipPhase
    BY <1>2, <1>8 DEF RowsDone, SkipPhase
  <1>9. CASE People
    BY <1>1, <1>9 DEF People, Proposed, Regenerated, OperatorApproves, OperatorDiscards,
                      OperatorTypes, OperatorEnter, MessageDelivered, TelegramDecision,
                      MessageArrives, workerVars
  <1>10. CASE Crash
    BY <1>10, MessagesAssumption DEF Crash, WorkerTypeOK, ItemHeld, Holding, Preparing, Steps
  <1> QED
    BY <1>5, <1>6, <1>7, <1>8, <1>9, <1>10 DEF Next, Worker
\* Messages are appended and never edited or taken back.
ThreadsGrow ==
    \A target \in Targets :
        /\ Len(conversation[target]) <= Len(conversation'[target])
        /\ \A n \in 1 .. Len(conversation[target]) :
               conversation'[target][n] = conversation[target][n]

\* One message more.
LEMMA AppendOne ==
    ASSUME ThreadsOK, NEW target \in Targets, NEW message \in Message,
           Len(conversation[target]) < MaxMessages,
           conversation' = Append1(target, message)
    PROVE  ThreadsOK' /\ ThreadsGrow
  <1> DEFINE old == conversation[target]
             new == Append(old, message)
  <1>1. old \in Seq(Message)
    BY DEF ThreadsOK
  <1>2. /\ new \in Seq(Message)
        /\ Len(new) = Len(old) + 1
        /\ \A n \in 1 .. Len(old) : new[n] = old[n]
    BY <1>1, AppendProperties
  <1>3. conversation' = [conversation EXCEPT ![target] = new]
    BY DEF Append1
  <1>4. Len(old) \in Nat /\ Len(old) < MaxMessages /\ MaxMessages \in Nat
    BY <1>1, MessagesAssumption
  <1> HIDE DEF new
  <1>5. ThreadsOK'
    BY <1>2, <1>3, <1>4 DEF ThreadsOK
  <1>6. ThreadsGrow
    BY <1>2, <1>3, <1>4 DEF ThreadsOK, ThreadsGrow
  <1> QED
    BY <1>5, <1>6

\* What Enter does to a thread.
LEMMA EnterThread ==
    ASSUME QueueTypeOK, ThreadsOK, NEW id \in Rows, EnterEffect(id)
    PROVE  ThreadsOK' /\ ThreadsGrow
  <1>1. CASE UNCHANGED conversation
    BY <1>1 DEF ThreadsOK, ThreadsGrow
  <1>2. CASE /\ Len(Thread(id)) < MaxMessages
             /\ conversation' = Append1(queue[id].target_id,
                                        [sender |-> "Page", text |-> OtherText])
    <2>1. queue[id].target_id \in Targets
      BY DEF QueueTypeOK, Row
    <2>2. [sender |-> "Page", text |-> OtherText] \in Message
      BY DEF Message
    <2> QED
      BY <1>2, <2>1, <2>2, AppendOne DEF Thread
  <1> QED
    BY <1>1, <1>2 DEF EnterEffect, worldVars

\* Conversations keep their type and only grow.
LEMMA ThreadsStep ==
    ASSUME QueueTypeOK, WorkerTypeOK, ThreadsOK, ItemHeld, Next
    PROVE  ThreadsOK' /\ ThreadsGrow
  <1>1. CASE UNCHANGED conversation
    BY <1>1 DEF ThreadsOK, ThreadsGrow
  <1>2. CASE Reconcile
    BY <1>1, <1>2 DEF Reconcile, ReconcileSelect, ReconcileConfirm, ReconcileFinish,
                      ReconcileRetain, ReconcileClear, ReconcileOutdate, ReconcileMiss,
                      ReconcileRead, worldVars
  <1>3. CASE Deliver
    <2>1. CASE Press
      BY <2>1, EnterThread DEF Press, Delivering, ItemHeld, Holding, Preparing
    <2> QED
      BY <1>1, <1>3, <2>1 DEF Deliver, Claim, Claimed, MissingSnapshot, Attach, Guard, Fill,
                              Recheck, HandOver, Confirm, GiveUp, BrowserError, Settle, worldVars
  <1>4. CASE Refresh \/ RowsDone \/ SkipPhase \/ Crash
    BY <1>1, <1>4 DEF Refresh, RefreshSelect, RefreshRow, RefreshError, RowsDone, SkipPhase,
                      Crash, worldVars
  <1>5. CASE People
    <2>1. ASSUME NEW target \in Targets, NEW message \in Message, MessageArrives(target, message)
          PROVE  ThreadsOK' /\ ThreadsGrow
      BY <2>1, AppendOne DEF MessageArrives
    <2>2. ASSUME NEW id \in Rows, MessageDelivered(id)
          PROVE  ThreadsOK' /\ ThreadsGrow
      <3>1. queue[id].target_id \in Targets /\ queue[id].action_text \in Texts
        BY DEF QueueTypeOK, Row
      <3>2. [sender |-> "Page", text |-> queue[id].action_text] \in Message
        BY <3>1 DEF Message
      <3> QED
        BY <2>2, <3>1, <3>2, AppendOne DEF MessageDelivered, Thread
    <2>3. ASSUME NEW id \in Rows, OperatorEnter(id)
          PROVE  ThreadsOK' /\ ThreadsGrow
      BY <2>3, EnterThread DEF OperatorEnter
    <2>4. People => \/ UNCHANGED conversation
                    \/ \E target \in Targets, message \in Message : MessageArrives(target, message)
                    \/ \E id \in Rows : MessageDelivered(id) \/ OperatorEnter(id)
      BY DEF People, Proposed, Regenerated, OperatorApproves, OperatorDiscards, OperatorTypes,
             TelegramDecision, worldVars
    <2> QED
      BY <1>1, <1>5, <2>1, <2>2, <2>3, <2>4
  <1> QED
    BY <1>2, <1>3, <1>4, <1>5 DEF Next, Worker

\* What is sent, typed, recorded and counted keeps its type.
LEMMA WorldStep ==
    ASSUME QueueTypeOK, WorkerTypeOK, ThreadsOK, WorldTypeOK, ItemHeld, Rows \subseteq Rows', Next
    PROVE  WorldTypeOK'
  <1>1. Rows \subseteq Ids
    BY MaxIdAssumption DEF QueueTypeOK, Rows, Ids
  <1>2. \A id \in Rows : Len(Thread(id)) \in 0 .. MaxMessages
    <2>1. \A id \in Rows : queue[id].target_id \in Targets
      BY DEF QueueTypeOK, Row
    <2> QED
      BY <2>1, MessagesAssumption DEF ThreadsOK, Thread
  <1>3. ASSUME UNCHANGED <<outbox, composer, enters>>, UNCHANGED crashes, UNCHANGED provenance
        PROVE  WorldTypeOK'
    BY <1>3 DEF WorldTypeOK
  <1>4. ASSUME NEW id \in Rows, NEW text \in Composer,
               UNCHANGED <<outbox, provenance, enters, crashes>>,
               composer' = [composer EXCEPT ![id] = text]
        PROVE  WorldTypeOK'
    BY <1>1, <1>4 DEF WorldTypeOK
  <1>5. ASSUME NEW id \in Rows, UNCHANGED <<outbox, provenance, enters, crashes>>,
               composer' = Cleared(id) \/ UNCHANGED composer
        PROVE  WorldTypeOK'
    BY <1>3, <1>4, <1>5 DEF Cleared, Composer
  <1>6. ASSUME NEW id \in Rows, NEW n \in 0 .. MaxMessages, RecordMasDelivery(id, n),
               UNCHANGED <<outbox, composer, enters, crashes>>
        PROVE  WorldTypeOK'
    BY <1>1, <1>6 DEF RecordMasDelivery, WorldTypeOK
  <1>7. ASSUME NEW id \in Rows, EnterEffect(id), enters' \in [Ids -> Nat],
               UNCHANGED <<provenance, crashes>>
        PROVE  WorldTypeOK'
    BY <1>1, <1>7 DEF EnterEffect, WorldTypeOK, Composer, worldVars
  <1>8. CASE Reconcile
    <2>1. CASE ReconcileConfirm
      <3>1. item \in Rows /\ seen \in 0 .. MaxMessages
        BY <2>1 DEF ReconcileConfirm, At, ItemHeld, Holding, WorkerTypeOK
      <3> QED
        BY <1>6, <2>1, <3>1 DEF ReconcileConfirm, worldVars
    <2>2. CASE ReconcileClear
      BY <1>5, <2>2 DEF ReconcileClear, At, ItemHeld, Holding
    <2> QED
      BY <1>3, <1>8, <2>1, <2>2 DEF Reconcile, ReconcileSelect, ReconcileFinish, ReconcileRetain,
                                    ReconcileOutdate, ReconcileMiss, ReconcileRead, worldVars
  <1>9. CASE Deliver
    <2>1. CASE Attach
      <3>1. item \in Rows
        BY <2>1 DEF Attach, Delivering, ItemHeld, Holding, Preparing
      <3>2. PICK text \in {"empty", composer[item]} \ {"closed"} :
                composer' = [composer EXCEPT ![item] = text]
        BY <2>1 DEF Attach
      <3>3. text \in Composer
        BY <1>1, <3>1, <3>2 DEF WorldTypeOK, Composer
      <3> QED
        BY <1>4, <2>1, <3>1, <3>2, <3>3 DEF Attach
    <2>2. CASE Fill
      BY <1>4, <2>2 DEF Fill, Delivering, ItemHeld, Holding, Preparing, Composer
    <2>3. CASE Recheck \/ GiveUp \/ BrowserError
      BY <1>5, <2>3 DEF Recheck, GiveUp, BrowserError, Delivering, ItemHeld, Holding, Preparing
    <2>4. CASE Press
      <3>1. item \in Rows
        BY <2>4 DEF Press, Delivering, ItemHeld, Holding, Preparing
      <3>2. enters' \in [Ids -> Nat]
        BY <1>1, <2>4, <3>1 DEF Press, WorldTypeOK
      <3> QED
        BY <1>7, <2>4, <3>1, <3>2 DEF Press
    <2>5. CASE Confirm
      <3>1. item \in Rows /\ Len(Thread(item)) \in 0 .. MaxMessages
        BY <1>2, <2>5 DEF Confirm, Delivering, ItemHeld, Holding
      <3> QED
        BY <1>3, <1>6, <2>5, <3>1 DEF Confirm, worldVars
    <2> QED
      BY <1>3, <1>9, <2>1, <2>2, <2>3, <2>4, <2>5 DEF Deliver, Claim, Claimed, MissingSnapshot,
                                    Guard, HandOver, Settle, worldVars
  <1>10. CASE Refresh \/ RowsDone \/ SkipPhase
    BY <1>3, <1>10 DEF Refresh, RefreshSelect, RefreshRow, RefreshError, RowsDone, SkipPhase,
                       worldVars
  <1>11. CASE People
    <2>1. ASSUME NEW id \in Rows, enters' = [enters EXCEPT ![id] = 0] \/ UNCHANGED enters,
                 UNCHANGED <<outbox, composer, provenance, crashes>>
          PROVE  WorldTypeOK'
      BY <1>1, <2>1 DEF WorldTypeOK
    <2>2. ASSUME NEW id \in Rows, OperatorTypes(id)
          PROVE  WorldTypeOK'
      <3>1. PICK text \in TabActs : composer' = [composer EXCEPT ![id] = text]
        BY <2>2 DEF OperatorTypes
      <3>2. text \in Composer
        BY TabActsAssumption DEF Composer
      <3> QED
        BY <1>4, <2>2, <3>1, <3>2 DEF OperatorTypes
    <2>3. ASSUME NEW id \in Rows, OperatorEnter(id)
          PROVE  WorldTypeOK'
      BY <1>7, <2>3 DEF OperatorEnter, WorldTypeOK
    <2>4. ASSUME NEW id \in Rows, MessageDelivered(id)
          PROVE  WorldTypeOK'
      BY <2>4 DEF MessageDelivered, WorldTypeOK
    <2>5. ASSUME NEW target, NEW message, MessageArrives(target, message)
          PROVE  WorldTypeOK'
      BY <1>3, <2>5 DEF MessageArrives
    <2>6. ASSUME NEW id \in Rows, OperatorApproves(id) \/ OperatorDiscards(id)
                                    \/ TelegramDecision(id)
          PROVE  WorldTypeOK'
      BY <2>1, <2>6 DEF OperatorApproves, OperatorDiscards, TelegramDecision, worldVars
    <2>7. CASE Proposed \/ Regenerated
      BY <1>3, <2>7 DEF Proposed, Regenerated, worldVars
    <2> QED
      BY <1>11, <2>2, <2>3, <2>4, <2>5, <2>6, <2>7 DEF People
  <1>12. CASE Crash
    BY <1>12, CrashesAssumption DEF Crash, WorldTypeOK, worldVars
  <1> QED
    BY <1>8, <1>9, <1>10, <1>11, <1>12 DEF Next, Worker
-----------------------------------------------------------------------------
(* The table and the types, on both databases.                             *)

BaseInv == /\ QueueInv /\ SerialWriters
           /\ WorkerTypeOK /\ ThreadsOK /\ WorldTypeOK /\ ItemHeld

\* A step of the executor, seen from the table and the conversations.
LEMMA BaseStep ==
    ASSUME BaseInv, Next
    PROVE  BaseInv' /\ RowsKept /\ ThreadsGrow
  <1>1. QueueInv /\ SerialWriters /\ WorkerTypeOK /\ ThreadsOK /\ WorldTypeOK /\ ItemHeld
    BY DEF BaseInv
  <1>2. QueueTypeOK
    BY <1>1 DEF QueueInv
  <1>3. [QueueNext]_queueVars \/ Refetched
    BY <1>1, TableStep
  <1>4. QueueInv' /\ SerialWriters'
    <2>1. CASE [QueueNext]_queueVars
      BY <1>1, <2>1, NextInv, SerialInv DEF SerialWriters
    <2> QED
      BY <1>1, <1>3, <2>1, RefetchInv
  <1>5. RowsKept
    BY <1>1, <1>3, RowsKeptStep
  <1>6. Rows \subseteq Rows'
    BY <1>5 DEF RowsKept
  <1>7. WorkerTypeOK' /\ ItemHeld'
    BY <1>1, <1>2, <1>6, WorkerStep
  <1>8. ThreadsOK' /\ ThreadsGrow
    BY <1>1, <1>2, ThreadsStep
  <1>9. WorldTypeOK'
    BY <1>1, <1>2, <1>6, WorldStep
  <1> QED
    BY <1>4, <1>5, <1>7, <1>8, <1>9 DEF BaseInv

\* Nothing moves when nothing happens.
LEMMA BaseStutter ==
    ASSUME BaseInv, UNCHANGED vars
    PROVE  BaseInv'
  <1>1. QueueInv' /\ SerialWriters'
    BY NextInv DEF BaseInv, vars, queueVars, SerialWriters, Live
  <1> QED
    BY <1>1 DEF vars, queueVars, workerVars, worldVars, BaseInv, WorkerTypeOK, ThreadsOK,
                WorldTypeOK, ItemHeld, Rows

\* Every process starts idle, every thread with the seeker's first message.
LEMMA BaseInit ==
    ASSUME Init
    PROVE  BaseInv
  <1>1. QueueInv /\ SerialWriters
    BY InitInv DEF Init
  <1>2. WorkerTypeOK /\ ItemHeld
    BY PhaseFacts, MessagesAssumption
       DEF Init, WorkerTypeOK, ItemHeld, Holding, Preparing, Steps
  <1>3. ThreadsOK
    <2> DEFINE first == <<[sender |-> "Customer", text |-> OtherText]>>
    <2>1. first \in Seq(Message) /\ Len(first) = 1
      BY DEF Message
    <2> HIDE DEF first
    <2>2. conversation = [target \in Targets |-> first]
      BY DEF Init, first
    <2>3. conversation \in [Targets -> Seq(Message)]
      BY <2>1, <2>2
    <2>4. \A target \in Targets : Len(conversation[target]) = 1
      BY <2>1, <2>2
    <2>5. 1 <= MaxMessages
      BY MessagesAssumption
    <2> QED
      BY <2>3, <2>4, <2>5 DEF ThreadsOK
  <1>4. WorldTypeOK
    BY MessagesAssumption, CrashesAssumption DEF Init, WorldTypeOK, Composer
  <1> QED
    BY <1>1, <1>2, <1>3, <1>4 DEF BaseInv
-----------------------------------------------------------------------------
(* What SQLite's write lock gives the executor.                            *)

\* A row that waits for a claim was approved, and no Enter was pressed for it
\* since.
ApprovedFresh ==
    \A id \in Rows : queue[id].status = "approved" => queue[id].approved_at /\ enters[id] = 0

\* Nobody moves the row between the SELECT of a claim and its UPDATE.
ClaimReady ==
    claim # NoId => queue[claim].status = "approved" /\ queue[claim].delivery_status # "drafted"

\* Nor the rows a regeneration read, before it rejects them by id.
RegenUndecided ==
    \A e \in Engines : regen[e] # NoTx =>
        \A id \in regen[e].old : queue[id].status \in {"pending", "approved"}

\* No Enter was pressed for the row that is being prepared.
PreparedFresh == phase \in OutboundQueueTypes /\ step \in Preparing => enters[item] = 0

HeldInv == /\ ApprovedFresh /\ ClaimReady /\ RegenUndecided /\ PreparedFresh
           /\ ClaimHeld /\ AtMostOneEnterPerApproval

\* No row becomes approved.
NoneApproved ==
    \A id \in Rows' : queue'[id].status = "approved" =>
        /\ id \in Rows
        /\ queue[id].status = "approved"
        /\ queue'[id].approved_at = queue[id].approved_at

Approving(id) == ApproveAction(id) \/ WebApprove(id) \/ WebReprocess(id)
Discarding(id) == RejectAction(id) \/ WebReject(id) \/ WebDelete(id)

\* Only a human approves: every other statement leaves no row newly approved.
LEMMA OthersApproveNothing ==
    ASSUME QueueInv,
           \/ Propose \/ Replace
           \/ \E id \in Rows : Discarding(id)
           \/ Work \/ ClaimUpdate \/ ClaimRollback \/ Refetched
    PROVE  NoneApproved
  <1>1. QueueTypeOK /\ queue \in [Rows -> Row] /\ lastId \in Nat
    <2>1. QueueTypeOK
      BY DEF QueueInv
    <2>2. lastId \in 0 .. MaxId /\ queue \in [Rows -> Row]
      BY <2>1 DEF QueueTypeOK
    <2> QED
      BY <2>1, <2>2, MaxIdAssumption
  <1>2. CASE queue' = queue /\ lastId' = lastId
    BY <1>2 DEF NoneApproved, Rows
  <1>3. ASSUME NEW table \in [Rows -> Row], NEW row \in Row, row.status = "pending",
               \A id \in Rows : \/ table[id] = queue[id]
                               \/ table[id].status = "rejected",
               queue' = Inserted(table, row), lastId' = lastId + 1
        PROVE  NoneApproved
    <2>1. Rows' = Rows \cup {lastId + 1}
      BY <1>1, <1>3 DEF Rows
    <2>2. queue'[lastId + 1] = row /\ \A id \in Rows : queue'[id] = table[id]
      BY <1>1, <1>3, InsertedRow
    <2> QED
      BY <1>3, <2>1, <2>2 DEF NoneApproved
  <1>4. CASE Propose
    <2>1. PICK qtype \in QueueTypes, target \in Targets, kind \in Kinds,
               text \in Texts, snapshot \in Snapshots :
               LET row == Proposal(qtype, target, kind, text, snapshot)
               IN  EnqueueAction(row) \/ \E e \in Engines : ReplaceSelect(e, row)
      BY <1>4 DEF Propose
    <2> DEFINE row == Proposal(qtype, target, kind, text, snapshot)
    <2>2. row \in Row /\ row.status = "pending"
      BY ProposalRow
    <2> HIDE DEF row
    <2>3. CASE EnqueueAction(row)
      BY <1>1, <1>3, <2>2, <2>3 DEF EnqueueAction
    <2>4. ASSUME NEW e \in Engines, ReplaceSelect(e, row) PROVE NoneApproved
      BY <1>2, <2>4 DEF ReplaceSelect
    <2> QED
      BY <2>1, <2>3, <2>4 DEF row
  <1>5. ASSUME NEW e \in Engines, ReplaceCommit(e)
        PROVE  NoneApproved
    <2>1. regen[e].row \in Row /\ regen[e].row.status = "pending"
      BY <1>1, <1>5, OpenTx DEF ReplaceCommit, QueueInv, PendingRegen
    <2>2. Rejected(regen[e].old) \in [Rows -> Row]
      BY <1>1, RejectedUpdates DEF NoneLivelier, Updates
    <2>3. \A id \in Rows : \/ Rejected(regen[e].old)[id] = queue[id]
                          \/ Rejected(regen[e].old)[id].status = "rejected"
      BY <1>1 DEF Rejected, Row
    <2> QED
      BY <1>3, <1>5, <2>1, <2>2, <2>3 DEF ReplaceCommit
  <1>6. ASSUME NEW id \in Rows, NEW status, lastId' = lastId, status # "approved",
               queue' = SetStatus(id, status)
        PROVE  NoneApproved
    BY <1>1, <1>6 DEF SetStatus, Row, NoneApproved, Rows
  <1>7. ASSUME NEW id \in Rows, Discarding(id)
        PROVE  NoneApproved
    BY <1>6, <1>7 DEF Discarding, RejectAction, WebReject, WebDelete
  <1>8. CASE Work
    <2>1. PICK id \in Rows :
            \/ \E qtype \in OutboundQueueTypes : ClaimSelect(id, qtype)
            \/ \E outcome \in {"executed", "failed"} : FinishAction(id, outcome)
            \/ \E outcome \in {"drafted", "outdated"} : SetDelivery(id, outcome)
            \/ \E outcome \in {"completed", "needs_review"} : RefreshWrite(id, outcome)
      BY <1>8 DEF Work
    <2>2. ASSUME NEW qtype, ClaimSelect(id, qtype) PROVE NoneApproved
      BY <1>2, <2>2 DEF ClaimSelect
    <2>3. ASSUME NEW outcome \in {"executed", "failed"}, FinishAction(id, outcome)
          PROVE  NoneApproved
      BY <1>2, <1>6, <2>3 DEF FinishAction
    <2>4. ASSUME NEW outcome, SetDelivery(id, outcome) PROVE NoneApproved
      <3>1. CASE queue[id].status # "executing"
        BY <1>2, <2>4, <3>1 DEF SetDelivery
      <3>2. CASE queue[id].status = "executing"
        <4>1. lastId' = lastId /\ \A other \in Rows \ {id} : queue'[other] = queue[other]
          BY <1>1, <2>4, <3>2 DEF SetDelivery
        <4>2. queue'[id].status \in {"executing", "rejected"}
          BY <1>1, <2>4, <3>2 DEF SetDelivery, Row
        <4> QED
          BY <4>1, <4>2 DEF NoneApproved, Rows
      <3> QED
        BY <3>1, <3>2
    <2>5. ASSUME NEW outcome, RefreshWrite(id, outcome) PROVE NoneApproved
      BY <1>1, <2>5 DEF RefreshWrite, Row, NoneApproved, Rows
    <2> QED
      BY <2>1, <2>2, <2>3, <2>4, <2>5
  <1>9. CASE ClaimUpdate
    <2>1. claim \in Rows
      BY <1>1, <1>9 DEF QueueTypeOK, ClaimUpdate
    <2> QED
      BY <1>2, <1>6, <1>9, <2>1 DEF ClaimUpdate
  <1>10. CASE Refetched
    <2>1. PICK id \in Rows : RefreshWrite(id, "pending")
      BY <1>10 DEF Refetched
    <2> QED
      BY <1>1, <2>1 DEF RefreshWrite, Row, NoneApproved, Rows
  <1> QED
    BY <1>2, <1>4, <1>5, <1>7, <1>8, <1>9, <1>10 DEF Replace, ReplaceRollback, ClaimRollback

\* Approving touches the one row.
LEMMA ApprovingStep ==
    ASSUME QueueTypeOK, NEW id \in Rows, Approving(id)
    PROVE  /\ lastId' = lastId /\ Rows' = Rows
           /\ queue'[id].status = "approved" /\ queue'[id].approved_at
           /\ \A other \in Rows \ {id} : queue'[other] = queue[other]
  <1>1. queue' = SetApproved(id) /\ lastId' = lastId
    BY DEF Approving, ApproveAction, WebApprove, WebReprocess
  <1>2. queue'[id].approved_at
    BY <1>1 DEF SetApproved, QueueTypeOK, Row
  <1> QED
    BY <1>1, <1>2, SetApprovedUpdates DEF Rows

\* While a row is executing and not handed over, nobody but the worker that
\* claimed it changes it: decisions are refused, regenerations passed it by.
LEMMA HeldRow ==
    ASSUME QueueInv, RegenUndecided, NEW id \in Rows,
           queue[id].status = "executing", queue[id].delivery_status # "drafted",
           Propose \/ Replace \/ Decide \/ ClaimRollback
    PROVE  queue'[id] = queue[id]
  <1>1. QueueTypeOK /\ queue \in [Rows -> Row] /\ lastId \in Nat
    <2>1. QueueTypeOK
      BY DEF QueueInv
    <2>2. lastId \in 0 .. MaxId /\ queue \in [Rows -> Row]
      BY <2>1 DEF QueueTypeOK
    <2> QED
      BY <2>1, <2>2, MaxIdAssumption
  <1>2. CASE Propose
    <2>1. PICK qtype \in QueueTypes, target \in Targets, kind \in Kinds,
               text \in Texts, snapshot \in Snapshots :
               LET row == Proposal(qtype, target, kind, text, snapshot)
               IN  EnqueueAction(row) \/ \E e \in Engines : ReplaceSelect(e, row)
      BY <1>2 DEF Propose
    <2>2. queue' = queue \/ queue' = Inserted(queue, Proposal(qtype, target, kind, text, snapshot))
      BY <2>1 DEF EnqueueAction, ReplaceSelect
    <2> QED
      BY <1>1, <2>2, ProposalRow, InsertedRow
  <1>3. ASSUME NEW e \in Engines, ReplaceCommit(e)
        PROVE  queue'[id] = queue[id]
    <2>1. regen[e].row \in Row /\ id \notin regen[e].old
      BY <1>1, <1>3, OpenTx DEF ReplaceCommit, RegenUndecided
    <2>2. Rejected(regen[e].old) \in [Rows -> Row]
      BY <1>1, RejectedUpdates DEF NoneLivelier, Updates
    <2>3. queue'[id] = Rejected(regen[e].old)[id]
      BY <1>1, <1>3, <2>1, <2>2, InsertedRow DEF ReplaceCommit
    <2> QED
      BY <2>1, <2>3 DEF Rejected
  <1>4. CASE Decide
    <2>1. PICK other \in Rows : Approving(other) \/ Discarding(other)
      BY <1>4 DEF Decide, Approving, Discarding
    <2>2. other # id
      BY <2>1 DEF Approving, Discarding, ApproveAction, RejectAction, WebApprove, WebReject,
                  WebReprocess, WebDelete
    <2>3. Discarding(other) => \E status : queue' = SetStatus(other, status)
      BY DEF Discarding, RejectAction, WebReject, WebDelete
    <2> QED
      BY <1>1, <2>1, <2>2, <2>3, ApprovingStep DEF SetStatus
  <1> QED
    BY <1>2, <1>3, <1>4 DEF Replace, ReplaceRollback, ClaimRollback
\* The executor's own steps, sorted by what they do to approvals: most leave
\* every row unapproved and every count alone, one counts a press, the human
\* ones approve one row and start its count again.
LEMMA ApprovalCases ==
    ASSUME BaseInv, Next
    PROVE  \/ NoneApproved /\ UNCHANGED enters
           \/ Press
           \/ \E id \in Rows : Approving(id) /\ enters' = [enters EXCEPT ![id] = 0]
  <1>1. CASE Press
    BY <1>1
  <1>2. ASSUME NEW id \in Rows, OperatorApproves(id) \/ TelegramDecision(id)
        PROVE  \/ NoneApproved /\ UNCHANGED enters
               \/ Approving(id) /\ enters' = [enters EXCEPT ![id] = 0]
    BY <1>2, OthersApproveNothing DEF BaseInv, OperatorApproves, TelegramDecision, Approving,
                                      Discarding
  <1>3. ASSUME UNCHANGED enters,
               UNCHANGED queueVars
        PROVE  NoneApproved /\ UNCHANGED enters
    BY <1>3 DEF queueVars, NoneApproved, Rows
  <1>4. CASE Reconcile
    <2>1. ReconcileFinish \/ ReconcileOutdate => Work
      BY DEF ReconcileFinish, ReconcileOutdate, At, BaseInv, ItemHeld, Holding, Work
    <2>2. UNCHANGED enters
      BY <1>4 DEF Reconcile, ReconcileSelect, ReconcileConfirm, ReconcileFinish, ReconcileRetain,
                  ReconcileClear, ReconcileOutdate, ReconcileMiss, ReconcileRead
    <2>3. ReconcileFinish \/ ReconcileOutdate \/ UNCHANGED queueVars
      BY <1>4 DEF Reconcile, ReconcileSelect, ReconcileConfirm, ReconcileRetain, ReconcileClear,
                  ReconcileMiss, ReconcileRead
    <2> QED
      BY <1>3, <2>1, <2>2, <2>3, OthersApproveNothing DEF BaseInv
  <1>5. CASE Deliver
    <2>1. CASE Claimed
      BY <2>1, OthersApproveNothing DEF Claimed, BaseInv
    <2>2. ASSUME NEW id \in Rows, Claim(id)
          PROVE  NoneApproved /\ UNCHANGED enters
      BY <2>2, OthersApproveNothing DEF Claim, Work, BaseInv
    <2>3. CASE Settle
      <3>1. Work
        BY <2>3 DEF Settle, BaseInv, ItemHeld, Holding, Work
      <3> QED
        BY <2>3, <3>1, OthersApproveNothing DEF Settle, BaseInv
    <2> QED
      BY <1>1, <1>3, <1>5, <2>1, <2>2, <2>3
         DEF Deliver, MissingSnapshot, Attach, Guard, Fill, Recheck, HandOver, Confirm, GiveUp,
             BrowserError
  <1>6. CASE Refresh \/ RowsDone \/ SkipPhase
    <2>1. UNCHANGED enters /\ (Work \/ Refetched \/ UNCHANGED queueVars)
      BY <1>6 DEF Refresh, RefreshSelect, RefreshRow, RefreshError, RowsDone, SkipPhase, Work,
                  Refetched
    <2> QED
      BY <1>3, <2>1, OthersApproveNothing DEF BaseInv
  <1>7. CASE People
    <2>1. CASE Proposed \/ Regenerated
      BY <2>1, ProposedProposes, OthersApproveNothing DEF Proposed, Regenerated, BaseInv
    <2>2. ASSUME NEW id \in Rows, OperatorDiscards(id)
          PROVE  NoneApproved /\ UNCHANGED enters
      BY <2>2, OthersApproveNothing DEF OperatorDiscards, Discarding, BaseInv
    <2>3. ASSUME NEW id \in Rows, OperatorTypes(id) \/ OperatorEnter(id) \/ MessageDelivered(id)
          PROVE  NoneApproved /\ UNCHANGED enters
      BY <1>3, <2>3 DEF OperatorTypes, OperatorEnter, MessageDelivered
    <2>4. ASSUME NEW target, NEW message, MessageArrives(target, message)
          PROVE  NoneApproved /\ UNCHANGED enters
      BY <1>3, <2>4 DEF MessageArrives
    <2> QED
      BY <1>2, <1>7, <2>1, <2>2, <2>3, <2>4 DEF People
  <1>8. CASE Crash
    BY <1>3, <1>8, OthersApproveNothing DEF Crash, BaseInv
  <1> QED
    BY <1>4, <1>5, <1>6, <1>7, <1>8 DEF Next, Worker
\* With one writer at a time, what a transaction read is still so when it writes.
LEMMA SerialStep ==
    ASSUME Backend = "sqlite", QueueTypeOK, SerialWriters, ClaimReady, RegenUndecided,
           [QueueNext]_queueVars \/ Refetched
    PROVE  ClaimReady' /\ RegenUndecided'
  <1>1. CASE UNCHANGED queueVars
    BY <1>1 DEF queueVars, ClaimReady, RegenUndecided
  <1>2. CASE Unlocked /\ UNCHANGED <<regen, claim>>
    <2>1. claim' = NoId /\ regen' = regen /\ \A e \in Engines : regen[e] = NoTx
      BY <1>2 DEF Unlocked
    <2> QED
      BY <2>1 DEF ClaimReady, RegenUndecided
  <1>3. ASSUME NEW e \in Engines, NEW row, ReplaceSelect(e, row)
        PROVE  ClaimReady' /\ RegenUndecided'
    <2> DEFINE tx == [open |-> TRUE, row |-> row, old |-> Superseded(row)]
    <2>1. claim' = NoId /\ queue' = queue /\ regen' = [regen EXCEPT ![e] = tx]
      BY <1>3 DEF ReplaceSelect, Unlocked
    <2>2. \A id \in tx.old : queue[id].status \in {"pending", "approved"}
      BY DEF Superseded
    <2> HIDE DEF tx
    <2>3. regen'[e] = tx /\ \A other \in Engines : other # e => regen'[other] = regen[other]
      BY <2>1 DEF QueueTypeOK
    <2> QED
      BY <2>1, <2>2, <2>3 DEF ClaimReady, RegenUndecided
  <1>4. ASSUME NEW e \in Engines, ReplaceCommit(e) \/ ReplaceRollback(e)
        PROVE  ClaimReady' /\ RegenUndecided'
    <2>1. regen[e] # NoTx /\ regen' = [regen EXCEPT ![e] = NoTx] /\ claim' = claim
      BY <1>4 DEF ReplaceCommit, ReplaceRollback
    <2>2. claim' = NoId /\ \A other \in Engines : regen'[other] = NoTx
      BY <2>1 DEF SerialWriters, QueueTypeOK
    <2> QED
      BY <2>2 DEF ClaimReady, RegenUndecided
  <1>5. CASE ClaimUpdate \/ ClaimRollback
    <2>1. claim' = NoId /\ regen' = regen /\ \A e \in Engines : regen[e] = NoTx
      BY <1>5 DEF ClaimUpdate, ClaimRollback, SerialWriters
    <2> QED
      BY <2>1 DEF ClaimReady, RegenUndecided
  <1>6. ASSUME NEW id, NEW qtype, ClaimSelect(id, qtype)
        PROVE  ClaimReady' /\ RegenUndecided'
    BY <1>6 DEF ClaimSelect, ClaimHead, Candidate, Unlocked, ClaimReady, RegenUndecided
  <1>7. CASE Propose
    BY <1>2, <1>3, <1>7 DEF Propose, EnqueueAction
  <1>8. CASE Decide \/ Refetched
    BY <1>2, <1>8 DEF Decide, ApproveAction, RejectAction, WebApprove, WebReject, WebReprocess,
                      WebDelete, Refetched, RefreshWrite
  <1>9. CASE Work
    BY <1>2, <1>6, <1>9 DEF Work, FinishAction, SetDelivery, RefreshWrite
  <1> QED
    BY <1>1, <1>4, <1>5, <1>7, <1>8, <1>9 DEF QueueNext, Replace

\* A row is approved with a count of zero, and nobody presses Enter for it
\* before it is claimed.
LEMMA FreshStep ==
    ASSUME BaseInv, HeldInv, Next
    PROVE  ApprovedFresh' /\ AtMostOneEnterPerApproval'
  <1>1. QueueTypeOK /\ Rows \subseteq Ids /\ enters \in [Ids -> Nat]
    <2>1. QueueTypeOK /\ WorldTypeOK
      BY DEF BaseInv, QueueInv
    <2>2. Rows \subseteq Ids
      BY <2>1, MaxIdAssumption DEF QueueTypeOK, Rows, Ids
    <2> QED
      BY <2>1, <2>2 DEF WorldTypeOK
  <1>2. CASE NoneApproved /\ UNCHANGED enters
    BY <1>2 DEF HeldInv, ApprovedFresh, NoneApproved, AtMostOneEnterPerApproval
  <1>3. CASE Press
    <2>1. item \in Rows /\ UNCHANGED <<queue, lastId>> /\ enters' = [enters EXCEPT ![item] = @ + 1]
      BY <1>3 DEF Press, Delivering, BaseInv, ItemHeld, Holding, Preparing, queueVars
    <2>2. enters[item] = 0
      BY <1>3 DEF Press, Delivering, HeldInv, PreparedFresh, Preparing
    <2>3. queue[item].status = "executing"
      <3>1. 0 \notin Rows
        BY DEF Rows
      <3> QED
        BY <1>3, <2>1, <3>1 DEF Press, Delivering, HeldInv, ClaimHeld, NoId
    <2> QED
      BY <1>1, <2>1, <2>2, <2>3 DEF HeldInv, ApprovedFresh, AtMostOneEnterPerApproval, Rows
  <1>4. ASSUME NEW id \in Rows, Approving(id), enters' = [enters EXCEPT ![id] = 0]
        PROVE  ApprovedFresh' /\ AtMostOneEnterPerApproval'
    BY <1>1, <1>4, ApprovingStep DEF HeldInv, ApprovedFresh, AtMostOneEnterPerApproval
  <1> QED
    BY <1>2, <1>3, <1>4, ApprovalCases

\* What the worker prepares has not been sent: between the claim and Enter it
\* goes one way, and a crash or an error makes it let go of the row.
LEMMA PreparedStep ==
    ASSUME BaseInv, HeldInv, Next
    PROVE  PreparedFresh'
  <1>1. Rows \subseteq Ids /\ enters \in [Ids -> Nat]
    <2>1. QueueTypeOK /\ WorldTypeOK
      BY DEF BaseInv, QueueInv
    <2> QED
      BY <2>1, MaxIdAssumption DEF QueueTypeOK, WorldTypeOK, Rows, Ids
  <1>2. CASE step' \notin Preparing \/ phase' \notin OutboundQueueTypes
    BY <1>2 DEF PreparedFresh
  <1>3. CASE UNCHANGED <<phase, item, enters>> /\ step \in Preparing
    BY <1>3 DEF HeldInv, PreparedFresh
  <1>4. EndPhase => step' \notin Preparing
    BY DEF EndPhase, Preparing
  <1>5. CASE Reconcile
    <2>1. phase' \notin OutboundQueueTypes
      BY <1>5 DEF Reconcile, ReconcileSelect, ReconcileConfirm, ReconcileFinish, ReconcileRetain,
                  ReconcileClear, ReconcileOutdate, ReconcileMiss, ReconcileRead, At, Goto,
                  NextRow, OutboundQueueTypes
    <2> QED
      BY <1>2, <2>1
  <1>6. CASE Deliver
    <2>1. ASSUME NEW id \in Rows, Claim(id)
          PROVE  PreparedFresh'
      BY <1>2, <2>1 DEF Claim, Goto, Preparing
    <2>2. CASE Claimed
      <3>1. CASE queue[claim].status = "approved"
        <4>1. claim \in Rows
          BY <2>2 DEF Claimed, ClaimUpdate, BaseInv, QueueInv, QueueTypeOK
        <4> QED
          BY <2>2, <3>1, <4>1 DEF Claimed, HeldInv, ApprovedFresh, PreparedFresh
      <3>2. CASE queue[claim].status # "approved"
        BY <1>2, <1>4, <2>2, <3>2 DEF Claimed
      <3> QED
        BY <3>1, <3>2
    <2>3. CASE Attach \/ Guard \/ Fill \/ Recheck
      BY <1>3, <2>3 DEF Attach, Guard, Fill, Recheck, Delivering, Goto, Preparing
    <2>4. CASE MissingSnapshot \/ HandOver \/ Press \/ Confirm \/ GiveUp \/ BrowserError
      BY <1>2, <2>4 DEF MissingSnapshot, HandOver, Press, Confirm, GiveUp, BrowserError, Goto,
                        Preparing
    <2>5. CASE Settle
      BY <1>2, <1>4, <2>5 DEF Settle
    <2> QED
      BY <1>6, <2>1, <2>2, <2>3, <2>4, <2>5 DEF Deliver
  <1>7. CASE Refresh
    BY <1>2, <1>7 DEF Refresh, RefreshSelect, RefreshRow, RefreshError, At, OutboundQueueTypes
  <1>8. CASE RowsDone \/ SkipPhase
    BY <1>2, <1>4, <1>8 DEF RowsDone, SkipPhase
  <1>9. CASE People
    <2>1. UNCHANGED workerVars
      BY <1>9 DEF People, Proposed, Regenerated, OperatorApproves, OperatorDiscards, OperatorTypes,
                  OperatorEnter, MessageDelivered, TelegramDecision, MessageArrives
    <2>2. UNCHANGED enters \/ \E id \in Rows : enters' = [enters EXCEPT ![id] = 0]
      BY <1>9 DEF People, Proposed, Regenerated, OperatorApproves, OperatorDiscards, OperatorTypes,
                  OperatorEnter, MessageDelivered, TelegramDecision, MessageArrives
    <2>3. step \in Preparing => item \in Rows
      BY DEF BaseInv, ItemHeld, Holding
    <2> QED
      BY <1>1, <2>1, <2>2, <2>3 DEF workerVars, HeldInv, PreparedFresh
  <1>10. CASE Crash
    BY <1>2, <1>10 DEF Crash, OutboundQueueTypes
  <1> QED
    BY <1>5, <1>6, <1>7, <1>8, <1>9, <1>10 DEF Next, Worker

\* The row the worker works on stays claimed.
LEMMA HeldStep ==
    ASSUME BaseInv, HeldInv, Next
    PROVE  ClaimHeld'
  <1>1. CASE item' = NoId \/ phase' \notin OutboundQueueTypes
    BY <1>1 DEF ClaimHeld
  <1>2. CASE UNCHANGED <<queue, phase, item>>
    BY <1>2 DEF HeldInv, ClaimHeld
  <1>3. EndPhase => item' = NoId
    BY DEF EndPhase
  <1>4. CASE Reconcile
    <2>1. phase' \notin OutboundQueueTypes
      BY <1>4 DEF Reconcile, ReconcileSelect, ReconcileConfirm, ReconcileFinish, ReconcileRetain,
                  ReconcileClear, ReconcileOutdate, ReconcileMiss, ReconcileRead, At, Goto,
                  NextRow, OutboundQueueTypes
    <2> QED
      BY <1>1, <2>1
  <1>5. CASE Deliver
    <2>1. ASSUME NEW id \in Rows, Claim(id)
          PROVE  ClaimHeld'
      BY <1>2, <2>1 DEF Claim, ClaimSelect, Goto
    <2>2. CASE Claimed
      <3>1. QueueTypeOK
        BY DEF BaseInv, QueueInv
      <3>2. claim \in Rows /\ claim # NoId
        BY <2>2, <3>1 DEF Claimed, ClaimUpdate, QueueTypeOK
      <3>3. /\ queue[claim].status = "approved" /\ queue[claim].delivery_status # "drafted"
            /\ queue[claim].approved_at
        BY <3>2 DEF HeldInv, ClaimReady, ApprovedFresh
      <3>4. item' = claim /\ queue' = SetStatus(claim, "executing")
        BY <2>2, <3>3 DEF Claimed, ClaimUpdate
      <3> QED
        BY <3>1, <3>2, <3>3, <3>4 DEF SetStatus, QueueTypeOK, Row, ClaimHeld
    <2>3. CASE MissingSnapshot \/ Attach \/ Guard \/ Fill \/ Recheck \/ HandOver
      BY <1>2, <2>3 DEF MissingSnapshot, Attach, Guard, Fill, Recheck, HandOver, Goto, queueVars
    <2>4. CASE Press \/ Confirm \/ GiveUp \/ BrowserError
      BY <1>2, <2>4 DEF Press, Confirm, GiveUp, BrowserError, Goto, queueVars
    <2>5. CASE Settle
      BY <1>1, <1>3, <2>5 DEF Settle
    <2> QED
      BY <1>5, <2>1, <2>2, <2>3, <2>4, <2>5 DEF Deliver
  <1>6. CASE Refresh
    BY <1>1, <1>6 DEF Refresh, RefreshSelect, RefreshRow, RefreshError, At, OutboundQueueTypes
  <1>7. CASE RowsDone \/ SkipPhase
    BY <1>1, <1>3, <1>7 DEF RowsDone, SkipPhase
  <1>8. CASE People
    <2>1. UNCHANGED <<phase, item>>
      BY <1>8 DEF People, Proposed, Regenerated, OperatorApproves, OperatorDiscards, OperatorTypes,
                  OperatorEnter, MessageDelivered, TelegramDecision, MessageArrives, workerVars
    <2>2. \/ UNCHANGED queue
          \/ Propose \/ Replace \/ Decide
      <3>1. Proposed => Propose
        BY ProposedProposes DEF BaseInv
      <3>2. ASSUME NEW id \in Rows, OperatorApproves(id) \/ OperatorDiscards(id)
                                      \/ TelegramDecision(id)
            PROVE  Decide
        BY <3>2 DEF OperatorApproves, OperatorDiscards, TelegramDecision, Decide
      <3> QED
        BY <1>8, <3>1, <3>2 DEF People, Regenerated, OperatorTypes, OperatorEnter,
                                MessageDelivered, MessageArrives, queueVars
    <2>3. item # NoId => item \in Rows
      BY DEF BaseInv, WorkerTypeOK
    <2> QED
      BY <1>2, <2>1, <2>2, <2>3, HeldRow DEF BaseInv, HeldInv, ClaimHeld
  <1>9. CASE Crash
    BY <1>1, <1>9 DEF Crash
  <1> QED
    BY <1>4, <1>5, <1>6, <1>7, <1>8, <1>9 DEF Next, Worker
-----------------------------------------------------------------------------
(* The theorems about claims and Enter presses.                            *)

\* BaseInv is inductive on both databases.
THEOREM ExecutorInvariance == Spec => []BaseInv
  <1>1. Init => BaseInv
    BY BaseInit
  <1>2. BaseInv /\ [Next]_vars => BaseInv'
    BY BaseStep, BaseStutter
  <1> QED
    BY <1>1, <1>2, PTL DEF Spec

\* The executor's variables keep their types, for every table, any length of
\* the conversations and any number of crashes.
THEOREM ExecutorTypes == Spec => []TypeOK
  <1>1. BaseInv => TypeOK
    BY DEF BaseInv, QueueInv, WorkerTypeOK, ThreadsOK, WorldTypeOK, TypeOK
  <1> QED
    BY <1>1, ExecutorInvariance, PTL

\* However the worker, the operator and crashes interleave, the executor never
\* holds two DMs to one recipient, on SQLite and on PostgreSQL.
THEOREM ExecutorOneDm == Spec => []OneDmPerRecipient
  <1>1. BaseInv => OneDmPerRecipient
    BY DEF BaseInv, QueueInv
  <1> QED
    BY <1>1, ExecutorInvariance, PTL

\* Nor two live proposals of one kind, whatever the executor, the operator and the
\* chat do to the rows, and wherever the worker dies.
THEOREM ExecutorOneLive == Spec => []OneLivePerSlot
  <1>1. BaseInv => OneLivePerSlot
    BY DEF BaseInv, QueueInv
  <1> QED
    BY <1>1, ExecutorInvariance, PTL

\* No write of the executor, however late, brings back what has been executed,
\* rejected, failed or deleted, under SQLite.
THEOREM ExecutorFinal ==
    ASSUME Backend = "sqlite"
    PROVE  Spec => TerminalOnlyReopened
  <1>1. BaseInv /\ [Next]_vars =>
            [\A id \in Rows : ~Live(queue[id]) =>
                queue'[id].status \in {queue[id].status, "approved"}]_queueVars
    <2> SUFFICES ASSUME BaseInv, Next, queueVars' # queueVars
                 PROVE  OnlyReopened
      BY DEF OnlyReopened, vars
    <2>1. QueueInv /\ RegenLive
      BY DEF BaseInv, SerialWriters, RegenLive
    <2>2. [QueueNext]_queueVars \/ Refetched
      BY TableStep DEF BaseInv
    <2>3. CASE Refetched
      <3>1. PICK id \in Rows : queue' = [queue EXCEPT ![id].fetch_request = "pending"]
        BY <2>3 DEF Refetched, RefreshWrite
      <3>2. queue \in [Rows -> Row]
        BY <2>1 DEF QueueInv, QueueTypeOK
      <3> QED
        BY <3>1, <3>2 DEF Row, OnlyReopened
    <2> QED
      BY <2>1, <2>2, <2>3, OnlyReopenedStep
  <1> QED
    BY <1>1, ExecutorInvariance, PTL DEF Spec, TerminalOnlyReopened

\* The approvals' invariant is inductive under SQLite.
LEMMA HeldInvariance ==
    ASSUME Backend = "sqlite"
    PROVE  Spec => [](BaseInv /\ HeldInv)
  <1>1. Init => BaseInv /\ HeldInv
    <2> SUFFICES ASSUME Init PROVE BaseInv /\ HeldInv
      OBVIOUS
    <2>1. Rows = {}
      BY DEF Init, QueueInit, Rows
    <2>2. ApprovedFresh /\ ClaimReady /\ RegenUndecided
      BY <2>1 DEF Init, QueueInit, ApprovedFresh, ClaimReady, RegenUndecided
    <2>3. PreparedFresh /\ ClaimHeld /\ AtMostOneEnterPerApproval
      BY DEF Init, PreparedFresh, Preparing, ClaimHeld, AtMostOneEnterPerApproval
    <2> QED
      BY <2>2, <2>3, BaseInit DEF HeldInv
  <1>2. BaseInv /\ HeldInv /\ [Next]_vars => BaseInv' /\ HeldInv'
    <2> SUFFICES ASSUME BaseInv, HeldInv, [Next]_vars PROVE BaseInv' /\ HeldInv'
      OBVIOUS
    <2>1. CASE Next
      <3>1. ClaimReady' /\ RegenUndecided'
        BY <2>1, TableStep, SerialStep DEF BaseInv, HeldInv, QueueInv
      <3> QED
        BY <2>1, <3>1, BaseStep, FreshStep, PreparedStep, HeldStep DEF HeldInv
    <2>2. CASE UNCHANGED vars
      <3>1. HeldInv'
        BY <2>2 DEF vars, queueVars, workerVars, HeldInv, ApprovedFresh, ClaimReady, RegenUndecided,
                    PreparedFresh, ClaimHeld, AtMostOneEnterPerApproval, Rows
      <3> QED
        BY <2>2, <3>1, BaseStutter
    <2> QED
      BY <2>1, <2>2
  <1> QED
    BY <1>1, <1>2, PTL DEF Spec

\* route.ts:36-38: under SQLite a worker never loses the action it has claimed.
THEOREM ClaimKept ==
    ASSUME Backend = "sqlite"
    PROVE  Spec => []ClaimHeld
  <1>1. HeldInv => ClaimHeld
    BY DEF HeldInv
  <1> QED
    BY <1>1, HeldInvariance, PTL

\* README.md:93: under SQLite a human approval is good for one Enter press,
\* through crashes, restarts, unconfirmed sends and refetches.  PostgreSQL does
\* not give this: a regeneration may reject by id the row the worker holds, and
\* the operator drop the new draft and approve the old row again before the
\* worker presses.
THEOREM OneEnter ==
    ASSUME Backend = "sqlite"
    PROVE  Spec => []AtMostOneEnterPerApproval
  <1>1. HeldInv => AtMostOneEnterPerApproval
    BY DEF HeldInv
  <1> QED
    BY <1>1, HeldInvariance, PTL
-----------------------------------------------------------------------------
(* What executed and recorded mean, on both databases.                     *)

\* The approved text stands right after the message it answers.
Delivered(id) == /\ queue[id].snapshot < Len(Thread(id))
                 /\ Bubble(id, queue[id].snapshot + 1)

Confirmed == step = "sent" => Delivered(item)

\* What the reconciliation read of a thread is still there.
SeenThere == phase = "reconcile" /\ step = "read" => seen <= Len(Thread(item))

\* Ids to come have no provenance.
Unrecorded == \A id \in Ids \ Rows : provenance[id] = 0

DeliveryInv == /\ Confirmed /\ SeenThere /\ Unrecorded
               /\ ExecutedMeansDelivered /\ ProvenanceExact

\* No row becomes executed.
NoneExecuted ==
    \A id \in Rows' : queue'[id].status = "executed" => id \in Rows /\ queue[id].status = "executed"

\* What a message showed, it goes on showing: threads only grow and rows keep
\* their text and recipient.
LEMMA StillShown ==
    ASSUME BaseInv, Next, NEW id \in Rows, NEW n \in 1 .. Len(Thread(id)), Bubble(id, n)
    PROVE  /\ Len(Thread(id)) <= Len(conversation'[queue'[id].target_id])
           /\ conversation'[queue'[id].target_id][n] =
                  [sender |-> "Page", text |-> queue'[id].action_text]
  <1>1. QueueTypeOK /\ ThreadsOK /\ RowsKept /\ ThreadsGrow
    BY BaseStep DEF BaseInv, QueueInv
  <1>2. queue[id].target_id \in Targets
    BY <1>1 DEF QueueTypeOK, Row
  <1>3. /\ queue'[id].target_id = queue[id].target_id
        /\ queue'[id].action_text = queue[id].action_text
    BY <1>1 DEF RowsKept
  <1>4. /\ Len(Thread(id)) <= Len(conversation'[queue[id].target_id])
        /\ conversation'[queue[id].target_id][n] = Thread(id)[n]
    BY <1>1, <1>2 DEF ThreadsGrow, Thread
  <1> QED
    BY <1>3, <1>4 DEF Bubble

\* Only finish_action writes "executed".
LEMMA OthersExecuteNothing ==
    ASSUME QueueInv,
           \/ Propose \/ Replace
           \/ Decide \/ ClaimUpdate \/ ClaimRollback
           \/ \E id \in Rows : \/ \E qtype : ClaimSelect(id, qtype)
                              \/ FinishAction(id, "failed")
                              \/ \E outcome : SetDelivery(id, outcome) \/ RefreshWrite(id, outcome)
    PROVE  NoneExecuted
  <1>1. QueueTypeOK /\ queue \in [Rows -> Row] /\ lastId \in Nat
    <2>1. QueueTypeOK
      BY DEF QueueInv
    <2>2. lastId \in 0 .. MaxId /\ queue \in [Rows -> Row]
      BY <2>1 DEF QueueTypeOK
    <2> QED
      BY <2>1, <2>2, MaxIdAssumption
  <1>2. CASE queue' = queue /\ lastId' = lastId
    BY <1>2 DEF NoneExecuted, Rows
  <1>3. ASSUME NEW table \in [Rows -> Row], NEW row \in Row, row.status = "pending",
               \A id \in Rows : \/ table[id] = queue[id]
                               \/ table[id].status = "rejected",
               queue' = Inserted(table, row), lastId' = lastId + 1
        PROVE  NoneExecuted
    <2>1. Rows' = Rows \cup {lastId + 1}
      BY <1>1, <1>3 DEF Rows
    <2>2. queue'[lastId + 1] = row /\ \A id \in Rows : queue'[id] = table[id]
      BY <1>1, <1>3, InsertedRow
    <2> QED
      BY <1>3, <2>1, <2>2 DEF NoneExecuted
  <1>4. CASE Propose
    <2>1. PICK qtype \in QueueTypes, target \in Targets, kind \in Kinds,
               text \in Texts, snapshot \in Snapshots :
               LET row == Proposal(qtype, target, kind, text, snapshot)
               IN  EnqueueAction(row) \/ \E e \in Engines : ReplaceSelect(e, row)
      BY <1>4 DEF Propose
    <2> DEFINE row == Proposal(qtype, target, kind, text, snapshot)
    <2>2. row \in Row /\ row.status = "pending"
      BY ProposalRow
    <2> HIDE DEF row
    <2>3. CASE EnqueueAction(row)
      BY <1>1, <1>3, <2>2, <2>3 DEF EnqueueAction
    <2>4. ASSUME NEW e \in Engines, ReplaceSelect(e, row) PROVE NoneExecuted
      BY <1>2, <2>4 DEF ReplaceSelect
    <2> QED
      BY <2>1, <2>3, <2>4 DEF row
  <1>5. ASSUME NEW e \in Engines, ReplaceCommit(e)
        PROVE  NoneExecuted
    <2>1. regen[e].row \in Row /\ regen[e].row.status = "pending"
      BY <1>1, <1>5, OpenTx DEF ReplaceCommit, QueueInv, PendingRegen
    <2>2. Rejected(regen[e].old) \in [Rows -> Row]
      BY <1>1, RejectedUpdates DEF NoneLivelier, Updates
    <2>3. \A id \in Rows : \/ Rejected(regen[e].old)[id] = queue[id]
                          \/ Rejected(regen[e].old)[id].status = "rejected"
      BY <1>1 DEF Rejected, Row
    <2> QED
      BY <1>3, <1>5, <2>1, <2>2, <2>3 DEF ReplaceCommit
  <1>6. ASSUME NEW id \in Rows, NEW status, lastId' = lastId, status # "executed",
               queue' = SetStatus(id, status)
        PROVE  NoneExecuted
    BY <1>1, <1>6 DEF SetStatus, Row, NoneExecuted, Rows
  <1>7. CASE Decide
    <2>1. PICK id \in Rows : Approving(id) \/ Discarding(id)
      BY <1>7 DEF Decide, Approving, Discarding
    <2>2. CASE Approving(id)
      BY <1>1, <2>2, ApprovingStep DEF NoneExecuted
    <2>3. CASE Discarding(id)
      BY <1>6, <2>3 DEF Discarding, RejectAction, WebReject, WebDelete
    <2> QED
      BY <2>1, <2>2, <2>3
  <1>8. ASSUME NEW id \in Rows, FinishAction(id, "failed")
        PROVE  NoneExecuted
    BY <1>2, <1>6, <1>8 DEF FinishAction
  <1>9. ASSUME NEW id \in Rows, NEW outcome, SetDelivery(id, outcome)
        PROVE  NoneExecuted
    <2>1. CASE queue[id].status # "executing"
      BY <1>2, <1>9, <2>1 DEF SetDelivery
    <2>2. CASE queue[id].status = "executing"
      <3>1. lastId' = lastId /\ \A other \in Rows \ {id} : queue'[other] = queue[other]
        BY <1>1, <1>9, <2>2 DEF SetDelivery
      <3>2. queue'[id].status \in {"executing", "rejected"}
        BY <1>1, <1>9, <2>2 DEF SetDelivery, Row
      <3> QED
        BY <3>1, <3>2 DEF NoneExecuted, Rows
    <2> QED
      BY <2>1, <2>2
  <1>10. ASSUME NEW id \in Rows, NEW outcome, RefreshWrite(id, outcome)
         PROVE  NoneExecuted
    <2>1. lastId' = lastId /\ \A other \in Rows \ {id} : queue'[other] = queue[other]
      BY <1>1, <1>10 DEF RefreshWrite
    <2>2. queue'[id].status = queue[id].status
      <3>1. queue'[id] = [queue[id] EXCEPT !.fetch_request = outcome]
        BY <1>1, <1>10 DEF RefreshWrite
      <3>2. queue[id] \in Row
        BY <1>1
      <3> QED
        BY <3>1, <3>2 DEF Row
    <2> QED
      BY <2>1, <2>2 DEF NoneExecuted, Rows
  <1>11. CASE ClaimUpdate
    <2>1. claim \in Rows
      BY <1>1, <1>11 DEF QueueTypeOK, ClaimUpdate
    <2> QED
      BY <1>2, <1>6, <1>11, <2>1 DEF ClaimUpdate
  <1> QED
    BY <1>2, <1>4, <1>5, <1>7, <1>8, <1>9, <1>10, <1>11
       DEF Replace, ReplaceRollback, ClaimRollback, ClaimSelect

\* The executor writes "executed" for the row it has just seen delivered.
LEMMA ExecutionCases ==
    ASSUME BaseInv, Next
    PROVE  NoneExecuted \/ (step = "sent" /\ item \in Rows /\ FinishAction(item, "executed"))
  <1>1. CASE UNCHANGED queueVars
    BY <1>1 DEF queueVars, NoneExecuted, Rows
  <1>2. QueueInv /\ (step \in Holding => item \in Rows)
    BY DEF BaseInv, ItemHeld
  <1>3. CASE Reconcile
    <2>1. ReconcileFinish => step = "sent" /\ item \in Rows /\ FinishAction(item, "executed")
      BY <1>2 DEF ReconcileFinish, At, Holding
    <2>2. ReconcileOutdate => NoneExecuted
      BY <1>2, OthersExecuteNothing DEF ReconcileOutdate, At, Holding
    <2>3. Reconcile => ReconcileFinish \/ ReconcileOutdate \/ UNCHANGED queueVars
      BY DEF Reconcile, ReconcileSelect, ReconcileConfirm, ReconcileRetain, ReconcileClear,
             ReconcileMiss, ReconcileRead
    <2> QED
      BY <1>1, <1>3, <2>1, <2>2, <2>3
  <1>4. CASE Deliver
    <2>1. CASE Claimed
      BY <1>2, <2>1, OthersExecuteNothing DEF Claimed
    <2>2. ASSUME NEW id \in Rows, Claim(id)
          PROVE  NoneExecuted
      BY <1>2, <2>2, OthersExecuteNothing DEF Claim
    <2>3. CASE Settle
      BY <1>2, <2>3, OthersExecuteNothing DEF Settle, Holding
    <2> QED
      BY <1>1, <1>4, <2>1, <2>2, <2>3
         DEF Deliver, MissingSnapshot, Attach, Guard, Fill, Recheck, HandOver, Press, Confirm,
             GiveUp, BrowserError
  <1>5. CASE Refresh \/ RowsDone \/ SkipPhase
    BY <1>1, <1>2, <1>5, OthersExecuteNothing
       DEF Refresh, RefreshSelect, RefreshRow, RefreshError, RowsDone, SkipPhase
  <1>6. CASE People
    <2>1. Proposed \/ Regenerated => NoneExecuted
      BY <1>2, ProposedProposes, OthersExecuteNothing DEF Regenerated, BaseInv
    <2>2. ASSUME NEW id \in Rows, OperatorApproves(id) \/ OperatorDiscards(id)
                                    \/ TelegramDecision(id)
          PROVE  NoneExecuted
      BY <1>2, <2>2, OthersExecuteNothing DEF OperatorApproves, OperatorDiscards, TelegramDecision,
                                              Decide
    <2> QED
      BY <1>1, <1>6, <2>1, <2>2 DEF People, OperatorTypes, OperatorEnter, MessageDelivered,
                                    MessageArrives
  <1>7. CASE Crash
    BY <1>1, <1>2, <1>7, OthersExecuteNothing DEF Crash
  <1> QED
    BY <1>3, <1>4, <1>5, <1>6, <1>7 DEF Next, Worker
\* What is delivered stays delivered.
LEMMA StaysDelivered ==
    ASSUME BaseInv, Next, NEW id \in Rows, Delivered(id)
    PROVE  Delivered(id)'
  <1>1. QueueTypeOK /\ ThreadsOK /\ RowsKept /\ ThreadsOK'
    BY BaseStep DEF BaseInv, QueueInv
  <1>2. queue[id].snapshot \in Nat /\ Len(Thread(id)) \in Nat
    <2>1. queue[id].snapshot \in Snapshots /\ queue[id].target_id \in Targets
      BY <1>1 DEF QueueTypeOK, Row
    <2> QED
      BY <1>1, <2>1, MessagesAssumption DEF ThreadsOK, Thread
  <1>3. queue'[id].target_id \in Targets /\ queue'[id].snapshot = queue[id].snapshot
    BY <1>1 DEF RowsKept, QueueTypeOK, Row
  <1>4. Len(conversation'[queue'[id].target_id]) \in Nat
    BY <1>1, <1>3 DEF ThreadsOK
  <1> DEFINE n == queue[id].snapshot + 1
  <1>5. n \in 1 .. Len(Thread(id)) /\ Bubble(id, n)
    BY <1>2 DEF Delivered
  <1>6. /\ Len(Thread(id)) <= Len(conversation'[queue'[id].target_id])
        /\ conversation'[queue'[id].target_id][n] =
               [sender |-> "Page", text |-> queue'[id].action_text]
    <2> HIDE DEF n
    <2> QED
      BY <1>5, StillShown
  <1> QED
    BY <1>2, <1>3, <1>4, <1>5, <1>6 DEF Delivered, Bubble, Thread
\* Executed rows were delivered.
LEMMA ExecutedStep ==
    ASSUME BaseInv, DeliveryInv, Next
    PROVE  ExecutedMeansDelivered'
  <1>1. ExecutedMeansDelivered <=> \A id \in Rows : queue[id].status = "executed" => Delivered(id)
    BY DEF ExecutedMeansDelivered, Delivered
  <1>2. \A id \in Rows' : queue'[id].status = "executed" => id \in Rows /\ Delivered(id)
    <2>1. CASE NoneExecuted
      BY <1>1, <2>1 DEF NoneExecuted, DeliveryInv
    <2>2. CASE step = "sent" /\ item \in Rows /\ FinishAction(item, "executed")
      <3>1. Delivered(item)
        BY <2>2 DEF DeliveryInv, Confirmed
      <3>2. Rows' = Rows
        BY <2>2 DEF FinishAction, Rows
      <3>3. \A id \in Rows \ {item} : queue'[id] = queue[id]
        <4>1. queue \in [Rows -> Row]
          BY DEF BaseInv, QueueInv, QueueTypeOK
        <4> QED
          BY <2>2, <4>1 DEF FinishAction, SetStatus
      <3> QED
        BY <1>1, <3>1, <3>2, <3>3 DEF DeliveryInv
    <2> QED
      BY <2>1, <2>2, ExecutionCases
  <1>3. \A id \in Rows' : queue'[id].status = "executed" => Delivered(id)'
    BY <1>2, StaysDelivered
  <1> QED
    BY <1>3 DEF ExecutedMeansDelivered, Delivered

\* What the last read returned, and what was confirmed by it.
LEMMA SeenStep ==
    ASSUME BaseInv, DeliveryInv, Next
    PROVE  SeenThere'
  <1>1. CASE step' # "read" \/ phase' # "reconcile"
    BY <1>1 DEF SeenThere
  <1>2. ASSUME NEW id \in Rows, ReconcileRead(id)
        PROVE  SeenThere'
    <2>1. item' = id /\ seen' = Len(Thread(id)) /\ UNCHANGED <<queue, conversation>>
      BY <1>2 DEF ReconcileRead, queueVars, worldVars
    <2>2. queue[id].target_id \in Targets
      BY DEF BaseInv, QueueInv, QueueTypeOK, Row
    <2>3. Len(Thread(id)) \in Nat
      BY <2>2 DEF BaseInv, ThreadsOK, Thread
    <2> QED
      BY <2>1, <2>3 DEF SeenThere, Thread
  <1>3. CASE UNCHANGED workerVars
    <2> SUFFICES ASSUME phase = "reconcile", step = "read"
                 PROVE  seen <= Len(conversation'[queue'[item].target_id])
      BY <1>3 DEF SeenThere, workerVars, Thread
    <2>1. item \in Rows
      BY DEF BaseInv, ItemHeld, Holding
    <2>2. QueueTypeOK /\ ThreadsOK /\ RowsKept /\ ThreadsGrow /\ ThreadsOK'
      BY BaseStep DEF BaseInv, QueueInv
    <2>3. queue[item].target_id \in Targets /\ queue'[item].target_id = queue[item].target_id
      BY <2>1, <2>2 DEF QueueTypeOK, Row, RowsKept
    <2>4. /\ Len(Thread(item)) \in Nat
          /\ Len(conversation'[queue[item].target_id]) \in Nat
          /\ Len(Thread(item)) <= Len(conversation'[queue[item].target_id])
      BY <2>2, <2>3 DEF ThreadsOK, ThreadsGrow, Thread
    <2>5. seen <= Len(Thread(item)) /\ seen \in Nat
      BY MessagesAssumption DEF DeliveryInv, SeenThere, BaseInv, WorkerTypeOK
    <2> QED
      BY <2>3, <2>4, <2>5
  <1>4. CASE Reconcile
    <2>1. ASSUME NEW id \in Rows, ReconcileMiss(id)
          PROVE  SeenThere'
      BY <1>1, <2>1 DEF ReconcileMiss, At
    <2> QED
      BY <1>1, <1>2, <1>4, <2>1
         DEF Reconcile, ReconcileSelect, ReconcileConfirm, ReconcileFinish, ReconcileRetain,
             ReconcileClear, ReconcileOutdate, NextRow, Goto
  <1>5. CASE Deliver
    <2>1. phase' # "reconcile" \/ step' # "read"
      BY <1>5 DEF Deliver, Claim, Claimed, MissingSnapshot, Attach, Guard, Fill, Recheck, HandOver,
                  Press, Confirm, GiveUp, BrowserError, Settle, Goto, EndPhase
    <2> QED
      BY <1>1, <2>1
  <1>6. CASE Refresh
    BY <1>1, <1>6 DEF Refresh, RefreshSelect, RefreshRow, RefreshError, At
  <1>7. CASE RowsDone \/ SkipPhase \/ Crash
    BY <1>1, <1>7 DEF RowsDone, SkipPhase, Crash, EndPhase
  <1>8. CASE People
    BY <1>3, <1>8 DEF People, Proposed, Regenerated, OperatorApproves, OperatorDiscards,
                      OperatorTypes, OperatorEnter, MessageDelivered, TelegramDecision,
                      MessageArrives
  <1> QED
    BY <1>4, <1>5, <1>6, <1>7, <1>8 DEF Next, Worker

\* The two confirmations look for the same thing: the text of the row right
\* after its snapshot.
LEMMA ConfirmationShows ==
    ASSUME BaseInv, DeliveryInv, ReconcileConfirm \/ Confirm, step' = "sent"
    PROVE  /\ item \in Rows /\ item' = item
           /\ Delivered(item)
           /\ RecordMasDelivery(item, queue[item].snapshot + 1)
           /\ UNCHANGED <<queueVars, worldVars>>
  <1>1. item \in Rows
    BY DEF ReconcileConfirm, Confirm, At, Delivering, BaseInv, ItemHeld, Holding
  <1>2. queue[item].snapshot \in Nat /\ Len(Thread(item)) \in Nat
    <2>1. QueueTypeOK /\ ThreadsOK
      BY DEF BaseInv, QueueInv
    <2>2. queue[item].snapshot \in Snapshots /\ queue[item].target_id \in Targets
      BY <1>1, <2>1 DEF QueueTypeOK, Row
    <2> QED
      BY <2>1, <2>2, MessagesAssumption DEF ThreadsOK, Thread
  <1>3. CASE ReconcileConfirm
    <2>1. /\ Bubble(item, seen) /\ queue[item].snapshot = seen - 1
          /\ RecordMasDelivery(item, seen)
          /\ item' = item /\ UNCHANGED <<queueVars, worldVars>>
      BY <1>3 DEF ReconcileConfirm, HumanSent, Current, Goto
    <2>2. seen <= Len(Thread(item)) /\ seen \in Nat
      BY <1>3, MessagesAssumption DEF ReconcileConfirm, At, DeliveryInv, SeenThere, BaseInv,
                                      WorkerTypeOK
    <2>3. seen = queue[item].snapshot + 1
      BY <2>1, <2>2
    <2> QED
      BY <1>1, <1>2, <2>1, <2>2, <2>3 DEF Delivered
  <1>4. CASE Confirm
    <2> DEFINE n == Len(Thread(item))
    <2>1. /\ Bubble(item, n) /\ queue[item].snapshot = n - 1
          /\ RecordMasDelivery(item, n)
          /\ item' = item /\ UNCHANGED <<queueVars, worldVars>>
      BY <1>4 DEF Confirm, SendSeen, Current, Goto
    <2>2. n = queue[item].snapshot + 1
      BY <1>2, <2>1
    <2> QED
      BY <1>1, <1>2, <2>1, <2>2 DEF Delivered
  <1> QED
    BY <1>3, <1>4

\* Nothing but a confirmation leads to "sent".
LEMMA ConfirmedStep ==
    ASSUME BaseInv, DeliveryInv, Next
    PROVE  Confirmed'
  <1>1. CASE step' # "sent"
    BY <1>1 DEF Confirmed
  <1>2. CASE ReconcileConfirm \/ Confirm
    <2>1. CASE step' = "sent"
      BY <1>2, <2>1, ConfirmationShows, StaysDelivered DEF Confirmed, Delivered, Bubble, Thread
    <2> QED
      BY <1>1, <2>1
  <1>3. CASE UNCHANGED workerVars
    <2> SUFFICES ASSUME step = "sent" PROVE Delivered(item)'
      BY <1>3 DEF Confirmed, workerVars
    <2>1. item \in Rows /\ Delivered(item) /\ item' = item
      BY <1>3 DEF BaseInv, ItemHeld, Holding, DeliveryInv, Confirmed, workerVars
    <2> QED
      BY <2>1, StaysDelivered DEF Delivered, Bubble, Thread
  <1>4. CASE Reconcile
    BY <1>1, <1>2, <1>4 DEF Reconcile, ReconcileSelect, ReconcileFinish, ReconcileRetain,
                            ReconcileClear, ReconcileOutdate, ReconcileMiss, ReconcileRead, At,
                            NextRow, Goto
  <1>5. CASE Deliver
    BY <1>1, <1>2, <1>5 DEF Deliver, Claim, Claimed, MissingSnapshot, Attach, Guard, Fill, Recheck,
                            HandOver, Press, GiveUp, BrowserError, Settle, Goto, EndPhase
  <1>6. CASE Refresh \/ RowsDone \/ SkipPhase \/ Crash
    BY <1>1, <1>6 DEF Refresh, RefreshSelect, RefreshRow, RefreshError, At, RowsDone, SkipPhase,
                      Crash, EndPhase
  <1>7. CASE People
    BY <1>3, <1>7 DEF People, Proposed, Regenerated, OperatorApproves, OperatorDiscards,
                      OperatorTypes, OperatorEnter, MessageDelivered, TelegramDecision,
                      MessageArrives
  <1> QED
    BY <1>4, <1>5, <1>6, <1>7 DEF Next, Worker
\* ProvenanceExact in two parts: what is recorded was delivered, and no two
\* actions of one thread share a message.
RecordedDelivered ==
    \A id \in Rows : provenance[id] # 0 => provenance[id] = queue[id].snapshot + 1 /\ Delivered(id)

RecordedOnce ==
    \A id, other \in Rows :
        provenance[id] # 0 /\ id # other /\ queue[other].target_id = queue[id].target_id
        => provenance[other] # provenance[id]

\* Splitting ProvenanceExact loses nothing.
LEMMA ProvenanceParts ==
    ASSUME BaseInv
    PROVE  ProvenanceExact <=> RecordedDelivered /\ RecordedOnce
  <1>1. QueueTypeOK /\ ThreadsOK
    BY DEF BaseInv, QueueInv
  <1>2. \A id \in Rows : queue[id].snapshot \in Nat /\ Len(Thread(id)) \in Nat
    <2>1. \A id \in Rows : queue[id].snapshot \in Snapshots /\ queue[id].target_id \in Targets
      BY <1>1 DEF QueueTypeOK, Row
    <2> QED
      BY <1>1, <2>1, MessagesAssumption DEF ThreadsOK, Thread
  <1>3. \A id \in Rows : provenance[id] = queue[id].snapshot + 1 =>
            (Delivered(id) <=> provenance[id] <= Len(Thread(id)) /\ Bubble(id, provenance[id]))
    BY <1>2 DEF Delivered
  <1>4. ProvenanceExact => RecordedDelivered /\ RecordedOnce
    BY <1>3 DEF ProvenanceExact, RecordedDelivered, RecordedOnce
  <1>5. RecordedDelivered /\ RecordedOnce => ProvenanceExact
    BY <1>3 DEF ProvenanceExact, RecordedDelivered, RecordedOnce
  <1> QED
    BY <1>4, <1>5

\* Provenance is written at a confirmation and nowhere else.
LEMMA ProvenanceCases ==
    ASSUME Next
    PROVE  UNCHANGED provenance \/ ((ReconcileConfirm \/ Confirm) /\ step' = "sent")
  <1>1. CASE Reconcile
    BY <1>1 DEF Reconcile, ReconcileSelect, ReconcileConfirm, ReconcileFinish, ReconcileRetain,
                ReconcileClear, ReconcileOutdate, ReconcileMiss, ReconcileRead, Goto
  <1>2. CASE Deliver
    BY <1>2 DEF Deliver, Claim, Claimed, MissingSnapshot, Attach, Guard, Fill, Recheck, HandOver,
                Press, Confirm, GiveUp, BrowserError, Settle, Goto
  <1>3. CASE Refresh \/ RowsDone \/ SkipPhase \/ Crash
    BY <1>3 DEF Refresh, RefreshSelect, RefreshRow, RefreshError, RowsDone, SkipPhase, Crash
  <1>4. CASE People
    BY <1>4 DEF People, Proposed, Regenerated, OperatorApproves, OperatorDiscards, OperatorTypes,
                OperatorEnter, MessageDelivered, TelegramDecision, MessageArrives
  <1> QED
    BY <1>1, <1>2, <1>3, <1>4 DEF Next, Worker

\* Provenance stays exact, and nothing is recorded for ids to come.
LEMMA ProvenanceStep ==
    ASSUME BaseInv, DeliveryInv, Next
    PROVE  RecordedDelivered' /\ RecordedOnce' /\ Unrecorded'
  <1>1. /\ RecordedDelivered /\ RecordedOnce /\ Unrecorded
        /\ RowsKept /\ QueueTypeOK' /\ QueueTypeOK
    BY ProvenanceParts, BaseStep DEF DeliveryInv, BaseInv, QueueInv
  <1>2. Rows \subseteq Rows' /\ Rows' \subseteq Ids /\ provenance \in [Ids -> 0 .. MaxMessages]
    <2>1. lastId' \in 0 .. MaxId
      BY <1>1 DEF QueueTypeOK
    <2> QED
      BY <1>1, <2>1, MaxIdAssumption DEF RowsKept, Rows, Ids, BaseInv, WorldTypeOK
  <1>3. \A id \in Rows : /\ queue'[id].target_id = queue[id].target_id
                        /\ queue'[id].snapshot = queue[id].snapshot
    BY <1>1 DEF RowsKept
  <1>4. CASE UNCHANGED provenance
    <2>1. \A id \in Rows' : provenance[id] # 0 => id \in Rows
      BY <1>1, <1>2 DEF Unrecorded
    <2>2. RecordedDelivered'
      BY <1>1, <1>3, <1>4, <2>1, StaysDelivered DEF RecordedDelivered
    <2>3. RecordedOnce'
      BY <1>1, <1>3, <1>4, <2>1 DEF RecordedOnce
    <2>4. Unrecorded'
      BY <1>1, <1>2, <1>4 DEF Unrecorded
    <2> QED
      BY <2>2, <2>3, <2>4
  <1>5. CASE (ReconcileConfirm \/ Confirm) /\ step' = "sent"
    <2> DEFINE n == queue[item].snapshot + 1
    <2>1. /\ item \in Rows /\ Delivered(item) /\ RecordMasDelivery(item, n)
          /\ UNCHANGED <<queueVars, worldVars>>
      BY <1>5, ConfirmationShows
    <2>2. Rows' = Rows /\ queue' = queue /\ \A id \in Rows : Delivered(id) => Delivered(id)'
      BY <2>1, StaysDelivered DEF queueVars, Rows
    <2>3. CASE UNCHANGED provenance
      BY <1>4, <2>3
    <2>4. CASE /\ \A other \in Rows : ~(/\ queue[other].target_id = queue[item].target_id
                                        /\ provenance[other] = n)
               /\ provenance' = [provenance EXCEPT ![item] = n]
      <3> HIDE DEF n
      <3>1. /\ provenance'[item] = n
            /\ \A id \in Ids \ {item} : provenance'[id] = provenance[id]
        BY <1>2, <2>1, <2>4
      <3>2. RecordedDelivered'
        BY <1>1, <1>2, <2>1, <2>2, <3>1 DEF RecordedDelivered, n
      <3>3. RecordedOnce'
        BY <1>1, <1>2, <2>1, <2>2, <2>4, <3>1 DEF RecordedOnce
      <3>4. Unrecorded'
        BY <1>1, <2>1, <2>2, <3>1 DEF Unrecorded
      <3> QED
        BY <3>2, <3>3, <3>4
    <2> QED
      BY <2>1, <2>3, <2>4 DEF RecordMasDelivery
  <1> QED
    BY <1>4, <1>5, ProvenanceCases

\* BaseInv and DeliveryInv together are inductive on both databases.
LEMMA DeliveryInvariance == Spec => [](BaseInv /\ DeliveryInv)
  <1>1. Init => BaseInv /\ DeliveryInv
    <2> SUFFICES ASSUME Init PROVE BaseInv /\ DeliveryInv
      OBVIOUS
    <2>1. Rows = {}
      BY DEF Init, QueueInit, Rows
    <2>2. Confirmed /\ SeenThere /\ Unrecorded /\ ExecutedMeansDelivered /\ ProvenanceExact
      BY <2>1 DEF Init, Confirmed, SeenThere, Unrecorded, ExecutedMeansDelivered, ProvenanceExact
    <2> QED
      BY <2>2, BaseInit DEF DeliveryInv
  <1>2. BaseInv /\ DeliveryInv /\ [Next]_vars => BaseInv' /\ DeliveryInv'
    <2> SUFFICES ASSUME BaseInv, DeliveryInv, [Next]_vars PROVE BaseInv' /\ DeliveryInv'
      OBVIOUS
    <2>1. CASE Next
      <3>1. BaseInv'
        BY <2>1, BaseStep
      <3>2. ExecutedMeansDelivered' /\ SeenThere' /\ Confirmed' /\ Unrecorded'
        BY <2>1, ExecutedStep, SeenStep, ConfirmedStep, ProvenanceStep
      <3>3. (BaseInv => (ProvenanceExact <=> RecordedDelivered /\ RecordedOnce))'
        BY ProvenanceParts, PTL
      <3>4. ProvenanceExact'
        BY <2>1, <3>1, <3>3, ProvenanceStep
      <3> QED
        BY <3>1, <3>2, <3>4 DEF DeliveryInv
    <2>2. CASE UNCHANGED vars
      <3>1. DeliveryInv'
        BY <2>2 DEF vars, queueVars, workerVars, worldVars, DeliveryInv, Confirmed, Delivered,
                    SeenThere, Unrecorded, ExecutedMeansDelivered, ProvenanceExact, Bubble, Thread,
                    Rows
      <3> QED
        BY <2>2, <3>1, BaseStutter
    <2> QED
      BY <2>1, <2>2
  <1> QED
    BY <1>1, <1>2, PTL DEF Spec

\* README.md:91-92: on both databases an executed row's approved text stands in
\* the thread, right after the message the proposal was written for.
THEOREM ExecutedDelivered == Spec => []ExecutedMeansDelivered
  <1>1. DeliveryInv => ExecutedMeansDelivered
    BY DEF DeliveryInv
  <1> QED
    BY <1>1, DeliveryInvariance, PTL

\* l5_delivery_guard.py:181-199: on both databases the provenance of an action
\* is its delivered message, and no other action's.
THEOREM ProvenanceRight == Spec => []ProvenanceExact
  <1>1. DeliveryInv => ProvenanceExact
    BY DEF DeliveryInv
  <1> QED
    BY <1>1, DeliveryInvariance, PTL
-----------------------------------------------------------------------------
(* The executor implements DeliveryPromise.  The refinement mapping is the *)
(* one of `Promise` in HitlDelivery; here its parts have names.            *)

RecipientMap == [id \in Ids |-> IF id \in Rows THEN queue[id].target_id ELSE NoId]
GrantedRows == {id \in Rows : queue[id].status = "approved"}
HeldRows == {id \in Rows : queue[id].status = "executing"}

\* Every row is a DM, and so is the one an open regeneration will insert.
AllDms == /\ \A id \in Rows : queue[id].queue_type \in OutboundQueueTypes
          /\ \A e \in Engines : regen[e] # NoTx => regen[e].row.queue_type \in OutboundQueueTypes

\* An UPDATE of the row `id` alone, of what becomes of it and not what it is about.
RowUpdate(id) == /\ lastId' = lastId
                 /\ queue'[id].target_id = queue[id].target_id
                 /\ \A other \in Rows \ {id} : queue'[other] = queue[other]

\* Facts the following lemmas share.
LEMMA TableFacts ==
    ASSUME QueueTypeOK
    PROVE  /\ lastId \in Nat /\ lastId <= MaxId
           /\ Rows \subseteq Ids /\ NoId \notin Rows
           /\ queue \in [Rows -> Row]
           /\ \A id \in Rows : queue[id].target_id \in Targets
  <1>1. lastId \in 0 .. MaxId /\ queue \in [Rows -> Row]
    BY DEF QueueTypeOK
  <1>2. /\ lastId \in Nat /\ lastId <= MaxId
        /\ Rows \subseteq Ids /\ NoId \notin Rows
    BY <1>1, MaxIdAssumption DEF Rows, Ids, NoId
  <1>3. \A id \in Rows : queue[id].target_id \in Targets
    BY <1>1 DEF Row
  <1> QED
    BY <1>1, <1>2, <1>3

\* Where ids, recipients, statuses and presses stay, nothing happens to the promise.
LEMMA PromiseStutters ==
    ASSUME lastId' = lastId, enters' = enters,
           \A id \in Rows : /\ queue'[id].target_id = queue[id].target_id
                            /\ queue'[id].status = queue[id].status
    PROVE  UNCHANGED Promise!promiseVars
  <1>1. Rows' = Rows
    BY DEF Rows
  <1>2. RecipientMap' = RecipientMap /\ GrantedRows' = GrantedRows /\ HeldRows' = HeldRows
    BY <1>1 DEF RecipientMap, GrantedRows, HeldRows, Ids
  <1> QED
    BY <1>2 DEF Promise!promiseVars, RecipientMap, GrantedRows, HeldRows

\* What an UPDATE of one row does to the promise's variables.
LEMMA RowUpdateMaps ==
    ASSUME QueueTypeOK, NEW id \in Rows, RowUpdate(id)
    PROVE  /\ RecipientMap' = RecipientMap
           /\ GrantedRows' = IF queue'[id].status = "approved" THEN GrantedRows \cup {id}
                             ELSE GrantedRows \ {id}
           /\ HeldRows' = IF queue'[id].status = "executing" THEN HeldRows \cup {id}
                          ELSE HeldRows \ {id}
  <1>1. Rows' = Rows
    BY DEF RowUpdate, Rows
  <1>2. RecipientMap' = RecipientMap
    BY <1>1 DEF RowUpdate, RecipientMap, Ids
  <1>3. GrantedRows' = IF queue'[id].status = "approved" THEN GrantedRows \cup {id}
                       ELSE GrantedRows \ {id}
    BY <1>1 DEF RowUpdate, GrantedRows
  <1>4. HeldRows' = IF queue'[id].status = "executing" THEN HeldRows \cup {id}
                    ELSE HeldRows \ {id}
    BY <1>1 DEF RowUpdate, HeldRows
  <1> QED
    BY <1>2, <1>3, <1>4

\* An approval, however it comes about, is a grant.
LEMMA ApprovalGrants ==
    ASSUME QueueTypeOK, NEW id \in Rows, Approving(id),
           enters' = [enters EXCEPT ![id] = 0]
    PROVE  Promise!Next
  <1>1. queue' = SetApproved(id) /\ lastId' = lastId
    BY DEF Approving, ApproveAction, WebApprove, WebReprocess
  <1>2. RowUpdate(id) /\ queue'[id].status = "approved"
    BY <1>1, SetApprovedUpdates DEF RowUpdate, Updates
  <1>3. id \in Ids /\ RecipientMap[id] # NoId
    BY TableFacts, TargetsAssumption DEF RecipientMap
  <1>4. /\ RecipientMap' = RecipientMap
        /\ GrantedRows' = GrantedRows \cup {id}
        /\ HeldRows' = HeldRows \ {id}
    BY <1>2, RowUpdateMaps
  <1>5. Promise!Grant(id)
    BY <1>3, <1>4 DEF Promise!Grant, RecipientMap, GrantedRows, HeldRows
  <1> QED
    BY <1>3, <1>5 DEF Promise!Next

\* A refusal takes a grant back.
LEMMA DiscardRevokes ==
    ASSUME QueueTypeOK, NEW id \in Rows, Discarding(id), enters' = enters
    PROVE  Promise!Next
  <1>1. PICK status \in {"rejected", "deleted"} :
            queue' = SetStatus(id, status) /\ lastId' = lastId
    BY DEF Discarding, RejectAction, WebReject, WebDelete
  <1>2. status \in Statuses
    BY <1>1 DEF Statuses, TerminalStatuses
  <1>3. RowUpdate(id) /\ queue'[id].status = status
    BY <1>1, <1>2, SetStatusUpdates DEF RowUpdate, Updates
  <1>4. id \in Ids /\ id \notin HeldRows
    BY TableFacts DEF Discarding, RejectAction, WebReject, WebDelete, HeldRows
  <1>5. /\ RecipientMap' = RecipientMap
        /\ GrantedRows' = GrantedRows \ {id}
        /\ HeldRows' = HeldRows
    BY <1>1, <1>3, <1>4, RowUpdateMaps
  <1>6. Promise!Revoke(id)
    BY <1>5 DEF Promise!Revoke, RecipientMap, GrantedRows, HeldRows
  <1> QED
    BY <1>4, <1>6 DEF Promise!Next

\* A row that is finished or taken back is released.
LEMMA OutcomeReleases ==
    ASSUME QueueTypeOK, NEW id \in Rows, enters' = enters,
           \/ \E outcome \in {"executed", "failed"} : FinishAction(id, outcome)
           \/ \E outcome \in {"drafted", "outdated"} : SetDelivery(id, outcome)
    PROVE  [Promise!Next]_(Promise!promiseVars)
  <1>1. CASE queue' = queue /\ lastId' = lastId
    BY <1>1, PromiseStutters
  <1>2. ASSUME queue[id].status = "executing", RowUpdate(id),
               queue'[id].status \in {"executed", "failed", "rejected"}
        PROVE  Promise!Next
    <2>1. id \in Ids /\ id \notin GrantedRows
      BY <1>2, TableFacts DEF GrantedRows
    <2>2. /\ RecipientMap' = RecipientMap
          /\ GrantedRows' = GrantedRows
          /\ HeldRows' = HeldRows \ {id}
      BY <1>2, <2>1, RowUpdateMaps
    <2>3. Promise!Release(id)
      BY <2>2 DEF Promise!Release, RecipientMap, GrantedRows, HeldRows
    <2> QED
      BY <2>1, <2>3 DEF Promise!Next
  <1>3. ASSUME NEW outcome \in {"executed", "failed"}, FinishAction(id, outcome)
        PROVE  [Promise!Next]_(Promise!promiseVars)
    <2>1. CASE queue[id].status # "executing"
      BY <1>1, <1>3, <2>1 DEF FinishAction
    <2>2. CASE queue[id].status = "executing"
      <3>1. queue' = SetStatus(id, outcome) /\ lastId' = lastId /\ outcome \in Statuses
        BY <1>3, <2>2 DEF FinishAction, Statuses, TerminalStatuses
      <3>2. RowUpdate(id) /\ queue'[id].status = outcome
        BY <3>1, SetStatusUpdates DEF RowUpdate, Updates
      <3> QED
        BY <1>2, <2>2, <3>2
    <2> QED
      BY <2>1, <2>2
  <1>4. ASSUME NEW outcome \in {"drafted", "outdated"}, SetDelivery(id, outcome)
        PROVE  [Promise!Next]_(Promise!promiseVars)
    <2>1. CASE queue[id].status # "executing"
      BY <1>1, <1>4, <2>1 DEF SetDelivery
    <2>2. CASE queue[id].status = "executing" /\ outcome = "drafted"
      <3>1. queue' = [queue EXCEPT ![id].delivery_status = "drafted"] /\ lastId' = lastId
        BY <1>4, <2>2 DEF SetDelivery
      <3>2. \A other \in Rows : /\ queue'[other].target_id = queue[other].target_id
                                /\ queue'[other].status = queue[other].status
        BY <3>1, TableFacts DEF Row
      <3> QED
        BY <3>1, <3>2, PromiseStutters
    <2>3. CASE queue[id].status = "executing" /\ outcome = "outdated"
      <3>1. /\ queue' = [queue EXCEPT ![id].delivery_status = "outdated",
                                      ![id].fetch_request = "pending",
                                      ![id].status = "rejected"]
            /\ lastId' = lastId
        BY <1>4, <2>3 DEF SetDelivery
      <3>2. RowUpdate(id) /\ queue'[id].status = "rejected"
        BY <3>1, TableFacts DEF RowUpdate, Row
      <3> QED
        BY <1>2, <2>3, <3>2
    <2> QED
      BY <2>1, <2>2, <2>3
  <1> QED
    BY <1>3, <1>4

\* A claim takes what was granted, for a recipient nothing is held for.
LEMMA ClaimTakes ==
    ASSUME QueueInv, AllDms, ClaimUpdate, enters' = enters
    PROVE  [Promise!Next]_(Promise!promiseVars)
  <1>1. QueueTypeOK /\ claim \in Rows
    BY DEF QueueInv, QueueTypeOK, ClaimUpdate
  <1>2. CASE queue[claim].status # "approved"
    BY <1>2, PromiseStutters DEF ClaimUpdate
  <1>3. PICK id \in Rows : id = claim
    BY <1>1
  <1>4. CASE queue[claim].status = "approved"
    <2>1. queue' = SetStatus(id, "executing") /\ lastId' = lastId /\ "executing" \in Statuses
      BY <1>3, <1>4 DEF ClaimUpdate, Statuses
    <2>2. RowUpdate(id) /\ queue'[id].status = "executing"
      BY <1>1, <2>1, SetStatusUpdates DEF RowUpdate, Updates
    <2>3. id \in Ids /\ id \in GrantedRows
      BY <1>1, <1>3, <1>4, TableFacts DEF GrantedRows
    <2>4. /\ RecipientMap' = RecipientMap
          /\ GrantedRows' = GrantedRows \ {id}
          /\ HeldRows' = HeldRows \cup {id}
      BY <1>1, <2>2, RowUpdateMaps
    <2>5. ASSUME NEW other \in HeldRows
          PROVE  RecipientMap[other] # RecipientMap[id]
      <3>1. other \in Rows \ {id} /\ queue[other].status = "executing"
        BY <1>1, <1>3, <1>4 DEF HeldRows
      <3>2. queue[other].target_id # queue[id].target_id
        BY <1>3, <3>1 DEF QueueInv, ClaimClear, ClaimUpdate, Busy, AllDms
      <3> QED
        BY <1>1, <3>1, <3>2, TableFacts DEF RecipientMap
    <2>6. Promise!Take(id)
      BY <2>3, <2>4, <2>5 DEF Promise!Take, RecipientMap, GrantedRows, HeldRows
    <2> QED
      BY <2>3, <2>6 DEF Promise!Next
  <1> QED
    BY <1>2, <1>4

\* An INSERT writes a message that nobody approved; it may retire approved ones.
LEMMA InsertWrites ==
    ASSUME QueueTypeOK, lastId < MaxId, enters' = enters,
           NEW table \in [Rows -> Row], NEW row \in Row, row.status = "pending",
           NEW ids \in SUBSET Rows,
           \A id \in ids : queue[id].status # "executing" /\ table[id].status = "rejected",
           \A id \in ids : table[id].target_id = queue[id].target_id,
           \A id \in Rows \ ids : table[id] = queue[id],
           queue' = Inserted(table, row), lastId' = lastId + 1
    PROVE  Promise!Next
  <1>1. lastId + 1 \in Ids /\ lastId + 1 \notin Rows /\ lastId + 1 # NoId
    BY TableFacts, MaxIdAssumption DEF Rows, Ids, NoId
  <1>2. PICK new \in Ids : new = lastId + 1
    BY <1>1
  <1>3. Rows' = Rows \cup {new}
    BY <1>2, TableFacts DEF Rows
  <1>4. queue'[new] = row /\ \A id \in Rows : queue'[id] = table[id]
    BY <1>2, TableFacts, InsertedRow
  <1>5. RecipientMap[new] = NoId /\ row.target_id \in Targets
    BY <1>1, <1>2 DEF RecipientMap, Row
  <1>6. RecipientMap' = [RecipientMap EXCEPT ![new] = row.target_id]
    <2>1. \A id \in Rows : queue'[id].target_id = queue[id].target_id
      BY <1>4
    <2> QED
      BY <1>1, <1>2, <1>3, <1>4, <2>1 DEF RecipientMap, Ids
  <1>7. GrantedRows' = GrantedRows \ (ids \cap GrantedRows)
    BY <1>1, <1>2, <1>3, <1>4 DEF GrantedRows
  <1>8. HeldRows' = HeldRows
    BY <1>1, <1>2, <1>3, <1>4 DEF HeldRows
  <1>9. PICK retired \in SUBSET GrantedRows : retired = ids \cap GrantedRows
    OBVIOUS
  <1>10. Promise!Write(new, row.target_id, retired)
    BY <1>5, <1>6, <1>7, <1>8, <1>9 DEF Promise!Write, RecipientMap, GrantedRows, HeldRows
  <1> QED
    BY <1>2, <1>5, <1>9, <1>10 DEF Promise!Next, GrantedRows

\* The executor's table holds DMs only.
LEMMA AllDmsStep ==
    ASSUME BaseInv, AllDms, Next
    PROVE  AllDms'
  <1>1. QueueTypeOK /\ queue \in [Rows -> Row] /\ lastId \in Nat
    BY TableFacts DEF BaseInv, QueueInv
  <1>2. CASE queue' = queue /\ lastId' = lastId /\ \A e \in Engines : regen'[e] \in {regen[e], NoTx}
    BY <1>2 DEF AllDms, Rows
  <1>3. ASSUME Updates(queue'), lastId' = lastId, regen' = regen
        PROVE  AllDms'
    BY <1>3 DEF AllDms, Updates, Rows
  <1>4. ASSUME NEW table \in [Rows -> Row], NEW row \in Row,
               row.queue_type \in OutboundQueueTypes,
               \A id \in Rows : table[id].queue_type = queue[id].queue_type,
               queue' = Inserted(table, row), lastId' = lastId + 1,
               \A e \in Engines : regen'[e] \in {regen[e], NoTx}
        PROVE  AllDms'
    <2>1. Rows' = Rows \cup {lastId + 1}
      BY <1>1, <1>4 DEF Rows
    <2>2. queue'[lastId + 1] = row /\ \A id \in Rows : queue'[id] = table[id]
      BY <1>1, <1>4, InsertedRow
    <2> QED
      BY <1>4, <2>1, <2>2 DEF AllDms
  <1>5. CASE Proposed
    <2>1. PICK qtype \in OutboundQueueTypes, target \in Targets, kind \in Kinds, text \in Texts :
                 \E snapshot \in 0 .. Len(conversation[target]) :
                   LET row == Proposal(qtype, target, kind, text, snapshot)
                   IN  EnqueueAction(row) \/ \E e \in Engines : ReplaceSelect(e, row)
      BY <1>5 DEF Proposed
    <2>2. PICK snapshot \in 0 .. Len(conversation[target]) :
                   LET row == Proposal(qtype, target, kind, text, snapshot)
                   IN  EnqueueAction(row) \/ \E e \in Engines : ReplaceSelect(e, row)
      BY <2>1
    <2>3. snapshot \in Snapshots /\ qtype \in QueueTypes
      BY MessagesAssumption, QueueTypesAssumption DEF BaseInv, ThreadsOK
    <2> DEFINE row == Proposal(qtype, target, kind, text, snapshot)
    <2>4. row \in Row
      BY <2>3, ProposalRow
    <2>5. row.queue_type \in OutboundQueueTypes
      BY DEF Proposal
    <2> HIDE DEF row
    <2>6. CASE EnqueueAction(row)
      BY <1>1, <1>4, <2>4, <2>5, <2>6 DEF EnqueueAction
    <2>7. ASSUME NEW e \in Engines, ReplaceSelect(e, row)
          PROVE  AllDms'
      <3> DEFINE tx == [open |-> TRUE, row |-> row, old |-> Superseded(row)]
      <3>1. /\ UNCHANGED <<queue, lastId>> /\ Rows' = Rows
            /\ regen' = [regen EXCEPT ![e] = tx]
        BY <2>7 DEF ReplaceSelect, Rows
      <3>2. tx.row = row
        OBVIOUS
      <3> HIDE DEF tx
      <3>3. regen'[e] = tx /\ \A other \in Engines : other # e => regen'[other] = regen[other]
        BY <1>1, <3>1 DEF QueueTypeOK
      <3> QED
        BY <2>5, <3>1, <3>2, <3>3 DEF AllDms
    <2> QED
      BY <2>2, <2>6, <2>7 DEF row
  <1>6. ASSUME NEW e \in Engines, ReplaceCommit(e) \/ ReplaceRollback(e)
        PROVE  AllDms'
    <2>1. regen[e] # NoTx /\ \A other \in Engines : regen'[other] \in {regen[other], NoTx}
      BY <1>1, <1>6 DEF ReplaceCommit, ReplaceRollback, QueueTypeOK
    <2>2. CASE ReplaceCommit(e)
      <3>1. regen[e].row \in Row /\ regen[e].row.queue_type \in OutboundQueueTypes
        BY <1>1, <2>1, OpenTx DEF AllDms
      <3>2. /\ Rejected(regen[e].old) \in [Rows -> Row]
            /\ \A id \in Rows : Rejected(regen[e].old)[id].queue_type = queue[id].queue_type
        BY <1>1, RejectedUpdates DEF NoneLivelier, Updates
      <3> QED
        BY <1>4, <2>1, <2>2, <3>1, <3>2 DEF ReplaceCommit
    <2>3. CASE ReplaceRollback(e)
      BY <1>2, <2>1, <2>3 DEF ReplaceRollback
    <2> QED
      BY <1>6, <2>2, <2>3
  <1>7. CASE UNCHANGED <<lastId, regen>>
    <2>1. RowsKept
      BY TableStep, RowsKeptStep DEF BaseInv
    <2> QED
      BY <1>7, <2>1 DEF AllDms, RowsKept, Rows
  <1>8. Next => UNCHANGED <<lastId, regen>> \/ Proposed \/ Regenerated
    <2>1. CASE Reconcile
      BY <2>1 DEF Reconcile, ReconcileSelect, ReconcileConfirm, ReconcileFinish, ReconcileRetain,
                  ReconcileClear, ReconcileOutdate, ReconcileMiss, ReconcileRead, queueVars,
                  FinishAction, SetDelivery
    <2>2. CASE Deliver
      BY <2>2 DEF Deliver, Claim, ClaimSelect, Claimed, ClaimUpdate, MissingSnapshot, Attach, Guard,
                  Fill, Recheck, HandOver, Press, Confirm, GiveUp, BrowserError, Settle, queueVars,
                  FinishAction, SetDelivery
    <2>3. CASE Refresh \/ RowsDone \/ SkipPhase
      BY <2>3 DEF Refresh, RefreshSelect, RefreshRow, RefreshError, RefreshWrite, RowsDone,
                  SkipPhase, queueVars
    <2>4. CASE People
      BY <2>4 DEF People, OperatorApproves, OperatorDiscards, OperatorTypes, OperatorEnter,
                  MessageDelivered, TelegramDecision, MessageArrives, queueVars, ApproveAction,
                  RejectAction, WebApprove, WebReject, WebReprocess, WebDelete
    <2>5. CASE Crash
      BY <2>5 DEF Crash, ClaimRollback, queueVars
    <2> QED
      BY <2>1, <2>2, <2>3, <2>4, <2>5 DEF Next, Worker
  <1> QED
    BY <1>5, <1>6, <1>7, <1>8 DEF Regenerated, Replace

\* Every step of the executor and of the people around it is one the promise
\* allows, or shows nothing of it.
LEMMA PromiseStep ==
    ASSUME BaseInv, HeldInv, AllDms, Next
    PROVE  [Promise!Next]_(Promise!promiseVars)
  <1>1. QueueInv /\ QueueTypeOK /\ queue \in [Rows -> Row] /\ lastId \in Nat
    BY TableFacts DEF BaseInv, QueueInv
  <1>2. CASE UNCHANGED <<queue, lastId, enters>>
    BY <1>2, PromiseStutters
  <1>3. CASE Reconcile
    <2>1. CASE ReconcileFinish
      BY <1>1, <2>1, OutcomeReleases DEF ReconcileFinish, At, BaseInv, ItemHeld, Holding
    <2>2. CASE ReconcileOutdate
      BY <1>1, <2>2, OutcomeReleases DEF ReconcileOutdate, At, BaseInv, ItemHeld, Holding
    <2>3. Reconcile => \/ ReconcileFinish \/ ReconcileOutdate
                       \/ UNCHANGED <<queue, lastId, enters>>
      BY DEF Reconcile, ReconcileSelect, ReconcileConfirm, ReconcileRetain, ReconcileClear,
             ReconcileMiss, ReconcileRead, queueVars
    <2> QED
      BY <1>2, <1>3, <2>1, <2>2, <2>3
  <1>4. CASE Deliver
    <2>1. CASE Claimed
      BY <1>1, <2>1, ClaimTakes DEF Claimed
    <2>2. CASE Settle
      BY <1>1, <2>2, OutcomeReleases DEF Settle, BaseInv, ItemHeld, Holding
    <2>3. CASE Press
      <3>1. PICK id \in Rows : id = item
        BY <2>3 DEF Press, Delivering, BaseInv, ItemHeld, Holding, Preparing
      <3>2. id \in Ids /\ id \in HeldRows
        BY <1>1, <2>3, <3>1, TableFacts DEF Press, Delivering, HeldInv, ClaimHeld, HeldRows
      <3>3. enters[id] = 0 /\ enters \in [Ids -> Nat]
        BY <2>3, <3>1 DEF Press, Delivering, HeldInv, PreparedFresh, Preparing, BaseInv, WorldTypeOK
      <3>4. enters' = [enters EXCEPT ![id] = 1] /\ UNCHANGED <<queue, lastId>>
        BY <2>3, <3>1, <3>2, <3>3 DEF Press, queueVars
      <3>5. RecipientMap' = RecipientMap /\ GrantedRows' = GrantedRows /\ HeldRows' = HeldRows
        BY <3>4 DEF RecipientMap, GrantedRows, HeldRows, Rows
      <3>6. Promise!Attempt(id)
        BY <3>2, <3>3, <3>4, <3>5 DEF Promise!Attempt, RecipientMap, GrantedRows, HeldRows
      <3> QED
        BY <3>2, <3>6 DEF Promise!Next
    <2>4. Deliver => Claimed \/ Settle \/ Press \/ UNCHANGED <<queue, lastId, enters>>
      BY DEF Deliver, Claim, ClaimSelect, MissingSnapshot, Attach, Guard, Fill, Recheck, HandOver,
             Confirm, GiveUp, BrowserError, queueVars
    <2> QED
      BY <1>2, <1>4, <2>1, <2>2, <2>3, <2>4
  <1>5. CASE Refresh
    <2>1. ASSUME NEW id \in Rows, NEW outcome, RefreshWrite(id, outcome), enters' = enters
          PROVE  [Promise!Next]_(Promise!promiseVars)
      <3>1. \A other \in Rows : /\ queue'[other].target_id = queue[other].target_id
                                /\ queue'[other].status = queue[other].status
        BY <1>1, <2>1 DEF RefreshWrite, Row
      <3> QED
        BY <2>1, <3>1, PromiseStutters DEF RefreshWrite
    <2> QED
      BY <1>2, <1>5, <2>1 DEF Refresh, RefreshSelect, RefreshRow, RefreshError, queueVars
  <1>6. CASE RowsDone \/ SkipPhase
    BY <1>2, <1>6 DEF RowsDone, SkipPhase, queueVars
  <1>7. CASE Proposed
    <2>1. PICK qtype \in QueueTypes, target \in Targets, kind \in Kinds,
               text \in Texts, snapshot \in Snapshots :
               LET row == Proposal(qtype, target, kind, text, snapshot)
               IN  EnqueueAction(row) \/ \E e \in Engines : ReplaceSelect(e, row)
      BY <1>7, ProposedProposes DEF BaseInv, Propose
    <2> DEFINE row == Proposal(qtype, target, kind, text, snapshot)
    <2>2. row \in Row /\ row.status = "pending"
      BY ProposalRow
    <2> HIDE DEF row
    <2>3. enters' = enters
      BY <1>7 DEF Proposed
    <2>4. CASE EnqueueAction(row)
      <3>1. {} \in SUBSET Rows
        OBVIOUS
      <3> QED
        BY <1>1, <2>2, <2>3, <2>4, <3>1, InsertWrites DEF EnqueueAction
    <2>5. ASSUME NEW e \in Engines, ReplaceSelect(e, row)
          PROVE  [Promise!Next]_(Promise!promiseVars)
      BY <1>2, <2>3, <2>5 DEF ReplaceSelect
    <2> QED
      BY <2>1, <2>4, <2>5 DEF row
  <1>8. CASE Regenerated
    <2>1. ASSUME NEW e \in Engines, ReplaceCommit(e)
          PROVE  [Promise!Next]_(Promise!promiseVars)
      <3>1. /\ regen[e].row \in Row /\ regen[e].row.status = "pending"
            /\ regen[e].old \in SUBSET Rows
        BY <1>1, <2>1, OpenTx DEF ReplaceCommit, QueueInv, PendingRegen
      <3>2. \A id \in regen[e].old : queue[id].status # "executing"
        BY <2>1 DEF ReplaceCommit, HeldInv, RegenUndecided
      <3>3. Rejected(regen[e].old) \in [Rows -> Row]
        BY <1>1, RejectedUpdates DEF NoneLivelier, Updates
      <3>4. /\ \A id \in regen[e].old : /\ Rejected(regen[e].old)[id].status = "rejected"
                                     /\ Rejected(regen[e].old)[id].target_id = queue[id].target_id
            /\ \A id \in Rows \ regen[e].old : Rejected(regen[e].old)[id] = queue[id]
        BY <1>1, <3>1 DEF Rejected, Row
      <3> QED
        BY <1>1, <1>8, <2>1, <3>1, <3>2, <3>3, <3>4, InsertWrites DEF Regenerated, ReplaceCommit
    <2> QED
      BY <1>2, <1>8, <2>1 DEF Regenerated, Replace, ReplaceRollback
  <1>9. CASE People
    <2>1. ASSUME NEW id \in Rows, OperatorApproves(id) \/ OperatorDiscards(id)
                                    \/ TelegramDecision(id)
          PROVE  [Promise!Next]_(Promise!promiseVars)
      <3>1. \/ Approving(id) /\ enters' = [enters EXCEPT ![id] = 0]
            \/ Discarding(id) /\ enters' = enters
        BY <2>1 DEF OperatorApproves, OperatorDiscards, TelegramDecision, Approving, Discarding
      <3> QED
        BY <1>1, <3>1, ApprovalGrants, DiscardRevokes
    <2>2. ASSUME NEW id \in Rows, OperatorTypes(id) \/ OperatorEnter(id) \/ MessageDelivered(id)
          PROVE  [Promise!Next]_(Promise!promiseVars)
      BY <1>2, <2>2 DEF OperatorTypes, OperatorEnter, MessageDelivered, queueVars
    <2>3. ASSUME NEW target, NEW message, MessageArrives(target, message)
          PROVE  [Promise!Next]_(Promise!promiseVars)
      BY <1>2, <2>3 DEF MessageArrives, queueVars
    <2> QED
      BY <1>7, <1>8, <1>9, <2>1, <2>2, <2>3 DEF People
  <1>10. CASE Crash
    BY <1>2, <1>10 DEF Crash, ClaimRollback, queueVars
  <1> QED
    BY <1>3, <1>4, <1>5, <1>6, <1>9, <1>10 DEF Next, Worker

\* README.md:69, 91-93: under SQLite the executor implements DeliveryPromise.
\* Whatever the table, the tabs and crashes do, what is visible of a message is
\* a grant by a human, one taking for delivery while nothing else is held for
\* its recipient, and at most one attempt until the next grant.
THEOREM PromiseKept ==
    ASSUME Backend = "sqlite"
    PROVE  Spec => KeepsPromise
  <1>1. Init => Promise!Init
    <2>1. Init => Rows = {}
      BY DEF Init, QueueInit, Rows
    <2> QED
      BY <2>1 DEF Init, Promise!Init
  <1>2. Init => AllDms
    BY DEF Init, QueueInit, AllDms, Rows
  <1>3. BaseInv /\ AllDms /\ [Next]_vars => AllDms'
    <2>1. UNCHANGED vars /\ AllDms => AllDms'
      BY DEF vars, queueVars, AllDms, Rows
    <2> QED
      BY <2>1, AllDmsStep
  <1>4. BaseInv /\ HeldInv /\ AllDms /\ [Next]_vars => [Promise!Next]_(Promise!promiseVars)
    <2>1. UNCHANGED vars => UNCHANGED Promise!promiseVars
      BY DEF vars, queueVars, Promise!promiseVars, Rows
    <2> QED
      BY <2>1, PromiseStep
  <1>5. Spec => [](BaseInv /\ HeldInv)
    BY HeldInvariance
  <1> QED
    BY <1>1, <1>2, <1>3, <1>4, <1>5, PTL DEF Spec, KeepsPromise, Promise!Spec
=============================================================================
