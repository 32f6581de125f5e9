------------------------------ MODULE InboxMas ------------------------------
(***************************************************************************)
(* The scheduled inbox MAS (tools/l5_inbox_mas_runner.py) on one thread:   *)
(* the time gate, the claim of a customer turn before the LLM run, and the *)
(* draft or notice it ends in, while crawls store new messages and humans  *)
(* decide about earlier drafts.                                            *)
(*                                                                         *)
(* A turn is named by the seq its message has at that moment; crawls that  *)
(* reach further up renumber the rows (MessageStore).                      *)
(***************************************************************************)
EXTENDS ActionQueue, MessageStore

CONSTANTS
    Thread      \* the thread, a member of Targets

ASSUME InboxMasAssumption ==
    /\ Thread \in Targets /\ Kinds # {}
    /\ 0 .. MaxTalk \subseteq Snapshots /\ 0 .. MaxTalk \subseteq Texts

VARIABLES
    turn,     \* the runner: step, the messages it read, the seq it noted
    mark,     \* inbox_mas_processed_messages.last_message_seq, or NoSeq
    told,     \* the largest last_message_seq in telegram_hitl_queue, or NoSeq
    seen      \* ghost: messages that were in front of a run that claimed

masVars == <<turn, mark, told, seen>>
inboxVars == <<queueVars, storeVars, masVars>>

NoSeq == -1
Resting == [step |-> "rest", messages |-> <<>>, seq |-> NoSeq]

MasTypeOK ==
    /\ turn.step \in {"rest", "claim", "llm", "outcome", "enqueue", "tell"}
    /\ turn.messages \in Seq(Message)
    /\ turn.seq \in NoSeq .. MaxRows
    /\ mark \in NoSeq .. MaxRows
    /\ told \in NoSeq .. MaxRows
    /\ seen \subseteq 1 .. MaxTalk

MasInit == turn = Resting /\ mark = NoSeq /\ told = NoSeq /\ seen = {}

-----------------------------------------------------------------------------
(* compute_conversation_state.                                             *)

\* How old the last customer turn is: at most 24 hours, at most 7 days, more,
\* or without an exact time.
Ages == {"fresh", "late", "stale", "undated"}

Said(messages, senders) == {n \in DOMAIN messages : messages[n].sender \in senders}
LastSaid(messages, senders) == Max({0} \cup Said(messages, senders))

\* A human answered between the customer's last two turns, at a known time.
HumanBefore(messages, last) ==
    LET earlier == SubSeq(messages, 1, last - 1)
        human == LastSaid(earlier, {"Page"})
    IN  human > LastSaid(earlier, {"Customer"}) /\ messages[human].at # NoTime

\* The first case that applies.
GateAction(messages, age) ==
    LET last == LastSaid(messages, {"Customer"})
        closer == messages[last].body = "closer"
    IN  IF LastSaid(messages, {"Unknown"}) > last THEN "needs_review"
        ELSE IF last = 0 \/ LastSaid(messages, {"Page"}) > last THEN "skip"
        ELSE IF closer /\ HumanBefore(messages, last)
             THEN IF age \in {"fresh", "late"} THEN "react" ELSE "skip"
        ELSE IF age = "stale" THEN "warmup"
        ELSE IF closer THEN IF age = "fresh" THEN "reply" ELSE "skip"
        ELSE IF age = "late" THEN "reply_late" ELSE "reply"

-----------------------------------------------------------------------------
(* A cycle of the runner.                                                  *)

\* seq starts at 0.
LastSeq(rows) == Len(rows) - 1

\* find_unreplied_threads: the newest row is not the Page's, and neither table
\* has seen its seq.
Unreplied == /\ store # <<>>
             /\ Last(store).sender \in {"Customer", "Unknown"}
             /\ mark < LastSeq(store) /\ told < LastSeq(store)

AgeOf(messages) ==
    LET last == LastSaid(messages, {"Customer"})
    IN  IF last = 0 \/ messages[last].at = NoTime THEN {"undated"} ELSE Ages \ {"undated"}

LiveReply == \E id \in Rows : /\ queue[id].queue_type = "reply_message"
                              /\ queue[id].target_id = Thread
                              /\ Live(queue[id])

Rest == turn' = Resting

\* The messages are read and pass the gate.  (A fetch log that is not fresh, a
\* city of no interest and a full batch skip the thread and change nothing.)
RunnerGate ==
    /\ turn = Resting
    /\ Unreplied /\ ~LiveReply
    /\ \E age \in AgeOf(store) : GateAction(store, age) \in {"reply", "reply_late"}
    /\ turn' = [step |-> "claim", messages |-> store,
                seq |-> LastSaid(store, {"Customer"}) - 1]
    /\ UNCHANGED <<mark, told, seen, storeVars, queueVars>>

\* Mutant: whatever is the newest customer turn by now is claimed.
RunnerClaimNewest ==
    /\ turn.step = "claim"
    /\ mark' = LastSaid(store, {"Customer"}) - 1
    /\ turn' = [turn EXCEPT !.step = "llm"]
    /\ seen' = seen \cup {turn.messages[n].is : n \in DOMAIN turn.messages}
    /\ UNCHANGED <<told, storeVars, queueVars>>

\* claim_scheduled_inbox_message: one transaction, for the turn that was read.
RunnerClaim ==
    /\ turn.step = "claim"
    /\ IF LastSaid(store, {"Customer"}) - 1 = turn.seq /\ mark < turn.seq
       THEN /\ mark' = turn.seq
            /\ turn' = [turn EXCEPT !.step = "llm"]
            /\ seen' = seen \cup {turn.messages[n].is : n \in DOMAIN turn.messages}
       ELSE Rest /\ UNCHANGED <<mark, seen>>
    /\ UNCHANGED <<told, storeVars, queueVars>>

\* No usable text, or a question for a human: a notice without a seq.  An
\* exception is logged only.
RunnerEscalates ==
    /\ turn.step = "llm"
    /\ Rest
    /\ UNCHANGED <<mark, told, seen, storeVars, queueVars>>

\* MAX(seq) is read when the text is there, not when the messages were.
RunnerText ==
    /\ turn.step = "llm"
    /\ turn' = [turn EXCEPT !.step = "outcome", !.seq = LastSeq(store)]
    /\ UNCHANGED <<mark, told, seen, storeVars, queueVars>>

\* [NO_REPLY] ends the turn, [OUT_OF_SCOPE] goes to the chat with the seq.
RunnerOutcome ==
    /\ turn.step = "outcome"
    /\ \/ Rest
       \/ turn' = [turn EXCEPT !.step = "tell"]
       \/ turn' = [turn EXCEPT !.step = "enqueue"]
    /\ UNCHANGED <<mark, told, seen, storeVars, queueVars>>

\* The draft says what it answers: text and snapshot are the last message read.
Draft(messages) ==
    Proposal("reply_message", Thread, CHOOSE kind \in Kinds : TRUE,
             Last(messages).is, Last(messages).is)

\* The unique index may refuse the draft: the error is logged.
RunnerEnqueue ==
    /\ turn.step = "enqueue"
    /\ \/ EnqueueAction(Draft(turn.messages)) /\ turn' = [turn EXCEPT !.step = "tell"]
       \/ LiveReply /\ Rest /\ UNCHANGED queueVars
    /\ UNCHANGED <<mark, told, seen, storeVars>>

\* The telegram_hitl_queue row, whether or not Telegram takes the message.
RunnerTell ==
    /\ turn.step = "tell"
    /\ told' = Max({told, turn.seq})
    /\ Rest
    /\ UNCHANGED <<mark, seen, storeVars, queueVars>>

\* The runner is killed inside a cycle.
RunnerDies ==
    /\ turn # Resting
    /\ Rest
    /\ UNCHANGED <<mark, told, seen, storeVars, queueVars>>

Runner == \/ RunnerGate \/ RunnerClaim \/ RunnerEscalates \/ RunnerText
          \/ RunnerOutcome \/ RunnerEnqueue \/ RunnerTell \/ RunnerDies

MasInboxInit == QueueInit /\ StoreInit /\ MasInit
\* Messages arrive, each with its id (MessageStore checks those without).
Arrives == \E sender \in Senders, body \in Bodies : Write(sender, body, TRUE)

MasInboxNext == \/ Runner
                \/ (Arrives \/ Crawl) /\ UNCHANGED <<queueVars, masVars>>
                \/ Decide /\ UNCHANGED <<storeVars, masVars>>

MasInboxSpec == MasInboxInit /\ [][MasInboxNext]_inboxVars

-----------------------------------------------------------------------------
\* The newest row is a customer turn no claiming run has read.
Waiting == /\ store # <<>>
           /\ Last(store).sender = "Customer"
           /\ Last(store).is \notin seen

\* l5_seeker_tools.py:262-263: a newer customer turn replaces the sequence and
\* becomes eligible normally.  The claim of an earlier turn never covers it,
\* though seqs are renumbered by crawls that reach further up and rows change
\* places when a time becomes known.
ClaimLeavesNewer == Waiting => mark < LastSeq(store)

\* The same of both marks find_unreplied_threads looks at, for a turn written
\* after everything a claiming run has read.
NewerTurnEligible ==
    Waiting /\ (\A n \in seen : n < Last(store).is) =>
        mark < LastSeq(store) /\ told < LastSeq(store)
=============================================================================
