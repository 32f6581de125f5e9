----------------------------- MODULE DraftReview -----------------------------
(***************************************************************************)
(* How one draft is written and reviewed (tools/l5_inbox_mas_pipeline.py,  *)
(* adk_agents/agent.py).  The specialists hand each other their work in    *)
(* the session state: a specialist that answers nothing leaves its key as  *)
(* it was.  In the inbox pipeline an LLM calls them in any order, up to a  *)
(* budget, and ends with a text of its own; in the care pipeline the order *)
(* is fixed.  Whatever happens, the result holds an approved draft, an     *)
(* escalation, a reason not to send, or nothing.                           *)
(***************************************************************************)
EXTENDS Naturals, Sequences

CONSTANTS
    MaxLoops,     \* ORCHESTRATOR_MAX_LOOPS
    MaxAttempts   \* range(3) of the care pipeline's repair loop

ASSUME ReviewAssumption == MaxLoops \in Nat /\ MaxAttempts \in Nat \ {0}

VARIABLES
    pipeline,   \* "inbox", or the purpose of a care action
    step,       \* where the pipeline is
    drafts,     \* what the composer wrote, in order: the newest is draft_reply
    verdict,    \* qa_verdict in the session state
    loops,      \* _orchestrator_loop_count, or the attempt of the repair loop
    result,     \* what the caller gets
    passed,     \* ghost: drafts that were the newest one when QA answered PASS
    late        \* ghost: the verdict is not of the newest draft

reviewVars == <<pipeline, step, drafts, verdict, loops, result, passed, late>>

Purposes == {"class_reminder", "warmup", "event"}

\* What is in a draft: fit to send, with a wording a reminder may not have, or
\* with something no reply may have (_is_safe_final_reply).
DraftKinds == {"fit", "pressing", "unsafe"}
Answers == {"", "PASS", "REPAIR", "NO_SEND", "ESCALATE", "other"}

Draft == Len(drafts)           \* 0: none yet
NoText == 0                    \* reply_text is empty
Words == MaxLoops + MaxAttempts + 1    \* a text that is no draft of the session
Pending == [reply_text |-> NoText, outcome |-> "pending"]

ReviewTypeOK ==
    /\ pipeline \in {"inbox"} \cup Purposes
    /\ step \in {"analyst", "librarian", "compose", "review", "decide", "loop", "done"}
    /\ drafts \in Seq(DraftKinds) /\ Draft < Words
    /\ verdict \in Answers
    /\ loops \in 0 .. MaxLoops + MaxAttempts
    /\ result.reply_text \in 0 .. Draft
    /\ result.outcome \in {"pending", "approved", "rejected", "no_send", "escalated",
                           "invalid_result"}
    /\ passed \subseteq 1 .. Draft
    /\ late \in BOOLEAN

ReviewInit ==
    /\ pipeline \in {"inbox"} \cup Purposes
    /\ step = IF pipeline = "inbox" THEN "loop" ELSE "analyst"
    /\ drafts = <<>> /\ verdict = "" /\ loops = 0 /\ result = Pending
    /\ passed = {} /\ late = FALSE

-----------------------------------------------------------------------------
(* The specialists.                                                        *)

Composed(kind) == /\ drafts' = Append(drafts, kind)
                  /\ late' = TRUE
                  /\ UNCHANGED <<verdict, passed>>

\* QA judges the draft that is the newest now.
Reviewed(answer) == /\ verdict' = answer
                    /\ late' = FALSE
                    /\ passed' = IF answer = "PASS" /\ Draft > 0 THEN passed \cup {Draft}
                                                                 ELSE passed
                    /\ UNCHANGED drafts

Silent == UNCHANGED <<drafts, verdict, passed, late>>

EndsWith(outcome, text) == /\ step' = "done"
                           /\ result' = [outcome |-> outcome, reply_text |-> text]

\* Mutant: the verdict is not looked at.
ApprovedUnread(final) ==
    IF Draft = 0 \/ final \notin {NoText, Draft} \/ drafts[Draft] = "unsafe" THEN NoText ELSE Draft

\* _approved_draft: PASS, no other text than the newest draft, and that safe.
Approved(final) ==
    IF \/ verdict # "PASS" \/ Draft = 0
       \/ final \notin {NoText, Draft}
       \/ drafts[Draft] = "unsafe"
    THEN NoText ELSE Draft

Concludes(final) ==
    EndsWith(IF Approved(final) = NoText THEN "rejected" ELSE "approved", Approved(final))

-----------------------------------------------------------------------------
(* The inbox pipeline: an LLM is in control.                               *)

\* A specialist call within the budget; beyond it _orchestrator_loop_guard
\* answers in its place and nothing is called.
Call == /\ step = "loop" /\ loops < MaxLoops
        /\ loops' = loops + 1
        /\ UNCHANGED <<pipeline, step, result>>

CallComposer == Call /\ (Silent \/ \E kind \in DraftKinds : Composed(kind))
CallReviewer == Call /\ (Silent \/ \E answer \in Answers \ {""} : Reviewed(answer))
CallOther == Call /\ Silent

\* The final turn.  An escalation is for a human (_is_spurious_knowledge_gap
\* reads a key the result does not have, and excuses none); any other text
\* only matters in that it must not differ from the draft.
FinalTurn ==
    /\ step = "loop"
    /\ \/ EndsWith("escalated", NoText)
       \/ \E final \in 0 .. Draft \cup {Words} : Concludes(final)
    /\ UNCHANGED <<pipeline, drafts, verdict, loops, passed, late>>

-----------------------------------------------------------------------------
(* The care pipeline.                                                      *)

Moves(here, there) == step = here /\ step' = there /\ UNCHANGED <<pipeline, result>>

Analyst ==
    /\ step = "analyst"
    /\ \/ step' = "librarian" /\ UNCHANGED result
       \/ EndsWith("no_send", NoText)
    /\ UNCHANGED <<pipeline, drafts, verdict, loops, passed, late>>

Librarian == /\ Moves("librarian", "compose")
             /\ UNCHANGED <<drafts, verdict, loops, passed, late>>

Compose == /\ Moves("compose", "review")
           /\ Silent \/ \E kind \in DraftKinds : Composed(kind)
           /\ UNCHANGED loops

Review == /\ Moves("review", "decide")
          /\ Silent \/ \E answer \in Answers \ {""} : Reviewed(answer)
          /\ UNCHANGED loops

\* A PASS for a reminder with a known wording failure counts as REPAIR; the
\* session state keeps the PASS.
Corrected == pipeline = "class_reminder" /\ Draft > 0 /\ drafts[Draft] = "pressing"

Effective == IF verdict = "PASS" /\ Corrected THEN "REPAIR" ELSE verdict

Settle ==
    /\ step = "decide"
    /\ CASE Effective = "PASS" -> Concludes(NoText) /\ UNCHANGED loops
         [] Effective = "NO_SEND" -> EndsWith("no_send", NoText) /\ UNCHANGED loops
         [] Effective = "ESCALATE" -> EndsWith("escalated", NoText) /\ UNCHANGED loops
         [] Effective = "REPAIR" /\ loops + 1 < MaxAttempts ->
               step' = "compose" /\ loops' = loops + 1 /\ UNCHANGED result
         [] OTHER -> EndsWith("invalid_result", NoText) /\ UNCHANGED loops
    /\ UNCHANGED <<pipeline, drafts, verdict, passed, late>>

\* A specialist or the session service raises.
Fails ==
    /\ step \in {"analyst", "librarian", "compose", "review"}
    /\ EndsWith("invalid_result", NoText)
    /\ UNCHANGED <<pipeline, drafts, verdict, loops, passed, late>>

ReviewNext == CallComposer \/ CallReviewer \/ CallOther \/ FinalTurn
              \/ Analyst \/ Librarian \/ Compose \/ Review \/ Settle \/ Fails

ReviewSpec == ReviewInit /\ [][ReviewNext]_reviewVars

-----------------------------------------------------------------------------
\* l5_inbox_mas_pipeline.py:125-126, "The only sendable text is the exact draft
\* that QA approved": a text that leaves is the newest draft, QA passed it, and
\* a reminder has none of the known failures.  The code has two ways around:
\* the orchestrator has the draft rewritten after the PASS, or QA leaves the
\* PASS of an earlier, corrected reminder standing; both show as `late`.
OnlyReviewedLeaves ==
    result.reply_text # NoText =>
        /\ result.reply_text = Draft
        /\ Draft \in passed \/ (late /\ pipeline \in {"inbox", "class_reminder"})
        /\ drafts[Draft] # "unsafe"
        /\ pipeline = "class_reminder" => drafts[Draft] = "fit"
=============================================================================
