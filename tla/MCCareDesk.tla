------------------------------ MODULE MCCareDesk ------------------------------
(* One class session and one registered seeker. *)
EXTENDS CareSessions

MCQueueTypes == {"reply_message", "proactive_message", "session_proposal", "attendance_check"}
MCKinds == {TheKind("class_reminder"), TheKind("attendance")}
=============================================================================
