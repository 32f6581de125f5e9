------------------------------ MODULE FetchGate ------------------------------
(***************************************************************************)
(* The gates around an inbox fetch: the Facebook block gate that stops a   *)
(* run, Fetch QA that judges what it stored against the sidebar, the       *)
(* fetch_log rows both leave, and the exit code.  Runs of one Page may     *)
(* overlap: the activity lock does not keep two fetches apart.             *)
(***************************************************************************)
EXTENDS Integers, Sequences, FiniteSets

CONSTANTS
    Runs,        \* processes that each fetch the Page once
    Threads,     \* stored conversations of the Page
    NameOf,      \* threads.thread_name, per conversation
    Ranked,      \* those with an inbox rank, in order: an injective sequence
    SampleSize   \* QA_SAMPLE_SIZE

ASSUME GateAssumption ==
    /\ IsFiniteSet(Runs)
    /\ Ranked \in Seq(Threads) /\ Len(Ranked) <= SampleSize
    /\ SampleSize \in Nat \ {0}

VARIABLES
    ticks,      \* one for each timestamp that is taken
    log,        \* fetch_log of the Page, by id
    run,        \* run -> its process
    alerts      \* runs with a FETCH-QA row in telegram_hitl_queue

gateVars == <<ticks, log, run, alerts>>

NoRun == "none"
Unjudged == "NULL"
Reasons == {"temporary_feature_block", "login_required", "security_checkpoint",
            "access_lost", "meta_error_page", "visible_non_inbox_screen"}
MaxTicks == 3 * Cardinality(Runs)

LogRow == [fetched_at : 1 .. MaxTicks, complete : BOOLEAN,
           qa_status : {Unjudged, "skipped", "passed", "warn", "failed"},
           of : Runs,                  \* ghost: the run that inserted the row
           judge : Runs \cup {NoRun}]  \* ghost: the run whose QA set qa_status

NewRun == [step |-> "ready", started |-> 0, reason |-> "", verdict |-> "",
           ended |-> 0, error |-> ""]

GateTypeOK ==
    /\ ticks \in 0 .. MaxTicks
    /\ Len(log) <= 2 * Cardinality(Runs) /\ \A n \in DOMAIN log : log[n] \in LogRow
    /\ \A r \in Runs :
          /\ run[r].step \in {"ready", "scrape", "qa", "record", "done"}
          /\ run[r].started \in 0 .. ticks
          /\ run[r].reason \in Reasons \cup {""}
          /\ run[r].verdict \in {"", "passed", "warn", "failed"}
          /\ run[r].ended \in 0 .. ticks
          /\ run[r].error \in {"", "facebook_temporarily_blocked", "other",
                               "fetch_qa_message_history_or_sender_mismatch"}
    /\ alerts \subseteq Runs

GateInit == /\ ticks = 0 /\ log = <<>> /\ alerts = {}
            /\ run = [r \in Runs |-> NewRun]

-----------------------------------------------------------------------------
(* Fetch QA: cards of the sidebar against what is stored.                  *)

\* How the newest stored message compares with the card's preview.
Comparisons == {"skipped", "match", "sender_mismatch", "both_empty", "one_side_empty",
                "content_mismatch", "last_message_time_mismatch"}

\* A card: its display name, whether something newer than the run's start is
\* on it, the comparison.
Card == [name : {NameOf[t] : t \in Threads} \cup {"a stranger"}, raced : BOOLEAN,
         compares : Comparisons]

Rank(t) == CHOOSE n \in DOMAIN Ranked : Ranked[n] = t
IsRanked(t) == \E n \in DOMAIN Ranked : Ranked[n] = t
Distance(m, n) == IF m > n THEN m - n ELSE n - m

\* _resolve_card_identity: the conversations the card at `place` may stand for.
\* A name shared by several is looked for among the ranked ones that no earlier
\* card took, nearest rank first.
Identity(name, place, consumed) ==
    LET named == {t \in Threads : NameOf[t] = name}
        free == {t \in named : IsRanked(t) /\ t \notin consumed}
    IN  IF Cardinality(named) = 1 THEN named
        ELSE {t \in free : \A u \in free :
                 LET dt == Distance(Rank(t), place)
                     du == Distance(Rank(u), place)
                 IN  dt < du \/ (dt = du /\ Rank(t) <= Rank(u))}

\* The conversations of the first n cards.
Consumed(cards) ==
    LET taken[n \in 0 .. Len(cards)] ==
            IF n = 0 THEN {} ELSE taken[n - 1] \cup Identity(cards[n].name, n, taken[n - 1])
    IN  taken

\* QA-1: the order of the sidebar.
OrderVerdict(card, place, found) ==
    LET off == IF \E t \in found : IsRanked(t)
               THEN Distance(Rank(CHOOSE t \in found : TRUE), place) ELSE 2
        missing == ~\E t \in found : IsRanked(t)
    IN  IF off = 0 THEN "pass"
        ELSE IF off = 1 \/ card.raced \/ (missing /\ place = 1) THEN "soft" ELSE "hard"

\* QA-2: the newest message.  What would be hard is advisory in the end; that a
\* quarantined bubble or the race explains it only changes the reason given.
MessageVerdict(card) ==
    IF card.compares \in {"skipped", "match", "both_empty"} THEN "pass" ELSE "soft"

\* The verdicts of a sample: QA-2 looks only at cards QA-1 could place.
Verdicts(cards) ==
    LET found(n) == Identity(cards[n].name, n, Consumed(cards)[n - 1])
        placed(n) == \E t \in found(n) : IsRanked(t)
    IN  [qa1 |-> {OrderVerdict(cards[n], n, found(n)) : n \in DOMAIN cards},
         qa2 |-> {MessageVerdict(cards[n]) : n \in {m \in DOMAIN cards : placed(m)}}]

QaStatus(v) == IF "hard" \in v.qa1 \cup v.qa2 THEN "failed"
               ELSE IF "soft" \in v.qa1 \cup v.qa2 THEN "warn" ELSE "passed"

\* _fetch_stop_error.
StopError(v) == IF "hard" \in v.qa2 THEN "fetch_qa_message_history_or_sender_mismatch" ELSE ""

\* What any sample can come to.
Judgements ==
    {[status |-> QaStatus(v), stop |-> StopError(v)] :
        v \in {Verdicts(cards) : cards \in UNION {[1 .. n -> Card] : n \in 0 .. SampleSize}}}

-----------------------------------------------------------------------------
(* A run.                                                                  *)

Ticks == ticks' = ticks + 1
At(r, step) == run[r].step = step
Ends(r, error) == run' = [run EXCEPT ![r].step = "done", ![r].ended = ticks', ![r].error = error]

Start(r) ==
    /\ At(r, "ready")
    /\ Ticks
    /\ run' = [run EXCEPT ![r].step = "scrape", ![r].started = ticks + 1]
    /\ UNCHANGED <<log, alerts>>

\* A tab shows an unsafe screen.  The first reason is kept; every tab stops.
Trip(r, reason) ==
    /\ At(r, "scrape")
    /\ run[r].reason = ""
    /\ run' = [run EXCEPT ![r].reason = reason]
    /\ UNCHANGED <<ticks, log, alerts>>

\* A tripped gate ends the run without a row and without QA; any other
\* exception likewise.
Stopped(r) ==
    /\ At(r, "scrape")
    /\ UNCHANGED <<ticks, log, alerts>>
    /\ Ends(r, IF run[r].reason = "" THEN "other" ELSE "facebook_temporarily_blocked")

Logged(r, complete, status, judge) ==
    log' = Append(log, [fetched_at |-> ticks + 1, complete |-> complete, qa_status |-> status,
                        of |-> r, judge |-> judge])

\* run_parallel_fetch returns: record_fetch, when every conversation is done.
Scraped(r, complete) ==
    /\ At(r, "scrape") /\ run[r].reason = ""
    /\ IF complete THEN Ticks /\ Logged(r, TRUE, Unjudged, NoRun) ELSE UNCHANGED <<ticks, log>>
    /\ run' = [run EXCEPT ![r].step = "qa"]
    /\ UNCHANGED alerts

\* --skip-qa stamps the newest row, whosever it is.
SkipQa(r) ==
    /\ At(r, "qa")
    /\ IF log = <<>> THEN UNCHANGED log
       ELSE log' = [log EXCEPT ![Len(log)].qa_status = "skipped", ![Len(log)].judge = r]
    /\ UNCHANGED <<ticks, alerts>>
    /\ Ends(r, "")

\* _qa_logic, and the alert of a failed verdict.
Judge(r) ==
    /\ At(r, "qa")
    /\ \E judgement \in Judgements :
          /\ run' = [run EXCEPT ![r].step = "record", ![r].verdict = judgement.status,
                                ![r].error = judgement.stop]
          /\ alerts' = IF judgement.status = "failed" THEN alerts \cup {r} ELSE alerts
    /\ UNCHANGED <<ticks, log>>

\* QA crashes: an alert, and no verdict on any row.
QaCrashes(r) ==
    /\ At(r, "qa")
    /\ alerts' = alerts \cup {r}
    /\ UNCHANGED <<ticks, log>>
    /\ Ends(r, "")

\* Mutant: the newest row gets the verdict, whenever it was written.
NewestRow(r) == log # <<>>

\* The newest row counts as this run's when it is not older than its start.
OwnRow(r) == log # <<>> /\ log[Len(log)].fetched_at >= run[r].started

\* _record_qa_status: UPDATE the newest row, or INSERT one that marks an
\* incomplete run.
RecordQa(r) ==
    /\ At(r, "record")
    /\ IF OwnRow(r)
       THEN /\ log' = [log EXCEPT ![Len(log)].qa_status = run[r].verdict,
                                  ![Len(log)].judge = r]
            /\ UNCHANGED ticks
       ELSE Ticks /\ Logged(r, FALSE, run[r].verdict, r)
    /\ UNCHANGED alerts
    /\ Ends(r, run[r].error)

\* The database refuses; the error is logged and nothing else.
QaUnrecorded(r) ==
    /\ At(r, "record")
    /\ UNCHANGED <<ticks, log, alerts>>
    /\ Ends(r, run[r].error)

Kill(r) ==
    /\ run[r].step \notin {"ready", "done"}
    /\ UNCHANGED <<ticks, log, alerts>>
    /\ Ends(r, "other")

GateNext == \E r \in Runs :
    \/ Start(r) \/ Stopped(r) \/ SkipQa(r) \/ Judge(r) \/ QaCrashes(r)
    \/ RecordQa(r) \/ QaUnrecorded(r) \/ Kill(r)
    \/ \E reason \in Reasons : Trip(r, reason)
    \/ \E complete \in BOOLEAN : Scraped(r, complete)

GateSpec == GateInit /\ [][GateNext]_gateVars

-----------------------------------------------------------------------------
\* Neither run ended before the other started.
Overlapped(r, s) ==
    LET before(p, q) == run[p].step = "done" /\ run[p].ended < run[q].started
    IN  ~before(r, s) /\ ~before(s, r)

\* l3_fetch_qa.py:496, "Attach qa_status to *this* run's fetch_log row": a
\* verdict stands on the row of the run it judged.  A run that overlapped may
\* lend its row, and --skip-qa judges nothing and stamps what is newest.
VerdictOfOwnRun ==
    \A n \in DOMAIN log :
        LET row == log[n]
        IN  row.judge \notin {NoRun, row.of} /\ row.qa_status # "skipped" =>
                Overlapped(row.judge, row.of)
=============================================================================
