---------------------------- MODULE SeekerProfile ----------------------------
(***************************************************************************)
(* One seeker's row of the users table and its writers: the crawl, the LLM *)
(* classification passes (scheduler, command line, classify_city.py), the  *)
(* corrections of the inbox MAS, the stage gate and a human operator.      *)
(*                                                                         *)
(* Time is counted in minutes.  Facebook's display times, and              *)
(* classification_verified_at, are local; datetime('now') is UTC and so    *)
(* UtcLag behind.                                                          *)
(***************************************************************************)
EXTENDS Integers, Sequences

CONSTANTS
    Cities,       \* KNOWN_CITIES
    ProgramCity,  \* PROGRAM_CITY: programme code -> its city
    Passes,       \* the classifiers that run
    UtcLag,       \* how far UTC is behind local time
    MaxRetries,   \* LLM_MAX_RETRIES
    MaxTurns,     \* bound: customer turns
    MaxClock      \* bound: minutes

ASSUME ProfileAssumption ==
    /\ \A p \in DOMAIN ProgramCity : ProgramCity[p] \in Cities
    /\ "Unknown" \notin Cities /\ "null" \notin Cities \cup DOMAIN ProgramCity
    /\ Passes \subseteq {"scheduler", "cli", "tool"}
    /\ UtcLag \in Nat \ {0} /\ MaxRetries \in Nat \ {0}
    /\ MaxTurns \in Nat /\ MaxClock \in Nat

VARIABLES
    clock,      \* local time
    turns,      \* what the seeker wrote on Facebook, oldest first
    stored,     \* how many of the turns the messages table holds
    user,       \* the users row
    pass,       \* classifier -> what it is doing
    read,       \* ghost: turns in front of the classification that was verified
    corrected   \* ghost: the MAS wrote the row after it was verified

profileVars == <<clock, turns, stored, user, pass, read, corrected>>

Null == "null"
Never == -1 - UtcLag       \* a time column that is NULL, before every time
Programs == DOMAIN ProgramCity
Proofs == {Null, "evidence", "free_text", "parse_error", "retryable"}

\* A turn carries an exact time or not.
Turn == [at : 0 .. MaxClock, dated : BOOLEAN]

User == [exists : BOOLEAN, city : Cities \cup {"Unknown", Null},
         city_source : {"classifier", "mas", "human"},
         program : Programs \cup {Null},
         stage : {"Intake", "Seeker", "Seeker_Public_Program"},
         last_interaction : Never .. MaxClock, verified_at : Never .. MaxClock,
         proof : Proofs]

\* What a classifier is doing.
Doing == [step : {"idle", "asking"}, attempt : 0 .. MaxRetries, read : 0 .. MaxTurns]

Idle == [step |-> "idle", attempt |-> 0, read |-> 0]

ProfileTypeOK ==
    /\ clock \in 0 .. MaxClock
    /\ Len(turns) <= MaxTurns /\ \A n \in DOMAIN turns : turns[n] \in Turn
    /\ stored \in 0 .. Len(turns)
    /\ user \in User
    /\ pass \in [Passes -> Doing]
    /\ read \in 0 .. stored
    /\ corrected \in BOOLEAN

NoUser == [exists |-> FALSE, city |-> Null, city_source |-> "classifier",
           program |-> Null, stage |-> "Intake", last_interaction |-> Never, verified_at |-> Never,
           proof |-> Null]

ProfileInit ==
    /\ clock = 0 /\ turns = <<>> /\ stored = 0 /\ user = NoUser
    /\ pass = [p \in Passes |-> Idle]
    /\ read = 0 /\ corrected = FALSE

-----------------------------------------------------------------------------
(* Facebook and the crawl.                                                 *)

Minute == /\ clock < MaxClock
          /\ clock' = clock + 1
          /\ UNCHANGED <<turns, stored, user, pass, read, corrected>>

Write == /\ Len(turns) < MaxTurns
         /\ \E dated \in BOOLEAN :
                turns' = Append(turns, [at |-> clock, dated |-> dated])
         /\ UNCHANGED <<clock, stored, user, pass, read, corrected>>

\* The newest exact time in the conversation; else what the card says of the
\* day, staggered by the card's place; else the UTC clock.
InteractionTimes ==
    LET dated == {turns[n].at : n \in {m \in DOMAIN turns : turns[m].dated}}
    IN  IF dated # {} THEN {t \in dated : \A u \in dated : u <= t}
        ELSE {clock, clock - 1, clock - UtcLag}

Touched(interaction) ==
    [user EXCEPT !.exists = TRUE, !.last_interaction = interaction]

\* Mutant: a new customer message does not move last_interaction.
PersistSynced ==
    /\ stored' = Len(turns)
    /\ user' = Touched(IF user.exists THEN user.last_interaction ELSE clock)
    /\ UNCHANGED <<clock, turns, pass, read, corrected>>

\* last_interaction moves when a new customer turn was stored, and only then.
Persist ==
    /\ stored' = Len(turns)
    /\ IF stored < Len(turns)
       THEN \E t \in InteractionTimes : user' = Touched(t)
       ELSE user' = Touched(user.last_interaction)
    /\ UNCHANGED <<clock, turns, pass, read, corrected>>

-----------------------------------------------------------------------------
(* The classification.                                                     *)

\* STALE_CLASSIFICATION_SQL.  (contact_extracted_at is written together with
\* classification_verified_at.)
Stale == \/ user.verified_at = Never
         \/ user.last_interaction > user.verified_at
         \/ user.proof \in {"retryable", "free_text"}

\* The scheduler's pass takes stale rows, the command line any (--all-users,
\* a fetch's threads, a missing name), classify_city.py an Unknown city or
\* any (--force).  A tick that finds its predecessor running is skipped.
PassStart(p) ==
    /\ pass[p] = Idle
    /\ user.exists
    /\ p = "scheduler" => Stale
    /\ pass' = [pass EXCEPT ![p] = [step |-> "asking", attempt |-> 1, read |-> stored]]
    /\ UNCHANGED <<clock, turns, stored, user, read, corrected>>

Result(city, program, proof) == [city |-> city, program |-> program, proof |-> proof]

\* _parse_llm_response: a programme of the catalogue decides the city; free
\* text gives a city and no programme; anything else gives nothing.
Classifications ==
    {Result(c, Null, "evidence") : c \in Cities \cup {"Unknown"}}
      \cup {Result(ProgramCity[p], p, "evidence") : p \in Programs}
      \cup {Result(c, Null, "free_text") : c \in Cities}
      \cup {Result("Unknown", Null, "parse_error")}

Asking(p) == pass[p].step = "asking"
Finished(p) == pass' = [pass EXCEPT ![p] = Idle]

\* The request failed in a way that may pass; the next one follows.
Retry(p) ==
    /\ Asking(p)
    /\ pass[p].attempt < MaxRetries
    /\ pass' = [pass EXCEPT ![p].attempt = @ + 1]
    /\ UNCHANGED <<clock, turns, stored, user, read, corrected>>

\* The budget is spent, or the error is one of configuration or a truncated
\* answer.  detect_city_llm reports most errors as a result, which the pass
\* notes in the proof; classify_city.py has nothing to write then.
GiveUp(p) ==
    /\ Asking(p)
    /\ \/ p # "tool" /\ user' = [user EXCEPT !.proof = "retryable"]
       \/ UNCHANGED user
    /\ Finished(p)
    /\ UNCHANGED <<clock, turns, stored, read, corrected>>

\* One UPDATE, by thread_id, of whatever the row holds by now.
Verify(p) ==
    /\ Asking(p) /\ p # "tool"
    /\ \E result \in Classifications :
          user' = [user EXCEPT !.city = result.city, !.program = result.program,
                               !.proof = result.proof, !.verified_at = clock]
    /\ read' = pass[p].read
    /\ corrected' = FALSE
    /\ Finished(p)
    /\ UNCHANGED <<clock, turns, stored>>

\* classify_city.py keeps what it does not know, and is not a verification.
ToolWrites(p) ==
    /\ Asking(p) /\ p = "tool"
    /\ \E result \in Classifications :
          user' = [user EXCEPT
                     !.city = IF result.city = "Unknown" THEN @ ELSE result.city,
                     !.program = IF result.program = Null THEN @ ELSE result.program]
    /\ Finished(p)
    /\ UNCHANGED <<clock, turns, stored, read, corrected>>

-----------------------------------------------------------------------------
(* Corrections and the stage.                                              *)

\* record_seeker_field_change, called by propose_seeker_update.  What is sure
\* enough, new and not owned by a human is written, and last_interaction
\* becomes the UTC clock.  (The record every call leaves in
\* seeker_field_changes is read by nobody and not kept here.)
Correct(blocked, applies, row) ==
    LET applied == applies /\ user.exists /\ ~blocked
    IN  /\ user' = IF applied THEN [row EXCEPT !.last_interaction = clock - UtcLag] ELSE user
        /\ corrected' = (corrected \/ applied)
        /\ UNCHANGED <<clock, turns, stored, pass, read>>

ProposeCity(city, confident) ==
    Correct(user.city_source = "human", confident /\ user.city # city,
            [user EXCEPT !.city = city, !.city_source = "mas"])

ProposeProgram(program, confident) ==
    Correct(FALSE, confident /\ user.program # program, [user EXCEPT !.program = program])

ProposeName(confident) == Correct(FALSE, confident, user)

\* External: an operator sets the city and takes it over.
HumanSets(city) ==
    /\ user.exists
    /\ user' = [user EXCEPT !.city = city, !.city_source = "human"]
    /\ UNCHANGED <<clock, turns, stored, pass, read, corrected>>

\* evaluate_stage_gate: one gate at a time.  A turn of the customer opens the
\* first, a contact and a class named somewhere in the conversation the second.
EvaluateStage ==
    /\ user.exists /\ stored > 0
    /\ \/ user.stage = "Intake" /\ user' = [user EXCEPT !.stage = "Seeker"]
       \/ user.stage = "Seeker" /\ user' = [user EXCEPT !.stage = "Seeker_Public_Program"]
    /\ UNCHANGED <<clock, turns, stored, pass, read, corrected>>

ProfileNext ==
    \/ Minute \/ Write \/ Persist \/ EvaluateStage
    \/ \E p \in Passes : PassStart(p) \/ Retry(p) \/ GiveUp(p) \/ Verify(p)
                        \/ ToolWrites(p)
    \/ \E city \in Cities : HumanSets(city)
    \/ \E confident \in BOOLEAN :
          \/ ProposeName(confident)
          \/ \E city \in Cities : ProposeCity(city, confident)
          \/ \E program \in Programs : ProposeProgram(program, confident)

ProfileSpec == ProfileInit /\ [][ProfileNext]_profileVars

-----------------------------------------------------------------------------
\* l5_fetch_fb_city_classify.py:18-20, a classification "is stale when it never
\* ran or when the seeker has written since".  A row that counts as fresh was
\* classified with every stored turn in view, with three exceptions the code
\* has: a turn sent before the classification was written (it was crawled, or
\* stored, too late to be read), a turn without an exact time, and a row that
\* a MAS correction has moved back to the UTC clock.
FreshMeansRead ==
    user.exists /\ ~Stale /\ ~corrected =>
        \A n \in (read + 1) .. stored : turns[n].dated => turns[n].at <= user.verified_at
=============================================================================
