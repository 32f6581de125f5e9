------------------------------- MODULE MCOffice -------------------------------
(***************************************************************************)
(* The action_queue table under any proposer, operator and worker, and     *)
(* what stands around it: the outreach routes, which propose into the      *)
(* table, the seeker's profile they read, the gates around a fetch, the    *)
(* review of a draft.  The last three share no variable with the table; a  *)
(* behaviour is one part's, and what the others own does not move.         *)
(***************************************************************************)
EXTENDS Outreach, SeekerProfile, FetchGate, DraftReview

VARIABLE part

\* A reply, and two operator care commands of one type, which have a slot each
\* in the unique index.
Payload(type, key) == [type |-> type, dedupe_key |-> key, source |-> ""]
MCPlain == Payload("", "")
MCCareKind == Payload("warmup", "command-1")
MCKinds == {MCPlain, MCCareKind, Payload("warmup", "command-2")}
MCQueueTypes == OutboundQueueTypes \cup {"reply_comment"}

\* Two events in one city; anna, dan (a commenter) and binh live there.
MCRanking == <<"anna", "dan", "binh">>
MCLatest == <<"binh", "anna", "dan">>
MCCityOf == [p \in {"anna", "dan", "binh"} |-> "hcm"]
MCUpcoming == <<"hcm", "hcm">>
MCUnreacted == <<"message", "comment">>

MCProgramCity == [p \in {"k1"} |-> "hcm"]

\* Two conversations called alike, ranked; one with a name of its own, unranked.
MCNameOf == [t \in Threads |-> IF t = 3 THEN "binh" ELSE "anna"]
MCRanked == <<1, 2>>

\* The table on its own: DMs to two recipients.
IsDm(row) == row.target_id \in Seekers /\ row.queue_type \in OutboundQueueTypes
OnlyDms == /\ \A id \in Rows : IsDm(queue[id])
           /\ \A e \in Engines : regen[e] # NoTx => IsDm(regen[e].row)

OfficeInit ==
    /\ part \in {"table", "outreach", "profile", "gate", "review"}
    /\ QueueInit /\ OutreachInit /\ ProfileInit /\ GateInit /\ ReviewInit
    /\ part # "review" => pipeline = "inbox"

OfficeNext ==
    /\ UNCHANGED part
    /\ \/ /\ part = "table" /\ QueueNext /\ OnlyDms'
          /\ UNCHANGED <<contact, cycle, reopens, profileVars, gateVars, reviewVars>>
       \/ /\ part = "outreach" /\ OutreachNext
          /\ UNCHANGED <<profileVars, gateVars, reviewVars>>
       \/ /\ part = "profile" /\ ProfileNext
          /\ UNCHANGED <<outreachVars, gateVars, reviewVars>>
       \/ /\ part = "gate" /\ GateNext
          /\ UNCHANGED <<outreachVars, profileVars, reviewVars>>
       \/ /\ part = "review" /\ ReviewNext
          /\ UNCHANGED <<outreachVars, profileVars, gateVars>>

OfficeSpec ==
    OfficeInit /\ [][OfficeNext]_<<part, outreachVars, profileVars, gateVars, reviewVars>>

\* Every table, row and state of the parts has the shape its code gives it.
OfficeTypeOK == QueueTypeOK /\ OutreachTypeOK /\ ProfileTypeOK /\ GateTypeOK /\ ReviewTypeOK
=============================================================================
