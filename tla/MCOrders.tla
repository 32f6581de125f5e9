------------------------------- MODULE MCOrders -------------------------------
(* Two orders for one seeker, replies or class reminders, fresh or regenerated. *)
EXTENDS RecommendationJobs

MCKinds == [type : {"", "class_reminder"}, dedupe_key : {"", "care:1", "care:2"},
            source : {"mas", "template"}]
MCRequests == [type : {"reply", "care"}, threads : {<<"anna">>}, regenerate : BOOLEAN]
MCCommandKey == <<"care:1", "care:2">>
=============================================================================
