----------------------------- MODULE MCNewerTurn -----------------------------
(* One conversation the MAS runner answers. *)
EXTENDS InboxMas

MCKinds == {[type |-> "", dedupe_key |-> "", source |-> "inbox_mas"]}
=============================================================================
