---------------------------- MODULE MCMailLedger ----------------------------
(* MailLedger for TLC: a lead agent, its managed worker and a person.      *)
EXTENDS MailLedger, TLC

CONSTANTS lead, worker

MCParent == worker :> lead
=============================================================================
