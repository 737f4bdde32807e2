---------------------------- MODULE MCEventLog ----------------------------
(* A small instance of the event log: two drafts tell two histories apart.  *)
EXTENDS EventLog
CONSTANTS d1, d2
MCDraft == {d1, d2}
=============================================================================
