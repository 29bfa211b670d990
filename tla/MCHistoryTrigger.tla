-------------------------- MODULE MCHistoryTrigger --------------------------
(* Instances of HistoryTrigger for TLC.                                    *)
EXTENDS HistoryTrigger

CONSTANT history

History == {history}
None == {}
=============================================================================
