------------------------------ MODULE MCJobRun ------------------------------
(* Instances of JobRun for TLC.                                            *)
EXTENDS JobRun

CONSTANT history

History == {history}
None == {}
=============================================================================
