---------------------------- MODULE MCForwarder ----------------------------
(* Instances of Forwarder for TLC: which of the first few ids each sink's  *)
(* filter passes.                                                          *)
EXTENDS Forwarder

All == 1..MaxEvents
Odd == {1, 3}
Late == {2, 3}
Nothing == {}
=============================================================================
