---------------------------- MODULE AuditStream ----------------------------
(***************************************************************************)
(* What the event forwarder promises about one output stream: from the     *)
(* moment it is seeded, every audit event the stream's filter passes is    *)
(* emitted, in the order of the ids; what has been committed is never      *)
(* emitted again and has been emitted before; a restart goes back to the   *)
(* committed id and emits the uncommitted part once more (at least once).  *)
(***************************************************************************)
EXTENDS Integers, Sequences

CONSTANT Passes  \* what the stream's filter passes

VARIABLES
  published,  \* highest id in NetBird's audit log, whose ids are 1..published
  seed,       \* highest id when the stream was seeded, Unseeded before
  committed,  \* id below which nothing is emitted again, Unseeded before
  position,   \* how far the present process has come
  emitted     \* everything emitted so far, over all restarts

vars == <<published, seed, committed, position, emitted>>

Unseeded == -1

Ids == Passes \cap Nat

Emitted == {emitted[i] : i \in DOMAIN emitted}

Init ==
  /\ published \in Nat
  /\ seed = Unseeded
  /\ committed = Unseeded
  /\ position = Unseeded
  /\ emitted = <<>>

(* NetBird records a change. *)
Publish ==
  /\ published' = published + 1
  /\ UNCHANGED <<seed, committed, position, emitted>>

(* The first boot skips the backlog. *)
Seed ==
  /\ seed = Unseeded
  /\ seed' = published
  /\ committed' = published
  /\ position' = published
  /\ UNCHANGED <<published, emitted>>

(* Emit the next event that passes. *)
Emit ==
  /\ seed # Unseeded
  /\ \E e \in Ids :
       /\ position < e /\ e <= published
       /\ \A x \in Ids : x <= position \/ e <= x
       /\ emitted' = Append(emitted, e)
       /\ position' = e
  /\ UNCHANGED <<published, seed, committed>>

(* Move on over events that do not pass. *)
Skip ==
  /\ seed # Unseeded
  /\ \E p \in (position + 1)..published :
       /\ \A x \in Ids : x <= position \/ p < x
       /\ position' = p
  /\ UNCHANGED <<published, seed, committed, emitted>>

Commit ==
  /\ committed' = position
  /\ UNCHANGED <<published, seed, position, emitted>>

(* The process dies; the next one resumes from the committed id. *)
Rewind ==
  /\ position' = committed
  /\ UNCHANGED <<published, seed, committed, emitted>>

Next == Publish \/ Seed \/ Emit \/ Skip \/ Commit \/ Rewind

Spec == Init /\ [][Next]_vars

-----------------------------------------------------------------------------

TypeOK ==
  /\ published \in Nat
  /\ seed \in Nat \cup {Unseeded}
  /\ committed \in Nat \cup {Unseeded}
  /\ position \in Nat \cup {Unseeded}
  /\ emitted \in Seq(Nat)

(* No loss: what lies between the seed and the present position has been   *)
(* emitted, so nothing the committed id covers is missing.                 *)
NoLoss ==
  \A e \in Ids : seed # Unseeded /\ seed < e /\ e <= position => e \in Emitted

(* Order: when an event is emitted, every earlier one that passes has been *)
(* emitted before it.                                                      *)
InOrder ==
  \A i \in DOMAIN emitted : \A e \in Ids :
    seed < e /\ e < emitted[i] => \E j \in 1..(i-1) : emitted[j] = e

(* Only events after the seed that the filter passes are emitted.          *)
OnlyNew == \A e \in Emitted : e \in Ids /\ seed < e /\ e <= published

(* Emission never reaches back behind the committed id.                    *)
NoReplay ==
  [][\A i \in DOMAIN emitted' : i > Len(emitted) => emitted'[i] > committed]_vars
=============================================================================
