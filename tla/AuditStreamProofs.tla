-------------------------- MODULE AuditStreamProofs --------------------------
(***************************************************************************)
(* The promises of AuditStream, for every filter and every log.            *)
(***************************************************************************)
EXTENDS AuditStream, TLAPS

(* How the ids relate: the committed id lies between the seed and the      *)
(* present position, which lies within the log.                            *)
Ordered ==
  /\ seed = Unseeded => committed = Unseeded /\ position = Unseeded /\ emitted = <<>>
  /\ seed # Unseeded => /\ seed <= committed
                        /\ committed <= position
                        /\ position <= published

StreamInv == TypeOK /\ Ordered /\ NoLoss /\ InOrder /\ OnlyNew

(* Appending adds one entry behind the others.                             *)
LEMMA AppendEmitted ==
  ASSUME emitted \in Seq(Nat), NEW e \in Nat, emitted' = Append(emitted, e)
  PROVE  /\ emitted' \in Seq(Nat)
         /\ Len(emitted') = Len(emitted) + 1
         /\ \A i \in 1..Len(emitted) : emitted'[i] = emitted[i]
         /\ emitted'[Len(emitted) + 1] = e
         /\ DOMAIN emitted = 1..Len(emitted) /\ DOMAIN emitted' = 1..(Len(emitted) + 1)
         /\ Emitted' = Emitted \cup {e}
<1>1. /\ emitted' \in Seq(Nat)
      /\ Len(emitted') = Len(emitted) + 1
      /\ \A i \in 1..Len(emitted) : emitted'[i] = emitted[i]
      /\ emitted'[Len(emitted) + 1] = e
      /\ Len(emitted) \in Nat
      /\ DOMAIN emitted = 1..Len(emitted) /\ DOMAIN emitted' = 1..(Len(emitted) + 1)
  OBVIOUS
<1>2. Emitted' = Emitted \cup {e}
  BY <1>1 DEF Emitted
<1>. QED
  BY <1>1, <1>2

LEMMA IdsAreNumbers == Ids \subseteq Nat
  BY DEF Ids

LEMMA InitStream == Init => StreamInv
  BY DEF Init, StreamInv, TypeOK, Ordered, NoLoss, InOrder, OnlyNew, Emitted, Unseeded

(* A step that leaves the emitted events and the seed alone, and moves the *)
(* position over nothing that passes, keeps the invariant.                 *)
LEMMA QuietStep ==
  ASSUME StreamInv, seed' = seed, emitted' = emitted,
         published \in Nat, published' \in Nat, published <= published',
         TypeOK', Ordered',
         \A x \in Ids : x <= position' => x <= position
  PROVE  StreamInv'
  BY IdsAreNumbers
     DEF StreamInv, TypeOK, NoLoss, InOrder, OnlyNew, Emitted, Unseeded

LEMMA StepStream == StreamInv /\ [Next]_vars => StreamInv'
<1>. SUFFICES ASSUME StreamInv, [Next]_vars PROVE StreamInv'
  OBVIOUS
<1>. USE IdsAreNumbers
<1>1. CASE Publish
  BY <1>1, QuietStep DEF Publish, StreamInv, TypeOK, Ordered, Unseeded
<1>2. CASE Seed
  BY <1>2 DEF Seed, StreamInv, TypeOK, Ordered, NoLoss, InOrder, OnlyNew, Emitted, Unseeded
<1>3. CASE Emit
  <2>1. PICK e \in Ids :
          /\ position < e /\ e <= published
          /\ \A x \in Ids : x <= position \/ e <= x
          /\ emitted' = Append(emitted, e)
          /\ position' = e
    BY <1>3 DEF Emit
  <2>2. /\ seed # Unseeded
        /\ published' = published /\ seed' = seed /\ committed' = committed
    BY <1>3 DEF Emit
  <2>3. e \in Nat /\ emitted \in Seq(Nat)
    BY DEF StreamInv, TypeOK
  <2>4. /\ emitted' \in Seq(Nat)
        /\ Len(emitted') = Len(emitted) + 1
        /\ \A i \in 1..Len(emitted) : emitted'[i] = emitted[i]
        /\ emitted'[Len(emitted) + 1] = e
        /\ DOMAIN emitted = 1..Len(emitted) /\ DOMAIN emitted' = 1..(Len(emitted) + 1)
        /\ Emitted' = Emitted \cup {e}
    BY <2>1, <2>3, AppendEmitted
  <2>5. TypeOK' /\ Ordered'
    BY <2>1, <2>2, <2>3, <2>4 DEF StreamInv, TypeOK, Ordered, Unseeded
  <2>6. NoLoss'
    BY <2>1, <2>2, <2>3, <2>4 DEF StreamInv, TypeOK, NoLoss
  <2>7. OnlyNew'
    BY <2>1, <2>2, <2>3, <2>4 DEF StreamInv, TypeOK, Ordered, OnlyNew, Unseeded
  <2>8. InOrder'
    <3>. SUFFICES ASSUME NEW i \in 1..(Len(emitted) + 1), NEW x \in Ids,
                         seed < x, x < emitted'[i]
                  PROVE  \E j \in 1..(i-1) : emitted'[j] = x
      BY <2>2, <2>4 DEF InOrder
    <3>0. Len(emitted) \in Nat
      BY <2>3
    <3>1. CASE i \in 1..Len(emitted)
      <4>1. x < emitted[i] /\ i \in DOMAIN emitted
        BY <3>1, <2>4
      <4>2. PICK j \in 1..(i-1) : emitted[j] = x
        BY <4>1 DEF StreamInv, InOrder
      <4>. QED
        BY <4>2, <3>0, <3>1, <2>4
    <3>2. CASE i = Len(emitted) + 1
      <4>1. x < e
        BY <3>2, <2>4
      <4>2. x <= position
        BY <4>1, <2>1, <2>3 DEF StreamInv, TypeOK
      <4>3. x \in Emitted
        BY <4>2, <2>2 DEF StreamInv, NoLoss
      <4>4. PICK j \in DOMAIN emitted : emitted[j] = x
        BY <4>3 DEF Emitted
      <4>. QED
        BY <4>4, <3>0, <3>2, <2>4
    <3>. QED
      BY <3>0, <3>1, <3>2
  <2>. QED
    BY <2>5, <2>6, <2>7, <2>8 DEF StreamInv
<1>4. CASE Skip
  <2>1. PICK p \in (position + 1)..published :
          (\A x \in Ids : x <= position \/ p < x) /\ position' = p
    BY <1>4 DEF Skip
  <2>2. TypeOK' /\ Ordered'
    BY <1>4, <2>1 DEF Skip, StreamInv, TypeOK, Ordered, Unseeded
  <2>3. \A x \in Ids : x <= position' => x <= position
    BY <2>1 DEF StreamInv, TypeOK, Unseeded
  <2>. QED
    BY <1>4, <2>2, <2>3, QuietStep DEF Skip, StreamInv, TypeOK
<1>5. CASE Commit
  BY <1>5, QuietStep DEF Commit, StreamInv, TypeOK, Ordered, Unseeded
<1>6. CASE Rewind
  BY <1>6, QuietStep DEF Rewind, StreamInv, TypeOK, Ordered, Unseeded
<1>7. CASE UNCHANGED vars
  BY <1>7, QuietStep DEF vars, StreamInv, TypeOK, Ordered, Unseeded
<1>. QED
  BY <1>1, <1>2, <1>3, <1>4, <1>5, <1>6, <1>7 DEF Next

(* At every moment, over every number of restarts: nothing between the     *)
(* seed and the position is missing, the ids come in order, and only new   *)
(* events that pass are emitted.                                           *)
THEOREM StreamPromise == Spec => []StreamInv
<1>1. Init => StreamInv
  BY InitStream
<1>2. StreamInv /\ [Next]_vars => StreamInv'
  BY StepStream
<1>. QED
  BY <1>1, <1>2, PTL DEF Spec

(* What the committed id covers is never emitted a second time.            *)
THEOREM StreamNoReplay == Spec => NoReplay
<1>. DEFINE Ahead == \A i \in DOMAIN emitted' : i > Len(emitted) => emitted'[i] > committed
<1>1. StreamInv /\ [Next]_vars => [Ahead]_vars
  <2>. SUFFICES ASSUME StreamInv, Next PROVE Ahead
    BY DEF vars
  <2>1. CASE Emit
    <3>1. PICK e \in Ids :
            position < e /\ emitted' = Append(emitted, e)
      BY <2>1 DEF Emit
    <3>2. e \in Nat /\ emitted \in Seq(Nat) /\ Len(emitted) \in Nat
      BY IdsAreNumbers DEF StreamInv, TypeOK
    <3>3. /\ DOMAIN emitted' = 1..(Len(emitted) + 1)
          /\ emitted'[Len(emitted) + 1] = e
      BY <3>1, <3>2, AppendEmitted
    <3>4. committed < e
      BY <2>1, <3>1, <3>2 DEF Emit, StreamInv, Ordered, TypeOK, Unseeded
    <3>. QED
      BY <3>2, <3>3, <3>4
  <2>2. CASE emitted' = emitted
    <3>1. DOMAIN emitted = 1..Len(emitted) /\ Len(emitted) \in Nat
      BY DEF StreamInv, TypeOK
    <3>. QED
      BY <3>1, <2>2
  <2>. QED
    BY <2>1, <2>2 DEF Next, Publish, Seed, Skip, Commit, Rewind
<1>. QED
  BY <1>1, StreamPromise, PTL DEF Spec, NoReplay
=============================================================================
