------------------------------ MODULE WebProofs ------------------------------
(***************************************************************************)
(* The reconcilers settle, for any account, orders, runs and users. Logins *)
(* of birdseye-web, for any number of requests, browsers and sessions: the *)
(* types with the cap on pending logins, and that a session is signed in   *)
(* only by the callback that made it. And the types of the three parts of  *)
(* birdseye-web together.                                                  *)
(***************************************************************************)
EXTENDS EditProofs, MCWeb, FiniteSetTheorems, WellFoundedInduction, NaturalsInduction,
        SequenceTheorems, TLAPS

-----------------------------------------------------------------------------
(* Policies by name, where names are unique.                               *)
OneEach(seen) ==
  \A i, j \in DOMAIN seen :
    (seen[i].name = seen[j].name /\ seen[i].comp = seen[j].comp) => i = j

HasComps(seen) == \A i \in DOMAIN seen : seen[i].comp \in BOOLEAN

LEMMA NamedHas ==
  ASSUME NEW seen, NEW comp, NEW id \in DOMAIN seen, OneEach(seen), seen[id].comp = comp
  PROVE  /\ seen[id].name \in DOMAIN Named(seen, comp)
         /\ Named(seen, comp)[seen[id].name] = id
<1> DEFINE Is(x) == x \in DOMAIN seen /\ seen[x].comp = comp /\ seen[x].name = seen[id].name
           First == CHOOSE x \in DOMAIN seen : seen[x].comp = comp /\ seen[x].name = seen[id].name
<1>1. First \in DOMAIN seen /\ seen[First].comp = comp /\ seen[First].name = seen[id].name
  BY Zenon
<1>2. First = id
  BY <1>1, Zenon DEF OneEach
<1> QED  BY <1>2, Zenon DEF Named

LEMMA CompanionNamed ==
  ASSUME NEW seen, NEW n \in DOMAIN Named(seen, TRUE)
  PROVE  \E x \in DOMAIN seen : seen[x].comp = TRUE /\ seen[x].name = n /\ Named(seen, TRUE)[n] = x
  BY DEF Named

LEMMA OriginalNamed ==
  ASSUME NEW seen, NEW n \in DOMAIN Named(seen, FALSE)
  PROVE  \E x \in DOMAIN seen : seen[x].comp = FALSE /\ seen[x].name = n
             /\ Named(seen, FALSE)[n] = x
  BY DEF Named

-----------------------------------------------------------------------------
(* What allow_ping.py writes: a companion that is missing, one that is no  *)
(* longer wanted, one that drifted from its original.                      *)
Twins(seen, i, j) ==
  /\ i \in DOMAIN seen /\ j \in DOMAIN seen
  /\ ~seen[i].comp /\ seen[j].comp /\ seen[i].name = seen[j].name

Lacks(seen, i) ==
  /\ i \in DOMAIN seen /\ ~seen[i].comp /\ Wants(seen[i])
  /\ \A j \in DOMAIN seen : ~Twins(seen, i, j)

Stray(seen, j) ==
  /\ j \in DOMAIN seen /\ seen[j].comp
  /\ \A i \in DOMAIN seen : Twins(seen, i, j) => ~Wants(seen[i])

Drifts(seen, i, j) ==
  /\ Twins(seen, i, j) /\ Wants(seen[i])
  /\ Signature(seen[j]) # Signature(PingPayload(seen[i]))

Posting(seen, i) == [op |-> "post", id |-> i, pol |-> PingPayload(seen[i])]
Deleting(seen, j) == [op |-> "delete", id |-> j, pol |-> seen[j]]
Putting(seen, i, j) == [op |-> "put", id |-> j, pol |-> PingPayload(seen[i])]

PingWrite(seen, w) ==
  \/ \E i \in DOMAIN seen : Lacks(seen, i) /\ w = Posting(seen, i)
  \/ \E j \in DOMAIN seen : Stray(seen, j) /\ w = Deleting(seen, j)
  \/ \E i, j \in DOMAIN seen : Drifts(seen, i, j) /\ w = Putting(seen, i, j)

LEMMA CreationsAre ==
  ASSUME NEW seen, NEW w, HasComps(seen), OneEach(seen)
  PROVE  w \in Creations(seen) <=> \E i \in DOMAIN seen : Lacks(seen, i) /\ w = Posting(seen, i)
<1>1. ASSUME NEW i \in DOMAIN seen, ~seen[i].comp
      PROVE  seen[i].name \notin DOMAIN Named(seen, TRUE)
               <=> \A j \in DOMAIN seen : ~Twins(seen, i, j)
  <2>1. ASSUME NEW j \in DOMAIN seen, Twins(seen, i, j)
        PROVE  seen[i].name \in DOMAIN Named(seen, TRUE)
    <3>1. seen[j].comp = TRUE /\ seen[j].name = seen[i].name
      BY <2>1, Zenon DEF Twins, HasComps
    <3> QED  BY <3>1, NamedHas, Zenon
  <2>2. ASSUME seen[i].name \in DOMAIN Named(seen, TRUE)
        PROVE  \E j \in DOMAIN seen : Twins(seen, i, j)
    <3>1. PICK j \in DOMAIN seen : seen[j].comp = TRUE /\ seen[j].name = seen[i].name
      BY <2>2 DEF Named
    <3> QED  BY <1>1, <3>1, Zenon DEF Twins
  <2> QED  BY <2>1, <2>2, Zenon
<1>2. ASSUME NEW i \in DOMAIN seen
      PROVE  Lacks(seen, i) <=> (/\ ~seen[i].comp /\ Wants(seen[i])
                                 /\ seen[i].name \notin DOMAIN Named(seen, TRUE))
  BY <1>1, Zenon DEF Lacks
<1> QED  BY <1>2, Zenon DEF Creations, Posting

LEMMA CompanionWritesAre ==
  ASSUME NEW seen, NEW w, NEW j \in DOMAIN seen, HasComps(seen), OneEach(seen), seen[j].comp
  PROVE  w \in CompanionWrites(seen, seen[j].name) <=>
           \/ Stray(seen, j) /\ w = Deleting(seen, j)
           \/ \E i \in DOMAIN seen : Drifts(seen, i, j) /\ w = Putting(seen, i, j)
<1> DEFINE n == seen[j].name
<1>1. Named(seen, TRUE)[n] = j
  <2>1. seen[j].comp = TRUE
    BY Zenon DEF HasComps
  <2> QED  BY <2>1, NamedHas, Zenon
<1>2. CASE n \notin DOMAIN Named(seen, FALSE)
  <2>1. \A i \in DOMAIN seen : ~Twins(seen, i, j)
    <3> SUFFICES ASSUME NEW i \in DOMAIN seen, Twins(seen, i, j)  PROVE FALSE
      OBVIOUS
    <3>1. seen[i].comp = FALSE /\ seen[i].name = n
      BY Zenon DEF Twins, HasComps
    <3> QED  BY <1>2, <3>1, NamedHas, Zenon
  <2>2. w \in CompanionWrites(seen, n) <=> w = Deleting(seen, j)
    BY <1>1, <1>2, Zenon DEF CompanionWrites, Deleting
  <2>3. Stray(seen, j) /\ \A i \in DOMAIN seen : ~Drifts(seen, i, j)
    BY <2>1, Zenon DEF Stray, Drifts
  <2> QED  BY <2>2, <2>3, Zenon
<1>3. CASE n \in DOMAIN Named(seen, FALSE)
  <2>1. PICK o \in DOMAIN seen :
          seen[o].comp = FALSE /\ seen[o].name = n /\ Named(seen, FALSE)[n] = o
    BY <1>3, OriginalNamed, Zenon
  <2>2. \A i \in DOMAIN seen : Twins(seen, i, j) <=> i = o
    <3>1. Twins(seen, o, j)
      BY <2>1, Zenon DEF Twins
    <3>2. ASSUME NEW i \in DOMAIN seen, Twins(seen, i, j)  PROVE i = o
      <4>1. seen[i].comp = FALSE /\ seen[i].name = n
        BY <3>2, Zenon DEF Twins, HasComps
      <4> QED  BY <2>1, <4>1, Zenon DEF OneEach
    <3> QED  BY <3>1, <3>2, Zenon
  <2>3. Stray(seen, j) <=> ~Wants(seen[o])
    BY <2>2, Zenon DEF Stray
  <2>4. ASSUME NEW i \in DOMAIN seen
        PROVE  Drifts(seen, i, j) <=>
                 i = o /\ Wants(seen[o]) /\ Signature(seen[j]) # Signature(PingPayload(seen[o]))
    BY <2>2, Zenon DEF Drifts
  <2>5. CASE ~Wants(seen[o])
    <3>1. w \in CompanionWrites(seen, n) <=> w = Deleting(seen, j)
      BY <1>1, <1>3, <2>1, <2>5, Zenon DEF CompanionWrites, Deleting
    <3> QED  BY <2>3, <2>4, <2>5, <3>1, Zenon
  <2>6. CASE Wants(seen[o])
    <3>1. w \in CompanionWrites(seen, n) <=>
            (Signature(seen[j]) # Signature(PingPayload(seen[o])) /\ w = Putting(seen, o, j))
      BY <1>1, <1>3, <2>1, <2>6, Zenon DEF CompanionWrites, Putting
    <3> QED  BY <2>1, <2>3, <2>4, <2>6, <3>1, Zenon
  <2> QED  BY <2>5, <2>6
<1> QED  BY <1>2, <1>3

LEMMA PingWritesAre ==
  ASSUME NEW seen, NEW w, HasComps(seen), OneEach(seen)
  PROVE  w \in PingWrites(seen) <=> PingWrite(seen, w)
<1>1. w \in PingWrites(seen) <=>
        w \in Creations(seen) \/ \E n \in DOMAIN Named(seen, TRUE) : w \in CompanionWrites(seen, n)
  BY Zenon DEF PingWrites
<1>2. (\E n \in DOMAIN Named(seen, TRUE) : w \in CompanionWrites(seen, n)) <=>
        \E j \in DOMAIN seen : seen[j].comp /\ w \in CompanionWrites(seen, seen[j].name)
  <2>1. ASSUME NEW n \in DOMAIN Named(seen, TRUE)
        PROVE  \E j \in DOMAIN seen : seen[j].comp /\ seen[j].name = n
    BY CompanionNamed, Zenon
  <2>2. ASSUME NEW j \in DOMAIN seen, seen[j].comp
        PROVE  seen[j].name \in DOMAIN Named(seen, TRUE)
    <3>1. seen[j].comp = TRUE
      BY <2>2, Zenon DEF HasComps
    <3> QED  BY <3>1, NamedHas, Zenon
  <2> QED  BY <2>1, <2>2, Zenon
<1>3. (\E j \in DOMAIN seen : seen[j].comp /\ w \in CompanionWrites(seen, seen[j].name)) <=>
        \E j \in DOMAIN seen :
          \/ Stray(seen, j) /\ w = Deleting(seen, j)
          \/ \E i \in DOMAIN seen : Drifts(seen, i, j) /\ w = Putting(seen, i, j)
  <2>1. \A j \in DOMAIN seen : Stray(seen, j) => seen[j].comp
    BY Zenon DEF Stray
  <2>2. \A i, j \in DOMAIN seen : Drifts(seen, i, j) => seen[j].comp
    BY Zenon DEF Drifts, Twins
  <2> QED  BY <2>1, <2>2, CompanionWritesAre, Zenon
<1> QED  BY <1>1, <1>2, <1>3, CreationsAre, Zenon DEF PingWrite

-----------------------------------------------------------------------------
(* A write of allow_ping.py takes itself off what is left to write, and    *)
(* changes nothing else of it.                                             *)
LEMMA WithIs ==
  ASSUME NEW f, NEW x, NEW v
  PROVE  /\ DOMAIN With(f, x, v) = DOMAIN f \cup {x} /\ With(f, x, v)[x] = v
         /\ \A y \in DOMAIN f : y # x => With(f, x, v)[y] = f[y]
  BY DEF With

LEMMA LessIs ==
  ASSUME NEW f, NEW x
  PROVE  DOMAIN Less(f, x) = DOMAIN f \ {x} /\ \A y \in DOMAIN f : y # x => Less(f, x)[y] = f[y]
  BY DEF Less

LEMMA PayloadIs ==
  ASSUME NEW pol
  PROVE  /\ PingPayload(pol).name = pol.name /\ PingPayload(pol).comp = TRUE
         /\ PingPayload(pol).marks = CompanionMarks(pol) /\ PingPayload(pol).checks = pol.checks
         /\ PingPayload(pol).on = pol.on
         /\ PingPayload(pol).rules = [n \in Qualifying(pol) |-> MirrorRule(pol.rules[n])]
  BY DEF PingPayload

LEMMA WritesDiffer ==
  ASSUME NEW a, NEW b, NEW i, NEW j, NEW k
  PROVE  /\ Posting(a, i) = Posting(b, j) => i = j
         /\ Deleting(a, i) = Deleting(b, j) => i = j
         /\ Putting(a, k, i) = Putting(b, k, j) => i = j
         /\ Posting(a, i) # Deleting(b, j) /\ Posting(a, i) # Putting(b, k, j)
         /\ Deleting(a, i) # Putting(b, k, j)
  BY DEF Posting, Deleting, Putting

Settling(seen, after, w) == \A v : PingWrite(after, v) <=> (PingWrite(seen, v) /\ v # w)

LEMMA PostSettles ==
  ASSUME NEW seen, NEW o \in DOMAIN seen, NEW f, f \notin DOMAIN seen, Lacks(seen, o),
         OneEach(seen),
         HasComps(seen)
  PROVE  Settling(seen, With(seen, f, PingPayload(seen[o])), Posting(seen, o))
<1> DEFINE P == PingPayload(seen[o])
           after == With(seen, f, P)
<1> HIDE DEF P
<1>1. DOMAIN after = DOMAIN seen \cup {f} /\ after[f] = P
      /\ \A y \in DOMAIN seen : after[y] = seen[y]
  BY DEF With
<1>2. P.name = seen[o].name /\ P.comp
  BY PayloadIs, Zenon DEF P
<1>3. o \in DOMAIN seen /\ ~seen[o].comp /\ Wants(seen[o])
      /\ \A j \in DOMAIN seen : ~Twins(seen, o, j)
  BY Zenon DEF Lacks
<1>4. ASSUME NEW i \in DOMAIN seen, ~seen[i].comp, seen[i].name = seen[o].name  PROVE i = o
  BY <1>3, <1>4, Zenon DEF OneEach, HasComps
<1> HIDE DEF after
<1>5. \A i, j \in DOMAIN seen : Twins(after, i, j) <=> Twins(seen, i, j)
  BY <1>1, Zenon DEF Twins
<1>6. \A i \in DOMAIN after : Twins(after, i, f) <=> i = o
  <2>1. Twins(after, o, f)
    BY <1>1, <1>2, <1>3, Zenon DEF Twins
  <2>2. ASSUME NEW i \in DOMAIN after, Twins(after, i, f)  PROVE i = o
    BY <1>1, <1>2, <1>4, <2>2, Zenon DEF Twins
  <2> QED  BY <2>1, <2>2, Zenon
<1>7. \A i \in DOMAIN after : ~Twins(after, f, i)
  BY <1>1, <1>2, Zenon DEF Twins
<1>8. \A i \in DOMAIN after : Lacks(after, i) <=> (i \in DOMAIN seen /\ Lacks(seen, i) /\ i # o)
  <2>1. ~Lacks(after, f)
    BY <1>1, <1>2, Zenon DEF Lacks
  <2>2. ASSUME NEW i \in DOMAIN seen  PROVE Lacks(after, i) <=> (Lacks(seen, i) /\ i # o)
    BY <1>1, <1>5, <1>6, Zenon DEF Lacks
  <2> QED  BY <1>1, <2>1, <2>2, Zenon
<1>9. \A j \in DOMAIN after : Stray(after, j) <=> (j \in DOMAIN seen /\ Stray(seen, j))
  <2>1. ~Stray(after, f)
    BY <1>1, <1>3, <1>6, Zenon DEF Stray
  <2>2. ASSUME NEW j \in DOMAIN seen  PROVE Stray(after, j) <=> Stray(seen, j)
    BY <1>1, <1>5, <1>7, Zenon DEF Stray
  <2> QED  BY <1>1, <2>1, <2>2, Zenon
<1>10. \A i, j \in DOMAIN after :
         Drifts(after, i, j) <=> (i \in DOMAIN seen /\ j \in DOMAIN seen /\ Drifts(seen, i, j))
  <2>1. \A j \in DOMAIN after : ~Drifts(after, f, j)
    BY <1>7, Zenon DEF Drifts
  <2>2. \A i \in DOMAIN after : ~Drifts(after, i, f)
    <3> SUFFICES ASSUME NEW i \in DOMAIN after, Drifts(after, i, f)  PROVE FALSE
      OBVIOUS
    <3>1. i = o /\ Signature(after[f]) # Signature(PingPayload(after[i]))
      BY <1>6, Zenon DEF Drifts
    <3> QED  BY <1>1, <1>3, <3>1, Zenon DEF P
  <2>3. ASSUME NEW i \in DOMAIN seen, NEW j \in DOMAIN seen
        PROVE  Drifts(after, i, j) <=> Drifts(seen, i, j)
    BY <1>1, <1>5, Zenon DEF Drifts
  <2> QED  BY <1>1, <2>1, <2>2, <2>3, Zenon
<1>11. ASSUME NEW v  PROVE PingWrite(after, v) <=> (PingWrite(seen, v) /\ v # Posting(seen, o))
  <2>1. (\E i \in DOMAIN after : Lacks(after, i) /\ v = Posting(after, i)) <=>
          \E i \in DOMAIN seen : Lacks(seen, i) /\ v = Posting(seen, i) /\ v # Posting(seen, o)
    <3>1. \A i \in DOMAIN seen : Posting(after, i) = Posting(seen, i)
      BY <1>1, Zenon DEF Posting
    <3>2. \A i \in DOMAIN seen : Posting(seen, i) = Posting(seen, o) => i = o
      BY WritesDiffer, Zenon
    <3> QED  BY <1>1, <1>8, <3>1, <3>2, Zenon
  <2>2. (\E j \in DOMAIN after : Stray(after, j) /\ v = Deleting(after, j)) <=>
          \E j \in DOMAIN seen : Stray(seen, j) /\ v = Deleting(seen, j) /\ v # Posting(seen, o)
    <3>1. \A j \in DOMAIN seen : Deleting(after, j) = Deleting(seen, j)
      BY <1>1, Zenon DEF Deleting
    <3>2. \A j \in DOMAIN seen : Deleting(seen, j) # Posting(seen, o)
      BY WritesDiffer, Zenon
    <3> QED  BY <1>1, <1>9, <3>1, <3>2, Zenon
  <2>3. (\E i, j \in DOMAIN after : Drifts(after, i, j) /\ v = Putting(after, i, j)) <=>
          \E i, j \in DOMAIN seen : Drifts(seen, i, j) /\ v = Putting(seen, i, j)
              /\ v # Posting(seen, o)
    <3>1. \A i, j \in DOMAIN seen : Putting(after, i, j) = Putting(seen, i, j)
      BY <1>1, Zenon DEF Putting
    <3>2. \A i, j \in DOMAIN seen : Putting(seen, i, j) # Posting(seen, o)
      BY WritesDiffer, Zenon
    <3>3. ASSUME NEW i \in DOMAIN seen, NEW j \in DOMAIN seen
          PROVE  Drifts(after, i, j) <=> Drifts(seen, i, j)
      BY <1>1, <1>10, Zenon
    <3>4. \A i, j \in DOMAIN after : Drifts(after, i, j) => i \in DOMAIN seen /\ j \in DOMAIN seen
      BY <1>10, Zenon
    <3>5. DOMAIN seen \subseteq DOMAIN after
      BY <1>1, Zenon
    <3>6. ASSUME NEW i \in DOMAIN after, NEW j \in DOMAIN after, Drifts(after, i, j),
                 v = Putting(after, i, j)
          PROVE  \E a, b \in DOMAIN seen :
                   Drifts(seen, a, b) /\ v = Putting(seen, a, b) /\ v # Posting(seen, o)
      BY <3>1, <3>2, <3>3, <3>4, <3>6, Zenon
    <3>7. ASSUME NEW i \in DOMAIN seen, NEW j \in DOMAIN seen, Drifts(seen, i, j),
                 v = Putting(seen, i, j)
          PROVE  \E a, b \in DOMAIN after : Drifts(after, a, b) /\ v = Putting(after, a, b)
      BY <3>1, <3>3, <3>5, <3>7
    <3> QED  BY <3>6, <3>7, Zenon
  <2> QED  BY <2>1, <2>2, <2>3, Zenon DEF PingWrite
<1> QED  BY <1>11, Zenon DEF Settling, after, P

LEMMA PutSettles ==
  ASSUME NEW seen, NEW o \in DOMAIN seen, NEW z \in DOMAIN seen, Drifts(seen, o, z), OneEach(seen),
         HasComps(seen)
  PROVE  Settling(seen, With(seen, z, PingPayload(seen[o])), Putting(seen, o, z))
<1> DEFINE P == PingPayload(seen[o])
           after == With(seen, z, P)
<1> HIDE DEF P
<1>1. DOMAIN after = DOMAIN seen /\ after[z] = P
      /\ \A y \in DOMAIN seen : y # z => after[y] = seen[y]
  BY DEF With
<1>2. P.name = seen[o].name /\ P.comp
  BY PayloadIs, Zenon DEF P
<1>3. /\ Wants(seen[o]) /\ Twins(seen, o, z)
      /\ ~seen[o].comp /\ seen[z].comp /\ seen[o].name = seen[z].name
  BY Zenon DEF Drifts, Twins
<1> HIDE DEF after
<1>4. \A i, j \in DOMAIN seen : Twins(after, i, j) <=> Twins(seen, i, j)
  BY <1>1, <1>2, <1>3, Zenon DEF Twins
<1>5. \A i \in DOMAIN seen : ~seen[i].comp => after[i] = seen[i]
  BY <1>1, <1>3, Zenon
<1>6. \A i \in DOMAIN seen : Twins(seen, i, z) => i = o
  BY <1>3, Zenon DEF Twins, OneEach, HasComps
<1>7. \A i \in DOMAIN seen : after[i].comp <=> seen[i].comp
  BY <1>1, <1>2, <1>3, Zenon
<1>8. \A i \in DOMAIN seen : Lacks(after, i) <=> Lacks(seen, i)
  BY <1>1, <1>4, <1>5, <1>7, Zenon DEF Lacks
<1>9. \A j \in DOMAIN seen : Stray(after, j) <=> Stray(seen, j)
  <2>1. \A i, j \in DOMAIN seen : Twins(seen, i, j) => ~seen[i].comp
    BY Zenon DEF Twins
  <2> QED  BY <1>1, <1>4, <1>5, <1>7, <2>1, Zenon DEF Stray
<1>10. ~Stray(seen, z)
  BY <1>3, Zenon DEF Stray
<1>11. ASSUME NEW i \in DOMAIN seen, NEW j \in DOMAIN seen
       PROVE  Drifts(after, i, j) <=> (Drifts(seen, i, j) /\ j # z)
  <2>1. CASE j = z
    <3>1. ASSUME Drifts(after, i, z)  PROVE FALSE
      <4>1. Twins(seen, i, z) /\ Signature(after[z]) # Signature(PingPayload(after[i]))
        BY <1>4, <3>1, Zenon DEF Drifts
      <4>2. i = o /\ after[i] = seen[o]
        BY <1>3, <1>5, <1>6, <4>1, Zenon
      <4> QED  BY <1>1, <4>1, <4>2, Zenon DEF P
    <3> QED  BY <2>1, <3>1, Zenon
  <2>2. CASE j # z
    <3>1. Twins(seen, i, j) => after[i] = seen[i] /\ after[j] = seen[j]
      BY <1>1, <1>5, <2>2, Zenon DEF Twins
    <3> QED  BY <1>4, <2>2, <3>1, Zenon DEF Drifts
  <2> QED  BY <2>1, <2>2
<1>12. ASSUME NEW v  PROVE PingWrite(after, v) <=> (PingWrite(seen, v) /\ v # Putting(seen, o, z))
  <2>1. (\E i \in DOMAIN after : Lacks(after, i) /\ v = Posting(after, i)) <=>
          \E i \in DOMAIN seen : Lacks(seen, i) /\ v = Posting(seen, i) /\ v # Putting(seen, o, z)
    <3>1. \A i \in DOMAIN seen : Lacks(seen, i) => Posting(after, i) = Posting(seen, i)
      BY <1>5, Zenon DEF Posting, Lacks
    <3>2. \A i \in DOMAIN seen : Posting(seen, i) # Putting(seen, o, z)
      BY WritesDiffer, Zenon
    <3> QED  BY <1>1, <1>8, <3>1, <3>2, Zenon
  <2>2. (\E j \in DOMAIN after : Stray(after, j) /\ v = Deleting(after, j)) <=>
          \E j \in DOMAIN seen : Stray(seen, j) /\ v = Deleting(seen, j) /\ v # Putting(seen, o, z)
    <3>1. \A j \in DOMAIN seen : j # z => Deleting(after, j) = Deleting(seen, j)
      BY <1>1, Zenon DEF Deleting
    <3>2. \A j \in DOMAIN seen : Deleting(seen, j) # Putting(seen, o, z)
      BY WritesDiffer, Zenon
    <3> QED  BY <1>1, <1>9, <1>10, <3>1, <3>2, Zenon
  <2>3. (\E i, j \in DOMAIN after : Drifts(after, i, j) /\ v = Putting(after, i, j)) <=>
          \E i, j \in DOMAIN seen :
            Drifts(seen, i, j) /\ v = Putting(seen, i, j) /\ v # Putting(seen, o, z)
    <3>1. ASSUME NEW i \in DOMAIN seen, NEW j \in DOMAIN seen, Drifts(seen, i, j)
          PROVE  Putting(after, i, j) = Putting(seen, i, j)
      <4>1. after[i] = seen[i]
        BY <1>5, <3>1, Zenon DEF Drifts, Twins
      <4> QED  BY <4>1, Zenon DEF Putting
    <3>2. ASSUME NEW i \in DOMAIN seen, NEW j \in DOMAIN seen, Drifts(seen, i, j)
          PROVE  Putting(seen, i, j) # Putting(seen, o, z) <=> j # z
      <4>1. ASSUME j = z  PROVE i = o
        BY <1>6, <3>2, <4>1, Zenon DEF Drifts
      <4>2. Putting(seen, i, j) = Putting(seen, o, z) => j = z
        BY Zenon DEF Putting
      <4> QED  BY <4>1, <4>2, Zenon
    <3>3. ASSUME NEW i \in DOMAIN after, NEW j \in DOMAIN after, Drifts(after, i, j),
                 v = Putting(after, i, j)
          PROVE  \E a, b \in DOMAIN seen :
                   Drifts(seen, a, b) /\ v = Putting(seen, a, b) /\ v # Putting(seen, o, z)
      <4>1. i \in DOMAIN seen /\ j \in DOMAIN seen
        BY <1>1
      <4>2. Drifts(seen, i, j) /\ j # z
        BY <1>11, <3>3, <4>1, Zenon
      <4> QED  BY <3>1, <3>2, <3>3, <4>1, <4>2, Zenon
    <3>4. ASSUME NEW i \in DOMAIN seen, NEW j \in DOMAIN seen, Drifts(seen, i, j),
                 v = Putting(seen, i, j), v # Putting(seen, o, z)
          PROVE  \E a, b \in DOMAIN after : Drifts(after, a, b) /\ v = Putting(after, a, b)
      <4>1. Drifts(after, i, j) /\ v = Putting(after, i, j)
        BY <1>11, <3>1, <3>2, <3>4, Zenon
      <4> QED  BY <1>1, <4>1
    <3> QED  BY <3>3, <3>4, Zenon
  <2> QED  BY <2>1, <2>2, <2>3, Zenon DEF PingWrite
<1> QED  BY <1>12, Zenon DEF Settling, after, P

LEMMA DeleteSettles ==
  ASSUME NEW seen, NEW z \in DOMAIN seen, Stray(seen, z)
  PROVE  Settling(seen, Less(seen, z), Deleting(seen, z))
<1> DEFINE after == Less(seen, z)
<1>1. DOMAIN after = DOMAIN seen \ {z} /\ \A y \in DOMAIN seen : y # z => after[y] = seen[y]
  BY DEF Less
<1>2. seen[z].comp /\ \A i \in DOMAIN seen : Twins(seen, i, z) => ~Wants(seen[i])
  BY Zenon DEF Stray
<1> HIDE DEF after
<1>3. \A i, j \in DOMAIN seen : i # z /\ j # z => (Twins(after, i, j) <=> Twins(seen, i, j))
  BY <1>1, Zenon DEF Twins
<1>4. \A i \in DOMAIN seen : ~Lacks(seen, z) /\ ~Drifts(seen, z, i) /\ ~Drifts(seen, i, z)
  BY <1>2, Zenon DEF Lacks, Drifts, Twins
<1>5. ASSUME NEW i \in DOMAIN seen, i # z  PROVE Lacks(after, i) <=> Lacks(seen, i)
  <2>1. Wants(seen[i]) => ~Twins(seen, i, z)
    BY <1>2, Zenon
  <2> QED  BY <1>1, <1>3, <1>5, <2>1, Zenon DEF Lacks
<1>6. ASSUME NEW j \in DOMAIN seen, j # z  PROVE Stray(after, j) <=> Stray(seen, j)
  <2>1. ~Twins(seen, z, j)
    BY <1>2, Zenon DEF Twins
  <2> QED  BY <1>1, <1>3, <1>6, <2>1, Zenon DEF Stray
<1>7. ASSUME NEW i \in DOMAIN seen, NEW j \in DOMAIN seen, i # z, j # z
      PROVE  Drifts(after, i, j) <=> Drifts(seen, i, j)
  BY <1>1, <1>3, <1>7, Zenon DEF Drifts
<1>8. ASSUME NEW v  PROVE PingWrite(after, v) <=> (PingWrite(seen, v) /\ v # Deleting(seen, z))
  <2>1. (\E i \in DOMAIN after : Lacks(after, i) /\ v = Posting(after, i)) <=>
          \E i \in DOMAIN seen : Lacks(seen, i) /\ v = Posting(seen, i) /\ v # Deleting(seen, z)
    <3>1. \A i \in DOMAIN seen : i # z => Posting(after, i) = Posting(seen, i)
      BY <1>1, Zenon DEF Posting
    <3>2. \A i \in DOMAIN seen : Posting(seen, i) # Deleting(seen, z)
      BY WritesDiffer, Zenon
    <3> QED  BY <1>1, <1>4, <1>5, <3>1, <3>2, Zenon
  <2>2. (\E j \in DOMAIN after : Stray(after, j) /\ v = Deleting(after, j)) <=>
          \E j \in DOMAIN seen : Stray(seen, j) /\ v = Deleting(seen, j) /\ v # Deleting(seen, z)
    <3>1. \A j \in DOMAIN seen : j # z => Deleting(after, j) = Deleting(seen, j)
      BY <1>1, Zenon DEF Deleting
    <3>2. \A j \in DOMAIN seen : Deleting(seen, j) = Deleting(seen, z) => j = z
      BY WritesDiffer, Zenon
    <3> QED  BY <1>1, <1>6, <3>1, <3>2, Zenon
  <2>3. (\E i, j \in DOMAIN after : Drifts(after, i, j) /\ v = Putting(after, i, j)) <=>
          \E i, j \in DOMAIN seen : Drifts(seen, i, j) /\ v = Putting(seen, i, j)
              /\ v # Deleting(seen, z)
    <3>1. \A i, j \in DOMAIN seen : i # z => Putting(after, i, j) = Putting(seen, i, j)
      BY <1>1, Zenon DEF Putting
    <3>2. \A i, j \in DOMAIN seen : Putting(seen, i, j) # Deleting(seen, z)
      BY WritesDiffer, Zenon
    <3>3. ASSUME NEW i \in DOMAIN after, NEW j \in DOMAIN after, Drifts(after, i, j),
                 v = Putting(after, i, j)
          PROVE  \E a, b \in DOMAIN seen :
                   Drifts(seen, a, b) /\ v = Putting(seen, a, b) /\ v # Deleting(seen, z)
      <4>1. i \in DOMAIN seen /\ j \in DOMAIN seen /\ i # z /\ j # z
        BY <1>1
      <4> QED  BY <1>7, <3>1, <3>2, <3>3, <4>1, Zenon
    <3>4. ASSUME NEW i \in DOMAIN seen, NEW j \in DOMAIN seen, Drifts(seen, i, j),
                 v = Putting(seen, i, j)
          PROVE  \E a, b \in DOMAIN after : Drifts(after, a, b) /\ v = Putting(after, a, b)
      <4>1. i # z /\ j # z
        BY <1>4, <3>4, Zenon
      <4>2. i \in DOMAIN after /\ j \in DOMAIN after
        BY <1>1, <4>1
      <4> QED  BY <1>7, <3>1, <3>4, <4>1, <4>2, Zenon
    <3> QED  BY <3>3, <3>4, Zenon
  <2> QED  BY <2>1, <2>2, <2>3, Zenon DEF PingWrite
<1> QED  BY <1>8, Zenon DEF Settling, after

-----------------------------------------------------------------------------
(* What a write makes of the policies.                                     *)
Written(seen, w, after) ==
  /\ (w.op = "post" => \E f \in PolicyIds \ DOMAIN seen : after = With(seen, f, w.pol))
  /\ (w.op = "put" => w.id \in DOMAIN seen /\ after = With(seen, w.id, w.pol))
  /\ (w.op = "delete" => w.id \in DOMAIN seen /\ after = Less(seen, w.id))
  /\ (w.op = "sweep" => after = seen)

FineWrite(w) ==
  /\ w.op \in {"post", "put", "delete", "sweep"}
  /\ (w.op \in {"post", "put"} => IsPolicy(w.pol))

LEMMA PingStep ==
  ASSUME NEW seen, NEW after, NEW w \in PingWrites(seen), Written(seen, w, after),
         HasComps(seen), OneEach(seen), HasComps(after), OneEach(after)
  PROVE  PingWrites(after) = PingWrites(seen) \ {w}
<1>1. PingWrite(seen, w)
  BY PingWritesAre, Zenon
<1>2. Settling(seen, after, w)
  <2>1. CASE \E i \in DOMAIN seen : Lacks(seen, i) /\ w = Posting(seen, i)
    <3>1. PICK i \in DOMAIN seen : Lacks(seen, i) /\ w = Posting(seen, i)
      BY <2>1, Zenon
    <3>2. w.op = "post" /\ w.pol = PingPayload(seen[i])
      BY <3>1, Zenon DEF Posting
    <3>3. PICK f : f \notin DOMAIN seen /\ after = With(seen, f, PingPayload(seen[i]))
      BY <3>2 DEF Written
    <3> QED  BY <3>1, <3>3, PostSettles, Zenon
  <2>2. CASE \E j \in DOMAIN seen : Stray(seen, j) /\ w = Deleting(seen, j)
    <3>1. PICK j \in DOMAIN seen : Stray(seen, j) /\ w = Deleting(seen, j)
      BY <2>2, Zenon
    <3>2. w.op = "delete" /\ w.id = j
      BY <3>1, Zenon DEF Deleting
    <3>3. after = Less(seen, j)
      BY <3>2, Zenon DEF Written
    <3> QED  BY <3>1, <3>3, DeleteSettles, Zenon
  <2>3. CASE \E i, j \in DOMAIN seen : Drifts(seen, i, j) /\ w = Putting(seen, i, j)
    <3>1. PICK i \in DOMAIN seen, j \in DOMAIN seen : Drifts(seen, i, j) /\ w = Putting(seen, i, j)
      BY <2>3, Zenon
    <3>2. w.op = "put" /\ w.id = j /\ w.pol = PingPayload(seen[i])
      BY <3>1, Zenon DEF Putting
    <3>3. after = With(seen, j, PingPayload(seen[i]))
      BY <3>2, Zenon DEF Written
    <3> QED  BY <3>1, <3>3, PutSettles, Zenon
  <2> QED  BY <1>1, <2>1, <2>2, <2>3, Zenon DEF PingWrite
<1>3. ASSUME NEW v  PROVE v \in PingWrites(after) <=> v \in PingWrites(seen) \ {w}
  <2>1. v \in PingWrites(seen) <=> PingWrite(seen, v)
    BY PingWritesAre, Zenon
  <2>2. v \in PingWrites(after) <=> PingWrite(after, v)
    BY PingWritesAre, Zenon
  <2> QED  BY <1>2, <2>1, <2>2, Zenon DEF Settling
<1> QED  BY <1>3, Zenon

LEMMA RemoveStep ==
  ASSUME NEW seen, NEW after, NEW w \in RemoveWrites(seen), Written(seen, w, after)
  PROVE  RemoveWrites(after) = RemoveWrites(seen) \ {w}
<1>1. PICK z \in DOMAIN seen : seen[z].comp /\ w = Deleting(seen, z)
  BY Zenon DEF RemoveWrites, Deleting
<1>2. after = Less(seen, z)
  <2>1. w.op = "delete" /\ w.id = z
    BY <1>1, Zenon DEF Deleting
  <2> QED  BY <2>1, Zenon DEF Written
<1>3. DOMAIN after = DOMAIN seen \ {z} /\ \A y \in DOMAIN seen : y # z => after[y] = seen[y]
  BY <1>2, LessIs, Zenon
<1>4. \A v : v \in RemoveWrites(seen) <=> \E y \in DOMAIN seen : seen[y].comp
                                              /\ v = Deleting(seen, y)
  BY Zenon DEF RemoveWrites, Deleting
<1>5. \A v : v \in RemoveWrites(after) <=> \E y \in DOMAIN after : after[y].comp
                                               /\ v = Deleting(after, y)
  BY Zenon DEF RemoveWrites, Deleting
<1>6. \A y \in DOMAIN seen : y # z => Deleting(after, y) = Deleting(seen, y)
  BY <1>3, Zenon DEF Deleting
<1>7. \A y \in DOMAIN seen : Deleting(seen, y) = w => y = z
  BY <1>1, WritesDiffer, Zenon
<1>8. ASSUME NEW v  PROVE v \in RemoveWrites(after) <=> v \in RemoveWrites(seen) \ {w}
  <2>1. ASSUME v \in RemoveWrites(after)  PROVE v \in RemoveWrites(seen) \ {w}
    <3>1. PICK y \in DOMAIN after : after[y].comp /\ v = Deleting(after, y)
      BY <1>5, <2>1, Zenon
    <3>2. y \in DOMAIN seen /\ y # z
      BY <1>3
    <3> QED  BY <1>3, <1>4, <1>6, <1>7, <3>1, <3>2, Zenon
  <2>2. ASSUME v \in RemoveWrites(seen), v # w  PROVE v \in RemoveWrites(after)
    <3>1. PICK y \in DOMAIN seen : seen[y].comp /\ v = Deleting(seen, y)
      BY <1>4, <2>2, Zenon
    <3>2. y # z
      BY <1>1, <2>2, <3>1, Zenon
    <3>3. y \in DOMAIN after
      BY <1>3, <3>2
    <3> QED  BY <1>3, <1>5, <1>6, <3>1, <3>2, <3>3, Zenon
  <2> QED  BY <2>1, <2>2, Zenon
<1> QED  BY <1>8, Zenon

-----------------------------------------------------------------------------
(* What manage_posture.py writes.                                          *)
Due(order, pol) ==
  /\ order.only \in {Nothing, <<pol.comp, pol.name>>}
  /\ (order.posture = "add" => ~SkipsPosture(pol))
  /\ NewChecks(order, pol) # pol.checks

Body(order, pol) ==
  [pol EXCEPT !.checks = NewChecks(order, pol), !.rules = [n \in DOMAIN @ |-> PutRule(@[n])]]

Attaching(order, seen, i) == [op |-> "put", id |-> i, pol |-> Body(order, seen[i])]

AttachWrite(order, seen, w) ==
  \E i \in DOMAIN seen : Due(order, seen[i]) /\ w = Attaching(order, seen, i)

LEMMA AttachWritesAre ==
  ASSUME NEW order, NEW seen, NEW w
  PROVE  w \in AttachWrites(order, seen) <=> AttachWrite(order, seen, w)
  BY Zenon DEF AttachWrites, Targets, Due, Attaching, Body, AttachWrite

LEMMA BodyIs ==
  ASSUME NEW order, NEW pol, IsPolicy(pol)
  PROVE  /\ Body(order, pol).name = pol.name /\ Body(order, pol).comp = pol.comp
         /\ Body(order, pol).marks = pol.marks /\ Body(order, pol).on = pol.on
         /\ Body(order, pol).checks = NewChecks(order, pol)
         /\ Body(order, pol).rules = [n \in DOMAIN pol.rules |-> PutRule(pol.rules[n])]
         /\ Body(order, pol) = [name |-> Body(order, pol).name, comp |-> Body(order, pol).comp,
              marks |-> Body(order, pol).marks, on |-> Body(order, pol).on,
              checks |-> Body(order, pol).checks, rules |-> Body(order, pol).rules]
<1> DEFINE name == pol.name
           comp == pol.comp
           marks == pol.marks
           on == pol.on
           checks == pol.checks
           rules == pol.rules
           New == NewChecks(order, pol)
           Puts == [n \in DOMAIN rules |-> PutRule(rules[n])]
<1>1. pol = [name |-> name, comp |-> comp, marks |-> marks, on |-> on, checks |-> checks,
             rules |-> rules]
  BY DEF IsPolicy
<1>2. Body(order, pol) = [pol EXCEPT !.checks = New, !.rules = Puts]
  BY Zenon DEF Body
<1> HIDE DEF name, comp, marks, on, checks, rules, New, Puts
<1>3. Body(order, pol) =
        [name |-> name, comp |-> comp, marks |-> marks, on |-> on, checks |-> New, rules |-> Puts]
  BY <1>1, <1>2
<1>4. /\ Body(order, pol).name = name /\ Body(order, pol).comp = comp
      /\ Body(order, pol).marks = marks /\ Body(order, pol).on = on
      /\ Body(order, pol).checks = New /\ Body(order, pol).rules = Puts
  BY <1>3
<1> QED  BY <1>3, <1>4, Zenon DEF name, comp, marks, on, checks, rules, New, Puts

LEMMA BodyNamed ==
  ASSUME NEW order, NEW pol, IsPolicy(pol)
  PROVE  Body(order, pol).name = pol.name /\ Body(order, pol).comp = pol.comp
<1> DEFINE marks == pol.marks
           on == pol.on
           New == NewChecks(order, pol)
           Puts == [n \in DOMAIN pol.rules |-> PutRule(pol.rules[n])]
           B == Body(order, pol)
<1>1. /\ B.name = pol.name /\ B.comp = pol.comp /\ B.marks = marks /\ B.on = on
      /\ B.checks = New /\ B.rules = Puts
      /\ B = [name |-> B.name, comp |-> B.comp, marks |-> B.marks, on |-> B.on,
              checks |-> B.checks, rules |-> B.rules]
  BY BodyIs
<1> QED  BY <1>1, Zenon

(* What the step has done is not due again.                                *)
LEMMA NoLongerDue ==
  ASSUME NEW order, NEW pol, IsPolicy(pol)
  PROVE  ~Due(order, Body(order, pol))
<1>1. NewChecks(order, Body(order, pol)) = NewChecks(order, pol)
  <2> DEFINE checks == Body(order, pol).checks
  <2>1. checks = NewChecks(order, pol)
    BY BodyIs, Zenon
  <2>2. NewChecks(order, Body(order, pol)) =
         IF order.posture = "add" THEN checks \cup {Check} ELSE checks \ {Check}
    BY Zenon DEF NewChecks
  <2>3. checks = IF order.posture = "add" THEN pol.checks \cup {Check} ELSE pol.checks \ {Check}
    BY <2>1, Zenon DEF NewChecks
  <2> HIDE DEF checks
  <2> QED  BY <2>1, <2>2, <2>3
<1>2. Body(order, pol).checks = NewChecks(order, pol)
  BY BodyIs, Zenon
<1> QED  BY <1>1, <1>2, Zenon DEF Due

LEMMA PostureStep ==
  ASSUME NEW order, NEW seen, NEW after, NEW w \in AttachWrites(order, seen),
         Written(seen, w, after),
         \A i \in DOMAIN seen : IsPolicy(seen[i])
  PROVE  AttachWrites(order, after) = AttachWrites(order, seen) \ {w}
<1>1. PICK z \in DOMAIN seen : w = Attaching(order, seen, z)
  BY AttachWritesAre DEF AttachWrite
<1>2. after = With(seen, z, Body(order, seen[z]))
  <2>1. w.op = "put" /\ w.id = z /\ w.pol = Body(order, seen[z])
    BY <1>1, Zenon DEF Attaching
  <2> QED  BY <2>1, Zenon DEF Written
<1> DEFINE B == Body(order, seen[z])
<1>3. ~Due(order, B)
  BY NoLongerDue, Zenon
<1> HIDE DEF B
<1>4. DOMAIN after = DOMAIN seen /\ after[z] = B
      /\ \A y \in DOMAIN seen : y # z => after[y] = seen[y]
  BY <1>2 DEF With, B
<1>5. \A y \in DOMAIN seen : y # z => Attaching(order, after, y) = Attaching(order, seen, y)
  BY <1>4, Zenon DEF Attaching
<1>6. \A y \in DOMAIN seen : Attaching(order, seen, y) = w <=> y = z
  BY <1>1 DEF Attaching
<1>7. ASSUME NEW v  PROVE v \in AttachWrites(order, after) <=> v \in AttachWrites(order, seen) \ {w}
  <2>1. v \in AttachWrites(order, seen) <=>
          \E i \in DOMAIN seen : Due(order, seen[i]) /\ v = Attaching(order, seen, i)
    BY AttachWritesAre DEF AttachWrite
  <2>2. v \in AttachWrites(order, after) <=>
          \E i \in DOMAIN seen : Due(order, after[i]) /\ v = Attaching(order, after, i)
    BY <1>4, AttachWritesAre DEF AttachWrite
  <2> QED  BY <1>3, <1>4, <1>5, <1>6, <2>1, <2>2, Zenon
<1> QED  BY <1>7, Zenon

-----------------------------------------------------------------------------
(* The steps do not undo each other: a companion has the checks of its     *)
(* original and its marker, so it is due for the posture check only if the *)
(* original is; unless the order names the companion itself.               *)
NamesNoCompanion(order) == order.only # Nothing => order.only[1] = FALSE

NoneDue(order, seen) == \A i \in DOMAIN seen : ~Due(order, seen[i])

LEMMA NothingToAttach ==
  ASSUME NEW order, NEW seen
  PROVE  AttachWrites(order, seen) = {} <=> NoneDue(order, seen)
<1>1. ASSUME NEW i \in DOMAIN seen, Due(order, seen[i])
      PROVE  Attaching(order, seen, i) \in AttachWrites(order, seen)
  BY <1>1, AttachWritesAre DEF AttachWrite
<1>2. ASSUME NEW w \in AttachWrites(order, seen)  PROVE \E i \in DOMAIN seen : Due(order, seen[i])
  BY AttachWritesAre DEF AttachWrite
<1> QED  BY <1>1, <1>2, Zenon DEF NoneDue

LEMMA CompanionNotDue ==
  ASSUME NEW order, NEW pol, ~Due(order, pol), NamesNoCompanion(order)
  PROVE  ~Due(order, PingPayload(pol))
<1> DEFINE P == PingPayload(pol)
<1>1. P.name = pol.name /\ P.comp = TRUE /\ P.checks = pol.checks /\ P.marks = CompanionMarks(pol)
  BY PayloadIs, Zenon
<1>2. SkipsPosture(P) <=> SkipsPosture(pol)
  BY <1>1 DEF SkipsPosture, CompanionMarks
<1>3. NewChecks(order, P) = NewChecks(order, pol)
  BY <1>1, Zenon DEF NewChecks
<1> HIDE DEF P
<1>4. CASE order.only = Nothing
  <2>1. order.only \in {Nothing, <<pol.comp, pol.name>>}
    BY <1>4
  <2>2. (order.posture = "add" /\ SkipsPosture(pol)) \/ NewChecks(order, pol) = pol.checks
    BY <2>1, Zenon DEF Due
  <2> QED  BY <1>1, <1>2, <1>3, <2>2, Zenon DEF Due, P
<1>5. CASE order.only # Nothing
  <2>1. order.only[1] = FALSE
    BY <1>5, Zenon DEF NamesNoCompanion
  <2>2. order.only # <<TRUE, pol.name>>
    <3>1. ASSUME order.only = <<TRUE, pol.name>>  PROVE order.only[1] = TRUE
      BY <3>1, SMT
    <3> QED  BY <2>1, <3>1, Zenon
  <2> QED  BY <1>1, <1>5, <2>2, Zenon DEF Due, P
<1> QED  BY <1>4, <1>5

LEMMA WithKeeps ==
  ASSUME NEW order, NEW seen, NEW x, NEW pol, NoneDue(order, seen), ~Due(order, pol)
  PROVE  NoneDue(order, With(seen, x, pol))
<1> DEFINE after == With(seen, x, pol)
<1>1. \A y \in DOMAIN after : after[y] = pol \/ (y \in DOMAIN seen /\ after[y] = seen[y])
  BY DEF With
<1> HIDE DEF after
<1>2. NoneDue(order, after)
  BY <1>1, Zenon DEF NoneDue
<1> QED  BY <1>2, Zenon DEF after

LEMMA LessKeeps ==
  ASSUME NEW order, NEW seen, NEW x, NoneDue(order, seen)
  PROVE  NoneDue(order, Less(seen, x))
<1> DEFINE after == Less(seen, x)
<1>1. \A y \in DOMAIN after : y \in DOMAIN seen /\ after[y] = seen[y]
  BY DEF Less
<1> HIDE DEF after
<1>2. NoneDue(order, after)
  BY <1>1, Zenon DEF NoneDue
<1> QED  BY <1>2, Zenon DEF after

LEMMA PostureKept ==
  ASSUME NEW order, NEW seen, NEW after, NEW w \in PingWrites(seen) \cup RemoveWrites(seen),
         Written(seen, w, after), HasComps(seen), OneEach(seen), NamesNoCompanion(order),
         AttachWrites(order, seen) = {}
  PROVE  AttachWrites(order, after) = {}
<1>1. NoneDue(order, seen)
  BY NothingToAttach, Zenon
<1>2. CASE w \in RemoveWrites(seen)
  <2>1. w.op = "delete"
    BY <1>2 DEF RemoveWrites
  <2>2. after = Less(seen, w.id)
    BY <2>1, Zenon DEF Written
  <2> QED  BY <1>1, <2>2, LessKeeps, NothingToAttach, Zenon
<1>3. CASE w \in PingWrites(seen)
  <2>1. PingWrite(seen, w)
    BY <1>3, PingWritesAre, Zenon
  <2>2. CASE w.op = "delete"
    <3>1. after = Less(seen, w.id)
      BY <2>2, Zenon DEF Written
    <3> QED  BY <1>1, <3>1, LessKeeps, NothingToAttach, Zenon
  <2>3. CASE \E i \in DOMAIN seen : w.op \in {"post", "put"} /\ w.pol = PingPayload(seen[i])
    <3>1. PICK i \in DOMAIN seen : w.op \in {"post", "put"} /\ w.pol = PingPayload(seen[i])
      BY <2>3, Zenon
    <3>2. ~Due(order, w.pol)
      BY <1>1, <3>1, CompanionNotDue, Zenon DEF NoneDue
    <3>3. PICK x : after = With(seen, x, w.pol)
      BY <3>1, Zenon DEF Written
    <3> QED  BY <1>1, <3>2, <3>3, WithKeeps, NothingToAttach, Zenon
  <2>4. w.op = "delete" \/ \E i \in DOMAIN seen : w.op \in {"post", "put"}
                               /\ w.pol = PingPayload(seen[i])
    BY <2>1 DEF PingWrite, Posting, Putting, Deleting
  <2> QED  BY <2>2, <2>3, <2>4, Zenon
<1> QED  BY <1>2, <1>3, Zenon

-----------------------------------------------------------------------------
(* cleanup_ephemeral.py                                                    *)
LEMMA SweepStep ==
  ASSUME NEW seen, NEW w \in SweepWrites(seen)
  PROVE  SweepWrites(Less(seen, w.id)) = SweepWrites(seen) \ {w}
<1> DEFINE Sweeping(p) == [op |-> "sweep", id |-> p, pol |-> Nothing]
           after == Less(seen, w.id)
<1>1. PICK z \in DOMAIN seen : ShouldDelete(seen[z]) /\ w = Sweeping(z)
  BY Zenon DEF SweepWrites
<1>2. w.id = z /\ \A p : Sweeping(p) = w => p = z
  BY <1>1
<1>3. DOMAIN after = DOMAIN seen \ {z} /\ \A y \in DOMAIN seen : y # z => after[y] = seen[y]
  BY <1>2, LessIs, Zenon
<1>4. \A v : v \in SweepWrites(seen) <=> \E p \in DOMAIN seen : ShouldDelete(seen[p])
                                             /\ v = Sweeping(p)
  BY Zenon DEF SweepWrites
<1>5. \A v : v \in SweepWrites(after) <=> \E p \in DOMAIN after : ShouldDelete(after[p])
                                              /\ v = Sweeping(p)
  BY Zenon DEF SweepWrites
<1> HIDE DEF Sweeping, after
<1>6. ASSUME NEW v  PROVE v \in SweepWrites(after) <=> v \in SweepWrites(seen) \ {w}
  <2>1. ASSUME v \in SweepWrites(after)  PROVE v \in SweepWrites(seen) \ {w}
    <3>1. PICK p \in DOMAIN after : ShouldDelete(after[p]) /\ v = Sweeping(p)
      BY <1>5, <2>1, Zenon
    <3>2. p \in DOMAIN seen /\ p # z
      BY <1>3
    <3> QED  BY <1>2, <1>3, <1>4, <3>1, <3>2, Zenon
  <2>2. ASSUME v \in SweepWrites(seen), v # w  PROVE v \in SweepWrites(after)
    <3>1. PICK p \in DOMAIN seen : ShouldDelete(seen[p]) /\ v = Sweeping(p)
      BY <1>4, <2>2, Zenon
    <3>2. p # z
      BY <1>1, <2>2, <3>1, Zenon
    <3>3. p \in DOMAIN after
      BY <1>3, <3>2
    <3> QED  BY <1>3, <1>5, <3>1, <3>2, <3>3, Zenon
  <2> QED  BY <2>1, <2>2, Zenon
<1> QED  BY <1>6, Zenon DEF after

-----------------------------------------------------------------------------
(* When allow_ping.py has nothing to write, the companions mirror their    *)
(* originals.                                                              *)
Earlier == OpToRel(<, Nat)

LEMMA EarlierWellFounded == IsWellFoundedOn(Earlier, Nat)
  BY NatLessThanWellFounded, Zenon DEF OpToRel, Earlier

LEMMA FirstPlace ==
  ASSUME NEW pol, IsPolicy(pol), NEW m \in OtherRules(pol)
  PROVE  \E n \in Qualifying(pol) : EndpointKey(pol.rules[n]) = EndpointKey(pol.rules[m])
<1> DEFINE key(n) == EndpointKey(pol.rules[n])
           S == {n \in OtherRules(pol) : key(n) = key(m)}
<1>1. S \in SUBSET Nat /\ S # {}
  BY DEF IsPolicy, OtherRules
<1>2. PICK e \in S : \A x \in S : ~ (<<x, e>> \in Earlier)
  BY <1>1, EarlierWellFounded, WFMin, Zenon
<1>3. \A x \in S : ~ (x < e)
  BY <1>1, <1>2 DEF Earlier, OpToRel
<1>4. e \in OtherRules(pol) /\ key(e) = key(m)
  BY Zenon
<1>5. \A x \in OtherRules(pol) : x < e => key(x) # key(e)
  BY <1>3, <1>4, Zenon
<1>6. e \in Qualifying(pol)
  BY <1>4, <1>5, Zenon DEF Qualifying
<1> QED  BY <1>4, <1>6, Zenon

LEMMA PutRuleIs ==
  ASSUME NEW r, IsRule(r)
  PROVE  /\ PutRule(r) = [protocol |-> r.protocol, src |-> IF r.srcRef = Nothing THEN r.src ELSE {},
              srcRef |-> r.srcRef, dst |-> IF r.dstRef = Nothing THEN r.dst ELSE {},
              dstRef |-> r.dstRef, both |-> r.both, on |-> r.on]
         /\ MirrorRule(r) = [protocol |-> "icmp", src |-> IF r.srcRef = Nothing THEN r.src ELSE {},
              srcRef |-> r.srcRef, dst |-> IF r.dstRef = Nothing THEN r.dst ELSE {},
              dstRef |-> r.dstRef, both |-> r.both, on |-> TRUE]
         /\ MirrorRule(r).protocol = "icmp"
         /\ MirrorRule(r).src = IF r.srcRef = Nothing THEN r.src ELSE {}
         /\ MirrorRule(r).dst = IF r.dstRef = Nothing THEN r.dst ELSE {}
         /\ IsRule(PutRule(r)) /\ IsRule(MirrorRule(r))
<1> DEFINE protocol == r.protocol
           src == r.src
           srcRef == r.srcRef
           dst == r.dst
           dstRef == r.dstRef
           both == r.both
           on == r.on
           newSrc == IF r.srcRef = Nothing THEN r.src ELSE {}
           newDst == IF r.dstRef = Nothing THEN r.dst ELSE {}
           yes == TRUE
<1>1. r = [protocol |-> protocol, src |-> src, srcRef |-> srcRef, dst |-> dst, dstRef |-> dstRef,
           both |-> both, on |-> on]
  BY DEF IsRule
<1>2. PutRule(r) = [r EXCEPT !.src = newSrc, !.dst = newDst]
  BY Zenon DEF PutRule
<1>3. MirrorRule(r) = [PutRule(r) EXCEPT !.protocol = "icmp", !.on = yes]
  BY Zenon DEF MirrorRule
<1> HIDE DEF protocol, src, srcRef, dst, dstRef, both, on, newSrc, newDst, yes
<1>4. PutRule(r) = [protocol |-> protocol, src |-> newSrc, srcRef |-> srcRef, dst |-> newDst,
                    dstRef |-> dstRef, both |-> both, on |-> on]
  BY <1>1, <1>2
<1>5. MirrorRule(r) = [protocol |-> "icmp", src |-> newSrc, srcRef |-> srcRef, dst |-> newDst,
                       dstRef |-> dstRef, both |-> both, on |-> yes]
  <2> DEFINE put == PutRule(r)
  <2> HIDE DEF put
  <2>1. put = [protocol |-> protocol, src |-> newSrc, srcRef |-> srcRef, dst |-> newDst,
               dstRef |-> dstRef, both |-> both, on |-> on]
    BY <1>4 DEF put
  <2>2. MirrorRule(r) = [put EXCEPT !.protocol = "icmp", !.on = yes]
    BY <1>3, Zenon DEF put
  <2> QED  BY ONLY <2>1, <2>2
<1>6. IsRule(PutRule(r)) /\ IsRule(MirrorRule(r))
  BY <1>4, <1>5 DEF IsRule
<1>7. MirrorRule(r).protocol = "icmp" /\ MirrorRule(r).src = newSrc /\ MirrorRule(r).dst = newDst
  BY <1>5
<1> QED  BY <1>4, <1>5, <1>6, <1>7, Zenon
  DEF protocol, src, srcRef, dst, dstRef, both, on, newSrc, newDst, yes

LEMMA MirrorEnds ==
  ASSUME NEW r, IsRule(r), r.srcRef = Nothing, r.dstRef = Nothing
  PROVE  MirrorRule(r).protocol = "icmp" /\ MirrorRule(r).src = r.src /\ MirrorRule(r).dst = r.dst
  BY PutRuleIs, Zenon

RuleSignatures(pol) == {RuleSignature(pol.rules[n]) : n \in DOMAIN pol.rules}

LEMMA SameParts ==
  ASSUME NEW a, NEW b, NEW c, NEW d, NEW v, NEW w, NEW x, NEW y, <<a, b, c, d>> = <<v, w, x, y>>
  PROVE  a = v /\ b = w /\ c = x /\ d = y
  OBVIOUS

LEMMA SameSignature ==
  ASSUME NEW a, NEW b, Signature(a) = Signature(b)
  PROVE  a.on = b.on /\ a.checks = b.checks /\ RuleSignatures(a) = RuleSignatures(b)
<1> DEFINE F(pol) ==
             [sig \in RuleSignatures(pol) |->
                Cardinality({n \in DOMAIN pol.rules : RuleSignature(pol.rules[n]) = sig})]
<1>1. /\ Signature(a) = <<a.on, a.marks, a.checks, F(a)>>
      /\ Signature(b) = <<b.on, b.marks, b.checks, F(b)>>
  BY DEF Signature, RuleSignatures
<1>2. DOMAIN F(a) = RuleSignatures(a) /\ DOMAIN F(b) = RuleSignatures(b)
  OBVIOUS
<1> HIDE DEF F
<1>3. a.on = b.on /\ a.checks = b.checks /\ F(a) = F(b)
  <2>1. <<a.on, a.marks, a.checks, F(a)>> = <<b.on, b.marks, b.checks, F(b)>>
    BY <1>1, Zenon
  <2> QED  BY <2>1, SameParts, Zenon
<1> QED  BY <1>2, <1>3, Zenon

Indirect(pol) ==
  \A n \in DOMAIN pol.rules : pol.rules[n].srcRef = Nothing /\ pol.rules[n].dstRef = Nothing

LEMMA DriftlessMirrors ==
  ASSUME NEW z, NEW o, IsPolicy(o), Indirect(z), Indirect(o), z.name = o.name,
         Signature(z) = Signature(PingPayload(o))
  PROVE  Mirrors(z, o)
<1> DEFINE P == PingPayload(o)
<1>1. z.on = o.on /\ z.checks = o.checks /\ RuleSignatures(z) = RuleSignatures(P)
  BY SameSignature, PayloadIs, Zenon
<1>2. ASSUME NEW n \in Qualifying(o)
      PROVE  /\ n \in DOMAIN P.rules /\ n \in OtherRules(o)
             /\ P.rules[n] = MirrorRule(o.rules[n])
             /\ P.rules[n].protocol = "icmp" /\ P.rules[n].src = o.rules[n].src
             /\ P.rules[n].dst = o.rules[n].dst
  <2>1. n \in OtherRules(o) /\ n \in DOMAIN o.rules
    BY DEF Qualifying, OtherRules
  <2>2. n \in DOMAIN P.rules /\ P.rules[n] = MirrorRule(o.rules[n])
    <3>1. P.rules = [k \in Qualifying(o) |-> MirrorRule(o.rules[k])]
      BY PayloadIs, Zenon
    <3> QED  BY <3>1, Zenon
  <2>3. IsRule(o.rules[n]) /\ o.rules[n].srcRef = Nothing /\ o.rules[n].dstRef = Nothing
    BY <2>1, Zenon DEF IsPolicy, Indirect
  <2>4. /\ MirrorRule(o.rules[n]).protocol = "icmp" /\ MirrorRule(o.rules[n]).src = o.rules[n].src
        /\ MirrorRule(o.rules[n]).dst = o.rules[n].dst
    BY <2>3, MirrorEnds, Zenon
  <2> QED  BY <2>1, <2>2, <2>4, Zenon
<1>3. DOMAIN P.rules = Qualifying(o)
  <2>1. P.rules = [k \in Qualifying(o) |-> MirrorRule(o.rules[k])]
    BY PayloadIs, Zenon
  <2> QED  BY <2>1, Zenon
<1> HIDE DEF P
<1>4. ASSUME NEW r, NEW s, RuleSignature(r) = RuleSignature(s)
      PROVE  r.protocol = s.protocol /\ r.src = s.src /\ r.dst = s.dst
  BY <1>4 DEF RuleSignature
<1>5. ASSUME NEW n \in DOMAIN z.rules
      PROVE  /\ EndpointKey(z.rules[n]) = <<z.rules[n].src, z.rules[n].dst>>
             /\ RuleSignature(z.rules[n]) \in RuleSignatures(P)
  <2>1. RuleSignature(z.rules[n]) \in RuleSignatures(z)
    BY Zenon DEF RuleSignatures
  <2>2. z.rules[n].srcRef = Nothing /\ z.rules[n].dstRef = Nothing
    BY Zenon DEF Indirect
  <2> QED  BY <1>1, <2>1, <2>2, Zenon DEF EndpointKey
<1>6. ASSUME NEW n \in OtherRules(o)
      PROVE  EndpointKey(o.rules[n]) = <<o.rules[n].src, o.rules[n].dst>>
  <2>1. n \in DOMAIN o.rules
    BY DEF OtherRules
  <2>2. o.rules[n].srcRef = Nothing /\ o.rules[n].dstRef = Nothing
    BY <2>1, Zenon DEF Indirect
  <2> QED  BY <2>2, Zenon DEF EndpointKey
<1>7. ASSUME NEW n \in DOMAIN z.rules
      PROVE  /\ z.rules[n].protocol = "icmp"
             /\ \E m \in OtherRules(o) : EndpointKey(o.rules[m]) = EndpointKey(z.rules[n])
  <2>1. PICK m \in DOMAIN P.rules : RuleSignature(z.rules[n]) = RuleSignature(P.rules[m])
    BY <1>5, Zenon DEF RuleSignatures
  <2>2. m \in Qualifying(o)
    BY <1>3, Zenon
  <2>3. /\ z.rules[n].protocol = P.rules[m].protocol /\ z.rules[n].src = P.rules[m].src
        /\ z.rules[n].dst = P.rules[m].dst
    BY <1>4, <2>1, Zenon
  <2>4. EndpointKey(z.rules[n]) = <<o.rules[m].src, o.rules[m].dst>>
    BY <1>2, <1>5, <2>2, <2>3, Zenon
  <2>5. m \in OtherRules(o) /\ EndpointKey(o.rules[m]) = <<o.rules[m].src, o.rules[m].dst>>
    BY <1>2, <1>6, <2>2, Zenon
  <2>6. z.rules[n].protocol = "icmp"
    BY <1>2, <2>2, <2>3, Zenon
  <2> QED  BY <2>4, <2>5, <2>6, Zenon
<1>8. ASSUME NEW m \in OtherRules(o)
      PROVE  \E n \in DOMAIN z.rules : EndpointKey(z.rules[n]) = EndpointKey(o.rules[m])
  <2>1. PICK k \in Qualifying(o) : EndpointKey(o.rules[k]) = EndpointKey(o.rules[m])
    BY FirstPlace, Zenon
  <2>2. RuleSignature(P.rules[k]) \in RuleSignatures(z)
    BY <1>1, <1>2, Zenon DEF RuleSignatures
  <2>3. PICK n \in DOMAIN z.rules : RuleSignature(P.rules[k]) = RuleSignature(z.rules[n])
    BY <2>2, Zenon DEF RuleSignatures
  <2>4. P.rules[k].src = z.rules[n].src /\ P.rules[k].dst = z.rules[n].dst
    BY <1>4, <2>3, Zenon
  <2>5. EndpointKey(z.rules[n]) = <<o.rules[k].src, o.rules[k].dst>>
    BY <1>2, <1>5, <2>1, <2>4, Zenon
  <2>6. EndpointKey(o.rules[k]) = <<o.rules[k].src, o.rules[k].dst>>
    BY <1>2, <1>6, <2>1, Zenon
  <2> QED  BY <2>1, <2>5, <2>6, Zenon
<1>9. {EndpointKey(z.rules[n]) : n \in DOMAIN z.rules}
        = {EndpointKey(o.rules[n]) : n \in OtherRules(o)}
  <2>1. ASSUME NEW n \in DOMAIN z.rules
        PROVE  EndpointKey(z.rules[n]) \in {EndpointKey(o.rules[m]) : m \in OtherRules(o)}
    BY <1>7, Zenon
  <2>2. ASSUME NEW m \in OtherRules(o)
        PROVE  EndpointKey(o.rules[m]) \in {EndpointKey(z.rules[n]) : n \in DOMAIN z.rules}
    BY <1>8, Zenon
  <2> QED  BY <2>1, <2>2, Zenon
<1> QED  BY <1>1, <1>7, <1>9, Zenon DEF Mirrors

LEMMA NothingToPing ==
  ASSUME ArePolicies(pols), OneEach(pols), NoDirect, PingWrites(pols) = {}
  PROVE  Mirrored
<1>1. HasComps(pols)
  BY DEF ArePolicies, IsPolicy, HasComps
<1>2. \A w : ~PingWrite(pols, w)
  BY <1>1, PingWritesAre, Zenon
<1>3. \A i, j \in DOMAIN pols : ~Lacks(pols, i) /\ ~Stray(pols, j) /\ ~Drifts(pols, i, j)
  BY <1>2, Zenon DEF PingWrite
<1>4. ASSUME NEW i \in DOMAIN pols
      PROVE  IsPolicy(pols[i]) /\ Indirect(pols[i])
  BY Zenon DEF ArePolicies, NoDirect, Indirect
<1>5. ASSUME NEW i \in DOMAIN pols
      PROVE  Wants(pols[i]) <=> ("PING_IGNORE" \notin pols[i].marks /\ OtherRules(pols[i]) # {})
  <2>1. Qualifying(pols[i]) # {} <=> OtherRules(pols[i]) # {}
    <3>1. Qualifying(pols[i]) \subseteq OtherRules(pols[i])
      BY DEF Qualifying
    <3>2. ASSUME NEW m \in OtherRules(pols[i])  PROVE Qualifying(pols[i]) # {}
      BY <1>4, FirstPlace, Zenon
    <3> QED  BY <3>1, <3>2
  <2> QED  BY <2>1, Zenon DEF Wants, SkipsPing
<1>6. ASSUME NEW i \in DOMAIN pols, NEW j \in DOMAIN pols, Twins(pols, i, j), Wants(pols[i])
      PROVE  Mirrors(pols[j], pols[i])
  <2>1. Signature(pols[j]) = Signature(PingPayload(pols[i]))
    BY <1>3, <1>6, Zenon DEF Drifts
  <2>2. pols[j].name = pols[i].name
    BY <1>6, Zenon DEF Twins
  <2> QED  BY <1>4, <2>1, <2>2, DriftlessMirrors, Zenon
<1>7. ASSUME NEW i \in Originals, Wants(pols[i])
      PROVE  \E j \in DOMAIN pols : pols[j].comp /\ Mirrors(pols[j], pols[i])
  <2>1. i \in DOMAIN pols /\ ~pols[i].comp
    BY Zenon DEF Originals
  <2>2. PICK j \in DOMAIN pols : Twins(pols, i, j)
    BY <1>3, <1>7, <2>1, Zenon DEF Lacks
  <2>3. Mirrors(pols[j], pols[i])
    BY <1>6, <1>7, <2>1, <2>2, Zenon
  <2> QED  BY <2>2, <2>3, Zenon DEF Twins
<1>8. ASSUME NEW j \in DOMAIN pols \ Originals
      PROVE  \E i \in Originals : Wants(pols[i]) /\ Mirrors(pols[j], pols[i])
  <2>1. j \in DOMAIN pols /\ pols[j].comp
    BY Zenon DEF Originals
  <2>2. PICK i \in DOMAIN pols : Twins(pols, i, j) /\ Wants(pols[i])
    BY <1>3, <2>1, Zenon DEF Stray
  <2>3. i \in Originals
    BY <2>2, Zenon DEF Originals, Twins
  <2> QED  BY <1>6, <2>1, <2>2, <2>3, Zenon
<1>9. \A i \in Originals : i \in DOMAIN pols
  BY Zenon DEF Originals
<1> QED  BY <1>5, <1>7, <1>8, <1>9, Zenon DEF Mirrored

-----------------------------------------------------------------------------
(* The steps of a run: each at most once, the check before the companions, *)
(* the peers last.                                                         *)
AllSteps == {"posture", "ping", "remove", "sweep"}

Precedes(s, t) ==
  \/ s = "posture" /\ t \in {"ping", "remove", "sweep"}
  \/ s \in {"ping", "remove"} /\ t = "sweep"

Elements(seq) == {seq[n] : n \in DOMAIN seq}

Ordered(seq) == \A i, j \in DOMAIN seq : i < j => Precedes(seq[i], seq[j])

LEMMA ConcatOrdered ==
  ASSUME NEW a \in Seq(AllSteps), NEW b \in Seq(AllSteps), Ordered(a), Ordered(b),
         \A s \in Elements(a), t \in Elements(b) : Precedes(s, t)
  PROVE  /\ a \o b \in Seq(AllSteps) /\ Ordered(a \o b)
         /\ Elements(a \o b) = Elements(a) \cup Elements(b)
<1> DEFINE c == a \o b
<1>1. /\ Len(a) \in Nat /\ DOMAIN a = 1..Len(a)
      /\ Len(b) \in Nat /\ DOMAIN b = 1..Len(b)
  BY LenProperties
<1>2. /\ c \in Seq(AllSteps) /\ DOMAIN c = 1..(Len(a) + Len(b))
      /\ \A i \in DOMAIN c : c[i] = IF i <= Len(a) THEN a[i] ELSE b[i - Len(a)]
  <2>1. /\ c \in Seq(AllSteps) /\ Len(c) = Len(a) + Len(b)
        /\ \A i \in 1..(Len(a) + Len(b)) : c[i] = IF i <= Len(a) THEN a[i] ELSE b[i - Len(a)]
    BY ConcatProperties
  <2> HIDE DEF c
  <2>2. DOMAIN c = 1..Len(c)
    BY <2>1, LenProperties
  <2> QED  BY <2>1, <2>2, Zenon
<1> HIDE DEF c
<1>3. \A i \in DOMAIN c : (i \in DOMAIN a /\ c[i] = a[i])
        \/ (i - Len(a) \in DOMAIN b /\ c[i] = b[i - Len(a)])
  BY <1>1, <1>2
<1>4. ASSUME NEW i \in DOMAIN c, NEW j \in DOMAIN c, i < j  PROVE Precedes(c[i], c[j])
  <2>1. CASE j <= Len(a)
    <3>1. i \in DOMAIN a /\ j \in DOMAIN a /\ c[i] = a[i] /\ c[j] = a[j]
      BY <1>1, <1>2, <1>4, <2>1
    <3> QED  BY <1>4, <3>1, Zenon DEF Ordered
  <2>2. CASE ~ (j <= Len(a)) /\ i <= Len(a)
    <3>1. i \in DOMAIN a /\ j - Len(a) \in DOMAIN b /\ c[i] = a[i] /\ c[j] = b[j - Len(a)]
      BY <1>1, <1>2, <1>4, <2>2
    <3> QED  BY <3>1, Zenon DEF Elements
  <2>3. CASE ~ (i <= Len(a))
    <3> DEFINE m == i - Len(a)
               n == j - Len(a)
    <3>1. m \in DOMAIN b /\ n \in DOMAIN b /\ c[i] = b[m] /\ c[j] = b[n] /\ m < n
      BY <1>1, <1>2, <1>4, <2>3
    <3> QED  BY <3>1, Zenon DEF Ordered
  <2> QED  BY <1>1, <1>2, <2>1, <2>2, <2>3
<1>5. Elements(c) = Elements(a) \cup Elements(b)
  <2>1. Elements(c) \subseteq Elements(a) \cup Elements(b)
    BY <1>3, Zenon DEF Elements
  <2>2. ASSUME NEW i \in DOMAIN a  PROVE a[i] \in Elements(c)
    <3>1. i \in DOMAIN c /\ c[i] = a[i]
      BY <1>1, <1>2
    <3> QED  BY <3>1, Zenon DEF Elements
  <2>3. ASSUME NEW i \in DOMAIN b  PROVE b[i] \in Elements(c)
    <3>1. i + Len(a) \in DOMAIN c /\ c[i + Len(a)] = b[i]
      BY <1>1, <1>2
    <3> QED  BY <3>1, Zenon DEF Elements
  <2> QED  BY <2>1, <2>2, <2>3, Zenon DEF Elements
<1> QED  BY <1>2, <1>4, <1>5, Zenon DEF c, Ordered

LEMMA ShortOrdered ==
  /\ <<>> \in Seq(AllSteps) /\ Ordered(<<>>) /\ Elements(<<>>) = {}
  /\ \A s \in AllSteps : <<s>> \in Seq(AllSteps) /\ Ordered(<<s>>) /\ Elements(<<s>>) = {s}
  BY DEF Ordered, Elements

LEMMA StepsAre ==
  ASSUME NEW order, IsOrder(order)
  PROVE  /\ StepsOf(order) \in Seq(AllSteps) /\ Ordered(StepsOf(order))
         /\ order.ping = "ping" => "ping" \in Elements(StepsOf(order))
<1> DEFINE posture == IF order.posture = "none" THEN <<>> ELSE <<"posture">>
           ping == IF order.ping = "none" THEN <<>> ELSE <<order.ping>>
           sweep == IF order.sweep THEN <<"sweep">> ELSE <<>>
<1>1. StepsOf(order) = (posture \o ping) \o sweep
  BY Zenon DEF StepsOf
<1>2. posture \in Seq(AllSteps) /\ Ordered(posture) /\ Elements(posture) \subseteq {"posture"}
  <2>1. "posture" \in AllSteps
    BY DEF AllSteps
  <2> QED  BY <2>1, ShortOrdered, Zenon
<1>3. /\ ping \in Seq(AllSteps) /\ Ordered(ping) /\ Elements(ping) \subseteq {"ping", "remove"}
      /\ order.ping = "ping" => "ping" \in Elements(ping)
  <2>1. "ping" \in AllSteps /\ "remove" \in AllSteps /\ "ping" # "none"
    BY DEF AllSteps
  <2>2. order.ping \in {"none", "ping", "remove"}
    BY Zenon DEF IsOrder
  <2> QED  BY <2>1, <2>2, ShortOrdered, Zenon
<1>4. sweep \in Seq(AllSteps) /\ Ordered(sweep) /\ Elements(sweep) \subseteq {"sweep"}
  <2>1. "sweep" \in AllSteps
    BY DEF AllSteps
  <2> QED  BY <2>1, ShortOrdered, Zenon
<1> HIDE DEF posture, ping, sweep
<1>5. /\ posture \o ping \in Seq(AllSteps) /\ Ordered(posture \o ping)
      /\ Elements(posture \o ping) = Elements(posture) \cup Elements(ping)
  <2>1. \A s \in Elements(posture), t \in Elements(ping) : Precedes(s, t)
    BY <1>2, <1>3 DEF Precedes
  <2> QED  BY <1>2, <1>3, <2>1, ConcatOrdered, Zenon
<1> DEFINE both == posture \o ping
<1> HIDE DEF both
<1>6. /\ both \o sweep \in Seq(AllSteps) /\ Ordered(both \o sweep)
      /\ Elements(both \o sweep) = Elements(both) \cup Elements(sweep)
  <2>1. \A s \in Elements(both), t \in Elements(sweep) : Precedes(s, t)
    <3>1. Elements(both) \subseteq {"posture", "ping", "remove"}
      BY <1>2, <1>3, <1>5, Zenon DEF both
    <3> QED  BY <1>4, <3>1 DEF Precedes
  <2> QED  BY <1>4, <1>5, <2>1, ConcatOrdered, Zenon DEF both
<1> QED  BY <1>1, <1>3, <1>5, <1>6, Zenon DEF both

LEMMA TailOrdered ==
  ASSUME NEW seq \in Seq(AllSteps), seq # <<>>, Ordered(seq)
  PROVE  /\ Head(seq) \in AllSteps /\ Tail(seq) \in Seq(AllSteps) /\ Ordered(Tail(seq))
         /\ Elements(seq) = {Head(seq)} \cup Elements(Tail(seq))
         /\ \A s \in Elements(Tail(seq)) : Precedes(Head(seq), s)
<1> DEFINE tail == Tail(seq)
           head == Head(seq)
<1>1. /\ head \in AllSteps /\ tail \in Seq(AllSteps) /\ Len(tail) = Len(seq) - 1
      /\ \A i \in 1..Len(tail) : tail[i] = seq[i + 1]
  BY HeadTailProperties
<1>2. Len(seq) \in Nat \ {0} /\ DOMAIN seq = 1..Len(seq) /\ head = seq[1]
  BY EmptySeq, LenProperties
<1> HIDE DEF tail, head
<1>3. DOMAIN tail = 1..Len(tail)
  BY <1>1, LenProperties
<1>4. \A i \in DOMAIN tail : i + 1 \in DOMAIN seq /\ 1 < i + 1 /\ tail[i] = seq[i + 1]
  BY <1>1, <1>2, <1>3
<1>5. 1 \in DOMAIN seq
      /\ \A j \in DOMAIN seq : j = 1 \/ (j - 1 \in DOMAIN tail /\ tail[j - 1] = seq[j])
  BY <1>1, <1>2, <1>3
<1>6. ASSUME NEW i \in DOMAIN tail, NEW j \in DOMAIN tail, i < j  PROVE Precedes(tail[i], tail[j])
  <2> DEFINE m == i + 1
             n == j + 1
  <2>1. m \in DOMAIN seq /\ n \in DOMAIN seq /\ m < n /\ tail[i] = seq[m] /\ tail[j] = seq[n]
    BY <1>1, <1>2, <1>3, <1>4, <1>6
  <2> QED  BY <2>1, Zenon DEF Ordered
<1>7. ASSUME NEW i \in DOMAIN tail  PROVE Precedes(head, tail[i])
  <2> DEFINE m == i + 1
  <2>1. m \in DOMAIN seq /\ 1 < m /\ tail[i] = seq[m]
    BY <1>4
  <2> QED  BY <1>2, <1>5, <2>1, Zenon DEF Ordered
<1>8. Elements(seq) = {head} \cup Elements(tail)
  <2>1. ASSUME NEW j \in DOMAIN seq  PROVE seq[j] \in {head} \cup Elements(tail)
    BY <1>2, <1>5, Zenon DEF Elements
  <2>2. ASSUME NEW i \in DOMAIN tail  PROVE tail[i] \in Elements(seq)
    BY <1>4, Zenon DEF Elements
  <2>3. head \in Elements(seq)
    BY <1>2, <1>5, Zenon DEF Elements
  <2> QED  BY <2>1, <2>2, <2>3, Zenon DEF Elements
<1> QED  BY <1>1, <1>6, <1>7, <1>8, Zenon DEF Ordered, Elements, tail, head

-----------------------------------------------------------------------------
(* A write that the account accepts takes itself off what its step is      *)
(* about to write, and leaves the steps before with nothing to write.      *)
WritesOf(order, step, p, d) ==
  CASE step = "posture" -> AttachWrites(order, p)
    [] step = "ping" -> PingWrites(p)
    [] step = "remove" -> RemoveWrites(p)
    [] step = "sweep" -> SweepWrites(d)

LEMMA WritesIs ==
  ASSUME NEW order, NEW p, NEW d
  PROVE  /\ WritesOf(order, "posture", p, d) = AttachWrites(order, p)
         /\ WritesOf(order, "ping", p, d) = PingWrites(p)
         /\ WritesOf(order, "remove", p, d) = RemoveWrites(p)
         /\ WritesOf(order, "sweep", p, d) = SweepWrites(d)
  BY DEF WritesOf

LEMMA PingOps ==
  ASSUME NEW seen, NEW w \in PingWrites(seen)
  PROVE  /\ w.op \in {"post", "put", "delete"}
         /\ w.op # "delete" => \E i \in DOMAIN seen : w.pol = PingPayload(seen[i])
<1>1. CASE w \in Creations(seen)
  <2>1. PICK i \in DOMAIN seen : w = [op |-> "post", id |-> i, pol |-> PingPayload(seen[i])]
    BY <1>1 DEF Creations
  <2> QED  BY <2>1
<1>2. ASSUME NEW n \in DOMAIN Named(seen, TRUE), w \in CompanionWrites(seen, n)
      PROVE  /\ w.op \in {"post", "put", "delete"}
             /\ w.op # "delete" => \E i \in DOMAIN seen : w.pol = PingPayload(seen[i])
  <2> DEFINE id == Named(seen, TRUE)[n]
             o == Named(seen, FALSE)[n]
  <2>1. \/ w = [op |-> "delete", id |-> id, pol |-> seen[id]]
        \/ /\ n \in DOMAIN Named(seen, FALSE)
           /\ w = [op |-> "put", id |-> id, pol |-> PingPayload(seen[o])]
    BY <1>2 DEF CompanionWrites
  <2>2. n \in DOMAIN Named(seen, FALSE) => o \in DOMAIN seen
    BY OriginalNamed, Zenon
  <2>3. CASE w = [op |-> "delete", id |-> id, pol |-> seen[id]]
    BY <2>3
  <2>4. CASE /\ n \in DOMAIN Named(seen, FALSE)
             /\ w = [op |-> "put", id |-> id, pol |-> PingPayload(seen[o])]
    <3>1. w.op = "put" /\ w.pol = PingPayload(seen[o])
      BY <2>4
    <3> QED  BY <2>2, <2>4, <3>1
  <2> QED  BY <2>1, <2>3, <2>4
<1> QED  BY <1>1, <1>2 DEF PingWrites

LEMMA OpsAre ==
  ASSUME NEW order, NEW p, NEW d, NEW step \in AllSteps, NEW w \in WritesOf(order, step, p, d)
  PROVE  w.op \in {"post", "put", "delete", "sweep"} /\ (w.op = "sweep" <=> step = "sweep")
<1>1. CASE step = "posture"
  <2>1. AttachWrite(order, p, w)
    BY <1>1, WritesIs, AttachWritesAre
  <2>2. w.op = "put"
    BY <2>1 DEF AttachWrite, Attaching
  <2> QED  BY <1>1, <2>2
<1>2. CASE step = "ping"
  <2>1. w \in PingWrites(p)
    BY <1>2, WritesIs, Zenon
  <2>2. w.op \in {"post", "put", "delete"}
    BY <2>1, PingOps, Zenon
  <2> QED  BY <1>2, <2>2
<1>3. CASE step = "remove"
  <2>1. w \in RemoveWrites(p)
    BY <1>3, WritesIs
  <2>2. w.op = "delete"
    BY <2>1 DEF RemoveWrites
  <2> QED  BY <1>3, <2>2
<1>4. CASE step = "sweep"
  <2>1. w \in SweepWrites(d)
    BY <1>4, WritesIs
  <2>2. w.op = "sweep"
    BY <2>1 DEF SweepWrites
  <2> QED  BY <1>4, <2>2
<1> QED  BY <1>1, <1>2, <1>3, <1>4 DEF AllSteps

(* A run makes no second policy of a name.                                 *)
LEMMA SameNames ==
  ASSUME NEW seen, NEW after, OneEach(seen), DOMAIN after \subseteq DOMAIN seen,
         \A y \in DOMAIN after : after[y].name = seen[y].name /\ after[y].comp = seen[y].comp
  PROVE  OneEach(after)
<1>1. ASSUME NEW a \in DOMAIN after, NEW b \in DOMAIN after,
             after[a].name = after[b].name, after[a].comp = after[b].comp
      PROVE  a = b
  BY <1>1, Zenon DEF OneEach
<1> QED  BY <1>1, Zenon DEF OneEach

LEMMA PutNames ==
  ASSUME NEW seen, NEW id \in DOMAIN seen, NEW pol, OneEach(seen),
         pol.name = seen[id].name, pol.comp = seen[id].comp
  PROVE  OneEach(With(seen, id, pol))
<1> DEFINE after == With(seen, id, pol)
<1>1. /\ DOMAIN after = DOMAIN seen
      /\ \A y \in DOMAIN after : after[y] = IF y = id THEN pol ELSE seen[y]
  BY DEF With
<1> HIDE DEF after
<1>2. \A y \in DOMAIN after : after[y].name = seen[y].name /\ after[y].comp = seen[y].comp
  BY <1>1, Zenon
<1>3. DOMAIN after \subseteq DOMAIN seen
  BY <1>1
<1> QED  BY <1>2, <1>3, SameNames, Zenon DEF after

LEMMA LessNames ==
  ASSUME NEW seen, NEW id, OneEach(seen)
  PROVE  OneEach(Less(seen, id))
<1> DEFINE after == Less(seen, id)
<1>1. DOMAIN after \subseteq DOMAIN seen /\ \A y \in DOMAIN after : after[y] = seen[y]
  BY DEF Less
<1> HIDE DEF after
<1>2. \A y \in DOMAIN after : after[y].name = seen[y].name /\ after[y].comp = seen[y].comp
  BY <1>1, Zenon
<1> QED  BY <1>1, <1>2, SameNames, Zenon DEF after

LEMMA PostNames ==
  ASSUME NEW seen, NEW i, Lacks(seen, i), NEW f, f \notin DOMAIN seen, NEW pol,
         OneEach(seen), HasComps(seen), pol.name = seen[i].name, pol.comp = TRUE
  PROVE  OneEach(With(seen, f, pol))
<1> DEFINE after == With(seen, f, pol)
<1>1. \A y \in DOMAIN after :
        /\ y = f => after[y] = pol
        /\ y # f => y \in DOMAIN seen /\ after[y] = seen[y]
  BY DEF With
<1> HIDE DEF after
<1>2. \A j \in DOMAIN seen : ~(seen[j].comp = TRUE /\ seen[j].name = pol.name)
  BY Zenon DEF Lacks, Twins
<1>3. ASSUME NEW a \in DOMAIN after, NEW b \in DOMAIN after,
             after[a].name = after[b].name, after[a].comp = after[b].comp
      PROVE  a = b
  <2>1. CASE a = f /\ b # f
    BY <1>1, <1>2, <1>3, <2>1, Zenon
  <2>2. CASE a # f /\ b = f
    BY <1>1, <1>2, <1>3, <2>2, Zenon
  <2>3. CASE a # f /\ b # f
    BY <1>1, <1>3, <2>3, Zenon DEF OneEach
  <2> QED  BY <2>1, <2>2, <2>3, Zenon
<1>4. OneEach(after)
  BY <1>3, Zenon DEF OneEach
<1> QED  BY <1>4, Zenon DEF after

LEMMA NamesStay ==
  ASSUME NEW order, NEW p, NEW d, NEW step \in AllSteps, NEW w \in WritesOf(order, step, p, d),
         NEW after, Written(p, w, after), ArePolicies(p), OneEach(p)
  PROVE  OneEach(after)
<1>1. HasComps(p)
  BY DEF HasComps, ArePolicies, IsPolicy
<1>2. \A i \in DOMAIN p : IsPolicy(p[i])
  BY Zenon DEF ArePolicies
<1>3. CASE step = "posture"
  <2>1. AttachWrite(order, p, w)
    BY <1>3, WritesIs, AttachWritesAre
  <2>2. PICK i \in DOMAIN p : w = Attaching(order, p, i)
    BY <2>1, Zenon DEF AttachWrite
  <2>3. w.op = "put" /\ w.id = i /\ w.pol = Body(order, p[i])
    BY <2>2 DEF Attaching
  <2>4. after = With(p, i, Body(order, p[i]))
    BY <2>3, Zenon DEF Written
  <2>5. Body(order, p[i]).name = p[i].name /\ Body(order, p[i]).comp = p[i].comp
    BY <1>2, BodyNamed, Zenon
  <2> QED  BY <2>4, <2>5, PutNames, Zenon
<1>4. CASE step = "ping"
  <2>1. PingWrite(p, w)
    BY <1>1, <1>4, WritesIs, PingWritesAre, Zenon
  <2>2. ASSUME NEW i \in DOMAIN p, Lacks(p, i), w = Posting(p, i)  PROVE OneEach(after)
    <3>1. w.op = "post" /\ w.pol = PingPayload(p[i])
      BY <2>2 DEF Posting
    <3>2. PICK f : f \notin DOMAIN p /\ after = With(p, f, PingPayload(p[i]))
      BY <3>1 DEF Written
    <3>3. PingPayload(p[i]).name = p[i].name /\ PingPayload(p[i]).comp = TRUE
      BY PayloadIs, Zenon
    <3> QED  BY <1>1, <2>2, <3>2, <3>3, PostNames, Zenon
  <2>3. ASSUME NEW j \in DOMAIN p, w = Deleting(p, j)  PROVE OneEach(after)
    <3>1. w.op = "delete"
      BY <2>3 DEF Deleting
    <3>2. after = Less(p, w.id)
      BY <3>1, Zenon DEF Written
    <3> QED  BY <3>2, LessNames, Zenon
  <2>4. ASSUME NEW i \in DOMAIN p, NEW j \in DOMAIN p, Drifts(p, i, j), w = Putting(p, i, j)
        PROVE  OneEach(after)
    <3>1. w.op = "put" /\ w.id = j /\ w.pol = PingPayload(p[i])
      BY <2>4 DEF Putting
    <3>2. after = With(p, j, PingPayload(p[i]))
      BY <3>1, Zenon DEF Written
    <3>3. PingPayload(p[i]).name = p[j].name /\ PingPayload(p[i]).comp = p[j].comp
      BY <1>1, <2>4, PayloadIs, Zenon DEF Drifts, Twins, HasComps
    <3> QED  BY <3>2, <3>3, PutNames, Zenon
  <2> QED  BY <2>1, <2>2, <2>3, <2>4, Zenon DEF PingWrite
<1>5. CASE step = "remove"
  <2>1. w.op = "delete"
    BY <1>5, WritesIs DEF RemoveWrites
  <2>2. after = Less(p, w.id)
    BY <2>1, Zenon DEF Written
  <2> QED  BY <2>2, LessNames, Zenon
<1>6. CASE step = "sweep"
  <2>1. w.op = "sweep"
    BY <1>6, OpsAre, Zenon
  <2> QED  BY <2>1, Zenon DEF Written
<1> QED  BY <1>3, <1>4, <1>5, <1>6 DEF AllSteps

LEMMA StepKeeps ==
  ASSUME NEW order, NEW p, NEW d, NEW step \in AllSteps, NEW w \in WritesOf(order, step, p, d),
         NEW after, Written(p, w, after), NEW left,
         left = IF w.op = "sweep" THEN Less(d, w.id) ELSE d,
         ArePolicies(p), OneEach(p), ArePolicies(after), OneEach(after), NamesNoCompanion(order)
  PROVE  /\ WritesOf(order, step, after, left) = WritesOf(order, step, p, d) \ {w}
         /\ \A s \in AllSteps : (Precedes(s, step) /\ WritesOf(order, s, p, d) = {}) =>
                                  WritesOf(order, s, after, left) = {}
<1>1. HasComps(p) /\ HasComps(after)
  BY DEF HasComps, ArePolicies, IsPolicy
<1>2. \A i \in DOMAIN p : IsPolicy(p[i])
  BY Zenon DEF ArePolicies
<1>3. w.op = "sweep" <=> step = "sweep"
  BY OpsAre, Zenon
<1>4. CASE step = "posture"
  <2>1. WritesOf(order, step, after, left) = WritesOf(order, step, p, d) \ {w}
    <3>1. w \in AttachWrites(order, p)
      BY <1>4, WritesIs, Zenon
    <3>2. AttachWrites(order, after) = AttachWrites(order, p) \ {w}
      BY <1>2, <3>1, PostureStep
    <3> QED  BY <1>4, <3>2, WritesIs, Zenon
  <2>2. \A s \in AllSteps : ~Precedes(s, step)
    BY <1>4 DEF Precedes, AllSteps
  <2> QED  BY <2>1, <2>2, Zenon
<1>5. CASE step \in {"ping", "remove"}
  <2>1. w \in PingWrites(p) \cup RemoveWrites(p)
    BY <1>5, WritesIs
  <2>2. WritesOf(order, step, after, left) = WritesOf(order, step, p, d) \ {w}
    <3>1. CASE step = "ping"
      <4>1. w \in PingWrites(p)
        BY <3>1, WritesIs, Zenon
      <4>2. PingWrites(after) = PingWrites(p) \ {w}
        BY <1>1, <4>1, PingStep, Zenon
      <4> QED  BY <3>1, <4>2, WritesIs
    <3>2. CASE step = "remove"
      <4>1. w \in RemoveWrites(p)
        BY <3>2, WritesIs, Zenon
      <4>2. RemoveWrites(after) = RemoveWrites(p) \ {w}
        BY <4>1, RemoveStep, Zenon
      <4> QED  BY <3>2, <4>2, WritesIs
    <3> QED  BY <1>5, <3>1, <3>2
  <2>3. \A s \in AllSteps : Precedes(s, step) => s = "posture"
    BY <1>5 DEF Precedes, AllSteps
  <2>4. AttachWrites(order, p) = {} => AttachWrites(order, after) = {}
    BY <1>1, <2>1, PostureKept, Zenon
  <2> QED  BY <2>2, <2>3, <2>4, WritesIs
<1>6. CASE step = "sweep"
  <2>1. after = p /\ left = Less(d, w.id)
    BY <1>3, <1>6, Zenon DEF Written
  <2>2. w \in SweepWrites(d)
    BY <1>6, WritesIs, Zenon
  <2>3. SweepWrites(left) = SweepWrites(d) \ {w}
    BY <2>1, <2>2, SweepStep, Zenon
  <2>4. \A s \in AllSteps : Precedes(s, step) => s \in {"posture", "ping", "remove"}
    BY <1>6 DEF Precedes, AllSteps
  <2>5. \A s \in {"posture", "ping", "remove"} :
           WritesOf(order, s, after, left) = WritesOf(order, s, p, d)
    BY <2>1, WritesIs
  <2> QED  BY <1>6, <2>3, <2>4, <2>5, WritesIs, Zenon
<1> QED  BY <1>4, <1>5, <1>6 DEF AllSteps

-----------------------------------------------------------------------------
(* The writes are of policies.                                             *)
LEMMA PayloadTyped ==
  ASSUME NEW pol, IsPolicy(pol)
  PROVE  IsPolicy(PingPayload(pol))
<1> DEFINE P == PingPayload(pol)
           R == [n \in Qualifying(pol) |-> MirrorRule(pol.rules[n])]
<1>1. Qualifying(pol) \subseteq DOMAIN pol.rules
  BY DEF Qualifying, OtherRules
<1>2. \A n \in Qualifying(pol) : IsRule(pol.rules[n]) /\ n \in Nat
  BY <1>1 DEF IsPolicy
<1>3. \A n \in Qualifying(pol) : IsRule(MirrorRule(pol.rules[n]))
  BY <1>2, PutRuleIs, Zenon
<1>4. DOMAIN R \subseteq Nat /\ R = [n \in DOMAIN R |-> R[n]] /\ \A n \in DOMAIN R : IsRule(R[n])
  BY <1>2, <1>3, Zenon
<1>5. /\ P.name = pol.name /\ P.comp = TRUE /\ P.marks = CompanionMarks(pol)
      /\ P.checks = pol.checks /\ P.on = pol.on /\ P.rules = R
  BY PayloadIs, Zenon
<1>6. P = [name |-> P.name, comp |-> P.comp, marks |-> P.marks, on |-> P.on,
           checks |-> P.checks, rules |-> P.rules]
  BY <1>5, Zenon DEF PingPayload
<1> HIDE DEF P, R
<1> QED  BY <1>4, <1>5, <1>6, Zenon DEF IsPolicy, P

LEMMA BodyTyped ==
  ASSUME NEW order, NEW pol, IsPolicy(pol)
  PROVE  IsPolicy(Body(order, pol))
<1> DEFINE B == Body(order, pol)
           R == [n \in DOMAIN pol.rules |-> PutRule(pol.rules[n])]
<1>1. \A n \in DOMAIN pol.rules : IsRule(pol.rules[n]) /\ n \in Nat
  BY DEF IsPolicy
<1>2. \A n \in DOMAIN pol.rules : IsRule(PutRule(pol.rules[n]))
  BY <1>1, PutRuleIs, Zenon
<1>3. DOMAIN R \subseteq Nat /\ R = [n \in DOMAIN R |-> R[n]] /\ \A n \in DOMAIN R : IsRule(R[n])
  BY <1>1, <1>2, Zenon
<1>4. /\ B.comp = pol.comp /\ B.rules = R
      /\ B = [name |-> B.name, comp |-> B.comp, marks |-> B.marks, on |-> B.on,
              checks |-> B.checks, rules |-> B.rules]
  BY BodyIs
<1>5. pol.comp \in BOOLEAN
  BY Zenon DEF IsPolicy
<1> HIDE DEF B, R
<1> QED  BY <1>3, <1>4, <1>5, Zenon DEF IsPolicy, B

LEMMA WritesFine ==
  ASSUME NEW order, NEW p, NEW d, NEW step \in AllSteps, NEW w \in WritesOf(order, step, p, d),
         ArePolicies(p)
  PROVE  FineWrite(w)
<1>2. \A i \in DOMAIN p : IsPolicy(p[i])
  BY Zenon DEF ArePolicies
<1>3. w.op \in {"post", "put", "delete", "sweep"} /\ (w.op = "sweep" <=> step = "sweep")
  BY OpsAre, Zenon
<1>4. ASSUME w.op \in {"post", "put"}  PROVE IsPolicy(w.pol)
  <2>1. step # "sweep"
    BY <1>3, <1>4
  <2>2. CASE step = "posture"
    <3>1. AttachWrite(order, p, w)
      BY <2>2, WritesIs, AttachWritesAre
    <3>2. PICK i \in DOMAIN p : w = Attaching(order, p, i)
      BY <3>1, Zenon DEF AttachWrite
    <3>3. w.pol = Body(order, p[i])
      BY <3>2, Zenon DEF Attaching
    <3> QED  BY <1>2, <3>3, BodyTyped, Zenon
  <2>3. CASE step = "ping"
    <3>1. w \in PingWrites(p) /\ w.op # "delete"
      BY <1>4, <2>3, WritesIs
    <3>2. \E i \in DOMAIN p : w.pol = PingPayload(p[i])
      BY <3>1, PingOps, Zenon
    <3> QED  BY <1>2, <3>2, PayloadTyped, Zenon
  <2>4. CASE step = "remove"
    <3>1. w \in RemoveWrites(p)
      BY <2>4, WritesIs, Zenon
    <3>2. w.op = "delete"
      BY <3>1 DEF RemoveWrites
    <3> QED  BY <1>4, <3>2
  <2> QED  BY <2>1, <2>2, <2>3, <2>4 DEF AllSteps
<1> QED  BY <1>3, <1>4, Zenon DEF FineWrite

LEMMA WithTyped ==
  ASSUME NEW seen, ArePolicies(seen), NEW id \in PolicyIds, NEW pol, IsPolicy(pol)
  PROVE  ArePolicies(With(seen, id, pol))
<1> DEFINE after == With(seen, id, pol)
<1>1. /\ DOMAIN after \subseteq PolicyIds
      /\ \A y \in DOMAIN after : after[y] = pol \/ (y \in DOMAIN seen /\ after[y] = seen[y])
  BY DEF With, ArePolicies
<1>2. after = [y \in DOMAIN after |-> after[y]]
  BY DEF With
<1> HIDE DEF after
<1>3. \A y \in DOMAIN after : IsPolicy(after[y])
  BY <1>1, Zenon DEF ArePolicies
<1>4. ArePolicies(after)
  BY <1>1, <1>2, <1>3, Zenon DEF ArePolicies
<1> QED  BY <1>4, Zenon DEF after

LEMMA LessTyped ==
  ASSUME NEW seen, ArePolicies(seen), NEW id
  PROVE  ArePolicies(Less(seen, id))
<1> DEFINE after == Less(seen, id)
<1>1. /\ DOMAIN after \subseteq PolicyIds
      /\ \A y \in DOMAIN after : y \in DOMAIN seen /\ after[y] = seen[y]
  BY DEF Less, ArePolicies
<1>2. after = [y \in DOMAIN after |-> after[y]]
  BY DEF Less
<1> HIDE DEF after
<1>3. \A y \in DOMAIN after : IsPolicy(after[y])
  BY <1>1, Zenon DEF ArePolicies
<1>4. ArePolicies(after)
  BY <1>1, <1>2, <1>3, Zenon DEF ArePolicies
<1> QED  BY <1>4, Zenon DEF after

LEMMA WrittenTyped ==
  ASSUME NEW seen, NEW w, NEW after, ArePolicies(seen), FineWrite(w), Written(seen, w, after)
  PROVE  ArePolicies(after)
<1>1. CASE w.op = "post"
  <2>1. PICK f \in PolicyIds : after = With(seen, f, w.pol)
    BY <1>1 DEF Written
  <2> QED  BY <1>1, <2>1, WithTyped DEF FineWrite
<1>2. CASE w.op = "put"
  <2>1. w.id \in PolicyIds /\ after = With(seen, w.id, w.pol)
    BY <1>2 DEF Written, ArePolicies
  <2> QED  BY <1>2, <2>1, WithTyped DEF FineWrite
<1>3. CASE w.op = "delete"
  <2>1. after = Less(seen, w.id)
    BY <1>3, Zenon DEF Written
  <2> QED  BY <2>1, LessTyped, Zenon
<1>4. CASE w.op = "sweep"
  BY <1>4, Zenon DEF Written
<1> QED  BY <1>1, <1>2, <1>3, <1>4 DEF FineWrite

-----------------------------------------------------------------------------
(* The state of a run, and what is known of one that nothing disturbed and *)
(* that made every call: the steps it is past have nothing to write, and   *)
(* what it has still to write is what its step would find now.             *)
RunShape(q) ==
  /\ q = [pc |-> q.pc, order |-> q.order, steps |-> q.steps, todo |-> q.todo,
          failed |-> q.failed, calm |-> q.calm]
  /\ q.pc \in {"none", "list", "write", "end", "done"}
  /\ \A w \in q.todo : FineWrite(w)

Started(q) == q.pc # "none"

Quiet(q) == Started(q) /\ q.calm /\ ~q.failed /\ ~q.order.dry

Over(q) == Elements(StepsOf(q.order)) \ Elements(q.steps)

StepsKnown(q) ==
  /\ IsOrder(q.order) /\ NamesNoCompanion(q.order)
  /\ q.steps \in Seq(AllSteps) /\ Ordered(q.steps)
  /\ Elements(q.steps) \subseteq Elements(StepsOf(q.order))
  /\ (q.pc \in {"write", "end"} => q.steps # <<>>)
  /\ (q.pc = "done" => q.steps = <<>>)

OnTrack(q, p, d) ==
  /\ OneEach(p)
  /\ (q.pc = "write" => q.todo = WritesOf(q.order, Head(q.steps), p, d))
  /\ (q.pc = "end" => WritesOf(q.order, Head(q.steps), p, d) = {})
  /\ \A s \in Over(q) :
       WritesOf(q.order, s, p, d) = {} /\ \A t \in Elements(q.steps) : Precedes(s, t)

WebTypes ==
  /\ ArePolicies(pols)
  /\ run = [x \in Runners |-> run[x]]
  /\ \A x \in Runners : RunShape(run[x]) /\ (Started(run[x]) => StepsKnown(run[x]))

Tracked == \A x \in Runners : Quiet(run[x]) => OnTrack(run[x], pols, devices)

(* What a step does with a run.                                            *)
LEMMA StartShape ==
  ASSUME NEW order
  PROVE  LET r == [Asleep EXCEPT !.pc = "list", !.order = order, !.steps = StepsOf(order)]
         IN  /\ RunShape(r) /\ r.pc = "list" /\ r.order = order /\ r.steps = StepsOf(order)
<1> DEFINE no == FALSE
           yes == TRUE
           S == StepsOf(order)
           r == [Asleep EXCEPT !.pc = "list", !.order = order, !.steps = S]
<1>1. Asleep = [pc |-> "none", order |-> Nothing, steps |-> <<>>,
                todo |-> {}, failed |-> no, calm |-> yes]
  BY Zenon DEF Asleep
<1> HIDE DEF no, yes, S
<1>2. r = [pc |-> "list", order |-> order, steps |-> S, todo |-> {}, failed |-> no, calm |-> yes]
  <2> DEFINE asleep == Asleep
  <2>1. asleep = [pc |-> "none", order |-> Nothing, steps |-> <<>>,
                  todo |-> {}, failed |-> no, calm |-> yes]
    BY <1>1, Zenon
  <2>2. r = [asleep EXCEPT !.pc = "list", !.order = order, !.steps = S]
    BY Zenon
  <2> HIDE DEF asleep, r
  <2> QED  BY ONLY <2>1, <2>2
<1> HIDE DEF r
<1>3. RunShape(r) /\ r.pc = "list" /\ r.order = order /\ r.steps = S
  BY <1>2 DEF RunShape
<1> QED  BY <1>3, Zenon DEF r, S

Moving(q, pc, steps) == [q EXCEPT !.steps = steps, !.pc = pc]
Ending(q, pc) == [q EXCEPT !.pc = pc]
Writing(q, pc, todo) == [q EXCEPT !.pc = pc, !.todo = todo]

Reshaped(q, r, pc, steps, todo) ==
  /\ RunShape(r) /\ r.pc = pc /\ r.order = q.order /\ r.steps = steps /\ r.todo = todo
  /\ r.calm = q.calm /\ r.failed = q.failed

FineWrites(todo) == \A w \in todo : FineWrite(w)

LEMMA MoveShape ==
  ASSUME NEW q, RunShape(q), NEW pc \in {"list", "write", "end", "done"}, NEW steps
  PROVE  Reshaped(q, Moving(q, pc, steps), pc, steps, q.todo)
<1> DEFINE pc0 == q.pc
           order == q.order
           steps0 == q.steps
           todo0 == q.todo
           failed == q.failed
           calm == q.calm
           r == Moving(q, pc, steps)
<1>1. q = [pc |-> pc0, order |-> order, steps |-> steps0,
           todo |-> todo0, failed |-> failed, calm |-> calm]
  BY DEF RunShape
<1>2. r = [q EXCEPT !.steps = steps, !.pc = pc]
  BY Zenon DEF Moving
<1> HIDE DEF pc0, order, steps0, todo0, failed, calm, r
<1>3. r = [pc |-> pc, order |-> order, steps |-> steps,
           todo |-> todo0, failed |-> failed, calm |-> calm]
  BY ONLY <1>1, <1>2
<1>4. /\ r.pc = pc /\ r.order = order /\ r.steps = steps /\ r.todo = todo0
      /\ r.calm = calm /\ r.failed = failed
  BY ONLY <1>3
<1>5. \A w \in r.todo : FineWrite(w)
  BY <1>4 DEF RunShape, todo0, FineWrites
<1>6. RunShape(r)
  BY <1>3, <1>5 DEF RunShape
<1> QED  BY <1>4, <1>6, Zenon DEF Reshaped, order, steps0, todo0, failed, calm, r

LEMMA EndShape ==
  ASSUME NEW q, RunShape(q), NEW pc \in {"list", "write", "end", "done"}
  PROVE  Reshaped(q, Ending(q, pc), pc, q.steps, q.todo)
<1> DEFINE pc0 == q.pc
           order == q.order
           steps0 == q.steps
           todo0 == q.todo
           failed == q.failed
           calm == q.calm
           r == Ending(q, pc)
<1>1. q = [pc |-> pc0, order |-> order, steps |-> steps0,
           todo |-> todo0, failed |-> failed, calm |-> calm]
  BY DEF RunShape
<1>2. r = [q EXCEPT !.pc = pc]
  BY Zenon DEF Ending
<1> HIDE DEF pc0, order, steps0, todo0, failed, calm, r
<1>3. r = [pc |-> pc, order |-> order, steps |-> steps0,
           todo |-> todo0, failed |-> failed, calm |-> calm]
  BY ONLY <1>1, <1>2
<1>4. /\ r.pc = pc /\ r.order = order /\ r.steps = steps0 /\ r.todo = todo0
      /\ r.calm = calm /\ r.failed = failed
  BY ONLY <1>3
<1>5. \A w \in r.todo : FineWrite(w)
  BY <1>4 DEF RunShape, todo0, FineWrites
<1>6. RunShape(r)
  BY <1>3, <1>5 DEF RunShape
<1> QED  BY <1>4, <1>6, Zenon DEF Reshaped, order, steps0, todo0, failed, calm, r

LEMMA WriteShape ==
  ASSUME NEW q, RunShape(q), NEW pc \in {"list", "write", "end", "done"},
         NEW todo, FineWrites(todo)
  PROVE  Reshaped(q, Writing(q, pc, todo), pc, q.steps, todo)
<1> DEFINE pc0 == q.pc
           order == q.order
           steps0 == q.steps
           todo0 == q.todo
           failed == q.failed
           calm == q.calm
           r == Writing(q, pc, todo)
<1>1. q = [pc |-> pc0, order |-> order, steps |-> steps0,
           todo |-> todo0, failed |-> failed, calm |-> calm]
  BY DEF RunShape
<1>2. r = [q EXCEPT !.pc = pc, !.todo = todo]
  BY Zenon DEF Writing
<1> HIDE DEF pc0, order, steps0, todo0, failed, calm, r
<1>3. r = [pc |-> pc, order |-> order, steps |-> steps0,
           todo |-> todo, failed |-> failed, calm |-> calm]
  BY ONLY <1>1, <1>2
<1>4. /\ r.pc = pc /\ r.order = order /\ r.steps = steps0 /\ r.todo = todo
      /\ r.calm = calm /\ r.failed = failed
  BY ONLY <1>3
<1>5. \A w \in r.todo : FineWrite(w)
  BY <1>4 DEF RunShape, todo0, FineWrites
<1>6. RunShape(r)
  BY <1>3, <1>5 DEF RunShape
<1> QED  BY <1>4, <1>6, Zenon DEF Reshaped, order, steps0, todo0, failed, calm, r

(* The step changes, the steps that are left do not.                       *)
SameStep(q, r) == r.order = q.order /\ r.steps = q.steps /\ r.pc \in {"list", "write", "end"}

LEMMA GivesUpShape ==
  ASSUME NEW q, RunShape(q)
  PROVE  RunShape(GivesUp(q)) /\ ~Quiet(GivesUp(q)) /\ SameStep(q, GivesUp(q))
<1> DEFINE yes == TRUE
           r == GivesUp(q)
<1>1. r = [q EXCEPT !.pc = "end", !.todo = {}, !.failed = yes]
  BY Zenon DEF GivesUp
<1> HIDE DEF yes, r
<1>2. RunShape(r) /\ SameStep(q, r) /\ r.failed = yes
  BY <1>1 DEF RunShape, SameStep
<1> QED  BY <1>2, Zenon DEF yes, r, Quiet

LEMMA RestlessShape ==
  ASSUME NEW q, RunShape(q)
  PROVE  RunShape([q EXCEPT !.calm = FALSE]) /\ ~Quiet([q EXCEPT !.calm = FALSE])
<1> DEFINE no == FALSE
           r == [q EXCEPT !.calm = no]
<1> HIDE DEF no
<1>1. RunShape(r) /\ r.calm = no
  BY DEF RunShape
<1> HIDE DEF r
<1>2. RunShape(r) /\ ~Quiet(r)
  BY <1>1, Zenon DEF no, Quiet
<1> QED  BY <1>2, Zenon DEF r, no

(* Only one run changes.                                                   *)
OneMoves(x, r) == run' = [run EXCEPT ![x] = r]

LEMMA OneMovesKeeps ==
  ASSUME WebTypes, Tracked, NEW x \in Runners, NEW r, OneMoves(x, r), RunShape(r),
         StepsKnown(r), UNCHANGED <<pols, devices>>, Quiet(r) => OnTrack(r, pols, devices)
  PROVE  WebTypes' /\ Tracked'
<1>1. /\ run' = [y \in Runners |-> run'[y]] /\ run'[x] = r
      /\ \A y \in Runners : y # x => run'[y] = run[y]
  BY DEF WebTypes, OneMoves
<1>2. \A y \in Runners : RunShape(run'[y]) /\ (Started(run'[y]) => StepsKnown(run'[y]))
  BY <1>1, Zenon DEF WebTypes
<1>3. pols' = pols /\ devices' = devices
  OBVIOUS
<1>4. ArePolicies(pols')
  BY <1>3, Zenon DEF WebTypes
<1>5. \A y \in Runners : Quiet(run'[y]) => OnTrack(run'[y], pols', devices')
  BY <1>1, <1>3, Zenon DEF Tracked
<1> QED  BY <1>1, <1>2, <1>4, <1>5, Zenon DEF WebTypes, Tracked

LEMMA StartKeeps ==
  ASSUME WebTypes, Tracked, NEW x \in Runners, NEW order \in Orders, RunStarts(x, order),
         IsOrder(order), NamesNoCompanion(order), OneEach(pols)
  PROVE  WebTypes' /\ Tracked'
<1> DEFINE r == [Asleep EXCEPT !.pc = "list", !.order = order, !.steps = StepsOf(order)]
<1>1. OneMoves(x, r) /\ UNCHANGED <<pols, devices>>
  BY DEF RunStarts, OneMoves
<1>2. RunShape(r) /\ r.pc = "list" /\ r.order = order /\ r.steps = StepsOf(order)
  BY StartShape, Zenon
<1> HIDE DEF r
<1>3. StepsKnown(r)
  <2>1. StepsOf(order) \in Seq(AllSteps) /\ Ordered(StepsOf(order))
    BY StepsAre, Zenon
  <2> QED  BY <1>2, <2>1 DEF StepsKnown
<1>4. OnTrack(r, pols, devices)
  <2>1. Over(r) = {}
    BY <1>2, Zenon DEF Over
  <2> QED  BY <1>2, <2>1 DEF OnTrack
<1> QED  BY <1>1, <1>2, <1>3, <1>4, OneMovesKeeps, Zenon

LEMMA QuietTracked ==
  ASSUME Tracked, NEW x \in Runners, Quiet(run[x])
  PROVE  OnTrack(run[x], pols, devices)
  BY Zenon DEF Tracked

LEMMA SameSteps ==
  ASSUME NEW q, NEW r, StepsKnown(q), SameStep(q, r), q.steps # <<>>
  PROVE  StepsKnown(r)
  BY DEF StepsKnown, SameStep

LEMMA SameTrack ==
  ASSUME NEW q, NEW r, NEW p, NEW d, OnTrack(q, p, d), SameStep(q, r),
         (r.pc = "write" => r.todo = WritesOf(q.order, Head(q.steps), p, d)),
         (r.pc = "end" => WritesOf(q.order, Head(q.steps), p, d) = {})
  PROVE  OnTrack(r, p, d)
<1>1. Over(r) = Over(q) /\ r.order = q.order /\ r.steps = q.steps
  BY Zenon DEF Over, SameStep
<1> QED  BY <1>1, Zenon DEF OnTrack

LEMMA ListKeeps ==
  ASSUME WebTypes, Tracked, NEW x \in Runners, ListAccount(x)
  PROVE  WebTypes' /\ Tracked'
<1> DEFINE q == run[x]
           step == Head(q.steps)
           writes == StepWrites(q.order, step)
<1>1. /\ q.pc = "list" /\ q.steps # <<>> /\ RunShape(q) /\ StepsKnown(q)
      /\ OneMoves(x, IF Refuses(q.order, step) THEN GivesUp(q)
                     ELSE IF writes = {} \/ q.order.dry THEN [q EXCEPT !.pc = "end"]
                     ELSE [q EXCEPT !.pc = "write", !.todo = writes])
      /\ UNCHANGED <<pols, devices>>
  BY DEF ListAccount, OneMoves, WebTypes, Started
<1>2. writes = WritesOf(q.order, step, pols, devices)
  BY Zenon DEF StepWrites, WritesOf
<1>3. CASE Refuses(q.order, step)
  <2>1. OneMoves(x, GivesUp(q))
    BY <1>1, <1>3, Zenon
  <2>2. RunShape(GivesUp(q)) /\ ~Quiet(GivesUp(q)) /\ SameStep(q, GivesUp(q))
    BY <1>1, GivesUpShape, Zenon
  <2>3. StepsKnown(GivesUp(q))
    BY <1>1, <2>2, SameSteps, Zenon
  <2> QED  BY <1>1, <2>1, <2>2, <2>3, OneMovesKeeps, Zenon
<1>4. CASE ~Refuses(q.order, step) /\ (writes = {} \/ q.order.dry)
  <2> DEFINE r == [q EXCEPT !.pc = "end"]
  <2>1. OneMoves(x, r)
    BY <1>1, <1>4, Zenon
  <2>2. /\ RunShape(r) /\ r.pc = "end" /\ r.order = q.order /\ r.steps = q.steps
        /\ r.calm = q.calm /\ r.failed = q.failed
    <3>1. r = Ending(q, "end")
      BY Zenon DEF Ending
    <3>2. RunShape(q) /\ "end" \in {"list", "write", "end", "done"}
      BY <1>1
    <3> HIDE DEF r, q
    <3>3. Reshaped(q, Ending(q, "end"), "end", q.steps, q.todo)
      BY ONLY <3>2, EndShape
    <3> QED  BY <3>1, <3>3, Zenon DEF Reshaped
  <2> HIDE DEF r
  <2>3. SameStep(q, r)
    BY <2>2 DEF SameStep
  <2>4. ASSUME Quiet(r)  PROVE OnTrack(r, pols, devices)
    <3>1. Quiet(q) /\ writes = {}
      BY <1>1, <1>4, <2>2, <2>4, Zenon DEF Quiet, Started
    <3>2. OnTrack(q, pols, devices)
      BY <3>1, QuietTracked, Zenon
    <3>3. r.pc # "write"
      BY <2>2
    <3>4. WritesOf(q.order, Head(q.steps), pols, devices) = {}
      BY <1>2, <3>1, Zenon
    <3> HIDE DEF q
    <3> QED  BY <2>3, <3>2, <3>3, <3>4, SameTrack, Zenon
  <2>5. StepsKnown(r)
    BY <1>1, <2>3, SameSteps, Zenon
  <2> QED  BY <1>1, <2>1, <2>2, <2>4, <2>5, OneMovesKeeps, Zenon
<1>5. CASE ~Refuses(q.order, step) /\ ~(writes = {} \/ q.order.dry)
  <2> DEFINE r == [q EXCEPT !.pc = "write", !.todo = writes]
  <2>1. OneMoves(x, r)
    BY <1>1, <1>5, Zenon
  <2>2. step \in AllSteps
    BY <1>1, TailOrdered, Zenon DEF StepsKnown
  <2>3. FineWrites(writes)
    BY <1>2, <2>2, WritesFine, Zenon DEF WebTypes, FineWrites
  <2>4. /\ RunShape(r) /\ r.pc = "write" /\ r.order = q.order /\ r.steps = q.steps
        /\ r.todo = writes /\ r.calm = q.calm /\ r.failed = q.failed
    <3>1. r = Writing(q, "write", writes)
      BY Zenon DEF Writing
    <3>2. RunShape(q) /\ "write" \in {"list", "write", "end", "done"}
      BY <1>1
    <3> HIDE DEF r, writes, q
    <3>3. Reshaped(q, Writing(q, "write", writes), "write", q.steps, writes)
      BY ONLY <2>3, <3>2, WriteShape
    <3> QED  BY <3>1, <3>3, Zenon DEF Reshaped
  <2> HIDE DEF r
  <2>5. SameStep(q, r)
    BY <2>4 DEF SameStep
  <2>6. ASSUME Quiet(r)  PROVE OnTrack(r, pols, devices)
    <3>1. Quiet(q)
      BY <1>1, <2>4, <2>6, Zenon DEF Quiet, Started
    <3>2. OnTrack(q, pols, devices)
      BY <3>1, QuietTracked, Zenon
    <3>3. r.pc # "end"
      BY <2>4
    <3>4. r.todo = WritesOf(q.order, Head(q.steps), pols, devices)
      BY <1>2, <2>4, Zenon
    <3> HIDE DEF q
    <3> QED  BY <2>5, <3>2, <3>3, <3>4, SameTrack, Zenon
  <2>7. StepsKnown(r)
    BY <1>1, <2>5, SameSteps, Zenon
  <2> QED  BY <1>1, <2>1, <2>4, <2>6, <2>7, OneMovesKeeps, Zenon
<1> QED  BY <1>3, <1>4, <1>5, Zenon

LEMMA FailKeeps ==
  ASSUME WebTypes, Tracked, NEW x \in Runners, CallFails(x)
  PROVE  WebTypes' /\ Tracked'
<1> DEFINE q == run[x]
<1>1. /\ q.pc # "none" /\ q.steps # <<>> /\ OneMoves(x, GivesUp(q)) /\ UNCHANGED <<pols, devices>>
  BY DEF CallFails, OneMoves
<1>2. RunShape(q) /\ StepsKnown(q)
  BY <1>1, Zenon DEF WebTypes, Started
<1>3. RunShape(GivesUp(q)) /\ ~Quiet(GivesUp(q)) /\ SameStep(q, GivesUp(q))
  BY <1>2, GivesUpShape, Zenon
<1>4. StepsKnown(GivesUp(q))
  BY <1>1, <1>2, <1>3, SameSteps, Zenon
<1> QED  BY <1>1, <1>3, <1>4, OneMovesKeeps, Zenon

LEMMA StepEndKeeps ==
  ASSUME WebTypes, Tracked, NEW x \in Runners, StepEnds(x)
  PROVE  WebTypes' /\ Tracked'
<1> DEFINE q == run[x]
           r == Moving(q, "list", Tail(q.steps))
<1>1. q.pc = "end" /\ OneMoves(x, r) /\ UNCHANGED <<pols, devices>>
  BY DEF StepEnds, OneMoves, Moving, WebTypes
<1>2. RunShape(q) /\ StepsKnown(q) /\ q.steps # <<>>
  BY <1>1 DEF WebTypes, Started, StepsKnown
<1>3. RunShape(r) /\ r.pc = "list" /\ r.order = q.order /\ r.steps = Tail(q.steps)
      /\ r.calm = q.calm /\ r.failed = q.failed
  <2>1. "list" \in {"list", "write", "end", "done"}
    OBVIOUS
  <2> HIDE DEF q
  <2>2. Reshaped(q, r, "list", Tail(q.steps), q.todo)
    BY <1>2, <2>1, MoveShape
  <2> QED  BY <2>2, Zenon DEF Reshaped
<1>4. /\ Tail(q.steps) \in Seq(AllSteps) /\ Ordered(Tail(q.steps))
      /\ Elements(q.steps) = {Head(q.steps)} \cup Elements(Tail(q.steps))
      /\ \A s \in Elements(Tail(q.steps)) : Precedes(Head(q.steps), s)
  BY <1>2, TailOrdered, Zenon DEF StepsKnown
<1> HIDE DEF r, q
<1>5. StepsKnown(r)
  BY <1>2, <1>3, <1>4 DEF StepsKnown
<1>6. ASSUME Quiet(r)  PROVE OnTrack(r, pols, devices)
  <2>1. Quiet(q)
    BY <1>1, <1>3, <1>6 DEF Quiet, Started
  <2>2. OnTrack(q, pols, devices)
    BY <2>1, QuietTracked, Zenon DEF q
  <2>3. \A s \in Over(r) : s \in Over(q) \/ s = Head(q.steps)
    BY <1>3, <1>4, Zenon DEF Over
  <2>4. \A t \in Elements(r.steps) : t \in Elements(q.steps)
    BY <1>3, <1>4, Zenon
  <2>5. WritesOf(q.order, Head(q.steps), pols, devices) = {}
    BY <1>1, <2>2, Zenon DEF OnTrack
  <2>6. ASSUME NEW s \in Over(r)
        PROVE  WritesOf(r.order, s, pols, devices) = {} /\ \A t \in Elements(r.steps) : Precedes(s, t)
    <3>1. CASE s \in Over(q)
      BY <1>3, <2>2, <2>4, <3>1, Zenon DEF OnTrack
    <3>2. CASE s = Head(q.steps)
      BY <1>3, <1>4, <2>5, <3>2, Zenon
    <3> QED  BY <2>3, <3>1, <3>2, Zenon
  <2>7. r.pc # "write" /\ r.pc # "end"
    BY <1>3
  <2> QED  BY <2>2, <2>6, <2>7, Zenon DEF OnTrack
<1> QED  BY <1>1, <1>3, <1>5, <1>6, OneMovesKeeps, Zenon

LEMMA RunEndKeeps ==
  ASSUME WebTypes, Tracked, NEW x \in Runners, RunEnds(x)
  PROVE  WebTypes' /\ Tracked'
<1> DEFINE q == run[x]
           r == Ending(q, "done")
<1>1. q.pc = "list" /\ q.steps = <<>> /\ OneMoves(x, r) /\ UNCHANGED <<pols, devices>>
  BY DEF RunEnds, OneMoves, Ending, WebTypes
<1>2. RunShape(q) /\ StepsKnown(q)
  BY <1>1 DEF WebTypes, Started
<1>3. RunShape(r) /\ r.pc = "done" /\ r.order = q.order /\ r.steps = q.steps
      /\ r.calm = q.calm /\ r.failed = q.failed
  <2>1. "done" \in {"list", "write", "end", "done"}
    OBVIOUS
  <2> HIDE DEF q
  <2>2. Reshaped(q, r, "done", q.steps, q.todo)
    BY <1>2, <2>1, EndShape
  <2> QED  BY <2>2, Zenon DEF Reshaped
<1> HIDE DEF r, q
<1>4. StepsKnown(r)
  BY <1>1, <1>2, <1>3 DEF StepsKnown
<1>5. ASSUME Quiet(r)  PROVE OnTrack(r, pols, devices)
  <2>1. Quiet(q)
    BY <1>1, <1>3, <1>5 DEF Quiet, Started
  <2>2. OnTrack(q, pols, devices)
    BY <2>1, QuietTracked, Zenon DEF q
  <2>3. Over(r) = Over(q)
    BY <1>3, Zenon DEF Over
  <2>4. r.pc # "write" /\ r.pc # "end"
    BY <1>3
  <2> QED  BY <1>3, <2>2, <2>3, <2>4, Zenon DEF OnTrack
<1> QED  BY <1>1, <1>3, <1>4, <1>5, OneMovesKeeps, Zenon

-----------------------------------------------------------------------------
(* What users, devices and the writes of a run do to the other runs.       *)
LEMMA DisturbedKeeps ==
  ASSUME WebTypes, NEW y \in Runners, NEW r, r = [run[y] EXCEPT !.calm = FALSE]
  PROVE  RunShape(r) /\ (Started(r) => StepsKnown(r)) /\ ~Quiet(r)
<1>1. RunShape(run[y]) /\ (Started(run[y]) => StepsKnown(run[y]))
  BY Zenon DEF WebTypes
<1>2. RunShape(r) /\ ~Quiet(r)
  BY <1>1, RestlessShape, Zenon
<1>3. r.pc = run[y].pc /\ r.order = run[y].order /\ r.steps = run[y].steps
  BY <1>1 DEF RunShape
<1>4. Started(r) => StepsKnown(r)
  BY <1>1, <1>3, Zenon DEF Started, StepsKnown
<1> QED  BY <1>2, <1>4

LEMMA AllDisturbed ==
  ASSUME WebTypes, run' = Disturbed(Nothing), ArePolicies(pols')
  PROVE  WebTypes' /\ Tracked'
<1>1. \A y \in Runners : y # Nothing
  BY MaintenanceConstants DEF MaintenanceConstants
<1>2. run' = [y \in Runners |-> run'[y]]
      /\ \A y \in Runners : run'[y] = [run[y] EXCEPT !.calm = FALSE]
  BY <1>1 DEF Disturbed
<1>3. ASSUME NEW y \in Runners
      PROVE  RunShape(run'[y]) /\ (Started(run'[y]) => StepsKnown(run'[y])) /\ ~Quiet(run'[y])
  BY <1>2, DisturbedKeeps, Zenon
<1> QED  BY <1>2, <1>3, Zenon DEF WebTypes, Tracked

LEMMA DeedKeepsPolicies ==
  ASSUME ArePolicies(pols), NEW d \in Deeds, UserActs(d)
  PROVE  ArePolicies(pols')
<1>1. d.id \in PolicyIds /\ (d.pol # Nothing => IsPolicy(d.pol))
  BY MaintenanceConstants, Zenon DEF MaintenanceConstants
<1>2. CASE d.pol = Nothing
  <2>1. pols' = Less(pols, d.id)
    BY <1>2, Zenon DEF UserActs
  <2> QED  BY <2>1, LessTyped, Zenon
<1>3. CASE d.pol # Nothing
  <2>1. pols' = With(pols, d.id, d.pol)
    BY <1>3, Zenon DEF UserActs
  <2> QED  BY <1>1, <1>3, <2>1, WithTyped, Zenon
<1> QED  BY <1>2, <1>3

LEMMA UserKeeps ==
  ASSUME WebTypes, NEW d \in Deeds, UserActs(d)
  PROVE  WebTypes' /\ Tracked'
<1>1. run' = Disturbed(Nothing) /\ ArePolicies(pols)
  BY Zenon DEF UserActs, WebTypes
<1>2. ArePolicies(pols')
  BY <1>1, DeedKeepsPolicies, Zenon
<1> QED  BY <1>1, <1>2, AllDisturbed, Zenon

LEMMA DeviceKeeps ==
  ASSUME WebTypes, NEW p \in DOMAIN devices, DeviceActs(p)
  PROVE  WebTypes' /\ Tracked'
<1>1. run' = Disturbed(Nothing) /\ pols' = pols
  BY Zenon DEF DeviceActs
<1>2. ArePolicies(pols')
  BY <1>1, Zenon DEF WebTypes
<1> QED  BY <1>1, <1>2, AllDisturbed, Zenon

(* What a write makes of the account.                                      *)
LEMMA EffectIs ==
  ASSUME NEW w, FineWrite(w), Effect(w)
  PROVE  /\ Written(pols, w, pols')
         /\ devices' = IF w.op = "sweep" THEN Less(devices, w.id) ELSE devices
<1>1. devices' = IF w.op = "sweep" THEN Less(devices, w.id) ELSE devices
  BY Zenon DEF Effect
<1>2. CASE w.op = "post"
  <2>1. /\ PolicyIds \ DOMAIN pols # {}
        /\ pols' = With(pols, CHOOSE id \in PolicyIds : id \notin DOMAIN pols, w.pol)
    BY <1>2 DEF Effect
  <2> DEFINE f == CHOOSE id \in PolicyIds : id \notin DOMAIN pols
  <2>2. f \in PolicyIds \ DOMAIN pols
    BY <2>1
  <2>3. \E g \in PolicyIds \ DOMAIN pols : pols' = With(pols, g, w.pol)
    BY <2>1, <2>2, Zenon
  <2> QED  BY <1>1, <1>2, <2>3 DEF Written
<1>3. CASE w.op = "put"
  BY <1>1, <1>3 DEF Effect, Vanished, Written
<1>4. CASE w.op = "delete"
  BY <1>1, <1>4 DEF Effect, Vanished, Written
<1>5. CASE w.op = "sweep"
  BY <1>1, <1>5 DEF Effect, Vanished, Written
<1> QED  BY <1>2, <1>3, <1>4, <1>5, Zenon DEF FineWrite

LEMMA WriteKeeps ==
  ASSUME WebTypes, Tracked, NEW x \in Runners, MakeWrite(x)
  PROVE  WebTypes' /\ Tracked'
<1> DEFINE q == run[x]
<1>1. PICK w \in Ready(q.todo) :
        /\ Effect(w)
        /\ run' = [Disturbed(x) EXCEPT ![x].todo = @ \ {w},
                     ![x].pc = IF run[x].todo = {w} THEN "end" ELSE "write"]
  BY Zenon DEF MakeWrite
<1> DEFINE pc == IF q.todo = {w} THEN "end" ELSE "write"
           r == Writing(q, pc, q.todo \ {w})
<1>2. q.pc = "write" /\ RunShape(q) /\ StepsKnown(q) /\ q.steps # <<>>
  BY DEF MakeWrite, WebTypes, Started, StepsKnown
<1>3. w \in q.todo /\ FineWrite(w) /\ FineWrites(q.todo \ {w})
  BY <1>2 DEF Ready, RunShape, FineWrites
<1>4. /\ run' = [y \in Runners |-> run'[y]] /\ run'[x] = r
      /\ \A y \in Runners : y # x => run'[y] = [run[y] EXCEPT !.calm = FALSE]
  BY <1>1 DEF Disturbed, Writing
<1>5. pc \in {"write", "end"} /\ (pc = "end" <=> q.todo = {w})
  OBVIOUS
<1>6. Written(pols, w, pols') /\ devices' = IF w.op = "sweep" THEN Less(devices, w.id) ELSE devices
  BY <1>1, <1>3, EffectIs, Zenon
<1>7. ArePolicies(pols) /\ ArePolicies(pols')
  <2>1. ArePolicies(pols)
    BY Zenon DEF WebTypes
  <2> QED  BY <1>3, <1>6, <2>1, WrittenTyped, Zenon
<1>8. /\ RunShape(r) /\ SameStep(q, r) /\ r.pc = pc /\ r.todo = q.todo \ {w}
      /\ r.calm = q.calm /\ r.failed = q.failed
  <2>1. pc \in {"list", "write", "end", "done"}
    BY <1>5
  <2> HIDE DEF q, pc
  <2>2. Reshaped(q, r, pc, q.steps, q.todo \ {w})
    BY <1>2, <1>3, <2>1, WriteShape, Zenon
  <2> QED  BY <1>5, <2>2 DEF Reshaped, SameStep
<1> HIDE DEF r, q, pc
<1>9. StepsKnown(r)
  BY <1>2, <1>8, SameSteps, Zenon
<1>10. ASSUME Quiet(r)  PROVE OnTrack(r, pols', devices')
  <2>1. OnTrack(q, pols, devices)
    <3>1. Quiet(q)
      BY <1>2, <1>8, <1>10 DEF Quiet, Started, SameStep
    <3> QED  BY <3>1, QuietTracked, Zenon DEF q
  <2>2. q.todo = WritesOf(q.order, Head(q.steps), pols, devices)
    BY <1>2, <2>1, Zenon DEF OnTrack
  <2>3. Head(q.steps) \in AllSteps /\ Head(q.steps) \in Elements(q.steps)
    BY <1>2, TailOrdered, Zenon DEF StepsKnown
  <2>4. Over(q) \subseteq AllSteps
    <3>1. StepsOf(q.order) \in Seq(AllSteps)
      BY <1>2, StepsAre, Zenon DEF StepsKnown
    <3>2. \A n \in DOMAIN StepsOf(q.order) : StepsOf(q.order)[n] \in AllSteps
      BY <3>1
    <3> QED  BY <3>2, Zenon DEF Over, Elements
  <2>5. OneEach(pols) /\ OneEach(pols')
    <3>1. OneEach(pols)
      BY <2>1, Zenon DEF OnTrack
    <3>2. w \in WritesOf(q.order, Head(q.steps), pols, devices)
      BY <1>3, <2>2, Zenon
    <3> QED  BY <1>6, <1>7, <2>3, <3>1, <3>2, NamesStay, Zenon
  <2>6. /\ WritesOf(q.order, Head(q.steps), pols', devices') = q.todo \ {w}
        /\ \A s \in AllSteps :
             (Precedes(s, Head(q.steps)) /\ WritesOf(q.order, s, pols, devices) = {}) =>
                WritesOf(q.order, s, pols', devices') = {}
    <3>1. NamesNoCompanion(q.order)
      BY <1>2, Zenon DEF StepsKnown
    <3>2. w \in WritesOf(q.order, Head(q.steps), pols, devices)
      BY <1>3, <2>2, Zenon
    <3>3. OneEach(pols) /\ OneEach(pols')
      BY <2>5, Zenon
    <3> DEFINE step == Head(q.steps)
               left == devices'
               after == pols'
               order == q.order
    <3>4. /\ step \in AllSteps /\ w \in WritesOf(order, step, pols, devices)
          /\ Written(pols, w, after)
          /\ left = IF w.op = "sweep" THEN Less(devices, w.id) ELSE devices
          /\ ArePolicies(pols) /\ OneEach(pols) /\ ArePolicies(after) /\ OneEach(after)
          /\ NamesNoCompanion(order)
      BY <1>6, <1>7, <2>3, <3>1, <3>2, <3>3, Zenon
    <3> HIDE DEF step, left, after, order
    <3>5. /\ WritesOf(order, step, after, left) = WritesOf(order, step, pols, devices) \ {w}
          /\ \A s \in AllSteps :
               (Precedes(s, step) /\ WritesOf(order, s, pols, devices) = {}) =>
                  WritesOf(order, s, after, left) = {}
      BY ONLY <3>4, StepKeeps
    <3> QED  BY <2>2, <3>5, Zenon DEF step, left, after, order
  <2>7. r.order = q.order /\ r.steps = q.steps /\ Over(r) = Over(q)
    BY <1>8, Zenon DEF SameStep, Over
  <2>8. ASSUME NEW s \in Over(r)
        PROVE  /\ WritesOf(r.order, s, pols', devices') = {}
               /\ \A t \in Elements(r.steps) : Precedes(s, t)
    BY <2>1, <2>3, <2>4, <2>6, <2>7, Zenon DEF OnTrack
  <2>9. r.pc = "write" => r.todo = WritesOf(r.order, Head(r.steps), pols', devices')
    BY <1>8, <2>6, <2>7, Zenon
  <2>10. r.pc = "end" => WritesOf(r.order, Head(r.steps), pols', devices') = {}
    <3>1. r.pc = "end" => q.todo \ {w} = {}
      BY <1>5, <1>8
    <3> QED  BY <2>6, <2>7, <3>1, Zenon
  <2> QED  BY <2>5, <2>8, <2>9, <2>10, Zenon DEF OnTrack
<1>11. ASSUME NEW y \in Runners
       PROVE  /\ RunShape(run'[y]) /\ (Started(run'[y]) => StepsKnown(run'[y]))
              /\ Quiet(run'[y]) => OnTrack(run'[y], pols', devices')
  <2>1. CASE y = x
    BY <1>4, <1>8, <1>9, <1>10, <2>1, Zenon
  <2>2. CASE y # x
    BY <1>4, <2>2, DisturbedKeeps, Zenon
  <2> QED  BY <2>1, <2>2
<1> QED  BY <1>4, <1>7, <1>11, Zenon DEF WebTypes, Tracked

-----------------------------------------------------------------------------
(* The invariant.                                                          *)
LEMMA WebStarts ==
  ASSUME MaintenanceInit
  PROVE  WebTypes /\ Tracked
<1>1. ArePolicies(pols)
  BY MaintenanceConstants, Zenon DEF MaintenanceConstants, MaintenanceInit
<1>2. run = [x \in Runners |-> Asleep]
  BY Zenon DEF MaintenanceInit
<1>3. RunShape(Asleep) /\ ~Started(Asleep)
  <2> DEFINE no == FALSE
             yes == TRUE
             r == Asleep
  <2>1. r = [pc |-> "none", order |-> Nothing, steps |-> <<>>,
             todo |-> {}, failed |-> no, calm |-> yes]
    BY Zenon DEF Asleep
  <2> HIDE DEF no, yes, r
  <2>2. RunShape(r) /\ ~Started(r)
    BY <2>1 DEF RunShape, Started
  <2> QED  BY <2>2, Zenon DEF r
<1>4. run = [x \in Runners |-> run[x]] /\ \A x \in Runners : run[x] = Asleep
  BY <1>2
<1>5. \A x \in Runners : RunShape(run[x]) /\ ~Started(run[x])
  BY <1>3, <1>4, Zenon
<1> QED  BY <1>1, <1>4, <1>5, Zenon DEF WebTypes, Tracked, Quiet

LEMMA WebStands ==
  ASSUME WebTypes, Tracked, UNCHANGED maintenanceVars
  PROVE  WebTypes' /\ Tracked'
<1>1. pols' = pols /\ devices' = devices /\ run' = run
  BY DEF maintenanceVars
<1> QED  BY <1>1, Zenon DEF WebTypes, Tracked

(* A run begins in an account without two policies, or two companions, of  *)
(* the same name.                                                          *)
UniqueAtStart ==
  \A x \in Runners : (run[x].pc = "none" /\ run'[x].pc = "list") => OneOfEachName

LEMMA WebSteps ==
  ASSUME WebTypes, Tracked, UniqueAtStart, \A order \in Orders : NamesNoCompanion(order),
         MaintenanceNext
  PROVE  WebTypes' /\ Tracked'
<1>2. ASSUME NEW x \in Runners, NEW order \in Orders, RunStarts(x, order)
      PROVE  WebTypes' /\ Tracked'
  <2>1. IsOrder(order)
    BY MaintenanceConstants, Zenon DEF MaintenanceConstants
  <2>2. run[x].pc = "none" /\ run'[x].pc = "list"
    <3> DEFINE r == [Asleep EXCEPT !.pc = "list", !.order = order, !.steps = StepsOf(order)]
    <3>1. run[x].pc = "none" /\ run' = [run EXCEPT ![x] = r]
      BY <1>2, Zenon DEF RunStarts
    <3>2. r.pc = "list"
      BY StartShape, Zenon
    <3> HIDE DEF r
    <3> QED  BY <3>1, <3>2 DEF WebTypes
  <2>3. OneEach(pols)
    BY <2>2, Zenon DEF UniqueAtStart, OneOfEachName, OneEach
  <2> QED  BY <1>2, <2>1, <2>3, StartKeeps, Zenon
<1>3. ASSUME NEW x \in Runners, ListAccount(x)  PROVE WebTypes' /\ Tracked'
  BY <1>3, ListKeeps, Zenon
<1>4. ASSUME NEW x \in Runners, MakeWrite(x)  PROVE WebTypes' /\ Tracked'
  BY <1>4, WriteKeeps, Zenon
<1>5. ASSUME NEW x \in Runners, CallFails(x)  PROVE WebTypes' /\ Tracked'
  BY <1>5, FailKeeps, Zenon
<1>6. ASSUME NEW x \in Runners, StepEnds(x)  PROVE WebTypes' /\ Tracked'
  BY <1>6, StepEndKeeps, Zenon
<1>7. ASSUME NEW x \in Runners, RunEnds(x)  PROVE WebTypes' /\ Tracked'
  BY <1>7, RunEndKeeps, Zenon
<1>8. ASSUME NEW d \in Deeds, UserActs(d)  PROVE WebTypes' /\ Tracked'
  BY <1>8, UserKeeps, Zenon
<1>9. ASSUME NEW p \in DOMAIN devices, DeviceActs(p)  PROVE WebTypes' /\ Tracked'
  BY <1>9, DeviceKeeps, Zenon
<1> QED
  BY <1>2, <1>3, <1>4, <1>5, <1>6, <1>7, <1>8, <1>9, Zenon DEF MaintenanceNext

LEMMA TrackedSettles ==
  ASSUME WebTypes, Tracked
  PROVE  Settles
<1>1. SUFFICES ASSUME NEW x \in Runners, run[x].pc = "done", run[x].calm, ~run[x].failed,
                      ~run[x].order.dry, OneOfEachName
               PROVE  /\ \A n \in DOMAIN StepsOf(run[x].order) :
                           StepWrites(run[x].order, StepsOf(run[x].order)[n]) = {}
                      /\ run[x].order.ping = "ping" /\ NoDirect => Mirrored
  BY Zenon DEF Settles
<1> DEFINE q == run[x]
<1>2. StepsKnown(q) /\ OnTrack(q, pols, devices)
  <2>1. "done" # "none"
    OBVIOUS
  <2>2. Quiet(q)
    BY <1>1, <2>1, Zenon DEF Quiet, Started
  <2> QED  BY <2>2, QuietTracked, Zenon DEF WebTypes, Quiet
<1> HIDE DEF q
<1>3. Over(q) = Elements(StepsOf(q.order))
  <2>1. q.steps = <<>>
    BY <1>1, <1>2, Zenon DEF StepsKnown, q
  <2>2. Elements(q.steps) = {}
    BY <2>1, ShortOrdered, Zenon
  <2> QED  BY <2>2, Zenon DEF Over
<1>4. \A s \in Elements(StepsOf(q.order)) : WritesOf(q.order, s, pols, devices) = {}
  BY <1>2, <1>3, Zenon DEF OnTrack
<1>5. ASSUME NEW n \in DOMAIN StepsOf(q.order)
      PROVE  StepWrites(q.order, StepsOf(q.order)[n]) = {}
  <2>1. WritesOf(q.order, StepsOf(q.order)[n], pols, devices) = {}
    BY <1>4, Zenon DEF Elements
  <2> QED  BY <2>1, Zenon DEF StepWrites, WritesOf
<1>6. ASSUME q.order.ping = "ping", NoDirect  PROVE Mirrored
  <2>1. "ping" \in Elements(StepsOf(q.order))
    BY <1>2, <1>6, StepsAre, Zenon DEF StepsKnown
  <2>2. PingWrites(pols) = {}
    BY <1>4, <2>1, WritesIs, Zenon
  <2>3. OneEach(pols) /\ ArePolicies(pols)
    BY <1>1, Zenon DEF OneOfEachName, OneEach, WebTypes
  <2> QED  BY <1>6, <2>2, <2>3, NothingToPing, Zenon
<1> QED  BY <1>5, <1>6, Zenon DEF q

(* The reconcilers settle (manage_posture.py, allow_ping.py and            *)
(* cleanup_ephemeral.py, one after the other in netbird_maintenance.py):   *)
(* for any account, orders, runs and users, a run that nothing disturbed   *)
(* and no call failed in leaves an account in which it would write nothing *)
(* again and every companion mirrors its original. Two conditions: no run  *)
(* begins where two policies, or two companions, have the same name, since *)
(* of two companions of an original that is gone it deletes one only (two  *)
(* runs at once may make two companions, but then both are disturbed); and *)
(* no run is told the name of a companion in --rule, since the check it    *)
(* puts on the companion is taken off again by the next step.              *)
THEOREM ReconcilersSettle ==
  ASSUME \A order \in Orders : NamesNoCompanion(order)
  PROVE  MaintenanceSpec /\ [][UniqueAtStart]_maintenanceVars => []Settles
<1>1. MaintenanceInit => WebTypes /\ Tracked
  BY WebStarts
<1>2. (WebTypes /\ Tracked) /\ [UniqueAtStart]_maintenanceVars /\ [MaintenanceNext]_maintenanceVars
        => (WebTypes /\ Tracked)'
  BY WebSteps, WebStands, Zenon
<1>3. WebTypes /\ Tracked => Settles
  BY TrackedSettles
<1> QED  BY <1>1, <1>2, <1>3, PTL DEF MaintenanceSpec

-----------------------------------------------------------------------------
(* Logins and sessions.                                                    *)

Ids == Requests \cup {Nobody}

(* A signed session has no login under way.                                *)
SessionRecords ==
  {s \in [sid : Ids, born : Nat, state : Ids, signed : BOOLEAN, refresh : Ids, until : Nat] :
     s.signed => s.state = Nobody}

RequestRecords ==
  [pc : {"none", "done", "discover", "exchange", "me", "page", "refresh", "granted", "bye"},
   kind : {"none", "login", "callback", "page", "logout"},
   by : Browsers \cup {Nobody}, s : SessionRecords]

(* The ids that a session may have: those of requests that are past the    *)
(* point where they make one.                                              *)
Fresh == {"none", "exchange", "me"}
Settled(id) == id \in Requests /\ req[id].pc \notin Fresh

Clock == now \in Nat

TokensOK == codes \subseteq Requests /\ grants \subseteq Requests

RequestsOK == req \in [Requests -> RequestRecords]

ItemsOK ==
  \A x \in DOMAIN items : Settled(x) /\ items[x] \in SessionRecords /\ items[x].sid = x

(* The copy that a request has of a session that is still in the store     *)
(* agrees with the store on when it was made and whether it is signed in:  *)
(* only rotate changes these, and gives the session another id.            *)
CopiesOK ==
  \A q \in Requests : req[q].s.sid # Nobody =>
    /\ Settled(req[q].s.sid)
    /\ req[q].s.sid \in DOMAIN items =>
         /\ req[q].s.born = items[req[q].s.sid].born
         /\ req[q].s.signed = items[req[q].s.sid].signed

PendingOK == Cardinality(Pending(items)) <= MaxPending

SessionInv == Clock /\ TokensOK /\ RequestsOK /\ ItemsOK /\ CopiesOK /\ PendingOK

-----------------------------------------------------------------------------
(* Operators *)

LEMMA UnbornIs == Unborn \in SessionRecords /\ Unborn.sid = Nobody /\ Unsent \in RequestRecords
  BY DEF Unborn, Unsent, SessionRecords, RequestRecords, Ids

(* Of any times there is an earliest.                                      *)
Sooner == {ss \in Nat \X Nat : ss[1] < ss[2]}

LEMMA SoonerWellFounded == IsWellFoundedOn(Sooner, Nat)
  BY NatLessThanWellFounded, Zenon DEF OpToRel, Sooner

LEMMA Least ==
  ASSUME NEW T, T \subseteq Nat, T # {}
  PROVE  \E x \in T : \A y \in T : x <= y
<1>1. PICK x \in T : \A y \in T : ~ (<<y, x>> \in Sooner)
  BY SoonerWellFounded, WFMin, Zenon
<1>2. \A y \in T : y < x => <<y, x>> \in Sooner
  BY DEF Sooner
<1>3. \A y \in T : ~ (y < x)
  BY <1>1, <1>2, Zenon
<1>4. x \in Nat /\ \A y \in T : y \in Nat
  OBVIOUS
<1>. QED
  BY <1>3, <1>4

(* What _cap_pending drops exists where at most one is too many.           *)
TooMany(store, old) ==
  /\ old \subseteq Pending(store)
  /\ Cardinality(old) = IF Cardinality(Pending(store)) > MaxPending
                        THEN Cardinality(Pending(store)) - MaxPending ELSE 0
  /\ \A x \in old, y \in Pending(store) \ old : store[x].born <= store[y].born

LEMMA CappedIs ==
  ASSUME NEW store, Pending(store) \subseteq Requests,
         \A x \in Pending(store) : store[x].born \in Nat,
         Cardinality(Pending(store)) <= MaxPending + 1
  PROVE  \E old \in SUBSET Pending(store) :
           /\ Capped(store) = Dropped(store, old)
           /\ Cardinality(Pending(store) \ old) <= MaxPending
<1>. DEFINE P == Pending(store)
            excess == CHOOSE old \in SUBSET P :
              /\ Cardinality(old) = IF Cardinality(P) > MaxPending
                                    THEN Cardinality(P) - MaxPending ELSE 0
              /\ \A x \in old, y \in P \ old : store[x].born <= store[y].born
<1>1. IsFiniteSet(P) /\ Cardinality(P) \in Nat
  <2>1. IsFiniteSet(Requests)
    BY FS_Interval, SessionConstants DEF Requests
  <2>. QED
    BY <2>1, FS_Subset, FS_CardinalityType
<1>2. \E old \in SUBSET P : TooMany(store, old)
  <2>1. CASE Cardinality(P) <= MaxPending
    <3>1. TooMany(store, {})
      BY <2>1, <1>1, FS_EmptySet, SessionConstants DEF TooMany
    <3>. QED
      BY <3>1
  <2>2. CASE Cardinality(P) > MaxPending
    <3>1. Cardinality(P) - MaxPending = 1
      BY <2>2, <1>1, SessionConstants
    <3>2. P # {}
      BY <2>2, FS_EmptySet, SessionConstants
    <3>3. PICK b \in {store[x].born : x \in P} : \A c \in {store[x].born : x \in P} : b <= c
      BY <3>2, Least
    <3>4. PICK x \in P : b = store[x].born
      BY <3>3
    <3>5. Cardinality({x}) = 1
      BY FS_Singleton
    <3>6. TooMany(store, {x})
      BY <3>1, <3>3, <3>4, <3>5, <2>2 DEF TooMany
    <3>. QED
      BY <3>6
  <2>. QED
    BY <2>1, <2>2, <1>1, SessionConstants
<1>3. TooMany(store, excess)
  BY <1>2 DEF TooMany
<1>4. Capped(store) = Dropped(store, excess)
  BY DEF Capped
<1>. HIDE DEF excess
<1>5. Cardinality(P \ excess) = Cardinality(P) - Cardinality(excess)
  <2>1. P \cap excess = excess
    BY <1>3 DEF TooMany
  <2>. QED
    BY <2>1, <1>1, FS_Difference
<1>6. Cardinality(P \ excess) <= MaxPending
  BY <1>1, <1>3, <1>5, SessionConstants DEF TooMany
<1>. QED
  BY <1>3, <1>4, <1>6 DEF TooMany

LEMMA PendingFinite ==
  ASSUME ItemsOK, NEW S \in SUBSET Pending(items)
  PROVE  IsFiniteSet(S) /\ Cardinality(S) \in Nat /\ Cardinality(S) <= Cardinality(Pending(items))
<1>1. IsFiniteSet(Requests) /\ Pending(items) \subseteq Requests
  BY FS_Interval, SessionConstants DEF Requests, Pending, ItemsOK, Settled
<1>2. IsFiniteSet(Pending(items))
  BY <1>1, FS_Subset
<1>. QED
  BY <1>2, FS_Subset, FS_CardinalityType

-----------------------------------------------------------------------------
(* Steps that make no session and change none                              *)

(* A request keeps its copy, forgets it, or takes one from the store.      *)
Carries ==
  \A r \in Requests :
    /\ req'[r].s = req[r].s \/ req'[r].s = Unborn \/ \E x \in DOMAIN items : req'[r].s = items[x]
    /\ req[r].pc \notin Fresh => req'[r].pc \notin Fresh

(* The store keeps some sessions as they are.                              *)
Shrinks == DOMAIN items' \subseteq DOMAIN items /\ \A x \in DOMAIN items' : items'[x] = items[x]

LEMMA CarryingIs ==
  ASSUME SessionInv, Carries, Shrinks
  PROVE  ItemsOK' /\ CopiesOK' /\ PendingOK'
<1>1. ItemsOK'
  BY DEF SessionInv, ItemsOK, Carries, Shrinks, Settled
<1>2. CopiesOK'
  <2> SUFFICES ASSUME NEW q \in Requests, req'[q].s.sid # Nobody
               PROVE  /\ req'[q].s.sid \in Requests /\ req'[req'[q].s.sid].pc \notin Fresh
                      /\ req'[q].s.sid \in DOMAIN items' =>
                           /\ req'[q].s.born = items'[req'[q].s.sid].born
                           /\ req'[q].s.signed = items'[req'[q].s.sid].signed
    BY DEF CopiesOK, Settled
  <2>1. CASE req'[q].s = req[q].s
    BY <2>1 DEF SessionInv, CopiesOK, Carries, Shrinks, Settled
  <2>2. CASE req'[q].s = Unborn
    BY <2>2, UnbornIs
  <2>3. ASSUME NEW x \in DOMAIN items, req'[q].s = items[x]
        PROVE  /\ req'[q].s.sid \in Requests /\ req'[req'[q].s.sid].pc \notin Fresh
               /\ req'[q].s.sid \in DOMAIN items' =>
                    /\ req'[q].s.born = items'[req'[q].s.sid].born
                    /\ req'[q].s.signed = items'[req'[q].s.sid].signed
    BY <2>3 DEF SessionInv, ItemsOK, Carries, Shrinks, Settled
  <2>. QED
    BY <2>1, <2>2, <2>3 DEF Carries
<1>3. PendingOK'
  <2>1. Pending(items') \in SUBSET Pending(items)
    BY DEF Shrinks, Pending
  <2>2. Cardinality(Pending(items')) \in Nat /\ Cardinality(Pending(items)) \in Nat
        /\ Cardinality(Pending(items')) <= Cardinality(Pending(items))
    BY <2>1, PendingFinite DEF SessionInv
  <2>3. Cardinality(Pending(items')) <= MaxPending
    BY <2>2, SessionConstants DEF SessionInv, PendingOK
  <2>. QED
    BY <2>3 DEF PendingOK, Pending
<1>. QED
  BY <1>1, <1>2, <1>3

LEMMA SendsIs ==
  ASSUME RequestsOK, NEW q \in Requests, NEW b \in Browsers,
         NEW kind \in {"login", "callback", "page", "logout"},
         NEW pc \in {"done", "discover", "exchange", "page", "refresh"},
         NEW s \in SessionRecords, Sends(q, b, kind, pc, s)
  PROVE  /\ RequestsOK' /\ req[q].pc = "none"
         /\ req'[q].pc = pc /\ req'[q].s = s
         /\ \A r \in Requests \ {q} : req'[r] = req[r]
<1>1. [pc |-> pc, kind |-> kind, by |-> b, s |-> s] \in RequestRecords
  BY DEF RequestRecords
<1>. QED
  BY <1>1 DEF Sends, RequestsOK

LEMMA FinishesIs ==
  ASSUME RequestsOK, NEW q \in Requests, Finishes(q)
  PROVE  /\ RequestsOK' /\ req'[q].pc = "done" /\ req'[q].s = Unborn
         /\ \A r \in Requests \ {q} : req'[r] = req[r]
  BY UnbornIs DEF Finishes, RequestsOK, RequestRecords

(* What a page gets from the cookie is a session of the store, or none.    *)
LEMMA OfCookieIs ==
  ASSUME ItemsOK, NEW b \in Browsers
  PROVE  /\ OfCookie(b) \in SessionRecords
         /\ OfCookie(b) = Unborn \/ \E x \in DOMAIN items : OfCookie(b) = items[x]
  BY UnbornIs DEF OfCookie, Found, ItemsOK

(* A request is over, and what it did to the store is to drop sessions.    *)
LEMMA Finishing ==
  ASSUME SessionInv, NEW q \in Requests, Finishes(q), Shrinks
  PROVE  RequestsOK' /\ ItemsOK' /\ CopiesOK' /\ PendingOK'
<1>1. RequestsOK' /\ Carries
  BY FinishesIs DEF SessionInv, Carries, Fresh
<1>. QED
  BY <1>1, CarryingIs

(* A request begins with a session of the store, or with none.             *)
LEMMA Sending ==
  ASSUME SessionInv, NEW q \in Requests, NEW b \in Browsers,
         NEW kind \in {"login", "callback", "page", "logout"},
         NEW pc \in {"done", "discover", "exchange", "page", "refresh"},
         NEW s \in {OfCookie(b), Unborn}, Sends(q, b, kind, pc, s), Shrinks
  PROVE  RequestsOK' /\ ItemsOK' /\ CopiesOK' /\ PendingOK'
<1>1. s \in SessionRecords /\ (s = Unborn \/ \E x \in DOMAIN items : s = items[x])
  BY OfCookieIs, UnbornIs DEF SessionInv
<1>2. RequestsOK' /\ req[q].pc = "none" /\ req'[q].s = s
      /\ \A r \in Requests \ {q} : req'[r] = req[r]
  BY <1>1, SendsIs DEF SessionInv
<1>3. Carries
  BY <1>1, <1>2 DEF Carries, Fresh
<1>. QED
  BY <1>2, <1>3, CarryingIs

LEMMA Dropping ==
  ASSUME NEW sids, items' = Dropped(items, sids)
  PROVE  Shrinks
  BY DEF Shrinks, Dropped

LEMMA Keeping ==
  ASSUME UNCHANGED items
  PROVE  Shrinks
  BY DEF Shrinks

-----------------------------------------------------------------------------
(* Steps that make or change a session                                     *)

(* login: the new session's id is new, and pending sessions keep to the    *)
(* cap.                                                                    *)
LEMMA LoginIs ==
  ASSUME SessionInv, NEW q \in Requests, NEW b \in Browsers, Login(q, b)
  PROVE  /\ RequestsOK' /\ ItemsOK' /\ CopiesOK' /\ PendingOK'
         /\ \A x \in DOMAIN items' : ~items'[x].signed \/ (x \in DOMAIN items /\ items'[x] = items[x])
<1>1. CASE Sends(q, b, "login", "done", Unborn) /\ UNCHANGED items
  BY <1>1, Keeping, Sending
<1>. DEFINE s == [Unborn EXCEPT !.sid = q, !.born = now, !.state = q]
            bare == [s EXCEPT !.state = Nobody]
            old == Purged(items)
            with == Stored(old, bare)
<1>2. ASSUME Sends(q, b, "login", "discover", s), items' = Updated(Created(bare), s)
      PROVE  /\ RequestsOK' /\ ItemsOK' /\ CopiesOK' /\ PendingOK'
             /\ \A x \in DOMAIN items' : ~items'[x].signed \/ (x \in DOMAIN items /\ items'[x] = items[x])
  <2>1. /\ s \in SessionRecords /\ s.sid = q /\ s.born = now /\ ~s.signed
        /\ bare.sid = q /\ bare.born = now /\ ~bare.signed
    BY DEF Unborn, SessionRecords, Ids, SessionInv, Clock
  <2>. HIDE DEF s, bare
  <2>2. /\ RequestsOK' /\ req[q].pc = "none" /\ req'[q].pc = "discover" /\ req'[q].s = s
        /\ \A r \in Requests \ {q} : req'[r] = req[r]
    BY <1>2, <2>1, SendsIs DEF SessionInv
  <2>3. q \notin DOMAIN items /\ \A r \in Requests : req[r].s.sid # q
    <3>1. "none" \in Fresh /\ q # Nobody
      BY SessionConstants DEF Fresh, Requests
    <3>. QED
      BY <2>2, <3>1 DEF SessionInv, ItemsOK, CopiesOK, Settled
  <2>4. /\ DOMAIN old \subseteq DOMAIN items
        /\ \A x \in DOMAIN old : old[x] = items[x]
        /\ Pending(old) \in SUBSET Pending(items)
    <3>. DEFINE late == {x \in DOMAIN items : ~Alive(items[x])}
    <3>1. old = Dropped(items, late)
      BY DEF Purged
    <3>. HIDE DEF late, old
    <3>2. DOMAIN old = DOMAIN items \ late /\ \A x \in DOMAIN items \ late : old[x] = items[x]
      BY <3>1 DEF Dropped
    <3>. QED
      BY <3>2 DEF Pending
  <2>. HIDE DEF old
  <2>5. /\ DOMAIN with = DOMAIN old \cup {q} /\ with[q] = bare
        /\ \A x \in DOMAIN old : with[x] = items[x]
        /\ Pending(with) = Pending(old) \cup {q}
    <3>1. /\ DOMAIN with = DOMAIN old \cup {q} /\ with[q] = bare
          /\ \A x \in DOMAIN old \ {q} : with[x] = old[x]
          /\ Pending(with) = (Pending(old) \ {q}) \cup {q}
      BY <2>1 DEF Stored, Pending
    <3>2. q \notin DOMAIN old
      BY <2>3, <2>4
    <3>. HIDE DEF with
    <3>. QED
      BY <3>1, <3>2, <2>4
  <2>. HIDE DEF with
  <2>6. PICK gone \in SUBSET Pending(with) :
          /\ Capped(with) = Dropped(with, gone)
          /\ Cardinality(Pending(with) \ gone) <= MaxPending
    <3>1. Pending(with) \subseteq Requests
      BY <2>4, <2>5 DEF Pending, SessionInv, ItemsOK, Settled
    <3>2. \A x \in Pending(with) : with[x].born \in Nat
      <4>1. now \in Nat /\ \A x \in DOMAIN items : items[x].born \in Nat
        BY DEF SessionInv, Clock, ItemsOK, SessionRecords
      <4>. QED
        BY <2>1, <2>4, <2>5, <4>1 DEF Pending
    <3>3. Cardinality(Pending(with)) <= MaxPending + 1
      <4>1. /\ IsFiniteSet(Pending(old)) /\ Cardinality(Pending(old)) \in Nat
            /\ Cardinality(Pending(old)) <= MaxPending
        <5>1. Cardinality(Pending(items)) \in Nat
          BY PendingFinite DEF SessionInv
        <5>. QED
          BY <5>1, <2>4, PendingFinite, SessionConstants DEF SessionInv, PendingOK
      <4>2. Cardinality(Pending(old) \cup {q})
              = IF q \in Pending(old) THEN Cardinality(Pending(old)) ELSE Cardinality(Pending(old)) + 1
        BY <4>1, FS_AddElement
      <4>3. Cardinality(Pending(old) \cup {q}) \in Nat
        BY <4>1, FS_AddElement, FS_CardinalityType
      <4>. QED
        BY <2>5, <4>1, <4>2, <4>3, SessionConstants
    <3>. QED
      BY <3>1, <3>2, <3>3, CappedIs
  <2>. DEFINE kept == Dropped(with, gone)
  <2>7. /\ DOMAIN kept = (DOMAIN old \cup {q}) \ gone
        /\ \A x \in DOMAIN kept : kept[x] = IF x = q THEN bare ELSE items[x]
        /\ Pending(kept) = Pending(with) \ gone
    BY <2>3, <2>4, <2>5 DEF Dropped, Pending
  <2>8. items' = Updated(kept, s)
    BY <1>2, <2>6 DEF Created, with, old
  <2>. HIDE DEF kept
  <2>9. /\ DOMAIN items' = DOMAIN kept
        /\ \A x \in DOMAIN items' : items'[x] = IF x = q THEN s ELSE items[x]
        /\ Pending(items') = Pending(kept)
    <3>1. CASE q \in DOMAIN kept
      <4>1. items' = Stored(kept, s)
        BY <2>1, <2>8, <3>1 DEF Updated
      <4>2. DOMAIN Stored(kept, s) = DOMAIN kept /\ Stored(kept, s)[q] = s
            /\ \A x \in DOMAIN kept \ {q} : Stored(kept, s)[x] = kept[x]
        BY <2>1, <3>1 DEF Stored
      <4>3. Pending(Stored(kept, s)) = Pending(kept)
        BY <2>1, <2>7, <3>1, <4>2 DEF Pending
      <4>. QED
        BY <4>1, <4>2, <4>3, <2>7
    <3>2. CASE q \notin DOMAIN kept
      BY <2>1, <2>7, <2>8, <3>2 DEF Updated
    <3>. QED
      BY <3>1, <3>2
  <2>10. DOMAIN items' \subseteq DOMAIN items \cup {q}
    BY <2>4, <2>7, <2>9
  <2>11. ItemsOK'
    <3> SUFFICES ASSUME NEW x \in DOMAIN items'
                 PROVE  /\ x \in Requests /\ req'[x].pc \notin Fresh
                        /\ items'[x] \in SessionRecords /\ items'[x].sid = x
      BY DEF ItemsOK, Settled
    <3>1. CASE x = q
      BY <3>1, <2>1, <2>2, <2>9 DEF Fresh
    <3>2. CASE x # q
      BY <3>2, <2>2, <2>9, <2>10 DEF SessionInv, ItemsOK, Settled
    <3>. QED
      BY <3>1, <3>2
  <2>12. CopiesOK'
    <3> SUFFICES ASSUME NEW r \in Requests, req'[r].s.sid # Nobody
                 PROVE  /\ req'[r].s.sid \in Requests /\ req'[req'[r].s.sid].pc \notin Fresh
                        /\ req'[r].s.sid \in DOMAIN items' =>
                             /\ req'[r].s.born = items'[req'[r].s.sid].born
                             /\ req'[r].s.signed = items'[req'[r].s.sid].signed
      BY DEF CopiesOK, Settled
    <3>1. CASE r = q
      BY <3>1, <2>1, <2>2, <2>9 DEF Fresh
    <3>2. CASE r # q
      BY <3>2, <2>2, <2>3, <2>9, <2>10 DEF SessionInv, CopiesOK, Settled
    <3>. QED
      BY <3>1, <3>2
  <2>13. PendingOK'
    BY <2>6, <2>7, <2>9 DEF PendingOK, Pending
  <2>14. \A x \in DOMAIN items' : ~items'[x].signed \/ (x \in DOMAIN items /\ items'[x] = items[x])
    BY <2>1, <2>9, <2>10
  <2>. QED
    BY <2>2, <2>11, <2>12, <2>13, <2>14
<1>. QED
  BY <1>1, <1>2, Keeping, Zenon DEF Login, Shrinks

LEMMA LaterIs ==
  ASSUME Clock
  PROVE  now \in Nat /\ now + TokenLife \in Nat
<1>1. TokenLife \in Nat /\ now \in Nat
  BY SessionConstants DEF Clock
<1>. QED
  BY <1>1

(* callback: the session gets a new id and is signed in.                   *)
LEMMA SignsInIs ==
  ASSUME SessionInv, NEW q \in Requests, SignsIn(q)
  PROVE  /\ RequestsOK' /\ ItemsOK' /\ CopiesOK' /\ PendingOK'
         /\ \A x \in DOMAIN items' : x = q \/ (x \in DOMAIN items /\ items'[x] = items[x])
<1>. DEFINE s == [Unborn EXCEPT !.sid = q, !.born = now, !.signed = TRUE, !.refresh = q,
                                !.until = now + TokenLife]
            old == req[q].s.sid
<1>1. s \in SessionRecords /\ s.sid = q /\ s.signed
  BY LaterIs DEF Unborn, SessionRecords, Ids, SessionInv
<1>2. req[q].pc = "me" /\ Finishes(q) /\ items' = Stored(Dropped(items, {old}), s)
  BY <1>1 DEF SignsIn, Rotated
<1>. HIDE DEF s, old
<1>3. /\ RequestsOK' /\ req'[q].pc = "done" /\ req'[q].s = Unborn
      /\ \A r \in Requests \ {q} : req'[r] = req[r]
  BY <1>2, FinishesIs DEF SessionInv
<1>4. q \notin DOMAIN items /\ \A r \in Requests : req[r].s.sid # q
  <2>1. "me" \in Fresh /\ q # Nobody
    BY SessionConstants DEF Fresh, Requests
  <2>. QED
    BY <1>2, <2>1 DEF SessionInv, ItemsOK, CopiesOK, Settled
<1>5. /\ DOMAIN items' = (DOMAIN items \ {old}) \cup {q} /\ items'[q] = s
      /\ \A x \in DOMAIN items \ {old} : items'[x] = items[x]
  BY <1>1, <1>2, <1>4 DEF Stored, Dropped
<1>6. ItemsOK'
  <2> SUFFICES ASSUME NEW x \in DOMAIN items'
               PROVE  /\ x \in Requests /\ req'[x].pc \notin Fresh
                      /\ items'[x] \in SessionRecords /\ items'[x].sid = x
    BY DEF ItemsOK, Settled
  <2>1. CASE x = q
    BY <2>1, <1>1, <1>3, <1>5 DEF Fresh
  <2>2. CASE x # q
    BY <2>2, <1>3, <1>5 DEF SessionInv, ItemsOK, Settled
  <2>. QED
    BY <2>1, <2>2
<1>7. CopiesOK'
  <2> SUFFICES ASSUME NEW r \in Requests, req'[r].s.sid # Nobody
               PROVE  /\ req'[r].s.sid \in Requests /\ req'[req'[r].s.sid].pc \notin Fresh
                      /\ req'[r].s.sid \in DOMAIN items' =>
                           /\ req'[r].s.born = items'[req'[r].s.sid].born
                           /\ req'[r].s.signed = items'[req'[r].s.sid].signed
    BY DEF CopiesOK, Settled
  <2>1. r # q
    BY <1>3, UnbornIs
  <2>. QED
    BY <2>1, <1>3, <1>4, <1>5 DEF SessionInv, CopiesOK, Settled
<1>8. PendingOK'
  <2>1. Pending(items') \in SUBSET Pending(items)
    BY <1>1, <1>5 DEF Pending
  <2>2. Cardinality(Pending(items')) \in Nat /\ Cardinality(Pending(items)) \in Nat
        /\ Cardinality(Pending(items')) <= Cardinality(Pending(items))
    BY <2>1, PendingFinite DEF SessionInv
  <2>3. Cardinality(Pending(items')) <= MaxPending
    BY <2>2, SessionConstants DEF SessionInv, PendingOK
  <2>. QED
    BY <2>3 DEF PendingOK, Pending
<1>. QED
  BY <1>3, <1>5, <1>6, <1>7, <1>8

(* A late answer of the IdP: the session gets its tokens if it is still    *)
(* there, and nothing else about it changes.                               *)
LEMMA RefreshedIs ==
  ASSUME SessionInv, NEW q \in Requests, Refreshed(q)
  PROVE  /\ RequestsOK' /\ ItemsOK' /\ CopiesOK' /\ PendingOK'
         /\ \A x \in DOMAIN items' :
              x \in DOMAIN items /\ items'[x].born = items[x].born /\ items'[x].signed = items[x].signed
<1>. DEFINE s == [req[q].s EXCEPT !.refresh = IF Rotates THEN q ELSE @, !.until = now + TokenLife]
<1>0. req[q] \in RequestRecords
  BY DEF SessionInv, RequestsOK
<1>1. /\ s \in SessionRecords /\ s.sid = req[q].s.sid
      /\ s.born = req[q].s.born /\ s.signed = req[q].s.signed
  <2>1. req[q].s \in SessionRecords /\ (IF Rotates THEN q ELSE req[q].s.refresh) \in Ids
    BY <1>0 DEF RequestRecords, SessionRecords, Ids
  <2>. QED
    BY <2>1, LaterIs DEF SessionRecords, SessionInv
<1>2. /\ req[q].pc = "granted" /\ items' = Updated(items, s)
      /\ req' = [req EXCEPT ![q].pc = "page", ![q].s = s]
  BY DEF Refreshed
<1>. HIDE DEF s
<1>3. /\ RequestsOK' /\ req'[q].pc = "page" /\ req'[q].s = s
      /\ \A r \in Requests \ {q} : req'[r] = req[r]
  BY <1>1, <1>2 DEF SessionInv, RequestsOK, RequestRecords
<1>4. /\ DOMAIN items' = DOMAIN items
      /\ \A x \in DOMAIN items' : items'[x] = IF x = s.sid THEN s ELSE items[x]
  BY <1>2 DEF Updated, Stored
<1>5. \A r \in Requests : req[r].pc \notin Fresh => req'[r].pc \notin Fresh
  BY <1>3 DEF Fresh
<1>6. s.sid \in DOMAIN items =>
        /\ s.born = items[s.sid].born /\ s.signed = items[s.sid].signed
  <2>1. s.sid \in DOMAIN items => s.sid # Nobody
    BY SessionConstants DEF SessionInv, ItemsOK, Settled, Requests
  <2>. QED
    BY <2>1, <1>1 DEF SessionInv, CopiesOK
<1>7. \A x \in DOMAIN items' :
        x \in DOMAIN items /\ items'[x].born = items[x].born /\ items'[x].signed = items[x].signed
  BY <1>4, <1>6
<1>8. ItemsOK'
  <2> SUFFICES ASSUME NEW x \in DOMAIN items'
               PROVE  /\ x \in Requests /\ req'[x].pc \notin Fresh
                      /\ items'[x] \in SessionRecords /\ items'[x].sid = x
    BY DEF ItemsOK, Settled
  <2>. QED
    BY <1>1, <1>4, <1>5 DEF SessionInv, ItemsOK, Settled
<1>9. CopiesOK'
  <2> SUFFICES ASSUME NEW r \in Requests, req'[r].s.sid # Nobody
               PROVE  /\ req'[r].s.sid \in Requests /\ req'[req'[r].s.sid].pc \notin Fresh
                      /\ req'[r].s.sid \in DOMAIN items' =>
                           /\ req'[r].s.born = items'[req'[r].s.sid].born
                           /\ req'[r].s.signed = items'[req'[r].s.sid].signed
    BY DEF CopiesOK, Settled
  <2>1. req'[r].s.sid = req[r].s.sid /\ req'[r].s.born = req[r].s.born
        /\ req'[r].s.signed = req[r].s.signed
    BY <1>1, <1>3
  <2>. QED
    BY <2>1, <1>4, <1>5, <1>7 DEF SessionInv, CopiesOK, Settled
<1>10. PendingOK'
  <2>1. Pending(items') = Pending(items)
    BY <1>4, <1>7 DEF Pending
  <2>. QED
    BY <2>1 DEF SessionInv, PendingOK, Pending
<1>. QED
  BY <1>3, <1>7, <1>8, <1>9, <1>10

-----------------------------------------------------------------------------
(* The steps of the specification                                          *)

LEMMA InitSessions == SessionInit => SessionInv
<1>. SUFFICES ASSUME SessionInit
              PROVE  SessionInv
  OBVIOUS
<1>1. DOMAIN items = {} /\ Pending(items) = {} /\ Clock /\ TokensOK
  BY DEF SessionInit, NoSessions, Pending, Clock, TokensOK
<1>2. RequestsOK
  BY UnbornIs DEF SessionInit, RequestsOK
<1>3. CopiesOK
  BY UnbornIs DEF SessionInit, CopiesOK, Unsent
<1>4. PendingOK
  BY <1>1, FS_EmptySet, SessionConstants DEF PendingOK
<1>. QED
  BY <1>1, <1>2, <1>3, <1>4 DEF SessionInv, ItemsOK

LEMMA ClockMoves ==
  ASSUME SessionInv, [SessionNext]_sessionVars
  PROVE  Clock' /\ now' >= now
<1>1. now' = now \/ now' = now + 1
  BY DEF SessionNext, sessionVars, Tick, WebRestarts, Login, Visit, Callback, Redirected,
         Consents, Exchanged, SignsIn, Granted, Refreshed, CallLost, Served, Unauthorized,
         Logout, LoggedOut
<1>. QED
  BY <1>1 DEF SessionInv, Clock

LEMMA TokensMove ==
  ASSUME SessionInv, [SessionNext]_sessionVars
  PROVE  TokensOK'
<1>1. /\ codes' \subseteq codes \cup Requests
      /\ grants' \subseteq grants \cup Requests
  BY DEF SessionNext, sessionVars, Tick, WebRestarts, Login, Visit, Callback, Redirected,
         Consents, Exchanged, SignsIn, Granted, Refreshed, CallLost, Served, Unauthorized,
         Logout, LoggedOut
<1>. QED
  BY <1>1 DEF SessionInv, TokensOK

(* A session that a step leaves in the store was there before, made and    *)
(* signed in alike; or it is pending; or the callback has just made it.    *)
Honest ==
  \A x \in DOMAIN items' :
    \/ x \in DOMAIN items /\ items'[x].born = items[x].born /\ items'[x].signed = items[x].signed
    \/ ~items'[x].signed
    \/ x \in Requests /\ req[x].pc = "me" /\ req'[x].pc = "done"

LEMMA ShrinkingIsHonest == Shrinks => Honest
  BY DEF Shrinks, Honest

(* Steps that change a request's pc only.                                  *)
LEMMA StoreMoves ==
  ASSUME SessionInv, NEW q \in Requests,
         NEW pc \in {"me", "granted", "bye"}, req' = [req EXCEPT ![q].pc = pc], Shrinks,
         pc = "me" => req[q].pc \in Fresh
  PROVE  RequestsOK' /\ ItemsOK' /\ CopiesOK' /\ PendingOK'
<1>1. RequestsOK'
  BY DEF SessionInv, RequestsOK, RequestRecords
<1>2. Carries
  BY DEF SessionInv, RequestsOK, RequestRecords, Carries, Fresh
<1>. QED
  BY <1>1, <1>2, CarryingIs

LEMMA StepSessions ==
  ASSUME SessionInv, [SessionNext]_sessionVars
  PROVE  SessionInv' /\ Honest
<1>. DEFINE Goal == RequestsOK' /\ ItemsOK' /\ CopiesOK' /\ PendingOK' /\ Honest
<1>1. CASE UNCHANGED <<items, req>>
  <2>1. Shrinks /\ Carries /\ RequestsOK'
    BY <1>1 DEF Shrinks, Carries, SessionInv, RequestsOK
  <2>. QED
    BY <2>1, CarryingIs, ShrinkingIsHonest, ClockMoves, TokensMove DEF SessionInv
<1>2. CASE WebRestarts
  <2>1. Shrinks
    BY <1>2 DEF WebRestarts, NoSessions, Shrinks
  <2>2. RequestsOK' /\ Carries
    BY <1>2, UnbornIs DEF WebRestarts, Carries, SessionInv, RequestsOK, RequestRecords, Fresh
  <2>. QED
    BY <2>1, <2>2, CarryingIs, ShrinkingIsHonest, ClockMoves, TokensMove DEF SessionInv
<1>3. ASSUME NEW q \in Requests, NEW b \in Browsers, Login(q, b)
      PROVE  Goal
  BY <1>3, LoginIs DEF Honest
<1>4. ASSUME NEW q \in Requests, NEW b \in Browsers, NEW kind \in {"page", "logout"}, Visit(q, b, kind)
      PROVE  Goal
  <2>. DEFINE s == OfCookie(b)
              next == IF ~s.signed THEN "done"
                      ELSE IF s.until - now > Leeway THEN "page"
                      ELSE IF s.refresh = Nobody THEN "done" ELSE "refresh"
  <2>1. Sends(q, b, kind, next, s) /\ UNCHANGED items
    BY <1>4 DEF Visit
  <2>2. next \in {"done", "discover", "exchange", "page", "refresh"}
    OBVIOUS
  <2>. HIDE DEF s, next
  <2>3. Shrinks
    BY <2>1, Keeping
  <2>. QED
    BY <2>1, <2>2, <2>3, Sending, ShrinkingIsHonest DEF s
<1>5. ASSUME NEW q \in Requests, NEW b \in Browsers, NEW st \in Requests, NEW refused \in BOOLEAN,
             Callback(q, b, st, refused)
      PROVE  Goal
  <2>. DEFINE s == OfCookie(b)
  <2>1. \/ Sends(q, b, "callback", "done", Unborn) /\ UNCHANGED items
        \/ Sends(q, b, "callback", "done", Unborn) /\ items' = Dropped(items, {s.sid})
        \/ Sends(q, b, "callback", "exchange", s) /\ UNCHANGED items
    BY <1>5 DEF Callback
  <2>2. Shrinks
    BY <2>1, Keeping, Dropping
  <2>. QED
    BY <2>1, <2>2, Sending, ShrinkingIsHonest
<1>6. ASSUME NEW q \in Requests,
             Redirected(q) \/ CallLost(q) \/ Served(q) \/ Unauthorized(q) \/ LoggedOut(q)
      PROVE  Goal
  <2>1. Finishes(q) /\ (UNCHANGED items \/ items' = Dropped(items, {req[q].s.sid}))
    BY <1>6 DEF Redirected, CallLost, Served, Unauthorized, LoggedOut
  <2>2. Shrinks
    BY <2>1, Keeping, Dropping
  <2>. QED
    BY <2>1, <2>2, Finishing, ShrinkingIsHonest
<1>7. ASSUME NEW q \in Requests, Exchanged(q)
      PROVE  Goal
  <2>1. req' = [req EXCEPT ![q].pc = "me"] /\ req[q].pc \in Fresh /\ Shrinks
    BY <1>7, Keeping DEF Exchanged, Fresh
  <2>. QED
    BY <2>1, StoreMoves, ShrinkingIsHonest
<1>8. ASSUME NEW q \in Requests, Granted(q) \/ Logout(q)
      PROVE  Goal
  <2>1. \/ req' = [req EXCEPT ![q].pc = "granted"] /\ UNCHANGED items
        \/ req' = [req EXCEPT ![q].pc = "bye"] /\ items' = Dropped(items, {req[q].s.sid})
    BY <1>8 DEF Granted, Logout
  <2>2. Shrinks
    BY <2>1, Keeping, Dropping
  <2>. QED
    BY <2>1, <2>2, StoreMoves, ShrinkingIsHonest
<1>9. ASSUME NEW q \in Requests, SignsIn(q)
      PROVE  Goal
  <2>1. req[q].pc = "me" /\ req'[q].pc = "done"
    BY <1>9, FinishesIs DEF SignsIn, SessionInv
  <2>. QED
    BY <1>9, <2>1, SignsInIs DEF Honest
<1>10. ASSUME NEW q \in Requests, Refreshed(q)
       PROVE  Goal
  BY <1>10, RefreshedIs DEF Honest
<1>11. CASE UNCHANGED sessionVars
  BY <1>1, <1>11 DEF sessionVars
<1>12. CASE Tick
  BY <1>1, <1>12 DEF Tick
<1>13. ASSUME NEW q \in Requests, Consents(q)
       PROVE  SessionInv' /\ Honest
  BY <1>1, <1>13 DEF Consents
<1>14. CASE Goal
  BY <1>14, ClockMoves, TokensMove DEF SessionInv
<1>. QED
  BY <1>2, <1>3, <1>4, <1>5, <1>6, <1>7, <1>8, <1>9, <1>10, <1>11, <1>12, <1>13, <1>14
     DEF SessionNext

LEMMA InductiveSessions == SessionSpec => []SessionInv
<1>1. SessionInv /\ [SessionNext]_sessionVars => SessionInv'
  BY StepSessions
<1>. QED
  BY <1>1, InitSessions, PTL DEF SessionSpec

-----------------------------------------------------------------------------
(* Theorems                                                                *)

(* The store holds sessions under their own ids, of requests that were     *)
(* made, a signed one without a login under way, and never more pending    *)
(* ones than MAX_PENDING (sessions.py: _cap_pending), whatever number of   *)
(* browsers begin to log in.                                               *)
THEOREM StoreTypes == SessionSpec => []SessionTypes
<1>1. SessionInv => SessionTypes
  BY DEF SessionInv, SessionTypes, TokensOK, ItemsOK, PendingOK, Settled, SessionRecords
<1>. QED
  BY <1>1, InductiveSessions, PTL

(* A session is signed in only by the callback that made it, not by the    *)
(* late answer to any request of a session that was logged out, dropped,   *)
(* replaced or is too old (sessions.py: update, rotate).                   *)
THEOREM SignInsAreFinal == SessionSpec => SignInsFinal
<1>. DEFINE Signs == \A sid \in Requests :
       (SignedIn(sid)' /\ ~SignedIn(sid)) => req[sid].pc = "me" /\ req'[sid].pc = "done"
<1>1. SessionInv /\ [SessionNext]_sessionVars => [Signs]_sessionVars
  <2> SUFFICES ASSUME SessionInv, [SessionNext]_sessionVars, NEW sid \in Requests,
                      SignedIn(sid)', ~SignedIn(sid)
               PROVE  req[sid].pc = "me" /\ req'[sid].pc = "done"
    OBVIOUS
  <2>1. /\ sid \in DOMAIN items' /\ items'[sid].signed
        /\ now' - items'[sid].born <= MaxAge
    BY DEF SignedIn, Found, Alive
  <2>2. CASE sid \in DOMAIN items /\ items'[sid].born = items[sid].born
             /\ items'[sid].signed = items[sid].signed
    <3>1. now' >= now /\ now' \in Nat /\ now \in Nat /\ items[sid].born \in Nat /\ MaxAge \in Nat
      BY <2>2, ClockMoves, SessionConstants DEF Clock, SessionInv, ItemsOK, SessionRecords
    <3>2. now - items[sid].born <= MaxAge
      BY <2>1, <2>2, <3>1
    <3>3. SignedIn(sid)
      BY <2>1, <2>2, <3>2 DEF SignedIn, Found, Alive
    <3>. QED
      BY <3>3
  <2>. QED
    BY <2>1, <2>2, StepSessions DEF Honest
<1>. QED
  BY <1>1, InductiveSessions, PTL DEF SessionSpec, SignInsFinal

-----------------------------------------------------------------------------
(* The types of the reconcilers, whatever they are told and whatever the   *)
(* names of the policies: what is left to write is fine, and what is made  *)
(* is a companion.                                                         *)
OnlyCompanions(todo) == \A w \in todo : w.op = "post" => w.pol.comp

TypedRun(q) ==
  /\ RunShape(q) /\ OnlyCompanions(q.todo) /\ (q.todo # {} <=> q.pc = "write")
  /\ Started(q) => q.steps \in Seq(AllSteps)
  /\ q.pc \in {"write", "end"} => q.steps # <<>>

TypedRuns ==
  ArePolicies(pols) /\ run = [x \in Runners |-> run[x]] /\ \A x \in Runners : TypedRun(run[x])

TypedCounts ==
  /\ DOMAIN devices \subseteq DOMAIN Devices
  /\ report \in {"none", "OK", "CRIT"} /\ deeds \in 0..MaxDeeds /\ errors \in 0..MaxErrors

LEMMA PostsAreCompanions ==
  ASSUME NEW order, NEW p, NEW d, NEW step \in AllSteps
  PROVE  OnlyCompanions(WritesOf(order, step, p, d))
<1>1. SUFFICES ASSUME NEW w \in WritesOf(order, step, p, d), w.op = "post"  PROVE w.pol.comp
  BY Zenon DEF OnlyCompanions
<1>2. CASE step = "posture"
  <2>1. AttachWrite(order, p, w)
    BY <1>2, WritesIs, AttachWritesAre
  <2> QED  BY <1>1, <2>1 DEF AttachWrite, Attaching
<1>3. CASE step = "ping"
  <2>1. w \in PingWrites(p) /\ w.op # "delete"
    BY <1>1, <1>3, WritesIs
  <2>2. PICK i \in DOMAIN p : w.pol = PingPayload(p[i])
    BY <2>1, PingOps, Zenon
  <2> DEFINE yes == TRUE
  <2>3. PingPayload(p[i]).comp = yes
    <3> HIDE DEF yes
    <3>1. PingPayload(p[i]) =
            [name |-> p[i].name, comp |-> yes, marks |-> CompanionMarks(p[i]), on |-> p[i].on,
             checks |-> p[i].checks, rules |-> [n \in Qualifying(p[i]) |-> MirrorRule(p[i].rules[n])]]
      BY Zenon DEF PingPayload, yes
    <3> QED  BY <3>1
  <2> QED  BY <2>2, <2>3, Zenon
<1>4. CASE step = "remove"
  <2>1. w \in RemoveWrites(p)
    BY <1>4, WritesIs, Zenon
  <2> QED  BY <1>1, <2>1 DEF RemoveWrites
<1>5. CASE step = "sweep"
  <2>1. w \in SweepWrites(d)
    BY <1>5, WritesIs, Zenon
  <2> QED  BY <1>1, <2>1 DEF SweepWrites
<1> QED  BY <1>2, <1>3, <1>4, <1>5 DEF AllSteps

LEMMA OneIsTyped ==
  ASSUME TypedRuns, NEW x \in Runners, NEW r, OneMoves(x, r), TypedRun(r), UNCHANGED pols
  PROVE  TypedRuns'
<1>1. /\ run' = [y \in Runners |-> run'[y]] /\ run'[x] = r
      /\ \A y \in Runners : y # x => run'[y] = run[y]
  BY DEF TypedRuns, OneMoves
<1>2. \A y \in Runners : TypedRun(run'[y])
  BY <1>1, Zenon DEF TypedRuns
<1>3. ArePolicies(pols')
  BY Zenon DEF TypedRuns
<1> QED  BY <1>1, <1>2, <1>3, Zenon DEF TypedRuns

LEMMA RestlessTyped ==
  ASSUME NEW q, TypedRun(q)
  PROVE  TypedRun([q EXCEPT !.calm = FALSE])
<1> DEFINE no == FALSE
           r == [q EXCEPT !.calm = no]
<1>1. RunShape(r)
  BY RestlessShape, Zenon DEF TypedRun
<1> HIDE DEF no
<1>2. r.pc = q.pc /\ r.todo = q.todo /\ r.steps = q.steps
  BY DEF TypedRun, RunShape
<1> HIDE DEF r
<1>3. TypedRun(r)
  BY <1>1, <1>2, Zenon DEF TypedRun, Started
<1> QED  BY <1>3, Zenon DEF r, no

LEMMA DisturbedTyped ==
  ASSUME TypedRuns, run' = Disturbed(Nothing), ArePolicies(pols')
  PROVE  TypedRuns'
<1>1. \A y \in Runners : y # Nothing
  BY MaintenanceConstants DEF MaintenanceConstants
<1>2. run' = [y \in Runners |-> run'[y]]
      /\ \A y \in Runners : run'[y] = [run[y] EXCEPT !.calm = FALSE]
  BY <1>1 DEF Disturbed
<1>3. \A y \in Runners : TypedRun(run'[y])
  BY <1>2, RestlessTyped, Zenon DEF TypedRuns
<1> QED  BY <1>2, <1>3, Zenon DEF TypedRuns

LEMMA StartTyped ==
  ASSUME TypedRuns, NEW x \in Runners, NEW order \in Orders, RunStarts(x, order)
  PROVE  TypedRuns'
<1> DEFINE no == FALSE
           yes == TRUE
           S == StepsOf(order)
           r == [Asleep EXCEPT !.pc = "list", !.order = order, !.steps = S]
<1>1. OneMoves(x, r) /\ UNCHANGED pols
  BY DEF RunStarts, OneMoves
<1>2. RunShape(r) /\ r.pc = "list" /\ r.steps = S
  BY StartShape, Zenon
<1>3. r.todo = {}
  <2>1. Asleep = [pc |-> "none", order |-> Nothing, steps |-> <<>>,
                  todo |-> {}, failed |-> no, calm |-> yes]
    BY Zenon DEF Asleep
  <2> HIDE DEF no, yes, S
  <2> QED  BY <2>1
<1>4. S \in Seq(AllSteps)
  <2>1. IsOrder(order)
    BY MaintenanceConstants, Zenon DEF MaintenanceConstants
  <2> QED  BY <2>1, StepsAre, Zenon
<1> HIDE DEF r, S
<1>5. TypedRun(r)
  BY <1>2, <1>3, <1>4 DEF TypedRun, OnlyCompanions
<1> QED  BY <1>1, <1>5, OneIsTyped, Zenon

LEMMA GivesUpTyped ==
  ASSUME NEW q, TypedRun(q), q.steps # <<>>, Started(q)
  PROVE  TypedRun(GivesUp(q))
<1> DEFINE r == GivesUp(q)
<1>1. RunShape(r)
  BY GivesUpShape, Zenon DEF TypedRun
<1>2. r.pc = "end" /\ r.todo = {} /\ r.steps = q.steps
  <2> DEFINE yes == TRUE
  <2>1. r = [q EXCEPT !.pc = "end", !.todo = {}, !.failed = yes]
    BY Zenon DEF GivesUp
  <2> HIDE DEF yes, r
  <2> QED  BY <2>1 DEF TypedRun, RunShape
<1> HIDE DEF r
<1>3. TypedRun(r)
  BY <1>1, <1>2 DEF TypedRun, OnlyCompanions
<1> QED  BY <1>3, Zenon DEF r

LEMMA EndTyped ==
  ASSUME NEW q, TypedRun(q), Started(q), NEW pc \in {"end", "done"},
         q.pc = "list", pc = "end" => q.steps # <<>>
  PROVE  TypedRun(Ending(q, pc))
<1> DEFINE r == Ending(q, pc)
<1>1. Reshaped(q, r, pc, q.steps, q.todo)
  BY EndShape DEF TypedRun
<1> HIDE DEF r
<1>2. TypedRun(r)
  BY <1>1 DEF TypedRun, Reshaped, Started
<1> QED  BY <1>2, Zenon DEF r

LEMMA ListTyped ==
  ASSUME TypedRuns, NEW x \in Runners, ListAccount(x)
  PROVE  TypedRuns'
<1> DEFINE q == run[x]
           step == Head(q.steps)
           writes == StepWrites(q.order, step)
<1>1. /\ q.pc = "list" /\ q.steps # <<>> /\ TypedRun(q) /\ Started(q)
      /\ OneMoves(x, IF Refuses(q.order, step) THEN GivesUp(q)
                     ELSE IF writes = {} \/ q.order.dry THEN [q EXCEPT !.pc = "end"]
                     ELSE [q EXCEPT !.pc = "write", !.todo = writes])
      /\ UNCHANGED pols
  BY DEF ListAccount, OneMoves, TypedRuns, Started
<1>2. writes = WritesOf(q.order, step, pols, devices)
  BY Zenon DEF StepWrites, WritesOf
<1>3. step \in AllSteps
  BY <1>1, HeadTailProperties DEF TypedRun
<1>4. FineWrites(writes) /\ OnlyCompanions(writes)
  <2>1. ArePolicies(pols)
    BY Zenon DEF TypedRuns
  <2>2. FineWrites(writes)
    BY <1>2, <1>3, <2>1, WritesFine, Zenon DEF FineWrites
  <2> QED  BY <1>2, <1>3, <2>2, PostsAreCompanions, Zenon
<1>5. TypedRun(GivesUp(q))
  BY <1>1, GivesUpTyped, Zenon
<1>6. TypedRun([q EXCEPT !.pc = "end"])
  <2>1. "end" \in {"end", "done"}
    OBVIOUS
  <2> HIDE DEF q
  <2>2. TypedRun(Ending(q, "end"))
    BY <1>1, <2>1, EndTyped, Zenon
  <2> QED  BY <2>2, Zenon DEF Ending
<1>7. ASSUME writes # {}  PROVE TypedRun([q EXCEPT !.pc = "write", !.todo = writes])
  <2>1. "write" \in {"list", "write", "end", "done"}
    OBVIOUS
  <2> DEFINE r == Writing(q, "write", writes)
  <2> HIDE DEF q, writes
  <2>2. Reshaped(q, r, "write", q.steps, writes)
    BY <1>1, <1>4, <2>1, WriteShape, Zenon DEF TypedRun
  <2> HIDE DEF r
  <2>3. TypedRun(r)
    BY <1>1, <1>4, <1>7, <2>2 DEF TypedRun, Reshaped, Started
  <2> QED  BY <2>3, Zenon DEF r, Writing
<1> HIDE DEF q, writes
<1> QED  BY <1>1, <1>5, <1>6, <1>7, OneIsTyped, Zenon

LEMMA FailTyped ==
  ASSUME TypedRuns, NEW x \in Runners, CallFails(x)
  PROVE  TypedRuns'
<1> DEFINE q == run[x]
<1>1. /\ Started(q) /\ q.steps # <<>> /\ OneMoves(x, GivesUp(q)) /\ UNCHANGED pols
  BY DEF CallFails, OneMoves, Started
<1>2. TypedRun(q)
  BY Zenon DEF TypedRuns
<1> QED  BY <1>1, <1>2, GivesUpTyped, OneIsTyped, Zenon

LEMMA StepEndTyped ==
  ASSUME TypedRuns, NEW x \in Runners, StepEnds(x)
  PROVE  TypedRuns'
<1> DEFINE q == run[x]
           r == Moving(q, "list", Tail(q.steps))
<1>1. q.pc = "end" /\ OneMoves(x, r) /\ UNCHANGED pols /\ TypedRun(q)
  BY DEF StepEnds, OneMoves, Moving, TypedRuns
<1>2. Tail(q.steps) \in Seq(AllSteps) /\ Started(q)
  BY <1>1, HeadTailProperties DEF TypedRun, Started
<1>3. "list" \in {"list", "write", "end", "done"}
  OBVIOUS
<1> HIDE DEF q
<1>4. Reshaped(q, r, "list", Tail(q.steps), q.todo)
  BY <1>1, <1>3, MoveShape DEF TypedRun
<1> HIDE DEF r
<1>5. TypedRun(r)
  BY <1>1, <1>2, <1>4 DEF TypedRun, Reshaped
<1> QED  BY <1>1, <1>5, OneIsTyped, Zenon

LEMMA RunEndTyped ==
  ASSUME TypedRuns, NEW x \in Runners, RunEnds(x)
  PROVE  TypedRuns'
<1> DEFINE q == run[x]
           r == Ending(q, "done")
<1>1. q.pc = "list" /\ Started(q) /\ OneMoves(x, r) /\ UNCHANGED pols /\ TypedRun(q)
  BY DEF RunEnds, OneMoves, Ending, TypedRuns, Started
<1>2. "done" \in {"end", "done"} /\ "done" # "end"
  OBVIOUS
<1> HIDE DEF q
<1>3. TypedRun(r)
  BY <1>1, <1>2, EndTyped, Zenon
<1> QED  BY <1>1, <1>3, OneIsTyped, Zenon

LEMMA WriteTyped ==
  ASSUME TypedRuns, NEW x \in Runners, MakeWrite(x)
  PROVE  TypedRuns' /\ DOMAIN devices' \subseteq DOMAIN devices
<1> DEFINE q == run[x]
<1>1. PICK w \in Ready(q.todo) :
        /\ Effect(w)
        /\ run' = [Disturbed(x) EXCEPT ![x].todo = @ \ {w},
                     ![x].pc = IF run[x].todo = {w} THEN "end" ELSE "write"]
  BY Zenon DEF MakeWrite
<1> DEFINE pc == IF q.todo = {w} THEN "end" ELSE "write"
           r == Writing(q, pc, q.todo \ {w})
<1>2. q.pc = "write" /\ TypedRun(q) /\ RunShape(q) /\ q.steps # <<>> /\ Started(q)
  BY DEF MakeWrite, TypedRuns, TypedRun, Started
<1>3. w \in q.todo /\ FineWrite(w) /\ FineWrites(q.todo \ {w})
  BY <1>2 DEF Ready, RunShape, FineWrites
<1>4. /\ run' = [y \in Runners |-> run'[y]] /\ run'[x] = r
      /\ \A y \in Runners : y # x => run'[y] = [run[y] EXCEPT !.calm = FALSE]
  BY <1>1 DEF Disturbed, Writing
<1>5. pc \in {"write", "end"} /\ (pc = "end" <=> q.todo = {w})
  OBVIOUS
<1>6. Written(pols, w, pols') /\ DOMAIN devices' \subseteq DOMAIN devices
  <2>1. /\ Written(pols, w, pols')
        /\ devices' = IF w.op = "sweep" THEN Less(devices, w.id) ELSE devices
    BY <1>1, <1>3, EffectIs, Zenon
  <2> QED  BY <2>1 DEF Less
<1>7. ArePolicies(pols')
  BY <1>3, <1>6, WrittenTyped, Zenon DEF TypedRuns
<1>8. TypedRun(r)
  <2>1. pc \in {"list", "write", "end", "done"}
    BY <1>5
  <2> HIDE DEF q, pc
  <2>2. Reshaped(q, r, pc, q.steps, q.todo \ {w})
    BY <1>2, <1>3, <2>1, WriteShape, Zenon
  <2> HIDE DEF r
  <2>3. q.todo \ {w} # {} <=> pc = "write"
    BY <1>3, <1>5
  <2> QED  BY <1>2, <1>5, <2>2, <2>3 DEF TypedRun, Reshaped, Started, OnlyCompanions
<1>9. ASSUME NEW y \in Runners  PROVE TypedRun(run'[y])
  <2>1. CASE y = x
    BY <1>4, <1>8, <2>1, Zenon
  <2>2. CASE y # x
    <3>1. TypedRun(run[y]) /\ run'[y] = [run[y] EXCEPT !.calm = FALSE]
      BY <1>4, <2>2, Zenon DEF TypedRuns
    <3> QED  BY <3>1, RestlessTyped, Zenon
  <2> QED  BY <2>1, <2>2
<1> QED  BY <1>4, <1>6, <1>7, <1>9, Zenon DEF TypedRuns

LEMMA MaintenanceTyped ==
  ASSUME MaintenanceInit
  PROVE  TypedRuns /\ TypedCounts
<1>1. ArePolicies(pols) /\ MaxDeeds \in Nat /\ MaxErrors \in Nat
  BY MaintenanceConstants, Zenon DEF MaintenanceConstants, MaintenanceInit
<1>2. run = [x \in Runners |-> Asleep] /\ devices = Devices /\ report = "none"
      /\ deeds = 0 /\ errors = 0
  BY Zenon DEF MaintenanceInit
<1>3. TypedRun(Asleep)
  <2> DEFINE no == FALSE
             yes == TRUE
             r == Asleep
  <2>1. r = [pc |-> "none", order |-> Nothing, steps |-> <<>>,
             todo |-> {}, failed |-> no, calm |-> yes]
    BY Zenon DEF Asleep
  <2> HIDE DEF no, yes, r
  <2>2. TypedRun(r)
    BY <2>1 DEF TypedRun, RunShape, Started, OnlyCompanions
  <2> QED  BY <2>2, Zenon DEF r
<1>4. run = [x \in Runners |-> run[x]] /\ \A x \in Runners : run[x] = Asleep
  BY <1>2
<1>5. TypedRuns
  BY <1>1, <1>3, <1>4, Zenon DEF TypedRuns
<1>6. TypedCounts
  BY <1>1, <1>2 DEF TypedCounts
<1> QED  BY <1>5, <1>6

LEMMA MaintenanceStands ==
  ASSUME TypedRuns, TypedCounts, UNCHANGED maintenanceVars
  PROVE  TypedRuns' /\ TypedCounts'
<1>1. pols' = pols /\ devices' = devices /\ run' = run /\ report' = report
      /\ deeds' = deeds /\ errors' = errors
  BY DEF maintenanceVars
<1> QED  BY <1>1, Zenon DEF TypedRuns, TypedCounts

LEMMA MaintenanceSteps ==
  ASSUME TypedRuns, TypedCounts, MaintenanceNext
  PROVE  TypedRuns' /\ TypedCounts'
<1>1. MaxDeeds \in Nat /\ MaxErrors \in Nat
  BY MaintenanceConstants, Zenon DEF MaintenanceConstants
<1>2. ASSUME NEW x \in Runners, NEW order \in Orders, RunStarts(x, order)
      PROVE  TypedRuns' /\ TypedCounts'
  <2>1. UNCHANGED <<devices, report, deeds, errors>>
    BY <1>2 DEF RunStarts
  <2>2. TypedRuns'
    BY <1>2, StartTyped, Zenon
  <2> QED  BY <2>1, <2>2 DEF TypedCounts
<1>3. ASSUME NEW x \in Runners, ListAccount(x)  PROVE TypedRuns' /\ TypedCounts'
  <2>1. UNCHANGED <<devices, report, deeds, errors>>
    BY <1>3 DEF ListAccount
  <2>2. TypedRuns'
    BY <1>3, ListTyped, Zenon
  <2> QED  BY <2>1, <2>2 DEF TypedCounts
<1>4. ASSUME NEW x \in Runners, MakeWrite(x)  PROVE TypedRuns' /\ TypedCounts'
  <2>1. UNCHANGED <<report, deeds, errors>>
    BY <1>4 DEF MakeWrite
  <2>2. TypedRuns' /\ DOMAIN devices' \subseteq DOMAIN devices
    BY <1>4, WriteTyped, Zenon
  <2> QED  BY <2>1, <2>2 DEF TypedCounts
<1>5. ASSUME NEW x \in Runners, CallFails(x)  PROVE TypedRuns' /\ TypedCounts'
  <2>1. UNCHANGED <<devices, report, deeds>> /\ errors' \in 0..MaxErrors
    BY <1>1, <1>5 DEF CallFails, TypedCounts
  <2>2. TypedRuns'
    BY <1>5, FailTyped, Zenon
  <2> QED  BY <2>1, <2>2 DEF TypedCounts
<1>6. ASSUME NEW x \in Runners, StepEnds(x)  PROVE TypedRuns' /\ TypedCounts'
  <2>1. UNCHANGED <<devices, report, deeds, errors>>
    BY <1>6 DEF StepEnds
  <2>2. TypedRuns'
    BY <1>6, StepEndTyped, Zenon
  <2> QED  BY <2>1, <2>2 DEF TypedCounts
<1>7. ASSUME NEW x \in Runners, RunEnds(x)  PROVE TypedRuns' /\ TypedCounts'
  <2>1. UNCHANGED <<devices, deeds, errors>> /\ report' \in {"none", "OK", "CRIT"}
    BY <1>7 DEF RunEnds, TypedCounts
  <2>2. TypedRuns'
    BY <1>7, RunEndTyped, Zenon
  <2> QED  BY <2>1, <2>2 DEF TypedCounts
<1>8. ASSUME NEW d \in Deeds, UserActs(d)  PROVE TypedRuns' /\ TypedCounts'
  <2>1. UNCHANGED <<devices, report, errors>> /\ deeds' \in 0..MaxDeeds
    BY <1>1, <1>8 DEF UserActs, TypedCounts
  <2>2. TypedRuns'
    BY <1>8, DeedKeepsPolicies, DisturbedTyped, Zenon DEF UserActs, TypedRuns
  <2> QED  BY <2>1, <2>2 DEF TypedCounts
<1>9. ASSUME NEW p \in DOMAIN devices, DeviceActs(p)  PROVE TypedRuns' /\ TypedCounts'
  <2>1. UNCHANGED <<pols, report, errors>> /\ deeds' \in 0..MaxDeeds
        /\ DOMAIN devices' = DOMAIN devices
    BY <1>1, <1>9 DEF DeviceActs, TypedCounts
  <2>2. TypedRuns'
    BY <1>9, <2>1, DisturbedTyped, Zenon DEF DeviceActs, TypedRuns
  <2> QED  BY <2>1, <2>2 DEF TypedCounts
<1> QED
  BY <1>2, <1>3, <1>4, <1>5, <1>6, <1>7, <1>8, <1>9, Zenon DEF MaintenanceNext

LEMMA TypedRunsAre ==
  ASSUME TypedRuns, TypedCounts
  PROVE  MaintenanceTypes
<1>1. DOMAIN pols \subseteq PolicyIds
  BY Zenon DEF TypedRuns, ArePolicies
<1>2. ASSUME NEW x \in Runners
      PROVE  /\ run[x].pc \in {"none", "list", "write", "end", "done"}
             /\ (run[x].todo # {}) <=> (run[x].pc = "write")
             /\ \A w \in run[x].todo : w.op = "post" => w.pol.comp
  BY Zenon DEF TypedRuns, TypedRun, RunShape, OnlyCompanions
<1> QED  BY <1>1, <1>2, Zenon DEF TypedCounts, MaintenanceTypes

-----------------------------------------------------------------------------
(* The three parts together.                                               *)

(* The variables of the reconcilers keep their types, whatever they are    *)
(* told: what is posted is always a companion (allow_ping.py), and a run   *)
(* has something left to write exactly while it writes.                    *)
THEOREM ReconcilerTypes == MaintenanceSpec => []MaintenanceTypes
<1>1. (TypedRuns /\ TypedCounts) /\ [MaintenanceNext]_maintenanceVars
        => (TypedRuns /\ TypedCounts)'
  BY MaintenanceSteps, MaintenanceStands, Zenon
<1> QED  BY <1>1, MaintenanceTyped, TypedRunsAre, PTL DEF MaintenanceSpec

(* Editors, reconcilers and logins keep their types, for any account, and  *)
(* any number of users, runs and requests.                                 *)
THEOREM WebTypesHold == Spec => []TypeOK
<1>1. Init => EditInit /\ MaintenanceInit /\ SessionInit
  BY DEF Init
<1>2. [Next]_<<editVars, maintenanceVars, sessionVars, part>>
        => [EditNext]_editVars /\ [MaintenanceNext]_maintenanceVars /\ [SessionNext]_sessionVars
  BY DEF Next
<1>3. Spec => EditSpec /\ MaintenanceSpec /\ SessionSpec
  BY <1>1, <1>2, PTL DEF Spec, EditSpec, MaintenanceSpec, SessionSpec
<1>4. EditTypes /\ MaintenanceTypes /\ SessionTypes => TypeOK
  BY DEF TypeOK
<1> QED  BY <1>3, <1>4, AccountStaysValid, ReconcilerTypes, StoreTypes, PTL
=============================================================================
