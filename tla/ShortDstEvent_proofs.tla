------------------------ MODULE ShortDstEvent_proofs ------------------------
(***************************************************************************)
(* Proofs about the maps and columns of TrackingWriter, for any events and *)
(* any number of PAs, VECP entries and vertices.                           *)
(***************************************************************************)
EXTENDS ShortDstEvent, LeastElement, TLAPS

-----------------------------------------------------------------------------
(* The operators.                                                          *)

LEMMA EventFacts ==
  ASSUME NEW e, EventShape(e)
  PROVE  /\ e.pa \in Seq(Pa) /\ Len(e.pa) \in Nat /\ DOMAIN e.pa = 1 .. Len(e.pa)
         /\ e.vecp \in Seq(Vecp(Len(e.pa)))
         /\ Len(e.vecp) \in Nat /\ DOMAIN e.vecp = 1 .. Len(e.vecp)
<1>1. e.pa \in Seq(Pa) /\ e.vecp \in Seq(Vecp(Len(e.pa)))
  BY DEF EventShape
<1> QED BY <1>1

\* find_vecp_index answers 0, or an entry of the PA and with the charge it was
\* asked for.
LEMMA VecpIndexFound ==
  ASSUME EventShape(event), NEW p, NEW charged
  PROVE  \/ VecpIndex(p, charged) = 0
         \/ /\ VecpIndex(p, charged) \in DOMAIN event.vecp
            /\ VecpIndex(p, charged) \in Nat \ {0}
            /\ event.vecp[VecpIndex(p, charged)].pa = p
            /\ event.vecp[VecpIndex(p, charged)].charged = charged
<1> DEFINE M == {i \in DOMAIN event.vecp :
                   event.vecp[i].pa = p /\ event.vecp[i].charged = charged}
<1>1. VecpIndex(p, charged) = IF M = {} THEN 0 ELSE CHOOSE i \in M : \A j \in M : i <= j
  BY DEF VecpIndex
<1>2. DOMAIN event.vecp \subseteq Nat \ {0}
  BY EventFacts
<1>3. M \subseteq DOMAIN event.vecp
  OBVIOUS
<1>4. CASE M # {}
  <2>1. \E i \in M : \A j \in M : i <= j
    <3>1. M \in SUBSET Nat
      BY <1>2, <1>3
    <3> HIDE DEF M
    <3> QED BY <3>1, <1>4, LeastNat
  <2>2. VecpIndex(p, charged) \in M
    <3> HIDE DEF M
    <3> QED BY <1>1, <1>4, <2>1
  <2> QED BY <2>2, <1>2
<1>5. CASE M = {}
  BY <1>1, <1>5
<1> QED BY <1>4, <1>5

\* While Tracking is at PA number Len(paToParticle) + 1, setting its entry
\* lengthens the map by one.
LEMMA PaEntryAppends ==
  ASSUME NEW S, paToParticle \in Seq(S), at \in Nat, Len(paToParticle) = at - 1, NEW q \in S
  PROVE  /\ PaEntry(q) \in Seq(S)
         /\ Len(PaEntry(q)) = at
         /\ DOMAIN PaEntry(q) = 1 .. at
         /\ PaEntry(q)[at] = q
         /\ \A k \in DOMAIN paToParticle : PaEntry(q)[k] = paToParticle[k]
<1>1. Len(paToParticle) \in Nat /\ DOMAIN paToParticle = 1 .. Len(paToParticle)
  OBVIOUS
<1>2. PaEntry(q) = [k \in 1 .. at |-> IF k = at THEN q ELSE
                      IF k <= Len(paToParticle) THEN paToParticle[k] ELSE 0]
  BY <1>1 DEF PaEntry, Put
<1>3. \A k \in 1 .. at : k = at \/ k \in DOMAIN paToParticle
  BY <1>1
<1>4. \A k \in DOMAIN paToParticle : paToParticle[k] \in S
  OBVIOUS
<1>5. PaEntry(q) \in [1 .. at -> S]
  BY <1>1, <1>2, <1>3, <1>4
<1> QED BY <1>1, <1>2, <1>5

\* Appending to any sequence, whatever it holds.
LEMMA AppendAny ==
  ASSUME NEW s, s \in Seq({s[k] : k \in DOMAIN s}), NEW e
  PROVE  LET t == Append(s, e) IN
         /\ t \in Seq({t[k] : k \in DOMAIN t})
         /\ Len(s) \in Nat /\ DOMAIN s = 1 .. Len(s)
         /\ Len(t) = Len(s) + 1 /\ DOMAIN t = 1 .. Len(s) + 1
         /\ t[Len(s) + 1] = e
         /\ \A k \in DOMAIN s : t[k] = s[k]
<1> DEFINE S == {s[k] : k \in DOMAIN s}
           R == S \cup {e}
           t == Append(s, e)
<1>1. Len(s) \in Nat /\ DOMAIN s = 1 .. Len(s) /\ \A k \in DOMAIN s : s[k] \in S
  OBVIOUS
<1>2. s \in Seq(R)
  <2>1. S \subseteq R /\ s \in Seq(S)
    OBVIOUS
  <2> HIDE DEF S, R
  <2> QED BY <2>1
<1>3. /\ t \in Seq(R) /\ Len(t) = Len(s) + 1 /\ t[Len(s) + 1] = e
      /\ \A k \in 1 .. Len(s) : t[k] = s[k]
  <2>1. e \in R
    OBVIOUS
  <2> HIDE DEF R
  <2> QED BY <1>2, <2>1
<1>4. DOMAIN t = 1 .. Len(t) /\ Len(t) \in Nat
  BY <1>3
<1>5. t \in Seq({t[k] : k \in DOMAIN t})
  <2> HIDE DEF t
  <2>1. t \in [1 .. Len(t) -> {t[k] : k \in DOMAIN t}]
    BY <1>3, <1>4
  <2> QED BY <2>1, <1>4
<1> QED BY <1>1, <1>3, <1>4, <1>5

-----------------------------------------------------------------------------
(* The invariant.                                                          *)

LEMMA InitIInv == Init => IInv
<1> SUFFICES ASSUME Init PROVE IInv
  OBVIOUS
<1>1. EventShape(event)
  BY EventAssumption DEF Init
<1>2. Indexed
  BY <1>1, EventFacts DEF Init, Indexed
<1>3. MapsAgree /\ Parallel /\ WalkOrder
  BY <1>1, EventFacts DEF Init, MapsAgree, Parallel, WalkOrder
<1>4. ImpactFilled
  BY DEF Init, ImpactFilled, Late
<1>5. Linked
  BY DEF Init, Linked
<1> QED BY <1>2, <1>3, <1>4, <1>5 DEF IInv

\* A step of a writer other than Tracking and VertexTail.
LEMMA ElsewhereIInv ==
  ASSUME IInv, UNCHANGED <<event, writer, tracking, impact>>, at' \in {at, at + 1},
         writer # "Tracking", writer # "VertexTail"
  PROVE  IInv'
<1>1. Indexed'
  BY DEF IInv, Indexed, tracking
<1>2. WalkOrder' /\ ImpactFilled'
  BY DEF IInv, WalkOrder, ImpactFilled, tracking
<1>3. MapsAgree' /\ Parallel' /\ Linked'
  BY DEF IInv, MapsAgree, Parallel, Linked, tracking
<1> QED BY <1>1, <1>2, <1>3 DEF IInv

\* The writers in their order.
LEMMA WriterOrder ==
  ASSUME writer \in {Writers[k] : k \in DOMAIN Writers},
         NextWriter
  PROVE  /\ writer' \in Early => writer \in Early
         /\ writer' = "Tracking" => writer \in Early
         /\ writer' = "VertexTail" => writer = "DecayVertex"
         /\ writer' \in Late => writer \in Late \cup {"VertexTail"}
<1> DEFINE k == CHOOSE k \in DOMAIN Writers : Writers[k] = writer
<1>1. k \in 1 .. 22 /\ Writers[k] = writer /\ Len(Writers) = 22
  BY DEF Writers
<1>2. writer' = IF k = 22 THEN "done" ELSE Writers[k + 1]
  BY <1>1 DEF NextWriter
<1> HIDE DEF k
<1>3. k \in 1 .. 3 \/ k = 4 \/ k \in 5 .. 7 \/ k = 8 \/ k = 9 \/ k \in 10 .. 22
  BY <1>1
<1>4. CASE k \in 1 .. 3
  BY <1>1, <1>2, <1>4 DEF Writers, Early, Late
<1>5. CASE k = 4
  BY <1>1, <1>2, <1>5 DEF Writers, Early, Late
<1>6. CASE k \in 5 .. 7
  BY <1>1, <1>2, <1>6 DEF Writers, Early, Late
<1>7. CASE k = 8
  BY <1>1, <1>2, <1>7 DEF Writers, Early, Late
<1>8. CASE k = 9
  BY <1>1, <1>2, <1>8 DEF Writers, Early, Late
<1>9. CASE k \in 10 .. 22
  BY <1>1, <1>2, <1>9 DEF Writers, Early, Late
<1> QED BY <1>3, <1>4, <1>5, <1>6, <1>7, <1>8, <1>9

LEMMA NextWriterIInv == ASSUME IInv, NextWriter PROVE IInv'
<1>1. /\ UNCHANGED <<event, tracking, impact>> /\ at' = 1
      /\ writer \in {Writers[k] : k \in DOMAIN Writers}
      /\ at > Limit(writer)
  BY DEF NextWriter, vertexing
<1>2. Indexed'
  BY <1>1 DEF IInv, Indexed, tracking
<1>3. MapsAgree' /\ Parallel' /\ Linked'
  BY <1>1 DEF IInv, MapsAgree, Parallel, Linked, tracking
<1>4. WalkOrder'
  <2>1. writer' \in Early \cup {"Tracking"} => paToParticle' = <<>>
    BY <1>1, WriterOrder DEF IInv, WalkOrder, tracking
  <2> QED BY <2>1, <1>1 DEF WalkOrder
<1>5. ImpactFilled'
  <2>1. writer = "VertexTail" => Limit(writer) = 1
    BY DEF Limit, PaWalkers
  <2>2. writer' \in Late => Len(impact) = Len(tracks)
    BY <1>1, <2>1, WriterOrder DEF IInv, ImpactFilled
  <2> QED BY <2>2, <1>1 DEF ImpactFilled, tracking
<1> QED BY <1>2, <1>3, <1>4, <1>5 DEF IInv

LEMMA VertexTailIInv == ASSUME IInv, VertexTail PROVE IInv'
<1>1. UNCHANGED <<event, writer, tracking>> /\ at' = at + 1 /\ writer = "VertexTail"
  BY DEF VertexTail, Round
<1>2. Indexed'
  BY <1>1 DEF IInv, Indexed, tracking
<1>3. MapsAgree' /\ Parallel' /\ Linked'
  BY <1>1 DEF IInv, MapsAgree, Parallel, Linked, tracking
<1>4. WalkOrder'
  BY <1>1 DEF IInv, WalkOrder, tracking, Early
<1>5. Len(impact') = Len(tracks)
  <2>1. DOMAIN tracks = 1 .. Len(tracks) /\ Len(tracks) \in Nat
    BY DEF IInv, Indexed
  <2> QED BY <2>1 DEF VertexTail
<1>6. ImpactFilled'
  BY <1>1, <1>5 DEF ImpactFilled, tracking
<1> QED BY <1>2, <1>3, <1>4, <1>6 DEF IInv

-----------------------------------------------------------------------------
(* The three ways Tracking leaves a PA.                                     *)

Particle == [pa : Nat, vecp : Nat, charge : {"neutral", "signed", "unsigned"},
             momentum : {"vecp", "zero"}, track : Nat]

\* No map leads to the PA Tracking is at, or to its VECP entries.
LEMMA FreshPa ==
  ASSUME IInv, writer = "Tracking"
  PROVE  /\ at \notin DOMAIN paToParticle
         /\ \A q \in DOMAIN particles : particles[q].pa # at
         /\ \A i \in DOMAIN event.vecp : event.vecp[i].pa = at => vecpToParticle[i] = 0
<1>1. at \in Nat /\ Len(paToParticle) = at - 1 /\ DOMAIN paToParticle = 1 .. Len(paToParticle)
  BY DEF IInv, Indexed, WalkOrder
<1>2. at \notin DOMAIN paToParticle
  BY <1>1
<1>3. \A q \in DOMAIN particles : particles[q].pa # at
  BY <1>2 DEF IInv, MapsAgree
<1>4. ASSUME NEW i \in DOMAIN event.vecp, event.vecp[i].pa = at PROVE vecpToParticle[i] = 0
  <2>1. DOMAIN vecpToParticle = DOMAIN event.vecp
        /\ vecpToParticle[i] \in 0 .. Len(particles)
        /\ DOMAIN particles = 1 .. Len(particles) /\ Len(particles) \in Nat
    BY <1>4 DEF IInv, Indexed
  <2>2. CASE vecpToParticle[i] # 0
    <3>1. vecpToParticle[i] \in DOMAIN particles
      BY <2>1, <2>2
    <3>2. particles[vecpToParticle[i]].pa = event.vecp[i].pa
      BY <2>1, <2>2 DEF IInv, MapsAgree
    <3> QED BY <3>1, <3>2, <1>3, <1>4
  <2> QED BY <2>2
<1> QED BY <1>2, <1>3, <1>4

LEMMA SkippedPaIInv == ASSUME IInv, SkippedPa PROVE IInv'
<1> DEFINE S == 0 .. Len(particles)
<1>1. /\ UNCHANGED <<event, writer, particles, tracks, words, columns, vecpToParticle, impact>>
      /\ at' = at + 1 /\ writer = "Tracking" /\ paToParticle' = PaEntry(0)
  BY DEF SkippedPa, Round, vertexing
<1>2. /\ paToParticle \in Seq(S) /\ at \in Nat \ {0} /\ Len(paToParticle) = at - 1 /\ 0 \in S
      /\ DOMAIN paToParticle = 1 .. Len(paToParticle)
  BY <1>1 DEF IInv, Indexed, WalkOrder
<1>3. /\ paToParticle' \in Seq(S) /\ Len(paToParticle') = at /\ DOMAIN paToParticle' = 1 .. at
      /\ paToParticle'[at] = 0
      /\ \A k \in DOMAIN paToParticle : paToParticle'[k] = paToParticle[k]
  <2> HIDE DEF S
  <2> QED BY <1>1, <1>2, PaEntryAppends
<1>4. Indexed'
  BY <1>1, <1>2, <1>3 DEF IInv, Indexed
<1>5. WalkOrder' /\ ImpactFilled'
  BY <1>1, <1>2, <1>3 DEF WalkOrder, ImpactFilled, Early, Late
<1>6. MapsAgree'
  <2>1. \A p \in DOMAIN paToParticle' : p = at \/ p \in DOMAIN paToParticle
    BY <1>2, <1>3
  <2>2. \A p \in DOMAIN paToParticle : p \in DOMAIN paToParticle'
    BY <1>2, <1>3
  <2> QED BY <1>1, <1>3, <2>1, <2>2 DEF IInv, MapsAgree
<1>7. Parallel' /\ Linked'
  BY <1>1 DEF IInv, Parallel, Linked
<1> QED BY <1>4, <1>5, <1>6, <1>7 DEF IInv

\* A particle is made for the PA Tracking is at, with VECP index i or none.
LEMMA RecordedMaps ==
  ASSUME IInv, writer = "Tracking", event' = event, NEW i \in Nat,
         i # 0 => i \in DOMAIN event.vecp /\ event.vecp[i].pa = at,
         NEW new \in Particle, new.pa = at, new.vecp = i,
         particles' = Append(particles, new), RecordParticle(i), PushWords(i)
  PROVE  /\ particles' \in Seq(Particle)
         /\ Len(particles) \in Nat /\ DOMAIN particles = 1 .. Len(particles)
         /\ Len(particles') = Len(particles) + 1 /\ DOMAIN particles' = 1 .. Len(particles) + 1
         /\ particles'[Len(particles) + 1] = new
         /\ \A q \in DOMAIN particles : particles'[q] = particles[q]
         /\ paToParticle' \in Seq(0 .. Len(particles')) /\ Len(paToParticle') = at
         /\ vecpToParticle' \in [DOMAIN event.vecp -> 0 .. Len(particles')]
         /\ words' \in Seq([pa : Nat, vecp : Nat])
         /\ Len(words') = Len(particles')
         /\ \A q \in DOMAIN particles' :
              words'[q].pa = particles'[q].pa /\ words'[q].vecp = particles'[q].vecp
         /\ MapsAgree' /\ Linked'
<1> DEFINE n == Len(particles) + 1
           S == 0 .. n
<1>1. /\ particles \in Seq(Particle) /\ Len(particles) \in Nat
      /\ DOMAIN particles = 1 .. Len(particles)
  BY DEF IInv, Indexed, Particle
<1>2. /\ particles' \in Seq(Particle) /\ Len(particles') = n /\ DOMAIN particles' = 1 .. n
      /\ particles'[n] = new /\ \A q \in DOMAIN particles : particles'[q] = particles[q]
  BY <1>1
<1>3. n \in Nat \ {0} /\ \A q \in DOMAIN particles' : q = n \/ q \in DOMAIN particles
  BY <1>1, <1>2
<1>4. /\ paToParticle \in Seq(S) /\ at \in Nat \ {0} /\ Len(paToParticle) = at - 1
      /\ DOMAIN paToParticle = 1 .. Len(paToParticle) /\ n \in S
  <2>1. paToParticle \in Seq(0 .. Len(particles)) /\ 0 .. Len(particles) \subseteq S
    BY <1>1 DEF IInv, Indexed
  <2>2. paToParticle \in Seq(S)
    <3> HIDE DEF S
    <3> QED BY <2>1
  <2> QED BY <2>2, <1>3 DEF IInv, Indexed, WalkOrder
<1>5. /\ paToParticle' \in Seq(S) /\ Len(paToParticle') = at /\ DOMAIN paToParticle' = 1 .. at
      /\ paToParticle'[at] = n
      /\ \A k \in DOMAIN paToParticle : paToParticle'[k] = paToParticle[k]
  <2>1. paToParticle' = PaEntry(n)
    BY DEF RecordParticle
  <2> HIDE DEF S, n
  <2> QED BY <2>1, <1>4, PaEntryAppends
<1>6. /\ vecpToParticle \in [DOMAIN event.vecp -> 0 .. Len(particles)]
      /\ vecpToParticle' \in [DOMAIN event.vecp -> S]
      /\ i # 0 => vecpToParticle'[i] = n
      /\ \A j \in DOMAIN event.vecp : j # i => vecpToParticle'[j] = vecpToParticle[j]
  <2>1. vecpToParticle \in [DOMAIN event.vecp -> 0 .. Len(particles)]
    BY DEF IInv, Indexed
  <2>2. vecpToParticle' = IF i = 0 THEN vecpToParticle ELSE [vecpToParticle EXCEPT ![i] = n]
    BY DEF RecordParticle
  <2>3. 0 .. Len(particles) \subseteq S /\ n \in S
    BY <1>1
  <2> HIDE DEF S, n
  <2> QED BY <2>1, <2>2, <2>3
<1>7. /\ words' \in Seq([pa : Nat, vecp : Nat]) /\ Len(words') = n
      /\ \A q \in DOMAIN particles' :
           words'[q].pa = particles'[q].pa /\ words'[q].vecp = particles'[q].vecp
  <2>1. /\ words \in Seq([pa : Nat, vecp : Nat]) /\ Len(words) = Len(particles)
        /\ words' = Append(words, [pa |-> at, vecp |-> i]) /\ at \in Nat
    BY DEF IInv, Indexed, Parallel, PushWords
  <2>2. [pa |-> at, vecp |-> i] \in [pa : Nat, vecp : Nat]
    BY <2>1
  <2>3. /\ words' \in Seq([pa : Nat, vecp : Nat]) /\ Len(words') = n
        /\ words'[n] = [pa |-> at, vecp |-> i]
        /\ \A q \in DOMAIN particles : words'[q] = words[q]
    BY <2>1, <2>2, <1>1
  <2>4. \A q \in DOMAIN particles :
          words[q].pa = particles[q].pa /\ words[q].vecp = particles[q].vecp
    BY DEF IInv, Parallel
  <2>5. ASSUME NEW q \in DOMAIN particles'
        PROVE  words'[q].pa = particles'[q].pa /\ words'[q].vecp = particles'[q].vecp
    <3>1. CASE q = n
      <4>1. words'[q] = [pa |-> at, vecp |-> i] /\ particles'[q] = new
        BY <3>1, <2>3, <1>2
      <4> QED BY <4>1
    <3>2. CASE q \in DOMAIN particles
      <4>1. words'[q] = words[q] /\ particles'[q] = particles[q]
        BY <3>2, <2>3, <1>2
      <4> QED BY <4>1, <3>2, <2>4
    <3> QED BY <3>1, <3>2, <1>3
  <2> QED BY <2>3, <2>5
<1>8. MapsAgree'
  <2>1. ASSUME NEW p \in DOMAIN paToParticle', paToParticle'[p] # 0
        PROVE  particles'[paToParticle'[p]].pa = p
    <3>1. CASE p = at
      BY <3>1, <1>2, <1>5
    <3>2. CASE p \in DOMAIN paToParticle
      <4>1. paToParticle'[p] = paToParticle[p] /\ paToParticle[p] \in 0 .. Len(particles)
        BY <3>2, <1>5 DEF IInv, Indexed
      <4>2. paToParticle[p] \in DOMAIN particles
        BY <4>1, <2>1, <1>1
      <4> QED BY <4>1, <4>2, <3>2, <2>1, <1>2 DEF IInv, MapsAgree
    <3>3. p \in 1 .. at
      BY <1>5
    <3>4. p = at \/ p \in DOMAIN paToParticle
      BY <3>3, <1>4
    <3> QED BY <3>1, <3>2, <3>4
  <2>2. ASSUME NEW j \in DOMAIN event.vecp, vecpToParticle'[j] # 0
        PROVE  /\ particles'[vecpToParticle'[j]].vecp = j
               /\ particles'[vecpToParticle'[j]].pa = event.vecp[j].pa
    <3>1. CASE j = i
      <4>1. i # 0
        <5>1. 0 \notin DOMAIN event.vecp
          BY EventFacts DEF IInv, Indexed
        <5> QED BY <5>1, <3>1
      <4> QED BY <3>1, <4>1, <1>6, <1>2
    <3>2. CASE j # i
      <4>1. vecpToParticle'[j] = vecpToParticle[j] /\ vecpToParticle[j] \in 0 .. Len(particles)
            /\ j \in DOMAIN vecpToParticle
        BY <3>2, <1>6
      <4>2. vecpToParticle[j] \in DOMAIN particles
        BY <4>1, <2>2, <1>1
      <4> QED BY <4>1, <4>2, <2>2, <1>2 DEF IInv, MapsAgree
    <3> QED BY <3>1, <3>2
  <2>3. ASSUME NEW q \in DOMAIN particles'
        PROVE  /\ particles'[q].pa \in DOMAIN paToParticle'
               /\ paToParticle'[particles'[q].pa] = q
               /\ particles'[q].vecp # 0 => vecpToParticle'[particles'[q].vecp] = q
    <3>1. CASE q = n
      BY <3>1, <1>2, <1>4, <1>5, <1>6
    <3>2. CASE q \in DOMAIN particles
      <4>1. /\ particles[q].pa \in DOMAIN paToParticle /\ paToParticle[particles[q].pa] = q
            /\ particles[q].vecp # 0 => vecpToParticle[particles[q].vecp] = q
            /\ particles'[q] = particles[q]
        BY <3>2, <1>2 DEF IInv, MapsAgree
      <4>2. particles[q].pa \in DOMAIN paToParticle' /\ paToParticle'[particles[q].pa] = q
        BY <4>1, <1>4, <1>5
      <4>3. ASSUME particles[q].vecp # 0 PROVE vecpToParticle'[particles[q].vecp] = q
        <5>1. particles[q].vecp \in DOMAIN event.vecp
          BY <4>3, <3>2 DEF IInv, Linked
        <5>2. particles[q].vecp # i
          <6>1. i # 0 => vecpToParticle[i] = 0
            BY FreshPa
          <6>2. q # 0
            BY <3>2, <1>1
          <6> QED BY <6>1, <6>2, <4>1, <4>3
        <5> QED BY <5>1, <5>2, <4>1, <4>3, <1>6
      <4> QED BY <4>1, <4>2, <4>3
    <3> QED BY <3>1, <3>2, <1>3
  <2>4. DOMAIN vecpToParticle' = DOMAIN event.vecp
    BY <1>6
  <2> HIDE DEF n, S
  <2> QED BY <2>1, <2>2, <2>3, <2>4 DEF MapsAgree
<1>9. Linked'
  BY <1>2, <1>3 DEF IInv, Linked
<1> QED BY <1>1, <1>2, <1>5, <1>6, <1>7, <1>8, <1>9

LEMMA NeutralPaIInv == ASSUME IInv, NeutralPa PROVE IInv'
<1> DEFINE i == VecpIndex(at, FALSE)
           new == [pa |-> at, vecp |-> i, charge |-> "neutral", momentum |-> "vecp", track |-> 0]
<1>1. /\ UNCHANGED <<event, writer, tracks, columns, impact>>
      /\ at' = at + 1 /\ writer = "Tracking" /\ i # 0
      /\ particles' = Append(particles, new) /\ RecordParticle(i) /\ PushWords(i)
  BY DEF NeutralPa, Round, vertexing
<1>2. /\ i \in DOMAIN event.vecp /\ i \in Nat \ {0} /\ event.vecp[i].pa = at
      /\ at \in Nat \ {0} /\ EventShape(event)
  <2>1. EventShape(event) /\ at \in Nat \ {0}
    BY DEF IInv, Indexed
  <2> HIDE DEF i
  <2>2. i = VecpIndex(at, FALSE)
    BY DEF i
  <2> QED BY <2>1, <2>2, <1>1, VecpIndexFound
<1>3. new \in Particle /\ new.pa = at /\ new.vecp = i /\ new.track = 0 /\ new.charge = "neutral"
  BY <1>2 DEF Particle
<1> HIDE DEF i, new
<1>4. /\ particles' \in Seq(Particle)
      /\ Len(particles) \in Nat /\ DOMAIN particles = 1 .. Len(particles)
      /\ Len(particles') = Len(particles) + 1 /\ DOMAIN particles' = 1 .. Len(particles) + 1
      /\ particles'[Len(particles) + 1] = new
      /\ \A q \in DOMAIN particles : particles'[q] = particles[q]
      /\ paToParticle' \in Seq(0 .. Len(particles')) /\ Len(paToParticle') = at
      /\ vecpToParticle' \in [DOMAIN event.vecp -> 0 .. Len(particles')]
      /\ words' \in Seq([pa : Nat, vecp : Nat])
      /\ Len(words') = Len(particles')
      /\ \A q \in DOMAIN particles' :
           words'[q].pa = particles'[q].pa /\ words'[q].vecp = particles'[q].vecp
      /\ MapsAgree' /\ Linked'
  BY <1>1, <1>2, <1>3, RecordedMaps
<1>5. /\ Len(tracks) \in Nat /\ DOMAIN tracks = 1 .. Len(tracks)
  BY DEF IInv, Indexed
<1>6. Indexed'
  <2>1. EventShape(event') /\ at' \in Nat \ {0}
    BY <1>1, <1>2
  <2>2. tracks' \in Seq({tracks'[t] : t \in DOMAIN tracks'}) /\ columns' \in Seq(Nat)
    BY <1>1 DEF IInv, Indexed
  <2>3. DOMAIN event'.vecp = DOMAIN event.vecp
    BY <1>1
  <2> QED BY <1>4, <2>1, <2>2, <2>3 DEF Indexed, Particle
<1>7. WalkOrder' /\ ImpactFilled'
  BY <1>1, <1>2, <1>4 DEF WalkOrder, ImpactFilled, Early, Late
<1>8. \A q \in DOMAIN particles' : q = Len(particles) + 1 \/ q \in DOMAIN particles
  BY <1>4
<1>9. Parallel'
  <2>1. ASSUME NEW q \in DOMAIN particles'
        PROVE  /\ particles'[q].track = 0 <=> particles'[q].charge = "neutral"
               /\ particles'[q].track <= Len(tracks')
    <3>1. CASE q = Len(particles) + 1
      BY <3>1, <1>1, <1>3, <1>4, <1>5
    <3>2. CASE q \in DOMAIN particles
      BY <3>2, <1>1, <1>4 DEF IInv, Parallel
    <3> QED BY <3>1, <3>2, <1>8
  <2>2. ASSUME NEW t \in DOMAIN tracks'
        PROVE  \E q \in DOMAIN particles' :
                 /\ particles'[q].track = t /\ particles'[q].pa = tracks'[t].pa
                 /\ columns'[t] = particles'[q].vecp
                 /\ \A r \in DOMAIN particles' : particles'[r].track = t => r = q
    <3>1. t \in DOMAIN tracks /\ t # 0
      BY <1>1, <1>5
    <3>2. PICK q \in DOMAIN particles :
                 /\ particles[q].track = t /\ particles[q].pa = tracks[t].pa
                 /\ columns[t] = particles[q].vecp
                 /\ \A r \in DOMAIN particles : particles[r].track = t => r = q
      BY <3>1 DEF IInv, Parallel
    <3>3. q \in DOMAIN particles' /\ particles'[q] = particles[q]
      BY <1>4
    <3>4. ASSUME NEW r \in DOMAIN particles', particles'[r].track = t PROVE r = q
      <4>1. r # Len(particles) + 1
        BY <3>1, <3>4, <1>3, <1>4
      <4> QED BY <4>1, <3>2, <3>4, <1>4, <1>8
    <3> QED BY <3>2, <3>3, <3>4, <1>1
  <2>3. Len(columns') = Len(tracks')
    BY <1>1 DEF IInv, Parallel
  <2> QED BY <2>1, <2>2, <2>3, <1>4 DEF Parallel
<1> QED BY <1>4, <1>6, <1>7, <1>9 DEF IInv

LEMMA ChargedPaIInv == ASSUME IInv, ChargedPa PROVE IInv'
<1> DEFINE i == VecpIndex(at, TRUE)
           te == Get(trackElements, at, [segments |-> <<>>, planes |-> <<>>])
           n == Len(tracks) + 1
           new == [pa |-> at, vecp |-> i, charge |-> event.pa[at].code,
                   momentum |-> IF i = 0 THEN "zero" ELSE "vecp", track |-> n]
           track == [pa       |-> at,
                     segments |-> te.segments,
                     states   |-> Get(trax, at, <<>>),
                     hits     |-> te.planes \o VdHits(i),
                     atVertex |-> LpaToTrack(at)]
<1>1. /\ UNCHANGED <<event, writer, impact>>
      /\ at' = at + 1 /\ writer = "Tracking" /\ event.pa[at].code \in {"signed", "unsigned"}
      /\ tracks' = Append(tracks, track) /\ columns' = Append(columns, i)
      /\ particles' = Append(particles, new) /\ RecordParticle(i) /\ PushWords(i)
  BY DEF ChargedPa, Round, vertexing
<1>2. /\ i \in Nat /\ (i # 0 => i \in DOMAIN event.vecp /\ event.vecp[i].pa = at)
      /\ at \in Nat \ {0} /\ EventShape(event)
  <2>1. EventShape(event) /\ at \in Nat \ {0}
    BY DEF IInv, Indexed
  <2> HIDE DEF i
  <2>2. i = VecpIndex(at, TRUE)
    BY DEF i
  <2>3. i = 0 \/ (i \in DOMAIN event.vecp /\ i \in Nat \ {0} /\ event.vecp[i].pa = at)
    BY <2>1, <2>2, VecpIndexFound
  <2> QED BY <2>1, <2>3
<1>3. /\ Len(tracks) \in Nat /\ DOMAIN tracks = 1 .. Len(tracks) /\ n \in Nat \ {0}
      /\ tracks' \in Seq({tracks'[t] : t \in DOMAIN tracks'})
      /\ Len(tracks') = n /\ DOMAIN tracks' = 1 .. n
      /\ tracks'[n] = track /\ \A t \in DOMAIN tracks : tracks'[t] = tracks[t]
  <2>1. tracks \in Seq({tracks[t] : t \in DOMAIN tracks})
    BY DEF IInv, Indexed
  <2>2. tracks' = Append(tracks, track)
    BY <1>1
  <2> HIDE DEF track, n
  <2>3. /\ Len(tracks) \in Nat /\ DOMAIN tracks = 1 .. Len(tracks)
        /\ tracks' \in Seq({tracks'[t] : t \in DOMAIN tracks'})
        /\ Len(tracks') = Len(tracks) + 1 /\ DOMAIN tracks' = 1 .. Len(tracks) + 1
        /\ tracks'[Len(tracks) + 1] = track
        /\ \A t \in DOMAIN tracks : tracks'[t] = tracks[t]
    BY <2>1, <2>2, AppendAny
  <2>4. n = Len(tracks) + 1
    BY DEF n
  <2> QED BY <2>3, <2>4
<1>4. track.pa = at
  OBVIOUS
<1>5. new \in Particle /\ new.pa = at /\ new.vecp = i /\ new.track = n /\ new.charge # "neutral"
  <2> HIDE DEF i, n, te, track
  <2> QED BY <1>1, <1>2, <1>3 DEF Particle
<1> HIDE DEF i, new, te, track
<1>6. /\ columns' \in Seq(Nat) /\ Len(columns') = n /\ columns'[n] = i
      /\ \A t \in DOMAIN tracks : columns'[t] = columns[t]
  <2>1. columns \in Seq(Nat) /\ Len(columns) = Len(tracks)
    BY DEF IInv, Indexed, Parallel
  <2> QED BY <2>1, <1>1, <1>2, <1>3
<1>7. /\ particles' \in Seq(Particle)
      /\ Len(particles) \in Nat /\ DOMAIN particles = 1 .. Len(particles)
      /\ Len(particles') = Len(particles) + 1 /\ DOMAIN particles' = 1 .. Len(particles) + 1
      /\ particles'[Len(particles) + 1] = new
      /\ \A q \in DOMAIN particles : particles'[q] = particles[q]
      /\ paToParticle' \in Seq(0 .. Len(particles')) /\ Len(paToParticle') = at
      /\ vecpToParticle' \in [DOMAIN event.vecp -> 0 .. Len(particles')]
      /\ words' \in Seq([pa : Nat, vecp : Nat])
      /\ Len(words') = Len(particles')
      /\ \A q \in DOMAIN particles' :
           words'[q].pa = particles'[q].pa /\ words'[q].vecp = particles'[q].vecp
      /\ MapsAgree' /\ Linked'
  BY <1>1, <1>2, <1>5, RecordedMaps
<1>8. Indexed'
  <2>1. EventShape(event') /\ at' \in Nat \ {0}
    BY <1>1, <1>2
  <2>2. DOMAIN event'.vecp = DOMAIN event.vecp
    BY <1>1
  <2> QED BY <1>3, <1>6, <1>7, <2>1, <2>2 DEF Indexed, Particle
<1>9. WalkOrder' /\ ImpactFilled'
  BY <1>1, <1>2, <1>7 DEF WalkOrder, ImpactFilled, Early, Late
<1>10. \A q \in DOMAIN particles' : q = Len(particles) + 1 \/ q \in DOMAIN particles
  BY <1>7
<1>11. \A q \in DOMAIN particles : particles[q].track \in Nat /\ particles[q].track <= Len(tracks)
  <2>1. particles \in Seq(Particle)
    BY DEF IInv, Indexed, Particle
  <2>2. \A q \in DOMAIN particles : particles[q] \in Particle
    BY <2>1
  <2>3. \A q \in DOMAIN particles : particles[q].track \in Nat
    BY <2>2 DEF Particle
  <2> QED BY <2>3 DEF IInv, Parallel
<1>12. Parallel'
  <2>1. ASSUME NEW q \in DOMAIN particles'
        PROVE  /\ particles'[q].track = 0 <=> particles'[q].charge = "neutral"
               /\ particles'[q].track <= Len(tracks')
    <3>1. CASE q = Len(particles) + 1
      BY <3>1, <1>3, <1>5, <1>7
    <3>2. CASE q \in DOMAIN particles
      <4>1. particles'[q] = particles[q]
        BY <3>2, <1>7
      <4>2. particles[q].track = 0 <=> particles[q].charge = "neutral"
        BY <3>2 DEF IInv, Parallel
      <4>3. particles[q].track <= Len(tracks')
        BY <3>2, <1>3, <1>11
      <4> QED BY <4>1, <4>2, <4>3
    <3> QED BY <3>1, <3>2, <1>10
  <2>2. ASSUME NEW t \in DOMAIN tracks'
        PROVE  \E q \in DOMAIN particles' :
                 /\ particles'[q].track = t /\ particles'[q].pa = tracks'[t].pa
                 /\ columns'[t] = particles'[q].vecp
                 /\ \A r \in DOMAIN particles' : particles'[r].track = t => r = q
    <3>1. CASE t = n
      <4>1. ASSUME NEW r \in DOMAIN particles', particles'[r].track = t
            PROVE  r = Len(particles) + 1
        <5>1. ASSUME r \in DOMAIN particles PROVE FALSE
          <6>1. particles'[r] = particles[r]
            BY <5>1, <1>7
          <6>2. particles[r].track = Len(tracks) + 1
            BY <6>1, <3>1, <4>1
          <6>3. Len(tracks) \in Nat
            BY <1>3
          <6> QED BY <6>2, <6>3, <5>1, <1>11
        <5> QED BY <5>1, <1>10
      <4>2. Len(particles) + 1 \in DOMAIN particles'
        BY <1>7
      <4> QED BY <4>1, <4>2, <3>1, <1>3, <1>4, <1>5, <1>6, <1>7
    <3>2. CASE t \in DOMAIN tracks
      <4>1. PICK q \in DOMAIN particles :
                   /\ particles[q].track = t /\ particles[q].pa = tracks[t].pa
                   /\ columns[t] = particles[q].vecp
                   /\ \A r \in DOMAIN particles : particles[r].track = t => r = q
        BY <3>2 DEF IInv, Parallel
      <4>2. /\ q \in DOMAIN particles' /\ particles'[q] = particles[q]
            /\ tracks'[t] = tracks[t] /\ columns'[t] = columns[t] /\ t # n
        <5>1. q \in DOMAIN particles' /\ particles'[q] = particles[q]
          BY <1>7
        <5>2. tracks'[t] = tracks[t] /\ columns'[t] = columns[t] /\ t # n
          BY <3>2, <1>3, <1>6
        <5> QED BY <5>1, <5>2
      <4>3. ASSUME NEW r \in DOMAIN particles', particles'[r].track = t PROVE r = q
        <5>1. r # Len(particles) + 1
          BY <4>2, <4>3, <1>5, <1>7
        <5> QED BY <5>1, <4>1, <4>3, <1>7, <1>10
      <4> QED BY <4>1, <4>2, <4>3
    <3> QED BY <3>1, <3>2, <1>3
  <2>3. Len(columns') = Len(tracks')
    BY <1>3, <1>6
  <2> QED BY <2>1, <2>2, <2>3, <1>7 DEF Parallel
<1> QED BY <1>7, <1>8, <1>9, <1>12 DEF IInv

-----------------------------------------------------------------------------
(* The theorems.                                                           *)

LEMMA VertexRefusesIInv == ASSUME IInv, VertexRefuses PROVE IInv'
<1>1. UNCHANGED <<event, at, tracking, impact>> /\ writer' = "refused"
  BY DEF VertexRefuses, vertexing
<1>2. Indexed' /\ MapsAgree' /\ Parallel' /\ Linked'
  BY <1>1 DEF IInv, Indexed, MapsAgree, Parallel, Linked, tracking
<1>3. WalkOrder' /\ ImpactFilled'
  BY <1>1 DEF WalkOrder, ImpactFilled, Early, Late
<1> QED BY <1>2, <1>3 DEF IInv

LEMMA StutterIInv == ASSUME IInv, UNCHANGED vars PROVE IInv'
<1>1. UNCHANGED <<event, writer, at, tracking, impact>>
  BY DEF vars, vertexing
<1>2. Indexed' /\ MapsAgree' /\ Parallel' /\ Linked'
  BY <1>1 DEF IInv, Indexed, MapsAgree, Parallel, Linked, tracking
<1>3. WalkOrder' /\ ImpactFilled'
  BY <1>1 DEF IInv, WalkOrder, ImpactFilled, tracking
<1> QED BY <1>2, <1>3 DEF IInv

LEMMA StepIInv == IInv /\ [Next]_vars => IInv'
<1> SUFFICES ASSUME IInv, [Next]_vars PROVE IInv'
  OBVIOUS
<1>1. CASE NextWriter
  BY <1>1, NextWriterIInv
<1>2. CASE TrackElementsPa \/ TraxPa \/ VdHitsTrack
  BY <1>2, ElsewhereIInv DEF TrackElementsPa, TraxPa, VdHitsTrack, Round, vertexing
<1>3. CASE SkippedPa \/ NeutralPa \/ ChargedPa
  BY <1>3, SkippedPaIInv, NeutralPaIInv, ChargedPaIInv
<1>4. CASE LinkTruth
  BY <1>4, ElsewhereIInv DEF LinkTruth, Round, vertexing
<1>5. CASE VertexRefuses
  BY <1>5, VertexRefusesIInv
<1>6. CASE VertexReco \/ WirePa \/ WireVertex \/ DecayVertex
  BY <1>6, ElsewhereIInv DEF VertexReco, WirePa, WireVertex, DecayVertex, Round
<1>7. CASE VertexTail
  BY <1>7, VertexTailIInv
<1>8. CASE EmcaPa \/ CalorimeterPa \/ SticShowerVecp
  BY <1>8, ElsewhereIInv DEF EmcaPa, CalorimeterPa, SticShowerVecp, Round, vertexing
<1>9. CASE DedxQualityPa \/ ParticleIdTrack \/ PidExtrasSdstTrack \/ Pi0Particle
  BY <1>9, ElsewhereIInv
  DEF DedxQualityPa, ParticleIdTrack, PidExtrasSdstTrack, Pi0Particle, Round, vertexing
<1>10. CASE EltrSdstPa \/ SdstPaExtrasPa \/ MtpcPa \/ TofPa \/ PaPidExtrasPa
  BY <1>10, ElsewhereIInv
  DEF EltrSdstPa, SdstPaExtrasPa, MtpcPa, TofPa, PaPidExtrasPa, PaRow, Round, vertexing
<1>11. CASE BtagTrack
  BY <1>11, ElsewhereIInv DEF BtagTrack, Round, vertexing
<1>12. CASE EventOver \/ UNCHANGED vars
  BY <1>12, StutterIInv DEF EventOver
<1> QED BY <1>1, <1>2, <1>3, <1>4, <1>5, <1>6, <1>7, <1>8, <1>9, <1>10, <1>11, <1>12 DEF Next

\* The inductive invariant holds of every event on_event may be given: the
\* writers meet the maps and columns of TrackingWriter only as it left them.
THEOREM RelationsHold == Spec => []IInv
<1>1. Init => IInv
  BY InitIInv
<1>2. IInv /\ [Next]_vars => IInv'
  BY StepIInv
<1> QED BY <1>1, <1>2, PTL DEF Spec

\* The PA map and the VECP map of TrackingWriter lead to the same particles,
\* whatever PAs are skipped and whatever VECP entries are reclassified.
THEOREM MapsAlwaysAgree == Spec => []MapsAgree
<1>1. IInv => MapsAgree
  BY DEF IInv
<1> QED BY <1>1, RelationsHold, PTL

\* The columns parallel to MAIN_Particles and TRAC_Tracks stay parallel, the
\* impact columns too by the time anything after Vertex runs.
THEOREM ColumnsStayAligned == Spec => []ColumnsAlign
<1>1. IInv => ColumnsAlign
  BY DEF IInv, Parallel, ImpactFilled, ColumnsAlign, Late
<1> QED BY <1>1, RelationsHold, PTL

-----------------------------------------------------------------------------
(* What the maps carry.                                                    *)

\* The writers in their order, once more: the feeds, and dedxQuality.
LEMMA FeedOrder ==
  ASSUME writer \in {Writers[k] : k \in DOMAIN Writers},
         NextWriter
  PROVE  /\ writer = "TrackElements" => writer' = "Trax"
         /\ writer = "Trax" => writer' = "VdHits"
         /\ writer = "VdHits" => writer' = "Tracking"
         /\ writer' \in Early => writer \in Early
         /\ writer' \in Early \cup {"Tracking"} => writer \in Early
         /\ writer' \in AfterQuality => writer \in AfterQuality \cup {"DedxQuality"}
         /\ writer' \in AfterEmca => writer \in AfterEmca \cup {"Emca"}
         /\ writer' = "Emca" => writer = "VertexTail"
         /\ writer' \notin Late => writer \notin Late
<1> DEFINE k == CHOOSE k \in DOMAIN Writers : Writers[k] = writer
<1>1. k \in 1 .. 22 /\ Writers[k] = writer /\ Len(Writers) = 22
  BY DEF Writers
<1>2. writer' = IF k = 22 THEN "done" ELSE Writers[k + 1]
  BY <1>1 DEF NextWriter
<1> HIDE DEF k
<1>3. k \in 1 .. 4 \/ k \in 5 .. 9 \/ k \in 10 .. 12 \/ k \in 13 .. 22
  BY <1>1
<1>4. CASE k \in 1 .. 4
  BY <1>1, <1>2, <1>4 DEF Writers, Early, Late, AfterQuality, AfterEmca
<1>5. CASE k \in 5 .. 9
  BY <1>1, <1>2, <1>5 DEF Writers, Early, Late, AfterQuality, AfterEmca
<1>6. CASE k \in 10 .. 12
  BY <1>1, <1>2, <1>6 DEF Writers, Early, Late, AfterQuality, AfterEmca
<1>7. CASE k \in 13 .. 22
  BY <1>1, <1>2, <1>7 DEF Writers, Early, Late, AfterQuality, AfterEmca
<1> QED BY <1>3, <1>4, <1>5, <1>6, <1>7

LEMMA EmptyDomain == DOMAIN <<>> = {} /\ Len(<<>>) = 0
OBVIOUS

LEMMA InitReferences == Init => ReferencesHold
<1> SUFFICES ASSUME Init PROVE ReferencesHold
  OBVIOUS
<1>1. EventShape(event) /\ writer = "TrackElements" /\ at = 1
  BY EventAssumption DEF Init
<1>2. Len(event.pa) \in Nat /\ event.ncvecp \in Nat
  BY <1>1, EventFacts DEF EventShape
<1>3. /\ trackElements = <<>> /\ trax = <<>> /\ vecpToHits = <<>> /\ quality = <<>>
      /\ decays = <<>> /\ particles = <<>> /\ rows = {} /\ links = {}
      /\ clusters = <<>> /\ vertices = <<>>
  BY DEF Init
<1>4. FeedsAreOwn
  BY <1>1, <1>2, <1>3, EmptyDomain DEF FeedsAreOwn
<1>5. ParticlesComeFromTheirPa /\ TracksCarryTheirOwn /\ NothingYet
  BY <1>3, EmptyDomain DEF ParticlesComeFromTheirPa, TracksCarryTheirOwn, NothingYet
<1>6. QualityIsOwn
  BY <1>3, EmptyDomain DEF QualityIsOwn
<1>7. RowsAreOwn /\ LinksAreOwn /\ DaughtersAreOwn
  BY <1>3, EmptyDomain DEF RowsAreOwn, LinksAreOwn, DaughtersAreOwn
<1> QED BY <1>4, <1>5, <1>6, <1>7 DEF ReferencesHold

-----------------------------------------------------------------------------
(* The feeds.                                                              *)

LEMMA EventBounds ==
  ASSUME IInv
  PROVE  /\ EventShape(event) /\ at \in Nat \ {0}
         /\ Len(event.pa) \in Nat /\ DOMAIN event.pa = 1 .. Len(event.pa)
         /\ Len(event.vecp) \in Nat /\ DOMAIN event.vecp = 1 .. Len(event.vecp)
         /\ event.ncvecp \in 0 .. Len(event.vecp)
         /\ Len(event.aabtag) \in Nat /\ DOMAIN event.aabtag = 1 .. Len(event.aabtag)
         /\ Len(event.decays) \in Nat /\ DOMAIN event.decays = 1 .. Len(event.decays)
<1>1. EventShape(event) /\ at \in Nat \ {0}
  BY DEF IInv, Indexed
<1>2. /\ event.ncvecp \in 0 .. Len(event.vecp)
      /\ event.aabtag \in Seq([pa : DOMAIN event.pa, attached : BOOLEAN])
      /\ event.decays \in Seq(Nat \X Nat)
  BY <1>1 DEF EventShape
<1> QED BY <1>1, <1>2, EventFacts

LEMMA FeedsTrackElements ==
  ASSUME IInv, FeedsAreOwn, TrackElementsPa
  PROVE  FeedsAreOwn'
<1>1. /\ writer = "TrackElements" /\ writer' = writer /\ at' = at + 1 /\ event' = event
      /\ trax' = trax /\ vecpToHits' = vecpToHits
      /\ at \in Nat \ {0} /\ at <= Len(event.pa) /\ Len(event.pa) \in Nat
  BY EventBounds DEF TrackElementsPa, Round, Limit, PaWalkers
<1>2. /\ Len(trackElements) = at - 1 /\ Len(trax) = 0 /\ Len(vecpToHits) = 0
      /\ trackElements = [p \in 1 .. at - 1 |-> [segments |-> Objects(p, event.pa[p].segments),
                                                 planes   |-> Objects(p, event.pa[p].planes)]]
      /\ trax = [p \in 1 .. Len(trax) |-> Objects(p, event.pa[p].points)]
      /\ vecpToHits = [i \in 1 .. Len(vecpToHits) |->
                          Objects(event.vecp[i].pa, event.vecp[i].nasht)]
  BY <1>1 DEF FeedsAreOwn
<1>3. trackElements' = [p \in 1 .. at |-> [segments |-> Objects(p, event.pa[p].segments),
                                           planes   |-> Objects(p, event.pa[p].planes)]]
  BY <1>1, <1>2 DEF TrackElementsPa, Put
<1>4. Len(trackElements') = at
  BY <1>1, <1>3
<1> QED BY <1>1, <1>2, <1>3, <1>4 DEF FeedsAreOwn

LEMMA FeedsTrax ==
  ASSUME IInv, FeedsAreOwn, TraxPa
  PROVE  FeedsAreOwn'
<1>1. /\ writer = "Trax" /\ writer' = writer /\ at' = at + 1 /\ event' = event
      /\ trackElements' = trackElements /\ vecpToHits' = vecpToHits
      /\ at \in Nat \ {0} /\ at <= Len(event.pa) /\ Len(event.pa) \in Nat
  BY EventBounds DEF TraxPa, Round, Limit, PaWalkers
<1>2. /\ Len(trackElements) = Len(event.pa) /\ Len(trax) = at - 1 /\ Len(vecpToHits) = 0
      /\ trax = [p \in 1 .. at - 1 |-> Objects(p, event.pa[p].points)]
      /\ trackElements = [p \in 1 .. Len(trackElements) |->
                             [segments |-> Objects(p, event.pa[p].segments),
                              planes   |-> Objects(p, event.pa[p].planes)]]
      /\ vecpToHits = [i \in 1 .. Len(vecpToHits) |->
                          Objects(event.vecp[i].pa, event.vecp[i].nasht)]
  BY <1>1 DEF FeedsAreOwn
<1>3. trax' = [p \in 1 .. at |-> Objects(p, event.pa[p].points)]
  BY <1>1, <1>2 DEF TraxPa, Put
<1>4. Len(trax') = at
  BY <1>1, <1>3
<1> QED BY <1>1, <1>2, <1>3, <1>4 DEF FeedsAreOwn

LEMMA FeedsVdHits ==
  ASSUME IInv, FeedsAreOwn, VdHitsTrack
  PROVE  FeedsAreOwn'
<1>1. /\ writer = "VdHits" /\ writer' = writer /\ at' = at + 1 /\ event' = event
      /\ trackElements' = trackElements /\ trax' = trax
      /\ at \in Nat \ {0} /\ at <= event.ncvecp /\ event.ncvecp \in Nat
  BY EventBounds DEF VdHitsTrack, Round, Limit, PaWalkers
<1>2. /\ Len(trackElements) = Len(event.pa) /\ Len(trax) = Len(event.pa)
      /\ Len(vecpToHits) = at - 1
      /\ vecpToHits = [i \in 1 .. at - 1 |-> Objects(event.vecp[i].pa, event.vecp[i].nasht)]
      /\ trackElements = [p \in 1 .. Len(trackElements) |->
                             [segments |-> Objects(p, event.pa[p].segments),
                              planes   |-> Objects(p, event.pa[p].planes)]]
      /\ trax = [p \in 1 .. Len(trax) |-> Objects(p, event.pa[p].points)]
  BY <1>1 DEF FeedsAreOwn
<1>3. vecpToHits' = [i \in 1 .. at |-> Objects(event.vecp[i].pa, event.vecp[i].nasht)]
  BY <1>1, <1>2 DEF VdHitsTrack, Put
<1>4. Len(vecpToHits') = at
  BY <1>1, <1>3
<1> QED BY <1>1, <1>2, <1>3, <1>4 DEF FeedsAreOwn

LEMMA FeedsNextWriter ==
  ASSUME IInv, FeedsAreOwn, NextWriter
  PROVE  FeedsAreOwn'
<1>1. /\ writer \in {Writers[k] : k \in DOMAIN Writers} /\ at > Limit(writer) /\ at' = 1
      /\ event' = event /\ UNCHANGED <<trackElements, trax, vecpToHits>>
      /\ at \in Nat \ {0} /\ event.ncvecp \in Nat /\ Len(event.pa) \in Nat
  BY EventBounds DEF NextWriter, feeds
<1>2. /\ writer \in {"TrackElements", "Trax"} => Limit(writer) = Len(event.pa)
      /\ writer = "VdHits" => Limit(writer) = event.ncvecp
  BY DEF Limit, PaWalkers
<1>3. /\ writer \in {"TrackElements", "Trax"} => at - 1 = Len(event.pa)
      /\ writer = "VdHits" => at - 1 = event.ncvecp
  BY <1>1, <1>2 DEF FeedsAreOwn
<1>4. /\ Len(trackElements) = Len(event.pa)
      /\ Len(trax) = IF writer = "TrackElements" THEN 0 ELSE Len(event.pa)
      /\ Len(vecpToHits) = IF writer \in {"TrackElements", "Trax"} THEN 0 ELSE event.ncvecp
      /\ trackElements = [p \in 1 .. Len(trackElements) |->
                             [segments |-> Objects(p, event.pa[p].segments),
                              planes   |-> Objects(p, event.pa[p].planes)]]
      /\ trax = [p \in 1 .. Len(trax) |-> Objects(p, event.pa[p].points)]
      /\ vecpToHits = [i \in 1 .. Len(vecpToHits) |->
                          Objects(event.vecp[i].pa, event.vecp[i].nasht)]
  BY <1>3 DEF FeedsAreOwn
<1>5. /\ writer = "TrackElements" => writer' = "Trax"
      /\ writer = "Trax" => writer' = "VdHits"
      /\ writer = "VdHits" => writer' = "Tracking"
      /\ writer \notin Early => writer' \notin Early
  BY <1>1, FeedOrder
<1> QED BY <1>1, <1>4, <1>5 DEF FeedsAreOwn, Early

LEMMA FeedsElsewhere ==
  ASSUME FeedsAreOwn, UNCHANGED <<event, feeds>>, writer \notin Early, writer' \notin Early
  PROVE  FeedsAreOwn'
BY DEF FeedsAreOwn, feeds, Early

-----------------------------------------------------------------------------
(* The particles and their tracks.                                         *)

\* The AABTAG track of a PA is found: no PA is at two addresses.
LEMMA LpaToTrackFound ==
  ASSUME EventShape(event), NEW t \in DOMAIN event.aabtag, NEW p, event.aabtag[t].pa = p
  PROVE  LpaToTrack(p) = t
<1> DEFINE T == {u \in DOMAIN event.aabtag : event.aabtag[u].pa = p}
<1>1. \A u \in DOMAIN event.aabtag : event.aabtag[u].pa = p => u = t
  BY DEF EventShape
<1>2. T = {t}
  BY <1>1
<1>3. t \in Nat
  <2>1. event.aabtag \in Seq([pa : DOMAIN event.pa, attached : BOOLEAN])
    BY DEF EventShape
  <2> QED BY <2>1
<1>4. LpaToTrack(p) = CHOOSE u \in T : \A v \in T : u <= v
  BY <1>2 DEF LpaToTrack
<1>5. \A v \in T : t <= v
  BY <1>2, <1>3
<1> HIDE DEF T
<1> QED BY <1>2, <1>4, <1>5

\* Entries of particles and tracks have the indices that the leaves below need.
LEMMA ParticleFacts ==
  ASSUME IInv
  PROVE  /\ Len(particles) \in Nat /\ DOMAIN particles = 1 .. Len(particles)
         /\ Len(tracks) \in Nat /\ DOMAIN tracks = 1 .. Len(tracks)
         /\ \A q \in DOMAIN particles :
              /\ particles[q] \in Particle
              /\ particles[q].track # 0 => particles[q].track \in DOMAIN tracks
              /\ particles[q].track = 0 <=> particles[q].charge = "neutral"
<1>1. /\ particles \in Seq(Particle) /\ tracks \in Seq({tracks[t] : t \in DOMAIN tracks})
  BY DEF IInv, Indexed, Particle
<1>2. /\ Len(particles) \in Nat /\ DOMAIN particles = 1 .. Len(particles)
      /\ Len(tracks) \in Nat /\ DOMAIN tracks = 1 .. Len(tracks)
      /\ \A q \in DOMAIN particles : particles[q] \in Particle
  BY <1>1
<1>3. ASSUME NEW q \in DOMAIN particles
      PROVE  /\ particles[q].track # 0 => particles[q].track \in DOMAIN tracks
             /\ particles[q].track = 0 <=> particles[q].charge = "neutral"
  <2>1. particles[q].track \in Nat
    BY <1>2 DEF Particle
  <2>2. /\ particles[q].track <= Len(tracks)
        /\ particles[q].track = 0 <=> particles[q].charge = "neutral"
    BY DEF IInv, Parallel
  <2> QED BY <1>2, <2>1, <2>2
<1> QED BY <1>2, <1>3

\* Particles made before are of earlier PAs.
LEMMA EarlierPas ==
  ASSUME IInv, writer = "Tracking", NEW q \in DOMAIN particles
  PROVE  particles[q].pa < at
<1>1. at \in Nat /\ Len(paToParticle) = at - 1 /\ DOMAIN paToParticle = 1 .. Len(paToParticle)
  BY DEF IInv, Indexed, WalkOrder
<1>2. particles[q].pa \in DOMAIN paToParticle
  BY DEF IInv, MapsAgree
<1> QED BY <1>1, <1>2

\* One more particle, and possibly one more track.
LEMMA ParticleAdded ==
  ASSUME IInv, ParticlesComeFromTheirPa, TracksCarryTheirOwn, writer = "Tracking",
         event' = event, at \in DOMAIN event.pa, NEW new \in Particle, new.pa = at,
         particles' = Append(particles, new),
         \A t \in DOMAIN tracks : tracks'[t] = tracks[t],
         new.charge = event.pa[at].code,
         new.charge = "neutral" => ~event.vecp[new.vecp].charged,
         new.track # 0 =>
           /\ tracks'[new.track].pa = at
           /\ \A t \in DOMAIN event.aabtag :
                event.aabtag[t].pa = at => tracks'[new.track].atVertex = t
           /\ tracks'[new.track].segments = Objects(at, event.pa[at].segments)
           /\ tracks'[new.track].states = Objects(at, event.pa[at].points)
           /\ tracks'[new.track].hits =
                Objects(at, event.pa[at].planes) \o
                (IF new.vecp \in 1 .. event.ncvecp
                 THEN Objects(at, event.vecp[new.vecp].nasht) ELSE <<>>)
  PROVE  ParticlesComeFromTheirPa' /\ TracksCarryTheirOwn'
<1> DEFINE n == Len(particles) + 1
<1>1. /\ n \in Nat /\ DOMAIN particles' = 1 .. n /\ particles'[n] = new
      /\ \A q \in DOMAIN particles : particles'[q] = particles[q]
      /\ DOMAIN particles = 1 .. n - 1
  <2>1. particles \in Seq(Particle)
    BY DEF IInv, Indexed, Particle
  <2> QED BY <2>1
<1> HIDE DEF n
<1>2. \A q \in DOMAIN particles' : q = n \/ q \in DOMAIN particles
  BY <1>1
<1>3. \A q \in DOMAIN particles :
        /\ particles[q].track # 0 => tracks'[particles[q].track] = tracks[particles[q].track]
        /\ particles[q].pa < at
  BY ParticleFacts, EarlierPas
<1>4. ParticlesComeFromTheirPa'
  <2>1. ASSUME NEW q \in DOMAIN particles
        PROVE  /\ particles[q].pa \in DOMAIN event.pa
               /\ particles[q].charge = event.pa[particles[q].pa].code
               /\ particles[q].charge = "neutral" => ~event.vecp[particles[q].vecp].charged
               /\ particles[q].track # 0 =>
                    /\ tracks'[particles[q].track].pa = particles[q].pa
                    /\ \A t \in DOMAIN event.aabtag : event.aabtag[t].pa = particles[q].pa =>
                         tracks'[particles[q].track].atVertex = t
               /\ \A r \in DOMAIN particles' : q < r => particles[q].pa < particles'[r].pa
    <3>1. \A r \in DOMAIN particles' : q < r => particles[q].pa < particles'[r].pa
      BY <1>1, <1>2, <1>3 DEF ParticlesComeFromTheirPa
    <3> QED BY <1>3, <3>1 DEF ParticlesComeFromTheirPa
  <2>2. /\ particles'[n].pa = at /\ particles'[n].charge = event.pa[at].code
        /\ particles'[n].charge = "neutral" => ~event.vecp[particles'[n].vecp].charged
        /\ particles'[n].track # 0 =>
             /\ tracks'[particles'[n].track].pa = at
             /\ \A t \in DOMAIN event.aabtag :
                  event.aabtag[t].pa = at => tracks'[particles'[n].track].atVertex = t
        /\ \A r \in DOMAIN particles' : ~(n < r)
    <3>1. \A r \in DOMAIN particles' : ~(n < r)
      BY <1>1
    <3>2. particles'[n] = new
      BY <1>1
    <3> QED BY <3>1, <3>2
  <2>3. ASSUME NEW q \in DOMAIN particles'
        PROVE  /\ particles'[q].pa \in DOMAIN event.pa
               /\ particles'[q].charge = event.pa[particles'[q].pa].code
               /\ particles'[q].charge = "neutral" => ~event.vecp[particles'[q].vecp].charged
               /\ particles'[q].track # 0 =>
                    /\ tracks'[particles'[q].track].pa = particles'[q].pa
                    /\ \A t \in DOMAIN event.aabtag : event.aabtag[t].pa = particles'[q].pa =>
                         tracks'[particles'[q].track].atVertex = t
               /\ \A r \in DOMAIN particles' : q < r => particles'[q].pa < particles'[r].pa
    <3>1. CASE q \in DOMAIN particles
      <4>1. particles'[q] = particles[q]
        BY <1>1, <3>1
      <4> QED BY <2>1, <3>1, <4>1
    <3>2. CASE q = n
      BY <2>2, <3>2
    <3> QED BY <1>2, <3>1, <3>2
  <2> QED BY <2>3 DEF ParticlesComeFromTheirPa
<1>5. TracksCarryTheirOwn'
  <2>1. ASSUME NEW q \in DOMAIN particles', particles'[q].track # 0, q \in DOMAIN particles
        PROVE  LET t == tracks'[particles'[q].track]
                   p == particles'[q].pa
                   i == particles'[q].vecp
               IN
               /\ t.segments = Objects(p, event.pa[p].segments)
               /\ t.states = Objects(p, event.pa[p].points)
               /\ t.hits = Objects(p, event.pa[p].planes) \o
                     (IF i \in 1 .. event.ncvecp THEN Objects(p, event.vecp[i].nasht) ELSE <<>>)
    <3>1. particles'[q] = particles[q] /\ tracks'[particles[q].track] = tracks[particles[q].track]
      BY <1>1, <1>3, <2>1
    <3>2. particles[q].track # 0
      BY <2>1, <3>1
    <3>3. LET t == tracks[particles[q].track]
              p == particles[q].pa
              i == particles[q].vecp
          IN
          /\ t.segments = Objects(p, event.pa[p].segments)
          /\ t.states = Objects(p, event.pa[p].points)
          /\ t.hits = Objects(p, event.pa[p].planes) \o
                (IF i \in 1 .. event.ncvecp THEN Objects(p, event.vecp[i].nasht) ELSE <<>>)
      BY <2>1, <3>2 DEF TracksCarryTheirOwn
    <3> QED BY <3>1, <3>3
  <2>2. ASSUME NEW q \in DOMAIN particles', particles'[q].track # 0, q = n
        PROVE  LET t == tracks'[particles'[q].track]
                   p == particles'[q].pa
                   i == particles'[q].vecp
               IN
               /\ t.segments = Objects(p, event.pa[p].segments)
               /\ t.states = Objects(p, event.pa[p].points)
               /\ t.hits = Objects(p, event.pa[p].planes) \o
                     (IF i \in 1 .. event.ncvecp THEN Objects(p, event.vecp[i].nasht) ELSE <<>>)
    <3>1. particles'[q] = new
      BY <1>1, <2>2
    <3> QED BY <2>2, <3>1
  <2> QED BY <1>2, <2>1, <2>2 DEF TracksCarryTheirOwn
<1> QED BY <1>4, <1>5

LEMMA NeutralPaCarries ==
  ASSUME IInv, ParticlesComeFromTheirPa, TracksCarryTheirOwn, NeutralPa
  PROVE  ParticlesComeFromTheirPa' /\ TracksCarryTheirOwn'
<1> DEFINE i == VecpIndex(at, FALSE)
           new == [pa |-> at, vecp |-> i, charge |-> "neutral", momentum |-> "vecp", track |-> 0]
<1>1. /\ UNCHANGED <<event, tracks>> /\ writer = "Tracking" /\ i # 0
      /\ event.pa[at].code = "neutral" /\ at <= Limit(writer)
      /\ particles' = Append(particles, new)
  BY DEF NeutralPa, Round
<1>2. at \in DOMAIN event.pa /\ at \in Nat
  BY <1>1, EventBounds DEF Limit, PaWalkers
<1>3. i \in Nat /\ event.vecp[i].charged = FALSE
  <2>1. i = VecpIndex(at, FALSE)
    OBVIOUS
  <2> HIDE DEF i
  <2> QED BY <1>1, <2>1, EventBounds, VecpIndexFound
<1> HIDE DEF i
<1>4. /\ new \in Particle /\ new.pa = at /\ new.charge = "neutral" /\ new.track = 0
      /\ new.vecp = i
  BY <1>2, <1>3 DEF Particle
<1> HIDE DEF new
<1> QED BY <1>1, <1>2, <1>3, <1>4, ParticleAdded

LEMMA ChargedPaCarries ==
  ASSUME IInv, FeedsAreOwn, ParticlesComeFromTheirPa, TracksCarryTheirOwn, ChargedPa
  PROVE  ParticlesComeFromTheirPa' /\ TracksCarryTheirOwn'
<1> DEFINE i == VecpIndex(at, TRUE)
           te == Get(trackElements, at, [segments |-> <<>>, planes |-> <<>>])
           n == Len(tracks) + 1
           new == [pa |-> at, vecp |-> i, charge |-> event.pa[at].code,
                   momentum |-> IF i = 0 THEN "zero" ELSE "vecp", track |-> n]
           track == [pa       |-> at,
                     segments |-> te.segments,
                     states   |-> Get(trax, at, <<>>),
                     hits     |-> te.planes \o VdHits(i),
                     atVertex |-> LpaToTrack(at)]
<1>1. /\ UNCHANGED event /\ writer = "Tracking" /\ at <= Limit(writer)
      /\ event.pa[at].code \in {"signed", "unsigned"}
      /\ tracks' = Append(tracks, track) /\ particles' = Append(particles, new)
  BY DEF ChargedPa, Round
<1>2. at \in DOMAIN event.pa /\ at \in Nat \ {0} /\ EventShape(event)
  BY <1>1, EventBounds DEF Limit, PaWalkers
<1>3. i \in Nat /\ (i # 0 => i \in DOMAIN event.vecp /\ event.vecp[i].pa = at)
  <2>1. i = VecpIndex(at, TRUE)
    OBVIOUS
  <2> HIDE DEF i
  <2>2. i = 0 \/ (i \in DOMAIN event.vecp /\ i \in Nat \ {0} /\ event.vecp[i].pa = at)
    BY <1>2, <2>1, VecpIndexFound
  <2> QED BY <2>2
<1>4. /\ DOMAIN trackElements = DOMAIN event.pa /\ DOMAIN trax = DOMAIN event.pa
      /\ DOMAIN vecpToHits = 1 .. event.ncvecp
      /\ trackElements[at] = [segments |-> Objects(at, event.pa[at].segments),
                              planes   |-> Objects(at, event.pa[at].planes)]
      /\ trax[at] = Objects(at, event.pa[at].points)
      /\ \A j \in 1 .. event.ncvecp :
           vecpToHits[j] = Objects(event.vecp[j].pa, event.vecp[j].nasht)
  <2>1. /\ Len(trackElements) = Len(event.pa) /\ Len(trax) = Len(event.pa)
        /\ Len(vecpToHits) = event.ncvecp
        /\ trackElements = [p \in 1 .. Len(trackElements) |->
                               [segments |-> Objects(p, event.pa[p].segments),
                                planes   |-> Objects(p, event.pa[p].planes)]]
        /\ trax = [p \in 1 .. Len(trax) |-> Objects(p, event.pa[p].points)]
        /\ vecpToHits = [k \in 1 .. Len(vecpToHits) |->
                            Objects(event.vecp[k].pa, event.vecp[k].nasht)]
    BY <1>1 DEF FeedsAreOwn
  <2> QED BY <1>2, <2>1, EventBounds
<1>5. /\ te = trackElements[at] /\ Get(trax, at, <<>>) = trax[at]
  BY <1>2, <1>4 DEF Get
<1> HIDE DEF i
<1>6. VdHits(i) = IF i \in 1 .. event.ncvecp THEN Objects(at, event.vecp[i].nasht) ELSE <<>>
  BY <1>3, <1>4 DEF VdHits, Get
<1> HIDE DEF te
<1>7. /\ track.pa = at /\ track.atVertex = LpaToTrack(at)
      /\ track.segments = Objects(at, event.pa[at].segments)
      /\ track.states = Objects(at, event.pa[at].points)
      /\ track.hits = Objects(at, event.pa[at].planes) \o
           (IF i \in 1 .. event.ncvecp THEN Objects(at, event.vecp[i].nasht) ELSE <<>>)
  <2>1. /\ te.segments = Objects(at, event.pa[at].segments)
        /\ te.planes = Objects(at, event.pa[at].planes)
        /\ Get(trax, at, <<>>) = Objects(at, event.pa[at].points)
    BY <1>4, <1>5
  <2>2. /\ track.pa = at /\ track.atVertex = LpaToTrack(at) /\ track.segments = te.segments
        /\ track.states = Get(trax, at, <<>>) /\ track.hits = te.planes \o VdHits(i)
    OBVIOUS
  <2> HIDE DEF track
  <2> QED BY <1>6, <2>1, <2>2
<1>8. /\ Len(tracks) \in Nat /\ tracks'[n] = track /\ \A t \in DOMAIN tracks : tracks'[t] = tracks[t]
  <2>1. tracks \in Seq({tracks[t] : t \in DOMAIN tracks}) /\ tracks' = Append(tracks, track)
    BY <1>1 DEF IInv, Indexed
  <2> HIDE DEF track
  <2> QED BY <2>1, AppendAny
<1> HIDE DEF track
<1>9. /\ new \in Particle /\ new.pa = at /\ new.track = n /\ new.vecp = i
      /\ new.charge = event.pa[at].code
  BY <1>1, <1>2, <1>3, <1>8 DEF Particle
<1> HIDE DEF new, n
<1>10. \A t \in DOMAIN event.aabtag : event.aabtag[t].pa = at => LpaToTrack(at) = t
  BY <1>2, LpaToTrackFound
<1> QED BY <1>1, <1>2, <1>7, <1>8, <1>9, <1>10, ParticleAdded

-----------------------------------------------------------------------------
(* What refers to particles.                                               *)

\* The maps lead to the particle of the PA, or to none.
LEMMA PaLookup ==
  ASSUME IInv, NEW p
  PROVE  /\ ParticleForPa(p) \in {0} \cup DOMAIN particles
         /\ ParticleForPa(p) # 0 => particles[ParticleForPa(p)].pa = p
<1>1. CASE p \notin DOMAIN paToParticle
  BY <1>1 DEF ParticleForPa, Get
<1>2. CASE p \in DOMAIN paToParticle
  <2>1. ParticleForPa(p) = paToParticle[p] /\ paToParticle[p] \in 0 .. Len(particles)
    BY <1>2 DEF ParticleForPa, Get, IInv, Indexed
  <2>2. paToParticle[p] # 0 => particles[paToParticle[p]].pa = p
    BY <1>2 DEF IInv, MapsAgree
  <2> QED BY <2>1, <2>2, ParticleFacts
<1> QED BY <1>1, <1>2

LEMMA VecpLookup ==
  ASSUME IInv, NEW i \in DOMAIN event.vecp
  PROVE  /\ ParticleForVecp(i) \in {0} \cup DOMAIN particles
         /\ ParticleForVecp(i) = vecpToParticle[i]
         /\ ParticleForVecp(i) # 0 =>
              /\ particles[ParticleForVecp(i)].pa = event.vecp[i].pa
              /\ particles[ParticleForVecp(i)].vecp = i
<1>1. /\ ParticleForVecp(i) = vecpToParticle[i] /\ vecpToParticle[i] \in 0 .. Len(particles)
      /\ DOMAIN vecpToParticle = DOMAIN event.vecp
  BY DEF ParticleForVecp, IInv, Indexed
<1>2. vecpToParticle[i] # 0 => /\ particles[vecpToParticle[i]].pa = event.vecp[i].pa
                               /\ particles[vecpToParticle[i]].vecp = i
  BY <1>1 DEF IInv, MapsAgree
<1> QED BY <1>1, <1>2, ParticleFacts

LEMMA QualityPa ==
  ASSUME IInv, ParticlesComeFromTheirPa, QualityIsOwn, DedxQualityPa
  PROVE  QualityIsOwn'
<1> DEFINE q == ParticleForPa(at)
           has == q # 0 /\ "MTPC" \in event.pa[at].banks
<1>1. /\ UNCHANGED <<event, writer, tracking>> /\ writer = "DedxQuality" /\ at' = at + 1
      /\ quality' = IF has THEN Put(quality, q, at, 0) ELSE quality
  BY DEF DedxQualityPa, Round
<1>2. /\ q \in {0} \cup DOMAIN particles /\ (q # 0 => particles[q].pa = at)
      /\ at \in Nat \ {0} /\ DOMAIN particles = 1 .. Len(particles) /\ Len(particles) \in Nat
  BY PaLookup, ParticleFacts, EventBounds
<1>3. /\ quality \in Seq(Nat) /\ Len(quality) \in Nat /\ DOMAIN quality = 1 .. Len(quality)
      /\ \A k \in DOMAIN quality : quality[k] # 0 => k \in DOMAIN particles /\ quality[k] = particles[k].pa
      /\ \A r \in DOMAIN particles :
           "MTPC" \in event.pa[particles[r].pa].banks /\ particles[r].pa < at
             => Get(quality, r, 0) = particles[r].pa
  BY <1>1 DEF QualityIsOwn
<1>4. /\ particles' = particles /\ event' = event
      /\ writer' \notin Early \cup {"Tracking"} \cup AfterQuality
      /\ writer' = "DedxQuality"
  BY <1>1 DEF tracking, Early, AfterQuality
<1>5. \A r \in DOMAIN particles : particles[r].pa \in Nat
  BY ParticleFacts DEF Particle
\* The PA it is at has no other particle.
<1>6. \A r \in DOMAIN particles : particles[r].pa = at => q = r
  BY DEF IInv, MapsAgree, ParticleForPa, Get
<1>7. CASE ~has
  <2>1. \A r \in DOMAIN particles :
          "MTPC" \in event.pa[particles[r].pa].banks /\ particles[r].pa < at + 1
            => particles[r].pa < at
    <3> SUFFICES ASSUME NEW r \in DOMAIN particles,
                        "MTPC" \in event.pa[particles[r].pa].banks, particles[r].pa < at + 1,
                        ~(particles[r].pa < at)
                 PROVE  FALSE
      OBVIOUS
    <3>1. particles[r].pa = at
      BY <1>2, <1>5
    <3> QED BY <1>2, <1>6, <1>7, <3>1
  <2> QED BY <1>1, <1>3, <1>4, <1>7, <2>1 DEF QualityIsOwn
<1>8. CASE has
  <2> DEFINE m == IF q <= Len(quality) THEN Len(quality) ELSE q
  <2>1. q \in DOMAIN particles /\ q \in Nat \ {0} /\ particles[q].pa = at /\ m \in Nat
    BY <1>2, <1>3, <1>8
  <2> HIDE DEF q, has
  <2>2. quality' = [k \in 1 .. m |-> IF k = q THEN at
                                     ELSE IF k <= Len(quality) THEN quality[k] ELSE 0]
    BY <1>1, <1>8 DEF Put
  <2>3. \A k \in 1 .. m : k <= Len(quality) => k \in DOMAIN quality /\ quality[k] \in Nat
    BY <1>3
  <2>4. quality' \in [1 .. m -> Nat]
    BY <1>2, <2>2, <2>3
  <2>5. quality' \in Seq(Nat) /\ DOMAIN quality' = 1 .. m
    BY <2>1, <2>4
  <2>6. q \in 1 .. m /\ 1 .. Len(quality) \subseteq 1 .. m
    BY <1>3, <2>1
  <2> HIDE DEF m
  <2>7. \A k \in DOMAIN quality' : quality'[k] # 0 => k \in DOMAIN particles /\ quality'[k] = particles[k].pa
    BY <1>3, <2>1, <2>2, <2>3, <2>5
  <2>8. ASSUME NEW r \in DOMAIN particles, "MTPC" \in event.pa[particles[r].pa].banks,
               particles[r].pa < at + 1
        PROVE  r \in DOMAIN quality' /\ quality'[r] = particles[r].pa
    <3>1. CASE r = q
      BY <2>1, <2>2, <2>5, <2>6, <3>1
    <3>2. CASE r # q
      <4>1. particles[r].pa < at /\ particles[r].pa # 0
        <5>1. particles[r].pa # at
          BY <1>6, <3>2
        <5>2. particles[r].pa \in DOMAIN event.pa
          BY DEF ParticlesComeFromTheirPa
        <5> QED BY <1>2, <1>5, <2>8, <5>1, <5>2, EventBounds
      <4>2. r \in DOMAIN quality /\ quality[r] = particles[r].pa
        BY <1>3, <2>8, <4>1 DEF Get
      <4> QED BY <1>3, <2>2, <2>5, <2>6, <3>2, <4>2
    <3> QED BY <3>1, <3>2
  <2> QED BY <1>1, <1>4, <2>5, <2>7, <2>8 DEF QualityIsOwn, Get
<1> QED BY <1>7, <1>8

LEMMA QualityNextWriter ==
  ASSUME IInv, ParticlesComeFromTheirPa, QualityIsOwn, NextWriter
  PROVE  QualityIsOwn'
<1>1. /\ UNCHANGED <<event, particles, quality>> /\ at' = 1 /\ at > Limit(writer)
      /\ writer \in {Writers[k] : k \in DOMAIN Writers}
  BY DEF NextWriter, tracking, identity
<1>2. writer' \in Early \cup {"Tracking"} => quality = <<>>
  BY <1>1, FeedOrder DEF QualityIsOwn
<1>3. \A q \in DOMAIN particles :
        particles[q].pa \in DOMAIN event.pa /\ ~(particles[q].pa < 1)
  BY EventBounds DEF ParticlesComeFromTheirPa
<1>4. writer = "DedxQuality" => \A q \in DOMAIN particles : particles[q].pa < at
  <2>1. writer = "DedxQuality" => Limit(writer) = Len(event.pa)
    BY DEF Limit, PaWalkers
  <2> QED BY <1>1, <1>3, <2>1, EventBounds
<1>5. \A q \in DOMAIN particles :
        "MTPC" \in event.pa[particles[q].pa].banks /\ writer' \in AfterQuality
          => Get(quality, q, 0) = particles[q].pa
  BY <1>1, <1>4, FeedOrder DEF QualityIsOwn
<1> QED BY <1>1, <1>2, <1>3, <1>5 DEF QualityIsOwn

\* No dE/dx flag is there before there are particles, and dedxQuality alone
\* sets them.
LEMMA QualityElsewhere ==
  ASSUME QualityIsOwn, UNCHANGED <<event, writer, particles, quality>>, writer # "DedxQuality"
  PROVE  QualityIsOwn'
BY DEF QualityIsOwn

LEMMA QualityTracking ==
  ASSUME QualityIsOwn, writer \in Early \cup {"Tracking"}, UNCHANGED <<writer, quality>>
  PROVE  QualityIsOwn'
BY EmptyDomain DEF QualityIsOwn, Early, AfterQuality, Late

LEMMA QualityRefused ==
  ASSUME QualityIsOwn, writer' = "refused", UNCHANGED <<event, particles, quality>>
  PROVE  QualityIsOwn'
BY DEF QualityIsOwn, AfterQuality, Early, Late

\* What RowsAreOwn says of one row.
RowOk(r) ==
  /\ r \in RowRecords
  /\ r.particle # 0 =>
       /\ r.particle \in DOMAIN particles /\ particles[r.particle].pa = r.pa
       /\ r.track \in {0, particles[r.particle].track}
  /\ r.particle = 0 => r.bank \in {"ELTR", "AABTAG"} /\ r.track = 0
  /\ r.flag \in {0, r.pa}
  /\ r.bank = "DEDX" =>
       /\ r.track # 0 /\ r.track = particles[r.particle].track
       /\ "MTPC" \in event.pa[r.pa].banks => r.flag = r.pa
  /\ r.bank = "AABTAG" =>
       r.source \in DOMAIN event.aabtag /\ r.pa = event.aabtag[r.source].pa

LEMMA RowsGrow ==
  ASSUME RowsAreOwn, UNCHANGED <<event, particles>>,
         \A r \in rows' : r \in rows \/ RowOk(r)
  PROVE  RowsAreOwn'
<1>1. \A r \in rows : RowOk(r)
  BY DEF RowsAreOwn, RowOk
<1>2. \A r \in rows' : RowOk(r)
  BY <1>1
<1> QED BY <1>2 DEF RowsAreOwn, RowOk

\* A row that refers to a particle of its PA only.
LEMMA PlainRow ==
  ASSUME NEW b \in {"HAID", "MUID", "ELID", "XNEWTAG", "HAIDVD", "PI0", "PHOT", "TOF", "MU",
                    "ELTR"},
         NEW p \in Nat, NEW i \in Nat, NEW q \in Nat, q # 0 \/ b = "ELTR",
         q # 0 => q \in DOMAIN particles /\ particles[q].pa = p
  PROVE  RowOk(Row(b, p, i, q, 0, 0))
<1>1. Row(b, p, i, q, 0, 0) \in RowRecords
  BY DEF RowRecords, Row, PaBanks, ChargedBanks
<1> QED BY <1>1 DEF RowOk, Row

\* The numbers in a row are.
LEMMA LookupNat ==
  ASSUME IInv
  PROVE  /\ \A p : ParticleForPa(p) \in Nat
         /\ \A i \in DOMAIN event.vecp : ParticleForVecp(i) \in Nat /\ event.vecp[i].pa \in Nat
         /\ \A q \in DOMAIN particles : particles[q].track \in Nat /\ particles[q].pa \in Nat
<1>1. DOMAIN particles \subseteq Nat
  BY ParticleFacts
<1>2. \A p : ParticleForPa(p) \in Nat
  BY <1>1, PaLookup
<1>3. \A i \in DOMAIN event.vecp : ParticleForVecp(i) \in Nat
  BY <1>1, VecpLookup
<1>4. ASSUME NEW i \in DOMAIN event.vecp PROVE event.vecp[i].pa \in Nat
  <2>1. event.vecp \in Seq(Vecp(Len(event.pa))) /\ Len(event.pa) \in Nat
    BY EventBounds DEF EventShape
  <2>2. event.vecp[i] \in Vecp(Len(event.pa))
    BY <2>1
  <2>3. event.vecp[i].pa \in 0 .. Len(event.pa)
    BY <2>2 DEF Vecp
  <2> QED BY <2>1, <2>3
<1>5. \A q \in DOMAIN particles : particles[q].track \in Nat /\ particles[q].pa \in Nat
  BY ParticleFacts DEF Particle
<1> QED BY <1>2, <1>3, <1>4, <1>5

\* Charged VECP indices have particles with a track.
LEMMA ChargedIndex ==
  ASSUME IInv, ParticlesComeFromTheirPa, NEW i \in 1 .. event.ncvecp, ParticleForVecp(i) # 0
  PROVE  particles[ParticleForVecp(i)].track # 0
<1> DEFINE q == ParticleForVecp(i)
<1>1. i \in DOMAIN event.vecp
  BY EventBounds
<1>2. q \in DOMAIN particles /\ particles[q].pa = event.vecp[i].pa /\ particles[q].vecp = i
  BY <1>1, VecpLookup
<1>3. /\ particles[q].pa \in DOMAIN event.pa
      /\ particles[q].charge = event.pa[particles[q].pa].code
      /\ particles[q].charge = "neutral" => ~event.vecp[i].charged
  BY <1>2 DEF ParticlesComeFromTheirPa
<1>4. event.vecp[i].charged \/ (event.vecp[i].pa # 0 => event.pa[event.vecp[i].pa].code # "neutral")
  BY EventBounds DEF EventShape
<1>5. particles[q].pa # 0
  BY <1>3, EventBounds
<1>6. particles[q].charge # "neutral"
  BY <1>2, <1>3, <1>4, <1>5
<1> QED BY <1>2, <1>6, ParticleFacts

LEMMA RowsParticleId ==
  ASSUME IInv, ParticlesComeFromTheirPa, QualityIsOwn, RowsAreOwn, ParticleIdTrack
  PROVE  RowsAreOwn'
<1> DEFINE q == ParticleForVecp(at)
           v == event.vecp[at]
<1>1. /\ UNCHANGED <<event, particles>> /\ writer = "ParticleId" /\ at <= event.ncvecp
      /\ rows' = IF q = 0 THEN rows
                 ELSE rows \cup {Row(b, v.pa, at, q, 0, 0) :
                                   b \in (v.banks \cap {"MUID", "ELID"}) \cup {"HAID"}}
                           \cup {Row(b, v.pa, at, q, particles[q].track, Get(quality, q, 0)) :
                                   b \in v.banks \cap {"DEDX"}}
  BY DEF ParticleIdTrack, Round, tracking, Limit, PaWalkers
<1>2. at \in 1 .. event.ncvecp /\ at \in DOMAIN event.vecp
  BY <1>1, EventBounds
<1>3. q # 0 => q \in DOMAIN particles /\ particles[q].pa = v.pa /\ particles[q].track # 0
  BY <1>2, VecpLookup, ChargedIndex
<1>4. q # 0 => Get(quality, q, 0) \in {0, v.pa}
  BY <1>3 DEF QualityIsOwn, Get
<1>5. q # 0 => ("MTPC" \in event.pa[v.pa].banks => Get(quality, q, 0) = v.pa)
  BY <1>1, <1>3 DEF QualityIsOwn, AfterQuality, Late
<1>10. q \in Nat /\ v.pa \in Nat /\ at \in Nat /\ (q # 0 => particles[q].track \in Nat)
  BY <1>2, <1>3, LookupNat, EventBounds
<1> HIDE DEF q, v
<1>6. ASSUME q # 0 PROVE RowOk(Row("DEDX", v.pa, at, q, particles[q].track, Get(quality, q, 0)))
  <2>1. Row("DEDX", v.pa, at, q, particles[q].track, Get(quality, q, 0)) \in RowRecords
    BY <1>4, <1>6, <1>10 DEF RowRecords, Row, ChargedBanks
  <2> QED BY <1>3, <1>4, <1>5, <1>6, <2>1 DEF RowOk, Row
<1>7. ASSUME q # 0, NEW b \in {"MUID", "ELID", "HAID"} PROVE RowOk(Row(b, v.pa, at, q, 0, 0))
  BY <1>3, <1>7, <1>10, PlainRow
<1>8. \A r \in rows' : r \in rows \/ RowOk(r)
  BY <1>1, <1>6, <1>7
<1> QED BY <1>1, <1>8, RowsGrow

LEMMA RowsByVecp ==
  ASSUME IInv, RowsAreOwn, PidExtrasSdstTrack \/ Pi0Particle
  PROVE  RowsAreOwn'
<1> DEFINE q == ParticleForVecp(at)
           v == event.vecp[at]
<1>1. /\ UNCHANGED <<event, particles>> /\ at <= Len(event.vecp)
      /\ rows' \subseteq IF q = 0 THEN rows
                 ELSE rows \cup {Row(b, v.pa, at, q, 0, 0) : b \in {"XNEWTAG", "HAIDVD", "PI0"}}
  <2>1. CASE PidExtrasSdstTrack
    <3>1. at <= event.ncvecp
      BY <2>1 DEF PidExtrasSdstTrack, Round, Limit, PaWalkers
    <3> QED BY <2>1, <3>1, EventBounds DEF PidExtrasSdstTrack, Round, tracking
  <2>2. CASE Pi0Particle
    <3>1. at <= Len(event.vecp)
      BY <2>2 DEF Pi0Particle, Round, Limit, PaWalkers
    <3> QED BY <2>2, <3>1 DEF Pi0Particle, Round, tracking
  <2> QED BY <2>1, <2>2
<1>2. at \in DOMAIN event.vecp
  BY <1>1, EventBounds
<1>3. q # 0 => q \in DOMAIN particles /\ particles[q].pa = v.pa
  BY <1>2, VecpLookup
<1>6. q \in Nat /\ v.pa \in Nat /\ at \in Nat
  BY <1>2, LookupNat, EventBounds
<1> HIDE DEF q, v
<1>4. ASSUME q # 0, NEW b \in {"XNEWTAG", "HAIDVD", "PI0"} PROVE RowOk(Row(b, v.pa, at, q, 0, 0))
  BY <1>3, <1>4, <1>6, PlainRow
<1>5. \A r \in rows' : r \in rows \/ RowOk(r)
  BY <1>1, <1>4
<1> QED BY <1>1, <1>5, RowsGrow

LEMMA RowsByPa ==
  ASSUME IInv, RowsAreOwn, EltrSdstPa \/ SdstPaExtrasPa \/ MtpcPa \/ TofPa \/ PaPidExtrasPa
  PROVE  RowsAreOwn'
<1> DEFINE q == ParticleForPa(at)
<1>1. UNCHANGED <<event, particles>>
  BY DEF EltrSdstPa, SdstPaExtrasPa, MtpcPa, TofPa, PaPidExtrasPa, PaRow, Round, tracking
<1>2. \A r \in rows' :
        \/ r \in rows
        \/ r = Row("ELTR", at, at, q, 0, 0)
        \/ q # 0 /\ \E b \in {"PHOT", "TOF", "MU"} : r = Row(b, at, at, q, NoTrack[q], 0)
        \/ q # 0 /\ r = Row("MTPC", at, at, q, [k \in DOMAIN particles |-> particles[k].track][q], 0)
  BY DEF EltrSdstPa, SdstPaExtrasPa, MtpcPa, TofPa, PaPidExtrasPa, PaRow
<1>3. q # 0 => q \in DOMAIN particles /\ particles[q].pa = at
  BY PaLookup
<1>4. q # 0 => NoTrack[q] = 0 /\ [k \in DOMAIN particles |-> particles[k].track][q] = particles[q].track
  BY <1>3 DEF NoTrack
<1>9. q \in Nat /\ at \in Nat /\ (q # 0 => particles[q].track \in Nat)
  BY <1>3, LookupNat, EventBounds
<1> HIDE DEF q
<1>5. RowOk(Row("ELTR", at, at, q, 0, 0))
  BY <1>3, <1>9, PlainRow
<1>6. ASSUME q # 0, NEW b \in {"PHOT", "TOF", "MU"} PROVE RowOk(Row(b, at, at, q, 0, 0))
  BY <1>3, <1>6, <1>9, PlainRow
<1>7. ASSUME q # 0 PROVE RowOk(Row("MTPC", at, at, q, particles[q].track, 0))
  <2>1. Row("MTPC", at, at, q, particles[q].track, 0) \in RowRecords
    BY <1>7, <1>9 DEF RowRecords, Row, PaBanks
  <2> QED BY <1>3, <1>7, <2>1 DEF RowOk, Row
<1>8. \A r \in rows' : r \in rows \/ RowOk(r)
  BY <1>2, <1>4, <1>5, <1>6, <1>7
<1> QED BY <1>1, <1>8, RowsGrow

LEMMA RowsBtag ==
  ASSUME IInv, RowsAreOwn, BtagTrack
  PROVE  RowsAreOwn'
<1> DEFINE p == event.aabtag[at].pa
           q == ParticleForPa(p)
<1>1. /\ UNCHANGED <<event, particles>> /\ at <= Len(event.aabtag)
      /\ rows' = rows \cup {Row("AABTAG", p, at, q, 0, 0)}
  BY DEF BtagTrack, Round, tracking, Limit, PaWalkers
<1>2. at \in DOMAIN event.aabtag
  BY <1>1, EventBounds
<1>3. q # 0 => q \in DOMAIN particles /\ particles[q].pa = p
  BY PaLookup
<1>6. p \in Nat /\ at \in Nat /\ q \in Nat
  <2>1. event.aabtag \in Seq([pa : DOMAIN event.pa, attached : BOOLEAN])
    BY EventBounds DEF EventShape
  <2>3. event.aabtag[at] \in [pa : DOMAIN event.pa, attached : BOOLEAN]
    <3> DEFINE R == [pa : DOMAIN event.pa, attached : BOOLEAN]
    <3>1. event.aabtag \in Seq(R)
      BY <2>1
    <3> HIDE DEF R
    <3>2. event.aabtag[at] \in R
      BY <1>2, <3>1
    <3> QED BY <3>2 DEF R
  <2>4. p \in DOMAIN event.pa /\ DOMAIN event.pa \subseteq Nat
    BY <2>3, EventBounds
  <2>2. p \in Nat
    BY <2>4
  <2> QED BY <2>2, LookupNat, EventBounds
<1>4. RowOk(Row("AABTAG", p, at, q, 0, 0))
  <2>2. p = event.aabtag[at].pa
    OBVIOUS
  <2> HIDE DEF p, q
  <2>1. Row("AABTAG", p, at, q, 0, 0) \in RowRecords
    BY <1>6 DEF RowRecords, Row
  <2> QED BY <1>2, <1>3, <2>1, <2>2 DEF RowOk, Row
<1>5. \A r \in rows' : r \in rows \/ RowOk(r)
  BY <1>1, <1>4
<1> QED BY <1>1, <1>5, RowsGrow

LEMMA LinksTruth ==
  ASSUME IInv, LinksAreOwn, LinkTruth
  PROVE  LinksAreOwn'
<1>1. /\ UNCHANGED <<event, particles>> /\ at <= Len(event.vecp)
      /\ links' \in {links, links \cup {[particle |-> vecpToParticle[at], vecp |-> at]}}
      /\ links' # links => vecpToParticle[at] # 0
  BY DEF LinkTruth, Round, tracking, Limit, PaWalkers
<1>2. at \in DOMAIN event.vecp
  BY <1>1, EventBounds
<1>3. vecpToParticle[at] # 0 => /\ vecpToParticle[at] \in DOMAIN particles
                                /\ particles[vecpToParticle[at]].pa = event.vecp[at].pa
  BY <1>2, VecpLookup
<1>4. ASSUME NEW l \in links'
      PROVE  /\ l \in [particle : DOMAIN particles, vecp : DOMAIN event.vecp]
             /\ particles[l.particle].pa = event.vecp[l.vecp].pa
  <2>1. CASE l \in links
    BY <2>1 DEF LinksAreOwn
  <2>2. CASE l \notin links
    <3>1. vecpToParticle[at] # 0 /\ l = [particle |-> vecpToParticle[at], vecp |-> at]
      BY <1>1, <2>2
    <3> QED BY <1>2, <1>3, <3>1
  <2> QED BY <2>1, <2>2
<1> QED BY <1>1, <1>4 DEF LinksAreOwn

LEMMA DaughterIsOwn ==
  ASSUME IInv, NEW i
  PROVE  Daughter(i) \in Seq(OwnDaughters)
<1>1. DOMAIN vecpToParticle = DOMAIN event.vecp
  BY DEF IInv, Indexed
<1>2. CASE i \in DOMAIN vecpToParticle /\ vecpToParticle[i] # 0
  <2>1. [vecp |-> i, particle |-> vecpToParticle[i]] \in OwnDaughters
    BY <1>1, <1>2, VecpLookup DEF OwnDaughters
  <2> QED BY <1>2, <2>1 DEF Daughter
<1>3. CASE ~(i \in DOMAIN vecpToParticle /\ vecpToParticle[i] # 0)
  BY <1>3 DEF Daughter
<1> QED BY <1>2, <1>3

LEMMA DaughtersDecay ==
  ASSUME IInv, DaughtersAreOwn, DecayVertex
  PROVE  DaughtersAreOwn'
<1> DEFINE pair == Daughter(event.decays[at][1]) \o Daughter(event.decays[at][2])
<1>1. UNCHANGED <<event, particles>> /\ decays' = Append(decays, pair)
  BY DEF DecayVertex, Round, tracking
<1>2. OwnDaughters' = OwnDaughters
  BY <1>1 DEF OwnDaughters
<1>3. pair \in Seq(OwnDaughters)
  BY DaughterIsOwn
<1> HIDE DEF pair
<1>4. decays' \in Seq(Seq(OwnDaughters))
  BY <1>1, <1>3 DEF DaughtersAreOwn
<1> QED BY <1>2, <1>4 DEF DaughtersAreOwn

-----------------------------------------------------------------------------
(* Every step keeps the references.                                        *)

\* The steps of the writers after Tracking.
AfterTracking ==
  \/ LinkTruth
  \/ VertexRefuses \/ VertexReco \/ WirePa \/ WireVertex \/ DecayVertex \/ VertexTail
  \/ EmcaPa \/ CalorimeterPa
  \/ DedxQualityPa \/ ParticleIdTrack \/ PidExtrasSdstTrack \/ Pi0Particle
  \/ SticShowerVecp \/ EltrSdstPa \/ SdstPaExtrasPa \/ MtpcPa \/ TofPa \/ PaPidExtrasPa
  \/ BtagTrack

LEMMA LaterSteps ==
  ASSUME AfterTracking
  PROVE  /\ UNCHANGED <<event, feeds, tracking>>
         /\ writer \notin Early \cup {"Tracking"} /\ writer' \notin Early \cup {"Tracking"}
         /\ writer' = writer \/ (VertexRefuses /\ writer = "Vertex" /\ writer' = "refused")
<1>1. CASE LinkTruth
  BY <1>1 DEF LinkTruth, Round, Early
<1>2. CASE VertexRefuses
  BY <1>2 DEF VertexRefuses, Early
<1>3. CASE VertexReco \/ WirePa \/ WireVertex \/ DecayVertex \/ VertexTail
  BY <1>3 DEF VertexReco, WirePa, WireVertex, DecayVertex, VertexTail, Round, Early
<1>4. CASE EmcaPa \/ CalorimeterPa \/ SticShowerVecp
  BY <1>4 DEF EmcaPa, CalorimeterPa, SticShowerVecp, Round, Early
<1>5. CASE DedxQualityPa \/ ParticleIdTrack \/ PidExtrasSdstTrack \/ Pi0Particle
  BY <1>5 DEF DedxQualityPa, ParticleIdTrack, PidExtrasSdstTrack, Pi0Particle, Round, Early
<1>6. CASE EltrSdstPa \/ SdstPaExtrasPa \/ MtpcPa \/ TofPa \/ PaPidExtrasPa
  BY <1>6 DEF EltrSdstPa, SdstPaExtrasPa, MtpcPa, TofPa, PaPidExtrasPa, PaRow, Round, Early
<1>7. CASE BtagTrack
  BY <1>7 DEF BtagTrack, Round, Early
<1> QED BY <1>1, <1>2, <1>3, <1>4, <1>5, <1>6, <1>7 DEF AfterTracking

LEMMA SameReferences ==
  ASSUME ReferencesHold, UNCHANGED <<event, tracking, rows, links, decays>>
  PROVE  /\ ParticlesComeFromTheirPa' /\ TracksCarryTheirOwn'
         /\ RowsAreOwn' /\ LinksAreOwn' /\ DaughtersAreOwn'
<1> USE DEF ReferencesHold, tracking
<1>1. ParticlesComeFromTheirPa' /\ TracksCarryTheirOwn'
  BY DEF ParticlesComeFromTheirPa, TracksCarryTheirOwn
<1>2. RowsAreOwn' /\ LinksAreOwn'
  BY DEF RowsAreOwn, LinksAreOwn
<1>3. OwnDaughters' = OwnDaughters
  BY DEF OwnDaughters
<1> QED BY <1>1, <1>2, <1>3 DEF DaughtersAreOwn

LEMMA NextWriterReferences ==
  ASSUME IInv, ReferencesHold, NextWriter
  PROVE  ReferencesHold'
<1>1. /\ UNCHANGED <<event, tracking, rows, links, decays, clusters, vertices>>
      /\ writer \in {Writers[k] : k \in DOMAIN Writers}
  BY DEF NextWriter, identity, vertexing, calorimetry
<1>2. FeedsAreOwn' /\ QualityIsOwn'
  BY FeedsNextWriter, QualityNextWriter DEF ReferencesHold
<1>3. NothingYet'
  BY <1>1, FeedOrder DEF ReferencesHold, NothingYet
<1> QED BY <1>1, <1>2, <1>3, SameReferences DEF ReferencesHold

LEMMA EarlyReferences ==
  ASSUME IInv, ReferencesHold, TrackElementsPa \/ TraxPa \/ VdHitsTrack
  PROVE  ReferencesHold'
<1>1. /\ UNCHANGED <<event, writer, tracking, quality, rows, links, decays, clusters, vertices>>
      /\ writer \in Early
  BY DEF TrackElementsPa, TraxPa, VdHitsTrack, Round, Early, identity, vertexing, calorimetry
<1>2. FeedsAreOwn'
  BY FeedsTrackElements, FeedsTrax, FeedsVdHits DEF ReferencesHold
<1>3. QualityIsOwn'
  BY <1>1, QualityTracking DEF ReferencesHold
<1>4. NothingYet'
  BY <1>1 DEF ReferencesHold, NothingYet
<1> QED BY <1>1, <1>2, <1>3, <1>4, SameReferences DEF ReferencesHold

LEMMA TrackingReferences ==
  ASSUME IInv, ReferencesHold, SkippedPa \/ NeutralPa \/ ChargedPa
  PROVE  ReferencesHold'
<1>1. /\ UNCHANGED <<event, writer, feeds, quality, rows, links, decays, clusters, vertices>>
      /\ writer = "Tracking"
  BY DEF SkippedPa, NeutralPa, ChargedPa, Round, identity, vertexing, calorimetry
<1>2. FeedsAreOwn'
  BY <1>1, FeedsElsewhere DEF ReferencesHold, Early
<1>3. QualityIsOwn'
  BY <1>1, QualityTracking DEF ReferencesHold
<1>4. rows' = {} /\ links' = {} /\ decays' = <<>> /\ clusters' = <<>> /\ vertices' = <<>>
  BY <1>1 DEF ReferencesHold, NothingYet
<1>5. RowsAreOwn' /\ LinksAreOwn' /\ DaughtersAreOwn' /\ NothingYet'
  BY <1>4 DEF RowsAreOwn, LinksAreOwn, DaughtersAreOwn, NothingYet
<1>6. ParticlesComeFromTheirPa' /\ TracksCarryTheirOwn'
  <2>1. CASE SkippedPa
    <3>1. UNCHANGED <<particles, tracks>>
      BY <2>1 DEF SkippedPa
    <3> QED BY <1>1, <3>1 DEF ReferencesHold, ParticlesComeFromTheirPa, TracksCarryTheirOwn
  <2>2. CASE NeutralPa \/ ChargedPa
    BY <2>2, NeutralPaCarries, ChargedPaCarries DEF ReferencesHold
  <2> QED BY <2>1, <2>2
<1> QED BY <1>2, <1>3, <1>5, <1>6 DEF ReferencesHold

LEMMA LaterReferences ==
  ASSUME IInv, ReferencesHold, AfterTracking
  PROVE  ReferencesHold'
<1>1. /\ UNCHANGED <<event, feeds, tracking, particles>>
      /\ writer \notin Early \cup {"Tracking"} /\ writer' \notin Early \cup {"Tracking"}
      /\ writer' = writer \/ writer' = "refused"
  BY LaterSteps DEF tracking
<1>2. FeedsAreOwn'
  BY <1>1, FeedsElsewhere DEF ReferencesHold
<1>3. ParticlesComeFromTheirPa' /\ TracksCarryTheirOwn' /\ NothingYet'
  <2>1. UNCHANGED <<event, particles, tracks>>
    BY <1>1 DEF tracking
  <2>2. ParticlesComeFromTheirPa'
    BY <2>1 DEF ReferencesHold, ParticlesComeFromTheirPa
  <2>3. TracksCarryTheirOwn'
    BY <2>1 DEF ReferencesHold, TracksCarryTheirOwn
  <2>4. NothingYet'
    BY <1>1 DEF NothingYet
  <2> QED BY <2>2, <2>3, <2>4
<1>4. QualityIsOwn'
  <2>1. CASE DedxQualityPa
    BY <2>1, QualityPa DEF ReferencesHold
  <2>2. CASE VertexRefuses
    <3>1. UNCHANGED quality /\ writer' = "refused"
      BY <2>2 DEF VertexRefuses, identity
    <3> QED BY <1>1, <3>1, QualityRefused DEF ReferencesHold
  <2>3. CASE ~DedxQualityPa /\ ~VertexRefuses
    <3>1. UNCHANGED quality /\ writer # "DedxQuality"
      BY <2>3 DEF AfterTracking, LinkTruth, VertexReco, WirePa, WireVertex, DecayVertex, VertexTail,
           EmcaPa, CalorimeterPa, ParticleIdTrack, PidExtrasSdstTrack, Pi0Particle, SticShowerVecp,
           EltrSdstPa, SdstPaExtrasPa, MtpcPa, TofPa, PaPidExtrasPa, PaRow, BtagTrack, Round, identity
    <3>2. UNCHANGED writer
      BY <2>3, LaterSteps
    <3> QED BY <1>1, <3>1, <3>2, QualityElsewhere DEF ReferencesHold
  <2> QED BY <2>1, <2>2, <2>3
<1>5. RowsAreOwn'
  <2>1. CASE ParticleIdTrack
    BY <2>1, RowsParticleId DEF ReferencesHold
  <2>2. CASE PidExtrasSdstTrack \/ Pi0Particle
    BY <2>2, RowsByVecp DEF ReferencesHold
  <2>3. CASE EltrSdstPa \/ SdstPaExtrasPa \/ MtpcPa \/ TofPa \/ PaPidExtrasPa
    BY <2>3, RowsByPa DEF ReferencesHold
  <2>4. CASE BtagTrack
    BY <2>4, RowsBtag DEF ReferencesHold
  <2>5. CASE UNCHANGED rows
    BY <1>1, <2>5, RowsGrow DEF ReferencesHold
  <2>6. \/ UNCHANGED rows
        \/ ParticleIdTrack \/ PidExtrasSdstTrack \/ Pi0Particle
        \/ EltrSdstPa \/ SdstPaExtrasPa \/ MtpcPa \/ TofPa \/ PaPidExtrasPa \/ BtagTrack
    BY DEF AfterTracking, LinkTruth, VertexRefuses, VertexReco, WirePa, WireVertex, DecayVertex,
           VertexTail, EmcaPa, CalorimeterPa, DedxQualityPa, SticShowerVecp, identity
  <2> QED BY <2>1, <2>2, <2>3, <2>4, <2>5, <2>6
<1>6. LinksAreOwn'
  <2>1. CASE LinkTruth
    BY <2>1, LinksTruth DEF ReferencesHold
  <2>2. CASE ~LinkTruth
    <3>1. UNCHANGED links
      BY <2>2 DEF AfterTracking, VertexRefuses, VertexReco, WirePa, WireVertex, DecayVertex,
           VertexTail, EmcaPa, CalorimeterPa, DedxQualityPa, ParticleIdTrack, PidExtrasSdstTrack,
           Pi0Particle, SticShowerVecp, EltrSdstPa, SdstPaExtrasPa, MtpcPa, TofPa, PaPidExtrasPa,
           PaRow, BtagTrack
    <3> QED BY <1>1, <3>1 DEF ReferencesHold, LinksAreOwn
  <2> QED BY <2>1, <2>2
<1>7. DaughtersAreOwn'
  <2>1. CASE DecayVertex
    BY <2>1, DaughtersDecay DEF ReferencesHold
  <2>2. CASE ~DecayVertex
    <3>1. UNCHANGED decays
      BY <2>2 DEF AfterTracking, LinkTruth, VertexRefuses, VertexReco, WirePa, WireVertex,
           VertexTail, EmcaPa, CalorimeterPa, DedxQualityPa, ParticleIdTrack, PidExtrasSdstTrack,
           Pi0Particle, SticShowerVecp, EltrSdstPa, SdstPaExtrasPa, MtpcPa, TofPa, PaPidExtrasPa,
           PaRow, BtagTrack, vertexing
    <3>2. OwnDaughters' = OwnDaughters
      BY <1>1 DEF OwnDaughters
    <3> QED BY <3>1, <3>2 DEF ReferencesHold, DaughtersAreOwn
  <2> QED BY <2>1, <2>2
<1> QED BY <1>2, <1>3, <1>4, <1>5, <1>6, <1>7 DEF ReferencesHold

LEMMA StutterReferences ==
  ASSUME ReferencesHold, UNCHANGED vars
  PROVE  ReferencesHold'
<1>1. UNCHANGED <<event, writer, at, feeds, tracking, quality, rows, links, decays, clusters, vertices>>
  BY DEF vars, identity, vertexing, calorimetry
<1>2. FeedsAreOwn' /\ QualityIsOwn' /\ NothingYet'
  BY <1>1 DEF ReferencesHold, FeedsAreOwn, QualityIsOwn, NothingYet, feeds, tracking
<1> QED BY <1>1, <1>2, SameReferences DEF ReferencesHold

LEMMA StepKinds ==
  ASSUME [Next]_vars
  PROVE  \/ NextWriter
         \/ TrackElementsPa \/ TraxPa \/ VdHitsTrack
         \/ SkippedPa \/ NeutralPa \/ ChargedPa
         \/ AfterTracking
         \/ UNCHANGED vars
BY DEF Next, AfterTracking, EventOver

LEMMA StepReferences == IInv /\ ReferencesHold /\ [Next]_vars => ReferencesHold'
<1> SUFFICES ASSUME IInv, ReferencesHold, [Next]_vars PROVE ReferencesHold'
  OBVIOUS
<1> QED BY StepKinds, NextWriterReferences, EarlyReferences, TrackingReferences,
           LaterReferences, StutterReferences

\* At any moment of the hook what a writer looked up belongs to the PA it had in
\* hand.
THEOREM ReferencesAlwaysHold == Spec => []ReferencesHold
BY InitReferences, StepReferences, RelationsHold, PTL DEF Spec

\* A track carries the segments, plane hits and states handed over by PA and the
\* Vertex Detector hits handed over by VECP index, for any PAs that have any.
THEOREM TracksAreWhole == Spec => []TracksCarryTheirOwn
<1>1. ReferencesHold => TracksCarryTheirOwn
  BY DEF ReferencesHold
<1> QED BY <1>1, ReferencesAlwaysHold, PTL

\* Rows, flags, truth links and decay daughters refer to the particle of their
\* own PA, and dE/dx rows to its track, whichever map their writer went by.
THEOREM RowsAreRight == Spec => []RowsNameTheirParticle
<1>1. IInv /\ ReferencesHold => RowsNameTheirParticle
  <2> SUFFICES ASSUME IInv, ReferencesHold PROVE RowsNameTheirParticle
    OBVIOUS
  <2>1. ASSUME NEW r \in rows, r.track # 0 PROVE tracks[r.track].pa = r.pa
    <3>1. /\ r.particle \in DOMAIN particles /\ particles[r.particle].pa = r.pa
          /\ r.track = particles[r.particle].track
      BY <2>1 DEF ReferencesHold, RowsAreOwn
    <3> QED BY <2>1, <3>1 DEF ReferencesHold, ParticlesComeFromTheirPa
  <2>2. \A r \in rows :
          /\ r.particle # 0 => particles[r.particle].pa = r.pa
          /\ r.flag # 0 => r.flag = r.pa
          /\ r.bank = "DEDX" =>
               r.track # 0 /\ ("MTPC" \in event.pa[r.pa].banks => r.flag = r.pa)
    BY DEF ReferencesHold, RowsAreOwn
  <2>3. \A l \in links : particles[l.particle].pa = event.vecp[l.vecp].pa
    BY DEF ReferencesHold, LinksAreOwn
  <2>4. ASSUME NEW d \in DOMAIN decays, NEW k \in DOMAIN decays[d]
        PROVE  particles[decays[d][k].particle].pa = event.vecp[decays[d][k].vecp].pa
    <3>1. decays[d] \in Seq(OwnDaughters)
      BY DEF ReferencesHold, DaughtersAreOwn
    <3>2. decays[d][k] \in OwnDaughters
      BY <3>1
    <3> QED BY <3>2 DEF OwnDaughters
  <2> QED BY <2>1, <2>2, <2>3, <2>4 DEF RowsNameTheirParticle
<1> QED BY <1>1, RelationsHold, ReferencesAlwaysHold, PTL

\* The particle of an AABTAG row has a track, and its AtVertex state is the one
\* AABTAG measured for that row.
THEOREM TagsAreReached == Spec => []TagsReachTheirState
<1>1. IInv /\ ReferencesHold => TagsReachTheirState
  <2> SUFFICES ASSUME IInv, ReferencesHold,
                      NEW r \in rows, r.bank = "AABTAG", r.particle # 0
               PROVE  /\ particles[r.particle].track # 0
                      /\ tracks[particles[r.particle].track].atVertex = r.source
    BY DEF TagsReachTheirState
  <2>1. /\ r.source \in DOMAIN event.aabtag /\ r.pa = event.aabtag[r.source].pa
        /\ r.particle \in DOMAIN particles /\ particles[r.particle].pa = r.pa
    BY DEF ReferencesHold, RowsAreOwn
  <2>2. event.pa[r.pa].code # "neutral"
    BY <2>1, EventBounds DEF EventShape
  <2>3. particles[r.particle].charge = event.pa[r.pa].code
    BY <2>1 DEF ReferencesHold, ParticlesComeFromTheirPa
  <2>4. particles[r.particle].track # 0
    BY <2>1, <2>2, <2>3, ParticleFacts
  <2> QED BY <2>1, <2>4 DEF ReferencesHold, ParticlesComeFromTheirPa
<1> QED BY <1>1, RelationsHold, ReferencesAlwaysHold, PTL

-----------------------------------------------------------------------------
(* The walk over the vertices.                                             *)

LEMMA BeforeWiringIs ==
  BeforeWiring = {"TrackElements", "Trax", "VdHits", "Tracking", "TruthRecoLink", "Vertex",
                  "refused"}
<1> DEFINE First == {"TrackElements", "Trax", "VdHits", "Tracking", "TruthRecoLink", "Vertex"}
<1>1. /\ Writers[1] = "TrackElements" /\ Writers[2] = "Trax" /\ Writers[3] = "VdHits"
      /\ Writers[4] = "Tracking" /\ Writers[5] = "TruthRecoLink" /\ Writers[6] = "Vertex"
  BY DEF Writers
<1>2. \A k \in 1 .. 6 : k = 1 \/ k = 2 \/ k = 3 \/ k = 4 \/ k = 5 \/ k = 6
  OBVIOUS
<1>3. /\ 1 \in 1 .. 6 /\ 2 \in 1 .. 6 /\ 3 \in 1 .. 6 /\ 4 \in 1 .. 6 /\ 5 \in 1 .. 6 /\ 6 \in 1 .. 6
  OBVIOUS
<1>4. {Writers[k] : k \in 1 .. 6} = First
  BY <1>1, <1>2, <1>3
<1> QED BY <1>4 DEF BeforeWiring

LEMMA WiredIs ==
  /\ writer \in BeforeWiring => Wired = {}
  /\ writer = "WireVertex" => Wired = 1 .. at - 1
  /\ writer \notin BeforeWiring \cup {"WireVertex"} => Wired = 1 .. ChainLength
<1>1. BeforeWiring = {"refused"} \cup {Writers[k] : k \in 1 .. 6}
  BY DEF BeforeWiring
<1>2. "WireVertex" \notin BeforeWiring
  BY BeforeWiringIs
<1> HIDE DEF BeforeWiring
<1> QED BY <1>1, <1>2 DEF Wired

LEMMA WiringOrder ==
  ASSUME writer \in {Writers[k] : k \in DOMAIN Writers},
         NextWriter
  PROVE  /\ writer' \in BeforeWiring => writer \in BeforeWiring /\ writer # "Vertex"
         /\ writer' = "WireVertex" => writer = "Vertex"
         /\ writer' \notin BeforeWiring \cup {"WireVertex"} => writer \notin BeforeWiring
<1> DEFINE k == CHOOSE k \in DOMAIN Writers : Writers[k] = writer
<1>1. k \in 1 .. 22 /\ Writers[k] = writer /\ Len(Writers) = 22
  BY DEF Writers
<1>2. writer' = IF k = 22 THEN "done" ELSE Writers[k + 1]
  BY <1>1 DEF NextWriter
<1> HIDE DEF k
<1>3. k \in 1 .. 5 \/ k \in 6 .. 7 \/ k \in 8 .. 14 \/ k \in 15 .. 22
  BY <1>1
<1>4. CASE k \in 1 .. 5
  BY <1>1, <1>2, <1>4, BeforeWiringIs DEF Writers
<1>5. CASE k \in 6 .. 7
  BY <1>1, <1>2, <1>5, BeforeWiringIs DEF Writers
<1>6. CASE k \in 8 .. 14
  BY <1>1, <1>2, <1>6, BeforeWiringIs DEF Writers
<1>7. CASE k \in 15 .. 22
  BY <1>1, <1>2, <1>7, BeforeWiringIs DEF Writers
<1> QED BY <1>3, <1>4, <1>5, <1>6, <1>7

LEMMA ListsNothing == ListsExactly(<<>>, {})
BY EmptyDomain DEF ListsExactly

LEMMA ListsAppend ==
  ASSUME NEW s \in Seq(Nat), NEW P, ListsExactly(s, P), NEW q \in Nat, \A r \in P : r < q
  PROVE  ListsExactly(Append(s, q), P \cup {q})
<1> DEFINE t == Append(s, q)
<1>1. /\ Len(s) \in Nat /\ DOMAIN s = 1 .. Len(s) /\ DOMAIN t = 1 .. Len(s) + 1
      /\ t[Len(s) + 1] = q /\ \A k \in 1 .. Len(s) : t[k] = s[k]
  OBVIOUS
<1>2. /\ {s[k] : k \in DOMAIN s} = P /\ \A j, k \in DOMAIN s : j < k => s[j] < s[k]
  BY DEF ListsExactly
<1> HIDE DEF t
<1>3. {t[k] : k \in DOMAIN t} = P \cup {q}
  BY <1>1, <1>2
<1>4. ASSUME NEW j \in DOMAIN t, NEW k \in DOMAIN t, j < k PROVE t[j] < t[k]
  <2>1. j \in 1 .. Len(s) /\ t[j] = s[j] /\ s[j] \in P
    BY <1>1, <1>2, <1>4
  <2>2. CASE k = Len(s) + 1
    BY <1>1, <2>1, <2>2
  <2>3. CASE k # Len(s) + 1
    BY <1>1, <1>2, <1>4, <2>1, <2>3
  <2> QED BY <2>2, <2>3
<1> QED BY <1>3, <1>4 DEF ListsExactly, t

LEMMA ChainFacts ==
  ASSUME EventShape(event)
  PROVE  /\ ChainLength \in Nat
         /\ \A p \in DOMAIN event.pa : event.lpv[p] \in Nat \ {0}
         /\ \A p, r \in DOMAIN event.pa : p <= r => event.lpv[p] <= event.lpv[r]
<1>1. event.nlpv \in Nat /\ event.lpv \in [DOMAIN event.pa -> 1 .. event.nlpv]
  BY DEF EventShape
<1>2. MaxRecoVertices \in Nat
  BY EventAssumption
<1> QED BY <1>1, <1>2 DEF EventShape, ChainLength, Min

\* LQ(lpv-1): the first PA of the vertex, if it has any.
LEMMA FirstPaFound ==
  ASSUME EventShape(event), NEW v
  PROVE  \/ FirstPa(v) = 0 /\ \A p \in DOMAIN event.pa : event.lpv[p] # v
         \/ /\ FirstPa(v) \in DOMAIN event.pa /\ FirstPa(v) # 0 /\ event.lpv[FirstPa(v)] = v
            /\ \A p \in DOMAIN event.pa : event.lpv[p] = v => FirstPa(v) <= p
<1> DEFINE P == {p \in DOMAIN event.pa : event.lpv[p] = v}
<1>1. FirstPa(v) = IF P = {} THEN 0 ELSE CHOOSE p \in P : \A r \in P : p <= r
  BY DEF FirstPa
<1>2. DOMAIN event.pa \subseteq Nat \ {0}
  BY EventFacts
<1>3. CASE P # {}
  <2>1. P \in SUBSET Nat
    BY <1>2
  <2>2. \E p \in P : \A r \in P : p <= r
    <3> HIDE DEF P
    <3> QED BY <1>3, <2>1, LeastNat
  <2>3. FirstPa(v) \in P /\ \A r \in P : FirstPa(v) <= r
    <3> HIDE DEF P
    <3> QED BY <1>1, <1>3, <2>2
  <2> QED BY <1>2, <2>3
<1>4. CASE P = {}
  BY <1>1, <1>4
<1> QED BY <1>3, <1>4

\* When the PAs of the vertices before v are passed, the walk of v starts at the
\* next PA, if v has one.
LEMMA WalkStarts ==
  ASSUME EventShape(event), NEW v \in Nat, NEW n \in Nat,
         \A p \in DOMAIN event.pa : p <= n <=> event.lpv[p] < v
  PROVE  /\ \A p \in DOMAIN event.pa :
              p <= n <=> \/ event.lpv[p] < v
                         \/ event.lpv[p] = v /\ (FirstPa(v) = 0 \/ p < FirstPa(v))
         /\ FirstPa(v) # 0 =>
              FirstPa(v) \in DOMAIN event.pa /\ event.lpv[FirstPa(v)] = v /\ FirstPa(v) = n + 1
<1> DEFINE f == FirstPa(v)
<1>1. /\ Len(event.pa) \in Nat /\ DOMAIN event.pa = 1 .. Len(event.pa)
      /\ \A p \in DOMAIN event.pa : event.lpv[p] \in Nat
      /\ \A p, r \in DOMAIN event.pa : p <= r => event.lpv[p] <= event.lpv[r]
  BY EventFacts, ChainFacts
<1>2. \/ f = 0 /\ \A p \in DOMAIN event.pa : event.lpv[p] # v
      \/ /\ f \in DOMAIN event.pa /\ f # 0 /\ event.lpv[f] = v
         /\ \A p \in DOMAIN event.pa : event.lpv[p] = v => f <= p
  BY FirstPaFound
<1> HIDE DEF f
<1>3. \A p \in DOMAIN event.pa : ~(event.lpv[p] = v /\ (f = 0 \/ p < f))
  BY <1>1, <1>2
<1>4. ASSUME f # 0 PROVE f = n + 1
  <2>1. f \in 1 .. Len(event.pa) /\ event.lpv[f] = v /\ ~(f <= n)
    BY <1>1, <1>2, <1>4
  <2>2. ASSUME f > n + 1 PROVE FALSE
    <3>1. f - 1 \in DOMAIN event.pa /\ ~(f - 1 <= n) /\ f - 1 <= f /\ f - 1 < f
      BY <1>1, <2>1, <2>2
    <3>2. event.lpv[f - 1] <= v /\ ~(event.lpv[f - 1] < v)
      BY <1>1, <2>1, <3>1
    <3>3. event.lpv[f - 1] = v
      BY <1>1, <3>1, <3>2
    <3>4. f <= f - 1
      BY <1>2, <1>4, <3>1, <3>3
    <3> QED BY <2>1, <3>4
  <2> QED BY <2>1, <2>2
<1> QED BY <1>2, <1>3, <1>4 DEF f

LEMMA InitWiring == Init => WiringHolds
<1> SUFFICES ASSUME Init PROVE WiringHolds
  OBVIOUS
<1>1. /\ writer = "TrackElements" /\ vertices = <<>> /\ paIdx = 0 /\ primaryVertex = <<>>
      /\ at = 1
  BY DEF Init
<1>2. writer \in BeforeWiring /\ writer # "Vertex" /\ writer # "WireVertex"
  BY <1>1, BeforeWiringIs
<1>3. VerticesKnown
  BY <1>1, <1>2, EmptyDomain DEF VerticesKnown
<1>4. CounterInStep /\ OutgoingInStep
  BY <1>1, <1>2, EmptyDomain DEF CounterInStep, OutgoingInStep
<1>5. VerticesOwnTheirs
  BY <1>1, <1>2, WiredIs DEF VerticesOwnTheirs
<1> QED BY <1>3, <1>4, <1>5 DEF WiringHolds

LEMMA ReferencesParticles ==
  ASSUME IInv, ReferencesHold
  PROVE  \A q \in DOMAIN particles :
           /\ q \in Nat \ {0} /\ particles[q].pa \in DOMAIN event.pa /\ particles[q].pa \in Nat \ {0}
           /\ event.lpv[particles[q].pa] \in Nat \ {0}
           /\ \A r \in DOMAIN particles : q < r => particles[q].pa < particles[r].pa
<1>1. DOMAIN particles \subseteq Nat \ {0} /\ DOMAIN event.pa \subseteq Nat \ {0}
  BY ParticleFacts, EventBounds
<1>2. \A q \in DOMAIN particles :
        /\ particles[q].pa \in DOMAIN event.pa
        /\ \A r \in DOMAIN particles : q < r => particles[q].pa < particles[r].pa
  BY DEF ReferencesHold, ParticlesComeFromTheirPa
<1>3. \A p \in DOMAIN event.pa : event.lpv[p] \in Nat \ {0}
  BY EventBounds, ChainFacts
<1> QED BY <1>1, <1>2, <1>3

LEMMA WiringVertexReco ==
  ASSUME IInv, ReferencesHold, WiringHolds, VertexReco
  PROVE  WiringHolds'
<1>1. /\ writer = "Vertex" /\ UNCHANGED <<event, writer, particles, paIdx, primaryVertex>>
      /\ vertices' = [v \in 1 .. ChainLength |->
                        [kind |-> IF v = 1 /\ event.plain THEN "primary" ELSE "other",
                         particles |-> <<>>]]
      /\ lpa' = FirstPa(1)
  BY DEF VertexReco, Round, tracking
<1>2. writer \in BeforeWiring /\ paIdx = 0 /\ ChainLength \in Nat
  BY <1>1, BeforeWiringIs, EventBounds, ChainFacts DEF WiringHolds, VerticesKnown
<1>3. ChainLength' = ChainLength /\ FirstPa(1)' = FirstPa(1)
  BY <1>1 DEF ChainLength, FirstPa
<1>4. DOMAIN vertices' = 1 .. ChainLength /\ Len(vertices') = ChainLength
  BY <1>1, <1>2
<1>5. VerticesKnown'
  <2> DEFINE V == [kind : {"primary", "other", "simulated"}, particles : Seq(Nat)]
  <2>1. <<>> \in Seq(Nat)
    OBVIOUS
  <2>2. vertices' \in [1 .. ChainLength -> V]
    BY <1>1, <2>1
  <2> HIDE DEF V
  <2>3. vertices' \in Seq(V)
    BY <1>2, <2>2
  <2>4. \A v \in DOMAIN vertices' :
          v <= ChainLength /\ vertices'[v].kind = IF v = 1 /\ event.plain THEN "primary" ELSE "other"
    BY <1>1, <1>2, <1>4
  <2> QED BY <1>1, <1>2, <1>3, <1>4, <2>3, <2>4 DEF VerticesKnown, V
<1>6. CounterInStep'
  BY <1>1 DEF CounterInStep
<1>7. OutgoingInStep'
  <2>1. \A v : OutgoingSoFar(v)' = {}
    BY <1>1, <1>2, ReferencesParticles DEF OutgoingSoFar
  <2>2. \A v \in DOMAIN vertices' : vertices'[v].particles = <<>>
    BY <1>1, <1>4
  <2> QED BY <2>1, <2>2, ListsNothing DEF OutgoingInStep
<1>8. VerticesOwnTheirs'
  <2>1. Wired = {}
    BY <1>2, WiredIs
  <2>2. writer' = writer /\ writer # "WireVertex" /\ BeforeWiring' = BeforeWiring
    BY <1>1 DEF BeforeWiring, Writers
  <2>3. Wired' = {}
    BY <1>2, <2>2 DEF Wired, BeforeWiring
  <2> QED BY <1>1, <2>1, <2>3 DEF WiringHolds, VerticesOwnTheirs
<1> QED BY <1>5, <1>6, <1>7, <1>8 DEF WiringHolds

\* One PA further under the same vertex.
LEMMA CounterWirePa ==
  ASSUME IInv, WiringHolds, WirePa
  PROVE  /\ CounterInStep' /\ lpa = paIdx + 1 /\ lpa \in DOMAIN event.pa
         /\ event.lpv[lpa] = at /\ at \in DOMAIN vertices
<1>1. /\ writer = "WireVertex" /\ lpa # 0 /\ at <= Limit(writer) /\ paIdx' = paIdx + 1
      /\ lpa' = NextPa(lpa) /\ UNCHANGED <<event, writer, at>>
  BY DEF WirePa, CountPa
<1>2. /\ at <= ChainLength + 1
      /\ \A p \in DOMAIN event.pa :
           p <= paIdx <=> event.lpv[p] < at \/ (event.lpv[p] = at /\ (lpa = 0 \/ p < lpa))
      /\ lpa \in DOMAIN event.pa /\ event.lpv[lpa] = at /\ lpa = paIdx + 1
      /\ Len(vertices) = ChainLength /\ paIdx \in Nat
  BY <1>1 DEF WiringHolds, CounterInStep, VerticesKnown
<1>3. /\ Len(event.pa) \in Nat /\ DOMAIN event.pa = 1 .. Len(event.pa)
      /\ \A p \in DOMAIN event.pa : event.lpv[p] \in Nat
      /\ \A p, r \in DOMAIN event.pa : p <= r => event.lpv[p] <= event.lpv[r]
      /\ at \in Nat \ {0} /\ ChainLength \in Nat
  BY EventBounds, ChainFacts
<1>4. at \in DOMAIN vertices
  <2>1. Limit(writer) = Len(vertices)
    BY <1>1 DEF Limit, PaWalkers
  <2>2. vertices \in Seq([kind : {"primary", "other", "simulated"}, particles : Seq(Nat)])
    BY DEF WiringHolds, VerticesKnown
  <2> QED BY <1>1, <1>3, <2>1, <2>2
<1>5. \/ lpa' = lpa + 1 /\ lpa + 1 \in DOMAIN event.pa /\ event.lpv[lpa + 1] = at
      \/ lpa' = 0 /\ (lpa + 1 \in DOMAIN event.pa => event.lpv[lpa + 1] # at)
  BY <1>1, <1>2 DEF NextPa
<1>6. ASSUME NEW p \in DOMAIN event.pa
      PROVE  p <= paIdx + 1 <=>
               event.lpv[p] < at \/ (event.lpv[p] = at /\ (lpa' = 0 \/ p < lpa'))
  <2>1. CASE p <= paIdx
    <3>1. event.lpv[p] < at \/ (event.lpv[p] = at /\ p < lpa)
      BY <1>1, <1>2, <2>1
    <3> QED BY <1>2, <1>3, <1>5, <2>1, <3>1
  <2>2. CASE p = lpa
    BY <1>2, <1>3, <1>5, <2>2
  <2>3. CASE p > lpa
    <3>1. lpa + 1 \in DOMAIN event.pa /\ lpa + 1 <= p
      BY <1>2, <1>3, <2>3
    <3>2. /\ ~(p <= paIdx + 1) /\ ~(event.lpv[p] < at)
          /\ event.lpv[lpa + 1] <= event.lpv[p] /\ event.lpv[lpa + 1] >= at
      <4>1. event.lpv[lpa] <= event.lpv[lpa + 1] /\ event.lpv[lpa + 1] <= event.lpv[p]
        BY <1>2, <1>3, <3>1
      <4> QED BY <1>2, <1>3, <2>3, <3>1, <4>1
    <3>3. lpa' = 0 => event.lpv[p] # at
      BY <1>3, <1>5, <3>1, <3>2
    <3>4. lpa' = lpa + 1 => ~(p < lpa')
      BY <1>2, <1>3, <3>1
    <3> QED BY <1>5, <3>2, <3>3, <3>4, <1>2
  <2> QED BY <1>2, <1>3, <2>1, <2>2, <2>3
<1>7. ChainLength' = ChainLength
  BY <1>1 DEF ChainLength
<1>8. CounterInStep'
  BY <1>1, <1>2, <1>5, <1>6, <1>7 DEF CounterInStep
<1> QED BY <1>2, <1>4, <1>8

LEMMA WiringWirePa ==
  ASSUME IInv, ReferencesHold, WiringHolds, WirePa
  PROVE  WiringHolds'
<1> DEFINE q == ParticleForPa(paIdx + 1)
           V == [kind : {"primary", "other", "simulated"}, particles : Seq(Nat)]
<1>1. /\ writer = "WireVertex" /\ paIdx' = paIdx + 1
      /\ vertices' = IF q = 0 THEN vertices
                     ELSE [vertices EXCEPT ![at].particles = Append(@, q)]
      /\ UNCHANGED <<event, writer, at, particles, primaryVertex>>
  BY DEF WirePa, CountPa, tracking
<1>2. /\ CounterInStep' /\ lpa = paIdx + 1 /\ lpa \in DOMAIN event.pa
      /\ event.lpv[lpa] = at /\ at \in DOMAIN vertices
  BY CounterWirePa
<1>3. /\ vertices \in Seq(V) /\ Len(vertices) = ChainLength /\ paIdx \in Nat
      /\ DOMAIN vertices = 1 .. ChainLength /\ ChainLength \in Nat /\ at \in Nat \ {0}
      /\ "WireVertex" \notin BeforeWiring
  BY <1>1, EventBounds, ChainFacts, BeforeWiringIs DEF WiringHolds, VerticesKnown
<1>11. \A v \in DOMAIN vertices : vertices[v] \in V /\ vertices[v].particles \in Seq(Nat)
  <2>1. \A x \in V : x.particles \in Seq(Nat)
    OBVIOUS
  <2> HIDE DEF V
  <2>2. \A v \in DOMAIN vertices : vertices[v] \in V
    BY <1>3
  <2> QED BY <2>1, <2>2
<1>4. q \in {0} \cup DOMAIN particles /\ (q # 0 => q \in Nat /\ particles[q].pa = paIdx + 1)
  BY PaLookup, ParticleFacts
<1> HIDE DEF q
<1>5. /\ vertices' \in Seq(V) /\ Len(vertices') = ChainLength /\ DOMAIN vertices' = DOMAIN vertices
      /\ \A v \in DOMAIN vertices : vertices'[v].kind = vertices[v].kind
      /\ \A v \in DOMAIN vertices : v # at => vertices'[v].particles = vertices[v].particles
      /\ vertices'[at].particles = IF q = 0 THEN vertices[at].particles
                                   ELSE Append(vertices[at].particles, q)
  <2>1. CASE q = 0
    BY <1>1, <1>3, <2>1
  <2>2. CASE q # 0
    <3>1. vertices[at] \in V /\ vertices[at].particles \in Seq(Nat)
      BY <1>2, <1>11
    <3>2. Append(vertices[at].particles, q) \in Seq(Nat)
      BY <1>4, <2>2, <3>1
    <3>3. vertices' = [vertices EXCEPT ![at] =
                         [vertices[at] EXCEPT !.particles = Append(vertices[at].particles, q)]]
      BY <1>1, <2>2
    <3> DEFINE new == [vertices[at] EXCEPT !.particles = Append(vertices[at].particles, q)]
    <3>4. /\ new \in V /\ new.kind = vertices[at].kind
          /\ new.particles = Append(vertices[at].particles, q)
      BY <3>1, <3>2
    <3> HIDE DEF new
    <3>5. vertices' = [vertices EXCEPT ![at] = new]
      BY <3>3 DEF new
    <3> HIDE DEF V
    <3>6. /\ vertices' \in Seq(V) /\ Len(vertices') = ChainLength
          /\ DOMAIN vertices' = DOMAIN vertices /\ vertices'[at] = new
          /\ \A v \in DOMAIN vertices : v # at => vertices'[v] = vertices[v]
      BY <1>2, <1>3, <3>4, <3>5
    <3> QED BY <2>2, <3>4, <3>6
  <2> QED BY <2>1, <2>2
<1>6. ChainLength' = ChainLength
  BY <1>1 DEF ChainLength
<1>7. VerticesKnown'
  BY <1>1, <1>3, <1>5, <1>6 DEF WiringHolds, VerticesKnown
<1>8. ASSUME NEW v \in DOMAIN vertices PROVE ListsExactly(vertices'[v].particles, OutgoingSoFar(v)')
  <2>1. ListsExactly(vertices[v].particles, OutgoingSoFar(v))
    BY <1>1 DEF WiringHolds, OutgoingInStep
  <2>2. OutgoingSoFar(v)' =
          {r \in DOMAIN particles : event.lpv[particles[r].pa] = v /\ particles[r].pa <= paIdx + 1}
    BY <1>1 DEF OutgoingSoFar
  <2>3. \A r \in DOMAIN particles :
          particles[r].pa <= paIdx + 1 <=> particles[r].pa <= paIdx \/ particles[r].pa = paIdx + 1
    BY <1>3, ReferencesParticles
  <2>4. \A r \in DOMAIN particles : particles[r].pa = paIdx + 1 => r = q
    BY DEF IInv, MapsAgree, ParticleForPa, Get, q
  <2>5. CASE v = at /\ q # 0
    <3>1. OutgoingSoFar(v)' = OutgoingSoFar(v) \cup {q}
      BY <1>2, <1>4, <2>2, <2>3, <2>4, <2>5 DEF OutgoingSoFar
    <3>2. \A r \in OutgoingSoFar(v) : r < q
      <4> SUFFICES ASSUME NEW r \in DOMAIN particles, particles[r].pa <= paIdx PROVE r < q
        BY DEF OutgoingSoFar
      <4>1. particles[r].pa < particles[q].pa /\ particles[q].pa \in Nat /\ particles[r].pa \in Nat
        BY <1>3, <1>4, <2>5, ReferencesParticles
      <4>2. ~(q < r) /\ q # r
        BY <1>4, <2>5, <4>1, ReferencesParticles
      <4> QED BY <1>4, <2>5, <4>2, ReferencesParticles
    <3>3. vertices[v].particles \in Seq(Nat)
      BY <1>11
    <3>4. q \in Nat
      BY <1>4, <2>5
    <3>5. ListsExactly(Append(vertices[v].particles, q), OutgoingSoFar(v) \cup {q})
      BY <2>1, <3>2, <3>3, <3>4, ListsAppend
    <3>6. vertices'[v].particles = Append(vertices[v].particles, q)
      BY <1>5, <2>5
    <3> QED BY <3>1, <3>5, <3>6
  <2>6. CASE ~(v = at /\ q # 0)
    <3>1. OutgoingSoFar(v)' = OutgoingSoFar(v)
      <4>1. \A r \in DOMAIN particles :
              event.lpv[particles[r].pa] = v => particles[r].pa # paIdx + 1
        BY <1>2, <2>4, <2>6, ReferencesParticles
      <4> QED BY <2>2, <2>3, <4>1 DEF OutgoingSoFar
    <3> QED BY <1>5, <2>1, <2>6, <3>1
  <2> QED BY <2>5, <2>6
<1>9. OutgoingInStep'
  BY <1>5, <1>8 DEF OutgoingInStep
<1>10. VerticesOwnTheirs'
  <2>1. Wired = 1 .. at - 1 /\ Wired' = 1 .. at - 1
    BY <1>1, WiredIs DEF Wired
  <2>2. \A v \in 1 .. at - 1 : v \in DOMAIN vertices /\ v # at
    BY <1>2, <1>3
  <2> QED BY <1>1, <1>5, <2>1, <2>2 DEF WiringHolds, VerticesOwnTheirs
<1> QED BY <1>2, <1>7, <1>9, <1>10 DEF WiringHolds

\* All PAs of a vertex are through: it is wired.
LEMMA WiringWireVertex ==
  ASSUME IInv, ReferencesHold, WiringHolds, WireVertex
  PROVE  WiringHolds'
<1> DEFINE V == [kind : {"primary", "other", "simulated"}, particles : Seq(Nat)]
<1>1. /\ writer = "WireVertex" /\ lpa = 0 /\ at <= Limit(writer) /\ at' = at + 1
      /\ lpa' = FirstPa(at + 1)
      /\ UNCHANGED <<event, writer, particles, vertices, paIdx>>
      /\ primaryVertex' = IF vertices[at].kind = "primary"
                          THEN primaryVertex \o vertices[at].particles ELSE primaryVertex
  BY DEF WireVertex, Round, tracking
<1>2. /\ vertices \in Seq(V) /\ Len(vertices) = ChainLength /\ paIdx \in Nat
      /\ DOMAIN vertices = 1 .. ChainLength /\ ChainLength \in Nat /\ at \in Nat \ {0}
      /\ "WireVertex" \notin BeforeWiring /\ ChainLength' = ChainLength
      /\ Limit(writer) = Len(vertices)
  BY <1>1, EventBounds, ChainFacts, BeforeWiringIs
     DEF WiringHolds, VerticesKnown, ChainLength, Limit, PaWalkers
<1>3. /\ at \in DOMAIN vertices /\ at <= ChainLength
      /\ \A p \in DOMAIN event.pa : p <= paIdx <=> event.lpv[p] < at + 1
  <2>1. /\ at <= ChainLength + 1
        /\ \A p \in DOMAIN event.pa : p <= paIdx <=> event.lpv[p] < at \/ event.lpv[p] = at
    BY <1>1 DEF WiringHolds, CounterInStep
  <2>2. \A p \in DOMAIN event.pa : event.lpv[p] \in Nat
    BY EventBounds, ChainFacts
  <2>3. at \in 1 .. ChainLength
    BY <1>1, <1>2
  <2>4. \A p \in DOMAIN event.pa :
          event.lpv[p] < at + 1 <=> event.lpv[p] < at \/ event.lpv[p] = at
    BY <1>2, <2>2
  <2> QED BY <1>2, <2>1, <2>3, <2>4
<1>4. VerticesKnown'
  BY <1>1, <1>2 DEF WiringHolds, VerticesKnown
<1>5. CounterInStep'
  <2>1. /\ \A p \in DOMAIN event.pa :
             p <= paIdx <=> \/ event.lpv[p] < at + 1
                            \/ event.lpv[p] = at + 1 /\ (FirstPa(at + 1) = 0 \/ p < FirstPa(at + 1))
        /\ FirstPa(at + 1) # 0 =>
             /\ FirstPa(at + 1) \in DOMAIN event.pa /\ event.lpv[FirstPa(at + 1)] = at + 1
             /\ FirstPa(at + 1) = paIdx + 1
    <3>1. at + 1 \in Nat
      BY <1>2
    <3> QED BY <1>2, <1>3, <3>1, EventBounds, WalkStarts
  <2>2. at + 1 <= ChainLength + 1
    BY <1>2, <1>3
  <2> QED BY <1>1, <1>2, <2>1, <2>2 DEF CounterInStep
<1>6. \A v : OutgoingSoFar(v)' = OutgoingSoFar(v)
  BY <1>1 DEF OutgoingSoFar
<1>7. \A v \in DOMAIN vertices : ListsExactly(vertices[v].particles, OutgoingSoFar(v))
  BY <1>1 DEF WiringHolds, OutgoingInStep
<1>8. OutgoingInStep'
  BY <1>1, <1>6, <1>7 DEF OutgoingInStep
<1>9. Wired = 1 .. at - 1 /\ Wired' = 1 .. at
  BY <1>1, <1>2 DEF Wired
<1>10. ASSUME NEW v \in 1 .. at
       PROVE  ListsExactly(vertices[v].particles,
                           {q \in DOMAIN particles : event.lpv[particles[q].pa] = v})
  <2>1. CASE v < at
    BY <1>2, <1>9, <2>1 DEF WiringHolds, VerticesOwnTheirs
  <2>2. CASE v = at
    <3>1. OutgoingSoFar(v) = {q \in DOMAIN particles : event.lpv[particles[q].pa] = v}
      <4>1. \A q \in DOMAIN particles :
              event.lpv[particles[q].pa] = v => particles[q].pa <= paIdx
        <5>1. \A q \in DOMAIN particles : particles[q].pa \in DOMAIN event.pa
          BY ReferencesParticles
        <5>2. \A p \in DOMAIN event.pa : event.lpv[p] = v => p <= paIdx
          BY <1>2, <1>3, <2>2
        <5> QED BY <5>1, <5>2
      <4> QED BY <4>1 DEF OutgoingSoFar
    <3> QED BY <1>3, <1>7, <2>2, <3>1
  <2> QED BY <1>2, <2>1, <2>2
<1>11. primaryVertex' = IF 1 \in 1 .. at /\ event.plain THEN vertices[1].particles ELSE <<>>
  <2>1. /\ primaryVertex = IF 1 \in 1 .. at - 1 /\ event.plain THEN vertices[1].particles ELSE <<>>
        /\ vertices[at].kind = IF at = 1 /\ event.plain THEN "primary" ELSE "other"
    BY <1>3, <1>9 DEF WiringHolds, VerticesOwnTheirs, VerticesKnown
  <2>2. CASE at = 1 /\ event.plain
    <3>1. \A x \in V : x.particles \in Seq(Nat)
      OBVIOUS
    <3> HIDE DEF V
    <3>2. vertices[1].particles \in Seq(Nat)
      BY <1>2, <1>3, <2>2, <3>1
    <3>3. <<>> \o vertices[1].particles = vertices[1].particles
      BY <3>2
    <3> QED BY <1>1, <2>1, <2>2, <3>3
  <2>3. CASE ~(at = 1 /\ event.plain)
    <3>1. primaryVertex' = primaryVertex
      BY <1>1, <2>1, <2>3
    <3>2. event.plain => (1 \in 1 .. at - 1 <=> 1 \in 1 .. at)
      BY <1>2, <2>3
    <3> QED BY <2>1, <3>1, <3>2
  <2> QED BY <2>2, <2>3
<1>12. VerticesOwnTheirs'
  BY <1>1, <1>9, <1>10, <1>11 DEF VerticesOwnTheirs
<1> QED BY <1>4, <1>5, <1>8, <1>12 DEF WiringHolds

LEMMA WiringNextWriter ==
  ASSUME IInv, ReferencesHold, WiringHolds, NextWriter
  PROVE  WiringHolds'
<1>1. /\ UNCHANGED <<event, particles, vertices, primaryVertex, lpa, paIdx>>
      /\ at' = 1 /\ at > Limit(writer)
      /\ writer \in {Writers[k] : k \in DOMAIN Writers}
  BY DEF NextWriter, tracking, vertexing
<1>2. /\ writer' \in BeforeWiring => writer \in BeforeWiring /\ writer # "Vertex"
      /\ writer' = "WireVertex" => writer = "Vertex"
      /\ writer' \notin BeforeWiring \cup {"WireVertex"} => writer \notin BeforeWiring
      /\ BeforeWiring' = BeforeWiring
      /\ "WireVertex" \notin BeforeWiring /\ "Vertex" \in BeforeWiring /\ "Vertex" # "WireVertex"
  BY <1>1, WiringOrder, BeforeWiringIs DEF BeforeWiring, Writers
<1>3. /\ at \in Nat \ {0} /\ ChainLength \in Nat /\ ChainLength' = ChainLength
      /\ \A v : OutgoingSoFar(v)' = OutgoingSoFar(v)
      /\ FirstPa(1)' = FirstPa(1)
  BY <1>1, EventBounds, ChainFacts DEF ChainLength, OutgoingSoFar, FirstPa
<1>4. writer = "Vertex" => Len(vertices) = ChainLength /\ lpa = FirstPa(1) /\ paIdx = 0
  <2>1. writer = "Vertex" => Limit(writer) = 1
    BY DEF Limit, PaWalkers
  <2> QED BY <1>1, <1>2, <1>3, <2>1 DEF WiringHolds, VerticesKnown
<1>5. writer = "WireVertex" => at - 1 = ChainLength
  <2>1. writer = "WireVertex" => Limit(writer) = Len(vertices)
    BY DEF Limit, PaWalkers
  <2>2. writer = "WireVertex" => at <= ChainLength + 1 /\ Len(vertices) = ChainLength
    BY DEF WiringHolds, CounterInStep, VerticesKnown
  <2> QED BY <1>1, <1>3, <2>1, <2>2
<1>6. VerticesKnown'
  BY <1>1, <1>2, <1>3, <1>4 DEF WiringHolds, VerticesKnown
<1>7. CounterInStep'
  <2> SUFFICES ASSUME writer' = "WireVertex" PROVE CounterInStep'
    BY DEF CounterInStep
  <2>1. lpa' = FirstPa(1) /\ paIdx' = 0
    BY <1>1, <1>2, <1>4
  <2>2. \A p \in DOMAIN event.pa : p <= 0 <=> event.lpv[p] < 1
    BY EventBounds, ChainFacts
  <2>3. /\ \A p \in DOMAIN event.pa :
             p <= 0 <=> \/ event.lpv[p] < 1
                        \/ event.lpv[p] = 1 /\ (FirstPa(1) = 0 \/ p < FirstPa(1))
        /\ FirstPa(1) # 0 =>
             FirstPa(1) \in DOMAIN event.pa /\ event.lpv[FirstPa(1)] = 1 /\ FirstPa(1) = 0 + 1
    BY <2>2, EventBounds, WalkStarts
  <2>4. 1 <= ChainLength + 1
    BY <1>3
  <2> QED BY <1>1, <1>3, <2>1, <2>3, <2>4 DEF CounterInStep
<1>8. OutgoingInStep'
  <2>1. writer' \in BeforeWiring \cup {"WireVertex"} => writer \in BeforeWiring
    BY <1>2
  <2> QED BY <1>1, <1>2, <1>3, <2>1 DEF WiringHolds, OutgoingInStep
<1>9. Wired' = Wired
  <2>1. /\ writer' \in BeforeWiring => Wired' = {}
        /\ writer' = "WireVertex" => Wired' = 1 .. 0
        /\ writer' \notin BeforeWiring \cup {"WireVertex"} => Wired' = 1 .. ChainLength
    BY <1>1, <1>2, <1>3 DEF Wired, BeforeWiring
  <2>2. 1 .. 0 = {}
    OBVIOUS
  <2> QED BY <1>2, <1>5, <2>1, <2>2, WiredIs
<1>10. VerticesOwnTheirs'
  BY <1>1, <1>9 DEF WiringHolds, VerticesOwnTheirs
<1> QED BY <1>6, <1>7, <1>8, <1>10 DEF WiringHolds

\* The other writers leave the vertices alone.
LEMMA SameWiring ==
  ASSUME WiringHolds,
         UNCHANGED <<event, writer, particles, vertices, primaryVertex, lpa, paIdx>>,
         writer \in {"Vertex", "WireVertex"} => at' = at
  PROVE  WiringHolds'
<1>1. /\ ChainLength' = ChainLength /\ BeforeWiring' = BeforeWiring /\ FirstPa(1)' = FirstPa(1)
      /\ \A v : OutgoingSoFar(v)' = OutgoingSoFar(v)
  BY DEF ChainLength, BeforeWiring, FirstPa, OutgoingSoFar
<1>2. VerticesKnown'
  BY <1>1 DEF WiringHolds, VerticesKnown
<1>3. CounterInStep'
  BY <1>1 DEF WiringHolds, CounterInStep
<1>4. OutgoingInStep'
  BY <1>1 DEF WiringHolds, OutgoingInStep
<1>5. Wired' = Wired
  BY <1>1 DEF Wired
<1>6. VerticesOwnTheirs'
  BY <1>5 DEF WiringHolds, VerticesOwnTheirs
<1> QED BY <1>2, <1>3, <1>4, <1>6 DEF WiringHolds

\* Up to the end of Tracking there are no vertices.
LEMMA WiringBefore ==
  ASSUME NothingYet, WiringHolds, writer \in Early \cup {"Tracking"},
         UNCHANGED <<event, writer, vertices, primaryVertex, lpa, paIdx>>
  PROVE  WiringHolds'
<1>1. /\ vertices = <<>> /\ writer \in BeforeWiring /\ writer # "Vertex" /\ writer # "WireVertex"
      /\ BeforeWiring' = BeforeWiring /\ ChainLength' = ChainLength
  BY BeforeWiringIs DEF NothingYet, Early, BeforeWiring, ChainLength
<1>2. VerticesKnown'
  BY <1>1 DEF WiringHolds, VerticesKnown
<1>3. CounterInStep' /\ OutgoingInStep'
  BY <1>1, EmptyDomain DEF CounterInStep, OutgoingInStep
<1>4. Wired = {} /\ Wired' = {}
  BY <1>1, WiredIs DEF Wired, BeforeWiring
<1>5. VerticesOwnTheirs'
  BY <1>4 DEF WiringHolds, VerticesOwnTheirs
<1> QED BY <1>2, <1>3, <1>5 DEF WiringHolds

LEMMA WiringVertexRefuses ==
  ASSUME WiringHolds, VertexRefuses
  PROVE  WiringHolds'
<1>1. /\ writer = "Vertex" /\ writer' = "refused"
      /\ UNCHANGED <<event, particles, vertices, primaryVertex, lpa, paIdx>>
      /\ writer \in BeforeWiring /\ writer' \in BeforeWiring
      /\ BeforeWiring' = BeforeWiring /\ ChainLength' = ChainLength
      /\ \A v : OutgoingSoFar(v)' = OutgoingSoFar(v)
  BY BeforeWiringIs
     DEF VertexRefuses, tracking, vertexing, BeforeWiring, ChainLength, OutgoingSoFar
<1>2. VerticesKnown'
  BY <1>1 DEF WiringHolds, VerticesKnown
<1>3. CounterInStep'
  BY <1>1 DEF CounterInStep
<1>4. OutgoingInStep'
  BY <1>1 DEF WiringHolds, OutgoingInStep
<1>5. Wired = {} /\ Wired' = {}
  BY <1>1, WiredIs DEF Wired, BeforeWiring
<1>6. VerticesOwnTheirs'
  BY <1>1, <1>5 DEF WiringHolds, VerticesOwnTheirs
<1> QED BY <1>2, <1>3, <1>4, <1>6 DEF WiringHolds

\* The simulated vertex comes after the reconstructed ones.
LEMMA WiringVertexTail ==
  ASSUME IInv, WiringHolds, VertexTail
  PROVE  WiringHolds'
<1> DEFINE V == [kind : {"primary", "other", "simulated"}, particles : Seq(Nat)]
           sim == [kind |-> "simulated", particles |-> <<>>]
<1>1. /\ writer = "VertexTail" /\ UNCHANGED <<event, writer, particles, primaryVertex, lpa, paIdx>>
      /\ vertices' = IF event.nvtxmc >= 1 THEN Append(vertices, sim) ELSE vertices
      /\ writer \notin BeforeWiring /\ BeforeWiring' = BeforeWiring
      /\ ChainLength' = ChainLength /\ ChainLength \in Nat
  BY BeforeWiringIs, EventBounds, ChainFacts
     DEF VertexTail, Round, tracking, BeforeWiring, ChainLength
<1>2. /\ vertices \in Seq(V) /\ ChainLength <= Len(vertices)
      /\ Len(vertices) \in Nat /\ DOMAIN vertices = 1 .. Len(vertices)
  BY <1>1 DEF WiringHolds, VerticesKnown
<1>3. sim \in V /\ sim.particles = <<>>
  <2>1. <<>> \in Seq(Nat)
    OBVIOUS
  <2> QED BY <2>1
<1>4. /\ vertices' \in Seq(V) /\ Len(vertices) <= Len(vertices') /\ Len(vertices') \in Nat
      /\ DOMAIN vertices' = 1 .. Len(vertices')
      /\ \A v \in 1 .. Len(vertices) : vertices'[v] = vertices[v]
      /\ \A v \in DOMAIN vertices' : v \in 1 .. Len(vertices) \/ vertices'[v] = sim
  <2> HIDE DEF V, sim
  <2>1. CASE vertices' = vertices
    BY <1>2, <2>1
  <2>2. CASE vertices' = Append(vertices, sim)
    BY <1>2, <1>3, <2>2
  <2> QED BY <1>1, <2>1, <2>2
<1>5. VerticesKnown'
  <2>1. \A v \in DOMAIN vertices' : v <= ChainLength =>
          vertices'[v].kind = IF v = 1 /\ event.plain THEN "primary" ELSE "other"
    BY <1>1, <1>2, <1>4 DEF WiringHolds, VerticesKnown
  <2>2. \A v \in DOMAIN vertices' : v > ChainLength => vertices'[v].particles = <<>>
    BY <1>1, <1>2, <1>3, <1>4 DEF WiringHolds, VerticesKnown
  <2>3. paIdx \in Nat /\ ChainLength <= Len(vertices')
    BY <1>1, <1>2, <1>4 DEF WiringHolds, VerticesKnown
  <2>4. writer # "Vertex" /\ writer # "WireVertex"
    BY <1>1
  <2> HIDE DEF sim
  <2> QED BY <1>1, <1>4, <2>1, <2>2, <2>3, <2>4 DEF VerticesKnown
<1>6. CounterInStep' /\ OutgoingInStep'
  BY <1>1 DEF CounterInStep, OutgoingInStep
<1>7. Wired = 1 .. ChainLength /\ Wired' = 1 .. ChainLength
  BY <1>1, WiredIs DEF Wired, BeforeWiring
<1>8. VerticesOwnTheirs'
  <2>1. \A v \in 1 .. ChainLength : vertices'[v] = vertices[v]
    BY <1>1, <1>2, <1>4
  <2>2. 1 \in 1 .. ChainLength => vertices'[1] = vertices[1]
    BY <2>1
  <2> QED BY <1>1, <1>7, <2>1, <2>2 DEF WiringHolds, VerticesOwnTheirs
<1> QED BY <1>5, <1>6, <1>8 DEF WiringHolds

LEMMA WiringLater ==
  ASSUME IInv, ReferencesHold, WiringHolds, AfterTracking
  PROVE  WiringHolds'
<1>1. UNCHANGED <<event, particles>>
  BY LaterSteps DEF tracking
<1>2. CASE VertexRefuses \/ VertexReco \/ WirePa \/ WireVertex \/ VertexTail
  BY <1>2, WiringVertexRefuses, WiringVertexReco, WiringWirePa, WiringWireVertex, WiringVertexTail
<1>3. CASE LinkTruth \/ DecayVertex
  BY <1>1, <1>3, SameWiring DEF LinkTruth, DecayVertex, Round, vertexing
<1>4. CASE EmcaPa \/ CalorimeterPa \/ SticShowerVecp
  BY <1>1, <1>4, SameWiring DEF EmcaPa, CalorimeterPa, SticShowerVecp, Round, vertexing
<1>5. CASE DedxQualityPa \/ ParticleIdTrack \/ PidExtrasSdstTrack \/ Pi0Particle \/ BtagTrack
  BY <1>1, <1>5, SameWiring
     DEF DedxQualityPa, ParticleIdTrack, PidExtrasSdstTrack, Pi0Particle, BtagTrack, Round,
         vertexing
<1>6. CASE EltrSdstPa \/ SdstPaExtrasPa \/ MtpcPa \/ TofPa \/ PaPidExtrasPa
  BY <1>1, <1>6, SameWiring
     DEF EltrSdstPa, SdstPaExtrasPa, MtpcPa, TofPa, PaPidExtrasPa, PaRow, Round, vertexing
<1> QED BY <1>2, <1>3, <1>4, <1>5, <1>6 DEF AfterTracking

LEMMA StepWiring ==
  IInv /\ ReferencesHold /\ WiringHolds /\ [Next]_vars => WiringHolds'
<1> SUFFICES ASSUME IInv, ReferencesHold, WiringHolds, [Next]_vars PROVE WiringHolds'
  OBVIOUS
<1>1. CASE NextWriter
  BY <1>1, WiringNextWriter
<1>2. CASE TrackElementsPa \/ TraxPa \/ VdHitsTrack
  BY <1>2, WiringBefore
     DEF TrackElementsPa, TraxPa, VdHitsTrack, Round, vertexing, ReferencesHold, Early
<1>3. CASE SkippedPa \/ NeutralPa \/ ChargedPa
  BY <1>3, WiringBefore
     DEF SkippedPa, NeutralPa, ChargedPa, Round, vertexing, ReferencesHold
<1>4. CASE AfterTracking
  BY <1>4, WiringLater
<1>5. CASE UNCHANGED vars
  BY <1>5, SameWiring DEF vars, vertexing, tracking
<1> QED BY StepKinds, <1>1, <1>2, <1>3, <1>4, <1>5

\* At any moment of the hook the particles wired to a vertex are those of the PAs
\* Vertex has walked.
THEOREM WiringAlwaysHolds == Spec => []WiringHolds
BY InitWiring, StepWiring, RelationsHold, ReferencesAlwaysHold, PTL DEF Spec

\* A vertex lists the particles of the PAs below it, for any chain and any PAs
\* that have no particle.
THEOREM VerticesAreRight == Spec => []VerticesOwnTheirs
<1>1. WiringHolds => VerticesOwnTheirs
  BY DEF WiringHolds
<1> QED BY <1>1, WiringAlwaysHolds, PTL

-----------------------------------------------------------------------------
(* The calorimeters.                                                       *)

LEMMA NoHits == ASSUME NEW p, NEW s PROVE Hits(p, s, 0) = <<>>
<1>1. 1 .. 0 = {}
  OBVIOUS
<1>2. Hits(p, s, 0) = [k \in {} |-> [pa |-> p, shower |-> s, n |-> k]]
  BY <1>1 DEF Hits
<1> QED BY <1>2

\* record() keeps the list of showers only up to the last one with a hit: a
\* shower beyond it has none, and the lookup of CalorimeterWriter gives that.
LEMMA RecordedIsEmca ==
  ASSUME EventShape(event), NEW p \in DOMAIN event.pa, NEW s \in Nat \ {0}
  PROVE  /\ Get(RecordedHits(p), s, <<>>) = EmcaHits(p, s)
         /\ RecordedHits(p) \in Seq({RecordedHits(p)[k] : k \in DOMAIN RecordedHits(p)})
<1> DEFINE emca == event.pa[p].emca
           T == {n \in 0 .. Len(emca) : \A k \in DOMAIN emca : emca[k] > 0 => k <= n}
           Last(l) == /\ l = 0 \/ emca[l] > 0
                      /\ \A k \in DOMAIN emca : emca[k] > 0 => k <= l
           last == CHOOSE l \in 0 .. Len(emca) : Last(l)
<1>1. emca \in Seq(Nat)
  <2>1. event.pa[p] \in Pa
    BY EventFacts
  <2> QED BY <2>1 DEF Pa
<1> HIDE DEF emca
<1>2. /\ Len(emca) \in Nat /\ DOMAIN emca = 1 .. Len(emca)
      /\ \A k \in DOMAIN emca : emca[k] \in Nat
  BY <1>1
<1>3. \E l \in 0 .. Len(emca) : Last(l)
  <2>1. T \in SUBSET Nat /\ Len(emca) \in T
    BY <1>2
  <2>2. PICK l \in T : \A m \in T : l <= m
    <3> HIDE DEF T
    <3> QED BY <2>1, LeastNat
  <2>3. l \in 0 .. Len(emca) /\ \A k \in DOMAIN emca : emca[k] > 0 => k <= l
    BY <2>2
  <2>4. ASSUME l # 0, ~(emca[l] > 0) PROVE FALSE
    <3>1. l \in DOMAIN emca /\ l - 1 \in 0 .. Len(emca) /\ ~(l <= l - 1)
      BY <1>2, <2>3, <2>4
    <3>2. \A k \in DOMAIN emca : emca[k] > 0 => k <= l - 1
      BY <1>2, <2>3, <2>4, <3>1
    <3>3. l - 1 \in T
      BY <3>1, <3>2
    <3> QED BY <2>2, <3>1, <3>3
  <2> QED BY <2>3, <2>4
<1>4. last \in 0 .. Len(emca) /\ Last(last)
  <2> HIDE DEF Last
  <2> QED BY <1>3
<1>5. RecordedHits(p) = [k \in 1 .. last |-> Hits(p, k, emca[k])]
  BY DEF RecordedHits, emca
<1>6. EmcaHits(p, s) = Hits(p, s, Get(emca, s, 0))
  BY DEF EmcaHits, emca
<1> HIDE DEF last
<1>7. last \in Nat /\ DOMAIN RecordedHits(p) = 1 .. last
  BY <1>2, <1>4, <1>5
<1>8. ASSUME s <= last PROVE Get(RecordedHits(p), s, <<>>) = EmcaHits(p, s)
  <2>1. s \in 1 .. last /\ s \in DOMAIN emca
    BY <1>2, <1>4, <1>7, <1>8
  <2> QED BY <1>5, <1>6, <1>7, <2>1 DEF Get
<1>9. ASSUME ~(s <= last) PROVE Get(RecordedHits(p), s, <<>>) = EmcaHits(p, s)
  <2>1. Get(emca, s, 0) = 0
    BY <1>2, <1>4, <1>9 DEF Get
  <2>2. s \notin DOMAIN RecordedHits(p)
    BY <1>7, <1>9
  <2> QED BY <1>6, <2>1, <2>2, NoHits DEF Get
<1>10. RecordedHits(p) \in Seq({RecordedHits(p)[k] : k \in DOMAIN RecordedHits(p)})
  BY <1>5, <1>7
<1> QED BY <1>8, <1>9, <1>10

LEMMA HitsAreSequences ==
  ASSUME EventShape(event), NEW p \in DOMAIN event.pa, NEW s \in Nat
  PROVE  EmcaHits(p, s) \in Seq([pa : Nat, shower : Nat, n : Nat])
<1> DEFINE n == Get(event.pa[p].emca, s, 0)
           H == [pa : Nat, shower : Nat, n : Nat]
<1>1. n \in Nat
  <2>1. event.pa[p] \in Pa
    BY EventFacts
  <2>2. event.pa[p].emca \in Seq(Nat)
    BY <2>1 DEF Pa
  <2> QED BY <2>2 DEF Get
<1>2. p \in Nat
  BY EventFacts
<1>3. EmcaHits(p, s) = [k \in 1 .. n |-> [pa |-> p, shower |-> s, n |-> k]]
  BY DEF EmcaHits, Hits
<1> HIDE DEF n
<1>4. \A k \in 1 .. n : [pa |-> p, shower |-> s, n |-> k] \in H
  BY <1>1, <1>2
<1> HIDE DEF H
<1>5. EmcaHits(p, s) \in Seq(H)
  BY <1>1, <1>3, <1>4
<1> QED BY <1>5 DEF H

\* The layer loop of walkEMNC ends inside the profile.
LEMMA ProfileIsBounded ==
  ASSUME NEW nlay, NEW patt
  PROVE  ProfileLength(nlay, patt) \in 0 .. MaxHpcLayers
<1> DEFINE filled(m) == Cardinality({k \in patt : k <= m})
           T == {l \in 1 .. MaxHpcLayers : l = MaxHpcLayers \/ filled(l) = nlay}
<1>1. MaxHpcLayers \in Nat
  BY EventAssumption
<1>2. CASE nlay \in 1 .. MaxHpcLayers
  <2>1. MaxHpcLayers \in T /\ T \in SUBSET Nat
    <3> HIDE DEF filled
    <3> QED BY <1>1, <1>2
  <2>2. PICK l \in T : \A m \in T : l <= m
    <3> HIDE DEF T
    <3> QED BY <2>1, LeastNat
  <2>3. \A m \in 1 .. l - 1 : filled(m) # nlay
    <3> HIDE DEF filled
    <3> QED BY <1>1, <2>2
  <2>4. \E i \in 1 .. MaxHpcLayers :
          /\ i = MaxHpcLayers \/ filled(i) = nlay
          /\ \A m \in 1 .. i - 1 : filled(m) # nlay
    <3> HIDE DEF filled
    <3> QED BY <2>2, <2>3
  <2>5. ProfileLength(nlay, patt) = CHOOSE i \in 1 .. MaxHpcLayers :
          /\ i = MaxHpcLayers \/ filled(i) = nlay
          /\ \A m \in 1 .. i - 1 : filled(m) # nlay
    BY <1>2 DEF ProfileLength
  <2> HIDE DEF filled
  <2>6. ProfileLength(nlay, patt) \in 1 .. MaxHpcLayers
    BY <2>4, <2>5
  <2> QED BY <1>1, <2>6
<1>3. CASE nlay \notin 1 .. MaxHpcLayers
  BY <1>1, <1>3 DEF ProfileLength
<1> QED BY <1>2, <1>3

LEMMA InitClusters == Init => ClustersHold
<1> SUFFICES ASSUME Init PROVE ClustersHold
  OBVIOUS
<1>1. writer = "TrackElements" /\ showerHits = <<>> /\ clusters = <<>>
  BY DEF Init
<1>2. showerHits \in Seq({showerHits[p] : p \in DOMAIN showerHits}) /\ clusters \in Seq(OwnClusters)
  BY <1>1
<1> QED BY <1>1, <1>2 DEF ClustersHold, ShowerHitsAreOwn, AfterEmca, Late

\* The list of EMCA keeps the hits it has and gets those of one more PA.
LEMMA ShowersEmca ==
  ASSUME IInv, ShowerHitsAreOwn, EmcaPa
  PROVE  ShowerHitsAreOwn'
<1> DEFINE rec == RecordedHits(at)
           Own(list, p) == \A s \in 1 .. event.pa[p].emnc :
                             Get(Get(list, p, <<>>), s, <<>>) = EmcaHits(p, s)
<1>1. /\ writer = "Emca" /\ UNCHANGED <<event, writer>> /\ at' = at + 1 /\ at <= Limit(writer)
      /\ showerHits' = IF rec = <<>> THEN showerHits ELSE Put(showerHits, at, rec, <<>>)
  BY DEF EmcaPa, Round
<1>2. /\ at \in DOMAIN event.pa /\ at \in Nat \ {0} /\ DOMAIN event.pa = 1 .. Len(event.pa)
      /\ EventShape(event) /\ Len(event.pa) \in Nat
  BY <1>1, EventBounds DEF Limit, PaWalkers
<1>3. /\ Len(showerHits) \in Nat /\ DOMAIN showerHits = 1 .. Len(showerHits)
      /\ Len(showerHits) < at /\ "Emca" \in Late /\ "Emca" \notin AfterEmca
      /\ \A p \in DOMAIN event.pa : p < at => Own(showerHits, p)
  <2>1. /\ showerHits \in Seq({showerHits[p] : p \in DOMAIN showerHits})
        /\ Len(showerHits) < at /\ \A p \in DOMAIN event.pa : p < at => Own(showerHits, p)
    BY <1>1 DEF ShowerHitsAreOwn
  <2> QED BY <2>1 DEF AfterEmca, Late
<1>4. \A s \in Nat \ {0} : Get(rec, s, <<>>) = EmcaHits(at, s)
  BY <1>2, RecordedIsEmca
<1> HIDE DEF rec
<1>5. /\ DOMAIN showerHits' = 1 .. Len(showerHits') /\ Len(showerHits') \in Nat
      /\ Len(showerHits') < at + 1
      /\ showerHits' \in Seq({showerHits'[p] : p \in DOMAIN showerHits'})
      /\ Get(showerHits', at, <<>>) = rec
      /\ \A p \in 1 .. at - 1 : Get(showerHits', p, <<>>) = Get(showerHits, p, <<>>)
  <2>1. CASE rec = <<>>
    <3>1. at \notin DOMAIN showerHits
      BY <1>2, <1>3
    <3> QED BY <1>1, <1>2, <1>3, <2>1, <3>1 DEF Get, ShowerHitsAreOwn
  <2>2. CASE rec # <<>>
    <3>1. showerHits' = [k \in 1 .. at |->
                           IF k = at THEN rec ELSE IF k <= Len(showerHits) THEN showerHits[k] ELSE <<>>]
      BY <1>1, <1>2, <1>3, <2>2 DEF Put
    <3>2. PICK new : new = showerHits'
      OBVIOUS
    <3>3. /\ DOMAIN new = 1 .. at /\ new[at] = rec
          /\ \A k \in 1 .. at - 1 : new[k] = IF k <= Len(showerHits) THEN showerHits[k] ELSE <<>>
      BY <1>2, <3>1, <3>2
    <3>4. new \in Seq({new[p] : p \in DOMAIN new}) /\ Len(new) = at
      BY <1>2, <3>1, <3>2, <3>3
    <3>5. Get(new, at, <<>>) = rec
      BY <1>2, <3>3 DEF Get
    <3>6. ASSUME NEW p \in 1 .. at - 1 PROVE Get(new, p, <<>>) = Get(showerHits, p, <<>>)
      <4>1. p \in DOMAIN new /\ (p <= Len(showerHits) <=> p \in DOMAIN showerHits)
        BY <1>2, <1>3, <3>3
      <4> QED BY <3>3, <4>1 DEF Get
    <3>7. at < at + 1
      BY <1>2
    <3> QED BY <1>2, <3>2, <3>3, <3>4, <3>5, <3>6, <3>7
  <2> QED BY <2>1, <2>2
<1>6. ASSUME NEW p \in DOMAIN event.pa, p < at + 1 PROVE Own(showerHits', p)
  <2>1. event.pa[p].emnc \in Nat
    <3>1. event.pa[p] \in Pa
      BY <1>2, EventFacts
    <3> QED BY <3>1 DEF Pa
  <2>2. CASE p = at
    BY <1>4, <1>5, <2>1, <2>2
  <2>3. CASE p # at
    <3>1. p < at /\ p \in 1 .. at - 1
      BY <1>2, <1>6, <2>3
    <3> QED BY <1>3, <1>5, <3>1
  <2> QED BY <2>2, <2>3
<1>7. /\ AfterEmca' = AfterEmca /\ Late' = Late
      /\ \A p, s : EmcaHits(p, s)' = EmcaHits(p, s)
  BY <1>1 DEF AfterEmca, Late, EmcaHits
<1> QED BY <1>1, <1>3, <1>5, <1>6, <1>7 DEF ShowerHitsAreOwn

LEMMA ShowersNextWriter ==
  ASSUME IInv, ShowerHitsAreOwn, NextWriter
  PROVE  ShowerHitsAreOwn'
<1>1. /\ UNCHANGED <<event, showerHits>> /\ at' = 1 /\ at > Limit(writer)
      /\ writer \in {Writers[k] : k \in DOMAIN Writers}
  BY DEF NextWriter, calorimetry
<1>2. /\ writer' \notin Late => writer \notin Late
      /\ writer' = "Emca" => writer \notin Late
      /\ writer' \in AfterEmca => writer \in AfterEmca \cup {"Emca"}
  BY <1>1, FeedOrder DEF Late
<1>3. writer = "Emca" => \A p \in DOMAIN event.pa : p < at
  <2>1. writer = "Emca" => Limit(writer) = Len(event.pa)
    BY DEF Limit, PaWalkers
  <2> QED BY <1>1, <2>1, EventBounds
<1>4. \A p \in DOMAIN event.pa : ~(p < 1)
  BY EventBounds
<1>5. AfterEmca' = AfterEmca /\ Late' = Late /\ \A p, s : EmcaHits(p, s)' = EmcaHits(p, s)
  BY <1>1 DEF AfterEmca, Late, EmcaHits
<1>6. writer' = "Emca" => Len(showerHits) < 1
  BY <1>2, EmptyDomain DEF ShowerHitsAreOwn
<1> QED BY <1>1, <1>2, <1>3, <1>4, <1>5, <1>6 DEF ShowerHitsAreOwn

LEMMA SameShowers ==
  ASSUME ShowerHitsAreOwn, UNCHANGED <<event, showerHits>>,
         writer' = writer \/ (writer \notin Late /\ writer' = "refused"), writer # "Emca" \/ at' = at
  PROVE  ShowerHitsAreOwn'
<1>1. AfterEmca' = AfterEmca /\ Late' = Late /\ \A p, s : EmcaHits(p, s)' = EmcaHits(p, s)
  BY DEF AfterEmca, Late, EmcaHits
<1>2. "refused" \notin Late /\ "refused" \notin AfterEmca /\ "Emca" \in Late
  BY DEF AfterEmca, Late
<1> QED BY <1>1, <1>2 DEF ShowerHitsAreOwn

LEMMA SameClusters ==
  ASSUME clusters \in Seq(OwnClusters), UNCHANGED <<event, particles, clusters>>
  PROVE  (clusters \in Seq(OwnClusters))'
<1>1. OwnClusters' = OwnClusters
  BY DEF OwnClusters, EmcaHits
<1> QED BY <1>1

\* Showers without hits become clusters of the particle of their PA.
LEMMA HadronClusters ==
  ASSUME IInv, NEW b \in {"HCNC", "HCAL", "SSTC"}, NEW n \in Nat, NEW p \in Nat,
         NEW q \in {0} \cup DOMAIN particles, q # 0 => particles[q].pa = p
  PROVE  HadronShowers(b, n, p, q) \in Seq(OwnClusters)
<1> DEFINE shower(s) == [bank |-> b, pa |-> p, shower |-> s, particle |-> q,
                         hits |-> <<>>, hpc |-> FALSE, layers |-> 0]
<1>1. HadronShowers(b, n, p, q) = [s \in 1 .. n |-> shower(s)]
  BY DEF HadronShowers
<1>2. <<>> \in Seq([pa : Nat, shower : Nat, n : Nat]) /\ 0 \in 0 .. MaxHpcLayers
  BY EventAssumption
<1>3. \A s \in 1 .. n : shower(s) \in OwnClusters
  BY <1>2 DEF OwnClusters
<1> HIDE DEF shower
<1> QED BY <1>1, <1>3

\* The showers of EMNC get the hits EMCA has for them.
LEMMA EmncClusters ==
  ASSUME IInv, ShowerHitsAreOwn, writer = "Calorimeter", NEW p \in DOMAIN event.pa,
         NEW q \in DOMAIN particles, particles[q].pa = p
  PROVE  EmncShowers(p, q) \in Seq(OwnClusters)
<1> DEFINE hits(s) == Get(Get(showerHits, p, <<>>), s, <<>>)
           lay == IF event.pa[p].hpc THEN ProfileLength(event.pa[p].nlay, event.pa[p].patt) ELSE 0
           shower(s) == [bank |-> "EMNC", pa |-> p, shower |-> s, particle |-> q,
                         hits |-> hits(s), hpc |-> event.pa[p].hpc, layers |-> lay]
           n == event.pa[p].emnc
<1>1. EmncShowers(p, q) = [s \in 1 .. n |-> shower(s)]
  BY DEF EmncShowers
<1>2. event.pa[p] \in Pa /\ EventShape(event) /\ p \in Nat
  BY EventBounds, EventFacts
<1>3. n \in Nat /\ event.pa[p].hpc \in BOOLEAN
  BY <1>2 DEF Pa
<1>4. lay \in 0 .. MaxHpcLayers
  BY ProfileIsBounded, EventAssumption
<1>5. writer \in AfterEmca
  BY DEF AfterEmca, Late
<1>6. \A s \in 1 .. n : hits(s) = EmcaHits(p, s)
  BY <1>5 DEF ShowerHitsAreOwn
<1>7. \A s \in 1 .. n : EmcaHits(p, s) \in Seq([pa : Nat, shower : Nat, n : Nat])
  BY <1>2, <1>3, HitsAreSequences
<1> HIDE DEF hits, lay, n
<1>8. ASSUME NEW s \in 1 .. n PROVE shower(s) \in OwnClusters
  <2>1. /\ hits(s) \in Seq([pa : Nat, shower : Nat, n : Nat]) /\ s \in Nat
        /\ hits(s) = EmcaHits(p, s)
    BY <1>3, <1>6, <1>7
  <2>2. shower(s) \in [bank : {"EMNC", "HCNC", "HCAL", "SSTC"}, pa : Nat, shower : Nat,
                       particle : {0} \cup DOMAIN particles,
                       hits : Seq([pa : Nat, shower : Nat, n : Nat]),
                       hpc : BOOLEAN, layers : 0 .. MaxHpcLayers]
    BY <1>2, <1>3, <1>4, <2>1
  <2> QED BY <2>1, <2>2 DEF OwnClusters
<1> HIDE DEF shower
<1> QED BY <1>1, <1>3, <1>8

LEMMA ClustersCalorimeter ==
  ASSUME IInv, ClustersHold, CalorimeterPa
  PROVE  ClustersHold'
<1> DEFINE q == ParticleForPa(at)
           E == EmncShowers(at, q)
           H == HadronShowers("HCNC", event.pa[at].hcnc, at, q)
           K == HadronShowers("HCAL", event.pa[at].hcal, at, q)
<1>1. /\ writer = "Calorimeter" /\ UNCHANGED <<event, writer, particles, showerHits>>
      /\ at <= Limit(writer)
      /\ clusters' = IF q = 0 THEN clusters ELSE clusters \o E \o H \o K
  BY DEF CalorimeterPa, Round, tracking
<1>2. at \in DOMAIN event.pa /\ at \in Nat
  BY <1>1, EventBounds DEF Limit, PaWalkers
<1>3. event.pa[at].hcnc \in Nat /\ event.pa[at].hcal \in Nat
  <2>1. event.pa[at] \in Pa
    BY <1>2, EventBounds, EventFacts
  <2> QED BY <2>1 DEF Pa
<1>4. ShowerHitsAreOwn'
  BY <1>1, SameShowers DEF ClustersHold
<1>5. clusters \in Seq(OwnClusters)
  BY DEF ClustersHold
<1>6. OwnClusters' = OwnClusters
  BY <1>1 DEF OwnClusters, EmcaHits
<1>7. CASE q = 0
  BY <1>1, <1>4, <1>5, <1>6, <1>7 DEF ClustersHold
<1>8. CASE q # 0
  <2>1. q \in DOMAIN particles /\ particles[q].pa = at
    BY <1>8, PaLookup
  <2>2. E \in Seq(OwnClusters)
    BY <1>1, <1>2, <2>1, EmncClusters DEF ClustersHold
  <2>3. H \in Seq(OwnClusters) /\ K \in Seq(OwnClusters)
    BY <1>2, <1>3, <2>1, HadronClusters
  <2> HIDE DEF q, E, H, K
  <2>4. clusters \o E \o H \o K \in Seq(OwnClusters)
    BY <1>5, <2>2, <2>3
  <2> QED BY <1>1, <1>4, <1>6, <1>8, <2>4 DEF ClustersHold
<1> QED BY <1>7, <1>8

LEMMA ClustersStic ==
  ASSUME IInv, ClustersHold, SticShowerVecp
  PROVE  ClustersHold'
<1> DEFINE q == ParticleForVecp(at)
           p == event.vecp[at].pa
           S == HadronShowers("SSTC", 1, p, q)
<1>1. /\ writer = "SticShower" /\ UNCHANGED <<event, writer, particles, showerHits>>
      /\ at <= Limit(writer)
      /\ clusters' = IF "STIC" \notin event.vecp[at].banks THEN clusters ELSE clusters \o S
  BY DEF SticShowerVecp, Round, tracking
<1>2. at \in DOMAIN event.vecp
  BY <1>1, EventBounds DEF Limit, PaWalkers
<1>3. p \in Nat
  <2>1. event.vecp[at] \in Vecp(Len(event.pa)) /\ Len(event.pa) \in Nat
    BY <1>2, EventBounds, EventFacts
  <2> QED BY <2>1 DEF Vecp
<1>4. ShowerHitsAreOwn'
  BY <1>1, SameShowers DEF ClustersHold
<1>5. clusters \in Seq(OwnClusters)
  BY DEF ClustersHold
<1>6. OwnClusters' = OwnClusters
  BY <1>1 DEF OwnClusters, EmcaHits
<1>7. S \in Seq(OwnClusters)
  BY <1>2, <1>3, VecpLookup, HadronClusters
<1> HIDE DEF S
<1>8. clusters \o S \in Seq(OwnClusters)
  BY <1>5, <1>7
<1> QED BY <1>1, <1>4, <1>5, <1>6, <1>8 DEF ClustersHold

\* The clusters stay empty while Tracking makes the particles they refer to.
LEMMA ClustersBefore ==
  ASSUME NothingYet, ClustersHold, writer \in Early \cup {"Tracking"},
         UNCHANGED <<event, writer, showerHits, clusters>>
  PROVE  ClustersHold'
<1>1. clusters = <<>> /\ writer # "Emca"
  BY DEF NothingYet, Early
<1>2. ShowerHitsAreOwn'
  BY <1>1, SameShowers DEF ClustersHold
<1>3. (clusters \in Seq(OwnClusters))'
  BY <1>1
<1> QED BY <1>2, <1>3 DEF ClustersHold

LEMMA ClustersElsewhere ==
  ASSUME ClustersHold, UNCHANGED <<event, particles, showerHits, clusters>>,
         writer' = writer \/ (writer \notin Late /\ writer' = "refused"), writer # "Emca" \/ at' = at
  PROVE  ClustersHold'
<1>1. ShowerHitsAreOwn'
  BY SameShowers DEF ClustersHold
<1>2. (clusters \in Seq(OwnClusters))'
  BY SameClusters DEF ClustersHold
<1> QED BY <1>1, <1>2 DEF ClustersHold

LEMMA ClustersLater ==
  ASSUME IInv, ClustersHold, AfterTracking
  PROVE  ClustersHold'
<1>1. UNCHANGED <<event, particles>>
  BY LaterSteps DEF tracking
<1>2. CASE EmcaPa
  <2>1. ShowerHitsAreOwn'
    BY <1>2, ShowersEmca DEF ClustersHold
  <2>2. clusters' = clusters
    BY <1>2 DEF EmcaPa
  <2>3. (clusters \in Seq(OwnClusters))'
    BY <1>1, <2>2, SameClusters DEF ClustersHold
  <2> QED BY <2>1, <2>3 DEF ClustersHold
<1>3. CASE CalorimeterPa \/ SticShowerVecp
  BY <1>3, ClustersCalorimeter, ClustersStic
<1>4. CASE VertexRefuses
  <2>1. /\ UNCHANGED <<showerHits, clusters>> /\ writer \notin Late /\ writer' = "refused"
        /\ writer # "Emca"
    BY <1>4 DEF VertexRefuses, calorimetry, Late
  <2> QED BY <1>1, <2>1, ClustersElsewhere
<1>5. CASE LinkTruth \/ VertexReco \/ WirePa \/ WireVertex \/ DecayVertex \/ VertexTail
  <2>1. UNCHANGED <<writer, showerHits, clusters>> /\ writer # "Emca"
    BY <1>5
       DEF LinkTruth, VertexReco, WirePa, WireVertex, DecayVertex, VertexTail, Round, calorimetry
  <2> QED BY <1>1, <2>1, ClustersElsewhere
<1>6. CASE DedxQualityPa \/ ParticleIdTrack \/ PidExtrasSdstTrack \/ Pi0Particle \/ BtagTrack
  <2>1. UNCHANGED <<writer, showerHits, clusters>> /\ writer # "Emca"
    BY <1>6 DEF DedxQualityPa, ParticleIdTrack, PidExtrasSdstTrack, Pi0Particle, BtagTrack,
                Round, calorimetry
  <2> QED BY <1>1, <2>1, ClustersElsewhere
<1>7. CASE EltrSdstPa \/ SdstPaExtrasPa \/ MtpcPa \/ TofPa \/ PaPidExtrasPa
  <2>1. UNCHANGED <<writer, showerHits, clusters>> /\ writer # "Emca"
    BY <1>7
       DEF EltrSdstPa, SdstPaExtrasPa, MtpcPa, TofPa, PaPidExtrasPa, PaRow, Round, calorimetry
  <2> QED BY <1>1, <2>1, ClustersElsewhere
<1> QED BY <1>2, <1>3, <1>4, <1>5, <1>6, <1>7 DEF AfterTracking

LEMMA StepClusters ==
  IInv /\ ReferencesHold /\ ClustersHold /\ [Next]_vars => ClustersHold'
<1> SUFFICES ASSUME IInv, ReferencesHold, ClustersHold, [Next]_vars PROVE ClustersHold'
  OBVIOUS
<1>1. CASE NextWriter
  <2>1. ShowerHitsAreOwn'
    BY <1>1, ShowersNextWriter DEF ClustersHold
  <2>2. UNCHANGED <<event, particles, clusters>>
    BY <1>1 DEF NextWriter, tracking, calorimetry
  <2>3. (clusters \in Seq(OwnClusters))'
    BY <2>2, SameClusters DEF ClustersHold
  <2> QED BY <2>1, <2>3 DEF ClustersHold
<1>2. CASE TrackElementsPa \/ TraxPa \/ VdHitsTrack
  BY <1>2, ClustersBefore
     DEF TrackElementsPa, TraxPa, VdHitsTrack, Round, calorimetry, ReferencesHold, Early
<1>3. CASE SkippedPa \/ NeutralPa \/ ChargedPa
  BY <1>3, ClustersBefore
     DEF SkippedPa, NeutralPa, ChargedPa, Round, calorimetry, ReferencesHold
<1>4. CASE AfterTracking
  BY <1>4, ClustersLater
<1>5. CASE UNCHANGED vars
  BY <1>5, ClustersElsewhere DEF vars, tracking, calorimetry
<1> QED BY StepKinds, <1>1, <1>2, <1>3, <1>4, <1>5

\* At any moment of the hook the clusters written are those of the showers passed.
THEOREM ClustersAlwaysHold == Spec => []ClustersHold
BY InitClusters, StepClusters, RelationsHold, ReferencesAlwaysHold, PTL DEF Spec

\* A cluster is of the particle of its PA and has the hits of its shower, for any
\* showers and hits, those after the last recorded one included.
THEOREM ClustersAreRight == Spec => []ClustersCarryTheirOwn
<1>1. ClustersHold => ClustersCarryTheirOwn
  <2> SUFFICES ASSUME ClustersHold, NEW c \in DOMAIN clusters
               PROVE  /\ clusters[c].particle # 0 =>
                           particles[clusters[c].particle].pa = clusters[c].pa
                      /\ clusters[c].hits =
                           IF clusters[c].bank = "EMNC"
                           THEN EmcaHits(clusters[c].pa, clusters[c].shower) ELSE <<>>
    BY DEF ClustersCarryTheirOwn, EmcaHits
  <2>1. clusters \in Seq(OwnClusters)
    BY DEF ClustersHold
  <2>2. clusters[c] \in OwnClusters
    BY <2>1
  <2> QED BY <2>2 DEF OwnClusters
<1> QED BY <1>1, ClustersAlwaysHold, PTL

-----------------------------------------------------------------------------
(* The frame.                                                              *)

LEMMA OutgoingAreParticles ==
  ASSUME IInv, WiringHolds, writer = "done"
  PROVE  /\ Len(vertices) \in Nat /\ DOMAIN vertices = 1 .. Len(vertices)
         /\ \A v \in DOMAIN vertices : vertices[v].particles \in Seq(DOMAIN particles)
         /\ primaryVertex \in Seq(DOMAIN particles)
<1> DEFINE V == [kind : {"primary", "other", "simulated"}, particles : Seq(Nat)]
<1>1. /\ vertices \in Seq(V) /\ ChainLength <= Len(vertices) /\ Wired = 1 .. ChainLength
      /\ ChainLength \in Nat
  BY BeforeWiringIs, WiredIs, EventBounds, ChainFacts DEF WiringHolds, VerticesKnown
<1>2. \A x \in V : x.particles \in Seq(Nat)
  OBVIOUS
<1> HIDE DEF V
<1>3. /\ Len(vertices) \in Nat /\ DOMAIN vertices = 1 .. Len(vertices)
      /\ \A v \in DOMAIN vertices : vertices[v] \in V
  BY <1>1
<1>4. ASSUME NEW v \in DOMAIN vertices PROVE vertices[v].particles \in Seq(DOMAIN particles)
  <2>1. vertices[v].particles \in Seq(Nat)
    BY <1>2, <1>3
  <2>2. CASE v \in 1 .. ChainLength
    <3>1. {vertices[v].particles[k] : k \in DOMAIN vertices[v].particles} =
            {q \in DOMAIN particles : event.lpv[particles[q].pa] = v}
      BY <1>1, <2>2 DEF WiringHolds, VerticesOwnTheirs, ListsExactly
    <3>2. \A k \in DOMAIN vertices[v].particles : vertices[v].particles[k] \in DOMAIN particles
      BY <3>1
    <3> QED BY <2>1, <3>2
  <2>3. CASE v \notin 1 .. ChainLength
    <3>1. v > ChainLength
      BY <1>1, <1>3, <2>3
    <3>2. vertices[v].particles = <<>>
      BY <3>1 DEF WiringHolds, VerticesKnown
    <3> QED BY <3>2
  <2> QED BY <2>2, <2>3
<1>5. primaryVertex \in Seq(DOMAIN particles)
  <2>1. primaryVertex = IF 1 \in 1 .. ChainLength /\ event.plain THEN vertices[1].particles ELSE <<>>
    BY <1>1 DEF WiringHolds, VerticesOwnTheirs
  <2>2. 1 \in 1 .. ChainLength => 1 \in DOMAIN vertices
    BY <1>1, <1>3
  <2>3. <<>> \in Seq(DOMAIN particles)
    OBVIOUS
  <2> QED BY <1>4, <2>1, <2>2, <2>3
<1> QED BY <1>3, <1>4, <1>5

\* The particle of a decay daughter, as the frame keeps it.
LEMMA DaughtersAreParticles ==
  ASSUME DaughtersAreOwn
  PROVE  [d \in DOMAIN decays |-> [k \in DOMAIN decays[d] |-> decays[d][k].particle]]
           \in Seq(Seq(DOMAIN particles))
<1> DEFINE P == DOMAIN particles
           D(d) == [k \in DOMAIN decays[d] |-> decays[d][k].particle]
<1>1. \A x \in OwnDaughters : x.particle \in P
  BY DEF OwnDaughters
<1>2. decays \in Seq(Seq(OwnDaughters))
  BY DEF DaughtersAreOwn
<1> HIDE DEF P
<1>3. ASSUME NEW d \in DOMAIN decays PROVE D(d) \in Seq(P)
  <2>1. decays[d] \in Seq(OwnDaughters)
    BY <1>2
  <2>2. /\ Len(decays[d]) \in Nat /\ DOMAIN decays[d] = 1 .. Len(decays[d])
        /\ \A k \in DOMAIN decays[d] : decays[d][k] \in OwnDaughters
    BY <2>1
  <2>3. \A k \in DOMAIN decays[d] : decays[d][k].particle \in P
    BY <1>1, <2>2
  <2> QED BY <2>2, <2>3
<1>4. Len(decays) \in Nat /\ DOMAIN decays = 1 .. Len(decays)
  BY <1>2
<1> HIDE DEF D
<1>5. [d \in DOMAIN decays |-> D(d)] \in Seq(Seq(P))
  BY <1>3, <1>4
<1> QED BY <1>5 DEF D, P

\* A track is that of the particle of its PA.
LEMMA TracksHaveTheirPa ==
  ASSUME IInv, ReferencesHold
  PROVE  \A t \in DOMAIN tracks :
           /\ tracks[t].pa \in Nat \ {0}
           /\ \E q \in DOMAIN particles : particles[q].track = t
BY ReferencesParticles DEF IInv, Parallel

\* What pass 2 reads back without a check holds of every frame that is written.
THEOREM FramesAreConsistent == Spec => []FrameIsConsistent
<1>1. IInv /\ ReferencesHold /\ WiringHolds /\ ClustersHold => FrameIsConsistent
  <2> SUFFICES ASSUME IInv, ReferencesHold, WiringHolds, ClustersHold, writer = "done"
               PROVE  FrameShape(Frame)
    BY DEF FrameIsConsistent
  <2> DEFINE P == DOMAIN particles
             T == DOMAIN tracks
             FP(q) == [pa |-> particles[q].pa, charge |-> particles[q].charge,
                       track |-> particles[q].track]
             FC(c) == [bank |-> clusters[c].bank, pa |-> clusters[c].pa,
                       particle |-> clusters[c].particle]
             FV == [v \in DOMAIN vertices |-> vertices[v].particles]
             FD == [d \in DOMAIN decays |-> [k \in DOMAIN decays[d] |-> decays[d][k].particle]]
  <2>1. /\ Frame.tracks = [t \in T |-> tracks[t].pa]
        /\ Frame.particles = [q \in P |-> FP(q)]
        /\ Frame.clusters = [c \in DOMAIN clusters |-> FC(c)]
        /\ Frame.vertices = <<primaryVertex>> \o FV \o FD
        /\ Frame.rows = {r \in rows : r.bank \in {"HAID", "MUID", "ELID", "DEDX"}}
        /\ Frame.links = links
    BY DEF Frame
  <2>2. /\ Len(particles) \in Nat /\ P = 1 .. Len(particles)
        /\ Len(tracks) \in Nat /\ T = 1 .. Len(tracks)
    BY ParticleFacts
  <2>3. \A q \in P : /\ particles[q].pa \in Nat \ {0} /\ particles[q].track \in 0 .. Len(tracks)
                     /\ particles[q].charge \in {"neutral", "signed", "unsigned"}
                     /\ particles[q].track = 0 <=> particles[q].charge = "neutral"
    <3> SUFFICES ASSUME NEW q \in P
                 PROVE  /\ particles[q].pa \in Nat \ {0} /\ particles[q].track \in 0 .. Len(tracks)
                        /\ particles[q].charge \in {"neutral", "signed", "unsigned"}
                        /\ particles[q].track = 0 <=> particles[q].charge = "neutral"
      OBVIOUS
    <3>1. /\ particles[q] \in Particle /\ particles[q].pa \in Nat \ {0}
          /\ particles[q].track = 0 <=> particles[q].charge = "neutral"
          /\ particles[q].track # 0 => particles[q].track \in DOMAIN tracks
      BY ParticleFacts, ReferencesParticles
    <3>2. /\ particles[q].track \in Nat
          /\ particles[q].charge \in {"neutral", "signed", "unsigned"}
      BY <3>1 DEF Particle
    <3> QED BY <2>2, <3>1, <3>2
  <2>4. /\ Frame.tracks \in Seq(Nat \ {0}) /\ DOMAIN Frame.tracks = T
        /\ Len(Frame.tracks) = Len(tracks)
    BY <2>1, <2>2, TracksHaveTheirPa
  <2>5. /\ Frame.particles \in Seq([pa : Nat \ {0}, charge : {"neutral", "signed", "unsigned"},
                                    track : 0 .. Len(Frame.tracks)])
        /\ DOMAIN Frame.particles = P
    <3> DEFINE R == [pa : Nat \ {0}, charge : {"neutral", "signed", "unsigned"},
                     track : 0 .. Len(tracks)]
    <3>1. \A q \in P : FP(q) \in R
      BY <2>3
    <3> HIDE DEF R, FP
    <3>2. Frame.particles \in Seq(R) /\ DOMAIN Frame.particles = P
      BY <2>1, <2>2, <3>1
    <3> QED BY <2>4, <3>2 DEF R
  <2>6. \A q \in P : /\ Frame.particles[q].pa = particles[q].pa
                     /\ Frame.particles[q].charge = particles[q].charge
                     /\ Frame.particles[q].track = particles[q].track
    BY <2>1
  <2>7. \A q \in P :
          /\ Frame.particles[q].track = 0 <=> Frame.particles[q].charge = "neutral"
          /\ Frame.particles[q].track # 0 =>
               Frame.tracks[Frame.particles[q].track] = Frame.particles[q].pa
          /\ \A r \in P : Frame.particles[q].pa = Frame.particles[r].pa => q = r
    <3>1. \A q \in P : particles[q].track # 0 =>
            particles[q].track \in T /\ tracks[particles[q].track].pa = particles[q].pa
      BY ParticleFacts DEF ReferencesHold, ParticlesComeFromTheirPa
    <3>2. \A q, r \in P : particles[q].pa = particles[r].pa => q = r
      BY DEF IInv, MapsAgree
    <3>3. \A t \in T : Frame.tracks[t] = tracks[t].pa
      BY <2>1
    <3> QED BY <2>3, <2>6, <3>1, <3>2, <3>3
  <2>8. \A t \in T : \E q \in P : Frame.particles[q].track = t
    BY <2>6, TracksHaveTheirPa
  <2>9. /\ Frame.clusters \in Seq([bank : {"EMNC", "HCNC", "HCAL", "SSTC"}, pa : Nat,
                                   particle : P \cup {0}])
        /\ \A c \in DOMAIN Frame.clusters : Frame.clusters[c].particle # 0 =>
             Frame.particles[Frame.clusters[c].particle].pa = Frame.clusters[c].pa
    <3> DEFINE R == [bank : {"EMNC", "HCNC", "HCAL", "SSTC"}, pa : Nat, particle : P \cup {0}]
    <3>1. clusters \in Seq(OwnClusters)
      BY DEF ClustersHold
    <3>2. /\ Len(clusters) \in Nat /\ DOMAIN clusters = 1 .. Len(clusters)
          /\ \A c \in DOMAIN clusters : clusters[c] \in OwnClusters
      BY <3>1
    <3>3. \A c \in DOMAIN clusters :
            /\ clusters[c].bank \in {"EMNC", "HCNC", "HCAL", "SSTC"} /\ clusters[c].pa \in Nat
            /\ clusters[c].particle \in P \cup {0}
            /\ clusters[c].particle # 0 =>
                 /\ clusters[c].particle \in P
                 /\ particles[clusters[c].particle].pa = clusters[c].pa
      BY <3>2 DEF OwnClusters
    <3>4. \A c \in DOMAIN clusters : FC(c) \in R
      BY <3>3
    <3>5. DOMAIN Frame.clusters = DOMAIN clusters
          /\ \A c \in DOMAIN clusters : /\ Frame.clusters[c].particle = clusters[c].particle
                                        /\ Frame.clusters[c].pa = clusters[c].pa
      BY <2>1
    <3> HIDE DEF R, FC
    <3>6. Frame.clusters \in Seq(R)
      BY <2>1, <3>2, <3>4
    <3>7. ASSUME NEW c \in DOMAIN Frame.clusters, Frame.clusters[c].particle # 0
          PROVE  Frame.particles[Frame.clusters[c].particle].pa = Frame.clusters[c].pa
      BY <2>6, <3>3, <3>5, <3>7
    <3> QED BY <3>6, <3>7 DEF R
  <2>10. Frame.vertices \in Seq(Seq(P))
    <3>1. FV \in Seq(Seq(P)) /\ primaryVertex \in Seq(P)
      BY OutgoingAreParticles
    <3>2. FD \in Seq(Seq(P))
      BY DaughtersAreParticles DEF ReferencesHold
    <3> HIDE DEF FV, FD, P
    <3> QED BY <2>1, <3>1, <3>2
  <2>11. \A r \in Frame.rows :
           /\ r \in [bank : {"HAID", "MUID", "ELID", "DEDX"}, pa : Nat, source : Nat,
                     particle : P, track : T \cup {0}, flag : Nat]
           /\ Frame.particles[r.particle].pa = r.pa
           /\ r.bank = "DEDX" => r.track = Frame.particles[r.particle].track
    <3> SUFFICES ASSUME NEW r \in rows, r.bank \in {"HAID", "MUID", "ELID", "DEDX"}
                 PROVE  /\ r \in [bank : {"HAID", "MUID", "ELID", "DEDX"}, pa : Nat, source : Nat,
                                  particle : P, track : T \cup {0}, flag : Nat]
                        /\ Frame.particles[r.particle].pa = r.pa
                        /\ r.bank = "DEDX" => r.track = Frame.particles[r.particle].track
      BY <2>1
    <3>1. /\ r.particle \in P /\ particles[r.particle].pa = r.pa
          /\ r.track \in {0, particles[r.particle].track}
          /\ r.bank = "DEDX" => r.track = particles[r.particle].track
      BY DEF ReferencesHold, RowsAreOwn
    <3>2. particles[r.particle].track # 0 => particles[r.particle].track \in T
      BY <3>1, ParticleFacts
    <3>3. r \in RowRecords
      BY DEF ReferencesHold, RowsAreOwn
    <3>4. r.track \in T \cup {0}
      BY <3>1, <3>2
    <3> HIDE DEF P, T
    <3>5. r \in [bank : {"HAID", "MUID", "ELID", "DEDX"}, pa : Nat, source : Nat,
                 particle : P, track : T \cup {0}, flag : Nat]
      BY <3>1, <3>3, <3>4 DEF RowRecords
    <3> QED BY <2>6, <3>1, <3>5
  <2>12. Frame.links \subseteq [particle : P, vecp : Nat]
    <3>1. DOMAIN event.vecp \subseteq Nat
      BY EventBounds
    <3>2. links \subseteq [particle : P, vecp : DOMAIN event.vecp]
      BY DEF ReferencesHold, LinksAreOwn
    <3> QED BY <2>1, <3>1, <3>2
  <2> HIDE DEF P, T
  <2> QED BY <2>4, <2>5, <2>7, <2>8, <2>9, <2>10, <2>11, <2>12 DEF FrameShape
<1> QED BY <1>1, RelationsHold, ReferencesAlwaysHold, WiringAlwaysHolds, ClustersAlwaysHold, PTL

-----------------------------------------------------------------------------
(* Types.                                                                  *)

\* What the writers append, as records.
ObjectRecords == [pa : 0 .. Len(event.pa), n : Nat]

TrackRecords == [pa : DOMAIN event.pa, segments : Seq(ObjectRecords), states : Seq(ObjectRecords),
                 hits : Seq(ObjectRecords), atVertex : 0 .. Len(event.aabtag)]

ShowerHitRecords == [pa : DOMAIN event.pa, shower : Nat, n : Nat]

\* What TypeOK says beyond what the invariants above imply, inductive with them.
KeptInRange ==
  /\ writer \in {Writers[k] : k \in DOMAIN Writers} \cup {"done", "refused"}
  /\ tracks \in Seq(TrackRecords)
  /\ lpa \in {0} \cup DOMAIN event.pa
  /\ impact \in Seq(BOOLEAN)
  /\ showerHits \in Seq(Seq(Seq(ShowerHitRecords)))
  /\ quality \in Seq({0} \cup DOMAIN event.pa) /\ Len(quality) <= Len(particles)
  /\ btagVertex \subseteq DOMAIN particles

LEMMA ObjectsTyped ==
  ASSUME NEW p \in 0 .. Len(event.pa), NEW n \in Nat
  PROVE  Objects(p, n) \in Seq(ObjectRecords)
<1>1. \A k \in 1 .. n : [pa |-> p, n |-> k] \in ObjectRecords
  BY DEF ObjectRecords
<1> HIDE DEF ObjectRecords
<1> QED BY <1>1 DEF Objects

\* The words of PAs and VECP entries that count objects.
LEMMA CountsTyped ==
  ASSUME EventShape(event)
  PROVE  /\ \A p \in DOMAIN event.pa :
              /\ p \in 0 .. Len(event.pa)
              /\ event.pa[p].segments \in Nat /\ event.pa[p].planes \in Nat
              /\ event.pa[p].points \in Nat /\ event.pa[p].emca \in Seq(Nat)
         /\ \A i \in DOMAIN event.vecp :
              event.vecp[i].pa \in 0 .. Len(event.pa) /\ event.vecp[i].nasht \in Nat
<1>1. \A p \in DOMAIN event.pa : event.pa[p] \in Pa /\ p \in 0 .. Len(event.pa)
  BY EventFacts
<1>2. \A i \in DOMAIN event.vecp : event.vecp[i] \in Vecp(Len(event.pa))
  BY EventFacts
<1> QED BY <1>1, <1>2 DEF Pa, Vecp

\* lpaToTrack answers an AABTAG track or none.
LEMMA LpaToTrackTyped ==
  ASSUME EventShape(event), NEW p
  PROVE  LpaToTrack(p) \in 0 .. Len(event.aabtag)
<1>1. /\ DOMAIN event.aabtag = 1 .. Len(event.aabtag) /\ Len(event.aabtag) \in Nat
  BY DEF EventShape
<1>2. CASE \E t \in DOMAIN event.aabtag : event.aabtag[t].pa = p
  BY <1>1, <1>2, LpaToTrackFound
<1>3. CASE ~\E t \in DOMAIN event.aabtag : event.aabtag[t].pa = p
  <2>1. {t \in DOMAIN event.aabtag : event.aabtag[t].pa = p} = {}
    BY <1>3
  <2>2. LpaToTrack(p) = 0
    BY <2>1 DEF LpaToTrack
  <2> QED BY <1>1, <2>2
<1> QED BY <1>2, <1>3

LEMMA InitKept == Init => KeptInRange
<1> SUFFICES ASSUME Init PROVE KeptInRange
  OBVIOUS
<1>1. /\ writer = "TrackElements" /\ tracks = <<>> /\ lpa = 0 /\ impact = <<>>
      /\ showerHits = <<>> /\ quality = <<>> /\ btagVertex = {} /\ particles = <<>>
  BY DEF Init
<1>2. "TrackElements" \in {Writers[k] : k \in DOMAIN Writers}
  BY DEF Writers
<1>3. Len(quality) <= Len(particles)
  BY <1>1, EmptyDomain
<1> QED BY <1>1, <1>2, <1>3 DEF KeptInRange

\* The track of a charged PA has objects of the event.
LEMMA TrackTyped ==
  ASSUME IInv, FeedsAreOwn, writer = "Tracking", at <= Limit(writer),
         tracks \in Seq(TrackRecords), ChargedPa
  PROVE  tracks' \in Seq(TrackRecords)
<1> DEFINE i == VecpIndex(at, TRUE)
           te == Get(trackElements, at, [segments |-> <<>>, planes |-> <<>>])
           S == Seq(ObjectRecords)
           hits == te.planes \o VdHits(i)
           track == [pa       |-> at,
                     segments |-> te.segments,
                     states   |-> Get(trax, at, <<>>),
                     hits     |-> hits,
                     atVertex |-> LpaToTrack(at)]
<1>1. tracks' = Append(tracks, track)
  BY DEF ChargedPa
<1>2. at \in DOMAIN event.pa /\ EventShape(event)
  BY EventBounds DEF Limit, PaWalkers
<1>3. i \in Nat /\ (i # 0 => i \in DOMAIN event.vecp)
  <2>1. i = VecpIndex(at, TRUE)
    OBVIOUS
  <2> HIDE DEF i
  <2>2. i = 0 \/ (i \in DOMAIN event.vecp /\ i \in Nat \ {0})
    BY <1>2, <2>1, VecpIndexFound
  <2> QED BY <2>2
<1>4. /\ te.segments = Objects(at, event.pa[at].segments)
      /\ te.planes = Objects(at, event.pa[at].planes)
      /\ Get(trax, at, <<>>) = Objects(at, event.pa[at].points)
  <2>1. /\ trackElements = [p \in 1 .. Len(event.pa) |->
                               [segments |-> Objects(p, event.pa[p].segments),
                                planes   |-> Objects(p, event.pa[p].planes)]]
        /\ trax = [p \in 1 .. Len(event.pa) |-> Objects(p, event.pa[p].points)]
    BY DEF FeedsAreOwn
  <2>2. DOMAIN event.pa = 1 .. Len(event.pa)
    BY EventBounds
  <2> QED BY <1>2, <2>1, <2>2 DEF Get
<1>5. te.segments \in S /\ te.planes \in S /\ Get(trax, at, <<>>) \in S
  BY <1>2, <1>4, ObjectsTyped, CountsTyped
<1> HIDE DEF i
<1>6. VdHits(i) \in S
  <2>1. vecpToHits = [k \in 1 .. Len(vecpToHits) |->
                        Objects(event.vecp[k].pa, event.vecp[k].nasht)]
    BY DEF FeedsAreOwn
  <2>2. CASE i >= 1 /\ i \in DOMAIN vecpToHits
    <3>1. i \in DOMAIN event.vecp
      BY <1>3, <2>2
    <3>2. VdHits(i) = Objects(event.vecp[i].pa, event.vecp[i].nasht)
      BY <2>1, <2>2 DEF VdHits, Get
    <3> QED BY <1>2, <3>1, <3>2, ObjectsTyped, CountsTyped
  <2>3. CASE ~(i >= 1 /\ i \in DOMAIN vecpToHits)
    <3>1. VdHits(i) = <<>>
      BY <2>3 DEF VdHits, Get
    <3> QED BY <3>1
  <2> QED BY <2>2, <2>3
<1> HIDE DEF te
<1>7. hits \in S
  <2> HIDE DEF S
  <2>1. te.planes \in S /\ VdHits(i) \in S
    BY <1>5, <1>6
  <2> QED BY <2>1 DEF S
<1> HIDE DEF hits, S
<1>8. track \in TrackRecords
  BY <1>2, <1>5, <1>7, LpaToTrackTyped DEF TrackRecords, S
<1> HIDE DEF track, TrackRecords
<1> QED BY <1>1, <1>8

\* EMCA's hits of one PA, by shower.
LEMMA RecordedTyped ==
  ASSUME EventShape(event), NEW p \in DOMAIN event.pa
  PROVE  RecordedHits(p) \in Seq(Seq(ShowerHitRecords))
<1> DEFINE rec == RecordedHits(p)
           emca == event.pa[p].emca
           last == CHOOSE s \in 0 .. Len(emca) :
                     /\ s = 0 \/ emca[s] > 0
                     /\ \A k \in DOMAIN emca : emca[k] > 0 => k <= s
<1>1. rec \in Seq({rec[k] : k \in DOMAIN rec})
  <2>1. 1 \in Nat \ {0}
    OBVIOUS
  <2> QED BY <2>1, RecordedIsEmca
<1>2. DOMAIN rec = 1 .. Len(rec) /\ Len(rec) \in Nat
  <2> HIDE DEF rec
  <2> QED BY <1>1
<1>3. ASSUME NEW k \in DOMAIN rec PROVE rec[k] \in Seq(ShowerHitRecords)
  <2>1. k \in Nat \ {0}
    BY <1>2
  <2>2. rec[k] = EmcaHits(p, k)
    <3>1. Get(rec, k, <<>>) = EmcaHits(p, k)
      BY <2>1, RecordedIsEmca
    <3> QED BY <1>3, <3>1 DEF Get
  <2> DEFINE n == Get(emca, k, 0)
  <2>3. n \in Nat
    BY CountsTyped DEF Get
  <2>4. EmcaHits(p, k) = [h \in 1 .. n |-> [pa |-> p, shower |-> k, n |-> h]]
    BY DEF EmcaHits, Hits
  <2> HIDE DEF n
  <2>5. \A h \in 1 .. n : [pa |-> p, shower |-> k, n |-> h] \in ShowerHitRecords
    BY <2>1, <2>3 DEF ShowerHitRecords
  <2> HIDE DEF rec
  <2> QED BY <2>2, <2>3, <2>4, <2>5
<1> DEFINE S == Seq(ShowerHitRecords)
<1>4. \A k \in DOMAIN rec : rec[k] \in S
  BY <1>3
<1> HIDE DEF rec, S
<1>5. rec \in Seq(S)
  <2>1. rec = [k \in 1 .. Len(rec) |-> rec[k]]
    BY <1>1, <1>2
  <2> QED BY <1>2, <1>4, <2>1
<1> QED BY <1>5 DEF rec, S

\* A vector of S grown on demand is one of S.
LEMMA PutTyped ==
  ASSUME NEW S, NEW s \in Seq(S), NEW k \in Nat \ {0}, NEW v \in S, NEW empty \in S
  PROVE  /\ Put(s, k, v, empty) \in Seq(S)
         /\ \A n \in Nat : k <= n /\ Len(s) <= n => Len(Put(s, k, v, empty)) <= n
<1> DEFINE m == IF k <= Len(s) THEN Len(s) ELSE k
           E(j) == IF j = k THEN v ELSE IF j <= Len(s) THEN s[j] ELSE empty
<1>1. m \in Nat /\ Len(s) \in Nat
  OBVIOUS
<1>2. \A j \in 1 .. m : E(j) \in S
  <2> SUFFICES ASSUME NEW j \in 1 .. m PROVE E(j) \in S
    OBVIOUS
  <2>1. j <= Len(s) => j \in 1 .. Len(s)
    BY <1>1
  <2> QED BY <2>1
<1>3. Put(s, k, v, empty) = [j \in 1 .. m |-> E(j)]
  BY DEF Put
<1> HIDE DEF m, E
<1>4. Put(s, k, v, empty) \in Seq(S) /\ Len(Put(s, k, v, empty)) = m
  BY <1>1, <1>2, <1>3
<1>5. \A n \in Nat : k <= n /\ Len(s) <= n => m <= n
  BY DEF m
<1> QED BY <1>4, <1>5

LEMMA ShowersTyped ==
  ASSUME IInv, EmcaPa, showerHits \in Seq(Seq(Seq(ShowerHitRecords)))
  PROVE  showerHits' \in Seq(Seq(Seq(ShowerHitRecords)))
<1>1. /\ at \in DOMAIN event.pa /\ at \in Nat \ {0} /\ EventShape(event)
      /\ showerHits' = IF RecordedHits(at) = <<>> THEN showerHits
                       ELSE Put(showerHits, at, RecordedHits(at), <<>>)
  BY EventBounds DEF EmcaPa, Round, Limit, PaWalkers
<1> DEFINE S == Seq(Seq(ShowerHitRecords))
<1>2. RecordedHits(at) \in S /\ <<>> \in S
  BY <1>1, RecordedTyped
<1> HIDE DEF S
<1>3. showerHits \in Seq(S)
  BY DEF S
<1>4. Put(showerHits, at, RecordedHits(at), <<>>) \in Seq(S)
  BY <1>1, <1>2, <1>3, PutTyped
<1>5. showerHits' \in Seq(S)
  BY <1>1, <1>3, <1>4
<1> QED BY <1>5 DEF S

LEMMA QualityTyped ==
  ASSUME IInv, DedxQualityPa,
         quality \in Seq({0} \cup DOMAIN event.pa), Len(quality) <= Len(particles)
  PROVE  quality' \in Seq({0} \cup DOMAIN event.pa) /\ Len(quality') <= Len(particles)
<1> DEFINE q == ParticleForPa(at)
           S == {0} \cup DOMAIN event.pa
<1>1. /\ at \in DOMAIN event.pa
      /\ quality' = IF q # 0 /\ "MTPC" \in event.pa[at].banks THEN Put(quality, q, at, 0)
                    ELSE quality
  BY EventBounds DEF DedxQualityPa, Round, Limit, PaWalkers
<1>2. q \in {0} \cup 1 .. Len(particles) /\ Len(particles) \in Nat
  BY PaLookup, ParticleFacts
<1>3. at \in S /\ 0 \in S /\ quality \in Seq(S)
  BY <1>1
<1> HIDE DEF q, S
<1>4. CASE q = 0
  BY <1>1, <1>3, <1>4 DEF S
<1>5. CASE q # 0
  <2>1. q \in Nat \ {0} /\ q <= Len(particles)
    BY <1>2, <1>5
  <2>2. Put(quality, q, at, 0) \in Seq(S)
    BY <1>3, <2>1, PutTyped
  <2>3. Len(Put(quality, q, at, 0)) <= Len(particles)
    BY <1>2, <1>3, <2>1, PutTyped
  <2> QED BY <1>1, <1>3, <2>1, <2>2, <2>3 DEF S
<1> QED BY <1>4, <1>5

\* A walk over a vertex is at a PA or at its end.
LEMMA WalkTyped ==
  ASSUME EventShape(event), VertexReco \/ WirePa \/ WireVertex
  PROVE  lpa' \in {0} \cup DOMAIN event.pa
<1>1. \A v : FirstPa(v) \in {0} \cup DOMAIN event.pa
  BY FirstPaFound
<1>2. \A p : NextPa(p) \in {0} \cup DOMAIN event.pa
  BY DEF NextPa
<1> QED BY <1>1, <1>2 DEF VertexReco, WirePa, WireVertex

\* Writers after Tracking leave tracks and particles alone; each of the kept
\* values is changed by the steps below and by no other.
LEMMA KeptBy ==
  ASSUME AfterTracking
  PROVE  /\ UNCHANGED lpa \/ VertexReco \/ WirePa \/ WireVertex
         /\ UNCHANGED impact \/ VertexTail
         /\ UNCHANGED showerHits \/ EmcaPa
         /\ UNCHANGED quality \/ DedxQualityPa
         /\ UNCHANGED btagVertex \/ BtagTrack
<1>1. CASE LinkTruth
  BY <1>1 DEF LinkTruth, vertexing, calorimetry, identity
<1>2. CASE VertexRefuses
  BY <1>2 DEF VertexRefuses, vertexing, calorimetry, identity
<1>3. CASE VertexReco \/ WirePa \/ WireVertex
  BY <1>3 DEF VertexReco, WirePa, WireVertex, calorimetry, identity
<1>4. CASE DecayVertex \/ VertexTail
  BY <1>4 DEF DecayVertex, VertexTail, calorimetry, identity
<1>5. CASE EmcaPa \/ CalorimeterPa \/ SticShowerVecp
  BY <1>5 DEF EmcaPa, CalorimeterPa, SticShowerVecp, vertexing, identity
<1>6. CASE DedxQualityPa \/ ParticleIdTrack \/ PidExtrasSdstTrack \/ Pi0Particle
  BY <1>6 DEF DedxQualityPa, ParticleIdTrack, PidExtrasSdstTrack, Pi0Particle, vertexing, calorimetry
<1>7. CASE EltrSdstPa \/ SdstPaExtrasPa \/ MtpcPa \/ TofPa \/ PaPidExtrasPa
  BY <1>7 DEF EltrSdstPa, SdstPaExtrasPa, MtpcPa, TofPa, PaPidExtrasPa, PaRow, vertexing, calorimetry
<1>8. CASE BtagTrack
  BY <1>8 DEF BtagTrack, vertexing, calorimetry
<1> QED BY <1>1, <1>2, <1>3, <1>4, <1>5, <1>6, <1>7, <1>8 DEF AfterTracking

LEMMA KeptLater ==
  ASSUME IInv, KeptInRange, AfterTracking
  PROVE  KeptInRange'
<1>1. UNCHANGED <<event, particles, tracks>> /\ (writer' = writer \/ writer' = "refused")
  BY LaterSteps DEF tracking
<1>2. TrackRecords' = TrackRecords /\ ShowerHitRecords' = ShowerHitRecords
  BY <1>1 DEF TrackRecords, ShowerHitRecords, ObjectRecords
<1>3. EventShape(event)
  BY EventBounds
<1>4. lpa' \in {0} \cup DOMAIN event'.pa
  BY <1>1, <1>3, KeptBy, WalkTyped DEF KeptInRange
<1>5. impact' \in Seq(BOOLEAN)
  <2>1. CASE UNCHANGED impact
    BY <2>1 DEF KeptInRange
  <2>2. CASE VertexTail
    <3>1. DOMAIN tracks = 1 .. Len(tracks) /\ Len(tracks) \in Nat
      BY ParticleFacts
    <3> DEFINE primary == \E v \in DOMAIN vertices : vertices[v].kind = "primary"
    <3>2. impact' = [t \in 1 .. Len(tracks) |-> primary]
      BY <2>2, <3>1 DEF VertexTail
    <3>3. primary \in BOOLEAN
      OBVIOUS
    <3> HIDE DEF primary
    <3> QED BY <3>1, <3>2, <3>3
  <2> QED BY <2>1, <2>2, KeptBy
<1>6. (showerHits \in Seq(Seq(Seq(ShowerHitRecords))))'
  BY <1>2, KeptBy, ShowersTyped DEF KeptInRange
<1>7. (quality \in Seq({0} \cup DOMAIN event.pa) /\ Len(quality) <= Len(particles))'
  BY <1>1, KeptBy, QualityTyped DEF KeptInRange
<1>8. btagVertex' \subseteq DOMAIN particles'
  <2>1. CASE BtagTrack
    BY <1>1, <2>1, PaLookup DEF BtagTrack, KeptInRange
  <2> QED BY <1>1, <2>1, KeptBy DEF KeptInRange
<1>9. (tracks \in Seq(TrackRecords))'
  BY <1>1, <1>2 DEF KeptInRange
<1>10. (writer \in {Writers[k] : k \in DOMAIN Writers} \cup {"done", "refused"})'
  BY <1>1 DEF KeptInRange
<1> QED BY <1>4, <1>5, <1>6, <1>7, <1>8, <1>9, <1>10 DEF KeptInRange

\* The steps before that leave all of it alone but the tracks and particles
\* Tracking adds.
LEMMA KeptBefore ==
  ASSUME IInv, KeptInRange,
         UNCHANGED <<event, lpa, impact, showerHits, quality, btagVertex>>,
         writer' \in {Writers[k] : k \in DOMAIN Writers} \cup {"done", "refused"},
         tracks' \in Seq(TrackRecords),
         Len(particles) <= Len(particles'), DOMAIN particles \subseteq DOMAIN particles',
         Len(particles') \in Nat
  PROVE  KeptInRange'
<1>1. TrackRecords' = TrackRecords /\ ShowerHitRecords' = ShowerHitRecords
  BY DEF TrackRecords, ShowerHitRecords, ObjectRecords
<1>2. quality \in Seq({0} \cup DOMAIN event.pa) /\ Len(quality) <= Len(particles)
  BY DEF KeptInRange
<1>3. Len(quality) \in Nat /\ Len(particles) \in Nat
  BY <1>2, ParticleFacts
<1>4. Len(quality') <= Len(particles')
  BY <1>2, <1>3
<1> QED BY <1>1, <1>2, <1>4 DEF KeptInRange

LEMMA StepKept ==
  IInv /\ ReferencesHold /\ KeptInRange /\ [Next]_vars => KeptInRange'
<1> SUFFICES ASSUME IInv, ReferencesHold, KeptInRange, [Next]_vars PROVE KeptInRange'
  OBVIOUS
<1> DEFINE W == {Writers[k] : k \in DOMAIN Writers} \cup {"done", "refused"}
<1>1. /\ Len(particles) \in Nat /\ DOMAIN particles = 1 .. Len(particles)
      /\ particles \in Seq(Particle) /\ tracks \in Seq(TrackRecords) /\ writer \in W
  BY ParticleFacts DEF KeptInRange, IInv, Indexed, Particle
<1>2. CASE NextWriter
  <2>1. UNCHANGED <<event, lpa, impact, showerHits, quality, btagVertex, particles, tracks>>
    BY <1>2 DEF NextWriter, tracking, vertexing, calorimetry, identity
  <2>2. writer' \in W
    <3> DEFINE k == CHOOSE k \in DOMAIN Writers : Writers[k] = writer
    <3>1. k \in 1 .. 22 /\ Len(Writers) = 22 /\ DOMAIN Writers = 1 .. 22
      BY <1>2 DEF NextWriter, Writers
    <3>2. writer' = IF k = 22 THEN "done" ELSE Writers[k + 1]
      BY <1>2, <3>1 DEF NextWriter
    <3> HIDE DEF k
    <3>3. k # 22 => k + 1 \in 1 .. 22
      BY <3>1
    <3> QED BY <3>1, <3>2, <3>3
  <2> HIDE DEF W
  <2>3. writer' \in {Writers[k] : k \in DOMAIN Writers} \cup {"done", "refused"}
    BY <2>2 DEF W
  <2> QED BY <1>1, <2>1, <2>3, KeptBefore
<1>3. CASE TrackElementsPa \/ TraxPa \/ VdHitsTrack \/ SkippedPa
  <2>1. UNCHANGED <<event, lpa, impact, showerHits, quality, btagVertex, particles, tracks, writer>>
    BY <1>3 DEF TrackElementsPa, TraxPa, VdHitsTrack, SkippedPa, Round, tracking, vertexing,
                calorimetry, identity
  <2> QED BY <1>1, <2>1, KeptBefore
<1>4. CASE NeutralPa \/ ChargedPa
  <2>1. /\ UNCHANGED <<event, lpa, impact, showerHits, quality, btagVertex, writer>>
        /\ writer = "Tracking" /\ at <= Limit(writer)
    BY <1>4 DEF NeutralPa, ChargedPa, Round, vertexing, calorimetry, identity
  <2>2. tracks' \in Seq(TrackRecords)
    <3>1. CASE NeutralPa
      BY <1>1, <3>1 DEF NeutralPa
    <3>2. CASE ChargedPa
      BY <1>1, <2>1, <3>2, TrackTyped DEF ReferencesHold
    <3> QED BY <1>4, <3>1, <3>2
  <2>3. /\ Len(particles') = Len(particles) + 1 /\ DOMAIN particles' = 1 .. Len(particles) + 1
    <3>1. PICK new : particles' = Append(particles, new)
      BY <1>4 DEF NeutralPa, ChargedPa
    <3>2. particles \in Seq({particles[q] : q \in DOMAIN particles})
      BY <1>1
    <3> QED BY <3>1, <3>2, AppendAny
  <2>4. /\ Len(particles) <= Len(particles') /\ DOMAIN particles \subseteq DOMAIN particles'
        /\ Len(particles') \in Nat
    BY <1>1, <2>3
  <2> QED BY <1>1, <2>1, <2>2, <2>4, KeptBefore
<1>5. CASE AfterTracking
  BY <1>5, KeptLater
<1>6. CASE UNCHANGED vars
  <2>1. UNCHANGED <<event, lpa, impact, showerHits, quality, btagVertex, particles, tracks, writer>>
    BY <1>6 DEF vars, tracking, vertexing, calorimetry, identity
  <2> QED BY <1>1, <2>1, KeptBefore
<1> QED BY StepKinds, <1>2, <1>3, <1>4, <1>5, <1>6

\* Outgoing particles, at any point of the walk.
LEMMA VerticesTyped ==
  ASSUME IInv, WiringHolds
  PROVE  /\ vertices \in Seq([kind : {"primary", "other", "simulated"},
                              particles : Seq(1 .. Len(particles))])
         /\ primaryVertex \in Seq(1 .. Len(particles))
<1> DEFINE P == 1 .. Len(particles)
           V == [kind : {"primary", "other", "simulated"}, particles : Seq(Nat)]
           V2 == [kind : {"primary", "other", "simulated"}, particles : Seq(P)]
<1>1. /\ vertices \in Seq(V) /\ ChainLength \in Nat /\ at \in Nat \ {0}
      /\ writer = "WireVertex" => at <= ChainLength + 1
      /\ writer \notin BeforeWiring => ChainLength <= Len(vertices)
      /\ DOMAIN particles = P
  BY EventBounds, ChainFacts, ParticleFacts DEF WiringHolds, VerticesKnown, CounterInStep
<1>2. /\ Len(vertices) \in Nat /\ DOMAIN vertices = 1 .. Len(vertices)
      /\ \A v \in DOMAIN vertices : vertices[v] \in V
  <2> HIDE DEF V
  <2> QED BY <1>1
<1>3. ASSUME NEW v \in DOMAIN vertices PROVE vertices[v].particles \in Seq(P)
  <2>1. vertices[v].particles \in Seq(Nat)
    BY <1>2
  <2>2. ASSUME NEW Q, Q \subseteq DOMAIN particles, ListsExactly(vertices[v].particles, Q)
        PROVE  vertices[v].particles \in Seq(P)
    <3>1. \A k \in DOMAIN vertices[v].particles : vertices[v].particles[k] \in P
      BY <1>1, <2>2 DEF ListsExactly
    <3> HIDE DEF P
    <3> QED BY <2>1, <3>1
  <2>3. CASE writer \in BeforeWiring \cup {"WireVertex"}
    <3>1. ListsExactly(vertices[v].particles, OutgoingSoFar(v))
      BY <2>3 DEF WiringHolds, OutgoingInStep
    <3>2. OutgoingSoFar(v) \subseteq DOMAIN particles
      BY DEF OutgoingSoFar
    <3> QED BY <2>2, <3>1, <3>2
  <2>4. CASE writer \notin BeforeWiring \cup {"WireVertex"} /\ v <= ChainLength
    <3>1. v \in Wired
      BY <1>1, <1>2, <2>4, WiredIs
    <3>2. ListsExactly(vertices[v].particles,
                       {q \in DOMAIN particles : event.lpv[particles[q].pa] = v})
      BY <3>1 DEF WiringHolds, VerticesOwnTheirs
    <3>3. {q \in DOMAIN particles : event.lpv[particles[q].pa] = v} \subseteq DOMAIN particles
      OBVIOUS
    <3> QED BY <2>2, <3>2, <3>3
  <2>5. CASE ~(v <= ChainLength)
    <3>1. v > ChainLength
      BY <1>1, <1>2, <2>5
    <3>2. vertices[v].particles = <<>>
      BY <3>1 DEF WiringHolds, VerticesKnown
    <3> QED BY <3>2
  <2> QED BY <2>3, <2>4, <2>5
<1>4. vertices \in Seq(V2)
  <2>1. \A v \in DOMAIN vertices : vertices[v] \in V2
    BY <1>2, <1>3
  <2> HIDE DEF V, V2
  <2> QED BY <1>1, <2>1
<1>5. primaryVertex \in Seq(P)
  <2>1. primaryVertex = IF 1 \in Wired /\ event.plain THEN vertices[1].particles ELSE <<>>
    BY DEF WiringHolds, VerticesOwnTheirs
  <2>2. ASSUME 1 \in Wired PROVE 1 \in DOMAIN vertices
    <3>1. writer \notin BeforeWiring
      BY <2>2, WiredIs
    <3>2. 1 <= ChainLength
      BY <1>1, <2>2, <3>1, WiredIs
    <3> QED BY <1>1, <1>2, <3>1, <3>2
  <2>3. <<>> \in Seq(P)
    OBVIOUS
  <2> HIDE DEF P
  <2> QED BY <1>3, <2>1, <2>2, <2>3
<1> QED BY <1>4, <1>5 DEF P

\* What is handed to Tracking, of the PAs and VECP entries read so far.
LEMMA FeedsTyped ==
  ASSUME IInv, FeedsAreOwn
  PROVE  /\ trackElements \in Seq([segments : Seq(ObjectRecords), planes : Seq(ObjectRecords)])
         /\ trax \in Seq(Seq(ObjectRecords)) /\ vecpToHits \in Seq(Seq(ObjectRecords))
<1> DEFINE S == Seq(ObjectRecords)
           R == [segments : S, planes : S]
           E(p) == [segments |-> Objects(p, event.pa[p].segments),
                    planes   |-> Objects(p, event.pa[p].planes)]
           X(p) == Objects(p, event.pa[p].points)
           H(i) == Objects(event.vecp[i].pa, event.vecp[i].nasht)
           n == Len(trackElements)
           m == Len(trax)
           l == Len(vecpToHits)
<1>1. /\ trackElements = [p \in 1 .. n |-> E(p)] /\ trax = [p \in 1 .. m |-> X(p)]
      /\ vecpToHits = [i \in 1 .. l |-> H(i)]
  BY DEF FeedsAreOwn
<1>2. /\ n \in Nat /\ 1 .. n \subseteq DOMAIN event.pa
      /\ m \in Nat /\ 1 .. m \subseteq DOMAIN event.pa
      /\ l \in Nat /\ 1 .. l \subseteq DOMAIN event.vecp
  <2>1. /\ Len(event.pa) \in Nat /\ DOMAIN event.pa = 1 .. Len(event.pa)
        /\ event.ncvecp \in 0 .. Len(event.vecp) /\ at \in Nat \ {0}
        /\ Len(event.vecp) \in Nat /\ DOMAIN event.vecp = 1 .. Len(event.vecp)
    BY EventBounds
  <2>2. n \in 0 .. Len(event.pa) /\ m \in 0 .. Len(event.pa) /\ l \in 0 .. event.ncvecp
    BY <2>1 DEF FeedsAreOwn
  <2> QED BY <2>1, <2>2
<1>3. /\ \A p \in DOMAIN event.pa : E(p) \in R /\ X(p) \in S
      /\ \A i \in DOMAIN event.vecp : H(i) \in S
  BY EventBounds, CountsTyped, ObjectsTyped
<1> HIDE DEF E, X, H, n, m, l, R, S
<1>4. trackElements \in Seq(R)
  BY <1>1, <1>2, <1>3
<1>5. trax \in Seq(S)
  BY <1>1, <1>2, <1>3
<1>6. vecpToHits \in Seq(S)
  BY <1>1, <1>2, <1>3
<1> QED BY <1>4, <1>5, <1>6 DEF R, S

\* The particles and the columns parallel to them and to the tracks.
LEMMA ParticlesTyped ==
  ASSUME IInv, ReferencesHold
  PROVE  /\ particles \in Seq([pa : DOMAIN event.pa, vecp : DOMAIN event.vecp \cup {0},
                               charge : {"neutral", "signed", "unsigned"},
                               momentum : {"vecp", "zero"}, track : 1 .. Len(tracks) \cup {0}])
         /\ words \in Seq([pa : DOMAIN event.pa, vecp : DOMAIN event.vecp \cup {0}])
         /\ columns \in Seq(DOMAIN event.vecp \cup {0})
<1> DEFINE I == DOMAIN event.vecp \cup {0}
           Q == [pa : DOMAIN event.pa, vecp : I, charge : {"neutral", "signed", "unsigned"},
                 momentum : {"vecp", "zero"}, track : 1 .. Len(tracks) \cup {0}]
           W == [pa : DOMAIN event.pa, vecp : I]
           W0 == [pa : Nat, vecp : Nat]
<1>1. /\ Len(particles) \in Nat /\ DOMAIN particles = 1 .. Len(particles)
      /\ DOMAIN tracks = 1 .. Len(tracks)
      /\ particles \in Seq(Particle) /\ words \in Seq(W0) /\ columns \in Seq(Nat)
      /\ Len(words) = Len(particles) /\ Len(columns) = Len(tracks)
  BY ParticleFacts DEF IInv, Indexed, Parallel, Particle
<1>2. ASSUME NEW q \in DOMAIN particles
      PROVE  /\ particles[q] \in Particle /\ particles[q].pa \in DOMAIN event.pa
             /\ particles[q].vecp \in I /\ particles[q].track \in 1 .. Len(tracks) \cup {0}
             /\ words[q].pa = particles[q].pa /\ words[q].vecp = particles[q].vecp
  BY ParticleFacts, ReferencesParticles DEF IInv, Linked, Parallel
<1>3. particles \in Seq(Q)
  <2>1. \A q \in DOMAIN particles : particles[q] \in Q
    BY <1>2 DEF Particle
  <2>2. /\ Len(particles) \in Nat /\ DOMAIN particles = 1 .. Len(particles)
        /\ particles = [q \in 1 .. Len(particles) |-> particles[q]]
    BY <1>1
  <2> HIDE DEF Q
  <2> QED BY <2>1, <2>2
<1>4. words \in Seq(W)
  <2>1. DOMAIN words = DOMAIN particles
    <3> HIDE DEF W0
    <3> QED BY <1>1
  <2>2. ASSUME NEW q \in DOMAIN words PROVE words[q] \in W
    <3>1. words[q] \in W0
      <4> HIDE DEF W0
      <4> QED BY <1>1
    <3>2. words[q] = [pa |-> words[q].pa, vecp |-> words[q].vecp]
      BY <3>1
    <3>3. words[q].pa \in DOMAIN event.pa /\ words[q].vecp \in I
      BY <1>2, <2>1
    <3> HIDE DEF I
    <3> QED BY <3>2, <3>3
  <2> HIDE DEF W, W0
  <2> QED BY <1>1, <2>2
<1>5. columns \in Seq(I)
  <2>1. ASSUME NEW t \in DOMAIN columns PROVE columns[t] \in I
    <3>1. t \in DOMAIN tracks
      BY <1>1
    <3>2. PICK q \in DOMAIN particles : columns[t] = particles[q].vecp
      BY <3>1 DEF IInv, Parallel
    <3> QED BY <1>2, <3>2
  <2> HIDE DEF I
  <2> QED BY <1>1, <2>1
<1> QED BY <1>3, <1>4, <1>5

\* Types hold, and no index is outside the vector it indexes, at every step of
\* pass 1: the code reads particle_handles, quality and the maps without a check.
THEOREM TypesHold == Spec => []TypeOK
<1>1. ASSUME IInv, ReferencesHold, WiringHolds, ClustersHold, KeptInRange PROVE TypeOK
  <2> DEFINE P == 1 .. Len(particles)
             T == 1 .. Len(tracks)
             I == DOMAIN event.vecp
  <2>1. /\ DOMAIN particles = P /\ DOMAIN tracks = T /\ EventShape(event) /\ at \in Nat \ {0}
    BY <1>1, ParticleFacts, EventBounds
  <2>2. /\ vecpToParticle \in [I -> P \cup {0}] /\ paToParticle \in Seq(P \cup {0})
    <3>1. 0 .. Len(particles) = P \cup {0}
      BY <1>1, ParticleFacts
    <3>2. paToParticle \in Seq(0 .. Len(particles)) /\ vecpToParticle \in [I -> 0 .. Len(particles)]
      BY <1>1 DEF IInv, Indexed
    <3> QED BY <3>1, <3>2
  <2>3. links \subseteq [particle : P, vecp : I]
    BY <1>1, <2>1 DEF ReferencesHold, LinksAreOwn
  <2>4. decays \in Seq(Seq([vecp : I, particle : P]))
    <3> DEFINE D == [vecp : I, particle : P]
    <3>1. decays \in Seq(Seq(OwnDaughters)) /\ OwnDaughters \subseteq D
      BY <1>1, <2>1 DEF ReferencesHold, DaughtersAreOwn, OwnDaughters
    <3> HIDE DEF D
    <3>2. Seq(OwnDaughters) \subseteq Seq(D)
      BY <3>1
    <3>3. decays \in Seq(Seq(D))
      BY <3>1, <3>2
    <3> QED BY <3>3 DEF D
  <2>5. \A c \in DOMAIN clusters : clusters[c].particle \in P \cup {0}
    <3>1. clusters \in Seq(OwnClusters)
      BY <1>1 DEF ClustersHold
    <3>2. \A c \in DOMAIN clusters : clusters[c] \in OwnClusters
      BY <3>1
    <3> QED BY <2>1, <3>2 DEF OwnClusters
  <2>6. \A r \in rows : r.particle \in P \cup {0} /\ r.track \in T \cup {0}
    <3> SUFFICES ASSUME NEW r \in rows PROVE r.particle \in P \cup {0} /\ r.track \in T \cup {0}
      OBVIOUS
    <3>1. /\ r.particle # 0 => r.particle \in DOMAIN particles
                               /\ r.track \in {0, particles[r.particle].track}
          /\ r.particle = 0 => r.track = 0
      BY <1>1 DEF ReferencesHold, RowsAreOwn
    <3>2. r.particle # 0 => particles[r.particle].track \in T \cup {0}
      BY <1>1, <2>1, <3>1, ParticleFacts
    <3> QED BY <2>1, <3>1, <3>2
  <2>7. lpa \in {0} \cup DOMAIN event.pa /\ paIdx \in Nat
    BY <1>1 DEF KeptInRange, WiringHolds, VerticesKnown
  <2>8. /\ tracks \in Seq(TrackRecords) /\ showerHits \in Seq(Seq(Seq(ShowerHitRecords)))
        /\ impact \in Seq(BOOLEAN) /\ btagVertex \subseteq P
        /\ quality \in Seq({0} \cup DOMAIN event.pa) /\ Len(quality) <= Len(particles)
        /\ writer \in {Writers[k] : k \in DOMAIN Writers} \cup {"done", "refused"}
    BY <1>1, <2>1 DEF KeptInRange
  <2>9. /\ trackElements \in Seq([segments : Seq(ObjectRecords), planes : Seq(ObjectRecords)])
        /\ trax \in Seq(Seq(ObjectRecords)) /\ vecpToHits \in Seq(Seq(ObjectRecords))
    BY <1>1, FeedsTyped DEF ReferencesHold
  <2>10. /\ particles \in Seq([pa : DOMAIN event.pa, vecp : I \cup {0},
                               charge : {"neutral", "signed", "unsigned"},
                               momentum : {"vecp", "zero"}, track : T \cup {0}])
         /\ words \in Seq([pa : DOMAIN event.pa, vecp : I \cup {0}])
         /\ columns \in Seq(I \cup {0})
    BY <1>1, ParticlesTyped
  <2>11. /\ vertices \in Seq([kind : {"primary", "other", "simulated"}, particles : Seq(P)])
         /\ primaryVertex \in Seq(P)
    BY <1>1, VerticesTyped
  <2> HIDE DEF P, T, I
  <2> QED BY <2>1, <2>2, <2>3, <2>4, <2>5, <2>6, <2>7, <2>8, <2>9, <2>10, <2>11
          DEF TypeOK, TrackRecords, ObjectRecords, ShowerHitRecords, P, T, I
<1>2. Spec => []KeptInRange
  BY InitKept, StepKept, RelationsHold, ReferencesAlwaysHold, PTL DEF Spec
<1> QED BY <1>1, <1>2, RelationsHold, ReferencesAlwaysHold, WiringAlwaysHolds,
           ClustersAlwaysHold, PTL
=============================================================================
