------------------------ MODULE FullDstEvent_proofs ------------------------
(***************************************************************************)
(* The match of the two DSTs is right for any event whose PAs the perigee  *)
(* tells apart: first what the searches return, then the invariant.        *)
(***************************************************************************)
EXTENDS FullDstEvent, LeastElement

\* The facts of EventShape the proofs use.
LEMMA ShapeFacts ==
  ASSUME EventShape(event)
  PROVE  /\ frame.tracks \in Seq(Nat \ {0})
         /\ DOMAIN frame.tracks \in SUBSET (Nat \ {0})
         /\ DOMAIN frame.particles \in SUBSET (Nat \ {0})
         /\ \A t \in DOMAIN frame.tracks : event.perigee[t] \in Int
         /\ DOMAIN event.pa = 1 .. Len(event.pa) /\ Len(event.pa) \in Nat
         /\ \A p \in DOMAIN event.pa : event.pa[p].perigee \in Int /\ event.pa[p].own \in Nat
<1>1. FrameShape(frame)
  BY DEF EventShape, frame
<1>2. frame.tracks \in Seq(Nat \ {0})
  BY <1>1 DEF FrameShape
<1>3. frame.particles \in Seq([pa : Nat \ {0}, charge : {"neutral", "signed", "unsigned"},
                               track : 0 .. Len(frame.tracks)])
  BY <1>1 DEF FrameShape
<1>4. event.pa \in Seq(Pa)
  BY DEF EventShape
<1>5. event.perigee \in [DOMAIN frame.tracks -> Int]
  BY DEF EventShape, frame
<1>6. \A p \in DOMAIN event.pa : event.pa[p] \in Pa
  BY <1>4
<1>7. \A p \in DOMAIN event.pa : event.pa[p].perigee \in Int /\ event.pa[p].own \in Nat
  BY <1>6 DEF Pa
<1>8. DOMAIN frame.tracks \in SUBSET (Nat \ {0}) /\ DOMAIN frame.particles \in SUBSET (Nat \ {0})
  BY <1>2, <1>3
<1> QED BY <1>2, <1>4, <1>5, <1>7, <1>8

\* A cost is a natural number: it is a distance.
LEMMA CostNat ==
  ASSUME EventShape(event), NEW x \in Int, NEW t \in DOMAIN frame.tracks
  PROVE  Cost(x, t) \in Nat
<1>1. event.perigee[t] \in Int
  BY ShapeFacts
<1> QED BY <1>1 DEF Cost

\* findMatch returns no track, or a nearest one, within the tolerance.
LEMMA FindMatchIsNearest ==
  ASSUME EventShape(event), NEW x \in Int, FindMatch(x) # 0
  PROVE  /\ FindMatch(x) \in DOMAIN frame.tracks
         /\ Cost(x, FindMatch(x)) < Tolerance
         /\ \A u \in DOMAIN frame.tracks : Cost(x, FindMatch(x)) <= Cost(x, u)
<1> DEFINE M == {t \in DOMAIN frame.tracks :
                   /\ Cost(x, t) < Tolerance
                   /\ \A u \in DOMAIN frame.tracks : Cost(x, t) <= Cost(x, u)}
<1>1. M # {} /\ FindMatch(x) = CHOOSE t \in M : \A u \in M : t <= u
  BY DEF FindMatch
<1>2. M \in SUBSET Nat
  BY ShapeFacts
<1>3. \E t \in M : \A u \in M : t <= u
  <2> HIDE DEF M
  <2> QED BY <1>1, <1>2, LeastNat
<1>4. FindMatch(x) \in M
  <2> HIDE DEF M
  <2> QED BY <1>1, <1>3
<1> QED BY <1>4

\* It returns a track if any is within the tolerance.
LEMMA FindMatchFinds ==
  ASSUME EventShape(event), NEW x \in Int, NEW t \in DOMAIN frame.tracks, Cost(x, t) < Tolerance
  PROVE  FindMatch(x) # 0
<1> DEFINE M == {u \in DOMAIN frame.tracks :
                   /\ Cost(x, u) < Tolerance
                   /\ \A v \in DOMAIN frame.tracks : Cost(x, u) <= Cost(x, v)}
           C == {Cost(x, u) : u \in DOMAIN frame.tracks}
<1>1. C \in SUBSET Nat /\ C # {}
  BY CostNat
<1>2. PICK c \in C : \A d \in C : c <= d
  <2> HIDE DEF C
  <2> QED BY <1>1, LeastNat
<1>3. PICK u \in DOMAIN frame.tracks : c = Cost(x, u)
  OBVIOUS
<1>4. \A v \in DOMAIN frame.tracks : Cost(x, u) <= Cost(x, v)
  BY <1>2, <1>3
<1>5. Cost(x, u) < Tolerance
  BY <1>4, CostNat, EventAssumption
<1>6. u \in M
  BY <1>4, <1>5
<1>7. M \in SUBSET (Nat \ {0})
  BY ShapeFacts
<1>8. FindMatch(x) = CHOOSE v \in M : \A w \in M : v <= w
  BY <1>6 DEF FindMatch
<1>9. \E v \in M : \A w \in M : v <= w
  <2> HIDE DEF M
  <2> QED BY <1>6, <1>7, LeastNat
<1>10. FindMatch(x) \in M
  <2> HIDE DEF M
  <2> QED BY <1>8, <1>9
<1> QED BY <1>7, <1>10

\* The particle of a track is the one particle of pass 1 that refers to it; it
\* was read from the same PA and is not neutral.
LEMMA ParticleOfTrack ==
  ASSUME EventShape(event), NEW t \in DOMAIN frame.tracks
  PROVE  LET q == TrackToParticle(t) IN
         /\ q \in DOMAIN frame.particles /\ q # 0
         /\ frame.particles[q].track = t
         /\ frame.particles[q].pa = frame.tracks[t]
         /\ frame.particles[q].charge # "neutral"
<1> DEFINE M == {q \in DOMAIN frame.particles : frame.particles[q].track = t}
<1>1. FrameShape(frame)
  BY DEF EventShape, frame
<1>2. t # 0 /\ DOMAIN frame.particles \in SUBSET (Nat \ {0})
  BY ShapeFacts
<1>3. PICK q \in DOMAIN frame.particles : frame.particles[q].track = t
  BY <1>1 DEF FrameShape
<1>4. \A r \in DOMAIN frame.particles : frame.particles[r].track = t =>
        /\ frame.particles[r].pa = frame.tracks[t]
        /\ frame.particles[r].charge # "neutral"
  BY <1>1, <1>2 DEF FrameShape
<1>5. \A r \in M : r = q
  BY <1>1, <1>3, <1>4 DEF FrameShape
<1>6. M = {q} /\ q <= q
  BY <1>2, <1>3, <1>5
<1>7. TrackToParticle(t) = CHOOSE r \in M : \A s \in M : s <= r
  BY <1>6 DEF TrackToParticle
<1>8. TrackToParticle(t) = q
  <2> HIDE DEF M
  <2> QED BY <1>6, <1>7
<1> QED BY <1>2, <1>3, <1>4, <1>8

-----------------------------------------------------------------------------
(***************************************************************************)
(* The invariant.                                                          *)
(***************************************************************************)

\* An entry put right behind the last one is appended.
LEMMA PutNext ==
  ASSUME NEW s \in Seq(Nat), NEW v \in Nat
  PROVE  /\ Put(s, Len(s) + 1, v, 0) \in Seq(Nat)
         /\ Len(Put(s, Len(s) + 1, v, 0)) = Len(s) + 1
         /\ DOMAIN Put(s, Len(s) + 1, v, 0) = (DOMAIN s) \cup {Len(s) + 1}
         /\ \A k \in DOMAIN s : Put(s, Len(s) + 1, v, 0)[k] = s[k]
         /\ Put(s, Len(s) + 1, v, 0)[Len(s) + 1] = v
<1> DEFINE n == Len(s)
           f == [k \in 1 .. n + 1 |-> IF k = n + 1 THEN v ELSE IF k <= n THEN s[k] ELSE 0]
<1>1. n \in Nat /\ DOMAIN s = 1 .. n /\ ~(n + 1 <= n)
  OBVIOUS
<1>2. Put(s, n + 1, v, 0) = f
  BY <1>1 DEF Put
<1>3. f \in [1 .. n + 1 -> Nat]
  BY <1>1
<1>4. f \in Seq(Nat) /\ Len(f) = n + 1
  BY <1>1, <1>3
<1>5. DOMAIN f = (DOMAIN s) \cup {n + 1} /\ (\A k \in DOMAIN s : f[k] = s[k]) /\ f[n + 1] = v
  BY <1>1
<1> HIDE DEF f
<1> QED BY <1>2, <1>4, <1>5

\* The match of a PA is no track or a track.
LEMMA MatchOfIsTrack ==
  ASSUME EventShape(event), NEW p \in DOMAIN event.pa
  PROVE  MatchOf(p) \in DOMAIN frame.tracks \cup {0}
BY ShapeFacts, FindMatchIsNearest DEF MatchOf

LEMMA InitIInv ==
  ASSUME Init
  PROVE  IInv
<1>1. EventShape(event)
  BY EventAssumption DEF Init
<1>2. MapsFollowTheWalk
  BY <1>1 DEF Init, MapsFollowTheWalk
<1>3. provenance \in [DOMAIN frame.particles -> {-1, 0, 1}]
  BY DEF Init
<1>4. ProvenanceTells
  BY DEF Init, ProvenanceTells, PasOf
<1> QED BY <1>2, <1>3, <1>4 DEF IInv

\* A step that leaves the match alone preserves it.
LEMMA ElsewhereIInv ==
  ASSUME IInv, UNCHANGED <<event, matching>>, at' \in Nat \ {0},
         writer' # "MatchProvenance" \/ UNCHANGED <<writer, at>>
  PROVE  IInv'
<1> USE DEF matching
<1>1. UNCHANGED <<event, provenance, paToTrack, paToParticle, frame>>
  BY DEF frame
<1>2. EventShape(event)' = EventShape(event)
  BY <1>1
<1>3. \A p : MatchOf(p)' = MatchOf(p) /\ PasOf(p)' = PasOf(p)
  BY <1>1 DEF MatchOf, Matchable, FindMatch, Cost, PasOf
<1>4. \A t : TrackToParticle(t)' = TrackToParticle(t)
  BY <1>1 DEF TrackToParticle
<1>5. MapsFollowTheWalk'
  <2>1. (writer = "MatchProvenance" => Len(paToTrack) = at - 1)'
    BY <1>1 DEF IInv, MapsFollowTheWalk
  <2> QED BY <1>1, <1>2, <1>3, <1>4, <2>1 DEF IInv, MapsFollowTheWalk
<1>6. ProvenanceTells'
  BY <1>1, <1>3 DEF IInv, ProvenanceTells
<1> QED BY <1>1, <1>5, <1>6 DEF IInv

\* MatchProvenance's step: the new entry is the match of the present PA, and
\* only the particle of that match is flagged.
LEMMA MatchPaIInv ==
  ASSUME IInv, MatchPa
  PROVE  IInv'
<1> DEFINE t == MatchOf(at)
           q == IF t = 0 THEN 0 ELSE TrackToParticle(t)
<1>1. /\ EventShape(event) /\ at \in Nat \ {0}
      /\ paToTrack \in Seq(Nat) /\ paToParticle \in Seq(Nat)
      /\ Len(paToParticle) = Len(paToTrack)
  BY DEF IInv, MapsFollowTheWalk
<1>2. /\ writer = "MatchProvenance" /\ at <= Len(event.pa) /\ at' = at + 1
      /\ UNCHANGED <<event, writer>>
  BY DEF MatchPa, Round, Limit, PaWalkers
<1>3. at = Len(paToTrack) + 1 /\ at = Len(paToParticle) + 1 /\ at \in DOMAIN event.pa
  BY <1>1, <1>2, ShapeFacts DEF IInv, MapsFollowTheWalk
<1>4. t \in Nat /\ (t # 0 => t \in DOMAIN frame.tracks)
  BY <1>1, <1>3, MatchOfIsTrack, ShapeFacts
<1>5. /\ q \in Nat
      /\ q # 0 => q \in DOMAIN frame.particles /\ frame.particles[q].charge # "neutral"
  BY <1>1, <1>4, ParticleOfTrack, ShapeFacts
<1>6. /\ paToTrack' = Put(paToTrack, at, t, 0)
      /\ paToParticle' = Put(paToParticle, at, q, 0)
      /\ provenance' = IF q = 0 THEN provenance ELSE [provenance EXCEPT ![q] = 1]
  BY DEF MatchPa, MatchOf
<1> HIDE DEF t, q
<1>7. /\ paToTrack' \in Seq(Nat) /\ Len(paToTrack') = at
      /\ DOMAIN paToTrack' = (DOMAIN paToTrack) \cup {at}
      /\ \A p \in DOMAIN paToTrack : paToTrack'[p] = paToTrack[p]
      /\ paToTrack'[at] = t
  <2> DEFINE n == Len(paToTrack) + 1
             f == Put(paToTrack, n, t, 0)
  <2>1. /\ f \in Seq(Nat) /\ Len(f) = n
        /\ DOMAIN f = (DOMAIN paToTrack) \cup {n}
        /\ \A p \in DOMAIN paToTrack : f[p] = paToTrack[p]
        /\ f[n] = t
    BY <1>1, <1>4, PutNext
  <2>2. at = n /\ paToTrack' = f
    BY <1>3, <1>6
  <2> HIDE DEF f, n
  <2> QED BY <2>1, <2>2
<1>8. /\ paToParticle' \in Seq(Nat) /\ Len(paToParticle') = at
      /\ DOMAIN paToParticle' = (DOMAIN paToParticle) \cup {at}
      /\ \A p \in DOMAIN paToParticle : paToParticle'[p] = paToParticle[p]
      /\ paToParticle'[at] = q
  <2> DEFINE n == Len(paToParticle) + 1
             f == Put(paToParticle, n, q, 0)
  <2>1. /\ f \in Seq(Nat) /\ Len(f) = n
        /\ DOMAIN f = (DOMAIN paToParticle) \cup {n}
        /\ \A p \in DOMAIN paToParticle : f[p] = paToParticle[p]
        /\ f[n] = q
    BY <1>1, <1>5, PutNext
  <2>2. at = n /\ paToParticle' = f
    BY <1>3, <1>6
  <2> HIDE DEF f, n
  <2> QED BY <2>1, <2>2
<1>9. at \notin DOMAIN paToTrack /\ DOMAIN paToParticle = DOMAIN paToTrack
  BY <1>1, <1>3
<1>10. /\ frame' = frame /\ (EventShape(event) = EventShape(event)')
       /\ \A p : MatchOf(p)' = MatchOf(p)
       /\ \A u : TrackToParticle(u)' = TrackToParticle(u)
  BY <1>2 DEF frame, MatchOf, Matchable, FindMatch, Cost, TrackToParticle
<1>11. MapsFollowTheWalk'
  <2>1. ASSUME NEW p \in DOMAIN paToTrack'
        PROVE  /\ p \in DOMAIN event.pa
               /\ paToTrack'[p] = MatchOf(p)
               /\ paToParticle'[p] = IF MatchOf(p) = 0 THEN 0 ELSE TrackToParticle(MatchOf(p))
    <3>1. CASE p = at
      BY <3>1, <1>3, <1>7, <1>8 DEF t, q
    <3>2. CASE p \in DOMAIN paToTrack
      BY <3>2, <1>7, <1>8, <1>9 DEF IInv, MapsFollowTheWalk
    <3> QED BY <3>1, <3>2, <1>7
  <2>2. at' \in Nat \ {0} /\ Len(paToTrack') = at' - 1
    BY <1>1, <1>2, <1>7
  <2> QED BY <1>1, <1>2, <1>7, <1>8, <1>10, <2>1, <2>2 DEF MapsFollowTheWalk
<1>12. provenance' \in [DOMAIN frame'.particles -> {-1, 0, 1}]
  BY <1>5, <1>6, <1>10 DEF IInv
<1>13. ASSUME NEW r \in DOMAIN frame.particles
       PROVE  /\ provenance'[r] = 1 <=> PasOf(r)' # {}
              /\ provenance'[r] = -1 <=> frame.particles[r].charge = "neutral"
  <2>1. r # 0
    BY <1>1, ShapeFacts
  <2>2. /\ provenance[r] = 1 <=> PasOf(r) # {}
        /\ provenance[r] = -1 <=> frame.particles[r].charge = "neutral"
    BY DEF IInv, ProvenanceTells
  <2>3. CASE r = q
    <3>1. provenance'[r] = 1
      BY <2>1, <2>3, <1>6 DEF IInv
    <3>2. at \in PasOf(r)'
      BY <2>3, <1>8 DEF PasOf
    <3> QED BY <3>1, <3>2, <2>1, <2>3, <1>5
  <2>4. CASE r # q
    <3>1. provenance'[r] = provenance[r]
      BY <2>4, <1>5, <1>6 DEF IInv
    <3>2. PasOf(r)' = PasOf(r)
      BY <2>4, <1>8, <1>9 DEF PasOf
    <3> QED BY <3>1, <3>2, <2>2
  <2> QED BY <2>3, <2>4
<1>14. ProvenanceTells'
  BY <1>10, <1>13 DEF ProvenanceTells
<1> QED BY <1>11, <1>12, <1>14 DEF IInv

LEMMA NextIInv ==
  ASSUME IInv, [Next]_vars
  PROVE  IInv'
<1> USE DEF matching, feeds, clones, identity
<1>0. at \in Nat \ {0}
  BY DEF IInv, MapsFollowTheWalk
<1>1. CASE MatchPa
  BY <1>1, MatchPaIInv
<1>2. CASE NextWriter
  <2>1. \A k \in DOMAIN Writers : Writers[k] # "MatchProvenance" \/ k = 1
    BY DEF Writers
  <2>2. Len(Writers) = 13 /\ DOMAIN Writers = 1 .. 13
    BY DEF Writers
  <2> DEFINE k == CHOOSE k \in DOMAIN Writers : Writers[k] = writer
  <2>3. k \in 1 .. 13
    BY <1>2, <2>2 DEF NextWriter
  <2>4. writer' = IF k = 13 THEN "done" ELSE Writers[k + 1]
    BY <1>2, <2>2 DEF NextWriter
  <2> HIDE DEF k
  <2>5. writer' # "MatchProvenance"
    BY <2>1, <2>2, <2>3, <2>4
  <2> QED BY <1>2, <2>5, ElsewhereIInv DEF NextWriter
<1>3. CASE TrackElementsPa \/ TraxPa \/ TrackHybridTrack \/ ShowerHybridClone
           \/ MainHybridParticle \/ VertexHybridVertex \/ TofPa \/ MtpcPa \/ PaPidExtrasPa
           \/ PidHybridClone \/ TblHybridClone \/ BtagTrack
  <2>1. writer # "MatchProvenance" /\ at' = at + 1 /\ UNCHANGED <<event, writer, matching>>
    BY <1>3 DEF TrackElementsPa, TraxPa, TrackHybridTrack, ShowerHybridClone,
       MainHybridParticle, VertexHybridVertex, TofPa, MtpcPa, PaPidExtrasPa, PaRow,
       PidHybridClone, TblHybridClone, BtagTrack, Round
  <2> QED BY <1>0, <2>1, ElsewhereIInv
<1>4. CASE PidHybridRefuses
  BY <1>0, <1>4, ElsewhereIInv DEF PidHybridRefuses
<1>6. CASE VertexHybridParticle
  BY <1>0, <1>6, ElsewhereIInv DEF VertexHybridParticle
<1>5. CASE EventOver \/ UNCHANGED vars
  BY <1>0, <1>5, ElsewhereIInv DEF EventOver, vars
<1> QED BY <1>1, <1>2, <1>3, <1>4, <1>5, <1>6 DEF Next

\* Each PA walked has an entry in both maps, of its match; see IInv.
THEOREM MatchInvariance == Spec => []IInv
<1>1. Init => IInv
  BY InitIInv
<1>2. IInv /\ [Next]_vars => IInv'
  BY NextIInv
<1> QED BY <1>1, <1>2, PTL DEF Spec

\* The provenance column says which particles the full DST has a match for, at
\* every step of the walk (MatchProvenance.cpp).
THEOREM ProvenanceIsRight == Spec => []ProvenanceTells
<1>1. IInv => ProvenanceTells
  BY DEF IInv
<1> QED BY <1>1, MatchInvariance, PTL

\* Where perigees tell the PAs apart, findMatch finds for each PA its own track
\* and no other, and the two maps lead to the same object of pass 1.
THEOREM MatchesAreRight == Spec => []MatchesAreOwn
<1>1. ASSUME IInv PROVE MatchesAreOwn
  <2> SUFFICES ASSUME Recognisable, NEW p \in DOMAIN paToTrack
      PROVE  /\ paToTrack[p] # 0 =>
                  /\ frame.tracks[paToTrack[p]] = event.pa[p].own
                  /\ paToParticle[p] # 0 /\ frame.particles[paToParticle[p]].pa = event.pa[p].own
             /\ \A t \in DOMAIN frame.tracks :
                  /\ Matchable(p) /\ frame.tracks[t] = event.pa[p].own
                  /\ Cost(event.pa[p].perigee, t) < Tolerance
                  => paToTrack[p] # 0
    BY DEF MatchesAreOwn
  <2> DEFINE x == event.pa[p].perigee
  <2>1. /\ EventShape(event) /\ p \in DOMAIN event.pa
        /\ paToTrack[p] = MatchOf(p)
        /\ paToParticle[p] = IF MatchOf(p) = 0 THEN 0 ELSE TrackToParticle(MatchOf(p))
    BY <1>1 DEF IInv, MapsFollowTheWalk
  <2>2. x \in Int
    BY <2>1, ShapeFacts
  <2>3. ASSUME paToTrack[p] # 0
        PROVE  /\ frame.tracks[paToTrack[p]] = event.pa[p].own
               /\ paToParticle[p] # 0 /\ frame.particles[paToParticle[p]].pa = event.pa[p].own
    <3> DEFINE t == FindMatch(x)
    <3>1. Matchable(p) /\ paToTrack[p] = t /\ t # 0
      BY <2>1, <2>3 DEF MatchOf
    <3>2. /\ t \in DOMAIN frame.tracks /\ Cost(x, t) < Tolerance
          /\ \A u \in DOMAIN frame.tracks : Cost(x, t) <= Cost(x, u)
      BY <2>1, <2>2, <3>1, FindMatchIsNearest
    <3>3. frame.tracks[t] = event.pa[p].own
      <4> SUFFICES ASSUME frame.tracks[t] # event.pa[p].own PROVE FALSE
        OBVIOUS
      <4>1. \/ Cost(x, t) >= Tolerance
            \/ \E u \in DOMAIN frame.tracks : Cost(x, u) < Cost(x, t)
        BY <2>1, <3>1, <3>2 DEF Recognisable
      <4>2. \A u \in DOMAIN frame.tracks : Cost(x, u) \in Nat
        BY <2>1, <2>2, CostNat
      <4> HIDE DEF t, x
      <4> QED BY <4>1, <4>2, <3>2, EventAssumption
    <3>4. paToParticle[p] = TrackToParticle(t)
      BY <2>1, <2>3, <3>1
    <3> QED BY <2>1, <3>1, <3>2, <3>3, <3>4, ParticleOfTrack
  <2>4. ASSUME NEW t \in DOMAIN frame.tracks, Matchable(p), Cost(x, t) < Tolerance
        PROVE  paToTrack[p] # 0
    BY <2>1, <2>2, <2>4, FindMatchFinds DEF MatchOf
  <2> QED BY <2>3, <2>4
<1> QED BY <1>1, MatchInvariance, PTL

-----------------------------------------------------------------------------
(***************************************************************************)
(* How far the hook is.                                                    *)
(***************************************************************************)
Hooks == {"MatchProvenance", "TrackElements", "Trax", "TrackHybrid", "ShowerHybrid",
          "MainHybrid", "VertexHybrid", "Tof", "Mtpc", "PaPidExtras", "PidHybrid",
          "TblHybrid", "Btag"}

LEMMA Places ==
  /\ Place("MatchProvenance") = 1 /\ Place("TrackElements") = 2 /\ Place("Trax") = 3
  /\ Place("TrackHybrid") = 4 /\ Place("ShowerHybrid") = 5 /\ Place("MainHybrid") = 6
  /\ Place("VertexHybrid") = 7 /\ Place("Tof") = 8 /\ Place("Mtpc") = 9
  /\ Place("PaPidExtras") = 10 /\ Place("PidHybrid") = 11 /\ Place("TblHybrid") = 12
  /\ Place("Btag") = 13 /\ Place("refused") = 11 /\ Place("done") = 14
BY DEF Place

LEMMA HookPlaces ==
  /\ \A w \in Hooks : Place(w) \in 1 .. 13
  /\ \A v, w \in Hooks : Place(v) = Place(w) => v = w
BY Places DEF Hooks

LEMMA WritersAreHooks ==
  /\ DOMAIN Writers = 1 .. 13 /\ Len(Writers) = 13
  /\ \A k \in 1 .. 13 : Writers[k] \in Hooks /\ Place(Writers[k]) = k
  /\ {Writers[k] : k \in DOMAIN Writers} = Hooks
<1>1. DOMAIN Writers = 1 .. 13 /\ Len(Writers) = 13
  BY DEF Writers
<1>2. \A k \in 1 .. 13 : Writers[k] \in Hooks /\ Place(Writers[k]) = k
  BY Places DEF Writers, Hooks
<1>3. ASSUME NEW w \in Hooks PROVE w \in {Writers[k] : k \in DOMAIN Writers}
  <2>1. Place(w) \in 1 .. 13
    BY HookPlaces
  <2>2. Writers[Place(w)] = w
    BY <1>2, <2>1, HookPlaces
  <2> QED BY <1>1, <2>1, <2>2
<1> QED BY <1>1, <1>2, <1>3

LEMMA Lengths ==
  ASSUME IInv
  PROVE  /\ EventShape(event) /\ FrameShape(frame) /\ at \in Nat \ {0}
         /\ Len(event.pa) \in Nat /\ DOMAIN event.pa = 1 .. Len(event.pa)
         /\ Len(frame.tracks) \in Nat /\ DOMAIN frame.tracks = 1 .. Len(frame.tracks)
         /\ Len(frame.particles) \in Nat /\ DOMAIN frame.particles = 1 .. Len(frame.particles)
         /\ Len(frame.vertices) \in Nat /\ DOMAIN frame.vertices = 1 .. Len(frame.vertices)
         /\ Len(event.aabtag) \in Nat /\ DOMAIN event.aabtag = 1 .. Len(event.aabtag)
<1>1. EventShape(event) /\ at \in Nat \ {0}
  BY DEF IInv, MapsFollowTheWalk
<1>2. FrameShape(frame)
  BY <1>1 DEF EventShape, frame
<1>3. event.pa \in Seq(Pa) /\ event.aabtag \in Seq([pa : DOMAIN event.pa, attached : BOOLEAN])
  BY <1>1 DEF EventShape
<1>4. /\ frame.tracks \in Seq(Nat \ {0})
      /\ frame.vertices \in Seq(Seq(DOMAIN frame.particles))
  BY <1>2 DEF FrameShape
<1>5. frame.particles \in Seq([pa : Nat \ {0}, charge : {"neutral", "signed", "unsigned"},
                               track : 0 .. Len(frame.tracks)])
  BY <1>2 DEF FrameShape
<1> QED BY <1>1, <1>2, <1>3, <1>4, <1>5

LEMMA Limits ==
  ASSUME IInv
  PROVE  /\ \A w \in {"MatchProvenance", "TrackElements", "Trax", "Tof", "Mtpc", "PaPidExtras"} :
              Limit(w) = Len(event.pa)
         /\ Limit("TrackHybrid") = Len(frame.tracks)
         /\ Limit("MainHybrid") = Len(frame.particles)
         /\ Limit("VertexHybrid") = Len(frame.vertices)
         /\ Limit("Btag") = Len(event.aabtag)
         /\ \A w \in {"ShowerHybrid", "PidHybrid", "TblHybrid"} : Limit(w) = 1
         /\ \A w \in Hooks : Limit(w) \in Nat
<1>1. \A w \in {"MatchProvenance", "TrackElements", "Trax", "Tof", "Mtpc", "PaPidExtras"} :
        Limit(w) = Len(event.pa)
  BY DEF Limit, PaWalkers
<1>2. /\ Limit("TrackHybrid") = Len(frame.tracks) /\ Limit("MainHybrid") = Len(frame.particles)
      /\ Limit("VertexHybrid") = Len(frame.vertices) /\ Limit("Btag") = Len(event.aabtag)
      /\ \A w \in {"ShowerHybrid", "PidHybrid", "TblHybrid"} : Limit(w) = 1
  BY DEF Limit, PaWalkers
<1>3. ASSUME NEW w \in Hooks PROVE Limit(w) \in Nat
  <2>1. CASE w \in {"MatchProvenance", "TrackElements", "Trax", "Tof", "Mtpc", "PaPidExtras"}
    BY <1>1, <2>1, Lengths
  <2>2. CASE w \in {"ShowerHybrid", "PidHybrid", "TblHybrid"}
    BY <1>2, <2>2
  <2>3. CASE w \in {"TrackHybrid", "MainHybrid", "VertexHybrid", "Btag"}
    BY <1>2, <2>3, Lengths
  <2> QED BY <2>1, <2>2, <2>3 DEF Hooks
<1> QED BY <1>1, <1>2, <1>3

LEMMA InOrder ==
  ASSUME InStep
  PROVE  /\ writer \in Hooks \cup {"done", "refused"}
         /\ Place(writer) \in 1 .. 14
         /\ writer \in Hooks => at <= Limit(writer) + 1
<1>1. writer \in Hooks \cup {"done", "refused"}
  BY WritersAreHooks DEF InStep
<1>2. Place(writer) \in 1 .. 14
  BY <1>1, HookPlaces, Places
<1>3. writer \in Hooks => writer \notin {"done", "refused"}
  BY DEF Hooks
<1> QED BY <1>1, <1>2, <1>3 DEF InStep

\* Never more rounds than the loop has.
LEMMA RoundsInRange ==
  ASSUME IInv, InStep, NEW w \in Hooks
  PROVE  Rounds(w) \in 0 .. Limit(w)
<1>1. Place(writer) \in 1 .. 14 /\ Place(w) \in 1 .. 13 /\ at \in Nat \ {0} /\ Limit(w) \in Nat
  BY InOrder, HookPlaces, Lengths, Limits
<1>2. ASSUME Place(writer) = Place(w) PROVE at <= Limit(w) + 1
  <2>1. CASE writer \in Hooks
    BY <1>2, <2>1, HookPlaces, InOrder
  <2>2. CASE writer = "refused"
    <3>1. w = "PidHybrid"
      BY <1>2, <2>2, HookPlaces, Places DEF Hooks
    <3> QED BY <2>2, <3>1, Limits DEF InStep
  <2>3. CASE writer = "done"
    BY <1>1, <1>2, <2>3, Places
  <2> QED BY <2>1, <2>2, <2>3, InOrder
<1> QED BY <1>1, <1>2 DEF Rounds

\* The writers before the present one are through, those behind have not begun.
LEMMA Done ==
  ASSUME InStep, NEW w \in Hooks
  PROVE  /\ Place(w) < Place(writer) => Rounds(w) = Limit(w)
         /\ Place(writer) < Place(w) => Rounds(w) = 0
<1>1. Place(writer) \in 1 .. 14 /\ Place(w) \in 1 .. 13
  BY InOrder, HookPlaces
<1> QED BY <1>1 DEF Rounds

LEMMA SameLimits ==
  ASSUME event' = event
  PROVE  frame' = frame /\ \A w : Limit(w)' = Limit(w)
<1>1. frame' = frame
  BY DEF frame
<1> QED BY <1>1 DEF Limit

\* A round is one of the present writer.
LEMMA RoundMade ==
  ASSUME IInv, InStep, NEW w \in Hooks, Round(w)
  PROVE  /\ writer = w /\ writer' = w /\ event' = event /\ frame' = frame
         /\ at \in 1 .. Limit(w) /\ Limit(w) \in Nat /\ at' = at + 1
         /\ Rounds(w) = at - 1 /\ Rounds(w)' = at
         /\ \A v \in Hooks : /\ v # w => Rounds(v)' = Rounds(v)
                             /\ Place(v) < Place(w) => Rounds(v) = Limit(v)
                             /\ Place(w) < Place(v) => Rounds(v) = 0
<1>1. /\ writer = w /\ writer' = w /\ event' = event /\ at <= Limit(w) /\ at' = at + 1
      /\ at \in Nat \ {0} /\ Limit(w) \in Nat /\ Place(w) \in 1 .. 13
  BY Lengths, Limits, HookPlaces DEF Round
<1>2. frame' = frame /\ \A v : Limit(v)' = Limit(v)
  BY <1>1, SameLimits
<1>3. Rounds(w) = at - 1 /\ Rounds(w)' = at
  BY <1>1 DEF Rounds
<1>4. ASSUME NEW v \in Hooks, v # w PROVE Rounds(v)' = Rounds(v)
  <2>1. Place(v) # Place(w)
    BY <1>4, HookPlaces
  <2> QED BY <1>1, <1>2, <2>1 DEF Rounds
<1> QED BY <1>1, <1>2, <1>3, <1>4, Done

\* When a writer is through, no count changes.
LEMMA NextMade ==
  ASSUME IInv, InStep, NextWriter
  PROVE  /\ event' = event /\ frame' = frame /\ at' = 1
         /\ writer' \in Hooks \cup {"done"}
         /\ \A v \in Hooks : Rounds(v)' = Rounds(v)
<1> DEFINE k == CHOOSE k \in DOMAIN Writers : Writers[k] = writer
<1>1. /\ writer \in Hooks /\ at > Limit(writer) /\ at' = 1 /\ event' = event
      /\ writer' = IF k = 13 THEN "done" ELSE Writers[k + 1]
  BY WritersAreHooks DEF NextWriter
<1>2. k \in 1 .. 13 /\ Writers[k] = writer
  BY <1>1, WritersAreHooks
<1> HIDE DEF k
<1>3. Place(writer) = k
  BY <1>2, WritersAreHooks
<1>4. Place(writer') = k + 1 /\ writer' \in Hooks \cup {"done"}
  <2>1. CASE k = 13
    BY <1>1, <2>1, Places
  <2>2. CASE k # 13
    <3>1. k + 1 \in 1 .. 13
      BY <1>2, <2>2
    <3> QED BY <1>1, <2>2, <3>1, WritersAreHooks
  <2> QED BY <2>1, <2>2
<1>5. frame' = frame /\ \A v : Limit(v)' = Limit(v)
  BY <1>1, SameLimits
<1>6. at - 1 = Limit(writer) /\ Limit(writer) \in Nat /\ at \in Nat
  BY <1>1, InOrder, Lengths, Limits
<1>7. ASSUME NEW v \in Hooks PROVE Rounds(v)' = Rounds(v)
  <2>1. Place(v) \in 1 .. 13 /\ Place(v)' = Place(v) /\ Limit(v) \in Nat
    BY HookPlaces, Limits DEF Place
  <2>2. CASE Place(v) = k
    <3>1. v = writer
      BY <1>1, <1>3, <2>2, HookPlaces
    <3> QED BY <1>2, <1>3, <1>4, <1>5, <1>6, <2>1, <2>2, <3>1 DEF Rounds
  <2>3. CASE Place(v) # k
    BY <1>1, <1>2, <1>3, <1>4, <1>5, <2>1, <2>3 DEF Rounds
  <2> QED BY <2>2, <2>3
<1> QED BY <1>1, <1>4, <1>5, <1>7

\* Nor when the event is given up, or nothing happens.
LEMMA StayMade ==
  ASSUME InStep, event' = event, at' = at, Place(writer') = Place(writer)
  PROVE  frame' = frame /\ \A v \in Hooks : Rounds(v)' = Rounds(v)
<1>1. frame' = frame /\ \A v : Limit(v)' = Limit(v)
  BY SameLimits
<1> QED BY <1>1 DEF Rounds

-----------------------------------------------------------------------------
(***************************************************************************)
(* Each collection changes by one action and with the count of its writer. *)
(***************************************************************************)
Still(w) == Rounds(w)' = Rounds(w)

LEMMA StepKinds ==
  ASSUME IInv, InStep, [Next]_vars
  PROVE  /\ event' = event /\ frame' = frame
         /\ MatchPa \/ (UNCHANGED <<paToTrack, paToParticle>> /\ Still("MatchProvenance"))
         /\ TrackElementsPa \/ (trackElements' = trackElements /\ Still("TrackElements"))
         /\ TraxPa \/ (trax' = trax /\ Still("Trax"))
         /\ TrackHybridTrack \/ (tracks' = tracks /\ Still("TrackHybrid"))
         /\ ShowerHybridClone \/ (clusters' = clusters /\ Still("ShowerHybrid"))
         /\ MainHybridParticle \/ (particles' = particles /\ Still("MainHybrid"))
         /\ \/ VertexHybridParticle \/ VertexHybridVertex
            \/ UNCHANGED <<vertices, dv, sp>> /\ Still("VertexHybrid")
         /\ PidHybridClone \/ (clonedRows' = clonedRows /\ Still("PidHybrid"))
         /\ TblHybridClone \/ (links' = links /\ Still("TblHybrid"))
         /\ \/ TofPa \/ MtpcPa \/ PaPidExtrasPa \/ BtagTrack
            \/ /\ UNCHANGED <<rows, btagVertex>> /\ Still("Tof") /\ Still("Mtpc")
               /\ Still("PaPidExtras") /\ Still("Btag")
<1> USE DEF Still, matching, feeds, clones, identity
<1> DEFINE E == event' = event /\ frame' = frame
           S(w) == \A v \in Hooks : v # w => Rounds(v)' = Rounds(v)
<1>1. ASSUME NEW w \in Hooks, Round(w) PROVE E /\ S(w)
  BY <1>1, RoundMade
<1>2. "MatchProvenance" \in Hooks /\ "TrackElements" \in Hooks /\ "Trax" \in Hooks
      /\ "TrackHybrid" \in Hooks /\ "ShowerHybrid" \in Hooks /\ "MainHybrid" \in Hooks
      /\ "VertexHybrid" \in Hooks /\ "Tof" \in Hooks /\ "Mtpc" \in Hooks
      /\ "PaPidExtras" \in Hooks /\ "PidHybrid" \in Hooks /\ "TblHybrid" \in Hooks
      /\ "Btag" \in Hooks
  BY DEF Hooks
<1>3. CASE NextWriter
  <2>1. E /\ \A v \in Hooks : Rounds(v)' = Rounds(v)
    BY <1>3, NextMade
  <2> HIDE DEF E
  <2>2. UNCHANGED <<matching, feeds, clones, identity>>
    BY <1>3 DEF NextWriter
  <2> QED BY <1>2, <2>1, <2>2 DEF E
<1>4. CASE PidHybridRefuses \/ EventOver \/ UNCHANGED vars \/ VertexHybridParticle
  <2>1. /\ event' = event /\ at' = at /\ Place(writer') = Place(writer)
        /\ UNCHANGED <<matching, feeds, tracks, clusters, particles, vertices, identity>>
        /\ VertexHybridParticle \/ UNCHANGED <<dv, sp>>
    BY <1>4, Places DEF PidHybridRefuses, EventOver, vars, VertexHybridParticle
  <2>2. E /\ \A v \in Hooks : Rounds(v)' = Rounds(v)
    BY <2>1, StayMade
  <2> HIDE DEF E
  <2> QED BY <1>2, <2>1, <2>2 DEF E
<1>5. CASE MatchPa
  <2>1. Round("MatchProvenance") /\ UNCHANGED <<feeds, clones, identity>>
    BY <1>5 DEF MatchPa
  <2>2. E /\ S("MatchProvenance")
    BY <1>1, <1>2, <2>1
  <2> QED BY <1>2, <1>5, <2>1, <2>2
<1>6. CASE TrackElementsPa
  <2>1. Round("TrackElements") /\ UNCHANGED <<matching, trax, clones, identity>>
    BY <1>6 DEF TrackElementsPa
  <2>2. E /\ S("TrackElements")
    BY <1>1, <1>2, <2>1
  <2> QED BY <1>2, <1>6, <2>1, <2>2
<1>7. CASE TraxPa
  <2>1. Round("Trax") /\ UNCHANGED <<matching, trackElements, clones, identity>>
    BY <1>7 DEF TraxPa
  <2>2. E /\ S("Trax")
    BY <1>1, <1>2, <2>1
  <2> QED BY <1>2, <1>7, <2>1, <2>2
<1>8. CASE TrackHybridTrack
  <2>1. /\ Round("TrackHybrid")
        /\ UNCHANGED <<matching, feeds, clusters, particles, vertices, dv, sp, identity>>
    BY <1>8 DEF TrackHybridTrack
  <2>2. E /\ S("TrackHybrid")
    BY <1>1, <1>2, <2>1
  <2> QED BY <1>2, <1>8, <2>1, <2>2
<1>9. CASE ShowerHybridClone
  <2>1. /\ Round("ShowerHybrid")
        /\ UNCHANGED <<matching, feeds, tracks, particles, vertices, dv, sp, identity>>
    BY <1>9 DEF ShowerHybridClone
  <2>2. E /\ S("ShowerHybrid")
    BY <1>1, <1>2, <2>1
  <2> QED BY <1>2, <1>9, <2>1, <2>2
<1>10. CASE MainHybridParticle
  <2>1. /\ Round("MainHybrid")
        /\ UNCHANGED <<matching, feeds, tracks, clusters, vertices, dv, sp, identity>>
    BY <1>10 DEF MainHybridParticle
  <2>2. E /\ S("MainHybrid")
    BY <1>1, <1>2, <2>1
  <2> QED BY <1>2, <1>10, <2>1, <2>2
<1>11. CASE VertexHybridVertex
  <2>1. /\ Round("VertexHybrid")
        /\ UNCHANGED <<matching, feeds, tracks, clusters, particles, identity>>
    BY <1>11 DEF VertexHybridVertex
  <2>2. E /\ S("VertexHybrid")
    BY <1>1, <1>2, <2>1
  <2> QED BY <1>2, <1>11, <2>1, <2>2
<1>12. CASE TofPa \/ MtpcPa \/ PaPidExtrasPa
  <2>1. PICK w \in {"Tof", "Mtpc", "PaPidExtras"} :
          Round(w) /\ UNCHANGED <<matching, feeds, clones, clonedRows, links, btagVertex>>
    BY <1>12 DEF TofPa, MtpcPa, PaPidExtrasPa, PaRow
  <2>2. E /\ S(w)
    BY <1>1, <1>2, <2>1
  <2> QED BY <1>2, <1>12, <2>1, <2>2
<1>13. CASE PidHybridClone
  <2>1. Round("PidHybrid") /\ UNCHANGED <<matching, feeds, clones, rows, links, btagVertex>>
    BY <1>13 DEF PidHybridClone
  <2>2. E /\ S("PidHybrid")
    BY <1>1, <1>2, <2>1
  <2> QED BY <1>2, <1>13, <2>1, <2>2
<1>14. CASE TblHybridClone
  <2>1. Round("TblHybrid") /\ UNCHANGED <<matching, feeds, clones, rows, clonedRows, btagVertex>>
    BY <1>14 DEF TblHybridClone
  <2>2. E /\ S("TblHybrid")
    BY <1>1, <1>2, <2>1
  <2> QED BY <1>2, <1>14, <2>1, <2>2
<1>15. CASE BtagTrack
  <2>1. Round("Btag") /\ UNCHANGED <<matching, feeds, clones, clonedRows, links>>
    BY <1>15 DEF BtagTrack
  <2>2. E /\ S("Btag")
    BY <1>1, <1>2, <2>1
  <2> QED BY <1>2, <1>15, <2>1, <2>2
<1> QED BY <1>3, <1>4, <1>5, <1>6, <1>7, <1>8, <1>9, <1>10, <1>11, <1>12, <1>13, <1>14, <1>15
        DEF Next

\* One more entry of the function g.
LEMMA AppendNext ==
  ASSUME NEW n \in Nat, NEW g, NEW s, s = [k \in 1 .. n |-> g[k]]
  PROVE  Append(s, g[n + 1]) = [k \in 1 .. n + 1 |-> g[k]]
<1> DEFINE S == {g[k] : k \in 1 .. n + 1}
<1>1. \A k \in 1 .. n + 1 : g[k] \in S
  OBVIOUS
<1> HIDE DEF S
<1>2. s \in Seq(S) /\ Len(s) = n
  BY <1>1
<1>3. /\ Append(s, g[n + 1]) \in Seq(S) /\ Len(Append(s, g[n + 1])) = n + 1
      /\ \A k \in 1 .. n + 1 : Append(s, g[n + 1])[k] = IF k = n + 1 THEN g[n + 1] ELSE s[k]
  BY <1>1, <1>2
<1>4. \A k \in 1 .. n + 1 : Append(s, g[n + 1])[k] = g[k]
  BY <1>3
<1>5. Append(s, g[n + 1]) = [k \in 1 .. n + 1 |-> Append(s, g[n + 1])[k]]
  BY <1>3
<1> QED BY <1>4, <1>5

\* A walk through the PAs of the full DST needs complete maps.
LEMMA MapsComplete ==
  ASSUME IInv, InStep, 1 < Place(writer)
  PROVE  DOMAIN paToTrack = DOMAIN event.pa /\ DOMAIN paToParticle = DOMAIN event.pa
<1>1. Len(paToTrack) = Len(event.pa)
  BY Done, Places, Limits DEF InStep, Hooks
<1>2. paToTrack \in Seq(Nat) /\ paToParticle \in Seq(Nat) /\ Len(paToParticle) = Len(paToTrack)
  BY DEF IInv, MapsFollowTheWalk
<1> QED BY <1>1, <1>2, Lengths

\* Before MatchProvenance is through nothing has been copied.
LEMMA NothingCopied ==
  ASSUME IInv, InStep, MatchPa, NEW w \in Hooks, w # "MatchProvenance"
  PROVE  Rounds(w) = 0 /\ Rounds(w)' = 0
<1>1. Round("MatchProvenance") /\ "MatchProvenance" \in Hooks
  BY DEF MatchPa, Hooks
<1>2. 1 < Place(w)
  BY HookPlaces, Places, <1>1
<1> QED BY <1>1, <1>2, RoundMade, Places

LEMMA StepInStep ==
  ASSUME IInv, InStep, [Next]_vars
  PROVE  InStep'
<1>1. CASE MatchPa
  <2>1. Round("MatchProvenance") /\ "MatchProvenance" \in Hooks
    BY <1>1 DEF MatchPa, Hooks
  <2>2. /\ writer = "MatchProvenance" /\ writer' = writer /\ event' = event
        /\ at' = at + 1 /\ at \in 1 .. Limit("MatchProvenance") /\ Limit("MatchProvenance") \in Nat
        /\ Rounds("MatchProvenance")' = at
    BY <2>1, RoundMade
  <2>3. Len(paToTrack') = at
    <3>1. IInv'
      BY <1>1, MatchPaIInv
    <3>2. Len(paToTrack') = at' - 1
      BY <2>2, <3>1 DEF IInv, MapsFollowTheWalk
    <3> QED BY <2>2, <3>2
  <2>4. Limit(writer)' = Limit("MatchProvenance")
    BY <2>2 DEF Limit, PaWalkers
  <2>5. at' <= Limit(writer)' + 1
    BY <2>2, <2>4
  <2> QED BY <2>2, <2>3, <2>5 DEF InStep
<1>2. CASE ~MatchPa
  <2>1. /\ event' = event /\ paToTrack' = paToTrack
        /\ Rounds("MatchProvenance")' = Rounds("MatchProvenance")
    BY <1>2, StepKinds DEF Still
  <2>2. Len(paToTrack)' = Rounds("MatchProvenance")'
    BY <2>1 DEF InStep
  <2>3. /\ writer' \in Hooks \cup {"done", "refused"}
        /\ writer' \in Hooks => at' <= Limit(writer)' + 1
        /\ writer' = "refused" => at' <= 2
    <3>1. CASE NextWriter
      <4>1. writer' \in Hooks \cup {"done"} /\ at' = 1 /\ event' = event
        BY <3>1, NextMade
      <4>2. ASSUME writer' \in Hooks PROVE Limit(writer)' \in Nat
        <5>1. PICK w \in Hooks : writer' = w
          BY <4>2
        <5>2. Limit(w) \in Nat /\ Limit(w)' = Limit(w)
          BY <4>1, Limits, SameLimits
        <5>3. Limit(writer)' = Limit(w)'
          BY <5>1 DEF Limit
        <5> QED BY <5>2, <5>3
      <4> QED BY <4>1, <4>2 DEF Hooks
    <3>2. CASE \E w \in Hooks : Round(w)
      <4>1. PICK w \in Hooks : Round(w)
        BY <3>2
      <4>2. /\ writer = w /\ writer' = w /\ at \in 1 .. Limit(w) /\ Limit(w) \in Nat
            /\ at' = at + 1 /\ event' = event
        BY <4>1, RoundMade
      <4>3. Limit(writer)' = Limit(w)
        <5>1. Limit(w)' = Limit(w)
          BY <4>2, SameLimits
        <5>2. Limit(writer)' = Limit(w)'
          BY <4>2 DEF Limit
        <5> QED BY <5>1, <5>2
      <4> QED BY <4>2, <4>3 DEF Hooks
    <3>3. CASE PidHybridRefuses
      <4>1. writer = "PidHybrid" /\ writer' = "refused" /\ at' = at
        BY <3>3 DEF PidHybridRefuses
      <4>2. at <= 2
        BY <4>1, InOrder, Limits DEF Hooks
      <4> QED BY <4>1, <4>2 DEF Hooks
    <3>4. CASE UNCHANGED <<event, writer, at>>
      <4>1. Limit(writer)' = Limit(writer)
        BY <3>4 DEF Limit, frame
      <4> QED BY <3>4, <4>1, InOrder DEF InStep
    <3>5. \/ NextWriter \/ PidHybridRefuses \/ UNCHANGED <<event, writer, at>>
          \/ \E w \in Hooks : Round(w)
      BY DEF Next, vars, EventOver, VertexHybridParticle, MatchPa, TrackElementsPa, TraxPa,
             TrackHybridTrack, ShowerHybridClone, MainHybridParticle, VertexHybridVertex, TofPa,
             MtpcPa, PaPidExtrasPa, PaRow, PidHybridClone, TblHybridClone, BtagTrack, Hooks
    <3> QED BY <3>1, <3>2, <3>3, <3>4, <3>5
  <2>4. writer' \notin {"done", "refused"} => writer' \in Hooks
    BY <2>3
  <2> QED BY <2>2, <2>3, <2>4, WritersAreHooks DEF InStep
<1> QED BY <1>1, <1>2

LEMMA StepFeeds ==
  ASSUME IInv, InStep, FeedsAreOwn, [Next]_vars
  PROVE  FeedsAreOwn'
<1>1. /\ event' = event
      /\ TrackElementsPa \/ (trackElements' = trackElements /\ Still("TrackElements"))
      /\ TraxPa \/ (trax' = trax /\ Still("Trax"))
  BY StepKinds
<1>2. (trackElements = [p \in 1 .. Rounds("TrackElements") |->
                          [segments |-> Objects(p, event.pa[p].segments),
                           planes   |-> Objects(p, event.pa[p].planes)]])'
  <2>1. CASE TrackElementsPa
    <3>1. /\ Rounds("TrackElements") = at - 1 /\ Rounds("TrackElements")' = at /\ at \in Nat \ {0}
          /\ event' = event
      BY <2>1, RoundMade, Lengths DEF TrackElementsPa, Hooks
    <3>2. trackElements = [p \in 1 .. at - 1 |-> [segments |-> Objects(p, event.pa[p].segments),
                                                  planes   |-> Objects(p, event.pa[p].planes)]]
      BY <3>1 DEF FeedsAreOwn
    <3>3. Len(trackElements) = at - 1
      BY <3>1, <3>2
    <3>4. trackElements' = [p \in 1 .. at |-> [segments |-> Objects(p, event.pa[p].segments),
                                               planes   |-> Objects(p, event.pa[p].planes)]]
      BY <2>1, <3>1, <3>2, <3>3 DEF TrackElementsPa, Put
    <3> QED BY <3>1, <3>4
  <2>2. CASE trackElements' = trackElements /\ Still("TrackElements")
    BY <1>1, <2>2 DEF FeedsAreOwn, Still
  <2> QED BY <1>1, <2>1, <2>2
<1>3. (trax = [p \in 1 .. Rounds("Trax") |-> Objects(p, event.pa[p].points)])'
  <2>1. CASE TraxPa
    <3>1. /\ Rounds("Trax") = at - 1 /\ Rounds("Trax")' = at /\ at \in Nat \ {0} /\ event' = event
      BY <2>1, RoundMade, Lengths DEF TraxPa, Hooks
    <3>2. trax = [p \in 1 .. at - 1 |-> Objects(p, event.pa[p].points)]
      BY <3>1 DEF FeedsAreOwn
    <3>3. Len(trax) = at - 1
      BY <3>1, <3>2
    <3>4. trax' = [p \in 1 .. at |-> Objects(p, event.pa[p].points)]
      BY <2>1, <3>1, <3>2, <3>3 DEF TraxPa, Put
    <3> QED BY <3>1, <3>4
  <2>2. CASE trax' = trax /\ Still("Trax")
    BY <1>1, <2>2 DEF FeedsAreOwn, Still
  <2> QED BY <1>1, <2>1, <2>2
<1> QED BY <1>2, <1>3 DEF FeedsAreOwn

-----------------------------------------------------------------------------
(***************************************************************************)
(* The clones.                                                             *)
(***************************************************************************)

LEMMA FeedsComplete ==
  ASSUME IInv, InStep, FeedsAreOwn, 3 < Place(writer), NEW p \in DOMAIN event.pa
  PROVE  /\ Get(trackElements, p, NoElements) = [segments |-> Objects(p, event.pa[p].segments),
                                                 planes   |-> Objects(p, event.pa[p].planes)]
         /\ Get(trax, p, <<>>) = Objects(p, event.pa[p].points)
<1>1. Rounds("TrackElements") = Len(event.pa) /\ Rounds("Trax") = Len(event.pa)
  <2>1. /\ "TrackElements" \in Hooks /\ Place("TrackElements") < Place(writer)
        /\ "Trax" \in Hooks /\ Place("Trax") < Place(writer)
    BY Places, InOrder DEF Hooks
  <2> QED BY <2>1, Done, Limits
<1>2. p \in 1 .. Rounds("TrackElements") /\ p \in 1 .. Rounds("Trax")
  BY <1>1, Lengths
<1> QED BY <1>2 DEF FeedsAreOwn, Get

LEMMA StepTracks ==
  ASSUME IInv, InStep, FeedsAreOwn, TracksFollow, [Next]_vars
  PROVE  TracksFollow'
<1>1. /\ event' = event /\ frame' = frame
      /\ MatchPa \/ paToTrack' = paToTrack
      /\ TrackHybridTrack \/ (tracks' = tracks /\ Still("TrackHybrid"))
  BY StepKinds
<1>2. ASSUME paToTrack' = paToTrack PROVE \A t : TrackClone(t)' = TrackClone(t)
  BY <1>1, <1>2 DEF TrackClone, TrackToPas, LpaToTrack
<1>3. CASE TrackHybridTrack
  <2>1. /\ writer = "TrackHybrid" /\ at \in 1 .. Limit("TrackHybrid") /\ Limit("TrackHybrid") \in Nat
        /\ Rounds("TrackHybrid") = at - 1 /\ Rounds("TrackHybrid")' = at
    BY <1>3, RoundMade DEF TrackHybridTrack, Hooks
  <2>2. paToTrack' = paToTrack
    BY <1>3 DEF TrackHybridTrack, matching
  <2>3. TrackToPas(at) \subseteq DOMAIN event.pa
    BY <2>1, MapsComplete, Places DEF TrackToPas
  <2>4. \A p \in TrackToPas(at) :
          /\ Get(trackElements, p, NoElements).segments = Objects(p, event.pa[p].segments)
          /\ Get(trackElements, p, NoElements).planes = Objects(p, event.pa[p].planes)
          /\ Get(trax, p, <<>>) = Objects(p, event.pa[p].points)
    <3> SUFFICES ASSUME NEW p \in TrackToPas(at)
        PROVE  /\ Get(trackElements, p, NoElements).segments = Objects(p, event.pa[p].segments)
               /\ Get(trackElements, p, NoElements).planes = Objects(p, event.pa[p].planes)
               /\ Get(trax, p, <<>>) = Objects(p, event.pa[p].points)
      OBVIOUS
    <3>1. p \in DOMAIN event.pa
      BY <2>3
    <3> QED BY <2>1, <3>1, FeedsComplete, Places
  <2>5. /\ {Members(Get(trackElements, p, NoElements).segments) : p \in TrackToPas(at)} =
             {Members(Objects(p, event.pa[p].segments)) : p \in TrackToPas(at)}
        /\ {Members(Get(trackElements, p, NoElements).planes) : p \in TrackToPas(at)} =
             {Members(Objects(p, event.pa[p].planes)) : p \in TrackToPas(at)}
        /\ {Members(Get(trax, p, <<>>)) : p \in TrackToPas(at)} =
             {Members(Objects(p, event.pa[p].points)) : p \in TrackToPas(at)}
    BY <2>4
  <2>6. tracks' = Append(tracks, TrackClone(at))
    BY <1>3, <2>5 DEF TrackHybridTrack, TrackClone
  <2>7. tracks' = [t \in 1 .. at |-> TrackClone(t)]
    <3> DEFINE g == [t \in Nat |-> TrackClone(t)]
               n == at - 1
    <3>1. n \in Nat /\ n + 1 = at /\ at \in Nat
      BY <2>1
    <3>2. tracks = [t \in 1 .. n |-> g[t]]
      BY <2>1, <3>1 DEF TracksFollow
    <3>3. g[n + 1] = TrackClone(at)
      BY <3>1
    <3>4. [t \in 1 .. n + 1 |-> g[t]] = [t \in 1 .. at |-> TrackClone(t)]
      BY <3>1
    <3> HIDE DEF g, n
    <3>5. Append(tracks, g[n + 1]) = [t \in 1 .. n + 1 |-> g[t]]
      BY <3>1, <3>2, AppendNext
    <3> QED BY <2>6, <3>3, <3>4, <3>5
  <2> QED BY <1>2, <2>1, <2>2, <2>7 DEF TracksFollow
<1>4. CASE tracks' = tracks /\ Still("TrackHybrid") /\ paToTrack' = paToTrack
  BY <1>2, <1>4 DEF TracksFollow, Still
<1>5. CASE MatchPa
  <2>1. Rounds("TrackHybrid") = 0 /\ Rounds("TrackHybrid")' = 0
    BY <1>5, NothingCopied DEF Hooks
  <2>2. tracks' = tracks
    BY <1>5 DEF MatchPa, clones
  <2>3. tracks = <<>>
    BY <2>1 DEF TracksFollow
  <2>4. [t \in 1 .. 0 |-> TrackClone(t)'] = <<>>
    OBVIOUS
  <2> QED BY <2>1, <2>2, <2>3, <2>4 DEF TracksFollow
<1> QED BY <1>1, <1>3, <1>4, <1>5

LEMMA StepShowers ==
  ASSUME IInv, InStep, ShowersFollow, [Next]_vars
  PROVE  ShowersFollow'
<1>1. /\ frame' = frame
      /\ ShowerHybridClone \/ (clusters' = clusters /\ Still("ShowerHybrid"))
  BY StepKinds
<1>2. CASE ShowerHybridClone
  <2>1. at \in 1 .. 1 /\ Rounds("ShowerHybrid")' = at
    BY <1>2, RoundMade, Limits DEF ShowerHybridClone, Hooks
  <2>2. DOMAIN clusters' = {c \in DOMAIN frame.clusters : frame.clusters[c].bank # "SSTC"}
    BY <1>2 DEF ShowerHybridClone
  <2> QED BY <1>1, <2>1, <2>2 DEF ShowersFollow
<1>3. CASE clusters' = clusters /\ Still("ShowerHybrid")
  BY <1>1, <1>3 DEF ShowersFollow, Still
<1> QED BY <1>1, <1>2, <1>3

\* The particles of pass 1, as MainHybrid finds them.
LEMMA ParticleShape ==
  ASSUME IInv, NEW q \in DOMAIN frame.particles
  PROVE  /\ frame.particles[q].pa \in Nat
         /\ frame.particles[q].track \in {0} \cup DOMAIN frame.tracks
<1> DEFINE R == [pa : Nat \ {0}, charge : {"neutral", "signed", "unsigned"},
                 track : 0 .. Len(frame.tracks)]
<1>1. frame.particles \in Seq(R)
  BY Lengths DEF FrameShape
<1>2. frame.particles[q] \in R
  <2> HIDE DEF R
  <2> QED BY <1>1
<1>3. frame.particles[q].pa \in Nat /\ frame.particles[q].track \in 0 .. Len(frame.tracks)
  BY <1>2
<1> QED BY <1>3, Lengths

\* Once TrackHybrid is through each track has its clone.
LEMMA TracksComplete ==
  ASSUME IInv, InStep, TracksFollow, 4 < Place(writer)
  PROVE  DOMAIN tracks = DOMAIN frame.tracks /\ Len(tracks) = Len(frame.tracks)
<1>1. Rounds("TrackHybrid") = Len(frame.tracks)
  BY Done, Places, Limits DEF Hooks
<1> QED BY <1>1, Lengths DEF TracksFollow

LEMMA StepParticles ==
  ASSUME IInv, InStep, TracksFollow, ShowersFollow, ParticlesFollow, [Next]_vars
  PROVE  ParticlesFollow'
<1> DEFINE C(q) == [pa |-> frame.particles[q].pa, track |-> frame.particles[q].track,
                    clusters |-> ClustersOf(q)]
<1>1. /\ event' = event /\ frame' = frame
      /\ MainHybridParticle \/ (particles' = particles /\ Still("MainHybrid"))
  BY StepKinds
<1>2. \A q : ClustersOf(q)' = ClustersOf(q)
  BY <1>1 DEF ClustersOf
<1>3. CASE MainHybridParticle
  <2>1. /\ writer = "MainHybrid" /\ at \in 1 .. Limit("MainHybrid") /\ Limit("MainHybrid") \in Nat
        /\ Rounds("MainHybrid") = at - 1 /\ Rounds("MainHybrid")' = at
    BY <1>3, RoundMade DEF MainHybridParticle, Hooks
  <2>2. at \in DOMAIN frame.particles
    BY <2>1, Limits, Lengths
  <2>3. Repoint(frame.particles[at].track, tracks) = frame.particles[at].track
    BY <2>1, <2>2, ParticleShape, TracksComplete, Places DEF Repoint
  <2>4. Rounds("ShowerHybrid") = 1
    BY <2>1, Done, Places, Limits DEF Hooks
  <2>5. RepointClusters(at) = ClustersOf(at)
    BY <2>4 DEF RepointClusters, ClustersOf, ShowersFollow
  <2>6. particles' = Append(particles, C(at))
    BY <1>3, <2>3, <2>5 DEF MainHybridParticle
  <2>7. particles' = [q \in 1 .. at |-> C(q)]
    <3> DEFINE g == [q \in Nat |-> C(q)]
               n == at - 1
    <3>1. n \in Nat /\ n + 1 = at /\ at \in Nat
      BY <2>1
    <3>2. particles = [q \in 1 .. n |-> g[q]]
      BY <2>1, <3>1 DEF ParticlesFollow
    <3>3. g[n + 1] = C(at)
      BY <3>1
    <3>4. [q \in 1 .. n + 1 |-> g[q]] = [q \in 1 .. at |-> C(q)]
      BY <3>1
    <3> HIDE DEF g, n, C
    <3>5. Append(particles, g[n + 1]) = [q \in 1 .. n + 1 |-> g[q]]
      BY <3>1, <3>2, AppendNext
    <3> QED BY <2>6, <3>3, <3>4, <3>5
  <2> QED BY <1>1, <1>2, <2>1, <2>7 DEF ParticlesFollow
<1>4. CASE particles' = particles /\ Still("MainHybrid")
  BY <1>1, <1>2, <1>4 DEF ParticlesFollow, Still
<1> QED BY <1>1, <1>3, <1>4

\* Once MainHybrid is through each particle has its clone.
LEMMA ParticlesComplete ==
  ASSUME IInv, InStep, ParticlesFollow, 6 < Place(writer)
  PROVE  DOMAIN particles = DOMAIN frame.particles /\ Len(particles) = Len(frame.particles)
<1>1. Rounds("MainHybrid") = Len(frame.particles)
  BY Done, Places, Limits DEF Hooks
<1> QED BY <1>1, Lengths DEF ParticlesFollow

\* The vertices of pass 1 list its particles.
LEMMA VertexShape ==
  ASSUME IInv, NEW v \in DOMAIN frame.vertices
  PROVE  /\ frame.vertices[v] \in Seq(DOMAIN frame.particles)
         /\ Len(frame.vertices[v]) \in Nat
         /\ DOMAIN frame.vertices[v] = 1 .. Len(frame.vertices[v])
         /\ \A k \in DOMAIN frame.vertices[v] :
              frame.vertices[v][k] \in DOMAIN frame.particles /\ frame.vertices[v][k] # 0
<1>1. frame.vertices \in Seq(Seq(DOMAIN frame.particles))
  BY Lengths DEF FrameShape
<1>2. frame.vertices[v] \in Seq(DOMAIN frame.particles)
  BY <1>1
<1>3. 0 \notin DOMAIN frame.particles
  BY Lengths
<1> QED BY <1>2, <1>3

LEMMA StepVertices ==
  ASSUME IInv, InStep, ParticlesFollow, VerticesFollow, [Next]_vars
  PROVE  VerticesFollow'
<1>1. /\ event' = event /\ frame' = frame
      /\ \/ VertexHybridParticle \/ VertexHybridVertex
         \/ UNCHANGED <<vertices, dv, sp>> /\ Still("VertexHybrid")
  BY StepKinds
<1>2. sp \in Nat \ {0} /\ at \in Nat \ {0}
  BY Lengths DEF VerticesFollow
<1>3. CASE VertexHybridParticle
  <2>1. /\ writer = "VertexHybrid" /\ writer' = writer /\ at' = at /\ vertices' = vertices
        /\ at <= Len(frame.vertices) /\ sp <= Len(frame.vertices[at]) /\ sp' = sp + 1
    BY <1>3, Limits DEF VertexHybridParticle
  <2>2. Still("VertexHybrid")
    BY <1>1, <2>1, StayMade DEF Still, Hooks
  <2>3. at \in DOMAIN frame.vertices
    BY <1>2, <2>1, Lengths
  <2>4. frame.vertices[at][sp] \in DOMAIN particles /\ frame.vertices[at][sp] # 0
    <3>1. sp \in DOMAIN frame.vertices[at]
      BY <1>2, <2>1, <2>3, VertexShape
    <3>2. DOMAIN particles = DOMAIN frame.particles
      BY <2>1, ParticlesComplete, Places
    <3> QED BY <2>3, <3>1, <3>2, VertexShape
  <2>5. dv' = Append(dv, frame.vertices[at][sp])
    BY <1>3, <2>4 DEF VertexHybridParticle, Repoint
  <2>6. dv' = [k \in 1 .. sp |-> frame.vertices[at][k]]
    <3> DEFINE g == frame.vertices[at]
               n == sp - 1
    <3>1. n \in Nat /\ n + 1 = sp
      BY <1>2
    <3>2. dv = [k \in 1 .. n |-> g[k]]
      BY DEF VerticesFollow
    <3> HIDE DEF g, n
    <3>3. Append(dv, g[n + 1]) = [k \in 1 .. n + 1 |-> g[k]]
      BY <3>1, <3>2, AppendNext
    <3> QED BY <2>5, <3>1, <3>3 DEF g
  <2>7. sp' - 1 = sp /\ sp' \in Nat \ {0} /\ sp' <= Len(frame.vertices[at]) + 1
    BY <1>2, <2>1, <2>3, VertexShape
  <2>8. vertices' = [v \in 1 .. Rounds("VertexHybrid")' |-> frame.vertices[v]]
    BY <2>1, <2>2 DEF VerticesFollow, Still
  <2>9. dv' = [k \in 1 .. sp' - 1 |-> frame.vertices[at][k]]
    BY <2>6, <2>7
  <2>10. sp' = 1 \/ (at <= Len(frame.vertices) /\ sp' <= Len(frame.vertices[at]) + 1)
    BY <2>1, <2>7
  <2>11. frame' = frame
    BY <1>1
  <2> QED BY <2>1, <2>7, <2>8, <2>9, <2>10, <2>11 DEF VerticesFollow
<1>4. CASE VertexHybridVertex
  <2>1. /\ writer = "VertexHybrid" /\ writer' = writer /\ at' = at + 1
        /\ at \in 1 .. Limit("VertexHybrid") /\ Limit("VertexHybrid") \in Nat
        /\ Rounds("VertexHybrid") = at - 1 /\ Rounds("VertexHybrid")' = at
    BY <1>4, RoundMade DEF VertexHybridVertex, Hooks
  <2>2. sp > Len(frame.vertices[at]) /\ dv' = <<>> /\ sp' = 1 /\ vertices' = Append(vertices, dv)
    BY <1>4 DEF VertexHybridVertex
  <2>3. at \in DOMAIN frame.vertices
    BY <2>1, Limits, Lengths
  <2>4. sp - 1 = Len(frame.vertices[at])
    BY <1>2, <2>2, <2>3, VertexShape DEF VerticesFollow
  <2>5. dv = frame.vertices[at]
    <3>1. dv = [k \in 1 .. Len(frame.vertices[at]) |-> frame.vertices[at][k]]
      BY <2>4 DEF VerticesFollow
    <3> QED BY <2>3, <3>1, VertexShape
  <2>6. vertices' = [v \in 1 .. at |-> frame.vertices[v]]
    <3> DEFINE g == frame.vertices
               n == at - 1
    <3>1. n \in Nat /\ n + 1 = at
      BY <2>1
    <3>2. vertices = [v \in 1 .. n |-> g[v]]
      BY <2>1 DEF VerticesFollow
    <3> HIDE DEF g, n
    <3>3. Append(vertices, g[n + 1]) = [v \in 1 .. n + 1 |-> g[v]]
      BY <3>1, <3>2, AppendNext
    <3> QED BY <2>2, <2>5, <3>1, <3>3 DEF g
  <2>7. dv' = [k \in 1 .. sp' - 1 |-> frame'.vertices[at'][k]]
    BY <2>2
  <2>8. vertices' = [v \in 1 .. Rounds("VertexHybrid")' |-> frame'.vertices[v]]
    BY <1>1, <2>1, <2>6
  <2>9. sp' \in Nat \ {0} /\ sp' = 1
    BY <2>2
  <2> QED BY <2>7, <2>8, <2>9 DEF VerticesFollow
<1>5. CASE /\ UNCHANGED <<vertices, dv, sp>> /\ Still("VertexHybrid")
           /\ ~VertexHybridParticle /\ ~VertexHybridVertex
  <2>1. (sp = 1 /\ writer' # "VertexHybrid") \/ sp = 1 \/ UNCHANGED <<writer, at>>
    <3>1. CASE writer # "VertexHybrid"
      BY <3>1 DEF VerticesFollow
    <3>2. CASE writer = "VertexHybrid"
      <4>1. NextWriter \/ UNCHANGED <<writer, at>>
        BY <1>5, <3>2 DEF Next, vars, EventOver, MatchPa, TrackElementsPa, TraxPa,
           TrackHybridTrack, ShowerHybridClone, MainHybridParticle, TofPa,
           MtpcPa, PaPidExtrasPa, PaRow, PidHybridClone, PidHybridRefuses, TblHybridClone,
           BtagTrack, Round
      <4>2. NextWriter => at > Len(frame.vertices)
        BY <3>2, Limits DEF NextWriter
      <4>3. NextWriter => sp = 1
        BY <4>2, <1>2, Lengths DEF VerticesFollow
      <4> QED BY <4>1, <4>3
    <3> QED BY <3>1, <3>2
  <2>2. CASE sp = 1
    <3>1. dv = <<>> /\ dv' = <<>> /\ sp' = 1
      BY <1>5, <2>2 DEF VerticesFollow
    <3>2. dv' = [k \in 1 .. sp' - 1 |-> frame'.vertices[at'][k]]
      BY <3>1
    <3>3. vertices' = [v \in 1 .. Rounds("VertexHybrid")' |-> frame'.vertices[v]]
      BY <1>1, <1>5 DEF VerticesFollow, Still
    <3> QED BY <3>1, <3>2, <3>3 DEF VerticesFollow
  <2>3. CASE UNCHANGED <<writer, at>>
    BY <1>1, <1>5, <2>3 DEF VerticesFollow, Still
  <2> QED BY <2>1, <2>2, <2>3
<1> QED BY <1>1, <1>3, <1>4, <1>5

LEMMA StepRelations ==
  ASSUME IInv, InStep, TracksFollow, ParticlesFollow, RelationsFollow, [Next]_vars
  PROVE  RelationsFollow'
<1>1. /\ event' = event /\ frame' = frame
      /\ PidHybridClone \/ (clonedRows' = clonedRows /\ Still("PidHybrid"))
      /\ TblHybridClone \/ (links' = links /\ Still("TblHybrid"))
  BY StepKinds
<1>2. (clonedRows = IF Rounds("PidHybrid") = 1 THEN frame.rows ELSE {})'
  <2>1. CASE PidHybridClone
    <3>1. writer = "PidHybrid" /\ at \in 1 .. 1 /\ Rounds("PidHybrid")' = at
      BY <2>1, RoundMade, Limits DEF PidHybridClone, Hooks
    <3>2. DOMAIN particles = DOMAIN frame.particles /\ DOMAIN tracks = DOMAIN frame.tracks
      BY <3>1, ParticlesComplete, TracksComplete, Places
    <3>3. ASSUME NEW r \in frame.rows
          PROVE  [r EXCEPT !.particle = Repoint(r.particle, particles),
                           !.track = Repoint(r.track, tracks)] = r
      <4>1. r \in [bank : {"HAID", "MUID", "ELID", "DEDX"}, pa : Nat, source : Nat,
                   particle : DOMAIN frame.particles, track : DOMAIN frame.tracks \cup {0},
                   flag : Nat]
        BY Lengths DEF FrameShape
      <4>2. Repoint(r.particle, particles) = r.particle /\ Repoint(r.track, tracks) = r.track
        BY <3>2, <4>1 DEF Repoint
      <4> QED BY <4>1, <4>2
    <3>4. clonedRows' = frame.rows
      BY <2>1, <3>3 DEF PidHybridClone
    <3> QED BY <1>1, <3>1, <3>4
  <2>2. CASE clonedRows' = clonedRows /\ Still("PidHybrid")
    BY <1>1, <2>2 DEF RelationsFollow, Still
  <2> QED BY <1>1, <2>1, <2>2
<1>3. (links = IF Rounds("TblHybrid") = 1 THEN frame.links ELSE {})'
  <2>1. CASE TblHybridClone
    <3>1. writer = "TblHybrid" /\ at \in 1 .. 1 /\ Rounds("TblHybrid")' = at
      BY <2>1, RoundMade, Limits DEF TblHybridClone, Hooks
    <3>2. DOMAIN particles = DOMAIN frame.particles
      BY <3>1, ParticlesComplete, Places
    <3>3. ASSUME NEW l \in frame.links
          PROVE  [l EXCEPT !.particle = Repoint(l.particle, particles)] = l
      <4>1. l \in [particle : DOMAIN frame.particles, vecp : Nat]
        BY Lengths DEF FrameShape
      <4>2. Repoint(l.particle, particles) = l.particle
        BY <3>2, <4>1 DEF Repoint
      <4> QED BY <4>1, <4>2
    <3>4. links' = frame.links
      BY <2>1, <3>3 DEF TblHybridClone
    <3> QED BY <1>1, <3>1, <3>4
  <2>2. CASE links' = links /\ Still("TblHybrid")
    BY <1>1, <2>2 DEF RelationsFollow, Still
  <2> QED BY <1>1, <2>1, <2>2
<1> QED BY <1>2, <1>3 DEF RelationsFollow

-----------------------------------------------------------------------------
(***************************************************************************)
(* The rows.                                                               *)
(***************************************************************************)

\* Both maps lead to the same object of pass 1, or to none.
LEMMA MapsLead ==
  ASSUME IInv, NEW p \in DOMAIN paToTrack
  PROVE  /\ p \in DOMAIN event.pa /\ p \in DOMAIN paToParticle
         /\ paToTrack[p] \in {0} \cup DOMAIN frame.tracks
         /\ paToParticle[p] \in {0} \cup DOMAIN frame.particles
         /\ paToTrack[p] = 0 <=> paToParticle[p] = 0
         /\ paToTrack[p] # 0 => frame.particles[paToParticle[p]].track = paToTrack[p]
<1>1. /\ EventShape(event) /\ p \in DOMAIN event.pa /\ paToTrack[p] = MatchOf(p)
      /\ paToParticle[p] = IF MatchOf(p) = 0 THEN 0 ELSE TrackToParticle(MatchOf(p))
      /\ paToTrack \in Seq(Nat) /\ paToParticle \in Seq(Nat) /\ Len(paToParticle) = Len(paToTrack)
  BY DEF IInv, MapsFollowTheWalk
<1>2. MatchOf(p) \in DOMAIN frame.tracks \cup {0}
  BY <1>1, MatchOfIsTrack
<1>3. p \in DOMAIN paToParticle
  BY <1>1
<1>4. CASE MatchOf(p) = 0
  BY <1>1, <1>3, <1>4
<1>5. CASE MatchOf(p) # 0
  BY <1>1, <1>2, <1>3, <1>5, ParticleOfTrack
<1> QED BY <1>4, <1>5

\* Behind MainHybrid the clone of the particle of a PA is found.
LEMMA CloneOfPa ==
  ASSUME IInv, InStep, ParticlesFollow, 6 < Place(writer), NEW p \in DOMAIN event.pa
  PROVE  /\ ParticleForPa(p) = paToParticle[p]
         /\ paToParticle[p] \in {0} \cup DOMAIN particles
<1>1. 1 < Place(writer)
  BY InOrder
<1>2. p \in DOMAIN paToTrack /\ p \in DOMAIN paToParticle
  BY <1>1, MapsComplete
<1>3. paToParticle[p] \in {0} \cup DOMAIN particles
  BY <1>2, MapsLead, ParticlesComplete
<1> QED BY <1>2, <1>3 DEF ParticleForPa, Get, Repoint

AttachedOf(n) ==
  {paToParticle[event.aabtag[k].pa] :
     k \in {k \in 1 .. n : event.aabtag[k].attached /\ paToParticle[event.aabtag[k].pa] # 0}}

\* RowsFollow of the next state, when the maps stay.
LEMMA RowsNext ==
  ASSUME event' = event, frame' = frame, paToParticle' = paToParticle,
         NEW t, NEW m, NEW u, NEW a,
         Rounds("Tof")' = t, Rounds("Mtpc")' = m, Rounds("PaPidExtras")' = u, Rounds("Btag")' = a,
         rows' = PaRows("TOF", t) \cup PaRows("MTPC", m) \cup PaRows("MU", u) \cup AabtagRows(a),
         btagVertex' = AttachedOf(a)
  PROVE  RowsFollow'
<1>1. \A b : /\ PaRows(b, t) = PaRows(b, t)' /\ PaRows(b, m) = PaRows(b, m)'
             /\ PaRows(b, u) = PaRows(b, u)'
  BY DEF PaRows
<1>2. AabtagRows(a) = AabtagRows(a)'
  BY DEF AabtagRows
<1>3. AttachedOf(a) = AttachedOf(a)'
  BY DEF AttachedOf
<1>4. rows' = PaRows("TOF", t)' \cup PaRows("MTPC", m)' \cup PaRows("MU", u)' \cup AabtagRows(a)'
  BY <1>1, <1>2
<1> QED BY <1>3, <1>4 DEF RowsFollow, PaRows, AabtagRows, AttachedOf

\* One PA more.
LEMMA PaRowsGrow ==
  ASSUME IInv, InStep, ParticlesFollow, NEW w \in {"Tof", "Mtpc", "PaPidExtras"}, NEW bank,
         NEW track, PaRow(w, bank, track),
         \A q \in DOMAIN particles :
           track[q] = IF bank = "MTPC" THEN frame.particles[q].track ELSE 0
  PROVE  \E D : /\ rows' = rows \cup D
                /\ PaRows(bank, at) = PaRows(bank, Rounds(w)) \cup D
<1> DEFINE R(p) == [bank |-> bank, pa |-> p, source |-> p, particle |-> paToParticle[p],
                    track |-> IF bank = "MTPC" THEN frame.particles[paToParticle[p]].track ELSE 0]
           C(p) == bank \in event.pa[p].banks /\ paToParticle[p] # 0
           D == {R(p) : p \in {p \in {at} : C(p)}}
<1>0. w \in Hooks /\ 6 < Place(w)
  BY Places DEF Hooks
<1>1. /\ writer = w /\ at \in 1 .. Len(event.pa) /\ Rounds(w) = at - 1 /\ Len(event.pa) \in Nat
  BY <1>0, RoundMade, Limits, Lengths DEF PaRow
<1>2. at \in DOMAIN event.pa
  BY <1>1, Lengths
<1>3. ParticleForPa(at) = paToParticle[at] /\ paToParticle[at] \in {0} \cup DOMAIN particles
  BY <1>0, <1>1, <1>2, CloneOfPa
<1>4. rows' = IF C(at) THEN rows \cup {[bank |-> bank, pa |-> at, source |-> at,
                                        particle |-> paToParticle[at],
                                        track |-> track[paToParticle[at]]]}
              ELSE rows
  BY <1>3 DEF PaRow
<1>5. rows' = rows \cup D
  <2>1. CASE C(at)
    <3>1. track[paToParticle[at]] =
            IF bank = "MTPC" THEN frame.particles[paToParticle[at]].track ELSE 0
      BY <1>3, <2>1
    <3>2. rows' = rows \cup {R(at)}
      BY <1>4, <2>1, <3>1
    <3> HIDE DEF R, C
    <3>3. D = {R(at)}
      BY <2>1
    <3> QED BY <3>2, <3>3
  <2>2. CASE ~C(at)
    <3>1. rows' = rows
      BY <1>4, <2>2
    <3> HIDE DEF R, C
    <3>2. D = {}
      BY <2>2
    <3> QED BY <3>1, <3>2
  <2> QED BY <2>1, <2>2
<1>6. PaRows(bank, at) = {R(p) : p \in {p \in 1 .. at : C(p)}}
  BY DEF PaRows
<1>7. PaRows(bank, Rounds(w)) = {R(p) : p \in {p \in 1 .. at - 1 : C(p)}}
  BY <1>1 DEF PaRows
<1>8. {p \in 1 .. at : C(p)} = {p \in 1 .. at - 1 : C(p)} \cup {p \in {at} : C(p)}
  <2> HIDE DEF R, C
  <2>1. 1 .. at = (1 .. at - 1) \cup {at}
    BY <1>1
  <2> QED BY <2>1
<1>9. PaRows(bank, at) = PaRows(bank, Rounds(w)) \cup D
  <2> HIDE DEF R, C
  <2> QED BY <1>6, <1>7, <1>8
<1> QED BY <1>5, <1>9

LEMMA RowsPa ==
  ASSUME IInv, InStep, ParticlesFollow, RowsFollow, TofPa \/ MtpcPa \/ PaPidExtrasPa
  PROVE  RowsFollow'
<1>1. \A q \in DOMAIN particles : particles[q].track = frame.particles[q].track
  BY DEF ParticlesFollow
<1>2. UNCHANGED <<paToParticle, btagVertex>>
  BY DEF TofPa, MtpcPa, PaPidExtrasPa, PaRow, matching
<1>3. /\ "Tof" \in Hooks /\ "Mtpc" \in Hooks /\ "PaPidExtras" \in Hooks /\ "Btag" \in Hooks
  BY DEF Hooks
<1>4. btagVertex' = AttachedOf(Rounds("Btag"))
  BY <1>2 DEF RowsFollow, AttachedOf
<1>5. rows = PaRows("TOF", Rounds("Tof")) \cup PaRows("MTPC", Rounds("Mtpc"))
              \cup PaRows("MU", Rounds("PaPidExtras")) \cup AabtagRows(Rounds("Btag"))
  BY DEF RowsFollow
<1>6. CASE TofPa
  <2>1. PICK D : rows' = rows \cup D /\ PaRows("TOF", at) = PaRows("TOF", Rounds("Tof")) \cup D
    BY <1>6, PaRowsGrow DEF TofPa, NoTrack
  <2>2. Round("Tof")
    BY <1>6 DEF TofPa, PaRow
  <2>3. /\ event' = event /\ frame' = frame /\ Rounds("Tof")' = at
        /\ Still("Mtpc") /\ Still("PaPidExtras") /\ Still("Btag")
    BY <1>3, <2>2, RoundMade DEF Still
  <2>4. rows' = PaRows("TOF", at) \cup PaRows("MTPC", Rounds("Mtpc"))
              \cup PaRows("MU", Rounds("PaPidExtras")) \cup AabtagRows(Rounds("Btag"))
    BY <1>5, <2>1
  <2> QED BY <1>2, <1>4, <2>3, <2>4, RowsNext DEF Still
<1>7. CASE MtpcPa
  <2>1. PICK D : rows' = rows \cup D /\ PaRows("MTPC", at) = PaRows("MTPC", Rounds("Mtpc")) \cup D
    <3> DEFINE track == [q \in DOMAIN particles |-> particles[q].track]
    <3>1. \A q \in DOMAIN particles :
            track[q] = IF "MTPC" = "MTPC" THEN frame.particles[q].track ELSE 0
      BY <1>1
    <3>2. PaRow("Mtpc", "MTPC", track)
      BY <1>7 DEF MtpcPa
    <3> HIDE DEF track
    <3> QED BY <3>1, <3>2, PaRowsGrow
  <2>2. Round("Mtpc")
    BY <1>7 DEF MtpcPa, PaRow
  <2>3. /\ event' = event /\ frame' = frame /\ Rounds("Mtpc")' = at
        /\ Still("Tof") /\ Still("PaPidExtras") /\ Still("Btag")
    BY <1>3, <2>2, RoundMade DEF Still
  <2>4. rows' = PaRows("TOF", Rounds("Tof")) \cup PaRows("MTPC", at)
              \cup PaRows("MU", Rounds("PaPidExtras")) \cup AabtagRows(Rounds("Btag"))
    BY <1>5, <2>1
  <2> QED BY <1>2, <1>4, <2>3, <2>4, RowsNext DEF Still
<1>8. CASE PaPidExtrasPa
  <2>1. PICK D : rows' = rows \cup D /\ PaRows("MU", at) = PaRows("MU", Rounds("PaPidExtras")) \cup D
    BY <1>8, PaRowsGrow DEF PaPidExtrasPa, NoTrack
  <2>2. Round("PaPidExtras")
    BY <1>8 DEF PaPidExtrasPa, PaRow
  <2>3. /\ event' = event /\ frame' = frame /\ Rounds("PaPidExtras")' = at
        /\ Still("Tof") /\ Still("Mtpc") /\ Still("Btag")
    BY <1>3, <2>2, RoundMade DEF Still
  <2>4. rows' = PaRows("TOF", Rounds("Tof")) \cup PaRows("MTPC", Rounds("Mtpc"))
              \cup PaRows("MU", at) \cup AabtagRows(Rounds("Btag"))
    BY <1>5, <2>1
  <2> QED BY <1>2, <1>4, <2>3, <2>4, RowsNext DEF Still
<1> QED BY <1>6, <1>7, <1>8

LEMMA AabtagShape ==
  ASSUME IInv, NEW k \in DOMAIN event.aabtag
  PROVE  event.aabtag[k].pa \in DOMAIN event.pa
<1> DEFINE R == [pa : DOMAIN event.pa, attached : BOOLEAN]
<1>1. event.aabtag \in Seq(R)
  BY Lengths DEF EventShape
<1>2. event.aabtag[k] \in R
  <2> HIDE DEF R
  <2> QED BY <1>1
<1> QED BY <1>2

LEMMA RowsBtag ==
  ASSUME IInv, InStep, ParticlesFollow, RowsFollow, BtagTrack
  PROVE  RowsFollow'
<1> DEFINE R(k) == [bank |-> "AABTAG", pa |-> event.aabtag[k].pa, source |-> k,
                    particle |-> paToParticle[event.aabtag[k].pa], track |-> 0]
           C(k) == event.aabtag[k].attached /\ paToParticle[event.aabtag[k].pa] # 0
           V(k) == paToParticle[event.aabtag[k].pa]
<1>1. /\ "Tof" \in Hooks /\ "Mtpc" \in Hooks /\ "PaPidExtras" \in Hooks /\ "Btag" \in Hooks
  BY DEF Hooks
<1>2. Round("Btag") /\ paToParticle' = paToParticle
  BY DEF BtagTrack, matching
<1>3. /\ writer = "Btag" /\ event' = event /\ frame' = frame
      /\ Rounds("Btag") = at - 1 /\ Rounds("Btag")' = at
      /\ at \in 1 .. Len(event.aabtag) /\ Len(event.aabtag) \in Nat
      /\ Still("Tof") /\ Still("Mtpc") /\ Still("PaPidExtras")
  BY <1>1, <1>2, RoundMade, Limits, Lengths DEF Still
<1>4. event.aabtag[at].pa \in DOMAIN event.pa
  BY <1>3, AabtagShape, Lengths
<1>5. ParticleForPa(event.aabtag[at].pa) = V(at)
  <2>1. 6 < Place(writer)
    BY <1>3, Places
  <2> QED BY <1>4, <2>1, CloneOfPa
<1>6. /\ rows' = rows \cup {R(at)}
      /\ btagVertex' = IF C(at) THEN btagVertex \cup {V(at)} ELSE btagVertex
  BY <1>5 DEF BtagTrack
<1>7. 1 .. at = (1 .. at - 1) \cup {at}
  BY <1>3
<1>8. AabtagRows(at) = AabtagRows(Rounds("Btag")) \cup {R(at)}
  <2>1. AabtagRows(at) = {R(k) : k \in 1 .. at}
    BY DEF AabtagRows
  <2>2. AabtagRows(Rounds("Btag")) = {R(k) : k \in 1 .. at - 1}
    BY <1>3 DEF AabtagRows
  <2> HIDE DEF R
  <2> QED BY <1>7, <2>1, <2>2
<1>9. btagVertex' = AttachedOf(at)
  <2>1. AttachedOf(at) = {V(k) : k \in {k \in 1 .. at : C(k)}}
    BY DEF AttachedOf
  <2>2. btagVertex = {V(k) : k \in {k \in 1 .. at - 1 : C(k)}}
    BY <1>3 DEF RowsFollow
  <2> HIDE DEF V, C
  <2>3. CASE C(at)
    BY <1>6, <1>7, <2>1, <2>2, <2>3
  <2>4. CASE ~C(at)
    <3>1. {k \in 1 .. at : C(k)} = {k \in 1 .. at - 1 : C(k)}
      BY <1>7, <2>4
    <3> QED BY <1>6, <2>1, <2>2, <2>4, <3>1
  <2> QED BY <2>3, <2>4
<1>10. rows' = PaRows("TOF", Rounds("Tof")) \cup PaRows("MTPC", Rounds("Mtpc"))
              \cup PaRows("MU", Rounds("PaPidExtras")) \cup AabtagRows(at)
  BY <1>6, <1>8 DEF RowsFollow
<1> QED BY <1>2, <1>3, <1>9, <1>10, RowsNext DEF Still

LEMMA StepRows ==
  ASSUME IInv, InStep, ParticlesFollow, RowsFollow, [Next]_vars
  PROVE  RowsFollow'
<1>1. /\ event' = event /\ frame' = frame
      /\ MatchPa \/ UNCHANGED paToParticle
      /\ \/ TofPa \/ MtpcPa \/ PaPidExtrasPa \/ BtagTrack
         \/ /\ UNCHANGED <<rows, btagVertex>> /\ Still("Tof") /\ Still("Mtpc")
            /\ Still("PaPidExtras") /\ Still("Btag")
  BY StepKinds
<1>2. CASE MatchPa
  <2>1. UNCHANGED <<rows, btagVertex>>
    BY <1>2 DEF MatchPa, identity
  <2>2. /\ Rounds("Tof") = 0 /\ Rounds("Mtpc") = 0 /\ Rounds("PaPidExtras") = 0
        /\ Rounds("Btag") = 0
        /\ Rounds("Tof")' = 0 /\ Rounds("Mtpc")' = 0 /\ Rounds("PaPidExtras")' = 0
        /\ Rounds("Btag")' = 0
    BY <1>2, NothingCopied DEF Hooks
  <2>3. rows = {} /\ btagVertex = {}
    BY <2>2 DEF RowsFollow, PaRows, AabtagRows
  <2>4. rows' = {} /\ btagVertex' = {}
    BY <2>1, <2>3
  <2> QED BY <2>2, <2>4 DEF RowsFollow, PaRows, AabtagRows
<1>3. CASE UNCHANGED paToParticle /\ UNCHANGED <<rows, btagVertex>> /\ Still("Tof")
           /\ Still("Mtpc") /\ Still("PaPidExtras") /\ Still("Btag")
  <2>1. rows' = PaRows("TOF", Rounds("Tof")) \cup PaRows("MTPC", Rounds("Mtpc"))
              \cup PaRows("MU", Rounds("PaPidExtras")) \cup AabtagRows(Rounds("Btag"))
    BY <1>3 DEF RowsFollow
  <2>2. btagVertex' = AttachedOf(Rounds("Btag"))
    BY <1>3 DEF RowsFollow, AttachedOf
  <2> QED BY <1>1, <1>3, <2>1, <2>2, RowsNext DEF Still
<1> QED BY <1>1, <1>2, <1>3, RowsPa, RowsBtag

-----------------------------------------------------------------------------
(***************************************************************************)
(* The invariant, and what it implies.                                     *)
(***************************************************************************)
LEMMA InitCopy == Init => CopyHolds
<1> SUFFICES ASSUME Init PROVE CopyHolds
  OBVIOUS
<1>1. writer = "MatchProvenance" /\ at = 1 /\ IInv
  BY InitIInv DEF Init
<1>2. \A w \in Hooks : Rounds(w) = 0
  <2> SUFFICES ASSUME NEW w \in Hooks PROVE Rounds(w) = 0
    OBVIOUS
  <2>1. Place(w) \in 1 .. 13 /\ Place(writer) = 1
    BY <1>1, HookPlaces, Places
  <2> QED BY <1>1, <2>1 DEF Rounds
<1>3. InStep
  <2>1. at <= Limit(writer) + 1
    BY <1>1, Limits, Lengths
  <2>2. writer \in Hooks /\ writer # "refused" /\ Len(paToTrack) = 0
    BY <1>1 DEF Init, Hooks
  <2> QED BY <1>2, <2>1, <2>2, WritersAreHooks DEF InStep, Hooks
<1>4. FeedsAreOwn
  BY <1>2 DEF Init, FeedsAreOwn, Hooks
<1>5. TracksFollow /\ ParticlesFollow
  BY <1>2 DEF Init, TracksFollow, ParticlesFollow, Hooks
<1>6. ShowersFollow
  BY <1>2 DEF Init, ShowersFollow, Hooks
<1>7. VerticesFollow
  BY <1>1, <1>2 DEF Init, VerticesFollow, Hooks
<1>8. RelationsFollow
  BY <1>2 DEF Init, RelationsFollow, Hooks
<1>9. RowsFollow
  <2>1. /\ Rounds("Tof") = 0 /\ Rounds("Mtpc") = 0 /\ Rounds("PaPidExtras") = 0
        /\ Rounds("Btag") = 0
    BY <1>2 DEF Hooks
  <2> QED BY <2>1 DEF Init, RowsFollow, PaRows, AabtagRows
<1> QED BY <1>3, <1>4, <1>5, <1>6, <1>7, <1>8, <1>9 DEF CopyHolds, ClonesFollow

LEMMA StepCopy == IInv /\ CopyHolds /\ [Next]_vars => CopyHolds'
BY StepInStep, StepFeeds, StepTracks, StepShowers, StepParticles, StepVertices, StepRelations,
   StepRows DEF CopyHolds, ClonesFollow

\* Every collection pass 2 adds follows its order and reads only what is
\* complete (the order of the writers in delphi_fdst_pass.cpp); see CopyHolds.
THEOREM CopiesFollow == Spec => []CopyHolds
BY InitCopy, StepCopy, MatchInvariance, PTL DEF Spec

\* A particle of pass 1 and its track are matched with the same PAs.
LEMMA PasOfTrack ==
  ASSUME IInv, NEW q \in DOMAIN frame.particles, frame.particles[q].track # 0
  PROVE  PasOf(q) = TrackToPas(frame.particles[q].track)
<1> DEFINE t == frame.particles[q].track
<1>1. q # 0 /\ t \in DOMAIN frame.tracks
  BY Lengths, ParticleShape
<1>2. DOMAIN paToTrack = DOMAIN paToParticle
  BY DEF IInv, MapsFollowTheWalk
<1>3. ASSUME NEW p \in DOMAIN paToTrack, paToParticle[p] = q PROVE paToTrack[p] = t
  BY <1>1, <1>3, MapsLead
<1>4. ASSUME NEW p \in DOMAIN paToTrack, paToTrack[p] = t PROVE paToParticle[p] = q
  <2> DEFINE r == paToParticle[p]
  <2>1. r \in DOMAIN frame.particles /\ frame.particles[r].track = t
    BY <1>1, <1>4, MapsLead
  <2>2. FrameShape(frame)
    BY Lengths
  <2>3. frame.particles[r].pa = frame.tracks[t] /\ frame.particles[q].pa = frame.tracks[t]
    BY <2>1, <2>2 DEF FrameShape
  <2> QED BY <2>1, <2>2, <2>3 DEF FrameShape
<1> QED BY <1>2, <1>3, <1>4 DEF PasOf, TrackToPas

\* lpaToTrack finds the AABTAG track of a PA.
LEMMA LpaToTrackFound ==
  ASSUME IInv, NEW p
  PROVE  /\ LpaToTrack(p) # 0 => /\ LpaToTrack(p) \in DOMAIN event.aabtag
                                 /\ event.aabtag[LpaToTrack(p)].pa = p
         /\ \A k \in DOMAIN event.aabtag : event.aabtag[k].pa = p => LpaToTrack(p) = k
<1> DEFINE T == {t \in DOMAIN event.aabtag : event.aabtag[t].pa = p}
<1>1. LpaToTrack(p) = IF T = {} THEN 0 ELSE CHOOSE t \in T : \A u \in T : t <= u
  BY DEF LpaToTrack
<1>2. \A t, u \in T : t = u
  BY Lengths DEF EventShape
<1>3. T \subseteq Nat
  BY Lengths
<1>4. ASSUME NEW k \in T PROVE LpaToTrack(p) = k
  <2>1. T = {k} /\ k <= k
    BY <1>2, <1>3, <1>4
  <2> HIDE DEF T
  <2> QED BY <1>1, <2>1
<1> QED BY <1>1, <1>4

\* The clone of a track gets what belongs to its own particle.
THEOREM TracksGainTheirs == Spec => []TracksGainTheirOwn
<1>1. ASSUME IInv, CopyHolds PROVE TracksGainTheirOwn
  <2> SUFFICES ASSUME NEW q \in DOMAIN particles, particles[q].track # 0
      PROVE  LET t == tracks[particles[q].track] IN
             /\ t.segments = UNION {Members(Objects(p, event.pa[p].segments)) : p \in PasOf(q)}
             /\ t.planes = UNION {Members(Objects(p, event.pa[p].planes)) : p \in PasOf(q)}
             /\ t.states = UNION {Members(Objects(p, event.pa[p].points)) : p \in PasOf(q)}
             /\ t.atVertex = {k \in DOMAIN event.aabtag : event.aabtag[k].pa \in PasOf(q)}
    BY DEF TracksGainTheirOwn
  <2> DEFINE n == Rounds("MainHybrid")
             t == frame.particles[q].track
  <2>1. /\ InStep /\ TracksFollow /\ ParticlesFollow
    BY <1>1 DEF CopyHolds, ClonesFollow
  <2>2. /\ n \in 0 .. Len(frame.particles) /\ q \in 1 .. n /\ particles[q].track = t
    BY <1>1, <2>1, RoundsInRange, Limits DEF ParticlesFollow, Hooks
  <2>3. q \in DOMAIN frame.particles /\ n # 0
    BY <1>1, <2>2, Lengths
  <2>4. ~(Place(writer) < 6)
    BY <2>1, <2>3, Done, Places DEF Hooks
  <2>5. 4 < Place(writer)
    BY <2>1, <2>4, InOrder
  <2>6. t \in DOMAIN tracks
    BY <1>1, <2>1, <2>2, <2>3, <2>5, ParticleShape, TracksComplete
  <2>7. tracks[t] = TrackClone(t)
    BY <2>1, <2>6 DEF TracksFollow
  <2>8. PasOf(q) = TrackToPas(t)
    BY <1>1, <2>2, <2>3, PasOfTrack
  <2>9. {LpaToTrack(p) : p \in PasOf(q)} \ {0} =
          {k \in DOMAIN event.aabtag : event.aabtag[k].pa \in PasOf(q)}
    <3>1. ASSUME NEW k \in {LpaToTrack(p) : p \in PasOf(q)} \ {0}
          PROVE  k \in {j \in DOMAIN event.aabtag : event.aabtag[j].pa \in PasOf(q)}
      BY <1>1, <3>1, LpaToTrackFound
    <3>2. ASSUME NEW k \in DOMAIN event.aabtag, event.aabtag[k].pa \in PasOf(q)
          PROVE  k \in {LpaToTrack(p) : p \in PasOf(q)} \ {0}
      <4>1. LpaToTrack(event.aabtag[k].pa) = k /\ k # 0
        BY <1>1, LpaToTrackFound, Lengths
      <4> QED BY <3>2, <4>1
    <3> QED BY <3>1, <3>2
  <2> HIDE DEF t, n
  <2> QED BY <2>2, <2>7, <2>8, <2>9 DEF TrackClone
<1> QED BY <1>1, MatchInvariance, CopiesFollow, PTL

\* In the end every writer has made all its rounds.
LEMMA AllMade ==
  ASSUME IInv, CopyHolds, writer = "done"
  PROVE  /\ \A w \in Hooks : Rounds(w) = Limit(w)
         /\ DOMAIN particles = DOMAIN frame.particles /\ Len(particles) = Len(frame.particles)
         /\ DOMAIN tracks = DOMAIN frame.tracks /\ Len(tracks) = Len(frame.tracks)
         /\ DOMAIN paToTrack = DOMAIN event.pa /\ DOMAIN paToParticle = DOMAIN event.pa
<1>1. InStep /\ TracksFollow /\ ParticlesFollow /\ Place(writer) = 14
  BY Places DEF CopyHolds, ClonesFollow
<1>2. \A w \in Hooks : Place(w) < Place(writer)
  BY <1>1, HookPlaces
<1> QED BY <1>1, <1>2, Done, TracksComplete, ParticlesComplete, MapsComplete

\* No relation of pass 1 is lost because a clone did not exist yet.
THEOREM RelationsSurvive == Spec => []ClonesKeepRelations
<1>1. ASSUME IInv, CopyHolds, writer = "done" PROVE ClonesKeepRelations
  <2>1. /\ ParticlesFollow /\ VerticesFollow /\ RelationsFollow
    BY <1>1 DEF CopyHolds, ClonesFollow
  <2>2. /\ Rounds("VertexHybrid") = Len(frame.vertices)
        /\ Rounds("PidHybrid") = 1 /\ Rounds("TblHybrid") = 1
    BY <1>1, AllMade, Limits DEF Hooks
  <2>3. vertices = frame.vertices
    <3>1. frame.vertices \in Seq(Seq(DOMAIN frame.particles))
      BY <1>1, Lengths DEF FrameShape
    <3>2. vertices = [v \in 1 .. Len(frame.vertices) |-> frame.vertices[v]]
      BY <2>1, <2>2 DEF VerticesFollow
    <3> QED BY <3>1, <3>2
  <2>4. clonedRows = frame.rows /\ links = frame.links
    BY <2>1, <2>2 DEF RelationsFollow
  <2>5. \A q \in DOMAIN particles : /\ particles[q].track = frame.particles[q].track
                                    /\ particles[q].clusters = ClustersOf(q)
    BY <2>1 DEF ParticlesFollow
  <2> QED BY <1>1, <2>3, <2>4, <2>5, AllMade DEF ClonesKeepRelations, ClustersOf
<1>2. IInv /\ CopyHolds => ClonesKeepRelations
  BY <1>1 DEF ClonesKeepRelations
<1> QED BY <1>2, MatchInvariance, CopiesFollow, PTL

\* The rows are exactly those of the PAs and AABTAG tracks of each particle.
THEOREM RowsAreAll == Spec => []RowsAreComplete
<1>1. ASSUME IInv, CopyHolds, writer = "done" PROVE RowsAreComplete
  <2> DEFINE N == Len(event.pa)
             A == Len(event.aabtag)
  <2>1. /\ Rounds("Tof") = N /\ Rounds("Mtpc") = N /\ Rounds("PaPidExtras") = N
        /\ Rounds("Btag") = A
    BY <1>1, AllMade, Limits DEF Hooks
  <2>2. /\ rows = PaRows("TOF", N) \cup PaRows("MTPC", N) \cup PaRows("MU", N) \cup AabtagRows(A)
        /\ btagVertex = AttachedOf(A)
    BY <1>1, <2>1 DEF CopyHolds, RowsFollow, AttachedOf
  <2>3. /\ DOMAIN event.pa = 1 .. N /\ DOMAIN event.aabtag = 1 .. A
        /\ DOMAIN paToParticle = 1 .. N /\ DOMAIN paToTrack = 1 .. N
        /\ DOMAIN particles = DOMAIN frame.particles /\ 0 \notin DOMAIN particles
    BY <1>1, AllMade, Lengths
  <2>4. \A p \in 1 .. N : event.pa[p].banks \subseteq {"TOF", "MTPC", "MU"}
    <3> SUFFICES ASSUME NEW p \in 1 .. N PROVE event.pa[p].banks \subseteq {"TOF", "MTPC", "MU"}
      OBVIOUS
    <3>1. event.pa \in Seq(Pa)
      BY <1>1, Lengths DEF EventShape
    <3>2. event.pa[p] \in Pa
      BY <2>3, <3>1
    <3> QED BY <3>2 DEF Pa, PaBanks
  <2>5. \A p \in 1 .. N : paToParticle[p] \in {0} \cup DOMAIN particles
    BY <1>1, <2>3, MapsLead
  <2>6. \A k \in 1 .. A : event.aabtag[k].pa \in 1 .. N
    BY <1>1, <2>3, AabtagShape
  <2> HIDE DEF N, A
  <2>7. ASSUME NEW r \in rows
        PROVE  \/ /\ r.pa \in 1 .. N /\ r.bank \in event.pa[r.pa].banks /\ r.bank # "AABTAG"
                  /\ r.particle = paToParticle[r.pa] /\ r.particle # 0
                  /\ r.bank = "MTPC" => r.track = frame.particles[r.particle].track
               \/ \E k \in 1 .. A : /\ r.bank = "AABTAG" /\ r.pa = event.aabtag[k].pa
                                    /\ r.particle = paToParticle[r.pa]
    <3>1. CASE r \in AabtagRows(A)
      BY <3>1 DEF AabtagRows
    <3>2. CASE \E b \in {"TOF", "MTPC", "MU"} : r \in PaRows(b, N)
      BY <3>2 DEF PaRows
    <3> QED BY <2>2, <2>7, <3>1, <3>2
  <2>8. ASSUME NEW p \in 1 .. N, NEW b \in event.pa[p].banks, paToParticle[p] # 0
        PROVE  \E r \in rows : r.bank = b /\ r.pa = p /\ r.particle = paToParticle[p]
    <3> DEFINE r == [bank |-> b, pa |-> p, source |-> p, particle |-> paToParticle[p],
                     track |-> IF b = "MTPC" THEN frame.particles[paToParticle[p]].track ELSE 0]
    <3>1. r \in PaRows(b, N)
      BY <2>8 DEF PaRows
    <3>2. r.bank = b /\ r.pa = p /\ r.particle = paToParticle[p]
      OBVIOUS
    <3> HIDE DEF r
    <3>3. b \in {"TOF", "MTPC", "MU"}
      BY <2>4, <2>8
    <3> QED BY <2>2, <3>1, <3>2, <3>3
  <2>9. ASSUME NEW k \in 1 .. A
        PROVE  \E r \in rows : /\ r.bank = "AABTAG" /\ r.pa = event.aabtag[k].pa
                               /\ r.particle = paToParticle[r.pa]
    <3> DEFINE r == [bank |-> "AABTAG", pa |-> event.aabtag[k].pa, source |-> k,
                     particle |-> paToParticle[event.aabtag[k].pa], track |-> 0]
    <3>1. r \in AabtagRows(A)
      BY <2>9 DEF AabtagRows
    <3>2. /\ r.bank = "AABTAG" /\ r.pa = event.aabtag[k].pa
          /\ r.particle = paToParticle[r.pa]
      OBVIOUS
    <3> HIDE DEF r
    <3> QED BY <2>2, <3>1, <3>2
  <2>10. ASSUME NEW q \in DOMAIN particles
         PROVE  {<<r.bank, r.pa>> : r \in {r \in rows : r.particle = q}} =
                  (UNION {{<<b, p>> : b \in event.pa[p].banks} : p \in PasOf(q)}) \cup
                  {<<"AABTAG", event.aabtag[k].pa>> :
                     k \in {k \in DOMAIN event.aabtag : event.aabtag[k].pa \in PasOf(q)}}
    <3> DEFINE L == {<<r.bank, r.pa>> : r \in {r \in rows : r.particle = q}}
               U == UNION {{<<b, p>> : b \in event.pa[p].banks} : p \in PasOf(q)}
               V == {<<"AABTAG", event.aabtag[k].pa>> :
                       k \in {k \in DOMAIN event.aabtag : event.aabtag[k].pa \in PasOf(q)}}
    <3>1. q # 0
      BY <2>3
    <3>2. \A p : p \in PasOf(q) <=> p \in 1 .. N /\ paToParticle[p] = q
      BY <2>3 DEF PasOf
    <3>3. ASSUME NEW x \in L PROVE x \in U \cup V
      <4>1. PICK r \in rows : r.particle = q /\ x = <<r.bank, r.pa>>
        BY <3>3
      <4>2. CASE r.pa \in 1 .. N /\ r.bank \in event.pa[r.pa].banks /\ r.particle = paToParticle[r.pa]
        BY <3>2, <4>1, <4>2
      <4>3. CASE \E k \in 1 .. A : /\ r.bank = "AABTAG" /\ r.pa = event.aabtag[k].pa
                                   /\ r.particle = paToParticle[r.pa]
        BY <2>3, <2>6, <3>2, <4>1, <4>3
      <4> QED BY <2>7, <4>2, <4>3
    <3>4. ASSUME NEW x \in U PROVE x \in L
      <4>1. PICK p \in PasOf(q) : \E b \in event.pa[p].banks : x = <<b, p>>
        BY <3>4
      <4>2. PICK b \in event.pa[p].banks : x = <<b, p>>
        BY <4>1
      <4>3. p \in 1 .. N /\ paToParticle[p] = q
        BY <3>2
      <4>4. PICK r \in rows : r.bank = b /\ r.pa = p /\ r.particle = paToParticle[p]
        BY <2>8, <3>1, <4>3
      <4> QED BY <4>2, <4>3, <4>4
    <3>5. ASSUME NEW x \in V PROVE x \in L
      <4>1. PICK k \in 1 .. A : event.aabtag[k].pa \in PasOf(q) /\ x = <<"AABTAG", event.aabtag[k].pa>>
        BY <2>3, <3>5
      <4>2. paToParticle[event.aabtag[k].pa] = q
        BY <3>2, <4>1
      <4>3. PICK r \in rows : /\ r.bank = "AABTAG" /\ r.pa = event.aabtag[k].pa
                              /\ r.particle = paToParticle[r.pa]
        BY <2>9
      <4> QED BY <4>1, <4>2, <4>3
    <3> HIDE DEF L, U, V
    <3>6. L = U \cup V
      BY <3>3, <3>4, <3>5
    <3> QED BY <3>6 DEF L, U, V
  <2>11. ASSUME NEW r \in rows, r.bank = "MTPC"
         PROVE  r.track # 0 /\ r.track = particles[r.particle].track
    <3>1. /\ r.pa \in 1 .. N /\ r.particle = paToParticle[r.pa] /\ r.particle # 0
          /\ r.track = frame.particles[r.particle].track
      BY <2>7, <2>11
    <3>2. r.particle \in DOMAIN particles
      BY <2>5, <3>1
    <3>3. particles[r.particle].track = frame.particles[r.particle].track
      BY <1>1, <3>2 DEF CopyHolds, ClonesFollow, ParticlesFollow
    <3>4. frame.particles[r.particle].track # 0
      <4>1. r.pa \in DOMAIN paToTrack
        BY <2>3, <3>1
      <4>2. /\ paToTrack[r.pa] # 0 /\ paToTrack[r.pa] \in {0} \cup DOMAIN frame.tracks
            /\ frame.particles[paToParticle[r.pa]].track = paToTrack[r.pa]
        BY <1>1, <3>1, <4>1, MapsLead
      <4> QED BY <3>1, <4>2
    <3> QED BY <3>1, <3>3, <3>4
  <2>12. ASSUME NEW r \in rows, r.particle = 0
         PROVE  r.bank = "AABTAG" /\ Get(paToParticle, r.pa, 0) = 0
    <3>1. PICK k \in 1 .. A : /\ r.bank = "AABTAG" /\ r.pa = event.aabtag[k].pa
                              /\ r.particle = paToParticle[r.pa]
      BY <2>7, <2>12
    <3> QED BY <2>12, <3>1 DEF Get
  <2>13. btagVertex = {q \in DOMAIN particles : \E k \in DOMAIN event.aabtag :
                         event.aabtag[k].attached /\ event.aabtag[k].pa \in PasOf(q)}
    <3>1. \A q \in DOMAIN particles, k \in 1 .. A :
            event.aabtag[k].pa \in PasOf(q) <=> paToParticle[event.aabtag[k].pa] = q
      BY <2>3, <2>6 DEF PasOf
    <3>2. \A q : q \in btagVertex <=> \E k \in 1 .. A :
            /\ event.aabtag[k].attached /\ paToParticle[event.aabtag[k].pa] # 0
            /\ q = paToParticle[event.aabtag[k].pa]
      BY <2>2 DEF AttachedOf
    <3>3. \A k \in 1 .. A : paToParticle[event.aabtag[k].pa] \in {0} \cup DOMAIN particles
      BY <2>5, <2>6
    <3> QED BY <2>3, <3>1, <3>2, <3>3
  <2> QED BY <2>10, <2>11, <2>12, <2>13 DEF RowsAreComplete
<1>2. IInv /\ CopyHolds => RowsAreComplete
  BY <1>1 DEF RowsAreComplete
<1> QED BY <1>2, MatchInvariance, CopiesFollow, PTL

\* Objects read from a PA, as a sequence and as a set.
LEMMA ObjectsType ==
  ASSUME NEW S, NEW p \in S, NEW n \in Nat
  PROVE  /\ Objects(p, n) \in Seq([pa : S, n : Nat])
         /\ Members(Objects(p, n)) \subseteq [pa : S, n : Nat]
<1> DEFINE O == [pa : S, n : Nat]
<1>1. Objects(p, n) \in [1 .. n -> O]
  BY DEF Objects
<1> HIDE DEF O
<1>2. Objects(p, n) \in Seq(O)
  BY <1>1
<1>3. Members(Objects(p, n)) \subseteq O
  BY <1>1 DEF Members
<1> QED BY <1>2, <1>3 DEF O

LEMMA PaShape ==
  ASSUME IInv, NEW p \in DOMAIN event.pa
  PROVE  event.pa[p].segments \in Nat /\ event.pa[p].planes \in Nat /\ event.pa[p].points \in Nat
<1>1. event.pa \in Seq(Pa)
  BY Lengths DEF EventShape
<1>2. event.pa[p] \in Pa
  BY <1>1
<1> QED BY <1>2 DEF Pa

LEMMA FeedsTyped ==
  ASSUME IInv, CopyHolds, NEW Object, Object = [pa : DOMAIN event.pa, n : Nat]
  PROVE  /\ trackElements \in Seq([segments : Seq(Object), planes : Seq(Object)])
         /\ trax \in Seq(Seq(Object))
<1>1. /\ Rounds("TrackElements") \in 0 .. Len(event.pa) /\ Rounds("Trax") \in 0 .. Len(event.pa)
      /\ Len(event.pa) \in Nat /\ DOMAIN event.pa = 1 .. Len(event.pa)
  BY RoundsInRange, Limits, Lengths DEF CopyHolds, Hooks
<1>2. ASSUME NEW p \in DOMAIN event.pa
      PROVE  /\ Objects(p, event.pa[p].segments) \in Seq(Object)
             /\ Objects(p, event.pa[p].planes) \in Seq(Object)
             /\ Objects(p, event.pa[p].points) \in Seq(Object)
  BY PaShape, ObjectsType
<1> DEFINE E(p) == [segments |-> Objects(p, event.pa[p].segments),
                    planes   |-> Objects(p, event.pa[p].planes)]
           R == [segments : Seq(Object), planes : Seq(Object)]
           X(p) == Objects(p, event.pa[p].points)
           Q == Seq(Object)
<1>3. \A p \in DOMAIN event.pa : E(p) \in R /\ X(p) \in Q
  BY <1>2
<1>4. /\ trackElements = [p \in 1 .. Rounds("TrackElements") |-> E(p)]
      /\ trax = [p \in 1 .. Rounds("Trax") |-> X(p)]
  BY DEF CopyHolds, FeedsAreOwn
<1> DEFINE n == Rounds("TrackElements")
           m == Rounds("Trax")
<1>5. /\ n \in Nat /\ 1 .. n \subseteq DOMAIN event.pa
      /\ m \in Nat /\ 1 .. m \subseteq DOMAIN event.pa
  BY <1>1
<1> HIDE DEF E, R, X, Q, n, m
<1>6. trackElements \in Seq(R)
  <2>1. trackElements = [p \in 1 .. n |-> E(p)]
    BY <1>4 DEF n
  <2>2. \A p \in 1 .. n : E(p) \in R
    BY <1>3, <1>5
  <2> QED BY <1>5, <2>1, <2>2
<1>7. trax \in Seq(Q)
  <2>1. trax = [p \in 1 .. m |-> X(p)]
    BY <1>4 DEF m
  <2>2. \A p \in 1 .. m : X(p) \in Q
    BY <1>3, <1>5
  <2> QED BY <1>5, <2>1, <2>2
<1> QED BY <1>6, <1>7 DEF R, Q

LEMMA TracksTyped ==
  ASSUME IInv, CopyHolds, NEW Object, Object = [pa : DOMAIN event.pa, n : Nat]
  PROVE  tracks \in Seq([pa : Nat, segments : SUBSET Object, planes : SUBSET Object,
                         states : SUBSET Object, atVertex : SUBSET DOMAIN event.aabtag])
<1> DEFINE R == [pa : Nat, segments : SUBSET Object, planes : SUBSET Object,
                 states : SUBSET Object, atVertex : SUBSET DOMAIN event.aabtag]
<1>1. /\ Rounds("TrackHybrid") \in 0 .. Len(frame.tracks)
      /\ Len(frame.tracks) \in Nat /\ DOMAIN frame.tracks = 1 .. Len(frame.tracks)
  BY RoundsInRange, Limits, Lengths DEF CopyHolds, Hooks
<1>2. ASSUME NEW t \in DOMAIN frame.tracks PROVE TrackClone(t) \in R
  <2>1. frame.tracks[t] \in Nat
    <3>1. frame.tracks \in Seq(Nat \ {0})
      BY Lengths DEF FrameShape
    <3> QED BY <3>1
  <2>2. TrackToPas(t) \subseteq DOMAIN event.pa
    BY MapsLead DEF TrackToPas
  <2>3. ASSUME NEW p \in TrackToPas(t)
        PROVE  /\ Members(Objects(p, event.pa[p].segments)) \subseteq Object
               /\ Members(Objects(p, event.pa[p].planes)) \subseteq Object
               /\ Members(Objects(p, event.pa[p].points)) \subseteq Object
    BY <2>2, PaShape, ObjectsType
  <2>4. /\ UNION {Members(Objects(p, event.pa[p].segments)) : p \in TrackToPas(t)} \subseteq Object
        /\ UNION {Members(Objects(p, event.pa[p].planes)) : p \in TrackToPas(t)} \subseteq Object
        /\ UNION {Members(Objects(p, event.pa[p].points)) : p \in TrackToPas(t)} \subseteq Object
    BY <2>3
  <2>5. {LpaToTrack(p) : p \in TrackToPas(t)} \ {0} \subseteq DOMAIN event.aabtag
    BY LpaToTrackFound
  <2> QED BY <2>1, <2>4, <2>5 DEF TrackClone
<1>3. tracks = [t \in 1 .. Rounds("TrackHybrid") |-> TrackClone(t)]
  BY DEF CopyHolds, ClonesFollow, TracksFollow
<1> HIDE DEF R
<1>4. tracks \in Seq(R)
  BY <1>1, <1>2, <1>3
<1> QED BY <1>4 DEF R

\* Whatever comes behind a clone finds it complete.
LEMMA ClonesComplete ==
  ASSUME IInv, CopyHolds
  PROVE  /\ Rounds("MainHybrid") # 0 =>
              /\ DOMAIN tracks = DOMAIN frame.tracks
              /\ DOMAIN clusters = {c \in DOMAIN frame.clusters : frame.clusters[c].bank # "SSTC"}
         /\ \A w \in Hooks : 6 < Place(w) /\ Rounds(w) # 0 =>
              DOMAIN particles = DOMAIN frame.particles /\ DOMAIN tracks = DOMAIN frame.tracks
         /\ writer = "VertexHybrid" => DOMAIN particles = DOMAIN frame.particles
<1>1. InStep /\ TracksFollow /\ ShowersFollow /\ ParticlesFollow
  BY DEF CopyHolds, ClonesFollow
<1>2. ASSUME NEW w \in Hooks, Rounds(w) # 0 PROVE Place(w) <= Place(writer)
  BY <1>1, <1>2, Done, InOrder, HookPlaces
<1>3. ASSUME Rounds("MainHybrid") # 0
      PROVE  /\ DOMAIN tracks = DOMAIN frame.tracks
             /\ DOMAIN clusters = {c \in DOMAIN frame.clusters : frame.clusters[c].bank # "SSTC"}
  <2>1. 5 < Place(writer) /\ 4 < Place(writer)
    BY <1>1, <1>2, <1>3, InOrder, Places DEF Hooks
  <2>2. Rounds("ShowerHybrid") = 1
    BY <1>1, <2>1, Done, Places, Limits DEF Hooks
  <2> QED BY <1>1, <2>1, <2>2, TracksComplete DEF ShowersFollow
<1>4. ASSUME NEW w \in Hooks, 6 < Place(w), Rounds(w) # 0
      PROVE  DOMAIN particles = DOMAIN frame.particles /\ DOMAIN tracks = DOMAIN frame.tracks
  <2>1. 6 < Place(writer) /\ 4 < Place(writer)
    BY <1>1, <1>2, <1>4, InOrder, HookPlaces
  <2> QED BY <1>1, <2>1, TracksComplete, ParticlesComplete
<1>5. writer = "VertexHybrid" => DOMAIN particles = DOMAIN frame.particles
  BY <1>1, ParticlesComplete, Places
<1> QED BY <1>3, <1>4, <1>5

LEMMA ParticlesTyped ==
  ASSUME IInv, CopyHolds
  PROVE  particles \in Seq([pa : Nat, track : DOMAIN tracks \cup {0},
                            clusters : SUBSET DOMAIN clusters])
<1> DEFINE R == [pa : Nat, track : DOMAIN tracks \cup {0}, clusters : SUBSET DOMAIN clusters]
           C(q) == [pa |-> frame.particles[q].pa, track |-> frame.particles[q].track,
                    clusters |-> ClustersOf(q)]
           n == Rounds("MainHybrid")
<1>1. /\ n \in 0 .. Len(frame.particles)
      /\ Len(frame.particles) \in Nat /\ DOMAIN frame.particles = 1 .. Len(frame.particles)
  BY RoundsInRange, Limits, Lengths DEF CopyHolds, Hooks
<1>2. ASSUME NEW q \in 1 .. n PROVE C(q) \in R
  <2>1. /\ DOMAIN tracks = DOMAIN frame.tracks
        /\ DOMAIN clusters = {c \in DOMAIN frame.clusters : frame.clusters[c].bank # "SSTC"}
    BY <1>1, ClonesComplete
  <2>2. q \in DOMAIN frame.particles
    BY <1>1
  <2>3. ClustersOf(q) \subseteq DOMAIN clusters
    BY <2>1 DEF ClustersOf
  <2> QED BY <2>1, <2>2, <2>3, ParticleShape
<1>3. particles = [q \in 1 .. n |-> C(q)]
  BY DEF CopyHolds, ClonesFollow, ParticlesFollow
<1> HIDE DEF R, C, n
<1>4. particles \in Seq(R)
  BY <1>1, <1>2, <1>3
<1> QED BY <1>4 DEF R

LEMMA VerticesTyped ==
  ASSUME IInv, CopyHolds
  PROVE  vertices \in Seq(Seq(DOMAIN particles)) /\ dv \in Seq(DOMAIN particles)
         /\ sp \in Nat \ {0}
<1>1. VerticesFollow
  BY DEF CopyHolds, ClonesFollow
<1>2. /\ Rounds("VertexHybrid") \in 0 .. Len(frame.vertices)
      /\ Len(frame.vertices) \in Nat /\ DOMAIN frame.vertices = 1 .. Len(frame.vertices)
  BY RoundsInRange, Limits, Lengths DEF CopyHolds, Hooks
<1>3. vertices \in Seq(Seq(DOMAIN particles))
  <2> DEFINE n == Rounds("VertexHybrid")
             Q == Seq(DOMAIN particles)
  <2>1. ASSUME NEW v \in 1 .. n PROVE frame.vertices[v] \in Q
    <3>1. v \in DOMAIN frame.vertices /\ n # 0
      BY <1>2
    <3>2. DOMAIN particles = DOMAIN frame.particles
      BY <3>1, ClonesComplete, Places DEF Hooks
    <3> QED BY <3>1, <3>2, VertexShape
  <2>2. vertices = [v \in 1 .. n |-> frame.vertices[v]]
    BY <1>1 DEF VerticesFollow
  <2> HIDE DEF n, Q
  <2>3. n \in Nat
    BY <1>2 DEF n
  <2>4. vertices \in Seq(Q)
    BY <2>1, <2>2, <2>3
  <2> QED BY <2>4 DEF Q
<1>4. sp \in Nat \ {0} /\ dv = [k \in 1 .. sp - 1 |-> frame.vertices[at][k]]
  BY <1>1 DEF VerticesFollow
<1>5. dv \in Seq(DOMAIN particles)
  <2>1. CASE sp = 1
    <3>1. dv = <<>>
      BY <1>4, <2>1
    <3> QED BY <3>1
  <2>2. CASE sp # 1
    <3>1. /\ writer = "VertexHybrid" /\ at \in DOMAIN frame.vertices
          /\ sp - 1 <= Len(frame.vertices[at])
      <4>1. /\ writer = "VertexHybrid" /\ at <= Len(frame.vertices)
            /\ sp <= Len(frame.vertices[at]) + 1
        BY <1>1, <2>2 DEF VerticesFollow
      <4>2. at \in DOMAIN frame.vertices
        BY <1>2, <4>1, Lengths
      <4> QED BY <1>4, <4>1, <4>2, VertexShape
    <3>2. ASSUME NEW k \in 1 .. sp - 1 PROVE frame.vertices[at][k] \in DOMAIN particles
      <4>1. k \in DOMAIN frame.vertices[at]
        BY <1>4, <3>1, VertexShape
      <4> QED BY <3>1, <4>1, VertexShape, ClonesComplete
    <3>3. sp - 1 \in Nat
      BY <1>4
    <3> QED BY <1>4, <3>2, <3>3
  <2> QED BY <2>1, <2>2
<1> QED BY <1>3, <1>4, <1>5

LEMMA RowsTyped ==
  ASSUME IInv, CopyHolds
  PROVE  /\ \A r \in rows \cup clonedRows :
              r.particle \in DOMAIN particles \cup {0} /\ r.track \in DOMAIN tracks \cup {0}
         /\ \A l \in links : l.particle \in DOMAIN particles \cup {0}
         /\ btagVertex \subseteq DOMAIN particles
<1>1. /\ "Tof" \in Hooks /\ "Mtpc" \in Hooks /\ "PaPidExtras" \in Hooks /\ "Btag" \in Hooks
      /\ "PidHybrid" \in Hooks /\ "TblHybrid" \in Hooks
      /\ 6 < Place("Tof") /\ 6 < Place("Mtpc") /\ 6 < Place("PaPidExtras") /\ 6 < Place("Btag")
      /\ 6 < Place("PidHybrid") /\ 6 < Place("TblHybrid")
  BY Places DEF Hooks
<1>2. /\ RelationsFollow /\ RowsFollow /\ InStep
  BY DEF CopyHolds, ClonesFollow
<1>3. ASSUME NEW r \in clonedRows
      PROVE  r.particle \in DOMAIN particles /\ r.track \in DOMAIN tracks \cup {0}
  <2>1. r \in frame.rows /\ Rounds("PidHybrid") = 1
    BY <1>2 DEF RelationsFollow
  <2>2. r.particle \in DOMAIN frame.particles /\ r.track \in DOMAIN frame.tracks \cup {0}
    <3>1. r \in [bank : {"HAID", "MUID", "ELID", "DEDX"}, pa : Nat, source : Nat,
                 particle : DOMAIN frame.particles, track : DOMAIN frame.tracks \cup {0},
                 flag : Nat]
      BY <2>1, Lengths DEF FrameShape
    <3> QED BY <3>1
  <2> QED BY <1>1, <2>1, <2>2, ClonesComplete
<1>4. ASSUME NEW l \in links PROVE l.particle \in DOMAIN particles
  <2>1. l \in frame.links /\ Rounds("TblHybrid") = 1
    BY <1>2 DEF RelationsFollow
  <2>2. l \in [particle : DOMAIN frame.particles, vecp : Nat]
    BY <2>1, Lengths DEF FrameShape
  <2> QED BY <1>1, <2>1, <2>2, ClonesComplete
\* A row of module bank, written by w.
<1>5. ASSUME NEW w \in {"Tof", "Mtpc", "PaPidExtras"}, NEW bank, NEW r \in PaRows(bank, Rounds(w))
      PROVE  r.particle \in DOMAIN particles /\ r.track \in DOMAIN tracks \cup {0}
  <2>1. w \in Hooks /\ 6 < Place(w) /\ Rounds(w) \in 0 .. Len(event.pa)
    BY <1>1, <1>2, RoundsInRange, Limits
  <2>2. PICK p \in 1 .. Rounds(w) :
          /\ r.particle = paToParticle[p] /\ paToParticle[p] # 0
          /\ r.track = IF bank = "MTPC" THEN frame.particles[paToParticle[p]].track ELSE 0
    BY DEF PaRows
  <2>3. p \in DOMAIN event.pa /\ Rounds(w) # 0
    BY <2>1, Lengths
  <2>4. DOMAIN particles = DOMAIN frame.particles /\ DOMAIN tracks = DOMAIN frame.tracks
    BY <2>1, <2>3, ClonesComplete
  <2>5. 1 < Place(writer)
    <3>1. ~(Place(writer) < Place(w))
      BY <1>2, <2>1, <2>3, Done
    <3>2. Place(writer) \in 1 .. 14 /\ Place(w) \in 1 .. 13
      BY <1>2, <2>1, InOrder, HookPlaces
    <3>3. 6 < Place(w)
      BY <2>1
    <3> QED BY <3>1, <3>2, <3>3
  <2>6. p \in DOMAIN paToTrack
    BY <1>2, <2>3, <2>5, MapsComplete
  <2>7. r.particle \in DOMAIN frame.particles
    BY <2>2, <2>6, MapsLead
  <2>8. frame.particles[r.particle].track \in {0} \cup DOMAIN frame.tracks
    BY <2>7, ParticleShape
  <2> QED BY <2>2, <2>4, <2>7, <2>8
<1>6. ASSUME NEW k \in 1 .. Rounds("Btag")
      PROVE  paToParticle[event.aabtag[k].pa] \in DOMAIN particles \cup {0}
  <2>1. Rounds("Btag") \in 0 .. Len(event.aabtag)
    BY <1>1, <1>2, RoundsInRange, Limits
  <2>2. event.aabtag[k].pa \in DOMAIN event.pa /\ Rounds("Btag") # 0
    BY <2>1, AabtagShape, Lengths
  <2>3. DOMAIN particles = DOMAIN frame.particles
    BY <1>1, <2>2, ClonesComplete
  <2>4. 1 < Place(writer)
    BY <1>1, <1>2, <2>2, Done, InOrder, HookPlaces
  <2>5. event.aabtag[k].pa \in DOMAIN paToTrack
    BY <1>2, <2>2, <2>4, MapsComplete
  <2> QED BY <2>3, <2>5, MapsLead
<1>7. ASSUME NEW r \in AabtagRows(Rounds("Btag"))
      PROVE  r.particle \in DOMAIN particles \cup {0} /\ r.track = 0
  BY <1>6 DEF AabtagRows
<1>8. ASSUME NEW r \in rows
      PROVE  r.particle \in DOMAIN particles \cup {0} /\ r.track \in DOMAIN tracks \cup {0}
  <2>1. \/ r \in PaRows("TOF", Rounds("Tof")) \/ r \in PaRows("MTPC", Rounds("Mtpc"))
        \/ r \in PaRows("MU", Rounds("PaPidExtras")) \/ r \in AabtagRows(Rounds("Btag"))
    BY <1>2 DEF RowsFollow
  <2> QED BY <2>1, <1>5, <1>7
<1>9. btagVertex \subseteq DOMAIN particles
  BY <1>2, <1>6 DEF RowsFollow
<1> QED BY <1>3, <1>4, <1>8, <1>9

\* No index pass 2 keeps is outside what it indexes.
THEOREM TypesHold == Spec => []TypeOK
<1>1. ASSUME IInv, CopyHolds PROVE TypeOK
  <2> DEFINE Object == [pa : DOMAIN event.pa, n : Nat]
  <2>1. /\ EventShape(event) /\ at \in Nat \ {0}
        /\ provenance \in [DOMAIN frame.particles -> {-1, 0, 1}]
    BY <1>1 DEF IInv, MapsFollowTheWalk
  <2>2. writer \in {Writers[k] : k \in DOMAIN Writers} \cup {"done", "refused"}
    BY <1>1 DEF CopyHolds, InStep
  <2>3. /\ paToTrack \in Seq(DOMAIN frame.tracks \cup {0})
        /\ paToParticle \in Seq(DOMAIN frame.particles \cup {0})
    <3>1. /\ paToTrack \in Seq(Nat) /\ paToParticle \in Seq(Nat)
          /\ DOMAIN paToTrack = DOMAIN paToParticle
      BY <1>1 DEF IInv, MapsFollowTheWalk
    <3>2. \A p \in DOMAIN paToTrack : /\ paToTrack[p] \in DOMAIN frame.tracks \cup {0}
                                      /\ paToParticle[p] \in DOMAIN frame.particles \cup {0}
      BY <1>1, MapsLead
    <3> QED BY <3>1, <3>2
  <2>4. /\ trackElements \in Seq([segments : Seq(Object), planes : Seq(Object)])
        /\ trax \in Seq(Seq(Object))
    BY <1>1, FeedsTyped
  <2>5. tracks \in Seq([pa : Nat, segments : SUBSET Object, planes : SUBSET Object,
                        states : SUBSET Object, atVertex : SUBSET DOMAIN event.aabtag])
    BY <1>1, TracksTyped
  <2> QED BY <1>1, <2>1, <2>2, <2>3, <2>4, <2>5, ParticlesTyped, VerticesTyped, RowsTyped
          DEF TypeOK
<1> QED BY <1>1, MatchInvariance, CopiesFollow, PTL
=============================================================================
