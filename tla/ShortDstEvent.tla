---------------------------- MODULE ShortDstEvent ----------------------------
(***************************************************************************)
(* What pass 1 does with one event: the on_event hook of                   *)
(* bin/delphi_sdst_pass.cpp runs the writers in a fixed order, and they    *)
(* hand each other index maps through EventContext.  Four orders meet:     *)
(* the position of a PA in the walk over the vertices, the index of a      *)
(* particle in VECP (SKELANA puts the charged ones first), the index of a  *)
(* particle in MAIN_Particles and the index of a track in TRAC_Tracks.     *)
(*                                                                         *)
(* The event is any of the records in Events; a writer takes one step per  *)
(* PA, per VECP index, per vertex or per AABTAG track it loops over.       *)
(* Every object created carries, in the field pa, the PA its content was   *)
(* read from; the code has no such field, the properties compare with it.  *)
(* Indices start at 1, and 0 stands for the code's -1 and "no match".      *)
(* Energies, positions and parameters are left out.                        *)
(***************************************************************************)
EXTENDS Integers, Sequences, FiniteSets, EventVectors, PassOneFrame

CONSTANTS
  Events,             \* the events on_event may be given
  MaxRecoVertices,    \* kMaxRecoVertices, 150 in the code
  MaxHpcLayers        \* kMaxHpcLayers, 10 in the code

\* PA.MAIN word 8: no PA.MAIN; code 0; code 1 or 2; code 3, of unknown sign.
Codes == {"absent", "neutral", "signed", "unsigned"}

\* PA.TRAC: absent, with a degenerate theta, or giving a valid helix.
Tracs == {"absent", "degenerate", "valid"}

\* Modules that become one ParticleID row per PA.
PaBanks == {"PHOT", "ELTR", "MTPC", "TOF", "MU"}

\* SKELANA words that become one ParticleID row per VECP index.
ChargedBanks == {"DEDX", "MUID", "ELID", "XNEWTAG", "HAIDVD"}

(***************************************************************************)
(* One PA: its charge code and track, its track elements, plane hits and   *)
(* extrapolated points, the hits EMCA has for each of its showers, the     *)
(* showers each calorimeter module lists, whether EMNC is of the HPC and   *)
(* its layers (number and bit pattern), and the modules the PID writers    *)
(* read.                                                                   *)
(***************************************************************************)
Pa == [code : Codes, trac : Tracs, segments : Nat, planes : Nat, points : Nat,
       emca : Seq(Nat), emnc : Nat, hcnc : Nat, hcal : Nat,
       hpc : BOOLEAN, nlay : Nat, patt : SUBSET (1 .. MaxHpcLayers), banks : SUBSET PaBanks]

\* One entry of VECP: the PA LVECP links it to (0: none), is VECP(7) nonzero,
\* its Vertex Detector hits, SKELANA words and simulated track.
Vecp(n) == [pa : 0 .. n, charged : BOOLEAN, nasht : Nat,
            banks : SUBSET (ChargedBanks \cup {"PI0", "STIC"}), simulated : BOOLEAN]

EventShape(e) ==
  /\ e.pa \in Seq(Pa)
  /\ e.nlpv \in Nat
  /\ e.lpv \in [DOMAIN e.pa -> 1 .. e.nlpv]             \* the vertex of each PA
  /\ \A i, j \in DOMAIN e.pa : i <= j => e.lpv[i] <= e.lpv[j]
  /\ e.plain \in BOOLEAN                                \* first vertex neither dummy nor secondary
  /\ e.nvtx \in 0 .. MaxRecoVertices                    \* usable PSCVTX entries
  /\ e.vecp \in Seq(Vecp(Len(e.pa)))
  \* The first ncvecp entries were charged when SKELANA ordered them (IFLODR = 1);
  \* VECP(7) and PA.MAIN may disagree, for PSHCTRECOVER reclassifies.
  /\ e.ncvecp \in 0 .. Len(e.vecp)
  /\ \A i \in 1 .. e.ncvecp :
       e.vecp[i].charged \/ (e.vecp[i].pa # 0 => e.pa[e.vecp[i].pa].code # "neutral")
  /\ e.nvtxmc \in Nat
  /\ e.decays \in Seq(Nat \X Nat)                       \* V0s and conversions: VECP daughters
  \* AABTAG's tracks, none if its status is not valid: charged, each PA once.
  /\ e.aabtag \in Seq([pa : DOMAIN e.pa, attached : BOOLEAN])
  /\ \A t \in DOMAIN e.aabtag :
       /\ e.pa[e.aabtag[t].pa].code # "neutral"
       /\ \A u \in DOMAIN e.aabtag : e.aabtag[t].pa = e.aabtag[u].pa => t = u

ASSUME EventAssumption ==
  /\ MaxRecoVertices \in Nat
  /\ MaxHpcLayers \in Nat
  /\ \A e \in Events : EventShape(e)

VARIABLES
  event,
  writer,             \* whose emit() is running
  at,                 \* where its loop is
  trackElements,      \* ctx.track_elements: PA -> segments and plane hits
  trax,               \* ctx.trax: PA -> extrapolated states
  vecpToHits,         \* ctx.vd_hits: VECP index -> hits
  tracks,             \* TRAC_Tracks
  particles,          \* MAIN_Particles
  words,              \* the columns parallel to MAIN_Particles
  columns,            \* the QTRAC columns parallel to TRAC_Tracks
  vecpToParticle,     \* ctx.tracking: VECP index -> particle
  paToParticle,       \* ctx.tracking: PA -> particle
  links,              \* TBL_RecoToMC
  vertices,           \* PV_Vertices
  primaryVertex,      \* PV_PrimaryVertex
  lpa, paIdx,         \* the PA VertexWriter is at (0: end of chain), its running counter
  decays,             \* V0_V0Candidates and PHC_PhotonConversions
  impact,             \* the PV columns parallel to TRAC_Tracks
  showerHits,         \* ctx.emca: PA -> shower -> hits
  clusters,           \* EMNC_, HCNC_ and HCAL_Showers
  quality,            \* particle -> the dE/dx quality flag
  rows,               \* the ParticleID rows of every collection
  btagVertex          \* particles of AABTAG_PrimaryVertex

feeds == <<trackElements, trax, vecpToHits>>
tracking == <<tracks, particles, words, columns, vecpToParticle, paToParticle>>
vertexing == <<vertices, primaryVertex, lpa, paIdx, decays, impact>>
calorimetry == <<showerHits, clusters>>
identity == <<quality, rows, btagVertex>>
vars == <<event, writer, at, feeds, tracking, links, vertexing, calorimetry, identity>>

-----------------------------------------------------------------------------
(***************************************************************************)
(* The writers in the order of on_event.  A writer with several loops has  *)
(* an entry per loop.                                                      *)
(***************************************************************************)
Writers == <<"TrackElements", "Trax", "VdHits", "Tracking", "TruthRecoLink",
             "Vertex", "WireVertex", "DecayVertex", "VertexTail",
             "Emca", "Calorimeter", "DedxQuality", "ParticleId", "SdstPaExtras",
             "SticShower", "EltrSdst", "PidExtrasSdst", "Pi0", "Mtpc", "Tof",
             "PaPidExtras", "Btag">>

PaWalkers == {"TrackElements", "Trax", "Tracking", "Emca", "Calorimeter", "DedxQuality",
              "SdstPaExtras", "EltrSdst", "Mtpc", "Tof", "PaPidExtras"}

Min(a, b) == IF a <= b THEN a ELSE b

\* The bound of the loop of writer w.
Limit(w) ==
  CASE w \in PaWalkers                                 -> Len(event.pa)
    [] w \in {"VdHits", "ParticleId", "PidExtrasSdst"} -> event.ncvecp
    [] w \in {"TruthRecoLink", "SticShower", "Pi0"}    -> Len(event.vecp)
    [] w = "WireVertex"                                -> Len(vertices)
    [] w = "DecayVertex"                               -> Len(event.decays)
    [] w = "Btag"                                      -> Len(event.aabtag)
    [] OTHER                                           -> 1

\* One round of the loop of writer w.
Round(w) == /\ writer = w
            /\ at <= Limit(w)
            /\ at' = at + 1
            /\ UNCHANGED <<event, writer>>
-----------------------------------------------------------------------------
Init ==
  /\ event \in Events
  /\ writer = "TrackElements"
  /\ at = 1
  /\ trackElements = <<>> /\ trax = <<>> /\ vecpToHits = <<>>
  /\ tracks = <<>> /\ particles = <<>> /\ words = <<>> /\ columns = <<>>
  /\ vecpToParticle = [i \in DOMAIN event.vecp |-> 0]
  /\ paToParticle = <<>>
  /\ links = {}
  /\ vertices = <<>> /\ primaryVertex = <<>> /\ lpa = 0 /\ paIdx = 0 /\ decays = <<>> /\ impact = <<>>
  /\ showerHits = <<>> /\ clusters = <<>>
  /\ quality = <<>> /\ rows = {} /\ btagVertex = {}

\* A writer whose loop is over puts its collections; the next one starts.
NextWriter ==
  /\ writer \in {Writers[k] : k \in DOMAIN Writers}
  /\ at > Limit(writer)
  /\ writer' = LET k == CHOOSE k \in DOMAIN Writers : Writers[k] = writer
               IN  IF k = Len(Writers) THEN "done" ELSE Writers[k + 1]
  /\ at' = 1
  /\ UNCHANGED <<event, feeds, tracking, links, vertexing, calorimetry, identity>>

-----------------------------------------------------------------------------
(***************************************************************************)
(* What Tracking needs while its tracks are still mutable: track elements, *)
(* extrapolated points and Vertex Detector hits.                           *)
(***************************************************************************)
TrackElementsPa ==
  /\ Round("TrackElements")
  /\ trackElements' = Put(trackElements, at,
                          [segments |-> Objects(at, event.pa[at].segments),
                           planes   |-> Objects(at, event.pa[at].planes)],
                          [segments |-> <<>>, planes |-> <<>>])
  /\ UNCHANGED <<trax, vecpToHits, tracking, links, vertexing, calorimetry, identity>>

TraxPa ==
  /\ Round("Trax")
  /\ trax' = Put(trax, at, Objects(at, event.pa[at].points), <<>>)
  /\ UNCHANGED <<trackElements, vecpToHits, tracking, links, vertexing, calorimetry, identity>>

\* The hits of charged track at, which belong to the PA of VECP index at.
VdHitsTrack ==
  /\ Round("VdHits")
  /\ vecpToHits' = Put(vecpToHits, at,
                       Objects(event.vecp[at].pa, event.vecp[at].nasht), <<>>)
  /\ UNCHANGED <<trackElements, trax, tracking, links, vertexing, calorimetry, identity>>

-----------------------------------------------------------------------------
(***************************************************************************)
(* Tracking: at most one particle per PA, and a track if it is charged.    *)
(***************************************************************************)
MutPastEnd(p, charged) ==
  LET M == {i \in DOMAIN event.vecp : event.vecp[i].pa = p /\ event.vecp[i].charged = charged}
  IN  IF M = {} THEN Len(event.vecp) + 1 ELSE CHOOSE i \in M : \A j \in M : i <= j

\* find_vecp_index: the first VECP index of PA p with the charge wanted.
VecpIndex(p, charged) ==
  LET M == {i \in DOMAIN event.vecp : event.vecp[i].pa = p /\ event.vecp[i].charged = charged}
  IN  IF M = {} THEN 0 ELSE CHOOSE i \in M : \A j \in M : i <= j

MutSkipsLeaveNoHole(particle) ==
  IF particle = 0 THEN paToParticle ELSE Append(paToParticle, particle)

\* The entry of the PA being walked, as record_particle and mark_pa_skipped set it.
PaEntry(particle) == Put(paToParticle, at, particle, 0)

\* record_particle: both maps lead to the particle about to be appended.
RecordParticle(i) ==
  /\ paToParticle' = PaEntry(Len(particles) + 1)
  /\ vecpToParticle' = IF i = 0 THEN vecpToParticle
                       ELSE [vecpToParticle EXCEPT ![i] = Len(particles) + 1]

\* push_particle_words: LVLOCK of VECP index i (none: -1), words of this PA.
PushWords(i) == words' = Append(words, [pa |-> at, vecp |-> i])

MutByPaPosition(i) == IF i >= 1 THEN Get(vecpToHits, at, <<>>) ELSE <<>>

\* The Vertex Detector hits of VECP index i.
VdHits(i) == IF i >= 1 THEN Get(vecpToHits, i, <<>>) ELSE <<>>

MutAttachedOnly(p) ==
  LET T == {t \in DOMAIN event.aabtag : event.aabtag[t].pa = p /\ event.aabtag[t].attached}
  IN  IF T = {} THEN 0 ELSE CHOOSE t \in T : \A u \in T : t <= u

\* lpaToTrack: the first AABTAG track with the address of PA p.
LpaToTrack(p) ==
  LET T == {t \in DOMAIN event.aabtag : event.aabtag[t].pa = p}
  IN  IF T = {} THEN 0 ELSE CHOOSE t \in T : \A u \in T : t <= u

\* A PA without MAIN, a neutral one without VECP entry, a charged one without
\* a usable TRAC: nothing is emitted for it.
SkippedPa ==
  /\ Round("Tracking")
  /\ \/ event.pa[at].code = "absent"
     \/ event.pa[at].code = "neutral" /\ VecpIndex(at, FALSE) = 0
     \/ event.pa[at].code \in {"signed", "unsigned"} /\ event.pa[at].trac # "valid"
  /\ paToParticle' = PaEntry(0)
  /\ UNCHANGED <<feeds, tracks, particles, words, columns, vecpToParticle,
                 links, vertexing, calorimetry, identity>>

MutNeutralPushesColumns ==
  LET i == VecpIndex(at, FALSE) IN
  /\ Round("Tracking")
  /\ event.pa[at].code = "neutral"
  /\ i # 0
  /\ particles' = Append(particles, [pa |-> at, vecp |-> i, charge |-> "neutral",
                                     momentum |-> "vecp", track |-> 0])
  /\ RecordParticle(i)
  /\ PushWords(i)
  /\ columns' = Append(columns, i)
  /\ UNCHANGED <<feeds, tracks, links, vertexing, calorimetry, identity>>

NeutralPa ==
  LET i == VecpIndex(at, FALSE) IN
  /\ Round("Tracking")
  /\ event.pa[at].code = "neutral"
  /\ i # 0
  /\ particles' = Append(particles, [pa |-> at, vecp |-> i, charge |-> "neutral",
                                     momentum |-> "vecp", track |-> 0])
  /\ RecordParticle(i)
  /\ PushWords(i)
  /\ UNCHANGED <<feeds, tracks, columns, links, vertexing, calorimetry, identity>>

\* A charged PA: a track with everything read from the PA or from its VECP
\* index, and a particle, with zero momentum if it has no VECP index.
ChargedPa ==
  LET i  == VecpIndex(at, TRUE)
      te == Get(trackElements, at, [segments |-> <<>>, planes |-> <<>>])
  IN
  /\ Round("Tracking")
  /\ event.pa[at].code \in {"signed", "unsigned"}
  /\ event.pa[at].trac = "valid"
  /\ tracks' = Append(tracks, [pa       |-> at,
                               segments |-> te.segments,
                               states   |-> Get(trax, at, <<>>),
                               hits     |-> te.planes \o VdHits(i),
                               atVertex |-> LpaToTrack(at)])
  /\ particles' = Append(particles, [pa |-> at, vecp |-> i, charge |-> event.pa[at].code,
                                     momentum |-> IF i = 0 THEN "zero" ELSE "vecp",
                                     track |-> Len(tracks) + 1])
  /\ RecordParticle(i)
  /\ PushWords(i)
  /\ columns' = Append(columns, i)
  /\ UNCHANGED <<feeds, links, vertexing, calorimetry, identity>>

\* TruthRecoLink: VECP index at has a particle and a simulated track.
LinkTruth ==
  /\ Round("TruthRecoLink")
  /\ links' = IF vecpToParticle[at] # 0 /\ event.vecp[at].simulated
              THEN links \cup {[particle |-> vecpToParticle[at], vecp |-> at]}
              ELSE links
  /\ UNCHANGED <<feeds, tracking, vertexing, calorimetry, identity>>

-----------------------------------------------------------------------------
(***************************************************************************)
(* Vertex: the reconstructed vertices come from PSCVTX if it is usable and *)
(* from the chain of LPV banks otherwise, their outgoing particles always  *)
(* from the chain, by position.                                            *)
(***************************************************************************)
ChainLength == Min(event.nlpv, MaxRecoVertices)

RecoVertices == IF event.nvtx >= 1 THEN event.nvtx ELSE ChainLength

\* Vertices and chain differ in length: runtime_error, the event is given up.
VertexRefuses ==
  /\ writer = "Vertex" /\ at = 1
  /\ RecoVertices # ChainLength
  /\ writer' = "refused"
  /\ UNCHANGED <<event, at, feeds, tracking, links, vertexing, calorimetry, identity>>

\* particleForPa and its like: the particle of PA p, 0 if it has none.
ParticleForPa(p) == Get(paToParticle, p, 0)

\* LQ(lpv-1) and LQ(lpa): the first PA under vertex v, and the one after PA p
\* under its vertex.
FirstPa(v) ==
  LET P == {p \in DOMAIN event.pa : event.lpv[p] = v}
  IN  IF P = {} THEN 0 ELSE CHOOSE p \in P : \A r \in P : p <= r

NextPa(p) == IF p + 1 \in DOMAIN event.pa /\ event.lpv[p + 1] = event.lpv[p] THEN p + 1 ELSE 0

VertexReco ==
  /\ Round("Vertex")
  /\ RecoVertices = ChainLength
  /\ vertices' = [v \in 1 .. RecoVertices |->
                    [kind |-> IF v = 1 /\ event.plain THEN "primary" ELSE "other",
                     particles |-> <<>>]]
  /\ lpa' = FirstPa(1)
  /\ UNCHANGED <<feeds, tracking, links, primaryVertex, paIdx, decays, impact,
                 calorimetry, identity>>

MutCountsLinkedPas == paIdx' = IF ParticleForPa(paIdx + 1) # 0 THEN paIdx + 1 ELSE paIdx

CountPa == paIdx' = paIdx + 1

\* One PA under vertex at: its particle is outgoing.  The PA is that of the
\* chain, the particle that of the running counter.
WirePa ==
  LET q == ParticleForPa(paIdx + 1) IN
  /\ writer = "WireVertex" /\ at <= Limit(writer) /\ lpa # 0
  /\ vertices' = IF q = 0 THEN vertices
                 ELSE [vertices EXCEPT ![at].particles = Append(@, q)]
  /\ CountPa
  /\ lpa' = NextPa(lpa)
  /\ UNCHANGED <<event, writer, at, feeds, tracking, links, primaryVertex, decays, impact,
                 calorimetry, identity>>

\* All PAs under vertex at are through: the primary vertex is also kept apart,
\* with the same particles.
WireVertex ==
  /\ lpa = 0
  /\ Round("WireVertex")
  /\ primaryVertex' = IF vertices[at].kind = "primary"
                      THEN primaryVertex \o vertices[at].particles ELSE primaryVertex
  /\ lpa' = FirstPa(at + 1)
  /\ UNCHANGED <<feeds, tracking, links, vertices, paIdx, decays, impact,
                 calorimetry, identity>>

\* add_particle_by_vecp: nothing for a VECP index out of range or without particle.
Daughter(i) ==
  IF i \in DOMAIN vecpToParticle /\ vecpToParticle[i] # 0
  THEN <<[vecp |-> i, particle |-> vecpToParticle[i]]>> ELSE <<>>

\* The two daughters of a V0 or photon conversion.
DecayVertex ==
  /\ Round("DecayVertex")
  /\ decays' = Append(decays, Daughter(event.decays[at][1]) \o Daughter(event.decays[at][2]))
  /\ UNCHANGED <<feeds, tracking, links, vertices, primaryVertex, lpa, paIdx, impact,
                 calorimetry, identity>>

\* The simulated primary vertex joins PV_Vertices, and each track of the frame
\* gets its impact flag: was there a primary vertex to measure against?
VertexTail ==
  /\ Round("VertexTail")
  /\ vertices' = IF event.nvtxmc >= 1
                 THEN Append(vertices, [kind |-> "simulated", particles |-> <<>>])
                 ELSE vertices
  /\ impact' = [t \in DOMAIN tracks |-> \E v \in DOMAIN vertices : vertices[v].kind = "primary"]
  /\ UNCHANGED <<feeds, tracking, links, primaryVertex, lpa, paIdx, decays, calorimetry, identity>>

-----------------------------------------------------------------------------
(***************************************************************************)
(* Calorimeters: EMCA gives the hits of the showers EMNC lists.            *)
(***************************************************************************)
Hits(p, shower, n) == [k \in 1 .. n |-> [pa |-> p, shower |-> shower, n |-> k]]

MutDropsEmptyShowers(p) ==
  SelectSeq([s \in DOMAIN event.pa[p].emca |-> Hits(p, s, event.pa[p].emca[s])],
            LAMBDA hits : hits # <<>>)

\* record(): the list of showers of PA p is as long as its last shower with a hit.
RecordedHits(p) ==
  LET emca == event.pa[p].emca
      last == CHOOSE s \in 0 .. Len(emca) :
                /\ s = 0 \/ emca[s] > 0
                /\ \A k \in DOMAIN emca : emca[k] > 0 => k <= s
  IN  [s \in 1 .. last |-> Hits(p, s, emca[s])]

EmcaPa ==
  /\ Round("Emca")
  /\ showerHits' = IF RecordedHits(at) = <<>> THEN showerHits
                   ELSE Put(showerHits, at, RecordedHits(at), <<>>)
  /\ UNCHANGED <<feeds, tracking, links, vertexing, clusters, identity>>

\* The layer loop of walkEMNC runs until nlay layers of the pattern are filled:
\* the number of layers it writes.
ProfileLength(nlay, patt) ==
  IF nlay \notin 1 .. MaxHpcLayers THEN 0
  ELSE CHOOSE l \in 1 .. MaxHpcLayers :
         LET filled(m) == Cardinality({k \in patt : k <= m}) IN
         /\ l = MaxHpcLayers \/ filled(l) = nlay
         /\ \A m \in 1 .. l - 1 : filled(m) # nlay

\* walkEMNC, walkHCNC and walkHCAL for PA p with particle q.
EmncShowers(p, q) ==
  [s \in 1 .. event.pa[p].emnc |->
     [bank |-> "EMNC", pa |-> p, shower |-> s, particle |-> q,
      hits |-> Get(Get(showerHits, p, <<>>), s, <<>>), hpc |-> event.pa[p].hpc,
      layers |-> IF event.pa[p].hpc THEN ProfileLength(event.pa[p].nlay, event.pa[p].patt)
                 ELSE 0]]

HadronShowers(bank, n, p, q) ==
  [s \in 1 .. n |-> [bank |-> bank, pa |-> p, shower |-> s, particle |-> q,
                     hits |-> <<>>, hpc |-> FALSE, layers |-> 0]]

\* The showers of a PA become clusters of its particle.
CalorimeterPa ==
  LET q == ParticleForPa(at) IN
  /\ Round("Calorimeter")
  /\ clusters' = IF q = 0 THEN clusters
                 ELSE clusters \o EmncShowers(at, q)
                               \o HadronShowers("HCNC", event.pa[at].hcnc, at, q)
                               \o HadronShowers("HCAL", event.pa[at].hcal, at, q)
  /\ UNCHANGED <<feeds, tracking, links, vertexing, showerHits, identity>>

-----------------------------------------------------------------------------
(***************************************************************************)
(* Particle identification: rows of words kept per PA or per VECP index.   *)
(***************************************************************************)

\* A row of collection bank, read from PA p (source tells rows of one PA apart).
Row(bank, p, source, particle, track, flag) ==
  [bank |-> bank, pa |-> p, source |-> source, particle |-> particle,
   track |-> track, flag |-> flag]

\* dedxQuality: the flag of the particle of PA at, if the PA has a dE/dx.
DedxQualityPa ==
  LET q == ParticleForPa(at) IN
  /\ Round("DedxQuality")
  /\ quality' = IF q # 0 /\ "MTPC" \in event.pa[at].banks THEN Put(quality, q, at, 0)
                ELSE quality
  /\ UNCHANGED <<feeds, tracking, links, vertexing, calorimetry, rows, btagVertex>>

MutChargedOrdinal(i) == IF i \in DOMAIN tracks
                        THEN CHOOSE q \in DOMAIN particles : particles[q].track = i
                        ELSE 0

\* The particle of VECP index i.
ParticleForVecp(i) == vecpToParticle[i]

\* The charged rows of VECP index at: one per word SKELANA has, and the hadron
\* identification always; the dE/dx row also refers to the track.
ParticleIdTrack ==
  LET q == ParticleForVecp(at)
      v == event.vecp[at]
  IN
  /\ Round("ParticleId")
  /\ rows' = IF q = 0 THEN rows
             ELSE rows \cup {Row(b, v.pa, at, q, 0, 0) :
                               b \in (v.banks \cap {"MUID", "ELID"}) \cup {"HAID"}}
                       \cup {Row(b, v.pa, at, q, particles[q].track, Get(quality, q, 0)) :
                               b \in v.banks \cap {"DEDX"}}
  /\ UNCHANGED <<feeds, tracking, links, vertexing, calorimetry, quality, btagVertex>>

PidExtrasSdstTrack ==
  LET q == ParticleForVecp(at)
      v == event.vecp[at]
  IN
  /\ Round("PidExtrasSdst")
  /\ rows' = IF q = 0 THEN rows
             ELSE rows \cup {Row(b, v.pa, at, q, 0, 0) :
                               b \in v.banks \cap {"XNEWTAG", "HAIDVD"}}
  /\ UNCHANGED <<feeds, tracking, links, vertexing, calorimetry, quality, btagVertex>>

Pi0Particle ==
  LET q == ParticleForVecp(at)
      v == event.vecp[at]
  IN
  /\ Round("Pi0")
  /\ rows' = IF q = 0 THEN rows
             ELSE rows \cup {Row(b, v.pa, at, q, 0, 0) : b \in v.banks \cap {"PI0"}}
  /\ UNCHANGED <<feeds, tracking, links, vertexing, calorimetry, quality, btagVertex>>

\* SdstPaExtras, Mtpc, Tof and PaPidExtras walk the PAs, each for its own
\* modules: a PA with the module and a particle gives a row.
PaRow(w, bank, track) ==
  LET q == ParticleForPa(at) IN
  /\ Round(w)
  /\ rows' = IF q = 0 \/ bank \notin event.pa[at].banks THEN rows
             ELSE rows \cup {Row(bank, at, at, q, track[q], 0)}
  /\ UNCHANGED <<feeds, tracking, links, vertexing, calorimetry, quality, btagVertex>>

NoTrack == [q \in DOMAIN particles |-> 0]

MutSticByPa ==
  LET v == event.vecp[at] IN
  /\ Round("SticShower")
  /\ clusters' = IF "STIC" \notin v.banks THEN clusters
                 ELSE clusters \o HadronShowers("SSTC", 1, v.pa, ParticleForPa(at))
  /\ UNCHANGED <<feeds, tracking, links, vertexing, showerHits, identity>>

\* The STIC shower SKELANA keeps for VECP index at becomes a cluster, of the
\* particle of that index if it has one.
SticShowerVecp ==
  LET v == event.vecp[at] IN
  /\ Round("SticShower")
  /\ clusters' = IF "STIC" \notin v.banks THEN clusters
                 ELSE clusters \o HadronShowers("SSTC", 1, v.pa, ParticleForVecp(at))
  /\ UNCHANGED <<feeds, tracking, links, vertexing, showerHits, identity>>

\* A refitted track is kept with the index of its particle, or none.
EltrSdstPa ==
  /\ Round("EltrSdst")
  /\ rows' = IF "ELTR" \notin event.pa[at].banks THEN rows
             ELSE rows \cup {Row("ELTR", at, at, ParticleForPa(at), 0, 0)}
  /\ UNCHANGED <<feeds, tracking, links, vertexing, calorimetry, quality, btagVertex>>

SdstPaExtrasPa == PaRow("SdstPaExtras", "PHOT", NoTrack)

\* The dE/dx of MTPC also refers to the track.
MtpcPa == PaRow("Mtpc", "MTPC", [q \in DOMAIN particles |-> particles[q].track])

TofPa == PaRow("Tof", "TOF", NoTrack)

PaPidExtrasPa == PaRow("PaPidExtras", "MU", NoTrack)

\* A row per AABTAG track, with the particle of the PA at its address; AABTAG's
\* vertex gets those it attached.
BtagTrack ==
  LET t == event.aabtag[at]
      q == ParticleForPa(t.pa)
  IN
  /\ Round("Btag")
  /\ rows' = rows \cup {Row("AABTAG", t.pa, at, q, 0, 0)}
  /\ btagVertex' = IF q # 0 /\ t.attached THEN btagVertex \cup {q} ELSE btagVertex
  /\ UNCHANGED <<feeds, tracking, links, vertexing, calorimetry, quality>>

\* The hook is over: the frame is written, or the event is given up.
EventOver == writer \in {"done", "refused"} /\ UNCHANGED vars

Next ==
  \/ NextWriter
  \/ TrackElementsPa \/ TraxPa \/ VdHitsTrack
  \/ SkippedPa \/ NeutralPa \/ ChargedPa
  \/ LinkTruth
  \/ VertexRefuses \/ VertexReco \/ WirePa \/ WireVertex \/ DecayVertex \/ VertexTail
  \/ EmcaPa \/ CalorimeterPa
  \/ DedxQualityPa \/ ParticleIdTrack \/ PidExtrasSdstTrack \/ Pi0Particle
  \/ SticShowerVecp \/ EltrSdstPa \/ SdstPaExtrasPa \/ MtpcPa \/ TofPa \/ PaPidExtrasPa
  \/ BtagTrack
  \/ EventOver

Spec == Init /\ [][Next]_vars

-----------------------------------------------------------------------------
(***************************************************************************)
(* The properties.                                                         *)
(***************************************************************************)

\* Types, and that every index kept is inside the vector it indexes: the code
\* reads particle_handles[i], quality[i] and the maps without a check.
TypeOK ==
  LET P == 1 .. Len(particles)
      T == 1 .. Len(tracks)
      I == DOMAIN event.vecp
      Object == [pa : 0 .. Len(event.pa), n : Nat]
  IN
  /\ EventShape(event)
  /\ writer \in {Writers[k] : k \in DOMAIN Writers} \cup {"done", "refused"}
  /\ at \in Nat \ {0}
  /\ trackElements \in Seq([segments : Seq(Object), planes : Seq(Object)])
  /\ trax \in Seq(Seq(Object))
  /\ vecpToHits \in Seq(Seq(Object))
  /\ tracks \in Seq([pa : DOMAIN event.pa, segments : Seq(Object), states : Seq(Object),
                     hits : Seq(Object), atVertex : 0 .. Len(event.aabtag)])
  /\ particles \in Seq([pa : DOMAIN event.pa, vecp : I \cup {0},
                        charge : {"neutral", "signed", "unsigned"},
                        momentum : {"vecp", "zero"}, track : T \cup {0}])
  /\ words \in Seq([pa : DOMAIN event.pa, vecp : I \cup {0}])
  /\ columns \in Seq(I \cup {0})
  /\ vecpToParticle \in [I -> P \cup {0}]
  /\ paToParticle \in Seq(P \cup {0})
  /\ links \subseteq [particle : P, vecp : I]
  /\ vertices \in Seq([kind : {"primary", "other", "simulated"}, particles : Seq(P)])
  /\ primaryVertex \in Seq(P)
  /\ lpa \in {0} \cup DOMAIN event.pa /\ paIdx \in Nat
  /\ decays \in Seq(Seq([vecp : I, particle : P]))
  /\ impact \in Seq(BOOLEAN)
  /\ showerHits \in Seq(Seq(Seq([pa : DOMAIN event.pa, shower : Nat, n : Nat])))
  /\ \A c \in DOMAIN clusters : clusters[c].particle \in P \cup {0}
  /\ quality \in Seq({0} \cup DOMAIN event.pa) /\ Len(quality) <= Len(particles)
  /\ \A r \in rows : r.particle \in P \cup {0} /\ r.track \in T \cup {0}
  /\ btagVertex \subseteq P

\* The two index maps of TrackingWriter lead to the same particles: an entry
\* leads to the particle made for that PA or VECP index, and each particle is
\* found again from its PA, and from its VECP index if it has one
\* (record_particle and mark_pa_skipped, Tracking.cpp).
MapsAgree ==
  /\ \A p \in DOMAIN paToParticle :
       paToParticle[p] # 0 => particles[paToParticle[p]].pa = p
  /\ \A i \in DOMAIN vecpToParticle : vecpToParticle[i] # 0 =>
       LET q == particles[vecpToParticle[i]] IN q.vecp = i /\ q.pa = event.vecp[i].pa
  /\ \A q \in DOMAIN particles :
       /\ particles[q].pa \in DOMAIN paToParticle /\ paToParticle[particles[q].pa] = q
       /\ particles[q].vecp # 0 => vecpToParticle[particles[q].vecp] = q

\* The columns parallel to MAIN_Particles and TRAC_Tracks have an entry per
\* particle and per track, of the same PA and VECP index, in the same order;
\* a particle has a track exactly if it is charged, and each track one particle
\* (push_particle_words, push_qtrac_or_nan, Vertex.cpp's impact columns).
ColumnsAlign ==
  /\ Len(words) = Len(particles)
  /\ \A q \in DOMAIN particles :
       /\ words[q].pa = particles[q].pa /\ words[q].vecp = particles[q].vecp
       /\ particles[q].track = 0 <=> particles[q].charge = "neutral"
  /\ Len(columns) = Len(tracks)
  /\ \A t \in DOMAIN tracks : \E q \in DOMAIN particles :
       /\ particles[q].track = t /\ particles[q].pa = tracks[t].pa
       /\ columns[t] = particles[q].vecp
       /\ \A r \in DOMAIN particles : particles[r].track = t => r = q
  /\ writer \in {"done", "Btag"} => Len(impact) = Len(tracks)

\* A track carries all segments, plane hits and extrapolated states of its PA
\* and the Vertex Detector hits of its VECP index, and nothing else, although
\* the former are handed over by PA and the latter by charged ordinal.
TracksCarryTheirOwn ==
  \A q \in DOMAIN particles : particles[q].track # 0 =>
    LET t == tracks[particles[q].track]
        p == particles[q].pa
        i == particles[q].vecp
    IN
    /\ t.segments = Objects(p, event.pa[p].segments)
    /\ t.states = Objects(p, event.pa[p].points)
    /\ t.hits = Objects(p, event.pa[p].planes) \o
                (IF i \in 1 .. event.ncvecp THEN Objects(p, event.vecp[i].nasht) ELSE <<>>)

\* Whatever refers to a particle or a track refers to that of its own PA: the
\* rows of every ParticleID collection, the dE/dx flag in them, truth links and
\* decay daughters, whether the writer went by PA or by VECP index.  A dE/dx row
\* refers to a track and has the flag of its PA if there is one ("All pass-1 PID
\* collections are charged-only", ParticleId.cpp), which rests on the charge
\* gate of find_vecp_index once VECP has been reclassified.
RowsNameTheirParticle ==
  /\ \A r \in rows :
       /\ r.particle # 0 => particles[r.particle].pa = r.pa
       /\ r.track # 0 => tracks[r.track].pa = r.pa
       /\ r.flag # 0 => r.flag = r.pa
  /\ \A l \in links : particles[l.particle].pa = event.vecp[l.vecp].pa
  /\ \A d \in DOMAIN decays : \A k \in DOMAIN decays[d] :
       particles[decays[d][k].particle].pa = event.vecp[decays[d][k].vecp].pa
  /\ \A r \in rows : r.bank = "DEDX" =>
       r.track # 0 /\ ("MTPC" \in event.pa[r.pa].banks => r.flag = r.pa)

\* s has the members of P, each once, in increasing order.
ListsExactly(s, P) ==
  /\ {s[k] : k \in DOMAIN s} = P
  /\ \A j, k \in DOMAIN s : j < k => s[j] < s[k]

\* The vertices WireVertex has been through.
Wired ==
  IF writer = "WireVertex" THEN 1 .. at - 1
  ELSE IF writer \in {"refused"} \cup {Writers[k] : k \in 1 .. 6} THEN {}
  ELSE 1 .. ChainLength

\* A wired vertex has exactly the particles of the PAs below it in the chain,
\* in their order and once each; PV_PrimaryVertex has those of the primary
\* vertex, although PAs without a particle and vertices without PAs lie between.
VerticesOwnTheirs ==
  /\ \A v \in Wired : ListsExactly(vertices[v].particles,
                                 {q \in DOMAIN particles : event.lpv[particles[q].pa] = v})
  /\ primaryVertex = IF 1 \in Wired /\ event.plain THEN vertices[1].particles ELSE <<>>

\* A cluster belongs to the particle of its PA, and an EMNC cluster has exactly
\* the EMCA hits of the same shower of the same PA, although EMCA keeps no list
\* for showers after the last one with a hit (Emca.cpp, Calorimeter.cpp).
ClustersCarryTheirOwn ==
  \A c \in DOMAIN clusters :
    LET k == clusters[c] IN
    /\ k.particle # 0 => particles[k.particle].pa = k.pa
    /\ k.hits = IF k.bank = "EMNC"
                THEN Hits(k.pa, k.shower, Get(event.pa[k.pa].emca, k.shower, 0))
                ELSE <<>>

\* The frame as pass 2 finds it.
Frame ==
  [tracks    |-> [t \in DOMAIN tracks |-> tracks[t].pa],
   particles |-> [q \in DOMAIN particles |->
                    [pa |-> particles[q].pa, charge |-> particles[q].charge,
                     track |-> particles[q].track]],
   clusters  |-> [c \in DOMAIN clusters |->
                    [bank |-> clusters[c].bank, pa |-> clusters[c].pa,
                     particle |-> clusters[c].particle]],
   vertices  |-> <<primaryVertex>> \o [v \in DOMAIN vertices |-> vertices[v].particles]
                 \o [d \in DOMAIN decays |->
                        [k \in DOMAIN decays[d] |-> decays[d][k].particle]],
   rows      |-> {r \in rows : r.bank \in {"HAID", "MUID", "ELID", "DEDX"}},
   links     |-> links]

\* A frame that is written satisfies what pass 2 relies on, unchecked for the
\* most part, when it reads the relations back (MatchProvenance.cpp:40-51 takes
\* the first track of a particle and the last particle of a track).
FrameIsConsistent == writer = "done" => FrameShape(Frame)

\* "Reach them from a row via getParticle() -> getTracks() -> the AtVertex
\* state" (Btag.cpp): the track of a tagged particle has the state AABTAG
\* measured for that very row, set by Tracking near the start of the event.
TagsReachTheirState ==
  \A r \in rows : r.bank = "AABTAG" /\ r.particle # 0 =>
    /\ particles[r.particle].track # 0
    /\ tracks[particles[r.particle].track].atVertex = r.source

-----------------------------------------------------------------------------
(***************************************************************************)
(* An inductive invariant that implies MapsAgree and ColumnsAlign.         *)
(***************************************************************************)

\* The writers before Tracking, and those after the impact columns are filled.
Early == {"TrackElements", "Trax", "VdHits"}
Late == {"Emca", "Calorimeter", "DedxQuality", "ParticleId", "SdstPaExtras",
         "SticShower", "EltrSdst", "PidExtrasSdst", "Pi0", "Mtpc", "Tof", "PaPidExtras",
         "Btag", "done"}

\* Index vectors hold indices of particles.
Indexed ==
  /\ EventShape(event)
  /\ at \in Nat \ {0}
  /\ particles \in Seq([pa : Nat, vecp : Nat, charge : {"neutral", "signed", "unsigned"},
                        momentum : {"vecp", "zero"}, track : Nat])
  /\ tracks \in Seq({tracks[t] : t \in DOMAIN tracks})
  /\ words \in Seq([pa : Nat, vecp : Nat])
  /\ columns \in Seq(Nat)
  /\ paToParticle \in Seq(0 .. Len(particles))
  /\ vecpToParticle \in [DOMAIN event.vecp -> 0 .. Len(particles)]

\* Tracking enters each PA once, in the order of the walk: no map leads to the
\* PA it is at.
WalkOrder ==
  /\ writer \in Early => paToParticle = <<>>
  /\ writer = "Tracking" => Len(paToParticle) = at - 1

\* The VECP index of a particle is one.
Linked == \A q \in DOMAIN particles : particles[q].vecp \in DOMAIN event.vecp \cup {0}

\* The impact columns once VertexTail has run.
ImpactFilled ==
  (writer = "VertexTail" /\ at > 1) \/ writer \in Late => Len(impact) = Len(tracks)

\* What Tracking alone establishes of ColumnsAlign.
Parallel ==
  /\ Len(words) = Len(particles)
  /\ \A q \in DOMAIN particles :
       /\ words[q].pa = particles[q].pa /\ words[q].vecp = particles[q].vecp
       /\ particles[q].track = 0 <=> particles[q].charge = "neutral"
       /\ particles[q].track <= Len(tracks)
  /\ Len(columns) = Len(tracks)
  /\ \A t \in DOMAIN tracks : \E q \in DOMAIN particles :
       /\ particles[q].track = t /\ particles[q].pa = tracks[t].pa
       /\ columns[t] = particles[q].vecp
       /\ \A r \in DOMAIN particles : particles[r].track = t => r = q

\* Inductive: the maps agree because the walk never returns to a PA, and the
\* columns stay parallel because every branch of Tracking appends to all.
IInv == Indexed /\ WalkOrder /\ Linked /\ MapsAgree /\ Parallel /\ ImpactFilled

-----------------------------------------------------------------------------
(***************************************************************************)
(* What the maps carry: an inductive invariant that implies, with IInv,    *)
(* TracksCarryTheirOwn, RowsNameTheirParticle and TagsReachTheirState.     *)
(***************************************************************************)

\* The first three writers fill their vectors in the order of the walk, with
\* what belongs to each PA and each VECP index, before Tracking reads them.
FeedsAreOwn ==
  /\ writer = "VdHits" => at <= event.ncvecp + 1
  /\ writer \in {"TrackElements", "Trax"} => at <= Len(event.pa) + 1
  /\ Len(trackElements) = IF writer = "TrackElements" THEN at - 1 ELSE Len(event.pa)
  /\ Len(trax) = CASE writer = "TrackElements" -> 0
                   [] writer = "Trax" -> at - 1
                   [] OTHER -> Len(event.pa)
  /\ Len(vecpToHits) = CASE writer \in {"TrackElements", "Trax"} -> 0
                         [] writer = "VdHits" -> at - 1
                         [] OTHER -> event.ncvecp
  /\ trackElements = [p \in 1 .. Len(trackElements) |->
                        [segments |-> Objects(p, event.pa[p].segments),
                         planes   |-> Objects(p, event.pa[p].planes)]]
  /\ trax = [p \in 1 .. Len(trax) |-> Objects(p, event.pa[p].points)]
  /\ vecpToHits = [i \in 1 .. Len(vecpToHits) |->
                     Objects(event.vecp[i].pa, event.vecp[i].nasht)]

\* Every particle is of the charge its PA says, and a neutral one of a VECP
\* entry that is not charged; its track has the AtVertex state of its PA.
ParticlesComeFromTheirPa ==
  \A q \in DOMAIN particles :
    LET p == particles[q].pa IN
    /\ p \in DOMAIN event.pa
    /\ particles[q].charge = event.pa[p].code
    /\ particles[q].charge = "neutral" => ~event.vecp[particles[q].vecp].charged
    /\ particles[q].track # 0 =>
         /\ tracks[particles[q].track].pa = p
         /\ \A t \in DOMAIN event.aabtag :
              event.aabtag[t].pa = p => tracks[particles[q].track].atVertex = t
    /\ \A r \in DOMAIN particles : q < r => p < particles[r].pa

\* The writers that run once dedxQuality is complete.
AfterQuality == Late \ {"Emca", "Calorimeter", "DedxQuality"}

\* dedxQuality has the flag of every particle whose PA has a dE/dx, and no other.
QualityIsOwn ==
  /\ writer \in Early \cup {"Tracking"} => quality = <<>>
  /\ quality \in Seq(Nat)
  /\ \A q \in DOMAIN quality : quality[q] # 0 =>
       q \in DOMAIN particles /\ quality[q] = particles[q].pa
  /\ \A q \in DOMAIN particles :
       /\ "MTPC" \in event.pa[particles[q].pa].banks
       /\ writer \in AfterQuality \/ (writer = "DedxQuality" /\ particles[q].pa < at)
       => Get(quality, q, 0) = particles[q].pa

RowRecords ==
  [bank : PaBanks \cup ChargedBanks \cup {"HAID", "PI0", "AABTAG"}, pa : Nat, source : Nat,
   particle : Nat, track : Nat, flag : Nat]

\* What rows refer to, and that only the rows of refitted and of tagged tracks
\* can be without a particle.
RowsAreOwn ==
  \A r \in rows :
    /\ r \in RowRecords
    /\ r.particle # 0 =>
         /\ r.particle \in DOMAIN particles /\ particles[r.particle].pa = r.pa
         /\ r.track \in {0, particles[r.particle].track}
    /\ r.particle = 0 => r.bank \in {"ELTR", "AABTAG"} /\ r.track = 0
    /\ r.flag \in {0, r.pa}
    /\ r.bank = "DEDX" =>
         /\ r.track # 0 /\ r.track = particles[r.particle].track
         /\ "MTPC" \in event.pa[r.pa].banks => r.flag = r.pa
    /\ r.bank = "AABTAG" =>
         r.source \in DOMAIN event.aabtag /\ r.pa = event.aabtag[r.source].pa

LinksAreOwn ==
  \A l \in links :
    /\ l \in [particle : DOMAIN particles, vecp : DOMAIN event.vecp]
    /\ particles[l.particle].pa = event.vecp[l.vecp].pa

\* The daughters that are the particle of the PA of their VECP index.
OwnDaughters ==
  {d \in [vecp : DOMAIN event.vecp, particle : DOMAIN particles] :
     particles[d.particle].pa = event.vecp[d.vecp].pa}

DaughtersAreOwn == decays \in Seq(Seq(OwnDaughters))

\* Nothing refers to particles while Tracking still makes them.
NothingYet ==
  writer \in Early \cup {"Tracking"} =>
    rows = {} /\ links = {} /\ decays = <<>> /\ clusters = <<>> /\ vertices = <<>>

\* Inductive together with IInv: each writer looks its particle up in maps that
\* agree, and puts in the row the PA it looked it up for.
ReferencesHold ==
  /\ FeedsAreOwn /\ ParticlesComeFromTheirPa /\ TracksCarryTheirOwn
  /\ QualityIsOwn /\ RowsAreOwn /\ LinksAreOwn /\ DaughtersAreOwn /\ NothingYet

-----------------------------------------------------------------------------
(***************************************************************************)
(* The walk over the vertices, an inductive invariant that implies, with   *)
(* the two above, VerticesOwnTheirs.                                       *)
(***************************************************************************)

\* The writers before WireVertex.
BeforeWiring == {"refused"} \cup {Writers[k] : k \in 1 .. 6}

OutgoingSoFar(v) ==
  {q \in DOMAIN particles : event.lpv[particles[q].pa] = v /\ particles[q].pa <= paIdx}

\* The counter has passed the PAs of the vertices before this one and, of this
\* one, those before the PA the walk is at.
CounterInStep ==
  writer = "WireVertex" =>
    /\ at <= ChainLength + 1
    /\ \A p \in DOMAIN event.pa :
         p <= paIdx <=> \/ event.lpv[p] < at
                        \/ event.lpv[p] = at /\ (lpa = 0 \/ p < lpa)
    /\ lpa # 0 => lpa \in DOMAIN event.pa /\ event.lpv[lpa] = at /\ lpa = paIdx + 1

VerticesKnown ==
  /\ paIdx \in Nat
  /\ vertices \in Seq([kind : {"primary", "other", "simulated"}, particles : Seq(Nat)])
  /\ \A v \in DOMAIN vertices : v <= ChainLength =>
       vertices[v].kind = IF v = 1 /\ event.plain THEN "primary" ELSE "other"
  /\ \A v \in DOMAIN vertices : v > ChainLength => vertices[v].particles = <<>>
  /\ writer \in BeforeWiring => paIdx = 0
  /\ writer = "Vertex" => at = 1 \/ (Len(vertices) = ChainLength /\ lpa = FirstPa(1))
  /\ writer = "WireVertex" => Len(vertices) = ChainLength
  /\ writer \notin BeforeWiring => ChainLength <= Len(vertices)

\* While the walk goes on, each vertex lists its particles up to the counter.
OutgoingInStep ==
  writer \in BeforeWiring \cup {"WireVertex"} =>
    \A v \in DOMAIN vertices : ListsExactly(vertices[v].particles, OutgoingSoFar(v))

\* Inductive together with the two above: the running counter and the chain
\* arrive at each PA together.
WiringHolds == VerticesKnown /\ CounterInStep /\ OutgoingInStep /\ VerticesOwnTheirs

-----------------------------------------------------------------------------
(***************************************************************************)
(* The calorimeters: implies ClustersCarryTheirOwn.                        *)
(***************************************************************************)
AfterEmca == Late \ {"Emca"}

\* What EMCA has for shower s of PA p.
EmcaHits(p, s) == Hits(p, s, Get(event.pa[p].emca, s, 0))

ShowerHitsAreOwn ==
  /\ writer \notin Late => showerHits = <<>>
  /\ showerHits \in Seq({showerHits[p] : p \in DOMAIN showerHits})
  /\ writer = "Emca" => Len(showerHits) < at
  /\ \A p \in DOMAIN event.pa : writer \in AfterEmca \/ (writer = "Emca" /\ p < at) =>
       \A s \in 1 .. event.pa[p].emnc : Get(Get(showerHits, p, <<>>), s, <<>>) = EmcaHits(p, s)

\* The clusters that belong to the particle of their PA, with its hits.
OwnClusters ==
  {k \in [bank : {"EMNC", "HCNC", "HCAL", "SSTC"}, pa : Nat, shower : Nat,
          particle : {0} \cup DOMAIN particles, hits : Seq([pa : Nat, shower : Nat, n : Nat]),
          hpc : BOOLEAN, layers : 0 .. MaxHpcLayers] :
     /\ k.particle # 0 => particles[k.particle].pa = k.pa
     /\ k.bank = "EMNC" => k.pa \in DOMAIN event.pa /\ k.hits = EmcaHits(k.pa, k.shower)
     /\ k.bank # "EMNC" => k.hits = <<>>}

ClustersHold == ShowerHitsAreOwn /\ clusters \in Seq(OwnClusters)
=============================================================================
