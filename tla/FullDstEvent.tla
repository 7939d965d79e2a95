---------------------------- MODULE FullDstEvent ----------------------------
(***************************************************************************)
(* What pass 2 does with one event: the on_event hook of                   *)
(* bin/delphi_fdst_pass.cpp adds fDST collections to the frame of pass 1.  *)
(* The PAs of the full DST come in an order of their own; a charged one is *)
(* recognised by its perigee (PerigeeMatch.cpp) as a track of pass 1, and  *)
(* brings what only the full DST has to the clones of that track and of    *)
(* its particle.                                                           *)
(*                                                                         *)
(* A perigee is an integer: the cost of a match is a distance, and only    *)
(* which track is nearer and whether it is within the tolerance matter.    *)
(* The PAs of the full DST are numbered by their walk.  own is the PA of   *)
(* pass 1 that is the same physical object, 0 if there is none: the code   *)
(* does not know it, the properties compare with it.  Numbers start at 1   *)
(* and 0 stands for the code's -1.                                         *)
(***************************************************************************)
EXTENDS Integers, Sequences, FiniteSets, EventVectors, PassOneFrame

CONSTANTS
  Events,             \* the events on_event may be given
  Tolerance           \* tolerance_cm2, 1e-4 in the code

\* PA.MAIN word 8: absent; code 0; code 1 or 2; code 3, of unknown sign.
Codes == {"absent", "neutral", "signed", "unsigned"}

\* Modules that become one ParticleID row per PA.
PaBanks == {"TOF", "MTPC", "MU"}

\* One PA of the full DST: trac tells whether it has PA.TRAC.
Pa == [own : Nat, code : Codes, trac : BOOLEAN, perigee : Int,
       segments : Nat, planes : Nat, points : Nat, banks : SUBSET PaBanks]

EventShape(e) ==
  /\ FrameShape(e.frame)                                \* loaded by the harness
  /\ e.perigee \in [DOMAIN e.frame.tracks -> Int]       \* the AtIP states of pass 1
  /\ e.dedx \in BOOLEAN                                 \* one of kDedxAlgorithms in the frame?
  /\ e.pa \in Seq(Pa)
  /\ \A p, r \in DOMAIN e.pa : e.pa[p].own = e.pa[r].own /\ p # r => e.pa[p].own = 0
  \* AABTAG's tracks: each PA once.
  /\ e.aabtag \in Seq([pa : DOMAIN e.pa, attached : BOOLEAN])
  /\ \A t, u \in DOMAIN e.aabtag : e.aabtag[t].pa = e.aabtag[u].pa => t = u

ASSUME EventAssumption ==
  /\ Tolerance \in Nat
  /\ \A e \in Events : EventShape(e)

VARIABLES
  event,
  writer,             \* whose emit() is running
  at,                 \* where its loop is
  provenance,         \* MAIN_Particles_MatchProvenance
  paToTrack,          \* ctx.fdst_pa_to_sdst_track
  paToParticle,       \* ctx.fdst_pa_to_sdst_particle
  trackElements,      \* ctx.track_elements: PA -> segments and plane hits
  trax,               \* ctx.trax: PA -> extrapolated states
  tracks,             \* fDST_TRAC_Tracks
  clusters,           \* fDST_EMNC_, HCNC_ and HCAL_Showers
  particles,          \* fDST_MAIN_Particles
  vertices,           \* the fDST vertex collections
  dv, sp,             \* the particles of the vertex being cloned, the one to re-point next
  rows,               \* the ParticleID rows of pass 2
  clonedRows,         \* the HAID, MUID, ELID and dE/dx rows of pass 1, cloned
  links,              \* fDST_TBL_RecoToMC
  btagVertex          \* particles of AABTAG_PrimaryVertex

matching == <<provenance, paToTrack, paToParticle>>
feeds == <<trackElements, trax>>
clones == <<tracks, clusters, particles, vertices, dv, sp>>
identity == <<rows, clonedRows, links, btagVertex>>
vars == <<event, writer, at, matching, feeds, clones, identity>>

frame == event.frame

-----------------------------------------------------------------------------
MutTracksAfterParticles ==
  <<"MatchProvenance", "TrackElements", "Trax", "ShowerHybrid", "MainHybrid",
    "TrackHybrid", "VertexHybrid", "Tof", "Mtpc", "PaPidExtras", "PidHybrid", "TblHybrid", "Btag">>

MutTofBeforeParticles ==
  <<"MatchProvenance", "TrackElements", "Trax", "TrackHybrid", "Tof", "ShowerHybrid",
    "MainHybrid", "VertexHybrid", "Mtpc", "PaPidExtras", "PidHybrid", "TblHybrid", "Btag">>

\* The writers in the order of on_event, VertexHybrid being the second half of
\* MainHybrid.  Those that only add collections of their own are left out.
Writers ==
  <<"MatchProvenance", "TrackElements", "Trax", "TrackHybrid", "ShowerHybrid",
    "MainHybrid", "VertexHybrid", "Tof", "Mtpc", "PaPidExtras", "PidHybrid", "TblHybrid", "Btag">>

PaWalkers == {"MatchProvenance", "TrackElements", "Trax", "Tof", "Mtpc", "PaPidExtras"}

\* The bound of the loop of writer w.
Limit(w) ==
  CASE w \in PaWalkers     -> Len(event.pa)
    [] w = "TrackHybrid"   -> Len(frame.tracks)
    [] w = "MainHybrid"    -> Len(frame.particles)
    [] w = "VertexHybrid"  -> Len(frame.vertices)
    [] w = "Btag"          -> Len(event.aabtag)
    [] OTHER               -> 1

\* One round of the loop of writer w.
Round(w) == /\ writer = w
            /\ at <= Limit(w)
            /\ at' = at + 1
            /\ UNCHANGED <<event, writer>>

\* MatchProvenance starts by flagging the neutral particles of pass 1; a
\* charge that is not a number is not 0.
Init ==
  /\ event \in Events
  /\ writer = "MatchProvenance"
  /\ at = 1
  /\ provenance = [q \in DOMAIN frame.particles |->
                     IF frame.particles[q].charge = "neutral" THEN -1 ELSE 0]
  /\ paToTrack = <<>> /\ paToParticle = <<>>
  /\ trackElements = <<>> /\ trax = <<>>
  /\ tracks = <<>> /\ clusters = <<>> /\ particles = <<>> /\ vertices = <<>>
  /\ dv = <<>> /\ sp = 1
  /\ rows = {} /\ clonedRows = {} /\ links = {} /\ btagVertex = {}

\* A writer whose loop is over puts its collections; the next one starts.
NextWriter ==
  /\ writer \in {Writers[k] : k \in DOMAIN Writers}
  /\ at > Limit(writer)
  /\ writer' = LET k == CHOOSE k \in DOMAIN Writers : Writers[k] = writer
               IN  IF k = Len(Writers) THEN "done" ELSE Writers[k + 1]
  /\ at' = 1
  /\ UNCHANGED <<event, matching, feeds, clones, identity>>

-----------------------------------------------------------------------------
(***************************************************************************)
(* MatchProvenance: which track of pass 1 is this PA?                      *)
(***************************************************************************)
Cost(x, t) == IF x <= event.perigee[t] THEN event.perigee[t] - x ELSE x - event.perigee[t]

MutFirstWithin(x) ==
  LET M == {t \in DOMAIN frame.tracks : Cost(x, t) < Tolerance}
  IN  IF M = {} THEN 0 ELSE CHOOSE t \in M : \A u \in M : t <= u

\* findMatch: the first of the nearest tracks, if within the tolerance.
FindMatch(x) ==
  LET M == {t \in DOMAIN frame.tracks :
              /\ Cost(x, t) < Tolerance
              /\ \A u \in DOMAIN frame.tracks : Cost(x, t) <= Cost(x, u)}
  IN  IF M = {} THEN 0 ELSE CHOOSE t \in M : \A u \in M : t <= u

\* buildTrackToParticleMap: the last particle whose track is t.
TrackToParticle(t) ==
  LET M == {q \in DOMAIN frame.particles : frame.particles[q].track = t}
  IN  IF M = {} THEN 0 ELSE CHOOSE q \in M : \A r \in M : r <= q

\* A PA with a charge of known sign and a perigee is matched.
Matchable(p) == event.pa[p].code = "signed" /\ event.pa[p].trac

MutFlagsEveryCandidate ==
  LET t == IF Matchable(at) THEN FindMatch(event.pa[at].perigee) ELSE 0
      q == IF t = 0 THEN 0 ELSE TrackToParticle(t)
      near == {TrackToParticle(u) : u \in {u \in DOMAIN frame.tracks :
                                             Cost(event.pa[at].perigee, u) < Tolerance}}
  IN
  /\ Round("MatchProvenance")
  /\ paToTrack' = Put(paToTrack, at, t, 0)
  /\ paToParticle' = Put(paToParticle, at, q, 0)
  /\ provenance' = [r \in DOMAIN provenance |-> IF q # 0 /\ r \in near THEN 1 ELSE provenance[r]]
  /\ UNCHANGED <<feeds, clones, identity>>

MutCountsMatches ==
  LET t == IF Matchable(at) THEN FindMatch(event.pa[at].perigee) ELSE 0
      q == IF t = 0 THEN 0 ELSE TrackToParticle(t)
  IN
  /\ Round("MatchProvenance")
  /\ paToTrack' = Put(paToTrack, at, t, 0)
  /\ paToParticle' = Put(paToParticle, at, q, 0)
  /\ provenance' = IF q = 0 THEN provenance ELSE [provenance EXCEPT ![q] = @ + 1]
  /\ UNCHANGED <<feeds, clones, identity>>

MatchPa ==
  LET t == IF Matchable(at) THEN FindMatch(event.pa[at].perigee) ELSE 0
      q == IF t = 0 THEN 0 ELSE TrackToParticle(t)
  IN
  /\ Round("MatchProvenance")
  /\ paToTrack' = Put(paToTrack, at, t, 0)
  /\ paToParticle' = Put(paToParticle, at, q, 0)
  /\ provenance' = IF q = 0 THEN provenance ELSE [provenance EXCEPT ![q] = 1]
  /\ UNCHANGED <<feeds, clones, identity>>

-----------------------------------------------------------------------------
(***************************************************************************)
(* The clones of the tracks, with the elements of the matched PAs.         *)
(***************************************************************************)
NoElements == [segments |-> <<>>, planes |-> <<>>]

TrackElementsPa ==
  /\ Round("TrackElements")
  /\ trackElements' = Put(trackElements, at,
                          [segments |-> Objects(at, event.pa[at].segments),
                           planes   |-> Objects(at, event.pa[at].planes)], NoElements)
  /\ UNCHANGED <<matching, trax, clones, identity>>

TraxPa ==
  /\ Round("Trax")
  /\ trax' = Put(trax, at, Objects(at, event.pa[at].points), <<>>)
  /\ UNCHANGED <<matching, trackElements, clones, identity>>

\* lpaToTrack: the first AABTAG track with the address of PA p.
LpaToTrack(p) ==
  LET T == {t \in DOMAIN event.aabtag : event.aabtag[t].pa = p}
  IN  IF T = {} THEN 0 ELSE CHOOSE t \in T : \A u \in T : t <= u

MutLastPa(t) ==
  LET M == {p \in DOMAIN paToTrack : paToTrack[p] = t}
  IN  {p \in M : \A r \in M : r <= p}

\* track_to_pas: the PAs matched with track t.
TrackToPas(t) == {p \in DOMAIN paToTrack : paToTrack[p] = t}

Members(s) == {s[k] : k \in DOMAIN s}

\* The clone of track at gets the segments, plane hits, extrapolated states
\* and the state at AABTAG's vertex of every PA matched with it.
TrackHybridTrack ==
  LET pas == TrackToPas(at) IN
  /\ Round("TrackHybrid")
  /\ tracks' = Append(tracks,
       [pa       |-> frame.tracks[at],
        segments |-> UNION {Members(Get(trackElements, p, NoElements).segments) : p \in pas},
        planes   |-> UNION {Members(Get(trackElements, p, NoElements).planes) : p \in pas},
        states   |-> UNION {Members(Get(trax, p, <<>>)) : p \in pas},
        atVertex |-> {LpaToTrack(p) : p \in pas} \ {0}])
  /\ UNCHANGED <<matching, feeds, clusters, particles, vertices, dv, sp, identity>>

-----------------------------------------------------------------------------
(***************************************************************************)
(* The clones of showers, particles and vertices, 1:1 in order.            *)
(***************************************************************************)

\* cloneShowers: all but the STIC showers, which pass 2 reads afresh.
ShowerHybridClone ==
  /\ Round("ShowerHybrid")
  /\ clusters' = [c \in {c \in DOMAIN frame.clusters : frame.clusters[c].bank # "SSTC"} |->
                    [bank |-> frame.clusters[c].bank, pa |-> frame.clusters[c].pa]]
  /\ UNCHANGED <<matching, feeds, tracks, particles, vertices, dv, sp, identity>>

\* The relations are re-pointed by index where the clone exists; the clusters
\* those of EMNC and of HCNC.  (Particles of pass 1 have no sub-particles.)
RepointClusters(q) ==
  {c \in DOMAIN frame.clusters :
     /\ frame.clusters[c].particle = q
     /\ frame.clusters[c].bank \in {"EMNC", "HCNC"}
     /\ c \in DOMAIN clusters}

\* i, or nothing if the collection is shorter.
Repoint(i, collection) == IF i \in DOMAIN collection THEN i ELSE 0

MainHybridParticle ==
  /\ Round("MainHybrid")
  /\ particles' = Append(particles, [pa       |-> frame.particles[at].pa,
                                     track    |-> Repoint(frame.particles[at].track, tracks),
                                     clusters |-> RepointClusters(at)])
  /\ UNCHANGED <<matching, feeds, tracks, clusters, vertices, dv, sp, identity>>

\* One particle of vertex at: the clone of the vertex gets the clone of it.
VertexHybridParticle ==
  /\ writer = "VertexHybrid" /\ at <= Limit(writer)
  /\ sp <= Len(frame.vertices[at])
  /\ LET q == Repoint(frame.vertices[at][sp], particles)
     IN  dv' = IF q = 0 THEN dv ELSE Append(dv, q)
  /\ sp' = sp + 1
  /\ UNCHANGED <<event, writer, at, matching, feeds, tracks, clusters, particles, vertices,
                 identity>>

\* All particles of vertex at are through.
VertexHybridVertex ==
  /\ Round("VertexHybrid")
  /\ sp > Len(frame.vertices[at])
  /\ vertices' = Append(vertices, dv)
  /\ dv' = <<>> /\ sp' = 1
  /\ UNCHANGED <<matching, feeds, tracks, clusters, particles, identity>>

-----------------------------------------------------------------------------
(***************************************************************************)
(* Particle identification.                                                *)
(***************************************************************************)

\* particleForPa of pass 2, the clone of the particle matched with PA p.
ParticleForPa(p) == Repoint(Get(paToParticle, p, 0), particles)

\* Tof, Mtpc and PaPidExtras: a PA with the module and a particle gives a row.
PaRow(w, bank, track) ==
  LET q == ParticleForPa(at) IN
  /\ Round(w)
  /\ rows' = IF q = 0 \/ bank \notin event.pa[at].banks THEN rows
             ELSE rows \cup {[bank |-> bank, pa |-> at, source |-> at,
                              particle |-> q, track |-> track[q]]}
  /\ UNCHANGED <<matching, feeds, clones, clonedRows, links, btagVertex>>

NoTrack == [q \in DOMAIN particles |-> 0]

TofPa == PaRow("Tof", "TOF", NoTrack)

\* The dE/dx of MTPC also refers to the track.
MtpcPa == PaRow("Mtpc", "MTPC", [q \in DOMAIN particles |-> particles[q].track])

PaPidExtrasPa == PaRow("PaPidExtras", "MU", NoTrack)

\* clonePidWithRepoint for the four collections, and the dE/dx values.
PidHybridClone ==
  /\ Round("PidHybrid")
  /\ event.dedx
  /\ clonedRows' = {[r EXCEPT !.particle = Repoint(r.particle, particles),
                              !.track = Repoint(r.track, tracks)] : r \in frame.rows}
  /\ UNCHANGED <<matching, feeds, clones, rows, links, btagVertex>>

\* Neither dE/dx collection is in the frame: a runtime_error, no frame.
PidHybridRefuses ==
  /\ writer = "PidHybrid"
  /\ ~event.dedx
  /\ writer' = "refused"
  /\ UNCHANGED <<event, at, matching, feeds, clones, identity>>

TblHybridClone ==
  /\ Round("TblHybrid")
  /\ links' = {[l EXCEPT !.particle = Repoint(l.particle, particles)] : l \in frame.links}
  /\ UNCHANGED <<matching, feeds, clones, rows, clonedRows, btagVertex>>

\* A row per AABTAG track, with the particle of the PA at its address; AABTAG's
\* vertex gets those it attached.
BtagTrack ==
  LET t == event.aabtag[at]
      q == ParticleForPa(t.pa)
  IN
  /\ Round("Btag")
  /\ rows' = rows \cup {[bank |-> "AABTAG", pa |-> t.pa, source |-> at,
                         particle |-> q, track |-> 0]}
  /\ btagVertex' = IF q # 0 /\ t.attached THEN btagVertex \cup {q} ELSE btagVertex
  /\ UNCHANGED <<matching, feeds, clones, clonedRows, links>>

\* The hook is over: the frame is written, or the event is given up.
EventOver == writer \in {"done", "refused"} /\ UNCHANGED vars

Next ==
  \/ NextWriter
  \/ MatchPa
  \/ TrackElementsPa \/ TraxPa \/ TrackHybridTrack
  \/ ShowerHybridClone \/ MainHybridParticle \/ VertexHybridParticle \/ VertexHybridVertex
  \/ TofPa \/ MtpcPa \/ PaPidExtrasPa
  \/ PidHybridClone \/ PidHybridRefuses \/ TblHybridClone
  \/ BtagTrack
  \/ EventOver

Spec == Init /\ [][Next]_vars

-----------------------------------------------------------------------------
(***************************************************************************)
(* The properties.                                                         *)
(***************************************************************************)

\* The PAs whose match leads to particle q.
PasOf(q) == {p \in DOMAIN paToParticle : paToParticle[p] = q}

\* Types, and that every index kept is inside the collection of pass 1, or of
\* its clone, that it indexes.
TypeOK ==
  LET P == DOMAIN frame.particles
      T == DOMAIN frame.tracks
      Object == [pa : DOMAIN event.pa, n : Nat]
  IN
  /\ EventShape(event)
  /\ writer \in {Writers[k] : k \in DOMAIN Writers} \cup {"done", "refused"}
  /\ at \in Nat \ {0}
  /\ provenance \in [P -> {-1, 0, 1}]
  /\ paToTrack \in Seq(T \cup {0})
  /\ paToParticle \in Seq(P \cup {0})
  /\ trackElements \in Seq([segments : Seq(Object), planes : Seq(Object)])
  /\ trax \in Seq(Seq(Object))
  /\ tracks \in Seq([pa : Nat, segments : SUBSET Object, planes : SUBSET Object,
                     states : SUBSET Object, atVertex : SUBSET DOMAIN event.aabtag])
  /\ particles \in Seq([pa : Nat, track : DOMAIN tracks \cup {0},
                        clusters : SUBSET DOMAIN clusters])
  /\ vertices \in Seq(Seq(DOMAIN particles))
  /\ dv \in Seq(DOMAIN particles) /\ sp \in Nat \ {0}
  /\ \A r \in rows \cup clonedRows :
       r.particle \in DOMAIN particles \cup {0} /\ r.track \in DOMAIN tracks \cup {0}
  /\ \A l \in links : l.particle \in DOMAIN particles \cup {0}
  /\ btagVertex \subseteq DOMAIN particles

\* Can the PAs be told apart by their perigee?  A track of pass 1 that is not
\* the PA's own is out of tolerance, or farther away than the PA's own.
Recognisable ==
  \A p \in DOMAIN event.pa : \A t \in DOMAIN frame.tracks :
    LET x == event.pa[p].perigee IN
    Matchable(p) /\ frame.tracks[t] # event.pa[p].own =>
      \/ Cost(x, t) >= Tolerance
      \/ \E u \in DOMAIN frame.tracks : frame.tracks[u] = event.pa[p].own /\ Cost(x, u) < Cost(x, t)

\* "same physical track gives identical (d0, z0, invR) on both DST levels"
\* (PerigeeMatch.cpp): where perigees tell the PAs apart, a PA is matched with
\* its own track and particle, and is matched if its own track is in reach.
MatchesAreOwn ==
  Recognisable => \A p \in DOMAIN paToTrack :
    /\ paToTrack[p] # 0 =>
         /\ frame.tracks[paToTrack[p]] = event.pa[p].own
         /\ paToParticle[p] # 0 /\ frame.particles[paToParticle[p]].pa = event.pa[p].own
    /\ \A t \in DOMAIN frame.tracks :
         /\ Matchable(p) /\ frame.tracks[t] = event.pa[p].own
         /\ Cost(event.pa[p].perigee, t) < Tolerance
         => paToTrack[p] # 0

\* +1 for a particle some PA is matched with, -1 for a neutral one, 0 for the
\* rest (MatchProvenance.h), at every point of the walk and even if several PAs
\* are matched with one track; a neutral particle is never matched.
ProvenanceTells ==
  \A q \in DOMAIN frame.particles :
    /\ provenance[q] = 1 <=> PasOf(q) # {}
    /\ provenance[q] = -1 <=> frame.particles[q].charge = "neutral"

\* The clone of a track has all elements, extrapolated points and AABTAG states
\* of the PAs matched with its particle, and nothing else: TrackHybrid goes by
\* fdst_pa_to_sdst_track, everything that names the particle by
\* fdst_pa_to_sdst_particle.
TracksGainTheirOwn ==
  \A q \in DOMAIN particles : particles[q].track # 0 =>
    LET t == tracks[particles[q].track] IN
    /\ t.segments = UNION {Members(Objects(p, event.pa[p].segments)) : p \in PasOf(q)}
    /\ t.planes = UNION {Members(Objects(p, event.pa[p].planes)) : p \in PasOf(q)}
    /\ t.states = UNION {Members(Objects(p, event.pa[p].points)) : p \in PasOf(q)}
    /\ t.atVertex = {k \in DOMAIN event.aabtag : event.aabtag[k].pa \in PasOf(q)}

\* In the end each particle is named by a row for every module and every AABTAG
\* track of its PAs, and by no other; its dE/dx has its track; AABTAG's vertex
\* has those AABTAG attached.  Rows of unmatched PAs exist only for AABTAG.
RowsAreComplete ==
  writer = "done" =>
    /\ \A q \in DOMAIN particles :
         {<<r.bank, r.pa>> : r \in {r \in rows : r.particle = q}} =
           (UNION {{<<b, p>> : b \in event.pa[p].banks} : p \in PasOf(q)}) \cup
           {<<"AABTAG", event.aabtag[k].pa>> :
              k \in {k \in DOMAIN event.aabtag : event.aabtag[k].pa \in PasOf(q)}}
    /\ \A r \in rows : r.bank = "MTPC" => r.track # 0 /\ r.track = particles[r.particle].track
    /\ \A r \in rows : r.particle = 0 => r.bank = "AABTAG" /\ Get(paToParticle, r.pa, 0) = 0
    /\ btagVertex = {q \in DOMAIN particles : \E k \in DOMAIN event.aabtag :
                       event.aabtag[k].attached /\ event.aabtag[k].pa \in PasOf(q)}

\* In the end every relation of pass 1 that pass 2 re-points is there between
\* the clones: none is lost because a clone did not exist yet.
ClonesKeepRelations ==
  writer = "done" =>
    /\ Len(particles) = Len(frame.particles) /\ Len(tracks) = Len(frame.tracks)
    /\ \A q \in DOMAIN particles :
         /\ particles[q].track = frame.particles[q].track
         /\ particles[q].clusters = {c \in DOMAIN frame.clusters :
                                       /\ frame.clusters[c].particle = q
                                       /\ frame.clusters[c].bank \in {"EMNC", "HCNC"}}
    /\ vertices = frame.vertices
    /\ clonedRows = frame.rows
    /\ links = frame.links

\* "The Particle->Cluster relation lives on the particle, so it must be
\* re-pointed here" (MainHybrid.cpp): a particle whose showers were cloned has
\* the clones of all of them.
ClonedShowersKeepTheirParticle ==
  writer = "done" =>
    \A c \in DOMAIN clusters : frame.clusters[c].particle # 0 =>
      c \in particles[frame.clusters[c].particle].clusters

-----------------------------------------------------------------------------
(***************************************************************************)
(* An inductive invariant that implies MatchesAreOwn and ProvenanceTells.  *)
(***************************************************************************)

\* The match of PA p.
MatchOf(p) == IF Matchable(p) THEN FindMatch(event.pa[p].perigee) ELSE 0

\* Both maps have an entry for each PA walked so far, of its match and of the
\* particle of its match.
MapsFollowTheWalk ==
  /\ EventShape(event)
  /\ at \in Nat \ {0}
  /\ paToTrack \in Seq(Nat)
  /\ paToParticle \in Seq(Nat)
  /\ Len(paToParticle) = Len(paToTrack)
  /\ writer = "MatchProvenance" => Len(paToTrack) = at - 1
  /\ \A p \in DOMAIN paToTrack :
       /\ p \in DOMAIN event.pa
       /\ paToTrack[p] = MatchOf(p)
       /\ paToParticle[p] = IF MatchOf(p) = 0 THEN 0 ELSE TrackToParticle(MatchOf(p))

IInv ==
  /\ MapsFollowTheWalk
  /\ provenance \in [DOMAIN frame.particles -> {-1, 0, 1}]
  /\ ProvenanceTells
-----------------------------------------------------------------------------
(***************************************************************************)
(* How far the hook is and what it has copied so far: an inductive         *)
(* invariant that implies, with IInv, the other properties.                *)
(***************************************************************************)

\* The place of a writer in the order; an event is given up at PidHybrid.
Place(w) ==
  CASE w = "MatchProvenance" -> 1
    [] w = "TrackElements"   -> 2
    [] w = "Trax"            -> 3
    [] w = "TrackHybrid"     -> 4
    [] w = "ShowerHybrid"    -> 5
    [] w = "MainHybrid"      -> 6
    [] w = "VertexHybrid"    -> 7
    [] w = "Tof"             -> 8
    [] w = "Mtpc"            -> 9
    [] w = "PaPidExtras"     -> 10
    [] w = "PidHybrid"       -> 11
    [] w = "refused"         -> 11
    [] w = "TblHybrid"       -> 12
    [] w = "Btag"            -> 13
    [] OTHER                 -> 14

\* The rounds writer w has made so far.
Rounds(w) == IF Place(writer) < Place(w) THEN 0
             ELSE IF Place(writer) = Place(w) THEN at - 1 ELSE Limit(w)

InStep ==
  /\ writer \in {Writers[k] : k \in DOMAIN Writers} \cup {"done", "refused"}
  /\ writer \notin {"done", "refused"} => at <= Limit(writer) + 1
  /\ writer = "refused" => at <= 2
  /\ Len(paToTrack) = Rounds("MatchProvenance")

FeedsAreOwn ==
  /\ trackElements = [p \in 1 .. Rounds("TrackElements") |->
                        [segments |-> Objects(p, event.pa[p].segments),
                         planes   |-> Objects(p, event.pa[p].planes)]]
  /\ trax = [p \in 1 .. Rounds("Trax") |-> Objects(p, event.pa[p].points)]

\* The clone of track t, when the PAs of the full DST are known.
TrackClone(t) ==
  [pa       |-> frame.tracks[t],
   segments |-> UNION {Members(Objects(p, event.pa[p].segments)) : p \in TrackToPas(t)},
   planes   |-> UNION {Members(Objects(p, event.pa[p].planes)) : p \in TrackToPas(t)},
   states   |-> UNION {Members(Objects(p, event.pa[p].points)) : p \in TrackToPas(t)},
   atVertex |-> {LpaToTrack(p) : p \in TrackToPas(t)} \ {0}]

ClustersOf(q) == {c \in DOMAIN frame.clusters :
                    /\ frame.clusters[c].particle = q
                    /\ frame.clusters[c].bank \in {"EMNC", "HCNC"}}

TracksFollow == tracks = [t \in 1 .. Rounds("TrackHybrid") |-> TrackClone(t)]

ShowersFollow ==
  DOMAIN clusters = {c \in DOMAIN frame.clusters :
                       frame.clusters[c].bank # "SSTC" /\ Rounds("ShowerHybrid") = 1}

ParticlesFollow ==
  particles = [q \in 1 .. Rounds("MainHybrid") |->
                 [pa |-> frame.particles[q].pa, track |-> frame.particles[q].track,
                  clusters |-> ClustersOf(q)]]

VerticesFollow ==
  /\ vertices = [v \in 1 .. Rounds("VertexHybrid") |-> frame.vertices[v]]
  /\ sp \in Nat \ {0}
  /\ writer # "VertexHybrid" => sp = 1
  /\ sp = 1 \/ (at <= Len(frame.vertices) /\ sp <= Len(frame.vertices[at]) + 1)
  /\ dv = [k \in 1 .. sp - 1 |-> frame.vertices[at][k]]

RelationsFollow ==
  /\ clonedRows = IF Rounds("PidHybrid") = 1 THEN frame.rows ELSE {}
  /\ links = IF Rounds("TblHybrid") = 1 THEN frame.links ELSE {}

\* Each collection is cloned in order and up to the round its writer is at; what
\* a relation is re-pointed to is complete by then.
ClonesFollow == /\ TracksFollow /\ ShowersFollow /\ ParticlesFollow /\ VerticesFollow
                /\ RelationsFollow

\* The rows of module bank of the first n PAs, and of the first n AABTAG tracks.
PaRows(bank, n) ==
  {[bank |-> bank, pa |-> p, source |-> p, particle |-> paToParticle[p],
    track |-> IF bank = "MTPC" THEN frame.particles[paToParticle[p]].track ELSE 0] :
     p \in {p \in 1 .. n : bank \in event.pa[p].banks /\ paToParticle[p] # 0}}

AabtagRows(n) ==
  {[bank |-> "AABTAG", pa |-> event.aabtag[k].pa, source |-> k,
    particle |-> paToParticle[event.aabtag[k].pa], track |-> 0] : k \in 1 .. n}

\* Exactly the rows of the PAs and AABTAG tracks walked so far.
RowsFollow ==
  /\ rows = PaRows("TOF", Rounds("Tof")) \cup PaRows("MTPC", Rounds("Mtpc"))
              \cup PaRows("MU", Rounds("PaPidExtras")) \cup AabtagRows(Rounds("Btag"))
  /\ btagVertex = {paToParticle[event.aabtag[k].pa] :
                     k \in {k \in 1 .. Rounds("Btag") :
                              event.aabtag[k].attached /\ paToParticle[event.aabtag[k].pa] # 0}}

\* Inductive together with IInv: no writer reads what is not complete.
CopyHolds == InStep /\ FeedsAreOwn /\ ClonesFollow /\ RowsFollow
=============================================================================
