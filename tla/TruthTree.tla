------------------------------ MODULE TruthTree ------------------------------
(***************************************************************************)
(* The simulation record of an event: TruthGenWriter::emit() merges the    *)
(* generator's list of particles with the tracks DELSIM followed into one  *)
(* tree of MCParticles (src/Truth/Truth.cpp, 107-146 and 164-298).  DELSIM *)
(* knows where the particles it tracked started; the others are placed by  *)
(* two walks over the record, against each other's order.                  *)
(*                                                                         *)
(* The event is any of those in Events.  A loop of the code takes one step *)
(* per round.  Positions are numbers, whose distance is the displacement;  *)
(* momenta, masses and charges are left out.  An operator whose name       *)
(* starts with Mut is a wrong form of the operator that follows it.        *)
(***************************************************************************)
EXTENDS Integers, Sequences, FiniteSets

CONSTANTS
  Events,      \* the events emit() may be given
  MTRACK,      \* simulated tracks that fit the second half of VECP
  Unset        \* std::nullopt

(***************************************************************************)
(* lines: LUJETS, nGen of them (none for data), each with its mother,      *)
(* KP(i,3) (0: none), and start, VP(i), 0 if DELSIM did not track it.      *)
(* primary: the simulated primary vertex.  tracks: DELSIM's, with their    *)
(* line (0: made by DELSIM), origin and end vertex (0: none).  vertices:   *)
(* the position of each, and the track that enters it (0: none).           *)
(***************************************************************************)
EventShape(e) ==
  /\ e.lines \in Seq([mother : Int, start : Int])
  /\ e.primary \in Int \cup {Unset}
  /\ e.tracks \in Seq([line : Nat, origin : Nat, end : Nat])
  /\ e.vertices \in Seq([position : Int, entering : Nat])
  \* LUJETS lists every parent before its daughters.
  /\ \A i \in DOMAIN e.lines : e.lines[i].mother < i
  \* A line is tracked once, and a track ends where it enters a vertex.
  /\ \A t, u \in DOMAIN e.tracks : e.tracks[t].line = e.tracks[u].line /\ e.tracks[t].line # 0 => t = u
  /\ \A t \in DOMAIN e.tracks :
       /\ e.tracks[t].line <= Len(e.lines)
       /\ e.tracks[t].end <= Len(e.vertices)
       /\ e.tracks[t].origin <= Len(e.vertices)
       /\ e.tracks[t].end # 0 => e.vertices[e.tracks[t].end].entering = t
  /\ \A k \in DOMAIN e.vertices : LET t == e.vertices[k].entering IN
       t # 0 => t <= Len(e.tracks) /\ e.tracks[t].end = k
  \* A track starts after the one that made it.
  /\ \E time \in [DOMAIN e.tracks -> 0 .. Len(e.tracks)] : \A t \in DOMAIN e.tracks :
       LET k == e.tracks[t].origin IN
       k # 0 => LET maker == e.vertices[k].entering IN
                maker # 0 => time[maker] < time[t]

ASSUME TruthAssumption ==
  /\ Unset \notin Int
  /\ MTRACK \in Nat
  /\ \A e \in Events : EventShape(e)

VARIABLES
  event,
  loop,              \* the loop that is running
  index,             \* its index
  productionPoint,   \* by line
  decayPoint,        \* by line
  mc,                \* STSH_MCParticles: vertex, endpoint, parents and daughters
  bestDisp,          \* by line: how far the daughter is that gave the endpoint
  particleOfTrack    \* by track: its MCParticle

points    == <<productionPoint, decayPoint>>
tree      == <<mc, bestDisp, particleOfTrack>>
truthVars == <<event, loop, index, points, tree>>

nGen    == Len(event.lines)
\* Of the tracks only the first MTRACK are read (128-140).
nTracks == IF Len(event.tracks) > MTRACK THEN MTRACK ELSE Len(event.tracks)
Mother(i) == event.lines[i].mother
HasMother(i) == Mother(i) \in 1 .. i - 1
Tracked(i) == event.lines[i].start # 0

\* The position of simulated vertex k, and the track entering it.
SimulatedVertexPosition(k) == IF k \in DOMAIN event.vertices THEN event.vertices[k].position ELSE Unset
TrackEnteringVertex(k) == IF k \in DOMAIN event.vertices THEN event.vertices[k].entering ELSE 0

\* A new MCParticle: vertex and endpoint at the origin, unless it has a start.
MCParticle(start) == [vertex |-> IF start = Unset THEN 0 ELSE start, endpoint |-> 0,
                      parents |-> <<>>, daughters |-> <<>>]

\* Particle p becomes a parent of particle d.
Related(m, p, d) == [m EXCEPT ![d].parents = Append(@, p), ![p].daughters = Append(@, d)]
-----------------------------------------------------------------------------
TruthInit ==
  /\ event \in Events
  /\ loop = "decay" /\ index = nGen
  /\ productionPoint = [i \in 1 .. nGen |-> IF Tracked(i) THEN event.lines[i].start ELSE Unset]
  /\ decayPoint = [i \in 1 .. nGen |-> Unset]
  /\ mc = <<>> /\ bestDisp = [i \in 1 .. nGen |-> -1]
  /\ particleOfTrack = <<>>

\* The loops, in the order they run, and where the next one starts.
After == [decay |-> "production", production |-> "create", create |-> "graph",
          graph |-> "particles", particles |-> "ends", ends |-> "done"]

InRange == CASE loop = "decay"                                -> index >= 1
             [] loop \in {"production", "create", "graph"}    -> index <= nGen
             [] loop \in {"particles", "ends"}                -> index <= nTracks
             [] OTHER                                         -> TRUE

NextLoop ==
  /\ loop # "done" /\ ~InRange
  /\ loop' = After[loop]
  /\ index' = 1
  /\ UNCHANGED <<event, points, tree>>

LoopRound(l, step) ==
  /\ loop = l /\ InRange
  /\ index' = index + step
  /\ UNCHANGED <<event, loop>>

(***************************************************************************)
(* Backwards over the record: a mother decays where a tracked daughter     *)
(* starts, or where a generator-only daughter decays if nothing better is  *)
(* known.                                                                  *)
(***************************************************************************)
MutDecayAt(daughter, m) ==
  IF productionPoint[daughter] # Unset THEN productionPoint[daughter] ELSE decayPoint[daughter]

DecayAt(daughter, m) ==
  IF productionPoint[daughter] # Unset THEN productionPoint[daughter]
  ELSE IF decayPoint[m] = Unset        THEN decayPoint[daughter]
  ELSE                                      decayPoint[m]

DecayRound ==
  /\ LoopRound("decay", -1)
  /\ decayPoint' = IF HasMother(index)
                   THEN [decayPoint EXCEPT ![Mother(index)] = DecayAt(index, Mother(index))]
                   ELSE decayPoint
  /\ UNCHANGED <<productionPoint, tree>>

\* Forwards: a generator-only particle starts where its mother decayed, else
\* where she started, and without a mother at the primary vertex.
StartOf(i) ==
  IF ~HasMother(i)                       THEN event.primary
  ELSE IF decayPoint[Mother(i)] # Unset  THEN decayPoint[Mother(i)]
  ELSE                                        productionPoint[Mother(i)]

ProductionRound ==
  /\ LoopRound("production", 1)
  /\ productionPoint' = IF productionPoint[index] = Unset
                        THEN [productionPoint EXCEPT ![index] = StartOf(index)]
                        ELSE productionPoint
  /\ UNCHANGED <<decayPoint, tree>>

CreateRound ==
  /\ LoopRound("create", 1)
  /\ mc' = Append(mc, MCParticle(productionPoint[index]))
  /\ UNCHANGED <<points, bestDisp, particleOfTrack>>

\* The squared distance between the starts of two particles.
Displacement(p, d) == (mc[d].vertex - mc[p].vertex) * (mc[d].vertex - mc[p].vertex)

\* Does daughter d give its parent p the endpoint?
MutIsFarther(p, d) == TRUE

IsFarther(p, d) == Displacement(p, d) > bestDisp[p]

(***************************************************************************)
(* Edges between the lines; a particle ends where its most displaced       *)
(* daughter starts.                                                        *)
(***************************************************************************)
GraphRound ==
  /\ LoopRound("graph", 1)
  /\ IF Mother(index) \in 1 .. nGen
     THEN LET p == Mother(index) IN
          /\ mc' = IF IsFarther(p, index)
                   THEN [Related(mc, p, index) EXCEPT ![p].endpoint = mc[index].vertex]
                   ELSE Related(mc, p, index)
          /\ bestDisp' = IF IsFarther(p, index)
                         THEN [bestDisp EXCEPT ![p] = Displacement(p, index)]
                         ELSE bestDisp
     ELSE UNCHANGED <<mc, bestDisp>>
  /\ UNCHANGED <<points, particleOfTrack>>

\* The MCParticle of each simulated track: its line's, or a new one.
ParticlesRound ==
  LET track == event.tracks[index] IN
  /\ LoopRound("particles", 1)
  /\ IF track.line \in 1 .. nGen
     THEN /\ particleOfTrack' = Append(particleOfTrack, track.line)
          /\ UNCHANGED mc
     ELSE /\ mc' = Append(mc, MCParticle(SimulatedVertexPosition(track.origin)))
          /\ particleOfTrack' = Append(particleOfTrack, Len(mc) + 1)
  /\ UNCHANGED <<points, bestDisp>>

\* Where DELSIM ended particle p, which replaces the estimate above.
Ended(m, p, end) ==
  IF SimulatedVertexPosition(end) # Unset
  THEN [m EXCEPT ![p].endpoint = SimulatedVertexPosition(end)]
  ELSE m

\* The track that made track t, if DELSIM made it and it is known.
MutMaker(t) == TrackEnteringVertex(event.tracks[t].origin)

Maker(t) == IF event.tracks[t].line >= 1 THEN 0 ELSE TrackEnteringVertex(event.tracks[t].origin)

(***************************************************************************)
(* Where DELSIM ended each track, and who made each particle of DELSIM's.  *)
(***************************************************************************)
EndsRound ==
  LET p == particleOfTrack[index]
      ended == Ended(mc, p, event.tracks[index].end)
  IN
  /\ LoopRound("ends", 1)
  /\ mc' = IF Maker(index) \in 1 .. nTracks
           THEN Related(ended, particleOfTrack[Maker(index)], p)
           ELSE ended
  /\ UNCHANGED <<points, bestDisp, particleOfTrack>>

TruthDone == loop = "done" /\ UNCHANGED truthVars

TruthNext == NextLoop \/ DecayRound \/ ProductionRound \/ CreateRound \/ GraphRound
               \/ ParticlesRound \/ EndsRound \/ TruthDone

TruthSpec == TruthInit /\ [][TruthNext]_truthVars
-----------------------------------------------------------------------------
TruthTypeOK ==
  /\ EventShape(event)
  /\ loop \in DOMAIN After \cup {"done"}
  /\ index \in Int
  /\ productionPoint \in [1 .. nGen -> Int \cup {Unset}]
  /\ decayPoint \in [1 .. nGen -> Int \cup {Unset}]
  /\ mc \in Seq([vertex : Int, endpoint : Int, parents : Seq(Nat), daughters : Seq(Nat)])
  /\ bestDisp \in [1 .. nGen -> Int]
  /\ particleOfTrack \in Seq(Nat)

-----------------------------------------------------------------------------
Daughters(i) == {d \in 1 .. nGen : Mother(d) = i}

\* The tracked particles that come from line i by generator-only ones.
TrackedBelow ==
  LET below[i \in 1 .. nGen] ==
        UNION {IF Tracked(d) THEN {d} ELSE below[d] : d \in Daughters(i)}
  IN  below

Starts(D) == {event.lines[d].start : d \in D}

\* A generator-only particle is placed by its family: where one of its
\* mother's tracked daughters starts; if she has none, where the nearest
\* tracked descendants of hers do; if she has none either, where she started;
\* and without a mother at the primary vertex (Truth.cpp, 174-209).
PlacedByTheFamily ==
  loop = "done" =>
    \A i \in 1 .. nGen :
      LET m == Mother(i)
          v == mc[i].vertex
          tracked == {d \in Daughters(m) : Tracked(d)}
      IN  IF Tracked(i)                  THEN v = event.lines[i].start
          ELSE IF m < 1                  THEN v = IF event.primary = Unset THEN 0 ELSE event.primary
          ELSE IF tracked # {}           THEN v \in Starts(tracked)
          ELSE IF TrackedBelow[m] # {}   THEN v \in Starts(TrackedBelow[m])
          ELSE                                v = mc[m].vertex

\* A particle ends where DELSIM ended it; else where its most displaced
\* daughter starts, if it has one; else it keeps the default (Truth.cpp,
\* 226-232 and 277-287).
EndsWhereItDecays ==
  loop = "done" =>
    /\ \A t \in 1 .. nTracks :
         SimulatedVertexPosition(event.tracks[t].end) # Unset =>
           mc[particleOfTrack[t]].endpoint = SimulatedVertexPosition(event.tracks[t].end)
    /\ \A p \in 1 .. nGen :
         LET ended == \E t \in 1 .. nTracks : event.tracks[t].line = p /\ event.tracks[t].end # 0
             D == Daughters(p)
         IN  ~ended =>
               IF D = {} THEN mc[p].endpoint = 0
               ELSE /\ \E d \in D : mc[p].endpoint = mc[d].vertex
                    /\ \A d \in D : LET x == mc[p].endpoint - mc[p].vertex
                                    IN  Displacement(p, d) <= x * x

\* A particle of the generator has its mother as its only parent, whether or
\* not DELSIM tracked it; one that DELSIM made has the particle of the track
\* that enters its origin, if that track was read, and starts where it ended
\* (Truth.cpp, 224-240 and 277-293).
MadeByTheirParent ==
  loop = "done" =>
    /\ \A i \in 1 .. nGen : mc[i].parents = IF Mother(i) < 1 THEN <<>> ELSE <<Mother(i)>>
    /\ \A t \in 1 .. nTracks : event.tracks[t].line = 0 =>
         LET d == particleOfTrack[t]
             maker == TrackEnteringVertex(event.tracks[t].origin)
         IN  IF maker \notin 1 .. nTracks THEN mc[d].parents = <<>>
             ELSE /\ mc[d].parents = <<particleOfTrack[maker]>>
                  /\ mc[d].vertex = mc[particleOfTrack[maker]].endpoint
=============================================================================
