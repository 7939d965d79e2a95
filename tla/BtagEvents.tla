------------------------------ MODULE BtagEvents ------------------------------
(***************************************************************************)
(* B tagging from event to event.  SKELANA's PSBEG looks the beam spot up  *)
(* and, if that succeeds, runs AABTAG, whose results stay in Fortran       *)
(* COMMON blocks until something overwrites them; the writers of the event *)
(* hook read the commons later (src/Btag/Btag.cpp, AabtagTrackState.cpp),  *)
(* and delphi_btag_check reads the frame.  A common is known here by the   *)
(* event that wrote it last, so a word of a frame that belongs to another  *)
(* event shows.                                                            *)
(*                                                                         *)
(* An operator whose name starts with Mut is a wrong form of the operator  *)
(* that follows it.                                                        *)
(***************************************************************************)
EXTENDS Integers, Sequences, FiniteSets

CONSTANTS
  Shapes,      \* the records a job may read, see RecordShape
  MaxEvents,   \* bound: how many it reads
  MaxTracks,   \* kMaxTracks, the dimension of AABTAG's arrays: 100
  NaN          \* kNaN; also: no particle

(***************************************************************************)
(* One record.  hooked: the harness gives it to on_event, it is not a      *)
(* header, a redelivery, the set-up record or without a frame of pass 1.   *)
(* beamSpot: what the database says of it.  stored: it has a BTAG bank.    *)
(* ibad: how AABTGS ends.  tracks: those eligible for AABTAG, with their   *)
(* PA.  hypos: secondary vertices, with signed track indices.  tracked and *)
(* particles: the PAs that TrackingWriter (pass 2: the perigee match) has  *)
(* a track and a particle for.                                             *)
(***************************************************************************)
RecordShape(e) ==
  /\ e.hooked \in BOOLEAN /\ e.simulated \in BOOLEAN /\ e.stored \in BOOLEAN
  /\ e.beamSpot \in 0 .. 2
  /\ e.ibad \in 0 .. 2
  /\ e.tracks \in Seq([pa : Nat, attached : BOOLEAN, measured : BOOLEAN])
  /\ \A i, j \in DOMAIN e.tracks : e.tracks[i].pa = e.tracks[j].pa => i = j
  /\ e.jets \in Seq([hemi : 1 .. 2, tagged : BOOLEAN, x : Int])
  /\ e.hypos \in Seq([accepted : BOOLEAN, isec : Seq(Int)])
  /\ \A h \in DOMAIN e.hypos : \A k \in DOMAIN e.hypos[h].isec :
       LET i == e.hypos[h].isec[k]
       IN  i # 0 /\ i <= Len(e.tracks) /\ i <= MaxTracks /\ -i <= Len(e.tracks) /\ -i <= MaxTracks
  /\ e.tracked \subseteq Nat
  /\ e.particles \subseteq Nat

ASSUME BtagAssumption ==
  /\ MaxEvents \in Nat
  /\ MaxTracks \in Nat
  /\ NaN \notin Int
  /\ \A e \in Shapes : RecordShape(e)

\* What PSFBTG (AABTGS) fills, AAJESV with AASCND; and what the combined tag
\* fills, AACTVR with AACTRS.
LifetimeCommons == {"AAMAIN", "AAMNVX", "AAJETS", "AASCND"}
Commons == LifetimeCommons \cup {"AACTRS"}

VARIABLES
  pc,          \* where the job is with the record
  n, event,    \* number and shape of the record
  database,    \* could the beam-spot database be opened?
  looked,      \* has VDBSPT been called before?
  pscbsp,      \* IERRBS, and are the widths nonzero?
  ibad,        \* AAFLAG: IBAD
  common,      \* who wrote each common
  chi2tr,      \* AAMNVX: who wrote slot i of CHI2TR
  pscbtg,      \* who wrote PSCBTG, and from what
  drawn,       \* RNDM: numbers drawn
  reference,   \* history: the same, had the combined tag never run
  states,      \* the AtVertex states TrackingWriter attached
  frame,       \* the lifetime tag in the frame
  combined     \* the combined tag in the frame

status  == <<pscbsp, ibad>>
commons == <<common, chi2tr>>
random  == <<drawn, reference>>
output  == <<states, frame, combined>>
vars    == <<pc, n, event, database, looked, status, commons, pscbtg, random, output>>

Min(a, b) == IF a <= b THEN a ELSE b
Abs(i) == IF i < 0 THEN -i ELSE i

-----------------------------------------------------------------------------
(***************************************************************************)
(* What the commons say, read as of now.                                   *)
(***************************************************************************)
Of(c) == common[c].of
By(c) == common[c].by

\* AAMAIN holds no more tracks than its arrays do; NTRK saturates.
Held(e) == SubSeq(e.tracks, 1, Min(Len(e.tracks), MaxTracks))
NTRK == Len(Held(Of("AAMAIN")))
IADTR(i) == Held(Of("AAMAIN"))[i].pa

\* AAMNVX: which tracks are attached to the vertex, and how many.
INMVX(i) == i \in DOMAIN Held(Of("AAMNVX")) /\ Held(Of("AAMNVX"))[i].attached
NATTVX == Cardinality({i \in 1 .. MaxTracks : INMVX(i)})

\* AAJETS: is the distance of track i to its jet more than a placeholder?
Measured(i) == i \in DOMAIN Held(Of("AAJETS")) /\ Held(Of("AAJETS"))[i].measured

\* Is the AABTAG output of this event, and usable?
MutEventStatus(ierrbs, bad) == [code |-> bad, invoked |-> ierrbs = 0, valid |-> bad = 0]

EventStatus(ierrbs, bad) ==
  [code |-> bad, invoked |-> ierrbs = 0, valid |-> ierrbs = 0 /\ bad = 0]

Status == EventStatus(pscbsp.ierrbs, ibad)

-----------------------------------------------------------------------------
NoFrame == [n |-> 0]

\* The combined tag of an event that is not valid.
NoCombinedTag == [by |-> {}, jets |-> <<>>, best |-> [hemi \in 1 .. 2 |-> NaN], secondaries |-> <<>>]

Nothing(e) == [c \in Commons |-> [by |-> 0, of |-> e]]

\* Fortran commons start zeroed: every array empty, every code 0.
Blank == [hooked |-> FALSE, simulated |-> FALSE, stored |-> FALSE, beamSpot |-> 0,
          ibad |-> 0, tracks |-> <<>>, jets |-> <<>>, hypos |-> <<>>,
          tracked |-> {}, particles |-> {}]

Init ==
  /\ pc = "read" /\ n = 0 /\ event = Blank
  /\ database \in BOOLEAN
  /\ looked = FALSE
  /\ pscbsp = [ierrbs |-> 0, widths |-> FALSE]
  /\ ibad = 0
  /\ common = Nothing(Blank)
  /\ chi2tr = [i \in 1 .. MaxTracks |-> 0]
  /\ pscbtg = [by |-> 0, from |-> "nothing"]
  /\ drawn = 0 /\ reference = 0
  /\ states = {}
  /\ frame = NoFrame /\ combined = NoCombinedTag

(***************************************************************************)
(* PSBEAM.  Without the file, VDBSPT leaves the zeroed commons alone the   *)
(* first time and reports code 2 from then on.                             *)
(***************************************************************************)
Psbeam(e) ==
  /\ looked' = TRUE
  /\ pscbsp' = IF database     THEN [ierrbs |-> e.beamSpot, widths |-> TRUE]
               ELSE IF ~looked THEN pscbsp
               ELSE                 [ierrbs |-> 2, widths |-> FALSE]

(***************************************************************************)
(* PSFBTG.  It prefills PSCBTG and calls AABTGS only for code 0.  AABTGS   *)
(* smears the impact parameters of simulation, sets IBAD, and fills its    *)
(* commons: all of them, or AAMAIN and any others if it fails.  CHI2TR is  *)
(* written for the attached tracks only.                                   *)
(***************************************************************************)
Psfbtg(e, written) ==
  IF pscbsp'.ierrbs # 0
  THEN /\ pscbtg' = [by |-> n', from |-> "prefill"]
       /\ UNCHANGED <<ibad, commons, random>>
  ELSE /\ pscbtg' = [by |-> n', from |-> IF e.ibad = 0 THEN "recalculation" ELSE "prefill"]
       /\ ibad' = e.ibad
       /\ common' = [c \in Commons |-> IF c \in written THEN [by |-> n', of |-> e] ELSE common[c]]
       /\ chi2tr' = [i \in 1 .. MaxTracks |->
                       IF /\ "AAMNVX" \in written
                          /\ i \in DOMAIN Held(e)
                          /\ Held(e)[i].attached
                       THEN n' ELSE chi2tr[i]]
       /\ drawn' = IF e.simulated THEN drawn + 1 ELSE drawn
       /\ reference' = IF e.simulated THEN reference + 1 ELSE reference

\* PHDST delivers the next record and user02 calls PSBEG.
Psbeg ==
  /\ pc = "read"
  /\ n < MaxEvents
  /\ n' = n + 1
  /\ event' \in Shapes
  /\ Psbeam(event')
  /\ \E written \in SUBSET LifetimeCommons :
       /\ "AAMAIN" \in written
       /\ event'.ibad = 0 => written = LifetimeCommons
       /\ Psfbtg(event', written)
  /\ pc' = IF event'.hooked THEN "require" ELSE "read"
  /\ UNCHANGED <<database, output>>

\* A record that is not of type DST: PSBEG zeroes SKELANA's commons and fills none
\* (docs/README.md 213-219).  AABTAG's are not SKELANA's and stay as they are.
PsbegZeroes ==
  /\ pc = "read"
  /\ n < MaxEvents
  /\ n' = n + 1
  /\ event' \in {e \in Shapes : ~e.hooked}
  /\ pscbsp' = [ierrbs |-> 0, widths |-> FALSE]
  /\ pscbtg' = [by |-> 0, from |-> "nothing"]
  /\ UNCHANGED <<pc, database, looked, ibad, commons, random, output>>

\* on_event starts with requireDatabase(), which throws if code 0 comes with
\* zero widths; the harness then stops the job.
RequireDatabase ==
  /\ pc = "require"
  /\ pc' = IF pscbsp.ierrbs = 0 /\ ~pscbsp.widths THEN "failed" ELSE "track"
  /\ UNCHANGED <<n, event, database, looked, status, commons, pscbtg, random, output>>

(***************************************************************************)
(* TrackingWriter in pass 1, TrackHybridWriter in pass 2: each track whose *)
(* PA is one of AABTAG's gets a state at AABTAG's vertex.                  *)
(***************************************************************************)
LpaToTrack == IF Status.valid THEN {<<IADTR(i), i>> : i \in 1 .. NTRK} ELSE {}

AttachStates ==
  /\ pc = "track"
  /\ states' = {[pa |-> p[1], by |-> {By("AAMAIN"), By("AAMNVX")}] :
                  p \in {q \in LpaToTrack : q[1] \in event.tracked}}
  /\ pc' = "tag"
  /\ UNCHANGED <<n, event, database, looked, status, commons, pscbtg, random, frame, combined>>

-----------------------------------------------------------------------------
\* The words of PSCBTG, or NaN where they are not valid or still the prefill.
EventLevel(words, valid) ==
  IF valid /\ words.from # "prefill" THEN words ELSE [by |-> 0, from |-> NaN]

\* PSHBTG refills PSCBTG from the stored bank, or prefills it.
Pshbtg == [by |-> n, from |-> IF event.stored THEN "bank" ELSE "prefill"]

\* The particle of the PA of AABTAG's track i, or none.
ParticleOf(i) == IF IADTR(i) \in event.particles THEN IADTR(i) ELSE NaN

\* One row of AABTAG_TrackTag.
MutTrackRow(i) ==
  [by |-> {By("AAMAIN"), By("AAMNVX"), By("AAJETS"), By("AASCND")},
   attached |-> INMVX(i),
   chi2 |-> chi2tr[i],
   phiv |-> Measured(i), distj |-> Measured(i),
   particle |-> ParticleOf(i)]

TrackRow(i) ==
  [by |-> {By("AAMAIN"), By("AAMNVX"), By("AAJETS"), By("AASCND")},
   attached |-> INMVX(i),
   chi2 |-> IF INMVX(i) THEN chi2tr[i] ELSE NaN,
   phiv |-> Measured(i), distj |-> Measured(i),
   particle |-> ParticleOf(i)]

(***************************************************************************)
(* BtagWriter::emit up to the combined tag: both tags, AABTAG's vertex and *)
(* one row per track it used.                                              *)
(***************************************************************************)
EmitTags ==
  LET rows == IF Status.valid THEN [i \in 1 .. NTRK |-> TrackRow(i)] ELSE <<>>
      raw  == IF Status.invoked THEN NTRK ELSE 0
  IN
  /\ pc = "tag"
  /\ frame' = [n |-> n, status |-> Status, ierrbs |-> pscbsp.ierrbs,
               aabtag |-> EventLevel(pscbtg, Status.valid),
               btg |-> EventLevel(Pshbtg, TRUE),
               rows |-> rows, nTracks |-> Len(rows),
               raw |-> raw, rawBy |-> IF Status.invoked THEN By("AAMAIN") ELSE n,
               attached |-> IF Status.valid THEN NATTVX ELSE 0,
               truncated |-> Status.valid /\ raw >= MaxTracks,
               vertex |-> IF Status.valid
                          THEN {[by |-> By("AAMNVX"),
                                 particles |-> {rows[i].particle : i \in
                                   {i \in DOMAIN rows : rows[i].attached /\ rows[i].particle # NaN}}]}
                          ELSE {}]
  /\ pscbtg' = Pshbtg
  /\ pc' = "combine"
  /\ UNCHANGED <<n, event, database, looked, status, commons, random, states, combined>>

-----------------------------------------------------------------------------
\* One entry of AABTAG_SecondaryVertices; a negative index is a track that
\* entered the fit in r-phi only.
MutSecondary(h) ==
  [by |-> {By("AASCND"), By("AAMAIN")},
   accepted |-> h.accepted,
   isec |-> h.isec,
   particles |-> {ParticleOf(i) : i \in {h.isec[k] : k \in DOMAIN h.isec} \cap (1 .. NTRK)} \ {NaN}]

Secondary(h) ==
  [by |-> {By("AASCND"), By("AAMAIN")},
   accepted |-> h.accepted,
   isec |-> h.isec,
   particles |-> {ParticleOf(Abs(h.isec[k])) : k \in DOMAIN h.isec} \ {NaN}]

\* hemiBest: NaN until the hemisphere's first tagged jet, the largest after.
MutHemiBest(jets, hemi) ==
  LET best[j \in 0 .. Len(jets)] ==
        IF j = 0 THEN NaN
        ELSE IF jets[j].tagged /\ jets[j].hemi = hemi THEN jets[j].x ELSE best[j - 1]
  IN  best[Len(jets)]

HemiBest(jets, hemi) ==
  LET best[j \in 0 .. Len(jets)] ==
        IF j = 0 THEN NaN
        ELSE IF /\ jets[j].tagged /\ jets[j].hemi = hemi
                /\ best[j - 1] = NaN \/ jets[j].x > best[j - 1]
             THEN jets[j].x
             ELSE best[j - 1]
  IN  best[Len(jets)]

\* The jets are those of AAJETS, their tags those of AACTRS.
CombinedTag(actrs) ==
  [by |-> {By("AAJETS"), actrs.by},
   jets |-> Of("AAJETS").jets,
   best |-> [hemi \in 1 .. 2 |-> HemiBest(actrs.of.jets, hemi)],
   secondaries |-> [h \in DOMAIN Of("AASCND").hypos |-> Secondary(Of("AASCND").hypos[h])]]

\* RDMIN puts the generator back where RDMOUT found it before the tag drew.
Rdmin(seed) == seed

(***************************************************************************)
(* emitCombinedTag: on a valid event AACMBT and AACMZ0 run between RDMOUT  *)
(* and RDMIN and fill AACTRS and AACTVR; then the secondary vertices and   *)
(* the jets are written.                                                   *)
(***************************************************************************)
EmitCombinedTag ==
  LET actrs == [by |-> n, of |-> Of("AAJETS")] IN
  /\ pc = "combine"
  /\ IF Status.valid
     THEN /\ common' = [common EXCEPT !["AACTRS"] = actrs]
          /\ drawn' = Rdmin(drawn)
          /\ combined' = CombinedTag(actrs)
     ELSE UNCHANGED <<common, drawn, combined>>
  /\ pc' = "write"
  /\ UNCHANGED <<n, event, database, looked, status, chi2tr, pscbtg, reference, states, frame>>

\* The harness writes the frame; nothing of it stays in memory.
WriteFrame ==
  /\ pc = "write"
  /\ pc' = "read"
  /\ states' = {}
  /\ frame' = NoFrame
  /\ combined' = NoCombinedTag
  /\ UNCHANGED <<n, event, database, looked, status, commons, pscbtg, random>>

Next == Psbeg \/ PsbegZeroes \/ RequireDatabase \/ AttachStates
          \/ EmitTags \/ EmitCombinedTag \/ WriteFrame

Spec == Init /\ [][Next]_vars

-----------------------------------------------------------------------------
(***************************************************************************)
(* delphi_btag_check, for the frame as it is written: would it count no    *)
(* failure?  Presence and range of the parameters are left out.            *)
(***************************************************************************)
CheckPasses ==
  /\ Len(frame.rows) = frame.nTracks
  /\ \A i \in DOMAIN frame.rows :
       /\ frame.rows[i].chi2 = NaN <=> ~frame.rows[i].attached
       /\ frame.rows[i].phiv = frame.rows[i].distj
  /\ Cardinality(states) = frame.nTracks
  /\ Cardinality(frame.vertex) = IF frame.status.valid THEN 1 ELSE 0
  /\ \A v \in frame.vertex : Cardinality(v.particles) = frame.attached
  /\ Cardinality({i \in DOMAIN frame.rows : frame.rows[i].attached}) = frame.attached

-----------------------------------------------------------------------------
Control == {"read", "require", "track", "tag", "combine", "write", "failed"}

\* Every variable has its type; the frame's is what its writers put there.
TypeOK ==
  /\ pc \in Control
  /\ n \in 0 .. MaxEvents
  /\ event \in Shapes \cup {Blank}
  /\ database \in BOOLEAN /\ looked \in BOOLEAN
  /\ pscbsp \in [ierrbs : 0 .. 2, widths : BOOLEAN]
  /\ ibad \in 0 .. 2
  /\ common \in [Commons -> [by : 0 .. n, of : Shapes \cup {Blank}]]
  /\ chi2tr \in [1 .. MaxTracks -> 0 .. n]
  /\ pscbtg \in [by : 0 .. n, from : {"nothing", "prefill", "recalculation", "bank"}]
  /\ drawn \in Nat /\ reference \in Nat

\* Nothing in a frame belongs to another event.  AABTAG's commons keep the
\* last event's values when it gives up or is not called, and so do single
\* slots of CHI2TR; what is written of them is of this event, or NaN, or not
\* there (Btag.cpp, 116-128, 166-171 and 202-205).
NothingStaleIsEmitted ==
  frame # NoFrame =>
    /\ frame.aabtag.from # NaN => frame.aabtag = [by |-> frame.n, from |-> "recalculation"]
    /\ frame.btg.from # NaN => frame.btg = [by |-> frame.n, from |-> "bank"]
    /\ frame.rawBy = frame.n
    /\ \A i \in DOMAIN frame.rows :
         /\ frame.rows[i].by = {frame.n}
         /\ frame.rows[i].chi2 \in {frame.n, NaN}
    /\ \A v \in frame.vertex : v.by = frame.n
    /\ \A s \in states : s.by = {frame.n}
    /\ combined.by \subseteq {frame.n}
    /\ \A h \in DOMAIN combined.secondaries : combined.secondaries[h].by = {frame.n}

\* delphi_btag_check passes a frame if and only if each track of AABTAG was
\* found among the tracks of the frame, and each one attached to its vertex
\* among the particles: the rows, the states and the vertex relation are
\* written by different writers from different commons.
CheckFindsTheUnresolved ==
  pc = "write" =>
    (CheckPasses <=> \A i \in DOMAIN frame.rows :
                       /\ IADTR(i) \in event.tracked
                       /\ frame.rows[i].attached => frame.rows[i].particle # NaN)

\* Every event's impact parameters are smeared with the random numbers they
\* would get from a converter that never calls the combined tag
\* (Btag.cpp, 339-347).
SmearingIsUndisturbed == pc = "read" => drawn = reference

\* CombinedTagHemisphere holds the largest X of the tagged jets of each
\* hemisphere, and NaN where there is none (Btag.cpp, 436-448).
HemispheresHoldTheirBest ==
  pc = "write" =>
    \A hemi \in 1 .. 2 :
      LET xs == {combined.jets[j].x : j \in
                  {j \in DOMAIN combined.jets :
                     combined.jets[j].tagged /\ combined.jets[j].hemi = hemi}}
          best == combined.best[hemi]
      IN  IF xs = {} THEN best = NaN ELSE best \in xs /\ \A x \in xs : x <= best

\* A secondary vertex has the particles of the AABTAG_TrackTag rows its
\* indices name, whatever their sign (Btag.cpp, 326-333 and 408-411).
SecondariesHaveTheirTracks ==
  pc = "write" =>
    \A h \in DOMAIN combined.secondaries :
      LET s == combined.secondaries[h] IN
      /\ \A k \in DOMAIN s.isec : Abs(s.isec[k]) \in DOMAIN frame.rows
      /\ s.particles = {frame.rows[Abs(s.isec[k])].particle : k \in DOMAIN s.isec} \ {NaN}

\* BeamSpotStatus.h, 27-30: an event is refused when the database was never
\* read, so no frame is written without it.
MissingDatabaseIsRefused == ~database => frame = NoFrame
=============================================================================
