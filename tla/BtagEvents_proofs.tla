-------------------------- MODULE BtagEvents_proofs --------------------------
(***************************************************************************)
(* Proofs for any records, any number of them and any size of AABTAG's     *)
(* arrays: what the frame holds of the b tag belongs to its event, the     *)
(* secondary vertices have the tracks of the rows, and the combined tag    *)
(* leaves the random numbers of the next event alone.                      *)
(*                                                                         *)
(* The key is what a status of success entitles a writer to.  Status is    *)
(* computed from two words of which one, IBAD, may be of an earlier event; *)
(* CommonsAreOwn says that when it comes out valid, all of AABTAG's        *)
(* commons are of this event, and it holds from PSBEG to the frame.        *)
(***************************************************************************)
EXTENDS BtagEvents, LeastElement

Inside == {"require", "track", "tag", "combine", "write"}

\* If AABTAG was called, AAMAIN is of this event; if it also succeeded, so are
\* the others, every slot of CHI2TR that is read, and PSCBTG until PSHBTG.
CommonsAreOwn ==
  pc \in Inside /\ pscbsp.ierrbs = 0 =>
    /\ common["AAMAIN"].by = n
    /\ ibad = 0 =>
         /\ \A c \in LifetimeCommons : common[c].by = n /\ common[c].of = event
         /\ \A i \in 1 .. MaxTracks :
              i \in DOMAIN Held(event) /\ Held(event)[i].attached => chi2tr[i] = n
         /\ pc \in {"require", "track", "tag"} => pscbtg = [by |-> n, from |-> "recalculation"]

\* What has been put so far is of this event, and nothing is left from the last.
OutputIsOwn ==
  /\ pc \in {"read", "require", "track", "failed"} => states = {}
  /\ pc \in {"read", "require", "track", "tag", "failed"} => frame = NoFrame
  /\ pc # "write" => combined = NoCombinedTag
  /\ frame # NoFrame => frame.n = n
  /\ \A s \in states : s.by = {n}
  /\ combined.by \subseteq {n}
  /\ \A h \in DOMAIN combined.secondaries : combined.secondaries[h].by = {n}

FrameIsOwn ==
  frame # NoFrame =>
    /\ frame.aabtag.from # NaN => frame.aabtag = [by |-> n, from |-> "recalculation"]
    /\ frame.btg.from # NaN => frame.btg = [by |-> n, from |-> "bank"]
    /\ frame.rawBy = n
    /\ \A i \in DOMAIN frame.rows :
         /\ frame.rows[i].by = {n}
         /\ frame.rows[i].chi2 \in {n, NaN}
    /\ \A v \in frame.vertex : v.by = n

-----------------------------------------------------------------------------
\* The commons have their types in every reachable state.
LEMMA TypesInit == Init => TypeOK
<1> SUFFICES ASSUME Init PROVE TypeOK
  OBVIOUS
<1> USE BtagAssumption
<1>1. common \in [Commons -> [by : 0 .. n, of : Shapes \cup {Blank}]]
  <2>1. [by |-> 0, of |-> Blank] \in [by : 0 .. n, of : Shapes \cup {Blank}]
    BY DEF Init
  <2> QED
    BY <2>1 DEF Init, Nothing
<1>2. /\ n \in 0 .. MaxEvents
      /\ chi2tr \in [1 .. MaxTracks -> 0 .. n]
      /\ pscbsp \in [ierrbs : 0 .. 2, widths : BOOLEAN]
      /\ pscbtg \in [by : 0 .. n, from : {"nothing", "prefill", "recalculation", "bank"}]
  BY DEF Init
<1> QED
  BY <1>1, <1>2 DEF Init, TypeOK, Control

LEMMA TypesStep == TypeOK /\ [Next]_vars => TypeOK'
<1> SUFFICES ASSUME TypeOK, [Next]_vars PROVE TypeOK'
  OBVIOUS
<1> USE BtagAssumption
<1>1. CASE Psbeg
  <2>1. PICK written \in SUBSET LifetimeCommons : Psfbtg(event', written)
    BY <1>1 DEF Psbeg
  <2>2. n \in 0 .. MaxEvents /\ n' = n + 1 /\ n' \in 0 .. MaxEvents /\ event' \in Shapes
    BY <1>1 DEF Psbeg, TypeOK
  <2>3. event'.ibad \in 0 .. 2 /\ event'.beamSpot \in 0 .. 2 /\ event'.hooked \in BOOLEAN
    BY <2>2 DEF RecordShape
  <2>4. pscbsp' \in [ierrbs : 0 .. 2, widths : BOOLEAN] /\ looked' \in BOOLEAN
    BY <1>1, <2>3 DEF Psbeg, Psbeam, TypeOK
  <2>5. \A b \in 0 .. n : b \in 0 .. n'
    BY <2>2
  <2>6. common' \in [Commons -> [by : 0 .. n', of : Shapes \cup {Blank}]]
    <3>1. common \in [Commons -> [by : 0 .. n', of : Shapes \cup {Blank}]]
      BY <2>5 DEF TypeOK
    <3>2. [by |-> n', of |-> event'] \in [by : 0 .. n', of : Shapes \cup {Blank}]
      BY <2>2
    <3> QED
      BY <2>1, <3>1, <3>2 DEF Psfbtg, commons
  <2>7. chi2tr' \in [1 .. MaxTracks -> 0 .. n']
    <3>1. chi2tr \in [1 .. MaxTracks -> 0 .. n']
      BY <2>5 DEF TypeOK
    <3>2. n' \in 0 .. n'
      BY <2>2
    <3> QED
      BY <2>1, <3>1, <3>2 DEF Psfbtg, commons
  <2>8. pscbtg' \in [by : 0 .. n', from : {"nothing", "prefill", "recalculation", "bank"}]
    BY <2>1, <2>2 DEF Psfbtg
  <2>9. ibad' \in 0 .. 2 /\ drawn' \in Nat /\ reference' \in Nat
    BY <2>1, <2>3 DEF Psfbtg, random, TypeOK
  <2>10. pc' \in Control /\ database' \in BOOLEAN
    BY <1>1, <2>3 DEF Psbeg, Control, TypeOK
  <2> QED
    BY <2>2, <2>4, <2>6, <2>7, <2>8, <2>9, <2>10 DEF TypeOK
<1>2. CASE PsbegZeroes
  <2>1. n \in 0 .. MaxEvents /\ n' = n + 1 /\ n' \in 0 .. MaxEvents /\ event' \in Shapes
    BY <1>2 DEF PsbegZeroes, TypeOK
  <2>2. \A b \in 0 .. n : b \in 0 .. n'
    BY <2>1
  <2>3. common' \in [Commons -> [by : 0 .. n', of : Shapes \cup {Blank}]]
    BY <1>2, <2>2 DEF PsbegZeroes, commons, TypeOK
  <2>4. chi2tr' \in [1 .. MaxTracks -> 0 .. n']
    BY <1>2, <2>2 DEF PsbegZeroes, commons, TypeOK
  <2>5. pscbtg' \in [by : 0 .. n', from : {"nothing", "prefill", "recalculation", "bank"}]
    BY <1>2, <2>1 DEF PsbegZeroes
  <2>6. pscbsp' \in [ierrbs : 0 .. 2, widths : BOOLEAN]
    BY <1>2 DEF PsbegZeroes
  <2> QED
    BY <1>2, <2>1, <2>3, <2>4, <2>5, <2>6 DEF PsbegZeroes, random, TypeOK
<1>3. CASE RequireDatabase
  BY <1>3 DEF RequireDatabase, TypeOK, Control, status, commons, random
<1>4. CASE AttachStates
  BY <1>4 DEF AttachStates, TypeOK, Control, status, commons, random
<1>5. CASE EmitTags
  <2>1. pscbtg' \in [by : 0 .. n, from : {"nothing", "prefill", "recalculation", "bank"}]
    BY <1>5 DEF EmitTags, Pshbtg, TypeOK
  <2> QED
    BY <1>5, <2>1 DEF EmitTags, TypeOK, Control, status, commons, random
<1>6. CASE EmitCombinedTag
  <2>1. [by |-> n, of |-> Of("AAJETS")] \in [by : 0 .. n, of : Shapes \cup {Blank}]
    BY DEF TypeOK, Of, Commons, LifetimeCommons
  <2>2. common' \in [Commons -> [by : 0 .. n, of : Shapes \cup {Blank}]]
    BY <1>6, <2>1 DEF EmitCombinedTag, TypeOK
  <2>3. drawn' \in Nat
    BY <1>6 DEF EmitCombinedTag, Rdmin, TypeOK
  <2> QED
    BY <1>6, <2>2, <2>3 DEF EmitCombinedTag, TypeOK, Control, status
<1>7. CASE WriteFrame
  BY <1>7 DEF WriteFrame, TypeOK, Control, status, commons, random
<1>8. CASE UNCHANGED vars
  BY <1>8 DEF vars, TypeOK, status, commons, random
<1> QED
  BY <1>1, <1>2, <1>3, <1>4, <1>5, <1>6, <1>7, <1>8 DEF Next

\* Every variable has its type.
THEOREM TypesHold == Spec => []TypeOK
<1> QED
  BY TypesInit, TypesStep, PTL DEF Spec

-----------------------------------------------------------------------------
(***************************************************************************)
(* The random numbers: what the combined tag draws is given back.          *)
(***************************************************************************)
LEMMA RandomStep == drawn = reference /\ [Next]_vars => (drawn = reference)'
<1> SUFFICES ASSUME drawn = reference, [Next]_vars PROVE (drawn = reference)'
  OBVIOUS
<1>1. CASE Psbeg
  BY <1>1 DEF Psbeg, Psfbtg, random
<1>2. CASE EmitCombinedTag
  BY <1>2 DEF EmitCombinedTag, Rdmin
<1>3. CASE PsbegZeroes \/ RequireDatabase \/ AttachStates \/ EmitTags \/ WriteFrame \/ UNCHANGED vars
  BY <1>3 DEF PsbegZeroes, RequireDatabase, AttachStates, EmitTags, WriteFrame, vars, random
<1> QED
  BY <1>1, <1>2, <1>3 DEF Next

\* Each event is smeared with the numbers it would have got without the
\* combined tag of the events before it.
THEOREM SmearingHolds == Spec => []SmearingIsUndisturbed
<1>1. Init => drawn = reference
  BY DEF Init
<1>2. drawn = reference => SmearingIsUndisturbed
  BY DEF SmearingIsUndisturbed
<1> QED
  BY <1>1, <1>2, RandomStep, PTL DEF Spec

-----------------------------------------------------------------------------
(***************************************************************************)
(* The commons belong to the event.                                        *)
(***************************************************************************)
LEMMA CommonsStep == TypeOK /\ CommonsAreOwn /\ [Next]_vars => CommonsAreOwn'
<1> SUFFICES ASSUME TypeOK, CommonsAreOwn, [Next]_vars PROVE CommonsAreOwn'
  OBVIOUS
<1> USE BtagAssumption
<1>1. CASE Psbeg
  <2>1. PICK written \in SUBSET LifetimeCommons :
          /\ "AAMAIN" \in written
          /\ event'.ibad = 0 => written = LifetimeCommons
          /\ Psfbtg(event', written)
    BY <1>1 DEF Psbeg
  <2> SUFFICES ASSUME pscbsp'.ierrbs = 0 PROVE CommonsAreOwn'
    BY DEF CommonsAreOwn
  <2>2. /\ pscbtg' = [by |-> n', from |-> IF event'.ibad = 0 THEN "recalculation" ELSE "prefill"]
        /\ ibad' = event'.ibad
        /\ common' = [c \in Commons |->
                        IF c \in written THEN [by |-> n', of |-> event'] ELSE common[c]]
        /\ chi2tr' = [i \in 1 .. MaxTracks |->
                        IF "AAMNVX" \in written /\ i \in DOMAIN Held(event') /\ Held(event')[i].attached
                        THEN n' ELSE chi2tr[i]]
    BY <2>1 DEF Psfbtg
  <2>3. common'["AAMAIN"].by = n'
    BY <2>1, <2>2 DEF Commons, LifetimeCommons
  <2> SUFFICES ASSUME ibad' = 0
               PROVE  /\ \A c \in LifetimeCommons : common'[c].by = n' /\ common'[c].of = event'
                      /\ \A i \in 1 .. MaxTracks :
                           i \in DOMAIN Held(event') /\ Held(event')[i].attached => chi2tr'[i] = n'
                      /\ pscbtg' = [by |-> n', from |-> "recalculation"]
    BY <2>3 DEF CommonsAreOwn, Held, Min
  <2>4. written = LifetimeCommons
    BY <2>1, <2>2
  <2>5. \A c \in LifetimeCommons : common'[c].by = n' /\ common'[c].of = event'
    BY <2>2, <2>4 DEF Commons
  <2>6. \A i \in 1 .. MaxTracks :
          i \in DOMAIN Held(event') /\ Held(event')[i].attached => chi2tr'[i] = n'
    BY <2>2, <2>4 DEF LifetimeCommons
  <2> QED
    BY <2>2, <2>5, <2>6
<1>2. CASE PsbegZeroes
  BY <1>2 DEF PsbegZeroes, CommonsAreOwn, Inside
<1>3. CASE RequireDatabase \/ AttachStates
  BY <1>3 DEF RequireDatabase, AttachStates, CommonsAreOwn, Inside, status, commons, Held, Min
<1>4. CASE EmitTags
  BY <1>4 DEF EmitTags, CommonsAreOwn, Inside, status, commons, Held, Min
<1>5. CASE EmitCombinedTag
  <2>1. \A c \in LifetimeCommons : common'[c] = common[c]
    BY <1>5 DEF EmitCombinedTag, TypeOK, LifetimeCommons, Commons
  <2> QED
    BY <1>5, <2>1 DEF EmitCombinedTag, CommonsAreOwn, Inside, status, LifetimeCommons, Held, Min
<1>6. CASE WriteFrame
  BY <1>6 DEF WriteFrame, CommonsAreOwn, Inside
<1>7. CASE UNCHANGED vars
  BY <1>7 DEF vars, CommonsAreOwn, status, commons, Held, Min
<1> QED
  BY <1>1, <1>2, <1>3, <1>4, <1>5, <1>6, <1>7 DEF Next

\* What a valid status entitles a writer to.
LEMMA ValidMeansOwn ==
  ASSUME TypeOK, CommonsAreOwn, pc \in Inside, Status.valid
  PROVE  /\ \A c \in LifetimeCommons : By(c) = n /\ Of(c) = event
         /\ \A i \in 1 .. MaxTracks : INMVX(i) => chi2tr[i] = n
<1>1. pscbsp.ierrbs = 0 /\ ibad = 0
  BY DEF Status, EventStatus
<1>2. \A c \in LifetimeCommons : By(c) = n /\ Of(c) = event
  BY <1>1 DEF CommonsAreOwn, By, Of
<1>3. Of("AAMNVX") = event
  BY <1>2 DEF LifetimeCommons
<1>4. \A i \in 1 .. MaxTracks : INMVX(i) => chi2tr[i] = n
  BY <1>1, <1>3 DEF CommonsAreOwn, INMVX
<1> QED
  BY <1>2, <1>4

LEMMA OutputStep == TypeOK /\ CommonsAreOwn /\ OutputIsOwn /\ [Next]_vars => OutputIsOwn'
<1> SUFFICES ASSUME TypeOK, CommonsAreOwn, OutputIsOwn, [Next]_vars PROVE OutputIsOwn'
  OBVIOUS
<1> USE BtagAssumption
<1>1. CASE Psbeg \/ PsbegZeroes
  <2>1. states' = {} /\ frame' = NoFrame /\ combined' = NoCombinedTag
    BY <1>1 DEF Psbeg, PsbegZeroes, OutputIsOwn, output
  <2>2. pc' \in {"read", "require"}
    BY <1>1 DEF Psbeg, PsbegZeroes
  <2> QED
    BY <2>1, <2>2 DEF OutputIsOwn, NoCombinedTag
<1>2. CASE RequireDatabase
  BY <1>2 DEF RequireDatabase, OutputIsOwn, output
<1>3. CASE AttachStates
  <2>1. \A s \in states' : s.by = {n}
    <3> SUFFICES ASSUME NEW s \in states' PROVE s.by = {n}
      OBVIOUS
    <3>1. s.by = {By("AAMAIN"), By("AAMNVX")} /\ Status.valid
      BY <1>3 DEF AttachStates, LpaToTrack
    <3>2. By("AAMAIN") = n /\ By("AAMNVX") = n
      BY <1>3, <3>1, ValidMeansOwn DEF AttachStates, Inside, LifetimeCommons
    <3> QED
      BY <3>1, <3>2
  <2> QED
    BY <1>3, <2>1 DEF AttachStates, OutputIsOwn
<1>4. CASE EmitTags
  <2>1. frame'.n = n
    BY <1>4 DEF EmitTags
  <2> QED
    BY <1>4, <2>1 DEF EmitTags, OutputIsOwn
<1>5. CASE EmitCombinedTag
  <2>1. CASE ~Status.valid
    BY <1>5, <2>1 DEF EmitCombinedTag, OutputIsOwn
  <2>2. CASE Status.valid
    <3>1. \A c \in LifetimeCommons : By(c) = n
      BY <1>5, <2>2, ValidMeansOwn DEF EmitCombinedTag, Inside
    <3>2. combined' = CombinedTag([by |-> n, of |-> Of("AAJETS")])
      BY <1>5, <2>2 DEF EmitCombinedTag
    <3>3. combined'.by \subseteq {n}
      BY <3>1, <3>2 DEF CombinedTag, LifetimeCommons
    <3>4. \A h \in DOMAIN combined'.secondaries : combined'.secondaries[h].by = {n}
      BY <3>1, <3>2 DEF CombinedTag, Secondary, LifetimeCommons
    <3> QED
      BY <1>5, <2>2, <3>3, <3>4 DEF EmitCombinedTag, OutputIsOwn
  <2> QED
    BY <2>1, <2>2
<1>6. CASE WriteFrame
  BY <1>6 DEF WriteFrame, OutputIsOwn, NoCombinedTag
<1>7. CASE UNCHANGED vars
  BY <1>7 DEF vars, output, OutputIsOwn
<1> QED
  BY <1>1, <1>2, <1>3, <1>4, <1>5, <1>6, <1>7 DEF Next

LEMMA FrameStep == TypeOK /\ CommonsAreOwn /\ OutputIsOwn /\ FrameIsOwn /\ [Next]_vars => FrameIsOwn'
<1> SUFFICES ASSUME TypeOK, CommonsAreOwn, OutputIsOwn, FrameIsOwn, [Next]_vars PROVE FrameIsOwn'
  OBVIOUS
<1> USE BtagAssumption
<1>1. CASE Psbeg \/ PsbegZeroes \/ RequireDatabase \/ AttachStates \/ WriteFrame
  <2>1. frame' = NoFrame
    BY <1>1 DEF Psbeg, PsbegZeroes, RequireDatabase, AttachStates, WriteFrame, OutputIsOwn, output
  <2> QED
    BY <2>1 DEF FrameIsOwn
<1>2. CASE EmitTags
  <2> DEFINE rows == IF Status.valid THEN [i \in 1 .. NTRK |-> TrackRow(i)] ELSE <<>>
  <2>1. /\ frame'.aabtag = EventLevel(pscbtg, Status.valid)
        /\ frame'.btg = EventLevel(Pshbtg, TRUE)
        /\ frame'.rawBy = IF Status.invoked THEN By("AAMAIN") ELSE n
        /\ frame'.rows = rows
    BY <1>2 DEF EmitTags
  <2>2. \A v \in frame'.vertex : Status.valid /\ v.by = By("AAMNVX")
    BY <1>2 DEF EmitTags
  <2>3. n' = n /\ pc = "tag" /\ pc \in Inside
    BY <1>2 DEF EmitTags, Inside
  <2>4. frame'.aabtag.from # NaN => frame'.aabtag = [by |-> n, from |-> "recalculation"]
    <3>1. CASE Status.valid
      <4>1. pscbtg = [by |-> n, from |-> "recalculation"]
        BY <2>3, <3>1 DEF CommonsAreOwn, Status, EventStatus
      <4> QED
        BY <2>1, <4>1 DEF EventLevel
    <3>2. CASE ~Status.valid
      BY <2>1, <3>2 DEF EventLevel
    <3> QED
      BY <3>1, <3>2
  <2>5. frame'.btg.from # NaN => frame'.btg = [by |-> n, from |-> "bank"]
    BY <2>1 DEF EventLevel, Pshbtg
  <2>6. frame'.rawBy = n
    BY <2>1, <2>3 DEF CommonsAreOwn, Status, EventStatus, By
  <2>7. ASSUME NEW i \in DOMAIN frame'.rows
        PROVE  frame'.rows[i].by = {n} /\ frame'.rows[i].chi2 \in {n, NaN}
    <3>1. Status.valid
      BY <2>1
    <3>2. /\ \A c \in LifetimeCommons : By(c) = n /\ Of(c) = event
          /\ \A j \in 1 .. MaxTracks : INMVX(j) => chi2tr[j] = n
      BY <2>3, <3>1, ValidMeansOwn
    <3>3. i \in 1 .. NTRK /\ frame'.rows[i] = TrackRow(i)
      BY <2>1, <3>1
    <3>4. NTRK = Len(Held(event))
      BY <3>2 DEF NTRK, LifetimeCommons
    <3>5. event.tracks \in Seq([pa : Nat, attached : BOOLEAN, measured : BOOLEAN])
      <4>1. CASE event \in Shapes
        BY <4>1 DEF RecordShape
      <4>2. CASE event = Blank
        BY <4>2 DEF Blank
      <4> QED
        BY <4>1, <4>2 DEF TypeOK
    <3>6. i \in 1 .. MaxTracks
      BY <3>3, <3>4, <3>5 DEF Held, Min
    <3> QED
      BY <3>2, <3>3, <3>6 DEF TrackRow, LifetimeCommons
  <2>8. \A v \in frame'.vertex : v.by = n
    BY <2>2, <2>3, ValidMeansOwn DEF LifetimeCommons
  <2> QED
    BY <2>3, <2>4, <2>5, <2>6, <2>7, <2>8 DEF FrameIsOwn
<1>3. CASE EmitCombinedTag \/ UNCHANGED vars
  BY <1>3 DEF EmitCombinedTag, vars, output, FrameIsOwn
<1> QED
  BY <1>1, <1>2, <1>3 DEF Next

IInv == TypeOK /\ CommonsAreOwn /\ OutputIsOwn /\ FrameIsOwn

LEMMA Invariance == Spec => []IInv
<1>1. Init => IInv
  <2> SUFFICES ASSUME Init PROVE IInv
    OBVIOUS
  <2>1. CommonsAreOwn /\ FrameIsOwn
    BY DEF Init, CommonsAreOwn, FrameIsOwn, Inside
  <2>2. OutputIsOwn
    BY DEF Init, OutputIsOwn, NoCombinedTag
  <2> QED
    BY <2>1, <2>2, TypesInit DEF IInv
<1>2. IInv /\ [Next]_vars => IInv'
  BY TypesStep, CommonsStep, OutputStep, FrameStep DEF IInv
<1> QED
  BY <1>1, <1>2, PTL DEF Spec

\* Whatever AABTAG left in its commons, a frame holds nothing of another event.
THEOREM NothingStale == Spec => []NothingStaleIsEmitted
<1>1. IInv => NothingStaleIsEmitted
  BY DEF IInv, OutputIsOwn, FrameIsOwn, NothingStaleIsEmitted
<1> QED
  BY <1>1, Invariance, PTL

-----------------------------------------------------------------------------
(***************************************************************************)
(* Secondary vertices and rows are two readings of the same track arrays,  *)
(* one before and one after the combined tag.                              *)
(***************************************************************************)
\* An element of a sequence over S is in S.
LEMMA SeqElement ==
  ASSUME NEW S, NEW s \in Seq(S), NEW i \in DOMAIN s
  PROVE  s[i] \in S
<1> QED
  OBVIOUS

RowsAreRead ==
  pc = "combine" =>
    frame.rows = IF Status.valid THEN [i \in 1 .. NTRK |-> TrackRow(i)] ELSE <<>>

LEMMA RowsStep == RowsAreRead /\ [Next]_vars => RowsAreRead'
<1> SUFFICES ASSUME RowsAreRead, [Next]_vars PROVE RowsAreRead'
  OBVIOUS
<1>1. CASE EmitTags
  <2>1. Status' = Status
    BY <1>1 DEF EmitTags, Status, EventStatus, status
  <2>2. NTRK' = NTRK /\ \A i : TrackRow(i)' = TrackRow(i)
    <3>1. UNCHANGED <<common, chi2tr, event>>
      BY <1>1 DEF EmitTags, commons
    <3>2. NTRK' = NTRK
      BY <3>1 DEF NTRK, Of, Held, Min
    <3>3. \A i : INMVX(i)' = INMVX(i) /\ Measured(i)' = Measured(i)
      BY <3>1 DEF INMVX, Measured, Of, Held, Min
    <3>4. \A i : ParticleOf(i)' = ParticleOf(i)
      BY <3>1 DEF ParticleOf, IADTR, Of, Held, Min
    <3> QED
      BY <3>1, <3>2, <3>3, <3>4 DEF TrackRow, By
  <2>3. frame'.rows = IF Status.valid THEN [i \in 1 .. NTRK |-> TrackRow(i)] ELSE <<>>
    BY <1>1 DEF EmitTags
  <2> QED
    BY <2>1, <2>2, <2>3 DEF RowsAreRead
<1>2. CASE UNCHANGED vars
  <2>1. Status' = Status /\ NTRK' = NTRK /\ \A i : TrackRow(i)' = TrackRow(i)
    BY <1>2 DEF vars, Status, EventStatus, status, commons, NTRK, TrackRow, By, Of, Held, Min,
                INMVX, Measured, ParticleOf, IADTR
  <2> QED
    BY <1>2, <2>1 DEF RowsAreRead, vars, output
<1>3. CASE Psbeg \/ PsbegZeroes \/ RequireDatabase \/ AttachStates \/ EmitCombinedTag \/ WriteFrame
  BY <1>3 DEF Psbeg, PsbegZeroes, RequireDatabase, AttachStates, EmitCombinedTag, WriteFrame, RowsAreRead
<1> QED
  BY <1>1, <1>2, <1>3 DEF Next

LEMMA SecondariesStep ==
  TypeOK /\ CommonsAreOwn /\ OutputIsOwn /\ RowsAreRead /\ SecondariesHaveTheirTracks /\ [Next]_vars
    => SecondariesHaveTheirTracks'
<1> SUFFICES ASSUME TypeOK, CommonsAreOwn, OutputIsOwn, RowsAreRead, SecondariesHaveTheirTracks, [Next]_vars
             PROVE  SecondariesHaveTheirTracks'
  OBVIOUS
<1> USE BtagAssumption
<1>1. CASE EmitCombinedTag
  <2>1. CASE ~Status.valid
    <3>1. combined' = NoCombinedTag
      BY <1>1, <2>1 DEF EmitCombinedTag, OutputIsOwn
    <3> QED
      BY <3>1 DEF SecondariesHaveTheirTracks, NoCombinedTag
  <2>2. CASE Status.valid
    <3>1. Of("AAMAIN") = event /\ Of("AASCND") = event
      BY <1>1, <2>2, ValidMeansOwn DEF EmitCombinedTag, Inside, LifetimeCommons
    <3>2. combined'.secondaries = [h \in DOMAIN event.hypos |-> Secondary(event.hypos[h])]
      BY <1>1, <2>2, <3>1 DEF EmitCombinedTag, CombinedTag
    <3>3. frame' = frame /\ frame.rows = [i \in 1 .. NTRK |-> TrackRow(i)]
      BY <1>1, <2>2 DEF EmitCombinedTag, RowsAreRead
    <3> DEFINE Own(s) ==
          /\ \A k \in DOMAIN s.isec : Abs(s.isec[k]) \in DOMAIN frame.rows
          /\ s.particles = {frame.rows[Abs(s.isec[k])].particle : k \in DOMAIN s.isec} \ {NaN}
    <3>a. ASSUME \A h \in DOMAIN event.hypos : Own(Secondary(event.hypos[h]))
          PROVE  SecondariesHaveTheirTracks'
      <4>1. \A h \in DOMAIN combined'.secondaries : Own(combined'.secondaries[h])
        <5> SUFFICES ASSUME NEW h \in DOMAIN event.hypos PROVE Own(combined'.secondaries[h])
          BY <3>2
        <5>1. combined'.secondaries[h] = Secondary(event.hypos[h])
          BY <3>2
        <5>2. Own(Secondary(event.hypos[h]))
          BY <3>a
        <5> HIDE DEF Own
        <5> QED
          BY <5>1, <5>2
      <4> QED
        BY <3>3, <4>1 DEF SecondariesHaveTheirTracks, Abs
    <3>4. SUFFICES ASSUME NEW h \in DOMAIN event.hypos
                   PROVE  Own(Secondary(event.hypos[h]))
      BY <3>a
    <3> DEFINE isec == event.hypos[h].isec
    <3>5. event \in Shapes
      BY <3>4 DEF TypeOK, Blank
    <3>6. ASSUME NEW k \in DOMAIN isec
          PROVE  Abs(isec[k]) \in 1 .. NTRK
      <4>1. RecordShape(event)
        BY <3>5
      <4>2. /\ event.tracks \in Seq([pa : Nat, attached : BOOLEAN, measured : BOOLEAN])
            /\ event.hypos \in Seq([accepted : BOOLEAN, isec : Seq(Int)])
            /\ isec[k] # 0
            /\ isec[k] <= Len(event.tracks) /\ isec[k] <= MaxTracks
            /\ -isec[k] <= Len(event.tracks) /\ -isec[k] <= MaxTracks
        BY <4>1 DEF RecordShape
      <4>3. event.hypos[h] \in [accepted : BOOLEAN, isec : Seq(Int)]
        BY <3>4, <4>2, SeqElement
      <4>4. isec[k] \in Int
        BY <4>3
      <4>5. NTRK = Min(Len(event.tracks), MaxTracks)
        BY <3>1, <4>2 DEF NTRK, Held, Min
      <4>6. Len(event.tracks) \in Nat
        BY <4>2
      <4> HIDE DEF isec
      <4> QED
        BY <4>2, <4>4, <4>5, <4>6 DEF Abs, Min
    <3>7. \A k \in DOMAIN isec : frame.rows[Abs(isec[k])].particle = ParticleOf(Abs(isec[k]))
      BY <3>3, <3>6 DEF TrackRow
    <3> QED
      BY <3>3, <3>6, <3>7 DEF Secondary
  <2> QED
    BY <2>1, <2>2
<1>2. CASE UNCHANGED vars
  BY <1>2 DEF vars, output, SecondariesHaveTheirTracks
<1>3. CASE Psbeg \/ PsbegZeroes \/ RequireDatabase \/ AttachStates \/ EmitTags \/ WriteFrame
  BY <1>3 DEF Psbeg, PsbegZeroes, RequireDatabase, AttachStates, EmitTags, WriteFrame, SecondariesHaveTheirTracks
<1> QED
  BY <1>1, <1>2, <1>3 DEF Next

\* The particles of a secondary vertex are those of the rows its indices name.
THEOREM SecondariesHold == Spec => []SecondariesHaveTheirTracks
<1>1. Init => RowsAreRead /\ SecondariesHaveTheirTracks
  BY DEF Init, RowsAreRead, SecondariesHaveTheirTracks
<1>2. IInv => TypeOK /\ CommonsAreOwn /\ OutputIsOwn
  BY DEF IInv
<1> QED
  BY <1>1, <1>2, Invariance, RowsStep, SecondariesStep, PTL DEF Spec

-----------------------------------------------------------------------------
(***************************************************************************)
(* The best jet of each hemisphere.                                        *)
(***************************************************************************)
Jet == [hemi : 1 .. 2, tagged : BOOLEAN, x : Int]

\* The tag values among which the loop has looked by jet m.
TaggedBy(jets, hemi, m) ==
  {jets[j].x : j \in {j \in 1 .. m : jets[j].tagged /\ jets[j].hemi = hemi}}

Largest(best, xs) == IF xs = {} THEN best = NaN ELSE best \in xs /\ \A x \in xs : x <= best

\* The loop over the jets ends with the largest tag.
LEMMA HemiBestIsTheLargest ==
  ASSUME NEW jets \in Seq(Jet), NEW hemi
  PROVE  Largest(HemiBest(jets, hemi), TaggedBy(jets, hemi, Len(jets)))
<1> USE BtagAssumption
<1> DEFINE N == Len(jets)
           Counts(j) == jets[j].tagged /\ jets[j].hemi = hemi
           Step(j, v) == IF Counts(j) /\ (v = NaN \/ jets[j].x > v) THEN jets[j].x ELSE v
           Val == Int \cup {NaN}
           step == [j \in 1 .. N |-> [v \in Val |-> Step(j, v)]]
           Body(f) == [j \in 0 .. N |-> IF j = 0 THEN NaN ELSE Step(j, f[j - 1])]
<1>1. N \in Nat /\ DOMAIN jets = 1 .. N
  OBVIOUS
<1>2. \A j \in 1 .. N : jets[j] \in Jet
  OBVIOUS
<1>3. \A j \in 1 .. N : jets[j].x \in Int
  BY <1>2 DEF Jet
<1>4. \A j \in 1 .. N, v \in Val : Step(j, v) \in Val
  BY <1>3
<1>5. step \in [1 .. N -> [Val -> Val]]
  <2> HIDE DEF Step, Val, N
  <2> QED BY <1>4
<1>6. \E f : f = Body(f)
  <2>1. NaN \in Val
    OBVIOUS
  <2>2. PICK f : Follows(f, N, Val, NaN, step)
    <3> HIDE DEF step, Val, N
    <3> QED BY <1>1, <1>5, <2>1, RecursiveFunction
  <2>3. f \in [0 .. N -> Val] /\ f[0] = NaN /\ \A j \in 1 .. N : f[j] = step[j][f[j - 1]]
    BY <2>2 DEF Follows
  <2>4. ASSUME NEW j \in 1 .. N PROVE f[j] = Step(j, f[j - 1])
    <3>1. j - 1 \in 0 .. N
      BY <1>1
    <3>2. f[j - 1] \in Val
      BY <2>3, <3>1
    <3> HIDE DEF Step, Val, N
    <3> QED BY <2>3, <3>2
  <2>5. \A j \in 0 .. N : j = 0 \/ j \in 1 .. N
    BY <1>1
  <2>6. f = Body(f)
    <3> HIDE DEF Step, Val, N
    <3> QED BY <2>3, <2>4, <2>5
  <2> QED BY <2>6
<1> DEFINE best == CHOOSE f : f = Body(f)
<1>7. best = Body(best)
  <2> HIDE DEF Body
  <2> QED BY <1>6
<1>8. HemiBest(jets, hemi) = best[N]
  BY DEF HemiBest
<1>9. /\ best[0] = NaN
      /\ \A j \in 1 .. N : best[j] = Step(j, best[j - 1])
  <2> HIDE DEF best, Step
  <2>1. 0 \in 0 .. N /\ \A j \in 1 .. N : j \in 0 .. N /\ j # 0
    BY <1>1
  <2> HIDE DEF N
  <2> QED BY <1>7, <2>1
<1> DEFINE T == {m \in 0 .. N : Largest(best[m], TaggedBy(jets, hemi, m))}
<1>10. 0 \in T
  <2>1. TaggedBy(jets, hemi, 0) = {}
    BY DEF TaggedBy
  <2> HIDE DEF best
  <2> QED BY <1>1, <1>9, <2>1 DEF Largest
<1>11. ASSUME NEW m \in 1 .. N, m - 1 \in T PROVE m \in T
  <2> DEFINE before == TaggedBy(jets, hemi, m - 1)
             after  == TaggedBy(jets, hemi, m)
             v == best[m - 1]
  <2> SUFFICES Largest(best[m], after)
    <3> HIDE DEF best
    <3> QED BY <1>1
  <2>1. Largest(v, before)
    BY <1>11
  <2>2. before \subseteq Int
    BY <1>1, <1>3 DEF TaggedBy
  <2>3. best[m] = Step(m, v)
    BY <1>9
  <2>4. jets[m].x \in Int
    BY <1>3
  <2>5. \A j \in 1 .. m : j = m \/ j \in 1 .. m - 1
    OBVIOUS
  <2>6. \A j \in 1 .. m - 1 : j \in 1 .. m
    OBVIOUS
  <2>7. CASE Counts(m)
    <3>1. after = before \cup {jets[m].x}
      BY <2>5, <2>6, <2>7 DEF TaggedBy
    <3> HIDE DEF best, v, after, before, Counts
    <3>2. CASE before = {}
      BY <2>1, <2>3, <2>4, <2>7, <3>1, <3>2 DEF Largest
    <3>3. CASE before # {}
      <4>1. v \in Int /\ v \in before /\ v # NaN /\ \A x \in before : x \in Int /\ x <= v
        BY <2>1, <2>2, <3>3 DEF Largest
      <4>2. CASE jets[m].x > v
        <5>1. best[m] = jets[m].x
          BY <2>3, <2>7, <4>2
        <5> QED BY <2>4, <3>1, <4>1, <4>2, <5>1 DEF Largest
      <4>3. CASE ~(jets[m].x > v)
        <5>1. best[m] = v
          BY <2>3, <4>1, <4>3
        <5>2. jets[m].x <= v
          BY <2>4, <4>1, <4>3
        <5>3. \A x \in after : x <= v
          BY <3>1, <4>1, <5>2
        <5>4. v \in after /\ after # {}
          BY <3>1, <4>1
        <5> QED BY <5>1, <5>3, <5>4 DEF Largest
      <4> QED BY <4>2, <4>3
    <3> QED BY <3>2, <3>3
  <2>8. CASE ~Counts(m)
    <3>1. after = before
      BY <2>5, <2>6, <2>8 DEF TaggedBy
    <3>2. best[m] = v
      BY <2>3, <2>8
    <3> HIDE DEF best, v, after, before
    <3> QED BY <2>1, <3>1, <3>2
  <2> QED BY <2>7, <2>8
<1> HIDE DEF T
<1>12. 0 .. N \subseteq T
  BY <1>1, <1>10, <1>11, SetInduction
<1>13. N \in T
  BY <1>1, <1>12
<1> QED BY <1>8, <1>13 DEF T

\* The property as one of a combined tag.
BestOfEach(c) ==
  \A hemi \in 1 .. 2 :
    Largest(c.best[hemi], {c.jets[j].x : j \in {j \in DOMAIN c.jets :
                                                c.jets[j].tagged /\ c.jets[j].hemi = hemi}})

LEMMA HemispheresStep ==
  TypeOK /\ CommonsAreOwn /\ OutputIsOwn /\ HemispheresHoldTheirBest /\ [Next]_vars
    => HemispheresHoldTheirBest'
<1> SUFFICES ASSUME TypeOK, CommonsAreOwn, OutputIsOwn, HemispheresHoldTheirBest, [Next]_vars
             PROVE  HemispheresHoldTheirBest'
  OBVIOUS
<1> USE BtagAssumption
<1>1. HemispheresHoldTheirBest <=> (pc = "write" => BestOfEach(combined))
  BY DEF HemispheresHoldTheirBest, BestOfEach, Largest
<1>2. HemispheresHoldTheirBest' <=> (pc' = "write" => BestOfEach(combined'))
  BY DEF HemispheresHoldTheirBest, BestOfEach, Largest
<1>3. CASE EmitCombinedTag
  <2> SUFFICES ASSUME NEW hemi \in 1 .. 2
               PROVE  Largest(combined'.best[hemi],
                              {combined'.jets[j].x : j \in
                                {j \in DOMAIN combined'.jets :
                                   combined'.jets[j].tagged /\ combined'.jets[j].hemi = hemi}})
    BY <1>2 DEF BestOfEach
  <2>1. CASE ~Status.valid
    <3>1. combined' = NoCombinedTag
      BY <1>3, <2>1 DEF EmitCombinedTag, OutputIsOwn
    <3> QED
      BY <3>1 DEF NoCombinedTag, Largest
  <2>2. CASE Status.valid
    <3> DEFINE jets == Of("AAJETS").jets
    <3>1. combined'.jets = jets /\ combined'.best[hemi] = HemiBest(jets, hemi)
      BY <1>3, <2>2 DEF EmitCombinedTag, CombinedTag
    <3>2. jets \in Seq(Jet)
      <4>1. Of("AAJETS") \in Shapes \cup {Blank}
        BY DEF TypeOK, Of, Commons, LifetimeCommons
      <4>2. CASE Of("AAJETS") \in Shapes
        BY <4>2 DEF RecordShape, Jet
      <4>3. CASE Of("AAJETS") = Blank
        <5>1. jets = <<>>
          BY <4>3 DEF Blank
        <5> HIDE DEF jets
        <5> QED
          BY <5>1
      <4> QED
        BY <4>1, <4>2, <4>3
    <3> HIDE DEF jets
    <3>3. DOMAIN jets = 1 .. Len(jets)
      BY <3>2
    <3>4. Largest(HemiBest(jets, hemi), TaggedBy(jets, hemi, Len(jets)))
      BY <3>2, HemiBestIsTheLargest
    <3> QED
      BY <3>1, <3>3, <3>4 DEF TaggedBy
  <2> QED
    BY <2>1, <2>2
<1>4. CASE UNCHANGED vars
  <2>1. combined' = combined /\ pc' = pc
    BY <1>4 DEF vars, output
  <2> QED
    BY <2>1, <1>1, <1>2
<1>5. CASE Psbeg \/ PsbegZeroes \/ RequireDatabase \/ AttachStates \/ EmitTags \/ WriteFrame
  BY <1>5 DEF Psbeg, PsbegZeroes, RequireDatabase, AttachStates, EmitTags, WriteFrame, HemispheresHoldTheirBest
<1> QED
  BY <1>3, <1>4, <1>5 DEF Next

\* CombinedTagHemisphere holds the largest tag of each hemisphere, for any jets.
THEOREM HemispheresHold == Spec => []HemispheresHoldTheirBest
<1>1. Init => HemispheresHoldTheirBest
  BY DEF Init, HemispheresHoldTheirBest
<1>2. IInv => TypeOK /\ CommonsAreOwn /\ OutputIsOwn
  BY DEF IInv
<1> QED
  BY <1>1, <1>2, Invariance, HemispheresStep, PTL DEF Spec

-----------------------------------------------------------------------------
(***************************************************************************)
(* The check tool counts what three writers made of the tracks of one      *)
(* event; so what each of them made is needed as a whole.                  *)
(***************************************************************************)

\* What the writers make of event e, record m of the job, if AABTAG succeeded.
TaggedStates(e, m) ==
  {[pa |-> Held(e)[i].pa, by |-> {m}] :
     i \in {i \in DOMAIN Held(e) : Held(e)[i].pa \in e.tracked}}

ParticleIn(e, i) == IF Held(e)[i].pa \in e.particles THEN Held(e)[i].pa ELSE NaN

TagRow(e, m, i) ==
  [by |-> {m},
   attached |-> Held(e)[i].attached,
   chi2 |-> IF Held(e)[i].attached THEN m ELSE NaN,
   phiv |-> Held(e)[i].measured, distj |-> Held(e)[i].measured,
   particle |-> ParticleIn(e, i)]

Attached(e) == {i \in DOMAIN Held(e) : Held(e)[i].attached}

Resolved(e) == {i \in Attached(e) : ParticleIn(e, i) # NaN}

TagVertex(e, m) == [by |-> m, particles |-> {ParticleIn(e, i) : i \in Resolved(e)}]

\* States, rows and vertex are of the tracks AABTAG has of this event, all of
\* them and in its order, or there are none.
OutputFollows ==
  /\ pc \in {"tag", "combine", "write"} =>
       states = IF Status.valid THEN TaggedStates(event, n) ELSE {}
  /\ pc \in {"combine", "write"} =>
       /\ frame.status = Status
       /\ frame.rows = IF Status.valid
                       THEN [i \in 1 .. Len(Held(event)) |-> TagRow(event, n, i)] ELSE <<>>
       /\ frame.nTracks = Len(frame.rows)
       /\ frame.attached = IF Status.valid THEN Cardinality(Attached(event)) ELSE 0
       /\ frame.vertex = IF Status.valid THEN {TagVertex(event, n)} ELSE {}

LEMMA HeldShape ==
  ASSUME TypeOK
  PROVE  /\ Len(Held(event)) \in 0 .. MaxTracks
         /\ DOMAIN Held(event) = 1 .. Len(Held(event))
         /\ \A i \in DOMAIN Held(event) :
              Held(event)[i] \in [pa : Nat, attached : BOOLEAN, measured : BOOLEAN]
         /\ \A i, j \in DOMAIN Held(event) : Held(event)[i].pa = Held(event)[j].pa => i = j
<1> USE BtagAssumption
<1> DEFINE tracks == event.tracks
           Track == [pa : Nat, attached : BOOLEAN, measured : BOOLEAN]
<1>1. tracks \in Seq(Track) /\ \A i, j \in DOMAIN tracks : tracks[i].pa = tracks[j].pa => i = j
  <2>1. CASE event \in Shapes
    BY <2>1 DEF RecordShape
  <2>2. CASE event = Blank
    <3>1. tracks = <<>>
      BY <2>2 DEF Blank
    <3> HIDE DEF tracks, Track
    <3> QED
      BY <3>1
  <2> QED
    BY <2>1, <2>2 DEF TypeOK
<1> DEFINE m == Min(Len(tracks), MaxTracks)
<1>2. Held(event) = SubSeq(tracks, 1, m)
  BY DEF Held
<1> HIDE DEF tracks, Track
<1>3. Len(tracks) \in Nat /\ DOMAIN tracks = 1 .. Len(tracks)
  BY <1>1
<1>4. m \in 0 .. MaxTracks /\ m <= Len(tracks)
  BY <1>3 DEF Min
<1> HIDE DEF m
<1>5. /\ Len(SubSeq(tracks, 1, m)) = m /\ DOMAIN SubSeq(tracks, 1, m) = 1 .. m
      /\ \A i \in 1 .. m : SubSeq(tracks, 1, m)[i] = tracks[i]
  BY <1>1, <1>3, <1>4
<1>6. \A i \in 1 .. m : i \in DOMAIN tracks /\ tracks[i] \in Track
  BY <1>1, <1>3, <1>4
<1>7. /\ DOMAIN Held(event) = 1 .. m /\ Len(Held(event)) = m
      /\ \A i \in 1 .. m : Held(event)[i] = tracks[i]
  BY <1>2, <1>5
<1>8. \A i \in DOMAIN Held(event) : Held(event)[i] \in Track
  BY <1>6, <1>7
<1>9. \A i, j \in DOMAIN Held(event) : Held(event)[i].pa = Held(event)[j].pa => i = j
  BY <1>1, <1>6, <1>7
<1> QED
  BY <1>4, <1>7, <1>8, <1>9 DEF Track

\* Read now, AAMAIN and AAMNVX are those of this event's tracks.
LEMMA ValidIsHeld ==
  ASSUME TypeOK, CommonsAreOwn, pc \in Inside, Status.valid
  PROVE  /\ NTRK = Len(Held(event))
         /\ \A i : IADTR(i) = Held(event)[i].pa
         /\ \A i \in DOMAIN Held(event) : INMVX(i) = Held(event)[i].attached
         /\ \A i \in DOMAIN Held(event) : Measured(i) = Held(event)[i].measured
         /\ NATTVX = Cardinality(Attached(event))
         /\ \A i \in DOMAIN Held(event) : TrackRow(i) = TagRow(event, n, i)
<1>1. /\ Of("AAMAIN") = event /\ Of("AAMNVX") = event /\ Of("AAJETS") = event
      /\ \A c \in LifetimeCommons : By(c) = n
      /\ \A i \in 1 .. MaxTracks : INMVX(i) => chi2tr[i] = n
  BY ValidMeansOwn DEF LifetimeCommons
<1>2. NTRK = Len(Held(event)) /\ \A i : IADTR(i) = Held(event)[i].pa
  BY <1>1 DEF NTRK, IADTR
<1>3. \A i \in DOMAIN Held(event) :
        /\ Held(event)[i].attached \in BOOLEAN /\ Held(event)[i].measured \in BOOLEAN
        /\ i \in 1 .. MaxTracks
  BY HeldShape, BtagAssumption
<1>4. \A i \in DOMAIN Held(event) :
        INMVX(i) = Held(event)[i].attached /\ Measured(i) = Held(event)[i].measured
  BY <1>1, <1>3 DEF INMVX, Measured
<1>5. {i \in 1 .. MaxTracks : INMVX(i)} = Attached(event)
  BY <1>1, <1>3 DEF INMVX, Attached
<1>6. NATTVX = Cardinality(Attached(event))
  BY <1>5 DEF NATTVX
<1>7. ASSUME NEW i \in DOMAIN Held(event) PROVE TrackRow(i) = TagRow(event, n, i)
  <2>1. ParticleOf(i) = ParticleIn(event, i)
    BY <1>2 DEF ParticleOf, ParticleIn
  <2>2. Held(event)[i].attached => chi2tr[i] = n
    BY <1>1, <1>3, <1>4
  <2>3. {By("AAMAIN"), By("AAMNVX"), By("AAJETS"), By("AASCND")} = {n}
    BY <1>1 DEF LifetimeCommons
  <2> QED
    BY <1>4, <2>1, <2>2, <2>3 DEF TrackRow, TagRow
<1> QED
  BY <1>2, <1>4, <1>6, <1>7

LEMMA StatesAreAttached ==
  ASSUME TypeOK, CommonsAreOwn, AttachStates
  PROVE  states' = IF Status.valid THEN TaggedStates(event, n) ELSE {}
<1>1. pc \in Inside
  BY DEF AttachStates, Inside
<1>2. CASE ~Status.valid
  BY <1>2 DEF AttachStates, LpaToTrack
<1>3. CASE Status.valid
  <2>1. NTRK = Len(Held(event)) /\ \A i : IADTR(i) = Held(event)[i].pa
    BY <1>1, <1>3, ValidIsHeld
  <2>2. By("AAMAIN") = n /\ By("AAMNVX") = n
    BY <1>1, <1>3, ValidMeansOwn DEF LifetimeCommons
  <2>3. DOMAIN Held(event) = 1 .. NTRK
    BY <2>1, HeldShape
  <2>4. states' = {[pa |-> p[1], by |-> {n}] :
                     p \in {q \in {<<IADTR(i), i>> : i \in 1 .. NTRK} : q[1] \in event.tracked}}
    BY <1>3, <2>2 DEF AttachStates, LpaToTrack
  <2> DEFINE S == {i \in 1 .. NTRK : Held(event)[i].pa \in event.tracked}
             Pairs == {q \in {<<IADTR(i), i>> : i \in 1 .. NTRK} : q[1] \in event.tracked}
  <2>5. \A i \in S : <<Held(event)[i].pa, i>> \in Pairs
    BY <2>1
  <2>6. \A p \in Pairs : p[2] \in S /\ p[1] = Held(event)[p[2]].pa
    BY <2>1
  <2>7. TaggedStates(event, n) = {[pa |-> Held(event)[i].pa, by |-> {n}] : i \in S}
    BY <2>3 DEF TaggedStates
  <2>8. states' = {[pa |-> p[1], by |-> {n}] : p \in Pairs}
    BY <2>4
  <2> HIDE DEF S, Pairs
  <2>9. \A i \in S : [pa |-> Held(event)[i].pa, by |-> {n}] \in states'
    <3> SUFFICES ASSUME NEW i \in S PROVE [pa |-> Held(event)[i].pa, by |-> {n}] \in states'
      OBVIOUS
    <3> DEFINE p == <<Held(event)[i].pa, i>>
    <3>1. p \in Pairs /\ p[1] = Held(event)[i].pa
      BY <2>5
    <3> HIDE DEF p
    <3> QED
      BY <2>8, <3>1
  <2>10. \A s \in states' : \E i \in S : s = [pa |-> Held(event)[i].pa, by |-> {n}]
    BY <2>6, <2>8
  <2> QED
    BY <1>3, <2>7, <2>9, <2>10
<1> QED
  BY <1>2, <1>3

LEMMA FrameFollows ==
  ASSUME TypeOK, CommonsAreOwn, EmitTags
  PROVE  /\ frame'.status = Status
         /\ frame'.rows = IF Status.valid
                          THEN [i \in 1 .. Len(Held(event)) |-> TagRow(event, n, i)] ELSE <<>>
         /\ frame'.nTracks = Len(frame'.rows)
         /\ frame'.attached = IF Status.valid THEN Cardinality(Attached(event)) ELSE 0
         /\ frame'.vertex = IF Status.valid THEN {TagVertex(event, n)} ELSE {}
<1> DEFINE rows == IF Status.valid THEN [i \in 1 .. NTRK |-> TrackRow(i)] ELSE <<>>
           Found == {i \in DOMAIN rows : rows[i].attached /\ rows[i].particle # NaN}
<1>1. /\ frame'.status = Status /\ frame'.rows = rows /\ frame'.nTracks = Len(rows)
      /\ frame'.attached = IF Status.valid THEN NATTVX ELSE 0
      /\ frame'.vertex = IF Status.valid
                         THEN {[by |-> By("AAMNVX"), particles |-> {rows[i].particle : i \in Found}]}
                         ELSE {}
  BY DEF EmitTags
<1>2. CASE ~Status.valid
  BY <1>1, <1>2
<1>3. CASE Status.valid
  <2>1. pc \in Inside
    BY DEF EmitTags, Inside
  <2>2. /\ NTRK = Len(Held(event)) /\ NATTVX = Cardinality(Attached(event))
        /\ DOMAIN Held(event) = 1 .. NTRK
        /\ \A i \in DOMAIN Held(event) : TrackRow(i) = TagRow(event, n, i)
    BY <1>3, <2>1, ValidIsHeld, HeldShape
  <2>3. By("AAMNVX") = n
    BY <1>3, <2>1, ValidMeansOwn DEF LifetimeCommons
  <2>4. rows = [i \in 1 .. Len(Held(event)) |-> TagRow(event, n, i)]
    BY <1>3, <2>2
  <2>5. DOMAIN rows = DOMAIN Held(event)
    BY <2>2, <2>4
  <2>6. \A i \in DOMAIN rows :
          rows[i].attached = Held(event)[i].attached /\ rows[i].particle = ParticleIn(event, i)
    <3>1. \A i : /\ TagRow(event, n, i).attached = Held(event)[i].attached
                 /\ TagRow(event, n, i).particle = ParticleIn(event, i)
      BY DEF TagRow
    <3>2. \A i \in DOMAIN rows : rows[i] = TagRow(event, n, i)
      BY <2>4
    <3> HIDE DEF rows
    <3> QED
      BY <3>1, <3>2
  <2> HIDE DEF rows
  <2>7. Found = Resolved(event)
    BY <2>5, <2>6 DEF Resolved, Attached
  <2>8. \A i \in Found : rows[i].particle = ParticleIn(event, i)
    BY <2>6
  <2> HIDE DEF Found
  <2>9. {rows[i].particle : i \in Found} = {ParticleIn(event, i) : i \in Resolved(event)}
    BY <2>7, <2>8
  <2> QED
    BY <1>1, <1>3, <2>2, <2>3, <2>4, <2>9 DEF TagVertex
<1> QED
  BY <1>2, <1>3

LEMMA FollowStep == TypeOK /\ CommonsAreOwn /\ OutputFollows /\ [Next]_vars => OutputFollows'
<1> SUFFICES ASSUME TypeOK, CommonsAreOwn, OutputFollows, [Next]_vars PROVE OutputFollows'
  OBVIOUS
<1>1. CASE AttachStates
  <2>1. pc' = "tag" /\ Status' = Status /\ event' = event /\ n' = n
    BY <1>1 DEF AttachStates, Status, EventStatus, status
  <2> QED
    BY <1>1, <2>1, StatesAreAttached DEF OutputFollows
<1>2. CASE EmitTags
  <2>1. pc = "tag" /\ Status' = Status /\ event' = event /\ n' = n /\ states' = states
    BY <1>2 DEF EmitTags, Status, EventStatus, status
  <2> QED
    BY <1>2, <2>1, FrameFollows DEF OutputFollows
<1>3. CASE EmitCombinedTag \/ UNCHANGED vars
  <2>1. /\ Status' = Status /\ event' = event /\ n' = n /\ states' = states /\ frame' = frame
        /\ pc' = pc \/ pc = "combine"
    BY <1>3 DEF EmitCombinedTag, vars, output, Status, EventStatus, status
  <2> QED
    BY <2>1 DEF OutputFollows
<1>4. CASE Psbeg \/ PsbegZeroes \/ RequireDatabase \/ WriteFrame
  BY <1>4 DEF Psbeg, PsbegZeroes, RequireDatabase, WriteFrame, OutputFollows
<1> QED
  BY <1>1, <1>2, <1>3, <1>4 DEF Next

\* Counting what was found of a set of tracks tells whether all of it was.
LEMMA CountTells ==
  ASSUME NEW N \in Nat, NEW A \in SUBSET (1 .. N), NEW B \in SUBSET A, NEW T,
         NEW f \in [B -> T],
         \A i, j \in B : f[i] = f[j] => i = j,
         \A t \in T : \E i \in B : f[i] = t
  PROVE  Cardinality(T) = Cardinality(A) <=> B = A
<1>1. IsFiniteSet(1 .. N)
  BY FS_Interval
<1>2. IsFiniteSet(A)
  BY <1>1, FS_Subset
<1>3. IsFiniteSet(B) /\ (Cardinality(A) = Cardinality(B) => A = B)
  BY <1>2, FS_Subset
<1>4. f \in Surjection(B, T) /\ f \in Injection(B, T)
  BY DEF Surjection, Injection, IsInjective
<1>5. Cardinality(T) = Cardinality(B)
  BY <1>3, <1>4, FS_Surjection
<1> QED
  BY <1>3, <1>5

\* Each count of the tool is the one expected if what it counts was all found.
LEMMA StatesTell ==
  ASSUME TypeOK
  PROVE  Cardinality(TaggedStates(event, n)) = Len(Held(event))
           <=> \A i \in DOMAIN Held(event) : Held(event)[i].pa \in event.tracked
<1> DEFINE N == Len(Held(event))
           S == {i \in 1 .. N : Held(event)[i].pa \in event.tracked}
           T == TaggedStates(event, n)
           f == [i \in S |-> [pa |-> Held(event)[i].pa, by |-> {n}]]
<1>1. N \in Nat /\ DOMAIN Held(event) = 1 .. N
  BY HeldShape, BtagAssumption
<1>2. \A i, j \in S : Held(event)[i].pa = Held(event)[j].pa => i = j
  BY <1>1, HeldShape
<1>3. \A i, j \in S : f[i] = f[j] => i = j
  BY <1>2
<1>4. T = {[pa |-> Held(event)[i].pa, by |-> {n}] : i \in S}
  BY <1>1 DEF TaggedStates
<1>5. f \in [S -> T] /\ \A t \in T : \E i \in S : f[i] = t
  <2> HIDE DEF S, T
  <2> QED
    BY <1>4
<1> DEFINE All == 1 .. N
<1>6. S \in SUBSET All /\ All \in SUBSET (1 .. N)
  OBVIOUS
<1>7. Cardinality(T) = Cardinality(All) <=> S = All
  <2> HIDE DEF S, T, f, N, All
  <2> QED
    BY <1>1, <1>3, <1>5, <1>6, CountTells
<1>8. Cardinality(1 .. N) = N
  <2> HIDE DEF N
  <2> QED
    BY <1>1, FS_Interval
<1>9. S = 1 .. N <=> \A i \in DOMAIN Held(event) : Held(event)[i].pa \in event.tracked
  BY <1>1
<1> QED
  BY <1>7, <1>8, <1>9

LEMMA VertexTells ==
  ASSUME TypeOK
  PROVE  Cardinality(TagVertex(event, n).particles) = Cardinality(Attached(event))
           <=> Resolved(event) = Attached(event)
<1> DEFINE N == Len(Held(event))
           A == Attached(event)
           B == Resolved(event)
           T == {ParticleIn(event, i) : i \in B}
           f == [i \in B |-> ParticleIn(event, i)]
<1>1. N \in Nat /\ DOMAIN Held(event) = 1 .. N
  BY HeldShape, BtagAssumption
<1>2. A \in SUBSET (1 .. N) /\ B \in SUBSET A
  BY <1>1 DEF Attached, Resolved
<1>3. \A i \in B : ParticleIn(event, i) = Held(event)[i].pa
  BY DEF Resolved, ParticleIn
<1>4. \A i, j \in B : f[i] = f[j] => i = j
  BY <1>1, <1>2, <1>3, HeldShape
<1>5. f \in [B -> T] /\ \A t \in T : \E i \in B : f[i] = t
  <2> HIDE DEF B
  <2> QED
    OBVIOUS
<1>6. TagVertex(event, n).particles = T
  BY DEF TagVertex
<1> QED
  <2> HIDE DEF A, B, T, f, N
  <2>1. Cardinality(T) = Cardinality(A) <=> B = A
    BY <1>1, <1>2, <1>4, <1>5, CountTells, Zenon
  <2> QED
    BY <1>6, <2>1 DEF A, B

\* If AABTAG gave nothing, nothing is written and nothing expected.
LEMMA CheckOfNothing ==
  ASSUME TypeOK, OutputFollows, pc = "write", ~Status.valid
  PROVE  CheckPasses /\ DOMAIN frame.rows = {}
<1>1. /\ states = {} /\ frame.rows = <<>> /\ frame.nTracks = 0 /\ frame.attached = 0
      /\ frame.vertex = {} /\ frame.status = Status
  BY DEF OutputFollows
<1>2. Cardinality({}) = 0
  BY FS_EmptySet
<1>3. DOMAIN frame.rows = {} /\ Len(frame.rows) = 0
  BY <1>1
<1>4. {i \in DOMAIN frame.rows : frame.rows[i].attached} = {}
  BY <1>3
<1> QED
  BY <1>1, <1>2, <1>3, <1>4 DEF CheckPasses

LEMMA CheckOfTags ==
  ASSUME TypeOK, CommonsAreOwn, OutputFollows, pc = "write", Status.valid
  PROVE  /\ DOMAIN frame.rows = DOMAIN Held(event)
         /\ \A i \in DOMAIN frame.rows :
              /\ IADTR(i) = Held(event)[i].pa
              /\ frame.rows[i].attached = Held(event)[i].attached
              /\ frame.rows[i].particle = ParticleIn(event, i)
         /\ CheckPasses <=> /\ Cardinality(states) = Len(Held(event))
                            /\ Cardinality(TagVertex(event, n).particles) = Cardinality(Attached(event))
<1>1. /\ states = TaggedStates(event, n) /\ frame.status = Status
      /\ frame.rows = [i \in 1 .. Len(Held(event)) |-> TagRow(event, n, i)]
      /\ frame.nTracks = Len(frame.rows) /\ frame.attached = Cardinality(Attached(event))
      /\ frame.vertex = {TagVertex(event, n)}
  BY DEF OutputFollows
<1>2. Len(Held(event)) \in Nat /\ DOMAIN Held(event) = 1 .. Len(Held(event))
  BY HeldShape, BtagAssumption
<1>3. DOMAIN frame.rows = DOMAIN Held(event) /\ Len(frame.rows) = Len(Held(event))
  BY <1>1, <1>2
<1>4. \A i \in DOMAIN frame.rows : frame.rows[i] = TagRow(event, n, i)
  BY <1>1
<1>5. \A i : /\ TagRow(event, n, i).attached = Held(event)[i].attached
             /\ TagRow(event, n, i).particle = ParticleIn(event, i)
             /\ TagRow(event, n, i).chi2 = IF Held(event)[i].attached THEN n ELSE NaN
             /\ TagRow(event, n, i).phiv = TagRow(event, n, i).distj
  BY DEF TagRow
<1>6. \A i : IADTR(i) = Held(event)[i].pa
  BY ValidIsHeld DEF Inside
<1>7. \A i \in DOMAIN frame.rows : frame.rows[i].chi2 = NaN <=> ~frame.rows[i].attached
  <2>1. n # NaN
    BY BtagAssumption DEF TypeOK
  <2>2. \A i \in DOMAIN frame.rows : Held(event)[i].attached \in BOOLEAN
    BY <1>3, HeldShape
  <2> QED
    BY <1>4, <1>5, <2>1, <2>2
<1>8. {i \in DOMAIN frame.rows : frame.rows[i].attached} = Attached(event)
  BY <1>3, <1>4, <1>5 DEF Attached
<1>9. Cardinality(frame.vertex) = 1
  BY <1>1, FS_Singleton
<1>10. CheckPasses <=> /\ Cardinality(states) = Len(Held(event))
                       /\ Cardinality(TagVertex(event, n).particles) = Cardinality(Attached(event))
  <2>1. Len(frame.rows) = frame.nTracks
    BY <1>1
  <2>2. \A i \in DOMAIN frame.rows : frame.rows[i].phiv = frame.rows[i].distj
    BY <1>4, <1>5
  <2>3. Cardinality(states) = frame.nTracks <=> Cardinality(states) = Len(Held(event))
    BY <1>1, <1>3
  <2>4. Cardinality(frame.vertex) = IF frame.status.valid THEN 1 ELSE 0
    BY <1>1, <1>9
  <2>5. (\A v \in frame.vertex : Cardinality(v.particles) = frame.attached)
          <=> Cardinality(TagVertex(event, n).particles) = Cardinality(Attached(event))
    BY <1>1
  <2>6. Cardinality({i \in DOMAIN frame.rows : frame.rows[i].attached}) = frame.attached
    BY <1>1, <1>8
  <2> QED
    BY <1>7, <2>1, <2>2, <2>3, <2>4, <2>5, <2>6 DEF CheckPasses
<1> QED
  BY <1>3, <1>4, <1>5, <1>6, <1>10

\* The counts of delphi_btag_check tell whether any track or particle of
\* AABTAG's was not found, for any event and any size of its arrays.
THEOREM CheckIsRight == Spec => []CheckFindsTheUnresolved
<1>1. Init => OutputFollows
  BY DEF Init, OutputFollows
<1>2. IInv => TypeOK /\ CommonsAreOwn
  BY DEF IInv
<1>3. TypeOK /\ CommonsAreOwn /\ OutputFollows => CheckFindsTheUnresolved
  <2> SUFFICES ASSUME TypeOK, CommonsAreOwn, OutputFollows, pc = "write"
               PROVE  CheckPasses <=> \A i \in DOMAIN frame.rows :
                        /\ IADTR(i) \in event.tracked
                        /\ frame.rows[i].attached => frame.rows[i].particle # NaN
    BY DEF CheckFindsTheUnresolved
  <2>1. CASE ~Status.valid
    BY <2>1, CheckOfNothing
  <2>2. CASE Status.valid
    <3>1. /\ DOMAIN frame.rows = DOMAIN Held(event)
          /\ \A i \in DOMAIN frame.rows :
               /\ IADTR(i) = Held(event)[i].pa
               /\ frame.rows[i].attached = Held(event)[i].attached
               /\ frame.rows[i].particle = ParticleIn(event, i)
      BY <2>2, CheckOfTags
    <3>2. CheckPasses <=>
            /\ \A i \in DOMAIN Held(event) : Held(event)[i].pa \in event.tracked
            /\ Resolved(event) = Attached(event)
      <4>1. states = TaggedStates(event, n)
        BY <2>2 DEF OutputFollows
      <4> QED
        BY <2>2, <4>1, CheckOfTags, StatesTell, VertexTells
    <3>3. Resolved(event) = Attached(event) <=>
            \A i \in DOMAIN Held(event) :
              Held(event)[i].attached => ParticleIn(event, i) # NaN
      BY DEF Resolved, Attached
    <3> QED
      BY <3>1, <3>2, <3>3
  <2> QED
    BY <2>1, <2>2
<1> QED
  BY <1>1, <1>2, <1>3, Invariance, FollowStep, PTL DEF Spec
=============================================================================
