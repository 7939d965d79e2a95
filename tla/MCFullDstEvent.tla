--------------------------- MODULE MCFullDstEvent ---------------------------
(***************************************************************************)
(* Frames of one or two particles of any kind, whose tracks lie within the *)
(* tolerance of each other or well apart; up to two PAs of the full DST of *)
(* any kind, or three of the kinds in FewPas, in any order: known to       *)
(* pass 1, with the same perigee or one refitted within or beyond the      *)
(* tolerance, or unknown to it.                                            *)
(***************************************************************************)
EXTENDS FullDstEvent

CONSTANTS Gaps, Drifts, FewDrifts

Kinds == {"neutral", "signed", "unsigned"}

\* The frame of particles of the given kinds, particle p read from PA p.
FrameOf(kinds) ==
  LET P == DOMAIN kinds
      trackOf == [p \in P |-> IF kinds[p] = "neutral" THEN 0
                              ELSE Cardinality({r \in P : r <= p /\ kinds[r] # "neutral"})]
      charged == SelectSeq([p \in P |-> p], LAMBDA p : trackOf[p] # 0)
  IN
  [tracks    |-> charged,
   particles |-> [p \in P |-> [pa |-> p, charge |-> kinds[p], track |-> trackOf[p]]],
   clusters  |-> [c \in 1 .. 4 |-> [bank |-> <<"EMNC", "HCNC", "HCAL", "SSTC">>[c],
                                    pa |-> (c % Len(kinds)) + 1,
                                    particle |-> (c % Len(kinds)) + 1]],
   vertices  |-> <<[p \in P |-> p], <<>>, <<Len(kinds)>>>>,
   rows      |-> {[bank |-> b, pa |-> p, source |-> p, particle |-> p, flag |-> 0,
                   track |-> IF b = "DEDX" THEN trackOf[p] ELSE 0] :
                     <<b, p>> \in {"HAID", "DEDX"} \X {charged[t] : t \in DOMAIN charged}},
   links     |-> {[particle |-> p, vecp |-> p] : p \in P}]

\* What the full DST may have of PA p of pass 1, at perigee x, and of no PA of it.
Known(p, x, codes, drifts) ==
  {[own |-> p, code |-> c, trac |-> TRUE, perigee |-> x + d, segments |-> p, planes |-> 1,
    points |-> 1, banks |-> {"TOF", "MTPC"}] : <<c, d>> \in codes \X drifts}

Unknown(codes, xs) ==
  {[own |-> 0, code |-> c, trac |-> c # "neutral", perigee |-> x, segments |-> 1, planes |-> 0,
    points |-> 0, banks |-> {"MU"}] : <<c, x>> \in codes \X xs}

PasOfFrame(f, perigee, codes, drifts) ==
  UNION {Known(f.tracks[t], perigee[t], codes, drifts) : t \in DOMAIN f.tracks} \cup
  Unknown(codes \cup {"neutral"}, {1})

\* AABTAG used the signed PAs, last one first, and attached the first PA.
TagsOf(pa) ==
  LET n == Len(pa)
      signed == SelectSeq([k \in 1 .. n |-> n + 1 - k], LAMBDA p : pa[p].code = "signed")
  IN  [t \in DOMAIN signed |-> [pa |-> signed[t], attached |-> signed[t] = 1]]

OwnOnce(pa) == \A p, r \in DOMAIN pa : p # r /\ pa[p].own = pa[r].own => pa[p].own = 0

MCEvents ==
  UNION {
    LET f == FrameOf(kinds)
        perigee == [t \in DOMAIN f.tracks |-> gap * (t - 1)]
        any == PasOfFrame(f, perigee, {"signed", "unsigned", "absent"}, Drifts)
        few == PasOfFrame(f, perigee, {"signed"}, FewDrifts)
        pas == {pa \in (UNION {[1 .. n -> any] : n \in 0 .. 2}) \cup [1 .. 3 -> few] : OwnOnce(pa)}
    IN  {[frame |-> f, perigee |-> perigee, dedx |-> dedx, pa |-> pa, aabtag |-> TagsOf(pa)] :
           <<pa, dedx>> \in pas \X BOOLEAN} :
    <<kinds, gap>> \in (UNION {[1 .. n -> Kinds] : n \in 1 .. 2}) \X Gaps}
=============================================================================
