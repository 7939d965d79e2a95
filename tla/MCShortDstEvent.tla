--------------------------- MODULE MCShortDstEvent ---------------------------
(***************************************************************************)
(* Events of one or two PAs of any kind, and of three PAs of the kinds in  *)
(* FewKinds; VECP lists some of them in either order, charged ones first,  *)
(* with at most one entry reclassified; the vertices may be more than the  *)
(* cap, be empty, or not match PSCVTX.                                     *)
(***************************************************************************)
EXTENDS ShortDstEvent

CONSTANTS Kinds, FewKinds

Empty == [code |-> "absent", trac |-> "absent", segments |-> 0, planes |-> 0, points |-> 0,
          emca |-> <<>>, emnc |-> 0, hcnc |-> 0, hcal |-> 0,
          hpc |-> FALSE, nlay |-> 0, patt |-> {}, banks |-> {}]

Neutral == [Empty EXCEPT !.code = "neutral", !.emca = <<0, 2>>, !.emnc = 2, !.hcal = 1,
                         !.hpc = TRUE, !.nlay = 2, !.patt = {1, 2}, !.banks = {"PHOT", "ELTR"}]

Charged == [Empty EXCEPT !.code = "signed", !.trac = "valid", !.segments = 1, !.points = 1,
                         !.emca = <<1, 0, 1>>, !.emnc = 3, !.hpc = TRUE, !.nlay = 3,
                         !.patt = {2, 3}, !.hcnc = 1, !.banks = {"MTPC", "TOF", "MU"}]

Forward == [Charged EXCEPT !.code = "unsigned", !.segments = 0, !.planes = 2,
                           !.points = 0, !.hpc = FALSE, !.banks = {"ELTR", "MU"}]

Degenerate == [Charged EXCEPT !.trac = "degenerate"]

Untracked == [Charged EXCEPT !.trac = "absent"]

PaOfKind == [absent |-> Empty, neutral |-> Neutral, charged |-> Charged,
             forward |-> Forward, degenerate |-> Degenerate, untracked |-> Untracked]

\* The vertices: how many, where the PAs are, what PSCVTX says.
Chains(n) ==
  {[nlpv |-> c.nlpv, lpv |-> [p \in 1 .. n |-> IF p <= c.first THEN c.low ELSE c.high],
    nvtx |-> c.nvtx, plain |-> c.plain] :
     c \in {[nlpv |-> 1, low |-> 1, high |-> 1, first |-> 0, nvtx |-> 1, plain |-> TRUE],
            [nlpv |-> 2, low |-> 1, high |-> 2, first |-> 1, nvtx |-> 2, plain |-> TRUE],
            [nlpv |-> 2, low |-> 2, high |-> 2, first |-> 0, nvtx |-> 0, plain |-> FALSE],
            [nlpv |-> 3, low |-> 1, high |-> 3, first |-> 1, nvtx |-> 0, plain |-> TRUE],
            [nlpv |-> 2, low |-> 1, high |-> 1, first |-> 0, nvtx |-> 1, plain |-> TRUE]}}

IsCharged(code) == code \in {"signed", "unsigned"}

Entry(p, charged) ==
  [pa |-> p, charged |-> charged, nasht |-> p,
   banks |-> ChargedBanks \cup {"PI0", "STIC"}, simulated |-> TRUE]

\* VECP: some of the PAs with a PA.MAIN, at most one of them with the charge
\* PA.MAIN does not have.  ncvecp counts the first entries that were charged on
\* either account.
VecpsOf(pa) ==
  LET n == Len(pa)
      listed == {p \in 1 .. n : pa[p].code # "absent"}
      orders == UNION {{o \in [1 .. k -> listed] : \A i, j \in 1 .. k : o[i] = o[j] => i = j} :
                         k \in 0 .. Cardinality(listed)}
      flips(o) == {0} \cup DOMAIN o
      entries(o, f) == [i \in DOMAIN o |-> Entry(o[i], IsCharged(pa[o[i]].code) = (i # f))]
      first(o, f) == {i \in DOMAIN o : IsCharged(pa[o[i]].code) \/ i = f}
  IN  {[vecp |-> entries(o, f), ncvecp |-> Cardinality(first(o, f))] :
         <<o, f>> \in {<<o, f>> \in orders \X (0 .. n) :
                          /\ f \in flips(o)
                          /\ \A i \in first(o, f) : \A j \in 1 .. i : j \in first(o, f)}}

\* AABTAG used the charged PAs, last one first, and attached the first PA.
TagsOf(pa) ==
  LET n == Len(pa)
      charged == SelectSeq([k \in 1 .. n |-> n + 1 - k], LAMBDA p : IsCharged(pa[p].code))
  IN  [t \in DOMAIN charged |-> [pa |-> charged[t], attached |-> charged[t] = 1]]

MCEvents ==
  UNION {
    {[pa |-> [p \in 1 .. n |-> PaOfKind[kinds[p]]],
      nlpv |-> c.nlpv, lpv |-> c.lpv, plain |-> c.plain, nvtx |-> c.nvtx, nvtxmc |-> n - 1,
      vecp |-> v.vecp, ncvecp |-> v.ncvecp,
      decays |-> <<<<1, 2>>>>, aabtag |-> TagsOf([p \in 1 .. n |-> PaOfKind[kinds[p]]])] :
        c \in Chains(n), v \in VecpsOf([p \in 1 .. n |-> PaOfKind[kinds[p]]])} :
    <<n, kinds>> \in UNION {{<<m, ks>> : ks \in [1 .. m -> IF m <= 2 THEN Kinds ELSE FewKinds]} :
                             m \in 1 .. 3}}
=============================================================================
