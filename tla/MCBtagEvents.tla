----------------------------- MODULE MCBtagEvents -----------------------------
(***************************************************************************)
(* Records that differ from a plain event in one respect each: what AABTAG *)
(* and the beam-spot database make of it, what it holds, what the writers  *)
(* before found of it.  Up to four of them in any order.                   *)
(***************************************************************************)
EXTENDS BtagEvents

Track(p, a, m) == [pa |-> p, attached |-> a, measured |-> m]
Jet(h, t, x) == [hemi |-> h, tagged |-> t, x |-> x]
Sv(a, isec) == [accepted |-> a, isec |-> isec]

Plain ==
  [hooked |-> TRUE, simulated |-> FALSE, stored |-> TRUE, beamSpot |-> 0, ibad |-> 0,
   tracks |-> <<Track(1, TRUE, TRUE), Track(3, FALSE, FALSE)>>,
   jets |-> <<Jet(1, TRUE, 2), Jet(2, FALSE, 3), Jet(1, TRUE, 1)>>,
   hypos |-> <<Sv(TRUE, <<2, -1>>), Sv(FALSE, <<1>>)>>,
   tracked |-> {1, 2, 3}, particles |-> {1, 2, 3}]

MCShapes ==
  {Plain,
   [Plain EXCEPT !.hooked = FALSE],
   [Plain EXCEPT !.beamSpot = 1],
   [Plain EXCEPT !.beamSpot = 2, !.stored = FALSE],
   [Plain EXCEPT !.ibad = 1],
   [Plain EXCEPT !.ibad = 2, !.simulated = TRUE, !.stored = FALSE],
   [Plain EXCEPT !.simulated = TRUE],
   \* More tracks than the arrays hold, all attached.
   [Plain EXCEPT !.tracks = <<Track(2, TRUE, TRUE), Track(1, TRUE, FALSE), Track(3, TRUE, TRUE)>>,
                 !.jets = <<Jet(2, TRUE, -5), Jet(2, TRUE, 4)>>],
   \* A beam-spot only vertex, and no jets.
   [Plain EXCEPT !.tracks = <<Track(3, FALSE, FALSE)>>, !.jets = <<>>, !.hypos = <<>>],
   \* PAs that have no match in pass 2.
   [Plain EXCEPT !.tracked = {1, 2}, !.particles = {1, 2}],
   [Plain EXCEPT !.tracked = {3}, !.particles = {3}]}
=============================================================================
