----------------------------- MODULE MCTruthTree -----------------------------
(***************************************************************************)
(* Every record of up to four lines without DELSIM particles, and smaller  *)
(* records with up to three tracks over two vertices.                      *)
(***************************************************************************)
EXTENDS TruthTree

\* The mothers and starts of n lines.
Lines(n) == {[i \in 1 .. n |-> [mother |-> m[i], start |-> s[i]]] :
               m \in {f \in [1 .. n -> 0 .. n - 1] : \A i \in 1 .. n : f[i] < i},
               s \in [1 .. n -> {0, 3, 7}]}

Generated == [lines : UNION {Lines(n) : n \in 0 .. 4}, primary : {Unset, 2},
              tracks : {<<>>}, vertices : {<<>>}]

\* What DELSIM may have made of n lines: tracks of theirs and of its own, that
\* start and end at two vertices or nowhere.
Tracks(n) == [line : 0 .. n, origin : 0 .. 2, end : 0 .. 2]

Entering(tracks, k) ==
  LET E == {t \in DOMAIN tracks : tracks[t].end = k}
  IN  IF E = {} THEN 0 ELSE CHOOSE t \in E : TRUE

Simulation(tracks) ==
  [tracks |-> tracks, vertices |-> <<[position |-> 5, entering |-> Entering(tracks, 1)],
                                     [position |-> 9, entering |-> Entering(tracks, 2)]>>]

Simulations(n) ==
  {s \in {Simulation(t) : t \in UNION {[1 .. k -> Tracks(n)] : k \in 1 .. 3}} :
     EventShape([lines |-> [i \in 1 .. n |-> [mother |-> 0, start |-> 3]], primary |-> 2,
                 tracks |-> s.tracks, vertices |-> s.vertices])}

Simulations0 == Simulations(0)
Simulations1 == Simulations(1)
Simulations2 == Simulations(2)

Simulated(n, S) == {[lines |-> l, primary |-> 2, tracks |-> s.tracks, vertices |-> s.vertices] :
                      l \in Lines(n), s \in S}

MCEvents == Generated \cup Simulated(0, Simulations0) \cup Simulated(1, Simulations1)
                     \cup Simulated(2, Simulations2)
=============================================================================
