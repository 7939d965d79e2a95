---------------------------- MODULE PassOneFrame ----------------------------
(***************************************************************************)
(* What pass 2 relies on of the frame pass 1 wrote for the event: the      *)
(* relations between its tracks, particles, clusters, vertices and rows.   *)
(* An object is known by the PA of pass 1 it was read from, an index is a  *)
(* position in its collection, and 0 is no object.                         *)
(***************************************************************************)
EXTENDS Integers, Sequences

FrameShape(f) ==
  LET P == DOMAIN f.particles
      T == DOMAIN f.tracks
  IN
  /\ f.tracks \in Seq(Nat \ {0})                 \* TRAC_Tracks: the PA of each
  /\ f.particles \in Seq([pa : Nat \ {0}, charge : {"neutral", "signed", "unsigned"},
                          track : 0 .. Len(f.tracks)])
  \* Each track belongs to one particle, of the same PA; neutral ones have none.
  /\ \A q \in P :
       /\ f.particles[q].track = 0 <=> f.particles[q].charge = "neutral"
       /\ f.particles[q].track # 0 => f.tracks[f.particles[q].track] = f.particles[q].pa
       /\ \A r \in P : f.particles[q].pa = f.particles[r].pa => q = r
  /\ \A t \in T : \E q \in P : f.particles[q].track = t
  \* Clusters, with the particle that refers to each, and vertices.
  /\ f.clusters \in Seq([bank : {"EMNC", "HCNC", "HCAL", "SSTC"}, pa : Nat, particle : P \cup {0}])
  /\ \A c \in DOMAIN f.clusters : f.clusters[c].particle # 0 =>
       f.particles[f.clusters[c].particle].pa = f.clusters[c].pa
  /\ f.vertices \in Seq(Seq(P))
  \* ParticleID rows, the dE/dx ones with a track, and truth links.
  /\ f.rows \subseteq [bank : {"HAID", "MUID", "ELID", "DEDX"}, pa : Nat, source : Nat,
                       particle : P, track : T \cup {0}, flag : Nat]
  /\ \A r \in f.rows :
       /\ f.particles[r.particle].pa = r.pa
       /\ r.bank = "DEDX" => r.track = f.particles[r.particle].track
  /\ f.links \subseteq [particle : P, vecp : Nat]
=============================================================================
