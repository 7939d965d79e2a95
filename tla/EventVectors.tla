---------------------------- MODULE EventVectors ----------------------------
(***************************************************************************)
(* The vectors by which writers hand objects to each other: indexed by the *)
(* position of a PA in the walk, or by a VECP index, and grown on demand.  *)
(***************************************************************************)
EXTENDS Integers, Sequences

\* A vector grown to position i with empty entries if it is shorter, and entry
\* i set to v.
Put(s, i, v, empty) ==
  [k \in 1 .. (IF i <= Len(s) THEN Len(s) ELSE i) |->
     IF k = i THEN v ELSE IF k <= Len(s) THEN s[k] ELSE empty]

\* s[i], or the empty value beyond its end.
Get(s, i, empty) == IF i \in DOMAIN s THEN s[i] ELSE empty

\* n objects read from PA p.
Objects(p, n) == [k \in 1 .. n |-> [pa |-> p, n |-> k]]
=============================================================================
