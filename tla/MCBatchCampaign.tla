--------------------------- MODULE MCBatchCampaign ---------------------------
(***************************************************************************)
(* Two segments that share a tape, and a third whose tape is not staged.   *)
(***************************************************************************)
EXTENDS BatchCampaign

CONSTANTS t1, t2, t3, s1, s2, s3

MCTapes == {t1, t2, t3}
MCSegments == {s1, s2, s3}
MCTapesOf == (s1 :> {t1, t2}) @@ (s2 :> {t1}) @@ (s3 :> {t3})
MCOnDisk == {t1, t2, s1, s2, s3}
=============================================================================
