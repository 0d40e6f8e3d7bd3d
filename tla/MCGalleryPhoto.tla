----------------------------- MODULE MCGalleryPhoto -----------------------------
(***************************************************************************)
(* Small instances of GalleryPhoto for TLC: the album "strict" accepts     *)
(* photos of content "good" only; ann has taken photo 1.                   *)
(***************************************************************************)
EXTENDS GalleryPhoto, TLC

MCTakenBy == [p \in Photos |-> IF p = 1 THEN "ann" ELSE Nobody]
SameContent == [p \in Photos |-> "good"]
AllBad == [p \in Photos |-> "bad"]
MCGrade == [x \in Albums \X Contents |->
              IF x = <<"strict", "bad">> THEN "resolution" ELSE "none"]
Symmetry == Permutations(Requests)
===============================================================================
