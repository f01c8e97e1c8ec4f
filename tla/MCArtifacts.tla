---------------------------- MODULE MCArtifacts -----------------------------
(* Instances of the collection for TLC. *)
EXTENDS Artifacts, TLC

\* Artifact patterns; image and image2 end in the same file name.
CONSTANTS image, dtb, image2

MCFileName == (image :> "Image") @@ (image2 :> "Image") @@ (dtb :> "board.dtb")

\* Different names, the same name twice, and nothing.
MCPatternLists ==
  {<<image, dtb>>, <<dtb, image2>>, <<image, image2>>, <<image, dtb, image2>>, << >>}

Symmetry == Permutations(JobIds) \cup Permutations(Contents)
=============================================================================
