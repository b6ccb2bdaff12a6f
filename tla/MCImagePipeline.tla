--------------------------- MODULE MCImagePipeline ---------------------------
(* Instances of ImagePipeline for TLC. *)
EXTENDS ImagePipeline, TLC

CallSymmetry == Permutations(Watermarked) \cup Permutations(Calls \ Watermarked)

=============================================================================
