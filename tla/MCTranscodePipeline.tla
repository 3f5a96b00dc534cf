------------------------- MODULE MCTranscodePipeline ------------------------
(* Small instances of TranscodePipeline for TLC; the values are in the cfgs. *)
EXTENDS TranscodePipeline, TLC

\* Contents, upload requests and worker processes are interchangeable.
Symmetry == Permutations(Hashes) \cup Permutations(Uploads)
                \cup Permutations(Workers) \cup Permutations(Tracks)
=============================================================================
