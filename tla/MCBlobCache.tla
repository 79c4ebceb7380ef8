---------------------------- MODULE MCBlobCache ----------------------------
(* BlobCache with two writers of one key whose publications overlap. *)
EXTENDS BlobCache, TLC

CONSTANTS m1, d1, d2, w1, w2

\* Digests are interchangeable, and so are writers.
Symmetric == Permutations(Digests) \cup Permutations(Writers)
=============================================================================
