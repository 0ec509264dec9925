---------------------------- MODULE MCTokenBucket ----------------------------
(* TokenBucket for TLC: the workers are interchangeable.                    *)
EXTENDS TokenBucket, TLC

Symmetry == Permutations(Workers)
=============================================================================
