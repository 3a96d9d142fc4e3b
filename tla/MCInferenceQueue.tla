-------------------------- MODULE MCInferenceQueue --------------------------
(* The instances of InferenceQueue that TLC checks. *)
EXTENDS InferenceQueue, TLC

\* Calls are interchangeable in the safety properties.
RequestSymmetry == Permutations(Requests)
=============================================================================
