----------------------------- MODULE MCRegistry -----------------------------
(***************************************************************************)
(* Constant values for checking the commands of the registry: two assets,  *)
(* two binding ids, one target with a stable identity under two names.     *)
(***************************************************************************)
EXTENDS AtomicRegistry, TLC

CONSTANTS a1, a2, b1, b2, r1, r2

\* Batches of one or two new assets.
MCBatch == {{x, y} : x, y \in Asset}

Symmetry == Permutations({a1, a2}) \cup Permutations({b1, b2}) \cup Permutations({r1, r2})
=============================================================================
