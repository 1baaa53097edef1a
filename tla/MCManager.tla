----------------------------- MODULE MCManager ------------------------------
(***************************************************************************)
(* Constant values for checking the manager: two clients over one asset,   *)
(* its two fields and its representation.  Where liveness is checked the   *)
(* code of the asset does not vary.                                        *)
(***************************************************************************)
EXTENDS Manager

MCBatch == {{x} : x \in Asset}
=============================================================================
