----------------------- MODULE MC_PropertyGetRefinement -----------------------
(* Small instance of the refinement PropertyGet => PropertyRegister. *)
EXTENDS PropertyGetRefinement, TLC

\* One integer type, a string and a Ptr: a set can change the type.
MCRefScalarTypes == {"int8"}
MCRefSizedTypes == {"string"}
=============================================================================
