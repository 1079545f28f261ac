--------------------------- MODULE MC_PropertyGet ---------------------------
(* Small instance of PropertyGet for TLC. *)
EXTENDS PropertyGet, TLC

\* Two integer widths (so a conversion may succeed or fail) and a string.
MCScalarTypes == {"int8", "int64"}
MCSizedTypes == {"string"}

\* A single integer type for the liveness run, whose graph has no symmetry.
MCLiveScalarTypes == {"int8"}

\* Goroutines and Go handles are interchangeable.
MCSymmetry == Permutations(Goroutines) \cup Permutations(Handles)
=============================================================================
