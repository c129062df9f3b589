---------------------------- MODULE MC_GcArena ----------------------------
(***************************************************************************)
(* Model-checking instance of GcArena: three heap slots, a traced table    *)
(* type (size 2, may block its trace) and a pointer-free leaf type (size   *)
(* 1).  Timing factor 3/2 and pause factor 1/2 are the defaults of         *)
(* GcParameters; granularity and min_sleep are scaled down to the sizes    *)
(* of this heap so that the collector wakes up and slices allocation.     *)
(***************************************************************************)
EXTENDS GcArena, TLC

CONSTANTS Table, Leaf

MCTypes == {Table, Leaf}
MCSizeOf == [t \in MCTypes |-> IF t = Table THEN 2 ELSE 1]
MCTraceType == [t \in MCTypes |-> t = Table]

\* a first use-after-free ends the defined behaviour of the program
DefinedBehaviour == NoUseAfterFree

\* heaps of tables only
MCTablesOnly == {Table}

CellSymmetry == Permutations(Cell)
=============================================================================
