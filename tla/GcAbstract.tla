----------------------------- MODULE GcAbstract -----------------------------
(***************************************************************************)
(* What the arena of src/src/gc.rs promises about the lifetime of a box,   *)
(* without colours, queues or budgets: a box lives from its allocation     *)
(* until it is reclaimed; the collector reclaims only boxes that carry no  *)
(* Rgc pin; the pins of a box are taken and released one at a time; when  *)
(* the arena is dropped every unpinned box goes with it, and a pinned box  *)
(* outlives it until its last pin is released.                              *)
(***************************************************************************)
EXTENDS Naturals

CONSTANTS Cell, MaxRoots

VARIABLES
  live,   \* the boxes that exist
  pins,   \* the number of Rgc pins on each box
  owned   \* the arena has not been dropped

vars == <<live, pins, owned>>

Init == live = {} /\ pins = [c \in Cell |-> 0] /\ owned = TRUE

\* A new box, pinned once when it is made by allocate_root.
Alloc(c) ==
  /\ owned /\ c \notin live
  /\ live' = live \cup {c}
  /\ \E n \in {0, 1} : pins' = [pins EXCEPT ![c] = n]
  /\ UNCHANGED owned

\* A pin is taken on a live box: by root while the arena owns the box, or
\* by cloning a pin the box already has.
Pin(c) ==
  /\ c \in live /\ (owned \/ pins[c] > 0) /\ pins[c] < MaxRoots
  /\ pins' = [pins EXCEPT ![c] = @ + 1]
  /\ UNCHANGED <<live, owned>>

\* A pin is released; the last one of a box the arena no longer owns
\* takes the box with it.
Unpin(c) ==
  /\ pins[c] > 0
  /\ pins' = [pins EXCEPT ![c] = @ - 1]
  /\ live' = IF pins[c] = 1 /\ ~owned THEN live \ {c} ELSE live
  /\ UNCHANGED owned

\* The collector frees an unpinned box.
Reclaim(c) ==
  /\ owned /\ c \in live /\ pins[c] = 0
  /\ live' = live \ {c}
  /\ UNCHANGED <<pins, owned>>

\* The arena is dropped: unpinned boxes are freed, pinned ones outlive it.
Destroy ==
  /\ owned
  /\ owned' = FALSE
  /\ live' = {c \in live : pins[c] > 0}
  /\ UNCHANGED pins

Next ==
  \/ Destroy
  \/ \E c \in Cell : Alloc(c) \/ Pin(c) \/ Unpin(c) \/ Reclaim(c)

Spec == Init /\ [][Next]_vars

=============================================================================
