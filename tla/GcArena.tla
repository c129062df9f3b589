------------------------------ MODULE GcArena ------------------------------
(***************************************************************************)
(* The incremental tri-color mark-and-sweep arena of src/src/gc.rs.        *)
(*                                                                         *)
(* One single-threaded executor runs both the host program (the mutator)  *)
(* and the collector.  The mutator calls the public surface of GcArena,   *)
(* Rgc and the write barrier; `do_collection` is a loop, and each of its  *)
(* iterations is one collector step.  While a collection slice runs      *)
(* (pc = "collect") no mutator action is enabled: the code has no         *)
(* suspension points.                                                     *)
(*                                                                         *)
(* Cells are heap slots; a freed slot may be handed out again by a later  *)
(* allocation, as the host allocator may reuse memory.  The header byte   *)
(* `GcFlags` is kept as the integer the code keeps and read and written   *)
(* with the code's bit operations.  The user payload is abstracted to the *)
(* set of cells it holds Gc pointers to (`refs`) and whether its `trace`  *)
(* is currently blocked (`locked`).                                       *)
(***************************************************************************)
EXTENDS Integers, Sequences, FiniteSets, Bitwise, SequencesExt

CONSTANTS
  Cell,          \* heap slots a GcBox may occupy
  Nil,           \* the None of Option<NonNull<GcBox>>
  Types,         \* user types T: GcObject that the host allocates
  SizeOf,        \* mem::size_of::<GcBox<T>>() for each type
  TraceType,     \* T::needs_trace() for each type
  LockableTypes, \* types whose GcObject::trace may return false
  TimingNum,     \* timing_factor = TimingNum / TimingDen
  TimingDen,
  PauseNum,      \* pause_factor = PauseNum / PauseDen
  PauseDen,
  CollectionGranularity,
  MinSleep,
  MaxRoots       \* bound on a root count (the code's bound is usize::MAX)

ASSUME Nil \notin Cell
ASSUME \A t \in Types : SizeOf[t] \in Nat \ {0} /\ TraceType[t] \in BOOLEAN
ASSUME LockableTypes \subseteq Types
ASSUME TimingNum \in Nat \ {0} /\ TimingDen \in Nat \ {0}
ASSUME PauseNum \in Nat /\ PauseDen \in Nat \ {0}
ASSUME {CollectionGranularity, MinSleep, MaxRoots} \subseteq Nat

VARIABLES
  \* GcArena fields
  phase, totalAllocated, rememberedSize, wakeupTotal,
  allocationDebt,   \* allocation_debt scaled by TimingNum (exact integer)
  granularityTimer, all, sweep, sweepPrev, gray,
  \* GcBox fields
  flags, rootCount, next, allocated, typeOf,
  \* user payloads
  refs, locked,
  \* host / executor
  alive,    \* the GcArena has not been dropped
  pc,       \* "mutator", "collect" (inside do_collection), "allocate_end"
  slice,    \* locals of the running do_collection call
  pending,  \* an allocate / allocate_root waiting for its slice to return
  fresh     \* Gc just returned by allocate, not yet stored or rooted

sched == <<totalAllocated, rememberedSize, wakeupTotal, allocationDebt,
           granularityTimer>>
cursor == <<all, sweep, sweepPrev>>
heap == <<next, allocated, typeOf, refs, locked>>   \* what FreeBoxes resets
host == <<alive, pc, slice, pending, fresh>>
vars == <<phase, sched, cursor, gray, flags, rootCount, heap, host>>

Sleeping == "Sleeping"
Propagating == "Propagating"
Sweeping == "Sweeping"

-----------------------------------------------------------------------------
(* GcFlags: color in bits 0-1, detached in bit 2, needs_trace in bit 3.    *)

White == 0
LightGray == 1
DarkGray == 2
Black == 3

\* `f & m` for a one- or two-bit mask m = 2^k * (2^w - 1)
Bits(f, k, w) == (f \div (2 ^ k)) % (2 ^ w)

Color(f) == Bits(f, 0, 2)

\* `(f & !0x3) | col`
SetColor(f, col) == f - Color(f) + col

IsDetached(f) == Bits(f, 2, 1) # 0

SetDetached(f, d) == f - 4 * Bits(f, 2, 1) + (IF d THEN 4 ELSE 0)

\* `self.0.get() | 0x8 != 0x0`, as written
NeedsTraceBit(f) == (f | 8) # 0

SetNeedsTrace(f, b) == f - 8 * Bits(f, 3, 1) + (IF b THEN 8 ELSE 0)

IsRooted(c) == rootCount[c] # 0

-----------------------------------------------------------------------------
(* Helpers                                                                 *)

Size(c) == SizeOf[typeOf[c]]

\* allocation debt and work are kept multiplied by TimingNum, so that
\* `alloc_size + alloc_size / timing_factor` is the integer below
DebtFor(sz) == sz * TimingNum + sz * TimingDen
WorkFor(sz) == sz * TimingNum

Larger(a, b) == IF a >= b THEN a ELSE b

\* f64::round of a non-negative rational: half away from zero
RoundRatio(n, d) == (2 * n + d) \div (2 * d)

DefaultType == CHOOSE t \in Types : TRUE

NoSlice == [work |-> 0, unbounded |-> FALSE, workLeft |-> 0,
            blocked |-> 0, broke |-> FALSE]
NoAlloc == [type |-> DefaultType, kids |-> {}, root |-> FALSE, active |-> FALSE]

StartSlice(work, unbounded) ==
  [work |-> work, unbounded |-> unbounded, workLeft |-> work,
   blocked |-> 0, broke |-> FALSE]

RECURSIVE ReachFrom(_)
ReachFrom(S) ==
  LET S2 == S \cup UNION {refs[c] : c \in S}
  IN IF S2 = S THEN S ELSE ReachFrom(S2)

Rooted == {c \in allocated : IsRooted(c)}

\* cells the host can name: those reachable from its Rgc pins
Reachable == ReachFrom(Rooted) \cap allocated

\* the all-objects list, walked through `next` (at most |Cell| + 1 hops)
RECURSIVE ListFrom(_, _)
ListFrom(p, n) ==
  IF p = Nil \/ n = 0 THEN <<>> ELSE <<p>> \o ListFrom(next[p], n - 1)

AllList == ListFrom(all, Cardinality(Cell) + 1)

\* the boxes freed with `Box::from_raw`; a freed slot returns to Init
FreeBoxes(S, fl, nx) ==
  /\ allocated' = allocated \ S
  /\ flags' = [c \in Cell |-> IF c \in S THEN 0 ELSE fl[c]]
  /\ next' = [c \in Cell |-> IF c \in S THEN Nil ELSE nx[c]]
  /\ refs' = [c \in Cell |-> IF c \in S THEN {} ELSE refs[c]]
  /\ typeOf' = [c \in Cell |-> IF c \in S THEN DefaultType ELSE typeOf[c]]
  /\ locked' = locked \ S

-----------------------------------------------------------------------------
(* GcArena::new                                                            *)

Init ==
  /\ phase = Sleeping /\ gray = <<>>
  /\ totalAllocated = 0 /\ rememberedSize = 0 /\ wakeupTotal = MinSleep
  /\ allocationDebt = 0 /\ granularityTimer = CollectionGranularity
  /\ all = Nil /\ sweep = Nil /\ sweepPrev = Nil
  /\ flags = [c \in Cell |-> 0] /\ rootCount = [c \in Cell |-> 0]
  /\ next = [c \in Cell |-> Nil] /\ allocated = {} /\ locked = {}
  /\ typeOf = [c \in Cell |-> DefaultType] /\ refs = [c \in Cell |-> {}]
  /\ alive = TRUE /\ pc = "mutator" /\ slice = NoSlice
  /\ pending = NoAlloc /\ fresh = Nil

-----------------------------------------------------------------------------
(* GcArena::allocate and allocate_root                                     *)

AdoptAsSweepPrev(c) ==
  IF phase = Sweeping /\ sweepPrev = Nil THEN c ELSE sweepPrev

\* Second half of `allocate` (after any collection slice): the new GcBox is
\* linked at the head of `all`; during a sweep with no `sweep_prev` it
\* becomes `sweep_prev`.  For allocate_root, `root` follows on the new Gc.
NewBox(c, t, kids, root) ==
  LET f0 == SetNeedsTrace(0, TraceType[t])
  IN /\ allocated' = allocated \cup {c}
     /\ typeOf' = [typeOf EXCEPT ![c] = t]
     /\ refs' = [refs EXCEPT ![c] = kids]
     /\ next' = [next EXCEPT ![c] = all]
     /\ all' = c
     /\ sweepPrev' = AdoptAsSweepPrev(c)
     /\ IF root
          THEN /\ rootCount' = [rootCount EXCEPT ![c] = 1]
               /\ flags' = [flags EXCEPT ![c] = SetColor(f0, LightGray)]
               /\ gray' = Append(gray, c)
               /\ fresh' = Nil
          ELSE /\ flags' = [flags EXCEPT ![c] = f0]
               /\ fresh' = c
               /\ UNCHANGED <<rootCount, gray>>

\* First half of `allocate`: accounting, wakeup, debt and the granularity
\* gate.  When the gate opens the slice runs first (pc = "collect") and the
\* box is made by AllocateEnd; otherwise the whole call is this one step.
Allocate(t, kids, root) ==
  LET sz == SizeOf[t]
      total == totalAllocated + sz
      wake == phase = Sleeping /\ total > wakeupTotal
      ph == IF wake THEN Propagating ELSE phase
      debt == allocationDebt + DebtFor(sz)
      gate == granularityTimer + sz >= CollectionGranularity
  IN /\ pc = "mutator" /\ alive /\ fresh = Nil
     /\ allocated # Cell
     /\ kids \subseteq Reachable
     /\ totalAllocated' = total
     /\ phase' = ph
     /\ IF ph = Sleeping
          THEN /\ UNCHANGED <<allocationDebt, granularityTimer>>
               /\ \E c \in Cell \ allocated : NewBox(c, t, kids, root)
               /\ UNCHANGED <<pc, slice, pending>>
          ELSE /\ allocationDebt' = debt
               /\ IF gate
                    THEN /\ granularityTimer' = 0
                         /\ pc' = "collect"
                         /\ slice' = StartSlice(debt, FALSE)
                         /\ pending' = [type |-> t, kids |-> kids,
                                        root |-> root, active |-> TRUE]
                         /\ UNCHANGED <<cursor, gray, flags, rootCount, heap,
                                        fresh>>
                    ELSE /\ granularityTimer' = granularityTimer + sz
                         /\ \E c \in Cell \ allocated : NewBox(c, t, kids, root)
                         /\ UNCHANGED <<pc, slice, pending>>
     /\ UNCHANGED <<rememberedSize, wakeupTotal, sweep, locked, alive>>

AllocateEnd ==
  /\ pc = "allocate_end"
  /\ \E c \in Cell \ allocated :
        NewBox(c, pending.type, pending.kids, pending.root)
  /\ pc' = "mutator"
  /\ pending' = NoAlloc
  /\ UNCHANGED <<phase, sched, sweep, locked, alive, slice>>

-----------------------------------------------------------------------------
(* GcArena::root, Rgc::clone, Rgc::drop                                    *)

\* Mutant: `root` forgets to shade a White box.
ShadeRootedSkipped(c) == UNCHANGED <<flags, gray>>

\* A White box that gets rooted turns LightGray and joins the back of
\* `gray`, to give it the longest time to become unrooted again.
ShadeRooted(c) ==
  IF Color(flags[c]) = White
    THEN /\ flags' = [flags EXCEPT ![c] = SetColor(@, LightGray)]
         /\ gray' = Append(gray, c)
    ELSE UNCHANGED <<flags, gray>>

\* `root`: the count goes up and the box is shaded.
Root(c) ==
  /\ pc = "mutator" /\ alive
  /\ c \in Reachable \/ c = fresh
  /\ fresh \in {Nil, c}
  /\ rootCount[c] < MaxRoots
  /\ rootCount' = [rootCount EXCEPT ![c] = @ + 1]
  /\ ShadeRooted(c)
  /\ fresh' = Nil
  /\ UNCHANGED <<phase, sched, cursor, heap, alive, pc, slice, pending>>

ClonePin(c) ==
  /\ pc = "mutator" /\ fresh = Nil
  /\ IsRooted(c) /\ rootCount[c] < MaxRoots
  /\ rootCount' = [rootCount EXCEPT ![c] = @ + 1]
  /\ UNCHANGED <<phase, sched, cursor, gray, flags, heap, host>>

\* Mutant: the last pin frees its box even while the arena owns it.
LastPinFreesAttached(c) == rootCount[c] = 1

\* Mutant: every drop of a pin on a detached box frees it, not only the last.
LastPinFreesAnyDrop(c) == IsDetached(flags[c])

LastPinFrees(c) == rootCount[c] = 1 /\ IsDetached(flags[c])

\* `Rgc::drop`: the last pin of a detached box frees it.
DropPin(c) ==
  /\ pc = "mutator" /\ fresh = Nil
  /\ IsRooted(c)
  /\ rootCount' = [rootCount EXCEPT ![c] = @ - 1]
  /\ IF LastPinFrees(c)
       THEN FreeBoxes({c}, flags, next)
       ELSE UNCHANGED <<flags, heap>>
  /\ UNCHANGED <<phase, sched, cursor, gray, host>>

-----------------------------------------------------------------------------
(* The host: stores into payloads with GcArena::write_barrier, and borrows *)
(* that make GcObject::trace return false.                                 *)

\* Mutant: the barrier is left out.
WriteBarrierSkipped(p) == UNCHANGED <<flags, gray>>

\* `write_barrier(p)`: while propagating, a Black box turns DarkGray and is
\* queued at the back.
WriteBarrier(p) ==
  IF phase = Propagating /\ Color(flags[p]) = Black
    THEN /\ flags' = [flags EXCEPT ![p] = SetColor(@, DarkGray)]
         /\ gray' = Append(gray, p)
    ELSE UNCHANGED <<flags, gray>>

\* The host plants a Gc pointer to c in p and calls the barrier on p with no
\* collection in between, as the contract of `write_barrier` demands.
Store(p, c) ==
  /\ pc = "mutator" /\ alive
  /\ p \in Reachable /\ TraceType[typeOf[p]]
  /\ c \in Reachable \/ c = fresh
  /\ fresh \in {Nil, c}
  /\ c \notin refs[p]
  /\ refs' = [refs EXCEPT ![p] = @ \cup {c}]
  /\ WriteBarrier(p)
  /\ fresh' = Nil
  /\ UNCHANGED <<phase, sched, cursor, rootCount, next, allocated, typeOf,
                 locked, alive, pc, slice, pending>>

\* Removing a pointer needs no barrier.
Unlink(p, c) ==
  /\ pc = "mutator" /\ alive /\ fresh = Nil
  /\ p \in Reachable /\ c \in refs[p]
  /\ refs' = [refs EXCEPT ![p] = @ \ {c}]
  /\ UNCHANGED <<phase, sched, cursor, gray, flags, rootCount, next,
                 allocated, typeOf, locked, host>>

\* The host lets the Gc returned by allocate go: the box is garbage.
DropFresh ==
  /\ pc = "mutator" /\ fresh # Nil
  /\ fresh' = Nil
  /\ UNCHANGED <<phase, sched, cursor, gray, flags, rootCount, heap, alive,
                 pc, slice, pending>>

\* A borrow of a payload that makes its `trace` return false, and its end.
Lock(c) ==
  /\ pc = "mutator" /\ alive /\ fresh = Nil
  /\ c \in Reachable /\ typeOf[c] \in LockableTypes /\ c \notin locked
  /\ locked' = locked \cup {c}
  /\ UNCHANGED <<phase, sched, cursor, gray, flags, rootCount, next,
                 allocated, typeOf, refs, host>>

Unlock(c) ==
  /\ pc = "mutator" /\ fresh = Nil
  /\ c \in locked
  /\ locked' = locked \ {c}
  /\ UNCHANGED <<phase, sched, cursor, gray, flags, rootCount, next,
                 allocated, typeOf, refs, host>>

-----------------------------------------------------------------------------
(* GcArena::collect_garbage and Drop for GcArena                           *)

CollectGarbage ==
  /\ pc = "mutator" /\ alive /\ fresh = Nil
  /\ phase' = IF phase = Sleeping THEN Propagating ELSE phase
  /\ pc' = "collect"
  /\ slice' = StartSlice(0, TRUE)
  /\ UNCHANGED <<sched, cursor, gray, flags, rootCount, heap, alive, pending,
                 fresh>>

\* Mutant: rooted boxes are left to their pins without the detached bit.
DetachedFlagsForgotten(keep) == flags

DetachedFlags(keep) ==
  [c \in Cell |-> IF c \in keep THEN SetDetached(flags[c], TRUE) ELSE flags[c]]

\* Walk `all`: rooted boxes are detached and left to their pins, the rest
\* are freed.
DropArena ==
  LET onList == {AllList[i] : i \in DOMAIN AllList}
      keep == {c \in onList : IsRooted(c)}
  IN /\ pc = "mutator" /\ alive /\ fresh = Nil
     /\ alive' = FALSE
     /\ FreeBoxes(onList \ keep, DetachedFlags(keep), next)
     /\ UNCHANGED <<phase, sched, cursor, gray, rootCount, pc, slice, pending,
                    fresh>>

-----------------------------------------------------------------------------
(* GcTracer::trace, applied to the header bytes and the gray queue         *)

Mark(st, c) ==
  LET col == Color(st.flags[c])
  IN CASE col \in {Black, DarkGray} -> st
       [] col = LightGray ->
            [st EXCEPT !.flags[c] = SetColor(@, DarkGray)]
       [] NeedsTraceBit(st.flags[c]) ->
            [flags |-> [st.flags EXCEPT ![c] = SetColor(@, DarkGray)],
             gray |-> <<c>> \o st.gray]
       [] OTHER ->
            [st EXCEPT !.flags[c] = SetColor(@, Black)]

\* a user `trace` calls the tracer on every held pointer, in an order of its
\* own choosing
MarkAll(order, fl, g) ==
  FoldLeft(Mark, [flags |-> fl, gray |-> g], order)

-----------------------------------------------------------------------------
(* GcArena::do_collection: one loop iteration per step                     *)

\* Mutant: an infinite budget is treated as an empty one.
BudgetLeftFiniteOnly == slice.workLeft > 0

\* `while work_left > 0.0`; an infinite budget never runs out
BudgetLeft == slice.unbounded \/ slice.workLeft > 0

Running == pc = "collect" /\ BudgetLeft /\ ~slice.broke

\* `work_left -= size`; an infinite budget stays infinite
Spent(w, sz) == IF slice.unbounded THEN w ELSE w - WorkFor(sz)

\* Propagating, gray queue empty: enter the sweep phase.
StartSweep ==
  /\ Running /\ phase = Propagating /\ gray = <<>>
  /\ phase' = Sweeping
  /\ sweep' = all
  /\ rememberedSize' = 0
  /\ UNCHANGED <<totalAllocated, wakeupTotal, allocationDebt, granularityTimer,
                 all, sweepPrev, gray, flags, rootCount, heap, host>>

\* Mutant: a skipped box is put back at the end of the queue.
DropFrontRequeued(g) == Append(Tail(g), Head(g))

DropFront(g) == Tail(g)

\* The front box is neither DarkGray nor rooted: it leaves the queue.
PropagateSkip ==
  LET c == Head(gray)
  IN /\ Running /\ phase = Propagating /\ gray # <<>>
     /\ Color(flags[c]) # DarkGray /\ ~IsRooted(c)
     /\ gray' = DropFront(gray)
     /\ UNCHANGED <<phase, sched, cursor, flags, rootCount, heap, host>>

\* The front box is traced successfully and turns Black.
PropagateTrace ==
  LET c == Head(gray)
  IN /\ Running /\ phase = Propagating /\ gray # <<>>
     /\ Color(flags[c]) = DarkGray \/ IsRooted(c)
     /\ c \notin locked
     /\ \E order \in SetToSeqs(refs[c]) :
          LET st == MarkAll(order, flags, Tail(gray))
          IN /\ flags' = [st.flags EXCEPT ![c] = SetColor(@, Black)]
             /\ gray' = st.gray
     /\ slice' = [slice EXCEPT !.workLeft = Spent(@, Size(c)), !.blocked = 0]
     /\ UNCHANGED <<phase, sched, cursor, rootCount, heap, alive, pc, pending,
                    fresh>>

\* Mutant: the count is compared with the length the queue had before the
\* box went back.
QueueStuckBeforePush(count, g) == count = Len(g) - 1

\* `blocked_gray_count == gray.len()`, on the queue after the push_back
QueueStuck(count, g) == count = Len(g)

\* The front box is rooted or DarkGray but its trace returns false: it goes
\* to the back, and the slice stops once `blocked_gray_count` equals the
\* queue length.  The count is kept exactly up to the queue length plus
\* one; above it the break can never fire again until a trace succeeds
\* (the length only shrinks and the count only grows), so larger values
\* behave alike and are stored as length plus one.
PropagateBlocked ==
  LET c == Head(gray)
      g == Append(Tail(gray), c)
      count == slice.blocked + 1
  IN /\ Running /\ phase = Propagating /\ gray # <<>>
     /\ Color(flags[c]) = DarkGray \/ IsRooted(c)
     /\ c \in locked
     /\ gray' = g
     /\ slice' = [slice EXCEPT !.blocked = IF count > Len(g) THEN Len(g) + 1
                                                             ELSE count,
                               !.broke = QueueStuck(count, g)]
     /\ UNCHANGED <<phase, sched, cursor, flags, rootCount, heap, alive, pc,
                    pending, fresh>>

\* Mutant: a freed box after `sweep_prev` is not spliced out of the list.
SplicedNextSkipped(s) == next

\* `next` with s spliced out through `sweep_prev`; with no `sweep_prev`
\* s is the head of `all`, which moves on instead
SplicedNext(s) ==
  IF sweepPrev # Nil THEN [next EXCEPT ![sweepPrev] = next[s]] ELSE next
SplicedHead(s) == IF sweepPrev # Nil THEN all ELSE next[s]

\* Mutant: a freed box is not taken off `total_allocated`.
TotalAfterFreeUnchanged(s) == totalAllocated

TotalAfterFree(s) == totalAllocated - Size(s)

\* Sweeping a White box: unlink it through `sweep_prev` (or the head of
\* `all`), account for it and free it.
SweepFree ==
  LET s == sweep
      nxt == next[s]
  IN /\ Running /\ phase = Sweeping /\ s # Nil
     /\ Color(flags[s]) = White
     /\ sweep' = nxt
     /\ FreeBoxes({s}, flags, SplicedNext(s))
     /\ all' = SplicedHead(s)
     /\ totalAllocated' = TotalAfterFree(s)
     /\ slice' = [slice EXCEPT !.workLeft = Spent(@, Size(s))]
     /\ UNCHANGED <<phase, rememberedSize, wakeupTotal, allocationDebt,
                    granularityTimer, sweepPrev, gray, rootCount, alive, pc,
                    pending, fresh>>

\* Sweeping a non-White box: it stays; a rooted one turns LightGray and is
\* queued for the next cycle, an unrooted one turns White.
SweepKeep ==
  LET s == sweep
  IN /\ Running /\ phase = Sweeping /\ s # Nil
     /\ Color(flags[s]) # White
     /\ sweep' = next[s]
     /\ sweepPrev' = s
     /\ rememberedSize' = rememberedSize + Size(s)
     /\ IF IsRooted(s)
          THEN /\ flags' = [flags EXCEPT ![s] = SetColor(@, LightGray)]
               /\ gray' = Append(gray, s)
          ELSE /\ flags' = [flags EXCEPT ![s] = SetColor(@, White)]
               /\ UNCHANGED gray
     /\ UNCHANGED <<phase, totalAllocated, wakeupTotal, allocationDebt,
                    granularityTimer, all, rootCount, heap, host>>

\* The cursor ran off the list: back to sleep with a new wakeup threshold.
FinishSweep ==
  /\ Running /\ phase = Sweeping /\ sweep = Nil
  /\ sweepPrev' = Nil
  /\ phase' = Sleeping
  /\ wakeupTotal' = totalAllocated
                     + Larger(RoundRatio(rememberedSize * PauseNum, PauseDen),
                              MinSleep)
  /\ UNCHANGED <<totalAllocated, rememberedSize, allocationDebt,
                 granularityTimer, all, sweep, gray, flags, rootCount, heap,
                 host>>

\* Mutant: the remaining debt is not floored at zero.
SettledDebtUnclamped ==
  IF phase = Sleeping \/ slice.unbounded THEN 0
  ELSE allocationDebt - slice.work + slice.workLeft

\* With an infinite budget and the phase not Sleeping, `debt - inf + inf`
\* is NaN and `NaN.max(0.0)` is 0.
SettledDebt ==
  IF phase = Sleeping \/ slice.unbounded THEN 0
  ELSE Larger(allocationDebt - slice.work + slice.workLeft, 0)

\* The loop ends (budget spent, asleep, or break): settle the debt and
\* return to the caller.
EndSlice ==
  /\ pc = "collect"
  /\ ~BudgetLeft \/ phase = Sleeping \/ slice.broke
  /\ allocationDebt' = SettledDebt
  /\ pc' = IF pending.active THEN "allocate_end" ELSE "mutator"
  /\ slice' = NoSlice
  /\ UNCHANGED <<phase, totalAllocated, rememberedSize, wakeupTotal,
                 granularityTimer, cursor, gray, flags, rootCount, heap, alive,
                 pending, fresh>>

\* Once the arena is dropped and every pin is gone the program is done.
Done ==
  /\ ~alive /\ pc = "mutator"
  /\ \A c \in Cell : ~IsRooted(c)
  /\ UNCHANGED vars

-----------------------------------------------------------------------------

Collector ==
  \/ StartSweep \/ PropagateSkip \/ PropagateTrace \/ PropagateBlocked
  \/ SweepFree \/ SweepKeep \/ FinishSweep \/ EndSlice \/ AllocateEnd

Mutator ==
  \/ \E t \in Types, root \in BOOLEAN :
       \E kids \in {{}} \cup {{k} : k \in Reachable} :
         /\ TraceType[t] \/ kids = {}
         /\ Allocate(t, kids, root)
  \/ \E c \in Cell : Root(c) \/ ClonePin(c) \/ DropPin(c) \/ Lock(c) \/ Unlock(c)
  \/ \E p, c \in Cell : Store(p, c) \/ Unlink(p, c)
  \/ DropFresh \/ CollectGarbage \/ DropArena \/ Done

Next == Mutator \/ Collector

Spec == Init /\ [][Next]_vars

\* The loop of do_collection runs to its end once entered: the executor
\* does nothing else meanwhile.
FairSpec == Spec /\ WF_vars(Collector)

\* The refinement mapping onto GcAbstract: a box is live while its GcBox is
\* allocated, its pins are its root count, and the arena owns its boxes
\* until it is dropped.  Colours, queues, the list and the scheduler are
\* hidden; the steps that only touch them are stuttering steps there.
GcAbs == INSTANCE GcAbstract WITH live <- allocated, pins <- rootCount,
                                  owned <- alive

-----------------------------------------------------------------------------
(* Properties                                                              *)

TypeOK ==
  /\ phase \in {Sleeping, Propagating, Sweeping}
  /\ {totalAllocated, rememberedSize, wakeupTotal, allocationDebt,
      granularityTimer} \subseteq Nat
  /\ {all, sweep, sweepPrev} \subseteq Cell \cup {Nil}
  /\ gray \in Seq(Cell)
  /\ flags \in [Cell -> 0..15]
  /\ rootCount \in [Cell -> 0..MaxRoots]
  /\ next \in [Cell -> Cell \cup {Nil}]
  /\ allocated \subseteq Cell
  /\ typeOf \in [Cell -> Types]
  /\ refs \in [Cell -> SUBSET Cell]
  /\ locked \subseteq allocated
  /\ alive \in BOOLEAN
  /\ pc \in {"mutator", "collect", "allocate_end"}
  /\ slice.blocked \in Nat /\ slice.broke \in BOOLEAN
  /\ fresh \in Cell \cup {Nil}

\* I1: following `next` from `all` ends at None and meets every live box
\* exactly once; the sweep splice, the head update and the insertion at the
\* head during a sweep must all keep the list whole.
AllListExact ==
  alive =>
    /\ Len(AllList) <= Cardinality(Cell)
    /\ {AllList[i] : i \in DOMAIN AllList} = allocated

TotalAllocatedExact ==
  LET PendingSize == IF pending.active THEN SizeOf[pending.type] ELSE 0
  IN alive =>
       totalAllocated =
         FoldSet(LAMBDA c, acc : acc + Size(c), 0, allocated) + PendingSize

\* I6: a box with an outstanding Rgc pin is never freed, by a sweep, by
\* the drop of the arena, or by the drop of another pin.
RootsLive ==
  \A c \in Cell : IsRooted(c) => c \in allocated

\* I3, the black invariant: while propagating, no Black box holds a
\* pointer to a White or LightGray box (tracer, write barrier and
\* allocation must all preserve it).
BlackInvariant ==
  (alive /\ phase = Propagating) =>
    \A b \in allocated :
      Color(flags[b]) = Black =>
        \A k \in refs[b] : Color(flags[k]) \notin {White, LightGray}

\* Every entry of the gray queue names a live box: the sweep never frees
\* a box that a later propagation step would pop and trace.
GrayEntriesLive ==
  alive => \A i \in DOMAIN gray : gray[i] \in allocated

\* I7: after the arena is dropped a box outlives it only while pinned and
\* marked detached, so the last Rgc::drop frees it (no leak).
LeakFree ==
  ~alive => \A c \in allocated : IsRooted(c) /\ IsDetached(flags[c])

\* The early exit of a propagation slice fires only when the queue is
\* truly stuck: every queued box is one whose trace was just refused.
BreakOnlyWhenAllBlocked ==
  (pc = "collect" /\ slice.broke) =>
    \A i \in DOMAIN gray :
      /\ gray[i] \in locked
      /\ Color(flags[gray[i]]) = DarkGray \/ IsRooted(gray[i])

\* Every do_collection call returns to its caller (the "whole queue is
\* blocked" break is meant to stop a slice that cannot progress).
SliceReturns == (pc = "collect") ~> (pc # "collect")

\* spec.md section 4.6: collect_garbage, with no trace refused, runs the
\* cycle to completion and returns with the arena Sleeping (the infinite
\* budget keeps the loop of do_collection going through the sweep).
FullCollectionCompletes ==
  (pc = "collect" /\ slice.unbounded) ~> (pc = "mutator" /\ phase = Sleeping)

\* spec.md section 4.6: a collect_garbage stopped because every queued
\* trace was refused returns with work pending, and the host is to call it
\* again once the refusing borrows are released.  If the host releases
\* them for good and keeps calling collect_garbage, the arena keeps
\* returning to Sleeping: what a blocked slice left behind (requeued
\* boxes, skipped LightGray boxes, the debt) does not stop later cycles.
RetriedCollectionCompletes ==
  (<>[](locked = {}) /\ []<>(pc = "collect" /\ slice.unbounded))
    => []<>(phase = Sleeping)

\* Every box the host can reach from its pins is live while the arena
\* lives: the collector never frees what is still reachable.  (Garbage may
\* keep pointers to freed boxes; nothing reads them.)
NoUseAfterFree ==
  alive => ReachFrom(Rooted) \subseteq allocated

\* spec.md section 8: once `collect_garbage` returns asleep (no blocked
\* trace stopped it), every box not reachable from a pin has been freed.
\* The comment on GcColor::LightGray says an unrooted LightGray box "is
\* turned white" when processed; the skip in do_collection leaves it
\* LightGray, so the sweep keeps it.
FullCollectionFreesGarbage ==
  (pc = "collect" /\ slice.unbounded /\ phase = Sleeping)
    => allocated \subseteq ReachFrom(Rooted)

\* The arena keeps the lifetime promise of GcAbstract: a sweep frees only
\* unpinned boxes, root and Rgc::clone/drop move a count by one, the last
\* Rgc::drop frees a box only once the arena is gone, and the drop of the
\* arena frees exactly the unpinned boxes on `all`.
RefinesGcAbstract == GcAbs!Spec

\* While propagating, a pinned box that is not yet Black is waiting in
\* `gray`, so propagation traces it before the sweep (spec.md 4.2 and 4.5).
\* `root` relies on it when it leaves a non-White box unqueued, and the
\* tracer when it turns a LightGray box DarkGray in place.
PinnedBoxesQueued ==
  (alive /\ phase = Propagating) =>
    \A c \in Rooted : Color(flags[c]) = Black \/ \E i \in DOMAIN gray : gray[i] = c

\* The sweep's own debug_assert: a box the sweep keeps is Black.
SweepKeepsOnlyBlack ==
  (Running /\ phase = Sweeping /\ sweep # Nil /\ Color(flags[sweep]) # White)
    => Color(flags[sweep]) = Black

\* The fast path of GcTracer::trace: a White box of a type whose
\* needs_trace() is false becomes Black without passing through the queue.
PointerFreeMarkedBlack ==
  [][\A c \in allocated :
       (Color(flags[c]) = White /\ ~TraceType[typeOf[c]] /\ c \in allocated')
         => Color(flags'[c]) # DarkGray]_vars

=============================================================================
