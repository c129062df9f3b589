# TLA+ model of the luster incremental garbage collector

This directory holds TLA+ models of `src/src/gc.rs`, the incremental tri-colour
mark-and-sweep arena. It also holds TLC configurations that check the models,
and `PROJECT.json`, which lists components, runs, mutants, the definition→source
map, findings and hazards.

## The system

`src/src/gc.rs` (542 lines) is the core. Its parts:

| Part | Code | What it does |
|---|---|---|
| `GcFlags` | 475-520 | A one-byte header per box: colour in bits 0-1, `detached` in bit 2 and `needs_trace` in bit 3. |
| `RootCount` | 522-542 | The number of `Rgc` pins on a box. |
| `GcTracer::trace` | 72-98 | Marks a child: White→DarkGray at the front of `gray` (or White→Black for pointer-free types), and LightGray→DarkGray in place. |
| `GcArena` API | 137-253 | `new`, `allocate`, `allocate_root`, `root`, `write_barrier` and `collect_garbage`. |
| `do_collection` | 328-438 | The incremental collector. Each call is a loop of propagation and sweep steps bounded by a byte budget, followed by debt settlement. |
| `Rgc` | 283-326 | Pins. `clone` increments the count. `drop` decrements it and frees a detached box on the last drop. |
| `Drop for GcArena` | 120-135 | Walks the all-list. It detaches pinned boxes and frees the rest. |
| `GcParameters` | 8-43 | `pause_factor`, `timing_factor`, `collection_granularity` and `min_sleep`. |

How the parts interact:
- Everything runs on one thread with no suspension points (spec.md §5). The host calls the API.
- `allocate` may run a slice of `do_collection` before it creates its box.
- A slice calls user `trace` implementations, which call back into `GcTracer`.
- `root`, `write_barrier` and the sweep push boxes onto the gray queue. Propagation pops them.
- Pins survive the arena through the `detached` bit.

Two other files are not modelled (see `PROJECT.json`):
- `src/src/callback.rs` is a stateless allocation wrapper with pointer equality.
- `src/src/sequence/into_sequence.rs` is a one-shot `Option::take`.

## Module `GcArena`

State, mapped to the code:
- The arena fields are `phase`, `totalAllocated`, `rememberedSize`, `wakeupTotal`, `allocationDebt`, `granularityTimer`, `all`, `sweep`, `sweepPrev` and `gray`.
- Per-box fields are `flags` (the header byte as an integer), `rootCount` and `next`.
- `allocated`, `typeOf`, `refs` and `locked` abstract the heap and the user payload. A payload is reduced to the set of boxes it points to, and to whether its `trace` currently returns false.
- `slice` holds the locals of a running `do_collection` (`work`, `work_left`, `blocked_gray_count`, and whether the loop broke).
- `pending` is an `allocate` suspended at its `do_collection` call.
- `fresh` is a `Gc` returned by `allocate` and not yet stored or rooted.
- `alive` is false once the arena is dropped.
- `pc` says whether the executor is in host code, inside `do_collection`, or finishing an `allocate`.

Actions:
- One action per API call: `Allocate`/`AllocateEnd`, `Root`, `ClonePin`, `DropPin`, `CollectGarbage` and `DropArena`.
- One action per branch of the collector loop: `StartSweep`, `PropagateSkip`, `PropagateTrace`, `PropagateBlocked`, `SweepFree`, `SweepKeep` and `FinishSweep`.
- `EndSlice` is the debt settlement after the loop.
- Host behaviour the API contract allows:
  - `Store`, which plants a pointer and calls the barrier;
  - `Unlink`;
  - `DropFresh`;
  - `Lock`/`Unlock`, a borrow that makes `trace` return false.
- While `pc = "collect"` no host action is enabled.

Data abstraction:
- Sizes are small naturals (`SizeOf`).
- Debt and budget are exact integers scaled by `TimingNum`. `sz + sz/timing_factor` becomes `sz*TimingNum + sz*TimingDen`.
- An infinite budget is a flag. The `debt - inf + inf` = NaN case of the settlement, which `max(0.0)` turns into 0, is modelled as 0.
- `f64::round` of the pause product is rounding half away from zero.
- A user `trace` marks its children in any order. This is `\E` over the orderings (`SetToSeqs`) folded through `Mark`.

## Module `GcAbstract` and the refinement

`GcAbstract` states the lifetime promise of the arena with no colours,
queues or budgets: `live`, `pins` and `owned`. Its actions:
- `Alloc`: a new box, pinned once by `allocate_root`.
- `Pin` and `Unpin`: one pin at a time. The last `Unpin` frees a box only once the arena is gone.
- `Reclaim`: the collector frees an unpinned box while the arena lives.
- `Destroy`: frees every unpinned box and keeps the pinned ones.

`GcArena` defines `GcAbs == INSTANCE GcAbstract WITH live <- allocated,
pins <- rootCount, owned <- alive`. The runs `refinement` and `pins` check
`RefinesGcAbstract == GcAbs!Spec` as a `PROPERTY`. Every arena step that only
moves colours, queue entries, list links or scheduler state is a stuttering
step of the abstraction. The refinement holds without the defined-behaviour
constraint: the use-after-free breaks reachability, but it never frees a
pinned box.

## Runs

| Run | Cfg | Expect | What it shows |
|---|---|---|---|
| heap3 | `heap3.cfg` | pass | On 3 slots of a traced type, `all` lists exactly the live boxes. The sweep cursor is consistent. `total_allocated` equals the live size plus a pending allocation. Pinned boxes and queued boxes are live. The black invariant holds while propagating. Arena drop leaks nothing. About 1.3M states, 1 min. |
| blocking | `blocking.cfg` | pass | With a lockable type and a pointer-free type on 2 slots, the early break fires only when every queued box has a refused trace. 279k states. |
| slice_liveness | `slice_liveness.cfg` | pass | Without refused traces and under weak fairness of the collector, every `do_collection` returns. Every `collect_garbage` also returns with the arena Sleeping (spec.md §4.6). |
| retry | `retry.cfg` | pass | With a lockable type on 2 slots and under weak fairness of the collector: if the host eventually holds no borrow and keeps calling `collect_garbage`, the arena keeps returning to Sleeping (the retry contract of spec.md §4.6). 557k states, 30 s. |
| pins | `pins.cfg` | pass | With up to three pins per box on 2 slots (both types), pins cloned and dropped in any order keep their boxes live, the arena drop leaks nothing, and the refinement holds: only the last pin of a detached box frees it. 37k states. |
| refinement | `refinement.cfg` | pass | `GcArena` implements `GcAbstract` on 3 slots with no state constraint. About 1.3M states, 1 min. |
| uaf | `uaf.cfg` | violation | A full collection frees a box reachable from a pin (17 steps). |
| full_collect | `full_collect.cfg` | violation | spec.md §8 scenario 2: the box survives the collection after its pin is dropped. |
| sweep_assert | `sweep_assert.cfg` | violation | The sweep's `debug_assert_eq!(color, Black)` fails on that scenario. |
| needs_trace | `needs_trace.cfg` | violation | A pointer-free White box is queued DarkGray instead of turning Black (`|` for `&` at line 513). |
| spin | `spin.cfg` | violation | `collect_garbage` never returns: the blocked count overtakes the queue length after a skip. |
| reroot | `reroot.cfg` | violation | A box skipped as unrooted LightGray and rooted again in the same cycle is pinned but not queued, so it is never traced (`PinnedBoxesQueued`, 14 steps on 2 slots). |

The findings in `PROJECT.json` explain the violations. Four of them share one root cause (line 345):
- an unrooted LightGray box is dropped from the queue but keeps its colour;
- the tracer later treats it as queued (line 83), so its children are never traced;
- `root` treats it as queued too (line 218), so a re-rooted box is never traced;
- the sweep keeps it (line 399).

### Bounds and why they suffice

- **Parameters.** `TimingNum/TimingDen = 3/2` and `PauseNum/PauseDen = 1/2` are the code's defaults. `CollectionGranularity = 2` and `MinSleep = 2` are the defaults scaled to box sizes 1 (Leaf) and 2 (Table). With these values an allocation both wakes the collector and opens the gate, so a slice runs inside `allocate` in every phase. Slices also end both with the budget spent and with the phase asleep.
- **pins** has 2 slots and up to three pins per box, so `Rgc::clone` and a drop that is not the last one happen before and after the arena drop. heap3 with two pins per box takes over three minutes, so the multi-pin cases have their own smaller run.
- **heap3** has 3 slots and one pin per box. That is enough for a pinned parent, a child, a grandchild, and allocation into a freed slot during a sweep.
- **Size of the other runs.** Locks multiply the state space, so blocking, retry and slice_liveness use 2 slots.
- **A case 3 slots do not reach.** The list-loss case of `AdoptAsSweepPrev` needs a fourth slot to be reachable. The cursor invariant catches the same mistake earlier.
- **Symmetry.** The safety runs use `SYMMETRY` on the slots, which is sound: slots are interchangeable model values. The liveness runs (slice_liveness, retry) do not use it.
- **heap3 constraint.** heap3 uses `CONSTRAINT DefinedBehaviour` (no reachable box freed). Past a use-after-free the program has undefined behaviour, and the `uaf` run reports that case separately.
- **Saturated blocked count.** `blocked_gray_count` is stored saturated at the queue length plus one. This is exact: above the length the `==` test cannot fire again until a successful trace resets the count.

### Fairness

`FairSpec` adds `WF_vars(Collector)`. `do_collection` is a loop on the single executor, with nothing else able to run until it returns. So once the loop is entered, its steps are taken. Nothing is assumed of the host: `RetriedCollectionCompletes` puts what it needs of the host (borrows released for good, `collect_garbage` called again and again) in the antecedent of an implication instead of a fairness condition.

### Mutants

Each property of a passing run is broken by a plausible bug in a mapped definition. Examples:
- a skipped root shade;
- a missing splice;
- a missing barrier;
- a comparison before the push;
- an unclamped debt.

The pairs are listed in `PROJECT.json`.

## Not modelled

- Allocator exhaustion.
- Overflow of `usize` totals and of the root count. Sizes are abstract, and pin counts are bounded by `MaxRoots`. Neither overflow can happen with real memory: a heap or a pin count near `usize::MAX` does not fit in the address space.
- `timing_factor = 0` (stop-the-world), which needs a division by zero.
- `Callback` (`src/src/callback.rs`). It allocates through an external `gc_arena` crate, not through `gc.rs`. Its equality and hash are pointer identity, and it keeps no state.
- `SequenceResult::pump` (`src/src/sequence/into_sequence.rs`). It is one `Option::take` with an `expect`. The `Sequence` trait and the executor that pumps sequences are not in this repository, so there is no driver to model. A module of the `Option` alone would only restate the take.
- **The child lost after re-rooting.** The `reroot` run shows the pinned, unqueued box. A child stored into it and then swept needs a third slot with locks, which is beyond the state space TLC can explore here.
- **Slice length.** The number of steps a slice takes is not bounded by its budget: kept boxes and skips cost no work. The model does not count steps, and 3 boxes cannot show the difference.

- **Cycle completion under allocation.** On a few slots, a host that keeps allocating forces cycles to finish by the bound alone: a slot is freed only by a sweep, and a sweep visits each box once. A liveness property of that form would not test the debt arithmetic, so none is checked.

## Plan for later work

- **A reachability-aware abstraction.** Extend `GcAbstract` so that a box is reclaimed only when no pin can reach it. Because of the use-after-free, this refinement fails on the `uaf` trace; it could be checked as a violation run.
- **Scheduling target.** The timing target of `GcParameters` needs heaps of many boxes. It may be checked by simulation rather than exhaustively.
