# Verification of prototype_bundle

The repository is a bundle of prototypes: a lock-free stack, several mutexes, three
generations of a task executor, memory managers (a bin allocator, a buddy allocator,
two families of garbage collectors), containers and micro benchmarks. Most of them
are concurrent or manage memory by hand, which is what this project models in TLA+,
checks with TLC and proves with TLAPS.

1. [Inventory](#inventory): the system's parts, their state and hazards
2. [Modules](#modules): what models what
3. [Runs](#runs): what TLC checks, with which bounds and fairness
4. [Proofs](#proofs): what TLAPS proves, and how
5. [Findings](#findings): where the code is not what it says
6. [Plan](#plan): what is not modelled, and what is left to do

## Inventory

The parts do not call each other, except that almost each concurrent one carries its
own copy of the spin mutex. Paths are below `src/`.

**`lf::stack`** (`lockfree_stack.h`). State: `_head`, `_size`, the collector's
`_collection_head` and `_critical_clients`, the nodes. Operations: push, emplace,
pop, clear, size, empty, the destructor. pop and clear hold a `client_guard`, give
the nodes they unhook to the collector, and empty the collector when they are the
only guard holder. Threads interact only through these four atomics and the nodes'
`next`. Correct means: every call takes effect at one instant in last-in first-out
order; no node is read after it was deleted; no compare-and-swap installs an
outdated successor (ABA); one thread at a time deletes; nothing leaks; calls return.

**The long running stack test** (`lockfree_stack_run.cpp`). `main` turns its
argument into a number of iterations and hands a stress tester (of `las`, external)
ever more racing calls of push, pop and clear on one stack; the stack is destroyed
when it returns. Correct means: it returns, with everything given back.

**Mutexes** (`benchmarks/spinlock_benchmark.cpp`): `demo_a`, `demo_b` and
`demo_c::spin_mutex`, `demo_b::shared_spin_mutex`, `demo_futex::futex`. State: one
atomic word each, and for the futex the kernel's set of sleepers. Copies of
`demo_c::spin_mutex` are in `binalloc/utils.h`, `thread_safe_linked_list.cpp`,
`bitmap_vs_atomic_stack.cpp` and three times in `streaming_tasks.cpp`. Correct means
exclusion, no lost reader and no lost wakeup, progress.

**Task executors** (`benchmarks/streaming_tasks.cpp`). `proto_e`: a lane of tasks
per worker, owners pop at one end, thieves steal at the other, task objects come
from a buffer that is reset when a parallel run ends. `proto_f`: one shared lane,
tokens that count unresolved tasks, `std::jthread` workers. `proto_g`: one queue
under a spin mutex with a condition variable, tokens resolved by a guard. Correct
means: each task is run once, a wait ends when exactly its tasks are done, nothing
pending is dropped, destruction ends.

**Memory prototypes of `benchmarks/gc_prototype.cpp`**: `node_chain` and `node_pool`
(intrusive lists and their free nodes), `buddy::page` (free lists per level, headers
in the buffer, split and coalesce), the table of objects and references, the paging
of objects, the mark-and-sweep `collector` and `collector_buddy`, the `gc<>` and
`gc_buddy` handles. Sequential. Correct means: blocks tile the buffer and free
buddies are always merged; no reachable object is collected, each unreachable one
is.

**`benchmarks/tracing_ptr.cpp`**: `gc` and `gc2`, tracing pointers that register
themselves and the objects they own, and a collector thread that marks and sweeps
meanwhile. Correct means the same as above, under interleaving.

**`benchmarks/binalloc/`**: objects of a size class come from pages, pages from
clusters, clusters from the system; per-thread caches of bins, shared caches of
pages and clusters, hand-over of pages between owners, and the address arithmetic
that finds a page and a cluster from an object. Correct means: no object is handed
out twice, no page is in two lists, what is freed comes back.

**Sequential algorithms**: `benchmarks/static_ring_buffer.hpp` (a ring that is
folded in its array; nothing includes it), `benchmarks/radix_benchmark.cpp` (three
radix sorts), `binary_search.cpp` (`tmap`: a sequence of types is sorted by their
ids and split into a balanced tree at compile time, and searched for a key at run
time), `benchmarks/bitmap_vs_atomic_stack.cpp` (block search in a bitmap).

**Scripts**: `kafka_start`, `kafka_stop`, `common` wait for ports with retries.

**Everything else** measures loops or files or is a compile-time experiment; see the
components of `PROJECT.json`. `las` and Google Benchmark are external.

What is hard to test in each part is listed under `hazards` in `PROJECT.json`, at
its line, with the property that covers it or the reason why none does.

## Modules

| module | models |
|---|---|
| `LockfreeStack` | `lf::stack`, its collector and its nodes |
| `AbstractStack` | what callers rely on: atomic last-in first-out calls |
| `LockfreeStackRefinement` | the mapping from the first to the second |
| `LockfreeStackProofs` | proofs: memory safety, the lists, the destructor, the test |
| `LockfreeStackRefinementProofs` | proofs: the mapping is a refinement |
| `MCLockfreeStack` | TLC instances: which thread makes how many calls |
| `LockfreeStackRun` | `main` of `lockfree_stack_run.cpp`, composed with `LockfreeStack` |
| `MCStackRun` | its TLC instance: the iterations of each duration |
| `SpinMutex` | `demo_c::spin_mutex` and its copies |
| `AbstractLock` | ask, acquire, give up, release |
| `SharedSpinMutex` | `demo_b::shared_spin_mutex` |
| `FutexMutex` | `demo_futex::futex`; the futex calls are external |
| `MCLocks` | the three mutexes in one instance, one per behaviour |
| `LocksProofs` | proofs about the three mutexes, and about `MCLocks` |
| `TaskExecutor` | `proto_g::executor` |
| `TaskLanes` | `proto_e::executor` and its lanes |
| `MCTasks` | the two executors in one instance, one per behaviour |
| `TasksProofs` | proofs about both executors, and about `MCTasks` |
| `BuddyPage` | `buddy::page` of `gc_prototype.cpp` |
| `AbstractAllocator` | disjoint aligned blocks, refused only when none is left |
| `BuddyPageProofs` | proofs: what a call of the page keeps, and that it refines |
| `GcHeap` | extends `BuddyPage` with the table, `collector_buddy` and the handles |
| `MCGcHeap` | the symmetry of its TLC instance |
| `GcHeapProofs` | proofs about the collector and its page |
| `TypeMap` | `tmap` of `binary_search.cpp`: sort, split and search |
| `MCTypeMap` | all short sequences of ids |
| `TypeMapProofs` | proofs: the sort, the search and its length |
| `InductionOnSets` | induction and recursion in a form the provers can use |

**How code becomes actions.** Each access to a shared atomic, and each read of a
field another thread may change, is one action, named for what the line does; a
label in `pc[t]` says which access thread `t` makes next. What a thread does to
memory that only it can reach is part of the neighbouring action. A compare_exchange
is two actions, success and failure; the failure refreshes the expected value as the
C++ operation does, and may be spurious where `SpuriousFailure` is TRUE. The
optimistic first attempt of each operation and the loop behind it make the same
accesses and are the same actions. A critical section under a mutex is one action,
because the mutex is proved to exclude (`LocksProofs`); the exception is the
worker of `TaskExecutor`, which keeps the mutex (`keeper`) between its predicate and
its sleep, since `_is_running` is written without it. A client never returns from a
call it has not made: a thread's locals are reset when its call returns.

**Memory model.** The models are sequentially consistent. The code includes
`<immintrin.h>` and uses `_mm_pause`, so it is x86 code, where a read-modify-write
is a full fence and plain loads and stores keep their order except a store followed
by a load of another location; no operation modelled here stores to one shared
atomic and then depends on a plain load of another without a read-modify-write
between. That compilers keep the order of relaxed atomic accesses, as they do today,
is assumed. Where the requested C++ order would not do on a weaker machine
(`lockfree_stack.h:22`, `spinlock_benchmark.cpp:36`), `hazards` says so.

**`LockfreeStack` in detail.** `where[n]` is a ghost: free (with the allocator),
held (by the thread `holder[n]`, which allocated or unhooked it), stack, dead (on
the collector), doomed (detached for deletion), deleted. `Recycle` says whether a
deleted block is handed out again. `_size` is unsigned: arithmetic is modulo
`SizeModulus`. `Budget` bounds the calls of each thread; nothing else is bounded.
`Destroy` is the destructor: a last `clear` when all calls have returned. The
mapping of `LockfreeStackRefinement` reads the list with a recursive function, up to
as many nodes as there are blocks, which are finitely many.

**`LockfreeStackRun` in detail.** The stack's actions are those of `LockfreeStack`;
this module decides when a thread may begin one. `Dispatch` gives `round` threads
one call each, of any kind (the weights of the tester make one kind likelier, none
impossible), `DispatchReturns` waits for all of them, `MainDestroys` runs the
stack's destructor in `main`'s frame, after the tester is gone. `First` stands for
10 and `Iterations` for the table of 1,000, 10,000 and 1,000,000: what counts is
that the rounds grow and end. A second argument that is no duration is complained
about and ignored, more than two end the program with 1, as in the code. The last
`return 1` of `main` is not modelled: the table has an entry for each duration.

**`TaskLanes` in detail.** A lane is the sequence of tasks between `front` and
`back`; the array's 8192 places are more than one call's tasks. One thread, not a
worker, uses the executor, as `get_this_lane` then leads all allocations and pushes
to `lanes[0]`. A critical section of a lane's mutex is one action. Which lane is
robbed comes from the clock: any. `late` is a ghost that says that a worker set its
flag after `stop` had cleared all flags.

**`TypeMap` in detail.** Instantiations are evaluated by recursive functions on
sequences (`Filter` is the recursion of `filter`, `Sort` that of `seq_sort`); the search is a state machine with one step per node, named by the
sequence of its types. Ids are `uint32_t`, so the difference is taken modulo
`Modulus`, and becomes an `int32_t`, so that its upper half is negative.

**`TaskExecutor` in detail.** A task that was moved from stays in the queue as
`NoTask`, as in `busy_wait_for`, which takes the first task without removing its
slot. A callback that throws ends like one that returns, as `invoke` arranges. The
callbacks do not call the executor. `notify_one` wakes one sleeping worker if there
is one; a spurious wakeup may happen `MaxWakeups` times.

**`BuddyPage` and `GcHeap` in detail.** The page is a function from offsets, in
units of the smallest block, to the headers written there, and one list of free
blocks per level. `Allocate` and `Free` are whole calls: the loop that splits is the
range of levels `split`, the loop that merges is the range `merged`; `Without` is
`node_chain::remove`. Where an object was written a header is `Bytes`; no step
depends on what it reads there, which `BlocksTile` implies, because the buddy of a
whole block always starts a block. `live` and `refused` are ghosts. A reference node
is a record of the chain it is in and its target. `_root` of a handle is fixed when
the handle is made: the root for a variable, the object for a handle inside an
object. The class of objects is that of the benchmarks' `demo_buddy`, with one
handle each. The program can name a handle only if it is a variable in scope or
inside an object it can reach. A collection is cut into the marking and one step per
deleted object, so that the page is checked between them: `doomed` is the set of
those that were not marked, and `NextDoomed` the first of them in the table, as
`collect` deletes them in its order. A handle that is moved to itself is registered
twice by `gc_buddy::swap`, which keeps the second reference and forgets the first:
that one stays in its chain, in `lost`, and holds its object until the object it is
in is deleted. `lost` is a set, because the marking does not tell lost references of
the same ends apart; `MaxLost` bounds it. A handle that is copied to itself is
emptied, as the code does. No request is larger than the page, because `allocate`
would read behind its lists.

**Seeded defects.** A definition with the comment "Seeded defect" is not used by any
specification. It is a plausible bug, put in the place of the action after it to see
that the property it is listed with in `PROJECT.json` notices.

## Runs

| run | instance | checks |
|---|---|---|
| `stack_pair` | 2 threads, 2 recycled blocks, 2 values, spurious failures; 431,936 states | no use after free, no stale successor, both lists intact, refinement of `AbstractStack` |
| `stack_run` | `main` with 3 threads, rounds of 2 and 3 calls, 2 blocks, not recycled, fair; 385,917 states | one reaper, safe reclamation, nothing leaks, calls return, `main` returns |
| `stack_recycle` | 3 threads, 1 recycled block | expected violation of `NoUseAfterFree` |
| `stack_size` | 3 threads, 2 blocks, not recycled | expected violation of `SizeCountsValues` |
| `locks` | 3 threads, one kind of mutex per behaviour; 9,447 states | exclusion, counting, wakeups, progress, refinement of `AbstractLock` |
| `shared_lock` | 2 threads | expected violation of `WritersExclude` |
| `futex_progress` | 2 threads | expected violation of `SomeoneGetsIt` |
| `task_executor` | 2 workers; `proto_g` with 2 clients, 2 parts, 1 push each, or `proto_e` with 3 calls of 3 parts, 2 starts; 114,768 states | each task once, tokens count, drained, tasks are run, waits end; parts once, buffer reset only when unused, `run_parallel` and `stop` return |
| `task_stop` | 1 worker, 1 client | expected violation of `DestructorReturns` |
| `gc_heap` | a page of 4 smallest blocks, requests of 8 and 24 bytes (one block, two blocks), 3 object nodes, 2 variables, 2 lost references; 156,714 states up to symmetry | blocks tile the page, refinement of `AbstractAllocator`, objects have their blocks, no dangling handle, collections are exact but for what lost references keep |
| `gc_memory` | the same, with no lost references | expected violation of `TableHasMemory` |
| `type_map` | all sequences of up to 5 of the ids 0, 1, 3, 4, 7 modulo 8, all keys; 110,395 states | searches are right and short, the sort is ascending and stable |

**Bounds.** Two threads are enough for each pair of racing accesses of the stack;
the third thread in `stack_run` and `stack_recycle` is the one that holds a node
while two others unhook, collect and delete. Two blocks make chains of two nodes, so
`clear` walks and `try_collect` loops; with a budget of two pushes a recycled block
has two lives. Two values let a wrong order or a duplicate show. In `stack_run` a
second round meets what the first one left on the stack and on the collector; a
round begins with no more pushes than there are blocks. Three threads at a mutex
give an owner, a waiter and one that barges in. Two workers and two helping clients
let a task be taken from both sides; two parts make a token that counts above one.
Three parts and two thieves leave the owner one part or none; three calls start the
buffer over twice, and two starts let workers be joined and made anew. The ids 0, 3,
4 and 7 are neighbours of both ends of the range and of its half, so that
differences come out with either sign, right and wrong; up to five of them, repeated
ones too, make trees of three levels, with even and odd halves. Four smallest blocks
are three levels, so a free merges twice and a request splits twice; three objects
make cycles of three; two can leave a hole that is too small for the third, whose
node then stays behind. Two variables let one object be detached while another is
reached through it. Two references can be lost: enough for a chain from the root to
an object and on to another, and for a circle of two. They are lost while there are
at most two objects (`LostBound`), and without self-moves there is no such bound:
lost references multiply the states, and what they do to the marking shows with two
objects, while the page needs three. `MCGcHeap` reduces by symmetry of the variables
and of the nodes, which is sound as no definition picks one of them and all five
properties are safety properties.

**Fairness.** Weak fairness per thread for a thread that is inside a call: the
operating system schedules it. The same for `main` of the long running test, once it
runs, and for the thread that uses the lanes while it is in a call. No fairness for
starting a call, for a spurious wakeup or for an interrupted futex wait, and no
strong fairness anywhere, so nothing is claimed about one thread's turn:
`SomeoneGetsIt` and `ReaderOrWriterEnters` say that some thread gets in. In
`stack_run` the calls of a round are finitely many, so that a failed
compare-and-swap is always another call's progress, and spurious failures are left
out (x86 has none); `CallsReturn` is lock-freedom in that sense. `MCTasks` states
fairness of the threads' steps in the executor that the behaviour uses, the smallest
actions that say it, as TLC evaluates `ENABLED` of each at every state.
`RunParallelReturns` holds with and without workers, because the caller empties its
own lane. `StopReturns` excepts the case of a late worker: then `stop` joins a
thread that runs for ever.

**Deadlock.** `locks` and `shared_lock` switch the check off because `lock` of the
shared mutex, once it has taken the word, waits for itself; `task_executor` and
`task_stop` because of the lost notification that `task_stop` shows. The other runs
keep it on: `Terminated`, `Exited` and `Ended` are the only ways to stop. The `gc`
runs keep it on too: a crashed program stutters.

## Proofs

The safety invariants, safety action properties and refinements that the passing
runs check are proved for every value of the constants that the assumptions of the
modules admit; what is not proved is at the end of this section. `tlapm` checks each
proof to the last leaf; `PROJECT.json` lists the theorems with the property each one
states.

The assumptions are the `ASSUME`s of the modules, which TLC evaluates in the runs:
finitely many threads, nodes and objects (a process has finitely many), names that
are not in each other's sets, a page of a power of two, requests that fit it, ids of
an even modulus. Theorems of the stack need more, as their statements say: all but
`TypeCorrect` and `OneReaper` need a `SafeProgram`, one in which a deleted block is
not handed out again or that has at most two threads, because `stack_recycle` shows
what happens otherwise; what the destructor leaves needs `~SpuriousFailure` too,
because `try_collect` gives up when its exchange fails.

**`LockfreeStackProofs`.** `TypeCorrect`, `OneReaper` (in any program);
`MemorySafety`, `NoAba`, `SafeReclamation`, `ListsStayIntact`,
`DestructorLeavesNothing` (in a `SafeProgram`); `TwoInsideAreSafe`, which says how
far the code is safe without a condition on the program: blocks are recycled and any
number of threads call, and nothing goes wrong before a third thread is inside `pop`,
`clear` or `try_collect` together with two others. Threads that push do not count.
With `stack_recycle`, where the third one does the damage, this bound is exact. The
properties are not inductive. `Inv` adds the ownership facts the code relies on
without saying so:

- `CountInv`: `_critical_clients` is the number of threads in pop or clear;
- `HoldInv`: a thread's `first`/`last` nodes are its own;
- `HeadInv`, `LinkInv`: `_head` points to a stacked node, `_collection_head` to a
  dead one, and `next` leads from a stacked node to a stacked one or null, from a
  dead one to a dead one, never to a node that something else leads to;
- `PopInv`: a node a pop has loaded is stacked, held or dead, not yet doomed;
- `CollectableInv`, `ArmedInv`: if the exchange of `try_collect` would succeed, no
  pop looks at a node of the collector.

The last is the heart of it: the counter is read before the collection is detached,
and what makes that safe is that the collection is loaded before the counter, and a
node that is not recycled cannot come back to the collector's head. If it is
recycled, the exchange may succeed on a newer collection; but what is new in it was
given by a thread that is neither the one in `try_collect` nor one that is popping,
so that three are inside (`ThreeInside`). `SingleReaper`
follows from `CountInv`: a second reaper would have read a count of one while the
first one was still counted.

That the lists lose nothing speaks of what a head leads to, and there is no
induction along the links of the memory. `WholeInv` says it of sets instead: each
subset of the stacked nodes that has the head and that no link leaves is all of
them; the same of the collector's nodes, of a chain on its way to the collector, and
of a collection that is being deleted. A step that hooks or unhooks a node turns a
subset that would violate this after it into one that violated it before. `DestroyInv`
says what is left at each step of the destructor, which is alone.

The same module extends `LockfreeStackRun` and takes all this to the long running
test: `TestIsSafe` and `TestLeavesNothing`, for rounds of any number of calls. A
step of the test is one of the stack, or `main` gives the threads new calls, which
no invariant speaks of.

**`LockfreeStackRefinementProofs`.** `Linearizable`: `lf::stack` implements
`AbstractStack`. A push takes effect with its successful exchange of `_head`, a pop
with its own or with the load that finds no head, a clear with its exchange. The
contents are the values read along the links by a recursive function, as many as
there are blocks. That function is opened with a fixpoint of `InductionOnSets`; by
induction on the length, what it reads depends on the nodes of the list only
(`ValuesLocal`), and it is read to its end because the list has no more nodes than
its set (`ValuesEnd`). Then each step is an action of the abstract stack
(`PushEffect`, `PopEffect`, `ClearEffect`, `BoundarySteps`) or a stutter
(`QuietSteps`).
`TestLinearizable` says the same of the long running test, `TwoInsideLinearizable` of
recycled memory while at most two threads are inside.

**`LocksProofs`.** For the spin mutex `SpinExcludes` and `SpinRefines`; for the
shared one `SharedExclusion` (of `try_lock`: `lock` does not exclude, see
`shared_lock`) and `SharedCount`, from the invariant that the word counts the
readers or is -1 and a writer's, with spurious failures allowed; for the futex
`FutexExcludes` and `FutexWakes`, whose invariant says that beside a free mutex a
sleeper has a thread that is about to wake it or to take the mutex. `LocksTypes` and
`LocksSafe` say the same of `MCLocks`, the specification that the run checks.

**`TasksProofs`.** For `proto_g` `TypeCorrect`, `TasksRunOnce`, `TokensCount`,
`Drained`; for `proto_e` `LanesPartsOnce`, `LanesBuffer`; for `MCTasks` `TasksSafe`.
The invariants say that a task is in one place of one queue or in the hands of one
thread (`OneCopyInv`, `PlaceInv`), and that the tokens are the cardinality of the
set of tasks that are not settled (`CountInv`, `ChildrenInv`), so that each step
changes a counter and a set by the same one element. For the lanes, `IndexInv` and
`JobInv` tie the buffer to the current call: it starts over between calls, and then
nobody has a task of it.

**`BuddyPageProofs`** (lemmas about one call of the page, cited by the next module).
`PageInv` says that the blocks tile the page, begin at multiples of their sizes, and
that the headers are true both ways: the header of a listed block says it is free,
and a header anywhere that says so is that of a listed block. The second way is not
in `BlocksTile`, and is what makes `free` safe: it looks at the buddy's header
before it knows that there is one. `allocate` and `free` exchange tiles for others
that cover the same offsets (`Retile`): the halves that `allocate` cuts off, or the
buddies that `free` merges with, are together with the block itself a block of the
higher level (`HalvedCovers`, `HalvedTiles`, by induction on the level). `NoBuddies`
says that no two free blocks are the halves of one; with it, a stretch that is not
in use has a free block that covers it (`HolesAreFree`: of the smallest free blocks
in it, one would have a free buddy), so a request is refused only when there is no
hole.

**`GcHeapProofs`.** `TypesHold`, `PageTiles`, `PageAllocates` (the page refines
`AbstractAllocator`), `BlocksInUse`, `NothingDangles`, `CollectsExactly`. The
inductive invariant is `GcInv`: the page's two, and of the heap that each handle
that is left is on an object with memory that is not about to be deleted, or on
none, and has its reference registered (`HandlesInv`), and that lost references lead from what is
left to what is left (`LostInv`). `Closure`, a recursive
function, is shown to be the smallest set that holds the roots and that no edge leaves (`ClosureIs`: the
sets grow, and cannot grow more often than there are objects); hence what the
marking finds along the references is what the program reaches along the handles and
the lost references, `Retained` (`MarkedIs`), and during a collection what stays is
just that (`Exact`).

**`TypeMapProofs`.** `SortRight`, `SearchRight`, `SearchShort`. The sort is by
induction on the length: its parts are shorter, and an element's place among its
equals is kept by each filter. The search: the node's types are ascending and
written, and a written key is still in the node unless it was compared with an id
that is far away; the wrapped difference is zero only for the key, and has the right
sign unless the id is half the range away. Its length: a node of a search that has
made n comparisons has at most one 2^n-th of the types.

**`InductionOnSets`.** The library's theorems about induction and recursion take an
operator as a parameter, which the provers cannot instantiate. Here they are stated
of sets and functions: a set with 0 and with each number the next one has all
numbers; there is a function with f[0] = A and f[n + 1] = F[f[n]]. Powers of two and
the recursive definitions of the models are reached through these.

**Only model-checked.** All liveness properties (`CallsReturn`, `MainReturns`,
`SomeoneGetsIt`, `ReaderOrWriterEnters`, `TasksAreRun`, `WaitReturns`,
`RunParallelReturns`, `StopReturns`): liveness under fairness and `ENABLED` are out
of the prover's reach. Every invariant, safety action property and refinement of the
passing runs is stated by a theorem.

## Findings

Each is a run that TLC must find violated.

1. `stack_recycle`: `try_collect` compares only the address of the collection's
   head. If the block was deleted, allocated, pushed and popped again in between, a
   node another pop still reads is deleted.
2. `stack_size`: `pop` decrements `_size` before it knows whether there is a node,
   and `clear` does not change it.
3. `shared_lock`: `shared_spin_mutex::lock` returns when its compare_exchange fails.
4. `futex_progress`: a futex wait on a word that is already free is repeated without
   trying the mutex.
5. `task_stop`: `~executor` changes `_is_running` and notifies without the mutex; a
   worker between predicate and sleep misses it and is joined for ever.
6. `gc_memory`: `allocate` enters a node in the table and throws when there is no
   memory for it; the next collection looks for its header.

Seen on the way, without a run of their own: `proto_e` joins for ever a worker that
sets its flag after `stop` cleared it (`streaming_tasks.cpp:347`; `StopReturns`
excepts exactly that), and `run_parallel_many` divides by zero for fewer items than
cores (`:411`); `comparer` has the wrong sign for ids and keys half the range apart
(`binary_search.cpp:268`; `SearchIsRight` excepts exactly that); `clear` never
destroys the values of the nodes it drops (`lockfree_stack.h:170`); `gc::swap`
exchanges references without the chains they are in (`gc_prototype.cpp:991`); a
handle of `gc_buddy<T>` that is copied to itself is emptied
(`gc_prototype.cpp:1153`), one that is moved to itself leaves a reference behind
that no handle removes (`:1129`; `CollectIsExact` says what it keeps), `operator
bool` of both handles is true when they are empty (`:919`, `:1041`), and a request
larger than the page reads behind the array of lists (`:351`); `bin_alloc` drops the
head of a bin, hands out the object behind it and leaves that one as the head, so
that the next call takes its successor from the bytes of an object in use
(`bin_cache.cpp:71`).

## Plan

Done: `lf::stack` and the program that tests it, the mutexes, the executors of
`proto_e` and `proto_g`, the buddy page with `collector_buddy`, the type map.

Not modelled, in the order in which it would be taken up:

1. `tracing_ptr`: registration, marking and sweeping as interleaved steps.
2. The pages of `collector`: their lists, swapping and compaction, moving objects
   under their handles, and `gc<T>`.
3. binalloc: objects, pages and clusters with their mutexes and hand-over; the
   address arithmetic and the configuration of bins as pure operators.
4. Radix sorts and the bitmap's search as pure operators.
5. The port-waiting scripts.

Not modelled, and why:

- `proto_f`: no benchmark runs it; without its destruction order, which is listed as
  a hazard, it is the executor of `TaskExecutor` without the condition variable.
- `static_ring_buffer.hpp`: no program includes it.
- `make_it.cpp`: none of its templates is instantiated, and its `main` does nothing.
- `static_initializer_list.cpp`: templates that nothing instantiates.
- `console_input.cpp`: one sequential loop that reads characters until the escape
  character and puts the terminal back. (It hands `cfmakeraw` a structure that was
  never initialised, and at the end of its input it spins for ever.)
- the measuring loops, and the build files.
- the weak memory orders, which are outside of what an interleaving model shows.

Theorems next: of the modules that are still to be written, the invariants that
their runs will check, first that `tracing_ptr` collects no object in use.
