# once_cell in TLA+

`once_cell` is a Rust library of cells that are written once: `sync::OnceCell`
and `sync::Lazy` (blocking, thread-safe), `unsync::OnceCell` and
`unsync::Lazy` (single-threaded) and `race::*` (lock-free, first one wins).
This directory holds TLA+ specifications of the library, and of the program that
tests and releases it (`xtask`), the TLC models that check them, and TLAPS proofs.

## Inventory of the system

| component | state | operations | what is hard | what makes it correct |
|---|---|---|---|---|
| `sync::OnceCell` over `imp_std.rs` | `queue`: one atomic word with two state bits and the head of a lock-free stack of `Waiter`s that live on the stacks of blocked threads; `value` | `get`, `get_or_try_init` (and `get_or_init`, `set`, `try_insert`, which are that with a particular closure), `wait`, `take`, `into_inner`, `Guard::drop` | the exchange compares a pointer whose address is reused; the waiter's memory dies as soon as it sees `signaled`; park may return spuriously; a closure may fail or panic, and then several threads walk lists at once; acquire/release orderings | closures never overlap; nobody returns before the cell is COMPLETE; no data race; no access to a dead Waiter; nobody sleeps for ever |
| the queue word of `imp_std.rs` | a pointer with the state in its two low bits | masks, `mod strict`: `addr`, `with_addr`, `map_addr` | tag bits and alignment; signed wrapping differences; COMPLETE is tested as a whole word | the words tell apart what the decoded queue does |
| `sync::OnceCell` over `imp_pl.rs` | `state`, `value`; parking_lot_core's queue of threads for the address of `state` | the same | validation under the bucket lock against `unpark_all`; `compare_exchange_weak`; `wait` woken by a failed closure | the same |
| `sync::OnceCell` over `imp_cs.rs` | `initialized`, an `unsync::OnceCell` in a critical section | the same without `wait` | critical sections nest in one thread | the same, and a reentrant closure panics instead of overwriting |
| `sync::OnceCell`, its methods | the value of `T` in the cell, in calls, borrowed | `set`, `try_insert`, `get`, `wait`, `get_or_init`, `get_or_try_init`, `get_mut`, `take`, `into_inner` | `set` answers from a local that another function may or may not have emptied; failing functions drop what they captured | every value has one owner; `Ok` means that the cell holds this value |
| `sync::Lazy`, `unsync::Lazy` | a cell and the function, in a `Cell` | `force`, `force_mut`, `get`, `get_mut`, `into_value` | the function is taken out before it runs: after a panic the Lazy is poisoned; access to the `Cell` is ordered only by the cell | the function runs at most once; later `force`s panic |
| `unsync::OnceCell` | `inner` | `get`, `get_mut`, `set`, `try_insert`, `get_or_try_init`, `take`, `into_inner` | the closure may use the cell it initializes | written once, a reentrant closure panics |
| `race::OnceNonZeroUsize`, `OnceBool`, `OnceRef` | one atomic word | `get`, `get_unchecked`, `set`, `get_or_try_init`; `to_usize`, `from_usize` | several closures run; a plain read beside exchanges; zero is the empty cell | all callers return the value that was stored |
| `race::OnceBox` | an atomic pointer to a box | `get`, `set`, `get_or_try_init`, `clone`, `drop` | the loser's box | every box is freed once or handed back, never while it is used; contents initialized before they are read |
| `xtask` | the environment, `Cargo.lock`, crates.io, the tags here and at GitHub | the sections BUILD to PUBLISH of `main()` | a command fails between upload and tag; jobs run at once; guards that restore the environment | what is uploaded was tested; a tag names what was uploaded |

The layers call downwards: `Lazy` runs its function in the closure it passes to
`OnceCell::get_or_init`; `lib.rs` checks `is_initialized` (the fast path) and
otherwise calls `initialize` or `wait` of one of the three `imp_*` modules, which
Cargo features choose; those block threads through `std::thread::park`,
`parking_lot_core` or a critical section. Shared state is only that of the cell.

`PROJECT.json` lists every component with its status and, under `hazards`, what is hard
to test in this code, at its line.

## Modules

| module | models | lines |
|---|---|---|
| `OnceCellSpec` | what `sync::OnceCell` promises: one closure at a time, the first success fixes the value, failure leaves the cell empty | `lib.rs`, the methods of `sync::OnceCell` |
| `ImpStd` | `imp_std.rs`, one action per access to shared memory, with the wrappers of `lib.rs` | all of `initialize_or_wait`, `wait`, `Guard::drop` |
| `MCImpStd` | sets of threads and programs for TLC | |
| `ImpStdProofs` | theorems about `ImpStd` for all sets of threads and programs, and about `QueueWords` for all widths of `usize` and places of the Waiters | |
| `TaggedPtr` | the bits of the queue word and `mod strict` | `imp_std.rs:123-142`, `241-287` |
| `QueueWords` | `ImpStd` with an address for every Waiter, composed with `TaggedPtr`; extended by `MCImpStd` | the same, and the masks in `Guard::drop`, `initialize_or_wait` and `wait` |
| `SyncOnceCell`, `MCSyncOnceCell` | the public methods over `OnceCellSpec`: who owns which value of `T` | `lib.rs:958-1230` |
| `SyncOnceCellProofs` | theorems about `SyncOnceCell` for all threads and values | |
| `ImpPl`, `MCImpPl` | `imp_pl.rs`, one action per access to `state` or per critical section of parking_lot_core; sets of threads for TLC | all of `initialize_inner`, `wait`, `Guard::drop` |
| `ImpPlProofs` | theorems about `ImpPl` for all threads, programs and ages of loads | |
| `FirstWins` | what the cells of `race.rs` promise: one offer is chosen and everybody is told that one | `race.rs`, docs and methods |
| `RaceCell`, `MCRaceCell` | `OnceNonZeroUsize`, and with it `OnceRef` and the word of `OnceBool`, one action per access to the word | `race.rs:41-163` |
| `OnceBool` | `OnceBool` over `RaceCell`; extended by `MCRaceCell` | `race.rs:165-229` |
| `RaceCellProofs` | theorems about `RaceCell` and `OnceBool` for all threads, values and depths of closures | |
| `Slot` | the slot of an `unsync::OnceCell` and the references into it: the state that `UnsyncOnceCell` and `ImpCs` share | `lib.rs:421-424` |
| `UnsyncOnceCell`, `MCUnsyncOnceCell` | `unsync::OnceCell`: closures that use the cell they initialize, references into it | `lib.rs:478-701` |
| `ImpCs`, `MCImpCs` | `imp_cs.rs`: the flag, and an `UnsyncOnceCell` inside a critical section | all of `imp_cs.rs` |
| `ImpCsProofs` | theorems about `ImpCs` for all threads and depths of closures, and about `UnsyncOnceCell` for all values | |
| `Lazy`, `MCLazy` | `sync::Lazy` and `unsync::Lazy`, several that force each other, over cells as `OnceCellSpec` has them | `lib.rs:737-869`, `1285-1400` |
| `LazyProofs` | theorems about `Lazy` for all threads and all Lazies, whatever their functions force | |
| `OnceBox`, `MCOnceBox` | `OnceBox`: who owns each box, who has references, who sees the contents | `race.rs:354-488` |
| `OnceBoxProofs` | theorems about `OnceBox` for all threads, cells, boxes and numbers of closures | |
| `Release`, `MCRelease` | `xtask`: the sections of `main()`, several jobs, crates.io and GitHub | `xtask/src/main.rs` |
| `ReleaseProofs` | theorems about `Release` for all commits, versions and numbers of jobs | |

### How ImpStd corresponds to the code

* `queue` is the tagged pointer, decoded: `[state, head]`. A `Waiter` is on the stack of
  the thread that waits, and a thread waits in one place at a time, so `node` is a
  function of threads and a pointer to a waiter is the name of its owner. A thread that
  waits again reuses the name, as the code may reuse the address: that is the ABA
  case of the exchange in `wait`. `live` says that the frame still exists.
* One action is one access to shared memory and the local code after it. `Load` is the
  load of `initialize_or_wait`; `Start`/`StartFailed` and `Push`/`PushFailed` are
  its two exchanges; `Drop` is the swap of `Guard::drop`, and `TakeHandle`, `Signal`, `Unpark` its
  loop; `SeeSignal`, `MissSignal`, `Park`, `WakeSpuriously`, `Pop` are the loop of
  `wait` and its end. A closure that returns `Ok` is `ClosureSucceeds`, which writes the
  slot; one that returns `Err` or panics is `ClosureFails`: both leave the guard with
  `INCOMPLETE_PTR`.
* `frame` holds the locals. `outer` marks a call made by a closure on its own cell; the
  frame of the closure needs no memory of its own, since the inner call never returns (`ReentryDeadlocks`).
* Memory orderings. Each access names its ordering (`FastLoad`, `StartCas`, ...). `view` keeps, for each
  thread and for each message in memory (the queue word, `signaled`, the park token), the
  set of relevant events that happen before: an acquire read adds the view of the message, a
  release write gives it the view of the thread, and a read-modify-write continues the release sequence. A data
  race is then a non-atomic access whose thread has not seen the access it must
  follow (`NoDataRace`). Replacing any one of the orderings the code uses by a weaker
  one makes `NoDataRace` fail; none is stronger than needed.
* Stale reads. A load of `signaled` may return the old value as long as the store does not
  happen before it (`MissSignal`). Loads of the queue return the latest word, and nothing is lost by
  that: every write to the queue is a read-modify-write on the latest word. A stale word is never
  COMPLETE, since nothing follows that one but exclusive access; and what is offered for any other is offered to an exchange
  that compares whole words, so a stale word either makes it fail, like a word that another thread changed after the load,
  or is the current word after all.
* `park` and `unpark` are std's, modelled as external: a token per thread, `unpark` synchronizes
  with the `park` that takes the token, and `park` may return without one.
* Calls are not bounded: the state space is finite, so every run covers programs of any length.

`OnceCellSpec` sees the value when the cell becomes COMPLETE. A thread is "running" from
its exchange to its swap, "failed" while it wakes others after a closure that failed, "trying" in
another `get_or_try_init`, "waiting" in a `wait`, or in a `get` that found the cell full (`Phase`).

### How TaggedPtr and QueueWords correspond to the code

* `ImpStd` has the queue decoded. `QueueWords` gives the Waiter of every thread an address, a multiple
  of its alignment (`Address`), and `Encode`s the record the way `wait` makes a word. The state machine is that of
  `ImpStd`; the properties say that the arithmetic of the code on the words gives what `ImpStd` does on records.
* `TaggedPtr` is the arithmetic: bits as remainders, `isize` as the signed half of `Usizes` values,
  `wrapping_sub` and `wrapping_offset` modulo `Usizes`.
* A pointer is its address. What provenance adds, that a pointer whose address has come back may
  not be used for the new object, is a rule of the language and not visible in the words; `NoUseAfterReturn` has its
  dynamic half, that a Waiter is accessed only while it exists.

### How SyncOnceCell corresponds to the code

* It extends the state of `OnceCellSpec` (`value`, `phase`) with the values of `T`, each of which exists once:
  in the cell (`held`), in a call (`call[t].arg`, the local `value` of `try_insert` or what a function captured),
  with the program (`mine`) or nowhere (`gone`: dropped or not made yet). Its actions conjoin those of `OnceCellSpec`, so what is
  shown here holds over each of the three implementations.
* `Produce` is the function, which for `try_insert` is `value.take().unwrap_unchecked()`; `Fail` is a function of the
  caller that returns `Err` or panics. `InsertReturns` is the `match value` of `try_insert`, and that of `set` after it.
* A `get` that finds the cell empty changes nothing. `clone` reads with `get` and makes another cell, and
  `clone_from` is `get_mut` or a new cell.

### How ImpPl corresponds to the code

* `state` and `value` are the fields. `parked` is the queue that parking_lot_core keeps for the
  address of `state`. parking_lot_core is external; what is modelled of it is what `imp_pl.rs` relies on: `park` runs the
  validation closure and enqueues under the lock of a bucket (`Park`), `unpark_all` empties the queue
  under that lock and wakes whom it found (`UnparkAll`), and `park` has no other way to return (`Wake`).
* Loads of `state` may be stale: `behind[t]` says how many of the newest stores thread t
  need not have seen, at most `MaxBehind` (a bound of the model; older values repeat RUNNING and INCOMPLETE by turns, `Older`). Reading a
  store, storing, and the lock of the bucket, which has a `behind` of its own, bring it down. `compare_exchange_weak`
  replaces the newest store or fails on any load it could have made, also on an INCOMPLETE one (`StartFailedSpuriously`).
* `seen` is the set of threads, with the message in `state` and the lock, to which the end of the last
  closure happens before. The Relaxed load of the validation in `initialize_inner` needs no more because
  the lock orders it; replacing any other ordering by Relaxed makes `NoDataRace` fail.

### How ImpCs and UnsyncOnceCell correspond to the code

* `inner` and `refs`, of `Slot`, are the slot and what the program borrows from it. `closures` counts the closures of `get_or_try_init` that are running, one inside of the
  other; `Set` and, in between, more closures may happen while they do. A closure that ends finds the slot empty (`InitSucceeds`) or
  panics (`ReentrantInit`); a closure that fails or panics is `InitFails`. The borrow checker allows
  `take` and `into_inner` only when there are none and no call is in progress.
* `ImpCs` conjoins its actions with those of `UnsyncOnceCell` (`Unsync`). The critical section is external: one lock, which its holder may
  enter again, and which synchronizes those who go through it. `Enter` is the entry and the `get` inside, `ClosureSucceeds` and
  `ClosureFails` end `f` and what `get_or_try_init` of the inner cell does after it, `Store` is the
  store of the flag, `Leave` the exit, `GetUnchecked` the read outside. A `wait` does not exist there. A value is named
  by the thread and the depth of the closure that made it.
* The flag is stored to again by an inner call whose outer call then panics, or by a thread that entered after the value was stored and found
  it: hence a release store without effect on the word, but with one on what the next load acquires (`Store`).
* `aware` and `seen` are as in `RaceCell`, with the section as a second carrier of happens-before.

### How Lazy corresponds to the code

* The two `Lazy`s are the same text. A cell is reduced to what `OnceCellSpec` says; `AreOnceCells` checks that every step on a cell of sync,
  those of `force_mut` and `into_value` included, is a step of that specification. A sync cell blocks a second
  caller, an unsync one (`Unsync`) lets its thread into a second closure.
* `calls[t]` is the stack of calls of a thread: at the `cell`, in the `closure` (before `init.take()`), in `f`. A panic in `f`, or on finding `init` empty, ends one call; the function that
  made that call may catch it or panic as well, so both follow. `fate` is a history variable: what became of the function.
* `Needs` says which Lazies a function may force. Among Lazies that block that has to be acyclic; the unsync ones, `Unsync`, may form cycles, and only the thread `Home` uses them.
* A function that forces its own unsync Lazy gets the panic "Lazy instance has previously been poisoned", although the Lazy is not poisoned: the function may catch it and return a value.

### How RaceCell and OnceBox correspond to the code

* `inner` of `RaceCell` is the word. Closures run between accesses and may call the cell again, on the
  same thread: `closures[t]` counts those that are running, `offer[t]` is the value on its way into the
  exchange, from `set` or from a closure. `known[t]` is what calls have told t. A `set` that fails answers `Err(())`, which
  tells t that the cell is full; `known[t]` is then what `get_unchecked` returns.
* There is one store in the life of the word, so a load is stale or it is not: `aware` are the threads that cannot miss the
  store any more. `seen` are those to whom the winner's side effects before its call are visible, which the head of
  `race.rs` promises to whoever gets the value. `Synchronize` is the program's own synchronization.
* `OnceBox` follows a box from `Box::new` (`owned`) through the raw pointer of a call (`call`) into a cell
  (`inner`) or back. `refs` are the borrows a thread has out of `get` and `get_or_try_init`; the borrow checker lets a cell be
  dropped only when there is no call and no borrow of it (`InUse`). `clone` is a `get` and, after the value's own `clone`, which is
  program code, `Clone`. Freed addresses are allocated again.
* `GetUnchecked` is the plain read. Its caller must have acquired the value, so t must be among `aware` and `seen`.
* `OnceBool` instantiates `FirstWins` a second time, with the bools that went into `to_usize` and the bools that
  come out of `from_usize`.
* The doc of `OnceRef::set` (`race.rs:266`) says `Err(value)` where the signature has `Err(())`.

### How Release corresponds to the code

* `job[j].at` is the section of `main()`, and within PUBLISH the command; an ended job is green or red. A test section is one
  step: what matters of it is the environment its commands see (`Enter`, `Leave`: the guards that `push_env` returns) and
  whether all of them succeed. `Fail` is any `?`, and the end of the stale `Cargo.lock.msrv` arm.
* `tags` are the tags of the checkout, `origin` those at GitHub, `crates` what crates.io has. The answers of `cargo publish` and
  `git push` may be lost: then the state changes and the job is red. External are crates.io, which takes a version
  once, and git, which does not move a tag without force.
* A job that published and could not tag leaves a state in which every later job of that version fails at
  `cargo publish`, until somebody tags by hand. That is what the code does; the properties say that nothing wrong is tagged or called released.

## Runs

| run | instance | question |
|---|---|---|
| `std_safety` | 3 threads, any calls, symmetry | `RunningIsOwned`, `ReadsAreInitialized`, `NoDataRace`, `NoUseAfterReturn`, `ListsAreDisjoint`, `NoWaiterIsLost`: what could go wrong in the lists (a waiter shared, dropped, pushed after the last swap or linked in a circle), the ownership of the cell and the orderings; and every step is one of `OnceCellSpec` or a stutter (`IsOnceCell`) |
| `std_fair` | 2 threads, any calls, one with closures that may call back; 64 values of `usize`, Waiters on both sides of `isize::MAX` | `WordsAreFaithful`, `WordsFollow`: the words of the queue; the fairness of `OnceCellSpec` follows from that of `ImpStd`; a reentrant closure deadlocks as documented, and does nothing worse |
| `std_live` | 2 initializers, 1 `wait()`er | everyone returns from a COMPLETE cell; initializers get through unless closures fail for ever |
| `std_waiters` | 2 threads | finds the `Waiter` that `wait()` leaves in the queue of an INCOMPLETE cell, against the comment at `imp_std.rs:135` |
| `pl` | 3 threads, any calls, also from closures, loads up to 3 stores old | `ReadsAreInitialized`, `NoDataRace`, `SleepersWillBeWoken`; `ImpPl` implements `OnceCellSpec` with its fairness: everyone returns from a COMPLETE cell, an empty one gets initialized |
| `race` | 3 threads, the words of false and true, closures nested 2 deep; one thread is scheduled | `EffectsAreVisible`; every step is one of `FirstWins`, on words (`IsFirstWins`) and on bools (`IsFirstBool`); a call returns although the other threads may stop anywhere (`CallsReturn`) |
| `cs_fair` | 3 threads, closures nested 3 deep | `OneInside`, `ReadsAreInitialized`, `NoDataRace`; `ImpCs` implements `OnceCellSpec` with its fairness, also with closures that call back |
| `unsync_cell` | 4 values, closures nested 12 deep | `RefsAreValid` |
| `lazy` | 2 threads, 2 sync Lazies of which one needs the other, 2 unsync ones that need themselves, each other and a sync one | `FunctionOrValue` (a cell is empty while the function runs, so "reentrant init" cannot fail under a `Lazy` of either kind), `CalledOnce` (poisoning included), the use of the cells of sync (`AreOnceCells`), no deadlock (`CallsReturn`) |
| `box_safety` | 3 threads, 2 cells, 3 boxes, 2 closures at a time, symmetry | `OneOwner` (no leak, no double free), `RefsAreAlive` (no use after free), `ContentsAreInitialized` |
| `api` | 2 threads, 3 values of `T` | `OneOwner` (no value lost, duplicated or dropped twice), `NothingMissing` (`unwrap_unchecked` and `get_unchecked` find a value), `SetAnswersForItsValue`, `SetReturns` |
| `release` | 2 jobs, 2 commits of each of 2 versions, one of them with a stale `Cargo.lock.msrv` | `TestedBeforePublished`, `TagIsOfPublished`, `GreenMeansReleased` |

Bounds. Three threads are the least with which a list has two waiters while a third drains it, two threads
drain lists after failed closures while a third queues up again, and an exchange meets an address that has come back. The runs with
symmetry check safety only. The liveness runs are smaller because
they cannot use symmetry: `std_live` keeps three threads (a notifier must get past the first waiter of a list)
and gives each a part; `std_fair` lets two threads make any calls.
`MaxBehind` is 3 in `pl`: a thread may have missed the last closure altogether and the one before it in part.
`RaceCell` is stored to once, so a third thread is there to be neither winner nor the one synchronized
with it. In `box_safety` three threads can have a box each on its way into the same cell, and a freed address can come back in the
other cell. In `cs_fair` depth 3 has a closure above and one below the one that fills the cell. The depth of 12 in `unsync_cell` is far more than is
needed, and cheap. Lazies deadlock in pairs, so two threads do. In `box_safety` two closures (`MaxClosures`) are those of two threads, against a `set` of the third, or nested ones of one thread.
In `api` three values let a refused value, one in the cell and one in another call meet. In `release` two jobs can race to
publish two commits of one version, or be on different versions; the second version has a commit that must fail and one that repairs it.

Deadlock. `pl` does not check it: all threads may be parked in `wait()` on a cell that nobody fills, and then nothing can happen. Nor does `api`, where all threads may `wait`. In
`imp_std` park may return spuriously, so something always can.

Fairness. `Fairness` says that a thread inside the cell's code is scheduled (weak fairness of
`Step`) and that closures return (weak fairness of `ClosureReturns`). Nothing makes a
program call, a closure succeed, or `park` return without a token (`WakeSpuriously` is not in `Step`).
Exchanges that fail, fail because another thread made progress, so no strong fairness is needed.
In `ImpPl` a weak exchange may fail spuriously, but not for ever: `StartFailedSpuriously` is not in `Step`. In `RaceCell` only the threads of `Live` are
scheduled; a closure makes finitely many calls of its own and then returns, so its return, which these calls interrupt, is strongly fair.
So it is in `ImpCs`; nothing else there, the entry to the section included, needs more than weak fairness. `Lazy` assumes of the cells what
`OnceCellSpec` promises: some caller gets to initialize an empty cell, not every one. So a caller may be overtaken
for ever by others that find the Lazy poisoned, which `CallsReturn` excepts. `SyncOnceCell` assumes the same of its cell, and so
`SetReturns` excepts functions that go on failing for ever. `Release` has no fairness and no liveness: any command may fail.

For every property a slip of the code that it catches is kept as an operator `Wrong...` beside the right one.

## Proofs

Every safety property that a run expects to hold is a theorem, for every value of the constants; what a run adds are the liveness
properties, and that the instances reach what the properties are about. All theorems are of `Spec`, without fairness. The assumptions on the
constants are named where these are declared and say that names which stand for different things are different, and what the constants range over;
`UsizesAssumption` and `SlotAssumption` say besides that `usize` has a multiple of 8 values and that Waiters do not overlap, and
`BoolAssumption` that the values given to `OnceBool` are words of `to_usize`. A proof uses only the assumptions it cites: those two
are cited for `QueueWords` only, and the third for `OnceBool`.

`ImpStdProofs`, for any set `Threads`, any program `Calls`, any reentrant closures. Three invariants, each of which contains the one before:

* `CellInv`, the cell. The properties alone are not inductive: that the swap
  finds RUNNING needs that only the owner is at the guard; that a stored value is not overwritten needs that a
  value exists only in a COMPLETE cell or between the closure and the swap of the thread that stored it
  (`ValueOK`); that a COMPLETE cell stays so needs that the
  exchanges start from the state their thread has read (`FrameOK`). From it: `TypeCorrect`, `OneInitializer`, `NoEarlyReturn`,
  `CompleteIsCompletePtr`, `ValueIsWrittenOnce`, `ReentryIsStuck` and `Refinement`.
* `ListInv`, the lists. `ListsOK` states `ListsAreDisjoint` link by link: a pointer that is not null leads to a Waiter that was not signaled, each
  such Waiter has a pointer to it, and only one. With it go which Waiters exist (`NodeOK`) and from when on the handle is
  taken (`HandleOK`), for that is when a notifier's `at` and `after` replace the `next` of the Waiter. Nothing of `curr_queue` is in the invariant: an exchange
  that succeeds has compared the whole word, whatever happened to the address in between. `NoCircle` is inductive with that: a push
  puts the new Waiter before the others, and nothing else adds a link between Waiters. `NoWaiterIsLost` follows: of waiters in no circle one has no other before it, yet a
  pointer leads to it, so from outside. From the invariant: `ListsStayDisjoint`, `WaitersAreReached`, `WaitersOutliveUse`.
* `OrderInv`, what each view contains. Whoever acquires the queue sees the last closure, unless the thread that ran it
  is still to swap (`ClosureOK`). The initialization of a Waiter is in the queue's release sequence as long as it exists, and who has seen it has seen that of
  the `next` one, which was in the queue before (`InitsOK`, `Carries`); so a notifier that walks on needs no further acquire.
  `signaled` carries `take` and itself to the owner (`SignalsOK`), and nobody has seen anything of a Waiter that
  does not exist yet at an address that comes back (`GoneOK`). From it: `AccessesAreOrdered`.

At the end `ImpStdProofs` proves `WordsFaithful` and `WordsFollowRecords` of `QueueWords`. First come lemmas about `TaggedPtr`: `with_addr` gives a pointer the
address it is asked for, wherever the two addresses are (`WithAddr`); masks and tags undo each other on multiples of 4 (`TagRoundTrip`); the word of a record is a
sum (`EncodeIsSum`) and its own (`EncodeIsUnique`). The theorems then follow from `TypeCorrect` and `CompleteIsCompletePtr`.

`ImpPlProofs`, for any threads, program and any `MaxBehind`. `CellInv` is as in `ImpStdProofs`. For `SleepersAreWoken` the bucket is what matters
(`BucketOK`): either the cell is RUNNING, or the bucket has seen the newest store and so no validation under its lock can miss it, or the thread that made the
store has yet to come to the bucket; without it a Relaxed load could put a thread to sleep after `unpark_all`. `AccessesAreOrdered` needs that `state` carries the end of the
last closure unless the thread that ran it is still to store (`SeenOK`). `Refinement` is the safety half of `IsFairOnceCell`.

`ImpCsProofs`, for any threads and `MaxDepth`. `CsInv`: closures run and sections nest only for the holder, and between its calls a holder is in a closure (`HolderOK`); a set
flag, and whoever is to return, has a value to show (`FullOK`); a free section passes on what its last holder knew, and so does the flag (`SeenOK`). From it: `OneThreadInside`,
`NoEarlyRead`, `AccessesAreOrdered`, `Refinement`, and `InnerIsUnsync`: the threads together use the unsync cell the way one thread could. Of that cell `ReferencesStayValid` and
`InnerIsWrittenOnce` are proved for any values (`UnsyncCell(Values)`): `RefsAreValid` is inductive
with the types, because a closure that ends writes only into an empty slot, into which no reference points. `SharedReferencesStayValid` puts the two together.

`LazyProofs`, for any threads, Lazies and `Needs`, cycles included. `LazyInv`: all calls of a thread but the innermost are in a function (`CallersRunF`); a function runs in one place (`OneRunsF`); a
cell of sync is initialized in one place, and not when it is full (`OneInitializes`, `FullIsLeft`). `FunctionXorValue` needs the second: when a function ends, it runs nowhere else. `FunctionsAreCalledOnce` follows
from it. `CellsAreOnceCells` needs the rest: a thread that has two calls on one sync cell has the inner one blocked for ever, so a call that leaves was the only one on its cell.

`OnceBoxProofs`, for any threads, cells, boxes and `MaxClosures`. `OwnerInv` adds to `OneOwner` nothing but that it is stated by pairs of owners (`OwnerOK`) and that nothing is in, or on its way to, a cell that
does not exist (`CellsOK`). `ReferencesStayAlive`: what a thread borrows is in the cell that it borrows from, which cannot be dropped. `ContentsAreSeen`: whoever has a box in hand, and a cell that has
one, has its contents (`ReadyOK`), which is lost when the box is freed and starts anew.

`RaceCellProofs`, for any threads, values and `MaxDepth`: `RaceTypeCorrect`, `SideEffectsAreVisible`, `OneAnswer`, and `FirstOneWins`, the refinement of `FirstWins`. The
invariant `RaceInv` adds to the types that what a thread knows is what is stored and that it can no longer
miss it (`KnownIsStored`), and that in a full cell everyone who cannot miss the store has the winner's effects,
as has the message (`AwareHaveSeen`): without the latter a failing exchange could read the value and not the effects. `FirstBoolWins` maps the words to bools step by step, `to_usize`
and `from_usize` being inverse to each other.

`SyncOnceCellProofs`, for any threads and values: `OneOwner`, `NothingMissing` and `SetAnswersForItsValue`. The
invariant `Inv` adds to the first two that one function runs at a time (`OneRuns`), which method a thread can be in by its phase
(`CallFits`), and that what a call brought is still with it or is now the cell's (`BroughtIsKept`). The last is what `SetAnswersForItsValue`
needs: a local that is empty when `try_insert` looks at it was emptied by its own function, into a cell that nobody has changed since.

`ReleaseProofs`, for any commits, versions and jobs: `TagIsOfPublished`, `GreenMeansReleased` and `TestedBeforePublished`. The invariant
`Inv` adds how far each job has come: what it ran is what its section says (`Tested`), between sections its environment is `Base` (`TypeOK`), at
`git tag` or `git push` it is on the commit that crates.io has, and every tag it knows is at GitHub, or is the one
that it is about to push (`Releasing`).

Only model-checked: liveness, which is out of the prover's reach, that is `AllReturn`, `InitializersReturn`, `CallsReturn`, `SetReturns` and the
fairness half of `IsFairOnceCell`. The invariants that the theorems rest on were checked with TLC before they were proved, on the instances of
the runs. `TypeOK`, `CompleteHasNoWaiters`, `WrittenOnce` and `AnswersNeverChange` are proved and follow from what the runs check, so no run repeats them.

## Not modelled

* `Debug`, `PartialEq`, `Eq` and the conversions: no state. `Send`, `Sync` and the unwind-safety impls: facts of the type system.
* Provenance of pointers (above), and executions beyond release/acquire reasoning, such as values out of thin air.
* The examples and benches, which use the library or measure it, and the tests, which were read for what they expect.
* The commands inside of a test section of `xtask`: which of them fails makes no difference to the release.

## Plan

Every component that has state is modelled, and its safety properties are proved. What could be added:

1. theorems that `RaceCell` and `OnceBox` store once between two exclusive accesses, as `ValueIsWrittenOnce` says of `ImpStd`;
2. the refinement of `FirstWins` by `OnceBox`, one instance for each cell.
