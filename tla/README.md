# idyl: a verification development

idyl is a language for musical time. A program declares temporal functions, each with an interval
`dt`, and *process blocks* that instantiate them; the interpreter advances every instance by one tick
per interval and runs the reactions that depend on it. In listen mode the blocks are started,
stopped, paused, resumed and replaced while the program runs.

This directory models the parts of the interpreter in which its behaviour in time, under concurrency and under
live edits is decided: the timing thread, the two schedulers, the process control of the evaluator, the placement
of reactions, hot reload, the scope stack, temporal instances, clocks, flows, the virtual machine, and the program
around them. TLC checks the models on small instances; TLAPS proves their safety properties for all values
of the constants: of the engine, both schedulers, process control, the program, the scopes, the clocks, the instances, the
placement of reactions, the flow cache and hot reload. Section 4 says which properties stay with TLC, and why. Paths below
are relative to the repository.

## 1. The system

| Component | Source | State | Operations |
|---|---|---|---|
| timing engine | `src/time/sys_clock_engine.hpp` | `_queue`, `_running`, a mutex, a condition variable, the thread | `start`, `stop`, `add_event`, `_loop`, the runner of an event |
| system-clock scheduler | `src/time/scheduler.hpp` | `subscriptions_` (interval, active, paused, tag, last deadline, generation), `paused_at_`, `next_id_` | `subscribe`, `unsubscribe`, `update_dt`, `pause_process`, `resume_process`, the self-rescheduling closure, `start`, `stop` |
| audio-clock scheduler | `src/time/audio_clock_scheduler.hpp` | `subscriptions_` with `next_fire_ms_`, `paused_at_`, the worker thread | the same interface; `worker_loop_`, `fire_due_` |
| process control | `src/core/evaluator.cpp` | `live_processes_`, `active_process_instances_`, `process_each_subs_`, `stored_processes_`, `epoch_deferred_`, `epoch_flush_pending_` | `start_process`, `stop_process`, `pause_process`, `resume_process`, the callbacks of segments, owned instances, `@`-blocks, each loops, the epoch flush |
| main program | `src/idyl.cpp` | the command queue, `g_running`, the OSC listener thread | start the scheduler, run the program, receive, queue and dispatch commands, keep alive, stop, clean up |
| device modules | `modules/osc_module.hpp`, `modules/csound_module.hpp`, ... | connections, repeated sends, Csound instances with a thread each | open, send, close, `cleanup_all` |
| hot reload | `src/core/evaluator.cpp` (`diff_and_apply`, `hot_reload`) | the AST and segments of the live processes | keep, replace, add and remove the temporals of a running process |
| reaction redistribution | `redistribute_reactions` | none (pure) | decide which segment runs a reaction |
| temporal instances | `instantiate_temporal`, `tick_instance`, `core/core.hpp` | parameters, current and next values, emitted values, age | instantiate, tick, commit, warm start |
| flows, flow cache | `eval_flow*`, `flow_call_cache_`, `flow_site_cursors_` | members and live instances; 64 cached calls, first in first out; a cursor per place of use | build, look up, evict, index, migrate |
| delay and memory operators | `evaluator.cpp` 1602-1735 | ring buffers per call site | write and read |
| clock registry | `core/core.hpp` 404-493 | clocks with parents, tempo, phase origin | `set_bpm` and its propagation |
| environment | `core/environment.hpp` | the scope stack, `scope_pin_`, `scope_start_` | push, pop, look up, define |
| expressions, builtins | `evaluator.cpp`, `core/builtins.hpp` | none | evaluation |
| virtual machine | `vm/compiler.cpp`, `vm/vm.cpp` | stack, code | compile and run expressions |
| semantic analyzer | `semantic/` | symbols and scopes | diagnostics |
| parser, utilities, `tools/idyl_ascii`, `lib`, editors | `parser/`, `utilities/`, ... | files and sockets | input and output |

### How the parts interact

* The **main thread** starts the scheduler, runs the program (`evaluator::run`, which in listen mode only
  stores the named blocks), and then dispatches the commands that the OSC listener queued. Each command
  takes the recursive `eval_mutex_`.
* The **clock thread** (the engine's thread or the audio worker) calls the callbacks of the subscriptions,
  one at a time. Its first statement in a callback is to take `eval_mutex_`; a command may come between
  the scheduler's decision to call and that lock. Inside, the callback may subscribe, start, stop, pause
  and resume: it calls back into the scheduler that called it.
* The scheduler protects its table with `subs_mutex_`, which it **releases around the callback** and around
  `engine_.add_event`.
* The **listener thread** appends to the command queue under a mutex of its own; the main thread swaps the queue out and
  carries the batch out without that mutex, each command under `eval_mutex_`. A Csound instance has a **performance
  thread** that holds no lock. The repeated sends of the OSC module are subscriptions that do not take `eval_mutex_`.
* A process block leaves its frame on the **one stack of scopes**; its callbacks find the frame by its position. Its
  calls of temporal functions leave **instances**, found again by name; its reactions are compiled for the **virtual
  machine** or walked, and flows that they index keep their positions by node or by slot accordingly.
* The engine protects its queue with `_mutex`, which it releases around each event. `stop()` does not take it.

### What is hard, and what correctness means

| Component | Hard behaviour | Correct means |
|---|---|---|
| engine | lost wakeups, events pushed while one is run, stop against the waits | no event lost, each fired, `stop()` returns |
| schedulers | pause and resume while the old closure is queued, popped or running; late callbacks; a batch whose members change; stop against a callback | one chain of ticks per subscription, none silent, no tick twice or early, only live subscriptions are called |
| process control | four tables that must agree about who owns what; a callback that waits while its process is stopped and restarted; a flag that stands for a one-shot elsewhere | stop finds everything, pause takes everything, no stale reaction, every epoch ends |
| hot reload | moving state between runs while callbacks hold the old one | survivors keep their values, the removed never react |
| redistribution | which of several segments runs a shared reaction | each reaction has one home, or is shared by all it needs |
| main program | commands that arrive while a batch is dispatched; the end against callbacks, listener and Csound threads | each command once and in order, the program ends, nothing is used after it was destroyed |
| scopes | callbacks pin scopes by index in a stack that grows and shrinks | the index is the process's frame; a callback sees and writes its own process's scope |
| instances | several calls in a binding, calls as arguments, found again by name in each tick | a call goes on reading its own instance, ages are elapsed times, a stop takes all |
| flows | positions kept by node and by slot across reloads; two containers for one cache | positions go on, no old definition in the cache |
| virtual machine | redefinition of what compiled code calls; machine and evaluator call each other | compiled code gives what walking gives |
| clocks | tempo changes in the middle of a period | positions are continuous, children keep their ratio, equal syncs and phasors agree |

`PROJECT.json` lists each hazard at its line, with the properties that cover it.

## 2. The modules

```
   TickSource            what idyl_scheduler promises its user
     ^      ^
     |      |            refinement, checked and proved for both
 Scheduler  AudioClock   the two implementations
 Engine                  the thread, mutex and condition variable under Scheduler's queue
 Process <- MCProcess    the evaluator, on top of the promise of TickSource
 Shell <- MCShell        the program, over an instance of TickSource
 Lists                   parts of sequences (operators only)
     ^
 Segments                how a process block becomes segments and reactions (operators only)
     ^      ^
 Placement  HotReload <- MCHotReload
 Scopes <- MCScopes      the stack of scopes
 Instances <- MCInstances, Clocks, Flows <- MCFlows, Vm <- MCVm
                         what the statements of a process keep between its ticks

 EngineProofs, SchedulerProofs, AudioClockProofs, ProcessProofs, ShellProofs, ScopesProofs, ClocksProofs
                         theorems, each about the module whose name it begins with
 BlockProofs             theorems about Instances, Placement, Flows and HotReload, one after the other
```

### TickSource

The contract of `idyl_scheduler` as the evaluator uses it: at most one callback at a time, only of a
subscription that is neither cancelled nor paused; `pause_process` and `resume_process` take all the
subscriptions of a tag at once; after `stop()` nothing is left. It says nothing of deadlines.

### Scheduler

`subs`, `present`, `nextId`, `pausedAt` are `subscriptions_` (its records and its keys), `next_id_` and
`paused_at_`. `queue` is the engine's queue, as a set of closures, each with the generation it captured and
its deadline. `toArm` and `arming` are the inside of a call: what `resume_process` collected under the lock
and arms outside it, and the event built by `arm_subscription_` and not pushed yet. One action is one
critical section of `subs_mutex_`: a resume that arms two subscriptions is five steps that the engine thread
can come between. The engine thread goes through `EngineWake`, `Pop`, then `Drop` or `Begin` (the closure's
first critical section), `CallbackLock` (it waits for `eval_mutex_`), calls of its own, `CallbackReturn`,
then `Erase` or `Reschedule`. `phase` is the life of the program: while it is "setup" the main thread subscribes
without `eval_mutex_`.

Two abstractions: the callback is any sequence of calls, and `SetUp(n)` keeps a thread from pausing or resuming
a process whose set-up is under way, which `live_processes_` guarantees (a process is entered there as running after
its last subscription).

### AudioClock

The same interface without events: `subs[s].next` is `next_fire_ms_`, and `batch`, `at`, `cur` and `prev` are the
local variables of `fire_due_`. `begun` is a history variable for `TicksInTime`. The three ways of waiting for
the next buffer period differ only in how the thread sleeps, and are one action.

### Engine

At the grain of the condition variable. A wait is three places: the predicate is evaluated with the mutex
(`TestEmpty`, `TestTimed`), the thread releases and blocks in one step (`BlockEmpty`, `BlockTimed`), a notification,
a timeout or nothing at all (`Spurious`) wakes it and it takes the mutex again. A notification before the block
wakes nobody. `hand` is the event that was popped and runs without the mutex; it ends (`OneShot`) or is
pushed again (`Again`). `_running` is an atomic that `stop()` changes without the mutex.

### Process

The evaluator in listen mode over the promise of `TickSource`. `tracked`, `eachSubs`, `live` are
`active_process_instances_`, `process_each_subs_` and `live_processes_`; `deferred` and `flushPending` are
`epoch_deferred_` and `epoch_flush_pending_`; `active` has the instances with `active_`; `subs` the scheduler's view.
`Body` says how many temporal bindings, arguments, flow instances and `@`-blocks each process creates. The
callbacks: `SegmentExpires`, `InactiveTick`, `SegmentTick` - reactions - `SegmentCatches` - catches - `SegmentReturn`;
`OwnedTick`; `HandlerEnter` - `HandlerReturn`; `FlushEnter` - `FlushRun` - `FlushReturn`. Where statements run
(`InBody`) the clock thread may do any `Statement`: start, stop, pause or resume any process, a bare stop, an each
block, an `@`-block. A `Command` of the main thread may come whenever `eval_mutex_` is free: also between `Begin` and the
callback's first step.

Assumed: an instance and its subscription share a number; the control statements in the body of a block itself
are those of its first callback; when the duration of a process is over is nondeterministic; of the numbers used
for flushes a free one is used again.

### Segments and Placement

`Segments` has no variables: a block is a sequence of statements of four kinds (a temporal binding, a call that drives
an unnamed segment, an `on`-block, anything else), of which only the name that is bound or assigned, the function, the
interval and the names read are kept. `Collected` is the walk of `exec_stmt`, `Distributed` the two passes of
`redistribute_reactions`, `Redistributed` its separation of shared reactions, `Started` all of it. Its maps
`var_to_seg` and `var_all_segs` are the functions `homes` and `all`, and an AST node is the pair of a text's number and a place in it,
so that two equal statements are two nodes. All names are known: that the interval is read from the instance when the
segment has none is the same value here.

`Placement` writes every block of up to `MaxLength` statements, one at a time, and states against a reference of its own where the
reactions should be: `BindingsOf` a reaction and of the reactions that assign what it reads. The reference reaches through
one assigned variable, as the two passes do (`Shallow`).

### HotReload

`segments` is `live_process.segments` with each segment's reaction set, `inst` the instances: `dt` is `dt_ms_` and `expr` what the
`dt` entry of `instance_param_exprs_` evaluates to, `sub` and `arg` the subscriptions of the instance and of its temporal argument.
`ReloadText` is `hot_reload` with a process block, under `eval_mutex_` from end to end. Its passes are operators: `Survives` and `Survivor` (0.5 and
1, segments that stay), `Replaced` (0.5, a driver with another function, in place), `Killed`, `Added` (2, new bindings and those
with another function, at the end), `Applied` (3, placed again). A place of the new text that stands for a segment is an anchor (`Anchors`): a temporal
binding, and also any other assignment to the name of an old segment, which keeps that segment as it was. `NewDt` is the interval after the reload, the
old one if the new text states none. `StartRun`, `StopRun`, `Pause`, `Resume` are those of
`Process` for one process, now with the reactions; a callback is `Begin`, where commands may still come before the lock,
and one of `Expire`, `InactiveTick`, `SegmentTick`. The three closures differ, and `origin` says which one an instance has: that of a start
looks at the duration and at a stop in its own tick, those of a reload at neither; "revived" is what a reload of a stopped process has made, which is
a history of the same closure.

### Scopes

`frames` is `scopes_`, with positions from 1 and a frame as the set of the names it binds; `pin` and `start` are `scope_pin_` and
`scope_start_`. The evaluator runs one thing at a time but things nest, and `ctx` is that nesting: `Start` - `BlockEnd` for a block,
`Callback` - `CallbackEnd` for the five kinds of callback, of which three pin (`Pinned`) and two do not (`Unpinned`:
`@`-handlers; each loops, flushed reactions and the callbacks of bindings that a reload added), `Reload`, and `Call` - `Return` for a
user function. `CallStop` is the stop that leaves all calls as an exception, with their frames on the stack. `Define` and
`Lookup` are those of the environment, on a name. `runs` has what the closures captured (`frame`) and what `live_processes_` has (`depth`);
`own`, `clean`, `within` (the blocks in which a run's block was started) and `popped` (whether its end took a frame off the stack) are history. A block may
start a process, whose block is then executed inside it. `Orphaned` names the runs started in a block that popped a frame: it may have been theirs.

### Shell

The three or four threads of the program, each with a place. `main` follows `main()` from the set-up through test, swap, dispatch and
poll to join, stop, clean-up and return; `listener` the receiving thread; `clock` a callback, which waits for `eval_mutex_` or is a
repeated send that does not. What a command or a callback evaluates is any `MaxOps` of: subscribe, unsubscribe, open, send, close a
connection, open, use or close a Csound instance. The scheduler's steps are those of an instance of `TickSource`. A use of a Csound pointer
is two steps (read, used), as `ptr_mutex` covers the first only; a close is two steps as well, `closing` being the instances that a thread has taken out of
the map and not destroyed yet. In the set-up main evaluates without `eval_mutex_`, and callbacks come as soon as something is subscribed: `Overlap`. Whatever
the operations may do to each other then, they may do here, as far as they share state: `listed` is `active_subs_`, which `osc_stop` reads and clears without the
module's mutex, so that it may miss what is in it. `exposed` is history: the instances closed during an overlap.

### Clocks

`clocks` is `clocks_` with `epoch` and `offset`, `Create`, `Tempo` (`set_bpm` with its propagation, `Reached`), `BeatAt`, `PhaseAt` as in
`core/core.hpp`. `Start` makes a `sync` or `phasor` on a clock, `Tick` is their update. Time is in units and a beat in
`Beat` parts; every tempo divides a beat and passes each ratio without a rest (`Exact`), so that nothing is rounded - the code's numbers are doubles. `beats` and `own` are
history. The scheduler is the ideal one: what is due runs at its time.

### Instances

One process with one binding, a sequence of calls in the order of their evaluation, each with its function, interval, whether it is the
interval of another call, and whether it stands on one side of a ternary. `Start` evaluates it and makes an instance per call; the last drives
it. `DriverTick` is the segment's callback: duration, tick of the driver, tick of the pool, evaluation of the binding in retick mode (`Found`
is the search by name). `SubTick` is the callback of an argument's instance, `Stop` is `stop_process`. `insts` is `instances_` with
`age`, `dt`, `next` (0 without subscription) and `subs` (`owned_sub_instances_`); `pool` is `all_instance_ids`, `owned` the process's entry for
the stop. `made`, `call` and `reads` are history. Ideal scheduler, as in `Clocks`. The loops over the pool and over the calls, `AllTicked`
and `Evaluation`, are recursive functions, so that theorems can be proved about them. The bindings are those that `IsBinding` allows: a call stands
after those in its arguments and on the same side of a ternary.

### Flows

One process of which each segment's reactions index flows with triggers; a reaction has one such place. `cell` and `pos` are
`flow_site_cursors_`: nodes to maps, which nodes share after a migration. `slots` are the `flow_cursors_` of the segments that compile.
`cache` and `order` are `flow_call_cache_` and `flow_cache_order_`. `Tick` walks or executes, queues the shared reactions by node,
`Flush` runs those whose run has not been stopped and resets the triggers; `StartProcess` erases cursors (but not those in `on`-blocks), executes
the block and compiles; `Reload` executes new assignments twice, copies slots to maps (`Synced`), hands maps to the new nodes by place
(`Migrated`) and compiles; `Define` is the reload of a flow. A freed node may leave its map behind for a new node at its address:
`FoundStale`, with any of the positions in `Stale`. Flows have one member; elements are left out, their number is `Length`.

### Vm

`Compiler` is `compile_expr` for numbers, names, operators, the two forms of the ternary, blocks and calls with defaults, with its slots and
jumps; `Run` with `Executed`, `Jumps`, `Fallback` is the machine's loop, with nested frames; `Eval` and `UserFunction` are the walk.
The three call each other as the code does: a `CALL_USER` of a function without a chunk goes to `UserFunction`, which may enter the machine
again on the same stack and frames. A call is one step, `Define`, `SetConst`, `SetReaction`, `CallFrom` and `Tick` are the actions. Values are
integers and nil; a read past the stack's end is `Undefined`. The operators are recursive, so that this module has no theorems.

## 3. The runs

| Run | Instance | Properties |
|---|---|---|
| `scheduler` | one process, intervals 1 and 2, two subscriptions (tagged or not), three instants, one pause | `OneLiveChain`: one live closure per subscription; `ActiveIsArmed`: none silent; `NoTickTwice`: deadlines increase; `ImplementsTickSource` |
| `audio_clock` | the same with interval 1 and four instants, fair | `TicksInTime`: no tick twice, none early; `ImplementsTickSource`; `DueIsCalled`; `StopReturns` |
| `engine` | two events, five instants, a busy window of one, fair | `NothingLost`, `NoLostWakeup`, `EventuallyFired`, `StopReturnsIfPending` |
| `process` | `p` (a binding, a flow literal, an `@`-block, a duration) and `q` (a binding with a temporal argument), five subscriptions, fair | `TablesAgree`: a stop reaches everything but flows and `@`-blocks, the two views of pause agree, a flag for the flush means a flush to come; `NoStaleReaction`; `EpochCompletes` |
| `placement` | every block of up to five statements over three bindings with intervals 0, 1, 2, a driver and an assigned name | `PlacedAsDriven`: each reaction in the segments it depends on and in no other; `OncePerEpoch`; `SourceOrder`: after what it reads |
| `hot_reload` | four texts, evaluated up to twice after the first in any state of the process, eight instances | `LikeRestart`: a process that was edited is what a start of the last text would make, unless a segment goes on with what that text does not say (`GoesOn`); `IntervalSticks`; `NothingLeftBehind`; `SurvivorsUntouched` |
| `scopes` | two processes that bind one name and start each other, from their blocks too, three runs, four frames, two subscriptions, nesting of three, symmetric | `FrameInPlace`: a recorded position is its frame when a callback may pin it; `OwnFrame`: what runs pinned or in its block finds its own names and defines them at its place; `BuriedIsPrivate`: frames under others are written by their own process only, or by one that the starts of a block have displaced |
| `shell` | two subscriptions, a connection, a Csound instance, two commands, one operation each and two in the set-up, fair | `InOrder`: each command once and in order; `UsesAreLive`: nothing destroyed is used, but what was closed while the set-up overlapped a callback; `CleanExit`: nothing left when `main()` returns; `Ends`; `CommandsServed` |
| `clocks` | beats of 8 parts, tempi 4 and 8, three clocks, two instances, two changes of tempo, two units | `TempoReachesAll`: positions go on without a jump and ratios are kept; `SyncsAlign`: equal syncs fire together; `PhasorsAgree` |
| `instances` | eight bindings (`MCInstances`), process durations 0, 3, 8, nine units, fourteen instances | `EachReadsItsOwn`: a call goes on reading the instance made for it; `AgeIsElapsed`; `StopIsQuiet`: nothing is due after a stop |
| `flows` | three texts of two segments, one reload, a static flow and two parametric ones of which one calls the other, two arguments, a cache of two, one new definition | `CacheAgrees`: the cache keeps its bound, agrees with its order and has no old definition; `CursorsContinue`: a reload leaves positions where they stood, a start begins with the first element |
| `vm` | three functions with three, two and two definitions, two reactions, a constant of 0 or 2, arguments 2 and 4 | `CallsAgree`: compiled calls have the value that walking gives; `ReactionsAgree`: compiled reactions have the effect that walking has |

The type invariant of a module is a conjunct of the first invariant or property that its run checks; that of `Scheduler` is
proved by itself (`TypeCorrect`).

### Why the bounds are enough

* Two subscriptions are what a race needs: the one that is called and the one changed meanwhile, with the same
  tag, with none, or one of each. The theorems hold for any number.
* Three instants and intervals of 1 and 2 let a subscription tick, be paused past a deadline, be resumed and be late by
  more than a period. The deadlines in flight reach beyond the last instant. `Firsts` is {0} in the runs, because
  a phase lock only changes the first deadline; the theorems cover any value.
* One pause gives a resume with an old closure in each of its places. A second pause adds nothing that
  the generation, an arbitrary number in the proof, does not already have.
* In `engine` two events in five instants give a far and a near deadline, either pushed at any place of the loop.
* In `process` five numbers are a run of `p` and one of `q`, or two runs of `q` with an each loop: a restart
  after a stop, and a callback, a flush and a command of different runs. Flush numbers are recycled, so
  that the number of epochs is not bounded.

* In `placement` five statements are three bindings, a reaction that assigns what it reads of two of them, and a reader of that and of
  the third; or two bindings with such a pair under either of them, and a driver between. Their number grows some twentyfold with each statement.
* In `hot_reload` the texts of `MCHotReload` change an interval, a function and the order, remove and add bindings (one with an argument), replace
  a driver's function or its interval alone, make it an `on`-block, take a binding back to a value, leave an interval out, and move a reaction between one
  and two segments. Two edits go from each text over each to each, before the first start, while the process runs or is paused, and when it is stopped.
  Eight instances are a start and two edits, or a start, an edit of the stopped process and a restart. A text binds a name once
  (`HotReloadAssumption`), and none has a reaction that depends on a driver: section 5 says what the code does there.
* In `scopes` three runs on four frames are a run, one above it and a restart of either, which leaves a dead frame below or between.
  Blocks are started by commands, by the callbacks of segments and of `@`-blocks, and by blocks (`FromBlocks`); a block that starts its own process, which would
  go on without end, is left out (`NoSelfStart`). An orphaned run that writes a buried frame takes more than three runs: that exception of `BuriedIsPrivate` is
  there for the theorem, which covers any number.
* In `shell` two subscriptions are one of a process and one repeated send, or two of either; two commands one in the batch and one that arrives
  meanwhile. One operation per evaluation suffices, as a callback or command may be followed by another; the set-up, of
  which there is one, has two (`MaxSetup`): a subscription, without which no callback comes, and one that a callback can meet.
* In `clocks` three clocks are a main clock, a child and a grandchild or two children; two changes of tempo are one on each of two levels, in
  either order, at any of three instants within or at the end of a beat.
* In `instances` the bindings have one call, two of different functions with the driver faster or slower, a self-stopping one, an argument
  (alone, beside another call, into the second), the two sides of a ternary and two calls of one function. Nine units are several ticks of the
  slowest interval, two, with every function stopping itself at a tick of its own. Fewer than twelve instances are ever made.
* In `flows` a cache of two makes room in every second insertion, also between an inner and an outer call. The texts have a compiled and a
  walked segment with a shared reaction, compiled assignments with an `on`-block, and fewer places. One reload goes from each text to each,
  itself included, from every combination of positions; what a reload migrates is then again maps and slots as a start leaves them.
* In `vm` the definitions mix what compiles and what does not on each level of a chain of calls, `h` calls `g` calls `f`; they are
  redefined in any order, so that chunks that are fresh, stale and absent meet. `MaxStack` bounds what a machine that is left the wrong way keeps.

Deadlock is not checked, since all these systems may come to rest: clock and subscriptions are bounded, the program
may be stopped, a timing thread with an empty queue sleeps. What must go on is stated as liveness.

### Fairness

* `Engine`: time advances, the timing thread runs, and the thread that is in `stop()` or between a push and its
  notification goes on. No fairness of a spurious wakeup, of adding events or of stopping. Deadlines are bounded by the
  clock's bound, so that the busy wait ends.
* `AudioClock`: weak fairness of the worker, of the main thread's unlock and of the end of `stop()`; strong fairness
  of the worker's `eval_mutex_`, which commands take and give back: a main thread that sleeps 50 ms between
  batches of commands leaves it free.
* `Process`: weak fairness of a callback that has begun (its statements end); strong fairness of the flush's
  one-shot, which has no tag, so that no pause holds it, and a deadline that is 0.1 ms away.
* `Shell`: weak fairness of each thread's own steps - main, listener, a callback that has begun, a Csound buffer - and strong fairness of
  the main thread's `Dispatch`, since callbacks release `eval_mutex_` between their deadlines. None of packets, signals, ticks, and of what is evaluated.
* `Scheduler`, `Scopes`, `Clocks`, `Instances`, `Flows`, `Vm`, `HotReload`, `Placement`: safety only.

## 4. The proofs

The theorems hold for all values of the constants that the `ASSUME` of the module allows: any names, any numbers of subscriptions, events,
commands, runs, frames, clocks and changes, any intervals greater than zero. TLC evaluates these assumptions in every run.

| Theorem | Statement |
|---|---|
| `SchedulerProofs.TypeCorrect` | `Spec => []TypeOK` |
| `SchedulerProofs.SingleChain` | `Spec => []OneLiveChain` |
| `SchedulerProofs.NeverSilent` | `Spec => [](ActiveIsArmed /\ PausedIsResumable)` |
| `SchedulerProofs.QuietAfterStop` | `Spec => []StoppedIsQuiet` |
| `SchedulerProofs.TicksIncrease` | `Spec => NoTickTwice` |
| `SchedulerProofs.Implementation` | `Spec => ImplementsTickSource` |
| `EngineProofs.EngineLosesNothing` | `Spec => []NothingLost` |
| `EngineProofs.NoWakeupIsLost` | `Spec => []NoLostWakeup` |
| `AudioClockProofs.NeitherEarlyNorTwice` | `Spec => TicksInTime` |
| `AudioClockProofs.Implementation` | `Spec => ImplementsTickSource` |
| `ProcessProofs.TablesAlwaysAgree` | `Spec => []TablesAgree` |
| `ProcessProofs.StoppedReactionsStaySilent` | `Spec => NoStaleReaction` |
| `ShellProofs.CommandsInOrder` | `Spec => []InOrder` |
| `ShellProofs.NoUseAfterDestroy` | `Spec => []UsesAreLive` |
| `ShellProofs.NothingLeftAtExit` | `Spec => []CleanExit` |
| `ScopesProofs.FramesStayInPlace` | `Spec => []FrameInPlace` |
| `ScopesProofs.BuriedStaysPrivate` | `Spec => BuriedIsPrivate` |
| `ScopesProofs.NamesAreFoundAtHome` | `Spec => []OwnFrame` |
| `ClocksProofs.TempoReachesEveryClock` | `Spec => []TempoReachesAll` |
| `ClocksProofs.SyncsShareAGrid` | `Spec => []SyncsAlign` |
| `ClocksProofs.PhasorsShareAPhase` | `Spec => []PhasorsAgree` |
| `BlockProofs.CallsReadTheirOwn` | `Spec => []EachReadsItsOwn` |
| `BlockProofs.AgesAreElapsed` | `Spec => []AgeIsElapsed` |
| `BlockProofs.StopIsComplete` | `Spec => []StopIsQuiet` |
| `BlockProofs.PlacedAsDrivenAlways` | `PlacementSpec => []PlacedAsDriven` |
| `BlockProofs.OncePerEpochAlways` | `PlacementSpec => []OncePerEpoch` |
| `BlockProofs.SourceOrderAlways` | `PlacementSpec => []SourceOrder` |
| `BlockProofs.CacheAlwaysAgrees` | `FlowsSpec => []CacheAgrees` |
| `BlockProofs.SurvivorsAlwaysUntouched` | `HotReloadSpec => SurvivorsUntouched` |
| `BlockProofs.NothingIsLeftBehind` | `HotReloadSpec => []NothingLeftBehind` |
| `BlockProofs.IntervalsStick` | `HotReloadSpec => []IntervalSticks` |

Each module has a theorem `Invariance`, `Spec => []Inv`, from which the others follow; in `BlockProofs`, which covers four
specifications, those are `Invariance` (of `Instances`), `PlacementInvariance`, `FlowsInvariance` and `HotReloadInvariance`. The step of each action is a lemma, with one step per
conjunct that the action can disturb; the theorem combines `Init => Inv`, `Inv /\ [Next]_vars => Inv'` and what `Inv` implies. None of the
properties is inductive by itself; what `Inv` adds is why the code is right:

* **Scheduler.** `OneLiveChain` needs `EventsKnown`: an arm takes a generation that no event has yet, because events never run ahead
  of their subscription's generation, and never belong to a key that was not given out. `ActiveIsArmed` needs `Pending`:
  `resume_process` first kills the closure that is queued and arms later; in between
  the subscription has no live event and must be known to be armed exactly once, by one thread. `NoTickTwice` needs `Ahead`: every live
  deadline, and each that a pending arm will compute, is later than the last one
  delivered. It rests on the lemma `NextDeadlineLater` about catching up, and on a resume never shifting backwards
  (`pausedAt[n] <= now`, part of `TypeOK`). `StoppedIsQuiet` and the refinement need `Control`: where the two threads can be together, in
  particular that the engine thread holds `eval_mutex_` exactly in a callback's body, and that the entry it calls stays
  in the table until it erases it. `QuietAfterStop` (no callback runs and the table is empty after `stop()` has returned) and
  `TypeCorrect` have no line of their own in the configuration.
* **Engine.** `NoLostWakeup` needs `Control` and `Looked`: who is inside the mutex, and that a thread about to sleep without a deadline has
  seen an empty queue and still holds the mutex, so that nothing was pushed since. `NothingLost` needs `OnePlace`: ids are in one place and once.
* **AudioClock.** `TicksInTime` needs `Ahead` (the deadline to come is later than the last one called, except for the subscription whose
  callback runs, whose deadline is stored after it) and `Reached`: what is left of a batch is due, also when a callback of the batch pauses or
  resumes it, because a pause freezes the deadline in the past of the pause and the shift of a resume leaves it in the past of now. Both
  refinements map an entry to "live", "paused", "cancelled" or "gone", and have a lemma per action that is not a stutter.
* **Process.** `TablesAgree` needs `Numbered` and `Calling` (what each number was given out for, and in the callback of what the clock
  thread is), `Tables`, and `Flushing`: a flush that is noted as pending is subscribed, and as each start may forget one, there are never more
  flushes than starts. `NoStaleReaction` needs `Fresher`: what waits in the list, or runs, is of the present run of its process or was cancelled.
* **Shell.** `InOrder` is proved with associativity of concatenation: what the listener has in hand, the queue, the batch and what was done make one
  sequence. `UsesAreLive` needs `Handles`: only a thread that evaluates, or cleans up, holds a Csound instance, one at a time; what is used is open unless it is
  `exposed`, since two threads evaluate only in the set-up; and one that is being closed is in the hands of exactly one thread. `CleanExit` needs `Phases`.
* **Scopes.** `FrameInPlace` needs `Stacked` (an evaluation pops no more than it has pushed, and leaves something only if it was left by an
  exception), `Settled` (the frames of runs that something may still pin, reload or execute, and that are not orphaned, lie below whatever an evaluation may
  pop), `Executed` (nobody knows the run whose block is executed; it was started in the blocks around it, and every later run in it) and `Depths`. Blocks may
  start processes: a run that a block has started lies above that block's own frame, so that the one frame which the block may pop at its end is its own
  or belongs to a run that was started in it, and that run is `Orphaned` from then on. `OwnFrame` also needs `Pinning` and `Leaked` (above the frame of the block that
  is executed there are only frames that its calls and the blocks it has started have left), and the lemma `CleanSize` about the size of the stack.
* **Clocks.** `TempoReachesAll` needs the tree: a parent is older than its children, so that the recursion of `set_bpm` ends (`TempiExist`), and a
  clock that is reached has a tempo that is its parent's times its ratio (`Reaching`). `SyncsAlign` needs `OnGrid`: a sync is due at a multiple of its
  interval, at most one interval ahead; a period has one such instant (`OneMultiple`). `PhasorsAgree` needs `Shown`: a phasor's cycle is
  its number of beats at any tempo, and what it shows is the number of beats that have passed. The proof showed that the bound on tempi
  was too weak: a tempo that divides a beat may still be rounded away by a ratio, and `Exact` now excludes that.
* **Instances.** A step of `Start` or `DriverTick` goes through all calls. `EvaluatedIs` says what one call leaves of what the calls before it
  promised (`Upto`: everything made since belongs to a call that was evaluated, and is what that call reads), and the lemmas `StepsExist` and
  `Stepwise` carry this through the recursive function, by the least call at which it would fail. `StopIsQuiet` needs `Armed`: what is
  subscribed is due no earlier than now and is in the process's list, because an argument's instance is scheduled only when the call that
  adopts it is made. `AgeIsElapsed` needs `Armed`, too: what
  ticks is due now and not before, and its interval changes only with a tick. That the intervals
  read from an argument exist needs `Sound`, `Armed` and `Together`: no instance ticks twice in a unit of time, so that counts stay within `MaxTime + 1`,
  and what ticks in the pool has not ticked before its driver is due. `EachReadsItsOwn` needs `OwnRead` and `Alone`: no other instance of the pool was made for
  the call of the driver, so that the search, which looks at the driver first, finds the first instance that was made for a call. The assumption on `Interval`
  was one entry too short: the driver's tick at `MaxTime` may be its argument's count `MaxTime + 1`.
* **Placement.** What has to be invariant is only that the block is well formed and `segs` is what `Started` makes of it (`PlacementInv`);
  the argument is about the operators. A pass of `redistribute_reactions` makes the list of a segment from selections of
  the lists of the segments (`Selection`, `Flat`): the lemmas say which members a selection has, how often, and in what order
  (`Precedes`, `Ahead`), for any lists. `PlacedAsDriven` follows because the first pass decides from the names that are bound, the second also from
  those that the first one placed, and a node is in the lists of exactly the segments decided for it. `OncePerEpoch` needs that a node is
  in a segment's list once, and that separation leaves it either as local in one or as shared in all. `SourceOrder` needs the order after
  both passes: lists of lower segments come first, and within one the order of the text is kept.
* **Flows.** `CacheAgrees` needs `FlowsInv`: cache, queue and cursors are among those that are `Sane`. `CallsOk` is the cache's part: the queue
  names each cached call once, there are no more than the bound, and what is cached was built from its flow's present
  definition. An insertion may insert an inner call before its own, and either may make room: `InsertedCalls` shows that a call that is
  being built is not in the cache while its inner one is (calls are one deep), so that none is put in the queue twice, and that the eviction of an
  inner call leaves the outer one whole. Ticks, starts and reloads go through all reactions; the recursive functions that
  do so are carried by the lemmas of `Instances` again, `StepsExist` and `Stepwise`. That a flow has an element, else an index would be taken modulo 0, became
  an explicit part of `FlowsAssumption`.
* **HotReload.** `SurvivorsUntouched` is about an operator with four passes over two texts. `Ranked` and `RankIs` say what the lists of `Lists` are, a member
  for each place and in order, `AnchorIs` what stands for a segment in the new text, and `Result` is what follows for a reload: each instance of the old
  segments is at its place, replaced or gone, each other statement has a new segment, and new segments have exactly the next numbers (`ReloadedIs`).
  `NothingLeftBehind` needs `LeftInv`: what goes on (`Going`, which includes the argument of an instance that a start made) is tracked, and in a segment unless a
  reload of the stopped process has made it; and in a process that was never started or was stopped only such instances are tracked. A stop therefore reaches
  all of them, also when a start has taken their segments away in between. `IntervalSticks` needs `SticksInv`: in a binding's instance the interval and the value of
  its expression are both the segment's, and a driver's interval is one of the two (`Stuck`). The proof needed that bindings alone have a name, which
  is now in `HotReloadAssumption`.

### What is only model-checked

* Liveness and what depends on fairness, in every module: `EventuallyFired`, `StopReturnsIfPending`, `DueIsCalled`, `StopReturns`,
  `EpochCompletes`, `Ends`, `CommandsServed`. `ENABLED` is out of this prover's reach.
* `Vm` (`CallsAgree`, `ReactionsAgree`): its operators are recursive over expressions.
* `LikeRestart` of `HotReload` and `CursorsContinue` of `Flows`. Neither is true of all texts: what a reload makes of drivers, of reactions that depend
  on them, and of shared reactions that move between segments differs from a restart, or from where the positions stood (section 5). They
  hold for the texts of their runs, of which `LikeRestart` excepts the states in which a segment goes on with what the text does not say (`GoesOn`).

## 5. Seen while modelling

What the code does against a comment or document, or in a corner the properties name as a condition. The models have this
behaviour unless it says otherwise; the properties are stated for the rest.

**Timing and scheduling**

* `src/time/scheduler.hpp:230`: a subscription that has not fired before a pause fires at the moment of the resume, before
  subscriptions that were ahead of it; the comment at lines 199-203 promises phase and order.
* `src/time/sys_clock_engine.hpp:147`: `stop()` changes `_running` without the mutex, can lose its wakeup, and then hangs in
  `join` when the queue is empty (`StopReturnsIfPending` says "pending" for that reason).
* A timed wait that a closer event ends early leads straight into the busy wait, however far that event is (`Aim` in `Engine`);
  `src/time/sys_clock_engine.hpp:72-74` says that the thread spins within the busy window.
* Audio clock: a store after a callback drops the shift of a resume made in it.

**Processes**

* `src/core/evaluator.cpp:3669`: `stop_process` leaves the instances of flow literals subscribed; `doc/ch09_process_blocks.md:268`
  says it unsubscribes all.
* `src/core/evaluator.cpp:3604`: a process that has ended by its duration or by itself cannot be started again, as `live_processes_`
  still says running; `doc/ch09_process_blocks.md:335` says `start` restarts.
* A callback that was waiting when its process was paused can subscribe each loops that tick on (line 964; `doc/ch09_process_blocks.md:307`).
* A bare `stop` in a catch ends one instance, and in an `@`-handler all processes (line 1001), against the documents of either.
* A shared reaction that a stopped run left in the list hides the same reaction of the run started in that epoch (line 751);
  `Flows` has it (`Waiting`).

**Placement and hot reload**

* A reaction that reads a variable two assignments away from a binding goes to the segments of the first of them only if it was written there.
* `src/core/evaluator.cpp:3837`: a shared reaction is queued by the first segment of an epoch that has it, and runs in that order. One that
  reads an earlier binding besides what another assigns can precede it: with bindings `a`, `b`, `c`, `x = b + c`, then `print(a, x)`,
  the print shows the `x` of the epoch before. `src/core/evaluator.hpp:397` says that shared reactions see a consistent snapshot.
  `SourceOrder` excludes such pairs (`ReadsEarlier`).
* `src/core/evaluator.cpp:4183` and 4346-4361: a text that assigns the name of a segment something that is not temporal (`a = metro(..)` becomes `a = 5`), or a
  call that makes no instance at that moment, keeps the segment, its instance and its old statement. `doc/ch09_process_blocks.md:159` says that the
  instance of a removed binding is stopped and unsubscribed. The assignment counts as the binding's place, so that the reactions after it are the
  segment's; of several assignments of the name the last does, and what stands between them is in none. `GoesOn` excepts it from `LikeRestart`.
* `src/core/evaluator.cpp:4273-4283`: a text that leaves the `dt` argument out keeps the interval of the text before and does not go back to the
  function's default, for bindings, drivers and `on`-blocks (`NewDt`, `GoesOn`).
* `src/core/evaluator.cpp:5296`: a text evaluated for a stopped process starts its new bindings, as the `live_processes_` entry is still
  there; `doc/ch09_process_blocks.md:150` says that only the stored AST is updated. A start then makes all the segments anew, and what the reload
  has made ticks on beside them, in no segment, until the next stop: the "revived" instances of `NothingLeftBehind`.
* `src/core/evaluator.cpp:4634`: a new interval of an unnamed driver is undone by its next tick, which evaluates the old expression;
  `doc/ch09_process_blocks.md:157` and the comment at line 4479 promise the opposite. `IntervalSticks` lets a driver's instance have either.
* Reactions after an unnamed driver are handed to the last named binding, while the driver keeps those of the old text; drivers that are
  added are not made; another function of an `on`-block's trigger is ignored; a binding made while the process is paused ticks at once;
  the argument of an instance that a reload makes survives pause and stop; a new binding has no duration; shared reactions of the
  old text that wait for the end of the epoch still run; a binding added above others comes after them in the order of segments.

**Scopes**

* A block pops the top frame at its end when it has nothing temporal (lines 850-851). When it has started a process that stays, that is the other's frame, whose
  callbacks then pin what is put there next, or nothing (`Orphaned`); a block whose only temporal is an each loop has its frame popped while the loop goes on.
* `src/core/evaluator.cpp:843`: `scope_depth` is the top of the stack at the end of the block, which is the frame of another process when the block has started one. The
  segments that a reload replaces pin it (line 4545), and the comment at lines 5015-5016 takes it for the process's own scope.
* The flush resets triggers by a lookup that does not pin (lines 808-812): of two processes that bind the same name, the one above is reset.
* `@`-handlers see the frame on top and not that of their process (line 889, `doc/ch06_control_flow.md:340`); frames of processes started earlier are visible to all.

**Program and modules**

* `osc_close` leaves a repeated send with a pointer to the sender it destroys (`src/modules/osc_module.hpp:333`): `closed` in `Shell`.
* The set-up evaluates without `eval_mutex_` (`src/core/evaluator.cpp:272`, `src/idyl.cpp:234-244`), so that a `cs_note` of the main thread
  (`src/modules/csound_module.hpp:314-389`) and a `cs_close` of a callback (lines 392-407) can overlap, and the pointer be used after the
  instance was destroyed. The comment at lines 82-83 says that a caller must not store the pointer across a potential stop. `UsesAreLive` excepts the instances closed in that time (`exposed`).
* `src/modules/osc_module.hpp:383-390`: `osc_stop` goes through and clears `active_subs_` without the module's mutex; in the set-up it can miss a repeated send that
  the other thread adds, which then nothing stops but the end of the program.
* Without `--listen` the program may end between a callback's unsubscribe and its next subscribe; commands still queued at the exit are
  dropped; a listener whose port cannot be opened ends without a word to the main thread.

**Clocks**

* Two syncs of the same number of beats, one made before and one after a change of tempo, have different periods
  (`doc/ch04_temporal.md:363`); a sync ignores the origin of its own clock's beats; a resume shifts one off the grid.
* A beat literal after a nested call means the main clock (line 1956); a `clock(...)` that is evaluated again makes a new clock; a
  phasor with a period in milliseconds keeps the beats that it had at the tempo of its creation.

**Instances**

* Two calls of one function in a binding read one instance. A call that does not drive ticks at the driver's rate, and its age is not
  time. A call whose instance has ended, or on the side of a ternary not taken at the start, makes an instance in each tick.
* The argument of a call that has stopped itself, or of a driver that has expired, goes on ticking until the stop
  (`doc/ch09_process_blocks.md:81`, `doc/ch04_temporal.md:276`). A function without an init block evaluates an inline argument twice.

**Flows**

* A cursor belongs to a place in the text and not to a flow: with another argument it goes on from where it was. `doc/ch05_flows.md`
  ("a fresh flow is built starting from index 0") and the comment at `src/core/evaluator.hpp:66-69` say otherwise.
* `src/core/evaluator.cpp:5187`: a reload hands positions on by place when a segment has as many places as before, its own and shared ones counted
  together. An edit that makes a reaction shared by two segments into one reaction of each lets both go on from one map, so that they advance each
  other; the comment at lines 1362-1364 says that each index expression owns an independent one.
* Cursors in `on`-blocks survive a stop and a start (line 3622 knows three kinds of statements); those of freed nodes are never erased.
* A cached flow that was built from another flow is not rebuilt when that one is defined again; all flows and instances are equal as
  arguments (`values_equal`, line 3419); an instance in a cached flow has the tag of the process that first built it.
* A number with a fraction indexes by floor when compiled, and as a fraction of the length when walked; compiled code does not resolve
  elements that are instances. Neither is modelled.

**Virtual machine**

* `src/core/evaluator.cpp:240`: `try_compile` never removes a chunk. After `f(x) = x + 1` and then `f(x) = (x & 255) + 100`, `f(1)` is
  still 2; `doc/ch11_architecture.md:362` says that chunks are recompiled. `Fresh` is the condition in the properties.
* Compiled code that calls uncompiled code that calls compiled code: the inner `run()` ends when no frame is left and so continues the
  outer ones, whose caller then gets nil (`Reenters`). A call without all its arguments from uncompiled code reads slots that were not filled (`Omits`).
* A variable of a block expression that has the name of a parameter gets the parameter's slot (`src/vm/compiler.cpp:333-337`), so that what reads the parameter after the block reads
  the variable; the walk pops the block's scope (`src/core/evaluator.cpp:1272-1291`). A default that mentions an earlier parameter is compiled with the slots of the caller
  (`src/vm/compiler.cpp:252`). No text of the run has either; `CallsAgree` is stated for the others.
* A ternary of two options tests truth where the walk takes an index; of more options the compiled form takes the last where the walk
  wraps (`wrapped`); global constants and the defaults of callees are compiled into the caller and stay after a reload.
* A function of no arguments, `f() = expr`, is evaluated once by a reload and becomes a constant (line 5229).

## 6. Not modelled, and why

* More than half of the implementation's lines are generated: `idyl.tab.cc`, `idyl.tab.hh`, `lex.yy.cc` (some 24,400 of 43,300, the
  parser's twice). The grammar, the scanner and the AST types have no behaviour of their own, and the semantic analyzer is one sequential walk
  whose result is printed.
* What statements compute: floating-point values, strings, builtins, the elements of flows and the contents of delay
  buffers. The properties do not depend on them.
* Of flows: members and gates, generators, index by number, instances in elements. Of the machine: `CALL_NATIVE`, unary
  operators, strings. Of instances: update blocks with emits and catches (catches are in `Process`).
* Of hot reload: catch blocks, arguments other than `dt`, statements before the first binding, which run once, and texts that bind a name twice. The deferred
  reactions of an epoch are in `Process` and `Flows`, without and with reload.
* The program's first run executes on the main thread without `eval_mutex_` while the clock thread may already call back: the
  evaluator's tables are then in a data race. `Scheduler`, `AudioClock` and `Shell` have this phase; `Process` starts after it. `Shell` has what the operations of the modules can do to
  each other then, but no torn containers: `active_subs_` is a vector that two threads may change at once, and `cs_open` counts its handles outside `map_mutex_`.
* A block that starts its own process, which `live_processes_` does not show yet: it starts itself until the stack is exhausted.
* What the modules send, the MIDI and serial modules (handles under a mutex, as those of OSC), utilities and `tools/idyl_ascii`: input and output.

## 7. The plan

Done, in the order of importance: `TickSource`, `Scheduler`, `Engine`, `AudioClock`, `Process`, `Segments`,
`Placement`, `HotReload`; then `Scopes`, `Shell`, `Clocks`, `Instances`, `Vm`, `Flows`; the theorems of section 4, on every
module but `Vm` and, by refinement, `TickSource`.

To prove: `LikeRestart` and `CursorsContinue`, once the other texts that the exceptions of section 5 concern - drivers, and what depends on them - are described by a
condition on two texts, as `GoesOn` does for one.

To extend: reactions of a stopped run in `Process` (line 751, now only in `Flows`), the callbacks of instances in flow elements, and a
process as one of none, running, paused, stopped with a set of owned subscriptions as an abstract specification that `Process` implements.
