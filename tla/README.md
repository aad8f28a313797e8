# ArrayScope: a verification project for its execution core

ArrayScope is an interactive viewer of n-dimensional arrays (Python, Qt). Opening a file,
moving a slice or zooming a montage of hundreds of tiles turns into background tasks whose
results reach the screen through several owners: a kernel of worker threads, a completion
queue with two consumers, a pool of worker processes with shared memory, stage and upload
caches, a tile lifecycle and GPU page tables. The hazards are those of a concurrent system:
a completion that arrives after its target changed, work that is parked and never woken, a
slot freed twice. This directory models the parts that carry them in TLA+, checks the models
with TLC and proves their main invariants with TLAPS.

All paths below are relative to the repository, that is `src/`.

## 1. The system and its parts

| Part | Code | State it keeps | Operations | What makes it correct |
|---|---|---|---|---|
| Execution kernel | `arrayscope/kernel/scheduler.py`, `task.py`, `workers.py`, `completions.py` | task records, key index, ready heap, parked lists, dependency waiters, supersession targets, scope epochs, admission counters, completion queue | submit, cancel, clear_scope, rerank, set_lane_quota, note_inline_work, shutdown, pop, execute, finish, dispatch | one terminal completion per task; the latest target wins; limits respected; nothing parked without a reason |
| Completion delivery | `arrayscope/kernel/completions.py` (routed queue), `kernel/qt_bridge.py`, `presentation/owner.py` | two queues, wake flags, session-order lock, owner thread | put/route, drain in bounded batches, yield to the GUI, shutdown | each event is consumed by its own consumer, in order; no lost wake; lock order |
| Compute pool | `arrayscope/kernel/process_backend.py`, `shm_slots.py`, `remote_call.py` | worker processes, idle queue, slot states and owners, control bytes | lease, publish, take, release, reclaim, run, retire, close | one writer per slot; a slot immutable from READY to release; no slot leaks when a process dies |
| Evaluation adapter | `arrayscope/kernel/eval_adapter.py` | generations per replace group, prefetch keys | start, start_latest, start_prefetch, clear_group | latest generation only |
| Stage cache | `arrayscope/operations/stage_cache.py`, `stage_materialization.py`, `stage_segments.py`, `compressed_tier.py`, `core/bounded_cache.py` | resident items and bytes, in-flight computations, published shared-memory segments, compressed tier | get, put, evict, begin/wait/finish compute, publish, release | budgets hold; one computer per key; waiters are woken; published bytes are those of live segments |
| Tile lifecycle | `arrayscope/presentation/tile_lifecycle.py` | a row per tile: target, claims, queued/visible payloads | retarget, admit, stage, acknowledge, drop | a tile is never empty for good, never shows an older target after a newer one |
| Prepared uploads | `arrayscope/presentation/prepared_uploads.py` | content-keyed mailbox, task accounting | plan, submit, publish, take, clear | every planned preparation ends in one way and every published buffer leaves in one; the counters say so at every instant |
| Progressive scheduling | `arrayscope/render/progressive_scheduling.py` | COVERAGE/REFINE phase, shed level | retarget, observe, open_round, release | phase only moves forward within a generation; shedding is released |
| Frame pipeline and ladder | `arrayscope/render/pipeline.py`, `ladder.py` | ready batch, pending admissions | retarget, submit step, rung done/stale/error, flush | every admitted rung is committed or dropped |
| Stage fan-in | `arrayscope/operations/stage_fanin.py` | tiles waiting per stage | merge, activate, release, fail | no tile waits on a stage that is gone |
| GPU residency | `arrayscope/gpu/page_table.py`, `command_protocol.py`, `wgpu_executor.py` | bindings, pins, generations, eviction stamp | bind, unbind, touch, replace_pin_set, rebind_from, evict | slot/key bijection; pinned pages stay; stamps prove residency |
| Mutation clock | `arrayscope/core/mutation_clock.py` | a counter | every container write | no write without a bump |
| Resource governor | `arrayscope/core/resource_governor.py` and the memory policies | budgets | sample, decide | hysteresis |
| Window synchronisation | `arrayscope/sync/bus.py`, `controller.py`, `messages.py` | broker role, connections, revisions | elect, publish, apply, leave | one broker; no echo; newest revision wins |
| Windows, UI, application | `arrayscope/window`, `ui`, `app`, `desktop`, `display`, `export`, `profiles`, `tools`, `wrappers` | Qt widgets | Qt callbacks | |
| File loading | `arrayscope/io` | progressive arrays | chunked reads | |

How they interact. The GUI thread plans a frame (pipeline, ladder, lifecycle) and calls
`Kernel.submit`; worker threads pull tasks under the kernel's lock, run them outside it (in
place, or in a process of the compute pool), and report through `_finish`, which puts a
completion event into the queue while it holds the lock. The consumer, the Qt bridge or, for
montage stage plans, the presentation owner's thread, drains the queue and calls
`Kernel.dispatch_event`, which classifies the event once more and calls the task's handlers
outside the lock. Handlers write caches and the lifecycle and submit further tasks.

Which behaviours are hard, with the line where each one bites and the property that covers it,
is the `hazards` list of `PROJECT.json`. Disagreements of code and docs that are neither a run nor
listed there are told in the section of their module.

## 2. Plan

Order of work, the most important behaviour first.

1. **Kernel** (done, section 3): `TaskLedger`, `Kernel`, `KernelProps`, `MCKernel`,
   `KernelProofs`, `KernelStaleness`.
2. **Compute pool** (done, section 4): `SlotPool`, `ComputePool`, `PoolProps`, `MCPool`,
   `PoolProofs`, with worker processes that die at any step.
3. **Stage cache** (done, section 5): `StageSegments`, `StageCache`, `StageProps`, `MCStage`,
   `StageProofs`: singleflight, eviction and publication of segments. The compressed tier is
   left.
4. **Delivery** (done, section 6): `Mailboxes`, `Delivery`, `DeliveryProps`, `MCDelivery`,
   `DeliveryProofs`: routed queues, bridge and owner over two locks, and the closing of the window.
5. **Window synchronisation** (done, section 7): `SyncBus`, `WindowSync`, `SyncProps`, `MCSync`,
   `SyncProofs`: election, relaying, echo, revisions, crashes.
6. **GPU residency** (done, section 8): `PageTable`, `Residency`, `ResidencyProps`,
   `TiledCommits`, `CommitProps`, `MCResidency`, `ResidencyProofs`: layers, pins and the shader's
   table, driven by the commits of the tiled display.
7. **Tile lifecycle and pipeline**, on top of the ledger of the kernel (`TaskLedger`): no tile
   shows an older target after a newer one, every admitted rung is committed or dropped.
8. **Prepared uploads** (done, section 9): `PreparedUploads`, `UploadsProps`, `MCUploads`,
   `UploadsProofs`: the preparations' life and the mailbox, over the kernel's ledger.
9. **Progressive scheduling**, **evaluation adapter**, **stage fan-in**.

`PreparedUploads` stands on `TaskLedger`, which `Kernel` implements; both sides are proved
(`KernelImplementsLedger`, `ReliesOnLedger`).
`SlotPool`, `StageSegments`, `SyncBus` and `PageTable` hold state that several actors share and are
extended by the modules of those actors. `TaskLedger` and `Mailboxes` are abstract specifications:
what the layers above rely on is a ledger of terminal completions, each of which is delivered once,
in order, to its own consumer. `Residency` is specified twice: under any caller (`Spec`, which the
executor's proofs are about) and under the display (`CommitsSpec`, which the run checks and which is
proved to implement it).

## 3. Kernel

`Kernel.tla` has one action per critical section of `scheduler.py`. A task instance is its
sequence number `i`; `state[i]`, `spec[i]`, `token[i]`, `superseded[i]`, `unmet[i]` and `snap[i]`
are the fields of its `_Record`. The heap, the parked list and `_dep_waiters` are indexes over the
records in the code and are derived here (`Queued`, `ParkedDeps`, `Dependents`).

| Action | Code |
|---|---|
| `Submit(s)` | `Kernel.submit` with `_advance_supersession_locked` and `_supersede_instance_locked` |
| `CancelHandle(i)` | `TaskHandle.cancel`, `_cancel_seq` |
| `ClearScope(c)` | `clear_scope`, `_purge_completed_locked` |
| `Rerank`, `SetLaneQuota`, `InlineWork`, `Shutdown` | the methods of these names |
| `PopDiscard`, `PopPark`, `PopTake` | one iteration each of the loop of `_pop_ready_locked` |
| `Execute(i)`, `Finish(i, report)` | `_execute` up to the token check; `_finish` |
| `Dispatch(i)` | `CompletionQueue.pop` and `dispatch_event` |

Every critical section is atomic: it holds the kernel's lock. Only the pop loop is cut into
steps, with `popping` true while it holds the lock. Removals cascade in the code
(`_drop_record_locked` per record); `Discard(D, o)` does them at once for a set `D`. Events put in
one critical section form one set of the queue, from which `Dispatch` takes any: the order inside a
section follows the iteration order of Python sets and dictionaries, and no property depends on it.

### Bounds

`MaxSeq` submissions, `MaxClears` scope clears and `Workload[i]` (what may be submitted i-th)
bound the state space. Three or four tasks are enough for the cases that matter: a chain of two
dependencies and a resubmission; a target that moves while its predecessor runs; a visible task,
a speculative one and a third that meets the quota. `Endings` names what task functions do.
Deadlines have no clock: an optional task with a deadline may be found late at any pop, or in
time. The runs switch deadlock checking off because a kernel whose submissions are used up has
nothing left to do.

### Runs

| Run | Question |
|---|---|
| `kernel_targets` | supersession, resubmission, clears, reranking, lane hints and cancels against running tasks and undelivered completions: one terminal completion each, results that satisfy dependencies are fresh, cancellation of stale running ones, no overtaking, the latest target wins |
| `kernel_live` | admission, dependencies and liveness: limits hold, nothing is parked without a reason, dependencies complete first, the kernel implements the ledger, every admitted task is told while the window is open; a chain whose dependencies may fail, a key noted as done inline beside it, a superseded target, a task with a deadline, a quota that comes and goes, a shutdown |
| `kernel_drop_strands` | a violation: the statement of a docstring that the code does not keep (see Findings) |

In `kernel_live` callers look a dependency up before they name it (`LookUpDeps`), as the callers in
`window/frame_effects.py` do, and nobody cancels or clears a dependency: without that restriction
liveness fails in the ways the findings describe. Nothing depends on the key that is noted inline in
this run, and `MaxClears` is 0: that a dependency done inline, or one that is cleared and completes
again, keeps the order is not exercised here but proved (`DependenciesFirst`). The shutdown is in this
run and not in `kernel_targets`, so `ImplementsLedger` is what checks that it tells each task once.

### Fairness

`FairSpec` assumes weak fairness of the worker's pop (threads poll at least every 0.1 s,
`scheduler.py:626`), strong fairness of a worker's steps on its task (`Execute`, then `Finish`) and of `Dispatch`: each needs the
kernel's lock, which other threads take and release for ever, so the action is not continuously
enabled; a thread that waits for a lock gets it in the end. It also assumes that task functions
end, which the code leaves to them. `Dispatch` is fair only while the window is open.

### Findings

* `kernel_drop_strands`: dropping a queued dependency does not drop the records parked on it,
  though `task.py:107` says that a dropped dependency drops the dependent. The run clears the scope
  of a dependency and finds its dependent, of another scope, parked with nothing to wake it.

Three more disagreements, met while modelling, have no run of their own: a task submitted on a key that has already failed is parked for good; an instance that has
finished but is not dispatched when its key is submitted again is told as completed; a key whose
newest instance failed keeps satisfying dependencies with the older result.

### Proofs

`KernelProofs` proves, for all constants that satisfy the assumptions of `Kernel.tla`:
`TypeCorrect` (`TypeInv`, the type invariant with `Admitted`, is inductive: an unadmitted record
has no spec, so the type of `spec[i].lane` needs `Admitted`), `NoLostWakeup` (`ParkedForAReason` is
inductive relative to `TypeInv`: counters that admission reads only fall in steps that release
every quota-parked record or leave a visible backlog), and `ExactlyOneCompletion`
(`OneTerminalCompletion` is inductive relative to `TypeInv`; `DiscardOneTerminal` and `Deliver` are
the two ways an event is put).

`KernelImplementsLedger` is the refinement: `StepMoves` says that a step moves each task along its
life line or not at all (one lemma for each kind of action), `MovesLive` that such a move is a step of
`TaskLedger`; it rests on `TypeInv` and on `ExactlyOneCompletion`, without which a told task could be
told again. `DependenciesFirst` carries `DepsAreDone`: a listed key and a dependency no longer unmet
stand for a task that completed or for work noted inline, and that never stops being so.
`LimitsHold` and `NothingOvertakes` are about the records, not the counters: `Counts` says that
`_queued_visible`, `_running_visible`, `_running_optional` and `_running_by_lane` are the numbers of
records they stand for (so the `max(0, ...)` of the code never clips), hence `BlockedIsReal`. What
starts is the head of the heap (`OnlyHeadsStart`), the heap order is an order (`NotBothAhead`), and
a task parked by a quota is parked for a reason that holds (`NoLostWakeup`).

`KernelStaleness` proves `KeyIndexHolds`, `NothingStaleWaits`, `StalenessReachesRunning` and
`LatestTargetWins`. None of the first three is inductive alone: a submission compares its value
with the family's target and finds the previous instance through `_by_key`, so the index, the marks
of unadmitted records and the fact that `_supersession` holds each family's newest value are carried
together in `Currency`. `LatestTargetWins` is an action property: only `Dispatch` tells, and it
tells "completed" only of a task that is not off target. `ClearedResultsAreGone` proves
`CompletedIsFresh`: a task whose scope was cleared while it ran finishes stale, and a clear purges
exactly the results whose scope lies below it.

Proved and not checked again by a run: `TypeInv` and `UnstartedAreCurrent` (`NothingStaleWaits`).

Only model-checked: liveness (`EventuallyTold`). Every safety property of the kernel is proved.

### Left out

Lane statistics, tracing, timing, handlers' own work, the inline backend of the tests and
`_release_wake_pending` (workers poll), `wait_idle`. A body's value is never `None`.


## 4. Compute pool

`ComputePool.tla` models `run()` of `process_backend.py` in the kernel's worker threads and
`_worker_main` in the worker processes; `SlotPool.tla` is `shm_slots.py`: states, owners and bytes of
the slots and the cursor each process searches from. Everything a thread and a process share is a
variable: the idle queue, the two pipes of each worker, the cancellation byte of each worker, the
slots. An action is what one of them does between two steps the others can see. A payload is the
sequence of slots its large arrays went to; the bytes in a slot are abstracted to who wrote them
(`<<job, "request">>` or `<<job, "result">>`).

What was published and what the message names are two things. When the `__post_init__` of a dataclass
rejects a descriptor, `_replace_or_original` (`shm_slots.py:354-362`) returns the dataclass as it was:
it is pickled whole, and slots that have been leased, filled and published by then are named nowhere.
`wrap[p].made` is what was published, `wrap[p].said` what the payload names, and `WrapReject` cuts the
latter back by any number of the arrays wrapped last, which covers a rejecting dataclass at any depth.

| Action | Code |
|---|---|
| `StartRun`, `Acquire`, `AcquireRefused` | `run`, `_acquire` |
| `WrapLease`, `WrapFallback`, `WrapOversize`, `WrapWrite`, `WrapPublish`, `WrapReject`, `WrapRaises` | `wrap_payload` with `lease` and `publish`, array by array, in the thread and in the process |
| `Send`, `SendBroken`, `SendUnpicklable`, `LocalDone` | the send in `run` and its except clauses |
| `Cancel`, `PassCancel` | the task's token; the polling loop that copies it into the control byte |
| `Receive`, `NoticeDeath`, `NoticeClosed` | `_await_reply` |
| `RetireKill`, `RetireReclaim`, `RetireRespawn`, `RetireLoses` | `_retire` |
| `ReleaseLease`, `Leave`, `GiveBack` | the finally clause and the return of the worker to the queue |
| `TakeValue`, `TakeRaises`, `ReleaseValue`, `Return` | `_value`, `unwrap_payload`, `take`, `release` |
| `ChildReceive` ... `ChildSend`, `ChildStop` | `_worker_main` |
| `Die` | a process ends by itself, at any step |
| `Close`, `CloseWorker`, `Unmap` | `close` |

`MayCancel`, `PickleMayFail`, `SpawnMayFail` and `MayClose` say which of these can happen in an
instance. `SpawnMayFail` is FALSE in every run: when a replacement cannot be started, `_retire`
leaves the queue one worker short, and once none is left `_acquire` waits until the pool closes, so
`CallsReturn` would not hold.

### Runs and bounds

| Run | Instance | Question |
|---|---|---|
| `pool_calm` | 2 threads, 2 workers, 2 slots, 3 jobs, no death | the slot protocol: one writer, bytes that stay while they are read, results that can be taken; requests that do not pickle, slots that run out, children that raise |
| `pool_deaths` | 2 threads, 1 worker, 1 slot, 2 jobs, 1 death, cancellation, close at any time | a worker is in one place, answers and cancellations reach their own call, slots come back but for those a child published without naming them, every call returns |
| `pool_two_writers` | as `pool_calm` with 1 death | a violation (see Findings) |

One worker is the hard case for answers, since both threads use it in turn and any remnant of a call
meets the next one; two workers are the hard case for slots, which they share. A job more than there
are slots lets a slot be used again after a reclaim. With more deaths the protocol repeats: a replaced
worker starts as the first one did. Threads are interchangeable (`Symmetry`) in the runs without
liveness. Slots are not: the search for a free one goes round from a cursor.

`FairSpec` assumes weak fairness of each thread's and each process's steps: they are scheduled, and
entry functions end. A step in `run` stays enabled until it is taken (the idle queue and the pipes are
polled with a time-out), except that `_acquire` may find the queue empty each time another thread was
faster; every job is bounded, so it is not starved in the instance, as it is not in a program whose
threads go idle. Nothing forces a death, a close or a cancellation.

### Findings

* `pool_two_writers`: `run` releases in its finally clause the leases its own `_retire` has already
  reclaimed. Another thread may have leased the slot in between, and loses it while it writes.

One more has no run of its own: `run` puts the worker back before it takes
the reply's slots, which are still tagged with the worker's index. If the next call of that worker
dies, `_retire` frees them (`process_backend.py:286`), and `DescriptorsIntact` does not hold.

Both need a death; this is why `pool_calm` checks the slot properties without one and
`pool_deaths` checks the others. `NoSlotLost` says itself where it stops: after a death it promises
nothing for payloads of several large arrays, because when such a reclaim or release keeps one slot
of a reply from being taken, the others stay as they are until their worker is retired
(`pool_two_writers` with `MaxArrays = 2` and `MaxJobs = 2` reaches such a state in 29 steps).

A slot can be lost without any death. A child drops its leases when it has wrapped its result
(`result, _ = wrap_payload(...)`, `process_backend.py:184`), because the reply names the slots and the
parent frees them; a slot the reply does not name, after a dataclass has rejected its descriptor, stays
READY under the worker's index, and comes back only when that worker is retired and `reclaim` finds
it. The history variable `stranded` collects these slots per worker, and `NoSlotLost` says exactly
this much: at rest every slot is free, or it is READY, was stranded by a worker and is still tagged as
its own. The parent's own requests strand nothing, for the finally clause of `run` releases what was
leased, named or not. With enough such results a long session runs on pickled arrays only.

### Proofs

`PoolProofs` proves `OneHolder` (`WorkerInOnePlace` for any numbers of threads, workers, slots and
deaths). The inductive invariant `PlaceInv` adds to it where in `run` a thread holds a worker at all:
a thread that retires still holds the index until the replacement is queued, and one whose
request did not pickle has let go of it. Three lemmas, `HandOut`, `HandBack` and `HandDropped`, say
what taking a worker from the head of the queue, putting one at its end and dropping one do to the
invariant, and `HandsStill` covers the steps that touch neither; each action cites one of them.

`AnswersReachTheirCall` proves `RepliesAreOwn`, again with any number of deaths, with processes that
cannot be started and with a pool that closes at any time. `RepliesAreOwn` speaks of sets of calls and
is not inductive; `TalkInv` says why it holds. A worker in the queue is `Quiet`: it has no message,
no job and no answer. A worker in a thread's hands has at most that thread's call, at one point of
its way only (`OnlyCall`: told, worked on or answered), it is quiet again whenever the thread is
neither waiting for it nor retiring it, and while it waits the cancellation byte, the child's verdict
and the answers in the pipe say "cancelled" only if the thread's token does (`Honest`). One lemma
(`WorkerTalk`) shows that every step of a child, its death included, moves its call along that way or
ends it; the others (`ThreadTalk`, `OthersTalk`, `CloseTalk`) carry that to the threads. It rests on
the types of every variable (`TypesInv`), proved first.

The slots are proved for as long as the pool is calm, `Calm == deaths = 0 /\ ~closed`, whatever the
constants: `OneWriterWhileCalm`, `DescriptorsKeptWhileCalm` and `SlotsComeBackWhileCalm` state
`[](Calm => OneWriter)`, `[](Calm => DescriptorsIntact)` and `[](Calm => NoSlotLost)`. The condition
is the one the code needs, as the findings show: the first process that dies ends it. The inductive
invariant `CalmInv` gives every party its `Stake`: the slot it fills, those it has published, those it
has leased to a call, those of an answer on its way or not yet read. `SlotsOwned` says that the
stakes are disjoint and that the slots that are not free are exactly theirs; each slot of a stake has
the state and the bytes its place asks for (`WrapSound`, `ReplySound`, `RequestSound`, `AnswerSound`);
and a worker with anything under way is awaited by the thread of that call (`Employed`), which is what
keeps a request's slots leased while the child reads them. `OwnSlots` is the step they share: who
takes free slots and frees its own disturbs nobody. A stranded slot is in nobody's hands but is not
free either, so it belongs to the stake of the worker that published it, for good (`StraysSound`: it is
READY, carries the worker's tag, and no message, reply or thread names it); `SlotsComeBackWhileCalm`
says that at rest these are the only slots still in use. `CalmNever` and `WrapFrame` show that in a calm
pool no copy, take or retirement ever fails. TLC checked `TalkInv` and `CalmInv` on instances of the
size of the runs, and larger, before they were proved.

Only model-checked: `NoSlotLost` after a death (with payloads of one array, where each thread's
leases and the reclaimed slots overlap in ways `CalmInv` excludes), and `CallsReturn`, a liveness
property.

### Left out

The counter of arrays that were pickled for want of a slot; the reference count of windows (one
`close` stands for the last one); a process that is killed inside the critical section of the state
array, whose semaphore nobody would release; the start method of the processes.

## 5. Stage cache

`StageCache.tla` models the caches of stages, one for each window (`stage_cache.py`,
`core/bounded_cache.py`), and the worker threads that go through `claim_or_reuse_stage`, the
computation and its storing (`slabs.py`, `stage_materialization.py`); `StageSegments.tla` is the
registry of published segments (`stage_segments.py`), which all caches of the process share. A value
is its key and the number of the call that computed it, so two computations of one key are told
apart; its bytes are a set of pages, so that sizes add up as the sizes of disjoint sets. A weak
reference dies when nothing refers to the value (`Referenced`), and its callback releases the
segment: `Settle` does both in the step that drops the last reference, as CPython does.

| Action | Code |
|---|---|
| `StartCall`, `Hit`, `Miss` | `claim_or_reuse_stage`, `get`, `get_containing` |
| `BeginCompute`, `BeginRefused` | `begin_compute` |
| `Attach`, `AttachGone`, `Reuse`, `Retry`, `GiveUp` | `wait_for_compute` and the loop round it |
| `Compute`, `ComputeRaises` | the computation, outside the locks |
| `Put`, `PutRefused` | `put` with `_evict`, `_on_evict` and the residency test of publication |
| `Reserve`, `ReserveRefused`, `Register`, `CopyRaises` | `publish_stage_value`: budget check and creation of the segment, either of which may refuse; copy, which may raise; registration |
| `FinishPop`, `FinishTell` | `finish_compute`: the entry is popped under the lock, its event set after it |
| `Leave` | the tile is cut out and the value let go |
| `Resize`, `Clear`, `CloseWindow` | the GUI thread: memory policy, a new document, a window that goes |

### Runs and bounds

`stage_cache` has one window, two threads, three calls, a stage of size 2 and a part of it of size 1
that the whole one answers for, and a budget that is 3 (both fit) or 1 (only the part does). Two
threads make a computer and a waiter; the third call comes after a time-out, a failure or an eviction
and meets what it left. Sizes are chosen so that a put evicts one entry, several or itself. Waiters
give up, computations fail, segments cannot be created, copies raise, documents change, the budget is
resized and the window closes at any moment. The run
checks claims, budgets, ownership and bytes of segments, and that every call ends.

`FairSpec` is weak fairness of each thread's steps taken together: what others do may change which
step comes next (`Hit` or `Miss`, `BeginCompute` or `BeginRefused`), but one stays enabled until
it is taken, save while the thread waits for an entry. Nothing is assumed of time-outs: waiters
get out because computers finish, and `GiveUp` is not among the fair steps.

### What does not hold

Two disagreements (hazards in `PROJECT.json`) have no run of their own.

* A publication under a key that is taken unlinks the older segment without taking its bytes off
  `_published_bytes` (`stage_segments.py:197`). With two windows over one document the count grows
  until the budget check refuses every publication, with nothing published. `SegmentsWithinBudget`
  states what holds: the count is never below the bytes there are.
* The residency test runs under the cache's lock and the publication after it, so a value evicted in
  between gets a segment afterwards, which lives until the last reference to the value goes; the
  docstring of `_on_evict` (`stage_cache.py:155`) says "published bytes can never outlive cached
  bytes". In the model this is why `SegmentsAreOwned` speaks of living values, not of resident ones.

### Proofs

`StageProofs` proves, for any windows, threads, keys, sizes, budgets and number of calls, the type
invariant and the four invariants the run checks. They stand on four inductive invariants:

* `WellFormed`: the types except that of the byte count, that a thread outside carries nothing, and
  which places carry a value, a claim or an entry. `CacheHolds` needs no more: `Put` and `Resize`
  end with what fits.
* `ClaimsInv` (`ClaimsHold`): the table of claims is the set of values the claimants are to give,
  and claimants of a window have different keys. The two directions need each other: that
  `BeginCompute` finds no entry for its key means that nobody computes it only if every computer has its
  entry.
* `SegmentsInv` (`SegmentsHold`): the registry has one entry for a key, calls have distinct
  numbers, and the value a thread carries before it registers it is new to everybody else. The latter is
  needed for `Register`: without it the registered segment might be one that was just released.
* `BytesInv` (`BytesHold`, `StageTypes`): pages are finite sets, the count covers the pages of all
  segments and stays within a budget. `SettleBytes` is the step lemma: what a release takes off the
  count is what it takes off the segments. A copy that raises gives back exactly what its reservation
  took (`BytesOfLess`), because its segment is still there, owned by the thread. That the count is never negative, which is part of
  `TypeOK`, follows from this and from nothing weaker.

Only model-checked: `CallsEnd`.

### Left out

The compressed tier (off by default), the materialization manager's request table, the worker
processes that attach to segments, the order of retention (any entry may be evicted first), limits
on the number of entries, statistics.

## 6. Delivery

`Delivery.tla` follows a completion from the critical section that ends its task to its handler.
Whoever holds the kernel's lock appends it to one of two queues and then tells the consumer: the GUI
thread by a queued signal, the presentation owner by an `Event`. Both consumers run handlers under the
session-order lock, and handlers call the kernel again, so the two locks nest in one order only. An
action is what a thread does between two places where another one can be seen: lock operations,
appends, tests of flags and queues. A critical section of the kernel that puts events is cut into
`Put`, `Tell` and `Leave`; the others are a step, with `kernelLock = "nobody"` in the guard of every
action that needs the lock. `Mailboxes.tla` is what delivery promises: a mailbox for each consumer,
read in order, each completion once; only a consumer that stops throws some away.

| Action | Code |
|---|---|
| `Submit`, `Put`, `Tell`, `Leave` | the kernel's sections, `RoutedCompletionQueue.put`, the owner's wake, the bridge's notify |
| `DrainStart`, `DrainPop`, `GuiAcquire`, `GuiDispatch`, `GuiRelease` | `QtKernelBridge._drain` |
| `DrainNote`, `DrainRearm`, `FireWaiters`, `Reconcile`, `Arm` | `_note_kernel_completion_drain` in `window/main.py`, the fallback timer, the capacity waiters, `_reconcile_after_routed_dispatch` |
| `SectionStart`, `NestAnnounce`, `NestEnter`, `NestLeave` | `timed_order_lock` round session sections, which nest |
| `OwnerWait` ... `OwnerRelease`, `OwnerHook`, `OwnerExit` | `PresentationOwner._run`, `_drain`, `_dispatch`, `_drop_pending` |
| `OwnerTurn`, `OwnerYield` | `_yield_to_gui` |
| `CloseStart`, `CloseWake`, `CloseJoin` | `closeEvent`: `owner.shutdown`, then `bridge.close` |

`Reconcile` follows the composition in `main.py`: the owner's hook emits `routedEventsDispatched`, and
the slot it is connected to reconciles. The docstring of `after_dispatch` (`owner.py:173-181`) tells of an earlier
form, an emission of `eventsReady` after which an empty drain runs "exactly those reconciliations";
`main.py:207-210` says why that is not what is done ("an empty drain skips both").

What handlers do is abstracted to what delivery can see of it: they submit, put, call sections and
arm waiters. A waiter is armed only while something is undispatched, as its caller does
(`render_prefetch.py:60`).

The run `delivery` has two routed and two direct completions, so that each consumer finds a second
event while it handles the first; a drain takes one event at a time (`MaxEvents = 1`), so that a
backlog remains after every drain, and the owner's patience is one poll (`MaxChecks = 1`), so that it
also runs out. `Fairness`: both threads run, a worker delivers what it owes, the event loop serves
what is posted; `GuiRelease`, `DrainStart` and `OwnerAcquire` are strongly fair, since the choice
between going on and leaving, between signals and other events, and the order lock are each offered
again and again. Sections of the user (`SectionStart`, `NestAnnounce`), `Arm` and `CloseStart` are not
fair.

`DeliveryProofs` proves for any tasks, routes, waiters and bounds: the types with `Places` (where a
thread is tells whether it has an event in hand and which lock it holds), `NobodySleepsOnWork`,
`TurnIsGiven` (with `Alternates`: after the owner was admitted past an announced section it
is on the way to its stand-aside, or the section is admitted), `QuietIsReconciled` (`StaleOwed` and
`WaitersOwed`, one step lemma per action that dispatches or reconciles), and that `Delivery` implements
`Mailboxes`: an append is a `Post`, a dispatch a `Take`, a drop a `Discard`; taking an event into the
hand is a stutter, because the mailbox is the hand followed by the queue. Only model-checked:
`EventuallyDispatched`.

Left out: what bodies do to the session, statistics, tracing, exceptions in bodies (logged, and the
drain goes on), the window that is closed while it has never had an owner.

## 7. Window synchronisation

Windows of different processes link a facet (view, levels, slice). `SyncBus.tla` is the transport
(`sync/bus.py`): the first process to bind the socket is the broker and relays, the others are
clients; `WindowSync.tla` adds the controllers (`sync/controller.py`) on one facet. Connections are
reliable and ordered, as local sockets are, until a side closes; what was written before the close is
still read. A value is `<<author, number>>`, so that "whose edit is this" can be asked of every message.

| Action | Code |
|---|---|
| `Connect`, `Listen`, `RemoveServer`, `Relisten`, `RetryStart` | `start` with `_connect_as_client` and `_listen_as_broker`, `_retry_start` |
| `Stop`, `Crash`, `ClientGone`, `PeerGone`, `Accept` | `stop`, the end of a process, `_on_client_disconnected`, `_on_peer_disconnected`, `_on_new_peer` |
| `Join`, `Leave`, `Edit`, `Revert` | `set_facet_enabled`, a user's change, `_apply_display_level_override(emit_user=True)` |
| `PublishTimer`, `LateCallback` | the publish timer; callbacks that an applied state sets off after its end |
| `BrokerReceive`, `ClientReceive` | `_on_peer_ready_read` with `_relay`, `_on_client_ready_read`, both with `_on_message` |

The environment is what users and machines do: a person takes longer to switch a facet off and on than
the publish timer and the callbacks of an apply do, and a window's edits matter once it has taken part.
Any number of processes may be in `start()` at once, at any of its steps. *What does not hold*: one
broker, unconditionally. Two windows that start together, or two survivors, both fail to connect; the
first binds the socket; the second finds the path taken, removes it ("Connecting already failed, so it
is safe to remove and retry once", `bus.py:160-162`) and binds its own. The two groups never hear each
other, and the broker that was overtaken removes the other's socket when it stops. The code makes this
unlikely by a jitter and does not exclude it. TLC reaches two brokers in nine states, with two
windows. The history variable `overtaken` records the one step that can lead there: a window binds
the path while another, whose connection had failed before, has still to listen on it or to remove
what it finds (`Overtakes`). `OneBroker` and `LinkedWindowsAgree` speak of what happens until then, so what
they say is that this is the *only* way to two brokers; other starts may overlap as they like.
`NoEcho` and `NobodyIsLeftOut` need no such condition: a group that was split is still two groups whose
windows are all reached.

The run `sync` has three processes, the least with a relay; every joining is one of `MaxJoins = 3`,
with one edit, one revert of an automatic window and one window that leaves, crashes or applies with
late callbacks. Windows are interchangeable. `sync_ignored_edit` needs two. No fairness is assumed:
`NobodyIsLeftOut` speaks of the states in which the program has come to rest (`AtRest`), which is what
an unbounded wait would look like. `AtRest` lists what a window can wait for (`Waits`) because the
provers do not take ENABLED; TLC found it equal to "no step of the program is enabled" in every state
of the run.

*Finding* `sync_ignored_edit`: a window whose request was never answered and whose user then reverts
its levels waits for an answer to ignore, and ignores the first edit of the peer that joins later.
`LinkedWindowsAgree` states what holds otherwise: after an edit in a group at rest has gone
round, all show it. A group is at rest (`Settled`) when nothing is on its way, no timer runs and no
callback of an apply is still to come. The last part is needed: TLC finds, with two edits and two windows
that apply with late callbacks, that a callback which comes after another window's edit has gone round
publishes what its own user did while it was still connecting.

`SyncProofs` proves, for any windows, bounds and callbacks: the types, `NoEcho`,
`DropsOnlyDuplicates` (which no run checks again), `NobodyIsLeftOut`, `OneBroker` and
`LinkedWindowsAgree`, without any assumption on how starts interleave. Their invariants:

* `Steady` in `Typed`: a window with an armed timer or a late callback shows its own user's value or one
  it knows to be known; this is why a late callback does not echo. `Web`: who is at the ends of a
  connection. `Shape` says once for all actions what a step of a window may change and send.
* `Names`: a name `<<origin, revision>>` is given to one payload, revisions only grow.
* `Elections`, until a start overtakes another: a broker owns the path, and nobody who found no server
  is still to listen or to remove while there is one.
* `Linked`, for `NobodyIsLeftOut`: a facet that is on and not in `start()` has a bus that is not
  stopped; a client has its connection, and just one; a connection that its server has not let go belongs
  to a broker; a publication is owed only where there are no peers. So whoever is not reached is in
  `start()`, retries, or has a closed socket to read: each is a reason not to be at rest.
* `Dated` and `Rounds`, for `LinkedWindowsAgree`. `Dated`: every value under way or shown is one made so
  far, so an edit shows what nobody has seen. `Rounds`: while the group is calm it is in one round about
  one value `a`. `Same`: all show `a` and nothing else is under way. `Drafted`: one window shows `a`,
  its timer runs and nothing is under way. `Spread`: `a` is under way to everyone who does not show it,
  directly or through the broker. `Joining`: a window is about to ask, has asked, or is being answered with
  `a` by those who all show it. An act in a settled group begins a round; every step of the
  program keeps it or moves it on to the next; a settled round is `Same`. `Names` is used where a client
  drops what it knows, `Elections` where a window starts, `Linked` where the broker relays. TLC found
  `Rounds` true in every state of the run before it was proved.

Left out: several facets (they share the bus and nothing else), malformed messages, the encoding.

## 8. GPU residency

`PageTable.tla` is `gpu/page_table.py`: which page is in which layer, who pins it, in which order
pages were used, two counters. `Residency.tla` is the part of `gpu/wgpu_executor.py` that decides
where pages live: a submission is a list of commands, and each runs in the phases its code has (look
up, make room, reduce, bind, shield), of which each may raise. `TiledCommits.tla` is the display
(`display/wgpu_imageview2d.py`) that plans those commands and acknowledges tiles afterwards.

| Action | Code |
|---|---|
| `Pins`, `Capacity` | `replace_resident_pin_set` with its memo, `ensure_pool_budgets`, `ensure_raw_pool_capacity` |
| `Open`, `Close` | `submit` with the shield of the histograms, its finally clause |
| `BindPlanes` | `_bind_planes`: extend, patch or build anew |
| `EnsureCold`, `GenerateCold`, `AlreadyThere`, `Refused` | the handlers of `EnsureChunkResident` and `GenerateLodPages` |
| `Grow`, `EvictOldest`, `YieldShield`, `Exhausted`, `TakeLayer` | `_ensure_free_pool_layer`, `_grow_pool`, `_evict_one_unpinned` |
| `Reduce`, `ReduceFails`, `BindPage`, `Shield`, `EvictChunk`, `Histogram` | the rest of the handlers |
| `CommitWhole`, `CommitDelta`, `CommitMapping`, `FinishCommit`, `Failed` | `_apply_backend_tiled_presentation` and `_finish_wgpu_tiled_presentation` with the cached answer of the predecessor, `_apply_wgpu_mapping_only_tiled_presentation` |
| `WarmAtomic`, `WarmAhead`, `HideTiles`, `HideAll`, `Reset` and their ends | `warmTiledResidency`, the two `hide_..._presentation`, `reset_tiled_residency` |

`batch` is what the present callback has still to do: the GUI thread runs one callback at a time, so
a callback is a sequence of commands, and an exception cuts it off after the finally clause.

### Bounds and abstractions

The run `residency` has two tiles over two planes, two cells (a native one and a coarse one that is
reduced from it), a texture of at most three layers and one pool. Four pages and three layers make
room short; two tiles make a delta, with one tile kept. At most three commits or warm-ups, two of them
warm-ups (`MaxCommits`, `MaxWarms`, `MaxCalls`). The memory policy keeps 2 layers (`Policy`). Constants
of the code are scaled with it: `InitialLayers` 8 to 1, `Headroom` 8 to 0, `PatchShare` 4 to 2, so that
growth, eviction and patching all happen with three layers.

Which level of detail is chosen is left open (`Offered`). `write_texture` is taken not to raise (the
code validates first); if it did, a layer would be lost. The executor
exists from the start with one layer per pool. The free layer taken is the smallest instead of the one
freed last: no property depends on which. The display's pyramids have two levels, native cells and those
reduced from them: `_wgpu_plan_lod_page_generation` also plans the reduction of a missing child, down
to native pages, and `Reducible` and `Frontier` do not. The executor's theorems hold for any pyramid,
the display's for the plans of this model. `AlreadyThere` is a step of the executor the display never
takes, which `NothingIsUploadedTwice` says; it is covered by the executor's proofs and is not among the
steps of `CommitsNext`.

### Proofs

`ResidencyProofs` is first about `Residency!Spec`: the executor under any caller whose submissions do
not nest. The invariants:

* `Types`: with `OrderOK` (the order of use is the resident pages, each once) and `PhaseOK` (which
  command may be in which phase with what in hand).
* `PinInv`: pins are those of the owners, `LodPins` and `Submission` say when a protection may exist:
  a shield is there only while a "close" is still to come, whatever raises. `ShieldCovers`: what is
  wanted and resident is shielded, but for the page just bound. `ProtectionHolds` follows.
* `LayerInv`: free layers, the layer in hand and the layers of pages partition each texture (`Placed`).
* `FlatHolds`: each of the ways the table is kept (patch, extension, rebuilding, bind, evict)
  gives the table a rebuilding would give.
* `MemoHolds`: the memo answers only when a derivation would pin the same pages.

Then it is about the display, `CommitsSpec`, which is proved to be such a caller
(`DisplayIsACaller`: what it plans, in whatever state, are commands the executor knows, and a
submission is closed before the callback returns). So the executor's theorems hold under it
(`DisplayKeepsResidency`), and three more of its own, for any tiles, cells and offers:
`DeltaWalkHolds`, `AcknowledgedHolds`, `NothingTwiceHolds`. `DisplayInv` adds `ViewInv` to the
executor's `Types`, `PinInv` and `MemoInv`:

* `BatchInv`: what is left of the running callback is the tail of a program. Every replacement of the
  bound pins keeps those of what is acknowledged, but for the last one of a commit, after its uploads,
  and a commit that reaches its return has its own resident pages pinned (`CommitTail`).
* `Acknowledged`: outside a return, a tile acknowledged has its pages resident and pinned as bound.
  A delta pins its predecessor before it makes room, an atomic commit and a warm-up leave its pins
  alone, any other commit acknowledges nothing until it returns. The `capacity` and `evict` commands
  take no page that is pinned (`PinInv`), and `replace_resident_pin_set` pins what it is told to
  although the memo may answer for it (`MemoInv`).
* `CacheInv`: a cached answer was a look at every page when it was given, and still is for the record
  that has its serial as long as the eviction stamp has not moved: a bind can only add tiles, and a
  tile the predecessor could not present is looked at again. Without the equality of serials the
  answer would be about other tiles.
* `MapInv`: while the signature is the page table's generation, no page was bound or lost since the
  record was acknowledged, which is what `CommitMapping` relies on.
* `UploadInv`: what is still to be uploaded is not resident, and no page is named twice. A plan names
  the missing pages in the order they are met (`Ordered`, `Missing`, existence and uniqueness of the
  order proved from the order of cells), and no step of the executor between binds a page that the
  plan names later (`StepMoves`).

`ViewInv` was checked by TLC on the run's instance before it was proved.

Left out: drawing, tile instances, the preview atlas, readback, a commit without committed page keys
(no caller reaches it), the codec's choice of pool (left open; one pool in the run).

## 9. Prepared uploads

Packing a tile into the array a backend uploads is done ahead of the commit, by worker tasks that
leave the buffer in a mailbox under its identity (`presentation/prepared_uploads.py`).
`PreparedUploads.tla` models the mailbox, the life of one preparation, and its users: the owner, which
plans preparations as payloads are admitted and submits them (`_prepare_backend_uploads` in
`window/frame_effects.py`) and is told of those that were dropped; the closures in the worker threads;
the GUI thread, which takes buffers as it commits and resets the mailbox. A section under the mailbox's
lock or a task's lock is an action. The kernel is present as `TaskLedger`, its abstract specification.

| Action | Code |
|---|---|
| `Plan`, `PlanRaises`, `SkipHeld`, `Offer`, `Record`, `Submit`, `Reject` | `tiledUploadPreparations`, the loop of `_prepare_backend_uploads`, `submitted`, `submit_rejected` |
| `Enter`, `Started` | `PreparedUploadTask.__enter__`, `_task_started` |
| `Raise`, `Publish`, `PublishRefused` | packing; `PreparedUploadMailbox.publish` with `_evict_over_budget_locked` |
| `Claim`, `Finishes` | `_claim`, `_task_finished`, from `publish` or from `__exit__` |
| `Begins`, `Settles`, `Drops`, `Shutdown` | what the kernel may do with a task it admitted |
| `Tells`, `CountDropped` | `dispatch_event` and `dropped`, under the task's lock and then under the mailbox's |
| `Take`, `Clear` | `take`, `clear` |

Planning and telling both happen under the session-order lock, on whichever thread holds it (the GUI
thread or the presentation owner): so `Tells` waits for the loop of `_prepare_backend_uploads` to end.
Between two locks everything else interleaves, so a closure may be packed and published before the
owner comes back from `submit`, and a buffer may be taken or reset before its task is counted.

The run `uploads` plans three preparations (`MaxTasks`), together or one by one. `Workload` lets the
first two have one identity, so that a late publication meets a newer one and a held one is not
prepared again, and the third one that never fits; two buffers of size 2 crowd each other out of a
budget of 3. Tasks may be superseded or cleared while they wait, cancelled before their closure is
called, told as stale after they ran, and the kernel may shut down. The run checks that each counter
is the number of tasks in its state, computed from the tasks (`EveryTaskIsCounted`), that stored
buffers and bytes add up (`EveryBufferIsCounted`), and that each preparation ends (`EveryTaskEnds`).
`FairSpec` is weak fairness of the owner's loop, of each closure, and of what the kernel owes: that it
starts or drops what it admitted and tells it is `EventuallyTold` in `kernel_live`. A `Clear`, a `Take`
or a shutdown is never owed.

*What does not hold.* Payloads are planned one by one, and when one raises (`PlanRaises`) the tasks
planned before it are thrown away with the batch (`frame_effects.py:1697-1699`): they are counted under no outcome,
although a task is "one planned preparation, from planning to exactly one terminal outcome"
(`prepared_uploads.py:173`). `EveryTaskEnds` leaves them out by name (`lost`); no counter is wrong on
their account, since what was planned is not counted before it is offered.

"Both close while work is still in flight" (`prepared_uploads.py:71`) is true of
the equation of tasks and not of the equation of buffers: `publish` stores the buffer, and the figure
that `counters()` reports as `published` counts tasks, which `_task_finished` increments later.
Between the two `buffer_accounting_error()` is -1. `EveryBufferIsCounted` is about the mailbox's own
count of stored buffers, for which the equation closes at every instant.

`UploadsProofs` proves for any numbers of preparations, identities, sizes and budgets: `TasksAreCounted`
(`EveryTaskIsCounted`), `TaskEquationHolds` (`task_accounting_error()` is 0) and `ReliesOnLedger` (every
step is one `TaskLedger` allows). The invariant is `Shape`: for each task, what its phase in the kernel,
the place of its closure, its end and its claim allow of each other, and which task the owner holds
between two locks. A counter is then right after a step because the set it stands for gained or lost
the one task of the step (`Joined`, `Parted`; one lemma for each kind of action). The equation is the
partition of the submitted tasks (`OnePlace`). `BuffersAreCounted` (`EveryBufferIsCounted`) is about the
bytes: `Weight(rows)` is a running total, a recursive function over the rows, whose existence and
values are proved by induction in a set (`Climb`, from the least element of a set of numbers); rows
with the same keys weigh the same wherever they stand (`SameSpan`), and from that follow the three
things the mailbox does: to take an entry out, to add one, to evict from the front. Eviction stops
within the budget, or with the buffer just stored, which is not oversized. Only model-checked:
`EveryTaskEnds`.

Left out: the counters of what is never planned (`skipped_*`), of misses and of refusals by
reason, the peak, `discard`, which has no caller, and `AssemblyRetention`, which one thread owns.

## 10. What the proofs rest on

Theorems use the assumptions named in the modules (`SpecsAssumption`, `SlotsAssumption`,
`StageAssumption`, `DeliveryAssumption`, `SyncAssumption`, `CellsAssumption`, `TilesAssumption`,
`UploadsAssumption` and the others), which
TLC evaluates in every run of a module that extends theirs, and the library's facts about finite
sets, functions, sequences and well-founded relations. Where an order, a minimum or a running total has
to be shown to exist, the induction is over a set of numbers (`LeastOfNat`, `Climb`), because the
library's induction schemes take an operator, which the provers do not instantiate. Liveness, fairness
and properties that speak of ENABLED are checked by TLC only. No module declares a recursive operator.

## 11. Not modelled

* The **frame session** and the **frame effects** (`window/frame_session.py`,
  `window/frame_effects.py`), the pipeline and the ladder: 14 000 lines of GUI-thread code that decide
  what to submit next. In the modules of the parts they call they are the environment.
* The **tile lifecycle**, **progressive scheduling**, **evaluation adapter** and **stage fan-in**:
  planned (section 2), in that order.
* The **display back ends** beyond residency, **windows**, **files**, **tools**: widgets, drawing,
  input and output, and programs that drive ArrayScope from outside. Their subject is not states that
  several actors share.
* The **evaluation of operations**, **level statistics**, **pyramids**: array arithmetic.
* The **resource governor**: thresholds over measured memory; the **mutation clock**: one statement
  per container method.
