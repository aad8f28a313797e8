---------------------------- MODULE ComputePool ----------------------------
(***************************************************************************)
(* The compute pool of src/arrayscope/kernel/process_backend.py: kernel    *)
(* worker threads hand a RemoteCall to a worker process, pass its large    *)
(* arrays through shared-memory slots and block on the reply.  A process   *)
(* may die at any step; the thread that notices retires it and spawns      *)
(* another under its index.                                                *)
(*                                                                         *)
(* An action is what one thread or one process does between two steps that *)
(* others can see: a critical section of the slots, a write or a read of   *)
(* their bytes, a queue or a pipe operation.  A payload is the sequence of *)
(* the slots its large arrays went to; an array that is pickled (no slot   *)
(* free, too large, or in a dataclass that rejects a descriptor) leaves no *)
(* trace in it.  A job is one call of run().                               *)
(***************************************************************************)
EXTENDS SlotPool, Sequences, FiniteSets

CONSTANTS
    Threads,        \* the kernel's worker threads
    MaxJobs,        \* bound: calls of run()
    MaxDeaths,      \* bound: processes that die by themselves
    MaxArrays,      \* bound: large arrays in one request or one result
    MayCancel,      \* whether the kernel cancels running tasks
    PickleMayFail,  \* whether a request may turn out not to pickle
    SpawnMayFail,   \* whether the operating system may refuse a new process
    MayClose,       \* whether the last window may close
    NoSlot, NoWorker

Jobs == 1..MaxJobs
Parties == Threads \cup Workers

ASSUME PoolAssumption ==
    /\ MaxJobs \in Nat /\ MaxDeaths \in Nat /\ MaxArrays \in Nat
    /\ Threads \cap Workers = {} /\ Parent \notin Threads
    /\ NoSlot \notin Slots /\ NoWorker \notin Workers
    /\ MayCancel \in BOOLEAN
    /\ PickleMayFail \in BOOLEAN /\ SpawnMayFail \in BOOLEAN /\ MayClose \in BOOLEAN

VARIABLES
    idle,           \* Seq(Workers): the queue _idle
    alive,          \* [Workers -> BOOLEAN]: the process of this index runs
    inbox,          \* [Workers -> Seq(messages)]: the pipe to the child
    outbox,         \* [Workers -> Seq(replies)]: the pipe back
    control,        \* [Workers -> BOOLEAN]: _control, the cancellation bytes
    closed,         \* _closed
    mapped,         \* the segment is still mapped in the GUI process
    pc,             \* [Threads -> where the thread is in run()]
    job,            \* [Threads -> Nat]: the call the thread is in, 0 before any
    token,          \* [Threads -> BOOLEAN]: the cancellation token of its task
    held,           \* [Threads -> Workers or NoWorker]: `worker' in run()
    leases,         \* [Threads -> Seq(Slots)]: `leases' in run()
    reply,          \* [Threads -> Seq(replies)]: `reply', empty before it is there
    taken,          \* [Threads -> Seq(Slots)]: `taken' in _value
    wrap,           \* [Parties -> the state of a wrap_payload call]
    kid,            \* [Workers -> where the child is in _worker_main]
    jobs, deaths    \* how many there were

queueVars == <<idle, held>>
pipeVars == <<inbox, outbox>>
threadVars == <<pc, job, token, held, leases, reply, taken>>
countVars == <<jobs, deaths>>
vars == <<slotState, slotOwner, content, cursor, stranded, idle, alive, inbox, outbox, control,
          closed, mapped, pc, job, token, held, leases, reply, taken, wrap, kid, jobs, deaths>>

\* wrap_payload: arrays still to do, the lease being filled, the leases of what
\* is published, and the descriptors that stand in the payload.
Unwrapped(n) ==
    [left |-> n, slot |-> NoSlot, written |-> FALSE, made |-> <<>>, said |-> <<>>]
\* A child that waits for a message: no job, nothing to take, nothing viewed.
Waiting == [at |-> "recv", job |-> 0, todo |-> <<>>, view |-> <<>>, kind |-> "ok"]

Message(j, slots) == [job |-> j, slots |-> slots]
Stop == [job |-> 0, slots |-> <<>>]     \* the None close() sends
Answer(j, kind, slots) == [job |-> j, kind |-> kind, slots |-> slots]
Elems(q) == {q[i] : i \in DOMAIN q}

Init ==
    /\ SlotInit
    /\ idle = [i \in 1..NWorkers |-> i - 1]
    /\ alive = [w \in Workers |-> TRUE]
    /\ inbox = [w \in Workers |-> <<>>]
    /\ outbox = [w \in Workers |-> <<>>]
    /\ control = [w \in Workers |-> FALSE]
    /\ closed = FALSE
    /\ mapped = TRUE
    /\ pc = [t \in Threads |-> "out"]
    /\ job = [t \in Threads |-> 0]
    /\ token = [t \in Threads |-> FALSE]
    /\ held = [t \in Threads |-> NoWorker]
    /\ leases = [t \in Threads |-> <<>>]
    /\ reply = [t \in Threads |-> <<>>]
    /\ taken = [t \in Threads |-> <<>>]
    /\ wrap = [p \in Parties |-> Unwrapped(0)]
    /\ kid = [w \in Workers |-> Waiting]
    /\ jobs = 0
    /\ deaths = 0

At(t, here, there) == pc[t] = here /\ pc' = [pc EXCEPT ![t] = there]
-----------------------------------------------------------------------------
(* run(): taking a worker. *)

StartRun(t) ==
    /\ At(t, "out", "acquire")
    /\ ~closed
    /\ jobs < MaxJobs
    /\ jobs' = jobs + 1
    /\ job' = [job EXCEPT ![t] = jobs + 1]
    /\ token' = [token EXCEPT ![t] = FALSE]
    /\ reply' = [reply EXCEPT ![t] = <<>>]
    /\ taken' = [taken EXCEPT ![t] = <<>>]
    /\ UNCHANGED <<slotVars, pipeVars, idle, alive, control, closed, mapped, held,
                   leases, wrap, kid, deaths>>

\* The kernel cancels the task the thread executes.
Cancel(t) ==
    /\ MayCancel
    /\ pc[t] # "out"
    /\ ~token[t]
    /\ token' = [token EXCEPT ![t] = TRUE]
    /\ UNCHANGED <<slotVars, pipeVars, countVars, idle, alive, control, closed, mapped,
                   pc, job, held, leases, reply, taken, wrap, kid>>

\* _acquire looks at _closed, then waits on the queue for a while: a worker
\* may still be handed out after close().
Acquire(t, n) ==
    /\ At(t, "acquire", "wrap")
    /\ idle # <<>>
    /\ held' = [held EXCEPT ![t] = Head(idle)]
    /\ idle' = Tail(idle)
    /\ wrap' = [wrap EXCEPT ![t] = Unwrapped(n)]
    /\ UNCHANGED <<slotVars, pipeVars, countVars, alive, control, closed, mapped, job,
                   token, leases, reply, taken, kid>>

AcquireRefused(t) ==
    /\ At(t, "acquire", "out")
    /\ closed
    /\ UNCHANGED <<slotVars, pipeVars, countVars, idle, alive, control, closed, mapped, job,
                   token, held, leases, reply, taken, wrap, kid>>
-----------------------------------------------------------------------------
(* wrap_payload, in the thread for the request and in the child for the    *)
(* result: lease, copy, publish, array by array.                           *)

Wrapping(p) ==
    IF p \in Threads THEN pc[p] = "wrap" ELSE alive[p] /\ kid[p].at = "wrap"

ProcessOf(p) == IF p \in Threads THEN Parent ELSE p
OwnerTag(p) == 1 + IF p \in Threads THEN held[p] ELSE p
TagOf(p) == IF p \in Threads THEN <<job[p], "request">> ELSE <<kid[p].job, "result">>

wrapFrame == <<pipeVars, countVars, idle, control, closed, mapped, job, token, held,
               leases, reply, taken>>

WrapLease(p, s) ==
    /\ Wrapping(p)
    /\ wrap[p].left > 0 /\ wrap[p].slot = NoSlot
    /\ Lease(ProcessOf(p), s, OwnerTag(p))
    /\ wrap' = [wrap EXCEPT ![p].slot = s]
    /\ UNCHANGED <<wrapFrame, alive, pc, kid>>

\* No slot is free: the array is pickled.
WrapFallback(p) ==
    /\ Wrapping(p)
    /\ wrap[p].left > 0 /\ wrap[p].slot = NoSlot
    /\ Exhausted
    /\ wrap' = [wrap EXCEPT ![p].left = @ - 1]
    /\ UNCHANGED <<slotVars, wrapFrame, alive, pc, kid>>

Writing(p) == Wrapping(p) /\ wrap[p].slot # NoSlot /\ ~wrap[p].written

\* The array does not fit a slot: the lease is given back, the array pickled.
WrapOversize(p) ==
    /\ Writing(p)
    /\ Release(wrap[p].slot)
    /\ wrap' = [wrap EXCEPT ![p].left = @ - 1, ![p].slot = NoSlot]
    /\ UNCHANGED <<wrapFrame, alive, pc, kid>>

WrapWrite(p) ==
    /\ Writing(p)
    /\ p \in Threads => mapped
    /\ Write(wrap[p].slot, TagOf(p))
    /\ wrap' = [wrap EXCEPT ![p].written = TRUE]
    /\ UNCHANGED <<wrapFrame, alive, pc, kid>>

WrapPublish(p) ==
    /\ Wrapping(p) /\ wrap[p].written
    /\ Advance(wrap[p].slot, "leased", "ready")
    /\ wrap' = [wrap EXCEPT ![p].left = @ - 1, ![p].slot = NoSlot, ![p].written = FALSE,
                            ![p].made = Append(@, wrap[p].slot),
                            ![p].said = Append(@, wrap[p].slot)]
    /\ UNCHANGED <<wrapFrame, alive, pc, kid>>

\* _replace_or_original: a dataclass whose __post_init__ rejects a descriptor is
\* pickled as it was, with the arrays that were wrapped last; their slots stay
\* published and leased.
WrapReject(p) ==
    /\ Wrapping(p)
    /\ wrap[p].slot = NoSlot
    /\ \E n \in 0..Len(wrap[p].said) - 1 :
          wrap' = [wrap EXCEPT ![p].said = SubSeq(@, 1, n)]
    /\ UNCHANGED <<slotVars, wrapFrame, alive, pc, kid>>

\* The slot is no longer leased, or the segment is gone: an exception.  In the
\* thread run() retires the worker, with `leases' still (); in the child it
\* leaves _worker_main, for the result is wrapped outside the try.
WrapRaises(p) ==
    /\ Wrapping(p)
    /\ wrap[p].slot # NoSlot
    /\ IF wrap[p].written THEN slotState[wrap[p].slot] # "leased" ELSE p \in Threads /\ ~mapped
    /\ wrap' = [wrap EXCEPT ![p] = Unwrapped(0)]
    /\ IF p \in Threads
       THEN pc' = [pc EXCEPT ![p] = "retire"] /\ UNCHANGED <<alive, kid>>
       ELSE /\ alive' = [alive EXCEPT ![p] = FALSE]
            /\ kid' = [kid EXCEPT ![p] = Waiting]
            /\ UNCHANGED pc
    /\ UNCHANGED <<slotVars, wrapFrame>>

Wrapped(p) == Wrapping(p) /\ wrap[p].left = 0
-----------------------------------------------------------------------------
(* run(): sending the request and waiting for the answer. *)

\* The leases are the thread's from here on, and its worker's cancellation
\* byte is cleared of what an earlier call left in it.
Sending(t, there) ==
    /\ t \in Threads /\ Wrapped(t)
    /\ pc' = [pc EXCEPT ![t] = there]
    /\ leases' = [leases EXCEPT ![t] = wrap[t].made]
    /\ wrap' = [wrap EXCEPT ![t] = Unwrapped(0)]
    /\ control' = [control EXCEPT ![held[t]] = FALSE]
    /\ UNCHANGED <<slotVars, countVars, outbox, alive, closed, mapped, job, token, reply,
                   taken, kid>>

Send(t) ==
    /\ Sending(t, "await")
    /\ alive[held[t]]
    /\ inbox' = [inbox EXCEPT ![held[t]] = Append(@, Message(job[t], wrap[t].said))]
    /\ UNCHANGED queueVars

\* The pipe is broken: the worker died, or close() closed the connection.
SendBroken(t) ==
    /\ Sending(t, "retire")
    /\ ~alive[held[t]]
    /\ UNCHANGED <<inbox, queueVars>>

\* Mutant: the worker is put back and the thread does not forget it.
SendUnpicklable_KeepsWorker(t) ==
    /\ PickleMayFail
    /\ Sending(t, "local")
    /\ idle' = Append(idle, held[t])
    /\ UNCHANGED <<held, inbox>>

\* The request does not pickle: the worker goes back, the call runs in place.
SendUnpicklable(t) ==
    /\ PickleMayFail
    /\ Sending(t, "local")
    /\ idle' = Append(idle, held[t])
    /\ held' = [held EXCEPT ![t] = NoWorker]
    /\ UNCHANGED inbox

LocalDone(t) ==
    /\ At(t, "local", "release")
    /\ UNCHANGED <<slotVars, pipeVars, countVars, idle, alive, control, closed, mapped, job,
                   token, held, leases, reply, taken, wrap, kid>>

PassCancel(t) ==
    /\ MayCancel
    /\ pc[t] = "await" /\ token[t] /\ ~control[held[t]]
    /\ control' = [control EXCEPT ![held[t]] = TRUE]
    /\ UNCHANGED <<slotVars, pipeVars, threadVars, countVars, idle, alive, closed, mapped,
                   wrap, kid>>

awaitFrame == <<slotVars, countVars, idle, alive, control, closed, mapped, job, token,
                held, leases, taken, wrap, kid>>

\* A reply in the pipe wins over a dead process.
Receive(t) ==
    /\ At(t, "await", "release")
    /\ outbox[held[t]] # <<>>
    /\ reply' = [reply EXCEPT ![t] = <<Head(outbox[held[t]])>>]
    /\ outbox' = [outbox EXCEPT ![held[t]] = Tail(@)]
    /\ UNCHANGED <<awaitFrame, inbox>>

\* Mutant: a death is noticed only together with close().
NoticeDeath_Never(t) ==
    /\ At(t, "await", "retire")
    /\ outbox[held[t]] = <<>> /\ ~alive[held[t]] /\ closed
    /\ UNCHANGED <<awaitFrame, reply, pipeVars>>

NoticeDeath(t) ==
    /\ At(t, "await", "retire")
    /\ outbox[held[t]] = <<>> /\ ~alive[held[t]]
    /\ UNCHANGED <<awaitFrame, reply, pipeVars>>

\* The reply may have come after the poll that found none.
NoticeClosed(t) ==
    /\ At(t, "await", "retire")
    /\ closed
    /\ UNCHANGED <<awaitFrame, reply, pipeVars>>
-----------------------------------------------------------------------------
(* _retire: the process is ended, its slots reclaimed, a new one spawned.  *)

Ended(w) ==
    /\ alive' = [alive EXCEPT ![w] = FALSE]
    /\ kid' = [kid EXCEPT ![w] = Waiting]
    /\ wrap' = [wrap EXCEPT ![w] = Unwrapped(0)]

Disconnected(w) ==
    /\ inbox' = [inbox EXCEPT ![w] = <<>>]
    /\ outbox' = [outbox EXCEPT ![w] = <<>>]

\* Mutant: the replacement inherits the old pipe.
RetireKill_PipeKept(t) ==
    /\ At(t, "retire", "reclaim")
    /\ Ended(held[t])
    /\ UNCHANGED <<slotVars, pipeVars, countVars, idle, control, closed, mapped, job, token,
                   held, leases, reply, taken>>

RetireKill(t) ==
    /\ At(t, "retire", "reclaim")
    /\ Disconnected(held[t])
    /\ Ended(held[t])
    /\ UNCHANGED <<slotVars, countVars, idle, control, closed, mapped, job, token, held,
                   leases, reply, taken>>

RetireReclaim(t) ==
    /\ At(t, "reclaim", "respawn")
    /\ Reclaim(held[t] + 1)
    /\ control' = [control EXCEPT ![held[t]] = FALSE]
    /\ UNCHANGED <<cursor, pipeVars, countVars, idle, alive, closed, mapped, job, token,
                   held, leases, reply, taken, wrap, kid>>

respawnFrame == <<slotState, slotOwner, content, stranded, pipeVars, countVars, control, closed,
                  mapped, job, token, leases, reply, taken, wrap, kid>>

\* The replacement attaches to the slots with a cursor of its own.
RetireRespawn(t) ==
    /\ At(t, "respawn", "release")
    /\ ~closed
    /\ alive' = [alive EXCEPT ![held[t]] = TRUE]
    /\ cursor' = [cursor EXCEPT ![held[t]] = 0]
    /\ idle' = Append(idle, held[t])
    /\ held' = [held EXCEPT ![t] = NoWorker]
    /\ UNCHANGED respawnFrame

\* After close(), or when the process cannot be started, nobody is put back.
RetireLoses(t) ==
    /\ At(t, "respawn", "release")
    /\ closed \/ SpawnMayFail
    /\ held' = [held EXCEPT ![t] = NoWorker]
    /\ UNCHANGED <<respawnFrame, alive, cursor, idle>>
-----------------------------------------------------------------------------
(* run(): the finally clause, then the worker back and the value out.      *)

ReleaseLease(t) ==
    /\ pc[t] = "release" /\ leases[t] # <<>>
    /\ Release(Head(leases[t]))
    /\ leases' = [leases EXCEPT ![t] = Tail(@)]
    /\ UNCHANGED <<pipeVars, countVars, idle, alive, control, closed, mapped, pc, job, token,
                   held, reply, taken, wrap, kid>>

releasedFrame == <<slotVars, pipeVars, countVars, alive, control, closed, mapped, job, token,
                   leases, taken, wrap, kid>>

\* No reply: the exception, or the value computed in place, leaves run().
Leave(t) ==
    /\ At(t, "release", "out")
    /\ leases[t] = <<>> /\ reply[t] = <<>>
    /\ UNCHANGED <<releasedFrame, queueVars, reply>>

GiveBack(t) ==
    /\ At(t, "release", "value")
    /\ leases[t] = <<>> /\ reply[t] # <<>>
    /\ idle' = Append(idle, held[t])
    /\ held' = [held EXCEPT ![t] = NoWorker]
    /\ UNCHANGED <<releasedFrame, reply>>

Untaken(t) == reply[t][1].slots
valueFrame == <<pipeVars, countVars, idle, alive, control, closed, mapped, job, token,
                held, leases, wrap, kid>>

\* Mutant: the slot is released as it is taken, before its bytes are copied.
TakeValue_EarlyRelease(t) ==
    /\ pc[t] = "value" /\ Untaken(t) # <<>>
    /\ mapped
    /\ Release(Head(Untaken(t)))
    /\ taken' = [taken EXCEPT ![t] = Append(@, Head(Untaken(t)))]
    /\ reply' = [reply EXCEPT ![t][1].slots = Tail(@)]
    /\ UNCHANGED <<valueFrame, pc>>

\* unwrap_payload(copy=True): take a slot; its bytes are copied before the
\* next one is taken.
TakeValue(t) ==
    /\ pc[t] = "value" /\ Untaken(t) # <<>>
    /\ Advance(Head(Untaken(t)), "ready", "held")
    /\ mapped
    /\ taken' = [taken EXCEPT ![t] = Append(@, Head(Untaken(t)))]
    /\ reply' = [reply EXCEPT ![t][1].slots = Tail(@)]
    /\ UNCHANGED <<valueFrame, pc>>

\* Not ready, or no longer mapped: what was taken so far stays held.
TakeRaises(t) ==
    /\ At(t, "value", "out")
    /\ Untaken(t) # <<>>
    /\ \/ /\ slotState[Head(Untaken(t))] # "ready"
          /\ UNCHANGED slotVars
       \/ /\ ~mapped
          /\ Advance(Head(Untaken(t)), "ready", "held")
    /\ UNCHANGED <<valueFrame, reply, taken>>

ReleaseValue(t) ==
    /\ pc[t] = "value" /\ Untaken(t) = <<>> /\ taken[t] # <<>>
    /\ Release(Head(taken[t]))
    /\ taken' = [taken EXCEPT ![t] = Tail(@)]
    /\ UNCHANGED <<valueFrame, pc, reply>>

\* The value, or the child's exception, leaves run().
Return(t) ==
    /\ At(t, "value", "out")
    /\ Untaken(t) = <<>> /\ taken[t] = <<>>
    /\ UNCHANGED <<slotVars, valueFrame, reply, taken>>
-----------------------------------------------------------------------------
(* _worker_main and _run_child_job. *)

Child(w, here) == alive[w] /\ kid[w].at = here

childFrame == <<countVars, idle, control, closed, mapped, threadVars>>

ChildReceive(w) ==
    /\ Child(w, "recv") /\ inbox[w] # <<>> /\ Head(inbox[w]) # Stop
    /\ kid' = [kid EXCEPT ![w] = [at |-> "take", job |-> Head(inbox[w]).job,
                                  todo |-> Head(inbox[w]).slots, view |-> <<>>, kind |-> "ok"]]
    /\ inbox' = [inbox EXCEPT ![w] = Tail(@)]
    /\ UNCHANGED <<slotVars, outbox, alive, wrap, childFrame>>

ChildStop(w) ==
    /\ Child(w, "recv") /\ inbox[w] # <<>> /\ Head(inbox[w]) = Stop
    /\ Ended(w)
    /\ UNCHANGED <<slotVars, pipeVars, childFrame>>

\* unwrap_payload(copy=False): a view of each slot, read when it computes.
ChildTake(w) ==
    /\ Child(w, "take") /\ kid[w].todo # <<>>
    /\ Advance(Head(kid[w].todo), "ready", "held")
    /\ kid' = [kid EXCEPT ![w].todo = Tail(@), ![w].view = Append(@, Head(kid[w].todo))]
    /\ UNCHANGED <<pipeVars, alive, wrap, childFrame>>

\* Inside the try: the exception becomes an "error" reply.
ChildTakeRaises(w) ==
    /\ Child(w, "take") /\ kid[w].todo # <<>>
    /\ slotState[Head(kid[w].todo)] # "ready"
    /\ kid' = [kid EXCEPT ![w].at = "send", ![w].kind = "error"]
    /\ UNCHANGED <<slotVars, pipeVars, alive, wrap, childFrame>>

\* The entry function reads its request and returns n large arrays...
ChildCompute(w, n) ==
    /\ Child(w, "take") /\ kid[w].todo = <<>>
    /\ kid' = [kid EXCEPT ![w].at = "wrap", ![w].view = <<>>]
    /\ wrap' = [wrap EXCEPT ![w] = Unwrapped(n)]
    /\ UNCHANGED <<slotVars, pipeVars, alive, childFrame>>

\* ... or raises, or finds its cancellation byte set.
ChildFails(w, kind) ==
    /\ Child(w, "take") /\ kid[w].todo = <<>>
    /\ kind = "cancelled" => control[w]
    /\ kid' = [kid EXCEPT ![w].at = "send", ![w].kind = kind, ![w].view = <<>>]
    /\ UNCHANGED <<slotVars, pipeVars, alive, wrap, childFrame>>

ChildWrapped(w) ==
    /\ w \in Workers /\ Wrapped(w)
    /\ kid' = [kid EXCEPT ![w].at = "send"]
    /\ UNCHANGED <<slotVars, pipeVars, alive, wrap, childFrame>>

\* The leases are dropped, those of slots that the answer does not name too.
ChildSend(w) ==
    /\ Child(w, "send")
    /\ outbox' = [outbox EXCEPT ![w] = Append(@, Answer(kid[w].job, kid[w].kind, wrap[w].said))]
    /\ stranded' = [stranded EXCEPT ![w] = @ \cup (Elems(wrap[w].made) \ Elems(wrap[w].said))]
    /\ kid' = [kid EXCEPT ![w] = Waiting]
    /\ wrap' = [wrap EXCEPT ![w] = Unwrapped(0)]
    /\ UNCHANGED <<slotState, slotOwner, content, cursor, inbox, alive, childFrame>>

\* Killed by the operating system, or by a fault in native code.
Die(w) ==
    /\ alive[w] /\ deaths < MaxDeaths
    /\ deaths' = deaths + 1
    /\ Ended(w)
    /\ UNCHANGED <<slotVars, pipeVars, idle, control, closed, mapped, threadVars, jobs>>
-----------------------------------------------------------------------------
(* close(): mark, tell every worker, end those that do not stop in time,   *)
(* unmap the segment.                                                      *)

Close ==
    /\ MayClose /\ ~closed
    /\ closed' = TRUE
    /\ inbox' = [w \in Workers |-> IF alive[w] THEN Append(inbox[w], Stop) ELSE inbox[w]]
    /\ UNCHANGED <<slotVars, countVars, idle, outbox, alive, control, mapped, threadVars,
                   wrap, kid>>

CloseWorker(w) ==
    /\ closed
    /\ alive[w] \/ inbox[w] # <<>> \/ outbox[w] # <<>>
    /\ Disconnected(w)
    /\ Ended(w)
    /\ UNCHANGED <<slotVars, childFrame>>

Unmap ==
    /\ closed /\ mapped
    /\ \A w \in Workers : ~alive[w]
    /\ mapped' = FALSE
    /\ UNCHANGED <<slotVars, countVars, idle, alive, pipeVars, control, closed, threadVars,
                   wrap, kid>>
-----------------------------------------------------------------------------
RunStep(t) ==
    \/ StartRun(t) \/ Acquire(t, 0) \/ AcquireRefused(t)
    \/ \E n \in 1..MaxArrays : Acquire(t, n)
    \/ Send(t) \/ SendBroken(t) \/ SendUnpicklable(t) \/ LocalDone(t)
    \/ Receive(t) \/ NoticeDeath(t) \/ NoticeClosed(t)
    \/ RetireKill(t) \/ RetireReclaim(t) \/ RetireRespawn(t) \/ RetireLoses(t)
    \/ ReleaseLease(t) \/ Leave(t) \/ GiveBack(t)
    \/ TakeValue(t) \/ TakeRaises(t) \/ ReleaseValue(t) \/ Return(t)

WrapStep(p) ==
    \/ \E s \in Slots : WrapLease(p, s)
    \/ WrapFallback(p) \/ WrapOversize(p) \/ WrapWrite(p) \/ WrapPublish(p) \/ WrapReject(p)
    \/ WrapRaises(p)

ChildStep(w) ==
    \/ ChildReceive(w) \/ ChildStop(w) \/ ChildTake(w) \/ ChildTakeRaises(w)
    \/ \E n \in 0..MaxArrays : ChildCompute(w, n)
    \/ \E kind \in {"error", "cancelled"} : ChildFails(w, kind)
    \/ ChildWrapped(w) \/ ChildSend(w)

Next ==
    \/ \E t \in Threads : RunStep(t) \/ Cancel(t) \/ PassCancel(t)
    \/ \E p \in Parties : WrapStep(p)
    \/ \E w \in Workers : ChildStep(w) \/ Die(w) \/ CloseWorker(w)
    \/ Close \/ Unmap

Spec == Init /\ [][Next]_vars
=============================================================================
