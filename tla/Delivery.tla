------------------------------ MODULE Delivery ------------------------------
(***************************************************************************)
(* Completion delivery (kernel/completions.py, kernel/qt_bridge.py,        *)
(* presentation/owner.py, wired in window/main.py:191-210).  Whoever holds *)
(* the kernel lock appends completions to one of two queues and then tells *)
(* its consumer: the GUI thread through a queued Qt signal, the            *)
(* presentation owner through an Event.  Both consumers run the bodies     *)
(* under one session-order lock, which the GUI's own sections take too.    *)
(*                                                                         *)
(* A step is what a thread does between two places where another thread    *)
(* can be seen: the lock operations, the appends, the flag and queue reads.*)
(***************************************************************************)
EXTENDS Integers, Sequences, FiniteSets

CONSTANTS
    MaxTasks,       \* bound: how many tasks are submitted
    Routed,         \* those whose completions montage_completion_route sends
                    \* to the owner
    Waiters,        \* keys of notify_when_capacity
    MaxEvents,      \* max_events_per_drain
    MaxChecks,      \* _YIELD_MAX_CHECKS
    None            \* no event in hand

\* Completions, numbered by the submission of their tasks.
Events == 1..MaxTasks
Direct == Events \ Routed

ASSUME DeliveryAssumption ==
    /\ MaxTasks \in Nat
    /\ Routed \subseteq Events
    /\ None \notin Events
    /\ MaxEvents \in Nat \ {0}
    /\ MaxChecks \in Nat \ {0}

Consumers == {"gui", "owner"}
Home == [e \in Events |-> IF e \in Routed THEN "owner" ELSE "gui"]

GuiPlaces == {"loop", "pop", "want", "check", "body", "nest", "nested", "note", "rearm",
              "fire", "wakeup", "join", "closed"}
OwnerPlaces == {"wait", "clear", "pop", "want", "check", "body", "turn", "yield", "hook",
                "drop", "gone"}

VARIABLES
    life,           \* [Events -> "new", "owed", "queued", "told" or "dropped"]
    queue,          \* [Consumers -> Seq(Events)]: CompletionQueue._events, owner._events
    hand,           \* [Consumers -> event popped and not yet dispatched]
    kernelLock,     \* who holds Kernel._lock for longer than a step
    telling,        \* the event just appended, whose consumer is not told yet
    orderLock,      \* who holds owner.order_lock
    gui, owner,     \* where the two threads are
    drained,        \* _drain: processed
    signals,        \* eventsReady emissions not yet delivered
    reconciles,     \* routedEventsDispatched emissions not yet delivered
    timer,          \* _fallback_timer.isActive()
    wake,           \* owner._wake
    stop,           \* owner._stop
    closed,         \* bridge._closed
    waiting,        \* owner._gui_waiting
    turn,           \* a GUI section was admitted in the present stand-aside
    checks,         \* polls of the present stand-aside
    batch,          \* _run: events_dispatched > before
    waiters,        \* keys of bridge._capacity_waiters
    stale,          \* a dispatch since the governor's decisions were reapplied
    passed          \* history: owner admissions a waiting GUI section has seen

queueVars == <<life, queue, hand>>
lockVars == <<kernelLock, telling>>
bridgeVars == <<drained, signals, reconciles, timer, closed, waiters, stale>>
ownerVars == <<wake, stop, batch>>
turnVars == <<orderLock, waiting, turn, checks, passed>>
vars == <<queueVars, lockVars, bridgeVars, ownerVars, turnVars, gui, owner>>

Init ==
    /\ life = [e \in Events |-> "new"]
    /\ queue = [c \in Consumers |-> <<>>]
    /\ hand = [c \in Consumers |-> None]
    /\ kernelLock = "nobody" /\ telling = None /\ orderLock = "nobody"
    /\ gui = "loop" /\ owner = "wait"
    /\ drained = 0 /\ signals = 0 /\ reconciles = 0 /\ timer = FALSE
    /\ wake = FALSE /\ stop = FALSE /\ closed = FALSE /\ batch = FALSE
    /\ waiting = 0 /\ turn = FALSE /\ checks = 0 /\ passed = 0
    /\ waiters = {} /\ stale = FALSE

\* A record exists from submit to the delivery of its event.
Live == {e \in Events : life[e] = "owed"}
Undispatched == {e \in Events : life[e] \in {"owed", "queued"}}

-----------------------------------------------------------------------------
(* Delivery, under the kernel lock: by a worker that finishes a task, or by  *)
(* a thread whose submit, cancel or clear_scope drops one.                   *)

Producers == {"worker", "gui", "owner"}

InBody(p) == CASE p = "worker" -> TRUE
               [] p = "gui" -> gui \in {"loop", "body", "nested", "fire"}
               [] p = "owner" -> owner = "body"

\* Tasks are submitted by the GUI and by the bodies of completions.
Submit(p, e) ==
    /\ p # "worker" /\ InBody(p) /\ kernelLock = "nobody"
    /\ life[e] = "new" /\ \A d \in 1..(e - 1) : life[d] # "new"
    /\ life' = [life EXCEPT ![e] = "owed"]
    /\ UNCHANGED <<queue, hand, lockVars, bridgeVars, ownerVars, turnVars, gui, owner>>

\* RoutedCompletionQueue.put up to the append.  One critical section of the
\* kernel may put several events.
Put(p, e) ==
    /\ kernelLock = p \/ (kernelLock = "nobody" /\ InBody(p))
    /\ telling = None
    /\ e \in Live
    /\ life' = [life EXCEPT ![e] = "queued"]
    /\ queue' = [queue EXCEPT ![Home[e]] = Append(@, e)]
    /\ telling' = e
    /\ kernelLock' = p
    /\ UNCHANGED <<hand, bridgeVars, ownerVars, turnVars, gui, owner>>

\* Mutant: the consumer is told under the session-order lock.
Tell_InOrder(p) ==
    /\ kernelLock = p /\ telling # None
    /\ orderLock \in {"nobody", p}
    /\ IF telling \in Routed
       THEN wake' = TRUE /\ UNCHANGED signals
       ELSE signals' = signals + 1 /\ UNCHANGED wake
    /\ telling' = None
    /\ UNCHANGED <<queueVars, kernelLock, drained, reconciles, timer, closed, waiters, stale,
                   stop, batch, turnVars, gui, owner>>

\* Its notify or wake.
Tell(p) ==
    /\ kernelLock = p /\ telling # None
    /\ IF telling \in Routed
       THEN wake' = TRUE /\ UNCHANGED signals
       ELSE signals' = (IF closed THEN signals ELSE signals + 1) /\ UNCHANGED wake
    /\ telling' = None
    /\ UNCHANGED <<queueVars, kernelLock, drained, reconciles, timer, closed, waiters, stale,
                   stop, batch, turnVars, gui, owner>>

Leave(p) ==
    /\ kernelLock = p /\ telling = None
    /\ kernelLock' = "nobody"
    /\ UNCHANGED <<queueVars, telling, bridgeVars, ownerVars, turnVars, gui, owner>>

-----------------------------------------------------------------------------
(* The session-order lock (timed_order_lock).                                *)

\* The GUI announces itself before it waits.
Announce == waiting' = waiting + 1 /\ passed' = 0

\* A free lock, or one the GUI holds already: it is re-entrant.
Admitted == orderLock \in {"nobody", "gui"}

GuiAdmitted ==
    /\ Admitted
    /\ orderLock' = "gui"
    /\ waiting' = waiting - 1
    /\ turn' = (owner = "yield")
    /\ passed' = 0
    /\ UNCHANGED checks

\* dispatch_event: the record's last staleness test, and the handler is chosen.
Dispatch(c) ==
    /\ kernelLock = "nobody"
    /\ life' = [life EXCEPT ![hand[c]] = "told"]
    /\ hand' = [hand EXCEPT ![c] = None]
    /\ stale' = TRUE
    /\ UNCHANGED queue

-----------------------------------------------------------------------------
(* The GUI thread.                                                           *)

\* A call from the event loop into a function that is a session section.
SectionStart ==
    /\ gui = "loop" /\ kernelLock # "gui"
    /\ gui' = "want" /\ Announce
    /\ UNCHANGED <<queueVars, lockVars, bridgeVars, ownerVars, orderLock, turn, checks, owner>>

\* _drain, run by the signal or by the fallback timer.
DrainStart ==
    /\ gui = "loop" /\ kernelLock # "gui"
    /\ \/ signals > 0 /\ signals' = signals - 1 /\ UNCHANGED timer
       \/ timer /\ timer' = FALSE /\ UNCHANGED signals
    /\ gui' = "pop"
    /\ UNCHANGED <<queueVars, lockVars, drained, reconciles, closed, waiters, stale,
                   ownerVars, turnVars, owner>>

\* Mutant: a drain that finds its own queue empty serves the owner's.
DrainPop_ReachesOver ==
    /\ gui = "pop"
    /\ \E c \in Consumers :
        /\ queue[c] # <<>> /\ (c = "owner" => queue["gui"] = <<>>)
        /\ hand' = [hand EXCEPT !["gui"] = Head(queue[c])]
        /\ queue' = [queue EXCEPT ![c] = Tail(@)]
        /\ drained' = drained + 1
        /\ gui' = "want" /\ Announce
    /\ UNCHANGED <<life, lockVars, signals, reconciles, timer, closed, waiters, stale,
                   ownerVars, orderLock, turn, checks, owner>>

DrainPop ==
    /\ gui = "pop"
    /\ IF drained < MaxEvents /\ queue["gui"] # <<>>
       THEN /\ hand' = [hand EXCEPT !["gui"] = Head(queue["gui"])]
            /\ queue' = [queue EXCEPT !["gui"] = Tail(@)]
            /\ drained' = drained + 1
            /\ gui' = "want" /\ Announce
       ELSE /\ gui' = (IF drained > 0 THEN "note" ELSE "rearm")
            /\ UNCHANGED <<hand, queue, drained, waiting, passed>>
    /\ UNCHANGED <<life, lockVars, signals, reconciles, timer, closed, waiters, stale,
                   ownerVars, orderLock, turn, checks, owner>>

GuiAcquire ==
    /\ gui = "want" /\ GuiAdmitted
    /\ gui' = (IF hand["gui"] = None THEN "body" ELSE "check")
    /\ UNCHANGED <<queueVars, lockVars, bridgeVars, ownerVars, owner>>

GuiDispatch ==
    /\ gui = "check" /\ Dispatch("gui")
    /\ gui' = "body"
    /\ UNCHANGED <<lockVars, drained, signals, reconciles, timer, closed, waiters,
                   ownerVars, turnVars, owner>>

\* A section calls another one: announced and admitted like any other.
NestAnnounce ==
    /\ gui = "body" /\ kernelLock # "gui"
    /\ gui' = "nest" /\ Announce
    /\ UNCHANGED <<queueVars, lockVars, bridgeVars, ownerVars, orderLock, turn, checks, owner>>
NestEnter ==
    /\ gui = "nest" /\ GuiAdmitted
    /\ gui' = "nested"
    /\ UNCHANGED <<queueVars, lockVars, bridgeVars, ownerVars, owner>>
NestLeave ==
    /\ gui = "nested" /\ kernelLock # "gui"
    /\ gui' = "body"
    /\ UNCHANGED <<queueVars, lockVars, bridgeVars, ownerVars, turnVars, owner>>

\* The section ends; a drain goes on, or stops early because its budget is used.
GuiRelease ==
    /\ gui = "body" /\ kernelLock # "gui"
    /\ orderLock' = "nobody"
    /\ gui' \in (IF drained > 0 THEN {"pop", "note"} ELSE {"loop"})
    /\ UNCHANGED <<queueVars, lockVars, bridgeVars, ownerVars, waiting, turn, checks, passed, owner>>

\* notify_when_capacity is called while the work that closed the gate is in
\* flight (render_prefetch.py:60).
Arm(w) ==
    /\ gui \in {"body", "nested"} /\ kernelLock # "gui"
    /\ Undispatched # {}
    /\ waiters' = waiters \cup {w}
    /\ UNCHANGED <<queueVars, lockVars, drained, signals, reconciles, timer, closed, stale,
                   ownerVars, turnVars, gui, owner>>

\* _note_kernel_completion_drain: the governor's decisions are reapplied, but
\* for a call that finds more completions queued soon after the last one.
Reapply ==
    /\ kernelLock = "nobody"
    /\ \/ stale' = FALSE
       \/ queue["gui"] # <<>> /\ UNCHANGED stale

DrainNote ==
    /\ gui = "note" /\ Reapply
    /\ gui' = "rearm"
    /\ UNCHANGED <<queueVars, lockVars, drained, signals, reconciles, timer, closed, waiters,
                   ownerVars, turnVars, owner>>

DrainRearm ==
    /\ gui = "rearm" /\ kernelLock = "nobody"
    /\ IF queue["gui"] # <<>>
       THEN signals' = signals + 1 /\ timer' = TRUE
       ELSE timer' = (Live # {}) /\ UNCHANGED signals
    /\ gui' = (IF drained > 0 THEN "fire" ELSE "loop")
    /\ UNCHANGED <<queueVars, lockVars, drained, reconciles, closed, waiters, stale,
                   ownerVars, turnVars, owner>>

\* _reconcile_after_routed_dispatch.
Reconcile ==
    /\ gui = "loop" /\ kernelLock # "gui" /\ reconciles > 0
    /\ reconciles' = reconciles - 1
    /\ Reapply
    /\ gui' = "fire"
    /\ UNCHANGED <<queueVars, lockVars, drained, signals, timer, closed, waiters,
                   ownerVars, turnVars, owner>>

\* _fire_capacity_waiters: taken out first, then called; a gate that is still
\* closed arms its waiter again.
FireWaiters ==
    /\ gui = "fire" /\ kernelLock # "gui"
    /\ waiters' \in (IF Undispatched = {} THEN {{}} ELSE SUBSET waiters)
    /\ drained' = 0
    /\ gui' = "loop"
    /\ UNCHANGED <<queueVars, lockVars, signals, reconciles, timer, closed, stale,
                   ownerVars, turnVars, owner>>

-----------------------------------------------------------------------------
(* closeEvent: owner.shutdown (stop, wake, join), then bridge.close.         *)

CloseStart ==
    /\ gui = "loop" /\ kernelLock # "gui"
    /\ gui' = "wakeup" /\ stop' = TRUE
    /\ UNCHANGED <<queueVars, lockVars, bridgeVars, wake, batch, turnVars, owner>>
CloseWake ==
    /\ gui = "wakeup"
    /\ gui' = "join" /\ wake' = TRUE
    /\ UNCHANGED <<queueVars, lockVars, bridgeVars, stop, batch, turnVars, owner>>

\* _drop_pending takes one event after the other until there is none.
DropOne ==
    /\ queue["owner"] # <<>>
    /\ life' = [life EXCEPT ![Head(queue["owner"])] = "dropped"]
    /\ queue' = [queue EXCEPT !["owner"] = Tail(@)]
    /\ UNCHANGED hand

\* The thread is gone and what it left is dropped, or the join has timed out
\* and the thread is left behind; then the bridge is closed.
CloseJoin ==
    /\ gui = "join"
    /\ \/ owner = "gone" /\ DropOne /\ UNCHANGED <<closed, timer, gui>>
       \/ /\ owner = "gone" => queue["owner"] = <<>>
          /\ closed' = TRUE /\ timer' = FALSE
          /\ gui' = "closed" /\ UNCHANGED queueVars
    /\ UNCHANGED <<lockVars, drained, signals, reconciles, waiters, stale,
                   ownerVars, turnVars, owner>>

-----------------------------------------------------------------------------
(* The presentation owner (_run, _drain, _dispatch, _yield_to_gui).          *)

OwnerWait ==
    /\ owner = "wait" /\ wake
    /\ owner' = "clear"
    /\ UNCHANGED <<queueVars, lockVars, bridgeVars, ownerVars, turnVars, gui>>
OwnerClear ==
    /\ owner = "clear"
    /\ wake' = FALSE
    /\ owner' = "pop"
    /\ UNCHANGED <<queueVars, lockVars, bridgeVars, stop, batch, turnVars, gui>>

OwnerPop ==
    /\ owner = "pop"
    /\ IF ~stop /\ queue["owner"] # <<>>
       THEN /\ hand' = [hand EXCEPT !["owner"] = Head(queue["owner"])]
            /\ queue' = [queue EXCEPT !["owner"] = Tail(@)]
            /\ owner' = "want"
       ELSE owner' = "hook" /\ UNCHANGED <<hand, queue>>
    /\ UNCHANGED <<life, lockVars, bridgeVars, ownerVars, turnVars, gui>>

OwnerAcquire ==
    /\ owner = "want" /\ orderLock = "nobody"
    /\ orderLock' = "owner"
    /\ passed' = (IF gui = "want" THEN passed + 1 ELSE passed)
    /\ owner' = "check"
    /\ UNCHANGED <<queueVars, lockVars, bridgeVars, ownerVars, waiting, turn, checks, gui>>

\* The body may fail: the count goes up all the same.
OwnerDispatch ==
    /\ owner = "check" /\ Dispatch("owner")
    /\ batch' = TRUE
    /\ owner' = "body"
    /\ UNCHANGED <<lockVars, drained, signals, reconciles, timer, closed, waiters,
                   wake, stop, turnVars, gui>>

OwnerRelease ==
    /\ owner = "body" /\ kernelLock # "owner"
    /\ orderLock' = "nobody"
    /\ owner' = "turn"
    /\ UNCHANGED <<queueVars, lockVars, bridgeVars, ownerVars, waiting, turn, checks, passed, gui>>

\* Mutant: the owner goes on to the next event.
OwnerTurn_Barges ==
    /\ owner = "turn"
    /\ owner' = "pop"
    /\ UNCHANGED <<queueVars, lockVars, bridgeVars, ownerVars, turnVars, gui>>

\* One turn is given up when a section has announced itself.
OwnerTurn ==
    /\ owner = "turn"
    /\ owner' = (IF waiting > 0 THEN "yield" ELSE "pop")
    /\ UNCHANGED <<queueVars, lockVars, bridgeVars, ownerVars, turnVars, gui>>

StandAside == waiting > 0 /\ ~turn /\ ~stop

OwnerYield ==
    /\ owner = "yield"
    /\ IF StandAside /\ checks < MaxChecks
       THEN checks' = checks + 1 /\ UNCHANGED <<owner, turn, passed>>
       ELSE /\ owner' = "pop" /\ turn' = FALSE /\ checks' = 0
            /\ passed' = (IF StandAside THEN 0 ELSE passed)
    /\ UNCHANGED <<queueVars, lockVars, bridgeVars, ownerVars, orderLock, waiting, gui>>

\* Mutant: the flag is cleared after the drain.
OwnerHook_ClearsWake ==
    /\ owner = "hook"
    /\ reconciles' = (IF batch /\ ~stop THEN reconciles + 1 ELSE reconciles)
    /\ batch' = FALSE /\ wake' = FALSE
    /\ owner' = (IF stop THEN "drop" ELSE "wait")
    /\ UNCHANGED <<queueVars, lockVars, drained, signals, timer, closed, waiters, stale,
                   stop, turnVars, gui>>

\* Mutant: the bridge is asked for a drain, which finds nothing to do.
OwnerHook_AsksForDrain ==
    /\ owner = "hook"
    /\ signals' = (IF batch /\ ~stop THEN signals + 1 ELSE signals)
    /\ batch' = FALSE
    /\ owner' = (IF stop THEN "drop" ELSE "wait")
    /\ UNCHANGED <<queueVars, lockVars, drained, reconciles, timer, closed, waiters, stale,
                   wake, stop, turnVars, gui>>

\* after_dispatch, and the loop's test.
OwnerHook ==
    /\ owner = "hook"
    /\ reconciles' = (IF batch /\ ~stop THEN reconciles + 1 ELSE reconciles)
    /\ batch' = FALSE
    /\ owner' = (IF stop THEN "drop" ELSE "wait")
    /\ UNCHANGED <<queueVars, lockVars, drained, signals, timer, closed, waiters, stale,
                   wake, stop, turnVars, gui>>

OwnerExit ==
    /\ owner = "drop"
    /\ \/ DropOne /\ UNCHANGED owner
       \/ queue["owner"] = <<>> /\ owner' = "gone" /\ UNCHANGED queueVars
    /\ UNCHANGED <<lockVars, bridgeVars, ownerVars, turnVars, gui>>

-----------------------------------------------------------------------------
GuiStep ==
    \/ DrainStart \/ DrainPop \/ GuiAcquire \/ GuiDispatch \/ NestEnter \/ NestLeave
    \/ GuiRelease \/ DrainNote \/ DrainRearm \/ Reconcile \/ FireWaiters
    \/ CloseWake \/ CloseJoin

OwnerStep ==
    \/ OwnerWait \/ OwnerClear \/ OwnerPop \/ OwnerAcquire \/ OwnerDispatch \/ OwnerRelease
    \/ OwnerTurn \/ OwnerYield \/ OwnerHook \/ OwnerExit

ProducerStep(p) ==
    \/ Tell(p) \/ Leave(p)
    \/ \E e \in Events : Put(p, e)

Next ==
    \/ GuiStep \/ OwnerStep
    \/ SectionStart \/ NestAnnounce \/ CloseStart
    \/ \E w \in Waiters : Arm(w)
    \/ \E p \in Producers : ProducerStep(p) \/ \E e \in Events : Submit(p, e)

Spec == Init /\ [][Next]_vars
=============================================================================
