------------------------------- MODULE Kernel -------------------------------
(***************************************************************************)
(* The execution kernel of ArrayScope (src/arrayscope/kernel): submit,     *)
(* schedule, execute, deliver, under one lock and one completion queue.    *)
(*                                                                         *)
(* A task instance is its sequence number.  Every critical section of      *)
(* scheduler.py is one action; the only one cut into steps is the loop of  *)
(* _pop_ready_locked, whose iterations are actions of their own while      *)
(* `popping' keeps everybody else off the lock.  The heap, the parked list *)
(* and _dep_waiters are indexes over the records in the code ("Heap/parked *)
(* entries are indexes over records", scheduler.py:449) and are derived    *)
(* from `state' and `unmet' here.  The lane statistics (LaneCounters),     *)
(* tracing and timing are left out; the counters that decide admission are *)
(* kept as the code keeps them.                                            *)
(***************************************************************************)
EXTENDS Integers, Sequences, FiniteSets

CONSTANTS
    MaxSeq,         \* bound: how many tasks are ever submitted
    MaxClears,      \* bound: how many times clear_scope is called
    Workers,        \* threads of ThreadWorkerBackend
    OptQuota,       \* max(1, int(workers * speculative_fraction))
    Threshold,      \* optional_value_threshold
    Keys, Scopes, Families, Lanes, Tiles,
    VisibleLanes,   \* task.VISIBLE_LANES
    Ancestors,      \* Ancestors[c]: scope_prefixes() of scope c, c included
    Specs,          \* the TaskSpecs callers submit
    Workload,       \* bound: Workload[i], the specs that may be submitted i-th
    Endings,        \* bound: what task functions may do
    LookUpDeps,     \* whether callers look a dependency up as they submit
    Clearable,      \* scopes some caller clears
    Handles,        \* submissions whose caller keeps the TaskHandle to cancel
    Quotas,         \* <<lane, quota>> pairs passed to set_lane_quota
    Ranks,          \* scheduling ranks passed to rerank_unstarted_tile_tasks
    InlineKeys,     \* keys passed to note_inline_work
    MayShutdown,    \* whether the window may close
    NoSpec, NoFamily, NoQuota, NoValue, NoOutcome,
    Absent,         \* key not in _completed_keys
    Unscoped        \* the scope "" note_inline_work records

Seqs == 1..MaxSeq

ASSUME BoundsAssumption ==
    /\ MaxSeq \in Nat \ {0}
    /\ MaxClears \in Nat
    /\ Workers \in Nat \ {0}
    /\ OptQuota \in Nat \ {0}
    /\ Threshold \in Nat
    /\ MayShutdown \in BOOLEAN /\ LookUpDeps \in BOOLEAN

ASSUME SetsAssumption ==
    /\ VisibleLanes \subseteq Lanes
    /\ Ancestors \in [Scopes -> SUBSET Scopes]
    /\ \A c \in Scopes : c \in Ancestors[c]
    /\ Clearable \subseteq Scopes
    /\ Workload \in [Seqs -> SUBSET Specs]
    /\ Endings \subseteq {"completed", "failed", "cancelled"}
    /\ Handles \subseteq Seqs
    /\ InlineKeys \subseteq Keys
    /\ Ranks \subseteq Nat
    /\ Quotas \subseteq Lanes \X (Nat \cup {NoQuota})
    /\ NoQuota \notin Nat
    /\ NoSpec \notin Specs
    /\ NoFamily \notin Families
    /\ Absent \notin Scopes
    /\ Unscoped \notin Scopes
    /\ Absent # Unscoped

\* TaskSpec (task.py:98-175): lane decides visibility, family/value is the
\* Supersession, worth stands for expected_value, deadline 0 means none.
ASSUME SpecsAssumption ==
    \A s \in Specs :
        /\ s.key \in Keys /\ s.lane \in Lanes /\ s.scope \in Scopes
        /\ s.tile \in Tiles /\ s.deps \subseteq Keys
        /\ s.family \in Families \cup {NoFamily}
        /\ s.value # NoValue
        /\ s.priority \in Nat /\ s.rank \in Nat /\ s.deadline \in Nat /\ s.worth \in Nat
        /\ s.reusable \in BOOLEAN

ASSUME OutcomeAssumption ==
    NoOutcome \notin {"completed", "failed", "cancelled", "stale", "dropped", "stale_reused"}

VARIABLES
    next,           \* the next value of _seq
    spec,           \* [Seqs -> Specs]: record.spec, ranks apart
    rank,           \* [Seqs -> Nat]: record.spec.scheduling_rank
    state,          \* [Seqs -> States]: record.state; "done" once forgotten
    body,           \* [Seqs -> {"idle", "begun", "refused"}]: progress of _execute
    token,          \* [Seqs -> BOOLEAN]: record.token.cancelled
    superseded,     \* [Seqs -> BOOLEAN]: record.superseded
    unmet,          \* [Seqs -> SUBSET Keys]: record.unmet_deps
    snap,           \* [Seqs -> [Scopes -> Nat]]: record.scope_snapshot
    byKey,          \* [Keys -> 0..MaxSeq]: _by_key, 0 when absent
    completed,      \* [Keys -> scope, Unscoped or Absent]: _completed_keys
    family,         \* [Families -> value or NoValue]: _supersession
    scopeEpoch,     \* [Scopes -> Nat]: _scope_epochs
    epoch,          \* how often clear_scope has run: the counter _epoch
    laneQuota,      \* [Lanes -> Nat or NoQuota]: _lane_quotas
    queuedVisible,  \* _queued_visible
    runVisible,     \* _running_visible
    runOptional,    \* _running_optional
    runLane,        \* [Lanes -> Nat]: _running_by_lane
    shutting,       \* _shutting_down
    popping,        \* a worker holds the lock inside the _pop_ready_locked loop
    queue,          \* the CompletionQueue: one set of events per critical section
    fate,           \* [Seqs -> outcome of the event delivered for it]
    told            \* [Seqs -> outcome dispatch_event settled on]

keyVars == <<byKey, completed, family>>
scopeVars == <<scopeEpoch, epoch>>
runVars == <<runVisible, runOptional, runLane>>
deliveryVars == <<queue, fate, told>>
recordVars == <<spec, rank, body, token, superseded, unmet, snap>>
vars == <<next, spec, rank, state, body, token, superseded, unmet, snap, byKey,
          completed, family, scopeEpoch, epoch, laneQuota, queuedVisible,
          runVisible, runOptional, runLane, shutting, popping, queue, fate, told>>

UnstartedStates == {"queued", "parked_deps", "parked_quota"}
States == UnstartedStates \cup {"new", "running", "done"}
Outcomes == {"completed", "failed", "cancelled", "stale", "dropped"}

Init ==
    /\ next = 1
    /\ spec = [i \in Seqs |-> NoSpec]
    /\ rank = [i \in Seqs |-> 0]
    /\ state = [i \in Seqs |-> "new"]
    /\ body = [i \in Seqs |-> "idle"]
    /\ token = [i \in Seqs |-> FALSE]
    /\ superseded = [i \in Seqs |-> FALSE]
    /\ unmet = [i \in Seqs |-> {}]
    /\ snap = [i \in Seqs |-> [c \in Scopes |-> 0]]
    /\ byKey = [k \in Keys |-> 0]
    /\ completed = [k \in Keys |-> Absent]
    /\ family = [f \in Families |-> NoValue]
    /\ scopeEpoch = [c \in Scopes |-> 0]
    /\ epoch = 0
    /\ laneQuota = [l \in Lanes |-> NoQuota]
    /\ queuedVisible = 0 /\ runVisible = 0 /\ runOptional = 0
    /\ runLane = [l \in Lanes |-> 0]
    /\ shutting = FALSE
    /\ popping = FALSE
    /\ queue = <<>>
    /\ fate = [i \in Seqs |-> NoOutcome]
    /\ told = [i \in Seqs |-> NoOutcome]

-----------------------------------------------------------------------------
(* What the critical sections read *)

In(S) == {i \in Seqs : state[i] \in S}
Unstarted == In(UnstartedStates)
Queued == In({"queued"})
ParkedDeps == In({"parked_deps"})
Running == In({"running"})
Live == Unstarted \cup Running          \* the keys of _records

Visible(i) == spec[i].lane \in VisibleLanes

ScopeCleared(i) == \E c \in Ancestors[spec[i].scope] : scopeEpoch[c] > snap[i][c]
OffTarget(i) == /\ spec[i].family \in Families
                /\ family[spec[i].family] \notin {NoValue, spec[i].value}
Stale_NoTarget(i) == shutting \/ superseded[i] \/ ScopeCleared(i)
Stale(i) == shutting \/ superseded[i] \/ OffTarget(i) \/ ScopeCleared(i)

AtLeast0(n) == IF n < 0 THEN 0 ELSE n

LaneBlocked_OffByOne(i) == /\ laneQuota[spec[i].lane] # NoQuota
                           /\ runLane[spec[i].lane] > laneQuota[spec[i].lane]
LaneBlocked(i) == /\ laneQuota[spec[i].lane] # NoQuota
                  /\ runLane[spec[i].lane] >= laneQuota[spec[i].lane]
OptionalBlocked(i) ==
    /\ ~Visible(i)
    /\ \/ runOptional >= OptQuota
       \/ queuedVisible + runVisible > 0 /\ spec[i].worth = 0
       \/ spec[i].worth < Threshold
Blocked(i) == LaneBlocked(i) \/ OptionalBlocked(i)

\* The heap order: visible first, then priority, rank, deadline, age.
HeapEntry(i) == <<IF Visible(i) THEN 0 ELSE 1, spec[i].priority, rank[i],
                  IF spec[i].deadline = 0 THEN 1 ELSE 0, spec[i].deadline, i>>
Ahead(i, j) == \E n \in 1..6 : /\ HeapEntry(i)[n] < HeapEntry(j)[n]
                               /\ \A m \in 1..(n - 1) : HeapEntry(i)[m] = HeapEntry(j)[m]

\* The records _fail_dependents_locked(k) drops: the waiters of k, the
\* waiters of their keys, and so on.
Waits(j, k, S) == k \in unmet[j] \/ \E i \in S : spec[i].key \in unmet[j]
Dependents(k) ==
    {j \in ParkedDeps : \A S \in SUBSET ParkedDeps :
        (\A r \in ParkedDeps : Waits(r, k, S) => r \in S) => j \in S}

-----------------------------------------------------------------------------
(* What the critical sections write.  Discarding a set D of unstarted       *)
(* records is _decrement_queued_locked, _forget_record_locked,              *)
(* _deliver_locked and _wake_after_blocking_removal_locked of each: the     *)
(* last visible one to go releases the quota-parked records.                *)

VisibleAfter(D) == AtLeast0(queuedVisible - Cardinality({i \in D : Visible(i)}))
WakeEdge(D) == (\E i \in D : Visible(i)) /\ VisibleAfter(D) + runVisible = 0
StateAfter(D) ==
    [i \in Seqs |-> IF i \in D THEN "done"
                    ELSE IF state[i] = "parked_quota" /\ WakeEdge(D) THEN "queued"
                    ELSE state[i]]
KeysAfter(D) ==
    [k \in Keys |-> IF \E i \in D : byKey[k] = i /\ spec[i].key = k THEN 0 ELSE byKey[k]]
UnmetAfter(D) == [i \in Seqs |-> IF i \in D THEN {} ELSE unmet[i]]
FateAfter(D, o) == [i \in Seqs |-> IF i \in D THEN o ELSE fate[i]]
QueueAfter_Silent(D) == IF Cardinality(D) # 1 THEN queue ELSE Append(queue, D)
QueueAfter(D) == IF D = {} THEN queue ELSE Append(queue, D)

\* _release_parked_quota_locked, on a state function.
Released_Optional(st) ==
    [i \in Seqs |-> IF st[i] = "parked_quota" /\ ~Visible(i) THEN "queued" ELSE st[i]]
Released(st) == [i \in Seqs |-> IF st[i] = "parked_quota" THEN "queued" ELSE st[i]]

Discard(D, o) ==
    /\ state' = StateAfter(D)
    /\ queuedVisible' = VisibleAfter(D)
    /\ byKey' = KeysAfter(D)
    /\ unmet' = UnmetAfter(D)
    /\ fate' = FateAfter(D, o)
    /\ queue' = QueueAfter(D)

\* Non-reusable running records that went stale get their token cancelled.
CancelRunning_Never(R) == R \subseteq Running /\ UNCHANGED token
CancelRunning(R) == token' = [i \in Seqs |-> token[i] \/ (i \in R /\ ~spec[i].reusable)]

\* Only records that have not started are dropped.
Droppable_Any(S) == S
Droppable(S) == S \cap Unstarted

\* _purge_completed_locked: results of the scope and of its children.
Purged_ScopeOnly(c) == [k \in Keys |-> IF completed[k] = c THEN Absent ELSE completed[k]]
Purged(c) == [k \in Keys |-> IF completed[k] \in Scopes /\ c \in Ancestors[completed[k]]
                             THEN Absent ELSE completed[k]]

\* The waiters _promote_dependents_locked(k) makes ready, met being what is
\* left of everybody's dependencies.
Promoted_FirstDep(k, met) == {j \in ParkedDeps : k \in unmet[j] /\ met[j] \subseteq Keys}
Promoted(k, met) == {j \in ParkedDeps : k \in unmet[j] /\ met[j] = {}}

-----------------------------------------------------------------------------
(* Callers *)

Retargeted(s) ==
    IF s.family \notin Families \/ family[s.family] = s.value THEN {}
    ELSE {i \in Live : spec[i].family = s.family /\ spec[i].value # s.value}
Previous(s) == {i \in Live : byKey[s.key] = i}

HasLiveTask(k) == byKey[k] # 0 /\ byKey[k] \in Live /\ ~superseded[byKey[k]]
HasCompletedTask(k) == completed[k] # Absent

\* Kernel.submit.  With LookUpDeps the caller names only dependencies it finds
\* live or completed (_stage_producer_key, window/frame_effects.py).
Submit(s) ==
    LET i == next
        hit == Retargeted(s) \cup Previous(s)
        drop == Droppable(hit)
        missing == {d \in s.deps : completed[d] = Absent}
    IN
    /\ ~popping /\ ~shutting
    /\ i <= MaxSeq /\ s \in Workload[i]
    /\ LookUpDeps => \A d \in s.deps : HasLiveTask(d) \/ HasCompletedTask(d)
    /\ next' = next + 1
    /\ spec' = [spec EXCEPT ![i] = s]
    /\ rank' = [rank EXCEPT ![i] = s.rank]
    /\ snap' = [snap EXCEPT ![i] =
                   [c \in Scopes |-> IF c \in Ancestors[s.scope] THEN scopeEpoch[c] ELSE 0]]
    /\ family' = IF s.family \in Families THEN [family EXCEPT ![s.family] = s.value] ELSE family
    /\ superseded' = [j \in Seqs |-> superseded[j] \/ j \in Previous(s)]
    /\ CancelRunning(hit \cap Running)
    /\ state' = [StateAfter(drop) EXCEPT ![i] = IF missing = {} THEN "queued" ELSE "parked_deps"]
    /\ unmet' = [UnmetAfter(drop) EXCEPT ![i] = missing]
    /\ byKey' = [KeysAfter(drop) EXCEPT ![s.key] = i]
    /\ queuedVisible' = VisibleAfter(drop) + (IF s.lane \in VisibleLanes THEN 1 ELSE 0)
    /\ fate' = FateAfter(drop, "dropped")
    /\ queue' = QueueAfter(drop)
    /\ UNCHANGED <<body, completed, scopeVars, laneQuota, runVars, shutting, popping, told>>

\* TaskHandle.cancel.
CancelHandle(i) ==
    /\ ~popping
    /\ i \in Handles \cap Live
    /\ token' = [token EXCEPT ![i] = TRUE]
    /\ IF i \in Unstarted
       THEN Discard({i}, "cancelled")
       ELSE UNCHANGED <<state, queuedVisible, byKey, unmet, fate, queue>>
    /\ UNCHANGED <<next, spec, rank, body, superseded, snap, completed, family, scopeVars,
                   laneQuota, runVars, shutting, popping, told>>

\* Kernel.clear_scope.
ClearScope(c) ==
    LET gone(i) == c \in Ancestors[spec[i].scope] \/ Stale(i)
    IN
    /\ ~popping
    /\ epoch < MaxClears
    /\ epoch' = epoch + 1
    /\ scopeEpoch' = [scopeEpoch EXCEPT ![c] = epoch + 1]
    /\ completed' = Purged(c)
    /\ Discard(Droppable({i \in Live : gone(i)}), "dropped")
    /\ CancelRunning({i \in Running : gone(i)})
    /\ UNCHANGED <<next, spec, rank, body, superseded, snap, family, laneQuota, runVars,
                   shutting, popping, told>>

\* Kernel.rerank_unstarted_tile_tasks, for the tiles of one session.
Rerank(ranks) ==
    /\ ~popping
    /\ rank' = [i \in Seqs |-> IF i \in Unstarted /\ spec[i].tile \in DOMAIN ranks
                               THEN ranks[spec[i].tile] ELSE rank[i]]
    /\ UNCHANGED <<next, spec, state, body, token, superseded, unmet, snap, keyVars, scopeVars,
                   laneQuota, queuedVisible, runVars, shutting, popping, deliveryVars>>

\* Kernel.set_lane_quota.
SetLaneQuota(l, q) ==
    /\ ~popping
    /\ laneQuota[l] # q
    /\ laneQuota' = [laneQuota EXCEPT ![l] = q]
    /\ state' = Released(state)
    /\ UNCHANGED <<next, recordVars, keyVars, scopeVars, queuedVisible, runVars, shutting,
                   popping, deliveryVars>>

\* Kernel.note_inline_work.
InlineWork(k) ==
    /\ ~popping
    /\ completed' = [completed EXCEPT ![k] = Unscoped]
    /\ UNCHANGED <<next, recordVars, state, byKey, family, scopeVars, laneQuota, queuedVisible,
                   runVars, shutting, popping, deliveryVars>>

\* Kernel.shutdown.  No wake edge: the parked list is cleared instead.
Shutdown ==
    /\ ~popping /\ ~shutting /\ MayShutdown
    /\ shutting' = TRUE
    /\ token' = [i \in Seqs |-> token[i] \/ i \in Live]
    /\ state' = [i \in Seqs |-> IF i \in Unstarted THEN "done" ELSE state[i]]
    /\ queuedVisible' = VisibleAfter(Unstarted)
    /\ byKey' = KeysAfter(Unstarted)
    /\ unmet' = UnmetAfter(Unstarted)
    /\ fate' = FateAfter(Unstarted, "cancelled")
    /\ queue' = QueueAfter(Unstarted)
    /\ UNCHANGED <<next, spec, rank, body, superseded, snap, completed, family, scopeVars,
                   laneQuota, runVars, popping, told>>

-----------------------------------------------------------------------------
(* Workers: _take_next and its loop _pop_ready_locked *)

\* The heap's first entry, seen by a worker with nothing else to run.
IsHead(i) == /\ i \in Queued
             /\ \A j \in Queued \ {i} : Ahead(i, j)
             /\ Cardinality(Running) < Workers

\* The loop goes on while the heap is not empty.
LoopOn == popping' = (\E j \in Seqs : state'[j] = "queued")

\* A stale record, a cancelled one, or an optional one past its deadline is
\* not started.  The clock is not modelled: a deadline may have passed at
\* any pop.
PopDiscard(i) ==
    /\ IsHead(i)
    /\ Stale(i) \/ token[i] \/ (spec[i].deadline > 0 /\ ~Visible(i))
    /\ Discard({i}, IF ~Stale(i) /\ token[i] THEN "cancelled" ELSE "dropped")
    /\ LoopOn
    /\ UNCHANGED <<next, spec, rank, body, token, superseded, snap, completed, family, scopeVars,
                   laneQuota, runVars, shutting, told>>

PopPark(i) ==
    /\ IsHead(i)
    /\ ~Stale(i) /\ ~token[i] /\ Blocked(i)
    /\ state' = [state EXCEPT ![i] = "parked_quota"]
    /\ LoopOn
    /\ UNCHANGED <<next, recordVars, keyVars, scopeVars, laneQuota, queuedVisible, runVars,
                   shutting, deliveryVars>>

PopTake(i) ==
    /\ IsHead(i)
    /\ ~Stale(i) /\ ~token[i] /\ ~Blocked(i)
    /\ state' = [state EXCEPT ![i] = "running"]
    /\ queuedVisible' = IF Visible(i) THEN AtLeast0(queuedVisible - 1) ELSE queuedVisible
    /\ runVisible' = IF Visible(i) THEN runVisible + 1 ELSE runVisible
    /\ runOptional' = IF Visible(i) THEN runOptional ELSE runOptional + 1
    /\ runLane' = [runLane EXCEPT ![spec[i].lane] = @ + 1]
    /\ popping' = FALSE
    /\ UNCHANGED <<next, recordVars, keyVars, scopeVars, laneQuota, shutting, deliveryVars>>

-----------------------------------------------------------------------------
(* Workers: _execute and _finish *)

\* The token is read once, before the task function is called.
Execute(i) ==
    /\ ~popping
    /\ i \in Running /\ body[i] = "idle"
    /\ body' = [body EXCEPT ![i] = IF token[i] THEN "refused" ELSE "begun"]
    /\ UNCHANGED <<next, spec, rank, state, token, superseded, unmet, snap, keyVars, scopeVars,
                   laneQuota, queuedVisible, runVars, shutting, popping, deliveryVars>>

\* What _execute reports: the function returned, raised, or noticed its
\* token (EvaluationCancelled).
Reports(i) == CASE body[i] = "begun"   -> Endings
                [] body[i] = "refused" -> {"cancelled"}
                [] OTHER               -> {}

Finish(i, report) ==
    LET o == IF report = "completed" /\ Stale(i) THEN "stale" ELSE report
        k == spec[i].key
        lost == IF o = "completed" THEN {} ELSE Dependents(k)
        met == [j \in Seqs |-> IF state[j] = "parked_deps" THEN unmet[j] \ {k} ELSE unmet[j]]
        promoted == IF o = "completed" THEN Promoted(k, met) ELSE {}
    IN
    /\ ~popping
    /\ i \in Running
    /\ report \in Reports(i)
    /\ runVisible' = IF Visible(i) THEN AtLeast0(runVisible - 1) ELSE runVisible
    /\ runOptional' = IF Visible(i) THEN runOptional ELSE AtLeast0(runOptional - 1)
    /\ runLane' = [runLane EXCEPT ![spec[i].lane] = AtLeast0(@ - 1)]
    /\ completed' = IF o = "completed" THEN [completed EXCEPT ![k] = spec[i].scope] ELSE completed
    /\ state' = Released([j \in Seqs |-> IF j = i \/ j \in lost THEN "done"
                                         ELSE IF j \in promoted THEN "queued"
                                         ELSE state[j]])
    /\ unmet' = [j \in Seqs |-> IF j = i \/ j \in lost THEN {}
                                ELSE IF o = "completed" THEN met[j] ELSE unmet[j]]
    /\ queuedVisible' = VisibleAfter(lost)
    /\ byKey' = KeysAfter(lost \cup {i})
    /\ fate' = [FateAfter(lost, "dropped") EXCEPT ![i] = o]
    /\ queue' = Append(QueueAfter(lost), {i})
    /\ body' = [body EXCEPT ![i] = "idle"]
    /\ UNCHANGED <<next, spec, rank, token, superseded, snap, family, scopeVars, laneQuota,
                   shutting, popping, told>>

-----------------------------------------------------------------------------
(* The consumer: the Qt bridge or the owner thread *)

\* CompletionQueue.pop and dispatch_event; handlers run after the lock is
\* released.  A body's value is never None here, so a stale one is reused
\* whenever the caller gave on_reuse, which callers pair with reusable.
Dispatch(i) ==
    LET restale == fate[i] = "completed" /\ Stale(i)
        o == IF restale THEN "stale" ELSE fate[i]
    IN
    /\ ~popping
    /\ queue # <<>> /\ i \in Head(queue)
    /\ queue' = IF Head(queue) = {i} THEN Tail(queue) ELSE [queue EXCEPT ![1] = @ \ {i}]
    /\ completed' = IF restale THEN [completed EXCEPT ![spec[i].key] = Absent] ELSE completed
    /\ told' = [told EXCEPT ![i] = IF o = "stale" /\ spec[i].reusable THEN "stale_reused" ELSE o]
    /\ UNCHANGED <<next, recordVars, state, byKey, family, scopeVars, laneQuota, queuedVisible,
                   runVars, shutting, popping, fate>>

-----------------------------------------------------------------------------
Pop == \E i \in Seqs : PopDiscard(i) \/ PopPark(i) \/ PopTake(i)

Next ==
    \/ \E s \in Specs : Submit(s)
    \/ \E i \in Seqs : CancelHandle(i)
    \/ \E c \in Clearable : ClearScope(c)
    \/ \E T \in SUBSET Tiles : \E ranks \in [T -> Ranks] : T # {} /\ Rerank(ranks)
    \/ \E q \in Quotas : SetLaneQuota(q[1], q[2])
    \/ \E k \in InlineKeys : InlineWork(k)
    \/ Shutdown
    \/ Pop
    \/ \E i \in Seqs : Execute(i)
    \/ \E i \in Seqs, o \in Outcomes : Finish(i, o)
    \/ \E i \in Seqs : Dispatch(i)

Spec == Init /\ [][Next]_vars
=============================================================================
