----------------------------- MODULE KernelProps -----------------------------
(***************************************************************************)
(* What must be true of the kernel of Kernel.tla.                          *)
(***************************************************************************)
EXTENDS Kernel

Values == {NoValue} \cup {s.value : s \in Specs}

\* Every variable has its type.
TypeOK ==
    /\ next \in 1..(MaxSeq + 1)
    /\ spec \in [Seqs -> Specs \cup {NoSpec}]
    /\ rank \in [Seqs -> Nat]
    /\ state \in [Seqs -> States]
    /\ body \in [Seqs -> {"idle", "begun", "refused"}]
    /\ token \in [Seqs -> BOOLEAN]
    /\ superseded \in [Seqs -> BOOLEAN]
    /\ unmet \in [Seqs -> SUBSET Keys]
    /\ snap \in [Seqs -> [Scopes -> Nat]]
    /\ byKey \in [Keys -> {0} \cup Seqs]
    /\ completed \in [Keys -> Scopes \cup {Absent, Unscoped}]
    /\ family \in [Families -> Values]
    /\ scopeEpoch \in [Scopes -> Nat]
    /\ epoch \in 0..MaxClears
    /\ laneQuota \in [Lanes -> Nat \cup {NoQuota}]
    /\ queuedVisible \in Nat /\ runVisible \in Nat /\ runOptional \in Nat
    /\ runLane \in [Lanes -> Nat]
    /\ shutting \in BOOLEAN /\ popping \in BOOLEAN
    /\ queue \in Seq(SUBSET Seqs)
    /\ fate \in [Seqs -> Outcomes \cup {NoOutcome}]
    /\ told \in [Seqs -> Outcomes \cup {NoOutcome, "stale_reused"}]

\* A sequence number is handed out exactly once, and exactly the tasks below
\* `next' have a record or had one.
Admitted ==
    \A i \in Seqs : /\ state[i] # "new" <=> i < next
                    /\ i < next => spec[i] \in Specs

Pending(i) == \E n \in 1..Len(queue) : i \in queue[n]

\* Every admitted task owes exactly one terminal completion (the contract of
\* scheduler.py:438-444): while it lives nothing was delivered for it, and once
\* it is forgotten its event is in the queue, once, or its handlers were told.
OneTerminalCompletion ==
    /\ \A i \in Seqs :
        /\ state[i] = "done" <=> fate[i] # NoOutcome
        /\ Pending(i) <=> (fate[i] # NoOutcome /\ told[i] = NoOutcome)
        /\ told[i] # NoOutcome => fate[i] # NoOutcome
    /\ \A n, m \in 1..Len(queue) : n # m => queue[n] \cap queue[m] = {}
    /\ \A n \in 1..Len(queue) : queue[n] # {}

\* _by_key names the one live instance of a key that no newer instance
\* replaced; has_live_task and the next resubmission rely on it.  In
\* particular an old instance that finishes late does not unlist the new one.
KeyIndex ==
    /\ \A k \in Keys : byKey[k] # 0 => /\ byKey[k] \in Live
                                       /\ spec[byKey[k]].key = k
                                       /\ ~superseded[byKey[k]]
    /\ \A i \in Live : superseded[i] \/ byKey[spec[i].key] = i

\* Staleness and cancellation remove unstarted records at once: what is queued
\* or parked is current, so the scheduler's own re-check at pop has nothing
\* left to find.
UnstartedAreCurrent ==
    \A i \in Unstarted : ~token[i] /\ ~superseded[i] /\ ~OffTarget(i) /\ ~ScopeCleared(i)
                         /\ ~shutting

\* A running task that went stale, by whichever of the three sources or by
\* shutdown, was told through its token, unless its result can be reused.
StaleRunningIsCancelled ==
    \A i \in Running : Stale(i) /\ ~spec[i].reusable => token[i]

\* No lost wakeup (scheduler.py:858-870): outside the pop loop a quota-parked
\* record is parked for a reason that still holds, and a dependency-parked one
\* still has an unmet dependency.
ParkedForAReason ==
    /\ \A i \in Seqs : state[i] = "parked_quota" => Blocked(i)
    /\ \A i \in Seqs : state[i] = "parked_deps" <=> unmet[i] # {}

\* What satisfies a dependency is a result whose scope was not cleared since
\* ("a cleared result must not satisfy a later dependency", scheduler.py:128).
CompletedIsFresh ==
    \A k \in Keys : completed[k] \in Scopes =>
        \E i \in Seqs : /\ state[i] = "done" /\ fate[i] = "completed"
                        /\ spec[i].key = k /\ spec[i].scope = completed[k]
                        /\ ~ScopeCleared(i)

Starts(i) == state[i] = "queued" /\ state'[i] = "running"
RunningIn(l) == {i \in Running : spec[i].lane = l}
RunningOptional == {i \in Running : ~Visible(i)}
VisibleWork == {i \in Live : Visible(i)}

\* The reasons not to start i, from the records themselves and not from the
\* kernel's counters.
ReallyBlocked(i) ==
    \/ /\ laneQuota[spec[i].lane] # NoQuota
       /\ Cardinality(RunningIn(spec[i].lane)) >= laneQuota[spec[i].lane]
    \/ /\ ~Visible(i)
       /\ \/ Cardinality(RunningOptional) >= OptQuota
          \/ VisibleWork # {} /\ spec[i].worth = 0
          \/ spec[i].worth < Threshold

\* A task starts only when its lane has room, and an optional one only within
\* the speculative share and, when it is worth nothing, with no visible work
\* queued, parked or running.
AdmissionIsRespected ==
    [][\A i \in Seqs : Starts(i) => ~ReallyBlocked(i)]_vars

\* No priority inversion: when a task starts, every task that has not started
\* and sorts before it waits for a dependency, or is kept back by a quota that
\* holds at that moment.
NoInversion ==
    [][\A i, j \in Seqs :
         Starts(i) /\ j \in Unstarted \ {i} /\ Ahead(j, i)
            => state[j] = "parked_deps" \/ ReallyBlocked(j)]_vars

\* A task starts only after each of its dependencies has had an instance that
\* completed without being stale, or was recorded as done inline.
DepsCompleteFirst ==
    [][\A i \in Seqs : Starts(i) =>
         \A d \in spec[i].deps :
            \/ d \in InlineKeys
            \/ \E j \in Seqs : spec[j] # NoSpec /\ spec[j].key = d /\ fate[j] = "completed"]_vars

\* Latest wins (dispatch_event, scheduler.py:528: "work that completed just
\* before its target changed must not commit stale pixels"): handlers are told
\* "completed" only of a task whose value is the one its family was last
\* submitted with, and whose scope was not cleared since it was submitted.
LatestOf(f) == {i \in Seqs : /\ i < next /\ spec[i].family = f
                             /\ \A j \in Seqs : j < next /\ spec[j].family = f => j <= i}
LatestWins ==
    [][\A i \in Seqs : told[i] = NoOutcome /\ told'[i] = "completed" =>
         /\ ~ScopeCleared(i) /\ ~shutting
         /\ \A j \in LatestOf(spec[i].family) :
               spec[i].family \in Families => spec[j].value = spec[i].value]_vars

-----------------------------------------------------------------------------
(* The promise to callers, as a refinement. *)

phaseOf == [i \in Seqs |-> CASE state[i] = "new" -> "absent"
                             [] state[i] \in UnstartedStates -> "waiting"
                             [] state[i] = "running" -> "started"
                             [] state[i] = "done" /\ told[i] = NoOutcome -> "settled"
                             [] state[i] = "done" /\ told[i] # NoOutcome -> "told"]
outcomeOf == [i \in Seqs |-> IF told[i] # NoOutcome THEN told[i] ELSE fate[i]]

Ledger == INSTANCE TaskLedger WITH Tasks <- Seqs, phase <- phaseOf, outcome <- outcomeOf

\* The kernel implements the ledger of terminal completions: one life line per
\* task, one outcome, told once, "dropped" only without having run.
ImplementsLedger == Ledger!LedgerSpec

-----------------------------------------------------------------------------
(* Liveness.  Worker threads poll at least every 0.1 s (_take_next), a task  *)
(* function ends, and the consumer drains while the window is open.  Strong  *)
(* fairness is that of the lock: a thread that waits for it while others     *)
(* take and release it gets it in the end.  A task is executed once and then *)
(* finished once, so fairness of the two together is fairness of each.       *)

Fairness ==
    /\ WF_vars(Pop)
    /\ \A i \in Seqs : SF_vars(Execute(i) \/ \E o \in Outcomes : Finish(i, o))
    /\ SF_vars(~shutting /\ \E i \in Seqs : Dispatch(i))

FairSpec == Spec /\ Fairness

\* "Silence is never an option" (task.py:106-109): every admitted task is
\* eventually settled, and its handlers are told unless the window closed.
EventuallyTold ==
    \A i \in Seqs : state[i] # "new" ~> fate[i] # NoOutcome /\ (told[i] # NoOutcome \/ shutting)

-----------------------------------------------------------------------------
(* What comments and docstrings say, and the code does not do. *)

\* "A failed/dropped dependency drops the dependent" (task.py:107): when the
\* only live instance of a key is dropped, the records parked on that key go
\* with it.
DropReachesDependents ==
    [][\A i, j \in Seqs :
         (/\ state[i] \in UnstartedStates /\ state'[i] = "done" /\ fate'[i] = "dropped"
          /\ \A m \in Live : m # i => spec[m].key # spec[i].key
          /\ \A m \in Seqs : state[m] = "new" /\ state'[m] # "new" => spec'[m].key # spec[i].key
          /\ state[j] = "parked_deps" /\ spec[i].key \in unmet[j])
         => state'[j] # "parked_deps"]_vars
=============================================================================
