---------------------------- MODULE UploadsProps ----------------------------
(***************************************************************************)
(* What the counters of the prepared uploads say of the preparations and   *)
(* of the buffers, and that no preparation is left open.                   *)
(***************************************************************************)
EXTENDS PreparedUploads, FiniteSets

\* The tasks that were submitted and not refused at the door, from the tasks
\* themselves and not from the counters.
Submitted == {i \in 1..offered : end[i] \notin {"lost", "deduped", "rejected"}}
             \cup IF owner.at = "submit" THEN {owner.task} ELSE {}
Pending == {i \in Submitted : stage[i] \in {"idle", "entered"} /\ end[i] # "dropped"}
InFlight == {i \in Tasks : stage[i] \in {"inside", "packed", "claimed"}}
Finishers(e) == {i \in Tasks : stage[i] = "left" /\ end[i] = e}
Ended(e) == {i \in Tasks : end[i] = e}

\* "Every submitted task is in exactly one" state or outcome, "at any instant,
\* including with tasks queued and tasks inside a worker closure"
\* (prepared_uploads.py:115,146): each counter is the number of the tasks it
\* stands for, through every interleaving of the two locks, and so
\* task_accounting_error is 0.
EveryTaskIsCounted ==
    /\ count.submitted = Cardinality(Submitted)
    /\ count.pending = Cardinality(Pending)
    /\ count.inFlight = Cardinality(InFlight)
    /\ \A e \in Finished : count[e] = Cardinality(Finishers(e))
    /\ \A e \in {"deduped", "rejected", "dropped"} : count[e] = Cardinality(Ended(e))

\* task_accounting_error() = 0
TasksAddUp == count.submitted = count.pending + count.inFlight + count.published
                                + count.refused + count.failed + count.dropped

\* "A published buffer leaves the mailbox exactly one way" (:126): stored ones
\* were taken, replaced, evicted, reset or are still there; and those that are
\* there weigh what the running total says, within the budget.
EveryBufferIsCounted ==
    /\ count.stored = count.hits + count.replaced + count.evicted + count.discarded
                      + Len(entries)
    /\ \A n, m \in DOMAIN entries : entries[n].key = entries[m].key => n = m
    /\ residentBytes = Weight(entries)[Len(entries)]
    /\ BudgetBytes # 0 => residentBytes <= BudgetBytes

\* The owner's loop and the workers go on, the kernel starts or drops what it
\* admitted (Kernel!EventuallyTold), and a started closure is called or refused.
\* The owner drains its completions, all of them, while the window is open.
FairSpec ==
    /\ Spec
    /\ WF_vars(OwnerStep)
    /\ \A i \in Tasks : /\ WF_vars(ClosureStep(i) \/ Settles(i))
                        /\ WF_vars(Begins(i) \/ Drops(i))
                        /\ WF_vars(Tells(i))

\* "One planned preparation, from planning to exactly one terminal outcome"
\* (:173): a task is eventually counted under an outcome, unless the window
\* closes first, or its own planning did not come to its end.
EveryTaskEnds ==
    \A i \in Tasks :
        i <= generation ~> \/ end[i] \in {"lost", "deduped", "rejected", "dropped"}
                           \/ stage[i] = "left"
                           \/ shutting
=============================================================================
