-------------------------- MODULE PreparedUploads --------------------------
(***************************************************************************)
(* Worker-prepared upload buffers (presentation/prepared_uploads.py): the  *)
(* mailbox, the life of one preparation, and those who use them.  Under    *)
(* the session's order lock (called the owner here, on whichever thread it *)
(* runs) preparations are planned as payloads are admitted, submitted to   *)
(* the kernel, and told what became of them; workers prepare and publish;  *)
(* the GUI thread takes buffers as it commits, and resets.                 *)
(*                                                                         *)
(* The kernel is present through its promise, TaskLedger, which Kernel.tla *)
(* implements: a task is started or settled without running, and told once.*)
(* Every section under the mailbox's lock or a task's lock is one action.  *)
(* Left out are the counters of what is never planned or never found       *)
(* (skipped_*, misses), the peak and the breakdown of refusals, which      *)
(* nothing reads but a report; and discard, which has no caller.           *)
(***************************************************************************)
EXTENDS TaskLedger, Integers, Sequences, SequencesExt

CONSTANTS
    MaxTasks,       \* bound: how many preparations are planned
    Keys,           \* identities: what a buffer was prepared from, and how
    NBytes,         \* [Keys -> Nat]: the size of a key's buffer
    BudgetBytes,    \* _budget_bytes; 0 is no bound
    Workload        \* bound: Workload[i], the identities task i may be planned for

ASSUME UploadsAssumption ==
    /\ MaxTasks \in Nat
    /\ Tasks = 1..MaxTasks
    /\ Keys # {}
    /\ NBytes \in [Keys -> Nat]
    /\ BudgetBytes \in Nat
    /\ Workload \in [Tasks -> SUBSET Keys]

VARIABLES
    generation,     \* _generation: the number of the task planned last
    offered,        \* the last task _prepare_backend_uploads is done with, or lost
    key,            \* key[i]: the identity task i prepares, once it is planned
    owner,          \* [at, task]: what the owner is doing, between two locks
    stage,          \* [Tasks -> Stages]: how far the closure is
    end,            \* [Tasks -> Ends]: what became of the task
    settled,        \* [Tasks -> BOOLEAN]: _settled
    entries,        \* _entries, oldest first: sequence of [key, generation]
    residentBytes,  \* _resident_bytes
    count,          \* the mailbox's other counters
    shutting        \* the kernel is shutting down

taskVars == <<generation, offered, key, owner, stage, end, settled>>
vars == <<ledgerVars, taskVars, entries, residentBytes, count, shutting>>

Stages == {"idle", "entered", "inside", "packed", "claimed", "left"}
Finished == {"published", "refused", "failed"}
Ends == Finished \cup {"none", "lost", "deduped", "rejected", "dropped"}
Idle == [at |-> "idle", task |-> 0]
Counters == {"submitted", "pending", "inFlight", "deduped", "rejected", "dropped"} \cup Finished
            \cup {"stored", "hits", "replaced", "evicted", "discarded"}

Less(n) == IF n > 0 THEN n - 1 ELSE 0

Init ==
    /\ LedgerInit
    /\ generation = 0 /\ offered = 0
    /\ key = [i \in Tasks |-> CHOOSE k \in Keys : TRUE]
    /\ owner = Idle
    /\ stage = [i \in Tasks |-> "idle"]
    /\ end = [i \in Tasks |-> "none"]
    /\ settled = [i \in Tasks |-> FALSE]
    /\ entries = <<>> /\ residentBytes = 0
    /\ count = [c \in Counters |-> 0]
    /\ shutting = FALSE

-----------------------------------------------------------------------------
(* The mailbox *)

Holds(k) == \E n \in DOMAIN entries : entries[n].key = k
Others(k) ==
    IF Holds(k) THEN RemoveAt(entries, CHOOSE n \in DOMAIN entries : entries[n].key = k)
    ELSE entries

\* Weight(rows)[n] is what the first n rows weigh.
Weight(rows) ==
    LET sum[n \in 0..Len(rows)] == IF n = 0 THEN 0 ELSE sum[n - 1] + NBytes[rows[n].key]
    IN  sum

\* _evict_over_budget_locked: the entries published first go, never the last
\* of all.
Fits(rows, bytes, n) ==
    BudgetBytes = 0 \/ bytes - Weight(rows)[n] <= BudgetBytes
Evicted(rows, bytes) ==
    CHOOSE n \in 0..(Len(rows) - 1) :
        /\ Fits(rows, bytes, n) \/ n = Len(rows) - 1
        /\ \A m \in 0..(n - 1) : ~Fits(rows, bytes, m)

Oversized(k) == BudgetBytes # 0 /\ NBytes[k] > BudgetBytes
Straggler(i) == \E n \in DOMAIN entries : entries[n].key = key[i] /\ entries[n].generation > i

\* PreparedUploadMailbox.publish, when the buffer is stored.
Store(i) ==
    LET k == key[i]
        rows == Append(Others(k), [key |-> k, generation |-> i])
        bytes == (IF Holds(k) THEN residentBytes - NBytes[k] ELSE residentBytes) + NBytes[k]
        n == Evicted(rows, bytes)
    IN  /\ entries' = SubSeq(rows, n + 1, Len(rows))
        /\ residentBytes' = bytes - Weight(rows)[n]
        /\ count' = [count EXCEPT !.stored = @ + 1,
                                  !.replaced = IF Holds(k) THEN @ + 1 ELSE @,
                                  !.evicted = @ + n]

-----------------------------------------------------------------------------
(* The presentation owner: _prepare_backend_uploads *)

\* tiledUploadPreparations: a task for each payload that is worth preparing,
\* before the first of them is offered.
Plan(batch) ==
    /\ owner = Idle /\ offered = generation
    /\ generation + Len(batch) <= MaxTasks
    /\ \A n \in DOMAIN batch : batch[n] \in Workload[generation + n]
    /\ generation' = generation + Len(batch)
    /\ key' = [i \in Tasks |-> IF i \in (generation + 1)..generation'
                               THEN batch[i - generation] ELSE key[i]]
    /\ UNCHANGED <<ledgerVars, offered, owner, stage, end, settled, entries, residentBytes,
                   count, shutting>>

\* A payload raises after n tasks were planned: nobody has them, and what they
\* were planned for does not matter any more.
PlanRaises(n) ==
    /\ owner = Idle /\ offered = generation
    /\ generation + n <= MaxTasks
    /\ generation' = generation + n
    /\ offered' = generation'
    /\ end' = [i \in Tasks |-> IF i \in (generation + 1)..generation' THEN "lost" ELSE end[i]]
    /\ UNCHANGED <<ledgerVars, key, owner, stage, settled, entries, residentBytes, count,
                   shutting>>

Current == offered + 1
Offering == owner = Idle /\ offered < generation

\* What was prepared and not yet taken is not prepared again.
SkipHeld ==
    /\ Offering /\ Holds(key[Current])
    /\ offered' = Current
    /\ end' = [end EXCEPT ![Current] = "deduped"]
    /\ count' = [count EXCEPT !.deduped = @ + 1]
    /\ UNCHANGED <<ledgerVars, generation, key, owner, stage, settled, entries, residentBytes,
                   shutting>>

Offer ==
    /\ Offering /\ ~Holds(key[Current])
    /\ owner' = [at |-> "record", task |-> Current]
    /\ UNCHANGED <<ledgerVars, generation, offered, key, stage, end, settled, entries,
                   residentBytes, count, shutting>>

\* task.submitted(), before Kernel.submit may run the task.
Record ==
    /\ owner.at = "record"
    /\ owner' = [owner EXCEPT !.at = "submit"]
    /\ count' = [count EXCEPT !.submitted = @ + 1, !.pending = @ + 1]
    /\ UNCHANGED <<ledgerVars, generation, offered, key, stage, end, settled, entries,
                   residentBytes, shutting>>

Submit ==
    /\ owner.at = "submit" /\ ~shutting
    /\ phase' = [phase EXCEPT ![owner.task] = "waiting"]
    /\ offered' = owner.task
    /\ owner' = Idle
    /\ UNCHANGED <<outcome, generation, key, stage, end, settled, entries, residentBytes,
                   count, shutting>>

\* submit_rejected: nobody else knows the task.
Reject ==
    /\ owner.at = "submit" /\ shutting
    /\ offered' = owner.task
    /\ owner' = Idle
    /\ settled' = [settled EXCEPT ![owner.task] = TRUE]
    /\ end' = [end EXCEPT ![owner.task] = "rejected"]
    /\ count' = [count EXCEPT !.submitted = Less(@), !.pending = Less(@), !.rejected = @ + 1]
    /\ UNCHANGED <<ledgerVars, generation, key, stage, entries, residentBytes, shutting>>

-----------------------------------------------------------------------------
(* Workers: a task the kernel started, and its closure *)

Begins(i) ==
    /\ phase[i] = "waiting"
    /\ phase' = [phase EXCEPT ![i] = "started"]
    /\ UNCHANGED <<outcome, taskVars, entries, residentBytes, count, shutting>>

\* PreparedUploadTask.__enter__ takes the task's lock and then the mailbox's.
Enter(i) ==
    /\ phase[i] = "started" /\ stage[i] = "idle"
    /\ stage' = [stage EXCEPT ![i] = "entered"]
    /\ UNCHANGED <<ledgerVars, generation, offered, key, owner, end, settled, entries,
                   residentBytes, count, shutting>>

Started(i) ==
    /\ stage[i] = "entered"
    /\ stage' = [stage EXCEPT ![i] = "inside"]
    /\ count' = [count EXCEPT !.pending = Less(@), !.inFlight = @ + 1]
    /\ UNCHANGED <<ledgerVars, generation, offered, key, owner, end, settled, entries,
                   residentBytes, shutting>>

\* Mutant: packing raises past the bookkeeping of the closure.
Raise_Leaks(i) ==
    /\ stage[i] = "inside"
    /\ stage' = [stage EXCEPT ![i] = "left"]
    /\ end' = [end EXCEPT ![i] = "failed"]
    /\ UNCHANGED <<ledgerVars, generation, offered, key, owner, settled, entries,
                   residentBytes, count, shutting>>

Raise(i) ==
    /\ stage[i] = "inside"
    /\ stage' = [stage EXCEPT ![i] = "packed"]
    /\ end' = [end EXCEPT ![i] = "failed"]
    /\ UNCHANGED <<ledgerVars, generation, offered, key, owner, settled, entries,
                   residentBytes, count, shutting>>

Publish(i) ==
    /\ stage[i] = "inside"
    /\ ~Oversized(key[i]) /\ ~Straggler(i)
    /\ Store(i)
    /\ stage' = [stage EXCEPT ![i] = "packed"]
    /\ end' = [end EXCEPT ![i] = "published"]
    /\ UNCHANGED <<ledgerVars, generation, offered, key, owner, settled, shutting>>

PublishRefused(i) ==
    /\ stage[i] = "inside"
    /\ Oversized(key[i]) \/ Straggler(i)
    /\ stage' = [stage EXCEPT ![i] = "packed"]
    /\ end' = [end EXCEPT ![i] = "refused"]
    /\ UNCHANGED <<ledgerVars, generation, offered, key, owner, settled, entries,
                   residentBytes, count, shutting>>

\* _claim, in publish or in __exit__; _task_finished only for who claimed.
Claim(i) ==
    /\ stage[i] = "packed"
    /\ stage' = [stage EXCEPT ![i] = IF settled[i] THEN "left" ELSE "claimed"]
    /\ settled' = [settled EXCEPT ![i] = TRUE]
    /\ UNCHANGED <<ledgerVars, generation, offered, key, owner, end, entries, residentBytes,
                   count, shutting>>

Finishes(i) ==
    /\ stage[i] = "claimed"
    /\ stage' = [stage EXCEPT ![i] = "left"]
    /\ count' = [count EXCEPT !.inFlight = Less(@), ![end[i]] = @ + 1]
    /\ UNCHANGED <<ledgerVars, generation, offered, key, owner, end, settled, entries,
                   residentBytes, shutting>>

\* _execute: the closure raised, or was run to its end, or never called
\* because the token was cancelled first.
Reports(i) == CASE stage[i] = "idle" -> {"cancelled"}
                [] stage[i] = "left" -> IF end[i] = "failed" THEN {"failed"}
                                        ELSE {"completed", "stale"}
                [] OTHER             -> {}

Settles(i) ==
    /\ phase[i] = "started"
    /\ phase' = [phase EXCEPT ![i] = "settled"]
    /\ \E o \in Reports(i) : outcome' = [outcome EXCEPT ![i] = o]
    /\ UNCHANGED <<taskVars, entries, residentBytes, count, shutting>>

-----------------------------------------------------------------------------
(* The kernel drops tasks, shuts down, and tells the owner *)

\* Superseded by another payload of its tile, or its session's scope cleared;
\* nobody keeps the handle to cancel it.
Drops(i) ==
    /\ phase[i] = "waiting"
    /\ phase' = [phase EXCEPT ![i] = "settled"]
    /\ outcome' = [outcome EXCEPT ![i] = "dropped"]
    /\ UNCHANGED <<taskVars, entries, residentBytes, count, shutting>>

Shutdown ==
    /\ ~shutting
    /\ shutting' = TRUE
    /\ phase' = [i \in Tasks |-> IF phase[i] = "waiting" THEN "settled" ELSE phase[i]]
    /\ outcome' = [i \in Tasks |-> IF phase[i] = "waiting" THEN "cancelled" ELSE outcome[i]]
    /\ UNCHANGED <<taskVars, entries, residentBytes, count>>

\* Mutant: only a completion that is stale tells on_stale.
OnStale_OnlyStale(o) == o = "stale"

\* The outcomes of which dispatch_event tells on_stale.
OnStale(o) == o \in {"stale", "cancelled", "dropped"}

\* on_stale is PreparedUploadTask.dropped: nothing to do for a task that ran.
\* The drain takes the order lock for each event, so no planning is under way.
Tells(i) ==
    /\ owner = Idle /\ offered = generation
    /\ phase[i] = "settled"
    /\ phase' = [phase EXCEPT ![i] = "told"]
    /\ \E o \in AtDispatch(outcome[i]) \ {"stale_reused"} :
          /\ outcome' = [outcome EXCEPT ![i] = o]
          /\ IF OnStale(o) /\ ~settled[i] /\ stage[i] = "idle"
             THEN /\ settled' = [settled EXCEPT ![i] = TRUE]
                  /\ owner' = [at |-> "dropped", task |-> i]
             ELSE UNCHANGED <<settled, owner>>
    /\ UNCHANGED <<generation, offered, key, stage, end, entries, residentBytes, count, shutting>>

CountDropped ==
    /\ owner.at = "dropped"
    /\ owner' = Idle
    /\ end' = [end EXCEPT ![owner.task] = "dropped"]
    /\ count' = [count EXCEPT !.pending = Less(@), !.dropped = @ + 1]
    /\ UNCHANGED <<ledgerVars, generation, offered, key, stage, settled, entries, residentBytes,
                   shutting>>

-----------------------------------------------------------------------------
(* The GUI thread *)

\* A commit asks for the identity it is about to submit; a miss changes nothing.
Take(k) ==
    /\ Holds(k)
    /\ entries' = Others(k)
    /\ residentBytes' = residentBytes - NBytes[k]
    /\ count' = [count EXCEPT !.hits = @ + 1]
    /\ UNCHANGED <<ledgerVars, taskVars, shutting>>

\* Mutant: entries are removed without an outcome.
Clear_Silent ==
    /\ entries # <<>>
    /\ entries' = <<>> /\ residentBytes' = 0
    /\ UNCHANGED <<ledgerVars, taskVars, count, shutting>>

\* discardPreparedTiledUploads, at a residency reset.
Clear ==
    /\ entries # <<>>
    /\ entries' = <<>> /\ residentBytes' = 0
    /\ count' = [count EXCEPT !.discarded = @ + Len(entries)]
    /\ UNCHANGED <<ledgerVars, taskVars, shutting>>

-----------------------------------------------------------------------------
Plans == \E n \in Tasks : PlanRaises(n) \/ \E batch \in [1..n -> Keys] : Plan(batch)
OwnerStep == SkipHeld \/ Offer \/ Record \/ Submit \/ Reject \/ CountDropped
ClosureStep(i) == \/ Enter(i) \/ Started(i) \/ Raise(i) \/ Publish(i) \/ PublishRefused(i)
                  \/ Claim(i) \/ Finishes(i)
KernelStep(i) == Begins(i) \/ Settles(i) \/ Drops(i) \/ Tells(i)
GuiStep == Clear \/ \E k \in Keys : Take(k)

Next == \/ Plans \/ OwnerStep \/ Shutdown \/ GuiStep
        \/ \E i \in Tasks : ClosureStep(i) \/ KernelStep(i)

Spec == Init /\ [][Next]_vars
=============================================================================
