------------------------------ MODULE SlotPool ------------------------------
(***************************************************************************)
(* The shared-memory slots of src/arrayscope/kernel/shm_slots.py: a state  *)
(* and an owner per slot, shared by the GUI process and its workers, and   *)
(* one round-robin cursor per process.  Each operator below is one         *)
(* critical section of SlotPool under the lock of the state array; writing *)
(* and reading the bytes happen outside it.                                *)
(*                                                                         *)
(* `content' stands for the bytes: who wrote them last.  The fallback      *)
(* counter only feeds diagnostics and is left out.                         *)
(***************************************************************************)
EXTENDS Integers

CONSTANTS
    NSlots,         \* SlotPool.slots
    NWorkers,       \* ProcessPool.processes
    Parent,         \* the GUI process, as an index of `cursor'
    Blank           \* the content of a slot nobody has written

ASSUME SlotsAssumption == NSlots \in Nat \ {0} /\ NWorkers \in Nat \ {0}

VARIABLES
    slotState,      \* [Slots -> SlotStates]: _states
    slotOwner,      \* [Slots -> Nat]: _owners, 0 or the worker's index + 1
    content,        \* [Slots -> the tag of the last write]
    cursor,         \* [Processes -> Slots]: _cursor
    stranded        \* history: [Workers -> the slots it published and dropped
                    \* without naming them in an answer]

slotVars == <<slotState, slotOwner, content, cursor, stranded>>

Slots == 0..NSlots - 1
Workers == 0..NWorkers - 1
Processes == Workers \cup {Parent}
SlotStates == {"free", "leased", "ready", "held"}

ASSUME ParentAssumption == Parent \notin Workers

SlotInit ==
    /\ slotState = [s \in Slots |-> "free"]
    /\ slotOwner = [s \in Slots |-> 0]
    /\ content = [s \in Slots |-> Blank]
    /\ cursor = [q \in Processes |-> 0]
    /\ stranded = [w \in Workers |-> {}]

Exhausted == \A s \in Slots : slotState[s] # "free"

\* How far slot s lies ahead of the cursor of process q.
StepsAhead(q, s) == (s + NSlots - cursor[q]) % NSlots

LeaseAny(q, s, o) ==
    /\ slotState' = [slotState EXCEPT ![s] = "leased"]
    /\ slotOwner' = [slotOwner EXCEPT ![s] = o]
    /\ cursor' = [cursor EXCEPT ![q] = (s + 1) % NSlots]
    /\ UNCHANGED <<content, stranded>>

\* lease: the first free slot from the cursor on.
Lease(q, s, o) ==
    /\ slotState[s] = "free"
    /\ \A r \in Slots : slotState[r] = "free" => StepsAhead(q, s) <= StepsAhead(q, r)
    /\ LeaseAny(q, s, o)

Write(s, tag) ==
    /\ content' = [content EXCEPT ![s] = tag]
    /\ UNCHANGED <<slotState, slotOwner, cursor, stranded>>

\* _advance: refused, with a RuntimeError in the code, from any other state.
Advance(s, expected, target) ==
    /\ slotState[s] = expected
    /\ slotState' = [slotState EXCEPT ![s] = target]
    /\ UNCHANGED <<slotOwner, content, cursor, stranded>>

\* release: whoever holds the slot, and whatever its state.
Release(s) ==
    /\ slotState' = [slotState EXCEPT ![s] = "free"]
    /\ slotOwner' = [slotOwner EXCEPT ![s] = 0]
    /\ stranded' = [w \in Workers |-> stranded[w] \ {s}]
    /\ UNCHANGED <<content, cursor>>

\* Mutant: only leased slots are reclaimed, published ones are forgotten.
OwnedBy_Leased(o) == {s \in Slots : slotOwner[s] = o /\ slotState[s] = "leased"}

\* What reclaim frees: the slots a worker's process leased for its results and
\* those its requests were put into.
OwnedBy(o) == {s \in Slots : slotOwner[s] = o /\ slotState[s] # "free"}

Reclaim(o) ==
    /\ slotState' = [s \in Slots |-> IF s \in OwnedBy(o) THEN "free" ELSE slotState[s]]
    /\ slotOwner' = [s \in Slots |-> IF s \in OwnedBy(o) THEN 0 ELSE slotOwner[s]]
    /\ stranded' = [w \in Workers |-> stranded[w] \ OwnedBy(o)]
    /\ UNCHANGED content

=============================================================================
