--------------------------- MODULE UploadsProofs ---------------------------
(***************************************************************************)
(* For any number of preparations, identities and sizes: the counters of   *)
(* the tasks and of the buffers are exact at every instant, both equations *)
(* close, the budget holds, and what the model assumes of the kernel is    *)
(* what TaskLedger allows.                                                 *)
(*                                                                         *)
(* The invariant says where one task can be: what its phase in the kernel, *)
(* the place of its closure, its end and its claimed outcome allow of each *)
(* other, and which task the owner holds between two locks.                *)
(***************************************************************************)
EXTENDS UploadsProps, FiniteSetTheorems, WellFoundedInduction, TLAPS

Types ==
    /\ generation \in Nat /\ generation <= MaxTasks
    /\ offered \in Nat /\ offered <= generation
    /\ owner \in [at : {"idle", "record", "submit", "dropped"}, task : Nat]
    /\ stage \in [Tasks -> Stages]
    /\ end \in [Tasks -> Ends]
    /\ settled \in [Tasks -> BOOLEAN]
    /\ phase \in [Tasks -> Phases]
    /\ outcome \in [Tasks -> {NoOutcome} \cup WithoutRunning \cup AfterRunning
                                         \cup {"stale_reused"}]

Untouched(i) == stage[i] = "idle" /\ end[i] = "none" /\ ~settled[i]

\* Where one task can be.
TaskShape(i) ==
    /\ i > offered => Untouched(i) /\ phase[i] = "absent"
    /\ i <= offered => (phase[i] = "absent" <=> end[i] \in {"lost", "deduped", "rejected"})
    /\ phase[i] = "waiting" => Untouched(i)
    /\ phase[i] = "started" /\ stage[i] = "idle" => Untouched(i)
    /\ phase[i] = "settled" => stage[i] \in {"idle", "left"}
    /\ phase[i] = "settled" /\ stage[i] = "idle" => Untouched(i)
    /\ stage[i] \in {"entered", "inside"} => end[i] = "none"
    /\ stage[i] \in {"entered", "inside", "packed"} => ~settled[i]
    /\ stage[i] \in {"entered", "inside", "packed", "claimed"} => phase[i] = "started"
    /\ stage[i] \in {"packed", "claimed", "left"} => end[i] \in Finished
    /\ stage[i] = "idle" => end[i] \notin Finished

\* The task the owner holds between two locks.
OwnerShape ==
    /\ owner.at = "idle" => owner = Idle
    /\ owner.at \in {"record", "submit"} => owner.task = offered + 1 /\ owner.task <= generation
    /\ owner.at = "dropped" => /\ owner.task \in Tasks /\ owner.task <= offered
                               /\ offered = generation
                               /\ phase[owner.task] = "told"
                               /\ stage[owner.task] = "idle" /\ end[owner.task] = "none"

Shape == OwnerShape /\ \A i \in Tasks : TaskShape(i)

-----------------------------------------------------------------------------
(* Types and shapes *)

\* What one step can do to the state, one lemma per conjunct.
LEMMA InitShape == Init => Types /\ Shape
  BY UploadsAssumption DEF Init, LedgerInit, Types, Shape, OwnerShape, TaskShape, Untouched,
     Idle, Stages, Ends, Finished, Phases

LEMMA StepTypes == Types /\ Shape /\ [Next]_vars => Types'
<1> SUFFICES ASSUME Types, Shape, [Next]_vars PROVE Types'
  OBVIOUS
<1> USE UploadsAssumption DEF Types
<1>1. CASE UNCHANGED vars
  BY <1>1 DEF vars, taskVars, ledgerVars
<1>2. CASE Plans
  <2>1. PICK n \in Tasks : PlanRaises(n) \/ \E batch \in [1..n -> Keys] : Plan(batch)
    BY <1>2 DEF Plans
  <2>2. CASE PlanRaises(n)
    BY <2>2 DEF PlanRaises, ledgerVars, Ends
  <2>3. ASSUME NEW batch \in [1..n -> Keys], Plan(batch) PROVE Types'
    <3>1. Len(batch) \in Nat
      BY <2>3
    <3> QED
      BY <2>3, <3>1 DEF Plan, ledgerVars
  <2> QED
    BY <2>1, <2>2, <2>3
<1>3. CASE OwnerStep
  <2>1. CASE SkipHeld
    BY <2>1 DEF SkipHeld, Offering, Current, ledgerVars, Ends, Finished
  <2>2. CASE Offer
    BY <2>2 DEF Offer, Offering, Current, ledgerVars
  <2>3. CASE Record
    BY <2>3 DEF Record, ledgerVars
  <2>4. CASE Submit
    BY <2>4 DEF Submit, Idle, Phases, Shape, OwnerShape
  <2>5. CASE Reject
    BY <2>5 DEF Reject, Idle, Shape, OwnerShape, Ends, Finished, ledgerVars
  <2>6. CASE CountDropped
    BY <2>6 DEF CountDropped, Idle, Shape, OwnerShape, Ends, Finished, ledgerVars
  <2> QED
    BY <1>3, <2>1, <2>2, <2>3, <2>4, <2>5, <2>6 DEF OwnerStep
<1>4. CASE Shutdown
  BY <1>4 DEF Shutdown, taskVars, Phases, WithoutRunning, AfterRunning
<1>5. CASE GuiStep
  BY <1>5 DEF GuiStep, Take, Clear, taskVars, ledgerVars
<1>6. ASSUME NEW i \in Tasks, ClosureStep(i) PROVE Types'
  <2>1. CASE Enter(i)
    BY <2>1 DEF Enter, ledgerVars, Stages
  <2>2. CASE Started(i)
    BY <2>2 DEF Started, ledgerVars, Stages
  <2>3. CASE Raise(i)
    BY <2>3 DEF Raise, ledgerVars, Stages, Ends, Finished
  <2>4. CASE Publish(i)
    BY <2>4 DEF Publish, ledgerVars, Stages, Ends, Finished
  <2>5. CASE PublishRefused(i)
    BY <2>5 DEF PublishRefused, ledgerVars, Stages, Ends, Finished
  <2>6. CASE Claim(i)
    BY <2>6 DEF Claim, ledgerVars, Stages
  <2>7. CASE Finishes(i)
    BY <2>7 DEF Finishes, ledgerVars, Stages
  <2> QED
    BY <1>6, <2>1, <2>2, <2>3, <2>4, <2>5, <2>6, <2>7 DEF ClosureStep
<1>7. ASSUME NEW i \in Tasks, KernelStep(i) PROVE Types'
  <2>1. CASE Begins(i)
    BY <2>1 DEF Begins, taskVars, Phases
  <2>2. CASE Settles(i)
    BY <2>2 DEF Settles, taskVars, Phases, Reports, AfterRunning
  <2>3. CASE Drops(i)
    BY <2>3 DEF Drops, taskVars, Phases, WithoutRunning
  <2>4. CASE Tells(i)
    <3>1. PICK o \in AtDispatch(outcome[i]) \ {"stale_reused"} :
             /\ outcome' = [outcome EXCEPT ![i] = o]
             /\ \/ /\ settled' = [settled EXCEPT ![i] = TRUE]
                   /\ owner' = [at |-> "dropped", task |-> i]
                \/ UNCHANGED <<settled, owner>>
      BY <2>4 DEF Tells
    <3>2. o \in {NoOutcome} \cup WithoutRunning \cup AfterRunning \cup {"stale_reused"}
      BY <3>1 DEF AtDispatch, WithoutRunning, AfterRunning
    <3>3. UNCHANGED <<generation, offered, stage, end>> /\ phase' = [phase EXCEPT ![i] = "told"]
      BY <2>4 DEF Tells
    <3>4. phase' \in [Tasks -> Phases]
      BY <3>3 DEF Phases
    <3>5. outcome' \in [Tasks -> {NoOutcome} \cup WithoutRunning \cup AfterRunning
                                             \cup {"stale_reused"}]
      BY <3>1, <3>2
    <3>6. settled' \in [Tasks -> BOOLEAN]
      BY <3>1
    <3>7. owner' \in [at : {"idle", "record", "submit", "dropped"}, task : Nat]
      BY <3>1
    <3> QED
      BY <3>3, <3>4, <3>5, <3>6, <3>7
  <2> QED
    BY <1>7, <2>1, <2>2, <2>3, <2>4 DEF KernelStep
<1> QED
  BY <1>1, <1>2, <1>3, <1>4, <1>5, <1>6, <1>7 DEF Next

\* A step of one task's closure leaves every other task as it is.
LEMMA ClosureShape ==
  ASSUME Types, Shape, NEW i \in Tasks, ClosureStep(i)
  PROVE  Shape'
<1> USE UploadsAssumption DEF Types
<1>1. TaskShape(i) /\ OwnerShape
  BY DEF Shape
<1>2. UNCHANGED <<ledgerVars, generation, offered, owner>>
  BY DEF ClosureStep, Enter, Started, Raise, Publish, PublishRefused, Claim, Finishes
<1>3. \A j \in Tasks \ {i} : stage'[j] = stage[j] /\ end'[j] = end[j] /\ settled'[j] = settled[j]
  BY DEF ClosureStep, Enter, Started, Raise, Publish, PublishRefused, Claim, Finishes
<1>4. TaskShape(i)' /\ ~(phase[i] = "told" /\ stage[i] = "idle")
  <2> USE <1>1, <1>2 DEF TaskShape, Untouched, ledgerVars, Stages, Ends, Finished
  <2>1. CASE Enter(i)
    BY <2>1 DEF Enter
  <2>2. CASE Started(i)
    BY <2>2 DEF Started
  <2>3. CASE Raise(i)
    BY <2>3 DEF Raise
  <2>4. CASE Publish(i)
    BY <2>4 DEF Publish
  <2>5. CASE PublishRefused(i)
    BY <2>5 DEF PublishRefused
  <2>6. CASE Claim(i)
    BY <2>6 DEF Claim
  <2>7. CASE Finishes(i)
    BY <2>7 DEF Finishes
  <2> QED
    BY <2>1, <2>2, <2>3, <2>4, <2>5, <2>6, <2>7 DEF ClosureStep
<1>5. \A j \in Tasks \ {i} : TaskShape(j)'
  BY <1>2, <1>3 DEF Shape, TaskShape, Untouched, ledgerVars
<1>6. OwnerShape'
  BY <1>1, <1>2, <1>3, <1>4 DEF OwnerShape, ledgerVars
<1> QED
  BY <1>4, <1>5, <1>6 DEF Shape

\* Nor does what the kernel does with one task touch another.
LEMMA KernelShape ==
  ASSUME Types, Shape, NEW i \in Tasks, KernelStep(i)
  PROVE  Shape'
<1> USE UploadsAssumption DEF Types
<1>1. TaskShape(i) /\ OwnerShape
  BY DEF Shape
<1>2. UNCHANGED <<generation, offered, stage, end>>
  BY DEF KernelStep, Begins, Settles, Drops, Tells, taskVars
<1>3. \A j \in Tasks \ {i} : phase'[j] = phase[j] /\ settled'[j] = settled[j]
  BY DEF KernelStep, Begins, Settles, Drops, Tells, taskVars
<1>4. \A j \in Tasks \ {i} : TaskShape(j)'
  BY <1>2, <1>3 DEF Shape, TaskShape, Untouched
<1>5. CASE Begins(i) \/ Settles(i) \/ Drops(i)
  <2>1. phase[i] # "told" /\ UNCHANGED <<settled, owner>>
    BY <1>5 DEF Begins, Settles, Drops, taskVars
  <2>2. OwnerShape'
    BY <1>1, <1>2, <1>3, <2>1 DEF OwnerShape
  <2>3. TaskShape(i)'
    BY <1>1, <1>2, <1>5, <2>1 DEF Begins, Settles, Drops, Reports, TaskShape, Untouched, Stages
  <2> QED
    BY <1>4, <2>2, <2>3 DEF Shape
<1>6. CASE Tells(i)
  <2>1. /\ owner = Idle /\ offered = generation
        /\ phase[i] = "settled" /\ phase'[i] = "told"
        /\ \/ /\ stage[i] = "idle" /\ settled'[i] = TRUE
              /\ owner' = [at |-> "dropped", task |-> i]
           \/ settled'[i] = settled[i] /\ owner' = owner
    BY <1>6 DEF Tells
  <2>2. TaskShape(i)'
    BY <1>1, <1>2, <2>1 DEF TaskShape, Untouched, Stages
  <2>3. OwnerShape'
    BY <1>1, <1>2, <2>1 DEF OwnerShape, TaskShape, Untouched, Idle
  <2> QED
    BY <1>4, <2>2, <2>3 DEF Shape
<1> QED
  BY <1>5, <1>6 DEF KernelStep

\* The owner moves one task, the one it holds.
LEMMA OwnerShapes ==
  ASSUME Types, Shape, OwnerStep
  PROVE  Shape'
<1> USE UploadsAssumption DEF Types
<1>1. CASE SkipHeld
  BY <1>1 DEF SkipHeld, Offering, Current, Shape, OwnerShape, TaskShape, Untouched, Idle,
     ledgerVars, Finished
<1>2. CASE Offer
  BY <1>2 DEF Offer, Offering, Current, Shape, OwnerShape, TaskShape, Untouched, Idle, ledgerVars
<1>3. CASE Record
  BY <1>3 DEF Record, Shape, OwnerShape, TaskShape, Untouched, Idle, ledgerVars
<1>4. CASE Submit
  BY <1>4 DEF Submit, Shape, OwnerShape, TaskShape, Untouched, Idle
<1>5. CASE Reject
  BY <1>5 DEF Reject, Shape, OwnerShape, TaskShape, Untouched, Idle, ledgerVars, Finished
<1>6. CASE CountDropped
  BY <1>6 DEF CountDropped, Shape, OwnerShape, TaskShape, Untouched, Idle, ledgerVars, Finished
<1> QED
  BY <1>1, <1>2, <1>3, <1>4, <1>5, <1>6 DEF OwnerStep

LEMMA StepShape == Types /\ Shape /\ [Next]_vars => Shape'
<1> SUFFICES ASSUME Types, Shape, [Next]_vars PROVE Shape'
  OBVIOUS
<1> USE UploadsAssumption DEF Types
<1>1. CASE UNCHANGED vars
  BY <1>1 DEF vars, taskVars, ledgerVars, Shape, OwnerShape, TaskShape, Untouched
<1>2. CASE Plans
  <2>1. PICK n \in Tasks : PlanRaises(n) \/ \E batch \in [1..n -> Keys] : Plan(batch)
    BY <1>2 DEF Plans
  <2>2. CASE PlanRaises(n)
    <3>1. /\ owner = Idle /\ offered = generation /\ offered' >= offered
          /\ UNCHANGED <<ledgerVars, owner, stage, settled>>
          /\ \A i \in Tasks : i <= offered => end'[i] = end[i]
          /\ \A i \in Tasks : i > offered /\ i <= offered' => end'[i] = "lost"
          /\ \A i \in Tasks : i > offered' => end'[i] = end[i]
      BY <2>2 DEF PlanRaises
    <3>2. ASSUME NEW i \in Tasks PROVE TaskShape(i)'
      <4>1. TaskShape(i) /\ i \in Nat /\ offered' \in Nat
        BY <2>2 DEF Shape, PlanRaises
      <4>2. CASE i > offered /\ i <= offered'
        BY <3>1, <4>1, <4>2 DEF ledgerVars, TaskShape, Untouched, Finished
      <4>3. CASE ~(i > offered /\ i <= offered')
        BY <3>1, <4>1, <4>3 DEF ledgerVars, TaskShape, Untouched
      <4> QED
        BY <4>2, <4>3
    <3> QED
      BY <3>1, <3>2 DEF Shape, OwnerShape, Idle
  <2>3. CASE \E batch \in [1..n -> Keys] : Plan(batch)
    <3>1. /\ owner = Idle /\ UNCHANGED <<ledgerVars, offered, owner, stage, end, settled>>
      BY <2>3 DEF Plan
    <3> QED
      BY <3>1 DEF ledgerVars, Shape, OwnerShape, TaskShape, Untouched, Idle
  <2> QED
    BY <2>1, <2>2, <2>3
<1>3. CASE Shutdown
  <2>1. /\ UNCHANGED <<offered, generation, owner, stage, end, settled>>
        /\ \A i \in Tasks : phase'[i] = IF phase[i] = "waiting" THEN "settled" ELSE phase[i]
    BY <1>3 DEF Shutdown, taskVars
  <2> QED
    BY <2>1 DEF Shape, OwnerShape, TaskShape, Untouched
<1>4. CASE GuiStep
  BY <1>4 DEF GuiStep, Take, Clear, ledgerVars, taskVars, Shape, OwnerShape, TaskShape, Untouched
<1> QED
  BY <1>1, <1>2, <1>3, <1>4, OwnerShapes, ClosureShape, KernelShape DEF Next

LEMMA ShapeHolds == Spec => [](Types /\ Shape)
  BY InitShape, StepTypes, StepShape, PTL DEF Spec

-----------------------------------------------------------------------------
(* Counting *)

CountTypes == count = [c \in Counters |-> count[c]]

LEMMA TasksFinite == IsFiniteSet(Tasks) /\ Tasks \subseteq Nat
  BY FS_Interval, UploadsAssumption

LEMMA Joined ==
  ASSUME NEW S \in SUBSET Tasks, NEW i \in Tasks, i \notin S
  PROVE  Cardinality(S) \in Nat /\ Cardinality(S \cup {i}) = Cardinality(S) + 1
  BY TasksFinite, FS_Subset, FS_AddElement, FS_CardinalityType

LEMMA Parted ==
  ASSUME NEW S \in SUBSET Tasks, NEW i \in S
  PROVE  Cardinality(S \ {i}) = Less(Cardinality(S))
<1>1. IsFiniteSet(S) /\ Cardinality(S) \in Nat
  BY TasksFinite, FS_Subset, FS_CardinalityType
<1>2. Cardinality(S \ {i}) = Cardinality(S) - 1 /\ Cardinality(S) # 0
  BY <1>1, FS_RemoveElement, FS_EmptySet
<1> QED
  BY <1>1, <1>2 DEF Less

LEMMA SetsOfTasks ==
  ASSUME Types, Shape
  PROVE  /\ Submitted \in SUBSET Tasks /\ Pending \in SUBSET Tasks /\ InFlight \in SUBSET Tasks
         /\ \A e : Finishers(e) \in SUBSET Tasks /\ Ended(e) \in SUBSET Tasks
  BY UploadsAssumption DEF Types, Shape, OwnerShape, Submitted, Pending, InFlight, Finishers, Ended

TaskCounters == {"submitted", "pending", "inFlight", "deduped", "rejected", "dropped"}
                \cup Finished

\* No set moved and no counter of tasks moved.
LEMMA NothingMoves ==
  ASSUME EveryTaskIsCounted, \A c \in TaskCounters : count'[c] = count[c],
         Submitted' = Submitted, Pending' = Pending, InFlight' = InFlight,
         \A e \in Finished : Finishers(e)' = Finishers(e),
         \A e \in {"deduped", "rejected", "dropped"} : Ended(e)' = Ended(e)
  PROVE  EveryTaskIsCounted'
  BY DEF EveryTaskIsCounted, TaskCounters

\* Record: one more is submitted, and pending.
LEMMA CountRecord ==
  ASSUME Types, Shape, CountTypes, EveryTaskIsCounted, Record
  PROVE  EveryTaskIsCounted'
<1> DEFINE i == owner.task
<1> USE UploadsAssumption DEF Types
<1>1. i \in Tasks /\ i = offered + 1 /\ Untouched(i)
  BY DEF Record, Shape, OwnerShape, TaskShape
<1>2. i \notin Submitted /\ i \notin Pending
  BY <1>1 DEF Record, Submitted, Pending
<1>3. /\ offered' = offered /\ stage' = stage /\ end' = end
      /\ owner.at = "record" /\ owner'.at = "submit" /\ owner'.task = i
  BY DEF Record
<1>4. Submitted' = Submitted \cup {i}
  BY <1>3 DEF Submitted
<1>5. Pending' = Pending \cup {i}
  BY <1>1, <1>3, <1>4 DEF Pending, Untouched
<1>6. /\ InFlight' = InFlight
      /\ \A e \in Finished : Finishers(e)' = Finishers(e)
      /\ \A e \in {"deduped", "rejected", "dropped"} : Ended(e)' = Ended(e)
  BY <1>3 DEF InFlight, Finishers, Ended
<1>7. /\ count'.submitted = count.submitted + 1 /\ count'.pending = count.pending + 1
      /\ \A c \in TaskCounters \ {"submitted", "pending"} : count'[c] = count[c]
  BY DEF Record, CountTypes, Counters, TaskCounters, Finished
<1>8. Cardinality(Submitted') = Cardinality(Submitted) + 1
  BY <1>1, <1>2, <1>4, SetsOfTasks, Joined
<1>9. Cardinality(Pending') = Cardinality(Pending) + 1
  BY <1>1, <1>2, <1>5, SetsOfTasks, Joined
<1>10. count'.submitted = Cardinality(Submitted') /\ count'.pending = Cardinality(Pending')
  BY <1>7, <1>8, <1>9 DEF EveryTaskIsCounted
<1>11. count'.inFlight = Cardinality(InFlight')
  BY <1>6, <1>7 DEF EveryTaskIsCounted, TaskCounters
<1>12. \A e \in Finished : count'[e] = Cardinality(Finishers(e)')
  BY <1>6, <1>7 DEF EveryTaskIsCounted, TaskCounters, Finished
<1>13. \A e \in {"deduped", "rejected", "dropped"} : count'[e] = Cardinality(Ended(e)')
  BY <1>6, <1>7 DEF EveryTaskIsCounted, TaskCounters
<1> QED
  BY <1>10, <1>11, <1>12, <1>13 DEF EveryTaskIsCounted

\* Reject: the one just submitted is taken out again.
LEMMA CountReject ==
  ASSUME Types, Shape, CountTypes, EveryTaskIsCounted, Reject
  PROVE  EveryTaskIsCounted'
<1> DEFINE i == owner.task
<1> USE UploadsAssumption DEF Types
<1>1. i \in Tasks /\ i = offered + 1 /\ Untouched(i)
  BY DEF Reject, Shape, OwnerShape, TaskShape
<1>2. /\ offered' = i /\ stage' = stage /\ end' = [end EXCEPT ![i] = "rejected"]
      /\ owner.at = "submit" /\ owner'.at = "idle"
  BY DEF Reject, Idle
<1>3. i \in Submitted /\ i \in Pending /\ i \notin Ended("rejected")
  BY <1>1, <1>2 DEF Submitted, Pending, Ended, Untouched
<1>4. Submitted' = Submitted \ {i}
  BY <1>1, <1>2 DEF Submitted
<1>5. Pending' = Pending \ {i}
  BY <1>2, <1>4, SetsOfTasks DEF Pending
<1>6. /\ InFlight' = InFlight
      /\ \A e \in Finished : Finishers(e)' = Finishers(e)
      /\ \A e \in {"deduped", "dropped"} : Ended(e)' = Ended(e)
      /\ Ended("rejected")' = Ended("rejected") \cup {i}
  BY <1>1, <1>2 DEF InFlight, Finishers, Ended, Untouched, Finished
<1>7. /\ count'.submitted = Less(count.submitted) /\ count'.pending = Less(count.pending)
      /\ count'.rejected = count.rejected + 1
      /\ \A c \in TaskCounters \ {"submitted", "pending", "rejected"} : count'[c] = count[c]
  BY DEF Reject, CountTypes, Counters, TaskCounters, Finished
<1>8. Cardinality(Submitted') = Less(Cardinality(Submitted))
  BY <1>3, <1>4, SetsOfTasks, Parted
<1>9. Cardinality(Pending') = Less(Cardinality(Pending))
  BY <1>3, <1>5, SetsOfTasks, Parted
<1>10. Cardinality(Ended("rejected")') = Cardinality(Ended("rejected")) + 1
  BY <1>1, <1>3, <1>6, SetsOfTasks, Joined
<1>11. count'.submitted = Cardinality(Submitted')
  BY <1>7, <1>8 DEF EveryTaskIsCounted
<1>12. count'.pending = Cardinality(Pending')
  BY <1>7, <1>9 DEF EveryTaskIsCounted
<1>13. count'.inFlight = Cardinality(InFlight')
  BY <1>6, <1>7 DEF EveryTaskIsCounted, TaskCounters
<1>14. \A e \in Finished : count'[e] = Cardinality(Finishers(e)')
  BY <1>6, <1>7 DEF EveryTaskIsCounted, TaskCounters, Finished
<1>15. \A e \in {"deduped", "rejected", "dropped"} : count'[e] = Cardinality(Ended(e)')
  BY <1>6, <1>7, <1>10 DEF EveryTaskIsCounted, TaskCounters
<1> QED
  BY <1>11, <1>12, <1>13, <1>14, <1>15 DEF EveryTaskIsCounted

\* SkipHeld: one more is deduped, and none submitted.
LEMMA CountSkip ==
  ASSUME Types, Shape, CountTypes, EveryTaskIsCounted, SkipHeld
  PROVE  EveryTaskIsCounted'
<1> DEFINE i == Current
<1> USE UploadsAssumption DEF Types
<1>1. i \in Tasks /\ i = offered + 1 /\ Untouched(i)
  BY DEF SkipHeld, Offering, Current, Shape, TaskShape
<1>2. /\ offered' = i /\ stage' = stage /\ end' = [end EXCEPT ![i] = "deduped"]
      /\ owner.at = "idle" /\ owner' = owner
  BY DEF SkipHeld, Offering, Idle
<1>3. Submitted' = Submitted
  BY <1>1, <1>2 DEF Submitted
<1>4. Pending' = Pending
  BY <1>1, <1>2, <1>3 DEF Pending, Submitted
<1>5. /\ InFlight' = InFlight
      /\ \A e \in Finished : Finishers(e)' = Finishers(e)
      /\ \A e \in {"rejected", "dropped"} : Ended(e)' = Ended(e)
      /\ Ended("deduped")' = Ended("deduped") \cup {i} /\ i \notin Ended("deduped")
  BY <1>1, <1>2 DEF InFlight, Finishers, Ended, Untouched, Finished
<1>6. /\ count'.deduped = count.deduped + 1
      /\ \A c \in TaskCounters \ {"deduped"} : count'[c] = count[c]
  BY DEF SkipHeld, CountTypes, Counters, TaskCounters, Finished
<1>7. Cardinality(Ended("deduped")') = Cardinality(Ended("deduped")) + 1
  BY <1>1, <1>5, SetsOfTasks, Joined
<1>8. count'.submitted = Cardinality(Submitted')
  BY <1>3, <1>6 DEF EveryTaskIsCounted, TaskCounters
<1>9. count'.pending = Cardinality(Pending')
  BY <1>4, <1>6 DEF EveryTaskIsCounted, TaskCounters
<1>10. count'.inFlight = Cardinality(InFlight')
  BY <1>5, <1>6 DEF EveryTaskIsCounted, TaskCounters
<1>11. \A e \in Finished : count'[e] = Cardinality(Finishers(e)')
  BY <1>5, <1>6 DEF EveryTaskIsCounted, TaskCounters, Finished
<1>12. \A e \in {"deduped", "rejected", "dropped"} : count'[e] = Cardinality(Ended(e)')
  BY <1>5, <1>6, <1>7 DEF EveryTaskIsCounted, TaskCounters
<1> QED
  BY <1>8, <1>9, <1>10, <1>11, <1>12 DEF EveryTaskIsCounted

\* CountDropped: what was pending never started.
LEMMA CountDrop ==
  ASSUME Types, Shape, CountTypes, EveryTaskIsCounted, CountDropped
  PROVE  EveryTaskIsCounted'
<1> DEFINE i == owner.task
<1> USE UploadsAssumption DEF Types
<1>1. i \in Tasks /\ i <= offered /\ stage[i] = "idle" /\ end[i] = "none"
  BY DEF CountDropped, Shape, OwnerShape
<1>2. /\ offered' = offered /\ stage' = stage /\ end' = [end EXCEPT ![i] = "dropped"]
      /\ owner.at = "dropped" /\ owner'.at = "idle"
  BY DEF CountDropped, Idle
<1>3. Submitted' = Submitted
  BY <1>1, <1>2 DEF Submitted
<1>4. i \in Pending /\ Pending' = Pending \ {i}
  BY <1>1, <1>2, <1>3, SetsOfTasks DEF Pending, Submitted
<1>5. /\ InFlight' = InFlight
      /\ \A e \in Finished : Finishers(e)' = Finishers(e)
      /\ \A e \in {"rejected", "deduped"} : Ended(e)' = Ended(e)
      /\ Ended("dropped")' = Ended("dropped") \cup {i} /\ i \notin Ended("dropped")
  BY <1>1, <1>2 DEF InFlight, Finishers, Ended, Finished
<1>6. /\ count'.pending = Less(count.pending) /\ count'.dropped = count.dropped + 1
      /\ \A c \in TaskCounters \ {"pending", "dropped"} : count'[c] = count[c]
  BY DEF CountDropped, CountTypes, Counters, TaskCounters, Finished
<1>7. Cardinality(Ended("dropped")') = Cardinality(Ended("dropped")) + 1
  BY <1>1, <1>5, SetsOfTasks, Joined
<1>8. Cardinality(Pending') = Less(Cardinality(Pending))
  BY <1>4, SetsOfTasks, Parted
<1>9. count'.submitted = Cardinality(Submitted')
  BY <1>3, <1>6 DEF EveryTaskIsCounted, TaskCounters
<1>10. count'.pending = Cardinality(Pending')
  BY <1>6, <1>8 DEF EveryTaskIsCounted
<1>11. count'.inFlight = Cardinality(InFlight')
  BY <1>5, <1>6 DEF EveryTaskIsCounted, TaskCounters
<1>12. \A e \in Finished : count'[e] = Cardinality(Finishers(e)')
  BY <1>5, <1>6 DEF EveryTaskIsCounted, TaskCounters, Finished
<1>13. \A e \in {"deduped", "rejected", "dropped"} : count'[e] = Cardinality(Ended(e)')
  BY <1>5, <1>6, <1>7 DEF EveryTaskIsCounted, TaskCounters
<1> QED
  BY <1>9, <1>10, <1>11, <1>12, <1>13 DEF EveryTaskIsCounted

\* Submit: the counters ran ahead of the kernel, and are right now.
LEMMA CountSubmit ==
  ASSUME Types, Shape, EveryTaskIsCounted, Submit
  PROVE  EveryTaskIsCounted'
<1> USE UploadsAssumption DEF Types
<1>1. /\ owner.task \in Tasks /\ owner.task = offered + 1 /\ Untouched(owner.task)
      /\ offered' = owner.task /\ owner.at = "submit" /\ owner'.at = "idle"
      /\ stage' = stage /\ end' = end /\ count' = count
  BY DEF Submit, Idle, Shape, OwnerShape, TaskShape
<1>2. Submitted' = Submitted
  BY <1>1 DEF Submitted, Untouched
<1>3. /\ Pending' = Pending /\ InFlight' = InFlight
      /\ \A e \in Finished : Finishers(e)' = Finishers(e)
      /\ \A e \in {"deduped", "rejected", "dropped"} : Ended(e)' = Ended(e)
  BY <1>1, <1>2 DEF Pending, InFlight, Finishers, Ended
<1> QED
  BY <1>1, <1>2, <1>3, NothingMoves

\* Started: from pending to in flight.
LEMMA CountStarted ==
  ASSUME Types, Shape, CountTypes, EveryTaskIsCounted, NEW i \in Tasks, Started(i)
  PROVE  EveryTaskIsCounted'
<1> USE UploadsAssumption DEF Types
<1>1. stage[i] = "entered" /\ end[i] = "none" /\ i <= offered
  <2>1. stage[i] = "entered" /\ end[i] = "none" /\ ~(i > offered)
    BY DEF Started, Shape, TaskShape, Untouched
  <2> QED
    BY <2>1
<1>2. UNCHANGED <<offered, owner, end>> /\ stage' = [stage EXCEPT ![i] = "inside"]
  BY DEF Started
<1>3. i \in Pending /\ Pending' = Pending \ {i} /\ Submitted' = Submitted
  BY <1>1, <1>2, SetsOfTasks DEF Pending, Submitted
<1>4. i \notin InFlight /\ InFlight' = InFlight \cup {i}
  BY <1>1, <1>2 DEF InFlight
<1>5. /\ \A e \in Finished : Finishers(e)' = Finishers(e)
      /\ \A e \in {"deduped", "rejected", "dropped"} : Ended(e)' = Ended(e)
  BY <1>1, <1>2 DEF Finishers, Ended
<1>6. /\ count'.pending = Less(count.pending) /\ count'.inFlight = count.inFlight + 1
      /\ \A c \in TaskCounters \ {"pending", "inFlight"} : count'[c] = count[c]
  BY DEF Started, CountTypes, Counters, TaskCounters, Finished
<1>7. Cardinality(InFlight') = Cardinality(InFlight) + 1
  BY <1>4, SetsOfTasks, Joined
<1>8. Cardinality(Pending') = Less(Cardinality(Pending))
  BY <1>3, SetsOfTasks, Parted
<1>9. count'.submitted = Cardinality(Submitted')
  BY <1>3, <1>6 DEF EveryTaskIsCounted, TaskCounters
<1>10. count'.pending = Cardinality(Pending')
  BY <1>6, <1>8 DEF EveryTaskIsCounted
<1>11. count'.inFlight = Cardinality(InFlight')
  BY <1>6, <1>7 DEF EveryTaskIsCounted
<1>12. \A e \in Finished : count'[e] = Cardinality(Finishers(e)')
  BY <1>5, <1>6 DEF EveryTaskIsCounted, TaskCounters, Finished
<1>13. \A e \in {"deduped", "rejected", "dropped"} : count'[e] = Cardinality(Ended(e)')
  BY <1>5, <1>6 DEF EveryTaskIsCounted, TaskCounters
<1> QED
  BY <1>9, <1>10, <1>11, <1>12, <1>13 DEF EveryTaskIsCounted

\* Finishes: from in flight to the end it claimed.
LEMMA CountFinishes ==
  ASSUME Types, Shape, CountTypes, EveryTaskIsCounted, NEW i \in Tasks, Finishes(i)
  PROVE  EveryTaskIsCounted'
<1> USE UploadsAssumption DEF Types
<1>1. stage[i] = "claimed" /\ end[i] \in Finished
  BY DEF Finishes, Shape, TaskShape
<1>2. UNCHANGED <<offered, owner, end>> /\ stage' = [stage EXCEPT ![i] = "left"]
  BY DEF Finishes
<1>3. Pending' = Pending /\ Submitted' = Submitted
  BY <1>1, <1>2, SetsOfTasks DEF Pending, Submitted
<1>4. i \in InFlight /\ InFlight' = InFlight \ {i}
  BY <1>1, <1>2 DEF InFlight
<1>5. /\ \A e \in Finished \ {end[i]} : Finishers(e)' = Finishers(e)
      /\ i \notin Finishers(end[i]) /\ Finishers(end[i])' = Finishers(end[i]) \cup {i}
      /\ \A e \in {"deduped", "rejected", "dropped"} : Ended(e)' = Ended(e)
  BY <1>1, <1>2 DEF Finishers, Ended
<1>6. /\ count'.inFlight = Less(count.inFlight) /\ count'[end[i]] = count[end[i]] + 1
      /\ \A c \in TaskCounters \ {"inFlight", end[i]} : count'[c] = count[c]
  BY <1>1 DEF Finishes, CountTypes, Counters, TaskCounters, Finished
<1>7. Cardinality(InFlight') = Less(Cardinality(InFlight))
  BY <1>4, SetsOfTasks, Parted
<1>8. Cardinality(Finishers(end[i])') = Cardinality(Finishers(end[i])) + 1
  BY <1>5, SetsOfTasks, Joined
<1>9. count'.submitted = Cardinality(Submitted')
  BY <1>1, <1>3, <1>6 DEF EveryTaskIsCounted, TaskCounters, Finished
<1>10. count'.pending = Cardinality(Pending')
  BY <1>1, <1>3, <1>6 DEF EveryTaskIsCounted, TaskCounters, Finished
<1>11. count'.inFlight = Cardinality(InFlight')
  BY <1>6, <1>7 DEF EveryTaskIsCounted
<1>12. \A e \in Finished \ {end[i]} : count'[e] = Cardinality(Finishers(e)')
  BY <1>5, <1>6 DEF EveryTaskIsCounted, TaskCounters, Finished
<1>13. count'[end[i]] = Cardinality(Finishers(end[i])')
  BY <1>1, <1>6, <1>8 DEF EveryTaskIsCounted
<1>14. \A e \in {"deduped", "rejected", "dropped"} : count'[e] = Cardinality(Ended(e)')
  BY <1>1, <1>5, <1>6 DEF EveryTaskIsCounted, TaskCounters, Finished
<1> QED
  BY <1>2, <1>9, <1>10, <1>11, <1>12, <1>13, <1>14 DEF EveryTaskIsCounted

\* Packing ends the work, not the time in flight.
LEMMA CountPacked ==
  ASSUME Types, Shape, EveryTaskIsCounted, NEW i \in Tasks,
         stage[i] = "inside", stage' = [stage EXCEPT ![i] = "packed"],
         NEW e \in Finished, end' = [end EXCEPT ![i] = e],
         UNCHANGED <<offered, owner>>, \A c \in TaskCounters : count'[c] = count[c]
  PROVE  EveryTaskIsCounted'
<1> USE UploadsAssumption DEF Types
<1>1. end[i] = "none"
  BY DEF Shape, TaskShape
<1>2. Submitted' = Submitted
  BY <1>1 DEF Submitted, Finished
<1>3. Pending' = Pending
  BY <1>1, <1>2, SetsOfTasks DEF Pending, Finished
<1>4. InFlight' = InFlight
  BY DEF InFlight
<1>5. \A f \in Finished : Finishers(f)' = Finishers(f)
  BY DEF Finishers, Finished
<1>6. \A f \in {"deduped", "rejected", "dropped"} : Ended(f)' = Ended(f)
  BY <1>1 DEF Ended, Finished
<1> QED
  BY <1>2, <1>3, <1>4, <1>5, <1>6, NothingMoves

\* Enter and Claim move a task between places of one counter.
LEMMA CountPlaced ==
  ASSUME Types, Shape, EveryTaskIsCounted, NEW i \in Tasks,
         \/ stage[i] = "idle" /\ stage' = [stage EXCEPT ![i] = "entered"]
         \/ stage[i] = "packed" /\ stage' = [stage EXCEPT ![i] = "claimed"],
         UNCHANGED <<offered, owner, end>>, \A c \in TaskCounters : count'[c] = count[c]
  PROVE  EveryTaskIsCounted'
<1> USE UploadsAssumption DEF Types
<1>1. Submitted' = Submitted
  BY DEF Submitted
<1>2. Pending' = Pending
  BY <1>1, SetsOfTasks DEF Pending
<1>3. InFlight' = InFlight
  BY DEF InFlight
<1>4. /\ \A f \in Finished : Finishers(f)' = Finishers(f)
      /\ \A f \in {"deduped", "rejected", "dropped"} : Ended(f)' = Ended(f)
  BY DEF Finishers, Ended
<1> QED
  BY <1>1, <1>2, <1>3, <1>4, NothingMoves

\* Everything that moves neither a task nor, but for the tell, the owner.
LEMMA CountStill ==
  ASSUME Types, Shape, EveryTaskIsCounted,
         UNCHANGED <<offered, stage, end>>, owner.at # "submit", owner'.at # "submit",
         \A c \in TaskCounters : count'[c] = count[c]
  PROVE  EveryTaskIsCounted'
<1>1. Submitted' = Submitted
  BY DEF Submitted
<1>2. /\ Pending' = Pending /\ InFlight' = InFlight
      /\ \A f \in Finished : Finishers(f)' = Finishers(f)
      /\ \A f \in {"deduped", "rejected", "dropped"} : Ended(f)' = Ended(f)
  BY <1>1 DEF Pending, InFlight, Finishers, Ended
<1> QED
  BY <1>1, <1>2, NothingMoves

LEMMA CountAlone ==
  ASSUME Types, Shape, EveryTaskIsCounted,
         UNCHANGED <<offered, stage, end, owner>>,
         \A c \in TaskCounters : count'[c] = count[c]
  PROVE  EveryTaskIsCounted'
<1>1. Submitted' = Submitted
  BY DEF Submitted
<1>2. /\ Pending' = Pending /\ InFlight' = InFlight
      /\ \A f \in Finished : Finishers(f)' = Finishers(f)
      /\ \A f \in {"deduped", "rejected", "dropped"} : Ended(f)' = Ended(f)
  BY <1>1 DEF Pending, InFlight, Finishers, Ended
<1> QED
  BY <1>1, <1>2, NothingMoves

\* PlanRaises: the tasks that are lost count for nothing.
LEMMA CountLost ==
  ASSUME Types, Shape, EveryTaskIsCounted, NEW n \in Tasks, PlanRaises(n)
  PROVE  EveryTaskIsCounted'
<1> USE UploadsAssumption DEF Types
<1>1. /\ offered = generation /\ offered' \in Nat /\ offered' >= offered /\ offered' <= MaxTasks
      /\ UNCHANGED <<owner, stage, count>> /\ owner = Idle
      /\ end' \in [Tasks -> Ends]
      /\ \A i \in Tasks : i <= offered => end'[i] = end[i]
      /\ \A i \in Tasks : i > offered /\ i <= offered' => end'[i] = "lost"
      /\ \A i \in Tasks : i > offered' => end'[i] = end[i]
  BY DEF PlanRaises, Ends
<1>2. \A i \in Tasks : i > offered => stage[i] = "idle" /\ end[i] = "none"
  BY DEF Shape, TaskShape, Untouched
<1>3. Submitted' = Submitted
  BY <1>1 DEF Submitted, Idle
<1>4. \A i \in Submitted : i \in Tasks /\ i <= offered /\ end'[i] = end[i]
  BY <1>1, SetsOfTasks DEF Submitted, Idle
<1>5. Pending' = Pending
  BY <1>1, <1>3, <1>4 DEF Pending
<1>6. /\ InFlight' = InFlight
      /\ \A e \in Finished : Finishers(e)' = Finishers(e)
      /\ \A e \in {"deduped", "rejected", "dropped"} : Ended(e)' = Ended(e)
  <2>1. InFlight' = InFlight
    BY <1>1 DEF InFlight
  <2>2. ASSUME NEW i \in Tasks, NEW e \in Finished \cup {"deduped", "rejected", "dropped"}
        PROVE  /\ (stage'[i] = "left" /\ end'[i] = e) <=> (stage[i] = "left" /\ end[i] = e)
               /\ end'[i] = e <=> end[i] = e
    BY <1>1, <1>2 DEF Finished
  <2>3. ASSUME NEW e \in Finished PROVE Finishers(e)' = Finishers(e)
    <3>1. \A i \in Tasks : (stage'[i] = "left" /\ end'[i] = e) <=> (stage[i] = "left" /\ end[i] = e)
      BY <2>2
    <3> QED
      BY <3>1 DEF Finishers
  <2>4. ASSUME NEW e \in {"deduped", "rejected", "dropped"} PROVE Ended(e)' = Ended(e)
    <3>1. \A i \in Tasks : end'[i] = e <=> end[i] = e
      BY <2>2
    <3> QED
      BY <3>1 DEF Ended
  <2> QED
    BY <2>1, <2>3, <2>4
<1> QED
  BY <1>1, <1>3, <1>5, <1>6, NothingMoves

LEMMA CountStep ==
  Types /\ Shape /\ CountTypes /\ EveryTaskIsCounted /\ [Next]_vars
    => CountTypes' /\ EveryTaskIsCounted'
<1> SUFFICES ASSUME Types, Shape, CountTypes, EveryTaskIsCounted, [Next]_vars
             PROVE  CountTypes' /\ EveryTaskIsCounted'
  OBVIOUS
<1>1. CASE UNCHANGED vars
  BY <1>1, CountAlone DEF vars, taskVars, CountTypes
<1>2. CASE Plans
  <2>1. PICK n \in Tasks : PlanRaises(n) \/ \E batch \in [1..n -> Keys] : Plan(batch)
    BY <1>2 DEF Plans
  <2>2. CASE PlanRaises(n)
    BY <2>2, CountLost DEF PlanRaises, CountTypes
  <2>3. CASE \E batch \in [1..n -> Keys] : Plan(batch)
    BY <2>3, CountAlone DEF Plan, CountTypes
  <2> QED
    BY <2>1, <2>2, <2>3
<1>3. CASE OwnerStep
  <2>1. CountTypes'
    BY <1>3 DEF OwnerStep, SkipHeld, Offer, Record, Submit, Reject, CountDropped, CountTypes
  <2>2. CASE Offer
    <3>1. /\ UNCHANGED <<offered, stage, end, count>>
          /\ owner.at # "submit" /\ owner'.at # "submit"
      BY <2>2 DEF Offer, Offering, Idle
    <3> QED
      BY <2>1, <3>1, CountStill
  <2> QED
    BY <1>3, <2>1, <2>2, CountRecord, CountReject, CountSkip, CountDrop, CountSubmit DEF OwnerStep
<1>4. CASE Shutdown
  BY <1>4, CountAlone DEF Shutdown, taskVars, CountTypes
<1>5. CASE GuiStep
  <2>1. /\ UNCHANGED <<offered, stage, end, owner>>
        /\ \/ \E n : count' = [count EXCEPT !.hits = n]
           \/ \E n : count' = [count EXCEPT !.discarded = n]
    BY <1>5 DEF GuiStep, Take, Clear, taskVars
  <2>2. CountTypes'
    BY <2>1 DEF CountTypes
  <2>3. \A c \in TaskCounters : count'[c] = count[c]
    BY <2>1 DEF TaskCounters, Finished, CountTypes, Counters
  <2> QED
    BY <2>1, <2>2, <2>3, CountAlone
<1>6. ASSUME NEW i \in Tasks, ClosureStep(i) PROVE CountTypes' /\ EveryTaskIsCounted'
  <2>1. CASE Enter(i) \/ Claim(i)
    <3>1. UNCHANGED <<offered, owner, end, count>>
      BY <2>1 DEF Enter, Claim
    <3>2. \/ stage[i] = "idle" /\ stage' = [stage EXCEPT ![i] = "entered"]
          \/ stage[i] = "packed" /\ stage' = [stage EXCEPT ![i] = "claimed"]
      BY <2>1 DEF Enter, Claim, Shape, TaskShape
    <3> QED
      BY <3>1, <3>2, CountPlaced DEF CountTypes
  <2>2. CASE Raise(i) \/ PublishRefused(i)
    <3>1. \E e \in Finished : end' = [end EXCEPT ![i] = e]
      BY <2>2 DEF Raise, PublishRefused, Finished
    <3>2. /\ UNCHANGED <<offered, owner, count>>
          /\ stage[i] = "inside" /\ stage' = [stage EXCEPT ![i] = "packed"]
      BY <2>2 DEF Raise, PublishRefused
    <3> QED
      BY <3>1, <3>2, CountPacked DEF CountTypes
  <2>3. CASE Publish(i)
    <3>1. /\ "published" \in Finished /\ end' = [end EXCEPT ![i] = "published"]
          /\ UNCHANGED <<offered, owner>>
          /\ stage[i] = "inside" /\ stage' = [stage EXCEPT ![i] = "packed"]
      BY <2>3 DEF Publish, Finished
    <3>2. \E s, r, v : count' = [count EXCEPT !.stored = s, !.replaced = r, !.evicted = v]
      BY <2>3 DEF Publish, Store
    <3>3. CountTypes'
      BY <3>2 DEF CountTypes
    <3>4. \A c \in TaskCounters : count'[c] = count[c]
      BY <3>2 DEF TaskCounters, Finished, CountTypes, Counters
    <3> QED
      BY <3>1, <3>3, <3>4, CountPacked
  <2>4. CASE Started(i)
    <3>1. CountTypes'
      BY <2>4 DEF Started, CountTypes
    <3> QED
      BY <2>4, <3>1, CountStarted
  <2>5. CASE Finishes(i)
    <3>1. CountTypes'
      BY <2>5 DEF Finishes, CountTypes
    <3> QED
      BY <2>5, <3>1, CountFinishes
  <2> QED
    BY <1>6, <2>1, <2>2, <2>3, <2>4, <2>5 DEF ClosureStep
<1>7. ASSUME NEW i \in Tasks, KernelStep(i) PROVE CountTypes' /\ EveryTaskIsCounted'
  <2>1. CASE Begins(i) \/ Settles(i) \/ Drops(i)
    BY <2>1, CountAlone DEF Begins, Settles, Drops, taskVars, CountTypes
  <2>2. CASE Tells(i)
    <3>1. /\ UNCHANGED <<offered, stage, end, count>>
          /\ owner = Idle
          /\ owner' = owner \/ owner' = [at |-> "dropped", task |-> i]
      BY <2>2 DEF Tells
    <3>2. owner.at # "submit" /\ owner'.at # "submit"
      BY <3>1 DEF Idle
    <3> QED
      BY <3>1, <3>2, CountStill DEF CountTypes
  <2> QED
    BY <1>7, <2>1, <2>2 DEF KernelStep
<1> QED
  BY <1>1, <1>2, <1>3, <1>4, <1>5, <1>6, <1>7 DEF Next

LEMMA InitCounts == Init => CountTypes /\ EveryTaskIsCounted
<1> SUFFICES ASSUME Init PROVE CountTypes /\ EveryTaskIsCounted
  OBVIOUS
<1> USE UploadsAssumption
<1>1. CountTypes /\ \A c \in Counters : count[c] = 0
  BY DEF Init, CountTypes
<1>2. /\ Submitted = {} /\ Pending = {} /\ InFlight = {}
      /\ \A e \in Finished : Finishers(e) = {}
      /\ \A e \in {"deduped", "rejected", "dropped"} : Ended(e) = {}
  BY DEF Init, Idle, Submitted, Pending, InFlight, Finishers, Ended
<1> QED
  BY <1>1, <1>2, FS_EmptySet DEF EveryTaskIsCounted, Counters, Finished

\* Submitted, pending, in flight, published, refused, failed, dropped, rejected
\* and deduped each number at every instant the tasks that are just there
\* (_task_started, _task_finished, dropped and the rest), whatever order the
\* workers, the owner and the kernel take the locks in.
THEOREM TasksAreCounted == Spec => []EveryTaskIsCounted
  BY ShapeHolds, InitCounts, CountStep, PTL DEF Spec

-----------------------------------------------------------------------------
(* The equation of the tasks *)

LEMMA Disjoint ==
  ASSUME NEW S \in SUBSET Tasks, NEW T \in SUBSET Tasks, S \cap T = {}
  PROVE  /\ Cardinality(S \cup T) = Cardinality(S) + Cardinality(T)
         /\ Cardinality(S) \in Nat /\ Cardinality(T) \in Nat
<1>1. IsFiniteSet(S) /\ IsFiniteSet(T)
  BY TasksFinite, FS_Subset
<1>2. Cardinality(S \cap T) = 0
  BY FS_EmptySet
<1>3. Cardinality(S) \in Nat /\ Cardinality(T) \in Nat
  BY <1>1, FS_CardinalityType
<1>4. Cardinality(S \cup T) = Cardinality(S) + Cardinality(T) - Cardinality(S \cap T)
  BY <1>1, FS_Union
<1> QED
  BY <1>2, <1>3, <1>4

\* Each task that was submitted is in one place: pending, in flight, under one
\* of the three ends of a closure, or dropped.
LEMMA OnePlace ==
  ASSUME Types, Shape, EveryTaskIsCounted
  PROVE  TasksAddUp
<1> USE UploadsAssumption DEF Types
<1> DEFINE A == Pending
           B == A \cup InFlight
           C == B \cup Finishers("published")
           D == C \cup Finishers("refused")
           E == D \cup Finishers("failed")
           F == E \cup Ended("dropped")
<1>1. /\ A \in SUBSET Tasks /\ B \in SUBSET Tasks /\ C \in SUBSET Tasks
      /\ D \in SUBSET Tasks /\ E \in SUBSET Tasks
  BY SetsOfTasks
<1>2. A \cap InFlight = {}
  BY DEF Pending, InFlight
<1>3. B \cap Finishers("published") = {}
  BY DEF Pending, InFlight, Finishers
<1>4. C \cap Finishers("refused") = {}
  BY DEF Pending, InFlight, Finishers
<1>5. D \cap Finishers("failed") = {}
  BY DEF Pending, InFlight, Finishers
<1>6. E \cap Ended("dropped") = {}
  BY DEF Pending, InFlight, Finishers, Ended, Shape, TaskShape, Finished
<1>7. F \subseteq Submitted
  <2> SUFFICES ASSUME NEW j \in F PROVE j \in Submitted
    OBVIOUS
  <2>1. j \in Pending => j \in Submitted
    BY DEF Pending
  <2>2. ASSUME j \notin Pending PROVE j \in Tasks /\ end[j] \notin {"lost", "deduped", "rejected"}
                                     /\ ~(j > offered)
    BY <2>2, SetsOfTasks DEF InFlight, Finishers, Ended, Shape, TaskShape, Untouched, Finished
  <2> QED
    BY <2>1, <2>2 DEF Submitted
<1>8. Submitted \subseteq F
  <2> SUFFICES ASSUME NEW j \in Submitted PROVE j \in F
    OBVIOUS
  <2>1. j \in Tasks /\ stage[j] \in Stages
    BY SetsOfTasks
  <2>2. TaskShape(j)
    BY <2>1 DEF Shape
  <2> QED
    BY <2>1, <2>2 DEF Pending, InFlight, Finishers, Ended, TaskShape, Stages, Finished
<1>9. /\ Cardinality(B) = Cardinality(A) + Cardinality(InFlight)
      /\ Cardinality(C) = Cardinality(B) + Cardinality(Finishers("published"))
      /\ Cardinality(D) = Cardinality(C) + Cardinality(Finishers("refused"))
      /\ Cardinality(E) = Cardinality(D) + Cardinality(Finishers("failed"))
      /\ Cardinality(F) = Cardinality(E) + Cardinality(Ended("dropped"))
      /\ Cardinality(A) \in Nat /\ Cardinality(InFlight) \in Nat
      /\ Cardinality(Finishers("published")) \in Nat /\ Cardinality(Finishers("refused")) \in Nat
      /\ Cardinality(Finishers("failed")) \in Nat /\ Cardinality(Ended("dropped")) \in Nat
  <2> HIDE DEF A
  <2>1. /\ Cardinality(B) = Cardinality(A) + Cardinality(InFlight)
        /\ Cardinality(A) \in Nat /\ Cardinality(InFlight) \in Nat
    BY <1>1, <1>2, SetsOfTasks, Disjoint
  <2> HIDE DEF B
  <2>2. /\ Cardinality(C) = Cardinality(B) + Cardinality(Finishers("published"))
        /\ Cardinality(Finishers("published")) \in Nat
    BY <1>1, <1>3, SetsOfTasks, Disjoint
  <2> HIDE DEF C
  <2>3. /\ Cardinality(D) = Cardinality(C) + Cardinality(Finishers("refused"))
        /\ Cardinality(Finishers("refused")) \in Nat
    BY <1>1, <1>4, SetsOfTasks, Disjoint
  <2> HIDE DEF D
  <2>4. /\ Cardinality(E) = Cardinality(D) + Cardinality(Finishers("failed"))
        /\ Cardinality(Finishers("failed")) \in Nat
    BY <1>1, <1>5, SetsOfTasks, Disjoint
  <2> HIDE DEF E
  <2>5. /\ Cardinality(F) = Cardinality(E) + Cardinality(Ended("dropped"))
        /\ Cardinality(Ended("dropped")) \in Nat
    BY <1>1, <1>6, SetsOfTasks, Disjoint
  <2> QED
    BY <2>1, <2>2, <2>3, <2>4, <2>5
<1>10. Cardinality(Submitted) = Cardinality(F)
  BY <1>7, <1>8
<1>11. /\ count.submitted = Cardinality(F)
       /\ count.pending = Cardinality(A) /\ count.inFlight = Cardinality(InFlight)
       /\ count.published = Cardinality(Finishers("published"))
       /\ count.refused = Cardinality(Finishers("refused"))
       /\ count.failed = Cardinality(Finishers("failed"))
       /\ count.dropped = Cardinality(Ended("dropped"))
  BY <1>10 DEF EveryTaskIsCounted, Finished
<1> HIDE DEF A, B, C, D, E, F
<1> QED
  BY <1>9, <1>11 DEF TasksAddUp

\* task_accounting_error() is 0 at every instant, "including with tasks queued
\* and tasks inside a worker closure" (:146).
THEOREM TaskEquationHolds == Spec => []TasksAddUp
  BY ShapeHolds, TasksAreCounted, OnePlace, PTL

-----------------------------------------------------------------------------
(* Induction and running totals *)

\* A set of numbers has a least one.
LEMMA LeastOfNat ==
    ASSUME NEW S \in SUBSET Nat, S # {}
    PROVE  \E n \in S : \A m \in S : n <= m
<1>1. \E n \in S : \A m \in S : ~(<<m, n>> \in OpToRel(<, Nat))
  BY NatLessThanWellFounded, WFMin, Zenon
<1>2. PICK n \in S : \A m \in S : ~(<<m, n>> \in OpToRel(<, Nat))
  BY <1>1
<1>3. ASSUME NEW m \in S, m < n PROVE FALSE
  <2>1. m \in Nat /\ n \in Nat
    OBVIOUS
  <2>2. <<m, n>> \in OpToRel(<, Nat)
    BY <2>1, <1>3, Zenon DEF OpToRel
  <2> QED
    BY <1>2, <2>2, Zenon
<1>4. \A m \in S : n <= m
  BY <1>3
<1> QED
  BY <1>4

\* Induction over the numbers up to N, in a set.
LEMMA Climb ==
  ASSUME NEW S, NEW N \in Nat, 0 \in S, \A n \in Nat : n < N /\ n \in S => n + 1 \in S
  PROVE  0..N \subseteq S
<1> DEFINE Bad == {n \in Nat : n <= N /\ n \notin S}
<1>1. SUFFICES ASSUME Bad # {} PROVE FALSE
  OBVIOUS
<1>2. PICK m \in Bad : \A n \in Bad : m <= n
  <2>1. Bad \in SUBSET Nat
    OBVIOUS
  <2> HIDE DEF Bad
  <2> QED
    BY <1>1, <2>1, LeastOfNat
<1>3. m \in Nat /\ m <= N /\ m \notin S /\ m # 0
  BY <1>2
<1>4. m - 1 \in Nat /\ m - 1 < N /\ m - 1 \notin Bad
  <2>1. m - 1 \in Nat /\ m - 1 < N /\ ~(m <= m - 1)
    BY <1>3
  <2> HIDE DEF Bad
  <2> QED
    BY <1>2, <2>1
<1>5. m - 1 \in S
  BY <1>3, <1>4
<1>6. (m - 1) + 1 \in S
  BY <1>4, <1>5
<1> QED
  BY <1>3, <1>6

\* What the mailbox stores of a buffer.
Entry == [key : Keys, generation : Tasks]

LEMMA EntryWeighs ==
  ASSUME NEW rows \in Seq(Entry), NEW n \in 1..Len(rows)
  PROVE  rows[n] \in Entry /\ rows[n].key \in Keys /\ NBytes[rows[n].key] \in Nat
<1>1. rows[n] \in Entry
  OBVIOUS
<1>2. rows[n].key \in Keys
  BY <1>1 DEF Entry
<1> QED
  BY <1>1, <1>2, UploadsAssumption

\* The running total of the rows exists,
LEMMA TotalsExist ==
  ASSUME NEW rows \in Seq(Entry)
  PROVE  \E f : f = [n \in 0..Len(rows) |-> IF n = 0 THEN 0 ELSE f[n - 1] + NBytes[rows[n].key]]
<1> DEFINE N == Len(rows)
           T(f, M) == /\ f \in [0..M -> Nat]
                      /\ \A n \in 0..M :
                           f[n] = IF n = 0 THEN 0 ELSE f[n - 1] + NBytes[rows[n].key]
           S == {M \in 0..N : \E f : T(f, M)}
<1>1. N \in Nat
  OBVIOUS
<1>2. 0 \in S
  <2> DEFINE zero == [n \in 0..0 |-> 0]
  <2>1. zero \in [0..0 -> Nat] /\ \A n \in 0..0 : n = 0 /\ zero[n] = 0
    OBVIOUS
  <2> HIDE DEF zero
  <2> QED
    BY <1>1, <2>1
<1>3. ASSUME NEW M \in Nat, M < N, M \in S PROVE M + 1 \in S
  <2>1. PICK f : T(f, M)
    BY <1>3
  <2>2. M + 1 \in 1..N /\ NBytes[rows[M + 1].key] \in Nat
    BY <1>1, <1>3, EntryWeighs
  <2> DEFINE g == [n \in 0..(M + 1) |-> IF n = M + 1 THEN f[M] + NBytes[rows[M + 1].key] ELSE f[n]]
  <2>3. f[M] \in Nat /\ \A n \in 0..(M + 1) : n # M + 1 => n \in 0..M /\ f[n] \in Nat
    BY <1>3, <2>1
  <2>4. g \in [0..(M + 1) -> Nat]
    BY <2>2, <2>3
  <2>5. \A n \in 0..(M + 1) : g[n] = IF n = 0 THEN 0 ELSE g[n - 1] + NBytes[rows[n].key]
    <3> SUFFICES ASSUME NEW n \in 0..(M + 1)
                 PROVE  g[n] = IF n = 0 THEN 0 ELSE g[n - 1] + NBytes[rows[n].key]
      OBVIOUS
    <3>1. CASE n = M + 1
      <4>1. n # 0 /\ n - 1 = M /\ M \in 0..(M + 1) /\ M # M + 1
        BY <1>3, <3>1
      <4> QED
        BY <3>1, <4>1
    <3>2. CASE n # M + 1
      <4>1. n \in 0..M /\ g[n] = f[n]
        BY <2>3, <3>2
      <4>2. n # 0 => n - 1 \in 0..(M + 1) /\ n - 1 # M + 1 /\ g[n - 1] = f[n - 1]
        BY <1>3
      <4>3. f[n] = IF n = 0 THEN 0 ELSE f[n - 1] + NBytes[rows[n].key]
        BY <2>1, <4>1
      <4> QED
        BY <4>1, <4>2, <4>3
    <3> QED
      BY <3>1, <3>2
  <2>6. M + 1 \in 0..N
    BY <2>2
  <2>7. T(g, M + 1)
    BY <2>4, <2>5
  <2> QED
    BY <2>6, <2>7
<1>4. N \in S
  <2> HIDE DEF S
  <2>1. 0..N \subseteq S
    BY <1>1, <1>2, <1>3, Climb
  <2> QED
    BY <1>1, <2>1
<1>5. PICK f : T(f, N)
  BY <1>4
<1>6. f = [n \in 0..N |-> IF n = 0 THEN 0 ELSE f[n - 1] + NBytes[rows[n].key]]
  BY <1>5
<1> QED
  BY <1>6

\* and is what the rows say, step by step.
LEMMA WeightFacts ==
  ASSUME NEW rows \in Seq(Entry)
  PROVE  /\ Weight(rows)[0] = 0
         /\ \A n \in 1..Len(rows) : Weight(rows)[n] = Weight(rows)[n - 1] + NBytes[rows[n].key]
         /\ \A n \in 0..Len(rows) : Weight(rows)[n] \in Nat
<1> DEFINE N == Len(rows)
           W == Weight(rows)
           S == {n \in 0..N : W[n] \in Nat}
<1>1. W = [n \in 0..N |-> IF n = 0 THEN 0 ELSE W[n - 1] + NBytes[rows[n].key]]
  BY TotalsExist DEF Weight
<1>2. N \in Nat
  OBVIOUS
<1> HIDE DEF W, N
<1>3. W[0] = 0
  BY <1>1, <1>2
<1>4. \A n \in 1..N : W[n] = W[n - 1] + NBytes[rows[n].key]
  BY <1>1, <1>2
<1>5. ASSUME NEW n \in Nat, n < N, n \in S PROVE n + 1 \in S
  <2>1. n + 1 \in 1..N /\ (n + 1) - 1 = n
    BY <1>2, <1>5
  <2>2. NBytes[rows[n + 1].key] \in Nat
    BY <2>1, EntryWeighs DEF N
  <2>3. W[n + 1] = W[n] + NBytes[rows[n + 1].key]
    BY <1>4, <2>1
  <2> QED
    BY <1>2, <1>5, <2>1, <2>2, <2>3
<1>6. 0..N \subseteq S
  <2>1. 0 \in S
    BY <1>2, <1>3
  <2> HIDE DEF S
  <2> QED
    BY <1>2, <1>5, <2>1, Climb
<1> QED
  BY <1>3, <1>4, <1>6 DEF W, N

\* Rows with the same keys weigh the same wherever they stand.
LEMMA SameSpan ==
  ASSUME NEW a \in Seq(Entry), NEW b \in Seq(Entry),
         NEW x \in 0..Len(a), NEW y \in 0..Len(b), NEW p \in 0..x, NEW q \in 0..y,
         x - p = y - q, \A j \in 1..(x - p) : a[p + j].key = b[q + j].key
  PROVE  Weight(a)[x] - Weight(a)[p] = Weight(b)[y] - Weight(b)[q]
<1> DEFINE m == x - p
           S == {j \in 0..m : Weight(a)[p + j] - Weight(a)[p] = Weight(b)[q + j] - Weight(b)[q]}
<1>0. /\ p \in Nat /\ q \in Nat /\ m \in Nat /\ p + m = x /\ q + m = y
      /\ p + m <= Len(a) /\ q + m <= Len(b)
      /\ \A j \in 1..m : a[p + j].key = b[q + j].key
  OBVIOUS
<1> HIDE DEF m
<1>1. Len(a) \in Nat /\ Len(b) \in Nat
  OBVIOUS
<1>2. \A j \in 0..m : /\ Weight(a)[p + j] \in Nat
                      /\ Weight(b)[q + j] \in Nat
  <2> SUFFICES ASSUME NEW j \in 0..m PROVE Weight(a)[p + j] \in Nat /\ Weight(b)[q + j] \in Nat
    OBVIOUS
  <2>1. p + j \in 0..Len(a) /\ q + j \in 0..Len(b)
    BY <1>0, <1>1
  <2> QED
    BY <2>1, WeightFacts
<1>3. 0 \in S
  <2>1. 0 \in 0..m /\ p + 0 = p /\ q + 0 = q
    BY <1>0
  <2>2. Weight(a)[p] \in Nat /\ Weight(b)[q] \in Nat
    BY <1>0, <1>2, <2>1
  <2>3. Weight(a)[p + 0] - Weight(a)[p] = Weight(b)[q + 0] - Weight(b)[q]
    <3>1. Weight(a)[p] - Weight(a)[p] = Weight(b)[q] - Weight(b)[q]
      BY <2>2
    <3> QED
      BY <2>1, <3>1
  <2> QED
    BY <2>1, <2>3
<1>4. ASSUME NEW j \in Nat, j < m, j \in S PROVE j + 1 \in S
  <2>1. /\ j + 1 \in 1..m /\ j \in 0..m /\ 0 \in 0..m /\ p + 0 = p /\ q + 0 = q
        /\ p + (j + 1) \in 1..Len(a) /\ (p + (j + 1)) - 1 = p + j
        /\ q + (j + 1) \in 1..Len(b) /\ (q + (j + 1)) - 1 = q + j
    BY <1>0, <1>1, <1>4
  <2>2. NBytes[a[p + (j + 1)].key] \in Nat /\ a[p + (j + 1)].key = b[q + (j + 1)].key
    BY <1>0, <2>1, EntryWeighs
  <2>3. /\ Weight(a)[p + (j + 1)] = Weight(a)[p + j] + NBytes[a[p + (j + 1)].key]
        /\ Weight(b)[q + (j + 1)] = Weight(b)[q + j] + NBytes[b[q + (j + 1)].key]
    BY <2>1, WeightFacts
  <2>4. Weight(a)[p] \in Nat /\ Weight(b)[q] \in Nat
    <3>1. p \in 0..Len(a) /\ q \in 0..Len(b)
      BY <1>0, <1>1
    <3> QED
      BY <3>1, WeightFacts
  <2>5. /\ Weight(a)[p + j] \in Nat /\ Weight(b)[q + j] \in Nat
        /\ Weight(a)[p + j] - Weight(a)[p] = Weight(b)[q + j] - Weight(b)[q]
    BY <1>0, <1>2, <1>4, <2>1
  <2>6. Weight(a)[p + (j + 1)] - Weight(a)[p] = Weight(b)[q + (j + 1)] - Weight(b)[q]
    <3> DEFINE adds == NBytes[a[p + (j + 1)].key]
               before == Weight(a)[p + j]
               after == Weight(b)[q + j]
               start == Weight(a)[p]
               base == Weight(b)[q]
    <3>1. /\ adds \in Nat /\ before \in Nat /\ after \in Nat /\ start \in Nat /\ base \in Nat
          /\ before - start = after - base
          /\ Weight(a)[p + (j + 1)] = before + adds /\ Weight(b)[q + (j + 1)] = after + adds
      BY <2>2, <2>3, <2>4, <2>5
    <3> HIDE DEF adds, before, after, start, base
    <3>2. (before + adds) - start = (after + adds) - base
      BY <3>1
    <3>3. Weight(a)[p + (j + 1)] - start = Weight(b)[q + (j + 1)] - base
      BY <3>1, <3>2, Zenon
    <3> QED
      BY <3>3 DEF start, base
  <2> QED
    BY <2>1, <2>6
<1>5. 0..m \subseteq S
  <2> HIDE DEF S
  <2> QED
    BY <1>0, <1>3, <1>4, Climb
<1>6. m \in S
  BY <1>0, <1>5
<1> QED
  BY <1>0, <1>6

-----------------------------------------------------------------------------
(* The buffers *)

DistinctKeys == \A n, m \in DOMAIN entries : entries[n].key = entries[m].key => n = m

\* Popping a key from the mailbox takes its entry out, and its bytes.
LEMMA OthersFacts ==
  ASSUME entries \in Seq(Entry), DistinctKeys, NEW k, Holds(k)
  PROVE  /\ Others(k) \in Seq(Entry) /\ Len(Others(k)) = Len(entries) - 1
         /\ \A n \in 1..Len(Others(k)) : Others(k)[n].key # k
         /\ \A n, m \in 1..Len(Others(k)) : Others(k)[n].key = Others(k)[m].key => n = m
         /\ Weight(Others(k))[Len(Others(k))] = Weight(entries)[Len(entries)] - NBytes[k]
<1> DEFINE at == CHOOSE n \in DOMAIN entries : entries[n].key = k
           L == Len(entries)
           O == Others(k)
<1>1. L \in Nat /\ at \in 1..L /\ entries[at].key = k
  BY DEF Holds
<1> HIDE DEF at
<1>2. O = SubSeq(entries, 1, at - 1) \o SubSeq(entries, at + 1, L)
  BY DEF Others, RemoveAt, at
<1>3. /\ O \in Seq(Entry) /\ Len(O) = L - 1
      /\ \A n \in 1..(L - 1) : O[n] = IF n < at THEN entries[n] ELSE entries[n + 1]
  <2> DEFINE a == SubSeq(entries, 1, at - 1)
             b == SubSeq(entries, at + 1, L)
  <2>1. a \in Seq(Entry) /\ Len(a) = at - 1 /\ \A n \in 1..(at - 1) : a[n] = entries[n]
    BY <1>1
  <2>2. b \in Seq(Entry) /\ Len(b) = L - at /\ \A n \in 1..(L - at) : b[n] = entries[at + n]
    BY <1>1
  <2> HIDE DEF a, b
  <2>3. O = a \o b
    BY <1>2 DEF a, b
  <2>4. O \in Seq(Entry) /\ Len(O) = L - 1
    BY <1>1, <2>1, <2>2, <2>3
  <2>5. ASSUME NEW n \in 1..(L - 1)
        PROVE  O[n] = IF n < at THEN entries[n] ELSE entries[n + 1]
    <3>1. CASE n < at
      <4>1. n \in 1..(at - 1)
        BY <1>1, <3>1
      <4>2. O[n] = a[n]
        BY <1>1, <2>1, <2>2, <2>3, <4>1
      <4> QED
        BY <2>1, <3>1, <4>1, <4>2
    <3>2. CASE ~(n < at)
      <4>1. n - (at - 1) \in 1..(L - at) /\ at + (n - (at - 1)) = n + 1
        BY <1>1, <3>2
      <4>2. O[n] = b[n - (at - 1)]
        BY <1>1, <2>1, <2>2, <2>3, <4>1
      <4> QED
        BY <2>2, <3>2, <4>1, <4>2
    <3> QED
      BY <3>1, <3>2
  <2> QED
    BY <2>4, <2>5
<1> HIDE DEF O, L
<1> DEFINE from(n) == IF n < at THEN n ELSE n + 1
<1>4. \A n \in 1..(L - 1) : /\ from(n) \in 1..L /\ from(n) # at /\ O[n] = entries[from(n)]
  BY <1>1, <1>3
<1>5. \A n, m \in 1..(L - 1) : from(n) = from(m) => n = m
  BY <1>1
<1>6. \A n, m \in 1..L : entries[n].key = entries[m].key => n = m
  BY DEF DistinctKeys, L
<1>7. /\ \A n \in 1..(L - 1) : O[n].key # k
      /\ \A n, m \in 1..(L - 1) : O[n].key = O[m].key => n = m
  <2> HIDE DEF from
  <2>1. \A n \in 1..(L - 1) : O[n].key # k
    BY <1>1, <1>4, <1>6
  <2>2. ASSUME NEW n \in 1..(L - 1), NEW m \in 1..(L - 1), O[n].key = O[m].key PROVE n = m
    <3>1. entries[from(n)].key = entries[from(m)].key /\ from(n) \in 1..L /\ from(m) \in 1..L
      BY <1>4, <2>2
    <3>2. from(n) = from(m)
      BY <1>6, <3>1
    <3> QED
      BY <1>5, <3>2
  <2> QED
    BY <2>1, <2>2
<1>8. /\ 0 \in 0..(at - 1) /\ at - 1 \in 0..(L - 1) /\ at - 1 \in 0..L /\ L - 1 \in 0..(L - 1)
      /\ at - 1 \in 0..(L - 1) /\ at \in 0..L /\ L \in 0..L
  BY <1>1
<1>9. Weight(O)[at - 1] - Weight(O)[0] = Weight(entries)[at - 1] - Weight(entries)[0]
  <2>1. \A j \in 1..((at - 1) - 0) : O[0 + j].key = entries[0 + j].key
    BY <1>1, <1>3
  <2>2. at - 1 \in 0..Len(O) /\ at - 1 \in 0..Len(entries) /\ 0 \in 0..(at - 1)
    BY <1>3, <1>8 DEF L
  <2> QED
    BY <1>3, <2>1, <2>2, SameSpan
<1>10. Weight(O)[L - 1] - Weight(O)[at - 1] = Weight(entries)[L] - Weight(entries)[at]
  <2>1. (L - 1) - (at - 1) = L - at /\ L - at \in Nat
    BY <1>1
  <2>2. \A j \in 1..((L - 1) - (at - 1)) : O[(at - 1) + j].key = entries[at + j].key
    <3> SUFFICES ASSUME NEW j \in 1..(L - at)
                 PROVE  O[(at - 1) + j].key = entries[at + j].key
      BY <2>1
    <3>1. /\ (at - 1) + j \in 1..(L - 1) /\ ~((at - 1) + j < at) /\ ((at - 1) + j) + 1 = at + j
      BY <1>1
    <3>2. O[(at - 1) + j] = entries[((at - 1) + j) + 1]
      BY <1>3, <3>1
    <3> QED
      BY <3>1, <3>2
  <2>3. at - 1 \in 0..(L - 1) /\ at \in 0..L /\ L - 1 \in 0..Len(O) /\ L \in 0..Len(entries)
    BY <1>1, <1>3 DEF L
  <2> QED
    BY <1>3, <2>1, <2>2, <2>3, SameSpan
<1>11. Weight(entries)[at] = Weight(entries)[at - 1] + NBytes[k]
  BY <1>1, WeightFacts DEF L
<1>12. /\ Weight(O)[0] = 0 /\ Weight(O)[at - 1] \in Nat /\ Weight(O)[L - 1] \in Nat
  BY <1>3, <1>8, WeightFacts
<1>13. /\ Weight(entries)[0] = 0 /\ Weight(entries)[at - 1] \in Nat
       /\ Weight(entries)[at] \in Nat /\ Weight(entries)[L] \in Nat
  BY <1>8, WeightFacts DEF L
<1>14. NBytes[k] \in Nat
  BY <1>1, EntryWeighs DEF L
<1>15. Weight(O)[L - 1] = Weight(entries)[L] - NBytes[k]
  <2>1. Weight(O)[at - 1] = Weight(entries)[at - 1]
    BY <1>9, <1>12, <1>13
  <2>2. Weight(O)[L - 1] - Weight(O)[at - 1] = Weight(entries)[L] - Weight(entries)[at]
    BY <1>10
  <2> QED
    BY <1>11, <1>12, <1>13, <1>14, <2>1, <2>2
<1> QED
  BY <1>3, <1>7, <1>15 DEF O, L

\* Appending a row adds its bytes.
LEMMA AppendWeighs ==
  ASSUME NEW rows \in Seq(Entry), NEW e \in Entry
  PROVE  /\ Append(rows, e) \in Seq(Entry)
         /\ Weight(Append(rows, e))[Len(rows)] = Weight(rows)[Len(rows)]
         /\ Weight(Append(rows, e))[Len(rows) + 1] = Weight(rows)[Len(rows)] + NBytes[e.key]
<1> DEFINE L == Len(rows)
           more == Append(rows, e)
<1>1. /\ L \in Nat /\ more \in Seq(Entry) /\ Len(more) = L + 1
      /\ \A j \in 1..L : more[j] = rows[j]
      /\ more[L + 1] = e
  OBVIOUS
<1> HIDE DEF more
<1>2. Weight(more)[L] - Weight(more)[0] = Weight(rows)[L] - Weight(rows)[0]
  <2>1. /\ L \in 0..Len(more) /\ L \in 0..Len(rows) /\ 0 \in 0..L /\ L - 0 = L
        /\ \A j \in 1..(L - 0) : more[0 + j].key = rows[0 + j].key
    BY <1>1
  <2> QED
    BY <1>1, <2>1, SameSpan
<1>3. /\ L \in 0..Len(rows) /\ L \in 0..Len(more) /\ L + 1 \in 1..Len(more)
      /\ (L + 1) - 1 = L
  BY <1>1
<1> HIDE DEF L
<1>4. /\ Weight(more)[0] = 0 /\ Weight(more)[L] \in Nat
      /\ Weight(more)[L + 1] = Weight(more)[L] + NBytes[e.key]
  BY <1>1, <1>3, WeightFacts
<1>5. Weight(rows)[0] = 0 /\ Weight(rows)[L] \in Nat
  BY <1>3, WeightFacts
<1>6. Weight(more)[L] = Weight(rows)[L]
  BY <1>2, <1>3, <1>4, <1>5
<1> QED
  BY <1>1, <1>4, <1>6 DEF more, L

\* Rows evicted from the front leave the weight of the others.
LEMMA TailWeighs ==
  ASSUME NEW rows \in Seq(Entry), NEW n \in 0..Len(rows)
  PROVE  LET rest == SubSeq(rows, n + 1, Len(rows))
         IN  /\ rest \in Seq(Entry) /\ Len(rest) = Len(rows) - n
             /\ \A j \in 1..(Len(rows) - n) : rest[j] = rows[n + j]
             /\ Weight(rest)[Len(rows) - n] = Weight(rows)[Len(rows)] - Weight(rows)[n]
<1> DEFINE L == Len(rows)
           rest == SubSeq(rows, n + 1, L)
<1>1. /\ L \in Nat /\ rest \in Seq(Entry) /\ Len(rest) = L - n /\ L - n \in Nat
      /\ \A j \in 1..(L - n) : rest[j] = rows[n + j]
  OBVIOUS
<1> HIDE DEF rest
<1>2. Weight(rest)[L - n] - Weight(rest)[0] = Weight(rows)[L] - Weight(rows)[n]
  <2>1. /\ L - n \in 0..Len(rest) /\ L \in 0..Len(rows) /\ 0 \in 0..(L - n) /\ n \in 0..L
        /\ (L - n) - 0 = L - n
        /\ \A j \in 1..((L - n) - 0) : rest[0 + j].key = rows[n + j].key
    BY <1>1
  <2> QED
    BY <1>1, <2>1, SameSpan
<1>3. L - n \in 0..Len(rest) /\ L \in 0..Len(rows)
  BY <1>1
<1>4. Weight(rest)[0] = 0 /\ Weight(rest)[L - n] \in Nat
  BY <1>1, <1>3, WeightFacts
<1>5. Weight(rest)[L - n] = Weight(rows)[L] - Weight(rows)[n]
  BY <1>2, <1>3, <1>4
<1> QED
  BY <1>1, <1>5 DEF rest

BufferCounters == {"stored", "hits", "replaced", "evicted", "discarded"}

BufferTypes ==
    /\ entries \in Seq(Entry)
    /\ key \in [Tasks -> Keys]
    /\ \A c \in BufferCounters : count[c] \in Nat

BufferInv == BufferTypes /\ EveryBufferIsCounted

\* Eviction ends: with what fits, or with the last row.
LEMMA EvictedFacts ==
  ASSUME NEW rows \in Seq(Entry), Len(rows) # 0, NEW bytes
  PROVE  /\ Evicted(rows, bytes) \in 0..(Len(rows) - 1)
         /\ Fits(rows, bytes, Evicted(rows, bytes)) \/ Evicted(rows, bytes) = Len(rows) - 1
<1> DEFINE top == Len(rows) - 1
           Enough == {n \in 0..top : Fits(rows, bytes, n) \/ n = top}
<1>1. top \in Nat
  OBVIOUS
<1> HIDE DEF top
<1>2. PICK n \in Enough : \A m \in Enough : n <= m
  <2>1. Enough \in SUBSET Nat /\ top \in Enough
    BY <1>1
  <2> HIDE DEF Enough
  <2> QED
    BY <2>1, LeastOfNat
<1>3. n \in 0..top /\ (Fits(rows, bytes, n) \/ n = top)
  BY <1>2
<1>4. \A m \in 0..(n - 1) : ~Fits(rows, bytes, m)
  <2> SUFFICES ASSUME NEW m \in 0..(n - 1), Fits(rows, bytes, m) PROVE FALSE
    OBVIOUS
  <2>1. m \in 0..top /\ ~(n <= m)
    BY <1>1, <1>3
  <2> QED
    BY <1>2, <2>1
<1> QED
  BY <1>3, <1>4 DEF Evicted, top

LEMMA PublishedIsCounted ==
  ASSUME BufferInv, CountTypes, NEW i \in Tasks, ~Oversized(key[i]), Store(i), key' = key
  PROVE  BufferInv'
<1> DEFINE k == key[i]
           e == [key |-> k, generation |-> i]
           O == Others(k)
           rows == Append(O, e)
           bytes == (IF Holds(k) THEN residentBytes - NBytes[k] ELSE residentBytes) + NBytes[k]
           n == Evicted(rows, bytes)
           L == Len(rows)
           rest == SubSeq(rows, n + 1, L)
<1>1. /\ k \in Keys /\ e \in Entry /\ e.key = k /\ NBytes[k] \in Nat
      /\ entries \in Seq(Entry) /\ DistinctKeys
      /\ residentBytes = Weight(entries)[Len(entries)]
  BY UploadsAssumption DEF BufferInv, BufferTypes, Entry, EveryBufferIsCounted, DistinctKeys
<1>2. /\ entries' = rest
      /\ residentBytes' = bytes - Weight(rows)[n]
      /\ count' = [count EXCEPT !.stored = @ + 1,
                                !.replaced = IF Holds(k) THEN @ + 1 ELSE @,
                                !.evicted = @ + n]
  BY DEF Store
<1> HIDE DEF e
\* What was there under other identities,
<1>3. /\ O \in Seq(Entry)
      /\ Len(O) = IF Holds(k) THEN Len(entries) - 1 ELSE Len(entries)
      /\ \A j \in 1..Len(O) : O[j].key # k
      /\ \A j, m \in 1..Len(O) : O[j].key = O[m].key => j = m
      /\ bytes = Weight(O)[Len(O)] + NBytes[k]
  <2>1. CASE Holds(k)
    BY <1>1, <2>1, OthersFacts
  <2>2. CASE ~Holds(k)
    <3>1. O = entries /\ bytes = residentBytes + NBytes[k]
      BY <2>2 DEF Others
    <3> QED
      BY <1>1, <2>2, <3>1 DEF Holds, DistinctKeys
  <2> QED
    BY <2>1, <2>2
<1> HIDE DEF O, bytes
\* and the new buffer last of all.
<1>4. /\ rows \in Seq(Entry) /\ L = Len(O) + 1 /\ L \in Nat /\ L # 0
      /\ Weight(rows)[L] = bytes /\ Weight(rows)[L - 1] = bytes - NBytes[k]
      /\ \A j, m \in 1..L : rows[j].key = rows[m].key => j = m
  <2>1. /\ rows \in Seq(Entry)
        /\ Weight(rows)[Len(O)] = Weight(O)[Len(O)]
        /\ Weight(rows)[Len(O) + 1] = Weight(O)[Len(O)] + NBytes[k]
    BY <1>1, <1>3, AppendWeighs
  <2>2. /\ L = Len(O) + 1 /\ Len(O) \in Nat /\ rows[Len(O) + 1] = e
        /\ \A j \in 1..Len(O) : rows[j] = O[j]
    BY <1>3
  <2> HIDE DEF rows
  <2>3. \A j, m \in 1..L : rows[j].key = rows[m].key => j = m
    <3> SUFFICES ASSUME NEW j \in 1..L, NEW m \in 1..L, rows[j].key = rows[m].key
                 PROVE  j = m
      OBVIOUS
    <3>1. (j \in 1..Len(O) \/ j = Len(O) + 1) /\ (m \in 1..Len(O) \/ m = Len(O) + 1)
      BY <2>2
    <3> QED
      BY <1>1, <1>3, <2>2, <3>1
  <2>4. Weight(O)[Len(O)] \in Nat
    BY <1>3, <2>2, WeightFacts
  <2> QED
    BY <1>1, <1>3, <2>1, <2>2, <2>3, <2>4
<1> HIDE DEF rows, L
<1>5. n \in 0..(L - 1) /\ (Fits(rows, bytes, n) \/ n = L - 1) /\ n \in 0..L
  <2>1. n \in 0..(L - 1) /\ (Fits(rows, bytes, n) \/ n = L - 1)
    BY <1>4, EvictedFacts DEF L
  <2> QED
    BY <1>4, <2>1
<1> HIDE DEF n
<1>6. /\ rest \in Seq(Entry) /\ Len(rest) = L - n
      /\ \A j \in 1..(L - n) : rest[j] = rows[n + j]
      /\ Weight(rest)[L - n] = Weight(rows)[L] - Weight(rows)[n]
  BY <1>4, <1>5, TailWeighs DEF L
<1> HIDE DEF rest
<1>7. residentBytes' = Weight(entries')[Len(entries')]
  BY <1>2, <1>4, <1>6
<1>8. \A j, m \in DOMAIN entries' : entries'[j].key = entries'[m].key => j = m
  <2> SUFFICES ASSUME NEW j \in 1..(L - n), NEW m \in 1..(L - n), rest[j].key = rest[m].key
               PROVE  j = m
    BY <1>2, <1>6
  <2>1. n + j \in 1..L /\ n + m \in 1..L
    BY <1>4, <1>5
  <2>2. rows[n + j].key = rows[n + m].key
    BY <1>6
  <2>3. n + j = n + m
    BY <1>4, <2>1, <2>2
  <2> QED
    BY <1>5, <2>3
<1>9. BudgetBytes # 0 => residentBytes' <= BudgetBytes
  <2> SUFFICES ASSUME BudgetBytes # 0 PROVE bytes - Weight(rows)[n] <= BudgetBytes
    BY <1>2
  <2>1. CASE Fits(rows, bytes, n)
    BY <2>1 DEF Fits
  <2>2. CASE n = L - 1
    <3>1. L - 1 \in 0..Len(rows) /\ L \in 0..Len(rows)
      BY <1>4 DEF L
    <3>2. Weight(rows)[L - 1] \in Nat /\ Weight(rows)[L] \in Nat
      BY <1>4, <3>1, WeightFacts
    <3>3. bytes - Weight(rows)[n] = NBytes[k]
      BY <1>1, <1>4, <2>2, <3>2
    <3> QED
      BY <1>1, <3>3, UploadsAssumption DEF Oversized
  <2> QED
    BY <1>5, <2>1, <2>2
<1>10. /\ \A c \in BufferCounters : count[c] \in Nat
       /\ count.stored = ((((count.hits + count.replaced) + count.evicted) + count.discarded)
                          + Len(entries))
  BY DEF BufferInv, BufferTypes, EveryBufferIsCounted
<1>11. /\ count'.stored = count.stored + 1
       /\ count'.replaced = IF Holds(k) THEN count.replaced + 1 ELSE count.replaced
       /\ count'.evicted = count.evicted + n
       /\ count'.hits = count.hits /\ count'.discarded = count.discarded
  BY <1>2 DEF CountTypes, Counters
<1>12. \A c \in BufferCounters : count'[c] \in Nat
  <2>1. n \in Nat
    BY <1>4, <1>5
  <2>2. /\ count.stored \in Nat /\ count.hits \in Nat /\ count.replaced \in Nat
        /\ count.evicted \in Nat /\ count.discarded \in Nat
    BY <1>10 DEF BufferCounters
  <2>3. /\ count'.stored \in Nat /\ count'.hits \in Nat /\ count'.replaced \in Nat
        /\ count'.evicted \in Nat /\ count'.discarded \in Nat
    BY <1>11, <2>1, <2>2
  <2> QED
    BY <2>3 DEF BufferCounters
<1>13. count'.stored = count'.hits + count'.replaced + count'.evicted + count'.discarded
                       + Len(entries')
  <2>1. /\ Len(entries') = (Len(O) + 1) - n /\ Len(entries) \in Nat /\ n \in Nat
    BY <1>1, <1>2, <1>4, <1>5, <1>6
  <2>2. /\ count.stored \in Nat /\ count.hits \in Nat /\ count.replaced \in Nat
        /\ count.evicted \in Nat /\ count.discarded \in Nat
    BY <1>10 DEF BufferCounters
  <2>3. \/ /\ Len(entries') = Len(entries) - n
           /\ count'.replaced = count.replaced + 1
        \/ /\ Len(entries') = (Len(entries) + 1) - n
           /\ count'.replaced = count.replaced
    <3>1. CASE Holds(k)
      BY <1>3, <1>11, <2>1, <3>1
    <3>2. CASE ~Holds(k)
      BY <1>3, <1>11, <2>1, <3>2
    <3> QED
      BY <3>1, <3>2
  <2>4. /\ count'.stored = count.stored + 1 /\ count'.evicted = count.evicted + n
        /\ count'.hits = count.hits /\ count'.discarded = count.discarded
    BY <1>11
  <2>5. count.stored = ((((count.hits + count.replaced) + count.evicted) + count.discarded)
                        + Len(entries))
    BY <1>10
  <2>6. n \in Nat /\ Len(entries) \in Nat
    BY <2>1
  <2> DEFINE h == count.hits
             r == count.replaced
             v == count.evicted
             d == count.discarded
             l == Len(entries)
  <2>7. /\ h \in Nat /\ r \in Nat /\ v \in Nat /\ d \in Nat /\ l \in Nat /\ n \in Nat
        /\ count'.stored = ((((h + r) + v) + d) + l) + 1
    BY <2>2, <2>4, <2>5, <2>6
  <2>8. /\ count'.hits = h /\ count'.evicted = v + n /\ count'.discarded = d
        /\ \/ Len(entries') = l - n /\ count'.replaced = r + 1
           \/ Len(entries') = (l + 1) - n /\ count'.replaced = r
    BY <2>3, <2>4
  <2> HIDE DEF h, r, v, d, l
  <2>9. /\ ((((h + r) + v) + d) + l) + 1 = (((h + (r + 1)) + (v + n)) + d) + (l - n)
        /\ ((((h + r) + v) + d) + l) + 1 = (((h + r) + (v + n)) + d) + ((l + 1) - n)
    BY <2>7
  <2> QED
    BY <2>7, <2>8, <2>9, Zenon
<1>14. entries' \in Seq(Entry) /\ key' \in [Tasks -> Keys]
  BY <1>2, <1>6 DEF BufferInv, BufferTypes
<1>15. EveryBufferIsCounted'
  BY <1>7, <1>8, <1>9, <1>13 DEF EveryBufferIsCounted
<1> QED
  BY <1>12, <1>14, <1>15 DEF BufferInv, BufferTypes

LEMMA TakenIsCounted ==
  ASSUME BufferInv, CountTypes, NEW k \in Keys, Take(k)
  PROVE  BufferInv'
<1> DEFINE O == Others(k)
<1>1. /\ entries \in Seq(Entry) /\ DistinctKeys /\ Holds(k)
      /\ residentBytes = Weight(entries)[Len(entries)]
      /\ BudgetBytes # 0 => residentBytes <= BudgetBytes
  BY DEF BufferInv, BufferTypes, EveryBufferIsCounted, DistinctKeys, Take
<1>2. /\ entries' = O /\ residentBytes' = residentBytes - NBytes[k] /\ key' = key
      /\ count' = [count EXCEPT !.hits = @ + 1]
  BY DEF Take, taskVars
<1>3. /\ O \in Seq(Entry) /\ Len(O) = Len(entries) - 1
      /\ \A n, m \in 1..Len(O) : O[n].key = O[m].key => n = m
      /\ Weight(O)[Len(O)] = Weight(entries)[Len(entries)] - NBytes[k]
  BY <1>1, OthersFacts
<1> HIDE DEF O
<1>4. residentBytes' = Weight(entries')[Len(entries')]
  BY <1>1, <1>2, <1>3
<1>5. \A n, m \in DOMAIN entries' : entries'[n].key = entries'[m].key => n = m
  BY <1>2, <1>3
<1>6. BudgetBytes # 0 => residentBytes' <= BudgetBytes
  <2>1. Len(entries) \in 0..Len(entries)
    BY <1>1
  <2>2. residentBytes \in Nat /\ NBytes[k] \in Nat
    BY <1>1, <2>1, WeightFacts, UploadsAssumption
  <2> QED
    BY <1>1, <1>2, <2>2, UploadsAssumption
<1>7. /\ \A c \in BufferCounters : count[c] \in Nat
      /\ count.stored = ((((count.hits + count.replaced) + count.evicted) + count.discarded)
                         + Len(entries))
  BY DEF BufferInv, BufferTypes, EveryBufferIsCounted
<1>8. /\ count'.hits = count.hits + 1
      /\ \A c \in BufferCounters \ {"hits"} : count'[c] = count[c]
  BY <1>2 DEF CountTypes, Counters, BufferCounters
<1>9. \A c \in BufferCounters : count'[c] \in Nat
  BY <1>7, <1>8 DEF BufferCounters
<1>10. count'.stored = count'.hits + count'.replaced + count'.evicted + count'.discarded
                       + Len(entries')
  <2>1. Len(entries') = Len(entries) - 1 /\ Len(entries) \in Nat
    BY <1>1, <1>2, <1>3
  <2>2. /\ count.stored \in Nat /\ count.hits \in Nat /\ count.replaced \in Nat
        /\ count.evicted \in Nat /\ count.discarded \in Nat
        /\ count'.stored = count.stored /\ count'.replaced = count.replaced
        /\ count'.evicted = count.evicted /\ count'.discarded = count.discarded
    BY <1>7, <1>8 DEF BufferCounters
  <2>3. count'.hits = count.hits + 1
    BY <1>8
  <2>4. count.stored = ((((count.hits + count.replaced) + count.evicted) + count.discarded)
                        + Len(entries))
    BY <1>7
  <2> DEFINE h == count.hits
             r == count.replaced
             e == count.evicted
             d == count.discarded
             l == Len(entries)
  <2>5. /\ h \in Nat /\ r \in Nat /\ e \in Nat /\ d \in Nat /\ l \in Nat
        /\ count'.stored = (((h + r) + e) + d) + l
    BY <2>1, <2>2, <2>4
  <2>6. /\ count'.hits = h + 1 /\ count'.replaced = r /\ count'.evicted = e
        /\ count'.discarded = d /\ Len(entries') = l - 1
    BY <2>1, <2>2, <2>3
  <2> HIDE DEF h, r, e, d, l
  <2>7. (((h + r) + e) + d) + l = ((((h + 1) + r) + e) + d) + (l - 1)
    BY <2>5
  <2> QED
    BY <2>5, <2>6, <2>7, Zenon
<1>11. key' \in [Tasks -> Keys]
  BY <1>2 DEF BufferInv, BufferTypes
<1> QED
  BY <1>2, <1>3, <1>4, <1>5, <1>6, <1>9, <1>10, <1>11
     DEF BufferInv, BufferTypes, EveryBufferIsCounted

LEMMA ClearedIsCounted ==
  ASSUME BufferInv, CountTypes, Clear
  PROVE  BufferInv'
<1>1. /\ entries' = <<>> /\ residentBytes' = 0 /\ key' = key
      /\ count' = [count EXCEPT !.discarded = @ + Len(entries)]
  BY DEF Clear, taskVars
<1>2. /\ <<>> \in Seq(Entry) /\ Len(<<>>) = 0
  OBVIOUS
<1>3. Weight(<<>>)[Len(<<>>)] = 0
  BY <1>2, WeightFacts
<1>4. /\ \A c \in BufferCounters : count[c] \in Nat
      /\ count.stored = ((((count.hits + count.replaced) + count.evicted) + count.discarded)
                         + Len(entries))
      /\ Len(entries) \in Nat
  BY DEF BufferInv, BufferTypes, EveryBufferIsCounted
<1>5. /\ count'.discarded = count.discarded + Len(entries)
      /\ \A c \in BufferCounters \ {"discarded"} : count'[c] = count[c]
  BY <1>1 DEF CountTypes, Counters, BufferCounters
<1>6. \A c \in BufferCounters : count'[c] \in Nat
  BY <1>4, <1>5 DEF BufferCounters
<1>7. count'.stored = count'.hits + count'.replaced + count'.evicted + count'.discarded
                      + Len(entries')
  BY <1>1, <1>2, <1>4, <1>5 DEF BufferCounters
<1>8. /\ key' \in [Tasks -> Keys]
      /\ \A n, m \in DOMAIN entries' : entries'[n].key = entries'[m].key => n = m
      /\ residentBytes' = Weight(entries')[Len(entries')]
      /\ BudgetBytes # 0 => residentBytes' <= BudgetBytes
  BY <1>1, <1>2, <1>3, UploadsAssumption DEF BufferInv, BufferTypes
<1> QED
  BY <1>1, <1>2, <1>6, <1>7, <1>8 DEF BufferInv, BufferTypes, EveryBufferIsCounted

\* Everything else leaves the mailbox alone.
LEMMA BuffersStill ==
  ASSUME BufferInv, UNCHANGED <<entries, residentBytes>>, key' \in [Tasks -> Keys],
         \A c \in BufferCounters : count'[c] = count[c]
  PROVE  BufferInv'
  BY DEF BufferInv, BufferTypes, EveryBufferIsCounted, BufferCounters

LEMMA BufferStep == Types /\ Shape /\ BufferInv /\ CountTypes /\ [Next]_vars => BufferInv'
<1> SUFFICES ASSUME Types, Shape, BufferInv, CountTypes, [Next]_vars PROVE BufferInv'
  OBVIOUS
<1>1. key \in [Tasks -> Keys]
  BY DEF BufferInv, BufferTypes
<1>2. CASE UNCHANGED vars \/ Shutdown
  BY <1>1, <1>2, BuffersStill DEF vars, Shutdown, taskVars
<1>3. CASE Plans
  <2>r. ASSUME NEW m \in Tasks, PlanRaises(m) PROVE BufferInv'
    BY <1>1, <2>r, BuffersStill DEF PlanRaises
  <2>1. SUFFICES ASSUME NEW m \in Tasks, NEW batch \in [1..m -> Keys], Plan(batch)
                 PROVE  BufferInv'
    BY <1>3, <2>r DEF Plans
  <2>2. Plan(batch)
    BY <2>1
  <2>3. m \in Nat /\ Len(batch) = m
    BY <2>2, UploadsAssumption
  <2>4. key' = [i \in Tasks |-> IF i \in (generation + 1)..(generation + m)
                                THEN batch[i - generation] ELSE key[i]]
    BY <2>2, <2>3 DEF Plan
  <2>5. ASSUME NEW i \in Tasks PROVE key'[i] \in Keys
    <3>1. i \in Nat /\ generation \in Nat
      BY UploadsAssumption DEF Types
    <3>2. CASE i \in (generation + 1)..(generation + m)
      <4>1. i - generation \in 1..m
        BY <2>3, <3>1, <3>2
      <4> QED
        BY <2>4, <3>2, <4>1
    <3>3. CASE ~(i \in (generation + 1)..(generation + m))
      BY <1>1, <2>4, <3>3
    <3> QED
      BY <3>2, <3>3
  <2>6. key' \in [Tasks -> Keys]
    BY <2>4, <2>5
  <2>7. UNCHANGED <<entries, residentBytes, count>>
    BY <2>2 DEF Plan
  <2> QED
    BY <2>6, <2>7, BuffersStill
<1>4. CASE OwnerStep
  <2>1. UNCHANGED <<entries, residentBytes, key>>
    BY <1>4 DEF OwnerStep, SkipHeld, Offer, Record, Submit, Reject, CountDropped
  <2>2. \A c \in BufferCounters : count'[c] = count[c]
    BY <1>4 DEF OwnerStep, SkipHeld, Offer, Record, Submit, Reject, CountDropped, CountTypes,
       Counters, BufferCounters
  <2> QED
    BY <1>1, <2>1, <2>2, BuffersStill
<1>5. CASE GuiStep
  BY <1>5, TakenIsCounted, ClearedIsCounted DEF GuiStep
<1>6. ASSUME NEW i \in Tasks, ClosureStep(i) PROVE BufferInv'
  <2>1. CASE Publish(i)
    BY <2>1, PublishedIsCounted DEF Publish
  <2>2. CASE ~Publish(i)
    <3>1. UNCHANGED <<entries, residentBytes, key>>
      BY <1>6, <2>2 DEF ClosureStep, Enter, Started, Raise, PublishRefused, Claim, Finishes
    <3>2. \A c \in BufferCounters : count'[c] = count[c]
      <4>1. CASE Finishes(i)
        <5>1. end[i] \in Finished
          BY <4>1 DEF Finishes, Shape, TaskShape
        <5>2. count' = [count EXCEPT !.inFlight = Less(@), ![end[i]] = @ + 1]
          BY <4>1 DEF Finishes
        <5>3. \A c \in BufferCounters : c # "inFlight" /\ c # end[i] /\ c \in Counters
          BY <5>1 DEF BufferCounters, Finished, Counters
        <5> QED
          BY <5>2, <5>3 DEF CountTypes
      <4>2. CASE ~Finishes(i)
        BY <1>6, <2>2, <4>2 DEF ClosureStep, Enter, Started, Raise, PublishRefused, Claim,
           CountTypes, Counters, BufferCounters
      <4> QED
        BY <4>1, <4>2
    <3> QED
      BY <1>1, <3>1, <3>2, BuffersStill
  <2> QED
    BY <2>1, <2>2
<1>7. ASSUME NEW i \in Tasks, KernelStep(i) PROVE BufferInv'
  BY <1>1, <1>7, BuffersStill DEF KernelStep, Begins, Settles, Drops, Tells, taskVars
<1> QED
  BY <1>2, <1>3, <1>4, <1>5, <1>6, <1>7 DEF Next

LEMMA InitBuffers == Init => BufferInv
<1> SUFFICES ASSUME Init PROVE BufferInv
  OBVIOUS
<1>1. /\ entries = <<>> /\ residentBytes = 0 /\ key \in [Tasks -> Keys]
      /\ \A c \in BufferCounters : count[c] = 0
  BY UploadsAssumption DEF Init, BufferCounters, Counters
<1>2. <<>> \in Seq(Entry) /\ Len(<<>>) = 0
  OBVIOUS
<1>3. Weight(<<>>)[Len(<<>>)] = 0
  BY <1>2, WeightFacts
<1>4. count.stored = count.hits + count.replaced + count.evicted + count.discarded + Len(entries)
  BY <1>1, <1>2 DEF BufferCounters
<1> QED
  BY <1>1, <1>2, <1>3, <1>4, UploadsAssumption
     DEF BufferInv, BufferTypes, EveryBufferIsCounted, BufferCounters

\* A buffer leaves the mailbox in exactly one way, an identity has one buffer,
\* and what is there weighs what _resident_bytes says, within the budget: after
\* every publication, replacement, eviction, take and reset, in any order.
THEOREM BuffersAreCounted == Spec => []EveryBufferIsCounted
<1>1. BufferInv => EveryBufferIsCounted
  BY DEF BufferInv
<1>2. Spec => [](Types /\ Shape /\ CountTypes /\ EveryTaskIsCounted)
  BY ShapeHolds, StepTypes, StepShape, InitShape, InitCounts, CountStep, PTL DEF Spec
<1> QED
  BY <1>1, <1>2, InitBuffers, BufferStep, PTL DEF Spec

-----------------------------------------------------------------------------
(* The kernel of this model is the kernel of TaskLedger *)

LEMMA StepLedger == Types /\ Types' /\ Shape /\ [Next]_vars => [LedgerNext]_ledgerVars
<1> SUFFICES ASSUME Types, Types', Shape, [Next]_vars PROVE [LedgerNext]_ledgerVars
  OBVIOUS
<1> DEFINE Lives(i) == Admit(i) \/ Begin(i) \/ Discard(i) \/ Finish(i) \/ Tell(i) \/ Rest(i)
<1>1. (\A i \in Tasks : Lives(i)) => LedgerNext
  BY DEF LedgerNext, Types
<1>2. CASE UNCHANGED ledgerVars
  BY <1>2
<1>3. CASE Submit
  <2>1. owner.task \in Tasks /\ phase[owner.task] = "absent"
    BY <1>3, UploadsAssumption DEF Submit, Types, Shape, OwnerShape, TaskShape
  <2>2. phase' = [phase EXCEPT ![owner.task] = "waiting"] /\ outcome' = outcome
    BY <1>3 DEF Submit
  <2>3. \A i \in Tasks : Lives(i)
    BY <2>1, <2>2 DEF Types, Admit, Goes, Rest
  <2> QED
    BY <1>1, <2>3
<1>4. CASE Shutdown
  <2>1. /\ phase' = [i \in Tasks |-> IF phase[i] = "waiting" THEN "settled" ELSE phase[i]]
        /\ outcome' = [i \in Tasks |-> IF phase[i] = "waiting" THEN "cancelled" ELSE outcome[i]]
    BY <1>4 DEF Shutdown
  <2>2. \A i \in Tasks : Lives(i)
    BY <2>1 DEF Discard, Goes, Rest, WithoutRunning
  <2> QED
    BY <1>1, <2>2
<1>5. ASSUME NEW i \in Tasks, KernelStep(i) PROVE LedgerNext
  <2>1. \A j \in Tasks \ {i} : Rest(j)
    BY <1>5 DEF KernelStep, Begins, Settles, Drops, Tells, Rest, Types
  <2>2. CASE Begins(i)
    BY <1>1, <2>1, <2>2 DEF Begins, Begin, Goes, Types
  <2>3. CASE Settles(i)
    <3>1. PICK o \in Reports(i) : outcome' = [outcome EXCEPT ![i] = o]
      BY <2>3 DEF Settles
    <3>2. o \in AfterRunning
      BY <3>1 DEF Reports, AfterRunning
    <3>3. Finish(i)
      BY <2>3, <3>1, <3>2 DEF Settles, Finish, Goes, Types
    <3> QED
      BY <1>1, <2>1, <3>3
  <2>4. CASE Drops(i)
    <3>1. Discard(i)
      BY <2>4 DEF Drops, Discard, Goes, Types, WithoutRunning
    <3> QED
      BY <1>1, <2>1, <3>1
  <2>5. CASE Tells(i)
    <3>1. PICK o \in AtDispatch(outcome[i]) : outcome' = [outcome EXCEPT ![i] = o]
      BY <2>5 DEF Tells
    <3>2. Tell(i)
      BY <2>5, <3>1 DEF Tells, Tell, Goes, Types
    <3> QED
      BY <1>1, <2>1, <3>2
  <2> QED
    BY <1>5, <2>2, <2>3, <2>4, <2>5 DEF KernelStep
<1>6. CASE Plans \/ GuiStep \/ SkipHeld \/ Offer \/ Record \/ Reject \/ CountDropped
  BY <1>2, <1>6 DEF Plans, Plan, PlanRaises, GuiStep, Take, Clear, SkipHeld, Offer, Record, Reject,
     CountDropped
<1>7. ASSUME NEW i \in Tasks, ClosureStep(i) PROVE UNCHANGED ledgerVars
  BY <1>7 DEF ClosureStep, Enter, Started, Raise, Publish, PublishRefused, Claim, Finishes
<1> QED
  BY <1>2, <1>3, <1>4, <1>5, <1>6, <1>7 DEF Next, OwnerStep, vars

\* What this model lets the kernel do is what TaskLedger lets it do, so what is
\* shown here holds over Kernel.tla, which implements TaskLedger: a task is
\* started or settled without running, and told once (scheduler.py:438-444).
THEOREM ReliesOnLedger == Spec => LedgerSpec
<1>1. Init => LedgerInit
  BY DEF Init
<1> QED
  BY <1>1, ShapeHolds, StepLedger, PTL DEF Spec, LedgerSpec
=============================================================================
