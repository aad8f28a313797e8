---------------------------- MODULE KernelProofs ----------------------------
(***************************************************************************)
(* Theorems about the kernel, for every value of its constants.            *)
(***************************************************************************)
EXTENDS KernelProps, FiniteSetTheorems, TLAPS

\* The counters never leave the naturals.
LEMMA AtLeast0Nat == ASSUME NEW n \in Int PROVE AtLeast0(n) \in Nat
  BY DEF AtLeast0

LEMMA SeqsFinite == IsFiniteSet(Seqs)
  BY BoundsAssumption, FS_Interval DEF Seqs

LEMMA CountNat == ASSUME NEW S, S \subseteq Seqs PROVE IsFiniteSet(S) /\ Cardinality(S) \in Nat
  BY SeqsFinite, FS_Subset, FS_CardinalityType

\* What discarding a set of unstarted records leaves well typed.
LEMMA DiscardTypes ==
  ASSUME TypeOK, NEW D, D \subseteq Seqs
  PROVE  /\ StateAfter(D) \in [Seqs -> States]
         /\ VisibleAfter(D) \in Nat
         /\ KeysAfter(D) \in [Keys -> {0} \cup Seqs]
         /\ UnmetAfter(D) \in [Seqs -> SUBSET Keys]
         /\ QueueAfter(D) \in Seq(SUBSET Seqs)
<1>1. StateAfter(D) \in [Seqs -> States]
  BY DEF TypeOK, StateAfter, States, UnstartedStates
<1>2. VisibleAfter(D) \in Nat
  <2> DEFINE S == {i \in D : Visible(i)}
             n == queuedVisible - Cardinality(S)
  <2>1. S \subseteq Seqs
    OBVIOUS
  <2>2. Cardinality(S) \in Nat
    BY <2>1, CountNat
  <2>3. n \in Int
    BY <2>2 DEF TypeOK
  <2>4. VisibleAfter(D) = AtLeast0(n)
    BY DEF VisibleAfter
  <2> HIDE DEF n
  <2> QED BY <2>3, <2>4, AtLeast0Nat
<1>3. KeysAfter(D) \in [Keys -> {0} \cup Seqs]
  BY DEF TypeOK, KeysAfter
<1>4. UnmetAfter(D) \in [Seqs -> SUBSET Keys]
  BY DEF TypeOK, UnmetAfter
<1>5. QueueAfter(D) \in Seq(SUBSET Seqs)
  BY DEF TypeOK, QueueAfter
<1> QED BY <1>1, <1>2, <1>3, <1>4, <1>5

LEMMA FateTypes ==
  ASSUME TypeOK, NEW D, NEW o \in Outcomes
  PROVE  FateAfter(D, o) \in [Seqs -> Outcomes \cup {NoOutcome}]
  BY DEF TypeOK, FateAfter

TypeInv == TypeOK /\ Admitted

\* No critical section but submit admits a task or takes one back.
LEMMA KeepsAdmitted ==
  ASSUME TypeInv, state' \in [Seqs -> States], UNCHANGED <<next, spec>>,
         \A i \in Seqs : state'[i] = "new" <=> state[i] = "new"
  PROVE  Admitted'
  BY DEF TypeInv, TypeOK, Admitted

LEMMA StateAfterKeeps ==
  ASSUME TypeOK, NEW D, D \subseteq Live
  PROVE  \A i \in Seqs : StateAfter(D)[i] = "new" <=> state[i] = "new"
  BY DEF TypeOK, StateAfter, Live, Unstarted, Running, In, UnstartedStates

\* The steps that discard a set of unstarted records.
LEMMA DiscardTypeInv ==
  ASSUME TypeInv, NEW D, D \subseteq Live, NEW o \in Outcomes, Discard(D, o),
         UNCHANGED <<next, spec>>
  PROVE  /\ state' \in [Seqs -> States]
         /\ queuedVisible' \in Nat
         /\ byKey' \in [Keys -> {0} \cup Seqs]
         /\ unmet' \in [Seqs -> SUBSET Keys]
         /\ queue' \in Seq(SUBSET Seqs)
         /\ fate' \in [Seqs -> Outcomes \cup {NoOutcome}]
         /\ Admitted'
<1>1. D \subseteq Seqs
  BY DEF Live, Unstarted, Running, In
<1>2. TypeOK
  BY DEF TypeInv
<1>3. state' \in [Seqs -> States]
  BY <1>1, <1>2, DiscardTypes DEF Discard
<1>4. Admitted'
  BY <1>2, <1>3, StateAfterKeeps, KeepsAdmitted DEF Discard
<1> QED BY <1>1, <1>2, <1>3, <1>4, DiscardTypes, FateTypes DEF Discard

LEMMA InitTypeInv == Init => TypeInv
<1> SUFFICES ASSUME Init PROVE TypeInv
  OBVIOUS
<1>1. next \in 1..(MaxSeq + 1) /\ epoch \in 0..MaxClears
  BY BoundsAssumption DEF Init
<1>2. state \in [Seqs -> States] /\ snap \in [Seqs -> [Scopes -> Nat]]
  BY DEF Init, States
<1>3. queue \in Seq(SUBSET Seqs)
  BY DEF Init
<1>4. TypeOK
  BY <1>1, <1>2, <1>3 DEF Init, TypeOK, Values
<1>5. Admitted
  BY DEF Init, Admitted, Seqs
<1> QED BY <1>4, <1>5 DEF TypeInv

LEMMA SubmitTypeInv == ASSUME TypeInv, NEW s \in Specs, Submit(s) PROVE TypeInv'
<1> DEFINE i == next
           drop == Droppable(Retargeted(s) \cup Previous(s))
           missing == {d \in s.deps : completed[d] = Absent}
<1>1. drop \subseteq Seqs
  BY DEF Droppable, Unstarted, In
<1>2. i \in Seqs /\ next' = next + 1
  BY DEF Submit, TypeInv, TypeOK, Seqs
<1>3. missing \in SUBSET Keys /\ s.rank \in Nat
  BY SpecsAssumption
<1>4. /\ StateAfter(drop) \in [Seqs -> States]
      /\ VisibleAfter(drop) \in Nat
      /\ KeysAfter(drop) \in [Keys -> {0} \cup Seqs]
      /\ UnmetAfter(drop) \in [Seqs -> SUBSET Keys]
      /\ QueueAfter(drop) \in Seq(SUBSET Seqs)
      /\ FateAfter(drop, "dropped") \in [Seqs -> Outcomes \cup {NoOutcome}]
  BY <1>1, DiscardTypes, FateTypes DEF TypeInv, Outcomes
<1>5. /\ state' \in [Seqs -> States]
      /\ queuedVisible' \in Nat
      /\ byKey' \in [Keys -> {0} \cup Seqs]
      /\ unmet' \in [Seqs -> SUBSET Keys]
      /\ queue' \in Seq(SUBSET Seqs)
      /\ fate' \in [Seqs -> Outcomes \cup {NoOutcome}]
  <2>1. state' \in [Seqs -> States]
    BY <1>2, <1>4 DEF Submit, States, UnstartedStates
  <2>2. queuedVisible' \in Nat
    BY <1>4 DEF Submit
  <2>3. byKey' \in [Keys -> {0} \cup Seqs]
    BY <1>2, <1>4 DEF Submit
  <2>4. unmet' \in [Seqs -> SUBSET Keys]
    BY <1>2, <1>3, <1>4 DEF Submit
  <2>5. queue' \in Seq(SUBSET Seqs) /\ fate' \in [Seqs -> Outcomes \cup {NoOutcome}]
    BY <1>4 DEF Submit
  <2> QED BY <2>1, <2>2, <2>3, <2>4, <2>5
<1>6. family' \in [Families -> Values]
  BY DEF Submit, TypeInv, TypeOK, Values
<1>7. snap' \in [Seqs -> [Scopes -> Nat]]
  BY DEF Submit, TypeInv, TypeOK
<1>8. token' \in [Seqs -> BOOLEAN] /\ superseded' \in [Seqs -> BOOLEAN]
  BY DEF Submit, CancelRunning, TypeInv, TypeOK
<1>9. TypeOK'
  <2>1. next' \in 1..(MaxSeq + 1) /\ spec' \in [Seqs -> Specs \cup {NoSpec}]
    BY <1>2, BoundsAssumption DEF Submit, TypeInv, TypeOK, Seqs
  <2>2. rank' \in [Seqs -> Nat]
    BY <1>2, <1>3 DEF Submit, TypeInv, TypeOK
  <2>3. UNCHANGED <<body, completed, scopeEpoch, epoch, laneQuota, runVisible, runOptional,
                    runLane, shutting, popping, told>>
    BY DEF Submit, scopeVars, runVars
  <2> QED BY <1>5, <1>6, <1>7, <1>8, <2>1, <2>2, <2>3 DEF TypeInv, TypeOK
<1>10. Admitted'
  <2>1. \A j \in Seqs \ {i} : (state'[j] # "new" <=> state[j] # "new") /\ spec'[j] = spec[j]
    BY <1>2, <1>1 DEF Submit, TypeInv, TypeOK, StateAfter, Droppable, Unstarted, In, UnstartedStates
  <2>2. state'[i] # "new" /\ spec'[i] = s
    BY <1>2, <1>4 DEF Submit, TypeInv, TypeOK
  <2> QED BY <1>2, <2>1, <2>2 DEF TypeInv, TypeOK, Admitted, Seqs
<1> QED BY <1>9, <1>10 DEF TypeInv
LEMMA CancelHandleTypeInv == ASSUME TypeInv, NEW i \in Seqs, CancelHandle(i) PROVE TypeInv'
<1>1. {i} \subseteq Live /\ "cancelled" \in Outcomes
  BY DEF CancelHandle, Outcomes
<1>2. token' \in [Seqs -> BOOLEAN]
  BY DEF CancelHandle, TypeInv, TypeOK
<1>3. UNCHANGED <<next, spec, rank, body, superseded, snap, completed, family, scopeEpoch, epoch,
                  laneQuota, runVisible, runOptional, runLane, shutting, popping, told>>
  BY DEF CancelHandle, scopeVars, runVars
<1>4. CASE i \in Unstarted
  <2>1. Discard({i}, "cancelled")
    BY <1>4 DEF CancelHandle
  <2> QED BY <1>1, <1>2, <1>3, <2>1, DiscardTypeInv DEF TypeInv, TypeOK
<1>5. CASE i \notin Unstarted
  <2>1. UNCHANGED <<state, queuedVisible, byKey, unmet, fate, queue>>
    BY <1>5 DEF CancelHandle
  <2> QED BY <1>2, <1>3, <2>1 DEF TypeInv, TypeOK, Admitted
<1> QED BY <1>4, <1>5

LEMMA ClearScopeTypeInv == ASSUME TypeInv, NEW c \in Clearable, ClearScope(c) PROVE TypeInv'
<1> DEFINE D == Droppable({i \in Live : c \in Ancestors[spec[i].scope] \/ Stale(i)})
<1>1. D \subseteq Live /\ "dropped" \in Outcomes
  BY DEF Droppable, Live, Outcomes
<1>2. Discard(D, "dropped")
  BY DEF ClearScope
<1>3. UNCHANGED <<next, spec, rank, body, superseded, snap, family, laneQuota, runVisible,
                  runOptional, runLane, shutting, popping, told>>
  BY DEF ClearScope, runVars
<1>4. epoch' \in 0..MaxClears /\ scopeEpoch' \in [Scopes -> Nat]
  BY BoundsAssumption, SetsAssumption DEF ClearScope, TypeInv, TypeOK
<1>5. token' \in [Seqs -> BOOLEAN]
  BY DEF ClearScope, CancelRunning, TypeInv, TypeOK
<1>6. completed' \in [Keys -> Scopes \cup {Absent, Unscoped}]
  BY DEF ClearScope, Purged, TypeInv, TypeOK
<1> HIDE DEF D
<1> QED BY <1>1, <1>2, <1>3, <1>4, <1>5, <1>6, DiscardTypeInv DEF TypeInv, TypeOK

LEMMA ShutdownTypeInv == ASSUME TypeInv, Shutdown PROVE TypeInv'
<1>1. Unstarted \subseteq Seqs /\ "cancelled" \in Outcomes
  BY DEF Unstarted, In, Outcomes
<1>2. state' \in [Seqs -> States] /\ token' \in [Seqs -> BOOLEAN]
  BY DEF Shutdown, TypeInv, TypeOK, States
<1>3. UNCHANGED <<next, spec, rank, body, superseded, snap, completed, family, scopeEpoch, epoch,
                  laneQuota, runVisible, runOptional, runLane, popping, told>>
  BY DEF Shutdown, scopeVars, runVars
<1>4. Admitted'
  <2>1. \A i \in Seqs : state'[i] = "new" <=> state[i] = "new"
    BY DEF Shutdown, Unstarted, In, UnstartedStates
  <2> QED BY <1>2, <1>3, <2>1, KeepsAdmitted
<1>5. /\ queuedVisible' \in Nat
      /\ byKey' \in [Keys -> {0} \cup Seqs]
      /\ unmet' \in [Seqs -> SUBSET Keys]
      /\ queue' \in Seq(SUBSET Seqs)
      /\ fate' \in [Seqs -> Outcomes \cup {NoOutcome}]
  BY <1>1, DiscardTypes, FateTypes DEF Shutdown, TypeInv
<1>6. shutting' \in BOOLEAN
  BY DEF Shutdown
<1> QED BY <1>2, <1>3, <1>4, <1>5, <1>6 DEF TypeInv, TypeOK

\* Rerank, SetLaneQuota and InlineWork touch one variable each, and SetLaneQuota
\* the parked records.
LEMMA ReleasedTypes ==
  ASSUME NEW st \in [Seqs -> States]
  PROVE  /\ Released(st) \in [Seqs -> States]
         /\ \A i \in Seqs : Released(st)[i] = "new" <=> st[i] = "new"
  BY DEF Released, States, UnstartedStates

LEMMA RerankTypeInv ==
  ASSUME TypeInv, NEW T \in SUBSET Tiles, NEW ranks \in [T -> Ranks], Rerank(ranks)
  PROVE  TypeInv'
<1>1. rank' \in [Seqs -> Nat]
  BY SetsAssumption DEF Rerank, TypeInv, TypeOK
<1> QED BY <1>1 DEF Rerank, TypeInv, TypeOK, Admitted, keyVars, scopeVars, runVars, deliveryVars

LEMMA SetLaneQuotaTypeInv ==
  ASSUME TypeInv, NEW q \in Quotas, SetLaneQuota(q[1], q[2]) PROVE TypeInv'
<1>1. q[2] \in Nat \cup {NoQuota}
  BY SetsAssumption
<1>2. laneQuota' \in [Lanes -> Nat \cup {NoQuota}]
  BY <1>1 DEF SetLaneQuota, TypeInv, TypeOK
<1>3. /\ state' \in [Seqs -> States]
      /\ \A i \in Seqs : state'[i] = "new" <=> state[i] = "new"
  BY ReleasedTypes DEF SetLaneQuota, TypeInv, TypeOK
<1>4. UNCHANGED <<next, spec>>
  BY DEF SetLaneQuota, recordVars
<1>5. Admitted'
  BY <1>3, <1>4, KeepsAdmitted
<1> QED BY <1>2, <1>3, <1>5
        DEF SetLaneQuota, TypeInv, TypeOK, recordVars, keyVars, scopeVars, runVars, deliveryVars

LEMMA InlineWorkTypeInv == ASSUME TypeInv, NEW k \in InlineKeys, InlineWork(k) PROVE TypeInv'
<1>1. completed' \in [Keys -> Scopes \cup {Absent, Unscoped}]
  BY DEF InlineWork, TypeInv, TypeOK
<1> QED BY <1>1 DEF InlineWork, TypeInv, TypeOK, Admitted, recordVars, scopeVars, runVars, deliveryVars

LEMMA PopTypeInv == ASSUME TypeInv, Pop PROVE TypeInv'
<1>1. PICK i \in Seqs : PopDiscard(i) \/ PopPark(i) \/ PopTake(i)
  BY DEF Pop
<1>2. CASE PopDiscard(i)
  <2>1. {i} \subseteq Live
    BY <1>2 DEF PopDiscard, IsHead, Queued, Live, Unstarted, In, UnstartedStates
  <2>2. PICK o \in Outcomes : Discard({i}, o)
    BY <1>2 DEF PopDiscard, Outcomes
  <2>3. popping' \in BOOLEAN
    BY <1>2 DEF PopDiscard, LoopOn
  <2>4. UNCHANGED <<next, spec, rank, body, token, superseded, snap, completed, family, scopeEpoch,
                    epoch, laneQuota, runVisible, runOptional, runLane, shutting, told>>
    BY <1>2 DEF PopDiscard, scopeVars, runVars
  <2> QED BY <2>1, <2>2, <2>3, <2>4, DiscardTypeInv DEF TypeInv, TypeOK
<1>3. CASE PopPark(i)
  <2>1. /\ state' \in [Seqs -> States]
        /\ \A j \in Seqs : state'[j] = "new" <=> state[j] = "new"
    BY <1>3 DEF PopPark, IsHead, Queued, In, TypeInv, TypeOK, States, UnstartedStates
  <2>2. popping' \in BOOLEAN
    BY <1>3 DEF PopPark, LoopOn
  <2>3. UNCHANGED <<next, recordVars, keyVars, scopeVars, laneQuota, queuedVisible, runVars,
                   shutting, deliveryVars>>
    BY <1>3 DEF PopPark
  <2>4. Admitted'
    BY <2>1, <2>3, KeepsAdmitted DEF recordVars
  <2> QED BY <2>1, <2>2, <2>3, <2>4
          DEF TypeInv, TypeOK, recordVars, keyVars, scopeVars, runVars, deliveryVars
<1>4. CASE PopTake(i)
  <2>1. /\ state' \in [Seqs -> States]
        /\ \A j \in Seqs : state'[j] = "new" <=> state[j] = "new"
    BY <1>4 DEF PopTake, IsHead, Queued, In, TypeInv, TypeOK, States, UnstartedStates
  <2>2. queuedVisible' \in Nat /\ runVisible' \in Nat /\ runOptional' \in Nat
    BY <1>4 DEF PopTake, TypeInv, TypeOK, AtLeast0
  <2>3. runLane' \in [Lanes -> Nat] /\ popping' \in BOOLEAN
    <3>1. spec[i].lane \in Lanes
      BY <1>4, SpecsAssumption DEF PopTake, IsHead, Queued, In, TypeInv, Admitted
    <3>2. runLane' = [runLane EXCEPT ![spec[i].lane] = runLane[spec[i].lane] + 1]
      BY <1>4 DEF PopTake
    <3>3. runLane \in [Lanes -> Nat]
      BY DEF TypeInv, TypeOK
    <3>4. runLane' \in [Lanes -> Nat]
      BY <3>1, <3>2, <3>3
    <3>5. popping' \in BOOLEAN
      BY <1>4 DEF PopTake
    <3> QED BY <3>4, <3>5
  <2>4. UNCHANGED <<next, recordVars, keyVars, scopeVars, laneQuota, shutting, deliveryVars>>
    BY <1>4 DEF PopTake
  <2>5. Admitted'
    BY <2>1, <2>4, KeepsAdmitted DEF recordVars
  <2> QED BY <2>1, <2>2, <2>3, <2>4, <2>5
          DEF TypeInv, TypeOK, recordVars, keyVars, scopeVars, deliveryVars
<1> QED BY <1>1, <1>2, <1>3, <1>4

LEMMA ExecuteTypeInv == ASSUME TypeInv, NEW i \in Seqs, Execute(i) PROVE TypeInv'
<1>1. body' \in [Seqs -> {"idle", "begun", "refused"}]
  BY DEF Execute, TypeInv, TypeOK
<1> QED BY <1>1 DEF Execute, TypeInv, TypeOK, Admitted, keyVars, scopeVars, runVars, deliveryVars

LEMMA FinishTypeInv ==
  ASSUME TypeInv, NEW i \in Seqs, NEW report \in Outcomes, Finish(i, report) PROVE TypeInv'
<1> DEFINE o == IF report = "completed" /\ Stale(i) THEN "stale" ELSE report
           lost == IF o = "completed" THEN {} ELSE Dependents(spec[i].key)
<1>1. /\ lost \subseteq Seqs /\ lost \cup {i} \subseteq Seqs
      /\ \A j \in lost \cup {i} : state[j] # "new"
  BY DEF Dependents, ParkedDeps, In, Finish, Running
<1>2. o \in Outcomes /\ "dropped" \in Outcomes
  BY DEF Outcomes
<1>3. spec[i] \in Specs
  BY DEF Finish, Running, In, TypeInv, Admitted
<1>4. UNCHANGED <<next, spec, rank, token, superseded, snap, family, scopeEpoch, epoch, laneQuota,
                  shutting, popping, told>>
  BY DEF Finish, scopeVars
<1>5. /\ state' \in [Seqs -> States]
      /\ \A j \in Seqs : state'[j] = "new" <=> state[j] = "new"
  <2> DEFINE met == [j \in Seqs |-> IF state[j] = "parked_deps" THEN unmet[j] \ {spec[i].key}
                                                               ELSE unmet[j]]
             promoted == IF o = "completed" THEN Promoted(spec[i].key, met) ELSE {}
             st == [j \in Seqs |-> IF j = i \/ j \in lost THEN "done"
                                   ELSE IF j \in promoted THEN "queued" ELSE state[j]]
  <2>1. state' = Released(st)
    BY DEF Finish
  <2>2. \A j \in promoted : state[j] = "parked_deps"
    BY DEF Promoted, ParkedDeps, In
  <2>3. st \in [Seqs -> States] /\ \A j \in Seqs : st[j] = "new" <=> state[j] = "new"
    BY <1>1, <2>2 DEF TypeInv, TypeOK, States, UnstartedStates
  <2> HIDE DEF st
  <2> QED BY <2>1, <2>3, ReleasedTypes
<1>6. Admitted'
  BY <1>4, <1>5, KeepsAdmitted
<1>7. runVisible' \in Nat /\ runOptional' \in Nat /\ runLane' \in [Lanes -> Nat]
  <2>1. runVisible' \in Nat /\ runOptional' \in Nat
    BY DEF Finish, TypeInv, TypeOK, AtLeast0
  <2>2. spec[i].lane \in Lanes
    BY <1>3, SpecsAssumption
  <2>3. runLane' = [runLane EXCEPT ![spec[i].lane] = AtLeast0(@ - 1)]
    BY DEF Finish
  <2>4. runLane \in [Lanes -> Nat]
    BY DEF TypeInv, TypeOK
  <2> QED BY <2>1, <2>2, <2>3, <2>4 DEF AtLeast0
<1>8. completed' \in [Keys -> Scopes \cup {Absent, Unscoped}]
  BY <1>3, SpecsAssumption DEF Finish, TypeInv, TypeOK
<1>9. unmet' \in [Seqs -> SUBSET Keys] /\ body' \in [Seqs -> {"idle", "begun", "refused"}]
  BY DEF Finish, TypeInv, TypeOK
<1>10. queuedVisible' \in Nat /\ byKey' \in [Keys -> {0} \cup Seqs]
  BY <1>1, DiscardTypes DEF Finish, TypeInv
<1>11. fate' \in [Seqs -> Outcomes \cup {NoOutcome}]
  <2>1. FateAfter(lost, "dropped") \in [Seqs -> Outcomes \cup {NoOutcome}]
    BY <1>2, FateTypes DEF TypeInv
  <2> QED BY <1>2, <2>1 DEF Finish
<1>12. queue' \in Seq(SUBSET Seqs)
  <2>1. QueueAfter(lost) \in Seq(SUBSET Seqs)
    BY <1>1, DiscardTypes DEF TypeInv
  <2>2. queue' = Append(QueueAfter(lost), {i})
    BY DEF Finish
  <2> QED BY <2>1, <2>2
<1> HIDE DEF lost, o
<1> QED BY <1>4, <1>5, <1>6, <1>7, <1>8, <1>9, <1>10, <1>11, <1>12 DEF TypeInv, TypeOK

LEMMA DispatchTypeInv == ASSUME TypeInv, NEW i \in Seqs, Dispatch(i) PROVE TypeInv'
<1>1. completed' \in [Keys -> Scopes \cup {Absent, Unscoped}]
  BY DEF Dispatch, TypeInv, TypeOK
<1>2. told' \in [Seqs -> Outcomes \cup {NoOutcome, "stale_reused"}]
  BY DEF Dispatch, TypeInv, TypeOK, Outcomes
<1>3. queue' \in Seq(SUBSET Seqs)
  <2>1. queue \in Seq(SUBSET Seqs) /\ queue # <<>>
    BY DEF Dispatch, TypeInv, TypeOK
  <2>2. Tail(queue) \in Seq(SUBSET Seqs)
    BY <2>1
  <2>3. [queue EXCEPT ![1] = @ \ {i}] \in Seq(SUBSET Seqs)
    BY <2>1
  <2> QED BY <2>2, <2>3 DEF Dispatch
<1> QED BY <1>1, <1>2, <1>3 DEF Dispatch, TypeInv, TypeOK, Admitted, recordVars, scopeVars, runVars

LEMMA NextTypeInv == TypeInv /\ [Next]_vars => TypeInv'
<1> SUFFICES ASSUME TypeInv, [Next]_vars PROVE TypeInv'
  OBVIOUS
<1>1. CASE UNCHANGED vars
  BY <1>1 DEF vars, TypeInv, TypeOK, Admitted
<1>2. CASE Next
  BY <1>2, SubmitTypeInv, CancelHandleTypeInv, ClearScopeTypeInv, RerankTypeInv,
     SetLaneQuotaTypeInv, InlineWorkTypeInv, ShutdownTypeInv, PopTypeInv, ExecuteTypeInv,
     FinishTypeInv, DispatchTypeInv DEF Next
<1> QED BY <1>1, <1>2

LEMMA AlwaysTypeInv == Spec => []TypeInv
  BY InitTypeInv, NextTypeInv, PTL DEF Spec

\* Every variable of the kernel keeps its type: the queue holds tasks, the
\* counters of admission are naturals, the indexes name tasks.
THEOREM TypeCorrect == Spec => []TypeOK
  BY AlwaysTypeInv, PTL DEF TypeInv

-----------------------------------------------------------------------------
(* Parked records.  The invariant is inductive: admission counters only fall *)
(* in steps that release every quota-parked record, or leave a backlog.      *)

\* Discarding a set of records: a record that stays quota-parked stays
\* blocked, because the wake edge did not fire.
LEMMA DiscardKeepsBlocked ==
  ASSUME TypeInv, ParkedForAReason, NEW D, D \subseteq Seqs,
         NEW j \in Seqs, StateAfter(D)[j] = "parked_quota"
  PROVE  /\ Blocked(j)
         /\ queuedVisible + runVisible > 0 => VisibleAfter(D) + runVisible > 0
<1>1. state[j] = "parked_quota" /\ j \notin D /\ ~WakeEdge(D)
  BY DEF StateAfter, TypeInv, TypeOK
<1>2. CASE \E i \in D : Visible(i)
  <2>1. VisibleAfter(D) + runVisible # 0 /\ VisibleAfter(D) \in Nat /\ runVisible \in Nat
    BY <1>1, <1>2, DiscardTypes DEF WakeEdge, TypeInv, TypeOK
  <2>2. VisibleAfter(D) + runVisible > 0
    BY <2>1
  <2> QED BY <1>1, <2>2 DEF ParkedForAReason
<1>3. CASE ~\E i \in D : Visible(i)
  <2>1. {i \in D : Visible(i)} = {}
    BY <1>3
  <2>2. VisibleAfter(D) = AtLeast0(queuedVisible - 0)
    BY <2>1, FS_EmptySet DEF VisibleAfter
  <2>3. VisibleAfter(D) = queuedVisible
    BY <2>2 DEF AtLeast0, TypeInv, TypeOK
  <2> QED BY <1>1, <2>3 DEF ParkedForAReason
<1> QED BY <1>2, <1>3

\* What blocks a record after a step that only raises the counters.
LEMMA StaysBlocked ==
  ASSUME TypeInv, NEW j \in Seqs, Blocked(j), spec'[j] = spec[j], laneQuota' = laneQuota,
         runLane' = runLane, runOptional' = runOptional,
         queuedVisible + runVisible > 0 => queuedVisible' + runVisible' > 0
  PROVE  Blocked(j)'
<1>1. LaneBlocked(j) => LaneBlocked(j)'
  BY DEF LaneBlocked
<1>2. OptionalBlocked(j) => OptionalBlocked(j)'
  BY DEF OptionalBlocked, Visible
<1> QED BY <1>1, <1>2 DEF Blocked

LEMMA DiscardParked ==
  ASSUME TypeInv, ParkedForAReason, NEW D, D \subseteq Unstarted, NEW o, Discard(D, o),
         UNCHANGED <<spec, laneQuota, runLane, runOptional, runVisible>>
  PROVE  ParkedForAReason'
<1>1. D \subseteq Seqs
  BY DEF Unstarted, In
<1>2. ASSUME NEW j \in Seqs, state'[j] = "parked_quota" PROVE Blocked(j)'
  <2>1. StateAfter(D)[j] = "parked_quota" /\ queuedVisible' = VisibleAfter(D)
    BY <1>2 DEF Discard
  <2> QED BY <1>1, <2>1, DiscardKeepsBlocked, StaysBlocked
<1>3. \A j \in Seqs : state'[j] = "parked_deps" <=> unmet'[j] # {}
  BY <1>1 DEF Discard, StateAfter, UnmetAfter, ParkedForAReason, TypeInv, TypeOK
<1> QED BY <1>2, <1>3 DEF ParkedForAReason

LEMMA SubmitParked ==
  ASSUME TypeInv, ParkedForAReason, NEW s \in Specs, Submit(s) PROVE ParkedForAReason'
<1> DEFINE drop == Droppable(Retargeted(s) \cup Previous(s))
           missing == {d \in s.deps : completed[d] = Absent}
<1>1. drop \subseteq Seqs /\ next \in Seqs
  BY DEF Droppable, Unstarted, In, Submit, TypeInv, TypeOK, Seqs
<1>2. /\ state' = [StateAfter(drop) EXCEPT ![next] = IF missing = {} THEN "queued" ELSE "parked_deps"]
      /\ unmet' = [UnmetAfter(drop) EXCEPT ![next] = missing]
  BY DEF Submit
<1>3. StateAfter(drop) \in [Seqs -> States] /\ UnmetAfter(drop) \in [Seqs -> SUBSET Keys]
  BY <1>1, DiscardTypes DEF TypeInv
<1>4. ASSUME NEW j \in Seqs, state'[j] = "parked_quota" PROVE Blocked(j)'
  <2>1. j # next /\ StateAfter(drop)[j] = "parked_quota"
    BY <1>1, <1>2, <1>3, <1>4
  <2>2. VisibleAfter(drop) \in Nat /\ runVisible \in Nat
    BY <1>1, DiscardTypes DEF TypeInv, TypeOK
  <2>3. Blocked(j) /\ (queuedVisible + runVisible > 0 => queuedVisible' + runVisible' > 0)
    <3>1. Blocked(j) /\ (queuedVisible + runVisible > 0 => VisibleAfter(drop) + runVisible > 0)
      BY <1>1, <2>1, DiscardKeepsBlocked
    <3>2. /\ queuedVisible' = VisibleAfter(drop) + (IF s.lane \in VisibleLanes THEN 1 ELSE 0)
          /\ runVisible' = runVisible
      BY DEF Submit, runVars
    <3> HIDE DEF drop
    <3> QED BY <2>2, <3>1, <3>2
  <2>4. spec'[j] = spec[j] /\ UNCHANGED <<laneQuota, runLane, runOptional>>
    BY <2>1 DEF Submit, runVars, TypeInv, TypeOK
  <2> QED BY <2>3, <2>4, StaysBlocked
<1>5. \A j \in Seqs : state'[j] = "parked_deps" <=> unmet'[j] # {}
  BY <1>1, <1>2, <1>3 DEF StateAfter, UnmetAfter, ParkedForAReason, TypeInv, TypeOK
<1> QED BY <1>4, <1>5 DEF ParkedForAReason

\* Steps that release every quota-parked record.
LEMMA NoneParked ==
  ASSUME NEW st \in [Seqs -> States]
  PROVE  /\ \A j \in Seqs : Released(st)[j] # "parked_quota"
         /\ \A j \in Seqs : Released(st)[j] = "parked_deps" <=> st[j] = "parked_deps"
  BY DEF Released

LEMMA FinishParked ==
  ASSUME TypeInv, ParkedForAReason, NEW i \in Seqs, NEW report \in Outcomes, Finish(i, report)
  PROVE  ParkedForAReason'
<1> DEFINE o == IF report = "completed" /\ Stale(i) THEN "stale" ELSE report
           k == spec[i].key
           lost == IF o = "completed" THEN {} ELSE Dependents(k)
           met == [j \in Seqs |-> IF state[j] = "parked_deps" THEN unmet[j] \ {k} ELSE unmet[j]]
           promoted == IF o = "completed" THEN Promoted(k, met) ELSE {}
           st == [j \in Seqs |-> IF j = i \/ j \in lost THEN "done"
                                 ELSE IF j \in promoted THEN "queued" ELSE state[j]]
<1>1. /\ state' = Released(st)
      /\ unmet' = [j \in Seqs |-> IF j = i \/ j \in lost THEN {}
                                  ELSE IF o = "completed" THEN met[j] ELSE unmet[j]]
  BY DEF Finish
<1>2. st \in [Seqs -> States]
  BY DEF TypeInv, TypeOK, States, UnstartedStates
<1>3. \A j \in promoted : met[j] = {} /\ o = "completed"
  BY DEF Promoted
<1>4. ASSUME NEW j \in Seqs PROVE st[j] = "parked_deps" <=> unmet'[j] # {}
  <2>1. state[j] = "parked_deps" <=> unmet[j] # {}
    BY DEF ParkedForAReason
  <2>2. CASE j = i \/ j \in lost
    BY <1>1, <2>2
  <2>3. CASE j # i /\ j \notin lost /\ j \in promoted
    BY <1>1, <1>3, <2>3
  <2>4. CASE j # i /\ j \notin lost /\ j \notin promoted /\ o = "completed"
    <3>1. st[j] = state[j] /\ unmet'[j] = met[j]
      BY <1>1, <2>4
    <3>2. CASE state[j] = "parked_deps"
      <4>1. met[j] # {}
        <5>1. k \notin unmet[j] => met[j] = unmet[j]
          BY <3>2
        <5>2. k \in unmet[j] => met[j] # {}
          BY <2>4, <3>2 DEF Promoted, ParkedDeps, In
        <5> QED BY <2>1, <3>2, <5>1, <5>2
      <4> QED BY <3>1, <3>2, <4>1
    <3>3. CASE state[j] # "parked_deps"
      BY <2>1, <3>1, <3>3
    <3> QED BY <3>2, <3>3
  <2>5. CASE j # i /\ j \notin lost /\ j \notin promoted /\ o # "completed"
    BY <1>1, <2>1, <2>5
  <2> QED BY <2>2, <2>3, <2>4, <2>5
<1> HIDE DEF st
<1> QED BY <1>1, <1>2, <1>4, NoneParked DEF ParkedForAReason

LEMMA PopParked == ASSUME TypeInv, ParkedForAReason, Pop PROVE ParkedForAReason'
<1>1. PICK i \in Seqs : PopDiscard(i) \/ PopPark(i) \/ PopTake(i)
  BY DEF Pop
<1>2. CASE PopDiscard(i)
  <2>1. {i} \subseteq Unstarted
    BY <1>2 DEF PopDiscard, IsHead, Queued, Unstarted, In, UnstartedStates
  <2>2. PICK o \in Outcomes : Discard({i}, o)
    BY <1>2 DEF PopDiscard, Outcomes
  <2>3. UNCHANGED <<spec, laneQuota, runLane, runOptional, runVisible>>
    BY <1>2 DEF PopDiscard, runVars
  <2> QED BY <2>1, <2>2, <2>3, DiscardParked
<1>3. CASE PopPark(i)
  <2>1. state' = [state EXCEPT ![i] = "parked_quota"] /\ state[i] = "queued" /\ Blocked(i)
    BY <1>3 DEF PopPark, IsHead, Queued, In
  <2>2. UNCHANGED <<spec, unmet, laneQuota, queuedVisible, runLane, runOptional, runVisible>>
    BY <1>3 DEF PopPark, recordVars, runVars
  <2>3. \A j \in Seqs : Blocked(j)' <=> Blocked(j)
    BY <2>2 DEF Blocked, LaneBlocked, OptionalBlocked, Visible
  <2> QED BY <2>1, <2>2, <2>3 DEF ParkedForAReason, TypeInv, TypeOK
<1>4. CASE PopTake(i)
  <2>1. state' = [state EXCEPT ![i] = "running"] /\ state[i] = "queued" /\ spec[i] \in Specs
    BY <1>4 DEF PopTake, IsHead, Queued, In, TypeInv, Admitted
  <2>2. UNCHANGED <<spec, unmet, laneQuota>>
    BY <1>4 DEF PopTake, recordVars
  <2>3. \A l \in Lanes : runLane'[l] >= runLane[l]
    <3>1. runLane' = [runLane EXCEPT ![spec[i].lane] = runLane[spec[i].lane] + 1]
      BY <1>4 DEF PopTake
    <3>2. runLane \in [Lanes -> Nat] /\ spec[i].lane \in Lanes
      BY <2>1, SpecsAssumption DEF TypeInv, TypeOK
    <3> QED BY <3>1, <3>2
  <2>4. /\ runOptional' >= runOptional
        /\ queuedVisible + runVisible > 0 => queuedVisible' + runVisible' > 0
    BY <1>4 DEF PopTake, AtLeast0, TypeInv, TypeOK
  <2>5. ASSUME NEW j \in Seqs, state[j] = "parked_quota" PROVE Blocked(j)'
    <3>1. Blocked(j) /\ spec[j] \in Specs
      BY <2>5 DEF ParkedForAReason, TypeInv, Admitted
    <3>2. LaneBlocked(j) => LaneBlocked(j)'
      <4>1. spec[j].lane \in Lanes
        BY <3>1, SpecsAssumption
      <4> DEFINE l == spec[j].lane
      <4>2. ASSUME laneQuota[l] # NoQuota, runLane[l] >= laneQuota[l] PROVE runLane'[l] >= laneQuota[l]
        <5>1. laneQuota[l] \in Nat /\ runLane[l] \in Nat /\ runLane'[l] \in Nat
          BY <4>1, <4>2, <1>4, PopTypeInv DEF TypeInv, TypeOK, Pop
        <5> QED BY <2>3, <4>1, <4>2, <5>1
      <4> QED BY <2>2, <4>2 DEF LaneBlocked
    <3>3. OptionalBlocked(j) => OptionalBlocked(j)'
      <4>1. runOptional \in Nat /\ runOptional' \in Nat /\ OptQuota \in Nat
        BY <1>4, PopTypeInv, BoundsAssumption DEF TypeInv, TypeOK, Pop
      <4> QED BY <2>2, <2>4, <4>1 DEF OptionalBlocked, Visible
    <3> QED BY <3>1, <3>2, <3>3 DEF Blocked
  <2> QED BY <2>1, <2>2, <2>5 DEF ParkedForAReason, TypeInv, TypeOK
<1> QED BY <1>1, <1>2, <1>3, <1>4

LEMMA NextParked == TypeInv /\ ParkedForAReason /\ [Next]_vars => ParkedForAReason'
<1> SUFFICES ASSUME TypeInv, ParkedForAReason, [Next]_vars PROVE ParkedForAReason'
  OBVIOUS
<1>1. ASSUME UNCHANGED <<spec, state, unmet, laneQuota, queuedVisible, runLane, runOptional, runVisible>>
      PROVE ParkedForAReason'
  <2>1. \A j \in Seqs : Blocked(j)' <=> Blocked(j)
    BY <1>1 DEF Blocked, LaneBlocked, OptionalBlocked, Visible
  <2> QED BY <1>1, <2>1 DEF ParkedForAReason
<1>2. ASSUME NEW i \in Seqs, CancelHandle(i) PROVE ParkedForAReason'
  <2>1. CASE i \in Unstarted
    BY <1>2, <2>1, DiscardParked DEF CancelHandle, runVars
  <2>2. CASE i \notin Unstarted
    BY <1>1, <1>2, <2>2 DEF CancelHandle, runVars
  <2> QED BY <2>1, <2>2
<1>3. ASSUME NEW c \in Clearable, ClearScope(c) PROVE ParkedForAReason'
  <2>1. PICK D \in SUBSET Unstarted : Discard(D, "dropped")
    BY <1>3 DEF ClearScope, Droppable
  <2> QED BY <1>3, <2>1, DiscardParked DEF ClearScope, runVars
<1>4. ASSUME NEW T \in SUBSET Tiles, NEW ranks \in [T -> Ranks], Rerank(ranks)
      PROVE ParkedForAReason'
  BY <1>1, <1>4 DEF Rerank, runVars
<1>5. ASSUME NEW q \in Quotas, SetLaneQuota(q[1], q[2]) PROVE ParkedForAReason'
  <2>1. state' = Released(state) /\ unmet' = unmet /\ state \in [Seqs -> States]
    BY <1>5 DEF SetLaneQuota, recordVars, TypeInv, TypeOK
  <2> QED BY <2>1, NoneParked DEF ParkedForAReason
<1>6. ASSUME NEW k \in InlineKeys, InlineWork(k) PROVE ParkedForAReason'
  BY <1>1, <1>6 DEF InlineWork, recordVars, runVars
<1>7. ASSUME Shutdown PROVE ParkedForAReason'
  <2>1. /\ state' = [j \in Seqs |-> IF j \in Unstarted THEN "done" ELSE state[j]]
        /\ unmet' = [j \in Seqs |-> IF j \in Unstarted THEN {} ELSE unmet[j]]
    BY <1>7 DEF Shutdown, UnmetAfter
  <2>2. \A j \in Seqs : /\ state'[j] # "parked_quota" /\ state'[j] # "parked_deps"
                        /\ unmet'[j] = {}
    BY <2>1 DEF Unstarted, In, UnstartedStates, ParkedForAReason
  <2> QED BY <2>2 DEF ParkedForAReason
<1>8. ASSUME NEW i \in Seqs, Execute(i) PROVE ParkedForAReason'
  BY <1>1, <1>8 DEF Execute, runVars
<1>9. ASSUME NEW i \in Seqs, Dispatch(i) PROVE ParkedForAReason'
  BY <1>1, <1>9 DEF Dispatch, recordVars, runVars
<1>10. CASE UNCHANGED vars
  BY <1>1, <1>10 DEF vars
<1>11. CASE Next
  BY <1>2, <1>3, <1>4, <1>5, <1>6, <1>7, <1>8, <1>9, <1>11, SubmitParked, PopParked, FinishParked
  DEF Next
<1> QED BY <1>10, <1>11

\* No lost wakeup: whatever callers, workers and the quota governor do, a
\* quota-parked record is parked for a reason that still holds, and a
\* dependency-parked one has an unmet dependency.
THEOREM NoLostWakeup == Spec => []ParkedForAReason
<1>1. Init => ParkedForAReason
  BY DEF Init, ParkedForAReason
<1> QED BY <1>1, AlwaysTypeInv, NextParked, PTL DEF Spec

-----------------------------------------------------------------------------
(* One terminal completion per admitted task. *)

\* OneTerminalCompletion of any record states, queue, fates and told outcomes.
OneTerminal(st, q, f, t) ==
    /\ \A i \in Seqs :
        /\ st[i] = "done" <=> f[i] # NoOutcome
        /\ (\E n \in 1..Len(q) : i \in q[n]) <=> (f[i] # NoOutcome /\ t[i] = NoOutcome)
        /\ t[i] # NoOutcome => f[i] # NoOutcome
    /\ \A n, m \in 1..Len(q) : n # m => q[n] \cap q[m] = {}
    /\ \A n \in 1..Len(q) : q[n] # {}

LEMMA OneTerminalIs == OneTerminalCompletion <=> OneTerminal(state, queue, fate, told)
  BY DEF OneTerminalCompletion, OneTerminal, Pending

\* Delivering a batch of tasks that were still owed their completion.
LEMMA Deliver ==
  ASSUME NEW q \in Seq(SUBSET Seqs), NEW st, NEW f, NEW t, OneTerminal(st, q, f, t),
         NEW D \in SUBSET Seqs, D # {}, \A i \in D : st[i] # "done",
         NEW st2, NEW f2,
         \A i \in Seqs : st2[i] = "done" <=> st[i] = "done" \/ i \in D,
         \A i \in Seqs : f2[i] # NoOutcome <=> f[i] # NoOutcome \/ i \in D
  PROVE  OneTerminal(st2, Append(q, D), f2, t)
<1> DEFINE q2 == Append(q, D)
<1>1. /\ Len(q) \in Nat /\ Len(q2) = Len(q) + 1
      /\ \A n \in 1..Len(q) : q2[n] = q[n]
      /\ q2[Len(q2)] = D
  OBVIOUS
<1>2. \A i \in Seqs : (\E n \in 1..Len(q2) : i \in q2[n])
                         <=> i \in D \/ \E n \in 1..Len(q) : i \in q[n]
  BY <1>1
<1>3. \A i \in D : f[i] = NoOutcome /\ t[i] = NoOutcome /\ \A n \in 1..Len(q) : i \notin q[n]
  BY DEF OneTerminal
<1>4. \A n, m \in 1..Len(q2) : n # m => q2[n] \cap q2[m] = {}
  <2> SUFFICES ASSUME NEW n \in 1..Len(q2), NEW m \in 1..Len(q2), n # m,
                      NEW i \in q2[n], i \in q2[m]
               PROVE  FALSE
    OBVIOUS
  <2>1. CASE n \in 1..Len(q) /\ m \in 1..Len(q)
    BY <1>1, <2>1 DEF OneTerminal
  <2>2. CASE n = Len(q2) \/ m = Len(q2)
    BY <1>1, <1>3, <2>2
  <2> QED BY <1>1, <2>1, <2>2
<1>5. \A n \in 1..Len(q2) : q2[n] # {}
  BY <1>1 DEF OneTerminal
<1> HIDE DEF q2
<1>6. \A i \in Seqs : /\ st2[i] = "done" <=> f2[i] # NoOutcome
                      /\ (\E n \in 1..Len(q2) : i \in q2[n])
                            <=> (f2[i] # NoOutcome /\ t[i] = NoOutcome)
                      /\ t[i] # NoOutcome => f2[i] # NoOutcome
  BY <1>2, <1>3 DEF OneTerminal
<1> QED BY <1>4, <1>5, <1>6 DEF OneTerminal, q2

\* Discarding a possibly empty set of unstarted records; st and f may differ
\* from what discarding gives, but not in which records are done.
LEMMA DiscardOneTerminal ==
  ASSUME TypeInv, OneTerminalCompletion, NEW D, D \subseteq Live, NEW o \in Outcomes,
         NEW st, \A i \in Seqs : st[i] = "done" <=> state[i] = "done" \/ i \in D,
         NEW f, \A i \in Seqs : f[i] = FateAfter(D, o)[i]
  PROVE  OneTerminal(st, QueueAfter(D), f, told)
<1>1. D \in SUBSET Seqs /\ \A i \in D : state[i] # "done"
  BY DEF Live, Unstarted, Running, In, UnstartedStates
<1>2. \A i \in Seqs : f[i] # NoOutcome <=> fate[i] # NoOutcome \/ i \in D
  BY OutcomeAssumption DEF FateAfter, Outcomes
<1>3. CASE D = {}
  BY <1>2, <1>3, OneTerminalIs DEF QueueAfter, OneTerminal
<1>4. CASE D # {}
  <2>1. queue \in Seq(SUBSET Seqs)
    BY DEF TypeInv, TypeOK
  <2> QED BY <1>1, <1>2, <1>4, <2>1, Deliver, OneTerminalIs DEF QueueAfter
<1> QED BY <1>3, <1>4

LEMMA DiscardStep ==
  ASSUME TypeInv, OneTerminalCompletion, NEW D, D \subseteq Live, NEW o \in Outcomes,
         Discard(D, o), told' = told
  PROVE  OneTerminalCompletion'
<1>1. \A i \in Seqs : state'[i] = "done" <=> state[i] = "done" \/ i \in D
  BY DEF Discard, StateAfter
<1>2. OneTerminal(state', QueueAfter(D), fate', told)
  BY <1>1, DiscardOneTerminal DEF Discard
<1>3. OneTerminal(state', queue', fate', told')
  BY <1>2 DEF Discard
<1> QED BY <1>3 DEF OneTerminalCompletion, OneTerminal, Pending

LEMMA SubmitOneTerminal ==
  ASSUME TypeInv, OneTerminalCompletion, NEW s \in Specs, Submit(s) PROVE OneTerminalCompletion'
<1> DEFINE drop == Droppable(Retargeted(s) \cup Previous(s))
<1>1. drop \subseteq Live /\ next \in Seqs
  BY DEF Droppable, Live, Submit, TypeInv, TypeOK, Seqs
<1>2. state[next] = "new" /\ next \notin drop
  <2>1. state[next] # "new" <=> next < next
    BY <1>1 DEF TypeInv, Admitted
  <2>2. state[next] = "new"
    BY <1>1, <2>1 DEF Seqs
  <2> QED BY <1>1, <2>2 DEF Live, Unstarted, Running, In, UnstartedStates
<1>3. \A i \in Seqs : state'[i] = "done" <=> state[i] = "done" \/ i \in drop
  <2>1. \A i \in Seqs : i # next => state'[i] = StateAfter(drop)[i]
    BY <1>1 DEF Submit, StateAfter
  <2>2. state'[next] # "done"
    BY <1>1 DEF Submit, StateAfter
  <2> QED BY <1>2, <2>1, <2>2 DEF StateAfter
<1>4. fate' = FateAfter(drop, "dropped") /\ queue' = QueueAfter(drop) /\ told' = told
  BY DEF Submit
<1>5. "dropped" \in Outcomes
  BY DEF Outcomes
<1> HIDE DEF drop
<1>6. OneTerminal(state', QueueAfter(drop), fate', told)
  BY <1>1, <1>3, <1>4, <1>5, DiscardOneTerminal
<1>7. OneTerminal(state', queue', fate', told')
  BY <1>4, <1>6
<1> QED BY <1>7 DEF OneTerminalCompletion, OneTerminal, Pending

LEMMA FinishOneTerminal ==
  ASSUME TypeInv, OneTerminalCompletion, NEW i \in Seqs, NEW report \in Outcomes,
         Finish(i, report)
  PROVE  OneTerminalCompletion'
<1> DEFINE o == IF report = "completed" /\ Stale(i) THEN "stale" ELSE report
           lost == IF o = "completed" THEN {} ELSE Dependents(spec[i].key)
           st == [j \in Seqs |-> IF j \in lost THEN "done" ELSE state[j]]
           f == FateAfter(lost, "dropped")
<1>1. /\ lost \subseteq Live /\ i \notin lost /\ lost \in SUBSET Seqs
      /\ state[i] = "running" /\ "dropped" \in Outcomes /\ o \in Outcomes
  BY DEF Dependents, ParkedDeps, Live, Unstarted, UnstartedStates, Finish, Running, In, Outcomes
<1>2. OneTerminal(st, QueueAfter(lost), f, told)
  <2>1. \A j \in Seqs : st[j] = "done" <=> state[j] = "done" \/ j \in lost
    OBVIOUS
  <2>2. \A j \in Seqs : f[j] = FateAfter(lost, "dropped")[j]
    OBVIOUS
  <2> HIDE DEF st, f, lost, o
  <2> QED BY <1>1, <2>1, <2>2, DiscardOneTerminal
<1>3. QueueAfter(lost) \in Seq(SUBSET Seqs) /\ f \in [Seqs -> Outcomes \cup {NoOutcome}]
  BY <1>1, DiscardTypes, FateTypes DEF TypeInv
<1>4. \A j \in Seqs : state'[j] = "done" <=> st[j] = "done" \/ j \in {i}
  BY DEF Finish, Released, Promoted, ParkedDeps, In
<1>5. /\ fate' = [f EXCEPT ![i] = o]
      /\ queue' = Append(QueueAfter(lost), {i})
      /\ told' = told
  BY DEF Finish
<1>6. \A j \in Seqs : fate'[j] # NoOutcome <=> f[j] # NoOutcome \/ j \in {i}
  BY <1>1, <1>3, <1>5, OutcomeAssumption DEF Outcomes
<1>7. st[i] # "done"
  BY <1>1
<1> HIDE DEF st, f, lost, o
<1>8. OneTerminal(state', Append(QueueAfter(lost), {i}), fate', told)
  BY <1>2, <1>3, <1>4, <1>6, <1>7, Deliver
<1>9. OneTerminal(state', queue', fate', told')
  BY <1>5, <1>8
<1> QED BY <1>9 DEF OneTerminalCompletion, OneTerminal, Pending

LEMMA DispatchOneTerminal ==
  ASSUME TypeInv, OneTerminalCompletion, NEW i \in Seqs, Dispatch(i) PROVE OneTerminalCompletion'
<1>1. /\ queue \in Seq(SUBSET Seqs) /\ queue # <<>> /\ i \in queue[1]
      /\ Len(queue) \in Nat /\ Len(queue) >= 1
  BY DEF Dispatch, TypeInv, TypeOK
<1>2. OneTerminal(state, queue, fate, told) /\ UNCHANGED <<state, fate>>
  BY OneTerminalIs DEF Dispatch
<1>3. fate[i] # NoOutcome /\ \A n \in 1..Len(queue) : i \in queue[n] => n = 1
  BY <1>1, <1>2 DEF OneTerminal
<1>4. told'[i] # NoOutcome /\ \A j \in Seqs \ {i} : told'[j] = told[j]
  <2>1. told \in [Seqs -> Outcomes \cup {NoOutcome, "stale_reused"}] /\ fate[i] \in Outcomes
    BY <1>3 DEF TypeInv, TypeOK
  <2> QED BY <2>1, OutcomeAssumption DEF Dispatch, Outcomes
<1>5. /\ \A j \in Seqs : (\E n \in 1..Len(queue') : j \in queue'[n])
                          <=> j # i /\ \E n \in 1..Len(queue) : j \in queue[n]
      /\ \A n, m \in 1..Len(queue') : n # m => queue'[n] \cap queue'[m] = {}
      /\ \A n \in 1..Len(queue') : queue'[n] # {}
  <2>1. CASE Head(queue) = {i}
    <3>1. /\ queue' = Tail(queue) /\ queue[1] = {i}
          /\ Len(queue') = Len(queue) - 1
          /\ \A n \in 1..Len(queue') : queue'[n] = queue[n + 1]
      BY <1>1, <2>1 DEF Dispatch
    <3>2. \A j \in Seqs : (\E n \in 1..Len(queue') : j \in queue'[n])
                           <=> \E n \in 2..Len(queue) : j \in queue[n]
      <4>1. \A j \in Seqs, n \in 2..Len(queue) :
               j \in queue[n] => n - 1 \in 1..Len(queue') /\ j \in queue'[n - 1]
        BY <1>1, <3>1
      <4>2. \A j \in Seqs, n \in 1..Len(queue') :
               j \in queue'[n] => n + 1 \in 2..Len(queue) /\ j \in queue[n + 1]
        BY <1>1, <3>1
      <4> QED BY <4>1, <4>2
    <3>3. \A j \in Seqs : (\E n \in 2..Len(queue) : j \in queue[n])
                           <=> j # i /\ \E n \in 1..Len(queue) : j \in queue[n]
      BY <1>1, <1>3, <3>1
    <3>4. /\ \A n, m \in 1..Len(queue') : n # m => queue'[n] \cap queue'[m] = {}
          /\ \A n \in 1..Len(queue') : queue'[n] # {}
      BY <1>1, <1>2, <3>1 DEF OneTerminal
    <3> QED BY <3>2, <3>3, <3>4
  <2>2. CASE Head(queue) # {i}
    <3>1. /\ queue' = [queue EXCEPT ![1] = @ \ {i}]
          /\ Len(queue') = Len(queue)
          /\ \A n \in 1..Len(queue) : queue'[n] = IF n = 1 THEN queue[1] \ {i} ELSE queue[n]
          /\ queue[1] \ {i} # {}
      BY <1>1, <2>2 DEF Dispatch
    <3>2. \A n \in 1..Len(queue) : queue'[n] = queue[n] \ {i}
      BY <1>3, <3>1
    <3> QED BY <1>2, <3>1, <3>2 DEF OneTerminal
  <2> QED BY <2>1, <2>2
<1>6. OneTerminal(state', queue', fate', told')
  BY <1>2, <1>3, <1>4, <1>5 DEF OneTerminal
<1> QED BY <1>6 DEF OneTerminalCompletion, OneTerminal, Pending

LEMMA NextOneTerminal ==
  TypeInv /\ OneTerminalCompletion /\ [Next]_vars => OneTerminalCompletion'
<1> SUFFICES ASSUME TypeInv, OneTerminalCompletion, [Next]_vars PROVE OneTerminalCompletion'
  OBVIOUS
<1>1. ASSUME UNCHANGED deliveryVars,
             \A i \in Seqs : state'[i] = "done" <=> state[i] = "done"
      PROVE  OneTerminalCompletion'
  BY <1>1 DEF deliveryVars, OneTerminalCompletion, Pending
<1>2. ASSUME NEW i \in Seqs, CancelHandle(i) PROVE OneTerminalCompletion'
  <2>1. CASE i \in Unstarted
    <3>1. {i} \subseteq Live /\ "cancelled" \in Outcomes
      BY <2>1 DEF Live, Outcomes
    <3> QED BY <1>2, <2>1, <3>1, DiscardStep DEF CancelHandle
  <2>2. CASE i \notin Unstarted
    BY <1>1, <1>2, <2>2 DEF CancelHandle, deliveryVars
  <2> QED BY <2>1, <2>2
<1>3. ASSUME NEW c \in Clearable, ClearScope(c) PROVE OneTerminalCompletion'
  <2>1. PICK D \in SUBSET Live : Discard(D, "dropped")
    BY <1>3 DEF ClearScope, Droppable, Live
  <2>2. "dropped" \in Outcomes /\ told' = told
    BY <1>3 DEF ClearScope, Outcomes
  <2> QED BY <2>1, <2>2, DiscardStep
<1>4. ASSUME NEW q \in Quotas, SetLaneQuota(q[1], q[2]) PROVE OneTerminalCompletion'
  BY <1>1, <1>4 DEF SetLaneQuota, Released
<1>5. ASSUME Shutdown PROVE OneTerminalCompletion'
  <2>1. \A i \in Seqs : state'[i] = "done" <=> state[i] = "done" \/ i \in Unstarted
    BY <1>5 DEF Shutdown, Unstarted, In
  <2>2. /\ fate' = FateAfter(Unstarted, "cancelled") /\ queue' = QueueAfter(Unstarted)
        /\ told' = told
    BY <1>5 DEF Shutdown
  <2>3. Unstarted \subseteq Live /\ "cancelled" \in Outcomes
    BY DEF Live, Outcomes
  <2>4. OneTerminal(state', QueueAfter(Unstarted), fate', told)
    BY <2>1, <2>2, <2>3, DiscardOneTerminal
  <2>5. OneTerminal(state', queue', fate', told')
    BY <2>2, <2>4
  <2> QED BY <2>5 DEF OneTerminalCompletion, OneTerminal, Pending
<1>6. ASSUME Pop PROVE OneTerminalCompletion'
  <2>1. PICK i \in Seqs : PopDiscard(i) \/ PopPark(i) \/ PopTake(i)
    BY <1>6 DEF Pop
  <2>2. state[i] = "queued" /\ {i} \subseteq Live
    BY <2>1 DEF PopDiscard, PopPark, PopTake, IsHead, Queued, Live, Unstarted, In, UnstartedStates
  <2>3. CASE PopDiscard(i)
    <3>1. PICK o \in Outcomes : Discard({i}, o)
      BY <2>3 DEF PopDiscard, Outcomes
    <3> QED BY <2>2, <2>3, <3>1, DiscardStep DEF PopDiscard
  <2>4. CASE PopPark(i)
    BY <1>1, <2>2, <2>4 DEF PopPark
  <2>5. CASE PopTake(i)
    BY <1>1, <2>2, <2>5 DEF PopTake
  <2> QED BY <2>1, <2>3, <2>4, <2>5
<1>7. ASSUME NEW T \in SUBSET Tiles, NEW ranks \in [T -> Ranks], Rerank(ranks)
      PROVE OneTerminalCompletion'
  BY <1>1, <1>7 DEF Rerank
<1>8. ASSUME NEW k \in InlineKeys, InlineWork(k) PROVE OneTerminalCompletion'
  BY <1>1, <1>8 DEF InlineWork
<1>9. ASSUME NEW i \in Seqs, Execute(i) PROVE OneTerminalCompletion'
  BY <1>1, <1>9 DEF Execute
<1>10. CASE UNCHANGED vars
  BY <1>1, <1>10 DEF vars, deliveryVars
<1>11. CASE Next
  BY <1>2, <1>3, <1>4, <1>5, <1>6, <1>7, <1>8, <1>9, <1>11, SubmitOneTerminal,
     FinishOneTerminal, DispatchOneTerminal
  DEF Next
<1> QED BY <1>10, <1>11

\* Every admitted task gets exactly one terminal completion, whoever ends it:
\* a worker, a cancel, a supersession, a scope clear, a failed dependency, a
\* deadline or shutdown; and its handlers are told at most once.
THEOREM ExactlyOneCompletion == Spec => []OneTerminalCompletion
<1>1. Init => OneTerminalCompletion
  BY DEF Init, OneTerminalCompletion, Pending
<1> QED BY <1>1, AlwaysTypeInv, NextOneTerminal, PTL DEF Spec

-----------------------------------------------------------------------------
(* The kernel implements the ledger: each step moves each task along its     *)
(* life line, or not at all.                                                 *)

Owing(i) == fate'[i] = fate[i] /\ told'[i] = told[i]
Moves(i) ==
    \/ Owing(i) /\ state'[i] = state[i]
    \/ Owing(i) /\ state[i] \in UnstartedStates /\ state'[i] \in UnstartedStates
    \/ Owing(i) /\ state[i] = "new" /\ state'[i] \in UnstartedStates
    \/ Owing(i) /\ state[i] \in UnstartedStates /\ state'[i] = "running"
    \/ /\ state[i] \in UnstartedStates /\ state'[i] = "done"
       /\ fate'[i] \in {"cancelled", "dropped"} /\ told'[i] = told[i]
    \/ /\ state[i] = "running" /\ state'[i] = "done"
       /\ fate'[i] \in {"completed", "failed", "cancelled", "stale"} /\ told'[i] = told[i]
    \/ /\ state[i] = "done" /\ state'[i] = "done" /\ fate'[i] = fate[i]
       /\ told[i] = NoOutcome /\ told'[i] \in Ledger!AtDispatch(fate[i])

LEMMA PhaseIs ==
  ASSUME NEW i \in Seqs
  PROVE  /\ phaseOf[i] = CASE state[i] = "new" -> "absent"
                           [] state[i] \in UnstartedStates -> "waiting"
                           [] state[i] = "running" -> "started"
                           [] state[i] = "done" /\ told[i] = NoOutcome -> "settled"
                           [] state[i] = "done" /\ told[i] # NoOutcome -> "told"
         /\ outcomeOf[i] = IF told[i] # NoOutcome THEN told[i] ELSE fate[i]
  BY DEF phaseOf, outcomeOf

Lives(i) == \/ Ledger!Admit(i) \/ Ledger!Begin(i) \/ Ledger!Discard(i)
            \/ Ledger!Finish(i) \/ Ledger!Tell(i) \/ Ledger!Rest(i)

LEMMA MovesLive ==
  ASSUME TypeInv, OneTerminalCompletion, TypeInv', OneTerminalCompletion',
         NEW i \in Seqs, Moves(i)
  PROVE  Lives(i)
<1> DEFINE p == phaseOf[i]
           q == phaseOf'[i]
<1>1. /\ p = CASE state[i] = "new" -> "absent"
               [] state[i] \in UnstartedStates -> "waiting"
               [] state[i] = "running" -> "started"
               [] state[i] = "done" /\ told[i] = NoOutcome -> "settled"
               [] state[i] = "done" /\ told[i] # NoOutcome -> "told"
      /\ outcomeOf[i] = IF told[i] # NoOutcome THEN told[i] ELSE fate[i]
  BY PhaseIs
<1>2. /\ q = CASE state'[i] = "new" -> "absent"
               [] state'[i] \in UnstartedStates -> "waiting"
               [] state'[i] = "running" -> "started"
               [] state'[i] = "done" /\ told'[i] = NoOutcome -> "settled"
               [] state'[i] = "done" /\ told'[i] # NoOutcome -> "told"
      /\ outcomeOf'[i] = IF told'[i] # NoOutcome THEN told'[i] ELSE fate'[i]
  BY PhaseIs DEF phaseOf, outcomeOf
<1>3. /\ state[i] = "done" <=> fate[i] # NoOutcome
      /\ told[i] # NoOutcome => fate[i] # NoOutcome
      /\ state'[i] = "done" <=> fate'[i] # NoOutcome
      /\ told'[i] # NoOutcome => fate'[i] # NoOutcome
  BY DEF OneTerminalCompletion
<1>4. state[i] \in States /\ fate[i] \in Outcomes \cup {NoOutcome}
  BY DEF TypeInv, TypeOK
<1> HIDE DEF p, q
<1> USE <1>1, <1>2, <1>3, <1>4 DEF States, UnstartedStates, Lives
<1>5. CASE Owing(i) /\ state'[i] = state[i]
  <2>1. q = p /\ outcomeOf'[i] = outcomeOf[i]
    BY <1>5 DEF Owing
  <2> QED BY <2>1 DEF Ledger!Rest, p, q
<1>6. CASE Owing(i) /\ state[i] \in UnstartedStates /\ state'[i] \in UnstartedStates
  <2>1. q = p /\ outcomeOf'[i] = outcomeOf[i]
    BY <1>6 DEF Owing
  <2> QED BY <2>1 DEF Ledger!Rest, p, q
<1>7. CASE Owing(i) /\ state[i] = "new" /\ state'[i] \in UnstartedStates
  <2>1. p = "absent" /\ q = "waiting" /\ outcomeOf'[i] = outcomeOf[i]
    BY <1>7 DEF Owing
  <2> QED BY <2>1 DEF Ledger!Admit, Ledger!Goes, p, q
<1>8. CASE Owing(i) /\ state[i] \in UnstartedStates /\ state'[i] = "running"
  <2>1. p = "waiting" /\ q = "started" /\ outcomeOf'[i] = outcomeOf[i]
    BY <1>8 DEF Owing
  <2> QED BY <2>1 DEF Ledger!Begin, Ledger!Goes, p, q
<1>9. CASE /\ state[i] \in UnstartedStates /\ state'[i] = "done"
           /\ fate'[i] \in {"cancelled", "dropped"} /\ told'[i] = told[i]
  <2>1. p = "waiting" /\ q = "settled" /\ outcomeOf'[i] \in {"cancelled", "dropped"}
    BY <1>9
  <2> QED BY <2>1 DEF Ledger!Discard, Ledger!Goes, Ledger!WithoutRunning, p, q
<1>10. CASE /\ state[i] = "running" /\ state'[i] = "done"
            /\ fate'[i] \in {"completed", "failed", "cancelled", "stale"} /\ told'[i] = told[i]
  <2>1. /\ p = "started" /\ q = "settled"
        /\ outcomeOf'[i] \in {"completed", "failed", "cancelled", "stale"}
    BY <1>10
  <2> QED BY <2>1 DEF Ledger!Finish, Ledger!Goes, Ledger!AfterRunning, p, q
<1>11. CASE /\ state[i] = "done" /\ state'[i] = "done" /\ fate'[i] = fate[i]
            /\ told[i] = NoOutcome /\ told'[i] \in Ledger!AtDispatch(fate[i])
  <2>1. fate[i] \in Outcomes
    BY <1>11
  <2>2. told'[i] # NoOutcome
    BY <1>11, <2>1, OutcomeAssumption DEF Ledger!AtDispatch, Outcomes
  <2>3. /\ p = "settled" /\ q = "told"
        /\ outcomeOf'[i] \in Ledger!AtDispatch(outcomeOf[i])
    BY <1>11, <2>2
  <2> QED BY <2>3 DEF Ledger!Tell, Ledger!Goes, p, q
<1> QED BY <1>5, <1>6, <1>7, <1>8, <1>9, <1>10, <1>11 DEF Moves

LEMMA DiscardMoves ==
  ASSUME TypeInv, NEW D, D \subseteq Unstarted, NEW o \in {"cancelled", "dropped"},
         state' = StateAfter(D), fate' = FateAfter(D, o), told' = told
  PROVE  \A i \in Seqs : Moves(i)
  BY DEF TypeInv, TypeOK, StateAfter, FateAfter, Moves, Owing, Unstarted, In, UnstartedStates

LEMMA SubmitMoves ==
  ASSUME TypeInv, NEW s \in Specs, Submit(s) PROVE \A i \in Seqs : Moves(i)
<1> DEFINE drop == Droppable(Retargeted(s) \cup Previous(s))
<1>1. drop \subseteq Unstarted /\ next \in Seqs
  BY DEF Droppable, Submit, TypeInv, TypeOK, Seqs
<1>2. state[next] = "new" /\ next \notin drop
  <2>1. state[next] = "new"
    BY <1>1 DEF TypeInv, Admitted, Seqs
  <2> QED BY <1>1, <2>1 DEF Unstarted, In, UnstartedStates
<1>3. /\ state'[next] \in UnstartedStates
      /\ \A i \in Seqs : i # next => state'[i] = StateAfter(drop)[i]
      /\ fate' = FateAfter(drop, "dropped") /\ told' = told
  BY <1>1 DEF Submit, StateAfter, UnstartedStates
<1> HIDE DEF drop
<1>4. Moves(next)
  BY <1>1, <1>2, <1>3 DEF FateAfter, Moves, Owing
<1>5. ASSUME NEW i \in Seqs, i # next PROVE Moves(i)
  BY <1>1, <1>3, <1>5 DEF TypeInv, TypeOK, StateAfter, FateAfter, Moves, Owing, Unstarted, In,
                          UnstartedStates
<1> QED BY <1>4, <1>5

LEMMA FinishMoves ==
  ASSUME TypeInv, NEW i \in Seqs, NEW report \in Outcomes, Finish(i, report)
  PROVE  \A j \in Seqs : Moves(j)
<1> DEFINE o == IF report = "completed" /\ Stale(i) THEN "stale" ELSE report
           lost == IF o = "completed" THEN {} ELSE Dependents(spec[i].key)
<1>1. /\ lost \subseteq ParkedDeps /\ i \notin lost /\ state[i] = "running"
      /\ o \in {"completed", "failed", "cancelled", "stale"}
  BY SetsAssumption DEF Finish, Dependents, ParkedDeps, Running, In, Reports
<1>2. PICK promoted \in SUBSET ParkedDeps :
        state' = Released([j \in Seqs |-> IF j = i \/ j \in lost THEN "done"
                                          ELSE IF j \in promoted THEN "queued"
                                          ELSE state[j]])
  BY DEF Finish, Promoted
<1>3. /\ fate' = [FateAfter(lost, "dropped") EXCEPT ![i] = o] /\ told' = told
  BY DEF Finish
<1> HIDE DEF o, lost
<1>4. Moves(i)
  BY <1>1, <1>2, <1>3 DEF Released, FateAfter, Moves
<1>5. ASSUME NEW j \in Seqs, j # i PROVE Moves(j)
  BY <1>1, <1>2, <1>3, <1>5 DEF Released, FateAfter, Moves, Owing, ParkedDeps, In, UnstartedStates
<1> QED BY <1>4, <1>5

LEMMA DispatchMoves ==
  ASSUME TypeInv, OneTerminalCompletion, NEW i \in Seqs, Dispatch(i)
  PROVE  \A j \in Seqs : Moves(j)
<1>1. fate[i] # NoOutcome /\ told[i] = NoOutcome /\ state[i] = "done"
  <2>1. 1 \in 1..Len(queue) /\ i \in queue[1]
    BY DEF Dispatch, TypeInv, TypeOK
  <2> QED BY <2>1 DEF OneTerminalCompletion, Pending
<1>2. UNCHANGED <<state, fate>>
  BY DEF Dispatch
<1>3. told'[i] \in Ledger!AtDispatch(fate[i]) /\ \A j \in Seqs \ {i} : told'[j] = told[j]
  <2>1. told \in [Seqs -> Outcomes \cup {NoOutcome, "stale_reused"}]
    BY DEF TypeInv, TypeOK
  <2> QED BY <2>1 DEF Dispatch, Ledger!AtDispatch
<1> QED BY <1>1, <1>2, <1>3 DEF Moves, Owing

LEMMA StepMoves ==
  TypeInv /\ OneTerminalCompletion /\ [Next]_vars => \A i \in Seqs : Moves(i)
<1> SUFFICES ASSUME TypeInv, OneTerminalCompletion, [Next]_vars PROVE \A i \in Seqs : Moves(i)
  OBVIOUS
<1>1. ASSUME UNCHANGED <<state, fate, told>> PROVE \A i \in Seqs : Moves(i)
  BY <1>1 DEF Moves, Owing
<1>2. ASSUME NEW i \in Seqs, CancelHandle(i) PROVE \A j \in Seqs : Moves(j)
  <2>1. CASE i \in Unstarted
    BY <1>2, <2>1, DiscardMoves DEF CancelHandle, Discard
  <2>2. CASE i \notin Unstarted
    BY <1>1, <1>2, <2>2 DEF CancelHandle
  <2> QED BY <2>1, <2>2
<1>3. ASSUME NEW c \in Clearable, ClearScope(c) PROVE \A j \in Seqs : Moves(j)
  <2>1. PICK D \in SUBSET Unstarted : Discard(D, "dropped")
    BY <1>3 DEF ClearScope, Droppable
  <2>2. told' = told
    BY <1>3 DEF ClearScope
  <2> QED BY <2>1, <2>2, DiscardMoves DEF Discard
<1>4. ASSUME NEW q \in Quotas, SetLaneQuota(q[1], q[2]) PROVE \A j \in Seqs : Moves(j)
  BY <1>4 DEF SetLaneQuota, Released, deliveryVars, Moves, Owing, UnstartedStates
<1>5. ASSUME Shutdown PROVE \A j \in Seqs : Moves(j)
  BY <1>5 DEF Shutdown, FateAfter, Moves, Unstarted, In, UnstartedStates, Owing
<1>6. ASSUME Pop PROVE \A j \in Seqs : Moves(j)
  <2>1. PICK i \in Seqs : PopDiscard(i) \/ PopPark(i) \/ PopTake(i)
    BY <1>6 DEF Pop
  <2>2. state[i] = "queued" /\ {i} \subseteq Unstarted
    BY <2>1 DEF PopDiscard, PopPark, PopTake, IsHead, Queued, Unstarted, In, UnstartedStates
  <2>3. CASE PopDiscard(i)
    <3>1. PICK o \in {"cancelled", "dropped"} : Discard({i}, o)
      BY <2>3 DEF PopDiscard
    <3> QED BY <2>2, <2>3, <3>1, DiscardMoves DEF PopDiscard, Discard
  <2>4. CASE PopPark(i)
    BY <2>2, <2>4 DEF PopPark, deliveryVars, Moves, Owing, UnstartedStates, TypeInv, TypeOK
  <2>5. CASE PopTake(i)
    BY <2>2, <2>5 DEF PopTake, deliveryVars, Moves, Owing, UnstartedStates, TypeInv, TypeOK
  <2> QED BY <2>1, <2>3, <2>4, <2>5
<1>7. ASSUME NEW T \in SUBSET Tiles, NEW ranks \in [T -> Ranks], Rerank(ranks)
      PROVE \A j \in Seqs : Moves(j)
  BY <1>1, <1>7 DEF Rerank, deliveryVars
<1>8. ASSUME NEW k \in InlineKeys, InlineWork(k) PROVE \A j \in Seqs : Moves(j)
  BY <1>1, <1>8 DEF InlineWork, deliveryVars
<1>9. ASSUME NEW i \in Seqs, Execute(i) PROVE \A j \in Seqs : Moves(j)
  BY <1>1, <1>9 DEF Execute, deliveryVars
<1>10. CASE UNCHANGED vars
  BY <1>1, <1>10 DEF vars
<1>11. CASE Next
  BY <1>2, <1>3, <1>4, <1>5, <1>6, <1>7, <1>8, <1>9, <1>11, SubmitMoves, FinishMoves,
     DispatchMoves
  DEF Next
<1> QED BY <1>10, <1>11

LEMMA StepIsLedger ==
  ASSUME TypeInv, OneTerminalCompletion, TypeInv', OneTerminalCompletion', [Next]_vars
  PROVE  Ledger!LedgerNext
<1>1. \A i \in Seqs : Lives(i)
  BY StepMoves, MovesLive
<1>2. phaseOf' \in [Seqs -> Ledger!Phases]
  BY DEF phaseOf, Ledger!Phases, TypeInv, TypeOK, States, UnstartedStates
<1>3. outcomeOf' \in [Seqs -> {NoOutcome} \cup Ledger!WithoutRunning \cup Ledger!AfterRunning
                                           \cup {"stale_reused"}]
  <2>1. \A i \in Seqs : /\ fate'[i] \in Outcomes \cup {NoOutcome}
                        /\ told'[i] \in Outcomes \cup {NoOutcome, "stale_reused"}
    BY DEF TypeInv, TypeOK
  <2> QED BY <2>1 DEF outcomeOf, Ledger!WithoutRunning, Ledger!AfterRunning, Outcomes
<1> QED BY <1>1, <1>2, <1>3 DEF Lives, Ledger!LedgerNext

\* Whatever a caller of Kernel.submit may rely on is TaskLedger: one life line
\* per task, one outcome, told once, and "dropped" only of what never ran.
THEOREM KernelImplementsLedger == Spec => ImplementsLedger
<1>1. Init => Ledger!LedgerInit
  BY DEF Init, phaseOf, outcomeOf, UnstartedStates, Ledger!LedgerInit
<1>2. TypeInv /\ TypeInv' /\ OneTerminalCompletion /\ OneTerminalCompletion' /\ [Next]_vars
        => [Ledger!LedgerNext]_Ledger!ledgerVars
  BY StepIsLedger
<1> QED BY <1>1, <1>2, AlwaysTypeInv, ExactlyOneCompletion, PTL
        DEF Spec, ImplementsLedger, Ledger!LedgerSpec

-----------------------------------------------------------------------------
(* Dependencies.                                                            *)

\* What _completed_keys and a ready record's dependencies stand for: a task
\* that completed, or work noted inline.
WasDone(d) ==
    \/ d \in InlineKeys
    \/ \E j \in Seqs : spec[j] # NoSpec /\ spec[j].key = d /\ fate[j] = "completed"
DepsAreDone ==
    /\ \A k \in Keys : completed[k] # Absent => WasDone(k)
    /\ \A i \in Unstarted : \A d \in spec[i].deps : d \in unmet[i] \/ WasDone(d)

\* Admission writes a record's spec and its scope snapshot, once.
LEMMA RecordsKeep ==
  ASSUME TypeInv, [Next]_vars
  PROVE  \A i \in Seqs : state[i] # "new" => spec'[i] = spec[i] /\ snap'[i] = snap[i]
<1>1. ASSUME NEW s \in Specs, Submit(s)
      PROVE  \A i \in Seqs : state[i] # "new" => spec'[i] = spec[i] /\ snap'[i] = snap[i]
  <2>1. \A i \in Seqs : state[i] # "new" => i # next
    BY DEF TypeInv, TypeOK, Admitted
  <2> QED BY <1>1, <2>1 DEF Submit, TypeInv, TypeOK
<1>2. ASSUME ~\E s \in Specs : Submit(s) PROVE UNCHANGED <<spec, snap>>
  <2>1. CASE Next
    BY <1>2, <2>1 DEF Next, CancelHandle, ClearScope, Rerank, SetLaneQuota, InlineWork,
       Shutdown, Pop, PopDiscard, PopPark, PopTake, Execute, Finish, Dispatch, recordVars
  <2>2. CASE UNCHANGED vars
    BY <2>2 DEF vars
  <2> QED BY <2>1, <2>2
<1> QED BY <1>1, <1>2

LEMMA DoneForGood ==
  ASSUME TypeInv, OneTerminalCompletion, [Next]_vars, NEW d, WasDone(d)
  PROVE  WasDone(d)'
<1>1. ASSUME NEW j \in Seqs, spec[j] # NoSpec, spec[j].key = d, fate[j] = "completed"
      PROVE  spec'[j] # NoSpec /\ spec'[j].key = d /\ fate'[j] = "completed"
  <2>1. state[j] = "done"
    BY <1>1, OutcomeAssumption DEF OneTerminalCompletion
  <2>2. spec'[j] = spec[j]
    BY <2>1, RecordsKeep
  <2>3. fate'[j] = fate[j]
    BY <2>1, StepMoves DEF Moves, Owing, UnstartedStates
  <2> QED BY <1>1, <2>2, <2>3
<1> QED BY <1>1 DEF WasDone

\* Unless the step admits one, what is unstarted after it was before.
LEMMA UnstartedWere ==
  ASSUME TypeInv, OneTerminalCompletion, [Next]_vars, NEW i \in Unstarted'
  PROVE  i \in Seqs /\ (i \in Unstarted \/ state[i] = "new")
  BY StepMoves DEF Moves, Owing, Unstarted, In, UnstartedStates

\* A step that lists no new key and meets no dependency.
LEMMA SameDeps ==
  ASSUME TypeInv, OneTerminalCompletion, DepsAreDone, [Next]_vars,
         \A k \in Keys : completed'[k] # Absent => completed'[k] = completed[k] \/ WasDone(k)',
         \A i \in Unstarted' : \A d \in spec'[i].deps :
             d \in unmet'[i] \/ WasDone(d) \/ WasDone(d)'
  PROVE  DepsAreDone'
<1>1. ASSUME NEW k \in Keys, completed'[k] # Absent PROVE WasDone(k)'
  BY <1>1, DoneForGood DEF DepsAreDone
<1>2. ASSUME NEW i \in Unstarted', NEW d \in spec'[i].deps PROVE d \in unmet'[i] \/ WasDone(d)'
  BY <1>2, DoneForGood
<1> QED BY <1>1, <1>2 DEF DepsAreDone

LEMMA SubmitDeps ==
  ASSUME TypeInv, OneTerminalCompletion, DepsAreDone, NEW s \in Specs, Submit(s)
  PROVE  DepsAreDone'
<1> DEFINE drop == Droppable(Retargeted(s) \cup Previous(s))
           missing == {d \in s.deps : completed[d] = Absent}
<1>1. /\ completed' = completed /\ [Next]_vars /\ next \in Seqs
      /\ spec' = [spec EXCEPT ![next] = s]
      /\ unmet' = [UnmetAfter(drop) EXCEPT ![next] = missing]
  <2>1. [Next]_vars
    BY DEF Next
  <2>2. next \in Seqs
    BY DEF Submit, TypeInv, TypeOK, Seqs
  <2> QED BY <2>1, <2>2 DEF Submit
<1>2. ASSUME NEW i \in Unstarted', NEW d \in spec'[i].deps
      PROVE  d \in unmet'[i] \/ WasDone(d)
  <2>1. CASE i = next
    <3>1. unmet'[i] = missing /\ spec'[i] = s
      BY <1>1, <2>1 DEF TypeInv, TypeOK, UnmetAfter
    <3>2. d \in Keys
      BY <1>2, <3>1, SpecsAssumption
    <3> QED BY <1>2, <3>1, <3>2 DEF DepsAreDone
  <2>2. CASE i # next
    <3>1. i \in Unstarted /\ i \in Seqs
      BY <1>1, <1>2, <2>2, UnstartedWere DEF TypeInv, Admitted, Submit, TypeOK, StateAfter,
         Unstarted, In, UnstartedStates
    <3>2. i \notin drop
      BY <1>1, <1>2, <2>2, <3>1
         DEF Submit, StateAfter, Unstarted, In, UnstartedStates
    <3>3. unmet'[i] = unmet[i] /\ spec'[i] = spec[i]
      BY <1>1, <2>2, <3>1, <3>2 DEF UnmetAfter, TypeInv, TypeOK
    <3> QED BY <1>2, <3>1, <3>3 DEF DepsAreDone
  <2> QED BY <2>1, <2>2
<1> QED BY <1>1, <1>2, SameDeps

LEMMA FinishDeps ==
  ASSUME TypeInv, OneTerminalCompletion, DepsAreDone,
         NEW i \in Seqs, NEW report \in Outcomes, Finish(i, report)
  PROVE  DepsAreDone'
<1> DEFINE o == IF report = "completed" /\ Stale(i) THEN "stale" ELSE report
           k == spec[i].key
           lost == IF o = "completed" THEN {} ELSE Dependents(k)
<1>1. /\ [Next]_vars /\ spec' = spec /\ state[i] = "running" /\ spec[i] \in Specs
      /\ completed' = IF o = "completed" THEN [completed EXCEPT ![k] = spec[i].scope] ELSE completed
      /\ fate' = [FateAfter(lost, "dropped") EXCEPT ![i] = o]
  BY DEF Finish, Next, Running, In, TypeInv, Admitted
<1>2. o = "completed" => \A d : d = k => WasDone(d)'
  BY <1>1, SetsAssumption DEF WasDone, FateAfter
<1>3. \A j \in Keys : completed'[j] # Absent => completed'[j] = completed[j] \/ WasDone(j)'
  BY <1>1, <1>2 DEF TypeInv, TypeOK
<1>4. ASSUME NEW j \in Unstarted', NEW d \in spec'[j].deps
      PROVE  d \in unmet'[j] \/ WasDone(d) \/ WasDone(d)'
  <2>1. j \in Unstarted /\ j \in Seqs
    <3>1. state[j] # "new"
      BY <1>1, <1>4, FinishTypeInv DEF TypeInv, Admitted, Finish, Unstarted, In, UnstartedStates
    <3> QED BY <1>1, <1>4, <3>1, UnstartedWere
  <2>2. unmet[j] \ unmet'[j] \subseteq (IF o = "completed" THEN {k} ELSE {})
    <3>1. j # i /\ j \notin lost
      BY <1>1, <1>4, <2>1
         DEF Finish, Released, Unstarted, In, UnstartedStates
    <3> QED BY <2>1, <3>1 DEF Finish
  <2>3. d \in unmet[j] \/ WasDone(d)
    BY <1>1, <1>4, <2>1 DEF DepsAreDone
  <2> QED BY <1>2, <2>2, <2>3
<1> QED BY <1>1, <1>3, <1>4, SameDeps

LEMMA NextDeps ==
  TypeInv /\ OneTerminalCompletion /\ DepsAreDone /\ [Next]_vars => DepsAreDone'
<1> SUFFICES ASSUME TypeInv, OneTerminalCompletion, DepsAreDone, [Next]_vars
             PROVE  DepsAreDone'
  OBVIOUS
<1>1. ASSUME ~\E s \in Specs : Submit(s),
             \A i \in Unstarted' : unmet'[i] = unmet[i],
             \A k \in Keys : completed'[k] # Absent => completed'[k] = completed[k] \/ WasDone(k)
      PROVE  DepsAreDone'
  <2>1. UNCHANGED <<next, spec>>
    <3>1. CASE Next
      BY <1>1, <3>1 DEF Next, CancelHandle, ClearScope, Rerank, SetLaneQuota, InlineWork,
         Shutdown, Pop, PopDiscard, PopPark, PopTake, Execute, Finish, Dispatch, recordVars
    <3>2. CASE UNCHANGED vars
      BY <3>2 DEF vars
    <3> QED BY <3>1, <3>2
  <2>2. \A i \in Unstarted' : i \in Unstarted
    <3> SUFFICES ASSUME NEW i \in Unstarted' PROVE i \in Unstarted
      OBVIOUS
    <3>1. TypeInv'
      BY NextTypeInv
    <3>2. i \in Seqs /\ (i \in Unstarted \/ state[i] = "new") /\ state'[i] # "new"
      BY UnstartedWere DEF Unstarted, In, UnstartedStates
    <3> QED BY <2>1, <3>1, <3>2 DEF TypeInv, Admitted
  <2> QED BY <1>1, <2>1, <2>2, SameDeps, DoneForGood DEF DepsAreDone
<1>2. ASSUME NEW D, D \subseteq Unstarted, state' = StateAfter(D), unmet' = UnmetAfter(D)
      PROVE  \A i \in Unstarted' : unmet'[i] = unmet[i]
  BY <1>2 DEF StateAfter, UnmetAfter, Unstarted, In, UnstartedStates
<1>3. ASSUME NEW i \in Seqs, CancelHandle(i) PROVE \A j \in Unstarted' : unmet'[j] = unmet[j]
  <2>1. CASE i \in Unstarted
    BY <1>2, <1>3, <2>1 DEF CancelHandle, Discard
  <2>2. CASE i \notin Unstarted
    BY <1>3, <2>2 DEF CancelHandle
  <2> QED BY <2>1, <2>2
<1>4. ASSUME NEW c \in Clearable, ClearScope(c)
      PROVE  /\ \A j \in Unstarted' : unmet'[j] = unmet[j]
             /\ \A k \in Keys : completed'[k] # Absent => completed'[k] = completed[k]
  <2>1. PICK D \in SUBSET Unstarted : Discard(D, "dropped")
    BY <1>4 DEF ClearScope, Droppable
  <2> QED BY <1>2, <1>4, <2>1 DEF ClearScope, Discard, Purged
<1>5. ASSUME Shutdown PROVE \A j \in Unstarted' : unmet'[j] = unmet[j]
  BY <1>5 DEF Shutdown, UnmetAfter, Unstarted, In, UnstartedStates
<1>6. ASSUME Pop PROVE \A j \in Unstarted' : unmet'[j] = unmet[j]
  <2>1. PICK i \in Seqs : PopDiscard(i) \/ PopPark(i) \/ PopTake(i)
    BY <1>6 DEF Pop
  <2>2. CASE PopDiscard(i)
    <3>1. {i} \subseteq Unstarted
      BY <2>2 DEF PopDiscard, IsHead, Queued, Unstarted, In, UnstartedStates
    <3>2. PICK o \in {"cancelled", "dropped"} : Discard({i}, o)
      BY <2>2 DEF PopDiscard
    <3> QED BY <1>2, <3>1, <3>2 DEF Discard
  <2>3. CASE PopPark(i) \/ PopTake(i)
    BY <2>3 DEF PopPark, PopTake, recordVars
  <2> QED BY <2>1, <2>2, <2>3
<1>7. CASE UNCHANGED vars
  <2>1. \A j \in Unstarted' : unmet'[j] = unmet[j]
    BY <1>7 DEF vars
  <2>2. completed' = completed /\ spec' = spec /\ Unstarted' = Unstarted
    BY <1>7 DEF vars, Unstarted, In
  <2> QED BY <2>1, <2>2, SameDeps DEF DepsAreDone
<1>8. CASE \E i \in Seqs : Dispatch(i)
  <2>1. PICK i \in Seqs : Dispatch(i)
    BY <1>8
  <2>2. \A k \in Keys : completed'[k] # Absent => completed'[k] = completed[k]
    BY <2>1 DEF Dispatch, TypeInv, TypeOK
  <2>3. UNCHANGED <<spec, state, unmet>>
    BY <2>1 DEF Dispatch, recordVars
  <2>4. Unstarted' = Unstarted
    BY <2>3 DEF Unstarted, In
  <2> QED BY <2>2, <2>3, <2>4, SameDeps DEF DepsAreDone
<1>9. CASE \E k \in InlineKeys : InlineWork(k)
  <2>1. PICK k \in InlineKeys : InlineWork(k)
    BY <1>9
  <2>2. \A j \in Keys : completed'[j] # Absent => completed'[j] = completed[j] \/ WasDone(j)'
    BY <2>1 DEF InlineWork, TypeInv, TypeOK, WasDone
  <2>3. UNCHANGED <<spec, state, unmet>>
    BY <2>1 DEF InlineWork, recordVars
  <2>4. Unstarted' = Unstarted
    BY <2>3 DEF Unstarted, In
  <2> QED BY <2>2, <2>3, <2>4, SameDeps DEF DepsAreDone
<1>10. CASE \E s \in Specs : Submit(s)
  BY <1>10, SubmitDeps
<1>11. CASE \E i \in Seqs, r \in Outcomes : Finish(i, r)
  BY <1>11, FinishDeps
<1>12. CASE ~\E s \in Specs : Submit(s)
  <2>1. CASE \E i \in Seqs : CancelHandle(i)
    BY <1>1, <1>3, <1>12, <2>1 DEF CancelHandle
  <2>2. CASE \E c \in Clearable : ClearScope(c)
    BY <1>1, <1>4, <1>12, <2>2
  <2>3. CASE Shutdown
    BY <1>1, <1>5, <1>12, <2>3 DEF Shutdown
  <2>4. CASE Pop
    <3>1. completed' = completed
      BY <2>4 DEF Pop, PopDiscard, PopPark, PopTake, keyVars
    <3> QED BY <1>1, <1>6, <1>12, <2>4, <3>1
  <2>5. CASE \/ \E T \in SUBSET Tiles : \E ranks \in [T -> Ranks] : T # {} /\ Rerank(ranks)
             \/ \E q \in Quotas : SetLaneQuota(q[1], q[2])
             \/ \E i \in Seqs : Execute(i)
    <3>1. UNCHANGED <<unmet, completed>>
      BY <2>5 DEF Rerank, SetLaneQuota, Execute, recordVars, keyVars
    <3> QED BY <1>1, <1>12, <3>1
  <2> QED BY <1>7, <1>8, <1>9, <1>11, <1>12, <2>1, <2>2, <2>3, <2>4, <2>5 DEF Next
<1> QED BY <1>10, <1>12

\* No task starts before each of its dependencies completed, once, without
\* being stale, or was noted as done inline.
THEOREM DependenciesFirst == Spec => DepsCompleteFirst
<1>1. Init => DepsAreDone
  BY DEF Init, DepsAreDone, Unstarted, In, UnstartedStates
<1>2. TypeInv /\ ParkedForAReason /\ DepsAreDone /\ [Next]_vars =>
        [\A i \in Seqs : Starts(i) =>
           \A d \in spec[i].deps :
              \/ d \in InlineKeys
              \/ \E j \in Seqs : spec[j] # NoSpec /\ spec[j].key = d /\ fate[j] = "completed"]_vars
  <2> SUFFICES ASSUME TypeInv, ParkedForAReason, DepsAreDone,
                      NEW i \in Seqs, Starts(i), NEW d \in spec[i].deps
               PROVE  WasDone(d)
    BY DEF WasDone
  <2>1. state[i] = "queued"
    BY DEF Starts
  <2>2. unmet[i] = {} /\ i \in Unstarted
    BY <2>1 DEF ParkedForAReason, Unstarted, In, UnstartedStates
  <2> QED BY <2>2 DEF DepsAreDone
<1> QED BY <1>1, <1>2, NextDeps, AlwaysTypeInv, ExactlyOneCompletion, NoLostWakeup, PTL
        DEF Spec, DepsCompleteFirst

-----------------------------------------------------------------------------
(* Admission: the counters count, so the limits hold of the records.        *)

UnstartedVisible == {i \in Unstarted : Visible(i)}
RunningVisible == {i \in Running : Visible(i)}
Counts ==
    /\ queuedVisible = Cardinality(UnstartedVisible)
    /\ runVisible = Cardinality(RunningVisible)
    /\ runOptional = Cardinality(RunningOptional)
    /\ \A l \in Lanes : runLane[l] = Cardinality(RunningIn(l))

LEMMA SetsInSeqs ==
  /\ Unstarted \subseteq Seqs /\ Running \subseteq Seqs /\ Unstarted \cap Running = {}
  /\ UnstartedVisible \subseteq Seqs /\ RunningVisible \subseteq Seqs
  /\ RunningOptional \subseteq Seqs
  /\ \A l \in Lanes : RunningIn(l) \subseteq Seqs
  BY DEF Unstarted, Running, In, UnstartedStates, UnstartedVisible, RunningVisible,
         RunningOptional, RunningIn

LEMMA CountLeft ==
  ASSUME NEW S, S \subseteq Seqs, NEW D, D \subseteq S
  PROVE  AtLeast0(Cardinality(S) - Cardinality(D)) = Cardinality(S \ D)
<1>1. /\ IsFiniteSet(S \ D) /\ IsFiniteSet(D) /\ Cardinality(S) \in Nat
      /\ Cardinality(S \ D) \in Nat /\ Cardinality(D) \in Nat
  BY CountNat
<1>2. (S \ D) \cup D = S /\ (S \ D) \cap D = {}
  OBVIOUS
<1>3. Cardinality(S) = Cardinality(S \ D) + Cardinality(D) - Cardinality({})
  BY <1>1, <1>2, FS_Union
<1> QED BY <1>1, <1>3, FS_EmptySet DEF AtLeast0

LEMMA CountOneMore ==
  ASSUME NEW S, S \subseteq Seqs, NEW i \in Seqs, i \notin S
  PROVE  Cardinality(S \cup {i}) = Cardinality(S) + 1
  BY CountNat, FS_AddElement

LEMMA CountOneLess ==
  ASSUME NEW S, S \subseteq Seqs, NEW i \in S
  PROVE  AtLeast0(Cardinality(S) - 1) = Cardinality(S \ {i})
  BY CountLeft, FS_Singleton

\* Discarding keeps the count of the visible records that have not started.
LEMMA VisibleLeft ==
  ASSUME Counts, NEW D, D \subseteq Unstarted
  PROVE  VisibleAfter(D) = Cardinality(UnstartedVisible \ D)
<1> DEFINE V == {i \in D : Visible(i)}
<1>1. V \subseteq UnstartedVisible /\ UnstartedVisible \ V = UnstartedVisible \ D
  BY DEF UnstartedVisible
<1>2. VisibleAfter(D) = AtLeast0(Cardinality(UnstartedVisible) - Cardinality(V))
  BY DEF VisibleAfter, Counts
<1> HIDE DEF V
<1> QED BY <1>1, <1>2, CountLeft, SetsInSeqs

\* The steps that leave the running records alone.
LEMMA CountsWithoutRunning ==
  ASSUME Counts, NEW D, D \subseteq Unstarted, queuedVisible' = VisibleAfter(D),
         Unstarted' = Unstarted \ D, Running' = Running,
         UNCHANGED <<spec, runVars>>
  PROVE  Counts'
<1>1. /\ UnstartedVisible' = UnstartedVisible \ D
      /\ RunningVisible' = RunningVisible /\ RunningOptional' = RunningOptional
      /\ \A l \in Lanes : RunningIn(l)' = RunningIn(l)
  BY DEF UnstartedVisible, RunningVisible, RunningOptional, RunningIn, Visible
<1> QED BY <1>1, VisibleLeft DEF Counts, runVars

LEMMA SameCounts ==
  ASSUME TypeInv, Counts, Unstarted' = Unstarted, Running' = Running,
         UNCHANGED <<spec, queuedVisible, runVars>>
  PROVE  Counts'
<1>1. /\ UnstartedVisible' = UnstartedVisible
      /\ RunningVisible' = RunningVisible /\ RunningOptional' = RunningOptional
      /\ \A l \in Lanes : RunningIn(l)' = RunningIn(l)
  BY DEF UnstartedVisible, RunningVisible, RunningOptional, RunningIn, Visible
<1> QED BY <1>1 DEF Counts, runVars

LEMMA AfterStateAfter ==
  ASSUME TypeInv, NEW D, D \subseteq Unstarted, state' = StateAfter(D)
  PROVE  Unstarted' = Unstarted \ D /\ Running' = Running
  BY DEF StateAfter, Unstarted, Running, In, UnstartedStates, TypeInv, TypeOK

LEMMA DiscardCounts ==
  ASSUME TypeInv, Counts, NEW D, D \subseteq Unstarted, NEW o, Discard(D, o),
         UNCHANGED <<spec, runVars>>
  PROVE  Counts'
  BY AfterStateAfter, CountsWithoutRunning DEF Discard

LEMMA SubmitCounts == ASSUME TypeInv, Counts, NEW s \in Specs, Submit(s) PROVE Counts'
<1> DEFINE drop == Droppable(Retargeted(s) \cup Previous(s))
<1>1. /\ drop \subseteq Unstarted /\ next \in Seqs
      /\ \E st \in {"queued", "parked_deps"} : state' = [StateAfter(drop) EXCEPT ![next] = st]
      /\ queuedVisible' = VisibleAfter(drop) + (IF s.lane \in VisibleLanes THEN 1 ELSE 0)
      /\ spec' = [spec EXCEPT ![next] = s] /\ UNCHANGED runVars
  <2>1. drop \subseteq Unstarted
    BY DEF Droppable
  <2>2. next \in Seqs
    BY DEF Submit, TypeInv, TypeOK, Seqs
  <2>3. \E st \in {"queued", "parked_deps"} : state' = [StateAfter(drop) EXCEPT ![next] = st]
    BY DEF Submit
  <2> QED BY <2>1, <2>2, <2>3 DEF Submit
<1> HIDE DEF drop
<1>2. state[next] = "new"
  BY <1>1 DEF TypeInv, Admitted, Seqs
<1>3. Unstarted' = (Unstarted \ drop) \cup {next} /\ Running' = Running
      /\ next \notin Unstarted /\ next \notin Running
  <2>1. \A j \in Seqs \ {next} : state'[j] = StateAfter(drop)[j]
    BY <1>1 DEF StateAfter
  <2>2. state'[next] \in UnstartedStates
    BY <1>1 DEF StateAfter, UnstartedStates
  <2>3. next \notin Unstarted /\ next \notin Running
    BY <1>2 DEF Unstarted, Running, In, UnstartedStates
  <2> QED BY <1>1, <2>1, <2>2, <2>3 DEF StateAfter, Unstarted, Running, In, UnstartedStates
<1>4. \A i \in Seqs \ {next} : spec'[i] = spec[i]
  BY <1>1 DEF TypeInv, TypeOK
<1>5. spec'[next] = s
  BY <1>1 DEF TypeInv, TypeOK
<1>6. /\ RunningVisible' = RunningVisible /\ RunningOptional' = RunningOptional
      /\ \A l \in Lanes : RunningIn(l)' = RunningIn(l)
  <2>1. \A i \in Running : spec'[i] = spec[i]
    BY <1>3, <1>4, SetsInSeqs
  <2> QED BY <1>3, <2>1 DEF RunningVisible, RunningOptional, RunningIn, Visible
<1>7. UnstartedVisible' = IF s.lane \in VisibleLanes THEN (UnstartedVisible \ drop) \cup {next}
                          ELSE UnstartedVisible \ drop
  BY <1>3, <1>4, <1>5, SetsInSeqs DEF UnstartedVisible, Visible
<1>8. /\ VisibleAfter(drop) = Cardinality(UnstartedVisible \ drop)
      /\ UnstartedVisible \ drop \subseteq Seqs /\ next \notin UnstartedVisible \ drop
  BY <1>1, <1>3, VisibleLeft, SetsInSeqs DEF UnstartedVisible
<1>9. queuedVisible' = Cardinality(UnstartedVisible')
  <2>1. CASE s.lane \in VisibleLanes
    BY <1>1, <1>7, <1>8, <2>1, CountOneMore
  <2>2. CASE s.lane \notin VisibleLanes
    <3>1. Cardinality(UnstartedVisible \ drop) \in Nat
      BY <1>8, CountNat
    <3> QED BY <1>1, <1>7, <1>8, <2>2, <3>1
  <2> QED BY <2>1, <2>2
<1> QED BY <1>1, <1>6, <1>9 DEF Counts, runVars

LEMMA TakeCounts == ASSUME TypeInv, Counts, NEW i \in Seqs, PopTake(i) PROVE Counts'
<1>1. /\ state[i] = "queued" /\ state' = [state EXCEPT ![i] = "running"] /\ UNCHANGED spec
      /\ queuedVisible' = IF Visible(i) THEN AtLeast0(queuedVisible - 1) ELSE queuedVisible
      /\ runVisible' = IF Visible(i) THEN runVisible + 1 ELSE runVisible
      /\ runOptional' = IF Visible(i) THEN runOptional ELSE runOptional + 1
      /\ runLane' = [runLane EXCEPT ![spec[i].lane] = @ + 1]
  BY DEF PopTake, IsHead, Queued, In, recordVars
<1>2. /\ Unstarted' = Unstarted \ {i} /\ Running' = Running \cup {i}
      /\ i \in Unstarted /\ i \notin Running
  BY <1>1 DEF Unstarted, Running, In, UnstartedStates, TypeInv, TypeOK
<1>3. spec[i].lane \in Lanes
  BY <1>1, SpecsAssumption DEF TypeInv, Admitted
<1>4. queuedVisible' = Cardinality(UnstartedVisible')
  <2>1. UnstartedVisible' = UnstartedVisible \ {i}
    BY <1>1, <1>2 DEF UnstartedVisible, Visible
  <2>2. Visible(i) <=> i \in UnstartedVisible
    BY <1>2 DEF UnstartedVisible
  <2>3. CASE Visible(i)
    BY <1>1, <2>1, <2>2, <2>3, CountOneLess, SetsInSeqs DEF Counts
  <2>4. CASE ~Visible(i)
    <3>1. UnstartedVisible' = UnstartedVisible
      BY <2>1, <2>2, <2>4
    <3> QED BY <1>1, <2>4, <3>1 DEF Counts
  <2> QED BY <2>3, <2>4
<1>5. runVisible' = Cardinality(RunningVisible')
  <2>1. RunningVisible' = IF Visible(i) THEN RunningVisible \cup {i} ELSE RunningVisible
    BY <1>1, <1>2 DEF RunningVisible, Visible
  <2>2. i \notin RunningVisible
    BY <1>2 DEF RunningVisible
  <2> QED BY <1>1, <2>1, <2>2, CountOneMore, SetsInSeqs DEF Counts
<1>6. runOptional' = Cardinality(RunningOptional')
  <2>1. RunningOptional' = IF Visible(i) THEN RunningOptional ELSE RunningOptional \cup {i}
    BY <1>1, <1>2 DEF RunningOptional, Visible
  <2>2. i \notin RunningOptional
    BY <1>2 DEF RunningOptional
  <2> QED BY <1>1, <2>1, <2>2, CountOneMore, SetsInSeqs DEF Counts
<1>7. ASSUME NEW l \in Lanes PROVE runLane'[l] = Cardinality(RunningIn(l)')
  <2>1. RunningIn(l)' = IF l = spec[i].lane THEN RunningIn(l) \cup {i} ELSE RunningIn(l)
    BY <1>1, <1>2 DEF RunningIn
  <2>2. i \notin RunningIn(l)
    BY <1>2 DEF RunningIn
  <2>3. runLane'[l] = IF l = spec[i].lane THEN runLane[l] + 1 ELSE runLane[l]
    BY <1>1, <1>3 DEF TypeInv, TypeOK
  <2> QED BY <2>1, <2>2, <2>3, CountOneMore, SetsInSeqs DEF Counts
<1> QED BY <1>4, <1>5, <1>6, <1>7 DEF Counts

LEMMA FinishCounts ==
  ASSUME TypeInv, Counts, NEW i \in Seqs, NEW report \in Outcomes, Finish(i, report)
  PROVE  Counts'
<1> DEFINE o == IF report = "completed" /\ Stale(i) THEN "stale" ELSE report
           lost == IF o = "completed" THEN {} ELSE Dependents(spec[i].key)
<1>1. /\ lost \subseteq ParkedDeps /\ state[i] = "running" /\ UNCHANGED spec
      /\ queuedVisible' = VisibleAfter(lost)
      /\ runVisible' = IF Visible(i) THEN AtLeast0(runVisible - 1) ELSE runVisible
      /\ runOptional' = IF Visible(i) THEN runOptional ELSE AtLeast0(runOptional - 1)
      /\ runLane' = [runLane EXCEPT ![spec[i].lane] = AtLeast0(@ - 1)]
  BY DEF Finish, Dependents, Running, In
<1>2. PICK promoted \in SUBSET ParkedDeps :
        state' = Released([j \in Seqs |-> IF j = i \/ j \in lost THEN "done"
                                          ELSE IF j \in promoted THEN "queued"
                                          ELSE state[j]])
  BY DEF Finish, Promoted
<1> HIDE DEF o, lost
<1>3. /\ lost \subseteq Unstarted /\ Unstarted' = Unstarted \ lost
      /\ Running' = Running \ {i} /\ i \in Running
  BY <1>1, <1>2 DEF Released, ParkedDeps, Unstarted, Running, In, UnstartedStates
<1>4. queuedVisible' = Cardinality(UnstartedVisible')
  <2>1. UnstartedVisible' = UnstartedVisible \ lost
    BY <1>1, <1>3 DEF UnstartedVisible, Visible
  <2> QED BY <1>1, <1>3, <2>1, VisibleLeft
<1>5. runVisible' = Cardinality(RunningVisible')
  <2>1. RunningVisible' = IF Visible(i) THEN RunningVisible \ {i} ELSE RunningVisible
    BY <1>1, <1>3 DEF RunningVisible, Visible
  <2>2. Visible(i) => i \in RunningVisible
    BY <1>3 DEF RunningVisible
  <2> QED BY <1>1, <2>1, <2>2, CountOneLess, SetsInSeqs DEF Counts
<1>6. runOptional' = Cardinality(RunningOptional')
  <2>1. RunningOptional' = IF Visible(i) THEN RunningOptional ELSE RunningOptional \ {i}
    BY <1>1, <1>3 DEF RunningOptional, Visible
  <2>2. ~Visible(i) => i \in RunningOptional
    BY <1>3 DEF RunningOptional
  <2> QED BY <1>1, <2>1, <2>2, CountOneLess, SetsInSeqs DEF Counts
<1>7. ASSUME NEW l \in Lanes PROVE runLane'[l] = Cardinality(RunningIn(l)')
  <2>1. RunningIn(l)' = IF l = spec[i].lane THEN RunningIn(l) \ {i} ELSE RunningIn(l)
    BY <1>1, <1>3 DEF RunningIn
  <2>2. l = spec[i].lane => i \in RunningIn(l)
    BY <1>3 DEF RunningIn
  <2>3. runLane'[l] = IF l = spec[i].lane THEN AtLeast0(runLane[l] - 1) ELSE runLane[l]
    BY <1>1 DEF TypeInv, TypeOK
  <2> QED BY <2>1, <2>2, <2>3, CountOneLess, SetsInSeqs DEF Counts
<1> QED BY <1>4, <1>5, <1>6, <1>7 DEF Counts

LEMMA NextCounts == TypeInv /\ Counts /\ [Next]_vars => Counts'
<1> SUFFICES ASSUME TypeInv, Counts, [Next]_vars PROVE Counts'
  OBVIOUS
<1>1. ASSUME UNCHANGED <<state, spec, queuedVisible, runVars>> PROVE Counts'
  BY <1>1, SameCounts DEF Unstarted, Running, In
<1>2. ASSUME NEW i \in Seqs, CancelHandle(i) PROVE Counts'
  <2>1. CASE i \in Unstarted
    BY <1>2, <2>1, DiscardCounts DEF CancelHandle
  <2>2. CASE i \notin Unstarted
    BY <1>1, <1>2, <2>2 DEF CancelHandle
  <2> QED BY <2>1, <2>2
<1>3. ASSUME NEW c \in Clearable, ClearScope(c) PROVE Counts'
  <2>1. PICK D \in SUBSET Unstarted : Discard(D, "dropped")
    BY <1>3 DEF ClearScope, Droppable
  <2> QED BY <1>3, <2>1, DiscardCounts DEF ClearScope
<1>4. ASSUME NEW q \in Quotas, SetLaneQuota(q[1], q[2]) PROVE Counts'
  <2>1. UNCHANGED <<spec, queuedVisible, runVars>>
    BY <1>4 DEF SetLaneQuota, recordVars
  <2>2. Unstarted' = Unstarted /\ Running' = Running
    BY <1>4 DEF SetLaneQuota, Released, Unstarted, Running, In, UnstartedStates
  <2> QED BY <2>1, <2>2, SameCounts
<1>5. CASE Shutdown
  <2>1. /\ queuedVisible' = VisibleAfter(Unstarted) /\ UNCHANGED <<spec, runVars>>
        /\ state' = [i \in Seqs |-> IF i \in Unstarted THEN "done" ELSE state[i]]
    BY <1>5 DEF Shutdown
  <2>2. Unstarted' = Unstarted \ Unstarted /\ Running' = Running
    BY <2>1 DEF Unstarted, Running, In, UnstartedStates
  <2> QED BY <2>1, <2>2, CountsWithoutRunning
<1>6. CASE Pop
  <2>1. PICK i \in Seqs : PopDiscard(i) \/ PopPark(i) \/ PopTake(i)
    BY <1>6 DEF Pop
  <2>2. state[i] = "queued" /\ {i} \subseteq Unstarted
    BY <2>1 DEF PopDiscard, PopPark, PopTake, IsHead, Queued, Unstarted, In, UnstartedStates
  <2>3. CASE PopDiscard(i)
    <3>1. PICK o \in {"cancelled", "dropped"} : Discard({i}, o)
      BY <2>3 DEF PopDiscard
    <3> QED BY <2>2, <2>3, <3>1, DiscardCounts DEF PopDiscard
  <2>4. CASE PopPark(i)
    <3>1. UNCHANGED <<spec, queuedVisible, runVars>>
      BY <2>4 DEF PopPark, recordVars
    <3>2. Unstarted' = Unstarted /\ Running' = Running
      BY <2>2, <2>4 DEF PopPark, Unstarted, Running, In, UnstartedStates, TypeInv, TypeOK
    <3> QED BY <3>1, <3>2, SameCounts
  <2>5. CASE PopTake(i)
    BY <2>5, TakeCounts
  <2> QED BY <2>1, <2>3, <2>4, <2>5
<1>7. CASE \/ \E T \in SUBSET Tiles : \E ranks \in [T -> Ranks] : T # {} /\ Rerank(ranks)
           \/ \E k \in InlineKeys : InlineWork(k)
           \/ \E i \in Seqs : Execute(i)
           \/ \E i \in Seqs : Dispatch(i)
  BY <1>1, <1>7 DEF Rerank, InlineWork, Execute, Dispatch, recordVars
<1>8. CASE UNCHANGED vars
  BY <1>1, <1>8 DEF vars, runVars
<1>9. CASE Next
  BY <1>2, <1>3, <1>4, <1>5, <1>6, <1>7, <1>9, SubmitCounts, FinishCounts DEF Next
<1> QED BY <1>8, <1>9

LEMMA AlwaysCounts == Spec => [](TypeInv /\ Counts)
<1>1. Init => Counts
  <2> SUFFICES ASSUME Init PROVE Counts
    OBVIOUS
  <2>1. Unstarted = {} /\ Running = {}
    BY DEF Init, Unstarted, Running, In, UnstartedStates
  <2>2. /\ UnstartedVisible = {} /\ RunningVisible = {} /\ RunningOptional = {}
        /\ \A l \in Lanes : RunningIn(l) = {}
    BY <2>1 DEF UnstartedVisible, RunningVisible, RunningOptional, RunningIn
  <2> QED BY <2>2, FS_EmptySet DEF Init, Counts
<1> QED BY <1>1, AlwaysTypeInv, NextCounts, PTL DEF Spec

\* What the kernel's counters say of a task is what its records say.
LEMMA BlockedIsReal ==
  ASSUME TypeInv, Counts, NEW i \in Seqs, state[i] # "new"
  PROVE  Blocked(i) <=> ReallyBlocked(i)
<1>1. spec[i].lane \in Lanes
  BY SpecsAssumption DEF TypeInv, Admitted
<1>2. runLane[spec[i].lane] = Cardinality(RunningIn(spec[i].lane))
  BY <1>1 DEF Counts
<1>3. runOptional = Cardinality(RunningOptional)
  BY DEF Counts
<1>4. VisibleWork # {} <=> queuedVisible + runVisible > 0
  <2>1. VisibleWork = UnstartedVisible \cup RunningVisible
    BY DEF VisibleWork, Live, UnstartedVisible, RunningVisible
  <2>2. /\ queuedVisible \in Nat /\ runVisible \in Nat
        /\ queuedVisible = 0 <=> UnstartedVisible = {}
        /\ runVisible = 0 <=> RunningVisible = {}
    BY SetsInSeqs, CountNat, FS_EmptySet DEF Counts
  <2> QED BY <2>1, <2>2
<1> QED BY <1>2, <1>3, <1>4 DEF Blocked, LaneBlocked, OptionalBlocked, ReallyBlocked

\* What starts is the head of the heap, and not blocked.
LEMMA OnlyHeadsStart ==
  ASSUME TypeInv, [Next]_vars, NEW i \in Seqs, Starts(i)
  PROVE  PopTake(i)
<1>1. state[i] = "queued" /\ state'[i] = "running"
  BY DEF Starts
<1>2. Next
  BY <1>1 DEF vars
<1>3. ASSUME NEW D, state' = StateAfter(D) PROVE FALSE
  BY <1>1, <1>3 DEF StateAfter
<1>4. ASSUME NEW s \in Specs, Submit(s) PROVE FALSE
  <2>1. i # next /\ next \in Seqs
    BY <1>1, <1>4 DEF Submit, TypeInv, TypeOK, Admitted, Seqs
  <2> QED BY <1>1, <1>4, <2>1 DEF Submit, StateAfter
<1>5. ASSUME NEW j \in Seqs, CancelHandle(j) PROVE FALSE
  <2>1. CASE j \in Unstarted
    BY <1>3, <1>5, <2>1 DEF CancelHandle, Discard
  <2>2. CASE j \notin Unstarted
    BY <1>1, <1>5, <2>2 DEF CancelHandle
  <2> QED BY <2>1, <2>2
<1>6. ASSUME NEW c \in Clearable, ClearScope(c) PROVE FALSE
  BY <1>3, <1>6 DEF ClearScope, Discard
<1>7. ASSUME NEW j \in Seqs, NEW r \in Outcomes, Finish(j, r) PROVE FALSE
  BY <1>1, <1>7 DEF Finish, Released
<1>8. ASSUME NEW q \in Quotas, SetLaneQuota(q[1], q[2]) PROVE FALSE
  BY <1>1, <1>8 DEF SetLaneQuota, Released
<1>9. ASSUME Shutdown PROVE FALSE
  BY <1>1, <1>9 DEF Shutdown
<1>10. ASSUME Pop PROVE PopTake(i)
  <2>1. PICK j \in Seqs : PopDiscard(j) \/ PopPark(j) \/ PopTake(j)
    BY <1>10 DEF Pop
  <2>2. ~PopDiscard(j)
    BY <1>3 DEF PopDiscard, Discard
  <2>3. ~PopPark(j)
    BY <1>1 DEF PopPark, TypeInv, TypeOK
  <2>4. j = i
    BY <1>1, <2>1, <2>2, <2>3 DEF PopTake, TypeInv, TypeOK
  <2> QED BY <2>1, <2>2, <2>3, <2>4
<1>11. \/ Pop
       \/ state' = state
  BY <1>2, <1>4, <1>5, <1>6, <1>7, <1>8, <1>9
     DEF Next, Rerank, InlineWork, Execute, Dispatch
<1> QED BY <1>1, <1>10, <1>11

\* Lane quotas and the speculative share hold of the running records.
THEOREM LimitsHold == Spec => AdmissionIsRespected
<1>1. TypeInv /\ Counts /\ [Next]_vars => [\A i \in Seqs : Starts(i) => ~ReallyBlocked(i)]_vars
  <2> SUFFICES ASSUME TypeInv, Counts, [Next]_vars, NEW i \in Seqs, Starts(i)
               PROVE  ~ReallyBlocked(i)
    OBVIOUS
  <2>1. PopTake(i)
    BY OnlyHeadsStart
  <2>2. ~Blocked(i) /\ state[i] # "new"
    BY <2>1 DEF PopTake, Starts
  <2> QED BY <2>2, BlockedIsReal
<1> QED BY <1>1, AlwaysCounts, PTL DEF Spec, AdmissionIsRespected

\* The heap order is an order.
LEMMA NotBothAhead ==
  ASSUME TypeInv, NEW i \in Seqs, NEW j \in Seqs, state[i] # "new", state[j] # "new",
         Ahead(i, j), Ahead(j, i)
  PROVE  FALSE
<1> DEFINE a == HeapEntry(i)
           b == HeapEntry(j)
<1>1. \A n \in 1..6 : a[n] \in Nat /\ b[n] \in Nat
  <2>1. /\ spec[i].priority \in Nat /\ spec[i].deadline \in Nat
        /\ spec[j].priority \in Nat /\ spec[j].deadline \in Nat
        /\ rank[i] \in Nat /\ rank[j] \in Nat /\ i \in Nat /\ j \in Nat
    <3>1. spec[i] \in Specs /\ spec[j] \in Specs
      BY DEF TypeInv, Admitted
    <3>2. rank[i] \in Nat /\ rank[j] \in Nat
      BY DEF TypeInv, TypeOK
    <3>3. i \in Nat /\ j \in Nat
      BY BoundsAssumption DEF Seqs
    <3> QED BY <3>1, <3>2, <3>3, SpecsAssumption
  <2>2. /\ a[1] \in Nat /\ a[2] \in Nat /\ a[3] \in Nat
        /\ a[4] \in Nat /\ a[5] \in Nat /\ a[6] \in Nat
    BY <2>1 DEF HeapEntry
  <2>3. /\ b[1] \in Nat /\ b[2] \in Nat /\ b[3] \in Nat
        /\ b[4] \in Nat /\ b[5] \in Nat /\ b[6] \in Nat
    BY <2>1 DEF HeapEntry
  <2> HIDE DEF a, b
  <2>4. \A n \in 1..6 : n = 1 \/ n = 2 \/ n = 3 \/ n = 4 \/ n = 5 \/ n = 6
    OBVIOUS
  <2> QED BY <2>2, <2>3, <2>4
<1>2. PICK n \in 1..6 : a[n] < b[n] /\ \A m \in 1..(n - 1) : a[m] = b[m]
  BY DEF Ahead
<1>3. PICK p \in 1..6 : b[p] < a[p] /\ \A m \in 1..(p - 1) : b[m] = a[m]
  BY DEF Ahead
<1> HIDE DEF a, b
<1>4. n < p => n \in 1..(p - 1)
  OBVIOUS
<1>5. p < n => p \in 1..(n - 1)
  OBVIOUS
<1> QED BY <1>1, <1>2, <1>3, <1>4, <1>5

\* Nothing overtakes a ready task: what sorts before a starting one is waiting
\* for a dependency or held by a limit the records bear out.
THEOREM NothingOvertakes == Spec => NoInversion
<1>1. TypeInv /\ Counts /\ ParkedForAReason /\ [Next]_vars =>
        [\A i, j \in Seqs : Starts(i) /\ j \in Unstarted \ {i} /\ Ahead(j, i)
            => state[j] = "parked_deps" \/ ReallyBlocked(j)]_vars
  <2> SUFFICES ASSUME TypeInv, Counts, ParkedForAReason, [Next]_vars,
                      NEW i \in Seqs, NEW j \in Seqs,
                      Starts(i), j \in Unstarted \ {i}, Ahead(j, i)
               PROVE  state[j] = "parked_deps" \/ ReallyBlocked(j)
    OBVIOUS
  <2>1. PopTake(i)
    BY OnlyHeadsStart
  <2>2. state[i] # "new" /\ state[j] # "new" /\ state[j] \in UnstartedStates
    BY DEF Starts, Unstarted, In, UnstartedStates
  <2>3. state[j] # "queued"
    <3> SUFFICES ASSUME state[j] = "queued" PROVE FALSE
      OBVIOUS
    <3>1. Ahead(i, j)
      BY <2>1 DEF PopTake, IsHead, Queued, In
    <3> QED BY <2>2, <3>1, NotBothAhead
  <2>4. CASE state[j] = "parked_quota"
    BY <2>2, <2>4, BlockedIsReal DEF ParkedForAReason
  <2> QED BY <2>2, <2>3, <2>4 DEF UnstartedStates
<1> QED BY <1>1, AlwaysCounts, NoLostWakeup, PTL DEF Spec, NoInversion
=============================================================================
