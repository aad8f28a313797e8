--------------------------- MODULE KernelStaleness ---------------------------
(***************************************************************************)
(* Theorems about staleness: the key index, what may still start, what is  *)
(* cancelled, which result reaches its handlers, and which results satisfy *)
(* dependencies.                                                           *)
(***************************************************************************)
EXTENDS KernelProofs

\* A task that was not admitted yet carries no mark.
NewAreClean == \A i \in Seqs : state[i] = "new" => ~token[i] /\ ~superseded[i]

\* _supersession holds the value each family was last submitted with.
FamilyIsLatest ==
    \A i \in Seqs : i < next /\ spec[i].family \in Families =>
        \/ family[spec[i].family] = spec[i].value
        \/ \E j \in Seqs : i < j /\ j < next /\ spec[j].family = spec[i].family

Currency ==
    /\ KeyIndex
    /\ UnstartedAreCurrent
    /\ StaleRunningIsCancelled
    /\ NewAreClean
    /\ FamilyIsLatest

LEMMA InitCurrency == Init => Currency
  BY DEF Init, Currency, KeyIndex, UnstartedAreCurrent, StaleRunningIsCancelled, NewAreClean,
         FamilyIsLatest, Live, Unstarted, Running, In, UnstartedStates, Seqs

\* After a discard the live records are the live ones that were not discarded.
LEMMA AfterDiscard ==
  ASSUME TypeInv, NEW D, D \subseteq Unstarted, state' = StateAfter(D)
  PROVE  /\ Unstarted' = Unstarted \ D
         /\ Running' = Running
         /\ Live' = Live \ D
         /\ \A i \in Seqs : state'[i] = "new" <=> state[i] = "new"
  BY DEF StateAfter, Live, Unstarted, Running, In, UnstartedStates, TypeInv, TypeOK

LEMMA KeysFollow ==
  ASSUME TypeInv, KeyIndex, NEW D, D \subseteq Live, Live' = Live \ D,
         byKey' = KeysAfter(D), UNCHANGED <<spec, superseded>>
  PROVE  KeyIndex'
<1>1. ASSUME NEW k \in Keys, byKey'[k] # 0
      PROVE  byKey'[k] \in Live' /\ spec'[byKey'[k]].key = k /\ ~superseded'[byKey'[k]]
  BY <1>1 DEF KeyIndex, KeysAfter
<1>2. ASSUME NEW i \in Live' PROVE superseded'[i] \/ byKey'[spec'[i].key] = i
  <2>1. i \in Live /\ i \notin D /\ spec[i].key \in Keys
    BY <1>2, SpecsAssumption DEF Live, Unstarted, Running, In, UnstartedStates, TypeInv, Admitted
  <2> QED BY <2>1 DEF KeyIndex, KeysAfter
<1> QED BY <1>1, <1>2 DEF KeyIndex

LEMMA AfterDiscardKeys ==
  ASSUME TypeInv, KeyIndex, NEW D, D \subseteq Unstarted, state' = StateAfter(D),
         byKey' = KeysAfter(D), UNCHANGED <<spec, superseded>>
  PROVE  KeyIndex'
<1>1. Live' = Live \ D /\ D \subseteq Live
  BY AfterDiscard DEF Live
<1> QED BY <1>1, KeysFollow

\* Steps that start, finish or move no record and change no mark.
LEMMA SameRecords ==
  ASSUME Currency,
         UNCHANGED <<next, spec, token, superseded, snap, byKey, family, scopeEpoch, shutting>>,
         Unstarted' = Unstarted, Running' = Running,
         \A i \in Seqs : state'[i] = "new" <=> state[i] = "new"
  PROVE  Currency'
<1>1. Live' = Live
  BY DEF Live
<1>2. \A i \in Seqs : /\ Stale(i)' <=> Stale(i)
                      /\ OffTarget(i)' <=> OffTarget(i)
                      /\ ScopeCleared(i)' <=> ScopeCleared(i)
  BY DEF Stale, OffTarget, ScopeCleared
<1>3. Unstarted \subseteq Seqs /\ Running \subseteq Seqs
  BY DEF Unstarted, Running, In
<1> QED BY <1>1, <1>2, <1>3
        DEF Currency, KeyIndex, UnstartedAreCurrent, StaleRunningIsCancelled, NewAreClean,
            FamilyIsLatest

\* Steps that only discard; a running record may get its token cancelled.
LEMMA DiscardCurrency ==
  ASSUME TypeInv, Currency, NEW D, D \subseteq Unstarted, NEW o, Discard(D, o),
         UNCHANGED <<next, spec, superseded, snap, family, scopeEpoch, shutting>>,
         \A i \in Seqs : token[i] => token'[i],
         \A i \in Seqs : token'[i] => token[i] \/ i \in Running \cup D
  PROVE  Currency'
<1>1. /\ Unstarted' = Unstarted \ D /\ Running' = Running
      /\ \A i \in Seqs : state'[i] = "new" <=> state[i] = "new"
  BY AfterDiscard DEF Discard
<1>2. \A i \in Seqs : /\ Stale(i)' <=> Stale(i)
                      /\ OffTarget(i)' <=> OffTarget(i)
                      /\ ScopeCleared(i)' <=> ScopeCleared(i)
  BY DEF Stale, OffTarget, ScopeCleared
<1>3. KeyIndex'
  BY AfterDiscardKeys DEF Discard, Currency
<1>4. Unstarted \subseteq Seqs /\ Running \subseteq Seqs /\ Unstarted \cap Running = {}
  BY DEF Unstarted, Running, In, UnstartedStates
<1>5. UnstartedAreCurrent'
  BY <1>1, <1>2, <1>4 DEF Currency, UnstartedAreCurrent
<1>6. StaleRunningIsCancelled'
  BY <1>1, <1>2, <1>4 DEF Currency, StaleRunningIsCancelled
<1>7. NewAreClean'
  BY <1>1, <1>4 DEF Currency, NewAreClean, Unstarted, Running, In, UnstartedStates
<1>8. FamilyIsLatest'
  BY DEF Currency, FamilyIsLatest
<1> QED BY <1>3, <1>5, <1>6, <1>7, <1>8 DEF Currency

LEMMA CancelCurrency ==
  ASSUME TypeInv, Currency, NEW i \in Seqs, CancelHandle(i) PROVE Currency'
<1>1. /\ UNCHANGED <<next, spec, superseded, snap, family, scopeEpoch, shutting>>
      /\ token' = [token EXCEPT ![i] = TRUE] /\ i \in Live
  BY DEF CancelHandle, scopeVars
<1>2. \A j \in Seqs : /\ token[j] => token'[j]
                      /\ token'[j] => token[j] \/ j = i
  BY <1>1 DEF TypeInv, TypeOK
<1>3. CASE i \in Unstarted
  BY <1>1, <1>2, <1>3, DiscardCurrency DEF CancelHandle
<1>4. CASE i \notin Unstarted
  <2>1. UNCHANGED <<state, byKey>>
    BY <1>4 DEF CancelHandle
  <2>2. \A j \in Seqs : /\ Stale(j)' <=> Stale(j)
                        /\ OffTarget(j)' <=> OffTarget(j)
                        /\ ScopeCleared(j)' <=> ScopeCleared(j)
    BY <1>1 DEF Stale, OffTarget, ScopeCleared
  <2>3. /\ Unstarted' = Unstarted /\ Running' = Running /\ Live' = Live /\ i \in Running
        /\ Unstarted \subseteq Seqs /\ Running \subseteq Seqs
    BY <1>1, <1>4, <2>1 DEF Unstarted, Running, Live, In
  <2>4. UnstartedAreCurrent' /\ StaleRunningIsCancelled'
    BY <1>1, <1>2, <1>4, <2>2, <2>3 DEF Currency, UnstartedAreCurrent, StaleRunningIsCancelled
  <2>5. NewAreClean'
    BY <1>1, <1>2, <2>1, <2>3 DEF Currency, NewAreClean, Running, In
  <2>6. KeyIndex' /\ FamilyIsLatest'
    BY <1>1, <2>1, <2>3 DEF Currency, KeyIndex, FamilyIsLatest
  <2> QED BY <2>4, <2>5, <2>6 DEF Currency
<1> QED BY <1>3, <1>4

LEMMA ClearCurrency ==
  ASSUME TypeInv, Currency, NEW c \in Clearable, ClearScope(c) PROVE Currency'
<1> DEFINE gone(i) == c \in Ancestors[spec[i].scope] \/ Stale(i)
           D == Droppable({i \in Live : gone(i)})
<1>1. /\ D \subseteq Unstarted /\ D = {i \in Unstarted : gone(i)}
      /\ Unstarted \subseteq Seqs /\ Running \subseteq Seqs
      /\ Unstarted \cap Running = {}
  BY DEF Droppable, Live, Unstarted, Running, In, UnstartedStates
<1>2. /\ Discard(D, "dropped")
      /\ token' = [i \in Seqs |-> token[i] \/ (i \in {j \in Running : gone(j)} /\ ~spec[i].reusable)]
      /\ scopeEpoch' = [scopeEpoch EXCEPT ![c] = epoch + 1]
      /\ UNCHANGED <<next, spec, superseded, snap, family, shutting>>
  BY DEF ClearScope, CancelRunning
<1>3. /\ Unstarted' = Unstarted \ D /\ Running' = Running
      /\ \A i \in Seqs : state'[i] = "new" <=> state[i] = "new"
  BY <1>1, <1>2, AfterDiscard DEF Discard
<1>4. /\ \A i \in Seqs : OffTarget(i)' <=> OffTarget(i)
      /\ \A i \in Seqs : c \notin Ancestors[spec[i].scope] =>
            (ScopeCleared(i)' <=> \E a \in Ancestors[spec[i].scope] : scopeEpoch'[a] > snap[i][a])
  BY <1>2 DEF OffTarget, ScopeCleared
<1>4a. ASSUME NEW i \in Unstarted \cup Running, c \notin Ancestors[spec[i].scope]
       PROVE  Stale(i)' <=> Stale(i)
  <2>1. spec[i] \in Specs
    BY <1>4a DEF TypeInv, TypeOK, Admitted, Unstarted, Running, In, UnstartedStates
  <2>2. \A a \in Ancestors[spec[i].scope] : scopeEpoch'[a] = scopeEpoch[a]
    BY <1>2, <1>4a, <2>1, SpecsAssumption, SetsAssumption DEF TypeInv, TypeOK
  <2>3. ScopeCleared(i)' <=> ScopeCleared(i)
    BY <1>1, <1>4, <1>4a, <2>2 DEF ScopeCleared
  <2> QED BY <1>1, <1>2, <1>4, <2>3 DEF Stale
<1>5. \A i \in (Unstarted \cup Running) :
         /\ c \notin Ancestors[spec[i].scope] => (Stale(i)' <=> Stale(i))
         /\ Stale(i)' <=> shutting \/ superseded[i] \/ OffTarget(i) \/ ScopeCleared(i)'
  BY <1>1, <1>2, <1>4, <1>4a DEF Stale
<1>6. KeyIndex'
  BY <1>1, <1>2, AfterDiscardKeys DEF Discard, Currency
<1>7. UnstartedAreCurrent'
  <2>1. ASSUME NEW i \in Unstarted, i \notin D
        PROVE  ~Stale(i)' /\ ~token'[i]
    BY <1>1, <1>2, <1>5, <2>1 DEF Currency, UnstartedAreCurrent
  <2> QED BY <1>3, <2>1 DEF UnstartedAreCurrent, Stale
<1>8. StaleRunningIsCancelled'
  BY <1>1, <1>2, <1>3, <1>5 DEF Currency, StaleRunningIsCancelled
<1>9. NewAreClean'
  BY <1>1, <1>2, <1>3 DEF Currency, NewAreClean, Running, In
<1>10. FamilyIsLatest'
  BY <1>2 DEF Currency, FamilyIsLatest
<1> QED BY <1>6, <1>7, <1>8, <1>9, <1>10 DEF Currency

LEMMA ShutdownCurrency == ASSUME TypeInv, Currency, Shutdown PROVE Currency'
<1>1. /\ state' = [i \in Seqs |-> IF i \in Unstarted THEN "done" ELSE state[i]]
      /\ token' = [i \in Seqs |-> token[i] \/ i \in Live]
      /\ byKey' = KeysAfter(Unstarted)
      /\ UNCHANGED <<next, spec, superseded, snap, family>>
  BY DEF Shutdown
<1>2. /\ Unstarted' = {} /\ Running' = Running /\ Live' = Running
      /\ \A i \in Seqs : state'[i] = "new" <=> state[i] = "new"
      /\ Running \subseteq Seqs /\ Running \subseteq Live /\ Unstarted \subseteq Live
      /\ Live \ Unstarted = Running
  BY <1>1 DEF Unstarted, Running, Live, In, UnstartedStates
<1>3. KeyIndex'
  <2>1. ASSUME NEW k \in Keys, byKey'[k] # 0
        PROVE  byKey'[k] \in Live' /\ spec'[byKey'[k]].key = k /\ ~superseded'[byKey'[k]]
    BY <1>1, <1>2, <2>1 DEF Currency, KeyIndex, KeysAfter
  <2>2. ASSUME NEW i \in Live' PROVE superseded'[i] \/ byKey'[spec'[i].key] = i
    <3>1. i \in Running /\ i \notin Unstarted /\ spec[i].key \in Keys
      BY <1>2, <2>2, SpecsAssumption DEF Unstarted, Running, In, UnstartedStates, TypeInv, Admitted
    <3> QED BY <1>1, <1>2, <3>1 DEF Currency, KeyIndex, KeysAfter
  <2> QED BY <2>1, <2>2 DEF KeyIndex
<1>4. UnstartedAreCurrent' /\ StaleRunningIsCancelled'
  BY <1>1, <1>2 DEF UnstartedAreCurrent, StaleRunningIsCancelled
<1>5. NewAreClean'
  BY <1>1, <1>2 DEF Currency, NewAreClean, Live, Unstarted, Running, In, UnstartedStates
<1>6. FamilyIsLatest'
  BY <1>1 DEF Currency, FamilyIsLatest
<1> QED BY <1>3, <1>4, <1>5, <1>6 DEF Currency

LEMMA SubmitCurrency ==
  ASSUME TypeInv, Currency, NEW s \in Specs, Submit(s) PROVE Currency'
<1> DEFINE hit == Retargeted(s) \cup Previous(s)
           drop == Droppable(hit)
<1>1. /\ next \in Seqs /\ next' = next + 1
      /\ spec' = [spec EXCEPT ![next] = s]
      /\ superseded' = [j \in Seqs |-> superseded[j] \/ j \in Previous(s)]
      /\ family' = IF s.family \in Families THEN [family EXCEPT ![s.family] = s.value] ELSE family
      /\ token' = [j \in Seqs |-> token[j] \/ (j \in hit \cap Running /\ ~spec[j].reusable)]
      /\ byKey' = [KeysAfter(drop) EXCEPT ![s.key] = next]
      /\ UNCHANGED <<scopeEpoch, shutting>> /\ ~shutting
  BY DEF Submit, TypeInv, TypeOK, Seqs, CancelRunning, scopeVars
<1>2. snap' = [snap EXCEPT ![next] =
                 [c \in Scopes |-> IF c \in Ancestors[s.scope] THEN scopeEpoch[c] ELSE 0]]
  BY DEF Submit
<1>3. \E st \in {"queued", "parked_deps"} : state' = [StateAfter(drop) EXCEPT ![next] = st]
  BY DEF Submit
<1>4. /\ drop \subseteq Unstarted /\ drop \subseteq Live
      /\ Unstarted \subseteq Seqs /\ Running \subseteq Seqs /\ Live \subseteq Seqs
      /\ Unstarted \cap Running = {} /\ Live = Unstarted \cup Running
      /\ Live \cap hit \cap Unstarted \subseteq drop
  BY DEF Droppable, Live, Unstarted, Running, In, UnstartedStates
<1>5. state[next] = "new" /\ ~token[next] /\ ~superseded[next] /\ next \notin Live
  BY <1>1 DEF TypeInv, TypeOK, Admitted, Currency, NewAreClean, Live, Unstarted, Running, In,
              UnstartedStates
<1>6. /\ Unstarted' = (Unstarted \ drop) \cup {next} /\ Running' = Running
      /\ Live' = (Live \ drop) \cup {next}
      /\ \A j \in Seqs : state'[j] = "new" <=> state[j] = "new" /\ j # next
  <2>1. PICK st \in {"queued", "parked_deps"} : state' = [StateAfter(drop) EXCEPT ![next] = st]
    BY <1>3
  <2> HIDE DEF drop
  <2>2. /\ state'[next] = st
        /\ \A j \in Seqs \ {next} : state'[j] = StateAfter(drop)[j]
    BY <1>1, <2>1 DEF StateAfter
  <2>3. \A j \in Seqs : StateAfter(drop)[j] = IF j \in drop THEN "done"
                          ELSE IF state[j] = "parked_quota" /\ WakeEdge(drop) THEN "queued"
                          ELSE state[j]
    BY DEF StateAfter
  <2>4. \A j \in Seqs : state[j] \in States
    BY DEF TypeInv, TypeOK
  <2>5. Unstarted' = (Unstarted \ drop) \cup {next}
    BY <1>1, <1>4, <1>5, <2>2, <2>3, <2>4 DEF Unstarted, In, UnstartedStates
  <2>6. Running' = Running
    BY <1>1, <1>4, <1>5, <2>2, <2>3, <2>4 DEF Unstarted, Running, In, UnstartedStates
  <2>7. \A j \in Seqs : state'[j] = "new" <=> state[j] = "new" /\ j # next
    BY <1>1, <1>4, <1>5, <2>2, <2>3, <2>4 DEF Unstarted, In, UnstartedStates
  <2> QED BY <1>4, <2>5, <2>6, <2>7 DEF Live
<1>7. \A j \in Live : j # next /\ spec'[j] = spec[j] /\ snap'[j] = snap[j] /\ spec[j] \in Specs
  BY <1>1, <1>2, <1>4, <1>5 DEF TypeInv, TypeOK, Admitted, Live, Unstarted, Running, In, UnstartedStates
<1>8. \A j \in Live : ScopeCleared(j)' <=> ScopeCleared(j)
  BY <1>1, <1>7 DEF ScopeCleared
<1>9. \A j \in Live : OffTarget(j)' => OffTarget(j) \/ j \in Retargeted(s)
  BY <1>1, <1>7 DEF OffTarget, Retargeted, TypeInv, TypeOK
<1>10. spec'[next] = s /\ ~superseded'[next] /\ ~token'[next]
  BY <1>1, <1>4, <1>5 DEF Previous, TypeInv, TypeOK
<1>11. ASSUME NEW i \in Seqs, i = next PROVE ~OffTarget(i)' /\ ~ScopeCleared(i)'
  <2>1. ~OffTarget(i)'
    <3>1. s.family \in Families => family'[s.family] = s.value
      BY <1>1 DEF TypeInv, TypeOK
    <3> QED BY <1>10, <1>11, <3>1 DEF OffTarget
  <2>2. \A c \in Ancestors[s.scope] : c \in Scopes /\ scopeEpoch[c] \in Nat
    BY SpecsAssumption, SetsAssumption DEF TypeInv, TypeOK
  <2>3. \A c \in Ancestors[s.scope] : snap'[i][c] = scopeEpoch'[c]
    BY <1>1, <1>2, <1>11, <2>2 DEF TypeInv, TypeOK
  <2>4. \A c \in Ancestors[s.scope] : ~(scopeEpoch'[c] > snap'[i][c])
    BY <1>1, <2>2, <2>3
  <2>5. ~ScopeCleared(i)'
    BY <1>10, <1>11, <2>4 DEF ScopeCleared
  <2> QED BY <2>1, <2>5
<1>12. KeyIndex'
  <2>1. ASSUME NEW k \in Keys, byKey'[k] # 0
        PROVE  byKey'[k] \in Live' /\ spec'[byKey'[k]].key = k /\ ~superseded'[byKey'[k]]
    <3>1. CASE k = s.key
      BY <1>1, <1>6, <1>10, <2>1, <3>1 DEF KeysAfter
    <3>2. CASE k # s.key
      <4>1. /\ byKey'[k] = byKey[k] /\ byKey[k] \in Live /\ byKey[k] \notin drop
            /\ spec[byKey[k]].key = k /\ ~superseded[byKey[k]]
        BY <1>1, <2>1, <3>2 DEF KeysAfter, Currency, KeyIndex
      <4>2. byKey[k] \notin Previous(s)
        <5>1. \A j \in Previous(s) : j = byKey[s.key] /\ j \in Live
          BY DEF Previous
        <5>2. s.key \in Keys
          BY SpecsAssumption
        <5>3. 0 \notin Live
          BY <1>4 DEF Seqs
        <5> QED BY <3>2, <4>1, <5>1, <5>2, <5>3 DEF Currency, KeyIndex
      <4>3. byKey[k] \in Live' /\ spec'[byKey[k]].key = k /\ byKey[k] \in Seqs
        BY <1>4, <1>6, <1>7, <4>1
      <4> QED BY <1>1, <4>1, <4>2, <4>3
    <3> QED BY <3>1, <3>2
  <2>2. ASSUME NEW j \in Live' PROVE superseded'[j] \/ byKey'[spec'[j].key] = j
    <3>1. CASE j = next
      BY <1>1, <1>10, <3>1, SpecsAssumption DEF KeysAfter
    <3>2. CASE j # next /\ ~superseded'[j]
      <4>1. j \in Live /\ j \notin drop /\ ~superseded[j] /\ j \notin Previous(s)
        BY <1>1, <1>4, <1>6, <2>2, <3>2
      <4>2. byKey[spec[j].key] = j /\ spec[j].key # s.key /\ spec[j].key \in Keys
        <5>1. byKey[spec[j].key] = j
          BY <4>1 DEF Currency, KeyIndex
        <5>2. spec[j].key # s.key
          BY <4>1, <5>1 DEF Previous
        <5>3. spec[j].key \in Keys
          BY <1>7, <4>1, SpecsAssumption
        <5> QED BY <5>1, <5>2, <5>3
      <4>3. spec'[j].key = spec[j].key
        BY <1>7, <4>1
      <4>4. KeysAfter(drop)[spec[j].key] = j
        BY <4>1, <4>2 DEF KeysAfter
      <4>5. byKey'[spec[j].key] = KeysAfter(drop)[spec[j].key]
        BY <1>1, <4>2 DEF KeysAfter
      <4> QED BY <4>3, <4>4, <4>5
    <3> QED BY <3>1, <3>2
  <2> QED BY <2>1, <2>2 DEF KeyIndex
<1>13. UnstartedAreCurrent'
  <2>1. ASSUME NEW j \in Unstarted, j \notin drop
        PROVE  ~token'[j] /\ ~superseded'[j] /\ ~OffTarget(j)' /\ ~ScopeCleared(j)'
    <3>1. j \in Live /\ j \notin hit /\ j \notin Running
      BY <1>4, <2>1
    <3>2. ~token[j] /\ ~superseded[j] /\ ~OffTarget(j) /\ ~ScopeCleared(j) /\ j \in Seqs
      BY <1>4, <2>1 DEF Currency, UnstartedAreCurrent
    <3>3. j \notin Retargeted(s) /\ j \notin Previous(s)
      BY <3>1
    <3> QED BY <1>1, <1>8, <1>9, <3>1, <3>2, <3>3
  <2> HIDE DEF drop
  <2>2. ~shutting'
    BY <1>1
  <2>3. \A j \in Seqs : j = next =>
              ~token'[j] /\ ~superseded'[j] /\ ~OffTarget(j)' /\ ~ScopeCleared(j)'
    BY <1>10, <1>11
  <2>4. \A j \in Unstarted' : (j \in Unstarted /\ j \notin drop) \/ (j = next /\ j \in Seqs)
    BY <1>1, <1>6
  <2> QED BY <2>1, <2>2, <2>3, <2>4 DEF UnstartedAreCurrent
<1>14. StaleRunningIsCancelled'
  <2>1. ASSUME NEW j \in Running, Stale(j)', ~spec'[j].reusable PROVE token'[j]
    <3>1. j \in Live /\ (Stale(j) \/ j \in hit)
      BY <1>1, <1>4, <1>8, <1>9, <2>1 DEF Stale
    <3> QED BY <1>1, <1>4, <1>7, <2>1, <3>1 DEF Currency, StaleRunningIsCancelled
  <2> QED BY <1>6, <2>1 DEF StaleRunningIsCancelled
<1>15. NewAreClean'
  <2>1. ASSUME NEW j \in Seqs, state[j] = "new", j # next PROVE ~token'[j] /\ ~superseded'[j]
    <3>1. j \notin Live
      BY <2>1 DEF Live, Unstarted, Running, In, UnstartedStates
    <3> QED BY <1>1, <1>4, <2>1, <3>1 DEF Currency, NewAreClean, Previous
  <2> QED BY <1>6, <2>1 DEF NewAreClean
<1>16. FamilyIsLatest'
  <2>1. ASSUME NEW j \in Seqs, j < next', spec'[j].family \in Families
        PROVE  \/ family'[spec'[j].family] = spec'[j].value
               \/ \E m \in Seqs : j < m /\ m < next' /\ spec'[m].family = spec'[j].family
    <3>1. CASE j = next
      BY <1>1, <1>10, <2>1, <3>1 DEF TypeInv, TypeOK
    <3>2. CASE j # next
      <4>1. j < next /\ spec'[j] = spec[j] /\ next < next'
        BY <1>1, <2>1, <3>2 DEF TypeInv, TypeOK, Seqs
      <4>2. CASE s.family = spec[j].family
        BY <1>1, <1>10, <4>1, <4>2
      <4>3. CASE s.family # spec[j].family
        <5>1. family'[spec[j].family] = family[spec[j].family]
          BY <1>1, <2>1, <4>1, <4>3 DEF TypeInv, TypeOK
        <5>2. \A m \in Seqs : m < next => m < next' /\ spec'[m] = spec[m]
          BY <1>1, <1>10 DEF TypeInv, TypeOK, Seqs
        <5> QED BY <2>1, <4>1, <5>1, <5>2 DEF Currency, FamilyIsLatest
      <4> QED BY <4>2, <4>3
    <3> QED BY <3>1, <3>2
  <2> QED BY <2>1 DEF FamilyIsLatest
<1> QED BY <1>12, <1>13, <1>14, <1>15, <1>16 DEF Currency

LEMMA FinishCurrency ==
  ASSUME TypeInv, Currency, NEW i \in Seqs, NEW report \in Outcomes, Finish(i, report)
  PROVE  Currency'
<1> DEFINE o == IF report = "completed" /\ Stale(i) THEN "stale" ELSE report
           k == spec[i].key
           lost == IF o = "completed" THEN {} ELSE Dependents(k)
           met == [j \in Seqs |-> IF state[j] = "parked_deps" THEN unmet[j] \ {k} ELSE unmet[j]]
           promoted == IF o = "completed" THEN Promoted(k, met) ELSE {}
           st == [j \in Seqs |-> IF j = i \/ j \in lost THEN "done"
                                 ELSE IF j \in promoted THEN "queued" ELSE state[j]]
<1>1. /\ state' = Released(st)
      /\ byKey' = KeysAfter(lost \cup {i})
      /\ UNCHANGED <<next, spec, token, superseded, snap, family, scopeEpoch, shutting>>
      /\ i \in Running
  BY DEF Finish, scopeVars
<1>2. lost \subseteq ParkedDeps /\ promoted \subseteq ParkedDeps
  BY DEF Dependents, Promoted
<1>3. /\ lost \subseteq Unstarted /\ Unstarted \subseteq Seqs /\ Running \subseteq Seqs
      /\ Unstarted \cap Running = {} /\ Live = Unstarted \cup Running
      /\ \A j \in promoted : state[j] = "parked_deps"
  BY <1>2 DEF ParkedDeps, Live, Unstarted, Running, In, UnstartedStates
<1>4. /\ Unstarted' = Unstarted \ lost /\ Running' = Running \ {i}
      /\ \A j \in Seqs : state'[j] = "new" <=> state[j] = "new"
  <2>1. \A j \in Seqs : state'[j] = IF st[j] = "parked_quota" THEN "queued" ELSE st[j]
    BY <1>1 DEF Released
  <2>2. \A j \in Seqs : st[j] = IF j = i \/ j \in lost THEN "done"
                                 ELSE IF j \in promoted THEN "queued" ELSE state[j]
    OBVIOUS
  <2> HIDE DEF st, lost, promoted
  <2>3. Unstarted' = Unstarted \ lost
    BY <1>1, <1>3, <2>1, <2>2 DEF Unstarted, Running, In, UnstartedStates
  <2>4. Running' = Running \ {i}
    BY <1>1, <1>3, <2>1, <2>2 DEF Unstarted, Running, In, UnstartedStates
  <2>5. \A j \in Seqs : state'[j] = "new" <=> state[j] = "new"
    BY <1>1, <1>3, <2>1, <2>2 DEF Unstarted, Running, In, UnstartedStates
  <2> QED BY <2>3, <2>4, <2>5
<1> HIDE DEF lost, promoted, st
<1>5. \A j \in Seqs : /\ Stale(j)' <=> Stale(j)
                      /\ OffTarget(j)' <=> OffTarget(j)
                      /\ ScopeCleared(j)' <=> ScopeCleared(j)
  BY <1>1 DEF Stale, OffTarget, ScopeCleared
<1>6. KeyIndex'
  <2> DEFINE D == lost \cup {i}
  <2>1. D \subseteq Live /\ Live' = Live \ D
    BY <1>1, <1>3, <1>4 DEF Live
  <2>2. byKey' = KeysAfter(D) /\ UNCHANGED <<spec, superseded>> /\ KeyIndex
    BY <1>1 DEF Currency
  <2> HIDE DEF D
  <2> QED BY <2>1, <2>2, KeysFollow
<1>7. UnstartedAreCurrent'
  BY <1>1, <1>3, <1>4, <1>5 DEF Currency, UnstartedAreCurrent
<1>8. StaleRunningIsCancelled'
  BY <1>1, <1>3, <1>4, <1>5 DEF Currency, StaleRunningIsCancelled
<1>9. NewAreClean' /\ FamilyIsLatest'
  BY <1>1, <1>4 DEF Currency, NewAreClean, FamilyIsLatest
<1> QED BY <1>6, <1>7, <1>8, <1>9 DEF Currency

\* What a worker starts is current: it was in the queue.
LEMMA PopCurrency == ASSUME TypeInv, Currency, Pop PROVE Currency'
<1>1. PICK i \in Seqs : PopDiscard(i) \/ PopPark(i) \/ PopTake(i)
  BY DEF Pop
<1>2. state[i] = "queued" /\ i \in Unstarted /\ i \notin Running
  BY <1>1 DEF PopDiscard, PopPark, PopTake, IsHead, Queued, Unstarted, Running, In, UnstartedStates
<1>3. CASE PopDiscard(i)
  <2>1. PICK o \in Outcomes : Discard({i}, o)
    BY <1>3 DEF PopDiscard, Outcomes
  <2>2. UNCHANGED <<next, spec, token, superseded, snap, family, scopeEpoch, shutting>>
    BY <1>3 DEF PopDiscard, scopeVars
  <2> QED BY <1>2, <2>1, <2>2, DiscardCurrency
<1>4. CASE PopPark(i)
  <2>1. UNCHANGED <<next, spec, token, superseded, snap, byKey, family, scopeEpoch, shutting>>
    BY <1>4 DEF PopPark, recordVars, keyVars, scopeVars
  <2>2. state' = [state EXCEPT ![i] = "parked_quota"]
    BY <1>4 DEF PopPark
  <2>3. /\ Unstarted' = Unstarted /\ Running' = Running
        /\ \A j \in Seqs : state'[j] = "new" <=> state[j] = "new"
    BY <1>2, <2>2 DEF Unstarted, Running, In, UnstartedStates, TypeInv, TypeOK
  <2> QED BY <2>1, <2>3, SameRecords
<1>5. CASE PopTake(i)
  <2>1. UNCHANGED <<next, spec, token, superseded, snap, byKey, family, scopeEpoch, shutting>>
    BY <1>5 DEF PopTake, recordVars, keyVars, scopeVars
  <2>2. state' = [state EXCEPT ![i] = "running"] /\ ~Stale(i)
    BY <1>5 DEF PopTake
  <2>3. /\ Unstarted' = Unstarted \ {i} /\ Running' = Running \cup {i} /\ Live' = Live
        /\ Unstarted \subseteq Seqs /\ Running \subseteq Seqs
        /\ \A j \in Seqs : state'[j] = "new" <=> state[j] = "new"
    BY <1>2, <2>2 DEF Live, Unstarted, Running, In, UnstartedStates, TypeInv, TypeOK
  <2>4. \A j \in Seqs : /\ Stale(j)' <=> Stale(j)
                        /\ OffTarget(j)' <=> OffTarget(j)
                        /\ ScopeCleared(j)' <=> ScopeCleared(j)
    BY <2>1 DEF Stale, OffTarget, ScopeCleared
  <2>5. UnstartedAreCurrent'
    BY <2>1, <2>3, <2>4 DEF Currency, UnstartedAreCurrent
  <2>6. StaleRunningIsCancelled'
    BY <2>1, <2>2, <2>3, <2>4 DEF Currency, StaleRunningIsCancelled
  <2>7. KeyIndex' /\ NewAreClean' /\ FamilyIsLatest'
    BY <2>1, <2>3 DEF Currency, KeyIndex, NewAreClean, FamilyIsLatest
  <2> QED BY <2>5, <2>6, <2>7 DEF Currency
<1> QED BY <1>1, <1>3, <1>4, <1>5

LEMMA NextCurrency == TypeInv /\ Currency /\ [Next]_vars => Currency'
<1> SUFFICES ASSUME TypeInv, Currency, [Next]_vars PROVE Currency'
  OBVIOUS
<1>1. ASSUME UNCHANGED <<next, spec, token, superseded, snap, byKey, family, scopeEpoch, shutting>>,
             UNCHANGED state
      PROVE  Currency'
  BY <1>1, SameRecords DEF Unstarted, Running, In
<1>2. ASSUME NEW T \in SUBSET Tiles, NEW ranks \in [T -> Ranks], Rerank(ranks) PROVE Currency'
  BY <1>1, <1>2 DEF Rerank, keyVars, scopeVars
<1>3. ASSUME NEW q \in Quotas, SetLaneQuota(q[1], q[2]) PROVE Currency'
  <2>1. UNCHANGED <<next, spec, token, superseded, snap, byKey, family, scopeEpoch, shutting>>
    BY <1>3 DEF SetLaneQuota, recordVars, keyVars, scopeVars
  <2>2. /\ Unstarted' = Unstarted /\ Running' = Running
        /\ \A j \in Seqs : state'[j] = "new" <=> state[j] = "new"
    BY <1>3 DEF SetLaneQuota, Released, Unstarted, Running, In, UnstartedStates
  <2> QED BY <2>1, <2>2, SameRecords
<1>4. ASSUME NEW k \in InlineKeys, InlineWork(k) PROVE Currency'
  BY <1>1, <1>4 DEF InlineWork, recordVars, scopeVars
<1>5. ASSUME NEW i \in Seqs, Execute(i) PROVE Currency'
  BY <1>1, <1>5 DEF Execute, keyVars, scopeVars
<1>6. ASSUME NEW i \in Seqs, Dispatch(i) PROVE Currency'
  BY <1>1, <1>6 DEF Dispatch, recordVars, scopeVars
<1>7. CASE UNCHANGED vars
  BY <1>1, <1>7 DEF vars
<1>8. CASE Next
  BY <1>2, <1>3, <1>4, <1>5, <1>6, <1>8, SubmitCurrency, CancelCurrency, ClearCurrency,
     ShutdownCurrency, PopCurrency, FinishCurrency DEF Next
<1> QED BY <1>7, <1>8

LEMMA AlwaysCurrency == Spec => [](TypeInv /\ Currency)
  BY AlwaysTypeInv, InitCurrency, NextCurrency, PTL DEF Spec

-----------------------------------------------------------------------------
\* _by_key always names the one live instance of a key that no newer one
\* replaced, so has_live_task and the next resubmission find it.
THEOREM KeyIndexHolds == Spec => []KeyIndex
  BY AlwaysCurrency, PTL DEF Currency

\* Whatever is queued or parked is current: no worker ever finds a stale or
\* cancelled record at the head of the heap.
THEOREM NothingStaleWaits == Spec => []UnstartedAreCurrent
  BY AlwaysCurrency, PTL DEF Currency

\* Staleness always reaches a running task through its token, unless its
\* result is reusable.
THEOREM StalenessReachesRunning == Spec => []StaleRunningIsCancelled
  BY AlwaysCurrency, PTL DEF Currency

\* Handlers hear "completed" only of the value their family was last submitted
\* with, of a scope not cleared since, and never after shutdown.
THEOREM LatestTargetWins == Spec => LatestWins
<1> DEFINE Told(i) == /\ ~ScopeCleared(i) /\ ~shutting
                      /\ \A j \in LatestOf(spec[i].family) :
                           spec[i].family \in Families => spec[j].value = spec[i].value
<1>1. ASSUME TypeInv, Currency, [Next]_vars, NEW i \in Seqs,
             told[i] = NoOutcome, told'[i] = "completed"
      PROVE  Told(i)
  <2>1. told'[i] # told[i]
    BY <1>1, OutcomeAssumption
  <2>2. Next
    BY <1>1, <2>1 DEF vars
  <2>3. PICK k \in Seqs : Dispatch(k)
    BY <2>1, <2>2 DEF Next, Submit, CancelHandle, ClearScope, Rerank, SetLaneQuota, InlineWork,
       Shutdown, Pop, PopDiscard, PopPark, PopTake, Execute, Finish, deliveryVars
  <2>4. k = i /\ fate[i] = "completed" /\ ~Stale(i)
    BY <1>1, <2>1, <2>3 DEF Dispatch, TypeInv, TypeOK
  <2>5. ~ScopeCleared(i) /\ ~shutting /\ ~OffTarget(i)
    BY <2>4 DEF Stale
  <2>6. ASSUME NEW j \in LatestOf(spec[i].family), spec[i].family \in Families
        PROVE  spec[j].value = spec[i].value
    <3>1. /\ j \in Seqs /\ j < next /\ spec[j].family = spec[i].family
          /\ \A m \in Seqs : m < next /\ spec[m].family = spec[i].family => m <= j
      BY <2>6 DEF LatestOf
    <3>2. ~\E m \in Seqs : j < m /\ m < next /\ spec[m].family = spec[j].family
      BY <3>1 DEF Seqs
    <3>3. family[spec[j].family] = spec[j].value
      BY <1>1, <2>6, <3>1, <3>2 DEF Currency, FamilyIsLatest
    <3>4. spec[j].value # NoValue
      BY <1>1, <3>1, SpecsAssumption DEF TypeInv, Admitted
    <3> QED BY <2>5, <2>6, <3>1, <3>3, <3>4 DEF OffTarget
  <2> QED BY <2>5, <2>6
<1>2. TypeInv /\ Currency /\ [Next]_vars =>
        [\A i \in Seqs : told[i] = NoOutcome /\ told'[i] = "completed" => Told(i)]_vars
  BY <1>1
<1> QED BY <1>2, AlwaysCurrency, PTL DEF Spec, LatestWins

-----------------------------------------------------------------------------
(* Results that satisfy dependencies.                                       *)

FreshKey(k) == \E i \in Seqs : /\ state[i] = "done" /\ fate[i] = "completed"
                               /\ spec[i].key = k /\ spec[i].scope = completed[k]
                               /\ ~ScopeCleared(i)

\* A result that stays listed stays fresh while no scope is cleared.
LEMMA StaysFresh ==
  ASSUME TypeInv, OneTerminalCompletion, CompletedIsFresh, [Next]_vars,
         UNCHANGED scopeEpoch, NEW k \in Keys, completed'[k] \in Scopes,
         completed'[k] = completed[k]
  PROVE  FreshKey(k)'
<1>1. PICK i \in Seqs : /\ state[i] = "done" /\ fate[i] = "completed"
                        /\ spec[i].key = k /\ spec[i].scope = completed[k]
                        /\ ~ScopeCleared(i)
  BY DEF CompletedIsFresh
<1>2. spec'[i] = spec[i] /\ snap'[i] = snap[i]
  BY <1>1, RecordsKeep
<1>3. Moves(i)
  BY StepMoves
<1>4. state'[i] = "done" /\ fate'[i] = "completed"
  BY <1>1, <1>3 DEF Moves, Owing, UnstartedStates
<1>5. ~ScopeCleared(i)'
  BY <1>1, <1>2 DEF ScopeCleared
<1> QED BY <1>1, <1>2, <1>4, <1>5 DEF FreshKey

LEMMA ClearFresh ==
  ASSUME TypeInv, OneTerminalCompletion, CompletedIsFresh, [Next]_vars,
         NEW c \in Clearable, ClearScope(c)
  PROVE  CompletedIsFresh'
<1> SUFFICES ASSUME NEW k \in Keys, completed'[k] \in Scopes PROVE FreshKey(k)'
  BY DEF CompletedIsFresh, FreshKey
<1>1. /\ completed'[k] = completed[k] /\ completed[k] \in Scopes
      /\ c \notin Ancestors[completed[k]]
  BY SetsAssumption DEF ClearScope, Purged
<1>2. PICK i \in Seqs : /\ state[i] = "done" /\ fate[i] = "completed"
                        /\ spec[i].key = k /\ spec[i].scope = completed[k]
                        /\ ~ScopeCleared(i)
  BY <1>1 DEF CompletedIsFresh
<1>3. spec'[i] = spec[i] /\ snap'[i] = snap[i]
  BY <1>2, RecordsKeep
<1>4. Moves(i)
  BY StepMoves
<1>5. state'[i] = "done" /\ fate'[i] = "completed"
  BY <1>2, <1>4 DEF Moves, Owing, UnstartedStates
<1>6. \A a \in Ancestors[spec[i].scope] : scopeEpoch'[a] = scopeEpoch[a]
  BY <1>1, <1>2, SetsAssumption DEF ClearScope, TypeInv, TypeOK
<1>7. ~ScopeCleared(i)'
  BY <1>2, <1>3, <1>6 DEF ScopeCleared
<1> QED BY <1>1, <1>2, <1>3, <1>5, <1>7 DEF FreshKey

LEMMA FinishFresh ==
  ASSUME TypeInv, OneTerminalCompletion, CompletedIsFresh, [Next]_vars,
         NEW i \in Seqs, NEW report \in Outcomes, Finish(i, report)
  PROVE  CompletedIsFresh'
<1> DEFINE o == IF report = "completed" /\ Stale(i) THEN "stale" ELSE report
<1> SUFFICES ASSUME NEW k \in Keys, completed'[k] \in Scopes PROVE FreshKey(k)'
  BY DEF CompletedIsFresh, FreshKey
<1>1. UNCHANGED scopeEpoch /\ state[i] = "running"
  BY DEF Finish, scopeVars, Running, In
<1>2. CASE completed'[k] = completed[k]
  BY <1>1, <1>2, StaysFresh
<1>3. CASE completed'[k] # completed[k]
  <2>1. o = "completed" /\ k = spec[i].key /\ completed'[k] = spec[i].scope
    BY <1>3 DEF Finish, TypeInv, TypeOK
  <2>2. ~ScopeCleared(i)
    BY <2>1 DEF Stale
  <2>3. spec'[i] = spec[i] /\ snap'[i] = snap[i]
    BY <1>1, RecordsKeep
  <2>4. state'[i] = "done" /\ fate'[i] = "completed"
    <3>1. fate' = [FateAfter(IF o = "completed" THEN {} ELSE Dependents(spec[i].key), "dropped")
                     EXCEPT ![i] = o]
      BY DEF Finish
    <3>2. fate'[i] = "completed"
      BY <2>1, <3>1 DEF FateAfter
    <3> QED BY <3>2, <1>1, StepMoves, OutcomeAssumption
            DEF Moves, Owing, UnstartedStates, OneTerminalCompletion
  <2>5. ~ScopeCleared(i)'
    BY <1>1, <2>2, <2>3 DEF ScopeCleared
  <2> QED BY <2>1, <2>3, <2>4, <2>5 DEF FreshKey
<1> QED BY <1>2, <1>3

LEMMA NextFresh ==
  TypeInv /\ OneTerminalCompletion /\ CompletedIsFresh /\ [Next]_vars => CompletedIsFresh'
<1> SUFFICES ASSUME TypeInv, OneTerminalCompletion, CompletedIsFresh, [Next]_vars
             PROVE  CompletedIsFresh'
  OBVIOUS
<1>1. ASSUME UNCHANGED scopeEpoch,
             \A k \in Keys : completed'[k] \in Scopes => completed'[k] = completed[k]
      PROVE  CompletedIsFresh'
  <2> SUFFICES ASSUME NEW k \in Keys, completed'[k] \in Scopes PROVE FreshKey(k)'
    BY DEF CompletedIsFresh, FreshKey
  <2> QED BY <1>1, StaysFresh
<1>2. ASSUME NEW k \in InlineKeys, InlineWork(k) PROVE CompletedIsFresh'
  <2>1. \A j \in Keys : completed'[j] \in Scopes => completed'[j] = completed[j]
    BY <1>2, SetsAssumption DEF InlineWork, TypeInv, TypeOK
  <2> QED BY <1>1, <1>2, <2>1 DEF InlineWork, scopeVars
<1>3. ASSUME NEW i \in Seqs, Dispatch(i) PROVE CompletedIsFresh'
  <2>1. \A j \in Keys : completed'[j] \in Scopes => completed'[j] = completed[j]
    BY <1>3, SetsAssumption DEF Dispatch, TypeInv, TypeOK
  <2> QED BY <1>1, <1>3, <2>1 DEF Dispatch, scopeVars
<1>4. ASSUME UNCHANGED <<scopeEpoch, completed>> PROVE CompletedIsFresh'
  BY <1>1, <1>4
<1>5. CASE UNCHANGED vars
  BY <1>4, <1>5 DEF vars
<1>6. CASE Pop
  BY <1>4, <1>6 DEF Pop, PopDiscard, PopPark, PopTake, keyVars, scopeVars
<1>7. CASE \/ \E s \in Specs : Submit(s)
           \/ \E i \in Seqs : CancelHandle(i)
           \/ \E T \in SUBSET Tiles : \E ranks \in [T -> Ranks] : T # {} /\ Rerank(ranks)
           \/ \E q \in Quotas : SetLaneQuota(q[1], q[2])
           \/ Shutdown
           \/ \E i \in Seqs : Execute(i)
  BY <1>4, <1>7 DEF Submit, CancelHandle, Rerank, SetLaneQuota, Shutdown, Execute, keyVars,
     scopeVars
<1>8. CASE Next
  BY <1>2, <1>3, <1>6, <1>7, <1>8, ClearFresh, FinishFresh DEF Next
<1> QED BY <1>5, <1>8

\* A result of a cleared scope never satisfies a later dependency: a task that
\* outlived a clear of its scope finishes stale, and a clear purges the results
\* of the scopes below it.
THEOREM ClearedResultsAreGone == Spec => []CompletedIsFresh
<1>1. Init => CompletedIsFresh
  BY SetsAssumption DEF Init, CompletedIsFresh
<1> QED BY <1>1, NextFresh, AlwaysTypeInv, ExactlyOneCompletion, PTL DEF Spec
=============================================================================
