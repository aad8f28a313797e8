-------------------------- MODULE ResidencyProofs ---------------------------
(* Theorems about the executor's residency under any caller: any planes,     *)
(* chunks, pools, device limits and growth, and any sequence of commands in  *)
(* which submissions are not nested.  Then about the display: that it is such*)
(* a caller, and what it acknowledges, for any montage and any pictures.     *)
EXTENDS ResidencyProps, CommitProps, FiniteSetTheorems, WellFoundedInduction, TLAPS

-----------------------------------------------------------------------------
(* Least elements.                                                           *)
LEMMA LeastOfNat ==
    ASSUME NEW S \in SUBSET Nat, S # {}
    PROVE  \E n \in S : \A m \in S : n <= m
<1>1. \E n \in S : \A m \in S : ~(<<m, n>> \in OpToRel(<, Nat))
  BY NatLessThanWellFounded, WFMin, Zenon
<1>2. PICK n \in S : \A m \in S : ~(<<m, n>> \in OpToRel(<, Nat))
  BY <1>1
<1>3. ASSUME NEW m \in S, m < n PROVE FALSE
  <2>1. m \in Nat /\ n \in Nat
    OBVIOUS
  <2>2. <<m, n>> \in OpToRel(<, Nat)
    BY <2>1, <1>3, Zenon DEF OpToRel
  <2> QED
    BY <1>2, <2>2, Zenon
<1>4. \A m \in S : n <= m
  BY <1>3
<1> QED
  BY <1>4

(* The order of use names every resident page once, and nothing else.        *)
OrderOK ==
  /\ \A i, j \in DOMAIN lru : lru[i] = lru[j] => i = j
  /\ {lru[i] : i \in DOMAIN lru} = Resident

(* Of any set of resident pages, one was used the longest ago.               *)
LEMMA OldestExists ==
    ASSUME lru \in Seq(Keys), OrderOK, NEW S \in SUBSET Resident, S # {}
    PROVE  Oldest(S) # {}
<1> DEFINE I == {i \in DOMAIN lru : lru[i] \in S}
<1>1. I \in SUBSET Nat /\ I # {}
  BY DEF OrderOK
<1>2. PICK n \in I : \A m \in I : n <= m
  BY <1>1, LeastOfNat
<1>3. lru[n] \in S /\ n \in DOMAIN lru
  BY <1>2
<1>4. ASSUME NEW other \in S PROVE UsedBefore(lru[n], other)
  <2>1. PICK m \in DOMAIN lru : lru[m] = other
    BY DEF OrderOK
  <2>2. m \in I
    BY <2>1
  <2>3. n <= m
    BY <1>2, <2>2
  <2> QED
    BY <1>3, <2>1, <2>3 DEF UsedBefore
<1> QED
  BY <1>3, <1>4 DEF Oldest

(* What removing a key does to the order.                                    *)
LEMMA WithoutFacts ==
    ASSUME lru \in Seq(Keys), OrderOK, NEW k
    PROVE  /\ Without(k) \in Seq(Keys)
           /\ \A i, j \in DOMAIN Without(k) : Without(k)[i] = Without(k)[j] => i = j
           /\ {Without(k)[i] : i \in DOMAIN Without(k)} = Resident \ {k}
<1>1. CASE \A i \in DOMAIN lru : lru[i] # k
  <2>1. Without(k) = lru
    BY <1>1 DEF Without
  <2>2. k \notin Resident
    BY <1>1 DEF OrderOK
  <2> QED
    BY <2>1, <2>2 DEF OrderOK
<1>2. CASE \E i \in DOMAIN lru : lru[i] = k
  <2> DEFINE at == CHOOSE i \in DOMAIN lru : lru[i] = k
             w == [i \in 1 .. (Len(lru) - 1) |-> IF i < at THEN lru[i] ELSE lru[i + 1]]
  <2>1. at \in DOMAIN lru /\ lru[at] = k
    BY <1>2
  <2>2. Without(k) = w
    BY <1>2 DEF Without
  <2> HIDE DEF at
  <2>3. Len(lru) \in Nat /\ DOMAIN lru = 1 .. Len(lru) /\ \A i \in DOMAIN lru : lru[i] \in Keys
    OBVIOUS
  <2>4. at \in 1 .. Len(lru) /\ Len(lru) - 1 \in Nat
    BY <2>1, <2>3
  <2>5. \A i \in 1 .. (Len(lru) - 1) : w[i] \in Keys /\ w[i] = lru[IF i < at THEN i ELSE i + 1]
    BY <2>3, <2>4
  <2>6. w \in Seq(Keys) /\ DOMAIN w = 1 .. (Len(lru) - 1)
    BY <2>4, <2>5
  <2>7. \A i, j \in DOMAIN w : w[i] = w[j] => i = j
    <3> SUFFICES ASSUME NEW i \in DOMAIN w, NEW j \in DOMAIN w, w[i] = w[j]
                 PROVE  i = j
      OBVIOUS
    <3>1. (IF i < at THEN i ELSE i + 1) = (IF j < at THEN j ELSE j + 1)
      BY <2>3, <2>4, <2>5, <2>6 DEF OrderOK
    <3> QED
      BY <3>1, <2>4, <2>6
  <2>8. \A i \in DOMAIN w : w[i] \in Resident \ {k}
    <3> TAKE i \in DOMAIN w
    <3>1. (IF i < at THEN i ELSE i + 1) \in DOMAIN lru \ {at}
      BY <2>3, <2>4, <2>6
    <3> QED
      BY <3>1, <2>1, <2>5, <2>6 DEF OrderOK
  <2>9. \A x \in Resident \ {k} : \E i \in DOMAIN w : w[i] = x
    <3> TAKE x \in Resident \ {k}
    <3>1. PICK i \in DOMAIN lru : lru[i] = x
      BY DEF OrderOK
    <3>2. i # at
      BY <3>1, <2>1
    <3>3. CASE i < at
      <4>1. i \in DOMAIN w /\ w[i] = lru[i]
        BY <3>3, <3>1, <2>3, <2>4, <2>5, <2>6
      <4> QED
        BY <4>1, <3>1
    <3>4. CASE i > at
      <4>1. i - 1 \in DOMAIN w /\ ~(i - 1 < at) /\ (i - 1) + 1 = i
        BY <3>4, <3>1, <2>3, <2>4, <2>6
      <4>2. w[i - 1] = lru[i]
        BY <4>1, <2>5, <2>6
      <4> QED
        BY <4>1, <4>2, <3>1
    <3> QED
      BY <3>2, <3>3, <3>4, <3>1, <2>3, <2>4
  <2> HIDE DEF w
  <2> QED
    BY <2>2, <2>6, <2>7, <2>8, <2>9
<1> QED
  BY <1>1, <1>2

-----------------------------------------------------------------------------
(* Types.                                                                    *)
TableTypes ==
  /\ Resident \subseteq Keys /\ \A k \in Resident : slot[k] \in Slots
  /\ lru \in Seq(Keys)
  /\ pins \in [Owners -> SUBSET Keys] /\ pinned \subseteq Keys
  /\ generation \in Nat /\ lost \in Nat
  /\ OrderOK

PoolTypes ==
  /\ free \in [Pools -> SUBSET Nat]
  /\ allocated \in [Pools -> Nat \ {0}] /\ budget \in Nat

FlatTypes ==
  /\ bound \in Seq(Planes)
  /\ DOMAIN flat = Indices(bound) /\ \A ix \in DOMAIN flat : flat[ix] \in Slots \union {Unmapped}

MemoTypes ==
  memo \in [{"bound", "warm"} -> [keys : SUBSET Keys, generation : Nat, resident : SUBSET Keys]]

ShieldTypes == wanted \subseteq Keys /\ shield \subseteq Keys

StepTypes ==
  /\ batch \in Seq(Command)
  /\ phase \in {"ready", "room", "reduce", "bind", "shield"}
  /\ target \in Pools
  /\ hand \in Slots \union {Unmapped}

(* Where a command can stand: only an upload and a reduction have phases, and*)
(* only what is being bound holds a layer.                                   *)
PhaseOK ==
  /\ phase # "ready" => batch # <<>> /\ Head(batch).op \in {"ensure", "generate"}
  /\ phase = "reduce" => Head(batch).op = "generate"
  /\ phase \in {"room", "reduce", "bind"} => Key \notin Resident
  /\ phase \in {"reduce", "bind"} <=> hand # Unmapped

Types ==
  /\ TableTypes /\ PoolTypes /\ FlatTypes /\ MemoTypes
  /\ ShieldTypes /\ StepTypes /\ PhaseOK

(* The operations of the page table keep its types.                          *)
LEMMA BindTypes ==
    ASSUME TableTypes, NEW k \in Keys, NEW s \in Slots, Bind(k, s)
    PROVE  TableTypes'
<1> DEFINE w == Without(k)
<1>1. /\ w \in Seq(Keys)
      /\ \A i, j \in DOMAIN w : w[i] = w[j] => i = j
      /\ {w[i] : i \in DOMAIN w} = Resident \ {k}
  BY WithoutFacts DEF TableTypes
<1>2. lru' = Append(w, k) /\ Resident' = Resident \union {k}
  BY DEF Bind, Resident
<1> HIDE DEF w
<1>3. /\ lru' \in Seq(Keys) /\ DOMAIN lru' = (DOMAIN w) \union {Len(w) + 1}
      /\ \A i \in DOMAIN w : lru'[i] = w[i]
      /\ lru'[Len(w) + 1] = k /\ Len(w) + 1 \notin DOMAIN w
  BY <1>1, <1>2
<1>4. OrderOK'
  <2>1. \A i \in DOMAIN w : w[i] \in Resident \ {k}
    BY <1>1
  <2>2. \A i, j \in DOMAIN lru' : lru'[i] = lru'[j] => i = j
    BY <1>1, <1>3, <2>1
  <2>3. \A i \in DOMAIN lru' : lru'[i] \in Resident'
    BY <1>2, <1>3, <2>1
  <2>4. \A x \in Resident' : \E i \in DOMAIN lru' : lru'[i] = x
    <3> TAKE x \in Resident'
    <3>1. CASE x = k
      BY <3>1, <1>3
    <3>2. CASE x \in Resident \ {k}
      <4>1. PICK i \in DOMAIN w : w[i] = x
        BY <3>2, <1>1
      <4> QED
        BY <4>1, <1>3
    <3> QED
      BY <3>1, <3>2, <1>2
  <2> QED
    BY <2>2, <2>3, <2>4 DEF OrderOK
<1>5. pinned' \subseteq Keys /\ pins' = pins /\ generation' \in Nat /\ lost' = lost
  BY DEF Bind, TableTypes
<1>6. \A x \in Resident' : slot'[x] \in Slots
  BY DEF Bind, TableTypes, Resident
<1> QED
  BY <1>2, <1>3, <1>4, <1>5, <1>6 DEF TableTypes

LEMMA UnbindTypes ==
    ASSUME TableTypes, NEW k, Unbind(k)
    PROVE  TableTypes'
<1>1. /\ Without(k) \in Seq(Keys)
      /\ \A i, j \in DOMAIN Without(k) : Without(k)[i] = Without(k)[j] => i = j
      /\ {Without(k)[i] : i \in DOMAIN Without(k)} = Resident \ {k}
  BY WithoutFacts DEF TableTypes
<1>2. lru' = Without(k) /\ Resident' = Resident \ {k}
  BY DEF Unbind, Resident
<1>3. OrderOK'
  BY <1>1, <1>2 DEF OrderOK
<1>4. pins' \in [Owners -> SUBSET Keys] /\ pinned' \subseteq Keys
  BY DEF Unbind, TableTypes
<1>5. generation' \in Nat /\ lost' \in Nat
  BY DEF Unbind, TableTypes
<1>6. \A x \in Resident' : slot'[x] \in Slots
  BY DEF Unbind, TableTypes, Resident
<1> QED
  BY <1>1, <1>2, <1>3, <1>4, <1>5, <1>6 DEF TableTypes

LEMMA TouchTypes ==
    ASSUME TableTypes, NEW k \in Resident, Touch(k)
    PROVE  TableTypes'
<1> DEFINE w == Without(k)
<1>1. /\ w \in Seq(Keys)
      /\ \A i, j \in DOMAIN w : w[i] = w[j] => i = j
      /\ {w[i] : i \in DOMAIN w} = Resident \ {k}
  BY WithoutFacts DEF TableTypes
<1>2. lru' = Append(w, k) /\ Resident' = Resident /\ slot' = slot /\ k \in Keys
  BY DEF Touch, Resident, TableTypes
<1> HIDE DEF w
<1>3. /\ lru' \in Seq(Keys) /\ DOMAIN lru' = (DOMAIN w) \union {Len(w) + 1}
      /\ \A i \in DOMAIN w : lru'[i] = w[i]
      /\ lru'[Len(w) + 1] = k /\ Len(w) + 1 \notin DOMAIN w
  BY <1>1, <1>2
<1>4. OrderOK'
  BY <1>1, <1>2, <1>3 DEF OrderOK
<1>5. UNCHANGED <<pins, pinned, generation, lost>>
  BY DEF Touch
<1>6. Resident' \subseteq Keys /\ \A x \in Resident' : slot'[x] \in Slots
  BY <1>2 DEF TableTypes
<1> QED
  BY <1>3, <1>4, <1>5, <1>6 DEF TableTypes

LEMMA PinTypes ==
    ASSUME TableTypes, NEW owner \in Owners, NEW keys \in SUBSET Keys,
           ReplacePinSet(owner, keys)
    PROVE  TableTypes'
<1>1. slot' = slot /\ lru' = lru /\ generation' = generation /\ lost' = lost
  BY DEF ReplacePinSet
<1>2. pins' \in [Owners -> SUBSET Keys]
  BY DEF ReplacePinSet, TableTypes
<1>3. pinned' \subseteq Keys
  BY DEF ReplacePinSet, TableTypes
<1> QED
  BY <1>1, <1>2, <1>3 DEF TableTypes, OrderOK, Resident

-----------------------------------------------------------------------------
(* Commands.                                                                 *)
LEMMA CommandFields ==
    ASSUME NEW c \in Command
    PROVE  /\ c.op = "pins" => c.owner \in {"bound", "warm"} /\ c.keys \in SUBSET Keys
           /\ c.op = "capacity" => c.layers \in Nat /\ c.needed \in Nat
           /\ c.op = "open" => c.keys \in SUBSET Keys
           /\ c.op = "planes" => c.planes \in Seq(Planes) /\ c.keys \in SUBSET Keys
           /\ c.op \in {"ensure", "generate", "evict"} => c.key \in Keys
BY DEF Command

LEMMA NextCommand ==
    ASSUME StepTypes, batch # <<>>
    PROVE  Head(batch) \in Command /\ Tail(batch) \in Seq(Command)
BY DEF StepTypes

LEMMA CloseIsCommand == <<[op |-> "close"]>> \in Seq(Command)
<1>1. [op |-> "close"] \in Command
  BY DEF Command
<1> QED
  BY <1>1

LEMMA DoneTypes ==
    ASSUME StepTypes, PhaseOK, batch # <<>>, phase \in {"ready", "shield"}, Done
    PROVE  StepTypes' /\ PhaseOK'
<1>1. batch' \in Seq(Command) /\ phase' = "ready" /\ target' = target /\ hand' = Unmapped
  BY NextCommand DEF Done, PhaseOK
<1> QED
  BY <1>1 DEF StepTypes, PhaseOK

LEMMA RaiseTypes ==
    ASSUME StepTypes, Raise
    PROVE  StepTypes' /\ PhaseOK'
BY CloseIsCommand DEF StepTypes, PhaseOK, Raise

LEMMA KeyTypes ==
    ASSUME StepTypes, batch # <<>>, Head(batch).op \in {"ensure", "generate", "evict"}
    PROVE  Key \in Keys /\ Kids(Key) \subseteq Keys
<1>1. Key \in Keys
  BY NextCommand, CommandFields DEF Key
<1>2. Key[1] \in Planes /\ Children[Key[2]] \subseteq Cells
  BY <1>1, CellsAssumption DEF Keys
<1> QED
  BY <1>1, <1>2 DEF Kids, Keys

(* What is not touched keeps its type.                                       *)
LEMMA Same ==
    /\ TableTypes /\ UNCHANGED tableVars => TableTypes'
    /\ PoolTypes /\ UNCHANGED poolVars => PoolTypes'
    /\ FlatTypes /\ UNCHANGED planeVars => FlatTypes'
    /\ MemoTypes /\ UNCHANGED memo => MemoTypes'
    /\ ShieldTypes /\ UNCHANGED shieldVars => ShieldTypes'
    /\ StepTypes /\ UNCHANGED stepVars => StepTypes'
    /\ PhaseOK /\ UNCHANGED stepVars /\ Resident' = Resident => PhaseOK'
<1>1. TableTypes /\ UNCHANGED tableVars => TableTypes'
  BY DEF TableTypes, tableVars, Resident, OrderOK
<1>2. PoolTypes /\ UNCHANGED poolVars => PoolTypes'
  BY DEF PoolTypes, poolVars
<1>3. FlatTypes /\ UNCHANGED planeVars => FlatTypes'
  BY DEF FlatTypes, planeVars, Indices
<1>4. MemoTypes /\ UNCHANGED memo => MemoTypes'
  BY DEF MemoTypes
<1>5. ShieldTypes /\ UNCHANGED shieldVars => ShieldTypes'
  BY DEF ShieldTypes, shieldVars
<1>6. StepTypes /\ UNCHANGED stepVars => StepTypes'
  BY DEF StepTypes, stepVars
<1>7. PhaseOK /\ UNCHANGED stepVars /\ Resident' = Resident => PhaseOK'
  BY DEF PhaseOK, stepVars, Key
<1> QED
  BY <1>1, <1>2, <1>3, <1>4, <1>5, <1>6, <1>7

(* Growing adds layers, and only behind those there are.                     *)
LEMMA GrowthFacts ==
    ASSUME PoolTypes, NEW p \in Pools, NEW minimum \in Nat, NEW limit \in Nat,
           allocated[p] < limit, GrownTo(p, minimum, limit)
    PROVE  \E new \in Nat :
             /\ allocated[p] < new /\ new <= limit
             /\ allocated' = [allocated EXCEPT ![p] = new]
             /\ free' = [free EXCEPT ![p] = @ \union (allocated[p] .. (new - 1))]
<1> DEFINE old == allocated[p]
           wish == Greater(Greater(InitialLayers, 2 * old), Greater(old + 1, minimum))
           new == Lesser(limit, wish)
<1>1. old \in Nat /\ InitialLayers \in Nat
  BY LayersAssumption DEF PoolTypes
<1>2. wish \in Nat /\ old < wish
  BY <1>1 DEF Greater
<1>3. new \in Nat /\ old < new /\ new <= limit
  BY <1>1, <1>2 DEF Lesser
<1>4. /\ allocated' = [allocated EXCEPT ![p] = new]
      /\ free' = [free EXCEPT ![p] = @ \union (old .. (new - 1))]
  BY DEF GrownTo
<1> QED
  BY <1>3, <1>4

LEMMA GrowthTypes ==
    ASSUME PoolTypes, NEW p \in Pools, NEW minimum \in Nat, NEW limit \in Nat,
           allocated[p] < limit, GrownTo(p, minimum, limit), budget' \in Nat
    PROVE  PoolTypes'
<1>1. PICK new \in Nat :
             /\ allocated[p] < new /\ new <= limit
             /\ allocated' = [allocated EXCEPT ![p] = new]
             /\ free' = [free EXCEPT ![p] = @ \union (allocated[p] .. (new - 1))]
  BY GrowthFacts
<1>2. allocated[p] \in Nat /\ allocated[p] .. (new - 1) \subseteq Nat /\ new # 0
  BY <1>1 DEF PoolTypes
<1> QED
  BY <1>1, <1>2 DEF PoolTypes

(* Every key is a page of at most one cell of one plane, and an eviction     *)
(* leaves every other type alone.                                            *)
LEMMA MappedTypes ==
    ASSUME FlatTypes, NEW k, NEW entry \in Slots \union {Unmapped},
           bound' = bound, flat' = Mapped(k, entry)
    PROVE  FlatTypes'
BY DEF FlatTypes, Mapped, Indices

LEMMA EvictTypes ==
    ASSUME Types, NEW k \in Resident, Evict(k)
    PROVE  TableTypes' /\ PoolTypes' /\ FlatTypes' /\ MemoTypes' /\ ShieldTypes'
           /\ Resident' = Resident \ {k}
<1>1. TableTypes'
  BY UnbindTypes DEF Types, Evict
<1>2. slot[k] \in Slots
  BY DEF Types, TableTypes
<1>3. PoolTypes'
  BY <1>2 DEF Types, PoolTypes, Evict, Give, Slots
<1>4. FlatTypes'
  BY MappedTypes DEF Types, Evict
<1>5. MemoTypes' /\ ShieldTypes'
  BY DEF Types, Evict, MemoTypes, ShieldTypes
<1>6. Resident' = Resident \ {k}
  BY DEF Evict, Unbind, Resident
<1> QED
  BY <1>1, <1>3, <1>4, <1>5, <1>6

LEMMA ResidentPinTypes ==
    ASSUME TableTypes, MemoTypes, NEW owner \in {"bound", "warm"}, NEW keys \in SUBSET Keys,
           ReplaceResidentPinSet(owner, keys)
    PROVE  TableTypes' /\ MemoTypes' /\ Resident' = Resident
<1>1. CASE MemoAnswers(owner, keys)
  BY <1>1, Same DEF ReplaceResidentPinSet, tableVars, Resident
<1>2. CASE ~MemoAnswers(owner, keys)
  <2>1. TableTypes'
    BY <1>2, PinTypes DEF ReplaceResidentPinSet, Owners
  <2>2. MemoTypes'
    BY <1>2 DEF ReplaceResidentPinSet, MemoTypes, TableTypes
  <2>3. Resident' = Resident
    BY <1>2 DEF ReplaceResidentPinSet, ReplacePinSet, Resident
  <2> QED
    BY <2>1, <2>2, <2>3
<1> QED
  BY <1>1, <1>2

-----------------------------------------------------------------------------
(* Every step keeps the types.                                               *)
LEMMA TypesInit == Init => Types
<1> SUFFICES ASSUME Init PROVE Types
  OBVIOUS
<1> USE DEF Init, ResidencyInit, TableInit
<1>1. Resident = {} /\ DOMAIN lru = {}
  BY DEF Resident
<1>2. TableTypes
  BY <1>1 DEF TableTypes, OrderOK
<1>3. PoolTypes
  BY DEF PoolTypes
<1>4. FlatTypes
  BY DEF FlatTypes, Indices
<1>5. MemoTypes
  BY DEF MemoTypes, NoMemo
<1>6. ShieldTypes /\ StepTypes
  BY PoolsAssumption DEF ShieldTypes, StepTypes
<1>7. PhaseOK
  BY DEF PhaseOK
<1> QED
  BY <1>2, <1>3, <1>4, <1>5, <1>6, <1>7 DEF Types

LEMMA TypesStep == Types /\ [Next]_vars => Types'
<1> SUFFICES ASSUME Types, [Next]_vars PROVE Types'
  OBVIOUS
<1> USE DEF Types
<1>1. CASE Pins
  <2>1. Head(batch).owner \in {"bound", "warm"} /\ Head(batch).keys \in SUBSET Keys
    BY <1>1, NextCommand, CommandFields DEF Pins, At
  <2>2. TableTypes' /\ MemoTypes'
    BY <1>1, <2>1, ResidentPinTypes DEF Pins
  <2> QED
    BY <1>1, <2>2, Same, DoneTypes DEF Pins, At
<1>2. CASE Capacity
  <2> DEFINE layers == Head(batch).layers
             needed == Head(batch).needed
  <2>1. layers \in Nat /\ needed \in Nat
    BY <1>2, NextCommand, CommandFields DEF Capacity, At
  <2>2. budget' = Greater(budget, layers) /\ budget' \in Nat
    BY <1>2, <2>1 DEF Capacity, PoolTypes, Greater
  <2>3. PoolTypes'
    <3>1. CASE Pools = {"raw"} /\ needed > allocated["raw"]
      <4>1. GrownTo("raw", needed, budget') /\ allocated["raw"] < budget'
        BY <1>2, <3>1, <2>1, <2>2, PoolsAssumption DEF Capacity, PoolTypes
      <4> QED
        BY <4>1, <2>1, <2>2, PoolsAssumption, GrowthTypes
    <3>2. CASE ~(Pools = {"raw"} /\ needed > allocated["raw"])
      BY <1>2, <3>2, <2>2 DEF Capacity, PoolTypes
    <3> QED
      BY <3>1, <3>2
  <2> QED
    BY <1>2, <2>3, Same, DoneTypes DEF Capacity, At
<1>3. CASE Open
  <2>1. Head(batch).keys \in SUBSET Keys
    BY <1>3, NextCommand, CommandFields DEF Open, At
  <2>2. wanted' \in SUBSET Keys /\ shield' \in SUBSET Keys
    BY <1>3, <2>1 DEF Open
  <2>3. TableTypes'
    BY <1>3, <2>2, PinTypes, Same DEF Open, Owners
  <2> QED
    BY <1>3, <2>2, <2>3, Same, DoneTypes DEF Open, At, ShieldTypes
<1>4. CASE Close
  <2>1. TableTypes'
    BY <1>4, PinTypes DEF Close, Owners
  <2> QED
    BY <1>4, <2>1, Same, DoneTypes DEF Close, At, ShieldTypes
<1>5. CASE BindPlanes
  <2> DEFINE planes == Head(batch).planes
  <2>1. planes \in Seq(Planes) /\ Head(batch).keys \in SUBSET Keys
    BY <1>5, NextCommand, CommandFields DEF BindPlanes, At
  <2>2. TableTypes' /\ MemoTypes'
    BY <1>5, <2>1, ResidentPinTypes DEF BindPlanes
  <2>3. \A ix \in Indices(planes) :
          IF ix[1] \in Kept(planes) THEN ix \in DOMAIN flat ELSE Entry(planes, ix) \in Slots \union {Unmapped}
    BY <2>1 DEF Indices, Kept, Entry, FlatTypes, TableTypes
  <2>4. FlatTypes'
    BY <1>5, <2>1, <2>3 DEF BindPlanes, FlatTypes, Indices
  <2> QED
    BY <1>5, <2>2, <2>4, Same, DoneTypes DEF BindPlanes, At
<1>6. CASE AlreadyThere
  <2>1. TableTypes' /\ Resident' = Resident
    BY <1>6, TouchTypes DEF AlreadyThere, Touch, Resident
  <2>2. StepTypes' /\ PhaseOK'
    BY <1>6 DEF AlreadyThere, At, GoOn, StepTypes, PhaseOK
  <2> QED
    BY <1>6, <2>1, <2>2, Same DEF AlreadyThere
<1>7. CASE EnsureCold
  <2>1. Resident' = Resident
    BY <1>7 DEF EnsureCold, tableVars, Resident
  <2>2. StepTypes' /\ PhaseOK'
    BY <1>7, <2>1 DEF EnsureCold, At, StepTypes, PhaseOK, Key
  <2> QED
    BY <1>7, <2>2, Same DEF EnsureCold
<1>8. CASE GenerateCold
  <2>1. Kids(Key) \in SUBSET Keys
    BY <1>8, KeyTypes DEF GenerateCold, At
  <2>2. TableTypes'
    BY <1>8, <2>1, PinTypes DEF GenerateCold, Owners
  <2>4. Resident' = Resident
    BY <1>8 DEF GenerateCold, ReplacePinSet, Resident
  <2>3. StepTypes' /\ PhaseOK'
    BY <1>8, <2>4, PoolsAssumption DEF GenerateCold, At, StepTypes, PhaseOK, Key
  <2> QED
    BY <1>8, <2>2, <2>3, Same DEF GenerateCold
<1>9. CASE Refused
  BY <1>9, Same, RaiseTypes DEF Refused
<1>10. CASE Grow
  <2>1. GrownTo(target, 0, budget) /\ allocated[target] < budget /\ target \in Pools /\ budget \in Nat
    BY <1>10 DEF Grow, StepTypes, PoolTypes
  <2>2. PoolTypes'
    BY <1>10, <2>1, GrowthTypes DEF Grow
  <2>3. Resident' = Resident
    BY <1>10 DEF Grow, tableVars, Resident
  <2> QED
    BY <1>10, <2>2, <2>3, Same DEF Grow
<1>11. ASSUME NEW k \in Resident, Evict(k), UNCHANGED stepVars, phase = "room"
       PROVE  Types'
  <2>1. TableTypes' /\ PoolTypes' /\ FlatTypes' /\ MemoTypes' /\ ShieldTypes'
          /\ Resident' = Resident \ {k}
    BY <1>11, EvictTypes
  <2>2. StepTypes'
    BY <1>11, Same
  <2>3. PhaseOK'
    BY <1>11, <2>1 DEF PhaseOK, stepVars, Key
  <2> QED
    BY <2>1, <2>2, <2>3
<1>12. CASE EvictOldest
  <2>1. \E k \in Resident : Evict(k)
    BY <1>12 DEF EvictOldest, EvictionCandidates, Oldest, InPool
  <2>2. UNCHANGED stepVars /\ phase = "room"
    BY <1>12 DEF EvictOldest, Full
  <2> QED
    BY <1>11, <2>1, <2>2
<1>13. CASE YieldShield
  <2>1. \E k \in Resident : Evict(k)
    BY <1>13 DEF YieldShield, ShieldOnly, Oldest, InPool
  <2>2. UNCHANGED stepVars /\ phase = "room"
    BY <1>13 DEF YieldShield, Full
  <2> QED
    BY <1>11, <2>1, <2>2
<1>14. CASE Exhausted
  <2>1. TableTypes'
    BY <1>14, PinTypes, Same DEF Exhausted, Owners
  <2> QED
    BY <1>14, <2>1, Same, RaiseTypes DEF Exhausted
<1>15. CASE TakeLayer
  <2>1. FirstFree(target) \in free[target] /\ free[target] \subseteq Nat /\ target \in Pools
    <3>1. target \in Pools /\ free[target] \in SUBSET Nat /\ free[target] # {}
      BY <1>15 DEF TakeLayer, StepTypes, PoolTypes
    <3>2. \E n \in free[target] : \A m \in free[target] : n <= m
      BY <3>1, LeastOfNat
    <3> QED
      BY <3>1, <3>2 DEF FirstFree
  <2>2. hand' \in Slots /\ hand' # Unmapped
    BY <1>15, <2>1, UnmappedAssumption DEF TakeLayer, Slots
  <2>3. PoolTypes'
    BY <1>15, <2>1 DEF TakeLayer, PoolTypes
  <2>4. Resident' = Resident
    BY <1>15 DEF TakeLayer, tableVars, Resident
  <2>5. StepTypes' /\ PhaseOK'
    BY <1>15, <2>2, <2>4 DEF TakeLayer, StepTypes, PhaseOK, Key
  <2> QED
    BY <1>15, <2>3, <2>5, Same DEF TakeLayer
<1>16. CASE Reduce
  <2>1. TableTypes'
    BY <1>16, PinTypes DEF Reduce, Owners
  <2>3. Resident' = Resident
    BY <1>16 DEF Reduce, ReplacePinSet, Resident
  <2>2. StepTypes' /\ PhaseOK'
    BY <1>16, <2>3 DEF Reduce, GoOn, StepTypes, PhaseOK, Key
  <2> QED
    BY <1>16, <2>1, <2>2, Same DEF Reduce
<1>17. CASE ReduceFails
  <2>1. TableTypes'
    BY <1>17, PinTypes DEF ReduceFails, Owners
  <2>2. hand \in Slots
    BY <1>17 DEF ReduceFails, StepTypes, PhaseOK
  <2>3. PoolTypes'
    BY <1>17, <2>2 DEF ReduceFails, PoolTypes, Give, Slots
  <2> QED
    BY <1>17, <2>1, <2>3, Same, RaiseTypes DEF ReduceFails
<1>18. CASE BindPage
  <2>1. hand \in Slots /\ Key \in Keys /\ Key \notin Resident
    BY <1>18, KeyTypes DEF BindPage, StepTypes, PhaseOK
  <2>2. TableTypes'
    BY <1>18, <2>1, BindTypes DEF BindPage
  <2>3. FlatTypes'
    BY <1>18, <2>1, MappedTypes DEF BindPage
  <2>4. StepTypes' /\ PhaseOK'
    BY <1>18 DEF BindPage, StepTypes, PhaseOK
  <2> QED
    BY <1>18, <2>2, <2>3, <2>4, Same DEF BindPage
<1>19. CASE Shield
  <2>1. Key \in Keys
    BY <1>19, KeyTypes DEF Shield, PhaseOK
  <2>2. shield' \in SUBSET Keys
    BY <1>19, <2>1 DEF Shield, ShieldTypes
  <2>3. TableTypes'
    BY <1>19, <2>2, PinTypes, Same DEF Shield, Owners
  <2> QED
    BY <1>19, <2>2, <2>3, Same, DoneTypes DEF Shield, ShieldTypes, PhaseOK
<1>20. CASE EvictChunk
  <2>1. TableTypes' /\ PoolTypes' /\ FlatTypes' /\ MemoTypes' /\ ShieldTypes'
    BY <1>20, EvictTypes, Same DEF EvictChunk
  <2> QED
    BY <1>20, <2>1, DoneTypes DEF EvictChunk, At
<1>21. CASE Histogram \/ Return
  BY <1>21, Same, DoneTypes DEF Histogram, Return, At
<1>22. CASE Call
  <2>1. StepTypes' /\ PhaseOK'
    BY <1>22 DEF Call, StepTypes, PhaseOK
  <2> QED
    BY <1>22, <2>1, Same DEF Call
<1>23. CASE UNCHANGED vars
  <2>1. Resident' = Resident
    BY <1>23 DEF vars, tableVars, Resident
  <2> QED
    BY <1>23, <2>1, Same DEF vars
<1> QED
  BY <1>1, <1>2, <1>3, <1>4, <1>5, <1>6, <1>7, <1>8, <1>9, <1>10, <1>12, <1>13, <1>14, <1>15,
     <1>16, <1>17, <1>18, <1>19, <1>20, <1>21, <1>22, <1>23 DEF Next, Step

(* The page table and the executor keep their types under any caller.        *)
THEOREM ResidencyTypes == Spec => []TypeOK
<1>1. Types => TypeOK
  BY DEF Types, TableTypes, PoolTypes, FlatTypes, MemoTypes, ShieldTypes, StepTypes, TypeOK
<1> QED
  BY <1>1, TypesInit, TypesStep, PTL DEF Spec

-----------------------------------------------------------------------------
(* Pins.                                                                     *)
PinsOwned ==
  /\ \A o \in Owners : pins[o] \subseteq Resident
  /\ pinned = {k \in Resident : OwnersOf(k) # {}}

LEMMA PinSetKeeps ==
    ASSUME TableTypes, PinsOwned, NEW owner \in Owners, NEW keys \in SUBSET Resident,
           ReplacePinSet(owner, keys)
    PROVE  PinsOwned' /\ pins' = [pins EXCEPT ![owner] = keys] /\ Resident' = Resident
<1>1. pins' = [pins EXCEPT ![owner] = keys] /\ Resident' = Resident
  BY DEF ReplacePinSet, Resident
<1>2. \A o \in Owners : pins'[o] = IF o = owner THEN keys ELSE pins[o]
  BY <1>1 DEF TableTypes
<1>3. \A o \in Owners : pins'[o] \subseteq Resident'
  BY <1>1, <1>2 DEF PinsOwned
<1> DEFINE moved == (pins[owner] \ keys) \union (keys \ pins[owner])
<1>4. pinned' = (pinned \ moved)
                  \union {k \in moved \intersect Resident : \E o \in Owners : k \in pins'[o]}
  BY <1>1 DEF ReplacePinSet
<1>5. \A k \in Resident \ moved : \A o \in Owners : k \in pins'[o] <=> k \in pins[o]
  BY <1>2
<1>6. \A k : k \in pinned' <=> k \in Resident /\ \E o \in Owners : k \in pins'[o]
  <2> TAKE k
  <2>1. k \in pinned <=> k \in Resident /\ \E o \in Owners : k \in pins[o]
    BY DEF PinsOwned, OwnersOf
  <2>2. CASE k \in moved
    BY <2>2, <1>4, <2>1
  <2>3. CASE k \notin moved
    <3>1. k \in pinned' <=> k \in pinned
      BY <2>3, <1>4
    <3>2. k \in Resident => \A o \in Owners : k \in pins'[o] <=> k \in pins[o]
      BY <2>3, <1>5
    <3> QED
      BY <3>1, <3>2, <2>1
  <2> QED
    BY <2>2, <2>3
<1>7. pinned' = {k \in Resident' : OwnersOf(k)' # {}}
  BY <1>1, <1>6 DEF OwnersOf
<1> QED
  BY <1>1, <1>3, <1>7 DEF PinsOwned

LEMMA BindKeeps ==
    ASSUME TableTypes, PinsOwned, NEW k, NEW s, Bind(k, s)
    PROVE  PinsOwned'
<1>1. Resident' = Resident \union {k} /\ pins' = pins
  BY DEF Bind, Resident
<1>2. pinned' = IF OwnersOf(k) = {} THEN pinned \ {k} ELSE pinned \union {k}
  BY DEF Bind
<1>3. \A x : OwnersOf(x)' = OwnersOf(x)
  BY <1>1 DEF OwnersOf
<1> QED
  BY <1>1, <1>2, <1>3 DEF PinsOwned

LEMMA UnbindKeeps ==
    ASSUME TableTypes, PinsOwned, NEW k, Unbind(k)
    PROVE  PinsOwned'
<1>1. Resident' = Resident \ {k} /\ pins' = [o \in Owners |-> pins[o] \ {k}]
        /\ pinned' = pinned \ {k}
  BY DEF Unbind, Resident
<1>2. \A x \in Resident' : OwnersOf(x)' = OwnersOf(x)
  BY <1>1 DEF OwnersOf
<1>3. \A o \in Owners : pins'[o] \subseteq Resident'
  BY <1>1 DEF PinsOwned
<1> QED
  BY <1>1, <1>2, <1>3 DEF PinsOwned

LEMMA SamePins ==
    ASSUME PinsOwned, UNCHANGED <<pins, pinned>>, Resident' = Resident
    PROVE  PinsOwned'
BY DEF PinsOwned, OwnersOf

LEMMA ResidentPinKeeps ==
    ASSUME TableTypes, PinsOwned, NEW owner \in {"bound", "warm"}, NEW keys,
           ReplaceResidentPinSet(owner, keys)
    PROVE  /\ PinsOwned' /\ Resident' = Resident
           /\ pins'["lod"] = pins["lod"] /\ pins'["shield"] = pins["shield"]
<1>1. CASE MemoAnswers(owner, keys)
  <2>1. UNCHANGED tableVars
    BY <1>1 DEF ReplaceResidentPinSet
  <2> QED
    BY <2>1, SamePins DEF tableVars, Resident
<1>2. CASE ~MemoAnswers(owner, keys)
  <2>1. ReplacePinSet(owner, keys \intersect Resident)
    BY <1>2 DEF ReplaceResidentPinSet
  <2>2. /\ PinsOwned' /\ Resident' = Resident
        /\ pins' = [pins EXCEPT ![owner] = keys \intersect Resident]
    BY <2>1, PinSetKeeps DEF Owners
  <2> QED
    BY <2>2 DEF TableTypes, Owners
<1> QED
  BY <1>1, <1>2

(* What a histogram of this submission wants and is resident is shielded,    *)
(* but for the page that was bound and is shielded next.                     *)
ShieldCovers ==
  \A k \in wanted \intersect Resident : k \in shield \/ (phase = "shield" /\ k = Key)

(* A submission that is open is closed before another one opens.             *)
Closing(commands) ==
  \E j \in DOMAIN commands :
    commands[j].op = "close" /\ \A m \in 1 .. (j - 1) : commands[m].op # "open"

Submission == Closes(batch) /\ (wanted # {} \/ shield # {} => Closing(batch))

LodPins ==
  /\ phase \in {"ready", "bind", "shield"} => pins["lod"] = {}
  /\ phase = "room" /\ Head(batch).op = "ensure" => pins["lod"] = {}

PinInv == PinsOwned /\ shield = pins["shield"] /\ LodPins /\ ShieldCovers /\ Submission

LEMMA TailFacts ==
    ASSUME NEW S, NEW s \in Seq(S), s # <<>>
    PROVE  /\ Len(s) \in Nat \ {0} /\ DOMAIN s = 1 .. Len(s) /\ Head(s) = s[1]
           /\ Tail(s) \in Seq(S) /\ DOMAIN Tail(s) = 1 .. (Len(s) - 1)
           /\ \A i \in 1 .. (Len(s) - 1) : Tail(s)[i] = s[i + 1]
OBVIOUS

LEMMA TailCloses ==
    ASSUME NEW S, NEW s \in Seq(S), s # <<>>, Closes(s)
    PROVE  /\ Closes(Tail(s))
           /\ Head(s).op = "open" => Closing(Tail(s))
<1> USE TailFacts
<1>1. Closes(Tail(s))
  <2> SUFFICES ASSUME NEW i \in 1 .. (Len(s) - 1), Tail(s)[i].op = "open"
               PROVE  \E j \in DOMAIN Tail(s) :
                        /\ i < j /\ Tail(s)[j].op = "close"
                        /\ \A m \in (i + 1) .. (j - 1) : Tail(s)[m].op # "open"
    BY DEF Closes
  <2>1. i + 1 \in DOMAIN s /\ s[i + 1].op = "open"
    OBVIOUS
  <2>2. PICK j \in DOMAIN s :
          /\ i + 1 < j /\ s[j].op = "close"
          /\ \A m \in ((i + 1) + 1) .. (j - 1) : s[m].op # "open"
    BY <2>1 DEF Closes
  <2>3. j - 1 \in DOMAIN Tail(s) /\ i < j - 1 /\ Tail(s)[j - 1].op = "close"
    BY <2>2
  <2>4. \A m \in (i + 1) .. ((j - 1) - 1) : Tail(s)[m].op # "open"
    BY <2>2
  <2> QED
    BY <2>3, <2>4
<1>2. ASSUME Head(s).op = "open" PROVE Closing(Tail(s))
  <2>1. PICK j \in DOMAIN s :
          /\ 1 < j /\ s[j].op = "close"
          /\ \A m \in 2 .. (j - 1) : s[m].op # "open"
    BY <1>2 DEF Closes
  <2>2. j - 1 \in DOMAIN Tail(s) /\ Tail(s)[j - 1].op = "close"
    BY <2>1
  <2>3. \A m \in 1 .. ((j - 1) - 1) : Tail(s)[m].op # "open"
    BY <2>1
  <2> QED
    BY <2>2, <2>3 DEF Closing
<1> QED
  BY <1>1, <1>2

LEMMA TailClosing ==
    ASSUME NEW S, NEW s \in Seq(S), s # <<>>, Closing(s), Head(s).op # "close"
    PROVE  Closing(Tail(s))
<1> USE TailFacts
<1>1. PICK j \in DOMAIN s : s[j].op = "close" /\ \A m \in 1 .. (j - 1) : s[m].op # "open"
  BY DEF Closing
<1>2. j # 1
  BY <1>1
<1>3. j - 1 \in DOMAIN Tail(s) /\ Tail(s)[j - 1].op = "close"
  BY <1>1, <1>2
<1>4. \A m \in 1 .. ((j - 1) - 1) : Tail(s)[m].op # "open"
  BY <1>1, <1>2
<1> QED
  BY <1>3, <1>4 DEF Closing

(* A command that neither opens nor closes leaves the submission as it is.   *)
LEMMA DoneSubmission ==
    ASSUME StepTypes, batch # <<>>, Submission, Done,
           \/ Head(batch).op # "close" /\ wanted' = wanted /\ (shield' # {} => shield # {} \/ wanted # {})
           \/ wanted' = {} /\ shield' = {}
           \/ Head(batch).op = "open"
    PROVE  Submission'
<1>1. batch \in Seq(Command) /\ batch' = Tail(batch) /\ Closes(batch)
  BY DEF StepTypes, Done, Submission
<1>2. Closes(batch') /\ (Head(batch).op = "open" => Closing(batch'))
  BY <1>1, TailCloses
<1>3. Head(batch).op # "close" /\ Closing(batch) => Closing(batch')
  BY <1>1, TailClosing
<1>4. Closes(batch)' /\ (wanted' # {} \/ shield' # {} => Closing(batch'))
  BY <1>2, <1>3 DEF Submission
<1> QED
  BY <1>4 DEF Submission, Closes, Closing

LEMMA RaiseSubmission ==
    ASSUME Raise PROVE Submission'
<1>1. batch' = <<[op |-> "close"]>>
  BY DEF Raise
<1>2. DOMAIN batch' = {1} /\ batch'[1].op = "close"
  BY <1>1
<1>3. Closes(batch')
  BY <1>2 DEF Closes
<1>4. Closing(batch')
  BY <1>2 DEF Closing
<1> QED
  BY <1>3, <1>4 DEF Submission, Closes, Closing

LEMMA SameSubmission ==
    ASSUME Submission, batch' = batch, wanted' = wanted, shield' \subseteq shield
    PROVE  Submission'
BY DEF Submission, Closes, Closing

LEMMA PinInit == Init => PinInv
<1> SUFFICES ASSUME Init PROVE PinInv
  OBVIOUS
<1> USE DEF Init, ResidencyInit, TableInit
<1>1. PinsOwned
  BY DEF PinsOwned, Owners, Resident, OwnersOf
<1>2. Submission
  BY DEF Submission, Closes
<1> QED
  BY <1>1, <1>2 DEF PinInv, LodPins, ShieldCovers, Owners

(* An eviction takes its page out of the shield and out of every pin set.    *)
LEMMA EvictPins ==
    ASSUME Types, PinInv, NEW k \in Resident, Evict(k)
    PROVE  /\ PinsOwned' /\ shield' = pins'["shield"] /\ shield' \subseteq shield
           /\ pins'["lod"] = pins["lod"] \ {k}
           /\ wanted' = wanted /\ Resident' = Resident \ {k} /\ shield' = shield \ {k}
<1>1. PinsOwned'
  BY UnbindKeeps DEF Types, PinInv, Evict
<1>2. pins' = [o \in Owners |-> pins[o] \ {k}] /\ shield' = shield \ {k} /\ wanted' = wanted
        /\ Resident' = Resident \ {k}
  BY DEF Evict, Unbind, Resident
<1> QED
  BY <1>1, <1>2 DEF PinInv, Owners

LEMMA PinStep == Types /\ PinInv /\ [Next]_vars => PinInv'
<1> SUFFICES ASSUME Types, PinInv, [Next]_vars PROVE PinInv'
  OBVIOUS
<1>a. /\ TableTypes /\ StepTypes /\ PhaseOK
      /\ PinsOwned /\ shield = pins["shield"] /\ LodPins /\ ShieldCovers /\ Submission
      /\ pins \in [Owners -> SUBSET Keys]
  BY DEF Types, PinInv, TableTypes
<1>o. \A o \in {"bound", "warm", "lod", "shield"} : o \in Owners
  BY DEF Owners
<1>1. CASE Pins \/ BindPlanes
  <2>1. PICK owner \in {"bound", "warm"}, keys \in SUBSET Keys : ReplaceResidentPinSet(owner, keys)
    BY <1>1, <1>a, NextCommand, CommandFields DEF Pins, BindPlanes, At
  <2>2. /\ PinsOwned' /\ Resident' = Resident
        /\ pins'["lod"] = pins["lod"] /\ pins'["shield"] = pins["shield"]
    BY <2>1, <1>a, ResidentPinKeeps
  <2>3. /\ UNCHANGED <<wanted, shield>> /\ Done /\ batch # <<>> /\ phase = "ready" /\ phase' = "ready"
        /\ Head(batch).op \in {"pins", "planes"}
    BY <1>1 DEF Pins, BindPlanes, At, Done, shieldVars
  <2>4. Submission'
    BY <2>3, <1>a, DoneSubmission
  <2>5. LodPins' /\ ShieldCovers'
    BY <2>2, <2>3, <1>a DEF LodPins, ShieldCovers
  <2> QED
    BY <2>2, <2>3, <2>4, <2>5, <1>a DEF PinInv
<1>2. CASE Capacity \/ Histogram \/ Return \/ (EvictChunk /\ Key \notin Resident)
  <2>1. /\ UNCHANGED <<tableVars, shieldVars>> /\ Done /\ batch # <<>> /\ phase = "ready" /\ phase' = "ready"
        /\ Head(batch).op \in {"capacity", "histogram", "return", "evict"}
    BY <1>2 DEF Capacity, Histogram, Return, EvictChunk, At, Done
  <2>2. PinsOwned' /\ Resident' = Resident
    BY <2>1, <1>a, SamePins DEF tableVars, Resident
  <2>3. Submission'
    BY <2>1, <1>a, DoneSubmission DEF shieldVars
  <2>4. LodPins' /\ ShieldCovers'
    BY <2>1, <2>2, <1>a DEF LodPins, ShieldCovers, tableVars, shieldVars
  <2> QED
    BY <2>1, <2>2, <2>3, <2>4, <1>a DEF PinInv, tableVars, shieldVars
<1>3. CASE Open
  <2>1. /\ batch # <<>> /\ phase = "ready" /\ Head(batch).op = "open" /\ Done /\ phase' = "ready"
        /\ wanted' = Head(batch).keys /\ shield' = Head(batch).keys \intersect Resident
    BY <1>3 DEF Open, At, Done
  <2>2. shield = {}
    <3>1. ~Closing(batch)
      <4> SUFFICES ASSUME Closing(batch) PROVE FALSE
        OBVIOUS
      <4>1. batch \in Seq(Command)
        BY <1>a DEF StepTypes
      <4>2. PICK j \in DOMAIN batch :
              batch[j].op = "close" /\ \A m \in 1 .. (j - 1) : batch[m].op # "open"
        BY DEF Closing
      <4>3. j \in Nat \ {0} /\ batch[1].op = "open"
        BY <4>1, <2>1
      <4> QED
        BY <4>2, <4>3
    <3> QED
      BY <3>1, <1>a DEF Submission
  <2>3. PinsOwned' /\ shield' = pins'["shield"] /\ Resident' = Resident /\ pins'["lod"] = pins["lod"]
    <3>1. CASE shield' = {}
      <4>1. UNCHANGED tableVars
        BY <1>3, <3>1 DEF Open
      <4> QED
        BY <4>1, <3>1, <2>2, <1>a, SamePins DEF tableVars, Resident
    <3>2. CASE shield' # {}
      <4>1. ReplacePinSet("shield", shield') /\ shield' \in SUBSET Resident
        BY <1>3, <3>2, <2>1 DEF Open
      <4>2. PinsOwned' /\ pins' = [pins EXCEPT !["shield"] = shield'] /\ Resident' = Resident
        BY <4>1, <1>a, <1>o, PinSetKeeps
      <4> QED
        BY <4>2, <1>a, <1>o
    <3> QED
      BY <3>1, <3>2
  <2>4. Submission'
    BY <2>1, <1>a, DoneSubmission
  <2>5. LodPins' /\ ShieldCovers'
    BY <2>1, <2>3, <1>a DEF LodPins, ShieldCovers
  <2> QED
    BY <2>3, <2>4, <2>5 DEF PinInv
<1>4. CASE Close
  <2>1. /\ batch # <<>> /\ phase = "ready" /\ Done /\ phase' = "ready"
        /\ wanted' = {} /\ shield' = {} /\ ReplacePinSet("shield", {})
    BY <1>4 DEF Close, At, Done
  <2>2. PinsOwned' /\ pins' = [pins EXCEPT !["shield"] = {}] /\ Resident' = Resident
    BY <2>1, <1>a, <1>o, PinSetKeeps
  <2>3. pins'["shield"] = {} /\ pins'["lod"] = pins["lod"]
    BY <2>2, <1>a, <1>o
  <2>4. Submission'
    BY <2>1, <1>a, DoneSubmission
  <2>5. LodPins' /\ ShieldCovers'
    BY <2>1, <2>3, <1>a DEF LodPins, ShieldCovers
  <2> QED
    BY <2>1, <2>2, <2>3, <2>4, <2>5 DEF PinInv
<1>5. CASE AlreadyThere
  <2>1. /\ UNCHANGED <<slot, pins, pinned, shieldVars, batch>> /\ phase = "ready" /\ phase' = "shield"
        /\ Resident' = Resident
    BY <1>5 DEF AlreadyThere, At, Touch, GoOn, Resident
  <2>2. PinsOwned' /\ Submission'
    BY <2>1, <1>a, SamePins, SameSubmission DEF shieldVars
  <2>3. LodPins' /\ ShieldCovers'
    BY <2>1, <1>a DEF LodPins, ShieldCovers, shieldVars
  <2> QED
    BY <2>1, <2>2, <2>3, <1>a DEF PinInv, shieldVars
<1>6. CASE EnsureCold
  <2>1. /\ UNCHANGED <<tableVars, shieldVars, batch>> /\ phase = "ready" /\ phase' = "room"
        /\ Resident' = Resident
    BY <1>6 DEF EnsureCold, At, tableVars, Resident
  <2>2. PinsOwned' /\ Submission'
    BY <2>1, <1>a, SamePins, SameSubmission DEF shieldVars, tableVars
  <2>3. LodPins' /\ ShieldCovers'
    BY <2>1, <1>a DEF LodPins, ShieldCovers, shieldVars, tableVars
  <2> QED
    BY <2>1, <2>2, <2>3, <1>a DEF PinInv, shieldVars, tableVars
<1>7. CASE GenerateCold
  <2>1. /\ UNCHANGED <<shieldVars, batch>> /\ phase = "ready" /\ phase' = "room"
        /\ Head(batch).op = "generate"
        /\ Kids(Key) \in SUBSET Resident /\ ReplacePinSet("lod", Kids(Key))
    BY <1>7 DEF GenerateCold, At
  <2>2. PinsOwned' /\ pins' = [pins EXCEPT !["lod"] = Kids(Key)] /\ Resident' = Resident
    BY <2>1, <1>a, <1>o, PinSetKeeps
  <2>3. Submission' /\ pins'["shield"] = pins["shield"]
    BY <2>1, <2>2, <1>a, <1>o, SameSubmission DEF shieldVars
  <2>4. LodPins' /\ ShieldCovers'
    BY <2>1, <2>2, <1>a DEF LodPins, ShieldCovers, shieldVars
  <2> QED
    BY <2>1, <2>2, <2>3, <2>4, <1>a DEF PinInv, shieldVars
<1>8. CASE Refused
  <2>1. /\ UNCHANGED <<tableVars, shieldVars>> /\ phase = "ready" /\ phase' = "ready" /\ Raise
        /\ Resident' = Resident
    BY <1>8 DEF Refused, At, Raise, tableVars, Resident
  <2>2. PinsOwned' /\ Submission'
    BY <2>1, <1>a, SamePins, RaiseSubmission DEF tableVars
  <2>3. LodPins' /\ ShieldCovers'
    BY <2>1, <1>a DEF LodPins, ShieldCovers, shieldVars, tableVars
  <2> QED
    BY <2>1, <2>2, <2>3, <1>a DEF PinInv, shieldVars, tableVars
<1>9. CASE Grow \/ TakeLayer
  <2>1. /\ UNCHANGED <<tableVars, shieldVars, batch>> /\ phase = "room"
        /\ phase' \in {"room", "reduce", "bind"}
        /\ phase' = "bind" => Head(batch).op = "ensure"
        /\ Resident' = Resident
    BY <1>9, <1>a DEF Grow, TakeLayer, Full, stepVars, tableVars, Resident, PhaseOK
  <2>2. PinsOwned' /\ Submission'
    BY <2>1, <1>a, SamePins, SameSubmission DEF shieldVars, tableVars
  <2>3. LodPins' /\ ShieldCovers'
    BY <2>1, <1>a DEF LodPins, ShieldCovers, shieldVars, tableVars
  <2> QED
    BY <2>1, <2>2, <2>3, <1>a DEF PinInv, shieldVars, tableVars
<1>10. CASE EvictOldest \/ YieldShield
  <2>1. PICK k \in Resident : Evict(k)
    BY <1>10 DEF EvictOldest, YieldShield, EvictionCandidates, ShieldOnly, Oldest, InPool
  <2>2. UNCHANGED stepVars /\ phase = "room"
    BY <1>10 DEF EvictOldest, YieldShield, Full
  <2>3. /\ PinsOwned' /\ shield' = pins'["shield"] /\ shield' \subseteq shield
        /\ pins'["lod"] = pins["lod"] \ {k}
        /\ wanted' = wanted /\ Resident' = Resident \ {k} /\ shield' = shield \ {k}
    BY <2>1, EvictPins
  <2>4. Submission'
    BY <2>2, <2>3, <1>a, SameSubmission DEF stepVars
  <2>5. LodPins' /\ ShieldCovers'
    BY <2>2, <2>3, <1>a DEF LodPins, ShieldCovers, stepVars
  <2> QED
    BY <2>3, <2>4, <2>5 DEF PinInv
<1>11. CASE Exhausted
  <2>1. phase = "room" /\ phase' = "ready" /\ Raise /\ UNCHANGED shieldVars
        /\ Head(batch).op \in {"ensure", "generate"}
    BY <1>11, <1>a DEF Exhausted, Full, Raise, PhaseOK
  <2>2. PinsOwned' /\ Resident' = Resident /\ pins'["lod"] = {} /\ pins'["shield"] = pins["shield"]
    <3>1. CASE Head(batch).op = "generate"
      <4>1. ReplacePinSet("lod", {})
        BY <1>11, <3>1 DEF Exhausted
      <4>2. PinsOwned' /\ pins' = [pins EXCEPT !["lod"] = {}] /\ Resident' = Resident
        BY <4>1, <1>a, <1>o, PinSetKeeps
      <4> QED
        BY <4>2, <1>a, <1>o
    <3>2. CASE Head(batch).op = "ensure"
      <4>1. UNCHANGED tableVars
        BY <1>11, <3>2 DEF Exhausted
      <4> QED
        BY <4>1, <2>1, <3>2, <1>a, SamePins DEF tableVars, Resident, LodPins
    <3> QED
      BY <2>1, <3>1, <3>2
  <2>3. Submission'
    BY <2>1, RaiseSubmission
  <2>4. LodPins' /\ ShieldCovers'
    BY <2>1, <2>2, <1>a DEF LodPins, ShieldCovers, shieldVars
  <2> QED
    BY <2>1, <2>2, <2>3, <2>4, <1>a DEF PinInv, shieldVars
<1>12. CASE Reduce
  <2>1. /\ ReplacePinSet("lod", {}) /\ phase = "reduce" /\ phase' = "bind"
        /\ UNCHANGED <<shieldVars, batch>>
    BY <1>12 DEF Reduce, GoOn
  <2>2. PinsOwned' /\ pins' = [pins EXCEPT !["lod"] = {}] /\ Resident' = Resident
    BY <2>1, <1>a, <1>o, PinSetKeeps
  <2>3. Submission' /\ pins'["shield"] = pins["shield"] /\ pins'["lod"] = {}
    BY <2>1, <2>2, <1>a, <1>o, SameSubmission DEF shieldVars
  <2>4. LodPins' /\ ShieldCovers'
    BY <2>1, <2>2, <2>3, <1>a DEF LodPins, ShieldCovers, shieldVars
  <2> QED
    BY <2>1, <2>2, <2>3, <2>4, <1>a DEF PinInv, shieldVars
<1>13. CASE ReduceFails
  <2>1. /\ ReplacePinSet("lod", {}) /\ phase = "reduce" /\ phase' = "ready" /\ Raise
        /\ UNCHANGED shieldVars
    BY <1>13 DEF ReduceFails, Raise
  <2>2. PinsOwned' /\ pins' = [pins EXCEPT !["lod"] = {}] /\ Resident' = Resident
    BY <2>1, <1>a, <1>o, PinSetKeeps
  <2>3. Submission' /\ pins'["shield"] = pins["shield"] /\ pins'["lod"] = {}
    BY <2>1, <2>2, <1>a, <1>o, RaiseSubmission
  <2>4. LodPins' /\ ShieldCovers'
    BY <2>1, <2>2, <2>3, <1>a DEF LodPins, ShieldCovers, shieldVars
  <2> QED
    BY <2>1, <2>2, <2>3, <2>4, <1>a DEF PinInv, shieldVars
<1>14. CASE BindPage
  <2>1. /\ Bind(Key, hand) /\ phase = "bind" /\ phase' = "shield"
        /\ UNCHANGED <<shieldVars, batch>> /\ pins' = pins /\ Resident' = Resident \union {Key}
    BY <1>14 DEF BindPage, Bind, Resident
  <2>2. PinsOwned' /\ Submission'
    BY <2>1, <1>a, BindKeeps, SameSubmission DEF shieldVars
  <2>3. LodPins' /\ ShieldCovers'
    BY <2>1, <1>a DEF LodPins, ShieldCovers, shieldVars, Key
  <2> QED
    BY <2>1, <2>2, <2>3, <1>a DEF PinInv, shieldVars
<1>15. CASE Shield
  <2>1. /\ phase = "shield" /\ phase' = "ready" /\ Done /\ wanted' = wanted
        /\ batch # <<>> /\ Head(batch).op \in {"ensure", "generate"}
    BY <1>15, <1>a DEF Shield, Done, PhaseOK
  <2>2. /\ PinsOwned' /\ Resident' = Resident /\ shield' = pins'["shield"] /\ pins'["lod"] = pins["lod"]
        /\ shield \subseteq shield' /\ (shield' # {} => shield # {} \/ wanted # {})
        /\ Key \in wanted /\ Key \in Resident => Key \in shield'
    <3>1. CASE Key \in wanted /\ Key \notin shield /\ Key \in Resident
      <4>1. ReplacePinSet("shield", shield') /\ shield' = shield \union {Key}
        BY <1>15, <3>1 DEF Shield
      <4>2. shield' \in SUBSET Resident
        BY <4>1, <3>1, <1>a, <1>o DEF PinsOwned
      <4>3. PinsOwned' /\ pins' = [pins EXCEPT !["shield"] = shield'] /\ Resident' = Resident
        BY <4>1, <4>2, <1>a, <1>o, PinSetKeeps
      <4> QED
        BY <4>1, <4>3, <3>1, <1>a, <1>o
    <3>2. CASE ~(Key \in wanted /\ Key \notin shield /\ Key \in Resident)
      <4>1. UNCHANGED <<tableVars, shield>>
        BY <1>15, <3>2 DEF Shield
      <4> QED
        BY <4>1, <3>2, <1>a, SamePins DEF tableVars, Resident
    <3> QED
      BY <3>1, <3>2
  <2>3. Submission'
    BY <2>1, <2>2, <1>a, DoneSubmission
  <2>4. LodPins' /\ ShieldCovers'
    BY <2>1, <2>2, <1>a DEF LodPins, ShieldCovers
  <2> QED
    BY <2>2, <2>3, <2>4 DEF PinInv
<1>16. CASE EvictChunk /\ Key \in Resident
  <2>1. Evict(Key) /\ Done /\ phase = "ready" /\ phase' = "ready" /\ batch # <<>>
        /\ Head(batch).op = "evict"
    BY <1>16 DEF EvictChunk, At, Done
  <2>2. /\ PinsOwned' /\ shield' = pins'["shield"] /\ shield' \subseteq shield
        /\ pins'["lod"] = pins["lod"] \ {Key}
        /\ wanted' = wanted /\ Resident' = Resident \ {Key} /\ shield' = shield \ {Key}
    BY <2>1, <1>16, EvictPins
  <2>3. Submission'
    BY <2>1, <2>2, <1>a, DoneSubmission
  <2>4. LodPins' /\ ShieldCovers'
    BY <2>1, <2>2, <1>a DEF LodPins, ShieldCovers
  <2> QED
    BY <2>2, <2>3, <2>4 DEF PinInv
<1>17. CASE Call
  <2>1. /\ UNCHANGED <<tableVars, shieldVars, phase>> /\ batch = <<>> /\ Closes(batch)'
        /\ Resident' = Resident
    BY <1>17 DEF Call, tableVars, Resident, Closes
  <2>2. phase = "ready" /\ wanted = {} /\ shield = {}
    BY <2>1, <1>a DEF PhaseOK, StepTypes, Submission, Closing
  <2>3. PinsOwned' /\ Submission'
    BY <2>1, <2>2, <1>a, SamePins DEF tableVars, shieldVars, Submission
  <2>4. LodPins' /\ ShieldCovers'
    BY <2>1, <2>2, <1>a DEF LodPins, ShieldCovers, tableVars, shieldVars
  <2> QED
    BY <2>1, <2>3, <2>4, <1>a DEF PinInv, tableVars, shieldVars
<1>18. CASE UNCHANGED vars
  <2>1. UNCHANGED <<tableVars, shieldVars, batch, phase>> /\ Resident' = Resident
    BY <1>18 DEF vars, stepVars, tableVars, Resident
  <2>2. PinsOwned' /\ Submission'
    BY <2>1, <1>a, SamePins, SameSubmission DEF tableVars, shieldVars
  <2>3. LodPins' /\ ShieldCovers'
    BY <2>1, <1>a DEF LodPins, ShieldCovers, tableVars, shieldVars, Key
  <2> QED
    BY <2>1, <2>2, <2>3, <1>a DEF PinInv, tableVars, shieldVars
<1> QED
  BY <1>1, <1>2, <1>3, <1>4, <1>5, <1>6, <1>7, <1>8, <1>9, <1>10, <1>11, <1>12, <1>13, <1>14,
     <1>15, <1>16, <1>17, <1>18 DEF Next, Step

Inv == Types /\ PinInv

LEMMA InvHolds == Spec => []Inv
<1>1. Init => Inv
  BY TypesInit, PinInit DEF Inv
<1>2. Inv /\ [Next]_vars => Inv'
  BY TypesStep, PinStep DEF Inv
<1> QED
  BY <1>1, <1>2, PTL DEF Spec

(* Every pinned flag is backed by an owner whose pages are resident, and no  *)
(* protection outlives its command or its submission, under any caller.      *)
THEOREM PinsHold == Spec => []PinsAreOwned
<1>1. Inv => PinsAreOwned
  <2> SUFFICES ASSUME Inv PROVE PinsAreOwned
    OBVIOUS
  <2>1. batch = <<>> => shield = {} /\ wanted = {}
    BY DEF Inv, PinInv, Submission, Closing
  <2> QED
    BY <2>1 DEF Inv, PinInv, PinsOwned, LodPins, PinsAreOwned
<1> QED
  BY <1>1, InvHolds, PTL

(* A pool in which nothing is a candidate for eviction is pinned throughout. *)
LEMMA NoCandidates ==
    ASSUME Inv, NEW p, EvictionCandidates(p) = {}
    PROVE  \A k \in InPool(p) : OwnersOf(k) # {}
<1>1. InPool(p) \ pinned \in SUBSET Resident
  BY DEF InPool
<1>2. InPool(p) \ pinned = {}
  BY <1>1, OldestExists DEF EvictionCandidates, Inv, Types, TableTypes
<1> QED
  BY <1>2 DEF Inv, PinInv, PinsOwned

(* Room is never made by taking a page that backs the picture on the screen, *)
(* a warmed one or a source of the reduction; a shielded page goes last.     *)
THEOREM ProtectionHolds == Spec => ProtectedPagesStay
<1> DEFINE Keeps == phase = "room" =>
             \A k \in Resident \ DOMAIN slot' :
               /\ OwnersOf(k) \subseteq {"shield"}
               /\ k \in wanted =>
                    \A other \in InPool(slot[k][1]) : other \in wanted \/ OwnersOf(other) # {}
<1>1. Inv /\ [Next]_vars => [Keeps]_vars
  <2> SUFFICES ASSUME Inv, Next, phase = "room", NEW k \in Resident, k \notin DOMAIN slot'
               PROVE  /\ OwnersOf(k) \subseteq {"shield"}
                      /\ k \in wanted =>
                           \A other \in InPool(slot[k][1]) :
                             other \in wanted \/ OwnersOf(other) # {}
    OBVIOUS
  <2>1. EvictOldest \/ YieldShield
    <3>1. ~At("pins") /\ ~At("capacity") /\ ~At("open") /\ ~At("close") /\ ~At("planes")
            /\ ~At("ensure") /\ ~At("generate") /\ ~At("evict") /\ ~At("histogram") /\ ~At("return")
      BY DEF At
    <3>2. UNCHANGED slot \/ EvictOldest \/ YieldShield
      <4>1. batch # <<>>
        BY DEF Inv, Types, PhaseOK
      <4> QED
        BY <3>1, <4>1 DEF Next, Step, Call, Pins, Capacity, Open, Close, BindPlanes, AlreadyThere,
             EnsureCold, GenerateCold, Refused, Grow, Exhausted, TakeLayer, Reduce, ReduceFails,
             BindPage, Shield, EvictChunk, Histogram, Return, ReplacePinSet, tableVars
    <3> QED
      BY <3>2 DEF Resident
  <2>2. \A x \in Resident : Evict(x) => x = k
    BY DEF Evict, Unbind, Resident
  <2>3. CASE EvictOldest
    <3>1. k \in EvictionCandidates(target)
      BY <2>2, <2>3 DEF EvictOldest, EvictionCandidates, Oldest, InPool
    <3>2. k \in Resident \ pinned
      BY <3>1 DEF EvictionCandidates, Oldest, InPool
    <3>3. OwnersOf(k) = {}
      BY <3>2 DEF Inv, PinInv, PinsOwned
    <3>4. k \notin pins["shield"]
      BY <3>3 DEF OwnersOf, Owners
    <3>5. k \notin wanted
      BY <3>2, <3>4 DEF Inv, PinInv, ShieldCovers
    <3> QED
      BY <3>3, <3>5
  <2>4. CASE YieldShield
    <3>1. k \in ShieldOnly(target)
      BY <2>2, <2>4 DEF YieldShield, ShieldOnly, Oldest, InPool
    <3>2. OwnersOf(k) \subseteq {"shield"} /\ slot[k][1] = target
      BY <3>1 DEF ShieldOnly, InPool
    <3>3. \A other \in InPool(target) : OwnersOf(other) # {}
      BY <2>4, NoCandidates DEF YieldShield
    <3> QED
      BY <3>2, <3>3
  <2> QED
    BY <2>1, <2>3, <2>4
<1> QED
  BY <1>1, InvHolds, PTL DEF Spec, ProtectedPagesStay

-----------------------------------------------------------------------------
(* Layers, said of one layer at a time.                                      *)
Placed(p, n) ==
  n < allocated[p] <=> \/ n \in free[p]
                       \/ hand = <<p, n>>
                       \/ \E k \in Resident : slot[k] = <<p, n>>

LayerInv ==
  /\ \A p \in Pools : \A n \in Nat : Placed(p, n)
  /\ \A k \in Resident : slot[k][2] \notin free[slot[k][1]] /\ slot[k] # hand
  /\ hand # Unmapped => hand[2] \notin free[hand[1]]
  /\ \A k, l \in Resident : slot[k] = slot[l] => k = l

LEMMA LayerInit == Init => LayerInv
<1> SUFFICES ASSUME Init PROVE LayerInv
  OBVIOUS
<1> USE DEF Init, ResidencyInit, TableInit
<1>1. Resident = {} /\ hand = Unmapped
  BY DEF Resident
<1>2. ASSUME NEW p \in Pools, NEW n \in Nat PROVE Placed(p, n)
  <2>1. <<p, n>> # Unmapped
    BY UnmappedAssumption DEF Slots
  <2> QED
    BY <1>1, <2>1 DEF Placed
<1> QED
  BY <1>1, <1>2 DEF LayerInv

LEMMA SameLayers ==
    ASSUME LayerInv, UNCHANGED <<slot, free, allocated, hand>>
    PROVE  LayerInv'
BY DEF LayerInv, Placed, Resident

LEMMA EvictLayers ==
    ASSUME Types, LayerInv, NEW k \in Resident, Evict(k), hand' = hand
    PROVE  LayerInv'
<1>1. /\ Resident' = Resident \ {k} /\ \A x \in Resident' : slot'[x] = slot[x]
      /\ allocated' = allocated /\ free' = Give(slot[k])
  BY DEF Evict, Unbind, Resident
<1> DEFINE q == slot[k][1]
           m == slot[k][2]
<1>2. slot[k] = <<q, m>> /\ q \in Pools /\ m \in Nat
  BY DEF Types, TableTypes, Slots
<1>3. \A p \in Pools : free'[p] = IF p = q THEN free[p] \union {m} ELSE free[p]
  BY <1>1, <1>2 DEF Give, Types, PoolTypes
<1>4. \A x \in Resident : slot[x] \in Pools \X Nat
  BY DEF Types, TableTypes, Slots
<1>5. \A x \in Resident' : slot'[x] # <<q, m>>
  BY <1>1, <1>2 DEF LayerInv
<1>6. ASSUME NEW p \in Pools, NEW n \in Nat PROVE Placed(p, n)'
  <2>1. Placed(p, n)
    BY DEF LayerInv
  <2>2. CASE p = q /\ n = m
    <3>1. n < allocated[p]
      BY <2>1, <2>2, <1>2 DEF Placed
    <3> QED
      BY <3>1, <2>2, <1>1, <1>3 DEF Placed
  <2>3. CASE ~(p = q /\ n = m)
    <3>1. n \in free'[p] <=> n \in free[p]
      BY <2>3, <1>3
    <3>2. (\E x \in Resident' : slot'[x] = <<p, n>>) <=> (\E x \in Resident : slot[x] = <<p, n>>)
      BY <2>3, <1>1, <1>2
    <3> QED
      BY <3>1, <3>2, <2>1, <1>1 DEF Placed
  <2> QED
    BY <2>2, <2>3
<1>7. \A x \in Resident' : slot'[x][2] \notin free'[slot'[x][1]] /\ slot'[x] # hand'
  <2> TAKE x \in Resident'
  <2>1. x \in Resident /\ slot'[x] = slot[x] /\ slot[x][1] \in Pools
          /\ slot[x] = <<slot[x][1], slot[x][2]>>
    BY <1>1, <1>4
  <2>2. slot[x][2] \notin free[slot[x][1]] /\ slot[x] # hand
    BY <2>1 DEF LayerInv
  <2>3. ~(slot[x][1] = q /\ slot[x][2] = m)
    BY <2>1, <1>5
  <2> QED
    BY <2>1, <2>2, <2>3, <1>3
<1>8. hand' # Unmapped => hand'[2] \notin free'[hand'[1]]
  <2> SUFFICES ASSUME hand # Unmapped PROVE hand[2] \notin free'[hand[1]]
    OBVIOUS
  <2>1. hand = <<hand[1], hand[2]>> /\ hand[1] \in Pools
    BY DEF Types, StepTypes, Slots
  <2>2. hand # <<q, m>> /\ hand[2] \notin free[hand[1]]
    BY <1>2 DEF LayerInv
  <2> QED
    BY <2>1, <2>2, <1>3
<1>9. \A x, y \in Resident' : slot'[x] = slot'[y] => x = y
  BY <1>1 DEF LayerInv
<1> QED
  BY <1>6, <1>7, <1>8, <1>9 DEF LayerInv

(* The layer in the hand goes back, or a submission is left without one.     *)
LEMMA RaiseLayers ==
    ASSUME Types, LayerInv, UNCHANGED <<slot, allocated>>, hand' = Unmapped,
           \/ hand = Unmapped /\ free' = free
           \/ hand # Unmapped /\ free' = Give(hand)
    PROVE  LayerInv'
<1>1. CASE hand = Unmapped /\ free' = free
  BY <1>1, SameLayers
<1>2. CASE hand # Unmapped /\ free' = Give(hand)
  <2> DEFINE q == hand[1]
             m == hand[2]
  <2>1. hand = <<q, m>> /\ q \in Pools /\ m \in Nat
    BY <1>2 DEF Types, StepTypes, Slots
  <2>2. \A p \in Pools : free'[p] = IF p = q THEN free[p] \union {m} ELSE free[p]
    BY <1>2, <2>1 DEF Give, Types, PoolTypes
  <2>3. Resident' = Resident /\ slot' = slot /\ \A x \in Resident : slot[x] \in Pools \X Nat
    BY DEF Resident, Types, TableTypes, Slots
  <2> HIDE DEF q, m
  <2>4. ASSUME NEW p \in Pools, NEW n \in Nat PROVE Placed(p, n)'
    <3>1. Placed(p, n) /\ <<p, n>> # Unmapped
      BY UnmappedAssumption DEF LayerInv, Slots
    <3>2. n \in free'[p] <=> n \in free[p] \/ hand = <<p, n>>
      BY <2>1, <2>2
    <3>3. hand' # <<p, n>> /\ allocated' = allocated
      BY <3>1, <1>2
    <3>4. (\E k \in Resident' : slot'[k] = <<p, n>>) <=> (\E k \in Resident : slot[k] = <<p, n>>)
      BY <2>3
    <3> QED
      BY <3>1, <3>2, <3>3, <3>4 DEF Placed
  <2>5. \A x \in Resident' : slot'[x][2] \notin free'[slot'[x][1]] /\ slot'[x] # hand'
    <3> TAKE x \in Resident'
    <3>1. slot[x] = <<slot[x][1], slot[x][2]>> /\ slot[x][1] \in Pools /\ slot[x] \in Slots
      BY <2>3 DEF Slots
    <3>2. slot[x][2] \notin free[slot[x][1]] /\ slot[x] # hand /\ slot[x] # Unmapped
      BY <3>1, <2>3, UnmappedAssumption DEF LayerInv
    <3> QED
      BY <3>1, <3>2, <2>1, <2>2, <2>3
  <2>6. \A x, y \in Resident' : slot'[x] = slot'[y] => x = y
    BY <2>3 DEF LayerInv
  <2> QED
    BY <2>4, <2>5, <2>6 DEF LayerInv
<1> QED
  BY <1>1, <1>2

LEMMA GrowLayers ==
    ASSUME Types, LayerInv, UNCHANGED <<slot, hand>>, NEW p \in Pools,
           NEW new \in Nat, allocated[p] < new,
           allocated' = [allocated EXCEPT ![p] = new],
           free' = [free EXCEPT ![p] = @ \union (allocated[p] .. (new - 1))]
    PROVE  LayerInv'
<1>1. Resident' = Resident /\ slot' = slot /\ \A x \in Resident : slot[x] \in Pools \X Nat
  BY DEF Resident, Types, TableTypes, Slots
<1>2. allocated[p] \in Nat
  BY DEF Types, PoolTypes
<1>3. \A q \in Pools : /\ allocated'[q] = IF q = p THEN new ELSE allocated[q]
                       /\ free'[q] = IF q = p THEN free[q] \union (allocated[p] .. (new - 1)) ELSE free[q]
  BY DEF Types, PoolTypes
<1>4. ASSUME NEW q \in Pools, NEW n \in Nat PROVE Placed(q, n)'
  <2>1. Placed(q, n)
    BY DEF LayerInv
  <2>2. CASE q = p
    <3>1. n \in free'[p] <=> n \in free[p] \/ (allocated[p] <= n /\ n < new)
      BY <1>2, <1>3
    <3>2. n < new <=> n < allocated[p] \/ (allocated[p] <= n /\ n < new)
      BY <1>2
    <3> QED
      BY <2>1, <2>2, <3>1, <3>2, <1>1, <1>3 DEF Placed
  <2>3. CASE q # p
    BY <2>1, <2>3, <1>1, <1>3 DEF Placed
  <2> QED
    BY <2>2, <2>3
<1>5. ASSUME NEW s \in Slots, s[2] < allocated[s[1]], s[2] \notin free[s[1]]
      PROVE  s[2] \notin free'[s[1]]
  BY <1>2, <1>3, <1>5 DEF Slots
<1>6. \A x \in Resident : slot[x][2] < allocated[slot[x][1]]
  <2> TAKE x \in Resident
  <2>1. slot[x] = <<slot[x][1], slot[x][2]>> /\ slot[x][1] \in Pools /\ slot[x][2] \in Nat
    BY <1>1
  <2>2. Placed(slot[x][1], slot[x][2])
    BY <2>1 DEF LayerInv
  <2> QED
    BY <2>1, <2>2 DEF Placed
<1>7. hand # Unmapped => hand \in Slots /\ hand[2] < allocated[hand[1]]
  <2> HAVE hand # Unmapped
  <2>1. hand = <<hand[1], hand[2]>> /\ hand[1] \in Pools /\ hand[2] \in Nat /\ hand \in Slots
    BY DEF Types, StepTypes, Slots
  <2>2. Placed(hand[1], hand[2])
    BY <2>1 DEF LayerInv
  <2> QED
    BY <2>1, <2>2 DEF Placed
<1>8. \A x \in Resident' : slot'[x][2] \notin free'[slot'[x][1]] /\ slot'[x] # hand'
  BY <1>1, <1>5, <1>6 DEF LayerInv, Slots
<1>9. hand' # Unmapped => hand'[2] \notin free'[hand'[1]]
  BY <1>5, <1>7 DEF LayerInv
<1>10. \A x, y \in Resident' : slot'[x] = slot'[y] => x = y
  BY <1>1 DEF LayerInv
<1> QED
  BY <1>4, <1>8, <1>9, <1>10 DEF LayerInv

LEMMA LayerStep == Types /\ LayerInv /\ [Next]_vars => LayerInv'
<1> SUFFICES ASSUME Types, LayerInv, [Next]_vars PROVE LayerInv'
  OBVIOUS
<1>a. phase \notin {"reduce", "bind"} => hand = Unmapped
  BY DEF Types, PhaseOK
<1>1. CASE \/ Pins \/ Open \/ Close \/ BindPlanes \/ AlreadyThere \/ EnsureCold \/ GenerateCold
           \/ Reduce \/ Shield \/ Histogram \/ Return \/ Call \/ UNCHANGED vars
  <2>1. UNCHANGED <<slot, free, allocated, hand>>
    BY <1>1 DEF Pins, Open, Close, BindPlanes, AlreadyThere, EnsureCold, GenerateCold, Reduce,
         Shield, Histogram, Return, Call, vars, Done, GoOn, ReplaceResidentPinSet, ReplacePinSet,
         Touch, tableVars, poolVars, stepVars
  <2> QED
    BY <2>1, SameLayers
<1>2. CASE Capacity
  <2> DEFINE layers == Head(batch).layers
             needed == Head(batch).needed
  <2>1. layers \in Nat /\ needed \in Nat
    BY <1>2, NextCommand, CommandFields DEF Capacity, At, Types
  <2>2. UNCHANGED <<slot, hand>>
    BY <1>2 DEF Capacity, Done, tableVars
  <2>3. CASE Pools = {"raw"} /\ needed > allocated["raw"]
    <3>1. GrownTo("raw", needed, budget') /\ allocated["raw"] < budget' /\ budget' \in Nat
      BY <1>2, <2>1, <2>3, PoolsAssumption DEF Capacity, Types, PoolTypes, Greater
    <3>2. \E new \in Nat :
             /\ allocated["raw"] < new /\ new <= budget'
             /\ allocated' = [allocated EXCEPT !["raw"] = new]
             /\ free' = [free EXCEPT !["raw"] = @ \union (allocated["raw"] .. (new - 1))]
      BY <3>1, <2>1, PoolsAssumption, GrowthFacts DEF Types
    <3> QED
      BY <3>2, <2>2, PoolsAssumption, GrowLayers
  <2>4. CASE ~(Pools = {"raw"} /\ needed > allocated["raw"])
    BY <1>2, <2>2, <2>4, SameLayers DEF Capacity
  <2> QED
    BY <2>3, <2>4
<1>3. CASE Grow
  <2>1. GrownTo(target, 0, budget) /\ allocated[target] < budget /\ target \in Pools
          /\ budget \in Nat /\ UNCHANGED <<slot, hand>>
    BY <1>3 DEF Grow, Types, StepTypes, PoolTypes, tableVars, stepVars
  <2>2. \E new \in Nat :
             /\ allocated[target] < new /\ new <= budget
             /\ allocated' = [allocated EXCEPT ![target] = new]
             /\ free' = [free EXCEPT ![target] = @ \union (allocated[target] .. (new - 1))]
    BY <2>1, GrowthFacts DEF Types
  <2> QED
    BY <2>1, <2>2, GrowLayers
<1>4. CASE EvictOldest \/ YieldShield
  <2>1. (\E k \in Resident : Evict(k)) /\ hand' = hand
    BY <1>4 DEF EvictOldest, YieldShield, EvictionCandidates, ShieldOnly, Oldest, InPool, stepVars
  <2> QED
    BY <2>1, EvictLayers
<1>5. CASE EvictChunk
  <2>1. CASE Key \in Resident
    BY <1>5, <2>1, EvictLayers DEF EvictChunk, Done
  <2>2. CASE Key \notin Resident
    BY <1>5, <2>2, SameLayers DEF EvictChunk, Done, tableVars, poolVars
  <2> QED
    BY <2>1, <2>2
<1>6. CASE Refused \/ Exhausted
  <2>1. UNCHANGED <<slot, free, allocated>> /\ hand' = Unmapped /\ phase \in {"ready", "room"}
    BY <1>6 DEF Refused, Exhausted, Full, At, Raise, ReplacePinSet, tableVars, poolVars
  <2> QED
    BY <2>1, <1>a, RaiseLayers
<1>7. CASE ReduceFails
  <2>1. UNCHANGED <<slot, allocated>> /\ hand' = Unmapped /\ free' = Give(hand) /\ hand # Unmapped
    BY <1>7 DEF ReduceFails, Raise, ReplacePinSet, Types, PhaseOK
  <2> QED
    BY <2>1, RaiseLayers
<1>8. CASE TakeLayer
  <2> DEFINE q == target
             m == FirstFree(target)
  <2>1. q \in Pools /\ free[q] \in SUBSET Nat /\ free[q] # {} /\ hand = Unmapped
    BY <1>8, <1>a DEF TakeLayer, Types, StepTypes, PoolTypes
  <2>2. m \in free[q] /\ m \in Nat
    <3>1. \E n \in free[q] : \A other \in free[q] : n <= other
      BY <2>1, LeastOfNat
    <3> QED
      BY <3>1, <2>1 DEF FirstFree
  <2>3. /\ hand' = <<q, m>> /\ free' = [free EXCEPT ![q] = @ \ {m}]
        /\ UNCHANGED <<slot, allocated>> /\ Resident' = Resident
    BY <1>8 DEF TakeLayer, tableVars, Resident
  <2> HIDE DEF q, m
  <2>4. \A p \in Pools : free'[p] = IF p = q THEN free[p] \ {m} ELSE free[p]
    BY <2>1, <2>3 DEF Types, PoolTypes
  <2>5. \A x \in Resident : slot[x] = <<slot[x][1], slot[x][2]>> /\ slot[x][1] \in Pools
    BY DEF Types, TableTypes, Slots
  <2>6. ASSUME NEW p \in Pools, NEW n \in Nat PROVE Placed(p, n)'
    <3>1. Placed(p, n) /\ hand # <<p, n>>
      BY <2>1, UnmappedAssumption DEF LayerInv, Slots
    <3>2. n \in free[p] <=> n \in free'[p] \/ hand' = <<p, n>>
      BY <2>2, <2>3, <2>4
    <3> QED
      BY <3>1, <3>2, <2>3 DEF Placed
  <2>7. \A x \in Resident' : slot'[x][2] \notin free'[slot'[x][1]] /\ slot'[x] # hand'
    <3> TAKE x \in Resident'
    <3>1. slot[x][2] \notin free[slot[x][1]] /\ slot[x] = <<slot[x][1], slot[x][2]>>
            /\ slot[x][1] \in Pools
      BY <2>3, <2>5 DEF LayerInv
    <3> QED
      BY <3>1, <2>2, <2>3, <2>4
  <2>8. hand'[2] \notin free'[hand'[1]]
    BY <2>1, <2>3, <2>4
  <2>9. \A x, y \in Resident' : slot'[x] = slot'[y] => x = y
    BY <2>3 DEF LayerInv
  <2> QED
    BY <2>6, <2>7, <2>8, <2>9 DEF LayerInv
<1>9. CASE BindPage
  <2>1. hand \in Slots /\ hand # Unmapped /\ Key \notin Resident
    BY <1>9 DEF BindPage, Types, StepTypes, PhaseOK
  <2>2. /\ Resident' = Resident \union {Key} /\ slot'[Key] = hand
        /\ \A x \in Resident : slot'[x] = slot[x]
        /\ UNCHANGED <<free, allocated>> /\ hand' = Unmapped
    BY <1>9, <2>1 DEF BindPage, Bind, Resident, poolVars
  <2>3. ASSUME NEW p \in Pools, NEW n \in Nat PROVE Placed(p, n)'
    <3>1. Placed(p, n) /\ hand' # <<p, n>>
      BY <2>2, UnmappedAssumption DEF LayerInv, Slots
    <3>2. (\E x \in Resident' : slot'[x] = <<p, n>>)
            <=> hand = <<p, n>> \/ \E x \in Resident : slot[x] = <<p, n>>
      BY <2>1, <2>2
    <3> QED
      BY <3>1, <3>2, <2>2 DEF Placed
  <2>4. \A x \in Resident' : slot'[x][2] \notin free'[slot'[x][1]] /\ slot'[x] # hand'
    <3> TAKE x \in Resident'
    <3>1. slot'[x] \in Slots
      BY <2>1, <2>2 DEF Types, TableTypes
    <3>2. slot'[x][2] \notin free[slot'[x][1]]
      BY <2>1, <2>2 DEF LayerInv
    <3> QED
      BY <3>1, <3>2, <2>2, UnmappedAssumption
  <2>5. \A x, y \in Resident' : slot'[x] = slot'[y] => x = y
    BY <2>1, <2>2 DEF LayerInv
  <2> QED
    BY <2>2, <2>3, <2>4, <2>5 DEF LayerInv
<1> QED
  BY <1>1, <1>2, <1>3, <1>4, <1>5, <1>6, <1>7, <1>8, <1>9 DEF Next, Step

(* No layer leaks and none is given twice: a texture's layers are the free   *)
(* ones, the one in the hand and those of its pages, each in one place.      *)
THEOREM LayersHold == Spec => []EveryLayerOnce
<1>1. Init => Types /\ LayerInv
  BY TypesInit, LayerInit
<1>2. Types /\ LayerInv /\ [Next]_vars => (Types /\ LayerInv)'
  BY TypesStep, LayerStep
<1>3. Types /\ LayerInv => EveryLayerOnce
  <2> SUFFICES ASSUME Types, LayerInv PROVE EveryLayerOnce
    OBVIOUS
  <2>1. \A x \in Resident : slot[x] = <<slot[x][1], slot[x][2]>> /\ slot[x][1] \in Pools
                              /\ slot[x][2] \in Nat /\ slot[x] # Unmapped
    BY UnmappedAssumption DEF Types, TableTypes, Slots
  <2>2. hand # Unmapped => hand = <<hand[1], hand[2]>> /\ hand[1] \in Pools /\ hand[2] \in Nat
    BY DEF Types, StepTypes, Slots
  <2>3. ASSUME NEW p \in Pools
        PROVE  /\ free[p] \union InHand(p) \union LayersOf(p) = 0 .. (allocated[p] - 1)
               /\ free[p] \intersect LayersOf(p) = {}
               /\ InHand(p) \intersect (free[p] \union LayersOf(p)) = {}
    <3>1. free[p] \in SUBSET Nat /\ allocated[p] \in Nat /\ Unmapped \notin Slots
      BY UnmappedAssumption DEF Types, PoolTypes
    <3>2. \A n : n \in LayersOf(p) <=> n \in Nat /\ \E x \in Resident : slot[x] = <<p, n>>
      BY <2>1 DEF LayersOf, InPool
    <3>3. \A n : n \in InHand(p) <=> n \in Nat /\ hand = <<p, n>>
      <4>1. \A n \in Nat : <<p, n>> # Unmapped
        BY <3>1 DEF Slots
      <4> QED
        BY <4>1, <2>2 DEF InHand
    <3>4. \A n \in Nat : n < allocated[p] <=> n \in free[p] \union InHand(p) \union LayersOf(p)
      BY <3>2, <3>3 DEF LayerInv, Placed
    <3>5. free[p] \union InHand(p) \union LayersOf(p) \subseteq Nat
      BY <3>1, <3>2, <3>3
    <3>6. free[p] \union InHand(p) \union LayersOf(p) = 0 .. (allocated[p] - 1)
      BY <3>1, <3>4, <3>5
    <3>7. free[p] \intersect LayersOf(p) = {}
      BY <3>2, <2>1 DEF LayerInv
    <3>8. InHand(p) \intersect (free[p] \union LayersOf(p)) = {}
      <4>1. ASSUME NEW n \in InHand(p) PROVE n \notin free[p] /\ n \notin LayersOf(p)
        <5>1. hand = <<p, n>> /\ n \in Nat
          BY <4>1, <3>3
        <5>2. hand # Unmapped
          BY <5>1, <3>1 DEF Slots
        <5> QED
          BY <5>1, <5>2, <3>2 DEF LayerInv
      <4> QED
        BY <4>1
    <3> QED
      BY <3>6, <3>7, <3>8
  <2> QED
    BY <2>3 DEF EveryLayerOnce, LayerInv
<1> QED
  BY <1>1, <1>2, <1>3, PTL DEF Spec

-----------------------------------------------------------------------------
(* The table the shader reads.                                               *)
LEMMA SameFlat ==
    ASSUME FlatTableIsResidency, UNCHANGED <<slot, bound, flat>>
    PROVE  FlatTableIsResidency'
BY DEF FlatTableIsResidency, Entry, Page, Indices, Resident

LEMMA EvictFlat ==
    ASSUME FlatTableIsResidency, NEW k, Evict(k)
    PROVE  FlatTableIsResidency'
<1>1. /\ bound' = bound /\ Resident' = Resident \ {k}
      /\ \A x \in Resident' : slot'[x] = slot[x]
      /\ flat' = [ix \in DOMAIN flat |-> IF Page(bound, ix) = k THEN Unmapped ELSE flat[ix]]
  BY DEF Evict, Unbind, Resident, Mapped
<1>2. DOMAIN flat = Indices(bound) /\ \A ix \in Indices(bound) : flat[ix] = Entry(bound, ix)
  BY DEF FlatTableIsResidency
<1>3. \A ix \in Indices(bound) :
        Entry(bound, ix)' = IF Page(bound, ix) = k THEN Unmapped ELSE flat[ix]
  BY <1>1, <1>2 DEF Entry, Page
<1> QED
  BY <1>1, <1>2, <1>3 DEF FlatTableIsResidency, Indices

LEMMA FlatStep == Types /\ FlatTableIsResidency /\ [Next]_vars => FlatTableIsResidency'
<1> SUFFICES ASSUME Types, FlatTableIsResidency, [Next]_vars PROVE FlatTableIsResidency'
  OBVIOUS
<1>1. CASE \/ Pins \/ Capacity \/ Open \/ Close \/ AlreadyThere \/ EnsureCold \/ GenerateCold
           \/ Refused \/ Grow \/ Exhausted \/ TakeLayer \/ Reduce \/ ReduceFails \/ Shield
           \/ Histogram \/ Return \/ Call \/ UNCHANGED vars
  <2>1. UNCHANGED <<slot, bound, flat>>
    BY <1>1 DEF Pins, Capacity, Open, Close, AlreadyThere, EnsureCold, GenerateCold, Refused, Grow,
         Exhausted, TakeLayer, Reduce, ReduceFails, Shield, Histogram, Return, Call, vars,
         ReplaceResidentPinSet, ReplacePinSet, Touch, tableVars, planeVars
  <2> QED
    BY <2>1, SameFlat
<1>2. CASE EvictOldest \/ YieldShield \/ EvictChunk
  <2>1. (\E k : Evict(k)) \/ UNCHANGED <<slot, bound, flat>>
    BY <1>2 DEF EvictOldest, YieldShield, EvictChunk, tableVars, planeVars
  <2> QED
    BY <2>1, EvictFlat, SameFlat
<1>3. CASE BindPage
  <2>1. /\ bound' = bound /\ Resident' = Resident \union {Key} /\ slot'[Key] = hand
        /\ \A x \in Resident \ {Key} : slot'[x] = slot[x]
        /\ flat' = [ix \in DOMAIN flat |-> IF Page(bound, ix) = Key THEN hand ELSE flat[ix]]
    BY <1>3 DEF BindPage, Bind, Resident, Mapped
  <2>2. DOMAIN flat = Indices(bound) /\ \A ix \in Indices(bound) : flat[ix] = Entry(bound, ix)
    BY DEF FlatTableIsResidency
  <2>3. \A ix \in Indices(bound) :
          Entry(bound, ix)' = IF Page(bound, ix) = Key THEN hand ELSE flat[ix]
    BY <2>1, <2>2 DEF Entry, Page
  <2> QED
    BY <2>1, <2>2, <2>3 DEF FlatTableIsResidency, Indices
<1>4. CASE BindPlanes
  <2> DEFINE planes == Head(batch).planes
  <2>1. /\ bound' = planes
        /\ flat' = [ix \in Indices(planes) |->
                      IF ix[1] \in Kept(planes) THEN flat[ix] ELSE Entry(planes, ix)]
        /\ slot' = slot /\ Resident' = Resident
    BY <1>4 DEF BindPlanes, ReplaceResidentPinSet, ReplacePinSet, tableVars, Resident
  <2> HIDE DEF planes
  <2>2. \A i \in Kept(planes) : i \in DOMAIN bound /\ planes[i] = bound[i]
    BY DEF Kept, Changed
  <2>3. bound \in Seq(Planes)
    BY DEF Types, FlatTypes
  <2>4. \A ix \in Indices(planes) : ix[1] \in Kept(planes) => flat[ix] = Entry(planes, ix)
    <3> TAKE ix \in Indices(planes)
    <3> HAVE ix[1] \in Kept(planes)
    <3>1. ix \in Indices(bound) /\ planes[ix[1]] = bound[ix[1]]
      BY <2>2, <2>3 DEF Indices
    <3> QED
      BY <3>1 DEF FlatTableIsResidency, Entry, Page
  <2>5. \A ix \in Indices(planes) : Entry(planes, ix) = Entry(bound, ix)'
    BY <2>1 DEF Entry, Page
  <2> QED
    BY <2>1, <2>4, <2>5 DEF FlatTableIsResidency, Indices
<1> QED
  BY <1>1, <1>2, <1>3, <1>4 DEF Next, Step

(* Whatever is bound, patched, grown or evicted, the shader's table names the*)
(* layer every page lives in, and no layer of a page that is gone.           *)
THEOREM FlatHolds == Spec => []FlatTableIsResidency
<1>1. Init => FlatTableIsResidency
  BY DEF Init, ResidencyInit, FlatTableIsResidency, Indices
<1>2. Types /\ FlatTableIsResidency /\ [Next]_vars => (Types /\ FlatTableIsResidency)'
  BY TypesStep, FlatStep
<1> QED
  BY <1>1, <1>2, TypesInit, PTL DEF Spec

-----------------------------------------------------------------------------
(* The memo of a pin set answers only when a derivation would say the same:  *)
(* what is pinned for the owner is the resident part of the keys.            *)
MemoIsExact ==
  \A owner \in {"bound", "warm"} : \A keys :
    MemoAnswers(owner, keys) => pins[owner] = keys \intersect Resident

MemoInv ==
  \A o \in {"bound", "warm"} :
    /\ memo[o].generation <= generation
    /\ memo[o].generation = generation => pins[o] = memo[o].keys \intersect Resident

LEMMA RebindMemo ==
    ASSUME Types, MemoInv, memo' = memo, generation' = generation + 1
    PROVE  MemoInv'
<1>1. generation \in Nat /\ \A o \in {"bound", "warm"} : memo[o].generation \in Nat
  BY DEF Types, TableTypes, MemoTypes
<1>2. \A o \in {"bound", "warm"} : memo'[o].generation < generation'
  BY <1>1 DEF MemoInv
<1> QED
  BY <1>1, <1>2 DEF MemoInv

LEMMA OtherPinMemo ==
    ASSUME Types, MemoInv, memo' = memo, UNCHANGED <<slot, generation>>,
           pins'["bound"] = pins["bound"], pins'["warm"] = pins["warm"]
    PROVE  MemoInv'
BY DEF MemoInv, Resident

LEMMA ResidentPinMemo ==
    ASSUME Types, MemoInv, NEW owner \in {"bound", "warm"}, NEW keys \in SUBSET Keys,
           ReplaceResidentPinSet(owner, keys)
    PROVE  MemoInv'
<1>1. CASE MemoAnswers(owner, keys)
  BY <1>1, OtherPinMemo DEF ReplaceResidentPinSet, tableVars
<1>2. CASE ~MemoAnswers(owner, keys)
  <2>1. /\ pins' = [pins EXCEPT ![owner] = keys \intersect Resident]
        /\ memo' = [memo EXCEPT ![owner] =
             [keys |-> keys, generation |-> generation, resident |-> keys \intersect Resident]]
        /\ UNCHANGED <<slot, generation>> /\ Resident' = Resident
    BY <1>2 DEF ReplaceResidentPinSet, ReplacePinSet, Resident
  <2>2. generation \in Nat
    BY DEF Types, TableTypes
  <2>3. \A o \in {"bound", "warm"} :
          /\ pins'[o] = IF o = owner THEN keys \intersect Resident ELSE pins[o]
          /\ o = owner => memo'[o].keys = keys /\ memo'[o].generation = generation
          /\ o # owner => memo'[o] = memo[o]
    BY <2>1 DEF Types, TableTypes, MemoTypes, Owners
  <2> QED
    BY <2>1, <2>2, <2>3 DEF MemoInv
<1> QED
  BY <1>1, <1>2

LEMMA MemoStep == Types /\ MemoInv /\ [Next]_vars => MemoInv'
<1> SUFFICES ASSUME Types, MemoInv, [Next]_vars PROVE MemoInv'
  OBVIOUS
<1>1. CASE Pins \/ BindPlanes
  <2>1. \E owner \in {"bound", "warm"}, keys \in SUBSET Keys : ReplaceResidentPinSet(owner, keys)
    BY <1>1, NextCommand, CommandFields DEF Pins, BindPlanes, At, Types
  <2> QED
    BY <2>1, ResidentPinMemo
<1>2. CASE EvictOldest \/ YieldShield \/ BindPage \/ EvictChunk
  <2>1. memo' = memo
    BY <1>2 DEF EvictOldest, YieldShield, BindPage, EvictChunk, Evict
  <2>2. generation' = generation + 1 \/ UNCHANGED tableVars
    BY <1>2 DEF EvictOldest, YieldShield, BindPage, EvictChunk, Evict, Bind, Unbind
  <2> QED
    BY <2>1, <2>2, RebindMemo, OtherPinMemo DEF tableVars
<1>3. CASE \/ Capacity \/ EnsureCold \/ Refused \/ Grow \/ TakeLayer \/ Histogram \/ Return
           \/ Call \/ AlreadyThere \/ UNCHANGED vars
  <2>1. UNCHANGED <<memo, slot, generation, pins>>
    BY <1>3 DEF Capacity, EnsureCold, Refused, Grow, TakeLayer, Histogram, Return, Call,
         AlreadyThere, Touch, vars, tableVars
  <2> QED
    BY <2>1, OtherPinMemo
<1>4. CASE \/ Open \/ Close \/ GenerateCold \/ Exhausted \/ Reduce \/ ReduceFails \/ Shield
  <2>1. memo' = memo
    BY <1>4 DEF Open, Close, GenerateCold, Exhausted, Reduce, ReduceFails, Shield
  <2>2. UNCHANGED tableVars \/ \E o \in {"lod", "shield"} : \E keys : ReplacePinSet(o, keys)
    BY <1>4 DEF Open, Close, GenerateCold, Exhausted, Reduce, ReduceFails, Shield
  <2>3. /\ UNCHANGED <<slot, generation>>
        /\ pins'["bound"] = pins["bound"] /\ pins'["warm"] = pins["warm"]
    BY <2>2 DEF ReplacePinSet, tableVars, Types, TableTypes, Owners
  <2> QED
    BY <2>1, <2>3, OtherPinMemo
<1> QED
  BY <1>1, <1>2, <1>3, <1>4 DEF Next, Step

(* Skipping the derivation of a pin set by its memo never changes what is    *)
(* pinned.                                                                   *)
THEOREM MemoHolds == Spec => []MemoIsExact
<1>1. Init => MemoInv
  BY DEF Init, ResidencyInit, TableInit, MemoInv, NoMemo, Owners, Resident
<1>2. Types /\ MemoInv /\ [Next]_vars => (Types /\ MemoInv)'
  BY TypesStep, MemoStep
<1>3. MemoInv => MemoIsExact
  BY DEF MemoInv, MemoIsExact, MemoAnswers
<1> QED
  BY <1>1, <1>2, <1>3, TypesInit, PTL DEF Spec

-----------------------------------------------------------------------------
(* A finite set that a relation orders can be gone through in that order:    *)
(* every member comes at the place that the number of those before it gives. *)
LEMMA OrderExists ==
    ASSUME NEW S, IsFiniteSet(S), NEW R,
           \A x \in S : <<x, x>> \notin R,
           \A x, y, z \in S : <<x, y>> \in R /\ <<y, z>> \in R => <<x, z>> \in R,
           \A x, y \in S : x = y \/ <<x, y>> \in R \/ <<y, x>> \in R
    PROVE  \E s \in [1 .. Cardinality(S) -> S] :
             \A i, j \in 1 .. Cardinality(S) : i < j => <<s[i], s[j]>> \in R
<1> DEFINE n == Cardinality(S)
           Below(x) == {y \in S : <<y, x>> \in R}
           rank == [x \in S |-> Cardinality(Below(x)) + 1]
<1>1. n \in Nat
  BY FS_CardinalityType
<1>2. ASSUME NEW x \in S
      PROVE  IsFiniteSet(Below(x)) /\ rank[x] \in 1 .. n
  <2>1. IsFiniteSet(S \ {x}) /\ Cardinality(S \ {x}) = n - 1
    BY FS_RemoveElement
  <2>2. Below(x) \in SUBSET (S \ {x})
    OBVIOUS
  <2> HIDE DEF Below
  <2>3. IsFiniteSet(Below(x)) /\ Cardinality(Below(x)) <= n - 1
    BY <2>1, <2>2, FS_Subset
  <2>4. Cardinality(Below(x)) \in Nat
    BY <2>3, FS_CardinalityType
  <2> QED
    BY <1>1, <2>3, <2>4
<1>3. ASSUME NEW x \in S, NEW y \in S, <<x, y>> \in R
      PROVE  rank[x] < rank[y]
  <2>1. Below(x) \in SUBSET Below(y) /\ x \in Below(y) /\ x \notin Below(x)
    BY <1>3
  <2>2. IsFiniteSet(Below(x)) /\ IsFiniteSet(Below(y))
    BY <1>2
  <2> HIDE DEF Below
  <2>3. Cardinality(Below(x)) <= Cardinality(Below(y)) /\ Cardinality(Below(x)) # Cardinality(Below(y))
    BY <2>1, <2>2, FS_Subset
  <2>4. Cardinality(Below(x)) \in Nat /\ Cardinality(Below(y)) \in Nat
    BY <2>2, FS_CardinalityType
  <2> QED
    BY <2>3, <2>4
<1>4. rank \in [S -> 1 .. n]
  BY <1>2
<1> HIDE DEF rank
<1>5. \A x, y \in S : rank[x] = rank[y] => x = y
  <2> SUFFICES ASSUME NEW x \in S, NEW y \in S, rank[x] = rank[y], x # y PROVE FALSE
    OBVIOUS
  <2>1. rank[x] < rank[y] \/ rank[y] < rank[x]
    BY <1>3
  <2> QED
    BY <2>1, <1>4, <1>1
<1>6. rank \in Surjection(S, 1 .. n)
  <2>1. IsFiniteSet(1 .. n) /\ Cardinality(1 .. n) = n
    BY <1>1, FS_Interval
  <2>2. rank \in Injection(S, 1 .. n)
    BY <1>4, <1>5 DEF Injection, IsInjective
  <2> QED
    BY <2>1, <2>2, FS_Injection
<1>7. \A i \in 1 .. n : \E x \in S : rank[x] = i
  BY <1>6 DEF Surjection
<1> DEFINE s == [i \in 1 .. n |-> CHOOSE x \in S : rank[x] = i]
<1>8. \A i \in 1 .. n : s[i] \in S /\ rank[s[i]] = i
  BY <1>7
<1>9. s \in [1 .. n -> S]
  BY <1>8
<1> HIDE DEF s
<1>10. ASSUME NEW i \in 1 .. n, NEW j \in 1 .. n, i < j PROVE <<s[i], s[j]>> \in R
  <2>1. s[i] # s[j]
    BY <1>8, <1>10, <1>1
  <2>2. <<s[j], s[i]>> \notin R
    <3> SUFFICES ASSUME <<s[j], s[i]>> \in R PROVE FALSE
      OBVIOUS
    <3>1. rank[s[j]] < rank[s[i]]
      BY <1>3, <1>8
    <3> QED
      BY <3>1, <1>8, <1>10, <1>1
  <2> QED
    BY <2>1, <2>2, <1>8
<1> QED
  BY <1>9, <1>10

-----------------------------------------------------------------------------
(* What the plan of a commit is made of.                                    *)
LEMMA FiniteTiles ==
    ASSUME NEW T \in SUBSET Tiles
    PROVE  T \subseteq Nat /\ IsFiniteSet(T) /\ Cardinality(T) \in Nat
<1>1. Tiles \subseteq Nat /\ IsFiniteSet(Tiles)
  BY TilesAssumption, FS_Interval DEF Tiles
<1>2. IsFiniteSet(T)
  BY <1>1, FS_Subset
<1> QED
  BY <1>1, <1>2, FS_CardinalityType

LEMMA InOrderFacts ==
    ASSUME NEW T \in SUBSET Tiles
    PROVE  /\ Cardinality(T) \in Nat
           /\ InOrder(T) \in [1 .. Cardinality(T) -> T]
           /\ \A i, j \in 1 .. Cardinality(T) : InOrder(T)[i] = InOrder(T)[j] => i = j
<1> DEFINE R == {p \in T \X T : p[1] < p[2]}
           n == Cardinality(T)
<1>1. T \subseteq Nat /\ IsFiniteSet(T) /\ n \in Nat
  BY FiniteTiles
<1>2. \E s \in [1 .. n -> T] : \A i, j \in 1 .. n : i < j => <<s[i], s[j]>> \in R
  <2>1. \A x, y \in T : <<x, y>> \in R <=> x < y
    OBVIOUS
  <2> HIDE DEF R
  <2>2. \A x \in T : <<x, x>> \notin R
    BY <2>1, <1>1
  <2>3. \A x, y, z \in T : <<x, y>> \in R /\ <<y, z>> \in R => <<x, z>> \in R
    <3> TAKE x, y, z \in T
    <3>1. x \in Nat /\ y \in Nat /\ z \in Nat
      BY <1>1
    <3>2. /\ <<x, y>> \in R <=> x < y
          /\ <<y, z>> \in R <=> y < z
          /\ <<x, z>> \in R <=> x < z
      BY <2>1, Zenon
    <3> QED
      BY <3>1, <3>2
  <2>4. \A x, y \in T : x = y \/ <<x, y>> \in R \/ <<y, x>> \in R
    <3> TAKE x, y \in T
    <3>1. x \in Nat /\ y \in Nat
      BY <1>1
    <3>2. /\ <<x, y>> \in R <=> x < y
          /\ <<y, x>> \in R <=> y < x
      BY <2>1, Zenon
    <3> QED
      BY <3>1, <3>2
  <2> HIDE DEF n
  <2>5. IsFiniteSet(T)
    BY <1>1
  <2> QED
    BY <2>2, <2>3, <2>4, <2>5, OrderExists DEF n
<1>3. \E s \in [1 .. n -> T] : \A i, j \in DOMAIN s : i < j => s[i] < s[j]
  BY <1>2
<1>4. /\ InOrder(T) \in [1 .. n -> T]
      /\ \A i, j \in DOMAIN InOrder(T) : i < j => InOrder(T)[i] < InOrder(T)[j]
  BY <1>3 DEF InOrder, Ordered
<1>5. ASSUME NEW i \in 1 .. n, NEW j \in 1 .. n, InOrder(T)[i] = InOrder(T)[j] PROVE i = j
  <2>1. InOrder(T)[i] \in Nat /\ i \in DOMAIN InOrder(T) /\ j \in DOMAIN InOrder(T)
    BY <1>1, <1>4
  <2>2. ~(i < j) /\ ~(j < i)
    BY <2>1, <1>4, <1>5
  <2> QED
    BY <2>2, <1>1
<1> QED
  BY <1>1, <1>4, <1>5

LEMMA PictureFacts ==
    ASSUME NEW picture \in Pictures
    PROVE  /\ DOMAIN picture \in SUBSET Tiles /\ DOMAIN picture # {}
           /\ \A t \in DOMAIN picture :
                /\ picture[t].plane \in Planes /\ picture[t].cells \in SUBSET Cells
           /\ DOMAIN PagesOf(picture) = DOMAIN picture
           /\ \A t \in DOMAIN picture :
                /\ PagesOf(picture)[t] \in SUBSET Keys
                /\ PagesOf(picture)[t] = {picture[t].plane} \X picture[t].cells
<1>1. PICK T \in (SUBSET Tiles) \ {{}} : picture \in [T -> Payloads]
  BY DEF Pictures
<1>2. \A t \in T : picture[t].plane \in Planes /\ picture[t].cells \in SUBSET Cells
  BY <1>1, TilesAssumption DEF Payloads
<1>3. DOMAIN picture = T
  BY <1>1
<1>4. DOMAIN PagesOf(picture) = T
  BY <1>3 DEF PagesOf
<1>5. \A t \in T : /\ PagesOf(picture)[t] = {picture[t].plane} \X picture[t].cells
                   /\ PagesOf(picture)[t] \in SUBSET Keys
  BY <1>2, <1>3 DEF PagesOf, Keys
<1> QED
  BY <1>2, <1>3, <1>4, <1>5

LEMMA MissingFacts ==
    ASSUME NEW picture \in Pictures
    PROVE  /\ Missing(PagesOf(picture)) \in Seq(Keys)
           /\ \A i \in DOMAIN Missing(PagesOf(picture)) :
                Missing(PagesOf(picture))[i] \in Keys \ Resident
           /\ \A i, j \in DOMAIN Missing(PagesOf(picture)) :
                Missing(PagesOf(picture))[i] = Missing(PagesOf(picture))[j] => i = j
<1> DEFINE pages == PagesOf(picture)
           T == DOMAIN pages
           S == AllPages(pages) \ Resident
           n == Cardinality(S)
           R == {p \in S \X S : Sooner(pages, p[1], p[2])}
<1>1. /\ T \in SUBSET Tiles /\ T \subseteq Nat
      /\ \A t \in T : /\ pages[t] \in SUBSET Keys
                      /\ \A k, l \in pages[t] : k[1] = l[1]
  BY PictureFacts, TilesAssumption DEF Tiles
<1>2. IsFiniteSet(S) /\ S \subseteq Keys /\ n \in Nat
  <2>1. IsFiniteSet(T)
    BY <1>1, FiniteTiles
  <2>2. \A t \in T : IsFiniteSet(pages[t])
    <3> TAKE t \in T
    <3>1. IsFiniteSet({picture[t].plane}) /\ IsFiniteSet(picture[t].cells)
      BY PictureFacts, FS_Singleton, FS_Subset, TilesAssumption
    <3> QED
      BY <3>1, PictureFacts, FS_Product
  <2>3. T \in SUBSET Nat /\ pages = [t \in T |-> pages[t]]
    BY <1>1 DEF PagesOf
  <2>4. IsFiniteSet({pages[t] : t \in T})
    <3> DEFINE U == {pages[t] : t \in T}
               f == [t \in T |-> pages[t]]
    <3>1. f \in Surjection(T, U)
      BY DEF Surjection
    <3> QED
      BY <3>1, <2>1, FS_Surjection
  <2>5. IsFiniteSet(AllPages(pages))
    BY <2>2, <2>4, FS_UNION DEF AllPages
  <2>6. IsFiniteSet(S)
    BY <2>5, FS_Difference
  <2>7. S \subseteq Keys
    BY <1>1 DEF AllPages
  <2> QED
    BY <2>6, <2>7, FS_CardinalityType
<1>3. \A k \in S : \E t \in T : k \in pages[t] /\ \A u \in T : k \in pages[u] => t <= u
  <2> TAKE k \in S
  <2> DEFINE I == {t \in T : k \in pages[t]}
  <2>1. I \in SUBSET Nat /\ I # {}
    BY <1>1 DEF AllPages
  <2>2. PICK t \in I : \A u \in I : t <= u
    BY <2>1, LeastOfNat
  <2> QED
    BY <2>2
<1>4. \A k \in S : k[2] \in Nat /\ k = <<k[1], k[2]>>
  BY <1>2, TilesAssumption DEF Keys
<1> HIDE DEF pages, S
<1>5. \A k \in S : <<k, k>> \notin R
  <2> SUFFICES ASSUME NEW k \in S, Sooner(pages, k, k) PROVE FALSE
    OBVIOUS
  <2>1. PICK t \in T : k \in pages[t] /\ (k \in pages[t] => t < t \/ (t = t /\ k[2] < k[2]))
    BY DEF Sooner
  <2> QED
    BY <2>1, <1>1, <1>4
<1>6. \A k, l \in S : k = l \/ <<k, l>> \in R \/ <<l, k>> \in R
  <2> SUFFICES ASSUME NEW k \in S, NEW l \in S, k # l PROVE Sooner(pages, k, l) \/ Sooner(pages, l, k)
    OBVIOUS
  <2>1. PICK t \in T : k \in pages[t] /\ \A u \in T : k \in pages[u] => t <= u
    BY <1>3
  <2>2. PICK v \in T : l \in pages[v] /\ \A u \in T : l \in pages[u] => v <= u
    BY <1>3
  <2>3. t \in Nat /\ v \in Nat
    BY <1>1
  <2>4. CASE t < v
    <3>1. \A u \in T : l \in pages[u] => t < u
      BY <2>2, <2>3, <2>4, <1>1
    <3> QED
      BY <3>1, <2>1 DEF Sooner
  <2>5. CASE v < t
    <3>1. \A u \in T : k \in pages[u] => v < u
      BY <2>1, <2>3, <2>5, <1>1
    <3> QED
      BY <3>1, <2>2 DEF Sooner
  <2>6. CASE t = v
    <3>1. k[2] # l[2]
      BY <2>1, <2>2, <2>6, <1>1, <1>4
    <3>2. k[2] < l[2] \/ l[2] < k[2]
      BY <3>1, <1>4
    <3>3. CASE k[2] < l[2]
      <4>1. \A u \in T : l \in pages[u] => t < u \/ (t = u /\ k[2] < l[2])
        BY <2>2, <2>3, <2>6, <3>3, <1>1
      <4> QED
        BY <4>1, <2>1 DEF Sooner
    <3>4. CASE l[2] < k[2]
      <4>1. \A u \in T : k \in pages[u] => v < u \/ (v = u /\ l[2] < k[2])
        BY <2>1, <2>3, <2>6, <3>4, <1>1
      <4> QED
        BY <4>1, <2>2 DEF Sooner
    <3> QED
      BY <3>2, <3>3, <3>4
  <2> QED
    BY <2>3, <2>4, <2>5, <2>6
<1>7. \A k, l, m \in S : <<k, l>> \in R /\ <<l, m>> \in R => <<k, m>> \in R
  <2> SUFFICES ASSUME NEW k \in S, NEW l \in S, NEW m \in S,
                      Sooner(pages, k, l), Sooner(pages, l, m)
               PROVE  Sooner(pages, k, m)
    OBVIOUS
  <2>1. PICK t \in T :
          /\ k \in pages[t]
          /\ \A u \in T : l \in pages[u] => t < u \/ (t = u /\ k[2] < l[2])
    BY DEF Sooner
  <2>2. PICK v \in T :
          /\ l \in pages[v]
          /\ \A u \in T : m \in pages[u] => v < u \/ (v = u /\ l[2] < m[2])
    BY DEF Sooner
  <2>3. t < v \/ (t = v /\ k[2] < l[2])
    BY <2>1, <2>2
  <2>4. t \in Nat /\ v \in Nat /\ k[2] \in Nat /\ l[2] \in Nat /\ m[2] \in Nat
    BY <1>1, <1>4
  <2>5. ASSUME NEW u \in T, m \in pages[u] PROVE t < u \/ (t = u /\ k[2] < m[2])
    <3>1. v < u \/ (v = u /\ l[2] < m[2])
      BY <2>2, <2>5
    <3>2. u \in Nat
      BY <1>1
    <3> QED
      BY <3>1, <3>2, <2>3, <2>4
  <2> QED
    BY <2>1, <2>5 DEF Sooner
<1>8. \E s \in [1 .. n -> S] : \A i, j \in 1 .. n : i < j => <<s[i], s[j]>> \in R
  <2> HIDE DEF R
  <2> QED
    BY <1>2, <1>5, <1>6, <1>7, OrderExists
<1>9. \E s \in [1 .. n -> S] : \A i, j \in DOMAIN s : i < j => Sooner(pages, s[i], s[j])
  BY <1>8
<1> DEFINE s == Missing(pages)
<1>10. s \in [1 .. n -> S] /\ \A i, j \in DOMAIN s : i < j => Sooner(pages, s[i], s[j])
  BY <1>9 DEF Missing, Ordered, S
<1> HIDE DEF s
<1>11. ASSUME NEW i \in DOMAIN s, NEW j \in DOMAIN s, s[i] = s[j] PROVE i = j
  <2>1. ASSUME NEW x \in DOMAIN s, NEW y \in DOMAIN s, s[x] = s[y] PROVE ~(x < y)
    <3>1. s[x] \in S /\ (x < y => <<s[x], s[x]>> \in R)
      BY <2>1, <1>10
    <3> QED
      BY <3>1, <1>5
  <2>2. i \in Nat /\ j \in Nat
    BY <1>10, <1>2
  <2> QED
    BY <2>1, <2>2, <1>11
<1>12. s \in Seq(Keys) /\ \A i \in DOMAIN s : s[i] \in Keys \ Resident
  <2>1. \A k \in S : k \in Keys \ Resident
    BY <1>2 DEF S
  <2>2. \A i \in DOMAIN s : s[i] \in S
    BY <1>10
  <2>3. s \in [1 .. n -> Keys]
    BY <1>10, <2>1
  <2> HIDE DEF n
  <2>4. s \in Seq(Keys)
    BY <2>3, <1>2
  <2> QED
    BY <2>1, <2>2, <2>4
<1> USE DEF pages, s
<1>13. /\ Missing(PagesOf(picture)) \in Seq(Keys)
       /\ \A i \in DOMAIN Missing(PagesOf(picture)) :
            Missing(PagesOf(picture))[i] \in Keys \ Resident
  BY <1>12, Zenon
<1>14. \A i, j \in DOMAIN Missing(PagesOf(picture)) :
         Missing(PagesOf(picture))[i] = Missing(PagesOf(picture))[j] => i = j
  BY <1>11, Zenon
<1> QED
  BY <1>13, <1>14

LEMMA FinitePages ==
    ASSUME NEW picture \in Pictures
    PROVE  /\ AllPages(PagesOf(picture)) \in SUBSET Keys
           /\ IsFiniteSet(AllPages(PagesOf(picture)))
           /\ \A t \in DOMAIN picture :
                Cardinality(PagesOf(picture)[t]) \in 0 .. Cardinality(Cells)
           /\ PageCount(PagesOf(picture)) \in Nat
<1> DEFINE pages == PagesOf(picture)
           T == DOMAIN pages
<1>1. /\ T \in SUBSET Tiles /\ IsFiniteSet(T) /\ T = DOMAIN picture
      /\ \A t \in T : /\ pages[t] \in SUBSET Keys
                      /\ pages[t] = {picture[t].plane} \X picture[t].cells
                      /\ picture[t].cells \in SUBSET Cells
  BY PictureFacts, FiniteTiles
<1>2. IsFiniteSet(Cells) /\ Cardinality(Cells) \in Nat
  BY TilesAssumption, FS_CardinalityType
<1>3. ASSUME NEW t \in T
      PROVE  /\ IsFiniteSet(pages[t]) /\ IsFiniteSet({t} \X pages[t])
             /\ Cardinality(pages[t]) \in 0 .. Cardinality(Cells)
  <2> DEFINE P == {picture[t].plane}
             C == picture[t].cells
  <2>1. /\ IsFiniteSet(P) /\ Cardinality(P) = 1 /\ IsFiniteSet(C) /\ Cardinality(C) \in Nat
        /\ Cardinality(C) <= Cardinality(Cells) /\ pages[t] = P \X C
    BY <1>1, <1>2, FS_Singleton, FS_Subset, FS_CardinalityType
  <2> HIDE DEF P, C
  <2>2. IsFiniteSet(pages[t]) /\ Cardinality(pages[t]) = 1 * Cardinality(C)
    BY <2>1, FS_Product
  <2>3. IsFiniteSet({t} \X pages[t])
    BY <2>2, FS_Singleton, FS_Product
  <2> QED
    BY <1>2, <2>1, <2>2, <2>3
<1> HIDE DEF pages
<1>4. ASSUME NEW f, f = [t \in T |-> f[t]], \A t \in T : IsFiniteSet(f[t])
      PROVE  IsFiniteSet(UNION {f[t] : t \in T})
  <2> DEFINE U == {f[t] : t \in T}
  <2>1. f \in Surjection(T, U)
    BY <1>4 DEF Surjection
  <2>2. IsFiniteSet(U)
    BY <2>1, <1>1, FS_Surjection
  <2>3. \A A \in U : IsFiniteSet(A)
    BY <1>4
  <2> QED
    BY <2>2, <2>3, FS_UNION
<1>5. IsFiniteSet(AllPages(pages))
  <2>1. pages = [t \in T |-> pages[t]]
    BY DEF pages, PagesOf
  <2>2. \A t \in T : IsFiniteSet(pages[t])
    BY <1>3
  <2> HIDE DEF T
  <2>3. IsFiniteSet(UNION {pages[t] : t \in T})
    BY <2>1, <2>2, <1>4, Zenon
  <2> QED
    BY <2>3 DEF AllPages, T
<1>6. IsFiniteSet(Visits(pages))
  <2> DEFINE f == [t \in T |-> {t} \X pages[t]]
  <2>1. f = [t \in T |-> f[t]] /\ \A t \in T : f[t] = {t} \X pages[t] /\ IsFiniteSet(f[t])
    BY <1>3
  <2> HIDE DEF f
  <2>2. IsFiniteSet(UNION {f[t] : t \in T})
    BY <2>1, <1>4
  <2>3. Visits(pages) = UNION {f[t] : t \in T}
    BY <2>1 DEF Visits
  <2> QED
    BY <2>2, <2>3
<1>7. PageCount(pages) \in Nat
  BY <1>6, FS_CardinalityType DEF PageCount
<1>8. AllPages(pages) \in SUBSET Keys
  BY <1>1 DEF AllPages, pages
<1> QED
  BY <1>1, <1>3, <1>5, <1>7, <1>8 DEF pages

(* What is reserved for a picture is a number of layers.                     *)
LEMMA NeededFacts ==
    ASSUME NEW picture \in Pictures
    PROVE  PagesNeeded(PagesOf(picture)) \in Nat
<1> DEFINE pages == PagesOf(picture)
           N == {Cardinality(pages[t]) : t \in DOMAIN pages}
           M == Cardinality(Cells)
           B == {m \in Nat : \A n \in N : n <= m}
<1>1. /\ DOMAIN pages # {} /\ \A t \in DOMAIN pages : Cardinality(pages[t]) \in 0 .. M
      /\ M \in Nat /\ PageCount(pages) \in Nat /\ MaxLayers \in Nat /\ NTiles \in Nat
  BY FinitePages, PictureFacts, TilesAssumption, LayersAssumption, FS_CardinalityType
<1> HIDE DEF pages, M
<1>2. PICK m \in B : \A n \in B : m <= n
  <2>1. M \in B /\ B \in SUBSET Nat
    BY <1>1
  <2> HIDE DEF B
  <2> QED
    BY <2>1, LeastOfNat
<1>3. m \in N
  <2> SUFFICES ASSUME m \notin N PROVE FALSE
    OBVIOUS
  <2>1. PICK t \in DOMAIN pages : TRUE
    BY <1>1
  <2>2. m \in Nat /\ \A n \in N : n \in Nat /\ n <= m /\ n # m
    BY <1>1, <1>2
  <2>3. m > 0
    BY <2>1, <2>2
  <2>4. m - 1 \in B
    BY <2>2, <2>3
  <2> QED
    BY <2>2, <2>4, <1>2
<1>4. \E n \in 0 .. M :
        /\ \E t \in DOMAIN pages : n = Cardinality(pages[t])
        /\ \A t \in DOMAIN pages : n >= Cardinality(pages[t])
  <2>1. PICK t \in DOMAIN pages : m = Cardinality(pages[t])
    BY <1>3
  <2>2. \A u \in DOMAIN pages : Cardinality(pages[u]) <= m
    BY <1>2
  <2> QED
    BY <2>1, <2>2, <1>1
<1>5. LargestTile(pages) \in Nat
  BY <1>4, <1>1 DEF LargestTile, M
<1>6. NTiles * LargestTile(pages) \in Nat
  BY <1>1, <1>5
<1> QED
  BY <1>1, <1>5, <1>6 DEF PagesNeeded, Greater, Lesser, pages

LEMMA BudgetFacts ==
    ASSUME PoolTypes, NEW needed \in Nat
    PROVE  LayerBudget(needed) \in Nat
BY LayersAssumption, TilesAssumption DEF PoolTypes, LayerBudget, Greater, Lesser

(* The resident pages are finitely many, being those in the order of use.    *)
LEMMA ResidentFinite == ASSUME TableTypes PROVE IsFiniteSet(Resident)
<1>1. lru \in Surjection(1 .. Len(lru), Resident)
  BY DEF TableTypes, OrderOK, Surjection
<1>2. Len(lru) \in Nat
  BY DEF TableTypes
<1>3. IsFiniteSet(1 .. Len(lru))
  BY <1>2, FS_Interval
<1> QED
  BY <1>1, <1>3, FS_Surjection

-----------------------------------------------------------------------------
(* Sequences of commands.                                                   *)
Rebinds(c) == c.op = "planes" \/ (c.op = "pins" /\ c.owner = "bound")
Uploads(c) == c.op \in {"ensure", "generate"}

NoOpen(s) == \A i \in DOMAIN s : s[i].op # "open"
OneOpen(s) == \A i, j \in DOMAIN s : s[i].op = "open" /\ s[j].op = "open" => i = j
NoUpload(s) == \A i \in DOMAIN s : ~Uploads(s[i])
UploadsOnce(s) ==
  /\ \A i \in DOMAIN s : Uploads(s[i]) => s[i].key \notin Resident
  /\ \A i, j \in DOMAIN s : Uploads(s[i]) /\ Uploads(s[j]) /\ s[i].key = s[j].key => i = j

LEMMA Cat ==
    ASSUME NEW S, NEW s \in Seq(S), NEW t \in Seq(S)
    PROVE  /\ s \o t \in Seq(S) /\ Len(s \o t) = Len(s) + Len(t)
           /\ Len(s) \in Nat /\ Len(t) \in Nat
           /\ DOMAIN s = 1 .. Len(s) /\ DOMAIN t = 1 .. Len(t)
           /\ DOMAIN (s \o t) = 1 .. (Len(s) + Len(t))
           /\ \A i \in DOMAIN s : (s \o t)[i] = s[i]
           /\ \A i \in DOMAIN t : (s \o t)[Len(s) + i] = t[i]
           /\ \A i \in DOMAIN (s \o t) :
                \/ i \in DOMAIN s /\ (s \o t)[i] = s[i]
                \/ i - Len(s) \in DOMAIN t /\ (s \o t)[i] = t[i - Len(s)]
OBVIOUS

LEMMA CatOpens ==
    ASSUME NEW s \in Seq(Command), NEW t \in Seq(Command)
    PROVE  /\ NoOpen(s) /\ NoOpen(t) => NoOpen(s \o t)
           /\ NoOpen(s) /\ OneOpen(t) => OneOpen(s \o t)
           /\ OneOpen(s) /\ NoOpen(t) => OneOpen(s \o t)
<1>1. NoOpen(s) /\ NoOpen(t) => NoOpen(s \o t)
  BY Cat DEF NoOpen
<1>2. ASSUME NoOpen(s), OneOpen(t) PROVE OneOpen(s \o t)
  <2> SUFFICES ASSUME NEW i \in DOMAIN (s \o t), NEW j \in DOMAIN (s \o t),
                      (s \o t)[i].op = "open", (s \o t)[j].op = "open"
               PROVE  i = j
    BY DEF OneOpen
  <2>1. /\ i - Len(s) \in DOMAIN t /\ (s \o t)[i] = t[i - Len(s)]
        /\ j - Len(s) \in DOMAIN t /\ (s \o t)[j] = t[j - Len(s)]
    BY <1>2, Cat DEF NoOpen
  <2>2. i - Len(s) = j - Len(s)
    BY <1>2, <2>1 DEF OneOpen
  <2> QED
    BY <2>2, Cat
<1>3. ASSUME OneOpen(s), NoOpen(t) PROVE OneOpen(s \o t)
  <2> SUFFICES ASSUME NEW i \in DOMAIN (s \o t), NEW j \in DOMAIN (s \o t),
                      (s \o t)[i].op = "open", (s \o t)[j].op = "open"
               PROVE  i = j
    BY DEF OneOpen
  <2>1. /\ i \in DOMAIN s /\ (s \o t)[i] = s[i]
        /\ j \in DOMAIN s /\ (s \o t)[j] = s[j]
    BY <1>3, Cat DEF NoOpen
  <2> QED
    BY <1>3, <2>1 DEF OneOpen
<1> QED
  BY <1>1, <1>2, <1>3

LEMMA CatUploads ==
    ASSUME NEW s \in Seq(Command), NEW t \in Seq(Command)
    PROVE  /\ NoUpload(s) /\ NoUpload(t) => NoUpload(s \o t)
           /\ NoUpload(s) /\ UploadsOnce(t) => UploadsOnce(s \o t)
           /\ UploadsOnce(s) /\ NoUpload(t) => UploadsOnce(s \o t)
<1>1. NoUpload(s) /\ NoUpload(t) => NoUpload(s \o t)
  BY Cat DEF NoUpload
<1>2. ASSUME NoUpload(s), UploadsOnce(t) PROVE UploadsOnce(s \o t)
  <2>1. ASSUME NEW i \in DOMAIN (s \o t), Uploads((s \o t)[i])
        PROVE  i - Len(s) \in DOMAIN t /\ (s \o t)[i] = t[i - Len(s)]
    BY <1>2, <2>1, Cat DEF NoUpload
  <2>2. ASSUME NEW i \in DOMAIN (s \o t), Uploads((s \o t)[i]) PROVE (s \o t)[i].key \notin Resident
    BY <1>2, <2>1, <2>2 DEF UploadsOnce
  <2>3. ASSUME NEW i \in DOMAIN (s \o t), NEW j \in DOMAIN (s \o t), Uploads((s \o t)[i]),
               Uploads((s \o t)[j]), (s \o t)[i].key = (s \o t)[j].key
        PROVE  i = j
    <3>1. /\ i - Len(s) \in DOMAIN t /\ (s \o t)[i] = t[i - Len(s)]
          /\ j - Len(s) \in DOMAIN t /\ (s \o t)[j] = t[j - Len(s)]
      BY <2>1, <2>3
    <3>2. i - Len(s) = j - Len(s)
      BY <1>2, <2>3, <3>1 DEF UploadsOnce
    <3> QED
      BY <3>2, Cat
  <2> QED
    BY <2>2, <2>3 DEF UploadsOnce
<1>3. ASSUME UploadsOnce(s), NoUpload(t) PROVE UploadsOnce(s \o t)
  <2>1. ASSUME NEW i \in DOMAIN (s \o t), Uploads((s \o t)[i])
        PROVE  i \in DOMAIN s /\ (s \o t)[i] = s[i]
    BY <1>3, <2>1, Cat DEF NoUpload
  <2>2. ASSUME NEW i \in DOMAIN (s \o t), Uploads((s \o t)[i]) PROVE (s \o t)[i].key \notin Resident
    BY <1>3, <2>1, <2>2 DEF UploadsOnce
  <2>3. ASSUME NEW i \in DOMAIN (s \o t), NEW j \in DOMAIN (s \o t), Uploads((s \o t)[i]),
               Uploads((s \o t)[j]), (s \o t)[i].key = (s \o t)[j].key
        PROVE  i = j
    BY <1>3, <2>1, <2>3 DEF UploadsOnce
  <2> QED
    BY <2>2, <2>3 DEF UploadsOnce
<1> QED
  BY <1>1, <1>2, <1>3

(* What opens once and is closed at once behind does not nest.               *)
LEMMA ClosesOnce ==
    ASSUME NEW s \in Seq(Command), NEW t \in Seq(Command), OneOpen(s), NoOpen(t),
           t # <<>>, t[1].op = "close"
    PROVE  Closes(s \o t)
<1>1. 1 \in DOMAIN t /\ Len(s) \in Nat
  OBVIOUS
<1>2. Len(s) + 1 \in DOMAIN (s \o t) /\ (s \o t)[Len(s) + 1].op = "close"
  BY <1>1, Cat
<1>3. OneOpen(s \o t)
  BY CatOpens
<1>4. ASSUME NEW i \in DOMAIN (s \o t), (s \o t)[i].op = "open"
      PROVE  /\ i < Len(s) + 1
             /\ \A m \in (i + 1) .. ((Len(s) + 1) - 1) : (s \o t)[m].op # "open"
  <2>1. i \in DOMAIN s
    BY <1>4, Cat DEF NoOpen
  <2>2. i \in Nat /\ i <= Len(s)
    BY <2>1, Cat
  <2>3. ASSUME NEW m \in (i + 1) .. ((Len(s) + 1) - 1) PROVE (s \o t)[m].op # "open"
    <3>1. m \in DOMAIN (s \o t) /\ m # i
      BY <2>2, <1>1, Cat
    <3> QED
      BY <3>1, <1>3, <1>4 DEF OneOpen
  <2> QED
    BY <2>2, <2>3, <1>1
<1> QED
  BY <1>2, <1>4 DEF Closes

(* The commands a plan is made of, and the others.                           *)
LEMMA Commands ==
    /\ \A owner \in {"bound", "warm"}, keys \in SUBSET Keys : SetPins(owner, keys) \in Command
    /\ \A keys \in SUBSET Keys : OpenFor(keys) \in Command
    /\ CloseIt \in Command /\ Returns \in Command
    /\ \A op \in {"ensure", "generate", "evict"}, k \in Keys : Do(op, k) \in Command
    /\ \A planes \in Seq(Planes), keys \in SUBSET Keys :
         [op |-> "planes", planes |-> planes, keys |-> keys] \in Command
    /\ \A keys \in SUBSET Keys : [op |-> "histogram", keys |-> keys] \in Command
BY DEF Command, SetPins, OpenFor, CloseIt, Returns, Do

LEMMA ReserveCommand ==
    ASSUME PoolTypes, NEW needed \in Nat
    PROVE  Reserve(needed) \in Command /\ Reserve(needed).op = "capacity"
BY BudgetFacts DEF Reserve, Command

LEMMA PlanFacts ==
    ASSUME NEW picture \in Pictures, NEW p \in {Plan(PagesOf(picture)), WarmPlan(PagesOf(picture))}
    PROVE  /\ p \in Seq(Command)
           /\ \A i \in DOMAIN p : Uploads(p[i])
           /\ UploadsOnce(p)
<1> DEFINE keys == Missing(PagesOf(picture))
<1>1. /\ keys \in Seq(Keys) /\ \A i \in DOMAIN keys : keys[i] \in Keys \ Resident
      /\ \A i, j \in DOMAIN keys : keys[i] = keys[j] => i = j
  BY MissingFacts
<1>2. /\ DOMAIN p = DOMAIN keys
      /\ \A i \in DOMAIN keys : p[i] = Do("ensure", keys[i]) \/ p[i] = Do("generate", keys[i])
      /\ p = [i \in DOMAIN keys |-> p[i]]
  BY DEF Plan, WarmPlan
<1> HIDE DEF keys
<1>3. \A i \in DOMAIN keys :
        p[i] \in Command /\ Uploads(p[i]) /\ p[i].key = keys[i]
  <2> TAKE i \in DOMAIN keys
  <2>1. p[i] \in Command
    BY <1>1, <1>2, Commands
  <2> QED
    BY <2>1, <1>2 DEF Do, Uploads
<1>4. p \in Seq(Command)
  BY <1>1, <1>2, <1>3
<1> QED
  BY <1>1, <1>2, <1>3, <1>4 DEF UploadsOnce

(* What comes before the end of a commit: nothing returns or evicts, and     *)
(* what protects the bound picture protects at least the given pages.        *)
Inner(s, held) ==
  /\ s \in Seq(Command)
  /\ \A i \in DOMAIN s :
       /\ s[i].op \notin {"return", "evict"}
       /\ Rebinds(s[i]) => held \subseteq s[i].keys

LEMMA CatInner ==
    ASSUME NEW held, NEW s, NEW t, Inner(s, held), Inner(t, held)
    PROVE  Inner(s \o t, held)
<1>1. s \in Seq(Command) /\ t \in Seq(Command)
  BY DEF Inner
<1>2. s \o t \in Seq(Command)
  BY <1>1, Cat
<1>3. ASSUME NEW i \in DOMAIN (s \o t)
      PROVE  /\ (s \o t)[i].op \notin {"return", "evict"}
             /\ Rebinds((s \o t)[i]) => held \subseteq (s \o t)[i].keys
  <2>1. CASE i \in DOMAIN s /\ (s \o t)[i] = s[i]
    BY <2>1, <1>1 DEF Inner
  <2>2. CASE i - Len(s) \in DOMAIN t /\ (s \o t)[i] = t[i - Len(s)]
    BY <2>2, <1>1 DEF Inner
  <2> QED
    BY <1>1, <1>3, <2>1, <2>2, Cat
<1> QED
  BY <1>2, <1>3 DEF Inner

LEMMA CatOf ==
    ASSUME NEW s \in Seq(Command), NEW t \in Seq(Command)
    PROVE  /\ s \o t \in Seq(Command) /\ Len(s \o t) = Len(s) + Len(t) /\ Len(s) \in Nat
           /\ \A i \in DOMAIN t : (s \o t)[Len(s) + i] = t[i]
           /\ \A i \in DOMAIN (s \o t) :
                \/ i \in DOMAIN s /\ (s \o t)[i] = s[i]
                \/ i - Len(s) \in DOMAIN t /\ (s \o t)[i] = t[i - Len(s)]
BY Cat

CommitEnd(keys) == <<CloseIt, SetPins("bound", keys), Returns>>

LEMMA EndFacts ==
    ASSUME NEW keys \in SUBSET Keys
    PROVE  /\ CommitEnd(keys) \in Seq(Command) /\ Len(CommitEnd(keys)) = 3
           /\ CommitEnd(keys) # <<>> /\ CommitEnd(keys)[1].op = "close"
           /\ NoOpen(CommitEnd(keys)) /\ NoUpload(CommitEnd(keys))
<1>1. CloseIt \in Command /\ SetPins("bound", keys) \in Command /\ Returns \in Command
  BY Commands
<1> DEFINE e == CommitEnd(keys)
<1>2. e \in Seq(Command) /\ Len(e) = 3 /\ DOMAIN e = 1 .. 3
      /\ e[1] = CloseIt /\ e[2] = SetPins("bound", keys) /\ e[3] = Returns
  BY <1>1 DEF CommitEnd
<1>6. e # <<>>
  BY DEF CommitEnd
<1> HIDE DEF e
<1>3. \A i \in DOMAIN e : i = 1 \/ i = 2 \/ i = 3
  BY <1>2
<1>4. \A i \in DOMAIN e : e[i].op \in {"close", "pins", "return"}
  BY <1>2, <1>3 DEF CloseIt, SetPins, Returns
<1>5. e[1].op = "close"
  BY <1>2 DEF CloseIt
<1>7. NoOpen(e) /\ NoUpload(e)
  BY <1>4 DEF NoOpen, NoUpload, Uploads
<1> QED
  BY <1>2, <1>5, <1>6, <1>7 DEF e

(* A submission of a commit, as far as the proofs need it.                   *)
CommitProgram(b, keys, held) ==
  /\ b \in Seq(Command) /\ Len(b) >= 2
  /\ b[Len(b)] = Returns /\ b[Len(b) - 1] = SetPins("bound", keys)
  /\ Closes(b) /\ UploadsOnce(b)
  /\ \A i \in DOMAIN b :
       /\ b[i].op = "return" => i = Len(b)
       /\ b[i].op # "evict"
       /\ Rebinds(b[i]) => i = Len(b) - 1 \/ held \subseteq b[i].keys

LEMMA InnerThenEnd ==
    ASSUME NEW held, NEW s, Inner(s, held), NEW keys \in SUBSET Keys, OneOpen(s), UploadsOnce(s)
    PROVE  CommitProgram(s \o CommitEnd(keys), keys, held)
<1> DEFINE e == CommitEnd(keys)
           b == s \o e
<1>0. s \in Seq(Command)
  BY DEF Inner
<1>2. /\ DOMAIN e = 1 .. 3 /\ e[1] = CloseIt /\ e[2] = SetPins("bound", keys) /\ e[3] = Returns
  BY DEF CommitEnd
<1>1. s \in Seq(Command) /\ e \in Seq(Command) /\ Len(e) = 3 /\ e # <<>> /\ e[1].op = "close"
      /\ NoOpen(e) /\ NoUpload(e)
  BY <1>0, EndFacts, Zenon
<1> HIDE DEF e
<1>3. /\ b \in Seq(Command) /\ Len(b) = Len(s) + 3 /\ Len(s) \in Nat
      /\ \A i \in DOMAIN e : b[Len(s) + i] = e[i]
      /\ \A i \in DOMAIN b :
           \/ i \in DOMAIN s /\ b[i] = s[i]
           \/ i - Len(s) \in DOMAIN e /\ b[i] = e[i - Len(s)]
  <2>1. /\ b \in Seq(Command) /\ Len(b) = Len(s) + Len(e) /\ Len(s) \in Nat
        /\ \A i \in DOMAIN e : b[Len(s) + i] = e[i]
        /\ \A i \in DOMAIN b :
             \/ i \in DOMAIN s /\ b[i] = s[i]
             \/ i - Len(s) \in DOMAIN e /\ b[i] = e[i - Len(s)]
    <3>1. s \in Seq(Command) /\ e \in Seq(Command)
      BY <1>1
    <3> QED
      BY <3>1, CatOf
  <2> HIDE DEF b
  <2> QED
    BY <1>1, <2>1
<1>4. Closes(b)
  BY <1>1, ClosesOnce
<1>5. UploadsOnce(b)
  BY <1>1, CatUploads
<1> HIDE DEF b
<1>6. b[Len(b)] = Returns /\ b[Len(b) - 1] = SetPins("bound", keys) /\ Len(b) >= 2
  <2>1. b[Len(s) + 3] = e[3] /\ b[Len(s) + 2] = e[2]
    BY <1>2, <1>3
  <2>2. Len(b) - 1 = Len(s) + 2
    BY <1>3
  <2> QED
    BY <2>1, <2>2, <1>2, <1>3
<1>7. ASSUME NEW i \in DOMAIN b
      PROVE  /\ b[i].op = "return" => i = Len(b)
             /\ b[i].op # "evict"
             /\ Rebinds(b[i]) => i = Len(b) - 1 \/ held \subseteq b[i].keys
  <2>1. CASE i \in DOMAIN s /\ b[i] = s[i]
    BY <2>1 DEF Inner
  <2>2. CASE i - Len(s) \in DOMAIN e /\ b[i] = e[i - Len(s)]
    <3>0. i \in Nat /\ i \in 1 .. Len(b)
      BY <1>3
    <3>1. CASE i - Len(s) = 1
      BY <3>1, <2>2, <1>2 DEF CloseIt, Rebinds
    <3>2. CASE i - Len(s) = 2
      <4>1. i = Len(b) - 1
        BY <3>0, <3>2, <1>3
      <4> QED
        BY <4>1, <3>2, <2>2, <1>2 DEF SetPins
    <3>3. CASE i - Len(s) = 3
      <4>1. i = Len(b)
        BY <3>0, <3>3, <1>3
      <4> QED
        BY <4>1, <3>3, <2>2, <1>2 DEF Returns, Rebinds
    <3> QED
      BY <2>2, <1>2, <3>1, <3>2, <3>3
  <2> QED
    BY <1>3, <2>1, <2>2
<1> QED
  BY <1>3, <1>4, <1>5, <1>6, <1>7 DEF CommitProgram, b, e

LEMMA OneInner ==
    ASSUME NEW held, NEW c \in Command, c.op \notin {"return", "evict", "open", "ensure", "generate"},
           Rebinds(c) => held \subseteq c.keys
    PROVE  Inner(<<c>>, held) /\ NoOpen(<<c>>) /\ NoUpload(<<c>>)
BY DEF Inner, NoOpen, NoUpload, Uploads

LEMMA OneIsOne == ASSUME NEW s, NoOpen(s) PROVE OneOpen(s)
BY DEF NoOpen, OneOpen

LEMMA NoneIsOnce == ASSUME NEW s, NoUpload(s) PROVE UploadsOnce(s)
BY DEF NoUpload, UploadsOnce

(* Every commit of the display is such a submission.                         *)
LEMMA ProgramFacts ==
    ASSUME PoolTypes, NEW held, NEW before, Inner(before, held), NoOpen(before), NoUpload(before),
           NEW work \in Pictures, NEW record, record.planes \in Seq(Planes),
           record.keys \in SUBSET Keys,
           NEW transaction \in SUBSET Keys, held \subseteq transaction,
           NEW histograms \in SUBSET Keys
    PROVE  CommitProgram(Program(before, work, record, transaction, histograms), record.keys, held)
<1> DEFINE R == <<Reserve(PagesNeeded(PagesOf(work)))>>
           W == <<SetPins("warm", {}), OpenFor(histograms),
                  [op |-> "planes", planes |-> record.planes, keys |-> transaction]>>
           P == Plan(PagesOf(work))
           H == IF histograms = {} THEN <<>> ELSE <<[op |-> "histogram", keys |-> histograms]>>
           e == CommitEnd(record.keys)
<1>1. Inner(R, held) /\ NoOpen(R) /\ NoUpload(R)
  <2>1. Reserve(PagesNeeded(PagesOf(work))) \in Command
        /\ Reserve(PagesNeeded(PagesOf(work))).op = "capacity"
    BY NeededFacts, ReserveCommand
  <2> QED
    BY <2>1, OneInner DEF Rebinds
<1>2. Inner(W, held) /\ OneOpen(W) /\ NoUpload(W)
  <2>1. {} \in SUBSET Keys
    OBVIOUS
  <2>2. SetPins("warm", {}) \in Command /\ OpenFor(histograms) \in Command
        /\ [op |-> "planes", planes |-> record.planes, keys |-> transaction] \in Command
    BY <2>1, Commands
  <2>3. W \in Seq(Command) /\ DOMAIN W = 1 .. 3
    BY <2>2
  <2>4. /\ W[1].op = "pins" /\ W[1].owner = "warm"
        /\ W[2].op = "open"
        /\ W[3].op = "planes" /\ W[3].keys = transaction
    BY DEF SetPins, OpenFor
  <2> HIDE DEF W
  <2>5. \A i \in DOMAIN W : i = 1 \/ i = 2 \/ i = 3
    BY <2>3
  <2> QED
    BY <2>3, <2>4, <2>5 DEF Inner, OneOpen, NoUpload, Uploads, Rebinds
<1>3. Inner(P, held) /\ NoOpen(P) /\ UploadsOnce(P)
  <2>1. P \in Seq(Command) /\ (\A i \in DOMAIN P : Uploads(P[i])) /\ UploadsOnce(P)
    BY PlanFacts
  <2> HIDE DEF P
  <2> QED
    BY <2>1 DEF Inner, NoOpen, Uploads, Rebinds
<1>4. Inner(H, held) /\ NoOpen(H) /\ NoUpload(H)
  <2>1. CASE histograms = {}
    BY <2>1 DEF Inner, NoOpen, NoUpload
  <2>2. CASE histograms # {}
    <3>1. [op |-> "histogram", keys |-> histograms] \in Command
      BY Commands
    <3> QED
      BY <2>2, <3>1, OneInner DEF Rebinds
  <2> QED
    BY <2>1, <2>2
<1> HIDE DEF R, W, P, H
<1>5. Inner(R \o before, held) /\ NoOpen(R \o before) /\ NoUpload(R \o before)
  <2>1. R \in Seq(Command) /\ before \in Seq(Command)
    BY <1>1 DEF Inner
  <2> QED
    BY <1>1, <2>1, CatInner, CatOpens, CatUploads
<1> DEFINE s1 == R \o before
           s2 == s1 \o W
           s3 == s2 \o P
           s4 == s3 \o H
<1>6. Inner(s2, held) /\ OneOpen(s2) /\ NoUpload(s2)
  <2> HIDE DEF s1
  <2>0. Inner(s1, held) /\ NoOpen(s1) /\ NoUpload(s1)
    BY <1>5 DEF s1
  <2>1. s1 \in Seq(Command) /\ W \in Seq(Command)
    BY <2>0, <1>2 DEF Inner
  <2> QED
    BY <1>2, <2>0, <2>1, CatInner, CatOpens, CatUploads
<1> HIDE DEF s2
<1>7. Inner(s3, held) /\ OneOpen(s3) /\ UploadsOnce(s3)
  <2>1. s2 \in Seq(Command) /\ P \in Seq(Command)
    BY <1>6, <1>3 DEF Inner
  <2> QED
    BY <1>3, <1>6, <2>1, CatInner, CatOpens, CatUploads
<1> HIDE DEF s3
<1>8. Inner(s4, held) /\ OneOpen(s4) /\ UploadsOnce(s4)
  <2>1. s3 \in Seq(Command) /\ H \in Seq(Command)
    BY <1>7, <1>4 DEF Inner
  <2> QED
    BY <1>4, <1>7, <2>1, CatInner, CatOpens, CatUploads
<1> HIDE DEF s4
<1>9. CommitProgram(s4 \o e, record.keys, held)
  BY <1>8, InnerThenEnd
<1>10. Program(before, work, record, transaction, histograms) = s4 \o e
  BY DEF Program, s4, s3, s2, s1, R, W, P, H, CommitEnd
<1> QED
  BY <1>9, <1>10

(* What runs beside the bound picture, without some operations.              *)
Calm(s, never) ==
  /\ s \in Seq(Command)
  /\ \A i \in DOMAIN s : s[i].op \notin never /\ ~Rebinds(s[i])

LEMMA CatCalm ==
    ASSUME NEW never, NEW s, NEW t, Calm(s, never), Calm(t, never)
    PROVE  Calm(s \o t, never)
<1>1. s \in Seq(Command) /\ t \in Seq(Command)
  BY DEF Calm
<1>2. s \o t \in Seq(Command)
  BY <1>1, Cat
<1>3. ASSUME NEW i \in DOMAIN (s \o t)
      PROVE  (s \o t)[i].op \notin never /\ ~Rebinds((s \o t)[i])
  <2>1. CASE i \in DOMAIN s /\ (s \o t)[i] = s[i]
    BY <2>1, <1>1 DEF Calm
  <2>2. CASE i - Len(s) \in DOMAIN t /\ (s \o t)[i] = t[i - Len(s)]
    BY <2>2, <1>1 DEF Calm
  <2> QED
    BY <1>1, <1>3, <2>1, <2>2, Cat
<1> QED
  BY <1>2, <1>3 DEF Calm

LEMMA ClosesThen ==
    ASSUME NEW s \in Seq(Command), NEW t \in Seq(Command), Closes(s), NoOpen(t)
    PROVE  Closes(s \o t)
<1> DEFINE b == s \o t
<1>1. /\ Len(s) \in Nat /\ DOMAIN s = 1 .. Len(s) /\ DOMAIN b = 1 .. (Len(s) + Len(t)) /\ Len(t) \in Nat
      /\ \A i \in DOMAIN s : b[i] = s[i]
  BY Cat
<1>2. \A i \in DOMAIN b : i \in DOMAIN s \/ b[i].op # "open"
  BY Cat DEF NoOpen
<1> HIDE DEF b
<1>3. ASSUME NEW i \in DOMAIN b, b[i].op = "open"
      PROVE  \E j \in DOMAIN b :
               /\ i < j /\ b[j].op = "close"
               /\ \A m \in (i + 1) .. (j - 1) : b[m].op # "open"
  <2>1. i \in DOMAIN s /\ s[i].op = "open"
    BY <1>1, <1>2, <1>3
  <2>2. PICK j \in DOMAIN s :
          /\ i < j /\ s[j].op = "close"
          /\ \A m \in (i + 1) .. (j - 1) : s[m].op # "open"
    BY <2>1 DEF Closes
  <2>3. \A m \in (i + 1) .. (j - 1) : m \in DOMAIN s
    BY <1>1, <2>1, <2>2
  <2>4. j \in DOMAIN b
    BY <1>1, <2>2
  <2> QED
    BY <1>1, <2>2, <2>3, <2>4
<1> QED
  BY <1>3 DEF Closes, b

(* Any other callback: it returns last, and leaves the bound picture alone.  *)
OtherProgram(b, never) ==
  /\ b \in Seq(Command) /\ Closes(b) /\ UploadsOnce(b)
  /\ \A i \in DOMAIN b :
       /\ b[i].op = "return" => i = Len(b)
       /\ b[i].op \notin never \ {"return"} /\ ~Rebinds(b[i])

LEMMA CalmThenReturns ==
    ASSUME NEW never, "return" \in never, NEW s, Calm(s, never), Closes(s), UploadsOnce(s)
    PROVE  OtherProgram(s \o <<Returns>>, never)
<1> DEFINE r == <<Returns>>
           b == s \o r
<1>1. s \in Seq(Command) /\ r \in Seq(Command)
  BY Commands DEF Calm
<1>2. NoOpen(r) /\ NoUpload(r) /\ DOMAIN r = {1} /\ r[1].op = "return" /\ ~Rebinds(r[1]) /\ Len(r) = 1
  BY DEF NoOpen, NoUpload, Uploads, Returns, Rebinds
<1>3. b \in Seq(Command) /\ Closes(b) /\ UploadsOnce(b)
  BY <1>1, <1>2, ClosesThen, CatUploads, CatOf
<1>4. Len(b) = Len(s) + Len(r) /\ Len(s) \in Nat
      /\ \A i \in DOMAIN b :
           \/ i \in DOMAIN s /\ b[i] = s[i]
           \/ i - Len(s) \in DOMAIN r /\ b[i] = r[i - Len(s)]
  BY <1>1, CatOf
<1> HIDE DEF r, b
<1>5. ASSUME NEW i \in DOMAIN b
      PROVE  /\ b[i].op = "return" => i = Len(b)
             /\ b[i].op \notin never \ {"return"} /\ ~Rebinds(b[i])
  <2>1. i \in Nat
    BY <1>3
  <2>2. CASE i \in DOMAIN s /\ b[i] = s[i]
    BY <2>2 DEF Calm
  <2>3. CASE i - Len(s) \in DOMAIN r /\ b[i] = r[i - Len(s)]
    BY <2>1, <2>3, <1>2, <1>4
  <2> QED
    BY <1>4, <2>2, <2>3
<1> QED
  BY <1>3, <1>5 DEF OtherProgram, b, r

LEMMA OneCalm ==
    ASSUME NEW never, NEW c \in Command, c.op \notin never, ~Rebinds(c),
           c.op \notin {"open", "ensure", "generate"}
    PROVE  Calm(<<c>>, never) /\ NoOpen(<<c>>) /\ NoUpload(<<c>>)
BY DEF Calm, NoOpen, NoUpload, Uploads

(* The pins a picture is warmed under, if it is to replace another at once.  *)
LEMMA WarmPins ==
    ASSUME NEW keys \in SUBSET Keys, NEW pin \in {<<>>, <<SetPins("warm", keys)>>}
    PROVE  Calm(pin, {"return", "evict"}) /\ NoOpen(pin) /\ NoUpload(pin)
<1>1. CASE pin = <<>>
  BY <1>1 DEF Calm, NoOpen, NoUpload
<1>2. CASE pin = <<SetPins("warm", keys)>>
  <2>1. SetPins("warm", keys) \in Command
    BY Commands
  <2>2. SetPins("warm", keys).op = "pins" /\ SetPins("warm", keys).owner = "warm"
    BY DEF SetPins
  <2>3. ~Rebinds(SetPins("warm", keys))
    BY <2>2 DEF Rebinds
  <2> QED
    BY <1>2, <2>1, <2>2, <2>3, OneCalm
<1> QED
  BY <1>1, <1>2

LEMMA WarmFacts ==
    ASSUME PoolTypes, NEW keys \in SUBSET Keys, NEW pin \in {<<>>, <<SetPins("warm", keys)>>},
           NEW needed \in Nat, NEW part \in Pictures
    PROVE  OtherProgram(WarmProgram(pin, needed, part, pin), {"return", "evict"})
<1> DEFINE R == <<Reserve(needed)>>
           W == <<OpenFor({})>>
           P == WarmPlan(PagesOf(part))
           C == <<CloseIt>>
<1>1. Calm(pin, {"return", "evict"}) /\ NoOpen(pin) /\ NoUpload(pin)
  BY WarmPins
<1>2. Calm(R, {"return", "evict"}) /\ NoOpen(R) /\ NoUpload(R)
  <2>1. Reserve(needed) \in Command /\ Reserve(needed).op = "capacity"
    BY ReserveCommand
  <2> QED
    BY <2>1, OneCalm DEF Rebinds
<1>3. Calm(W, {"return", "evict"}) /\ OneOpen(W) /\ NoUpload(W)
  <2>1. OpenFor({}) \in Command /\ OpenFor({}).op = "open"
    BY Commands DEF OpenFor
  <2> QED
    BY <2>1 DEF Calm, OneOpen, NoUpload, Uploads, Rebinds
<1>4. Calm(P, {"return", "evict"}) /\ NoOpen(P) /\ UploadsOnce(P)
  <2>1. P \in Seq(Command) /\ (\A i \in DOMAIN P : Uploads(P[i])) /\ UploadsOnce(P)
    BY PlanFacts
  <2> HIDE DEF P
  <2> QED
    BY <2>1 DEF Calm, NoOpen, Uploads, Rebinds
<1>5. Calm(C, {"return", "evict"}) /\ NoOpen(C) /\ NoUpload(C) /\ C # <<>> /\ C[1].op = "close"
  <2>1. CloseIt \in Command /\ CloseIt.op = "close"
    BY Commands DEF CloseIt
  <2>2. Calm(C, {"return", "evict"}) /\ NoOpen(C) /\ NoUpload(C)
    BY <2>1, OneCalm DEF Rebinds
  <2> QED
    BY <2>1, <2>2
<1> HIDE DEF R, W, P, C
<1>6. pin \in Seq(Command) /\ R \in Seq(Command) /\ W \in Seq(Command) /\ P \in Seq(Command)
      /\ C \in Seq(Command)
  BY <1>1, <1>2, <1>3, <1>4, <1>5 DEF Calm
<1> DEFINE s1 == pin \o R
<1>7. Calm(s1, {"return", "evict"}) /\ NoOpen(s1) /\ NoUpload(s1) /\ s1 \in Seq(Command)
  BY <1>1, <1>2, <1>6, CatCalm, CatOpens, CatUploads, CatOf
<1> DEFINE s2 == s1 \o pin
<1>8. Calm(s2, {"return", "evict"}) /\ NoOpen(s2) /\ NoUpload(s2) /\ s2 \in Seq(Command)
  <2> HIDE DEF s1
  <2> QED
    BY <1>1, <1>6, <1>7, CatCalm, CatOpens, CatUploads, CatOf
<1> DEFINE s3 == s2 \o W
<1>9. Calm(s3, {"return", "evict"}) /\ OneOpen(s3) /\ NoUpload(s3) /\ s3 \in Seq(Command)
  <2> HIDE DEF s2
  <2> QED
    BY <1>3, <1>6, <1>8, CatCalm, CatOpens, CatUploads, CatOf
<1> DEFINE s4 == s3 \o P
<1>10. Calm(s4, {"return", "evict"}) /\ OneOpen(s4) /\ UploadsOnce(s4) /\ s4 \in Seq(Command)
  <2> HIDE DEF s3
  <2> QED
    BY <1>4, <1>6, <1>9, CatCalm, CatOpens, CatUploads, CatOf
<1> DEFINE s5 == s4 \o C
<1>11. Calm(s5, {"return", "evict"}) /\ Closes(s5) /\ UploadsOnce(s5) /\ s5 \in Seq(Command)
  <2> HIDE DEF s4
  <2>1. Closes(s5)
    BY <1>5, <1>6, <1>10, ClosesOnce
  <2> QED
    BY <1>5, <1>6, <1>10, <2>1, CatCalm, CatUploads, CatOf
<1> DEFINE s6 == s5 \o pin
<1>12. Calm(s6, {"return", "evict"}) /\ Closes(s6) /\ UploadsOnce(s6)
  <2> HIDE DEF s5
  <2> QED
    BY <1>1, <1>6, <1>11, CatCalm, ClosesThen, CatUploads
<1> HIDE DEF s6
<1>13. OtherProgram(s6 \o <<Returns>>, {"return", "evict"})
  BY <1>12, CalmThenReturns
<1>14. WarmProgram(pin, needed, part, pin) = s6 \o <<Returns>>
  BY DEF WarmProgram, s6, s5, s4, s3, s2, s1, R, W, P, C
<1> QED
  BY <1>13, <1>14

(* A picture too large for the device is only pinned, as far as it is there. *)
LEMMA RefusedWarm ==
    ASSUME NEW keys \in SUBSET Keys
    PROVE  OtherProgram(<<SetPins("warm", keys)>>, {"return", "evict"})
<1> DEFINE b == <<SetPins("warm", keys)>>
<1>1. Calm(b, {"return", "evict"}) /\ NoOpen(b) /\ NoUpload(b)
  BY WarmPins
<1> HIDE DEF b
<1> QED
  BY <1>1, NoneIsOnce DEF OtherProgram, Calm, NoOpen, Closes, b

ResetProgram ==
  <<SetPins("warm", {}), OpenFor({})>>
    \o [i \in DOMAIN lru |-> Do("evict", lru[i])] \o <<CloseIt, Returns>>

LEMMA ResetFacts ==
    ASSUME TableTypes
    PROVE  OtherProgram(ResetProgram, {"return"})
<1> DEFINE W == <<SetPins("warm", {}), OpenFor({})>>
           E == [i \in DOMAIN lru |-> Do("evict", lru[i])]
           T == <<CloseIt, Returns>>
<1>1. Calm(W, {"return"}) /\ OneOpen(W) /\ NoUpload(W)
  <2>1. SetPins("warm", {}) \in Command /\ OpenFor({}) \in Command
    BY Commands
  <2>2. W \in Seq(Command) /\ DOMAIN W = 1 .. 2
    BY <2>1
  <2>3. W[1].op = "pins" /\ W[1].owner = "warm" /\ W[2].op = "open"
    BY DEF SetPins, OpenFor
  <2> HIDE DEF W
  <2>4. \A i \in DOMAIN W : i = 1 \/ i = 2
    BY <2>2
  <2> QED
    BY <2>2, <2>3, <2>4 DEF Calm, OneOpen, NoUpload, Uploads, Rebinds
<1>2. Calm(E, {"return"}) /\ NoOpen(E) /\ NoUpload(E)
  <2>1. lru \in Seq(Keys)
    BY DEF TableTypes
  <2>2. \A i \in DOMAIN lru : E[i] \in Command /\ E[i].op = "evict"
    <3> TAKE i \in DOMAIN lru
    <3>1. lru[i] \in Keys
      BY <2>1
    <3>2. Do("evict", lru[i]) \in Command
      BY <3>1, Commands
    <3> QED
      BY <3>2 DEF Do
  <2>3. DOMAIN E = DOMAIN lru /\ E = [i \in DOMAIN lru |-> E[i]]
    OBVIOUS
  <2> HIDE DEF E
  <2>4. E \in Seq(Command)
    BY <2>1, <2>2, <2>3
  <2> QED
    BY <2>2, <2>3, <2>4 DEF Calm, NoOpen, NoUpload, Uploads, Rebinds
<1>3. /\ T \in Seq(Command) /\ NoOpen(T) /\ NoUpload(T) /\ T # <<>> /\ T[1].op = "close"
      /\ Len(T) = 2 /\ DOMAIN T = 1 .. 2
      /\ \A i \in DOMAIN T : (T[i].op = "return" => i = 2) /\ ~Rebinds(T[i])
  <2>1. CloseIt \in Command /\ Returns \in Command
    BY Commands
  <2>2. T \in Seq(Command) /\ Len(T) = 2 /\ DOMAIN T = 1 .. 2 /\ T # <<>>
    BY <2>1
  <2>3. T[1].op = "close" /\ T[2].op = "return"
    BY DEF CloseIt, Returns
  <2> HIDE DEF T
  <2>4. \A i \in DOMAIN T : i = 1 \/ i = 2
    BY <2>2
  <2> QED
    BY <2>2, <2>3, <2>4 DEF NoOpen, NoUpload, Uploads, Rebinds
<1> HIDE DEF W, E, T
<1>4. W \in Seq(Command) /\ E \in Seq(Command)
  BY <1>1, <1>2 DEF Calm
<1> DEFINE s == W \o E
<1>5. Calm(s, {"return"}) /\ OneOpen(s) /\ NoUpload(s) /\ s \in Seq(Command)
  BY <1>1, <1>2, <1>4, CatCalm, CatOpens, CatUploads, CatOf
<1> HIDE DEF s
<1> DEFINE b == s \o T
<1>6. b \in Seq(Command) /\ Closes(b) /\ UploadsOnce(b)
  BY <1>3, <1>5, ClosesOnce, CatUploads, CatOf, NoneIsOnce
<1>7. Len(b) = Len(s) + Len(T) /\ Len(s) \in Nat
      /\ \A i \in DOMAIN b :
           \/ i \in DOMAIN s /\ b[i] = s[i]
           \/ i - Len(s) \in DOMAIN T /\ b[i] = T[i - Len(s)]
  BY <1>3, <1>5, CatOf
<1> HIDE DEF b
<1>8. ASSUME NEW i \in DOMAIN b
      PROVE  (b[i].op = "return" => i = Len(b)) /\ ~Rebinds(b[i])
  <2>1. i \in Nat
    BY <1>6
  <2>2. CASE i \in DOMAIN s /\ b[i] = s[i]
    BY <2>2, <1>5 DEF Calm
  <2>3. CASE i - Len(s) \in DOMAIN T /\ b[i] = T[i - Len(s)]
    BY <2>1, <2>3, <1>3, <1>7
  <2> QED
    BY <1>7, <2>2, <2>3
<1>9. OtherProgram(b, {"return"})
  BY <1>6, <1>8 DEF OtherProgram
<1> QED
  BY <1>9 DEF ResetProgram, b, s, W, E, T

-----------------------------------------------------------------------------
(* The display's own invariant, and how a commit begins.                    *)
Commits == callback \in {"whole", "delta"}

(* What a commit leaves in `committed`.                                      *)
IsRecord(c) ==
  /\ DOMAIN c = {"pages", "keys", "at", "planes", "serial", "base", "changed", "shown"}
  /\ DOMAIN c.pages \subseteq Tiles /\ DOMAIN c.at = DOMAIN c.pages
  /\ c.keys \subseteq Keys /\ \A t \in DOMAIN c.pages : c.pages[t] \subseteq c.keys
  /\ c.planes \in Seq(Planes)
  /\ c.serial \in Nat /\ c.changed \subseteq DOMAIN c.pages

ViewTypes ==
  /\ serial \in Nat
  /\ callback \in {"none", "whole", "delta", "warm", "reset"}
  /\ callback = "none" => batch = <<>>
  /\ committed # Nothing \/ Commits => IsRecord(committed) /\ committed.serial <= serial
  /\ Commits => committed.shown = Nothing
  /\ cache # Nothing => /\ cache.serial \in Nat /\ cache.serial <= serial
                        /\ cache.lost \in Nat /\ cache.lost <= lost
  /\ signature # Nothing => signature \in Nat /\ signature <= generation

(* Nothing was lost since the cache was filled: then what it presented is    *)
(* resident, for the record it was filled from and, but for the tiles that   *)
(* change, for the one that builds on that.                                  *)
Here(tiles) ==
  \A t \in tiles : t \in DOMAIN committed.pages /\ committed.pages[t] \subseteq Resident

CacheInv ==
  cache # Nothing /\ cache.lost = lost =>
    /\ (committed # Nothing \/ Commits) /\ cache.serial = committed.serial => Here(cache.tiles)
    /\ callback = "delta" /\ cache.serial = committed.base => Here(cache.tiles \ committed.changed)

(* A commit ends by pinning what of its own pages is resident; if it raised, *)
(* its submission is closed and that is all.                                 *)
BoundByEnd == pins["bound"] = committed.keys \intersect Resident

CommitTail ==
  \/ batch = <<>> \/ batch = <<CloseIt>>
  \/ batch = <<Returns>> /\ BoundByEnd
  \/ /\ Len(batch) >= 2 /\ batch[Len(batch)] = Returns
     /\ batch[Len(batch) - 1] = SetPins("bound", committed.keys)

(* Until then the bound pins cover what is acknowledged.                     *)
BatchInv ==
  /\ Commits => CommitTail
  /\ \A i \in DOMAIN batch :
       /\ batch[i].op = "return" => i = Len(batch)
       /\ batch[i].op = "evict" => acked = NoTiles
       /\ Rebinds(batch[i]) => /\ Commits
                               /\ i = Len(batch) - 1 \/ AllPages(acked) \subseteq batch[i].keys

(* What is acknowledged is owned, but between the last pins of a commit and  *)
(* its return; and the record that is shown covers it.                       *)
Acknowledged ==
  /\ (AtReturn /\ Commits) \/ AllPages(acked) \subseteq Resident \intersect pins["bound"]
  /\ ~Commits /\ RecordIsShown => AllPages(acked) \subseteq committed.keys

(* The page table is the one the signature was taken of: then what that      *)
(* commit presented is there and pinned still.                               *)
MapInv ==
  RecordIsShown /\ SameBinding =>
    \A t \in committed.shown :
      t \in DOMAIN committed.pages
      /\ committed.pages[t] \subseteq Resident \intersect pins["bound"]

(* What is still to be uploaded is not there, but for the page that was bound*)
(* just now, and is asked for once.                                          *)
UploadInv ==
  /\ \A i, j \in DOMAIN batch :
       Uploads(batch[i]) /\ Uploads(batch[j]) /\ batch[i].key = batch[j].key => i = j
  /\ \A i \in DOMAIN batch :
       Uploads(batch[i]) /\ batch[i].key \in Resident => i = 1 /\ phase = "shield"

LEMMA NoPages == AllPages(NoTiles) = {}
BY DEF AllPages, NoTiles

LEMMA HistogramFacts ==
    ASSUME TableTypes, NEW picture \in Pictures
    PROVE  HistogramKeys(picture) \in SUBSET Keys
<1>1. AllPages(PagesOf(picture)) \in SUBSET Keys /\ Resident \in SUBSET Keys
  BY FinitePages DEF TableTypes
<1>2. \A keys : Frontier(keys) \subseteq keys
  BY DEF Frontier
<1>3. \A t \in DOMAIN picture :
        Frontier({k \in Resident \union AllPages(PagesOf(picture)) : k[1] = picture[t].plane})
          \subseteq Keys
  BY <1>1, <1>2
<1> QED
  BY <1>3 DEF HistogramKeys

(* What the record of a commit is.                                           *)
LEMMA RecordFacts ==
    ASSUME serial \in Nat, NEW pages, NEW at, NEW planes \in Seq(Planes), NEW base, NEW changed,
           DOMAIN pages \subseteq Tiles, \A t \in DOMAIN pages : pages[t] \in SUBSET Keys,
           DOMAIN at = DOMAIN pages, changed \subseteq DOMAIN pages
    PROVE  /\ IsRecord(Record(pages, at, planes, base, changed))
           /\ Record(pages, at, planes, base, changed).pages = pages
           /\ Record(pages, at, planes, base, changed).planes = planes
           /\ Record(pages, at, planes, base, changed).keys \in SUBSET Keys
           /\ Record(pages, at, planes, base, changed).serial = serial + 1
           /\ Record(pages, at, planes, base, changed).base = base
           /\ Record(pages, at, planes, base, changed).changed = changed
           /\ Record(pages, at, planes, base, changed).shown = Nothing
<1>1. AllPages(pages) \in SUBSET Keys /\ \A t \in DOMAIN pages : pages[t] \subseteq AllPages(pages)
  BY DEF AllPages
<1> QED
  BY <1>1 DEF IsRecord, Record

(* What is acknowledged when a commit begins is kept pinned by it.           *)
LEMMA HeldKeys ==
    ASSUME ViewTypes, Acknowledged, Idle
    PROVE  /\ PreviousKeys \in SUBSET Keys
           /\ RecordIsShown => AllPages(acked) \subseteq PreviousKeys
<1>1. ~Commits
  BY DEF Idle, Commits
<1>2. committed # Nothing => committed.keys \in SUBSET Keys
  BY DEF ViewTypes, IsRecord
<1> QED
  BY <1>1, <1>2 DEF PreviousKeys, RecordIsShown, Acknowledged

LEMMA WholeStarts ==
    ASSUME Types, ViewTypes, Acknowledged, NEW picture \in Pictures, NEW atomic \in BOOLEAN,
           CommitWhole(picture, atomic)
    PROVE  /\ IsRecord(committed') /\ committed'.serial = serial + 1 /\ committed'.shown = Nothing
           /\ CommitProgram(batch', committed'.keys, AllPages(acked'))
<1> DEFINE pages == PagesOf(picture)
           order == InOrder(DOMAIN picture)
           at == [t \in DOMAIN picture |-> CHOOSE i \in DOMAIN order : order[i] = t]
           planes == [i \in DOMAIN order |-> picture[order[i]].plane]
           record == Record(pages, at, planes, 0, {})
           transaction == IF atomic THEN PreviousKeys ELSE {}
           histograms == IF Evidence THEN HistogramKeys(picture) ELSE {}
<1>1. /\ committed' = record
      /\ batch' = Program(<<>>, picture, record, transaction, histograms)
      /\ acked' = IF atomic /\ RecordIsShown THEN acked ELSE NoTiles
      /\ Idle
  BY DEF CommitWhole, MayCommit, Begins
<1>2. /\ DOMAIN picture \in SUBSET Tiles /\ DOMAIN pages = DOMAIN picture
      /\ \A t \in DOMAIN picture : picture[t].plane \in Planes /\ pages[t] \in SUBSET Keys
  BY PictureFacts
<1>3. planes \in Seq(Planes)
  <2>1. Cardinality(DOMAIN picture) \in Nat
        /\ order \in [1 .. Cardinality(DOMAIN picture) -> DOMAIN picture]
    BY <1>2, InOrderFacts
  <2> HIDE DEF order
  <2>2. planes \in [1 .. Cardinality(DOMAIN picture) -> Planes]
    BY <1>2, <2>1
  <2> QED
    BY <2>1, <2>2
<1>4. DOMAIN at = DOMAIN picture
  OBVIOUS
<1> HIDE DEF pages, at, planes
<1>5. /\ IsRecord(record) /\ record.planes \in Seq(Planes) /\ record.keys \in SUBSET Keys
      /\ record.serial = serial + 1 /\ record.shown = Nothing
  BY <1>2, <1>3, <1>4, RecordFacts DEF ViewTypes
<1> HIDE DEF record
<1>6. /\ transaction \in SUBSET Keys /\ AllPages(acked') \subseteq transaction
  BY <1>1, HeldKeys, NoPages
<1>7. histograms \in SUBSET Keys
  BY HistogramFacts DEF Types
<1> HIDE DEF transaction, histograms
<1>8. Inner(<<>>, AllPages(acked')) /\ NoOpen(<<>>) /\ NoUpload(<<>>)
  BY DEF Inner, NoOpen, NoUpload
<1>9. CommitProgram(batch', record.keys, AllPages(acked'))
  BY <1>1, <1>5, <1>6, <1>7, <1>8, ProgramFacts DEF Types
<1> QED
  BY <1>1, <1>5, <1>9

LEMMA DeltaStarts ==
    ASSUME Types, ViewTypes, Acknowledged, NEW work \in Pictures, CommitDelta(work)
    PROVE  /\ IsRecord(committed') /\ committed'.serial = serial + 1 /\ committed'.shown = Nothing
           /\ committed'.base = committed.serial /\ committed'.changed = DOMAIN work
           /\ CommitProgram(batch', committed'.keys, AllPages(acked'))
           /\ \A t \in DOMAIN committed.pages \ DOMAIN work :
                t \in DOMAIN committed'.pages /\ committed'.pages[t] = committed.pages[t]
<1> DEFINE T == DOMAIN work \ DOMAIN committed.at
           news == InOrder(T)
           at == [t \in DOMAIN committed.at \union DOMAIN work |->
                   IF t \in DOMAIN committed.at THEN committed.at[t]
                   ELSE Len(committed.planes) + CHOOSE i \in DOMAIN news : news[i] = t]
           planes == [i \in 1 .. (Len(committed.planes) + Len(news)) |->
                       IF \E t \in DOMAIN work : at[t] = i
                       THEN work[CHOOSE t \in DOMAIN work : at[t] = i].plane
                       ELSE committed.planes[i]]
           pages == [t \in DOMAIN at |->
                      IF t \in DOMAIN work THEN PagesOf(work)[t] ELSE committed.pages[t]]
           record == Record(pages, at, planes, committed.serial, DOMAIN work)
           before == <<SetPins("bound", PreviousKeys)>>
           histograms == IF Evidence THEN HistogramKeys(work) ELSE {}
<1>1. /\ committed' = record
      /\ batch' = Program(before, work, record, PreviousKeys, histograms)
      /\ acked' = IF RecordIsShown THEN acked ELSE NoTiles
      /\ Idle /\ committed # Nothing
  BY DEF CommitDelta, MayCommit, Begins
<1>2. /\ DOMAIN work \in SUBSET Tiles
      /\ \A t \in DOMAIN work : work[t].plane \in Planes /\ PagesOf(work)[t] \in SUBSET Keys
  BY PictureFacts
<1>3. IsRecord(committed)
  BY <1>1 DEF ViewTypes
<1>4. /\ DOMAIN committed.pages \subseteq Tiles /\ DOMAIN committed.at = DOMAIN committed.pages
      /\ \A t \in DOMAIN committed.pages : committed.pages[t] \in SUBSET Keys
      /\ committed.planes \in Seq(Planes)
  BY <1>3 DEF IsRecord
<1>5. /\ DOMAIN at = DOMAIN committed.pages \union DOMAIN work
      /\ DOMAIN pages = DOMAIN at
      /\ \A t \in DOMAIN pages :
           pages[t] = IF t \in DOMAIN work THEN PagesOf(work)[t] ELSE committed.pages[t]
  BY <1>4
<1>6. planes \in Seq(Planes)
  <2> DEFINE n == Cardinality(T)
             L == Len(committed.planes)
  <2>1. T \in SUBSET Tiles
    BY <1>2
  <2>2. /\ n \in Nat /\ news \in [1 .. n -> T]
        /\ \A i, j \in 1 .. n : news[i] = news[j] => i = j
    BY <2>1, InOrderFacts
  <2> HIDE DEF news
  <2>3. Len(news) = n /\ L \in Nat /\ DOMAIN news = 1 .. n
    BY <2>2, <1>4
  <2>4. \A i \in (L + 1) .. (L + n) : \E t \in DOMAIN work : at[t] = i
    <3> TAKE i \in (L + 1) .. (L + n)
    <3>1. i - L \in 1 .. n /\ L + (i - L) = i
      BY <2>2, <2>3
    <3> DEFINE t == news[i - L]
    <3>2. t \in T
      BY <3>1, <2>2
    <3>3. (CHOOSE j \in DOMAIN news : news[j] = t) = i - L
      BY <3>1, <2>2, <2>3
    <3>4. at[t] = L + (i - L)
      BY <3>2, <3>3
    <3> QED
      BY <3>1, <3>2, <3>4
  <2> HIDE DEF at
  <2>5. \A i \in 1 .. (L + n) : planes[i] \in Planes
    <3> TAKE i \in 1 .. (L + n)
    <3>1. CASE \E t \in DOMAIN work : at[t] = i
      BY <3>1, <2>3, <1>2
    <3>2. CASE ~(\E t \in DOMAIN work : at[t] = i)
      <4>1. i \in 1 .. L
        <5> HIDE DEF n, L
        <5> QED
          BY <3>2, <2>2, <2>3, <2>4
      <4> QED
        BY <3>2, <4>1, <2>3, <1>4
    <3> QED
      BY <3>1, <3>2
  <2>6. DOMAIN planes = 1 .. (L + n) /\ L + n \in Nat
    BY <2>2, <2>3
  <2>7. planes = [i \in 1 .. (L + n) |-> planes[i]]
    BY <2>3
  <2> HIDE DEF planes, n, L
  <2> QED
    BY <2>5, <2>6, <2>7
<1> HIDE DEF at, planes, pages
<1>7. DOMAIN pages \subseteq Tiles /\ (\A t \in DOMAIN pages : pages[t] \in SUBSET Keys)
      /\ DOMAIN work \subseteq DOMAIN pages
  BY <1>2, <1>4, <1>5
<1>8. /\ IsRecord(record) /\ record.planes \in Seq(Planes) /\ record.keys \in SUBSET Keys
      /\ record.pages = pages /\ record.serial = serial + 1 /\ record.shown = Nothing
      /\ record.base = committed.serial /\ record.changed = DOMAIN work
  BY <1>5, <1>6, <1>7, RecordFacts DEF ViewTypes
<1> HIDE DEF record
<1>9. PreviousKeys \in SUBSET Keys /\ AllPages(acked') \subseteq PreviousKeys
  BY <1>1, HeldKeys, NoPages
<1>10. histograms \in SUBSET Keys
  BY HistogramFacts DEF Types
<1>11. Inner(before, AllPages(acked')) /\ NoOpen(before) /\ NoUpload(before)
  <2>1. SetPins("bound", PreviousKeys) \in Command
    BY <1>9, Commands
  <2>2. SetPins("bound", PreviousKeys).op = "pins" /\ SetPins("bound", PreviousKeys).keys = PreviousKeys
    BY DEF SetPins
  <2> QED
    BY <1>9, <2>1, <2>2, OneInner
<1> HIDE DEF before, histograms
<1>12. CommitProgram(batch', record.keys, AllPages(acked'))
  BY <1>1, <1>8, <1>9, <1>10, <1>11, ProgramFacts DEF Types
<1>13. \A t \in DOMAIN committed.pages \ DOMAIN work :
         t \in DOMAIN record.pages /\ record.pages[t] = committed.pages[t]
  BY <1>5, <1>8
<1> QED
  BY <1>1, <1>8, <1>12, <1>13

-----------------------------------------------------------------------------
(* The executor under the display: every step of it but AlreadyThere.        *)
ExecutorStep ==
  \/ Pins \/ Capacity \/ Open \/ Close \/ BindPlanes
  \/ EnsureCold \/ GenerateCold \/ Refused
  \/ Grow \/ EvictOldest \/ YieldShield \/ Exhausted \/ TakeLayer
  \/ Reduce \/ ReduceFails \/ BindPage \/ Shield
  \/ EvictChunk \/ Histogram

(* What a step of the executor does to what the display looks at.            *)
SameResident == Resident' = Resident /\ generation' = generation /\ lost' = lost
SameBound == SameResident /\ pins'["bound"] = pins["bound"]
Evicted(k) ==
  /\ k \in Resident /\ Resident' = Resident \ {k} /\ pins'["bound"] = pins["bound"] \ {k}
  /\ generation' = generation + 1 /\ lost' = lost + 1

Moves ==
  /\ batch # <<>> /\ Head(batch).op # "return"
  /\ \/ SameBound /\ batch' = batch /\ phase # "shield"
     \/ SameBound /\ batch' = Tail(batch) /\ ~Rebinds(Head(batch))
     \/ SameBound /\ batch' = <<CloseIt>>
     \/ /\ Rebinds(Head(batch)) /\ batch' = Tail(batch)
        /\ SameResident /\ pins'["bound"] = Head(batch).keys \intersect Resident
     \/ /\ batch' = batch /\ phase # "shield"
        /\ \E k \in Resident : Evicted(k) /\ k \notin pins["bound"]
     \/ /\ batch' = Tail(batch) /\ Head(batch).op = "evict"
        /\ \E k \in Resident : Evicted(k)
     \/ /\ batch' = batch /\ phase' = "shield" /\ Uploads(Head(batch))
        /\ Resident' = Resident \union {Key} /\ pins'["bound"] = pins["bound"]
        /\ generation' = generation + 1 /\ lost' = lost

LEMMA EvictMoves ==
    ASSUME Types, NEW k \in Resident, Evict(k)
    PROVE  Evicted(k)
BY DEF Evict, Unbind, Evicted, Resident, Owners

LEMMA SameTable == ASSUME UNCHANGED tableVars PROVE SameBound
BY DEF tableVars, SameBound, SameResident, Resident

LEMMA OtherPins ==
    ASSUME Types, NEW o \in Owners \ {"bound"}, NEW keys, ReplacePinSet(o, keys)
    PROVE  SameBound
BY DEF ReplacePinSet, SameBound, SameResident, Resident, Owners, Types, TableTypes

LEMMA ResidentPins ==
    ASSUME Types, MemoInv, NEW o \in {"bound", "warm"}, NEW keys, ReplaceResidentPinSet(o, keys)
    PROVE  /\ SameResident
           /\ o = "warm" => pins'["bound"] = pins["bound"]
           /\ o = "bound" => pins'["bound"] = keys \intersect Resident
<1>1. CASE MemoAnswers(o, keys)
  <2>1. UNCHANGED tableVars
    BY <1>1 DEF ReplaceResidentPinSet
  <2>2. pins[o] = keys \intersect Resident
    BY <1>1 DEF MemoAnswers, MemoInv
  <2> QED
    BY <2>1, <2>2, SameTable DEF tableVars, SameBound
<1>2. CASE ~MemoAnswers(o, keys)
  <2>1. ReplacePinSet(o, keys \intersect Resident)
    BY <1>2 DEF ReplaceResidentPinSet
  <2>2. pins' = [pins EXCEPT ![o] = keys \intersect Resident] /\ SameResident
    BY <2>1 DEF ReplacePinSet, SameResident, Resident
  <2> QED
    BY <2>2 DEF Types, TableTypes, Owners
<1> QED
  BY <1>1, <1>2

LEMMA StepMoves ==
    ASSUME Types, PinInv, MemoInv, ExecutorStep
    PROVE  Moves
<1>a. /\ phase # "ready" => batch # <<>> /\ Head(batch).op \in {"ensure", "generate"}
      /\ \A op : At(op) => batch # <<>> /\ Head(batch).op = op /\ phase = "ready"
  BY DEF Types, PhaseOK, At
<1>1. CASE Pins
  <2>1. batch # <<>> /\ Head(batch).op = "pins" /\ batch' = Tail(batch)
    BY <1>1 DEF Pins, At, Done
  <2>2. Head(batch).owner \in {"bound", "warm"}
        /\ ReplaceResidentPinSet(Head(batch).owner, Head(batch).keys)
    BY <1>1, <2>1, NextCommand, CommandFields DEF Pins, Types
  <2> QED
    BY <2>1, <2>2, ResidentPins DEF Moves, Rebinds, SameBound
<1>2. CASE BindPlanes
  <2>1. batch # <<>> /\ Head(batch).op = "planes" /\ batch' = Tail(batch)
        /\ ReplaceResidentPinSet("bound", Head(batch).keys)
    BY <1>2 DEF BindPlanes, At, Done
  <2> QED
    BY <2>1, ResidentPins DEF Moves, Rebinds
<1>3. CASE Capacity \/ Histogram
  <2>1. batch # <<>> /\ Head(batch).op \in {"capacity", "histogram"} /\ batch' = Tail(batch)
        /\ UNCHANGED tableVars
    BY <1>3 DEF Capacity, Histogram, At, Done
  <2> QED
    BY <2>1, SameTable DEF Moves, Rebinds
<1>4. CASE Open \/ Close
  <2>1. batch # <<>> /\ Head(batch).op \in {"open", "close"} /\ batch' = Tail(batch)
        /\ (UNCHANGED tableVars \/ \E keys : ReplacePinSet("shield", keys))
    BY <1>4 DEF Open, Close, At, Done
  <2>2. SameBound
    BY <2>1, SameTable, OtherPins DEF Owners
  <2> QED
    BY <2>1, <2>2 DEF Moves, Rebinds
<1>5. CASE Shield
  <2>1. batch # <<>> /\ Head(batch).op \in {"ensure", "generate"} /\ batch' = Tail(batch)
        /\ (UNCHANGED tableVars \/ \E keys : ReplacePinSet("shield", keys))
    BY <1>5, <1>a DEF Shield, Done
  <2>2. SameBound
    BY <2>1, SameTable, OtherPins DEF Owners
  <2> QED
    BY <2>1, <2>2 DEF Moves, Rebinds
<1>6. CASE EnsureCold \/ GenerateCold \/ Grow \/ TakeLayer \/ Reduce
  <2>1. batch # <<>> /\ Head(batch).op \in {"ensure", "generate"} /\ batch' = batch
        /\ phase # "shield"
        /\ (UNCHANGED tableVars \/ \E keys : ReplacePinSet("lod", keys))
    BY <1>6, <1>a DEF EnsureCold, GenerateCold, Grow, Full, TakeLayer, Reduce, GoOn, stepVars
  <2>2. SameBound
    BY <2>1, SameTable, OtherPins DEF Owners
  <2> QED
    BY <2>1, <2>2 DEF Moves
<1>7. CASE Refused \/ Exhausted \/ ReduceFails
  <2>1. batch # <<>> /\ Head(batch).op \in {"ensure", "generate"} /\ batch' = <<CloseIt>>
        /\ (UNCHANGED tableVars \/ \E keys : ReplacePinSet("lod", keys))
    BY <1>7, <1>a DEF Refused, Exhausted, Full, ReduceFails, Raise, CloseIt
  <2>2. SameBound
    BY <2>1, SameTable, OtherPins DEF Owners
  <2> QED
    BY <2>1, <2>2 DEF Moves
<1>8. CASE EvictOldest
  <2>1. PICK k \in EvictionCandidates(target) : Evict(k)
    BY <1>8 DEF EvictOldest
  <2>2. k \in Resident /\ k \notin pinned
    BY DEF EvictionCandidates, Oldest, InPool
  <2>3. k \notin pins["bound"]
    BY <2>2 DEF PinInv, PinsOwned, OwnersOf, Owners
  <2>4. batch # <<>> /\ Head(batch).op # "return" /\ batch' = batch /\ phase # "shield"
    BY <1>8, <1>a DEF EvictOldest, Full, stepVars
  <2> QED
    BY <2>1, <2>2, <2>3, <2>4, EvictMoves DEF Moves
<1>9. CASE YieldShield
  <2>1. PICK k \in Oldest(ShieldOnly(target)) : Evict(k)
    BY <1>9 DEF YieldShield
  <2>2. k \in Resident /\ OwnersOf(k) \subseteq {"shield"}
    BY DEF ShieldOnly, Oldest, InPool
  <2>3. k \notin pins["bound"]
    BY <2>2 DEF OwnersOf, Owners
  <2>4. batch # <<>> /\ Head(batch).op # "return" /\ batch' = batch /\ phase # "shield"
    BY <1>9, <1>a DEF YieldShield, Full, stepVars
  <2> QED
    BY <2>1, <2>2, <2>3, <2>4, EvictMoves DEF Moves
<1>10. CASE BindPage
  <2>1. batch # <<>> /\ Head(batch).op \in {"ensure", "generate"} /\ batch' = batch
        /\ phase' = "shield" /\ Bind(Key, hand)
    BY <1>10, <1>a DEF BindPage
  <2> QED
    BY <2>1 DEF Bind, Moves, Uploads, Resident
<1>11. CASE EvictChunk
  <2>1. batch # <<>> /\ Head(batch).op = "evict" /\ batch' = Tail(batch)
    BY <1>11 DEF EvictChunk, At, Done
  <2>2. CASE Key \in Resident
    <3>1. Evict(Key)
      BY <1>11, <2>2 DEF EvictChunk
    <3> QED
      BY <2>1, <2>2, <3>1, EvictMoves DEF Moves
  <2>3. CASE Key \notin Resident
    <3>1. UNCHANGED tableVars
      BY <1>11, <2>3 DEF EvictChunk
    <3> QED
      BY <2>1, <3>1, SameTable DEF Moves, Rebinds
  <2> QED
    BY <2>2, <2>3
<1> QED
  BY <1>1, <1>2, <1>3, <1>4, <1>5, <1>6, <1>7, <1>8, <1>9, <1>10, <1>11 DEF ExecutorStep

ViewInv == ViewTypes /\ CacheInv /\ BatchInv /\ Acknowledged /\ MapInv /\ UploadInv

LEMMA HeadFacts ==
    ASSUME Types, batch # <<>>
    PROVE  /\ batch \in Seq(Command) /\ Len(batch) \in Nat /\ Len(batch) >= 1
           /\ 1 \in DOMAIN batch /\ Head(batch) = batch[1] /\ DOMAIN batch = 1 .. Len(batch)
           /\ Len(Tail(batch)) = Len(batch) - 1 /\ DOMAIN Tail(batch) = 1 .. (Len(batch) - 1)
           /\ \A i \in DOMAIN Tail(batch) : i + 1 \in DOMAIN batch /\ Tail(batch)[i] = batch[i + 1]
           /\ Tail(batch) \in Seq(Command)
<1>1. batch \in Seq(Command)
  BY DEF Types, StepTypes
<1> QED
  BY <1>1

(* What a move leaves of the commands.                                       *)
LEMMA MoveBatch ==
    ASSUME Types, Moves
    PROVE  /\ batch' = batch \/ batch' = Tail(batch) \/ batch' = <<CloseIt>>
           /\ SameResident \/ generation' = generation + 1
           /\ (lost' = lost /\ Resident \subseteq Resident') \/ lost' = lost + 1
           /\ \/ generation' = generation + 1 \/ SameBound
              \/ batch # <<>> /\ Rebinds(Head(batch))
BY DEF Moves, SameBound, SameResident, Evicted

LEMMA MoveTypes ==
    ASSUME Types, ViewTypes, Moves, UNCHANGED viewVars
    PROVE  ViewTypes'
<1>1. batch # <<>>
  BY DEF Moves
<1>2. generation \in Nat /\ lost \in Nat
  BY DEF Types, TableTypes
<1>3. generation' \in Nat /\ generation' >= generation /\ lost' \in Nat /\ lost' >= lost
  BY <1>2, MoveBatch DEF SameResident
<1>4. UNCHANGED <<committed, serial, cache, signature, callback, acked, warms>>
  BY DEF viewVars
<1>5. cache' # Nothing => cache'.lost \in Nat /\ cache'.lost <= lost'
  BY <1>2, <1>3, <1>4 DEF ViewTypes
<1>6. signature' # Nothing => signature' \in Nat /\ signature' <= generation'
  BY <1>2, <1>3, <1>4 DEF ViewTypes
<1> QED
  BY <1>1, <1>4, <1>5, <1>6 DEF ViewTypes, Commits, IsRecord

LEMMA MoveCache ==
    ASSUME Types, ViewTypes, CacheInv, Moves, UNCHANGED viewVars
    PROVE  CacheInv'
<1>1. UNCHANGED <<committed, serial, cache, signature, callback, acked, warms>>
  BY DEF viewVars
<1>2. CASE lost' = lost /\ Resident \subseteq Resident'
  BY <1>1, <1>2 DEF CacheInv, Here, Commits
<1>3. CASE lost' = lost + 1
  <2>1. lost \in Nat /\ (cache # Nothing => cache.lost \in Nat /\ cache.lost <= lost)
    BY DEF ViewTypes, Types, TableTypes
  <2>2. ~(cache' # Nothing /\ cache'.lost = lost')
    BY <1>1, <1>3, <2>1
  <2> QED
    BY <2>2 DEF CacheInv
<1> QED
  BY <1>2, <1>3, MoveBatch

LEMMA MoveMap ==
    ASSUME Types, ViewTypes, BatchInv, MapInv, Moves, UNCHANGED viewVars
    PROVE  MapInv'
<1>1. UNCHANGED <<committed, serial, cache, signature, callback, acked, warms>>
  BY DEF viewVars
<1>2. CASE generation' = generation + 1
  <2>1. generation \in Nat
    BY DEF Types, TableTypes
  <2>2. ~(signature' # Nothing /\ signature' = generation')
    BY <1>1, <1>2, <2>1 DEF ViewTypes
  <2> QED
    BY <2>2 DEF MapInv, SameBinding
<1>3. CASE SameBound
  <2>1. /\ generation' = generation /\ Resident' = Resident /\ pins'["bound"] = pins["bound"]
    BY <1>3 DEF SameBound, SameResident
  <2> QED
    BY <1>1, <2>1 DEF MapInv, SameBinding, RecordIsShown
<1>4. CASE batch # <<>> /\ Rebinds(Head(batch))
  <2>1. Commits
    BY <1>4, HeadFacts DEF BatchInv
  <2>2. ~RecordIsShown
    BY <2>1 DEF ViewTypes, RecordIsShown
  <2> QED
    BY <1>1, <2>2 DEF MapInv, RecordIsShown
<1> QED
  BY <1>2, <1>3, <1>4, MoveBatch

(* The end of a commit stays its end.                                        *)
LEMMA MoveTail ==
    ASSUME Types, Commits, CommitTail, Moves, UNCHANGED viewVars
    PROVE  CommitTail'
<1>1. UNCHANGED <<committed, callback>>
  BY DEF viewVars
<1>2. batch # <<>> /\ Head(batch).op # "return"
  BY DEF Moves
<1>3. CASE batch' = <<CloseIt>>
  BY <1>3 DEF CommitTail
<1>4. CASE batch = <<CloseIt>>
  <2>1. Tail(batch) = <<>>
    BY <1>4
  <2> QED
    BY <1>4, <2>1, MoveBatch DEF CommitTail
<1>5. CASE batch = <<Returns>>
  <2>1. Head(batch).op = "return"
    BY <1>5 DEF Returns
  <2> QED
    BY <1>2, <2>1
<1>6. CASE /\ Len(batch) >= 2 /\ batch[Len(batch)] = Returns
           /\ batch[Len(batch) - 1] = SetPins("bound", committed.keys)
  <2>1. CASE batch' = batch
    BY <2>1, <1>1, <1>6 DEF CommitTail
  <2>2. CASE batch' = Tail(batch) /\ Len(batch) > 2
    <3> DEFINE n == Len(batch)
    <3>1. n \in Nat /\ Len(batch') = n - 1 /\ DOMAIN batch' = 1 .. (n - 1)
          /\ \A i \in DOMAIN batch' : batch'[i] = batch[i + 1]
      BY <1>2, <2>2, HeadFacts
    <3> HIDE DEF n
    <3>2. (n - 1) \in DOMAIN batch' /\ (n - 1) - 1 \in DOMAIN batch' /\ n > 2
          /\ (n - 1) + 1 = n /\ ((n - 1) - 1) + 1 = n - 1
      BY <3>1, <2>2 DEF n
    <3>3. batch'[n - 1] = Returns /\ batch'[(n - 1) - 1] = SetPins("bound", committed.keys)
      BY <3>1, <3>2, <1>6 DEF n
    <3> QED
      BY <1>1, <3>1, <3>2, <3>3 DEF CommitTail
  <2>3. CASE batch' = Tail(batch) /\ Len(batch) = 2
    <3>1. Head(batch) = SetPins("bound", committed.keys) /\ batch' = <<Returns>>
      <4>1. Head(batch) = batch[1] /\ Len(batch') = 1 /\ batch' \in Seq(Command)
            /\ \A i \in DOMAIN batch' : batch'[i] = batch[i + 1]
        BY <1>2, <2>3, HeadFacts
      <4>2. batch'[1] = batch[2] /\ batch[2] = Returns /\ batch[1] = SetPins("bound", committed.keys)
        BY <4>1, <2>3, <1>6
      <4> QED
        BY <4>1, <4>2
    <3>2. Rebinds(Head(batch)) /\ Head(batch).op = "pins" /\ Head(batch).keys = committed.keys
      BY <3>1 DEF SetPins, Rebinds
    <3>3. batch' # batch /\ batch' # <<CloseIt>>
      <4>1. Returns # CloseIt
        BY DEF Returns, CloseIt
      <4>2. Head(batch).op = "pins" /\ Head(batch').op = "return"
        BY <3>1, <3>2 DEF Returns
      <4> QED
        BY <3>1, <4>1, <4>2
    <3>4. pins'["bound"] = committed.keys \intersect Resident /\ Resident' = Resident
      BY <3>2, <3>3 DEF Moves, SameResident
    <3> QED
      BY <1>1, <3>1, <3>4 DEF CommitTail, BoundByEnd
  <2> QED
    BY <1>2, <1>3, <1>6, <2>1, <2>2, <2>3, MoveBatch, HeadFacts
<1> QED
  BY <1>2, <1>4, <1>5, <1>6 DEF CommitTail

LEMMA MoveCommands ==
    ASSUME Types, BatchInv, Moves, UNCHANGED viewVars
    PROVE  BatchInv'
<1>1. UNCHANGED <<committed, callback, acked>>
  BY DEF viewVars
<1>2. batch # <<>>
  BY DEF Moves
<1>3. Commits' => CommitTail'
  BY <1>1, MoveTail DEF BatchInv, Commits
<1>4. CASE batch' = batch
  BY <1>1, <1>3, <1>4 DEF BatchInv, Commits
<1>5. CASE batch' = <<CloseIt>>
  <2>1. DOMAIN batch' = {1} /\ batch'[1].op = "close"
    BY <1>5 DEF CloseIt
  <2> QED
    BY <1>3, <2>1 DEF BatchInv, Rebinds
<1>6. CASE batch' = Tail(batch)
  <2>1. Len(batch') = Len(batch) - 1 /\ Len(batch) \in Nat /\ DOMAIN batch' = 1 .. (Len(batch) - 1)
    BY <1>2, <1>6, HeadFacts
  <2>2. ASSUME NEW i \in DOMAIN batch'
        PROVE  /\ batch'[i].op = "return" => i = Len(batch')
               /\ batch'[i].op = "evict" => acked' = NoTiles
               /\ Rebinds(batch'[i]) => /\ Commits'
                                        /\ \/ i = Len(batch') - 1
                                           \/ AllPages(acked') \subseteq batch'[i].keys
    <3>1. i + 1 \in DOMAIN batch /\ batch'[i] = batch[i + 1]
      BY <1>2, <1>6, HeadFacts
    <3>2. /\ batch[i + 1].op = "return" => i + 1 = Len(batch)
          /\ batch[i + 1].op = "evict" => acked = NoTiles
          /\ Rebinds(batch[i + 1]) => /\ Commits
                                      /\ \/ i + 1 = Len(batch) - 1
                                         \/ AllPages(acked) \subseteq batch[i + 1].keys
      BY <3>1 DEF BatchInv
    <3>3. (i + 1 = Len(batch) => i = Len(batch')) /\ (i + 1 = Len(batch) - 1 => i = Len(batch') - 1)
      BY <2>1
    <3>4. Commits' = Commits
      BY <1>1 DEF Commits
    <3> QED
      BY <1>1, <3>1, <3>2, <3>3, <3>4
  <2> QED
    BY <1>3, <2>2 DEF BatchInv
<1> QED
  BY <1>4, <1>5, <1>6, MoveBatch

LEMMA MoveAcknowledged ==
    ASSUME Types, BatchInv, Acknowledged, Moves, UNCHANGED viewVars
    PROVE  Acknowledged'
<1>1. UNCHANGED <<committed, callback, acked>>
  BY DEF viewVars
<1>2. batch # <<>> /\ ~AtReturn
  BY DEF Moves, AtReturn
<1>3. AllPages(acked) \subseteq Resident \intersect pins["bound"]
  BY <1>2 DEF Acknowledged
<1>4. ~Commits' /\ RecordIsShown' => AllPages(acked') \subseteq committed'.keys
  BY <1>1 DEF Acknowledged, Commits, RecordIsShown
<1>5. CASE Resident \subseteq Resident' /\ pins'["bound"] = pins["bound"]
  BY <1>1, <1>3, <1>4, <1>5 DEF Acknowledged
<1>6. CASE /\ Rebinds(Head(batch)) /\ batch' = Tail(batch) /\ Resident' = Resident
           /\ pins'["bound"] = Head(batch).keys \intersect Resident
  <2>1. 1 = Len(batch) - 1 \/ AllPages(acked) \subseteq Head(batch).keys
    BY <1>2, <1>6, HeadFacts DEF BatchInv
  <2>2. CASE AllPages(acked) \subseteq Head(batch).keys
    BY <1>1, <1>3, <1>4, <1>6, <2>2 DEF Acknowledged
  <2>3. CASE 1 = Len(batch) - 1
    <3>1. Commits
      BY <1>2, <1>6, HeadFacts DEF BatchInv
    <3>2. CommitTail /\ Len(batch) = 2 /\ Len(batch) \in Nat
      BY <1>2, <2>3, <3>1, HeadFacts DEF BatchInv
    <3>3. batch[2] = Returns
      BY <3>2 DEF CommitTail
    <3>4. Head(batch') = Returns /\ batch' # <<>>
      <4>1. Len(Tail(batch)) = 1 /\ Tail(batch)[1] = batch[2] /\ Tail(batch) \in Seq(Command)
        BY <1>2, <3>2, HeadFacts
      <4> QED
        BY <1>6, <3>3, <4>1
    <3>5. AtReturn' /\ Commits'
      BY <1>1, <3>1, <3>4 DEF AtReturn, Commits, Returns
    <3> QED
      BY <1>4, <3>5 DEF Acknowledged
  <2> QED
    BY <2>1, <2>2, <2>3
<1>7. ASSUME NEW k \in Resident, Evicted(k), k \notin pins["bound"]
      PROVE  Acknowledged'
  <2>1. AllPages(acked') \subseteq Resident' \intersect pins'["bound"]
    BY <1>1, <1>3, <1>7 DEF Evicted
  <2> QED
    BY <1>4, <2>1 DEF Acknowledged
<1>8. CASE Head(batch).op = "evict"
  <2>1. acked = NoTiles
    BY <1>2, <1>8, HeadFacts DEF BatchInv
  <2>2. AllPages(acked') = {}
    BY <1>1, <2>1, NoPages
  <2> QED
    BY <1>4, <2>2 DEF Acknowledged
<1> QED
  BY <1>5, <1>6, <1>7, <1>8 DEF Moves, SameBound, SameResident

LEMMA MoveUploads ==
    ASSUME Types, UploadInv, Moves
    PROVE  UploadInv'
<1>1. batch # <<>>
  BY DEF Moves
<1>2. CASE batch' = batch /\ phase # "shield" /\ Resident' \subseteq Resident
  BY <1>2 DEF UploadInv
<1>3. CASE batch' = Tail(batch) /\ Resident' \subseteq Resident
  <2>1. \A i \in DOMAIN batch' : i \in Nat /\ i >= 1 /\ i + 1 \in DOMAIN batch /\ batch'[i] = batch[i + 1]
    BY <1>1, <1>3, HeadFacts
  <2>2. ASSUME NEW i \in DOMAIN batch', NEW j \in DOMAIN batch', Uploads(batch'[i]),
               Uploads(batch'[j]), batch'[i].key = batch'[j].key
        PROVE  i = j
    <3>1. i + 1 = j + 1
      BY <2>1, <2>2 DEF UploadInv
    <3> QED
      BY <2>1, <3>1
  <2>3. ASSUME NEW i \in DOMAIN batch', Uploads(batch'[i]), batch'[i].key \in Resident'
        PROVE  FALSE
    <3>1. i + 1 = 1
      BY <1>3, <2>1, <2>3 DEF UploadInv
    <3> QED
      BY <2>1, <3>1
  <2> QED
    BY <2>2, <2>3 DEF UploadInv
<1>4. CASE batch' = <<CloseIt>>
  <2>1. DOMAIN batch' = {1} /\ ~Uploads(batch'[1])
    BY <1>4 DEF CloseIt, Uploads
  <2> QED
    BY <2>1 DEF UploadInv
<1>5. CASE /\ batch' = batch /\ phase' = "shield" /\ Uploads(Head(batch))
           /\ Resident' = Resident \union {Key}
  <2>1. 1 \in DOMAIN batch /\ Uploads(batch[1]) /\ Key = batch[1].key
    BY <1>1, <1>5, HeadFacts DEF Key
  <2>2. \A i \in DOMAIN batch : Uploads(batch[i]) /\ batch[i].key \in Resident' => i = 1
    BY <1>5, <2>1 DEF UploadInv
  <2> QED
    BY <1>5, <2>2 DEF UploadInv
<1> QED
  BY <1>2, <1>3, <1>4, <1>5 DEF Moves, SameBound, SameResident, Evicted

LEMMA MoveView ==
    ASSUME Types, ViewInv, Moves, UNCHANGED viewVars
    PROVE  ViewInv'
BY MoveTypes, MoveCache, MoveMap, MoveCommands, MoveAcknowledged, MoveUploads DEF ViewInv

-----------------------------------------------------------------------------
(* A look at every page would say what is acknowledged.                      *)
LEMMA ExactWalk ==
    ASSUME ViewTypes, CacheInv, Commits
    PROVE  Presented = FullWalk
<1>1. CASE CacheAnswers
  <2>1. Here(cache.tiles \ committed.changed)
    BY <1>1 DEF CacheAnswers, CacheInv
  <2>2. committed.changed \subseteq DOMAIN committed.pages
    BY DEF ViewTypes, IsRecord
  <2>3. DeltaWalk = FullWalk
    BY <2>1, <2>2 DEF DeltaWalk, FullWalk, Here, IsResident
  <2> QED
    BY <1>1, <2>3 DEF Presented
<1>2. CASE ~CacheAnswers
  BY <1>2 DEF Presented
<1> QED
  BY <1>1, <1>2

(* A commit begins.                                                          *)
LEMMA CommitBegins ==
    ASSUME Types, ViewInv, Idle, UNCHANGED tableVars, Commits', acked' \in {acked, NoTiles},
           committed'.shown = Nothing,
           CommitProgram(batch', committed'.keys, AllPages(acked'))
    PROVE  BatchInv' /\ UploadInv' /\ Acknowledged' /\ MapInv'
<1>1. Resident' = Resident /\ pins' = pins
  BY DEF tableVars, Resident
<1>2. batch = <<>> /\ ~AtReturn /\ ~Commits
  BY DEF ViewInv, ViewTypes, Idle, AtReturn, Commits
<1>3. BatchInv'
  <2>1. CommitTail'
    BY DEF CommitProgram, CommitTail
  <2> QED
    BY <2>1 DEF CommitProgram, BatchInv
<1>4. UploadInv'
  BY <1>1 DEF CommitProgram, UploadsOnce, UploadInv
<1>5. AllPages(acked') \subseteq Resident \intersect pins["bound"]
  BY <1>2, NoPages DEF ViewInv, Acknowledged
<1>6. Acknowledged'
  BY <1>1, <1>5 DEF Acknowledged
<1>7. MapInv'
  BY DEF MapInv, RecordIsShown
<1> QED
  BY <1>3, <1>4, <1>6, <1>7

LEMMA WholeKeeps ==
    ASSUME Types, ViewInv, NEW picture \in Pictures, NEW atomic \in BOOLEAN,
           CommitWhole(picture, atomic)
    PROVE  ViewInv'
<1>1. /\ IsRecord(committed') /\ committed'.serial = serial + 1 /\ committed'.shown = Nothing
      /\ CommitProgram(batch', committed'.keys, AllPages(acked'))
  BY WholeStarts DEF ViewInv
<1>2. /\ UNCHANGED tableVars /\ UNCHANGED <<cache, signature, warms>> /\ Idle
      /\ serial' = serial + 1 /\ callback' = "whole" /\ acked' \in {acked, NoTiles}
  BY DEF CommitWhole, MayCommit, Begins
<1>3. BatchInv' /\ UploadInv' /\ Acknowledged' /\ MapInv'
  BY <1>1, <1>2, CommitBegins DEF Commits
<1>4. serial \in Nat /\ lost' = lost /\ generation' = generation
  BY <1>2 DEF ViewInv, ViewTypes, tableVars
<1>5. ViewTypes'
  <2>1. committed'.serial <= serial'
    BY <1>1, <1>2, <1>4
  <2>2. cache' # Nothing => /\ cache'.serial \in Nat /\ cache'.serial <= serial'
                            /\ cache'.lost \in Nat /\ cache'.lost <= lost'
    BY <1>2, <1>4 DEF ViewInv, ViewTypes
  <2>3. signature' # Nothing => signature' \in Nat /\ signature' <= generation'
    BY <1>2, <1>4 DEF ViewInv, ViewTypes
  <2>4. IsRecord(committed)'
    BY <1>1 DEF IsRecord
  <2> QED
    BY <1>1, <1>2, <1>4, <2>1, <2>2, <2>3, <2>4 DEF ViewTypes
<1>6. CacheInv'
  <2>1. cache' # Nothing => cache'.serial # committed'.serial
    BY <1>1, <1>2, <1>4 DEF ViewInv, ViewTypes
  <2> QED
    BY <1>2, <2>1 DEF CacheInv
<1> QED
  BY <1>3, <1>5, <1>6 DEF ViewInv

LEMMA DeltaKeeps ==
    ASSUME Types, ViewInv, NEW work \in Pictures, CommitDelta(work)
    PROVE  ViewInv'
<1>1. /\ IsRecord(committed') /\ committed'.serial = serial + 1 /\ committed'.shown = Nothing
      /\ committed'.base = committed.serial /\ committed'.changed = DOMAIN work
      /\ CommitProgram(batch', committed'.keys, AllPages(acked'))
      /\ \A t \in DOMAIN committed.pages \ DOMAIN work :
           t \in DOMAIN committed'.pages /\ committed'.pages[t] = committed.pages[t]
  BY DeltaStarts DEF ViewInv
<1>2. /\ UNCHANGED tableVars /\ UNCHANGED <<cache, signature, warms>> /\ Idle /\ committed # Nothing
      /\ serial' = serial + 1 /\ callback' = "delta" /\ acked' \in {acked, NoTiles}
  BY DEF CommitDelta, MayCommit, Begins
<1>3. BatchInv' /\ UploadInv' /\ Acknowledged' /\ MapInv'
  BY <1>1, <1>2, CommitBegins DEF Commits
<1>4. serial \in Nat /\ lost' = lost /\ generation' = generation /\ Resident' = Resident
  BY <1>2 DEF ViewInv, ViewTypes, tableVars, Resident
<1>5. ViewTypes'
  <2>1. committed'.serial <= serial'
    BY <1>1, <1>2, <1>4
  <2>2. cache' # Nothing => /\ cache'.serial \in Nat /\ cache'.serial <= serial'
                            /\ cache'.lost \in Nat /\ cache'.lost <= lost'
    BY <1>2, <1>4 DEF ViewInv, ViewTypes
  <2>3. signature' # Nothing => signature' \in Nat /\ signature' <= generation'
    BY <1>2, <1>4 DEF ViewInv, ViewTypes
  <2>4. IsRecord(committed)'
    BY <1>1 DEF IsRecord
  <2> QED
    BY <1>1, <1>2, <1>4, <2>1, <2>2, <2>3, <2>4 DEF ViewTypes
<1>6. CacheInv'
  <2>1. cache' # Nothing => cache'.serial # committed'.serial
    BY <1>1, <1>2, <1>4 DEF ViewInv, ViewTypes
  <2>2. ASSUME cache # Nothing, cache.lost = lost, cache.serial = committed.serial
        PROVE  Here(cache.tiles \ committed.changed)'
    <3>1. Here(cache.tiles)
      BY <1>2, <2>2 DEF ViewInv, CacheInv
    <3> QED
      BY <1>1, <1>2, <1>4, <3>1 DEF Here
  <2> QED
    BY <1>1, <1>2, <1>4, <2>1, <2>2 DEF CacheInv
<1> QED
  BY <1>3, <1>5, <1>6 DEF ViewInv

(* Another callback begins: the picture stays as it is.                      *)
LEMMA OtherBegins ==
    ASSUME Types, ViewInv, Idle, UNCHANGED tableVars, callback' \in {"warm", "reset"},
           UNCHANGED <<committed, serial, cache, signature>>,
           NEW never, OtherProgram(batch', never),
           acked' = NoTiles \/ (acked' = acked /\ "evict" \in never)
    PROVE  ViewInv'
<1>1. Resident' = Resident /\ pins' = pins /\ lost' = lost /\ generation' = generation
  BY DEF tableVars, Resident
<1>2. batch = <<>> /\ ~AtReturn /\ ~Commits /\ ~Commits' /\ callback' # "delta" /\ callback' # "none"
  BY DEF ViewInv, ViewTypes, Idle, AtReturn, Commits
<1>3. BatchInv'
  BY <1>2 DEF OtherProgram, BatchInv
<1>4. UploadInv'
  BY <1>1 DEF OtherProgram, UploadsOnce, UploadInv
<1>5. AllPages(acked') \subseteq Resident \intersect pins["bound"]
      /\ (RecordIsShown => AllPages(acked') \subseteq committed.keys)
  BY <1>2, NoPages DEF ViewInv, Acknowledged
<1>6. Acknowledged'
  BY <1>1, <1>5 DEF Acknowledged, RecordIsShown
<1>7. MapInv'
  BY <1>1 DEF ViewInv, MapInv, RecordIsShown, SameBinding
<1>8. CacheInv'
  BY <1>1, <1>2 DEF ViewInv, CacheInv, Here
<1>9. ViewTypes'
  BY <1>1, <1>2 DEF ViewInv, ViewTypes, IsRecord
<1> QED
  BY <1>3, <1>4, <1>6, <1>7, <1>8, <1>9 DEF ViewInv

LEMMA PartFacts ==
    ASSUME NEW picture \in Pictures, NEW tiles \in (SUBSET DOMAIN picture) \ {{}}
    PROVE  [t \in tiles |-> picture[t]] \in Pictures
<1>1. PICK all \in (SUBSET Tiles) \ {{}} : picture \in [all -> Payloads]
  BY DEF Pictures
<1>2. tiles \in (SUBSET Tiles) \ {{}} /\ [t \in tiles |-> picture[t]] \in [tiles -> Payloads]
  BY <1>1
<1> QED
  BY <1>2 DEF Pictures

LEMMA WarmStarts ==
    ASSUME Types, PinInv, NEW picture \in Pictures,
           \/ \E tiles \in (SUBSET DOMAIN picture) \ {{}} : WarmAtomic(picture, tiles)
           \/ WarmAhead(picture)
    PROVE  OtherProgram(batch', {"return", "evict"})
<1>1. CASE WarmAhead(picture)
  <2>1. PageCount(PagesOf(picture)) \in Nat /\ {} \in SUBSET Keys
    BY FinitePages
  <2> QED
    BY <1>1, <2>1, WarmFacts DEF WarmAhead, Types
<1>2. CASE \E tiles \in (SUBSET DOMAIN picture) \ {{}} : WarmAtomic(picture, tiles)
  <2>1. PICK tiles \in (SUBSET DOMAIN picture) \ {{}} : WarmAtomic(picture, tiles)
    BY <1>2
  <2> DEFINE keys == AllPages(PagesOf(picture))
             held == Cardinality(pins["bound"] \union keys)
             needed == Greater(PageCount(PagesOf(picture)), held)
             pin == <<SetPins("warm", keys)>>
             part == [t \in tiles |-> picture[t]]
  <2>2. keys \in SUBSET Keys /\ IsFiniteSet(keys) /\ PageCount(PagesOf(picture)) \in Nat
    BY FinitePages
  <2>3. IsFiniteSet(pins["bound"])
    <3>1. pins["bound"] \subseteq Resident
      BY DEF PinInv, PinsOwned, Owners
    <3> QED
      BY <3>1, ResidentFinite, FS_Subset DEF Types
  <2>4. held \in Nat
    BY <2>2, <2>3, FS_Union, FS_CardinalityType
  <2> HIDE DEF held
  <2>5. needed \in Nat
    BY <2>2, <2>4 DEF Greater
  <2>6. part \in Pictures
    BY PartFacts
  <2>7. batch' = IF needed > MaxLayers THEN pin ELSE WarmProgram(pin, needed, part, pin)
    BY <2>1 DEF WarmAtomic, held
  <2> HIDE DEF needed, part, keys
  <2>8. OtherProgram(pin, {"return", "evict"})
    BY <2>2, RefusedWarm
  <2>9. OtherProgram(WarmProgram(pin, needed, part, pin), {"return", "evict"})
    BY <2>2, <2>5, <2>6, WarmFacts DEF Types
  <2> QED
    BY <2>7, <2>8, <2>9
<1> QED
  BY <1>1, <1>2

LEMMA ResetStarts ==
    ASSUME Types, Reset
    PROVE  OtherProgram(batch', {"return"})
<1>1. batch' = ResetProgram
  BY DEF Reset, ResetProgram
<1> QED
  BY <1>1, ResetFacts DEF Types

LEMMA WarmKeeps ==
    ASSUME Types, PinInv, ViewInv, NEW picture \in Pictures,
           \/ \E tiles \in (SUBSET DOMAIN picture) \ {{}} : WarmAtomic(picture, tiles)
           \/ WarmAhead(picture)
    PROVE  ViewInv'
<1>1. Warms
  BY DEF WarmAtomic, WarmAhead
<1>2. /\ Idle /\ UNCHANGED tableVars /\ callback' = "warm" /\ acked' = acked
      /\ UNCHANGED <<committed, serial, cache, signature>>
  BY <1>1 DEF Warms, Begins
<1> QED
  BY <1>2, WarmStarts, OtherBegins

LEMMA ResetKeeps ==
    ASSUME Types, ViewInv, Reset
    PROVE  ViewInv'
<1>1. /\ Idle /\ UNCHANGED tableVars /\ callback' = "reset" /\ acked' = NoTiles
      /\ UNCHANGED <<committed, serial, cache, signature>>
  BY DEF Reset, Begins
<1> QED
  BY <1>1, ResetStarts, OtherBegins

(* A callback returns, with nothing left to do.                              *)
LEMMA ReturnFacts ==
    ASSUME Types, BatchInv, Return
    PROVE  /\ batch' = <<>> /\ UNCHANGED tableVars
           /\ Commits => BoundByEnd
<1>1. batch # <<>> /\ Head(batch).op = "return" /\ batch' = Tail(batch) /\ UNCHANGED tableVars
  BY DEF Return, At, Done
<1>2. 1 = Len(batch) /\ batch[1].op = "return"
  BY <1>1, HeadFacts DEF BatchInv
<1>3. batch' = <<>>
  BY <1>1, <1>2, HeadFacts
<1>4. ASSUME Commits PROVE BoundByEnd
  <2>1. batch # <<CloseIt>>
    BY <1>1 DEF CloseIt
  <2>2. CommitTail
    BY <1>4, Zenon DEF BatchInv
  <2>3. ~(Len(batch) >= 2)
    BY <1>2
  <2> QED
    BY <1>1, <2>1, <2>2, <2>3 DEF CommitTail
<1> QED
  BY <1>1, <1>3, <1>4

LEMMA FinishKeeps ==
    ASSUME Types, ViewInv, FinishCommit
    PROVE  ViewInv'
<1>1. /\ Return /\ Commits
      /\ committed' = [committed EXCEPT !.shown = Presented]
      /\ cache' = [serial |-> committed.serial, lost |-> lost, tiles |-> Presented]
      /\ signature' = generation
      /\ acked' = [t \in Presented |-> committed.pages[t]]
      /\ callback' = "none" /\ serial' = serial
  BY DEF FinishCommit, Commits
<1>2. batch' = <<>> /\ UNCHANGED tableVars /\ BoundByEnd
  BY <1>1, ReturnFacts DEF ViewInv
<1>3. Resident' = Resident /\ pins' = pins /\ lost' = lost /\ generation' = generation
      /\ generation \in Nat /\ lost \in Nat
  BY <1>2 DEF tableVars, Resident, Types, TableTypes
<1>4. Presented = FullWalk
  BY <1>1, ExactWalk DEF ViewInv
<1>5. /\ IsRecord(committed) /\ committed.serial \in Nat /\ committed.serial <= serial
  BY <1>1 DEF ViewInv, ViewTypes, IsRecord
<1>6. /\ DOMAIN committed' = DOMAIN committed
      /\ committed'.pages = committed.pages /\ committed'.keys = committed.keys
      /\ committed'.at = committed.at /\ committed'.planes = committed.planes
      /\ committed'.serial = committed.serial /\ committed'.changed = committed.changed
      /\ committed'.shown = FullWalk
  BY <1>1, <1>4, <1>5 DEF IsRecord
<1>7. \A t \in FullWalk :
        /\ t \in DOMAIN committed.pages
        /\ committed.pages[t] \subseteq Resident \intersect pins["bound"]
        /\ committed.pages[t] \subseteq committed.keys
  <2>1. \A t \in FullWalk : t \in DOMAIN committed.pages /\ committed.pages[t] \subseteq Resident
    BY DEF FullWalk, IsResident
  <2>2. \A t \in FullWalk : committed.pages[t] \subseteq committed.keys
    BY <2>1, <1>5 DEF IsRecord
  <2> QED
    BY <2>1, <2>2, <1>2 DEF BoundByEnd
<1>8. ~Commits' /\ ~AtReturn'
  BY <1>1, <1>2 DEF Commits, AtReturn
<1>9. ViewTypes'
  <2>1. IsRecord(committed')
    BY <1>5, <1>6 DEF IsRecord
  <2>2. IsRecord(committed)'
    BY <2>1 DEF IsRecord
  <2>3. cache'.serial = committed.serial /\ cache'.lost = lost
    BY <1>1
  <2>4. serial \in Nat
    BY DEF ViewInv, ViewTypes
  <2> QED
    BY <1>1, <1>2, <1>3, <1>5, <1>6, <1>8, <2>2, <2>3, <2>4 DEF ViewTypes
<1>10. CacheInv'
  <2>1. Here(cache.tiles)'
    <3>1. cache'.tiles = FullWalk
      BY <1>1, <1>4
    <3> QED
      BY <3>1, <1>3, <1>6, <1>7 DEF Here
  <2> QED
    BY <1>1, <2>1 DEF CacheInv
<1>11. BatchInv' /\ UploadInv'
  BY <1>2, <1>8 DEF BatchInv, UploadInv
<1>12. AllPages(acked') \subseteq Resident \intersect pins["bound"]
       /\ AllPages(acked') \subseteq committed.keys
  BY <1>1, <1>4, <1>7 DEF AllPages
<1>13. Acknowledged'
  BY <1>3, <1>6, <1>12 DEF Acknowledged
<1>14. MapInv'
  BY <1>3, <1>6, <1>7 DEF MapInv
<1> QED
  BY <1>9, <1>10, <1>11, <1>13, <1>14 DEF ViewInv

LEMMA EndKeeps ==
    ASSUME Types, ViewInv, EndReset \/ EndWarm
    PROVE  ViewInv'
<1>1. /\ Return /\ callback \in {"reset", "warm"} /\ callback' = "none"
      /\ UNCHANGED <<serial, acked>>
      /\ \/ UNCHANGED <<committed, cache, signature>>
         \/ committed' = Nothing /\ cache' = Nothing /\ signature' = Nothing
  BY DEF EndReset, EndWarm
<1>2. batch' = <<>> /\ UNCHANGED tableVars
  BY <1>1, ReturnFacts DEF ViewInv
<1>3. Resident' = Resident /\ pins' = pins /\ lost' = lost /\ generation' = generation
  BY <1>2 DEF tableVars, Resident
<1>4. ~Commits /\ ~Commits' /\ ~AtReturn' /\ callback' # "delta"
  BY <1>1, <1>2 DEF Commits, AtReturn
<1>5. BatchInv' /\ UploadInv'
  BY <1>2, <1>4 DEF BatchInv, UploadInv
<1>6. Acknowledged'
  BY <1>1, <1>3, <1>4 DEF ViewInv, Acknowledged, RecordIsShown
<1>7. MapInv'
  BY <1>1, <1>3 DEF ViewInv, MapInv, RecordIsShown, SameBinding
<1>8. CacheInv'
  BY <1>1, <1>3, <1>4 DEF ViewInv, CacheInv, Here
<1>9. ViewTypes'
  BY <1>1, <1>2, <1>3, <1>4 DEF ViewInv, ViewTypes, IsRecord
<1> QED
  BY <1>5, <1>6, <1>7, <1>8, <1>9 DEF ViewInv

LEMMA FailedKeeps ==
    ASSUME Types, ViewInv, Failed
    PROVE  ViewInv'
<1>1. /\ batch = <<>> /\ batch' = <<>> /\ ~Idle /\ callback' = "none" /\ UNCHANGED tableVars
      /\ UNCHANGED <<committed, serial, cache, signature, acked>>
  BY DEF Failed, vars, stepVars
<1>2. Resident' = Resident /\ pins' = pins /\ lost' = lost /\ generation' = generation
  BY <1>1 DEF tableVars, Resident
<1>3. ~Commits' /\ ~AtReturn' /\ ~AtReturn /\ callback' # "delta"
  BY <1>1 DEF Commits, AtReturn
<1>4. BatchInv' /\ UploadInv'
  BY <1>1, <1>3 DEF BatchInv, UploadInv
<1>5. Acknowledged'
  <2>1. Commits => ~RecordIsShown
    BY DEF ViewInv, ViewTypes, RecordIsShown
  <2>2. RecordIsShown' = RecordIsShown
    BY <1>1 DEF RecordIsShown
  <2> QED
    BY <1>1, <1>2, <1>3, <2>1, <2>2 DEF ViewInv, Acknowledged
<1>6. MapInv'
  BY <1>1, <1>2 DEF ViewInv, MapInv, RecordIsShown, SameBinding
<1>7. CacheInv'
  BY <1>1, <1>2, <1>3 DEF ViewInv, CacheInv, Here
<1>8. ViewTypes'
  BY <1>1, <1>2, <1>3 DEF ViewInv, ViewTypes, IsRecord
<1> QED
  BY <1>4, <1>5, <1>6, <1>7, <1>8 DEF ViewInv

LEMMA MappingKeeps ==
    ASSUME Types, ViewInv, CommitMapping
    PROVE  ViewInv'
<1>1. /\ batch = <<>> /\ batch' = <<>> /\ Idle /\ SameBinding /\ UNCHANGED tableVars
      /\ UNCHANGED <<committed, serial, cache, signature, callback>>
      /\ acked' = IF RecordIsShown THEN [t \in committed.shown |-> committed.pages[t]] ELSE NoTiles
  BY DEF CommitMapping, Begins, vars, stepVars
<1>2. Resident' = Resident /\ pins' = pins /\ lost' = lost /\ generation' = generation
  BY <1>1 DEF tableVars, Resident
<1>3. ~Commits /\ ~Commits' /\ ~AtReturn' /\ callback' # "delta"
  BY <1>1 DEF Idle, Commits, AtReturn
<1>4. BatchInv' /\ UploadInv'
  BY <1>1, <1>3 DEF BatchInv, UploadInv
<1>5. /\ AllPages(acked') \subseteq Resident \intersect pins["bound"]
      /\ RecordIsShown => AllPages(acked') \subseteq committed.keys
  <2>1. CASE RecordIsShown
    <3>1. \A t \in committed.shown :
            /\ t \in DOMAIN committed.pages
            /\ committed.pages[t] \subseteq Resident \intersect pins["bound"]
      BY <1>1, <2>1 DEF ViewInv, MapInv
    <3>2. IsRecord(committed)
      BY <2>1 DEF RecordIsShown, ViewInv, ViewTypes
    <3> QED
      BY <1>1, <2>1, <3>1, <3>2 DEF AllPages, IsRecord
  <2>2. CASE ~RecordIsShown
    BY <1>1, <2>2, NoPages
  <2> QED
    BY <2>1, <2>2
<1>6. Acknowledged'
  BY <1>1, <1>2, <1>5 DEF Acknowledged, RecordIsShown
<1>7. MapInv'
  BY <1>1, <1>2 DEF ViewInv, MapInv, RecordIsShown, SameBinding
<1>8. CacheInv'
  BY <1>1, <1>2, <1>3 DEF ViewInv, CacheInv, Here
<1>9. ViewTypes'
  BY <1>1, <1>2, <1>3 DEF ViewInv, ViewTypes, IsRecord
<1> QED
  BY <1>4, <1>6, <1>7, <1>8, <1>9 DEF ViewInv

LEMMA HideAllKeeps ==
    ASSUME Types, ViewInv, HideAll
    PROVE  ViewInv'
<1>1. /\ batch = <<>> /\ batch' = <<>> /\ Idle /\ UNCHANGED tableVars /\ UNCHANGED <<serial, callback>>
      /\ committed' = Nothing /\ cache' = Nothing /\ signature' = Nothing /\ acked' = NoTiles
  BY DEF HideAll, Begins, vars, stepVars
<1>2. Resident' = Resident /\ pins' = pins
  BY <1>1 DEF tableVars, Resident
<1>3. ~Commits' /\ ~AtReturn'
  BY <1>1 DEF Idle, Commits, AtReturn
<1>4. BatchInv' /\ UploadInv' /\ CacheInv'
  BY <1>1, <1>3 DEF BatchInv, UploadInv, CacheInv
<1>5. Acknowledged' /\ MapInv'
  BY <1>1, <1>2, NoPages DEF Acknowledged, MapInv, RecordIsShown
<1>6. ViewTypes'
  BY <1>1, <1>3 DEF ViewInv, ViewTypes
<1> QED
  BY <1>4, <1>5, <1>6 DEF ViewInv

LEMMA HideKeeps ==
    ASSUME Types, ViewInv, NEW gone \in (SUBSET Tiles) \ {{}}, HideTiles(gone)
    PROVE  ViewInv'
<1> DEFINE left == DOMAIN committed.at \ gone
<1>1. /\ batch = <<>> /\ batch' = <<>> /\ Idle /\ UNCHANGED tableVars /\ committed # Nothing
      /\ serial' = serial + 1 /\ signature' = Nothing /\ UNCHANGED <<cache, callback>>
      /\ committed' = [committed EXCEPT !.pages = [t \in left |-> @[t]],
                                        !.at = [t \in left |-> @[t]],
                                        !.serial = serial + 1, !.base = 0, !.changed = {}]
      /\ acked' = [t \in DOMAIN acked \ gone |-> acked[t]]
  BY DEF HideTiles, MayCommit, Begins, vars, stepVars
<1>2. Resident' = Resident /\ pins' = pins /\ lost' = lost /\ generation' = generation
  BY <1>1 DEF tableVars, Resident
<1>3. ~Commits /\ ~Commits' /\ ~AtReturn' /\ ~AtReturn /\ callback' # "delta"
  BY <1>1 DEF Idle, Commits, AtReturn
<1>4. BatchInv' /\ UploadInv'
  BY <1>1, <1>3 DEF BatchInv, UploadInv
<1>5. IsRecord(committed) /\ serial \in Nat
  BY <1>1 DEF ViewInv, ViewTypes
<1>6. /\ DOMAIN committed' = DOMAIN committed
      /\ committed'.pages = [t \in left |-> committed.pages[t]]
      /\ committed'.at = [t \in left |-> committed.at[t]]
      /\ committed'.keys = committed.keys /\ committed'.planes = committed.planes
      /\ committed'.serial = serial + 1 /\ committed'.changed = {}
      /\ committed'.shown = committed.shown
  BY <1>1, <1>5 DEF IsRecord
<1>7. AllPages(acked') \subseteq AllPages(acked)
  BY <1>1 DEF AllPages
<1>8. Acknowledged'
  <2>1. RecordIsShown' => RecordIsShown
    BY <1>1, <1>6 DEF RecordIsShown
  <2> QED
    BY <1>2, <1>3, <1>6, <1>7, <2>1 DEF ViewInv, Acknowledged
<1>9. MapInv'
  BY <1>1 DEF MapInv, SameBinding
<1>10. CacheInv'
  <2>1. cache' # Nothing => cache'.serial # committed'.serial
    BY <1>1, <1>5, <1>6 DEF ViewInv, ViewTypes
  <2> QED
    BY <2>1, <1>3 DEF CacheInv
<1>11. ViewTypes'
  <2>1. IsRecord(committed')
    <3>1. left \subseteq DOMAIN committed.pages
      BY <1>5 DEF IsRecord
    <3> QED
      BY <1>5, <1>6, <3>1 DEF IsRecord
  <2>2. IsRecord(committed)'
    BY <2>1 DEF IsRecord
  <2>3. cache' # Nothing => /\ cache'.serial \in Nat /\ cache'.serial <= serial'
                            /\ cache'.lost \in Nat /\ cache'.lost <= lost'
    BY <1>1, <1>2, <1>5 DEF ViewInv, ViewTypes
  <2>4. committed'.serial <= serial' /\ serial' \in Nat
    BY <1>1, <1>5, <1>6
  <2> QED
    BY <1>1, <1>3, <2>2, <2>3, <2>4 DEF ViewInv, ViewTypes
<1> QED
  BY <1>4, <1>8, <1>9, <1>10, <1>11 DEF ViewInv

LEMMA ViewInit == CommitsInit => ViewInv
<1> SUFFICES ASSUME CommitsInit PROVE ViewInv
  OBVIOUS
<1>1. /\ batch = <<>> /\ callback = "none" /\ committed = Nothing /\ cache = Nothing
      /\ signature = Nothing /\ serial = 0 /\ acked = NoTiles
  BY DEF CommitsInit, Init
<1>2. ~Commits /\ ~AtReturn
  BY <1>1 DEF Commits, AtReturn
<1>3. ViewTypes
  BY <1>1, <1>2 DEF ViewTypes
<1>4. CacheInv /\ BatchInv /\ UploadInv
  BY <1>1, <1>2 DEF CacheInv, BatchInv, UploadInv
<1>5. Acknowledged /\ MapInv
  BY <1>1, NoPages DEF Acknowledged, MapInv, RecordIsShown
<1> QED
  BY <1>3, <1>4, <1>5 DEF ViewInv

LEMMA ViewStep ==
    ASSUME Types, PinInv, MemoInv, ViewInv, [CommitsNext]_<<vars, viewVars>>
    PROVE  ViewInv'
<1>1. CASE UNCHANGED <<vars, viewVars>>
  <2>1. /\ UNCHANGED <<committed, serial, cache, signature, callback, acked, warms>>
        /\ UNCHANGED <<batch, phase, pins, slot, generation, lost>>
    BY <1>1 DEF vars, viewVars, stepVars, tableVars
  <2>2. Resident' = Resident
    BY <2>1 DEF Resident
  <2>3. ViewTypes'
    BY <2>1 DEF ViewInv, ViewTypes, Commits, IsRecord
  <2>4. CacheInv'
    BY <2>1, <2>2 DEF ViewInv, CacheInv, Commits, Here
  <2>5. BatchInv'
    BY <2>1, <2>2 DEF ViewInv, BatchInv, Commits, CommitTail, BoundByEnd
  <2>6. Acknowledged'
    BY <2>1, <2>2 DEF ViewInv, Acknowledged, Commits, AtReturn, RecordIsShown
  <2>7. MapInv'
    BY <2>1, <2>2 DEF ViewInv, MapInv, RecordIsShown, SameBinding
  <2>8. UploadInv'
    BY <2>1, <2>2 DEF ViewInv, UploadInv
  <2> QED
    BY <2>3, <2>4, <2>5, <2>6, <2>7, <2>8 DEF ViewInv
<1>2. CASE CommitsNext
  <2>1. ASSUME NEW picture \in Offered, NEW atomic \in BOOLEAN, CommitWhole(picture, atomic)
        PROVE  ViewInv'
    BY <2>1, WholeKeeps, OfferedAssumption
  <2>2. ASSUME NEW picture \in Offered, CommitDelta(picture)
        PROVE  ViewInv'
    BY <2>2, DeltaKeeps, OfferedAssumption
  <2>3. ASSUME NEW picture \in Offered,
               \/ \E tiles \in (SUBSET DOMAIN picture) \ {{}} : WarmAtomic(picture, tiles)
               \/ WarmAhead(picture)
        PROVE  ViewInv'
    BY <2>3, WarmKeeps, OfferedAssumption
  <2>4. ASSUME NEW gone \in (SUBSET Tiles) \ {{}}, HideTiles(gone)
        PROVE  ViewInv'
    BY <2>4, HideKeeps
  <2>5. CASE CommitMapping \/ HideAll \/ Reset
    BY <2>5, MappingKeeps, HideAllKeeps, ResetKeeps
  <2>6. CASE FinishCommit \/ EndReset \/ EndWarm \/ Failed
    BY <2>6, FinishKeeps, EndKeeps, FailedKeeps
  <2>7. CASE ExecutorStep /\ UNCHANGED viewVars
    BY <2>7, StepMoves, MoveView
  <2> QED
    BY <1>2, <2>1, <2>2, <2>3, <2>4, <2>5, <2>6, <2>7 DEF CommitsNext, ExecutorStep
<1> QED
  BY <1>1, <1>2

(* What the display submits is what the executor accepts.                    *)
LEMMA CallFacts ==
    ASSUME batch = <<>>, batch' \in Seq(Command), Closes(batch'),
           UNCHANGED <<tableVars, poolVars, planeVars, memo, shieldVars, phase, target, hand>>
    PROVE  Call
<1>1. batch' \in {commands \in Seq(Command) : Closes(commands)}
  BY Zenon
<1> QED
  BY <1>1 DEF Call

LEMMA CallerStep ==
    ASSUME Types, PinInv, ViewInv, [CommitsNext]_<<vars, viewVars>>
    PROVE  [Next]_vars
<1>1. CASE UNCHANGED <<vars, viewVars>>
  BY <1>1
<1>2. CASE CommitsNext
  <2>1. ASSUME NEW picture \in Offered, NEW atomic \in BOOLEAN, CommitWhole(picture, atomic)
        PROVE  Call
    <3>1. CommitProgram(batch', committed'.keys, AllPages(acked'))
      BY <2>1, WholeStarts, OfferedAssumption DEF ViewInv
    <3>2. batch' \in Seq(Command) /\ Closes(batch')
      BY <3>1 DEF CommitProgram
    <3> QED
      BY <2>1, <3>2, CallFacts DEF CommitWhole, MayCommit, Begins
  <2>2. ASSUME NEW picture \in Offered, CommitDelta(picture)
        PROVE  Call
    <3>1. CommitProgram(batch', committed'.keys, AllPages(acked'))
      BY <2>2, DeltaStarts, OfferedAssumption DEF ViewInv
    <3>2. batch' \in Seq(Command) /\ Closes(batch')
      BY <3>1 DEF CommitProgram
    <3> QED
      BY <2>2, <3>2, CallFacts DEF CommitDelta, MayCommit, Begins
  <2>3. ASSUME NEW picture \in Offered,
               \/ \E tiles \in (SUBSET DOMAIN picture) \ {{}} : WarmAtomic(picture, tiles)
               \/ WarmAhead(picture)
        PROVE  Call
    <3>1. OtherProgram(batch', {"return", "evict"})
      BY <2>3, WarmStarts, OfferedAssumption
    <3>2. batch' \in Seq(Command) /\ Closes(batch')
      BY <3>1 DEF OtherProgram
    <3>3. Warms
      BY <2>3 DEF WarmAtomic, WarmAhead
    <3> QED
      BY <3>2, <3>3, CallFacts DEF Warms, Begins
  <2>4. ASSUME NEW gone \in (SUBSET Tiles) \ {{}}, HideTiles(gone)
        PROVE  UNCHANGED vars
    BY <2>4 DEF HideTiles
  <2>5. CASE CommitMapping \/ HideAll \/ Failed
    BY <2>5 DEF CommitMapping, HideAll, Failed
  <2>6. CASE Reset
    <3>1. batch' \in Seq(Command) /\ Closes(batch')
      BY <2>6, ResetStarts DEF OtherProgram
    <3>2. Call
      BY <2>6, <3>1, CallFacts DEF Reset, Begins
    <3> QED
      BY <3>2 DEF Next
  <2>7. CASE FinishCommit \/ EndReset \/ EndWarm
    BY <2>7 DEF FinishCommit, EndReset, EndWarm, Next
  <2>8. CASE ExecutorStep
    BY <2>8 DEF ExecutorStep, Next, Step
  <2>9. \/ Call \/ UNCHANGED vars \/ CommitMapping \/ HideAll \/ Failed \/ Reset
        \/ FinishCommit \/ EndReset \/ EndWarm \/ ExecutorStep
    BY <1>2, <2>1, <2>2, <2>3, <2>4 DEF CommitsNext, ExecutorStep
  <2> QED
    BY <2>5, <2>6, <2>7, <2>8, <2>9 DEF Next
<1> QED
  BY <1>1, <1>2

DisplayInv == Types /\ PinInv /\ MemoInv /\ ViewInv

LEMMA DisplayStep ==
    DisplayInv /\ [CommitsNext]_<<vars, viewVars>> => DisplayInv' /\ [Next]_vars
BY CallerStep, ViewStep, TypesStep, PinStep, MemoStep DEF DisplayInv

LEMMA DisplayHolds == CommitsSpec => []DisplayInv
<1>1. CommitsInit => DisplayInv
  <2>1. CommitsInit => Types /\ PinInv
    BY TypesInit, PinInit DEF CommitsInit
  <2>2. CommitsInit => MemoInv
    BY DEF CommitsInit, Init, ResidencyInit, TableInit, MemoInv, NoMemo, Owners, Resident
  <2> QED
    BY <2>1, <2>2, ViewInit DEF DisplayInv
<1> QED
  BY <1>1, DisplayStep, PTL DEF CommitsSpec

(* The display is a caller of the executor as the executor expects one: each *)
(* of its callbacks, committing, warming or resetting, is a sequence of known*)
(* commands whose submissions do not nest.                                   *)
THEOREM DisplayIsACaller == CommitsSpec => Spec
<1>1. CommitsInit => Init
  BY DEF CommitsInit
<1> QED
  BY <1>1, DisplayHolds, DisplayStep, PTL DEF CommitsSpec, Spec

(* So the display keeps every layer in one place, the table the shader reads *)
(* true, and pins backed by their owners.                                    *)
THEOREM DisplayKeepsResidency ==
  CommitsSpec => [](EveryLayerOnce /\ FlatTableIsResidency /\ PinsAreOwned)
BY DisplayIsACaller, LayersHold, FlatHolds, PinsHold, PTL

(* A commit of the tiles that changed acknowledges what a look at every page *)
(* of the picture would, whatever was warmed, evicted or raised before it.   *)
THEOREM DeltaWalkHolds == CommitsSpec => []DeltaWalkIsExact
<1>1. DisplayInv => DeltaWalkIsExact
  BY ExactWalk DEF DisplayInv, ViewInv, DeltaWalkIsExact, Commits
<1> QED
  BY <1>1, DisplayHolds, PTL

(* A tile acknowledged as presented keeps its pages, resident and pinned for *)
(* the bound picture, until another picture is acknowledged or it is hidden. *)
THEOREM AcknowledgedHolds == CommitsSpec => []AcknowledgedStaysOwned
<1>1. DisplayInv => AcknowledgedStaysOwned
  BY DEF DisplayInv, ViewInv, Acknowledged, AcknowledgedStaysOwned, AllPages
<1> QED
  BY <1>1, DisplayHolds, PTL

(* What was planned as missing before a submission is still missing when its *)
(* turn comes: no page is uploaded or reduced twice.                         *)
THEOREM NothingTwiceHolds == CommitsSpec => []NothingIsUploadedTwice
<1>1. DisplayInv => NothingIsUploadedTwice
  <2> SUFFICES ASSUME DisplayInv, At("ensure") \/ At("generate"), Key \in Resident
               PROVE  FALSE
    BY DEF NothingIsUploadedTwice
  <2>1. batch # <<>> /\ phase = "ready" /\ Uploads(Head(batch))
    BY DEF At, Uploads
  <2>2. 1 \in DOMAIN batch /\ Head(batch) = batch[1]
    BY <2>1, HeadFacts DEF DisplayInv
  <2> QED
    BY <2>1, <2>2 DEF DisplayInv, ViewInv, UploadInv, Key
<1> QED
  BY <1>1, DisplayHolds, PTL
=============================================================================
