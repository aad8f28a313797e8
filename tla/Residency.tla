----------------------------- MODULE Residency -----------------------------
(* Residency in the wgpu executor (gpu/wgpu_executor.py): layers of texture  *)
(* arrays are taken for chunks, grown, evicted and given back while a batch  *)
(* of commands runs, and the flat table the shader reads follows every move. *)
(*                                                                           *)
(* The display runs one callback at a time on the GUI thread, so what it     *)
(* still has to do is a sequence `batch`: commands of a submission between   *)
(* "open" and "close", and the calls the display makes around it.  A command *)
(* runs in the phases its code has: look up, make room, reduce, bind, shield.*)
(* An exception leaves the submission through its finally clause, "close",   *)
(* and the rest of the callback is not run.                                  *)
(*                                                                           *)
(* `Spec` is the executor under any caller; module TiledCommits is the       *)
(* display that calls it.                                                    *)
EXTENDS PageTable

CONSTANTS Children,      \* the finer cells a cell is reduced from; none for a native one
          MaxLayers,     \* max-texture-array-layers of the device
          InitialLayers, \* _POOL_INITIAL_LAYERS
          PatchShare,    \* a rebind patches at most 1/PatchShare of the planes
          PassMayFail,   \* whether a reduction on the device may raise
          Unmapped       \* an entry of the flat table that names no layer (-1)

ASSUME CellsAssumption == Children \in [Cells -> SUBSET Cells]
ASSUME LayersAssumption == /\ MaxLayers \in Nat \ {0}
                           /\ InitialLayers \in Nat \ {0}
                           /\ PatchShare \in Nat \ {0}
ASSUME PoolsAssumption == "raw" \in Pools
ASSUME UnmappedAssumption == Unmapped \notin Slots

VARIABLES free,       \* the free layers of every pool
          allocated,  \* how many layers its texture has
          budget,     \* how many it may have (layer_count; one for both pools)
          bound,      \* `_bound_planes`
          flat,       \* the flat table: position of a plane and cell -> layer
          memo,       \* `_resident_pin_memo`
          wanted,     \* what the histograms of this submission will sample
          shield,     \* `_histogram_shield_pins`
          batch,      \* what the callback still has to do
          phase,      \* how far its first command is
          target,     \* the pool it needs a layer of
          hand        \* the layer it has taken and not yet bound

poolVars == <<free, allocated, budget>>
planeVars == <<bound, flat>>
shieldVars == <<wanted, shield>>
stepVars == <<batch, phase, target, hand>>
vars == <<tableVars, poolVars, planeVars, memo, shieldVars, stepVars>>

Kids(k) == {<<k[1], c>> : c \in Children[k[2]]}

Command ==
  [op : {"pins"}, owner : {"bound", "warm"}, keys : SUBSET Keys]
    \union [op : {"capacity"}, layers : Nat, needed : Nat]
    \union [op : {"open"}, keys : SUBSET Keys]
    \union [op : {"planes"}, planes : Seq(Planes), keys : SUBSET Keys]
    \union [op : {"ensure", "generate", "evict"}, key : Keys]
    \union [op : {"histogram"}, keys : SUBSET Keys]
    \union [op : {"close", "return"}]

NoMemo == [keys |-> {}, generation |-> 0, resident |-> {}]

ResidencyInit ==
  /\ TableInit
  /\ free = [p \in Pools |-> {0}]
  /\ allocated = [p \in Pools |-> 1]
  /\ budget = 0
  /\ bound = <<>>
  /\ flat = [ix \in {} |-> Unmapped]
  /\ memo = [o \in {"bound", "warm"} |-> NoMemo]
  /\ wanted = {}
  /\ shield = {}
  /\ phase = "ready"
  /\ target = "raw"
  /\ hand = Unmapped

Init == ResidencyInit /\ batch = <<>>

-----------------------------------------------------------------------------
(* Where the command stands.                                                 *)
At(op) == batch # <<>> /\ phase = "ready" /\ Head(batch).op = op
Key == Head(batch).key

Done == batch' = Tail(batch) /\ phase' = "ready" /\ UNCHANGED <<target, hand>>
GoOn(next) == phase' = next /\ UNCHANGED <<batch, target, hand>>

(* An exception: the finally clause of submit is all that is left to do.     *)
Raise == batch' = <<[op |-> "close"]>> /\ phase' = "ready" /\ hand' = Unmapped
           /\ UNCHANGED target

(* The entry of the flat table for the cell at ix of the planes in `planes`. *)
Page(planes, ix) == <<planes[ix[1]], ix[2]>>
Entry(planes, ix) ==
  IF Page(planes, ix) \in Resident THEN slot[Page(planes, ix)] ELSE Unmapped

(* What _flat_indices finds for a key, set to an entry.                      *)
Mapped(k, entry) == [ix \in DOMAIN flat |-> IF Page(bound, ix) = k THEN entry ELSE flat[ix]]

Give(s) == [free EXCEPT ![s[1]] = @ \union {s[2]}]

(* _evict: the page leaves the table, its layer is free, and nothing the     *)
(* shader reads names it.                                                    *)
Evict(k) ==
  /\ Unbind(k)
  /\ shield' = shield \ {k}
  /\ free' = Give(slot[k])
  /\ flat' = Mapped(k, Unmapped)
  /\ UNCHANGED <<allocated, budget, bound, memo, wanted>>

Lesser(m, n) == IF m <= n THEN m ELSE n
Greater(m, n) == IF m >= n THEN m ELSE n

(* _grow_pool: a larger texture, in which every layer keeps its index.       *)
GrownTo(p, minimum, limit) ==
  LET old == allocated[p]
      wish == Greater(Greater(InitialLayers, 2 * old), Greater(old + 1, minimum))
      new == Lesser(limit, wish)
  IN /\ allocated' = [allocated EXCEPT ![p] = new]
     /\ free' = [free EXCEPT ![p] = @ \union (old .. (new - 1))]

(* Mutant: the memo is trusted whatever was bound or evicted meanwhile.      *)
MemoAnswers_Stale(owner, keys) == memo[owner].keys = keys

(* replace_resident_pin_set: the resident part of the keys, by the memo when *)
(* neither the keys nor any binding changed since.                           *)
MemoAnswers(owner, keys) ==
  memo[owner].generation = generation /\ memo[owner].keys = keys

ReplaceResidentPinSet(owner, keys) ==
  IF MemoAnswers(owner, keys)
    THEN UNCHANGED <<tableVars, memo>>
    ELSE /\ ReplacePinSet(owner, keys \intersect Resident)
         /\ memo' = [memo EXCEPT ![owner] =
              [keys |-> keys, generation |-> generation, resident |-> keys \intersect Resident]]

-----------------------------------------------------------------------------
(* Calls the display makes around a submission.                              *)
Pins ==
  /\ At("pins")
  /\ ReplaceResidentPinSet(Head(batch).owner, Head(batch).keys)
  /\ Done
  /\ UNCHANGED <<poolVars, planeVars, shieldVars>>

(* ensure_pool_budgets, which never lowers a budget, and, without a codec,   *)
(* ensure_raw_pool_capacity for the pages the callback needs.                *)
Capacity ==
  /\ At("capacity")
  /\ LET layers == Head(batch).layers
         needed == Head(batch).needed
     IN /\ needed <= Greater(budget, layers) /\ layers <= MaxLayers
        /\ budget' = Greater(budget, layers)
        /\ IF Pools = {"raw"} /\ needed > allocated["raw"]
             THEN GrownTo("raw", needed, budget')
             ELSE UNCHANGED <<free, allocated>>
  /\ Done
  /\ UNCHANGED <<tableVars, planeVars, memo, shieldVars>>

(* submit begins: what its histograms will sample is shielded, as far as it  *)
(* is resident.                                                              *)
Open ==
  /\ At("open")
  /\ wanted' = Head(batch).keys
  /\ shield' = Head(batch).keys \intersect Resident
  /\ IF shield' = {} THEN UNCHANGED tableVars ELSE ReplacePinSet("shield", shield')
  /\ Done
  /\ UNCHANGED <<poolVars, planeVars, memo>>

(* The finally clause of submit.                                             *)
Close ==
  /\ At("close")
  /\ wanted' = {}
  /\ shield' = {}
  /\ ReplacePinSet("shield", {})
  /\ Done
  /\ UNCHANGED <<poolVars, planeVars, memo>>

-----------------------------------------------------------------------------
(* _bind_planes.  A list that extends the bound one keeps its table; one     *)
(* that replaces few planes in place keeps the entries of the others; any    *)
(* other list is built anew.                                                 *)
Indices(planes) == (1 .. Len(planes)) \X Cells

Extends(planes) ==
  /\ bound # <<>>
  /\ Len(planes) >= Len(bound)
  /\ \A i \in DOMAIN bound : planes[i] = bound[i]

Changed(planes) == {i \in DOMAIN bound : planes[i] # bound[i]}

Patches(planes) ==
  /\ bound # <<>>
  /\ Len(planes) >= Len(bound)
  /\ Changed(planes) # {}
  /\ Cardinality(Changed(planes)) * PatchShare <= Len(bound)

(* Mutant: patching leaves the entries of the planes it replaced.            *)
Kept_Replaced(planes) ==
  IF Extends(planes) \/ Patches(planes) THEN DOMAIN bound ELSE {}

Kept(planes) ==
  IF Extends(planes) \/ Patches(planes) THEN DOMAIN bound \ Changed(planes) ELSE {}

BindPlanes ==
  /\ At("planes")
  /\ LET planes == Head(batch).planes
     IN /\ bound' = planes
        /\ flat' = [ix \in Indices(planes) |->
                      IF ix[1] \in Kept(planes) THEN flat[ix] ELSE Entry(planes, ix)]
  /\ ReplaceResidentPinSet("bound", Head(batch).keys)
  /\ Done
  /\ UNCHANGED <<poolVars, shieldVars>>

-----------------------------------------------------------------------------
(* EnsureChunkResident and GenerateLodPages look their key up first: a page  *)
(* that is there is only touched.                                            *)
AlreadyThere ==
  /\ At("ensure") \/ At("generate")
  /\ Key \in Resident
  /\ Touch(Key)
  /\ GoOn("shield")
  /\ UNCHANGED <<poolVars, planeVars, memo, shieldVars>>

(* A chunk from the CPU goes into whichever pool its encoding chose.         *)
EnsureCold ==
  /\ At("ensure")
  /\ Key \notin Resident
  /\ budget > 0
  /\ target' \in Pools
  /\ phase' = "room"
  /\ UNCHANGED <<tableVars, poolVars, planeVars, memo, shieldVars, batch, hand>>

(* A reduction protects its sources while it looks for a layer.              *)
GenerateCold ==
  /\ At("generate")
  /\ Key \notin Resident
  /\ budget > 0
  /\ Kids(Key) \subseteq Resident
  /\ ReplacePinSet("lod", Kids(Key))
  /\ target' = "raw"
  /\ phase' = "room"
  /\ UNCHANGED <<poolVars, planeVars, memo, shieldVars, batch, hand>>

(* No layers are configured, or a source of the reduction is gone.           *)
Refused ==
  /\ At("ensure") \/ At("generate")
  /\ Key \notin Resident
  /\ \/ budget = 0
     \/ Head(batch).op = "generate" /\ ~(Kids(Key) \subseteq Resident)
  /\ Raise
  /\ UNCHANGED <<tableVars, poolVars, planeVars, memo, shieldVars>>

-----------------------------------------------------------------------------
(* _ensure_free_pool_layer.                                                  *)
Full == phase = "room" /\ free[target] = {}

Grow ==
  /\ Full
  /\ allocated[target] < budget
  /\ GrownTo(target, 0, budget)
  /\ UNCHANGED <<tableVars, budget, planeVars, memo, shieldVars, stepVars>>

EvictOldest ==
  /\ Full
  /\ allocated[target] >= budget
  /\ \E k \in EvictionCandidates(target) : Evict(k)
  /\ UNCHANGED stepVars

(* With every page pinned, the oldest that only the shield protects yields.  *)
ShieldOnly(p) == {k \in shield \intersect InPool(p) : OwnersOf(k) \subseteq {"shield"}}

YieldShield ==
  /\ Full
  /\ allocated[target] >= budget
  /\ EvictionCandidates(target) = {}
  /\ \E k \in Oldest(ShieldOnly(target)) : Evict(k)
  /\ UNCHANGED stepVars

(* Everything is pinned by others: the error leaves through the reduction's  *)
(* finally clause, if it is one.                                             *)
Exhausted ==
  /\ Full
  /\ allocated[target] >= budget
  /\ EvictionCandidates(target) = {}
  /\ ShieldOnly(target) = {}
  /\ IF Head(batch).op = "generate" THEN ReplacePinSet("lod", {}) ELSE UNCHANGED tableVars
  /\ Raise
  /\ UNCHANGED <<poolVars, planeVars, memo, shieldVars>>

(* Which of the free layers is taken makes no difference: the code takes the *)
(* one freed last, the model the first.                                      *)
FirstFree(p) == CHOOSE layer \in free[p] : \A other \in free[p] : layer <= other

TakeLayer ==
  /\ phase = "room"
  /\ free[target] # {}
  /\ hand' = <<target, FirstFree(target)>>
  /\ free' = [free EXCEPT ![target] = @ \ {FirstFree(target)}]
  /\ phase' = IF Head(batch).op = "generate" THEN "reduce" ELSE "bind"
  /\ UNCHANGED <<tableVars, allocated, budget, planeVars, memo, shieldVars, batch, target>>

(* The pass over the sources is submitted; they need no protection any more. *)
Reduce ==
  /\ phase = "reduce"
  /\ ReplacePinSet("lod", {})
  /\ GoOn("bind")
  /\ UNCHANGED <<poolVars, planeVars, memo, shieldVars>>

(* Mutant: a reduction that raises leaves its sources protected.             *)
ReduceFails_PinsStay ==
  /\ phase = "reduce"
  /\ PassMayFail
  /\ free' = Give(hand)
  /\ Raise
  /\ UNCHANGED <<tableVars, allocated, budget, planeVars, memo, shieldVars>>

(* Mutant: a reduction that raises keeps the layer it took.                  *)
ReduceFails_LayerLost ==
  /\ phase = "reduce"
  /\ PassMayFail
  /\ ReplacePinSet("lod", {})
  /\ Raise
  /\ UNCHANGED <<poolVars, planeVars, memo, shieldVars>>

(* Or it raises: the layer goes back.                                        *)
ReduceFails ==
  /\ phase = "reduce"
  /\ PassMayFail
  /\ ReplacePinSet("lod", {})
  /\ free' = Give(hand)
  /\ Raise
  /\ UNCHANGED <<allocated, budget, planeVars, memo, shieldVars>>

(* The page enters the table and the flat table.                             *)
BindPage ==
  /\ phase = "bind"
  /\ Bind(Key, hand)
  /\ flat' = Mapped(Key, hand)
  /\ hand' = Unmapped
  /\ phase' = "shield"
  /\ UNCHANGED <<poolVars, bound, memo, shieldVars, batch, target>>

(* _shield_histogram_key: the page joins the shield if a histogram of this   *)
(* submission wants it.                                                      *)
Shield ==
  /\ phase = "shield"
  /\ IF Key \in wanted /\ Key \notin shield /\ Key \in Resident
       THEN shield' = shield \union {Key} /\ ReplacePinSet("shield", shield')
       ELSE UNCHANGED <<tableVars, shield>>
  /\ Done
  /\ UNCHANGED <<poolVars, planeVars, memo, wanted>>

-----------------------------------------------------------------------------
EvictChunk ==
  /\ At("evict")
  /\ IF Key \in Resident
       THEN Evict(Key)
       ELSE UNCHANGED <<tableVars, poolVars, planeVars, memo, shieldVars>>
  /\ Done

(* A histogram only reads; a key that is gone makes its result partial.      *)
Histogram ==
  /\ At("histogram")
  /\ Done
  /\ UNCHANGED <<tableVars, poolVars, planeVars, memo, shieldVars>>

(* The callback returns to its caller.                                       *)
Return ==
  /\ At("return")
  /\ Done
  /\ UNCHANGED <<tableVars, poolVars, planeVars, memo, shieldVars>>

(* Any caller: the next callback, with whatever it has to do; submit closes  *)
(* what it opens before it opens again.                                      *)
Closes(commands) ==
  \A i \in DOMAIN commands : commands[i].op = "open" =>
    \E j \in DOMAIN commands :
      /\ i < j /\ commands[j].op = "close"
      /\ \A m \in (i + 1) .. (j - 1) : commands[m].op # "open"

Call ==
  /\ batch = <<>>
  /\ batch' \in {commands \in Seq(Command) : Closes(commands)}
  /\ UNCHANGED <<tableVars, poolVars, planeVars, memo, shieldVars, phase, target, hand>>

Step ==
  \/ Pins \/ Capacity \/ Open \/ Close \/ BindPlanes
  \/ AlreadyThere \/ EnsureCold \/ GenerateCold \/ Refused
  \/ Grow \/ EvictOldest \/ YieldShield \/ Exhausted \/ TakeLayer
  \/ Reduce \/ ReduceFails \/ BindPage \/ Shield
  \/ EvictChunk \/ Histogram

Next == Call \/ Step \/ Return

Spec == Init /\ [][Next]_vars
=============================================================================
