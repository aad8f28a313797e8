----------------------------- MODULE PageTable -----------------------------
(* The software page table of the wgpu display (gpu/page_table.py): which    *)
(* chunk of image data lives in which layer of which texture array, in what  *)
(* order the chunks were used, and who protects them.  It is passive: every  *)
(* operation runs on the GUI thread, called by the executor that owns it     *)
(* (module Residency).                                                       *)
(*                                                                           *)
(* A chunk key is a plane of content and a cell of that plane's pyramid.     *)
(* Use stamps (`last_use`) are kept as the order they put the chunks in, and *)
(* `_slots` and the family index, which repeat `_entries` under another key, *)
(* are read off it.                                                          *)
EXTENDS Naturals, Sequences, FiniteSets

CONSTANTS Planes,   \* content planes: document generation, operation, representation
          Cells,    \* the chunks of a plane's pyramid, on every level
          Pools     \* texture arrays: the raw one and, if compression is on, the coded one

Keys == Planes \X Cells
Slots == Pools \X Nat

(* Who may pin: what backs the committed picture, a picture warmed in hiding,*)
(* the sources of a reduction, what a histogram of this batch will sample.   *)
Owners == {"bound", "warm", "lod", "shield"}

VARIABLES slot,        \* the layer of every resident key (`_entries[key].slot`)
          lru,         \* the resident keys, least recently used first
          pins,        \* `_pin_sets`: the keys each owner protects
          pinned,      \* the keys whose entry says it is pinned
          generation,  \* counts changes of binding
          lost         \* `_eviction_serial`: counts losses of residency

tableVars == <<slot, lru, pins, pinned, generation, lost>>

Resident == DOMAIN slot
OwnersOf(k) == {o \in Owners : k \in pins[o]}

TableInit ==
  /\ slot = [k \in {} |-> <<>>]
  /\ lru = <<>>
  /\ pins = [o \in Owners |-> {}]
  /\ pinned = {}
  /\ generation = 0
  /\ lost = 0

(* The order without a key, which is in it at most once.                     *)
Without(k) ==
  IF \A i \in DOMAIN lru : lru[i] # k THEN lru
  ELSE LET at == CHOOSE i \in DOMAIN lru : lru[i] = k
       IN [i \in 1 .. (Len(lru) - 1) |-> IF i < at THEN lru[i] ELSE lru[i + 1]]

(* bind: the key's values now live in s; it is the youngest entry.           *)
Bind(k, s) ==
  /\ slot' = [x \in Resident \union {k} |-> IF x = k THEN s ELSE slot[x]]
  /\ lru' = Append(Without(k), k)
  /\ pinned' = IF OwnersOf(k) = {} THEN pinned \ {k} ELSE pinned \union {k}
  /\ generation' = generation + 1
  /\ UNCHANGED <<pins, lost>>

(* unbind: the only way residency is lost.                                   *)
Unbind(k) ==
  /\ slot' = [x \in Resident \ {k} |-> slot[x]]
  /\ lru' = Without(k)
  /\ pins' = [o \in Owners |-> pins[o] \ {k}]
  /\ pinned' = pinned \ {k}
  /\ generation' = generation + 1
  /\ lost' = lost + 1

Touch(k) ==
  /\ lru' = Append(Without(k), k)
  /\ UNCHANGED <<slot, pins, pinned, generation, lost>>

(* Mutant: the flag of a key follows the owner whose set was replaced.       *)
ReplacePinSet_OneOwner(owner, keys) ==
  LET moved == (pins[owner] \ keys) \union (keys \ pins[owner])
  IN /\ pins' = [pins EXCEPT ![owner] = keys]
     /\ pinned' = (pinned \ moved) \union (moved \intersect keys)
     /\ UNCHANGED <<slot, lru, generation, lost>>

(* replace_pin_set: only keys whose membership in this owner's set changes   *)
(* have their flag derived again.                                            *)
ReplacePinSet(owner, keys) ==
  LET moved == (pins[owner] \ keys) \union (keys \ pins[owner])
      sets == [pins EXCEPT ![owner] = keys]
  IN /\ pins' = sets
     /\ pinned' = (pinned \ moved)
                    \union {k \in moved \intersect Resident : \E o \in Owners : k \in sets[o]}
     /\ UNCHANGED <<slot, lru, generation, lost>>

UsedBefore(k, other) ==
  \E i, j \in DOMAIN lru : lru[i] = k /\ lru[j] = other /\ i <= j

(* The least recently used of a set: at most one key.                        *)
Oldest(keys) == {k \in keys : \A other \in keys : UsedBefore(k, other)}

(* eviction_candidate, among the pages of one pool.                          *)
InPool(p) == {k \in Resident : slot[k][1] = p}
EvictionCandidates(p) == Oldest(InPool(p) \ pinned)
=============================================================================
