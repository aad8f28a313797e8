--------------------------- MODULE ResidencyProps ---------------------------
(* What the residency of pages must satisfy.                                 *)
EXTENDS Residency

(* Type invariant of the page table and the executor.                        *)
TypeOK ==
  /\ Resident \subseteq Keys /\ \A k \in Resident : slot[k] \in Slots
  /\ lru \in Seq(Keys)
  /\ pins \in [Owners -> SUBSET Keys] /\ pinned \subseteq Keys
  /\ generation \in Nat /\ lost \in Nat
  /\ free \in [Pools -> SUBSET Nat]
  /\ allocated \in [Pools -> Nat \ {0}] /\ budget \in Nat
  /\ bound \in Seq(Planes)
  /\ DOMAIN flat = Indices(bound) /\ \A ix \in DOMAIN flat : flat[ix] \in Slots \union {Unmapped}
  /\ memo \in [{"bound", "warm"} ->
                [keys : SUBSET Keys, generation : Nat, resident : SUBSET Keys]]
  /\ wanted \subseteq Keys /\ shield \subseteq Keys
  /\ batch \in Seq(Command)
  /\ phase \in {"ready", "room", "reduce", "bind", "shield"}
  /\ target \in Pools
  /\ hand \in Slots \union {Unmapped}

(* Every layer of a texture is in exactly one place: free, taken by the      *)
(* command that runs, or the layer of one resident page; so a pool reported  *)
(* full is full (the error of _evict_one_unpinned counts layers that are     *)
(* neither as a leak), and no two pages are written to the same layer.       *)
LayersOf(p) == {slot[k][2] : k \in InPool(p)}
InHand(p) == IF hand # Unmapped /\ hand[1] = p THEN {hand[2]} ELSE {}
EveryLayerOnce ==
  /\ \A p \in Pools :
       /\ free[p] \union InHand(p) \union LayersOf(p) = 0 .. (allocated[p] - 1)
       /\ free[p] \intersect LayersOf(p) = {}
       /\ InHand(p) \intersect (free[p] \union LayersOf(p)) = {}
  /\ \A k, l \in Resident : slot[k] = slot[l] => k = l

(* The table the shader reads names, for every cell of every bound plane,    *)
(* the layer its page lives in now, and none when it is not resident: nothing*)
(* is ever drawn from a layer that was given to another page.                *)
FlatTableIsResidency == flat = [ix \in Indices(bound) |-> Entry(bound, ix)]

(* A page's entry says pinned exactly when some owner protects it, every     *)
(* owner protects resident pages only, and the executor's mirror of the      *)
(* shield is the shield.  The protections of one command and of one          *)
(* submission end with it, also when it raises, so that none is left when no *)
(* callback runs.                                                            *)
PinsAreOwned ==
  /\ \A o \in Owners : pins[o] \subseteq Resident
  /\ pinned = {k \in Resident : OwnersOf(k) # {}}
  /\ shield = pins["shield"]
  /\ phase \in {"ready", "bind", "shield"} => pins["lod"] = {}
  /\ batch = <<>> => shield = {} /\ wanted = {}

(* Making room never takes a page that backs the committed picture, a page   *)
(* of a picture warmed for it, or a source of the reduction that asks for    *)
(* the room; and what a histogram of this submission will sample goes only   *)
(* when everything else in its pool is protected.                            *)
ProtectedPagesStay ==
  [][phase = "room" =>
       \A k \in Resident \ DOMAIN slot' :
         /\ OwnersOf(k) \subseteq {"shield"}
         /\ k \in wanted =>
              \A other \in InPool(slot[k][1]) : other \in wanted \/ OwnersOf(other) # {}]_vars
=============================================================================
