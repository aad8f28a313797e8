---------------------------- MODULE TiledCommits ----------------------------
(* The display as the executor's caller (display/wgpu_imageview2d.py):       *)
(* pictures of tiles are committed whole, or by the tiles that changed, or   *)
(* warmed in hiding first; pages are planned against what is resident before *)
(* the submission runs, and tiles are acknowledged by what is resident after *)
(* it.  Two shortcuts spare that last look at every page: a stamp that says  *)
(* nothing was lost, and a generation that says nothing was bound or lost.   *)
(*                                                                           *)
(* A payload is the plane a tile shows and the cells of it that the chosen   *)
(* level of detail needs; which level is chosen is left open.                *)
EXTENDS Residency

CONSTANTS NTiles,      \* tiles of the montage, 1 .. NTiles
          Rungs,       \* sets of cells, one for a level of detail
          Offered,     \* the pictures and parts of pictures that are committed
          Evidence,    \* whether resident histogram evidence is required
          Policy,      \* layers the memory policy would keep
          Headroom,    \* layers kept beyond two rungs (8)
          Nothing,     \* no committed picture, no cache, no signature
          MaxCommits, MaxWarms, MaxCalls  \* bounds: commits, warms, and both

ASSUME TilesAssumption ==
  /\ NTiles \in Nat \ {0}
  /\ Rungs \subseteq SUBSET Cells
  /\ IsFiniteSet(Cells)
  /\ Cells \subseteq Nat   \* the order in which a commit goes through them
  /\ Policy \in Nat /\ Headroom \in Nat

Tiles == 1 .. NTiles
Payloads == [plane : Planes, cells : Rungs]
Pictures == UNION {[tiles -> Payloads] : tiles \in (SUBSET Tiles) \ {{}}}

ASSUME OfferedAssumption == Offered \subseteq Pictures /\ Evidence \in BOOLEAN

VARIABLES committed,   \* `_wgpu_committed`
          serial,      \* `_wgpu_commit_serial`
          cache,       \* `_wgpu_presented_cache`
          signature,   \* `_wgpu_tiled_binding_signature`: its page-table generation
          callback,    \* which callback runs
          acked,       \* the pages of every tile acknowledged as presented
          warms        \* how many pictures were warmed

viewVars == <<committed, serial, cache, signature, callback, acked, warms>>

PagesOf(picture) == [t \in DOMAIN picture |-> {picture[t].plane} \X picture[t].cells]
AllPages(pages) == UNION {pages[t] : t \in DOMAIN pages}

(* The members of a set as a sequence, in the given order.                   *)
Ordered(S, Before(_, _)) ==
  CHOOSE s \in [1 .. Cardinality(S) -> S] : \A i, j \in DOMAIN s : i < j => Before(s[i], s[j])

InOrder(tiles) == Ordered(tiles, <)
NoTiles == [t \in {} |-> {}]

CommitsInit ==
  /\ Init
  /\ committed = Nothing
  /\ serial = 0
  /\ cache = Nothing
  /\ signature = Nothing
  /\ callback = "none"
  /\ acked = NoTiles
  /\ warms = 0

Idle == callback = "none"

-----------------------------------------------------------------------------
(* Planning.                                                                 *)
Do(op, k) == [op |-> op, key |-> k]
SetPins(owner, keys) == [op |-> "pins", owner |-> owner, keys |-> keys]
OpenFor(keys) == [op |-> "open", keys |-> keys]
CloseIt == [op |-> "close"]
Returns == [op |-> "return"]

(* _wgpu_pool_layer_budget: what is needed wins over the memory policy.      *)
LayerBudget(needed) ==
  Lesser(MaxLayers, Greater(needed, Lesser(Greater(budget, 2 * needed + Headroom), Policy)))
Reserve(needed) == [op |-> "capacity", layers |-> LayerBudget(needed), needed |-> needed]

(* _wgpu_pre_reservation_page_count: the pages submitted, or as many as the  *)
(* whole montage would take, as far as the device has layers.                *)
Visits(pages) == UNION {{t} \X pages[t] : t \in DOMAIN pages}
PageCount(pages) == Cardinality(Visits(pages))
LargestTile(pages) ==
  CHOOSE n \in 0 .. Cardinality(Cells) :
    /\ \E t \in DOMAIN pages : n = Cardinality(pages[t])
    /\ \A t \in DOMAIN pages : n >= Cardinality(pages[t])
PagesNeeded(pages) ==
  Greater(PageCount(pages), Lesser(NTiles * LargestTile(pages), MaxLayers))

(* A commit goes through the tiles and the cells each shows, so that a page  *)
(* of several tiles is met with the first.                                   *)
Sooner(pages, k, l) ==
  \E t \in DOMAIN pages :
    /\ k \in pages[t]
    /\ \A u \in DOMAIN pages : l \in pages[u] => t < u \/ (t = u /\ k[2] < l[2])

(* Mutant: what is planned is not remembered, once met.                      *)
Missing_Forgets(pages) ==
  LET met == {v \in Visits(pages) : v[2] \notin Resident}
      visits == Ordered(met, LAMBDA v, w : v[1] < w[1] \/ (v[1] = w[1] /\ v[2][2] < w[2][2]))
  IN [i \in DOMAIN visits |-> visits[i][2]]

(* The pages that are neither resident nor planned already (planned_resident)*)
(* as they are met.                                                          *)
Missing(pages) ==
  Ordered(AllPages(pages) \ Resident, LAMBDA k, l : Sooner(pages, k, l))

(* Such a page is reduced from resident or planned children, or else         *)
(* uploaded (_wgpu_plan_lod_page_generation).  The code also tries to reduce *)
(* a missing child first: here, as in Frontier, pyramids have two levels, and*)
(* a child is native.                                                        *)
Reducible(keys, i) ==
  LET kids == Kids(keys[i])
  IN kids # {} /\ kids \subseteq Resident \union {keys[j] : j \in 1 .. (i - 1)}

Plan(pages) ==
  LET keys == Missing(pages)
  IN [i \in DOMAIN keys |-> Do(IF Reducible(keys, i) THEN "generate" ELSE "ensure", keys[i])]
WarmPlan(pages) == [i \in DOMAIN Missing(pages) |-> Do("ensure", Missing(pages)[i])]

(* chunk_key_frontier of what a plane will have: the coarse pages that finer *)
(* ones do not cover whole, and the finer ones no such page covers.          *)
Frontier(keys) ==
  LET coarse == {k \in keys : Kids(k) # {} /\ ~(Kids(k) \subseteq keys)}
  IN coarse \union {k \in keys : Kids(k) = {} /\ \A c \in coarse : k \notin Kids(c)}

HistogramKeys(picture) ==
  UNION {Frontier({k \in Resident \union AllPages(PagesOf(picture)) : k[1] = picture[t].plane})
          : t \in DOMAIN picture}

-----------------------------------------------------------------------------
(* _apply_backend_tiled_presentation.  The new record replaces the old one   *)
(* before anything is submitted.                                             *)
Record(pages, at, planes, base, changed) ==
  [pages |-> pages, keys |-> AllPages(pages), at |-> at, planes |-> planes,
   serial |-> serial + 1, base |-> base, changed |-> changed, shown |-> Nothing]

PreviousKeys == IF committed = Nothing THEN {} ELSE committed.keys

(* Whether the picture on the screen is the one the record describes: it is  *)
(* not if the commit that wrote the record raised.                           *)
RecordIsShown == committed # Nothing /\ committed.shown # Nothing

Program(before, work, record, transaction, histograms) ==
  <<Reserve(PagesNeeded(PagesOf(work)))>>
    \o before
    \o <<SetPins("warm", {}), OpenFor(histograms),
         [op |-> "planes", planes |-> record.planes, keys |-> transaction]>>
    \o Plan(PagesOf(work))
    \o (IF histograms = {} THEN <<>> ELSE <<[op |-> "histogram", keys |-> histograms]>>)
    \o <<CloseIt, SetPins("bound", record.keys), Returns>>

Begins == batch = <<>> /\ Idle
MayCommit == Begins /\ serial < MaxCommits /\ serial + warms < MaxCalls

CommitWhole(picture, atomic) ==
  /\ MayCommit
  /\ LET pages == PagesOf(picture)
         order == InOrder(DOMAIN picture)
         record == Record(pages,
                          [t \in DOMAIN picture |-> CHOOSE i \in DOMAIN order : order[i] = t],
                          [i \in DOMAIN order |-> picture[order[i]].plane], 0, {})
     IN /\ PageCount(pages) <= MaxLayers
        /\ committed' = record
        /\ batch' = Program(<<>>, picture, record, IF atomic THEN PreviousKeys ELSE {},
                            IF Evidence THEN HistogramKeys(picture) ELSE {})
  /\ serial' = serial + 1
  /\ callback' = "whole"
  /\ acked' = IF atomic /\ RecordIsShown THEN acked ELSE NoTiles
  /\ UNCHANGED <<tableVars, poolVars, planeVars, memo, shieldVars, phase, target, hand>>
  /\ UNCHANGED <<cache, signature, warms>>

(* The tiles that changed, on top of a record whose other tiles stay.        *)
CommitDelta(work) ==
  /\ MayCommit
  /\ committed # Nothing
  /\ LET news == InOrder(DOMAIN work \ DOMAIN committed.at)
         at == [t \in DOMAIN committed.at \union DOMAIN work |->
                 IF t \in DOMAIN committed.at THEN committed.at[t]
                 ELSE Len(committed.planes) + CHOOSE i \in DOMAIN news : news[i] = t]
         planes == [i \in 1 .. (Len(committed.planes) + Len(news)) |->
                     IF \E t \in DOMAIN work : at[t] = i
                     THEN work[CHOOSE t \in DOMAIN work : at[t] = i].plane
                     ELSE committed.planes[i]]
         pages == [t \in DOMAIN at |->
                    IF t \in DOMAIN work THEN PagesOf(work)[t] ELSE committed.pages[t]]
         record == Record(pages, at, planes, committed.serial, DOMAIN work)
     IN /\ PageCount(PagesOf(work)) <= MaxLayers
        /\ committed' = record
        /\ batch' = Program(<<SetPins("bound", PreviousKeys)>>, work, record, PreviousKeys,
                            IF Evidence THEN HistogramKeys(work) ELSE {})
  /\ serial' = serial + 1
  /\ callback' = "delta"
  /\ acked' = IF RecordIsShown THEN acked ELSE NoTiles
  /\ UNCHANGED <<tableVars, poolVars, planeVars, memo, shieldVars, phase, target, hand>>
  /\ UNCHANGED <<cache, signature, warms>>

-----------------------------------------------------------------------------
(* _finish_wgpu_tiled_presentation.                                          *)
IsResident(t) == committed.pages[t] \subseteq Resident
FullWalk == {t \in DOMAIN committed.pages : IsResident(t)}

(* Mutant: the cache is taken for whatever record came before.               *)
CacheAnswers_AnyRecord ==
  /\ callback = "delta"
  /\ cache # Nothing
  /\ cache.lost = lost

CacheAnswers ==
  /\ callback = "delta"
  /\ cache # Nothing
  /\ cache.serial = committed.base
  /\ cache.lost = lost

(* Only the changed tiles and those the predecessor could not present.       *)
DeltaWalk ==
  LET recheck == (DOMAIN committed.pages \ cache.tiles) \union committed.changed
  IN (cache.tiles \ recheck) \union {t \in recheck : IsResident(t)}

Presented == IF CacheAnswers THEN DeltaWalk ELSE FullWalk

FinishCommit ==
  /\ Return
  /\ callback \in {"whole", "delta"}
  /\ committed' = [committed EXCEPT !.shown = Presented]
  /\ cache' = [serial |-> committed.serial, lost |-> lost, tiles |-> Presented]
  /\ signature' = generation
  /\ acked' = [t \in Presented |-> committed.pages[t]]
  /\ callback' = "none"
  /\ UNCHANGED <<serial, warms>>

(* The callback raised: what came after the submission is not run.           *)
Failed ==
  /\ batch = <<>>
  /\ ~Idle
  /\ callback' = "none"
  /\ UNCHANGED <<vars, committed, serial, cache, signature, acked, warms>>

(* The same payloads over an unchanged page table: only uniforms move, and   *)
(* the tiles of the record are acknowledged without a look.                  *)
SameBinding == signature # Nothing /\ signature = generation

CommitMapping ==
  /\ Begins
  /\ committed # Nothing
  /\ SameBinding
  /\ acked' = IF RecordIsShown THEN [t \in committed.shown |-> committed.pages[t]] ELSE NoTiles
  /\ UNCHANGED <<vars, committed, serial, cache, signature, callback, warms>>

-----------------------------------------------------------------------------
(* warmTiledResidency: pages for a picture not yet shown.  A picture that is *)
(* to replace another at once is warmed in parts; `whole` is all of it, and  *)
(* room is made for it beside everything the committed picture holds.        *)
WarmProgram(before, needed, part, after) ==
  before \o <<Reserve(needed)>> \o before
    \o <<OpenFor({})>> \o WarmPlan(PagesOf(part)) \o <<CloseIt>>
    \o after \o <<Returns>>

Warms ==
  /\ Begins
  /\ warms < MaxWarms /\ serial + warms < MaxCalls
  /\ warms' = warms + 1
  /\ callback' = "warm"
  /\ UNCHANGED <<tableVars, poolVars, planeVars, memo, shieldVars, phase, target, hand>>
  /\ UNCHANGED <<committed, serial, cache, signature, acked>>

WarmAtomic(whole, tiles) ==
  /\ Warms
  /\ LET keys == AllPages(PagesOf(whole))
         held == Cardinality(pins["bound"] \union keys)
         needed == Greater(PageCount(PagesOf(whole)), held)
         pin == <<SetPins("warm", keys)>>
     IN batch' = IF needed > MaxLayers
                 THEN pin   \* and then the budget is refused
                 ELSE WarmProgram(pin, needed, [t \in tiles |-> whole[t]], pin)

WarmAhead(picture) ==
  /\ Warms
  /\ PageCount(PagesOf(picture)) <= MaxLayers
  /\ batch' = WarmProgram(<<>>, PageCount(PagesOf(picture)), picture, <<>>)

-----------------------------------------------------------------------------
(* hide_superseded_tiled_presentation: some tiles are no longer drawn.       *)
HideTiles(gone) ==
  /\ MayCommit
  /\ committed # Nothing
  /\ gone \intersect DOMAIN committed.at # {}
  /\ LET left == DOMAIN committed.at \ gone
     IN committed' = [committed EXCEPT !.pages = [t \in left |-> @[t]],
                                       !.at = [t \in left |-> @[t]],
                                       !.serial = serial + 1, !.base = 0, !.changed = {}]
  /\ serial' = serial + 1
  /\ signature' = Nothing
  /\ acked' = [t \in DOMAIN acked \ gone |-> acked[t]]
  /\ UNCHANGED <<vars, cache, callback, warms>>

(* hide_tiled_presentation and invalidate_tiled_presentation.                *)
HideAll ==
  /\ Begins
  /\ committed # Nothing
  /\ committed' = Nothing /\ cache' = Nothing /\ signature' = Nothing
  /\ acked' = NoTiles
  /\ UNCHANGED <<vars, serial, callback, warms>>

(* reset_tiled_residency: every page is evicted, pinned or not.              *)
Reset ==
  /\ Begins
  /\ Resident # {}
  /\ batch' = <<SetPins("warm", {}), OpenFor({})>>
                \o [i \in DOMAIN lru |-> Do("evict", lru[i])] \o <<CloseIt, Returns>>
  /\ callback' = "reset"
  /\ acked' = NoTiles
  /\ UNCHANGED <<tableVars, poolVars, planeVars, memo, shieldVars, phase, target, hand>>
  /\ UNCHANGED <<committed, serial, cache, signature, warms>>

EndReset ==
  /\ Return
  /\ callback = "reset"
  /\ committed' = Nothing /\ cache' = Nothing /\ signature' = Nothing
  /\ callback' = "none"
  /\ UNCHANGED <<serial, acked, warms>>

EndWarm ==
  /\ Return
  /\ callback = "warm"
  /\ callback' = "none"
  /\ UNCHANGED <<committed, serial, cache, signature, acked, warms>>

(* Every step of the executor but one, AlreadyThere: a plan never asks for a *)
(* page that is there (NothingIsUploadedTwice).                              *)
CommitsNext ==
  \/ \E picture \in Offered :
       \/ \E atomic \in BOOLEAN : CommitWhole(picture, atomic)
       \/ CommitDelta(picture)
       \/ \E tiles \in (SUBSET DOMAIN picture) \ {{}} : WarmAtomic(picture, tiles)
       \/ WarmAhead(picture)
  \/ \E gone \in (SUBSET Tiles) \ {{}} : HideTiles(gone)
  \/ CommitMapping \/ HideAll \/ Reset
  \/ Pins /\ UNCHANGED viewVars
  \/ Capacity /\ UNCHANGED viewVars
  \/ Open /\ UNCHANGED viewVars
  \/ Close /\ UNCHANGED viewVars
  \/ BindPlanes /\ UNCHANGED viewVars
  \/ EnsureCold /\ UNCHANGED viewVars
  \/ GenerateCold /\ UNCHANGED viewVars
  \/ Refused /\ UNCHANGED viewVars
  \/ Grow /\ UNCHANGED viewVars
  \/ EvictOldest /\ UNCHANGED viewVars
  \/ YieldShield /\ UNCHANGED viewVars
  \/ Exhausted /\ UNCHANGED viewVars
  \/ TakeLayer /\ UNCHANGED viewVars
  \/ Reduce /\ UNCHANGED viewVars
  \/ ReduceFails /\ UNCHANGED viewVars
  \/ BindPage /\ UNCHANGED viewVars
  \/ Shield /\ UNCHANGED viewVars
  \/ EvictChunk /\ UNCHANGED viewVars
  \/ Histogram /\ UNCHANGED viewVars
  \/ FinishCommit \/ EndReset \/ EndWarm \/ Failed

CommitsSpec == CommitsInit /\ [][CommitsNext]_<<vars, viewVars>>
=============================================================================
