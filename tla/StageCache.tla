----------------------------- MODULE StageCache -----------------------------
(***************************************************************************)
(* The stage caches of src/arrayscope/operations/stage_cache.py, one for   *)
(* each window, and the worker threads that look stages up, compute them   *)
(* and store them (claim_or_reuse_stage and its callers in slabs.py,       *)
(* materialize_singleflight in stage_materialization.py).                  *)
(*                                                                         *)
(* A critical section of the cache is one action, with the sections of the *)
(* registry it calls inside.  A stage is computed outside the locks; so is *)
(* its publication after it was stored.  Threads may give up waiting, and  *)
(* then compute without a claim; a window may close while they work, which *)
(* leaves its cache to them.  The compressed tier is off, as by default.   *)
(***************************************************************************)
EXTENDS StageSegments

CONSTANTS
    Windows,
    StageThreads,
    Answers,        \* [StageKeys -> SUBSET StageKeys]: whose regions contain this one's
    Budgets,        \* the sizes the memory policy may give a cache
    FirstBudget,
    NoWindow, NoKey,
    MayGiveUp,      \* whether waiters may time out or be cancelled
    MayClear        \* whether documents change

ASSUME StageAssumption ==
    /\ Budgets \subseteq Nat /\ FirstBudget \in Budgets
    /\ Answers \in [StageKeys -> SUBSET StageKeys]
    /\ \A k \in StageKeys : k \in Answers[k]
    /\ NoWindow \notin Windows /\ NoKey \notin StageKeys
    /\ MayGiveUp \in BOOLEAN /\ MayClear \in BOOLEAN

VARIABLES
    resident,       \* [Windows -> SUBSET Values]: the entries, also _resident_snapshot
    maxBytes,       \* [Windows -> Budgets]: max_bytes, _total_max_bytes
    inFlight,       \* [Windows -> SUBSET Values]: _in_flight, by the value it is to give
    outcome,        \* [Values -> what the event of the entry told]
    open,           \* [Windows -> BOOLEAN]
    at,             \* [StageThreads -> where the thread is]
    win, key, call, \* its window, the key it looks up, the number of its call
    claimed,        \* [StageThreads -> BOOLEAN]: whether it must finish_compute
    entry,          \* [StageThreads -> the in-flight entry it waits for or tells]
    value,          \* [StageThreads -> the value it refers to]
    calls           \* how many there were

threadVars == <<at, win, key, call, claimed, entry, value, calls>>
cacheVars == <<resident, maxBytes, inFlight, outcome, open>>
vars == <<published, segments, publishedBytes, resident, maxBytes, inFlight, outcome, open,
          at, win, key, call, claimed, entry, value, calls>>

Init ==
    /\ SegmentsInit
    /\ resident = [w \in Windows |-> {}]
    /\ maxBytes = [w \in Windows |-> FirstBudget]
    /\ inFlight = [w \in Windows |-> {}]
    /\ outcome = [v \in Values |-> "none"]
    /\ open = [w \in Windows |-> TRUE]
    /\ at = [t \in StageThreads |-> "out"]
    /\ win = [t \in StageThreads |-> NoWindow]
    /\ key = [t \in StageThreads |-> NoKey]
    /\ call = [t \in StageThreads |-> 0]
    /\ claimed = [t \in StageThreads |-> FALSE]
    /\ entry = [t \in StageThreads |-> NoValue]
    /\ value = [t \in StageThreads |-> NoValue]
    /\ calls = 0

\* What the window, its threads, their variables and the entries they wait for
\* refer to.  The cache of a closed window lives as long as a thread uses it.
Referenced ==
    UNION {resident[w] : w \in {x \in Windows : open[x] \/ \E t \in StageThreads : win[t] = x}}
    \cup {value[t] : t \in StageThreads}
    \cup {entry[t] : t \in {u \in StageThreads : entry[u] # NoValue /\ outcome[entry[u]] = "done"}}

Own(t) == <<key[t], call[t]>>
At(t, here, there) == at[t] = here /\ at' = [at EXCEPT ![t] = there]
Forgets == Released({}, Referenced')
-----------------------------------------------------------------------------
(* claim_or_reuse_stage. *)

StartCall(t, w, k) ==
    /\ At(t, "out", "look")
    /\ open[w]
    /\ calls < MaxCalls
    /\ calls' = calls + 1
    /\ win' = [win EXCEPT ![t] = w]
    /\ key' = [key EXCEPT ![t] = k]
    /\ call' = [call EXCEPT ![t] = calls + 1]
    /\ UNCHANGED <<cacheVars, claimed, entry, value>>
    /\ Forgets

\* get, get_containing: an entry whose region contains the one asked for.
Hits(t) == {v \in resident[win[t]] : KeyOf(v) \in Answers[key[t]]}

Hit(t, v) ==
    /\ At(t, "look", "leave")
    /\ v \in Hits(t)
    /\ value' = [value EXCEPT ![t] = v]
    /\ UNCHANGED <<cacheVars, win, key, call, claimed, entry, calls>>
    /\ Forgets

Miss(t) ==
    /\ At(t, "look", "claim")
    /\ Hits(t) = {}
    /\ UNCHANGED <<cacheVars, win, key, call, claimed, entry, value, calls>>
    /\ Forgets

InFlight(w, k) == {v \in inFlight[w] : KeyOf(v) = k}

\* Mutant: the claim is not looked for.
BeginCompute_Always(t) ==
    /\ At(t, "claim", "compute")
    /\ inFlight' = [inFlight EXCEPT ![win[t]] = @ \cup {Own(t)}]
    /\ claimed' = [claimed EXCEPT ![t] = TRUE]
    /\ UNCHANGED <<resident, maxBytes, outcome, open, win, key, call, entry, value, calls>>
    /\ Forgets

\* begin_compute: the table of claims is looked at, not the cache again.
BeginCompute(t) ==
    /\ At(t, "claim", "compute")
    /\ InFlight(win[t], key[t]) = {}
    /\ inFlight' = [inFlight EXCEPT ![win[t]] = @ \cup {Own(t)}]
    /\ claimed' = [claimed EXCEPT ![t] = TRUE]
    /\ UNCHANGED <<resident, maxBytes, outcome, open, win, key, call, entry, value, calls>>
    /\ Forgets

BeginRefused(t) ==
    /\ At(t, "claim", "attach")
    /\ InFlight(win[t], key[t]) # {}
    /\ UNCHANGED <<cacheVars, win, key, call, claimed, entry, value, calls>>
    /\ Forgets

\* wait_for_compute takes the lock once more, and may find the entry gone.
Attach(t, v) ==
    /\ At(t, "attach", "wait")
    /\ v \in InFlight(win[t], key[t])
    /\ entry' = [entry EXCEPT ![t] = v]
    /\ UNCHANGED <<cacheVars, win, key, call, claimed, value, calls>>
    /\ Forgets

AttachGone(t) ==
    /\ At(t, "attach", "look")
    /\ InFlight(win[t], key[t]) = {}
    /\ UNCHANGED <<cacheVars, win, key, call, claimed, entry, value, calls>>
    /\ Forgets

Reuse(t) ==
    /\ At(t, "wait", "leave")
    /\ outcome[entry[t]] = "done"
    /\ value' = [value EXCEPT ![t] = entry[t]]
    /\ entry' = [entry EXCEPT ![t] = NoValue]
    /\ UNCHANGED <<cacheVars, win, key, call, claimed, calls>>
    /\ Forgets

Retry(t) ==
    /\ At(t, "wait", "look")
    /\ outcome[entry[t]] = "failed"
    /\ entry' = [entry EXCEPT ![t] = NoValue]
    /\ UNCHANGED <<cacheVars, win, key, call, claimed, value, calls>>
    /\ Forgets

\* Timed out: the stage is computed without a claim.  Cancelled: the call ends.
GiveUp(t) ==
    /\ MayGiveUp
    /\ At(t, "wait", "compute") \/ At(t, "wait", "leave")
    /\ entry' = [entry EXCEPT ![t] = NoValue]
    /\ UNCHANGED <<cacheVars, win, key, call, claimed, value, calls>>
    /\ Forgets
-----------------------------------------------------------------------------
(* Computing, storing and publishing. *)

\* Mutant: a computation that raised skips finish_compute.
Stored_NoFinally(t) ==
    IF claimed[t] /\ value'[t] # NoValue THEN "finish" ELSE "leave"

\* The finally clause, or the return without a claim.
Stored(t) == IF claimed[t] THEN "finish" ELSE "leave"

Compute(t) ==
    /\ At(t, "compute", "put")
    /\ value' = [value EXCEPT ![t] = Own(t)]
    /\ UNCHANGED <<cacheVars, win, key, call, claimed, entry, calls>>
    /\ Forgets

\* Raised or cancelled, or cancelled when the value was there: not stored, but
\* told to those who wait.
ComputeRaises(t) ==
    /\ at[t] = "compute"
    /\ \/ UNCHANGED value
       \/ claimed[t] /\ value' = [value EXCEPT ![t] = Own(t)]
    /\ at' = [at EXCEPT ![t] = Stored(t)]
    /\ UNCHANGED <<cacheVars, win, key, call, claimed, entry, calls>>
    /\ Forgets

\* Mutant: the eviction loop stops after one entry.
Evicts_Once(base, budget, out) ==
    /\ out \subseteq base
    /\ IF Bytes(base) <= budget THEN out = {} ELSE Cardinality(out) = 1

\* BoundedCache._evict: entries go one by one, in the order of their scores,
\* which is any order here, until the rest fits.
Evicts(base, budget, out) ==
    /\ out \subseteq base
    /\ Bytes(base \ out) <= budget
    /\ out # {} => \E v \in out : Bytes(base \ out) + Size[KeyOf(v)] > budget

PutRefused(t) ==
    /\ at[t] = "put"
    /\ Size[key[t]] > maxBytes[win[t]]
    /\ UNCHANGED <<cacheVars, win, key, call, claimed, entry, value, calls>>
    /\ at' = [at EXCEPT ![t] = Stored(t)]
    /\ Forgets

\* An older entry of the key is replaced without a release; evicted ones are
\* released.  What the same put evicted again is not published.
Put(t) ==
    /\ at[t] = "put"
    /\ Size[key[t]] <= maxBytes[win[t]]
    /\ LET w == win[t]
           base == {v \in resident[w] : KeyOf(v) # key[t]} \cup {value[t]}
       IN  \E out \in SUBSET base :
               /\ Evicts(base, maxBytes[w], out)
               /\ resident' = [resident EXCEPT ![w] = base \ out]
               /\ UNCHANGED <<maxBytes, inFlight, outcome, open, win, key, call, claimed,
                              entry, value, calls>>
               /\ at' = [at EXCEPT ![t] = IF value[t] \in out THEN Stored(t) ELSE "reserve"]
               /\ Released(out, Referenced')

\* publish_stage_value, with the budget of this window's cache.
Reserve(t) ==
    /\ At(t, "reserve", "copy")
    /\ HasRoom(value[t], maxBytes[win[t]])
    /\ UNCHANGED <<cacheVars, win, key, call, claimed, entry, value, calls>>
    /\ Reserved(value[t], Referenced')

\* Over the budget, or the segment cannot be created.
ReserveRefused(t) ==
    /\ at[t] = "reserve"
    /\ UNCHANGED <<cacheVars, win, key, call, claimed, entry, value, calls>>
    /\ at' = [at EXCEPT ![t] = Stored(t)]
    /\ Forgets

\* The copy is done: whether the cache still has the value is not asked.
Register(t) ==
    /\ at[t] = "copy"
    /\ UNCHANGED <<cacheVars, win, key, call, claimed, entry, value, calls>>
    /\ at' = [at EXCEPT ![t] = Stored(t)]
    /\ Registers(value[t], Referenced')

\* The copy raises, and so does the put: the cache has the value already, and
\* those who wait for it are told of it.
CopyRaises(t) ==
    /\ at[t] = "copy"
    /\ UNCHANGED <<cacheVars, win, key, call, claimed, entry, value, calls>>
    /\ at' = [at EXCEPT ![t] = Stored(t)]
    /\ Unreserved(value[t], Referenced')

\* finish_compute takes the entry out under the lock ...
FinishPop(t) ==
    /\ At(t, "finish", "tell")
    /\ \E v \in InFlight(win[t], key[t]) :
           /\ inFlight' = [inFlight EXCEPT ![win[t]] = @ \ {v}]
           /\ entry' = [entry EXCEPT ![t] = v]
    /\ UNCHANGED <<resident, maxBytes, outcome, open, win, key, call, claimed, value, calls>>
    /\ Forgets

\* An entry nobody waits for is gone with its event.
Told(t, told) ==
    outcome' = [outcome EXCEPT ![entry[t]] =
                    IF \E u \in StageThreads : at[u] = "wait" /\ entry[u] = entry[t] THEN told ELSE @]

\* ... and sets its value and its event outside.
FinishTell(t) ==
    /\ At(t, "tell", "leave")
    /\ Told(t, IF value[t] = NoValue THEN "failed" ELSE "done")
    /\ entry' = [entry EXCEPT ![t] = NoValue]
    /\ UNCHANGED <<resident, maxBytes, inFlight, open, win, key, call, claimed, value, calls>>
    /\ Forgets

\* The tile is cut out of the value, if there is one, and the value let go.
Leave(t) ==
    /\ At(t, "leave", "out")
    /\ value' = [value EXCEPT ![t] = NoValue]
    /\ win' = [win EXCEPT ![t] = NoWindow]
    /\ key' = [key EXCEPT ![t] = NoKey]
    /\ call' = [call EXCEPT ![t] = 0]
    /\ claimed' = [claimed EXCEPT ![t] = FALSE]
    /\ UNCHANGED <<cacheVars, entry, calls>>
    /\ Forgets
-----------------------------------------------------------------------------
(* The GUI thread. *)

Resize(w, b) ==
    /\ open[w] /\ b # maxBytes[w]
    /\ maxBytes' = [maxBytes EXCEPT ![w] = b]
    /\ \E out \in SUBSET resident[w] :
           /\ Evicts(resident[w], b, out)
           /\ resident' = [resident EXCEPT ![w] = @ \ out]
           /\ UNCHANGED <<inFlight, outcome, open, threadVars>>
           /\ Released(out, Referenced')

\* A new document: claims stay, whoever computes goes on.
Clear(w) ==
    /\ MayClear
    /\ open[w] /\ resident[w] # {}
    /\ resident' = [resident EXCEPT ![w] = {}]
    /\ UNCHANGED <<maxBytes, inFlight, outcome, open, threadVars>>
    /\ Released(resident[w], Referenced')

\* The window goes, or its caches are rebuilt for another codec.
CloseWindow(w) ==
    /\ open[w]
    /\ open' = [open EXCEPT ![w] = FALSE]
    /\ UNCHANGED <<resident, maxBytes, inFlight, outcome, threadVars>>
    /\ Forgets
-----------------------------------------------------------------------------
StageStep(t) ==
    \/ Miss(t) \/ \E v \in Values : Hit(t, v) \/ Attach(t, v)
    \/ BeginCompute(t) \/ BeginRefused(t) \/ AttachGone(t) \/ Reuse(t) \/ Retry(t)
    \/ Compute(t) \/ ComputeRaises(t) \/ PutRefused(t) \/ Put(t)
    \/ Reserve(t) \/ ReserveRefused(t) \/ Register(t) \/ CopyRaises(t)
    \/ FinishPop(t) \/ FinishTell(t) \/ Leave(t)

Next ==
    \/ \E t \in StageThreads :
           \/ \E w \in Windows, k \in StageKeys : StartCall(t, w, k)
           \/ StageStep(t) \/ GiveUp(t)
    \/ \E w \in Windows : Clear(w) \/ CloseWindow(w) \/ \E b \in Budgets : Resize(w, b)

Spec == Init /\ [][Next]_vars
=============================================================================
