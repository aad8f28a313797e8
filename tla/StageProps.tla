----------------------------- MODULE StageProps -----------------------------
(* What the stage caches and the published segments promise.                 *)
EXTENDS StageCache

Places == {"out", "look", "claim", "attach", "wait", "compute", "put", "reserve", "copy",
           "finish", "tell", "leave"}
Working == {"compute", "put", "reserve", "copy", "finish"}

TypeOK ==
    /\ SegmentsTypeOK
    /\ resident \in [Windows -> SUBSET Values]
    /\ maxBytes \in [Windows -> Budgets]
    /\ inFlight \in [Windows -> SUBSET Values]
    /\ outcome \in [Values -> {"none", "failed", "done"}]
    /\ open \in [Windows -> BOOLEAN]
    /\ at \in [StageThreads -> Places]
    /\ win \in [StageThreads -> Windows \cup {NoWindow}]
    /\ key \in [StageThreads -> StageKeys \cup {NoKey}]
    /\ call \in [StageThreads -> 0..MaxCalls]
    /\ claimed \in [StageThreads -> BOOLEAN]
    /\ entry \in [StageThreads -> Values \cup {NoValue}]
    /\ value \in [StageThreads -> Values \cup {NoValue}]
    /\ calls \in 0..MaxCalls

\* "Returns True when the caller becomes the single computer for this stage"
\* (begin_compute), and finish_compute "must be called exactly once per
\* successful begin_compute": the table of claims names, once per key, exactly
\* the threads at work under a claim, through failures, time-outs and clears.
Claimants(w) == {t \in StageThreads : claimed[t] /\ at[t] \in Working /\ win[t] = w}
ClaimsAreComputers ==
    \A w \in Windows :
        /\ inFlight[w] = {Own(t) : t \in Claimants(w)}
        /\ \A t, u \in Claimants(w) : key[t] = key[u] => t = u

\* The budget of a cache holds after every insertion, recovery and resize, and
\* no key has two entries (BoundedCache.put, _evict).
CacheWithinBudget ==
    \A w \in Windows :
        /\ Bytes(resident[w]) <= maxBytes[w]
        /\ \A u, v \in resident[w] : KeyOf(u) = KeyOf(v) => u = v

\* Shared memory is owned: a segment is registered, under its key and with its
\* value alive, or being filled by the thread that made it; "a half-copied
\* segment" is never registered and none is forgotten (publish_stage_value,
\* release_stage_value, _release_dead).
SegmentsAreOwned ==
    /\ segments = Registered \cup {value[t] : t \in {u \in StageThreads : at[u] = "copy"}}
    /\ \A t \in StageThreads : at[t] = "copy" => value[t] \notin Registered
    /\ Registered \subseteq Referenced

\* What is in shared memory never exceeds the largest budget, though threads
\* check it before the copy and publish after it, and stays counted.
SegmentsWithinBudget ==
    /\ Bytes(segments) <= publishedBytes
    /\ \E b \in Budgets : publishedBytes <= b

\* Threads are scheduled and computations end; nothing is assumed of time-outs.
FairSpec == Spec /\ \A t \in StageThreads : WF_vars(StageStep(t))

\* Who looks a stage up gets out with a value or a failure, though those it
\* waits for fail or find their window closed (finish_compute in every path).
CallsEnd == \A t \in StageThreads : at[t] # "out" ~> at[t] = "out"
=============================================================================
