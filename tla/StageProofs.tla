---------------------------- MODULE StageProofs ----------------------------
(* Theorems about the stage caches, for any number of windows, threads,      *)
(* stages, calls and budgets.                                                *)
EXTENDS StageProps, FiniteSetTheorems, TLAPS

\* The type invariant but for the number of bytes, which takes counting.
Types ==
    /\ published \in [StageKeys -> Values \cup {NoValue}]
    /\ segments \in SUBSET Values
    /\ resident \in [Windows -> SUBSET Values]
    /\ maxBytes \in [Windows -> Budgets]
    /\ inFlight \in [Windows -> SUBSET Values]
    /\ outcome \in [Values -> {"none", "failed", "done"}]
    /\ open \in [Windows -> BOOLEAN]
    /\ at \in [StageThreads -> Places]
    /\ win \in [StageThreads -> Windows \cup {NoWindow}]
    /\ key \in [StageThreads -> StageKeys \cup {NoKey}]
    /\ call \in [StageThreads -> 0..MaxCalls]
    /\ claimed \in [StageThreads -> BOOLEAN]
    /\ entry \in [StageThreads -> Values \cup {NoValue}]
    /\ value \in [StageThreads -> Values \cup {NoValue}]
    /\ calls \in 0..MaxCalls

\* A thread that is in a call has a window, a key and a number.
InCall ==
    \A t \in StageThreads : at[t] # "out" =>
        win[t] \in Windows /\ key[t] \in StageKeys /\ call[t] \in 1..calls

\* ... a value, from its computation until it was published, which is its own;
\* and an entry, as long as it waits for one or tells one.
Carries ==
    \A t \in StageThreads :
        /\ at[t] \in {"put", "reserve", "copy"} => value[t] = Own(t)
        /\ at[t] \in {"wait", "tell"} => entry[t] \in Values

WellFormed == Types /\ InCall /\ Carries

\* Whatever a step releases, the registry keeps its type.
LEMMA SettleTypes ==
    ASSUME NEW table \in [StageKeys -> Values \cup {NoValue}], NEW live \in SUBSET Values,
           NEW bytes, NEW released, NEW alive, Settle(table, live, bytes, released, alive)
    PROVE  /\ published' \in [StageKeys -> Values \cup {NoValue}]
           /\ segments' \in SUBSET Values
BY DEF Settle

LEMMA ForgetsTypes ==
    ASSUME Types, NEW released, NEW alive, Released(released, alive)
    PROVE  /\ published' \in [StageKeys -> Values \cup {NoValue}]
           /\ segments' \in SUBSET Values
BY SettleTypes DEF Types, Released

LEMMA OwnType ==
    ASSUME WellFormed, NEW t \in StageThreads, at[t] # "out"
    PROVE  Own(t) \in Values /\ KeyOf(Own(t)) = key[t]
<1>1. key[t] \in StageKeys /\ call[t] \in 1..calls /\ calls \in 0..MaxCalls
  BY DEF WellFormed, InCall, Types
<1>2. call[t] \in Calls
  BY <1>1, SegmentsAssumption DEF Calls
<1> QED
  BY <1>1, <1>2 DEF Own, Values, KeyOf

\* A thread moves on in its call; what else it changes keeps its type.
LEMMA Moves ==
    ASSUME WellFormed, NEW t \in StageThreads, at[t] # "out",
           NEW there \in Places \ {"out"}, at' = [at EXCEPT ![t] = there],
           UNCHANGED <<win, key, call, calls>>,
           claimed' \in [StageThreads -> BOOLEAN],
           NEW e \in Values \cup {NoValue}, entry' = [entry EXCEPT ![t] = e],
           NEW v \in Values \cup {NoValue}, value' = [value EXCEPT ![t] = v],
           there \in {"put", "reserve", "copy"} => v = Own(t),
           there \in {"wait", "tell"} => e \in Values,
           published' \in [StageKeys -> Values \cup {NoValue}], segments' \in SUBSET Values,
           resident' \in [Windows -> SUBSET Values], maxBytes' \in [Windows -> Budgets],
           inFlight' \in [Windows -> SUBSET Values],
           outcome' \in [Values -> {"none", "failed", "done"}], open' \in [Windows -> BOOLEAN]
    PROVE  WellFormed'
<1>1. at' \in [StageThreads -> Places] /\ entry' \in [StageThreads -> Values \cup {NoValue}]
      /\ value' \in [StageThreads -> Values \cup {NoValue}]
  BY DEF WellFormed, Types
<1>2. Types'
  BY <1>1 DEF WellFormed, Types
<1>3. InCall'
  BY DEF WellFormed, Types, InCall
<1>4. ASSUME NEW u \in StageThreads
      PROVE  /\ at'[u] \in {"put", "reserve", "copy"} => value'[u] = Own(u)'
             /\ at'[u] \in {"wait", "tell"} => entry'[u] \in Values
  <2>1. Own(u)' = Own(u)
    BY DEF Own
  <2>2. CASE u = t
    BY <2>1, <2>2 DEF WellFormed, Types
  <2>3. CASE u # t
    <3>1. at'[u] = at[u] /\ value'[u] = value[u] /\ entry'[u] = entry[u]
      BY <2>3 DEF WellFormed, Types
    <3> QED
      BY <2>1, <3>1 DEF WellFormed, Carries
  <2> QED
    BY <2>2, <2>3
<1>5. Carries'
  BY <1>4 DEF Carries
<1> QED
  BY <1>2, <1>3, <1>5 DEF WellFormed

\* A step of a thread that leaves the caches alone and forgets.
LEMMA MovesOutside ==
    ASSUME WellFormed, NEW t \in StageThreads, at[t] # "out",
           NEW there \in Places \ {"out"}, at' = [at EXCEPT ![t] = there],
           UNCHANGED <<cacheVars, win, key, call, calls>>,
           claimed' \in [StageThreads -> BOOLEAN],
           NEW e \in Values \cup {NoValue}, entry' = [entry EXCEPT ![t] = e],
           NEW v \in Values \cup {NoValue}, value' = [value EXCEPT ![t] = v],
           there \in {"put", "reserve", "copy"} => v = Own(t),
           there \in {"wait", "tell"} => e \in Values,
           published' \in [StageKeys -> Values \cup {NoValue}], segments' \in SUBSET Values
    PROVE  WellFormed'
<1>1. UNCHANGED <<resident, maxBytes, inFlight, outcome, open, win, key, call, calls>>
  BY DEF cacheVars
<1>2. /\ resident' \in [Windows -> SUBSET Values] /\ maxBytes' \in [Windows -> Budgets]
      /\ inFlight' \in [Windows -> SUBSET Values]
      /\ outcome' \in [Values -> {"none", "failed", "done"}] /\ open' \in [Windows -> BOOLEAN]
  BY <1>1 DEF WellFormed, Types
<1> QED
  BY <1>1, <1>2, Moves

\* The same when its own variables stay as they are, too.
LEMMA MovesOnly ==
    ASSUME WellFormed, NEW t \in StageThreads, at[t] # "out",
           NEW there \in Places \ {"out"}, at' = [at EXCEPT ![t] = there],
           UNCHANGED <<cacheVars, win, key, call, claimed, entry, value, calls>>,
           at[t] \in {"put", "reserve", "copy"} \/ there \notin {"put", "reserve", "copy"},
           there \notin {"wait", "tell"},
           published' \in [StageKeys -> Values \cup {NoValue}], segments' \in SUBSET Values
    PROVE  WellFormed'
<1>1. /\ entry' = [entry EXCEPT ![t] = entry[t]] /\ value' = [value EXCEPT ![t] = value[t]]
      /\ entry[t] \in Values \cup {NoValue} /\ value[t] \in Values \cup {NoValue}
      /\ claimed' \in [StageThreads -> BOOLEAN]
  BY DEF WellFormed, Types
<1>2. there \in {"put", "reserve", "copy"} => value[t] = Own(t)
  BY DEF WellFormed, Carries
<1>3. UNCHANGED <<cacheVars, win, key, call, calls>>
  OBVIOUS
<1> QED
  BY <1>1, <1>2, <1>3, MovesOutside

LEMMA StepWellFormed ==
    ASSUME WellFormed, [Next]_vars
    PROVE  WellFormed'
<1>1. ASSUME NEW t \in StageThreads, NEW w \in Windows, NEW k \in StageKeys, StartCall(t, w, k)
      PROVE  WellFormed'
  <2>1. published' \in [StageKeys -> Values \cup {NoValue}] /\ segments' \in SUBSET Values
    BY <1>1, ForgetsTypes DEF WellFormed, StartCall, Forgets
  <2>2. /\ calls \in 0..MaxCalls /\ calls' = calls + 1 /\ calls' \in 1..MaxCalls
    BY <1>1, SegmentsAssumption DEF WellFormed, Types, StartCall
  <2>3. /\ win' \in [StageThreads -> Windows \cup {NoWindow}] /\ win'[t] = w
        /\ key' \in [StageThreads -> StageKeys \cup {NoKey}] /\ key'[t] = k
        /\ call' \in [StageThreads -> 0..MaxCalls] /\ call'[t] = calls'
        /\ at' \in [StageThreads -> Places] /\ at'[t] = "look"
    BY <1>1, <2>2 DEF WellFormed, Types, StartCall, At, Places
  <2>4. \A u \in StageThreads \ {t} :
           at'[u] = at[u] /\ win'[u] = win[u] /\ key'[u] = key[u] /\ call'[u] = call[u]
    BY <1>1 DEF WellFormed, Types, StartCall, At
  <2>5. Types'
    BY <1>1, <2>1, <2>2, <2>3 DEF WellFormed, Types, StartCall, cacheVars
  <2>6. InCall'
    BY <2>2, <2>3, <2>4 DEF WellFormed, InCall
  <2>7. UNCHANGED <<value, entry>>
    BY <1>1 DEF StartCall
  <2>8. Carries'
    BY <2>3, <2>4, <2>7 DEF WellFormed, Carries, Own
  <2> QED
    BY <2>5, <2>6, <2>8 DEF WellFormed
<1>2. ASSUME NEW t \in StageThreads, Miss(t) PROVE WellFormed'
  <2>1. published' \in [StageKeys -> Values \cup {NoValue}] /\ segments' \in SUBSET Values
    BY <1>2, ForgetsTypes DEF WellFormed, Miss, Forgets
  <2> QED
    BY <1>2, <2>1, MovesOnly DEF Miss, At, Places
<1>3. ASSUME NEW t \in StageThreads, BeginRefused(t) PROVE WellFormed'
  <2>1. published' \in [StageKeys -> Values \cup {NoValue}] /\ segments' \in SUBSET Values
    BY <1>3, ForgetsTypes DEF WellFormed, BeginRefused, Forgets
  <2> QED
    BY <1>3, <2>1, MovesOnly DEF BeginRefused, At, Places
<1>4. ASSUME NEW t \in StageThreads, AttachGone(t) PROVE WellFormed'
  <2>1. published' \in [StageKeys -> Values \cup {NoValue}] /\ segments' \in SUBSET Values
    BY <1>4, ForgetsTypes DEF WellFormed, AttachGone, Forgets
  <2> QED
    BY <1>4, <2>1, MovesOnly DEF AttachGone, At, Places
<1>5. ASSUME NEW t \in StageThreads, PutRefused(t) PROVE WellFormed'
  <2>1. published' \in [StageKeys -> Values \cup {NoValue}] /\ segments' \in SUBSET Values
    BY <1>5, ForgetsTypes DEF WellFormed, PutRefused, Forgets
  <2>2. Stored(t) \in {"finish", "leave"}
    BY DEF Stored
  <2> QED
    BY <1>5, <2>1, <2>2, MovesOnly DEF PutRefused, Places
<1>6. ASSUME NEW t \in StageThreads, ReserveRefused(t) PROVE WellFormed'
  <2>1. published' \in [StageKeys -> Values \cup {NoValue}] /\ segments' \in SUBSET Values
    BY <1>6, ForgetsTypes DEF WellFormed, ReserveRefused, Forgets
  <2>2. Stored(t) \in {"finish", "leave"}
    BY DEF Stored
  <2> QED
    BY <1>6, <2>1, <2>2, MovesOnly DEF ReserveRefused, Places
<1>7. ASSUME NEW t \in StageThreads, Reserve(t) PROVE WellFormed'
  <2>1. value[t] \in Values
    BY <1>7, OwnType DEF Reserve, At, WellFormed, Carries
  <2>2. published' \in [StageKeys -> Values \cup {NoValue}] /\ segments' \in SUBSET Values
    <3>1. published \in [StageKeys -> Values \cup {NoValue}] /\ segments \cup {value[t]} \in SUBSET Values
      BY <2>1 DEF WellFormed, Types
    <3> QED
      BY <1>7, <3>1, SettleTypes DEF Reserve, Reserved
  <2> QED
    BY <1>7, <2>2, MovesOnly DEF Reserve, At, Places
<1>8. ASSUME NEW t \in StageThreads, Register(t) PROVE WellFormed'
  <2>1. value[t] \in Values
    BY <1>8, OwnType DEF Register, WellFormed, Carries
  <2>2. published' \in [StageKeys -> Values \cup {NoValue}] /\ segments' \in SUBSET Values
    <3>1. /\ [published EXCEPT ![KeyOf(value[t])] = value[t]] \in [StageKeys -> Values \cup {NoValue}]
          /\ segments \ {published[KeyOf(value[t])]} \in SUBSET Values
      BY <2>1 DEF WellFormed, Types
    <3> QED
      BY <1>8, <3>1, SettleTypes DEF Register, Registers
  <2>3. Stored(t) \in {"finish", "leave"}
    BY DEF Stored
  <2> QED
    BY <1>8, <2>2, <2>3, MovesOnly DEF Register, Places
<1>8a. ASSUME NEW t \in StageThreads, CopyRaises(t) PROVE WellFormed'
  <2>1. published' \in [StageKeys -> Values \cup {NoValue}] /\ segments' \in SUBSET Values
    <3>1. published \in [StageKeys -> Values \cup {NoValue}] /\ segments \ {value[t]} \in SUBSET Values
      BY DEF WellFormed, Types
    <3> QED
      BY <1>8a, <3>1, SettleTypes DEF CopyRaises, Unreserved
  <2>2. Stored(t) \in {"finish", "leave"}
    BY DEF Stored
  <2> QED
    BY <1>8a, <2>1, <2>2, MovesOnly DEF CopyRaises, Places
<1>9. ASSUME NEW t \in StageThreads, NEW v \in Values, Hit(t, v) PROVE WellFormed'
  <2>1. published' \in [StageKeys -> Values \cup {NoValue}] /\ segments' \in SUBSET Values
    BY <1>9, ForgetsTypes DEF WellFormed, Hit, Forgets
  <2>2. /\ entry' = [entry EXCEPT ![t] = entry[t]] /\ value' = [value EXCEPT ![t] = v]
        /\ entry[t] \in Values \cup {NoValue} /\ v \in Values \cup {NoValue}
        /\ claimed' \in [StageThreads -> BOOLEAN]
    BY <1>9 DEF WellFormed, Types, Hit, At, Hits, InFlight, Carries
  <2>3. /\ at[t] # "out" /\ at' = [at EXCEPT ![t] = "leave"] /\ "leave" \in Places \ {"out"}
        /\ UNCHANGED <<cacheVars, win, key, call, calls>>
    BY <1>9 DEF Hit, At, Places
  <2> QED
    BY <2>1, <2>2, <2>3, MovesOutside
<1>10. ASSUME NEW t \in StageThreads, NEW v \in Values, Attach(t, v) PROVE WellFormed'
  <2>1. published' \in [StageKeys -> Values \cup {NoValue}] /\ segments' \in SUBSET Values
    BY <1>10, ForgetsTypes DEF WellFormed, Attach, Forgets
  <2>2. /\ entry' = [entry EXCEPT ![t] = v] /\ value' = [value EXCEPT ![t] = value[t]]
        /\ v \in Values \cup {NoValue} /\ value[t] \in Values \cup {NoValue}
        /\ claimed' \in [StageThreads -> BOOLEAN]
    BY <1>10 DEF WellFormed, Types, Attach, At, Hits, InFlight, Carries
  <2>3. /\ at[t] # "out" /\ at' = [at EXCEPT ![t] = "wait"] /\ "wait" \in Places \ {"out"}
        /\ UNCHANGED <<cacheVars, win, key, call, calls>>
    BY <1>10 DEF Attach, At, Places
  <2> QED
    BY <2>1, <2>2, <2>3, MovesOutside
<1>11. ASSUME NEW t \in StageThreads, Reuse(t) PROVE WellFormed'
  <2>1. published' \in [StageKeys -> Values \cup {NoValue}] /\ segments' \in SUBSET Values
    BY <1>11, ForgetsTypes DEF WellFormed, Reuse, Forgets
  <2>2. /\ entry' = [entry EXCEPT ![t] = NoValue] /\ value' = [value EXCEPT ![t] = entry[t]]
        /\ NoValue \in Values \cup {NoValue} /\ entry[t] \in Values \cup {NoValue}
        /\ claimed' \in [StageThreads -> BOOLEAN]
    BY <1>11 DEF WellFormed, Types, Reuse, At, Hits, InFlight, Carries
  <2>3. /\ at[t] # "out" /\ at' = [at EXCEPT ![t] = "leave"] /\ "leave" \in Places \ {"out"}
        /\ UNCHANGED <<cacheVars, win, key, call, calls>>
    BY <1>11 DEF Reuse, At, Places
  <2> QED
    BY <2>1, <2>2, <2>3, MovesOutside
<1>12. ASSUME NEW t \in StageThreads, Retry(t) PROVE WellFormed'
  <2>1. published' \in [StageKeys -> Values \cup {NoValue}] /\ segments' \in SUBSET Values
    BY <1>12, ForgetsTypes DEF WellFormed, Retry, Forgets
  <2>2. /\ entry' = [entry EXCEPT ![t] = NoValue] /\ value' = [value EXCEPT ![t] = value[t]]
        /\ NoValue \in Values \cup {NoValue} /\ value[t] \in Values \cup {NoValue}
        /\ claimed' \in [StageThreads -> BOOLEAN]
    BY <1>12 DEF WellFormed, Types, Retry, At, Hits, InFlight, Carries
  <2>3. /\ at[t] # "out" /\ at' = [at EXCEPT ![t] = "look"] /\ "look" \in Places \ {"out"}
        /\ UNCHANGED <<cacheVars, win, key, call, calls>>
    BY <1>12 DEF Retry, At, Places
  <2> QED
    BY <2>1, <2>2, <2>3, MovesOutside
<1>13. ASSUME NEW t \in StageThreads, Compute(t) PROVE WellFormed'
  <2>1. published' \in [StageKeys -> Values \cup {NoValue}] /\ segments' \in SUBSET Values
    BY <1>13, ForgetsTypes DEF WellFormed, Compute, Forgets
  <2>2. /\ entry' = [entry EXCEPT ![t] = entry[t]] /\ value' = [value EXCEPT ![t] = Own(t)]
        /\ entry[t] \in Values \cup {NoValue} /\ Own(t) \in Values \cup {NoValue}
        /\ claimed' \in [StageThreads -> BOOLEAN]
    BY <1>13, OwnType DEF WellFormed, Types, Compute, At, Hits, InFlight, Carries
  <2> QED
    BY <1>13, <2>1, <2>2, OwnType, MovesOutside DEF Compute, At, Places
<1>14. ASSUME NEW t \in StageThreads, GiveUp(t) PROVE WellFormed'
  <2>1. published' \in [StageKeys -> Values \cup {NoValue}] /\ segments' \in SUBSET Values
    BY <1>14, ForgetsTypes DEF WellFormed, GiveUp, Forgets
  <2>2. /\ value' = [value EXCEPT ![t] = value[t]] /\ value[t] \in Values \cup {NoValue}
        /\ claimed' \in [StageThreads -> BOOLEAN]
    BY <1>14 DEF WellFormed, Types, GiveUp
  <2>3. ASSUME NEW there \in {"compute", "leave"}, At(t, "wait", there) PROVE WellFormed'
    BY <1>14, <2>1, <2>2, <2>3, MovesOutside DEF GiveUp, At, Places
  <2> QED
    BY <1>14, <2>3 DEF GiveUp
<1>15. ASSUME NEW t \in StageThreads, ComputeRaises(t) PROVE WellFormed'
  <2>1. published' \in [StageKeys -> Values \cup {NoValue}] /\ segments' \in SUBSET Values
    BY <1>15, ForgetsTypes DEF WellFormed, ComputeRaises, Forgets
  <2>2. PICK v \in Values \cup {NoValue} : value' = [value EXCEPT ![t] = v]
    <3>1. value = [value EXCEPT ![t] = value[t]] /\ value[t] \in Values \cup {NoValue}
      BY DEF WellFormed, Types
    <3> QED
      BY <1>15, <3>1, OwnType DEF ComputeRaises
  <2>3. /\ entry' = [entry EXCEPT ![t] = entry[t]] /\ entry[t] \in Values \cup {NoValue}
        /\ claimed' \in [StageThreads -> BOOLEAN]
    BY <1>15 DEF WellFormed, Types, ComputeRaises
  <2>4. Stored(t) \in {"finish", "leave"}
    BY DEF Stored
  <2> QED
    BY <1>15, <2>1, <2>2, <2>3, <2>4, MovesOutside DEF ComputeRaises, Places
<1>16. ASSUME NEW t \in StageThreads, BeginCompute(t) PROVE WellFormed'
  <2>1. published' \in [StageKeys -> Values \cup {NoValue}] /\ segments' \in SUBSET Values
    BY <1>16, ForgetsTypes DEF WellFormed, BeginCompute, Forgets
  <2>2. /\ at[t] # "out" /\ at' = [at EXCEPT ![t] = "compute"] /\ "compute" \in Places \ {"out"}
        /\ UNCHANGED <<resident, maxBytes, outcome, open, win, key, call, entry, value, calls>>
    BY <1>16 DEF BeginCompute, At, Places
  <2>3. /\ entry' = [entry EXCEPT ![t] = entry[t]] /\ value' = [value EXCEPT ![t] = value[t]]
        /\ entry[t] \in Values \cup {NoValue} /\ value[t] \in Values \cup {NoValue}
        /\ claimed' \in [StageThreads -> BOOLEAN]
    BY <1>16 DEF WellFormed, Types, BeginCompute
  <2>4. inFlight' \in [Windows -> SUBSET Values]
    BY <1>16, <2>2, OwnType DEF WellFormed, Types, BeginCompute
  <2>5. /\ resident' \in [Windows -> SUBSET Values] /\ maxBytes' \in [Windows -> Budgets]
        /\ outcome' \in [Values -> {"none", "failed", "done"}] /\ open' \in [Windows -> BOOLEAN]
    BY <2>2 DEF WellFormed, Types
  <2>7. /\ at[t] # "out" /\ at' = [at EXCEPT ![t] = "compute"] /\ "compute" \in Places \ {"out"}
        /\ UNCHANGED <<win, key, call, calls>> /\ "compute" \notin {"put", "reserve", "copy"}
    BY <2>2
  <2> QED
    BY <2>1, <2>3, <2>4, <2>5, <2>7, Moves
<1>17. ASSUME NEW t \in StageThreads, Put(t) PROVE WellFormed'
  <2>1. published' \in [StageKeys -> Values \cup {NoValue}] /\ segments' \in SUBSET Values
    BY <1>17, ForgetsTypes DEF WellFormed, Put
  <2>2. PICK there \in {"finish", "leave", "reserve"} : at' = [at EXCEPT ![t] = there]
    BY <1>17 DEF Put, Stored
  <2>3. /\ at[t] # "out" /\ there \in Places \ {"out"}
        /\ UNCHANGED <<maxBytes, inFlight, outcome, open, win, key, call, claimed, entry, value, calls>>
    BY <1>17, <2>2 DEF Put, Places
  <2>4. /\ entry' = [entry EXCEPT ![t] = entry[t]] /\ value' = [value EXCEPT ![t] = value[t]]
        /\ entry[t] \in Values \cup {NoValue} /\ value[t] \in Values \cup {NoValue}
        /\ claimed' \in [StageThreads -> BOOLEAN]
    BY <2>3 DEF WellFormed, Types
  <2>5. value[t] = Own(t) /\ Own(t) \in Values /\ win[t] \in Windows
    BY <1>17, <2>3, OwnType DEF Put, WellFormed, Carries, InCall
  <2>6. resident' \in [Windows -> SUBSET Values]
    BY <1>17, <2>5 DEF WellFormed, Types, Put
  <2>7. /\ maxBytes' \in [Windows -> Budgets] /\ inFlight' \in [Windows -> SUBSET Values]
        /\ outcome' \in [Values -> {"none", "failed", "done"}] /\ open' \in [Windows -> BOOLEAN]
    BY <2>3 DEF WellFormed, Types
  <2> QED
    BY <2>1, <2>2, <2>3, <2>4, <2>5, <2>6, <2>7, Moves
<1>18. ASSUME NEW t \in StageThreads, FinishPop(t) PROVE WellFormed'
  <2>1. published' \in [StageKeys -> Values \cup {NoValue}] /\ segments' \in SUBSET Values
    BY <1>18, ForgetsTypes DEF WellFormed, FinishPop, Forgets
  <2>2. /\ at[t] # "out" /\ at' = [at EXCEPT ![t] = "tell"] /\ "tell" \in Places \ {"out"}
        /\ UNCHANGED <<resident, maxBytes, outcome, open, win, key, call, claimed, value, calls>>
    BY <1>18 DEF FinishPop, At, Places
  <2>3. PICK v \in InFlight(win[t], key[t]) :
            /\ inFlight' = [inFlight EXCEPT ![win[t]] = @ \ {v}]
            /\ entry' = [entry EXCEPT ![t] = v]
    BY <1>18 DEF FinishPop
  <2>4. v \in Values /\ inFlight' \in [Windows -> SUBSET Values]
    BY <2>2, <2>3 DEF WellFormed, Types, InFlight, InCall
  <2>5. /\ value' = [value EXCEPT ![t] = value[t]] /\ value[t] \in Values \cup {NoValue}
        /\ claimed' \in [StageThreads -> BOOLEAN] /\ v \in Values \cup {NoValue}
    BY <2>2, <2>4 DEF WellFormed, Types
  <2>6. /\ resident' \in [Windows -> SUBSET Values] /\ maxBytes' \in [Windows -> Budgets]
        /\ outcome' \in [Values -> {"none", "failed", "done"}] /\ open' \in [Windows -> BOOLEAN]
    BY <2>2 DEF WellFormed, Types
  <2>7. UNCHANGED <<win, key, call, calls>> /\ "tell" \notin {"put", "reserve", "copy"}
    BY <2>2
  <2> QED
    BY <2>1, <2>2, <2>3, <2>4, <2>5, <2>6, <2>7, Moves
<1>19. ASSUME NEW t \in StageThreads, FinishTell(t) PROVE WellFormed'
  <2>1. published' \in [StageKeys -> Values \cup {NoValue}] /\ segments' \in SUBSET Values
    BY <1>19, ForgetsTypes DEF WellFormed, FinishTell, Forgets
  <2>2. /\ at[t] # "out" /\ at' = [at EXCEPT ![t] = "leave"] /\ "leave" \in Places \ {"out"}
        /\ UNCHANGED <<resident, maxBytes, inFlight, open, win, key, call, claimed, value, calls>>
        /\ entry' = [entry EXCEPT ![t] = NoValue]
    BY <1>19 DEF FinishTell, At, Places
  <2>3. outcome' \in [Values -> {"none", "failed", "done"}]
    BY <1>19 DEF WellFormed, Types, FinishTell, Told
  <2>4. /\ value' = [value EXCEPT ![t] = value[t]] /\ value[t] \in Values \cup {NoValue}
        /\ claimed' \in [StageThreads -> BOOLEAN] /\ NoValue \in Values \cup {NoValue}
    BY <2>2 DEF WellFormed, Types
  <2>5. /\ resident' \in [Windows -> SUBSET Values] /\ maxBytes' \in [Windows -> Budgets]
        /\ inFlight' \in [Windows -> SUBSET Values] /\ open' \in [Windows -> BOOLEAN]
    BY <2>2 DEF WellFormed, Types
  <2>7. /\ at[t] # "out" /\ at' = [at EXCEPT ![t] = "leave"] /\ "leave" \in Places \ {"out"}
        /\ UNCHANGED <<win, key, call, calls>> /\ "leave" \notin {"put", "reserve", "copy"}
        /\ entry' = [entry EXCEPT ![t] = NoValue]
    BY <2>2
  <2> QED
    BY <2>1, <2>3, <2>4, <2>5, <2>7, Moves
<1>20. ASSUME NEW t \in StageThreads, Leave(t) PROVE WellFormed'
  <2>1. published' \in [StageKeys -> Values \cup {NoValue}] /\ segments' \in SUBSET Values
    BY <1>20, ForgetsTypes DEF WellFormed, Leave, Forgets
  <2>2. Types'
    BY <1>20, <2>1, SegmentsAssumption DEF WellFormed, Types, Leave, At, Places, cacheVars
  <2>3. /\ at'[t] = "out"
        /\ \A u \in StageThreads \ {t} :
               /\ at'[u] = at[u] /\ win'[u] = win[u] /\ key'[u] = key[u] /\ call'[u] = call[u]
               /\ value'[u] = value[u] /\ entry'[u] = entry[u]
        /\ calls' = calls
    BY <1>20 DEF WellFormed, Types, Leave, At
  <2>4. InCall' /\ Carries'
    BY <2>3 DEF WellFormed, InCall, Carries, Own
  <2> QED
    BY <2>2, <2>4 DEF WellFormed
<1>21. ASSUME NEW w \in Windows,
              Clear(w) \/ CloseWindow(w) \/ \E b \in Budgets : Resize(w, b)
       PROVE  WellFormed'
  <2>1. published' \in [StageKeys -> Values \cup {NoValue}] /\ segments' \in SUBSET Values
    BY <1>21, ForgetsTypes DEF WellFormed, Clear, CloseWindow, Resize, Forgets
  <2>2. UNCHANGED threadVars /\ UNCHANGED <<inFlight, outcome>>
    BY <1>21 DEF Clear, CloseWindow, Resize
  <2>3. /\ resident' \in [Windows -> SUBSET Values] /\ maxBytes' \in [Windows -> Budgets]
        /\ open' \in [Windows -> BOOLEAN]
    <3>1. CASE Clear(w)
      BY <3>1 DEF WellFormed, Types, Clear
    <3>2. CASE CloseWindow(w)
      BY <3>2 DEF WellFormed, Types, CloseWindow
    <3>3. ASSUME NEW b \in Budgets, Resize(w, b)
          PROVE  /\ resident' \in [Windows -> SUBSET Values] /\ maxBytes' \in [Windows -> Budgets]
                 /\ open' \in [Windows -> BOOLEAN]
      BY <3>3 DEF WellFormed, Types, Resize
    <3> QED
      BY <1>21, <3>1, <3>2, <3>3
  <2> QED
    BY <2>1, <2>2, <2>3 DEF WellFormed, Types, InCall, Carries, Own, threadVars
<1>22. CASE UNCHANGED vars
  BY <1>22 DEF vars, WellFormed, Types, InCall, Carries, Own
<1> QED
  BY <1>1, <1>2, <1>3, <1>4, <1>5, <1>6, <1>7, <1>8, <1>8a, <1>9, <1>10, <1>11, <1>12, <1>13, <1>14,
     <1>15, <1>16, <1>17, <1>18, <1>19, <1>20, <1>21, <1>22 DEF Next, StageStep

LEMMA InitWellFormed == Init => WellFormed
BY SegmentsAssumption, StageAssumption
   DEF Init, SegmentsInit, WellFormed, Types, InCall, Carries, Places

LEMMA AlwaysWellFormed == Spec => []WellFormed
BY InitWellFormed, StepWellFormed, PTL DEF Spec
-----------------------------------------------------------------------------
(* The budget of a cache. *)

LEMMA NoBytes == Bytes({}) = 0
<1>1. Pages({}) = {}
  BY DEF Pages
<1> QED
  BY <1>1, FS_EmptySet DEF Bytes

LEMMA StepCache ==
    ASSUME WellFormed, CacheWithinBudget, [Next]_vars
    PROVE  CacheWithinBudget'
<1> DEFINE Kept(w, R, b) == Bytes(R) <= b /\ \A u, v \in R : KeyOf(u) = KeyOf(v) => u = v
<1>1. /\ resident \in [Windows -> SUBSET Values] /\ maxBytes \in [Windows -> Budgets]
      /\ \A w \in Windows : Kept(w, resident[w], maxBytes[w])
  BY DEF WellFormed, Types, CacheWithinBudget
<1>2. CASE UNCHANGED <<resident, maxBytes>>
  BY <1>2 DEF CacheWithinBudget
<1>3. ASSUME NEW t \in StageThreads, Put(t) PROVE CacheWithinBudget'
  <2>1. /\ win[t] \in Windows /\ value[t] \in Values /\ KeyOf(value[t]) = key[t]
    BY <1>3, OwnType DEF Put, WellFormed, InCall, Carries
  <2> DEFINE base == {v \in resident[win[t]] : KeyOf(v) # key[t]} \cup {value[t]}
  <2>2. PICK out \in SUBSET base :
            /\ Evicts(base, maxBytes[win[t]], out)
            /\ resident' = [resident EXCEPT ![win[t]] = base \ out]
            /\ maxBytes' = maxBytes
    BY <1>3 DEF Put
  <2>3. Bytes(base \ out) <= maxBytes[win[t]]
    BY <2>2 DEF Evicts
  <2>4. \A u, v \in base \ out : KeyOf(u) = KeyOf(v) => u = v
    BY <1>1, <2>1
  <2>5. Kept(win[t], base \ out, maxBytes[win[t]])
    BY <2>3, <2>4
  <2> HIDE DEF base, Kept
  <2>6. \A w \in Windows : Kept(w, resident'[w], maxBytes'[w])
    <3> SUFFICES ASSUME NEW w \in Windows PROVE Kept(w, resident'[w], maxBytes'[w])
      OBVIOUS
    <3>1. CASE w = win[t]
      BY <1>1, <2>1, <2>2, <2>5, <3>1
    <3>2. CASE w # win[t]
      BY <1>1, <2>2, <3>2
    <3> QED
      BY <3>1, <3>2
  <2> QED
    BY <2>6 DEF CacheWithinBudget, Kept
<1>4. ASSUME NEW w \in Windows, NEW b \in Budgets, Resize(w, b) PROVE CacheWithinBudget'
  <2>1. PICK out \in SUBSET resident[w] :
            Evicts(resident[w], b, out) /\ resident' = [resident EXCEPT ![w] = resident[w] \ out]
    BY <1>4 DEF Resize
  <2>2. maxBytes' = [maxBytes EXCEPT ![w] = b]
    BY <1>4 DEF Resize
  <2>3. Kept(w, resident[w] \ out, b)
    BY <1>1, <2>1 DEF Evicts
  <2> HIDE DEF Kept
  <2>4. \A x \in Windows : Kept(x, resident'[x], maxBytes'[x])
    <3> SUFFICES ASSUME NEW x \in Windows PROVE Kept(x, resident'[x], maxBytes'[x])
      OBVIOUS
    <3>1. CASE x = w
      BY <1>1, <2>1, <2>2, <2>3, <3>1
    <3>2. CASE x # w
      BY <1>1, <2>1, <2>2, <3>2
    <3> QED
      BY <3>1, <3>2
  <2> QED
    BY <2>4 DEF CacheWithinBudget, Kept
<1>5. ASSUME NEW w \in Windows, Clear(w) PROVE CacheWithinBudget'
  <2>1. resident' = [resident EXCEPT ![w] = {}] /\ maxBytes' = maxBytes
    BY <1>5 DEF Clear
  <2>2. maxBytes[w] \in Nat
    BY <1>1, StageAssumption
  <2>3. Kept(w, {}, maxBytes[w])
    BY <2>2, NoBytes
  <2> HIDE DEF Kept
  <2>4. \A x \in Windows : Kept(x, resident'[x], maxBytes'[x])
    <3> SUFFICES ASSUME NEW x \in Windows PROVE Kept(x, resident'[x], maxBytes'[x])
      OBVIOUS
    <3>1. CASE x = w
      BY <1>1, <2>1, <2>3, <3>1
    <3>2. CASE x # w
      BY <1>1, <2>1, <3>2
    <3> QED
      BY <3>1, <3>2
  <2> QED
    BY <2>4 DEF CacheWithinBudget, Kept
<1>6. ASSUME NEW t \in StageThreads, StageStep(t)
      PROVE  Put(t) \/ UNCHANGED <<resident, maxBytes>>
  BY <1>6 DEF StageStep, Miss, Hit, Attach, BeginCompute, BeginRefused, AttachGone, Reuse, Retry,
     Compute, ComputeRaises, PutRefused, Reserve, ReserveRefused, Register, CopyRaises, FinishPop,
     FinishTell, Leave, cacheVars
<1>7. ASSUME NEW t \in StageThreads, NEW w \in Windows, NEW k \in StageKeys, StartCall(t, w, k)
      PROVE  UNCHANGED <<resident, maxBytes>>
  BY <1>7 DEF StartCall, cacheVars
<1>8. ASSUME NEW t \in StageThreads, GiveUp(t) PROVE UNCHANGED <<resident, maxBytes>>
  BY <1>8 DEF GiveUp, cacheVars
<1>9. ASSUME NEW w \in Windows, CloseWindow(w) PROVE UNCHANGED <<resident, maxBytes>>
  BY <1>9 DEF CloseWindow
<1>10. CASE UNCHANGED vars
  BY <1>2, <1>10 DEF vars
<1> QED
  BY <1>2, <1>3, <1>4, <1>5, <1>6, <1>7, <1>8, <1>9, <1>10 DEF Next

\* A cache keeps to its budget and has one entry for a key, whatever is put,
\* cleared or resized by whom (BoundedCache.put, _evict, StageCache.resize).
THEOREM CacheHolds == Spec => []CacheWithinBudget
<1>1. Init => CacheWithinBudget
  BY NoBytes, StageAssumption DEF Init, CacheWithinBudget
<1> QED
  BY <1>1, AlwaysWellFormed, StepCache, PTL DEF Spec
-----------------------------------------------------------------------------
(* Claims. *)

\* A claim is made in begin_compute and kept until finish_compute, which only
\* a claimant comes to; the variable goes with the call.
ClaimsInv ==
    /\ ClaimsAreComputers
    /\ \A t \in StageThreads :
        /\ claimed[t] => at[t] \in Working \cup {"tell", "leave"}
        /\ at[t] = "finish" => claimed[t]

\* The claimants and what they compute stay the same.
LEMMA ClaimsStill ==
    ASSUME WellFormed, ClaimsInv, UNCHANGED <<inFlight, claimed>>,
           \A u \in StageThreads :
               /\ claimed[u] => /\ at'[u] \in Working <=> at[u] \in Working
                               /\ at'[u] \in Working \cup {"tell", "leave"}
                               /\ win'[u] = win[u] /\ key'[u] = key[u] /\ call'[u] = call[u]
               /\ at'[u] = "finish" => claimed[u]
    PROVE  ClaimsInv'
<1>1. \A w \in Windows : Claimants(w)' = Claimants(w)
  BY DEF Claimants
<1>2. \A w \in Windows : \A u \in Claimants(w) : Own(u)' = Own(u) /\ key'[u] = key[u]
  BY DEF Claimants, Own
<1>3. ClaimsAreComputers'
  <2> SUFFICES ASSUME NEW w \in Windows
               PROVE  /\ inFlight'[w] = {Own(t)' : t \in Claimants(w)'}
                      /\ \A t, u \in Claimants(w)' : key'[t] = key'[u] => t = u
    BY DEF ClaimsAreComputers
  <2>1. /\ inFlight[w] = {Own(t) : t \in Claimants(w)}
        /\ \A t, u \in Claimants(w) : key[t] = key[u] => t = u
    BY DEF ClaimsInv, ClaimsAreComputers
  <2>2. {Own(t)' : t \in Claimants(w)'} = {Own(t) : t \in Claimants(w)}
    BY <1>1, <1>2
  <2> QED
    BY <1>1, <1>2, <2>1, <2>2
<1> QED
  BY <1>3 DEF ClaimsInv

\* One thread goes from here to there and its claim with it.
LEMMA ClaimMoves ==
    ASSUME WellFormed, ClaimsInv, NEW t \in StageThreads,
           NEW there, at' = [at EXCEPT ![t] = there],
           UNCHANGED <<inFlight, claimed, win, key, call>>,
           claimed[t] => /\ there \in Working <=> at[t] \in Working
                         /\ there \in Working \cup {"tell", "leave"},
           there = "finish" => claimed[t]
    PROVE  ClaimsInv'
<1>1. \A u \in StageThreads : at'[u] = IF u = t THEN there ELSE at[u]
  BY DEF WellFormed, Types
<1>2. ASSUME NEW u \in StageThreads
      PROVE  /\ claimed[u] => /\ at'[u] \in Working <=> at[u] \in Working
                              /\ at'[u] \in Working \cup {"tell", "leave"}
                              /\ win'[u] = win[u] /\ key'[u] = key[u] /\ call'[u] = call[u]
             /\ at'[u] = "finish" => claimed[u]
  BY <1>1 DEF ClaimsInv
<1>3. UNCHANGED <<inFlight, claimed>>
  OBVIOUS
<1> QED
  BY <1>2, <1>3, ClaimsStill

LEMMA StoredIsClaimed ==
    ASSUME WellFormed, ClaimsInv, NEW t \in StageThreads, at[t] \in Working
    PROVE  /\ claimed[t] => /\ Stored(t) \in Working <=> at[t] \in Working
                            /\ Stored(t) \in Working \cup {"tell", "leave"}
           /\ Stored(t) = "finish" => claimed[t]
BY DEF Stored, Working

LEMMA StepClaims ==
    ASSUME WellFormed, ClaimsInv, [Next]_vars
    PROVE  ClaimsInv'
<1>1. ASSUME NEW t \in StageThreads, NEW w \in Windows, NEW k \in StageKeys, StartCall(t, w, k)
      PROVE  ClaimsInv'
  <2>1. ~claimed[t]
    BY <1>1 DEF ClaimsInv, StartCall, At, Working
  <2>2. \A u \in StageThreads : u # t =>
           at'[u] = at[u] /\ win'[u] = win[u] /\ key'[u] = key[u] /\ call'[u] = call[u]
    BY <1>1 DEF StartCall, At, WellFormed, Types
  <2>3. at'[t] = "look" /\ UNCHANGED <<inFlight, claimed>>
    BY <1>1 DEF StartCall, At, WellFormed, Types, cacheVars
  <2>4. ASSUME NEW u \in StageThreads
        PROVE  /\ claimed[u] => /\ at'[u] \in Working <=> at[u] \in Working
                                /\ at'[u] \in Working \cup {"tell", "leave"}
                                /\ win'[u] = win[u] /\ key'[u] = key[u] /\ call'[u] = call[u]
               /\ at'[u] = "finish" => claimed[u]
    BY <2>1, <2>2, <2>3 DEF ClaimsInv
  <2> QED
    BY <2>3, <2>4, ClaimsStill
<1>2. ASSUME NEW t \in StageThreads, NEW v \in Values, Hit(t, v) PROVE ClaimsInv'
  <2>1. /\ at' = [at EXCEPT ![t] = "leave"] /\ UNCHANGED <<inFlight, claimed, win, key, call>>
    BY <1>2 DEF Hit, At, cacheVars
  <2>2. /\ claimed[t] => /\ "leave" \in Working <=> at[t] \in Working
                         /\ "leave" \in Working \cup {"tell", "leave"}
        /\ "leave" = "finish" => claimed[t]
    BY <1>2 DEF Hit, At, ClaimsInv, Working
  <2> QED
    BY <2>1, <2>2, ClaimMoves
<1>3. ASSUME NEW t \in StageThreads, NEW v \in Values, Attach(t, v) PROVE ClaimsInv'
  <2>1. /\ at' = [at EXCEPT ![t] = "wait"] /\ UNCHANGED <<inFlight, claimed, win, key, call>>
    BY <1>3 DEF Attach, At, cacheVars
  <2>2. /\ claimed[t] => /\ "wait" \in Working <=> at[t] \in Working
                         /\ "wait" \in Working \cup {"tell", "leave"}
        /\ "wait" = "finish" => claimed[t]
    BY <1>3 DEF Attach, At, ClaimsInv, Working
  <2> QED
    BY <2>1, <2>2, ClaimMoves
<1>4. ASSUME NEW t \in StageThreads, Miss(t) PROVE ClaimsInv'
  <2>1. /\ at' = [at EXCEPT ![t] = "claim"] /\ UNCHANGED <<inFlight, claimed, win, key, call>>
    BY <1>4 DEF Miss, At, cacheVars
  <2>2. /\ claimed[t] => /\ "claim" \in Working <=> at[t] \in Working
                         /\ "claim" \in Working \cup {"tell", "leave"}
        /\ "claim" = "finish" => claimed[t]
    BY <1>4 DEF Miss, At, ClaimsInv, Working
  <2> QED
    BY <2>1, <2>2, ClaimMoves
<1>5. ASSUME NEW t \in StageThreads, BeginRefused(t) PROVE ClaimsInv'
  <2>1. /\ at' = [at EXCEPT ![t] = "attach"] /\ UNCHANGED <<inFlight, claimed, win, key, call>>
    BY <1>5 DEF BeginRefused, At, cacheVars
  <2>2. /\ claimed[t] => /\ "attach" \in Working <=> at[t] \in Working
                         /\ "attach" \in Working \cup {"tell", "leave"}
        /\ "attach" = "finish" => claimed[t]
    BY <1>5 DEF BeginRefused, At, ClaimsInv, Working
  <2> QED
    BY <2>1, <2>2, ClaimMoves
<1>6. ASSUME NEW t \in StageThreads, AttachGone(t) PROVE ClaimsInv'
  <2>1. /\ at' = [at EXCEPT ![t] = "look"] /\ UNCHANGED <<inFlight, claimed, win, key, call>>
    BY <1>6 DEF AttachGone, At, cacheVars
  <2>2. /\ claimed[t] => /\ "look" \in Working <=> at[t] \in Working
                         /\ "look" \in Working \cup {"tell", "leave"}
        /\ "look" = "finish" => claimed[t]
    BY <1>6 DEF AttachGone, At, ClaimsInv, Working
  <2> QED
    BY <2>1, <2>2, ClaimMoves
<1>7. ASSUME NEW t \in StageThreads, Reuse(t) PROVE ClaimsInv'
  <2>1. /\ at' = [at EXCEPT ![t] = "leave"] /\ UNCHANGED <<inFlight, claimed, win, key, call>>
    BY <1>7 DEF Reuse, At, cacheVars
  <2>2. /\ claimed[t] => /\ "leave" \in Working <=> at[t] \in Working
                         /\ "leave" \in Working \cup {"tell", "leave"}
        /\ "leave" = "finish" => claimed[t]
    BY <1>7 DEF Reuse, At, ClaimsInv, Working
  <2> QED
    BY <2>1, <2>2, ClaimMoves
<1>8. ASSUME NEW t \in StageThreads, Retry(t) PROVE ClaimsInv'
  <2>1. /\ at' = [at EXCEPT ![t] = "look"] /\ UNCHANGED <<inFlight, claimed, win, key, call>>
    BY <1>8 DEF Retry, At, cacheVars
  <2>2. /\ claimed[t] => /\ "look" \in Working <=> at[t] \in Working
                         /\ "look" \in Working \cup {"tell", "leave"}
        /\ "look" = "finish" => claimed[t]
    BY <1>8 DEF Retry, At, ClaimsInv, Working
  <2> QED
    BY <2>1, <2>2, ClaimMoves
<1>9. ASSUME NEW t \in StageThreads, Compute(t) PROVE ClaimsInv'
  <2>1. /\ at' = [at EXCEPT ![t] = "put"] /\ UNCHANGED <<inFlight, claimed, win, key, call>>
    BY <1>9 DEF Compute, At, cacheVars
  <2>2. /\ claimed[t] => /\ "put" \in Working <=> at[t] \in Working
                         /\ "put" \in Working \cup {"tell", "leave"}
        /\ "put" = "finish" => claimed[t]
    BY <1>9 DEF Compute, At, ClaimsInv, Working
  <2> QED
    BY <2>1, <2>2, ClaimMoves
<1>10. ASSUME NEW t \in StageThreads, Reserve(t) PROVE ClaimsInv'
  <2>1. /\ at' = [at EXCEPT ![t] = "copy"] /\ UNCHANGED <<inFlight, claimed, win, key, call>>
    BY <1>10 DEF Reserve, At, cacheVars
  <2>2. /\ claimed[t] => /\ "copy" \in Working <=> at[t] \in Working
                         /\ "copy" \in Working \cup {"tell", "leave"}
        /\ "copy" = "finish" => claimed[t]
    BY <1>10 DEF Reserve, At, ClaimsInv, Working
  <2> QED
    BY <2>1, <2>2, ClaimMoves
<1>11. ASSUME NEW t \in StageThreads, FinishTell(t) PROVE ClaimsInv'
  <2>1. /\ at' = [at EXCEPT ![t] = "leave"] /\ UNCHANGED <<inFlight, claimed, win, key, call>>
    BY <1>11 DEF FinishTell, At, cacheVars
  <2>2. /\ claimed[t] => /\ "leave" \in Working <=> at[t] \in Working
                         /\ "leave" \in Working \cup {"tell", "leave"}
        /\ "leave" = "finish" => claimed[t]
    BY <1>11 DEF FinishTell, At, ClaimsInv, Working
  <2> QED
    BY <2>1, <2>2, ClaimMoves
<1>12. ASSUME NEW t \in StageThreads, ComputeRaises(t) PROVE ClaimsInv'
  <2>1. /\ at' = [at EXCEPT ![t] = Stored(t)] /\ UNCHANGED <<inFlight, claimed, win, key, call>>
        /\ at[t] \in Working
    BY <1>12 DEF ComputeRaises, At, cacheVars, Working
  <2> QED
    BY <2>1, StoredIsClaimed, ClaimMoves
<1>13. ASSUME NEW t \in StageThreads, PutRefused(t) PROVE ClaimsInv'
  <2>1. /\ at' = [at EXCEPT ![t] = Stored(t)] /\ UNCHANGED <<inFlight, claimed, win, key, call>>
        /\ at[t] \in Working
    BY <1>13 DEF PutRefused, At, cacheVars, Working
  <2> QED
    BY <2>1, StoredIsClaimed, ClaimMoves
<1>14. ASSUME NEW t \in StageThreads, ReserveRefused(t) PROVE ClaimsInv'
  <2>1. /\ at' = [at EXCEPT ![t] = Stored(t)] /\ UNCHANGED <<inFlight, claimed, win, key, call>>
        /\ at[t] \in Working
    BY <1>14 DEF ReserveRefused, At, cacheVars, Working
  <2> QED
    BY <2>1, StoredIsClaimed, ClaimMoves
<1>15. ASSUME NEW t \in StageThreads, Register(t) PROVE ClaimsInv'
  <2>1. /\ at' = [at EXCEPT ![t] = Stored(t)] /\ UNCHANGED <<inFlight, claimed, win, key, call>>
        /\ at[t] \in Working
    BY <1>15 DEF Register, At, cacheVars, Working
  <2> QED
    BY <2>1, StoredIsClaimed, ClaimMoves
<1>15a. ASSUME NEW t \in StageThreads, CopyRaises(t) PROVE ClaimsInv'
  <2>1. /\ at' = [at EXCEPT ![t] = Stored(t)] /\ UNCHANGED <<inFlight, claimed, win, key, call>>
        /\ at[t] \in Working
    BY <1>15a DEF CopyRaises, At, cacheVars, Working
  <2> QED
    BY <2>1, StoredIsClaimed, ClaimMoves
<1>16. ASSUME NEW t \in StageThreads, Put(t) PROVE ClaimsInv'
  <2>1. /\ \E there \in {Stored(t), "reserve"} : at' = [at EXCEPT ![t] = there]
        /\ UNCHANGED <<inFlight, claimed, win, key, call>> /\ at[t] \in Working
    BY <1>16 DEF Put, Working
  <2>2. CASE at' = [at EXCEPT ![t] = Stored(t)]
    BY <2>1, <2>2, StoredIsClaimed, ClaimMoves
  <2>3. CASE at' = [at EXCEPT ![t] = "reserve"]
    <3>1. /\ claimed[t] => /\ "reserve" \in Working <=> at[t] \in Working
                           /\ "reserve" \in Working \cup {"tell", "leave"}
          /\ "reserve" = "finish" => claimed[t]
      BY <2>1 DEF Working
    <3> QED
      BY <2>1, <2>3, <3>1, ClaimMoves
  <2> QED
    BY <2>1, <2>2, <2>3
<1>17. ASSUME NEW t \in StageThreads, GiveUp(t) PROVE ClaimsInv'
  <2>1. UNCHANGED <<inFlight, claimed, win, key, call>> /\ ~claimed[t]
    BY <1>17 DEF GiveUp, At, cacheVars, ClaimsInv, Working
  <2>2. PICK there \in {"compute", "leave"} : at' = [at EXCEPT ![t] = there]
    BY <1>17 DEF GiveUp, At
  <2> QED
    BY <2>1, <2>2, ClaimMoves
<1>18. ASSUME NEW t \in StageThreads, Leave(t) PROVE ClaimsInv'
  <2>1. /\ at'[t] = "out" /\ ~claimed'[t] /\ at[t] = "leave"
        /\ \A u \in StageThreads \ {t} :
               /\ at'[u] = at[u] /\ win'[u] = win[u] /\ key'[u] = key[u] /\ call'[u] = call[u]
               /\ claimed'[u] = claimed[u]
        /\ inFlight' = inFlight
    BY <1>18 DEF WellFormed, Types, Leave, At, cacheVars
  <2>2. \A w \in Windows : Claimants(w)' = Claimants(w) /\ t \notin Claimants(w)
    BY <2>1 DEF Claimants, Working
  <2>3. \A w \in Windows : \A u \in Claimants(w) : Own(u)' = Own(u) /\ key'[u] = key[u]
    BY <2>1, <2>2 DEF Claimants, Own
  <2>4. ClaimsAreComputers'
    <3> SUFFICES ASSUME NEW w \in Windows
                 PROVE  /\ inFlight'[w] = {Own(u)' : u \in Claimants(w)'}
                        /\ \A x, u \in Claimants(w)' : key'[x] = key'[u] => x = u
      BY DEF ClaimsAreComputers
    <3>1. /\ inFlight[w] = {Own(u) : u \in Claimants(w)}
          /\ \A x, u \in Claimants(w) : key[x] = key[u] => x = u
      BY DEF ClaimsInv, ClaimsAreComputers
    <3>2. {Own(u)' : u \in Claimants(w)'} = {Own(u) : u \in Claimants(w)}
      BY <2>2, <2>3
    <3> QED
      BY <2>1, <2>2, <2>3, <3>1, <3>2
  <2> QED
    BY <2>1, <2>4 DEF ClaimsInv
<1>19. ASSUME NEW t \in StageThreads, BeginCompute(t) PROVE ClaimsInv'
  <2>1. /\ at[t] = "claim" /\ at' = [at EXCEPT ![t] = "compute"]
        /\ claimed' = [claimed EXCEPT ![t] = TRUE]
        /\ inFlight' = [inFlight EXCEPT ![win[t]] = @ \cup {Own(t)}]
        /\ InFlight(win[t], key[t]) = {}
        /\ UNCHANGED <<win, key, call>>
    BY <1>19 DEF BeginCompute, At
  <2>2. win[t] \in Windows /\ KeyOf(Own(t)) = key[t]
    BY <2>1, OwnType DEF WellFormed, InCall
  <2>3. \A u \in StageThreads : /\ at'[u] = IF u = t THEN "compute" ELSE at[u]
                               /\ claimed'[u] = (u = t \/ claimed[u])
    BY <2>1 DEF WellFormed, Types
  <2>4. \A w \in Windows :
           Claimants(w)' = IF w = win[t] THEN Claimants(w) \cup {t} ELSE Claimants(w)
    <3> SUFFICES ASSUME NEW w \in Windows, NEW u \in StageThreads
                 PROVE  u \in Claimants(w)' <=> (u \in Claimants(w) \/ (u = t /\ w = win[t]))
      BY DEF Claimants
    <3> QED
      BY <2>1, <2>3 DEF Claimants, Working
  <2>5. \A u \in StageThreads : Own(u)' = Own(u)
    BY <2>1 DEF Own
  <2>6. ASSUME NEW w \in Windows
        PROVE  /\ inFlight'[w] = {Own(u)' : u \in Claimants(w)'}
               /\ \A x, u \in Claimants(w)' : key'[x] = key'[u] => x = u
    <3>1. /\ inFlight[w] = {Own(u) : u \in Claimants(w)}
          /\ \A x, u \in Claimants(w) : key[x] = key[u] => x = u
          /\ Claimants(w) \subseteq StageThreads
      BY DEF ClaimsInv, ClaimsAreComputers, Claimants
    <3>2. CASE w # win[t]
      <4>1. inFlight'[w] = inFlight[w] /\ Claimants(w)' = Claimants(w)
        BY <2>1, <2>2, <2>4, <3>2 DEF WellFormed, Types
      <4>2. {Own(u)' : u \in Claimants(w)'} = {Own(u) : u \in Claimants(w)}
        BY <2>5, <3>1, <4>1
      <4> QED
        BY <2>1, <3>1, <4>1, <4>2
    <3>3. CASE w = win[t]
      <4>1. /\ inFlight'[w] = inFlight[w] \cup {Own(t)}
            /\ Claimants(w)' = Claimants(w) \cup {t}
        BY <2>1, <2>2, <2>4, <3>3 DEF WellFormed, Types
      <4>2. {Own(u)' : u \in Claimants(w)'} = {Own(u) : u \in Claimants(w)} \cup {Own(t)}
        BY <2>5, <3>1, <4>1
      <4>3. \A u \in Claimants(w) : key[u] # key[t]
        <5>1. \A u \in Claimants(w) : Own(u) \in inFlight[w] /\ KeyOf(Own(u)) = key[u]
          BY <3>1 DEF Own, KeyOf
        <5> QED
          BY <2>1, <3>3, <5>1 DEF InFlight
      <4> QED
        BY <2>1, <3>1, <4>1, <4>2, <4>3
    <3> QED
      BY <3>2, <3>3
  <2>7. ClaimsAreComputers'
    BY <2>6 DEF ClaimsAreComputers
  <2> QED
    BY <2>3, <2>7 DEF ClaimsInv, Working
<1>20. ASSUME NEW t \in StageThreads, FinishPop(t) PROVE ClaimsInv'
  <2>1. /\ at[t] = "finish" /\ at' = [at EXCEPT ![t] = "tell"]
        /\ UNCHANGED <<win, key, call, claimed>>
    BY <1>20 DEF FinishPop, At
  <2>2. PICK v \in InFlight(win[t], key[t]) : inFlight' = [inFlight EXCEPT ![win[t]] = @ \ {v}]
    BY <1>20 DEF FinishPop
  <2>3. win[t] \in Windows /\ t \in Claimants(win[t])
    BY <2>1 DEF WellFormed, InCall, ClaimsInv, Claimants, Working
  <2>4. \A u \in StageThreads : at'[u] = IF u = t THEN "tell" ELSE at[u]
    BY <2>1 DEF WellFormed, Types
  <2>5. \A w \in Windows : Claimants(w)' = Claimants(w) \ {t}
    BY <2>1, <2>4 DEF Claimants, Working
  <2>6. \A u \in StageThreads : Own(u)' = Own(u) /\ KeyOf(Own(u)) = key[u]
    BY <2>1 DEF Own, KeyOf
  <2>7. v = Own(t)
    <3>1. v \in inFlight[win[t]] /\ KeyOf(v) = key[t]
      BY <2>2 DEF InFlight
    <3>2. /\ inFlight[win[t]] = {Own(u) : u \in Claimants(win[t])}
          /\ \A x, u \in Claimants(win[t]) : key[x] = key[u] => x = u
      BY <2>3 DEF ClaimsInv, ClaimsAreComputers
    <3>3. PICK u \in Claimants(win[t]) : v = Own(u)
      BY <3>1, <3>2
    <3>4. u \in StageThreads
      BY DEF Claimants
    <3>5. key[u] = key[t]
      BY <2>6, <3>1, <3>3, <3>4
    <3> QED
      BY <2>3, <3>2, <3>3, <3>5
  <2>8. ASSUME NEW w \in Windows
        PROVE  /\ inFlight'[w] = {Own(u)' : u \in Claimants(w)'}
               /\ \A x, u \in Claimants(w)' : key'[x] = key'[u] => x = u
    <3>1. /\ inFlight[w] = {Own(u) : u \in Claimants(w)}
          /\ \A x, u \in Claimants(w) : key[x] = key[u] => x = u
          /\ Claimants(w) \subseteq StageThreads
      BY DEF ClaimsInv, ClaimsAreComputers, Claimants
    <3>2. {Own(u)' : u \in Claimants(w)'} = {Own(u) : u \in Claimants(w) \ {t}}
      BY <2>5, <2>6, <3>1
    <3>3. CASE w # win[t]
      <4>1. inFlight'[w] = inFlight[w] /\ t \notin Claimants(w)
        BY <2>2, <2>3, <3>3 DEF WellFormed, Types, Claimants
      <4>2. Claimants(w) \ {t} = Claimants(w)
        BY <4>1
      <4> QED
        BY <2>1, <2>5, <3>1, <3>2, <4>1, <4>2
    <3>4. CASE w = win[t]
      <4>1. inFlight'[w] = inFlight[w] \ {Own(t)}
        BY <2>2, <2>3, <2>7, <3>4 DEF WellFormed, Types
      <4>2. \A u \in Claimants(w) : u # t => Own(u) # Own(t)
        BY <2>3, <2>6, <3>1, <3>4
      <4>3. inFlight'[w] = {Own(u) : u \in Claimants(w) \ {t}}
        BY <2>3, <3>1, <3>4, <4>1, <4>2
      <4> QED
        BY <2>1, <2>5, <3>1, <3>2, <4>3
    <3> QED
      BY <3>3, <3>4
  <2>9. ClaimsAreComputers'
    BY <2>8 DEF ClaimsAreComputers
  <2> QED
    BY <2>1, <2>4, <2>9 DEF ClaimsInv, Working
<1>21. ASSUME NEW w \in Windows,
              Clear(w) \/ CloseWindow(w) \/ \E b \in Budgets : Resize(w, b)
       PROVE  ClaimsInv'
  <2>1. UNCHANGED <<inFlight, claimed, at, win, key, call>>
    BY <1>21 DEF Clear, CloseWindow, Resize, threadVars
  <2> QED
    BY <2>1, ClaimsStill DEF ClaimsInv
<1>22. CASE UNCHANGED vars
  <2>1. UNCHANGED <<inFlight, claimed, at, win, key, call>>
    BY <1>22 DEF vars
  <2> QED
    BY <2>1, ClaimsStill DEF ClaimsInv
<1> QED
  BY <1>1, <1>2, <1>3, <1>4, <1>5, <1>6, <1>7, <1>8, <1>9, <1>10, <1>11, <1>12, <1>13, <1>14,
     <1>15, <1>15a, <1>16, <1>17, <1>18, <1>19, <1>20, <1>21, <1>22 DEF Next, StageStep

\* A stage is computed under a claim by one thread at a time, and a claim has a
\* computer: begin_compute and finish_compute bracket every computation, a
\* failing one, too, while others time out, clear or close.
THEOREM ClaimsHold == Spec => []ClaimsAreComputers
<1>1. Init => ClaimsInv
  BY DEF Init, ClaimsInv, ClaimsAreComputers, Claimants, Working
<1>2. ClaimsInv => ClaimsAreComputers
  BY DEF ClaimsInv
<1> QED
  BY <1>1, <1>2, AlwaysWellFormed, StepClaims, PTL DEF Spec
-----------------------------------------------------------------------------
(* The segments and their owners. *)

\* Until it is registered, a value is in nobody's table: its number is new.
Before == {"look", "claim", "attach", "wait", "compute", "put", "reserve", "copy"}
Named(table) == {table[k] : k \in StageKeys}
Copying == {value[t] : t \in {u \in StageThreads : at[u] = "copy"}}

SegmentsInv ==
    /\ SegmentsAreOwned
    /\ \A k \in StageKeys : published[k] # NoValue => KeyOf(published[k]) = k
    /\ \A t, u \in StageThreads : at[t] # "out" /\ at[u] # "out" /\ call[t] = call[u] => t = u
    /\ \A v \in Registered : v[2] <= calls
    /\ \A t \in StageThreads : at[t] \in Before => Own(t) \notin Registered

\* What is freed was registered, so what is being filled stays.
LEMMA SettleOwned ==
    ASSUME NEW table \in [StageKeys -> Values \cup {NoValue}], NEW live, NEW bytes,
           NEW released, NEW alive, Settle(table, live, bytes, released, alive),
           NEW copying \in SUBSET Values, live = (Named(table) \ {NoValue}) \cup copying,
           copying \cap Named(table) = {}
    PROVE  /\ segments' = Registered' \cup copying
           /\ Registered' \subseteq alive
           /\ Registered' \subseteq Named(table)
           /\ \A k \in StageKeys : published'[k] # NoValue => published'[k] = table[k]
<1> DEFINE freed == Named(table) \cap (released \cup (Values \ alive))
<1>1. /\ published' = [k \in StageKeys |-> IF table[k] \in freed THEN NoValue ELSE table[k]]
      /\ segments' = live \ freed
  BY DEF Settle, Named
<1>2. \A k \in StageKeys : published'[k] = IF table[k] \in freed THEN NoValue ELSE table[k]
  BY <1>1
<1>3. freed \subseteq Named(table) /\ Values \cap freed \cap copying = {}
  OBVIOUS
<1>4. Registered' = (Named(table) \ {NoValue}) \ freed
  <2>1. Registered' = {published'[k] : k \in StageKeys} \ {NoValue}
    BY DEF Registered
  <2> HIDE DEF freed
  <2> QED
    BY <1>2, <2>1 DEF Named
<1>5. segments' = Registered' \cup copying
  <2>1. copying \cap freed = {}
    BY <1>3
  <2> HIDE DEF freed
  <2> QED
    BY <1>1, <1>4, <2>1
<1>6. Registered' \subseteq alive
  <2> SUFFICES ASSUME NEW v \in Registered' PROVE v \in alive
    OBVIOUS
  <2>1. v \in Values /\ v \notin freed /\ v \in Named(table)
    BY <1>4 DEF Named
  <2> QED
    BY <2>1
<1> HIDE DEF freed
<1> QED
  BY <1>2, <1>4, <1>5, <1>6

\* A step that fills no segment and registers none.
LEMMA OwnedStill ==
    ASSUME WellFormed, SegmentsInv, NEW released, Released(released, Referenced'),
           calls' \in Nat, calls <= calls',
           \A u \in StageThreads :
               /\ at'[u] = "copy" <=> at[u] = "copy"
               /\ at[u] = "copy" => value'[u] = value[u]
               /\ at'[u] \in Before => Own(u)' \notin Registered,
           \A t, u \in StageThreads : at'[t] # "out" /\ at'[u] # "out" /\ call'[t] = call'[u] => t = u
    PROVE  SegmentsInv'
<1>1. Copying' = Copying
  BY DEF Copying
<1>2. /\ published \in [StageKeys -> Values \cup {NoValue}]
      /\ Registered = Named(published) \ {NoValue}
      /\ Copying \in SUBSET Values /\ Copying \cap Registered = {} /\ NoValue \notin Values
      /\ segments = Registered \cup Copying
  <2>1. \A t \in StageThreads : at[t] = "copy" => value[t] \in Values
    BY OwnType DEF WellFormed, Carries
  <2> QED
    BY <2>1, SegmentsAssumption DEF WellFormed, Types, Registered, Named, Copying, SegmentsInv, SegmentsAreOwned
<1>3. Copying \cap Named(published) = {}
  BY <1>2
<1>4. /\ segments' = Registered' \cup Copying
      /\ Registered' \subseteq Referenced'
      /\ Registered' \subseteq Named(published)
      /\ \A k \in StageKeys : published'[k] # NoValue => published'[k] = published[k]
  <2>1. Settle(published, segments, publishedBytes, released, Referenced')
    BY DEF Released
  <2>2. segments = (Named(published) \ {NoValue}) \cup Copying
    BY <1>2
  <2>3. published \in [StageKeys -> Values \cup {NoValue}] /\ Copying \in SUBSET Values
    BY <1>2
  <2> QED
    BY <1>3, <2>1, <2>2, <2>3, SettleOwned
<1>5. Registered' \subseteq Registered
  <2>1. NoValue \notin Registered'
    BY DEF Registered
  <2> QED
    BY <1>2, <1>4, <2>1
<1>6. SegmentsAreOwned'
  BY <1>1, <1>2, <1>4, <1>5 DEF SegmentsAreOwned, Copying
<1>7. \A k \in StageKeys : published'[k] # NoValue => KeyOf(published'[k]) = k
  BY <1>4 DEF SegmentsInv
<1>8. \A v \in Registered' : v[2] <= calls'
  <2> SUFFICES ASSUME NEW v \in Registered' PROVE v[2] <= calls'
    OBVIOUS
  <2>1. v \in Registered /\ v \in Values
    BY <1>2, <1>5 DEF Named
  <2>2. v[2] \in Nat /\ calls \in Nat /\ v[2] <= calls
    BY <2>1, SegmentsAssumption DEF Values, Calls, SegmentsInv, WellFormed, Types
  <2> QED
    BY <2>2
<1>9. \A u \in StageThreads : at'[u] \in Before => Own(u)' \notin Registered'
  BY <1>5
<1> QED
  BY <1>6, <1>7, <1>8, <1>9 DEF SegmentsInv

\* A thread moves on in its call, and not at the copy.
LEMMA OwnedMoves ==
    ASSUME WellFormed, SegmentsInv, NEW t \in StageThreads, at[t] \notin {"out", "copy"},
           NEW there, at' = [at EXCEPT ![t] = there], there \notin {"out", "copy"},
           there \in Before => at[t] \in Before, UNCHANGED <<key, call, calls>>,
           \A u \in StageThreads : u # t => value'[u] = value[u],
           NEW released, Released(released, Referenced')
    PROVE  SegmentsInv'
<1>1. \A u \in StageThreads : at'[u] = IF u = t THEN there ELSE at[u]
  BY DEF WellFormed, Types
<1>2. calls' \in Nat /\ calls <= calls'
  BY SegmentsAssumption DEF WellFormed, Types
<1>3. ASSUME NEW u \in StageThreads
      PROVE  /\ at'[u] = "copy" <=> at[u] = "copy"
             /\ at[u] = "copy" => value'[u] = value[u]
             /\ at'[u] \in Before => Own(u)' \notin Registered
  BY <1>1 DEF SegmentsInv, Own
<1>4. \A x, u \in StageThreads : at'[x] # "out" /\ at'[u] # "out" /\ call'[x] = call'[u] => x = u
  BY <1>1 DEF SegmentsInv
<1> QED
  BY <1>2, <1>3, <1>4, OwnedStill

\* The table a registration makes, and what is left to be filled.
LEMMA RegisterTable ==
    ASSUME WellFormed, SegmentsInv, NEW t \in StageThreads, at[t] = "copy",
           NEW table, \A k \in StageKeys : table[k] = IF k = key[t] THEN value[t] ELSE published[k]
    PROVE  /\ Named(table) \ {NoValue} = (Registered \ {published[key[t]]}) \cup {value[t]}
           /\ segments \ {published[key[t]]} = (Named(table) \ {NoValue}) \cup (Copying \ {value[t]})
           /\ Copying \ {value[t]} \in SUBSET Values
           /\ (Copying \ {value[t]}) \cap Named(table) = {}
<1>1. /\ value[t] = Own(t) /\ Own(t) \in Values /\ KeyOf(Own(t)) = key[t] /\ key[t] \in StageKeys
      /\ Own(t) \notin Registered
  BY OwnType DEF WellFormed, Carries, InCall, SegmentsInv, Before
<1>2. /\ published \in [StageKeys -> Values \cup {NoValue}] /\ NoValue \notin Values
      /\ Registered = Named(published) \ {NoValue}
      /\ Copying \cap Registered = {} /\ segments = Registered \cup Copying
      /\ Copying \in SUBSET Values /\ value[t] \in Copying
  <2>1. \A u \in StageThreads : at[u] = "copy" => value[u] \in Values
    BY OwnType DEF WellFormed, Carries
  <2> QED
    BY <2>1, SegmentsAssumption
       DEF WellFormed, Types, Registered, Named, Copying, SegmentsInv, SegmentsAreOwned
<1>3. Named(table) \ {NoValue} = (Registered \ {published[key[t]]}) \cup {value[t]}
  <2>1. \A k \in StageKeys : k # key[t] /\ published[k] # NoValue => published[k] # published[key[t]]
    BY <1>1 DEF SegmentsInv
  <2>2. Registered = {published[k] : k \in StageKeys} \ {NoValue}
    BY DEF Registered
  <2>3. Named(table) = {table[k] : k \in StageKeys}
    BY DEF Named
  <2> QED
    BY <1>1, <1>2, <2>1, <2>2, <2>3
<1>4. published[key[t]] \notin Copying
  BY <1>1, <1>2 DEF Named
<1> QED
  BY <1>2, <1>3, <1>3, <1>4

LEMMA StepSegments ==
    ASSUME WellFormed, SegmentsInv, [Next]_vars
    PROVE  SegmentsInv'
<1>1. ASSUME NEW t \in StageThreads, NEW w \in Windows, NEW k \in StageKeys, StartCall(t, w, k)
      PROVE  SegmentsInv'
  <2>1. /\ at[t] = "out" /\ at'[t] = "look" /\ call'[t] = calls'
        /\ \A u \in StageThreads \ {t} : at'[u] = at[u] /\ key'[u] = key[u] /\ call'[u] = call[u]
        /\ UNCHANGED value /\ calls' = calls + 1
        /\ Released({}, Referenced')
    BY <1>1 DEF StartCall, At, WellFormed, Types, Forgets
  <2>2. calls \in Nat /\ calls' \in Nat /\ calls <= calls'
    BY <2>1, SegmentsAssumption DEF WellFormed, Types
  <2>3. \A u \in StageThreads : at[u] # "out" => call[u] <= calls /\ call[u] \in Nat
    BY <2>2 DEF WellFormed, InCall
  <2>4. ASSUME NEW u \in StageThreads
        PROVE  /\ at'[u] = "copy" <=> at[u] = "copy"
               /\ at[u] = "copy" => value'[u] = value[u]
               /\ at'[u] \in Before => Own(u)' \notin Registered
    <3>1. CASE u = t
      <4>1. Own(t)'[2] = calls + 1 /\ ~(calls + 1 <= calls)
        BY <2>1, <2>2 DEF Own
      <4>2. Own(t)' \notin Registered
        BY <4>1 DEF SegmentsInv
      <4> QED
        BY <2>1, <3>1, <4>2
    <3>2. CASE u # t
      BY <2>1, <3>2 DEF SegmentsInv, Own
    <3> QED
      BY <3>1, <3>2
  <2>5. \A x, u \in StageThreads : at'[x] # "out" /\ at'[u] # "out" /\ call'[x] = call'[u] => x = u
    BY <2>1, <2>2, <2>3 DEF SegmentsInv
  <2> QED
    BY <2>1, <2>2, <2>4, <2>5, OwnedStill
<1>2. ASSUME NEW t \in StageThreads, Leave(t) PROVE SegmentsInv'
  <2>1. /\ at[t] = "leave" /\ at'[t] = "out"
        /\ \A u \in StageThreads \ {t} : /\ at'[u] = at[u] /\ key'[u] = key[u] /\ call'[u] = call[u]
                                         /\ value'[u] = value[u]
        /\ calls' = calls
        /\ Released({}, Referenced')
    BY <1>2 DEF Leave, At, WellFormed, Types, Forgets
  <2>2. calls' \in Nat /\ calls <= calls'
    BY <2>1, SegmentsAssumption DEF WellFormed, Types
  <2>3. ASSUME NEW u \in StageThreads
        PROVE  /\ at'[u] = "copy" <=> at[u] = "copy"
               /\ at[u] = "copy" => value'[u] = value[u]
               /\ at'[u] \in Before => Own(u)' \notin Registered
    BY <2>1 DEF SegmentsInv, Own, Before
  <2>4. \A x, u \in StageThreads : at'[x] # "out" /\ at'[u] # "out" /\ call'[x] = call'[u] => x = u
    BY <2>1 DEF SegmentsInv
  <2> QED
    BY <2>1, <2>2, <2>3, <2>4, OwnedStill
<1>3. ASSUME NEW t \in StageThreads, NEW v \in Values, Hit(t, v) PROVE SegmentsInv'
  <2>1. /\ at' = [at EXCEPT ![t] = "leave"] /\ UNCHANGED <<key, call, calls>>
        /\ at[t] \notin {"out", "copy"} /\ "leave" \notin {"out", "copy"}
        /\ "leave" \in Before => at[t] \in Before
    BY <1>3 DEF Hit, At, cacheVars, Before
  <2>2. /\ \A u \in StageThreads : u # t => value'[u] = value[u]
        /\ Released({}, Referenced')
    BY <1>3 DEF Hit, Forgets, WellFormed, Types
  <2> QED
    BY <2>1, <2>2, OwnedMoves
<1>4. ASSUME NEW t \in StageThreads, NEW v \in Values, Attach(t, v) PROVE SegmentsInv'
  <2>1. /\ at' = [at EXCEPT ![t] = "wait"] /\ UNCHANGED <<key, call, calls>>
        /\ at[t] \notin {"out", "copy"} /\ "wait" \notin {"out", "copy"}
        /\ "wait" \in Before => at[t] \in Before
    BY <1>4 DEF Attach, At, cacheVars, Before
  <2>2. /\ \A u \in StageThreads : u # t => value'[u] = value[u]
        /\ Released({}, Referenced')
    BY <1>4 DEF Attach, Forgets, WellFormed, Types
  <2> QED
    BY <2>1, <2>2, OwnedMoves
<1>5. ASSUME NEW t \in StageThreads, Miss(t) PROVE SegmentsInv'
  <2>1. /\ at' = [at EXCEPT ![t] = "claim"] /\ UNCHANGED <<key, call, calls>>
        /\ at[t] \notin {"out", "copy"} /\ "claim" \notin {"out", "copy"}
        /\ "claim" \in Before => at[t] \in Before
    BY <1>5 DEF Miss, At, cacheVars, Before
  <2>2. /\ \A u \in StageThreads : u # t => value'[u] = value[u]
        /\ Released({}, Referenced')
    BY <1>5 DEF Miss, Forgets, WellFormed, Types
  <2> QED
    BY <2>1, <2>2, OwnedMoves
<1>6. ASSUME NEW t \in StageThreads, BeginCompute(t) PROVE SegmentsInv'
  <2>1. /\ at' = [at EXCEPT ![t] = "compute"] /\ UNCHANGED <<key, call, calls>>
        /\ at[t] \notin {"out", "copy"} /\ "compute" \notin {"out", "copy"}
        /\ "compute" \in Before => at[t] \in Before
    BY <1>6 DEF BeginCompute, At, cacheVars, Before
  <2>2. /\ \A u \in StageThreads : u # t => value'[u] = value[u]
        /\ Released({}, Referenced')
    BY <1>6 DEF BeginCompute, Forgets, WellFormed, Types
  <2> QED
    BY <2>1, <2>2, OwnedMoves
<1>7. ASSUME NEW t \in StageThreads, BeginRefused(t) PROVE SegmentsInv'
  <2>1. /\ at' = [at EXCEPT ![t] = "attach"] /\ UNCHANGED <<key, call, calls>>
        /\ at[t] \notin {"out", "copy"} /\ "attach" \notin {"out", "copy"}
        /\ "attach" \in Before => at[t] \in Before
    BY <1>7 DEF BeginRefused, At, cacheVars, Before
  <2>2. /\ \A u \in StageThreads : u # t => value'[u] = value[u]
        /\ Released({}, Referenced')
    BY <1>7 DEF BeginRefused, Forgets, WellFormed, Types
  <2> QED
    BY <2>1, <2>2, OwnedMoves
<1>8. ASSUME NEW t \in StageThreads, AttachGone(t) PROVE SegmentsInv'
  <2>1. /\ at' = [at EXCEPT ![t] = "look"] /\ UNCHANGED <<key, call, calls>>
        /\ at[t] \notin {"out", "copy"} /\ "look" \notin {"out", "copy"}
        /\ "look" \in Before => at[t] \in Before
    BY <1>8 DEF AttachGone, At, cacheVars, Before
  <2>2. /\ \A u \in StageThreads : u # t => value'[u] = value[u]
        /\ Released({}, Referenced')
    BY <1>8 DEF AttachGone, Forgets, WellFormed, Types
  <2> QED
    BY <2>1, <2>2, OwnedMoves
<1>9. ASSUME NEW t \in StageThreads, Reuse(t) PROVE SegmentsInv'
  <2>1. /\ at' = [at EXCEPT ![t] = "leave"] /\ UNCHANGED <<key, call, calls>>
        /\ at[t] \notin {"out", "copy"} /\ "leave" \notin {"out", "copy"}
        /\ "leave" \in Before => at[t] \in Before
    BY <1>9 DEF Reuse, At, cacheVars, Before
  <2>2. /\ \A u \in StageThreads : u # t => value'[u] = value[u]
        /\ Released({}, Referenced')
    BY <1>9 DEF Reuse, Forgets, WellFormed, Types
  <2> QED
    BY <2>1, <2>2, OwnedMoves
<1>10. ASSUME NEW t \in StageThreads, Retry(t) PROVE SegmentsInv'
  <2>1. /\ at' = [at EXCEPT ![t] = "look"] /\ UNCHANGED <<key, call, calls>>
        /\ at[t] \notin {"out", "copy"} /\ "look" \notin {"out", "copy"}
        /\ "look" \in Before => at[t] \in Before
    BY <1>10 DEF Retry, At, cacheVars, Before
  <2>2. /\ \A u \in StageThreads : u # t => value'[u] = value[u]
        /\ Released({}, Referenced')
    BY <1>10 DEF Retry, Forgets, WellFormed, Types
  <2> QED
    BY <2>1, <2>2, OwnedMoves
<1>11. ASSUME NEW t \in StageThreads, Compute(t) PROVE SegmentsInv'
  <2>1. /\ at' = [at EXCEPT ![t] = "put"] /\ UNCHANGED <<key, call, calls>>
        /\ at[t] \notin {"out", "copy"} /\ "put" \notin {"out", "copy"}
        /\ "put" \in Before => at[t] \in Before
    BY <1>11 DEF Compute, At, cacheVars, Before
  <2>2. /\ \A u \in StageThreads : u # t => value'[u] = value[u]
        /\ Released({}, Referenced')
    BY <1>11 DEF Compute, Forgets, WellFormed, Types
  <2> QED
    BY <2>1, <2>2, OwnedMoves
<1>12. ASSUME NEW t \in StageThreads, FinishPop(t) PROVE SegmentsInv'
  <2>1. /\ at' = [at EXCEPT ![t] = "tell"] /\ UNCHANGED <<key, call, calls>>
        /\ at[t] \notin {"out", "copy"} /\ "tell" \notin {"out", "copy"}
        /\ "tell" \in Before => at[t] \in Before
    BY <1>12 DEF FinishPop, At, cacheVars, Before
  <2>2. /\ \A u \in StageThreads : u # t => value'[u] = value[u]
        /\ Released({}, Referenced')
    BY <1>12 DEF FinishPop, Forgets, WellFormed, Types
  <2> QED
    BY <2>1, <2>2, OwnedMoves
<1>13. ASSUME NEW t \in StageThreads, FinishTell(t) PROVE SegmentsInv'
  <2>1. /\ at' = [at EXCEPT ![t] = "leave"] /\ UNCHANGED <<key, call, calls>>
        /\ at[t] \notin {"out", "copy"} /\ "leave" \notin {"out", "copy"}
        /\ "leave" \in Before => at[t] \in Before
    BY <1>13 DEF FinishTell, At, cacheVars, Before
  <2>2. /\ \A u \in StageThreads : u # t => value'[u] = value[u]
        /\ Released({}, Referenced')
    BY <1>13 DEF FinishTell, Forgets, WellFormed, Types
  <2> QED
    BY <2>1, <2>2, OwnedMoves
<1>14. ASSUME NEW t \in StageThreads, ComputeRaises(t) PROVE SegmentsInv'
  <2>1. /\ at' = [at EXCEPT ![t] = Stored(t)] /\ UNCHANGED <<key, call, calls>>
        /\ at[t] \notin {"out", "copy"} /\ Stored(t) \notin {"out", "copy"}
        /\ Stored(t) \in Before => at[t] \in Before
    BY <1>14 DEF ComputeRaises, cacheVars, Before, Stored
  <2>2. /\ \A u \in StageThreads : u # t => value'[u] = value[u]
        /\ Released({}, Referenced')
    BY <1>14 DEF ComputeRaises, Forgets, WellFormed, Types
  <2> QED
    BY <2>1, <2>2, OwnedMoves
<1>15. ASSUME NEW t \in StageThreads, PutRefused(t) PROVE SegmentsInv'
  <2>1. /\ at' = [at EXCEPT ![t] = Stored(t)] /\ UNCHANGED <<key, call, calls>>
        /\ at[t] \notin {"out", "copy"} /\ Stored(t) \notin {"out", "copy"}
        /\ Stored(t) \in Before => at[t] \in Before
    BY <1>15 DEF PutRefused, cacheVars, Before, Stored
  <2>2. /\ \A u \in StageThreads : u # t => value'[u] = value[u]
        /\ Released({}, Referenced')
    BY <1>15 DEF PutRefused, Forgets, WellFormed, Types
  <2> QED
    BY <2>1, <2>2, OwnedMoves
<1>16. ASSUME NEW t \in StageThreads, ReserveRefused(t) PROVE SegmentsInv'
  <2>1. /\ at' = [at EXCEPT ![t] = Stored(t)] /\ UNCHANGED <<key, call, calls>>
        /\ at[t] \notin {"out", "copy"} /\ Stored(t) \notin {"out", "copy"}
        /\ Stored(t) \in Before => at[t] \in Before
    BY <1>16 DEF ReserveRefused, cacheVars, Before, Stored
  <2>2. /\ \A u \in StageThreads : u # t => value'[u] = value[u]
        /\ Released({}, Referenced')
    BY <1>16 DEF ReserveRefused, Forgets, WellFormed, Types
  <2> QED
    BY <2>1, <2>2, OwnedMoves
<1>17. ASSUME NEW t \in StageThreads, GiveUp(t) PROVE SegmentsInv'
  <2>1. PICK there \in {"compute", "leave"} : at' = [at EXCEPT ![t] = there]
    BY <1>17 DEF GiveUp, At
  <2>2. /\ UNCHANGED <<key, call, calls>> /\ at[t] \notin {"out", "copy"}
        /\ there \notin {"out", "copy"} /\ there \in Before => at[t] \in Before
    BY <1>17 DEF GiveUp, At, Before
  <2>3. /\ \A u \in StageThreads : u # t => value'[u] = value[u]
        /\ Released({}, Referenced')
    BY <1>17 DEF GiveUp, Forgets
  <2> QED
    BY <2>1, <2>2, <2>3, OwnedMoves
<1>18. ASSUME NEW t \in StageThreads, Put(t) PROVE SegmentsInv'
  <2>1. PICK out : Released(out, Referenced')
    BY <1>18 DEF Put
  <2>2. /\ UNCHANGED <<key, call, calls>> /\ at[t] \notin {"out", "copy"}
        /\ at[t] \in Before /\ \A u \in StageThreads : u # t => value'[u] = value[u]
    BY <1>18 DEF Put, Before
  <2>3. ASSUME NEW there \in {"finish", "leave", "reserve"}, at' = [at EXCEPT ![t] = there]
        PROVE  SegmentsInv'
    <3>1. there \notin {"out", "copy"}
      OBVIOUS
    <3> QED
      BY <2>1, <2>2, <2>3, <3>1, OwnedMoves
  <2> QED
    BY <1>18, <2>3 DEF Put, Stored
<1>19. ASSUME NEW t \in StageThreads, Reserve(t) PROVE SegmentsInv'
  <2>1. /\ at[t] = "reserve" /\ at' = [at EXCEPT ![t] = "copy"]
        /\ UNCHANGED <<key, call, calls, value>>
    BY <1>19 DEF Reserve, At
  <2>2. value[t] = Own(t) /\ Own(t) \in Values /\ Own(t) \notin Registered
    BY <2>1, OwnType DEF WellFormed, Carries, SegmentsInv, Before
  <2>3. \A u \in StageThreads : at'[u] = IF u = t THEN "copy" ELSE at[u]
    BY <2>1 DEF WellFormed, Types
  <2>4. Copying' = Copying \cup {value[t]}
    BY <2>1, <2>3 DEF Copying
  <2>5. /\ published \in [StageKeys -> Values \cup {NoValue}] /\ NoValue \notin Values
        /\ Registered = Named(published) \ {NoValue}
        /\ Copying \cap Registered = {} /\ segments = Registered \cup Copying
        /\ Copying \in SUBSET Values
    <3>1. \A u \in StageThreads : at[u] = "copy" => value[u] \in Values
      BY OwnType DEF WellFormed, Carries
    <3> QED
      BY <3>1, SegmentsAssumption DEF WellFormed, Types, Registered, Named, Copying, SegmentsInv, SegmentsAreOwned
  <2>6. /\ segments \cup {value[t]} = (Named(published) \ {NoValue}) \cup (Copying \cup {value[t]})
        /\ Copying \cup {value[t]} \in SUBSET Values
        /\ (Copying \cup {value[t]}) \cap Named(published) = {}
    BY <2>2, <2>5
  <2>7. Settle(published, segments \cup {value[t]}, publishedBytes + Size[KeyOf(value[t])], {}, Referenced')
    BY <1>19 DEF Reserve, Reserved
  <2>8. /\ segments' = Registered' \cup Copying'
        /\ Registered' \subseteq Referenced'
        /\ Registered' \subseteq Named(published)
        /\ \A k \in StageKeys : published'[k] # NoValue => published'[k] = published[k]
    BY <2>4, <2>5, <2>6, <2>7, SettleOwned
  <2>9. Registered' \subseteq Registered
    <3>1. NoValue \notin Registered'
      BY DEF Registered
    <3> QED
      BY <2>5, <2>8, <3>1
  <2>10. ASSUME NEW u \in StageThreads
         PROVE  /\ at'[u] = "copy" => value'[u] \notin Registered'
                /\ at'[u] \in Before => Own(u)' \notin Registered'
    BY <2>1, <2>2, <2>3, <2>9 DEF SegmentsInv, SegmentsAreOwned, Own, Before
  <2>11. SegmentsAreOwned'
    BY <2>8, <2>10 DEF SegmentsAreOwned, Copying
  <2>12. \A x, u \in StageThreads : at'[x] # "out" /\ at'[u] # "out" /\ call'[x] = call'[u] => x = u
    BY <2>1, <2>3 DEF SegmentsInv
  <2>13. /\ \A v \in Registered' : v[2] <= calls'
         /\ \A k \in StageKeys : published'[k] # NoValue => KeyOf(published'[k]) = k
    BY <2>1, <2>8, <2>9 DEF SegmentsInv
  <2> QED
    BY <2>10, <2>11, <2>12, <2>13 DEF SegmentsInv
<1>20. ASSUME NEW t \in StageThreads, Register(t) PROVE SegmentsInv'
  <2> DEFINE table == [published EXCEPT ![key[t]] = value[t]]
  <2>1. /\ at[t] = "copy" /\ at' = [at EXCEPT ![t] = Stored(t)]
        /\ UNCHANGED <<key, call, calls, value>>
    BY <1>20 DEF Register
  <2>2. /\ value[t] = Own(t) /\ Own(t) \in Values /\ KeyOf(Own(t)) = key[t] /\ key[t] \in StageKeys
        /\ Own(t) \notin Registered /\ call[t] <= calls /\ Own(t)[2] = call[t]
    BY <2>1, OwnType, SegmentsAssumption DEF WellFormed, Carries, InCall, Types, SegmentsInv, Before, Own
  <2>3. /\ \A u \in StageThreads : at'[u] = IF u = t THEN Stored(t) ELSE at[u]
        /\ Stored(t) \in {"finish", "leave"}
    BY <2>1 DEF WellFormed, Types, Stored
  <2>4. \A u \in StageThreads : u # t /\ at[u] # "out" => Own(u) # Own(t)
    BY <2>1 DEF SegmentsInv, Own
  <2>5. Copying' = Copying \ {value[t]}
    <3>1. \A u \in StageThreads : u # t /\ at[u] = "copy" => value[u] # value[t]
      BY <2>1, <2>4 DEF WellFormed, Carries
    <3> QED
      BY <2>1, <2>3, <3>1 DEF Copying
  <2>6. /\ table \in [StageKeys -> Values \cup {NoValue}]
        /\ \A k \in StageKeys : table[k] = IF k = key[t] THEN value[t] ELSE published[k]
    BY <2>2 DEF WellFormed, Types
  <2>7. Settle(table, segments \ {published[key[t]]}, publishedBytes, {}, Referenced')
    BY <1>20, <2>2 DEF Register, Registers
  <2> HIDE DEF table
  <2>8. /\ Named(table) \ {NoValue} = (Registered \ {published[key[t]]}) \cup {value[t]}
        /\ segments \ {published[key[t]]} = (Named(table) \ {NoValue}) \cup (Copying \ {value[t]})
        /\ Copying \ {value[t]} \in SUBSET Values
        /\ (Copying \ {value[t]}) \cap Named(table) = {}
    BY <2>1, <2>6, RegisterTable
  <2>9. /\ segments' = Registered' \cup Copying'
        /\ Registered' \subseteq Referenced'
        /\ Registered' \subseteq Named(table)
        /\ \A k \in StageKeys : published'[k] # NoValue => published'[k] = table[k]
    <3> DEFINE filling == Copying \ {value[t]}
               left == segments \ {published[key[t]]}
    <3>1. /\ left = (Named(table) \ {NoValue}) \cup filling /\ filling \in SUBSET Values
          /\ filling \cap Named(table) = {} /\ table \in [StageKeys -> Values \cup {NoValue}]
          /\ Copying' = filling
      BY <2>5, <2>6, <2>8
    <3>2. Settle(table, left, publishedBytes, {}, Referenced')
      BY <2>7
    <3> HIDE DEF filling, left
    <3> QED
      BY <3>1, <3>2, SettleOwned
  <2>10. Registered' \subseteq Registered \cup {value[t]}
    <3>1. NoValue \notin Registered'
      BY DEF Registered
    <3> QED
      BY <2>9, <2>8, <3>1
  <2>11. ASSUME NEW u \in StageThreads
         PROVE  /\ at'[u] = "copy" => value'[u] \notin Registered'
                /\ at'[u] \in Before => Own(u)' \notin Registered'
    <3>1. CASE u = t
      BY <2>3, <3>1 DEF Before
    <3>2. CASE u # t
      <4>1. at'[u] = at[u] /\ Own(u)' = Own(u) /\ value'[u] = value[u]
        BY <2>1, <2>3, <3>2 DEF Own
      <4>2. at[u] \in Before => Own(u) \notin Registered \cup {value[t]}
        BY <2>2, <2>4, <3>2 DEF SegmentsInv, Before
      <4>3. at[u] = "copy" => value[u] = Own(u) /\ at[u] \in Before
        BY DEF WellFormed, Carries, Before
      <4> QED
        BY <2>10, <4>1, <4>2, <4>3
    <3> QED
      BY <3>1, <3>2
  <2>12. SegmentsAreOwned'
    BY <2>9, <2>11 DEF SegmentsAreOwned, Copying
  <2>13. \A x, u \in StageThreads : at'[x] # "out" /\ at'[u] # "out" /\ call'[x] = call'[u] => x = u
    BY <2>1, <2>3 DEF SegmentsInv
  <2>14. \A v \in Registered' : v[2] <= calls'
    BY <2>1, <2>2, <2>10 DEF SegmentsInv
  <2>15. \A k \in StageKeys : published'[k] # NoValue => KeyOf(published'[k]) = k
    BY <2>2, <2>6, <2>9 DEF SegmentsInv
  <2> QED
    BY <2>11, <2>12, <2>13, <2>14, <2>15 DEF SegmentsInv
<1>20a. ASSUME NEW t \in StageThreads, CopyRaises(t) PROVE SegmentsInv'
  <2>1. /\ at[t] = "copy" /\ at' = [at EXCEPT ![t] = Stored(t)]
        /\ UNCHANGED <<key, call, calls, value>>
    BY <1>20a DEF CopyRaises
  <2>2. value[t] = Own(t) /\ Own(t) \in Values /\ Own(t) \notin Registered
    BY <2>1, OwnType DEF WellFormed, Carries, SegmentsInv, Before
  <2>3. /\ \A u \in StageThreads : at'[u] = IF u = t THEN Stored(t) ELSE at[u]
        /\ Stored(t) \in {"finish", "leave"}
    BY <2>1 DEF WellFormed, Types, Stored
  <2>4. Copying' = Copying \ {value[t]}
    <3>1. \A u \in StageThreads : u # t /\ at[u] = "copy" => value[u] # value[t]
      <4>1. \A u \in StageThreads : u # t /\ at[u] = "copy" => Own(u) # Own(t)
        BY <2>1 DEF SegmentsInv, Own
      <4> QED
        BY <2>2, <4>1 DEF WellFormed, Carries
    <3> QED
      BY <2>1, <2>3, <3>1 DEF Copying
  <2>5. /\ published \in [StageKeys -> Values \cup {NoValue}] /\ NoValue \notin Values
        /\ Registered = Named(published) \ {NoValue}
        /\ Copying \cap Registered = {} /\ segments = Registered \cup Copying
        /\ Copying \in SUBSET Values
    <3>1. \A u \in StageThreads : at[u] = "copy" => value[u] \in Values
      BY OwnType DEF WellFormed, Carries
    <3> QED
      BY <3>1, SegmentsAssumption DEF WellFormed, Types, Registered, Named, Copying, SegmentsInv, SegmentsAreOwned
  <2> DEFINE filling == Copying \ {value[t]}
             left == segments \ {value[t]}
             bytes == publishedBytes - Size[KeyOf(value[t])]
  <2>6. /\ left = (Named(published) \ {NoValue}) \cup filling /\ filling \in SUBSET Values
        /\ filling \cap Named(published) = {} /\ Copying' = filling
    BY <2>2, <2>4, <2>5
  <2>7. Settle(published, left, bytes, {}, Referenced')
    BY <1>20a DEF CopyRaises, Unreserved
  <2> HIDE DEF filling, left, bytes
  <2>8. /\ segments' = Registered' \cup Copying'
        /\ Registered' \subseteq Referenced'
        /\ Registered' \subseteq Named(published)
        /\ \A k \in StageKeys : published'[k] # NoValue => published'[k] = published[k]
    <3>1. published \in [StageKeys -> Values \cup {NoValue}]
      BY <2>5
    <3> QED
      BY <2>6, <2>7, <3>1, SettleOwned
  <2>9. Registered' \subseteq Registered
    <3>1. NoValue \notin Registered'
      BY DEF Registered
    <3> QED
      BY <2>5, <2>8, <3>1
  <2>10. ASSUME NEW u \in StageThreads
         PROVE  /\ at'[u] = "copy" => value'[u] \notin Registered'
                /\ at'[u] \in Before => Own(u)' \notin Registered'
    <3>1. /\ at'[u] \in Before => at'[u] = at[u] /\ Own(u)' = Own(u)
          /\ value'[u] = value[u]
      BY <2>1, <2>3 DEF Own, Before
    <3>2. at[u] \in Before => Own(u) \notin Registered
      BY DEF SegmentsInv
    <3>3. at[u] = "copy" => value[u] = Own(u) /\ at[u] \in Before
      BY DEF WellFormed, Carries, Before
    <3> QED
      BY <2>9, <3>1, <3>2, <3>3 DEF Before
  <2>11. SegmentsAreOwned'
    BY <2>8, <2>10 DEF SegmentsAreOwned, Copying
  <2>12. \A x, u \in StageThreads : at'[x] # "out" /\ at'[u] # "out" /\ call'[x] = call'[u] => x = u
    BY <2>1, <2>3 DEF SegmentsInv
  <2>13. /\ \A v \in Registered' : v[2] <= calls'
         /\ \A k \in StageKeys : published'[k] # NoValue => KeyOf(published'[k]) = k
    BY <2>1, <2>8, <2>9 DEF SegmentsInv
  <2> QED
    BY <2>10, <2>11, <2>12, <2>13 DEF SegmentsInv
<1>21. ASSUME NEW w \in Windows,
              Clear(w) \/ CloseWindow(w) \/ \E b \in Budgets : Resize(w, b)
       PROVE  SegmentsInv'
  <2>1. UNCHANGED <<at, key, call, calls, value>>
    BY <1>21 DEF Clear, CloseWindow, Resize, threadVars
  <2>2. PICK out : Released(out, Referenced')
    BY <1>21 DEF Clear, CloseWindow, Resize, Forgets
  <2>3. calls' \in Nat /\ calls <= calls'
    BY <2>1, SegmentsAssumption DEF WellFormed, Types
  <2>4. ASSUME NEW u \in StageThreads
        PROVE  /\ at'[u] = "copy" <=> at[u] = "copy"
               /\ at[u] = "copy" => value'[u] = value[u]
               /\ at'[u] \in Before => Own(u)' \notin Registered
    BY <2>1 DEF SegmentsInv, Own
  <2>5. \A x, u \in StageThreads : at'[x] # "out" /\ at'[u] # "out" /\ call'[x] = call'[u] => x = u
    BY <2>1 DEF SegmentsInv
  <2> QED
    BY <2>2, <2>3, <2>4, <2>5, OwnedStill
<1>22. CASE UNCHANGED vars
  <2>1. Registered' = Registered /\ Referenced' = Referenced
    BY <1>22 DEF vars, Registered, Referenced
  <2>2. \A u \in StageThreads : Own(u)' = Own(u)
    BY <1>22 DEF vars, Own
  <2> QED
    BY <1>22, <2>1, <2>2 DEF vars, SegmentsInv, SegmentsAreOwned
<1> QED
  BY <1>1, <1>2, <1>3, <1>4, <1>5, <1>6, <1>7, <1>8, <1>9, <1>10, <1>11, <1>12, <1>13, <1>14,
     <1>15, <1>16, <1>17, <1>18, <1>19, <1>20, <1>20a, <1>21, <1>22 DEF Next, StageStep

LEMMA InitSegments == Init => SegmentsInv
BY DEF Init, SegmentsInit, SegmentsInv, SegmentsAreOwned, Registered, Referenced, Before

LEMMA AlwaysSegments == Spec => []SegmentsInv
BY InitSegments, AlwaysWellFormed, StepSegments, PTL DEF Spec

\* Every segment in shared memory is registered for a value that is alive or is
\* being filled by the thread that created it: none is lost on any path through
\* eviction, replacement, clearing and closing.
THEOREM SegmentsHold == Spec => []SegmentsAreOwned
<1>1. SegmentsInv => SegmentsAreOwned
  BY DEF SegmentsInv
<1> QED
  BY <1>1, AlwaysSegments, PTL
-----------------------------------------------------------------------------
(* The bytes in shared memory. *)

LEMMA PagesSplit ==
    ASSUME NEW V, NEW W
    PROVE  /\ Pages(V \cup W) = Pages(V) \cup Pages(W)
           /\ Pages(V \ W) \cup Pages(V \cap W) = Pages(V)
           /\ Pages(V \ W) \cap Pages(W) = {}
<1>1. \A U : \A p : p \in Pages(U) <=> \E v \in U : p \in {v} \X (1..Size[KeyOf(v)])
  BY DEF Pages
<1>2. \A p, v : p \in {v} \X (1..Size[KeyOf(v)]) => p[1] = v
  OBVIOUS
<1> QED
  BY <1>1, <1>2

LEMMA BytesOfOne ==
    ASSUME NEW v \in Values
    PROVE  IsFiniteSet(Pages({v})) /\ Bytes({v}) = Size[KeyOf(v)]
<1> DEFINE n == Size[KeyOf(v)]
           f == [i \in 1..n |-> <<v, i>>]
<1>1. n \in Nat
  BY SegmentsAssumption DEF Values, KeyOf
<1>2. Pages({v}) = {v} \X (1..n)
  BY DEF Pages
<1>3. f \in Bijection(1..n, {v} \X (1..n))
  <2>1. f \in [1..n -> {v} \X (1..n)]
    OBVIOUS
  <2>2. \A i, j \in 1..n : f[i] = f[j] => i = j
    OBVIOUS
  <2>3. \A p \in {v} \X (1..n) : \E i \in 1..n : f[i] = p
    <3> SUFFICES ASSUME NEW p \in {v} \X (1..n) PROVE \E i \in 1..n : f[i] = p
      OBVIOUS
    <3>1. p[2] \in 1..n /\ p = <<v, p[2]>>
      OBVIOUS
    <3>2. f[p[2]] = p
      BY <3>1
    <3> QED
      BY <3>1, <3>2
  <2> HIDE DEF f
  <2>4. f \in Injection(1..n, {v} \X (1..n))
    BY <2>1, <2>2 DEF Injection, IsInjective
  <2>5. f \in Surjection(1..n, {v} \X (1..n))
    BY <2>1, <2>3 DEF Surjection
  <2> QED
    BY <2>4, <2>5 DEF Bijection
<1>4. IsFiniteSet(1..n) /\ Cardinality(1..n) = n
  BY <1>1, FS_Interval
<1>5. ExistsBijection(1..n, {v} \X (1..n))
  BY <1>3 DEF ExistsBijection
<1> QED
  <2> HIDE DEF n, f
  <2>1. IsFiniteSet({v} \X (1..n)) /\ Cardinality({v} \X (1..n)) = Cardinality(1..n)
    BY <1>4, <1>5, FS_Bijection
  <2>2. IsFiniteSet(Pages({v})) /\ Cardinality(Pages({v})) = n
    BY <1>2, <1>4, <2>1
  <2> QED
    BY <2>2 DEF Bytes, n

BytesInv ==
    /\ IsFiniteSet(Pages(segments))
    /\ publishedBytes \in Nat
    /\ SegmentsWithinBudget

\* What is freed comes off the count and out of the segments alike.
LEMMA SettleBytes ==
    ASSUME NEW table \in [StageKeys -> Values \cup {NoValue}], NEW live, NEW bytes \in Nat,
           NEW released \in SUBSET Values, NEW alive, Settle(table, live, bytes, released, alive),
           Named(table) \ {NoValue} \subseteq live, IsFiniteSet(Pages(live)), Bytes(live) <= bytes
    PROVE  /\ IsFiniteSet(Pages(segments')) /\ publishedBytes' \in Nat
           /\ Bytes(segments') <= publishedBytes' /\ publishedBytes' <= bytes
<1> DEFINE freed == {table[k] : k \in StageKeys} \cap (released \cup (Values \ alive))
<1>1. segments' = live \ freed /\ publishedBytes' = bytes - Bytes(freed)
  BY DEF Settle
<1>2. freed \subseteq live
  BY SegmentsAssumption DEF Named
<1> HIDE DEF freed
<1>3. live \cap freed = freed
  BY <1>2
<1>4. /\ Pages(live \ freed) \cup Pages(freed) = Pages(live)
      /\ Pages(live \ freed) \cap Pages(freed) = {}
  BY <1>3, PagesSplit
<1>5. IsFiniteSet(Pages(live \ freed)) /\ IsFiniteSet(Pages(freed))
  <2>1. Pages(live \ freed) \in SUBSET Pages(live) /\ Pages(freed) \in SUBSET Pages(live)
    BY <1>4
  <2> QED
    BY <2>1, FS_Subset
<1>6. Cardinality(Pages(live)) = Cardinality(Pages(live \ freed)) + Cardinality(Pages(freed)) - Cardinality({})
  BY <1>4, <1>5, FS_Union
<1>7. /\ Cardinality(Pages(live \ freed)) \in Nat /\ Cardinality(Pages(freed)) \in Nat
      /\ Cardinality({}) = 0
  BY <1>5, FS_CardinalityType, FS_EmptySet
<1>8. /\ Bytes(live) = Bytes(live \ freed) + Bytes(freed)
      /\ Bytes(live \ freed) \in Nat /\ Bytes(freed) \in Nat
  BY <1>6, <1>7 DEF Bytes
<1> QED
  BY <1>1, <1>5, <1>8

\* One more segment makes at most its size.
LEMMA BytesOfMore ==
    ASSUME NEW V, IsFiniteSet(Pages(V)), NEW v \in Values
    PROVE  /\ IsFiniteSet(Pages(V \cup {v}))
           /\ Bytes(V \cup {v}) <= Bytes(V) + Size[KeyOf(v)]
           /\ Bytes(V) \in Nat /\ Bytes(V \cup {v}) \in Nat
<1>1. IsFiniteSet(Pages({v})) /\ Bytes({v}) = Size[KeyOf(v)]
  BY BytesOfOne
<1>2. Pages(V \cup {v}) = Pages(V) \cup Pages({v})
  BY PagesSplit
<1>3. /\ IsFiniteSet(Pages(V) \cup Pages({v}))
      /\ Cardinality(Pages(V) \cup Pages({v})) =
            Cardinality(Pages(V)) + Cardinality(Pages({v})) - Cardinality(Pages(V) \cap Pages({v}))
  BY <1>1, FS_Union
<1>4. IsFiniteSet(Pages(V) \cap Pages({v}))
  BY FS_Intersection
<1>5. /\ Cardinality(Pages(V) \cap Pages({v})) \in Nat /\ Cardinality(Pages(V)) \in Nat
      /\ Cardinality(Pages(V) \cup Pages({v})) \in Nat /\ Cardinality(Pages({v})) \in Nat
  BY <1>1, <1>3, <1>4, FS_CardinalityType
<1>6. /\ Bytes(V) = Cardinality(Pages(V)) /\ Bytes({v}) = Cardinality(Pages({v}))
      /\ Bytes(V \cup {v}) = Cardinality(Pages(V) \cup Pages({v}))
  BY <1>2 DEF Bytes
<1>7. Bytes(V \cup {v}) <= Bytes(V) + Bytes({v})
  <2> DEFINE both == Cardinality(Pages(V) \cap Pages({v}))
             all == Cardinality(Pages(V) \cup Pages({v}))
             old == Cardinality(Pages(V))
             new == Cardinality(Pages({v}))
  <2>1. all = old + new - both /\ all \in Nat /\ both \in Nat /\ old \in Nat /\ new \in Nat
    BY <1>3, <1>5
  <2>2. Bytes(V \cup {v}) = all /\ Bytes(V) = old /\ Bytes({v}) = new
    BY <1>6
  <2> HIDE DEF both, all, old, new
  <2> QED
    BY <2>1, <2>2
<1> QED
  BY <1>1, <1>2, <1>3, <1>5, <1>6, <1>7

\* A segment that is taken away takes its size along.
LEMMA BytesOfLess ==
    ASSUME NEW V, IsFiniteSet(Pages(V)), NEW v \in Values, v \in V
    PROVE  /\ IsFiniteSet(Pages(V \ {v}))
           /\ Bytes(V) = Bytes(V \ {v}) + Size[KeyOf(v)]
           /\ Bytes(V \ {v}) \in Nat
<1>1. IsFiniteSet(Pages({v})) /\ Bytes({v}) = Size[KeyOf(v)]
  BY BytesOfOne
<1>2. V \cap {v} = {v}
  OBVIOUS
<1>3. /\ Pages(V \ {v}) \cup Pages({v}) = Pages(V)
      /\ Pages(V \ {v}) \cap Pages({v}) = {}
  BY <1>2, PagesSplit
<1>4. IsFiniteSet(Pages(V \ {v}))
  <2>1. Pages(V \ {v}) \in SUBSET Pages(V)
    BY <1>3
  <2> QED
    BY <2>1, FS_Subset
<1>5. Cardinality(Pages(V)) = Cardinality(Pages(V \ {v})) + Cardinality(Pages({v})) - Cardinality({})
  BY <1>1, <1>3, <1>4, FS_Union
<1>6. /\ Cardinality(Pages(V \ {v})) \in Nat /\ Cardinality(Pages({v})) \in Nat
      /\ Cardinality({}) = 0
  BY <1>1, <1>4, FS_CardinalityType, FS_EmptySet
<1>7. /\ Bytes(V) = Bytes(V \ {v}) + Bytes({v}) /\ Bytes(V \ {v}) \in Nat
  BY <1>5, <1>6 DEF Bytes
<1> QED
  BY <1>1, <1>4, <1>7

\* A step that releases.
LEMMA BytesFall ==
    ASSUME WellFormed, SegmentsInv, BytesInv, NEW released \in SUBSET Values, NEW alive,
           Released(released, alive)
    PROVE  BytesInv'
<1>1. published \in [StageKeys -> Values \cup {NoValue}]
  BY DEF WellFormed, Types
<1>2. Named(published) \ {NoValue} \subseteq segments
  BY DEF SegmentsInv, SegmentsAreOwned, Registered, Named
<1>3. Settle(published, segments, publishedBytes, released, alive)
  BY DEF Released
<1>4. /\ publishedBytes \in Nat /\ IsFiniteSet(Pages(segments)) /\ Bytes(segments) <= publishedBytes
      /\ \E b \in Budgets : publishedBytes <= b
  BY DEF BytesInv, SegmentsWithinBudget
<1>5. /\ IsFiniteSet(Pages(segments')) /\ publishedBytes' \in Nat
      /\ Bytes(segments') <= publishedBytes' /\ publishedBytes' <= publishedBytes
  BY <1>1, <1>2, <1>3, <1>4, SettleBytes
<1>6. \E b \in Budgets : publishedBytes' <= b
  BY <1>4, <1>5, StageAssumption
<1> QED
  BY <1>5, <1>6 DEF BytesInv, SegmentsWithinBudget

LEMMA StepBytes ==
    ASSUME WellFormed, SegmentsInv, BytesInv, [Next]_vars
    PROVE  BytesInv'
<1>1. ASSUME NEW t \in StageThreads, Reserve(t) PROVE BytesInv'
  <2>1. /\ at[t] = "reserve" /\ HasRoom(value[t], maxBytes[win[t]])
        /\ Settle(published, segments \cup {value[t]}, publishedBytes + Size[KeyOf(value[t])], {}, Referenced')
    BY <1>1 DEF Reserve, At, Reserved
  <2>2. value[t] \in Values /\ win[t] \in Windows
    BY <2>1, OwnType DEF WellFormed, Carries, InCall
  <2>3. Size[KeyOf(value[t])] \in Nat /\ maxBytes[win[t]] \in Budgets
    BY <2>2, SegmentsAssumption DEF Values, KeyOf, WellFormed, Types
  <2>4. publishedBytes \in Nat /\ IsFiniteSet(Pages(segments)) /\ Bytes(segments) <= publishedBytes
    BY DEF BytesInv, SegmentsWithinBudget
  <2>5. /\ IsFiniteSet(Pages(segments \cup {value[t]}))
        /\ Bytes(segments \cup {value[t]}) <= publishedBytes + Size[KeyOf(value[t])]
    <3>1. /\ IsFiniteSet(Pages(segments \cup {value[t]}))
          /\ Bytes(segments \cup {value[t]}) <= Bytes(segments) + Size[KeyOf(value[t])]
          /\ Bytes(segments) \in Nat /\ Bytes(segments \cup {value[t]}) \in Nat
      BY <2>2, <2>4, BytesOfMore
    <3> QED
      BY <2>3, <2>4, <3>1
  <2>6. /\ Named(published) \ {NoValue} \subseteq segments \cup {value[t]}
        /\ published \in [StageKeys -> Values \cup {NoValue}]
    BY DEF SegmentsInv, SegmentsAreOwned, Registered, Named, WellFormed, Types
  <2>7. publishedBytes + Size[KeyOf(value[t])] \in Nat
    BY <2>3, <2>4
  <2> DEFINE live == segments \cup {value[t]}
             bytes == publishedBytes + Size[KeyOf(value[t])]
  <2>8. /\ Settle(published, live, bytes, {}, Referenced') /\ bytes \in Nat /\ {} \in SUBSET Values
        /\ Named(published) \ {NoValue} \subseteq live /\ IsFiniteSet(Pages(live)) /\ Bytes(live) <= bytes
    BY <2>1, <2>5, <2>6, <2>7
  <2>9. bytes <= maxBytes[win[t]]
    BY <2>1 DEF HasRoom
  <2> HIDE DEF live, bytes
  <2>10. /\ IsFiniteSet(Pages(segments')) /\ publishedBytes' \in Nat
         /\ Bytes(segments') <= publishedBytes' /\ publishedBytes' <= bytes
    BY <2>6, <2>8, SettleBytes
  <2>11. \E b \in Budgets : publishedBytes' <= b
    <3>1. maxBytes[win[t]] \in Nat /\ bytes \in Nat /\ publishedBytes' \in Nat
      BY <2>3, <2>8, <2>10, StageAssumption
    <3>2. publishedBytes' <= maxBytes[win[t]]
      BY <2>9, <2>10, <3>1
    <3> QED
      BY <2>3, <3>2
  <2> QED
    BY <2>10, <2>11 DEF BytesInv, SegmentsWithinBudget
<1>2. ASSUME NEW t \in StageThreads, Register(t) PROVE BytesInv'
  <2> DEFINE table == [published EXCEPT ![key[t]] = value[t]]
             live == segments \ {published[key[t]]}
  <2>1. at[t] = "copy"
    BY <1>2 DEF Register
  <2>2. value[t] \in Values /\ KeyOf(value[t]) = key[t] /\ key[t] \in StageKeys
    BY <2>1, OwnType DEF WellFormed, Carries, InCall
  <2>3. Settle(table, live, publishedBytes, {}, Referenced')
    BY <1>2, <2>2 DEF Register, Registers
  <2>4. /\ table \in [StageKeys -> Values \cup {NoValue}]
        /\ \A k \in StageKeys : table[k] = IF k = key[t] THEN value[t] ELSE published[k]
    BY <2>2 DEF WellFormed, Types
  <2>5. /\ publishedBytes \in Nat /\ IsFiniteSet(Pages(segments)) /\ Bytes(segments) <= publishedBytes
        /\ \E b \in Budgets : publishedBytes <= b
    BY DEF BytesInv, SegmentsWithinBudget
  <2>6. /\ IsFiniteSet(Pages(live)) /\ Bytes(live) <= publishedBytes
    <3>1. Pages(live) \in SUBSET Pages(segments)
      <4>1. Pages(live) \cup Pages(segments \cap {published[key[t]]}) = Pages(segments)
        BY PagesSplit
      <4> QED
        BY <4>1
    <3>2. IsFiniteSet(Pages(live)) /\ Cardinality(Pages(live)) <= Cardinality(Pages(segments))
      BY <2>5, <3>1, FS_Subset
    <3>3. Cardinality(Pages(live)) \in Nat /\ Cardinality(Pages(segments)) \in Nat
      BY <2>5, <3>2, FS_CardinalityType
    <3> QED
      BY <2>5, <3>2, <3>3 DEF Bytes
  <2> HIDE DEF table
  <2>7. Named(table) \ {NoValue} \subseteq live
    BY <2>1, <2>4, RegisterTable
  <2> HIDE DEF live
  <2>8. /\ IsFiniteSet(Pages(segments')) /\ publishedBytes' \in Nat
        /\ Bytes(segments') <= publishedBytes' /\ publishedBytes' <= publishedBytes
    BY <2>3, <2>4, <2>5, <2>6, <2>7, SettleBytes
  <2>9. \E b \in Budgets : publishedBytes' <= b
    BY <2>5, <2>8, StageAssumption
  <2> QED
    BY <2>8, <2>9 DEF BytesInv, SegmentsWithinBudget
<1>2a. ASSUME NEW t \in StageThreads, CopyRaises(t) PROVE BytesInv'
  <2> DEFINE live == segments \ {value[t]}
             bytes == publishedBytes - Size[KeyOf(value[t])]
  <2>1. at[t] = "copy"
    BY <1>2a DEF CopyRaises
  <2>2. value[t] \in Values
    BY <2>1, OwnType DEF WellFormed, Carries
  <2>3. value[t] \in segments /\ value[t] \notin Registered
    BY <2>1, OwnType DEF SegmentsInv, SegmentsAreOwned, WellFormed, Carries, Before
  <2>4. /\ publishedBytes \in Nat /\ IsFiniteSet(Pages(segments)) /\ Bytes(segments) <= publishedBytes
        /\ \E b \in Budgets : publishedBytes <= b
    BY DEF BytesInv, SegmentsWithinBudget
  <2>5. Size[KeyOf(value[t])] \in Nat
    BY <2>2, SegmentsAssumption DEF Values, KeyOf
  <2>6. /\ IsFiniteSet(Pages(live)) /\ Bytes(segments) = Bytes(live) + Size[KeyOf(value[t])]
        /\ Bytes(live) \in Nat
    BY <2>2, <2>3, <2>4, BytesOfLess
  <2>7. Settle(published, live, bytes, {}, Referenced')
    BY <1>2a DEF CopyRaises, Unreserved
  <2>8. /\ published \in [StageKeys -> Values \cup {NoValue}]
        /\ Named(published) \ {NoValue} \subseteq live
    BY <2>3 DEF SegmentsInv, SegmentsAreOwned, Registered, Named, WellFormed, Types
  <2>9. bytes \in Nat /\ Bytes(live) <= bytes /\ bytes <= publishedBytes
    <3> HIDE DEF live
    <3> QED
      BY <2>4, <2>5, <2>6
  <2> HIDE DEF live, bytes
  <2>10. {} \in SUBSET Values
    OBVIOUS
  <2>11. /\ IsFiniteSet(Pages(segments')) /\ publishedBytes' \in Nat
         /\ Bytes(segments') <= publishedBytes' /\ publishedBytes' <= bytes
    BY <2>6, <2>7, <2>8, <2>9, <2>10, SettleBytes
  <2>12. \E b \in Budgets : publishedBytes' <= b
    BY <2>4, <2>9, <2>11, StageAssumption
  <2> QED
    BY <2>11, <2>12 DEF BytesInv, SegmentsWithinBudget
<1>3. ASSUME NEW t \in StageThreads, Put(t) PROVE BytesInv'
  <2>1. win[t] \in Windows /\ value[t] \in Values
    BY <1>3, OwnType DEF Put, WellFormed, InCall, Carries
  <2>2. PICK out \in SUBSET Values : Released(out, Referenced')
    BY <1>3, <2>1 DEF Put, WellFormed, Types
  <2> QED
    BY <2>2, BytesFall
<1>4. ASSUME NEW w \in Windows,
              Clear(w) \/ CloseWindow(w) \/ \E b \in Budgets : Resize(w, b)
      PROVE  BytesInv'
  <2>1. PICK out \in SUBSET Values : Released(out, Referenced')
    BY <1>4 DEF Clear, CloseWindow, Resize, Forgets, WellFormed, Types
  <2> QED
    BY <2>1, BytesFall
<1>5. ASSUME Forgets PROVE BytesInv'
  BY <1>5, BytesFall DEF Forgets
<1>6. ASSUME NEW t \in StageThreads, StageStep(t)
      PROVE  Put(t) \/ Reserve(t) \/ Register(t) \/ CopyRaises(t) \/ Forgets
  BY <1>6 DEF StageStep, Miss, Hit, Attach, BeginCompute, BeginRefused, AttachGone, Reuse, Retry,
     Compute, ComputeRaises, PutRefused, ReserveRefused, FinishPop, FinishTell, Leave
<1>7. ASSUME NEW t \in StageThreads, NEW w \in Windows, NEW k \in StageKeys, StartCall(t, w, k)
      PROVE  Forgets
  BY <1>7 DEF StartCall
<1>8. ASSUME NEW t \in StageThreads, GiveUp(t) PROVE Forgets
  BY <1>8 DEF GiveUp
<1>9. CASE UNCHANGED vars
  BY <1>9 DEF vars, BytesInv, SegmentsWithinBudget
<1> QED
  BY <1>1, <1>2, <1>2a, <1>3, <1>4, <1>5, <1>6, <1>7, <1>8, <1>9 DEF Next

LEMMA InitBytes == Init => BytesInv
<1>1. Pages({}) = {}
  BY DEF Pages
<1>2. IsFiniteSet(Pages({})) /\ Bytes({}) = 0
  BY <1>1, NoBytes, FS_EmptySet
<1>3. \E b \in Budgets : 0 <= b
  BY StageAssumption
<1> QED
  BY <1>2, <1>3 DEF Init, SegmentsInit, BytesInv, SegmentsWithinBudget

LEMMA AlwaysBytes == Spec => []BytesInv
BY InitBytes, AlwaysWellFormed, AlwaysSegments, StepBytes, PTL DEF Spec

\* Shared memory never holds more than the count says, and the count never
\* more than a cache may have, though it is checked before the copy and the
\* superseded stay counted: the leak of bytes can only make publication rarer.
THEOREM BytesHold == Spec => []SegmentsWithinBudget
<1>1. BytesInv => SegmentsWithinBudget
  BY DEF BytesInv
<1> QED
  BY <1>1, AlwaysBytes, PTL

\* The type invariant; that the count of bytes is never negative rests on the
\* bytes of the segments.
THEOREM StageTypes == Spec => []TypeOK
<1>1. WellFormed /\ BytesInv => TypeOK
  BY DEF WellFormed, Types, BytesInv, TypeOK, SegmentsTypeOK
<1> QED
  BY <1>1, AlwaysWellFormed, AlwaysBytes, PTL
=============================================================================
