----------------------------- MODULE PoolProofs -----------------------------
(* Theorems about the compute pool, for any number of threads, processes,    *)
(* slots, calls and deaths.                                                  *)
EXTENDS PoolProps, TLAPS, SequenceTheorems

Holding == {"wrap", "await", "retire", "reclaim", "respawn"}
Unanswered == Holding \cup {"acquire", "local"}

\* Where a thread is in run() decides whether it holds a worker, and in the
\* finally clause its reply does: `worker' is None exactly where the code has
\* put it back or retired it.
HeldByPlace(t) ==
    /\ pc[t] \in Holding => held[t] \in Workers
    /\ pc[t] \in {"out", "acquire", "local", "value"} => held[t] = NoWorker
    /\ pc[t] = "release" => (held[t] = NoWorker <=> reply[t] = <<>>)
    /\ pc[t] \in Unanswered => reply[t] = <<>>

PlaceTypes ==
    /\ idle \in Seq(Workers)
    /\ held \in [Threads -> Workers \cup {NoWorker}]
    /\ pc \in [Threads -> Places]
    /\ DOMAIN reply = Threads

PlaceInv ==
    /\ PlaceTypes
    /\ \A t \in Threads : HeldByPlace(t)
    /\ WorkerInOnePlace

\* A step that leaves the queue and the hands of the threads alone.
LEMMA HandsStill ==
    ASSUME PlaceInv, UNCHANGED queueVars, closed => closed', pc' \in [Threads -> Places],
           DOMAIN reply' = Threads, \A t \in Threads : HeldByPlace(t)'
    PROVE  PlaceInv'
BY DEF PlaceInv, PlaceTypes, WorkerInOnePlace, queueVars, Elems

\* The first worker of the queue goes to a thread that has none.
LEMMA HandOut ==
    ASSUME PlaceInv, NEW t \in Threads, held[t] = NoWorker, idle # <<>>, UNCHANGED closed,
           held' = [held EXCEPT ![t] = Head(idle)], idle' = Tail(idle)
    PROVE  /\ WorkerInOnePlace'
           /\ idle' \in Seq(Workers) /\ held' \in [Threads -> Workers \cup {NoWorker}]
           /\ Head(idle) \in Workers
<1>1. /\ idle \in Seq(Workers) /\ held \in [Threads -> Workers \cup {NoWorker}]
      /\ WorkerInOnePlace
  BY DEF PlaceInv, PlaceTypes
<1>2. Head(idle) = idle[1] /\ Head(idle) \in Workers /\ Len(idle) \in Nat \ {0}
  BY <1>1
<1>3. /\ idle' \in Seq(Workers) /\ Len(idle') = Len(idle) - 1
      /\ \A i \in 1..Len(idle) - 1 : idle'[i] = idle[i + 1]
  BY <1>1, <1>2
<1>4. \A i \in DOMAIN idle' : i \in 1..Len(idle) - 1 /\ i + 1 \in DOMAIN idle /\ idle'[i] = idle[i + 1]
  BY <1>1, <1>2, <1>3
<1>5. \A u \in Threads : held'[u] = IF u = t THEN idle[1] ELSE held[u]
  BY <1>1, <1>2
<1>6. \A i, k \in DOMAIN idle' : idle'[i] = idle'[k] => i = k
  BY <1>1, <1>4 DEF WorkerInOnePlace
<1>7. 1 \in DOMAIN idle
  BY <1>1, <1>2
<1>8. \A u, v \in Threads : held'[u] = held'[v] /\ held'[u] # NoWorker => u = v
  BY <1>1, <1>5, <1>7 DEF WorkerInOnePlace, Elems
<1>9. \A u \in Threads : held'[u] \notin Elems(idle)'
  <2> SUFFICES ASSUME NEW u \in Threads, NEW i \in DOMAIN idle', held'[u] = idle'[i]
               PROVE  FALSE
    BY DEF Elems
  <2>1. i + 1 \in DOMAIN idle /\ idle'[i] = idle[i + 1] /\ i + 1 # 1
    BY <1>4
  <2>2. CASE u = t
    BY <1>1, <1>5, <1>7, <2>1, <2>2 DEF WorkerInOnePlace
  <2>3. CASE u # t
    BY <1>1, <1>5, <2>1, <2>3 DEF WorkerInOnePlace, Elems
  <2> QED
    BY <2>2, <2>3
<1>10. ASSUME NEW w \in Workers, ~closed, ~SpawnMayFail
       PROVE  w \in Elems(idle)' \/ \E u \in Threads : held'[u] = w
  <2>1. CASE w \in Elems(idle)
    <3>1. PICK i \in DOMAIN idle : idle[i] = w
      BY <2>1 DEF Elems
    <3>2. CASE i = 1
      BY <1>5, <3>1, <3>2
    <3>3. CASE i # 1
      <4>1. i - 1 \in DOMAIN idle' /\ idle'[i - 1] = idle[i]
        BY <1>1, <1>2, <1>3, <3>1, <3>3
      <4> QED
        BY <3>1, <4>1 DEF Elems
    <3> QED
      BY <3>2, <3>3
  <2>2. CASE \E u \in Threads : held[u] = w
    BY <1>5, <2>2, PoolAssumption
  <2> QED
    BY <1>1, <1>10, <2>1, <2>2 DEF WorkerInOnePlace
<1> QED
  BY <1>2, <1>3, <1>5, <1>1, <1>6, <1>8, <1>9, <1>10 DEF WorkerInOnePlace

\* A thread puts the worker it holds back at the end of the queue.
LEMMA HandBack ==
    ASSUME PlaceInv, NEW t \in Threads, held[t] \in Workers, UNCHANGED closed,
           held' = [held EXCEPT ![t] = NoWorker], idle' = Append(idle, held[t])
    PROVE  /\ WorkerInOnePlace'
           /\ idle' \in Seq(Workers) /\ held' \in [Threads -> Workers \cup {NoWorker}]
<1>1. /\ idle \in Seq(Workers) /\ held \in [Threads -> Workers \cup {NoWorker}]
      /\ WorkerInOnePlace
  BY DEF PlaceInv, PlaceTypes
<1>2. /\ idle' \in Seq(Workers) /\ Len(idle') = Len(idle) + 1 /\ Len(idle) \in Nat
      /\ idle'[Len(idle) + 1] = held[t]
      /\ \A i \in 1..Len(idle) : idle'[i] = idle[i]
  BY <1>1
<1>3. DOMAIN idle' = 1..Len(idle) + 1 /\ DOMAIN idle = 1..Len(idle)
  BY <1>1, <1>2
<1>4. \A u \in Threads : held'[u] = IF u = t THEN NoWorker ELSE held[u]
  BY <1>1
<1>5. \A i \in DOMAIN idle : idle[i] # held[t]
  BY <1>1 DEF WorkerInOnePlace, Elems
<1>6. \A i, k \in DOMAIN idle' : idle'[i] = idle'[k] => i = k
  BY <1>1, <1>2, <1>3, <1>5 DEF WorkerInOnePlace
<1>7. \A u, v \in Threads : held'[u] = held'[v] /\ held'[u] # NoWorker => u = v
  BY <1>1, <1>4 DEF WorkerInOnePlace
<1>8. Elems(idle') = Elems(idle) \cup {held[t]}
  BY <1>2, <1>3 DEF Elems
<1>9. \A u \in Threads : held'[u] \notin Elems(idle')
  <2>1. NoWorker \notin Elems(idle')
    BY <1>2, <1>3, PoolAssumption DEF Elems
  <2> QED
    BY <1>1, <1>4, <1>8, <2>1 DEF WorkerInOnePlace
<1>10. closed \/ SpawnMayFail \/
       \A w \in Workers : w \in Elems(idle') \/ \E u \in Threads : held'[u] = w
  BY <1>1, <1>4, <1>8 DEF WorkerInOnePlace
<1>11. Elems(idle)' = Elems(idle')
  BY DEF Elems
<1> QED
  BY <1>1, <1>2, <1>4, <1>6, <1>7, <1>9, <1>10, <1>11 DEF WorkerInOnePlace

\* A worker that cannot be replaced is dropped.
LEMMA HandDropped ==
    ASSUME PlaceInv, NEW t \in Threads, UNCHANGED <<closed, idle>>, closed \/ SpawnMayFail,
           held' = [held EXCEPT ![t] = NoWorker]
    PROVE  WorkerInOnePlace' /\ held' \in [Threads -> Workers \cup {NoWorker}]
<1>1. /\ idle \in Seq(Workers) /\ held \in [Threads -> Workers \cup {NoWorker}]
      /\ WorkerInOnePlace
  BY DEF PlaceInv, PlaceTypes
<1>2. \A u \in Threads : held'[u] = IF u = t THEN NoWorker ELSE held[u]
  BY <1>1
<1>3. NoWorker \notin Elems(idle)
  BY <1>1, PoolAssumption DEF Elems
<1>4. Elems(idle)' = Elems(idle)
  BY DEF Elems
<1> QED
  BY <1>1, <1>2, <1>3, <1>4 DEF WorkerInOnePlace

LEMMA PlaceInit == Init => PlaceInv
<1> SUFFICES ASSUME Init PROVE PlaceInv
  OBVIOUS
<1>1. idle = [i \in 1..NWorkers |-> i - 1] /\ NWorkers \in Nat \ {0}
  BY SlotsAssumption DEF Init
<1>2. idle \in Seq(Workers) /\ DOMAIN idle = 1..NWorkers
  BY <1>1 DEF Workers
<1>3. ASSUME NEW w \in Workers PROVE w \in Elems(idle)
  <2>1. w + 1 \in 1..NWorkers /\ idle[w + 1] = w
    BY <1>1 DEF Workers
  <2> QED
    BY <1>2, <2>1 DEF Elems
<1>4. \A t \in Threads : held[t] = NoWorker /\ pc[t] = "out"
  BY DEF Init
<1>5. NoWorker \notin Elems(idle)
  <2>1. \A i \in DOMAIN idle : idle[i] \in Workers
    BY <1>1, <1>2 DEF Workers
  <2>2. NoWorker \notin Workers
    BY PoolAssumption
  <2> QED
    BY <2>1, <2>2 DEF Elems
<1>6. PlaceTypes
  BY <1>2 DEF Init, PlaceTypes, Places
<1>7. \A t \in Threads : HeldByPlace(t)
  BY <1>4 DEF HeldByPlace, Holding, Unanswered
<1>8. WorkerInOnePlace
  BY <1>1, <1>2, <1>3, <1>4, <1>5 DEF WorkerInOnePlace
<1> QED
  BY <1>6, <1>7, <1>8 DEF PlaceInv

\* Every step of the pool keeps each worker in one place.
LEMMA PlaceNext == PlaceInv /\ [Next]_vars => PlaceInv'
<1> SUFFICES ASSUME PlaceInv, [Next]_vars PROVE PlaceInv'
  OBVIOUS
<1> USE DEF At
<1>a. /\ PlaceTypes /\ WorkerInOnePlace
      /\ \A t \in Threads : HeldByPlace(t)
  BY DEF PlaceInv
<1>b. /\ pc \in [Threads -> Places] /\ DOMAIN reply = Threads
      /\ held \in [Threads -> Workers \cup {NoWorker}]
  BY <1>a DEF PlaceTypes
<1>c. NoWorker \notin Workers /\ Threads \cap Workers = {}
  BY PoolAssumption
\* Steps that move no thread.
<1>d. ASSUME UNCHANGED <<queueVars, pc, reply>>, closed => closed'
      PROVE  PlaceInv'
  BY <1>a, <1>b, <1>d, HandsStill DEF HeldByPlace, queueVars
\* Steps that move a thread and leave the queue and its hands alone.
<1>e. ASSUME NEW t \in Threads, UNCHANGED <<queueVars, closed>>, NEW there \in Places,
             pc' = [pc EXCEPT ![t] = there], DOMAIN reply' = Threads,
             \A u \in Threads \ {t} : reply'[u] = reply[u],
             HeldByPlace(t)'
      PROVE  PlaceInv'
  <2>1. \A u \in Threads : HeldByPlace(u)'
    BY <1>a, <1>b, <1>e DEF HeldByPlace, queueVars
  <2> QED
    BY <1>b, <1>e, <2>1, HandsStill
<1>1. ASSUME NEW t \in Threads, RunStep(t) PROVE PlaceInv'
  <2>t. HeldByPlace(t)
    BY <1>a
  <2>1. CASE StartRun(t)
    <3>1. /\ pc' = [pc EXCEPT ![t] = "acquire"] /\ "acquire" \in Places
          /\ UNCHANGED <<queueVars, closed>> /\ DOMAIN reply' = Threads
          /\ \A u \in Threads \ {t} : reply'[u] = reply[u]
      BY <1>b, <2>1 DEF StartRun, queueVars, Places
    <3>2. HeldByPlace(t)'
      BY <1>b, <2>t, <2>1 DEF StartRun, HeldByPlace, Holding, Unanswered
    <3> QED
      BY <1>e, <3>1, <3>2
  <2>2. ASSUME NEW n, Acquire(t, n) PROVE PlaceInv'
    <3>1. held[t] = NoWorker
      BY <2>t, <2>2 DEF Acquire, HeldByPlace
    <3>2. /\ WorkerInOnePlace'
          /\ idle' \in Seq(Workers) /\ held' \in [Threads -> Workers \cup {NoWorker}]
          /\ Head(idle) \in Workers
      BY <2>2, <3>1, HandOut DEF Acquire
    <3>3. \A u \in Threads : HeldByPlace(u)'
      BY <1>a, <1>b, <2>2, <3>2 DEF Acquire, HeldByPlace, Holding, Unanswered
    <3> QED
      BY <1>b, <2>2, <3>2, <3>3 DEF Acquire, PlaceInv, PlaceTypes, Places
  <2>3. CASE AcquireRefused(t) \/ LocalDone(t) \/ NoticeDeath(t) \/ NoticeClosed(t)
             \/ RetireKill(t) \/ RetireReclaim(t) \/ Leave(t)
             \/ TakeRaises(t) \/ Return(t) \/ Send(t) \/ SendBroken(t)
    <3> DEFINE Goes(from, to) == /\ pc[t] = from /\ pc' = [pc EXCEPT ![t] = to]
                                 /\ UNCHANGED <<idle, held, closed, reply>>
    <3>5. AcquireRefused(t) => Goes("acquire", "out")
      BY DEF AcquireRefused
    <3>6. LocalDone(t) => Goes("local", "release")
      BY DEF LocalDone
    <3>7. NoticeDeath(t) \/ NoticeClosed(t) => Goes("await", "retire")
      BY DEF NoticeDeath, NoticeClosed, awaitFrame
    <3>8. RetireKill(t) => Goes("retire", "reclaim")
      BY DEF RetireKill
    <3>9. RetireReclaim(t) => Goes("reclaim", "respawn")
      BY DEF RetireReclaim
    <3>10. Leave(t) => Goes("release", "out") /\ reply[t] = <<>>
      BY DEF Leave, releasedFrame, queueVars
    <3>11. TakeRaises(t) \/ Return(t) => Goes("value", "out")
      BY DEF TakeRaises, Return, valueFrame
    <3>12. Send(t) => Goes("wrap", "await")
      BY DEF Send, Sending, Wrapped, Wrapping, queueVars
    <3>13. SendBroken(t) => Goes("wrap", "retire")
      BY DEF SendBroken, Sending, Wrapped, Wrapping, queueVars
    <3>1. ASSUME NEW from, NEW to \in Places, Goes(from, to),
                 \/ from \in Holding /\ to \in Holding
                 \/ from = "local" /\ to = "release"
                 \/ from \in {"acquire", "value"} /\ to = "out"
                 \/ from = "release" /\ to = "out" /\ reply[t] = <<>>
          PROVE  PlaceInv'
      <4>1. HeldByPlace(t)'
        BY <1>b, <1>c, <2>t, <3>1 DEF HeldByPlace, Holding, Unanswered
      <4> QED
        BY <1>b, <1>e, <3>1, <4>1 DEF queueVars
    <3>2. /\ {"wrap", "await", "retire", "reclaim", "respawn"} \subseteq Holding
          /\ Holding \cup {"out", "release"} \subseteq Places
      BY DEF Holding, Places
    <3> HIDE DEF Goes
    <3>3. CASE AcquireRefused(t)
      BY <3>1, <3>2, <3>3, <3>5
    <3>4. CASE LocalDone(t)
      BY <3>1, <3>2, <3>4, <3>6
    <3>14. CASE NoticeDeath(t) \/ NoticeClosed(t)
      BY <3>1, <3>2, <3>14, <3>7
    <3>15. CASE RetireKill(t)
      BY <3>1, <3>2, <3>15, <3>8
    <3>16. CASE RetireReclaim(t)
      BY <3>1, <3>2, <3>16, <3>9
    <3>17. CASE Leave(t)
      BY <3>1, <3>2, <3>17, <3>10
    <3>18. CASE TakeRaises(t) \/ Return(t)
      BY <3>1, <3>2, <3>18, <3>11
    <3>19. CASE Send(t)
      BY <3>1, <3>2, <3>19, <3>12
    <3>20. CASE SendBroken(t)
      BY <3>1, <3>2, <3>20, <3>13
    <3> QED
      BY <2>3, <3>3, <3>4, <3>14, <3>15, <3>16, <3>17, <3>18, <3>19, <3>20
  <2>4. CASE SendUnpicklable(t)
    <3>1. /\ pc[t] = "wrap" /\ pc' = [pc EXCEPT ![t] = "local"]
          /\ idle' = Append(idle, held[t]) /\ held' = [held EXCEPT ![t] = NoWorker]
          /\ UNCHANGED <<closed, reply>>
      BY <2>4 DEF SendUnpicklable, Sending, Wrapped, Wrapping
    <3>2. held[t] \in Workers
      BY <2>t, <3>1 DEF HeldByPlace, Holding
    <3>3. /\ WorkerInOnePlace'
          /\ idle' \in Seq(Workers) /\ held' \in [Threads -> Workers \cup {NoWorker}]
      BY <3>1, <3>2, HandBack
    <3>4. \A u \in Threads : HeldByPlace(u)'
      BY <1>a, <1>b, <3>1 DEF HeldByPlace, Holding, Unanswered
    <3> QED
      BY <1>b, <3>1, <3>3, <3>4 DEF PlaceInv, PlaceTypes, Places
  <2>5. CASE Receive(t)
    <3>1. /\ pc[t] = "await" /\ pc' = [pc EXCEPT ![t] = "release"]
          /\ reply' = [reply EXCEPT ![t] = <<Head(outbox[held[t]])>>]
          /\ UNCHANGED <<idle, held, closed>>
      BY <2>5 DEF Receive, awaitFrame
    <3>2. reply'[t] # <<>>
      BY <1>b, <3>1
    <3>3. HeldByPlace(t)'
      BY <1>b, <1>c, <2>t, <3>1, <3>2 DEF HeldByPlace, Holding, Unanswered
    <3> QED
      BY <1>b, <1>e, <3>1, <3>3 DEF queueVars, Places
  <2>6. CASE RetireRespawn(t)
    <3>1. /\ pc[t] = "respawn" /\ pc' = [pc EXCEPT ![t] = "release"]
          /\ idle' = Append(idle, held[t]) /\ held' = [held EXCEPT ![t] = NoWorker]
          /\ UNCHANGED <<closed, reply>>
      BY <2>6 DEF RetireRespawn, respawnFrame
    <3>2. held[t] \in Workers /\ reply[t] = <<>>
      BY <2>t, <3>1 DEF HeldByPlace, Holding, Unanswered
    <3>3. /\ WorkerInOnePlace'
          /\ idle' \in Seq(Workers) /\ held' \in [Threads -> Workers \cup {NoWorker}]
      BY <3>1, <3>2, HandBack
    <3>4. \A u \in Threads : HeldByPlace(u)'
      BY <1>a, <1>b, <3>1, <3>2 DEF HeldByPlace, Holding, Unanswered
    <3> QED
      BY <1>b, <3>1, <3>3, <3>4 DEF PlaceInv, PlaceTypes, Places
  <2>7. CASE RetireLoses(t)
    <3>1. /\ pc[t] = "respawn" /\ pc' = [pc EXCEPT ![t] = "release"]
          /\ closed \/ SpawnMayFail
          /\ held' = [held EXCEPT ![t] = NoWorker]
          /\ UNCHANGED <<closed, idle, reply>>
      BY <2>7 DEF RetireLoses, respawnFrame
    <3>2. reply[t] = <<>>
      BY <2>t, <3>1 DEF HeldByPlace, Unanswered, Holding
    <3>3. WorkerInOnePlace' /\ held' \in [Threads -> Workers \cup {NoWorker}]
      BY <3>1, HandDropped
    <3>4. \A u \in Threads : HeldByPlace(u)'
      BY <1>a, <1>b, <3>1, <3>2 DEF HeldByPlace, Holding, Unanswered
    <3> QED
      BY <1>a, <1>b, <3>1, <3>3, <3>4 DEF PlaceInv, PlaceTypes, Places
  <2>8. CASE ReleaseLease(t) \/ ReleaseValue(t)
    BY <1>d, <2>8 DEF ReleaseLease, ReleaseValue, valueFrame, queueVars
  <2>9. CASE GiveBack(t)
    <3>1. /\ pc[t] = "release" /\ pc' = [pc EXCEPT ![t] = "value"] /\ reply[t] # <<>>
          /\ idle' = Append(idle, held[t]) /\ held' = [held EXCEPT ![t] = NoWorker]
          /\ UNCHANGED <<closed, reply>>
      BY <2>9 DEF GiveBack, releasedFrame
    <3>2. held[t] \in Workers
      BY <1>b, <2>t, <3>1 DEF HeldByPlace
    <3>3. /\ WorkerInOnePlace'
          /\ idle' \in Seq(Workers) /\ held' \in [Threads -> Workers \cup {NoWorker}]
      BY <3>1, <3>2, HandBack
    <3>4. \A u \in Threads : HeldByPlace(u)'
      BY <1>a, <1>b, <3>1 DEF HeldByPlace, Holding, Unanswered
    <3> QED
      BY <1>b, <3>1, <3>3, <3>4 DEF PlaceInv, PlaceTypes, Places
  <2>10. CASE TakeValue(t)
    <3>1. /\ UNCHANGED <<idle, held, closed, pc>> /\ pc[t] = "value"
          /\ DOMAIN reply' = Threads /\ \A u \in Threads \ {t} : reply'[u] = reply[u]
      BY <1>b, <2>10 DEF TakeValue, valueFrame
    <3>2. \A u \in Threads : HeldByPlace(u)'
      BY <1>a, <3>1 DEF HeldByPlace, Holding, Unanswered
    <3> QED
      BY <1>b, <3>1, <3>2, HandsStill DEF queueVars
  <2> QED
    BY <1>1, <2>1, <2>2, <2>3, <2>4, <2>5, <2>6, <2>7, <2>8, <2>9, <2>10 DEF RunStep
<1>2. ASSUME NEW p \in Parties, WrapStep(p) PROVE PlaceInv'
  <2>1. CASE WrapRaises(p) /\ p \in Threads
    <3>1. /\ pc[p] = "wrap" /\ pc' = [pc EXCEPT ![p] = "retire"] /\ "retire" \in Places
          /\ UNCHANGED <<idle, held, closed, reply>>
      BY <2>1 DEF WrapRaises, Wrapping, wrapFrame, Places
    <3>2. HeldByPlace(p)'
      BY <1>a, <1>b, <2>1, <3>1 DEF HeldByPlace, Holding, Unanswered
    <3> QED
      BY <1>b, <1>e, <2>1, <3>1, <3>2 DEF queueVars
  <2>2. CASE ~(WrapRaises(p) /\ p \in Threads)
    <3>1. UNCHANGED <<idle, held, closed, pc, reply>>
      BY <1>2, <2>2 DEF WrapStep, WrapLease, WrapFallback, WrapOversize, WrapWrite,
                        WrapPublish, WrapReject,
           WrapRaises, wrapFrame
    <3> QED
      BY <1>d, <3>1 DEF queueVars
  <2> QED
    BY <2>1, <2>2
<1>3. ASSUME NEW w \in Workers, ChildStep(w) \/ Die(w) \/ CloseWorker(w) PROVE PlaceInv'
  <2>1. UNCHANGED <<idle, held, closed, pc, reply>>
    BY <1>3 DEF ChildStep, ChildReceive, ChildStop, ChildTake, ChildTakeRaises, ChildCompute,
         ChildFails, ChildWrapped, ChildSend, Die, CloseWorker, childFrame, threadVars
  <2> QED
    BY <1>d, <2>1 DEF queueVars
<1>4. ASSUME NEW t \in Threads, Cancel(t) \/ PassCancel(t) PROVE PlaceInv'
  <2>1. UNCHANGED <<idle, held, closed, pc, reply>>
    BY <1>4 DEF Cancel, PassCancel, threadVars
  <2> QED
    BY <1>d, <2>1 DEF queueVars
<1>5. CASE Close \/ Unmap \/ UNCHANGED vars
  <2>1. UNCHANGED <<idle, held, pc, reply>> /\ (closed => closed')
    BY <1>5 DEF Close, Unmap, vars, threadVars
  <2> QED
    BY <1>d, <2>1 DEF queueVars
<1> QED
  BY <1>1, <1>2, <1>3, <1>4, <1>5 DEF Next

\* A worker is never used by two threads, never in the queue twice or while
\* somebody holds it, and none is lost while the pool is open (ProcessPool.run,
\* _retire), for any number of threads, processes, slots, calls and deaths.
THEOREM OneHolder == Spec => []WorkerInOnePlace
<1>1. Init => PlaceInv
  BY PlaceInit
<1>2. PlaceInv /\ [Next]_vars => PlaceInv'
  BY PlaceNext
<1>3. PlaceInv => WorkerInOnePlace
  BY DEF PlaceInv
<1> QED
  BY <1>1, <1>2, <1>3, PTL DEF Spec

Distinct(q) == \A i, k \in DOMAIN q : q[i] = q[k] => i = k

LEMMA OneElement ==
    ASSUME NEW S, NEW q \in Seq(S), Len(q) <= 1, q # <<>>
    PROVE  q = <<q[1]>> /\ q[1] \in S /\ Head(q) = q[1]
<1>1. Len(q) = 1
  BY EmptySeq, LenProperties
<1>2. q[1] \in S /\ Head(q) = q[1]
  BY <1>1
<1>3. <<q[1]>> \in Seq(S) /\ Len(<<q[1]>>) = 1 /\ <<q[1]>>[1] = q[1]
  BY <1>2
<1>4. \A i \in 1..Len(q) : q[i] = <<q[1]>>[i]
  BY <1>1, <1>3
<1> QED
  BY <1>1, <1>2, <1>3, <1>4, SeqEqual

LEMMA NoElements == Elems(<<>>) = {} /\ Distinct(<<>>)
BY DEF Elems, Distinct

LEMMA ElemsType ==
    ASSUME NEW S, NEW q \in Seq(S)
    PROVE  Elems(q) \subseteq S /\ (q # <<>> => Head(q) \in Elems(q)) /\ (Elems(q) = {} => q = <<>>)
<1>1. q # <<>> => 1 \in DOMAIN q /\ q[1] = Head(q)
  OBVIOUS
<1> QED
  BY <1>1 DEF Elems

\* Dropping the head of a queue without repetitions drops that element.
LEMMA ElemsOfTail ==
    ASSUME NEW S, NEW q \in Seq(S), q # <<>>
    PROVE  /\ Tail(q) \in Seq(S) /\ Head(q) \in S /\ Head(q) \in Elems(q)
           /\ Elems(q) = Elems(Tail(q)) \cup {Head(q)}
           /\ Distinct(q) => Distinct(Tail(q)) /\ Head(q) \notin Elems(Tail(q))
<1>1. /\ Len(q) \in Nat \ {0} /\ Tail(q) \in Seq(S) /\ Head(q) = q[1] /\ Head(q) \in S
      /\ Len(Tail(q)) = Len(q) - 1
      /\ \A i \in 1..Len(q) - 1 : Tail(q)[i] = q[i + 1]
  OBVIOUS
<1>2. DOMAIN q = 1..Len(q) /\ DOMAIN Tail(q) = 1..Len(q) - 1
  BY <1>1
<1>3. \A i \in DOMAIN Tail(q) : i + 1 \in DOMAIN q /\ i + 1 # 1 /\ Tail(q)[i] = q[i + 1]
  BY <1>1, <1>2
<1>4. 1 \in DOMAIN q
  BY <1>1, <1>2
<1>5. \A i \in DOMAIN q : i # 1 => i - 1 \in DOMAIN Tail(q) /\ Tail(q)[i - 1] = q[i]
  BY <1>1, <1>2
<1>6. Elems(q) = Elems(Tail(q)) \cup {Head(q)}
  <2>1. ASSUME NEW i \in DOMAIN q PROVE q[i] \in Elems(Tail(q)) \cup {Head(q)}
    BY <1>1, <1>5 DEF Elems
  <2>2. ASSUME NEW i \in DOMAIN Tail(q) PROVE Tail(q)[i] \in Elems(q)
    BY <1>3 DEF Elems
  <2>3. Head(q) \in Elems(q)
    BY <1>1, <1>4 DEF Elems
  <2> QED
    BY <2>1, <2>2, <2>3 DEF Elems
<1>7. ASSUME Distinct(q) PROVE Distinct(Tail(q)) /\ Head(q) \notin Elems(Tail(q))
  <2>1. Distinct(Tail(q))
    <3> SUFFICES ASSUME NEW i \in DOMAIN Tail(q), NEW k \in DOMAIN Tail(q), Tail(q)[i] = Tail(q)[k]
                 PROVE  i = k
      BY DEF Distinct
    <3>1. i + 1 = k + 1
      BY <1>3, <1>7 DEF Distinct
    <3> QED
      BY <1>2, <3>1
  <2>2. \A i \in DOMAIN Tail(q) : Tail(q)[i] # Head(q)
    BY <1>1, <1>3, <1>4, <1>7 DEF Distinct
  <2> QED
    BY <2>1, <2>2 DEF Elems
<1> QED
  BY <1>1, <1>6, <1>7

LEMMA ElemsOfAppend ==
    ASSUME NEW S, NEW q \in Seq(S), NEW e \in S
    PROVE  /\ Append(q, e) \in Seq(S)
           /\ Elems(Append(q, e)) = Elems(q) \cup {e}
           /\ Distinct(q) /\ e \notin Elems(q) => Distinct(Append(q, e))
<1>1. /\ Len(q) \in Nat /\ Append(q, e) \in Seq(S) /\ Len(Append(q, e)) = Len(q) + 1
      /\ Append(q, e)[Len(q) + 1] = e
      /\ \A i \in 1..Len(q) : Append(q, e)[i] = q[i]
  OBVIOUS
<1>2. DOMAIN q = 1..Len(q) /\ DOMAIN Append(q, e) = 1..Len(q) + 1
  BY <1>1
<1>3. \A i \in DOMAIN Append(q, e) :
          \/ i \in DOMAIN q /\ Append(q, e)[i] = q[i]
          \/ i = Len(q) + 1 /\ Append(q, e)[i] = e
  BY <1>1, <1>2
<1>4. \A i \in DOMAIN q : i \in DOMAIN Append(q, e) /\ Append(q, e)[i] = q[i] /\ i # Len(q) + 1
  BY <1>1, <1>2
<1>5. Len(q) + 1 \in DOMAIN Append(q, e)
  BY <1>1, <1>2
<1>6. Elems(Append(q, e)) = Elems(q) \cup {e}
  BY <1>1, <1>3, <1>4, <1>5 DEF Elems
<1>7. ASSUME Distinct(q), e \notin Elems(q) PROVE Distinct(Append(q, e))
  <2> SUFFICES ASSUME NEW i \in DOMAIN Append(q, e), NEW k \in DOMAIN Append(q, e),
                      Append(q, e)[i] = Append(q, e)[k]
               PROVE  i = k
    BY DEF Distinct
  <2>1. \A n \in DOMAIN q : q[n] # e
    BY <1>7 DEF Elems
  <2>2. CASE i \in DOMAIN q /\ k \in DOMAIN q
    BY <1>4, <1>7, <2>2 DEF Distinct
  <2>3. CASE i \notin DOMAIN q /\ k \notin DOMAIN q
    BY <1>3, <2>3
  <2>4. CASE i \in DOMAIN q /\ k \notin DOMAIN q
    <3>1. Append(q, e)[i] = q[i] /\ Append(q, e)[k] = e
      BY <1>3, <1>4, <2>4
    <3> QED
      BY <2>1, <2>4, <3>1
  <2>5. CASE i \notin DOMAIN q /\ k \in DOMAIN q
    <3>1. Append(q, e)[i] = e /\ Append(q, e)[k] = q[k]
      BY <1>3, <1>4, <2>5
    <3> QED
      BY <2>1, <2>5, <3>1
  <2> QED
    BY <2>2, <2>3, <2>4, <2>5
<1> QED
  BY <1>1, <1>6, <1>7

\* Of a queue without repetitions, a prefix keeps none that the queue has not.
LEMMA ElemsOfPrefix ==
    ASSUME NEW S, NEW q \in Seq(S), NEW n \in 0..Len(q) - 1
    PROVE  /\ SubSeq(q, 1, n) \in Seq(S)
           /\ Elems(SubSeq(q, 1, n)) \subseteq Elems(q)
           /\ Distinct(q) => Distinct(SubSeq(q, 1, n))
<1>1. /\ Len(q) \in Nat /\ DOMAIN q = 1..Len(q) /\ n \in Nat /\ n <= Len(q)
      /\ SubSeq(q, 1, n) = [i \in 1..n |-> q[i]]
  <2>1. Len(q) \in Nat /\ DOMAIN q = 1..Len(q) /\ n \in Nat /\ n <= Len(q)
    OBVIOUS
  <2>2. 1 - 1 = 0 /\ 1 + n - 1 = n
    BY <2>1
  <2>3. SubSeq(q, 1, n) = [i \in 1..n |-> q[i]]
    BY <2>1, <2>2
  <2> QED
    BY <2>1, <2>3
<1>2. SubSeq(q, 1, n) \in Seq(S)
  BY <1>1
<1>3. \A i \in DOMAIN SubSeq(q, 1, n) : i \in DOMAIN q /\ SubSeq(q, 1, n)[i] = q[i]
  BY <1>1
<1> QED
  BY <1>2, <1>3 DEF Elems, Distinct

Messages == [job : Nat, slots : Seq(Slots)]
Kinds == {"ok", "error", "cancelled"}
Answers == [job : Nat, kind : Kinds, slots : Seq(Slots)]
Kids == [at : {"recv", "take", "wrap", "send"}, job : Nat, todo : Seq(Slots),
         view : Seq(Slots), kind : Kinds]
Wraps == [left : Nat, slot : Slots \cup {NoSlot}, written : BOOLEAN, made : Seq(Slots),
          said : Seq(Slots)]

\* A lease is taken for an array still to do, and written before it is published.
WrapOrder(p) ==
    /\ wrap[p].slot # NoSlot => wrap[p].left > 0
    /\ wrap[p].written => wrap[p].slot # NoSlot

\* At most one reply, and one when its value is taken.
ReplyThere(t) == Len(reply[t]) <= 1 /\ (pc[t] = "value" => reply[t] # <<>>)

SlotTypes ==
    /\ slotState \in [Slots -> SlotStates] /\ DOMAIN slotOwner = Slots /\ DOMAIN content = Slots
    /\ stranded \in [Workers -> SUBSET Slots]

PipeTypes ==
    /\ inbox \in [Workers -> Seq(Messages)] /\ outbox \in [Workers -> Seq(Answers)]
    /\ alive \in [Workers -> BOOLEAN] /\ control \in [Workers -> BOOLEAN]
    /\ kid \in [Workers -> Kids]

CallTypes ==
    /\ jobs \in Nat /\ job \in [Threads -> Nat] /\ token \in [Threads -> BOOLEAN]
    /\ leases \in [Threads -> Seq(Slots)] /\ taken \in [Threads -> Seq(Slots)]
    /\ reply \in [Threads -> Seq(Answers)]
    /\ \A t \in Threads : ReplyThere(t)

WrapTypes ==
    /\ wrap \in [Parties -> Wraps]
    /\ \A p \in Parties : WrapOrder(p)

TypesInv == PlaceInv /\ SlotTypes /\ PipeTypes /\ CallTypes /\ WrapTypes

LEMMA TypesInit == Init => TypesInv
<1> SUFFICES ASSUME Init PROVE TypesInv
  OBVIOUS
<1>1. PlaceInv
  BY PlaceInit
<1>2. SlotTypes
  BY DEF Init, SlotInit, SlotTypes, SlotStates
<1>3. PipeTypes
  BY DEF Init, PipeTypes, Waiting, Kids, Kinds
<1>4. CallTypes
  BY DEF Init, CallTypes, ReplyThere
<1>5. WrapTypes
  BY DEF Init, WrapTypes, Unwrapped, Wraps, WrapOrder
<1> QED
  BY <1>1, <1>2, <1>3, <1>4, <1>5 DEF TypesInv

\* What a step finds of the thread that takes it.
LEMMA ThreadFacts ==
    ASSUME TypesInv, NEW t \in Threads
    PROVE  /\ pc[t] \in Holding => held[t] \in Workers
           /\ reply[t] # <<>> => /\ reply[t][1] \in Answers
                                 /\ Head(reply[t]) = reply[t][1]
                                 /\ reply[t] = <<reply[t][1]>>
           /\ t \in Parties /\ pc[t] \in Places
           /\ pc[t] = "release" /\ reply[t] # <<>> => held[t] \in Workers
<1>1. pc[t] \in Places /\ HeldByPlace(t) /\ held[t] \in Workers \cup {NoWorker}
  BY DEF TypesInv, PlaceInv, PlaceTypes
<1>2. reply[t] \in Seq(Answers) /\ Len(reply[t]) <= 1
  BY DEF TypesInv, CallTypes, ReplyThere
<1>3. reply[t] # <<>> => /\ reply[t][1] \in Answers /\ Head(reply[t]) = reply[t][1]
                         /\ reply[t] = <<reply[t][1]>>
  BY <1>2, OneElement
<1> QED
  BY <1>1, <1>2, <1>3 DEF HeldByPlace, Parties

LEMMA SlotTypesNext == TypesInv /\ [Next]_vars => SlotTypes'
<1> SUFFICES ASSUME TypesInv, [Next]_vars PROVE SlotTypes'
  OBVIOUS
<1>a. SlotTypes
  BY DEF TypesInv
<1>0. ASSUME UNCHANGED <<slotState, slotOwner, content, stranded>> PROVE SlotTypes'
  BY <1>a, <1>0 DEF SlotTypes
<1>1. ASSUME NEW s, Release(s) PROVE SlotTypes'
  BY <1>a, <1>1 DEF SlotTypes, Release, SlotStates
<1>2. ASSUME NEW s, Advance(s, "ready", "held") \/ Advance(s, "leased", "ready") PROVE SlotTypes'
  BY <1>a, <1>2 DEF SlotTypes, Advance, SlotStates
<1>3. ASSUME NEW o, Reclaim(o) PROVE SlotTypes'
  BY <1>a, <1>3 DEF SlotTypes, Reclaim, SlotStates
<1>4. ASSUME NEW s, NEW o, NEW q, Lease(q, s, o) PROVE SlotTypes'
  BY <1>a, <1>4 DEF SlotTypes, Lease, LeaseAny, SlotStates
<1>5. ASSUME NEW s, NEW tag, Write(s, tag) PROVE SlotTypes'
  BY <1>a, <1>5 DEF SlotTypes, Write, SlotStates
<1>6. ASSUME NEW t \in Threads, RunStep(t) \/ Cancel(t) \/ PassCancel(t) PROVE SlotTypes'
  BY <1>6, <1>0, <1>1, <1>2, <1>3 DEF RunStep, Cancel, PassCancel, StartRun, Acquire,
     AcquireRefused, Send, SendBroken, SendUnpicklable, Sending, LocalDone, Receive,
     NoticeDeath,
     NoticeClosed, RetireKill, RetireReclaim, RetireRespawn, RetireLoses, ReleaseLease, Leave,
     GiveBack, TakeValue, TakeRaises, ReleaseValue, Return, slotVars, awaitFrame, respawnFrame,
     releasedFrame, valueFrame
<1>7. ASSUME NEW p \in Parties, WrapStep(p) PROVE SlotTypes'
  BY <1>7, <1>0, <1>1, <1>2, <1>4, <1>5 DEF WrapStep, WrapLease, WrapFallback, WrapOversize,
     WrapWrite, WrapPublish, WrapReject, WrapRaises, slotVars
<1>8. ASSUME NEW w \in Workers, ChildStep(w) \/ Die(w) \/ CloseWorker(w) PROVE SlotTypes'
  <2>1. CASE ChildSend(w)
    <3>1. wrap[w].made \in Seq(Slots)
      BY DEF TypesInv, WrapTypes, Wraps, Parties
    <3>2. Elems(wrap[w].made) \subseteq Slots
      BY <3>1, ElemsType
    <3>3. stranded' \in [Workers -> SUBSET Slots]
      BY <1>a, <2>1, <3>2 DEF SlotTypes, ChildSend
    <3> QED
      BY <1>a, <2>1, <3>3 DEF SlotTypes, ChildSend
  <2>2. CASE ~ChildSend(w)
    BY <1>8, <2>2, <1>0, <1>2 DEF ChildStep, ChildReceive, ChildStop, ChildTake,
                                  ChildTakeRaises,
       ChildCompute, ChildFails, ChildWrapped, Die, CloseWorker, slotVars
  <2> QED
    BY <2>1, <2>2
<1>9. CASE Close \/ Unmap \/ UNCHANGED vars
  BY <1>9, <1>0 DEF Close, Unmap, vars, slotVars
<1> QED
  BY <1>6, <1>7, <1>8, <1>9 DEF Next

\* A message or an answer that arrives is one that was sent.
LEMMA PipeFacts ==
    ASSUME TypesInv, NEW w \in Workers
    PROVE  /\ w \in Parties
           /\ inbox[w] \in Seq(Messages) /\ outbox[w] \in Seq(Answers) /\ kid[w] \in Kids
           /\ inbox[w] # <<>> => Head(inbox[w]) \in Messages /\ Tail(inbox[w]) \in Seq(Messages)
           /\ outbox[w] # <<>> => Head(outbox[w]) \in Answers /\ Tail(outbox[w]) \in Seq(Answers)
           /\ wrap[w] \in Wraps /\ WrapOrder(w)
BY DEF TypesInv, PipeTypes, WrapTypes, Parties

LEMMA PipeTypesNext == TypesInv /\ [Next]_vars => PipeTypes'
<1> SUFFICES ASSUME TypesInv, [Next]_vars PROVE PipeTypes'
  OBVIOUS
<1>a. PipeTypes
  BY DEF TypesInv
<1>b. \A r \in Kids : /\ r.at \in {"recv", "take", "wrap", "send"} /\ r.job \in Nat
                       /\ r.todo \in Seq(Slots) /\ r.view \in Seq(Slots) /\ r.kind \in Kinds
  BY DEF Kids
<1>c. Waiting \in Kids /\ Stop \in Messages
  BY DEF Waiting, Stop, Kids, Kinds, Messages
<1>0. ASSUME UNCHANGED <<pipeVars, alive, control, kid>> PROVE PipeTypes'
  BY <1>a, <1>0 DEF PipeTypes, pipeVars
<1>1. ASSUME NEW w \in Workers, NEW r \in Kids, kid' = [kid EXCEPT ![w] = r],
             UNCHANGED <<control, alive>>, UNCHANGED pipeVars
      PROVE  PipeTypes'
  BY <1>a, <1>1 DEF PipeTypes, pipeVars
<1>2. ASSUME NEW w \in Workers, kid' = [kid EXCEPT ![w] = Waiting],
             alive' = [alive EXCEPT ![w] = FALSE], UNCHANGED control,
             UNCHANGED pipeVars \/ Disconnected(w)
      PROVE  PipeTypes'
  <2>1. inbox' \in [Workers -> Seq(Messages)] /\ outbox' \in [Workers -> Seq(Answers)]
    <3>1. <<>> \in Seq(Messages) /\ <<>> \in Seq(Answers)
      OBVIOUS
    <3> QED
      BY <1>a, <1>2, <3>1 DEF PipeTypes, pipeVars, Disconnected
  <2> QED
    BY <1>a, <1>c, <1>2, <2>1 DEF PipeTypes
<1>6. ASSUME NEW t \in Threads, RunStep(t) \/ Cancel(t) \/ PassCancel(t) PROVE PipeTypes'
  <2>t. pc[t] \in Holding => held[t] \in Workers
    BY ThreadFacts
  <2>1. CASE Send(t)
    <3>1. held[t] \in Workers /\ job[t] \in Nat /\ wrap[t].said \in Seq(Slots)
      BY <2>1, <2>t DEF Send, Sending, Wrapped, Wrapping, TypesInv, CallTypes, WrapTypes, Wraps,
         Holding, Parties
    <3>2. Message(job[t], wrap[t].said) \in Messages
      BY <3>1 DEF Message, Messages
    <3>3. inbox' \in [Workers -> Seq(Messages)]
      BY <1>a, <2>1, <3>1, <3>2 DEF Send, PipeTypes
    <3> QED
      BY <1>a, <2>1, <3>1, <3>3 DEF Send, Sending, PipeTypes
  <2>2. CASE SendBroken(t) \/ SendUnpicklable(t) \/ PassCancel(t) \/ RetireReclaim(t)
    <3>1. \E c \in BOOLEAN : control' = [control EXCEPT ![held[t]] = c]
      BY <2>2 DEF SendBroken, SendUnpicklable, Sending, PassCancel, RetireReclaim
    <3>2. UNCHANGED <<inbox, outbox, alive, kid>>
      BY <2>2 DEF SendBroken, SendUnpicklable, Sending, PassCancel, RetireReclaim, pipeVars
    <3> QED
      BY <1>a, <3>1, <3>2 DEF PipeTypes
  <2>3. CASE Receive(t)
    <3>1. held[t] \in Workers
      BY <2>3, <2>t DEF Receive, At, Holding
    <3> QED
      BY <1>a, <2>3, <3>1, PipeFacts DEF Receive, awaitFrame, PipeTypes
  <2>4. CASE RetireKill(t)
    <3>1. held[t] \in Workers
      BY <2>4, <2>t DEF RetireKill, At, Holding
    <3> QED
      BY <1>2, <2>4, <3>1 DEF RetireKill, Ended
  <2>5. CASE RetireRespawn(t)
    BY <1>a, <2>5 DEF RetireRespawn, respawnFrame, PipeTypes, pipeVars
  <2>6. CASE StartRun(t) \/ AcquireRefused(t) \/ LocalDone(t) \/ NoticeDeath(t) \/ NoticeClosed(t)
             \/ RetireLoses(t) \/ ReleaseLease(t) \/ Leave(t) \/ GiveBack(t) \/ Cancel(t)
             \/ TakeValue(t) \/ TakeRaises(t) \/ ReleaseValue(t) \/ Return(t)
             \/ \E n \in 0..MaxArrays : Acquire(t, n)
    BY <1>0, <2>6 DEF Cancel, StartRun, Acquire, AcquireRefused, LocalDone, NoticeDeath,
       NoticeClosed, RetireLoses, ReleaseLease, Leave, GiveBack, TakeValue, TakeRaises,
       ReleaseValue, Return, awaitFrame, respawnFrame, releasedFrame, valueFrame
  <2>7. 0 \in 0..MaxArrays /\ 1..MaxArrays \subseteq 0..MaxArrays
    BY PoolAssumption
  <2> QED
    BY <1>6, <2>1, <2>2, <2>3, <2>4, <2>5, <2>6, <2>7 DEF RunStep
<1>7. ASSUME NEW p \in Parties, WrapStep(p) PROVE PipeTypes'
  <2>1. CASE WrapRaises(p) /\ p \notin Threads
    <3>1. p \in Workers
      BY <2>1 DEF Parties
    <3> QED
      BY <1>2, <2>1, <3>1 DEF WrapRaises, wrapFrame
  <2>2. CASE ~(WrapRaises(p) /\ p \notin Threads)
    BY <1>0, <1>7, <2>2 DEF WrapStep, WrapLease, WrapFallback, WrapOversize, WrapWrite,
                            WrapPublish, WrapReject,
       WrapRaises, wrapFrame, pipeVars
  <2> QED
    BY <2>1, <2>2
<1>8. ASSUME NEW w \in Workers, ChildStep(w) \/ Die(w) \/ CloseWorker(w) PROVE PipeTypes'
  <2>w. kid[w] \in Kids
    BY PipeFacts
  <2>1. CASE ChildReceive(w)
    <3>1. Head(inbox[w]) \in Messages /\ Tail(inbox[w]) \in Seq(Messages)
      BY <2>1, PipeFacts DEF ChildReceive
    <3>2. [at |-> "take", job |-> Head(inbox[w]).job, todo |-> Head(inbox[w]).slots,
           view |-> <<>>, kind |-> "ok"] \in Kids
      BY <3>1 DEF Messages, Kids, Kinds
    <3> QED
      BY <1>a, <2>1, <3>1, <3>2 DEF ChildReceive, childFrame, PipeTypes
  <2>2. CASE ChildStop(w) \/ Die(w) \/ CloseWorker(w)
    BY <1>2, <2>2 DEF ChildStop, Die, CloseWorker, Ended, childFrame
  <2>3. CASE ChildTake(w)
    <3>1. Head(kid[w].todo) \in Slots /\ Tail(kid[w].todo) \in Seq(Slots)
          /\ Append(kid[w].view, Head(kid[w].todo)) \in Seq(Slots)
      BY <1>b, <2>w, <2>3 DEF ChildTake
    <3>2. [kid[w] EXCEPT !.todo = Tail(@), !.view = Append(@, Head(kid[w].todo))] \in Kids
      BY <2>w, <3>1 DEF Kids
    <3>3. kid' = [kid EXCEPT ![w] = [kid[w] EXCEPT !.todo = Tail(@),
                                                  !.view = Append(@, Head(kid[w].todo))]]
      BY <1>a, <2>3 DEF ChildTake, PipeTypes
    <3>4. UNCHANGED <<control, alive>> /\ UNCHANGED pipeVars
      BY <2>3 DEF ChildTake, childFrame
    <3> QED
      BY <1>1, <3>2, <3>3, <3>4
  <2>4. CASE ChildTakeRaises(w) \/ ChildWrapped(w) \/ \E n \in 0..MaxArrays : ChildCompute(w, n)
    <3>1. \E r \in Kids : kid' = [kid EXCEPT ![w] = r]
      BY <1>a, <2>w, <2>4 DEF ChildTakeRaises, ChildWrapped, ChildCompute, PipeTypes, Kids,
                              Kinds
    <3> QED
      BY <1>1, <2>4, <3>1 DEF ChildTakeRaises, ChildWrapped, ChildCompute, childFrame
  <2>5. ASSUME NEW kind \in {"error", "cancelled"}, ChildFails(w, kind) PROVE PipeTypes'
    <3>1. \E r \in Kids : kid' = [kid EXCEPT ![w] = r]
      BY <1>a, <2>w, <2>5 DEF ChildFails, PipeTypes, Kids, Kinds
    <3> QED
      BY <1>1, <2>5, <3>1 DEF ChildFails, childFrame
  <2>6. CASE ChildSend(w)
    <3>1. wrap[w].said \in Seq(Slots)
      BY PipeFacts DEF Wraps
    <3>2. Answer(kid[w].job, kid[w].kind, wrap[w].said) \in Answers
      BY <1>b, <2>w, <3>1 DEF Answer, Answers
    <3>3. outbox' \in [Workers -> Seq(Answers)]
      BY <1>a, <2>6, <3>2 DEF ChildSend, PipeTypes
    <3> QED
      BY <1>a, <1>c, <2>6, <3>3 DEF ChildSend, childFrame, PipeTypes
  <2> QED
    BY <1>8, <2>1, <2>2, <2>3, <2>4, <2>5, <2>6 DEF ChildStep
<1>9. CASE Close
  <2>1. inbox' \in [Workers -> Seq(Messages)]
    BY <1>a, <1>c, <1>9 DEF Close, PipeTypes
  <2> QED
    BY <1>a, <1>9, <2>1 DEF Close, PipeTypes
<1>10. CASE Unmap \/ UNCHANGED vars
  BY <1>10, <1>0 DEF Unmap, vars, pipeVars
<1> QED
  BY <1>6, <1>7, <1>8, <1>9, <1>10 DEF Next

LEMMA OneElementReplaced ==
    ASSUME NEW S, NEW q \in Seq(S), NEW e \in S, Len(q) = 1
    PROVE  [q EXCEPT ![1] = e] = <<e>>
<1>1. 1 \in 1..Len(q)
  OBVIOUS
<1>2. [q EXCEPT ![1] = e] \in Seq(S) /\ Len([q EXCEPT ![1] = e]) = Len(q)
  BY <1>1, ExceptSeq
<1>3. [q EXCEPT ![1] = e][1] = e
  BY <1>1, ExceptSeq
<1>4. [q EXCEPT ![1] = e] # <<>>
  BY <1>1, <1>2, EmptySeq
<1>5. \A r \in Seq(S) : Len(r) = 1 /\ r # <<>> => r = <<r[1]>>
  BY OneElement
<1> QED
  BY <1>1, <1>2, <1>3, <1>4, <1>5

LEMMA WrapTypesNext == TypesInv /\ [Next]_vars => WrapTypes'
<1> SUFFICES ASSUME TypesInv, [Next]_vars PROVE WrapTypes'
  OBVIOUS
<1>a. WrapTypes
  BY DEF TypesInv
<1>b. \A n \in Nat : /\ Unwrapped(n) \in Wraps /\ Unwrapped(n).slot = NoSlot
                     /\ Unwrapped(n).written = FALSE
  BY DEF Unwrapped, Wraps
<1>c. NoSlot \notin Slots
  BY PoolAssumption
<1>0. ASSUME UNCHANGED wrap PROVE WrapTypes'
  BY <1>a, <1>0 DEF WrapTypes, WrapOrder
<1>1. ASSUME NEW p \in Parties, NEW r \in Wraps, wrap' = [wrap EXCEPT ![p] = r],
             r.slot # NoSlot => r.left > 0, r.written => r.slot # NoSlot
      PROVE  WrapTypes'
  BY <1>a, <1>1 DEF WrapTypes, WrapOrder
<1>2. ASSUME NEW p \in Parties, NEW n \in Nat, wrap' = [wrap EXCEPT ![p] = Unwrapped(n)]
      PROVE  WrapTypes'
  BY <1>b, <1>1, <1>2
<1>3. 0 \in Nat /\ 0..MaxArrays \subseteq Nat /\ 1..MaxArrays \subseteq Nat
      /\ Workers \subseteq Parties /\ Threads \subseteq Parties
  BY PoolAssumption DEF Parties
<1>6. ASSUME NEW t \in Threads, RunStep(t) \/ Cancel(t) \/ PassCancel(t) PROVE WrapTypes'
  <2>t. pc[t] \in Holding => held[t] \in Workers
    BY ThreadFacts
  <2>1. ASSUME NEW n \in Nat, Acquire(t, n) PROVE WrapTypes'
    BY <1>2, <1>3, <2>1 DEF Acquire
  <2>2. CASE Send(t) \/ SendBroken(t) \/ SendUnpicklable(t)
    BY <1>2, <1>3, <2>2 DEF Send, SendBroken, SendUnpicklable, Sending
  <2>3. CASE RetireKill(t)
    <3>1. held[t] \in Workers
      BY <2>3, <2>t DEF RetireKill, At, Holding
    <3> QED
      BY <1>2, <1>3, <2>3, <3>1 DEF RetireKill, Ended
  <2>4. CASE StartRun(t) \/ AcquireRefused(t) \/ LocalDone(t) \/ NoticeDeath(t) \/ NoticeClosed(t)
             \/ RetireReclaim(t) \/ RetireRespawn(t) \/ RetireLoses(t) \/ ReleaseLease(t)
             \/ Leave(t) \/ GiveBack(t) \/ Cancel(t) \/ PassCancel(t) \/ Receive(t)
             \/ TakeValue(t) \/ TakeRaises(t) \/ ReleaseValue(t) \/ Return(t)
    BY <1>0, <2>4 DEF Cancel, PassCancel, StartRun, AcquireRefused, LocalDone, Receive,
                      NoticeDeath,
       NoticeClosed, RetireReclaim, RetireRespawn, RetireLoses, ReleaseLease, Leave, GiveBack,
       TakeValue, TakeRaises, ReleaseValue, Return, awaitFrame, respawnFrame, releasedFrame,
       valueFrame
  <2> QED
    BY <1>6, <1>3, <2>1, <2>2, <2>3, <2>4 DEF RunStep
<1>7. ASSUME NEW p \in Parties, WrapStep(p) PROVE WrapTypes'
  <2>p. /\ wrap[p] \in Wraps /\ WrapOrder(p)
        /\ wrap[p].left \in Nat /\ wrap[p].slot \in Slots \cup {NoSlot}
        /\ wrap[p].written \in BOOLEAN /\ wrap[p].made \in Seq(Slots)
        /\ wrap[p].said \in Seq(Slots)
    BY <1>a DEF WrapTypes, Wraps
  <2>1. ASSUME NEW s \in Slots, WrapLease(p, s) PROVE WrapTypes'
    <3>1. [wrap[p] EXCEPT !.slot = s] \in Wraps /\ [wrap[p] EXCEPT !.slot = s].slot = s
          /\ [wrap[p] EXCEPT !.slot = s].left = wrap[p].left
      BY <2>p DEF Wraps
    <3>2. wrap' = [wrap EXCEPT ![p] = [wrap[p] EXCEPT !.slot = s]]
      BY <1>a, <2>1 DEF WrapLease, WrapTypes
    <3> QED
      BY <1>1, <1>c, <2>1, <3>1, <3>2 DEF WrapLease
  <2>2. CASE WrapFallback(p)
    <3> DEFINE r == [wrap[p] EXCEPT !.left = @ - 1]
    <3>1. wrap[p].left > 0 /\ wrap[p].slot = NoSlot
      BY <2>2 DEF WrapFallback
    <3>2. r \in Wraps /\ r.slot = NoSlot /\ r.written = wrap[p].written
      BY <2>p, <3>1 DEF Wraps
    <3>3. wrap' = [wrap EXCEPT ![p] = r]
      BY <1>a, <2>2 DEF WrapFallback, WrapTypes
    <3> QED
      BY <1>1, <2>p, <3>1, <3>2, <3>3 DEF WrapOrder
  <2>3. CASE WrapOversize(p)
    <3> DEFINE r == [wrap[p] EXCEPT !.left = @ - 1, !.slot = NoSlot]
    <3>1. wrap[p].left > 0 /\ ~wrap[p].written
      BY <2>3, <2>p DEF WrapOversize, Writing, WrapOrder
    <3>a. wrap[p].left - 1 \in Nat
      BY <2>p, <3>1
    <3>2. r \in Wraps /\ r.slot = NoSlot /\ r.written = wrap[p].written
      BY <2>p, <3>a DEF Wraps
    <3>3. wrap' = [wrap EXCEPT ![p] = r]
      BY <1>a, <2>3 DEF WrapOversize, WrapTypes
    <3> QED
      BY <1>1, <2>p, <3>1, <3>2, <3>3
  <2>4. CASE WrapWrite(p)
    <3> DEFINE r == [wrap[p] EXCEPT !.written = TRUE]
    <3>1. r \in Wraps /\ r.slot = wrap[p].slot /\ r.left = wrap[p].left
      BY <2>p DEF Wraps
    <3>2. wrap' = [wrap EXCEPT ![p] = r] /\ wrap[p].slot # NoSlot
      BY <1>a, <2>4 DEF WrapWrite, Writing, WrapTypes
    <3> QED
      BY <1>1, <2>p, <3>1, <3>2 DEF WrapOrder
  <2>5. CASE WrapPublish(p)
    <3> DEFINE r == [wrap[p] EXCEPT !.left = @ - 1, !.slot = NoSlot, !.written = FALSE,
                                    !.made = Append(@, wrap[p].slot),
                                    !.said = Append(@, wrap[p].slot)]
    <3>1. wrap[p].left > 0 /\ wrap[p].slot \in Slots
      BY <2>5, <2>p DEF WrapPublish, WrapOrder
    <3>2. Append(wrap[p].made, wrap[p].slot) \in Seq(Slots)
          /\ Append(wrap[p].said, wrap[p].slot) \in Seq(Slots)
      BY <2>p, <3>1
    <3>a. wrap[p].left - 1 \in Nat
      BY <2>p, <3>1
    <3>3. r \in Wraps /\ r.slot = NoSlot /\ r.written = FALSE
      BY <2>p, <3>a, <3>2 DEF Wraps
    <3>4. wrap' = [wrap EXCEPT ![p] = r]
      BY <1>a, <2>5 DEF WrapPublish, WrapTypes
    <3> QED
      BY <1>1, <3>3, <3>4
  <2>6. CASE WrapRaises(p)
    BY <1>2, <1>3, <2>6 DEF WrapRaises
  <2>7. CASE WrapReject(p)
    <3>1. PICK n \in 0..Len(wrap[p].said) - 1 :
              wrap' = [wrap EXCEPT ![p].said = SubSeq(@, 1, n)]
      BY <2>7 DEF WrapReject
    <3> DEFINE r == [wrap[p] EXCEPT !.said = SubSeq(@, 1, n)]
    <3>2. SubSeq(wrap[p].said, 1, n) \in Seq(Slots)
      BY <2>p, <3>1, ElemsOfPrefix
    <3>3. r \in Wraps /\ r.slot = wrap[p].slot /\ r.left = wrap[p].left
          /\ r.written = wrap[p].written
      BY <2>p, <3>2 DEF Wraps
    <3>4. wrap' = [wrap EXCEPT ![p] = r]
      BY <1>a, <3>1 DEF WrapTypes
    <3> QED
      BY <1>1, <2>p, <3>3, <3>4 DEF WrapOrder
  <2> QED
    BY <1>7, <2>1, <2>2, <2>3, <2>4, <2>5, <2>6, <2>7 DEF WrapStep
<1>8. ASSUME NEW w \in Workers, ChildStep(w) \/ Die(w) \/ CloseWorker(w) PROVE WrapTypes'
  <2>1. CASE ChildStop(w) \/ Die(w) \/ CloseWorker(w) \/ ChildSend(w)
             \/ \E n \in 0..MaxArrays : ChildCompute(w, n)
    BY <1>2, <1>3, <2>1 DEF ChildStop, Die, CloseWorker, ChildSend, ChildCompute, Ended
  <2>2. CASE ChildReceive(w) \/ ChildTake(w) \/ ChildTakeRaises(w) \/ ChildWrapped(w)
             \/ \E kind \in {"error", "cancelled"} : ChildFails(w, kind)
    BY <1>0, <2>2 DEF ChildReceive, ChildTake, ChildTakeRaises, ChildWrapped, ChildFails
  <2> QED
    BY <1>8, <2>1, <2>2 DEF ChildStep
<1>9. CASE Close \/ Unmap \/ UNCHANGED vars
  BY <1>9, <1>0 DEF Close, Unmap, vars
<1> QED
  BY <1>6, <1>7, <1>8, <1>9 DEF Next

LEMMA CallTypesNext == TypesInv /\ [Next]_vars => CallTypes'
<1> SUFFICES ASSUME TypesInv, [Next]_vars PROVE CallTypes'
  OBVIOUS
<1>a. CallTypes
  BY DEF TypesInv
<1>b. pc \in [Threads -> Places]
  BY DEF TypesInv, PlaceInv, PlaceTypes
<1>0. ASSUME UNCHANGED <<jobs, job, token, leases, taken, reply>>, UNCHANGED pc
      PROVE  CallTypes'
  BY <1>a, <1>0 DEF CallTypes, ReplyThere
<1>1. ASSUME NEW t \in Threads, NEW there, there # "value", pc' = [pc EXCEPT ![t] = there],
             UNCHANGED <<jobs, job, token, leases, taken, reply>>
      PROVE  CallTypes'
  BY <1>a, <1>b, <1>1 DEF CallTypes, ReplyThere
<1>6. ASSUME NEW t \in Threads, RunStep(t) \/ Cancel(t) \/ PassCancel(t) PROVE CallTypes'
  <2>t. /\ pc[t] \in Holding => held[t] \in Workers
        /\ reply[t] # <<>> => reply[t][1] \in Answers /\ reply[t] = <<reply[t][1]>>
    BY ThreadFacts
  <2>1. CASE StartRun(t)
    BY <1>a, <1>b, <2>1 DEF StartRun, At, CallTypes, ReplyThere
  <2>2. CASE Cancel(t)
    BY <1>a, <2>2 DEF Cancel, CallTypes, countVars, ReplyThere
  <2>3. CASE Send(t) \/ SendBroken(t) \/ SendUnpicklable(t)
    <3>1. wrap[t].made \in Seq(Slots)
      BY DEF TypesInv, WrapTypes, Wraps, Parties
    <3>2. /\ leases' = [leases EXCEPT ![t] = wrap[t].made]
          /\ UNCHANGED <<jobs, job, token, taken, reply>>
          /\ \E there \in {"await", "retire", "local"} : pc' = [pc EXCEPT ![t] = there]
      BY <2>3 DEF Send, SendBroken, SendUnpicklable, Sending, countVars
    <3> QED
      BY <1>a, <1>b, <3>1, <3>2 DEF CallTypes, ReplyThere
  <2>4. CASE Receive(t)
    <3>1. held[t] \in Workers /\ pc' = [pc EXCEPT ![t] = "release"]
      BY <2>4, <2>t DEF Receive, At, Holding
    <3>2. Head(outbox[held[t]]) \in Answers
      BY <2>4, <3>1, PipeFacts DEF Receive
    <3>3. reply' \in [Threads -> Seq(Answers)] /\ \A u \in Threads \ {t} : reply'[u] = reply[u]
      BY <1>a, <2>4, <3>2 DEF Receive, CallTypes
    <3>4. Len(reply'[t]) = 1
      BY <1>a, <2>4, <3>2 DEF Receive, CallTypes
    <3>5. UNCHANGED <<jobs, job, token, leases, taken>>
      BY <2>4 DEF Receive, awaitFrame, countVars
    <3>6. \A u \in Threads : ReplyThere(u)'
      <4>1. ReplyThere(t)'
        BY <1>b, <3>1, <3>4 DEF ReplyThere
      <4>2. \A u \in Threads \ {t} : ReplyThere(u)'
        BY <1>a, <1>b, <3>1, <3>3 DEF CallTypes, ReplyThere
      <4> QED
        BY <4>1, <4>2
    <3> QED
      BY <1>a, <3>3, <3>5, <3>6 DEF CallTypes
  <2>5. CASE ReleaseLease(t)
    <3>1. Tail(leases[t]) \in Seq(Slots)
      BY <1>a, <2>5 DEF ReleaseLease, CallTypes
    <3> QED
      BY <1>a, <2>5, <3>1 DEF ReleaseLease, CallTypes, countVars, ReplyThere
  <2>6. CASE GiveBack(t)
    BY <1>a, <1>b, <2>6 DEF GiveBack, At, CallTypes, ReplyThere, releasedFrame, countVars
  <2>7. CASE TakeValue(t)
    <3> DEFINE r == [reply[t][1] EXCEPT !.slots = Tail(@)]
    <3>1. reply[t] # <<>> /\ pc' = pc /\ reply[t][1].slots # <<>>
      BY <1>a, <2>7 DEF TakeValue, CallTypes, ReplyThere, Untaken
    <3>2. reply[t][1] \in Answers /\ reply[t] = <<reply[t][1]>> /\ reply[t][1].slots \in Seq(Slots)
      BY <2>t, <3>1 DEF Answers
    <3>b. Tail(reply[t][1].slots) \in Seq(Slots) /\ Head(reply[t][1].slots) \in Slots
      BY <3>1, <3>2
    <3>3. r \in Answers
      BY <3>2, <3>b DEF Answers
    <3> HIDE DEF r
    <3>4. reply' = [reply EXCEPT ![t] = <<r>>]
      <4>1. [reply[t] EXCEPT ![1] = r] = <<r>>
        <5>1. reply[t] \in Seq(Answers) /\ Len(reply[t]) = 1
          BY <1>a, <3>2 DEF CallTypes
        <5> QED
          BY <3>3, <5>1, OneElementReplaced
      <4>2. reply' = [reply EXCEPT ![t] = [reply[t] EXCEPT ![1] = r]]
        BY <1>a, <2>7 DEF TakeValue, CallTypes, r
      <4> QED
        BY <4>1, <4>2
    <3>5. reply' \in [Threads -> Seq(Answers)] /\ \A u \in Threads : ReplyThere(u)'
      BY <1>a, <3>1, <3>3, <3>4 DEF CallTypes, ReplyThere
    <3>6. taken' \in [Threads -> Seq(Slots)]
      BY <1>a, <2>7, <3>b DEF TakeValue, CallTypes, Untaken
    <3> QED
      BY <1>a, <2>7, <3>5, <3>6 DEF TakeValue, CallTypes, valueFrame, countVars
  <2>8. CASE ReleaseValue(t)
    <3>1. Tail(taken[t]) \in Seq(Slots)
      BY <1>a, <2>8 DEF ReleaseValue, CallTypes
    <3> QED
      BY <1>a, <2>8, <3>1 DEF ReleaseValue, CallTypes, valueFrame, countVars, ReplyThere
  <2>9. CASE PassCancel(t)
    BY <1>0, <2>9 DEF PassCancel, threadVars, countVars
  <2>10. CASE AcquireRefused(t) \/ LocalDone(t) \/ NoticeDeath(t) \/ NoticeClosed(t)
             \/ RetireKill(t) \/ RetireReclaim(t) \/ RetireRespawn(t) \/ RetireLoses(t)
             \/ Leave(t) \/ TakeRaises(t) \/ Return(t)
             \/ \E n \in 0..MaxArrays : Acquire(t, n)
    <3>1. \E there \in {"wrap", "out", "release", "retire", "reclaim", "respawn"} :
              pc' = [pc EXCEPT ![t] = there]
      BY <2>10 DEF At, Acquire, AcquireRefused, LocalDone, NoticeDeath, NoticeClosed,
                   RetireKill,
         RetireReclaim, RetireRespawn, RetireLoses, Leave, TakeRaises, Return
    <3>2. UNCHANGED <<jobs, job, token, leases, taken, reply>>
      BY <2>10 DEF Acquire, AcquireRefused, LocalDone, NoticeDeath, NoticeClosed, RetireKill,
         RetireReclaim, RetireRespawn, RetireLoses, Leave, TakeRaises, Return, awaitFrame,
         respawnFrame, releasedFrame, valueFrame, countVars
    <3> QED
      BY <1>1, <3>1, <3>2
  <2>11. 0 \in 0..MaxArrays /\ 1..MaxArrays \subseteq 0..MaxArrays
    BY PoolAssumption
  <2> QED
    BY <1>6, <2>1, <2>2, <2>3, <2>4, <2>5, <2>6, <2>7, <2>8, <2>9, <2>10, <2>11 DEF RunStep
<1>7. ASSUME NEW p \in Parties, WrapStep(p) PROVE CallTypes'
  <2>1. CASE WrapRaises(p) /\ p \in Threads
    BY <1>1, <2>1 DEF WrapRaises, wrapFrame, countVars
  <2>2. CASE ~(WrapRaises(p) /\ p \in Threads)
    BY <1>0, <1>7, <2>2 DEF WrapStep, WrapLease, WrapFallback, WrapOversize, WrapWrite,
                            WrapPublish, WrapReject,
       WrapRaises, wrapFrame, countVars
  <2> QED
    BY <2>1, <2>2
<1>8. ASSUME NEW w \in Workers, ChildStep(w) \/ Die(w) \/ CloseWorker(w) PROVE CallTypes'
  BY <1>0, <1>8 DEF ChildStep, ChildReceive, ChildStop, ChildTake, ChildTakeRaises,
                    ChildCompute,
     ChildFails, ChildWrapped, ChildSend, Die, CloseWorker, childFrame, threadVars, countVars
<1>9. CASE Close \/ Unmap \/ UNCHANGED vars
  BY <1>9, <1>0 DEF Close, Unmap, vars, threadVars, countVars
<1> QED
  BY <1>6, <1>7, <1>8, <1>9 DEF Next

LEMMA TypesNext == TypesInv /\ [Next]_vars => TypesInv'
<1> SUFFICES ASSUME TypesInv, [Next]_vars PROVE TypesInv'
  OBVIOUS
<1>1. PlaceInv'
  BY PlaceNext DEF TypesInv
<1> QED
  BY <1>1, SlotTypesNext, PipeTypesNext, CallTypesNext, WrapTypesNext DEF TypesInv

\* The messages worker w has not read yet, the None of close() aside.
Told(w) == {i \in DOMAIN inbox[w] : inbox[w][i] # Stop}

\* Nothing is under way in worker w.
Quiet(w) == Told(w) = {} /\ kid[w] = Waiting /\ outbox[w] = <<>>

\* At most call j is under way in worker w, and at one point of its way only:
\* told, worked on or answered.
OnlyCall(w, j) ==
    \/ Quiet(w)
    \/ /\ kid[w] = Waiting /\ outbox[w] = <<>>
       /\ \A i \in Told(w) : inbox[w][i].job = j
       /\ \A i, k \in Told(w) : i = k
    \/ Told(w) = {} /\ outbox[w] = <<>> /\ kid[w].at # "recv" /\ kid[w].job = j
    \/ Told(w) = {} /\ kid[w] = Waiting /\ Len(outbox[w]) = 1 /\ outbox[w][1].job = j

\* Worker w was told to stop, or stopped, only if the caller asked for it.
Honest(w, asked) ==
    /\ control[w] => asked
    /\ kid[w].kind = "cancelled" => asked
    /\ \A i \in DOMAIN outbox[w] : outbox[w][i].kind = "cancelled" => asked

OwnTalk(t) ==
    /\ pc[t] # "out" => job[t] > 0
    /\ held[t] # NoWorker =>
          /\ OnlyCall(held[t], job[t])
          /\ pc[t] = "await" => Honest(held[t], token[t])
          /\ pc[t] \notin {"await", "retire"} => Quiet(held[t])
    /\ reply[t] # <<>> =>
          /\ reply[t][1].job = job[t]
          /\ reply[t][1].kind = "cancelled" => token[t]

TalkInv ==
    /\ TypesInv
    /\ \A t \in Threads : OwnTalk(t)
    /\ \A w \in Elems(idle) : Quiet(w)

LEMMA TalkInit == Init => TalkInv
<1> SUFFICES ASSUME Init PROVE TalkInv
  OBVIOUS
<1>1. TypesInv
  BY TypesInit
<1>2. \A w \in Workers : Quiet(w)
  BY DEF Init, Quiet, Told
<1>3. Elems(idle) \subseteq Workers
  BY <1>1, ElemsType DEF TypesInv, PlaceInv, PlaceTypes
<1>4. \A t \in Threads : OwnTalk(t)
  BY DEF Init, OwnTalk
<1> QED
  BY <1>1, <1>2, <1>3, <1>4 DEF TalkInv

\* What is under way in worker w is what it was.
SameTalk(w) ==
    /\ inbox'[w] = inbox[w] /\ outbox'[w] = outbox[w]
    /\ kid'[w] = kid[w] /\ control'[w] = control[w]

LEMMA TalkSame ==
    ASSUME NEW w, SameTalk(w)
    PROVE  /\ Quiet(w) => Quiet(w)'
           /\ \A j : OnlyCall(w, j) => OnlyCall(w, j)'
           /\ \A a : Honest(w, a) => Honest(w, a)'
<1>1. Told(w)' = Told(w)
  BY DEF SameTalk, Told
<1>2. Quiet(w) => Quiet(w)'
  BY <1>1 DEF SameTalk, Quiet
<1> QED
  BY <1>1, <1>2 DEF SameTalk, OnlyCall, Honest

\* A thread that does not move, and whose worker is left alone.
LEMMA ThreadSame ==
    ASSUME NEW t \in Threads, OwnTalk(t),
           pc'[t] = pc[t], job'[t] = job[t], held'[t] = held[t], token'[t] = token[t],
           reply'[t] = reply[t],
           held[t] # NoWorker =>
              /\ Quiet(held[t]) => Quiet(held[t])'
              /\ \A j : j > 0 /\ OnlyCall(held[t], j) => OnlyCall(held[t], j)'
              /\ \A a : Honest(held[t], a) => Honest(held[t], a)',
           held[t] # NoWorker => pc[t] # "out"
    PROVE  OwnTalk(t)'
<1>1. CASE held[t] # NoWorker
  <2>1. job[t] > 0
    BY <1>1 DEF OwnTalk
  <2>2. \A v : v = held[t] => /\ OnlyCall(v, job[t])'
                              /\ pc[t] = "await" => Honest(v, token[t])'
                              /\ pc[t] \notin {"await", "retire"} => Quiet(v)'
    BY <1>1, <2>1 DEF OwnTalk
  <2>3. \A v, j, a : v = held[t] /\ j = job[t] /\ a = token[t] =>
                              /\ OnlyCall(v, j)'
                              /\ pc[t] = "await" => Honest(v, a)'
                              /\ pc[t] \notin {"await", "retire"} => Quiet(v)'
    BY <2>2
  <2>4. held[t]' = held[t] /\ job[t]' = job[t] /\ token[t]' = token[t]
    OBVIOUS
  <2> QED
    BY <2>3, <2>4 DEF OwnTalk
<1>2. CASE held[t] = NoWorker
  BY <1>2 DEF OwnTalk
<1> QED
  BY <1>1, <1>2

\* What a step does to the conversation of worker w: it ends, moves on by one
\* point, or stays, and never becomes another call's.
TalkKept(w) ==
    /\ Quiet(w) => Quiet(w)'
    /\ \A j : j > 0 /\ OnlyCall(w, j) => OnlyCall(w, j)'
    /\ \A a : Honest(w, a) => Honest(w, a)'

\* The process of worker w ends, with or without its pipe.
LEMMA TalkEnds ==
    ASSUME TypesInv, NEW w \in Workers, kid'[w] = Waiting, control'[w] = control[w],
           \/ inbox'[w] = inbox[w] /\ outbox'[w] = outbox[w]
           \/ inbox'[w] = <<>> /\ outbox'[w] = <<>>
    PROVE  TalkKept(w) /\ (inbox'[w] = <<>> /\ outbox'[w] = <<>> => Quiet(w)')
<1>1. Waiting.kind = "ok" /\ Waiting.at = "recv"
  BY DEF Waiting
<1>2. inbox'[w] = <<>> => Told(w)' = {}
  BY DEF Told
<1>3. inbox'[w] = inbox[w] => Told(w)' = Told(w)
  BY DEF Told
<1>4. Quiet(w) => Quiet(w)'
  BY <1>2, <1>3 DEF Quiet
<1>5. ASSUME NEW j, OnlyCall(w, j) PROVE OnlyCall(w, j)'
  <2>1. CASE inbox'[w] = <<>> /\ outbox'[w] = <<>>
    BY <1>2, <2>1 DEF OnlyCall, Quiet
  <2>2. CASE inbox'[w] = inbox[w] /\ outbox'[w] = outbox[w]
    BY <1>3, <1>5, <2>2 DEF OnlyCall, Quiet
  <2> QED
    BY <2>1, <2>2
<1>6. \A a : Honest(w, a) => Honest(w, a)'
  BY <1>1 DEF Honest
<1>7. inbox'[w] = <<>> /\ outbox'[w] = <<>> => Quiet(w)'
  BY <1>2 DEF Quiet
<1> QED
  BY <1>4, <1>5, <1>6, <1>7 DEF TalkKept

LEMMA WorkerTalk ==
    ASSUME TypesInv, NEW w \in Workers,
           ChildStep(w) \/ Die(w) \/ CloseWorker(w) \/ WrapRaises(w)
    PROVE  TalkKept(w) /\ \A v \in Workers \ {w} : SameTalk(v)
<1>a. /\ inbox \in [Workers -> Seq(Messages)] /\ outbox \in [Workers -> Seq(Answers)]
      /\ kid \in [Workers -> Kids] /\ w \notin Threads
  BY PoolAssumption DEF TypesInv, PipeTypes
<1>b. Waiting.at = "recv" /\ Waiting.kind = "ok" /\ Waiting.job = 0
  BY DEF Waiting
<1>c. inbox[w] \in Seq(Messages) /\ outbox[w] \in Seq(Answers) /\ kid[w] \in Kids
  BY <1>a
<1>1. CASE ChildReceive(w)
  <2>1. /\ inbox[w] # <<>> /\ Head(inbox[w]) # Stop /\ kid[w].at = "recv"
        /\ inbox' = [inbox EXCEPT ![w] = Tail(@)]
        /\ kid' = [kid EXCEPT ![w] = [at |-> "take", job |-> Head(inbox[w]).job,
                          todo |-> Head(inbox[w]).slots, view |-> <<>>, kind |-> "ok"]]
        /\ UNCHANGED <<outbox, control>>
    BY <1>1 DEF ChildReceive, Child, childFrame
  <2>2. /\ 1 \in DOMAIN inbox[w] /\ inbox[w][1] = Head(inbox[w])
        /\ \A i \in DOMAIN Tail(inbox[w]) : /\ i + 1 \in DOMAIN inbox[w] /\ i + 1 # 1
                                            /\ Tail(inbox[w])[i] = inbox[w][i + 1]
    BY <1>c, <2>1
  <2>3. 1 \in Told(w) /\ ~Quiet(w)
    BY <2>1, <2>2 DEF Told, Quiet
  <2>4. inbox'[w] = Tail(inbox[w]) /\ kid'[w].at = "take" /\ kid'[w].job = Head(inbox[w]).job
        /\ kid'[w].kind = "ok" /\ outbox'[w] = outbox[w] /\ control'[w] = control[w]
    BY <1>a, <2>1
  <2>5. ASSUME NEW j, OnlyCall(w, j) PROVE OnlyCall(w, j)'
    <3>1. /\ outbox[w] = <<>> /\ inbox[w][1].job = j
          /\ \A i, k \in Told(w) : i = k
      BY <2>3, <2>5 DEF OnlyCall
    <3>2. ASSUME NEW i \in Told(w)' PROVE FALSE
      <4>1. i \in DOMAIN Tail(inbox[w]) /\ Tail(inbox[w])[i] # Stop
        BY <2>4, <3>2 DEF Told
      <4>2. i + 1 \in Told(w) /\ i + 1 # 1
        BY <2>2, <4>1 DEF Told
      <4> QED
        BY <2>3, <3>1, <4>2
    <3>3. Told(w)' = {} /\ outbox'[w] = <<>> /\ kid'[w].at # "recv" /\ kid'[w].job = j
      BY <2>2, <2>4, <3>1, <3>2
    <3> QED
      BY <3>3 DEF OnlyCall
  <2>6. \A a : Honest(w, a) => Honest(w, a)'
    BY <2>4 DEF Honest
  <2>7. \A v \in Workers \ {w} : SameTalk(v)
    BY <1>a, <2>1 DEF SameTalk
  <2> QED
    BY <2>3, <2>5, <2>6, <2>7 DEF TalkKept
<1>2. CASE ChildStop(w) \/ Die(w) \/ CloseWorker(w) \/ WrapRaises(w)
  <2>1. /\ kid' = [kid EXCEPT ![w] = Waiting] /\ UNCHANGED control
        /\ UNCHANGED pipeVars \/ Disconnected(w)
    BY <1>a, <1>2 DEF ChildStop, Die, CloseWorker, WrapRaises, Ended, childFrame, wrapFrame
  <2>2. TalkKept(w)
    BY <1>a, <2>1, TalkEnds DEF Disconnected, pipeVars
  <2>3. \A v \in Workers \ {w} : SameTalk(v)
    BY <1>a, <2>1 DEF SameTalk, Disconnected, pipeVars
  <2> QED
    BY <2>2, <2>3
<1>3. ASSUME kid[w].at # "recv", NEW r \in Kids, kid' = [kid EXCEPT ![w] = r],
             r.at # "recv", r.job = kid[w].job,
             r.kind = "cancelled" => (kid[w].kind = "cancelled" \/ control[w]),
             UNCHANGED control, UNCHANGED pipeVars
      PROVE  TalkKept(w) /\ \A v \in Workers \ {w} : SameTalk(v)
  <2>1. kid'[w] = r /\ inbox'[w] = inbox[w] /\ outbox'[w] = outbox[w] /\ control'[w] = control[w]
    BY <1>a, <1>3 DEF pipeVars
  <2>2. Told(w)' = Told(w)
    BY <2>1 DEF Told
  <2>3. \A a : Honest(w, a) => Honest(w, a)'
    BY <1>3, <2>1 DEF Honest
  <2>4. \A j : OnlyCall(w, j) => OnlyCall(w, j)'
    BY <1>b, <1>3, <2>1, <2>2 DEF OnlyCall, Quiet
  <2>5. ~Quiet(w)
    BY <1>b, <1>3 DEF Quiet
  <2>6. \A v \in Workers \ {w} : SameTalk(v)
    BY <1>a, <1>3 DEF SameTalk, pipeVars
  <2> QED
    BY <2>3, <2>4, <2>5, <2>6 DEF TalkKept
<1>4. CASE ChildTake(w) \/ ChildTakeRaises(w) \/ ChildWrapped(w)
           \/ (\E n \in 0..MaxArrays : ChildCompute(w, n))
           \/ \E kind \in {"error", "cancelled"} : ChildFails(w, kind)
  <2>1. kid'[w] \in Kids /\ kid' = [kid EXCEPT ![w] = kid'[w]]
    <3>1. TypesInv'
      BY <1>4, TypesNext DEF Next, ChildStep
    <3>2. kid' \in [Workers -> Kids]
      BY <3>1 DEF TypesInv, PipeTypes
    <3>3. \A v \in Workers \ {w} : kid'[v] = kid[v]
      BY <1>a, <1>4 DEF ChildTake, ChildTakeRaises, ChildWrapped, ChildCompute, ChildFails
    <3> QED
      BY <1>a, <3>2, <3>3
  <2>2. /\ kid[w].at # "recv" /\ kid'[w].at # "recv" /\ kid'[w].job = kid[w].job
    BY <1>a, <1>4 DEF ChildTake, ChildTakeRaises, ChildWrapped, ChildCompute, ChildFails, Child,
       Wrapped, Wrapping, Kids
  <2>3. kid'[w].kind = "cancelled" => (kid[w].kind = "cancelled" \/ control[w])
    BY <1>a, <1>4 DEF ChildTake, ChildTakeRaises, ChildWrapped, ChildCompute, ChildFails, Kids
  <2>4. UNCHANGED control /\ UNCHANGED pipeVars
    BY <1>4 DEF ChildTake, ChildTakeRaises, ChildWrapped, ChildCompute, ChildFails, childFrame
  <2> QED
    BY <1>3, <2>1, <2>2, <2>3, <2>4
<1>5. CASE ChildSend(w)
  <2> DEFINE a == Answer(kid[w].job, kid[w].kind, wrap[w].said)
  <2>1. /\ kid[w].at = "send" /\ outbox' = [outbox EXCEPT ![w] = Append(@, a)]
        /\ kid' = [kid EXCEPT ![w] = Waiting] /\ UNCHANGED <<inbox, control>>
    BY <1>5 DEF ChildSend, Child, childFrame
  <2>2. a.job = kid[w].job /\ a.kind = kid[w].kind
    BY DEF Answer
  <2> HIDE DEF a
  <2>3. /\ outbox'[w] = Append(outbox[w], a) /\ kid'[w] = Waiting /\ inbox'[w] = inbox[w]
        /\ control'[w] = control[w]
    BY <1>a, <2>1
  <2>4. Told(w)' = Told(w)
    BY <2>3 DEF Told
  <2>5. ASSUME NEW j, OnlyCall(w, j) PROVE OnlyCall(w, j)'
    <3>1. Told(w) = {} /\ outbox[w] = <<>> /\ kid[w].job = j
      BY <1>b, <2>1, <2>5 DEF OnlyCall, Quiet
    <3>2. Len(outbox'[w]) = 1 /\ outbox'[w][1] = a
      BY <2>3, <3>1
    <3> QED
      BY <2>2, <2>3, <2>4, <3>1, <3>2 DEF OnlyCall
  <2>6. ASSUME NEW asked, Honest(w, asked) PROVE Honest(w, asked)'
    <3>1. \A i \in DOMAIN outbox'[w] :
              \/ outbox'[w][i] = a
              \/ i \in DOMAIN outbox[w] /\ outbox'[w][i] = outbox[w][i]
      BY <1>c, <2>3
    <3> QED
      BY <1>b, <2>2, <2>3, <2>6, <3>1 DEF Honest
  <2>7. ~Quiet(w)
    BY <1>b, <2>1 DEF Quiet
  <2>8. \A v \in Workers \ {w} : SameTalk(v)
    BY <1>a, <2>1 DEF SameTalk
  <2> QED
    BY <2>5, <2>6, <2>7, <2>8 DEF TalkKept
<1> QED
  BY <1>1, <1>2, <1>4, <1>5 DEF ChildStep

\* A step of thread t: what is under way elsewhere stays, its own hands and the
\* queue are as they should be after it.
LEMMA ThreadTalk ==
    ASSUME TalkInv, TypesInv', NEW t \in Threads,
           \A u \in Threads \ {t} : /\ pc'[u] = pc[u] /\ job'[u] = job[u] /\ held'[u] = held[u]
                                    /\ token'[u] = token[u] /\ reply'[u] = reply[u],
           \A w \in Workers : w # held[t] => SameTalk(w),
           \A w \in Elems(idle') : w \in Elems(idle) \/ (w = held[t] /\ Quiet(w)'),
           OwnTalk(t)'
    PROVE  TalkInv'
<1>1. WorkerInOnePlace /\ held \in [Threads -> Workers \cup {NoWorker}] /\ idle \in Seq(Workers)
      /\ \A u \in Threads : HeldByPlace(u)
  BY DEF TalkInv, TypesInv, PlaceInv, PlaceTypes
<1>2. ASSUME NEW u \in Threads \ {t} PROVE OwnTalk(u)'
  <2>1. held[u] # NoWorker => held[u] \in Workers /\ held[u] # held[t] /\ pc[u] # "out"
    BY <1>1 DEF WorkerInOnePlace, HeldByPlace
  <2>2. held[u] # NoWorker =>
            /\ Quiet(held[u]) => Quiet(held[u])'
            /\ \A j : OnlyCall(held[u], j) => OnlyCall(held[u], j)'
            /\ \A a : Honest(held[u], a) => Honest(held[u], a)'
    <3> SUFFICES ASSUME held[u] # NoWorker, NEW v, v = held[u]
                 PROVE  /\ Quiet(v) => Quiet(v)'
                        /\ \A j : OnlyCall(v, j) => OnlyCall(v, j)'
                        /\ \A a : Honest(v, a) => Honest(v, a)'
      BY DEF Quiet, OnlyCall, Honest, Told
    <3>1. SameTalk(v)
      BY <2>1
    <3> QED
      BY <3>1, TalkSame
  <2>3. OwnTalk(u)
    BY DEF TalkInv
  <2> QED
    BY <2>1, <2>2, <2>3, ThreadSame
<1>3. ASSUME NEW w \in Elems(idle') PROVE Quiet(w)'
  <2>1. CASE w \in Elems(idle)
    <3>1. w \in Workers /\ w # held[t] /\ Quiet(w)
      BY <1>1, <2>1, ElemsType DEF WorkerInOnePlace, TalkInv
    <3> QED
      BY <3>1, TalkSame
  <2> QED
    BY <1>3, <2>1
<1>4. Elems(idle') = Elems(idle)'
  BY DEF Elems
<1> QED
  BY <1>2, <1>3, <1>4 DEF TalkInv

\* A step that takes nobody's place and leaves or ends conversations.
LEMMA OthersTalk ==
    ASSUME TalkInv, TypesInv', UNCHANGED <<pc, job, held, token, reply, idle>>,
           \A w \in Workers : TalkKept(w)
    PROVE  TalkInv'
<1>1. held \in [Threads -> Workers \cup {NoWorker}] /\ idle \in Seq(Workers)
      /\ \A u \in Threads : HeldByPlace(u)
  BY DEF TalkInv, TypesInv, PlaceInv, PlaceTypes
<1>2. ASSUME NEW u \in Threads PROVE OwnTalk(u)'
  <2>1. held[u] # NoWorker => held[u] \in Workers /\ pc[u] # "out"
    BY <1>1 DEF HeldByPlace
  <2>2. held[u] # NoWorker =>
            /\ Quiet(held[u]) => Quiet(held[u])'
            /\ \A j : j > 0 /\ OnlyCall(held[u], j) => OnlyCall(held[u], j)'
            /\ \A a : Honest(held[u], a) => Honest(held[u], a)'
    <3> SUFFICES ASSUME held[u] # NoWorker, NEW v, v = held[u]
                 PROVE  /\ Quiet(v) => Quiet(v)'
                        /\ \A j : j > 0 /\ OnlyCall(v, j) => OnlyCall(v, j)'
                        /\ \A a : Honest(v, a) => Honest(v, a)'
      BY DEF Quiet, OnlyCall, Honest, Told
    <3>1. TalkKept(v)
      BY <2>1
    <3> QED
      BY <3>1 DEF TalkKept
  <2>3. OwnTalk(u)
    BY DEF TalkInv
  <2> QED
    BY <2>1, <2>2, <2>3, ThreadSame
<1>3. ASSUME NEW w \in Elems(idle) PROVE Quiet(w)'
  <2>1. w \in Workers /\ Quiet(w)
    BY <1>1, ElemsType DEF TalkInv
  <2> QED
    BY <2>1 DEF TalkKept
<1>4. Elems(idle)' = Elems(idle)
  BY DEF Elems
<1> QED
  BY <1>2, <1>3, <1>4 DEF TalkInv

LEMMA CloseTalk ==
    ASSUME TypesInv, Close
    PROVE  \A w \in Workers : TalkKept(w)
<1> SUFFICES ASSUME NEW w \in Workers PROVE TalkKept(w)
  OBVIOUS
<1>1. /\ inbox[w] \in Seq(Messages) /\ outbox'[w] = outbox[w] /\ kid'[w] = kid[w]
      /\ control'[w] = control[w]
      /\ inbox'[w] = IF alive[w] THEN Append(inbox[w], Stop) ELSE inbox[w]
  BY DEF Close, TypesInv, PipeTypes
<1>2. Told(w)' = Told(w) /\ \A i \in Told(w) : inbox'[w][i] = inbox[w][i]
  <2>1. CASE alive[w]
    <3>1. /\ \A i \in DOMAIN inbox[w] : i \in DOMAIN inbox'[w] /\ inbox'[w][i] = inbox[w][i]
          /\ \A i \in DOMAIN inbox'[w] : i \in DOMAIN inbox[w] \/ inbox'[w][i] = Stop
      <4>1. Stop \in Messages /\ inbox'[w] = Append(inbox[w], Stop)
        BY <1>1, <2>1 DEF Stop, Messages
      <4> QED
        BY <1>1, <4>1
    <3> QED
      BY <3>1 DEF Told
  <2>2. CASE ~alive[w]
    BY <1>1, <2>2 DEF Told
  <2> QED
    BY <2>1, <2>2
<1>3. Quiet(w) => Quiet(w)'
  BY <1>1, <1>2 DEF Quiet
<1>4. \A j : OnlyCall(w, j) => OnlyCall(w, j)'
  BY <1>1, <1>2, <1>3 DEF OnlyCall
<1>5. \A a : Honest(w, a) => Honest(w, a)'
  BY <1>1 DEF Honest
<1> QED
  BY <1>3, <1>4, <1>5 DEF TalkKept

LEMMA OwnTalkThen ==
    ASSUME NEW t, NEW v, NEW j, NEW a, v = held'[t], j = job'[t], a = token'[t],
           pc'[t] # "out" => j > 0,
           v # NoWorker => /\ OnlyCall(v, j)'
                           /\ pc'[t] = "await" => Honest(v, a)'
                           /\ pc'[t] \notin {"await", "retire"} => Quiet(v)',
           reply'[t] # <<>> => /\ reply'[t][1].job = j
                               /\ reply'[t][1].kind = "cancelled" => a
    PROVE  OwnTalk(t)'
BY DEF OwnTalk, OnlyCall, Quiet, Honest, Told

LEMMA TalkNext == TalkInv /\ [Next]_vars => TalkInv'
<1> SUFFICES ASSUME TalkInv, [Next]_vars PROVE TalkInv'
  OBVIOUS
<1> USE DEF At
<1>a. TypesInv /\ TypesInv' /\ PlaceInv
  BY TypesNext DEF TalkInv, TypesInv
<1>b. /\ pc \in [Threads -> Places] /\ held \in [Threads -> Workers \cup {NoWorker}]
      /\ idle \in Seq(Workers) /\ DOMAIN reply = Threads /\ NoWorker \notin Workers
      /\ job \in [Threads -> Nat] /\ token \in [Threads -> BOOLEAN] /\ jobs \in Nat
  BY <1>a, PoolAssumption DEF PlaceInv, PlaceTypes, TypesInv, CallTypes
<1>c. /\ inbox \in [Workers -> Seq(Messages)] /\ outbox \in [Workers -> Seq(Answers)]
      /\ kid \in [Workers -> Kids] /\ control \in [Workers -> BOOLEAN]
  BY <1>a DEF TypesInv, PipeTypes
<1>d. \A w : TRUE => (SameTalk(w) => TalkKept(w))
  BY TalkSame DEF TalkKept
<1>e. Waiting.kind = "ok" /\ Waiting.at = "recv"
  BY DEF Waiting
<1>1. ASSUME NEW t \in Threads, RunStep(t) \/ Cancel(t) \/ PassCancel(t) PROVE TalkInv'
  <2>o. OwnTalk(t)
    BY DEF TalkInv
  <2>h. HeldByPlace(t) /\ held[t] \in Workers \cup {NoWorker} /\ pc[t] \in Places
    BY <1>a, <1>b DEF PlaceInv
  \* Steps that leave every conversation and the queue alone.
  <2>1. ASSUME UNCHANGED <<idle, inbox, outbox, kid, control>>, OwnTalk(t)',
               \A u \in Threads \ {t} : /\ pc'[u] = pc[u] /\ job'[u] = job[u]
                                        /\ held'[u] = held[u] /\ token'[u] = token[u]
                                        /\ reply'[u] = reply[u]
        PROVE  TalkInv'
    <3>1. \A w : SameTalk(w)
      BY <2>1 DEF SameTalk
    <3>2. \A w \in Elems(idle') : w \in Elems(idle)
      BY <2>1
    <3> QED
      BY <1>a, <2>1, <3>1, <3>2, ThreadTalk
  <2>2. CASE StartRun(t)
    <3>1. /\ held[t] = NoWorker /\ held'[t] = NoWorker /\ job'[t] > 0 /\ reply'[t] = <<>>
          /\ token'[t] = FALSE
      BY <1>b, <2>2, <2>h DEF StartRun, HeldByPlace
    <3>2. OwnTalk(t)'
      BY <3>1, OwnTalkThen
    <3> QED
      BY <1>b, <2>1, <2>2, <3>2 DEF StartRun, pipeVars
  <2>3. CASE Cancel(t)
    <3>1. /\ held' = held /\ job' = job /\ token'[t] = TRUE /\ reply' = reply /\ pc' = pc
          /\ UNCHANGED <<inbox, outbox, kid, control, idle>>
      BY <1>b, <2>3 DEF Cancel, pipeVars
    <3>2. \A v : SameTalk(v)
      BY <3>1 DEF SameTalk
    <3>4. \A v : Honest(v, TRUE)'
      BY DEF Honest
    <3>5. \A v, j : v = held'[t] /\ j = job'[t] /\ v # NoWorker =>
              /\ OnlyCall(v, j)' /\ (pc'[t] \notin {"await", "retire"} => Quiet(v)')
      <4> SUFFICES ASSUME NEW v, NEW j, v = held[t], j = job[t], v # NoWorker
                   PROVE  /\ OnlyCall(v, j)' /\ (pc'[t] \notin {"await", "retire"} => Quiet(v)')
        BY <3>1
      <4>1. OnlyCall(v, j) /\ (pc[t] \notin {"await", "retire"} => Quiet(v))
        BY <2>o DEF OwnTalk
      <4> QED
        BY <3>1, <3>2, <4>1, TalkSame
    <3>6. OwnTalk(t)'
      BY <2>o, <3>1, <3>4, <3>5, OwnTalkThen DEF OwnTalk
    <3> QED
      BY <1>b, <2>1, <2>3, <3>1, <3>6 DEF Cancel
  <2>4. ASSUME NEW n \in 0..MaxArrays, Acquire(t, n) PROVE TalkInv'
    <3>1. /\ Head(idle) \in Elems(idle) /\ Elems(Tail(idle)) \subseteq Elems(idle)
      BY <1>b, <2>4, ElemsOfTail DEF Acquire
    <3>2. /\ held'[t] = Head(idle) /\ pc'[t] = "wrap" /\ job'[t] = job[t] /\ token'[t] = token[t]
          /\ reply' = reply /\ UNCHANGED <<inbox, outbox, kid, control>> /\ idle' = Tail(idle)
          /\ pc[t] = "acquire"
      BY <1>b, <2>4 DEF Acquire, pipeVars
    <3>3. \A v : SameTalk(v)
      BY <3>2 DEF SameTalk
    <3>4. \A v : v = Head(idle) => Quiet(v)'
      BY <3>1, <3>3, TalkSame DEF TalkInv
    <3>5. reply[t] = <<>> /\ job[t] > 0
      BY <2>h, <2>o, <3>2 DEF HeldByPlace, Unanswered, OwnTalk
    <3>6. OwnTalk(t)'
      <4>1. \A v, j : v = Head(idle) => OnlyCall(v, j)'
        BY <3>4 DEF OnlyCall
      <4> QED
        BY <3>2, <3>4, <3>5, <4>1, OwnTalkThen
    <3>7. \A u \in Threads \ {t} : /\ pc'[u] = pc[u] /\ job'[u] = job[u]
                                   /\ held'[u] = held[u] /\ token'[u] = token[u]
                                   /\ reply'[u] = reply[u]
      BY <1>b, <2>4 DEF Acquire
    <3>8. \A w \in Elems(idle') : w \in Elems(idle)
      BY <3>1, <3>2
    <3> QED
      BY <1>a, <3>3, <3>6, <3>7, <3>8, ThreadTalk
  \* Steps that move the thread with its worker quiet or without one.
  <2>5. ASSUME UNCHANGED <<idle, inbox, outbox, kid, control, held, job, token, reply>>,
               NEW there, pc' = [pc EXCEPT ![t] = there], there # "await",
               pc[t] # "out",
               \/ held[t] = NoWorker
               \/ pc[t] = "await" /\ there = "retire"
               \/ pc[t] \notin {"await", "retire"}
        PROVE  TalkInv'
    <3>1. \A v : SameTalk(v)
      BY <2>5 DEF SameTalk
    <3>2. OwnTalk(t)'
      <4>1. ASSUME NEW v, NEW j, v = held[t], j = job[t], v # NoWorker
            PROVE  OnlyCall(v, j)' /\ (there # "retire" => Quiet(v)')
        <5>1. OnlyCall(v, j) /\ (pc[t] \notin {"await", "retire"} => Quiet(v))
          BY <2>o, <4>1 DEF OwnTalk
        <5> QED
          BY <2>5, <3>1, <4>1, <5>1, TalkSame
      <4>2. /\ held'[t] = held[t] /\ job'[t] = job[t] /\ token'[t] = token[t]
            /\ reply'[t] = reply[t] /\ pc'[t] = there
        BY <1>b, <2>5
      <4> QED
        BY <2>5, <2>o, <4>1, <4>2, OwnTalkThen DEF OwnTalk
    <3> QED
      BY <1>b, <2>1, <2>5, <3>2
  <2>6. CASE AcquireRefused(t) \/ LocalDone(t) \/ NoticeDeath(t) \/ NoticeClosed(t) \/ Leave(t)
             \/ TakeRaises(t) \/ Return(t)
    <3>1. UNCHANGED <<idle, inbox, outbox, kid, control, held, job, token, reply>>
      BY <2>6 DEF AcquireRefused, LocalDone, NoticeDeath, NoticeClosed, Leave, TakeRaises,
                  Return,
         pipeVars, queueVars, awaitFrame, releasedFrame, valueFrame
    <3>2. \/ /\ pc[t] \in {"acquire", "local", "value", "release"} /\ held[t] = NoWorker
             /\ \E there \in {"out", "release"} : pc' = [pc EXCEPT ![t] = there]
          \/ pc[t] = "await" /\ pc' = [pc EXCEPT ![t] = "retire"]
      BY <2>6, <2>h DEF AcquireRefused, LocalDone, NoticeDeath, NoticeClosed, Leave, TakeRaises,
         Return, HeldByPlace
    <3> QED
      BY <2>5, <3>1, <3>2
  <2>7. CASE Send(t) \/ SendBroken(t)
    <3>0. PICK w, j, a, m : w = held[t] /\ j = job[t] /\ a = token[t] /\ m = Message(j, wrap[t].said)
      OBVIOUS
    <3>1. /\ pc[t] = "wrap" /\ w \in Workers /\ Quiet(w) /\ j > 0 /\ reply[t] = <<>> /\ j \in Nat
      BY <1>b, <2>7, <2>h, <2>o, <3>0 DEF Send, SendBroken, Sending, Wrapped, Wrapping,
                                          HeldByPlace,
         Holding, Unanswered, OwnTalk
    <3>2. /\ control' = [control EXCEPT ![w] = FALSE] /\ UNCHANGED <<outbox, kid, job, token, reply>>
          /\ UNCHANGED queueVars
          /\ \/ pc' = [pc EXCEPT ![t] = "await"] /\ inbox' = [inbox EXCEPT ![w] = Append(@, m)]
             \/ pc' = [pc EXCEPT ![t] = "retire"] /\ inbox' = inbox
      BY <2>7, <3>0 DEF Send, SendBroken, Sending
    <3>3. m \in Messages /\ m.job = j
      <4>1. wrap[t].said \in Seq(Slots)
        BY <1>a DEF TypesInv, WrapTypes, Wraps, Parties
      <4> QED
        BY <3>0, <3>1, <4>1 DEF Message, Messages
    <3>4. \A v \in Workers : v # w => SameTalk(v)
      BY <1>c, <3>2 DEF SameTalk
    <3>5. control'[w] = FALSE /\ kid'[w] = Waiting /\ outbox'[w] = <<>>
      BY <1>c, <3>1, <3>2 DEF Quiet
    <3>6. Honest(w, a)'
      BY <1>e, <3>5 DEF Honest
    <3>7. /\ \A i \in Told(w)' : inbox'[w][i].job = j
          /\ \A i, k \in Told(w)' : i = k
      <4>1. CASE inbox' = inbox
        <5>1. Told(w)' = {}
          BY <3>1, <4>1 DEF Told, Quiet
        <5> QED
          BY <5>1
      <4>2. CASE inbox' = [inbox EXCEPT ![w] = Append(@, m)]
        <5>1. inbox'[w] = Append(inbox[w], m) /\ inbox[w] \in Seq(Messages)
          BY <1>c, <3>1, <4>2
        <5>2. \A i \in DOMAIN inbox[w] : inbox[w][i] = Stop
          BY <3>1 DEF Quiet, Told
        <5>3. \A i \in DOMAIN inbox'[w] : \/ i = Len(inbox[w]) + 1 /\ inbox'[w][i] = m
                                          \/ inbox'[w][i] = Stop
          BY <3>3, <5>1, <5>2
        <5> QED
          BY <3>3, <5>3 DEF Told
      <4> QED
        BY <3>2, <4>1, <4>2
    <3>8. OnlyCall(w, j)'
      BY <3>5, <3>7 DEF OnlyCall
    <3>9. /\ pc'[t] \in {"await", "retire"} /\ held' = held /\ idle' = idle
          /\ held'[t] = w /\ job'[t] = j /\ token'[t] = a
      BY <1>b, <3>0, <3>2 DEF queueVars
    <3>10. OwnTalk(t)'
      BY <3>1, <3>2, <3>6, <3>8, <3>9, OwnTalkThen
    <3>11. \A u \in Threads \ {t} : /\ pc'[u] = pc[u] /\ job'[u] = job[u]
                                    /\ held'[u] = held[u] /\ token'[u] = token[u]
                                    /\ reply'[u] = reply[u]
      BY <1>b, <3>2, <3>9
    <3> QED
      BY <1>a, <3>0, <3>4, <3>9, <3>10, <3>11, ThreadTalk
  \* Steps that put the quiet worker back, or lose it.
  <2>8. ASSUME NEW w \in Workers, w = held[t], Quiet(w)', held' = [held EXCEPT ![t] = NoWorker],
               idle' = Append(idle, w) \/ idle' = idle,
               \A v \in Workers : v # w => SameTalk(v),
               UNCHANGED <<job, token, reply>>, NEW there, pc' = [pc EXCEPT ![t] = there],
               pc[t] # "out"
        PROVE  TalkInv'
    <3>1. OwnTalk(t)'
      <4>1. held'[t] = NoWorker /\ job'[t] = job[t] /\ token'[t] = token[t] /\ reply'[t] = reply[t]
        BY <1>b, <2>8
      <4> QED
        BY <2>8, <2>o, <4>1, OwnTalkThen DEF OwnTalk
    <3>2. \A v \in Elems(idle') : v \in Elems(idle) \/ v = w
      <4>1. Elems(Append(idle, w)) = Elems(idle) \cup {w}
        BY <1>b, ElemsOfAppend
      <4> QED
        BY <2>8, <4>1
    <3>3. \A v \in Elems(idle') : v \in Elems(idle) \/ (v = held[t] /\ Quiet(v)')
      BY <2>8, <3>2
    <3>4. \A u \in Threads \ {t} : /\ pc'[u] = pc[u] /\ job'[u] = job[u]
                                   /\ held'[u] = held[u] /\ token'[u] = token[u]
                                   /\ reply'[u] = reply[u]
      BY <1>b, <2>8
    <3> QED
      BY <1>a, <2>8, <3>1, <3>3, <3>4, ThreadTalk
  <2>9. CASE SendUnpicklable(t) \/ RetireRespawn(t) \/ RetireLoses(t) \/ GiveBack(t)
    <3>0. PICK w : w = held[t]
      OBVIOUS
    <3>1. /\ w \in Workers /\ pc[t] \in {"wrap", "respawn", "release"}
          /\ held' = [held EXCEPT ![t] = NoWorker] /\ (idle' = Append(idle, w) \/ idle' = idle)
          /\ UNCHANGED <<inbox, outbox, kid, job, token, reply>>
          /\ \E there : pc' = [pc EXCEPT ![t] = there]
          /\ control' = control \/ control' = [control EXCEPT ![w] = FALSE]
      BY <1>b, <2>9, <2>h, <3>0 DEF SendUnpicklable, Sending, Wrapped, Wrapping,
                                    RetireRespawn, RetireLoses,
         GiveBack, respawnFrame, releasedFrame, pipeVars, HeldByPlace, Holding
    <3>2. Quiet(w)
      <4>1. held[t] # NoWorker /\ pc[t] \notin {"await", "retire"}
        BY <1>b, <3>0, <3>1
      <4> QED
        BY <2>o, <3>0, <4>1 DEF OwnTalk
    <3>3. Quiet(w)'
      BY <3>1, <3>2 DEF Quiet, Told
    <3>4. \A v \in Workers : v # w => SameTalk(v)
      BY <1>c, <3>1 DEF SameTalk
    <3> QED
      BY <2>8, <3>0, <3>1, <3>3, <3>4
  <2>10. CASE PassCancel(t)
    <3>0. PICK w, j, a : w = held[t] /\ j = job[t] /\ a = token[t]
      OBVIOUS
    <3>1. /\ pc[t] = "await" /\ a /\ w \in Workers /\ control' = [control EXCEPT ![w] = TRUE]
          /\ UNCHANGED <<inbox, outbox, kid, pc, job, token, reply, held, idle>>
      BY <2>10, <2>h, <3>0 DEF PassCancel, pipeVars, threadVars, HeldByPlace, Holding
    <3>2. OnlyCall(w, j) /\ reply[t] = <<>> /\ j > 0
      BY <1>b, <2>o, <2>h, <3>0, <3>1 DEF OwnTalk, HeldByPlace, Unanswered, Holding
    <3>3. OnlyCall(w, j)' /\ Honest(w, a)'
      BY <3>1, <3>2 DEF OnlyCall, Quiet, Told, Honest
    <3>4. OwnTalk(t)'
      BY <3>0, <3>1, <3>2, <3>3, OwnTalkThen
    <3>5. \A v \in Workers : v # w => SameTalk(v)
      BY <1>c, <3>1 DEF SameTalk
    <3> QED
      BY <1>a, <3>0, <3>1, <3>4, <3>5, ThreadTalk
  <2>11. CASE Receive(t)
    <3>0. PICK w, j, a : w = held[t] /\ j = job[t] /\ a = token[t]
      OBVIOUS
    <3>1. /\ pc[t] = "await" /\ w \in Workers /\ pc' = [pc EXCEPT ![t] = "release"]
          /\ outbox[w] # <<>> /\ outbox' = [outbox EXCEPT ![w] = Tail(@)]
          /\ reply' = [reply EXCEPT ![t] = <<Head(outbox[w])>>]
          /\ UNCHANGED <<inbox, kid, control, job, token, held, idle>>
      BY <2>11, <2>h, <3>0 DEF Receive, awaitFrame, HeldByPlace, Holding
    <3>2. OnlyCall(w, j) /\ Honest(w, a) /\ j > 0
      BY <1>b, <2>o, <3>0, <3>1 DEF OwnTalk
    <3>3. /\ Told(w) = {} /\ kid[w] = Waiting /\ Len(outbox[w]) = 1 /\ outbox[w][1].job = j
          /\ outbox[w] \in Seq(Answers)
      BY <1>c, <3>1, <3>2 DEF OnlyCall, Quiet
    <3>4. 1 \in DOMAIN outbox[w] /\ Head(outbox[w]) = outbox[w][1] /\ Tail(outbox[w]) = <<>>
      <4>1. 1 \in DOMAIN outbox[w] /\ Head(outbox[w]) = outbox[w][1]
        BY <3>3
      <4>2. Tail(outbox[w]) \in Seq(Answers) /\ Len(Tail(outbox[w])) = 0
        BY <3>1, <3>3
      <4> QED
        BY <4>1, <4>2, EmptySeq
    <3>5. /\ reply'[t] = <<outbox[w][1]>> /\ pc'[t] = "release" /\ outbox'[w] = <<>>
          /\ held'[t] = w /\ job'[t] = j /\ token'[t] = a
      BY <1>b, <1>c, <3>0, <3>1, <3>4
    <3>6. reply'[t][1] = outbox[w][1] /\ (outbox[w][1].kind = "cancelled" => a)
      BY <3>2, <3>4, <3>5 DEF Honest
    <3>7. Quiet(w)'
      BY <3>1, <3>3, <3>5 DEF Quiet, Told
    <3>8. OwnTalk(t)'
      <4>1. OnlyCall(w, j)'
        BY <3>7 DEF OnlyCall
      <4> QED
        BY <3>2, <3>3, <3>5, <3>6, <3>7, <4>1, OwnTalkThen
    <3>9. \A v \in Workers : v # w => SameTalk(v)
      BY <1>c, <3>1 DEF SameTalk
    <3>10. \A u \in Threads \ {t} : /\ pc'[u] = pc[u] /\ job'[u] = job[u]
                                    /\ held'[u] = held[u] /\ token'[u] = token[u]
                                    /\ reply'[u] = reply[u]
      BY <1>b, <3>1
    <3> QED
      BY <1>a, <3>0, <3>1, <3>8, <3>9, <3>10, ThreadTalk
  <2>12. CASE RetireKill(t) \/ RetireReclaim(t)
    <3>0. PICK w, j, a : w = held[t] /\ j = job[t] /\ a = token[t]
      OBVIOUS
    <3>1. /\ pc[t] \in {"retire", "reclaim"} /\ w \in Workers
          /\ \E there \in {"reclaim", "respawn"} : pc' = [pc EXCEPT ![t] = there]
          /\ UNCHANGED <<job, token, held, idle, reply>>
      BY <2>12, <2>h, <3>0 DEF RetireKill, RetireReclaim, HeldByPlace, Holding
    <3>2. Quiet(w)' /\ \A v \in Workers : v # w => SameTalk(v)
      <4>1. CASE RetireKill(t)
        <5>1. Disconnected(w) /\ Ended(w) /\ UNCHANGED control
          BY <3>0, <4>1 DEF RetireKill
        <5>2. /\ inbox'[w] = <<>> /\ outbox'[w] = <<>> /\ kid'[w] = Waiting
              /\ \A v \in Workers : v # w => SameTalk(v)
          BY <1>c, <3>1, <5>1 DEF Disconnected, Ended, SameTalk
        <5> QED
          BY <5>2 DEF Quiet, Told
      <4>2. CASE RetireReclaim(t)
        <5>1. /\ control' = [control EXCEPT ![w] = FALSE] /\ UNCHANGED <<inbox, outbox, kid>>
              /\ pc[t] = "reclaim"
          BY <3>0, <4>2 DEF RetireReclaim, pipeVars
        <5>2. Quiet(w)
          BY <1>b, <2>o, <3>0, <3>1, <5>1 DEF OwnTalk
        <5> QED
          BY <1>c, <5>1, <5>2 DEF Quiet, Told, SameTalk
      <4> QED
        BY <2>12, <4>1, <4>2
    <3>3. /\ pc'[t] \in {"reclaim", "respawn"} /\ held'[t] = w /\ job'[t] = j /\ token'[t] = a
          /\ reply'[t] = reply[t] /\ reply[t] = <<>> /\ j > 0
      BY <1>b, <2>o, <2>h, <3>0, <3>1 DEF HeldByPlace, Unanswered, Holding, OwnTalk
    <3>4. OwnTalk(t)'
      <4>1. OnlyCall(w, j)'
        BY <3>2 DEF OnlyCall
      <4> QED
        BY <3>2, <3>3, <4>1, OwnTalkThen
    <3>5. \A u \in Threads \ {t} : /\ pc'[u] = pc[u] /\ job'[u] = job[u]
                                   /\ held'[u] = held[u] /\ token'[u] = token[u]
                                   /\ reply'[u] = reply[u]
      BY <1>b, <3>1
    <3> QED
      BY <1>a, <3>0, <3>1, <3>2, <3>4, <3>5, ThreadTalk
  <2>13. CASE ReleaseLease(t) \/ ReleaseValue(t)
    <3>1. UNCHANGED <<idle, inbox, outbox, kid, control, held, job, token, reply, pc>>
      BY <2>13 DEF ReleaseLease, ReleaseValue, valueFrame, pipeVars
    <3>2. \A w \in Workers : TalkKept(w)
      BY <1>d, <3>1 DEF SameTalk
    <3> QED
      BY <1>a, <3>1, <3>2, OthersTalk
  <2>14. CASE TakeValue(t)
    <3>1. /\ UNCHANGED <<idle, inbox, outbox, kid, control, held, job, token, pc>>
          /\ pc[t] = "value" /\ reply' = [reply EXCEPT ![t][1].slots = Tail(@)]
      BY <2>14 DEF TakeValue, valueFrame, pipeVars
    <3>2. held[t] = NoWorker /\ reply[t] # <<>>
      BY <1>a, <2>h, <3>1 DEF HeldByPlace, TypesInv, CallTypes, ReplyThere
    <3>3. reply[t] = <<reply[t][1]>> /\ reply[t][1] \in Answers
      BY <1>a, <3>2, ThreadFacts
    <3>4. reply'[t][1].job = reply[t][1].job /\ reply'[t][1].kind = reply[t][1].kind
      <4>1. 1 \in DOMAIN reply[t]
        BY <3>3
      <4>2. reply'[t][1] = [reply[t][1] EXCEPT !.slots = Tail(@)]
        BY <1>b, <3>1, <4>1
      <4> QED
        BY <3>3, <4>2 DEF Answers
    <3>5. OwnTalk(t)'
      BY <1>b, <2>o, <3>1, <3>2, <3>4 DEF OwnTalk
    <3> QED
      BY <1>b, <2>1, <3>1, <3>5
  <2>15. 0 \in 0..MaxArrays /\ 1..MaxArrays \subseteq 0..MaxArrays
    BY PoolAssumption
  <2> QED
    BY <1>1, <2>2, <2>3, <2>4, <2>6, <2>7, <2>9, <2>10, <2>11, <2>12, <2>13, <2>14, <2>15
      DEF RunStep
<1>2. ASSUME NEW p \in Parties, WrapStep(p) PROVE TalkInv'
  <2>1. CASE WrapRaises(p) /\ p \in Threads
    <3>1. /\ UNCHANGED <<idle, inbox, outbox, kid, control, held, job, token, reply>>
          /\ pc[p] = "wrap" /\ pc' = [pc EXCEPT ![p] = "retire"]
      BY <2>1 DEF WrapRaises, Wrapping, wrapFrame, pipeVars
    <3>2. \A w \in Workers : SameTalk(w)
      BY <3>1 DEF SameTalk
    <3>3. PICK w, j, a : w = held[p] /\ j = job[p] /\ a = token[p]
      OBVIOUS
    <3>4. OwnTalk(p) /\ w \in Workers /\ HeldByPlace(p)
      BY <1>a, <2>1, <3>1, <3>3 DEF TalkInv, PlaceInv, HeldByPlace, Holding
    <3>5. OnlyCall(w, j) /\ j > 0 /\ reply[p] = <<>>
      BY <1>b, <3>1, <3>3, <3>4 DEF OwnTalk, HeldByPlace, Unanswered, Holding
    <3>6. OnlyCall(w, j)'
      BY <3>2, <3>4, <3>5, TalkSame
    <3>7. /\ pc'[p] = "retire" /\ held'[p] = w /\ job'[p] = j /\ token'[p] = a
          /\ reply'[p] = <<>>
      BY <1>b, <2>1, <3>1, <3>3, <3>5
    <3>8. OwnTalk(p)'
      BY <3>5, <3>6, <3>7, OwnTalkThen
    <3>9. \A u \in Threads \ {p} : /\ pc'[u] = pc[u] /\ job'[u] = job[u]
                                   /\ held'[u] = held[u] /\ token'[u] = token[u]
                                   /\ reply'[u] = reply[u]
      BY <1>b, <2>1, <3>1
    <3> QED
      BY <1>a, <2>1, <3>1, <3>2, <3>8, <3>9, ThreadTalk
  <2>2. CASE WrapRaises(p) /\ p \notin Threads
    <3>1. p \in Workers
      BY <2>2 DEF Parties
    <3>2. \A w \in Workers : TalkKept(w)
      BY <1>a, <1>d, <2>2, <3>1, WorkerTalk
    <3>3. UNCHANGED <<idle, held, job, token, reply, pc>>
      BY <2>2 DEF WrapRaises, wrapFrame
    <3> QED
      BY <1>a, <3>2, <3>3, OthersTalk
  <2>3. CASE ~WrapRaises(p)
    <3>1. UNCHANGED <<idle, inbox, outbox, kid, control, held, job, token, reply, pc>>
      BY <1>2, <2>3 DEF WrapStep, WrapLease, WrapFallback, WrapOversize, WrapWrite,
                        WrapPublish, WrapReject,
         wrapFrame, pipeVars
    <3>2. \A w \in Workers : TalkKept(w)
      BY <1>d, <3>1 DEF SameTalk
    <3> QED
      BY <1>a, <3>1, <3>2, OthersTalk
  <2> QED
    BY <2>1, <2>2, <2>3
<1>3. ASSUME NEW w \in Workers, ChildStep(w) \/ Die(w) \/ CloseWorker(w) PROVE TalkInv'
  <2>1. \A v \in Workers : TalkKept(v)
    BY <1>3, <1>a, <1>d, WorkerTalk
  <2>2. UNCHANGED <<idle, held, job, token, reply, pc>>
    BY <1>3 DEF ChildStep, ChildReceive, ChildStop, ChildTake, ChildTakeRaises, ChildCompute,
       ChildFails, ChildWrapped, ChildSend, Die, CloseWorker, childFrame, threadVars
  <2> QED
    BY <1>a, <2>1, <2>2, OthersTalk
<1>4. CASE Close
  <2>1. UNCHANGED <<idle, held, job, token, reply, pc>>
    BY <1>4 DEF Close, threadVars
  <2> QED
    BY <1>4, <1>a, <2>1, CloseTalk, OthersTalk
<1>5. CASE Unmap \/ UNCHANGED vars
  <2>1. UNCHANGED <<idle, inbox, outbox, kid, control, held, job, token, reply, pc>>
    BY <1>5 DEF Unmap, vars, threadVars, pipeVars
  <2>2. \A w \in Workers : TalkKept(w)
    BY <1>d, <2>1 DEF SameTalk
  <2> QED
    BY <1>a, <2>1, <2>2, OthersTalk
<1> QED
  BY <1>1, <1>2, <1>3, <1>4, <1>5 DEF Next

LEMMA TalkIsOwn == TalkInv => RepliesAreOwn
<1> SUFFICES ASSUME TalkInv PROVE RepliesAreOwn
  OBVIOUS
<1>1. ASSUME NEW w, Quiet(w) PROVE Conversation(w) = {}
  <2>1. kid[w].job = 0 /\ Elems(outbox[w]) = {}
    BY <1>1, NoElements DEF Quiet, Waiting
  <2>2. \A i \in DOMAIN inbox[w] : inbox[w][i] = Stop
    BY <1>1 DEF Quiet, Told
  <2>3. Elems(inbox[w]) \ {Stop} = {}
    BY <2>2 DEF Elems
  <2> QED
    BY <2>1, <2>3 DEF Conversation
<1>2. ASSUME NEW w \in Workers, NEW j, OnlyCall(w, j) PROVE Conversation(w) \subseteq {j}
  <2>1. CASE Quiet(w)
    BY <1>1, <2>1
  <2>2. CASE ~Quiet(w)
    <3>1. \A m \in Elems(inbox[w]) \ {Stop} : m.job = j
      BY <1>2, <2>2 DEF OnlyCall, Told, Elems
    <3>2. \A a \in Elems(outbox[w]) : a.job = j
      <4>1. outbox[w] \in Seq(Answers)
        BY DEF TalkInv, TypesInv, PipeTypes
      <4>2. outbox[w] = <<>> \/ (Len(outbox[w]) = 1 /\ outbox[w][1].job = j)
        BY <1>2, <2>2 DEF OnlyCall
      <4>3. \A i \in DOMAIN outbox[w] : outbox[w][i].job = j
        BY <4>1, <4>2
      <4> QED
        BY <4>3 DEF Elems
    <3>3. kid[w].job # 0 => kid[w].job = j
      BY <1>2, <2>2 DEF OnlyCall, Waiting
    <3> QED
      BY <3>1, <3>2, <3>3 DEF Conversation
  <2> QED
    BY <2>1, <2>2
<1>3. \A t \in Threads : held[t] \in Workers \cup {NoWorker} /\ OwnTalk(t)
  BY DEF TalkInv, TypesInv, PlaceInv, PlaceTypes
<1>4. ASSUME NEW t \in Threads, held[t] # NoWorker PROVE Conversation(held[t]) \subseteq {job[t]}
  BY <1>2, <1>3, <1>4 DEF OwnTalk
<1>5. \A w \in Elems(idle) : Conversation(w) = {}
  BY <1>1 DEF TalkInv
<1>6. ASSUME NEW t \in Threads, reply[t] # <<>>
      PROVE  reply[t][1].job = job[t] /\ (reply[t][1].kind = "cancelled" => token[t])
  BY <1>3, <1>6 DEF OwnTalk
<1> QED
  BY <1>4, <1>5, <1>6 DEF RepliesAreOwn

\* Nobody gets the answer to somebody else's call, and nobody is cancelled on
\* another's behalf, whatever processes die, fail to start or are told to stop:
\* what is under way in a worker belongs to the call of the thread that holds
\* it, a worker in the queue is clean, and a reply is the caller's own (run,
\* _await_reply, _retire, close).
THEOREM AnswersReachTheirCall == Spec => []RepliesAreOwn
<1>1. Init => TalkInv
  BY TalkInit
<1>2. TalkInv /\ [Next]_vars => TalkInv'
  BY TalkNext
<1>3. TalkInv => RepliesAreOwn
  BY TalkIsOwn
<1> QED
  BY <1>1, <1>2, <1>3, PTL DEF Spec

\* The slots party p answers for: it fills or has published them, or it is a
\* thread that has leased them to a call or has not read them out of a reply,
\* or a worker whose answer is on its way or that has left them out of one.
Filling(p) == {wrap[p].slot} \ {NoSlot}
Made(p) == Elems(wrap[p].made)
Asked(t) == Elems(leases[t])
Unread(t) == IF reply[t] = <<>> THEN {} ELSE Elems(Untaken(t))
Answered(w) == IF outbox[w] = <<>> THEN {} ELSE Elems(outbox[w][1].slots)
Stake(p) ==
    Filling(p) \cup Made(p)
        \cup IF p \in Threads THEN Asked(p) \cup Unread(p) \cup Elems(taken[p])
             ELSE Answered(p) \cup stranded[p]

\* Every slot in use has one party that answers for it, and only one.
SlotsOwned ==
    /\ \A p, q \in Parties : p # q => Stake(p) \cap Stake(q) = {}
    /\ \A s \in Slots : slotState[s] # "free" <=> \E p \in Parties : s \in Stake(p)

\* The slots of S are in one state and have the bytes written under one tag.
Intact(S, state, tag) == \A s \in S : slotState[s] = state /\ content[s] = tag

WrapSound(p, tag) ==
    /\ Distinct(wrap[p].made) /\ Filling(p) \cap Made(p) = {}
    /\ \A s \in Filling(p) : slotState[s] = "leased" /\ (wrap[p].written => content[s] = tag)
    /\ Intact(Made(p), "ready", tag)
    /\ Elems(wrap[p].said) \subseteq Made(p) /\ Distinct(wrap[p].said)

\* What thread t has not read out of its reply can be taken, and has its bytes.
ReplySound(t, tag) ==
    /\ Asked(t) \cap Unread(t) = {} /\ Unread(t) \cap Elems(taken[t]) = {}
    /\ reply[t] # <<>> => Distinct(Untaken(t))
    /\ Distinct(taken[t])
    /\ Intact(Unread(t), "ready", tag) /\ Intact(Elems(taken[t]), "held", tag)

\* What worker w still has to take of the request of thread t can be taken, and
\* it and what the worker has a view of have their bytes.
RequestSound(t, w, tag) ==
    /\ \A i \in Told(w) : /\ Elems(inbox[w][i].slots) \subseteq Asked(t)
                          /\ Distinct(inbox[w][i].slots)
                          /\ Intact(Elems(inbox[w][i].slots), "ready", tag)
    /\ Elems(kid[w].todo) \subseteq Asked(t) /\ Distinct(kid[w].todo)
    /\ Intact(Elems(kid[w].todo), "ready", tag)
    /\ Elems(kid[w].view) \subseteq Asked(t)
    /\ \A s \in Elems(kid[w].view) : content[s] = tag

\* What a thread answers for is decided by where it is in run(), which never
\* retires a worker in a calm pool.
Phases(t) ==
    /\ pc[t] \notin {"retire", "reclaim", "respawn"}
    /\ pc[t] # "wrap" => wrap[t] = Unwrapped(0)
    /\ pc[t] \notin {"await", "local", "release"} => leases[t] = <<>>
    /\ pc[t] \notin {"release", "value"} => Unread(t) = {}
    /\ pc[t] # "value" => taken[t] = <<>>
    /\ Distinct(leases[t])

ThreadSound(t) ==
    /\ Phases(t)
    /\ WrapSound(t, <<job[t], "request">>)
    /\ ReplySound(t, <<job[t], "result">>)
    /\ pc[t] = "await" => RequestSound(t, held[t], <<job[t], "request">>)

ChildPhases(w) ==
    /\ alive[w] /\ \A i \in DOMAIN inbox[w] : inbox[w][i] # Stop
    /\ kid[w].at \notin {"wrap", "send"} => wrap[w] = Unwrapped(0)
    /\ kid[w].at = "send" => Filling(w) = {}
    /\ kid[w].at # "take" => kid[w].todo = <<>> /\ kid[w].view = <<>>

AnswerSound(w) ==
    outbox[w] # <<>> => /\ Distinct(outbox[w][1].slots)
                        /\ Intact(Answered(w), "ready", <<outbox[w][1].job, "result">>)

\* What worker w fills, has published or has answered with.
Own(w) == Filling(w) \cup Made(w) \cup Answered(w)

\* What it has left out of its answers is published and in no use, and all it
\* answers for is reclaimed with it.
StraySound(w) ==
    /\ stranded[w] \cap Own(w) = {} /\ \A s \in stranded[w] : slotState[s] = "ready"
    /\ \A s \in Own(w) \cup stranded[w] : slotOwner[s] = w + 1

WorkerSound(w) ==
    /\ ChildPhases(w)
    /\ WrapSound(w, <<kid[w].job, "result">>)
    /\ AnswerSound(w)
    /\ StraySound(w)

\* A worker with something under way works for a thread that awaits it.
Employed(w) == Quiet(w) \/ \E t \in Threads : held[t] = w /\ pc[t] = "await"

\* The pool while no process dies and it is not closed.
CalmInv ==
    /\ TalkInv
    /\ ~closed /\ mapped
    /\ SlotsOwned
    /\ \A t \in Threads : ThreadSound(t)
    /\ \A w \in Workers : WorkerSound(w) /\ Employed(w)

\* The slots of S are left alone.
SlotsSame(S) ==
    \A s \in S : /\ slotState'[s] = slotState[s] /\ slotOwner'[s] = slotOwner[s]
                 /\ content'[s] = content[s]

LEMMA StakeSlots ==
    ASSUME TypesInv, NEW p \in Parties
    PROVE  /\ Stake(p) \subseteq Slots
           /\ wrap[p] \in Wraps /\ wrap[p].made \in Seq(Slots) /\ wrap[p].slot \in Slots \cup {NoSlot}
           /\ p \in Threads => leases[p] \in Seq(Slots) /\ taken[p] \in Seq(Slots)
           /\ p \in Threads => (reply[p] # <<>> => Untaken(p) \in Seq(Slots))
           /\ p \notin Threads => p \in Workers
<1>1. /\ wrap[p] \in Wraps /\ wrap[p].made \in Seq(Slots) /\ wrap[p].slot \in Slots \cup {NoSlot}
  BY DEF TypesInv, WrapTypes, Wraps
<1>2. Filling(p) \subseteq Slots /\ Made(p) \subseteq Slots
  BY <1>1, ElemsType DEF Filling, Made
<1>3. ASSUME p \in Threads
      PROVE  /\ leases[p] \in Seq(Slots) /\ taken[p] \in Seq(Slots)
             /\ reply[p] # <<>> => Untaken(p) \in Seq(Slots)
  <2>1. reply[p] # <<>> => reply[p][1] \in Answers
    BY <1>3, ThreadFacts
  <2> QED
    BY <1>3, <2>1 DEF TypesInv, CallTypes, Answers, Untaken
<1>4. ASSUME p \in Threads PROVE Asked(p) \cup Unread(p) \cup Elems(taken[p]) \subseteq Slots
  <2>1. Asked(p) \subseteq Slots /\ Elems(taken[p]) \subseteq Slots
    BY <1>3, <1>4, ElemsType DEF Asked
  <2>2. Unread(p) \subseteq Slots
    BY <1>3, <1>4, ElemsType DEF Unread
  <2> QED
    BY <2>1, <2>2
<1>5. ASSUME p \notin Threads
      PROVE  p \in Workers /\ Answered(p) \subseteq Slots /\ stranded[p] \subseteq Slots
  <2>1. p \in Workers
    BY <1>5 DEF Parties
  <2>2. outbox[p] \in Seq(Answers)
    BY <2>1, PipeFacts
  <2>3. outbox[p] # <<>> => outbox[p][1] \in Answers
    BY <2>2, ElemsOfTail
  <2>4. outbox[p] # <<>> => outbox[p][1].slots \in Seq(Slots)
    BY <2>3 DEF Answers
  <2>5. stranded[p] \subseteq Slots
    BY <2>1 DEF TypesInv, SlotTypes
  <2> QED
    BY <2>1, <2>4, <2>5, ElemsType DEF Answered
<1> QED
  BY <1>1, <1>2, <1>3, <1>4, <1>5 DEF Stake

LEMMA StakeSame ==
    ASSUME NEW p, wrap'[p] = wrap[p],
           p \in Threads => leases'[p] = leases[p] /\ reply'[p] = reply[p] /\ taken'[p] = taken[p],
           p \notin Threads => outbox'[p] = outbox[p] /\ stranded'[p] = stranded[p]
    PROVE  Stake(p)' = Stake(p)
BY DEF Stake, Filling, Made, Asked, Unread, Untaken, Answered, Elems

\* A step of party p that takes free slots, or frees slots of its own.
LEMMA OwnedNext ==
    ASSUME SlotsOwned, NEW p \in Parties,
           \A q \in Parties \ {p} : Stake(q)' = Stake(q),
           \A s \in Stake(p)' : s \in Slots /\ (s \in Stake(p) \/ slotState[s] = "free"),
           \A s \in Slots : slotState'[s] # "free" <=>
                                (s \in Stake(p)' \/ (slotState[s] # "free" /\ s \notin Stake(p)))
    PROVE  SlotsOwned'
<1>1. ASSUME NEW q \in Parties \ {p} PROVE Stake(p)' \cap Stake(q)' = {}
  BY <1>1 DEF SlotsOwned
<1>2. \A q, r \in Parties : q # r => Stake(q)' \cap Stake(r)' = {}
  BY <1>1 DEF SlotsOwned
<1>3. \A s \in Slots : slotState'[s] # "free" => \E q \in Parties : s \in Stake(q)'
  BY DEF SlotsOwned
<1>4. ASSUME NEW s \in Slots, NEW q \in Parties, s \in Stake(q)' PROVE slotState'[s] # "free"
  BY <1>4 DEF SlotsOwned
<1> QED
  BY <1>2, <1>3, <1>4 DEF SlotsOwned

LEMMA WrapSame ==
    ASSUME NEW p, NEW tag, wrap'[p] = wrap[p], SlotsSame(Filling(p) \cup Made(p)), WrapSound(p, tag)
    PROVE  WrapSound(p, tag)'
<1>1. Filling(p)' = Filling(p) /\ Made(p)' = Made(p)
      /\ Elems(wrap[p].said)' = Elems(wrap[p].said)
  BY DEF Filling, Made, Elems
<1>2. Distinct(wrap[p].made)' = Distinct(wrap[p].made) /\ Distinct(wrap[p].said)' = Distinct(wrap[p].said)
  BY DEF Distinct
<1>3. Intact(Made(p), "ready", tag)'
  BY <1>1 DEF WrapSound, Intact, SlotsSame
<1> QED
  BY <1>1, <1>2, <1>3 DEF WrapSound, SlotsSame

LEMMA WrapEmpty ==
    ASSUME NEW p, NEW tag, wrap'[p].made = <<>>, wrap'[p].slot = NoSlot, wrap'[p].said = <<>>
    PROVE  WrapSound(p, tag)'
BY NoElements DEF WrapSound, Intact, Filling, Made

LEMMA ReplySame ==
    ASSUME NEW t, NEW tag, reply'[t] = reply[t], leases'[t] = leases[t], taken'[t] = taken[t],
           SlotsSame(Unread(t) \cup Elems(taken[t])), ReplySound(t, tag)
    PROVE  ReplySound(t, tag)'
<1>1. Asked(t)' = Asked(t) /\ Unread(t)' = Unread(t) /\ Elems(taken[t])' = Elems(taken[t])
  BY DEF Unread, Untaken, Asked, Elems
<1>2. Distinct(taken[t])' /\ (reply'[t] # <<>> => Distinct(Untaken(t))')
  BY DEF ReplySound, Untaken, Distinct
<1>3. Intact(Unread(t), "ready", tag)' /\ Intact(Elems(taken[t]), "held", tag)'
  BY <1>1 DEF ReplySound, Intact, SlotsSame
<1> QED
  BY <1>1, <1>2, <1>3 DEF ReplySound

LEMMA ReplyEmpty ==
    ASSUME NEW t, NEW tag, Unread(t)' = {}, reply'[t] = <<>> \/ Untaken(t)' = <<>>, taken'[t] = <<>>
    PROVE  ReplySound(t, tag)'
<1>1. Elems(taken[t])' = {} /\ Distinct(taken[t])'
  BY DEF Elems, Distinct
<1>2. reply'[t] # <<>> => Distinct(Untaken(t))'
  BY DEF Distinct
<1> QED
  BY <1>1, <1>2 DEF ReplySound, Intact

LEMMA RequestSame ==
    ASSUME NEW t, NEW w, NEW tag, inbox'[w] = inbox[w], kid'[w] = kid[w], leases'[t] = leases[t],
           SlotsSame(Asked(t)), RequestSound(t, w, tag)
    PROVE  RequestSound(t, w, tag)'
<1>1. Told(w)' = Told(w) /\ Asked(t)' = Asked(t)
  BY DEF Told, Asked, Elems
<1>2. ASSUME NEW i \in Told(w)
      PROVE  /\ Elems(inbox[w][i].slots)' \subseteq Asked(t)' /\ Distinct(inbox[w][i].slots)'
             /\ Intact(Elems(inbox[w][i].slots), "ready", tag)'
  BY <1>1, <1>2 DEF RequestSound, Intact, SlotsSame, Elems, Distinct
<1>3. /\ Elems(kid[w].todo)' = Elems(kid[w].todo) /\ Elems(kid[w].view)' = Elems(kid[w].view)
      /\ Distinct(kid[w].todo)' = Distinct(kid[w].todo)
  BY DEF Elems, Distinct
<1>4. /\ Elems(kid[w].todo)' \subseteq Asked(t)' /\ Distinct(kid[w].todo)'
      /\ Elems(kid[w].view)' \subseteq Asked(t)'
  BY <1>1, <1>3 DEF RequestSound
<1>5. /\ Intact(Elems(kid[w].todo), "ready", tag)'
      /\ \A s \in Elems(kid[w].view)' : content'[s] = tag
  BY <1>1, <1>3 DEF RequestSound, Intact, SlotsSame
<1> QED
  BY <1>1, <1>2, <1>4, <1>5 DEF RequestSound

LEMMA ThreadSoundThen ==
    ASSUME NEW t, NEW j, NEW w, j = job'[t], w = held'[t], Phases(t)',
           WrapSound(t, <<j, "request">>)', ReplySound(t, <<j, "result">>)',
           pc'[t] = "await" => RequestSound(t, w, <<j, "request">>)'
    PROVE  ThreadSound(t)'
<1>1. \A tag : tag = <<j, "request">> => WrapSound(t, tag)' /\ (pc'[t] = "await" => RequestSound(t, w, tag)')
  OBVIOUS
<1> QED
  BY <1>1 DEF ThreadSound

LEMMA WorkerSoundThen ==
    ASSUME NEW w, NEW j, j = kid'[w].job, ChildPhases(w)',
           WrapSound(w, <<j, "result">>)', AnswerSound(w)', StraySound(w)'
    PROVE  WorkerSound(w)'
BY DEF WorkerSound

\* A worker takes nothing, and what it still answers for is left alone.
LEMMA StrayKept ==
    ASSUME NEW w, StraySound(w), stranded'[w] = stranded[w], Own(w)' \subseteq Own(w),
           \A s \in Own(w)' \cup stranded[w] : slotOwner'[s] = slotOwner[s],
           \A s \in stranded[w] : slotState'[s] = slotState[s]
    PROVE  StraySound(w)'
BY DEF StraySound

\* A thread that does not move.
LEMMA ThreadSoundSame ==
    ASSUME NEW t \in Threads, ThreadSound(t),
           pc'[t] = pc[t], job'[t] = job[t], held'[t] = held[t], wrap'[t] = wrap[t],
           leases'[t] = leases[t], reply'[t] = reply[t], taken'[t] = taken[t],
           pc[t] = "await" => inbox'[held[t]] = inbox[held[t]] /\ kid'[held[t]] = kid[held[t]],
           SlotsSame(Stake(t))
    PROVE  ThreadSound(t)'
<1>1. PICK w, j : w = held[t] /\ j = job[t]
  OBVIOUS
<1>2. /\ SlotsSame(Filling(t) \cup Made(t)) /\ SlotsSame(Unread(t) \cup Elems(taken[t]))
      /\ SlotsSame(Asked(t))
  BY DEF SlotsSame, Stake
<1>3. Phases(t)'
  BY DEF ThreadSound, Phases, Unread, Untaken, Distinct, Elems, Unwrapped
<1>4. WrapSound(t, <<j, "request">>)'
  BY <1>1, <1>2, WrapSame DEF ThreadSound
<1>5. ReplySound(t, <<j, "result">>)'
  BY <1>1, <1>2, ReplySame DEF ThreadSound
<1>6. ASSUME pc[t] = "await" PROVE RequestSound(t, w, <<j, "request">>)'
  <2>1. RequestSound(t, w, <<j, "request">>)
    BY <1>1, <1>6 DEF ThreadSound
  <2> QED
    BY <1>1, <1>2, <1>6, <2>1, RequestSame
<1> QED
  BY <1>1, <1>3, <1>4, <1>5, <1>6, ThreadSoundThen

\* A worker that is left alone.
LEMMA WorkerSoundSame ==
    ASSUME NEW w \in Workers, WorkerSound(w), w \notin Threads,
           alive'[w] = alive[w], inbox'[w] = inbox[w], outbox'[w] = outbox[w],
           kid'[w] = kid[w], wrap'[w] = wrap[w], stranded'[w] = stranded[w], SlotsSame(Stake(w))
    PROVE  WorkerSound(w)'
<1>1. PICK j : j = kid[w].job
  OBVIOUS
<1>2. SlotsSame(Filling(w) \cup Made(w)) /\ SlotsSame(Answered(w))
  BY DEF SlotsSame, Stake
<1>3. ChildPhases(w)'
  BY DEF WorkerSound, ChildPhases, Filling, Unwrapped
<1>4. WrapSound(w, <<j, "result">>)'
  BY <1>1, <1>2, WrapSame DEF WorkerSound
<1>5. AnswerSound(w)'
  <2>1. Answered(w)' = Answered(w)
    BY DEF Answered, Elems
  <2>2. ASSUME outbox'[w] # <<>>
        PROVE  /\ Distinct(outbox[w][1].slots)'
               /\ Intact(Answered(w), "ready", <<outbox[w][1].job, "result">>)'
    <3>1. Distinct(outbox[w][1].slots)'
      BY <2>2 DEF WorkerSound, AnswerSound, Distinct
    <3>2. Intact(Answered(w), "ready", <<outbox[w][1].job, "result">>)'
      BY <1>2, <2>1, <2>2 DEF WorkerSound, AnswerSound, Intact, SlotsSame
    <3> QED
      BY <3>1, <3>2
  <2> QED
    BY <2>2 DEF AnswerSound
<1>6. StraySound(w)'
  <2>1. Own(w)' = Own(w)
    BY DEF Own, Filling, Made, Answered, Elems
  <2>2. Stake(w) = Own(w) \cup stranded[w]
    BY DEF Stake, Own
  <2> QED
    BY <2>1, <2>2, StrayKept DEF WorkerSound, SlotsSame
<1> QED
  BY <1>1, <1>3, <1>4, <1>5, <1>6, WorkerSoundThen

\* Nobody stops waiting, and no worker that was quiet is given anything.
LEMMA EmployedSame ==
    ASSUME CalmInv, \A w \in Workers : Quiet(w) => Quiet(w)',
           \A t \in Threads : pc[t] = "await" => pc'[t] = "await" /\ held'[t] = held[t]
    PROVE  \A w \in Workers : Employed(w)'
<1> SUFFICES ASSUME NEW w \in Workers PROVE Employed(w)'
  OBVIOUS
<1>1. Employed(w)
  BY DEF CalmInv
<1> QED
  BY <1>1 DEF Employed

\* What is known of the calm pool before a step.
LEMMA CalmFacts ==
    ASSUME CalmInv
    PROVE  /\ TalkInv /\ TypesInv /\ PlaceInv /\ SlotsOwned /\ ~closed /\ mapped
           /\ pc \in [Threads -> Places] /\ held \in [Threads -> Workers \cup {NoWorker}]
           /\ idle \in Seq(Workers) /\ DOMAIN reply = Threads /\ NoWorker \notin Workers
           /\ job \in [Threads -> Nat] /\ token \in [Threads -> BOOLEAN] /\ jobs \in Nat
           /\ leases \in [Threads -> Seq(Slots)] /\ taken \in [Threads -> Seq(Slots)]
           /\ inbox \in [Workers -> Seq(Messages)] /\ outbox \in [Workers -> Seq(Answers)]
           /\ kid \in [Workers -> Kids] /\ control \in [Workers -> BOOLEAN]
           /\ wrap \in [Parties -> Wraps] /\ \A p \in Parties : WrapOrder(p)
           /\ slotState \in [Slots -> SlotStates] /\ DOMAIN content = Slots
           /\ DOMAIN slotOwner = Slots /\ stranded \in [Workers -> SUBSET Slots]
           /\ Threads \cap Workers = {} /\ Parties = Threads \cup Workers /\ NoSlot \notin Slots
           /\ \A t \in Threads : pc[t] \notin {"retire", "reclaim", "respawn"}
           /\ \A w \in Workers : alive[w]
<1>1. TalkInv /\ TypesInv /\ PlaceInv /\ SlotsOwned /\ ~closed /\ mapped
  BY DEF CalmInv, TalkInv, TypesInv
<1>2. PlaceTypes /\ SlotTypes /\ PipeTypes /\ CallTypes /\ WrapTypes
  BY <1>1 DEF PlaceInv, TypesInv
<1>3. /\ \A t \in Threads : pc[t] \notin {"retire", "reclaim", "respawn"}
      /\ \A w \in Workers : alive[w]
  BY DEF CalmInv, ThreadSound, Phases, WorkerSound, ChildPhases
<1>4. /\ Threads \cap Workers = {} /\ NoSlot \notin Slots /\ NoWorker \notin Workers
      /\ Parties = Threads \cup Workers
  BY PoolAssumption DEF Parties
<1>5. /\ pc \in [Threads -> Places] /\ held \in [Threads -> Workers \cup {NoWorker}]
      /\ idle \in Seq(Workers) /\ DOMAIN reply = Threads
  BY <1>2 DEF PlaceTypes
<1>6. /\ job \in [Threads -> Nat] /\ token \in [Threads -> BOOLEAN] /\ jobs \in Nat
      /\ leases \in [Threads -> Seq(Slots)] /\ taken \in [Threads -> Seq(Slots)]
  BY <1>2 DEF CallTypes
<1>7. /\ inbox \in [Workers -> Seq(Messages)] /\ outbox \in [Workers -> Seq(Answers)]
      /\ kid \in [Workers -> Kids] /\ control \in [Workers -> BOOLEAN]
  BY <1>2 DEF PipeTypes
<1>8. /\ wrap \in [Parties -> Wraps] /\ \A p \in Parties : WrapOrder(p)
      /\ slotState \in [Slots -> SlotStates] /\ DOMAIN content = Slots
      /\ DOMAIN slotOwner = Slots /\ stranded \in [Workers -> SUBSET Slots]
  BY <1>2 DEF WrapTypes, SlotTypes
<1> QED
  BY <1>1, <1>3, <1>4, <1>5, <1>6, <1>7, <1>8

\* A step of party p on its own slots and on free ones.
TakesOwn(p) ==
    /\ \A s \in Stake(p)' : /\ s \in Stake(p) \/ (s \in Slots /\ slotState[s] = "free")
                           /\ slotState'[s] # "free"
    /\ \A s \in Stake(p) : s \in Stake(p)' \/ slotState'[s] = "free"
    /\ \A s \in Slots : \/ s \in Stake(p) \/ s \in Stake(p)'
                        \/ /\ slotState'[s] = slotState[s] /\ slotOwner'[s] = slotOwner[s]
                           /\ content'[s] = content[s]

LEMMA OwnSlots ==
    ASSUME CalmInv, NEW p \in Parties, TakesOwn(p),
           \A q \in Parties \ {p} : Stake(q)' = Stake(q)
    PROVE  SlotsOwned' /\ \A q \in Parties \ {p} : SlotsSame(Stake(q))
<1>1. SlotsOwned /\ TypesInv
  BY CalmFacts
<1>2. Stake(p) \subseteq Slots /\ Stake(p)' \subseteq Slots
  <2>1. Stake(p) \subseteq Slots
    BY <1>1, StakeSlots
  <2> QED
    BY <2>1 DEF TakesOwn
<1>3. \A q \in Parties \ {p} : Stake(q) \subseteq Slots /\ Stake(q) \cap Stake(p) = {}
                               /\ \A s \in Stake(q) : slotState[s] # "free"
  <2>1. \A q \in Parties : Stake(q) \subseteq Slots
    BY <1>1, StakeSlots
  <2> QED
    BY <1>1, <2>1 DEF SlotsOwned
<1>4. \A q \in Parties \ {p} : SlotsSame(Stake(q))
  BY <1>3 DEF TakesOwn, SlotsSame
<1>5. \A s \in Slots : slotState'[s] # "free" <=>
                                (s \in Stake(p)' \/ (slotState[s] # "free" /\ s \notin Stake(p)))
  BY DEF TakesOwn
<1>6. SlotsOwned'
  BY <1>1, <1>2, <1>5, OwnedNext DEF TakesOwn
<1> QED
  BY <1>4, <1>6

LEMMA CalmThread ==
    ASSUME CalmInv, TalkInv', NEW t \in Threads, UNCHANGED <<closed, mapped, alive, kid, stranded>>,
           \A u \in Threads \ {t} :
               /\ pc'[u] = pc[u] /\ job'[u] = job[u] /\ held'[u] = held[u] /\ wrap'[u] = wrap[u]
               /\ leases'[u] = leases[u] /\ reply'[u] = reply[u] /\ taken'[u] = taken[u],
           \A w \in Workers : /\ wrap'[w] = wrap[w]
                              /\ w # held[t] => inbox'[w] = inbox[w] /\ outbox'[w] = outbox[w],
           \A u \in Threads \ {t} : SlotsSame(Stake(u)),
           \A w \in Workers : w # held[t] => SlotsSame(Stake(w)),
           SlotsOwned', ThreadSound(t)',
           \A w \in Workers : w = held[t] => WorkerSound(w)',
           \A w \in Workers : Employed(w)'
    PROVE  CalmInv'
<1>1. ASSUME NEW u \in Threads \ {t} PROVE ThreadSound(u)'
  <2>1. ThreadSound(u)
    BY CalmFacts DEF CalmInv
  <2>2. pc[u] = "await" => held[u] \in Workers /\ held[u] # held[t]
    BY CalmFacts DEF PlaceInv, WorkerInOnePlace, HeldByPlace, Holding
  <2> QED
    BY <2>1, <2>2, ThreadSoundSame
<1>2. ASSUME NEW w \in Workers PROVE WorkerSound(w)'
  <2>1. CASE w # held[t]
    <3>1. WorkerSound(w) /\ w \notin Threads /\ w \in Parties \ {t}
      BY CalmFacts DEF CalmInv
    <3> QED
      BY <2>1, <3>1, WorkerSoundSame
  <2> QED
    BY <2>1
<1> QED
  BY <1>1, <1>2 DEF CalmInv

\* A step of a thread that leaves the pipes alone.
LEMMA CalmThreadAlone ==
    ASSUME CalmInv, TalkInv', NEW t \in Threads,
           UNCHANGED <<closed, mapped, alive, kid, inbox, outbox, stranded>>,
           \A u \in Threads \ {t} :
               /\ pc'[u] = pc[u] /\ job'[u] = job[u] /\ held'[u] = held[u]
               /\ leases'[u] = leases[u] /\ reply'[u] = reply[u] /\ taken'[u] = taken[u],
           \A p \in Parties \ {t} : wrap'[p] = wrap[p],
           TakesOwn(t), ThreadSound(t)',
           pc[t] = "await" => pc'[t] = "await" /\ held'[t] = held[t]
    PROVE  CalmInv'
<1>1. Threads \subseteq Parties /\ Workers \subseteq Parties /\ t \notin Workers
  BY CalmFacts
<1>2. ASSUME NEW q \in Parties \ {t} PROVE Stake(q)' = Stake(q)
  BY <1>1, StakeSame
<1>3. SlotsOwned' /\ \A q \in Parties \ {t} : SlotsSame(Stake(q))
  BY <1>1, <1>2, OwnSlots
<1>4. \A w \in Workers : WorkerSound(w)'
  <2> SUFFICES ASSUME NEW w \in Workers PROVE WorkerSound(w)'
    OBVIOUS
  <2>1. WorkerSound(w) /\ w \notin Threads /\ w \in Parties \ {t}
    BY CalmFacts DEF CalmInv
  <2> QED
    BY <1>3, <2>1, WorkerSoundSame
<1>5. \A w \in Workers : Employed(w)'
  <2>1. \A w \in Workers : Quiet(w) => Quiet(w)'
    BY DEF Quiet, Told
  <2>2. \A u \in Threads : pc[u] = "await" => pc'[u] = "await" /\ held'[u] = held[u]
    OBVIOUS
  <2> QED
    BY <2>1, <2>2, EmployedSame
<1> QED
  BY <1>1, <1>3, <1>4, <1>5, CalmThread

\* A step of the child of worker w, that a thread awaits if it is at work.
LEMMA CalmChild ==
    ASSUME CalmInv, TalkInv', NEW w \in Workers,
           UNCHANGED <<closed, mapped, pc, job, held, leases, reply, taken>>,
           \A p \in Parties \ {w} : wrap'[p] = wrap[p],
           \A v \in Workers \ {w} : SameTalk(v) /\ alive'[v] = alive[v] /\ stranded'[v] = stranded[v],
           Quiet(w) => Quiet(w)',
           SlotsOwned',
           \A t \in Threads : held[t] # w \/ pc[t] # "await" => SlotsSame(Stake(t)),
           \A t \in Threads : held[t] = w /\ pc[t] = "await" => ThreadSound(t)',
           \A v \in Workers \ {w} : SlotsSame(Stake(v)),
           WorkerSound(w)'
    PROVE  CalmInv'
<1>1. ASSUME NEW u \in Threads PROVE ThreadSound(u)'
  <2>1. ThreadSound(u) /\ u \in Parties \ {w} /\ held[u] \in Workers \cup {NoWorker}
    BY CalmFacts DEF CalmInv
  <2>2. CASE held[u] = w /\ pc[u] = "await"
    BY <2>2
  <2>3. CASE ~(held[u] = w /\ pc[u] = "await")
    <3>1. pc[u] = "await" => held[u] \in Workers \ {w}
      BY <2>3, CalmFacts DEF PlaceInv, HeldByPlace, Holding
    <3>2. pc[u] = "await" => inbox'[held[u]] = inbox[held[u]] /\ kid'[held[u]] = kid[held[u]]
      BY <3>1 DEF SameTalk
    <3> QED
      BY <2>1, <2>3, <3>2, ThreadSoundSame
  <2> QED
    BY <2>2, <2>3
<1>2. ASSUME NEW v \in Workers PROVE WorkerSound(v)'
  <2>1. CASE v # w
    <3>1. WorkerSound(v) /\ v \notin Threads /\ v \in Parties \ {w}
      BY <2>1, CalmFacts DEF CalmInv
    <3> QED
      BY <2>1, <3>1, WorkerSoundSame DEF SameTalk
  <2> QED
    BY <2>1
<1>3. \A v \in Workers : Employed(v)'
  <2>1. \A v \in Workers : Quiet(v) => Quiet(v)'
    BY TalkSame
  <2> QED
    BY <2>1, EmployedSame
<1> QED
  BY <1>1, <1>2, <1>3 DEF CalmInv

LEMMA TakesNothing ==
    ASSUME CalmInv, NEW p \in Parties, Stake(p)' = Stake(p), UNCHANGED <<slotState, slotOwner, content>>
    PROVE  TakesOwn(p)
<1>1. \A s \in Stake(p) : s \in Slots /\ slotState[s] # "free"
  BY CalmFacts, StakeSlots DEF SlotsOwned
<1> QED
  BY <1>1 DEF TakesOwn

\* A thread moves on, with what it answers for as it is.
LEMMA CalmMove ==
    ASSUME CalmInv, TalkInv', NEW t \in Threads, pc[t] # "await", pc'[t] # "await",
           UNCHANGED <<closed, mapped, alive, kid, inbox, outbox, slotState, slotOwner, content, stranded, wrap, job,
                       leases, reply, taken>>,
           \A u \in Threads \ {t} : pc'[u] = pc[u] /\ held'[u] = held[u],
           Phases(t)'
    PROVE  CalmInv'
<1>1. t \in Parties /\ ThreadSound(t)
  BY CalmFacts DEF CalmInv
<1>2. Stake(t)' = Stake(t)
  BY StakeSame
<1>3. TakesOwn(t)
  BY <1>1, <1>2, TakesNothing
<1>4. PICK w, j : w = held'[t] /\ j = job[t]
  OBVIOUS
<1>5. \A S : SlotsSame(S)
  BY DEF SlotsSame
<1>6. WrapSound(t, <<j, "request">>)' /\ ReplySound(t, <<j, "result">>)'
  BY <1>1, <1>4, <1>5, WrapSame, ReplySame DEF ThreadSound
<1>7. ThreadSound(t)'
  BY <1>4, <1>6, ThreadSoundThen
<1> QED
  BY <1>3, <1>7, CalmThreadAlone

LEMMA CalmMoves ==
    ASSUME CalmInv, TalkInv', NEW t \in Threads,
           LocalDone(t) \/ Leave(t) \/ GiveBack(t) \/ Return(t)
    PROVE  CalmInv'
<1>1. UNCHANGED <<closed, mapped, alive, kid, inbox, outbox, slotState, slotOwner, content, stranded, wrap, job,
                  leases, reply, taken>>
  BY DEF LocalDone, Leave, GiveBack, Return, slotVars, pipeVars, releasedFrame, valueFrame
<1>2. Phases(t) /\ pc \in [Threads -> Places] /\ held \in [Threads -> Workers \cup {NoWorker}]
  BY CalmFacts DEF CalmInv, ThreadSound
<1>3. \/ pc[t] = "local" /\ pc' = [pc EXCEPT ![t] = "release"]
      \/ /\ pc[t] = "release" /\ leases[t] = <<>> /\ reply[t] = <<>>
         /\ pc' = [pc EXCEPT ![t] = "out"]
      \/ /\ pc[t] = "release" /\ leases[t] = <<>> /\ pc' = [pc EXCEPT ![t] = "value"]
      \/ /\ pc[t] = "value" /\ Untaken(t) = <<>> /\ taken[t] = <<>>
         /\ pc' = [pc EXCEPT ![t] = "out"]
  BY DEF LocalDone, Leave, GiveBack, Return, At
<1>4. Unread(t)' = Unread(t) /\ (Untaken(t) = <<>> \/ reply[t] = <<>> => Unread(t) = {})
  BY <1>1, NoElements DEF Unread, Untaken, Elems
<1>5. Distinct(leases[t])' = Distinct(leases[t])
  BY <1>1 DEF Distinct
<1>6. Phases(t)'
  BY <1>1, <1>2, <1>3, <1>4, <1>5 DEF Phases, Unwrapped
<1>7. pc[t] # "await" /\ pc'[t] # "await"
  BY <1>2, <1>3
<1>8. \A u \in Threads \ {t} : pc'[u] = pc[u] /\ held'[u] = held[u]
  <2>1. held' = held \/ held' = [held EXCEPT ![t] = NoWorker]
    BY DEF LocalDone, Leave, GiveBack, Return, queueVars, valueFrame
  <2> QED
    BY <1>2, <1>3, <2>1
<1> QED
  BY <1>1, <1>6, <1>7, <1>8, CalmMove

LEMMA CalmCancel ==
    ASSUME CalmInv, TalkInv', NEW t \in Threads, Cancel(t) \/ PassCancel(t)
    PROVE  CalmInv'
<1>1. UNCHANGED <<closed, mapped, alive, kid, inbox, outbox, slotState, slotOwner, content, stranded, wrap, job, pc, held,
                  leases, reply, taken>>
  BY DEF Cancel, PassCancel, slotVars, pipeVars, threadVars
<1>2. \A S : SlotsSame(S)
  BY <1>1 DEF SlotsSame
<1>3. ThreadSound(t) /\ t \in Parties
  BY CalmFacts DEF CalmInv
<1>4. ThreadSound(t)'
  BY <1>1, <1>2, <1>3, ThreadSoundSame
<1>5. TakesOwn(t)
  BY <1>1, <1>3, StakeSame, TakesNothing
<1> QED
  BY <1>1, <1>4, <1>5, CalmThreadAlone

\* A thread that answers for nothing starts a call or takes a worker.
LEMMA CalmFresh ==
    ASSUME CalmInv, TalkInv', NEW t \in Threads,
           UNCHANGED <<closed, mapped, alive, kid, inbox, outbox, slotState, slotOwner, content,
                       stranded, leases>>,
           pc[t] \in {"out", "acquire"}, pc'[t] \in {"acquire", "wrap"},
           \A u \in Threads \ {t} :
               /\ pc'[u] = pc[u] /\ job'[u] = job[u] /\ held'[u] = held[u]
               /\ reply'[u] = reply[u] /\ taken'[u] = taken[u],
           \A p \in Parties \ {t} : wrap'[p] = wrap[p],
           wrap'[t].made = <<>>, wrap'[t].slot = NoSlot, wrap'[t].said = <<>>,
           pc'[t] = "acquire" => wrap'[t] = Unwrapped(0),
           reply'[t] = <<>>, taken'[t] = <<>>
    PROVE  CalmInv'
<1>1. t \in Parties /\ Phases(t)
  BY CalmFacts DEF CalmInv, ThreadSound
<1>2. /\ leases[t] = <<>> /\ Unread(t) = {} /\ taken[t] = <<>> /\ wrap[t] = Unwrapped(0)
      /\ Distinct(leases[t])
  BY <1>1 DEF Phases
<1>3. wrap[t].made = <<>> /\ wrap[t].slot = NoSlot
  BY <1>2 DEF Unwrapped
<1>4. Stake(t) = {} /\ Stake(t)' = {} /\ Unread(t)' = {}
  BY <1>2, <1>3, NoElements DEF Stake, Filling, Made, Asked, Unread
<1>5. TakesOwn(t)
  BY <1>1, <1>4, TakesNothing
<1>6. PICK w, j : w = held'[t] /\ j = job'[t]
  OBVIOUS
<1>7. WrapSound(t, <<j, "request">>)' /\ ReplySound(t, <<j, "result">>)'
  BY <1>4, WrapEmpty, ReplyEmpty
<1>8. Phases(t)'
  <2>1. leases'[t] = <<>> /\ Distinct(leases[t])'
    BY <1>2, NoElements
  <2> QED
    BY <1>4, <2>1 DEF Phases
<1>9. ThreadSound(t)'
  BY <1>6, <1>7, <1>8, ThreadSoundThen
<1> QED
  BY <1>5, <1>9, CalmThreadAlone

LEMMA CalmStart ==
    ASSUME CalmInv, TalkInv', NEW t \in Threads, StartRun(t)
    PROVE  CalmInv'
<1>1. /\ UNCHANGED <<closed, mapped, alive, kid, inbox, outbox, slotState, slotOwner, content,
                     stranded, leases, wrap, held>>
      /\ pc[t] = "out" /\ pc' = [pc EXCEPT ![t] = "acquire"]
      /\ reply' = [reply EXCEPT ![t] = <<>>] /\ taken' = [taken EXCEPT ![t] = <<>>]
      /\ job' = [job EXCEPT ![t] = jobs + 1]
  BY DEF StartRun, At, slotVars, pipeVars
<1>2. /\ t \in DOMAIN pc /\ t \in DOMAIN reply /\ t \in DOMAIN taken
      /\ wrap[t] = Unwrapped(0)
  BY <1>1, CalmFacts DEF CalmInv, ThreadSound, Phases
<1>3. /\ wrap'[t] = Unwrapped(0) /\ wrap'[t].made = <<>> /\ wrap'[t].slot = NoSlot
      /\ wrap'[t].said = <<>>
  BY <1>1, <1>2 DEF Unwrapped
<1> QED
  BY <1>1, <1>2, <1>3, CalmFresh

LEMMA CalmAcquire ==
    ASSUME CalmInv, TalkInv', NEW t \in Threads, NEW n, Acquire(t, n)
    PROVE  CalmInv'
<1>1. /\ UNCHANGED <<closed, mapped, alive, kid, inbox, outbox, slotState, slotOwner, content,
                     stranded, leases, reply, taken, job>>
      /\ pc[t] = "acquire" /\ pc' = [pc EXCEPT ![t] = "wrap"]
      /\ wrap' = [wrap EXCEPT ![t] = Unwrapped(n)]
      /\ held' = [held EXCEPT ![t] = Head(idle)]
  BY DEF Acquire, At, slotVars, pipeVars
<1>2. /\ t \in DOMAIN pc /\ t \in DOMAIN wrap /\ taken[t] = <<>> /\ reply[t] = <<>>
  BY <1>1, CalmFacts DEF CalmInv, ThreadSound, Phases, PlaceInv, HeldByPlace, Unanswered
<1>3. wrap'[t].made = <<>> /\ wrap'[t].slot = NoSlot /\ wrap'[t].said = <<>>
  BY <1>1, <1>2 DEF Unwrapped
<1> QED
  BY <1>1, <1>2, <1>3, CalmFresh

\* The slots a thread has published become its leases, and nothing else moves.
LEMMA SendingFacts ==
    ASSUME CalmInv, NEW t \in Threads, NEW there \in {"await", "local"}, Sending(t, there)
    PROVE  /\ t \in Parties /\ held[t] \in Workers /\ pc[t] = "wrap" /\ pc'[t] = there
           /\ leases'[t] = wrap[t].made /\ Distinct(leases[t])'
           /\ Stake(t)' = Stake(t) /\ Asked(t)' = Made(t) /\ TakesOwn(t) /\ Phases(t)'
           /\ \A j : WrapSound(t, <<j, "request">>)' /\ ReplySound(t, <<j, "result">>)'
           /\ UNCHANGED <<closed, mapped, alive, kid, outbox, slotState, slotOwner, content, stranded, job,
                           reply, taken>>
           /\ \A u \in Threads \ {t} : pc'[u] = pc[u] /\ leases'[u] = leases[u]
           /\ \A p \in Parties \ {t} : wrap'[p] = wrap[p]
<1>1. /\ pc[t] = "wrap" /\ wrap[t].left = 0 /\ pc' = [pc EXCEPT ![t] = there]
      /\ leases' = [leases EXCEPT ![t] = wrap[t].made] /\ wrap' = [wrap EXCEPT ![t] = Unwrapped(0)]
      /\ UNCHANGED <<closed, mapped, alive, kid, outbox, slotState, slotOwner, content, stranded, job,
                           reply, taken>>
  BY DEF Sending, Wrapped, Wrapping, slotVars
<1>2. /\ t \in DOMAIN pc /\ t \in DOMAIN leases /\ t \in DOMAIN wrap /\ t \in Parties
      /\ WrapOrder(t) /\ wrap[t] \in Wraps /\ NoSlot \notin Slots
  BY CalmFacts
<1>3. ThreadSound(t) /\ reply[t] = <<>> /\ held[t] \in Workers
  BY <1>1, CalmFacts DEF CalmInv, PlaceInv, HeldByPlace, Unanswered, Holding
<1>4. Phases(t) /\ Distinct(wrap[t].made)
  BY <1>3 DEF ThreadSound, WrapSound
<1>5. leases[t] = <<>> /\ taken[t] = <<>> /\ Unread(t) = {}
  BY <1>1, <1>4 DEF Phases
<1>6. wrap[t].slot = NoSlot
  BY <1>1, <1>2 DEF WrapOrder, Wraps
<1>7. /\ wrap'[t] = Unwrapped(0) /\ leases'[t] = wrap[t].made
      /\ wrap'[t].made = <<>> /\ wrap'[t].slot = NoSlot /\ wrap'[t].said = <<>>
  BY <1>1, <1>2 DEF Unwrapped
<1>8. Unread(t)' = {} /\ reply'[t] = <<>> /\ taken'[t] = <<>>
  BY <1>1, <1>3, <1>5 DEF Unread
<1>9. Stake(t) = Made(t) /\ Asked(t)' = Made(t) /\ Stake(t)' = Made(t)
  BY <1>5, <1>6, <1>7, <1>8, NoElements DEF Stake, Filling, Made, Asked, Unread, Elems
<1>10. TakesOwn(t)
  BY <1>1, <1>2, <1>9, TakesNothing
<1>11. \A j : WrapSound(t, <<j, "request">>)' /\ ReplySound(t, <<j, "result">>)'
  BY <1>7, <1>8, WrapEmpty, ReplyEmpty
<1>12. Distinct(leases[t])'
  BY <1>4, <1>7 DEF Distinct
<1>13. Phases(t)'
  BY <1>1, <1>2, <1>7, <1>8, <1>12 DEF Phases
<1>14. /\ \A u \in Threads \ {t} : pc'[u] = pc[u] /\ leases'[u] = leases[u]
       /\ \A p \in Parties \ {t} : wrap'[p] = wrap[p]
  BY <1>1
<1>15. pc'[t] = there
  BY <1>1, <1>2
<1> QED
  BY <1>1, <1>2, <1>3, <1>7, <1>9, <1>10, <1>11, <1>12, <1>13, <1>14, <1>15

LEMMA CalmUnpicklable ==
    ASSUME CalmInv, TalkInv', NEW t \in Threads, SendUnpicklable(t)
    PROVE  CalmInv'
<1>1. Sending(t, "local") /\ UNCHANGED inbox /\ held' = [held EXCEPT ![t] = NoWorker]
  BY DEF SendUnpicklable
<1>2. /\ pc[t] = "wrap" /\ pc'[t] = "local" /\ TakesOwn(t) /\ Phases(t)'
      /\ \A j : WrapSound(t, <<j, "request">>)' /\ ReplySound(t, <<j, "result">>)'
      /\ UNCHANGED <<closed, mapped, alive, kid, outbox, stranded, job, reply, taken>>
      /\ \A u \in Threads \ {t} : pc'[u] = pc[u] /\ leases'[u] = leases[u]
      /\ \A p \in Parties \ {t} : wrap'[p] = wrap[p]
  BY <1>1, SendingFacts
<1>3. \A u \in Threads \ {t} : held'[u] = held[u]
  BY <1>1
<1>4. PICK w, j : w = held'[t] /\ j = job'[t]
  OBVIOUS
<1>5. ThreadSound(t)'
  BY <1>2, <1>4, ThreadSoundThen
<1> QED
  BY <1>1, <1>2, <1>3, <1>5, CalmThreadAlone

LEMMA CalmSend ==
    ASSUME CalmInv, TalkInv', NEW t \in Threads, Send(t)
    PROVE  CalmInv'
<1>1. /\ Sending(t, "await") /\ UNCHANGED <<idle, held>>
      /\ inbox' = [inbox EXCEPT ![held[t]] = Append(@, Message(job[t], wrap[t].said))]
  BY DEF Send, queueVars
<1>2. /\ pc[t] = "wrap" /\ pc'[t] = "await" /\ TakesOwn(t) /\ Phases(t)' /\ Asked(t)' = Made(t)
      /\ leases'[t] = wrap[t].made /\ Stake(t)' = Stake(t) /\ t \in Parties
      /\ \A j : WrapSound(t, <<j, "request">>)' /\ ReplySound(t, <<j, "result">>)'
      /\ UNCHANGED <<closed, mapped, alive, kid, outbox, slotState, slotOwner, content, stranded, job,
                           reply, taken>>
      /\ \A u \in Threads \ {t} : pc'[u] = pc[u] /\ leases'[u] = leases[u]
      /\ \A p \in Parties \ {t} : wrap'[p] = wrap[p] /\ held[t] \in Workers
  BY <1>1, SendingFacts
<1>3. PICK w, j : w = held[t] /\ j = job[t]
  OBVIOUS
<1>4. /\ w \in Workers /\ j \in Nat /\ j > 0 /\ wrap[t].said \in Seq(Slots)
      /\ inbox[w] \in Seq(Messages) /\ w \in DOMAIN inbox /\ WorkerSound(w) /\ ThreadSound(t)
  <2>1. w \in Workers /\ j \in Nat /\ wrap[t] \in Wraps
    BY <1>1, <1>2, <1>3, SendingFacts, CalmFacts
  <2>2. j > 0
    BY <1>2, <1>3, CalmFacts DEF TalkInv, OwnTalk
  <2> QED
    BY <2>1, <2>2, CalmFacts DEF CalmInv, Wraps
<1>5. PICK m : m = Message(j, wrap[t].said)
  OBVIOUS
<1>6. m # Stop /\ m \in Messages /\ m.slots = wrap[t].said /\ inbox'[w] = Append(inbox[w], m)
  BY <1>1, <1>3, <1>4, <1>5 DEF Message, Messages, Stop
<1>7. Quiet(w)
  BY <1>2, <1>3, <1>4, CalmFacts, PoolAssumption DEF TalkInv, OwnTalk
<1>8. /\ \A i \in DOMAIN inbox'[w] : inbox'[w][i] # Stop
      /\ \A i \in Told(w)' : inbox'[w][i] = m
  <2>1. \A i \in DOMAIN inbox'[w] : (i \in DOMAIN inbox[w] /\ inbox'[w][i] = inbox[w][i]) \/ inbox'[w][i] = m
    BY <1>4, <1>6
  <2>2. \A i \in DOMAIN inbox[w] : inbox[w][i] # Stop
    BY <1>4 DEF WorkerSound, ChildPhases
  <2> QED
    BY <1>6, <1>7, <2>1, <2>2 DEF Quiet, Told
<1>9. RequestSound(t, w, <<j, "request">>)'
  <2>1. /\ Elems(wrap[t].said) \subseteq Made(t) /\ Distinct(wrap[t].said)
        /\ Intact(Made(t), "ready", <<j, "request">>)
    BY <1>3, <1>4 DEF ThreadSound, WrapSound
  <2>2. ASSUME NEW i \in Told(w)'
        PROVE  /\ Elems(inbox[w][i].slots)' \subseteq Asked(t)' /\ Distinct(inbox[w][i].slots)'
               /\ Intact(Elems(inbox[w][i].slots), "ready", <<j, "request">>)'
    <3>1. inbox'[w][i].slots = wrap[t].said
      BY <1>6, <1>8, <2>2
    <3>2. Elems(inbox[w][i].slots)' \subseteq Made(t) /\ Distinct(inbox[w][i].slots)'
      BY <2>1, <3>1 DEF Elems, Distinct
    <3> QED
      BY <1>2, <2>1, <3>2 DEF Intact
  <2>3. kid'[w].todo = <<>> /\ kid'[w].view = <<>>
    BY <1>2, <1>7 DEF Quiet, Waiting
  <2>4. Elems(kid[w].todo)' = {} /\ Elems(kid[w].view)' = {} /\ Distinct(kid[w].todo)'
    BY <2>3 DEF Elems, Distinct
  <2> QED
    BY <2>2, <2>4 DEF RequestSound, Intact
<1>10. ThreadSound(t)'
  BY <1>1, <1>2, <1>3, <1>9, ThreadSoundThen
<1>11. w \in Parties \ {t} /\ w \notin Threads
  BY <1>4, CalmFacts
<1>12. WorkerSound(w)'
  <2>0. PICK k : k = kid[w].job
    OBVIOUS
  <2>1. wrap'[w] = wrap[w] /\ SlotsSame(Filling(w) \cup Made(w))
    BY <1>2, <1>11 DEF SlotsSame
  <2>2. ChildPhases(w)'
    BY <1>2, <1>4, <1>8, <2>1 DEF WorkerSound, ChildPhases, Filling, Unwrapped
  <2>3. WrapSound(w, <<k, "result">>)'
    BY <1>4, <2>0, <2>1, WrapSame DEF WorkerSound
  <2>4. AnswerSound(w)'
    BY <1>2, <1>7 DEF Quiet, AnswerSound
  <2>5. StraySound(w)'
    <3>1. Own(w)' = Own(w)
      BY <1>2, <2>1 DEF Own, Filling, Made, Answered, Elems
    <3> QED
      BY <1>2, <1>4, <3>1, StrayKept DEF WorkerSound
  <2> QED
    BY <1>2, <2>0, <2>2, <2>3, <2>4, <2>5, WorkerSoundThen
<1>13. \A v \in Workers \ {w} : inbox'[v] = inbox[v] /\ outbox'[v] = outbox[v]
  BY <1>1, <1>2, <1>3
<1>14. SlotsOwned' /\ \A q \in Parties \ {t} : SlotsSame(Stake(q))
  <2>1. \A q \in Parties \ {t} : Stake(q)' = Stake(q)
    BY <1>2, StakeSame
  <2> QED
    BY <1>2, <2>1, OwnSlots
<1>15. ASSUME NEW v \in Workers PROVE Employed(v)'
  <2>1. CASE v = w
    BY <1>1, <1>2, <1>3, <2>1 DEF Employed
  <2>2. CASE v # w
    <3>1. Employed(v) /\ (Quiet(v) => Quiet(v)')
      BY <1>2, <1>13, <2>2 DEF CalmInv, Quiet, Told
    <3>2. \A u \in Threads : pc[u] = "await" => pc'[u] = "await" /\ held'[u] = held[u]
      BY <1>1, <1>2
    <3> QED
      BY <3>1, <3>2 DEF Employed
  <2> QED
    BY <2>1, <2>2
<1>16. /\ \A v \in Workers : wrap'[v] = wrap[v] /\ (v # held[t] => SlotsSame(Stake(v)))
       /\ \A u \in Threads \ {t} : SlotsSame(Stake(u)) /\ wrap'[u] = wrap[u] /\ held'[u] = held[u]
  BY <1>1, <1>2, <1>14, CalmFacts
<1> QED
  BY <1>2, <1>3, <1>10, <1>12, <1>13, <1>14, <1>15, <1>16, CalmThread

\* A slot that is released while somebody answers for it is no stray.
LEMMA FreedIsNoStray ==
    ASSUME CalmInv, NEW p \in Parties, NEW s, s \in Stake(p), p \in Threads \/ s \in Filling(p),
           Release(s)
    PROVE  stranded' = stranded
<1>1. /\ SlotsOwned /\ stranded \in [Workers -> SUBSET Slots] /\ Threads \cap Workers = {}
      /\ Parties = Threads \cup Workers
  BY CalmFacts
<1>2. ASSUME NEW w \in Workers PROVE s \notin stranded[w]
  <2>1. stranded[w] \subseteq Stake(w)
    BY <1>1 DEF Stake
  <2>2. CASE w = p
    <3>1. StraySound(w) /\ s \in Own(w)
      BY <1>1, <2>2 DEF CalmInv, WorkerSound, Own
    <3> QED
      BY <3>1 DEF StraySound
  <2>3. CASE w # p
    BY <1>1, <2>1, <2>3 DEF SlotsOwned
  <2> QED
    BY <2>2, <2>3
<1>3. stranded' = [w \in Workers |-> stranded[w] \ {s}]
  BY DEF Release
<1> QED
  BY <1>1, <1>2, <1>3

\* A thread past its wait lets go of slot s, or keeps it under another name.
LEMMA CalmSlot ==
    ASSUME CalmInv, TalkInv', NEW t \in Threads, NEW s \in Slots, pc[t] \in {"release", "value"},
           UNCHANGED <<closed, mapped, alive, kid, inbox, outbox, content, stranded, wrap, job, held,
                       pc>>,
           \A u \in Threads \ {t} :
               leases'[u] = leases[u] /\ reply'[u] = reply[u] /\ taken'[u] = taken[u],
           \A r \in Slots \ {s} : slotState'[r] = slotState[r],
           TakesOwn(t), Phases(t)', \A j : j = job[t] => ReplySound(t, <<j, "result">>)'
    PROVE  CalmInv'
<1>1. /\ t \in Parties /\ ThreadSound(t) /\ wrap'[t].made = <<>> /\ wrap'[t].slot = NoSlot
      /\ wrap'[t].said = <<>>
  <2>1. t \in Parties /\ ThreadSound(t)
    BY CalmFacts DEF CalmInv
  <2>2. wrap'[t] = Unwrapped(0)
    BY <2>1 DEF ThreadSound, Phases
  <2> QED
    BY <2>1, <2>2 DEF Unwrapped
<1>2. PICK w, j : w = held[t] /\ j = job[t]
  OBVIOUS
<1>3. WrapSound(t, <<j, "request">>)'
  BY <1>1, WrapEmpty
<1>4. ThreadSound(t)'
  BY <1>2, <1>3, ThreadSoundThen
<1> QED
  BY <1>4, CalmThreadAlone

LEMMA CalmReleaseLease ==
    ASSUME CalmInv, TalkInv', NEW t \in Threads, ReleaseLease(t)
    PROVE  CalmInv'
<1>1. /\ pc[t] = "release" /\ leases[t] # <<>>
      /\ slotState' = [slotState EXCEPT ![Head(leases[t])] = "free"]
      /\ slotOwner' = [slotOwner EXCEPT ![Head(leases[t])] = 0] /\ Release(Head(leases[t]))
      /\ leases' = [leases EXCEPT ![t] = Tail(@)]
      /\ UNCHANGED <<closed, mapped, alive, kid, inbox, outbox, content, wrap, job, held, pc,
                     reply, taken>>
  BY DEF ReleaseLease, Release, pipeVars
<1>2. t \in Parties /\ ThreadSound(t) /\ leases[t] \in Seq(Slots) /\ t \in DOMAIN leases
      /\ slotState \in [Slots -> SlotStates] /\ Stake(t) \subseteq Slots /\ DOMAIN slotOwner = Slots
  BY CalmFacts, StakeSlots DEF CalmInv
<1>3. PICK s, j : s = Head(leases[t]) /\ j = job[t]
  OBVIOUS
<1>4. /\ Phases(t) /\ ReplySound(t, <<j, "result">>) /\ taken[t] = <<>> /\ wrap[t] = Unwrapped(0)
      /\ Distinct(leases[t])
  BY <1>1, <1>2, <1>3 DEF ThreadSound, Phases
<1>5. /\ s \in Slots /\ s \in Asked(t) /\ leases'[t] = Tail(leases[t])
      /\ Asked(t) = Asked(t)' \cup {s} /\ s \notin Asked(t)' /\ Distinct(leases[t])'
  <2>1. leases'[t] = Tail(leases[t])
    BY <1>1, <1>2
  <2>2. Asked(t)' = Elems(Tail(leases[t])) /\ (Distinct(Tail(leases[t])) => Distinct(leases[t])')
    BY <2>1 DEF Asked, Elems, Distinct
  <2> QED
    BY <1>1, <1>2, <1>3, <1>4, <2>1, <2>2, ElemsOfTail DEF Asked
<1>6. Unread(t)' = Unread(t) /\ s \notin Unread(t) /\ Elems(taken[t]) = {} /\ Elems(taken[t])' = {}
  BY <1>1, <1>4, <1>5, NoElements DEF Unread, Untaken, Elems, ReplySound
<1>7. Filling(t) = {} /\ Made(t) = {} /\ Filling(t)' = {} /\ Made(t)' = {}
  BY <1>1, <1>4, NoElements DEF Filling, Made, Unwrapped, Elems
<1>8. Stake(t) = Stake(t)' \cup {s} /\ s \notin Stake(t)'
  BY <1>5, <1>6, <1>7 DEF Stake
<1>9. /\ slotState'[s] = "free"
      /\ \A r \in Slots \ {s} : slotState'[r] = slotState[r] /\ slotOwner'[r] = slotOwner[r]
      /\ stranded' = stranded
  <2>1. stranded' = stranded
    BY <1>1, <1>2, <1>3, <1>8, FreedIsNoStray
  <2> QED
    BY <1>1, <1>2, <1>3, <1>5, <2>1
<1>10. TakesOwn(t)
  <2>1. \A r \in Stake(t) : slotState[r] # "free"
    BY <1>2, CalmFacts DEF SlotsOwned
  <2>2. \A r \in Stake(t)' : r \in Stake(t) /\ slotState'[r] # "free"
    BY <1>2, <1>8, <1>9, <2>1
  <2>3. \A r \in Stake(t) : r \in Stake(t)' \/ slotState'[r] = "free"
    BY <1>2, <1>8, <1>9, <2>1
  <2>4. \A r \in Slots : \/ r \in Stake(t)
                        \/ /\ slotState'[r] = slotState[r] /\ slotOwner'[r] = slotOwner[r]
                           /\ content'[r] = content[r]
    BY <1>1, <1>8, <1>9
  <2> QED
    BY <2>2, <2>3, <2>4 DEF TakesOwn
<1>11. Phases(t)'
  BY <1>1, <1>4, <1>5 DEF Phases
<1>12. ReplySound(t, <<j, "result">>)'
  <2>1. reply'[t] # <<>> => Distinct(Untaken(t))'
    BY <1>1, <1>4 DEF ReplySound, Untaken, Distinct
  <2>2. Distinct(taken[t])'
    BY <1>1, <1>4, NoElements
  <2>3. Intact(Unread(t), "ready", <<j, "result">>)'
    <3>1. Unread(t) \subseteq Slots /\ Intact(Unread(t), "ready", <<j, "result">>)
      BY <1>2, <1>4 DEF Stake, ReplySound
    <3> QED
      BY <1>1, <1>6, <1>9, <3>1 DEF Intact
  <2>4. Asked(t)' \cap Unread(t)' = {} /\ Unread(t)' \cap Elems(taken[t])' = {}
    BY <1>4, <1>5, <1>6 DEF ReplySound
  <2>5. Intact(Elems(taken[t]), "held", <<j, "result">>)'
    BY <1>6 DEF Intact
  <2> QED
    BY <2>1, <2>2, <2>3, <2>4, <2>5 DEF ReplySound
<1>13. \A u \in Threads \ {t} : leases'[u] = leases[u] /\ reply'[u] = reply[u] /\ taken'[u] = taken[u]
  BY <1>1
<1> QED
  BY <1>1, <1>3, <1>5, <1>9, <1>10, <1>11, <1>12, <1>13, CalmSlot

LEMMA CalmReleaseValue ==
    ASSUME CalmInv, TalkInv', NEW t \in Threads, ReleaseValue(t)
    PROVE  CalmInv'
<1>1. /\ pc[t] = "value" /\ Untaken(t) = <<>> /\ taken[t] # <<>>
      /\ slotState' = [slotState EXCEPT ![Head(taken[t])] = "free"]
      /\ slotOwner' = [slotOwner EXCEPT ![Head(taken[t])] = 0] /\ Release(Head(taken[t]))
      /\ taken' = [taken EXCEPT ![t] = Tail(@)]
      /\ UNCHANGED <<closed, mapped, alive, kid, inbox, outbox, content, wrap, job, held, pc,
                     reply, leases>>
  BY DEF ReleaseValue, Release, valueFrame, pipeVars
<1>2. t \in Parties /\ ThreadSound(t) /\ taken[t] \in Seq(Slots) /\ t \in DOMAIN taken
      /\ slotState \in [Slots -> SlotStates] /\ Stake(t) \subseteq Slots /\ DOMAIN slotOwner = Slots
  BY CalmFacts, StakeSlots DEF CalmInv
<1>3. PICK s, j : s = Head(taken[t]) /\ j = job[t]
  OBVIOUS
<1>4. /\ Phases(t) /\ ReplySound(t, <<j, "result">>) /\ leases[t] = <<>> /\ wrap[t] = Unwrapped(0)
      /\ Distinct(taken[t])
  BY <1>1, <1>2, <1>3 DEF ThreadSound, Phases, ReplySound
<1>5. /\ s \in Slots /\ s \in Elems(taken[t]) /\ taken'[t] = Tail(taken[t])
      /\ Elems(taken[t]) = Elems(taken[t])' \cup {s} /\ s \notin Elems(taken[t])'
      /\ Distinct(taken[t])'
  <2>1. taken'[t] = Tail(taken[t])
    BY <1>1, <1>2
  <2>2. Elems(taken[t])' = Elems(Tail(taken[t])) /\ (Distinct(Tail(taken[t])) => Distinct(taken[t])')
    BY <2>1 DEF Elems, Distinct
  <2> QED
    BY <1>1, <1>2, <1>3, <1>4, <2>1, <2>2, ElemsOfTail
<1>6. Unread(t) = {} /\ Unread(t)' = {} /\ Asked(t) = {} /\ Asked(t)' = {}
  BY <1>1, <1>4, NoElements DEF Unread, Untaken, Elems, Asked
<1>7. Filling(t) = {} /\ Made(t) = {} /\ Filling(t)' = {} /\ Made(t)' = {}
  BY <1>1, <1>4, NoElements DEF Filling, Made, Unwrapped, Elems
<1>8. Stake(t) = Stake(t)' \cup {s} /\ s \notin Stake(t)'
  BY <1>5, <1>6, <1>7 DEF Stake
<1>9. /\ slotState'[s] = "free"
      /\ \A r \in Slots \ {s} : slotState'[r] = slotState[r] /\ slotOwner'[r] = slotOwner[r]
      /\ stranded' = stranded
  <2>1. stranded' = stranded
    BY <1>1, <1>2, <1>3, <1>8, FreedIsNoStray
  <2> QED
    BY <1>1, <1>2, <1>3, <1>5, <2>1
<1>10. TakesOwn(t)
  <2>1. \A r \in Stake(t) : slotState[r] # "free"
    BY <1>2, CalmFacts DEF SlotsOwned
  <2>2. \A r \in Stake(t)' : r \in Stake(t) /\ slotState'[r] # "free"
    BY <1>2, <1>8, <1>9, <2>1
  <2>3. \A r \in Stake(t) : r \in Stake(t)' \/ slotState'[r] = "free"
    BY <1>2, <1>8, <1>9, <2>1
  <2>4. \A r \in Slots : \/ r \in Stake(t)
                        \/ /\ slotState'[r] = slotState[r] /\ slotOwner'[r] = slotOwner[r]
                           /\ content'[r] = content[r]
    BY <1>1, <1>8, <1>9
  <2> QED
    BY <2>2, <2>3, <2>4 DEF TakesOwn
<1>11. Phases(t)'
  BY <1>1, <1>4, NoElements DEF Phases, Distinct
<1>12. ReplySound(t, <<j, "result">>)'
  <2>1. reply'[t] # <<>> => Distinct(Untaken(t))'
    BY <1>1 DEF Untaken, Distinct
  <2>2. Intact(Elems(taken[t]), "held", <<j, "result">>)'
    <3>1. Elems(taken[t]) \subseteq Slots /\ Intact(Elems(taken[t]), "held", <<j, "result">>)
      BY <1>2, <1>4 DEF Stake, ReplySound
    <3> QED
      BY <1>1, <1>5, <1>9, <3>1 DEF Intact
  <2> QED
    BY <1>5, <1>6, <2>1, <2>2 DEF ReplySound, Intact
<1>13. \A u \in Threads \ {t} : leases'[u] = leases[u] /\ reply'[u] = reply[u] /\ taken'[u] = taken[u]
  BY <1>1
<1> QED
  BY <1>1, <1>3, <1>5, <1>9, <1>10, <1>11, <1>12, <1>13, CalmSlot

LEMMA CalmTakeValue ==
    ASSUME CalmInv, TalkInv', NEW t \in Threads, TakeValue(t)
    PROVE  CalmInv'
<1>1. /\ pc[t] = "value" /\ Untaken(t) # <<>>
      /\ slotState' = [slotState EXCEPT ![Head(Untaken(t))] = "held"]
      /\ taken' = [taken EXCEPT ![t] = Append(@, Head(Untaken(t)))]
      /\ reply' = [reply EXCEPT ![t][1].slots = Tail(@)]
      /\ UNCHANGED <<closed, mapped, alive, kid, inbox, outbox, slotOwner, content, stranded, wrap, job,
                     held, pc, leases>>
  BY DEF TakeValue, Advance, valueFrame, pipeVars
<1>2. t \in Parties /\ ThreadSound(t) /\ taken[t] \in Seq(Slots) /\ t \in DOMAIN taken
      /\ slotState \in [Slots -> SlotStates] /\ Stake(t) \subseteq Slots /\ t \in DOMAIN reply
      /\ reply[t] # <<>> /\ reply'[t] # <<>> /\ Untaken(t) \in Seq(Slots)
  <2>1. reply[t] # <<>> /\ reply'[t] # <<>>
    <3>1. CallTypes /\ CallTypes' /\ pc'[t] = "value"
      BY <1>1, CalmFacts DEF TalkInv, TypesInv
    <3> QED
      BY <1>1, <3>1 DEF CallTypes, ReplyThere
  <2> QED
    BY <2>1, CalmFacts, StakeSlots DEF CalmInv
<1>3. PICK s, j : s = Head(Untaken(t)) /\ j = job[t]
  OBVIOUS
<1>4. /\ Phases(t) /\ ReplySound(t, <<j, "result">>) /\ leases[t] = <<>> /\ wrap[t] = Unwrapped(0)
      /\ Distinct(taken[t]) /\ Distinct(Untaken(t)) /\ Unread(t) = Elems(Untaken(t))
      /\ Unread(t) \cap Elems(taken[t]) = {}
  BY <1>1, <1>2, <1>3 DEF ThreadSound, Phases, ReplySound, Unread
<1>5. Untaken(t)' = Tail(Untaken(t)) /\ taken'[t] = Append(taken[t], s)
  <2>1. taken'[t] = Append(taken[t], s)
    BY <1>1, <1>2, <1>3
  <2>2. reply[t] \in Seq(Answers) /\ reply[t][1] \in Answers /\ 1 \in DOMAIN reply[t]
    BY <1>2, CalmFacts, ThreadFacts DEF TypesInv, CallTypes
  <2>3. reply'[t][1].slots = Tail(reply[t][1].slots)
    BY <1>1, <1>2, <2>2 DEF Answers
  <2> QED
    BY <2>1, <2>3 DEF Untaken
<1>6. /\ s \in Slots /\ Unread(t) = Unread(t)' \cup {s} /\ s \notin Unread(t)'
      /\ Distinct(Untaken(t))'
  <2>1. Unread(t)' = Elems(Tail(Untaken(t))) /\ (Distinct(Tail(Untaken(t))) => Distinct(Untaken(t))')
    BY <1>2, <1>5 DEF Unread, Elems, Distinct
  <2> QED
    BY <1>1, <1>2, <1>3, <1>4, <2>1, ElemsOfTail
<1>7. Elems(taken[t])' = Elems(taken[t]) \cup {s} /\ Distinct(taken[t])'
  <2>1. /\ Elems(taken[t])' = Elems(Append(taken[t], s))
        /\ (Distinct(Append(taken[t], s)) => Distinct(taken[t])')
    BY <1>5 DEF Elems, Distinct
  <2> QED
    BY <1>2, <1>4, <1>6, <2>1, ElemsOfAppend
<1>8. Asked(t) = {} /\ Asked(t)' = {}
  BY <1>1, <1>4, NoElements DEF Elems, Asked
<1>9. Filling(t) = {} /\ Made(t) = {} /\ Filling(t)' = {} /\ Made(t)' = {}
  BY <1>1, <1>4, NoElements DEF Filling, Made, Unwrapped, Elems
<1>10. Stake(t)' = Stake(t) /\ s \in Stake(t)
  BY <1>6, <1>7, <1>8, <1>9 DEF Stake
<1>11. slotState'[s] = "held" /\ \A r \in Slots \ {s} : slotState'[r] = slotState[r]
  BY <1>1, <1>2, <1>3, <1>6
<1>12. TakesOwn(t)
  <2>1. \A r \in Stake(t) : slotState[r] # "free"
    BY <1>2, CalmFacts DEF SlotsOwned
  <2>2. \A r \in Stake(t)' : r \in Stake(t) /\ slotState'[r] # "free"
    BY <1>2, <1>10, <1>11, <2>1
  <2>4. \A r \in Slots : \/ r \in Stake(t)
                        \/ /\ slotState'[r] = slotState[r] /\ slotOwner'[r] = slotOwner[r]
                           /\ content'[r] = content[r]
    BY <1>1, <1>10, <1>11
  <2> QED
    BY <1>10, <2>2, <2>4 DEF TakesOwn
<1>13. Phases(t)'
  BY <1>1, <1>4, NoElements DEF Phases, Distinct
<1>14. ReplySound(t, <<j, "result">>)'
  <2>1. Unread(t) \cup Elems(taken[t]) \subseteq Slots
    BY <1>2 DEF Stake
  <2>2. Intact(Unread(t), "ready", <<j, "result">>) /\ Intact(Elems(taken[t]), "held", <<j, "result">>)
    BY <1>4 DEF ReplySound
  <2>3. Intact(Unread(t), "ready", <<j, "result">>)'
    BY <1>1, <1>6, <1>11, <2>1, <2>2 DEF Intact
  <2>4. Intact(Elems(taken[t]), "held", <<j, "result">>)'
    BY <1>1, <1>6, <1>7, <1>11, <2>1, <2>2 DEF Intact
  <2>5. Unread(t)' \cap Elems(taken[t])' = {}
    BY <1>4, <1>6, <1>7
  <2> QED
    BY <1>6, <1>7, <1>8, <2>3, <2>4, <2>5 DEF ReplySound
<1>15. \A u \in Threads \ {t} : leases'[u] = leases[u] /\ reply'[u] = reply[u] /\ taken'[u] = taken[u]
  BY <1>1
<1> QED
  BY <1>1, <1>3, <1>6, <1>11, <1>12, <1>13, <1>14, <1>15, CalmSlot

LEMMA CalmReceive ==
    ASSUME CalmInv, TalkInv', NEW t \in Threads, Receive(t)
    PROVE  CalmInv'
<1>1. /\ pc[t] = "await" /\ pc' = [pc EXCEPT ![t] = "release"] /\ outbox[held[t]] # <<>>
      /\ reply' = [reply EXCEPT ![t] = <<Head(outbox[held[t]])>>]
      /\ outbox' = [outbox EXCEPT ![held[t]] = Tail(@)]
      /\ UNCHANGED <<slotState, slotOwner, content, stranded, idle, alive, closed, mapped, job, held,
                     leases, taken, wrap, kid, inbox>>
  BY DEF Receive, At, awaitFrame, slotVars
<1>2. PICK w, j : w = held[t] /\ j = job[t]
  OBVIOUS
<1>3. /\ w \in Workers /\ w \in Parties /\ t \in Parties /\ t \notin Workers /\ w \notin Threads
      /\ outbox[w] \in Seq(Answers) /\ t \in DOMAIN pc /\ t \in DOMAIN reply /\ w \in DOMAIN outbox
      /\ ThreadSound(t) /\ WorkerSound(w) /\ OwnTalk(t) /\ NoWorker \notin Workers
  BY <1>1, <1>2, CalmFacts DEF CalmInv, PlaceInv, HeldByPlace, Holding, TalkInv
<1>4. /\ outbox[w] # <<>> /\ Told(w) = {} /\ kid[w] = Waiting /\ Len(outbox[w]) = 1
      /\ outbox[w][1].job = j
  BY <1>1, <1>2, <1>3 DEF OwnTalk, OnlyCall, Quiet, Waiting
<1>5. PICK a : a = outbox[w][1]
  OBVIOUS
<1>6. a \in Answers /\ Head(outbox[w]) = a /\ Tail(outbox[w]) = <<>> /\ a.job = j
  <2>1. Tail(outbox[w]) \in Seq(Answers) /\ Len(Tail(outbox[w])) = 0
    BY <1>3, <1>4
  <2>2. Tail(outbox[w]) = <<>>
    BY <2>1, EmptySeq
  <2> QED
    BY <1>3, <1>4, <1>5, <2>2
<1>7. /\ outbox'[w] = <<>> /\ reply'[t] = <<a>> /\ pc'[t] = "release"
      /\ Untaken(t)' = a.slots /\ Unread(t)' = Answered(w)
  BY <1>1, <1>2, <1>3, <1>4, <1>5, <1>6 DEF Untaken, Unread, Answered, Elems
<1>8. /\ leases'[t] = leases[t] /\ Unread(t) = {} /\ taken[t] = <<>> /\ wrap[t] = Unwrapped(0)
      /\ wrap[w] = Unwrapped(0) /\ Distinct(leases[t])
  BY <1>1, <1>3, <1>4 DEF ThreadSound, Phases, WorkerSound, ChildPhases, Waiting
<1>9. /\ Filling(t) = {} /\ Made(t) = {} /\ Filling(w) = {} /\ Made(w) = {}
      /\ wrap[t].made = <<>> /\ wrap[t].slot = NoSlot /\ wrap[t].said = <<>>
  BY <1>8, NoElements DEF Filling, Made, Unwrapped
<1>10. /\ Filling(t)' = {} /\ Made(t)' = {} /\ Filling(w)' = {} /\ Made(w)' = {}
       /\ Elems(taken[t]) = {} /\ Elems(taken[t])' = {} /\ Asked(t)' = Asked(t)
       /\ Answered(w)' = {}
  BY <1>1, <1>7, <1>8, <1>9, NoElements DEF Filling, Made, Elems, Asked, Answered
<1>11. /\ Stake(t) = Asked(t) /\ Stake(w) = Answered(w) \cup stranded[w]
       /\ Stake(t)' = Asked(t) \cup Answered(w) /\ Stake(w)' = stranded[w]
  BY <1>1, <1>3, <1>7, <1>8, <1>9, <1>10 DEF Stake
<1>12. \A q \in Parties \ {t, w} : Stake(q)' = Stake(q)
  <2> SUFFICES ASSUME NEW q \in Parties \ {t, w} PROVE Stake(q)' = Stake(q)
    OBVIOUS
  <2>1. /\ wrap'[q] = wrap[q]
        /\ q \in Threads => leases'[q] = leases[q] /\ reply'[q] = reply[q] /\ taken'[q] = taken[q]
        /\ q \notin Threads => outbox'[q] = outbox[q] /\ stranded'[q] = stranded[q]
    BY <1>1, <1>2
  <2> QED
    BY <2>1, StakeSame
<1>13. SlotsOwned'
  <2>0. SlotsOwned /\ slotState' = slotState
    BY <1>1, CalmFacts
  <2>1. ASSUME NEW p \in Parties, NEW q \in Parties, p # q PROVE Stake(p)' \cap Stake(q)' = {}
    <3>1. \A q1 \in Parties \ {t, w} : Stake(q1) \cap (Asked(t) \cup Answered(w) \cup stranded[w]) = {}
      BY <1>3, <1>11, <2>0 DEF SlotsOwned
    <3>2. p \notin {t, w} /\ q \notin {t, w} => Stake(p)' \cap Stake(q)' = {}
      BY <1>12, <2>0, <2>1 DEF SlotsOwned
    <3>3. Asked(t) \cap stranded[w] = {}
      BY <1>3, <1>11, <2>0 DEF SlotsOwned
    <3>4. Answered(w) \cap stranded[w] = {}
      BY <1>3 DEF WorkerSound, StraySound, Own
    <3>5. Stake(t)' \cap Stake(w)' = {}
      BY <1>11, <3>3, <3>4
    <3>6. \A q1 \in Parties \ {t, w} : /\ Stake(q1)' \cap Stake(t)' = {}
                                       /\ Stake(q1)' \cap Stake(w)' = {}
      BY <1>11, <1>12, <3>1
    <3>7. CASE p \in {t, w} /\ q \notin {t, w}
      BY <3>6, <3>7
    <3>8. CASE p \notin {t, w} /\ q \in {t, w}
      BY <3>6, <3>8
    <3>9. CASE p \in {t, w} /\ q \in {t, w}
      BY <2>1, <3>5, <3>9
    <3> QED
      BY <3>2, <3>7, <3>8, <3>9
  <2>2. ASSUME NEW s \in Slots PROVE (\E p \in Parties : s \in Stake(p)) <=> (\E p \in Parties : s \in Stake(p)')
    BY <1>3, <1>11, <1>12
  <2> QED
    BY <2>0, <2>1, <2>2 DEF SlotsOwned
<1>14. \A S : SlotsSame(S)
  BY <1>1 DEF SlotsSame
<1>15. Asked(t) \cap Answered(w) = {}
  <2>1. t # w /\ SlotsOwned
    BY <1>3, CalmFacts
  <2>2. Stake(t) \cap Stake(w) = {}
    BY <1>3, <2>1 DEF SlotsOwned
  <2> QED
    BY <1>11, <2>2
<1>16. Distinct(a.slots) /\ Intact(Answered(w), "ready", <<j, "result">>)
  BY <1>3, <1>4, <1>5, <1>6 DEF WorkerSound, AnswerSound
<1>17. ThreadSound(t)'
  <2>1. Distinct(leases[t])'
    BY <1>8 DEF Distinct
  <2>2. Phases(t)'
    BY <1>1, <1>7, <1>8, <2>1 DEF Phases
  <2>3. WrapSound(t, <<j, "request">>)'
    BY <1>1, <1>9, WrapEmpty
  <2>4. Distinct(Untaken(t))' /\ Distinct(taken[t])'
    <3>1. taken'[t] = <<>>
      BY <1>1, <1>8
    <3> QED
      BY <1>7, <1>16, <3>1 DEF Distinct
  <2>5. Intact(Unread(t), "ready", <<j, "result">>)'
    BY <1>1, <1>7, <1>16 DEF Intact
  <2>6. ReplySound(t, <<j, "result">>)'
    BY <1>7, <1>10, <1>15, <2>4, <2>5 DEF ReplySound, Intact
  <2> QED
    BY <1>1, <1>2, <1>7, <2>2, <2>3, <2>6, ThreadSoundThen
<1>18. WorkerSound(w)'
  <2>0. PICK k : k = kid[w].job
    OBVIOUS
  <2>1. ChildPhases(w)'
    BY <1>1, <1>3, <1>10 DEF WorkerSound, ChildPhases, Unwrapped
  <2>2. WrapSound(w, <<k, "result">>)'
    BY <1>1, <1>3, <1>14, <2>0, WrapSame DEF WorkerSound
  <2>3. AnswerSound(w)'
    BY <1>7 DEF AnswerSound
  <2>4. StraySound(w)'
    <3>1. Own(w)' = {}
      BY <1>10 DEF Own
    <3> QED
      BY <1>1, <1>3, <3>1, StrayKept DEF WorkerSound
  <2> QED
    BY <1>1, <2>0, <2>1, <2>2, <2>3, <2>4, WorkerSoundThen
<1>19. ASSUME NEW v \in Workers PROVE Employed(v)'
  <2>1. CASE v = w
    <3>1. Told(w)' = Told(w)
      BY <1>1 DEF Told
    <3> QED
      BY <1>1, <1>4, <1>7, <2>1, <3>1 DEF Employed, Quiet
  <2>2. CASE v # w
    <3>1. Employed(v) /\ (Quiet(v) => Quiet(v)')
      BY <1>1, <1>2, <2>2 DEF CalmInv, Quiet, Told
    <3>2. \A u \in Threads : held[u] = v /\ pc[u] = "await" => pc'[u] = "await" /\ held'[u] = v
      BY <1>1, <1>2, <2>2
    <3> QED
      BY <3>1, <3>2 DEF Employed
  <2> QED
    BY <2>1, <2>2
<1>20. /\ \A u \in Threads \ {t} :
               /\ pc'[u] = pc[u] /\ job'[u] = job[u] /\ held'[u] = held[u] /\ wrap'[u] = wrap[u]
               /\ leases'[u] = leases[u] /\ reply'[u] = reply[u] /\ taken'[u] = taken[u]
       /\ \A v \in Workers : /\ wrap'[v] = wrap[v]
                             /\ v # held[t] => inbox'[v] = inbox[v] /\ outbox'[v] = outbox[v]
       /\ UNCHANGED <<closed, mapped, alive, kid, stranded>>
  BY <1>1
<1> QED
  BY <1>2, <1>13, <1>14, <1>17, <1>18, <1>19, <1>20, CalmThread

\* A worker with something under way is awaited by the thread of that call, and
\* nothing else is told it or waits for it.
LEMMA AtWork ==
    ASSUME CalmInv, NEW w \in Workers, ~Quiet(w)
    PROVE  \E t \in Threads : /\ held[t] = w /\ pc[t] = "await" /\ ThreadSound(t)
                              /\ OnlyCall(w, job[t]) /\ RequestSound(t, w, <<job[t], "request">>)
                              /\ job[t] > 0 /\ job[t] \in Nat
                              /\ \A u \in Threads : held[u] = w => u = t
<1>1. PICK t \in Threads : held[t] = w /\ pc[t] = "await"
  BY DEF CalmInv, Employed
<1>2. OwnTalk(t) /\ ThreadSound(t) /\ job[t] \in Nat /\ NoWorker \notin Workers
  BY CalmFacts DEF CalmInv, TalkInv
<1>3. OnlyCall(w, job[t]) /\ job[t] > 0
  BY <1>1, <1>2 DEF OwnTalk
<1>4. RequestSound(t, w, <<job[t], "request">>)
  BY <1>1, <1>2 DEF ThreadSound
<1>5. \A u \in Threads : held[u] = w => u = t
  BY <1>1, CalmFacts DEF PlaceInv, WorkerInOnePlace
<1> QED
  BY <1>1, <1>2, <1>3, <1>4, <1>5

Strays(p) == IF p \in Threads THEN {} ELSE stranded[p]
StraysSound(p) == p \notin Threads => p \in Workers /\ StraySound(p)

\* A party that wraps a payload answers for nothing else but its strays.
LEMMA WrapPlace ==
    ASSUME CalmInv, NEW p \in Parties, Wrapping(p)
    PROVE  /\ WrapSound(p, TagOf(p)) /\ Stake(p) = Filling(p) \cup Made(p) \cup Strays(p)
           /\ StraysSound(p)
           /\ wrap[p] \in Wraps /\ WrapOrder(p) /\ wrap[p].made \in Seq(Slots)
           /\ wrap[p].said \in Seq(Slots)
           /\ p \in Threads => /\ pc[p] = "wrap" /\ leases[p] = <<>> /\ reply[p] = <<>>
                               /\ taken[p] = <<>>
           /\ p \notin Threads => p \in Workers /\ kid[p].at = "wrap" /\ outbox[p] = <<>>
<1>1. /\ wrap[p] \in Wraps /\ WrapOrder(p) /\ wrap[p].made \in Seq(Slots)
      /\ wrap[p].said \in Seq(Slots)
  BY CalmFacts, StakeSlots DEF Wraps
<1>2. CASE p \in Threads
  <2>0. pc[p] = "wrap"
    BY <1>2 DEF Wrapping
  <2>1. ThreadSound(p) /\ pc[p] = "wrap" /\ reply[p] = <<>>
    BY <1>2, <2>0, CalmFacts DEF CalmInv, PlaceInv, HeldByPlace, Unanswered, Holding
  <2>2. leases[p] = <<>> /\ taken[p] = <<>>
    BY <2>1 DEF ThreadSound, Phases
  <2>3. Stake(p) = Filling(p) \cup Made(p) \cup Strays(p) /\ StraysSound(p)
    BY <1>2, <2>1, <2>2, NoElements DEF Stake, Asked, Unread, Strays, StraysSound
  <2>4. WrapSound(p, TagOf(p))
    <3>1. TagOf(p) = <<job[p], "request">>
      BY <1>2 DEF TagOf
    <3> QED
      BY <2>1, <3>1 DEF ThreadSound
  <2> QED
    BY <1>1, <1>2, <2>1, <2>2, <2>3, <2>4
<1>3. CASE p \notin Threads
  <2>1. p \in Workers /\ WorkerSound(p) /\ kid[p].at = "wrap"
    BY <1>3, CalmFacts DEF CalmInv, Wrapping
  <2>2. ~Quiet(p)
    BY <2>1 DEF Quiet, Waiting
  <2>3. outbox[p] = <<>>
    <3>1. PICK t \in Threads : OnlyCall(p, job[t])
      BY <2>1, <2>2, AtWork
    <3> QED
      BY <2>1, <2>2, <3>1 DEF OnlyCall, Waiting
  <2>4. Stake(p) = Filling(p) \cup Made(p) \cup Strays(p) /\ StraysSound(p)
    BY <1>3, <2>1, <2>3 DEF Stake, Answered, Strays, StraysSound, WorkerSound
  <2>5. WrapSound(p, TagOf(p))
    <3>1. TagOf(p) = <<kid[p].job, "result">>
      BY <1>3 DEF TagOf
    <3> QED
      BY <2>1, <3>1 DEF WorkerSound
  <2> QED
    BY <1>1, <1>3, <2>1, <2>3, <2>4, <2>5
<1> QED
  BY <1>2, <1>3

\* What a step of wrap_payload does to slot s of party p: it stays within what p
\* answers for, and leaves what p has published alone.
LEMMA WrapTakes ==
    ASSUME CalmInv, NEW p \in Parties, NEW s \in Slots, Wrapping(p),
           Stake(p)' = Filling(p)' \cup Made(p)' \cup Strays(p), UNCHANGED <<outbox, stranded>>,
           s \in Filling(p) \/ slotState[s] = "free",
           \A r \in Slots \ {s} : /\ slotState'[r] = slotState[r] /\ slotOwner'[r] = slotOwner[r]
                                 /\ content'[r] = content[r],
           p \notin Threads /\ slotState'[s] # "free" => slotOwner'[s] = p + 1,
           \/ Filling(p)' \cup Made(p)' = Filling(p) \cup Made(p) \cup {s} /\ slotState'[s] # "free"
           \/ Filling(p)' \cup Made(p)' = (Filling(p) \cup Made(p)) \ {s} /\ slotState'[s] = "free"
              /\ s \in Filling(p)
    PROVE  TakesOwn(p) /\ StraysSound(p)'
<1>1. /\ Stake(p) = Filling(p) \cup Made(p) \cup Strays(p) /\ Stake(p) \subseteq Slots
      /\ StraysSound(p)
  BY WrapPlace, CalmFacts, StakeSlots
<1>2. \A r \in Stake(p) : slotState[r] # "free"
  BY <1>1, CalmFacts DEF SlotsOwned
<1>5. s \notin Strays(p)
  <2>1. p \notin Threads => Strays(p) \cap Filling(p) = {}
    BY <1>1 DEF StraysSound, StraySound, Strays, Own
  <2> QED
    BY <1>1, <1>2, <2>1 DEF Strays
<1>6. StraysSound(p)'
  <2> SUFFICES ASSUME p \notin Threads PROVE p \in Workers /\ StraySound(p)'
    BY DEF StraysSound
  <2>1. /\ p \in Workers /\ StraySound(p) /\ Strays(p) = stranded[p] /\ Answered(p) = {}
        /\ Answered(p)' = {}
    BY <1>1, WrapPlace DEF StraysSound, Strays, Answered
  <2>2. Own(p) = Filling(p) \cup Made(p) /\ Own(p)' = Filling(p)' \cup Made(p)'
    BY <2>1 DEF Own
  <2>3. Own(p)' \subseteq Own(p) \cup {s} /\ (s \in Own(p)' => slotState'[s] # "free")
    BY <2>2
  <2>4. \A r \in stranded[p] : /\ r \in Slots \ {s} /\ r \notin Own(p) /\ slotState[r] = "ready"
                              /\ slotOwner[r] = p + 1
    BY <1>1, <1>5, <2>1 DEF StraySound
  <2>5. \A r \in Own(p)' \ {s} : r \in Slots \ {s} /\ slotOwner[r] = p + 1
    BY <1>1, <2>1, <2>2, <2>3 DEF StraySound
  <2> QED
    BY <2>1, <2>3, <2>4, <2>5 DEF StraySound
<1>3. CASE Filling(p)' \cup Made(p)' = Filling(p) \cup Made(p) \cup {s} /\ slotState'[s] # "free"
  BY <1>1, <1>2, <1>3, <1>6 DEF TakesOwn
<1>4. CASE /\ Filling(p)' \cup Made(p)' = (Filling(p) \cup Made(p)) \ {s} /\ slotState'[s] = "free"
           /\ s \in Filling(p)
  <2>1. \A r \in Stake(p)' : r \in Stake(p) /\ slotState'[r] # "free"
    BY <1>1, <1>2, <1>4, <1>5
  <2>2. \A r \in Stake(p) : r \in Stake(p)' \/ slotState'[r] = "free"
    BY <1>1, <1>4
  <2>3. \A r \in Slots : \/ r \in Stake(p)
                        \/ /\ slotState'[r] = slotState[r] /\ slotOwner'[r] = slotOwner[r]
                           /\ content'[r] = content[r]
    BY <1>1, <1>4
  <2> QED
    BY <1>6, <2>1, <2>2, <2>3 DEF TakesOwn
<1> QED
  BY <1>3, <1>4

\* A lease that is being filled is not taken away, so no copy fails.
LEMMA WrapFrame ==
    ASSUME CalmInv, NEW p \in Parties, WrapStep(p)
    PROVE  /\ Wrapping(p) /\ ~WrapRaises(p)
           /\ UNCHANGED <<inbox, outbox, closed, mapped, alive, kid, pc, job, held, leases, reply,
                          taken, control, stranded>>
           /\ \A q \in Parties \ {p} : wrap'[q] = wrap[q]
           /\ Stake(p)' = Filling(p)' \cup Made(p)' \cup Strays(p)
<1>1. Wrapping(p)
  BY DEF WrapStep, WrapLease, WrapFallback, WrapOversize, WrapWrite, WrapPublish, WrapReject,
         WrapRaises, Writing
<1>2. WrapSound(p, TagOf(p)) /\ mapped
  BY <1>1, WrapPlace, CalmFacts
<1>3. ~WrapRaises(p)
  <2>1. wrap[p].slot # NoSlot => slotState[wrap[p].slot] = "leased"
    BY <1>2 DEF WrapSound, Filling
  <2> QED
    BY <1>2, <2>1 DEF WrapRaises
<1>4. /\ UNCHANGED <<inbox, outbox, closed, mapped, alive, kid, pc, job, held, leases, reply,
                     taken, control>>
      /\ \E r : wrap' = [wrap EXCEPT ![p] = r]
  BY <1>3 DEF WrapStep, WrapLease, WrapFallback, WrapOversize, WrapWrite, WrapPublish,
              WrapReject, wrapFrame,
     pipeVars
<1>6. stranded' = stranded
  <2>1. CASE WrapOversize(p)
    <3>1. wrap[p].slot \in Filling(p) /\ wrap[p].slot \in Stake(p) /\ Release(wrap[p].slot)
      BY <2>1 DEF WrapOversize, Writing, Filling, Stake
    <3> QED
      BY <3>1, FreedIsNoStray
  <2>2. CASE ~WrapOversize(p)
    BY <1>3, <2>2 DEF WrapStep, WrapLease, WrapFallback, WrapWrite, WrapPublish, WrapReject,
       Lease, LeaseAny, Write, Advance, slotVars
  <2> QED
    BY <2>1, <2>2
<1>5. Stake(p)' = Filling(p)' \cup Made(p)' \cup Strays(p)
  <2>1. CASE p \in Threads
    <3>1. leases'[p] = <<>> /\ reply'[p] = <<>> /\ taken'[p] = <<>>
      BY <1>1, <1>4, <2>1, WrapPlace
    <3> QED
      BY <2>1, <3>1, NoElements DEF Stake, Asked, Unread, Strays
  <2>2. CASE p \notin Threads
    <3>1. outbox'[p] = <<>>
      BY <1>1, <1>4, <2>2, WrapPlace
    <3> QED
      BY <1>6, <2>2, <3>1 DEF Stake, Answered, Strays
  <2> QED
    BY <2>1, <2>2
<1> QED
  BY <1>1, <1>3, <1>4, <1>5, <1>6

LEMMA WrapKeeps ==
    ASSUME CalmInv, NEW p \in Parties, WrapStep(p)
    PROVE  /\ TakesOwn(p) /\ \A tag : tag = TagOf(p) => WrapSound(p, tag)'
           /\ StraysSound(p)'
<1>1. /\ Wrapping(p) /\ ~WrapRaises(p) /\ UNCHANGED <<outbox, stranded>>
      /\ Stake(p)' = Filling(p)' \cup Made(p)' \cup Strays(p)
  BY WrapFrame
<1>2. PICK tag : tag = TagOf(p)
  OBVIOUS
<1>3. /\ WrapSound(p, tag) /\ Stake(p) = Filling(p) \cup Made(p) \cup Strays(p)
      /\ StraysSound(p) /\ DOMAIN slotOwner = Slots
      /\ wrap[p] \in Wraps /\ WrapOrder(p) /\ wrap[p].made \in Seq(Slots)
      /\ wrap[p].said \in Seq(Slots)
      /\ slotState \in [Slots -> SlotStates] /\ DOMAIN content = Slots /\ p \in DOMAIN wrap
      /\ NoSlot \notin Slots /\ Stake(p) \subseteq Slots
  BY <1>1, <1>2, WrapPlace, CalmFacts, StakeSlots
<1>4. /\ Distinct(wrap[p].made) /\ Filling(p) \cap Made(p) = {} /\ Intact(Made(p), "ready", tag)
      /\ \A s \in Filling(p) : slotState[s] = "leased" /\ (wrap[p].written => content[s] = tag)
      /\ Elems(wrap[p].said) \subseteq Made(p) /\ Distinct(wrap[p].said)
  BY <1>3 DEF WrapSound
<1>a. \A s \in Filling(p) : p \notin Threads => slotOwner[s] = p + 1
  BY <1>3 DEF StraysSound, StraySound, Own
<1>b. ASSUME wrap'[p].said = wrap[p].said
      PROVE  Elems(wrap[p].said)' \subseteq Made(p) /\ Distinct(wrap[p].said)'
  BY <1>4, <1>b DEF Elems, Distinct
<1>c. ASSUME Filling(p)' = Filling(p), Made(p)' = Made(p), UNCHANGED <<slotState, slotOwner>>
      PROVE  StraysSound(p)'
  <2>1. Own(p)' = Own(p)
    BY <1>1, <1>c DEF Own, Answered, Elems
  <2> QED
    BY <1>1, <1>3, <1>c, <2>1, StrayKept DEF StraysSound
<1>5. ASSUME NEW s \in Slots, WrapLease(p, s) PROVE TakesOwn(p) /\ WrapSound(p, tag)' /\ StraysSound(p)'
  <2>1. /\ wrap[p].slot = NoSlot /\ slotState[s] = "free" /\ UNCHANGED content
        /\ slotState' = [slotState EXCEPT ![s] = "leased"] /\ wrap' = [wrap EXCEPT ![p].slot = s]
        /\ slotOwner' = [slotOwner EXCEPT ![s] = OwnerTag(p)]
    BY <1>5 DEF WrapLease, Lease, LeaseAny
  <2>2. /\ wrap'[p].slot = s /\ wrap'[p].made = wrap[p].made /\ wrap'[p].written = wrap[p].written
        /\ wrap[p].written = FALSE /\ wrap'[p].said = wrap[p].said
    BY <1>3, <2>1 DEF Wraps, WrapOrder
  <2>3. Filling(p) = {} /\ Filling(p)' = {s} /\ Made(p)' = Made(p) /\ s \notin Made(p)
    BY <1>3, <1>4, <2>1, <2>2 DEF Filling, Made, Elems, Intact
  <2>4. /\ slotState'[s] = "leased"
        /\ \A r \in Slots \ {s} : slotState'[r] = slotState[r] /\ slotOwner'[r] = slotOwner[r]
    BY <1>3, <2>1
  <2>8. p \notin Threads => slotOwner'[s] = p + 1
    <3>1. p \notin Threads => p \in Workers /\ OwnerTag(p) = 1 + p
      BY <1>3 DEF OwnerTag, StraysSound
    <3>2. p \in Workers => 1 + p = p + 1
      BY SlotsAssumption DEF Workers
    <3> QED
      BY <1>3, <2>1, <3>1, <3>2
  <2>5. TakesOwn(p) /\ StraysSound(p)'
    BY <1>1, <2>1, <2>3, <2>4, <2>8, WrapTakes
  <2>6. Intact(Made(p), "ready", tag)'
    BY <1>3, <1>4, <2>1, <2>3, <2>4 DEF Intact
  <2>7. Distinct(wrap[p].made)'
    BY <1>4, <2>2 DEF Distinct
  <2> QED
    BY <1>b, <2>2, <2>3, <2>4, <2>5, <2>6, <2>7 DEF WrapSound
<1>6. ASSUME WrapFallback(p) PROVE TakesOwn(p) /\ WrapSound(p, tag)' /\ StraysSound(p)'
  <2>1. /\ wrap[p].slot = NoSlot /\ UNCHANGED <<slotState, slotOwner, content>>
        /\ wrap' = [wrap EXCEPT ![p].left = @ - 1]
    BY <1>6 DEF WrapFallback, slotVars
  <2>2. wrap'[p].slot = NoSlot /\ wrap'[p].made = wrap[p].made /\ wrap'[p].said = wrap[p].said
    BY <1>3, <2>1 DEF Wraps
  <2>3. Filling(p) = {} /\ Filling(p)' = {} /\ Made(p)' = Made(p)
    BY <2>1, <2>2 DEF Filling, Made, Elems
  <2>4. TakesOwn(p) /\ StraysSound(p)'
    BY <1>1, <1>3, <1>c, <2>1, <2>3, TakesNothing
  <2>5. Intact(Made(p), "ready", tag)' /\ Distinct(wrap[p].made)'
    BY <1>4, <2>1, <2>2, <2>3 DEF Intact, Distinct
  <2> QED
    BY <1>b, <2>2, <2>3, <2>4, <2>5 DEF WrapSound
<1>7. ASSUME WrapOversize(p) PROVE TakesOwn(p) /\ WrapSound(p, tag)' /\ StraysSound(p)'
  <2>0. PICK s : s = wrap[p].slot
    OBVIOUS
  <2>1. /\ s # NoSlot /\ UNCHANGED content
        /\ slotState' = [slotState EXCEPT ![s] = "free"] /\ slotOwner' = [slotOwner EXCEPT ![s] = 0]
        /\ wrap' = [wrap EXCEPT ![p].left = @ - 1, ![p].slot = NoSlot]
    BY <1>7, <2>0 DEF WrapOversize, Writing, Release
  <2>2. wrap'[p].slot = NoSlot /\ wrap'[p].made = wrap[p].made /\ wrap'[p].said = wrap[p].said
    BY <1>3, <2>1 DEF Wraps
  <2>3. Filling(p) = {s} /\ Filling(p)' = {} /\ Made(p)' = Made(p) /\ s \notin Made(p) /\ s \in Slots
    BY <1>3, <1>4, <2>0, <2>1, <2>2 DEF Filling, Made, Elems
  <2>4. /\ slotState'[s] = "free"
        /\ \A r \in Slots \ {s} : slotState'[r] = slotState[r] /\ slotOwner'[r] = slotOwner[r]
    BY <1>3, <2>1, <2>3
  <2>5. TakesOwn(p) /\ StraysSound(p)'
    BY <1>1, <2>1, <2>3, <2>4, WrapTakes
  <2>6. Intact(Made(p), "ready", tag)'
    BY <1>3, <1>4, <2>1, <2>3, <2>4 DEF Intact
  <2>7. Distinct(wrap[p].made)'
    BY <1>4, <2>2 DEF Distinct
  <2> QED
    BY <1>b, <2>2, <2>3, <2>5, <2>6, <2>7 DEF WrapSound
<1>8. ASSUME WrapWrite(p) PROVE TakesOwn(p) /\ WrapSound(p, tag)' /\ StraysSound(p)'
  <2>0. PICK s : s = wrap[p].slot
    OBVIOUS
  <2>1. /\ s # NoSlot /\ UNCHANGED <<slotState, slotOwner>> /\ content' = [content EXCEPT ![s] = tag]
        /\ wrap' = [wrap EXCEPT ![p].written = TRUE]
    BY <1>2, <1>8, <2>0 DEF WrapWrite, Writing, Write
  <2>2. wrap'[p].slot = s /\ wrap'[p].made = wrap[p].made /\ wrap'[p].said = wrap[p].said
    BY <1>3, <2>0, <2>1 DEF Wraps
  <2>3. Filling(p) = {s} /\ Filling(p)' = {s} /\ Made(p)' = Made(p) /\ s \notin Made(p) /\ s \in Slots
    <3>1. Filling(p) = {s} /\ Filling(p)' = {s}
      BY <2>0, <2>1, <2>2 DEF Filling
    <3>2. Made(p)' = Made(p)
      BY <2>2 DEF Made, Elems
    <3> QED
      BY <1>3, <1>4, <3>1, <3>2
  <2>4. content'[s] = tag /\ slotState'[s] = "leased" /\ \A r \in Slots \ {s} : content'[r] = content[r]
    BY <1>3, <1>4, <2>1, <2>3
  <2>5. TakesOwn(p) /\ StraysSound(p)'
    BY <1>1, <1>a, <2>1, <2>3, <2>4, WrapTakes
  <2>6. Intact(Made(p), "ready", tag)'
    BY <1>3, <1>4, <2>1, <2>3, <2>4 DEF Intact
  <2>7. Distinct(wrap[p].made)'
    BY <1>4, <2>2 DEF Distinct
  <2> QED
    BY <1>b, <2>2, <2>3, <2>4, <2>5, <2>6, <2>7 DEF WrapSound
<1>9. ASSUME WrapPublish(p) PROVE TakesOwn(p) /\ WrapSound(p, tag)' /\ StraysSound(p)'
  <2>0. PICK s : s = wrap[p].slot
    OBVIOUS
  <2>1. /\ wrap[p].written /\ UNCHANGED <<slotOwner, content>>
        /\ slotState' = [slotState EXCEPT ![s] = "ready"]
        /\ wrap' = [wrap EXCEPT ![p].left = @ - 1, ![p].slot = NoSlot, ![p].written = FALSE,
                                ![p].made = Append(@, s), ![p].said = Append(@, s)]
    BY <1>9, <2>0 DEF WrapPublish, Advance
  <2>2. /\ wrap'[p].slot = NoSlot /\ wrap'[p].made = Append(wrap[p].made, s)
        /\ wrap'[p].said = Append(wrap[p].said, s)
    BY <1>3, <2>1 DEF Wraps
  <2>3. Filling(p) = {s} /\ Filling(p)' = {} /\ s \notin Made(p) /\ s \in Slots /\ content[s] = tag
    BY <1>3, <1>4, <2>0, <2>1, <2>2 DEF Filling, Made, WrapOrder
  <2>4. Made(p)' = Made(p) \cup {s} /\ Distinct(wrap[p].made)'
    <3>1. Made(p)' = Elems(Append(wrap[p].made, s))
      BY <2>2 DEF Made, Elems
    <3>2. Distinct(Append(wrap[p].made, s)) => Distinct(wrap[p].made)'
      BY <2>2 DEF Distinct
    <3> QED
      BY <1>3, <1>4, <2>3, <3>1, <3>2, ElemsOfAppend DEF Made
  <2>5. slotState'[s] = "ready" /\ \A r \in Slots \ {s} : slotState'[r] = slotState[r]
    BY <1>3, <2>1, <2>3
  <2>6. TakesOwn(p) /\ StraysSound(p)'
    BY <1>1, <1>a, <2>1, <2>3, <2>4, <2>5, WrapTakes
  <2>8. Elems(wrap[p].said)' \subseteq Made(p)' /\ Distinct(wrap[p].said)'
    <3>1. Elems(wrap[p].said)' = Elems(Append(wrap[p].said, s))
      BY <2>2 DEF Elems
    <3>2. Distinct(Append(wrap[p].said, s)) => Distinct(wrap[p].said)'
      BY <2>2 DEF Distinct
    <3>3. s \notin Elems(wrap[p].said)
      BY <1>4, <2>3
    <3>4. /\ Elems(Append(wrap[p].said, s)) = Elems(wrap[p].said) \cup {s}
          /\ Distinct(Append(wrap[p].said, s))
      BY <1>3, <1>4, <2>3, <3>3, ElemsOfAppend
    <3> QED
      BY <1>4, <2>4, <3>1, <3>2, <3>4
  <2>7. Intact(Made(p), "ready", tag)'
    BY <1>3, <1>4, <2>1, <2>3, <2>4, <2>5 DEF Intact
  <2> QED
    BY <2>3, <2>4, <2>6, <2>7, <2>8 DEF WrapSound
<1>11. ASSUME WrapReject(p) PROVE TakesOwn(p) /\ WrapSound(p, tag)' /\ StraysSound(p)'
  <2>1. PICK n \in 0..Len(wrap[p].said) - 1 : wrap' = [wrap EXCEPT ![p].said = SubSeq(@, 1, n)]
    BY <1>11 DEF WrapReject
  <2>2. wrap[p].slot = NoSlot /\ UNCHANGED <<slotState, slotOwner, content>>
    BY <1>11 DEF WrapReject, slotVars
  <2>3. /\ wrap'[p].slot = NoSlot /\ wrap'[p].made = wrap[p].made
        /\ wrap'[p].said = SubSeq(wrap[p].said, 1, n)
    BY <1>3, <2>1, <2>2 DEF Wraps
  <2>4. Filling(p) = {} /\ Filling(p)' = {} /\ Made(p)' = Made(p)
    BY <2>2, <2>3 DEF Filling, Made, Elems
  <2>5. TakesOwn(p) /\ StraysSound(p)'
    BY <1>1, <1>3, <1>c, <2>2, <2>4, TakesNothing
  <2>6. Intact(Made(p), "ready", tag)' /\ Distinct(wrap[p].made)'
    BY <1>4, <2>2, <2>3, <2>4 DEF Intact, Distinct
  <2>7. Elems(wrap[p].said)' \subseteq Made(p)' /\ Distinct(wrap[p].said)'
    <3>1. /\ Elems(wrap[p].said)' = Elems(SubSeq(wrap[p].said, 1, n))
          /\ Distinct(SubSeq(wrap[p].said, 1, n)) => Distinct(wrap[p].said)'
      BY <2>3 DEF Elems, Distinct
    <3> QED
      BY <1>3, <1>4, <2>1, <2>4, <3>1, ElemsOfPrefix
  <2> QED
    BY <2>4, <2>5, <2>6, <2>7 DEF WrapSound
<1>10. TakesOwn(p) /\ WrapSound(p, tag)' /\ StraysSound(p)'
  BY <1>1, <1>5, <1>6, <1>7, <1>8, <1>9, <1>11 DEF WrapStep
<1> QED
  BY <1>2, <1>10

LEMMA CalmWrap ==
    ASSUME CalmInv, TalkInv', NEW p \in Parties, WrapStep(p)
    PROVE  CalmInv'
<1>1. /\ Wrapping(p) /\ TakesOwn(p) /\ StraysSound(p)'
      /\ \A tag : tag = TagOf(p) => WrapSound(p, tag)'
      /\ UNCHANGED <<inbox, outbox, closed, mapped, alive, kid, pc, job, held, leases, reply,
                     taken, control, stranded>>
      /\ \A q \in Parties \ {p} : wrap'[q] = wrap[q]
  BY WrapFrame, WrapKeeps
<1>2. CASE p \in Threads
  <2>1. ThreadSound(p) /\ pc[p] = "wrap" /\ reply[p] = <<>> /\ taken[p] = <<>> /\ leases[p] = <<>>
    BY <1>1, <1>2, CalmFacts, WrapPlace DEF CalmInv
  <2>2. PICK w, j : w = held[p] /\ j = job[p]
    OBVIOUS
  <2>3. WrapSound(p, <<j, "request">>)'
    BY <1>1, <1>2, <2>2 DEF TagOf
  <2>4. Unread(p)' = {} /\ reply'[p] = <<>> /\ taken'[p] = <<>>
    BY <1>1, <2>1 DEF Unread
  <2>5. ReplySound(p, <<j, "result">>)'
    BY <2>4, ReplyEmpty
  <2>6. Phases(p)'
    <3>1. Distinct(leases[p])'
      BY <1>1, <2>1, NoElements
    <3> QED
      BY <1>1, <2>1, <2>4, <3>1 DEF Phases
  <2>7. ThreadSound(p)'
    BY <1>1, <2>1, <2>2, <2>3, <2>5, <2>6, ThreadSoundThen
  <2> QED
    BY <1>1, <1>2, <2>1, <2>7, CalmThreadAlone
<1>3. CASE p \notin Threads
  <2>1. p \in Workers /\ kid[p].at = "wrap" /\ outbox[p] = <<>> /\ WorkerSound(p)
        /\ Threads \subseteq Parties /\ Workers \subseteq Parties
    BY <1>1, <1>3, WrapPlace, CalmFacts DEF CalmInv
  <2>2. SlotsOwned' /\ \A q \in Parties \ {p} : SlotsSame(Stake(q))
    <3>1. \A q \in Parties \ {p} : Stake(q)' = Stake(q)
      BY <1>1, StakeSame
    <3> QED
      BY <1>1, <3>1, OwnSlots
  <2>3. PICK k : k = kid[p].job
    OBVIOUS
  <2>4. WrapSound(p, <<k, "result">>)'
    BY <1>1, <1>3, <2>3 DEF TagOf
  <2>5. ChildPhases(p)' /\ AnswerSound(p)'
    BY <1>1, <2>1 DEF WorkerSound, ChildPhases, AnswerSound
  <2>6. WorkerSound(p)'
    BY <1>1, <1>3, <2>3, <2>4, <2>5, WorkerSoundThen DEF StraysSound
  <2>7. Quiet(p) => Quiet(p)'
    BY <1>1 DEF Quiet, Told
  <2>8. \A v \in Workers \ {p} : SameTalk(v) /\ alive'[v] = alive[v] /\ SlotsSame(Stake(v))
    BY <1>1, <2>1, <2>2 DEF SameTalk
  <2>9. \A t \in Threads : SlotsSame(Stake(t)) /\ ThreadSound(t)'
    <3> SUFFICES ASSUME NEW t \in Threads PROVE SlotsSame(Stake(t)) /\ ThreadSound(t)'
      OBVIOUS
    <3>1. SlotsSame(Stake(t)) /\ ThreadSound(t) /\ wrap'[t] = wrap[t]
      BY <1>1, <1>3, <2>1, <2>2 DEF CalmInv
    <3> QED
      BY <1>1, <3>1, ThreadSoundSame
  <2> QED
    BY <1>1, <2>1, <2>2, <2>6, <2>7, <2>8, <2>9, CalmChild
<1> QED
  BY <1>2, <1>3

\* A step of the child of worker w on the call of thread t: what it still needs
\* of the request is there, and nobody else's slots are touched.
LEMMA CalmWork ==
    ASSUME CalmInv, TalkInv', NEW w \in Workers, NEW t \in Threads, ~Quiet(w),
           held[t] = w, pc[t] = "await",
           UNCHANGED <<closed, mapped, pc, job, held, leases, reply, taken, alive>>,
           \A p \in Parties \ {w} : wrap'[p] = wrap[p],
           \A v \in Workers \ {w} : SameTalk(v) /\ stranded'[v] = stranded[v],
           \A q \in Parties : Stake(q)' = Stake(q),
           TakesOwn(t), \A tag : tag = <<job[t], "request">> => RequestSound(t, w, tag)',
           WorkerSound(w)'
    PROVE  CalmInv'
<1>1. /\ t \in Parties /\ w \in Parties /\ t # w /\ ThreadSound(t) /\ reply[t] = <<>>
      /\ Workers \subseteq Parties /\ Threads \subseteq Parties /\ t \notin Workers
  BY CalmFacts DEF CalmInv, PlaceInv, HeldByPlace, Unanswered, Holding
<1>2. SlotsOwned' /\ \A q \in Parties \ {t} : SlotsSame(Stake(q))
  BY <1>1, OwnSlots
<1>3. PICK j : j = job[t]
  OBVIOUS
<1>4. RequestSound(t, w, <<j, "request">>)'
  BY <1>3
<1>5. ThreadSound(t)'
  <2>1. wrap[t] = Unwrapped(0) /\ wrap'[t] = wrap[t] /\ taken[t] = <<>> /\ Distinct(leases[t])
    BY <1>1 DEF ThreadSound, Phases
  <2>2. wrap'[t].made = <<>> /\ wrap'[t].slot = NoSlot /\ wrap'[t].said = <<>>
    BY <2>1 DEF Unwrapped
  <2>3. Unread(t)' = {} /\ reply'[t] = <<>> /\ taken'[t] = <<>>
    BY <1>1, <2>1 DEF Unread
  <2>4. WrapSound(t, <<j, "request">>)' /\ ReplySound(t, <<j, "result">>)'
    BY <2>2, <2>3, WrapEmpty, ReplyEmpty
  <2>5. Distinct(leases[t])'
    BY <2>1 DEF Distinct
  <2>6. Phases(t)'
    BY <2>1, <2>3, <2>5 DEF Phases
  <2> QED
    BY <1>3, <1>4, <2>4, <2>6, ThreadSoundThen
<1>6. \A u \in Threads : /\ held[u] # w \/ pc[u] # "await" => SlotsSame(Stake(u))
                         /\ held[u] = w /\ pc[u] = "await" => ThreadSound(u)'
  <2>1. \A u \in Threads : u = t \/ SlotsSame(Stake(u))
    BY <1>1, <1>2
  <2>2. \A u \in Threads : held[u] = w => u = t
    BY CalmFacts, PoolAssumption DEF PlaceInv, WorkerInOnePlace
  <2> QED
    BY <1>5, <2>1, <2>2
<1>7. \A v \in Workers \ {w} : alive'[v] = alive[v] /\ SlotsSame(Stake(v))
  BY <1>1, <1>2
<1> QED
  BY <1>2, <1>6, <1>7, CalmChild

LEMMA CalmChildReceive ==
    ASSUME CalmInv, TalkInv', NEW w \in Workers, ChildReceive(w)
    PROVE  CalmInv'
<1>1. /\ kid[w].at = "recv" /\ inbox[w] # <<>>
      /\ kid' = [kid EXCEPT ![w] = [at |-> "take", job |-> Head(inbox[w]).job,
                                    todo |-> Head(inbox[w]).slots, view |-> <<>>, kind |-> "ok"]]
      /\ inbox' = [inbox EXCEPT ![w] = Tail(@)]
      /\ UNCHANGED <<closed, mapped, pc, job, held, leases, reply, taken, alive, outbox, wrap,
                     slotState, slotOwner, content, stranded, control>>
  BY DEF ChildReceive, Child, childFrame, slotVars, threadVars
<1>2. /\ w \in Parties /\ w \notin Threads /\ inbox[w] \in Seq(Messages) /\ w \in DOMAIN kid
      /\ w \in DOMAIN inbox /\ WorkerSound(w)
  BY CalmFacts DEF CalmInv
<1>3. 1 \in DOMAIN inbox[w] /\ \A i \in DOMAIN inbox[w] : inbox[w][i] # Stop
  BY <1>1, <1>2 DEF WorkerSound, ChildPhases
<1>4. Told(w) = DOMAIN inbox[w] /\ 1 \in Told(w) /\ ~Quiet(w)
  BY <1>3 DEF Told, Quiet
<1>5. PICK t \in Threads : /\ held[t] = w /\ pc[t] = "await" /\ OnlyCall(w, job[t])
                           /\ RequestSound(t, w, <<job[t], "request">>)
  BY <1>4, AtWork
<1>6. PICK m, tag : m = inbox[w][1] /\ tag = <<job[t], "request">>
  OBVIOUS
<1>7. /\ m = Head(inbox[w]) /\ m \in Messages
      /\ Elems(m.slots) \subseteq Asked(t) /\ Distinct(m.slots) /\ Intact(Elems(m.slots), "ready", tag)
  <2>1. m = Head(inbox[w]) /\ m \in Messages
    BY <1>1, <1>2, <1>6
  <2>2. RequestSound(t, w, tag)
    BY <1>5, <1>6
  <2>3. /\ Elems(inbox[w][1].slots) \subseteq Asked(t) /\ Distinct(inbox[w][1].slots)
        /\ Intact(Elems(inbox[w][1].slots), "ready", tag)
    BY <1>4, <2>2 DEF RequestSound
  <2> QED
    BY <1>6, <2>1, <2>3
<1>8. outbox[w] = <<>> /\ \A i \in DOMAIN inbox[w] : i = 1
  BY <1>1, <1>4, <1>5 DEF OnlyCall
<1>9. inbox'[w] = <<>>
  <2>0. Len(inbox[w]) \in Nat /\ DOMAIN inbox[w] = 1..Len(inbox[w])
    BY <1>2
  <2>1. Len(inbox[w]) = 1
    <3>1. Len(inbox[w]) \in DOMAIN inbox[w]
      BY <1>3, <2>0
    <3> QED
      BY <1>8, <3>1
  <2>2. Tail(inbox[w]) \in Seq(Messages) /\ Len(Tail(inbox[w])) = 0
    BY <1>1, <1>2, <2>1
  <2> QED
    BY <1>1, <1>2, <2>2, EmptySeq
<1>10. /\ kid'[w].todo = m.slots /\ kid'[w].view = <<>> /\ kid'[w].at = "take"
  BY <1>1, <1>2, <1>7
<1>11. RequestSound(t, w, tag)'
  <2>1. Told(w)' = {}
    BY <1>9 DEF Told
  <2>2. Asked(t)' = Asked(t) /\ Elems(kid[w].todo)' = Elems(m.slots) /\ Elems(kid[w].view)' = {}
    BY <1>1, <1>10 DEF Asked, Elems
  <2>3. Distinct(kid[w].todo)'
    BY <1>7, <1>10 DEF Distinct
  <2>4. Intact(Elems(kid[w].todo), "ready", tag)'
    BY <1>1, <1>7, <2>2 DEF Intact
  <2> QED
    BY <1>7, <2>1, <2>2, <2>3, <2>4 DEF RequestSound
<1>12. WorkerSound(w)'
  <2>0. PICK k : k = kid'[w].job
    OBVIOUS
  <2>1. wrap'[w] = Unwrapped(0)
    BY <1>1, <1>2 DEF WorkerSound, ChildPhases
  <2>2. wrap'[w].made = <<>> /\ wrap'[w].slot = NoSlot /\ wrap'[w].said = <<>>
    BY <2>1 DEF Unwrapped
  <2>3. \A i \in DOMAIN inbox'[w] : inbox'[w][i] # Stop
    BY <1>9
  <2>4. ChildPhases(w)'
    BY <1>1, <1>2, <1>10, <2>1, <2>3 DEF WorkerSound, ChildPhases
  <2>5. AnswerSound(w)'
    BY <1>1, <1>8 DEF AnswerSound
  <2>6. WrapSound(w, <<k, "result">>)'
    BY <2>2, WrapEmpty
  <2>7. StraySound(w)'
    <3>1. Own(w)' = Own(w)
      BY <1>1 DEF Own, Filling, Made, Answered, Elems
    <3> QED
      BY <1>1, <1>2, <3>1, StrayKept DEF WorkerSound
  <2> QED
    BY <2>0, <2>4, <2>5, <2>6, <2>7, WorkerSoundThen
<1>13. \A q \in Parties : Stake(q)' = Stake(q)
  BY <1>1, StakeSame
<1>14. TakesOwn(t)
  BY <1>1, <1>13, CalmFacts, TakesNothing
<1>15. \A v \in Workers \ {w} : SameTalk(v) /\ stranded'[v] = stranded[v]
  BY <1>1 DEF SameTalk
<1> QED
  BY <1>1, <1>4, <1>5, <1>6, <1>11, <1>12, <1>13, <1>14, <1>15, CalmWork

\* A child at work on a call: its request is complete, nothing else is said to it
\* or by it.
LEMMA ChildFacts ==
    ASSUME CalmInv, NEW w \in Workers, kid[w].at # "recv"
    PROVE  /\ ~Quiet(w) /\ Told(w) = {} /\ outbox[w] = <<>> /\ WorkerSound(w)
           /\ w \in Parties /\ w \notin Threads /\ w \in DOMAIN kid /\ w \in DOMAIN wrap
           /\ kid[w] \in Kids /\ kid[w].todo \in Seq(Slots) /\ kid[w].view \in Seq(Slots)
           /\ \E t \in Threads : /\ held[t] = w /\ pc[t] = "await" /\ kid[w].job = job[t]
                                 /\ RequestSound(t, w, <<job[t], "request">>)
<1>1. ~Quiet(w)
  BY DEF Quiet, Waiting
<1>2. PICK t \in Threads : /\ held[t] = w /\ pc[t] = "await" /\ OnlyCall(w, job[t])
                           /\ RequestSound(t, w, <<job[t], "request">>)
  BY <1>1, AtWork
<1>3. Told(w) = {} /\ outbox[w] = <<>> /\ kid[w].job = job[t]
  BY <1>1, <1>2 DEF OnlyCall, Waiting
<1>4. /\ WorkerSound(w) /\ w \in Parties /\ w \notin Threads /\ w \in DOMAIN kid /\ w \in DOMAIN wrap
      /\ kid[w] \in Kids
  BY CalmFacts DEF CalmInv
<1>5. kid[w].todo \in Seq(Slots) /\ kid[w].view \in Seq(Slots)
  BY <1>4 DEF Kids
<1> QED
  BY <1>1, <1>2, <1>3, <1>4, <1>5

\* A child goes on with nothing of the request left to read.
LEMMA CalmGoOn ==
    ASSUME CalmInv, TalkInv', NEW w \in Workers, kid[w].at # "recv",
           kid'[w].todo = <<>>, kid'[w].view = <<>>,
           UNCHANGED <<closed, mapped, pc, job, held, leases, reply, taken, alive, inbox,
                       slotState, slotOwner, content, control>>,
           \A p \in Parties \ {w} : wrap'[p] = wrap[p],
           \A v \in Workers \ {w} : /\ kid'[v] = kid[v] /\ outbox'[v] = outbox[v]
                                   /\ stranded'[v] = stranded[v],
           Stake(w)' = Stake(w), WorkerSound(w)'
    PROVE  CalmInv'
<1>1. /\ ~Quiet(w) /\ Told(w) = {} /\ w \in Parties
      /\ \E t \in Threads : held[t] = w /\ pc[t] = "await"
  BY ChildFacts
<1>2. PICK t \in Threads : held[t] = w /\ pc[t] = "await"
  BY <1>1
<1>3. \A tag : RequestSound(t, w, tag)'
  <2>1. Told(w)' = {}
    BY <1>1 DEF Told
  <2>2. Elems(kid[w].todo)' = {} /\ Elems(kid[w].view)' = {} /\ Distinct(kid[w].todo)'
    BY DEF Elems, Distinct
  <2> QED
    BY <2>1, <2>2 DEF RequestSound, Intact
<1>4. \A q \in Parties : Stake(q)' = Stake(q)
  <2> SUFFICES ASSUME NEW q \in Parties \ {w} PROVE Stake(q)' = Stake(q)
    OBVIOUS
  <2>1. q \notin Threads => q \in Workers \ {w}
    BY DEF Parties
  <2> QED
    BY <2>1, StakeSame
<1>5. TakesOwn(t)
  BY <1>4, CalmFacts, TakesNothing
<1>6. \A v \in Workers \ {w} : SameTalk(v) /\ stranded'[v] = stranded[v]
  BY DEF SameTalk
<1> QED
  BY <1>1, <1>2, <1>3, <1>4, <1>5, <1>6, CalmWork

LEMMA CalmChildTake ==
    ASSUME CalmInv, TalkInv', NEW w \in Workers, ChildTake(w)
    PROVE  CalmInv'
<1>1. /\ kid[w].at = "take" /\ kid[w].todo # <<>>
      /\ slotState' = [slotState EXCEPT ![Head(kid[w].todo)] = "held"]
      /\ kid' = [kid EXCEPT ![w].todo = Tail(@), ![w].view = Append(@, Head(kid[w].todo))]
      /\ UNCHANGED <<closed, mapped, pc, job, held, leases, reply, taken, alive, inbox, outbox,
                     wrap, slotOwner, content, stranded, control>>
  BY DEF ChildTake, Child, Advance, childFrame, pipeVars, threadVars
<1>2. /\ ~Quiet(w) /\ Told(w) = {} /\ outbox[w] = <<>> /\ WorkerSound(w)
      /\ w \in Parties /\ w \in DOMAIN kid /\ kid[w] \in Kids
      /\ kid[w].todo \in Seq(Slots) /\ kid[w].view \in Seq(Slots)
  BY <1>1, ChildFacts
<1>3. PICK t \in Threads : /\ held[t] = w /\ pc[t] = "await"
                           /\ RequestSound(t, w, <<job[t], "request">>)
  BY <1>1, ChildFacts
<1>4. PICK s, tag : s = Head(kid[w].todo) /\ tag = <<job[t], "request">>
  OBVIOUS
<1>5. RequestSound(t, w, tag)
  BY <1>3, <1>4
<1>6. /\ Elems(kid[w].todo) \subseteq Asked(t) /\ Distinct(kid[w].todo)
      /\ Intact(Elems(kid[w].todo), "ready", tag)
      /\ Elems(kid[w].view) \subseteq Asked(t) /\ \A r \in Elems(kid[w].view) : content[r] = tag
  BY <1>5 DEF RequestSound
<1>7. /\ kid'[w].todo = Tail(kid[w].todo) /\ kid'[w].view = Append(kid[w].view, s)
      /\ kid'[w].at = "take" /\ kid'[w].job = kid[w].job
  BY <1>1, <1>2, <1>4 DEF Kids
<1>8. /\ s \in Slots /\ Elems(kid[w].todo) = Elems(kid[w].todo)' \cup {s}
      /\ s \notin Elems(kid[w].todo)' /\ Distinct(kid[w].todo)'
  <2>1. /\ Elems(kid[w].todo)' = Elems(Tail(kid[w].todo))
        /\ (Distinct(Tail(kid[w].todo)) => Distinct(kid[w].todo)')
    BY <1>7 DEF Elems, Distinct
  <2> QED
    BY <1>1, <1>2, <1>4, <1>6, <2>1, ElemsOfTail
<1>9. Elems(kid[w].view)' = Elems(kid[w].view) \cup {s}
  <2>1. Elems(kid[w].view)' = Elems(Append(kid[w].view, s))
    BY <1>7 DEF Elems
  <2> QED
    BY <1>2, <1>8, <2>1, ElemsOfAppend
<1>10. s \in Stake(t) /\ Stake(t) \subseteq Slots /\ Asked(t) \subseteq Slots /\ t \in Parties
  BY <1>6, <1>8, CalmFacts, StakeSlots DEF Stake
<1>11. slotState'[s] = "held" /\ \A r \in Slots \ {s} : slotState'[r] = slotState[r]
  BY <1>1, <1>4, <1>8, CalmFacts
<1>12. \A q \in Parties : Stake(q)' = Stake(q)
  BY <1>1, StakeSame
<1>13. TakesOwn(t)
  <2>1. \A r \in Stake(t) : slotState[r] # "free"
    BY <1>10, CalmFacts DEF SlotsOwned
  <2>2. Stake(t)' = Stake(t)
    BY <1>10, <1>12
  <2>3. \A r \in Stake(t)' : r \in Stake(t) /\ slotState'[r] # "free"
    BY <1>10, <1>11, <2>1, <2>2
  <2>4. \A r \in Slots : \/ r \in Stake(t)
                        \/ /\ slotState'[r] = slotState[r] /\ slotOwner'[r] = slotOwner[r]
                           /\ content'[r] = content[r]
    BY <1>1, <1>10, <1>11
  <2> QED
    BY <2>2, <2>3, <2>4 DEF TakesOwn
<1>14. RequestSound(t, w, tag)'
  <2>1. Told(w)' = {} /\ Asked(t)' = Asked(t)
    BY <1>1, <1>2 DEF Told, Asked, Elems
  <2>2. Elems(kid[w].todo)' \subseteq Asked(t)' /\ Elems(kid[w].view)' \subseteq Asked(t)'
    BY <1>6, <1>8, <1>9, <2>1
  <2>3. Intact(Elems(kid[w].todo), "ready", tag)'
    BY <1>1, <1>6, <1>8, <1>10, <1>11 DEF Intact
  <2>4. \A r \in Elems(kid[w].view)' : content'[r] = tag
    BY <1>1, <1>6, <1>8, <1>9 DEF Intact
  <2> QED
    BY <1>8, <2>1, <2>2, <2>3, <2>4 DEF RequestSound
<1>15. WorkerSound(w)'
  <2>0. PICK k : k = kid'[w].job
    OBVIOUS
  <2>1. wrap'[w] = Unwrapped(0)
    BY <1>1, <1>2 DEF WorkerSound, ChildPhases
  <2>2. wrap'[w].made = <<>> /\ wrap'[w].slot = NoSlot /\ wrap'[w].said = <<>>
    BY <2>1 DEF Unwrapped
  <2>3. ChildPhases(w)'
    BY <1>1, <1>2, <1>7, <2>1 DEF WorkerSound, ChildPhases
  <2>4. AnswerSound(w)'
    BY <1>1, <1>2 DEF AnswerSound
  <2>5. WrapSound(w, <<k, "result">>)'
    BY <2>2, WrapEmpty
  <2>6. StraySound(w)'
    <3>1. Own(w)' = Own(w)
      BY <1>1 DEF Own, Filling, Made, Answered, Elems
    <3>2. t # w /\ stranded[w] \subseteq Stake(w) /\ stranded[w] \subseteq Slots /\ SlotsOwned
      BY <1>2, CalmFacts DEF Stake
    <3>3. s \notin stranded[w]
      BY <1>2, <1>10, <3>2 DEF SlotsOwned
    <3>4. \A r \in stranded[w] : slotState'[r] = slotState[r]
      BY <1>11, <3>2, <3>3
    <3> QED
      BY <1>1, <1>2, <3>1, <3>4, StrayKept DEF WorkerSound
  <2> QED
    BY <2>0, <2>3, <2>4, <2>5, <2>6, WorkerSoundThen
<1>16. \A v \in Workers \ {w} : SameTalk(v) /\ stranded'[v] = stranded[v]
  <2>1. DOMAIN kid = Workers
    BY CalmFacts
  <2>2. \A v \in Workers \ {w} : kid'[v] = kid[v]
    BY <1>1, <2>1
  <2> QED
    BY <1>1, <2>2 DEF SameTalk
<1>17. \A g : g = <<job[t], "request">> => RequestSound(t, w, g)'
  BY <1>4, <1>14
<1>18. /\ UNCHANGED <<closed, mapped, pc, job, held, leases, reply, taken, alive>>
       /\ \A p \in Parties \ {w} : wrap'[p] = wrap[p]
  BY <1>1
<1> QED
  BY <1>2, <1>3, <1>12, <1>13, <1>15, <1>16, <1>17, <1>18, CalmWork

\* The slots of a request are there to be taken.
LEMMA RequestsCanBeTaken ==
    ASSUME CalmInv, NEW w \in Workers
    PROVE  ~ChildTakeRaises(w)
<1> SUFFICES ASSUME ChildTakeRaises(w) PROVE FALSE
  OBVIOUS
<1>1. kid[w].at = "take" /\ kid[w].todo # <<>> /\ slotState[Head(kid[w].todo)] # "ready"
  BY DEF ChildTakeRaises, Child
<1>2. PICK t \in Threads : RequestSound(t, w, <<job[t], "request">>)
  BY <1>1, ChildFacts
<1>3. Head(kid[w].todo) \in Elems(kid[w].todo)
  BY <1>1, ChildFacts, ElemsOfTail
<1> QED
  BY <1>1, <1>2, <1>3 DEF RequestSound, Intact

LEMMA CalmCompute ==
    ASSUME CalmInv, TalkInv', NEW w \in Workers,
           \/ \E n \in 0..MaxArrays : ChildCompute(w, n)
           \/ \E kind \in {"error", "cancelled"} : ChildFails(w, kind)
    PROVE  CalmInv'
<1>1. /\ kid[w].at = "take" /\ kid[w].todo = <<>>
      /\ \E at \in {"wrap", "send"}, kind \in {kid[w].kind, "error", "cancelled"} :
            kid' = [kid EXCEPT ![w].at = at, ![w].kind = kind, ![w].view = <<>>]
      /\ UNCHANGED <<closed, mapped, pc, job, held, leases, reply, taken, alive, inbox, outbox,
                     slotState, slotOwner, content, stranded, control>>
      /\ wrap' = wrap \/ \E n : wrap' = [wrap EXCEPT ![w] = Unwrapped(n)]
  <2>1. CASE \E n \in 0..MaxArrays : ChildCompute(w, n)
    <3>1. PICK n \in 0..MaxArrays : ChildCompute(w, n)
      BY <2>1
    <3>2. kid[w] \in Kids /\ DOMAIN kid = Workers
      BY CalmFacts
    <3>3. kid' = [kid EXCEPT ![w].at = "wrap", ![w].kind = kid[w].kind, ![w].view = <<>>]
      <4>1. kid' = [kid EXCEPT ![w].at = "wrap", ![w].view = <<>>]
        BY <3>1 DEF ChildCompute
      <4>2. [kid[w] EXCEPT !.at = "wrap", !.view = <<>>]
                = [kid[w] EXCEPT !.at = "wrap", !.kind = kid[w].kind, !.view = <<>>]
        BY <3>2 DEF Kids
      <4> QED
        BY <3>2, <4>1, <4>2
    <3> QED
      BY <3>1, <3>3 DEF ChildCompute, Child, childFrame, slotVars, pipeVars, threadVars
  <2>2. CASE \E kind \in {"error", "cancelled"} : ChildFails(w, kind)
    BY <2>2 DEF ChildFails, Child, childFrame, slotVars, pipeVars, threadVars
  <2> QED
    BY <2>1, <2>2
<1>2. /\ outbox[w] = <<>> /\ WorkerSound(w) /\ w \in Parties /\ w \notin Threads /\ w \in DOMAIN kid
      /\ w \in DOMAIN wrap /\ kid[w] \in Kids
  BY <1>1, ChildFacts
<1>a. PICK at \in {"wrap", "send"}, kind \in {kid[w].kind, "error", "cancelled"} :
          kid' = [kid EXCEPT ![w].at = at, ![w].kind = kind, ![w].view = <<>>]
  BY <1>1
<1>b. DOMAIN kid = Workers
  BY CalmFacts
<1>3. kid'[w].todo = <<>> /\ kid'[w].view = <<>> /\ kid'[w].at \in {"wrap", "send"}
  <2>1. kid'[w] = [kid[w] EXCEPT !.at = at, !.kind = kind, !.view = <<>>]
    BY <1>a, <1>b
  <2> QED
    BY <1>1, <1>2, <2>1 DEF Kids
<1>4. /\ wrap[w].made = <<>> /\ wrap[w].slot = NoSlot /\ wrap'[w].made = <<>> /\ wrap'[w].slot = NoSlot
      /\ wrap'[w].said = <<>>
  BY <1>1, <1>2 DEF WorkerSound, ChildPhases, Unwrapped
<1>5. Stake(w)' = Stake(w) /\ Own(w)' = Own(w)
  <2>1. Filling(w) = {} /\ Filling(w)' = {} /\ Made(w)' = Made(w) /\ Answered(w)' = Answered(w)
    BY <1>1, <1>4 DEF Filling, Made, Answered, Elems
  <2> QED
    BY <1>1, <1>2, <2>1 DEF Stake, Own
<1>6. WorkerSound(w)'
  <2>0. PICK k : k = kid'[w].job
    OBVIOUS
  <2>1. ChildPhases(w)'
    BY <1>1, <1>2, <1>3, <1>4 DEF WorkerSound, ChildPhases, Filling
  <2>2. WrapSound(w, <<k, "result">>)'
    BY <1>4, WrapEmpty
  <2>3. AnswerSound(w)'
    BY <1>1, <1>2 DEF AnswerSound
  <2>4. StraySound(w)'
    BY <1>1, <1>2, <1>5, StrayKept DEF WorkerSound
  <2> QED
    BY <2>0, <2>1, <2>2, <2>3, <2>4, WorkerSoundThen
<1>7. \A v \in Workers \ {w} : /\ kid'[v] = kid[v] /\ outbox'[v] = outbox[v]
                              /\ stranded'[v] = stranded[v]
  <2>1. \A v \in Workers \ {w} : kid'[v] = kid[v]
    BY <1>a, <1>b
  <2> QED
    BY <1>1, <2>1
<1>8. \A p \in Parties \ {w} : wrap'[p] = wrap[p]
  <2>1. wrap' = wrap \/ \E n : wrap' = [wrap EXCEPT ![w] = Unwrapped(n)]
    BY <1>1
  <2>2. DOMAIN wrap = Parties
    BY CalmFacts
  <2> QED
    BY <2>1, <2>2
<1> QED
  BY <1>1, <1>3, <1>5, <1>6, <1>7, <1>8, CalmGoOn

LEMMA CalmWrapped ==
    ASSUME CalmInv, TalkInv', NEW w \in Workers, ChildWrapped(w)
    PROVE  CalmInv'
<1>1. /\ Wrapping(w) /\ wrap[w].left = 0 /\ kid' = [kid EXCEPT ![w].at = "send"]
      /\ UNCHANGED <<closed, mapped, pc, job, held, leases, reply, taken, alive, inbox, outbox,
                     slotState, slotOwner, content, stranded, control, wrap>>
  BY DEF ChildWrapped, Wrapped, childFrame, slotVars, pipeVars, threadVars
<1>2. w \in Parties /\ w \notin Threads /\ WorkerSound(w) /\ w \in DOMAIN kid /\ kid[w] \in Kids
  BY CalmFacts DEF CalmInv
<1>3. kid[w].at = "wrap" /\ wrap[w] \in Wraps /\ WrapOrder(w) /\ outbox[w] = <<>>
  BY <1>1, <1>2, WrapPlace
<1>4. wrap[w].slot = NoSlot
  BY <1>1, <1>3 DEF WrapOrder, Wraps
<1>5. kid[w].todo = <<>> /\ kid[w].view = <<>>
  BY <1>2, <1>3 DEF WorkerSound, ChildPhases
<1>6. kid'[w].todo = <<>> /\ kid'[w].view = <<>> /\ kid'[w].at = "send" /\ kid'[w].job = kid[w].job
  BY <1>1, <1>2, <1>5 DEF Kids
<1>7. WorkerSound(w)'
  <2>0. PICK k : k = kid[w].job
    OBVIOUS
  <2>1. ChildPhases(w)'
    BY <1>1, <1>2, <1>4, <1>6 DEF WorkerSound, ChildPhases, Filling
  <2>2. SlotsSame(Filling(w) \cup Made(w)) /\ WrapSound(w, <<k, "result">>)
    BY <1>1, <1>2, <2>0 DEF WorkerSound, SlotsSame
  <2>3. WrapSound(w, <<k, "result">>)'
    BY <1>1, <2>2, WrapSame
  <2>4. AnswerSound(w)'
    BY <1>1, <1>3 DEF AnswerSound
  <2>5. StraySound(w)'
    <3>1. Own(w)' = Own(w)
      BY <1>1 DEF Own, Filling, Made, Answered, Elems
    <3> QED
      BY <1>1, <1>2, <3>1, StrayKept DEF WorkerSound
  <2> QED
    BY <1>6, <2>0, <2>1, <2>3, <2>4, <2>5, WorkerSoundThen
<1>8. Stake(w)' = Stake(w)
  BY <1>1, StakeSame
<1>9. \A v \in Workers \ {w} : /\ kid'[v] = kid[v] /\ outbox'[v] = outbox[v]
                              /\ stranded'[v] = stranded[v]
  <2>1. DOMAIN kid = Workers
    BY CalmFacts
  <2> QED
    BY <1>1, <2>1
<1>10. kid[w].at # "recv" /\ \A p \in Parties \ {w} : wrap'[p] = wrap[p]
  BY <1>1, <1>3
<1> QED
  BY <1>1, <1>6, <1>7, <1>8, <1>9, <1>10, CalmGoOn

LEMMA CalmAnswer ==
    ASSUME CalmInv, TalkInv', NEW w \in Workers, ChildSend(w)
    PROVE  CalmInv'
<1>1. /\ kid[w].at = "send" /\ kid' = [kid EXCEPT ![w] = Waiting]
      /\ wrap' = [wrap EXCEPT ![w] = Unwrapped(0)]
      /\ outbox' = [outbox EXCEPT ![w] = Append(@, Answer(kid[w].job, kid[w].kind, wrap[w].said))]
      /\ stranded' = [stranded EXCEPT ![w] = @ \cup (Elems(wrap[w].made) \ Elems(wrap[w].said))]
      /\ UNCHANGED <<closed, mapped, pc, job, held, leases, reply, taken, alive, inbox,
                     slotState, slotOwner, content, control>>
  BY DEF ChildSend, Child, childFrame, slotVars, threadVars
<1>2. /\ outbox[w] = <<>> /\ WorkerSound(w) /\ w \in Parties /\ w \notin Threads /\ w \in DOMAIN kid
      /\ w \in DOMAIN wrap /\ w \in DOMAIN outbox /\ w \in DOMAIN stranded /\ wrap[w] \in Wraps
  BY <1>1, ChildFacts, CalmFacts
<1>3. PICK a : a = Answer(kid[w].job, kid[w].kind, wrap[w].said)
  OBVIOUS
<1>4. a.job = kid[w].job /\ a.slots = wrap[w].said
  BY <1>3 DEF Answer
<1>5. outbox'[w] = <<a>> /\ outbox'[w][1] = a
  BY <1>1, <1>2, <1>3
<1>a. /\ Distinct(wrap[w].said) /\ Elems(wrap[w].said) \subseteq Made(w)
      /\ StraySound(w) /\ Intact(Made(w), "ready", <<kid[w].job, "result">>)
  BY <1>2 DEF WorkerSound, WrapSound
<1>6. Filling(w) = {} /\ Answered(w) = {} /\ Answered(w)' = Elems(wrap[w].said)
  BY <1>1, <1>2, <1>4, <1>5 DEF WorkerSound, ChildPhases, Answered, Elems
<1>b. stranded'[w] = stranded[w] \cup (Made(w) \ Elems(wrap[w].said))
  BY <1>1, <1>2 DEF Made
<1>7. /\ wrap'[w] = Unwrapped(0) /\ wrap'[w].made = <<>> /\ wrap'[w].slot = NoSlot
      /\ wrap'[w].said = <<>> /\ kid'[w] = Waiting
  BY <1>1, <1>2 DEF Unwrapped
<1>8. Stake(w)' = Stake(w) /\ Own(w) = Made(w) /\ Own(w)' = Elems(wrap[w].said)
  <2>1. Filling(w)' = {} /\ Made(w)' = {}
    BY <1>7, NoElements DEF Filling, Made
  <2> QED
    BY <1>2, <1>6, <1>a, <1>b, <2>1 DEF Stake, Own
<1>9. WorkerSound(w)'
  <2>0. PICK k, tag : k = kid'[w].job /\ tag = <<kid[w].job, "result">>
    OBVIOUS
  <2>1. ChildPhases(w)'
    BY <1>1, <1>2, <1>7 DEF WorkerSound, ChildPhases, Waiting
  <2>2. WrapSound(w, <<k, "result">>)'
    BY <1>7, WrapEmpty
  <2>3. Intact(Made(w), "ready", tag)
    BY <1>a, <2>0
  <2>4. Distinct(outbox[w][1].slots)'
    BY <1>4, <1>5, <1>a DEF Distinct
  <2>5. Intact(Answered(w), "ready", tag)'
    BY <1>1, <1>6, <1>a, <2>3 DEF Intact
  <2>6. outbox'[w][1].job = kid[w].job
    BY <1>4, <1>5
  <2>7. \A g : g = <<outbox'[w][1].job, "result">> => Intact(Answered(w), "ready", g)'
    BY <2>0, <2>5, <2>6
  <2>8. AnswerSound(w)'
    BY <2>4, <2>7 DEF AnswerSound
  <2>9. StraySound(w)'
    <3>1. stranded'[w] \cap Own(w)' = {}
      BY <1>8, <1>a, <1>b DEF StraySound
    <3>2. \A s \in stranded'[w] : slotState'[s] = "ready"
      BY <1>1, <1>a, <1>b DEF StraySound, Intact
    <3>3. Own(w)' \cup stranded'[w] \subseteq Own(w) \cup stranded[w]
      BY <1>8, <1>a, <1>b
    <3>4. \A s \in Own(w)' \cup stranded'[w] : slotOwner'[s] = w + 1
      BY <1>1, <1>a, <3>3 DEF StraySound
    <3> QED
      BY <3>1, <3>2, <3>4 DEF StraySound
  <2> QED
    BY <2>0, <2>1, <2>2, <2>8, <2>9, WorkerSoundThen
<1>10. /\ kid[w].at # "recv" /\ kid'[w].todo = <<>> /\ kid'[w].view = <<>>
       /\ \A p \in Parties \ {w} : wrap'[p] = wrap[p]
       /\ \A v \in Workers \ {w} : /\ kid'[v] = kid[v] /\ outbox'[v] = outbox[v]
                                  /\ stranded'[v] = stranded[v]
  BY <1>1, <1>7 DEF Waiting
<1> QED
  BY <1>1, <1>8, <1>9, <1>10, CalmGoOn

LEMMA CalmInit == Init => CalmInv
<1> SUFFICES ASSUME Init PROVE CalmInv
  OBVIOUS
<1>1. TalkInv /\ ~closed /\ mapped
  BY TalkInit DEF Init
<1>2. /\ \A p \in Parties : /\ wrap[p] = Unwrapped(0) /\ wrap[p].made = <<>> /\ wrap[p].slot = NoSlot
                            /\ wrap[p].said = <<>>
      /\ \A t \in Threads : /\ leases[t] = <<>> /\ taken[t] = <<>> /\ reply[t] = <<>>
                            /\ pc[t] = "out" /\ held[t] = NoWorker
      /\ \A w \in Workers : /\ outbox[w] = <<>> /\ inbox[w] = <<>> /\ kid[w] = Waiting /\ alive[w]
                            /\ stranded[w] = {}
      /\ \A s \in Slots : slotState[s] = "free"
  BY DEF Init, SlotInit, Unwrapped
<1>3. Parties = Threads \cup Workers
  BY DEF Parties
<1>4. \A t \in Threads : Unread(t) = {} /\ Asked(t) = {} /\ Elems(taken[t]) = {}
  BY <1>2, NoElements DEF Unread, Asked
<1>5. \A p \in Parties : Filling(p) = {} /\ Made(p) = {}
  BY <1>2, NoElements DEF Filling, Made
<1>6. \A p \in Parties : Stake(p) = {}
  <2>1. \A w \in Workers : Answered(w) = {} /\ stranded[w] = {}
    BY <1>2 DEF Answered
  <2> QED
    BY <1>3, <1>4, <1>5, <2>1 DEF Stake
<1>7. SlotsOwned
  BY <1>2, <1>6 DEF SlotsOwned
<1>8. \A p \in Parties, tag \in {<<0, "request">>, <<0, "result">>} : WrapSound(p, tag)
  BY <1>2, <1>5, NoElements DEF WrapSound, Intact
<1>9. ASSUME NEW t \in Threads PROVE ThreadSound(t)
  <2>1. Distinct(leases[t]) /\ Distinct(taken[t])
    BY <1>2, NoElements
  <2>2. Phases(t)
    BY <1>2, <1>3, <1>4, <2>1 DEF Phases
  <2>3. job[t] = 0
    BY DEF Init
  <2>4. ReplySound(t, <<job[t], "result">>)
    BY <1>2, <1>4, <2>1 DEF ReplySound, Intact
  <2>5. WrapSound(t, <<job[t], "request">>)
    BY <1>3, <1>8, <2>3
  <2> QED
    BY <1>2, <2>2, <2>4, <2>5 DEF ThreadSound
<1>10. ASSUME NEW w \in Workers PROVE WorkerSound(w) /\ Employed(w)
  <2>1. Quiet(w)
    BY <1>2 DEF Quiet, Told
  <2>2. ChildPhases(w)
    BY <1>2, <1>3 DEF ChildPhases, Waiting
  <2>3. kid[w].job = 0
    BY <1>2 DEF Waiting
  <2>4. WrapSound(w, <<kid[w].job, "result">>)
    BY <1>3, <1>8, <2>3
  <2>5. StraySound(w)
    BY <1>2, <1>3, <1>5 DEF StraySound, Own, Answered
  <2> QED
    BY <1>2, <2>1, <2>2, <2>4, <2>5 DEF WorkerSound, AnswerSound, Employed
<1> QED
  BY <1>1, <1>7, <1>9, <1>10 DEF CalmInv

LEMMA CalmStutter == CalmInv /\ UNCHANGED vars => CalmInv'
<1> SUFFICES ASSUME CalmInv, UNCHANGED vars PROVE CalmInv'
  OBVIOUS
<1>1. UNCHANGED <<slotState, slotOwner, content, stranded, idle, alive, inbox, outbox, control,
                  closed, mapped, pc, job, token, held, leases, reply, taken, wrap, kid>>
  BY DEF vars
<1>2. TalkInv'
  <2>1. TalkInv /\ [Next]_vars
    BY DEF CalmInv
  <2> QED
    BY <2>1, TalkNext
<1>3. \A S : SlotsSame(S)
  BY <1>1 DEF SlotsSame
<1>4. SlotsOwned'
  <2>1. \A p : Stake(p)' = Stake(p)
    BY <1>1, StakeSame
  <2> QED
    BY <1>1, <2>1, CalmFacts DEF SlotsOwned
<1>5. \A t \in Threads : ThreadSound(t)'
  BY <1>1, <1>3, ThreadSoundSame DEF CalmInv
<1>6. \A w \in Workers : WorkerSound(w)'
  BY <1>1, <1>3, CalmFacts, WorkerSoundSame DEF CalmInv
<1>7. \A w \in Workers : Employed(w)'
  BY <1>1, EmployedSame DEF Quiet, Told
<1> QED
  BY <1>1, <1>2, <1>4, <1>5, <1>6, <1>7 DEF CalmInv

\* What only a death, a failed copy or close() brings about.
LEMMA CalmNever ==
    ASSUME CalmInv
    PROVE  /\ ~Unmap
           /\ \A t \in Threads : /\ ~AcquireRefused(t) /\ ~SendBroken(t) /\ ~NoticeDeath(t)
                                 /\ ~NoticeClosed(t) /\ ~RetireKill(t) /\ ~RetireReclaim(t)
                                 /\ ~RetireRespawn(t) /\ ~RetireLoses(t) /\ ~TakeRaises(t)
           /\ \A w \in Workers : ~ChildStop(w) /\ ~CloseWorker(w)
<1>1. ~closed /\ mapped /\ \A w \in Workers : alive[w]
  BY CalmFacts
<1>2. \A t \in Threads : /\ pc[t] \notin {"retire", "reclaim", "respawn"}
                         /\ pc[t] \in {"wrap", "await"} => held[t] \in Workers
  BY CalmFacts DEF PlaceInv, HeldByPlace, Holding
<1>3. ASSUME NEW t \in Threads
      PROVE  /\ ~AcquireRefused(t) /\ ~SendBroken(t) /\ ~NoticeDeath(t) /\ ~NoticeClosed(t)
             /\ ~RetireKill(t) /\ ~RetireReclaim(t) /\ ~RetireRespawn(t) /\ ~RetireLoses(t)
  BY <1>1, <1>2 DEF AcquireRefused, SendBroken, Sending, Wrapped, Wrapping, NoticeDeath,
                    NoticeClosed,
     RetireKill, RetireReclaim, RetireRespawn, RetireLoses, At
<1>4. ASSUME NEW t \in Threads, TakeRaises(t) PROVE FALSE
  <2>1. pc[t] = "value" /\ Untaken(t) # <<>> /\ slotState[Head(Untaken(t))] # "ready"
    BY <1>1, <1>4 DEF TakeRaises, At
  <2>2. ReplySound(t, <<job[t], "result">>)
    BY DEF CalmInv, ThreadSound
  <2>3. reply[t] # <<>> /\ t \in Parties
    BY <2>1, CalmFacts DEF TypesInv, CallTypes, ReplyThere
  <2>4. Untaken(t) \in Seq(Slots)
    BY <2>3, CalmFacts, StakeSlots
  <2>5. Head(Untaken(t)) \in Unread(t)
    BY <2>1, <2>3, <2>4, ElemsOfTail DEF Unread
  <2> QED
    BY <2>1, <2>2, <2>5 DEF ReplySound, Intact
<1>5. ASSUME NEW w \in Workers PROVE ~ChildStop(w) /\ ~CloseWorker(w)
  <2>1. inbox[w] \in Seq(Messages) /\ \A i \in DOMAIN inbox[w] : inbox[w][i] # Stop
    BY CalmFacts DEF CalmInv, WorkerSound, ChildPhases
  <2>2. inbox[w] # <<>> => Head(inbox[w]) # Stop
    BY <2>1
  <2> QED
    BY <1>1, <2>2 DEF ChildStop, CloseWorker
<1>6. ~Unmap
  BY <1>1 DEF Unmap
<1> QED
  BY <1>3, <1>4, <1>5, <1>6

LEMMA CalmNext ==
    ASSUME CalmInv, [Next]_vars, ~Close, \A w \in Workers : ~Die(w)
    PROVE  CalmInv'
<1>1. TalkInv'
  BY TalkNext DEF CalmInv
<1>2. ASSUME NEW t \in Threads, RunStep(t) \/ Cancel(t) \/ PassCancel(t) PROVE CalmInv'
  <2>1. \A n : Acquire(t, n) => CalmInv'
    BY <1>1, CalmAcquire
  <2> QED
    BY <1>1, <1>2, <2>1, CalmNever, CalmStart, CalmSend, CalmUnpicklable, CalmMoves, CalmReceive,
       CalmReleaseLease, CalmTakeValue, CalmReleaseValue, CalmCancel DEF RunStep
<1>3. ASSUME NEW p \in Parties, WrapStep(p) PROVE CalmInv'
  BY <1>1, <1>3, CalmWrap
<1>4. ASSUME NEW w \in Workers, ChildStep(w) PROVE CalmInv'
  BY <1>1, <1>4, CalmNever, RequestsCanBeTaken, CalmChildReceive, CalmChildTake, CalmCompute,
     CalmWrapped, CalmAnswer DEF ChildStep
<1>5. ASSUME NEW w \in Workers, CloseWorker(w) PROVE CalmInv'
  BY <1>5, CalmNever
<1>6. CASE Unmap
  BY <1>6, CalmNever
<1>7. CASE UNCHANGED vars
  BY <1>7, CalmStutter
<1> QED
  BY <1>2, <1>3, <1>4, <1>5, <1>6, <1>7 DEF Next

\* Until a process dies or the pool is closed.
Calm == deaths = 0 /\ ~closed

CalmSoFar == TalkInv /\ deaths \in Nat /\ (Calm => CalmInv)

LEMMA CalmSoFarNext == CalmSoFar /\ [Next]_vars => CalmSoFar'
<1> SUFFICES ASSUME CalmSoFar, [Next]_vars PROVE CalmSoFar'
  OBVIOUS
<1>1. TalkInv'
  BY TalkNext DEF CalmSoFar
<1>2. /\ deaths \in Nat
      /\ \A w \in Workers : Die(w) => deaths' = deaths + 1
      /\ Close => closed'
  BY DEF CalmSoFar, Die, Close
<1>3. \/ UNCHANGED <<deaths, closed>>
      \/ Close /\ UNCHANGED deaths
      \/ \E w \in Workers : Die(w)
  <2>1. ASSUME NEW t \in Threads, RunStep(t) \/ Cancel(t) \/ PassCancel(t)
        PROVE  UNCHANGED <<deaths, closed>>
    BY <2>1 DEF RunStep, Cancel, PassCancel, StartRun, Acquire, AcquireRefused, Send,
                SendBroken,
       SendUnpicklable, Sending, LocalDone, Receive, NoticeDeath, NoticeClosed, RetireKill,
       RetireReclaim, RetireRespawn, RetireLoses, ReleaseLease, Leave, GiveBack, TakeValue,
       TakeRaises, ReleaseValue, Return, awaitFrame, respawnFrame, releasedFrame, valueFrame,
       countVars
  <2>2. ASSUME NEW p \in Parties, WrapStep(p) PROVE UNCHANGED <<deaths, closed>>
    BY <2>2 DEF WrapStep, WrapLease, WrapFallback, WrapOversize, WrapWrite, WrapPublish,
                WrapReject, WrapRaises,
       wrapFrame, countVars
  <2>3. ASSUME NEW w \in Workers, ChildStep(w) \/ CloseWorker(w) PROVE UNCHANGED <<deaths, closed>>
    BY <2>3 DEF ChildStep, ChildReceive, ChildStop, ChildTake, ChildTakeRaises, ChildCompute,
       ChildFails, ChildWrapped, ChildSend, CloseWorker, childFrame, countVars
  <2>4. Close => UNCHANGED deaths
    BY DEF Close, countVars
  <2>5. Unmap \/ UNCHANGED vars => UNCHANGED <<deaths, closed>>
    BY DEF Unmap, vars, countVars
  <2> QED
    BY <2>1, <2>2, <2>3, <2>4, <2>5 DEF Next
<1>4. deaths' \in Nat /\ (Calm' => Calm /\ ~Close /\ \A w \in Workers : ~Die(w))
  BY <1>2, <1>3 DEF Calm
<1>5. Calm' => CalmInv'
  BY <1>4, CalmNext DEF CalmSoFar
<1> QED
  BY <1>1, <1>4, <1>5 DEF CalmSoFar

LEMMA CalmAlways == Spec => []CalmSoFar
<1>1. Init => CalmSoFar
  BY TalkInit, CalmInit DEF Init, CalmSoFar
<1> QED
  BY <1>1, CalmSoFarNext, PTL DEF Spec

LEMMA CalmOneWriter == CalmInv => OneWriter
<1> SUFFICES ASSUME CalmInv, NEW p \in Parties, wrap[p].slot # NoSlot
             PROVE  /\ slotState[wrap[p].slot] = "leased"
                    /\ \A q \in Parties \ {p} : wrap[q].slot # wrap[p].slot
  BY DEF OneWriter
<1>1. \E tag : WrapSound(p, tag)
  <2>1. p \in Threads \/ p \in Workers
    BY DEF Parties
  <2> QED
    BY <2>1 DEF CalmInv, ThreadSound, WorkerSound
<1>2. wrap[p].slot \in Filling(p)
  BY DEF Filling
<1>3. slotState[wrap[p].slot] = "leased"
  BY <1>1, <1>2 DEF WrapSound
<1>4. ASSUME NEW q \in Parties \ {p}, wrap[q].slot = wrap[p].slot PROVE FALSE
  <2>1. wrap[p].slot \in Filling(q)
    BY <1>4 DEF Filling
  <2> QED
    BY <1>2, <2>1, CalmFacts DEF SlotsOwned, Stake
<1> QED
  BY <1>3, <1>4

LEMMA CalmDescriptors == CalmInv => DescriptorsIntact
<1> SUFFICES ASSUME CalmInv PROVE DescriptorsIntact
  OBVIOUS
<1>1. ASSUME NEW w \in Workers, NEW s \in Elems(kid[w].todo) \cup Elems(kid[w].view)
      PROVE  content[s] = <<kid[w].job, "request">>
  <2>1. kid[w].at # "recv"
    <3>1. kid[w].at = "recv" => kid[w].todo = <<>> /\ kid[w].view = <<>>
      BY DEF CalmInv, WorkerSound, ChildPhases
    <3> QED
      BY <1>1, <3>1, NoElements
  <2>2. PICK t \in Threads : kid[w].job = job[t] /\ RequestSound(t, w, <<job[t], "request">>)
    BY <2>1, ChildFacts
  <2> QED
    BY <1>1, <2>2 DEF RequestSound, Intact
<1>2. ASSUME NEW t \in Threads, reply[t] # <<>>
      PROVE  /\ \A s \in Elems(Untaken(t)) : slotState[s] = "ready"
             /\ \A s \in Elems(Untaken(t)) \cup Elems(taken[t]) : content[s] = <<job[t], "result">>
  <2>1. ReplySound(t, <<job[t], "result">>) /\ Unread(t) = Elems(Untaken(t))
    BY <1>2 DEF CalmInv, ThreadSound, Unread
  <2> QED
    BY <2>1 DEF ReplySound, Intact
<1> QED
  BY <1>1, <1>2 DEF DescriptorsIntact

LEMMA CalmSlots == CalmInv => NoSlotLost
<1> SUFFICES ASSUME CalmInv, \A t \in Threads : pc[t] = "out", NEW s \in Slots, slotState[s] # "free"
             PROVE  slotState[s] = "ready" /\ \E w \in Workers : s \in stranded[w] /\ slotOwner[s] = w + 1
  BY DEF NoSlotLost
<1>1. ASSUME NEW t \in Threads PROVE Stake(t) = {}
  <2>1. wrap[t] = Unwrapped(0) /\ leases[t] = <<>> /\ Unread(t) = {} /\ taken[t] = <<>>
    BY DEF CalmInv, ThreadSound, Phases
  <2>2. wrap[t].made = <<>> /\ wrap[t].slot = NoSlot
    BY <2>1 DEF Unwrapped
  <2> QED
    BY <2>1, <2>2, NoElements DEF Stake, Filling, Made, Asked
<1>2. ASSUME NEW w \in Workers PROVE Stake(w) = stranded[w] /\ StraySound(w)
  <2>1. Quiet(w) /\ WorkerSound(w) /\ w \notin Threads
    BY CalmFacts DEF CalmInv, Employed
  <2>2. wrap[w] = Unwrapped(0) /\ outbox[w] = <<>>
    BY <2>1 DEF Quiet, Waiting, WorkerSound, ChildPhases
  <2>3. wrap[w].made = <<>> /\ wrap[w].slot = NoSlot
    BY <2>2 DEF Unwrapped
  <2> QED
    BY <2>1, <2>2, <2>3, NoElements DEF Stake, Filling, Made, Answered, WorkerSound
<1>3. PICK p \in Parties : s \in Stake(p)
  BY CalmFacts DEF SlotsOwned
<1>4. p \in Workers /\ s \in stranded[p] /\ StraySound(p)
  BY <1>1, <1>2, <1>3 DEF Parties
<1> QED
  BY <1>4 DEF StraySound

\* "LEASED (exactly one writer)" (shm_slots.py:4), in every pool none of whose
\* processes has died yet and that is still open: however calls, cancellations,
\* answers and requests that do not pickle interleave, a slot that is being
\* filled is leased and nobody else fills it (lease, wrap_payload, _advance).
THEOREM OneWriterWhileCalm == Spec => [](Calm => OneWriter)
<1>1. CalmSoFar => (Calm => OneWriter)
  BY CalmOneWriter DEF CalmSoFar
<1> QED
  BY <1>1, CalmAlways, PTL

\* Until a process dies or the pool is closed, the bytes behind every descriptor
\* are those it was published with until it is read, and a result that has been
\* answered can be taken (shm_slots.py:5, process_backend.py:182).
THEOREM DescriptorsKeptWhileCalm == Spec => [](Calm => DescriptorsIntact)
<1>1. CalmSoFar => (Calm => DescriptorsIntact)
  BY CalmDescriptors DEF CalmSoFar
<1> QED
  BY <1>1, CalmAlways, PTL

\* Until a process dies or the pool is closed, a call that returns, with a value,
\* an error, a cancellation or a request computed in place, has freed every slot
\* it used, but for those its child published and left out of the answer: when
\* nobody is inside run(), only these are not free, and each is still marked as
\* its worker's, whose retirement frees it (finally, _value, _worker_main,
\* reclaim).
THEOREM SlotsComeBackWhileCalm == Spec => [](Calm => NoSlotLost)
<1>1. CalmSoFar => (Calm => NoSlotLost)
  BY CalmSlots DEF CalmSoFar
<1> QED
  BY <1>1, CalmAlways, PTL
=============================================================================
