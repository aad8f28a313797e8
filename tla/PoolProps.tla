----------------------------- MODULE PoolProps -----------------------------
(* What the compute pool promises: properties of ComputePool and the         *)
(* fairness under which calls return.                                        *)
EXTENDS ComputePool

Places == {"out", "acquire", "wrap", "await", "local", "retire", "reclaim", "respawn",
           "release", "value"}

\* A worker is in the idle queue once or held by one thread, never both and
\* never twice, whatever died, failed to pickle or was retired; and while the
\* pool is open and processes can be started, no worker is lost (run, _retire).
WorkerInOnePlace ==
    /\ \A i, k \in DOMAIN idle : idle[i] = idle[k] => i = k
    /\ \A t, u \in Threads : held[t] = held[u] /\ held[t] # NoWorker => t = u
    /\ \A t \in Threads : held[t] \notin Elems(idle)
    /\ closed \/ SpawnMayFail \/
          \A w \in Workers : w \in Elems(idle) \/ \E t \in Threads : held[t] = w

\* What worker w is told, works on, or has answered.
Conversation(w) ==
    {m.job : m \in Elems(inbox[w]) \ {Stop}} \cup {a.job : a \in Elems(outbox[w])}
    \cup IF kid[w].job = 0 THEN {} ELSE {kid[w].job}

\* Nobody gets the answer to somebody else's call: whatever is under way in a
\* worker belongs to the call of the thread that holds it, nothing is under way
\* in a worker that waits in the queue, and, though the cancellation byte is
\* shared by all calls a worker ever serves, a call comes back cancelled only if
\* its own token was (run, _await_reply, _retire, process_backend.py:263).
RepliesAreOwn ==
    /\ \A t \in Threads : held[t] # NoWorker => Conversation(held[t]) \subseteq {job[t]}
    /\ \A w \in Elems(idle) : Conversation(w) = {}
    /\ \A t \in Threads : reply[t] # <<>> =>
          /\ reply[t][1].job = job[t]
          /\ reply[t][1].kind = "cancelled" => token[t]

\* "LEASED (exactly one writer)" (shm_slots.py:4): who fills a slot has it
\* leased, and no other process or thread fills it meanwhile.
OneWriter ==
    \A p \in Parties :
        wrap[p].slot # NoSlot =>
            /\ slotState[wrap[p].slot] = "leased"
            /\ \A q \in Parties \ {p} : wrap[q].slot # wrap[p].slot

\* "A slot is immutable from READY until it is released" (shm_slots.py:5), and
\* "the slots are READY until the parent takes and releases them"
\* (process_backend.py:182): a child's request and a thread's result still have
\* the bytes they were published with when they are read, and a result the child
\* has answered with can be taken.
DescriptorsIntact ==
    /\ \A w \in Workers : \A s \in Elems(kid[w].todo) \cup Elems(kid[w].view) :
           content[s] = <<kid[w].job, "request">>
    /\ \A t \in Threads : reply[t] # <<>> /\ pc[t] \in {"release", "value"} =>
           /\ \A s \in Elems(Untaken(t)) : slotState[s] = "ready"
           /\ \A s \in Elems(Untaken(t)) \cup Elems(taken[t]) :
                 content[s] = <<job[t], "result">>

\* When nobody is inside run(), every slot is free again, whichever way the
\* calls ended (finally, reclaim, _value), but for those a child published,
\* named in no answer and let go (_replace_or_original, _worker_main): they are
\* still its own, and come back when it is retired.  A death breaks this
\* for payloads of several large arrays: the finally clause of the call whose
\* worker died frees slots reclaim has given to another call already, and the
\* take that finds one of them gone leaves the others as they are.
NoSlotLost ==
    (~closed /\ (deaths = 0 \/ MaxArrays <= 1) /\ \A t \in Threads : pc[t] = "out") =>
        \A s \in Slots : \/ slotState[s] = "free"
                        \/ /\ slotState[s] = "ready"
                           /\ \E w \in Workers : s \in stranded[w] /\ slotOwner[s] = w + 1

\* Threads and processes are scheduled, and entry functions end.
FairSpec ==
    /\ Spec
    /\ \A t \in Threads : WF_vars(RunStep(t))
    /\ \A p \in Parties : WF_vars(WrapStep(p))
    /\ \A w \in Workers : WF_vars(ChildStep(w))

\* A call that enters the pool leaves it, with a value or an exception: "the
\* backend never has a state in which work simply stops happening"
\* (process_backend.py:439), even when processes die and the pool closes.
CallsReturn == \A t \in Threads : pc[t] # "out" ~> pc[t] = "out"
=============================================================================
