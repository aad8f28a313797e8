--------------------------- MODULE DeliveryProps ---------------------------
(* What must be true of completion delivery.                                 *)
EXTENDS Delivery

\* Every variable has its type.
TypeOK ==
    /\ life \in [Events -> {"new", "owed", "queued", "told", "dropped"}]
    /\ queue \in [Consumers -> Seq(Events)]
    /\ hand \in [Consumers -> Events \cup {None}]
    /\ kernelLock \in Producers \cup {"nobody"}
    /\ telling \in Events \cup {None}
    /\ orderLock \in Consumers \cup {"nobody"}
    /\ gui \in GuiPlaces /\ owner \in OwnerPlaces
    /\ drained \in Nat /\ signals \in Nat /\ reconciles \in Nat
    /\ waiting \in Nat /\ checks \in Nat /\ passed \in Nat
    /\ timer \in BOOLEAN /\ wake \in BOOLEAN /\ stop \in BOOLEAN /\ closed \in BOOLEAN
    /\ batch \in BOOLEAN /\ turn \in BOOLEAN /\ stale \in BOOLEAN
    /\ waiters \subseteq Waiters

\* The GUI is in a drain and has not yet decided whether another must follow.
Draining == \/ gui \in {"pop", "note", "rearm"}
            \/ drained > 0 /\ gui \in {"want", "check", "body", "nest", "nested"}
OwnerServing == owner \in {"clear", "pop", "want", "check", "body", "turn", "yield"}

\* No lost wakeup: while completions lie in a queue, its consumer is at work
\* on it, was told, or is about to be told; until the window closes.
NobodySleepsOnWork ==
    ~stop =>
    /\ queue["gui"] # <<>> => Draining \/ signals > 0 \/ timer \/ telling \in Direct
    /\ queue["owner"] # <<>> => OwnerServing \/ wake \/ telling \in Routed

\* A dispatch whose reconciliation is still to come.
ReconcileOwed ==
    \/ reconciles > 0
    \/ drained > 0 /\ gui \in {"pop", "want", "check", "body", "nest", "nested", "note"}
    \/ batch /\ owner \in {"pop", "want", "check", "body", "turn", "yield", "hook"}

\* "A declined admission must always leave a wakeup armed" (qt_bridge.py:13)
\* and "the quiet edge is the guaranteed reconciliation point" (main.py:638):
\* after every dispatch, on either thread, the governor's decisions are
\* reapplied with nothing left queued, and no capacity waiter outlives the
\* work that it waited for.
QuietIsReconciled ==
    ~stop =>
    /\ stale => ReconcileOwed \/ queue["gui"] # <<>>
    /\ waiters # {} => Undispatched # {} \/ ReconcileOwed
                       \/ gui = "fire" \/ (gui = "rearm" /\ drained > 0)

\* Alternation (_yield_to_gui): an announced section sees the owner admitted
\* before it at most once, unless the owner has waited for it in vain.
TurnIsGiven == passed <= 1

\* The mailbox of a consumer is its queue, after the event in its hand.
held == [c \in Consumers |-> IF hand[c] = None THEN <<>> ELSE <<hand[c]>>]
boxOf == [c \in Consumers |-> held[c] \o queue[c]]
readOf == [e \in Events |-> CASE life[e] \in {"new", "owed"} -> "unposted"
                             [] life[e] = "queued" -> "posted"
                             [] life[e] = "told" -> "taken"
                             [] life[e] = "dropped" -> "discarded"]
Mail == INSTANCE Mailboxes WITH box <- boxOf, read <- readOf,
                                stopping <- IF stop THEN {"owner"} ELSE {}

\* Routing: each completion runs once, on the thread it belongs to, in the
\* order of delivery, or is dropped with others by an owner that stops.
ImplementsMailboxes == Mail!MailSpec

-----------------------------------------------------------------------------
(* Liveness.  Threads run, sections end, workers deliver what they owe, the  *)
(* event loop serves what is posted to it, and a thread that keeps asking    *)
(* for the order lock gets it.                                               *)

Fairness ==
    /\ WF_vars(GuiStep)
    /\ SF_vars(GuiRelease) /\ SF_vars(DrainStart)
    /\ WF_vars(OwnerStep) /\ SF_vars(OwnerAcquire)
    /\ \A p \in Producers : WF_vars(Tell(p) \/ Leave(p))
    /\ WF_vars(ProducerStep("worker"))

FairSpec == Spec /\ Fairness

\* Neither lock keeps a completion from its consumer: what is delivered is
\* dispatched, while the window is open.
EventuallyDispatched ==
    Undispatched # {} ~> Undispatched = {} \/ stop
=============================================================================
