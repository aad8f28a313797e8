--------------------------- MODULE DeliveryProofs ---------------------------
(* Theorems about completion delivery, for any tasks, routes, bounds of a    *)
(* drain and patience of the owner, and whatever the window's closing cuts   *)
(* short.                                                                    *)
EXTENDS DeliveryProps, SequenceTheorems, TLAPS

(* How the two threads' places go with what they hold: an announced section  *)
(* is counted, an event is in the hand from its pop to its dispatch, the     *)
(* counter of a drain is reset when it is over, and closing is one way.      *)
Places ==
    /\ waiting = IF gui \in {"want", "nest"} THEN 1 ELSE 0
    /\ hand["gui"] # None <=> (gui = "check" \/ (gui = "want" /\ drained > 0))
    /\ gui \in {"loop", "wakeup", "join", "closed"} => drained = 0
    /\ gui \in {"check", "note"} => drained > 0
    /\ stop <=> gui \in {"wakeup", "join", "closed"}
    /\ closed => stop
    /\ hand["owner"] # None <=> owner \in {"want", "check"}
    /\ owner \in {"drop", "gone"} => stop
    /\ turn => owner = "yield"

QueueTypes ==
    /\ life \in [Events -> {"new", "owed", "queued", "told", "dropped"}]
    /\ queue \in [Consumers -> Seq(Events)]
    /\ hand \in [Consumers -> Events \cup {None}]

Spots ==
    /\ kernelLock \in Producers \cup {"nobody"}
    /\ telling \in Events \cup {None}
    /\ orderLock \in Consumers \cup {"nobody"}
    /\ gui \in GuiPlaces /\ owner \in OwnerPlaces
    /\ waiters \subseteq Waiters

Counters ==
    /\ drained \in Nat /\ signals \in Nat /\ reconciles \in Nat
    /\ waiting \in Nat /\ checks \in Nat /\ passed \in Nat

Flags ==
    /\ timer \in BOOLEAN /\ wake \in BOOLEAN /\ stop \in BOOLEAN /\ closed \in BOOLEAN
    /\ batch \in BOOLEAN /\ turn \in BOOLEAN /\ stale \in BOOLEAN

PlainTypes == Spots /\ Counters /\ Flags

Inv == QueueTypes /\ PlainTypes /\ Places

LEMMA HeadOfQueue ==
    ASSUME QueueTypes, NEW c \in Consumers, queue[c] # <<>>
    PROVE  Head(queue[c]) \in Events /\ Tail(queue[c]) \in Seq(Events) /\ Head(queue[c]) # None
BY DeliveryAssumption DEF QueueTypes

LEMMA Homes == \A e \in Events : Home[e] \in Consumers
BY DEF Home, Consumers

LEMMA InvInit == Init => Inv
<1> SUFFICES ASSUME Init PROVE Inv
  OBVIOUS
<1>1. QueueTypes
  BY DEF Init, QueueTypes
<1>2. PlainTypes
  BY DEF Init, PlainTypes, Spots, Counters, Flags, GuiPlaces, OwnerPlaces
<1>3. Places
  BY DEF Init, Places, Consumers
<1> QED
  BY <1>1, <1>2, <1>3 DEF Inv

LEMMA SameQueues == QueueTypes /\ UNCHANGED queueVars => QueueTypes'
BY DEF QueueTypes, queueVars

LEMMA SameInv == Inv /\ UNCHANGED vars => Inv'
<1> SUFFICES ASSUME Inv, UNCHANGED vars PROVE Inv'
  OBVIOUS
<1>1. QueueTypes'
  BY SameQueues DEF Inv, vars
<1>2. PlainTypes'
  BY DEF Inv, PlainTypes, Spots, Counters, Flags, vars, lockVars, bridgeVars, ownerVars, turnVars
<1>3. Places'
  BY DEF Inv, Places, vars, queueVars, lockVars, bridgeVars, ownerVars, turnVars
<1> QED
  BY <1>1, <1>2, <1>3 DEF Inv

LEMMA DispatchTypes ==
    ASSUME QueueTypes, NEW c \in Consumers, hand[c] # None, Dispatch(c)
    PROVE  /\ QueueTypes' /\ queue' = queue /\ stale' = TRUE
           /\ hand'[c] = None /\ \A d \in Consumers \ {c} : hand'[d] = hand[d]
BY DEF Dispatch, QueueTypes

LEMMA DropTypes ==
    ASSUME QueueTypes, DropOne
    PROVE  QueueTypes' /\ hand' = hand /\ queue'["gui"] = queue["gui"]
<1>1. "owner" \in Consumers /\ queue["owner"] # <<>> /\ "gui" \in Consumers
  BY DEF DropOne, Consumers
<1>2. Head(queue["owner"]) \in Events /\ Tail(queue["owner"]) \in Seq(Events)
  BY <1>1, HeadOfQueue
<1> QED
  BY <1>1, <1>2 DEF DropOne, QueueTypes

(* An event goes from the head of its consumer's queue into its hand.        *)
LEMMA PopTypes ==
    ASSUME QueueTypes, NEW c \in Consumers, queue[c] # <<>>, life' = life,
           hand' = [hand EXCEPT ![c] = Head(queue[c])],
           queue' = [queue EXCEPT ![c] = Tail(@)]
    PROVE  /\ QueueTypes' /\ hand'[c] # None
           /\ \A d \in Consumers \ {c} : hand'[d] = hand[d] /\ queue'[d] = queue[d]
<1>1. Head(queue[c]) \in Events /\ Tail(queue[c]) \in Seq(Events) /\ Head(queue[c]) # None
  BY HeadOfQueue
<1> QED
  BY <1>1 DEF QueueTypes

LEMMA GuiKeeps == Inv /\ GuiStep => Inv'
<1> SUFFICES ASSUME Inv, GuiStep PROVE Inv'
  OBVIOUS
<1> USE DEF Inv, lockVars, bridgeVars, ownerVars, turnVars
<1>c. Consumers = {"gui", "owner"}
  BY DEF Consumers
<1>1. CASE DrainStart
  <2>1. QueueTypes'
    BY <1>1, SameQueues DEF DrainStart
  <2>2. PlainTypes'
    <3>1. Spots'
      BY <1>1 DEF DrainStart, PlainTypes, Spots, GuiPlaces
    <3>2. Counters'
      BY <1>1 DEF DrainStart, PlainTypes, Counters
    <3>3. Flags'
      BY <1>1 DEF DrainStart, PlainTypes, Flags
    <3> QED
      BY <3>1, <3>2, <3>3 DEF PlainTypes
  <2>3. Places'
    BY <1>1, <1>c DEF DrainStart, PlainTypes, Spots, Counters, Flags, Places, queueVars
  <2> QED
    BY <2>1, <2>2, <2>3
<1>2. CASE GuiAcquire
  <2>1. QueueTypes'
    BY <1>2, SameQueues DEF GuiAcquire
  <2>2. PlainTypes'
    BY <1>2, <1>c DEF GuiAcquire, GuiAdmitted, PlainTypes, Spots, Counters, Flags, Places, GuiPlaces
  <2>3. Places'
    BY <1>2, <1>c DEF GuiAcquire, GuiAdmitted, PlainTypes, Spots, Counters, Flags, Places, queueVars
  <2> QED
    BY <2>1, <2>2, <2>3
<1>3. CASE NestEnter
  <2>1. QueueTypes'
    BY <1>3, SameQueues DEF NestEnter
  <2>2. PlainTypes'
    BY <1>3, <1>c DEF NestEnter, GuiAdmitted, PlainTypes, Spots, Counters, Flags, Places, GuiPlaces
  <2>3. Places'
    BY <1>3, <1>c DEF NestEnter, GuiAdmitted, PlainTypes, Spots, Counters, Flags, Places, queueVars
  <2> QED
    BY <2>1, <2>2, <2>3
<1>4. CASE NestLeave
  <2>1. QueueTypes'
    BY <1>4, SameQueues DEF NestLeave
  <2>2. PlainTypes'
    BY <1>4, <1>c DEF NestLeave, PlainTypes, Spots, Counters, Flags, Places, GuiPlaces
  <2>3. Places'
    BY <1>4, <1>c DEF NestLeave, PlainTypes, Spots, Counters, Flags, Places, queueVars
  <2> QED
    BY <2>1, <2>2, <2>3
<1>5. CASE GuiRelease
  <2>1. QueueTypes'
    BY <1>5, SameQueues DEF GuiRelease
  <2>2. PlainTypes'
    BY <1>5, <1>c DEF GuiRelease, PlainTypes, Spots, Counters, Flags, Places, GuiPlaces
  <2>3. Places'
    BY <1>5, <1>c DEF GuiRelease, PlainTypes, Spots, Counters, Flags, Places, queueVars
  <2> QED
    BY <2>1, <2>2, <2>3
<1>6. CASE DrainNote
  <2>1. QueueTypes'
    BY <1>6, SameQueues DEF DrainNote
  <2>2. PlainTypes'
    BY <1>6, <1>c DEF DrainNote, Reapply, PlainTypes, Spots, Counters, Flags, Places, GuiPlaces
  <2>3. Places'
    BY <1>6, <1>c DEF DrainNote, Reapply, PlainTypes, Spots, Counters, Flags, Places, queueVars
  <2> QED
    BY <2>1, <2>2, <2>3
<1>7. CASE DrainRearm
  <2>1. QueueTypes'
    BY <1>7, SameQueues DEF DrainRearm
  <2>2. PlainTypes'
    <3>1. Spots'
      BY <1>7 DEF DrainRearm, PlainTypes, Spots, GuiPlaces
    <3>2. Counters'
      BY <1>7 DEF DrainRearm, PlainTypes, Counters
    <3>3. Flags'
      BY <1>7 DEF DrainRearm, PlainTypes, Flags
    <3> QED
      BY <3>1, <3>2, <3>3 DEF PlainTypes
  <2>3. Places'
    BY <1>7, <1>c DEF DrainRearm, PlainTypes, Spots, Counters, Flags, Places, queueVars
  <2> QED
    BY <2>1, <2>2, <2>3
<1>8. CASE Reconcile
  <2>1. QueueTypes'
    BY <1>8, SameQueues DEF Reconcile
  <2>2. PlainTypes'
    <3>1. Spots'
      BY <1>8 DEF Reconcile, Reapply, PlainTypes, Spots, GuiPlaces
    <3>2. Counters'
      BY <1>8 DEF Reconcile, Reapply, PlainTypes, Counters
    <3>3. Flags'
      BY <1>8 DEF Reconcile, Reapply, PlainTypes, Flags
    <3> QED
      BY <3>1, <3>2, <3>3 DEF PlainTypes
  <2>3. Places'
    BY <1>8, <1>c DEF Reconcile, Reapply, PlainTypes, Spots, Counters, Flags, Places, queueVars
  <2> QED
    BY <2>1, <2>2, <2>3
<1>9. CASE FireWaiters
  <2>1. QueueTypes'
    BY <1>9, SameQueues DEF FireWaiters
  <2>2. PlainTypes'
    BY <1>9, <1>c DEF FireWaiters, PlainTypes, Spots, Counters, Flags, Places, GuiPlaces
  <2>3. Places'
    BY <1>9, <1>c DEF FireWaiters, PlainTypes, Spots, Counters, Flags, Places, queueVars
  <2> QED
    BY <2>1, <2>2, <2>3
<1>10. CASE CloseWake
  <2>1. QueueTypes'
    BY <1>10, SameQueues DEF CloseWake
  <2>2. PlainTypes'
    BY <1>10, <1>c DEF CloseWake, PlainTypes, Spots, Counters, Flags, Places, GuiPlaces
  <2>3. Places'
    BY <1>10, <1>c DEF CloseWake, PlainTypes, Spots, Counters, Flags, Places, queueVars
  <2> QED
    BY <2>1, <2>2, <2>3
<1>11. CASE DrainPop
  <2>1. CASE drained < MaxEvents /\ queue["gui"] # <<>>
    <3>1. /\ QueueTypes' /\ hand'["gui"] # None
          /\ \A d \in Consumers \ {"gui"} : hand'[d] = hand[d] /\ queue'[d] = queue[d]
      BY <1>11, <2>1, <1>c, PopTypes DEF DrainPop
    <3>2. PlainTypes'
      BY <1>11, <2>1 DEF DrainPop, Announce, PlainTypes, Spots, Counters, Flags, GuiPlaces
    <3>3. hand'["owner"] = hand["owner"]
      BY <3>1, <1>c
    <3>4. Places'
      BY <1>11, <2>1, <3>1, <3>3 DEF DrainPop, Announce, PlainTypes, Spots, Counters, Flags, Places
    <3> QED
      BY <3>1, <3>2, <3>4
  <2>2. CASE ~(drained < MaxEvents /\ queue["gui"] # <<>>)
    <3>1. QueueTypes'
      BY <1>11, <2>2, SameQueues DEF DrainPop, queueVars
    <3>2. PlainTypes'
      BY <1>11, <2>2 DEF DrainPop, PlainTypes, Spots, Counters, Flags, GuiPlaces
    <3>3. Places'
      BY <1>11, <2>2 DEF DrainPop, PlainTypes, Spots, Counters, Flags, Places
    <3> QED
      BY <3>1, <3>2, <3>3
  <2> QED
    BY <2>1, <2>2
<1>12. CASE GuiDispatch
  <2>1. hand["gui"] # None /\ Dispatch("gui")
    BY <1>12 DEF GuiDispatch, Places
  <2>2. /\ QueueTypes' /\ queue' = queue /\ stale' = TRUE
        /\ hand'["gui"] = None /\ hand'["owner"] = hand["owner"]
    BY <2>1, <1>c, DispatchTypes
  <2>3. PlainTypes'
    BY <1>12, <2>2 DEF GuiDispatch, PlainTypes, Spots, Counters, Flags, GuiPlaces
  <2>4. Places'
    BY <1>12, <2>2 DEF GuiDispatch, PlainTypes, Spots, Counters, Flags, Places
  <2> QED
    BY <2>2, <2>3, <2>4
<1>13. CASE CloseJoin
  <2>1. CASE DropOne /\ UNCHANGED <<closed, timer, gui>>
    <3>1. QueueTypes' /\ hand' = hand
      BY <2>1, DropTypes
    <3>2. PlainTypes'
      BY <1>13, <2>1 DEF CloseJoin, PlainTypes, Spots, Counters, Flags
    <3>3. Places'
      BY <1>13, <2>1, <3>1 DEF CloseJoin, Places
    <3> QED
      BY <3>1, <3>2, <3>3
  <2>2. CASE closed' = TRUE /\ timer' = FALSE /\ gui' = "closed" /\ UNCHANGED queueVars
    <3>1. QueueTypes'
      BY <2>2, SameQueues
    <3>2. PlainTypes'
      BY <1>13, <2>2 DEF CloseJoin, PlainTypes, Spots, Counters, Flags, GuiPlaces
    <3>3. Places'
      BY <1>13, <2>2 DEF CloseJoin, Places, queueVars
    <3> QED
      BY <3>1, <3>2, <3>3
  <2> QED
    BY <1>13, <2>1, <2>2 DEF CloseJoin
<1> QED
  BY <1>1, <1>2, <1>3, <1>4, <1>5, <1>6, <1>7, <1>8, <1>9, <1>10, <1>11, <1>12, <1>13 DEF GuiStep

LEMMA OwnerKeeps == Inv /\ OwnerStep => Inv'
<1> SUFFICES ASSUME Inv, OwnerStep PROVE Inv'
  OBVIOUS
<1> USE DEF Inv, lockVars, bridgeVars, ownerVars, turnVars
<1>c. Consumers = {"gui", "owner"}
  BY DEF Consumers
<1>1. CASE OwnerWait
  <2>1. QueueTypes'
    BY <1>1, SameQueues DEF OwnerWait
  <2>2. PlainTypes'
    BY <1>1, <1>c DEF OwnerWait, PlainTypes, Spots, Counters, Flags, Places, OwnerPlaces
  <2>3. Places'
    BY <1>1, <1>c DEF OwnerWait, PlainTypes, Spots, Counters, Flags, Places, queueVars
  <2> QED
    BY <2>1, <2>2, <2>3
<1>2. CASE OwnerClear
  <2>1. QueueTypes'
    BY <1>2, SameQueues DEF OwnerClear
  <2>2. PlainTypes'
    BY <1>2, <1>c DEF OwnerClear, PlainTypes, Spots, Counters, Flags, Places, OwnerPlaces
  <2>3. Places'
    BY <1>2, <1>c DEF OwnerClear, PlainTypes, Spots, Counters, Flags, Places, queueVars
  <2> QED
    BY <2>1, <2>2, <2>3
<1>3. CASE OwnerAcquire
  <2>1. QueueTypes'
    BY <1>3, SameQueues DEF OwnerAcquire
  <2>2. PlainTypes'
    BY <1>3, <1>c DEF OwnerAcquire, PlainTypes, Spots, Counters, Flags, Places, OwnerPlaces
  <2>3. Places'
    BY <1>3, <1>c DEF OwnerAcquire, PlainTypes, Spots, Counters, Flags, Places, queueVars
  <2> QED
    BY <2>1, <2>2, <2>3
<1>4. CASE OwnerRelease
  <2>1. QueueTypes'
    BY <1>4, SameQueues DEF OwnerRelease
  <2>2. PlainTypes'
    BY <1>4, <1>c DEF OwnerRelease, PlainTypes, Spots, Counters, Flags, Places, OwnerPlaces
  <2>3. Places'
    BY <1>4, <1>c DEF OwnerRelease, PlainTypes, Spots, Counters, Flags, Places, queueVars
  <2> QED
    BY <2>1, <2>2, <2>3
<1>5. CASE OwnerTurn
  <2>1. QueueTypes'
    BY <1>5, SameQueues DEF OwnerTurn
  <2>2. PlainTypes'
    BY <1>5, <1>c DEF OwnerTurn, PlainTypes, Spots, Counters, Flags, Places, OwnerPlaces
  <2>3. Places'
    BY <1>5, <1>c DEF OwnerTurn, PlainTypes, Spots, Counters, Flags, Places, queueVars
  <2> QED
    BY <2>1, <2>2, <2>3
<1>6. CASE OwnerYield
  <2>1. QueueTypes'
    BY <1>6, SameQueues DEF OwnerYield
  <2>2. PlainTypes'
    <3>1. Spots'
      BY <1>6 DEF OwnerYield, PlainTypes, Spots, OwnerPlaces
    <3>2. Counters'
      BY <1>6 DEF OwnerYield, PlainTypes, Counters, StandAside
    <3>3. Flags'
      BY <1>6 DEF OwnerYield, PlainTypes, Flags
    <3> QED
      BY <3>1, <3>2, <3>3 DEF PlainTypes
  <2>3. Places'
    BY <1>6, <1>c DEF OwnerYield, PlainTypes, Spots, Counters, Flags, Places, queueVars
  <2> QED
    BY <2>1, <2>2, <2>3
<1>7. CASE OwnerHook
  <2>1. QueueTypes'
    BY <1>7, SameQueues DEF OwnerHook
  <2>2. PlainTypes'
    <3>1. Spots'
      BY <1>7 DEF OwnerHook, PlainTypes, Spots, OwnerPlaces
    <3>2. Counters'
      BY <1>7 DEF OwnerHook, PlainTypes, Counters
    <3>3. Flags'
      BY <1>7 DEF OwnerHook, PlainTypes, Flags
    <3> QED
      BY <3>1, <3>2, <3>3 DEF PlainTypes
  <2>3. Places'
    BY <1>7, <1>c DEF OwnerHook, PlainTypes, Spots, Counters, Flags, Places, queueVars
  <2> QED
    BY <2>1, <2>2, <2>3
<1>8. CASE OwnerPop
  <2>1. CASE ~stop /\ queue["owner"] # <<>>
    <3>1. /\ QueueTypes' /\ hand'["owner"] # None
          /\ \A d \in Consumers \ {"owner"} : hand'[d] = hand[d] /\ queue'[d] = queue[d]
      BY <1>8, <2>1, <1>c, PopTypes DEF OwnerPop
    <3>2. PlainTypes'
      BY <1>8, <2>1 DEF OwnerPop, PlainTypes, Spots, Counters, Flags, OwnerPlaces
    <3>3. hand'["gui"] = hand["gui"]
      BY <3>1, <1>c
    <3>4. Places'
      BY <1>8, <2>1, <3>1, <3>3 DEF OwnerPop, Places
    <3> QED
      BY <3>1, <3>2, <3>4
  <2>2. CASE ~(~stop /\ queue["owner"] # <<>>)
    <3>1. QueueTypes'
      BY <1>8, <2>2, SameQueues DEF OwnerPop, queueVars
    <3>2. PlainTypes'
      BY <1>8, <2>2 DEF OwnerPop, PlainTypes, Spots, Counters, Flags, OwnerPlaces
    <3>3. Places'
      BY <1>8, <2>2 DEF OwnerPop, Places
    <3> QED
      BY <3>1, <3>2, <3>3
  <2> QED
    BY <2>1, <2>2
<1>9. CASE OwnerDispatch
  <2>1. hand["owner"] # None /\ Dispatch("owner")
    BY <1>9 DEF OwnerDispatch, Places
  <2>2. /\ QueueTypes' /\ queue' = queue /\ stale' = TRUE
        /\ hand'["owner"] = None /\ hand'["gui"] = hand["gui"]
    BY <2>1, <1>c, DispatchTypes
  <2>3. PlainTypes'
    BY <1>9, <2>2 DEF OwnerDispatch, PlainTypes, Spots, Counters, Flags, OwnerPlaces
  <2>4. Places'
    BY <1>9, <2>2 DEF OwnerDispatch, Places
  <2> QED
    BY <2>2, <2>3, <2>4
<1>10. CASE OwnerExit
  <2>1. CASE DropOne /\ UNCHANGED owner
    <3>1. QueueTypes' /\ hand' = hand
      BY <2>1, DropTypes
    <3>2. PlainTypes'
      BY <1>10, <2>1 DEF OwnerExit, PlainTypes, Spots, Counters, Flags
    <3>3. Places'
      BY <1>10, <2>1, <3>1 DEF OwnerExit, Places
    <3> QED
      BY <3>1, <3>2, <3>3
  <2>2. CASE owner' = "gone" /\ UNCHANGED queueVars
    <3>1. QueueTypes'
      BY <2>2, SameQueues
    <3>2. PlainTypes'
      BY <1>10, <2>2 DEF OwnerExit, PlainTypes, Spots, Counters, Flags, OwnerPlaces
    <3>3. Places'
      BY <1>10, <2>2 DEF OwnerExit, Places, queueVars
    <3> QED
      BY <3>1, <3>2, <3>3
  <2> QED
    BY <1>10, <2>1, <2>2 DEF OwnerExit
<1> QED
  BY <1>1, <1>2, <1>3, <1>4, <1>5, <1>6, <1>7, <1>8, <1>9, <1>10 DEF OwnerStep

LEMMA OthersKeep ==
    ASSUME Inv,
           \/ SectionStart \/ NestAnnounce \/ CloseStart
           \/ \E w \in Waiters : Arm(w)
           \/ \E p \in Producers : ProducerStep(p) \/ \E e \in Events : Submit(p, e)
    PROVE  Inv'
<1> USE DEF Inv, lockVars, bridgeVars, ownerVars, turnVars
<1>1. CASE SectionStart
  <2>1. QueueTypes'
    BY <1>1, SameQueues DEF SectionStart
  <2>2. PlainTypes'
    BY <1>1 DEF SectionStart, Announce, PlainTypes, Spots, Counters, Flags, GuiPlaces, Live
  <2>3. Places'
    BY <1>1 DEF SectionStart, Announce, PlainTypes, Spots, Counters, Flags, Places, queueVars
  <2> QED
    BY <2>1, <2>2, <2>3
<1>2. CASE NestAnnounce
  <2>1. QueueTypes'
    BY <1>2, SameQueues DEF NestAnnounce
  <2>2. PlainTypes'
    BY <1>2 DEF NestAnnounce, Announce, PlainTypes, Spots, Counters, Flags, GuiPlaces, Live
  <2>3. Places'
    BY <1>2 DEF NestAnnounce, Announce, PlainTypes, Spots, Counters, Flags, Places, queueVars
  <2> QED
    BY <2>1, <2>2, <2>3
<1>3. CASE CloseStart
  <2>1. QueueTypes'
    BY <1>3, SameQueues DEF CloseStart
  <2>2. PlainTypes'
    BY <1>3 DEF CloseStart, PlainTypes, Spots, Counters, Flags, GuiPlaces, Live
  <2>3. Places'
    BY <1>3 DEF CloseStart, PlainTypes, Spots, Counters, Flags, Places, queueVars
  <2> QED
    BY <2>1, <2>2, <2>3
<1>4. ASSUME NEW w \in Waiters, Arm(w) PROVE Inv'
  <2>1. QueueTypes'
    <3>1. UNCHANGED queueVars
      BY <1>4 DEF Arm
    <3> QED
      BY <3>1, SameQueues
  <2>2. PlainTypes'
    BY <1>4 DEF Arm, PlainTypes, Spots, Counters, Flags, GuiPlaces, Live
  <2>3. Places'
    BY <1>4 DEF Arm, PlainTypes, Spots, Counters, Flags, Places, queueVars
  <2> QED
    BY <2>1, <2>2, <2>3
<1>5. ASSUME NEW p \in Producers, Tell(p) PROVE Inv'
  <2>1. QueueTypes'
    <3>1. UNCHANGED queueVars
      BY <1>5 DEF Tell
    <3> QED
      BY <3>1, SameQueues
  <2>2. PlainTypes'
    <3>1. Spots'
      BY <1>5 DEF Tell, PlainTypes, Spots
    <3>2. Counters'
      BY <1>5 DEF Tell, PlainTypes, Counters
    <3>3. Flags'
      BY <1>5 DEF Tell, PlainTypes, Flags
    <3> QED
      BY <3>1, <3>2, <3>3 DEF PlainTypes
  <2>3. Places'
    BY <1>5 DEF Tell, PlainTypes, Spots, Counters, Flags, Places, queueVars
  <2> QED
    BY <2>1, <2>2, <2>3
<1>6. ASSUME NEW p \in Producers, Leave(p) PROVE Inv'
  <2>1. QueueTypes'
    <3>1. UNCHANGED queueVars
      BY <1>6 DEF Leave
    <3> QED
      BY <3>1, SameQueues
  <2>2. PlainTypes'
    BY <1>6 DEF Leave, PlainTypes, Spots, Counters, Flags, GuiPlaces, Live
  <2>3. Places'
    BY <1>6 DEF Leave, PlainTypes, Spots, Counters, Flags, Places, queueVars
  <2> QED
    BY <2>1, <2>2, <2>3
<1>7. ASSUME NEW p \in Producers, NEW e \in Events, Put(p, e) PROVE Inv'
  <2>1. QueueTypes'
    BY <1>7, Homes DEF Put, QueueTypes
  <2>2. PlainTypes'
    BY <1>7 DEF Put, PlainTypes, Spots, Counters, Flags, GuiPlaces, Live
  <2>3. Places'
    BY <1>7 DEF Put, PlainTypes, Spots, Counters, Flags, Places, queueVars
  <2> QED
    BY <2>1, <2>2, <2>3
<1>8. ASSUME NEW p \in Producers, NEW e \in Events, Submit(p, e) PROVE Inv'
  <2>1. QueueTypes'
    BY <1>8, Homes DEF Submit, QueueTypes
  <2>2. PlainTypes'
    BY <1>8 DEF Submit, PlainTypes, Spots, Counters, Flags, GuiPlaces, Live
  <2>3. Places'
    BY <1>8 DEF Submit, PlainTypes, Spots, Counters, Flags, Places, queueVars
  <2> QED
    BY <2>1, <2>2, <2>3
<1> QED
  BY <1>1, <1>2, <1>3, <1>4, <1>5, <1>6, <1>7, <1>8 DEF ProducerStep

LEMMA InvStep == Inv /\ [Next]_vars => Inv'
BY GuiKeeps, OwnerKeeps, OthersKeep, SameInv DEF Next

LEMMA InvHolds == Spec => []Inv
BY InvInit, InvStep, PTL DEF Spec

(* The type invariant of delivery.                                           *)
THEOREM DeliveryTypes == Spec => []TypeOK
<1>1. Inv => TypeOK
  BY DEF Inv, QueueTypes, PlainTypes, Spots, Counters, Flags, TypeOK
<1> QED
  BY <1>1, InvHolds, PTL

-----------------------------------------------------------------------------
(* Wakeups.                                                                  *)
LEMMA WakeupStep == Inv /\ NobodySleepsOnWork /\ [Next]_vars => NobodySleepsOnWork'
<1> SUFFICES ASSUME Inv, NobodySleepsOnWork, [Next]_vars PROVE NobodySleepsOnWork'
  OBVIOUS
<1> USE DEF NobodySleepsOnWork, queueVars, lockVars, bridgeVars, ownerVars, turnVars
<1>c. QueueTypes /\ Spots /\ Counters /\ Flags /\ Places /\ Consumers = {"gui", "owner"}
  BY DEF Inv, PlainTypes, Consumers
<1>1. CASE DrainStart
  BY <1>1, <1>c DEF DrainStart, Draining, OwnerServing, Places, Counters, Flags
<1>2. CASE DrainPop
  <2>1. queue["owner"]' = queue["owner"]
    BY <1>2, <1>c DEF DrainPop, QueueTypes
  <2> QED
    BY <1>2, <2>1, <1>c DEF DrainPop, Announce, Draining, OwnerServing, Places, Counters, Flags
<1>3. CASE GuiAcquire
  BY <1>3, <1>c DEF GuiAcquire, GuiAdmitted, Draining, OwnerServing, Places, Counters, Flags
<1>4. CASE GuiDispatch
  BY <1>4, <1>c DEF GuiDispatch, Dispatch, Draining, OwnerServing, Places, Counters, Flags
<1>5. CASE NestEnter
  BY <1>5, <1>c DEF NestEnter, GuiAdmitted, Draining, OwnerServing, Places, Counters, Flags
<1>6. CASE NestLeave
  BY <1>6, <1>c DEF NestLeave, Draining, OwnerServing, Places, Counters, Flags
<1>7. CASE GuiRelease
  BY <1>7, <1>c DEF GuiRelease, Draining, OwnerServing, Places, Counters, Flags
<1>8. CASE DrainNote
  BY <1>8, <1>c DEF DrainNote, Reapply, Draining, OwnerServing, Places, Counters, Flags
<1>9. CASE DrainRearm
  BY <1>9, <1>c DEF DrainRearm, Draining, OwnerServing, Places, Counters, Flags
<1>10. CASE Reconcile
  BY <1>10, <1>c DEF Reconcile, Reapply, Draining, OwnerServing, Places, Counters, Flags
<1>11. CASE FireWaiters
  BY <1>11, <1>c DEF FireWaiters, Draining, OwnerServing, Places, Counters, Flags
<1>12. CASE CloseWake
  BY <1>12, <1>c DEF CloseWake, Draining, OwnerServing, Places, Counters, Flags
<1>13. CASE CloseJoin
  BY <1>13, <1>c DEF CloseJoin, DropOne, Draining, OwnerServing, Places, Counters, Flags
<1>14. CASE OwnerWait
  BY <1>14, <1>c DEF OwnerWait, Draining, OwnerServing, Places, Counters, Flags
<1>15. CASE OwnerClear
  BY <1>15, <1>c DEF OwnerClear, Draining, OwnerServing, Places, Counters, Flags
<1>16. CASE OwnerPop
  <2>1. queue["gui"]' = queue["gui"]
    BY <1>16, <1>c DEF OwnerPop, QueueTypes
  <2> QED
    BY <1>16, <2>1, <1>c DEF OwnerPop, Draining, OwnerServing, Places, Counters, Flags
<1>17. CASE OwnerAcquire
  BY <1>17, <1>c DEF OwnerAcquire, Draining, OwnerServing, Places, Counters, Flags
<1>18. CASE OwnerDispatch
  BY <1>18, <1>c DEF OwnerDispatch, Dispatch, Draining, OwnerServing, Places, Counters, Flags
<1>19. CASE OwnerRelease
  BY <1>19, <1>c DEF OwnerRelease, Draining, OwnerServing, Places, Counters, Flags
<1>20. CASE OwnerTurn
  BY <1>20, <1>c DEF OwnerTurn, Draining, OwnerServing, Places, Counters, Flags
<1>21. CASE OwnerYield
  BY <1>21, <1>c DEF OwnerYield, StandAside, Draining, OwnerServing, Places, Counters, Flags
<1>22. CASE OwnerHook
  BY <1>22, <1>c DEF OwnerHook, Draining, OwnerServing, Places, Counters, Flags
<1>23. CASE OwnerExit
  BY <1>23, <1>c DEF OwnerExit, DropOne, Draining, OwnerServing, Places, Counters, Flags
<1>24. CASE SectionStart
  BY <1>24, <1>c DEF SectionStart, Announce, Draining, OwnerServing, Places, Counters, Flags
<1>25. CASE NestAnnounce
  BY <1>25, <1>c DEF NestAnnounce, Announce, Draining, OwnerServing, Places, Counters, Flags
<1>26. CASE CloseStart
  BY <1>26, <1>c DEF CloseStart, Draining, OwnerServing, Places, Counters, Flags
<1>27. ASSUME NEW w \in Waiters, Arm(w) PROVE NobodySleepsOnWork'
  BY <1>27, <1>c DEF Arm, Draining, OwnerServing, Places, Counters, Flags
<1>28. ASSUME NEW p \in Producers, Tell(p) PROVE NobodySleepsOnWork'
  <2>1. telling \in Routed \/ telling \in Direct
    BY <1>28, <1>c DEF Tell, Direct, Spots
  <2>2. telling \in Direct => signals' > 0 \/ stop
    BY <1>28, <1>c DEF Tell, Direct, Counters, Places
  <2>3. telling \in Routed => wake'
    BY <1>28 DEF Tell
  <2>4. UNCHANGED <<queue, drained, gui, owner, stop, timer>> /\ (signals > 0 => signals' > 0)
          /\ (wake => wake')
    BY <1>28, <1>c DEF Tell, Counters
  <2> QED
    BY <2>1, <2>2, <2>3, <2>4, <1>c DEF Draining, OwnerServing
<1>29. ASSUME NEW p \in Producers, Leave(p) PROVE NobodySleepsOnWork'
  BY <1>29, <1>c DEF Leave, Draining, OwnerServing, Places, Counters, Flags
<1>30. ASSUME NEW p \in Producers, NEW e \in Events, Put(p, e) PROVE NobodySleepsOnWork'
  <2>1. telling' = e /\ e \in Events /\ telling = None
    BY <1>30 DEF Put
  <2>2. queue' = [queue EXCEPT ![Home[e]] = Append(queue[Home[e]], e)] /\ UNCHANGED <<drained, gui, owner, stop, timer, signals, wake>>
    BY <1>30 DEF Put
  <2>3. e \in Routed => queue'["gui"] = queue["gui"]
    BY <2>1, <2>2, <1>c DEF Home, QueueTypes
  <2>4. e \notin Routed => queue'["owner"] = queue["owner"] /\ e \in Direct
    BY <2>1, <2>2, <1>c DEF Home, Direct, QueueTypes
  <2>5. telling \notin Routed /\ telling \notin Direct
    BY <2>1, DeliveryAssumption DEF Direct
  <2> QED
    BY <2>1, <2>2, <2>3, <2>4, <2>5, <1>c DEF Draining, OwnerServing
<1>31. ASSUME NEW p \in Producers, NEW e \in Events, Submit(p, e) PROVE NobodySleepsOnWork'
  BY <1>31, <1>c DEF Submit, Draining, OwnerServing, Places, Counters, Flags
<1>32. CASE UNCHANGED vars
  BY <1>32 DEF vars, Draining, OwnerServing, Places, Counters, Flags
<1> QED
  BY <1>1, <1>2, <1>3, <1>4, <1>5, <1>6, <1>7, <1>8, <1>9, <1>10, <1>11, <1>12, <1>13, <1>14, <1>15, <1>16, <1>17, <1>18, <1>19, <1>20, <1>21, <1>22, <1>23, <1>24, <1>25, <1>26, <1>27, <1>28, <1>29, <1>30, <1>31, <1>32
  DEF Next, GuiStep, OwnerStep, ProducerStep

(* No completion is ever left in a queue whose consumer sleeps untold, until *)
(* the window closes.                                                        *)
THEOREM NoLostCompletion == Spec => []NobodySleepsOnWork
<1>1. Init => NobodySleepsOnWork
  BY DEF Init, NobodySleepsOnWork, Consumers
<1> QED
  BY <1>1, InvInit, InvStep, WakeupStep, PTL DEF Spec

-----------------------------------------------------------------------------
(* Turns: what makes TurnIsGiven inductive.  The owner was admitted before a *)
(* waiting section only while it has not yet passed its next stand-aside.    *)
Alternates ==
    /\ passed \in {0, 1}
    /\ passed = 1 => /\ gui = "want"
                     /\ owner \in {"check", "body", "turn", "yield"}
                     /\ ~turn

LEMMA TurnStep == Inv /\ Alternates /\ [Next]_vars => Alternates'
<1> SUFFICES ASSUME Inv, Alternates, [Next]_vars PROVE Alternates'
  OBVIOUS
<1> USE DEF Alternates, queueVars, lockVars, bridgeVars, ownerVars, turnVars
<1>c. QueueTypes /\ Spots /\ Counters /\ Flags /\ Places /\ Consumers = {"gui", "owner"}
  BY DEF Inv, PlainTypes, Consumers
<1>1. CASE DrainStart
  BY <1>1, <1>c DEF DrainStart, Places, Counters
<1>2. CASE DrainPop
  BY <1>2, <1>c DEF DrainPop, Announce, Places, Counters
<1>3. CASE GuiAcquire
  BY <1>3, <1>c DEF GuiAcquire, GuiAdmitted, Places, Counters
<1>4. CASE GuiDispatch
  BY <1>4, <1>c DEF GuiDispatch, Dispatch, Places, Counters
<1>5. CASE NestEnter
  BY <1>5, <1>c DEF NestEnter, GuiAdmitted, Places, Counters
<1>6. CASE NestLeave
  BY <1>6, <1>c DEF NestLeave, Places, Counters
<1>7. CASE GuiRelease
  BY <1>7, <1>c DEF GuiRelease, Places, Counters
<1>8. CASE DrainNote
  BY <1>8, <1>c DEF DrainNote, Reapply, Places, Counters
<1>9. CASE DrainRearm
  BY <1>9, <1>c DEF DrainRearm, Places, Counters
<1>10. CASE Reconcile
  BY <1>10, <1>c DEF Reconcile, Reapply, Places, Counters
<1>11. CASE FireWaiters
  BY <1>11, <1>c DEF FireWaiters, Places, Counters
<1>12. CASE CloseWake
  BY <1>12, <1>c DEF CloseWake, Places, Counters
<1>13. CASE CloseJoin
  BY <1>13, <1>c DEF CloseJoin, DropOne, Places, Counters
<1>14. CASE OwnerWait
  BY <1>14, <1>c DEF OwnerWait, Places, Counters
<1>15. CASE OwnerClear
  BY <1>15, <1>c DEF OwnerClear, Places, Counters
<1>16. CASE OwnerPop
  BY <1>16, <1>c DEF OwnerPop, Places, Counters
<1>17. CASE OwnerAcquire
  BY <1>17, <1>c DEF OwnerAcquire, Places, Counters
<1>18. CASE OwnerDispatch
  BY <1>18, <1>c DEF OwnerDispatch, Dispatch, Places, Counters
<1>19. CASE OwnerRelease
  BY <1>19, <1>c DEF OwnerRelease, Places, Counters
<1>20. CASE OwnerTurn
  BY <1>20, <1>c DEF OwnerTurn, Places, Counters
<1>21. CASE OwnerYield
  BY <1>21, <1>c DEF OwnerYield, StandAside, Places, Counters
<1>22. CASE OwnerHook
  BY <1>22, <1>c DEF OwnerHook, Places, Counters
<1>23. CASE OwnerExit
  BY <1>23, <1>c DEF OwnerExit, DropOne, Places, Counters
<1>24. CASE SectionStart
  BY <1>24, <1>c DEF SectionStart, Announce, Places, Counters
<1>25. CASE NestAnnounce
  BY <1>25, <1>c DEF NestAnnounce, Announce, Places, Counters
<1>26. CASE CloseStart
  BY <1>26, <1>c DEF CloseStart, Places, Counters
<1>27. ASSUME NEW w \in Waiters, Arm(w) PROVE Alternates'
  BY <1>27, <1>c DEF Arm, Places, Counters
<1>28. ASSUME NEW p \in Producers, Tell(p) PROVE Alternates'
  BY <1>28, <1>c DEF Tell, Places, Counters
<1>29. ASSUME NEW p \in Producers, Leave(p) PROVE Alternates'
  BY <1>29, <1>c DEF Leave, Places, Counters
<1>30. ASSUME NEW p \in Producers, NEW e \in Events, Put(p, e) PROVE Alternates'
  BY <1>30, <1>c DEF Put, Places, Counters
<1>31. ASSUME NEW p \in Producers, NEW e \in Events, Submit(p, e) PROVE Alternates'
  BY <1>31, <1>c DEF Submit, Places, Counters
<1>32. CASE UNCHANGED vars
  BY <1>32 DEF vars, Places, Counters
<1> QED
  BY <1>1, <1>2, <1>3, <1>4, <1>5, <1>6, <1>7, <1>8, <1>9, <1>10, <1>11, <1>12, <1>13, <1>14, <1>15, <1>16, <1>17, <1>18, <1>19, <1>20, <1>21, <1>22, <1>23, <1>24, <1>25, <1>26, <1>27, <1>28, <1>29, <1>30, <1>31, <1>32
  DEF Next, GuiStep, OwnerStep, ProducerStep

(* An announced section is overtaken at most once, for any patience.         *)
THEOREM TurnsHold == Spec => []TurnIsGiven
<1>1. Init => Alternates
  BY DEF Init, Alternates
<1>2. Alternates => TurnIsGiven
  BY DEF Alternates, TurnIsGiven
<1> QED
  BY <1>1, <1>2, InvInit, InvStep, TurnStep, PTL DEF Spec

-----------------------------------------------------------------------------
(* Reconciliation, for the governor's decisions and for capacity waiters.    *)
StaleOwed == ~stop => (stale => ReconcileOwed \/ queue["gui"] # <<>>)

WaitersOwed ==
    ~stop => (waiters # {} => \/ Undispatched # {} \/ ReconcileOwed
                             \/ gui = "fire" \/ (gui = "rearm" /\ drained > 0))

LEMMA StaleStep == Inv /\ StaleOwed /\ [Next]_vars => StaleOwed'
<1> SUFFICES ASSUME Inv, StaleOwed, [Next]_vars PROVE StaleOwed'
  OBVIOUS
<1> USE DEF StaleOwed, queueVars, lockVars, bridgeVars, ownerVars, turnVars
<1>c. QueueTypes /\ Spots /\ Counters /\ Flags /\ Places /\ Consumers = {"gui", "owner"}
  BY DEF Inv, PlainTypes, Consumers
<1>1. CASE DrainStart
  BY <1>1, <1>c DEF DrainStart, ReconcileOwed, Places, Counters, Flags
<1>2. CASE DrainPop
  BY <1>2, <1>c DEF DrainPop, Announce, ReconcileOwed, Places, Counters, Flags
<1>3. CASE GuiAcquire
  BY <1>3, <1>c DEF GuiAcquire, GuiAdmitted, ReconcileOwed, Places, Counters, Flags
<1>4. CASE GuiDispatch
  BY <1>4, <1>c DEF GuiDispatch, Dispatch, ReconcileOwed, Places, Counters, Flags
<1>5. CASE NestEnter
  BY <1>5, <1>c DEF NestEnter, GuiAdmitted, ReconcileOwed, Places, Counters, Flags
<1>6. CASE NestLeave
  BY <1>6, <1>c DEF NestLeave, ReconcileOwed, Places, Counters, Flags
<1>7. CASE GuiRelease
  BY <1>7, <1>c DEF GuiRelease, ReconcileOwed, Places, Counters, Flags
<1>8. CASE DrainNote
  BY <1>8, <1>c DEF DrainNote, Reapply, ReconcileOwed, Places, Counters, Flags
<1>9. CASE DrainRearm
  BY <1>9, <1>c DEF DrainRearm, ReconcileOwed, Places, Counters, Flags
<1>10. CASE Reconcile
  BY <1>10, <1>c DEF Reconcile, Reapply, ReconcileOwed, Places, Counters, Flags
<1>11. CASE FireWaiters
  BY <1>11, <1>c DEF FireWaiters, ReconcileOwed, Places, Counters, Flags
<1>12. CASE CloseWake
  BY <1>12, <1>c DEF CloseWake, ReconcileOwed, Places, Counters, Flags
<1>13. CASE CloseJoin
  BY <1>13, <1>c DEF CloseJoin, DropOne, ReconcileOwed, Places, Counters, Flags
<1>14. CASE OwnerWait
  BY <1>14, <1>c DEF OwnerWait, ReconcileOwed, Places, Counters, Flags
<1>15. CASE OwnerClear
  BY <1>15, <1>c DEF OwnerClear, ReconcileOwed, Places, Counters, Flags
<1>16. CASE OwnerPop
  <2>1. queue["gui"]' = queue["gui"]
    BY <1>16, <1>c DEF OwnerPop, QueueTypes
  <2> QED
    BY <1>16, <2>1, <1>c DEF OwnerPop, ReconcileOwed, Places, Counters, Flags
<1>17. CASE OwnerAcquire
  BY <1>17, <1>c DEF OwnerAcquire, ReconcileOwed, Places, Counters, Flags
<1>18. CASE OwnerDispatch
  BY <1>18, <1>c DEF OwnerDispatch, Dispatch, ReconcileOwed, Places, Counters, Flags
<1>19. CASE OwnerRelease
  BY <1>19, <1>c DEF OwnerRelease, ReconcileOwed, Places, Counters, Flags
<1>20. CASE OwnerTurn
  BY <1>20, <1>c DEF OwnerTurn, ReconcileOwed, Places, Counters, Flags
<1>21. CASE OwnerYield
  BY <1>21, <1>c DEF OwnerYield, StandAside, ReconcileOwed, Places, Counters, Flags
<1>22. CASE OwnerHook
  BY <1>22, <1>c DEF OwnerHook, ReconcileOwed, Places, Counters, Flags
<1>23. CASE OwnerExit
  BY <1>23, <1>c DEF OwnerExit, DropOne, ReconcileOwed, Places, Counters, Flags
<1>24. CASE SectionStart
  BY <1>24, <1>c DEF SectionStart, Announce, ReconcileOwed, Places, Counters, Flags
<1>25. CASE NestAnnounce
  BY <1>25, <1>c DEF NestAnnounce, Announce, ReconcileOwed, Places, Counters, Flags
<1>26. CASE CloseStart
  BY <1>26, <1>c DEF CloseStart, ReconcileOwed, Places, Counters, Flags
<1>27. ASSUME NEW w \in Waiters, Arm(w) PROVE StaleOwed'
  BY <1>27, <1>c DEF Arm, ReconcileOwed, Places, Counters, Flags
<1>28. ASSUME NEW p \in Producers, Tell(p) PROVE StaleOwed'
  BY <1>28, <1>c DEF Tell, ReconcileOwed, Places, Counters, Flags
<1>29. ASSUME NEW p \in Producers, Leave(p) PROVE StaleOwed'
  BY <1>29, <1>c DEF Leave, ReconcileOwed, Places, Counters, Flags
<1>30. ASSUME NEW p \in Producers, NEW e \in Events, Put(p, e) PROVE StaleOwed'
  <2>1. queue["gui"] # <<>> => queue'["gui"] # <<>>
    <3>1. queue' = [queue EXCEPT ![Home[e]] = Append(queue[Home[e]], e)] /\ Home[e] \in Consumers
      BY <1>30, Homes DEF Put
    <3>2. Append(queue[Home[e]], e) # <<>>
      BY <3>1, <1>c DEF QueueTypes
    <3> QED
      BY <3>1, <3>2, <1>c DEF QueueTypes
  <2>2. UNCHANGED <<stop, stale, reconciles, drained, gui, owner, batch>>
    BY <1>30 DEF Put
  <2> QED
    BY <2>1, <2>2 DEF ReconcileOwed
<1>31. ASSUME NEW p \in Producers, NEW e \in Events, Submit(p, e) PROVE StaleOwed'
  BY <1>31, <1>c DEF Submit, ReconcileOwed, Places, Counters, Flags
<1>32. CASE UNCHANGED vars
  BY <1>32 DEF vars, ReconcileOwed, Places, Counters, Flags
<1> QED
  BY <1>1, <1>2, <1>3, <1>4, <1>5, <1>6, <1>7, <1>8, <1>9, <1>10, <1>11, <1>12, <1>13, <1>14, <1>15, <1>16, <1>17, <1>18, <1>19, <1>20, <1>21, <1>22, <1>23, <1>24, <1>25, <1>26, <1>27, <1>28, <1>29, <1>30, <1>31, <1>32
  DEF Next, GuiStep, OwnerStep, ProducerStep

LEMMA WaitersStep == Inv /\ WaitersOwed /\ [Next]_vars => WaitersOwed'
<1> SUFFICES ASSUME Inv, WaitersOwed, [Next]_vars PROVE WaitersOwed'
  OBVIOUS
<1> USE DEF WaitersOwed, queueVars, lockVars, bridgeVars, ownerVars, turnVars
<1>c. QueueTypes /\ Spots /\ Counters /\ Flags /\ Places /\ Consumers = {"gui", "owner"}
  BY DEF Inv, PlainTypes, Consumers
<1>1. CASE DrainStart
  <2>1. Undispatched' = Undispatched
    BY <1>1 DEF DrainStart, Undispatched
  <2> QED
    BY <1>1, <2>1, <1>c DEF DrainStart, ReconcileOwed, Places, Counters, Flags
<1>2. CASE DrainPop
  <2>1. Undispatched' = Undispatched
    BY <1>2 DEF DrainPop, Undispatched
  <2> QED
    BY <1>2, <2>1, <1>c DEF DrainPop, Announce, ReconcileOwed, Places, Counters, Flags
<1>3. CASE GuiAcquire
  <2>1. Undispatched' = Undispatched
    BY <1>3 DEF GuiAcquire, Undispatched
  <2> QED
    BY <1>3, <2>1, <1>c DEF GuiAcquire, GuiAdmitted, ReconcileOwed, Places, Counters, Flags
<1>4. CASE GuiDispatch
  BY <1>4, <1>c DEF GuiDispatch, Dispatch, ReconcileOwed, Places, Counters, Flags
<1>5. CASE NestEnter
  <2>1. Undispatched' = Undispatched
    BY <1>5 DEF NestEnter, Undispatched
  <2> QED
    BY <1>5, <2>1, <1>c DEF NestEnter, GuiAdmitted, ReconcileOwed, Places, Counters, Flags
<1>6. CASE NestLeave
  <2>1. Undispatched' = Undispatched
    BY <1>6 DEF NestLeave, Undispatched
  <2> QED
    BY <1>6, <2>1, <1>c DEF NestLeave, ReconcileOwed, Places, Counters, Flags
<1>7. CASE GuiRelease
  <2>1. Undispatched' = Undispatched
    BY <1>7 DEF GuiRelease, Undispatched
  <2> QED
    BY <1>7, <2>1, <1>c DEF GuiRelease, ReconcileOwed, Places, Counters, Flags
<1>8. CASE DrainNote
  <2>1. Undispatched' = Undispatched
    BY <1>8 DEF DrainNote, Undispatched
  <2> QED
    BY <1>8, <2>1, <1>c DEF DrainNote, Reapply, ReconcileOwed, Places, Counters, Flags
<1>9. CASE DrainRearm
  <2>1. Undispatched' = Undispatched
    BY <1>9 DEF DrainRearm, Undispatched
  <2> QED
    BY <1>9, <2>1, <1>c DEF DrainRearm, ReconcileOwed, Places, Counters, Flags
<1>10. CASE Reconcile
  <2>1. Undispatched' = Undispatched
    BY <1>10 DEF Reconcile, Undispatched
  <2> QED
    BY <1>10, <2>1, <1>c DEF Reconcile, Reapply, ReconcileOwed, Places, Counters, Flags
<1>11. CASE FireWaiters
  <2>1. Undispatched' = Undispatched
    BY <1>11 DEF FireWaiters, Undispatched
  <2> QED
    BY <1>11, <2>1, <1>c DEF FireWaiters, ReconcileOwed, Places, Counters, Flags
<1>12. CASE CloseWake
  <2>1. Undispatched' = Undispatched
    BY <1>12 DEF CloseWake, Undispatched
  <2> QED
    BY <1>12, <2>1, <1>c DEF CloseWake, ReconcileOwed, Places, Counters, Flags
<1>13. CASE CloseJoin
  BY <1>13, <1>c DEF CloseJoin, DropOne, ReconcileOwed, Places, Counters, Flags
<1>14. CASE OwnerWait
  <2>1. Undispatched' = Undispatched
    BY <1>14 DEF OwnerWait, Undispatched
  <2> QED
    BY <1>14, <2>1, <1>c DEF OwnerWait, ReconcileOwed, Places, Counters, Flags
<1>15. CASE OwnerClear
  <2>1. Undispatched' = Undispatched
    BY <1>15 DEF OwnerClear, Undispatched
  <2> QED
    BY <1>15, <2>1, <1>c DEF OwnerClear, ReconcileOwed, Places, Counters, Flags
<1>16. CASE OwnerPop
  <2>1. Undispatched' = Undispatched
    BY <1>16 DEF OwnerPop, Undispatched
  <2> QED
    BY <1>16, <2>1, <1>c DEF OwnerPop, ReconcileOwed, Places, Counters, Flags
<1>17. CASE OwnerAcquire
  <2>1. Undispatched' = Undispatched
    BY <1>17 DEF OwnerAcquire, Undispatched
  <2> QED
    BY <1>17, <2>1, <1>c DEF OwnerAcquire, ReconcileOwed, Places, Counters, Flags
<1>18. CASE OwnerDispatch
  BY <1>18, <1>c DEF OwnerDispatch, Dispatch, ReconcileOwed, Places, Counters, Flags
<1>19. CASE OwnerRelease
  <2>1. Undispatched' = Undispatched
    BY <1>19 DEF OwnerRelease, Undispatched
  <2> QED
    BY <1>19, <2>1, <1>c DEF OwnerRelease, ReconcileOwed, Places, Counters, Flags
<1>20. CASE OwnerTurn
  <2>1. Undispatched' = Undispatched
    BY <1>20 DEF OwnerTurn, Undispatched
  <2> QED
    BY <1>20, <2>1, <1>c DEF OwnerTurn, ReconcileOwed, Places, Counters, Flags
<1>21. CASE OwnerYield
  <2>1. Undispatched' = Undispatched
    BY <1>21 DEF OwnerYield, Undispatched
  <2> QED
    BY <1>21, <2>1, <1>c DEF OwnerYield, StandAside, ReconcileOwed, Places, Counters, Flags
<1>22. CASE OwnerHook
  <2>1. Undispatched' = Undispatched
    BY <1>22 DEF OwnerHook, Undispatched
  <2> QED
    BY <1>22, <2>1, <1>c DEF OwnerHook, ReconcileOwed, Places, Counters, Flags
<1>23. CASE OwnerExit
  BY <1>23, <1>c DEF OwnerExit, DropOne, ReconcileOwed, Places, Counters, Flags
<1>24. CASE SectionStart
  <2>1. Undispatched' = Undispatched
    BY <1>24 DEF SectionStart, Undispatched
  <2> QED
    BY <1>24, <2>1, <1>c DEF SectionStart, Announce, ReconcileOwed, Places, Counters, Flags
<1>25. CASE NestAnnounce
  <2>1. Undispatched' = Undispatched
    BY <1>25 DEF NestAnnounce, Undispatched
  <2> QED
    BY <1>25, <2>1, <1>c DEF NestAnnounce, Announce, ReconcileOwed, Places, Counters, Flags
<1>26. CASE CloseStart
  <2>1. Undispatched' = Undispatched
    BY <1>26 DEF CloseStart, Undispatched
  <2> QED
    BY <1>26, <2>1, <1>c DEF CloseStart, ReconcileOwed, Places, Counters, Flags
<1>27. ASSUME NEW w \in Waiters, Arm(w) PROVE WaitersOwed'
  BY <1>27, <1>c DEF Arm, Undispatched, ReconcileOwed, Places, Counters, Flags
<1>28. ASSUME NEW p \in Producers, Tell(p) PROVE WaitersOwed'
  <2>1. Undispatched' = Undispatched
    BY <1>28 DEF Tell, Undispatched
  <2> QED
    BY <1>28, <2>1, <1>c DEF Tell, ReconcileOwed, Places, Counters, Flags
<1>29. ASSUME NEW p \in Producers, Leave(p) PROVE WaitersOwed'
  <2>1. Undispatched' = Undispatched
    BY <1>29 DEF Leave, Undispatched
  <2> QED
    BY <1>29, <2>1, <1>c DEF Leave, ReconcileOwed, Places, Counters, Flags
<1>30. ASSUME NEW p \in Producers, NEW e \in Events, Put(p, e) PROVE WaitersOwed'
  <2>1. e \in Undispatched' /\ UNCHANGED <<stop>>
    BY <1>30, <1>c DEF Put, Live, Undispatched, QueueTypes
  <2> QED
    BY <2>1
<1>31. ASSUME NEW p \in Producers, NEW e \in Events, Submit(p, e) PROVE WaitersOwed'
  <2>1. e \in Undispatched'
    BY <1>31, <1>c DEF Submit, Undispatched, QueueTypes
  <2> QED
    BY <2>1
<1>32. CASE UNCHANGED vars
  <2>1. Undispatched' = Undispatched
    BY <1>32 DEF vars, Undispatched
  <2> QED
    BY <1>32, <2>1 DEF vars, ReconcileOwed
<1> QED
  BY <1>1, <1>2, <1>3, <1>4, <1>5, <1>6, <1>7, <1>8, <1>9, <1>10, <1>11, <1>12, <1>13, <1>14, <1>15, <1>16, <1>17, <1>18, <1>19, <1>20, <1>21, <1>22, <1>23, <1>24, <1>25, <1>26, <1>27, <1>28, <1>29, <1>30, <1>31, <1>32
  DEF Next, GuiStep, OwnerStep, ProducerStep

(* After every dispatch, on either thread, what hangs on it is reconciled    *)
(* when the queues are quiet, for any number of tasks and waiters.           *)
THEOREM ReconciliationHolds == Spec => []QuietIsReconciled
<1>1. Init => StaleOwed /\ WaitersOwed
  BY DEF Init, StaleOwed, WaitersOwed
<1>2. Inv /\ StaleOwed /\ WaitersOwed /\ [Next]_vars => (StaleOwed /\ WaitersOwed)'
  BY StaleStep, WaitersStep
<1>3. StaleOwed /\ WaitersOwed => QuietIsReconciled
  BY DEF StaleOwed, WaitersOwed, QuietIsReconciled
<1> QED
  BY <1>1, <1>2, <1>3, InvInit, InvStep, PTL DEF Spec

-----------------------------------------------------------------------------
(* Refinement: every step of delivery is one of the mailboxes, or none.      *)
MailVars == <<boxOf, readOf, stop>>

LEMMA BoxTypes ==
    ASSUME Inv
    PROVE  /\ DOMAIN boxOf = Consumers
           /\ \A c \in Consumers : boxOf[c] \in Seq(Events)
           /\ \A c \in Consumers : hand[c] = None => boxOf[c] = queue[c]
           /\ \A c \in Consumers : hand[c] # None =>
                hand[c] \in Events /\ Head(boxOf[c]) = hand[c] /\ Tail(boxOf[c]) = queue[c]
                  /\ boxOf[c] # <<>>
BY DEF Inv, QueueTypes, boxOf, held

(* Neither box nor reading changes while nothing is queued, popped or told.  *)
LEMMA QueuesStutter ==
    ASSUME UNCHANGED <<queueVars, stop>>
    PROVE  UNCHANGED <<boxOf, readOf, stop>>
BY DEF queueVars, boxOf, readOf, held

(* Popping only moves the head of a box from the queue to the hand.          *)
LEMMA PopStutters ==
    ASSUME Inv, NEW c \in Consumers, hand[c] = None, queue[c] # <<>>,
           hand' = [hand EXCEPT ![c] = Head(queue[c])],
           queue' = [queue EXCEPT ![c] = Tail(@)],
           UNCHANGED <<life, stop>>
    PROVE  UNCHANGED <<boxOf, readOf, stop>>
<1>1. Head(queue[c]) # None /\ Head(queue[c]) \in Events /\ queue[c] \in Seq(Events)
  BY HeadOfQueue DEF Inv, QueueTypes
<1>2. <<Head(queue[c])>> \o Tail(queue[c]) = queue[c] /\ <<>> \o queue[c] = queue[c]
  BY <1>1
<1>3. boxOf'[c] = boxOf[c]
  <2>1. held'[c] = <<Head(queue[c])>> /\ queue'[c] = Tail(queue[c])
    BY <1>1 DEF Inv, QueueTypes, held
  <2>2. held[c] = <<>>
    BY DEF held
  <2> QED
    BY <2>1, <2>2, <1>2 DEF boxOf
<1>4. \A d \in Consumers \ {c} : boxOf'[d] = boxOf[d]
  BY DEF boxOf, held, Inv, QueueTypes
<1>5. boxOf' = boxOf
  BY <1>3, <1>4 DEF boxOf
<1>6. readOf' = readOf
  BY DEF readOf
<1> QED
  BY <1>5, <1>6

(* What is appended to the second part is appended to the whole.             *)
LEMMA AppendMoves ==
    ASSUME NEW s \in Seq(Events), NEW t \in Seq(Events), NEW e \in Events
    PROVE  s \o Append(t, e) = Append(s \o t, e)
<1>1. /\ s \o t \in Seq(Events) /\ <<e>> \in Seq(Events)
      /\ (s \o t) \o <<e>> = s \o (t \o <<e>>)
  BY ConcatProperties, ConcatAssociative
<1>2. Append(t, e) = t \o <<e>>
  BY AppendIsConcat
<1>3. Append(s \o t, e) = (s \o t) \o <<e>>
  BY <1>1, AppendIsConcat
<1> QED
  BY <1>1, <1>2, <1>3

(* Dispatching takes the head of the consumer's box.                         *)
LEMMA DispatchTakes ==
    ASSUME Inv, NEW c \in Consumers, hand[c] # None, Dispatch(c), stop' = stop
    PROVE  Mail!Take(c)
<1>1. /\ hand[c] \in Events /\ Head(boxOf[c]) = hand[c] /\ Tail(boxOf[c]) = queue[c]
      /\ boxOf[c] # <<>>
  BY BoxTypes
<1>2. /\ life' = [life EXCEPT ![hand[c]] = "told"] /\ hand' = [hand EXCEPT ![c] = None]
      /\ queue' = queue
  BY DEF Dispatch
<1>3. readOf' = [readOf EXCEPT ![Head(boxOf[c])] = "taken"]
  BY <1>1, <1>2 DEF readOf, Inv, QueueTypes
<1>4. boxOf' = [boxOf EXCEPT ![c] = Tail(@)]
  <2>1. boxOf'[c] = queue[c]
    <3>1. held'[c] = <<>> /\ queue[c] \in Seq(Events)
      BY <1>2 DEF held, Inv, QueueTypes
    <3>2. <<>> \o queue[c] = queue[c]
      BY <3>1, ConcatEmptySeq
    <3>3. boxOf'[c] = held'[c] \o queue'[c]
      BY DEF boxOf
    <3> QED
      BY <3>1, <3>2, <3>3, <1>2
  <2>2. \A d \in Consumers \ {c} : boxOf'[d] = boxOf[d]
    BY <1>2 DEF boxOf, held, Inv, QueueTypes
  <2> QED
    BY <2>1, <2>2, <1>1 DEF boxOf
<1> QED
  BY <1>1, <1>3, <1>4 DEF Mail!Take

(* A drop by the owner discards from a consumer that is being stopped.       *)
LEMMA DropDiscards ==
    ASSUME Inv, DropOne, hand["owner"] = None, stop, stop' = stop
    PROVE  Mail!Discard("owner")
<1>c. "owner" \in Consumers
  BY DEF Consumers
<1>1. boxOf["owner"] = queue["owner"] /\ queue["owner"] # <<>>
        /\ Head(queue["owner"]) \in Events
  BY <1>c, BoxTypes, HeadOfQueue DEF DropOne, Inv
<1>2. /\ life' = [life EXCEPT ![Head(queue["owner"])] = "dropped"] /\ hand' = hand
      /\ queue' = [queue EXCEPT !["owner"] = Tail(@)]
  BY DEF DropOne
<1>3. readOf' = [readOf EXCEPT ![Head(boxOf["owner"])] = "discarded"]
  BY <1>1, <1>2 DEF readOf, Inv, QueueTypes
<1>4. boxOf' = [boxOf EXCEPT !["owner"] = Tail(@)]
  <2>1. boxOf'["owner"] = Tail(queue["owner"])
    <3>1. held'["owner"] = <<>> /\ queue'["owner"] = Tail(queue["owner"])
            /\ Tail(queue["owner"]) \in Seq(Events)
      BY <1>c, <1>1, <1>2, HeadOfQueue DEF held, Inv, QueueTypes
    <3>2. <<>> \o Tail(queue["owner"]) = Tail(queue["owner"])
      BY <3>1, ConcatEmptySeq
    <3>3. boxOf'["owner"] = held'["owner"] \o queue'["owner"]
      BY <1>c DEF boxOf
    <3> QED
      BY <3>1, <3>2, <3>3
  <2>2. \A d \in Consumers \ {"owner"} : boxOf'[d] = boxOf[d]
    BY <1>2 DEF boxOf, held, Inv, QueueTypes
  <2> QED
    BY <2>1, <2>2, <1>1, <1>c DEF boxOf
<1> QED
  BY <1>1, <1>3, <1>4 DEF Mail!Discard

(* An append posts, whoever's queue it is.                                   *)
LEMMA PutPosts ==
    ASSUME Inv, NEW p, NEW e \in Events, Put(p, e)
    PROVE  Mail!Post(e)
<1> DEFINE h == Home[e]
<1>1. h \in Consumers
  BY Homes
<1>2. /\ life[e] = "owed" /\ life' = [life EXCEPT ![e] = "queued"] /\ hand' = hand
      /\ queue' = [queue EXCEPT ![h] = Append(@, e)] /\ stop' = stop
  BY DEF Put, Live, ownerVars
<1>3. readOf[e] = "unposted" /\ readOf' = [readOf EXCEPT ![e] = "posted"]
  BY <1>2 DEF readOf, Inv, QueueTypes
<1> HIDE DEF h
<1>4. boxOf' = [boxOf EXCEPT ![h] = Append(@, e)]
  <2>1. boxOf'[h] = Append(boxOf[h], e)
    <3>1. /\ held' = held /\ queue'[h] = Append(queue[h], e)
          /\ queue[h] \in Seq(Events) /\ held[h] \in Seq(Events)
      BY <1>1, <1>2 DEF held, Inv, QueueTypes
    <3>2. boxOf'[h] = held[h] \o Append(queue[h], e) /\ boxOf[h] = held[h] \o queue[h]
      BY <1>1, <3>1 DEF boxOf
    <3>3. held[h] \o Append(queue[h], e) = Append(held[h] \o queue[h], e)
      BY <3>1, AppendMoves
    <3> QED
      BY <3>2, <3>3
  <2>2. \A d \in Consumers \ {h} : boxOf'[d] = boxOf[d]
    BY <1>2 DEF boxOf, held, Inv, QueueTypes
  <2> QED
    BY <2>1, <2>2, <1>1 DEF boxOf
<1> QED
  BY <1>2, <1>3, <1>4 DEF Mail!Post, h

LEMMA StepIsMail == Inv /\ [Next]_vars => [Mail!MailNext]_Mail!mailVars
<1> SUFFICES ASSUME Inv, [Next]_vars PROVE [Mail!MailNext]_Mail!mailVars
  OBVIOUS
<1>c. Consumers = {"gui", "owner"} /\ Places
  BY DEF Inv, Consumers
<1>s. UNCHANGED <<boxOf, readOf, stop>> => UNCHANGED Mail!mailVars
  BY DEF Mail!mailVars
<1>1. CASE \/ DrainStart \/ GuiAcquire \/ NestEnter \/ NestLeave \/ GuiRelease \/ DrainNote
           \/ DrainRearm \/ Reconcile \/ FireWaiters \/ CloseWake
           \/ SectionStart \/ NestAnnounce
           \/ (\E w \in Waiters : Arm(w)) \/ (\E p \in Producers : Tell(p) \/ Leave(p))
           \/ OwnerWait \/ OwnerClear \/ OwnerAcquire \/ OwnerRelease \/ OwnerTurn \/ OwnerYield
           \/ OwnerHook \/ UNCHANGED vars
  <2>1. UNCHANGED <<queueVars, stop>>
    BY <1>1 DEF DrainStart, GuiAcquire, NestEnter, NestLeave, GuiRelease, DrainNote, DrainRearm,
         Reconcile, FireWaiters, CloseWake, SectionStart, NestAnnounce, Arm, Tell, Leave,
         OwnerWait, OwnerClear, OwnerAcquire, OwnerRelease, OwnerTurn, OwnerYield, OwnerHook,
         vars, ownerVars
  <2> QED
    BY <2>1, <1>s, QueuesStutter
<1>2. CASE DrainPop
  <2>1. CASE drained < MaxEvents /\ queue["gui"] # <<>>
    <3>1. hand["gui"] = None
      BY <1>2, <1>c DEF DrainPop, Places
    <3> QED
      BY <1>2, <1>c, <1>s, <2>1, <3>1, PopStutters DEF DrainPop, ownerVars
  <2>2. CASE ~(drained < MaxEvents /\ queue["gui"] # <<>>)
    BY <1>2, <1>s, <2>2, QueuesStutter DEF DrainPop, queueVars, ownerVars
  <2> QED
    BY <2>1, <2>2
<1>3. CASE OwnerPop
  <2>1. CASE ~stop /\ queue["owner"] # <<>>
    <3>1. hand["owner"] = None
      BY <1>3, <1>c DEF OwnerPop, Places
    <3> QED
      BY <1>3, <1>c, <1>s, <2>1, <3>1, PopStutters DEF OwnerPop, ownerVars
  <2>2. CASE ~(~stop /\ queue["owner"] # <<>>)
    BY <1>3, <1>s, <2>2, QueuesStutter DEF OwnerPop, queueVars, ownerVars
  <2> QED
    BY <2>1, <2>2
<1>4. CASE GuiDispatch
  <2>1. Mail!Take("gui")
    BY <1>4, <1>c, DispatchTakes DEF GuiDispatch, Places, ownerVars
  <2> QED
    BY <2>1, <1>c DEF Mail!MailNext
<1>5. CASE OwnerDispatch
  <2>1. Mail!Take("owner")
    BY <1>5, <1>c, DispatchTakes DEF OwnerDispatch, Places
  <2> QED
    BY <2>1, <1>c DEF Mail!MailNext
<1>6. CASE CloseStart
  <2>1. UNCHANGED queueVars /\ stop' = TRUE
    BY <1>6 DEF CloseStart
  <2>2. UNCHANGED <<boxOf, readOf>>
    BY <2>1 DEF queueVars, boxOf, readOf, held
  <2>3. Mail!StopConsumer("owner")
    BY <2>1, <2>2 DEF Mail!StopConsumer
  <2> QED
    BY <2>3, <1>c DEF Mail!MailNext
<1>7. CASE CloseJoin \/ OwnerExit
  <2>1. stop /\ stop' = stop /\ (DropOne \/ UNCHANGED queueVars)
    BY <1>7, <1>c DEF CloseJoin, OwnerExit, Places, ownerVars
  <2>2. CASE DropOne
    <3>1. owner \in {"drop", "gone"}
      <4>1. queue["owner"] \in Seq(Events) /\ queue["owner"] # <<>>
        BY <2>2, <1>c DEF DropOne, Inv, QueueTypes
      <4>2. queue'["owner"] = Tail(queue["owner"])
        BY <2>2, <1>c DEF DropOne, Inv, QueueTypes
      <4>3. queue'["owner"] # queue["owner"]
        <5>1. Len(Tail(queue["owner"])) = Len(queue["owner"]) - 1 /\ Len(queue["owner"]) \in Nat
          BY <4>1
        <5>2. Tail(queue["owner"]) # queue["owner"]
          <6> DEFINE n == Len(queue["owner"])
          <6>1. n \in Nat => n - 1 # n
            OBVIOUS
          <6> QED
            BY <5>1, <6>1
        <5> QED
          BY <5>2, <4>2, Zenon
      <4> QED
        BY <1>7, <4>3 DEF CloseJoin, OwnerExit, queueVars
    <3>2. Mail!Discard("owner")
      BY <2>1, <2>2, <3>1, <1>c, DropDiscards DEF Places
    <3> QED
      BY <3>2, <1>c DEF Mail!MailNext
  <2>3. CASE UNCHANGED queueVars
    BY <2>1, <2>3, <1>s, QueuesStutter
  <2> QED
    BY <2>1, <2>2, <2>3
<1>8. ASSUME NEW p \in Producers, NEW e \in Events, Put(p, e)
      PROVE  [Mail!MailNext]_Mail!mailVars
  BY <1>8, PutPosts DEF Mail!MailNext
<1>9. ASSUME NEW p \in Producers, NEW e \in Events, Submit(p, e)
      PROVE  [Mail!MailNext]_Mail!mailVars
  <2>1. life[e] = "new" /\ life' = [life EXCEPT ![e] = "owed"] /\ UNCHANGED <<queue, hand, stop>>
    BY <1>9 DEF Submit, ownerVars
  <2>2. UNCHANGED <<boxOf, readOf, stop>>
    BY <2>1 DEF boxOf, readOf, held, Inv, QueueTypes
  <2> QED
    BY <2>2, <1>s
<1> QED
  BY <1>1, <1>2, <1>3, <1>4, <1>5, <1>6, <1>7, <1>8, <1>9
  DEF Next, GuiStep, OwnerStep, ProducerStep

(* Whatever the threads, locks, wakeups and the closing window do, completions*)
(* go through their consumers' mailboxes: each to its own, in order, once.   *)
THEOREM DeliveryImplementsMailboxes == Spec => ImplementsMailboxes
<1>1. Init => Mail!MailInit
  <2> SUFFICES ASSUME Init PROVE Mail!MailInit
    OBVIOUS
  <2>1. boxOf = [c \in Consumers |-> <<>>]
    BY DEF Init, boxOf, held
  <2>2. readOf = [e \in Events |-> "unposted"]
    BY DEF Init, readOf
  <2> QED
    BY <2>1, <2>2 DEF Init, Mail!MailInit
<1> QED
  BY <1>1, InvHolds, StepIsMail, PTL DEF Spec, ImplementsMailboxes, Mail!MailSpec
=============================================================================
