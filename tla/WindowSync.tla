----------------------------- MODULE WindowSync -----------------------------
(***************************************************************************)
(* Linked windows (sync/controller.py) on one facet: each window publishes *)
(* what its user changes and applies what the others publish.  The facet   *)
(* of a window is a value <<author, number>>: its own at first, then the   *)
(* edit that the window shows.                                             *)
(***************************************************************************)
EXTENDS SyncBus

CONSTANTS
    None,           \* nothing sent, nothing applied
    MaxJoins,       \* bound: how often the facet is switched on, in all
    MaxEdits,       \* bound: changes by users
    MaxReverts,     \* bound: how many of them revert an automatic window
    MaxUpsets       \* bound: windows that leave or crash, and applies that set
                    \* off callbacks after their end

ASSUME SyncAssumption ==
    /\ Nobody \notin Windows
    /\ None \notin Windows \X Nat
    /\ MaxJoins \in Nat /\ MaxEdits \in Nat /\ MaxReverts \in Nat /\ MaxUpsets \in Nat

VARIABLES
    ctl,            \* [Windows -> its controller]
    acts,           \* [joins, edits, reverts, upsets: how many]
    shown,          \* history: [Windows -> payload applied last]
    calm,           \* history: each act since the last settled edit found
                    \* the group settled
    skipped,        \* history: a state was taken for an answer since then
    overtaken       \* history: a start bound the path that another one, whose
                    \* connection had failed before, was about to remove

historyVars == <<shown, calm, skipped>>
vars == <<busVars, ctl, acts, historyVars, overtaken>>

Values == Windows \X (0..MaxEdits)

Init ==
    /\ BusInit
    /\ ctl = [w \in Windows |->
                [on |-> FALSE,          \* _enabled
                 state |-> <<w, 0>>,    \* what the window shows
                 rev |-> 0,             \* _revisions
                 sent |-> None,         \* _last_payload
                 applied |-> None,      \* _last_applied
                 timer |-> FALSE,       \* _publish_timers
                 late |-> FALSE,        \* callbacks of an apply still to come
                 wanting |-> FALSE,     \* _pending_requests
                 ignoring |-> FALSE,    \* _ignore_join_state
                 owed |-> FALSE]]       \* _pending_peer_publishes
    /\ acts = [joins |-> 0, edits |-> 0, reverts |-> 0, upsets |-> 0]
    /\ shown = [w \in Windows |-> None]
    /\ calm = TRUE /\ skipped = FALSE /\ overtaken = FALSE

\* Messages; asked says that the publication was forced (request or peer count).
StateMessage(w, n, v, asked) ==
    [kind |-> "state", origin |-> w, rev |-> n, payload |-> v, asked |-> asked]
RequestMessage(w) ==
    [kind |-> "request", origin |-> w, rev |-> 0, payload |-> None, asked |-> FALSE]

-----------------------------------------------------------------------------
(* Publishing: what a call makes of controller c of window w over the        *)
(* connections cs.                                                           *)

Nothing(c) == [ctl |-> c, out |-> <<>>]

\* Mutant: the revision goes up only with a new payload.
PublishNow_SameRevision(w, c, cs, force) ==
    IF ~c.on \/ ~IsRunning(w) \/ (~force /\ c.sent = c.state) THEN Nothing(c)
    ELSE LET alone == role[w] = "broker" /\ Peers(cs, w) = {}
             n == IF c.sent = c.state THEN c.rev ELSE c.rev + 1
         IN [ctl |-> [c EXCEPT !.rev = n, !.sent = c.state, !.owed = alone],
             out |-> IF alone THEN <<>> ELSE <<StateMessage(w, n, c.state, force)>>]

\* _publish_now.
PublishNow(w, c, cs, force) ==
    IF ~c.on \/ ~IsRunning(w) \/ (~force /\ c.sent = c.state) THEN Nothing(c)
    ELSE LET alone == role[w] = "broker" /\ Peers(cs, w) = {}
         IN [ctl |-> [c EXCEPT !.rev = @ + 1, !.sent = c.state, !.owed = alone],
             out |-> IF alone THEN <<>> ELSE <<StateMessage(w, c.rev + 1, c.state, force)>>]

\* schedule_publish: at once after a quiet period, else by the timer.
SchedulePublish(w, c) ==
    IF ~c.on THEN {Nothing(c)}
    ELSE {PublishNow(w, [c EXCEPT !.timer = FALSE], conns, FALSE)}
         \cup (IF c.rev > 0 THEN {Nothing([c EXCEPT !.timer = TRUE])} ELSE {})

\* Window w is left with what r says.
Publishes(w, r) ==
    /\ ctl' = [ctl EXCEPT ![w] = r.ctl]
    /\ conns' = Emit(conns, w, r.out)

\* The GUI thread of w is between two events.
Idle(w) == role[w] # "crashed" /\ place[w] = "out"

Counted(act) == acts' = [acts EXCEPT ![act] = @ + 1]

-----------------------------------------------------------------------------
(* The history: when the group is at rest, everybody who takes part can hear *)
(* everybody else, and nothing is under way.                                 *)

Taking == {w \in Windows : ctl[w].on /\ role[w] # "crashed"}
Reached(w) == \/ role[w] = "broker"
              \/ \E i \in ClientOf(conns, w) : conns[i].side = "peer"
Settled ==
    /\ \A w \in Windows : place[w] = "out" /\ role[w] # "connecting"
    /\ \A w \in Taking : Reached(w) /\ ~ctl[w].timer /\ ~ctl[w].late
    /\ \A i \in DOMAIN conns :
        \/ conns[i].side = "gone" /\ ~conns[i].linked
        \/ conns[i].side = "peer" /\ conns[i].linked /\ conns[i].up = <<>> /\ conns[i].down = <<>>

Disturbs(edit) ==
    /\ calm' = (Settled /\ (calm \/ edit))
    /\ skipped' = (skipped /\ ~(Settled /\ edit))
    /\ UNCHANGED shown

-----------------------------------------------------------------------------
(* The user.                                                                 *)

\* set_facet_enabled(True) up to start(), which publishes the request when it
\* is done.  Switching off and on again takes a person longer than the publish
\* timer and the callbacks of an apply.
Join(w) ==
    /\ Idle(w) /\ ~ctl[w].on /\ ~ctl[w].timer /\ ~ctl[w].late
    /\ acts.joins < MaxJoins /\ Counted("joins")
    /\ ctl' = [ctl EXCEPT ![w].on = TRUE, ![w].wanting = TRUE]
    /\ place' = [place EXCEPT ![w] = "connect"]
    /\ Disturbs(FALSE)
    /\ UNCHANGED <<role, path, conns>>

\* set_facet_enabled(False), and shutdown.
Leave(w) ==
    /\ Idle(w) /\ ctl[w].on
    /\ acts.upsets < MaxUpsets /\ Counted("upsets")
    /\ ctl' = [ctl EXCEPT ![w].on = FALSE, ![w].sent = None, ![w].owed = FALSE, ![w].late = FALSE]
    /\ Stop(w)
    /\ Disturbs(FALSE)

\* In the middle of start() too.
CrashWindow(w) ==
    /\ ctl[w].on /\ role[w] # "crashed"
    /\ acts.upsets < MaxUpsets /\ Counted("upsets")
    /\ Crash(w)
    /\ Disturbs(FALSE)
    /\ UNCHANGED ctl

\* A window's changes are of no interest before it has ever taken part.
Editing(w) == Idle(w) /\ (ctl[w].on \/ ctl[w].applied # None)
Edited(w) == [ctl[w] EXCEPT !.state = <<w, acts.edits + 1>>]

Edit(w) ==
    /\ Editing(w)
    /\ acts.edits < MaxEdits /\ Counted("edits")
    /\ \E r \in SchedulePublish(w, Edited(w)) : Publishes(w, r)
    /\ IF ctl[w].on THEN Disturbs(TRUE) ELSE UNCHANGED historyVars
    /\ UNCHANGED <<role, place, path>>

\* The levels of an automatic window are taken back
\* (_apply_display_level_override with emit_user): published as an edit, then
\* once more by force, and an answer still wanted will be ignored.
Revert(w) ==
    /\ Editing(w)
    /\ acts.edits < MaxEdits /\ acts.reverts < MaxReverts
    /\ acts' = [acts EXCEPT !.edits = @ + 1, !.reverts = @ + 1]
    /\ \E r \in SchedulePublish(w, Edited(w)) :
        LET c == [r.ctl EXCEPT !.wanting = FALSE, !.ignoring = @ \/ r.ctl.wanting]
            again == PublishNow(w, c, conns, TRUE)
        IN Publishes(w, [again EXCEPT !.out = r.out \o @])
    /\ IF ctl[w].on THEN Disturbs(TRUE) ELSE UNCHANGED historyVars
    /\ UNCHANGED <<role, place, path>>

-----------------------------------------------------------------------------
(* The start of the bus, the publish timer, and callbacks of an apply that   *)
(* come after it.                                                            *)

\* A start() that set_facet_enabled made is followed by the request.
Starting(w) ==
    /\ \/ Connect(w, IF ctl[w].wanting /\ role[w] = "stopped" THEN <<RequestMessage(w)>> ELSE <<>>)
       \/ Listen(w) \/ RemoveServer(w) \/ Relisten(w)
    /\ UNCHANGED <<ctl, acts, historyVars>>

Retry(w) == Idle(w) /\ RetryStart(w) /\ UNCHANGED <<ctl, acts, historyVars>>
LoseBroker(w) == Idle(w) /\ ClientGone(w) /\ UNCHANGED <<ctl, acts, historyVars>>

PublishTimer(w) ==
    /\ Idle(w) /\ ctl[w].timer
    /\ Publishes(w, PublishNow(w, [ctl[w] EXCEPT !.timer = FALSE], conns, FALSE))
    /\ UNCHANGED <<role, place, path, acts, historyVars>>

LateCallback(w) ==
    /\ Idle(w) /\ ctl[w].late
    /\ \E r \in SchedulePublish(w, [ctl[w] EXCEPT !.late = FALSE]) : Publishes(w, r)
    /\ UNCHANGED <<role, place, path, acts, historyVars>>

-----------------------------------------------------------------------------
(* Receiving.                                                                *)

\* Mutant: what was applied is not remembered as the payload known to all.
Applied_Forgets(c, m) ==
    [c EXCEPT !.state = m.payload, !.applied = <<m.origin, m.rev>>]

\* _apply_payload and what is remembered of it.
Applied(c, m) ==
    [c EXCEPT !.state = m.payload, !.applied = <<m.origin, m.rev>>, !.sent = m.payload]

\* _on_message for a facet that is on.
Wanted(c, m) == c.on /\ m.kind = "state"
Known(c, m) == c.applied = <<m.origin, m.rev>>
OnMessage(w, c, cs, m) ==
    IF c.on /\ m.kind = "request" THEN PublishNow(w, c, cs, TRUE)
    ELSE IF ~Wanted(c, m) THEN Nothing(c)
    ELSE LET told == [c EXCEPT !.wanting = FALSE, !.ignoring = FALSE]
         IN IF c.ignoring \/ Known(c, m) THEN Nothing(told)
            ELSE Nothing(Applied(told, m))

Applies(w, m) == Wanted(ctl[w], m) /\ ~ctl[w].ignoring /\ ~Known(ctl[w], m)

\* What the history keeps of it.
Hears(w, m) ==
    /\ shown' = (IF Applies(w, m) THEN [shown EXCEPT ![w] = m.payload] ELSE shown)
    /\ skipped' = (skipped \/ (Wanted(ctl[w], m) /\ ctl[w].ignoring))
    /\ UNCHANGED calm

\* An apply may set off callbacks that come when it is over.
Deliver(w, cs, m) ==
    LET r == OnMessage(w, ctl[w], cs, m)
    IN /\ \/ ctl' = [ctl EXCEPT ![w] = r.ctl] /\ UNCHANGED acts
          \/ /\ Applies(w, m) /\ acts.upsets < MaxUpsets /\ Counted("upsets")
             /\ ctl' = [ctl EXCEPT ![w] = [r.ctl EXCEPT !.late = TRUE]]
       /\ conns' = Emit(cs, w, r.out)
       /\ Hears(w, m)
       /\ UNCHANGED <<role, place, path>>

\* _on_peer_ready_read, message by message: relayed, then delivered.
BrokerReceive(w) ==
    /\ Idle(w)
    /\ \E i \in Peers(conns, w) :
        /\ conns[i].up # <<>>
        /\ LET m == Head(conns[i].up)
               rest == [conns EXCEPT ![i].up = Tail(@)]
           IN Deliver(w, Relay(rest, w, i, m), m)

\* _on_client_ready_read.
ClientReceive(w) ==
    /\ Idle(w)
    /\ \E i \in ClientOf(conns, w) :
        /\ conns[i].down # <<>>
        /\ Deliver(w, [conns EXCEPT ![i].down = Tail(@)], Head(conns[i].down))

\* _on_peer_count_changed over the connections cs.
PeerCountChanged(w, cs) ==
    IF ctl[w].owed /\ Peers(cs, w) # {} THEN PublishNow(w, ctl[w], cs, TRUE) ELSE Nothing(ctl[w])

\* _on_new_peer: all that wait, in the order they came; what is owed goes out
\* when the first one is in.
Accept(w) ==
    /\ Idle(w) /\ role[w] = "broker"
    /\ LET waiting == Pending(conns, w)
           first == [conns EXCEPT ![Min(waiting)].side = "peer"]
           r == PeerCountChanged(w, first)
           told == Emit(first, w, r.out)
       IN /\ waiting # {}
          /\ conns' = [i \in DOMAIN told |-> IF i \in waiting THEN [told[i] EXCEPT !.side = "peer"]
                                             ELSE told[i]]
          /\ ctl' = [ctl EXCEPT ![w] = r.ctl]
    /\ UNCHANGED <<role, place, path, acts, historyVars>>

\* _on_peer_disconnected, after the last bytes were read.
PeerGone(w) ==
    /\ Idle(w)
    /\ \E i \in Peers(conns, w) :
        /\ ~conns[i].linked /\ conns[i].up = <<>>
        /\ LET cs == [conns EXCEPT ![i].side = "gone"]
               r == PeerCountChanged(w, cs)
           IN conns' = Emit(cs, w, r.out) /\ ctl' = [ctl EXCEPT ![w] = r.ctl]
    /\ UNCHANGED <<role, place, path, acts, historyVars>>

-----------------------------------------------------------------------------
\* What the user and the machine do, and what the program must do.
Act(w) == Join(w) \/ Leave(w) \/ CrashWindow(w) \/ Edit(w) \/ Revert(w)
Step(w) ==
    \/ Starting(w) \/ Retry(w) \/ LoseBroker(w) \/ PublishTimer(w) \/ LateCallback(w)
    \/ BrokerReceive(w) \/ ClientReceive(w) \/ Accept(w) \/ PeerGone(w)

Next == \E w \in Windows :
    /\ Act(w) \/ Step(w)
    /\ overtaken' = (overtaken \/ Overtakes(w))

Spec == Init /\ [][Next]_vars
=============================================================================
