----------------------------- MODULE SyncProps -----------------------------
(* What must be true of linked windows.                                      *)
EXTENDS WindowSync

Messages == [kind : {"state"}, origin : Windows, rev : Nat \ {0}, payload : Values, asked : BOOLEAN]
            \cup [kind : {"request"}, origin : Windows, rev : {0}, payload : {None}, asked : {FALSE}]
Controllers == [on : BOOLEAN, state : Values, rev : Nat, sent : Values \cup {None},
                applied : (Windows \X (Nat \ {0})) \cup {None}, timer : BOOLEAN, late : BOOLEAN,
                wanting : BOOLEAN, ignoring : BOOLEAN, owed : BOOLEAN]
Connections == [client : Windows, server : Windows, linked : BOOLEAN,
                side : {"pending", "peer", "gone"}, up : Seq(Messages), down : Seq(Messages)]

\* Every variable has its type.
TypeOK ==
    /\ role \in [Windows -> Roles]
    /\ place \in [Windows -> Places]
    /\ path \in Windows \cup {Nobody}
    /\ conns \in Seq(Connections)
    /\ ctl \in [Windows -> Controllers]
    /\ acts \in [joins : Nat, edits : 0..MaxEdits, reverts : Nat, upsets : Nat]
    /\ shown \in [Windows -> Values \cup {None}]
    /\ calm \in BOOLEAN /\ skipped \in BOOLEAN /\ overtaken \in BOOLEAN

\* "One ArrayScope process per user acts as the broker (it owns the
\* QLocalServer)" (bus.py:3): elections, exits and crashes never leave two
\* groups that cannot hear each other.
OneBroker ==
    ~overtaken => \A v, w \in Windows : role[v] = "broker" /\ role[w] = "broker" => v = w

UnderWay == UNION {{conns[i].up[k] : k \in DOMAIN conns[i].up}
                   \cup {conns[i].down[k] : k \in DOMAIN conns[i].down} : i \in DOMAIN conns}

\* No feedback loop (controller.py:8-20): unless it was asked for its state, a
\* window publishes only what its own user did, whatever callbacks an applied
\* state sets off, at once or later.
NoEcho == \A m \in UnderWay : m.kind = "state" /\ ~m.asked => m.payload[1] = m.origin

\* "receivers drop duplicates they have already applied" (controller.py:11) and
\* only those: a state on its way to a window that would drop it, because it
\* knows its origin and revision, is the state it was shown under that name.
DropsOnlyDuplicates ==
    \A i \in DOMAIN conns :
        /\ \A k \in DOMAIN conns[i].down :
              Known(ctl[conns[i].client], conns[i].down[k])
                  => conns[i].down[k].payload = shown[conns[i].client]
        /\ \A k \in DOMAIN conns[i].up :
              Known(ctl[conns[i].server], conns[i].up[k])
                  => conns[i].up[k].payload = shown[conns[i].server]

Agree == \A v, w \in Taking : ctl[v].state = ctl[w].state

\* Windows that are linked show the same: once a user edits while the group is
\* at rest and the edit has gone round, all who take part show it, and whoever
\* joins later does, as long as each leaving, join and edit finds the group at
\* rest; but for a window that took the state for an answer to its request.
LinkedWindowsAgree == calm /\ ~skipped /\ ~overtaken /\ Settled => Agree

\* The same without the exception: "receivers drop duplicates they have already
\* applied" (controller.py:12), and nothing but duplicates.
EveryEditArrives == calm /\ ~overtaken /\ Settled => Agree

\* Window w has something to do: a start to finish or to retry, a timer or a
\* callback that comes, a message or the end of a socket to read, a connection
\* to accept.
Waits(w) ==
    \/ place[w] # "out" \/ role[w] = "connecting"
    \/ role[w] # "crashed" /\ (ctl[w].timer \/ ctl[w].late)
    \/ role[w] # "crashed" /\ \E i \in Peers(conns, w) : conns[i].up # <<>> \/ ~conns[i].linked
    \/ role[w] # "crashed" /\ \E i \in ClientOf(conns, w) : conns[i].down # <<>>
    \/ role[w] = "client" /\ \E i \in ClientOf(conns, w) : conns[i].side = "gone"
    \/ role[w] = "broker" /\ Pending(conns, w) # {}

\* Nothing is left to do: no message, timer, retry or closed socket waits.
AtRest == \A w \in Windows : ~Waits(w)

\* "when the broker process exits, each surviving client retries ... and the
\* first one to bind becomes the new broker while the rest reconnect"
\* (bus.py:9-11): the program does not come to rest with a window left out,
\* nor with a publication still owed to peers that are there.
NobodyIsLeftOut ==
    AtRest => \A w \in Taking : Reached(w) /\ (ctl[w].owed => Peers(conns, w) = {})
=============================================================================
