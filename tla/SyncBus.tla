------------------------------ MODULE SyncBus ------------------------------
(***************************************************************************)
(* The transport of linked windows (sync/bus.py): one process is the       *)
(* broker and owns the server, the others connect to it.  Each window is a *)
(* process of its own.  Sockets are what Qt's local sockets are: first in, *)
(* first out, in both directions, until the reader has seen the end that   *)
(* the other side closed.                                                  *)
(***************************************************************************)
EXTENDS Integers, Sequences, FiniteSets, FiniteSetsExt

CONSTANTS
    Windows,
    Nobody          \* no window

VARIABLES
    role,           \* [Windows -> bus.role, or "crashed"]
    place,          \* [Windows -> where its start() is]
    path,           \* whose server the socket's path was bound by
    conns           \* Seq: every connection ever made

busVars == <<role, place, path, conns>>

Roles == {"stopped", "connecting", "client", "broker", "crashed"}
Places == {"out", "connect", "listen", "remove", "relisten"}

\* A connection: its two processes, whether the client still has it as
\* _client, what the server makes of its end, and what is under way.
Connection(w, b, first) ==
    [client |-> w, server |-> b, linked |-> TRUE, side |-> "pending", up |-> first, down |-> <<>>]

BusInit ==
    /\ role = [w \in Windows |-> "stopped"]
    /\ place = [w \in Windows |-> "out"]
    /\ path = Nobody
    /\ conns = <<>>

IsRunning(w) == role[w] \in {"broker", "client"}

\* Connections in cs: the _peers of broker b, those it has still to accept,
\* and the _client of w.
Peers(cs, b) == {i \in DOMAIN cs : cs[i].server = b /\ cs[i].side = "peer"}
Pending(cs, b) == {i \in DOMAIN cs : cs[i].server = b /\ cs[i].side = "pending"}
ClientOf(cs, w) == {i \in DOMAIN cs : cs[i].client = w /\ cs[i].linked}

\* publish: the broker relays to every peer, a client writes to its broker,
\* where the message is lost when that one is gone already.
Emit(cs, w, ms) ==
    [i \in DOMAIN cs |->
        IF i \in Peers(cs, w) THEN [cs[i] EXCEPT !.down = @ \o ms]
        ELSE IF i \in ClientOf(cs, w) /\ cs[i].side # "gone" THEN [cs[i] EXCEPT !.up = @ \o ms]
        ELSE cs[i]]

\* _relay of what came from connection i.
Relay(cs, b, i, m) ==
    [k \in DOMAIN cs |-> IF k \in Peers(cs, b) \ {i} THEN [cs[k] EXCEPT !.down = Append(@, m)] ELSE cs[k]]

\* Both ends that w holds are closed: by stop(), or with the process.
Hangup(cs, w) ==
    [i \in DOMAIN cs |->
        [cs[i] EXCEPT !.linked = @ /\ cs[i].client # w,
                      !.side = IF cs[i].server = w THEN "gone" ELSE @]]

-----------------------------------------------------------------------------
(* start(): connect, else listen, else remove a stale socket and listen      *)
(* again, else retry later.  first is what the caller publishes right after. *)
(* Any number of processes may be in it at once.                             *)

Served == path # Nobody /\ role[path] = "broker"

Connect(w, first) ==
    /\ place[w] = "connect"
    /\ IF Served
       THEN /\ conns' = Append(conns, Connection(w, path, first))
            /\ role' = [role EXCEPT ![w] = "client"]
            /\ place' = [place EXCEPT ![w] = "out"]
       ELSE /\ place' = [place EXCEPT ![w] = "listen"]
            /\ UNCHANGED <<conns, role>>
    /\ UNCHANGED path

Bind(w) ==
    /\ path' = w
    /\ role' = [role EXCEPT ![w] = "broker"]
    /\ place' = [place EXCEPT ![w] = "out"]

Listen(w) ==
    /\ place[w] = "listen"
    /\ \/ path = Nobody /\ Bind(w)
       \/ path # Nobody /\ place' = [place EXCEPT ![w] = "remove"] /\ UNCHANGED <<role, path>>
    /\ UNCHANGED conns

\* removeServer removes the path whoever has bound it.
RemoveServer(w) ==
    /\ place[w] = "remove"
    /\ path' = Nobody
    /\ place' = [place EXCEPT ![w] = "relisten"]
    /\ UNCHANGED <<role, conns>>

Relisten(w) ==
    /\ place[w] = "relisten"
    /\ \/ path = Nobody /\ Bind(w)
       \/ /\ path # Nobody
          /\ role' = [role EXCEPT ![w] = "connecting"]
          /\ place' = [place EXCEPT ![w] = "out"]
          /\ UNCHANGED path
    /\ UNCHANGED conns

\* Mutant: a surviving client tries to become the broker without connecting.
RetryStart_Listens(w) ==
    /\ role[w] = "connecting" /\ place[w] = "out"
    /\ place' = [place EXCEPT ![w] = "listen"]
    /\ UNCHANGED <<role, path, conns>>

\* The retry timer.
RetryStart(w) ==
    /\ role[w] = "connecting" /\ place[w] = "out"
    /\ place' = [place EXCEPT ![w] = "connect"]
    /\ UNCHANGED <<role, path, conns>>

\* Window w has just bound the path while another, whose connection had failed
\* before, has still to try or to remove what it finds there: the socket of w.
Overtakes(w) ==
    /\ role[w] # "broker" /\ role'[w] = "broker"
    /\ \E v \in Windows \ {w} : place[v] \in {"listen", "remove"}

-----------------------------------------------------------------------------
\* stop().
Stop(w) ==
    /\ conns' = Hangup(conns, w)
    /\ path' = (IF role[w] = "broker" THEN Nobody ELSE path)
    /\ role' = [role EXCEPT ![w] = "stopped"]
    /\ UNCHANGED place

\* The process dies: its sockets close, its socket file stays.
Crash(w) ==
    /\ role[w] # "crashed"
    /\ conns' = Hangup(conns, w)
    /\ role' = [role EXCEPT ![w] = "crashed"]
    /\ place' = [place EXCEPT ![w] = "out"]
    /\ UNCHANGED path

\* Mutant: a client that loses its broker does not start over.
ClientGone_Stays(w) ==
    /\ role[w] = "client" /\ place[w] = "out"
    /\ \E i \in ClientOf(conns, w) :
        /\ conns[i].side = "gone" /\ conns[i].down = <<>>
        /\ conns' = [conns EXCEPT ![i].linked = FALSE]
    /\ role' = [role EXCEPT ![w] = "stopped"]
    /\ UNCHANGED <<place, path>>

\* _on_client_disconnected, after the last bytes were read.
ClientGone(w) ==
    /\ role[w] = "client" /\ place[w] = "out"
    /\ \E i \in ClientOf(conns, w) :
        /\ conns[i].side = "gone" /\ conns[i].down = <<>>
        /\ conns' = [conns EXCEPT ![i].linked = FALSE]
    /\ role' = [role EXCEPT ![w] = "connecting"]
    /\ UNCHANGED <<place, path>>
=============================================================================
