----------------------------- MODULE SyncProofs -----------------------------
(* Theorems about linked windows, for any windows and bounds, however the    *)
(* starts of their processes interleave.                                     *)
EXTENDS SyncProps, SequenceTheorems, WellFoundedInduction, TLAPS

(* The messages in a sequence, and those under way over connections cs.      *)
In(m, s) == \E k \in DOMAIN s : s[k] = m
Carried(m, cs) == \E i \in DOMAIN cs : In(m, cs[i].up) \/ In(m, cs[i].down)

LEMMA UnderWayIsCarried == \A m : m \in UnderWay <=> Carried(m, conns)
BY DEF UnderWay, Carried, In

LEMMA InConcat ==
    ASSUME NEW s \in Seq(Messages), NEW t \in Seq(Messages), NEW m, In(m, s \o t)
    PROVE  In(m, s) \/ In(m, t)
BY ConcatProperties DEF In

LEMMA InAppend ==
    ASSUME NEW s \in Seq(Messages), NEW n \in Messages, NEW m, In(m, Append(s, n))
    PROVE  In(m, s) \/ m = n
BY AppendProperties DEF In

LEMMA InTail ==
    ASSUME NEW s \in Seq(Messages), s # <<>>
    PROVE  /\ Tail(s) \in Seq(Messages) /\ Head(s) \in Messages /\ In(Head(s), s)
           /\ \A m : In(m, Tail(s)) => In(m, s)
<1>1. Len(s) \in Nat /\ Len(s) > 0 /\ DOMAIN s = 1..Len(s) /\ Head(s) = s[1]
  BY EmptySeq
<1>2. /\ Tail(s) \in Seq(Messages) /\ Len(Tail(s)) = Len(s) - 1
      /\ \A k \in 1..(Len(s) - 1) : Tail(s)[k] = s[k + 1]
  BY <1>1, HeadTailProperties
<1> QED
  BY <1>1, <1>2 DEF In

LEMMA Redone ==
    ASSUME NEW cs \in Seq(Connections), NEW f \in [DOMAIN cs -> Connections]
    PROVE  f \in Seq(Connections) /\ DOMAIN f = DOMAIN cs
BY SeqDef

LEMMA OfConnection ==
    ASSUME NEW x \in Connections
    PROVE  /\ x.client \in Windows /\ x.server \in Windows /\ x.linked \in BOOLEAN
           /\ x.side \in {"pending", "peer", "gone"}
           /\ x.up \in Seq(Messages) /\ x.down \in Seq(Messages)
BY DEF Connections

LEMMA OfMessage ==
    ASSUME NEW m \in Messages
    PROVE  /\ m.kind \in {"state", "request"} /\ m.origin \in Windows /\ m.rev \in Nat
           /\ m.kind = "state" => m.rev > 0 /\ m.payload \in Values
           /\ m.kind = "request" => m.rev = 0
<1>1. CASE m \in [kind : {"state"}, origin : Windows, rev : Nat \ {0}, payload : Values,
                  asked : BOOLEAN]
  <2>1. m.kind = "state" /\ m.origin \in Windows /\ m.rev \in Nat \ {0} /\ m.payload \in Values
    BY <1>1
  <2> QED
    BY <2>1
<1>2. CASE m \in [kind : {"request"}, origin : Windows, rev : {0}, payload : {None},
                  asked : {FALSE}]
  <2>1. m.kind = "request" /\ m.origin \in Windows /\ m.rev = 0
    BY <1>2
  <2> QED
    BY <2>1
<1> QED
  BY <1>1, <1>2 DEF Messages

LEMMA EmitSends ==
    ASSUME NEW cs \in Seq(Connections), NEW w \in Windows, NEW ms \in Seq(Messages)
    PROVE  /\ Emit(cs, w, ms) \in Seq(Connections)
           /\ DOMAIN Emit(cs, w, ms) = DOMAIN cs
           /\ \A i \in DOMAIN cs : Emit(cs, w, ms)[i].side = cs[i].side
           /\ \A m : Carried(m, Emit(cs, w, ms)) => Carried(m, cs) \/ In(m, ms)
<1> DEFINE out(i) == IF i \in Peers(cs, w) THEN [cs[i] EXCEPT !.down = @ \o ms]
                     ELSE IF i \in ClientOf(cs, w) /\ cs[i].side # "gone"
                     THEN [cs[i] EXCEPT !.up = @ \o ms]
                     ELSE cs[i]
<1>1. ASSUME NEW i \in DOMAIN cs
      PROVE  /\ out(i) \in Connections /\ out(i).side = cs[i].side
             /\ out(i).up \in {cs[i].up, cs[i].up \o ms}
             /\ out(i).down \in {cs[i].down, cs[i].down \o ms}
  <2>1. cs[i] \in Connections
    OBVIOUS
  <2>2. cs[i].up \o ms \in Seq(Messages) /\ cs[i].down \o ms \in Seq(Messages)
    BY <2>1, OfConnection, ConcatProperties
  <2>3. [cs[i] EXCEPT !.down = @ \o ms] \in Connections /\ [cs[i] EXCEPT !.up = @ \o ms] \in Connections
    BY <2>1, <2>2 DEF Connections
  <2> QED
    BY <2>1, <2>2, <2>3 DEF Connections
<1>2. Emit(cs, w, ms) = [i \in DOMAIN cs |-> out(i)]
  BY DEF Emit
<1> HIDE DEF out
<1>3. Emit(cs, w, ms) \in Seq(Connections) /\ DOMAIN Emit(cs, w, ms) = DOMAIN cs
  BY <1>1, <1>2, Redone
<1>4. ASSUME NEW m, Carried(m, Emit(cs, w, ms)) PROVE Carried(m, cs) \/ In(m, ms)
  <2>1. PICK i \in DOMAIN cs : In(m, out(i).up) \/ In(m, out(i).down)
    BY <1>2, <1>4 DEF Carried
  <2>2. cs[i].up \in Seq(Messages) /\ cs[i].down \in Seq(Messages)
    BY OfConnection
  <2>3. In(m, cs[i].up) \/ In(m, cs[i].down) \/ In(m, ms)
    BY <1>1, <2>1, <2>2, InConcat
  <2> QED
    BY <2>3 DEF Carried
<1> QED
  BY <1>1, <1>2, <1>3, <1>4

LEMMA RelaySends ==
    ASSUME NEW cs \in Seq(Connections), NEW b \in Windows, NEW j, NEW n \in Messages
    PROVE  /\ Relay(cs, b, j, n) \in Seq(Connections)
           /\ \A m : Carried(m, Relay(cs, b, j, n)) => Carried(m, cs) \/ m = n
<1> DEFINE out(i) == IF i \in Peers(cs, b) \ {j} THEN [cs[i] EXCEPT !.down = Append(@, n)]
                     ELSE cs[i]
<1>1. ASSUME NEW i \in DOMAIN cs
      PROVE  /\ out(i) \in Connections /\ out(i).up = cs[i].up
             /\ out(i).down \in {cs[i].down, Append(cs[i].down, n)}
  <2>1. cs[i] \in Connections
    OBVIOUS
  <2>2. Append(cs[i].down, n) \in Seq(Messages)
    BY <2>1, OfConnection, AppendProperties
  <2> QED
    BY <2>1, <2>2 DEF Connections
<1>2. Relay(cs, b, j, n) = [i \in DOMAIN cs |-> out(i)]
  BY DEF Relay
<1> HIDE DEF out
<1>3. Relay(cs, b, j, n) \in Seq(Connections)
  BY <1>1, <1>2, Redone
<1>4. ASSUME NEW m, Carried(m, Relay(cs, b, j, n)) PROVE Carried(m, cs) \/ m = n
  <2>1. PICK i \in DOMAIN cs : In(m, out(i).up) \/ In(m, out(i).down)
    BY <1>2, <1>4 DEF Carried
  <2>2. cs[i].up \in Seq(Messages) /\ cs[i].down \in Seq(Messages)
    BY OfConnection
  <2>3. In(m, cs[i].up) \/ In(m, cs[i].down) \/ m = n
    BY <1>1, <2>1, <2>2, InAppend
  <2> QED
    BY <2>3 DEF Carried
<1> QED
  BY <1>3, <1>4

LEMMA HangupKeeps ==
    ASSUME NEW cs \in Seq(Connections), NEW w \in Windows
    PROVE  /\ Hangup(cs, w) \in Seq(Connections)
           /\ \A m : Carried(m, Hangup(cs, w)) => Carried(m, cs)
<1> DEFINE out(i) == [cs[i] EXCEPT !.linked = @ /\ cs[i].client # w,
                                   !.side = IF cs[i].server = w THEN "gone" ELSE @]
<1>1. ASSUME NEW i \in DOMAIN cs
      PROVE  out(i) \in Connections /\ out(i).up = cs[i].up /\ out(i).down = cs[i].down
  <2>1. cs[i] \in Connections
    OBVIOUS
  <2> QED
    BY <2>1 DEF Connections
<1>2. Hangup(cs, w) = [i \in DOMAIN cs |-> out(i)]
  BY DEF Hangup
<1> HIDE DEF out
<1>3. Hangup(cs, w) \in Seq(Connections) /\ DOMAIN Hangup(cs, w) = DOMAIN cs
  BY <1>1, <1>2, Redone
<1> QED
  BY <1>1, <1>2, <1>3 DEF Carried

(* One end of a connection is closed, or a message is taken from it.         *)
LEMMA EndClosed ==
    ASSUME NEW cs \in Seq(Connections), NEW i \in DOMAIN cs, NEW x \in Connections,
           x.up = cs[i].up, x.down = cs[i].down
    PROVE  /\ [cs EXCEPT ![i] = x] \in Seq(Connections)
           /\ \A m : Carried(m, [cs EXCEPT ![i] = x]) => Carried(m, cs)
<1>1. [cs EXCEPT ![i] = x] \in Seq(Connections) /\ DOMAIN [cs EXCEPT ![i] = x] = DOMAIN cs
  BY Redone
<1> QED
  BY <1>1 DEF Carried

LEMMA Taken ==
    ASSUME NEW cs \in Seq(Connections), NEW i \in DOMAIN cs
    PROVE  /\ cs[i].up # <<>> =>
                /\ [cs EXCEPT ![i].up = Tail(@)] \in Seq(Connections)
                /\ Head(cs[i].up) \in Messages /\ Carried(Head(cs[i].up), cs)
                /\ \A m : Carried(m, [cs EXCEPT ![i].up = Tail(@)]) => Carried(m, cs)
           /\ cs[i].down # <<>> =>
                /\ [cs EXCEPT ![i].down = Tail(@)] \in Seq(Connections)
                /\ Head(cs[i].down) \in Messages /\ Carried(Head(cs[i].down), cs)
                /\ \A m : Carried(m, [cs EXCEPT ![i].down = Tail(@)]) => Carried(m, cs)
<1>1. cs[i] \in Connections /\ cs[i].up \in Seq(Messages) /\ cs[i].down \in Seq(Messages)
  BY OfConnection
<1>2. ASSUME cs[i].up # <<>>
      PROVE  /\ [cs EXCEPT ![i].up = Tail(@)] \in Seq(Connections)
             /\ Head(cs[i].up) \in Messages /\ Carried(Head(cs[i].up), cs)
             /\ \A m : Carried(m, [cs EXCEPT ![i].up = Tail(@)]) => Carried(m, cs)
  <2>1. /\ Tail(cs[i].up) \in Seq(Messages) /\ Head(cs[i].up) \in Messages /\ In(Head(cs[i].up), cs[i].up)
        /\ \A m : In(m, Tail(cs[i].up)) => In(m, cs[i].up)
    BY <1>1, <1>2, InTail
  <2>2. [cs[i] EXCEPT !.up = Tail(@)] \in Connections
    BY <1>1, <2>1 DEF Connections
  <2>3. /\ [cs EXCEPT ![i].up = Tail(@)] \in Seq(Connections)
        /\ DOMAIN [cs EXCEPT ![i].up = Tail(@)] = DOMAIN cs
    BY <2>2, Redone
  <2>4. ASSUME NEW m, Carried(m, [cs EXCEPT ![i].up = Tail(@)]) PROVE Carried(m, cs)
    <3>1. PICK k \in DOMAIN cs : In(m, [cs EXCEPT ![i].up = Tail(@)][k].up)
                                  \/ In(m, [cs EXCEPT ![i].up = Tail(@)][k].down)
      BY <2>3, <2>4 DEF Carried
    <3>2. cs[k] \in Connections
      OBVIOUS
    <3>3. In(m, cs[k].up) \/ In(m, cs[k].down)
      BY <1>1, <2>1, <3>1, <3>2 DEF Connections
    <3> QED
      BY <3>3 DEF Carried
  <2> QED
    BY <2>1, <2>3, <2>4 DEF Carried
<1>3. ASSUME cs[i].down # <<>>
      PROVE  /\ [cs EXCEPT ![i].down = Tail(@)] \in Seq(Connections)
             /\ Head(cs[i].down) \in Messages /\ Carried(Head(cs[i].down), cs)
             /\ \A m : Carried(m, [cs EXCEPT ![i].down = Tail(@)]) => Carried(m, cs)
  <2>1. /\ Tail(cs[i].down) \in Seq(Messages) /\ Head(cs[i].down) \in Messages
        /\ In(Head(cs[i].down), cs[i].down)
        /\ \A m : In(m, Tail(cs[i].down)) => In(m, cs[i].down)
    BY <1>1, <1>3, InTail
  <2>2. [cs[i] EXCEPT !.down = Tail(@)] \in Connections
    BY <1>1, <2>1 DEF Connections
  <2>3. /\ [cs EXCEPT ![i].down = Tail(@)] \in Seq(Connections)
        /\ DOMAIN [cs EXCEPT ![i].down = Tail(@)] = DOMAIN cs
    BY <2>2, Redone
  <2>4. ASSUME NEW m, Carried(m, [cs EXCEPT ![i].down = Tail(@)]) PROVE Carried(m, cs)
    <3>1. PICK k \in DOMAIN cs : In(m, [cs EXCEPT ![i].down = Tail(@)][k].up)
                                  \/ In(m, [cs EXCEPT ![i].down = Tail(@)][k].down)
      BY <2>3, <2>4 DEF Carried
    <3>2. cs[k] \in Connections
      OBVIOUS
    <3>3. In(m, cs[k].up) \/ In(m, cs[k].down)
      BY <1>1, <2>1, <3>1, <3>2 DEF Connections
    <3> QED
      BY <3>3 DEF Carried
  <2> QED
    BY <2>1, <2>3, <2>4 DEF Carried
<1> QED
  BY <1>2, <1>3

-----------------------------------------------------------------------------
(* Publishing.  What a window shows is its own user's or known to all; it    *)
(* has to be when something is still to be published.                        *)
Own(w, c) == c.state[1] = w \/ c.sent = c.state
Steady(w, c) == c.on /\ (c.timer \/ c.late) => Own(w, c)

(* What w sends when its controller goes from old to c: states of its own    *)
(* under new revisions, and unless they were asked for, its own user's.      *)
Fresh(w, old, c, out) ==
    /\ c \in Controllers /\ out \in Seq(Messages)
    /\ c.rev >= old.rev
    /\ \A m : In(m, out) /\ m.kind = "state" =>
        /\ m.origin = w /\ m.rev > old.rev /\ m.rev <= c.rev
        /\ ~m.asked => m.payload[1] = w
    /\ \A m, n : In(m, out) /\ In(n, out) /\ m.kind = "state" /\ n.kind = "state" /\ m.rev = n.rev
                    => m.payload = n.payload

LEMMA OfController ==
    ASSUME NEW c \in Controllers
    PROVE  /\ c.on \in BOOLEAN /\ c.state \in Values /\ c.rev \in Nat
           /\ c.sent \in Values \cup {None}
           /\ c.applied \in (Windows \X (Nat \ {0})) \cup {None}
           /\ c.timer \in BOOLEAN /\ c.late \in BOOLEAN /\ c.wanting \in BOOLEAN
           /\ c.ignoring \in BOOLEAN /\ c.owed \in BOOLEAN
BY DEF Controllers

LEMMA NoneIn == \A m : ~In(m, <<>>)
BY DEF In

LEMMA NothingIsFresh ==
    ASSUME NEW w, NEW old \in Controllers, NEW c \in Controllers, c.rev = old.rev
    PROVE  Fresh(w, old, c, <<>>)
BY OfController, NoneIn DEF Fresh

(* What _publish_now leaves of controller c, and what it sends.              *)
Publication(w, c, r) ==
    /\ r = [ctl |-> r.ctl, out |-> r.out]
    /\ Fresh(w, c, r.ctl, r.out)
    /\ r.ctl.on = c.on /\ r.ctl.state = c.state /\ r.ctl.applied = c.applied
    /\ r.ctl.timer = c.timer /\ r.ctl.late = c.late
    /\ r.ctl.sent \in {c.sent, c.state}

LEMMA PublishIsFresh ==
    ASSUME NEW w \in Windows, NEW c \in Controllers, NEW cs, NEW force \in BOOLEAN,
           force \/ ~c.on \/ Own(w, c),
           NEW r, r = PublishNow(w, c, cs, force)
    PROVE  Publication(w, c, r)
<1> DEFINE alone == role[w] = "broker" /\ Peers(cs, w) = {}
           m0 == StateMessage(w, c.rev + 1, c.state, force)
           c0 == [c EXCEPT !.rev = @ + 1, !.sent = c.state, !.owed = alone]
<1>1. CASE ~c.on \/ ~IsRunning(w) \/ (~force /\ c.sent = c.state)
  <2>1. r = [ctl |-> c, out |-> <<>>]
    BY <1>1 DEF PublishNow, Nothing
  <2>2. Fresh(w, c, c, <<>>)
    BY NothingIsFresh
  <2>3. r.ctl = c /\ r.out = <<>> /\ r = [ctl |-> r.ctl, out |-> r.out]
    BY <2>1
  <2> QED
    BY <2>2, <2>3 DEF Publication
<1>2. CASE ~(~c.on \/ ~IsRunning(w) \/ (~force /\ c.sent = c.state))
  <2>1. r = [ctl |-> c0, out |-> IF alone THEN <<>> ELSE <<m0>>]
    BY <1>2 DEF PublishNow, Nothing
  <2>2. c.rev \in Nat /\ c.state \in Values /\ c.sent \in Values \cup {None}
    BY OfController
  <2>3. m0 \in Messages
    BY <2>2 DEF StateMessage, Messages
  <2>4. /\ c0 \in Controllers
        /\ c0.rev = c.rev + 1 /\ c0.sent = c.state
        /\ c0.on = c.on /\ c0.state = c.state /\ c0.applied = c.applied
        /\ c0.timer = c.timer /\ c0.late = c.late
    <3>1. alone \in BOOLEAN
      OBVIOUS
    <3> HIDE DEF alone
    <3>2. c0 \in Controllers
      <4>1. [c EXCEPT !.rev = @ + 1] \in Controllers
        BY <2>2 DEF Controllers
      <4>2. \A d \in Controllers : [d EXCEPT !.sent = c.state] \in Controllers
        BY <2>2 DEF Controllers
      <4>3. \A d \in Controllers : [d EXCEPT !.owed = alone] \in Controllers
        BY <3>1 DEF Controllers
      <4> QED
        BY <4>1, <4>2, <4>3
    <3>3. c0.rev = c.rev + 1 /\ c0.sent = c.state
      BY DEF Controllers
    <3> QED
      BY <3>2, <3>3 DEF Controllers
  <2>5. /\ m0.kind = "state" /\ m0.origin = w /\ m0.rev = c.rev + 1
        /\ m0.payload = c.state /\ m0.asked = force
    BY DEF StateMessage
  <2>6. ~force => c.state[1] = w
    BY <1>2 DEF Own
  <2> HIDE DEF m0, c0, alone
  <2>7. <<m0>> \in Seq(Messages) /\ \A m : In(m, <<m0>>) => m = m0
    BY <2>3 DEF In
  <2>8. Fresh(w, c, c0, <<m0>>)
    BY <2>2, <2>4, <2>5, <2>6, <2>7 DEF Fresh
  <2>9. Fresh(w, c, c0, <<>>)
    BY <2>2, <2>4, NoneIn DEF Fresh
  <2> QED
    BY <2>1, <2>4, <2>8, <2>9 DEF Publication
<1> QED
  BY <1>1, <1>2

LEMMA ForcedIsFresh ==
    ASSUME NEW w \in Windows, NEW c \in Controllers, NEW cs,
           NEW r, r = PublishNow(w, c, cs, TRUE)
    PROVE  Publication(w, c, r) /\ (Own(w, c) => Own(w, r.ctl))
<1> DEFINE yes == TRUE
<1>1. yes \in BOOLEAN /\ yes /\ r = PublishNow(w, c, cs, yes)
  OBVIOUS
<1> HIDE DEF yes
<1>2. Publication(w, c, r)
  BY <1>1, PublishIsFresh
<1> QED
  BY <1>2 DEF Own, Publication

LEMMA ScheduleIsFresh ==
    ASSUME NEW w \in Windows, NEW c \in Controllers, ~c.on \/ Own(w, c),
           NEW r \in SchedulePublish(w, c)
    PROVE  /\ Fresh(w, c, r.ctl, r.out)
           /\ r.ctl.on = c.on /\ r.ctl.state = c.state /\ r.ctl.applied = c.applied
           /\ r.ctl.late = c.late
           /\ c.on => Own(w, r.ctl)
<1> DEFINE off == [c EXCEPT !.timer = FALSE]
           armed == [c EXCEPT !.timer = TRUE]
<1>1. /\ off \in Controllers /\ off.on = c.on /\ off.state = c.state /\ off.applied = c.applied
      /\ off.late = c.late /\ off.rev = c.rev /\ off.sent = c.sent
  BY DEF Controllers
<1>2. /\ armed \in Controllers /\ armed.on = c.on /\ armed.state = c.state
      /\ armed.applied = c.applied
      /\ armed.late = c.late /\ armed.rev = c.rev /\ armed.sent = c.sent
  BY DEF Controllers
<1> HIDE DEF off, armed
<1>3. r \in {Nothing(c), PublishNow(w, off, conns, FALSE), Nothing(armed)}
  BY DEF SchedulePublish, off, armed
<1>4. CASE r = Nothing(c)
  <2>1. r.ctl = c /\ r.out = <<>> /\ Fresh(w, c, c, <<>>)
    BY <1>4, NothingIsFresh DEF Nothing
  <2> QED
    BY <2>1
<1>5. CASE r = Nothing(armed)
  BY <1>2, <1>5, NothingIsFresh DEF Nothing, Own
<1>6. CASE r = PublishNow(w, off, conns, FALSE)
  <2>1. ~off.on \/ Own(w, off)
    BY <1>1 DEF Own
  <2>2. /\ Fresh(w, off, r.ctl, r.out)
        /\ r.ctl.on = off.on /\ r.ctl.state = off.state /\ r.ctl.applied = off.applied
        /\ r.ctl.late = off.late
        /\ r.ctl.sent \in {off.sent, off.state}
    <3> DEFINE no == FALSE
    <3>1. r = PublishNow(w, off, conns, no) /\ no \in BOOLEAN
      BY <1>6
    <3> HIDE DEF no
    <3>2. Publication(w, off, r)
      BY <1>1, <2>1, <3>1, PublishIsFresh
    <3> QED
      BY <3>2 DEF Publication
  <2>3. Fresh(w, c, r.ctl, r.out)
    BY <1>1, <2>2 DEF Fresh
  <2>4. c.on => Own(w, r.ctl)
    BY <1>1, <2>2 DEF Own
  <2> QED
    BY <1>1, <2>2, <2>3, <2>4
<1> QED
  BY <1>3, <1>4, <1>5, <1>6

LEMMA FreshThen ==
    ASSUME NEW w, NEW a \in Controllers, NEW b, NEW c, NEW o, NEW p,
           Fresh(w, a, b, o), Fresh(w, b, c, p)
    PROVE  Fresh(w, a, c, o \o p)
<1>1. o \in Seq(Messages) /\ p \in Seq(Messages) /\ b \in Controllers /\ c \in Controllers
  BY DEF Fresh
<1>2. a.rev \in Nat /\ b.rev \in Nat /\ c.rev \in Nat /\ b.rev >= a.rev /\ c.rev >= b.rev
  BY <1>1, OfController DEF Fresh
<1>3. o \o p \in Seq(Messages) /\ \A m : In(m, o \o p) => In(m, o) \/ In(m, p)
  BY <1>1, ConcatProperties, InConcat
<1>4. \A m : In(m, o) \/ In(m, p) => m \in Messages
  BY <1>1 DEF In
<1>5. \A m \in Messages : m.rev \in Nat
  BY OfMessage
<1>6. ASSUME NEW m, In(m, o \o p), m.kind = "state"
      PROVE  /\ m.origin = w /\ m.rev > a.rev /\ m.rev <= c.rev
             /\ ~m.asked => m.payload[1] = w
  <2>1. m.rev \in Nat /\ (In(m, o) \/ In(m, p))
    BY <1>3, <1>4, <1>5, <1>6
  <2>2. CASE In(m, o)
    BY <1>2, <1>6, <2>1, <2>2 DEF Fresh
  <2>3. CASE In(m, p)
    BY <1>2, <1>6, <2>1, <2>3 DEF Fresh
  <2> QED
    BY <2>1, <2>2, <2>3
<1>7. ASSUME NEW m, NEW n, In(m, o \o p), In(n, o \o p), m.kind = "state", n.kind = "state",
             m.rev = n.rev
      PROVE  m.payload = n.payload
  <2>1. /\ m.rev \in Nat /\ n.rev \in Nat
        /\ In(m, o) \/ In(m, p)
        /\ In(n, o) \/ In(n, p)
    BY <1>3, <1>4, <1>5, <1>7
  <2>2. /\ In(m, o) => m.rev <= b.rev
        /\ In(n, o) => n.rev <= b.rev
        /\ In(m, p) => m.rev > b.rev
        /\ In(n, p) => n.rev > b.rev
    BY <1>7 DEF Fresh
  <2>3. (In(m, o) /\ In(n, o)) \/ (In(m, p) /\ In(n, p))
    BY <1>2, <1>7, <2>1, <2>2
  <2> QED
    BY <1>7, <2>3 DEF Fresh
<1> QED
  BY <1>1, <1>2, <1>3, <1>6, <1>7 DEF Fresh

-----------------------------------------------------------------------------
(* What a step of window w can do to the group: it changes its controller,   *)
(* sends what is fresh, or applies a state that is under way.                *)
HearsOne(w, c) ==
    \/ c.applied = ctl[w].applied /\ shown' = shown
    \/ \E m \in Messages :
        /\ Carried(m, conns) /\ m.kind = "state"
        /\ c.applied = <<m.origin, m.rev>>
        /\ shown' = [shown EXCEPT ![w] = m.payload]

Shape(w, on) ==
    \E c \in Controllers : \E out \in Seq(Messages) :
        /\ ctl' = [ctl EXCEPT ![w] = c]
        /\ c.on = on
        /\ Fresh(w, ctl[w], c, out)
        /\ Steady(w, c)
        /\ conns' \in Seq(Connections)
        /\ \A m : Carried(m, conns') => Carried(m, conns) \/ In(m, out)
        /\ HearsOne(w, c)

Typed ==
    /\ conns \in Seq(Connections)
    /\ ctl \in [Windows -> Controllers]
    /\ shown \in [Windows -> Values \cup {None}]
    /\ acts \in [joins : Nat, edits : 0..MaxEdits, reverts : Nat, upsets : Nat]
    /\ \A w \in Windows : Steady(w, ctl[w])

(* Publishing r over connections cs has the shape of a step.                 *)
LEMMA SendShape ==
    ASSUME Typed, NEW w \in Windows, NEW cs \in Seq(Connections), NEW c, NEW out,
           \A m : Carried(m, cs) => Carried(m, conns),
           Fresh(w, ctl[w], c, out), Steady(w, c), c.applied = ctl[w].applied, shown' = shown,
           ctl' = [ctl EXCEPT ![w] = c], conns' = Emit(cs, w, out)
    PROVE  Shape(w, c.on)
<1>1. c \in Controllers /\ out \in Seq(Messages)
  BY DEF Fresh
<1>2. conns' \in Seq(Connections) /\ \A m : Carried(m, conns') => Carried(m, conns) \/ In(m, out)
  BY <1>1, EmitSends
<1> QED
  BY <1>1, <1>2 DEF Shape, HearsOne

(* Nothing is sent, and w is left with c.                                    *)
LEMMA QuietShape ==
    ASSUME Typed, NEW w \in Windows, NEW c \in Controllers,
           c.rev = ctl[w].rev, Steady(w, c), c.applied = ctl[w].applied, shown' = shown,
           ctl' = [ctl EXCEPT ![w] = c],
           conns' \in Seq(Connections), \A m : Carried(m, conns') => Carried(m, conns)
    PROVE  Shape(w, c.on)
<1>1. Fresh(w, ctl[w], c, <<>>) /\ <<>> \in Seq(Messages)
  BY NothingIsFresh DEF Typed
<1> QED
  BY <1>1 DEF Shape, HearsOne

LEMMA StillShape ==
    ASSUME Typed, NEW w \in Windows, UNCHANGED <<ctl, shown>>,
           conns' \in Seq(Connections), \A m : Carried(m, conns') => Carried(m, conns)
    PROVE  Shape(w, ctl[w].on)
<1>1. ctl' = [ctl EXCEPT ![w] = ctl[w]] /\ ctl[w] \in Controllers /\ Steady(w, ctl[w])
  BY DEF Typed
<1> QED
  BY <1>1, QuietShape

LEMMA JoinShape ==
    ASSUME Typed, NEW w \in Windows, Join(w)
    PROVE  Shape(w, TRUE)
<1> DEFINE c == [ctl[w] EXCEPT !.on = TRUE, !.wanting = TRUE]
<1>1. /\ c \in Controllers /\ c.rev = ctl[w].rev /\ c.applied = ctl[w].applied /\ c.on = TRUE
      /\ c.timer = ctl[w].timer /\ c.late = ctl[w].late
  BY DEF Typed, Controllers
<1>2. ctl' = [ctl EXCEPT ![w] = c] /\ ~ctl[w].timer /\ ~ctl[w].late /\ conns' = conns /\ shown' = shown
  BY DEF Join, Disturbs, Typed
<1> HIDE DEF c
<1>3. Steady(w, c)
  BY <1>1, <1>2 DEF Steady
<1> QED
  BY <1>1, <1>2, <1>3, QuietShape DEF Typed

LEMMA LeaveShape ==
    ASSUME Typed, NEW w \in Windows, Leave(w)
    PROVE  Shape(w, FALSE)
<1> DEFINE c == [ctl[w] EXCEPT !.on = FALSE, !.sent = None, !.owed = FALSE, !.late = FALSE]
<1>1. /\ c \in Controllers /\ c.rev = ctl[w].rev /\ c.applied = ctl[w].applied /\ c.on = FALSE
  BY DEF Typed, Controllers
<1>2. ctl' = [ctl EXCEPT ![w] = c] /\ conns' = Hangup(conns, w) /\ shown' = shown
  BY DEF Leave, Disturbs, Stop, Typed
<1> HIDE DEF c
<1>3. Steady(w, c)
  BY <1>1 DEF Steady
<1>4. conns' \in Seq(Connections) /\ \A m : Carried(m, conns') => Carried(m, conns)
  BY <1>2, HangupKeeps DEF Typed
<1> QED
  BY <1>1, <1>2, <1>3, <1>4, QuietShape

LEMMA CrashShape ==
    ASSUME Typed, NEW w \in Windows, CrashWindow(w)
    PROVE  Shape(w, ctl[w].on)
BY HangupKeeps, StillShape DEF CrashWindow, Disturbs, Crash, Typed

LEMMA EditedIsOwn ==
    ASSUME Typed, NEW w \in Windows, acts.edits < MaxEdits
    PROVE  LET c == Edited(w)
           IN /\ c \in Controllers /\ c.on = ctl[w].on /\ c.rev = ctl[w].rev
              /\ c.applied = ctl[w].applied /\ c.late = ctl[w].late
              /\ Own(w, c)
<1>1. <<w, acts.edits + 1>> \in Values
  BY SyncAssumption DEF Typed, Values
<1>2. /\ Edited(w) \in Controllers /\ Edited(w).on = ctl[w].on /\ Edited(w).rev = ctl[w].rev
      /\ Edited(w).applied = ctl[w].applied /\ Edited(w).late = ctl[w].late
      /\ Edited(w).state = <<w, acts.edits + 1>>
  BY <1>1 DEF Edited, Controllers, Typed
<1> QED
  BY <1>2 DEF Own

(* An edit that is off the facet or on it.                                   *)
LEMMA EditShape ==
    ASSUME Typed, NEW w \in Windows, Edit(w)
    PROVE  Shape(w, ctl[w].on)
<1> DEFINE c == Edited(w)
<1>1. acts.edits < MaxEdits /\ shown' = shown
  BY DEF Edit, Disturbs, historyVars
<1>2. /\ c \in Controllers /\ c.on = ctl[w].on /\ c.rev = ctl[w].rev
      /\ c.applied = ctl[w].applied /\ c.late = ctl[w].late
      /\ Own(w, c)
  BY <1>1, EditedIsOwn
<1>3. PICK r \in SchedulePublish(w, c) : Publishes(w, r)
  BY DEF Edit
<1> HIDE DEF c
<1>4. /\ Fresh(w, c, r.ctl, r.out)
      /\ r.ctl.on = c.on /\ r.ctl.applied = c.applied
      /\ c.on => Own(w, r.ctl)
  BY <1>2, ScheduleIsFresh
<1>5. Fresh(w, ctl[w], r.ctl, r.out)
  BY <1>2, <1>4 DEF Fresh
<1>6. Steady(w, r.ctl)
  BY <1>4 DEF Steady
<1>7. ctl' = [ctl EXCEPT ![w] = r.ctl] /\ conns' = Emit(conns, w, r.out) /\ conns \in Seq(Connections)
  BY <1>3 DEF Publishes, Typed
<1>8. Shape(w, r.ctl.on)
  BY <1>1, <1>2, <1>4, <1>5, <1>6, <1>7, SendShape
<1> QED
  BY <1>2, <1>4, <1>8

LEMMA OutReplaced ==
    ASSUME NEW q, NEW x, NEW y, q = [ctl |-> x, out |-> y], NEW o
    PROVE  [q EXCEPT !.out = o \o @].ctl = x /\ [q EXCEPT !.out = o \o @].out = o \o y
<1> DEFINE z == o \o y
<1>1. q.out = y /\ q.ctl = x /\ "out" \in DOMAIN q /\ "ctl" \in DOMAIN q
  OBVIOUS
<1>2. [q EXCEPT !.out = o \o @] = [q EXCEPT !.out = z]
  BY <1>1
<1> HIDE DEF z
<1>3. [q EXCEPT !.out = z].ctl = x /\ [q EXCEPT !.out = z].out = z
  BY <1>1
<1> QED
  BY <1>2, <1>3 DEF z

LEMMA RevertShape ==
    ASSUME Typed, NEW w \in Windows, Revert(w)
    PROVE  Shape(w, ctl[w].on)
<1> DEFINE c == Edited(w)
<1>1. acts.edits < MaxEdits /\ shown' = shown
  BY DEF Revert, Disturbs, historyVars
<1>2. /\ c \in Controllers /\ c.on = ctl[w].on /\ c.rev = ctl[w].rev
      /\ c.applied = ctl[w].applied /\ c.late = ctl[w].late
      /\ Own(w, c)
  BY <1>1, EditedIsOwn
<1>3. PICK r \in SchedulePublish(w, c) :
        LET d == [r.ctl EXCEPT !.wanting = FALSE, !.ignoring = @ \/ r.ctl.wanting]
            q == PublishNow(w, d, conns, TRUE)
        IN Publishes(w, [q EXCEPT !.out = r.out \o @])
  BY DEF Revert
<1> HIDE DEF c
<1>4. /\ Fresh(w, c, r.ctl, r.out)
      /\ r.ctl.on = c.on /\ r.ctl.applied = c.applied
      /\ c.on => Own(w, r.ctl)
  BY <1>2, ScheduleIsFresh
<1>5. Fresh(w, ctl[w], r.ctl, r.out) /\ r.ctl \in Controllers
  BY <1>2, <1>4 DEF Fresh
<1> DEFINE d == [r.ctl EXCEPT !.wanting = FALSE, !.ignoring = @ \/ r.ctl.wanting]
<1>6. /\ d \in Controllers /\ d.on = r.ctl.on /\ d.applied = r.ctl.applied
      /\ d.rev = r.ctl.rev /\ d.state = r.ctl.state /\ d.sent = r.ctl.sent
  BY <1>5 DEF Controllers
<1> HIDE DEF d
<1>7. Fresh(w, ctl[w], d, r.out)
  BY <1>5, <1>6 DEF Fresh
<1>q. PICK q : q = PublishNow(w, d, conns, TRUE) /\ Publishes(w, [q EXCEPT !.out = r.out \o @])
  BY <1>3 DEF d
<1>8. /\ q = [ctl |-> q.ctl, out |-> q.out]
      /\ Fresh(w, d, q.ctl, q.out)
      /\ q.ctl.on = d.on /\ q.ctl.applied = d.applied
      /\ Own(w, d) => Own(w, q.ctl)
  <2>1. Publication(w, d, q) /\ (Own(w, d) => Own(w, q.ctl))
    BY <1>6, <1>q, ForcedIsFresh
  <2> QED
    BY <2>1 DEF Publication
<1>9. Fresh(w, ctl[w], q.ctl, r.out \o q.out)
  BY <1>7, <1>8, FreshThen DEF Typed
<1>10. Steady(w, q.ctl)
  BY <1>4, <1>6, <1>8 DEF Steady, Own
<1>11. ctl' = [ctl EXCEPT ![w] = q.ctl] /\ conns' = Emit(conns, w, r.out \o q.out)
  BY <1>8, <1>q, OutReplaced DEF Publishes
<1>12. Shape(w, q.ctl.on)
  BY <1>1, <1>2, <1>4, <1>6, <1>8, <1>9, <1>10, <1>11, SendShape DEF Typed
<1> QED
  BY <1>2, <1>4, <1>6, <1>8, <1>12

LEMMA StartShape ==
    ASSUME Typed, path \in Windows \cup {Nobody}, NEW w \in Windows, Starting(w)
    PROVE  Shape(w, ctl[w].on)
<1>0. UNCHANGED <<ctl, shown>> /\ conns \in Seq(Connections) /\ ctl[w] \in Controllers
  BY DEF Starting, historyVars, Typed
<1>1. CASE conns' = conns
  BY <1>0, <1>1, StillShape
<1>2. CASE conns' # conns
  <2> DEFINE m0 == RequestMessage(w)
  <2>1. PICK first : /\ first \in {<<>>, <<m0>>} /\ Served
                     /\ conns' = Append(conns, Connection(w, path, first))
    BY <1>2 DEF Starting, Connect, Listen, RemoveServer, Relisten
  <2>2. m0 \in Messages /\ m0.kind = "request"
    BY DEF RequestMessage, Messages
  <2> HIDE DEF m0
  <2>3. first \in Seq(Messages) /\ (\A m : In(m, first) => m.kind = "request") /\ <<>> \in Seq(Messages)
    <3>1. <<m0>> \in Seq(Messages) /\ \A m : In(m, <<m0>>) => m = m0
      BY <2>2 DEF In
    <3>2. <<>> \in Seq(Messages)
      OBVIOUS
    <3>3. CASE first = <<>>
      BY <3>2, <3>3, NoneIn
    <3>4. CASE first = <<m0>>
      BY <2>2, <3>1, <3>2, <3>4
    <3> QED
      BY <2>1, <3>3, <3>4
  <2>4. Connection(w, path, first) \in Connections
    BY <2>1, <2>3 DEF Connection, Connections, Served
  <2>5. conns' \in Seq(Connections) /\ \A m : Carried(m, conns') => Carried(m, conns) \/ In(m, first)
    <3> DEFINE x == Connection(w, path, first)
    <3>1. x.up = first /\ x.down = <<>>
      BY DEF Connection
    <3> HIDE DEF x
    <3>2. /\ conns' \in Seq(Connections) /\ Len(conns') = Len(conns) + 1 /\ Len(conns) \in Nat
          /\ \A i \in 1..Len(conns) : conns'[i] = conns[i]
          /\ conns'[Len(conns) + 1] = x
      BY <1>0, <2>1, <2>4, AppendProperties DEF x
    <3>3. \A m : Carried(m, conns') => Carried(m, conns) \/ In(m, first)
      <4> SUFFICES ASSUME NEW m, Carried(m, conns') PROVE Carried(m, conns) \/ In(m, first)
        OBVIOUS
      <4>1. PICK i \in DOMAIN conns' : In(m, conns'[i].up) \/ In(m, conns'[i].down)
        BY DEF Carried
      <4>2. CASE i \in 1..Len(conns)
        <5>1. i \in DOMAIN conns /\ conns'[i] = conns[i]
          BY <1>0, <3>2, <4>2
        <5> QED
          BY <4>1, <5>1 DEF Carried
      <4>3. CASE i = Len(conns) + 1
        BY <3>1, <3>2, <4>1, <4>3, NoneIn
      <4> QED
        BY <3>2, <4>1, <4>2, <4>3
    <3> QED
      BY <3>2, <3>3
  <2>6. Fresh(w, ctl[w], ctl[w], first)
    BY <1>0, <2>3, OfController DEF Fresh
  <2>7. ctl' = [ctl EXCEPT ![w] = ctl[w]] /\ Steady(w, ctl[w])
    BY <1>0 DEF Typed
  <2> QED
    BY <1>0, <2>3, <2>5, <2>6, <2>7 DEF Shape, HearsOne
<1> QED
  BY <1>1, <1>2

LEMMA LoseBrokerShape ==
    ASSUME Typed, NEW w \in Windows, LoseBroker(w)
    PROVE  Shape(w, ctl[w].on)
<1>1. PICK i \in ClientOf(conns, w) : conns' = [conns EXCEPT ![i].linked = FALSE]
  BY DEF LoseBroker, ClientGone
<1>2. i \in DOMAIN conns /\ conns[i] \in Connections
  BY DEF ClientOf, Typed
<1> DEFINE x == [conns[i] EXCEPT !.linked = FALSE]
<1>3. x \in Connections /\ x.up = conns[i].up /\ x.down = conns[i].down
  BY <1>2 DEF Connections
<1>4. conns' = [conns EXCEPT ![i] = x]
  BY <1>1
<1> HIDE DEF x
<1>5. conns' \in Seq(Connections) /\ \A m : Carried(m, conns') => Carried(m, conns)
  BY <1>2, <1>3, <1>4, EndClosed DEF Typed
<1> QED
  BY <1>5, StillShape DEF LoseBroker, historyVars

LEMMA TimerShape ==
    ASSUME Typed, NEW w \in Windows, PublishTimer(w)
    PROVE  Shape(w, ctl[w].on)
<1> DEFINE c == [ctl[w] EXCEPT !.timer = FALSE]
           no == FALSE
<1>1. PICK r : r = PublishNow(w, c, conns, no) /\ Publishes(w, r)
  BY DEF PublishTimer
<1>2. /\ c \in Controllers /\ c.on = ctl[w].on /\ c.rev = ctl[w].rev /\ c.applied = ctl[w].applied
      /\ c.state = ctl[w].state /\ c.sent = ctl[w].sent
  BY DEF Typed, Controllers
<1>3. ~ctl[w].on \/ Own(w, ctl[w])
  BY DEF PublishTimer, Typed, Steady
<1>4. no \in BOOLEAN
  OBVIOUS
<1> HIDE DEF c, no
<1>5. ~c.on \/ Own(w, c)
  BY <1>2, <1>3 DEF Own
<1>6. Publication(w, c, r)
  BY <1>1, <1>2, <1>4, <1>5, PublishIsFresh
<1>7. /\ Fresh(w, ctl[w], r.ctl, r.out) /\ Steady(w, r.ctl)
      /\ r.ctl.on = ctl[w].on /\ r.ctl.applied = ctl[w].applied
  BY <1>2, <1>5, <1>6 DEF Publication, Fresh, Steady, Own
<1>8. /\ ctl' = [ctl EXCEPT ![w] = r.ctl] /\ conns' = Emit(conns, w, r.out) /\ shown' = shown
      /\ conns \in Seq(Connections)
  BY <1>1 DEF Publishes, PublishTimer, historyVars, Typed
<1>9. Shape(w, r.ctl.on)
  BY <1>7, <1>8, SendShape
<1> QED
  BY <1>7, <1>9

LEMMA LateShape ==
    ASSUME Typed, NEW w \in Windows, LateCallback(w)
    PROVE  Shape(w, ctl[w].on)
<1> DEFINE c == [ctl[w] EXCEPT !.late = FALSE]
<1>1. PICK r \in SchedulePublish(w, c) : Publishes(w, r)
  BY DEF LateCallback
<1>2. /\ c \in Controllers /\ c.on = ctl[w].on /\ c.rev = ctl[w].rev /\ c.applied = ctl[w].applied
      /\ c.state = ctl[w].state /\ c.sent = ctl[w].sent
  BY DEF Typed, Controllers
<1>3. ~ctl[w].on \/ Own(w, ctl[w])
  BY DEF LateCallback, Typed, Steady
<1> HIDE DEF c
<1>5. ~c.on \/ Own(w, c)
  BY <1>2, <1>3 DEF Own
<1>6. /\ Fresh(w, c, r.ctl, r.out)
      /\ r.ctl.on = c.on /\ r.ctl.applied = c.applied
      /\ c.on => Own(w, r.ctl)
  BY <1>1, <1>2, <1>5, ScheduleIsFresh
<1>7. /\ Fresh(w, ctl[w], r.ctl, r.out) /\ Steady(w, r.ctl)
      /\ r.ctl.on = ctl[w].on /\ r.ctl.applied = ctl[w].applied
  BY <1>2, <1>6 DEF Fresh, Steady
<1>8. /\ ctl' = [ctl EXCEPT ![w] = r.ctl] /\ conns' = Emit(conns, w, r.out) /\ shown' = shown
      /\ conns \in Seq(Connections)
  BY <1>1 DEF Publishes, LateCallback, historyVars, Typed
<1>9. Shape(w, r.ctl.on)
  BY <1>7, <1>8, SendShape
<1> QED
  BY <1>7, <1>9

(* A message m is delivered to w, when it may have been relayed already.     *)
LEMMA DeliverShape ==
    ASSUME Typed, NEW w \in Windows, NEW cs \in Seq(Connections), NEW m \in Messages,
           \A n : Carried(n, cs) => Carried(n, conns), Carried(m, conns),
           Deliver(w, cs, m)
    PROVE  Shape(w, ctl[w].on)
<1> DEFINE c == ctl[w]
           r == OnMessage(w, c, cs, m)
           told == [c EXCEPT !.wanting = FALSE, !.ignoring = FALSE]
           done == Applied(told, m)
           later == [r.ctl EXCEPT !.late = TRUE]
<1>1. /\ c \in Controllers /\ Steady(w, c)
      /\ conns' = Emit(cs, w, r.out)
      /\ \/ ctl' = [ctl EXCEPT ![w] = r.ctl]
         \/ Applies(w, m) /\ ctl' = [ctl EXCEPT ![w] = later]
      /\ shown' = IF Applies(w, m) THEN [shown EXCEPT ![w] = m.payload] ELSE shown
  BY DEF Deliver, Hears, Typed
<1>2. CASE c.on /\ m.kind = "request"
  <2>1. ~Applies(w, m) /\ r = PublishNow(w, c, cs, TRUE)
    BY <1>2 DEF Applies, Wanted, OnMessage
  <2> HIDE DEF c, r
  <2>2. Publication(w, c, r) /\ (Own(w, c) => Own(w, r.ctl))
    BY <1>1, <2>1, ForcedIsFresh
  <2>3. /\ Fresh(w, c, r.ctl, r.out) /\ r.ctl.on = c.on /\ r.ctl.applied = c.applied
        /\ r.ctl.timer = c.timer /\ r.ctl.late = c.late
    BY <2>2 DEF Publication
  <2>4. Steady(w, r.ctl)
    BY <1>1, <2>2, <2>3 DEF Steady
  <2>5. Shape(w, r.ctl.on)
    BY <1>1, <2>1, <2>3, <2>4, SendShape DEF c
  <2> QED
    BY <2>3, <2>5 DEF c
<1>t. /\ told \in Controllers /\ told.on = c.on /\ told.rev = c.rev /\ told.applied = c.applied
      /\ told.timer = c.timer /\ told.late = c.late /\ told.state = c.state /\ told.sent = c.sent
  BY <1>1 DEF Controllers
<1>e. conns' \in Seq(Connections)
        /\ (r.out = <<>> => \A n : Carried(n, conns') => Carried(n, conns))
  <2>1. r.out \in Seq(Messages)
    <3>1. CASE c.on /\ m.kind = "request"
      <4>1. r = PublishNow(w, c, cs, TRUE)
        BY <3>1 DEF OnMessage
      <4> HIDE DEF c, r
      <4> QED
        BY <1>1, <4>1, ForcedIsFresh DEF Publication, Fresh
    <3>2. CASE ~(c.on /\ m.kind = "request")
      <4>1. r.out = <<>>
        BY <3>2 DEF OnMessage, Nothing
      <4> QED
        BY <4>1
    <3> QED
      BY <3>1, <3>2
  <2> HIDE DEF r
  <2> QED
    BY <1>1, <2>1, EmitSends, NoneIn
<1>3. CASE ~(c.on /\ m.kind = "request") /\ ~Applies(w, m)
  <2>1. r.ctl \in {c, told} /\ r.out = <<>>
    BY <1>3 DEF OnMessage, Nothing, Applies
  <2>2. ctl' = [ctl EXCEPT ![w] = r.ctl] /\ shown' = shown
    BY <1>1, <1>3
  <2> HIDE DEF c, r, told
  <2>3. /\ r.ctl \in Controllers /\ r.ctl.rev = c.rev /\ r.ctl.applied = c.applied /\ r.ctl.on = c.on
        /\ Steady(w, r.ctl)
    BY <1>1, <1>t, <2>1 DEF Steady, Own
  <2>4. Shape(w, r.ctl.on)
    BY <1>e, <2>1, <2>2, <2>3, QuietShape DEF c
  <2> QED
    BY <2>3, <2>4 DEF c
<1>4. CASE Applies(w, m)
  <2>1. r.ctl = done /\ r.out = <<>> /\ m.kind = "state" /\ c.on
    BY <1>4 DEF OnMessage, Nothing, Applies, Wanted
  <2>2. m.payload \in Values /\ <<m.origin, m.rev>> \in Windows \X (Nat \ {0})
    BY <2>1, OfMessage
  <2>3. /\ done \in Controllers /\ done.on = told.on /\ done.rev = told.rev
        /\ done.applied = <<m.origin, m.rev>>
        /\ done.state = m.payload /\ done.sent = m.payload
    <3> HIDE DEF told
    <3> QED
      BY <1>t, <2>2 DEF Applied, Controllers
  <2> HIDE DEF c, r, told, done
  <2>4. /\ later \in Controllers /\ later.on = done.on /\ later.rev = done.rev
        /\ later.applied = done.applied /\ later.state = done.state /\ later.sent = done.sent
    BY <2>1, <2>3 DEF Controllers
  <2>5. PICK d \in {done, later} : ctl' = [ctl EXCEPT ![w] = d]
    BY <1>1, <2>1
  <2> HIDE DEF later
  <2>6. /\ d \in Controllers /\ d.on = c.on /\ d.rev = c.rev /\ d.applied = <<m.origin, m.rev>>
        /\ Steady(w, d)
    BY <1>t, <2>3, <2>4, <2>5 DEF Steady, Own
  <2>7. Fresh(w, ctl[w], d, <<>>) /\ <<>> \in Seq(Messages)
    BY <1>1, <2>6, NothingIsFresh DEF c
  <2>8. HearsOne(w, d)
    BY <1>1, <1>4, <2>1, <2>6 DEF HearsOne
  <2> QED
    BY <1>e, <2>1, <2>5, <2>6, <2>7, <2>8 DEF Shape, c
<1> QED
  BY <1>2, <1>3, <1>4

LEMMA BrokerShape ==
    ASSUME Typed, NEW w \in Windows, BrokerReceive(w)
    PROVE  Shape(w, ctl[w].on)
<1>1. PICK i \in Peers(conns, w) :
        /\ conns[i].up # <<>>
        /\ LET m == Head(conns[i].up)
               rest == [conns EXCEPT ![i].up = Tail(@)]
           IN Deliver(w, Relay(rest, w, i, m), m)
  BY DEF BrokerReceive
<1> DEFINE m == Head(conns[i].up)
           rest == [conns EXCEPT ![i].up = Tail(@)]
<1>2. /\ rest \in Seq(Connections) /\ m \in Messages /\ Carried(m, conns)
      /\ \A n : Carried(n, rest) => Carried(n, conns)
  BY <1>1, Taken DEF Typed, Peers
<1>3. Deliver(w, Relay(rest, w, i, m), m)
  BY <1>1
<1> HIDE DEF m, rest
<1>4. /\ Relay(rest, w, i, m) \in Seq(Connections)
      /\ \A n : Carried(n, Relay(rest, w, i, m)) => Carried(n, conns)
  BY <1>2, RelaySends
<1> QED
  BY <1>2, <1>3, <1>4, DeliverShape

LEMMA ClientShape ==
    ASSUME Typed, NEW w \in Windows, ClientReceive(w)
    PROVE  Shape(w, ctl[w].on)
<1>1. PICK i \in ClientOf(conns, w) :
        /\ conns[i].down # <<>>
        /\ Deliver(w, [conns EXCEPT ![i].down = Tail(@)], Head(conns[i].down))
  BY DEF ClientReceive
<1>2. /\ [conns EXCEPT ![i].down = Tail(@)] \in Seq(Connections)
      /\ Head(conns[i].down) \in Messages /\ Carried(Head(conns[i].down), conns)
      /\ \A n : Carried(n, [conns EXCEPT ![i].down = Tail(@)]) => Carried(n, conns)
  BY <1>1, Taken DEF Typed, ClientOf
<1> QED
  BY <1>1, <1>2, DeliverShape

(* _on_peer_count_changed.                                                   *)
LEMMA CountChanged ==
    ASSUME Typed, NEW w \in Windows, NEW cs, NEW r, r = PeerCountChanged(w, cs)
    PROVE  /\ Fresh(w, ctl[w], r.ctl, r.out) /\ Steady(w, r.ctl)
           /\ r.ctl.on = ctl[w].on /\ r.ctl.applied = ctl[w].applied
<1>0. ctl[w] \in Controllers /\ Steady(w, ctl[w])
  BY DEF Typed
<1>1. CASE r = PublishNow(w, ctl[w], cs, TRUE)
  <2>1. Publication(w, ctl[w], r) /\ (Own(w, ctl[w]) => Own(w, r.ctl))
    BY <1>0, <1>1, ForcedIsFresh
  <2> QED
    BY <1>0, <2>1 DEF Publication, Steady
<1>2. CASE r = Nothing(ctl[w])
  BY <1>0, <1>2, NothingIsFresh DEF Nothing
<1> QED
  BY <1>1, <1>2 DEF PeerCountChanged

LEMMA PeerGoneShape ==
    ASSUME Typed, NEW w \in Windows, PeerGone(w)
    PROVE  Shape(w, ctl[w].on)
<1>1. PICK i \in Peers(conns, w) :
        LET cs == [conns EXCEPT ![i].side = "gone"]
            r == PeerCountChanged(w, cs)
        IN conns' = Emit(cs, w, r.out) /\ ctl' = [ctl EXCEPT ![w] = r.ctl]
  BY DEF PeerGone
<1> DEFINE x == [conns[i] EXCEPT !.side = "gone"]
           cs == [conns EXCEPT ![i].side = "gone"]
           r == PeerCountChanged(w, cs)
<1>2. i \in DOMAIN conns /\ conns[i] \in Connections
  BY DEF Peers, Typed
<1>3. x \in Connections /\ x.up = conns[i].up /\ x.down = conns[i].down
  BY <1>2 DEF Connections
<1>4. cs = [conns EXCEPT ![i] = x]
  OBVIOUS
<1>5. conns' = Emit(cs, w, r.out) /\ ctl' = [ctl EXCEPT ![w] = r.ctl]
  BY <1>1
<1> HIDE DEF x, cs
<1>6. cs \in Seq(Connections) /\ \A m : Carried(m, cs) => Carried(m, conns)
  BY <1>2, <1>3, <1>4, EndClosed DEF Typed
<1> HIDE DEF r
<1>7. /\ Fresh(w, ctl[w], r.ctl, r.out) /\ Steady(w, r.ctl)
      /\ r.ctl.on = ctl[w].on /\ r.ctl.applied = ctl[w].applied
  BY CountChanged DEF r
<1>8. shown' = shown
  BY DEF PeerGone, historyVars
<1>9. Shape(w, r.ctl.on)
  BY <1>5, <1>6, <1>7, <1>8, SendShape
<1> QED
  BY <1>7, <1>9

LEMMA AllPeers ==
    ASSUME NEW cs \in Seq(Connections), NEW S
    PROVE  LET ps == [k \in DOMAIN cs |-> IF k \in S THEN [cs[k] EXCEPT !.side = "peer"] ELSE cs[k]]
           IN ps \in Seq(Connections) /\ \A m : Carried(m, ps) => Carried(m, cs)
<1> DEFINE out(k) == IF k \in S THEN [cs[k] EXCEPT !.side = "peer"] ELSE cs[k]
           ps == [k \in DOMAIN cs |-> out(k)]
<1>1. ASSUME NEW k \in DOMAIN cs
      PROVE  out(k) \in Connections /\ out(k).up = cs[k].up /\ out(k).down = cs[k].down
  <2>1. cs[k] \in Connections
    OBVIOUS
  <2> QED
    BY <2>1 DEF Connections
<1> HIDE DEF out
<1>2. ps \in Seq(Connections) /\ DOMAIN ps = DOMAIN cs
  BY <1>1, Redone
<1>3. \A m : Carried(m, ps) => Carried(m, cs)
  BY <1>1, <1>2 DEF Carried
<1> QED
  BY <1>2, <1>3 DEF out

LEMMA AcceptShape ==
    ASSUME Typed, NEW w \in Windows, Accept(w)
    PROVE  Shape(w, ctl[w].on)
<1> DEFINE waiting == Pending(conns, w)
           i == Min(waiting)
           first == [conns EXCEPT ![i].side = "peer"]
           r == PeerCountChanged(w, first)
           told == Emit(first, w, r.out)
<1>1. /\ waiting # {}
      /\ conns' = [k \in DOMAIN told |-> IF k \in waiting THEN [told[k] EXCEPT !.side = "peer"]
                                         ELSE told[k]]
      /\ ctl' = [ctl EXCEPT ![w] = r.ctl] /\ shown' = shown
  BY DEF Accept, historyVars
<1>2. first \in Seq(Connections) /\ \A m : Carried(m, first) => Carried(m, conns)
  <2> HIDE DEF i
  <2>1. CASE i \in DOMAIN conns
    <3> DEFINE x == [conns[i] EXCEPT !.side = "peer"]
    <3>1. conns[i] \in Connections
      BY <2>1 DEF Typed
    <3>2. x \in Connections /\ x.up = conns[i].up /\ x.down = conns[i].down
      BY <3>1 DEF Connections
    <3>3. first = [conns EXCEPT ![i] = x]
      OBVIOUS
    <3> HIDE DEF x, first
    <3> QED
      BY <2>1, <3>2, <3>3, EndClosed DEF Typed
  <2>2. CASE i \notin DOMAIN conns
    <3>1. first = conns
      <4>1. conns = [k \in DOMAIN conns |-> conns[k]]
        BY DEF Typed
      <4> QED
        BY <2>2, <4>1
    <3> HIDE DEF first
    <3> QED
      BY <3>1 DEF Typed
  <2> QED
    BY <2>1, <2>2
<1> HIDE DEF waiting, first
<1>3. /\ Fresh(w, ctl[w], r.ctl, r.out) /\ Steady(w, r.ctl)
      /\ r.ctl.on = ctl[w].on /\ r.ctl.applied = ctl[w].applied
  <2> HIDE DEF r
  <2> QED
    BY CountChanged DEF r
<1> HIDE DEF r
<1>4. r.ctl \in Controllers /\ r.out \in Seq(Messages)
  BY <1>3 DEF Fresh
<1>5. told \in Seq(Connections) /\ \A m : Carried(m, told) => Carried(m, conns) \/ In(m, r.out)
  BY <1>2, <1>4, EmitSends
<1> HIDE DEF told
<1>6. conns' \in Seq(Connections) /\ \A m : Carried(m, conns') => Carried(m, conns) \/ In(m, r.out)
  BY <1>1, <1>5, AllPeers
<1>7. HearsOne(w, r.ctl)
  BY <1>1, <1>3 DEF HearsOne
<1> QED
  BY <1>1, <1>3, <1>4, <1>6, <1>7 DEF Shape

LEMMA RetryShape ==
    ASSUME Typed, NEW w \in Windows, Retry(w)
    PROVE  Shape(w, ctl[w].on)
BY StillShape DEF Retry, RetryStart, historyVars, Typed

-----------------------------------------------------------------------------
(* Types.                                                                    *)
Web ==
    /\ role \in [Windows -> Roles]
    /\ place \in [Windows -> Places]
    /\ path \in Windows \cup {Nobody}
    /\ calm \in BOOLEAN /\ skipped \in BOOLEAN

Inv == Typed /\ Web

(* Steps that leave roles and starts alone, and those that do not.           *)
Talk(w) ==
    \/ Edit(w) \/ Revert(w) \/ PublishTimer(w) \/ LateCallback(w)
    \/ BrokerReceive(w) \/ ClientReceive(w) \/ Accept(w) \/ PeerGone(w)

LEMMA TalkShape ==
    ASSUME Typed, NEW w \in Windows, Talk(w)
    PROVE  Shape(w, ctl[w].on) /\ UNCHANGED <<role, place, path>>
BY EditShape, RevertShape, TimerShape, LateShape, BrokerShape, ClientShape, AcceptShape, PeerGoneShape
DEF Talk, Edit, Revert, PublishTimer, LateCallback, BrokerReceive, ClientReceive, Accept, PeerGone,
    Deliver

\* A step of Next, without what it leaves in the history of overtakings.
Moves == \E w \in Windows : Act(w) \/ Step(w)

LEMMA SomeShape ==
    ASSUME Inv, Moves
    PROVE  \E w \in Windows : \E on \in BOOLEAN : Shape(w, on)
<1>1. PICK w \in Windows : Act(w) \/ Step(w)
  BY DEF Moves
<1>2. ctl[w].on \in BOOLEAN
  BY OfController DEF Inv, Typed
<1>3. CASE Talk(w)
  BY <1>2, <1>3, TalkShape DEF Inv
<1>4. CASE Join(w)
  BY <1>4, JoinShape DEF Inv
<1>5. CASE Leave(w)
  BY <1>5, LeaveShape DEF Inv
<1>6. CASE CrashWindow(w) \/ Starting(w) \/ Retry(w) \/ LoseBroker(w)
  BY <1>2, <1>6, CrashShape, StartShape, RetryShape, LoseBrokerShape DEF Inv, Web
<1> QED
  BY <1>1, <1>3, <1>4, <1>5, <1>6 DEF Act, Step, Talk

LEMMA ActsStep ==
    ASSUME Inv, Moves
    PROVE  acts' \in [joins : Nat, edits : 0..MaxEdits, reverts : Nat, upsets : Nat]
<1> DEFINE A == [joins : Nat, edits : 0..MaxEdits, reverts : Nat, upsets : Nat]
<1>0. acts \in A
  BY DEF Inv, Typed
<1>1. \A act \in {"joins", "reverts", "upsets"} : [acts EXCEPT ![act] = @ + 1] \in A
  BY <1>0
<1>2. acts.edits < MaxEdits => acts.edits + 1 \in 0..MaxEdits
  BY <1>0, SyncAssumption
<1>3. acts.edits < MaxEdits => [acts EXCEPT !.edits = @ + 1] \in A
  BY <1>0, <1>2
<1>4. acts.edits < MaxEdits => [acts EXCEPT !.edits = @ + 1, !.reverts = @ + 1] \in A
  <2> DEFINE b == [acts EXCEPT !.edits = @ + 1]
  <2>1. [acts EXCEPT !.edits = @ + 1, !.reverts = @ + 1] = [b EXCEPT !.reverts = @ + 1]
    BY <1>0
  <2>2. acts.edits < MaxEdits => b \in A
    BY <1>3
  <2> HIDE DEF b
  <2>3. b \in A => [b EXCEPT !.reverts = @ + 1] \in A
    OBVIOUS
  <2> HIDE DEF A
  <2> QED
    BY <2>1, <2>2, <2>3
<1>5. PICK w \in Windows : Act(w) \/ Step(w)
  BY DEF Moves
<1>t. SUFFICES acts' \in A
  OBVIOUS
<1> HIDE DEF A
<1>6. CASE Join(w) \/ Leave(w) \/ CrashWindow(w)
  <2>1. PICK act \in {"joins", "upsets"} : acts' = [acts EXCEPT ![act] = @ + 1]
    BY <1>6 DEF Join, Leave, CrashWindow, Counted
  <2> QED
    BY <1>1, <2>1
<1>7. CASE Edit(w)
  BY <1>3, <1>7 DEF Edit, Counted
<1>8. CASE Revert(w)
  BY <1>4, <1>8 DEF Revert
<1>9. CASE Step(w)
  <2>1. acts' = acts \/ acts' = [acts EXCEPT !["upsets"] = @ + 1]
    BY <1>9 DEF Step, Starting, Retry, LoseBroker, PublishTimer, LateCallback,
       BrokerReceive, ClientReceive, Accept, PeerGone, Deliver, Counted
  <2> QED
    BY <1>0, <1>1, <2>1
<1> QED
  BY <1>5, <1>6, <1>7, <1>8, <1>9 DEF Act

LEMMA ShapeTypes ==
    ASSUME Typed, NEW w \in Windows, NEW on, Shape(w, on)
    PROVE  /\ conns' \in Seq(Connections)
           /\ ctl' \in [Windows -> Controllers]
           /\ shown' \in [Windows -> Values \cup {None}]
           /\ \A v \in Windows : Steady(v, ctl'[v])
           /\ \A v \in Windows : ctl'[v].on = IF v = w THEN on ELSE ctl[v].on
<1>1. PICK c \in Controllers, out \in Seq(Messages) :
        /\ ctl' = [ctl EXCEPT ![w] = c]
        /\ c.on = on
        /\ Steady(w, c)
        /\ conns' \in Seq(Connections)
        /\ HearsOne(w, c)
  BY DEF Shape
<1>2. shown' \in [Windows -> Values \cup {None}]
  BY <1>1, OfMessage DEF HearsOne, Typed
<1> QED
  BY <1>1, <1>2 DEF Typed

LEMMA WebStep ==
    ASSUME Inv, Moves
    PROVE  Web'
<1>1. PICK w \in Windows : Act(w) \/ Step(w)
  BY DEF Moves
<1>2. role \in [Windows -> Roles] /\ place \in [Windows -> Places] /\ path \in Windows \cup {Nobody}
        /\ calm \in BOOLEAN /\ skipped \in BOOLEAN
  BY DEF Inv, Web
<1>3. role' \in [Windows -> Roles] /\ place' \in [Windows -> Places] /\ path' \in Windows \cup {Nobody}
  <2>1. CASE Talk(w)
    BY <1>2, <2>1, TalkShape DEF Inv
  <2>2. CASE Join(w) \/ Leave(w) \/ CrashWindow(w)
    BY <1>2, <2>2 DEF Join, Leave, CrashWindow, Stop, Crash, Roles, Places
  <2>3. CASE Starting(w)
    BY <1>2, <2>3 DEF Starting, Connect, Listen, RemoveServer, Relisten, Bind, Roles, Places
  <2>4. CASE Retry(w) \/ LoseBroker(w)
    BY <1>2, <2>4 DEF Retry, RetryStart, LoseBroker, ClientGone, Roles, Places
  <2> QED
    BY <1>1, <2>1, <2>2, <2>3, <2>4 DEF Act, Step, Talk
<1>4. calm' \in BOOLEAN /\ skipped' \in BOOLEAN
  <2>1. CASE Act(w)
    BY <1>2, <2>1 DEF Act, Join, Leave, CrashWindow, Edit, Revert, Disturbs, historyVars
  <2>2. CASE Step(w)
    BY <1>2, <2>2 DEF Step, Starting, Retry, LoseBroker, PublishTimer, LateCallback,
       BrokerReceive, ClientReceive, Accept, PeerGone, Deliver, Hears, historyVars
  <2> QED
    BY <1>1, <2>1, <2>2
<1> QED
  BY <1>3, <1>4 DEF Web

LEMMA InvInit == Init => Inv
<1> SUFFICES ASSUME Init PROVE Inv
  OBVIOUS
<1>1. \A w \in Windows : <<w, 0>> \in Values
  BY SyncAssumption DEF Values
<1>2. ctl \in [Windows -> Controllers]
  BY <1>1 DEF Init, Controllers
<1>3. \A w \in Windows : Steady(w, ctl[w])
  BY DEF Init, Steady
<1>4. acts \in [joins : Nat, edits : 0..MaxEdits, reverts : Nat, upsets : Nat]
  BY SyncAssumption DEF Init
<1>5. conns \in Seq(Connections) /\ shown \in [Windows -> Values \cup {None}]
  BY DEF Init, BusInit
<1>6. Web
  BY DEF Init, BusInit, Web, Roles, Places
<1> QED
  BY <1>2, <1>3, <1>4, <1>5, <1>6 DEF Inv, Typed

LEMMA MoveInv ==
    ASSUME Inv, Moves
    PROVE  Inv'
BY SomeShape, ShapeTypes, ActsStep, WebStep DEF Inv, Typed

LEMMA InvStep == Inv /\ [Next]_vars => Inv'
<1>1. ASSUME Inv, Next PROVE Inv'
  BY <1>1, MoveInv DEF Next, Moves
<1>2. ASSUME Inv, UNCHANGED vars PROVE Inv'
  BY <1>2 DEF Inv, Typed, Web, Steady, Own, vars, busVars, historyVars
<1> QED
  BY <1>1, <1>2

THEOREM InvHolds == Spec => []Inv
BY InvInit, InvStep, PTL DEF Spec

(* Every variable has its type, for any number of windows and of joins,      *)
(* edits, departures and crashes.                                            *)
THEOREM SyncTypes == Spec => []TypeOK
<1>1. Inv /\ overtaken \in BOOLEAN => TypeOK
  BY DEF Inv, Typed, Web, TypeOK
<1>2. Init => overtaken \in BOOLEAN
  BY DEF Init
<1>3. overtaken \in BOOLEAN /\ [Next]_vars => (overtaken \in BOOLEAN)'
  BY DEF Next, vars
<1> QED
  BY <1>1, <1>2, <1>3, InvHolds, PTL DEF Spec

-----------------------------------------------------------------------------
(* No echo.                                                                  *)
LEMMA EchoStep ==
    ASSUME Inv, NoEcho, [Next]_vars
    PROVE  NoEcho'
<1>1. CASE Next
  <2>1. PICK w \in Windows, on \in BOOLEAN : Shape(w, on)
    BY <1>1, SomeShape DEF Next, Moves
  <2>2. PICK c \in Controllers, out \in Seq(Messages) :
          /\ Fresh(w, ctl[w], c, out)
          /\ \A m : Carried(m, conns') => Carried(m, conns) \/ In(m, out)
    BY <2>1 DEF Shape
  <2>3. \A m : m \in UnderWay' => m \in UnderWay \/ In(m, out)
    BY <2>2, UnderWayIsCarried, UnderWayIsCarried' DEF UnderWay, Carried, In
  <2> QED
    BY <2>2, <2>3 DEF NoEcho, Fresh
<1>2. CASE UNCHANGED vars
  BY <1>2 DEF NoEcho, UnderWay, vars, busVars
<1> QED
  BY <1>1, <1>2

(* However late the callbacks of an applied state come, and whoever joins,   *)
(* leaves or crashes meanwhile, no window publishes unasked what another's   *)
(* user did.                                                                 *)
THEOREM NoEchoHolds == Spec => []NoEcho
<1>1. Init => NoEcho
  BY DEF Init, BusInit, NoEcho, UnderWay
<1>2. Inv /\ NoEcho /\ [Next]_vars => NoEcho'
  BY EchoStep
<1> QED
  BY <1>1, <1>2, InvHolds, PTL DEF Spec

-----------------------------------------------------------------------------
(* Revisions name states: within what its origin has counted to, a name is   *)
(* given to one payload, also in what a window applied last.                 *)
State(m) == Carried(m, conns) /\ m.kind = "state"
Names ==
    /\ \A m : State(m) => m.rev <= ctl[m.origin].rev
    /\ \A w \in Windows : ctl[w].applied # None =>
          ctl[w].applied[2] <= ctl[ctl[w].applied[1]].rev
    /\ \A m, n : State(m) /\ State(n) /\ m.origin = n.origin /\ m.rev = n.rev
                    => m.payload = n.payload
    /\ \A w \in Windows : \A m : State(m) /\ Known(ctl[w], m) => m.payload = shown[w]

(* What is under way is a message.                                           *)
LEMMA CarriedTyped ==
    ASSUME Typed, NEW m, Carried(m, conns)
    PROVE  m \in Messages
<1>1. PICK i \in DOMAIN conns : In(m, conns[i].up) \/ In(m, conns[i].down)
  BY DEF Carried
<1>2. conns[i].up \in Seq(Messages) /\ conns[i].down \in Seq(Messages)
  BY OfConnection DEF Typed
<1> QED
  BY <1>1, <1>2 DEF In

LEMMA NamesStep ==
    ASSUME Inv, Names, Next
    PROVE  Names'
<1>1. PICK w \in Windows, on \in BOOLEAN : Shape(w, on)
  BY SomeShape DEF Next, Moves
<1>2. PICK c \in Controllers, out \in Seq(Messages) :
        /\ ctl' = [ctl EXCEPT ![w] = c]
        /\ Fresh(w, ctl[w], c, out)
        /\ \A m : Carried(m, conns') => Carried(m, conns) \/ In(m, out)
        /\ HearsOne(w, c)
  BY <1>1 DEF Shape
<1>3. Typed /\ Typed'
  BY InvStep DEF Inv
<1>4. /\ \A m : State(m)' => m.kind = "state" /\ (State(m) \/ In(m, out))
      /\ \A m : State(m) \/ In(m, out) => m \in Messages
  BY <1>2, <1>3, CarriedTyped DEF State, In
<1>5. /\ ctl' \in [Windows -> Controllers] /\ ctl'[w] = c
      /\ \A v \in Windows \ {w} : ctl'[v] = ctl[v]
  BY <1>2, <1>3 DEF Typed
<1>6. \A v \in Windows : ctl[v].rev \in Nat /\ ctl'[v].rev \in Nat /\ ctl[v].rev <= ctl'[v].rev
  BY <1>2, <1>3, <1>5, OfController DEF Typed, Fresh
<1>7. \A m : In(m, out) /\ m.kind = "state" =>
        m.origin = w /\ m.rev > ctl[w].rev /\ m.rev <= c.rev
  BY <1>2 DEF Fresh
<1>8. \A m : State(m)' => m.rev <= ctl'[m.origin].rev
  <2> SUFFICES ASSUME NEW m, State(m)' PROVE m.rev <= ctl'[m.origin].rev
    OBVIOUS
  <2>1. m.origin \in Windows /\ m.rev \in Nat
    BY <1>4, OfMessage
  <2>2. CASE State(m)
    BY <1>6, <2>1, <2>2 DEF Names
  <2>3. CASE In(m, out)
    BY <1>4, <1>5, <1>7, <2>3
  <2> QED
    BY <1>4, <2>2, <2>3
<1>9. \A m, n : State(m)' /\ State(n)' /\ m.origin = n.origin /\ m.rev = n.rev
                  => m.payload = n.payload
  <2> SUFFICES ASSUME NEW m, NEW n, State(m)', State(n)', m.origin = n.origin, m.rev = n.rev
               PROVE  m.payload = n.payload
    OBVIOUS
  <2>1. /\ m.rev \in Nat /\ n.rev \in Nat /\ m.kind = "state" /\ n.kind = "state"
        /\ State(m) \/ In(m, out)
        /\ State(n) \/ In(n, out)
    BY <1>4, OfMessage
  <2>2. \A x : State(x) => x.rev <= ctl[x.origin].rev
    BY DEF Names
  <2>3. (State(m) /\ State(n)) \/ (In(m, out) /\ In(n, out))
    <3>1. ASSUME State(m), In(n, out) PROVE FALSE
      <4>1. m.rev <= ctl[w].rev /\ n.rev > ctl[w].rev
        BY <1>7, <2>1, <2>2, <3>1
      <4> QED
        BY <1>6, <2>1, <4>1
    <3>2. ASSUME State(n), In(m, out) PROVE FALSE
      <4>1. n.rev <= ctl[w].rev /\ m.rev > ctl[w].rev
        BY <1>7, <2>1, <2>2, <3>2
      <4> QED
        BY <1>6, <2>1, <4>1
    <3> QED
      BY <2>1, <3>1, <3>2
  <2>4. CASE State(m) /\ State(n)
    BY <2>4 DEF Names
  <2>5. CASE In(m, out) /\ In(n, out)
    BY <1>2, <2>1, <2>5 DEF Fresh
  <2> QED
    BY <2>3, <2>4, <2>5
<1>10. ASSUME NEW v \in Windows, ctl'[v].applied # None
       PROVE  ctl'[v].applied[2] <= ctl'[ctl'[v].applied[1]].rev
  <2>1. CASE ctl'[v].applied = ctl[v].applied
    <3>1. ctl[v].applied \in Windows \X (Nat \ {0})
      BY <1>3, <1>10, <2>1, OfController DEF Typed
    <3> QED
      BY <1>6, <1>10, <2>1, <3>1 DEF Names
  <2>2. CASE ctl'[v].applied # ctl[v].applied
    <3>1. PICK m \in Messages : Carried(m, conns) /\ m.kind = "state"
                                  /\ ctl'[v].applied = <<m.origin, m.rev>>
      BY <1>2, <1>5, <2>2 DEF HearsOne
    <3>2. m.rev <= ctl[m.origin].rev /\ m.rev \in Nat /\ m.origin \in Windows
      BY <3>1, OfMessage DEF Names, State
    <3> QED
      BY <1>6, <3>1, <3>2
  <2> QED
    BY <2>1, <2>2
<1>11. ASSUME NEW v \in Windows, NEW m, State(m)', Known(ctl'[v], m)
       PROVE  m.payload = shown'[v]
  <2>1. /\ m \in Messages /\ m.kind = "state" /\ m.origin \in Windows /\ m.rev \in Nat
        /\ ctl'[v].applied = <<m.origin, m.rev>>
    BY <1>4, <1>11, OfMessage DEF Known
  <2>2. CASE ctl'[v].applied = ctl[v].applied /\ shown'[v] = shown[v]
    <3>1. State(m)
      <4>1. CASE In(m, out)
        <5>1. m.origin = w /\ m.rev > ctl[w].rev
          BY <1>7, <2>1, <4>1
        <5>2. ctl[v].applied # None
          <6>1. <<m.origin, m.rev>> \in Windows \X Nat
            BY <2>1
          <6>2. ctl[v].applied = <<m.origin, m.rev>>
            BY <2>1, <2>2
          <6> QED
            BY <6>1, <6>2, SyncAssumption, Zenon
        <5>3. m.rev <= ctl[w].rev
          BY <2>1, <2>2, <5>1, <5>2 DEF Names
        <5> QED
          BY <1>6, <2>1, <5>1, <5>3
      <4> QED
        BY <1>4, <1>11, <4>1
    <3> QED
      BY <2>1, <2>2, <3>1 DEF Names, Known
  <2>3. CASE ~(ctl'[v].applied = ctl[v].applied /\ shown'[v] = shown[v])
    <3>1. PICK n \in Messages : /\ Carried(n, conns) /\ n.kind = "state"
                                /\ ctl'[v].applied = <<n.origin, n.rev>>
                                /\ shown'[v] = n.payload
      BY <1>2, <1>3, <1>5, <2>3 DEF HearsOne, Typed
    <3>2. State(n) /\ n.origin = m.origin /\ n.rev = m.rev /\ n.rev \in Nat
      BY <2>1, <3>1, OfMessage DEF State
    <3>3. State(m)
      <4>1. CASE In(m, out)
        <5>1. m.origin = w /\ m.rev > ctl[w].rev /\ n.rev <= ctl[w].rev
          BY <1>7, <2>1, <3>2, <4>1 DEF Names
        <5> QED
          BY <1>6, <2>1, <3>2, <5>1
      <4> QED
        BY <1>4, <1>11, <4>1
    <3> QED
      BY <3>1, <3>2, <3>3 DEF Names
  <2> QED
    BY <2>2, <2>3
<1> QED
  BY <1>8, <1>9, <1>10, <1>11 DEF Names

LEMMA NamesHold == Spec => []Names
<1>1. Init => Names
  BY DEF Init, BusInit, Names, State, Carried
<1>2. Inv /\ Names /\ [Next]_vars => Names'
  <2>1. ASSUME Names, UNCHANGED vars PROVE Names'
    BY <2>1 DEF Names, State, Known, Carried, vars, busVars, historyVars
  <2> QED
    BY <2>1, NamesStep
<1> QED
  BY <1>1, <1>2, InvHolds, PTL DEF Spec

(* "receivers drop duplicates they have already applied" and only those, for *)
(* any number of edits, forced publications and departures.                  *)
THEOREM DropsHold == Spec => []DropsOnlyDuplicates
<1>1. Inv /\ Names => DropsOnlyDuplicates
  <2> SUFFICES ASSUME Inv, Names PROVE DropsOnlyDuplicates
    OBVIOUS
  <2>1. ASSUME NEW w \in Windows, NEW m, Carried(m, conns), Known(ctl[w], m)
        PROVE  m.payload = shown[w]
    <3>1. m \in Messages
      BY <2>1, CarriedTyped DEF Inv
    <3>2. ctl[w].applied \in (Windows \X (Nat \ {0})) \cup {None}
      BY OfController DEF Inv, Typed
    <3>3. m.origin \in Windows /\ m.rev \in Nat /\ ctl[w].applied = <<m.origin, m.rev>>
      BY <2>1, <3>1, OfMessage DEF Known
    <3>4. m.rev # 0
      BY <3>2, <3>3, SyncAssumption
    <3>5. State(m)
      BY <2>1, <3>1, <3>4, OfMessage DEF State
    <3> QED
      BY <2>1, <3>5 DEF Names
  <2>2. \A i \in DOMAIN conns : conns[i].client \in Windows /\ conns[i].server \in Windows
    BY OfConnection DEF Inv, Typed
  <2> QED
    BY <2>1, <2>2 DEF DropsOnlyDuplicates, Carried, In
<1> QED
  BY <1>1, InvHolds, NamesHold, PTL DEF Spec

-----------------------------------------------------------------------------
(* One broker.  As long as no start was overtaken, a broker is who bound the *)
(* path, and whose connection failed still finds no broker when it removes.  *)
Elections ==
    /\ \A w \in Windows : role[w] = "broker" => path = w
    /\ \A w \in Windows : place[w] \in {"listen", "remove"} =>
          \A v \in Windows : role[v] # "broker"
    /\ \A w \in Windows : place[w] # "out" =>
          role[w] \in {"stopped", "connecting"} /\ ctl[w].on
    /\ \A w \in Windows : ~ctl[w].on => role[w] \in {"stopped", "crashed"}

LEMMA ElectionsStep ==
    ASSUME Inv, Elections, Next, ~overtaken'
    PROVE  Elections'
<1>1. PICK w \in Windows : (Act(w) \/ Step(w)) /\ ~Overtakes(w)
  BY DEF Next
<1>2. role \in [Windows -> Roles] /\ place \in [Windows -> Places] /\ Nobody \notin Windows
  BY SyncAssumption DEF Inv, Web
<1>3. CASE Talk(w)
  <2>1. UNCHANGED <<role, place, path>> /\ \A v \in Windows : ctl'[v].on = ctl[v].on
    BY <1>3, TalkShape, ShapeTypes DEF Inv
  <2> QED
    BY <2>1 DEF Elections
<1>4. CASE Join(w)
  <2>1. \A v \in Windows : ctl'[v].on = IF v = w THEN TRUE ELSE ctl[v].on
    BY <1>4, JoinShape, ShapeTypes DEF Inv
  <2>2. /\ Idle(w) /\ ~ctl[w].on /\ role' = role /\ path' = path
        /\ place' = [place EXCEPT ![w] = "connect"]
    BY <1>4 DEF Join
  <2>3. role[w] = "stopped"
    BY <2>2 DEF Elections, Idle
  <2> QED
    BY <1>2, <2>1, <2>2, <2>3 DEF Elections
<1>5. CASE Leave(w)
  <2>1. \A v \in Windows : ctl'[v].on = IF v = w THEN FALSE ELSE ctl[v].on
    BY <1>5, LeaveShape, ShapeTypes DEF Inv
  <2>2. /\ Idle(w) /\ role' = [role EXCEPT ![w] = "stopped"] /\ place' = place
        /\ path' = IF role[w] = "broker" THEN Nobody ELSE path
    BY <1>5 DEF Leave, Stop
  <2> QED
    BY <1>2, <2>1, <2>2 DEF Elections, Idle
<1>6. CASE CrashWindow(w)
  <2>1. /\ role' = [role EXCEPT ![w] = "crashed"] /\ path' = path /\ ctl' = ctl
        /\ place' = [place EXCEPT ![w] = "out"]
    BY <1>6 DEF CrashWindow, Crash
  <2> QED
    BY <1>2, <2>1 DEF Elections
<1>7. CASE Starting(w)
  <2>0. ctl' = ctl
    BY <1>7 DEF Starting
  <2>1. CASE place[w] = "connect" /\ Served /\ role' = [role EXCEPT ![w] = "client"]
             /\ place' = [place EXCEPT ![w] = "out"] /\ path' = path
    BY <1>2, <2>0, <2>1 DEF Elections
  <2>2. CASE place[w] = "connect" /\ ~Served /\ role' = role
             /\ place' = [place EXCEPT ![w] = "listen"] /\ path' = path
    <3>1. \A v \in Windows : role[v] # "broker"
      BY <1>2, <2>2 DEF Elections, Served
    <3> QED
      BY <1>2, <2>0, <2>2, <3>1 DEF Elections
  <2>3. CASE place[w] \in {"listen", "relisten"} /\ path = Nobody /\ Bind(w)
    <3>1. \A v \in Windows : role[v] # "broker"
      BY <1>2, <2>3 DEF Elections
    <3>2. path' = w /\ role' = [role EXCEPT ![w] = "broker"] /\ place' = [place EXCEPT ![w] = "out"]
      BY <2>3 DEF Bind
    <3>3. \A v \in Windows \ {w} : place[v] \notin {"listen", "remove"}
      BY <1>1, <1>2, <3>1, <3>2 DEF Overtakes
    <3> QED
      BY <1>2, <2>0, <2>3, <3>1, <3>2, <3>3 DEF Elections
  <2>4. CASE place[w] = "listen" /\ role' = role /\ path' = path
             /\ place' = [place EXCEPT ![w] = "remove"]
    BY <1>2, <2>0, <2>4 DEF Elections
  <2>5. CASE RemoveServer(w)
    BY <1>2, <2>0, <2>5 DEF Elections, RemoveServer
  <2>6. CASE place[w] = "relisten" /\ role' = [role EXCEPT ![w] = "connecting"] /\ path' = path
             /\ place' = [place EXCEPT ![w] = "out"]
    BY <1>2, <2>0, <2>6 DEF Elections
  <2> QED
    BY <1>7, <2>1, <2>2, <2>3, <2>4, <2>5, <2>6
    DEF Starting, Connect, Listen, Relisten
<1>8. CASE Retry(w)
  <2>1. /\ Idle(w) /\ ctl' = ctl /\ role[w] = "connecting" /\ role' = role /\ path' = path
        /\ place' = [place EXCEPT ![w] = "connect"]
    BY <1>8 DEF Retry, RetryStart
  <2> QED
    BY <1>2, <2>1 DEF Elections, Idle
<1>9. CASE LoseBroker(w)
  <2>1. /\ Idle(w) /\ ctl' = ctl /\ role[w] = "client" /\ path' = path /\ place' = place
        /\ role' = [role EXCEPT ![w] = "connecting"]
    BY <1>9 DEF LoseBroker, ClientGone
  <2> QED
    BY <1>2, <2>1 DEF Elections, Idle
<1> QED
  BY <1>1, <1>3, <1>4, <1>5, <1>6, <1>7, <1>8, <1>9 DEF Act, Step, Talk

LEMMA ElectionsHold == Spec => [](~overtaken => Elections)
<1>1. Init => Elections
  BY DEF Init, BusInit, Elections
<1>2. Inv /\ (~overtaken => Elections) /\ [Next]_vars => (~overtaken => Elections)'
  <2> SUFFICES ASSUME Inv, ~overtaken => Elections, [Next]_vars, ~overtaken' PROVE Elections'
    OBVIOUS
  <2>1. CASE UNCHANGED vars
    BY <2>1 DEF Elections, vars, busVars
  <2>2. CASE Next
    <3>1. ~overtaken
      BY <2>2 DEF Next
    <3> QED
      BY <2>2, <3>1, ElectionsStep
  <2> QED
    BY <2>1, <2>2
<1> QED
  BY <1>1, <1>2, InvHolds, PTL DEF Spec

(* However starts, retries, exits and crashes interleave, there is a second  *)
(* broker only after one start bound the path while another, whose           *)
(* connection had failed before, was about to remove the socket it finds     *)
(* (start, _listen_as_broker).                                               *)
THEOREM OneBrokerHolds == Spec => []OneBroker
<1>1. (~overtaken => Elections) => OneBroker
  BY DEF Elections, OneBroker
<1> QED
  BY <1>1, ElectionsHold, PTL

-----------------------------------------------------------------------------
(* Who is linked to whom.  What emitting, relaying and reading do to the     *)
(* connections, end by end.                                                  *)
SameEnds(cs, ds) ==
    /\ ds \in Seq(Connections) /\ DOMAIN ds = DOMAIN cs
    /\ \A i \in DOMAIN cs : /\ ds[i].client = cs[i].client /\ ds[i].server = cs[i].server
                            /\ ds[i].linked = cs[i].linked

SameSides(cs, ds) == SameEnds(cs, ds) /\ \A i \in DOMAIN cs : ds[i].side = cs[i].side

LEMMA InJoined ==
    ASSUME NEW s \in Seq(Messages), NEW t \in Seq(Messages), NEW m
    PROVE  In(m, s \o t) <=> In(m, s) \/ In(m, t)
<1>1. /\ s \o t \in Seq(Messages) /\ Len(s \o t) = Len(s) + Len(t)
      /\ \A k \in 1..(Len(s) + Len(t)) : (s \o t)[k] = IF k <= Len(s) THEN s[k] ELSE t[k - Len(s)]
      /\ Len(s) \in Nat /\ Len(t) \in Nat /\ DOMAIN s = 1..Len(s) /\ DOMAIN t = 1..Len(t)
      /\ DOMAIN (s \o t) = 1..(Len(s) + Len(t))
  BY ConcatProperties, LenProperties
<1>2. ASSUME NEW k \in DOMAIN s, s[k] = m PROVE In(m, s \o t)
  BY <1>1, <1>2 DEF In
<1>3. ASSUME NEW k \in DOMAIN t, t[k] = m PROVE In(m, s \o t)
  <2>1. Len(s) + k \in 1..(Len(s) + Len(t)) /\ ~(Len(s) + k <= Len(s)) /\ (Len(s) + k) - Len(s) = k
    BY <1>1, <1>3
  <2> QED
    BY <1>1, <1>3, <2>1 DEF In
<1> QED
  BY <1>2, <1>3, InConcat DEF In

LEMMA InAppended ==
    ASSUME NEW s \in Seq(Messages), NEW n \in Messages, NEW m
    PROVE  In(m, Append(s, n)) <=> In(m, s) \/ m = n
<1>1. /\ Append(s, n) \in Seq(Messages) /\ Len(Append(s, n)) = Len(s) + 1
      /\ \A k \in 1..Len(s) : Append(s, n)[k] = s[k]
      /\ Append(s, n)[Len(s) + 1] = n
      /\ Len(s) \in Nat /\ DOMAIN s = 1..Len(s) /\ DOMAIN Append(s, n) = 1..(Len(s) + 1)
  BY AppendProperties, LenProperties
<1> QED
  BY <1>1, InAppend DEF In

LEMMA InRead ==
    ASSUME NEW s \in Seq(Messages), s # <<>>, NEW m
    PROVE  In(m, s) <=> m = Head(s) \/ In(m, Tail(s))
<1>1. Len(s) \in Nat /\ Len(s) > 0 /\ DOMAIN s = 1..Len(s) /\ Head(s) = s[1]
  BY EmptySeq
<1>2. /\ Tail(s) \in Seq(Messages) /\ DOMAIN Tail(s) = 1..(Len(s) - 1)
      /\ \A k \in 1..(Len(s) - 1) : Tail(s)[k] = s[k + 1]
  BY <1>1, HeadTailProperties
<1>3. ASSUME NEW k \in DOMAIN s, s[k] = m, k # 1 PROVE In(m, Tail(s))
  <2>1. k - 1 \in 1..(Len(s) - 1) /\ (k - 1) + 1 = k
    BY <1>1, <1>3
  <2> QED
    BY <1>2, <1>3, <2>1 DEF In
<1> QED
  BY <1>1, <1>3, InTail DEF In

LEMMA EmitFields ==
    ASSUME NEW cs \in Seq(Connections), NEW w \in Windows, NEW ms \in Seq(Messages),
           NEW ds, ds = Emit(cs, w, ms)
    PROVE  /\ SameSides(cs, ds)
           /\ \A i \in DOMAIN cs : \A m :
                In(m, ds[i].down) <=> In(m, cs[i].down) \/ (i \in Peers(cs, w) /\ In(m, ms))
           /\ \A i \in DOMAIN cs : \A m :
                In(m, ds[i].up) <=>
                    \/ In(m, cs[i].up)
                    \/ i \in ClientOf(cs, w) \ Peers(cs, w) /\ cs[i].side # "gone" /\ In(m, ms)
<1> DEFINE out(i) == IF i \in Peers(cs, w) THEN [cs[i] EXCEPT !.down = @ \o ms]
                     ELSE IF i \in ClientOf(cs, w) /\ cs[i].side # "gone"
                     THEN [cs[i] EXCEPT !.up = @ \o ms]
                     ELSE cs[i]
<1>1. ASSUME NEW i \in DOMAIN cs
      PROVE  /\ out(i) \in Connections
             /\ out(i).client = cs[i].client /\ out(i).server = cs[i].server
             /\ out(i).linked = cs[i].linked /\ out(i).side = cs[i].side
             /\ out(i).down = IF i \in Peers(cs, w) THEN cs[i].down \o ms ELSE cs[i].down
             /\ out(i).up = IF i \in ClientOf(cs, w) \ Peers(cs, w) /\ cs[i].side # "gone"
                            THEN cs[i].up \o ms ELSE cs[i].up
             /\ cs[i].up \in Seq(Messages) /\ cs[i].down \in Seq(Messages)
  <2>1. cs[i] \in Connections
    OBVIOUS
  <2>2. /\ cs[i].up \o ms \in Seq(Messages) /\ cs[i].down \o ms \in Seq(Messages)
        /\ cs[i].up \in Seq(Messages) /\ cs[i].down \in Seq(Messages)
    BY <2>1, OfConnection, ConcatProperties
  <2>3. CASE i \in Peers(cs, w)
    BY <2>1, <2>2, <2>3 DEF Connections
  <2>4. CASE i \in ClientOf(cs, w) \ Peers(cs, w) /\ cs[i].side # "gone"
    BY <2>1, <2>2, <2>4 DEF Connections
  <2>5. CASE i \notin Peers(cs, w) /\ ~(i \in ClientOf(cs, w) \ Peers(cs, w) /\ cs[i].side # "gone")
    BY <2>1, <2>2, <2>5
  <2> QED
    BY <2>3, <2>4, <2>5
<1>2. ds = [i \in DOMAIN cs |-> out(i)]
  BY DEF Emit
<1> HIDE DEF out
<1>3. ds \in Seq(Connections) /\ DOMAIN ds = DOMAIN cs
  BY <1>1, <1>2, Redone
<1>4. SameSides(cs, ds)
  BY <1>1, <1>2, <1>3 DEF SameSides, SameEnds
<1>5. ASSUME NEW i \in DOMAIN cs, NEW m
      PROVE  In(m, ds[i].down) <=> In(m, cs[i].down) \/ (i \in Peers(cs, w) /\ In(m, ms))
  <2>1. ds[i] = out(i)
    BY <1>2
  <2> QED
    BY <1>1, <2>1, InJoined
<1>6. ASSUME NEW i \in DOMAIN cs, NEW m
      PROVE  In(m, ds[i].up) <=>
                    \/ In(m, cs[i].up)
                    \/ i \in ClientOf(cs, w) \ Peers(cs, w) /\ cs[i].side # "gone" /\ In(m, ms)
  <2>1. ds[i] = out(i)
    BY <1>2
  <2> QED
    BY <1>1, <2>1, InJoined
<1> QED
  BY <1>4, <1>5, <1>6

Emitted(cs, w, ms, ds) ==
    /\ SameSides(cs, ds)
    /\ \A i \in DOMAIN cs : \A m :
         In(m, ds[i].down) <=> In(m, cs[i].down) \/ (i \in Peers(cs, w) /\ In(m, ms))
    /\ \A i \in DOMAIN cs : \A m :
         In(m, ds[i].up) <=>
             \/ In(m, cs[i].up)
             \/ i \in ClientOf(cs, w) \ Peers(cs, w) /\ cs[i].side # "gone" /\ In(m, ms)

LEMMA EmitIs ==
    ASSUME NEW cs \in Seq(Connections), NEW w \in Windows, NEW ms \in Seq(Messages),
           NEW ds, ds = Emit(cs, w, ms)
    PROVE  Emitted(cs, w, ms, ds)
BY EmitFields DEF Emitted

Relayed(cs, w, j, n, ds) ==
    /\ SameSides(cs, ds)
    /\ \A i \in DOMAIN cs : \A m :
         In(m, ds[i].down) <=> In(m, cs[i].down) \/ (i \in Peers(cs, w) \ {j} /\ m = n)
    /\ \A i \in DOMAIN cs : ds[i].up = cs[i].up

LEMMA RelayFields ==
    ASSUME NEW cs \in Seq(Connections), NEW w \in Windows, NEW j, NEW n \in Messages,
           NEW ds, ds = Relay(cs, w, j, n)
    PROVE  Relayed(cs, w, j, n, ds)
<1> DEFINE out(i) == IF i \in Peers(cs, w) \ {j} THEN [cs[i] EXCEPT !.down = Append(@, n)]
                     ELSE cs[i]
<1>1. ASSUME NEW i \in DOMAIN cs
      PROVE  /\ out(i) \in Connections
             /\ out(i).client = cs[i].client /\ out(i).server = cs[i].server
             /\ out(i).linked = cs[i].linked /\ out(i).side = cs[i].side
             /\ out(i).down = IF i \in Peers(cs, w) \ {j} THEN Append(cs[i].down, n) ELSE cs[i].down
             /\ out(i).up = cs[i].up
             /\ cs[i].down \in Seq(Messages)
  <2>1. cs[i] \in Connections
    OBVIOUS
  <2>2. Append(cs[i].down, n) \in Seq(Messages) /\ cs[i].down \in Seq(Messages)
    BY <2>1, OfConnection, AppendProperties
  <2>3. CASE i \in Peers(cs, w) \ {j}
    BY <2>1, <2>2, <2>3 DEF Connections
  <2>4. CASE i \notin Peers(cs, w) \ {j}
    BY <2>1, <2>2, <2>4
  <2> QED
    BY <2>3, <2>4
<1>2. ds = [i \in DOMAIN cs |-> out(i)]
  BY DEF Relay
<1> HIDE DEF out
<1>3. ds \in Seq(Connections) /\ DOMAIN ds = DOMAIN cs
  BY <1>1, <1>2, Redone
<1>4. SameSides(cs, ds)
  BY <1>1, <1>2, <1>3 DEF SameSides, SameEnds
<1>5. ASSUME NEW i \in DOMAIN cs, NEW m
      PROVE  In(m, ds[i].down) <=> In(m, cs[i].down) \/ (i \in Peers(cs, w) \ {j} /\ m = n)
  <2>1. ds[i] = out(i)
    BY <1>2
  <2> QED
    BY <1>1, <2>1, InAppended
<1>6. \A i \in DOMAIN cs : ds[i].up = cs[i].up
  BY <1>1, <1>2
<1> QED
  BY <1>4, <1>5, <1>6 DEF Relayed

(* A message is read from connection i.                                      *)
LEMMA ReadFields ==
    ASSUME NEW cs \in Seq(Connections), NEW i \in DOMAIN cs
    PROVE  /\ cs[i].up # <<>> =>
                /\ SameSides(cs, [cs EXCEPT ![i].up = Tail(@)])
                /\ Head(cs[i].up) \in Messages
                /\ \A k \in DOMAIN cs : [cs EXCEPT ![i].up = Tail(@)][k].down = cs[k].down
                /\ \A k \in DOMAIN cs \ {i} : [cs EXCEPT ![i].up = Tail(@)][k].up = cs[k].up
                /\ \A m : In(m, cs[i].up) <=>
                            m = Head(cs[i].up) \/ In(m, [cs EXCEPT ![i].up = Tail(@)][i].up)
           /\ cs[i].down # <<>> =>
                /\ SameSides(cs, [cs EXCEPT ![i].down = Tail(@)])
                /\ Head(cs[i].down) \in Messages
                /\ \A k \in DOMAIN cs : [cs EXCEPT ![i].down = Tail(@)][k].up = cs[k].up
                /\ \A k \in DOMAIN cs \ {i} : [cs EXCEPT ![i].down = Tail(@)][k].down = cs[k].down
                /\ \A m : In(m, cs[i].down) <=>
                            m = Head(cs[i].down) \/ In(m, [cs EXCEPT ![i].down = Tail(@)][i].down)
<1>1. cs[i] \in Connections /\ cs[i].up \in Seq(Messages) /\ cs[i].down \in Seq(Messages)
  BY OfConnection
<1>2. ASSUME cs[i].up # <<>>
      PROVE  /\ SameSides(cs, [cs EXCEPT ![i].up = Tail(@)])
             /\ Head(cs[i].up) \in Messages
             /\ \A k \in DOMAIN cs : [cs EXCEPT ![i].up = Tail(@)][k].down = cs[k].down
             /\ \A k \in DOMAIN cs \ {i} : [cs EXCEPT ![i].up = Tail(@)][k].up = cs[k].up
             /\ \A m : In(m, cs[i].up) <=>
                         m = Head(cs[i].up) \/ In(m, [cs EXCEPT ![i].up = Tail(@)][i].up)
  <2>1. Tail(cs[i].up) \in Seq(Messages) /\ Head(cs[i].up) \in Messages
    BY <1>1, <1>2, InTail
  <2> DEFINE x == [cs[i] EXCEPT !.up = Tail(@)]
             ds == [cs EXCEPT ![i].up = Tail(@)]
  <2>2. /\ x \in Connections /\ x.client = cs[i].client /\ x.server = cs[i].server
        /\ x.linked = cs[i].linked /\ x.side = cs[i].side /\ x.down = cs[i].down
        /\ x.up = Tail(cs[i].up)
    BY <1>1, <2>1 DEF Connections
  <2>3. ds = [cs EXCEPT ![i] = x]
    OBVIOUS
  <2> HIDE DEF x, ds
  <2>4. ds \in Seq(Connections) /\ DOMAIN ds = DOMAIN cs
    BY <2>2, <2>3, Redone
  <2>5. \A k \in DOMAIN cs : ds[k] = IF k = i THEN x ELSE cs[k]
    BY <2>3
  <2>6. SameSides(cs, ds)
    BY <2>2, <2>4, <2>5 DEF SameSides, SameEnds
  <2>7. \A m : In(m, cs[i].up) <=> m = Head(cs[i].up) \/ In(m, ds[i].up)
    BY <1>1, <1>2, <2>2, <2>5, InRead
  <2>8. /\ \A k \in DOMAIN cs : ds[k].down = cs[k].down
        /\ \A k \in DOMAIN cs \ {i} : ds[k].up = cs[k].up
    BY <2>2, <2>5
  <2> QED
    BY <2>1, <2>6, <2>7, <2>8 DEF ds
<1>3. ASSUME cs[i].down # <<>>
      PROVE  /\ SameSides(cs, [cs EXCEPT ![i].down = Tail(@)])
             /\ Head(cs[i].down) \in Messages
             /\ \A k \in DOMAIN cs : [cs EXCEPT ![i].down = Tail(@)][k].up = cs[k].up
             /\ \A k \in DOMAIN cs \ {i} : [cs EXCEPT ![i].down = Tail(@)][k].down = cs[k].down
             /\ \A m : In(m, cs[i].down) <=>
                         m = Head(cs[i].down) \/ In(m, [cs EXCEPT ![i].down = Tail(@)][i].down)
  <2>1. Tail(cs[i].down) \in Seq(Messages) /\ Head(cs[i].down) \in Messages
    BY <1>1, <1>3, InTail
  <2> DEFINE x == [cs[i] EXCEPT !.down = Tail(@)]
             ds == [cs EXCEPT ![i].down = Tail(@)]
  <2>2. /\ x \in Connections /\ x.client = cs[i].client /\ x.server = cs[i].server
        /\ x.linked = cs[i].linked /\ x.side = cs[i].side /\ x.up = cs[i].up
        /\ x.down = Tail(cs[i].down)
    BY <1>1, <2>1 DEF Connections
  <2>3. ds = [cs EXCEPT ![i] = x]
    OBVIOUS
  <2> HIDE DEF x, ds
  <2>4. ds \in Seq(Connections) /\ DOMAIN ds = DOMAIN cs
    BY <2>2, <2>3, Redone
  <2>5. \A k \in DOMAIN cs : ds[k] = IF k = i THEN x ELSE cs[k]
    BY <2>3
  <2>6. SameSides(cs, ds)
    BY <2>2, <2>4, <2>5 DEF SameSides, SameEnds
  <2>7. \A m : In(m, cs[i].down) <=> m = Head(cs[i].down) \/ In(m, ds[i].down)
    BY <1>1, <1>3, <2>2, <2>5, InRead
  <2>8. /\ \A k \in DOMAIN cs : ds[k].up = cs[k].up
        /\ \A k \in DOMAIN cs \ {i} : ds[k].down = cs[k].down
    BY <2>2, <2>5
  <2> QED
    BY <2>1, <2>6, <2>7, <2>8 DEF ds
<1> QED
  BY <1>2, <1>3

(* What _publish_now does of it, exactly.                                    *)
Published(w, c, cs, force, r) ==
    /\ r = [ctl |-> r.ctl, out |-> r.out]
    /\ r.ctl \in Controllers /\ r.out \in Seq(Messages)
    /\ r.ctl.on = c.on /\ r.ctl.state = c.state /\ r.ctl.applied = c.applied
    /\ r.ctl.timer = c.timer /\ r.ctl.late = c.late
    /\ r.ctl.wanting = c.wanting /\ r.ctl.ignoring = c.ignoring
    /\ r.ctl.rev >= c.rev /\ r.ctl.sent \in {c.sent, c.state}
    /\ \A m : In(m, r.out) => /\ m.kind = "state" /\ m.origin = w /\ m.rev = c.rev + 1
                              /\ m.payload = c.state
                              /\ c.on /\ IsRunning(w)
    /\ c.on /\ IsRunning(w) /\ (force \/ c.sent # c.state) =>
         /\ r.ctl.sent = c.state
         /\ (role[w] = "broker" /\ Peers(cs, w) = {}) \/ \E m : In(m, r.out)
         /\ r.ctl.owed => Peers(cs, w) = {}
    /\ ~(c.on /\ IsRunning(w) /\ (force \/ c.sent # c.state)) => r.ctl = c /\ r.out = <<>>

LEMMA PublishFields ==
    ASSUME NEW w \in Windows, NEW c \in Controllers, NEW cs, NEW force \in BOOLEAN,
           NEW r, r = PublishNow(w, c, cs, force)
    PROVE  Published(w, c, cs, force, r)
<1> DEFINE alone == role[w] = "broker" /\ Peers(cs, w) = {}
           m0 == StateMessage(w, c.rev + 1, c.state, force)
           c0 == [c EXCEPT !.rev = @ + 1, !.sent = c.state, !.owed = alone]
<1>1. CASE ~(c.on /\ IsRunning(w) /\ (force \/ c.sent # c.state))
  <2>1. r = [ctl |-> c, out |-> <<>>]
    BY <1>1 DEF PublishNow, Nothing
  <2>2. <<>> \in Seq(Messages)
    OBVIOUS
  <2> QED
    BY <1>1, <2>1, <2>2, NoneIn, OfController DEF Published
<1>2. CASE c.on /\ IsRunning(w) /\ (force \/ c.sent # c.state)
  <2>1. r = [ctl |-> c0, out |-> IF alone THEN <<>> ELSE <<m0>>]
    BY <1>2 DEF PublishNow, Nothing
  <2>2. c.rev \in Nat /\ c.state \in Values /\ c.sent \in Values \cup {None}
    BY OfController
  <2>3. m0 \in Messages
    BY <2>2 DEF StateMessage, Messages
  <2>r. c0.rev >= c.rev
    <3>1. c0.rev = c.rev + 1
      BY DEF Controllers
    <3> HIDE DEF c0
    <3> QED
      BY <2>2, <3>1
  <2>4. /\ c0.on = c.on /\ c0.state = c.state /\ c0.applied = c.applied
        /\ c0.timer = c.timer /\ c0.late = c.late /\ c0.sent = c.state /\ c0.owed = alone
        /\ c0.wanting = c.wanting /\ c0.ignoring = c.ignoring
    <3>1. alone \in BOOLEAN
      OBVIOUS
    <3> HIDE DEF alone
    <3> QED
      BY <3>1 DEF Controllers
  <2>5. c0 \in Controllers
    <3>1. alone \in BOOLEAN
      OBVIOUS
    <3> HIDE DEF alone
    <3>2. [c EXCEPT !.rev = @ + 1] \in Controllers
      BY <2>2 DEF Controllers
    <3>3. \A d \in Controllers : [d EXCEPT !.sent = c.state] \in Controllers
      BY <2>2 DEF Controllers
    <3>4. \A d \in Controllers : [d EXCEPT !.owed = alone] \in Controllers
      BY <3>1 DEF Controllers
    <3> QED
      BY <3>2, <3>3, <3>4
  <2>6. /\ m0.kind = "state" /\ m0.origin = w /\ m0.rev = c.rev + 1
        /\ m0.payload = c.state
    BY DEF StateMessage
  <2>a. alone => role[w] = "broker" /\ Peers(cs, w) = {}
    OBVIOUS
  <2> HIDE DEF m0, c0, alone
  <2>7. /\ <<m0>> \in Seq(Messages) /\ <<>> \in Seq(Messages)
        /\ (\A m : In(m, <<m0>>) => m = m0) /\ In(m0, <<m0>>)
    BY <2>3 DEF In
  <2>8. CASE alone
    <3>1. r.ctl = c0 /\ r.out = <<>> /\ r = [ctl |-> r.ctl, out |-> r.out]
      BY <2>1, <2>8
    <3> QED
      BY <1>2, <2>2, <2>r, <2>4, <2>5, <2>7, <2>8, <2>a, <3>1, NoneIn DEF Published
  <2>9. CASE ~alone
    <3>1. r.ctl = c0 /\ r.out = <<m0>> /\ r = [ctl |-> r.ctl, out |-> r.out]
      BY <2>1, <2>9
    <3> QED
      BY <1>2, <2>2, <2>r, <2>4, <2>5, <2>6, <2>7, <2>9, <3>1 DEF Published
  <2> QED
    BY <2>8, <2>9
<1> QED
  BY <1>1, <1>2

(* schedule_publish: nothing, the timer, or a publication that turns it off. *)
Scheduled(w, c, r) ==
    /\ r.ctl \in Controllers /\ r.out \in Seq(Messages)
    /\ r.ctl.on = c.on /\ r.ctl.state = c.state /\ r.ctl.applied = c.applied
    /\ r.ctl.late = c.late /\ r.ctl.wanting = c.wanting /\ r.ctl.ignoring = c.ignoring
    /\ r.ctl.rev >= c.rev /\ r.ctl.sent \in {c.sent, c.state}
    /\ \A m : In(m, r.out) => /\ m.kind = "state" /\ m.origin = w /\ m.rev = c.rev + 1
                              /\ m.payload = c.state
                              /\ c.on /\ IsRunning(w)
    /\ (c.owed => Peers(conns, w) = {}) => (r.ctl.owed => Peers(conns, w) = {})
    /\ \/ r.ctl.timer /\ r.ctl.sent = c.sent /\ r.out = <<>>
       \/ r.ctl.sent = c.state /\ role[w] = "broker" /\ Peers(conns, w) = {}
       \/ r.ctl.sent = c.state /\ \E m : In(m, r.out)
       \/ c.sent = c.state /\ r.ctl.sent = c.sent
       \/ ~c.on \/ ~IsRunning(w)

LEMMA ScheduleFields ==
    ASSUME NEW w \in Windows, NEW c \in Controllers, NEW r \in SchedulePublish(w, c)
    PROVE  Scheduled(w, c, r)
<1> DEFINE off == [c EXCEPT !.timer = FALSE]
           armed == [c EXCEPT !.timer = TRUE]
           no == FALSE
<1>1. /\ off \in Controllers /\ off.on = c.on /\ off.state = c.state /\ off.applied = c.applied
      /\ off.late = c.late /\ off.rev = c.rev /\ off.sent = c.sent /\ off.owed = c.owed
      /\ off.wanting = c.wanting /\ off.ignoring = c.ignoring
  BY DEF Controllers
<1>2. /\ armed \in Controllers /\ armed.on = c.on /\ armed.state = c.state
      /\ armed.applied = c.applied /\ armed.timer
      /\ armed.late = c.late /\ armed.rev = c.rev /\ armed.sent = c.sent /\ armed.owed = c.owed
      /\ armed.wanting = c.wanting /\ armed.ignoring = c.ignoring
  BY DEF Controllers
<1>r. c.rev \in Nat /\ c.rev >= c.rev
  BY OfController
<1>n. no \in BOOLEAN /\ ~no
  OBVIOUS
<1>e. <<>> \in Seq(Messages)
  OBVIOUS
<1>3. \/ ~c.on /\ r = Nothing(c)
      \/ c.on /\ r = PublishNow(w, off, conns, no)
      \/ c.on /\ r = Nothing(armed)
  BY DEF SchedulePublish
<1> HIDE DEF off, armed, no
<1>4. CASE ~c.on /\ r = Nothing(c)
  <2>1. r.ctl = c /\ r.out = <<>>
    BY <1>4 DEF Nothing
  <2> QED
    BY <1>4, <1>e, <1>r, <2>1, NoneIn DEF Scheduled
<1>5. CASE c.on /\ r = Nothing(armed)
  <2>1. r.ctl = armed /\ r.out = <<>>
    BY <1>5 DEF Nothing
  <2> QED
    BY <1>2, <1>5, <1>e, <1>r, <2>1, NoneIn DEF Scheduled
<1>6. CASE c.on /\ r = PublishNow(w, off, conns, no)
  <2>p. Published(w, off, conns, no, r)
    BY <1>1, <1>6, PublishFields, <1>n
  <2>1. /\ r.ctl \in Controllers /\ r.out \in Seq(Messages)
        /\ r.ctl.on = off.on /\ r.ctl.state = off.state /\ r.ctl.applied = off.applied
        /\ r.ctl.timer = off.timer /\ r.ctl.late = off.late
        /\ r.ctl.wanting = off.wanting /\ r.ctl.ignoring = off.ignoring
        /\ r.ctl.rev >= off.rev /\ r.ctl.sent \in {off.sent, off.state}
    BY <1>n, <2>p DEF Published
  <2>m. \A m : In(m, r.out) => /\ m.kind = "state" /\ m.origin = w /\ m.rev = off.rev + 1
                               /\ m.payload = off.state
                               /\ off.on /\ IsRunning(w)
    BY <1>n, <2>p DEF Published
  <2>2. off.on /\ IsRunning(w) /\ off.sent # off.state =>
                /\ r.ctl.sent = off.state
                /\ (role[w] = "broker" /\ Peers(conns, w) = {}) \/ \E m : In(m, r.out)
                /\ r.ctl.owed => Peers(conns, w) = {}
    BY <1>n, <2>p DEF Published
  <2>3. ~(off.on /\ IsRunning(w) /\ off.sent # off.state) => r.ctl = off /\ r.out = <<>>
    BY <1>n, <2>p DEF Published
  <2>4. (c.owed => Peers(conns, w) = {}) => (r.ctl.owed => Peers(conns, w) = {})
    BY <1>1, <2>2, <2>3
  <2>5. \/ /\ r.ctl.sent = c.state
           /\ role[w] = "broker" /\ Peers(conns, w) = {}
        \/ r.ctl.sent = c.state /\ \E m : In(m, r.out)
        \/ c.sent = c.state /\ r.ctl.sent = c.sent
        \/ ~c.on \/ ~IsRunning(w)
    BY <1>1, <2>2, <2>3
  <2> QED
    BY <1>1, <1>6, <2>1, <2>m, <2>4, <2>5 DEF Scheduled
<1> QED
  BY <1>3, <1>4, <1>5, <1>6

(* What the delivery of message m to window w does to it.                    *)
LEMMA DeliverFields ==
    ASSUME Typed, NEW w \in Windows, NEW cs \in Seq(Connections), NEW m \in Messages,
           Deliver(w, cs, m)
    PROVE  /\ ctl' = [ctl EXCEPT ![w] = ctl'[w]] /\ ctl'[w] \in Controllers
           /\ ctl'[w].on = ctl[w].on /\ ctl'[w].timer = ctl[w].timer
           /\ UNCHANGED <<role, place, path, calm>>
           /\ skipped' = (skipped \/ (Wanted(ctl[w], m) /\ ctl[w].ignoring))
           /\ (ctl[w].owed => Peers(cs, w) = {}) => (ctl'[w].owed => Peers(cs, w) = {})
           /\ \E out \in Seq(Messages) :
             /\ conns' = Emit(cs, w, out)
             /\ \/ /\ ctl[w].on /\ m.kind = "request"
                   /\ ctl'[w].state = ctl[w].state /\ ctl'[w].sent \in {ctl[w].sent, ctl[w].state}
                   /\ ctl'[w].applied = ctl[w].applied /\ ctl'[w].late = ctl[w].late
                   /\ \A n : In(n, out) => /\ n.kind = "state" /\ n.origin = w
                                           /\ n.rev = ctl[w].rev + 1 /\ n.payload = ctl[w].state
                   /\ IsRunning(w) => \/ role[w] = "broker" /\ Peers(cs, w) = {}
                                      \/ \E n : In(n, out)
                \/ /\ ~(ctl[w].on /\ m.kind = "request") /\ ~Applies(w, m) /\ out = <<>>
                   /\ ctl'[w].state = ctl[w].state /\ ctl'[w].sent = ctl[w].sent
                   /\ ctl'[w].applied = ctl[w].applied /\ ctl'[w].late = ctl[w].late
                \/ /\ Applies(w, m) /\ m.kind = "state" /\ ctl[w].on /\ out = <<>>
                   /\ ctl'[w].state = m.payload /\ ctl'[w].sent = m.payload
<1> DEFINE c == ctl[w]
           r == OnMessage(w, c, cs, m)
           told == [c EXCEPT !.wanting = FALSE, !.ignoring = FALSE]
           done == Applied(told, m)
           later == [r.ctl EXCEPT !.late = TRUE]
<1>1. /\ c \in Controllers
      /\ conns' = Emit(cs, w, r.out)
      /\ \/ ctl' = [ctl EXCEPT ![w] = r.ctl]
         \/ Applies(w, m) /\ ctl' = [ctl EXCEPT ![w] = later]
      /\ ctl \in [Windows -> Controllers]
      /\ skipped' = (skipped \/ (Wanted(ctl[w], m) /\ ctl[w].ignoring))
      /\ UNCHANGED <<role, place, path, calm>>
  BY DEF Deliver, Hears, Typed
<1>t. /\ told \in Controllers /\ told.on = c.on /\ told.applied = c.applied
      /\ told.timer = c.timer /\ told.late = c.late /\ told.state = c.state /\ told.sent = c.sent
      /\ told.owed = c.owed
  BY <1>1 DEF Controllers
<1>e. <<>> \in Seq(Messages)
  OBVIOUS
<1>2. CASE c.on /\ m.kind = "request"
  <2>1. ~Applies(w, m) /\ r = PublishNow(w, c, cs, TRUE)
    BY <1>2 DEF Applies, Wanted, OnMessage
  <2>2. ctl' = [ctl EXCEPT ![w] = r.ctl] /\ conns' = Emit(cs, w, r.out)
    BY <1>1, <2>1
  <2> DEFINE yes == TRUE
  <2>3. yes \in BOOLEAN /\ yes /\ r = PublishNow(w, c, cs, yes)
    BY <2>1
  <2> HIDE DEF c, r, yes
  <2>p. Published(w, c, cs, yes, r)
    BY <1>1, <2>3, PublishFields
  <2>4. /\ r.ctl \in Controllers /\ r.out \in Seq(Messages)
        /\ r.ctl.on = c.on /\ r.ctl.state = c.state /\ r.ctl.applied = c.applied
        /\ r.ctl.timer = c.timer /\ r.ctl.late = c.late
        /\ r.ctl.sent \in {c.sent, c.state}
    BY <2>p DEF Published
  <2>m. \A n : In(n, r.out) => n.kind = "state" /\ n.origin = w /\ n.rev = c.rev + 1
                                  /\ n.payload = c.state
    BY <2>p DEF Published
  <2>5. c.on /\ IsRunning(w) =>
                /\ (role[w] = "broker" /\ Peers(cs, w) = {}) \/ \E n : In(n, r.out)
                /\ r.ctl.owed => Peers(cs, w) = {}
    BY <2>3, <2>p DEF Published
  <2>6. ~(c.on /\ IsRunning(w)) => r.ctl = c
    BY <2>3, <2>p DEF Published
  <2>7. ctl'[w] = r.ctl
    BY <1>1, <2>2
  <2>8. \E out \in Seq(Messages) :
             /\ conns' = Emit(cs, w, out)
             /\ \A n : In(n, out) => /\ n.kind = "state" /\ n.origin = w
                                     /\ n.rev = c.rev + 1 /\ n.payload = c.state
             /\ IsRunning(w) => \/ role[w] = "broker" /\ Peers(cs, w) = {}
                                \/ \E n : In(n, out)
    <3> r.out \in Seq(Messages)
      BY <2>4
    <3> WITNESS r.out \in Seq(Messages)
    <3> QED
      BY <1>2, <2>2, <2>m, <2>5
  <2> QED
    BY <1>1, <1>2, <2>2, <2>4, <2>5, <2>6, <2>7, <2>8 DEF c
<1>3. CASE ~(c.on /\ m.kind = "request") /\ ~Applies(w, m)
  <2>1. r.ctl \in {c, told} /\ r.out = <<>>
    BY <1>3 DEF OnMessage, Nothing, Applies
  <2>2. ctl' = [ctl EXCEPT ![w] = r.ctl] /\ conns' = Emit(cs, w, <<>>)
    BY <1>1, <1>3, <2>1
  <2> HIDE DEF c, r, told
  <2>3. ctl'[w] = r.ctl
    BY <1>1, <2>2
  <2> QED
    BY <1>1, <1>3, <1>e, <1>t, <2>1, <2>2, <2>3 DEF c
<1>4. CASE Applies(w, m)
  <2>1. r.ctl = done /\ r.out = <<>> /\ m.kind = "state" /\ c.on
    BY <1>4 DEF OnMessage, Nothing, Applies, Wanted
  <2>2. m.payload \in Values /\ <<m.origin, m.rev>> \in Windows \X (Nat \ {0})
    BY <2>1, OfMessage
  <2>3. /\ done \in Controllers /\ done.on = told.on /\ done.timer = told.timer
        /\ done.owed = told.owed
        /\ done.state = m.payload /\ done.sent = m.payload
    <3> HIDE DEF told
    <3> QED
      BY <1>t, <2>2 DEF Applied, Controllers
  <2> HIDE DEF c, r, told, done
  <2>4. /\ later \in Controllers /\ later.on = done.on /\ later.timer = done.timer
        /\ later.owed = done.owed /\ later.state = done.state /\ later.sent = done.sent
    BY <2>1, <2>3 DEF Controllers
  <2>5. PICK d \in {done, later} : ctl' = [ctl EXCEPT ![w] = d]
    BY <1>1, <2>1
  <2> HIDE DEF later
  <2>6. ctl'[w] = d /\ ctl' = [ctl EXCEPT ![w] = ctl'[w]]
    BY <1>1, <2>5
  <2>7. conns' = Emit(cs, w, <<>>)
    BY <1>1, <2>1
  <2> QED
    BY <1>1, <1>4, <1>e, <1>t, <2>1, <2>3, <2>4, <2>5, <2>6, <2>7 DEF c
<1> QED
  BY <1>2, <1>3, <1>4

(* What a window says of its own accord: an edit, the publish timer, or a    *)
(* late callback makes it show new.                                          *)
Voiced(w, new) ==
    \E out \in Seq(Messages) :
        /\ conns' = Emit(conns, w, out)
        /\ ctl' = [ctl EXCEPT ![w] = ctl'[w]] /\ ctl'[w] \in Controllers
        /\ ctl'[w].on = ctl[w].on /\ ctl'[w].applied = ctl[w].applied
        /\ ctl'[w].state = new /\ ctl'[w].sent \in {ctl[w].sent, new}
        /\ (ctl'[w].late => ctl[w].late)
        /\ \A m : In(m, out) => /\ m.kind = "state" /\ m.origin = w /\ m.rev > ctl[w].rev
                                /\ m.payload = new
                                /\ ctl[w].on /\ IsRunning(w)
        /\ (ctl[w].owed => Peers(conns, w) = {}) => (ctl'[w].owed => Peers(conns, w) = {})
        /\ ctl[w].on /\ IsRunning(w) =>
             \/ ctl'[w].timer /\ ctl'[w].sent = ctl[w].sent /\ out = <<>>
             \/ ctl'[w].sent = new /\ role[w] = "broker" /\ Peers(conns, w) = {}
             \/ ctl'[w].sent = new /\ \E m : In(m, out)
             \/ ctl[w].sent = new

LEMMA TimerVoice ==
    ASSUME Typed, NEW w \in Windows, PublishTimer(w)
    PROVE  Voiced(w, ctl[w].state)
<1> DEFINE c == [ctl[w] EXCEPT !.timer = FALSE]
           no == FALSE
<1>1. PICK r : r = PublishNow(w, c, conns, no) /\ Publishes(w, r)
  BY DEF PublishTimer
<1>2. /\ c \in Controllers /\ c.on = ctl[w].on /\ c.rev = ctl[w].rev /\ c.applied = ctl[w].applied
      /\ c.state = ctl[w].state /\ c.sent = ctl[w].sent /\ c.owed = ctl[w].owed /\ ctl[w].rev \in Nat
      /\ c.late = ctl[w].late
      /\ ctl \in [Windows -> Controllers]
  BY DEF Typed, Controllers
<1>4. no \in BOOLEAN /\ ~no
  OBVIOUS
<1>5. ctl' = [ctl EXCEPT ![w] = r.ctl] /\ conns' = Emit(conns, w, r.out) /\ ctl'[w] = r.ctl
  BY <1>1, <1>2 DEF Publishes
<1> HIDE DEF c, no
<1>6. Published(w, c, conns, no, r)
  BY <1>1, <1>2, <1>4, PublishFields
<1> r.out \in Seq(Messages)
  BY <1>6 DEF Published
<1> SUFFICES
        /\ ctl'[w].on = ctl[w].on /\ ctl'[w].applied = ctl[w].applied /\ ctl'[w] \in Controllers
        /\ ctl'[w].state = ctl[w].state /\ ctl'[w].sent \in {ctl[w].sent, ctl[w].state}
        /\ (ctl'[w].late => ctl[w].late)
        /\ \A m : In(m, r.out) => /\ m.kind = "state" /\ m.origin = w /\ m.rev > ctl[w].rev
                                  /\ m.payload = ctl[w].state
                                  /\ ctl[w].on /\ IsRunning(w)
        /\ (ctl[w].owed => Peers(conns, w) = {}) => (ctl'[w].owed => Peers(conns, w) = {})
        /\ ctl[w].on /\ IsRunning(w) =>
             \/ ctl'[w].timer /\ ctl'[w].sent = ctl[w].sent /\ r.out = <<>>
             \/ ctl'[w].sent = ctl[w].state /\ role[w] = "broker" /\ Peers(conns, w) = {}
             \/ ctl'[w].sent = ctl[w].state /\ \E m : In(m, r.out)
             \/ ctl[w].sent = ctl[w].state
  BY <1>5 DEF Voiced
<1>7. /\ ctl'[w].on = ctl[w].on /\ ctl'[w].applied = ctl[w].applied /\ ctl'[w] \in Controllers
      /\ ctl'[w].state = ctl[w].state /\ ctl'[w].sent \in {ctl[w].sent, ctl[w].state}
      /\ (ctl'[w].late => ctl[w].late)
  BY <1>2, <1>5, <1>6 DEF Published
<1>8. \A m : In(m, r.out) => /\ m.kind = "state" /\ m.origin = w /\ m.rev > ctl[w].rev
                             /\ m.payload = ctl[w].state
                             /\ ctl[w].on /\ IsRunning(w)
  BY <1>2, <1>6 DEF Published
<1>9. (ctl[w].owed => Peers(conns, w) = {}) => (ctl'[w].owed => Peers(conns, w) = {})
  BY <1>2, <1>5, <1>6 DEF Published
<1>10. ctl[w].on /\ IsRunning(w) =>
             \/ ctl'[w].sent = ctl[w].state /\ role[w] = "broker" /\ Peers(conns, w) = {}
             \/ ctl'[w].sent = ctl[w].state /\ \E m : In(m, r.out)
             \/ ctl[w].sent = ctl[w].state
  BY <1>2, <1>5, <1>6 DEF Published
<1> QED
  BY <1>7, <1>8, <1>9, <1>10

(* schedule_publish for controller c, which differs from w's in the state    *)
(* and in what is to come.                                                   *)
LEMMA ScheduleVoice ==
    ASSUME Typed, NEW w \in Windows, NEW c \in Controllers,
           c.on = ctl[w].on, c.rev = ctl[w].rev, c.applied = ctl[w].applied,
           c.sent = ctl[w].sent, c.owed = ctl[w].owed, c.late => ctl[w].late,
           NEW r \in SchedulePublish(w, c), Publishes(w, r)
    PROVE  Voiced(w, c.state)
<1>2. ctl[w].rev \in Nat /\ ctl \in [Windows -> Controllers]
  BY DEF Typed, Controllers
<1>5. ctl' = [ctl EXCEPT ![w] = r.ctl] /\ conns' = Emit(conns, w, r.out) /\ ctl'[w] = r.ctl
  BY <1>2 DEF Publishes
<1>6. Scheduled(w, c, r)
  BY ScheduleFields
<1> r.out \in Seq(Messages)
  BY <1>6 DEF Scheduled
<1> SUFFICES
        /\ ctl'[w].on = ctl[w].on /\ ctl'[w].applied = ctl[w].applied /\ ctl'[w] \in Controllers
        /\ ctl'[w].state = c.state /\ ctl'[w].sent \in {ctl[w].sent, c.state}
        /\ (ctl'[w].late => ctl[w].late)
        /\ \A m : In(m, r.out) => /\ m.kind = "state" /\ m.origin = w /\ m.rev > ctl[w].rev
                                  /\ m.payload = c.state
                                  /\ ctl[w].on /\ IsRunning(w)
        /\ (ctl[w].owed => Peers(conns, w) = {}) => (ctl'[w].owed => Peers(conns, w) = {})
        /\ ctl[w].on /\ IsRunning(w) =>
             \/ ctl'[w].timer /\ ctl'[w].sent = ctl[w].sent /\ r.out = <<>>
             \/ ctl'[w].sent = c.state /\ role[w] = "broker" /\ Peers(conns, w) = {}
             \/ ctl'[w].sent = c.state /\ \E m : In(m, r.out)
             \/ ctl[w].sent = c.state
  BY <1>5 DEF Voiced
<1>7. /\ ctl'[w].on = ctl[w].on /\ ctl'[w].applied = ctl[w].applied /\ ctl'[w] \in Controllers
      /\ ctl'[w].state = c.state /\ ctl'[w].sent \in {ctl[w].sent, c.state}
      /\ (ctl'[w].late => ctl[w].late)
  BY <1>5, <1>6 DEF Scheduled
<1>8. \A m : In(m, r.out) => /\ m.kind = "state" /\ m.origin = w /\ m.rev > ctl[w].rev
                             /\ m.payload = c.state
                             /\ ctl[w].on /\ IsRunning(w)
  BY <1>2, <1>6 DEF Scheduled
<1>9. (ctl[w].owed => Peers(conns, w) = {}) => (ctl'[w].owed => Peers(conns, w) = {})
  BY <1>5, <1>6 DEF Scheduled
<1>10. ctl[w].on /\ IsRunning(w) =>
             \/ ctl'[w].timer /\ ctl'[w].sent = ctl[w].sent /\ r.out = <<>>
             \/ ctl'[w].sent = c.state /\ role[w] = "broker" /\ Peers(conns, w) = {}
             \/ ctl'[w].sent = c.state /\ \E m : In(m, r.out)
             \/ ctl[w].sent = c.state
  BY <1>5, <1>6 DEF Scheduled
<1> QED
  BY <1>7, <1>8, <1>9, <1>10

LEMMA LateVoice ==
    ASSUME Typed, NEW w \in Windows, LateCallback(w)
    PROVE  Voiced(w, ctl[w].state)
<1> DEFINE c == [ctl[w] EXCEPT !.late = FALSE]
<1>1. PICK r \in SchedulePublish(w, c) : Publishes(w, r)
  BY DEF LateCallback
<1>2. /\ c \in Controllers /\ c.on = ctl[w].on /\ c.rev = ctl[w].rev /\ c.applied = ctl[w].applied
      /\ c.state = ctl[w].state /\ c.sent = ctl[w].sent /\ c.owed = ctl[w].owed /\ ~c.late
  BY DEF Typed, Controllers
<1> HIDE DEF c
<1>3. Voiced(w, c.state)
  BY <1>1, <1>2, ScheduleVoice
<1> QED
  BY <1>2, <1>3

LEMMA EditedFields ==
    ASSUME Typed, NEW w \in Windows, acts.edits < MaxEdits
    PROVE  /\ Edited(w) \in Controllers /\ Edited(w).on = ctl[w].on /\ Edited(w).rev = ctl[w].rev
           /\ Edited(w).applied = ctl[w].applied /\ Edited(w).late = ctl[w].late
           /\ Edited(w).sent = ctl[w].sent /\ Edited(w).owed = ctl[w].owed
           /\ Edited(w).state = <<w, acts.edits + 1>>
<1>1. <<w, acts.edits + 1>> \in Values
  BY SyncAssumption DEF Typed, Values
<1> QED
  BY <1>1 DEF Edited, Controllers, Typed

LEMMA EditVoice ==
    ASSUME Typed, NEW w \in Windows, Edit(w)
    PROVE  Voiced(w, <<w, acts.edits + 1>>)
<1> DEFINE c == Edited(w)
<1>1. PICK r \in SchedulePublish(w, c) : Publishes(w, r)
  BY DEF Edit
<1>2. /\ c \in Controllers /\ c.on = ctl[w].on /\ c.rev = ctl[w].rev /\ c.applied = ctl[w].applied
      /\ c.sent = ctl[w].sent /\ c.owed = ctl[w].owed /\ c.state = <<w, acts.edits + 1>>
      /\ c.late = ctl[w].late
  BY EditedFields DEF Edit
<1> HIDE DEF c
<1>3. Voiced(w, c.state)
  BY <1>1, <1>2, ScheduleVoice
<1> QED
  BY <1>2, <1>3

LEMMA RevertVoice ==
    ASSUME Typed, NEW w \in Windows, Revert(w)
    PROVE  Voiced(w, <<w, acts.edits + 1>>)
<1> DEFINE c == Edited(w)
           new == <<w, acts.edits + 1>>
<1>2. /\ c \in Controllers /\ c.on = ctl[w].on /\ c.rev = ctl[w].rev /\ c.applied = ctl[w].applied
      /\ c.sent = ctl[w].sent /\ c.owed = ctl[w].owed /\ c.state = new
      /\ c.late = ctl[w].late
  BY EditedFields DEF Revert
<1>3. PICK r \in SchedulePublish(w, c) :
        LET d == [r.ctl EXCEPT !.wanting = FALSE, !.ignoring = @ \/ r.ctl.wanting]
            q == PublishNow(w, d, conns, TRUE)
        IN Publishes(w, [q EXCEPT !.out = r.out \o @])
  BY DEF Revert
<1> HIDE DEF c, new
<1>4. Scheduled(w, c, r)
  BY <1>2, ScheduleFields
<1> DEFINE d == [r.ctl EXCEPT !.wanting = FALSE, !.ignoring = @ \/ r.ctl.wanting]
           yes == TRUE
<1>6. /\ d \in Controllers /\ d.on = r.ctl.on /\ d.applied = r.ctl.applied
      /\ d.rev = r.ctl.rev /\ d.state = r.ctl.state /\ d.sent = r.ctl.sent /\ d.owed = r.ctl.owed
      /\ d.late = r.ctl.late
  BY <1>4 DEF Controllers, Scheduled
<1>q. PICK q : q = PublishNow(w, d, conns, yes) /\ Publishes(w, [q EXCEPT !.out = r.out \o @])
  BY <1>3
<1>y. yes \in BOOLEAN /\ yes
  OBVIOUS
<1> HIDE DEF d, yes
<1>8. Published(w, d, conns, yes, q)
  BY <1>6, <1>q, <1>y, PublishFields
<1>r. /\ r.ctl \in Controllers /\ r.ctl.rev \in Nat /\ ctl[w].rev \in Nat
      /\ ctl \in [Windows -> Controllers] /\ r.ctl.rev >= c.rev
  BY <1>4, OfController DEF Scheduled, Typed
<1>11. ctl' = [ctl EXCEPT ![w] = q.ctl] /\ conns' = Emit(conns, w, r.out \o q.out) /\ ctl'[w] = q.ctl
  <2>1. q = [ctl |-> q.ctl, out |-> q.out]
    BY <1>8 DEF Published
  <2> QED
    BY <1>q, <1>r, <2>1, OutReplaced DEF Publishes
<1>o. r.out \in Seq(Messages) /\ q.out \in Seq(Messages)
  BY <1>4, <1>8 DEF Scheduled, Published
<1> DEFINE out == r.out \o q.out
<1>p. out \in Seq(Messages) /\ \A m : In(m, out) <=> In(m, r.out) \/ In(m, q.out)
  BY <1>o, InJoined, ConcatProperties
<1>12. conns' = Emit(conns, w, out)
  BY <1>11
<1> HIDE DEF out
<1>7. /\ ctl'[w].on = ctl[w].on /\ ctl'[w].applied = ctl[w].applied /\ ctl'[w] \in Controllers
      /\ ctl'[w].state = new /\ ctl'[w].sent \in {ctl[w].sent, new}
  <2>1. /\ q.ctl.on = d.on /\ q.ctl.applied = d.applied /\ q.ctl \in Controllers
        /\ q.ctl.state = d.state /\ q.ctl.sent \in {d.sent, d.state}
    BY <1>8 DEF Published
  <2>2. /\ r.ctl.on = c.on /\ r.ctl.applied = c.applied
        /\ r.ctl.state = c.state /\ r.ctl.sent \in {c.sent, c.state}
    BY <1>4 DEF Scheduled
  <2> QED
    BY <1>2, <1>6, <1>11, <2>1, <2>2
<1>9. ASSUME NEW m, In(m, out)
      PROVE  /\ m.kind = "state" /\ m.origin = w /\ m.rev > ctl[w].rev
             /\ m.payload = new /\ ctl[w].on /\ IsRunning(w)
  <2>1. ASSUME In(m, r.out)
        PROVE  /\ m.kind = "state" /\ m.origin = w /\ m.rev = c.rev + 1
               /\ m.payload = c.state /\ c.on /\ IsRunning(w)
    BY <1>4, <2>1 DEF Scheduled
  <2>2. ASSUME In(m, q.out)
        PROVE  /\ m.kind = "state" /\ m.origin = w /\ m.rev = d.rev + 1
               /\ m.payload = d.state /\ d.on /\ IsRunning(w)
    BY <1>8, <2>2 DEF Published
  <2>3. r.ctl.on = c.on /\ r.ctl.state = c.state
    BY <1>4 DEF Scheduled
  <2> QED
    BY <1>2, <1>6, <1>9, <1>p, <1>r, <2>1, <2>2, <2>3
<1>10. (ctl[w].owed => Peers(conns, w) = {}) => (ctl'[w].owed => Peers(conns, w) = {})
  <2>1. (c.owed => Peers(conns, w) = {}) => (r.ctl.owed => Peers(conns, w) = {})
    BY <1>4 DEF Scheduled
  <2>2. (d.owed => Peers(conns, w) = {}) => (q.ctl.owed => Peers(conns, w) = {})
    BY <1>8 DEF Published
  <2> QED
    BY <1>2, <1>6, <1>11, <2>1, <2>2
<1>13. ctl[w].on /\ IsRunning(w) =>
             \/ ctl'[w].sent = new /\ role[w] = "broker" /\ Peers(conns, w) = {}
             \/ ctl'[w].sent = new /\ \E m : In(m, out)
  <2>1. r.ctl.on = c.on /\ r.ctl.state = c.state
    BY <1>4 DEF Scheduled
  <2>2. d.on /\ IsRunning(w) => /\ q.ctl.sent = d.state
                                /\ \/ role[w] = "broker" /\ Peers(conns, w) = {}
                                   \/ \E m : In(m, q.out)
    BY <1>8, <1>y DEF Published
  <2> QED
    BY <1>2, <1>6, <1>11, <1>p, <2>1, <2>2
<1>l. ctl'[w].late => ctl[w].late
  BY <1>2, <1>4, <1>6, <1>8, <1>11 DEF Published, Scheduled
<1>14. Voiced(w, new)
  BY <1>l, <1>7, <1>9, <1>10, <1>11, <1>12, <1>13, <1>p DEF Voiced
<1> QED
  BY <1>14 DEF new

LEMMA SameSidesThen ==
    ASSUME NEW a, NEW b, NEW c, SameSides(a, b), SameSides(b, c)
    PROVE  SameSides(a, c)
BY DEF SameSides, SameEnds

LEMMA SameSidesLinks ==
    ASSUME NEW a, NEW b, SameSides(a, b), NEW v
    PROVE  Peers(b, v) = Peers(a, v) /\ Pending(b, v) = Pending(a, v) /\ ClientOf(b, v) = ClientOf(a, v)
BY DEF SameSides, SameEnds, Peers, Pending, ClientOf

(* _on_peer_ready_read: w reads m from connection i, which leaves cs when it *)
(* is relayed, and takes it.                                                 *)
BrokerReads(w, i, m, cs) ==
    /\ i \in Peers(conns, w) /\ m \in Messages /\ SameSides(conns, cs)
    /\ \A k \in DOMAIN conns : \A n :
        In(n, cs[k].down) <=> In(n, conns[k].down) \/ (k \in Peers(conns, w) \ {i} /\ n = m)
    /\ \A k \in DOMAIN conns \ {i} : cs[k].up = conns[k].up
    /\ \A n : In(n, conns[i].up) <=> n = m \/ In(n, cs[i].up)
    /\ Deliver(w, cs, m)

LEMMA BrokerFields ==
    ASSUME Typed, NEW w \in Windows, BrokerReceive(w)
    PROVE  \E i, m : \E cs \in Seq(Connections) : BrokerReads(w, i, m, cs)
<1>1. PICK i \in Peers(conns, w) :
        /\ conns[i].up # <<>>
        /\ LET m == Head(conns[i].up)
               rest == [conns EXCEPT ![i].up = Tail(@)]
           IN Deliver(w, Relay(rest, w, i, m), m)
  BY DEF BrokerReceive
<1> DEFINE m == Head(conns[i].up)
           rest == [conns EXCEPT ![i].up = Tail(@)]
           cs == Relay(rest, w, i, m)
<1>2. i \in DOMAIN conns /\ conns \in Seq(Connections)
  BY DEF Peers, Typed
<1>3. /\ SameSides(conns, rest) /\ m \in Messages
      /\ \A k \in DOMAIN conns : rest[k].down = conns[k].down
      /\ \A k \in DOMAIN conns \ {i} : rest[k].up = conns[k].up
      /\ \A n : In(n, conns[i].up) <=> n = m \/ In(n, rest[i].up)
  BY <1>1, <1>2, ReadFields
<1>4. Deliver(w, cs, m)
  BY <1>1
<1>c. cs = Relay(rest, w, i, m)
  OBVIOUS
<1> HIDE DEF m, rest, cs
<1>r. rest \in Seq(Connections)
  BY <1>3 DEF SameSides, SameEnds
<1>f. Relayed(rest, w, i, m, cs)
  BY <1>3, <1>c, <1>r, RelayFields
<1>5. SameSides(rest, cs) /\ \A k \in DOMAIN rest : cs[k].up = rest[k].up
  BY <1>f DEF Relayed
<1>d. \A k \in DOMAIN rest : \A n :
        In(n, cs[k].down) <=> In(n, rest[k].down) \/ (k \in Peers(rest, w) \ {i} /\ n = m)
  BY <1>f DEF Relayed
<1>6. DOMAIN rest = DOMAIN conns /\ Peers(rest, w) = Peers(conns, w) /\ SameSides(conns, cs)
      /\ cs \in Seq(Connections)
  BY <1>3, <1>5, SameSidesLinks, SameSidesThen DEF SameSides, SameEnds
<1>7. \A k \in DOMAIN conns : \A n :
        In(n, cs[k].down) <=> In(n, conns[k].down) \/ (k \in Peers(conns, w) \ {i} /\ n = m)
  BY <1>3, <1>d, <1>6
<1>8. /\ \A k \in DOMAIN conns \ {i} : cs[k].up = conns[k].up
      /\ \A n : In(n, conns[i].up) <=> n = m \/ In(n, cs[i].up)
  BY <1>2, <1>3, <1>5, <1>6
<1> QED
  BY <1>3, <1>4, <1>6, <1>7, <1>8 DEF BrokerReads

(* _on_client_ready_read.                                                    *)
ClientReads(w, i, m, cs) ==
    /\ i \in ClientOf(conns, w) /\ m \in Messages /\ SameSides(conns, cs)
    /\ \A k \in DOMAIN conns : cs[k].up = conns[k].up
    /\ \A k \in DOMAIN conns \ {i} : cs[k].down = conns[k].down
    /\ \A n : In(n, conns[i].down) <=> n = m \/ In(n, cs[i].down)
    /\ Deliver(w, cs, m)

LEMMA ClientFields ==
    ASSUME Typed, NEW w \in Windows, ClientReceive(w)
    PROVE  \E i, m : \E cs \in Seq(Connections) : ClientReads(w, i, m, cs)
<1>1. PICK i \in ClientOf(conns, w) :
        /\ conns[i].down # <<>>
        /\ Deliver(w, [conns EXCEPT ![i].down = Tail(@)], Head(conns[i].down))
  BY DEF ClientReceive
<1> DEFINE m == Head(conns[i].down)
           cs == [conns EXCEPT ![i].down = Tail(@)]
<1>2. i \in DOMAIN conns /\ conns \in Seq(Connections)
  BY DEF ClientOf, Typed
<1>3. /\ SameSides(conns, cs) /\ m \in Messages
      /\ \A k \in DOMAIN conns : cs[k].up = conns[k].up
      /\ \A k \in DOMAIN conns \ {i} : cs[k].down = conns[k].down
      /\ \A n : In(n, conns[i].down) <=> n = m \/ In(n, cs[i].down)
  BY <1>1, <1>2, ReadFields
<1>4. Deliver(w, cs, m)
  BY <1>1
<1> HIDE DEF m, cs
<1>5. cs \in Seq(Connections)
  BY <1>3 DEF SameSides, SameEnds
<1> QED
  BY <1>3, <1>4, <1>5 DEF ClientReads

(* _on_peer_count_changed over the connections cs.                           *)
Counts(w, cs, r) ==
    /\ r.ctl \in Controllers /\ r.out \in Seq(Messages)
    /\ r.ctl.on = ctl[w].on /\ r.ctl.state = ctl[w].state /\ r.ctl.applied = ctl[w].applied
    /\ r.ctl.timer = ctl[w].timer /\ r.ctl.late = ctl[w].late
    /\ r.ctl.wanting = ctl[w].wanting
    /\ r.ctl.sent \in {ctl[w].sent, ctl[w].state}
    /\ \A m : In(m, r.out) => m.kind = "state" /\ m.payload = ctl[w].state /\ ctl[w].on
    /\ ctl[w].on /\ IsRunning(w) => (r.ctl.owed => Peers(cs, w) = {})

LEMMA CountFields ==
    ASSUME Typed, NEW w \in Windows, NEW cs, NEW r, r = PeerCountChanged(w, cs)
    PROVE  Counts(w, cs, r)
<1>0. ctl[w] \in Controllers
  BY DEF Typed
<1> DEFINE yes == TRUE
<1>1. CASE r = PublishNow(w, ctl[w], cs, yes) /\ ctl[w].owed /\ Peers(cs, w) # {}
  <2>1. yes \in BOOLEAN /\ yes
    OBVIOUS
  <2> HIDE DEF yes
  <2>2. Published(w, ctl[w], cs, yes, r)
    BY <1>0, <1>1, <2>1, PublishFields
  <2> QED
    BY <2>1, <2>2 DEF Published, Counts
<1>2. CASE r = Nothing(ctl[w]) /\ ~(ctl[w].owed /\ Peers(cs, w) # {})
  <2>1. r.ctl = ctl[w] /\ r.out = <<>> /\ <<>> \in Seq(Messages)
    BY <1>2 DEF Nothing
  <2> QED
    BY <1>0, <1>2, <2>1, NoneIn DEF Counts
<1> QED
  BY <1>1, <1>2 DEF PeerCountChanged

LEMMA LowestIn ==
    ASSUME NEW S \in SUBSET Nat, S # {}
    PROVE  Min(S) \in S
<1>1. \E n \in S : \A m \in S : ~(<<m, n>> \in OpToRel(<, Nat))
  BY NatLessThanWellFounded, WFMin, Zenon
<1>2. PICK n \in S : \A m \in S : ~(<<m, n>> \in OpToRel(<, Nat))
  BY <1>1
<1>3. ASSUME NEW m \in S, m < n PROVE FALSE
  <2>1. m \in Nat /\ n \in Nat
    OBVIOUS
  <2>2. <<m, n>> \in OpToRel(<, Nat)
    BY <1>3, <2>1, Zenon DEF OpToRel
  <2> QED
    BY <1>2, <2>2, Zenon
<1>4. \A m \in S : n =< m
  BY <1>3
<1> QED
  BY <1>4, Zenon DEF Min

(* What _on_new_peer makes of the connections that wait.                     *)
AcceptsAll(w, out) ==
    /\ Pending(conns, w) # {} /\ role[w] = "broker"
    /\ SameEnds(conns, conns')
    /\ \A i \in DOMAIN conns :
        /\ conns'[i].side = IF i \in Pending(conns, w) THEN "peer" ELSE conns[i].side
        /\ \A n : In(n, conns[i].down) => In(n, conns'[i].down)
        /\ \A n : In(n, conns'[i].down) => In(n, conns[i].down) \/ In(n, out)
        /\ \A n : In(n, conns[i].up) => In(n, conns'[i].up)
        /\ \A n : In(n, conns'[i].up) => In(n, conns[i].up) \/ In(n, out)
    /\ ctl' = [ctl EXCEPT ![w] = ctl'[w]] /\ ctl'[w] \in Controllers
    /\ ctl'[w].on = ctl[w].on /\ ctl'[w].state = ctl[w].state
    /\ ctl'[w].applied = ctl[w].applied /\ ctl'[w].wanting = ctl[w].wanting
    /\ ctl'[w].timer = ctl[w].timer /\ ctl'[w].late = ctl[w].late
    /\ ctl'[w].sent \in {ctl[w].sent, ctl[w].state}
    /\ \A m : In(m, out) => m.kind = "state" /\ m.payload = ctl[w].state /\ ctl[w].on
    /\ ctl[w].on => ~ctl'[w].owed
    /\ UNCHANGED <<role, place, path, acts, historyVars>>

LEMMA AcceptFields ==
    ASSUME Typed, NEW w \in Windows, Accept(w)
    PROVE  \E out \in Seq(Messages) : AcceptsAll(w, out)
<1> DEFINE waiting == Pending(conns, w)
           i == Min(waiting)
           x == [conns[i] EXCEPT !.side = "peer"]
           first == [conns EXCEPT ![i].side = "peer"]
           r == PeerCountChanged(w, first)
           told == Emit(first, w, r.out)
           last(k) == IF k \in waiting THEN [told[k] EXCEPT !.side = "peer"] ELSE told[k]
<1>1. /\ waiting # {} /\ role[w] = "broker"
      /\ conns' = [k \in DOMAIN told |-> last(k)]
      /\ ctl' = [ctl EXCEPT ![w] = r.ctl]
      /\ UNCHANGED <<role, place, path, acts, historyVars>>
      /\ conns \in Seq(Connections) /\ ctl \in [Windows -> Controllers]
  BY DEF Accept, Typed
<1>s. conns \in Seq(Connections) /\ DOMAIN conns \subseteq Nat
  <2>1. conns \in Seq(Connections) /\ DOMAIN conns = 1..Len(conns)
    BY LenProperties DEF Typed
  <2> QED
    BY <2>1
<1>2. waiting \in SUBSET Nat /\ \A k \in waiting : k \in DOMAIN conns /\ conns[k].side = "pending"
                                                   /\ conns[k].server = w
  BY <1>s DEF Pending
<1>3. i \in waiting
  <2> HIDE DEF waiting
  <2> QED
    BY <1>1, <1>2, LowestIn
<1>4. i \in DOMAIN conns /\ conns[i] \in Connections /\ conns[i].server = w
  BY <1>1, <1>2, <1>3
<1> HIDE DEF waiting, i
<1>5. /\ x \in Connections /\ x.side = "peer"
      /\ x.client = conns[i].client /\ x.server = conns[i].server /\ x.linked = conns[i].linked
      /\ x.up = conns[i].up /\ x.down = conns[i].down
  BY <1>4 DEF Connections
<1>6. first = [conns EXCEPT ![i] = x]
  OBVIOUS
<1> HIDE DEF x, first
<1>7. /\ SameEnds(conns, first)
      /\ \A k \in DOMAIN conns : /\ first[k].side = IF k = i THEN "peer" ELSE conns[k].side
                                 /\ first[k].up = conns[k].up /\ first[k].down = conns[k].down
  <2>1. first \in Seq(Connections) /\ DOMAIN first = DOMAIN conns
    BY <1>s, <1>4, <1>5, <1>6, Redone
  <2> QED
    BY <1>5, <1>6, <2>1 DEF SameEnds
<1>8. i \in Peers(first, w) /\ first \in Seq(Connections)
  BY <1>4, <1>7 DEF Peers, SameEnds
<1>9. Counts(w, first, r)
  <2> HIDE DEF r
  <2> QED
    BY CountFields DEF r
<1> HIDE DEF r
<1>10. r.out \in Seq(Messages)
  BY <1>9 DEF Counts
<1>11. /\ SameSides(first, told)
       /\ \A k \in DOMAIN first : \A m :
            In(m, told[k].down) <=> In(m, first[k].down) \/ (k \in Peers(first, w) /\ In(m, r.out))
       /\ \A k \in DOMAIN first : \A m :
            In(m, told[k].up) <=>
                \/ In(m, first[k].up)
                \/ k \in ClientOf(first, w) \ Peers(first, w) /\ first[k].side # "gone" /\ In(m, r.out)
  BY <1>8, <1>10, EmitFields
<1> HIDE DEF told
<1>12. told \in Seq(Connections) /\ DOMAIN told = DOMAIN conns
  BY <1>7, <1>11 DEF SameSides, SameEnds
<1>13. ASSUME NEW k \in DOMAIN told
       PROVE  /\ last(k) \in Connections
              /\ last(k).client = told[k].client /\ last(k).server = told[k].server
              /\ last(k).linked = told[k].linked
              /\ last(k).up = told[k].up /\ last(k).down = told[k].down
              /\ last(k).side = IF k \in waiting THEN "peer" ELSE told[k].side
  <2>1. told[k] \in Connections
    BY <1>12
  <2> QED
    BY <2>1 DEF Connections
<1> HIDE DEF last
<1>14. conns' \in Seq(Connections) /\ DOMAIN conns' = DOMAIN conns
  BY <1>1, <1>12, <1>13, Redone
<1>15. \A k \in DOMAIN conns : conns'[k] = last(k)
  BY <1>1, <1>12
<1>16. SameEnds(conns, conns')
  BY <1>7, <1>11, <1>12, <1>13, <1>14, <1>15 DEF SameEnds, SameSides
<1>17. ASSUME NEW k \in DOMAIN conns
       PROVE  conns'[k].side = IF k \in waiting THEN "peer" ELSE conns[k].side
  BY <1>3, <1>7, <1>11, <1>12, <1>13, <1>15 DEF SameSides, SameEnds
<1>18. ASSUME NEW k \in DOMAIN conns
       PROVE  /\ \A n : In(n, conns[k].down) => In(n, conns'[k].down)
              /\ \A n : In(n, conns'[k].down) => In(n, conns[k].down) \/ In(n, r.out)
              /\ \A n : In(n, conns[k].up) => In(n, conns'[k].up)
              /\ \A n : In(n, conns'[k].up) => In(n, conns[k].up) \/ In(n, r.out)
  <2>1. /\ conns'[k].up = told[k].up /\ conns'[k].down = told[k].down
        /\ first[k].up = conns[k].up /\ first[k].down = conns[k].down /\ k \in DOMAIN first
    BY <1>7, <1>12, <1>13, <1>15 DEF SameEnds
  <2> QED
    BY <1>11, <2>1
<1>19. ctl'[w] = r.ctl
  BY <1>1
<1>20. /\ ctl' = [ctl EXCEPT ![w] = ctl'[w]] /\ ctl'[w] \in Controllers
       /\ ctl'[w].on = ctl[w].on /\ ctl'[w].state = ctl[w].state
       /\ ctl'[w].applied = ctl[w].applied /\ ctl'[w].wanting = ctl[w].wanting
       /\ ctl'[w].timer = ctl[w].timer /\ ctl'[w].late = ctl[w].late
       /\ ctl'[w].sent \in {ctl[w].sent, ctl[w].state}
  BY <1>1, <1>9, <1>19 DEF Counts
<1>21. /\ \A m : In(m, r.out) => m.kind = "state" /\ m.payload = ctl[w].state /\ ctl[w].on
       /\ ctl[w].on => ~ctl'[w].owed
  BY <1>1, <1>8, <1>9, <1>19 DEF Counts, IsRunning
<1>22. AcceptsAll(w, r.out)
  BY <1>1, <1>16, <1>17, <1>18, <1>20, <1>21 DEF AcceptsAll, waiting
<1> QED
  BY <1>10, <1>22

(* What _on_peer_disconnected makes of connection i.                         *)
LosesPeer(w, i, out) ==
    /\ i \in Peers(conns, w) /\ ~conns[i].linked
    /\ SameEnds(conns, conns')
    /\ \A k \in DOMAIN conns :
        /\ conns'[k].side = IF k = i THEN "gone" ELSE conns[k].side
        /\ \A n : In(n, conns[k].down) => In(n, conns'[k].down)
        /\ \A n : In(n, conns'[k].down) => In(n, conns[k].down) \/ In(n, out)
        /\ \A n : In(n, conns[k].up) => In(n, conns'[k].up)
        /\ \A n : In(n, conns'[k].up) => In(n, conns[k].up) \/ In(n, out)
    /\ ctl' = [ctl EXCEPT ![w] = ctl'[w]] /\ ctl'[w] \in Controllers
    /\ ctl'[w].on = ctl[w].on /\ ctl'[w].state = ctl[w].state
    /\ ctl'[w].applied = ctl[w].applied /\ ctl'[w].wanting = ctl[w].wanting
    /\ ctl'[w].timer = ctl[w].timer /\ ctl'[w].late = ctl[w].late
    /\ ctl'[w].sent \in {ctl[w].sent, ctl[w].state}
    /\ \A m : In(m, out) => m.kind = "state" /\ m.payload = ctl[w].state /\ ctl[w].on
    /\ ctl[w].on /\ IsRunning(w) => (ctl'[w].owed => Peers(conns', w) = {})
    /\ UNCHANGED <<role, place, path, acts, historyVars>>

LEMMA PeerGoneFields ==
    ASSUME Typed, NEW w \in Windows, PeerGone(w)
    PROVE  \E i : \E out \in Seq(Messages) : LosesPeer(w, i, out)
<1>1. PICK i \in Peers(conns, w) :
        /\ ~conns[i].linked
        /\ LET cs == [conns EXCEPT ![i].side = "gone"]
               r == PeerCountChanged(w, cs)
           IN conns' = Emit(cs, w, r.out) /\ ctl' = [ctl EXCEPT ![w] = r.ctl]
  BY DEF PeerGone
<1> DEFINE x == [conns[i] EXCEPT !.side = "gone"]
           cs == [conns EXCEPT ![i].side = "gone"]
           r == PeerCountChanged(w, cs)
<1>2. i \in DOMAIN conns /\ conns[i] \in Connections /\ conns \in Seq(Connections)
      /\ ctl \in [Windows -> Controllers]
  BY DEF Peers, Typed
<1>3. /\ x \in Connections /\ x.side = "gone"
      /\ x.client = conns[i].client /\ x.server = conns[i].server /\ x.linked = conns[i].linked
      /\ x.up = conns[i].up /\ x.down = conns[i].down
  BY <1>2 DEF Connections
<1>4. cs = [conns EXCEPT ![i] = x]
  OBVIOUS
<1>5. conns' = Emit(cs, w, r.out) /\ ctl' = [ctl EXCEPT ![w] = r.ctl]
  BY <1>1
<1> HIDE DEF x, cs
<1>7. /\ SameEnds(conns, cs)
      /\ \A k \in DOMAIN conns : /\ cs[k].side = IF k = i THEN "gone" ELSE conns[k].side
                                 /\ cs[k].up = conns[k].up /\ cs[k].down = conns[k].down
  <2>1. cs \in Seq(Connections) /\ DOMAIN cs = DOMAIN conns
    BY <1>2, <1>3, <1>4, Redone
  <2> QED
    BY <1>3, <1>4, <2>1 DEF SameEnds
<1>9. Counts(w, cs, r)
  <2> HIDE DEF r
  <2> QED
    BY CountFields DEF r
<1> HIDE DEF r
<1>10. r.out \in Seq(Messages) /\ cs \in Seq(Connections) /\ DOMAIN cs = DOMAIN conns
  BY <1>7, <1>9 DEF Counts, SameEnds
<1>11. /\ SameSides(cs, conns')
       /\ \A k \in DOMAIN cs : \A m :
            In(m, conns'[k].down) <=> In(m, cs[k].down) \/ (k \in Peers(cs, w) /\ In(m, r.out))
       /\ \A k \in DOMAIN cs : \A m :
            In(m, conns'[k].up) <=>
                \/ In(m, cs[k].up)
                \/ k \in ClientOf(cs, w) \ Peers(cs, w) /\ cs[k].side # "gone" /\ In(m, r.out)
  BY <1>5, <1>10, EmitFields
<1>12. SameEnds(conns, conns') /\ Peers(conns', w) = Peers(cs, w)
  BY <1>7, <1>11, SameSidesLinks DEF SameEnds, SameSides
<1>13. \A k \in DOMAIN conns :
        /\ conns'[k].side = IF k = i THEN "gone" ELSE conns[k].side
        /\ \A n : In(n, conns[k].down) => In(n, conns'[k].down)
        /\ \A n : In(n, conns'[k].down) => In(n, conns[k].down) \/ In(n, r.out)
        /\ \A n : In(n, conns[k].up) => In(n, conns'[k].up)
        /\ \A n : In(n, conns'[k].up) => In(n, conns[k].up) \/ In(n, r.out)
  BY <1>7, <1>10, <1>11 DEF SameSides
<1>19. ctl'[w] = r.ctl
  BY <1>2, <1>5
<1>20. /\ ctl' = [ctl EXCEPT ![w] = ctl'[w]] /\ ctl'[w] \in Controllers
       /\ ctl'[w].on = ctl[w].on /\ ctl'[w].state = ctl[w].state
       /\ ctl'[w].applied = ctl[w].applied /\ ctl'[w].wanting = ctl[w].wanting
       /\ ctl'[w].timer = ctl[w].timer /\ ctl'[w].late = ctl[w].late
       /\ ctl'[w].sent \in {ctl[w].sent, ctl[w].state}
  BY <1>5, <1>9, <1>19 DEF Counts
<1>21. /\ \A m : In(m, r.out) => m.kind = "state" /\ m.payload = ctl[w].state /\ ctl[w].on
       /\ ctl[w].on /\ IsRunning(w) => (ctl'[w].owed => Peers(conns', w) = {})
  BY <1>9, <1>12, <1>19 DEF Counts
<1>22. UNCHANGED <<role, place, path, acts, historyVars>>
  BY DEF PeerGone
<1>23. LosesPeer(w, i, r.out)
  BY <1>1, <1>12, <1>13, <1>20, <1>21, <1>22 DEF LosesPeer
<1> QED
  BY <1>10, <1>23

(* Who runs, and who is linked to whom.  A client has one connection, a      *)
(* connection that its server has not let go is a broker's, and a            *)
(* publication is only owed when there is no peer.                           *)
Linked ==
    /\ \A w \in Windows : place[w] # "out" => role[w] \in {"stopped", "connecting"} /\ ctl[w].on
    /\ \A w \in Windows : ~ctl[w].on => role[w] \in {"stopped", "crashed"}
    /\ \A w \in Windows : ctl[w].on /\ place[w] = "out" => role[w] # "stopped"
    /\ \A w \in Windows : role[w] = "client" => ClientOf(conns, w) # {}
    /\ \A i \in DOMAIN conns : conns[i].linked => role[conns[i].client] = "client"
    /\ \A i, j \in DOMAIN conns :
        conns[i].linked /\ conns[j].linked /\ conns[i].client = conns[j].client => i = j
    /\ \A i \in DOMAIN conns : conns[i].side # "gone" => role[conns[i].server] = "broker"
    /\ \A w \in Windows : ctl[w].owed => Peers(conns, w) = {}

LEMMA VoiceEnds ==
    ASSUME Typed, NEW w \in Windows, NEW new, Voiced(w, new)
    PROVE  /\ SameSides(conns, conns') /\ ctl' = [ctl EXCEPT ![w] = ctl'[w]]
           /\ ctl'[w].on = ctl[w].on
           /\ (ctl[w].owed => Peers(conns, w) = {}) => (ctl'[w].owed => Peers(conns', w) = {})
<1>1. PICK out \in Seq(Messages) : conns' = Emit(conns, w, out)
  BY DEF Voiced
<1>2. SameSides(conns, conns')
  BY <1>1, EmitFields DEF Typed
<1>3. Peers(conns', w) = Peers(conns, w)
  BY <1>2, SameSidesLinks
<1> QED
  BY <1>2, <1>3 DEF Voiced

LEMMA DeliverEnds ==
    ASSUME Typed, NEW w \in Windows, NEW cs \in Seq(Connections), NEW m \in Messages,
           SameSides(conns, cs), Deliver(w, cs, m)
    PROVE  /\ SameSides(conns, conns') /\ ctl' = [ctl EXCEPT ![w] = ctl'[w]]
           /\ ctl'[w].on = ctl[w].on
           /\ (ctl[w].owed => Peers(conns, w) = {}) => (ctl'[w].owed => Peers(conns', w) = {})
<1>1. PICK out \in Seq(Messages) : conns' = Emit(cs, w, out)
  BY DeliverFields
<1>2. SameSides(cs, conns')
  BY <1>1, EmitFields
<1>3. SameSides(conns, conns')
  BY <1>2, SameSidesThen
<1>4. Peers(conns', w) = Peers(conns, w) /\ Peers(cs, w) = Peers(conns, w)
  BY <1>3, SameSidesLinks
<1>5. /\ ctl' = [ctl EXCEPT ![w] = ctl'[w]] /\ ctl'[w].on = ctl[w].on
      /\ (ctl[w].owed => Peers(cs, w) = {}) => (ctl'[w].owed => Peers(cs, w) = {})
  BY DeliverFields
<1> QED
  BY <1>3, <1>4, <1>5

LEMMA TalkEnds ==
    ASSUME Inv, Linked, NEW w \in Windows, Talk(w)
    PROVE  /\ SameEnds(conns, conns')
           /\ \A i \in DOMAIN conns : conns'[i].side # "gone" => conns[i].side # "gone"
           /\ \A i \in DOMAIN conns : conns[i].server # w => conns'[i].side = conns[i].side
           /\ ctl' = [ctl EXCEPT ![w] = ctl'[w]] /\ ctl'[w].on = ctl[w].on
           /\ ctl'[w].owed => Peers(conns', w) = {}
<1>0. Typed /\ (ctl[w].owed => Peers(conns, w) = {})
  BY DEF Inv, Linked
<1>1. CASE Edit(w) \/ Revert(w) \/ PublishTimer(w) \/ LateCallback(w)
  <2>1. PICK new : Voiced(w, new)
    BY <1>0, <1>1, EditVoice, RevertVoice, TimerVoice, LateVoice
  <2> QED
    BY <1>0, <2>1, VoiceEnds DEF SameSides
<1>2. CASE BrokerReceive(w)
  <2>1. PICK i, m : \E cs \in Seq(Connections) : BrokerReads(w, i, m, cs)
    BY <1>0, <1>2, BrokerFields
  <2>2. PICK cs \in Seq(Connections) : m \in Messages /\ SameSides(conns, cs) /\ Deliver(w, cs, m)
    BY <2>1 DEF BrokerReads
  <2> QED
    BY <1>0, <2>2, DeliverEnds DEF SameSides
<1>3. CASE ClientReceive(w)
  <2>1. PICK i, m : \E cs \in Seq(Connections) : ClientReads(w, i, m, cs)
    BY <1>0, <1>3, ClientFields
  <2>2. PICK cs \in Seq(Connections) : m \in Messages /\ SameSides(conns, cs) /\ Deliver(w, cs, m)
    BY <2>1 DEF ClientReads
  <2> QED
    BY <1>0, <2>2, DeliverEnds DEF SameSides
<1>4. CASE Accept(w)
  <2>1. PICK out : AcceptsAll(w, out)
    BY <1>0, <1>4, AcceptFields
  <2>2. role[w] = "broker" /\ ctl[w].on
    BY <2>1 DEF AcceptsAll, Linked
  <2>3. /\ SameEnds(conns, conns') /\ ctl' = [ctl EXCEPT ![w] = ctl'[w]] /\ ctl'[w].on = ctl[w].on
        /\ \A i \in DOMAIN conns :
             conns'[i].side = IF i \in Pending(conns, w) THEN "peer" ELSE conns[i].side
        /\ ~ctl'[w].owed
    BY <2>1, <2>2 DEF AcceptsAll
  <2> QED
    BY <2>3 DEF Pending
<1>5. CASE PeerGone(w)
  <2>1. PICK i, out : LosesPeer(w, i, out)
    BY <1>0, <1>5, PeerGoneFields
  <2>2. i \in Peers(conns, w) /\ role[w] = "broker" /\ ctl[w].on /\ IsRunning(w)
    BY <2>1 DEF LosesPeer, Linked, Peers, IsRunning
  <2>3. /\ SameEnds(conns, conns') /\ ctl' = [ctl EXCEPT ![w] = ctl'[w]] /\ ctl'[w].on = ctl[w].on
        /\ \A k \in DOMAIN conns :
             conns'[k].side = IF k = i THEN "gone" ELSE conns[k].side
        /\ ctl'[w].owed => Peers(conns', w) = {}
    BY <2>1, <2>2 DEF LosesPeer
  <2> QED
    BY <2>2, <2>3 DEF Peers
<1> QED
  BY <1>1, <1>2, <1>3, <1>4, <1>5 DEF Talk

LEMMA HangupFields ==
    ASSUME NEW cs \in Seq(Connections), NEW w \in Windows, NEW ds, ds = Hangup(cs, w)
    PROVE  /\ ds \in Seq(Connections) /\ DOMAIN ds = DOMAIN cs
           /\ \A i \in DOMAIN cs :
                /\ ds[i].client = cs[i].client /\ ds[i].server = cs[i].server
                /\ ds[i].up = cs[i].up /\ ds[i].down = cs[i].down
                /\ ds[i].linked <=> cs[i].linked /\ cs[i].client # w
                /\ ds[i].side = IF cs[i].server = w THEN "gone" ELSE cs[i].side
<1> DEFINE out(i) == [cs[i] EXCEPT !.linked = @ /\ cs[i].client # w,
                                   !.side = IF cs[i].server = w THEN "gone" ELSE @]
<1>1. ASSUME NEW i \in DOMAIN cs
      PROVE  /\ out(i) \in Connections
             /\ out(i).client = cs[i].client /\ out(i).server = cs[i].server
             /\ out(i).up = cs[i].up /\ out(i).down = cs[i].down
             /\ out(i).linked = (cs[i].linked /\ cs[i].client # w)
             /\ out(i).side = IF cs[i].server = w THEN "gone" ELSE cs[i].side
  <2>1. cs[i] \in Connections
    OBVIOUS
  <2>2. (cs[i].linked /\ cs[i].client # w) \in BOOLEAN
    BY <2>1 DEF Connections
  <2> QED
    BY <2>1, <2>2 DEF Connections
<1>2. ds = [i \in DOMAIN cs |-> out(i)]
  BY DEF Hangup
<1> HIDE DEF out
<1>3. ds \in Seq(Connections) /\ DOMAIN ds = DOMAIN cs
  BY <1>1, <1>2, Redone
<1>4. \A i \in DOMAIN cs : ds[i] = out(i)
  BY <1>2
<1> QED
  BY <1>1, <1>3, <1>4

(* A connection is made, or the client lets one go.                          *)
LEMMA NewConnection ==
    ASSUME NEW cs \in Seq(Connections), NEW x \in Connections, NEW ds, ds = Append(cs, x)
    PROVE  /\ ds \in Seq(Connections) /\ Len(cs) + 1 \notin DOMAIN cs
           /\ DOMAIN ds = DOMAIN cs \cup {Len(cs) + 1}
           /\ \A i \in DOMAIN cs : ds[i] = cs[i]
           /\ ds[Len(cs) + 1] = x
<1>1. /\ ds \in Seq(Connections) /\ Len(ds) = Len(cs) + 1 /\ Len(cs) \in Nat
      /\ \A i \in 1..Len(cs) : ds[i] = cs[i]
      /\ ds[Len(cs) + 1] = x
  BY AppendProperties, LenProperties
<1>2. DOMAIN cs = 1..Len(cs) /\ DOMAIN ds = 1..Len(ds)
  BY <1>1, LenProperties
<1>3. 1..(Len(cs) + 1) = 1..Len(cs) \cup {Len(cs) + 1} /\ Len(cs) + 1 \notin 1..Len(cs)
  BY <1>1
<1> QED
  BY <1>1, <1>2, <1>3

LEMMA LetGo ==
    ASSUME NEW cs \in Seq(Connections), NEW i \in DOMAIN cs,
           NEW ds, ds = [cs EXCEPT ![i].linked = FALSE]
    PROVE  /\ ds \in Seq(Connections) /\ DOMAIN ds = DOMAIN cs
           /\ \A k \in DOMAIN cs :
                /\ ds[k].client = cs[k].client /\ ds[k].server = cs[k].server
                /\ ds[k].up = cs[k].up /\ ds[k].down = cs[k].down /\ ds[k].side = cs[k].side
                /\ (ds[k].linked <=> k # i /\ cs[k].linked)
<1> DEFINE x == [cs[i] EXCEPT !.linked = FALSE]
<1>1. cs[i] \in Connections
  OBVIOUS
<1>2. /\ x \in Connections /\ x.client = cs[i].client /\ x.server = cs[i].server
      /\ x.up = cs[i].up /\ x.down = cs[i].down /\ x.side = cs[i].side /\ x.linked = FALSE
  BY <1>1 DEF Connections
<1>3. ds = [cs EXCEPT ![i] = x]
  OBVIOUS
<1> HIDE DEF x
<1>4. ds \in Seq(Connections) /\ DOMAIN ds = DOMAIN cs
  <2>1. [cs EXCEPT ![i] = x] \in [DOMAIN cs -> Connections]
    BY <1>2
  <2> QED
    BY <1>3, <2>1, Redone
<1>5. \A k \in DOMAIN cs : ds[k] = IF k = i THEN x ELSE cs[k]
  BY <1>3
<1> QED
  BY <1>2, <1>4, <1>5

LEMMA LinkedTalk ==
    ASSUME Inv, Linked, NEW w \in Windows, Talk(w)
    PROVE  Linked'
<1>1. /\ SameEnds(conns, conns')
      /\ \A i \in DOMAIN conns : conns'[i].side # "gone" => conns[i].side # "gone"
      /\ \A i \in DOMAIN conns : conns[i].server # w => conns'[i].side = conns[i].side
      /\ ctl' = [ctl EXCEPT ![w] = ctl'[w]] /\ ctl'[w].on = ctl[w].on
      /\ ctl'[w].owed => Peers(conns', w) = {}
  BY TalkEnds
<1>2. UNCHANGED <<role, place, path>>
  BY TalkShape DEF Inv
<1>3. \A v \in Windows : ctl'[v].on = ctl[v].on
  BY <1>1 DEF Inv, Typed
<1>4. \A v \in Windows \ {w} : ctl'[v] = ctl[v] /\ Peers(conns', v) = Peers(conns, v)
  <2>1. \A v \in Windows \ {w} : ctl'[v] = ctl[v]
    BY <1>1 DEF Inv, Typed
  <2>2. \A v \in Windows \ {w} : Peers(conns', v) = Peers(conns, v)
    BY <1>1 DEF Peers, SameEnds
  <2> QED
    BY <2>1, <2>2
<1>5. \A v \in Windows : ctl'[v].owed => Peers(conns', v) = {}
  BY <1>1, <1>4 DEF Linked
<1>6. \A v \in Windows : ClientOf(conns', v) = ClientOf(conns, v)
  BY <1>1 DEF ClientOf, SameEnds
<1>7. /\ \A i \in DOMAIN conns' : conns'[i].linked => role'[conns'[i].client] = "client"
      /\ \A i, j \in DOMAIN conns' :
           conns'[i].linked /\ conns'[j].linked /\ conns'[i].client = conns'[j].client => i = j
      /\ \A i \in DOMAIN conns' : conns'[i].side # "gone" => role'[conns'[i].server] = "broker"
  BY <1>1, <1>2 DEF Linked, SameEnds
<1> QED
  BY <1>2, <1>3, <1>5, <1>6, <1>7 DEF Linked

LEMMA LinkedHangup ==
    ASSUME Inv, Linked, NEW w \in Windows, conns' = Hangup(conns, w),
           role' \in [Windows -> Roles], role'[w] \in {"stopped", "crashed"},
           \A v \in Windows \ {w} : role'[v] = role[v] /\ ctl'[v] = ctl[v],
           ctl'[w].owed => ctl[w].owed
    PROVE  /\ \A v \in Windows : role'[v] = "client" => ClientOf(conns', v) # {}
           /\ \A i \in DOMAIN conns' : conns'[i].linked => role'[conns'[i].client] = "client"
           /\ \A i, j \in DOMAIN conns' :
                conns'[i].linked /\ conns'[j].linked /\ conns'[i].client = conns'[j].client => i = j
           /\ \A i \in DOMAIN conns' : conns'[i].side # "gone" => role'[conns'[i].server] = "broker"
           /\ \A v \in Windows : ctl'[v].owed => Peers(conns', v) = {}
<1>1. /\ DOMAIN conns' = DOMAIN conns
      /\ \A i \in DOMAIN conns :
           /\ conns'[i].client = conns[i].client /\ conns'[i].server = conns[i].server
           /\ conns'[i].linked <=> conns[i].linked /\ conns[i].client # w
           /\ conns'[i].side = IF conns[i].server = w THEN "gone" ELSE conns[i].side
  BY HangupFields DEF Inv, Typed
<1>2. \A i \in DOMAIN conns : conns[i].client \in Windows /\ conns[i].server \in Windows
  BY OfConnection DEF Inv, Typed
<1>3. ASSUME NEW v \in Windows, role'[v] = "client" PROVE ClientOf(conns', v) # {}
  <2>1. v # w /\ role[v] = "client"
    BY <1>3
  <2>2. PICK i \in ClientOf(conns, v) : TRUE
    BY <2>1 DEF Linked
  <2>3. i \in ClientOf(conns', v)
    BY <1>1, <2>1 DEF ClientOf
  <2> QED
    BY <2>3
<1>4. ASSUME NEW v \in Windows, ctl'[v].owed PROVE Peers(conns', v) = {}
  <2>1. ctl[v].owed
    BY <1>4
  <2>2. Peers(conns, v) = {}
    BY <2>1 DEF Linked
  <2> QED
    BY <1>1, <2>2 DEF Peers
<1>5. \A i \in DOMAIN conns' : conns'[i].side # "gone" => role'[conns'[i].server] = "broker"
  BY <1>1, <1>2 DEF Linked
<1>6. \A i \in DOMAIN conns' : conns'[i].linked => role'[conns'[i].client] = "client"
  BY <1>1, <1>2 DEF Linked
<1>7. \A i, j \in DOMAIN conns' :
        conns'[i].linked /\ conns'[j].linked /\ conns'[i].client = conns'[j].client => i = j
  BY <1>1 DEF Linked
<1> QED
  BY <1>3, <1>4, <1>5, <1>6, <1>7

(* A start either connects, or goes on without touching a connection.        *)
Connects(w, first) ==
    /\ place[w] = "connect" /\ Served
    /\ first \in {<<>>, <<RequestMessage(w)>>}
    /\ ctl[w].wanting /\ role[w] = "stopped" => first = <<RequestMessage(w)>>
    /\ role[w] # "stopped" => first = <<>>
    /\ conns' = Append(conns, Connection(w, path, first))
    /\ role' = [role EXCEPT ![w] = "client"]
    /\ place' = [place EXCEPT ![w] = "out"]
    /\ path' = path

GoesOn(w) ==
    /\ conns' = conns
    /\ \/ \E p \in Places \ {"out"} : place' = [place EXCEPT ![w] = p] /\ role' = role
       \/ place' = [place EXCEPT ![w] = "out"] /\ role' = [role EXCEPT ![w] = "broker"]
       \/ place' = [place EXCEPT ![w] = "out"] /\ role' = [role EXCEPT ![w] = "connecting"]

LEMMA StartFields ==
    ASSUME Inv, NEW w \in Windows, Starting(w)
    PROVE  place[w] # "out" /\ ((\E first : Connects(w, first)) \/ (GoesOn(w) /\ ~(place[w] = "connect" /\ Served)))
<1>1. CASE place[w] = "connect" /\ Served
  BY <1>1 DEF Starting, Connect, Listen, RemoveServer, Relisten, Connects
<1>2. CASE ~(place[w] = "connect" /\ Served)
  BY <1>2 DEF Starting, Connect, Listen, RemoveServer, Relisten, Bind, GoesOn, Places
<1> QED
  BY <1>1, <1>2

LEMMA ConnectFields ==
    ASSUME Inv, NEW w \in Windows, NEW first, Connects(w, first)
    PROVE  LET n == Len(conns) + 1
               x == conns'[n]
           IN /\ conns' \in Seq(Connections) /\ n \notin DOMAIN conns
              /\ DOMAIN conns' = DOMAIN conns \cup {n}
              /\ \A i \in DOMAIN conns : conns'[i] = conns[i]
              /\ x.client = w /\ x.server = path /\ x.linked /\ x.side = "pending"
              /\ x.up = first /\ x.down = <<>>
<1> DEFINE x == Connection(w, path, first)
           m0 == RequestMessage(w)
<1>1. m0 \in Messages
  BY DEF RequestMessage, Messages
<1>2. first \in Seq(Messages)
  <2> HIDE DEF m0
  <2>1. <<m0>> \in Seq(Messages) /\ <<>> \in Seq(Messages)
    BY <1>1
  <2> QED
    BY <2>1 DEF Connects, m0
<1>3. x \in Connections /\ path \in Windows
  BY <1>2 DEF Connection, Connections, Connects, Served, Inv, Web
<1>4. /\ x.client = w /\ x.server = path /\ x.linked /\ x.side = "pending"
      /\ x.up = first /\ x.down = <<>>
  BY DEF Connection
<1>5. conns' = Append(conns, x) /\ conns \in Seq(Connections)
  BY DEF Connects, Inv, Typed
<1> HIDE DEF x
<1>6. /\ conns' \in Seq(Connections) /\ Len(conns) + 1 \notin DOMAIN conns
      /\ DOMAIN conns' = DOMAIN conns \cup {Len(conns) + 1}
      /\ \A i \in DOMAIN conns : conns'[i] = conns[i]
      /\ conns'[Len(conns) + 1] = x
  BY <1>3, <1>5, NewConnection
<1> QED
  BY <1>4, <1>6

LEMMA LinkedStart ==
    ASSUME Inv, Linked, NEW w \in Windows, Starting(w)
    PROVE  Linked'
<1>0. /\ role \in [Windows -> Roles] /\ place \in [Windows -> Places]
      /\ ctl' = ctl /\ conns \in Seq(Connections)
      /\ \A i \in DOMAIN conns : conns[i].client \in Windows /\ conns[i].server \in Windows
  BY OfConnection DEF Inv, Web, Typed, Starting
<1>1. /\ place[w] # "out" /\ role[w] \in {"stopped", "connecting"} /\ ctl[w].on
      /\ \A i \in DOMAIN conns : conns[i].linked => conns[i].client # w
      /\ \A i \in DOMAIN conns : conns[i].side # "gone" => conns[i].server # w
  BY StartFields DEF Linked
<1>2. CASE GoesOn(w)
  <2>1. \A v \in Windows \ {w} : role'[v] = role[v] /\ place'[v] = place[v]
    BY <1>0, <1>2 DEF GoesOn
  <2>2. /\ role'[w] \in {"stopped", "connecting", "broker"}
        /\ place'[w] # "out" => role'[w] = role[w]
        /\ place'[w] = "out" => role'[w] # "stopped"
    BY <1>0, <1>1, <1>2 DEF GoesOn
  <2>3. conns' = conns
    BY <1>2 DEF GoesOn
  <2> QED
    BY <1>0, <1>1, <2>1, <2>2, <2>3 DEF Linked, ClientOf, Peers
<1>3. ASSUME NEW first, Connects(w, first) PROVE Linked'
  <2> DEFINE n == Len(conns) + 1
  <2>1. /\ n \notin DOMAIN conns /\ DOMAIN conns' = DOMAIN conns \cup {n}
        /\ \A i \in DOMAIN conns : conns'[i] = conns[i]
        /\ conns'[n].client = w /\ conns'[n].server = path /\ conns'[n].linked
        /\ conns'[n].side = "pending"
    BY <1>3, ConnectFields
  <2> HIDE DEF n
  <2>2. /\ \A v \in Windows \ {w} : role'[v] = role[v] /\ place'[v] = place[v]
        /\ role'[w] = "client" /\ place'[w] = "out" /\ role[path] = "broker" /\ path # w /\ path \in Windows
    BY <1>0, <1>1, <1>3 DEF Connects, Served, Inv, Web
  <2>3. \A v \in Windows : ctl'[v].owed => Peers(conns', v) = {}
    <3>1. \A v \in Windows : Peers(conns', v) = Peers(conns, v)
      BY <2>1 DEF Peers
    <3> QED
      BY <1>0, <3>1 DEF Linked
  <2>4. ASSUME NEW v \in Windows, role'[v] = "client" PROVE ClientOf(conns', v) # {}
    <3>1. CASE v = w
      <4>1. n \in ClientOf(conns', w)
        BY <2>1 DEF ClientOf
      <4> QED
        BY <3>1, <4>1
    <3>2. CASE v # w
      <4>1. PICK i \in ClientOf(conns, v) : TRUE
        BY <2>2, <2>4, <3>2 DEF Linked
      <4>2. i \in ClientOf(conns', v)
        BY <2>1 DEF ClientOf
      <4> QED
        BY <4>2
    <3> QED
      BY <3>1, <3>2
  <2>5. \A i \in DOMAIN conns' : conns'[i].linked => role'[conns'[i].client] = "client"
    BY <1>0, <1>1, <2>1, <2>2 DEF Linked
  <2>6. \A i, j \in DOMAIN conns' :
          conns'[i].linked /\ conns'[j].linked /\ conns'[i].client = conns'[j].client => i = j
    BY <1>1, <2>1 DEF Linked
  <2>7. \A i \in DOMAIN conns' : conns'[i].side # "gone" => role'[conns'[i].server] = "broker"
    BY <1>0, <1>1, <2>1, <2>2 DEF Linked
  <2>8. /\ \A v \in Windows : place'[v] # "out" => role'[v] \in {"stopped", "connecting"} /\ ctl'[v].on
        /\ \A v \in Windows : ~ctl'[v].on => role'[v] \in {"stopped", "crashed"}
        /\ \A v \in Windows : ctl'[v].on /\ place'[v] = "out" => role'[v] # "stopped"
    BY <1>0, <1>1, <2>2 DEF Linked
  <2> QED
    BY <2>3, <2>4, <2>5, <2>6, <2>7, <2>8 DEF Linked
<1> QED
  BY <1>2, <1>3, StartFields

LEMMA LinkedStep ==
    ASSUME Inv, Linked, Next
    PROVE  Linked'
<1>0. /\ role \in [Windows -> Roles] /\ place \in [Windows -> Places] /\ ctl \in [Windows -> Controllers]
      /\ conns \in Seq(Connections)
  BY DEF Inv, Web, Typed
<1>1. PICK w \in Windows : Act(w) \/ Step(w)
  BY DEF Next
<1>2. CASE Talk(w)
  BY <1>2, LinkedTalk
<1>3. CASE Starting(w)
  BY <1>3, LinkedStart
<1>4. CASE Join(w)
  <2>1. /\ \A v \in Windows \ {w} : ctl'[v] = ctl[v] /\ place'[v] = place[v]
        /\ ctl'[w].on /\ ctl'[w].owed = ctl[w].owed /\ ~ctl[w].on /\ role[w] # "crashed"
        /\ place'[w] = "connect" /\ role' = role /\ conns' = conns
    BY <1>0, <1>4 DEF Join, Idle, Controllers
  <2>2. role[w] = "stopped"
    BY <2>1 DEF Linked
  <2>3. \A v \in Windows : ctl'[v].owed = ctl[v].owed
    BY <2>1
  <2> QED
    BY <2>1, <2>2, <2>3 DEF Linked, ClientOf, Peers
<1>5. CASE Leave(w)
  <2>1. /\ \A v \in Windows \ {w} : ctl'[v] = ctl[v] /\ role'[v] = role[v]
        /\ ~ctl'[w].on /\ ~ctl'[w].owed /\ ctl[w].on
        /\ place' = place /\ place[w] = "out" /\ role'[w] = "stopped" /\ conns' = Hangup(conns, w)
        /\ role' \in [Windows -> Roles]
    BY <1>0, <1>5 DEF Leave, Stop, Idle, Controllers, Roles
  <2>2. /\ \A v \in Windows : place'[v] # "out" => role'[v] \in {"stopped", "connecting"} /\ ctl'[v].on
        /\ \A v \in Windows : ~ctl'[v].on => role'[v] \in {"stopped", "crashed"}
        /\ \A v \in Windows : ctl'[v].on /\ place'[v] = "out" => role'[v] # "stopped"
    BY <2>1 DEF Linked
  <2> QED
    BY <2>1, <2>2, LinkedHangup DEF Linked
<1>6. CASE CrashWindow(w)
  <2>1. /\ \A v \in Windows \ {w} : role'[v] = role[v] /\ place'[v] = place[v]
        /\ ctl' = ctl
        /\ place'[w] = "out" /\ role'[w] = "crashed" /\ conns' = Hangup(conns, w)
        /\ role' \in [Windows -> Roles]
    BY <1>0, <1>6 DEF CrashWindow, Crash, Idle, Roles
  <2>2. /\ \A v \in Windows : place'[v] # "out" => role'[v] \in {"stopped", "connecting"} /\ ctl'[v].on
        /\ \A v \in Windows : ~ctl'[v].on => role'[v] \in {"stopped", "crashed"}
        /\ \A v \in Windows : ctl'[v].on /\ place'[v] = "out" => role'[v] # "stopped"
    BY <2>1 DEF Linked
  <2> QED
    BY <2>1, <2>2, LinkedHangup DEF Linked
<1>7. CASE Retry(w)
  <2>1. /\ ctl' = ctl /\ conns' = conns /\ role' = role /\ role[w] = "connecting"
        /\ \A v \in Windows \ {w} : place'[v] = place[v]
    BY <1>0, <1>7 DEF Retry, RetryStart
  <2> QED
    BY <2>1 DEF Linked, ClientOf, Peers
<1>8. CASE LoseBroker(w)
  <2>1. PICK i \in ClientOf(conns, w) : conns' = [conns EXCEPT ![i].linked = FALSE]
    BY <1>8 DEF LoseBroker, ClientGone
  <2>2. /\ DOMAIN conns' = DOMAIN conns
        /\ \A k \in DOMAIN conns :
             /\ conns'[k].client = conns[k].client /\ conns'[k].server = conns[k].server
             /\ conns'[k].side = conns[k].side
             /\ (conns'[k].linked <=> k # i /\ conns[k].linked)
    BY <1>0, <2>1, LetGo DEF ClientOf
  <2>3. /\ ctl' = ctl /\ place' = place /\ role[w] = "client" /\ role'[w] = "connecting"
        /\ \A v \in Windows \ {w} : role'[v] = role[v]
    BY <1>0, <1>8 DEF LoseBroker, ClientGone
  <2>4. \A k \in DOMAIN conns : conns[k].client \in Windows /\ conns[k].server \in Windows
    BY <1>0, OfConnection
  <2>5. i \in DOMAIN conns /\ conns[i].client = w /\ conns[i].linked
    BY DEF ClientOf
  <2>6. \A v \in Windows : role'[v] = "client" => ClientOf(conns', v) # {}
    <3> SUFFICES ASSUME NEW v \in Windows, role'[v] = "client" PROVE ClientOf(conns', v) # {}
      OBVIOUS
    <3>1. v # w /\ role[v] = "client"
      BY <2>3
    <3>2. PICK k \in ClientOf(conns, v) : TRUE
      BY <3>1 DEF Linked
    <3>3. k \in ClientOf(conns', v)
      BY <2>2, <2>5, <3>1 DEF ClientOf
    <3> QED
      BY <3>3
  <2>7. \A v \in Windows : ctl'[v].owed => Peers(conns', v) = {}
    <3>1. \A v \in Windows : Peers(conns', v) = Peers(conns, v)
      BY <2>2 DEF Peers
    <3> QED
      BY <2>3, <3>1 DEF Linked
  <2>8. \A k \in DOMAIN conns' : conns'[k].linked => role'[conns'[k].client] = "client"
    BY <2>2, <2>3, <2>4, <2>5 DEF Linked
  <2>9. \A k, j \in DOMAIN conns' :
          conns'[k].linked /\ conns'[j].linked /\ conns'[k].client = conns'[j].client => k = j
    BY <2>2 DEF Linked
  <2>10. \A k \in DOMAIN conns' : conns'[k].side # "gone" => role'[conns'[k].server] = "broker"
    BY <2>2, <2>3, <2>4 DEF Linked
  <2>11. /\ \A v \in Windows : place'[v] # "out" => role'[v] \in {"stopped", "connecting"} /\ ctl'[v].on
         /\ \A v \in Windows : ~ctl'[v].on => role'[v] \in {"stopped", "crashed"}
         /\ \A v \in Windows : ctl'[v].on /\ place'[v] = "out" => role'[v] # "stopped"
    BY <2>3 DEF Linked
  <2> QED
    BY <2>6, <2>7, <2>8, <2>9, <2>10, <2>11 DEF Linked
<1> QED
  BY <1>1, <1>2, <1>3, <1>4, <1>5, <1>6, <1>7, <1>8 DEF Act, Step, Talk

LEMMA LinkedHolds == Spec => []Linked
<1>1. Init => Linked
  BY DEF Init, BusInit, Linked
<1>2. Inv /\ Linked /\ [Next]_vars => Linked'
  <2>1. ASSUME Linked, UNCHANGED vars PROVE Linked'
    BY <2>1 DEF Linked, ClientOf, Peers, vars, busVars
  <2> QED
    BY <2>1, LinkedStep
<1> QED
  BY <1>1, <1>2, InvHolds, PTL DEF Spec

(* The program does not come to rest with a window left out, nor with a      *)
(* publication owed to peers that are there, for any number of windows,      *)
(* exits and crashes, whether starts race or not.                            *)
THEOREM NobodyHolds == Spec => []NobodyIsLeftOut
<1>1. Inv /\ Linked => NobodyIsLeftOut
  <2> SUFFICES ASSUME Inv, Linked, AtRest, NEW w \in Taking
               PROVE  Reached(w) /\ (ctl[w].owed => Peers(conns, w) = {})
    BY DEF NobodyIsLeftOut
  <2>1. w \in Windows /\ ctl[w].on /\ role[w] # "crashed" /\ role \in [Windows -> Roles]
    BY DEF Taking, Inv, Web
  <2>2. \A v \in Windows : place[v] = "out" /\ role[v] # "connecting"
    BY DEF AtRest, Waits
  <2>3. role[w] \in {"broker", "client"}
    BY <2>1, <2>2 DEF Linked, Roles
  <2>4. CASE role[w] = "client"
    <3>1. PICK i \in ClientOf(conns, w) : TRUE
      BY <2>1, <2>4 DEF Linked
    <3>2. i \in DOMAIN conns /\ conns[i].side \in {"pending", "peer", "gone"} /\ conns[i].server \in Windows
      BY OfConnection DEF ClientOf, Inv, Typed
    <3>3. conns[i].side # "gone"
      BY <2>1, <2>4 DEF AtRest, Waits
    <3>4. role[conns[i].server] = "broker"
      BY <3>2, <3>3 DEF Linked
    <3>5. conns[i].side # "pending"
      BY <3>2, <3>4 DEF AtRest, Waits, Pending
    <3> QED
      BY <2>1, <3>1, <3>2, <3>3, <3>5 DEF Reached, Linked
  <2> QED
    BY <2>1, <2>3, <2>4 DEF Reached, Linked
<1> QED
  BY <1>1, InvHolds, LinkedHolds, PTL

-----------------------------------------------------------------------------
(* What is under way to somebody who still reads it, and how a step of       *)
(* window w adds to that: by states that show new, which is what w shows     *)
(* or has just been changed to.                                              *)
Live(m, cs) ==
    \E i \in DOMAIN cs : \/ cs[i].linked /\ In(m, cs[i].down)
                         \/ cs[i].side # "gone" /\ In(m, cs[i].up)

Said(w, new) ==
    /\ ctl' = [ctl EXCEPT ![w] = ctl'[w]] /\ ctl'[w].on = ctl[w].on
    /\ \A m : Live(m, conns') =>
                \/ Live(m, conns)
                \/ m.kind = "state" /\ m.payload = new /\ ctl[w].on
    /\ \/ ctl'[w].state = new
       \/ \E m : Live(m, conns) /\ m.kind = "state" /\ ctl'[w].state = m.payload
    /\ ctl'[w].sent \in {ctl[w].sent, ctl'[w].state}

LEMMA EmitLive ==
    ASSUME NEW cs \in Seq(Connections), NEW w \in Windows, NEW ms \in Seq(Messages),
           NEW ds, ds = Emit(cs, w, ms), NEW m, Live(m, ds)
    PROVE  Live(m, cs) \/ In(m, ms)
<1>1. /\ SameSides(cs, ds)
      /\ \A i \in DOMAIN cs : \A n :
           In(n, ds[i].down) <=> In(n, cs[i].down) \/ (i \in Peers(cs, w) /\ In(n, ms))
      /\ \A i \in DOMAIN cs : \A n :
           In(n, ds[i].up) <=>
               \/ In(n, cs[i].up)
               \/ i \in ClientOf(cs, w) \ Peers(cs, w) /\ cs[i].side # "gone" /\ In(n, ms)
  BY EmitFields
<1>2. PICK i \in DOMAIN ds : \/ ds[i].linked /\ In(m, ds[i].down)
                             \/ ds[i].side # "gone" /\ In(m, ds[i].up)
  BY DEF Live
<1>3. i \in DOMAIN cs /\ ds[i].linked = cs[i].linked /\ ds[i].side = cs[i].side
  BY <1>1, <1>2 DEF SameSides, SameEnds
<1> QED
  BY <1>1, <1>2, <1>3 DEF Live

LEMMA VoiceSays ==
    ASSUME Typed, NEW w \in Windows, NEW new, Voiced(w, new)
    PROVE  Said(w, new)
<1>1. PICK out \in Seq(Messages) :
        /\ conns' = Emit(conns, w, out)
        /\ \A m : In(m, out) => m.kind = "state" /\ m.payload = new /\ ctl[w].on
  BY DEF Voiced
<1>2. /\ ctl' = [ctl EXCEPT ![w] = ctl'[w]] /\ ctl'[w].on = ctl[w].on
      /\ ctl'[w].state = new /\ ctl'[w].sent \in {ctl[w].sent, new}
  BY DEF Voiced
<1>3. \A m : Live(m, conns') => Live(m, conns) \/ In(m, out)
  BY <1>1, EmitLive DEF Typed
<1> QED
  BY <1>1, <1>2, <1>3 DEF Said

LEMMA DeliverSays ==
    ASSUME Typed, NEW w \in Windows, NEW cs \in Seq(Connections), NEW m \in Messages,
           \A n : Live(n, cs) => Live(n, conns), Live(m, conns), Deliver(w, cs, m)
    PROVE  Said(w, ctl[w].state)
<1>1. /\ ctl' = [ctl EXCEPT ![w] = ctl'[w]] /\ ctl'[w].on = ctl[w].on
      /\ \E out \in Seq(Messages) :
           /\ conns' = Emit(cs, w, out)
           /\ \/ /\ ctl[w].on
                 /\ ctl'[w].state = ctl[w].state /\ ctl'[w].sent \in {ctl[w].sent, ctl[w].state}
                 /\ \A n : In(n, out) => n.kind = "state" /\ n.payload = ctl[w].state
              \/ /\ out = <<>>
                 /\ ctl'[w].state = ctl[w].state /\ ctl'[w].sent = ctl[w].sent
              \/ /\ m.kind = "state" /\ out = <<>>
                 /\ ctl'[w].state = m.payload /\ ctl'[w].sent = m.payload
  BY DeliverFields
<1>2. PICK out \in Seq(Messages) :
           /\ conns' = Emit(cs, w, out)
           /\ \/ /\ ctl[w].on
                 /\ ctl'[w].state = ctl[w].state /\ ctl'[w].sent \in {ctl[w].sent, ctl[w].state}
                 /\ \A n : In(n, out) => n.kind = "state" /\ n.payload = ctl[w].state
              \/ /\ out = <<>>
                 /\ ctl'[w].state = ctl[w].state /\ ctl'[w].sent = ctl[w].sent
              \/ /\ m.kind = "state" /\ out = <<>>
                 /\ ctl'[w].state = m.payload /\ ctl'[w].sent = m.payload
  BY <1>1
<1>3. \A n : Live(n, conns') => Live(n, conns) \/ In(n, out)
  BY <1>2, EmitLive
<1>4. /\ \A n : In(n, out) => n.kind = "state" /\ n.payload = ctl[w].state /\ ctl[w].on
      /\ ctl'[w].state = ctl[w].state \/ (m.kind = "state" /\ ctl'[w].state = m.payload)
      /\ ctl'[w].sent \in {ctl[w].sent, ctl'[w].state}
  BY <1>2, NoneIn
<1> QED
  BY <1>1, <1>3, <1>4 DEF Said

LEMMA BrokerLive ==
    ASSUME NEW w \in Windows, NEW i, NEW m, NEW cs \in Seq(Connections), BrokerReads(w, i, m, cs)
    PROVE  /\ Live(m, conns) /\ \A n : Live(n, cs) => Live(n, conns)
           /\ m \in Messages /\ SameSides(conns, cs) /\ Deliver(w, cs, m)
<1>3. /\ i \in Peers(conns, w) /\ m \in Messages /\ SameSides(conns, cs)
      /\ \A k \in DOMAIN conns : \A n :
            In(n, cs[k].down) <=> In(n, conns[k].down) \/ (k \in Peers(conns, w) \ {i} /\ n = m)
      /\ \A k \in DOMAIN conns \ {i} : cs[k].up = conns[k].up
      /\ \A n : In(n, conns[i].up) <=> n = m \/ In(n, cs[i].up)
      /\ Deliver(w, cs, m)
  BY DEF BrokerReads
<1>4. Live(m, conns)
  BY <1>3 DEF Live, Peers
<1>5. ASSUME NEW n, Live(n, cs) PROVE Live(n, conns)
  <2>1. PICK k \in DOMAIN conns :
          \/ conns[k].linked /\ In(n, cs[k].down)
          \/ conns[k].side # "gone" /\ In(n, cs[k].up)
    BY <1>3, <1>5 DEF Live, SameSides, SameEnds
  <2>2. CASE n = m
    BY <1>4, <2>2
  <2>3. CASE n # m
    <3>1. In(n, cs[k].down) => In(n, conns[k].down)
      BY <1>3, <2>3
    <3>2. In(n, cs[k].up) => In(n, conns[k].up)
      BY <1>3
    <3> QED
      BY <2>1, <3>1, <3>2 DEF Live
  <2> QED
    BY <2>2, <2>3
<1> QED
  BY <1>3, <1>4, <1>5

LEMMA BrokerSays ==
    ASSUME Typed, NEW w \in Windows, BrokerReceive(w)
    PROVE  Said(w, ctl[w].state)
<1>1. PICK i, m : \E cs \in Seq(Connections) : BrokerReads(w, i, m, cs)
  BY BrokerFields
<1>2. PICK cs \in Seq(Connections) : BrokerReads(w, i, m, cs)
  BY <1>1
<1>3. /\ Live(m, conns) /\ \A n : Live(n, cs) => Live(n, conns)
      /\ m \in Messages /\ SameSides(conns, cs) /\ Deliver(w, cs, m)
  BY <1>2, BrokerLive
<1> QED
  BY <1>3, DeliverSays

LEMMA ClientLive ==
    ASSUME NEW w \in Windows, NEW i, NEW m, NEW cs \in Seq(Connections), ClientReads(w, i, m, cs)
    PROVE  /\ Live(m, conns) /\ \A n : Live(n, cs) => Live(n, conns)
           /\ m \in Messages /\ SameSides(conns, cs) /\ Deliver(w, cs, m)
<1>3. /\ i \in ClientOf(conns, w) /\ m \in Messages /\ SameSides(conns, cs)
      /\ \A k \in DOMAIN conns : cs[k].up = conns[k].up
      /\ \A k \in DOMAIN conns \ {i} : cs[k].down = conns[k].down
      /\ \A n : In(n, conns[i].down) <=> n = m \/ In(n, cs[i].down)
      /\ Deliver(w, cs, m)
  BY DEF ClientReads
<1>4. Live(m, conns)
  BY <1>3 DEF Live, ClientOf
<1>5. ASSUME NEW n, Live(n, cs) PROVE Live(n, conns)
  <2>1. PICK k \in DOMAIN conns :
          \/ conns[k].linked /\ In(n, cs[k].down)
          \/ conns[k].side # "gone" /\ In(n, cs[k].up)
    BY <1>3, <1>5 DEF Live, SameSides, SameEnds
  <2>2. In(n, cs[k].down) => In(n, conns[k].down)
    BY <1>3
  <2> QED
    BY <1>3, <2>1, <2>2 DEF Live
<1> QED
  BY <1>3, <1>4, <1>5

LEMMA ClientSays ==
    ASSUME Typed, NEW w \in Windows, ClientReceive(w)
    PROVE  Said(w, ctl[w].state)
<1>1. PICK i, m : \E cs \in Seq(Connections) : ClientReads(w, i, m, cs)
  BY ClientFields
<1>2. PICK cs \in Seq(Connections) : ClientReads(w, i, m, cs)
  BY <1>1
<1>3. /\ Live(m, conns) /\ \A n : Live(n, cs) => Live(n, conns)
      /\ m \in Messages /\ SameSides(conns, cs) /\ Deliver(w, cs, m)
  BY <1>2, ClientLive
<1> QED
  BY <1>3, DeliverSays

(* What a running window does without its user.                              *)
Reacts(w) ==
    \/ PublishTimer(w) \/ LateCallback(w)
    \/ BrokerReceive(w) \/ ClientReceive(w) \/ Accept(w) \/ PeerGone(w)

LEMMA ReactSays ==
    ASSUME Typed, NEW w \in Windows, Reacts(w)
    PROVE  Said(w, ctl[w].state)
<1>1. CASE PublishTimer(w) \/ LateCallback(w)
  BY <1>1, TimerVoice, LateVoice, VoiceSays
<1>2. CASE Accept(w)
  <2>1. PICK out \in Seq(Messages) : AcceptsAll(w, out)
    BY <1>2, AcceptFields
  <2>2. /\ SameEnds(conns, conns')
        /\ \A k \in DOMAIN conns :
             /\ conns'[k].side # "gone" => conns[k].side # "gone"
             /\ \A n : In(n, conns'[k].down) => In(n, conns[k].down) \/ In(n, out)
             /\ \A n : In(n, conns'[k].up) => In(n, conns[k].up) \/ In(n, out)
    BY <2>1 DEF AcceptsAll, Pending
  <2>3. /\ ctl' = [ctl EXCEPT ![w] = ctl'[w]] /\ ctl'[w].on = ctl[w].on /\ ctl'[w].state = ctl[w].state
        /\ ctl'[w].sent \in {ctl[w].sent, ctl[w].state}
        /\ \A m : In(m, out) => m.kind = "state" /\ m.payload = ctl[w].state /\ ctl[w].on
    BY <2>1 DEF AcceptsAll
  <2>4. \A m : Live(m, conns') => Live(m, conns) \/ In(m, out)
    BY <2>2 DEF Live, SameEnds
  <2> QED
    BY <2>3, <2>4 DEF Said
<1>3. CASE PeerGone(w)
  <2>1. PICK i : \E out \in Seq(Messages) : LosesPeer(w, i, out)
    BY <1>3, PeerGoneFields
  <2>2. PICK out \in Seq(Messages) : LosesPeer(w, i, out)
    BY <2>1
  <2>3. /\ SameEnds(conns, conns')
        /\ \A k \in DOMAIN conns :
             /\ conns'[k].side # "gone" => conns[k].side # "gone"
             /\ \A n : In(n, conns'[k].down) => In(n, conns[k].down) \/ In(n, out)
             /\ \A n : In(n, conns'[k].up) => In(n, conns[k].up) \/ In(n, out)
    BY <2>2 DEF LosesPeer
  <2>4. /\ ctl' = [ctl EXCEPT ![w] = ctl'[w]] /\ ctl'[w].on = ctl[w].on /\ ctl'[w].state = ctl[w].state
        /\ ctl'[w].sent \in {ctl[w].sent, ctl[w].state}
        /\ \A m : In(m, out) => m.kind = "state" /\ m.payload = ctl[w].state /\ ctl[w].on
    BY <2>2 DEF LosesPeer
  <2>5. \A m : Live(m, conns') => Live(m, conns) \/ In(m, out)
    BY <2>3 DEF Live, SameEnds
  <2> QED
    BY <2>4, <2>5 DEF Said
<1> QED
  BY <1>1, <1>2, <1>3, BrokerSays, ClientSays DEF Reacts

(* A start sends no state.                                                   *)
LEMMA StartLive ==
    ASSUME Inv, NEW w \in Windows, Starting(w), NEW m, Live(m, conns'), m.kind = "state"
    PROVE  Live(m, conns)
<1>1. CASE GoesOn(w)
  BY <1>1 DEF GoesOn
<1>2. ASSUME NEW first, Connects(w, first) PROVE Live(m, conns)
  <2> DEFINE n == Len(conns) + 1
  <2>1. /\ n \notin DOMAIN conns /\ DOMAIN conns' = DOMAIN conns \cup {n}
        /\ \A i \in DOMAIN conns : conns'[i] = conns[i]
        /\ conns'[n].up = first /\ conns'[n].down = <<>>
    BY <1>2, ConnectFields
  <2> HIDE DEF n
  <2>2. \A k : In(k, first) => k.kind = "request"
    BY <1>2 DEF Connects, In, RequestMessage
  <2>3. ~In(m, conns'[n].up) /\ ~In(m, conns'[n].down)
    BY <2>1, <2>2, NoneIn
  <2> QED
    BY <2>1, <2>3 DEF Live
<1> QED
  BY <1>1, <1>2, StartFields

(* What any step of the program does.                                        *)
LEMMA StepSays ==
    ASSUME Inv, Linked, NEW w \in Windows, Step(w)
    PROVE  /\ Taking' = Taking /\ role[w] # "crashed"
           /\ ctl' \in [Windows -> Controllers] /\ \A v \in Windows \ {w} : ctl'[v] = ctl[v]
           /\ acts'.edits = acts.edits /\ calm' = calm /\ (skipped => skipped')
           /\ \A m : Live(m, conns') /\ m.kind = "state" =>
                \/ Live(m, conns)
                \/ m.payload = ctl[w].state /\ ctl[w].on
           /\ \/ ctl'[w].state = ctl[w].state
              \/ \E m : Live(m, conns) /\ m.kind = "state" /\ ctl'[w].state = m.payload
           /\ ctl'[w].sent \in {ctl[w].sent, ctl'[w].state}
<1>0. /\ Typed /\ ctl \in [Windows -> Controllers] /\ conns \in Seq(Connections)
      /\ role \in [Windows -> Roles] /\ place \in [Windows -> Places]
      /\ DOMAIN acts = {"joins", "edits", "reverts", "upsets"}
  BY DEF Inv, Web, Typed
<1>1. CASE Reacts(w)
  <2>1. Said(w, ctl[w].state)
    BY <1>0, <1>1, ReactSays
  <2>2. UNCHANGED <<role, place, path>>
    BY <1>0, <1>1, TalkShape DEF Reacts, Talk
  <2>3. role[w] # "crashed"
    BY <1>1 DEF Reacts, PublishTimer, LateCallback, BrokerReceive, ClientReceive, Accept, PeerGone, Idle
  <2>4. acts'.edits = acts.edits /\ calm' = calm /\ (skipped => skipped')
    <3>1. CASE PublishTimer(w) \/ LateCallback(w) \/ Accept(w) \/ PeerGone(w)
      <4>1. acts' = acts /\ historyVars' = historyVars
        BY <3>1 DEF PublishTimer, LateCallback, Accept, PeerGone
      <4> QED
        BY <4>1 DEF historyVars
    <3>2. ASSUME NEW cs, NEW m, Deliver(w, cs, m)
          PROVE  acts'.edits = acts.edits /\ calm' = calm /\ (skipped => skipped')
      <4>1. acts' = acts \/ acts' = [acts EXCEPT !.upsets = @ + 1]
        BY <3>2 DEF Deliver, Counted
      <4>2. calm' = calm /\ skipped' = (skipped \/ (Wanted(ctl[w], m) /\ ctl[w].ignoring))
        BY <3>2 DEF Deliver, Hears
      <4> QED
        BY <1>0, <4>1, <4>2
    <3>3. BrokerReceive(w) \/ ClientReceive(w) => \E cs, m : Deliver(w, cs, m)
      BY DEF BrokerReceive, ClientReceive
    <3> QED
      BY <1>1, <3>1, <3>2, <3>3 DEF Reacts
  <2>5. ctl'[w] \in Controllers
    <3>1. Moves
      BY <1>1 DEF Reacts, Moves, Step
    <3> QED
      BY <1>1, <3>1, MoveInv DEF Inv, Typed
  <2>6. /\ ctl' \in [Windows -> Controllers] /\ \A v \in Windows \ {w} : ctl'[v] = ctl[v]
        /\ ctl'[w].on = ctl[w].on
    BY <1>0, <2>1, <2>5 DEF Said
  <2>7. Taking' = Taking
    BY <2>2, <2>6 DEF Taking
  <2> QED
    BY <2>1, <2>3, <2>4, <2>6, <2>7 DEF Said
<1>2. CASE Starting(w)
  <2>1. ctl' = ctl /\ acts' = acts /\ calm' = calm /\ skipped' = skipped
    BY <1>2 DEF Starting, historyVars
  <2>2. /\ role[w] \in {"stopped", "connecting"} /\ \A v \in Windows \ {w} : role'[v] = role[v]
        /\ role'[w] # "crashed"
    BY <1>0, <1>2, StartFields DEF Linked, Connects, GoesOn
  <2>3. Taking' = Taking
    BY <2>1, <2>2 DEF Taking
  <2>4. \A m : Live(m, conns') /\ m.kind = "state" => Live(m, conns)
    BY <1>2, StartLive
  <2> QED
    BY <1>0, <2>1, <2>2, <2>3, <2>4
<1>3. CASE Retry(w)
  <2>1. UNCHANGED <<ctl, acts, calm, skipped, conns, role>> /\ role[w] # "crashed"
    BY <1>3 DEF Retry, RetryStart, historyVars, Idle
  <2> QED
    BY <1>0, <2>1 DEF Taking
<1>4. CASE LoseBroker(w)
  <2>1. PICK i \in ClientOf(conns, w) : conns' = [conns EXCEPT ![i].linked = FALSE]
    BY <1>4 DEF LoseBroker, ClientGone
  <2>2. /\ DOMAIN conns' = DOMAIN conns
        /\ \A k \in DOMAIN conns :
             /\ conns'[k].up = conns[k].up /\ conns'[k].down = conns[k].down
             /\ conns'[k].side = conns[k].side
             /\ (conns'[k].linked => conns[k].linked)
    BY <1>0, <2>1, LetGo DEF ClientOf
  <2>3. /\ UNCHANGED <<ctl, acts, calm, skipped>> /\ role[w] = "client" /\ role'[w] = "connecting"
        /\ \A v \in Windows \ {w} : role'[v] = role[v]
    BY <1>0, <1>4 DEF LoseBroker, ClientGone, historyVars
  <2>4. Taking' = Taking
    BY <2>3 DEF Taking
  <2>5. \A m : Live(m, conns') => Live(m, conns)
    BY <2>2 DEF Live
  <2> QED
    BY <1>0, <2>3, <2>4, <2>5
<1> QED
  BY <1>1, <1>2, <1>3, <1>4 DEF Step, Reacts

LEMMA HangupLive ==
    ASSUME NEW cs \in Seq(Connections), NEW w \in Windows, NEW m, Live(m, Hangup(cs, w))
    PROVE  Live(m, cs)
<1>1. LET ds == Hangup(cs, w)
      IN /\ DOMAIN ds = DOMAIN cs
         /\ \A i \in DOMAIN cs :
              /\ ds[i].up = cs[i].up /\ ds[i].down = cs[i].down
              /\ (ds[i].linked <=> cs[i].linked /\ cs[i].client # w)
              /\ ds[i].side = IF cs[i].server = w THEN "gone" ELSE cs[i].side
  BY HangupFields
<1> QED
  BY <1>1 DEF Live

(* What has been edited so far; nothing else is shown, sent or under way, so *)
(* an edit shows what nobody has seen.                                       *)
Made == Windows \X (0..acts.edits)
Dated ==
    /\ \A m : Live(m, conns) /\ m.kind = "state" => m.payload \in Made
    /\ \A w \in Windows : ctl[w].state \in Made /\ ctl[w].sent \in Made \cup {None}

LEMMA DatedStep ==
    ASSUME Inv, Linked, Dated, Next
    PROVE  Dated'
<1>0. /\ Typed /\ ctl \in [Windows -> Controllers] /\ conns \in Seq(Connections)
      /\ DOMAIN acts = {"joins", "edits", "reverts", "upsets"} /\ acts.edits \in Nat
  BY SyncAssumption DEF Inv, Web, Typed
<1>1. PICK w \in Windows : Act(w) \/ Step(w)
  BY DEF Next
<1>2. CASE Step(w)
  <2>1. /\ \A v \in Windows \ {w} : ctl'[v] = ctl[v]
        /\ acts'.edits = acts.edits
        /\ \A m : Live(m, conns') /\ m.kind = "state" =>
             \/ Live(m, conns)
             \/ m.payload = ctl[w].state /\ ctl[w].on
        /\ \/ ctl'[w].state = ctl[w].state
           \/ \E m : Live(m, conns) /\ m.kind = "state" /\ ctl'[w].state = m.payload
        /\ ctl'[w].sent \in {ctl[w].sent, ctl'[w].state}
    BY <1>2, StepSays
  <2>2. Made' = Made
    BY <2>1 DEF Made
  <2>3. ctl'[w].state \in Made /\ ctl'[w].sent \in Made \cup {None}
    BY <2>1 DEF Dated
  <2> QED
    BY <2>1, <2>2, <2>3 DEF Dated
<1>3. CASE Edit(w) \/ Revert(w)
  <2> DEFINE new == <<w, acts.edits + 1>>
  <2>1. Said(w, new)
    BY <1>0, <1>3, EditVoice, RevertVoice, VoiceSays
  <2>2. acts'.edits = acts.edits + 1
    BY <1>0, <1>3 DEF Edit, Revert, Counted
  <2>3. Made \subseteq Made' /\ new \in Made'
    BY <1>0, <2>2 DEF Made
  <2> HIDE DEF new
  <2>4. ctl'[w].state \in Made' /\ ctl'[w].sent \in Made' \cup {None}
    BY <2>1, <2>3 DEF Dated, Said
  <2>5. \A m : Live(m, conns') /\ m.kind = "state" => m.payload \in Made'
    BY <2>1, <2>3 DEF Dated, Said
  <2>6. \A v \in Windows \ {w} : ctl'[v] = ctl[v]
    BY <1>0, <2>1 DEF Said
  <2> QED
    BY <2>3, <2>4, <2>5, <2>6 DEF Dated
<1>4. CASE Join(w)
  <2>1. conns' = conns /\ acts'.edits = acts.edits
    BY <1>0, <1>4 DEF Join, Counted
  <2>2. \A v \in Windows : ctl'[v].state = ctl[v].state /\ ctl'[v].sent = ctl[v].sent
    BY <1>0, <1>4 DEF Join, Controllers
  <2> QED
    BY <2>1, <2>2 DEF Dated, Made
<1>5. CASE Leave(w)
  <2>1. conns' = Hangup(conns, w) /\ acts'.edits = acts.edits
    BY <1>0, <1>5 DEF Leave, Counted, Stop
  <2>2. \A v \in Windows : ctl'[v].state = ctl[v].state /\ ctl'[v].sent \in {None, ctl[v].sent}
    BY <1>0, <1>5 DEF Leave, Controllers
  <2> QED
    BY <1>0, <2>1, <2>2, HangupLive DEF Dated, Made
<1>6. CASE CrashWindow(w)
  <2>1. conns' = Hangup(conns, w) /\ acts'.edits = acts.edits /\ ctl' = ctl
    BY <1>0, <1>6 DEF CrashWindow, Counted, Crash
  <2> QED
    BY <1>0, <2>1, HangupLive DEF Dated, Made
<1> QED
  BY <1>1, <1>2, <1>3, <1>4, <1>5, <1>6 DEF Act

LEMMA DatedHolds == Spec => []Dated
<1>1. Init => Dated
  BY SyncAssumption DEF Init, BusInit, Dated, Live, Made
<1>2. Inv /\ Linked /\ Dated /\ [Next]_vars => Dated'
  <2>1. ASSUME Dated, UNCHANGED vars PROVE Dated'
    BY <2>1 DEF Dated, Made, vars, busVars
  <2> QED
    BY <2>1, DatedStep
<1> QED
  BY <1>1, <1>2, InvHolds, LinkedHolds, PTL DEF Spec

-----------------------------------------------------------------------------
(* A calm group is in one of four situations: it shows one state; an edit    *)
(* waits for its timer; an edit goes round; or somebody joins.               *)
OnlyLive(a) == \A m : Live(m, conns) /\ m.kind = "state" => m.payload = a
Same(a) == OnlyLive(a) /\ \A x \in Taking : ctl[x].state = a

(* Everybody who takes part is linked, and nothing else is half open.        *)
Wired ==
    /\ \A w \in Windows : place[w] = "out" /\ role[w] # "connecting"
    /\ \A w \in Taking : Reached(w)
    /\ \A i \in DOMAIN conns : \/ conns[i].side = "gone" /\ ~conns[i].linked
                               \/ conns[i].side = "peer" /\ conns[i].linked

Hushed == \A m : ~Live(m, conns)
Drafted(a, e) ==
    /\ Wired /\ Hushed
    /\ e \in Taking /\ ctl[e].state = a /\ ctl[e].timer /\ ctl[e].sent # a
    /\ \A x \in Taking : ~ctl[x].late /\ (ctl[x].timer => x = e)

(* A message that window x will apply, and whether one is on its way to x.   *)
Tells(m, x) == m.kind = "state" /\ ~Known(ctl[x], m)
Coming(x) ==
    \/ \E i \in ClientOf(conns, x) : \E m : In(m, conns[i].down) /\ Tells(m, x)
    \/ \E i \in DOMAIN conns :
        /\ conns[i].side # "gone" /\ conns[i].client # x
        /\ \E m : In(m, conns[i].up) /\ Tells(m, x)

Spread(a) ==
    /\ Wired /\ OnlyLive(a) /\ \A m : Live(m, conns) => m.kind = "state"
    /\ \A x \in Taking : ctl[x].timer \/ ctl[x].late => ctl[x].state = a
    /\ \A x \in Taking : ctl[x].state = a \/ Coming(x)

(* Window u is about to ask, has asked, or was answered.                     *)
Asking(u) ==
    \/ place[u] = "connect" /\ role[u] = "stopped" /\ Served /\ ctl[u].wanting
    \/ \E i \in ClientOf(conns, u) : \/ \E m : In(m, conns[i].down) /\ Tells(m, u)
                                     \/ \E m : In(m, conns[i].up) /\ m.kind = "request"

Joining(a, u) ==
    /\ OnlyLive(a) /\ u \in Taking /\ \A x \in Taking \ {u} : ctl[x].state = a
    /\ ~ctl[u].timer /\ ~ctl[u].late /\ Asking(u)
    /\ \A i \in DOMAIN conns : conns[i].linked <=> conns[i].side # "gone"
    /\ \A i \in DOMAIN conns : conns[i].linked =>
          IF conns[i].client = u THEN \A m : In(m, conns[i].down) => m.kind = "state"
                                 ELSE \A m : In(m, conns[i].up) => m.kind = "state"
    /\ \A x \in Windows \ {u} : place[x] = "out" /\ role[x] # "connecting"

Round(a) == Same(a) \/ Spread(a) \/ \E u : Drafted(a, u) \/ Joining(a, u)
Rounds == calm /\ ~skipped /\ ~overtaken => \E a : Round(a)

LEMMA SettledIsDone ==
    ASSUME Settled
    PROVE  Wired /\ Hushed /\ \A x \in Taking : ~ctl[x].timer /\ ~ctl[x].late
<1>1. \A m : ~Live(m, conns)
  BY NoneIn DEF Settled, Live
<1> QED
  BY <1>1 DEF Settled, Wired, Hushed

LEMMA SettledIsSame ==
    ASSUME Settled, NEW a, Round(a)
    PROVE  Same(a)
<1>1. Wired /\ Hushed /\ \A x \in Taking : ~ctl[x].timer /\ ~ctl[x].late
  BY SettledIsDone
<1>2. CASE Spread(a)
  <2>1. \A x \in Taking : ~Coming(x)
    BY <1>1 DEF Coming, Live, ClientOf, Hushed
  <2> QED
    BY <1>2, <2>1 DEF Spread, Same
<1>3. ASSUME NEW u, Joining(a, u) PROVE FALSE
  <2>1. u \in Windows /\ Asking(u)
    BY <1>3 DEF Joining, Taking
  <2>2. place[u] = "out"
    BY <1>1, <2>1 DEF Wired
  <2>3. PICK i \in ClientOf(conns, u) : \E m : In(m, conns[i].down) \/ In(m, conns[i].up)
    BY <2>1, <2>2 DEF Asking
  <2>4. i \in DOMAIN conns /\ conns[i].linked /\ conns[i].side # "gone"
    BY <1>1 DEF ClientOf, Wired
  <2> QED
    BY <1>1, <2>3, <2>4 DEF Live, Hushed
<1>4. ~(\E u : Drafted(a, u))
  BY <1>1 DEF Drafted
<1> QED
  BY <1>2, <1>3, <1>4 DEF Round

LEMMA SameStep ==
    ASSUME Inv, Linked, NEW a, Same(a), NEW w \in Windows, Step(w)
    PROVE  Same(a)'
<1>1. /\ Taking' = Taking /\ role[w] # "crashed"
      /\ \A v \in Windows \ {w} : ctl'[v] = ctl[v]
      /\ \A m : Live(m, conns') /\ m.kind = "state" =>
           \/ Live(m, conns)
           \/ m.payload = ctl[w].state /\ ctl[w].on
      /\ \/ ctl'[w].state = ctl[w].state
         \/ \E m : Live(m, conns) /\ m.kind = "state" /\ ctl'[w].state = m.payload
  BY StepSays
<1>2. ctl[w].on => ctl[w].state = a
  BY <1>1 DEF Same, Taking
<1>3. OnlyLive(a)'
  BY <1>1, <1>2 DEF Same, OnlyLive
<1>4. \A x \in Taking : ctl'[x].state = a
  BY <1>1 DEF Same, OnlyLive, Taking
<1> QED
  BY <1>1, <1>3, <1>4 DEF Same

(* Among the linked: what the broker has, and how they hear of it.           *)
LEMMA Neighbour ==
    ASSUME Linked, Elections, NEW w \in Windows, role[w] = "broker",
           NEW x \in Windows, x # w, Reached(x), Typed
    PROVE  \E j \in ClientOf(conns, x) : j \in Peers(conns, w)
<1>1. role[x] # "broker"
  BY DEF Elections
<1>2. PICK j \in ClientOf(conns, x) : conns[j].side = "peer"
  BY <1>1 DEF Reached
<1>3. j \in DOMAIN conns /\ conns[j].server \in Windows
  BY OfConnection DEF ClientOf, Typed
<1>4. role[conns[j].server] = "broker"
  BY <1>2, <1>3 DEF Linked
<1>5. conns[j].server = w
  BY <1>3, <1>4 DEF Elections
<1> QED
  BY <1>2, <1>3, <1>5 DEF Peers

LEMMA WiredStays ==
    ASSUME Wired, SameSides(conns, conns'), UNCHANGED <<role, place>>, Taking' = Taking
    PROVE  Wired'
<1>1. \A v : ClientOf(conns', v) = ClientOf(conns, v)
  BY SameSidesLinks
<1>2. \A i \in DOMAIN conns' : conns'[i].side = conns[i].side /\ conns'[i].linked = conns[i].linked
                               /\ i \in DOMAIN conns
  BY DEF SameSides, SameEnds
<1>3. \A w \in Taking' : Reached(w)'
  BY <1>1, <1>2 DEF Wired, Reached, ClientOf
<1>4. \A i \in DOMAIN conns' : \/ conns'[i].side = "gone" /\ ~conns'[i].linked
                               \/ conns'[i].side = "peer" /\ conns'[i].linked
  BY <1>2 DEF Wired
<1> QED
  BY <1>3, <1>4 DEF Wired

LEMMA Heard ==
    ASSUME Inv, Linked, Elections, Wired, NEW w \in Taking, NEW x \in Taking, x # w,
           NEW out \in Seq(Messages), conns' = Emit(conns, w, out),
           NEW m, In(m, out), m.kind = "state", ~Known(ctl'[x], m)
    PROVE  Coming(x)'
<1>0. /\ w \in Windows /\ x \in Windows /\ Typed /\ Reached(w) /\ Reached(x)
      /\ conns \in Seq(Connections)
  BY DEF Taking, Inv, Wired, Typed
<1>1. /\ SameSides(conns, conns')
      /\ \A i \in DOMAIN conns : \A n :
           In(n, conns'[i].down) <=> In(n, conns[i].down) \/ (i \in Peers(conns, w) /\ In(n, out))
      /\ \A i \in DOMAIN conns : \A n :
           In(n, conns'[i].up) <=>
               \/ In(n, conns[i].up)
               \/ i \in ClientOf(conns, w) \ Peers(conns, w) /\ conns[i].side # "gone" /\ In(n, out)
  BY <1>0, EmitFields
<1>2. Tells(m, x)'
  BY DEF Tells
<1>3. CASE role[w] = "broker"
  <2>1. PICK j \in ClientOf(conns, x) : j \in Peers(conns, w)
    BY <1>0, <1>3, Neighbour
  <2>2. In(m, conns'[j].down) /\ j \in ClientOf(conns', x)
    BY <1>1, <2>1, SameSidesLinks DEF Peers
  <2> QED
    BY <1>2, <2>2 DEF Coming
<1>4. CASE role[w] # "broker"
  <2>1. PICK i \in ClientOf(conns, w) : conns[i].side = "peer"
    BY <1>0, <1>4 DEF Reached
  <2>2. i \in DOMAIN conns /\ conns[i].client = w /\ conns[i].server \in Windows
    BY <1>0, OfConnection DEF ClientOf, Typed
  <2>3. i \notin Peers(conns, w)
    BY <1>4, <2>1, <2>2 DEF Linked, Peers
  <2>4. In(m, conns'[i].up)
    BY <1>1, <2>1, <2>2, <2>3
  <2>5. i \in DOMAIN conns' /\ conns'[i].side # "gone" /\ conns'[i].client # x
    BY <1>1, <2>1, <2>2 DEF SameSides, SameEnds
  <2> QED
    BY <1>2, <2>4, <2>5 DEF Coming
<1> QED
  BY <1>3, <1>4

(* What w has yet to say nobody knows.                                       *)
LEMMA Newer ==
    ASSUME Typed, Names, NEW w \in Windows, NEW x \in Windows, NEW m \in Messages,
           m.kind = "state", m.origin = w, m.rev > ctl[w].rev
    PROVE  ~Known(ctl[x], m)
<1> SUFFICES ASSUME ctl[x].applied = <<m.origin, m.rev>> PROVE FALSE
  BY DEF Known
<1>1. ctl[x].applied # None => ctl[x].applied[2] <= ctl[ctl[x].applied[1]].rev
  BY DEF Names
<1>2. m.rev \in Nat /\ ctl[w].rev \in Nat
  BY OfMessage, OfController DEF Typed
<1>3. ctl[x].applied # None
  BY <1>2, SyncAssumption
<1> QED
  BY <1>1, <1>2, <1>3

(* What a window of a quiet group says of its own accord, that it has not    *)
(* sent before, is still to be published, has nobody to reach, or is on its  *)
(* way to everybody else.                                                    *)
LEMMA VoiceRound ==
    ASSUME Inv, Linked, Elections, Names, Wired, Hushed,
           NEW w \in Taking, NEW new, Voiced(w, new), ctl[w].sent # new, ~ctl[w].late,
           \A x \in Taking \ {w} : ~ctl[x].timer /\ ~ctl[x].late,
           UNCHANGED <<role, place, path>>
    PROVE  Round(new)'
<1>0. /\ Typed /\ ctl \in [Windows -> Controllers] /\ conns \in Seq(Connections)
      /\ role \in [Windows -> Roles]
  BY DEF Inv, Web, Typed
<1>6. w \in Windows /\ ctl[w].on /\ IsRunning(w)
  BY <1>0 DEF Taking, IsRunning, Wired, Linked, Roles
<1>7. PICK out \in Seq(Messages) :
        /\ conns' = Emit(conns, w, out)
        /\ ctl' = [ctl EXCEPT ![w] = ctl'[w]]
        /\ ctl'[w].on = ctl[w].on
        /\ ctl'[w].state = new
        /\ (ctl'[w].late => ctl[w].late)
        /\ \A m : In(m, out) => m.kind = "state" /\ m.origin = w /\ m.rev > ctl[w].rev
        /\ \/ ctl'[w].timer /\ ctl'[w].sent = ctl[w].sent /\ out = <<>>
           \/ role[w] = "broker" /\ Peers(conns, w) = {}
           \/ \E m : In(m, out)
           \/ ctl[w].sent = new
  BY <1>6 DEF Voiced
<1>8. /\ ctl'[w].on = ctl[w].on /\ \A v \in Windows \ {w} : ctl'[v] = ctl[v]
      /\ SameSides(conns, conns')
  BY <1>0, <1>6, <1>7, VoiceEnds
<1>9. Taking' = Taking
  BY <1>8 DEF Taking
<1>10. Wired'
  BY <1>8, <1>9, WiredStays
<1>11. \A m : Live(m, conns') => m.kind = "state" /\ m.payload = new
  BY <1>0, <1>6, VoiceSays DEF Said, Hushed
<1>12. OnlyLive(new)'
  BY <1>11 DEF OnlyLive
<1>13. ASSUME ctl'[w].timer, ctl'[w].sent = ctl[w].sent, out = <<>> PROVE Drafted(new, w)'
  <2>1. Hushed'
    BY <1>0, <1>6, <1>7, <1>13, EmitLive, NoneIn DEF Hushed
  <2>2. \A x \in Taking : ~ctl'[x].late /\ (ctl'[x].timer => x = w)
    BY <1>6, <1>7, <1>8 DEF Taking
  <2> QED
    BY <1>6, <1>7, <1>9, <1>10, <1>13, <2>1, <2>2 DEF Drafted
<1>14. ASSUME role[w] = "broker", Peers(conns, w) = {} PROVE Same(new)'
  <2>1. ASSUME NEW x \in Taking PROVE x = w
    <3>1. x \in Windows /\ Reached(x)
      BY <2>1 DEF Taking, Wired
    <3> QED
      BY <1>0, <1>6, <1>14, <3>1, Neighbour
  <2> QED
    BY <1>7, <1>9, <1>12, <2>1 DEF Same
<1>15. ASSUME NEW m, In(m, out) PROVE Spread(new)'
  <2>1. m.kind = "state" /\ m.origin = w /\ m.rev > ctl[w].rev
    BY <1>7, <1>15
  <2>2. ASSUME NEW x \in Taking, x # w PROVE Coming(x)'
    <3>1. x \in Windows /\ ctl'[x] = ctl[x]
      BY <1>8, <2>2 DEF Taking
    <3>2. ~Known(ctl'[x], m)
      BY <1>0, <1>6, <1>15, <2>1, <3>1, Newer DEF In
    <3> QED
      BY <1>7, <1>15, <2>1, <2>2, <3>2, Heard
  <2>3. \A x \in Taking : ctl'[x].state = new \/ Coming(x)'
    BY <1>7, <2>2
  <2>4. \A x \in Taking : ctl'[x].timer \/ ctl'[x].late => ctl'[x].state = new
    BY <1>7, <1>8 DEF Taking
  <2> QED
    BY <1>9, <1>10, <1>11, <1>12, <2>3, <2>4 DEF Spread
<1> QED
  BY <1>7, <1>13, <1>14, <1>15 DEF Round

(* An edit that finds the group settled is such a thing.                     *)
LEMMA EditRound ==
    ASSUME Inv, Linked, Elections, Names, Dated, Settled,
           NEW w \in Windows, Edit(w) \/ Revert(w), ctl[w].on
    PROVE  \E a : Round(a)'
<1> PICK new : new = <<w, acts.edits + 1>>
  OBVIOUS
<1>1. Wired /\ Hushed /\ \A x \in Taking : ~ctl[x].timer /\ ~ctl[x].late
  BY SettledIsDone
<1>2. Voiced(w, new)
  BY EditVoice, RevertVoice DEF Inv
<1>3. new \notin Made \cup {None}
  BY SyncAssumption DEF Made, Inv, Typed
<1>4. ctl[w].sent # new
  BY <1>3 DEF Dated
<1>5. UNCHANGED <<role, place, path>> /\ w \in Taking
  BY DEF Edit, Revert, Editing, Idle, Taking
<1> QED
  BY <1>1, <1>2, <1>4, <1>5, VoiceRound

(* Nobody else is concerned by what a window does that takes no part.        *)
LEMMA EmitNothing ==
    ASSUME NEW cs \in Seq(Connections), NEW w
    PROVE  Emit(cs, w, <<>>) = cs
<1>1. ASSUME NEW i \in DOMAIN cs
      PROVE  [cs[i] EXCEPT !.down = @ \o <<>>] = cs[i] /\ [cs[i] EXCEPT !.up = @ \o <<>>] = cs[i]
  <2>1. cs[i] \in Connections /\ cs[i].up \in Seq(Messages) /\ cs[i].down \in Seq(Messages)
    BY <1>1, OfConnection
  <2>2. cs[i].up \o <<>> = cs[i].up /\ cs[i].down \o <<>> = cs[i].down
    BY <2>1, ConcatEmptySeq
  <2>3. [cs[i] EXCEPT !.down = cs[i].down] = cs[i] /\ [cs[i] EXCEPT !.up = cs[i].up] = cs[i]
    BY <2>1 DEF Connections
  <2> QED
    BY <2>2, <2>3
<1>2. Emit(cs, w, <<>>) = [i \in DOMAIN cs |-> cs[i]]
  BY <1>1 DEF Emit
<1>3. [i \in DOMAIN cs |-> cs[i]] = cs
  OBVIOUS
<1> QED
  BY <1>2, <1>3

LEMMA RoundFrame ==
    ASSUME UNCHANGED <<role, place, path, conns>>, Taking' = Taking,
           \A x \in Taking : ctl'[x] = ctl[x], NEW a, Round(a)
    PROVE  Round(a)'
<1>1. OnlyLive(a)' <=> OnlyLive(a)
  BY DEF OnlyLive
<1>2. Wired => Wired'
  BY DEF Wired, Reached, ClientOf
<1>3. \A x \in Taking : Coming(x) => Coming(x)'
  BY DEF Coming, Tells, ClientOf
<1>4. \A x \in Taking : Asking(x) => Asking(x)'
  BY DEF Asking, Tells, ClientOf, Served
<1>5. Same(a) => Same(a)'
  BY <1>1 DEF Same
<1>6. Spread(a) => Spread(a)'
  BY <1>1, <1>2, <1>3 DEF Spread
<1>7. \A u : Drafted(a, u) => Drafted(a, u)'
  BY <1>2 DEF Drafted, Hushed
<1>8. \A u : Joining(a, u) => Joining(a, u)'
  BY <1>1, <1>4 DEF Joining
<1> QED
  BY <1>5, <1>6, <1>7, <1>8 DEF Round

LEMMA Unheard ==
    ASSUME Inv, NEW w \in Windows, NEW new, Voiced(w, new), ~ctl[w].on,
           UNCHANGED <<role, place, path>>, NEW a, Round(a)
    PROVE  Round(a)'
<1>1. PICK out \in Seq(Messages) : conns' = Emit(conns, w, out) /\ \A m : In(m, out) => ctl[w].on
  BY DEF Voiced
<1>2. out = <<>>
  <2>1. \A k \in 1..Len(out) : FALSE
    BY <1>1, LenProperties DEF In
  <2>2. Len(out) = 0
    BY <2>1, LenProperties
  <2> QED
    BY <2>2, EmptySeq
<1>3. conns' = conns
  BY <1>1, <1>2, EmitNothing DEF Inv, Typed
<1>4. /\ \A v \in Windows \ {w} : ctl'[v] = ctl[v]
      /\ ctl'[w].on = ctl[w].on
  BY DEF Voiced, Inv, Typed
<1>5. Taking' = Taking
  BY <1>4 DEF Taking
<1> QED
  BY <1>3, <1>4, <1>5, RoundFrame DEF Taking

(* Whoever takes part in a settled group has a broker; whoever joins it      *)
(* without one is alone.                                                     *)
LEMMA JoinRound ==
    ASSUME Inv, Linked, Elections, Settled, NEW a, Same(a), NEW w \in Windows, Join(w)
    PROVE  \E b : Round(b)'
<1>0. /\ Typed /\ ctl \in [Windows -> Controllers] /\ place \in [Windows -> Places]
  BY DEF Inv, Web, Typed
<1>1. Wired /\ Hushed /\ \A x \in Taking : ~ctl[x].timer /\ ~ctl[x].late
  BY SettledIsDone
<1>2. /\ conns' = conns /\ role' = role /\ path' = path
      /\ place' = [place EXCEPT ![w] = "connect"] /\ role[w] # "crashed" /\ ~ctl[w].on
      /\ ~ctl[w].timer /\ ~ctl[w].late
  BY DEF Join, Idle
<1>3. /\ \A v \in Windows \ {w} : ctl'[v] = ctl[v]
      /\ ctl'[w].on /\ ctl'[w].wanting /\ ctl'[w].state = ctl[w].state
      /\ ctl'[w].timer = ctl[w].timer /\ ctl'[w].late = ctl[w].late
  BY <1>0 DEF Join, Controllers
<1>4. Taking' = Taking \cup {w} /\ w \notin Taking
  BY <1>2, <1>3 DEF Taking
<1>6. ASSUME Served PROVE Joining(a, w)'
  <2>1. Asking(w)'
    <3>1. place'[w] = "connect" /\ role'[w] = "stopped"
      BY <1>0, <1>2 DEF Linked
    <3>2. Served'
      BY <1>2, <1>6 DEF Served
    <3> QED
      BY <1>3, <3>1, <3>2 DEF Asking
  <2>2. /\ OnlyLive(a)' /\ w \in Taking' /\ ~ctl'[w].timer /\ ~ctl'[w].late
        /\ \A x \in Taking' \ {w} : ctl'[x].state = a
    BY <1>2, <1>3, <1>4 DEF Same, OnlyLive, Taking
  <2>3. \A i \in DOMAIN conns' : conns'[i].linked <=> conns'[i].side # "gone"
    BY <1>1, <1>2 DEF Wired
  <2>4. \A i \in DOMAIN conns' : conns'[i].linked =>
          \A m : ~In(m, conns'[i].up) /\ ~In(m, conns'[i].down)
    BY <1>1, <1>2, <2>3 DEF Live, Hushed
  <2>5. \A x \in Windows \ {w} : place'[x] = "out" /\ role'[x] # "connecting"
    BY <1>0, <1>1, <1>2 DEF Wired
  <2> QED
    BY <2>1, <2>2, <2>3, <2>4, <2>5 DEF Joining
<1>7. ASSUME ~Served PROVE \E b : Same(b)'
  <2>1. ASSUME NEW x \in Taking PROVE FALSE
    <3>1. x \in Windows /\ Reached(x)
      BY <1>1, <2>1 DEF Taking, Wired
    <3>2. \E v \in Windows : role[v] = "broker"
      <4>1. CASE role[x] = "broker"
        BY <3>1, <4>1
      <4>2. CASE role[x] # "broker"
        <5>1. PICK i \in ClientOf(conns, x) : conns[i].side = "peer"
          BY <3>1, <4>2 DEF Reached
        <5>2. i \in DOMAIN conns /\ conns[i].server \in Windows
          BY <1>0, OfConnection DEF ClientOf, Typed
        <5> QED
          BY <5>1, <5>2 DEF Linked
      <4> QED
        BY <4>1, <4>2
    <3> QED
      BY <1>7, <3>2, SyncAssumption DEF Elections, Served
  <2>2. PICK b : b = ctl'[w].state
    OBVIOUS
  <2>3. Same(b)'
    BY <1>1, <1>2, <1>4, <2>1, <2>2 DEF Same, OnlyLive, Hushed
  <2> QED
    BY <2>3
<1> QED
  BY <1>6, <1>7 DEF Round

LEMMA ActRound ==
    ASSUME Inv, Linked, Elections, Names, Dated, Rounds, NEW w \in Windows, Act(w),
           calm', ~skipped', ~overtaken
    PROVE  \E a : Round(a)'
<1>0. /\ Typed /\ ctl \in [Windows -> Controllers] /\ conns \in Seq(Connections)
      /\ role \in [Windows -> Roles]
  BY DEF Inv, Web, Typed
<1>1. CASE (Edit(w) \/ Revert(w)) /\ ctl[w].on
  <2>1. Settled
    BY <1>1 DEF Edit, Revert, Disturbs
  <2> QED
    BY <1>1, <2>1, EditRound
<1>2. CASE (Edit(w) \/ Revert(w)) /\ ~ctl[w].on
  <2>1. calm /\ ~skipped /\ UNCHANGED <<role, place, path>>
    BY <1>2 DEF Edit, Revert, historyVars
  <2>2. PICK a : Round(a)
    BY <2>1 DEF Rounds
  <2>3. PICK new : Voiced(w, new)
    BY <1>0, <1>2, EditVoice, RevertVoice
  <2> QED
    BY <1>2, <2>1, <2>2, <2>3, Unheard
<1>3. ASSUME Join(w) \/ Leave(w) \/ CrashWindow(w)
      PROVE  Settled /\ \E a : Same(a)
  <2>1. Disturbs(FALSE)
    BY <1>3 DEF Join, Leave, CrashWindow
  <2>2. Settled /\ calm /\ ~skipped
    BY <2>1 DEF Disturbs
  <2> QED
    BY <2>2, SettledIsSame DEF Rounds
<1>4. CASE Join(w)
  BY <1>3, <1>4, JoinRound
<1>5. CASE Leave(w) \/ CrashWindow(w)
  <2>1. PICK a : Same(a)
    BY <1>3, <1>5
  <2>2. conns' = Hangup(conns, w)
    BY <1>5 DEF Leave, Stop, CrashWindow, Crash
  <2>3. /\ \A v \in Windows : ctl'[v].state = ctl[v].state /\ (ctl'[v].on => ctl[v].on)
        /\ \A v \in Windows : role[v] = "crashed" => role'[v] = "crashed"
    <3>1. CASE Leave(w)
      <4>1. /\ ctl' = [ctl EXCEPT ![w].on = FALSE, ![w].sent = None, ![w].owed = FALSE, ![w].late = FALSE]
            /\ role' = [role EXCEPT ![w] = "stopped"] /\ role[w] # "crashed"
        BY <3>1 DEF Leave, Stop, Idle
      <4> QED
        BY <1>0, <4>1 DEF Controllers
    <3>2. CASE CrashWindow(w)
      BY <1>0, <3>2 DEF CrashWindow, Crash
    <3> QED
      BY <1>5, <3>1, <3>2
  <2>4. Taking' \subseteq Taking
    BY <2>3 DEF Taking
  <2>5. OnlyLive(a)'
    BY <1>0, <2>1, <2>2, HangupLive DEF Same, OnlyLive
  <2>6. \A x \in Taking' : ctl'[x].state = a
    BY <2>1, <2>3, <2>4 DEF Same, Taking
  <2>7. Same(a)'
    BY <2>5, <2>6 DEF Same
  <2> QED
    BY <2>7 DEF Round
<1> QED
  BY <1>1, <1>2, <1>4, <1>5 DEF Act

(* Nothing is half open in a wired group: what is left to do is to speak, or *)
(* to read.                                                                  *)
LEMMA WiredSteps ==
    ASSUME Wired, NEW w \in Windows, Step(w)
    PROVE  PublishTimer(w) \/ LateCallback(w) \/ BrokerReceive(w) \/ ClientReceive(w)
<1>1. place[w] = "out" /\ role[w] # "connecting"
  BY DEF Wired
<1>2. ~Starting(w) /\ ~Retry(w)
  BY <1>1 DEF Starting, Connect, Listen, RemoveServer, Relisten, Retry, RetryStart
<1>3. ~LoseBroker(w) /\ ~PeerGone(w)
  BY DEF LoseBroker, ClientGone, PeerGone, Wired, ClientOf, Peers
<1>4. ~Accept(w)
  <2>1. Pending(conns, w) = {}
    BY DEF Wired, Pending
  <2> QED
    BY <2>1 DEF Accept
<1> QED
  BY <1>2, <1>3, <1>4 DEF Step

LEMMA ReadsLive ==
    ASSUME Typed, NEW w \in Windows, BrokerReceive(w) \/ ClientReceive(w)
    PROVE  ~Hushed
<1>1. CASE BrokerReceive(w)
  <2>1. PICK i, m : \E cs \in Seq(Connections) : BrokerReads(w, i, m, cs)
    BY <1>1, BrokerFields
  <2>2. i \in Peers(conns, w) /\ In(m, conns[i].up)
    BY <2>1 DEF BrokerReads
  <2> QED
    BY <2>2 DEF Peers, Hushed, Live
<1>2. CASE ClientReceive(w)
  <2>1. PICK i, m : \E cs \in Seq(Connections) : ClientReads(w, i, m, cs)
    BY <1>2, ClientFields
  <2>2. i \in ClientOf(conns, w) /\ In(m, conns[i].down)
    BY <2>1 DEF ClientReads
  <2> QED
    BY <2>2 DEF ClientOf, Hushed, Live
<1> QED
  BY <1>1, <1>2

LEMMA DraftedStep ==
    ASSUME Inv, Linked, Elections, Names, NEW a, NEW e, Drafted(a, e), NEW w \in Windows, Step(w)
    PROVE  Round(a)'
<1>1. Wired /\ Hushed /\ Typed
  BY DEF Drafted, Inv
<1>2. PublishTimer(w) \/ LateCallback(w)
  BY <1>1, WiredSteps, ReadsLive
<1>3. UNCHANGED <<role, place, path>> /\ role[w] # "crashed"
  BY <1>2 DEF PublishTimer, LateCallback, Idle
<1>4. Voiced(w, ctl[w].state)
  BY <1>1, <1>2, TimerVoice, LateVoice
<1>5. CASE ~ctl[w].on
  BY <1>3, <1>4, <1>5, Unheard DEF Round
<1>6. CASE ctl[w].on
  <2>1. w \in Taking
    BY <1>3, <1>6 DEF Taking
  <2>2. w = e
    BY <1>2, <2>1 DEF Drafted, PublishTimer, LateCallback
  <2>3. /\ ctl[w].state = a /\ ctl[w].sent # a /\ ~ctl[w].late
        /\ \A x \in Taking \ {w} : ~ctl[x].timer /\ ~ctl[x].late
    BY <2>1, <2>2 DEF Drafted
  <2>4. Voiced(w, a)
    BY <1>4, <2>3
  <2> QED
    BY <1>1, <1>3, <2>1, <2>3, <2>4, VoiceRound
<1> QED
  BY <1>5, <1>6

(* While an edit goes round.                                                 *)
LEMMA EmitKeeps ==
    ASSUME NEW cs \in Seq(Connections), NEW w \in Windows, NEW ms \in Seq(Messages),
           NEW ds, ds = Emit(cs, w, ms)
    PROVE  /\ SameSides(cs, ds)
           /\ \A i \in DOMAIN cs : \A m : /\ In(m, cs[i].down) => In(m, ds[i].down)
                                          /\ In(m, cs[i].up) => In(m, ds[i].up)
<1>1. /\ SameSides(cs, ds)
      /\ \A i \in DOMAIN cs : \A m :
           In(m, ds[i].down) <=> In(m, cs[i].down) \/ (i \in Peers(cs, w) /\ In(m, ms))
      /\ \A i \in DOMAIN cs : \A m :
           In(m, ds[i].up) <=>
               \/ In(m, cs[i].up)
               \/ i \in ClientOf(cs, w) \ Peers(cs, w) /\ cs[i].side # "gone" /\ In(m, ms)
  BY EmitFields
<1> QED
  BY <1>1

LEMMA SpreadVoice ==
    ASSUME Inv, Linked, NEW a, Spread(a), NEW w \in Taking, PublishTimer(w) \/ LateCallback(w)
    PROVE  Spread(a)'
<1>0. /\ Typed /\ ctl \in [Windows -> Controllers] /\ conns \in Seq(Connections) /\ w \in Windows
      /\ ctl[w].state = a /\ Wired
  BY DEF Inv, Typed, Taking, Spread, PublishTimer, LateCallback
<1>1. Voiced(w, a)
  BY <1>0, TimerVoice, LateVoice
<1>2. UNCHANGED <<role, place, path>>
  BY DEF PublishTimer, LateCallback
<1>3. PICK out \in Seq(Messages) :
        /\ conns' = Emit(conns, w, out) /\ ctl'[w].state = a
        /\ ctl' = [ctl EXCEPT ![w] = ctl'[w]]
        /\ ctl'[w].on = ctl[w].on
  BY <1>1 DEF Voiced
<1>4. /\ SameSides(conns, conns')
      /\ \A i \in DOMAIN conns : \A m : /\ In(m, conns[i].down) => In(m, conns'[i].down)
                                        /\ In(m, conns[i].up) => In(m, conns'[i].up)
  BY <1>0, <1>3, EmitKeeps
<1>5. \A v \in Windows \ {w} : ctl'[v] = ctl[v]
  BY <1>0, <1>3
<1>6. Taking' = Taking
  BY <1>2, <1>3, <1>5 DEF Taking
<1>7. Wired'
  BY <1>0, <1>2, <1>4, <1>6, WiredStays
<1>8. \A m : Live(m, conns') => Live(m, conns) \/ (m.kind = "state" /\ m.payload = a)
  BY <1>0, <1>1, VoiceSays DEF Said
<1>9. OnlyLive(a)' /\ \A m : Live(m, conns') => m.kind = "state"
  BY <1>8 DEF Spread, OnlyLive
<1>10. ASSUME NEW x \in Taking, x # w, Coming(x) PROVE Coming(x)'
  <2>1. ctl'[x] = ctl[x] /\ ClientOf(conns', x) = ClientOf(conns, x)
    BY <1>4, <1>5, <1>10, SameSidesLinks DEF Taking
  <2>2. \A m : Tells(m, x) => Tells(m, x)'
    BY <2>1 DEF Tells
  <2>3. /\ DOMAIN conns' = DOMAIN conns
        /\ \A i \in DOMAIN conns : conns'[i].side = conns[i].side /\ conns'[i].client = conns[i].client
    BY <1>4 DEF SameSides, SameEnds
  <2>4. CASE \E i \in ClientOf(conns, x) : \E m : In(m, conns[i].down) /\ Tells(m, x)
    BY <1>4, <2>1, <2>2, <2>4 DEF Coming, ClientOf
  <2>5. CASE \E i \in DOMAIN conns :
               /\ conns[i].side # "gone" /\ conns[i].client # x
               /\ \E m : In(m, conns[i].up) /\ Tells(m, x)
    BY <1>4, <2>2, <2>3, <2>5 DEF Coming
  <2> QED
    BY <1>10, <2>4, <2>5 DEF Coming
<1>11. \A x \in Taking : ctl'[x].state = a \/ Coming(x)'
  BY <1>3, <1>5, <1>10 DEF Spread, Taking
<1>12. \A x \in Taking : ctl'[x].timer \/ ctl'[x].late => ctl'[x].state = a
  BY <1>3, <1>5 DEF Spread, Taking
<1> QED
  BY <1>6, <1>7, <1>9, <1>11, <1>12 DEF Spread

(* A state is read: it is shown, unless it was known.                        *)
LEMMA StateRead ==
    ASSUME Typed, NEW w \in Taking, NEW cs \in Seq(Connections), NEW m \in Messages,
           m.kind = "state", Deliver(w, cs, m), ~skipped'
    PROVE  /\ conns' = cs /\ ctl' \in [Windows -> Controllers]
           /\ \A v \in Windows \ {w} : ctl'[v] = ctl[v]
           /\ ctl'[w].on = ctl[w].on /\ ctl'[w].timer = ctl[w].timer
           /\ UNCHANGED <<role, place, path>> /\ Taking' = Taking
           /\ \/ ctl'[w].state = m.payload
              \/ /\ Known(ctl[w], m) /\ ctl'[w].state = ctl[w].state
                 /\ ctl'[w].applied = ctl[w].applied /\ ctl'[w].late = ctl[w].late
<1>0. w \in Windows /\ ctl[w].on /\ ctl \in [Windows -> Controllers]
  BY DEF Taking, Typed
<1>1. /\ ctl' = [ctl EXCEPT ![w] = ctl'[w]] /\ ctl'[w] \in Controllers
      /\ ctl'[w].on = ctl[w].on /\ ctl'[w].timer = ctl[w].timer
      /\ UNCHANGED <<role, place, path>>
      /\ skipped' = (skipped \/ (Wanted(ctl[w], m) /\ ctl[w].ignoring))
      /\ \E out \in Seq(Messages) :
           /\ conns' = Emit(cs, w, out)
           /\ \/ m.kind = "request"
              \/ /\ ~Applies(w, m) /\ out = <<>>
                 /\ ctl'[w].state = ctl[w].state
                 /\ ctl'[w].applied = ctl[w].applied /\ ctl'[w].late = ctl[w].late
              \/ out = <<>> /\ ctl'[w].state = m.payload
  BY <1>0, DeliverFields
<1>2. PICK out \in Seq(Messages) :
           /\ conns' = Emit(cs, w, out)
           /\ \/ m.kind = "request"
              \/ /\ ~Applies(w, m) /\ out = <<>>
                 /\ ctl'[w].state = ctl[w].state
                 /\ ctl'[w].applied = ctl[w].applied /\ ctl'[w].late = ctl[w].late
              \/ out = <<>> /\ ctl'[w].state = m.payload
  BY <1>1
<1>3. conns' = cs
  BY <1>2, EmitNothing
<1>4. /\ ctl' \in [Windows -> Controllers] /\ \A v \in Windows \ {w} : ctl'[v] = ctl[v]
  BY <1>0, <1>1
<1>5. Taking' = Taking
  BY <1>1, <1>4 DEF Taking
<1>6. ~Applies(w, m) => Known(ctl[w], m)
  BY <1>0, <1>1 DEF Applies, Wanted
<1> QED
  BY <1>1, <1>2, <1>3, <1>4, <1>5, <1>6

(* The rest of what such a step leaves of the round.                         *)
LEMMA SpreadRead ==
    ASSUME Inv, NEW a, Spread(a), NEW w \in Taking, NEW cs \in Seq(Connections),
           NEW m \in Messages, m.kind = "state", m.payload = a, Deliver(w, cs, m), ~skipped',
           SameSides(conns, cs), \A n : Live(n, cs) => Live(n, conns),
           \A x \in Taking : Coming(x) /\ ctl'[x].state # a => Coming(x)'
    PROVE  Spread(a)'
<1>0. Typed /\ Wired /\ w \in Windows
  BY DEF Inv, Spread, Taking
<1>1. /\ conns' = cs
      /\ \A v \in Windows \ {w} : ctl'[v] = ctl[v]
      /\ ctl'[w].timer = ctl[w].timer
      /\ UNCHANGED <<role, place, path>> /\ Taking' = Taking
      /\ \/ ctl'[w].state = a
         \/ ctl'[w].state = ctl[w].state /\ ctl'[w].late = ctl[w].late
  BY <1>0, StateRead
<1>2. Wired'
  BY <1>0, <1>1, WiredStays
<1>6. \A x \in Taking : ctl'[x].state = a \/ Coming(x)'
  BY <1>1 DEF Spread, Taking
<1>7. \A x \in Taking : ctl'[x].timer \/ ctl'[x].late => ctl'[x].state = a
  BY <1>1 DEF Spread, Taking
<1> QED
  BY <1>1, <1>2, <1>6, <1>7 DEF Spread, OnlyLive

LEMMA SpreadBroker ==
    ASSUME Inv, Linked, Elections, NEW a, Spread(a), NEW w \in Windows, BrokerReceive(w), ~skipped'
    PROVE  Spread(a)'
<1>0. Typed /\ Wired /\ conns \in Seq(Connections) /\ role[w] # "crashed"
  BY DEF Inv, Typed, Spread, BrokerReceive, Idle
<1>1. PICK i, m : \E cs \in Seq(Connections) : BrokerReads(w, i, m, cs)
  BY <1>0, BrokerFields
<1>2. PICK cs \in Seq(Connections) : BrokerReads(w, i, m, cs)
  BY <1>1
<1>3. /\ Live(m, conns) /\ \A n : Live(n, cs) => Live(n, conns)
      /\ m \in Messages /\ SameSides(conns, cs) /\ Deliver(w, cs, m)
  BY <1>2, BrokerLive
<1>4. /\ i \in Peers(conns, w)
      /\ \A k \in DOMAIN conns : \A n :
            In(n, cs[k].down) <=> In(n, conns[k].down) \/ (k \in Peers(conns, w) \ {i} /\ n = m)
      /\ \A k \in DOMAIN conns \ {i} : cs[k].up = conns[k].up
      /\ \A n : In(n, conns[i].up) <=> n = m \/ In(n, cs[i].up)
  BY <1>2 DEF BrokerReads
<1>5. /\ role[w] = "broker" /\ ctl[w].on /\ w \in Taking
      /\ i \in DOMAIN conns /\ conns[i].linked /\ conns[i].side # "gone"
  BY <1>0, <1>4 DEF Linked, Peers, Taking, Wired
<1>6. m.kind = "state" /\ m.payload = a
  BY <1>3 DEF Spread, OnlyLive
<1>7. /\ conns' = cs /\ \A v \in Windows \ {w} : ctl'[v] = ctl[v]
      /\ \/ ctl'[w].state = a
         \/ /\ Known(ctl[w], m) /\ ctl'[w].state = ctl[w].state
            /\ ctl'[w].applied = ctl[w].applied
  BY <1>0, <1>3, <1>5, <1>6, StateRead
<1>8. /\ \A v : ClientOf(conns', v) = ClientOf(conns, v)
      /\ DOMAIN conns' = DOMAIN conns
      /\ \A k \in DOMAIN conns : conns'[k].side = conns[k].side /\ conns'[k].client = conns[k].client
  BY <1>3, <1>7, SameSidesLinks DEF SameSides, SameEnds
<1>9. ASSUME NEW x \in Taking, Coming(x), ctl'[x].state # a PROVE Coming(x)'
  <2>1. x \in Windows /\ Reached(x)
    BY <1>0 DEF Taking, Wired
  <2>2. x = w => ctl'[w].applied = ctl[w].applied /\ Known(ctl[w], m)
    BY <1>7, <1>9
  <2>3. \A n : Tells(n, x) => Tells(n, x)'
    BY <1>7, <2>1, <2>2 DEF Tells, Known
  <2>4. CASE \E k \in ClientOf(conns, x) : \E n : In(n, conns[k].down) /\ Tells(n, x)
    <3>1. PICK k \in ClientOf(conns, x) : \E n : In(n, conns[k].down) /\ Tells(n, x)
      BY <2>4
    <3>2. PICK n : In(n, conns[k].down) /\ Tells(n, x)
      BY <3>1
    <3>3. k \in DOMAIN conns /\ k \in ClientOf(conns', x)
      BY <1>8, <3>1 DEF ClientOf
    <3>4. In(n, conns'[k].down)
      BY <1>4, <1>7, <3>2, <3>3
    <3> QED
      BY <2>3, <3>2, <3>3, <3>4 DEF Coming
  <2>5. ASSUME NEW k \in DOMAIN conns, conns[k].side # "gone", conns[k].client # x,
               NEW n, In(n, conns[k].up), Tells(n, x)
        PROVE  Coming(x)'
    <3>1. CASE k # i \/ n # m
      <4>1. In(n, conns'[k].up)
        BY <1>4, <1>7, <2>5, <3>1
      <4> QED
        BY <1>8, <2>3, <2>5, <4>1 DEF Coming
    <3>2. CASE k = i /\ n = m
      <4>1. x # w
        BY <2>2, <2>5, <3>2 DEF Tells
      <4>2. PICK j \in ClientOf(conns, x) : j \in Peers(conns, w)
        BY <1>0, <1>5, <2>1, <4>1, Neighbour
      <4>3. j # i /\ j \in DOMAIN conns
        BY <2>5, <3>2, <4>2 DEF ClientOf
      <4>4. In(m, conns'[j].down)
        BY <1>4, <1>7, <4>2, <4>3
      <4> QED
        BY <1>8, <2>3, <2>5, <3>2, <4>2, <4>4 DEF Coming
    <3> QED
      BY <3>1, <3>2
  <2> QED
    BY <1>9, <2>4, <2>5 DEF Coming
<1> QED
  BY <1>3, <1>5, <1>6, <1>9, SpreadRead

LEMMA SpreadClient ==
    ASSUME Inv, Linked, NEW a, Spread(a), NEW w \in Windows, ClientReceive(w), ~skipped'
    PROVE  Spread(a)'
<1>0. Typed /\ Wired /\ conns \in Seq(Connections) /\ role[w] # "crashed"
  BY DEF Inv, Typed, Spread, ClientReceive, Idle
<1>1. PICK i, m : \E cs \in Seq(Connections) : ClientReads(w, i, m, cs)
  BY <1>0, ClientFields
<1>2. PICK cs \in Seq(Connections) : ClientReads(w, i, m, cs)
  BY <1>1
<1>3. /\ Live(m, conns) /\ \A n : Live(n, cs) => Live(n, conns)
      /\ m \in Messages /\ SameSides(conns, cs) /\ Deliver(w, cs, m)
  BY <1>2, ClientLive
<1>4. /\ i \in ClientOf(conns, w)
      /\ \A k \in DOMAIN conns : cs[k].up = conns[k].up
      /\ \A k \in DOMAIN conns \ {i} : cs[k].down = conns[k].down
      /\ \A n : In(n, conns[i].down) <=> n = m \/ In(n, cs[i].down)
  BY <1>2 DEF ClientReads
<1>5. role[w] = "client" /\ ctl[w].on /\ w \in Taking
  BY <1>0, <1>4 DEF Linked, ClientOf, Taking
<1>6. m.kind = "state" /\ m.payload = a
  BY <1>3 DEF Spread, OnlyLive
<1>7. /\ conns' = cs /\ \A v \in Windows \ {w} : ctl'[v] = ctl[v]
      /\ \/ ctl'[w].state = a
         \/ /\ Known(ctl[w], m) /\ ctl'[w].state = ctl[w].state
            /\ ctl'[w].applied = ctl[w].applied
  BY <1>0, <1>3, <1>5, <1>6, StateRead
<1>8. /\ \A v : ClientOf(conns', v) = ClientOf(conns, v)
      /\ DOMAIN conns' = DOMAIN conns
      /\ \A k \in DOMAIN conns : conns'[k].side = conns[k].side /\ conns'[k].client = conns[k].client
  BY <1>3, <1>7, SameSidesLinks DEF SameSides, SameEnds
<1>9. ASSUME NEW x \in Taking, Coming(x), ctl'[x].state # a PROVE Coming(x)'
  <2>1. x \in Windows
    BY DEF Taking
  <2>2. x = w => ctl'[w].applied = ctl[w].applied /\ Known(ctl[w], m)
    BY <1>7, <1>9
  <2>3. \A n : Tells(n, x) => Tells(n, x)'
    BY <1>7, <2>1, <2>2 DEF Tells, Known
  <2>4. ASSUME NEW k \in ClientOf(conns, x), NEW n, In(n, conns[k].down), Tells(n, x)
        PROVE  Coming(x)'
    <3>1. k \in DOMAIN conns /\ (k = i => x = w)
      BY <1>4, <2>4 DEF ClientOf
    <3>2. k = i => n # m
      BY <2>2, <2>4, <3>1 DEF Tells
    <3>3. In(n, conns'[k].down)
      BY <1>4, <1>7, <2>4, <3>1, <3>2
    <3> QED
      BY <1>8, <2>3, <2>4, <3>3 DEF Coming
  <2>5. CASE \E k \in DOMAIN conns :
               /\ conns[k].side # "gone" /\ conns[k].client # x
               /\ \E n : In(n, conns[k].up) /\ Tells(n, x)
    <3>1. PICK k \in DOMAIN conns :
            /\ conns[k].side # "gone" /\ conns[k].client # x
            /\ \E n : In(n, conns[k].up) /\ Tells(n, x)
      BY <2>5
    <3>2. PICK n : In(n, conns[k].up) /\ Tells(n, x)
      BY <3>1
    <3>3. In(n, conns'[k].up)
      BY <1>4, <1>7, <3>1, <3>2
    <3> QED
      BY <1>8, <2>3, <3>1, <3>2, <3>3 DEF Coming
  <2> QED
    BY <1>9, <2>4, <2>5 DEF Coming
<1> QED
  BY <1>3, <1>5, <1>6, <1>9, SpreadRead

LEMMA SpreadStep ==
    ASSUME Inv, Linked, Elections, NEW a, Spread(a), NEW w \in Windows, Step(w), ~skipped'
    PROVE  Round(a)'
<1>1. CASE BrokerReceive(w) \/ ClientReceive(w)
  BY <1>1, SpreadBroker, SpreadClient DEF Round
<1>2. CASE PublishTimer(w) \/ LateCallback(w)
  <2>1. UNCHANGED <<role, place, path>> /\ role[w] # "crashed"
    BY <1>2 DEF PublishTimer, LateCallback, Idle
  <2>2. CASE ctl[w].on
    <3>1. w \in Taking
      BY <2>1, <2>2 DEF Taking
    <3> QED
      BY <1>2, <3>1, SpreadVoice DEF Round
  <2>3. CASE ~ctl[w].on
    <3>1. Voiced(w, ctl[w].state)
      BY <1>2, TimerVoice, LateVoice DEF Inv
    <3> QED
      BY <2>1, <2>3, <3>1, Unheard DEF Round
  <2> QED
    BY <2>2, <2>3
<1> QED
  BY <1>1, <1>2, WiredSteps DEF Spread

-----------------------------------------------------------------------------
(* While somebody joins.                                                     *)
LEMMA AskingRole ==
    ASSUME Linked, NEW u \in Windows, Asking(u)
    PROVE  /\ role[u] \in {"stopped", "client"}
           /\ ClientOf(conns, u) = {} => place[u] = "connect" /\ role[u] = "stopped" /\ Served
                                         /\ ctl[u].wanting
           /\ ClientOf(conns, u) # {} => role[u] = "client"
           /\ role[u] = "client" => place[u] = "out"
<1>1. ClientOf(conns, u) # {} => role[u] = "client"
  BY DEF Linked, ClientOf
<1>2. role[u] = "client" => place[u] = "out"
  BY DEF Linked
<1> QED
  BY <1>1, <1>2 DEF Asking

(* A step that leaves the rest of it alone.                                  *)
Undisturbed(a, u) ==
    /\ UNCHANGED <<role, place, path>> /\ Taking' = Taking /\ SameEnds(conns, conns')
    /\ \A i \in DOMAIN conns : conns'[i].side # "gone" <=> conns[i].side # "gone"
    /\ OnlyLive(a)' /\ \A x \in Taking \ {u} : ctl'[x].state = a
    /\ ~ctl'[u].timer /\ ~ctl'[u].late
    /\ \A i \in DOMAIN conns : conns[i].linked =>
          IF conns[i].client = u THEN \A m : In(m, conns'[i].down) => m.kind = "state"
                                 ELSE \A m : In(m, conns'[i].up) => m.kind = "state"

LEMMA JoiningFrame ==
    ASSUME NEW a, NEW u, Joining(a, u), Undisturbed(a, u), Asking(u)'
    PROVE  Joining(a, u)'
<1>1. /\ DOMAIN conns' = DOMAIN conns
      /\ \A i \in DOMAIN conns : conns'[i].client = conns[i].client /\ conns'[i].linked = conns[i].linked
  BY DEF Undisturbed, SameEnds
<1>2. \A i \in DOMAIN conns' : conns'[i].linked <=> conns'[i].side # "gone"
  BY <1>1 DEF Undisturbed, Joining
<1>3. \A i \in DOMAIN conns' : conns'[i].linked =>
          IF conns'[i].client = u THEN \A m : In(m, conns'[i].down) => m.kind = "state"
                                  ELSE \A m : In(m, conns'[i].up) => m.kind = "state"
  BY <1>1 DEF Undisturbed
<1> QED
  BY <1>2, <1>3 DEF Undisturbed, Joining

(* What u has asked, or will be told, is still there after the step.         *)
LEMMA AskingStays ==
    ASSUME NEW a, NEW u \in Windows, Asking(u), Undisturbed(a, u), ctl'[u] = ctl[u],
           \A i \in ClientOf(conns, u) : \A m : /\ In(m, conns[i].down) => In(m, conns'[i].down)
                                                /\ In(m, conns[i].up) => In(m, conns'[i].up)
    PROVE  Asking(u)'
<1>1. ClientOf(conns', u) = ClientOf(conns, u) /\ (Served => Served')
  BY DEF Undisturbed, SameEnds, ClientOf, Served
<1>2. \A m : Tells(m, u) => Tells(m, u)'
  BY DEF Tells
<1>3. CASE place[u] = "connect" /\ role[u] = "stopped" /\ Served /\ ctl[u].wanting
  BY <1>1, <1>3 DEF Asking, Undisturbed
<1>4. CASE \E i \in ClientOf(conns, u) : \E m : In(m, conns[i].down) /\ Tells(m, u)
  BY <1>1, <1>2, <1>4 DEF Asking
<1>5. CASE \E i \in ClientOf(conns, u) : \E m : In(m, conns[i].up) /\ m.kind = "request"
  BY <1>1, <1>5 DEF Asking
<1> QED
  BY <1>3, <1>4, <1>5 DEF Asking

LEMMA JoiningStart ==
    ASSUME Inv, Linked, NEW a, NEW u, Joining(a, u), NEW w \in Windows, Starting(w)
    PROVE  Joining(a, u)'
<1>0. /\ u \in Windows /\ Asking(u) /\ role \in [Windows -> Roles] /\ place \in [Windows -> Places]
  BY DEF Joining, Taking, Inv, Web
<1>1. place[w] # "out" /\ w = u
  BY StartFields DEF Joining
<1>2. ClientOf(conns, u) = {} /\ place[u] = "connect" /\ role[u] = "stopped" /\ Served /\ ctl[u].wanting
  BY <1>0, <1>1, AskingRole
<1>3. PICK first : Connects(u, first)
  BY <1>1, <1>2, StartFields
<1>4. /\ ctl' = ctl /\ role' = [role EXCEPT ![u] = "client"] /\ place' = [place EXCEPT ![u] = "out"]
  BY <1>1, <1>3 DEF Connects, Starting
<1>5. first = <<RequestMessage(u)>>
  BY <1>2, <1>3 DEF Connects
<1>6. PICK n : /\ n \notin DOMAIN conns /\ DOMAIN conns' = DOMAIN conns \cup {n}
               /\ \A i \in DOMAIN conns : conns'[i] = conns[i]
               /\ conns'[n].client = u /\ conns'[n].linked /\ conns'[n].side = "pending"
               /\ conns'[n].up = first /\ conns'[n].down = <<>>
  BY <1>0, <1>3, ConnectFields
<1>7. Taking' = Taking
  BY StepSays DEF Step
<1>8. OnlyLive(a)'
  BY StartLive DEF Joining, OnlyLive
<1>9. Asking(u)'
  <2> PICK m : m = RequestMessage(u)
    OBVIOUS
  <2>1. In(m, conns'[n].up)
    BY <1>5, <1>6 DEF In
  <2>3. m.kind = "request"
    BY DEF RequestMessage
  <2>2. n \in ClientOf(conns', u)
    BY <1>6 DEF ClientOf
  <2> QED
    BY <2>1, <2>2, <2>3 DEF Asking
<1>10. \A i \in DOMAIN conns' : conns'[i].linked <=> conns'[i].side # "gone"
  BY <1>6 DEF Joining
<1>11. \A i \in DOMAIN conns' : conns'[i].linked =>
          IF conns'[i].client = u THEN \A m : In(m, conns'[i].down) => m.kind = "state"
                                  ELSE \A m : In(m, conns'[i].up) => m.kind = "state"
  BY <1>6, NoneIn DEF Joining
<1>12. \A x \in Windows \ {u} : place'[x] = "out" /\ role'[x] # "connecting"
  BY <1>0, <1>4 DEF Joining
<1> QED
  BY <1>4, <1>7, <1>8, <1>9, <1>10, <1>11, <1>12 DEF Joining

LEMMA JoiningSteps ==
    ASSUME Linked, NEW a, NEW u, Joining(a, u), NEW w \in Windows, Step(w)
    PROVE  Starting(w) \/ (Reacts(w) /\ ~PeerGone(w))
<1>1. u \in Windows /\ Asking(u)
  BY DEF Joining, Taking
<1>2. role[w] # "connecting"
  BY <1>1, AskingRole DEF Joining
<1>3. ~Retry(w)
  BY <1>2 DEF Retry, RetryStart
<1>4. ~LoseBroker(w) /\ ~PeerGone(w)
  BY DEF LoseBroker, ClientGone, PeerGone, Joining, ClientOf, Peers
<1> QED
  BY <1>3, <1>4 DEF Step, Reacts

(* Another window speaks, or lets somebody in.                               *)
LEMMA JoiningSaid ==
    ASSUME Inv, Linked, NEW a, NEW u, Joining(a, u), NEW w \in Taking \ {u},
           Said(w, a), UNCHANGED <<role, place, path>>, SameEnds(conns, conns'),
           \A i \in DOMAIN conns : conns'[i].side # "gone" <=> conns[i].side # "gone",
           NEW out \in Seq(Messages), \A m : In(m, out) => m.kind = "state",
           \A i \in DOMAIN conns : \A m :
               /\ In(m, conns[i].down) => In(m, conns'[i].down)
               /\ In(m, conns'[i].down) => In(m, conns[i].down) \/ In(m, out)
               /\ In(m, conns[i].up) => In(m, conns'[i].up)
               /\ In(m, conns'[i].up) => In(m, conns[i].up) \/ In(m, out)
    PROVE  Joining(a, u)'
<1>0. /\ u \in Windows /\ w \in Windows /\ w # u /\ Asking(u) /\ ctl \in [Windows -> Controllers]
  BY DEF Joining, Taking, Inv, Typed
<1>1. /\ \A v \in Windows \ {w} : ctl'[v] = ctl[v]
      /\ ctl'[w].on = ctl[w].on
  BY <1>0 DEF Said
<1>2. Taking' = Taking
  BY <1>0, <1>1 DEF Taking
<1>3. OnlyLive(a)' /\ ctl'[w].state = a
  BY DEF Said, Joining, OnlyLive
<1>4. /\ \A x \in Taking \ {u} : ctl'[x].state = a
      /\ ~ctl'[u].timer /\ ~ctl'[u].late
  BY <1>0, <1>1, <1>3 DEF Joining, Taking
<1>5. \A i \in DOMAIN conns : conns[i].linked =>
          IF conns[i].client = u THEN \A m : In(m, conns'[i].down) => m.kind = "state"
                                 ELSE \A m : In(m, conns'[i].up) => m.kind = "state"
  BY DEF Joining
<1>6. Undisturbed(a, u)
  BY <1>2, <1>3, <1>4, <1>5 DEF Undisturbed
<1>7. Asking(u)'
  BY <1>0, <1>1, <1>6, AskingStays DEF ClientOf
<1> QED
  BY <1>6, <1>7, JoiningFrame

LEMMA JoiningVoice ==
    ASSUME Inv, Linked, NEW a, NEW u, Joining(a, u), NEW w \in Windows,
           PublishTimer(w) \/ LateCallback(w)
    PROVE  Round(a)'
<1>0. Typed /\ conns \in Seq(Connections) /\ UNCHANGED <<role, place, path>> /\ role[w] # "crashed"
  BY DEF Inv, Typed, PublishTimer, LateCallback, Idle
<1>1. Voiced(w, ctl[w].state)
  BY <1>0, TimerVoice, LateVoice
<1>2. CASE ~ctl[w].on
  BY <1>0, <1>1, <1>2, Unheard DEF Round
<1>3. CASE ctl[w].on
  <2>1. w \in Taking \ {u} /\ ctl[w].state = a
    BY <1>0, <1>3 DEF Taking, Joining, PublishTimer, LateCallback
  <2>2. Said(w, a)
    BY <1>0, <1>1, <2>1, VoiceSays
  <2>3. PICK out \in Seq(Messages) :
          conns' = Emit(conns, w, out) /\ \A m : In(m, out) => m.kind = "state"
    BY <1>1 DEF Voiced
  <2>4. /\ SameSides(conns, conns')
        /\ \A i \in DOMAIN conns : \A m :
             In(m, conns'[i].down) <=> In(m, conns[i].down) \/ (i \in Peers(conns, w) /\ In(m, out))
        /\ \A i \in DOMAIN conns : \A m :
             In(m, conns'[i].up) <=>
                 \/ In(m, conns[i].up)
                 \/ i \in ClientOf(conns, w) \ Peers(conns, w) /\ conns[i].side # "gone" /\ In(m, out)
    BY <1>0, <2>3, EmitFields
  <2>5. /\ SameEnds(conns, conns')
        /\ \A i \in DOMAIN conns : conns'[i].side # "gone" <=> conns[i].side # "gone"
    BY <2>4 DEF SameSides
  <2>6. \A i \in DOMAIN conns : \A m :
               /\ In(m, conns[i].down) => In(m, conns'[i].down)
               /\ In(m, conns'[i].down) => In(m, conns[i].down) \/ In(m, out)
               /\ In(m, conns[i].up) => In(m, conns'[i].up)
               /\ In(m, conns'[i].up) => In(m, conns[i].up) \/ In(m, out)
    BY <2>4
  <2>7. Joining(a, u)'
    BY <1>0, <2>1, <2>2, <2>3, <2>5, <2>6, JoiningSaid
  <2> QED
    BY <2>7 DEF Round
<1> QED
  BY <1>2, <1>3

LEMMA JoiningAccept ==
    ASSUME Inv, Linked, NEW a, NEW u, Joining(a, u), NEW w \in Windows, Accept(w)
    PROVE  Joining(a, u)'
<1>0. Typed /\ u \in Windows /\ Asking(u)
  BY DEF Inv, Joining, Taking
<1>1. PICK out \in Seq(Messages) : AcceptsAll(w, out)
  BY <1>0, AcceptFields
<1>2. /\ role[w] = "broker" /\ UNCHANGED <<role, place, path>> /\ SameEnds(conns, conns')
      /\ \A m : In(m, out) => m.kind = "state"
  BY <1>1 DEF AcceptsAll
<1>3. w \in Taking \ {u} /\ ctl[w].state = a
  BY <1>0, <1>2, AskingRole DEF Taking, Linked, Joining
<1>4. Said(w, a)
  BY <1>0, <1>3, ReactSays DEF Reacts
<1>5. \A i \in DOMAIN conns :
        /\ conns'[i].side # "gone" <=> conns[i].side # "gone"
        /\ \A m : /\ In(m, conns[i].down) => In(m, conns'[i].down)
                  /\ In(m, conns'[i].down) => In(m, conns[i].down) \/ In(m, out)
                  /\ In(m, conns[i].up) => In(m, conns'[i].up)
                  /\ In(m, conns'[i].up) => In(m, conns[i].up) \/ In(m, out)
  BY <1>1 DEF AcceptsAll, Pending
<1> QED
  BY <1>2, <1>3, <1>4, <1>5, JoiningSaid

(* Who joins reads the answer, or what it had heard before.                  *)
LEMMA JoiningReads ==
    ASSUME Inv, Linked, NEW a, NEW u, Joining(a, u), ClientReceive(u), ~skipped'
    PROVE  Round(a)'
<1>0. Typed /\ conns \in Seq(Connections) /\ u \in Taking /\ u \in Windows /\ Asking(u)
  BY DEF Inv, Typed, Joining, Taking
<1>1. PICK i, m : \E cs \in Seq(Connections) : ClientReads(u, i, m, cs)
  BY <1>0, ClientFields
<1>2. PICK cs \in Seq(Connections) : ClientReads(u, i, m, cs)
  BY <1>1
<1>3. /\ Live(m, conns) /\ \A n : Live(n, cs) => Live(n, conns)
      /\ m \in Messages /\ SameSides(conns, cs) /\ Deliver(u, cs, m)
  BY <1>0, <1>2, ClientLive
<1>4. /\ i \in ClientOf(conns, u)
      /\ \A k \in DOMAIN conns : cs[k].up = conns[k].up
      /\ \A k \in DOMAIN conns \ {i} : cs[k].down = conns[k].down
      /\ \A n : In(n, conns[i].down) <=> n = m \/ In(n, cs[i].down)
  BY <1>2 DEF ClientReads
<1>5. m.kind = "state" /\ m.payload = a
  <2>1. i \in DOMAIN conns /\ conns[i].linked /\ conns[i].client = u /\ In(m, conns[i].down)
    BY <1>4 DEF ClientOf
  <2>2. m.kind = "state"
    BY <2>1 DEF Joining
  <2> QED
    BY <1>3, <2>2 DEF Joining, OnlyLive
<1>6. /\ conns' = cs /\ \A v \in Windows \ {u} : ctl'[v] = ctl[v]
      /\ ctl'[u].timer = ctl[u].timer
      /\ UNCHANGED <<role, place, path>> /\ Taking' = Taking
      /\ \/ ctl'[u].state = m.payload
         \/ /\ Known(ctl[u], m) /\ ctl'[u].state = ctl[u].state
            /\ ctl'[u].applied = ctl[u].applied /\ ctl'[u].late = ctl[u].late
  BY <1>0, <1>3, <1>5, StateRead
<1>7. OnlyLive(a)'
  BY <1>3, <1>6 DEF Joining, OnlyLive
<1>8. CASE ctl'[u].state = m.payload
  BY <1>5, <1>6, <1>7, <1>8 DEF Round, Same, Joining, Taking
<1>9. CASE /\ Known(ctl[u], m) /\ ctl'[u].state = ctl[u].state
           /\ ctl'[u].applied = ctl[u].applied /\ ctl'[u].late = ctl[u].late
  <2>1. /\ SameEnds(conns, conns') /\ ClientOf(conns', u) = ClientOf(conns, u)
        /\ \A k \in DOMAIN conns : conns'[k].side # "gone" <=> conns[k].side # "gone"
    BY <1>3, <1>6, SameSidesLinks DEF SameSides
  <2>2. \A k \in DOMAIN conns : \A n :
          /\ In(n, conns'[k].down) => In(n, conns[k].down)
          /\ In(n, conns'[k].up) <=> In(n, conns[k].up)
    BY <1>4, <1>6
  <2>3. Undisturbed(a, u)
    <3>1. \A x \in Taking \ {u} : ctl'[x].state = a
      BY <1>6 DEF Joining, Taking
    <3>2. ~ctl'[u].timer /\ ~ctl'[u].late
      BY <1>6, <1>9 DEF Joining
    <3>3. \A k \in DOMAIN conns : conns[k].linked =>
              IF conns[k].client = u THEN \A n : In(n, conns'[k].down) => n.kind = "state"
                                     ELSE \A n : In(n, conns'[k].up) => n.kind = "state"
      BY <2>2 DEF Joining
    <3> QED
      BY <1>6, <1>7, <2>1, <3>1, <3>2, <3>3 DEF Undisturbed
  <2>4. Asking(u)'
    <3>1. role[u] = "client"
      BY <1>0, <1>4, AskingRole
    <3>2. PICK k \in ClientOf(conns, u) : \/ \E n : In(n, conns[k].down) /\ Tells(n, u)
                                          \/ \E n : In(n, conns[k].up) /\ n.kind = "request"
      BY <1>0, <3>1 DEF Asking
    <3>3. k = i /\ k \in DOMAIN conns
      BY <1>4, <3>2 DEF Linked, ClientOf
    <3>4. ASSUME NEW n, In(n, conns[k].down), Tells(n, u) PROVE Asking(u)'
      <4>1. n # m
        BY <1>9, <3>4 DEF Tells
      <4>2. In(n, conns'[k].down)
        BY <1>4, <1>6, <3>3, <3>4, <4>1
      <4>3. Tells(n, u)'
        BY <1>9, <3>4 DEF Tells, Known
      <4> QED
        BY <2>1, <4>2, <4>3 DEF Asking
    <3>5. ASSUME NEW n, In(n, conns[k].up), n.kind = "request" PROVE Asking(u)'
      BY <2>1, <2>2, <3>3, <3>5 DEF Asking
    <3> QED
      BY <3>2, <3>4, <3>5
  <2>5. Joining(a, u)'
    BY <2>3, <2>4, JoiningFrame
  <2> QED
    BY <2>5 DEF Round
<1> QED
  BY <1>6, <1>8, <1>9

(* Another window reads a message: it answers a request, and is shown what   *)
(* it shows already.                                                         *)
Answers(w, cs, m, out) ==
    /\ conns' = Emit(cs, w, out)
    /\ \A n : In(n, out) => n.kind = "state" /\ n.origin = w /\ n.rev = ctl[w].rev + 1
    /\ m.kind = "request" /\ IsRunning(w) =>
         (role[w] = "broker" /\ Peers(cs, w) = {}) \/ \E n : In(n, out)

LEMMA OtherReads ==
    ASSUME Typed, NEW w \in Taking, NEW a, ctl[w].state = a, NEW cs \in Seq(Connections),
           NEW m \in Messages, m.kind = "state" => m.payload = a, Deliver(w, cs, m)
    PROVE  /\ UNCHANGED <<role, place, path>> /\ Taking' = Taking /\ ctl'[w].state = a
           /\ \A v \in Windows \ {w} : ctl'[v] = ctl[v]
           /\ \E out \in Seq(Messages) : Answers(w, cs, m, out)
<1>0. w \in Windows /\ ctl[w].on /\ ctl \in [Windows -> Controllers]
  BY DEF Taking, Typed
<1>1. /\ ctl' = [ctl EXCEPT ![w] = ctl'[w]]
      /\ ctl'[w].on = ctl[w].on
      /\ UNCHANGED <<role, place, path>>
  BY <1>0, DeliverFields
<1>e. \E out \in Seq(Messages) :
     /\ conns' = Emit(cs, w, out)
     /\ \/ /\ m.kind = "request" /\ ctl'[w].state = ctl[w].state
           /\ \A n : In(n, out) => n.kind = "state" /\ n.origin = w /\ n.rev = ctl[w].rev + 1
           /\ IsRunning(w) => \/ role[w] = "broker" /\ Peers(cs, w) = {}
                              \/ \E n : In(n, out)
        \/ /\ ~(ctl[w].on /\ m.kind = "request") /\ out = <<>>
           /\ ctl'[w].state = ctl[w].state
        \/ m.kind = "state" /\ out = <<>> /\ ctl'[w].state = m.payload
  BY <1>0, DeliverFields
<1>2. PICK out \in Seq(Messages) :
           /\ conns' = Emit(cs, w, out)
           /\ \/ /\ m.kind = "request" /\ ctl'[w].state = ctl[w].state
                 /\ \A n : In(n, out) => n.kind = "state" /\ n.origin = w /\ n.rev = ctl[w].rev + 1
                 /\ IsRunning(w) => \/ role[w] = "broker" /\ Peers(cs, w) = {}
                                    \/ \E n : In(n, out)
              \/ /\ ~(ctl[w].on /\ m.kind = "request") /\ out = <<>>
                 /\ ctl'[w].state = ctl[w].state
              \/ m.kind = "state" /\ out = <<>> /\ ctl'[w].state = m.payload
  BY <1>e
<1>3. Answers(w, cs, m, out)
  BY <1>0, <1>2, NoneIn DEF Answers
<1>4. \A v \in Windows \ {w} : ctl'[v] = ctl[v]
  BY <1>0, <1>1
<1>5. Taking' = Taking
  BY <1>1, <1>4 DEF Taking
<1>6. ctl'[w].state = a
  BY <1>2
<1> QED
  BY <1>1, <1>3, <1>4, <1>5, <1>6

(* In either case the rest is left alone.                                    *)
Clean(u, cs) ==
    \A i \in DOMAIN conns : conns[i].linked =>
        IF conns[i].client = u THEN \A n : In(n, cs[i].down) => n.kind = "state"
                               ELSE \A n : In(n, cs[i].up) => n.kind = "state"
States(out) == \A n : In(n, out) => n.kind = "state"

LEMMA OtherLeaves ==
    ASSUME Inv, Linked, NEW a, NEW u, Joining(a, u), NEW w \in Taking \ {u}, Said(w, a),
           NEW cs \in Seq(Connections), SameSides(conns, cs), NEW out \in Seq(Messages),
           conns' = Emit(cs, w, out), States(out), Clean(u, cs),
           UNCHANGED <<role, place, path>>, Taking' = Taking, ctl'[w].state = a,
           \A v \in Windows \ {w} : ctl'[v] = ctl[v]
    PROVE  /\ Undisturbed(a, u) /\ ctl'[u] = ctl[u] /\ SameSides(conns, conns')
           /\ \A i \in DOMAIN conns : \A n :
                /\ In(n, cs[i].down) => In(n, conns'[i].down)
                /\ In(n, cs[i].up) => In(n, conns'[i].up)
                /\ i \in Peers(conns, w) /\ In(n, out) => In(n, conns'[i].down)
<1>0. u \in Windows /\ w \in Windows /\ w # u
  BY DEF Joining, Taking
<1>1. Emitted(cs, w, out, conns')
  BY <1>0, EmitIs
<1>2. SameSides(conns, conns') /\ Peers(cs, w) = Peers(conns, w) /\ DOMAIN cs = DOMAIN conns
  <2>1. SameSides(cs, conns')
    BY <1>1 DEF Emitted
  <2>2. SameSides(conns, conns')
    BY <2>1, SameSidesThen
  <2>3. Peers(cs, w) = Peers(conns, w)
    BY SameSidesLinks
  <2>4. DOMAIN cs = DOMAIN conns
    BY DEF SameSides, SameEnds
  <2> QED
    BY <2>2, <2>3, <2>4
<1>3. /\ SameEnds(conns, conns')
      /\ \A i \in DOMAIN conns : conns'[i].side # "gone" <=> conns[i].side # "gone"
  BY <1>2 DEF SameSides
<1>4. OnlyLive(a)'
  BY DEF Said, Joining, OnlyLive
<1>5. /\ \A x \in Taking \ {u} : ctl'[x].state = a
      /\ ctl'[u] = ctl[u] /\ ~ctl'[u].timer /\ ~ctl'[u].late
  BY <1>0 DEF Joining, Taking
<1>6. \A i \in DOMAIN conns : conns[i].linked =>
          IF conns[i].client = u THEN \A n : In(n, conns'[i].down) => n.kind = "state"
                                 ELSE \A n : In(n, conns'[i].up) => n.kind = "state"
  BY <1>1, <1>2 DEF Emitted, Clean, States
<1>7. Undisturbed(a, u)
  BY <1>3, <1>4, <1>5, <1>6 DEF Undisturbed
<1>8. \A i \in DOMAIN conns : \A n :
        /\ In(n, cs[i].down) => In(n, conns'[i].down)
        /\ In(n, cs[i].up) => In(n, conns'[i].up)
        /\ i \in Peers(conns, w) /\ In(n, out) => In(n, conns'[i].down)
  BY <1>1, <1>2 DEF Emitted
<1> QED
  BY <1>2, <1>5, <1>7, <1>8

LEMMA JoiningClient ==
    ASSUME Inv, Linked, NEW a, NEW u, Joining(a, u), NEW w \in Windows, w # u, ClientReceive(w)
    PROVE  Joining(a, u)'
<1>0. /\ Typed /\ conns \in Seq(Connections) /\ u \in Windows /\ Asking(u) /\ role[w] # "crashed"
  BY DEF Inv, Typed, Joining, Taking, ClientReceive, Idle
<1>1. PICK i, m : \E cs \in Seq(Connections) : ClientReads(w, i, m, cs)
  BY <1>0, ClientFields
<1>2. PICK cs \in Seq(Connections) : ClientReads(w, i, m, cs)
  BY <1>1
<1>3. /\ Live(m, conns) /\ \A n : Live(n, cs) => Live(n, conns)
      /\ m \in Messages /\ SameSides(conns, cs) /\ Deliver(w, cs, m)
  BY <1>2, ClientLive
<1>4. /\ i \in ClientOf(conns, w)
      /\ \A k \in DOMAIN conns : cs[k].up = conns[k].up
      /\ \A k \in DOMAIN conns \ {i} : cs[k].down = conns[k].down
      /\ \A n : In(n, conns[i].down) <=> n = m \/ In(n, cs[i].down)
  BY <1>2 DEF ClientReads
<1>5. w \in Taking \ {u} /\ ctl[w].state = a
  BY <1>0, <1>4 DEF Linked, ClientOf, Taking, Joining
<1>6. m.kind = "state" => m.payload = a
  BY <1>3 DEF Joining, OnlyLive
<1>7. /\ UNCHANGED <<role, place, path>> /\ Taking' = Taking /\ ctl'[w].state = a
      /\ \A v \in Windows \ {w} : ctl'[v] = ctl[v]
      /\ \E out \in Seq(Messages) : Answers(w, cs, m, out)
  BY <1>0, <1>3, <1>5, <1>6, OtherReads
<1>8. PICK out \in Seq(Messages) : Answers(w, cs, m, out)
  BY <1>7
<1>9. Said(w, a)
  BY <1>0, <1>5, ClientSays
<1>10. Clean(u, cs)
  BY <1>4 DEF Joining, Clean
<1>11. conns' = Emit(cs, w, out) /\ States(out)
  BY <1>8 DEF Answers, States
<1>12. /\ Undisturbed(a, u) /\ ctl'[u] = ctl[u]
       /\ \A k \in DOMAIN conns : \A n :
            /\ In(n, cs[k].down) => In(n, conns'[k].down)
            /\ In(n, cs[k].up) => In(n, conns'[k].up)
  BY <1>3, <1>5, <1>7, <1>9, <1>10, <1>11, OtherLeaves
<1>13. \A k \in ClientOf(conns, u) : k \in DOMAIN conns /\ k # i
  BY <1>0, <1>4, <1>5 DEF ClientOf
<1>14. \A k \in ClientOf(conns, u) : \A n : /\ In(n, conns[k].down) => In(n, conns'[k].down)
                                            /\ In(n, conns[k].up) => In(n, conns'[k].up)
  BY <1>4, <1>12, <1>13
<1>15. Asking(u)'
  BY <1>0, <1>12, <1>14, AskingStays
<1> QED
  BY <1>12, <1>15, JoiningFrame

LEMMA JoiningBroker ==
    ASSUME Inv, Linked, Names, NEW a, NEW u, Joining(a, u), NEW w \in Windows, BrokerReceive(w)
    PROVE  Joining(a, u)'
<1>0. /\ Typed /\ conns \in Seq(Connections) /\ u \in Windows /\ Asking(u) /\ role[w] # "crashed"
  BY DEF Inv, Typed, Joining, Taking, BrokerReceive, Idle
<1>1. PICK i, m : \E cs \in Seq(Connections) : BrokerReads(w, i, m, cs)
  BY <1>0, BrokerFields
<1>2. PICK cs \in Seq(Connections) : BrokerReads(w, i, m, cs)
  BY <1>1
<1>3. /\ Live(m, conns) /\ \A n : Live(n, cs) => Live(n, conns)
      /\ m \in Messages /\ SameSides(conns, cs) /\ Deliver(w, cs, m)
  BY <1>2, BrokerLive
<1>4. /\ i \in Peers(conns, w)
      /\ \A k \in DOMAIN conns : \A n :
            In(n, cs[k].down) <=> In(n, conns[k].down) \/ (k \in Peers(conns, w) \ {i} /\ n = m)
      /\ \A k \in DOMAIN conns \ {i} : cs[k].up = conns[k].up
      /\ \A n : In(n, conns[i].up) <=> n = m \/ In(n, cs[i].up)
  BY <1>2 DEF BrokerReads
<1>5. /\ role[w] = "broker" /\ i \in DOMAIN conns /\ conns[i].linked
  BY <1>0, <1>4 DEF Linked, Peers, Joining
<1>6. w \in Taking \ {u} /\ ctl[w].state = a
  BY <1>0, <1>5, AskingRole DEF Linked, Taking, Joining
<1>7. m.kind = "state" => m.payload = a
  BY <1>3 DEF Joining, OnlyLive
<1>8. /\ UNCHANGED <<role, place, path>> /\ Taking' = Taking /\ ctl'[w].state = a
      /\ \A v \in Windows \ {w} : ctl'[v] = ctl[v]
      /\ \E out \in Seq(Messages) : Answers(w, cs, m, out)
  BY <1>0, <1>3, <1>6, <1>7, OtherReads
<1>9. PICK out \in Seq(Messages) : Answers(w, cs, m, out)
  BY <1>8
<1>10. Said(w, a)
  BY <1>0, <1>6, BrokerSays
<1>11. Clean(u, cs)
  <2> SUFFICES ASSUME NEW k \in DOMAIN conns, conns[k].linked
               PROVE  IF conns[k].client = u THEN \A n : In(n, cs[k].down) => n.kind = "state"
                                             ELSE \A n : In(n, cs[k].up) => n.kind = "state"
    BY DEF Clean
  <2>1. CASE conns[k].client = u
    <3> SUFFICES ASSUME NEW n, In(n, cs[k].down) PROVE n.kind = "state"
      BY <2>1
    <3>1. CASE In(n, conns[k].down)
      BY <2>1, <3>1 DEF Joining
    <3>2. CASE k # i /\ n = m
      <4>1. conns[i].client # u
        BY <1>5, <2>1, <3>2 DEF Linked
      <4>2. In(m, conns[i].up)
        BY <1>4
      <4> QED
        BY <1>5, <3>2, <4>1, <4>2 DEF Joining
    <3> QED
      BY <1>4, <3>1, <3>2
  <2>2. CASE conns[k].client # u
    <3>1. \A n : In(n, cs[k].up) => In(n, conns[k].up)
      BY <1>4
    <3> QED
      BY <2>2, <3>1 DEF Joining
  <2> QED
    BY <2>1, <2>2
<1>12. conns' = Emit(cs, w, out) /\ States(out)
  BY <1>9 DEF Answers, States
<1>13. /\ Undisturbed(a, u) /\ ctl'[u] = ctl[u] /\ SameSides(conns, conns')
       /\ \A k \in DOMAIN conns : \A n :
            /\ In(n, cs[k].down) => In(n, conns'[k].down)
            /\ In(n, cs[k].up) => In(n, conns'[k].up)
            /\ k \in Peers(conns, w) /\ In(n, out) => In(n, conns'[k].down)
  BY <1>3, <1>6, <1>8, <1>10, <1>11, <1>12, OtherLeaves
<1>14. CASE m.kind = "request" /\ conns[i].client = u
  <2>1. IsRunning(w) /\ Peers(cs, w) # {}
    BY <1>3, <1>4, <1>5, SameSidesLinks DEF IsRunning
  <2>2. PICK n : In(n, out)
    BY <1>9, <1>14, <2>1 DEF Answers
  <2>3. n.kind = "state" /\ n.origin = w /\ n.rev = ctl[w].rev + 1 /\ n \in Messages
    BY <1>9, <2>2 DEF Answers, In
  <2>4. ctl[w].rev \in Nat
    BY <1>0, OfController DEF Typed
  <2>5. ~Known(ctl[u], n)
    BY <1>0, <2>3, <2>4, Newer
  <2>6. Tells(n, u)'
    BY <1>13, <2>3, <2>5 DEF Tells
  <2>7. i \in ClientOf(conns', u)
    BY <1>5, <1>13, <1>14, SameSidesLinks DEF ClientOf
  <2>8. In(n, conns'[i].down)
    BY <1>4, <1>5, <1>13, <2>2
  <2>9. Asking(u)'
    BY <2>6, <2>7, <2>8 DEF Asking
  <2> QED
    BY <1>13, <2>9, JoiningFrame
<1>15. CASE ~(m.kind = "request" /\ conns[i].client = u)
  <2>1. ClientOf(conns', u) = ClientOf(conns, u)
    BY <1>13, SameSidesLinks
  <2>2. CASE ClientOf(conns, u) = {}
    BY <1>0, <1>13, <2>2, AskingStays, JoiningFrame
  <2>3. CASE ClientOf(conns, u) # {}
    <3>1. role[u] = "client"
      BY <1>0, <2>3, AskingRole
    <3>2. PICK k \in ClientOf(conns, u) : \/ \E n : In(n, conns[k].down) /\ Tells(n, u)
                                          \/ \E n : In(n, conns[k].up) /\ n.kind = "request"
      BY <1>0, <3>1 DEF Asking
    <3>3. k \in DOMAIN conns /\ conns[k].client = u
      BY <3>2 DEF ClientOf
    <3>4. ASSUME NEW n, In(n, conns[k].down), Tells(n, u) PROVE Asking(u)'
      <4>1. In(n, conns'[k].down)
        BY <1>4, <1>13, <3>3, <3>4
      <4>2. Tells(n, u)'
        BY <1>13, <3>4 DEF Tells
      <4> QED
        BY <2>1, <3>2, <4>1, <4>2 DEF Asking
    <3>5. ASSUME NEW n, In(n, conns[k].up), n.kind = "request" PROVE Asking(u)'
      <4>1. In(n, cs[k].up)
        BY <1>4, <1>15, <3>3, <3>5
      <4>2. In(n, conns'[k].up)
        BY <1>13, <3>3, <4>1
      <4> QED
        BY <2>1, <3>2, <3>5, <4>2 DEF Asking
    <3>6. Asking(u)'
      BY <3>2, <3>4, <3>5
    <3> QED
      BY <1>13, <3>6, JoiningFrame
  <2> QED
    BY <2>2, <2>3
<1> QED
  BY <1>14, <1>15

LEMMA JoiningStep ==
    ASSUME Inv, Linked, Names, NEW a, NEW u, Joining(a, u), NEW w \in Windows, Step(w), ~skipped'
    PROVE  Round(a)'
<1>1. Starting(w) \/ PublishTimer(w) \/ LateCallback(w) \/ BrokerReceive(w) \/ ClientReceive(w) \/ Accept(w)
  BY JoiningSteps DEF Reacts
<1>2. Joining(a, u)' => Round(a)'
  BY DEF Round
<1>3. CASE PublishTimer(w) \/ LateCallback(w)
  BY <1>3, JoiningVoice
<1>4. CASE ClientReceive(w)
  BY <1>2, <1>4, JoiningReads, JoiningClient
<1>5. CASE Starting(w) \/ BrokerReceive(w) \/ Accept(w)
  BY <1>2, <1>5, JoiningStart, JoiningBroker, JoiningAccept
<1> QED
  BY <1>1, <1>3, <1>4, <1>5

LEMMA RoundsStep ==
    ASSUME Inv, Linked, ~overtaken => Elections, Names, Dated, Rounds, Next
    PROVE  Rounds'
<1> SUFFICES ASSUME calm', ~skipped', ~overtaken' PROVE \E a : Round(a)'
  BY DEF Rounds
<1>0. ~overtaken /\ Elections
  BY DEF Next
<1>1. PICK w \in Windows : Act(w) \/ Step(w)
  BY DEF Next
<1>2. CASE Act(w)
  BY <1>0, <1>2, ActRound
<1>3. CASE Step(w)
  <2>1. calm /\ ~skipped
    BY <1>3, StepSays
  <2>2. PICK a : Round(a)
    BY <1>0, <2>1 DEF Rounds
  <2>3. CASE Same(a)
    BY <1>0, <1>3, <2>3, SameStep DEF Round
  <2>4. CASE Spread(a)
    BY <1>0, <1>3, <2>4, SpreadStep
  <2>5. CASE \E u : Drafted(a, u)
    BY <1>0, <1>3, <2>5, DraftedStep
  <2>6. CASE \E u : Joining(a, u)
    BY <1>0, <1>3, <2>6, JoiningStep
  <2> QED
    BY <2>2, <2>3, <2>4, <2>5, <2>6 DEF Round
<1> QED
  BY <1>1, <1>2, <1>3

(* Linked windows agree once they are settled, for any number of windows,    *)
(* edits, joins, exits and crashes and however their starts interleave, as   *)
(* long as the group was calm, nobody took a state for an answer and no      *)
(* start overtook another one that was about to remove the socket.           *)
THEOREM AgreeHolds == Spec => []LinkedWindowsAgree
<1>1. Init => Rounds
  <2> SUFFICES ASSUME Init PROVE \E a : Round(a)
    BY DEF Rounds
  <2>1. Taking = {} /\ conns = <<>>
    BY DEF Init, BusInit, Taking
  <2>2. Same(None)
    BY <2>1 DEF Same, OnlyLive, Live
  <2> QED
    BY <2>2 DEF Round
<1>2. Inv /\ Linked /\ (~overtaken => Elections) /\ Names /\ Dated /\ Rounds /\ [Next]_vars
      => Rounds'
  <2>1. ASSUME Rounds, UNCHANGED vars PROVE Rounds'
    <3>1. Taking' = Taking /\ UNCHANGED <<role, place, path, conns, ctl, calm, skipped, overtaken>>
      BY <2>1 DEF vars, busVars, historyVars, Taking
    <3> QED
      BY <2>1, <3>1, RoundFrame DEF Rounds
  <2> QED
    BY <2>1, RoundsStep
<1>3. Rounds => LinkedWindowsAgree
  <2> SUFFICES ASSUME Rounds, calm, ~skipped, ~overtaken, Settled PROVE Agree
    BY DEF LinkedWindowsAgree
  <2>1. PICK a : Same(a)
    BY SettledIsSame DEF Rounds
  <2> QED
    BY <2>1 DEF Same, Agree
<1> QED
  BY <1>1, <1>2, <1>3, InvHolds, LinkedHolds, NamesHold, ElectionsHold, DatedHolds, PTL DEF Spec
=============================================================================
