------------------------------ MODULE Carrier ------------------------------
(***************************************************************************)
(* The synthetic TCP conversation under the tunnel (endpoint.rs) and what  *)
(* tunnel.rs does with it: opening a connection, taking one up, moving to  *)
(* the next port with the next connection opened ahead, following a peer   *)
(* that moved or restarted.  Numbers are those of Sequencing::Stream.      *)
(*                                                                         *)
(* Every random epoch is the next number of a count, and names the         *)
(* connection opened with it; a data segment is one unit long.  Which keys *)
(* a session has is in PeerSessions: here an end opens what is sealed      *)
(* under a session it has made since it started.  When a timer is due is   *)
(* in HandshakePacing: here it may be due whenever the state allows.       *)
(***************************************************************************)
EXTENDS Integers, FiniteSets

CONSTANTS
    Modes,          \* the Carrier modes covered: midstream, fake, real
    NPorts,         \* ports of the initiator's pool
    Space,          \* sequence numbers, a power of two
    REORDER_SPAN,
    MaxEpochs, MaxData, MaxRestarts

VARIABLES
    mode,
    carrier,        \* the endpoint each end has, or NoWire
    standby,        \* the initiator's next one, or NoWire
    local,          \* the initiator's port
    session,        \* the session each end seals under, or None
    keys,           \* the sessions each end has made since it started
    pending,        \* the epoch of the initiator's handshake, or None
    announces,      \* what threads of the initiator are about to send, the lock dropped
    wire,           \* segments on the path: lost if never taken, late if taken late
    epochs, sent, restarts,
    opened,         \* history: connections whose SYN was sent
    answered,       \* history: connections the responder has sent a SYN+ACK on
    crossed         \* history: connections whose numbering met another's, or was taken up late

path == <<wire, sent>>
ends == <<carrier, standby, local, session, keys, pending, announces>>
vars == <<mode, ends, path, epochs, restarts, opened, answered, crossed>>

None == -1
NoWire == [conn |-> 0]
I == "I"
R == "R"
End == {I, R}

Plus(n, k) == (n + k) % Space

-----------------------------------------------------------------------------
(* Numbers: carrier_numbers, syn_tag and syn_ack_isn draw them at random,  *)
(* and a random one lands within REORDER_SPAN of another once in four      *)
(* thousand (endpoint.rs).  Here they are spread evenly, and wrap.         *)

Stride == Space \div (2 * MaxEpochs)
Isn(e)  == Plus(Space - 2, 2 * Stride * (e - 1))
RIsn(e) == Plus(Isn(e), Stride)

next_port(p) == (p + 1) % NPorts

-----------------------------------------------------------------------------
(* Endpoint. *)

waits == mode = "real"
opens == mode # "midstream"

\* Endpoint::new for connection e (known to the responder by who it answers).
new(e, port, isn, peer_isn) ==
    [conn |-> e, port |-> port, phase |-> IF waits THEN "idle" ELSE "established",
     isn |-> isn, sent |-> 0, next |-> IF waits THEN None ELSE peer_isn, relearn |-> TRUE,
     syn |-> None, counted |-> ~waits]

next_seq(c) == Plus(c.isn, c.sent)
next_ack(c) == IF c.next = None THEN 0 ELSE c.next

\* Mutant of is_ready: a real handshake's initiator does not wait.
ReadyOnceSent(e, c) == IF e = I /\ mode # "midstream" THEN c.syn # None ELSE c.phase = "established"

is_ready(e, c) ==
    IF e = I /\ mode = "fake" THEN c.syn # None ELSE c.phase = "established"

wants_opening(c) ==
    CASE mode = "midstream" -> FALSE
      [] mode = "fake"      -> c.syn = None
      [] mode = "real"      -> c.phase # "established"

\* number_syn and handshake, for the initiator: the SYN's number is settled once.
WithSyn(c) ==
    IF mode = "fake" THEN [c EXCEPT !.syn = Plus(next_seq(c), Space - 1)]
    ELSE [c EXCEPT !.syn = c.isn, !.phase = "syn_sent"]

establish(c) ==
    [c EXCEPT !.phase = "established", !.counted = TRUE,
              !.sent = IF c.counted THEN @ ELSE Plus(@, 1)]

\* Mutant of advance: numbers are compared as if they never wrapped.
AdvanceUnwrapped(c, end) ==
    IF c.relearn \/ end > c.next THEN [c EXCEPT !.next = end, !.relearn = FALSE] ELSE c

\* advance: forward always, backward only when too far to be reordering.
advance(c, end) ==
    LET ahead     == (end - c.next) % Space
        forward   == ahead # 0 /\ ahead < Space \div 2
        restarted == ~forward /\ (c.next - end) % Space > REORDER_SPAN
    IN IF c.relearn \/ forward \/ restarted
       THEN [c EXCEPT !.next = end, !.relearn = FALSE] ELSE c

\* on_receive of a segment that carries data.
on_receive(c, seg) == IF c.next = None THEN c ELSE advance(c, Plus(seg.seq, 1))

answers_syn(c, seg) == c.syn # None /\ seg.ack = Plus(c.syn, 1)

\* on_receive of a SYN+ACK that answers ours.
OnSynAck(c, seg) ==
    LET d == IF c.next = None THEN [c EXCEPT !.next = Plus(seg.seq, 1), !.relearn = FALSE]
             ELSE advance(c, Plus(seg.seq, 1))
    IN IF d.phase = "syn_sent" THEN establish(d) ELSE d

set_remote(c, seg) == [c EXCEPT !.relearn = @ \/ seg.port # c.port, !.port = seg.port]

\* Mutant of rejoin: the connection is followed, its numbering is not taken up.
RejoinKeepsNumbers(c, seg) ==
    [c EXCEPT !.counted = TRUE, !.phase = "established",
              !.port = seg.port, !.next = Plus(seg.seq, 1), !.relearn = FALSE, !.conn = seg.conn]

\* rejoin: a connection opened by a SYN+ACK this end does not remember.  Its number
\* is read from the peer's acknowledgement.
rejoin(c, seg) ==
    [c EXCEPT !.isn = (seg.ack - c.sent) % Space, !.counted = TRUE, !.phase = "established",
              !.port = seg.port, !.next = Plus(seg.seq, 1), !.relearn = FALSE, !.conn = seg.conn]

names_another_connection(c, seg) ==
    /\ c.phase = "established"
    /\ LET ahead == (seg.ack - next_seq(c)) % Space
       IN ahead > REORDER_SPAN /\ Space - ahead > REORDER_SPAN

Syn(c) == [kind |-> "syn", conn |-> c.conn, port |-> c.port, seq |-> c.syn]

Data(e, c, body, key) ==
    [kind |-> "data", from |-> e, conn |-> c.conn, port |-> c.port,
     seq |-> next_seq(c), ack |-> next_ack(c), body |-> body, key |-> key]

\* Endpoint::data: the segment takes its number.
Spent(c) == [c EXCEPT !.sent = Plus(@, 1)]

-----------------------------------------------------------------------------
(* The initiator. *)

Init ==
    /\ mode \in Modes
    /\ carrier = [e \in End |-> NoWire] /\ standby = NoWire /\ local = 0
    /\ session = [e \in End |-> None] /\ keys = [e \in End |-> {}]
    /\ pending = None /\ announces = {}
    /\ wire = {} /\ epochs = 0 /\ sent = 0 /\ restarts = 0
    /\ opened = {} /\ answered = {} /\ crossed = {}

HasCarrier(e) == carrier[e] # NoWire
Ready(e) == HasCarrier(e) /\ is_ready(e, carrier[e])

initiator_carrier(e, port) == new(e, port, Isn(e), RIsn(e))

\* knock on carrier c, e being the last epoch drawn: the SYN it owes goes once the
\* wait since the last one is over, and one repeated for SYN_FRESH is replaced by
\* that of a new connection.
Knock == {"wait", "send", "renew"}

MayKnock(c, how) ==
    CASE how = "send"  -> TRUE
      [] how = "wait"  -> waits /\ wants_opening(c)
      [] how = "renew" -> waits /\ wants_opening(c) /\ c.phase = "syn_sent"

Knocked(c, e, how) ==
    IF how = "wait" \/ ~wants_opening(c) THEN c
    ELSE IF how = "renew" THEN WithSyn(initiator_carrier(e + 1, c.port))
    ELSE WithSyn(c)

\* The SYN on the path after a knock that turned c into d.
SynsOf(c, d, how) == IF how = "wait" \/ ~wants_opening(c) THEN {} ELSE {Syn(d)}

\* maybe_handshake: a carrier if there is none, its SYN if it owes one, and the
\* message if it may carry one.
maybe_handshake(how) ==
    LET first == epochs + 1
        c    == IF HasCarrier(I) THEN carrier[I] ELSE initiator_carrier(first, local)
        d    == Knocked(c, first, how)
        syns == SynsOf(c, d, how)
        goes == is_ready(I, d)
        last == IF how = "renew" THEN first + 1
                ELSE IF goes \/ ~HasCarrier(I) THEN first ELSE epochs
    IN /\ last <= MaxEpochs
       /\ MayKnock(c, how)
       /\ goes => sent < MaxData
       /\ epochs' = last
       /\ opened' = opened \cup {s.conn : s \in syns}
       /\ wire' = wire \cup syns \cup (IF goes THEN {Data(I, d, "msg1", first)} ELSE {})
       /\ carrier' = [carrier EXCEPT ![I] = IF goes THEN Spent(d) ELSE d]
       /\ pending' = IF goes THEN first ELSE pending
       /\ sent' = IF goes THEN sent + 1 ELSE sent
       /\ UNCHANGED <<mode, standby, local, session, keys, restarts, answered, crossed>>

\* The timers and the wire thread are each one thread: what one is in the middle
\* of it finishes first.
TimersFree == "timers" \notin announces
WireFree   == announces \cap {"wire", "handshake"} = {}

Handshake == TimersFree /\ (\E how \in Knock : maybe_handshake(how)) /\ UNCHANGED announces

\* handle_syn_ack calls it as well, once it has dropped the lock.
HandshakeAtOnce ==
    /\ "handshake" \in announces /\ announces' = announces \ {"handshake"}
    /\ \E how \in Knock : maybe_handshake(how)

\* maybe_open: the SYN again.
maybe_open(how) ==
    /\ TimersFree /\ HasCarrier(I) /\ wants_opening(carrier[I])
    /\ how # "wait" /\ MayKnock(carrier[I], how)
    /\ epochs' = IF how = "renew" THEN epochs + 1 ELSE epochs
    /\ epochs' <= MaxEpochs
    /\ LET d == Knocked(carrier[I], epochs, how)
       IN /\ carrier' = [carrier EXCEPT ![I] = d]
          /\ wire' = wire \cup {Syn(d)}
          /\ opened' = opened \cup {d.conn}
    /\ UNCHANGED <<mode, standby, local, session, keys, pending, announces, sent, restarts,
                   answered, crossed>>

\* prepare_standby: the next connection's SYN, once.
prepare_standby ==
    /\ TimersFree /\ waits /\ session[I] # None /\ standby = NoWire /\ Ready(I)
    /\ next_port(local) # local
    /\ epochs < MaxEpochs
    /\ LET s == WithSyn(initiator_carrier(epochs + 1, next_port(local)))
       IN standby' = s /\ wire' = wire \cup {Syn(s)} /\ opened' = opened \cup {s.conn}
    /\ epochs' = epochs + 1
    /\ UNCHANGED <<mode, carrier, local, session, keys, pending, announces, sent, restarts,
                   answered, crossed>>

\* Mutant of Taken: the standby is used and left in its place.
LeftInPlace == standby

\* What is left of the standby after a move: it is taken.
Taken == NoWire

\* The connection a move goes to: the one opened ahead, or a new one.
Successor ==
    IF standby # NoWire THEN standby ELSE initiator_carrier(epochs + 1, next_port(local))

\* maybe_rotate, once a move is due: the carrier is replaced and knocks; the
\* peer is told, after the lock is dropped, if the connection is open.
maybe_rotate(how) ==
    LET c    == Successor
        drew == IF standby = NoWire THEN epochs + 1 ELSE epochs
        d    == Knocked(c, drew, how)
        syns == SynsOf(c, d, how)
    IN /\ TimersFree /\ NPorts > 1 /\ HasCarrier(I)
       /\ MayKnock(c, how)
       /\ epochs' = IF how = "renew" THEN drew + 1 ELSE drew
       /\ epochs' <= MaxEpochs
       /\ carrier' = [carrier EXCEPT ![I] = d]
       /\ local' = c.port
       /\ standby' = Taken
       /\ wire' = wire \cup syns
       /\ opened' = opened \cup {s.conn : s \in syns}
       /\ announces' = IF session[I] # None /\ is_ready(I, d)
                       THEN announces \cup {"timers"} ELSE announces
       /\ UNCHANGED <<mode, session, keys, pending, sent, restarts, answered, crossed>>

\* seal_into and the send, by end e.
SendData(e) ==
    /\ session[e] # None /\ Ready(e) /\ sent < MaxData
    /\ wire' = wire \cup {Data(e, carrier[e], "data", session[e])}
    /\ carrier' = [carrier EXCEPT ![e] = Spent(@)]
    /\ sent' = sent + 1
    /\ UNCHANGED <<mode, standby, local, session, keys, pending, epochs, restarts, opened,
                   answered, crossed>>

Traffic(e) == SendData(e) /\ UNCHANGED announces

\* The empty packet that tells the peer of a move; nothing if the connection is
\* no longer one that carries.
Announce(t) ==
    /\ t \in announces /\ announces' = announces \ {t}
    /\ \/ SendData(I)
       \/ ~(session[I] # None /\ Ready(I) /\ sent < MaxData)
          /\ UNCHANGED <<mode, carrier, standby, local, session, keys, pending, path, epochs,
                         restarts, opened, answered, crossed>>

\* handle_syn_ack: the slot is told by the port, the answer by its number.
handle_syn_ack(seg) ==
    LET ahead == standby # NoWire /\ seg.port = standby.port
        c     == IF ahead THEN standby ELSE carrier[I]
        d     == OnSynAck(c, seg)
        done  == ~is_ready(I, c) /\ is_ready(I, d)
    IN /\ seg.kind = "synack" /\ WireFree
       /\ c # NoWire /\ answers_syn(c, seg)
       /\ IF ahead THEN standby' = d /\ UNCHANGED carrier
          ELSE carrier' = [carrier EXCEPT ![I] = d] /\ UNCHANGED standby
       /\ announces' = IF ~done \/ ahead THEN announces
                       ELSE announces \cup {IF session[I] # None THEN "wire" ELSE "handshake"}
       /\ UNCHANGED <<mode, local, session, keys, pending, path, epochs, restarts, opened,
                      answered, crossed>>

\* A segment of the responder's that opens: its numbering goes to the carrier in
\* use, whichever connection it came on.
Folded(c, seg) == on_receive(set_remote(c, [seg EXCEPT !.port = c.port]), seg)

Crossing(seg) == IF seg.conn # carrier[I].conn THEN {carrier[I].conn} ELSE {}

handle_msg2(seg) ==
    /\ seg.kind = "data" /\ seg.from = R /\ seg.body = "msg2" /\ seg.key = pending
    /\ WireFree
    /\ carrier' = [carrier EXCEPT ![I] = Folded(@, seg)]
    /\ session' = [session EXCEPT ![I] = seg.key]
    /\ keys' = [keys EXCEPT ![I] = @ \cup {seg.key}]
    /\ pending' = None
    /\ wire' = wire \ {seg}
    /\ crossed' = crossed \cup Crossing(seg)
    /\ UNCHANGED <<mode, standby, local, announces, epochs, sent, restarts, opened, answered>>

Hear(seg) ==
    /\ seg.kind = "data" /\ seg.from = R /\ seg.body = "data" /\ seg.key \in keys[I]
    /\ WireFree
    /\ carrier' = [carrier EXCEPT ![I] = Folded(@, seg)]
    /\ wire' = wire \ {seg}
    /\ crossed' = crossed \cup Crossing(seg)
    /\ UNCHANGED <<mode, standby, local, session, keys, pending, announces, epochs, sent,
                   restarts, opened, answered>>

-----------------------------------------------------------------------------
(* The responder. *)

\* answer_syn: composed from the SYN alone, and nothing kept.
answer_syn(seg) ==
    /\ seg.kind = "syn" /\ waits
    /\ wire' = wire \cup {[kind |-> "synack", conn |-> seg.conn, port |-> seg.port,
                           seq |-> RIsn(seg.conn), ack |-> Plus(seg.seq, 1)]}
    /\ answered' = answered \cup {seg.conn}
    /\ UNCHANGED <<mode, ends, sent, epochs, restarts, opened, crossed>>

\* Mutant of IsFresh: a peer that restarted where it was is not noticed.
FreshByPlace(seg) == carrier[R].port # seg.port

\* handle_msg1 and handle_transport: a connection this end has not seen yet.
IsFresh(seg) ==
    \/ carrier[R].port # seg.port
    \/ seg.body = "msg1" /\ opens /\ names_another_connection(carrier[R], seg)

\* take_up: the carrier after the segment, and the SYN+ACK a fake handshake owes.
TakenUp(c, seg, fresh) ==
    IF fresh /\ mode = "real" THEN rejoin(c, seg)
    ELSE LET d == on_receive(set_remote(c, seg), seg)
         IN IF fresh THEN [d EXCEPT !.conn = seg.conn] ELSE d

Announced(d, seg, fresh) ==
    IF fresh /\ mode = "fake"
    THEN {[kind |-> "synack", conn |-> seg.conn, port |-> d.port,
           seq |-> Plus(next_seq(d), Space - 1), ack |-> seg.seq]}
    ELSE {}

\* A connection's segment that the responder goes on numbering from another's.
Missed(d, seg) == IF d.conn # seg.conn THEN {seg.conn, d.conn} ELSE {}

\* handle_msg1: the carrier is built once; the segment is folded in, a fake
\* handshake's SYN+ACK goes first, and then the reply.
handle_msg1(seg) ==
    LET built == carrier[R] = NoWire
        c     == IF ~built THEN carrier[R]
                 ELSE IF waits THEN new(seg.conn, seg.port, 0, 0)
                 ELSE new(seg.conn, seg.port, RIsn(seg.key), Isn(seg.key))
        fresh == built \/ IsFresh(seg)
        d     == TakenUp(c, seg, fresh)
    IN /\ seg.kind = "data" /\ seg.body = "msg1" /\ sent < MaxData
       /\ carrier' = [carrier EXCEPT ![R] = Spent(d)]
       /\ wire' = (wire \ {seg}) \cup Announced(d, seg, fresh) \cup {Data(R, d, "msg2", seg.key)}
       /\ answered' = answered \cup {s.conn : s \in Announced(d, seg, fresh)}
       /\ session' = [session EXCEPT ![R] = seg.key]
       /\ keys' = [keys EXCEPT ![R] = @ \cup {seg.key}]
       /\ sent' = sent + 1
       /\ UNCHANGED <<mode, standby, local, pending, announces, epochs, restarts, opened, crossed>>

handle_transport(seg) ==
    LET fresh == IsFresh(seg)
        d     == TakenUp(carrier[R], seg, fresh)
    IN /\ seg.kind = "data" /\ seg.from = I /\ seg.body = "data" /\ seg.key \in keys[R]
       /\ carrier' = [carrier EXCEPT ![R] = d]
       /\ wire' = (wire \ {seg}) \cup Announced(d, seg, fresh)
       /\ answered' = answered \cup {s.conn : s \in Announced(d, seg, fresh)}
       /\ crossed' = crossed \cup Missed(d, seg)
       /\ UNCHANGED <<mode, standby, local, session, keys, pending, announces, epochs, sent,
                      restarts, opened>>

-----------------------------------------------------------------------------
(* An end starts again: what it held is gone, and its port is the first. *)

Restart(e) ==
    /\ restarts < MaxRestarts /\ restarts' = restarts + 1
    /\ carrier' = [carrier EXCEPT ![e] = NoWire]
    /\ session' = [session EXCEPT ![e] = None]
    /\ keys' = [keys EXCEPT ![e] = {}]
    /\ IF e = I
       THEN standby' = NoWire /\ local' = 0 /\ pending' = None /\ announces' = {}
       ELSE UNCHANGED <<standby, local, pending, announces>>
    /\ UNCHANGED <<mode, path, epochs, opened, answered, crossed>>

Next ==
    \/ Handshake \/ HandshakeAtOnce \/ prepare_standby
    \/ \E how \in Knock : maybe_open(how) \/ maybe_rotate(how)
    \/ \E e \in End : Traffic(e) \/ Restart(e)
    \/ \E t \in {"timers", "wire"} : Announce(t)
    \/ \E seg \in wire :
          \/ handle_syn_ack(seg) \/ handle_msg2(seg) \/ Hear(seg)
          \/ answer_syn(seg) \/ handle_msg1(seg) \/ handle_transport(seg)

Spec == Init /\ [][Next]_vars

-----------------------------------------------------------------------------

\* A connection opens before anything goes over it (endpoint.rs, Carrier): data
\* of the initiator's travels only on a connection whose SYN went out, and under a
\* real handshake only once that SYN was answered -- whichever slot the SYN+ACK
\* was for, however late it came and whatever moved in between.
OpensFirst ==
    \A seg \in wire : seg.kind = "data" /\ seg.from = I =>
        /\ opens => seg.conn \in opened
        /\ waits => seg.conn \in answered

\* A connection the responder answers a handshake on is one it has announced
\* (take_up): the SYN+ACK goes ahead of the reply, also for an initiator that
\* restarted on the same port, which only its acknowledgement can show -- unless
\* that acknowledgement has met another connection's numbering.
AnnouncesFirst ==
    \A seg \in wire :
        opens /\ seg.kind = "data" /\ seg.body = "msg1" /\ seg \notin wire'
        => seg.conn \in answered' \cup crossed

\* handle_syn_ack tells the connection a SYN+ACK answers by its port alone: the
\* standby is always on the port after the carrier's, and never on its own.
PortTellsTheSlot ==
    /\ HasCarrier(I) => carrier[I].port = local
    /\ standby # NoWire => standby.port = next_port(local) /\ standby.port # local

\* The numbers on one connection are one stream's, for whatever watches it pass:
\* every segment of either end is numbered, and acknowledges, near where the SYN
\* and the SYN+ACK began, across moves, restarts, losses, reordering and the wrap -- except
\* on a connection whose numbering met another's.
OneStream ==
    \A seg \in wire : seg.kind = "data" /\ waits /\ seg.conn \notin crossed =>
        LET ours   == IF seg.from = I THEN Isn(seg.conn) ELSE RIsn(seg.conn)
            theirs == IF seg.from = I THEN RIsn(seg.conn) ELSE Isn(seg.conn)
        IN /\ (seg.seq - ours) % Space \in 1 .. MaxData + 1
           /\ (seg.ack - theirs) % Space \in 1 .. MaxData + 1

\* The acknowledgement keeps up with what arrives (advance): after a segment of
\* the connection an end is on, it stands at that segment's end or past it,
\* whatever was lost before it and wherever the numbers wrap.
AcksArrival ==
    \A seg \in wire, e \in End :
        /\ seg.kind = "data" /\ seg.from # e /\ seg \notin wire'
        /\ e = I => seg.conn = carrier[I].conn
        => (carrier'[e].next - Plus(seg.seq, 1)) % Space <= MaxData
=============================================================================
