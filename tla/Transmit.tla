------------------------------- MODULE Transmit ------------------------------
(***************************************************************************)
(* Putting packets on the wire: the outbound half of tunnel.rs from the    *)
(* device to the transmit socket, one packet or one batch per system call, *)
(* the two transmit paths (tx.rs, tx_afpacket.rs) and the next hop the     *)
(* second one keeps (neigh.rs).  Two threads transmit: the one that reads  *)
(* the device, and another with packets of its own, a keepalive, a repeat  *)
(* or a request.  The kernel, its routes and its neighbours are external.  *)
(* A packet is its place in the order read, 0 for one of our own.          *)
(***************************************************************************)
EXTENDS Integers, Sequences, FiniteSets, FiniteSetsExt

CONSTANTS BATCH,
          Hops, Macs,     \* gateways, and hardware addresses they may have
          MaxPackets, MaxOwn, MaxErrors, MaxChanges

VARIABLES datapath, transmit,   \* as configured
          waiting,              \* packets queued at the device
          taken,                \* packets taken from it
          pc, batch, addr,      \* thread -> its step, frames and link address
          tx_packets, tx_dropped,
          tried, silent,        \* packets given to seal_into, and lost uncounted there
          left,                 \* what left: packet and link address
          errors, own, changes,
          route,                \* the hop the kernel's table gives for the peer
          arp,                  \* hop -> its address, or None while unresolved
          hop, mac              \* AfPacketTx::next_hop

vars == <<datapath, transmit, waiting, taken, pc, batch, addr, tx_packets, tx_dropped, tried,
          silent, left, errors, own, changes, route, arp, hop, mac>>

Threads == {"reader", "timers"}
None == "none"

------------------------------------------------------------------------------
(* neigh: the route with the longest prefix, and a neighbour whose entry   *)
(* is complete.  `open` waits for the entry, and is why there is one here. *)
next_hop == route
hardware_address(h) == arp[h]

Init ==
  /\ datapath \in {"simple", "batched"} /\ transmit \in {"raw", "afpacket"}
  /\ waiting = 0 /\ taken = 0
  /\ pc = [t \in Threads |-> "idle"] /\ batch = [t \in Threads |-> << >>]
  /\ addr = [t \in Threads |-> None]
  /\ tx_packets = 0 /\ tx_dropped = 0 /\ tried = 0 /\ silent = 0
  /\ left = << >> /\ errors = 0 /\ own = 0 /\ changes = 0
  /\ route \in Hops /\ arp \in [Hops -> Macs]
  /\ hop = next_hop /\ mac = hardware_address(hop)

Queue ==
  /\ waiting + taken < MaxPackets /\ waiting' = waiting + 1
  /\ UNCHANGED <<datapath, transmit, taken, pc, batch, addr, tx_packets, tx_dropped, tried,
                 silent, left, errors, own, changes, route, arp, hop, mac>>

(* seal_into, for each of `packets` in turn: a frame; nothing, uncounted,  *)
(* because the packet is not worth carrying or there is no session;        *)
(* nothing, counted, because the connection is opening; or an error.       *)
Outcomes == {"frame", "nothing", "opening", "error"}

note_outbound(t) == IF t = "reader" THEN 1 ELSE 0

seal_into(t, packets) ==
  \E out \in [DOMAIN packets -> Outcomes] :
    LET of(o) == {i \in DOMAIN packets : out[i] = o}
        frames == SelectSeq([i \in DOMAIN packets |-> <<out[i], packets[i]>>],
                            LAMBDA f : f[1] = "frame")
        failed == Cardinality(of("error")) * note_outbound(t)
    IN /\ tx_packets' = tx_packets + Len(frames)
       /\ tx_dropped' = tx_dropped + Cardinality(of("opening")) + failed
       /\ tried' = tried + Len(packets)
       /\ silent' = silent + Len(packets) - Len(frames) - Cardinality(of("opening")) - failed
       /\ batch' = [batch EXCEPT ![t] = [i \in DOMAIN frames |-> frames[i][2]]]
       /\ pc' = [pc EXCEPT ![t] = IF frames = << >> THEN "idle" ELSE "sealed"]

(* One packet, or the first and whatever else is queued already: the drain *)
(* ends early at an error.                                                 *)
tun_to_wire ==
  /\ pc["reader"] = "idle" /\ waiting > 0
  /\ \E n \in 1 .. (IF datapath = "simple" THEN 1 ELSE Min({BATCH, waiting})) :
       /\ waiting' = waiting - n /\ taken' = taken + n
       /\ seal_into("reader", [i \in 1 .. n |-> taken + i])
  /\ UNCHANGED <<datapath, transmit, addr, left, errors, own, changes, route, arp, hop, mac>>

(* send_inner from a thread other than the device's.                       *)
send_inner ==
  /\ pc["timers"] = "idle" /\ own < MaxOwn /\ own' = own + 1
  /\ seal_into("timers", <<0>>)
  /\ UNCHANGED <<datapath, transmit, waiting, taken, addr, left, errors, changes, route, arp, hop, mac>>

(* The lock on the next hop is let go before the system call.              *)
sockaddr(t) ==
  /\ pc[t] = "sealed" /\ pc' = [pc EXCEPT ![t] = "addressed"]
  /\ addr' = [addr EXCEPT ![t] = IF transmit = "raw" THEN None ELSE mac]
  /\ UNCHANGED <<datapath, transmit, waiting, taken, batch, tx_packets, tx_dropped, tried, silent,
                 left, errors, own, changes, route, arp, hop, mac>>

\* Mutant of TakenBack: what the kernel did not take stays counted as sent.
TakenBackNothing(lost) == tx_dropped' = tx_dropped + lost /\ UNCHANGED tx_packets

TakenBack(lost) == tx_dropped' = tx_dropped + lost /\ tx_packets' = tx_packets - lost

(* sendmmsg takes a prefix of at least one; sendto takes its one packet.   *)
Sends(t) ==
  /\ pc[t] = "addressed" /\ pc' = [pc EXCEPT ![t] = "idle"]
  /\ \E n \in 1 .. Len(batch[t]) :
       /\ left' = left \o [i \in 1 .. n |-> <<batch[t][i], addr[t]>>]
       /\ TakenBack(Len(batch[t]) - n)
  /\ batch' = [batch EXCEPT ![t] = << >>]
  /\ UNCHANGED <<datapath, transmit, waiting, taken, addr, tried, silent, errors, own, changes,
                 route, arp, hop, mac>>

refresh ==
  /\ mac' = IF transmit = "afpacket" /\ hardware_address(hop) # None
            THEN hardware_address(hop) ELSE mac
  /\ UNCHANGED hop

(* The call fails, and nothing of the batch was sent.                      *)
SendFails(t) ==
  /\ pc[t] = "addressed" /\ pc' = [pc EXCEPT ![t] = "idle"]
  /\ errors < MaxErrors /\ errors' = errors + 1
  /\ tx_dropped' = tx_dropped + note_outbound(t)
  /\ refresh
  /\ batch' = [batch EXCEPT ![t] = << >>]
  /\ UNCHANGED <<datapath, transmit, waiting, taken, addr, tx_packets, tried, silent, left, own,
                 changes, route, arp>>

(* The host's network: another gateway, another address for one, an entry  *)
(* that goes stale.                                                        *)
NetworkChanges ==
  /\ changes < MaxChanges /\ changes' = changes + 1
  /\ \/ route' \in Hops \ {route} /\ UNCHANGED arp
     \/ \E h \in Hops, m \in Macs \cup {None} : arp' = [arp EXCEPT ![h] = m] /\ UNCHANGED route
  /\ UNCHANGED <<datapath, transmit, waiting, taken, pc, batch, addr, tx_packets, tx_dropped, tried,
                 silent, left, errors, own, hop, mac>>

Next ==
  \/ Queue \/ tun_to_wire \/ send_inner \/ NetworkChanges
  \/ \E t \in Threads : sockaddr(t) \/ Sends(t) \/ SendFails(t)

Spec == Init /\ [][Next]_vars

------------------------------------------------------------------------------
(* While no call fails outright, the figures are of what left the host and *)
(* not of what was encrypted: with nothing in hand every packet counted as *)
(* sent has left, in the order it was read, and every other packet is      *)
(* among the dropped or was never worth a frame, however the batch was cut *)
(* and whichever thread sealed in between (tun_to_wire_batched, seal_into).*)
CountsWhatLeft ==
  /\ errors = 0 /\ (\A t \in Threads : pc[t] = "idle") =>
       tx_packets = Len(left) /\ tx_packets + tx_dropped + silent = tried
  /\ \A i, j \in DOMAIN left : i < j /\ left[j][1] # 0 => left[i][1] < left[j][1]

(* "Here both are read from the kernel, and re-read when a send fails":    *)
(* after a failed send the hop is the one the kernel's routes give.        *)
NextHopReread == errors' > errors /\ transmit = "afpacket" => hop' = next_hop
==============================================================================
