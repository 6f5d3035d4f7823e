------------------------------- MODULE MCDatapath ----------------------------
(***************************************************************************)
(* The parts of the transport that do not share state, side by side in one *)
(* run: the record stream, the coalescer, the SYN ledger, the filter with  *)
(* its readers, the path-MTU reports, the connections of both ends, the    *)
(* handshake's messages, and the two transmit paths. An initial state      *)
(* chooses one machine and every behaviour is a behaviour of that machine. *)
(* The modules of the handshake, the SYN ledger and the path-MTU reports   *)
(* are extended and not instantiated, so that their properties are their   *)
(* own: while another machine is chosen each of them stays in one of its   *)
(* initial states.                                                         *)
(***************************************************************************)
EXTENDS Noise, SynLedger, PathMtu

VARIABLES which,
  talker, conn, remote, left, due, id, owed, batch, out, wire, chain, broken,
  disturbed, eaten, told, bursts, keepalives,
  frame, run, pending, given, refused, dev, reading,
  shape, width, captured, pc, acc, outcome,
  mode, carrier, standby, local, session, keys, handshake, announces, path,
  epochs, segments, restarts, opened, announced, crossed,
  datapath, transmit, waiting, taken, step, frames, addr, tx_packets,
  tx_dropped, tried, silent, departed, errors, own, upsets, route, arp,
  gateway, mac

R == INSTANCE Records WITH
  Inner <- {1, 2}, OVERHEAD <- 1, BATCH <- 2, MAX_SPAN <- 5, Chunk <- 4,
  Rest <- 3, MaxBursts <- 2, MaxKeepalives <- 1, MaxMoves <- 1
C == INSTANCE Coalescer WITH
  SeqSpace <- 3, HeaderLen <- 2, MAX_IP_TOTAL <- 6, MaxLen <- 2,
  MaxPackets <- 4, MaxRefused <- 1
G == INSTANCE Ingress WITH
  Widths <- {1, 2, 240}, BaseId <- 6, IdWidth <- 3, IdSpace <- 8,
  frame <- captured
K == INSTANCE Carrier WITH
  Modes <- {"midstream", "fake", "real"}, NPorts <- 2, Space <- 128,
  REORDER_SPAN <- 6, MaxEpochs <- 4, MaxData <- 5, MaxRestarts <- 1,
  pending <- handshake, sent <- segments, wire <- path, answered <- announced
T == INSTANCE Transmit WITH
  BATCH <- 2, Hops <- {"g1", "g2"}, Macs <- {"m1", "m2"}, MaxPackets <- 3,
  MaxOwn <- 1, MaxErrors <- 1, MaxChanges <- 1, pc <- step, batch <- frames,
  left <- departed, changes <- upsets, hop <- gateway

(* A machine that is not the one chosen holds still.                       *)
RestR ==
  /\ talker = 0 /\ conn = 0 /\ remote = 0 /\ left = 0 /\ due = 0 /\ id = 0
  /\ owed = 0 /\ batch = 0 /\ out = 0 /\ wire = 0 /\ chain = 0
  /\ broken = 0 /\ disturbed = 0 /\ eaten = 0 /\ told = 0 /\ bursts = 0
  /\ keepalives = 0
RestC ==
  /\ frame = 0 /\ run = 0 /\ pending = 0 /\ given = 0 /\ refused = 0
  /\ dev = 0 /\ reading = 0
RestS == LedgerInit /\ skew = 0
RestG ==
  /\ shape = 0 /\ width = 0 /\ captured = 0 /\ pc = 0 /\ acc = 0
  /\ outcome = 0
RestP == MtuInit /\ hop = 8
RestK ==
  /\ mode = 0 /\ carrier = 0 /\ standby = 0 /\ local = 0 /\ session = 0
  /\ keys = 0 /\ handshake = 0 /\ announces = 0 /\ path = 0 /\ epochs = 0
  /\ segments = 0 /\ restarts = 0 /\ opened = 0 /\ announced = 0
  /\ crossed = 0
RestN ==
  NoiseInit /\ \A c \in Clients : ~Predates(c)
RestT ==
  /\ datapath = 0 /\ transmit = 0 /\ waiting = 0 /\ taken = 0 /\ step = 0
  /\ frames = 0 /\ addr = 0 /\ tx_packets = 0 /\ tx_dropped = 0
  /\ tried = 0 /\ silent = 0 /\ departed = 0 /\ errors = 0 /\ own = 0
  /\ upsets = 0 /\ route = 0 /\ arp = 0 /\ gateway = 0 /\ mac = 0
varsR == <<talker, conn, remote, left, due, id, owed, batch, out, wire, chain, broken,
  disturbed, eaten, told, bursts, keepalives>>
varsC == <<frame, run, pending, given, refused, dev, reading>>
varsG == <<shape, width, captured, pc, acc, outcome>>
varsK == <<mode, carrier, standby, local, session, keys, handshake, announces, path,
  epochs, segments, restarts, opened, announced, crossed>>
varsT == <<datapath, transmit, waiting, taken, step, frames, addr, tx_packets,
  tx_dropped, tried, silent, departed, errors, own, upsets, route, arp,
  gateway, mac>>

DatapathInit ==
  \/ which = "records" /\ R!Init /\ RestC /\ RestS /\ RestG /\ RestP /\ RestK /\ RestN /\ RestT
  \/ which = "coalescer" /\ C!Init /\ RestR /\ RestS /\ RestG /\ RestP /\ RestK /\ RestN /\ RestT
  \/ which = "syns" /\ LedgerInit /\ RestR /\ RestC /\ RestG /\ RestP /\ RestK /\ RestN /\ RestT
  \/ which = "ingress" /\ G!Init /\ RestR /\ RestC /\ RestS /\ RestP /\ RestK /\ RestN /\ RestT
  \/ which = "mtu" /\ MtuInit /\ RestR /\ RestC /\ RestS /\ RestG /\ RestK /\ RestN /\ RestT
  \/ which = "carrier" /\ K!Init /\ RestR /\ RestC /\ RestS /\ RestG /\ RestP /\ RestN /\ RestT
  \/ which = "noise" /\ NoiseInit /\ RestR /\ RestC /\ RestS /\ RestG /\ RestP /\ RestK /\ RestT
  \/ which = "transmit" /\ T!Init /\ RestR /\ RestC /\ RestS /\ RestG /\ RestP /\ RestK /\ RestN

DatapathNext ==
  /\ UNCHANGED which
  /\ \/ which = "records" /\ R!Next /\ UNCHANGED <<varsC, ledgerVars, varsG, mtuVars, varsK, noiseVars, varsT>>
     \/ which = "coalescer" /\ C!Next /\ UNCHANGED <<varsR, ledgerVars, varsG, mtuVars, varsK, noiseVars, varsT>>
     \/ which = "syns" /\ LedgerNext /\ UNCHANGED <<varsR, varsC, varsG, mtuVars, varsK, noiseVars, varsT>>
     \/ which = "ingress" /\ G!Next /\ UNCHANGED <<varsR, varsC, ledgerVars, mtuVars, varsK, noiseVars, varsT>>
     \/ which = "mtu" /\ MtuNext /\ UNCHANGED <<varsR, varsC, ledgerVars, varsG, varsK, noiseVars, varsT>>
     \/ which = "carrier" /\ K!Next /\ UNCHANGED <<varsR, varsC, ledgerVars, varsG, mtuVars, noiseVars, varsT>>
     \/ which = "noise" /\ NoiseNext /\ UNCHANGED <<varsR, varsC, ledgerVars, varsG, mtuVars, varsK, varsT>>
     \/ which = "transmit" /\ T!Next /\ UNCHANGED <<varsR, varsC, ledgerVars, varsG, mtuVars, varsK, noiseVars>>

everything == <<which, varsR, varsC, ledgerVars, varsG, mtuVars, varsK, noiseVars, varsT>>

DatapathSpec == DatapathInit /\ [][DatapathNext]_everything

------------------------------------------------------------------------------
(* A watcher that walks the stream by record lengths finds a header where  *)
(* each record ends, unless a burst was cut short or written into          *)
(* (Endpoint::data); the reader takes off every header the writer put on   *)
(* (unwrap_record); and a hello whose second segment is lost costs the     *)
(* packets after it no more bytes than that segment had (cover_owed).      *)
RecordsRead ==
  which = "records" => R!ChainKept /\ R!HeadersComeOff /\ R!CoverCostBounded

(* The device is given the packets that arrived, in order, apart from      *)
(* those it refused, and none is held back while the thread waits for the  *)
(* next frame (Coalescer::hold and take, flush_inner).                     *)
PacketsDelivered ==
  which = "coalescer" => C!DeviceSeesThePackets /\ C!NothingHeldWhileWaiting

(* What the proofs about the SYN ledger, the handshake and the path-MTU    *)
(* reports assume holds of these instances.                                *)
ASSUME DatapathAssumption == SynAssumption /\ NoiseAssumption /\ MtuAssumption

(* The kernel's filter program accepts what its comment says, for up to    *)
(* MAX_PORTS ports (the programs of bpf.rs).                               *)
FilterIsItsPredicate == which = "ingress" => G!FilterIsItsPredicate

(* No packet of the peer, and no path-MTU report, is lost between the      *)
(* filter and its reader, under any carrier (bpf.rs against parse_ipv4 and *)
(* handle_segment).                                                        *)
PacketsArrive ==
  which = "ingress" => G!PeersPacketsArrive /\ G!ReportsArrive

(* Data of the initiator's travels only on a connection whose SYN went     *)
(* out, and under a real handshake only once it was answered (is_ready);   *)
(* and the port of a SYN+ACK tells the carrier from the standby            *)
(* (prepare_standby, maybe_rotate).                                        *)
ConnectionsOpen ==
  which = "carrier" => K!OpensFirst /\ K!PortTellsTheSlot

(* The numbers on one connection are one stream's for whatever watches it  *)
(* pass, over moves and restarts (rejoin, take_up).                        *)
OneStream == which = "carrier" => K!OneStream

(* A connection the responder answers a handshake on is one it has         *)
(* announced (handle_msg1), and the acknowledgement keeps up with what     *)
(* arrives, wherever the numbers wrap (advance).                           *)
StreamFollowed ==
  [][which = "carrier" => K!AnnouncesFirst /\ K!AcksArrival]_everything

(* With nothing in hand and no call that failed outright, the packets      *)
(* counted as sent are those that left, in the order they were read        *)
(* (tun_to_wire_batched, sendmmsg).                                        *)
CountsWhatLeft == which = "transmit" => T!CountsWhatLeft
==============================================================================
