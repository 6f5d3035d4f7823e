------------------------------- MODULE Records -------------------------------
(***************************************************************************)
(* The byte stream each end writes when `spoof_records` and `spoof_sni`    *)
(* are on: application-data records that span a burst of packets           *)
(* (paqetz-tcpwire endpoint.rs and cover.rs), the three flights of the   *)
(* decoy handshake, and the threads of tunnel.rs that write it.  The       *)
(* device thread reads a burst, plans the records it will open and seals   *)
(* its packets one lock at a time; the timer thread puts a keepalive in    *)
(* between; the wire thread answers a decoy.  A packet is its sealed       *)
(* length, a connection is the number of the move that began it.           *)
(***************************************************************************)
EXTENDS Integers, Sequences, SequencesExt, FiniteSetsExt

CONSTANTS Inner,        \* lengths an inner packet may have
          OVERHEAD,     \* bytes sealing adds
          BATCH,        \* packets one drain of the device takes
          MAX_SPAN,     \* bytes one record may declare
          Chunk,        \* carrier_payload: bytes one segment carries
          Rest,         \* bytes of a hello that do not fit its first segment
          MaxBursts, MaxKeepalives, MaxMoves

VARIABLES talker,       \* the end whose device has bursts to send
          conn,         \* the connection the initiator writes on
          remote,       \* the connection the responder answers on
          left,         \* record_left of each end's carrier
          due,          \* cover_due
          id,           \* cover_session: the connection whose hello was seen
          owed,         \* cover_owed
          batch,        \* packets the device thread has read and not sealed
          out,          \* frames it has sealed and not transmitted
          wire,         \* segments in flight from each end
          chain,        \* bytes left of the record an observer is reading
          broken,       \* the observer met a length that does not fit
          disturbed,    \* a record was left short or written into
          eaten,        \* packets discarded as the rest of a hello
          told,         \* decoy flights written, with their connection
          bursts, keepalives

writer == <<left, due, chain, broken, told>>
vars == <<talker, conn, remote, left, due, id, owed, batch, out, wire, chain, broken,
          disturbed, eaten, told, bursts, keepalives>>

End == {"initiator", "responder"}
Other(e) == IF e = "initiator" THEN "responder" ELSE "initiator"
Conns == 0 .. MaxMoves
On(e) == IF e = "initiator" THEN conn ELSE remote

------------------------------------------------------------------------------
(* The records a burst opens: as many packets as fit one record, then the  *)
(* next.  The first packet of each carries the length of all of it.        *)

\* Mutant of Planned: the plan forgets what sealing adds.
PlannedInner(n) == n

Planned(n) == n + OVERHEAD

\* Mutant of Joins: the packet that overflows the record is still counted in.
JoinsFull(total, n) == total <= MAX_SPAN

Joins(total, n) == total + n <= MAX_SPAN

RecordPlan(lens) ==
  LET run[i \in DOMAIN lens] ==
        IF i > 1 /\ Joins(run[i - 1], Planned(lens[i]))
        THEN run[i - 1] + Planned(lens[i]) ELSE Planned(lens[i])
      first(i) == i = 1 \/ run[i] = Planned(lens[i])
      last(i) == Max({j \in i .. Len(lens) : \A k \in i + 1 .. j : ~first(k)})
  IN [i \in DOMAIN lens |-> IF first(i) THEN run[last(i)] ELSE 0]

(* What one segment does to the stream: `total` is the record the caller   *)
(* asks for, 0 for none.  A header goes in only between records.  That the *)
(* record is one record_header accepts is HeadersComeOff, below.           *)

data(l, n, total) ==
  LET opening == l = 0
      room == IF ~opening THEN l ELSE IF total = 0 THEN n ELSE total
  IN [head |-> IF opening THEN room ELSE 0, left |-> Max({room - n, 0})]

(* An observer follows the lengths: a header where the last record ended,  *)
(* and no packet past the end of the record it is in.                      *)
Fits(c, d, n) == IF d.head > 0 THEN c = 0 /\ n <= d.head ELSE n <= c

(* The payload the reader is left with once unwrap_record has looked.      *)
unwrap_record(seg) ==
  IF seg.head > 0 /\ seg.head >= seg.len /\ seg.head <= MAX_SPAN
  THEN [seg EXCEPT !.head = 0] ELSE seg

------------------------------------------------------------------------------
(* Writing.  send_cover runs before each packet, with the state held, and  *)
(* writes a flight only between records.                                   *)

Segment(e, kind, head, len) ==
  [kind |-> kind, head |-> head, len |-> len, conn |-> On(e)]

Flight(e, d) ==
  CASE d = "Opening" /\ e = "initiator" ->
         <<Segment(e, "hello", 0, Chunk), Segment(e, "rest", 0, Rest)>>
    [] d = "Opening" /\ e = "responder" /\ id # -1 ->
         <<Segment(e, "answer", 0, Chunk)>>
    [] d = "Finished" -> <<Segment(e, "finished", 0, 1)>>
    [] OTHER -> << >>

CoverDue(e, d) == d # "Nothing" /\ left[e] = 0

send_cover(e, d) ==
  IF CoverDue(e, d) THEN Flight(e, d) ELSE << >>

Told(segs) == {<<segs[i].kind, segs[i].conn>> : i \in DOMAIN segs}

(* One packet of `n` sealed bytes on end e's carrier, with the cover that  *)
(* goes ahead of it.  `covers` is what reaches the wire at once.           *)
seal_into(e, n, total) ==
  LET covers == send_cover(e, due[e])
      d == data(left[e], n, total)
  IN /\ left' = [left EXCEPT ![e] = d.left]
     /\ due' = [due EXCEPT ![e] = IF CoverDue(e, @) THEN "Nothing" ELSE @]
     /\ broken' = [broken EXCEPT ![e] = \/ @ \/ ~Fits(chain[e], d, n)
                                        \/ covers # << >> /\ chain[e] > 0]
     /\ chain' = [chain EXCEPT ![e] = d.left]
     /\ told' = told \cup Told(covers)

Packet(e, n, total) == Segment(e, "data", data(left[e], n, total).head, n)

------------------------------------------------------------------------------
Init ==
  /\ talker \in End /\ conn = 0 /\ remote = 0
  /\ left = [e \in End |-> 0] /\ due = [e \in End |-> "Opening"]
  /\ id = -1 /\ owed = 0
  /\ batch = << >> /\ out = << >>
  /\ wire = [e \in End |-> << >>]
  /\ chain = [e \in End |-> 0]
  /\ broken = [e \in End |-> FALSE] /\ disturbed = [e \in End |-> FALSE]
  /\ eaten = << >> /\ told = {}
  /\ bursts = 0 /\ keepalives = 0

(* The device thread: drain what is queued, plan its records.              *)
tun_to_wire_batched ==
  /\ batch = << >> /\ out = << >> /\ bursts < MaxBursts
  /\ \E lens \in SeqOf(Inner, BATCH) \ {<< >>} :
       batch' = [i \in DOMAIN lens |->
                   [len |-> lens[i] + OVERHEAD, open |-> RecordPlan(lens)[i]]]
  /\ bursts' = bursts + 1
  /\ UNCHANGED <<talker, conn, remote, writer, id, owed, out, wire, disturbed, eaten, keepalives>>

(* One packet of the burst, under one hold of the lock.                    *)
SealNext ==
  LET e == talker
      p == Head(batch)
  IN /\ batch # << >>
     /\ seal_into(e, p.len, p.open)
     /\ wire' = [wire EXCEPT ![e] = @ \o send_cover(e, due[e])]
     /\ out' = Append(out, Packet(e, p.len, p.open))
     /\ batch' = Tail(batch)
     /\ UNCHANGED <<talker, conn, remote, id, owed, disturbed, eaten, bursts, keepalives>>

(* A packet not worth carrying, or one sealing refuses: never written.     *)
Skip ==
  /\ batch # << >>
  /\ batch' = Tail(batch)
  /\ disturbed' = [disturbed EXCEPT ![talker] = TRUE]
  /\ UNCHANGED <<talker, conn, remote, writer, id, owed, out, wire, eaten, bursts, keepalives>>

(* sendmmsg takes a prefix of the burst, or none of it.                    *)
send_batch ==
  /\ batch = << >> /\ out # << >>
  /\ \E sent \in 0 .. Len(out) :
       wire' = [wire EXCEPT ![talker] = @ \o SubSeq(out, 1, sent)]
  /\ out' = << >>
  /\ UNCHANGED <<talker, conn, remote, writer, id, owed, batch, disturbed, eaten, bursts, keepalives>>

(* A keepalive of either end, sealed and transmitted: a record of its own  *)
(* if no record is open, and otherwise part of the one that is.            *)
maybe_keepalive(e) ==
  /\ keepalives < MaxKeepalives
  /\ seal_into(e, OVERHEAD, OVERHEAD)
  /\ wire' = [wire EXCEPT ![e] = @ \o Append(send_cover(e, due[e]), Packet(e, OVERHEAD, OVERHEAD))]
  /\ disturbed' = [disturbed EXCEPT ![e] = @ \/ left[e] > 0]
  /\ keepalives' = keepalives + 1
  /\ UNCHANGED <<talker, conn, remote, id, owed, batch, out, eaten, bursts>>

(* The initiator moves: a new carrier, which owes a decoy of its own.      *)
replace_carrier ==
  /\ conn < MaxMoves
  /\ conn' = conn + 1
  /\ left' = [left EXCEPT !["initiator"] = 0]
  /\ chain' = [chain EXCEPT !["initiator"] = 0]
  /\ due' = [due EXCEPT !["initiator"] = "Opening"]
  /\ disturbed' = [disturbed EXCEPT !["initiator"] = @ \/ left["initiator"] > 0]
  /\ UNCHANGED <<talker, remote, id, owed, batch, out, wire, broken, eaten, told, bursts, keepalives>>

------------------------------------------------------------------------------
(* Reading.  A segment is lost, or handled in the order it was sent.       *)

\* Mutant of Continuation: what was discarded is not taken off.
ContinuationKept(n) == owed

Continuation(n) == Max({owed - n, 0})

Lost(e) ==
  /\ wire[e] # << >>
  /\ wire' = [wire EXCEPT ![e] = Tail(@)]
  /\ UNCHANGED <<talker, conn, remote, writer, id, owed, batch, out, disturbed, eaten, bursts, keepalives>>

(* A packet that authenticated: the responder follows the peer to a new    *)
(* tuple, and owes it a decoy.  Its carrier, and the record open on it,    *)
(* stay.                                                                   *)
handle_transport(e, seg) ==
  LET fresh == e = "responder" /\ seg.conn # remote
  IN IF fresh
     THEN /\ remote' = seg.conn
          /\ due' = [due EXCEPT ![e] = "Opening"]
          /\ chain' = [chain EXCEPT ![e] = 0]
          /\ disturbed' = [disturbed EXCEPT ![e] = @ \/ left[e] > 0]
          /\ UNCHANGED <<left, broken, told>>
     ELSE UNCHANGED <<remote, writer, disturbed>>

HandleAtResponder ==
  LET seg == unwrap_record(Head(wire["initiator"]))
  IN /\ wire["initiator"] # << >>
     /\ wire' = [wire EXCEPT !["initiator"] = Tail(@)]
     /\ \/ /\ owed > 0
           /\ owed' = Continuation(seg.len)
           /\ eaten' = IF seg.kind = "rest" THEN eaten ELSE Append(eaten, seg.len)
           /\ UNCHANGED <<remote, writer, disturbed, id>>
        \/ /\ owed = 0 /\ seg.kind = "hello"
           /\ id' = seg.conn
           /\ owed' = Min({Rest, Chunk})
           /\ eaten' = << >>
           /\ UNCHANGED <<remote, writer, disturbed>>
        \/ /\ owed = 0 /\ seg.kind = "data"
           /\ handle_transport("responder", seg)
           /\ UNCHANGED <<owed, eaten, id>>
        \/ /\ owed = 0 /\ seg.kind \in {"rest", "finished"}
           /\ UNCHANGED <<remote, writer, disturbed, owed, eaten, id>>
     /\ UNCHANGED <<talker, conn, batch, out, bursts, keepalives>>

(* The answer puts the Finished on the wire at once, if the stream is      *)
(* between records, and leaves it due otherwise.                           *)
HandleAtInitiator ==
  LET seg == unwrap_record(Head(wire["responder"]))
      e == "initiator"
      fin == send_cover(e, "Finished")
  IN /\ wire["responder"] # << >>
     /\ IF seg.kind = "answer"
        THEN /\ due' = [due EXCEPT ![e] = IF fin = << >> THEN "Finished" ELSE "Nothing"]
             /\ wire' = [wire EXCEPT !["responder"] = Tail(@), ![e] = @ \o fin]
             /\ told' = told \cup Told(fin)
             /\ broken' = [broken EXCEPT ![e] = @ \/ (fin # << >> /\ chain[e] > 0)]
             /\ UNCHANGED <<left, chain>>
        ELSE /\ wire' = [wire EXCEPT !["responder"] = Tail(@)]
             /\ UNCHANGED writer
     /\ UNCHANGED <<talker, conn, remote, id, owed, batch, out, disturbed, eaten, bursts, keepalives>>

Next ==
  \/ tun_to_wire_batched \/ SealNext \/ Skip \/ send_batch
  \/ \E e \in End : maybe_keepalive(e)
  \/ replace_carrier
  \/ \E e \in End : Lost(e)
  \/ HandleAtResponder \/ HandleAtInitiator

Spec == Init /\ [][Next]_vars

------------------------------------------------------------------------------
(* An observer that walks the stream by record lengths alone finds a       *)
(* header where each record ends, as long as every burst sends the packets *)
(* it planned and nothing else writes while a record is open.              *)
ChainKept == \A e \in End : broken[e] => disturbed[e]

(* The same with no condition, which is what the comment in Endpoint::data *)
(* promises: a record left short is finished by later packets.             *)
ChainNeverBreaks == \A e \in End : ~broken[e]

(* The reader takes off every header the writer put on: the length a burst *)
(* declares is at least its first packet and at most a record's.           *)
HeadersComeOff ==
  \A e \in End : \A i \in DOMAIN wire[e] : unwrap_record(wire[e][i]).head = 0

(* A hello whose second segment is lost costs the packets after it no more *)
(* bytes than that segment had, the packet that reaches the figure aside.  *)
CoverCostBounded ==
  eaten # << >> => FoldSeq(+, 0, Front(eaten)) < Min({Rest, Chunk})

(* The stronger claim of handle_segment: it costs one packet.              *)
CoverCostsOnePacket == Len(eaten) <= 1

(* The client's Finished is written on a connection whose hello has been   *)
(* written and answered.                                                   *)
FlightsInOrder ==
  \A c \in Conns : <<"finished", c>> \in told =>
     <<"hello", c>> \in told /\ <<"answer", c>> \in told
==============================================================================
