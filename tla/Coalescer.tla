------------------------------ MODULE Coalescer ------------------------------
(***************************************************************************)
(* Writing inner packets to the device in runs: the Coalescer of paqetz-dp *)
(* gso.rs as tunnel.rs drives it (write_inner, flush_inner), and the       *)
(* kernel's segmentation of what it writes, which is external.  A packet   *)
(* is its protocol, everything in its headers that must be equal along a   *)
(* run (`flow`), its TCP sequence number and its payload, whose bytes are  *)
(* named by the packet's place in the input so that the packets the kernel *)
(* makes can be compared with the ones that arrived.                       *)
(***************************************************************************)
EXTENDS Integers, Sequences, SequencesExt, FiniteSets, FiniteSetsExt

CONSTANTS SeqSpace,       \* sequence numbers wrap here
          HeaderLen,    \* bytes of IP and L4 header
          MAX_IP_TOTAL, \* what an IPv4 total length can describe
          MaxLen, MaxPackets, MaxRefused

VARIABLES frame,        \* the first packet of the run, with every payload
          run,          \* count, gso_size, last_seq, last_payload
          pending,
          given,        \* packets delivered to write_inner, in order
          refused,      \* places of packets the device would not take
          dev,          \* packets the device has
          reading       \* a batch from the wire is being worked through

vars == <<frame, run, pending, given, refused, dev, reading>>

(* "plain" is a packet parse accepts; "odd" is a fragment, a packet with   *)
(* IP options, one that ends a stream, or another protocol.                *)
Headers ==
  [proto : {"tcp"}, flow : {1}, seq : 0 .. SeqSpace - 1] \cup
  [proto : {"tcp"}, flow : {2}, seq : {0}] \cup
  [proto : {"udp", "odd"}, flow : {1}, seq : {0}]

Bytes(place, n) == [k \in 1 .. n |-> <<place, k>>]

NoRun == [count |-> 0]

parse(p) == p.proto # "odd"

\* Mutant of continues_after: a short packet in the middle of a run.
ContinuesShort(r, b) ==
  /\ r.head.proto = b.head.proto /\ r.head.flow = b.head.flow
  /\ b.head.proto = "tcp" =>
       b.head.seq = (r.last_seq + r.last_payload) % SeqSpace
  /\ b.body # << >> /\ Len(b.body) <= r.gso_size

continues_after(r, b) ==
  /\ r.head.proto = b.head.proto /\ r.head.flow = b.head.flow
  /\ b.head.proto = "tcp" =>
       b.head.seq = (r.last_seq + r.last_payload) % SeqSpace
  /\ r.last_payload = r.gso_size
  /\ b.body # << >> /\ Len(b.body) <= r.gso_size

can_hold(p) == parse(p.head) /\ p.body # << >>

joins(p) ==
  /\ parse(p.head)
  /\ IF run.count = 0
     THEN ~pending /\ p.body # << >>
     ELSE /\ continues_after(run, p)
          /\ HeaderLen + Len(frame.body) + Len(p.body) <= MAX_IP_TOTAL

------------------------------------------------------------------------------
(* The kernel cuts a frame of several packets at gso_size, giving each the *)
(* first one's headers and, for TCP, the sequence number of its place.     *)
Segmented(f, size) ==
  LET n == (Len(f.body) + size - 1) \div size
  IN [i \in 1 .. n |->
        [head |-> IF f.head.proto = "tcp"
                  THEN [f.head EXCEPT !.seq = (@ + (i - 1) * size) % SeqSpace]
                  ELSE f.head,
         body |-> SubSeq(f.body, (i - 1) * size + 1, Min({i * size, Len(f.body)}))]]

(* What take hands over: the run, or nothing if `finish` cannot describe   *)
(* its length, in which case the frame is dropped with the run.            *)
Taken ==
  IF run.count = 1 THEN <<frame>>
  ELSE IF HeaderLen + Len(frame.body) <= MAX_IP_TOTAL
  THEN Segmented(frame, run.gso_size) ELSE << >>

PlacesOf(f) == {f.body[k][1] : k \in DOMAIN f.body}

(* A write is taken, refused because the queue is full, or fails.  A       *)
(* failure writing what was held also ends the delivery of the packet that *)
(* was to follow it.                                                       *)
Outcome == IF Cardinality(refused) < MaxRefused THEN {"ok", "full", "error"} ELSE {"ok"}
After(d, packets, o) == IF o = "ok" THEN d \o packets ELSE d
Missed(places, o) == IF o = "ok" THEN {} ELSE places

hold(p, joined) ==
  /\ pending' = TRUE
  /\ IF joined /\ run.count > 0
     THEN /\ frame' = [frame EXCEPT !.body = @ \o p.body]
          /\ run' = [run EXCEPT !.count = @ + 1, !.last_seq = p.head.seq,
                                !.last_payload = Len(p.body)]
     ELSE /\ frame' = p
          /\ run' = [count |-> 1, head |-> p.head, gso_size |-> Len(p.body),
                     last_seq |-> p.head.seq, last_payload |-> Len(p.body)]

Init ==
  /\ frame = [head |-> [proto |-> "odd", flow |-> 1, seq |-> 0], body |-> << >>]
  /\ run = NoRun /\ pending = FALSE
  /\ given = << >> /\ refused = {} /\ dev = << >> /\ reading = FALSE

(* One packet of the batch, delivered.  `o` is what became of the run it   *)
(* does not join, `one` of the packet itself when it is written alone.     *)
write_inner(p) ==
  \E o \in Outcome, one \in Outcome :
    LET held == pending /\ ~joins(p)
        dev1 == IF held THEN After(dev, Taken, o) ELSE dev
        ref1 == IF held THEN refused \cup Missed(PlacesOf(frame), o) ELSE refused
        me == {Len(given) + 1}
    IN /\ given' = Append(given, p)
       /\ IF held /\ o = "error"
          THEN /\ dev' = dev1 /\ refused' = ref1 \cup me
               /\ pending' = FALSE /\ run' = NoRun /\ UNCHANGED frame
          ELSE IF can_hold(p)
          THEN /\ hold(p, ~held)
               /\ dev' = dev1 /\ refused' = ref1
          ELSE /\ dev' = After(dev1, <<p>>, one)
               /\ refused' = ref1 \cup Missed(me, one)
               /\ pending' = FALSE /\ run' = NoRun /\ UNCHANGED frame

Deliver ==
  /\ Len(given) < MaxPackets
  /\ \E h \in Headers, n \in 0 .. MaxLen :
       /\ h.flow = 2 \/ h.proto = "odd" => n = 1
       /\ write_inner([head |-> h, body |-> Bytes(Len(given) + 1, n)])
  /\ reading' = TRUE

\* Mutant of flush_inner: a run is kept for the next read.
FlushNothing(o) == UNCHANGED <<frame, run, pending, dev, refused>>

flush_inner(o) ==
  /\ dev' = IF pending THEN After(dev, Taken, o) ELSE dev
  /\ refused' = IF pending THEN refused \cup Missed(PlacesOf(frame), o) ELSE refused
  /\ pending' = FALSE /\ run' = NoRun
  /\ UNCHANGED frame

(* The end of the batch, before the next read from the wire.               *)
EndBatch ==
  /\ reading /\ reading' = FALSE
  /\ \E o \in Outcome : flush_inner(o)
  /\ UNCHANGED given

Next == Deliver \/ EndBatch

Spec == Init /\ [][Next]_vars

------------------------------------------------------------------------------
(* What the device receives is what was delivered, in order, less what it  *)
(* refused: the kernel's segmentation undoes every merge exactly, headers, *)
(* sequence numbers and payload boundaries included, and a packet that     *)
(* cannot join a run never overtakes the run.                              *)
DeviceSeesThePackets ==
  LET wanted == SelectSeq([i \in DOMAIN given |-> [place |-> i, packet |-> given[i]]],
                          LAMBDA g : g.place \notin refused)
      got == dev \o (IF pending THEN Taken ELSE << >>)
  IN /\ Len(got) = Len(wanted)
     /\ \A i \in DOMAIN got : got[i] = wanted[i].packet

(* No packet waits on the next read: whatever a batch left held has been   *)
(* written, or refused, before this end goes back to the wire.             *)
NothingHeldWhileWaiting ==
  ~reading => Len(dev) + Cardinality(refused) = Len(given)
==============================================================================
