----------------------------- MODULE NoiseProofs -----------------------------
(***************************************************************************)
(* Proofs about a session from its handshake to the last packet it opens.  *)
(* The handshake's messages pair the two ends for any number of clients,   *)
(* attempts and copies, and any paddings.  The replay window is exact for  *)
(* every ring: any number of words, any word width, any counters; the      *)
(* argument is that the words still alive (the last WORDS of them, up to   *)
(* the one holding the highest counter) lie in different slots, so the     *)
(* ring mirrors exactly what was accepted.                                 *)
(***************************************************************************)
EXTENDS Noise, ReplayWindow, TLAPS

(* The handshake's messages.                                               *)

Msg == [kind : {1, 2}, len : Nat, e : Nat, r : Nat, static : Clients \cup {Server},
        payload : [index : Numbers, epoch : Numbers], mac1 : Clients \cup {Server}]

(* The second message of a handshake answers the first: under its          *)
(* ephemeral, to its sender, under its epoch, and at the short length if   *)
(* that is what was sent.  The session the responder kept is theirs.       *)
Replies(m, n) ==
  /\ n.kind = 1 /\ m.e = n.e /\ m.mac1 = n.static /\ m.payload.epoch = n.payload.epoch
  /\ n.len = MSG1_LEN => m.len = MSG2_LEN
Keeps(s, m, n) ==
  /\ s.e = m.e /\ s.r = m.r /\ s.epoch = n.payload.epoch
  /\ s.local_index = m.payload.index /\ s.remote_index = n.payload.index

(* An ephemeral makes one first message; and a second message is never     *)
(* without the first, nor without a session at the tunnel of its sender.   *)
FlightInv ==
  /\ starts \in Nat /\ accepts \in Nat /\ flight \subseteq Msg
  /\ \A m \in flight : 1 <= m.e /\ m.e <= starts
  /\ \A m, n \in flight : m.kind = 1 /\ n.kind = 1 /\ m.e = n.e => m = n
  /\ \A m \in flight : m.kind = 1 =>
       m.static \in Clients /\ (Predates(m.static) => m.len = MSG1_LEN)
  /\ \A m \in flight : m.kind = 2 =>
       /\ m.len \in MSG2_LEN .. MSG2_LEN + MAX_PAD
       /\ \E n \in flight : Replies(m, n) /\ \E s \in theirs[n.static] : Keeps(s, m, n)

(* A client holds its last attempt until it has completed it, and the      *)
(* first message of what it holds is its own.                              *)
ClientInv ==
  /\ build \in [Clients -> {"plain", "pads"}]
  /\ DOMAIN trying = Clients /\ DOMAIN mine = Clients /\ last \in [Clients -> Nat]
  /\ \A c \in Clients :
       /\ last[c] <= starts
       /\ trying[c].e # 0 => trying[c].e = last[c]
       /\ last[c] # 0 => trying[c].e = last[c] \/ mine[c].e = last[c]
       /\ trying[c].e # 0 =>
            \E n \in flight :
              /\ n.kind = 1 /\ n.e = trying[c].e /\ n.static = c
              /\ n.payload = [index |-> trying[c].local_index, epoch |-> trying[c].epoch]

(* A session at a tunnel comes of an attempt that was made.                *)
TunnelInv ==
  /\ DOMAIN theirs = Clients
  /\ \A c \in Clients : \A s \in theirs[c] : s.e \in Nat /\ s.e <= starts
  /\ SessionsPair

NoiseInv == FlightInv /\ ClientInv /\ TunnelInv

------------------------------------------------------------------------------
(* The invariant holds before the first attempt.                           *)
LEMMA NoiseInitial == NoiseInit => NoiseInv
BY DEF NoiseInit, NoiseInv, FlightInv, ClientInv, TunnelInv, SessionsPair, None

(* The reply to a client's last attempt opens for it: the first message it *)
(* answers is the one the client holds.                                    *)
LEMMA Completes == ASSUME NoiseAssumption, NoiseInv PROVE ReplyCompletes
<1> SUFFICES ASSUME NEW c \in Clients, NEW m \in flight, m.kind = 2, m.e = last[c], mine[c].e # m.e
             PROVE  Reply(c, m) /\ finish(c, m)
  BY DEF ReplyCompletes
<1>1. m.e \in Nat /\ m.e # 0
  BY DEF NoiseInv, FlightInv, Msg
<1>2. trying[c].e = m.e /\ trying[c].e # 0
  BY <1>1, Zenon DEF NoiseInv, ClientInv
<1>3. PICK n \in flight : /\ n.kind = 1 /\ n.e = m.e /\ n.static = c
                          /\ n.payload = [index |-> trying[c].local_index, epoch |-> trying[c].epoch]
  BY <1>2 DEF NoiseInv, ClientInv
<1>4. PICK k \in flight : Replies(m, k)
  BY DEF NoiseInv, FlightInv
<1>5. k = n
  BY <1>3, <1>4 DEF NoiseInv, FlightInv, Replies
<1>6. finish(c, m)
  BY <1>2, <1>3, <1>4, <1>5 DEF finish, Replies
<1>7. m.len \in MSG2_LEN .. MSG2_LEN + MAX_PAD /\ (Predates(c) => m.len = MSG2_LEN)
  BY <1>3, <1>4, <1>5 DEF NoiseInv, FlightInv, Replies
<1>8. Reply(c, m)
  BY <1>3, <1>4, <1>5, <1>7 DEF Reply, Replies, verify_mac1, NoiseAssumption
<1>9. QED
  BY <1>6, <1>8

(* A new attempt, under an ephemeral nobody has seen (Initiator::start).   *)
LEMMA StartInv == ASSUME NoiseAssumption, NoiseInv, NEW c \in Clients, start(c) PROVE NoiseInv'
<1>1. /\ starts \in Nat /\ starts' = starts + 1
      /\ UNCHANGED <<build, accepts, mine, theirs>> /\ last' = [last EXCEPT ![c] = starts']
  BY DEF start, NoiseInv, FlightInv
<1>2. PICK index \in Numbers, epoch \in Numbers, pad \in (IF Predates(c) THEN {0} ELSE handshake_pad) :
        /\ flight' = flight \cup
             {seal_mac1(Server, [kind |-> 1, len |-> MSG1_LEN + pad, e |-> starts', r |-> 0,
                                 static |-> c, payload |-> pack_payload(index, epoch),
                                 mac1 |-> "none"])}
        /\ trying' = [trying EXCEPT ![c] = [e |-> starts', local_index |-> index, epoch |-> epoch]]
  BY Zenon DEF start
<1> DEFINE new == [kind |-> 1, len |-> MSG1_LEN + pad, e |-> starts + 1, r |-> 0, static |-> c,
                   payload |-> [index |-> index, epoch |-> epoch], mac1 |-> Server]
<1>3. flight' = flight \cup {new}
  BY <1>1, <1>2 DEF seal_mac1, pack_payload
<1>4. new \in Msg /\ (Predates(c) => new.len = MSG1_LEN)
  BY <1>1, <1>2 DEF Msg, NoiseAssumption, handshake_pad
<1>5. new.kind = 1 /\ new.e = starts + 1 /\ new.static = c
      /\ new.payload = [index |-> index, epoch |-> epoch]
  OBVIOUS
<1> HIDE DEF new
<1>6. \A m \in flight : m.e \in Nat /\ 1 <= m.e /\ m.e <= starts
  BY DEF NoiseInv, FlightInv, Msg
<1>7. FlightInv'
  <2>1. starts' \in Nat /\ accepts' \in Nat /\ flight' \subseteq Msg
    BY <1>1, <1>3, <1>4 DEF NoiseInv, FlightInv
  <2>2. \A m \in flight' : 1 <= m.e /\ m.e <= starts'
    BY <1>1, <1>3, <1>5, <1>6
  <2>3. \A m, n \in flight' : m.kind = 1 /\ n.kind = 1 /\ m.e = n.e => m = n
    BY <1>1, <1>3, <1>5, <1>6 DEF NoiseInv, FlightInv
  <2>4. \A m \in flight' : m.kind = 1 =>
          m.static \in Clients /\ (Predates(m.static)' => m.len = MSG1_LEN)
    BY <1>1, <1>3, <1>4, <1>5 DEF NoiseInv, FlightInv, Predates
  <2>5. \A m \in flight' : m.kind = 2 =>
          /\ m.len \in MSG2_LEN .. MSG2_LEN + MAX_PAD
          /\ \E n \in flight' : Replies(m, n) /\ \E s \in theirs'[n.static] : Keeps(s, m, n)
    BY <1>1, <1>3, <1>5 DEF NoiseInv, FlightInv
  <2>6. QED
    BY <2>1, <2>2, <2>3, <2>4, <2>5 DEF FlightInv
<1>8. ClientInv'
  <2>1. /\ last' \in [Clients -> Nat] /\ last'[c] = starts + 1
        /\ \A d \in Clients \ {c} : last'[d] = last[d]
    BY <1>1 DEF NoiseInv, ClientInv
  <2>2. /\ DOMAIN trying' = Clients /\ trying'[c] = [e |-> starts', local_index |-> index, epoch |-> epoch]
        /\ \A d \in Clients \ {c} : trying'[d] = trying[d]
    BY <1>2 DEF NoiseInv, ClientInv
  <2>3. trying'[c].e = starts + 1 /\ trying'[c].local_index = index /\ trying'[c].epoch = epoch
    BY <1>1, <2>2
  <2>4. ASSUME NEW d \in Clients \ {c}
        PROVE  /\ last'[d] <= starts'
               /\ trying'[d].e # 0 => trying'[d].e = last'[d]
               /\ last'[d] # 0 => trying'[d].e = last'[d] \/ mine'[d].e = last'[d]
               /\ trying'[d].e # 0 =>
                    \E n \in flight' :
                      /\ n.kind = 1 /\ n.e = trying'[d].e /\ n.static = d
                      /\ n.payload = [index |-> trying'[d].local_index, epoch |-> trying'[d].epoch]
    BY <1>1, <1>3, <2>1, <2>2 DEF NoiseInv, ClientInv
  <2>5. /\ last'[c] <= starts' /\ trying'[c].e = last'[c]
        /\ \E n \in flight' :
             /\ n.kind = 1 /\ n.e = trying'[c].e /\ n.static = c
             /\ n.payload = [index |-> trying'[c].local_index, epoch |-> trying'[c].epoch]
    BY <1>1, <1>3, <1>5, <2>1, <2>3
  <2>6. QED
    BY <1>1, <2>1, <2>2, <2>4, <2>5 DEF NoiseInv, ClientInv
<1>9. TunnelInv'
  <2>1. \A d \in Clients : \A s \in theirs[d] : s.e \in Nat /\ s.e <= starts' /\ s.e # new.e
    BY <1>1, <1>5 DEF NoiseInv, TunnelInv
  <2>2. SessionsPair'
    BY <1>1, <1>3, <2>1 DEF NoiseInv, TunnelInv, SessionsPair
  <2>3. QED
    BY <1>1, <2>1, <2>2 DEF NoiseInv, TunnelInv
<1>10. QED
  BY <1>7, <1>8, <1>9 DEF NoiseInv

(* A client's process starts again: what it held is forgotten.             *)
LEMMA RestartInv == ASSUME NoiseInv, NEW c \in Clients, Restart(c) PROVE NoiseInv'
<1>1. /\ UNCHANGED <<starts, accepts, flight, theirs>>
      /\ build' \in [Clients -> {"plain", "pads"}] /\ DOMAIN trying' = Clients /\ DOMAIN mine' = Clients
      /\ last' \in [Clients -> Nat]
      /\ build'[c] = "pads" /\ trying'[c] = None /\ mine'[c] = None /\ last'[c] = 0
      /\ \A d \in Clients \ {c} : /\ build'[d] = build[d] /\ trying'[d] = trying[d]
                                  /\ mine'[d] = mine[d] /\ last'[d] = last[d]
  BY DEF Restart, NoiseInv, ClientInv
<1>2. FlightInv'
  BY <1>1 DEF NoiseInv, FlightInv, Predates
<1>3. ClientInv'
  <2>1. None.e = 0
    BY DEF None
  <2>2. QED
    BY <1>1, <2>1 DEF NoiseInv, FlightInv, ClientInv
<1>4. TunnelInv'
  BY <1>1 DEF NoiseInv, TunnelInv, SessionsPair
<1>5. QED
  BY <1>2, <1>3, <1>4 DEF NoiseInv

(* A tunnel answers an attempt of its own client (handle_msg1, accept).    *)
LEMMA HandleMsg1Inv ==
  ASSUME NoiseAssumption, NoiseInv, NEW t \in Clients, NEW m \in flight, handle_msg1(t, m)
  PROVE  NoiseInv'
<1>1. m.kind = 1 /\ m.static = t /\ UNCHANGED <<build, starts, trying, last, mine>>
  BY DEF handle_msg1, read, Authorized
<1>2. PICK index \in Numbers, pad \in ReplyPad(m) : accept(t, m, index, pad)
  BY DEF handle_msg1
<1> DEFINE new == [kind |-> 2, len |-> MSG2_LEN + pad, e |-> m.e, r |-> accepts + 1, static |-> Server,
                   payload |-> [index |-> index, epoch |-> m.payload.epoch], mac1 |-> t]
           own == [e |-> m.e, r |-> accepts + 1, local_index |-> index,
                   remote_index |-> m.payload.index, epoch |-> m.payload.epoch]
<1>3. accepts \in Nat /\ accepts' = accepts + 1 /\ m \in Msg
  BY <1>2 DEF accept, NoiseInv, FlightInv
<1>4. flight' = flight \cup {new}
  BY <1>1, <1>2, <1>3 DEF accept, seal_mac1, pack_payload
<1>5. /\ DOMAIN theirs' = Clients /\ theirs'[t] = theirs[t] \cup {own}
      /\ \A d \in Clients \ {t} : theirs'[d] = theirs[d]
  BY <1>2, <1>3 DEF accept, NoiseInv, TunnelInv
<1>6. pad \in 0 .. MAX_PAD /\ (m.len = MSG1_LEN => pad = 0)
  BY <1>3 DEF ReplyPad, handshake_pad, Msg, NoiseAssumption
<1>7. /\ new \in Msg /\ new.kind = 2 /\ new.e = m.e
      /\ new.len \in MSG2_LEN .. MSG2_LEN + MAX_PAD
  BY <1>3, <1>6 DEF Msg, NoiseAssumption
<1>8. Replies(new, m) /\ Keeps(own, new, m)
  BY <1>1, <1>6 DEF Replies, Keeps, NoiseAssumption
<1>9. own.e = m.e /\ own.e \in Nat /\ own.e <= starts
  BY <1>3, Zenon DEF NoiseInv, FlightInv, Msg
<1> HIDE DEF new, own
<1>10. FlightInv'
  <2>1. \A n \in flight : n.kind = 1 => n.static \in Clients
    BY DEF NoiseInv, FlightInv
  <2>2. \A c \in Clients : theirs[c] \subseteq theirs'[c]
    BY <1>5, Zenon
  <2>3. ASSUME NEW k \in flight', k.kind = 2
        PROVE  /\ k.len \in MSG2_LEN .. MSG2_LEN + MAX_PAD
               /\ \E n \in flight' : Replies(k, n) /\ \E s \in theirs'[n.static] : Keeps(s, k, n)
    <3>1. CASE k \in flight
      <4>1. PICK n \in flight : Replies(k, n) /\ \E s \in theirs[n.static] : Keeps(s, k, n)
        BY <2>3, <3>1 DEF NoiseInv, FlightInv
      <4>2. n.static \in Clients
        BY <2>1, <4>1 DEF Replies
      <4>3. QED
        BY <1>4, <2>2, <2>3, <3>1, <4>1, <4>2 DEF NoiseInv, FlightInv
    <3>2. CASE k = new
      BY <1>1, <1>4, <1>5, <1>7, <1>8, <3>2
    <3>3. QED
      BY <1>4, <3>1, <3>2
  <2>4. flight' \subseteq Msg /\ \A k \in flight' : 1 <= k.e /\ k.e <= starts
    BY <1>4, <1>7 DEF NoiseInv, FlightInv
  <2>5. \A k \in flight' : k.kind = 1 => k \in flight
    BY <1>4, <1>7
  <2>6. starts' = starts /\ accepts' \in Nat /\ build' = build
    BY <1>1, <1>3
  <2>7. \A k, n \in flight' : k.kind = 1 /\ n.kind = 1 /\ k.e = n.e => k = n
    BY <2>5 DEF NoiseInv, FlightInv
  <2>8. \A k \in flight' : k.kind = 1 =>
          k.static \in Clients /\ (Predates(k.static)' => k.len = MSG1_LEN)
    BY <2>5, <2>6 DEF NoiseInv, FlightInv, Predates
  <2>9. QED
    BY <2>3, <2>4, <2>6, <2>7, <2>8, Zenon DEF NoiseInv, FlightInv
<1>11. ClientInv'
  BY <1>1, <1>4 DEF NoiseInv, ClientInv
<1>12. TunnelInv'
  <2>1. \A c \in Clients : \A s \in theirs'[c] : s.e \in Nat /\ s.e <= starts'
    BY <1>1, <1>5, <1>9 DEF NoiseInv, TunnelInv
  <2>2. \A c \in Clients : \A k \in flight', s \in theirs'[c] : k.kind = 1 /\ k.e = s.e => k.static = c
    <3>1. \A k \in flight : k.kind = 1 /\ k.e = m.e => k.static = t
      BY <1>1 DEF NoiseInv, FlightInv
    <3>2. QED
      BY <1>4, <1>5, <1>7, <1>9, <3>1 DEF NoiseInv, TunnelInv, SessionsPair
  <2>3. \A c \in Clients : mine'[c] # None =>
          \E s \in theirs'[c] :
            /\ s.e = mine'[c].e /\ s.r = mine'[c].r /\ s.epoch = mine'[c].epoch
            /\ s.local_index = mine'[c].remote_index /\ s.remote_index = mine'[c].local_index
    BY <1>1, <1>5 DEF NoiseInv, TunnelInv, SessionsPair
  <2>4. QED
    BY <1>5, <2>1, <2>2, <2>3 DEF TunnelInv, SessionsPair
<1>13. QED
  BY <1>10, <1>11, <1>12 DEF NoiseInv

(* A client takes a reply to the attempt it holds: the session at the      *)
(* tunnel is of the same first message (handle_msg2, finish).              *)
LEMMA HandleMsg2Inv ==
  ASSUME NoiseAssumption, NoiseInv, NEW c \in Clients, NEW m \in flight, handle_msg2(c, m)
  PROVE  NoiseInv'
<1> DEFINE own == [e |-> m.e, r |-> m.r, local_index |-> trying[c].local_index,
                   remote_index |-> m.payload.index, epoch |-> trying[c].epoch]
<1>1. m.kind = 2 /\ m.e = trying[c].e /\ UNCHANGED <<build, starts, accepts, flight, last, theirs>>
  BY DEF handle_msg2, finish
<1>2. /\ DOMAIN trying' = Clients /\ DOMAIN mine' = Clients /\ trying'[c] = None /\ mine'[c] = own
      /\ \A d \in Clients \ {c} : trying'[d] = trying[d] /\ mine'[d] = mine[d]
  BY DEF handle_msg2, NoiseInv, ClientInv
<1>3. m.e \in Nat /\ m.e # 0
  BY DEF NoiseInv, FlightInv, Msg
<1>4. PICK n \in flight : /\ n.kind = 1 /\ n.e = m.e /\ n.static = c
                          /\ n.payload = [index |-> trying[c].local_index, epoch |-> trying[c].epoch]
  BY <1>1, <1>3 DEF NoiseInv, ClientInv
<1>5. PICK k \in flight : Replies(m, k) /\ \E s \in theirs[k.static] : Keeps(s, m, k)
  BY <1>1, Zenon DEF NoiseInv, FlightInv
<1>6. k = n
  BY <1>4, <1>5 DEF NoiseInv, FlightInv, Replies
<1>7. \E s \in theirs[c] :
        /\ s.e = own.e /\ s.r = own.r /\ s.epoch = own.epoch
        /\ s.local_index = own.remote_index /\ s.remote_index = own.local_index
  BY <1>4, <1>5, <1>6 DEF Keeps
<1>8. None.e = 0 /\ own.e = m.e /\ m.e = last[c]
  <2>1. None.e = 0 /\ own.e = m.e
    BY DEF None
  <2>2. trying[c].e # 0
    BY <1>1, <1>3
  <2>3. m.e = last[c]
    BY <1>1, <2>2, Zenon DEF NoiseInv, ClientInv
  <2>4. QED
    BY <2>1, <2>3
<1> HIDE DEF own
<1>9. FlightInv'
  BY <1>1 DEF NoiseInv, FlightInv, Predates
<1>10. ClientInv'
  <2>1. trying'[c].e = 0 /\ mine'[c].e = last'[c]
    BY <1>1, <1>2, <1>8
  <2>2. ASSUME NEW d \in Clients \ {c}
        PROVE  /\ last'[d] <= starts'
               /\ trying'[d].e # 0 => trying'[d].e = last'[d]
               /\ last'[d] # 0 => trying'[d].e = last'[d] \/ mine'[d].e = last'[d]
               /\ trying'[d].e # 0 =>
                    \E j \in flight' :
                      /\ j.kind = 1 /\ j.e = trying'[d].e /\ j.static = d
                      /\ j.payload = [index |-> trying'[d].local_index, epoch |-> trying'[d].epoch]
    BY <1>1, <1>2 DEF NoiseInv, ClientInv
  <2>3. last'[c] <= starts'
    BY <1>1, Zenon DEF NoiseInv, ClientInv
  <2>4. build' \in [Clients -> {"plain", "pads"}] /\ last' \in [Clients -> Nat]
    BY <1>1 DEF NoiseInv, ClientInv
  <2>5. QED
    BY <1>2, <2>1, <2>2, <2>3, <2>4 DEF ClientInv
<1>11. TunnelInv'
  BY <1>1, <1>2, <1>7 DEF NoiseInv, TunnelInv, SessionsPair
<1>12. QED
  BY <1>9, <1>10, <1>11 DEF NoiseInv

------------------------------------------------------------------------------
(* A client's session has its other half at its own tunnel and at no       *)
(* other, and the reply to its last attempt completes it whenever it       *)
(* comes: for any number of clients that share a server's identity and a   *)
(* path, any copies and any mixture of builds (handle_msg1, handle_msg2).  *)
THEOREM HandshakesComplete == ASSUME NoiseAssumption PROVE NoiseSpec => []HandshakesPair
<1>1. NoiseInv /\ [NoiseNext]_noiseVars => NoiseInv'
  <2> SUFFICES ASSUME NoiseInv, [NoiseNext]_noiseVars PROVE NoiseInv'
    OBVIOUS
  <2>1. CASE UNCHANGED noiseVars
    BY <2>1 DEF noiseVars, NoiseInv, FlightInv, ClientInv, TunnelInv, SessionsPair, Predates
  <2>2. QED
    BY <2>1, StartInv, RestartInv, HandleMsg1Inv, HandleMsg2Inv DEF NoiseNext
<1>2. NoiseInv => HandshakesPair
  BY Completes DEF NoiseInv, TunnelInv, HandshakesPair
<1>3. QED
  BY NoiseInitial, <1>1, <1>2, PTL DEF NoiseSpec

------------------------------------------------------------------------------
(* The replay window.                                                      *)

\* Division by a positive constant, as the code's `/` and `%` on u64.
LEMMA DivMod ==
    ASSUME NEW B \in Nat \ {0}, NEW c \in Nat
    PROVE  /\ c \div B \in Nat
           /\ c % B \in 0 .. B - 1
           /\ c = B * (c \div B) + (c % B)
  OBVIOUS

\* A counter is determined by its word and its bit.
LEMMA WordAndBit ==
    ASSUME NEW B \in Nat \ {0}, NEW c \in Nat, NEW d \in Nat,
           c \div B = d \div B, c % B = d % B
    PROVE  c = d
  BY DivMod, Zenon

\* A later counter is in the same word of the window or in a later one.
LEMMA DivMonotone ==
    ASSUME NEW B \in Nat \ {0}, NEW c \in Nat, NEW d \in Nat, c <= d
    PROVE  c \div B <= d \div B
  OBVIOUS

\* Whole turns of the ring are at least one turn long.
LEMMA Multiple ==
    ASSUME NEW W \in Nat \ {0}, NEW q \in Nat, q >= 1
    PROVE  W * q >= W
  OBVIOUS

\* Two word numbers less than W apart never share a slot of a ring of W.
LEMMA SlotsDistinct ==
    ASSUME NEW W \in Nat \ {0}, NEW a \in Nat, NEW b \in Nat, a < b, b < a + W
    PROVE  a % W # b % W
  <1> SUFFICES ASSUME a % W = b % W PROVE FALSE
    OBVIOUS
  <1> DEFINE p == a \div W  q == b \div W
  <1>1. p \in Nat /\ q \in Nat /\ a = W * p + (a % W) /\ b = W * q + (b % W)
    BY DivMod, Zenon
  <1>2. a % W \in Nat /\ b % W \in Nat
    BY DivMod
  <1>. HIDE DEF p, q
  <1>3. W * q - W * p < W /\ W * p < W * q
    BY <1>1, <1>2
  <1>4. CASE q <= p
    <2>1. W * q <= W * p
      BY <1>1, <1>4
    <2> QED BY <2>1, <1>3, <1>1
  <1>5. CASE q > p
    <2>1. W * (q - p) >= W
      BY <1>1, <1>5, Multiple
    <2>2. W * (q - p) = W * q - W * p
      BY <1>1
    <2> QED BY <2>1, <2>2, <1>3, <1>1
  <1> QED BY <1>4, <1>5, <1>1

\* Whole turns of the ring do not change the slot of a word.
LEMMA Remainder ==
    ASSUME NEW W \in Nat \ {0}, NEW k \in Nat, NEW r \in 0 .. W - 1
    PROVE  (W * k + r) % W = r
  <1> DEFINE n == W * k + r  q == n \div W  s == n % W
  <1>1. n \in Nat
    OBVIOUS
  <1>2. q \in Nat /\ s \in 0 .. W - 1 /\ n = W * q + s
    BY <1>1, DivMod, Zenon
  <1>. HIDE DEF q, s
  <1>3. CASE q < k
    <2>1. W * (k - q) >= W /\ W * (k - q) = W * k - W * q
      BY <1>2, <1>3, Multiple
    <2> QED BY <2>1, <1>2
  <1>4. CASE q > k
    <2>1. W * (q - k) >= W /\ W * (q - k) = W * q - W * k
      BY <1>2, <1>4, Multiple
    <2> QED BY <2>1, <1>2
  <1>5. CASE q = k
    BY <1>2, <1>5 DEF s
  <1> QED BY <1>2, <1>3, <1>4, <1>5

\* Being at most WINDOW_SIZE behind keeps a counter's word among the last W.
LEMMA WindowInsideRing ==
    ASSUME NEW B \in Nat \ {0}, NEW W \in Nat \ {0}, NEW c \in Nat, NEW h \in Nat,
           h <= c + (W * B - B)
    PROVE  h \div B < (c \div B) + W
  <1> DEFINE p == c \div B  q == h \div B
  <1>1. /\ p \in Nat /\ q \in Nat
        /\ c = B * p + (c % B) /\ h = B * q + (h % B)
        /\ c % B \in 0 .. B - 1 /\ h % B \in 0 .. B - 1
    BY DivMod, Zenon
  <1>. HIDE DEF p, q
  <1> SUFFICES ASSUME q >= p + W PROVE FALSE
    BY <1>1 DEF p, q
  <1>2. B * q >= B * (p + W)
    BY <1>1
  <1>3. B * (p + W) = B * p + W * B
    BY <1>1
  <1>4. W * B \in Nat /\ B * p \in Nat /\ B * q \in Nat
    BY <1>1
  <1> QED BY <1>1, <1>2, <1>3, <1>4

-----------------------------------------------------------------------------
\* Membership of a counter's bit in an arbitrary map, the body of is_set.
BitIn(map, d) == (d % BITS_PER_WORD) \in map[word_index(WordOf(d))]

\* Every counter has a word, a slot of the ring and a bit in it.
LEMMA Folding ==
    ASSUME NEW c \in Nat
    PROVE  /\ WordOf(c) \in Nat
           /\ word_index(WordOf(c)) \in Slots
           /\ c % BITS_PER_WORD \in Bits
  <1>1. WordOf(c) \in Nat /\ c % BITS_PER_WORD \in Bits
    BY DivMod, ReplayAssumption, Zenon DEF WordOf, Bits
  <1>2. \A w \in Nat : w % WORDS \in 0 .. WORDS - 1
    BY DivMod, ReplayAssumption
  <1> QED BY <1>1, <1>2 DEF word_index, Slots

\* set(c) adds the bit of c and no other, as far as words less than a ring
\* apart can tell.
LEMMA SetAddsOneBit ==
    ASSUME NEW map \in [Slots -> SUBSET Bits], NEW c \in Nat, NEW d \in Nat,
           WordOf(d) < WordOf(c) + WORDS, WordOf(c) < WordOf(d) + WORDS
    PROVE  /\ WithBit(map, c) \in [Slots -> SUBSET Bits]
           /\ BitIn(WithBit(map, c), d) <=> BitIn(map, d) \/ d = c
  <1>1. /\ word_index(WordOf(c)) \in Slots /\ c % BITS_PER_WORD \in Bits
        /\ word_index(WordOf(d)) \in Slots /\ d % BITS_PER_WORD \in Bits
        /\ WordOf(c) \in Nat /\ WordOf(d) \in Nat
    BY Folding
  <1>2. WithBit(map, c) \in [Slots -> SUBSET Bits]
    BY <1>1 DEF WithBit
  <1>3. word_index(WordOf(c)) = word_index(WordOf(d)) => WordOf(c) = WordOf(d)
    <2>1. ASSUME WordOf(c) < WordOf(d)
          PROVE  word_index(WordOf(c)) # word_index(WordOf(d))
      BY <1>1, <2>1, SlotsDistinct, ReplayAssumption DEF word_index
    <2>2. ASSUME WordOf(d) < WordOf(c)
          PROVE  word_index(WordOf(c)) # word_index(WordOf(d))
      BY <1>1, <2>2, SlotsDistinct, ReplayAssumption DEF word_index
    <2> QED BY <1>1, <2>1, <2>2
  <1>4. WordOf(c) = WordOf(d) /\ c % BITS_PER_WORD = d % BITS_PER_WORD => d = c
    BY WordAndBit, ReplayAssumption, Zenon DEF WordOf
  <1>5. CASE word_index(WordOf(c)) = word_index(WordOf(d))
    <2>1. WithBit(map, c)[word_index(WordOf(d))]
             = map[word_index(WordOf(d))] \cup {c % BITS_PER_WORD}
      BY <1>1, <1>5 DEF WithBit
    <2> QED BY <1>2, <1>3, <1>4, <1>5, <2>1 DEF BitIn
  <1>6. CASE word_index(WordOf(c)) # word_index(WordOf(d))
    <2>1. WithBit(map, c)[word_index(WordOf(d))] = map[word_index(WordOf(d))]
      BY <1>1, <1>6 DEF WithBit
    <2> QED BY <1>2, <1>6, <2>1 DEF BitIn
  <1> QED BY <1>5, <1>6

\* Moving the high-water mark to c clears every word it passes and keeps every
\* older one that stays in the ring.
LEMMA ClearingIsExact ==
    ASSUME bitmap \in [Slots -> SUBSET Bits], highest \in Nat,
           NEW c \in Nat, c > highest, NEW d \in Nat,
           WordOf(d) <= WordOf(c), WordOf(c) < WordOf(d) + WORDS
    PROVE  /\ Cleared(c) \in [Slots -> SUBSET Bits]
           /\ WordOf(d) > WordOf(highest) => ~BitIn(Cleared(c), d)
           /\ WordOf(d) <= WordOf(highest) => (BitIn(Cleared(c), d) <=> is_set(d))
  <1> DEFINE old == WordOf(highest)  new == WordOf(c)  w == WordOf(d)
             n == IF new - old < WORDS THEN new - old ELSE WORDS
  <1>1. /\ old \in Nat /\ new \in Nat /\ w \in Nat /\ word_index(w) \in Slots
        /\ WORDS \in Nat \ {0}
    BY Folding, ReplayAssumption
  <1>2. old <= new
    BY DivMonotone, ReplayAssumption DEF WordOf
  <1>3. Skipped(c) = {word_index(old + i) : i \in 1 .. n}
    BY DEF Skipped
  <1>4. Cleared(c) \in [Slots -> SUBSET Bits]
    BY DEF Cleared
  <1>5. Cleared(c)[word_index(w)]
           = IF word_index(w) \in Skipped(c) THEN {} ELSE bitmap[word_index(w)]
    BY <1>1 DEF Cleared
  <1>. HIDE DEF old, new, w
  <1>6. w <= new /\ new < w + WORDS
    BY DEF w, new
  <1>7. ASSUME w > old PROVE word_index(w) \in Skipped(c)
    <2>1. CASE new - old <= WORDS
      <3>1. w - old \in 1 .. n /\ w = old + (w - old)
        BY <1>1, <1>2, <1>6, <1>7, <2>1
      <3> QED BY <1>3, <3>1
    <2>2. CASE new - old > WORDS
      <3>1. n = WORDS
        BY <1>1, <1>2, <2>2
      <3>2. PICK i \in 1 .. WORDS : (old + i) % WORDS = w % WORDS
        <4> DEFINE r == w % WORDS  s == old % WORDS
                   i == IF r > s THEN r - s ELSE r + WORDS - s
        <4>1. r \in 0 .. WORDS - 1 /\ s \in 0 .. WORDS - 1
          BY <1>1, DivMod
        <4>2. i \in 1 .. WORDS
          BY <4>1, <1>1
        <4>3. (old + i) % WORDS = r
          <5>1. old = WORDS * (old \div WORDS) + s /\ old \div WORDS \in Nat
            BY <1>1, DivMod, Zenon
          <5> HIDE DEF s, r
          <5>2. old + i = WORDS * (old \div WORDS) + r
                 \/ old + i = WORDS * (old \div WORDS + 1) + r
            BY <5>1, <4>1, <1>1
          <5>3. \A k \in Nat : (WORDS * k + r) % WORDS = r
            BY <4>1, <1>1, Remainder
          <5> QED BY <5>1, <5>2, <5>3
        <4> QED BY <4>2, <4>3
      <3> QED BY <1>3, <3>1, <3>2 DEF word_index
    <2> QED BY <2>1, <2>2, <1>1
  <1>8. ASSUME w <= old PROVE word_index(w) \notin Skipped(c)
    <2> SUFFICES ASSUME NEW i \in 1 .. n PROVE word_index(old + i) # word_index(w)
      BY <1>3
    <2>1. w < old + i /\ old + i < w + WORDS /\ old + i \in Nat
      BY <1>1, <1>2, <1>6, <1>8
    <2> QED BY <2>1, <1>1, SlotsDistinct, Zenon DEF word_index
  <1> QED BY <1>1, <1>4, <1>5, <1>7, <1>8 DEF BitIn, is_set, old, w

-----------------------------------------------------------------------------
RingInv == TypeOK /\ RingMirrorsAccepted

\* The counters mark() was given are those the abstract filter has taken.
LEMMA AcceptedCounters == accepted \subseteq Nat /\ Filter!Taken = accepted
  BY ReplayAssumption, Zenon DEF accepted, Filter!Taken

\* open() adds the counter it returns to the accepted ones.
LEMMA OpenAccepts ==
    ASSUME TypeOK, NEW c \in Counters, OpenGenuine(c)
    PROVE  /\ taken' \in [Counters -> Nat]
           /\ accepted' = accepted \cup {c} /\ taken' \in [Counters -> Nat]
  <1>1. taken' = [taken EXCEPT ![c] = @ + 1] /\ taken \in [Counters -> Nat]
    BY DEF OpenGenuine, TypeOK
  <1>2. \A d \in Counters : taken'[d] > 0 <=> taken[d] > 0 \/ d = c
    BY <1>1
  <1> QED BY <1>1, <1>2 DEF accepted

\* A new window is empty and has accepted nothing.
LEMMA RingInitial == Init => RingInv
  <1> SUFFICES ASSUME Init PROVE RingInv
    OBVIOUS
  <1>1. TypeOK
    BY Zenon DEF Init, TypeOK
  <1>2. ~started /\ accepted = {} /\ bitmap = [s \in Slots |-> {}]
    BY DEF Init, accepted
  <1>3. RingMirrorsAccepted
    BY <1>2, Zenon DEF RingMirrorsAccepted
  <1> QED BY <1>1, <1>3 DEF RingInv

\* The first counter a session accepts.
LEMMA FirstCommit ==
    ASSUME RingInv, NEW c \in Counters, OpenGenuine(c), ~started
    PROVE  RingInv'
  <1>1. /\ bitmap = [s \in Slots |-> {}] /\ accepted = {} /\ bitmap \in [Slots -> SUBSET Bits]
        /\ highest' = c /\ started' = TRUE /\ bitmap' = WithBit(bitmap, c)
        /\ accepted' = {c} /\ c \in Nat /\ taken' \in [Counters -> Nat]
    BY OpenAccepts, AcceptedCounters, ReplayAssumption, Zenon DEF RingInv, TypeOK, RingMirrorsAccepted, OpenGenuine, commit
  <1>2. WordOf(c) \in Nat /\ WORDS \in Nat \ {0}
    BY <1>1, Folding, ReplayAssumption
  <1>3. TypeOK'
    BY <1>1, <1>2, SetAddsOneBit DEF TypeOK
  <1>4. ASSUME NEW d \in Counters, Live(WordOf(d))'
        PROVE  is_set(d)' <=> d \in accepted'
    <2>1. d \in Nat /\ WordOf(d) \in Nat
      BY Folding, ReplayAssumption
    <2>2. WordOf(d) <= WordOf(c) /\ WordOf(c) < WordOf(d) + WORDS
      BY <1>1, <1>4 DEF Live, WordOf
    <2>3. BitIn(bitmap', d) <=> BitIn(bitmap, d) \/ d = c
      BY <1>1, <1>2, <2>1, <2>2, SetAddsOneBit
    <2>4. ~BitIn(bitmap, d)
      BY <1>1, <2>1, Folding DEF BitIn
    <2>5. is_set(d)' <=> BitIn(bitmap', d)
      BY DEF is_set, BitIn, WordOf, word_index
    <2> QED BY <1>1, <2>3, <2>4, <2>5
  <1> QED BY <1>1, <1>3, <1>4 DEF RingInv, RingMirrorsAccepted

\* A counter beyond the mark: the words skipped over are recycled.
LEMMA AdvancingCommit ==
    ASSUME RingInv, NEW c \in Counters, OpenGenuine(c), started, c > highest
    PROVE  RingInv'
  <1>1. /\ bitmap \in [Slots -> SUBSET Bits] /\ highest \in Nat /\ c \in Nat
        /\ highest' = c /\ started' = TRUE /\ bitmap' = WithBit(Cleared(c), c)
        /\ accepted \subseteq Nat
        /\ \A a \in accepted : a <= highest
        /\ \A d \in Counters : Live(WordOf(d)) => (is_set(d) <=> d \in accepted)
    BY AcceptedCounters, ReplayAssumption DEF RingInv, TypeOK, RingMirrorsAccepted, OpenGenuine, commit
  <1>taken. accepted' = accepted \cup {c} /\ taken' \in [Counters -> Nat]
    BY OpenAccepts DEF RingInv
  <1>2. WordOf(c) \in Nat /\ WordOf(highest) \in Nat /\ WORDS \in Nat \ {0}
    BY <1>1, Folding, ReplayAssumption
  <1>3. Cleared(c) \in [Slots -> SUBSET Bits]
    BY <1>1, <1>2, ClearingIsExact
  <1>4. TypeOK'
    BY <1>1, <1>taken, <1>2, <1>3, SetAddsOneBit DEF TypeOK, RingInv
  <1>5. ASSUME NEW d \in Counters, Live(WordOf(d))'
        PROVE  is_set(d)' <=> d \in accepted'
    <2>1. d \in Nat /\ WordOf(d) \in Nat
      BY Folding, ReplayAssumption
    <2>2. WordOf(d) <= WordOf(c) /\ WordOf(c) < WordOf(d) + WORDS
      BY <1>1, <1>5 DEF Live, WordOf
    <2>3. BitIn(bitmap', d) <=> BitIn(Cleared(c), d) \/ d = c
      BY <1>1, <1>2, <1>3, <2>1, <2>2, SetAddsOneBit
    <2>4. is_set(d)' <=> BitIn(bitmap', d)
      BY DEF is_set, BitIn, WordOf, word_index
    <2>5. CASE WordOf(d) > WordOf(highest)
      <3>1. ~BitIn(Cleared(c), d)
        BY <1>1, <2>1, <2>2, <2>5, ClearingIsExact
      <3>2. d \notin accepted
        <4> SUFFICES ASSUME d \in accepted PROVE FALSE
          OBVIOUS
        <4>1. WordOf(d) <= WordOf(highest)
          BY <1>1, <2>1, DivMonotone, ReplayAssumption, Zenon DEF WordOf
        <4> QED BY <4>1, <2>5, <2>1, <1>2
      <3> QED BY <1>1, <1>taken, <2>3, <2>4, <3>1, <3>2
    <2>6. CASE WordOf(d) <= WordOf(highest)
      <3>1. BitIn(Cleared(c), d) <=> is_set(d)
        BY <1>1, <2>1, <2>2, <2>6, ClearingIsExact
      <3>2. WordOf(highest) <= WordOf(c)
        <4>1. highest <= c
          BY <1>1
        <4> QED BY <1>1, <4>1, DivMonotone, ReplayAssumption, Zenon DEF WordOf
      <3>3. Live(WordOf(d))
        BY <1>2, <2>1, <2>2, <2>6, <3>2 DEF Live
      <3> QED BY <1>1, <1>taken, <2>3, <2>4, <3>1, <3>3
    <2> QED BY <2>5, <2>6, <2>1, <1>2
  <1>6. \A a \in accepted' : a <= highest'
    BY <1>1, <1>taken
  <1> QED BY <1>1, <1>taken, <1>4, <1>5, <1>6 DEF RingInv, RingMirrorsAccepted

\* A counter that arrives late, inside the window.
LEMMA LateCommit ==
    ASSUME RingInv, NEW c \in Counters, OpenGenuine(c), started, c <= highest
    PROVE  RingInv'
  <1>1. /\ bitmap \in [Slots -> SUBSET Bits] /\ highest \in Nat /\ c \in Nat
        /\ highest' = highest /\ started' = TRUE /\ bitmap' = WithBit(bitmap, c)
        /\ highest \in accepted
        /\ \A a \in accepted : a <= highest
        /\ \A d \in Counters : Live(WordOf(d)) => (is_set(d) <=> d \in accepted)
        /\ highest - c <= WINDOW_SIZE
    BY AcceptedCounters, ReplayAssumption DEF RingInv, TypeOK, RingMirrorsAccepted, OpenGenuine, commit, check
  <1>taken. accepted' = accepted \cup {c} /\ taken' \in [Counters -> Nat]
    BY OpenAccepts DEF RingInv
  <1>2. WordOf(c) \in Nat /\ WordOf(highest) \in Nat /\ WORDS \in Nat \ {0}
    BY <1>1, Folding, ReplayAssumption
  <1>3. WordOf(c) <= WordOf(highest) /\ WordOf(highest) < WordOf(c) + WORDS
    <2>1. WORDS * BITS_PER_WORD \in Nat /\ BITS_PER_WORD \in Nat
      BY ReplayAssumption
    <2>2. highest <= c + (WORDS * BITS_PER_WORD - BITS_PER_WORD)
      BY <1>1, <2>1 DEF WINDOW_SIZE
    <2> QED BY <1>1, <2>2, WindowInsideRing, DivMonotone, ReplayAssumption, Zenon DEF WordOf
  <1>4. TypeOK'
    BY <1>1, <1>taken, <1>2, SetAddsOneBit DEF TypeOK, RingInv
  <1>5. ASSUME NEW d \in Counters, Live(WordOf(d))'
        PROVE  is_set(d)' <=> d \in accepted'
    <2>1. d \in Nat /\ WordOf(d) \in Nat
      BY Folding, ReplayAssumption
    <2>2. WordOf(d) <= WordOf(highest) /\ WordOf(highest) < WordOf(d) + WORDS
      BY <1>1, <1>5 DEF Live, WordOf
    <2>3. BitIn(bitmap', d) <=> BitIn(bitmap, d) \/ d = c
      BY <1>1, <1>2, <1>3, <2>1, <2>2, SetAddsOneBit
    <2>4. is_set(d)' <=> BitIn(bitmap', d)
      BY DEF is_set, BitIn, WordOf, word_index
    <2>5. is_set(d) <=> BitIn(bitmap, d)
      BY DEF is_set, BitIn
    <2> QED BY <1>1, <1>taken, <2>2, <2>3, <2>4, <2>5 DEF Live
  <1> QED BY <1>1, <1>taken, <1>4, <1>5 DEF RingInv, RingMirrorsAccepted

\* Every step of the window keeps the ring a picture of what was accepted.
LEMMA RingStep == RingInv /\ [Next]_vars => RingInv'
  <1> SUFFICES ASSUME RingInv, [Next]_vars PROVE RingInv'
    OBVIOUS
  <1>1. ASSUME NEW c \in Counters, OpenGenuine(c) PROVE RingInv'
    <2>1. c \in Nat /\ highest \in Nat
      BY ReplayAssumption DEF RingInv, TypeOK
    <2>2. CASE ~started
      BY <1>1, <2>2, FirstCommit
    <2>3. CASE started /\ c > highest
      BY <1>1, <2>3, AdvancingCommit
    <2>4. CASE started /\ c <= highest
      BY <1>1, <2>4, LateCommit
    <2> QED BY <2>1, <2>2, <2>3, <2>4
  <1>2. ASSUME UNCHANGED vars PROVE RingInv'
    BY <1>2 DEF vars, RingInv, TypeOK, RingMirrorsAccepted, Live, is_set, WordOf, word_index,
                accepted
  <1> QED BY <1>1, <1>2 DEF Next, OpenForged

\* The invariant makes check() agree with the abstract filter.
LEMMA InvExact == RingInv => CheckIsExact
  <1> SUFFICES ASSUME RingInv, NEW c \in Counters PROVE check(c) <=> Filter!Fresh(c)
    BY DEF CheckIsExact
  <1>1. /\ c \in Nat /\ highest \in Nat /\ accepted \subseteq Nat
        /\ WORDS * BITS_PER_WORD \in Nat /\ BITS_PER_WORD \in Nat
    BY AcceptedCounters, ReplayAssumption DEF RingInv, TypeOK
  <1>2. WORDS * BITS_PER_WORD >= BITS_PER_WORD
    BY Multiple, ReplayAssumption
  <1>3. WINDOW_SIZE \in Nat
    BY <1>1, <1>2 DEF WINDOW_SIZE
  <1>4. CASE ~started
    BY <1>4, AcceptedCounters DEF RingInv, RingMirrorsAccepted, check, Filter!Fresh, Filter!InWindow
  <1>5. CASE started /\ c > highest
    <2>1. \A a \in accepted : a <= highest
      BY <1>5 DEF RingInv, RingMirrorsAccepted
    <2>2. c \notin accepted /\ \A a \in accepted : a <= c + WINDOW_SIZE
      BY <1>1, <1>3, <1>5, <2>1
    <2> QED BY <1>5, <2>2, AcceptedCounters DEF check, Filter!Fresh, Filter!InWindow
  <1>6. CASE started /\ c <= highest
    <2>1. /\ highest \in accepted
          /\ \A a \in accepted : a <= highest
          /\ Live(WordOf(c)) => (is_set(c) <=> c \in accepted)
      BY <1>6 DEF RingInv, RingMirrorsAccepted
    <2>2. Filter!InWindow(c) <=> highest - c <= WINDOW_SIZE
      BY <1>1, <1>3, <1>6, <2>1, AcceptedCounters DEF Filter!InWindow
    <2>3. ASSUME highest - c <= WINDOW_SIZE PROVE Live(WordOf(c))
      <3>1. highest <= c + (WORDS * BITS_PER_WORD - BITS_PER_WORD)
        BY <1>1, <2>3 DEF WINDOW_SIZE
      <3> QED BY <1>1, <1>6, <3>1, WindowInsideRing, DivMonotone, ReplayAssumption
              DEF WordOf, Live
    <2>4. check(c) <=> highest - c <= WINDOW_SIZE /\ ~is_set(c)
      BY <1>1, <1>6 DEF check
    <2> QED BY <2>1, <2>2, <2>3, <2>4, AcceptedCounters DEF Filter!Fresh
  <1> QED BY <1>1, <1>4, <1>5, <1>6

-----------------------------------------------------------------------------
\* The ring's bookkeeping is right in every reachable state: the type invariant
\* and the mirror between the bitmap of `commit` and the counters accepted.
THEOREM RingIsRight == Spec => [](TypeOK /\ RingMirrorsAccepted)
  <1>1. Spec => []RingInv
    BY RingInitial, RingStep, PTL DEF Spec
  <1> QED BY <1>1, PTL DEF RingInv

\* check() refuses exactly the replays and what has left the window, for every
\* ring size, word width and set of counters.
THEOREM CheckExact == Spec => []CheckIsExact
  <1>1. Spec => []RingInv
    BY RingInitial, RingStep, PTL DEF Spec
  <1> QED BY <1>1, InvExact, PTL

\* The window implements the abstract filter: open() returns a counter at most
\* once, and none that has fallen out of the window.
THEOREM WindowImplementsFilter == Spec => TakesEachCounterOnce
  <1>1. Spec => []RingInv
    BY RingInitial, RingStep, PTL DEF Spec
  <1>2. Init => Filter!Init
    BY DEF Init, Filter!Init
  <1>3. RingInv /\ [Next]_vars => [Filter!Next]_taken
    <2> SUFFICES ASSUME RingInv, [Next]_vars PROVE [Filter!Next]_taken
      OBVIOUS
    <2>1. ASSUME NEW c \in Counters, OpenGenuine(c) PROVE Filter!Next
      <3>1. Filter!Fresh(c)
        BY <2>1, InvExact DEF CheckIsExact, OpenGenuine
      <3> QED BY <2>1, <3>1, Zenon DEF OpenGenuine, Filter!Next, Filter!Take
    <2> QED BY <2>1 DEF Next, OpenForged, vars
  <1> QED BY <1>1, <1>2, <1>3, PTL DEF Spec, TakesEachCounterOnce, Filter!Spec
==============================================================================
