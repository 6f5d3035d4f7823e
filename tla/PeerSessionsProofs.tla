------------------------- MODULE PeerSessionsProofs -------------------------
(***************************************************************************)
(* Proofs about PeerSessions, for every value of its constants: any number *)
(* of handshakes, rekeys, moves and restarts, any message limit, and a     *)
(* path that may reorder and repeat.                                       *)
(***************************************************************************)
EXTENDS PeerSessions, TLAPS

\* Every counter on the wire has been spent: the next one to be used under a
\* session is above all of them.
CountersSpent == \A e \in End : \A p \in wire[e] : p.ctr < sent[e][p.sid]

\* The initiator holds, and has sealed under, only sessions it installed, never
\* has one waiting, and owes a confirmation only while it has tries left.
InitiatorOwns ==
    /\ next[I] = None
    /\ session[I] \in installed \cup {None}
    /\ previous[I] \in installed \cup {None}
    /\ \A p \in wire[I] : p.sid \in installed
    /\ confirm_owed => confirm_tries < CONFIRM_TRIES

\* No process has left, on a path that keeps handshakes in order.
Stayed == ordered /\ restarts = 0 /\ ~leaving[I] /\ ~leaving[R]

\* A session is the last that the responder accepted: it waits, or was promoted
\* and nothing waits behind it.
LastAccepted(s) == s = next[R] \/ (s = session[R] /\ next[R] = None)

\* While that is so, initiations and replies are answered in the order they were
\* sent, the handshake under way is the latest, its reply carries the session
\* accepted last, and so does the initiator once it has no handshake under way.
Together ==
    /\ \A e \in End : \A p \in wire[e] : p.body # "bye"
    /\ pending \in {None, attempts}
    /\ pending = None => wire1 = {}
    /\ \A a \in wire1 : a <= attempts
    /\ \A m \in wire2 : m[1] <= attempts /\ \A a \in wire1 : m[1] < a
    /\ \A m \in wire2 : m[1] = attempts => LastAccepted(m[2])
    /\ pending = None /\ session[I] # None => LastAccepted(session[I])

InStep == Stayed => Together

Inv == TypeOK /\ CountersSpent /\ NonceUsedOnce /\ InitiatorOwns

\* The two ends, and what the bounds are.
LEMMA Ends == I \in End /\ R \in End /\ I # R /\ \A e \in End : e = I \/ e = R
BY DEF I, R, End

\* The limits of the protocol are numbers.
LEMMA Bounds ==
    /\ REJECT_AFTER_MESSAGES \in Nat /\ CONFIRM_TRIES \in Nat \ {0}
    /\ MaxAttempts \in Nat /\ MaxSessions \in Nat /\ MaxMoves \in Nat /\ MaxRestarts \in Nat
BY SessionsAssumption DEF SessionsAssumption

-----------------------------------------------------------------------------
\* What an end seals is a packet with the next counter of a session in use.
LEMMA SealedPacket ==
    ASSUME TypeOK, NEW e \in End, NEW body \in Body, Seals(e)
    PROVE  /\ Current(e) \in Sid
           /\ sent[e][Current(e)] \in 0 .. REJECT_AFTER_MESSAGES - 1
           /\ Sealed(e, body) \in Packet
           /\ Sealed(e, body).sid = Current(e)
           /\ Sealed(e, body).ctr = sent[e][Current(e)]
<1>1. Current(e) \in Sid
  BY DEF TypeOK, Seals, Current, None
<1>2. sent[e][Current(e)] \in 0 .. REJECT_AFTER_MESSAGES - 1
  <2>1. sent[e][Current(e)] \in 0 .. REJECT_AFTER_MESSAGES
    BY <1>1 DEF TypeOK
  <2>2. ~(sent[e][Current(e)] >= REJECT_AFTER_MESSAGES)
    BY DEF Seals, Refused
  <2>3. REJECT_AFTER_MESSAGES \in Nat
    BY Bounds
  <2>4. QED
    BY <2>1, <2>2, <2>3
<1>3. QED
  BY <1>1, <1>2, Bounds DEF Sealed, Packet

\* The invariant holds at the start.
LEMMA InitInv == Init => Inv
<1> SUFFICES ASSUME Init PROVE Inv
  OBVIOUS
<1>1. TypeOK
  <2>1. ready \in [End -> BOOLEAN] /\ leaving \in [End -> BOOLEAN] /\ confirm_owed \in BOOLEAN
    BY Zenon DEF Init
  <2>2. /\ session \in [End -> Sid \cup {None}]
        /\ next \in [End -> Sid \cup {None}]
        /\ previous \in [End -> Sid \cup {None}]
        /\ pending \in Attempt \cup {None}
    BY DEF Init
  <2>3. /\ sent \in [End -> [Sid -> 0 .. REJECT_AFTER_MESSAGES]]
        /\ confirm_tries \in 0 .. CONFIRM_TRIES
    BY Bounds DEF Init
  <2>4. /\ accepted \in [End -> [Sid -> SUBSET (0 .. REJECT_AFTER_MESSAGES - 1)]]
        /\ aged \in [End -> SUBSET Sid]
        /\ wire \in [End -> SUBSET Packet]
        /\ wire1 \subseteq Attempt /\ wire2 \subseteq Attempt \X Sid /\ installed \subseteq Sid
    BY DEF Init
  <2>5. /\ kpc \in [End -> {"idle", "send", "note", "announce"}]
        /\ wpc \in {"idle", "announce", "handshake"}
    BY DEF Init
  <2>6. /\ ordered \in Ordered
        /\ attempts \in 0 .. MaxAttempts /\ sessions \in 0 .. MaxSessions
        /\ moves \in 0 .. MaxMoves /\ restarts \in 0 .. MaxRestarts
    BY Bounds DEF Init
  <2>7. QED
    BY <2>1, <2>2, <2>3, <2>4, <2>5, <2>6 DEF TypeOK
<1>2. QED
  BY <1>1, Ends DEF Init, Inv, CountersSpent, NonceUsedOnce, InitiatorOwns

\* Moving the slots as confirm() does keeps their types, and moves nothing at
\* the initiator, which never has a session waiting.
LEMMA ConfirmSlots ==
    ASSUME Inv, NEW e \in End, Confirm(e)
    PROVE  /\ session' \in [End -> Sid \cup {None}]
           /\ next' \in [End -> Sid \cup {None}]
           /\ previous' \in [End -> Sid \cup {None}]
           /\ session'[I] = session[I] /\ next'[I] = None /\ previous'[I] = previous[I]
BY Ends DEF Inv, TypeOK, InitiatorOwns, Confirm, None

\* Sealing a packet keeps the part of the invariant about counters and keys.
LEMMA SealInv ==
    ASSUME Inv, NEW e \in End, NEW body \in Body, seal_into(e, body),
           UNCHANGED <<ordered, attempts, sessions, moves, restarts>>,
           kpc' \in [End -> {"idle", "send", "note", "announce"}],
           wpc' \in {"idle", "announce", "handshake"},
           leaving' \in [End -> BOOLEAN]
    PROVE  Inv'
<1>1. /\ session' \in [End -> Sid \cup {None}]
      /\ next' \in [End -> Sid \cup {None}]
      /\ previous' \in [End -> Sid \cup {None}]
      /\ session'[I] = session[I] /\ next'[I] = None /\ previous'[I] = previous[I]
  <2>1. CASE Usable(e, session[e])
    BY <2>1 DEF Inv, TypeOK, InitiatorOwns, seal_into
  <2>2. CASE ~Usable(e, session[e])
    BY <2>2, ConfirmSlots DEF seal_into
  <2>3. QED
    BY <2>1, <2>2
<1>2. UNCHANGED <<pending, confirm_owed, confirm_tries, accepted, aged, ready,
                  wire1, wire2, installed>>
  BY DEF seal_into
<1>3. CASE ~Seals(e)
  <2>1. UNCHANGED <<sent, wire>>
    BY <1>3 DEF seal_into
  <2>2. TypeOK'
    BY <1>1, <1>2, <2>1 DEF Inv, TypeOK
  <2>3. QED
    BY <1>1, <1>2, <2>1, <2>2 DEF Inv, CountersSpent, NonceUsedOnce, InitiatorOwns
<1>4. CASE Seals(e)
  <2> DEFINE s == Current(e)
             p == Sealed(e, body)
  <2>1. /\ sent' = [sent EXCEPT ![e][s] = @ + 1]
        /\ wire' = [wire EXCEPT ![e] = @ \cup {p}]
    BY <1>4 DEF seal_into
  <2>2. /\ s \in Sid
        /\ sent[e][s] \in 0 .. REJECT_AFTER_MESSAGES - 1
        /\ p \in Packet /\ p.sid = s /\ p.ctr = sent[e][s]
    BY <1>4, SealedPacket DEF Inv
  <2> HIDE DEF s, p
  <2>3. /\ sent \in [End -> [Sid -> 0 .. REJECT_AFTER_MESSAGES]]
        /\ wire \in [End -> SUBSET Packet]
        /\ REJECT_AFTER_MESSAGES \in Nat
    BY Bounds DEF Inv, TypeOK
  <2>4. /\ sent' \in [End -> [Sid -> 0 .. REJECT_AFTER_MESSAGES]]
        /\ wire' \in [End -> SUBSET Packet]
    BY <2>1, <2>2, <2>3
  <2>5. TypeOK'
    BY <1>1, <1>2, <2>4 DEF Inv, TypeOK
  <2>6. \A f \in End, q \in Packet :
           /\ sent'[f][q.sid] \in Nat
           /\ sent[f][q.sid] \in Nat
           /\ sent[f][q.sid] <= sent'[f][q.sid]
    BY <2>1, <2>2, <2>3 DEF Packet
  <2>7. CountersSpent'
    <3> SUFFICES ASSUME NEW f \in End, NEW q \in wire'[f]
                 PROVE  q.ctr < sent'[f][q.sid]
      BY DEF CountersSpent
    <3>1. q \in Packet /\ q.ctr \in Nat
      BY <2>4, <2>3 DEF Packet
    <3>2. CASE q \in wire[f]
      BY <3>1, <3>2, <2>6 DEF Inv, CountersSpent
    <3>3. CASE f = e /\ q = p
      BY <3>3, <2>1, <2>2, <2>3
    <3>4. QED
      BY <3>2, <3>3, <2>1, <2>3
  <2>8. NonceUsedOnce'
    <3> SUFFICES ASSUME NEW f \in End, NEW q \in wire'[f], NEW r \in wire'[f],
                        q.sid = r.sid, q.ctr = r.ctr
                 PROVE  q = r
      BY DEF NonceUsedOnce
    <3>1. (q \in wire[f] \/ (f = e /\ q = p)) /\ (r \in wire[f] \/ (f = e /\ r = p))
      BY <2>1, <2>3
    <3>2. \A t \in wire[e] : ~(t.sid = p.sid /\ t.ctr = p.ctr)
      <4> SUFFICES ASSUME NEW t \in wire[e], t.sid = p.sid, t.ctr = p.ctr PROVE FALSE
        OBVIOUS
      <4>1. t.ctr < sent[e][t.sid]
        BY DEF Inv, CountersSpent
      <4>2. QED
        BY <4>1, <2>2
    <3>3. CASE q \in wire[f] /\ r \in wire[f]
      BY <3>3 DEF Inv, NonceUsedOnce
    <3>4. QED
      BY <3>1, <3>2, <3>3
  <2>9. InitiatorOwns'
    <3>1. e = I => s \in installed
      BY <2>2, Bounds DEF s, Current, Inv, InitiatorOwns, Sid, None
    <3>2. QED
      BY <1>1, <1>2, <2>1, <2>2, <2>3, <3>1 DEF Inv, InitiatorOwns
  <2>10. QED
    BY <2>5, <2>7, <2>8, <2>9 DEF Inv
<1>5. QED
  BY <1>3, <1>4

\* A step that seals nothing has only the types and the initiator's slots to keep.
LEMMA NothingSealed ==
    ASSUME Inv, UNCHANGED <<sent, wire>>, TypeOK', InitiatorOwns'
    PROVE  Inv'
BY DEF Inv, CountersSpent, NonceUsedOnce

\* retire_expired leaves the initiator with no session it did not have.
LEMMA RetireSlots ==
    ASSUME Inv, retire_expired
    PROVE  /\ session' \in [End -> Sid \cup {None}]
           /\ next' \in [End -> Sid \cup {None}]
           /\ previous' \in [End -> Sid \cup {None}]
           /\ next'[I] = None
           /\ session'[I] \in installed \cup {None} /\ previous'[I] \in installed \cup {None}
BY Ends DEF Inv, TypeOK, InitiatorOwns, retire_expired, Retired

\* farewell, and a restart, empty the slots of one end.
LEMMA ForgetSlots ==
    ASSUME Inv, NEW e \in End, Forget(e)
    PROVE  /\ session' \in [End -> Sid \cup {None}]
           /\ next' \in [End -> Sid \cup {None}]
           /\ previous' \in [End -> Sid \cup {None}]
           /\ next'[I] = None
           /\ session'[I] \in installed \cup {None} /\ previous'[I] \in installed \cup {None}
           /\ pending' \in Attempt \cup {None}
           /\ confirm_owed' \in BOOLEAN
           /\ confirm_tries' \in 0 .. CONFIRM_TRIES
           /\ confirm_owed' => confirm_tries' < CONFIRM_TRIES
<1>1. /\ session' \in [End -> Sid \cup {None}]
      /\ next' \in [End -> Sid \cup {None}]
      /\ previous' \in [End -> Sid \cup {None}]
      /\ next'[I] = None
      /\ session'[I] \in installed \cup {None} /\ previous'[I] \in installed \cup {None}
  BY Ends DEF Inv, TypeOK, InitiatorOwns, Forget
<1>2. pending' \in Attempt \cup {None} /\ confirm_tries' \in 0 .. CONFIRM_TRIES
  BY Bounds DEF Inv, TypeOK, Forget
<1>3. confirm_owed' \in BOOLEAN
  BY DEF Inv, TypeOK, Forget
<1>4. confirm_owed' => confirm_tries' < CONFIRM_TRIES
  BY Zenon DEF Inv, InitiatorOwns, Forget
<1>5. QED
  BY <1>1, <1>2, <1>3, <1>4

\* Every step keeps the invariant.
LEMMA StepInv == Inv /\ [Next]_vars => Inv'
<1> SUFFICES ASSUME Inv, [Next]_vars PROVE Inv'
  OBVIOUS
<1>0. ordered' = ordered
  BY DEF Next, vars
<1> USE <1>0 DEF peerState, crypto, threads, wires, bounds
<1>1. ASSUME SendMsg1 PROVE Inv'
  <2>1. attempts' \in 1 .. MaxAttempts /\ pending' = attempts' /\ wire1' = wire1 \cup {attempts'}
    BY <1>1, Bounds DEF SendMsg1, Inv, TypeOK
  <2>2. wpc' \in {"idle", "announce", "handshake"}
    BY <1>1 DEF SendMsg1, WLeaves, Inv, TypeOK
  <2>3. TypeOK'
    BY <1>1, <2>1, <2>2, RetireSlots, Bounds DEF SendMsg1, Inv, TypeOK, Attempt
  <2>4. InitiatorOwns'
    BY <1>1, RetireSlots DEF SendMsg1, Inv, InitiatorOwns
  <2>5. QED
    BY <1>1, <2>3, <2>4, NothingSealed DEF SendMsg1
<1>2. ASSUME SkipMsg1 PROVE Inv'
  <2>1. wpc' \in {"idle", "announce", "handshake"}
    BY <1>2 DEF SkipMsg1, WLeaves, Inv, TypeOK
  <2>2. TypeOK'
    BY <1>2, <2>1, RetireSlots DEF SkipMsg1, Inv, TypeOK
  <2>3. InitiatorOwns'
    BY <1>2, RetireSlots DEF SkipMsg1, Inv, InitiatorOwns
  <2>4. QED
    BY <1>2, <2>2, <2>3, NothingSealed DEF SkipMsg1
<1>3. ASSUME NEW a \in wire1, HandleMsg1(a) PROVE Inv'
  <2>1. sessions' \in Sid /\ sessions' \in 0 .. MaxSessions /\ a \in Attempt
    BY <1>3, Bounds DEF HandleMsg1, Inv, TypeOK, Sid
  <2>2. next' \in [End -> Sid \cup {None}] /\ next'[I] = next[I]
    BY <1>3, <2>1, Ends DEF HandleMsg1, Accept, Inv, TypeOK
  <2>3. wire1' \subseteq Attempt /\ wire2' \subseteq Attempt \X Sid
    BY <1>3, <2>1 DEF HandleMsg1, Inv, TypeOK
  <2>4. TypeOK'
    BY <1>3, <2>1, <2>2, <2>3 DEF HandleMsg1, Accept, Inv, TypeOK
  <2>5. InitiatorOwns'
    BY <1>3, <2>2 DEF HandleMsg1, Accept, Inv, InitiatorOwns
  <2>6. QED
    BY <1>3, <2>4, <2>5, NothingSealed DEF HandleMsg1
<1>4. ASSUME NEW m \in wire2, HandleMsg2(m[1], m[2]) PROVE Inv'
  <2>1. m[2] \in Sid
    BY DEF Inv, TypeOK
  <2>2. wire2' \subseteq Attempt \X Sid
    BY <1>4 DEF HandleMsg2, Inv, TypeOK
  <2>3. CASE pending = m[1]
    <3>1. /\ Install(m[2]) /\ pending' = None /\ installed' = installed \cup {m[2]}
          /\ UNCHANGED <<crypto, threads, wire1, wire, bounds>>
      BY <1>4, <2>3 DEF HandleMsg2
    <3>2. /\ session' \in [End -> Sid \cup {None}]
          /\ next' \in [End -> Sid \cup {None}]
          /\ previous' \in [End -> Sid \cup {None}]
          /\ session'[I] = m[2] /\ previous'[I] = session[I] /\ next'[I] = None
      BY <2>1, <3>1, Ends DEF Install, Inv, TypeOK
    <3>3. confirm_owed' \in BOOLEAN /\ confirm_tries' \in 0 .. CONFIRM_TRIES
      BY <3>1, Bounds DEF Install
    <3>4. TypeOK'
      BY <2>1, <2>2, <3>1, <3>2, <3>3 DEF Inv, TypeOK
    <3>5. InitiatorOwns'
      BY <3>1, <3>2, Bounds DEF Inv, InitiatorOwns, Install
    <3>6. QED
      BY <3>1, <3>4, <3>5, NothingSealed
  <2>4. CASE pending # m[1]
    <3>1. UNCHANGED <<peerState, installed, crypto, threads, wire1, wire, bounds>>
      BY <1>4, <2>4 DEF HandleMsg2
    <3>2. TypeOK'
      BY <2>2, <3>1 DEF Inv, TypeOK
    <3>3. QED
      BY <3>1, <3>2, NothingSealed DEF Inv, InitiatorOwns
  <2>5. QED
    BY <2>3, <2>4
<1>5. ASSUME NEW e \in End, NEW p \in wire[Peer(e)], HandleTransport(e, p) PROVE Inv'
  <2>1. p \in Packet
    BY Ends DEF Inv, TypeOK, Peer
  <2>2. accepted' \in [End -> [Sid -> SUBSET (0 .. REJECT_AFTER_MESSAGES - 1)]]
    BY <1>5, <2>1 DEF HandleTransport, Inv, TypeOK, Packet
  <2>3. /\ session' \in [End -> Sid \cup {None}]
        /\ next' \in [End -> Sid \cup {None}]
        /\ previous' \in [End -> Sid \cup {None}]
        /\ next'[I] = None
        /\ session'[I] \in installed \cup {None} /\ previous'[I] \in installed \cup {None}
        /\ pending' \in Attempt \cup {None}
        /\ confirm_owed' \in BOOLEAN
        /\ confirm_tries' \in 0 .. CONFIRM_TRIES
        /\ confirm_owed' => confirm_tries' < CONFIRM_TRIES
    <3>1. CASE Forget(e)
      BY <3>1, ForgetSlots
    <3>2. CASE /\ confirm_owed' = (e # I /\ confirm_owed)
               /\ confirm_tries' = IF e = I THEN 0 ELSE confirm_tries
               /\ UNCHANGED <<session, next, previous, pending>>
      <4>1. confirm_owed' \in BOOLEAN
        BY <3>2 DEF Inv, TypeOK
      <4>2. QED
        BY <3>2, <4>1, Bounds DEF Inv, TypeOK, InitiatorOwns
    <3>3. CASE UNCHANGED peerState
      BY <3>3 DEF Inv, TypeOK, InitiatorOwns
    <3>4. CASE Confirm(e) /\ UNCHANGED <<pending, confirm_owed, confirm_tries>>
      BY <3>4, ConfirmSlots DEF Inv, TypeOK, InitiatorOwns
    <3>5. QED
      BY <1>5, <3>1, <3>2, <3>3, <3>4 DEF HandleTransport
  <2>4. UNCHANGED <<sent, aged, threads, wires, bounds, installed>>
    BY <1>5 DEF HandleTransport
  <2>5. TypeOK'
    BY <2>2, <2>3, <2>4 DEF Inv, TypeOK
  <2>6. InitiatorOwns'
    BY <2>3, <2>4 DEF Inv, InitiatorOwns
  <2>7. QED
    BY <2>4, <2>5, <2>6, NothingSealed
<1>6. ASSUME NEW e \in End, SendData(e) PROVE Inv'
  BY <1>6, SealInv, Zenon DEF SendData, Inv, TypeOK, Body
<1>7. ASSUME NEW e \in End, KeepaliveDue(e) PROVE Inv'
  <2>1. TypeOK'
    BY <1>7 DEF KeepaliveDue, Inv, TypeOK
  <2>2. QED
    BY <1>7, <2>1, NothingSealed DEF KeepaliveDue, Inv, InitiatorOwns
<1>8. ASSUME NEW e \in End, KeepaliveSend(e) PROVE Inv'
  <2>1. kpc' \in [End -> {"idle", "send", "note", "announce"}]
    BY <1>8, ZenonT(40) DEF KeepaliveSend, Inv, TypeOK
  <2>2. QED
    BY <1>8, <2>1, SealInv, Zenon DEF KeepaliveSend, Inv, TypeOK, Body
<1>9. ASSUME NEW e \in End, KeepaliveNote(e) PROVE Inv'
  <2>1. kpc' \in [End -> {"idle", "send", "note", "announce"}]
    BY <1>9 DEF KeepaliveNote, Inv, TypeOK
  <2>2. confirm_owed' \in BOOLEAN /\ (confirm_owed' => confirm_tries' < CONFIRM_TRIES)
    <3>1. CASE e = I /\ confirm_owed
      <4>1. confirm_owed' = (confirm_tries' < CONFIRM_TRIES)
        BY <1>9, <3>1 DEF KeepaliveNote
      <4>2. (confirm_tries' < CONFIRM_TRIES) \in BOOLEAN
        OBVIOUS
      <4>3. QED
        BY <4>1, <4>2, Zenon
    <3>2. CASE ~(e = I /\ confirm_owed)
      BY <1>9, <3>2 DEF KeepaliveNote, Inv, TypeOK, InitiatorOwns
    <3>3. QED
      BY <3>1, <3>2
  <2>3. confirm_tries' \in 0 .. CONFIRM_TRIES
    BY <1>9, Bounds DEF KeepaliveNote, Inv, TypeOK, InitiatorOwns
  <2>4. TypeOK'
    BY <1>9, <2>1, <2>2, <2>3 DEF KeepaliveNote, Inv, TypeOK
  <2>5. QED
    BY <1>9, <2>2, <2>4, NothingSealed, ZenonT(40) DEF KeepaliveNote, Inv, InitiatorOwns
<1>10. ASSUME MoveCarrier PROVE Inv'
  <2>1. kpc' \in [End -> {"idle", "send", "note", "announce"}] /\ ready' \in [End -> BOOLEAN]
    BY <1>10, Zenon DEF MoveCarrier, Inv, TypeOK
  <2>2. moves' \in 0 .. MaxMoves
    BY <1>10, Bounds DEF MoveCarrier, Inv, TypeOK
  <2>3. TypeOK'
    BY <1>10, <2>1, <2>2 DEF MoveCarrier, Inv, TypeOK
  <2>4. QED
    BY <1>10, <2>3, NothingSealed DEF MoveCarrier, Inv, InitiatorOwns
<1>11. ASSUME AnnounceMove PROVE Inv'
  <2>1. kpc' \in [End -> {"idle", "send", "note", "announce"}]
    BY <1>11, Zenon DEF AnnounceMove, Inv, TypeOK
  <2>2. QED
    BY <1>11, <2>1, SealInv, Ends, Zenon DEF AnnounceMove, Inv, TypeOK, Body
<1>12. ASSUME CarrierOpens PROVE Inv'
  <2>1. TypeOK'
    BY <1>12, Zenon DEF CarrierOpens, Inv, TypeOK
  <2>2. QED
    BY <1>12, <2>1, NothingSealed, Zenon DEF CarrierOpens, Inv, InitiatorOwns
<1>13. ASSUME AnnounceOpening PROVE Inv'
  BY <1>13, SealInv, Ends, ZenonT(40) DEF AnnounceOpening, Inv, TypeOK, Body
<1>14. ASSUME NEW e \in End, Goodbye(e) PROVE Inv'
  <2>1. leaving' \in [End -> BOOLEAN]
    BY <1>14 DEF Goodbye, Inv, TypeOK
  <2>2. CASE seal_into(e, "bye")
    BY <1>14, <2>1, <2>2, SealInv DEF Goodbye, Inv, TypeOK, Body
  <2>3. CASE UNCHANGED <<peerState, crypto, ready, wires, installed>>
    <3>1. TypeOK'
      BY <1>14, <2>1, <2>3 DEF Goodbye, Inv, TypeOK
    <3>2. QED
      BY <2>3, <3>1, NothingSealed, Zenon DEF Inv, InitiatorOwns
  <2>4. QED
    BY <1>14, <2>2, <2>3, Zenon DEF Goodbye
<1>15. ASSUME NEW e \in End, Restart(e) PROVE Inv'
  <2>1. leaving' \in [End -> BOOLEAN] /\ ready' \in [End -> BOOLEAN]
    BY <1>15 DEF Restart, Inv, TypeOK
  <2>2. kpc' \in [End -> {"idle", "send", "note", "announce"}]
    BY <1>15 DEF Restart, Inv, TypeOK
  <2>3. restarts' \in 0 .. MaxRestarts
    BY <1>15, Bounds DEF Restart, Inv, TypeOK
  <2>4. TypeOK'
    BY <1>15, <2>1, <2>2, <2>3, ForgetSlots DEF Restart, Inv, TypeOK
  <2>5. InitiatorOwns'
    BY <1>15, ForgetSlots, ZenonT(40) DEF Restart, Inv, InitiatorOwns
  <2>6. QED
    BY <1>15, <2>4, <2>5, NothingSealed DEF Restart
<1>16. ASSUME NEW e \in End, NEW s \in Held(e), Age(e, s) PROVE Inv'
  <2>1. s \in Sid
    BY DEF Held, Inv, TypeOK
  <2>2. TypeOK'
    BY <1>16, <2>1 DEF Age, Inv, TypeOK
  <2>3. QED
    BY <1>16, <2>2, NothingSealed DEF Age, Inv, InitiatorOwns
<1>17. CASE UNCHANGED vars
  <2>1. TypeOK'
    BY <1>17 DEF vars, Inv, TypeOK
  <2>2. QED
    BY <1>17, <2>1, NothingSealed, ZenonT(40) DEF vars, Inv, InitiatorOwns
<1>18. QED
  BY <1>1, <1>2, <1>3, <1>4, <1>5, <1>6, <1>7, <1>8, <1>9, <1>10, <1>11, <1>12, <1>13, <1>14,
     <1>15, <1>16, <1>17 DEF Next

-----------------------------------------------------------------------------
\* Type correctness of both ends, and a fresh nonce for every packet, whatever
\* is lost, repeated, reordered, restarted or rekeyed (noise.rs `seal`).
THEOREM NoncesAreFresh == Spec => [](TypeOK /\ NonceUsedOnce)
<1>1. Inv => TypeOK /\ NonceUsedOnce
  BY DEF Inv
<1>2. QED
  BY <1>1, InitInv, StepInv, PTL DEF Spec

-----------------------------------------------------------------------------
\* Sealing never moves the responder off a session that still works.
LEMMA SealKeepsWorking ==
    ASSUME Inv, NEW e \in End, NEW body \in Body, seal_into(e, body), Usable(R, session[R])
    PROVE  session'[R] = session[R]
<1>1. CASE e = R
  BY <1>1 DEF seal_into
<1>2. CASE e # R
  BY <1>2, Ends DEF seal_into, Confirm, Inv, TypeOK
<1>3. QED
  BY <1>1, <1>2

\* A packet that opens under the waiting session was sealed by an initiator
\* that had installed it.
LEMMA UsedIsInstalled ==
    ASSUME Inv, NEW p \in wire[Peer(R)], open(R, p)[1] = "next", open(R, p)[2] = "ok"
    PROVE  next[R] \in installed
<1>1. p \in wire[I]
  BY Ends DEF Peer
<1>2. Try(R, next[R], p) = "ok"
  BY DEF open
<1>3. next[R] = p.sid
  BY <1>2 DEF Try
<1>4. QED
  BY <1>1, <1>3 DEF Inv, InitiatorOwns

\* One step: the responder leaves a working session only for an installed one.
LEMMA StepPromotes ==
    ASSUME Inv, [Next]_vars, Usable(R, session[R]), session'[R] # session[R], session'[R] # None
    PROVE  session'[R] \in installed
<1> USE DEF peerState, crypto, threads, wires, bounds
<1>1. ASSUME SendMsg1 \/ SkipMsg1 PROVE FALSE
  BY <1>1, Ends DEF SendMsg1, SkipMsg1, retire_expired, Retired, Inv, TypeOK
<1>2. ASSUME NEW a \in wire1, HandleMsg1(a) PROVE FALSE
  BY <1>2 DEF HandleMsg1, Accept
<1>3. ASSUME NEW m \in wire2, HandleMsg2(m[1], m[2]) PROVE FALSE
  BY <1>3, Ends DEF HandleMsg2, Install, Inv, TypeOK
<1>4. ASSUME NEW e \in End, NEW p \in wire[Peer(e)], HandleTransport(e, p)
      PROVE  session'[R] \in installed
  <2>1. CASE e = I
    BY <1>4, <2>1, Ends DEF HandleTransport, Forget, Confirm, Inv, TypeOK
  <2>2. CASE e = R
    <3>1. CASE Forget(R)
      BY <3>1, Ends DEF Forget, Inv, TypeOK
    <3>2. CASE UNCHANGED session
      BY <3>2
    <3>3. CASE open(R, p)[1] = "next" /\ Confirm(R)
      <4>1. session'[R] = next[R]
        BY <3>3, Ends DEF Confirm, Inv, TypeOK
      <4>2. QED
        BY <1>4, <2>2, <3>3, <4>1, UsedIsInstalled DEF HandleTransport
    <3>4. QED
      BY <1>4, <2>2, <3>1, <3>2, <3>3 DEF HandleTransport
  <2>3. QED
    BY <2>1, <2>2, Ends, Zenon
<1>5. ASSUME NEW e \in End, \/ SendData(e) \/ KeepaliveSend(e)
                            \/ AnnounceMove \/ AnnounceOpening
      PROVE  FALSE
  BY <1>5, SealKeepsWorking, Ends
     DEF SendData, KeepaliveSend, AnnounceMove, AnnounceOpening, Body
<1>6. ASSUME NEW e \in End, Goodbye(e) PROVE FALSE
  BY <1>6, SealKeepsWorking DEF Goodbye, Body
<1>7. ASSUME NEW e \in End, Restart(e) PROVE FALSE
  BY <1>7, Ends, ZenonT(40) DEF Restart, Forget, Inv, TypeOK
<1>8. ASSUME NEW e \in End, \/ KeepaliveDue(e) \/ KeepaliveNote(e)
                            \/ MoveCarrier \/ CarrierOpens
                            \/ \E s \in Held(e) : Age(e, s)
      PROVE  FALSE
  BY <1>8 DEF KeepaliveDue, KeepaliveNote, MoveCarrier, CarrierOpens, Age
<1>9. QED
  BY <1>1, <1>2, <1>3, <1>4, <1>5, <1>6, <1>7, <1>8, Ends, ZenonT(40) DEF Next, vars

\* The responder never moves off a working session onto keys the initiator does
\* not have, however many copies of however old initiations reach it
\* (PeerState::accept, ::open, ::confirm).
THEOREM WorkingSessionIsKept == Spec => PromotesOnlyInstalled
<1> DEFINE Promotes == LET old == session[R]  new == session'[R]
                       IN  Usable(R, old) /\ new # old /\ new # None => new \in installed
<1>1. Inv /\ [Next]_vars => [Promotes]_vars
  BY StepPromotes
<1>2. PromotesOnlyInstalled <=> [][Promotes]_vars
  BY DEF PromotesOnlyInstalled
<1>3. QED
  BY <1>1, <1>2, InitInv, StepInv, PTL DEF Spec

-----------------------------------------------------------------------------
\* A slot that does not hold the packet's session yields to the next one, however
\* old what it holds is; the slot that holds it answers.
LEMMA TryAnswers ==
    ASSUME NEW e, NEW s, NEW p, p.sid # None, p.sid \notin aged[e],
           p.ctr \notin accepted[e][p.sid]
    PROVE  /\ s = p.sid => Try(e, s, p) = "ok"
           /\ s # p.sid => FallsThrough(Try(e, s, p))
BY DEF Try, FallsThrough

\* The order in which PeerState::open tries its slots loses no packet: one sealed
\* under a session this end still holds is opened, in every reachable state.
THEOREM PacketsReachTheirSession == Spec => []OpenReachesItsSession
<1>1. OpenReachesItsSession
  <2> SUFFICES ASSUME NEW e \in End, NEW p \in wire[Peer(e)],
                      p.sid \in Held(e) \ aged[e], p.ctr \notin accepted[e][p.sid]
               PROVE  open(e, p)[2] = "ok"
    BY DEF OpenReachesItsSession
  <2>1. p.sid # None /\ (p.sid = session[e] \/ p.sid = previous[e] \/ p.sid = next[e])
    BY DEF Held
  <2>2. ~FallsThrough("ok")
    BY Zenon DEF FallsThrough
  <2>3. CASE p.sid = session[e]
    BY <2>1, <2>2, <2>3, TryAnswers DEF open
  <2>4. CASE p.sid # session[e] /\ p.sid = previous[e]
    BY <2>1, <2>2, <2>4, TryAnswers DEF open
  <2>5. CASE p.sid # session[e] /\ p.sid # previous[e] /\ p.sid = next[e]
    BY <2>1, <2>2, <2>5, TryAnswers DEF open
  <2>6. QED
    BY <2>1, <2>3, <2>4, <2>5
<1>2. QED
  BY <1>1, PTL

-----------------------------------------------------------------------------
\* confirm() keeps the session accepted last where LastAccepted looks for it.
LEMMA ConfirmKeepsLast ==
    ASSUME Inv, NEW e \in End, Confirm(e) \/ UNCHANGED <<session, next, previous>>, NEW s
    PROVE  /\ LastAccepted(s) => LastAccepted(s)'
           /\ session'[I] = session[I]
<1>1. CASE UNCHANGED <<session, next, previous>>
  BY <1>1 DEF LastAccepted
<1>2. CASE Confirm(e) /\ e = R
  BY <1>2, Ends DEF Confirm, LastAccepted, Inv, TypeOK
<1>3. CASE Confirm(e) /\ e = I
  BY <1>3, Ends DEF Confirm, LastAccepted, Inv, TypeOK, InitiatorOwns
<1>4. QED
  BY <1>1, <1>2, <1>3, Ends

\* A step that moves the slots no further than confirm() does, sends no goodbye
\* and leaves the handshakes alone keeps the two ends in step.
LEMMA SlotsInStep ==
    ASSUME Inv, InStep, NEW e \in End,
           Confirm(e) \/ UNCHANGED <<session, next, previous>>,
           UNCHANGED <<pending, wire1, wire2, attempts>>,
           Stayed' => Stayed /\ \A f \in End : \A p \in wire'[f] : p.body # "bye"
    PROVE  InStep'
<1> SUFFICES ASSUME Stayed' PROVE Together'
  BY DEF InStep
<1>1. Together
  BY DEF InStep
<1>2. QED
  BY <1>1, ConfirmKeepsLast DEF Together

\* Sealing a packet that says no goodbye keeps them in step.
LEMMA SealInStep ==
    ASSUME Inv, InStep, NEW e \in End, NEW body \in {"data", "empty"}, seal_into(e, body),
           UNCHANGED <<attempts, ordered, restarts, leaving>>
    PROVE  InStep'
<1>1. Confirm(e) \/ UNCHANGED <<session, next, previous>>
  BY DEF seal_into
<1>2. Stayed' => Stayed /\ \A f \in End : \A p \in wire'[f] : p.body # "bye"
  <2> SUFFICES ASSUME Stayed' PROVE Stayed /\ \A f \in End : \A p \in wire'[f] : p.body # "bye"
    OBVIOUS
  <2>1. Stayed
    BY DEF Stayed
  <2>2. \A f \in End : \A p \in wire[f] : p.body # "bye"
    BY <2>1 DEF InStep, Together
  <2>3. Sealed(e, body).body # "bye"
    BY DEF Sealed
  <2>4. wire' = wire \/ wire' = [wire EXCEPT ![e] = @ \cup {Sealed(e, body)}]
    BY DEF seal_into
  <2>5. ASSUME NEW f \in End, NEW p \in wire'[f] PROVE p.body # "bye"
    <3>1. wire \in [End -> SUBSET Packet]
      BY Zenon DEF Inv, TypeOK
    <3>2. wire'[f] \subseteq wire[f] \cup {Sealed(e, body)}
      BY <2>4, <3>1
    <3>3. QED
      BY <2>2, <2>3, <3>2
  <2>6. QED
    BY <2>1, <2>5
<1>3. UNCHANGED <<pending, wire1, wire2, attempts>>
  BY DEF seal_into
<1>4. QED
  BY <1>1, <1>2, <1>3, SlotsInStep

\* A step that touches nothing the two ends compare keeps them in step.
LEMMA ElsewhereInStep ==
    ASSUME Inv, InStep,
           UNCHANGED <<session, next, previous, pending, wires, attempts, ordered, restarts, leaving>>
    PROVE  InStep'
<1>1. Stayed' => Stayed
  BY DEF Stayed
<1>2. Stayed' => \A f \in End : \A p \in wire'[f] : p.body # "bye"
  BY <1>1, Zenon DEF InStep, Together, wires
<1>3. QED
  BY <1>1, <1>2, SlotsInStep, Ends DEF wires

\* Every step keeps the two ends in step.
LEMMA StepInStep == Inv /\ InStep /\ [Next]_vars => InStep'
<1> SUFFICES ASSUME Inv, InStep, [Next]_vars PROVE InStep'
  OBVIOUS
<1>0. ordered' = ordered
  BY ZenonT(40) DEF Next, vars
<1> USE <1>0 DEF peerState, crypto, threads, wires, bounds
<1>1. ASSUME SendMsg1 PROVE InStep'
  <2> SUFFICES ASSUME Stayed' PROVE Together'
    BY Zenon DEF InStep
  <2>1. Stayed /\ Together
    BY <1>1, Zenon DEF SendMsg1, Stayed, InStep
  <2>2. /\ attempts \in Nat /\ attempts' = attempts + 1 /\ pending' = attempts'
        /\ wire1' = wire1 \cup {attempts'} /\ wire1 \subseteq Attempt
        /\ UNCHANGED <<wire, wire2>> /\ wire2 \subseteq Attempt \X Sid
    BY <1>1, Bounds DEF SendMsg1, Inv, TypeOK
  <2>3. pending' # None
    BY <2>2 DEF None
  <2>4. \A m \in wire2 : m[1] \in Nat /\ m[1] < attempts'
    BY <2>1, <2>2, Bounds DEF Together, Attempt
  <2>5. \A a \in wire1' : a <= attempts'
    BY <2>1, <2>2, Bounds DEF Together, Attempt
  <2>6. \A m \in wire2 : m[1] <= attempts' /\ m[1] # attempts' /\ \A a \in wire1' : m[1] < a
    BY <2>1, <2>2, <2>4 DEF Together
  <2>7. QED
    BY <2>1, <2>2, <2>3, <2>5, <2>6 DEF Together
<1>2. ASSUME SkipMsg1 PROVE InStep'
  <2> SUFFICES ASSUME Stayed' PROVE Together'
    BY DEF InStep
  <2>1. Stayed /\ Together /\ UNCHANGED <<pending, wire, wire1, wire2, attempts>>
    BY <1>2 DEF SkipMsg1, Stayed, InStep
  <2>2. /\ next'[R] = next[R] /\ session'[R] = session[R]
        /\ session'[I] \in {None, session[I]}
    BY <1>2, Ends DEF SkipMsg1, retire_expired, Retired, Inv, TypeOK
  <2>3. \A s : LastAccepted(s) => LastAccepted(s)'
    BY <2>2 DEF LastAccepted
  <2>4. QED
    BY <2>1, <2>2, <2>3 DEF Together
<1>3. ASSUME NEW a \in wire1, HandleMsg1(a) PROVE InStep'
  <2> SUFFICES ASSUME Stayed' PROVE Together'
    BY DEF InStep
  <2>1. Stayed /\ Together /\ UNCHANGED <<pending, wire, attempts, session>>
    BY <1>3 DEF HandleMsg1, Accept, Stayed, InStep
  <2>2. /\ wire1' = {b \in wire1 : b > a}
        /\ wire2' = wire2 \cup {<<a, sessions'>>}
        /\ next'[R] = sessions'
    BY <1>3, <2>1, Ends DEF HandleMsg1, Accept, Stayed, Inv, TypeOK
  <2>3. /\ attempts \in Nat /\ wire1 \subseteq Nat /\ a \in Nat
        /\ \A m \in wire2 : m[1] \in Nat
    BY Bounds DEF Inv, TypeOK, Attempt
  <2>4. pending # None
    BY <2>1 DEF Together
  <2>5. a <= attempts /\ \A m \in wire2 : m[1] < a
    BY <2>1 DEF Together
  <2>6. \A m \in wire2' : m[1] <= attempts /\ \A b \in wire1' : m[1] < b
    <3>1. \A m \in wire2 : m[1] <= attempts /\ \A b \in wire1' : m[1] < b
      BY <2>1, <2>2 DEF Together
    <3>2. a <= attempts /\ \A b \in wire1' : a < b
      BY <2>2, <2>3, <2>5
    <3>3. QED
      BY <2>2, <3>1, <3>2
  <2>7. \A m \in wire2' : m[1] = attempts => m[2] = next'[R]
    BY <2>2, <2>3, <2>5
  <2>8. QED
    BY <2>1, <2>2, <2>4, <2>6, <2>7 DEF Together, LastAccepted
<1>4. ASSUME NEW m \in wire2, HandleMsg2(m[1], m[2]) PROVE InStep'
  <2> SUFFICES ASSUME Stayed' PROVE Together'
    BY DEF InStep
  <2>1. Stayed /\ Together /\ UNCHANGED <<wire, wire1, attempts>> /\ wire2' \subseteq wire2
    BY <1>4 DEF HandleMsg2, Stayed, InStep
  <2>2. m[1] \in Attempt /\ m[2] \in Sid
    BY DEF Inv, TypeOK
  <2>3. CASE pending = m[1]
    <3>1. pending = attempts
      BY <2>1, <2>2, <2>3, Bounds DEF Together, Attempt, None
    <3>2. LastAccepted(m[2])
      BY <2>1, <2>3, <3>1, ZenonT(40) DEF Together
    <3>3. wire1 = {}
      <4> SUFFICES ASSUME NEW b \in wire1 PROVE FALSE
        OBVIOUS
      <4>1. m[1] < b /\ b <= attempts /\ b \in Nat
        BY <2>1, Bounds DEF Together, Inv, TypeOK, Attempt
      <4>2. QED
        BY <4>1, <2>2, <2>3, <3>1, Bounds DEF Attempt
    <3>4. /\ pending' = None /\ session'[I] = m[2]
          /\ session'[R] = session[R] /\ next'[R] = next[R]
      BY <1>4, <2>3, Ends DEF HandleMsg2, Install, Inv, TypeOK
    <3>5. \A s : LastAccepted(s) => LastAccepted(s)'
      BY <3>4 DEF LastAccepted
    <3>6. QED
      BY <2>1, <3>2, <3>3, <3>4, <3>5 DEF Together
  <2>4. CASE pending # m[1]
    <3>1. UNCHANGED peerState
      BY <1>4, <2>4 DEF HandleMsg2
    <3>2. QED
      BY <2>1, <3>1, Zenon DEF Together, LastAccepted
  <2>5. QED
    BY <2>3, <2>4
<1>5. ASSUME NEW e \in End, NEW p \in wire[Peer(e)], HandleTransport(e, p) PROVE InStep'
  <2>1. UNCHANGED <<wire1, wire2, wire, attempts>> /\ (Stayed' => Stayed)
    BY <1>5 DEF HandleTransport, Stayed
  <2>2. Stayed => p.body # "bye" /\ \A f \in End : \A q \in wire[f] : q.body # "bye"
    BY Ends DEF InStep, Together, Peer
  <2>3. CASE p.body # "bye"
    <3>1. Confirm(e) \/ UNCHANGED <<session, next, previous>>
      BY <1>5, <2>3 DEF HandleTransport
    <3>2. pending' = pending
      BY <1>5, <2>3 DEF HandleTransport
    <3>3. QED
      BY <2>1, <2>2, <3>1, <3>2, SlotsInStep, Zenon
  <2>4. QED
    BY <2>1, <2>2, <2>3 DEF InStep
<1>6. ASSUME NEW e \in End, SendData(e) PROVE InStep'
  BY <1>6, SealInStep DEF SendData
<1>7. ASSUME NEW e \in End, KeepaliveDue(e) PROVE InStep'
  BY <1>7, ElsewhereInStep, Zenon DEF KeepaliveDue
<1>8. ASSUME NEW e \in End, KeepaliveSend(e) PROVE InStep'
  BY <1>8, SealInStep DEF KeepaliveSend
<1>9. ASSUME NEW e \in End, KeepaliveNote(e) PROVE InStep'
  BY <1>9, ElsewhereInStep DEF KeepaliveNote
<1>10. ASSUME MoveCarrier PROVE InStep'
  BY <1>10, ElsewhereInStep DEF MoveCarrier
<1>11. ASSUME AnnounceMove PROVE InStep'
  BY <1>11, SealInStep, Ends DEF AnnounceMove
<1>12. ASSUME CarrierOpens PROVE InStep'
  BY <1>12, ElsewhereInStep DEF CarrierOpens
<1>13. ASSUME AnnounceOpening PROVE InStep'
  BY <1>13, SealInStep, Ends DEF AnnounceOpening
<1>14. ASSUME NEW e \in End, Goodbye(e) PROVE InStep'
  <2>1. leaving'[e]
    BY <1>14 DEF Goodbye, Inv, TypeOK
  <2>2. QED
    BY <2>1, Ends DEF InStep, Stayed
<1>15. ASSUME NEW e \in End, Restart(e) PROVE InStep'
  <2>1. restarts' # 0
    BY <1>15, Bounds DEF Restart, Inv, TypeOK
  <2>2. QED
    BY <2>1 DEF InStep, Stayed
<1>16. ASSUME NEW e \in End, NEW s \in Held(e), Age(e, s) PROVE InStep'
  BY <1>16, ElsewhereInStep DEF Age
<1>17. CASE UNCHANGED vars
  BY <1>17, ElsewhereInStep DEF vars
<1>18. QED
  BY <1>1, <1>2, <1>3, <1>4, <1>5, <1>6, <1>7, <1>8, <1>9, <1>10, <1>11, <1>12, <1>13, <1>14,
     <1>15, <1>16, <1>17, Zenon DEF Next

\* Two ends in step are never stranded.
LEMMA InStepRepairs == Inv /\ InStep => NoSilentStranding
<1> SUFFICES ASSUME Inv, InStep, Stayed, NEW e \in End,
                    Usable(e, session[e]), session[e] \notin Held(Peer(e)),
                    pending = None, session[I] # None
             PROVE  e = R /\ next[R] \in Held(I)
  BY DEF NoSilentStranding, Stayed
<1>1. LastAccepted(session[I])
  BY DEF InStep, Together
<1>2. session[I] \in Held(I) /\ session[e] # None
  BY DEF Held, Usable
<1>3. session[I] = next[R] \/ session[I] = session[R]
  BY <1>1 DEF LastAccepted
<1>4. session[I] \in Held(R)
  BY <1>3 DEF Held
<1>5. e = R
  BY <1>4, Ends DEF Peer
<1>6. session[R] \notin Held(I)
  BY <1>5, Ends DEF Peer
<1>7. QED
  BY <1>2, <1>3, <1>5, <1>6

\* Where handshakes keep their order, no rekey, loss, expiry or carrier move
\* leaves an end sealing under keys its peer has dropped with nothing under way
\* to repair it, until a process leaves (PeerState::install, ::accept, ::confirm,
\* ::retire_expired).
THEOREM StrandingIsRepaired == Spec => []NoSilentStranding
<1>1. Init => InStep
  <2> SUFFICES ASSUME Init PROVE Together
    BY DEF InStep
  <2>1. QED
    BY Ends DEF Init, Together
<1>2. QED
  BY <1>1, InitInv, StepInv, StepInStep, InStepRepairs, PTL DEF Spec
=============================================================================
