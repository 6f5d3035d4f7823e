---------------------------- MODULE PeerSessions ----------------------------
(***************************************************************************)
(* Two ends of one tunnel and the keys they hold (paqetz, tunnel.rs        *)
(* PeerState and its handlers; paqetz-core, noise.rs Session).  The        *)
(* initiator I handshakes and rekeys; the responder R answers every        *)
(* initiation that authenticates, and waits for the peer to use a session  *)
(* before sealing under it.                                                *)
(*                                                                         *)
(* A session is named by the accept() that made it, and so is unique even  *)
(* when one initiation is answered twice.  A packet is the session and     *)
(* counter it was sealed under, and what it carries.  Time is left out:    *)
(* a timer may fire whenever the code's own guard allows it, and a session *)
(* passes REJECT_AFTER_TIME in a step of its own (Age).                    *)
(*                                                                         *)
(* Threads: W reads the wire, T the device, K runs the timers.  Every step *)
(* below is one critical section of the PeerState mutex.                   *)
(***************************************************************************)
EXTENDS Naturals, FiniteSets

CONSTANTS
    CONFIRM_TRIES,      \* confirmations before giving up: 4 in the code
    REJECT_AFTER_MESSAGES,  \* packets one end may seal under one session
    Keepalive,          \* the ends configured to send keepalives
    Ordered,            \* whether handshake messages arrive in order and once: the paths
    MaxAttempts,        \* bound: initiations ever sent
    MaxSessions,        \* bound: sessions ever accepted
    MaxMoves,           \* bound: moves of the initiator's carrier
    MaxRestarts         \* bound: restarts, of either process

ASSUME SessionsAssumption ==
    /\ CONFIRM_TRIES \in Nat \ {0}
    /\ REJECT_AFTER_MESSAGES \in Nat
    /\ Keepalive \subseteq {"I", "R"}
    /\ Ordered \subseteq BOOLEAN
    /\ {MaxAttempts, MaxSessions, MaxMoves, MaxRestarts} \subseteq Nat

I == "I"
R == "R"
End == {I, R}
Peer(e) == IF e = I THEN R ELSE I

None    == 0
Attempt == 1 .. MaxAttempts
Sid     == 1 .. MaxSessions
Body    == {"data", "empty", "bye"}
Packet  == [sid : Sid, ctr : 0 .. REJECT_AFTER_MESSAGES - 1, body : Body]

VARIABLES
    session, next, previous,        \* the three slots of each end's PeerState
    pending,                        \* I: the initiation awaiting its reply
    confirm_owed, confirm_tries,    \* I: only install() ever sets them
    sent, accepted,                 \* send counter, and replay window, of each session
    aged,                           \* sessions past REJECT_AFTER_TIME, at each end
    ready,                          \* whether each end's carrier can take data
    kpc, wpc,                       \* where each K, and the initiator's W, stands
    leaving,                        \* said goodbye, not yet gone
    wire1, wire2, wire,             \* initiations, replies, and each end's packets
    ordered,                        \* whether this path keeps handshakes in order
    attempts, sessions, moves, restarts,
    installed                       \* history: the sessions the initiator installed

peerState == <<session, next, previous, pending, confirm_owed, confirm_tries>>
crypto    == <<sent, accepted, aged>>
threads   == <<ready, kpc, wpc, leaving>>
wires     == <<wire1, wire2, wire>>
bounds    == <<attempts, sessions, moves, restarts>>
vars      == <<peerState, crypto, threads, wires, ordered, bounds, installed>>

TypeOK ==
    /\ session  \in [End -> Sid \cup {None}]
    /\ next     \in [End -> Sid \cup {None}]
    /\ previous \in [End -> Sid \cup {None}]
    /\ pending  \in Attempt \cup {None}
    /\ confirm_owed  \in BOOLEAN
    /\ confirm_tries \in 0 .. CONFIRM_TRIES
    /\ sent     \in [End -> [Sid -> 0 .. REJECT_AFTER_MESSAGES]]
    /\ accepted \in [End -> [Sid -> SUBSET (0 .. REJECT_AFTER_MESSAGES - 1)]]
    /\ aged     \in [End -> SUBSET Sid]
    /\ ready    \in [End -> BOOLEAN]
    /\ kpc      \in [End -> {"idle", "send", "note", "announce"}]
    /\ wpc      \in {"idle", "announce", "handshake"}
    /\ leaving  \in [End -> BOOLEAN]
    /\ wire1    \subseteq Attempt
    /\ wire2    \subseteq Attempt \X Sid
    /\ wire     \in [End -> SUBSET Packet]
    /\ ordered  \in Ordered
    /\ attempts \in 0 .. MaxAttempts
    /\ sessions \in 0 .. MaxSessions
    /\ moves    \in 0 .. MaxMoves
    /\ restarts \in 0 .. MaxRestarts
    /\ installed \subseteq Sid

Held(e) == {session[e], next[e], previous[e]} \ {None}

Usable(e, s) == s # None /\ s \notin aged[e]

-----------------------------------------------------------------------------
\* Session::open: expiry first, then the index, then the replay window.
Try(e, s, p) == IF s = None                      THEN "none"
                ELSE IF s \in aged[e]            THEN "expired"
                ELSE IF s # p.sid                THEN "rejected"
                ELSE IF p.ctr \in accepted[e][s] THEN "replay"
                ELSE "ok"

\* Mutant of FallsThrough: an expired session ends the search.
StopsAtExpired(result) == result \in {"none", "rejected"}

\* An expired session yields to the next slot exactly as a mismatched one does.
FallsThrough(result) == result \in {"none", "expired", "rejected"}

\* PeerState::open: the slot that answered for the packet, and its answer.
open(e, p) ==
    IF ~FallsThrough(Try(e, session[e], p))
    THEN <<"session", Try(e, session[e], p)>>
    ELSE IF ~FallsThrough(Try(e, previous[e], p))
    THEN <<"previous", Try(e, previous[e], p)>>
    ELSE <<"next", Try(e, next[e], p)>>

\* PeerState::confirm: the waiting session, if there is one, becomes current.
Confirm(e) ==
    /\ session'  = [session  EXCEPT ![e] = IF next[e] = None THEN @ ELSE next[e]]
    /\ previous' = [previous EXCEPT ![e] = IF next[e] = None THEN @ ELSE session[e]]
    /\ next'     = [next EXCEPT ![e] = None]

\* PeerState::install, on the side that asked for the session.
Install(s) ==
    /\ session'  = [session EXCEPT ![I] = s]
    /\ previous' = [previous EXCEPT ![I] = session[I]]
    /\ next'     = [next EXCEPT ![I] = None]
    /\ confirm_owed' = TRUE
    /\ confirm_tries' = 0

\* Mutant of Accept: the session is sealed under before the peer has used it.
AcceptAtOnce(s) ==
    /\ session'  = [session EXCEPT ![R] = s]
    /\ previous' = [previous EXCEPT ![R] = session[R]]
    /\ next'     = [next EXCEPT ![R] = None]

\* PeerState::accept, on the side that was asked.
Accept(s) ==
    /\ next' = [next EXCEPT ![R] = s]
    /\ UNCHANGED <<session, previous>>

\* PeerState::farewell: every key goes, and the handshake under way with them.
Forget(e) ==
    /\ session'  = [session  EXCEPT ![e] = None]
    /\ next'     = [next     EXCEPT ![e] = None]
    /\ previous' = [previous EXCEPT ![e] = None]
    /\ pending' = IF e = I THEN None ELSE pending
    /\ confirm_owed' = (e # I /\ confirm_owed)
    /\ confirm_tries' = IF e = I THEN 0 ELSE confirm_tries

\* The session seal_into() settles on: one that is absent or expired yields to
\* the one waiting, if there is one.
Current(e) == IF ~Usable(e, session[e]) /\ next[e] # None THEN next[e] ELSE session[e]

\* Session::seal refuses a session past its age or its message count.
Refused(e) == \/ Current(e) \in aged[e]
              \/ sent[e][Current(e)] >= REJECT_AFTER_MESSAGES

\* seal_into() spends a counter only on a usable session over a carrier that is
\* ready; a packet that finds either missing is dropped unsealed.
Seals(e) == Current(e) # None /\ ready[e] /\ ~Refused(e)

Sealed(e, body) == [sid |-> Current(e), ctr |-> sent[e][Current(e)], body |-> body]

\* Mutant of seal_into: only data moves the counter on.
SealCountsData(e, body) ==
    /\ IF Usable(e, session[e]) THEN UNCHANGED <<session, next, previous>> ELSE Confirm(e)
    /\ IF Seals(e)
       THEN /\ sent' = [sent EXCEPT ![e][Current(e)] = IF body = "data" THEN @ + 1 ELSE @]
            /\ wire' = [wire EXCEPT ![e] = @ \cup {Sealed(e, body)}]
       ELSE UNCHANGED <<sent, wire>>
    /\ UNCHANGED <<pending, confirm_owed, confirm_tries, accepted, aged, ready,
                   wire1, wire2, installed>>

seal_into(e, body) ==
    /\ IF Usable(e, session[e]) THEN UNCHANGED <<session, next, previous>> ELSE Confirm(e)
    /\ \/ /\ Seals(e)
          /\ sent' = [sent EXCEPT ![e][Current(e)] = @ + 1]
          /\ wire' = [wire EXCEPT ![e] = @ \cup {Sealed(e, body)}]
       \/ /\ ~Seals(e)
          /\ UNCHANGED <<sent, wire>>
    /\ UNCHANGED <<pending, confirm_owed, confirm_tries, accepted, aged, ready,
                   wire1, wire2, installed>>

-----------------------------------------------------------------------------
Init ==
    /\ session = [e \in End |-> None]
    /\ next = [e \in End |-> None]
    /\ previous = [e \in End |-> None]
    /\ pending = None
    /\ confirm_owed = FALSE
    /\ confirm_tries = 0
    /\ sent = [e \in End |-> [s \in Sid |-> 0]]
    /\ accepted = [e \in End |-> [s \in Sid |-> {}]]
    /\ aged = [e \in End |-> {}]
    /\ ready = [e \in End |-> e = R]
    /\ kpc = [e \in End |-> "idle"]
    /\ wpc = "idle"
    /\ leaving = [e \in End |-> FALSE]
    /\ wire1 = {}
    /\ wire2 = {}
    /\ wire = [e \in End |-> {}]
    /\ ordered \in Ordered
    /\ attempts = 0
    /\ sessions = 0
    /\ moves = 0
    /\ restarts = 0
    /\ installed = {}

\* A session crosses REJECT_AFTER_TIME at one end, the older ones first.
Age(e, s) ==
    /\ s \in Held(e) \ aged[e]
    /\ s \in {session[e], next[e]} => ~Usable(e, previous[e])
    /\ s = next[e] => ~Usable(e, session[e])
    /\ aged' = [aged EXCEPT ![e] = @ \cup {s}]
    /\ UNCHANGED <<peerState, sent, accepted, threads, wires, bounds, installed>>

\* PeerState::retire_expired: what one slot keeps.
Retired(slot) == [slot EXCEPT ![I] = IF @ \in aged[I] THEN None ELSE @]

retire_expired ==
    /\ session' = Retired(session)
    /\ previous' = Retired(previous)
    /\ next' = Retired(next)

\* maybe_handshake runs in K on every tick, and in W once a carrier opens with
\* no session to carry.
InMaybeHandshake == \/ kpc[I] = "idle" /\ ~leaving[I]
                    \/ wpc = "handshake"

WLeaves == wpc' = IF wpc = "handshake" THEN "idle" ELSE wpc

\* maybe_handshake, when a handshake is due and the carrier can take it.
SendMsg1 ==
    /\ InMaybeHandshake
    /\ ready[I]
    /\ attempts < MaxAttempts
    /\ retire_expired
    /\ attempts' = attempts + 1
    /\ pending' = attempts'
    /\ wire1' = wire1 \cup {attempts'}
    /\ WLeaves
    /\ UNCHANGED <<confirm_owed, confirm_tries, crypto, ready, kpc, leaving, wire2, wire,
                   sessions, moves, restarts, installed>>

\* maybe_handshake, when it returns early: not due, or the carrier not open.
SkipMsg1 ==
    /\ InMaybeHandshake
    /\ retire_expired
    /\ WLeaves
    /\ UNCHANGED <<pending, confirm_owed, confirm_tries, crypto, ready, kpc, leaving, wires,
                   bounds, installed>>

\* handle_msg1: a session for every initiation that authenticates, a second
\* copy of one included.
HandleMsg1(a) ==
    /\ a \in wire1
    /\ sessions < MaxSessions
    /\ sessions' = sessions + 1
    /\ Accept(sessions')
    /\ wire1' = IF ordered THEN {b \in wire1 : b > a} ELSE wire1
    /\ wire2' = wire2 \cup {<<a, sessions'>>}
    /\ UNCHANGED <<pending, confirm_owed, confirm_tries, crypto, threads, wire,
                   attempts, moves, restarts, installed>>

\* Mutant of HandleMsg2: any reply completes the handshake under way.
AnyReply(a, s) ==
    /\ wpc = "idle"
    /\ <<a, s>> \in wire2
    /\ pending # None
    /\ wire2' = IF ordered THEN {m \in wire2 : m[2] > s} ELSE wire2
    /\ Install(s)
    /\ pending' = None
    /\ installed' = installed \cup {s}
    /\ UNCHANGED <<crypto, threads, wire1, wire, bounds>>

\* handle_msg2: a reply completes the handshake it answers, and no other.
HandleMsg2(a, s) ==
    /\ wpc = "idle"
    /\ <<a, s>> \in wire2
    /\ wire2' = IF ordered THEN {m \in wire2 : m[2] > s} ELSE wire2
    /\ \/ /\ pending = a
          /\ Install(s)
          /\ pending' = None
          /\ installed' = installed \cup {s}
       \/ /\ pending # a
          /\ UNCHANGED <<peerState, installed>>
    /\ UNCHANGED <<crypto, threads, wire1, wire, bounds>>

\* handle_transport: the packet is opened, recorded in the replay window of the
\* session that opened it, and acted on.
HandleTransport(e, p) ==
    /\ e = I => wpc = "idle"
    /\ p \in wire[Peer(e)]
    /\ open(e, p)[2] = "ok"
    /\ accepted' = [accepted EXCEPT ![e][p.sid] = @ \cup {p.ctr}]
    /\ \/ /\ p.body = "bye"
          /\ Forget(e)
       \/ /\ p.body # "bye" /\ open(e, p)[1] = "session"
          /\ confirm_owed' = (e # I /\ confirm_owed)
          /\ confirm_tries' = IF e = I THEN 0 ELSE confirm_tries
          /\ UNCHANGED <<session, next, previous, pending>>
       \/ /\ p.body # "bye" /\ open(e, p)[1] = "previous"
          /\ UNCHANGED peerState
       \/ /\ p.body # "bye" /\ open(e, p)[1] = "next"
          /\ Confirm(e)
          /\ UNCHANGED <<pending, confirm_owed, confirm_tries>>
    /\ UNCHANGED <<sent, aged, threads, wires, bounds, installed>>

\* T: one inner packet, read from the device.
SendData(e) ==
    /\ seal_into(e, "data")
    /\ UNCHANGED <<kpc, wpc, leaving, bounds>>

\* K, maybe_keepalive: the decision, under the lock.  A confirmation is owed
\* whether or not keepalives are configured.
KeepaliveDue(e) ==
    /\ kpc[e] = "idle" /\ ~leaving[e]
    /\ session[e] # None
    /\ (e = I /\ confirm_owed) \/ e \in Keepalive
    /\ kpc' = [kpc EXCEPT ![e] = "send"]
    /\ UNCHANGED <<peerState, crypto, ready, wpc, leaving, wires, bounds, installed>>

\* K, maybe_keepalive: the empty packet, sealed under whatever session is
\* current by now.  A packet dropped for want of a session or a ready carrier is
\* no error; one an expired session refuses to seal ends the function.
KeepaliveSend(e) ==
    /\ kpc[e] = "send"
    /\ seal_into(e, "empty")
    /\ kpc' = [kpc EXCEPT ![e] =
                  IF Current(e) # None /\ ready[e] /\ Refused(e) THEN "idle" ELSE "note"]
    /\ UNCHANGED <<wpc, leaving, bounds>>

\* K, maybe_keepalive: the count, under the lock again.
KeepaliveNote(e) ==
    /\ kpc[e] = "note"
    /\ kpc' = [kpc EXCEPT ![e] = "idle"]
    /\ \/ /\ e = I /\ confirm_owed
          /\ confirm_tries' = confirm_tries + 1
          /\ confirm_owed' = (confirm_tries' < CONFIRM_TRIES)
       \/ /\ ~(e = I /\ confirm_owed)
          /\ UNCHANGED <<confirm_owed, confirm_tries>>
    /\ UNCHANGED <<session, next, previous, pending, crypto, ready, wpc, leaving, wires,
                   bounds, installed>>

\* K, maybe_rotate: a new carrier.  One opened by a real handshake takes nothing
\* until it is answered; every other kind, and a standby already open, is ready
\* at once and announced with an empty packet.
MoveCarrier ==
    /\ kpc[I] = "idle" /\ ~leaving[I]
    /\ moves < MaxMoves
    /\ moves' = moves + 1
    /\ \E open_now \in BOOLEAN :
          /\ ready' = [ready EXCEPT ![I] = open_now]
          /\ kpc' = [kpc EXCEPT ![I] = IF session[I] # None /\ open_now THEN "announce" ELSE @]
    /\ UNCHANGED <<peerState, crypto, wpc, leaving, wires, attempts, sessions, restarts, installed>>

AnnounceMove ==
    /\ kpc[I] = "announce"
    /\ seal_into(I, "empty")
    /\ kpc' = [kpc EXCEPT ![I] = "idle"]
    /\ UNCHANGED <<wpc, leaving, bounds>>

\* W, handle_syn_ack: the connection opens.  A session carried over to it is
\* announced; with none, the handshake that was waiting goes.
CarrierOpens ==
    /\ wpc = "idle"
    /\ ~ready[I]
    /\ ready' = [ready EXCEPT ![I] = TRUE]
    /\ wpc' = IF session[I] # None THEN "announce" ELSE "handshake"
    /\ UNCHANGED <<peerState, crypto, kpc, leaving, wires, bounds, installed>>

AnnounceOpening ==
    /\ wpc = "announce"
    /\ seal_into(I, "empty")
    /\ wpc' = "idle"
    /\ UNCHANGED <<kpc, leaving, bounds>>

\* run(), told to stop: say_goodbye, then stop.  The threads are not joined.
Goodbye(e) ==
    /\ ~leaving[e]
    /\ restarts < MaxRestarts
    /\ leaving' = [leaving EXCEPT ![e] = TRUE]
    /\ \/ session[e] # None /\ seal_into(e, "bye")
       \/ session[e] = None /\ UNCHANGED <<peerState, crypto, ready, wires, installed>>
    /\ UNCHANGED <<kpc, wpc, bounds>>

\* The process is gone, after a goodbye or without one, and a new one started.
Restart(e) ==
    /\ restarts < MaxRestarts
    /\ restarts' = restarts + 1
    /\ Forget(e)
    /\ leaving' = [leaving EXCEPT ![e] = FALSE]
    /\ ready' = [ready EXCEPT ![e] = e = R]
    /\ kpc' = [kpc EXCEPT ![e] = "idle"]
    /\ wpc' = IF e = I THEN "idle" ELSE wpc
    /\ UNCHANGED <<crypto, wires, attempts, sessions, moves, installed>>

Next ==
    /\ UNCHANGED ordered
    /\ \/ SendMsg1 \/ SkipMsg1
       \/ \E a \in wire1 : HandleMsg1(a)
       \/ \E m \in wire2 : HandleMsg2(m[1], m[2])
       \/ MoveCarrier \/ AnnounceMove \/ CarrierOpens \/ AnnounceOpening
       \/ \E e \in End :
             \/ \E p \in wire[Peer(e)] : HandleTransport(e, p)
             \/ SendData(e)
             \/ KeepaliveDue(e) \/ KeepaliveSend(e) \/ KeepaliveNote(e)
             \/ Goodbye(e) \/ Restart(e)
             \/ \E s \in Held(e) : Age(e, s)

Spec == Init /\ [][Next]_vars

-----------------------------------------------------------------------------
\* No end ever seals two packets under one session with one counter, through
\* every rekey, promotion and restart: the counter is the AEAD's nonce
\* (noise.rs `seal`), and reusing one would give both packets away.
NonceUsedOnce ==
    \A e \in End : \A p, q \in wire[e] : p.sid = q.sid /\ p.ctr = q.ctr => p = q

\* The responder leaves a working session only for one the initiator has
\* installed (PeerState::accept, ::confirm): no copy of an initiation, however
\* late, moves it onto keys its peer does not have.
PromotesOnlyInstalled ==
    [][LET old == session[R]  new == session'[R]
       IN  Usable(R, old) /\ new # old /\ new # None => new \in installed]_vars

\* A packet sealed under a session this end still holds is opened, whatever the
\* other slots hold and however old they are (PeerState::open): an expired
\* session never answers for a packet addressed to another one.
OpenReachesItsSession ==
    \A e \in End : \A p \in wire[Peer(e)] :
        /\ p.sid \in Held(e) \ aged[e]
        /\ p.ctr \notin accepted[e][p.sid]
        => open(e, p)[2] = "ok"

\* Where handshakes keep their order and no process has left, sealing under keys
\* the peer has dropped is always being repaired: a handshake is under way, or
\* the initiator has no session and is about to start one, or the responder
\* holds the session the initiator will speak under next (PeerState::install,
\* ::accept, ::confirm).
NoSilentStranding ==
    ordered /\ restarts = 0 /\ ~leaving[I] /\ ~leaving[R] =>
    \A e \in End :
        Usable(e, session[e]) /\ session[e] \notin Held(Peer(e))
        => \/ pending # None
           \/ session[I] = None
           \/ e = R /\ next[R] \in Held(I)
=============================================================================
