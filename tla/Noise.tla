-------------------------------- MODULE Noise --------------------------------
(***************************************************************************)
(* The handshake between a server's tunnels and their clients: what        *)
(* noise.rs puts in the two messages, and how tunnel.rs tells what arrived *)
(* and for whom.  The tunnels of a server share one identity, and under    *)
(* a carrier without ports every end hears every message, its own too,     *)
(* as often as the path likes.  A Noise message is external: it opens for  *)
(* whoever holds the right keys, and names the ephemerals that made it.    *)
(* Which of an end's sessions is in use is in PeerSessions.                *)
(***************************************************************************)
EXTENDS Integers, FiniteSets

CONSTANTS Clients,
          MSG1_LEN, MSG2_LEN, MAX_PAD,
          Numbers,      \* what a random index or epoch may be
          MaxStarts, MaxAccepts

(* Lengths are lengths.                                                    *)
NoiseAssumption == MSG1_LEN \in Nat /\ MSG2_LEN \in Nat /\ MAX_PAD \in Nat

VARIABLES build,        \* client -> whether it is a build that pads
          starts, accepts,  \* ephemerals used so far by clients, and by the server
          flight,       \* messages the path has, each of which may arrive at any end
          trying,       \* client -> the Initiator it holds
          last,         \* client -> the attempt its process made last
          mine,         \* client -> the session it installed last
          theirs        \* tunnel, named by its client -> sessions accepted

noiseVars == <<build, starts, accepts, flight, trying, last, mine, theirs>>

Server == "server"
None == [e |-> 0]

(* The build before padding writes the shortest messages and takes only    *)
(* those; of a build that pads the draw may still be zero.                 *)
Predates(c) == build[c] = "plain"
handshake_pad == 0 .. MAX_PAD

pack_payload(index, epoch) == [index |-> index, epoch |-> epoch]

(* mac1 is keyed on the recipient's public key.                            *)
seal_mac1(recipient, m) == [m EXCEPT !.mac1 = recipient]
verify_mac1(recipient, m) == m.mac1 = recipient

------------------------------------------------------------------------------
NoiseInit ==
  /\ build \in [Clients -> {"plain", "pads"}]
  /\ starts = 0 /\ accepts = 0 /\ flight = {}
  /\ trying = [c \in Clients |-> None] /\ last = [c \in Clients |-> 0]
  /\ mine = [c \in Clients |-> None]
  /\ theirs = [c \in Clients |-> {}]

(* Initiator::start, from maybe_handshake: a new attempt replaces one that *)
(* was not answered.                                                       *)
start(c) ==
  /\ starts < MaxStarts /\ starts' = starts + 1
  /\ \E index, epoch \in Numbers, pad \in (IF Predates(c) THEN {0} ELSE handshake_pad) :
       /\ flight' = flight \cup
            {seal_mac1(Server, [kind |-> 1, len |-> MSG1_LEN + pad, e |-> starts', r |-> 0,
                                static |-> c, payload |-> pack_payload(index, epoch),
                                mac1 |-> "none"])}
       /\ trying' = [trying EXCEPT ![c] =
            [e |-> starts', local_index |-> index, epoch |-> epoch]]
  /\ last' = [last EXCEPT ![c] = starts']
  /\ UNCHANGED <<build, accepts, mine, theirs>>

(* PendingResponder::read: the length, mac1, and a message the server's    *)
(* key opens.                                                              *)
read(m) ==
  /\ m.len \in MSG1_LEN .. MSG1_LEN + MAX_PAD
  /\ verify_mac1(Server, m)
  /\ m.kind = 1

\* Mutant of Authorized: whoever knows the server's key is let in.
AuthorizedAny(t, m) == TRUE

Authorized(t, m) == m.static = t

\* Mutant of ReplyPad: a reply is padded whether or not it was asked for.
ReplyPadAlways(m) == handshake_pad

ReplyPad(m) == IF m.len > MSG1_LEN THEN handshake_pad ELSE {0}

(* PendingResponder::accept: the reply, and the session it leaves here.    *)
accept(t, m, index, pad) ==
  /\ accepts < MaxAccepts /\ accepts' = accepts + 1
  /\ flight' = flight \cup
       {seal_mac1(m.static, [kind |-> 2, len |-> MSG2_LEN + pad, e |-> m.e, r |-> accepts',
                             static |-> Server, payload |-> pack_payload(index, m.payload.epoch),
                             mac1 |-> "none"])}
  /\ theirs' = [theirs EXCEPT ![t] = @ \cup
       {[e |-> m.e, r |-> accepts', local_index |-> index, remote_index |-> m.payload.index,
         epoch |-> m.payload.epoch]}]

(* A tunnel of the server handles a message: anything else is taken for a  *)
(* transport packet, which changes nothing here.                           *)
handle_msg1(t, m) ==
  /\ read(m) /\ Authorized(t, m)
  /\ \E index \in Numbers, pad \in ReplyPad(m) : accept(t, m, index, pad)
  /\ UNCHANGED <<build, starts, trying, last, mine>>

(* What of `m` the client takes for a reply, and Initiator::finish: the    *)
(* message opens under the ephemeral of the attempt it holds.              *)
Reply(c, m) ==
  /\ m.len \in MSG2_LEN .. (IF Predates(c) THEN MSG2_LEN ELSE MSG2_LEN + MAX_PAD)
  /\ verify_mac1(c, m)

finish(c, m) ==
  /\ m.kind = 2 /\ m.e = trying[c].e
  /\ m.payload.epoch = trying[c].epoch

\* Mutant of handle_msg2: the attempt is spent before the reply has opened.
HandleMsg2Takes(c, m) ==
  /\ Reply(c, m) /\ trying[c] # None
  /\ trying' = [trying EXCEPT ![c] = None]
  /\ mine' = [mine EXCEPT ![c] =
       IF finish(c, m)
       THEN [e |-> m.e, r |-> m.r, local_index |-> trying[c].local_index,
             remote_index |-> m.payload.index, epoch |-> trying[c].epoch]
       ELSE @]
  /\ UNCHANGED <<build, starts, accepts, flight, last, theirs>>

handle_msg2(c, m) ==
  /\ Reply(c, m) /\ finish(c, m)
  /\ trying' = [trying EXCEPT ![c] = None]
  /\ mine' = [mine EXCEPT ![c] =
       [e |-> m.e, r |-> m.r, local_index |-> trying[c].local_index,
        remote_index |-> m.payload.index, epoch |-> trying[c].epoch]]
  /\ UNCHANGED <<build, starts, accepts, flight, last, theirs>>

(* A client starts again, perhaps as another build.                        *)
Restart(c) ==
  /\ build' = [build EXCEPT ![c] = "pads"]
  /\ trying' = [trying EXCEPT ![c] = None] /\ last' = [last EXCEPT ![c] = 0]
  /\ mine' = [mine EXCEPT ![c] = None]
  /\ UNCHANGED <<starts, accepts, flight, theirs>>

NoiseNext ==
  \E c \in Clients :
    \/ start(c) \/ Restart(c)
    \/ \E m \in flight : handle_msg1(c, m) \/ handle_msg2(c, m)

NoiseSpec == NoiseInit /\ [][NoiseNext]_noiseVars

------------------------------------------------------------------------------
(* A client's session has its other half at the client's own tunnel: made  *)
(* of the same two ephemerals, under the same epoch, each end stamping the *)
(* index the other one expects; and no tunnel holds a session with another *)
(* tunnel's client (accept, finish, the authorization in handle_msg1).     *)
SessionsPair ==
  \A c \in Clients :
    /\ mine[c] # None =>
         \E s \in theirs[c] :
           /\ s.e = mine[c].e /\ s.r = mine[c].r /\ s.epoch = mine[c].epoch
           /\ s.local_index = mine[c].remote_index /\ s.remote_index = mine[c].local_index
    /\ \A m \in flight, s \in theirs[c] : m.kind = 1 /\ m.e = s.e => m.static = c

(* The reply to the last attempt a client's process made completes it      *)
(* whenever it comes, unless one already did: replies to earlier attempts, *)
(* other clients' replies and copies spend nothing, and a client that      *)
(* predates padding is answered at the length it takes, so that a server   *)
(* may be upgraded first (finish, handle_msg1, handle_msg2).               *)
ReplyCompletes ==
  \A c \in Clients, m \in flight :
    m.kind = 2 /\ m.e = last[c] /\ mine[c].e # m.e => Reply(c, m) /\ finish(c, m)

(* Both: what a completed handshake leaves, and that it completes.         *)
HandshakesPair == SessionsPair /\ ReplyCompletes
==============================================================================
