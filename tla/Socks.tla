-------------------------------- MODULE Socks --------------------------------
(***************************************************************************)
(* One client of the SOCKS5 listener (paqetz-net4 server.rs, protocol.rs,  *)
(* dial.rs, dns.rs): the handshake, a CONNECT with its lookup, its dial    *)
(* and its two copying threads, and a UDP association.  The listener runs  *)
(* one thread per connection and they share nothing, so one stands for     *)
(* all.  What leaves the host is recorded with the way it left by.  The    *)
(* routing rule of the mark may be taken away at any time by something     *)
(* else on the host.  An address is its family; bytes are counted.         *)
(***************************************************************************)
EXTENDS Integers, Sequences

CONSTANTS Answers,        \* address lists this host's own resolver may return
          ATTEMPTS, MaxBytes, MaxDatagrams

VARIABLES setting,        \* credentials, a resolver of its own, the client's interface
          rule,           \* the mark's policy rule is there
          phase,          \* where the connection's thread is
          asked,          \* queries sent over UDP so far
          targets,        \* addresses still to be tried
          replies,        \* what the client was told
          left,           \* what left the host: what it was, by which way, and for whom
          pipe,           \* direction -> one copying thread and its two ends
          reset,          \* ends of the relay that went away
          peer,           \* the sender the association serves, or nobody
          dgrams,         \* datagrams sent to the relay socket: by whom, heard or not
          wrapped         \* datagrams handed on to the client: to whom, from whom

vars == <<setting, rule, phase, asked, targets, replies, left, pipe, reset, peer, dgrams, wrapped>>

lookups == <<asked, targets>>
relays == <<pipe, reset>>
association == <<peer, dgrams, wrapped>>

Directions == {"up", "down"}
Sides == {"client", "target"}
From(d) == IF d = "up" THEN "client" ELSE "target"
To(d) == IF d = "up" THEN "target" ELSE "client"
Opposite(d) == IF d = "up" THEN "down" ELSE "up"

------------------------------------------------------------------------------
\* Mutant of marked_socket: the mark alone.
MarkOnly == [mark |-> TRUE, device |-> FALSE]

(* Stamped with the mark and then bound to the device, which the listener  *)
(* always has.                                                             *)
marked_socket == [mark |-> TRUE, device |-> TRUE]

(* A socket of the standard library's own making.                          *)
plain_socket == [mark |-> FALSE, device |-> FALSE]

(* The kernel: a bound socket uses its device, a marked one the table its  *)
(* rule names while there is a rule; a bound socket hears its device only. *)
Way(s) == IF s.device \/ (s.mark /\ rule) THEN "tunnel" ELSE "beside"
Hears(s, interface) == s.device => interface = "tunnel"

Sent(what, s, by) == [what |-> what, way |-> Way(s), by |-> by]

tunnelable(list) == SelectSeq(list, LAMBDA a : a = 4)

reply_code_for(e) ==
  CASE e = "refused" -> "CONNECTION_REFUSED"
    [] e = "not found" -> "HOST_UNREACHABLE"
    [] e = "unsupported" -> "ADDRESS_NOT_SUPPORTED"
    [] OTHER -> "GENERAL_FAILURE"

------------------------------------------------------------------------------
Init ==
  /\ setting \in [credentials : BOOLEAN, dns : BOOLEAN, client : {"lo", "tunnel"}]
  /\ rule = TRUE /\ phase = "negotiate" /\ asked = 0 /\ targets = << >>
  /\ replies = << >> /\ left = {}
  /\ pipe = [d \in Directions |-> [wrote |-> 0, got |-> 0, closed |-> FALSE, eof |-> FALSE]]
  /\ reset = {} /\ peer = "nobody" /\ dgrams = << >> /\ wrapped = {}

Says(code) == replies' = Append(replies, code)

(* The thread ends, its client told why unless it has gone away.           *)
EndsWith(code) == phase' = "closed" /\ (Says(code) \/ UNCHANGED replies)
Fails(e) == EndsWith(reply_code_for(e))

(* negotiate: a client that offers the method wanted and, if asked, the    *)
(* credentials, goes on; any other, one that speaks another version and    *)
(* one that is silent for too long, is dropped.                            *)
negotiate ==
  /\ phase = "negotiate"
  /\ \/ phase' = "request" /\ Says(IF setting.credentials THEN "accepted" ELSE "none")
     \/ EndsWith("unacceptable")
     \/ setting.credentials /\ EndsWith("rejected")
  /\ UNCHANGED <<setting, rule, lookups, left, relays, association>>

(* The addresses a request resolved to, and what connect_tcp makes of them. *)
Dials(list) ==
  IF tunnelable(list) # << >>
  THEN phase' = "dial" /\ targets' = tunnelable(list) /\ UNCHANGED replies
  ELSE Fails(IF list = << >> THEN "not found" ELSE "unsupported") /\ UNCHANGED targets

(* handle: CONNECT to an address or to a name, UDP ASSOCIATE, any other    *)
(* command, or a request that cannot be read, which is answered with       *)
(* nothing.                                                                *)
handle ==
  /\ phase = "request"
  /\ \/ \E family \in {4, 6} : Dials(<<family>>)
     \/ phase' = "lookup" /\ UNCHANGED <<targets, replies>>
     \/ phase' = "associate" /\ UNCHANGED <<targets, replies>>
     \/ EndsWith("COMMAND_NOT_SUPPORTED") /\ UNCHANGED targets
  /\ UNCHANGED <<setting, rule, asked, left, relays, association>>

(* resolve without a resolver of its own: the system's.                    *)
to_socket_addrs ==
  /\ phase = "lookup" /\ ~setting.dns
  /\ left' = left \cup {Sent("query", plain_socket, "client")}
  /\ \/ \E list \in Answers : Dials(list)
     \/ Fails("no answer") /\ UNCHANGED targets
  /\ UNCHANGED <<setting, rule, asked, relays, association>>

(* lookup's answer: A records only, no such name, or one that does not     *)
(* answer the question.                                                    *)
Answered ==
  \/ \E n \in 0 .. 2 : Dials([i \in 1 .. n |-> 4])
  \/ Fails("invalid") /\ UNCHANGED targets

(* ask_udp sends, and waits for one datagram: the resolver's answer, whole *)
(* or cut to fit, a stranger's, which uses up the attempt, or none.        *)
ask_udp ==
  /\ phase = "lookup" /\ setting.dns /\ asked' = asked + 1
  /\ left' = left \cup {Sent("query", marked_socket, "client")}
  /\ \/ Answered
     \/ phase' = "ask_tcp" /\ UNCHANGED <<targets, replies>>
     \/ asked' < ATTEMPTS /\ UNCHANGED <<phase, targets, replies>>
     \/ asked' = ATTEMPTS /\ Fails("timed out") /\ UNCHANGED targets
  /\ UNCHANGED <<setting, rule, relays, association>>

(* ask_tcp connects for itself, and asks again.                            *)
ask_tcp ==
  /\ phase = "ask_tcp"
  /\ left' = left \cup {Sent("query", plain_socket, "client")}
  /\ \/ Answered
     \/ Fails("timed out") /\ UNCHANGED targets
  /\ UNCHANGED <<setting, rule, asked, relays, association>>

(* connect_tcp tries each address in turn, and the last error is the one   *)
(* the client is told.  A socket that cannot be had sends nothing; a relay *)
(* that cannot be started ends after the success was told.                 *)
connect ==
  /\ phase = "dial" /\ targets' = Tail(targets)
  /\ \/ /\ left' = left \cup {Sent("connection", marked_socket, "client")}
        /\ phase' \in {"relay", "closed"}
        /\ Says("SUCCESS") \/ (phase' = "closed" /\ UNCHANGED replies)
     \/ /\ left' \in {left, left \cup {Sent("connection", marked_socket, "client")}}
        /\ \E e \in {"refused", "timed out"} :
             IF Tail(targets) = << >> THEN Fails(e) ELSE UNCHANGED <<phase, replies>>
  /\ UNCHANGED <<setting, rule, asked, relays, association>>

------------------------------------------------------------------------------
(* An end of the relay writes, half-closes, or goes away with what it had  *)
(* written.                                                                *)
EndWrites(d) ==
  /\ phase = "relay" /\ ~pipe[d].closed /\ From(d) \notin reset
  /\ \/ pipe[d].wrote < MaxBytes /\ pipe' = [pipe EXCEPT ![d].wrote = @ + 1]
     \/ pipe' = [pipe EXCEPT ![d].closed = TRUE]
  /\ UNCHANGED <<setting, rule, phase, lookups, replies, left, reset, association>>

EndGoes(e) ==
  /\ phase = "relay" /\ reset' = reset \cup {e}
  /\ UNCHANGED <<setting, rule, phase, lookups, replies, left, pipe, association>>

\* Mutant of Shutdowns: both halves of both sockets.
ShutdownBoth(p, d) == [p EXCEPT ![d].eof = TRUE, ![Opposite(d)].eof = TRUE]

(* The writing half of one socket and the reading half of the other, which *)
(* leaves the other direction as it is.                                    *)
Shutdowns(p, d) == [p EXCEPT ![d].eof = TRUE]

(* One turn of a copying thread: it reads some bytes and writes them all,  *)
(* or it comes to the end of what it reads or an end is gone, and shuts    *)
(* its direction down.                                                     *)
copy_then_shutdown(d) ==
  /\ phase = "relay" /\ ~pipe[d].eof
  /\ \/ /\ From(d) \notin reset
        /\ \E n \in 1 .. pipe[d].wrote - pipe[d].got : pipe' = [pipe EXCEPT ![d].got = @ + n]
     \/ /\ \/ pipe[d].closed /\ pipe[d].got = pipe[d].wrote
           \/ From(d) \in reset
           \/ To(d) \in reset /\ pipe[d].got < pipe[d].wrote
        /\ pipe' = Shutdowns(pipe, d)
  /\ UNCHANGED <<setting, rule, phase, lookups, replies, left, reset, association>>

(* relay returns when both threads are done, and the sockets are dropped.  *)
relay ==
  /\ phase = "relay" /\ \A d \in Directions : pipe[d].eof
  /\ phase' = "closed"
  /\ UNCHANGED <<setting, rule, lookups, replies, left, relays, association>>

------------------------------------------------------------------------------
(* udp_associate binds a relay socket, tells the client where it is and    *)
(* starts the watcher of the control connection; any of them may fail.     *)
udp_associate ==
  /\ phase = "associate"
  /\ phase' \in {"udp", "closed"}
  /\ Says("SUCCESS") \/ (phase' = "closed" /\ UNCHANGED replies)
  /\ UNCHANGED <<setting, rule, lookups, left, relays, association>>

\* Mutant of Serves: whoever spoke last.
ServesLast(p, from) == from

Serves(p, from) == IF p = "nobody" THEN from ELSE p

(* forward_outbound: a datagram that does not parse, or leads to no IPv4   *)
(* address, goes nowhere; a name in it is looked up first.                 *)
forward_outbound(from) ==
  \E sockets \in {{}} \cup (IF setting.dns THEN {{marked_socket}, {marked_socket, plain_socket}}
                            ELSE {{plain_socket}}) :
    LET queries == {Sent("query", s, from) : s \in sockets}
    IN left' \in {left \cup queries, left \cup queries \cup {Sent("datagram", marked_socket, from)}}

(* A datagram reaches the host from the client's interface or from the     *)
(* tunnel, is heard or not, and is the served client's or a stranger's,    *)
(* which forward_inbound wraps.                                            *)
Datagram(from) ==
  LET heard == Hears(marked_socket, IF from = "client" THEN setting.client ELSE "tunnel")
  IN /\ phase = "udp" /\ Len(dgrams) < MaxDatagrams
     /\ dgrams' = Append(dgrams, [from |-> from, heard |-> heard])
     /\ IF ~heard
        THEN UNCHANGED <<peer, left, wrapped>>
        ELSE /\ peer' = Serves(peer, from)
             /\ IF peer' = from
                THEN forward_outbound(from) /\ UNCHANGED wrapped
                ELSE wrapped' = wrapped \cup {[to |-> peer', about |-> from]} /\ UNCHANGED left
     /\ UNCHANGED <<setting, rule, phase, lookups, replies, relays>>

(* The watcher saw the control connection close, the process is stopping,  *)
(* or the socket failed.  A wait that timed out changes nothing.           *)
Dissociate ==
  /\ phase = "udp" /\ phase' = "closed"
  /\ UNCHANGED <<setting, rule, lookups, replies, left, relays, association>>

(* Something removes the rule, or puts it back.                            *)
RuleChanges ==
  /\ rule' = ~rule
  /\ UNCHANGED <<setting, phase, lookups, replies, left, relays, association>>

Next ==
  \/ negotiate \/ handle \/ to_socket_addrs \/ ask_udp \/ ask_tcp \/ connect
  \/ \E d \in Directions : EndWrites(d) \/ copy_then_shutdown(d)
  \/ (\E e \in Sides : EndGoes(e)) \/ relay \/ udp_associate
  \/ (\E from \in {"client", "stranger"} : Datagram(from)) \/ Dissociate \/ RuleChanges

Spec == Init /\ [][Next]_vars

------------------------------------------------------------------------------
(* No connection and no datagram of a client leaves the host beside the    *)
(* tunnel, whatever becomes of the policy rule meanwhile (marked_socket:   *)
(* "It cannot be undone from outside the process"), and nothing leaves for *)
(* a client that negotiate turned away.                                    *)
CarriedThroughTunnel ==
  /\ \A l \in left : l.what # "query" => l.way = "tunnel"
  /\ left # {} => /\ replies # << >>
                  /\ replies[1] = IF setting.credentials THEN "accepted" ELSE "none"

(* "queries go out over a marked socket ... and are answered by a resolver *)
(* reached through the tunnel" (dns.rs): with a resolver configured, no    *)
(* query leaves beside the tunnel.                                         *)
LookupsThroughTunnel == setting.dns => \A l \in left : l.way = "tunnel"

(* Each direction of a relayed connection is a stream: while neither end   *)
(* has gone away, one sees the end of the other's bytes only after all of  *)
(* them, although the two directions end at different times                *)
(* (copy_then_shutdown); and the datagrams an association sends out all    *)
(* come from one sender (udp_associate: otherwise "anything that can reach *)
(* the port can inject traffic into someone else's association").          *)
RelayedWhole ==
  /\ reset = {} => \A d \in Directions :
       pipe[d].eof => pipe[d].closed /\ pipe[d].got = pipe[d].wrote
  /\ \A l, m \in left : l.what = "datagram" /\ m.what = "datagram" => l.by = m.by

(* "The client is told where to send, on the address it reached us at"     *)
(* (udp_associate): what the client then sends there is heard.             *)
AssociationHeard ==
  \A i \in DOMAIN dgrams : dgrams[i].from = "client" => dgrams[i].heard
==============================================================================
