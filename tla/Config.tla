------------------------------- MODULE Config --------------------------------
(***************************************************************************)
(* Reading a configuration file (config.rs): what `parse` makes of the     *)
(* sections of one tunnel, which files it refuses, and which tunnels       *)
(* `distinct` lets share a process; and, from main.rs, the rules and       *)
(* routes `attach` installs for the tunnels it accepted.  A file is a      *)
(* sequence of tunnels, each a function from keys to what is written, with *)
(* Unset (or "unset") where a line is absent.  The operator edits a file   *)
(* one line at a time and starts the program on it.                        *)
(***************************************************************************)
EXTENDS Integers, Sequences

CONSTANTS Bases,          \* the files an operator begins from
          Written,        \* key -> what may be written for it
          MaxEdits

VARIABLES file,           \* the sections, in the order written
          edits,
          running         \* the tunnels of the process, << >> when there is none

configVars == <<file, edits, running>>

Unset == -1

(* Which ends a file gives an inner IPv6 address to.                       *)
V6 == {"unset", "ours", "theirs", "both"}

ConfigAssumption ==
  /\ \A f \in Bases : \A i \in DOMAIN f : "v6" \in DOMAIN f[i] /\ f[i].v6 \in V6
  /\ \A k \in DOMAIN Written : k = "v6" => Written[k] \subseteq V6

------------------------------------------------------------------------------
(* The carriers: what each one's outer header is made of.                  *)
Tcp == {"midstream", "midstream-fh", "handshake"}
CARRIERS == Tcp \cup {"gre", "icmp", "rawip"}

FRAGMENT_FREE_OUTER == 1280
FRAMING == 28
RECORD_HEADER == 5
DEFAULT_MTU == 1400
MAX_OVERHEAD == 60
USABLE == 576 .. 9000       \* the range an MTU is held to
IPV6_LEAST == 1280          \* "the least a link carrying IPv6 may offer"
ETHERNET == 1500
MSS == 1460                 \* every profile's own segment size
FLOOR == 536                \* and the least a carrier advertises

Profile(p) ==
  [timestamps |-> p # "windows-11", dont_fragment |-> p # "ios-15", mss |-> MSS]

or(written, default) == IF written = "unset" THEN default ELSE written
orNum(written, default) == IF written = Unset THEN default ELSE written
orFlag(written, default) == IF written = "unset" THEN default ELSE written = "yes"

has_ports(c) == c \in Tcp
rotates(c) == c \in Tcp \cup {"icmp"}
guarding(c) == CASE has_ports(c) -> "ports" [] c = "icmp" -> "ids" [] OTHER -> "protocol"

overhead(c, records) ==
  (CASE has_ports(c) -> MAX_OVERHEAD [] c = "gre" -> 24 [] c = "icmp" -> 28 [] OTHER -> 20)
    + (IF records THEN RECORD_HEADER ELSE 0)

fragment_free_mtu(c, records) == FRAGMENT_FREE_OUTER - overhead(c, records) - FRAMING

default_mtu(c, records) ==
  DEFAULT_MTU + (MAX_OVERHEAD - overhead(c, FALSE)) - (IF records THEN RECORD_HEADER ELSE 0)

(* The sizes a tunnel settles on: the MTU it was given, or its shape's     *)
(* own, lowered to what a path carries whole when Don't Fragment is clear. *)
Fragment(t) ==
  or(t.fragment, IF Profile(or(t.profile, "linux-6")).dont_fragment THEN "never" ELSE "path")
Carrier(t) == or(t.carrier, "midstream")
Records(t) == orFlag(t.spoof_records, t.spoof_sni = "name")
Cap(t) == fragment_free_mtu(Carrier(t), Records(t))
AskedMtu(t) ==
  orNum(t.mtu, IF Fragment(t) = "never" THEN default_mtu(Carrier(t), Records(t)) ELSE Cap(t))
Mtu(t) == IF Fragment(t) = "path" /\ AskedMtu(t) > Cap(t) THEN Cap(t) ELSE AskedMtu(t)

(* A decoy handshake needs stream numbering and brings acknowledgements;   *)
(* what overrides a written line, or costs something, is noted.            *)
Decoy(t) == t.spoof_sni = "name"
Sequencing(t) ==
  IF Decoy(t) THEN "stream"
  ELSE or(t.sequencing, IF Carrier(t) \in {"midstream-fh", "handshake"} THEN "stream" ELSE "opaque")
Acknowledge(t) == orFlag(t.acknowledge, Decoy(t))
Datapath(t) == or(t.datapath, "simple")

Notes(t) ==
  {n \in {"sequencing", "carrier", "coalesce", "fragment"} :
     CASE n = "sequencing" -> Decoy(t) /\ t.sequencing = "opaque"
       [] n = "carrier" -> Decoy(t) /\ Carrier(t) # "handshake"
       [] n = "coalesce" -> t.coalesce = "yes" /\ t.datapath = "simple"
       [] OTHER -> \/ (Fragment(t) = "never") # Profile(or(t.profile, "linux-6")).dont_fragment
                   \/ t.fragment = "unset" /\ Fragment(t) = "path"}

------------------------------------------------------------------------------
(* What `one` refuses, a section of the file at a time.                    *)
RefusedCarrier(t) ==
  \/ Carrier(t) \notin CARRIERS
  \/ Carrier(t) = "handshake" /\ ~Profile(or(t.profile, "linux-6")).timestamps
  \/ Carrier(t) = "rawip" /\ t.carrier_protocol \in {Unset, 0, 1, 6, 17, 47}
  \/ Carrier(t) # "rawip" /\ t.carrier_protocol # Unset

spoof_sni(t) == t.spoof_sni = "address" \/ (t.spoof_sni # "unset" /\ ~has_ports(Carrier(t)))

\* Mutant of RefusedSizes: the floor is held against the number written.
FloorBeforeCap(t) ==
  \/ AskedMtu(t) \notin USABLE
  \/ t.v6 \in {"both", "ours"} /\ AskedMtu(t) < IPV6_LEAST

RefusedSizes(t) ==
  \/ AskedMtu(t) \notin USABLE
  \/ t.v6 \in {"both", "ours"} /\ Mtu(t) < IPV6_LEAST

RefusedDecoy(t) == spoof_sni(t) \/ (Records(t) /\ t.spoof_sni = "unset")

RefusedPeer(t) ==
  \/ t.v6 \in {"ours", "theirs"}
  \/ t.endpoint = "unset" /\ t.listen_port \in {Unset, 0} /\ has_ports(Carrier(t))

(* Settings that are only numbers in a range; a jitter is also held        *)
(* against the interval it is taken from.  `retransmit` is 0 or 1 for a    *)
(* flag and larger for the older form, which gave the buffer's size.       *)
Bounds ==
  [rotate_after |-> 1 .. 86400, rotate_ports |-> 2 .. 240, rotate_after_unanswered |-> 1 .. 16,
   rotate_after_silence |-> 200 .. 60000, retransmit_buffer |-> 0 .. 8192,
   retransmit_deadline |-> 50 .. 5000, retransmit_asks |-> 1 .. 8, retransmit_reorder |-> 1 .. 16,
   rotate_after_packets |-> Nat \ {0}, persistent_keepalive |-> 5 .. 600]

After(t) == orNum(t.rotate_after, 900)
Jitter(t) == orNum(t.rotate_jitter, After(t) \div 3)

RefusedLimits(t) ==
  \/ \E k \in DOMAIN Bounds : t[k] # Unset /\ t[k] \notin Bounds[k]
  \/ Jitter(t) >= After(t)
  \/ t.retransmit > 1 /\ (t.retransmit_buffer # Unset \/ t.retransmit > 8192)

(* Marks and the tables they point at.                                     *)
FALLBACK_TABLE == 51
KernelTables == {0, 253, 254, 255}

policy_table(written, mark) == orNum(written, orNum(mark, FALLBACK_TABLE))

RouteTable(t) == policy_table(t.route_table, t.route_marked)
Socks(t) == t.socks # "unset"
SocksMark(t) == orNum(t.socks_mark, 81)
SocksTable(t) == policy_table(t.socks_table, SocksMark(t))
LanesOf(t) == {t.lane[i] : i \in DOMAIN t.lane}
LaneMarks(t) == {l.mark : l \in LanesOf(t)} \ {Unset}

RefusedMarks(t) ==
  \/ t.route_marked = 0
  \/ RouteTable(t) \in KernelTables
  \/ Socks(t) /\ (SocksMark(t) = 0 \/ SocksTable(t) \in KernelTables)
  \/ t.socks = "username alone"

lanes(t) ==
  \/ \E l \in LanesOf(t) :
       \/ l.class \notin 1 .. 63
       \/ l.mark = Unset /\ l.egress = "unset"
       \/ l.mark \in {0} \cup ({t.route_marked} \ {Unset})
       \/ Socks(t) /\ l.mark = SocksMark(t)
  \/ \E i, j \in DOMAIN t.lane :
       /\ i < j
       /\ \/ t.lane[i].class = t.lane[j].class
          \/ t.lane[i].mark = t.lane[j].mark /\ t.lane[i].mark # Unset

RefusedDevice(t) == t.device = "a name too long"

one(t) ==
  RefusedCarrier(t) \/ RefusedDecoy(t) \/ RefusedSizes(t) \/ RefusedPeer(t)
    \/ RefusedMarks(t) \/ lanes(t) \/ RefusedLimits(t) \/ RefusedDevice(t)

(* Every mark this end steers into the tunnel, with its table; a listener  *)
(* sharing the interface's mark counts once.                               *)
marked_routes(t) ==
  {<<m, RouteTable(t)>> : m \in ({t.route_marked} \ {Unset}) \cup LaneMarks(t)} \cup
  (IF Socks(t) /\ SocksMark(t) # t.route_marked THEN {<<SocksMark(t), SocksTable(t)>>} ELSE {})

(* The echo identifiers of a ping, from the two keys: blocks can collide.  *)
icmp_ids(t) == t.block
Device(t) == or(t.device, "paqetz0")

\* Mutant of Clash: tables are not compared.
ClashMarks(a, b) ==
  \/ Device(a) = Device(b) \/ a.address = b.address \/ a.public_key = b.public_key
  \/ \E r \in marked_routes(a), q \in marked_routes(b) : r[1] = q[1]
  \/ guarding(Carrier(a)) # guarding(Carrier(b))
  \/ ~rotates(Carrier(a)) /\ a.endpoint # "unset" /\ a.endpoint = b.endpoint
  \/ guarding(Carrier(a)) = "ids" /\ icmp_ids(a) = icmp_ids(b)
  \/ has_ports(Carrier(a)) /\ a.listen_port \notin {Unset, 0} /\ a.listen_port = b.listen_port

Clash(a, b) ==
  \/ Device(a) = Device(b) \/ a.address = b.address \/ a.public_key = b.public_key
  \/ \E r \in marked_routes(a), q \in marked_routes(b) : r[1] = q[1] \/ r[2] = q[2]
  \/ guarding(Carrier(a)) # guarding(Carrier(b))
  \/ ~rotates(Carrier(a)) /\ a.endpoint # "unset" /\ a.endpoint = b.endpoint
  \/ guarding(Carrier(a)) = "ids" /\ icmp_ids(a) = icmp_ids(b)
  \/ has_ports(Carrier(a)) /\ a.listen_port \notin {Unset, 0} /\ a.listen_port = b.listen_port

distinct(f) == \A i, j \in DOMAIN f : i < j => ~Clash(f[i], f[j])

parse(f) == (\A i \in DOMAIN f : ~one(f[i])) /\ distinct(f)

------------------------------------------------------------------------------
(* The rules attach installs, in order, all at one priority; the first     *)
(* that matches a mark decides, and each table holds one device's route.   *)
(* A policy removes every rule for its mark before it adds its own.        *)
lane_mark(slot, class) == 256 + slot * 64 + class

apply(host, mark, table, dev) ==
  [rules |-> Append(SelectSeq(host.rules, LAMBDA r : r.mark # mark),
                    [mark |-> mark, egress |-> FALSE, table |-> table]),
   tables |-> {e \in host.tables : e[1] # table} \cup {<<table, dev>>}]

point_mark_at(host, mark, table) ==
  [host EXCEPT !.rules =
     Append(SelectSeq(@, LAMBDA r : r # [mark |-> mark, egress |-> TRUE, table |-> table]),
            [mark |-> mark, egress |-> TRUE, table |-> table])]

AttachLane(host, t, slot, lane) ==
  LET sent == IF lane.mark = Unset THEN host
              ELSE apply(host, lane.mark, RouteTable(t), Device(t))
  IN IF lane.egress = "unset" THEN sent
     ELSE point_mark_at(sent, lane_mark(slot, lane.class), lane.class)

attach(host, t, slot) ==
  LET upto[n \in 0 .. Len(t.lane)] ==
        IF n = 0 THEN host ELSE AttachLane(upto[n - 1], t, slot, t.lane[n])
      laned == upto[Len(t.lane)]
      marked == IF t.route_marked = Unset THEN laned
                ELSE apply(laned, t.route_marked, RouteTable(t), Device(t))
  IN IF ~Socks(t) \/ SocksMark(t) = t.route_marked THEN marked
     ELSE apply(marked, SocksMark(t), SocksTable(t), Device(t))

NoRules == [rules |-> << >>, tables |-> {}]
Attached(f) ==
  LET n == Len(f) IN
  IF n = 0 THEN NoRules
  ELSE IF n = 1 THEN attach(NoRules, f[1], 0)
  ELSE attach(attach(NoRules, f[1], 0), f[2], 1)

(* Where traffic carrying a mark leaves: through a device, or by the table *)
(* of a lane's egress.                                                     *)
Lookup(host, mark) ==
  LET found == SelectSeq(host.rules, LAMBDA r : r.mark = mark)
  IN IF found = << >> THEN {}
     ELSE IF Head(found).egress THEN {<<"egress", Head(found).table>>}
     ELSE {<<"device", e[2]>> : e \in {e \in host.tables : e[1] = Head(found).table}}

------------------------------------------------------------------------------
ConfigInit == file \in Bases /\ edits = 0 /\ running = << >>

Edit ==
  /\ running = << >> /\ edits < MaxEdits /\ edits' = edits + 1
  /\ \E i \in DOMAIN file, k \in DOMAIN Written : \E v \in Written[k] :
       file' = [file EXCEPT ![i][k] = v]
  /\ UNCHANGED running

load == running = << >> /\ parse(file) /\ running' = file /\ UNCHANGED <<file, edits>>

Stop == running # << >> /\ running' = << >> /\ UNCHANGED <<file, edits>>

ConfigNext == Edit \/ load \/ Stop

ConfigSpec == ConfigInit /\ [][ConfigNext]_configVars

------------------------------------------------------------------------------
(* carrier_mss: the segment size a carrier advertises.                     *)
Data(t) == Mtu(t) + FRAMING + (IF Records(t) THEN RECORD_HEADER ELSE 0)
Options(t) == IF Profile(or(t.profile, "linux-6")).timestamps THEN 12 ELSE 0
carrier_mss(t) ==
  LET mss == Data(t) + Options(t) IN
  IF mss < FLOOR THEN FLOOR ELSE IF mss > MSS THEN MSS ELSE mss

(* What the sizes of a tunnel have to do with each other.                  *)
Fitting(t) ==
  LET outer == Mtu(t) + FRAMING + overhead(Carrier(t), Records(t))
  IN /\ Fragment(t) = "path" => outer <= FRAGMENT_FREE_OUTER
     /\ t.mtu = Unset => outer <= ETHERNET
     /\ t.v6 # "unset" => Mtu(t) >= IPV6_LEAST
     /\ has_ports(Carrier(t)) /\ outer <= ETHERNET => Data(t) + Options(t) <= carrier_mss(t)

(* Sizes agree in a tunnel that starts, whatever its file says or leaves   *)
(* to defaults: an outer packet with Don't Fragment clear fits what every  *)
(* path carries whole, one of a default MTU fits an Ethernet frame, inner  *)
(* IPv6 gets the 1280 bytes it needs after every lowering, and no segment  *)
(* is larger than the size the carrier announced (Config::parse).          *)
SizesAgree == \A i \in DOMAIN running : Fitting(running[i])

(* Once every tunnel of an accepted file is attached, each mark the file   *)
(* steers, by route_marked, a lane or the listener, leads to its own       *)
(* tunnel's device: no tunnel's table or rule was replaced by another's.   *)
MarksReachTheirTunnel ==
  LET host == Attached(running) IN
  \A i \in DOMAIN running : \A r \in marked_routes(running[i]) :
    Lookup(host, r[1]) = {<<"device", Device(running[i])>>}

(* An operator who groups packets where there is never a second one to     *)
(* group is told so ("Noted rather than refused"), however the file came   *)
(* to read one packet at a time.                                           *)
CoalesceIsNoted ==
  \A i \in DOMAIN running :
    running[i].coalesce = "yes" /\ Datapath(running[i]) = "simple" => "coalesce" \in Notes(running[i])

(* A class leaves by the egress its lane names: the internal mark that     *)
(* stands for it is nothing else's.  config.rs says the marks are "well    *)
(* clear" so that "a lane cannot silently take another feature's traffic". *)
LanesLeaveByTheirEgress ==
  LET host == Attached(running) IN
  \A i \in DOMAIN running : \A l \in LanesOf(running[i]) :
    l.egress # "unset" =>
      Lookup(host, lane_mark(i - 1, l.class)) = {<<"egress", l.class>>}
==============================================================================
