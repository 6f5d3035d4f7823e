------------------------------- MODULE MCOperations --------------------------
(***************************************************************************)
(* What the commands do to the machine they run on, and what goes through  *)
(* the SOCKS listener they start, side by side in one run: the parts share *)
(* no state, an initial state chooses one, and every behaviour is a        *)
(* behaviour of that part.  The listener, the enrolling of two hosts, the  *)
(* commands an operator keeps a host with and the reading of a file are    *)
(* extended and not instantiated, so that their properties are those of    *)
(* their own modules: while another part is chosen each of them stays in   *)
(* one of its initial states.                                              *)
(***************************************************************************)
EXTENDS Socks, Enrol, Upkeep, Config

VARIABLES which,
  found, host, hostfile, step, at, part, attached, fw, gone, runs, faults, kills,
  cfg, conf, iface, shook, enabled, sel, answering, through, todo, did, remaining,
  tries, refusals, events

(* Small files for Host: a client that steers marks, with a lane and a     *)
(* listener; the same client after its table was renumbered; a client that *)
(* routes everything; a gateway with a way out of its own; and pairs of    *)
(* them.                                                                   *)
Plain == [device |-> "tun0", mark |-> 0, table |-> 51, lanes |-> << >>, socks |-> 0, socks_table |-> 0,
          gateway |-> FALSE, subnet |-> "net0", egress |-> 0, all |-> FALSE, endpoint |-> "peer0"]

Client(table) == [Plain EXCEPT !.mark = 1, !.table = table, !.socks = 2, !.socks_table = 8,
                    !.lanes = << [mark |-> 3, route_mark |-> 103, out |-> 0] >>]
Listener == [Plain EXCEPT !.device = "tun1", !.mark = 4, !.table = 8, !.socks = 4, !.socks_table = 9]
Renumbered == [Listener EXCEPT !.table = 7]
RoutesAll == [Plain EXCEPT !.device = "tun1", !.all = TRUE, !.endpoint = "peer1"]
Server == [Plain EXCEPT !.gateway = TRUE, !.egress = 60,
             !.lanes = << [mark |-> 0, route_mark |-> 104, out |-> 61] >>]
Second == [Plain EXCEPT !.device = "tun1", !.gateway = TRUE, !.subnet = "net1"]

HostFiles == { <<Client(5)>>, <<Client(6)>>, <<Client(5), Listener>>, <<Client(5), Renumbered>>,
                 <<Server, RoutesAll>>, <<Server, Second>> }

Untouched == [rules |-> << >>, routes |-> {}, ipt |-> {}, forward |-> FALSE,
              nft |-> [t \in {"paqetz", "paqetz_lane", "paqetz_gw"} |-> {}]]
HostsFound == {Untouched, [Untouched EXCEPT !.forward = TRUE]}

(* Files for Config: a tunnel that hides in a TLS hello; one with a wide   *)
(* inner MTU; two plain ones; two with marks, listeners and lanes; and a   *)
(* server beside a client.  `Entries` is what an editor may put in a key.  *)
Tunnel(i) ==
  [device |-> IF i = 1 THEN "unset" ELSE "paqetz1", address |-> i, public_key |-> i, block |-> i,
   endpoint |-> IF i = 1 THEN "peer1" ELSE "peer2", listen_port |-> Unset, v6 |-> "unset",
   profile |-> "unset", carrier |-> "unset", carrier_protocol |-> Unset, fragment |-> "unset",
   mtu |-> Unset, spoof_sni |-> "unset", spoof_records |-> "unset", route_marked |-> Unset,
   route_table |-> Unset, socks |-> "unset", socks_mark |-> Unset, socks_table |-> Unset,
   lane |-> << >>, sequencing |-> "unset", acknowledge |-> "unset", coalesce |-> "unset",
   datapath |-> "unset", rotate_after |-> Unset, rotate_jitter |-> Unset, rotate_ports |-> Unset,
   rotate_after_unanswered |-> Unset, rotate_after_silence |-> Unset,
   rotate_after_packets |-> Unset, retransmit |-> Unset, retransmit_buffer |-> Unset,
   retransmit_deadline |-> Unset, retransmit_asks |-> Unset, retransmit_reorder |-> Unset,
   persistent_keepalive |-> Unset]
Hello == [Tunnel(1) EXCEPT !.carrier = "handshake", !.spoof_sni = "name", !.v6 = "both"]
Wide == [Tunnel(1) EXCEPT !.mtu = 1400, !.v6 = "both"]
Lane(class, mark, egress) == [class |-> class, mark |-> mark, egress |-> egress]
Proxied(i) ==
  [Tunnel(i) EXCEPT !.route_marked = 80 + i, !.socks = "listen", !.socks_mark = 90 + i,
                   !.lane = <<Lane(10, 100 + i, "unset")>>]
Waiting(i) ==
  [Tunnel(i) EXCEPT !.endpoint = "unset", !.listen_port = i, !.lane = <<Lane(10, Unset, "wg0")>>]
Drafts ==
  {<<Hello>>, <<Wide>>, <<Tunnel(1), Tunnel(2)>>, <<Proxied(1), Proxied(2)>>, <<Waiting(1), Proxied(2)>>}
Entries ==
  [device |-> {"paqetz1", "a name too long"}, address |-> {1}, public_key |-> {1}, block |-> {1},
   endpoint |-> {"unset", "peer1"}, listen_port |-> {0, 1}, v6 |-> {"ours", "theirs", "both"},
   profile |-> {"windows-11", "ios-15"},
   carrier |-> {"midstream-fh", "handshake", "gre", "icmp", "rawip", "udp"},
   carrier_protocol |-> {1, 99}, fragment |-> {"never", "path"},
   mtu |-> {575, 1200, 1280, 1400, 9000}, spoof_sni |-> {"name", "address"},
   spoof_records |-> {"yes", "no"}, route_marked |-> {0, 81, 82, 254, 266},
   route_table |-> {51, 81, 82, 254}, socks |-> {"listen", "username alone"},
   socks_mark |-> {0, 81, 330}, socks_table |-> {51, 82},
   lane |-> {<<Lane(10, 81, "unset")>>,
             <<Lane(10, Unset, "wg0"), Lane(11, Unset, "wg0")>>,
             <<Lane(10, 82, "unset"), Lane(11, 83, "unset")>>,
             <<Lane(10, 82, "unset"), Lane(10, 83, "unset")>>},
   rotate_after |-> {0, 1, 90}, rotate_jitter |-> {60, 90}, rotate_ports |-> {1},
   rotate_after_unanswered |-> {0}, rotate_after_silence |-> {100},
   rotate_after_packets |-> {0}, sequencing |-> {"opaque", "stream"}, coalesce |-> {"yes"},
   datapath |-> {"batched", "simple"}, retransmit |-> {0, 1, 512, 9000},
   retransmit_buffer |-> {512, 9000}, retransmit_deadline |-> {10}, retransmit_asks |-> {0},
   retransmit_reorder |-> {17}, persistent_keepalive |-> {4}]

(* Two hosts to enrol, and two plans: the usual one, and one whose way out *)
(* is the client.                                                          *)
TwoHosts == [a |-> "server", b |-> "client"]
Usual ==
  [host |-> "address", port |-> 1, gateway |-> TRUE, route_all |-> FALSE, socks5 |-> TRUE,
   route_marked |-> 81, ipv6 |-> FALSE, reverse |-> FALSE]
TwoPlans == {Usual, [Usual EXCEPT !.route_marked = 0, !.reverse = TRUE, !.ipv6 = TRUE]}

H == INSTANCE Host WITH
  Files <- HostFiles, Ports <- <<1, 2>>, Hosts <- HostsFound, MaxRuns <- 2,
  MaxFaults <- 1, MaxKills <- 1, file <- hostfile, pc <- step
W == INSTANCE WarpRepair WITH
  Endpoints <- <<1, 2>>, Enough <- 3, TABLE <- 1, Tables <- {1, 2},
  MaxRefusals <- 1, MaxEvents <- 2, left <- remaining,
  carried <- through
(* What a resolver may answer the listener.                                *)
Lists == {<< >>, <<6>>, <<6, 4>>, <<4, 4>>}

(* A machine that is not the one chosen holds still.                       *)
RestH ==
  /\ found = 0 /\ host = 0 /\ hostfile = 0 /\ step = 0 /\ at = 0 /\ part = 0
  /\ attached = 0 /\ fw = 0 /\ gone = 0 /\ runs = 0 /\ faults = 0 /\ kills = 0
RestW ==
  /\ cfg = 0 /\ conf = 0 /\ iface = 0 /\ shook = 0 /\ enabled = 0
  /\ sel = 0 /\ answering = 0 /\ through = 0 /\ todo = 0 /\ did = 0
  /\ remaining = 0 /\ tries = 0 /\ refusals = 0 /\ events = 0
RestC == ConfigInit /\ file = <<Wide>>
RestU == UpkeepInit /\ disk["config"] = Is(1) /\ disk["xray"] = Absent
RestS ==
  Init /\ setting = [credentials |-> FALSE, dns |-> FALSE, client |-> "lo"]
varsH == <<found, host, hostfile, step, at, part, attached, fw, gone, runs, faults, kills>>
varsW == <<cfg, conf, iface, shook, enabled, sel, answering, through, todo, did, remaining,
  tries, refusals, events>>

OperationsInit ==
  \/ which = "host" /\ H!Init /\ RestW /\ RestC /\ EnrolInit /\ RestU /\ RestS
  \/ which = "repair" /\ W!Init /\ RestH /\ RestC /\ EnrolInit /\ RestU /\ RestS
  \/ which = "config" /\ ConfigInit /\ RestH /\ RestW /\ EnrolInit /\ RestU /\ RestS
  \/ which = "enrol" /\ EnrolInit /\ RestH /\ RestW /\ RestC /\ RestU /\ RestS
  \/ which = "upkeep" /\ UpkeepInit /\ RestH /\ RestW /\ RestC /\ EnrolInit /\ RestS
  \/ which = "socks" /\ Init /\ RestH /\ RestW /\ RestC /\ EnrolInit /\ RestU

OperationsNext ==
  /\ UNCHANGED which
  /\ \/ which = "host" /\ H!Next /\ UNCHANGED <<varsW, configVars, enrolVars, upkeepVars, vars>>
     \/ which = "repair" /\ W!Next /\ UNCHANGED <<varsH, configVars, enrolVars, upkeepVars, vars>>
     \/ which = "config" /\ ConfigNext /\ UNCHANGED <<varsH, varsW, enrolVars, upkeepVars, vars>>
     \/ which = "enrol" /\ EnrolNext /\ UNCHANGED <<varsH, varsW, configVars, upkeepVars, vars>>
     \/ which = "upkeep" /\ UpkeepNext /\ UNCHANGED <<varsH, varsW, configVars, enrolVars, vars>>
     \/ which = "socks" /\ Next /\ UNCHANGED <<varsH, varsW, configVars, enrolVars, upkeepVars>>

everything == <<which, varsH, varsW, configVars, enrolVars, upkeepVars, vars>>

OperationsSpec == OperationsInit /\ [][OperationsNext]_everything

(* What the proofs about the commands assume holds of this instance.       *)
ASSUME OperationsAssumption == EnrolAssumption /\ UpkeepAssumption /\ ConfigAssumption

------------------------------------------------------------------------------
(* A process that installed everything and was stopped in an orderly way   *)
(* leaves the host as it found it (Attached::revert, tear_down).           *)
LeftAsFound == which = "host" => H!LeftAsFound

(* While everything is installed, marked sockets leave by their own        *)
(* tunnel's device, and by none if it is gone, whatever a killed run left  *)
(* behind (Policy::apply and revert).                                      *)
MarkedFailsClosed == which = "host" => H!MarkedFailsClosed

(* A repair that nothing refused leaves none of the faults it set out to   *)
(* fix, other than those only the network can mend, and repairs run one    *)
(* after another with nothing in between come to an end (diagnose,         *)
(* repair).                                                                *)
RepairEnds ==
  which = "repair" => W!RepairFixes /\ W!RepairConverges
==============================================================================
