-------------------------------- MODULE Doctor -------------------------------
(***************************************************************************)
(* The service of one host: the unit `tunnel_unit` writes (service.rs),    *)
(* which runs `paqetz doctor` before every start, the checks of doctor.rs, *)
(* what Tunnel::start and start need (tunnel.rs, main.rs, neigh.rs), the   *)
(* exit codes of main and what systemd, which is external, does about      *)
(* them.  A host is the facts those checks read; at most MaxWrong of them  *)
(* are wrong at a time, and any of them may change at any time, between    *)
(* the check and the start too.                                            *)
(***************************************************************************)
EXTENDS Integers, FiniteSets

CONSTANTS Asks,         \* what a file may ask for
          MaxWrong

VARIABLES file,         \* the configuration parses
          asks,         \* what it asks for
          wrong,        \* facts of the host that are not as they should be
          unit,         \* what systemd makes of the service
          last,         \* the last attempt: who ended it, and whether the file parsed
          changed       \* something changed since doctor let a start through

doctorVars == <<file, asks, wrong, unit, last, changed>>

(* Something is wrong with: what the process may do, the TUN driver, the   *)
(* routes, the firewall tool (missing, or failing), networkd, the outer    *)
(* port, the FORWARD chain, a lane's interface or its table, WARP, the     *)
(* return path, the link's MTU, the device's name (another process has     *)
(* it), the neighbour, the commands attach runs, the service.              *)
Facts == {"capabilities", "tun", "default route", "peer route", "no tool", "tool fails",
          "networkd", "port", "forward", "lane down", "lane table", "warp", "return path",
          "mtu", "device", "neighbour", "attach", "not enabled"}

Wrong(w) == w \in wrong

------------------------------------------------------------------------------
(* The checks, as the verdict of each.                                     *)
Fails(c) == IF c THEN "Fail" ELSE "Pass"
Degrades(c) == IF c THEN "Degraded" ELSE "Pass"
Warns(c) == IF c THEN "Warn" ELSE "Pass"

check_networkd ==
  Fails(Wrong("networkd") /\ (asks.route_marked \/ asks.socks5 \/ asks.route_all \/ asks.egress))

check_port_free == Fails(Wrong("port") /\ asks.listen_port)

check_lane == Fails(asks.lane /\ (Wrong("lane down") \/ (Wrong("lane table") /\ ~asks.table)))

check_warp == Degrades(Wrong("warp") /\ asks.egress)

check_return_path == Degrades(Wrong("return path") /\ asks.egress)

\* Mutant of check_peer_route: the route is looked at on the waiting side.
CheckWaitingRoute == Fails(Wrong("peer route") /\ ~asks.endpoint)

check_peer_route == Fails(Wrong("peer route") /\ asks.endpoint)

(* Equal, or the peer's outside what it is allowed; or in different        *)
(* subnets.  IPv4 and IPv6 alike.                                          *)
check_inner_addresses ==
  IF asks.addresses = "clash" THEN "Fail" ELSE Warns(asks.addresses = "apart")

check_forwarding_allowed == Fails(Wrong("forward") /\ asks.gateway)

HostFindings ==
  {Fails(Wrong("capabilities")), Fails(Wrong("tun")), Fails(Wrong("default route")),
   Fails(Wrong("no tool")), Warns(Wrong("not enabled")), check_networkd}

TunnelFindings ==
  {Warns(Wrong("device")), check_port_free, Warns(Wrong("mtu")), check_lane, check_warp,
   check_return_path, check_peer_route, check_inner_addresses, check_forwarding_allowed}

(* doctor::run.  A file that does not parse is a finding, and leaves no    *)
(* tunnel to check; print has the last word.                               *)
Findings == {Fails(~file)} \cup HostFindings \cup (IF file THEN TunnelFindings ELSE {})

doctor_run == "Fail" \notin Findings

------------------------------------------------------------------------------
(* neigh::resolve, for the transmit path that needs the next hop's address *)
(* and the end that has a peer to reach.                                   *)
resolve == asks.afpacket /\ asks.endpoint => ~Wrong("neighbour")

(* Tunnel::start: our outer address, the outbound interface, the device,   *)
(* the capture socket, the transmit socket.                                *)
tunnel_start ==
  /\ asks.endpoint => ~Wrong("peer route")
  /\ ~Wrong("default route") /\ ~Wrong("tun") /\ ~Wrong("capabilities") /\ ~Wrong("device")
  /\ resolve

(* start goes on without a firewall tool, and not when the tool fails.     *)
start ==
  /\ tunnel_start
  /\ asks.manage_firewall /\ ~Wrong("no tool") => ~Wrong("tool fails")
  /\ ~Wrong("attach")

EXIT_CONFIG == 78

(* main: only an error of the configuration itself has a code of its own.  *)
ExitOfDoctor == IF doctor_run THEN 0 ELSE 1
ExitOfRun == IF ~file THEN EXIT_CONFIG ELSE IF start THEN 0 ELSE 1

\* Mutant of AfterExit: a start limit.
GivesUp(code) == IF code = 0 THEN "running" ELSE "failed"

(* Restart=on-failure, RestartPreventExitStatus=78, no start limit.        *)
AfterExit(code) ==
  IF code = 0 THEN "running" ELSE IF code = EXIT_CONFIG THEN "failed" ELSE "waiting"

------------------------------------------------------------------------------
DoctorInit ==
  /\ file \in BOOLEAN /\ asks \in Asks /\ wrong = {}
  /\ unit = "checking" /\ last = [by |-> "nobody", file |-> TRUE] /\ changed = FALSE

ExecStartPre ==
  /\ unit = "checking"
  /\ unit' = IF ExitOfDoctor = 0 THEN "starting" ELSE AfterExit(ExitOfDoctor)
  /\ last' = [by |-> "doctor", file |-> file] /\ changed' = FALSE
  /\ UNCHANGED <<file, asks, wrong>>

ExecStart ==
  /\ unit = "starting" /\ unit' = AfterExit(ExitOfRun)
  /\ last' = [by |-> "run", file |-> file]
  /\ UNCHANGED <<file, asks, wrong, changed>>

(* RestartSec is over.                                                     *)
RestartSec == unit = "waiting" /\ unit' = "checking" /\ UNCHANGED <<file, asks, wrong, last, changed>>

(* The running tunnel ends with an error, or is stopped and started by     *)
(* hand, which also starts a unit that has failed.                         *)
Dies ==
  /\ unit = "running" /\ unit' = AfterExit(1) /\ last' = [by |-> "fault", file |-> TRUE]
  /\ UNCHANGED <<file, asks, wrong, changed>>

unit_command ==
  /\ \/ unit # "stopped" /\ unit' = "stopped"
     \/ unit \in {"stopped", "failed"} /\ unit' = "checking"
  /\ UNCHANGED <<file, asks, wrong, last, changed>>

Edits ==
  /\ file' \in BOOLEAN /\ asks' \in Asks /\ changed' = TRUE
  /\ UNCHANGED <<wrong, unit, last>>

HostChanges ==
  /\ \E w \in Facts : wrong' = IF w \in wrong THEN wrong \ {w} ELSE wrong \cup {w}
  /\ Cardinality(wrong') <= MaxWrong /\ changed' = TRUE
  /\ UNCHANGED <<file, asks, unit, last>>

DoctorNext == ExecStartPre \/ ExecStart \/ RestartSec \/ Dies \/ unit_command \/ Edits \/ HostChanges

DoctorSpec == DoctorInit /\ [][DoctorNext]_doctorVars

(* systemd runs what is due; nothing else is promised to happen.           *)
DoctorFairness == WF_doctorVars(ExecStartPre) /\ WF_doctorVars(ExecStart) /\ WF_doctorVars(RestartSec)

DoctorFairSpec == DoctorSpec /\ DoctorFairness

------------------------------------------------------------------------------
(* What doctor lets through starts: if nothing changed in between, a start *)
(* that fails after doctor passed fails over something doctor cannot find  *)
(* out without doing it: the firewall tool or an ip command failing, a     *)
(* next hop that does not answer, a device of that name another process    *)
(* holds (doctor::run against Tunnel::start and start).                    *)
AdmittedStarts ==
  unit = "waiting" /\ last.by = "run" /\ ~changed =>
    wrong \cap {"tool fails", "attach", "neighbour", "device"} # {}

(* What the tunnel itself can do without: doctor keeps Degraded apart from *)
(* Fail "because this report also gates the service's start".              *)
Tolerated == {"warp", "return path", "mtu", "not enabled"}

(* A service nobody stopped and no malformed file ended, on a host with    *)
(* nothing wrong but what the tunnel can do without.                       *)
Healthy ==
  /\ file /\ asks.addresses # "clash" /\ wrong \subseteq Tolerated
  /\ unit # "stopped" /\ (unit = "failed" => last.file)

(* "a slow boot waits and recovers" (tunnel_unit): a service that is sound *)
(* from some time on is running again and again, whatever was wrong before *)
(* and however many starts it cost.                                        *)
Recovers == <>[]Healthy => []<>(unit = "running")

(* "A typo stops immediately with a clear status" (tunnel_unit; main's     *)
(* EXIT_CONFIG): the unit is not waiting to try a file that did not parse  *)
(* again.                                                                  *)
TypoStops == unit = "waiting" => last.file
==============================================================================
