------------------------------ MODULE MCService ------------------------------
(***************************************************************************)
(* A process and the unit that keeps it up, side by side in one run: two   *)
(* tunnels, the second with a batched datapath, each with the reader that  *)
(* waits on its device; and the service with its check before every start. *)
(* They share no state, an initial state chooses one, and every behaviour  *)
(* is a behaviour of that part, the other staying in an initial state.     *)
(***************************************************************************)
EXTENDS Process, Doctor

VARIABLE which

MCThreads == {<<1, "out">>, <<2, "out">>}

(* Files for Doctor: a client; one that listens for SOCKS and transmits by *)
(* AF_PACKET; a gateway with a lane and a way out; one whose addresses     *)
(* clash; and a gateway whose lane names a table.                          *)
Client ==
  [endpoint |-> TRUE, route_marked |-> FALSE, socks5 |-> FALSE, route_all |-> FALSE,
   egress |-> FALSE, lane |-> FALSE, table |-> FALSE, gateway |-> FALSE, listen_port |-> FALSE,
   afpacket |-> FALSE, manage_firewall |-> TRUE, addresses |-> "fine"]
Gateway ==
  [Client EXCEPT !.endpoint = FALSE, !.gateway = TRUE, !.listen_port = TRUE, !.lane = TRUE]
FileAsks ==
  {Client, [Client EXCEPT !.socks5 = TRUE, !.afpacket = TRUE],
   [Gateway EXCEPT !.egress = TRUE],
   [Client EXCEPT !.addresses = "clash", !.manage_firewall = FALSE],
   [Gateway EXCEPT !.table = TRUE, !.addresses = "apart"]}

(* The part that is not chosen holds still: the process before any of its  *)
(* threads has run, the unit before its first check.                       *)
MCInit ==
  /\ Init /\ DoctorInit
  /\ \/ which = "process" /\ file /\ asks = Client
     \/ which = "service"

MCNext ==
  /\ UNCHANGED which
  /\ \/ which = "process" /\ Next /\ UNCHANGED doctorVars
     \/ which = "service" /\ DoctorNext /\ UNCHANGED vars

(* The fairness of the two parts: every thread is scheduled, and systemd   *)
(* runs what is due.                                                       *)
MCSpec ==
  /\ MCInit /\ [][MCNext]_<<which, vars, doctorVars>>
  /\ \A t \in Tunnels : WF_vars(which = "process" /\ exit = "not yet" /\ RunLoop(t))
  /\ \A r \in Threads : WF_vars(which = "process" /\ exit = "not yet" /\ Reader(r))
  /\ WF_vars(which = "process" /\ Join)
  /\ WF_doctorVars(which = "service" /\ (ExecStartPre \/ ExecStart \/ RestartSec))

------------------------------------------------------------------------------
(* A process told to stop ends, and so does one whose reader fails for     *)
(* good, however the other tunnels and threads are doing; and then it      *)
(* exits with the error that has it restarted (run, after_failure, start). *)
ProcessEnds ==
  /\ []ExitSaysWhy
  /\ ShutdownEnds
  /\ \A r \in Threads :
       (which = "process" /\ link[r] = "broken" /\ reader[r] = "reads") ~> exit # "not yet"

(* A service that is sound from some time on is running again and again,   *)
(* whatever was wrong before and however many starts it cost (tunnel_unit: *)
(* "a slow boot waits and recovers").                                      *)
ServiceRecovers ==
  <>[](which = "service" /\ Healthy) => []<>(which = "service" => unit = "running")
==============================================================================
