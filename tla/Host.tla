-------------------------------- MODULE Host ---------------------------------
(***************************************************************************)
(* What one process does to the host around its tunnels: start, attach,    *)
(* Attached::revert and tear_down (main.rs), with the commands they run:   *)
(* Firewall and Gateway (paqetz-fw), TunnelRoutes, the mark rules of the   *)
(* lanes, and Policy (paqetz-net4 route.rs).  The kernel's state is a      *)
(* record; a command is a record too, and Do is its effect.  Any command   *)
(* that is not a deletion may fail, and the process may be killed between  *)
(* any two.  Address families behave alike and are not told apart.         *)
(***************************************************************************)
EXTENDS Integers, Sequences, SequencesExt, FiniteSets

CONSTANTS Files,         \* configurations, each a sequence of tunnels
          Ports,         \* the outer port each run binds, by run
          Hosts,         \* states the host may be found in
          MaxRuns, MaxFaults, MaxKills

VARIABLES found,         \* the host before the first run
          host,          \* the host now
          file,          \* the configuration in force
          pc,            \* what start is about to do
          at,            \* the tunnel and the half of a lane it is doing it to
          part,          \* the Attached being built
          attached,      \* the tunnels attached so far
          fw,            \* the Firewall to revert, or none
          gone,          \* devices that no longer exist
          runs, faults, kills

vars == <<found, host, file, pc, at, part, attached, fw, gone, runs, faults, kills>>

None == 0
Main == 254              \* the main table
Whichever == -1          \* a selector a command does not give
Anything == "any"
Mark(m) == <<"fwmark", m>>

------------------------------------------------------------------------------
(* The kernel: rules in the order added, routes, nftables tables,          *)
(* iptables rules and the forwarding switch.                               *)
Do(h, c) ==
  CASE c.op = "rule+"  -> [h EXCEPT !.rules = Append(@, [sel |-> c.sel, table |-> c.table])]
    [] c.op = "rule-"  -> [h EXCEPT !.rules = SelectSeq(@, LAMBDA r :
                             ~(r.sel = c.sel /\ c.table \in {Whichever, r.table}))]
    [] c.op = "route+" -> [h EXCEPT !.routes = {r \in @ :
                             <<r.table, r.dst, r.metric>> # <<c.table, c.dst, c.metric>>}
                             \cup {[table |-> c.table, dst |-> c.dst, metric |-> c.metric, to |-> c.to]}]
    [] c.op = "route-" -> [h EXCEPT !.routes = {r \in @ :
                             ~(r.table = c.table /\ r.dst = c.dst /\ c.to \in {Anything, r.to})}]
    [] c.op = "nft"    -> [h EXCEPT !.nft[c.name] = c.body]
    [] c.op = "ipt+"   -> [h EXCEPT !.ipt = IF c.rule \in @ THEN @ ELSE @ \cup {c.rule}]
    [] c.op = "ipt-"   -> [h EXCEPT !.ipt = @ \ {c.rule}]
    [] c.op = "switch" -> [h EXCEPT !.forward = c.on]

Run(h, cmds) == FoldLeft(Do, h, cmds)

Deletion(c) == c.op \in {"rule-", "route-", "ipt-"} \/ (c.op = "nft" /\ c.body = {})
               \/ (c.op = "switch" /\ ~c.on)

(* A kill in the last run shows nothing that one in an earlier run does    *)
(* not.                                                                    *)
MayDie == kills < MaxKills /\ runs < MaxRuns

(* Where the commands may stop: at the end, at a command that fails, or    *)
(* anywhere if the process is killed.                                      *)
Stops(cmds) ==
  [n : {Len(cmds)}, how : {"ok"}]
    \cup [n : {n \in 0 .. Len(cmds) - 1 : faults < MaxFaults /\ ~Deletion(cmds[n + 1])}, how : {"failed"}]
    \cup [n : {n \in 0 .. Len(cmds) - 1 : MayDie}, how : {"killed"}]

(* Devices that no longer exist take their routes with them.               *)
Without(h, devices) == [h EXCEPT !.routes = {r \in @ : r.to \notin devices}]

Devices(f) == {f[i].device : i \in DOMAIN f}

------------------------------------------------------------------------------
(* The commands of each arrangement.                                       *)

\* Mutant of PolicyRevert: deleted by mark and by the table of the moment.
PolicyRevertTable(mark, table, device) ==
  << [op |-> "rule-", sel |-> Mark(mark), table |-> table],
     [op |-> "route-", table |-> table, dst |-> "default", to |-> device],
     [op |-> "route-", table |-> table, dst |-> "default", to |-> "blackhole"] >>

PolicyRevert(mark, table, device) ==
  << [op |-> "rule-", sel |-> Mark(mark), table |-> Whichever],
     [op |-> "route-", table |-> table, dst |-> "default", to |-> device],
     [op |-> "route-", table |-> table, dst |-> "default", to |-> "blackhole"] >>

PolicyApply(mark, table, device) ==
  PolicyRevert(mark, table, device)
  \o << [op |-> "rule+", sel |-> Mark(mark), table |-> table],
        [op |-> "route+", table |-> table, dst |-> "default", metric |-> 1, to |-> device],
        [op |-> "route+", table |-> table, dst |-> "default", metric |-> 100, to |-> "blackhole"] >>

unpoint_mark(mark, table) == << [op |-> "rule-", sel |-> Mark(mark), table |-> table] >>

point_mark_at(mark, table) ==
  unpoint_mark(mark, table) \o << [op |-> "rule+", sel |-> Mark(mark), table |-> table] >>

(* Gateway::apply on a host whose switch stands at `on`, and its revert.   *)
GatewayApply(t, on) ==
  (IF on THEN << >> ELSE << [op |-> "switch", on |-> TRUE] >>)
  \o << [op |-> "nft", name |-> "paqetz_gw", body |-> {t.subnet}] >>
  \o (IF t.egress = None THEN << >>
      ELSE << [op |-> "rule-", sel |-> <<"to", t.subnet>>, table |-> Main],
              [op |-> "rule+", sel |-> <<"to", t.subnet>>, table |-> Main],
              [op |-> "rule-", sel |-> <<"from", t.subnet>>, table |-> t.egress],
              [op |-> "rule+", sel |-> <<"from", t.subnet>>, table |-> t.egress] >>)

GatewayRevert(t, turned_on) ==
  (IF t.egress = None THEN << >>
   ELSE << [op |-> "rule-", sel |-> <<"from", t.subnet>>, table |-> t.egress],
           [op |-> "rule-", sel |-> <<"to", t.subnet>>, table |-> Main] >>)
  \o << [op |-> "nft", name |-> "paqetz_gw", body |-> {}] >>
  \o (IF turned_on THEN << [op |-> "switch", on |-> FALSE] >> ELSE << >>)

RoutesApply(t) ==
  << [op |-> "route+", table |-> Main, dst |-> t.endpoint, metric |-> 0, to |-> "uplink"],
     [op |-> "route+", table |-> Main, dst |-> "low", metric |-> 0, to |-> t.device],
     [op |-> "route+", table |-> Main, dst |-> "high", metric |-> 0, to |-> t.device] >>

RoutesRevert(t) ==
  << [op |-> "route-", table |-> Main, dst |-> "low", to |-> t.device],
     [op |-> "route-", table |-> Main, dst |-> "high", to |-> t.device],
     [op |-> "route-", table |-> Main, dst |-> t.endpoint, to |-> Anything] >>

(* The guard's rules for a port: one nftables table, or three iptables     *)
(* rules, each checked before it is appended.                              *)
Chains == <<"prerouting", "output", "quiet">>

iptables_rules(port) == [i \in 1 .. 3 |-> <<Chains[i], port>>]

FirewallApply(f) ==
  IF f.backend = "nft" THEN << [op |-> "nft", name |-> "paqetz", body |-> {f.port}] >>
  ELSE [i \in 1 .. 3 |-> [op |-> "ipt+", rule |-> iptables_rules(f.port)[i]]]

FirewallRevert(f) ==
  IF f.backend = "nft" THEN << [op |-> "nft", name |-> "paqetz", body |-> {}] >>
  ELSE [i \in 1 .. 3 |-> [op |-> "ipt-", rule |-> iptables_rules(f.port)[i]]]

------------------------------------------------------------------------------
(* Config::distinct, as far as routing goes.                               *)
marked_routes(t) ==
  {<<m, t.table>> : m \in ({t.mark} \cup {t.lanes[i].mark : i \in DOMAIN t.lanes}) \ {None}}
    \cup (IF t.socks \in {None, t.mark} THEN {} ELSE {<<t.socks, t.socks_table>>})

distinct(f) ==
  \A i, j \in DOMAIN f : i # j =>
    /\ f[i].device # f[j].device
    /\ \A a \in marked_routes(f[i]), b \in marked_routes(f[j]) : a[1] # b[1] /\ a[2] # b[2]

------------------------------------------------------------------------------
Nothing == [marked |-> None, listener |-> None, lane_marks |-> {}, gateway |-> FALSE,
            turned_on |-> FALSE, routes |-> FALSE]

Init ==
  /\ found \in Hosts /\ host = found
  /\ file = << >>
  /\ pc = "down" /\ at = <<1, 1>> /\ part = Nothing /\ attached = << >>
  /\ fw = [backend |-> "none", port |-> 0]
  /\ gone = {} /\ runs = 0 /\ faults = 0 /\ kills = 0

(* The process is killed part way through some commands, or between two:   *)
(* its devices go and what it installed stays.                             *)
Dies(h) ==
  /\ host' = Without(h, Devices(file)) /\ gone' = {}
  /\ pc' = "down" /\ kills' = kills + 1
  /\ part' = Nothing /\ attached' = << >> /\ at' = <<1, 1>>
  /\ UNCHANGED <<found, file, fw, runs, faults>>

(* Run the commands; if they all succeed go on with `good`, if one fails   *)
(* with `bad`.                                                             *)
Try(cmds, good, bad) ==
  \E s \in Stops(cmds) :
    LET h == Run(host, SubSeq(cmds, 1, s.n))
    IN \/ s.how = "killed" /\ Dies(h)
       \/ /\ s.how = "ok" /\ good
          /\ host' = h /\ UNCHANGED <<found, file, gone, runs, faults, kills>>
       \/ /\ s.how = "failed" /\ bad
          /\ host' = h /\ faults' = faults + 1 /\ UNCHANGED <<found, file, gone, runs, kills>>

Go(next) == pc' = next /\ UNCHANGED <<at, part, attached, fw>>
Keep(next, p) == pc' = next /\ part' = p /\ UNCHANGED <<at, attached, fw>>

T == file[at[1]]

------------------------------------------------------------------------------
(* A lane whose interface has no table to be found leaves its tunnel       *)
(* without lanes.                                                          *)
lane_plans(f, derivable) ==
  [i \in DOMAIN f |->
     IF derivable \/ \A j \in DOMAIN f[i].lanes : f[i].lanes[j].out = None THEN f[i]
     ELSE [f[i] EXCEPT !.lanes = << >>]]

(* start.  Loading refuses tunnels that would fight; every tunnel binds    *)
(* its port, and then the firewall is told of it.                          *)
Load ==
  /\ pc \in {"down", "stopped", "failed"} /\ runs < MaxRuns
  /\ \E f \in Files, backend \in {"nft", "iptables", "none"}, derivable \in BOOLEAN :
       /\ distinct(f)
       /\ file' = lane_plans(f, derivable)
       /\ fw' = [backend |-> backend, port |-> Ports[runs + 1]]
  /\ pc' = "firewall" /\ runs' = runs + 1
  /\ at' = <<1, 1>> /\ part' = Nothing /\ attached' = << >>
  /\ UNCHANGED <<found, host, gone, faults, kills>>

(* No backend is a warning; a failing one ends start with nothing undone.  *)
Firewall ==
  /\ pc = "firewall"
  /\ Try(IF fw.backend = "none" THEN << >> ELSE FirewallApply(fw), Go("lanes"), Go("fail"))

LaneBody(f) == {f[i].device : i \in {i \in DOMAIN f : f[i].lanes # << >>}}

install_lanes ==
  /\ pc = "lanes"
  /\ Try(IF LaneBody(file) = {} THEN << >>
         ELSE << [op |-> "nft", name |-> "paqetz_lane", body |-> LaneBody(file)] >>,
         Go("attach"), Go("attach"))

(* attach, lane by lane: the sending half, then the forwarding half.  A    *)
(* failure is logged and the next lane is tried.                           *)
AttachLane ==
  /\ pc = "attach" /\ at[2] <= 2 * Len(T.lanes)
  /\ LET lane == T.lanes[(at[2] + 1) \div 2]
         sending == at[2] % 2 = 1
         next(p) == at' = <<at[1], at[2] + 1>> /\ part' = p /\ UNCHANGED <<pc, attached, fw>>
     IN \/ /\ sending /\ lane.mark # None
           /\ Try(PolicyApply(lane.mark, T.table, T.device),
                  next([part EXCEPT !.lane_marks = @ \cup {lane.mark}]), next(part))
        \/ /\ ~sending /\ lane.out # None
           /\ Try(point_mark_at(lane.route_mark, lane.out), next(part), next(part))
        \/ /\ IF sending THEN lane.mark = None ELSE lane.out = None
           /\ Try(<< >>, next(part), FALSE)

AttachMarked ==
  /\ pc = "attach" /\ at[2] > 2 * Len(T.lanes)
  /\ IF T.mark = None THEN Try(<< >>, Go("socks"), FALSE)
     ELSE Try(PolicyApply(T.mark, T.table, T.device),
              Keep("socks", [part EXCEPT !.marked = T.mark]), Go("socks"))

(* A listener that shares the interface's mark follows its table.          *)
SocksTable == IF T.socks = T.mark THEN T.table ELSE T.socks_table

(* The listener's failure is attach's: `?`.                                *)
AttachSocks ==
  /\ pc = "socks"
  /\ IF T.socks = None THEN Try(<< >>, Go("gateway"), FALSE)
     ELSE Try(IF part.marked = T.socks THEN << >>
              ELSE PolicyApply(T.socks, SocksTable, T.device),
              Keep("gateway", [part EXCEPT !.listener = T.socks]), Go("unwind"))

\* Mutant of TurnedOn: the switch is taken to be ours whenever we forward.
TurnedOnAlways(h) == TRUE

TurnedOn(h) == ~h.forward

AttachGateway ==
  /\ pc = "gateway"
  /\ IF ~T.gateway THEN Try(<< >>, Go("routes"), FALSE)
     ELSE Try(GatewayApply(T, host.forward),
              Keep("routes", [part EXCEPT !.gateway = TRUE, !.turned_on = TurnedOn(host)]), Go("routes"))

(* Attached: the next tunnel, or the running process.                      *)
Attach(p) ==
  /\ attached' = Append(attached, p) /\ part' = Nothing
  /\ at' = <<at[1] + 1, 1>>
  /\ pc' = IF at[1] < Len(file) THEN "attach" ELSE "running"
  /\ UNCHANGED fw

(* Without a default route to read, attach fails: `?`.                     *)
AttachRoutes ==
  /\ pc = "routes"
  /\ \/ ~T.all /\ Try(<< >>, Attach(part), FALSE)
     \/ T.all /\ Try(RoutesApply(T), Attach([part EXCEPT !.routes = TRUE]), Attach(part))
     \/ /\ T.all /\ faults < MaxFaults
        /\ Go("unwind") /\ faults' = faults + 1
        /\ UNCHANGED <<found, host, file, gone, runs, kills>>

------------------------------------------------------------------------------
RECURSIVE Lanes(_, _)
Lanes(t, n) ==
  IF n = 0 THEN << >>
  ELSE Lanes(t, n - 1) \o (IF t.lanes[n].out = None THEN << >>
                           ELSE unpoint_mark(t.lanes[n].route_mark, t.lanes[n].out))

RevertAttached(t, a) ==
  Lanes(t, Len(t.lanes))
  \o FlattenSeq(SetToSeq({PolicyRevert(m, t.table, t.device) : m \in a.lane_marks}))
  \o (IF a.routes THEN RoutesRevert(t) ELSE << >>)
  \o (IF a.gateway THEN GatewayRevert(t, a.turned_on) ELSE << >>)
  \o (IF a.listener = None THEN << >>
      ELSE PolicyRevert(a.listener, IF a.listener = t.mark THEN t.table ELSE t.socks_table, t.device))
  \o (IF a.marked = None THEN << >> ELSE PolicyRevert(a.marked, t.table, t.device))

(* Everything attached, the lanes' table, the firewall.                    *)
TearDownCommands ==
  FlattenSeq([i \in DOMAIN attached |-> RevertAttached(file[i], attached[i])])
  \o (IF LaneBody(file) = {} THEN << >> ELSE << [op |-> "nft", name |-> "paqetz_lane", body |-> {}] >>)
  \o (IF fw.backend = "none" THEN << >> ELSE FirewallRevert(fw))

tear_down ==
  /\ pc \in {"stopping", "unwind"}
  /\ Try(TearDownCommands, Go(IF pc = "stopping" THEN "exit" ELSE "fail"), FALSE)

(* The process ends and its devices go.                                    *)
Exit ==
  /\ pc \in {"exit", "fail"}
  /\ host' = Without(host, Devices(file)) /\ gone' = {}
  /\ pc' = IF pc = "exit" THEN "stopped" ELSE "failed"
  /\ UNCHANGED <<found, file, at, part, attached, fw, runs, faults, kills>>

(* A signal, or a device that fails: the run loops return.  The threads    *)
(* blocked in a read keep the devices until the process ends.              *)
Stop ==
  /\ pc = "running" /\ pc' = "stopping"
  /\ UNCHANGED <<found, host, file, at, part, attached, fw, gone, runs, faults, kills>>

Killed == pc \notin {"down", "stopped", "failed"} /\ MayDie /\ Dies(host)

(* Somebody deletes a tunnel's device.                                     *)
DeviceLost ==
  /\ pc = "running"
  /\ \E d \in Devices(file) \ gone :
       /\ host' = Without(host, {d}) /\ gone' = gone \cup {d}
  /\ UNCHANGED <<found, file, pc, at, part, attached, fw, runs, faults, kills>>

Next ==
  \/ Load \/ Firewall \/ install_lanes
  \/ AttachLane \/ AttachMarked \/ AttachSocks \/ AttachGateway \/ AttachRoutes
  \/ Stop \/ tear_down \/ Exit \/ Killed \/ DeviceLost

Spec == Init /\ [][Next]_vars
------------------------------------------------------------------------------
(* Where a socket's mark sends it: the first rule for it whose table has a *)
(* route decides, and with none it is the host's own route.                *)
LeavesBy(mark) ==
  LET routes(table) == {r \in host.routes : r.table = table}
      led == SelectSeq(host.rules, LAMBDA r : r.sel = Mark(mark) /\ routes(r.table) # {})
      best(table) == CHOOSE r \in routes(table) : \A q \in routes(table) : r.metric <= q.metric
  IN IF led = << >> THEN "main" ELSE best(Head(led).table).to

(* A process that installed everything and was stopped in an orderly way   *)
(* leaves the host as it found it, whatever the file asked for and however *)
(* the tunnels share the switch, the tables and the marks.                 *)
LeftAsFound ==
  pc = "stopped" /\ faults = 0 /\ kills = 0 => host = found

(* While the process runs with everything installed, marked sockets leave  *)
(* by their own tunnel's device, and by none if it is gone: the blackhole  *)
(* under the route holds, two tunnels never take each other's marks, and   *)
(* rules left by a killed run do not count.                                *)
MarkedFailsClosed ==
  pc = "running" /\ faults = 0 =>
    \A i \in DOMAIN file : \A r \in marked_routes(file[i]) :
      LeavesBy(r[1]) = IF file[i].device \in gone THEN "blackhole" ELSE file[i].device

(* The claim of Config::distinct, for gateways: tunnels it lets through do *)
(* not undo each other, so every gateway's subnet is translated.           *)
GatewaysTranslate ==
  pc = "running" /\ faults = 0 =>
    \A i \in DOMAIN file : file[i].gateway => file[i].subnet \in host.nft["paqetz_gw"]

(* The claim of start, of a tunnel that cannot be attached: what is        *)
(* already installed goes with it.                                         *)
UnwindsAll == pc = "failed" /\ kills = 0 /\ part # Nothing => host = found

(* The claim of Policy, with commands that fail: marked traffic goes into  *)
(* the tunnel or nowhere.                                                  *)
NeverAround ==
  pc = "running" =>
    \A i \in DOMAIN attached : \A m \in attached[i].lane_marks : LeavesBy(m) # "main"
==============================================================================
