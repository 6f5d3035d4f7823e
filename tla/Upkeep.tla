------------------------------- MODULE Upkeep --------------------------------
(***************************************************************************)
(* The commands an operator keeps one host with: `service install`,        *)
(* `remove`, `start`, `stop` and `restart`, `update`, `config migrate`,    *)
(* `xray install`, `update` and `setup`, `networkd protect` and            *)
(* `unprotect`, `tune --apply`, and the tail of `setup` that does the same *)
(* things (service.rs, update.rs, migrate.rs, xray.rs, networkd.rs,        *)
(* tune.rs, main.rs).  A command is a sequence of steps; a step may fail,  *)
(* and the command be killed, between any two.  systemd and                *)
(* systemd-networkd are external.  A file holds a version of its contents. *)
(***************************************************************************)
EXTENDS Integers, Sequences

CONSTANTS Versions,     \* of a binary, a configuration, a data file
          MaxJobs, MaxTroubles

VARIABLES disk,         \* file -> what it holds
          up,           \* unit -> what it read when it was started, or Down
          policy_rule,  \* the policy rule of the running tunnel is installed
          job,          \* the steps left of the command in progress
          name,         \* which command it is
          said,         \* what it has told the operator
          jobs, troubles

upkeepVars == <<disk, up, policy_rule, job, name, said, jobs, troubles>>

(* The release that Xray's setup fetches is one of them.                   *)
UpkeepAssumption == 1 \in Versions

Absent == <<"absent">>
Junk == <<"cut short">>        \* a file whose write failed part way
Unchecked == <<"unchecked">>   \* a download that is not the published file
Down == <<"down">>
Is(v) == <<"is", v>>
Whole(c) == c[1] = "is"

(* A tunnel configuration says whether Xray is to mark its sockets or to   *)
(* use the SOCKS listener; so does an Xray configuration, and the unit     *)
(* grants the capability a mark needs or does not.                         *)
Marks(c) == Whole(c) /\ c[2] % 2 = 1
Unit(v) == Is(v)
Granted(marked) == IF marked THEN 1 ELSE 0

Files == {"binary", "staged", "download", "config", "backup", "unit",
          "xray", "xray.staged", "data", "data.staged", "xray.conf", "xray.unit",
          "drop-in", "sysctl"}

------------------------------------------------------------------------------
(* The steps.  `must` is the code's `?`: the command ends if the step      *)
(* fails; the others are reported and passed over.                         *)
Step(op, on, v, must) == [op |-> op, on |-> on, v |-> v, must |-> must]
Fetch(what) == Step("fetch", "download", what, TRUE)
Verify == Step("verify", "download", Absent, TRUE)
Write(file, v) == Step("write", file, v, TRUE)
Copy(from, to) == Step("copy", to, <<from>>, TRUE)
Move(from, to) == Step("move", to, <<from>>, TRUE)
Systemctl(verb, unit) == Step(verb, unit, Absent, TRUE)
Say(what) == Step("say", what, Absent, TRUE)

(* update::replace and xray::replace: a copy beside the target, renamed    *)
(* over it.                                                                *)

\* Mutant of replace: the download is copied onto the target.
ReplaceInPlace(staged, target) == << Copy("download", target) >>

replace(staged, target) ==
  << Copy("download", staged), Move(staged, target) >>

update_run(v) == << Fetch(Is(v)), Verify >> \o replace("staged", "binary")

(* restart: offered where there is a service, and its failure reported.    *)
update_restart == << [Systemctl("restart", "paqetz") EXCEPT !.must = FALSE] >>

(* The data files have a digest to be checked against or have not.         *)
install_rules(v, published) ==
  << Fetch(Is(v)) >> \o (IF published THEN << Verify >> ELSE << >>)
  \o replace("data.staged", "data")

xray_install(v, published) ==
  << Fetch(Is(v)), Verify >> \o replace("xray.staged", "xray") \o install_rules(v, published)

(* install_unit, with or without --enable.                                 *)
install_unit(unit, file, v, enable) ==
  << Write(file, v) >> \o (IF enable THEN << Systemctl("enable", unit), Say(unit) >> ELSE << >>)

(* xray::apply: a running Xray is restarted; one that is not has its unit  *)
(* written and started.                                                    *)
xray_apply(v) ==
  << Write("xray.conf", Is(v)) >>
  \o IF up["xray"] # Down THEN << Systemctl("restart", "xray"), Say("xray") >>
     ELSE install_unit("xray", "xray.unit", Unit(Granted(Marks(Is(v)))), TRUE)

(* The upstream follows the tunnel's configuration.                        *)
xray_setup(published) ==
  (IF disk["xray"] = Absent THEN xray_install(1, published) ELSE << >>)
  \o xray_apply(disk["config"][2])

(* install_binary when this program is not already the installed one: it   *)
(* is written over the file in place, which a running service refuses.     *)
install_binary(elsewhere) ==
  IF elsewhere THEN << Step("overwrite", "binary", Is(1), TRUE) >> ELSE << >>

service_install(v, elsewhere, enable) ==
  install_binary(elsewhere) \o << Write("config", Is(v)) >>
  \o install_unit("paqetz", "unit", Unit(0), enable)

service_remove ==
  << [Systemctl("disable", "paqetz") EXCEPT !.must = FALSE],
     [Write("unit", Absent) EXCEPT !.must = FALSE] >>

Reported(steps) == [i \in DOMAIN steps |-> [steps[i] EXCEPT !.must = FALSE]]

(* The end of setup: a service that does not start is reported and the     *)
(* rest done all the same; networkd is restarted last.                     *)
setup_tail(restart) ==
  Reported(install_unit("paqetz", "unit", Unit(0), TRUE))
  \o << [Write("drop-in", Is(1)) EXCEPT !.must = FALSE], Write("sysctl", Is(1)) >>
  \o (IF restart THEN << [Systemctl("restart", "networkd") EXCEPT !.must = FALSE] >> ELSE << >>)

setup_install(v, elsewhere, restart) ==
  install_binary(elsewhere) \o << Write("config", Is(v)) >> \o setup_tail(restart)

(* migrate::run: a copy, then the file rewritten in place.  Only a copy    *)
(* the kernel refuses is tried again; any other failure goes unnoticed.    *)

\* Mutant of migrate_run: the file is rewritten before it is copied.
MigrateWritesFirst ==
  << Write("config", disk["config"]),
     [Copy("config", "backup") EXCEPT !.must = FALSE], Say("backup") >>

migrate_run ==
  << [Copy("config", "backup") EXCEPT !.must = FALSE],
     Write("config", disk["config"]), Say("backup") >>

networkd_apply(restart) ==
  << Write("drop-in", Is(1)) >>
  \o (IF restart THEN << Systemctl("restart", "networkd"), Say("networkd") >> ELSE << >>)

networkd_unprotect == << Write("drop-in", Absent) >>

tune_apply == << Write("sysctl", Is(1)) >>

------------------------------------------------------------------------------
(* systemd.  What a unit reads when it starts: the tunnel its binary and   *)
(* its configuration, Xray its own and what its unit grants, networkd the  *)
(* drop-in.                                                                *)
Reads(d) ==
  [paqetz   |-> <<d["binary"], d["config"], d["unit"]>>,
   xray     |-> <<d["xray"], d["xray.conf"], d["xray.unit"], d["data"]>>,
   networkd |-> <<Is(0), d["drop-in"]>>]

CanStart(unit) ==
  unit = "networkd" \/ \A i \in DOMAIN Reads(disk)[unit] : Whole(Reads(disk)[unit][i])

Starts(unit) == IF CanStart(unit) THEN Reads(disk)[unit] ELSE Down

Spares(n) == n[2] = Is(1)

(* The tunnel installs its rule when it starts and takes it away when it   *)
(* stops; networkd removes a rule that is not its own when it starts or an *)
(* interface changes, unless it was told not to.                           *)
Unitd(unit, u) ==
  /\ up' = [up EXCEPT ![unit] = u]
  /\ policy_rule' = CASE unit = "paqetz" -> u # Down
                      [] unit = "networkd" -> policy_rule /\ Spares(u)
                      [] OTHER -> policy_rule

UpkeepInit ==
  /\ \E c \in Versions, there \in BOOLEAN :
       /\ disk = [f \in Files |->
            CASE f = "binary" -> Is(0) [] f = "config" -> Is(c) [] f = "unit" -> Unit(0)
              [] f \in {"xray", "data"} /\ there -> Is(0)
              [] OTHER -> Absent]
       /\ up = [paqetz |-> <<Is(0), Is(c), Unit(0)>>, xray |-> Down, networkd |-> <<Is(0), Absent>>]
  /\ policy_rule = TRUE /\ job = << >> /\ name = "none" /\ said = {}
  /\ jobs = 0 /\ troubles = 0

Runs(n, steps) == name' = n /\ job' = steps

Commands ==
  \/ \E v \in Versions : \/ Runs("update", update_run(v))
                         \/ disk["unit"] # Absent /\ Runs("update", update_run(v) \o update_restart)
  \/ \E v \in Versions, e, on \in BOOLEAN : Runs("install", service_install(v, e, on))
  \/ \E v \in Versions, e, r \in BOOLEAN : Runs("setup", setup_install(v, e, r))
  \/ Runs("remove", service_remove)
  \/ Whole(disk["config"]) /\ (Runs("migrate", migrate_run) \/ Runs("xray", xray_setup(TRUE)))
  \/ \E v \in Versions, p \in BOOLEAN :
       Runs("xray", xray_install(v, p)) \/ Runs("xray", install_rules(v, p))
  \/ \E r \in BOOLEAN : Runs("networkd", networkd_apply(r))
  \/ Runs("networkd", networkd_unprotect) \/ Runs("tune", tune_apply)
  \/ /\ disk["unit"] # Absent
     /\ \E verb \in {"start", "stop", "restart"} : Runs("unit", << Systemctl(verb, "paqetz") >>)

(* A command is begun when none is in progress.                            *)
Begin ==
  /\ job = << >> /\ jobs < MaxJobs /\ jobs' = jobs + 1
  /\ Commands
  /\ said' = {}
  /\ UNCHANGED <<disk, up, policy_rule, troubles>>

(* What a step does when nothing goes wrong.                               *)
Does(s) ==
  \/ /\ s.op \in {"write", "overwrite"} /\ disk' = [disk EXCEPT ![s.on] = s.v]
     /\ UNCHANGED <<up, policy_rule, said>>
  \/ /\ s.op = "fetch" /\ \E v \in {s.v} \cup (IF troubles < MaxTroubles THEN {Unchecked} ELSE {}) :
          disk' = [disk EXCEPT !["download"] = v]
     /\ UNCHANGED <<up, policy_rule, said>>
  \/ s.op = "verify" /\ disk["download"] # Unchecked /\ UNCHANGED <<disk, up, policy_rule, said>>
  \/ /\ s.op \in {"copy", "move"}
     /\ disk' = [disk EXCEPT ![s.on] = disk[s.v[1]],
                             ![s.v[1]] = IF s.op = "move" THEN Absent ELSE @]
     /\ UNCHANGED <<up, policy_rule, said>>
  \/ /\ s.op \in {"enable", "start"} /\ (up[s.on] # Down \/ CanStart(s.on))
     /\ Unitd(s.on, IF up[s.on] = Down THEN Starts(s.on) ELSE up[s.on])
     /\ UNCHANGED <<disk, said>>
  \/ /\ s.op = "restart" /\ CanStart(s.on) /\ Unitd(s.on, Starts(s.on)) /\ UNCHANGED <<disk, said>>
  \/ s.op \in {"stop", "disable"} /\ Unitd(s.on, Down) /\ UNCHANGED <<disk, said>>
  \/ s.op = "say" /\ said' = said \cup {s.on} /\ UNCHANGED <<disk, up, policy_rule>>

(* What a step that fails leaves behind: a write or a copy into a file     *)
(* that is written in place is cut short or was never begun; a restart has *)
(* stopped what it cannot start.                                           *)
StepFails(s) ==
  /\ UNCHANGED said
  /\ \/ s.op \in {"write", "copy", "move", "fetch", "overwrite"} /\ UNCHANGED <<disk, up, policy_rule>>
     \/ /\ s.op \in {"write", "copy", "fetch"} /\ disk' = [disk EXCEPT ![s.on] = Junk]
        /\ UNCHANGED <<up, policy_rule>>
     \/ /\ s.op = "overwrite" /\ up["paqetz"] = Down
        /\ disk' = [disk EXCEPT ![s.on] = Junk] /\ UNCHANGED <<up, policy_rule>>

Refused(s) ==
  /\ UNCHANGED said
  /\ \/ s.op = "verify" /\ disk["download"] = Unchecked /\ UNCHANGED <<disk, up, policy_rule>>
     \/ s.op \in {"enable", "start"} /\ up[s.on] = Down /\ ~CanStart(s.on) /\ UNCHANGED <<disk, up, policy_rule>>
     \/ s.op = "restart" /\ ~CanStart(s.on) /\ Unitd(s.on, Down) /\ UNCHANGED disk
     \/ s.op = "overwrite" /\ up["paqetz"] # Down /\ UNCHANGED <<disk, up, policy_rule>>

Busy(s) == s.op = "overwrite" /\ up["paqetz"] # Down

Advance ==
  /\ job # << >> /\ ~Busy(Head(job)) /\ Does(Head(job)) /\ job' = Tail(job)
  /\ troubles' = IF disk'["download"] = Unchecked /\ disk["download"] # Unchecked
                 THEN troubles + 1 ELSE troubles
  /\ UNCHANGED <<name, jobs>>

Fail ==
  /\ job # << >>
  /\ \/ Refused(Head(job)) /\ UNCHANGED troubles
     \/ troubles < MaxTroubles /\ troubles' = troubles + 1 /\ StepFails(Head(job))
  /\ job' = IF Head(job).must THEN << >> ELSE Tail(job)
  /\ UNCHANGED <<name, jobs>>

(* The command is interrupted between two steps.                           *)
Kill ==
  /\ job # << >> /\ troubles < MaxTroubles /\ troubles' = troubles + 1
  /\ job' = << >>
  /\ UNCHANGED <<disk, up, policy_rule, name, said, jobs>>

(* An interface comes up or goes down.                                     *)
LinkChange ==
  /\ policy_rule /\ ~Spares(up["networkd"])
  /\ policy_rule' = FALSE
  /\ UNCHANGED <<disk, up, job, name, said, jobs, troubles>>

UpkeepNext == Begin \/ Advance \/ Fail \/ Kill \/ LinkChange

UpkeepSpec == UpkeepInit /\ [][UpkeepNext]_upkeepVars

------------------------------------------------------------------------------
(* An update of this program or of Xray, whatever fails and wherever it is *)
(* killed, leaves each installed program what it was or the whole of a     *)
(* release that matched its digest, never a part of one (update::replace,  *)
(* xray::replace, the digest checks).                                      *)
ReplacesWhole ==
  name \in {"update", "xray"} =>
    \A f \in {"binary", "xray"} : disk'[f] = disk[f] \/ disk'[f] \in {Is(v) : v \in Versions}

(* No failure, interruption or kill of a command leaves the host worse     *)
(* off: one failure of `config migrate` never costs the configuration, the *)
(* file or its copy being whole (migrate::run), and programs are replaced  *)
(* whole.                                                                  *)
UpkeepSafe ==
  /\ [](name = "migrate" /\ troubles <= 1 => Whole(disk["config"]) \/ Whole(disk["backup"]))
  /\ [][ReplacesWhole]_upkeepVars

(* "the new configuration is the one in force": when a command that put a  *)
(* configuration or a unit in place says the service runs with it, it does *)
(* (install_unit, xray::apply).                                            *)
SaidIsSo ==
  \A unit \in {"paqetz", "xray"} \cap said : up[unit] = Reads(disk)[unit]

(* "The table fails closed": with its rule taken away, the traffic of a    *)
(* running tunnel stops rather than leave by the ordinary route.           *)
OutageNotLeak == up["paqetz"] # Down => policy_rule
==============================================================================
