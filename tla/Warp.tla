-------------------------------- MODULE Warp --------------------------------
(***************************************************************************)
(* Cloudflare WARP as the server's second way out: the registration that   *)
(* setup makes, reregister replaces and the monitor gives up on (warp.rs,  *)
(* warp/monitor.rs), with its files, the interface and the tunnel's        *)
(* configuration.  Commands run one at a time; a step outside this program *)
(* may be refused, and the process may be killed or the host may restart   *)
(* between two steps.  Cloudflare, wgcf and systemd are external and are   *)
(* what the code sees of them.  A registration is a number.  What is sent  *)
(* through the interface, and repair, are in WarpRepair.                   *)
(***************************************************************************)
EXTENDS Integers, Sequences

CONSTANTS Endpoints,     \* ENDPOINTS, as a sequence
          MaxAccounts, MaxRefusals, MaxEvents

VARIABLES egress,        \* the configuration sends what is forwarded into WARP
          form,          \* how it says so: on a line of its own, or inline
          steered,       \* the running tunnel sends what it forwards into WARP
          files, kept,   \* the registration's files, and the previous ones
          iface, shook,  \* the running interface; whether it has handshaked
          watch, stamp,  \* the monitor's timer; an account replaced within the hour
          net,           \* what answers, whom Cloudflare carries, whether names resolve
          accounts, made, \* accounts registered; by the monitor, this hour
          refusals, events,
          op, last       \* the command that runs; how the last one ended

vars == <<egress, form, steered, files, kept, iface, shook, watch, stamp, net, accounts,
          made, refusals, events, op, last>>

NoConf == [id |-> 0, ep |-> 0]
Nothing == [account |-> 0, profile |-> 0, conf |-> NoConf]
Idle == [cmd |-> "none", pc |-> "idle", k |-> 0, by |-> "operator", before |-> Nothing]
NoResult == [cmd |-> "none", ok |-> TRUE, stage |-> "idle", before |-> Nothing]

------------------------------------------------------------------------------
(* What can be seen from here.                                             *)

Answers == iface # NoConf /\ iface.ep \in net.answering

probe(beyond) ==
  IF beyond /\ ~net.dns THEN "unrunnable"
  ELSE IF Answers /\ (beyond => iface.id \notin net.limited) THEN "answered"
  ELSE "silent"

reach_of(beyond, cloudflare) ==
  CASE beyond = "answered" -> "beyond"
    [] beyond = "unrunnable" -> "unknown"
    [] beyond = "silent" /\ cloudflare = "answered" -> "only_cloudflare"
    [] OTHER -> "nothing"

reach == reach_of(probe(TRUE), probe(FALSE))

carrying ==
  IF iface = NoConf \/ ~shook THEN "no"
  ELSE CASE reach = "beyond" -> "yes" [] reach = "unknown" -> "unknown" [] OTHER -> "no"

------------------------------------------------------------------------------
Link(i, s) == iface' = i /\ shook' = s
Unlinked == UNCHANGED <<iface, shook>>

Other == SelectSeq(Endpoints, LAMBDA e : e # iface.ep)

(* The first other endpoint that answers, written down; or none, with the  *)
(* interface left on the last one tried.                                   *)
rotate_endpoint(ok) ==
  LET good == SelectSeq(Other, LAMBDA e : e \in net.answering)
  IN IF good # << >>
     THEN /\ ok
          /\ Link([iface EXCEPT !.ep = good[1]], TRUE)
          /\ files' = [files EXCEPT !.conf.ep = good[1]]
     ELSE /\ ~ok
          /\ iface' = [iface EXCEPT !.ep = Other[Len(Other)]]
          /\ UNCHANGED <<shook, files>>

confirm_handshake(ok) ==
  IF shook THEN ok /\ Unlinked /\ UNCHANGED files
  ELSE IF Answers THEN ok /\ Link(iface, TRUE) /\ UNCHANGED files
  ELSE rotate_endpoint(ok)

(* A step outside this program's control is refused.                       *)
Refused == refusals < MaxRefusals /\ refusals' = refusals + 1
Granted == UNCHANGED refusals

Ended(ok) ==
  /\ op' = Idle
  /\ last' = [cmd |-> op.cmd, ok |-> ok, stage |-> op.pc, before |-> op.before]
Goto(pc) == op' = [op EXCEPT !.pc = pc] /\ UNCHANGED last

(* A command that refuses before it has changed anything changes nothing,  *)
(* so only the ones that go on are begun.                                  *)
Begin(cmd, pc) ==
  /\ op = Idle
  /\ op' = [Idle EXCEPT !.cmd = cmd, !.pc = pc, !.before = files]
  /\ last' = NoResult

------------------------------------------------------------------------------
(* The steps that make a registration, which setup and reregister share.   *)

\* Mutant of AfterFailure: a handshake that never comes leaves the new one.
AfterFailureEarly ==
  IF op.cmd = "reregister" /\ op.pc # "confirm" THEN Goto("back") ELSE Ended(FALSE)

(* Setup stops where it is; reregister puts the previous one back.         *)
AfterFailure == IF op.cmd = "reregister" THEN Goto("back") ELSE Ended(FALSE)

register ==
  /\ op.pc = "register"
  /\ \/ /\ files.account # 0 /\ Granted /\ Goto("generate")
        /\ UNCHANGED <<files, accounts, made>>
     \/ /\ files.account = 0 /\ accounts < MaxAccounts /\ Granted /\ Goto("generate")
        /\ accounts' = accounts + 1
        /\ files' = [files EXCEPT !.account = accounts + 1]
        /\ made' = IF op.by = "monitor" THEN made + 1 ELSE made
     \/ /\ files.account = 0 /\ (Refused \/ (accounts = MaxAccounts /\ Granted))
        /\ AfterFailure /\ UNCHANGED <<files, accounts, made>>
  /\ UNCHANGED <<egress, form, steered, kept, iface, shook, watch, stamp, net, events>>

generate_profile ==
  LET id == IF files.profile # 0 THEN files.profile ELSE files.account
  IN
  /\ op.pc = "generate"
  /\ \/ files.conf # NoConf /\ Granted /\ Goto("up") /\ UNCHANGED files
     \/ /\ files.conf = NoConf /\ Granted /\ Goto("up")
        /\ files' = [files EXCEPT !.profile = id, !.conf = [id |-> id, ep |-> Endpoints[1]]]
     \/ files.conf = NoConf /\ Refused /\ AfterFailure /\ UNCHANGED files
  /\ UNCHANGED <<egress, form, steered, kept, iface, shook, watch, stamp, net, accounts, made,
                 events>>

bring_up ==
  /\ op.pc = "up"
  /\ \/ iface # NoConf /\ Granted /\ Goto("confirm") /\ Unlinked
     \/ iface = NoConf /\ Granted /\ Goto("confirm") /\ Link(files.conf, FALSE)
     \/ iface = NoConf /\ Refused /\ AfterFailure /\ Unlinked
  /\ UNCHANGED <<egress, form, steered, files, kept, watch, stamp, net, accounts, made, events>>

Confirm ==
  /\ op.pc = "confirm"
  /\ \E ok \in BOOLEAN : confirm_handshake(ok) /\ IF ok THEN Goto("reach") ELSE AfterFailure
  /\ UNCHANGED <<egress, form, steered, kept, watch, stamp, net, accounts, made, refusals,
                 events>>

setup ==
  /\ Begin("setup", "register")
  /\ UNCHANGED <<egress, form, steered, files, kept, iface, shook, watch, stamp, net, accounts,
                 made, refusals, events>>

Delivers == reach \in {"beyond", "unknown"}

confirm_reach ==
  /\ op.cmd = "setup" /\ op.pc = "reach" /\ Ended(Delivers)
  /\ UNCHANGED <<egress, form, steered, files, kept, iface, shook, watch, stamp, net, accounts,
                 made, refusals, events>>

------------------------------------------------------------------------------
(* reregister.                                                             *)

registration_files == <<"account", "profile", "conf">>
Bare(n) == IF n = "conf" THEN NoConf ELSE 0

(* `previous` is emptied and the interface stopped before anything moves.  *)
reregister(by) ==
  /\ files.account # 0
  /\ op' = [Idle EXCEPT !.cmd = "reregister", !.pc = "aside", !.k = 1, !.by = by,
                        !.before = files]
  /\ kept' = Nothing /\ Link(NoConf, FALSE)

Reregister ==
  /\ op = Idle /\ reregister("operator") /\ last' = NoResult
  /\ UNCHANGED <<egress, form, steered, files, watch, stamp, net, accounts, made, refusals,
                 events>>

(* What ends a reregister: the monitor goes on from there.                 *)
Returned(ok) ==
  IF op.by = "monitor"
  THEN /\ op' = [op EXCEPT !.cmd = "check", !.pc = IF ok THEN "stamp" ELSE "fall"]
       /\ last' = [cmd |-> "reregister", ok |-> ok, stage |-> op.pc, before |-> op.before]
  ELSE Ended(ok)

(* One file at a time; a file that cannot be moved ends the command there. *)
set_aside ==
  /\ op.pc = "aside"
  /\ LET n == registration_files[op.k] IN
     \/ /\ Granted
        /\ kept' = [kept EXCEPT ![n] = files[n]]
        /\ files' = [files EXCEPT ![n] = Bare(n)]
        /\ op' = IF op.k = 3 THEN [op EXCEPT !.pc = "register"] ELSE [op EXCEPT !.k = @ + 1]
        /\ UNCHANGED last
     \/ files[n] # Bare(n) /\ Refused /\ Returned(FALSE) /\ UNCHANGED <<files, kept>>
  /\ UNCHANGED <<egress, form, steered, iface, shook, watch, stamp, net, accounts, made, events>>

\* Mutant of put_back: a file the attempt made stays where there was none.
PutBackOnly == [n \in DOMAIN files |-> IF kept[n] # Bare(n) THEN kept[n] ELSE files[n]]

put_back == kept

(* The interface stops, the previous files return, and it starts on them.  *)
Back ==
  /\ op.pc = "back"
  /\ files' = put_back /\ kept' = Nothing
  /\ Link(put_back.conf, FALSE)
  /\ Returned(FALSE)
  /\ UNCHANGED <<egress, form, steered, watch, stamp, net, accounts, made, refusals, events>>

(* A new registration that does not deliver is kept, and is an error.      *)
Reached ==
  /\ op.cmd = "reregister" /\ op.pc = "reach" /\ Returned(Delivers)
  /\ UNCHANGED <<egress, form, steered, files, kept, iface, shook, watch, stamp, net, accounts,
                 made, refusals, events>>

revert(purge) ==
  /\ op = Idle /\ files # Nothing /\ UNCHANGED op /\ last' = NoResult
  /\ Link(NoConf, FALSE) /\ watch' = FALSE
  /\ files' = IF purge THEN Nothing ELSE [files EXCEPT !.conf = NoConf]
  /\ kept' = IF purge THEN Nothing ELSE kept
  /\ stamp' = (stamp /\ ~purge) /\ made' = 0
  /\ UNCHANGED <<egress, form, steered, net, accounts, refusals, events>>

------------------------------------------------------------------------------
(* The monitor.                                                            *)

watched == egress

enable ==
  /\ op = Idle /\ watched /\ ~watch /\ watch' = TRUE /\ last' = NoResult
  /\ UNCHANGED <<egress, form, steered, files, kept, iface, shook, stamp, net, accounts, made,
                 refusals, events, op>>

(* The timer fires.  A check that leaves WARP alone changes nothing.       *)
check ==
  /\ watch /\ watched /\ carrying = "no"
  /\ Begin("check", "revive")
  /\ UNCHANGED <<egress, form, steered, files, kept, iface, shook, watch, stamp, net, accounts,
                 made, refusals, events>>

revive_interface ==
  /\ op.pc = "revive"
  /\ \/ files.conf # NoConf /\ Granted /\ Link(files.conf, FALSE) /\ Goto("answer")
     \/ files.conf = NoConf /\ Granted /\ Unlinked /\ Goto("replace")
     \/ Refused /\ Unlinked /\ Goto("replace")
  /\ UNCHANGED <<egress, form, steered, files, kept, watch, stamp, net, accounts, made, events>>

Answer ==
  /\ op.pc = "answer"
  /\ \E ok \in BOOLEAN : confirm_handshake(ok) /\ Goto(IF ok THEN "again" ELSE "replace")
  /\ UNCHANGED <<egress, form, steered, kept, watch, stamp, net, accounts, made, refusals,
                 events>>

(* Carrying once more.  Not being able to tell goes on to the account.     *)
Again ==
  /\ op.pc = "again"
  /\ IF carrying = "yes" THEN Ended(TRUE) ELSE Goto("replace")
  /\ UNCHANGED <<egress, form, steered, files, kept, iface, shook, watch, stamp, net, accounts,
                 made, refusals, events>>

\* Mutant of reregistered_within: every failing check replaces the account.
NeverWithin == FALSE

reregistered_within == stamp

Replace ==
  /\ op.pc = "replace"
  /\ IF reregistered_within \/ files.account = 0
     THEN Goto("fall") /\ UNCHANGED <<kept, iface, shook>>
     ELSE reregister("monitor") /\ UNCHANGED last
  /\ UNCHANGED <<egress, form, steered, files, watch, stamp, net, accounts, made, refusals,
                 events>>

Stamp ==
  /\ op.pc = "stamp" /\ stamp' = TRUE /\ Ended(TRUE)
  /\ UNCHANGED <<egress, form, steered, files, kept, iface, shook, watch, net, accounts, made,
                 refusals, events>>

without_egress == form = "line"

\* Mutant of fall_back: the edited file is not the one the tunnel reads.
FallBackElsewhere ==
  /\ op.pc = "fall"
  /\ IF without_egress THEN Goto("restart") ELSE Ended(FALSE)
  /\ UNCHANGED <<egress, form, steered, files, kept, iface, shook, watch, stamp, net, accounts,
                 made, refusals, events>>

(* The configuration is replaced in one step, then the tunnel restarts.    *)
fall_back ==
  /\ op.pc = "fall"
  /\ IF without_egress THEN egress' = FALSE /\ Goto("restart")
     ELSE UNCHANGED egress /\ Ended(FALSE)
  /\ UNCHANGED <<form, steered, files, kept, iface, shook, watch, stamp, net, accounts, made,
                 refusals, events>>

RestartTunnel ==
  /\ op.pc = "restart"
  /\ \/ Granted /\ steered' = egress /\ Ended(TRUE)
     \/ Refused /\ UNCHANGED steered /\ Ended(FALSE)
  /\ UNCHANGED <<egress, form, files, kept, iface, shook, watch, stamp, net, accounts, made,
                 events>>

------------------------------------------------------------------------------
(* The host and the network around it.                                     *)

Event == events < MaxEvents /\ events' = events + 1

(* The keepalive, or a packet, completes a handshake.                      *)
Handshakes ==
  /\ Answers /\ ~shook /\ shook' = TRUE
  /\ UNCHANGED <<egress, form, steered, files, kept, iface, watch, stamp, net, accounts, made,
                 refusals, events, op, last>>

Network ==
  /\ Event
  /\ \/ \E e \in net.answering : net' = [net EXCEPT !.answering = @ \ {e}]
     \/ \E i \in 1 .. MaxAccounts : net' = [net EXCEPT !.limited = 0 .. i] /\ net # net'
     \/ net' = [net EXCEPT !.dns = ~@]
  /\ UNCHANGED <<egress, form, steered, files, kept, iface, shook, watch, stamp, accounts, made,
                 refusals, op, last>>

(* The operator puts WARP in the path, or out, and restarts the tunnel.    *)
Operator ==
  /\ op = Idle /\ Event /\ last' = NoResult
  /\ egress' = ~egress /\ steered' = ~egress /\ made' = 0
  /\ UNCHANGED <<form, files, kept, iface, shook, watch, stamp, net, accounts, refusals, op>>

Hour ==
  /\ stamp \/ made > 0
  /\ stamp' = FALSE /\ made' = 0
  /\ UNCHANGED <<egress, form, steered, files, kept, iface, shook, watch, net, accounts,
                 refusals, events, op, last>>

(* The process is killed, or the host restarts, with the interface if its  *)
(* unit was enabled.                                                       *)
Crash ==
  /\ Event /\ op' = Idle /\ last' = NoResult /\ made' = 0
  /\ \/ op # Idle /\ UNCHANGED <<steered, iface, shook>>
     \/ steered' = egress /\ \E c \in {files.conf, NoConf} : Link(c, FALSE)
  /\ UNCHANGED <<egress, form, files, kept, watch, stamp, net, accounts, refusals>>

------------------------------------------------------------------------------
Init ==
  /\ egress \in BOOLEAN /\ form \in {"line", "inline"} /\ steered = egress
  /\ files = Nothing /\ kept = Nothing /\ iface = NoConf /\ shook = FALSE
  /\ watch = FALSE /\ stamp = FALSE
  /\ net = [answering |-> {Endpoints[i] : i \in DOMAIN Endpoints}, limited |-> {}, dns |-> TRUE]
  /\ accounts = 0 /\ refusals = 0 /\ events = 0 /\ made = 0
  /\ op = Idle /\ last = NoResult

Step ==
  \/ register \/ generate_profile \/ bring_up \/ Confirm \/ confirm_reach
  \/ set_aside \/ Back \/ Reached
  \/ revive_interface \/ Answer \/ Again \/ Replace \/ Stamp \/ fall_back \/ RestartTunnel

Next ==
  \/ setup \/ Reregister \/ enable \/ check \/ Step
  \/ \E purge \in BOOLEAN : revert(purge)
  \/ Handshakes \/ Network \/ Operator \/ Hour \/ Crash

(* A command that runs goes on, and the timer fires.                       *)
Spec == Init /\ [][Next]_vars /\ WF_vars(Step) /\ SF_vars(check)

------------------------------------------------------------------------------
(* The files of one registration.                                          *)
Agree(f) ==
  /\ f.account = 0 => f = Nothing
  /\ f.profile \in {0, f.account} /\ f.conf.id \in {0, f.account}

(* The account, the generated profile and the installed one belong to one  *)
(* registration after every setup and every reregister that found them so, *)
(* however far it got past set_aside: a profile never runs beside an       *)
(* account that is not its own.                                            *)
FilesAgree ==
  last.cmd \in {"setup", "reregister"} /\ last.stage # "aside" /\ Agree(last.before)
    => Agree(files)

(* A replacement that cannot be brought up "costs nothing but the          *)
(* attempt": reregister leaves all the previous files in their places.     *)
FailedCostsNothing ==
  last.cmd = "reregister" /\ ~last.ok /\ last.stage \notin {"aside", "reach"}
    => files = last.before

(* The monitor replaces the account at most once an hour, unless it was    *)
(* killed before it could say so, or the operator put WARP back in the     *)
(* path in between: "replacing it again every few minutes would only burn  *)
(* registrations".                                                         *)
NoBurning == form = "line" => made <= 1

(* Replacing an account is safe: the account, its profile and the one in   *)
(* use stay one registration's, a replacement that cannot be brought up    *)
(* leaves every file as it was, and the monitor replaces the account at    *)
(* most once (reregister, put_back, reregistered_within).                  *)
ReplacementsAreSafe == FilesAgree /\ FailedCostsNothing /\ NoBurning

(* A WARP that carries nothing is turned off in the configuration, as long *)
(* as the monitor's timer is there and the line can be found.              *)
Dead == net.dns /\ net.limited = 0 .. MaxAccounts
Hopeless == watch /\ egress /\ form = "line" /\ Dead
FallsBack == Hopeless ~> ~Hopeless

(* The monitor's promise, "take WARP out of the path so the tunnel keeps   *)
(* working through this server's own address", of the tunnel that runs     *)
(* rather than of its configuration.                                       *)
Stranded == watch /\ steered /\ form = "line" /\ Dead
OutOfThePath == Stranded ~> ~Stranded
==============================================================================
