----------------------------- MODULE WarpRepair -----------------------------
(***************************************************************************)
(* What is sent through WARP, and how it is put right (warp.rs): the       *)
(* profile wg-quick reads, the interface it makes, the selective shape     *)
(* (destinations, their set, the rule for its mark) and the blanket one    *)
(* (egress in the configuration), with setup's last steps, refresh, repair *)
(* and revert.  The host may restart at any time.  wg-quick, nft and ip    *)
(* are external.  A profile is what the code reads and edits in it.        *)
(***************************************************************************)
EXTENDS Integers, Sequences, SequencesExt

CONSTANTS Endpoints,     \* ENDPOINTS, as a sequence
          Enough,        \* repairs in a row that settle everything
          TABLE,         \* the table setup and the mark rule use
          Tables,        \* the tables an egress_table may name
          MaxRefusals, MaxEvents

VARIABLES cfg,           \* the configuration: egress, egress_table
          conf, iface,   \* the installed profile; the running interface
          shook,         \* its last handshake: "never", "fresh" or "stale"
          enabled,       \* wg-quick@warp comes back after a reboot
          sel,           \* destinations and relays chosen; the set; the rule
          answering, carried,   \* endpoints that answer; what gets past Cloudflare
          todo, did,     \* the fixes a repair has to do, and those it set out to do
          left,          \* what the last repair reported; Unasked if none has
          tries,         \* repairs run since anything else happened
          refusals, events

vars == <<cfg, conf, iface, shook, enabled, sel, answering, carried, todo, did, left, tries,
          refusals, events>>

NoConf == [table |-> 0, keep |-> FALSE, pin |-> FALSE, ep |-> 0]
NoIface == [table |-> 0, pin |-> FALSE, ep |-> 0]
NoSel == [dests |-> FALSE, tor |-> FALSE, nft |-> FALSE, rule |-> FALSE]
Unasked == {[what |-> "unasked", fix |-> "none"]}
Idle == todo = << >> /\ did = {}

Up(c) == IF c = NoConf THEN NoIface ELSE [table |-> c.table, pin |-> c.pin, ep |-> c.ep]

------------------------------------------------------------------------------
(* What the profile edits make of a profile.                               *)

\* Mutant of profile_for_table: a Table line that is there stays as it is.
KeepsTable(c, t) == IF c.table = 0 THEN [c EXCEPT !.table = t] ELSE c

profile_for_table(c, t) == [c EXCEPT !.table = t]
with_keepalive(c) == [c EXCEPT !.keep = TRUE]
without_narrow_mtu(c) == [c EXCEPT !.pin = FALSE]
with_endpoint(c, e) == [c EXCEPT !.ep = e]

(* wgcf writes no table, no keepalive and a narrow MTU.                    *)
Generated == [table |-> 0, keep |-> FALSE, pin |-> TRUE, ep |-> Endpoints[1]]
Adjusted(c, t) == without_narrow_mtu(with_keepalive(profile_for_table(c, t)))

------------------------------------------------------------------------------
want_of == [table |-> cfg.table, blanket |-> cfg.egress]

observe ==
  CASE iface = NoIface \/ shook = "never" -> "unknown"
    [] iface.ep \notin answering -> "nothing"
    [] OTHER -> carried

Ails(what, fix, when) == IF when THEN {[what |-> what, fix |-> fix]} ELSE {}

(* The ailments, each with what repair would do about it: of the profile,  *)
(* of a link that is there, and of the choice of destinations.             *)
ProfileAilments(want) ==
  Ails("profile", "none", conf = NoConf) \cup
  Ails("table", "Profile", conf # NoConf /\ conf.table # want.table) \cup
  Ails("keepalive", "Profile", conf # NoConf /\ ~conf.keep)

LinkAilments(want) ==
  Ails("reboot", "Interface", ~enabled) \cup
  Ails("route", "Interface", iface.table # want.table) \cup
  Ails("handshake", "Endpoint", shook = "never" \/ (shook = "stale" /\ conf.keep)) \cup
  Ails("egress", "none", observe = "only_cloudflare") \cup
  Ails("egress", "Interface", observe = "nothing") \cup
  Ails("mtu", IF conf.pin THEN "Profile" ELSE "none", iface.pin)

ShapeAilments(want) ==
  Ails("shape", "Selective", want.blanket /\ (sel.nft \/ sel.dests)) \cup
  Ails("destinations", "Destinations", ~want.blanket /\ sel.dests /\ ~sel.nft)

(* Nothing more is said of an interface that is not there.                 *)
diagnose(want) ==
  ProfileAilments(want) \cup
  IF iface = NoIface THEN Ails("interface", "Interface", TRUE)
  ELSE LinkAilments(want) \cup ShapeAilments(want)

Order == <<"Profile", "Interface", "Endpoint", "Selective", "Destinations">>
fixes(ailments) == SelectSeq(Order, LAMBDA f : \E a \in ailments : a.fix = f)

------------------------------------------------------------------------------
Link(i, s) == iface' = i /\ shook' = s
Unlinked == UNCHANGED <<iface, shook>>

\* Mutant of Others: only the endpoints further down the list are tried.
OthersBelow(i) == SelectSeq(Endpoints, LAMBDA e : e > i.ep)

(* The candidates a rotation goes through.                                 *)
Others(i) == SelectSeq(Endpoints, LAMBDA e : e # i.ep)

Refused == refusals < MaxRefusals /\ refusals' = refusals + 1
Granted == UNCHANGED refusals

(* setup's steps, each skipped where it was done before: the profile, the  *)
(* interface, an endpoint that answers, then the shape asked for.  `n` of  *)
(* its last steps were done when one was refused.                          *)
setup(all, dests, tor, n) ==
  LET made == IF conf = NoConf THEN Adjusted(Generated, TABLE) ELSE conf
      link == IF iface = NoIface THEN Up(made) ELSE iface
      held == iface # NoIface /\ shook # "never"
      tried == <<link.ep>> \o (IF held THEN << >> ELSE Others(link))
      good == SelectSeq(tried, LAMBDA e : e \in answering)
      ep == IF good = << >> THEN Last(tried) ELSE good[1]
      chosen == dests \/ sel.dests
      delivers == good # << >> /\ carried = "beyond"
  IN
  /\ Idle /\ (all \/ chosen \/ tor)
  /\ conf' = IF good = << >> \/ held THEN made ELSE with_endpoint(made, ep)
  /\ enabled' = (enabled \/ iface = NoIface)
  /\ Link([link EXCEPT !.ep = ep], IF good # << >> /\ ~held THEN "fresh"
                                  ELSE IF held THEN shook ELSE "never")
  /\ \/ ~delivers /\ n = 0 /\ Granted /\ UNCHANGED sel
     \/ delivers /\ all /\ n = 4 /\ Granted /\ sel' = [sel EXCEPT !.nft = FALSE, !.rule = FALSE]
     \/ /\ delivers /\ ~all /\ IF n = 4 THEN Granted ELSE Refused
        /\ sel' = [dests |-> chosen, tor |-> sel.tor \/ (tor /\ n > 0),
                   nft |-> sel.nft \/ n > 1, rule |-> sel.rule \/ n > 2]
  /\ left' = Unasked /\ tries' = 0
  /\ UNCHANGED <<cfg, answering, carried, todo, did, events>>

(* By hand or by the daily timer: the set alone, whatever the shape.       *)
refresh ==
  /\ Idle /\ (sel.dests \/ sel.tor) /\ sel' = [sel EXCEPT !.nft = TRUE]
  /\ left' = Unasked /\ tries' = 0
  /\ UNCHANGED <<cfg, conf, iface, shook, enabled, answering, carried, todo, did, refusals,
                 events>>

revert(purge) ==
  /\ Idle /\ Link(NoIface, "never") /\ enabled' = FALSE /\ conf' = NoConf
  /\ sel' = IF purge THEN NoSel ELSE [sel EXCEPT !.nft = FALSE, !.rule = FALSE]
  /\ left' = Unasked /\ tries' = 0
  /\ UNCHANGED <<cfg, answering, carried, todo, did, refusals, events>>

------------------------------------------------------------------------------
repair ==
  /\ Idle
  /\ LET found == diagnose(want_of) IN
     IF fixes(found) = << >> THEN left' = found /\ UNCHANGED <<todo, did>>
     ELSE todo' = fixes(found) /\ did' = ToSet(fixes(found)) /\ left' = Unasked
  /\ tries' = IF tries < Enough THEN tries + 1 ELSE tries
  /\ UNCHANGED <<cfg, conf, iface, shook, enabled, sel, answering, carried, refusals, events>>

(* A profile that reads as it should is left, and so is its interface.     *)
rewrite_profile ==
  LET fixed == Adjusted(conf, cfg.table)
  IN /\ conf # NoConf /\ conf' = fixed
     /\ IF fixed = conf THEN Unlinked ELSE Link(Up(fixed), "never")
     /\ UNCHANGED <<enabled, sel>>

revive_interface ==
  conf # NoConf /\ enabled' = TRUE /\ Link(Up(conf), "never") /\ UNCHANGED <<conf, sel>>

(* The candidates handshake_within is satisfied with: those that answer,   *)
(* or any at all while the last handshake, whichever endpoint it was with, *)
(* is less than 30 s old.                                                  *)
Good == SelectSeq(Others(iface), LAMBDA e : e \in answering \/ shook = "fresh")

rotate_endpoint ==
  /\ iface # NoIface /\ Good # << >>
  /\ Link([iface EXCEPT !.ep = Good[1]], "fresh")
  /\ conf' = IF conf = NoConf THEN conf ELSE with_endpoint(conf, Good[1])
  /\ UNCHANGED <<enabled, sel>>

drop_selective == sel' = NoSel /\ Unlinked /\ UNCHANGED <<conf, enabled>>

load_destinations ==
  sel' = [sel EXCEPT !.nft = TRUE, !.rule = TRUE] /\ Unlinked /\ UNCHANGED <<conf, enabled>>

Apply ==
  LET f == Head(todo) IN
  /\ todo' = Tail(todo)
  /\ \/ f = "Profile" /\ rewrite_profile
     \/ f = "Interface" /\ revive_interface
     \/ f = "Endpoint" /\ rotate_endpoint
     \/ f = "Selective" /\ drop_selective
     \/ f = "Destinations" /\ load_destinations

Fix ==
  /\ todo # << >> /\ Apply /\ Granted
  /\ UNCHANGED <<cfg, answering, carried, did, left, tries, events>>

(* A fix that fails ends the repair.  A rotation that finds no endpoint    *)
(* leaves the interface on the last one it tried.                          *)
FixFails ==
  /\ todo # << >> /\ todo' = << >> /\ did' = {}
  /\ LET f == Head(todo) IN
     \/ f \in {"Profile", "Interface", "Destinations"} /\ Refused /\ Unlinked
     \/ f = "Interface" /\ conf = NoConf /\ Granted /\ Unlinked
     \/ f = "Endpoint" /\ iface = NoIface /\ Granted /\ Unlinked
     \/ /\ f = "Endpoint" /\ iface # NoIface /\ Good = << >> /\ Granted
        /\ iface' = [iface EXCEPT !.ep = Last(<<@>> \o Others(iface))] /\ UNCHANGED shook
  /\ UNCHANGED <<cfg, conf, enabled, sel, answering, carried, left, tries, events>>

(* The second diagnosis is what repair reports.                            *)
Report ==
  /\ todo = << >> /\ did # {}
  /\ left' = {[what |-> a.what, fix |-> IF a.fix \in did THEN "again" ELSE a.fix] :
              a \in diagnose(want_of)}
  /\ did' = {}
  /\ UNCHANGED <<cfg, conf, iface, shook, enabled, sel, answering, carried, todo, tries,
                 refusals, events>>

------------------------------------------------------------------------------
Event == events < MaxEvents /\ events' = events + 1 /\ tries' = 0 /\ UNCHANGED refusals

Handshakes ==
  /\ iface.ep \in answering /\ shook # "fresh" /\ shook' = "fresh"
  /\ UNCHANGED <<cfg, conf, iface, enabled, sel, answering, carried, todo, did, left,
                 tries, refusals, events>>

Ages ==
  /\ iface.ep \notin answering /\ shook = "fresh" /\ shook' = "stale"
  /\ UNCHANGED <<cfg, conf, iface, enabled, sel, answering, carried, todo, did, left,
                 tries, refusals, events>>

Network ==
  /\ Event
  /\ \/ \E e \in answering :
          answering' = answering \ {e} /\ UNCHANGED carried
     \/ carried' \in {"beyond", "only_cloudflare"} \ {carried} /\ UNCHANGED answering
  /\ UNCHANGED <<cfg, conf, iface, shook, enabled, sel, todo, did, left>>

(* The operator edits the configuration or the profile, or the unit is     *)
(* disabled.                                                               *)
Operator ==
  /\ Idle /\ Event /\ left' = Unasked
  /\ \/ \E e \in BOOLEAN, t \in Tables :
          cfg' = [egress |-> e, table |-> t] /\ UNCHANGED <<conf, enabled>>
     \/ /\ conf # NoConf /\ UNCHANGED <<cfg, enabled>>
        /\ conf' \in {[conf EXCEPT !.table = 0], [conf EXCEPT !.keep = FALSE],
                      [conf EXCEPT !.pin = TRUE]}
     \/ enabled' = FALSE /\ UNCHANGED <<cfg, conf>>
  /\ UNCHANGED <<iface, shook, sel, answering, carried, todo, did>>

(* nft and ip keep nothing over a restart.                                 *)
Reboot ==
  /\ Event /\ left' = Unasked /\ todo' = << >> /\ did' = {}
  /\ Link(IF enabled THEN Up(conf) ELSE NoIface, "never")
  /\ sel' = [sel EXCEPT !.nft = FALSE, !.rule = FALSE]
  /\ UNCHANGED <<cfg, conf, enabled, answering, carried>>

Init ==
  /\ cfg \in [egress : BOOLEAN, table : Tables]
  /\ conf = NoConf /\ iface = NoIface /\ shook = "never" /\ enabled = FALSE /\ sel = NoSel
  /\ answering = ToSet(Endpoints) /\ carried = "beyond"
  /\ todo = << >> /\ did = {} /\ left = Unasked /\ tries = 0
  /\ refusals = 0 /\ events = 0

Next ==
  \/ \E all, dests, tor \in BOOLEAN, n \in 0 .. 4 :
       (all => ~dests /\ ~tor) /\ setup(all, dests, tor, n)
  \/ \E purge \in BOOLEAN : revert(purge)
  \/ refresh \/ repair \/ Fix \/ FixFails \/ Report
  \/ Handshakes \/ Ages \/ Network \/ Operator \/ Reboot

Spec == Init /\ [][Next]_vars

------------------------------------------------------------------------------
(* A repair does not ask again for what it has just done: no fix leaves    *)
(* the ailment it is for, save where the network decides.                  *)
RepairFixes ==
  \A a \in left : a.fix = "again" => a.what \in {"handshake", "egress"}

(* Repairing again and again settles: after Enough repairs in a row        *)
(* nothing that repair can fix is left, wherever the arrangement started,  *)
(* although a fix may hide behind an interface that is down, end the       *)
(* repair before the ones after it, or move off an endpoint that was good. *)
RepairConverges ==
  tries = Enough /\ Idle /\ conf # NoConf /\ answering # {} /\ refusals = 0
    => \A a \in diagnose(want_of) : a.fix = "none" \/ a.what \in {"handshake", "egress"}

(* "The first that completes a handshake is written back to the profile."  *)
(* Of repair: an endpoint it writes into the profile answers.              *)
WritesWhatAnswered ==
  [][conf'.ep # conf.ep /\ todo # << >> => conf'.ep \in answering]_vars

(* "WARP is in order", and the destinations chosen for it leave by it: the *)
(* set, the rule that reads its mark, and the route in the rule's table.   *)
InOrderCarries ==
  left = {} /\ ~cfg.egress /\ (sel.dests \/ sel.tor)
    => sel.nft /\ sel.rule /\ iface.table = TABLE
==============================================================================
