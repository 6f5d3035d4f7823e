------------------------------- MODULE Enrol ---------------------------------
(***************************************************************************)
(* Enrolling two hosts with `paqetz setup` and `paqetz init` (setup.rs):   *)
(* one host generates both files, the file for the other end is carried    *)
(* over, and each host installs and runs its own.  A file is the record of *)
(* the settings `render` decides.  An operator may answer every question   *)
(* either way, a run may end at any question or failed step, and a file is *)
(* written in place, so a failure part way leaves it cut short.  The steps *)
(* of setup about networkd and the kernel's settings are in Upkeep.        *)
(***************************************************************************)
EXTENDS Integers, FiniteSets

CONSTANTS Plans,        \* answers to the questions of generate, or init's flags
          Home,         \* the end each host is: a function from hosts to ends
          MaxWritten,   \* pairs generated and writes cut short, together
          MaxCarried

VARIABLES dir,          \* host -> the two files in its directory
          etc,          \* host -> /etc/paqetz/paqetz.toml
          run,          \* host -> the file the service started with
          pc, role,     \* host -> where its setup stands
          pair,         \* host -> the pair being written
          minted,       \* pairs generated so far
          cuts,         \* writes that failed part way
          overruled,    \* an operator used a file against a warning
          carried       \* files copied between the hosts

enrolVars == <<dir, etc, run, pc, role, pair, minted, cuts, overruled, carried>>

Hosts == DOMAIN Home
Ends == {"server", "client"}
Other(e) == IF e = "server" THEN "client" ELSE "server"
NoFile == [end |-> "none"]

(* The two hosts are the two ends of one tunnel.                           *)
EnrolAssumption ==
  /\ \A h \in Hosts : Home[h] \in Ends
  /\ \A a, b \in Hosts : Home[a] = Home[b] => a = b

------------------------------------------------------------------------------
(* render: the server waits and the client connects out, always; `reverse` *)
(* moves which of the two is the way out.                                  *)
ExitEnd(plan) == IF plan.reverse THEN "client" ELSE "server"

\* Mutant of allowed_ips: the range stays with the client's file.
AllowedAtClient(plan, end) ==
  IF plan.gateway /\ end = "client" THEN "anything" ELSE "the peer"

allowed_ips(plan, end) ==
  IF plan.gateway /\ end # ExitEnd(plan) THEN "anything" ELSE "the peer"

exit_iface(plan) == [gateway |-> plan.gateway, route_all |-> FALSE, route_marked |-> 0]

entry_iface(plan) ==
  [gateway |-> FALSE, route_all |-> plan.route_all, route_marked |-> plan.route_marked]

entry_socks5(plan, end) == end # ExitEnd(plan) /\ plan.socks5

render(g, plan, end) ==
  LET iface == IF end = ExitEnd(plan) THEN exit_iface(plan) ELSE entry_iface(plan)
  IN [end |-> end, private_key |-> <<g, end>>, public_key |-> <<g, Other(end)>>,
      address |-> end, tunnel_address |-> Other(end), ipv6 |-> plan.ipv6,
      listen_port |-> IF end = "server" THEN plan.port ELSE 0,
      endpoint |-> IF end = "client" THEN <<plan.host, plan.port>> ELSE << >>,
      gateway |-> iface.gateway, route_all |-> iface.route_all,
      route_marked |-> iface.route_marked,
      socks5 |-> entry_socks5(plan, end),
      allowed_ips |-> allowed_ips(plan, end),
      whole |-> TRUE]

(* What is left of a file whose write failed part way: the sections at its *)
(* end are gone, or so much that nothing parses.                           *)
Cut(f) == {[f EXCEPT !.whole = FALSE, !.allowed_ips = "the peer", !.socks5 = FALSE],
           [end |-> "junk"]}

(* Config::parse and into_only, on what render writes: an endpoint is an   *)
(* address and not a name, nobody listens on port 0, and a mark that is    *)
(* the number of one of the kernel's tables has no table to be written as. *)
parses(f) ==
  /\ f.end \in Ends
  /\ f.endpoint # << >> => f.endpoint[1] = "address"
  /\ f.end = "server" => f.listen_port # 0
  /\ f.route_marked \notin 253 .. 255

\* Mutant of is_for: the name of the file is taken for what it holds.
IsForAny(f, r) == TRUE

is_for(f, r) == (f.endpoint # << >>) = (r = "client")

------------------------------------------------------------------------------
EnrolInit ==
  /\ dir = [h \in Hosts |-> [e \in Ends |-> NoFile]]
  /\ etc = [h \in Hosts |-> NoFile] /\ run = [h \in Hosts |-> NoFile]
  /\ pc = [h \in Hosts |-> "idle"] /\ role = [h \in Hosts |-> "neither"]
  /\ pair = [h \in Hosts |-> NoFile]
  /\ minted = 0 /\ cuts = 0 /\ overruled = FALSE /\ carried = 0

Go(h, step) == pc' = [pc EXCEPT ![h] = step]

(* write_private and write_file truncate and then write: the outcomes of   *)
(* writing `f`, and the step that follows each.                            *)
Writes(f, next) ==
  {<<f, next, cuts>>}
    \cup (IF minted' + cuts < MaxWritten THEN {<<c, "idle", cuts + 1>> : c \in Cut(f)} ELSE {})

(* adopt, when the host has its file and it parses: use it or decline.     *)
AdoptFound(h, r) ==
  /\ r \in Ends
  /\ LET f == dir[h][r]
     IN /\ parses(f)
        /\ \/ /\ Go(h, "service")
              /\ overruled' = (overruled \/ ~is_for(f, r))
           \/ Go(h, "questions") /\ UNCHANGED overruled
  /\ UNCHANGED <<dir, cuts>>

(* adopt, when it has none that parses: the operator pastes a file that    *)
(* some host holds, is warned if it is for the other end, and may insist.  *)
AdoptPasted(h, r) ==
  /\ r \in Ends /\ ~parses(dir[h][r])
  /\ \E from \in Hosts, e \in Ends :
       LET f == dir[from][e]
       IN /\ parses(f)
          /\ overruled' = (overruled \/ ~is_for(f, r))
          /\ \E w \in Writes(f, "service") :
               /\ dir' = [dir EXCEPT ![h][r] = w[1]]
               /\ Go(h, w[2]) /\ cuts' = w[3]

(* Nothing to adopt: the answer was no, the file was for the other end and *)
(* is not wanted, or this host only generates.                             *)
AdoptNothing(h, r) ==
  /\ r \in Ends => ~parses(dir[h][r])
  /\ Go(h, "questions")
  /\ UNCHANGED <<dir, cuts, overruled>>

(* Question 0, and adopt.  An operator knows which end a host is.          *)
interactive(h) ==
  /\ pc[h] = "idle" /\ UNCHANGED minted
  /\ \E r \in {Home[h], "neither"} :
       /\ role' = [role EXCEPT ![h] = r]
       /\ AdoptFound(h, r) \/ AdoptPasted(h, r) \/ AdoptNothing(h, r)
  /\ UNCHANGED <<etc, run, pair, carried>>

(* The pair of generate and init, whose server file is written first.      *)
WriteServer(h, plan) ==
  LET p == [e \in Ends |-> render(minted + 1, plan, e)]
  IN /\ minted + cuts < MaxWritten /\ minted' = minted + 1
     /\ \E w \in Writes(p["server"], "second") :
          /\ dir' = [dir EXCEPT ![h]["server"] = w[1]]
          /\ Go(h, w[2]) /\ cuts' = w[3]
     /\ pair' = [pair EXCEPT ![h] = p]
     /\ UNCHANGED <<etc, run, overruled, carried>>

generate(h) ==
  /\ pc[h] = "questions"
  /\ \E plan \in Plans : plan.gateway /\ ~plan.route_all /\ WriteServer(h, plan)
  /\ UNCHANGED role

init(h) ==
  /\ pc[h] = "idle"
  /\ \E plan \in Plans : plan.route_marked = 0 /\ WriteServer(h, plan)
  /\ role' = [role EXCEPT ![h] = "neither"]

WriteClient(h) ==
  /\ pc[h] = "second" /\ UNCHANGED minted
  /\ \E w \in Writes(pair[h]["client"],
                     IF role[h] = "neither" THEN "idle" ELSE "service") :
       /\ dir' = [dir EXCEPT ![h]["client"] = w[1]]
       /\ Go(h, w[2]) /\ cuts' = w[3]
  /\ pair' = [pair EXCEPT ![h] = NoFile]
  /\ UNCHANGED <<etc, run, role, overruled, carried>>

(* Step 8: this host's file is copied to where the service reads it.       *)
Install(h) ==
  /\ pc[h] = "service" /\ UNCHANGED minted
  /\ \E w \in Writes(dir[h][role[h]], "unit") :
       /\ etc' = [etc EXCEPT ![h] = w[1]]
       /\ Go(h, w[2]) /\ cuts' = w[3]
  /\ UNCHANGED <<dir, run, role, pair, overruled, carried>>

Started(h) == IF parses(etc[h]) THEN etc[h] ELSE NoFile

(* install_unit: `enable --now` starts a service that is not running.      *)
InstallUnit(h) ==
  /\ pc[h] = "unit"
  /\ run' = [run EXCEPT ![h] = IF @ = NoFile THEN Started(h) ELSE @]
  /\ Go(h, "idle") /\ role' = [role EXCEPT ![h] = "neither"]
  /\ UNCHANGED <<dir, etc, pair, minted, cuts, overruled, carried>>

(* A restart of the service, by command or at boot.                        *)
RestartService(h) ==
  /\ etc[h] # NoFile
  /\ run' = [run EXCEPT ![h] = Started(h)]
  /\ UNCHANGED <<dir, etc, pc, role, pair, minted, cuts, overruled, carried>>

(* Setup ends: declined at step 8, a failed step, or the terminal closed.  *)
Quit(h) ==
  /\ pc[h] # "idle" /\ Go(h, "idle")
  /\ pair' = [pair EXCEPT ![h] = NoFile] /\ role' = [role EXCEPT ![h] = "neither"]
  /\ UNCHANGED <<dir, etc, run, minted, cuts, overruled, carried>>

(* A file is copied to the other host, under its name or the wrong one.    *)
(* Setup looks at a file when it adopts it and reads it again to install   *)
(* it: of a wrong file put there in between nobody is warned.              *)
Carry(h, e, as) ==
  /\ carried < MaxCarried /\ carried' = carried + 1
  /\ dir[h][e] # NoFile
  /\ \E to \in Hosts \ {h} :
       /\ dir' = [dir EXCEPT ![to][as] = dir[h][e]]
       /\ overruled' = (overruled \/ (dir[h][e].end # as /\ pc[to] # "idle"))
  /\ UNCHANGED <<etc, run, pc, role, pair, minted, cuts>>

EnrolNext ==
  \E h \in Hosts :
    \/ interactive(h) \/ generate(h) \/ init(h) \/ WriteClient(h) \/ Install(h) \/ InstallUnit(h)
    \/ RestartService(h) \/ Quit(h)
    \/ \E e, as \in Ends : Carry(h, e, as)

EnrolSpec == EnrolInit /\ [][EnrolNext]_enrolVars

------------------------------------------------------------------------------
(* Two files that fit together: each end knows the other's key and         *)
(* address, the client dials the port the server listens on, and of an end *)
(* that is the way out the other has the ways in and accepts the replies   *)
(* of any site.                                                            *)
Fits(f, g) ==
  /\ {f.end, g.end} = Ends
  /\ f.public_key = g.private_key /\ g.public_key = f.private_key
  /\ f.tunnel_address = g.address /\ f.ipv6 = g.ipv6
  /\ f.end = "client" => f.endpoint[2] = g.listen_port
  /\ f.gateway => /\ ~g.gateway /\ g.allowed_ips = "anything"
                  /\ f.allowed_ips = "the peer"
                  /\ f.route_marked = 0 /\ ~f.socks5 /\ ~f.route_all

(* Unless an operator overruled a warning, two hosts that run whole files  *)
(* run files that fit together, or files of two pairs if more than one was *)
(* generated: whichever host generated, however often setup ran and        *)
(* wherever it ended (render, adopt, is_for).                              *)
EndsMatch ==
  ~overruled =>
    \A a, b \in Hosts :
      LET f == run[a] g == run[b]
      IN a # b /\ f # NoFile /\ g # NoFile /\ f.whole /\ g.whole =>
           (minted > 1 /\ f.private_key[1] # g.private_key[1]) \/ Fits(f, g)
==============================================================================
