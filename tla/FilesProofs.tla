----------------------------- MODULE FilesProofs -----------------------------
(***************************************************************************)
(* Proofs about the files a host keeps for a tunnel: those the WARP helper *)
(* replaces, for any endpoints and any number of accounts, refusals, kills *)
(* and restarts of the host; and the sizes of the tunnels of a             *)
(* configuration file, for any files an operator begins from and anything  *)
(* they write in them.                                                     *)
(***************************************************************************)
EXTENDS Warp, Config, TLAPS

(* A registration's three files, and a command with what it keeps of them. *)
IsConf(c) == c = [id |-> c.id, ep |-> c.ep]
IsFiles(f) == f = [account |-> f.account, profile |-> f.profile, conf |-> f.conf] /\ IsConf(f.conf)
IsOp(o) == o = [cmd |-> o.cmd, pc |-> o.pc, k |-> o.k, by |-> o.by, before |-> o.before]

Making == {"register", "generate", "up", "confirm", "reach"}
Checking == {"revive", "answer", "again", "replace"}
Closing == {"stamp", "fall", "restart"}

(* Which command is at which step, and what the state is made of.          *)
Shape ==
  /\ IsOp(op) /\ IsFiles(files) /\ IsFiles(kept) /\ accounts \in Nat /\ made \in Nat
  /\ \/ op = Idle
     \/ op.cmd = "setup" /\ op.pc \in Making /\ op.by = "operator"
     \/ op.cmd = "reregister" /\ op.pc \in Making \cup {"aside", "back"} /\ op.k \in 1 .. 3
     \/ op.cmd = "check" /\ op.pc \in Checking \cup Closing

(* A file set aside is in `previous`, and one that was not yet is in its   *)
(* place.                                                                  *)
Aside(n, moved) ==
  IF moved THEN kept[n] = op.before[n] /\ files[n] = Bare(n)
  ELSE files[n] = op.before[n] /\ kept[n] = Bare(n)

(* What each command has done to the files by the step it is at.           *)
Course ==
  /\ op.cmd = "setup" /\ Agree(op.before) => Agree(files)
  /\ op.pc \in Making \ {"register"} => files.account # 0
  /\ op.cmd = "reregister" =>
       /\ op.pc = "aside" => /\ Aside("account", op.k > 1) /\ Aside("profile", op.k > 2)
                             /\ Aside("conf", FALSE) /\ IsFiles(op.before)
       /\ op.pc # "aside" => kept = op.before
       /\ op.pc = "register" => files = Nothing
       /\ op.pc \in Making => Agree(files)

(* The result that is remembered is of the last command that ended, and    *)
(* nothing has touched the files since.                                    *)
Told ==
  /\ FilesAgree /\ FailedCostsNothing
  /\ last = NoResult \/ op = Idle \/ (op.cmd = "check" /\ op.pc \in Closing)

(* The monitor is at an account only while the configuration has WARP in   *)
(* the path; and one it has registered within the hour is stamped, about   *)
(* to be, or about to be, or has been, taken out of the path.              *)
Minding == op.cmd = "check" \/ op.by = "monitor"
Sparing ==
  /\ (Minding /\ op.pc # "restart") => egress
  /\ form = "line" =>
       /\ made <= 1
       /\ op.cmd = "reregister" /\ op.by = "monitor" /\ op.pc \in {"aside", "register"} => made = 0
       /\ made = 1 => \/ stamp \/ ~egress
                      \/ op.cmd = "reregister" /\ op.by = "monitor"
                      \/ op.cmd = "check" /\ op.pc \in {"stamp", "fall"}

Inv == Shape /\ Course /\ Told /\ Sparing

-----------------------------------------------------------------------------
(* A command that goes on to its next step is otherwise as it was.         *)
LEMMA GotoIs ==
  ASSUME IsOp(op), NEW x, Goto(x)
  PROVE  /\ IsOp(op') /\ op'.pc = x /\ op'.cmd = op.cmd /\ op'.k = op.k /\ op'.by = op.by
         /\ op'.before = op.before /\ last' = last
BY DEF IsOp, Goto

(* A command that ends leaves nothing under way, and its result behind.    *)
LEMMA EndedIs ==
  ASSUME IsOp(op), NEW ok, Ended(ok)
  PROVE  /\ op' = Idle /\ last'.cmd = op.cmd /\ last'.ok = ok
         /\ last'.stage = op.pc /\ last'.before = op.before
BY DEF Ended

(* reregister() goes back to the check that called it, or ends.            *)
LEMMA ReturnedIs ==
  ASSUME IsOp(op), NEW ok \in BOOLEAN, Returned(ok), op.cmd = "reregister"
  PROVE  /\ last'.cmd = "reregister" /\ (last'.ok <=> ok)
         /\ last'.stage = op.pc /\ last'.before = op.before
         /\ \/ op' = Idle /\ op.by # "monitor"
            \/ /\ IsOp(op') /\ op'.cmd = "check" /\ op'.pc = IF ok THEN "stamp" ELSE "fall"
               /\ op'.by = op.by /\ op.by = "monitor"
<1>1. CASE op.by = "monitor"
  <2>1. op' = [op EXCEPT !.cmd = "check", !.pc = IF ok THEN "stamp" ELSE "fall"]
    BY <1>1, Zenon DEF Returned
  <2>2. IsOp(op') /\ op'.cmd = "check" /\ (op'.pc = IF ok THEN "stamp" ELSE "fall") /\ op'.by = op.by
    BY <2>1, Zenon DEF IsOp
  <2>3. last' = [cmd |-> "reregister", ok |-> ok, stage |-> op.pc, before |-> op.before]
    BY <1>1, Zenon DEF Returned
  <2>4. QED
    BY <1>1, <2>2, <2>3
<1>2. CASE op.by # "monitor"
  BY <1>2, EndedIs DEF Returned
<1>3. QED
  BY <1>1, <1>2

(* Setup stops at a failure and reregister goes on to put things back.     *)
LEMMA AfterFailureIs ==
  ASSUME Shape, op.cmd \in {"setup", "reregister"}, AfterFailure
  PROVE  \/ /\ op.cmd = "reregister" /\ IsOp(op') /\ op'.cmd = "reregister" /\ op'.pc = "back"
            /\ op'.k = op.k /\ op'.by = op.by /\ op'.before = op.before /\ last' = last
         \/ /\ op.cmd = "setup" /\ op' = Idle /\ last'.cmd = "setup" /\ last'.before = op.before
<1>1. IsOp(op)
  BY DEF Shape
<1>2. CASE op.cmd = "reregister"
  BY <1>1, <1>2, GotoIs DEF AfterFailure
<1>3. CASE op.cmd = "setup"
  BY <1>1, <1>3, EndedIs, Zenon DEF AfterFailure
<1>4. QED
  BY <1>2, <1>3

(* A command that has ended has left nothing half done.                    *)
LEMMA IdleCourse ==
  ASSUME op' = Idle
  PROVE  IsOp(op') /\ Course' /\ op'.cmd = "none" /\ op'.pc = "idle" /\ op'.by = "operator"
BY DEF Idle, IsOp, Course, Making

(* With nothing remembered and nothing under way, all that is left to hold *)
(* is the monitor's count.                                                 *)
LEMMA RestInv ==
  ASSUME op' = Idle, last' = NoResult, IsFiles(files'), IsFiles(kept'), accounts' \in Nat,
         made' = 0 \/ (op = Idle /\ Inv /\ UNCHANGED <<made, form, stamp, egress>>)
  PROVE  Inv'
<1>1. IsOp(op') /\ Course' /\ op'.cmd = "none" /\ op'.pc = "idle" /\ op'.by = "operator"
  BY IdleCourse
<1>2. last'.cmd = "none"
  BY DEF NoResult
<1>3. Told'
  BY <1>2 DEF Told, FilesAgree, FailedCostsNothing
<1>4. Shape'
  BY <1>1 DEF Shape, Inv
<1>5. Sparing'
  <2>1. CASE made' = 0
    BY <1>1, <2>1 DEF Sparing, Minding
  <2>2. CASE op = Idle /\ Inv /\ UNCHANGED <<made, form, stamp, egress>>
    <3>1. op.cmd = "none" /\ op.by = "operator"
      BY <2>2 DEF Idle
    <3>2. form = "line" => made <= 1 /\ (made = 1 => stamp \/ ~egress)
      BY <2>2, <3>1, Zenon DEF Inv, Sparing
    <3>3. QED
      BY <1>1, <2>2, <3>2, Zenon DEF Sparing, Minding
  <2>3. QED
    BY <2>1, <2>2
<1>6. QED
  BY <1>1, <1>3, <1>4, <1>5 DEF Inv

(* The operator's commands that take one step, and a process that is       *)
(* killed.                                                                 *)
LEMMA RestingSteps ==
  ASSUME Inv, enable \/ (\E purge \in BOOLEAN : revert(purge)) \/ Operator \/ Crash
  PROVE  Inv'
<1>1. IsFiles(files) /\ IsFiles(kept) /\ accounts \in Nat
  BY DEF Inv, Shape
<1>2. CASE enable
  BY <1>1, <1>2, RestInv DEF enable
<1>3. ASSUME NEW purge \in BOOLEAN, revert(purge) PROVE Inv'
  <2>1. files' = (IF purge THEN Nothing ELSE [files EXCEPT !.conf = NoConf]) /\ op' = op
        /\ kept' = (IF purge THEN Nothing ELSE kept) /\ op = Idle /\ last' = NoResult
        /\ made' = 0 /\ accounts' = accounts
    BY <1>3 DEF revert
  <2>2. IsFiles(Nothing) /\ IsFiles([files EXCEPT !.conf = NoConf])
    BY <1>1 DEF IsFiles, IsConf, Nothing, NoConf
  <2>3. QED
    BY <1>1, <2>1, <2>2, RestInv
<1>4. CASE Operator
  BY <1>1, <1>4, RestInv DEF Operator
<1>5. CASE Crash
  BY <1>1, <1>5, RestInv DEF Crash
<1>6. QED
  BY <1>2, <1>3, <1>4, <1>5

(* The hour, the network and the interface on its own.                     *)
LEMMA OutsideSteps ==
  ASSUME Inv, Handshakes \/ Network \/ Hour \/ UNCHANGED vars
  PROVE  Inv'
<1>1. /\ UNCHANGED <<op, last, files, kept, accounts, form, egress>>
      /\ UNCHANGED <<made, stamp>> \/ made' = 0
  BY DEF Handshakes, Network, Event, Hour, vars
<1>2. Shape' /\ Course' /\ Told'
  BY <1>1 DEF Inv, Shape, Course, Aside, Agree, Told, FilesAgree, FailedCostsNothing
<1>3. Sparing'
  <2>1. CASE UNCHANGED <<made, stamp>>
    BY <1>1, <2>1, Zenon DEF Inv, Sparing, Minding
  <2>2. CASE made' = 0
    <3>1. (Minding /\ op.pc # "restart") => egress
      BY Zenon DEF Inv, Sparing
    <3>2. made' <= 1 /\ made' # 1
      BY <2>2
    <3>3. QED
      BY <1>1, <2>2, <3>1, <3>2, Zenon DEF Sparing, Minding
  <2>3. QED
    BY <1>1, <2>1, <2>2
<1>4. QED
  BY <1>2, <1>3 DEF Inv

(* A registration is set aside from where it was found (reregister).       *)
LEMMA ReregisterStarts ==
  ASSUME Inv, NEW by \in {"operator", "monitor"}, reregister(by), last' = NoResult, UNCHANGED files
  PROVE  /\ IsOp(op') /\ op'.cmd = "reregister" /\ op'.pc = "aside" /\ op'.by = by /\ op'.k \in 1 .. 3
         /\ IsFiles(kept') /\ Course' /\ Told'
<1>1. /\ IsOp(op') /\ op'.cmd = "reregister" /\ op'.pc = "aside" /\ op'.k = 1 /\ op'.by = by
      /\ op'.before = files
  BY Zenon DEF reregister, Idle, IsOp
<1>2. IsFiles(kept') /\ kept' = Nothing
  BY DEF reregister, Nothing, NoConf, IsFiles, IsConf
<1>3. kept'["account"] = 0 /\ kept'["profile"] = 0 /\ kept'["conf"] = NoConf
  BY <1>2 DEF Nothing
<1>4. IsFiles(files)
  BY DEF Inv, Shape
<1>5. Course'
  BY <1>1, <1>3, <1>4 DEF Course, Aside, Bare, Making
<1>6. Told'
  BY DEF Told, FilesAgree, FailedCostsNothing, NoResult
<1>7. QED
  BY <1>1, <1>2, <1>5, <1>6

(* The commands of several steps begin.                                    *)
LEMMA BeginningSteps ==
  ASSUME Inv, setup \/ Reregister \/ check
  PROVE  Inv'
<1>1. /\ IsFiles(files) /\ IsFiles(kept) /\ accounts \in Nat /\ made \in Nat
      /\ UNCHANGED <<files, accounts, made, form, stamp, egress>> /\ last' = NoResult
      /\ op = Idle /\ op.cmd = "none" /\ op.by = "operator"
  BY DEF Inv, Shape, setup, Reregister, check, Begin, Idle
<1>2. form = "line" => made <= 1 /\ (made = 1 => stamp \/ ~egress)
  BY <1>1, Zenon DEF Inv, Sparing
<1>3. Told'
  BY <1>1 DEF Told, FilesAgree, FailedCostsNothing, NoResult
<1>4. CASE setup
  <2>1. /\ IsOp(op') /\ op'.cmd = "setup" /\ op'.pc = "register" /\ op'.by = "operator"
        /\ op'.before = files /\ kept' = kept
    BY <1>4, Zenon DEF setup, Begin, Idle, IsOp
  <2>2. Shape' /\ Course'
    BY <1>1, <2>1 DEF Shape, Course, Making, Agree
  <2>3. Sparing'
    BY <1>1, <1>2, <2>1, Zenon DEF Sparing, Minding
  <2>4. QED
    BY <1>3, <2>2, <2>3 DEF Inv
<1>5. CASE Reregister
  <2>1. reregister("operator")
    BY <1>5 DEF Reregister
  <2>2. /\ IsOp(op') /\ op'.cmd = "reregister" /\ op'.pc = "aside" /\ op'.by = "operator"
        /\ op'.k \in 1 .. 3 /\ IsFiles(kept') /\ Course'
    BY <1>1, <2>1, ReregisterStarts
  <2>3. Shape'
    BY <1>1, <2>2 DEF Shape
  <2>4. Sparing'
    BY <1>1, <1>2, <2>2, Zenon DEF Sparing, Minding
  <2>5. QED
    BY <1>3, <2>2, <2>3, <2>4 DEF Inv
<1>6. CASE check
  <2>1. /\ IsOp(op') /\ op'.cmd = "check" /\ op'.pc = "revive" /\ kept' = kept /\ egress
    BY <1>6, Zenon DEF check, Begin, Idle, IsOp, watched
  <2>2. Shape' /\ Course'
    BY <1>1, <2>1 DEF Shape, Course, Making, Checking
  <2>3. Sparing'
    BY <1>1, <1>2, <2>1, Zenon DEF Sparing, Minding
  <2>4. QED
    BY <1>3, <2>2, <2>3 DEF Inv
<1>7. QED
  BY <1>4, <1>5, <1>6

(* Waiting for a handshake, and trying the other endpoints, writes an      *)
(* endpoint at most (confirm_handshake, rotate_endpoint).                  *)
LEMMA HandshakeWritesEndpoint ==
  ASSUME IsFiles(files), NEW ok \in BOOLEAN, confirm_handshake(ok)
  PROVE  /\ IsFiles(files') /\ files'.account = files.account /\ files'.profile = files.profile
         /\ files'.conf.id = files.conf.id
         /\ ~ok => files' = files
<1>1. files' = files \/ (ok /\ \E x : files' = [files EXCEPT !.conf.ep = x])
  BY Zenon DEF confirm_handshake, rotate_endpoint
<1>2. ASSUME NEW x, files' = [files EXCEPT !.conf.ep = x]
      PROVE  /\ IsFiles(files') /\ files'.account = files.account /\ files'.profile = files.profile
             /\ files'.conf.id = files.conf.id
  BY <1>2 DEF IsFiles, IsConf
<1>3. QED
  BY <1>1, <1>2

(* While the monitor is looking, WARP is in the path, and an account it    *)
(* registered within the hour is stamped.                                  *)
LEMMA MonitorLooks ==
  ASSUME Inv, op.pc \in Checking
  PROVE  /\ IsOp(op) /\ op.cmd = "check" /\ last = NoResult /\ egress
         /\ form = "line" => made <= 1 /\ (made = 1 => stamp)
<1>1. IsOp(op) /\ op.cmd = "check" /\ op.pc \notin Closing /\ op # Idle
  BY DEF Inv, Shape, Checking, Closing, Making, Idle
<1>2. last = NoResult
  BY <1>1 DEF Inv, Told
<1>3. op.pc # "restart" /\ op.pc # "stamp" /\ op.pc # "fall"
  BY DEF Checking
<1>4. egress
  BY <1>1, <1>3, Zenon DEF Inv, Sparing, Minding
<1>5. form = "line" => made <= 1 /\ (made = 1 => stamp)
  <2>1. op.cmd # "reregister" /\ op.pc \notin {"stamp", "fall"}
    BY <1>1, <1>3
  <2>2. QED
    BY <1>4, <2>1, Zenon DEF Inv, Sparing
<1>6. QED
  BY <1>1, <1>2, <1>4, <1>5

(* So it may go on looking, or give WARP up.                               *)
LEMMA MonitorGoesOn ==
  ASSUME Inv, op.pc \in Checking, NEW x \in Checking \cup {"fall"}, Goto(x), IsFiles(files'),
         UNCHANGED <<kept, accounts, made, form, stamp, egress>>
  PROVE  Inv'
<1>1. /\ IsOp(op) /\ op.cmd = "check" /\ last = NoResult /\ egress
      /\ form = "line" => made <= 1 /\ (made = 1 => stamp)
  BY MonitorLooks
<1>2. IsOp(op') /\ op'.pc = x /\ op'.cmd = "check" /\ last' = NoResult
  BY <1>1, GotoIs
<1>3. Shape'
  BY <1>2 DEF Inv, Shape, Closing
<1>4. Course'
  BY <1>2 DEF Course, Checking, Making
<1>5. Told'
  BY <1>2 DEF Told, FilesAgree, FailedCostsNothing, NoResult
<1>6. Sparing'
  BY <1>1, <1>2, Zenon DEF Sparing, Minding
<1>7. QED
  BY <1>3, <1>4, <1>5, <1>6 DEF Inv

(* The monitor's check, up to what it does about the account.              *)
LEMMA LookingSteps ==
  ASSUME Inv, revive_interface \/ Answer \/ Again \/ Replace
  PROVE  Inv'
<1>1. IsFiles(files) /\ IsFiles(kept) /\ accounts \in Nat /\ made \in Nat
  BY DEF Inv, Shape
<1>2. CASE revive_interface
  <2>1. op.pc = "revive" /\ (Goto("answer") \/ Goto("replace"))
        /\ UNCHANGED <<files, kept, accounts, made, form, stamp, egress>>
    BY <1>2, Zenon DEF revive_interface
  <2>2. QED
    BY <1>1, <2>1, MonitorGoesOn DEF Checking
<1>3. CASE Answer
  <2>1. PICK ok \in BOOLEAN : confirm_handshake(ok) /\ Goto(IF ok THEN "again" ELSE "replace")
    BY <1>3 DEF Answer
  <2>2. IsFiles(files')
    BY <1>1, <2>1, HandshakeWritesEndpoint
  <2>3. op.pc = "answer" /\ UNCHANGED <<kept, accounts, made, form, stamp, egress>>
    BY <1>3 DEF Answer
  <2>4. QED
    BY <2>1, <2>2, <2>3, MonitorGoesOn DEF Checking
<1>4. CASE Again
  <2>1. op.pc = "again" /\ UNCHANGED <<files, kept, accounts, made, form, stamp, egress>>
    BY <1>4 DEF Again
  <2>2. CASE Goto("replace")
    BY <1>1, <2>1, <2>2, MonitorGoesOn DEF Checking
  <2>3. CASE Ended(TRUE)
    <3>1. /\ IsOp(op) /\ op.cmd = "check" /\ egress
          /\ form = "line" => made <= 1 /\ (made = 1 => stamp)
      BY <2>1, MonitorLooks DEF Checking
    <3>2. op' = Idle /\ last'.cmd = "check"
      BY <2>3, <3>1, EndedIs, Zenon
    <3>3. IsOp(op') /\ Course' /\ op'.cmd = "none" /\ op'.by = "operator"
      BY <3>2, IdleCourse
    <3>4. Shape' /\ Told'
      BY <1>1, <2>1, <3>2, <3>3 DEF Shape, Told, FilesAgree, FailedCostsNothing
    <3>5. Sparing'
      BY <2>1, <3>1, <3>3, Zenon DEF Sparing, Minding
    <3>6. QED
      BY <3>3, <3>4, <3>5 DEF Inv
  <2>4. QED
    BY <1>4, <2>2, <2>3, Zenon DEF Again
<1>5. CASE Replace
  <2>1. /\ op.pc = "replace" /\ UNCHANGED <<files, accounts, made, form, stamp, egress>>
        /\ \/ Goto("fall") /\ UNCHANGED kept
           \/ ~stamp /\ reregister("monitor") /\ UNCHANGED last
    BY <1>5, Zenon DEF Replace, reregistered_within
  <2>2. CASE Goto("fall") /\ UNCHANGED kept
    BY <1>1, <2>1, <2>2, MonitorGoesOn DEF Checking
  <2>3. CASE ~stamp /\ reregister("monitor") /\ UNCHANGED last
    <3>1. last = NoResult /\ egress /\ (form = "line" => made <= 1 /\ (made = 1 => stamp))
      BY <2>1, MonitorLooks DEF Checking
    <3>2. /\ IsOp(op') /\ op'.cmd = "reregister" /\ op'.pc = "aside" /\ op'.by = "monitor"
          /\ op'.k \in 1 .. 3 /\ IsFiles(kept') /\ Course' /\ Told'
      BY <2>1, <2>3, <3>1, ReregisterStarts
    <3>3. Shape'
      BY <1>1, <2>1, <3>2 DEF Shape
    <3>4. form = "line" => made = 0
      BY <1>1, <2>3, <3>1
    <3>5. made = 0 => made <= 1 /\ made # 1
      OBVIOUS
    <3>6. Sparing'
      BY <2>1, <3>1, <3>2, <3>4, <3>5, Zenon DEF Sparing, Minding
    <3>7. QED
      BY <3>2, <3>3, <3>6 DEF Inv
  <2>4. QED
    BY <2>1, <2>2, <2>3
<1>6. QED
  BY <1>2, <1>3, <1>4, <1>5

(* The monitor's check, from there: the stamp, or WARP out of the path.    *)
LEMMA ClosingSteps ==
  ASSUME Inv, Stamp \/ fall_back \/ RestartTunnel
  PROVE  Inv'
<1>1. /\ IsFiles(files) /\ IsFiles(kept) /\ accounts \in Nat /\ made \in Nat
      /\ UNCHANGED <<files, kept, accounts, made, form>> /\ IsOp(op) /\ op.pc \in Closing
  BY Zenon DEF Inv, Shape, Stamp, fall_back, RestartTunnel, Closing
<1>2. op.cmd = "check"
  BY <1>1 DEF Inv, Shape, Closing, Making, Idle
<1>3. ASSUME NEW ok, Ended(ok), form = "line" => stamp' \/ ~egress' \/ made # 1
      PROVE  Inv'
  <2>1. op' = Idle /\ last'.cmd = "check"
    BY <1>1, <1>2, <1>3, EndedIs
  <2>2. IsOp(op') /\ Course' /\ op'.cmd = "none" /\ op'.by = "operator"
    BY <2>1, IdleCourse
  <2>3. Shape' /\ Told'
    BY <1>1, <2>1, <2>2 DEF Shape, Told, FilesAgree, FailedCostsNothing
  <2>4. form = "line" => made <= 1
    BY Zenon DEF Inv, Sparing
  <2>5. Sparing'
    BY <1>1, <1>3, <2>2, <2>4, Zenon DEF Sparing, Minding
  <2>6. QED
    BY <2>2, <2>3, <2>5 DEF Inv
<1>4. CASE Stamp
  BY <1>3, <1>4, Zenon DEF Stamp
<1>5. CASE fall_back
  <2>1. CASE form # "line"
    BY <1>3, <1>5, <2>1, Zenon DEF fall_back, without_egress
  <2>2. CASE form = "line"
    <3>1. egress' = FALSE /\ Goto("restart")
      BY <1>5, <2>2, Zenon DEF fall_back, without_egress
    <3>2. IsOp(op') /\ op'.pc = "restart" /\ op'.cmd = "check" /\ last' = last
      BY <1>1, <1>2, <3>1, GotoIs
    <3>3. Shape' /\ Course'
      BY <1>1, <3>2 DEF Shape, Course, Closing, Making
    <3>4. Told'
      BY <1>1, <3>2 DEF Inv, Told, FilesAgree, FailedCostsNothing, Agree, Closing
    <3>5. form = "line" => made <= 1
      BY Zenon DEF Inv, Sparing
    <3>6. Sparing'
      BY <1>1, <3>1, <3>2, <3>5, Zenon DEF Sparing, Minding
    <3>7. QED
      BY <3>3, <3>4, <3>6 DEF Inv
  <2>3. QED
    BY <2>1, <2>2
<1>6. CASE RestartTunnel
  <2>1. op.pc = "restart" /\ UNCHANGED <<stamp, egress>> /\ \E ok : Ended(ok)
    BY <1>6, Zenon DEF RestartTunnel
  <2>2. op.cmd # "reregister" /\ op.pc \notin {"stamp", "fall"}
    BY <1>2, <2>1
  <2>3. form = "line" => stamp \/ ~egress \/ made # 1
    BY <2>2, Zenon DEF Inv, Sparing
  <2>4. QED
    BY <1>3, <2>1, <2>3, Zenon
<1>7. QED
  BY <1>4, <1>5, <1>6

-----------------------------------------------------------------------------
(* What a step that makes a registration leaves of the monitor's count:    *)
(* the command goes on or ends, and at most a registration was counted.    *)
LEMMA MakingSpares ==
  ASSUME Inv, op.cmd \in {"setup", "reregister"}, UNCHANGED <<form, stamp, egress>>,
         \/ made' = made
         \/ made' = made + 1 /\ op.by = "monitor" /\ op.pc = "register",
         \/ /\ op'.cmd = op.cmd /\ op'.by = op.by
            /\ op'.pc \in {"aside", "register"} => op.pc = "aside" /\ made' = made
         \/ op' = Idle /\ op.by # "monitor"
         \/ op'.cmd = "check" /\ op'.pc \in {"stamp", "fall"} /\ op.by = "monitor"
  PROVE  Sparing'
<1>1. made \in Nat /\ (op.by = "monitor" => op.cmd = "reregister" /\ op.pc # "restart")
  BY DEF Inv, Shape, Making, Idle
<1>2. op' = Idle => op'.cmd = "none" /\ op'.by = "operator" /\ op'.pc = "idle"
  BY DEF Idle
<1>3. CASE op.by # "monitor"
  <2>1. made' = made /\ op'.by # "monitor" /\ op'.cmd # "check"
    BY <1>2, <1>3
  <2>2. op.cmd # "check"
    OBVIOUS
  <2>3. form = "line" => made <= 1 /\ (made = 1 => stamp \/ ~egress)
    BY <1>3, <2>2, Zenon DEF Inv, Sparing
  <2>4. QED
    BY <2>1, <2>3, Zenon DEF Sparing, Minding
<1>4. CASE op.by = "monitor"
  <2>1. egress /\ op.cmd = "reregister"
    BY <1>1, <1>4, Zenon DEF Inv, Sparing, Minding
  <2>2. form = "line" => made <= 1 /\ (op.pc \in {"aside", "register"} => made = 0)
    BY <1>4, <2>1, Zenon DEF Inv, Sparing
  <2>3. op.pc = "aside" => op.pc \in {"aside", "register"}
    OBVIOUS
  <2>4. op.pc = "register" => op.pc \in {"aside", "register"}
    OBVIOUS
  <2>5. form = "line" => made' <= 1
    BY <1>1, <2>2, <2>4
  <2>6. form = "line" /\ op'.cmd = "reregister" /\ op'.pc \in {"aside", "register"} => made' = 0
    BY <1>2, <1>4, <2>2, <2>3
  <2>7. \/ op'.cmd = "reregister" /\ op'.by = "monitor"
        \/ op'.cmd = "check" /\ op'.pc \in {"stamp", "fall"}
    BY <1>4, <2>1
  <2>8. QED
    BY <2>1, <2>5, <2>6, <2>7, Zenon DEF Sparing, Minding
<1>5. QED
  BY <1>3, <1>4

(* A registration is made by setup or by reregister.                       *)
LEMMA MakingIs ==
  ASSUME Inv, op.pc \in Making
  PROVE  /\ IsOp(op) /\ op.cmd \in {"setup", "reregister"} /\ last = NoResult
         /\ op.cmd = "reregister" => op.k \in 1 .. 3 /\ kept = op.before /\ Agree(files)
<1>1. IsOp(op) /\ op.cmd \in {"setup", "reregister"} /\ op # Idle /\ op.cmd # "check"
  BY DEF Inv, Shape, Making, Checking, Closing, Idle
<1>2. last = NoResult
  BY <1>1 DEF Inv, Told
<1>3. op.pc # "aside"
  BY DEF Making
<1>4. op.cmd = "reregister" => op.k \in 1 .. 3
  BY <1>1 DEF Inv, Shape
<1>5. op.cmd = "reregister" => kept = op.before /\ Agree(files)
  BY <1>3 DEF Inv, Course
<1>6. QED
  BY <1>1, <1>2, <1>4, <1>5

(* A step of it that succeeds.                                             *)
LEMMA MakingGoesOn ==
  ASSUME Inv, op.pc \in Making, NEW x \in Making \ {"register"}, Goto(x),
         IsFiles(files'), files'.account # 0, Agree(files) => Agree(files'), accounts' \in Nat,
         made' = made \/ (made' = made + 1 /\ op.by = "monitor" /\ op.pc = "register"),
         UNCHANGED <<kept, form, stamp, egress>>
  PROVE  Inv'
<1>1. /\ IsOp(op) /\ op.cmd \in {"setup", "reregister"} /\ last = NoResult
      /\ op.cmd = "reregister" => op.k \in 1 .. 3 /\ kept = op.before /\ Agree(files)
  BY MakingIs
<1>2. /\ IsOp(op') /\ op'.pc = x /\ op'.cmd = op.cmd /\ op'.k = op.k /\ op'.by = op.by
      /\ op'.before = op.before /\ last' = NoResult
  BY <1>1, GotoIs
<1>3. x # "register" /\ x # "aside" /\ x # "back" /\ x \in Making
  BY DEF Making
<1>4. op.cmd = "setup" => op.by = "operator"
  BY <1>1 DEF Inv, Shape, Idle
<1>5. made' \in Nat
  BY DEF Inv, Shape
<1>6. Shape'
  BY <1>1, <1>2, <1>3, <1>4, <1>5 DEF Inv, Shape
<1>7. op.cmd = "setup" /\ Agree(op.before) => Agree(files')
  BY DEF Inv, Course
<1>8. Agree(files)' <=> Agree(files')
  BY DEF Agree
<1>9. Agree(op.before)' <=> Agree(op.before)
  BY <1>2 DEF Agree
<1>10. Course'
  BY <1>1, <1>2, <1>3, <1>7, <1>8, <1>9, Zenon DEF Course
<1>11. Told'
  BY <1>2 DEF Told, FilesAgree, FailedCostsNothing, NoResult
<1>12. Sparing'
  <2>1. op'.pc \notin {"aside", "register"}
    BY <1>2, <1>3
  <2>2. QED
    BY <1>1, <1>2, <2>1, MakingSpares
<1>13. QED
  BY <1>6, <1>10, <1>11, <1>12 DEF Inv

(* A step of it that fails (AfterFailure).                                 *)
LEMMA MakingFails ==
  ASSUME Inv, op.pc \in Making, AfterFailure,
         UNCHANGED <<files, kept, accounts, made, form, stamp, egress>>
  PROVE  Inv'
<1>1. /\ IsOp(op) /\ op.cmd \in {"setup", "reregister"} /\ last = NoResult
      /\ op.cmd = "reregister" => op.k \in 1 .. 3 /\ kept = op.before /\ Agree(files)
  BY MakingIs
<1>2. IsFiles(files) /\ IsFiles(kept) /\ accounts \in Nat /\ made \in Nat /\ Shape
  BY DEF Inv, Shape
<1>3. CASE /\ op.cmd = "reregister" /\ IsOp(op') /\ op'.cmd = "reregister" /\ op'.pc = "back"
           /\ op'.k = op.k /\ op'.by = op.by /\ op'.before = op.before /\ last' = last
  <2>1. Shape'
    BY <1>1, <1>2, <1>3 DEF Shape
  <2>2. Course'
    BY <1>1, <1>3 DEF Course, Making
  <2>3. Told'
    BY <1>1, <1>3 DEF Told, FilesAgree, FailedCostsNothing, NoResult
  <2>4. Sparing'
    BY <1>1, <1>3, MakingSpares
  <2>5. QED
    BY <2>1, <2>2, <2>3, <2>4 DEF Inv
<1>4. CASE op.cmd = "setup" /\ op' = Idle /\ last'.cmd = "setup" /\ last'.before = op.before
  <2>1. IsOp(op') /\ Course'
    BY <1>4, IdleCourse
  <2>2. Shape'
    BY <1>2, <1>4, <2>1 DEF Shape
  <2>3. Agree(op.before) => Agree(files)
    BY <1>4 DEF Inv, Course
  <2>4. Told'
    BY <1>4, <2>3 DEF Told, FilesAgree, FailedCostsNothing, Agree
  <2>5. op.by # "monitor"
    BY <1>4 DEF Inv, Shape, Idle
  <2>6. Sparing'
    BY <1>1, <1>4, <2>5, MakingSpares
  <2>7. QED
    BY <2>1, <2>2, <2>4, <2>6 DEF Inv
<1>5. QED
  BY <1>1, <1>2, <1>3, <1>4, AfterFailureIs

(* The steps that make a registration.                                     *)
LEMMA MakingSteps ==
  ASSUME Inv, register \/ generate_profile \/ bring_up \/ Confirm
  PROVE  Inv'
<1>1. IsFiles(files) /\ IsFiles(kept) /\ accounts \in Nat /\ made \in Nat
  BY DEF Inv, Shape
<1>2. op.pc \in {"register", "generate", "up", "confirm"} /\ UNCHANGED <<kept, form, stamp, egress>>
  BY Zenon DEF register, generate_profile, bring_up, Confirm
<1>3. op.pc \in Making
  BY <1>2 DEF Making
<1>4. op.pc # "register" => files.account # 0
  BY <1>3 DEF Inv, Course
<1>5. CASE register
  <2>1. op.pc = "register"
    BY <1>5 DEF register
  <2>2. CASE files.account # 0 /\ Goto("generate") /\ UNCHANGED <<files, accounts, made>>
    BY <1>1, <1>2, <1>3, <2>2, MakingGoesOn DEF Making
  <2>3. CASE /\ files.account = 0 /\ Goto("generate") /\ accounts' = accounts + 1
             /\ files' = [files EXCEPT !.account = accounts + 1]
             /\ made' = IF op.by = "monitor" THEN made + 1 ELSE made
    <3>1. /\ IsFiles(files') /\ files'.account = accounts + 1 /\ files'.profile = files.profile
          /\ files'.conf = files.conf
      BY <1>1, <2>3 DEF IsFiles
    <3>2. accounts + 1 # 0 /\ accounts + 1 \in Nat
      BY <1>1
    <3>3. Agree(files) => Agree(files')
      <4>1. Agree(files) => files.profile = 0 /\ files.conf.id = 0
        BY <2>3 DEF Agree, Nothing, NoConf
      <4>2. QED
        BY <3>1, <3>2, <4>1 DEF Agree
    <3>4. made' = made \/ (made' = made + 1 /\ op.by = "monitor" /\ op.pc = "register")
      BY <2>1, <2>3
    <3>5. QED
      BY <1>2, <1>3, <2>3, <3>1, <3>2, <3>3, <3>4, MakingGoesOn DEF Making
  <2>4. CASE AfterFailure /\ UNCHANGED <<files, accounts, made>>
    BY <1>2, <1>3, <2>4, MakingFails
  <2>5. QED
    BY <1>5, <2>2, <2>3, <2>4 DEF register
<1>6. CASE generate_profile
  <2> DEFINE id == IF files.profile # 0 THEN files.profile ELSE files.account
  <2>1. op.pc = "generate" /\ files.account # 0 /\ UNCHANGED <<accounts, made>>
    BY <1>4, <1>6 DEF generate_profile
  <2>2. CASE Goto("up") /\ UNCHANGED files
    BY <1>1, <1>2, <1>3, <2>1, <2>2, MakingGoesOn DEF Making
  <2>3. CASE /\ Goto("up")
             /\ files' = [files EXCEPT !.profile = id, !.conf = [id |-> id, ep |-> Endpoints[1]]]
    <3>1. /\ IsFiles(files') /\ files'.account = files.account /\ files'.profile = id
          /\ files'.conf.id = id
      BY <1>1, <2>3, Zenon DEF IsFiles, IsConf
    <3>2. Agree(files) => id = files.account
      BY <2>1 DEF Agree
    <3>3. Agree(files) => Agree(files')
      BY <2>1, <3>1, <3>2 DEF Agree
    <3>4. QED
      BY <1>1, <1>2, <1>3, <2>1, <2>3, <3>1, <3>3, MakingGoesOn DEF Making
  <2>4. CASE AfterFailure /\ UNCHANGED files
    BY <1>2, <1>3, <2>1, <2>4, MakingFails
  <2>5. QED
    BY <1>6, <2>2, <2>3, <2>4 DEF generate_profile
<1>7. CASE bring_up
  <2>1. op.pc = "up" /\ files.account # 0 /\ UNCHANGED <<files, accounts, made>>
    BY <1>4, <1>7 DEF bring_up
  <2>2. CASE Goto("confirm")
    BY <1>1, <1>2, <1>3, <2>1, <2>2, MakingGoesOn DEF Making
  <2>3. CASE AfterFailure
    BY <1>2, <1>3, <2>1, <2>3, MakingFails
  <2>4. QED
    BY <1>7, <2>2, <2>3, Zenon DEF bring_up
<1>8. CASE Confirm
  <2>1. op.pc = "confirm" /\ files.account # 0 /\ UNCHANGED <<accounts, made>>
    BY <1>4, <1>8 DEF Confirm
  <2>2. PICK ok \in BOOLEAN : confirm_handshake(ok) /\ IF ok THEN Goto("reach") ELSE AfterFailure
    BY <1>8 DEF Confirm
  <2>3. /\ IsFiles(files') /\ files'.account = files.account /\ files'.profile = files.profile
        /\ files'.conf.id = files.conf.id
        /\ ~ok => files' = files
    BY <1>1, <2>2, HandshakeWritesEndpoint
  <2>4. Agree(files) => Agree(files')
    BY <2>1, <2>3 DEF Agree
  <2>5. CASE ok
    BY <1>1, <1>2, <1>3, <2>1, <2>2, <2>3, <2>4, <2>5, MakingGoesOn DEF Making
  <2>6. CASE ~ok
    BY <1>2, <1>3, <2>1, <2>2, <2>3, <2>6, MakingFails
  <2>7. QED
    BY <2>5, <2>6
<1>9. QED
  BY <1>5, <1>6, <1>7, <1>8

(* What ends a reregister.                                                 *)
LEMMA ReturnInv ==
  ASSUME Inv, op.cmd = "reregister", NEW ok \in BOOLEAN, Returned(ok), IsFiles(files'), IsFiles(kept'),
         UNCHANGED <<accounts, made, form, stamp, egress>>,
         op.pc # "aside" => (Agree(op.before) => Agree(files')),
         ~ok /\ op.pc \notin {"aside", "reach"} => files' = op.before
  PROVE  Inv'
<1>1. IsOp(op) /\ accounts \in Nat /\ made \in Nat
  BY DEF Inv, Shape
<1>2. /\ last'.cmd = "reregister" /\ (last'.ok <=> ok)
      /\ last'.stage = op.pc /\ last'.before = op.before
      /\ \/ op' = Idle /\ op.by # "monitor"
         \/ /\ IsOp(op') /\ op'.cmd = "check" /\ op'.pc = IF ok THEN "stamp" ELSE "fall"
            /\ op'.by = op.by /\ op.by = "monitor"
  BY <1>1, ReturnedIs
<1>3. op' = Idle \/ (IsOp(op') /\ op'.cmd = "check" /\ op'.pc \in {"stamp", "fall"})
  BY <1>2
<1>4. Shape' /\ Course'
  <2>1. CASE op' = Idle
    BY <1>1, <2>1, IdleCourse DEF Shape
  <2>2. CASE IsOp(op') /\ op'.cmd = "check" /\ op'.pc \in {"stamp", "fall"}
    BY <1>1, <2>2 DEF Shape, Closing, Course, Making
  <2>3. QED
    BY <1>3, <2>1, <2>2
<1>5. FilesAgree'
  BY <1>2 DEF FilesAgree, Agree
<1>6. FailedCostsNothing'
  BY <1>2 DEF FailedCostsNothing
<1>7. Told'
  BY <1>3, <1>5, <1>6 DEF Told, Closing
<1>8. Sparing'
  BY <1>2, <1>3, MakingSpares
<1>9. QED
  BY <1>4, <1>7, <1>8 DEF Inv

(* The files go to `previous` one by one, and come back from there.        *)
LEMMA ReplacingSteps ==
  ASSUME Inv, set_aside \/ Back \/ Reached
  PROVE  Inv'
<1>1. /\ IsFiles(files) /\ IsFiles(kept) /\ accounts \in Nat /\ made \in Nat /\ IsOp(op)
      /\ UNCHANGED <<accounts, made, form, stamp, egress>>
  BY Zenon DEF Inv, Shape, set_aside, Back, Reached
<1>2. CASE set_aside
  <2> DEFINE n == registration_files[op.k]
  <2>1. op.pc = "aside" /\ op.cmd = "reregister" /\ op.k \in 1 .. 3
    BY <1>2 DEF set_aside, Inv, Shape, Making, Checking, Closing, Idle
  <2>2. CASE Returned(FALSE) /\ UNCHANGED <<files, kept>>
    BY <1>1, <2>1, <2>2, ReturnInv, Zenon
  <2>3. CASE /\ kept' = [kept EXCEPT ![n] = files[n]]
             /\ files' = [files EXCEPT ![n] = Bare(n)]
             /\ op' = IF op.k = 3 THEN [op EXCEPT !.pc = "register"] ELSE [op EXCEPT !.k = @ + 1]
             /\ UNCHANGED last
    <3>1. /\ Aside("account", op.k > 1) /\ Aside("profile", op.k > 2) /\ Aside("conf", FALSE)
          /\ IsFiles(op.before)
      BY <2>1, Zenon DEF Inv, Course
    <3>2. last = NoResult
      BY <2>1 DEF Inv, Told, Idle, Closing
    <3>3. last' = NoResult /\ Told'
      BY <2>3, <3>2 DEF Told, FilesAgree, FailedCostsNothing, NoResult
    <3>4. CASE op.k = 1
      <4>1. n = "account"
        BY <3>4 DEF registration_files
      <4>2. /\ IsOp(op') /\ op'.cmd = "reregister" /\ op'.pc = "aside" /\ op'.k = 2
            /\ op'.by = op.by /\ op'.before = op.before
        BY <1>1, <2>1, <2>3, <3>4 DEF IsOp
      <4>3. /\ kept'["account"] = files["account"] /\ kept'["profile"] = kept["profile"]
            /\ kept'["conf"] = kept["conf"] /\ IsFiles(kept')
            /\ files'["account"] = 0 /\ files'["profile"] = files["profile"]
            /\ files'["conf"] = files["conf"] /\ IsFiles(files')
        BY <1>1, <2>3, <4>1, Zenon DEF IsFiles, Bare
      <4>4. Course'
        BY <3>1, <3>4, <4>2, <4>3 DEF Course, Aside, Bare, Making
      <4>5. Shape'
        BY <1>1, <4>2, <4>3 DEF Shape
      <4>6. Sparing'
        BY <1>1, <2>1, <4>2, MakingSpares
      <4>7. QED
        BY <3>3, <4>4, <4>5, <4>6 DEF Inv
    <3>5. CASE op.k = 2
      <4>1. n = "profile"
        BY <3>5 DEF registration_files
      <4>2. /\ IsOp(op') /\ op'.cmd = "reregister" /\ op'.pc = "aside" /\ op'.k = 3
            /\ op'.by = op.by /\ op'.before = op.before
        BY <1>1, <2>1, <2>3, <3>5 DEF IsOp
      <4>3. /\ kept'["account"] = kept["account"] /\ kept'["profile"] = files["profile"]
            /\ kept'["conf"] = kept["conf"] /\ IsFiles(kept')
            /\ files'["account"] = files["account"] /\ files'["profile"] = 0
            /\ files'["conf"] = files["conf"] /\ IsFiles(files')
        BY <1>1, <2>3, <4>1, Zenon DEF IsFiles, Bare
      <4>4. Course'
        BY <3>1, <3>5, <4>2, <4>3 DEF Course, Aside, Bare, Making
      <4>5. Shape'
        BY <1>1, <4>2, <4>3 DEF Shape
      <4>6. Sparing'
        BY <1>1, <2>1, <4>2, MakingSpares
      <4>7. QED
        BY <3>3, <4>4, <4>5, <4>6 DEF Inv
    <3>6. CASE op.k = 3
      <4>1. n = "conf"
        BY <3>6 DEF registration_files
      <4>2. /\ IsOp(op') /\ op'.cmd = "reregister" /\ op'.pc = "register" /\ op'.k = 3
            /\ op'.by = op.by /\ op'.before = op.before
        BY <1>1, <2>1, <2>3, <3>6 DEF IsOp
      <4>3. /\ kept["account"] = op.before["account"] /\ files["account"] = 0
            /\ kept["profile"] = op.before["profile"] /\ files["profile"] = 0
            /\ files["conf"] = op.before["conf"]
        BY <3>1, <3>6 DEF Aside, Bare
      <4>4. kept' = op.before /\ IsFiles(kept')
        <5>1. /\ kept'["account"] = kept["account"] /\ kept'["profile"] = kept["profile"]
              /\ kept'["conf"] = files["conf"] /\ IsFiles(kept')
          BY <1>1, <2>3, <4>1, Zenon DEF IsFiles
        <5>2. QED
          BY <3>1, <4>3, <5>1 DEF IsFiles
      <4>5. files' = Nothing
        <5>1. /\ files'["account"] = files["account"] /\ files'["profile"] = files["profile"]
              /\ files'["conf"] = NoConf
              /\ files' = [account |-> files'.account, profile |-> files'.profile, conf |-> files'.conf]
          BY <1>1, <2>3, <4>1, Zenon DEF IsFiles, Bare
        <5>2. QED
          BY <4>3, <5>1 DEF Nothing
      <4>6. IsFiles(Nothing) /\ Agree(Nothing)
        BY DEF IsFiles, IsConf, Nothing, NoConf, Agree
      <4>7. Course'
        BY <4>2, <4>4, <4>5, <4>6 DEF Course, Agree, Making
      <4>8. Shape'
        BY <1>1, <4>2, <4>4, <4>5, <4>6 DEF Shape, Making
      <4>9. Sparing'
        BY <1>1, <2>1, <4>2, MakingSpares
      <4>10. QED
        BY <3>3, <4>7, <4>8, <4>9 DEF Inv
    <3>7. QED
      BY <2>1, <3>4, <3>5, <3>6
  <2>4. QED
    BY <1>2, <2>2, <2>3, Zenon DEF set_aside
<1>3. CASE Back
  <2>1. op.pc = "back" /\ op.cmd = "reregister"
    BY <1>3 DEF Back, Inv, Shape, Making, Checking, Closing, Idle
  <2>2. files' = op.before /\ kept' = Nothing /\ Returned(FALSE) /\ kept = op.before
    BY <1>3, <2>1, Zenon DEF Back, put_back, Inv, Course
  <2>3. IsFiles(files') /\ IsFiles(kept')
    BY <1>1, <2>2 DEF IsFiles, IsConf, Nothing, NoConf
  <2>4. QED
    BY <1>1, <2>1, <2>2, <2>3, ReturnInv, Zenon
<1>4. CASE Reached
  <2>1. op.pc = "reach" /\ op.cmd = "reregister" /\ Returned(Delivers) /\ UNCHANGED <<files, kept>>
    BY <1>4 DEF Reached
  <2>2. Agree(files)
    BY <2>1, MakingIs DEF Making
  <2>3. Delivers \in BOOLEAN
    BY DEF Delivers
  <2>4. QED
    BY <1>1, <2>1, <2>2, <2>3, ReturnInv
<1>5. QED
  BY <1>2, <1>3, <1>4

(* Setup ends, having reached something or not (confirm_reach).            *)
LEMMA SetupEnds == ASSUME Inv, confirm_reach PROVE Inv'
<1>1. /\ op.cmd = "setup" /\ op.pc = "reach" /\ Ended(Delivers)
      /\ UNCHANGED <<files, kept, accounts, made, form, stamp, egress>>
  BY DEF confirm_reach
<1>2. /\ IsFiles(files) /\ IsFiles(kept) /\ accounts \in Nat /\ made \in Nat /\ IsOp(op)
      /\ op.by # "monitor"
  BY <1>1 DEF Inv, Shape, Idle
<1>3. op' = Idle /\ last'.cmd = "setup" /\ last'.before = op.before
  BY <1>1, <1>2, EndedIs
<1>4. Shape' /\ Course'
  BY <1>1, <1>2, <1>3, IdleCourse DEF Shape
<1>5. Agree(op.before) => Agree(files)
  BY <1>1 DEF Inv, Course
<1>6. Told'
  BY <1>1, <1>3, <1>5 DEF Told, FilesAgree, FailedCostsNothing, Agree
<1>7. Sparing'
  BY <1>1, <1>2, <1>3, MakingSpares
<1>8. QED
  BY <1>4, <1>6, <1>7 DEF Inv

(* A host on which warp was never set up has nothing to lose.              *)
LEMMA InitInv == ASSUME Init PROVE Inv
<1>1. files = Nothing /\ kept = Nothing /\ accounts = 0 /\ made = 0 /\ op = Idle /\ last = NoResult
  BY DEF Init
<1>2. IsFiles(Nothing) /\ IsOp(Idle)
  BY DEF IsFiles, IsConf, Nothing, NoConf, IsOp, Idle
<1>3. op.cmd = "none" /\ op.pc = "idle" /\ op.by = "operator" /\ last.cmd = "none"
  BY <1>1 DEF Idle, NoResult
<1>4. Shape
  BY <1>1, <1>2 DEF Shape
<1>5. Course /\ Told
  BY <1>1, <1>3 DEF Course, Making, Told, FilesAgree, FailedCostsNothing
<1>6. Sparing
  BY <1>1, <1>3 DEF Sparing, Minding
<1>7. QED
  BY <1>4, <1>5, <1>6 DEF Inv

(* Every step of a command, and of the world around it, preserves it.      *)
LEMMA StepInv == ASSUME Inv, [Next]_vars PROVE Inv'
<1>1. CASE setup \/ Reregister \/ check
  BY <1>1, BeginningSteps
<1>2. CASE enable \/ (\E purge \in BOOLEAN : revert(purge)) \/ Operator \/ Crash
  BY <1>2, RestingSteps
<1>3. CASE Step
  BY <1>3, MakingSteps, SetupEnds, ReplacingSteps, LookingSteps, ClosingSteps DEF Step
<1>4. CASE Handshakes \/ Network \/ Hour \/ UNCHANGED vars
  BY <1>4, OutsideSteps
<1>5. QED
  BY <1>1, <1>2, <1>3, <1>4 DEF Next

(* Replacing a WARP account is safe, for any endpoints, refusals, kills    *)
(* and restarts: the account, its profile and the one in use stay one      *)
(* registration's, a replacement that cannot be brought up leaves every    *)
(* file as it was, and the monitor registers at most one account an hour   *)
(* (reregister, put_back, reregistered_within).                            *)
THEOREM ReplacingIsSafe == Spec => []ReplacementsAreSafe
<1>1. Init => Inv
  BY InitInv
<1>2. Inv /\ [Next]_vars => Inv'
  BY StepInv
<1>3. Inv => ReplacementsAreSafe
  <2>1. Inv => FilesAgree /\ FailedCostsNothing
    BY DEF Inv, Told
  <2>2. Inv => NoBurning
    BY Zenon DEF Inv, Sparing, NoBurning
  <2>3. QED
    BY <2>1, <2>2 DEF ReplacementsAreSafe
<1>4. QED
  BY <1>1, <1>2, <1>3, PTL DEF Spec

------------------------------------------------------------------------------
(* Configuration files.                                                    *)

Taken(t) == ~one(t) /\ t.v6 \in V6

ConfigInv ==
  /\ \A i \in DOMAIN file : "v6" \in DOMAIN file[i] /\ file[i].v6 \in V6
  /\ \A i \in DOMAIN running : Taken(running[i])

(* The headers of a carrier, and the record that may be in front.          *)
Headers(c) == IF has_ports(c) THEN MAX_OVERHEAD ELSE IF c = "gre" THEN 24 ELSE IF c = "icmp" THEN 28 ELSE 20
Header(t) == IF Records(t) THEN RECORD_HEADER ELSE 0

(* Every carrier has one of four overheads, and what a tunnel is given by  *)
(* default makes up for a smaller one (overhead, default_mtu).             *)
LEMMA Overheads ==
  ASSUME NEW t
  PROVE  /\ Headers(Carrier(t)) \in {20, 24, 28, 60} /\ Header(t) \in {0, RECORD_HEADER}
         /\ has_ports(Carrier(t)) => Headers(Carrier(t)) = MAX_OVERHEAD
         /\ overhead(Carrier(t), Records(t)) = Headers(Carrier(t)) + Header(t)
         /\ Cap(t) = FRAGMENT_FREE_OUTER - (Headers(Carrier(t)) + Header(t)) - FRAMING
         /\ default_mtu(Carrier(t), Records(t)) = DEFAULT_MTU + (MAX_OVERHEAD - Headers(Carrier(t))) - Header(t)
<1>1. \A c : /\ Headers(c) \in {20, 24, 28, 60} /\ (has_ports(c) => Headers(c) = MAX_OVERHEAD)
             /\ Headers(c) = CASE has_ports(c) -> MAX_OVERHEAD [] c = "gre" -> 24
                                [] c = "icmp" -> 28 [] OTHER -> 20
  BY DEF Headers, has_ports, Tcp, MAX_OVERHEAD
<1>2. \A c, r : overhead(c, r) = Headers(c) + IF r THEN RECORD_HEADER ELSE 0
  BY <1>1 DEF overhead
<1>3. ASSUME NEW c PROVE overhead(c, FALSE) = Headers(c)
  <2>1. overhead(c, FALSE) = Headers(c) + 0
    BY <1>2, Zenon
  <2>2. Headers(c) \in {20, 24, 28, 60}
    BY <1>1, Zenon
  <2>3. \A n \in {20, 24, 28, 60} : n + 0 = n
    OBVIOUS
  <2> QED BY <2>1, <2>2, <2>3, Zenon
<1>4. Header(t) \in {0, RECORD_HEADER} /\ overhead(Carrier(t), Records(t)) = Headers(Carrier(t)) + Header(t)
  BY <1>2, Zenon DEF Header
<1>5. default_mtu(Carrier(t), Records(t)) = DEFAULT_MTU + (MAX_OVERHEAD - Headers(Carrier(t))) - Header(t)
  BY <1>3, Zenon DEF default_mtu, Header
<1>6. Cap(t) = FRAGMENT_FREE_OUTER - (Headers(Carrier(t)) + Header(t)) - FRAMING
  BY <1>4, ZenonT(30) DEF Cap, fragment_free_mtu
<1> QED BY <1>1, <1>4, <1>5, <1>6, Zenon

(* What the number asked for, the headers, the record's header, the        *)
(* options, the cap and the MTU of a tunnel have to do with each other.    *)
Agreeing(asked, base, r, o, fragment, cap, m) ==
  /\ fragment = "path" => m + FRAMING + (base + r) <= FRAGMENT_FREE_OUTER
  /\ asked = DEFAULT_MTU + (MAX_OVERHEAD - base) - r \/ asked = cap
       => m + FRAMING + (base + r) <= ETHERNET
  /\ ~(m < IPV6_LEAST) => m >= IPV6_LEAST
  /\ base = MAX_OVERHEAD /\ m + FRAMING + (base + r) <= ETHERNET
       => m + FRAMING + r + o <= (IF m + FRAMING + r + o < FLOOR THEN FLOOR
                                  ELSE IF m + FRAMING + r + o > MSS THEN MSS
                                  ELSE m + FRAMING + r + o)

(* The arithmetic of one tunnel: lowering the MTU to the cap, and the      *)
(* defaults, leave room for every header (fragment_free_mtu, carrier_mss). *)
LEMMA Sizes ==
  ASSUME NEW asked \in USABLE, NEW base \in {20, 24, 28, 60}, NEW r \in {0, RECORD_HEADER},
         NEW o \in {0, 12}, NEW fragment,
         NEW cap, cap = FRAGMENT_FREE_OUTER - (base + r) - FRAMING,
         NEW m, m = IF fragment = "path" /\ asked > cap THEN cap ELSE asked
  PROVE  Agreeing(asked, base, r, o, fragment, cap, m)
<1> USE DEF RECORD_HEADER, FRAGMENT_FREE_OUTER, FRAMING
<1>1. asked \in Int /\ base \in Int /\ r \in Int /\ cap \in Int /\ m \in Int /\ o \in Int
  BY DEF USABLE
<1>2. fragment = "path" => m <= cap
  BY <1>1
<1>3. m <= asked
  BY <1>1
<1>4. fragment = "path" => m + FRAMING + (base + r) <= FRAGMENT_FREE_OUTER
  BY <1>1, <1>2
<1>5. asked = DEFAULT_MTU + (MAX_OVERHEAD - base) - r \/ asked = cap
        => m + FRAMING + (base + r) <= ETHERNET
  BY <1>1, <1>3 DEF DEFAULT_MTU, MAX_OVERHEAD, ETHERNET
<1>6. base = MAX_OVERHEAD /\ m + FRAMING + (base + r) <= ETHERNET => m + FRAMING + r + o <= MSS
  BY <1>1 DEF MAX_OVERHEAD, ETHERNET, MSS
<1>7. \A n \in Int : n <= MSS => n <= (IF n < FLOOR THEN FLOOR ELSE IF n > MSS THEN MSS ELSE n)
  BY DEF FLOOR, MSS
<1>8. m + FRAMING + r + o \in Int
  BY <1>1
<1>9. ~(m < IPV6_LEAST) => m >= IPV6_LEAST
  BY <1>1 DEF IPV6_LEAST
<1> QED BY <1>4, <1>5, <1>6, <1>7, <1>8, <1>9 DEF Agreeing

(* A tunnel `one` lets through has sizes that agree, by the floors, the    *)
(* lowering and the defaults it applies.                                   *)
LEMMA TakenFits == ASSUME NEW t, Taken(t) PROVE Fitting(t)
<1> DEFINE base == Headers(Carrier(t))
           r == Header(t)
           asked == AskedMtu(t)
<1>1. ~one(t) /\ t.v6 \in V6
  BY Zenon DEF Taken
<1>2. ~RefusedSizes(t) /\ ~RefusedPeer(t)
  BY <1>1, Zenon DEF one
<1>3. asked \in USABLE /\ (t.v6 = "both" => ~(Mtu(t) < IPV6_LEAST))
  BY <1>2, Zenon DEF RefusedSizes
<1>4. t.v6 # "unset" => ~(Mtu(t) < IPV6_LEAST)
  BY <1>1, <1>2, <1>3, Zenon DEF RefusedPeer, V6
<1>5. /\ base \in {20, 24, 28, 60} /\ r \in {0, RECORD_HEADER}
      /\ has_ports(Carrier(t)) => base = MAX_OVERHEAD
      /\ overhead(Carrier(t), Records(t)) = base + r
      /\ Cap(t) = FRAGMENT_FREE_OUTER - (base + r) - FRAMING
      /\ default_mtu(Carrier(t), Records(t)) = DEFAULT_MTU + (MAX_OVERHEAD - base) - r
  BY Overheads, Zenon
<1>6. t.mtu = Unset => asked = DEFAULT_MTU + (MAX_OVERHEAD - base) - r \/ asked = Cap(t)
  BY <1>5, Zenon DEF AskedMtu, orNum
<1>7. Data(t) = Mtu(t) + FRAMING + r /\ Options(t) \in {0, 12}
  BY Zenon DEF Data, Options, Header
<1>8. Mtu(t) = IF Fragment(t) = "path" /\ asked > Cap(t) THEN Cap(t) ELSE asked
  BY Zenon DEF Mtu
<1> HIDE DEF base, r, asked
<1>9. Agreeing(asked, base, r, Options(t), Fragment(t), Cap(t), Mtu(t))
  BY <1>3, <1>5, <1>7, <1>8, Sizes, ZenonT(30)
<1>10. base = MAX_OVERHEAD /\ Mtu(t) + FRAMING + (base + r) <= ETHERNET
         => Data(t) + Options(t) <= carrier_mss(t)
  BY <1>7, <1>9, Zenon DEF Agreeing, carrier_mss
<1> QED BY <1>4, <1>5, <1>6, <1>9, <1>10, Zenon DEF Agreeing, Fitting

(* An editor writes one line, and load starts only what parse lets through. *)
LEMMA ConfigStep ==
  ASSUME ConfigAssumption, ConfigInv, [ConfigNext]_configVars
  PROVE  ConfigInv'
<1>1. CASE Edit
  <2>1. PICK i \in DOMAIN file, k \in DOMAIN Written : \E v \in Written[k] :
          file' = [file EXCEPT ![i][k] = v]
    BY <1>1, Zenon DEF Edit
  <2>2. PICK v \in Written[k] : file' = [file EXCEPT ![i][k] = v]
    BY <2>1, Zenon
  <2>3. k = "v6" => v \in V6
    BY DEF ConfigAssumption
  <2>4. ASSUME NEW j \in DOMAIN file' PROVE "v6" \in DOMAIN file'[j] /\ file'[j].v6 \in V6
    BY <2>2, <2>3 DEF ConfigInv
  <2> QED BY <1>1, <2>4 DEF Edit, ConfigInv
<1>2. CASE load
  BY <1>2 DEF load, parse, ConfigInv, Taken
<1>3. CASE Stop
  BY <1>3 DEF Stop, ConfigInv
<1>4. CASE UNCHANGED configVars
  BY <1>4 DEF configVars, ConfigInv
<1> QED BY <1>1, <1>2, <1>3, <1>4 DEF ConfigNext

(* The sizes of every tunnel that starts agree, for any files an operator  *)
(* begins from, any lines written into them and any number of edits: with  *)
(* Don't Fragment clear an outer packet fits every path, with a default    *)
(* MTU it fits a frame, inner IPv6 has 1280 bytes, and no segment exceeds  *)
(* the announced size (Config::parse, carrier_mss).                        *)
THEOREM SizesFit == ASSUME ConfigAssumption PROVE ConfigSpec => []SizesAgree
<1>1. ConfigInit => ConfigInv
  BY DEF ConfigInit, ConfigInv, ConfigAssumption
<1>2. ConfigInv => SizesAgree
  BY TakenFits DEF ConfigInv, SizesAgree
<1>3. ConfigInv /\ [ConfigNext]_configVars => ConfigInv'
  BY ConfigStep
<1> QED BY <1>1, <1>2, <1>3, PTL DEF ConfigSpec
==============================================================================
