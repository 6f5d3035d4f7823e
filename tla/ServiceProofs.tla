---------------------------- MODULE ServiceProofs ----------------------------
(***************************************************************************)
(* Proofs about the service on its host: the commands an operator keeps it *)
(* with, for any versions and any number of commands, failures and kills;  *)
(* its process, for any number of tunnels and reading threads and any      *)
(* number of edits, signals and link changes; and the check its unit runs  *)
(* first, for anything a file asks for and anything wrong with the host.   *)
(***************************************************************************)
EXTENDS Upkeep, Process, Doctor, TLAPS

------------------------------------------------------------------------------
(* The commands.                                                           *)

Releases == {Is(v) : v \in Versions}
Programs == {"binary", "xray"}
Stages == {"staged", "xray.staged"}
IsSeq(j) == \E E : j \in Seq(E)

(* A step that writes no program; and one that puts a staged file in the   *)
(* place of one, which comes straight after the three that fetched,        *)
(* checked and staged it.                                                  *)
Harmless(s) ==
  /\ s.op \in {"write", "overwrite", "copy"} => s.on \notin Programs
  /\ s.op = "fetch" => \E v \in Releases : s = Fetch(v)
  /\ s.op = "move" => s.v[1] \notin Programs
Installs(s) == s.op = "move" /\ s.on \in Programs
Staged(s) == s.v[1] \in Stages

Prepared(j, i) ==
  /\ Staged(j[i])
  /\ j[i - 1] = Copy("download", j[i].v[1]) /\ j[i - 2] = Verify /\ j[i - 3].op = "fetch"
Sound(j) ==
  /\ IsSeq(j)
  /\ \A i \in 1 .. Len(j) : Harmless(j[i]) /\ (Installs(j[i]) => i > 3 /\ Prepared(j, i))

(* What is left of such a sequence, with the file where the steps already  *)
(* taken have put it.                                                      *)
Underway(j, d, i) ==
  /\ Staged(j[i])
  /\ i = 1 => d[j[i].v[1]] \in Releases
  /\ i \in {2, 3} => j[i - 1] = Copy("download", j[i].v[1])
  /\ i = 2 => d["download"] \in Releases
  /\ i = 3 => j[1] = Verify /\ d["download"] \in Releases \cup {Unchecked}
  /\ i > 3 => Prepared(j, i)
ReplaceInv ==
  name \in {"update", "xray"} =>
    /\ IsSeq(job)
    /\ \A i \in 1 .. Len(job) : Harmless(job[i]) /\ (Installs(job[i]) => Underway(job, disk, i))

(* Where a migration stands: the file is whole until it is rewritten, and  *)
(* by then its copy is, or something has already gone wrong once.          *)
Copies == [Copy("config", "backup") EXCEPT !.must = FALSE]
AtCopy(c) ==
  /\ job = <<Copies, Write("config", c), Say("backup")>>
  /\ Whole(c) /\ Whole(disk["config"])
AtWrite(c) ==
  /\ job = <<Write("config", c), Say("backup")>>
  /\ Whole(c) /\ Whole(disk["config"])
  /\ Whole(disk["backup"]) \/ troubles >= 1
AtEnd ==
  /\ job \in {<<Say("backup")>>, << >>}
  /\ troubles <= 1 => Whole(disk["config"]) \/ Whole(disk["backup"])
MigrateInv == name = "migrate" => (\E c : AtCopy(c) \/ AtWrite(c)) \/ AtEnd

DiskInv == disk = [f \in Files |-> disk[f]] /\ troubles \in Nat
UpkeepInv == DiskInv /\ ReplaceInv /\ MigrateInv

(* One sequence after another (the way a command's steps are put           *)
(* together).                                                              *)
LEMMA Joined ==
  ASSUME NEW a, NEW b, IsSeq(a), IsSeq(b)
  PROVE  /\ IsSeq(a \o b) /\ Len(a) \in Nat /\ Len(b) \in Nat /\ Len(a \o b) = Len(a) + Len(b)
         /\ \A i \in 1 .. Len(a) : (a \o b)[i] = a[i]
         /\ \A i \in 1 .. Len(b) : (a \o b)[Len(a) + i] = b[i]
<1>1. PICK E : a \in Seq(E)
  BY DEF IsSeq
<1>2. PICK F : b \in Seq(F)
  BY DEF IsSeq
<1>3. a \in Seq(E \cup F) /\ b \in Seq(E \cup F)
  BY <1>1, <1>2
<1>4. a \o b \in Seq(E \cup F)
  BY <1>3
<1> QED BY <1>3, <1>4 DEF IsSeq

(* Two sound sequences make one (install_rules after xray_install).        *)
LEMMA SoundJoined ==
  ASSUME NEW a, NEW b, Sound(a), Sound(b)
  PROVE  Sound(a \o b)
<1> DEFINE j == a \o b
<1>1. IsSeq(a) /\ IsSeq(b)
  BY DEF Sound
<1>2. /\ IsSeq(j) /\ Len(a) \in Nat /\ Len(b) \in Nat /\ Len(j) = Len(a) + Len(b)
      /\ \A i \in 1 .. Len(a) : j[i] = a[i]
      /\ \A i \in 1 .. Len(b) : j[Len(a) + i] = b[i]
  BY <1>1, Joined
<1> HIDE DEF j
<1>3. ASSUME NEW i \in 1 .. Len(j)
      PROVE  Harmless(j[i]) /\ (Installs(j[i]) => i > 3 /\ Prepared(j, i))
  <2>1. CASE i \in 1 .. Len(a)
    <3>1. Harmless(a[i]) /\ (Installs(a[i]) => i > 3 /\ Prepared(a, i)) /\ j[i] = a[i]
      BY <1>2, <2>1 DEF Sound
    <3>2. i > 3 => i - 1 \in 1 .. Len(a) /\ i - 2 \in 1 .. Len(a) /\ i - 3 \in 1 .. Len(a)
      BY <1>2, <2>1
    <3>3. i > 3 => j[i - 1] = a[i - 1] /\ j[i - 2] = a[i - 2] /\ j[i - 3] = a[i - 3]
      BY <1>2, <3>2, Zenon
    <3> QED BY <3>1, <3>3 DEF Prepared
  <2>2. CASE i \notin 1 .. Len(a)
    <3>1. PICK k \in 1 .. Len(b) : i = Len(a) + k
      <4>1. i - Len(a) \in 1 .. Len(b) /\ i = Len(a) + (i - Len(a))
        BY <1>2, <2>2
      <4> QED BY <4>1, Zenon
    <3>2. Harmless(b[k]) /\ (Installs(b[k]) => k > 3 /\ Prepared(b, k)) /\ j[i] = b[k]
      BY <1>2, <3>1 DEF Sound
    <3>3. k > 3 => /\ i > 3 /\ k - 1 \in 1 .. Len(b) /\ k - 2 \in 1 .. Len(b) /\ k - 3 \in 1 .. Len(b)
                   /\ i - 1 = Len(a) + (k - 1) /\ i - 2 = Len(a) + (k - 2) /\ i - 3 = Len(a) + (k - 3)
      BY <1>2, <3>1
    <3>4. k > 3 => j[i - 1] = b[k - 1] /\ j[i - 2] = b[k - 2] /\ j[i - 3] = b[k - 3]
      BY <1>2, <3>3, Zenon
    <3> QED BY <3>2, <3>3, <3>4, Zenon DEF Prepared
  <2> QED BY <2>1, <2>2
<1> QED BY <1>2, <1>3, Zenon DEF Sound, j

(* Steps that put no program in place make sound sequences.                *)
LEMMA HarmlessSound ==
  ASSUME NEW s, Harmless(s), ~Installs(s), NEW t, Harmless(t), ~Installs(t)
  PROVE  Sound(<< >>) /\ Sound(<<s>>) /\ Sound(<<s, t>>)
<1>1. << >> \in Seq({}) /\ <<s>> \in Seq({s}) /\ <<s, t>> \in Seq({s, t})
  OBVIOUS
<1>2. IsSeq(<< >>) /\ IsSeq(<<s>>) /\ IsSeq(<<s, t>>)
  BY <1>1, Zenon DEF IsSeq
<1> QED BY <1>2 DEF Sound

(* update::replace after the digest was checked.                           *)
LEMMA ReplaceSound ==
  ASSUME NEW v \in Versions, NEW stage \in Stages, NEW f \in Programs
  PROVE  Sound(<< Fetch(Is(v)), Verify >> \o replace(stage, f))
<1> DEFINE a == Fetch(Is(v))
           b == Verify
           c == Copy("download", stage)
           d == Move(stage, f)
           j == <<a, b>> \o <<c, d>>
<1>1. << Fetch(Is(v)), Verify >> \o replace(stage, f) = j
  BY DEF replace
<1>2. Harmless(a) /\ ~Installs(a) /\ a.op = "fetch"
  BY Zenon DEF Fetch, Step, Harmless, Installs, Releases
<1>3. Harmless(b) /\ ~Installs(b)
  BY DEF Verify, Step, Harmless, Installs
<1>4. Harmless(c) /\ ~Installs(c)
  BY DEF Copy, Step, Harmless, Installs, Stages, Programs
<1>5. Harmless(d) /\ Staged(d) /\ c = Copy("download", d.v[1])
  BY DEF Move, Step, Harmless, Staged, Stages, Programs
<1> HIDE DEF a, b, c, d
<1>6. <<a, b>> \in Seq({a, b}) /\ <<c, d>> \in Seq({c, d})
  OBVIOUS
<1>7. IsSeq(j) /\ Len(j) = 4 /\ j[1] = a /\ j[2] = b /\ j[3] = c /\ j[4] = d
  <2>1. IsSeq(<<a, b>>) /\ IsSeq(<<c, d>>)
    BY <1>6, Zenon DEF IsSeq
  <2> QED BY <2>1, Joined
<1>8. Prepared(j, 4)
  BY <1>2, <1>5, <1>7 DEF Prepared, b
<1> HIDE DEF j
<1>9. \A i \in 1 .. Len(j) : Harmless(j[i]) /\ (Installs(j[i]) => i > 3 /\ Prepared(j, i))
  <2> TAKE i \in 1 .. Len(j)
  <2>1. i \in {1, 2, 3, 4}
    BY <1>7
  <2> QED BY <2>1, <1>2, <1>3, <1>4, <1>5, <1>7, <1>8
<1> QED BY <1>1, <1>7, <1>9, Zenon DEF Sound

(* The commands of `update` and `xray`, whatever the disk holds when they  *)
(* begin, replace a program only in this way.                              *)
LEMMA CommandsSound ==
  ASSUME UpkeepAssumption, Commands, name' \in {"update", "xray"}
  PROVE  Sound(job')
<1> DEFINE Quiet(s) == Harmless(s) /\ ~Installs(s)
<1> USE DEF Harmless, Installs, Programs
<1>1. \A s, t : Quiet(s) /\ Quiet(t) => Sound(<< >>) /\ Sound(<<s>>) /\ Sound(<<s, t>>)
  BY HarmlessSound
<1>2. \A v \in Versions : Quiet(Fetch(Is(v)))
  BY Zenon DEF Fetch, Step, Releases
<1>3. Quiet(Verify)
  BY DEF Verify, Step
<1>4. Quiet(Copy("download", "data.staged")) /\ Quiet(Move("data.staged", "data"))
  BY DEF Copy, Move, Step
<1>5. \A f, v : f \notin Programs => Quiet(Write(f, v))
  BY DEF Write, Step
<1>6. /\ Quiet(Systemctl("restart", "xray")) /\ Quiet(Systemctl("enable", "xray"))
      /\ Quiet([Systemctl("restart", "paqetz") EXCEPT !.must = FALSE])
  BY DEF Systemctl, Step
<1>7. Quiet(Say("xray"))
  BY DEF Say, Step
<1> HIDE DEF Harmless, Installs, Quiet
<1>8. \A v \in Versions : Sound(update_run(v))
  BY ReplaceSound DEF update_run, Stages
<1>9. \A v \in Versions, p \in BOOLEAN : Sound(install_rules(v, p))
  BY <1>1, <1>2, <1>3, <1>4, SoundJoined, Zenon DEF install_rules, replace
<1>10. \A v \in Versions, p \in BOOLEAN : Sound(xray_install(v, p))
  BY <1>9, ReplaceSound, SoundJoined DEF xray_install, Stages
<1>11. \A v : Sound(xray_apply(v))
  BY <1>1, <1>5, <1>6, <1>7, SoundJoined, Zenon DEF xray_apply, install_unit
<1>12. Sound(xray_setup(TRUE))
  BY <1>1, <1>3, <1>10, <1>11, SoundJoined, Zenon DEF xray_setup, UpkeepAssumption
<1>13. Sound(update_restart) /\ Sound(<< >>)
  BY <1>1, <1>6, Zenon DEF update_restart
<1>14. ASSUME NEW v \in Versions,
              job' = update_run(v) \/ job' = update_run(v) \o update_restart
       PROVE  Sound(job')
  BY <1>8, <1>13, <1>14, SoundJoined, Zenon
<1>15. ASSUME NEW v \in Versions, NEW p \in BOOLEAN,
              Runs("xray", xray_install(v, p)) \/ Runs("xray", install_rules(v, p))
       PROVE  Sound(job')
  BY <1>9, <1>10, <1>15 DEF Runs
<1> QED BY <1>12, <1>14, <1>15, Zenon DEF Commands, Runs

(* What is left when the first step is taken.                              *)
LEMMA Rest ==
  ASSUME NEW j, IsSeq(j), j # << >>
  PROVE  /\ IsSeq(Tail(j)) /\ Len(j) \in Nat \ {0} /\ Len(Tail(j)) = Len(j) - 1
         /\ Head(j) = j[1]
         /\ \A i \in 1 .. Len(Tail(j)) : i + 1 \in 1 .. Len(j) /\ Tail(j)[i] = j[i + 1]
<1>1. PICK E : j \in Seq(E)
  BY DEF IsSeq
<1>2. Tail(j) \in Seq(E)
  BY <1>1
<1> QED BY <1>1, <1>2 DEF IsSeq

(* Whatever a step does, fails at or is refused, the disk has its files.   *)
LEMMA DiskStep == DiskInv /\ [UpkeepNext]_upkeepVars => DiskInv'
<1> SUFFICES ASSUME DiskInv, [UpkeepNext]_upkeepVars PROVE DiskInv'
  OBVIOUS
<1>1. CASE Begin \/ Kill \/ LinkChange \/ UNCHANGED upkeepVars
  BY <1>1 DEF Begin, Kill, LinkChange, upkeepVars, DiskInv
<1>2. CASE Advance
  <2> DEFINE s == Head(job)
  <2> HIDE DEF s
  <2>1. Does(s) /\ troubles' \in {troubles, troubles + 1}
    BY <1>2 DEF Advance, s
  <2> QED BY <2>1 DEF Does, DiskInv
<1>3. CASE Fail
  <2> DEFINE s == Head(job)
  <2> HIDE DEF s
  <2>1. (Refused(s) \/ StepFails(s)) /\ troubles' \in {troubles, troubles + 1}
    BY <1>3 DEF Fail, s
  <2> QED BY <2>1 DEF Refused, StepFails, DiskInv
<1> QED BY <1>1, <1>2, <1>3 DEF UpkeepNext

(* A step of an update leaves a program as it was, or puts the staged file *)
(* in its place (replace: a rename).                                       *)
LEMMA StepIsWhole ==
  ASSUME DiskInv, NEW s, Harmless(s), Installs(s) => disk[s.v[1]] \in Releases,
         Does(s) \/ StepFails(s) \/ Refused(s), NEW f \in Programs
  PROVE  disk'[f] = disk[f] \/ disk'[f] \in Releases
<1>0. f \in Files
  BY DEF Programs, Files
<1>1. CASE Refused(s)
  BY <1>1 DEF Refused
<1>2. s.op = "fetch" => s.on = "download" /\ "download" # f
  BY DEF Harmless, Fetch, Step, Programs
<1>3. CASE StepFails(s)
  <2>1. \/ UNCHANGED disk
        \/ s.on # f /\ disk' = [disk EXCEPT ![s.on] = Junk]
    BY <1>2, <1>3 DEF StepFails, Harmless
  <2> QED BY <1>0, <2>1 DEF DiskInv
<1>4. CASE Does(s)
  <2>1. CASE s.op \in {"write", "overwrite"} /\ disk' = [disk EXCEPT ![s.on] = s.v]
    BY <2>1 DEF DiskInv, Harmless
  <2>2. CASE s.op = "fetch" /\ \E v : disk' = [disk EXCEPT !["download"] = v]
    BY <1>2, <2>2 DEF DiskInv
  <2>3. CASE /\ s.op \in {"copy", "move"}
             /\ disk' = [disk EXCEPT ![s.on] = disk[s.v[1]],
                                     ![s.v[1]] = IF s.op = "move" THEN Absent ELSE @]
    <3>1. CASE s.op = "copy"
      <4>1. s.on # f
        BY <3>1 DEF Harmless
      <4>2. disk'[f] = IF f = s.v[1] THEN disk[s.v[1]] ELSE disk[f]
        BY <1>0, <2>3, <3>1, <4>1 DEF DiskInv
      <4> QED BY <4>2
    <3>2. CASE s.op = "move"
      <4>1. s.v[1] # f /\ (s.on = f => disk[s.v[1]] \in Releases)
        BY <3>2 DEF Harmless, Installs
      <4>2. disk'[f] = IF f = s.on THEN disk[s.v[1]] ELSE disk[f]
        BY <1>0, <2>3, <3>2, <4>1 DEF DiskInv
      <4> QED BY <4>1, <4>2
    <3> QED BY <2>3, <3>1, <3>2
  <2>4. CASE UNCHANGED disk
    BY <2>4
  <2> QED BY <1>4, <2>1, <2>2, <2>3, <2>4 DEF Does
<1> QED BY <1>1, <1>3, <1>4

(* A command that ended has nothing left to do.                            *)
LEMMA NothingLeft ==
  ASSUME job' = << >>
  PROVE  ReplaceInv'
<1>1. job' \in Seq({}) /\ Len(job') = 0
  OBVIOUS
<1> QED BY <1>1 DEF ReplaceInv, IsSeq

(* The three steps before a program is replaced leave the whole release in *)
(* the staged file, or end the command.                                    *)
LEMMA ReplaceStep ==
  ASSUME UpkeepAssumption, DiskInv, ReplaceInv, [UpkeepNext]_upkeepVars
  PROVE  ReplaceInv'
<1>1. CASE Begin
  <2> SUFFICES ASSUME name' \in {"update", "xray"} PROVE ReplaceInv'
    BY DEF ReplaceInv
  <2>1. Sound(job')
    BY <1>1, CommandsSound DEF Begin
  <2>2. \A i \in 1 .. Len(job') : Prepared(job', i) /\ i > 3 => Underway(job', disk', i)
    BY DEF Underway, Prepared
  <2> QED BY <2>1, <2>2 DEF ReplaceInv, Sound
<1>2. ASSUME name \in {"update", "xray"}, UNCHANGED name, job # << >>, job' = Tail(job),
             \A k \in {2, 3, 4} \cap (1 .. Len(job)) :
               Installs(job[k]) => Underway(job', disk', k - 1)
      PROVE  ReplaceInv'
  <2>1. /\ IsSeq(job') /\ Len(job) \in Nat \ {0} /\ Len(job') = Len(job) - 1
        /\ \A i \in 1 .. Len(job') : i + 1 \in 1 .. Len(job) /\ job'[i] = job[i + 1]
    BY <1>2, Rest DEF ReplaceInv
  <2>2. ASSUME NEW i \in 1 .. Len(job')
        PROVE  Harmless(job'[i]) /\ (Installs(job'[i]) => Underway(job', disk', i))
    <3>1. i + 1 \in 1 .. Len(job) /\ job'[i] = job[i + 1] /\ i \in Nat
      BY <2>1
    <3>2. Harmless(job[i + 1]) /\ (Installs(job[i + 1]) => Underway(job, disk, i + 1))
      BY <1>2, <3>1 DEF ReplaceInv
    <3>3. CASE i <= 3
      <4>1. i + 1 \in {2, 3, 4} \cap (1 .. Len(job)) /\ (i + 1) - 1 = i
        BY <3>1, <3>3
      <4> QED BY <1>2, <3>1, <3>2, <4>1
    <3>4. CASE i > 3
      <4>1. /\ i - 1 \in 1 .. Len(job') /\ i - 2 \in 1 .. Len(job') /\ i - 3 \in 1 .. Len(job')
            /\ (i - 1) + 1 = i /\ (i - 2) + 1 = i - 1 /\ (i - 3) + 1 = i - 2
        BY <2>1, <3>1, <3>4
      <4>2. job'[i - 1] = job[i] /\ job'[i - 2] = job[i - 1] /\ job'[i - 3] = job[i - 2]
        BY <2>1, <4>1, ZenonT(40)
      <4>3. Prepared(job, i + 1) => Prepared(job', i)
        BY <3>1, <4>2 DEF Prepared
      <4>4. Underway(job, disk, i + 1) => Prepared(job, i + 1)
        BY <3>4, <3>1 DEF Underway
      <4>5. Prepared(job', i) => Underway(job', disk', i)
        BY <3>4, <3>1 DEF Underway, Prepared
      <4> QED BY <3>1, <3>2, <4>3, <4>4, <4>5
    <3> QED BY <3>1, <3>3, <3>4
  <2> QED BY <1>2, <2>1, <2>2, ZenonT(40) DEF ReplaceInv
<1>3. ASSUME NEW k \in {2, 3, 4} \cap (1 .. Len(job)), name \in {"update", "xray"}, job # << >>,
             Installs(job[k])
      PROVE  /\ Underway(job, disk, k) /\ Staged(job[k]) /\ Head(job) = job[1]
             /\ k = 2 => job[1] = Copy("download", job[2].v[1]) /\ disk["download"] \in Releases
             /\ k = 3 => /\ job[1] = Verify /\ job[2] = Copy("download", job[3].v[1])
                         /\ disk["download"] \in Releases \cup {Unchecked}
             /\ k = 4 => /\ \E r \in Releases : job[1] = Fetch(r)
                         /\ job[2] = Verify /\ job[3] = Copy("download", job[4].v[1])
  <2>1. IsSeq(job) /\ Underway(job, disk, k) /\ Harmless(job[1])
    BY <1>3 DEF ReplaceInv
  <2>2. Head(job) = job[1]
    BY <1>3, <2>1, Rest
  <2>3. k = 4 => Prepared(job, 4)
    BY <2>1 DEF Underway
  <2>4. k = 4 => \E r \in Releases : job[1] = Fetch(r)
    BY <2>1, <2>3 DEF Prepared, Harmless
  <2>5. k = 2 => job[1] = Copy("download", job[2].v[1]) /\ disk["download"] \in Releases
    BY <2>1 DEF Underway
  <2>6. k = 3 => /\ job[1] = Verify /\ job[2] = Copy("download", job[3].v[1])
                 /\ disk["download"] \in Releases \cup {Unchecked}
    BY <2>1 DEF Underway
  <2>7. k = 4 => job[2] = Verify /\ job[3] = Copy("download", job[4].v[1])
    BY <2>3 DEF Prepared
  <2>8. Staged(job[k])
    BY <2>1 DEF Underway
  <2> QED BY <2>1, <2>2, <2>4, <2>5, <2>6, <2>7, <2>8
<1>4. CASE Advance
  <2> SUFFICES ASSUME name \in {"update", "xray"} PROVE ReplaceInv'
    BY <1>4 DEF ReplaceInv, Advance
  <2>1. job # << >> /\ UNCHANGED name /\ job' = Tail(job) /\ Does(Head(job)) /\ IsSeq(job)
    BY <1>4 DEF Advance, ReplaceInv
  <2>2. ASSUME NEW k \in {2, 3, 4} \cap (1 .. Len(job)), Installs(job[k])
        PROVE  Underway(job', disk', k - 1)
    <3>1. /\ Does(job[1]) /\ Staged(job[k])
          /\ \A i \in {2, 3, 4} \cap (1 .. Len(job)) : job'[i - 1] = job[i]
      <4>1. \A i \in 1 .. Len(job) - 1 : job'[i] = job[i + 1]
        BY <2>1, Rest
      <4> QED BY <1>3, <2>1, <2>2, <4>1
    <3>2. CASE k = 2
      <4> DEFINE st == job[2].v[1]
      <4>1. st \in Files \ {"download"}
        BY <3>1, <3>2 DEF Staged, Stages, Files
      <4>2. disk' = [disk EXCEPT ![st] = disk["download"], !["download"] = @]
        <5>1. job[1].op = "copy" /\ job[1].on = st /\ job[1].v[1] = "download"
          <6>1. job[1] = Copy("download", st)
            BY <1>3, <2>1, <2>2, <3>2, ZenonT(40)
          <6> QED BY <6>1 DEF Copy, Step
        <5> QED BY <3>1, <5>1 DEF Does
      <4>3. disk'[st] \in Releases
        BY <1>3, <2>1, <2>2, <3>2, <4>1, <4>2, ZenonT(40) DEF DiskInv
      <4> QED BY <2>2, <3>1, <3>2, <4>3 DEF Underway, Staged
    <3>3. CASE k = 3
      <4>1. UNCHANGED disk /\ disk["download"] # Unchecked
        <5>1. job[1].op = "verify"
          BY <1>3, <2>1, <2>2, <3>3 DEF Verify, Step
        <5> QED BY <3>1, <5>1 DEF Does
      <4> QED BY <1>3, <2>1, <2>2, <3>1, <3>3, <4>1 DEF Underway, Staged
    <3>4. CASE k = 4
      <4>1. PICK r \in Releases : job[1] = Fetch(r)
        BY <1>3, <2>1, <2>2, <3>4
      <4>2. \E v \in {r, Unchecked} : disk' = [disk EXCEPT !["download"] = v]
        <5>1. job[1].op = "fetch" /\ job[1].v = r
          BY <4>1 DEF Fetch, Step
        <5> QED BY <3>1, <5>1 DEF Does
      <4>3. disk'["download"] \in Releases \cup {Unchecked}
        BY <4>1, <4>2 DEF DiskInv, Files
      <4> QED BY <1>3, <2>1, <2>2, <3>1, <3>4, <4>3 DEF Underway, Staged
    <3> QED BY <3>2, <3>3, <3>4
  <2> QED BY <1>2, <2>1, <2>2
<1>5. CASE Fail
  <2> SUFFICES ASSUME name \in {"update", "xray"} PROVE ReplaceInv'
    BY <1>5 DEF ReplaceInv, Fail
  <2>1. job # << >> /\ UNCHANGED name /\ job' = IF Head(job).must THEN << >> ELSE Tail(job)
    BY <1>5 DEF Fail
  <2>2. CASE job' = << >>
    BY <2>2, NothingLeft
  <2>3. CASE job' = Tail(job) /\ ~Head(job).must
    <3>1. ASSUME NEW k \in {2, 3, 4} \cap (1 .. Len(job)), Installs(job[k]) PROVE FALSE
      <4>1. Head(job) = job[1] /\ job[1].must
        <5>1. /\ \A x, y : Copy(x, y).must
              /\ Verify.must
              /\ \A x : Fetch(x).must
          BY Zenon DEF Copy, Verify, Fetch, Step
        <5> QED BY <1>3, <2>1, <3>1, <5>1
      <4> QED BY <2>3, <4>1
    <3> QED BY <1>2, <2>1, <2>3, <3>1
  <2> QED BY <2>1, <2>2, <2>3
<1>6. CASE Kill
  BY <1>6, NothingLeft DEF Kill
<1>7. CASE UNCHANGED <<name, job, disk>>
  BY <1>7 DEF ReplaceInv, Underway, Prepared
<1> QED BY <1>1, <1>4, <1>5, <1>6, <1>7 DEF UpkeepNext, upkeepVars, LinkChange

(* The configuration is rewritten only when its copy is whole or a failure *)
(* has been spent on the copy (migrate::run).                              *)
LEMMA MigrateStep ==
  ASSUME DiskInv, MigrateInv, [UpkeepNext]_upkeepVars
  PROVE  MigrateInv'
<1> DEFINE W(c) == Write("config", c)
           Y == Say("backup")
<1>1. /\ Copies.op = "copy" /\ Copies.on = "backup" /\ Copies.v[1] = "config" /\ ~Copies.must
      /\ Y.op = "say"
      /\ \A c : W(c).op = "write" /\ W(c).on = "config" /\ W(c).v = c /\ W(c).must
  BY Zenon DEF Copies, Copy, Write, Say, Step
<1> HIDE DEF W, Y
<1>2. CASE Begin
  <2> SUFFICES ASSUME name' = "migrate" PROVE MigrateInv'
    BY DEF MigrateInv
  <2>1. UNCHANGED disk /\ Whole(disk["config"]) /\ job' = migrate_run
    BY <1>2 DEF Begin, Commands, Runs
  <2>2. AtCopy(disk["config"])'
    BY <2>1 DEF AtCopy, migrate_run, Copies
  <2> QED BY <2>1, <2>2 DEF MigrateInv
<1>3. ASSUME NEW c, name = "migrate", AtCopy(c), Advance \/ Fail PROVE MigrateInv'
  <2>1. Head(job) = Copies /\ Tail(job) = <<W(c), Y>> /\ job # << >>
    BY <1>3 DEF AtCopy, W, Y
  <2>2. CASE Advance
    <3>1. Does(Copies) /\ job' = <<W(c), Y>>
      BY <2>1, <2>2 DEF Advance
    <3>2. disk' = [disk EXCEPT !["backup"] = disk["config"], !["config"] = @]
      BY <1>1, <3>1 DEF Does
    <3>3. disk'["backup"] = disk["config"] /\ disk'["config"] = disk["config"]
      BY <3>2 DEF DiskInv, Files
    <3>4. AtWrite(c)'
      BY <1>3, <3>1, <3>3 DEF AtWrite, AtCopy, Whole, W, Y
    <3> QED BY <3>4 DEF MigrateInv
  <2>3. CASE Fail
    <3>1. ~Refused(Copies)
      BY <1>1 DEF Refused
    <3>2. StepFails(Copies) /\ troubles' = troubles + 1 /\ job' = <<W(c), Y>>
      BY <1>1, <2>1, <2>3, <3>1 DEF Fail
    <3>3. UNCHANGED disk \/ disk' = [disk EXCEPT !["backup"] = Junk]
      BY <1>1, <3>2 DEF StepFails
    <3>4. disk'["config"] = disk["config"]
      BY <3>3 DEF DiskInv, Files
    <3>5. AtWrite(c)'
      BY <1>3, <3>2, <3>4 DEF AtWrite, AtCopy, Whole, W, Y, DiskInv
    <3> QED BY <3>5 DEF MigrateInv
  <2> QED BY <1>3, <2>2, <2>3
<1>4. ASSUME NEW c, name = "migrate", AtWrite(c), Advance \/ Fail PROVE MigrateInv'
  <2>1. Head(job) = W(c) /\ Tail(job) = <<Y>> /\ job # << >>
    BY <1>4 DEF AtWrite, W, Y
  <2>2. CASE Advance
    <3>1. Does(W(c)) /\ job' = <<Y>>
      BY <2>1, <2>2 DEF Advance
    <3>2. disk' = [disk EXCEPT !["config"] = c]
      BY <1>1, <3>1 DEF Does
    <3>3. disk'["config"] = c
      BY <3>2 DEF DiskInv, Files
    <3>4. AtEnd'
      BY <1>4, <3>1, <3>3, Zenon DEF AtEnd, AtWrite, Whole, Y
    <3> QED BY <3>4 DEF MigrateInv
  <2>3. CASE Fail
    <3>1. ~Refused(W(c))
      BY <1>1, Zenon DEF Refused
    <3>2. StepFails(W(c)) /\ troubles' = troubles + 1 /\ job' = << >>
      BY <1>1, <2>1, <2>3, <3>1 DEF Fail
    <3>3. UNCHANGED disk \/ disk' = [disk EXCEPT !["config"] = Junk]
      BY <1>1, <3>2 DEF StepFails
    <3>4. disk'["backup"] = disk["backup"]
      BY <3>3 DEF DiskInv, Files
    <3>5. AtEnd'
      <4>1. Whole(disk["backup"]) \/ troubles >= 1
        BY <1>4 DEF AtWrite
      <4> QED BY <3>2, <3>4, <4>1 DEF AtEnd, Whole, DiskInv
    <3> QED BY <3>5 DEF MigrateInv
  <2> QED BY <1>4, <2>2, <2>3
<1>5. ASSUME name = "migrate", AtEnd, Advance \/ Fail PROVE MigrateInv'
  <2>1. Head(job) = Y /\ Tail(job) = << >>
    <3>1. job = <<Y>>
      BY <1>5 DEF AtEnd, Y, Advance, Fail
    <3> QED BY <3>1
  <2>2. Advance
    <3>1. ~Refused(Y) /\ ~StepFails(Y)
      BY <1>1 DEF Refused, StepFails
    <3> QED BY <1>5, <2>1, <3>1 DEF Fail
  <2>3. UNCHANGED disk /\ job' = << >> /\ troubles' \in {troubles, troubles + 1}
    BY <1>1, <2>1, <2>2 DEF Advance, Does
  <2>4. AtEnd'
    BY <1>5, <2>3 DEF AtEnd, DiskInv
  <2> QED BY <2>4 DEF MigrateInv
<1>6. CASE Kill
  <2> SUFFICES ASSUME name = "migrate" PROVE AtEnd'
    BY <1>6 DEF MigrateInv, Kill
  <2>1. UNCHANGED disk /\ job' = << >> /\ troubles' = troubles + 1
    BY <1>6 DEF Kill
  <2>2. troubles <= 1 => Whole(disk["config"]) \/ Whole(disk["backup"])
    BY DEF MigrateInv, AtCopy, AtWrite, AtEnd
  <2> QED BY <2>1, <2>2 DEF AtEnd, DiskInv
<1>7. CASE UNCHANGED <<name, job, disk, troubles>>
  BY <1>7 DEF MigrateInv, AtCopy, AtWrite, AtEnd
<1>8. CASE name # "migrate" /\ UNCHANGED name
  BY <1>8 DEF MigrateInv
<1>9. CASE Advance \/ Fail
  BY <1>3, <1>4, <1>5, <1>8, <1>9 DEF MigrateInv, Advance, Fail
<1> QED BY <1>2, <1>6, <1>7, <1>9 DEF UpkeepNext, upkeepVars, LinkChange

(* An update replaces a program whole or not at all, whatever fails and    *)
(* wherever it is killed (update::replace, xray::replace), and a migration *)
(* that fails once or is interrupted leaves the configuration or its copy  *)
(* whole (migrate::run).                                                   *)
THEOREM UpkeepIsSafe ==
  ASSUME UpkeepAssumption
  PROVE  UpkeepSpec => UpkeepSafe
<1>1. UpkeepInit => UpkeepInv
  BY DEF UpkeepInit, UpkeepInv, DiskInv, ReplaceInv, MigrateInv
<1>2. UpkeepInv /\ [UpkeepNext]_upkeepVars => UpkeepInv'
  BY DiskStep, ReplaceStep, MigrateStep DEF UpkeepInv
<1>3. UpkeepInv => (name = "migrate" /\ troubles <= 1 => Whole(disk["config"]) \/ Whole(disk["backup"]))
  BY DEF UpkeepInv, MigrateInv, AtCopy, AtWrite, AtEnd
<1>4. UpkeepInv /\ [UpkeepNext]_upkeepVars => [ReplacesWhole]_upkeepVars
  <2> SUFFICES ASSUME UpkeepInv, [UpkeepNext]_upkeepVars, name \in {"update", "xray"}, NEW f \in Programs
               PROVE  disk'[f] = disk[f] \/ disk'[f] \in Releases
    BY DEF ReplacesWhole, Programs, Releases
  <2>1. CASE Advance \/ Fail
    <3> DEFINE s == Head(job)
    <3> HIDE DEF s
    <3>1. job # << >> /\ (Does(s) \/ StepFails(s) \/ Refused(s))
      BY <2>1 DEF Advance, Fail, s
    <3>2. IsSeq(job)
      BY DEF UpkeepInv, ReplaceInv
    <3>3. 1 \in 1 .. Len(job) /\ s = job[1]
      BY <3>1, <3>2, Rest DEF s
    <3>4. Harmless(s) /\ (Installs(s) => Underway(job, disk, 1))
      BY <3>3 DEF UpkeepInv, ReplaceInv
    <3>5. Installs(s) => disk[s.v[1]] \in Releases
      BY <3>3, <3>4 DEF Underway
    <3> QED BY <3>1, <3>4, <3>5, StepIsWhole, ZenonT(40) DEF UpkeepInv
  <2>2. CASE UNCHANGED disk
    BY <2>2
  <2> QED BY <2>1, <2>2 DEF UpkeepNext, upkeepVars, Begin, Kill, LinkChange
<1> QED BY <1>1, <1>2, <1>3, <1>4, PTL DEF UpkeepSpec, UpkeepSafe

------------------------------------------------------------------------------
(* The process.                                                            *)

(* Where the threads can be, and what a run loop can have read: what it is *)
(* about to apply has loaded.                                              *)
TypeOK ==
  /\ SHUTDOWN \in BOOLEAN /\ RELOAD \in BOOLEAN
  /\ raised \in {"nobody", "signal", "reader"}
  /\ running \in [Tunnels -> BOOLEAN] /\ fault \in [Tunnels -> BOOLEAN]
  /\ loop \in [Tunnels -> {"loop", "load", "apply", "bye", "ok", "error"}]
  /\ fresh \in [Tunnels -> {Bad, 1, 2}]
  /\ reader \in [Threads -> {"start", "reads", "outage", "stop1", "stop2", "stop3", "ended"}]
  /\ \A t \in Tunnels : loop[t] = "apply" => fresh[t] # Bad
  /\ level \in {1, 2} /\ text \in {Bad, 1, 2}
  /\ told \in BOOLEAN /\ crossed \in BOOLEAN
  /\ exit \in {"not yet", "ok", "error"}

(* Until somebody raises SHUTDOWN every tunnel runs and no loop has left.  *)
(* A reader about to raise it has written down why, one that stops its own *)
(* tunnel has raised it, and once a reader has raised it first, some       *)
(* tunnel has a reason its loop has not overlooked.                        *)
ReasonInv ==
  /\ SHUTDOWN <=> raised # "nobody"
  /\ ~SHUTDOWN => \A t \in Tunnels : running[t] /\ loop[t] \in {"loop", "load", "apply"}
  /\ \A r \in Threads : reader[r] \in {"stop2", "stop3"} => fault[r[1]]
  /\ \A r \in Threads : reader[r] = "stop3" => SHUTDOWN
  /\ raised = "reader" => \E t \in Tunnels : fault[t] /\ loop[t] # "ok"
  /\ ExitSaysWhy

(* Unless reloads have overlapped, one tunnel at most is reloading; and    *)
(* once a SIGHUP has come after the last edit and has been taken, what is  *)
(* about to be applied is what the file says.                              *)
ReloadInv ==
  ~crossed =>
  /\ \A t, u \in Reloading : t = u
  /\ told /\ ~RELOAD => \A t \in Tunnels : loop[t] = "apply" => fresh[t] = text
  /\ LevelFollowsFile

Inv == TypeOK /\ ReasonInv /\ ReloadInv

------------------------------------------------------------------------------
(* The invariant holds when the threads start.                             *)
LEMMA InitInv == Init => Inv
<1> SUFFICES ASSUME Init PROVE Inv
  OBVIOUS
<1>1. TypeOK
  <2>1. /\ SHUTDOWN \in BOOLEAN /\ RELOAD \in BOOLEAN /\ told \in BOOLEAN /\ crossed \in BOOLEAN
        /\ running \in [Tunnels -> BOOLEAN] /\ fault \in [Tunnels -> BOOLEAN]
    BY Zenon DEF Init
  <2>2. /\ loop \in [Tunnels -> {"loop", "load", "apply", "bye", "ok", "error"}]
        /\ fresh \in [Tunnels -> {Bad, 1, 2}]
        /\ reader \in [Threads -> {"start", "reads", "outage", "stop1", "stop2", "stop3", "ended"}]
    BY DEF Init
  <2>3. QED
    BY <2>1, <2>2 DEF Init, TypeOK
<1>2. ReasonInv
  BY DEF Init, ReasonInv, ExitSaysWhy
<1>3. ReloadInv
  BY DEF Init, ReloadInv, Reloading, LevelFollowsFile
<1>4. QED
  BY <1>1, <1>2, <1>3 DEF Inv

(* A step of a reader that makes no store changes where it stands only.    *)
LEMMA ReaderMovesInv ==
  ASSUME Inv, NEW r \in Threads, NEW next \in {"reads", "outage", "stop1", "ended"},
         Reading(r, next),
         UNCHANGED <<SHUTDOWN, RELOAD, raised, running, fault, loop, fresh, link,
                     level, text, told, crossed, exit, events>>
  PROVE  Inv'
<1>1. TypeOK'
  BY ZenonT(40) DEF Inv, TypeOK, Reading
<1>2. ReasonInv'
  BY DEF Inv, TypeOK, Reading, ReasonInv, ExitSaysWhy
<1>3. ReloadInv'
  BY DEF Inv, ReloadInv, Reloading, LevelFollowsFile
<1>4. QED
  BY <1>1, <1>2, <1>3 DEF Inv

(* A reader that failed for good has three stores to make.                 *)
LEMMA ThreeStores == \A i \in 1 .. 3 : i = 1 \/ i = 2 \/ i = 3
OBVIOUS

(* The stores of a reader that failed for good: the reason, the flag of    *)
(* the process, the flag of its tunnel.                                    *)
LEMMA StoreInv ==
  ASSUME Inv, exit = "not yet", NEW r \in Threads, Store(r)
  PROVE  Inv'
<1>1. \A q \in Threads : q[1] \in Tunnels
  BY ProcessAssumption DEF ProcessAssumption
<1>2. UNCHANGED <<RELOAD, loop, fresh, link, level, text, told, crossed, exit, events>>
  BY DEF Store
<1>3. ReloadInv'
  BY <1>2 DEF Inv, ReloadInv, Reloading, LevelFollowsFile
<1>4. CASE /\ reader[r] = "stop1" /\ reader' = [reader EXCEPT ![r] = "stop2"]
           /\ fault' = [fault EXCEPT ![r[1]] = TRUE] /\ UNCHANGED <<SHUTDOWN, raised, running>>
  <2>1. TypeOK'
    BY <1>1, <1>2, <1>4 DEF Inv, TypeOK
  <2>2. \A t \in Tunnels : fault[t] => fault'[t]
    BY <1>1, <1>4 DEF Inv, TypeOK
  <2>3. \A q \in Threads : reader'[q] \in {"stop2", "stop3"} => fault'[q[1]]
    BY <1>1, <1>4, <2>2 DEF Inv, TypeOK, ReasonInv
  <2>4. \A q \in Threads : reader'[q] = "stop3" => reader[q] = "stop3"
    BY <1>4 DEF Inv, TypeOK
  <2>5. ReasonInv'
    BY <1>2, <1>4, <2>2, <2>3, <2>4 DEF Inv, ReasonInv, ExitSaysWhy
  <2>6. QED
    BY <1>3, <2>1, <2>5 DEF Inv
<1>5. CASE /\ reader[r] = "stop2" /\ reader' = [reader EXCEPT ![r] = "stop3"]
           /\ SHUTDOWN' = TRUE /\ raised' = IF raised = "nobody" THEN "reader" ELSE raised
           /\ UNCHANGED <<fault, running>>
  <2>1. SHUTDOWN' \in BOOLEAN
    BY <1>5, Zenon
  <2>2. TypeOK'
    BY <1>2, <1>5, <2>1 DEF Inv, TypeOK
  <2>3. fault[r[1]] /\ (raised = "nobody" => loop[r[1]] # "ok")
    BY <1>1, <1>5 DEF Inv, ReasonInv
  <2>4. ReasonInv'
    BY <1>1, <1>2, <1>5, <2>3 DEF Inv, TypeOK, ReasonInv, ExitSaysWhy
  <2>5. QED
    BY <1>3, <2>2, <2>4 DEF Inv
<1>6. CASE /\ reader[r] = "stop3" /\ reader' = [reader EXCEPT ![r] = "ended"]
           /\ running' = [running EXCEPT ![r[1]] = FALSE] /\ UNCHANGED <<SHUTDOWN, raised, fault>>
  <2>1. TypeOK'
    BY <1>1, <1>2, <1>6 DEF Inv, TypeOK
  <2>2. SHUTDOWN
    BY <1>6 DEF Inv, ReasonInv
  <2>3. ReasonInv'
    BY <1>1, <1>2, <1>6, <2>2 DEF Inv, TypeOK, ReasonInv, ExitSaysWhy
  <2>4. QED
    BY <1>3, <2>1, <2>3 DEF Inv
<1>7. QED
  <2>1. PICK i \in 1 .. 3 :
          /\ reader[r] = <<"stop1", "stop2", "stop3">>[i]
          /\ Reading(r, <<"stop2", "stop3", "ended">>[i])
          /\ fault' = IF Stores[i] = "fault" THEN [fault EXCEPT ![r[1]] = TRUE] ELSE fault
          /\ SHUTDOWN' = (SHUTDOWN \/ Stores[i] = "SHUTDOWN")
          /\ raised' = IF Stores[i] = "SHUTDOWN" /\ raised = "nobody" THEN "reader" ELSE raised
          /\ running' = IF Stores[i] = "running" THEN [running EXCEPT ![r[1]] = FALSE] ELSE running
    BY DEF Store
  <2>2. CASE i = 1
    BY <1>4, <2>1, <2>2 DEF Stores, Reading, Inv, TypeOK
  <2>3. CASE i = 2
    <3>1. /\ reader[r] = "stop2" /\ reader' = [reader EXCEPT ![r] = "stop3"]
          /\ raised' = IF raised = "nobody" THEN "reader" ELSE raised
          /\ UNCHANGED <<fault, running>>
      BY <2>1, <2>3 DEF Stores, Reading
    <3>2. Stores[i] = "SHUTDOWN"
      BY <2>3 DEF Stores
    <3>3. SHUTDOWN' = TRUE
      BY <2>1, <3>2, Zenon
    <3>4. QED
      BY <1>5, <3>1, <3>3
  <2>4. CASE i = 3
    BY <1>6, <2>1, <2>4 DEF Stores, Reading, Inv, TypeOK
  <2>5. i = 1 \/ i = 2 \/ i = 3
    BY ThreeStores, Zenon
  <2>6. QED
    BY <2>2, <2>3, <2>4, <2>5

------------------------------------------------------------------------------
(* A round of the run loop: a reload taken, or the way out.                *)
LEMMA RunInv ==
  ASSUME Inv, exit = "not yet", NEW t \in Tunnels, run(t)
  PROVE  Inv'
<1>1. /\ loop[t] = "loop"
      /\ UNCHANGED <<SHUTDOWN, raised, running, fault, fresh, reader, link,
                     level, text, told, exit, events>>
  BY ZenonT(30) DEF run
<1>2. CASE /\ running[t] /\ ~SHUTDOWN /\ reload_requested(t)
           /\ Looping(t, "load") /\ crossed' = (crossed \/ Reloading # {})
  <2>1. RELOAD' \in BOOLEAN /\ crossed' \in BOOLEAN
    BY <1>2, Zenon DEF reload_requested
  <2>2. TypeOK'
    BY <1>1, <1>2, <2>1 DEF Inv, TypeOK, Looping
  <2>3. ReasonInv'
    BY <1>1, <1>2 DEF Inv, TypeOK, ReasonInv, ExitSaysWhy, Looping
  <2>4. ReloadInv'
    <3> SUFFICES ASSUME ~crossed'
                 PROVE  /\ \A u, v \in Reloading' : u = v
                        /\ \A u \in Tunnels : loop'[u] = "apply" => fresh'[u] = text'
                        /\ Reloading' # {}
      BY DEF ReloadInv, LevelFollowsFile
    <3>1. \A u \in Tunnels : loop[u] \notin {"load", "apply"}
      BY <1>2 DEF Reloading
    <3>2. /\ loop'[t] = "load"
          /\ \A u \in Tunnels : u # t => loop'[u] \notin {"load", "apply"}
      BY <1>2, <3>1 DEF Inv, TypeOK, Looping
    <3>3. QED
      BY <3>2 DEF Reloading
  <2>5. QED
    BY <2>2, <2>3, <2>4 DEF Inv
<1>3. CASE (~running[t] \/ SHUTDOWN) /\ Looping(t, "bye") /\ UNCHANGED <<RELOAD, crossed>>
  <2>1. SHUTDOWN
    BY <1>3 DEF Inv, ReasonInv
  <2>2. TypeOK'
    BY <1>1, <1>3 DEF Inv, TypeOK, Looping
  <2>3. ReasonInv'
    BY <1>1, <1>3, <2>1 DEF Inv, TypeOK, ReasonInv, ExitSaysWhy, Looping
  <2>4. Reloading' = Reloading /\ \A u \in Tunnels : loop'[u] = "apply" => loop[u] = "apply"
    BY <1>1, <1>3 DEF Inv, TypeOK, Reloading, Looping
  <2>5. ReloadInv'
    BY <1>1, <1>3, <2>4 DEF Inv, ReloadInv, LevelFollowsFile
  <2>6. QED
    BY <2>2, <2>3, <2>5 DEF Inv
<1>4. QED
  BY <1>2, <1>3, ZenonT(30) DEF run

(* reload reads the file: what is read now is what the file says.          *)
LEMMA LoadInv ==
  ASSUME Inv, exit = "not yet", NEW t \in Tunnels, Load(t)
  PROVE  Inv'
<1>1. /\ loop[t] = "load"
      /\ UNCHANGED <<SHUTDOWN, RELOAD, raised, running, fault, reader, link,
                     level, text, told, crossed, exit, events>>
  BY DEF Load
<1>2. loop'[t] \in {"loop", "apply"}
  BY DEF Load, Looping, Inv, TypeOK
<1>3. \A u \in Tunnels : u # t => loop'[u] = loop[u] /\ fresh'[u] = fresh[u]
  BY DEF Load, Looping, Inv, TypeOK
<1>4. TypeOK'
  BY <1>1, ZenonT(40) DEF Load, Looping, Inv, TypeOK
<1>5. ReasonInv'
  BY <1>1, <1>2, <1>3 DEF Inv, ReasonInv, ExitSaysWhy
<1>6. ReloadInv'
  <2>1. CASE text = Bad
    <3>1. loop'[t] = "loop"
      BY <2>1 DEF Load, Looping, Inv, TypeOK
    <3>2. QED
      BY <1>1, <1>3, <2>1, <3>1 DEF Inv, ReloadInv, Reloading, LevelFollowsFile
  <2>2. CASE text # Bad
    <3>1. loop'[t] = "apply" /\ fresh'[t] = text
      BY <2>2 DEF Load, Looping, Inv, TypeOK
    <3>2. Reloading' = Reloading /\ t \in Reloading
      BY <1>1, <1>3, <3>1 DEF Reloading
    <3>3. QED
      BY <1>1, <1>3, <3>1, <3>2 DEF Inv, ReloadInv, LevelFollowsFile
  <2>3. QED
    BY <2>1, <2>2
<1>7. QED
  BY <1>4, <1>5, <1>6 DEF Inv

(* ... and puts it into force.                                             *)
LEMMA ApplyInv ==
  ASSUME Inv, exit = "not yet", NEW t \in Tunnels, Apply(t)
  PROVE  Inv'
<1>1. /\ loop[t] = "apply" /\ level' = fresh[t]
      /\ UNCHANGED <<SHUTDOWN, RELOAD, raised, running, fault, fresh, reader, link,
                     text, told, crossed, exit, events>>
      /\ loop'[t] = "loop"
      /\ \A u \in Tunnels : u # t => loop'[u] = loop[u]
  BY DEF Apply, Looping, Inv, TypeOK
<1>2. fresh[t] # Bad
  BY <1>1 DEF Inv, TypeOK
<1>3. TypeOK'
  BY <1>1, <1>2, ZenonT(40) DEF Apply, Looping, Inv, TypeOK
<1>4. ReasonInv'
  BY <1>1, Zenon DEF Inv, ReasonInv, ExitSaysWhy
<1>5. ReloadInv'
  <2> SUFFICES ASSUME ~crossed
               PROVE  /\ \A u, v \in Reloading' : u = v
                      /\ told /\ ~RELOAD =>
                           /\ \A u \in Tunnels : loop'[u] = "apply" => fresh[u] = text
                           /\ level' = text
    BY <1>1 DEF ReloadInv, LevelFollowsFile
  <2>1. Reloading' \subseteq Reloading
    BY <1>1 DEF Reloading
  <2>2. told /\ ~RELOAD => fresh[t] = text
    BY <1>1 DEF Inv, ReloadInv
  <2>3. QED
    BY <1>1, <2>1, <2>2 DEF Inv, ReloadInv
<1>6. QED
  BY <1>3, <1>4, <1>5 DEF Inv

(* The loop returns, with the reason if there is one.                      *)
LEMMA ReturnInv ==
  ASSUME Inv, exit = "not yet", NEW t \in Tunnels, Return(t)
  PROVE  Inv'
<1>1. /\ loop[t] = "bye"
      /\ UNCHANGED <<SHUTDOWN, RELOAD, raised, fault, fresh, reader, link,
                     level, text, told, crossed, exit, events>>
      /\ loop'[t] = IF fault[t] THEN "error" ELSE "ok"
      /\ \A u \in Tunnels : u # t => loop'[u] = loop[u]
  BY DEF Return, Looping, Inv, TypeOK
<1>2. SHUTDOWN
  BY <1>1 DEF Inv, ReasonInv
<1>3. TypeOK'
  BY <1>1, ZenonT(40) DEF Return, Looping, Inv, TypeOK
<1>4. ReasonInv'
  BY <1>1, <1>2, Zenon DEF Inv, ReasonInv, ExitSaysWhy
<1>5. Reloading' = Reloading /\ \A u \in Tunnels : loop'[u] = "apply" => loop[u] = "apply"
  BY <1>1 DEF Reloading
<1>6. ReloadInv'
  BY <1>1, <1>5 DEF Inv, ReloadInv, LevelFollowsFile
<1>7. QED
  BY <1>3, <1>4, <1>6 DEF Inv

(* The process exits when every loop has returned: with an error, if a     *)
(* reader was the first to raise the flag.                                 *)
LEMMA JoinInv ==
  ASSUME Inv, Join
  PROVE  Inv'
<1>1. UNCHANGED <<SHUTDOWN, RELOAD, raised, running, fault, loop, fresh, reader, link,
                  level, text, told, crossed, events>>
  BY DEF Join
<1>2. TypeOK'
  BY <1>1 DEF Join, Inv, TypeOK
<1>3. raised = "reader" => exit' = "error"
  BY DEF Join, Inv, ReasonInv
<1>4. ReasonInv'
  BY <1>1, <1>3 DEF Inv, ReasonInv, ExitSaysWhy
<1>5. ReloadInv'
  BY <1>1 DEF Inv, ReloadInv, Reloading, LevelFollowsFile
<1>6. QED
  BY <1>2, <1>4, <1>5 DEF Inv

(* Every step keeps the invariant.                                         *)
LEMMA StepInv == Inv /\ [Next]_vars => Inv'
<1> SUFFICES ASSUME Inv, [Next]_vars PROVE Inv'
  OBVIOUS
<1>1. ASSUME exit = "not yet", NEW r \in Threads, Reader(r) PROVE Inv'
  <2>1. CASE set_nonblocking(r) \/ read_ok(r) \/ read_failed(r) \/ ReaderEnds(r)
    BY <2>1, ReaderMovesInv DEF set_nonblocking, read_ok, read_failed, ReaderEnds
  <2>2. CASE Store(r)
    BY <1>1, <2>2, StoreInv
  <2>3. QED
    BY <1>1, <2>1, <2>2 DEF Reader
<1>2. ASSUME exit = "not yet", NEW t \in Tunnels, RunLoop(t) PROVE Inv'
  BY <1>2, RunInv, LoadInv, ApplyInv, ReturnInv DEF RunLoop
<1>3. CASE Join
  BY <1>3, JoinInv
<1>4. CASE on_signal
  <2>1. SHUTDOWN' \in BOOLEAN
    BY <1>4, Zenon DEF on_signal
  <2>2. TypeOK'
    BY <1>4, <2>1 DEF on_signal, Inv, TypeOK
  <2>3. ReasonInv'
    BY <1>4 DEF on_signal, Inv, TypeOK, ReasonInv, ExitSaysWhy
  <2>4. ReloadInv'
    BY <1>4 DEF on_signal, Inv, ReloadInv, Reloading, LevelFollowsFile
  <2>5. QED
    BY <2>2, <2>3, <2>4 DEF Inv
<1>5. CASE on_hangup
  <2>1. RELOAD' \in BOOLEAN /\ told' \in BOOLEAN
    BY <1>5, Zenon DEF on_hangup
  <2>2. TypeOK'
    BY <1>5, <2>1 DEF on_hangup, Inv, TypeOK
  <2>3. ReasonInv' /\ ReloadInv'
    BY <1>5 DEF on_hangup, Inv, ReasonInv, ExitSaysWhy, ReloadInv, Reloading, LevelFollowsFile
  <2>4. QED
    BY <2>2, <2>3 DEF Inv
<1>6. CASE Edit
  <2>1. told' \in BOOLEAN
    BY <1>6, Zenon DEF Edit
  <2>2. TypeOK'
    BY <1>6, <2>1 DEF Edit, Inv, TypeOK
  <2>3. ReasonInv' /\ ReloadInv'
    BY <1>6 DEF Edit, Inv, ReasonInv, ExitSaysWhy, ReloadInv, Reloading, LevelFollowsFile
  <2>4. QED
    BY <2>2, <2>3 DEF Inv
<1>7. CASE \/ \E r \in Threads : Flap(r)
           \/ UNCHANGED vars
  <2>1. UNCHANGED <<SHUTDOWN, RELOAD, raised, running, fault, loop, fresh, reader,
                    level, text, told, crossed, exit>>
    BY <1>7 DEF Flap, vars
  <2>2. TypeOK'
    BY <2>1 DEF Inv, TypeOK
  <2>3. QED
    BY <2>1, <2>2 DEF Inv, ReasonInv, ExitSaysWhy, ReloadInv, Reloading, LevelFollowsFile
<1>8. QED
  BY <1>1, <1>2, <1>3, <1>4, <1>5, <1>6, <1>7 DEF Next

------------------------------------------------------------------------------
(* A SIGHUP after the last edit is never lost, however the tunnels' loops  *)
(* take turns at the one flag: once nothing is being reloaded the log      *)
(* level is the file's, unless the file does not load or two reloads       *)
(* overlapped (reload_requested, reload).                                  *)
THEOREM HangupIsHonoured == Spec => []LevelFollowsFile
<1>1. Inv => LevelFollowsFile
  BY DEF Inv, ReloadInv, LevelFollowsFile
<1>2. QED
  BY <1>1, InitInv, StepInv, PTL DEF Spec

(* A process that stops because a reader failed for good exits with an     *)
(* error, for any number of tunnels: none of their loops can see the flag  *)
(* before the reason is in place (after_failure, run, start).              *)
THEOREM FailureIsReported == Spec => []ExitSaysWhy
<1>1. Inv => ExitSaysWhy
  BY DEF Inv, ReasonInv
<1>2. QED
  BY <1>1, InitInv, StepInv, PTL DEF Spec

-----------------------------------------------------------------------------
(* The unit and the check before each start (Doctor).                      *)

(* A start that goes on as doctor left it begins on a host doctor passed.  *)
DoctorInv ==
  /\ unit = "starting" /\ ~changed => doctor_run
  /\ AdmittedStarts

(* What doctor passes is all a start needs, apart from what only a start   *)
(* can find out (doctor::run against Tunnel::start and start).             *)
LEMMA PassedStarts ==
  ASSUME doctor_run, ~start
  PROVE  wrong \cap {"tool fails", "attach", "neighbour", "device"} # {}
<1>1. ASSUME NEW c, Fails(c) # "Fail" PROVE ~c
  BY <1>1 DEF Fails
<1>2. file
  BY <1>1, ZenonT(30) DEF doctor_run, Findings
<1>3. ~Wrong("capabilities") /\ ~Wrong("tun") /\ ~Wrong("default route") /\ ~Wrong("no tool")
  BY <1>1 DEF doctor_run, Findings, HostFindings
<1>4. ~(Wrong("peer route") /\ asks.endpoint)
  BY <1>1, <1>2 DEF doctor_run, Findings, TunnelFindings, check_peer_route
<1>5. Wrong("tool fails") \/ Wrong("attach") \/ Wrong("neighbour") \/ Wrong("device")
  BY <1>3, <1>4 DEF start, tunnel_start, resolve
<1> QED BY <1>5 DEF Wrong

(* Nothing has been started when the unit is first checked.                *)
LEMMA DoctorInitial == DoctorInit => DoctorInv
BY DEF DoctorInit, DoctorInv, AdmittedStarts

(* Every step of systemd, of the operator and of the host preserves it.    *)
LEMMA DoctorStep == DoctorInv /\ [DoctorNext]_doctorVars => DoctorInv'
<1> SUFFICES ASSUME DoctorInv, [DoctorNext]_doctorVars PROVE DoctorInv'
  OBVIOUS
<1>1. ASSUME UNCHANGED <<file, asks, wrong>> PROVE doctor_run => doctor_run'
  <2>1. check_networkd' = check_networkd /\ check_port_free' = check_port_free
    BY <1>1 DEF check_networkd, check_port_free, Fails, Wrong
  <2>2. check_lane' = check_lane /\ check_warp' = check_warp /\ check_return_path' = check_return_path
    BY <1>1 DEF check_lane, check_warp, check_return_path, Fails, Degrades, Wrong
  <2>3. check_peer_route' = check_peer_route /\ check_inner_addresses' = check_inner_addresses
    BY <1>1 DEF check_peer_route, check_inner_addresses, Fails, Warns, Wrong
  <2>4. check_forwarding_allowed' = check_forwarding_allowed
    BY <1>1 DEF check_forwarding_allowed, Fails, Wrong
  <2>5. HostFindings' = HostFindings
    BY <1>1, <2>1 DEF HostFindings, Fails, Warns, Wrong
  <2>6. TunnelFindings' = TunnelFindings
    BY <1>1, <2>1, <2>2, <2>3, <2>4 DEF TunnelFindings, Warns, Wrong
  <2> QED BY <1>1, <2>5, <2>6 DEF doctor_run, Findings, Fails
<1>2. CASE ExecStartPre
  <2>1. unit' = "starting" => doctor_run
    BY <1>2 DEF ExecStartPre, ExitOfDoctor, AfterExit, EXIT_CONFIG
  <2>2. last'.by = "doctor"
    BY <1>2 DEF ExecStartPre
  <2> QED BY <1>1, <1>2, <2>1, <2>2 DEF ExecStartPre, DoctorInv, AdmittedStarts
<1>3. CASE ExecStart
  <2>1. unit' = "waiting" => file /\ ~start
    BY <1>3 DEF ExecStart, ExitOfRun, AfterExit, EXIT_CONFIG
  <2>2. unit' # "starting"
    BY <1>3 DEF ExecStart, AfterExit
  <2>3. unit' = "waiting" /\ ~changed' => doctor_run
    BY <1>3 DEF ExecStart, DoctorInv
  <2> QED BY <1>3, <2>1, <2>2, <2>3, PassedStarts DEF ExecStart, DoctorInv, AdmittedStarts
<1>4. CASE Dies
  <2>1. unit' = "waiting" /\ last'.by = "fault"
    BY <1>4 DEF Dies, AfterExit, EXIT_CONFIG
  <2> QED BY <2>1 DEF DoctorInv, AdmittedStarts
<1>5. CASE RestartSec \/ unit_command
  BY <1>5 DEF RestartSec, unit_command, DoctorInv, AdmittedStarts
<1>6. CASE Edits \/ HostChanges
  BY <1>6 DEF Edits, HostChanges, DoctorInv, AdmittedStarts
<1>7. CASE UNCHANGED doctorVars
  BY <1>1, <1>7 DEF doctorVars, DoctorInv, AdmittedStarts
<1> QED BY <1>2, <1>3, <1>4, <1>5, <1>6, <1>7 DEF DoctorNext

(* What doctor lets through starts: for any number of wrong facts and      *)
(* anything a file may ask for, a start that fails although doctor passed  *)
(* and nothing changed since fails over the firewall tool, an ip command,  *)
(* a next hop that is silent or a device another process holds             *)
(* (doctor::run, Tunnel::start, start, tunnel_unit).                       *)
THEOREM PassedIsEnough == DoctorSpec => []AdmittedStarts
<1>1. DoctorInv => AdmittedStarts
  BY DEF DoctorInv
<1> QED BY <1>1, DoctorInitial, DoctorStep, PTL DEF DoctorSpec
==============================================================================
