------------------------------- MODULE Process -------------------------------
(***************************************************************************)
(* The threads of one process and the flags they share: Tunnel::run and    *)
(* the two reading threads of each tunnel, read_failed and read_ok, the    *)
(* signal handlers, reload (tunnel.rs), and the join at the end of start   *)
(* (main.rs).  SHUTDOWN and RELOAD belong to the process, `running` and    *)
(* `fault` to a tunnel.  A reader's failure that ends the tunnel makes     *)
(* three stores, one at a time, while the other threads go on.             *)
(***************************************************************************)
EXTENDS Integers, Sequences

CONSTANTS Tunnels,
          Threads,            \* the readers: a tunnel and a way, "out" or "in"
          Batched,            \* the tunnels whose datapath is batched
          MaxEvents           \* bounds the edits and the link changes

ASSUME ProcessAssumption == Threads \subseteq Tunnels \X {"out", "in"}

VARIABLES SHUTDOWN, RELOAD,   \* the process's flags
          raised,             \* who raised SHUTDOWN first
          running, fault,     \* by tunnel
          loop,               \* where each tunnel's run loop is
          fresh,              \* the log level its reload has read
          reader,             \* where each reading thread is
          link,               \* what each thread reads from
          level, text,        \* the log level, in force and in the file
          told,               \* a SIGHUP came after the last edit
          crossed,            \* two tunnels' reloads overlapped
          exit,               \* how the process ended
          events

vars == <<SHUTDOWN, RELOAD, raised, running, fault, loop, fresh, reader, link,
          level, text, told, crossed, exit, events>>

Bad == 0                      \* a file that does not load

Init ==
  /\ SHUTDOWN = FALSE /\ RELOAD = FALSE /\ raised = "nobody"
  /\ running = [t \in Tunnels |-> TRUE] /\ fault = [t \in Tunnels |-> FALSE]
  /\ loop = [t \in Tunnels |-> "loop"] /\ fresh = [t \in Tunnels |-> Bad]
  /\ reader = [r \in Threads |-> IF r[1] \in Batched /\ r[2] = "out" THEN "start" ELSE "reads"]
  /\ link = [r \in Threads |-> "up"]
  /\ level = 1 /\ text = 1 /\ told = TRUE /\ crossed = FALSE
  /\ exit = "not yet" /\ events = 0

------------------------------------------------------------------------------
(* The reading threads.                                                    *)
Reading(r, next) == reader' = [reader EXCEPT ![r] = next]

(* tun_to_wire_batched makes the device non-blocking first, and returns if *)
(* it cannot.                                                              *)
set_nonblocking(r) ==
  /\ reader[r] = "start"
  /\ \E next \in {"reads", "ended"} : Reading(r, next)
  /\ UNCHANGED <<SHUTDOWN, RELOAD, raised, running, fault, loop, fresh, link,
                 level, text, told, crossed, exit, events>>

read_ok(r) ==
  /\ reader[r] = "outage" /\ link[r] = "up"
  /\ Reading(r, "reads")
  /\ UNCHANGED <<SHUTDOWN, RELOAD, raised, running, fault, loop, fresh, link,
                 level, text, told, crossed, exit, events>>

(* AfterFailure::Wait, and the first store of AfterFailure::Stop.          *)
read_failed(r) ==
  /\ reader[r] \in {"reads", "outage"}
  /\ \/ link[r] = "down" /\ reader[r] # "outage" /\ Reading(r, "outage")
     \/ link[r] = "broken" /\ Reading(r, "stop1")
  /\ UNCHANGED <<SHUTDOWN, RELOAD, raised, running, fault, loop, fresh, link,
                 level, text, told, crossed, exit, events>>

\* Mutant of Stores: the reason is written down after the flags are raised.
StoresLate == <<"SHUTDOWN", "running", "fault">>

\* Mutant of Stores: the failed reader stops its own tunnel only.
StoresOwn == <<"fault", "running", "running">>

Stores == <<"fault", "SHUTDOWN", "running">>

(* One store of AfterFailure::Stop.                                        *)
Store(r) ==
  \E i \in 1 .. 3 :
    /\ reader[r] = <<"stop1", "stop2", "stop3">>[i]
    /\ Reading(r, <<"stop2", "stop3", "ended">>[i])
    /\ fault' = IF Stores[i] = "fault" THEN [fault EXCEPT ![r[1]] = TRUE] ELSE fault
    /\ SHUTDOWN' = (SHUTDOWN \/ Stores[i] = "SHUTDOWN")
    /\ raised' = IF Stores[i] = "SHUTDOWN" /\ raised = "nobody" THEN "reader" ELSE raised
    /\ running' = IF Stores[i] = "running" THEN [running EXCEPT ![r[1]] = FALSE] ELSE running
    /\ UNCHANGED <<RELOAD, loop, fresh, link, level, text, told, crossed, exit, events>>

(* A thread that comes back from its read finds its tunnel stopped.        *)
ReaderEnds(r) ==
  /\ reader[r] \in {"reads", "outage"} /\ ~running[r[1]]
  /\ Reading(r, "ended")
  /\ UNCHANGED <<SHUTDOWN, RELOAD, raised, running, fault, loop, fresh, link,
                 level, text, told, crossed, exit, events>>

------------------------------------------------------------------------------
(* Tunnel::run.                                                            *)
Looping(t, next) == loop' = [loop EXCEPT ![t] = next]

Reloading == {t \in Tunnels : loop[t] \in {"load", "apply"}}

reload_requested(t) == RELOAD /\ RELOAD' = FALSE

\* Mutant of run: the loop looks at its tunnel's flag only.
RunAlone(t) ==
  /\ loop[t] = "loop"
  /\ \/ /\ running[t] /\ reload_requested(t)
        /\ Looping(t, "load") /\ crossed' = (crossed \/ Reloading # {})
     \/ ~running[t] /\ Looping(t, "bye") /\ UNCHANGED <<RELOAD, crossed>>
  /\ UNCHANGED <<SHUTDOWN, raised, running, fault, fresh, reader, link, level, text, told, exit, events>>

(* One round of the loop: the flags, a sleep, the reload flag.             *)
run(t) ==
  /\ loop[t] = "loop"
  /\ \/ /\ running[t] /\ ~SHUTDOWN /\ reload_requested(t)
        /\ Looping(t, "load") /\ crossed' = (crossed \/ Reloading # {})
     \/ /\ ~running[t] \/ SHUTDOWN
        /\ Looping(t, "bye") /\ UNCHANGED <<RELOAD, crossed>>
  /\ UNCHANGED <<SHUTDOWN, raised, running, fault, fresh, reader, link,
                 level, text, told, exit, events>>

(* reload: the file is read; one that does not load changes nothing.       *)
Load(t) ==
  /\ loop[t] = "load"
  /\ IF text = Bad THEN Looping(t, "loop") /\ UNCHANGED fresh
     ELSE Looping(t, "apply") /\ fresh' = [fresh EXCEPT ![t] = text]
  /\ UNCHANGED <<SHUTDOWN, RELOAD, raised, running, fault, reader, link,
                 level, text, told, crossed, exit, events>>

\* Mutant of Apply: the request is cleared when it has been served.
ApplyClears(t) ==
  /\ loop[t] = "apply" /\ level' = fresh[t] /\ Looping(t, "loop") /\ RELOAD' = FALSE
  /\ UNCHANGED <<SHUTDOWN, raised, running, fault, fresh, reader, link,
                 text, told, crossed, exit, events>>

(* ... and what may change on a running tunnel is put into force.          *)
Apply(t) ==
  /\ loop[t] = "apply" /\ level' = fresh[t] /\ Looping(t, "loop")
  /\ UNCHANGED <<SHUTDOWN, RELOAD, raised, running, fault, fresh, reader, link,
                 text, told, crossed, exit, events>>

(* say_goodbye, stop, and what the loop returns: the reason if there is    *)
(* one by then.                                                            *)
Return(t) ==
  /\ loop[t] = "bye"
  /\ running' = [running EXCEPT ![t] = FALSE]
  /\ Looping(t, IF fault[t] THEN "error" ELSE "ok")
  /\ UNCHANGED <<SHUTDOWN, RELOAD, raised, fault, fresh, reader, link,
                 level, text, told, crossed, exit, events>>

(* start joins every run loop, tears down and exits; the blocked threads   *)
(* go with the process.                                                    *)
Join ==
  /\ exit = "not yet" /\ \A t \in Tunnels : loop[t] \in {"ok", "error"}
  /\ exit' = IF \E t \in Tunnels : loop[t] = "error" THEN "error" ELSE "ok"
  /\ UNCHANGED <<SHUTDOWN, RELOAD, raised, running, fault, loop, fresh, reader, link,
                 level, text, told, crossed, events>>

------------------------------------------------------------------------------
(* Outside: signals, an operator's editor, and the links.                  *)
on_signal ==
  /\ SHUTDOWN' = TRUE /\ raised' = IF raised = "nobody" THEN "signal" ELSE raised
  /\ UNCHANGED <<RELOAD, running, fault, loop, fresh, reader, link,
                 level, text, told, crossed, exit, events>>

on_hangup ==
  /\ RELOAD' = TRUE /\ told' = TRUE
  /\ UNCHANGED <<SHUTDOWN, raised, running, fault, loop, fresh, reader, link,
                 level, text, crossed, exit, events>>

Edit ==
  /\ events < MaxEvents /\ events' = events + 1
  /\ text' \in {Bad, 1, 2} \ {text} /\ told' = FALSE
  /\ UNCHANGED <<SHUTDOWN, RELOAD, raised, running, fault, loop, fresh, reader, link,
                 level, crossed, exit>>

Flap(r) ==
  /\ events < MaxEvents /\ events' = events + 1
  /\ link[r] # "broken"
  /\ \E state \in {"up", "down", "broken"} \ {link[r]} : link' = [link EXCEPT ![r] = state]
  /\ UNCHANGED <<SHUTDOWN, RELOAD, raised, running, fault, loop, fresh, reader,
                 level, text, told, crossed, exit>>

Reader(r) == set_nonblocking(r) \/ read_ok(r) \/ read_failed(r) \/ Store(r) \/ ReaderEnds(r)
RunLoop(t) == run(t) \/ Load(t) \/ Apply(t) \/ Return(t)

Next ==
  /\ exit = "not yet"
  /\ \/ \E r \in Threads : Reader(r) \/ Flap(r)
     \/ \E t \in Tunnels : RunLoop(t)
     \/ Join \/ on_signal \/ on_hangup \/ Edit

(* Every thread is scheduled: the run loops wake on a tick, and a reader   *)
(* whose read has failed is running.                                       *)
Fairness ==
  /\ \A t \in Tunnels : WF_vars(exit = "not yet" /\ RunLoop(t))
  /\ \A r \in Threads : WF_vars(exit = "not yet" /\ Reader(r))
  /\ WF_vars(Join)

Spec == Init /\ [][Next]_vars /\ Fairness

------------------------------------------------------------------------------
(* A process that stops because a reader failed for good exits with an     *)
(* error, which is what has it restarted: the reason is in place before    *)
(* any run loop can see the flag.                                          *)
ExitSaysWhy == exit # "not yet" /\ raised = "reader" => exit = "error"

(* A SIGHUP after the last edit is never lost: once nothing is being       *)
(* reloaded the log level is the file's, unless the file does not load.    *)
(* Two tunnels' reloads that overlap may apply an older file last.         *)
LevelFollowsFile ==
  told /\ ~RELOAD /\ Reloading = {} /\ ~crossed /\ text # Bad => level = text

(* Whoever raises the flag, every run loop returns and the process ends.   *)
ShutdownEnds == SHUTDOWN ~> exit # "not yet"

(* A read that fails for good ends the process, however the other tunnels  *)
(* and threads are doing.                                                  *)
BrokenEnds ==
  \A r \in Threads : (link[r] = "broken" /\ reader[r] = "reads") ~> exit # "not yet"

(* The claim of after_failure: no thread stops reading while the process   *)
(* stays up.                                                               *)
NoneDeaf == \A r \in Threads : reader[r] = "ended" => SHUTDOWN \/ ~running[r[1]]
==============================================================================
