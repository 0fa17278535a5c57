------------------------------- MODULE Daemon -------------------------------
(***************************************************************************)
(* crates/utils/src/daemon.rs: how the node, the sequencer and the prover  *)
(* start in the background and are stopped through their PID file.  A      *)
(* start is a process of Procs, whose number is its PID.  What the process *)
(* does once it runs is in NodeProcess.                                    *)
(*                                                                         *)
(* The crate daemonize is external: it opens the PID file, locks that file *)
(* (not that name: an unlinked file keeps its lock) and writes the PID.  A *)
(* lock ends with its process.                                             *)
(***************************************************************************)
EXTENDS Naturals

CONSTANTS
  Procs,        \* the PIDs, in the order of the starts
  None,
  MaxOverlaps   \* bound: commands given while another one is still at work

Programs == {"node", "sequencer", "prover"}

\* The options of the command line that the start depends on.
Options == [force : BOOLEAN, no_daemon : BOOLEAN]

VARIABLES
  program,  \* which of the three binaries this data directory belongs to
  mem,      \* what each process has in memory, its options among them
  at,       \* where each process is
  pidFile,  \* the file: who locked it, and the PID in it
  stopper,  \* the PID a running stop command waits for
  cli,      \* a get-pub-key command is writing a key (see NodeProcess)
  overlaps  \* how many commands were given before the one before had come to rest

daemonVars == <<program, mem, at, pidFile, stopper, cli, overlaps>>

is_pid_running(p) == p # None /\ at[p] \notin {"idle", "ended"}

\* None stands for an error as well: no file, or one with no number in it.
read_pid_from_file == IF pidFile = None THEN None ELSE pidFile.pid

\* A process that has not started, or has ended, has nothing in memory.
Fresh == [opts |-> [force |-> FALSE, no_daemon |-> FALSE], key |-> None, seq |-> 0,
          dial |-> {}, peers |-> {}, health |-> "off"]

GotoWith(p, there, m) ==
  /\ at' = [at EXCEPT ![p] = there]
  /\ mem' = [mem EXCEPT ![p] = IF there = "ended" THEN Fresh ELSE m]

Goto(p, there) == GotoWith(p, there, mem[p])

\* No process is starting or shutting down and no command is at work.
Settled ==
  /\ stopper = None /\ ~cli
  /\ \A p \in Procs : at[p] \in {"idle", "serving", "ended"}

Commanded ==
  \/ Settled /\ UNCHANGED overlaps
  \/ ~Settled /\ overlaps < MaxOverlaps /\ overlaps' = overlaps + 1

\* The commands were given one at a time.
Calm == overlaps = 0

DaemonInit ==
  /\ program \in Programs
  /\ mem = [p \in Procs |-> Fresh]
  /\ at = [p \in Procs |-> "idle"]
  /\ pidFile = None
  /\ stopper = None
  /\ cli = FALSE
  /\ overlaps = 0

Begin(p, o, there) ==
  /\ at[p] = "idle"
  /\ \A q \in Procs : q < p => at[q] # "idle"
  /\ Settled \/ \E q \in Procs : q > p   \* bound: the last start does not overlap,
  /\ overlaps < MaxOverlaps              \*        and none follows the last overlap
  /\ GotoWith(p, there, [Fresh EXCEPT !.opts = o])
  /\ Commanded
  /\ UNCHANGED <<program, cli, pidFile, stopper>>

\* The three main functions.  The node and the sequencer look at their ports first.
NodeMain(p, o) == program = "node" /\ Begin(p, o, "validating")
SequencerMain(p, o) == program = "sequencer" /\ Begin(p, o, "validating")
ProverMain(p, o) == program = "prover" /\ ~o.force /\ Begin(p, o, "starting")

Launch(p, o) == NodeMain(p, o) \/ SequencerMain(p, o) \/ ProverMain(p, o)

\* A start with --no-daemon leaves the PID file alone.
Preflight_Unfiltered(p) ==
  /\ at[p] = "starting"
  /\ Goto(p, IF mem[p].opts.no_daemon THEN "main" ELSE "unlinking")
  /\ UNCHANGED <<program, cli, pidFile, stopper, overlaps>>

Preflight(p) ==
  /\ at[p] = "starting"
  /\ Goto(p, IF mem[p].opts.no_daemon THEN "main"
             ELSE IF is_pid_running(read_pid_from_file) THEN "ended"  \* AlreadyRunning
             ELSE "unlinking")
  /\ UNCHANGED <<program, cli, pidFile, stopper, overlaps>>

RemoveStale(p) ==
  /\ at[p] = "unlinking"
  /\ pidFile' = None
  /\ Goto(p, "opening")
  /\ UNCHANGED <<program, cli, stopper, overlaps>>

OpenPidFile(p) ==
  /\ at[p] = "opening"
  /\ IF pidFile # None /\ is_pid_running(pidFile.lock)
     THEN Goto(p, "ended") /\ UNCHANGED pidFile
     ELSE /\ Goto(p, "forked")
          /\ pidFile' = [lock |-> p, pid |-> IF pidFile = None THEN None ELSE pidFile.pid]
  /\ UNCHANGED <<program, cli, stopper, overlaps>>

\* The write goes to the file p has locked, even if that has no name any more.
WritePid(p) ==
  /\ at[p] = "forked"
  /\ pidFile' = IF pidFile # None /\ pidFile.lock = p THEN [pidFile EXCEPT !.pid = p] ELSE pidFile
  /\ Goto(p, "main")
  /\ UNCHANGED <<program, cli, stopper, overlaps>>

\* The places of a process that has installed its signal handlers and has
\* been told to end.
Closing == {"cancelled", "waiting", "storing", "saving", "draining"}

\* SIGINT and SIGTERM end a process that has not installed its handlers yet
\* (wait_for_shutdown_signal) and are not noticed twice.
Interrupted(p) ==
  CASE at[p] = "serving" -> "cancelled"
    [] at[p] \in Closing -> at[p]
    [] OTHER -> "ended"

\* stop_daemonized sends SIGINT and then waits for the process to go.
Stop ==
  /\ stopper = None
  /\ is_pid_running(read_pid_from_file)
  /\ stopper' = read_pid_from_file
  /\ Goto(read_pid_from_file, Interrupted(read_pid_from_file))
  /\ Commanded
  /\ UNCHANGED <<program, cli, pidFile>>

\* The process is gone, or PROCESS_KILL_TIMEOUT_SEC have passed: SIGKILL.
StopReturns ==
  /\ stopper # None
  /\ Goto(stopper, "ended")
  /\ stopper' = None
  /\ pidFile' = None
  /\ UNCHANGED <<program, cli, overlaps>>

\* A signal from elsewhere, and a crash or SIGKILL at any point.
Signal(p) ==
  /\ is_pid_running(p)
  /\ Goto(p, Interrupted(p))
  /\ UNCHANGED <<program, cli, pidFile, stopper, overlaps>>

Crash(p) ==
  /\ is_pid_running(p)
  /\ Goto(p, "ended")
  /\ UNCHANGED <<program, cli, pidFile, stopper, overlaps>>

DaemonStep(p) ==
  Preflight(p) \/ RemoveStale(p) \/ OpenPidFile(p) \/ WritePid(p)
=============================================================================
