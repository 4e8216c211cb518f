------------------------------ MODULE Puppeteer ------------------------------
(***************************************************************************)
(* The script that stops and starts a daemon inside its container for the  *)
(* integration tests (dockerfiles/puppeteer-context): inactive_loop serves *)
(* a mock page until SIGUSR2 asks for a daemon, active_loop sleeps in      *)
(* signal.pause() until a signal arrives.  A Python handler runs between   *)
(* two bytecodes of the loops, so a signal may meet the script at any of   *)
(* the points `puppeteer_pc' names.  start.sh and stop.sh, which the test  *)
(* framework runs one at a time, send the signal and poll for the          *)
(* daemon-active file.                                                     *)
(***************************************************************************)
EXTENDS Naturals

CONSTANTS
  Child,        \* processes the daemon may fork (prover, verifier, ...)
  MaxCommands   \* bound: runs of start.sh and stop.sh

ASSUME PuppeteerAssumption == MaxCommands \in Nat

VARIABLES
  puppeteer_pc,                        \* where the script is
  active_daemon_request, inactive_daemon_request,
  mina,                      \* the daemon's process
  children,                  \* its forked processes that run
  child_pids,                \* the ones stop_daemon waits for
  file,                      \* daemon-active exists
  client,                    \* the shell script that runs, or "idle"
  commands

script == <<active_daemon_request, inactive_daemon_request, child_pids, file>>
puppeteerVars == <<puppeteer_pc, script, mina, children, client, commands>>

Inactive == {"create", "serve", "sigtimedwait", "check"}
Stopping == {"ps", "wait", "wait_children", "stopped"}
Active == {"touch", "reset", "loop", "pause", "poll", "cleanup"}

PuppeteerInit ==
  /\ puppeteer_pc = "create" /\ mina = "down" /\ children = {} /\ child_pids = {}
  /\ active_daemon_request = FALSE /\ inactive_daemon_request = FALSE
  /\ file = FALSE /\ client = "idle" /\ commands = 0

-----------------------------------------------------------------------------
\* Signals.  sigtimedwait with a timeout of 0 may consume one that arrives
\* meanwhile, and then its handler never runs; pause() returns on any.
Deliver(s) ==
  \/ /\ active_daemon_request' = (active_daemon_request \/ s = "SIGUSR2")
     /\ inactive_daemon_request' = (inactive_daemon_request \/ s = "SIGUSR1")
     /\ puppeteer_pc' = IF puppeteer_pc = "pause" THEN "poll" ELSE puppeteer_pc
     /\ UNCHANGED <<child_pids, file>>
  \/ puppeteer_pc = "sigtimedwait" /\ UNCHANGED <<puppeteer_pc, script>>

\* start.sh and stop.sh
Run(sh, s) ==
  /\ client = "idle" /\ puppeteer_pc # "exited" /\ commands < MaxCommands
  /\ client' = sh /\ commands' = commands + 1
  /\ Deliver(s)
  /\ UNCHANGED <<mina, children>>

start_sh == Run("start", "SIGUSR2")

stop_sh == Run("stop", "SIGUSR1")

sh_returns ==
  /\ client # "idle" /\ file = (client = "start")
  /\ client' = "idle"
  /\ UNCHANGED <<puppeteer_pc, script, mina, children, commands>>

-----------------------------------------------------------------------------
\* The daemon and its children (external).
Fork ==
  /\ mina = "running"
  /\ \E c \in Child \ children : children' = children \cup {c}
  /\ UNCHANGED <<puppeteer_pc, script, mina, client, commands>>

ChildExits ==
  /\ \E c \in children : children' = children \ {c}
  /\ UNCHANGED <<puppeteer_pc, script, mina, client, commands>>

\* A crash, or the end SIGTERM asks for: SIGCHLD is sent.
DaemonDies ==
  /\ mina \in {"running", "terminating"} /\ puppeteer_pc # "exited"
  /\ mina' = "down"
  /\ Deliver("SIGCHLD")
  /\ UNCHANGED <<children, client, commands>>

-----------------------------------------------------------------------------
\* inactive_loop
Goto(p, q) == puppeteer_pc = p /\ puppeteer_pc' = q /\ UNCHANGED <<children, client, commands>>

\* HTTPServer(...); when it raises, log(err) raises in turn and ends the script.
create_server ==
  /\ Goto("create", "serve") \/ Goto("create", "exited")
  /\ UNCHANGED <<script, mina>>

handle_request == Goto("serve", "sigtimedwait") /\ UNCHANGED <<script, mina>>

sigtimedwait == Goto("sigtimedwait", "check") /\ UNCHANGED <<script, mina>>

check_request ==
  /\ UNCHANGED script
  /\ \/ active_daemon_request /\ Goto("check", "touch") /\ mina' = "running"
     \/ ~active_daemon_request /\ Goto("check", "serve") /\ UNCHANGED mina

touch ==
  /\ Goto("touch", "reset") /\ file' = TRUE
  /\ UNCHANGED <<active_daemon_request, inactive_daemon_request, child_pids, mina>>

\* active_daemon_request = False; the mock server is closed
reset ==
  /\ Goto("reset", "loop") /\ active_daemon_request' = FALSE
  /\ UNCHANGED <<inactive_daemon_request, child_pids, file, mina>>

\* active_loop
pause == Goto("loop", "pause") /\ UNCHANGED <<script, mina>>

\* *mutant*: no SIGTERM is sent
poll_no_sigterm ==
  /\ UNCHANGED <<script, mina>>
  /\ \/ mina = "down" /\ Goto("poll", "cleanup")
     \/ mina # "down" /\ inactive_daemon_request /\ Goto("poll", "ps")
     \/ mina # "down" /\ ~inactive_daemon_request /\ Goto("poll", "loop")

\* mina_process.poll(), and stop_daemon up to SIGTERM
poll ==
  /\ UNCHANGED script
  /\ \/ mina = "down" /\ Goto("poll", "cleanup") /\ UNCHANGED mina
     \/ /\ mina # "down" /\ inactive_daemon_request
        /\ Goto("poll", "ps") /\ mina' = "terminating"
     \/ /\ mina # "down" /\ ~inactive_daemon_request
        /\ Goto("poll", "loop") /\ UNCHANGED mina

cleanup_and_exit == Goto("cleanup", "exited") /\ UNCHANGED <<script, mina>>

\* ps --ppid: the children of a dead daemon have another parent.
get_child_processes ==
  /\ Goto("ps", "wait")
  /\ child_pids' = {c \in children : mina # "down"}
  /\ UNCHANGED <<active_daemon_request, inactive_daemon_request, file, mina>>

\* *mutant*: the daemon is not waited for
wait_mina_at_once == Goto("wait", "wait_children") /\ UNCHANGED <<script, mina>>

wait_mina == mina = "down" /\ Goto("wait", "wait_children") /\ UNCHANGED <<script, mina>>

\* The last wait_for_pid returns; daemon-active is removed, mina_process = None.
wait_children ==
  /\ child_pids \cap children = {}
  /\ Goto("wait_children", "stopped")
  /\ file' = FALSE /\ child_pids' = {}
  /\ UNCHANGED <<active_daemon_request, inactive_daemon_request, mina>>

stopped ==
  /\ Goto("stopped", "create") /\ inactive_daemon_request' = FALSE
  /\ UNCHANGED <<active_daemon_request, child_pids, file, mina>>

Script ==
  \/ create_server \/ handle_request \/ sigtimedwait \/ check_request \/ touch
  \/ reset \/ pause \/ poll \/ cleanup_and_exit \/ get_child_processes
  \/ wait_mina \/ wait_children \/ stopped

PuppeteerNext ==
  Script \/ start_sh \/ stop_sh \/ sh_returns \/ Fork \/ ChildExits \/ DaemonDies

\* The script's interpreter is scheduled; the daemon obeys SIGTERM and its
\* children end with it; the shell scripts go on polling.  Nothing says when
\* a daemon crashes or a command is issued.
PuppeteerFairness ==
  /\ WF_puppeteerVars(Script) /\ WF_puppeteerVars(sh_returns)
  /\ WF_puppeteerVars(mina = "terminating" /\ DaemonDies)
  /\ WF_puppeteerVars(mina = "down" /\ ChildExits)

PuppeteerSpec ==
  PuppeteerInit /\ [][PuppeteerNext]_puppeteerVars /\ PuppeteerFairness

-----------------------------------------------------------------------------
PuppeteerTypeOK ==
  /\ puppeteer_pc \in Inactive \cup Active \cup Stopping \cup {"exited"}
  /\ mina \in {"down", "running", "terminating"}
  /\ active_daemon_request \in BOOLEAN /\ inactive_daemon_request \in BOOLEAN
  /\ children \subseteq Child /\ child_pids \subseteq Child
  /\ file \in BOOLEAN /\ client \in {"idle", "start", "stop"}
  /\ commands \in 0..MaxCommands

\* inactive_loop runs only while no daemon does, whatever signals arrive and
\* whenever the daemon crashes: start_daemon never starts a second one.
InactiveMeansStopped == puppeteer_pc \in Inactive => mina = "down" /\ ~file

\* What stop.sh relies on: without daemon-active no daemon runs, except
\* between Popen and touch.
NoFileNoDaemon == ~file /\ puppeteer_pc # "touch" => mina = "down"

\* What the shell scripts and the script itself conclude from daemon-active and
\* from the loop they are in is true of the daemon, whatever signals arrive.
DaemonFileIsTrue == InactiveMeansStopped /\ NoFileNoDaemon

\* A start request that the inactive loop or a stop in progress has noted is
\* served, however many signals arrive in the meantime.
StartIsServed ==
  active_daemon_request /\ puppeteer_pc \in Inactive \cup Stopping
    ~> (file /\ puppeteer_pc = "reset") \/ puppeteer_pc = "exited"

\* A stop that poll has seen ends with daemon-active removed and every listed
\* child of the daemon gone: no wait in stop_daemon is for ever.
StopEnds == puppeteer_pc = "ps" ~> puppeteer_pc = "stopped"

\* The header of the script: "If a SIGUSR1 signal is sent, it will stop this
\* process".
StopIsHeeded == client = "stop" /\ mina = "running" ~> mina = "down"
=============================================================================
