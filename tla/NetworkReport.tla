---------------------------- MODULE NetworkReport ----------------------------
(***************************************************************************)
(* The periodic network report (watchdog/make_report.py, run by the loop   *)
(* of watchdog/main.sh).  A report crawls the nodes through every seed,    *)
(* adds a file of the nodes that answered to those of earlier reports,     *)
(* reads all of them back to count the nodes of several windows of time,   *)
(* and posts a message.                                                    *)
(* An exception of main is caught and posted as a message of its own; one  *)
(* of that post ends the process with an error, and `set -e' the loop.     *)
(***************************************************************************)
EXTENDS TestnetNodes, Naturals, Sequences, SequencesExt, FiniteSets, FiniteSetsExt, Functions

CONSTANTS
  Producers,          \* peer -> keys it produces blocks with
  Accounts,           \* rows of the accounts csv: sequence of [discord, key]
  Windows,            \* windows_in_hours
  Uptimes,            \* uptimes of nodes, in minutes
  discord_char_limit,
  MaxReports, MaxFaults   \* bounds

ASSUME NetworkReportAssumption ==
  /\ discord_char_limit \in Nat /\ discord_char_limit >= 5
  /\ Windows \subseteq Nat /\ Uptimes \subseteq Nat /\ MaxReports \in Nat /\ MaxFaults \in Nat
  /\ \A p \in Peer : "" \notin Producers[p]    \* a public key is not the empty string

VARIABLES
  report_pc, left,                 \* seeds not asked yet
  answered,               \* nodes that answered
  uptimes,                  \* their answers' uptimes, and the list each went to
  files,                    \* time -> content of the peer table's file, a set of nodes or {"torn"}
  windows,                  \* responding_peers_by_window
  online, offline,          \* participants
  message,                  \* length of what was posted last
  now, made, faults

reportVars == <<report_pc, left, answered, uptimes, files, windows, online, offline, message,
          now, made, faults>>

Torn == {"torn"}
MessageLengths == {discord_char_limit - 6, discord_char_limit - 5, discord_char_limit - 4,
                   discord_char_limit + 100}

ReportInit ==
  /\ report_pc = "sleep" /\ left = <<>> /\ answered = {} /\ uptimes = {}
  /\ files = [t \in {} |-> {}] /\ windows = [w \in Windows |-> {}]
  /\ online = {} /\ offline = {} /\ message = 0
  /\ now = 0 /\ made = 0 /\ faults = 0

-----------------------------------------------------------------------------
\* sleep, for some hours, and the next run of make_report.py
main ==
  /\ report_pc = "sleep" /\ made < MaxReports
  /\ report_pc' = "crawl" /\ left' = Seeds /\ made' = made + 1
  /\ now' = now + 1
  /\ answered' = {} /\ uptimes' = {}
  /\ windows' = [w \in Windows |-> {}] /\ online' = {} /\ offline' = {}
  /\ UNCHANGED <<files, message, faults>>

\* The lists of add_resp: a bound in minutes and the hours its list is named for.
UptimeLists == {[below |-> 60, hours |-> 1], [below |-> 3600, hours |-> 6],
                [below |-> 7200, hours |-> 12], [below |-> 14400, hours |-> 24]}

\* The first list whose bound the uptime is below, or uptime_greater_than_24_hour.
UptimeHours(uptime) ==
  LET lists == {l \in UptimeLists : uptime < l.below}
  IN  IF lists = {} THEN 25 ELSE Min({l.hours : l \in lists})

\* add_resp, for the answers of the next seed
add_resp ==
  /\ report_pc = "crawl" /\ left # <<>> /\ left' = Tail(left)
  /\ \E peers \in SUBSET Peer : \E uptime \in Uptimes :
       /\ answered' = answered \cup peers
       /\ uptimes' = uptimes \cup {[minutes |-> uptime, hours |-> UptimeHours(uptime)] : p \in peers}
  /\ UNCHANGED <<report_pc, files, windows, online, offline, message, now, made, faults>>

\* Rows without a key are skipped; the others are grouped by discord name.
discord_to_keys ==
  LET rows == {i \in DOMAIN Accounts : Accounts[i].key # ""}
  IN  [d \in {Accounts[i].discord : i \in rows} |->
         {Accounts[i].key : i \in {j \in rows : Accounts[j].discord = d}}]

ParticipantsOnline(producers) ==
  {d \in DOMAIN discord_to_keys : discord_to_keys[d] \cap producers # {}}

ParticipantsOffline(producers) ==
  {d \in DOMAIN discord_to_keys : discord_to_keys[d] \cap producers = {}}

participants ==
  /\ report_pc = "crawl" /\ left = <<>> /\ report_pc' = "write"
  /\ LET block_producers == UNION {Producers[p] : p \in answered}
     IN  /\ online' = ParticipantsOnline(block_producers)
         /\ offline' = ParticipantsOffline(block_producers)
  /\ UNCHANGED <<left, answered, uptimes, files, windows, message, now, made, faults>>

\* The directory with the new file in it.
WithFile(content) ==
  [t \in DOMAIN files \cup {now} |-> IF t = now THEN content ELSE files[t]]

\* The new file.
write_file ==
  /\ report_pc = "write" /\ report_pc' = "read"
  /\ files' = WithFile(answered)
  /\ UNCHANGED <<left, answered, uptimes, windows, online, offline, message, now, made, faults>>

\* *mutant*: a window holds the files older than it
InWindow_older(t, w) == now - t >= w

InWindow(t, w) == now - t <= w

\* Every file of the directory is parsed, whatever its age.
read_files ==
  /\ report_pc = "read" /\ Torn \notin {files[t] : t \in DOMAIN files} /\ report_pc' = "post"
  /\ windows' = [w \in Windows |-> UNION {files[t] : t \in {u \in DOMAIN files : InWindow(u, w)}}]
  /\ UNCHANGED <<left, answered, uptimes, files, online, offline, message, now, made, faults>>

Truncated(n) ==
  IF n > discord_char_limit - 5 THEN discord_char_limit - 5 + 3 ELSE n

post_report ==
  /\ report_pc = "post" /\ report_pc' = "sleep"
  /\ \E n \in MessageLengths : message' = Truncated(n)
  /\ UNCHANGED <<left, answered, uptimes, files, windows, online, offline, now, made, faults>>

-----------------------------------------------------------------------------
\* Failures: a seed that cannot be reached or answers with something else, a
\* disk that fills up while the file is written, a post that fails.
Fault == faults < MaxFaults /\ faults' = faults + 1

crawl_fails ==
  /\ Fault /\ report_pc = "crawl" /\ report_pc' = "error"
  /\ UNCHANGED <<left, answered, uptimes, files, windows, online, offline, message, now, made>>

write_fails ==
  /\ Fault /\ report_pc = "write" /\ report_pc' = "error"
  /\ files' = WithFile(Torn)
  /\ UNCHANGED <<left, answered, uptimes, windows, online, offline, message, now, made>>

read_fails ==
  /\ report_pc = "read" /\ Torn \in {files[t] : t \in DOMAIN files} /\ report_pc' = "error"
  /\ UNCHANGED <<left, answered, uptimes, files, windows, online, offline, message, now, made, faults>>

post_fails ==
  /\ Fault /\ report_pc = "post" /\ report_pc' = "error"
  /\ UNCHANGED <<left, answered, uptimes, files, windows, online, offline, message, now, made>>

\* The handler posts the trace.
post_error ==
  /\ report_pc = "error" /\ report_pc' = "sleep"
  /\ \E n \in MessageLengths : message' = Truncated(n)
  /\ UNCHANGED <<left, answered, uptimes, files, windows, online, offline, now, made, faults>>

\* The handler's own post raises: exit status 1, and `set -e' ends the loop.
post_error_fails ==
  /\ Fault /\ report_pc = "error" /\ report_pc' = "dead"
  /\ UNCHANGED <<left, answered, uptimes, files, windows, online, offline, message, now, made>>

ReportNext ==
  \/ main \/ add_resp \/ participants \/ write_file \/ read_files \/ post_report
  \/ read_fails \/ post_error
  \/ crawl_fails \/ write_fails \/ post_fails \/ post_error_fails

ReportSpec == ReportInit /\ [][ReportNext]_reportVars

-----------------------------------------------------------------------------
\* The counts of the windows are of the files they name: every node of this
\* report is in each window, a longer window holds what a shorter one does, and
\* nobody is in a window who did not answer a report within it.
WindowsAreConsistent ==
  report_pc = "post" =>
    /\ \A w \in Windows : answered \subseteq windows[w]
    /\ \A v, w \in Windows : v <= w => windows[v] \subseteq windows[w]
    /\ \A w \in Windows : \A p \in windows[w] :
         \E t \in DOMAIN files : p \in files[t] /\ now - t <= w

\* Every participant with a key is online or offline and never both; online
\* are those of whom some answering node produces blocks.
ParticipantsPartition ==
  report_pc = "post" =>
    /\ online \cap offline = {}
    /\ online \cup offline = {Accounts[i].discord : i \in {j \in DOMAIN Accounts : Accounts[j].key # ""}}
    /\ \A i \in DOMAIN Accounts :
         Accounts[i].key \in UNION {Producers[p] : p \in answered} => Accounts[i].discord \in online

\* The lists of a report are in the order of their names: of two answers, from
\* whichever seeds, the one with the longer uptime is never in a list of fewer
\* hours.
UptimesAreOrdered ==
  \A u, v \in uptimes : u.minutes <= v.minutes => u.hours <= v.hours

\* Discord refuses a message longer than the limit: neither the report nor the
\* trace of an error is ever longer.
MessageFits == message <= discord_char_limit

\* A report that is posted tells one consistent story, whatever files earlier
\* reports, finished or interrupted, have left behind.
ReportIsConsistent ==
  WindowsAreConsistent /\ ParticipantsPartition /\ UptimesAreOrdered /\ MessageFits
=============================================================================
