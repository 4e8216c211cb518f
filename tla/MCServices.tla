----------------------------- MODULE MCServices -----------------------------
(***************************************************************************)
(* The long-running programs that accompany a testnet's daemons: the       *)
(* puppeteer, the faucet, the sidecar, the user agent and the watchdog's   *)
(* loop.  They share no state, so a behaviour of all of them is a shuffle  *)
(* of one of each: `service' names the one whose steps are looked at, and  *)
(* the others stay as they start.                                          *)
(***************************************************************************)
EXTENDS Puppeteer, Faucet, Sidecar, UserAgent, WatchdogLoop

VARIABLE service

\* Three checks whose periods have the ratios of the ten minutes, half hour
\* and hour of the real ones.
MCCheck == {"node_status", "cluster_crashes", "seed_list_up"}
MCfns == <<"cluster_crashes", "node_status", "seed_list_up">>
MCPeriod == [c \in MCCheck |-> CASE c = "node_status" -> 1
                                 [] c = "cluster_crashes" -> 3
                                 [] c = "seed_list_up" -> 6]

Init ==
  /\ service \in {"puppeteer", "faucet", "sidecar", "agent", "watchdog"}
  /\ PuppeteerInit /\ FaucetInit /\ SidecarInit /\ AgentInit /\ main
  /\ service # "faucet" => requester = [r \in Request |-> CHOOSE u \in User : TRUE]
  /\ service # "sidecar" => syncStatus = "BOOTSTRAP" /\ blockchainLength = 1

Next ==
  /\ UNCHANGED service
  /\ \/ /\ service = "puppeteer" /\ PuppeteerNext
        /\ UNCHANGED <<faucetVars, sidecarVars, agentVars, loopVars>>
     \/ /\ service = "faucet" /\ FaucetNext
        /\ UNCHANGED <<puppeteerVars, sidecarVars, agentVars, loopVars>>
     \/ /\ service = "sidecar" /\ SidecarNext
        /\ UNCHANGED <<puppeteerVars, faucetVars, agentVars, loopVars>>
     \/ /\ service = "agent" /\ AgentNext
        /\ UNCHANGED <<puppeteerVars, faucetVars, sidecarVars, loopVars>>
     \/ /\ service = "watchdog" /\ LoopNext
        /\ UNCHANGED <<puppeteerVars, faucetVars, sidecarVars, agentVars>>

\* The fairness of each service, for the one that runs.
Runs(s) == service = s

Fairness ==
  /\ WF_puppeteerVars(Runs("puppeteer") /\ Script)
  /\ WF_puppeteerVars(Runs("puppeteer") /\ sh_returns)
  /\ WF_puppeteerVars(Runs("puppeteer") /\ mina = "terminating" /\ DaemonDies)
  /\ WF_puppeteerVars(Runs("puppeteer") /\ mina = "down" /\ ChildExits)
  /\ \A r \in Request :
       WF_faucetVars(Runs("faucet") /\ stage[r] # "paying" /\ (Proceeds(r) \/ Raises(r)))
  /\ WF_sidecarVars(Runs("sidecar") /\ wake)
  /\ WF_agentVars(Runs("agent") /\ agent_pc \notin Calling /\ Agent)
  /\ WF_loopVars(Runs("watchdog") /\ Tick)
  /\ WF_loopVars(Runs("watchdog") /\ calls)

Spec ==
  /\ Init
  /\ [][Next]_<<service, puppeteerVars, faucetVars, sidecarVars, agentVars, loopVars>>
  /\ Fairness

-----------------------------------------------------------------------------
\* No failure stops a service for good: requests of a start, stops that began,
\* requests with a reaction, uploads to a synced node, batches and checks all
\* come to their end or go on, as long as no call outside waits for ever.
ServicesGoOn ==
  /\ StartIsServed /\ StopEnds /\ ReactionEndsRequest
  /\ UploadsGoOn /\ BatchesGoOn /\ ChecksGoOn
=============================================================================
