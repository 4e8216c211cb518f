---------------------------- MODULE TestnetNodes ----------------------------
(* The nodes of a testnet as the watchdog knows them. *)
CONSTANTS
  Peer,    \* nodes that may answer
  Seeds    \* sequence of the seeds' pods, through which they are asked
=============================================================================
