------------------------------ MODULE Kubectl ------------------------------
(***************************************************************************)
(* The configuration of kubectl, which the commands of                     *)
(* watchdog/scripts/network-utilities.py switch from one cluster to        *)
(* another before they use it.                                             *)
(***************************************************************************)
CONSTANT Cluster     \* contexts of kubectl
VARIABLE current     \* the one it acts on

use_cluster(ctx) == current' = ctx
=============================================================================
