-------------------------- MODULE MCServiceLifecycle --------------------------
(***************************************************************************)
(* Instances of ServiceLifecycle for TLC.                                  *)
(***************************************************************************)
EXTENDS ServiceLifecycle

CONSTANTS ip1, ip2

\* With and without the others, who can keep a waiter waiting.
EveryFault == {Faults, Faults \ {"powerOff", "outsiders"}}

NoFault == {{}}
===============================================================================
