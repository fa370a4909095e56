------------------------------- MODULE MCDaemon -------------------------------
(***************************************************************************)
(* Two daemons over one catalog, two sources, leases of a second and a     *)
(* half on a clock that ticks twice a second.                              *)
(***************************************************************************)
EXTENDS Daemon

MCSource == {"alpha", "beta"}
MCOrder == <<"alpha", "beta">>
================================================================================
