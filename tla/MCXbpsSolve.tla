----------------------------- MODULE MCXbpsSolve -----------------------------
(***************************************************************************)
(* xbps-solve over the universes of MCSolver's liveness run.  The option  *)
(* lists: settings and a letter the switch has no case for (the one list  *)
(* that reaches the solve: options that only set values all lead to the  *)
(* same solve); -h after a setting; -V; and an unknown option.            *)
(***************************************************************************)
EXTENDS XbpsSolve, MCSolver

MCArgvs == {<<"r", "R", "x">>, <<"d", "h">>, <<"V">>, <<"?">>}
=============================================================================
