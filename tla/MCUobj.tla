------------------------------- MODULE MCUobj -------------------------------
(* Three commands at a time, on an IDR object and one of the FD class.      *)
EXTENDS Uobj

CONSTANTS c1, c2, c3, idr, fd

MCCmds == {c1, c2, c3}
MCObjs == {idr, fd}
MCFds == {fd}
=============================================================================
