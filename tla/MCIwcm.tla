------------------------------- MODULE MCIwcm -------------------------------
(* One cm_id that listens and one that connects or is created for a request. *)
EXTENDS Iwcm
CONSTANTS i1, i2
=============================================================================
