---------------------------- MODULE RmppContract ----------------------------
(***************************************************************************)
(* What a segmented (RMPP) send promises its two clients: the message is   *)
(* handed to the receiving client at most once and whole, the sending      *)
(* client is told exactly once how its send ended, and it is told success  *)
(* only after the message was handed over.  A send that is reported to     *)
(* have failed may have arrived all the same.                              *)
(***************************************************************************)
CONSTANT Message

VARIABLES
    outcome,    \* "none" before the send, "posted", "success" or "failed"
    delivered   \* what was handed to the receiving client

Init == outcome = "none" /\ delivered = <<>>

Post == outcome = "none" /\ outcome' = "posted" /\ UNCHANGED delivered
Deliver == outcome # "none" /\ delivered = <<>> /\ delivered' = <<Message>> /\ UNCHANGED outcome
Succeed == outcome = "posted" /\ delivered # <<>> /\ outcome' = "success" /\ UNCHANGED delivered
Fail == outcome = "posted" /\ outcome' = "failed" /\ UNCHANGED delivered

Next == Post \/ Deliver \/ Succeed \/ Fail
Spec == Init /\ [][Next]_<<outcome, delivered>>
=============================================================================
