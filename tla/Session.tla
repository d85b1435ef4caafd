------------------------------ MODULE Session ------------------------------
(***************************************************************************)
(* What the TCP client promises its user: one session at a time, which is  *)
(* set up by the WK_UP key, connected by the server, switched to uploading *)
(* by a "start" and back by the KEY1 key, and ended by the server closing. *)
(***************************************************************************)
VARIABLE session

Init == session = "idle"

Connect   == session = "idle" /\ session' = "connecting"
Establish == session = "connecting" /\ session' = "connected"
Start     == session = "connected" /\ session' = "uploading"
Pause     == session = "uploading" /\ session' = "connected"
Close     == session \in {"connected", "uploading"} /\ session' = "idle"

Next == Connect \/ Establish \/ Start \/ Pause \/ Close

Spec == Init /\ [][Next]_session
=============================================================================
