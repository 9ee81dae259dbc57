------------------------ MODULE EventSourceContract -------------------------
(***************************************************************************)
(* What StreamingTransport relies on when it owns an EventSourceClient:    *)
(* connected once, it alternates between connecting and open; a 204 or a   *)
(* fatal status ends it for good, and so does close.  StreamingClient      *)
(* steps its streams exactly so; module EventSource implements it.         *)
(***************************************************************************)
VARIABLE state

States == {"none", "connecting", "open", "ended", "closed"}

Init == state = "none"

Connect == state = "none" /\ state' = "connecting"
Open == state = "connecting" /\ state' = "open"
Break == state = "open" /\ state' = "connecting"
End == state = "connecting" /\ state' = "ended"
Close == state # "none" /\ state' = "closed"

Next == Connect \/ Open \/ Break \/ End \/ Close

Spec == Init /\ [][Next]_state
=============================================================================
