------------------------------ MODULE Connection ------------------------------
(* The connection as the client's services see it (ConnectionLifecycle,     *)
(* connection.rs): up, being cut by the one task that owns the cleanup      *)
(* (begin_disconnect), or cut.                                              *)

VARIABLE link

LinkInit == link = "up"
LinkType == link \in {"up", "cutting", "cut"}

IsDisconnected == link # "up"

BeginDisconnect == link = "up" /\ link' = "cutting"
=============================================================================
