------------------------------- MODULE MCWebSocket -------------------------------
(* Instances of WebSocket for TLC. *)
EXTENDS WebSocket

Msg(op, final, size) == [op |-> op, final |-> final, size |-> size]

\* A frame of the client's above the limit, with the longest form of the length, and a ping
\* of the server's, with the middle one.  Closing frames have the short one.
Talk == [client |-> <<Msg("Text", FALSE, 3)>>, server |-> <<Msg("Ping", TRUE, 1)>>]

\* Masked or not, so that each end takes it for a frame or refuses it.
Empty == [op : {"Text"}, final : {TRUE}, masked : BOOLEAN, code : {7}, size : {0}, keys : {{}}]
================================================================================
