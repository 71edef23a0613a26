--------------------------- MODULE MCPanelListener ---------------------------
(* Model values only: two scanners, two calls at a time, a few streams and
   sockets are sets the configuration names. *)
EXTENDS PanelListener
=============================================================================
