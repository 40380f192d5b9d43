---------------------------- MODULE MCDeliveries ----------------------------
(* Integrations for TLC: two Discord channels, which share a pause.  A      *)
(* webhook is one that never has to wait for it.                            *)
EXTENDS Deliveries

Channels == {"discord1", "discord2"}
=============================================================================
