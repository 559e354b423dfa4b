------------------------------ MODULE MCDaemon ------------------------------
(* An instance of Daemon for TLC: the components fall into two kinds. *)
EXTENDS Daemon
MCKinds == {"storcon_db", "launched"}
=============================================================================
