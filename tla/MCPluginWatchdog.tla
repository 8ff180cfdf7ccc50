--------------------------- MODULE MCPluginWatchdog ---------------------------
(***************************************************************************)
(* PluginWatchdog for TLC: a device, or an MCU adapter, and its threads.    *)
(***************************************************************************)
EXTENDS PluginWatchdog
=============================================================================
