------------------------------- MODULE MCEntry -------------------------------
(* Small instances of EntryLifecycle for TLC. *)
EXTENDS EntryLifecycle

AllFaults == {"route", "timeout", "start", "registry", "forward", "unload", "stop",
              "core", "restart"}

RegistryFault == {"registry"}
=============================================================================
