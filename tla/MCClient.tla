------------------------------- MODULE MCClient -------------------------------
(* Small instances of AllpowersClient for TLC. *)
EXTENDS AllpowersClient

CONSTANTS maint, svc1

(* The maintenance task polls, keeps settings alive and reconnects; a service
   call changes an output. *)
AllCalls == [p \in Callers |->
    IF p = maint THEN {"keepalive", "status", "reconnect"} ELSE {"output"}]

(* Outputs take two values and may be reported with unknown flag bits; the
   settings report the revision that authorizes writes. *)
Packet(g, x, ok, rev) ==
    [group |-> g, value |-> x, plausible |-> ok, revision |-> rev]
CONSTANTS r1, r2
OutputPackets ==
    {Packet("output", x, ok, "unverified") : x \in {r1, r2}, ok \in BOOLEAN}
        \cup {Packet("settings", r1, TRUE, "verified")}

Versions(o, s) == [g \in Groups |-> IF g = "output" THEN o ELSE s]
NoVersions == Versions(0, 0)

-----------------------------------------------------------------------------
(* The instance on which commands, packets and confirmations meet. *)
CommandCalls == [p \in Callers |->
    IF p = maint THEN {"keepalive", "reconnect"} ELSE {"output"}]
OutputVersions == Versions(3, 1)

(* The state constraint of the run.  Whoever may run, an output is reported at  *)
(* most once; beyond that, reports of a first session confirm, contradict,      *)
(* revert and age while the maintenance task rests and has left nothing behind. *)
FewReports ==
    \/ version["output"] = 0
    \/ /\ version["output"] = 1 /\ value["output"] = r1
       /\ plausible["output"] /\ fresh["output"]
MaintenanceRests ==
    /\ pc[maint] = "idle" /\ client = 1
    /\ version["settings"] # 0 /\ blocked["settings"] = 0 /\ txn["settings"] = NoTxn
OneAtATime == FewReports \/ MaintenanceRests
=============================================================================
