---------------------------- MODULE MCMaintenance ----------------------------
(* Small instances of MaintenanceLoop for TLC: two households, one that keeps  *)
(* its settings alive and changes them, one that polls only, refreshes by      *)
(* hand and changes its options.  They share the connection and the loop, and  *)
(* one run explores them side by side.                                         *)
EXTENDS MaintenanceLoop

Choice(status, stale, watchdog, settings, on, interval) ==
    [status_interval |-> status, watchdog |-> watchdog, keepalive |-> on,
     keepalive_interval |-> interval,
     stale |-> [g \in Groups |-> IF g = "status" THEN stale ELSE settings]]

Plain == Choice(2, 3, 4, 4, FALSE, 3)
Slow  == Choice(3, 4, 5, 4, FALSE, 3)
Kept  == Choice(2, 3, 7, 4, TRUE, 3)

AllChoices == {Plain, Slow, Kept}
Polling    == {Plain, Slow}

(* What happens to the one that keeps settings alive, and to the other. *)
KeepingNext ==
    /\ opts = Kept
    /\ \E v \in Verdicts, m \in BOOLEAN : ReceiveSettings(v, m)

PollingNext ==
    /\ opts \in Polling
    /\ \/ \E i \in Inputs : Receive(i)
       \/ \E o \in Polling : ApplyOptions(o)

HouseholdNext == \/ Tick \/ Connecting \/ Maintaining \/ KeepingNext \/ PollingNext
                 \/ ChangeSettings \/ ChangeOutput \/ Refresh \/ UserWritten \/ UserFails
HouseholdSpec == Init /\ [][HouseholdNext]_vars

(* What still matters of a state.  Times are only compared, so their distance  *)
(* from now is enough, and of a time that nothing reads before it is set again *)
(* nothing is kept: the runs of all lengths have finitely many of these.       *)
Age(at)   == IF at = 0 THEN 0 ELSE 1 + now - at
Until(at) == IF at < now THEN 0 ELSE 1 + at - now

Referred == \/ seenAt["status"] = 0 \/ packetAt = 0
            \/ opts.keepalive /\ keepaliveAt = 0 /\ seenAt["settings"] = 0

Relevant ==
    <<opts, phase, linkUp, dropping, initial, verdict, txn, reported, published,
      pc, wakeup, user, Age(userAt), IF Asking \/ phase = "closing" THEN ahead ELSE 0,
      Asking /\ phase = "closing" /\ behind, Age(attemptAt),
      IF Referred THEN Age(connectedAt) ELSE 0,
      IF LockFree THEN 0 ELSE Until(ioBy),
      IF phase = "down" THEN <<>>
      ELSE <<Age(seenAt["status"]), Age(seenAt["settings"]), Age(packetAt),
             Age(requestAt), Age(keepaliveAt)>>,
      IF txn \in {"open", "blocked"} THEN 0 ELSE Until(confirmBy),
      IF pc = "wait" /\ timer # 0 THEN Until(timer) ELSE 0,
      IF Asking \/ pc = "keeping" THEN Age(passAt) ELSE 0>>
=============================================================================
