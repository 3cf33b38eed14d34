------------------------------ MODULE MCReconnect ------------------------------
(* Small instances of Reconnect for TLC.  A second is 20 units, so that the    *)
(* jitter of every delay is whole, and the maxima are small multiples of it.   *)
(* One run explores two homes: one where routes fail and the maximum changes,  *)
(* one with the greatest maximum where telemetry stops and the watchdog acts.  *)
EXTENDS Reconnect

Changing == {c \in Caps : \E d \in Caps : c < d}
Routed   == cap \in Changing
Silent   == ~Routed

HomesNext ==
    \/ Start \/ Shutdown \/ Crash
    \/ Loop /\ (Silent => failures' = 0)
    \/ \E changed \in BOOLEAN : Advertise(changed)
    \/ LinkLost \/ LinkLossHeard \/ UserAsks \/ Dropped \/ WriteFails
    \/ StatusArrives \/ StatusAges \/ Update
    \/ Silent /\ WatchdogAsks
    \/ Routed /\ (\E c \in Changing : ApplyOptions(c))

HomesSpec == Init /\ [][HomesNext]_vars
HomesFairSpec == HomesSpec /\ Fairness
=============================================================================
