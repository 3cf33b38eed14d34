----------------------------- MODULE CommandGate -----------------------------
(***************************************************************************)
(* What the client promises about control commands (ADR 0011): in each     *)
(* group of controls at most one command is unresolved; it is resolved by  *)
(* a reading that shows what it asked for; a command whose fate is unknown *)
(* closes the gate until the device has reported again; and nothing of a   *)
(* session survives it.                                                    *)
(***************************************************************************)
EXTENDS Naturals

CONSTANTS Groups, Readings, NoReading

VARIABLES
    last,       \* number of the latest session
    session,    \* session in progress, 0 when there is none
    gate,       \* per group: "open", "pending" or "ambiguous"
    want,       \* what the unresolved command asked for
    seen        \* latest reading of the device

vars == <<last, session, gate, want, seen>>

AllOpen == [g \in Groups |-> "open"]
NoWant  == [g \in Groups |-> NoReading]

Init ==
    /\ last = 0 /\ session = 0
    /\ gate = AllOpen /\ want = NoWant
    /\ seen = [g \in Groups |-> NoReading]

OpenSession ==
    /\ session = 0
    /\ last' = last + 1 /\ session' = last + 1
    /\ UNCHANGED <<gate, want, seen>>

CloseSession ==
    /\ session' = 0
    /\ gate' = AllOpen /\ want' = NoWant
    /\ UNCHANGED <<last, seen>>

Resolve(g, outcome) ==
    /\ gate' = [gate EXCEPT ![g] = outcome]
    /\ want' = [want EXCEPT ![g] = NoReading]

(* A command leaves for the device; only an open gate lets it. *)
Submit(g) ==
    /\ session # 0 /\ gate[g] = "open"
    /\ \E x \in Readings : want' = [want EXCEPT ![g] = x]
    /\ gate' = [gate EXCEPT ![g] = "pending"]
    /\ UNCHANGED <<last, session, seen>>

(* The write of a command failed, was cancelled, or its deadline passed. *)
Lose(g) ==
    /\ session # 0 /\ gate[g] \in {"open", "pending"}
    /\ Resolve(g, "ambiguous")
    /\ UNCHANGED <<last, session, seen>>

(* The write of a command returned, and the device shows its effect already. *)
Confirm(g) ==
    /\ gate[g] = "pending" /\ seen[g] = want[g]
    /\ Resolve(g, "open")
    /\ UNCHANGED <<last, session, seen>>

(* The device reports x. *)
Observe(g, x) ==
    /\ session # 0
    /\ seen' = [seen EXCEPT ![g] = x]
    /\ \/ gate[g] \in {"open", "pending"} /\ UNCHANGED <<gate, want>>
       \/ gate[g] = "ambiguous" /\ Resolve(g, "open")
       \/ gate[g] = "pending" /\ x = want[g] /\ Resolve(g, "open")
       \/ gate[g] = "pending" /\ Resolve(g, "ambiguous")
    /\ UNCHANGED <<last, session>>

Next ==
    \/ OpenSession \/ CloseSession
    \/ \E g \in Groups :
           \/ Submit(g) \/ Lose(g) \/ Confirm(g)
           \/ \E x \in Readings : Observe(g, x)

Spec == Init /\ [][Next]_vars
=============================================================================
