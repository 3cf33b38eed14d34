-------------------------------- MODULE SetupFlow --------------------------------
(***************************************************************************)
(* The dialogs that make an entry for an address, or move one to another.   *)
(* Each first probes the device over a link of its own                       *)
(* (async_probe_device), and other dialogs go on meanwhile.                   *)
(***************************************************************************)
EXTENDS Naturals

CONSTANTS
    Flows,              \* dialogs open at a time
    Places,             \* Bluetooth addresses
    Entries,            \* config entries there may be
    Nowhere,            \* the address of an entry that does not exist
    NoEntry             \* the entry of a dialog that makes one

SetupAssumption == Nowhere \notin Places /\ NoEntry \notin Entries

VARIABLES
    place,              \* CONF_ADDRESS and unique id of each entry
    flow,               \* what each dialog is about, and how far it is
    links,              \* dialogs whose probe has a link up
    left,               \* history: those whose clean-up failed
    moved               \* history: entries moved to an address that became
                        \* another's while their own dialog was probing

vars == <<place, flow, links, left, moved>>

Probing == {"connect", "subscribe", "request", "await", "unsubscribe", "disconnect", "decide"}

TypeOK ==
    /\ place \in [Entries -> Places \cup {Nowhere}]
    /\ flow \in [Flows -> [pc : Probing \cup {"idle", "form", "done"},
                           entry : Entries \cup {NoEntry}, target : Places \cup {Nowhere},
                           found : BOOLEAN, subscribed : BOOLEAN, ok : BOOLEAN,
                           raced : BOOLEAN]]
    /\ links \subseteq Flows /\ left \subseteq Flows /\ moved \subseteq Entries

(* entry: the one a reconfiguration is about; found: whether the dialog began  *)
(* with an advertisement.                                                       *)
Idle == [pc |-> "idle", entry |-> NoEntry, target |-> Nowhere, found |-> FALSE,
         subscribed |-> FALSE, ok |-> FALSE, raced |-> FALSE]

Init ==
    /\ place \in [Entries -> Places \cup {Nowhere}]
    /\ \A e, o \in Entries : e # o /\ place[e] = place[o] => place[e] = Nowhere
    /\ flow = [f \in Flows |-> Idle] /\ links = {} /\ left = {} /\ moved = {}

(* A unique id of an entry, or the address of another entry than e. *)
Configured(a)   == \E e \in Entries : place[e] = a
InUse(e, a)     == \E o \in Entries \ {e} : place[o] = a

Go(f, r) == flow' = [flow EXCEPT ![f] = r]
At(f, pc) == flow[f].pc = pc

Ended(f, others) == [others EXCEPT ![f].pc = "done"]

(* Entry e gets an address: whoever is probing it for another entry is raced. *)
Place(f, e, a) ==
    /\ place' = [place EXCEPT ![e] = a]
    /\ flow' = Ended(f, [g \in Flows |->
         IF flow[g].target = a /\ flow[g].entry # e THEN [flow[g] EXCEPT !.raced = TRUE]
         ELSE flow[g]])

-----------------------------------------------------------------------------
(* The dialogs up to the probe. *)

(* A dialog of another entry to be is about the address. *)
InProgress(f, a) ==
    \E g \in Flows \ {f} :
        flow[g].entry = NoEntry /\ flow[g].target = a /\ flow[g].pc # "done"

(* A form can be submitted: the first one, or again after an error.  A link a  *)
(* failed clean-up left behind has gone by then.                                *)
Open(f, again) == (At(f, "idle") \/ (At(f, "form") /\ again)) /\ f \notin links

(* async_step_bluetooth *)
Discover(f, a) ==
    /\ At(f, "idle") /\ ~InProgress(f, a) /\ ~Configured(a)
    /\ Go(f, [Idle EXCEPT !.pc = "form", !.target = a, !.found = TRUE])
    /\ UNCHANGED <<place, links, left, moved>>

(* async_step_confirm, whenever the user answers; nothing is tested again. *)
Confirm(f) ==
    /\ At(f, "form") /\ Open(f, flow[f].found)
    /\ Go(f, [flow[f] EXCEPT !.pc = "connect", !.subscribed = FALSE])
    /\ UNCHANGED <<place, links, left, moved>>

(* async_step_user with a selection. *)
Select(f, a) ==
    /\ Open(f, ~flow[f].found /\ flow[f].entry = NoEntry) /\ ~Configured(a)
    /\ Go(f, [Idle EXCEPT !.pc = "connect", !.target = a])
    /\ UNCHANGED <<place, links, left, moved>>

(* async_step_reconfigure; there is no probe where the session of the entry is *)
(* fresh.                                                                       *)
Reconfigure(f, e, a) ==
    /\ Open(f, flow[f].entry = e) /\ place[e] # Nowhere /\ ~InUse(e, a)
    /\ \/ /\ Go(f, [Idle EXCEPT !.pc = "connect", !.entry = e, !.target = a])
          /\ UNCHANGED <<place, moved>>
       \/ a = place[e] /\ Place(f, e, a) /\ moved' = moved \ {e}
    /\ UNCHANGED <<links, left>>

-----------------------------------------------------------------------------
(* async_probe_device *)

(* Mutated form of CleanUp: only a probe that was answered is cleaned up. *)
CleanUpAnswered(r, up) ==
    [r EXCEPT !.pc = IF ~up \/ ~r.ok THEN "decide"
                     ELSE IF r.subscribed THEN "unsubscribe" ELSE "disconnect"]

(* The finally clause of the probe, which is left when a stage fails. *)
CleanUp(r, up) ==
    [r EXCEPT !.pc = IF ~up THEN "decide"
                     ELSE IF r.subscribed THEN "unsubscribe" ELSE "disconnect"]

Connect(f) ==
    /\ At(f, "connect")
    /\ \/ /\ links' = links \cup {f}
          /\ \/ Go(f, [flow[f] EXCEPT !.pc = "subscribe"])
             \/ Go(f, CleanUp(flow[f], TRUE))       \* a characteristic is missing
       \/ /\ Go(f, [flow[f] EXCEPT !.pc = "decide"])    \* no route, timeout, error
          /\ UNCHANGED links
    /\ UNCHANGED <<place, left, moved>>

(* A stage of the probe ends, or fails or runs out of time. *)
Stage(f, pc, next) ==
    /\ At(f, pc)
    /\ Go(f, next) \/ Go(f, CleanUp(flow[f], f \in links))
    /\ UNCHANGED <<place, links, left, moved>>

Subscribe(f) ==
    Stage(f, "subscribe", [flow[f] EXCEPT !.pc = "request", !.subscribed = TRUE])
Request(f) == Stage(f, "request", [flow[f] EXCEPT !.pc = "await"])
Await(f)   == Stage(f, "await", CleanUp([flow[f] EXCEPT !.ok = TRUE], f \in links))

(* stop_notify; when it fails, disconnect is not called. *)
Unsubscribe(f) ==
    /\ At(f, "unsubscribe")
    /\ \/ Go(f, [flow[f] EXCEPT !.pc = "disconnect"]) /\ UNCHANGED left
       \/ Go(f, [flow[f] EXCEPT !.pc = "decide"]) /\ left' = left \cup {f}
    /\ UNCHANGED <<place, links, moved>>

Disconnect(f) ==
    /\ At(f, "disconnect") /\ Go(f, [flow[f] EXCEPT !.pc = "decide"])
    /\ \/ links' = links \ {f} /\ UNCHANGED left
       \/ left' = left \cup {f} /\ UNCHANGED links
    /\ UNCHANGED <<place, moved>>

Drop(f) ==
    /\ f \in links /\ links' = links \ {f} /\ left' = left \ {f}
    /\ UNCHANGED <<place, flow, moved>>

-----------------------------------------------------------------------------
(* What the dialog does with the answer. *)

(* The probe failed, or the entry to move cannot be unloaded or its registry   *)
(* records collide: the form is shown again, or the dialog ends.                *)
Fails(f) ==
    /\ At(f, "decide") /\ (~flow[f].ok \/ flow[f].entry # NoEntry)
    /\ Go(f, [flow[f] EXCEPT !.pc = "form"]) \/ flow' = Ended(f, flow)
    /\ UNCHANGED <<place, links, left, moved>>

(* Mutated form of Create: the address is not looked up again. *)
CreateUnchecked(f) ==
    /\ At(f, "decide") /\ flow[f].ok /\ flow[f].entry = NoEntry
    /\ \E e \in Entries : place[e] = Nowhere /\ Place(f, e, flow[f].target)
    /\ UNCHANGED <<links, left, moved>>

(* _async_probe_and_create, after its probe. *)
Create(f) ==
    /\ At(f, "decide") /\ flow[f].ok /\ flow[f].entry = NoEntry
    /\ IF Configured(flow[f].target)
       THEN flow' = Ended(f, flow) /\ UNCHANGED place
       ELSE \E e \in Entries : place[e] = Nowhere /\ Place(f, e, flow[f].target)
    /\ UNCHANGED <<links, left, moved>>

(* async_step_reconfigure, after its probe. *)
Move(f) ==
    /\ At(f, "decide") /\ flow[f].ok /\ flow[f].entry # NoEntry
    /\ Place(f, flow[f].entry, flow[f].target)
    /\ moved' = IF flow[f].raced THEN moved \cup {flow[f].entry} ELSE moved \ {flow[f].entry}
    /\ UNCHANGED <<links, left>>

(* The dialog is closed, and another may be opened. *)
Close(f) ==
    /\ (At(f, "done") \/ At(f, "form")) /\ f \notin links /\ Go(f, Idle)
    /\ UNCHANGED <<place, links, left, moved>>

(* The user deletes an entry no dialog is about. *)
Remove(e) ==
    /\ place[e] # Nowhere /\ \A f \in Flows : flow[f].entry # e
    /\ place' = [place EXCEPT ![e] = Nowhere] /\ moved' = moved \ {e}
    /\ UNCHANGED <<flow, links, left>>

Next ==
    \/ \E e \in Entries : Remove(e)
    \/ \E f \in Flows :
           \/ \E a \in Places : \/ Discover(f, a) \/ Select(f, a)
                                \/ \E e \in Entries : Reconfigure(f, e, a)
           \/ Confirm(f) \/ Connect(f) \/ Subscribe(f) \/ Request(f) \/ Await(f)
           \/ Unsubscribe(f) \/ Disconnect(f) \/ Drop(f)
           \/ Fails(f) \/ Create(f) \/ Move(f) \/ Close(f)

Spec == Init /\ [][Next]_vars

-----------------------------------------------------------------------------
(* One entry per device: a target that another entry has is rejected           *)
(* (async_step_reconfigure; README.md: "Duplicate targets are rejected to        *)
(* preserve one-entry-per-device behavior").  The code does not keep this.        *)
OneEntryPerPlace ==
    \A e, o \in Entries : e # o /\ place[e] = place[o] => place[e] = Nowhere

(* What it keeps: however dialogs overlap, two entries share an address only    *)
(* where one was moved there although the address became another's during its   *)
(* probe, after which a reconfiguration does not look again.  A new entry never *)
(* takes an address in use, for _async_probe_and_create does.                    *)
OvertakenOnly ==
    \A e, o \in Entries :
        e # o /\ place[e] = place[o] /\ place[e] # Nowhere => e \in moved \/ o \in moved

(* A probe gives its link back, whatever stage failed, before its dialog goes *)
(* on, unless the clean-up itself fails: the device has room for one link.     *)
ProbeLinkReturned ==
    \A f \in links : flow[f].pc \in Probing \ {"connect", "decide"} \/ f \in left
=============================================================================
