------------------------------ MODULE ControlFrames ------------------------------
(***************************************************************************)
(* What a control frame does to the fields it is not about.  A command is   *)
(* built from the last report and carries the whole group, outputs or       *)
(* settings: whatever the report did not say, or said in bits of another    *)
(* layout, would be overwritten.  A byte is the set of its one bits.  The   *)
(* groups share nothing but the lock; a behaviour is about one of them, on  *)
(* a device of the verified profile.                                        *)
(***************************************************************************)
EXTENDS Naturals

CONSTANTS
    Bits,               \* the bits a device may use in its flags
    Hours,              \* the ECO timeouts it may report
    MaxCommands,        \* bound on commands
    MaxPresses,         \* bound on what is done at the device
    NoReading, NoFrame, Reserved

VARIABLES
    group,              \* "output" or "settings"
    device,             \* its flags and timeout
    reading,            \* _status or _settings, with the raw bytes
    gate,               \* may a command leave? as in CommandGate
    target,             \* of the pending transaction
    frame,              \* on its way to the device; with, as history, the field
                        \* it is about and the report it was built from
    presses, commands   \* history, for the bound

vars == <<group, device, reading, gate, target, frame, presses, commands>>

Raw == [flags : SUBSET Bits, hours : Hours]

ControlAssumption ==
    /\ {0, 1, 2, 4} \subseteq Bits /\ Reserved \notin Nat
    /\ MaxCommands \in Nat /\ MaxPresses \in Nat

Modes == {0, 1, 2}      \* WorkMode
ValidEcoTimeouts == {1, 2, 4, 6}

Fields == [output |-> {"dc", "ac", "light"}, settings |-> {"eco", "mode", "car", "hours"}]
KnownBits == [output |-> {0, 1, 4}, settings |-> {0, 1, 2, 4}]

-----------------------------------------------------------------------------
(* The codec. *)

ModeOf(flags) ==
    IF {1, 2} \subseteq flags THEN Reserved
    ELSE IF 1 \in flags THEN 1 ELSE IF 2 \in flags THEN 2 ELSE 0

DecodeStatus(raw) ==
    [dc |-> 0 \in raw.flags, ac |-> 1 \in raw.flags, light |-> 4 \in raw.flags, raw |-> raw]

DecodeSettings(raw) ==
    [eco |-> 0 \in raw.flags, mode |-> ModeOf(raw.flags), car |-> 4 \in raw.flags,
     hours |-> raw.hours, raw |-> raw]

Decode(raw) == IF group = "output" THEN DecodeStatus(raw) ELSE DecodeSettings(raw)

(* status_write_validation_errors, settings_write_validation_errors *)
Plausible(r) ==
    IF group = "output" THEN r.raw.flags \subseteq KnownBits.output
    ELSE r.mode # Reserved /\ r.hours \in ValidEcoTimeouts

SetMask(flags, bit, on) == IF on THEN flags \cup {bit} ELSE flags \ {bit}

NewModeAdded(flags, mode) == flags \cup ({1, 2} \cap {mode})  \* mutant: the old one stays

NewMode(flags, mode) == (flags \ {1, 2}) \cup ({1, 2} \cap {mode})

(* encode_output_control: the light has another bit than in a report. *)
EncodeOutput(t) ==
    (IF t.dc THEN {0} ELSE {}) \cup (IF t.ac THEN {1} ELSE {}) \cup (IF t.light THEN {5} ELSE {})

(* updated_settings *)
UpdatedSettings(r, field, v) ==
    DecodeSettings(
        [flags |-> CASE field = "eco"  -> SetMask(r.raw.flags, 0, v)
                     [] field = "car"  -> SetMask(r.raw.flags, 4, v)
                     [] field = "mode" -> NewMode(r.raw.flags, v)
                     [] OTHER          -> r.raw.flags,
         hours |-> IF field = "hours" THEN v ELSE r.hours])

-----------------------------------------------------------------------------
Init ==
    /\ group \in {"output", "settings"} /\ device \in Raw
    /\ group = "output" => device.hours = CHOOSE h \in Hours : TRUE
    /\ reading = NoReading /\ gate = "open" /\ target = NoReading /\ frame = NoFrame
    /\ presses = 0 /\ commands = 0

(* Somebody operates the device itself. *)
Press ==
    /\ presses < MaxPresses /\ presses' = presses + 1
    /\ device' \in {[device EXCEPT !.flags = SetMask(@, b, b \notin @)] : b \in Bits}
                     \cup {[device EXCEPT !.hours = h] : h \in Hours}
    /\ group = "output" => device'.hours = device.hours
    /\ UNCHANGED <<group, reading, gate, target, frame, commands>>

Confirms(r) ==
    /\ Plausible(r)
    /\ IF group = "output" THEN \A f \in Fields.output : r[f] = target[f] ELSE r = target

(* _notification_handler: one report. *)
Report ==
    /\ reading' = Decode(device)
    /\ gate' = IF gate = "ambiguous" \/ (gate = "pending" /\ Confirms(reading'))
               THEN "open" ELSE gate
    /\ target' = IF gate' = "open" THEN NoReading ELSE target
    /\ UNCHANGED <<group, device, frame, presses, commands>>

Expire ==
    /\ gate = "pending" /\ gate' = "ambiguous" /\ target' = NoReading
    /\ UNCHANGED <<group, device, reading, frame, presses, commands>>

(* The reading is no longer fresh, or the session is a new one. *)
Forget ==
    /\ reading # NoReading /\ reading' = NoReading /\ gate' = "open" /\ target' = NoReading
    /\ UNCHANGED <<group, device, frame, presses, commands>>

(* _safe_output_snapshot, _safe_settings_snapshot *)
Safe == gate = "open" /\ reading # NoReading /\ Plausible(reading)

(* Writes a frame for target t, which asks for v in a field; a write that      *)
(* fails may have reached the device, and one that succeeds may not.           *)
Write(t, field, v) ==
    /\ commands < MaxCommands /\ commands' = commands + 1
    /\ frame = NoFrame
    /\ \E sent, fails \in BOOLEAN :
         /\ frame' = IF ~sent THEN NoFrame
                     ELSE [flags |-> IF group = "output" THEN EncodeOutput(t)
                                     ELSE t.raw.flags,
                           hours |-> t.raw.hours, field |-> field, value |-> v,
                           base  |-> reading.raw]
         /\ gate' = IF fails THEN "ambiguous" ELSE "pending"
         /\ target' = IF fails THEN NoReading ELSE t
    /\ UNCHANGED <<group, device, reading, presses>>

(* async_set_ac, async_set_dc, async_set_light *)
SetOutput(o, on) ==
    /\ group = "output" /\ Safe /\ reading[o] # on
    /\ Write([reading EXCEPT ![o] = on], o, on)

SettingsValues == [eco |-> BOOLEAN, car |-> BOOLEAN, mode |-> Modes,
                   hours |-> ValidEcoTimeouts \cap Hours]

(* async_set_eco, async_set_work_mode, async_set_eco_timeout, and with the    *)
(* option enabled async_set_car_charger.                                       *)
UpdateSettings(field, v) ==
    /\ group = "settings" /\ Safe
    /\ LET t == UpdatedSettings(reading, field, v) IN t # reading /\ Write(t, field, v)

(* async_send_settings_keepalive *)
SendKeepalive ==
    /\ group = "settings" /\ Safe /\ Write(reading, "none", FALSE)

(* The device obeys a frame. *)
Obey ==
    /\ frame # NoFrame /\ frame' = NoFrame
    /\ device' =
        IF group = "output"
        THEN [device EXCEPT !.flags = (@ \ KnownBits.output) \cup (frame.flags \cap {0, 1})
                                          \cup (IF 5 \in frame.flags THEN {4} ELSE {})]
        ELSE [flags |-> frame.flags, hours |-> frame.hours]
    /\ UNCHANGED <<group, reading, gate, target, presses, commands>>

Next ==
    \/ Press \/ Report \/ Expire \/ Forget \/ SendKeepalive \/ Obey
    \/ \E o \in Fields.output, on \in BOOLEAN : SetOutput(o, on)
    \/ \E field \in Fields.settings : \E v \in SettingsValues[field] : UpdateSettings(field, v)

Spec == Init /\ [][Next]_vars

-----------------------------------------------------------------------------
TypeOK ==
    /\ group \in {"output", "settings"} /\ device \in Raw
    /\ \/ reading = NoReading
       \/ \E raw \in Raw : reading = Decode(raw)
    /\ gate \in {"open", "pending", "ambiguous"}

(* A device that is as it was reported when the command was given is changed  *)
(* in the field asked for and in no other, the bits nobody knows included     *)
(* ("while preserving every unrelated settings bit", client.py), is never put *)
(* into a reserved mode or an unknown timeout, and its next report confirms   *)
(* the command, if that is still pending.                                      *)
Changed(p, q, field, v) ==
    /\ \A f \in Fields[group] : Decode(q)[f] = IF f = field THEN v ELSE Decode(p)[f]
    /\ q.flags \ KnownBits[group] = p.flags \ KnownBits[group]

OnlyAsked ==
    [][frame # NoFrame /\ frame' = NoFrame /\ device = frame.base =>
           /\ Changed(device, device', frame.field, frame.value)
           /\ Plausible(Decode(device'))
           /\ gate = "pending" => Confirms(Decode(device'))]_vars
=============================================================================
