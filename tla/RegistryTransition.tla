--------------------------- MODULE RegistryTransition ---------------------------
(***************************************************************************)
(* What becomes of an entry's registry records when its Bluetooth address   *)
(* is changed: the decisions of the reconfigure dialog (config_flow.py) and *)
(* the transition that the next setup applies (registry.py), which may stop *)
(* half-way and is tried again or changed by another dialog meanwhile.      *)
(* Core's registries keep removed records and restore them, with all the    *)
(* user's customizations, to whoever asks with the same unique id, the same *)
(* identifier or the same address.                                          *)
(***************************************************************************)
EXTENDS Naturals, FiniteSets

CONSTANTS
    Addresses,          \* Bluetooth addresses, which are also first registry ids
    Keys,               \* entities of a station
    Stray,              \* the registry id of a record that is nobody's
    Retired,            \* identifier of a device that is being removed
    NoAddress,          \* connection of a device that is being removed
    MaxIds              \* bound on the opaque ids and stations

Ids == Addresses \cup 1..MaxIds \cup {Stray, Retired}
Stations == 0..MaxIds

RegistryAssumption ==
    /\ MaxIds \in Nat /\ Keys # {} /\ Addresses # {}
    /\ {Stray, Retired} \cap (Addresses \cup Nat) = {} /\ Addresses \cap Nat = {}
    /\ NoAddress \notin Addresses

(* `station' is the physical station a record was created for and customized. *)
Entity == [key : Keys, id : Ids, name : Ids, station : Stations]
Device == [id : Ids, address : Addresses \cup {NoAddress}, station : Stations]

VARIABLES
    address,            \* entry.data[CONF_ADDRESS]
    registryId,         \* CONF_REGISTRY_ID, or the address without one
    opaque,             \* CONF_REGISTRY_ID is there
    previous, replace,  \* CONF_PREVIOUS_REGISTRY_ID and CONF_REPLACE_DEVICE
    pending,            \* CONF_PREVIOUS_REGISTRY_ID is there
    prefix,             \* CONF_ENTITY_ID_PREFIX, or Retired without one
    entities, devices,  \* the entry's records
    removedEntities, removedDevices,    \* what Core could restore
    loaded,             \* the platforms have made their entities
    used,               \* history: opaque ids generated
    station, settled    \* history: the station the user speaks of, and the one
                        \* whose records the last finished transition left

entry   == <<address, registryId, opaque, previous, replace, pending, prefix>>
records == <<entities, devices, removedEntities, removedDevices>>
vars    == <<entry, records, loaded, used, station, settled>>

TypeOK ==
    /\ address \in Addresses /\ registryId \in Ids /\ opaque \in BOOLEAN
    /\ previous \in Ids /\ replace \in BOOLEAN /\ pending \in BOOLEAN /\ prefix \in Ids
    /\ entities \subseteq Entity /\ removedEntities \subseteq Entity
    /\ devices \subseteq Device /\ removedDevices \subseteq Device
    /\ loaded \in BOOLEAN /\ used \in Stations
    /\ station \in Stations /\ settled \in Stations

NewEntity(k, n, s)  == [key |-> k, id |-> registryId, name |-> n, station |-> s]

(* A station that was set up at an address; a record of unknown origin may be *)
(* among its own.                                                             *)
Init ==
    /\ address \in Addresses /\ registryId = address /\ opaque = FALSE
    /\ previous = address /\ replace = FALSE /\ pending = FALSE /\ prefix = Retired
    /\ \E stray \in SUBSET {CHOOSE k \in Keys : TRUE} :
         entities = {NewEntity(k, Retired, 0) : k \in Keys}
             \cup {[key |-> k, id |-> Stray, name |-> Stray, station |-> 0] : k \in stray}
    /\ devices = {[id |-> address, address |-> address, station |-> 0]}
    /\ removedEntities = {} /\ removedDevices = {}
    /\ loaded = TRUE /\ used = 0 /\ station = 0 /\ settled = 0

-----------------------------------------------------------------------------
(* The dialog. *)

Source == IF pending THEN previous ELSE registryId

(* async_registry_source_address *)
IsSourceAddress(a) == \E d \in devices : d.id = previous /\ d.address = a

DevicesOf(id) == {d \in devices : d.id = id}

(* async_registry_transition_conflicts, for a source s. *)
Conflicts(s, id, a) ==
    LET migrating == IF DevicesOf(s) # {} THEN DevicesOf(s) ELSE DevicesOf(id)
    IN  \/ \E e \in entities : e.id \notin {s, id}
        \/ \E e, f \in entities : e # f /\ e.key = f.key /\ f.id = id
        \/ \E d \in devices : d \notin migrating
        \/ \E d, e \in devices : d # e /\ d.id = s /\ e.id = id

Rollback(a, choice) ==
    pending /\ replace /\ choice = "same_device" /\ IsSourceAddress(a)

ReplacesStill(a, choice) ==  \* mutant: a replacement cannot be taken back
    choice = "replacement" \/ replace

Replaces(a, choice) == ~Rollback(a, choice) /\ (choice = "replacement" \/ replace)

(* async_step_reconfigure with a new address, or another try at a pending     *)
(* transition.  A replacement gets an id nobody has had.                      *)
Reconfigure(a, choice) ==
    /\ a # address \/ pending
    /\ \E id \in IF Rollback(a, choice) THEN {Source}
                 ELSE IF Replaces(a, choice) \/ ~opaque THEN {used + 1} ELSE {registryId} :
         /\ id \in Ids
         /\ Replaces(a, choice) \/ ~Conflicts(Source, id, a)
         /\ registryId' = id
         /\ used' = IF id = used + 1 THEN id ELSE used
    /\ address' = a /\ opaque' = TRUE
    /\ previous' = Source /\ replace' = Replaces(a, choice) /\ pending' = TRUE
    /\ station' = CASE Rollback(a, choice)    -> settled
                    [] choice = "replacement" -> used'
                    [] OTHER                  -> station
    /\ loaded' = FALSE
    /\ UNCHANGED <<prefix, records, settled>>

-----------------------------------------------------------------------------
(* The setup that follows, once the station has answered. *)

Renamed(e) == IF e.id = previous THEN [e EXCEPT !.id = registryId] ELSE e
Moved(d)   == [d EXCEPT !.id = IF @ = previous THEN registryId ELSE @, !.address = address]
(* The keys Core would restore a removed device by are taken from it first. *)
Unlisted(d) == [d EXCEPT !.id = Retired, !.address = NoAddress]

(* The pending transition removes or renames these entities, the devices if  *)
(* all of them; Core remembers what it removes.                               *)
Apply(some) ==
    /\ replace \/ ~Conflicts(previous, registryId, address)
    /\ IF replace
       THEN /\ entities' = entities \ some /\ removedEntities' = removedEntities \cup some
            /\ \/ /\ some = entities /\ devices' = {}
                  /\ removedDevices' = removedDevices \cup {Unlisted(d) : d \in devices}
               \/ /\ some = entities /\ devices' = {Unlisted(d) : d \in devices}
                  /\ UNCHANGED removedDevices
               \/ UNCHANGED <<devices, removedDevices>>
       ELSE /\ entities' = (entities \ some) \cup {Renamed(e) : e \in some}
            /\ \/ some = entities /\ devices' = {Moved(d) : d \in devices}
               \/ UNCHANGED devices
            /\ UNCHANGED <<removedEntities, removedDevices>>

Done == IF replace THEN devices' = {} ELSE \A d \in devices' : d.address = address

(* A registry update fails: the transition stays pending. *)
TransitionFails ==
    /\ pending /\ \E some \in SUBSET entities : Apply(some)
    /\ UNCHANGED <<entry, loaded, used, station, settled>>

PrefixForgotten == UNCHANGED prefix     \* mutant: entity ids are not set apart

PrefixKept == prefix' = IF replace THEN registryId ELSE prefix

Transition ==
    /\ pending /\ Apply(entities) /\ Done
    /\ pending' = FALSE /\ replace' = FALSE /\ PrefixKept
    /\ settled' = station
    /\ UNCHANGED <<address, registryId, opaque, previous, loaded, used, station>>

(* The platforms add their entities: known ones are taken as they are, removed *)
(* ones come back as they were, others are new; so is the device's record.     *)
Found(k)    == {e \in entities : e.key = k /\ e.id = registryId}
Restored(k) == {e \in removedEntities : e.key = k /\ e.id = registryId}
Entities(k) == IF Found(k) # {} THEN Found(k)
               ELSE IF Restored(k) # {} THEN Restored(k)
               ELSE {NewEntity(k, prefix, station)}

Same(d) == d.id = registryId \/ d.address = address
DeviceRecords ==
    LET known == {d \in devices : Same(d)}
        back  == {d \in removedDevices : Same(d)} IN
    IF known # {} THEN known
    ELSE IF back # {} THEN back
    ELSE {[id |-> registryId, address |-> address, station |-> station]}

Load ==
    /\ ~pending /\ ~loaded /\ loaded' = TRUE
    /\ \E make \in [Keys -> UNION {Entities(k) : k \in Keys}] :
         /\ \A k \in Keys : make[k] \in Entities(k)
         /\ entities' = entities \cup {make[k] : k \in Keys}
         /\ removedEntities' = removedEntities \ {make[k] : k \in Keys}
    /\ \E d \in DeviceRecords :
         /\ devices' = (devices \ {d}) \cup {[d EXCEPT !.id = registryId, !.address = address]}
         /\ removedDevices' = removedDevices \ {d}
    /\ UNCHANGED <<entry, used, station, settled>>

Next ==
    \/ \E a \in Addresses, choice \in {"same_device", "replacement"} : Reconfigure(a, choice)
    \/ TransitionFails \/ Transition \/ Load

Spec == Init /\ [][Next]_vars

-----------------------------------------------------------------------------
(* Properties. *)

(* Whatever dialogs and half-done transitions went before, a loaded entry has *)
(* one record of each entity and one of its device, and they are those of the *)
(* station the user speaks of: nothing is inherited from a replaced station,  *)
(* nothing of the same one is left behind (README, "Reconfigure entry data"). *)
(* Nor is the entity id of a replaced station ever given to a successor, whom *)
(* the automations written for it would act on.                               *)
RecordsOfStation ==
    /\ loaded =>
        /\ \A k \in Keys : \E e \in Found(k) : Found(k) = {e} /\ e.station = station
        /\ \A e \in entities : e.id \in {registryId, Stray}
        /\ \E d \in devices : devices = {d} /\ d.id = registryId /\ d.address = address
                                /\ d.station = station
    /\ \A e, f \in entities \cup removedEntities :
        e.key = f.key /\ e.name = f.name => e.station = f.station

(* Records are removed only while a replacement is under way that was not     *)
(* taken back; the same device keeps them all, also when its migration stops  *)
(* half-way.                                                                  *)
Identities == {<<e.key, e.name, e.station>> : e \in entities}
SameDeviceKeeps ==
    [][station = settled =>
           /\ Identities \subseteq Identities'
           /\ Cardinality(devices) <= Cardinality(devices')]_vars
=============================================================================
