------------------------------- MODULE MCStation -------------------------------
(* Small instances for TLC of what concerns one station: the stream that is    *)
(* read from it, of two-bit bytes, so that the header, lengths, payloads and    *)
(* checksums can all be mistaken for one another; the control frames written to *)
(* it; its model, as the client learns it (every kind of family, two of the     *)
(* verified kind); its registry records; and the entries the dialogs give an    *)
(* address to.  They share no state: a behaviour is about one part, and the     *)
(* others rest where they began.                                                 *)
EXTENDS StreamDecoder, TLC

CONSTANTS Bits, Hours, MaxCommands, MaxPresses, NoReading, NoFrame, Reserved,
          Writable, ReadOnly, Rejected, NoModel, MaxSessions,
          Addresses, Keys, Stray, Retired, NoAddress, MaxIds,
          Flows, Places, Entries, Nowhere, NoEntry

VARIABLES
    part,               \* which of the five this behaviour is about
    group, device, reading, gate, target, frame, presses, commands,
    who, generation, active, phase, dropping, revision, recent, sessionRevision,
    stored, edited, named, namedIn, reportedIn,
    address, registryId, opaque, previous, replace, pending, prefix,
    entities, devices, removedEntities, removedDevices, loaded, used, station, settled,
    place, flow, links, left, moved

control  == <<group, device, reading, gate, target, frame, presses, commands>>

identity == <<who, generation, active, phase, dropping, revision, recent, sessionRevision,
              stored, edited, named, namedIn, reportedIn>>

registry == <<address, registryId, opaque, previous, replace, pending, prefix, entities,
              devices, removedEntities, removedDevices, loaded, used, station, settled>>

setup    == <<place, flow, links, left, moved>>

F == INSTANCE ControlFrames

I == INSTANCE ModelIdentity

R == INSTANCE RegistryTransition

S == INSTANCE SetupFlow

ASSUME ControlParameters  == F!ControlAssumption
ASSUME IdentityParameters == I!IdentityAssumption
ASSUME RegistryParameters == R!RegistryAssumption
ASSUME SetupParameters    == S!SetupAssumption

Xor2(a, b) == (((a % 2) + (b % 2)) % 2) + (2 * (((a \div 2) + (b \div 2)) % 2))

(* decode_notification: the XOR of the frame is zero. *)
ChecksumOK(candidate) == FoldSeq(Xor2, 0, candidate) = 0

(* Dialogs, entries and addresses are alike. *)
Symmetry == Permutations(Flows) \cup Permutations(Places) \cup Permutations(Entries)

PartsInit ==
    /\ part \in {"stream", "control", "identity", "registry", "setup"}
    /\ Init /\ F!Init /\ I!Init /\ R!Init /\ S!Init
    /\ part # "control" => group = "output" /\ device.flags = {}
    /\ part # "identity" => stored.identity = NoModel
    /\ part # "registry" => address = CHOOSE a \in Addresses : TRUE
    /\ part # "registry" => Cardinality(entities) = Cardinality(Keys)
    /\ part # "setup" => \A e \in Entries : place[e] = Nowhere

PartsNext ==
    \/ part = "stream" /\ Next /\ UNCHANGED <<part, control, identity, registry, setup>>
    \/ part = "control" /\ F!Next /\ UNCHANGED <<part, vars, identity, registry, setup>>
    \/ part = "identity" /\ I!Next /\ UNCHANGED <<part, vars, control, registry, setup>>
    \/ part = "registry" /\ R!Next /\ UNCHANGED <<part, vars, control, identity, setup>>
    \/ part = "setup" /\ S!Next /\ UNCHANGED <<part, vars, control, identity, registry>>

PartsSpec == PartsInit /\ [][PartsNext]_<<part, vars, control, identity, registry, setup>>

OnlyAsked         == F!OnlyAsked
WritesVerified    == I!WritesVerified
ConflictStored    == I!ConflictStored
ResolvedInSession == I!ResolvedInSession
IdentityKept      == I!IdentityKept
RecordsOfStation  == R!RecordsOfStation
SameDeviceKeeps   == R!SameDeviceKeeps
OvertakenOnly     == S!OvertakenOnly
ProbeLinkReturned == S!ProbeLinkReturned
=============================================================================
