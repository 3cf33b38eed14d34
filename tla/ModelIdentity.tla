---------------------------- MODULE ModelIdentity ----------------------------
(***************************************************************************)
(* Which model the client takes the device for, and what it may write to    *)
(* it (client.py 647-763, model_support.py, the callbacks of __init__.py).   *)
(* Names come from advertisements and device-name packets at any time,       *)
(* revisions from settings packets of a session; a contradiction latches the *)
(* entry into read-only mode across reloads and restarts until a name and    *)
(* the settings of one session resolve it.  A name is the family it stands   *)
(* for (canonical_model_identity); names of no family change nothing.        *)
(***************************************************************************)
EXTENDS Naturals

CONSTANTS
    Writable,           \* families with a verified hardware revision
    ReadOnly,           \* families of the protocol without one
    Rejected,           \* families known to speak another protocol
    NoModel,            \* "" or None
    MaxSessions         \* bound on the sessions of one client

Families == Writable \cup ReadOnly \cup Rejected

IdentityAssumption ==
    /\ NoModel \notin Families
    /\ Rejected \cap (Writable \cup ReadOnly) = {}
    /\ MaxSessions \in Nat

VARIABLES
    who,                \* _device_identity, _identity_conflicted and the candidate
    generation,         \* _session_generation_counter
    active,             \* _active_session_generation; 0 is None
    phase,              \* where the connection task is with its session
    dropping,           \* _disconnect_event
    revision,           \* what the hardware version in _settings is known for
    recent,             \* _settings_monotonic is neither None nor too old
    sessionRevision,    \* _session_hardware_revision
    stored,             \* identity and conflict in entry.data
    edited,             \* entry.data or title changed, and a reload is due
    named, namedIn,     \* the last family observed, and the session it counts for
    reportedIn          \* the session that delivered _settings (history)

session  == <<generation, active, phase, dropping>>
settings == <<revision, recent, sessionRevision, reportedIn>>
entry    == <<stored, edited>>
history  == <<named, namedIn>>
vars     == <<who, session, settings, entry, history>>

-----------------------------------------------------------------------------
(* model_support.py: identify_model and resolve_runtime_model_support, as far *)
(* as they decide.                                                            *)

Supported(f)   == f \notin Rejected
Verified(f, r) == f \in Writable /\ r = "known"

(* _settings_are_fresh. *)
Fresh == phase = "up" /\ ~dropping /\ recent

(* The revision that counts: of the session, or else of fresh settings. *)
Evidence == IF sessionRevision # "none" THEN sessionRevision
            ELSE IF Fresh THEN revision ELSE "none"

(* The write capabilities of _runtime_model_support. *)
Capable == Verified(who.identity, Evidence) /\ ~who.conflict

(* What a write needs beside its snapshot: a connection that is not ending. *)
Authorized == phase = "up" /\ ~dropping /\ active # 0 /\ Capable

-----------------------------------------------------------------------------
(* A new client for the entry: a stored identity of a rejected family counts  *)
(* as a conflict, and is stored as one.                                       *)
Condemned(s) == s.identity \in Rejected

Client(s) ==
    [identity  |-> IF Condemned(s) THEN NoModel ELSE s.identity,
     conflict  |-> s.conflict \/ Condemned(s),
     candidate |-> NoModel, heardIn |-> 0]

Entry(s) == [s EXCEPT !.conflict = s.conflict \/ Condemned(s)]

NoSession ==
    /\ generation' = 0 /\ active' = 0 /\ phase' = "idle" /\ dropping' = FALSE
    /\ revision' = "none" /\ recent' = FALSE /\ sessionRevision' = "none"
    /\ namedIn' = 0 /\ reportedIn' = 0

Init ==
    /\ stored \in {Entry([identity |-> f, conflict |-> FALSE]) :
                      f \in Families \cup {NoModel}}
    /\ edited = FALSE
    /\ who = Client(stored)
    /\ generation = 0 /\ active = 0 /\ phase = "idle" /\ dropping = FALSE
    /\ revision = "none" /\ recent = FALSE /\ sessionRevision = "none"
    /\ named = NoModel /\ namedIn = 0 /\ reportedIn = 0

-----------------------------------------------------------------------------
(* _persist_model_identity_if_validated, for client w whose settings are fresh *)
(* or not, over what s has stored.                                            *)

(* Fresh settings confirm a candidate of this session that does not contradict *)
(* the identity.  (A verified one is supported.)                              *)
Confirms(w) ==
    /\ w.heardIn \in {0, active}
    /\ w.candidate = w.identity \/ w.identity = NoModel
    /\ Supported(w.candidate)

Confirmed(w) == [identity |-> w.candidate, conflict |-> FALSE,
                 candidate |-> NoModel, heardIn |-> 0]

(* The client and the stored data after it. *)
Settle(w, s, fresh) ==
    IF ~fresh THEN <<w, s>>
    ELSE IF w.candidate # NoModel THEN
        IF Confirms(w) THEN <<Confirmed(w), [identity |-> w.candidate, conflict |-> FALSE]>>
        ELSE <<w, s>>
    ELSE <<w, IF w.identity = NoModel THEN s ELSE [s EXCEPT !.identity = w.identity]>>

BecomeAnyway(after) ==                      \* mutant: the user's change is undone
    /\ who' = after[1] /\ stored' = after[2]
    /\ UNCHANGED edited

(* The callbacks store nothing once the entry has changed under the client. *)
Become(after) ==
    /\ who' = after[1]
    /\ stored' = IF edited THEN stored ELSE after[2]
    /\ UNCHANGED edited

-----------------------------------------------------------------------------
(* _observe_model_identity. *)

(* The conflict callback, when the conflict is new. *)
Latched(s) == IF who.conflict THEN s ELSE [s EXCEPT !.conflict = TRUE]

(* The first family that is seen becomes the identity at once. *)
Adopt(f) ==
    /\ who.identity = NoModel /\ Supported(f) /\ ~who.conflict
    /\ Become(Settle([who EXCEPT !.identity = f], stored, Fresh))

(* A rejected family without an identity to contradict. *)
Refuse(f) ==
    /\ who.identity = NoModel /\ ~Supported(f)
    /\ Become(<<[who EXCEPT !.candidate = NoModel, !.heardIn = 0, !.conflict = TRUE],
                Latched(stored)>>)

(* In a conflict every supported family is a candidate. *)
Reconsider(f) ==
    /\ who.identity = NoModel /\ Supported(f) /\ who.conflict
    /\ Become(Settle([who EXCEPT !.candidate = f, !.heardIn = active], stored, Fresh))

ContradictSilently(f) ==                    \* mutant: no callback
    /\ who.identity # NoModel /\ (f # who.identity \/ who.conflict)
    /\ Become(Settle([who EXCEPT !.candidate = f, !.heardIn = active,
                                 !.conflict = TRUE], stored, Fresh))

(* A family other than the identity, or any while in conflict. *)
Contradict(f) ==
    /\ who.identity # NoModel /\ (f # who.identity \/ who.conflict)
    /\ LET after == Settle([who EXCEPT !.candidate = f, !.heardIn = active,
                                      !.conflict = TRUE], stored, Fresh)
       IN  Become(<<after[1], IF after[1].conflict THEN Latched(after[2]) ELSE after[2]>>)

Repeat(f) ==
    /\ f = who.identity /\ ~who.conflict
    /\ UNCHANGED <<who, entry>>

Observe(f) ==
    /\ Adopt(f) \/ Refuse(f) \/ Reconsider(f) \/ Contradict(f) \/ Repeat(f)
    /\ named' = f /\ namedIn' = IF active = 0 THEN generation + 1 ELSE active
    /\ UNCHANGED <<session, settings>>

-----------------------------------------------------------------------------
(* Sessions. *)

BoundForward(w) ==                          \* mutant: old candidates are kept
    IF w.candidate = NoModel THEN w ELSE [w EXCEPT !.heardIn = generation + 1]

(* _activate_session_generation: a candidate of no session is bound to this   *)
(* one, a candidate of an earlier one is dropped.                             *)
Bound(w) ==
    IF w.candidate = NoModel THEN w
    ELSE IF w.heardIn = 0 THEN [w EXCEPT !.heardIn = generation + 1]
    ELSE [w EXCEPT !.candidate = NoModel, !.heardIn = 0]

Activate ==
    /\ phase = "idle" /\ generation < MaxSessions
    /\ phase' = "attempt" /\ dropping' = FALSE
    /\ generation' = generation + 1 /\ active' = generation + 1
    /\ who' = Bound(who) /\ sessionRevision' = "none"
    /\ UNCHANGED <<revision, recent, reportedIn, entry, history>>

InstallKeeping ==                           \* mutant: old settings stay fresh
    /\ phase = "attempt" /\ phase' = "notify"
    /\ UNCHANGED <<who, generation, active, dropping, settings, entry, history>>

(* The client is installed and its notifications are started. *)
Install ==
    /\ phase = "attempt" /\ phase' = "notify" /\ recent' = FALSE
    /\ UNCHANGED <<who, generation, active, dropping, revision, sessionRevision,
                   reportedIn, entry, history>>

(* start_notify has returned, maybe after the first settings. *)
Connected ==
    /\ phase = "notify" /\ phase' = "up"
    /\ Become(Settle(who, stored, ~dropping /\ recent))
    /\ UNCHANGED <<generation, active, dropping, settings, history>>

(* _disconnect_client at the end of an attempt or a session. *)
End ==
    /\ phase # "idle" /\ (phase = "up" => dropping)
    /\ phase' = "idle" /\ active' = 0 /\ sessionRevision' = "none"
    /\ UNCHANGED <<who, generation, dropping, revision, recent, reportedIn, entry,
                   history>>

(* async_reconnect of another task, before the client is installed. *)
Overtaken ==
    /\ phase = "attempt"
    /\ active' = 0 /\ dropping' = TRUE /\ sessionRevision' = "none"
    /\ UNCHANGED <<who, generation, phase, revision, recent, reportedIn, entry, history>>

(* The link is lost, or a disconnect is asked for. *)
Ending ==
    /\ phase # "idle" /\ ~dropping /\ dropping' = TRUE
    /\ UNCHANGED <<who, generation, active, phase, settings, entry, history>>

(* A settings packet of the active session. *)
Settings(r) ==
    /\ phase \in {"notify", "up"} /\ active = generation
    /\ revision' = r /\ recent' = TRUE /\ sessionRevision' = r
    /\ reportedIn' = generation
    /\ Become(Settle(who, stored, phase = "up" /\ ~dropping))
    /\ UNCHANGED <<session, history>>

(* The settings grow older than settings_stale_timeout. *)
Age ==
    /\ recent /\ recent' = FALSE
    /\ UNCHANGED <<who, session, revision, sessionRevision, reportedIn, entry, history>>

-----------------------------------------------------------------------------
(* The entry is edited: its title, or what a reconfigure stores for the same   *)
(* device, or for another one, whose conflict is over.  Discovery offers no    *)
(* rejected family.  Undoing an edit before the reload still counts as one.    *)
Edit ==
    /\ edited' = TRUE
    /\ LET offered == {stored.identity} \cup (Families \ Rejected)
       IN  stored' \in {[stored EXCEPT !.identity = f] : f \in offered}
                    \cup {[identity |-> f, conflict |-> FALSE] : f \in offered \cup {NoModel}}
    /\ UNCHANGED <<who, session, settings, history>>

(* A reload or a restart: a new client.  For an edited entry the history      *)
(* begins anew.                                                               *)
Reload ==
    /\ stored' = Entry(stored) /\ who' = Client(stored) /\ edited' = FALSE
    /\ named' = IF edited THEN NoModel ELSE named
    /\ NoSession

Next ==
    \/ \E f \in Families : Observe(f)
    \/ Activate \/ Install \/ Connected \/ End \/ Overtaken \/ Ending
    \/ \E r \in {"known", "unknown"} : Settings(r)
    \/ Age \/ Edit \/ Reload

Spec == Init /\ [][Next]_vars

-----------------------------------------------------------------------------
(* Properties. *)

(* Every variable has its type; only supported families become the identity. *)
TypeOK ==
    /\ who \in [identity : (Families \cup {NoModel}) \ Rejected, conflict : BOOLEAN,
               candidate : Families \cup {NoModel}, heardIn : 0 .. MaxSessions]
    /\ stored \in [identity : Families \cup {NoModel}, conflict : BOOLEAN]
    /\ generation \in 0 .. MaxSessions /\ active \in {0, generation}
    /\ phase \in {"idle", "attempt", "notify", "up"}
    /\ {dropping, recent, edited} \subseteq BOOLEAN
    /\ {revision, sessionRevision} \subseteq {"none", "known", "unknown"}
    /\ named \in Families \cup {NoModel} /\ namedIn \in 0 .. generation + 1
    /\ reportedIn \in 0 .. generation

(* What the client may write rests on the settings of this very session, a    *)
(* verified revision among them, and on a name that no later one contradicts, *)
(* before or after a restart.                                                 *)
WritesVerified ==
    Authorized =>
        /\ reportedIn = generation /\ revision = "known"
        /\ who.identity \in Writable
        /\ named \in {NoModel, who.identity}

(* A restart finds the conflict that the client was in, neither lost nor      *)
(* outliving its resolution.                                                  *)
ConflictStored == ~edited => stored.conflict = who.conflict

(* A running client leaves a conflict only in an established session, by a    *)
(* name heard for that session that is then the identity, and by settings     *)
(* that the session has delivered.                                            *)
ResolvedInSession ==
    [][who.conflict /\ ~who'.conflict /\ ~Reload =>
          /\ phase' = "up" /\ ~dropping'
          /\ namedIn' = generation' /\ reportedIn' = generation'
          /\ who'.identity = named']_vars

(* Observations never replace a stored family, nor what the user has changed. *)
IdentityKept ==
    [][~Edit /\ stored'.identity # stored.identity =>
          /\ ~edited /\ stored.identity \in Rejected \cup {NoModel}
          /\ stored'.identity = who'.identity]_vars
=============================================================================
