--------------------------- MODULE EntryLifecycle ---------------------------
(***************************************************************************)
(* A config entry from setup to unload (__init__.py), with the unload      *)
(* latch of repairs.py and the reconfigure flow of config_flow.py.  Core    *)
(* runs one setup or unload of an entry at a time (its setup_lock), calls   *)
(* the update listener inside the update, and keeps entry.state; between    *)
(* two awaits of a setup or unload, flows, the options dialog and the BLE   *)
(* client change the entry.  `data' stands for entry.data and the title:    *)
(* an address (config), the identity the client learned, and whether the    *)
(* registry still has to follow a change of address (pending).              *)
(***************************************************************************)
EXTENDS Naturals

CONSTANTS
    Configs,            \* addresses (with name and title) a user may choose
    Options,            \* validated options
    Nothing,            \* no identity, no flow input
    Flows,              \* reconfigure dialogs that may be open at once
    Faults,             \* what may fail
    MaxReloads          \* bound on reloads waiting for the setup lock

States == {"not_loaded", "setup_in_progress", "loaded", "setup_error",
           "setup_retry", "unload_in_progress", "failed_unload"}
Awaits == {"idle", "waiting", "forwarding", "partial", "stopping",
           "unloading", "releasing"}
Data == [config : Configs, identity : Configs \cup {Nothing}, pending : BOOLEAN]

ASSUME EntryAssumption ==
    /\ Configs # {} /\ Options # {} /\ Nothing \notin Configs
    /\ MaxReloads \in Nat

VARIABLES
    state,              \* entry.state
    pc,                 \* where the setup or unload in progress awaits
    after,              \* what follows its clean-up
    data, options,      \* the entry, persisted
    base,               \* config_data and config_title of the newest client
    applied,            \* options of the newest client
    clients,            \* clients started and not yet stopped
    adverts,            \* advertisement subscriptions
    listening,          \* the update listener is registered
    runtime,            \* entry.runtime_data exists
    reloadPending,      \* runtime_data.reload_pending
    platforms,          \* what Core holds of the entry's platforms
    latch, issue,       \* restart-required latch; failed_unload repair, persisted
    reloads, retry,     \* reloads scheduled; retry timer
    flow                \* per dialog: address before its probe, target, and
                        \* whether the registry is to follow

core    == <<state, pc, after, reloads, retry>>
stored  == <<data, options>>
client  == <<base, applied, clients, adverts>>
entry   == <<listening, runtime, reloadPending, platforms>>
blocking == <<latch, issue>>
vars    == <<core, stored, client, entry, blocking, flow>>

Idle == [current |-> Nothing, target |-> Nothing, transition |-> FALSE]
Dialogs == [current : Configs, target : Configs, transition : BOOLEAN] \cup {Idle}

Init ==
    /\ state = "not_loaded" /\ pc = "idle" /\ after = "none"
    /\ data \in [config : Configs, identity : {Nothing}, pending : {FALSE}] /\ options \in Options
    /\ base = data /\ applied = options /\ clients = 0 /\ adverts = 0
    /\ listening = FALSE /\ runtime = FALSE /\ reloadPending = FALSE
    /\ platforms = "none" /\ latch = FALSE /\ issue = FALSE
    /\ reloads = 0 /\ retry = FALSE
    /\ flow = [f \in Flows |-> Idle]

(* async_unload_block_reason, and the issue it raises again. *)
RestartOnly == latch \/ state = "failed_unload"
Blocked     == RestartOnly \/ state = "unload_in_progress"

-----------------------------------------------------------------------------
(* The update listener. *)

Schedule == reloads' = reloads + 1 /\ retry' = FALSE

Notice == <<reloads, retry, reloadPending, applied, issue>>

(* The entry now has data d and options o, and the client the baseline b. *)
Listener(d, o, b) ==
    \/ /\ Blocked
       /\ issue' = (issue \/ RestartOnly)
       /\ UNCHANGED <<reloads, retry, reloadPending, applied>>
    \/ /\ ~Blocked /\ ~runtime /\ state # "setup_in_progress"
       /\ Schedule
       /\ UNCHANGED <<reloadPending, applied, issue>>
    \/ /\ ~Blocked
       /\ IF runtime THEN reloadPending ELSE state = "setup_in_progress"
       /\ UNCHANGED Notice
    \/ /\ ~Blocked /\ runtime /\ ~reloadPending /\ d # b
       /\ Schedule /\ reloadPending' = TRUE
       /\ UNCHANGED <<applied, issue>>
    \/ /\ ~Blocked /\ runtime /\ ~reloadPending /\ d = b
       /\ applied' = o
       /\ UNCHANGED <<reloads, retry, reloadPending, issue>>

(* async_update_entry: an update that changes something is notified. *)
Update(d, o, b) ==
    /\ data' = d /\ options' = o /\ base' = b
    /\ IF listening /\ <<d, o>> # stored THEN Listener(d, o, b)
                                         ELSE UNCHANGED Notice
    /\ UNCHANGED <<state, pc, after, clients, adverts, listening, runtime,
                   platforms, latch>>

-----------------------------------------------------------------------------
(* async_setup_entry. *)

(* The head of the loop, with c clients running and a subscriptions: a new
   client for the entry as it is now, or no route to the device. *)
Iterate(c, a) ==
    \/ /\ state' = "setup_in_progress" /\ pc' = "waiting" /\ after' = "none"
       /\ base' = data /\ applied' = options
       /\ clients' = c + 1 /\ adverts' = a + 1
       /\ listening' = TRUE /\ retry' = FALSE
    \/ /\ "route" \in Faults
       /\ state' = "setup_retry" /\ pc' = "idle" /\ after' = "none"
       /\ clients' = c /\ adverts' = a
       /\ listening' = FALSE /\ retry' = TRUE
       /\ UNCHANGED <<base, applied>>

SetupBlockedNever == FALSE                  \* mutated
SetupBlocked == latch

Setup(c, a) ==
    \/ /\ SetupBlocked
       /\ state' = "setup_error" /\ pc' = "idle" /\ after' = "none"
       /\ issue' = TRUE /\ retry' = FALSE /\ listening' = FALSE
       /\ clients' = c /\ adverts' = a
       /\ UNCHANGED <<base, applied>>
    \/ /\ ~SetupBlocked /\ Iterate(c, a)
       /\ UNCHANGED issue

(* Core sets up an entry that is not loaded, or tries again. *)
Start ==
    /\ pc = "idle"
    /\ state = "not_loaded" \/ retry
    /\ Setup(clients, adverts)
    /\ UNCHANGED <<stored, runtime, reloadPending, platforms, latch, reloads, flow>>

ChangedNever == FALSE                       \* mutated
Changed == data # base

(* The client has data: options are reconciled, then the configuration, and
   the registry follows a changed address, which may fail. *)
Ready ==
    /\ pc = "waiting"
    /\ applied' = options
    /\ \/ /\ Changed
          /\ pc' = "stopping" /\ after' = "again"
          /\ UNCHANGED <<data, base, runtime, reloadPending>>
       \/ /\ ~Changed
          /\ data' = [data EXCEPT !.pending = FALSE]
          /\ base' = [base EXCEPT !.pending = FALSE]
          /\ pc' = "forwarding" /\ runtime' = TRUE /\ reloadPending' = FALSE
          /\ UNCHANGED after
       \/ /\ ~Changed /\ data.pending /\ "registry" \in Faults
          /\ pc' = "stopping" /\ after' = "setup_error"
          /\ UNCHANGED <<data, base, runtime, reloadPending>>
    /\ UNCHANGED <<state, reloads, retry, options, clients, adverts,
                   listening, platforms, blocking, flow>>

(* It has none in time; or starting it or its options fail, or the setup is
   cancelled. *)
NotReady ==
    /\ pc = "waiting"
    /\ pc' = "stopping"
    /\ \/ /\ "timeout" \in Faults
          /\ after' = IF Changed THEN "again" ELSE "setup_retry"
       \/ /\ "start" \in Faults
          /\ after' = "setup_error"
    /\ UNCHANGED <<state, reloads, retry, stored, client, entry, blocking, flow>>

Forwarded ==
    /\ pc = "forwarding"
    /\ state' = "loaded" /\ pc' = "idle"
    /\ platforms' = "loaded" /\ latch' = FALSE /\ issue' = FALSE
    /\ UNCHANGED <<after, reloads, retry, stored, client, listening, runtime,
                   reloadPending, flow>>

ForwardFails ==
    /\ pc = "forwarding" /\ "forward" \in Faults
    /\ pc' = "partial" /\ after' \in {"setup_error", "setup_retry"}
    /\ platforms' = "partial"
    /\ UNCHANGED <<state, reloads, retry, stored, client, listening, runtime,
                   reloadPending, blocking, flow>>

(* Clean-up of a failed setup: its platforms, then its client. *)
CleanPlatforms ==
    /\ pc = "partial"
    /\ pc' = "stopping"
    /\ \/ platforms' = "none" /\ UNCHANGED <<after, blocking>>
       \/ /\ "unload" \in Faults
          /\ latch' = TRUE /\ issue' = TRUE
          /\ after' \in {after, "setup_error"}      \* refused, or an exception
          /\ UNCHANGED platforms
    /\ UNCHANGED <<state, reloads, retry, stored, client, listening,
                   runtime, reloadPending, flow>>

UnsubscribedNever == adverts                \* mutated
Unsubscribed == adverts - 1

Stopped ==
    /\ pc = "stopping"
    /\ \/ after = "again" /\ Iterate(clients - 1, Unsubscribed)
       \/ /\ \/ after # "again" /\ state' = after
             \/ "stop" \in Faults /\ state' = "setup_error"
          /\ pc' = "idle" /\ after' = "none"
          /\ clients' = clients - 1 /\ adverts' = Unsubscribed
          /\ listening' = FALSE /\ retry' = (state' = "setup_retry")
          /\ UNCHANGED <<base, applied>>
    /\ runtime' = FALSE /\ reloadPending' = FALSE
    /\ UNCHANGED <<reloads, stored, platforms, blocking, flow>>

-----------------------------------------------------------------------------
(* async_unload_entry and Core around it. *)

UnloadBegins(next) ==
    /\ state' = "unload_in_progress" /\ pc' = "unloading" /\ after' = next
    /\ UNCHANGED <<retry, client, entry, issue>>

Unload ==
    /\ pc = "idle"
    /\ \/ state = "loaded" /\ UnloadBegins("none")
       \/ /\ state \in {"setup_retry", "setup_error"}
          /\ state' = "not_loaded" /\ retry' = FALSE
          /\ UNCHANGED <<pc, after, client, entry, issue>>
    /\ UNCHANGED <<reloads, stored, latch, flow>>

ReloadDue == pc = "idle" /\ reloads > 0

Reload ==
    /\ ReloadDue
    /\ reloads' = reloads - 1
    /\ \/ state = "loaded" /\ UnloadBegins("setup")
       \/ /\ state = "failed_unload"           \* not recoverable
          /\ UNCHANGED <<state, pc, after, retry, client, entry, issue>>
       \/ /\ state \in {"not_loaded", "setup_retry", "setup_error"}
          /\ Setup(clients, adverts)
          /\ UNCHANGED <<runtime, reloadPending, platforms>>
    /\ UNCHANGED <<stored, latch, flow>>

(* Whatever fails, async_unload_entry or the observer reports it. *)
UnloadFailsSilent ==                        \* mutated
    state' = "failed_unload" /\ pc' = "idle" /\ UNCHANGED issue
UnloadFails == state' = "failed_unload" /\ pc' = "idle" /\ issue' = TRUE

PlatformsUnloaded ==
    /\ pc = "unloading"
    /\ \/ pc' = "releasing" /\ platforms' = "none"
          /\ UNCHANGED <<state, after, issue>>
       \/ /\ "unload" \in Faults
          /\ UnloadFails /\ after' = "none" /\ platforms' = "partial"
    /\ UNCHANGED <<reloads, retry, stored, client, listening, runtime,
                   reloadPending, latch, flow>>

(* The coordinator is shut down; then Core runs the unload callbacks. *)
Released ==
    /\ pc = "releasing"
    /\ \/ /\ after = "setup" /\ Setup(clients - 1, adverts - 1)
          /\ runtime' = FALSE /\ reloadPending' = FALSE
       \/ /\ after = "none"
          /\ state' = "not_loaded" /\ pc' = "idle"
          /\ clients' = clients - 1 /\ adverts' = adverts - 1
          /\ listening' = FALSE /\ runtime' = FALSE /\ reloadPending' = FALSE
          /\ UNCHANGED <<after, retry, base, applied, issue>>
       \/ /\ "stop" \in Faults
          /\ UnloadFails /\ after' = "none"
          /\ clients' = clients - 1
          /\ UNCHANGED <<retry, base, applied, adverts, listening, runtime,
                         reloadPending>>
       \/ /\ "core" \in Faults
          /\ UnloadFails /\ after' = "none"
          /\ clients' = clients - 1 /\ adverts' \in {adverts, adverts - 1}
          /\ listening' \in {listening, FALSE}
          /\ UNCHANGED <<retry, base, applied, runtime, reloadPending>>
    /\ UNCHANGED <<reloads, stored, platforms, latch, flow>>

PersistedNever == FALSE                     \* mutated
Persisted == issue

(* A fresh Home Assistant: the entry and the repair issue are persistent. *)
Restart ==
    /\ "restart" \in Faults
    /\ state' = "not_loaded" /\ pc' = "idle" /\ after' = "none"
    /\ base' = data /\ applied' = options
    /\ clients' = 0 /\ adverts' = 0
    /\ listening' = FALSE /\ runtime' = FALSE /\ reloadPending' = FALSE
    /\ platforms' = "none" /\ latch' = FALSE
    /\ reloads' = 0 /\ retry' = FALSE
    /\ flow' = [f \in Flows |-> Idle] /\ issue' = Persisted
    /\ UNCHANGED stored

-----------------------------------------------------------------------------
(* Who changes the entry. *)

(* The newest client has seen its model identity: it is stored unless the
   entry has moved on, in the entry and in the client's baseline. *)
MayPersistAlways == TRUE                    \* mutated
MayPersist == data = base

Learn ==
    /\ clients > 0 /\ MayPersist
    /\ data.identity # base.config
    /\ reloads < MaxReloads
    /\ Update([data EXCEPT !.identity = base.config], options,
              [base EXCEPT !.identity = base.config])
    /\ UNCHANGED flow

(* The options dialog. *)
SaveOptions ==
    /\ reloads < MaxReloads
    /\ \E o \in Options \ {options} : Update(data, o, base)
    /\ UNCHANGED flow

(* The user asks for a reload. *)
AskReload ==
    /\ reloads < MaxReloads
    /\ Schedule
    /\ UNCHANGED <<state, pc, after, stored, client, entry, blocking, flow>>

(* async_step_reconfigure up to its probe, and from there. *)
Probe(f) ==
    /\ flow[f] = Idle /\ ~Blocked
    /\ \E c \in Configs, t \in BOOLEAN :
         /\ IF c # data.config THEN t ELSE t => data.pending
         /\ flow' = [flow EXCEPT ![f] =
                       [current |-> data.config, target |-> c, transition |-> t]]
    /\ UNCHANGED <<core, stored, client, entry, blocking>>

ProbeFails(f) ==
    /\ flow[f] # Idle
    /\ flow' = [flow EXCEPT ![f] = Idle]
    /\ issue' = (issue \/ RestartOnly)
    /\ UNCHANGED <<core, stored, client, entry, latch>>

(* What becomes of the identity: forgotten with the address it was seen at,
   or replaced by a discovered one. *)
NextIdentity(f) ==
    {IF flow[f].target # flow[f].current THEN Nothing ELSE data.identity,
     flow[f].target}

ScheduleItself(changed) ==
    ~listening /\ (changed \/ state \in {"setup_retry", "setup_error"})

Reconfigure(f) ==
    /\ flow[f] # Idle /\ ~Blocked
    /\ reloads < MaxReloads
    /\ flow' = [flow EXCEPT ![f] = Idle]
    /\ \E i \in NextIdentity(f) :
         LET d == [config |-> flow[f].target, identity |-> i,
                   pending |-> data.pending \/ flow[f].transition]
         IN \/ ~ScheduleItself(d # data) /\ Update(d, options, base)
            \/ /\ ScheduleItself(d # data)
               /\ data' = d /\ Schedule
               /\ UNCHANGED <<state, pc, after, options, client, entry, blocking>>

Next ==
    \/ Start \/ Ready \/ NotReady \/ Forwarded \/ ForwardFails \/ CleanPlatforms
    \/ Stopped \/ Unload \/ Reload \/ PlatformsUnloaded \/ Released \/ Restart
    \/ Learn \/ SaveOptions \/ AskReload
    \/ \E f \in Flows : Probe(f) \/ ProbeFails(f) \/ Reconfigure(f)

Spec == Init /\ [][Next]_vars

(* Every await of a setup or unload ends, Core takes up a reload once the
   setup lock is free, the retry timer fires, and a device that is looked for
   again and again is in reach in the end. *)
Awaited == \/ Ready \/ NotReady \/ Forwarded \/ ForwardFails \/ CleanPlatforms
           \/ Stopped \/ PlatformsUnloaded \/ Released
Retry   == retry /\ Start
Reached == (Reload \/ Retry) /\ state' = "setup_in_progress"
FairSpec == /\ Spec /\ WF_vars(Awaited) /\ WF_vars(Reload) /\ WF_vars(Retry)
            /\ SF_vars(Reached)

-----------------------------------------------------------------------------
(* Types. *)
TypeOK ==
    /\ state \in States /\ pc \in Awaits
    /\ after \in {"none", "again", "setup", "setup_retry", "setup_error"}
    /\ data \in Data /\ base \in Data /\ options \in Options /\ applied \in Options
    /\ clients \in Nat /\ adverts \in Nat /\ reloads \in Nat
    /\ listening \in BOOLEAN /\ runtime \in BOOLEAN /\ reloadPending \in BOOLEAN
    /\ latch \in BOOLEAN /\ issue \in BOOLEAN /\ retry \in BOOLEAN
    /\ platforms \in {"none", "partial", "loaded"}
    /\ flow \in [Flows -> Dialogs]

(* An entry never has two clients, and once a setup or unload is over without
   a loaded or failed runtime, no client, subscription, listener or runtime is
   left (ADR 0002; the finally clause of async_setup_entry, __init__.py:338). *)
ClientOwned ==
    /\ clients <= 1 /\ adverts <= 1
    /\ pc = "idle" /\ state \in {"not_loaded", "setup_retry", "setup_error"} =>
         clients = 0 /\ adverts = 0 /\ ~runtime /\ ~listening

(* A runtime that may be used works with the entry's configuration and
   options, or a reload that will make it so is on its way, whenever they
   changed during a setup or since (async_setup_entry's loops and the update
   listener, __init__.py:299-306, 365-388). *)
RuntimeCurrent ==
    runtime /\ ~Blocked =>
        IF reloadPending THEN reloads > 0 ELSE data = base /\ options = applied

(* No client is started where platforms of an earlier runtime may still be
   loaded: neither after a failed unload nor after a failed clean-up, until
   Home Assistant restarts. *)
CleanStart == [][clients' > clients => platforms = "none" /\ ~RestartOnly]_vars

(* A state only a restart can end is always reported (async_unload_entry, the
   observer of Core's clean-up, and the latch of a failed setup). *)
RestartReported == RestartOnly => issue

(* The report outlives a restart and every attempt at a set-up, and goes with
   a successful one that had nothing left behind (__init__.py:334). *)
ReportKept == [][issue /\ ~issue' => state' = "loaded" /\ ~RestartOnly]_vars

(* The stored model identity was seen at the stored address: neither a client
   of an earlier configuration nor a reconfiguration mixes them. *)
IdentityOfDevice ==
    /\ data.identity \in {Nothing, data.config}
    /\ base.identity \in {Nothing, base.config}

(* development.md:73: a changed configuration schedules a reload.  When the
   setup in progress then fails for good, the change is still to be used. *)
ChangeNotLost ==
    pc = "idle" /\ state = "setup_error" /\ ~latch => data = base \/ reloads > 0

(* A changed configuration reaches a client, unless the entry is unloaded, its
   setup failed with an error, or only a restart can help. *)
ChangeUsed ==
    data # base ~> data = base \/ Blocked \/ state \in {"not_loaded", "setup_error"}
=============================================================================
