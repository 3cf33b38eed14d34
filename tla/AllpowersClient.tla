--------------------------- MODULE AllpowersClient ---------------------------
(***************************************************************************)
(* The BLE client of the integration (client.py): one connection task, a   *)
(* maintenance task, service calls, the delayed status refresh and         *)
(* async_stop, all on one asyncio loop and all using the GATT client under *)
(* _operation_lock.  A step is the code between two awaits, taken when the *)
(* task is at the head of the loop's ready queue; taking a free lock does  *)
(* not suspend, so a task that does so is "running" and nothing happens    *)
(* before its next action.  Time is abstracted: a reading grows stale      *)
(* (Stale) and a confirmation deadline passes (DeadlinePasses) at any      *)
(* moment the option bounds allow.                                         *)
(***************************************************************************)
EXTENDS Naturals, SequencesExt

CONSTANTS
    Callers,            \* tasks that call the public methods
    Owned,              \* those async_stop cancels: the maintenance task
    Conn, Stop, Refresh,\* _connection_task, async_stop, _refresh_task
    NoProc,
    Readings,           \* payloads a notification reports and a command requests
    NoReading,
    Packets,            \* what the device may send (PacketType)
    MayCall,            \* [Callers -> SUBSET Calls]
    Faults,             \* environment faults that are enabled
    MaxSessions,        \* bound on _session_generation_counter
    MaxVersion          \* per group, bound on _{status,settings}_version

Groups == {"output", "settings"}
Procs  == Callers \cup {Conn, Stop, Refresh}
Calls  == Groups \cup {"keepalive", "status", "reconnect"}
Ops    == Groups \cup {"none", "keepalive", "status", "connect", "disconnect"}
PCs    == {"idle", "retry", "estab", "notify", "abort", "session", "done", "run",
           "gather", "stopped", "sleep", "lock", "writing", "disc"}

PacketType == [group : Groups, value : Readings, plausible : BOOLEAN,
               revision : {"verified", "unverified"}]

ASSUME ClientAssumption ==
    /\ Owned \subseteq Callers
    /\ {Conn, Stop, Refresh, NoProc} \cap Callers = {}
    /\ Conn # Stop /\ Conn # Refresh /\ Stop # Refresh
    /\ NoProc \notin {Conn, Stop, Refresh}
    /\ NoReading \notin Readings /\ Packets \subseteq PacketType
    /\ MayCall \in [Callers -> SUBSET Calls]
    /\ MaxSessions \in Nat /\ MaxVersion \in [Groups -> Nat]

(* The ready queue tells tasks from the sessions of queued requests. *)
ASSUME TaskAssumption == Procs \cap Nat = {}

VARIABLES
    pc, op,             \* where each task is suspended, and what it wants the lock for
    holder, waiters,    \* _operation_lock: owner, or next owner, and FIFO of waiters
    running,            \* task that runs on without having suspended
    runq,               \* the loop's ready queue: woken tasks, and for a session s
                        \* the _request_disconnect its callback queued
    stopEvent, discEvent,
    cancelReq,          \* tasks async_stop cancelled and that have not run since
    orphaned,           \* the refresh task runs, but _refresh_task is None
    gen,                \* _session_generation_counter
    activeGen,          \* _active_session_generation, 0 for None
    client,             \* session of _client, 0 for None
    connected, ready,
    revision,           \* what _session_hardware_revision authorizes
    links,              \* sessions whose GATT link is up (client.is_connected)
    closing,            \* session of the client a task in "disc" is disconnecting
    writeSession,       \* session captured by the write in progress
    failedLinks,        \* history: links a disconnect() failed to close
    cutLinks,           \* history: links whose disconnect() was cancelled
    value, plausible,   \* _status / _settings and their semantic validation
    fresh,              \* its monotonic stamp is set and within the stale timeout
    srcGen,             \* history: session that delivered the reading
    version,            \* _status_version / _settings_version
    txn,                \* _pending_{output,settings}_transaction
    blocked             \* _{output,settings}_blocked_until_version, 0 for None

taskVars == <<pc, op>>
lockVars == <<holder, waiters, running>>
eventVars == <<stopEvent, discEvent, cancelReq, orphaned>>
sessionVars == <<gen, activeGen, client, connected, ready, revision>>
linkVars == <<links, closing, failedLinks, cutLinks>>
dataVars == <<value, plausible, fresh, srcGen, version>>
gateVars == <<txn, blocked>>
vars == <<taskVars, lockVars, runq, eventVars, sessionVars, linkVars, writeSession,
          dataVars, gateVars>>

Phases == {"SENDING", "AWAITING_CONFIRMATION", "CONFIRMED"}
NoTxn == [gen |-> 0, source |-> 0, target |-> NoReading, phase |-> "NONE",
          expired |-> FALSE]
Transactions == [gen : Nat \ {0}, source : Nat, target : Readings, phase : Phases,
                 expired : BOOLEAN] \cup {NoTxn}

GroupOf(o) == IF o = "output" THEN "output" ELSE "settings"
IsCommand(o) == o \in Groups \cup {"keepalive"}

(* _write_frame_unlocked's precondition, and its check after the write. *)
Writable == connected /\ client # 0 /\ client \in links /\ activeGen # 0
SessionChanged == \/ activeGen # writeSession
                  \/ client # writeSession
                  \/ ~connected

Queued(e) == \E i \in DOMAIN runq : runq[i] = e
IsNext(e) == runq # <<>> /\ Head(runq) = e

Init ==
    /\ pc = [p \in Procs |-> CASE p = Conn -> "retry"
                               [] p = Stop -> "run"
                               [] OTHER -> "idle"]
    /\ op = [p \in Procs |-> "none"]
    /\ holder = NoProc /\ waiters = <<>> /\ running = NoProc /\ runq = <<Conn>>
    /\ stopEvent = FALSE /\ discEvent = FALSE /\ cancelReq = {}
    /\ orphaned = FALSE
    /\ gen = 0 /\ activeGen = 0 /\ client = 0
    /\ connected = FALSE /\ ready = FALSE /\ revision = "none"
    /\ links = {} /\ closing = 0 /\ failedLinks = {} /\ cutLinks = {}
    /\ writeSession = 0
    /\ value = [g \in Groups |-> NoReading]
    /\ plausible = [g \in Groups |-> FALSE]
    /\ fresh = [g \in Groups |-> FALSE]
    /\ srcGen = [g \in Groups |-> 0]
    /\ version = [g \in Groups |-> 0]
    /\ txn = [g \in Groups |-> NoTxn]
    /\ blocked = [g \in Groups |-> 0]

-----------------------------------------------------------------------------
(* asyncio.Lock: release wakes the oldest of the waiters ws, which joins queue q
   and holds the lock from then on.  The releasing task runs on as r, if at all. *)
HandOver(ws, q, r) ==
    /\ running' = r
    /\ IF ws = <<>>
       THEN holder' = NoProc /\ waiters' = <<>> /\ runq' = q
       ELSE holder' = Head(ws) /\ waiters' = Tail(ws) /\ runq' = Append(q, Head(ws))

Release(q) == HandOver(waiters, q, NoProc)

(* The holder suspends inside the critical section. *)
KeepLock(q) == running' = NoProc /\ runq' = q /\ UNCHANGED <<holder, waiters>>

(* p leaves the lock alone and runs on. *)
RunOn(p, q) == running' = p /\ runq' = q /\ UNCHANGED <<holder, waiters>>

(* p enters "async with self._operation_lock" on its way to o: it runs on when
   the lock is free and suspends otherwise. *)
Acquire(p, o, q) ==
    /\ op' = [op EXCEPT ![p] = o]
    /\ pc' = [pc EXCEPT ![p] = "lock"]
    /\ runq' = q
    /\ IF holder = NoProc
       THEN holder' = p /\ running' = p /\ UNCHANGED waiters
       ELSE waiters' = Append(waiters, p) /\ running' = NoProc /\ UNCHANGED holder

(* p, which holds the lock, releases it and asks for it again at once. *)
Reacquire(p, o, q) ==
    /\ op' = [op EXCEPT ![p] = o]
    /\ pc' = [pc EXCEPT ![p] = "lock"]
    /\ IF waiters = <<>> THEN running' = p /\ runq' = q /\ UNCHANGED <<holder, waiters>>
                         ELSE HandOver(Append(waiters, p), q, NoProc)

(* p stops waiting for the lock, or gives it back before using it. *)
Withdraw(p) ==
    LET q == RemoveFirst(runq, p) IN
    IF holder = p THEN Release(q)
                  ELSE /\ waiters' = RemoveFirst(waiters, p)
                       /\ runq' = q
                       /\ UNCHANGED <<holder, running>>

(* p's operation is over. *)
EndOp(p) == op' = [op EXCEPT ![p] = "none"]

(* The loop runs p now: p did not suspend, or it heads the ready queue. *)
Turn(p) == running = p \/ (running = NoProc /\ IsNext(p) /\ p \notin cancelReq)

(* The ready queue once p's turn has come. *)
After(p) == IF running = p THEN runq ELSE Tail(runq)

(* p has the lock for o and runs. *)
Inside(p, o) == pc[p] = "lock" /\ holder = p /\ op[p] = o /\ Turn(p)

(* p resumes from the await it made at l. *)
Resumes(p, l) == pc[p] = l /\ Turn(p)

(* Setting the disconnect event wakes the connection task if it waits for it. *)
Wakes(q) == IF pc[Conn] = "session" /\ ~discEvent THEN Append(q, Conn) ELSE q

(* Mutated form of Resting: the connection loop does not look at the stop event. *)
RestingUnstopped(p) == CASE p = Conn -> "retry" [] p = Stop -> "stopped" [] OTHER -> "idle"

(* Where task p goes once its operation is over. *)
Resting(p) == CASE p = Conn -> IF stopEvent THEN "done" ELSE "retry"
                [] p = Stop -> "stopped"
                [] OTHER -> "idle"

(* The connection task retries at once, without suspending, when it has seen a
   newer advertisement meanwhile. *)
RunsOn(p) == IF p = Conn /\ ~stopEvent /\ gen < MaxSessions
             THEN {NoProc, Conn} ELSE {NoProc}

-----------------------------------------------------------------------------
(* Public calls. *)

(* async_set_*, keepalive and async_request_status up to the lock. *)
Call(p, o) ==
    /\ pc[p] = "idle" /\ p \notin cancelReq /\ o \in MayCall[p] \ {"reconnect"}
    /\ Acquire(p, o, runq)
    /\ UNCHANGED <<eventVars, sessionVars, linkVars, writeSession, dataVars, gateVars>>

(* Mutated form of Reconnect: the session is dropped before the lock is taken. *)
ReconnectEager(p) ==
    /\ pc[p] = "idle" /\ p \notin cancelReq /\ "reconnect" \in MayCall[p]
    /\ discEvent' = TRUE /\ connected' = FALSE
    /\ Acquire(p, "disconnect", Wakes(runq))
    /\ UNCHANGED <<stopEvent, cancelReq, orphaned, gen, activeGen, client, ready, revision,
                   linkVars, writeSession, dataVars, gateVars>>

(* async_reconnect up to the lock. *)
Reconnect(p) ==
    /\ pc[p] = "idle" /\ p \notin cancelReq /\ "reconnect" \in MayCall[p]
    /\ discEvent' = TRUE
    /\ Acquire(p, "disconnect", Wakes(runq))
    /\ UNCHANGED <<stopEvent, cancelReq, orphaned, sessionVars, linkVars, writeSession,
                   dataVars, gateVars>>

RefreshFires ==
    /\ Resumes(Refresh, "sleep")
    /\ Acquire(Refresh, "status", After(Refresh))
    /\ UNCHANGED <<eventVars, sessionVars, linkVars, writeSession, dataVars, gateVars>>

(* async_request_status inside the lock. *)
SendStatusRequest(p) ==
    /\ Inside(p, "status")
    /\ \/ /\ Writable
          /\ pc' = [pc EXCEPT ![p] = "writing"]
          /\ writeSession' = activeGen
          /\ KeepLock(After(p)) /\ UNCHANGED op
       \/ /\ ~Writable
          /\ pc' = [pc EXCEPT ![p] = "idle"]
          /\ EndOp(p) /\ Release(After(p))
          /\ UNCHANGED writeSession
    /\ UNCHANGED <<eventVars, sessionVars, linkVars, dataVars, gateVars>>

(* Every check that precedes the transaction: capability profile, session,
   pending transaction, ambiguity, freshness, semantic validation. *)
Capable == revision = "verified"
Usable  == connected /\ ~discEvent
Ambiguous(g) == blocked[g] # 0 /\ version[g] < blocked[g]
Authorized(g) ==
    /\ Capable /\ Usable
    /\ txn[g] = NoTxn
    /\ ~Ambiguous(g)
    /\ fresh[g] /\ plausible[g]
    /\ activeGen # 0

Transaction(g, x) == [gen |-> activeGen, source |-> version[g], target |-> x,
                      phase |-> "SENDING", expired |-> FALSE]

(* A command asks for x; a keepalive asks for the reading it has. *)
Submit(p) ==
    \E o \in Groups \cup {"keepalive"}, x \in Readings :
        LET g == GroupOf(o) IN
        /\ Inside(p, o) /\ Authorized(g)
        /\ IF o = "keepalive" THEN x = value[g] ELSE x # value[g]
        /\ \/ /\ Writable
              /\ txn' = [txn EXCEPT ![g] = Transaction(g, x)]
              /\ writeSession' = activeGen
              /\ pc' = [pc EXCEPT ![p] = "writing"]
              /\ KeepLock(After(p)) /\ UNCHANGED <<op, blocked>>
           \/ /\ ~Writable
              /\ blocked' = [blocked EXCEPT ![g] = version[g] + 1]
              /\ pc' = [pc EXCEPT ![p] = "idle"]
              /\ EndOp(p) /\ Release(After(p))
              /\ UNCHANGED <<txn, writeSession>>
        /\ UNCHANGED <<eventVars, sessionVars, linkVars, dataVars>>

(* A check raises, or the request already holds.  A transaction found past its
   deadline is dropped on the way and leaves the gate ambiguous. *)
Decline(p) ==
    \E o \in Groups \cup {"keepalive"} :
        LET g == GroupOf(o)
            late == Capable /\ Usable /\ txn[g] # NoTxn /\ txn[g].expired IN
        /\ Inside(p, o)
        /\ Authorized(g) => o # "keepalive"
        /\ txn' = IF late THEN [txn EXCEPT ![g] = NoTxn] ELSE txn
        /\ blocked' = IF late THEN [blocked EXCEPT ![g] = version[g] + 1] ELSE blocked
        /\ pc' = [pc EXCEPT ![p] = "idle"]
        /\ EndOp(p) /\ Release(After(p))
        /\ UNCHANGED <<eventVars, sessionVars, linkVars, writeSession, dataVars>>

-----------------------------------------------------------------------------
(* The end of a GATT write. *)

(* Mutated form of SessionLost: the disconnect event is not looked at. *)
SessionLostIgnoringEvent == SessionChanged \/ client \notin links

(* What a command checks before it counts its frame as submitted. *)
SessionLost == SessionChanged \/ discEvent \/ client \notin links

(* Mutated form of Lose: the failed transaction stays pending. *)
LoseKeeping(g) ==
    /\ blocked' = IF writeSession = activeGen
                  THEN [blocked EXCEPT ![g] = version[g] + 1] ELSE blocked
    /\ UNCHANGED txn

(* The except clause of _write_transaction_unlocked. *)
Lose(g) ==
    /\ txn' = IF txn[g] # NoTxn /\ txn[g].gen = writeSession
              THEN [txn EXCEPT ![g] = NoTxn] ELSE txn
    /\ blocked' = IF writeSession = activeGen
                  THEN [blocked EXCEPT ![g] = version[g] + 1] ELSE blocked

(* Its normal exit: a confirmation that arrived during the write settles it. *)
Submitted(g) ==
    /\ txn' = IF txn[g].phase = "CONFIRMED" THEN [txn EXCEPT ![g] = NoTxn]
              ELSE IF txn[g] = NoTxn THEN txn
              ELSE [txn EXCEPT ![g].phase = "AWAITING_CONFIRMATION"]
    /\ UNCHANGED blocked

LoseOwn(o) == IF IsCommand(o) THEN Lose(GroupOf(o)) ELSE UNCHANGED gateVars

(* Mutated form of Reschedule: the delayed refresh under way is not cancelled. *)
RescheduleBoth(p) == Release(After(p))

(* p leaves the lock and replaces the delayed refresh, which may be asleep, wait
   for the lock or have just got it, by a new one. *)
Reschedule(p) ==
    HandOver(RemoveFirst(waiters, Refresh), RemoveFirst(After(p), Refresh), NoProc)

(* A command's write returned on a live session: submit, release, and replace
   the delayed refresh by a new one. *)
WriteSucceeds(p) ==
    /\ Resumes(p, "writing") /\ p # Conn
    /\ IsCommand(op[p]) /\ ~SessionLost
    /\ Submitted(GroupOf(op[p]))
    /\ pc' = [pc EXCEPT ![p] = "idle", ![Refresh] = "sleep"]
    /\ op' = [op EXCEPT ![Refresh] = "none", ![p] = "none"]
    /\ Reschedule(p)
    /\ writeSession' = 0
    /\ orphaned' = FALSE
    /\ UNCHANGED <<stopEvent, discEvent, cancelReq, sessionVars, linkVars, dataVars>>

(* A write returned, and it was a status request or the session is gone. *)
WriteReturns(p) ==
    /\ Resumes(p, "writing") /\ p # Conn
    /\ IsCommand(op[p]) => SessionLost
    /\ LoseOwn(op[p])
    /\ pc' = [pc EXCEPT ![p] = "idle"]
    /\ EndOp(p) /\ Release(After(p))
    /\ writeSession' = 0
    /\ UNCHANGED <<eventVars, sessionVars, linkVars, dataVars>>

(* A write timed out or raised: the session is asked to end. *)
WriteFails(p) ==
    /\ "write" \in Faults
    /\ Resumes(p, "writing")
    /\ discEvent' = TRUE
    /\ LoseOwn(op[p])
    /\ pc' = [pc EXCEPT ![p] = IF p = Conn THEN "abort" ELSE "idle"]
    /\ EndOp(p) /\ Release(Wakes(After(p)))
    /\ writeSession' = 0
    /\ UNCHANGED <<stopEvent, cancelReq, orphaned, sessionVars, linkVars, dataVars>>

-----------------------------------------------------------------------------
(* The connection task. *)

(* The top of the loop, up to the await of establish_connection; without a route
   to a supported device there is nothing to await. *)
StartAttempt ==
    /\ Resumes(Conn, "retry")
    /\ discEvent' = FALSE
    /\ gen' = gen + 1 /\ activeGen' = gen + 1
    /\ revision' = "none" /\ ready' = FALSE
    /\ pc' = [pc EXCEPT ![Conn] = "estab"]
    /\ KeepLock(After(Conn)) \/ RunOn(Conn, After(Conn))
    /\ UNCHANGED <<op, stopEvent, cancelReq, orphaned, client, connected, linkVars, writeSession,
                   dataVars, gateVars>>

EstablishFails ==
    /\ Resumes(Conn, "estab")
    /\ Acquire(Conn, "disconnect", After(Conn))
    /\ UNCHANGED <<eventVars, sessionVars, linkVars, writeSession, dataVars, gateVars>>

(* The link came up, and _required_characteristics raised or the lock is
   asked for. *)
Established ==
    /\ running = NoProc /\ Resumes(Conn, "estab")
    /\ links' = links \cup {gen}
    /\ \/ /\ pc' = [pc EXCEPT ![Conn] = "abort"]
          /\ KeepLock(After(Conn)) /\ UNCHANGED op
       \/ Acquire(Conn, "connect", After(Conn))
    /\ UNCHANGED <<eventVars, sessionVars, closing, failedLinks, cutLinks, writeSession,
                   dataVars, gateVars>>

(* Mutated form of ForgetReadings: the time stamps of the last session survive. *)
ForgetVersions == version' = [g \in Groups |-> 0] /\ UNCHANGED fresh

(* Cached readings stay visible but authorize nothing until refreshed. *)
ForgetReadings ==
    /\ fresh' = [g \in Groups |-> FALSE]
    /\ version' = [g \in Groups |-> 0]

(* The new client is installed and every session-scoped value reset. *)
Install ==
    /\ Inside(Conn, "connect")
    /\ client' = gen
    /\ ForgetReadings
    /\ txn' = [g \in Groups |-> NoTxn]
    /\ blocked' = [g \in Groups |-> 0]
    /\ pc' = [pc EXCEPT ![Conn] = "notify"]
    /\ KeepLock(After(Conn))
    /\ UNCHANGED <<op, eventVars, gen, activeGen, connected, ready, revision, linkVars,
                   writeSession, value, plausible, srcGen>>

SubscribeFails ==
    /\ "notify" \in Faults
    /\ Resumes(Conn, "notify")
    /\ pc' = [pc EXCEPT ![Conn] = "abort"]
    /\ EndOp(Conn) /\ Release(After(Conn))
    /\ UNCHANGED <<eventVars, sessionVars, linkVars, writeSession, dataVars, gateVars>>

(* start_notify returned: the session counts as connected and the first status
   request is written, unless the link or the generation is already gone. *)
Subscribed ==
    /\ Resumes(Conn, "notify")
    /\ connected' = TRUE
    /\ \/ /\ client \in links /\ activeGen # 0
          /\ writeSession' = activeGen
          /\ pc' = [pc EXCEPT ![Conn] = "writing"]
          /\ KeepLock(After(Conn)) /\ UNCHANGED op
       \/ /\ client \notin links \/ activeGen = 0
          /\ pc' = [pc EXCEPT ![Conn] = "abort"]
          /\ EndOp(Conn) /\ Release(After(Conn))
          /\ UNCHANGED writeSession
    /\ UNCHANGED <<eventVars, gen, activeGen, client, ready, revision, linkVars,
                   dataVars, gateVars>>

(* Mutated form of Opened: the session is awaited inside the critical section. *)
OpenedHolding ==
    /\ pc' = [pc EXCEPT ![Conn] = IF SessionChanged THEN "abort" ELSE "session"]
    /\ KeepLock(After(Conn)) /\ UNCHANGED op

(* The connection task leaves the lock and waits for the session to end. *)
Opened ==
    /\ pc' = [pc EXCEPT ![Conn] = IF SessionChanged THEN "abort" ELSE "session"]
    /\ EndOp(Conn) /\ Release(After(Conn))

(* Mutated form of FirstRequestSent: the event is cleared before the wait for it instead
   of at the top of the loop. *)
FirstRequestSentClearing ==
    /\ Resumes(Conn, "writing")
    /\ Opened
    /\ discEvent' = FALSE
    /\ writeSession' = 0
    /\ UNCHANGED <<stopEvent, cancelReq, orphaned, sessionVars, linkVars, dataVars, gateVars>>

(* The first status request was written.  When the session is already asked to
   end the loop does not suspend, it runs on into its finally clause. *)
FirstRequestSent ==
    /\ Resumes(Conn, "writing")
    /\ IF discEvent /\ ~SessionChanged
       THEN Reacquire(Conn, "disconnect", After(Conn))
       ELSE Opened
    /\ writeSession' = 0
    /\ UNCHANGED <<eventVars, sessionVars, linkVars, dataVars, gateVars>>

(* Mutated form of QueueAfterLoss: the callback captured the generation before it
   was advanced. *)
QueueAfterLossLagging(s, q) ==
    IF s \in links /\ s - 1 = activeGen /\ s = client THEN Append(q, s) ELSE q

(* bleak calls the disconnected callback of session s, which queues
   _request_disconnect only for the session that is active now. *)
QueueAfterLoss(s, q) ==
    IF s \in links /\ s = activeGen /\ s = client THEN Append(q, s) ELSE q

(* _connect_once's handler: disconnect outside the lock, then the finally of
   the loop asks for the lock.  A failing disconnect is swallowed. *)
Abort ==
    /\ Resumes(Conn, "abort")
    /\ \/ /\ links' = links \ {gen}
          /\ UNCHANGED failedLinks
          /\ Acquire(Conn, "disconnect", QueueAfterLoss(gen, After(Conn)))
       \/ /\ "disconnect" \in Faults
          /\ failedLinks' = failedLinks \cup ({gen} \cap links)
          /\ UNCHANGED links
          /\ Acquire(Conn, "disconnect", After(Conn))
    /\ UNCHANGED <<eventVars, sessionVars, closing, cutLinks, writeSession, dataVars,
                   gateVars>>

SessionEnds ==
    /\ Resumes(Conn, "session")
    /\ Acquire(Conn, "disconnect", After(Conn))
    /\ UNCHANGED <<eventVars, sessionVars, linkVars, writeSession, dataVars, gateVars>>

-----------------------------------------------------------------------------
(* Mutated form of Closable: only a session that counted as connected is closed. *)
ClosableConnected == connected /\ client \in links

(* The link a disconnect still has to close. *)
Closable == client # 0 /\ client \in links

(* _disconnect_client, up to the await of client.disconnect(): the session is
   forgotten and the delayed refresh cancelled. *)
DisconnectClient(p) ==
    LET cancels == pc[Refresh] # "idle" /\ ~orphaned
        ws == IF cancels THEN RemoveFirst(waiters, Refresh) ELSE waiters
        q  == IF cancels THEN RemoveFirst(After(p), Refresh) ELSE After(p)
        next(l) == [pc EXCEPT ![Refresh] = IF cancels THEN "idle" ELSE @, ![p] = l]
    IN
    /\ Inside(p, "disconnect")
    /\ activeGen' = 0 /\ client' = 0 /\ connected' = FALSE /\ ready' = FALSE
    /\ revision' = "none"
    /\ txn' = [g \in Groups |-> NoTxn]
    /\ blocked' = [g \in Groups |-> 0]
    /\ cancelReq' = IF cancels THEN cancelReq \ {Refresh} ELSE cancelReq
    /\ op' = [op EXCEPT ![Refresh] = IF cancels THEN "none" ELSE @, ![p] = "none"]
    /\ \/ /\ Closable
          /\ closing' = client
          /\ pc' = next("disc")
          /\ waiters' = ws /\ runq' = q /\ running' = NoProc
          /\ UNCHANGED holder
       \/ /\ ~Closable
          /\ pc' = next(Resting(p))
          /\ \E r \in RunsOn(p) : HandOver(ws, q, r)
          /\ UNCHANGED closing
    /\ UNCHANGED <<stopEvent, discEvent, orphaned, gen, links, failedLinks, cutLinks,
                   writeSession, dataVars>>

(* client.disconnect() returned, or its timeout or error was swallowed. *)
Disconnected(p) ==
    /\ Resumes(p, "disc")
    /\ \/ links' = links \ {closing} /\ UNCHANGED failedLinks
       \/ /\ "disconnect" \in Faults
          /\ failedLinks' = failedLinks \cup ({closing} \cap links)
          /\ UNCHANGED links
    /\ closing' = 0
    /\ pc' = [pc EXCEPT ![p] = Resting(p)]
    /\ \E r \in RunsOn(p) : HandOver(waiters, After(p), r)
    /\ UNCHANGED <<op, eventVars, sessionVars, cutLinks, writeSession, dataVars, gateVars>>

-----------------------------------------------------------------------------
(* async_stop, and cancellation. *)

StopBegins ==
    /\ pc[Stop] = "run"
    /\ stopEvent' = TRUE /\ discEvent' = TRUE
    /\ cancelReq' = {p \in {Conn, Refresh} \cup Owned :
                         p # Refresh \/ pc[Refresh] # "idle"}
    /\ pc' = [pc EXCEPT ![Stop] = "gather"]
    /\ UNCHANGED <<op, lockVars, runq, orphaned, sessionVars, linkVars, writeSession, dataVars,
                   gateVars>>

(* gather() returned; a refresh created meanwhile loses its reference. *)
StopGathered ==
    /\ pc[Stop] = "gather"
    /\ cancelReq = {}
    /\ \A p \in Owned \cup {Conn} : pc[p] = "done"
    /\ Acquire(Stop, "disconnect", runq)
    /\ orphaned' = (pc[Refresh] # "idle")
    /\ UNCHANGED <<stopEvent, discEvent, cancelReq, sessionVars, linkVars, writeSession, dataVars, gateVars>>

(* Where a cancelled task ends. *)
Cancelled(p) == IF p \in Owned \cup {Conn} THEN "done" ELSE "idle"

(* A service call can be cancelled by its caller, an owned task by async_stop. *)
Cancellable(p) == p \in cancelReq \/ (p \in Callers \ Owned /\ "cancel" \in Faults)

(* Cancelled where the code holds nothing and runs nothing more. *)
CancelResting(p) ==
    /\ p \in cancelReq /\ pc[p] \in {"idle", "sleep", "retry"}
    /\ pc' = [pc EXCEPT ![p] = Cancelled(p)]
    /\ cancelReq' = cancelReq \ {p}
    /\ runq' = RemoveFirst(runq, p)
    /\ UNCHANGED <<op, lockVars, stopEvent, discEvent, orphaned, sessionVars, linkVars,
                   writeSession, dataVars, gateVars>>

CancelWaiting(p) ==
    /\ Cancellable(p) /\ pc[p] = "lock" /\ op[p] # "connect"
    /\ pc' = [pc EXCEPT ![p] = Cancelled(p)]
    /\ Withdraw(p)
    /\ cancelReq' = cancelReq \ {p}
    /\ EndOp(p)
    /\ UNCHANGED <<stopEvent, discEvent, orphaned, sessionVars, linkVars, writeSession,
                   dataVars, gateVars>>

(* A command whose write is cancelled is as lost as one whose write failed. *)
CancelWriting(p) ==
    /\ Cancellable(p) /\ pc[p] = "writing" /\ p # Conn
    /\ LoseOwn(op[p])
    /\ pc' = [pc EXCEPT ![p] = Cancelled(p)]
    /\ Release(RemoveFirst(runq, p))
    /\ cancelReq' = cancelReq \ {p}
    /\ EndOp(p)
    /\ writeSession' = 0
    /\ UNCHANGED <<stopEvent, discEvent, orphaned, sessionVars, linkVars, dataVars>>

(* CancelledError out of client.disconnect(): nobody retries it. *)
CancelDisconnect(p) ==
    /\ Cancellable(p) /\ pc[p] = "disc"
    /\ cutLinks' = cutLinks \cup ({closing} \cap links)
    /\ closing' = 0
    /\ pc' = [pc EXCEPT ![p] = Cancelled(p)]
    /\ Release(RemoveFirst(runq, p))
    /\ cancelReq' = cancelReq \ {p}
    /\ UNCHANGED <<op, stopEvent, discEvent, orphaned, sessionVars, links, failedLinks,
                   writeSession, dataVars, gateVars>>

(* The connection task is cancelled with a session or an attempt under way: its
   finally clause still runs _disconnect_client.  A disconnect() cancelled in
   "abort" is cut short, a link waiting for the lock is left to nobody. *)
CancelConnection ==
    LET q == RemoveFirst(runq, Conn) IN
    /\ Conn \in cancelReq
    /\ \/ /\ pc[Conn] \in {"estab", "abort", "session"}
          /\ Acquire(Conn, "disconnect", q)
       \/ /\ pc[Conn] \in {"notify", "writing"} \/ (op[Conn] = "connect" /\ holder = Conn)
          /\ Reacquire(Conn, "disconnect", q)
       \/ /\ op[Conn] = "connect" /\ Contains(waiters, Conn)
          /\ op' = [op EXCEPT ![Conn] = "disconnect"]
          /\ waiters' = Append(RemoveFirst(waiters, Conn), Conn)
          /\ runq' = q
          /\ UNCHANGED <<pc, holder, running>>
    /\ cutLinks' = cutLinks \cup (IF pc[Conn] \in {"abort", "lock"} THEN {gen} \cap links
                                                                  ELSE {})
    /\ cancelReq' = cancelReq \ {Conn}
    /\ writeSession' = IF pc[Conn] = "writing" THEN 0 ELSE writeSession
    /\ UNCHANGED <<stopEvent, discEvent, orphaned, sessionVars, links, closing, failedLinks,
                   dataVars, gateVars>>

-----------------------------------------------------------------------------
(* Callbacks of the loop and the radio. *)

(* What p awaits is there: an I/O result, an I/O error or a timer.  MaxSessions
   bounds the retries. *)
Completes(p) ==
    /\ \/ pc[p] \in {"sleep", "estab", "notify", "writing", "abort", "disc"}
       \/ pc[p] = "retry" /\ gen < MaxSessions
    /\ ~Queued(p)
    /\ runq' = Append(runq, p)
    /\ UNCHANGED <<taskVars, lockVars, eventVars, sessionVars, linkVars, writeSession,
                   dataVars, gateVars>>

RequestDisconnect(s) ==
    /\ IsNext(s)
    /\ runq' = Wakes(Tail(runq))
    /\ discEvent' = TRUE
    /\ UNCHANGED <<taskVars, lockVars, stopEvent, cancelReq, orphaned, sessionVars, linkVars,
                   writeSession, dataVars, gateVars>>

LinkDrops(s) ==
    /\ "drop" \in Faults /\ s \in links
    /\ links' = links \ {s}
    /\ runq' = QueueAfterLoss(s, runq)
    /\ UNCHANGED <<taskVars, lockVars, eventVars, sessionVars, closing, failedLinks,
                   cutLinks, writeSession, dataVars, gateVars>>

(* Mutated form of Converge: a contradicting packet does not take back a
   confirmation that arrived during the write. *)
ConvergeSticky(g, x, ok, v) ==
    LET t == txn[g]
        match == v > t.source /\ ok /\ x = t.target
    IN
    /\ txn' = [txn EXCEPT ![g] =
           IF t = NoTxn \/ t.gen # activeGen \/ t.expired THEN NoTxn
           ELSE IF ~match THEN t
           ELSE IF t.phase = "AWAITING_CONFIRMATION" THEN NoTxn
           ELSE [t EXCEPT !.phase = "CONFIRMED"]]
    /\ blocked' = [blocked EXCEPT ![g] =
           IF t # NoTxn /\ t.gen = activeGen /\ t.expired THEN v + 1
           ELSE IF v >= blocked[g] THEN 0 ELSE blocked[g]]

(* What a packet of group g reporting x does to the pending transaction and to
   the ambiguity mark; v is the version the packet brings. *)
Converge(g, x, ok, v) ==
    LET t == txn[g]
        match == v > t.source /\ ok /\ x = t.target
    IN
    /\ txn' = [txn EXCEPT ![g] =
           IF t = NoTxn \/ t.gen # activeGen \/ t.expired THEN NoTxn
           ELSE IF match
                THEN IF t.phase = "AWAITING_CONFIRMATION" THEN NoTxn
                     ELSE [t EXCEPT !.phase = "CONFIRMED"]
           ELSE IF t.phase = "CONFIRMED" THEN [t EXCEPT !.phase = "SENDING"] ELSE t]
    /\ blocked' = [blocked EXCEPT ![g] =
           IF t # NoTxn /\ t.gen = activeGen /\ t.expired THEN v + 1
           ELSE IF v >= blocked[g] THEN 0 ELSE blocked[g]]

(* The notification handler made for session s still counts. *)
Current(s) == s = activeGen /\ s = client /\ s # 0

(* A notification subscribed in session s delivers packet k; a settings packet
   also carries the hardware revision. *)
Notification(s, k) ==
    LET g == k.group IN
    /\ Current(s)
    /\ version[g] < MaxVersion[g]
    /\ value' = [value EXCEPT ![g] = k.value]
    /\ plausible' = [plausible EXCEPT ![g] = k.plausible]
    /\ fresh' = [fresh EXCEPT ![g] = TRUE]
    /\ srcGen' = [srcGen EXCEPT ![g] = s]
    /\ version' = [version EXCEPT ![g] = version[g] + 1]
    /\ Converge(g, k.value, k.plausible, version[g] + 1)
    /\ ready' = (ready \/ g = "output")
    /\ revision' = IF g = "settings" THEN k.revision ELSE revision
    /\ UNCHANGED <<taskVars, lockVars, runq, eventVars, gen, activeGen, client, connected,
                   linkVars, writeSession>>

Stale(g) ==
    /\ fresh[g]
    /\ fresh' = [fresh EXCEPT ![g] = FALSE]
    /\ UNCHANGED <<taskVars, lockVars, runq, eventVars, sessionVars, linkVars, writeSession,
                   value, plausible, srcGen, version, gateVars>>

(* The shortest confirmation window (15 s) is longer than a write (10 s), so no
   deadline passes while a write is in progress. *)
DeadlinePasses(g) ==
    /\ txn[g].phase = "AWAITING_CONFIRMATION" /\ ~txn[g].expired
    /\ txn' = [txn EXCEPT ![g].expired = TRUE]
    /\ UNCHANGED <<taskVars, lockVars, runq, eventVars, sessionVars, linkVars, writeSession,
                   dataVars, blocked>>

-----------------------------------------------------------------------------
(* Steps of task p that the event loop runs once they are possible. *)
Run(p) ==
    \/ SendStatusRequest(p) \/ Submit(p) \/ Decline(p) \/ DisconnectClient(p)
    \/ WriteSucceeds(p) \/ WriteReturns(p) \/ WriteFails(p) \/ Disconnected(p)

Deliver(p) ==
    CancelResting(p) \/ CancelWaiting(p) \/ CancelWriting(p) \/ CancelDisconnect(p)

ConnStep ==
    \/ StartAttempt \/ EstablishFails \/ Established \/ Install
    \/ SubscribeFails \/ Subscribed \/ FirstRequestSent \/ Abort \/ SessionEnds

Callback ==
    \/ \E s \in 1..MaxSessions : LinkDrops(s)
    \/ \E s \in 1..MaxSessions, k \in Packets : Notification(s, k)
    \/ \E g \in Groups : Stale(g) \/ DeadlinePasses(g)

(* The task that is running, or else the head of the ready queue. *)
LoopStep ==
    \/ \E p \in Procs : Run(p)
    \/ ConnStep \/ RefreshFires
    \/ running = NoProc /\ \E s \in 1..MaxSessions : RequestDisconnect(s)

(* What async_stop has to wait for. *)
Stopping == CancelConnection \/ StopGathered \/ \E p \in cancelReq : Deliver(p)

Next ==
    \/ LoopStep
    \/ /\ running = NoProc
       /\ \/ \E p \in Callers : Reconnect(p) \/ \E o \in Calls : Call(p, o)
          \/ \E p \in Procs : Completes(p) \/ Deliver(p)
          \/ Stopping \/ StopBegins \/ Callback

Spec == Init /\ [][Next]_vars

-----------------------------------------------------------------------------
TaskType == pc \in [Procs -> PCs] /\ op \in [Procs -> Ops]

LockType ==
    /\ holder \in Procs \cup {NoProc} /\ running \in Procs \cup {NoProc}
    /\ waiters \in Seq(Procs) /\ runq \in Seq(Procs \cup Nat)

SessionType ==
    /\ stopEvent \in BOOLEAN /\ discEvent \in BOOLEAN
    /\ cancelReq \subseteq Procs /\ orphaned \in BOOLEAN
    /\ gen \in Nat /\ activeGen \in Nat /\ client \in Nat
    /\ connected \in BOOLEAN /\ ready \in BOOLEAN
    /\ revision \in {"none", "verified", "unverified"}
    /\ links \subseteq Nat /\ failedLinks \subseteq Nat /\ cutLinks \subseteq Nat
    /\ closing \in Nat /\ writeSession \in Nat

DataType ==
    /\ value \in [Groups -> Readings \cup {NoReading}]
    /\ plausible \in [Groups -> BOOLEAN] /\ fresh \in [Groups -> BOOLEAN]
    /\ srcGen \in [Groups -> Nat] /\ version \in [Groups -> Nat]

GateType == txn \in [Groups -> Transactions] /\ blocked \in [Groups -> Nat]

(* Every variable has its type; a transaction is there with all its fields or
   not at all. *)
TypeOK == TaskType /\ LockType /\ SessionType /\ DataType /\ GateType

HoldingPCs == {"notify", "writing", "disc"}

(* Where a task may be when the loop runs it again. *)
Awaits == HoldingPCs \cup {"sleep", "retry", "estab", "abort", "session", "lock"}

(* At most one task is between acquiring and releasing _operation_lock, it is
   the holder, and no task waits twice: the lock protocol survives cancelled
   waiters, hand-overs and the refresh that other tasks cancel. *)
LockDiscipline ==
    /\ \A p \in Procs : pc[p] \in HoldingPCs => holder = p
    /\ holder # NoProc => pc[holder] \in HoldingPCs \cup {"lock"}
    /\ \A i \in DOMAIN waiters : pc[waiters[i]] = "lock" /\ waiters[i] # holder
    /\ \A i, j \in DOMAIN waiters : i # j => waiters[i] # waiters[j]
    /\ waiters # <<>> => holder # NoProc

(* No wake-up is lost: who wants the lock waits in its queue or has been given it
   and woken, a set event has woken the connection task, and a link that dropped
   has asked for the end of its session or is about to, whoever was cancelled or
   overtaken meanwhile.  Nobody is woken twice, or to a wait that is over. *)
NoLostWakeup ==
    /\ \A p \in Procs : pc[p] = "lock" =>
           IF holder = p THEN running = p \/ Queued(p) ELSE Contains(waiters, p)
    /\ pc[Conn] = "session" /\ discEvent => Queued(Conn) \/ Conn \in cancelReq
    /\ connected /\ client \notin links =>
           \/ discEvent \/ Queued(client)
           \/ pc[Conn] = "abort" \/ op[Conn] = "disconnect"
    /\ \A p \in Procs : Queued(p) =>
           /\ running # p /\ pc[p] \in Awaits
           /\ pc[p] = "lock" => holder = p
           /\ pc[p] = "session" => discEvent
    /\ \A i, j \in DOMAIN runq : runq[i] = runq[j] /\ runq[i] \in Procs => i = j

(* While a GATT write is in progress the session it was started in stays the
   active one: no task re-activates a generation or drops the client under it. *)
WriteSessionStable ==
    \A p \in Procs : pc[p] = "writing" => ~SessionChanged

(* Readings count as evidence in the session that delivered them only, and the
   client is ready only while the session that delivered a status is active. *)
SessionEvidence ==
    /\ connected =>
           /\ \A g \in Groups : fresh[g] => srcGen[g] = client
           /\ revision # "none" => srcGen["settings"] = activeGen
    /\ ready => activeGen # 0 /\ srcGen["output"] = activeGen

(* A transaction is mid-submission exactly while its writer is inside the GATT
   write, and no transaction outlives its session. *)
NoStrandedTransaction ==
    \A g \in Groups :
        /\ txn[g].phase \in {"SENDING", "CONFIRMED"} =>
               \E p \in Procs : pc[p] = "writing" /\ IsCommand(op[p])
                                /\ GroupOf(op[p]) = g
        /\ txn[g] # NoTxn => txn[g].gen = activeGen

(* Once async_stop has returned nothing of the client is left: no client, no
   pending transaction, no task it owns and no delayed refresh. *)
StopQuiet ==
    pc[Stop] = "stopped" =>
        /\ client = 0 /\ activeGen = 0 /\ ~connected /\ ~ready
        /\ \A g \in Groups : txn[g] = NoTxn
        /\ \A p \in Owned \cup {Conn} : pc[p] = "done"
        /\ pc[Refresh] = "idle"

(* Every GATT link that is up belongs to the installed client, to a task that is
   disconnecting it, or was left behind by a disconnect that failed or was cut;
   where no disconnect has, at most one is up. *)
LinksKept ==
    /\ \A s \in links :
        \/ s = client
        \/ s = closing
        \/ s = gen /\ (pc[Conn] = "abort" \/ op[Conn] = "connect")
        \/ s \in failedLinks \cup cutLinks
    /\ failedLinks = {} /\ cutLinks = {} => \A s, t \in links : s = t

(* The gate each group shows to the next command. *)
GateOf(g) == IF txn[g] # NoTxn THEN "pending"
             ELSE IF Ambiguous(g) THEN "ambiguous" ELSE "open"

Gate == INSTANCE CommandGate WITH
            last <- gen, session <- activeGen, seen <- value,
            gate <- [g \in Groups |-> GateOf(g)],
            want <- [g \in Groups |-> txn[g].target]

(* The client implements CommandGate: no second command while one is
   unresolved, none confirmed without a reading that shows it, none forgotten
   when its write fails, times out or is cancelled. *)
ImplementsCommandGate == Gate!Spec

(* A disconnect request queued by one session never reaches another. *)
OldSessionsIsolated ==
    [][\A s \in 1..MaxSessions : RequestDisconnect(s) => activeGen \in {0, s}]_vars

(* async_stop returns with the Bluetooth link down, unless the adapter refused. *)
StopReleasesLink == pc[Stop] = "stopped" => links \subseteq failedLinks

-----------------------------------------------------------------------------
(* The loop takes tasks off its ready queue and delivers cancellations (each
   task is cancelled at most once), and no I/O result or timer is put off for
   ever.  Strong, because these steps are enabled only between the steps of tasks
   that do not suspend. *)
Fairness ==
    /\ WF_vars(running # NoProc /\ LoopStep)
    /\ SF_vars(running = NoProc /\ LoopStep)
    /\ SF_vars(running = NoProc /\ Stopping)
    /\ \A p \in Procs : SF_vars(running = NoProc /\ Completes(p))

FairSpec == Spec /\ Fairness

(* No caller waits for the operation lock for ever.  (The connection task's waits
   are part of LinkLossHandled, async_stop's of StopCompletes.) *)
LockWaitersServed == \A p \in Callers : pc[p] = "lock" ~> pc[p] # "lock"

(* A session whose link dropped stops counting as connected. *)
LinkLossHandled == connected /\ client \notin links ~> ~connected

(* async_stop terminates. *)
StopCompletes == pc[Stop] = "gather" ~> pc[Stop] = "stopped"
=============================================================================
