------------------------------- MODULE Reconnect -------------------------------
(***************************************************************************)
(* How the client comes back: the connection loop with its retries and      *)
(* their back-off (client.py, _connection_loop, _wait_for_retry_trigger),   *)
(* the advertisements that cut a wait short, the requests that end a        *)
(* session, and the Repair issues that the coordinator derives from every   *)
(* update (repairs.py).  Issues are stored by Home Assistant and outlive a   *)
(* crash; the manager that owns them does not.                              *)
(***************************************************************************)
EXTENDS Naturals

CONSTANTS
    Caps,               \* reconnect_max_delay values the user may choose
    Initial,            \* 1.0 s, in units of the back-off
    Faults,             \* "route", "establish", "greet", "link": what may fail
    Asks,               \* "user", "watchdog": who may ask for a reconnection
    Restarts,           \* "stop": the entry is unloaded, maybe as Core stops;
                        \* "crash": Core dies
    MaxAds,             \* bound on the advertisements of one runtime
    MaxResets,          \* bound on its watchdog resets
    MaxDoubled          \* bound on the history of waits, above every maximum

Persistence == 3        \* NO_ROUTE_PERSISTENCE_UPDATES, WATCHDOG_RESET_PERSISTENCE

ASSUME ReconnectAssumption ==
    /\ Initial \in Nat \ {0} /\ Caps # {}
    /\ Caps \subseteq {c \in Nat : c >= Initial}
    /\ MaxAds \in Nat /\ MaxResets \in Nat
    /\ MaxDoubled \in Nat /\ \A c \in Caps : c <= MaxDoubled

None == MaxAds + 1      \* no callback queued

VARIABLES
    pc,                 \* where the connection task is
    generation,         \* _advertisement_generation
    event,              \* _advertisement_event
    after, retryAfter,  \* retry_after_generation, _retry_after_advertisement_generation
    asked,              \* _disconnect_event
    queued,             \* generation of a link loss the loop has yet to hear of
    active,             \* _active_session_generation is this attempt's
    link,               \* the installed client is connected
    connected,          \* _connected
    dropping,           \* "due": a reconnection is to disconnect the client;
                        \* "late": behind the loop; else "no"
    fresh,              \* the last status reading is recent
    lastError,          \* _last_error: "none", "route" or "other"
    resets,             \* watchdog_resets
    cap, delay, timeout,\* reconnect_max_delay, the back-off, the present wait
    manager,            \* _RepairTrackingState
    issues,             \* the entry's issues in the issue registry
    heard,              \* history: an advertisement since the attempt began or
                        \* a disconnection was last requested
    doubled,            \* history: Initial, doubled for each wait that ran out
                        \* since the last success
    failures,           \* history: consecutive attempts without a route
    silent              \* history: resets since a session showed fresh status

attempt == <<active, link, connected, dropping>>
retry   == <<after, retryAfter, asked, queued>>
ads     == <<generation, event, heard>>
pace    == <<cap, delay, timeout, doubled>>
repairs == <<manager, issues>>
told    == <<lastError, fresh, resets, silent, failures>>
vars    == <<pc, attempt, retry, ads, pace, repairs, told>>

Lesser(a, b)  == IF a <= b THEN a ELSE b
Greater(a, b) == IF a >= b THEN a ELSE b

-----------------------------------------------------------------------------
(* Repairs: what one coordinator update does to the manager and the issues. *)

Manager == [streak : 0..Persistence, baseline : 0..MaxResets,
            shown : SUBSET {"route", "watchdog"}]
NewManager == [streak |-> 0, baseline |-> 0, shown |-> {}]

Repairs(m, i) == [manager |-> m, issues |-> i]
Raise(r, issue)   == Repairs([r.manager EXCEPT !.shown = @ \cup {issue}],
                             r.issues \cup {issue})
Dismiss(r, issue) == IF issue \in r.manager.shown
    THEN Repairs([r.manager EXCEPT !.shown = @ \ {issue}], r.issues \ {issue})
    ELSE r

(* _evaluate_persistent_no_route *)
EvaluateRoute(r, isConnected, error) ==
    IF ~isConnected /\ error = "route"
    THEN LET streak  == Lesser(r.manager.streak + 1, Persistence)
             counted == [r EXCEPT !.manager.streak = streak]
         IN  IF streak = Persistence THEN Raise(counted, "route") ELSE counted
    ELSE Dismiss([r EXCEPT !.manager.streak = 0], "route")

(* _evaluate_repeated_watchdog *)
EvaluateWatchdog(r, isFresh, count) ==
    IF count - r.manager.baseline >= Persistence /\ ~isFresh THEN Raise(r, "watchdog")
    ELSE IF isFresh THEN Dismiss([r EXCEPT !.manager.baseline = count], "watchdog")
    ELSE r

(* _handle_client_update, with what the client's snapshot says. *)
Evaluate(r, isConnected, error, count, isFresh) ==
    EvaluateWatchdog(EvaluateRoute(r, isConnected, error), isConnected /\ isFresh, count)

Becomes(r) == manager' = r.manager /\ issues' = r.issues

(* _emit_update at the end of a step, and one in its course. *)
Emit == Becomes(Evaluate(Repairs(manager, issues), connected', lastError', resets', fresh'))
EmitTwice(isConnected, error) ==
    Becomes(Evaluate(Evaluate(Repairs(manager, issues), isConnected, error, resets, fresh),
                     connected', lastError', resets', fresh'))

(* A session that shows fresh status ends what the history calls silence. *)
Silence(n) == silent' = IF pc' = "session" /\ connected' /\ fresh' THEN 0
                        ELSE Lesser(n, Persistence)

-----------------------------------------------------------------------------
(* Setup and unloading. *)

Init ==
    /\ pc = "off" /\ cap \in Caps /\ issues = {}
    /\ generation = 0 /\ event = FALSE /\ after = 0 /\ retryAfter = 0
    /\ asked = FALSE /\ queued = None
    /\ active = FALSE /\ link = FALSE /\ connected = FALSE /\ dropping = "no"
    /\ fresh = FALSE /\ lastError = "none" /\ resets = 0
    /\ delay = Initial /\ timeout = 0 /\ manager = NewManager
    /\ heard = FALSE /\ doubled = Initial /\ failures = 0 /\ silent = 0

(* async_setup_entry, up to the start of the connection task.  The manager's *)
(* first look at the snapshot finds nothing to tell.                         *)
Start == /\ pc = "off" /\ pc' = "top"
         /\ UNCHANGED <<attempt, retry, ads, pace, repairs, told>>

(* The runtime is gone, and the next client and manager have heard, tried and *)
(* counted nothing; the issues are as they are left.                          *)
Gone(left) ==
    /\ pc' = "off" /\ cap' = cap /\ issues' = left
    /\ generation' = 0 /\ event' = FALSE /\ after' = 0 /\ retryAfter' = 0
    /\ asked' = FALSE /\ queued' = None
    /\ active' = FALSE /\ link' = FALSE /\ connected' = FALSE /\ dropping' = "no"
    /\ fresh' = FALSE /\ lastError' = "none" /\ resets' = 0
    /\ delay' = Initial /\ timeout' = 0 /\ manager' = NewManager
    /\ heard' = FALSE /\ doubled' = Initial /\ failures' = 0 /\ silent' = 0

(* async_shutdown of the coordinator: issues are cleared, callbacks released *)
(* and the client stopped.                                                   *)
Shutdown == /\ "stop" \in Restarts /\ pc # "off"
            /\ Gone(issues \ manager.shown)

(* Core crashes or is killed: nothing is unloaded, and the stored issues come *)
(* back without the manager that knew of them.                                *)
Crash == /\ "crash" \in Restarts /\ pc # "off"
         /\ Gone(issues)

-----------------------------------------------------------------------------
(* One round of the connection loop. *)

(* The loop starts over; the update that tells of it still carries the error *)
(* of the attempt before.  Without a route, or for a model that is not       *)
(* supported, the attempt ends at once.                                      *)
Attempt ==
    /\ pc = "top" /\ dropping # "due"
    /\ asked' = FALSE /\ after' = generation /\ heard' = FALSE
    /\ active' = TRUE
    /\ Becomes(Evaluate(Repairs(manager, issues), connected, lastError, resets, fresh))
    /\ \/ /\ pc' = "establish" /\ failures' = 0 /\ UNCHANGED lastError
       \/ /\ "route" \in Faults /\ pc' = "closing"
          /\ lastError' = "route" /\ failures' = Lesser(failures + 1, Persistence)
       \/ /\ "establish" \in Faults /\ pc' = "closing"
          /\ lastError' = "other" /\ failures' = 0
    /\ UNCHANGED <<retryAfter, queued, link, connected, dropping, generation, event, pace,
                   fresh, resets, silent>>

(* The link is up and installed under the lock; readings count as never seen. *)
Install ==
    /\ pc = "establish" /\ dropping = "no"
    /\ pc' = "notify" /\ link' = TRUE /\ fresh' = FALSE
    /\ UNCHANGED <<active, connected, dropping, retry, ads, pace, repairs,
                   lastError, resets, silent, failures>>

(* Notifications are on: the session counts as connected, the status request *)
(* is being written.                                                         *)
Subscribed ==
    /\ pc = "notify"
    /\ pc' = "greet" /\ connected' = TRUE /\ lastError' = "none"
    /\ UNCHANGED <<active, link, dropping, retry, ads, pace, repairs,
                   fresh, resets, silent, failures>>

GreetedSilently ==  \* mutant: _connect_once returns without an update
    /\ pc = "greet" /\ active /\ link
    /\ pc' = "session" /\ delay' = Initial /\ doubled' = Initial
    /\ UNCHANGED <<attempt, retry, ads, cap, timeout, repairs, lastError, fresh,
                   resets, failures>>
    /\ Silence(silent)

(* _connect_once returns, and _connection_loop begins to wait for the end. *)
Greeted ==
    /\ pc = "greet" /\ active /\ link
    /\ pc' = "session" /\ delay' = Initial /\ doubled' = Initial
    /\ UNCHANGED <<attempt, retry, ads, cap, timeout, lastError, fresh, resets, failures>>
    /\ Emit /\ Silence(silent)

(* The attempt fails between the route and the session.  A write that fails  *)
(* also asks for the end of the session it greets.                           *)
AttemptFails ==
    /\ \/ pc = "establish" /\ "establish" \in Faults
       \/ pc \in {"notify", "greet"} /\ ("greet" \in Faults \/ ~active \/ ~link)
    /\ pc' = "closing" /\ lastError' = "other"
    /\ UNCHANGED <<attempt, after, queued, generation, event, pace, fresh, resets, silent,
                   failures>>
    /\ \/ UNCHANGED <<retryAfter, asked, heard, repairs>>
       \/ /\ pc = "greet" /\ retryAfter' = generation /\ asked' = TRUE
          /\ heard' = FALSE /\ Emit

RetryAfterNow ==  \* mutant: the generation is read when the attempt is over
    generation

(* Only advertisements that came later than this cut the next wait short. *)
RetryAfter == IF pc = "session" THEN Greater(after, retryAfter) ELSE after

(* A session ends when the loop hears that somebody asked for it. *)
SessionEnds ==
    /\ pc = "session" /\ asked
    /\ pc' = "ending" /\ after' = RetryAfter
    /\ UNCHANGED <<attempt, retryAfter, asked, queued, ads, pace, repairs, told>>

Spread(d) == (d * 15) \div 100      \* _RECONNECT_JITTER_RATIO

JitteredAfterCap(d) ==  \* mutant: the jitter goes on top of the bound
    LET bounded == Lesser(d, cap)
    IN  {bounded - Spread(bounded), bounded, bounded + Spread(bounded)}

(* _retry_delay_with_jitter: the extremes and the middle of the jitter. *)
Jittered(d) ==
    LET bounded == Lesser(d, cap)
    IN  {Lesser(j, cap) : j \in {bounded - Spread(bounded), bounded,
                                 bounded + Spread(bounded)}}

(* The client is disconnected and the end of the attempt told, also in the   *)
(* finally clause; then _wait_for_retry_trigger looks for an advertisement   *)
(* that the attempt missed before it sleeps.                                 *)
Closed ==
    /\ pc \in {"closing", "ending"} /\ dropping # "due"
    /\ active' = FALSE /\ link' = FALSE /\ connected' = FALSE
    /\ \/ /\ generation > after
          /\ pc' = "top" /\ delay' = Initial /\ doubled' = Initial
          /\ UNCHANGED <<event, timeout>>
       \/ /\ generation <= after
          /\ event' = FALSE
          /\ \/ /\ pc = "ending" /\ pc' = "resting" /\ timeout' = Lesser(Initial, cap)
             \/ /\ pc = "closing" /\ pc' = "waiting" /\ timeout' \in Jittered(delay)
          /\ UNCHANGED <<delay, doubled>>
    /\ UNCHANGED <<dropping, retry, generation, heard, cap, told>>
    /\ IF connected THEN EmitTwice(FALSE, lastError) ELSE Emit

(* Woken by an advertisement, the wait ends if it is new enough. *)
WokenByAdvertisement ==
    /\ pc \in {"waiting", "resting"} /\ event
    /\ \/ /\ generation > after /\ pc' = "top" /\ delay' = Initial /\ doubled' = Initial
          /\ timeout' = 0 /\ UNCHANGED event
       \/ /\ generation <= after /\ event' = FALSE /\ UNCHANGED <<pc, delay, timeout, doubled>>
    /\ UNCHANGED <<attempt, retry, generation, heard, cap, repairs, told>>

GivesUp ==  \* mutant: only an advertisement ends the wait after a failure
    /\ pc = "resting" /\ pc' = "top" /\ timeout' = 0
    /\ delay' = Initial /\ doubled' = Initial
    /\ UNCHANGED <<attempt, retry, ads, cap, repairs, told>>

(* The wait runs out; the next one after a failure is twice as long. *)
WaitRunsOut ==
    /\ pc \in {"waiting", "resting"} /\ pc' = "top" /\ timeout' = 0
    /\ \/ pc = "resting" /\ delay' = Initial /\ doubled' = Initial
       \/ pc = "waiting" /\ delay' = Lesser(2 * delay, cap)
          /\ doubled' = Lesser(2 * doubled, MaxDoubled)
    /\ UNCHANGED <<attempt, retry, ads, cap, repairs, told>>

-----------------------------------------------------------------------------
(* What happens around the loop. *)

(* update_advertisement; an update only if name, model or signal changed. *)
Advertise(changed) ==
    /\ pc # "off" /\ generation < MaxAds
    /\ generation' = generation + 1 /\ event' = TRUE /\ heard' = TRUE
    /\ UNCHANGED <<pc, attempt, retry, pace, told>>
    /\ IF changed THEN Emit ELSE UNCHANGED repairs

(* The link drops: _make_disconnected_callback hands the loop the generation *)
(* of this moment, for a session that is still the installed one.            *)
LinkLost ==
    /\ "link" \in Faults /\ link /\ link' = FALSE
    /\ IF active /\ queued = None
       THEN queued' = generation /\ heard' = FALSE
       ELSE UNCHANGED <<queued, heard>>
    /\ UNCHANGED <<pc, active, connected, dropping, after, retryAfter, asked,
                   generation, event, pace, repairs, told>>

(* The loop runs the callback, perhaps after the session has ended. *)
LinkLossHeard ==
    /\ queued # None /\ queued' = None
    /\ retryAfter' = queued /\ asked' = TRUE
    /\ UNCHANGED <<pc, attempt, after, ads, pace, repairs, told>>

(* async_reconnect, up to the operation lock, for which it queues. *)
Ask ==
    /\ lastError' = "other" /\ asked' = TRUE /\ retryAfter' = generation
    /\ heard' = FALSE
    /\ dropping' = IF pc \in {"closing", "ending"} THEN "late" ELSE "due"
    /\ UNCHANGED <<pc, active, link, connected, after, queued, generation, event, pace,
                   repairs, fresh, failures>>

UserAsks == /\ "user" \in Asks /\ pc # "off" /\ dropping = "no"
            /\ Ask /\ UNCHANGED <<resets, silent>>

(* The watchdog of the maintenance loop: no status in time. *)
WatchdogAsks ==
    /\ "watchdog" \in Asks /\ connected /\ ~fresh /\ dropping = "no" /\ resets < MaxResets
    /\ Ask /\ resets' = resets + 1 /\ Silence(silent + 1)

(* Its _disconnect_client, when the lock is free. *)
Dropped ==
    /\ dropping # "no" /\ pc \notin {"notify", "greet"}
    /\ dropping' = "no" /\ active' = FALSE /\ link' = FALSE /\ connected' = FALSE
    /\ UNCHANGED <<pc, retry, ads, pace, told>>
    /\ IF connected THEN Emit ELSE UNCHANGED repairs

(* A write of the session fails: _write_frame_unlocked asks for its end. *)
WriteFails ==
    /\ "link" \in Faults /\ pc = "session" /\ connected
    /\ lastError' = "other" /\ retryAfter' = generation /\ asked' = TRUE /\ heard' = FALSE
    /\ UNCHANGED <<pc, attempt, after, queued, generation, event, pace, fresh, resets,
                   silent, failures>>
    /\ Emit

(* A status notification of the session. *)
StatusArrives ==
    /\ active /\ link /\ pc \in {"notify", "greet", "session"}
    /\ fresh' = TRUE
    /\ UNCHANGED <<pc, attempt, retry, ads, pace, lastError, resets, failures>>
    /\ Emit /\ Silence(silent)

StatusAges == /\ fresh /\ fresh' = FALSE
              /\ UNCHANGED <<pc, attempt, retry, ads, pace, repairs, lastError, resets,
                             silent, failures>>

(* Any other update of a session: freshness told by the maintenance loop,   *)
(* settings, names, noise, commands that fail.                               *)
Update == /\ connected \/ (active /\ link)
          /\ UNCHANGED <<pc, attempt, retry, ads, pace, told>> /\ Emit

(* async_apply_options of a new reconnect_max_delay. *)
ApplyOptions(c) ==
    /\ pc # "off" /\ c # cap /\ cap' = c
    /\ UNCHANGED <<pc, attempt, retry, ads, delay, timeout, doubled, told>> /\ Emit

Loop == \/ Attempt \/ Install \/ Subscribed \/ Greeted \/ AttemptFails
        \/ SessionEnds \/ Closed \/ WokenByAdvertisement \/ WaitRunsOut

Around == \/ \E changed \in BOOLEAN : Advertise(changed)
          \/ LinkLost \/ LinkLossHeard \/ UserAsks \/ WatchdogAsks \/ Dropped
          \/ WriteFails \/ StatusArrives \/ StatusAges \/ Update
          \/ \E c \in Caps : ApplyOptions(c)

Next == Start \/ Shutdown \/ Crash \/ Loop \/ Around

Spec == Init /\ [][Next]_vars

(* The event loop runs what is ready, I/O completes or times out, waits run  *)
(* out; nobody has to ask, advertise or answer.                              *)
Fairness ==
    /\ WF_vars(Attempt) /\ WF_vars(Install \/ AttemptFails) /\ WF_vars(Subscribed)
    /\ WF_vars(Greeted \/ AttemptFails) /\ WF_vars(SessionEnds) /\ WF_vars(Closed)
    /\ WF_vars(WaitRunsOut) /\ WF_vars(LinkLossHeard) /\ WF_vars(Dropped)

FairSpec == Spec /\ Fairness

-----------------------------------------------------------------------------
(* Properties. *)

(* Every variable has its type; what was read of the generation is in the past. *)
TypeOK ==
    /\ pc \in {"off", "top", "establish", "notify", "greet", "session", "closing", "ending",
               "waiting", "resting"}
    /\ {event, asked, active, link, connected, fresh, heard} \subseteq BOOLEAN
    /\ generation \in 0..MaxAds /\ {after, retryAfter} \subseteq 0..generation
    /\ queued \in 0..generation \cup {None}
    /\ dropping \in {"no", "due", "late"} /\ lastError \in {"none", "route", "other"}
    /\ resets \in 0..MaxResets /\ failures \in 0..Persistence /\ silent \in 0..Persistence
    /\ cap \in Caps /\ {delay, timeout, doubled} \subseteq Nat
    /\ manager \in Manager /\ issues \subseteq {"route", "watchdog"}

(* No advertisement is slept through: while the loop waits without having     *)
(* been woken, none has come since its attempt began or its session was asked *)
(* to end, however the two raced (client.py, the generation read at the top   *)
(* of _connection_loop, after_generation and the clear in                     *)
(* _wait_for_retry_trigger).                                                  *)
AdvertisementHeard == pc \in {"waiting", "resting"} /\ ~event => ~heard

(* The back-off spares the adapters: after n waits in a row that ran out, the *)
(* next is 2^n seconds less the jitter, or at least the shortest maximum less *)
(* the jitter, and never above the maximum in force, whatever advertisements, *)
(* sessions and options did in between.                                       *)
Doubling(c) == Lesser(doubled, c)
BackoffPaced ==
    [][pc # "waiting" /\ pc' = "waiting" =>
          /\ timeout' <= cap
          /\ \E c \in Caps : timeout' >= Doubling(c) - Spread(Doubling(c))]_vars

(* The manager never holds a no-route issue against a session, nor between    *)
(* attempts of which the last one had a route: every way out of an attempt    *)
(* leads through an update that tells of it.  It holds a watchdog issue only  *)
(* after three resets that no fresh status of a session came between.         *)
IssuesEarned ==
    /\ "route" \in manager.shown =>
           /\ pc \notin {"session", "ending", "resting"}
           /\ pc \in {"waiting", "top"} => failures > 0
    /\ "watchdog" \in manager.shown => silent >= Persistence

(* A session that has lost its link, or whatever is left of an attempt, is    *)
(* followed by another attempt, also when no advertisement ever comes.        *)
AlwaysReturns == (pc \in {"session", "waiting"} /\ ~link) ~> (pc \in {"top", "off"})

(* docs/troubleshooting.md:137: persistent_no_route is "created only after    *)
(* repeated no-route failures".  One failure is enough: what is counted are   *)
(* updates, and an advertisement and the start of the next attempt, which may *)
(* be about to succeed, make two more.                                        *)
RepeatedFailuresOnly ==
    [][\A issue \in issues' \ issues : issue = "route" => failures' > 1]_vars
=============================================================================
