--------------------------- MODULE MaintenanceLoop ---------------------------
(***************************************************************************)
(* The client's maintenance task over time (client.py, _maintenance_loop):  *)
(* watchdogs, settings keepalive, status poll and freshness reports, and    *)
(* the waits between them.  Around it run the connection task, whose        *)
(* session the loop looks after, notifications, users' commands, which hold *)
(* the operation lock across their writes, and option changes.  Time is a   *)
(* counter; 0 as a time stamp stands for None, and one unit is the shortest *)
(* wait of the loop (0.001 s).  Whatever is ready runs before time passes   *)
(* (Tick).                                                                  *)
(***************************************************************************)
EXTENDS Naturals

CONSTANTS
    Options,            \* validated ConnectionOptions the user may choose
    Inputs,             \* notifications without settings: "status", "name", "noise"
    Verdicts,           \* what settings packets allow: "good", "implausible", "readonly"
    Commands,           \* what users do: "settings", "output", "refresh", "options"
    Callers,            \* bound on users' calls that wait for the lock at a time
    RetryMax,           \* _SETTINGS_KEEPALIVE_RETRY_MAX_DELAY
    IoTimeout,          \* WRITE_TIMEOUT, and what bounds start_notify
    Horizon             \* bound on the clock

Groups == {"status", "settings"}
OptionSet == [status_interval : Nat \ {0}, stale : [Groups -> Nat], watchdog : Nat,
              keepalive : BOOLEAN, keepalive_interval : Nat \ {0}]

(* The relations that ConnectionOptions.validate demands, and what its least *)
(* values imply: no poll interval is below a write's timeout, and those of   *)
(* keepalives outlast a write and a retry.                                   *)
Validated(o) ==
    /\ o.status_interval >= IoTimeout /\ o.keepalive_interval > IoTimeout + 1
    /\ o.keepalive_interval >= RetryMax
    /\ o.stale["status"] > o.status_interval
    /\ o.watchdog > o.stale["status"]
    /\ o.keepalive => o.stale["settings"] > o.keepalive_interval

ASSUME MaintenanceAssumption ==
    /\ Options # {} /\ Options \subseteq {o \in OptionSet : Validated(o)}
    /\ Inputs \subseteq {"status", "name", "noise"}
    /\ Verdicts \subseteq {"good", "implausible", "readonly"}
    /\ IoTimeout \in Nat \ {0} /\ RetryMax \in Nat /\ RetryMax > IoTimeout
    /\ Callers \in Nat /\ Horizon \in Nat

VARIABLES
    now,                \* _loop_time()
    opts,               \* _options
    phase,              \* where the connection task is with its session
    linkUp,             \* client.is_connected of the installed client
    dropping,           \* _disconnect_event
    connectedAt,        \* _connected_monotonic
    seenAt,             \* _status_monotonic and _settings_monotonic
    packetAt,           \* _last_packet_monotonic
    requestAt,          \* _last_status_request_monotonic
    keepaliveAt,        \* _last_settings_keepalive_monotonic
    attemptAt,          \* _last_settings_keepalive_attempt_monotonic
    initial,            \* _initial_settings_keepalive_pending
    verdict,            \* what the session's last settings packet allows
    txn, confirmBy,     \* pending settings transaction and its deadline
    reported,           \* _reported_freshness
    published,          \* freshness when entities were last updated
    pc, timer, wakeup,  \* the maintenance task, its wait, _maintenance_wakeup
    passAt,             \* `now' of its pass, then of its keepalive
    user, userAt,       \* the user's write under _operation_lock, and its `now'
    ahead,              \* users' calls that get the lock before who else asks for it
    behind,             \* the task asked for it after the connection task
    ioBy                \* when the I/O under _operation_lock times out

session == <<phase, linkUp, dropping, connectedAt, ioBy>>
using   == <<user, userAt, ahead, behind>>
heard   == <<seenAt, packetAt, verdict>>
sent    == <<requestAt, keepaliveAt, attemptAt, initial>>
pending == <<txn, confirmBy>>
shown   == <<reported, published>>
task    == <<pc, timer, passAt>>
vars    == <<now, opts, session, heard, sent, pending, shown, using, task, wakeup>>

Never == [g \in Groups |-> 0]
Stale == [g \in Groups |-> FALSE]

Init ==
    /\ now = 1 /\ opts \in Options
    /\ phase = "down" /\ linkUp = FALSE /\ dropping = FALSE /\ connectedAt = 0
    /\ seenAt = Never /\ packetAt = 0 /\ verdict = "none"
    /\ requestAt = 0 /\ keepaliveAt = 0 /\ attemptAt = 0 /\ initial = FALSE
    /\ txn = "open" /\ confirmBy = 0
    /\ reported = Stale /\ published = Stale
    /\ pc = "wait" /\ timer = 0 /\ wakeup = FALSE /\ passAt = 0 /\ ioBy = 0
    /\ user = "none" /\ userAt = 0 /\ ahead = Callers /\ behind = FALSE

-----------------------------------------------------------------------------
(* What the time stamps say. *)

connected == phase \in {"greet", "up", "closing"}

Either(at, other) == IF at # 0 THEN at ELSE other
Least(a, b)   == IF a <= b THEN a ELSE b
Greatest(a, b) == IF a >= b THEN a ELSE b

(* _freshness, of readings seen at these times under these options. *)
Freshness(seen, o) ==
    [g \in Groups |-> connected /\ seen[g] # 0 /\ now - seen[g] <= o.stale[g]]

StatusReference    == Either(seenAt["status"], connectedAt)
PacketReference    == Either(packetAt, connectedAt)
KeepaliveReference == Either(keepaliveAt, Either(seenAt["settings"], connectedAt))

RetryDelay == Least(opts.status_interval, RetryMax)

SendInitialAgain ==  \* mutant: the flag is not consulted
    seenAt["settings"] # 0 /\ now - seenAt["settings"] <= opts.stale["settings"]

(* _settings_keepalive_deadline; 0 is None. *)
SendInitial ==
    /\ initial /\ seenAt["settings"] # 0
    /\ now - seenAt["settings"] <= opts.stale["settings"]

KeepaliveDeadline ==
    LET deadline == IF SendInitial THEN seenAt["settings"]
                    ELSE KeepaliveReference + opts.keepalive_interval
    IN  IF ~opts.keepalive \/ (~SendInitial /\ KeepaliveReference = 0) THEN 0
        ELSE IF attemptAt # 0 /\ attemptAt >= deadline THEN attemptAt + RetryDelay
        ELSE deadline

(* The deadlines of _next_maintenance_deadline. *)
Deadlines ==
    (IF StatusReference # 0 THEN {StatusReference + opts.watchdog} ELSE {})
    \cup (IF PacketReference # 0 THEN {PacketReference + opts.watchdog} ELSE {})
    \cup {IF requestAt = 0 THEN now ELSE requestAt + opts.status_interval}
    \cup (IF KeepaliveDeadline # 0 THEN {KeepaliveDeadline} ELSE {})
    \cup {seenAt[g] + opts.stale[g] :
             g \in {h \in Groups : seenAt[h] # 0 /\ now <= seenAt[h] + opts.stale[h]}}

NextDeadline == CHOOSE d \in Deadlines : \A e \in Deadlines : d <= e

-----------------------------------------------------------------------------
(* The operation lock, and who is ready to run. *)

LockFree == /\ phase \notin {"notify", "greet"} /\ user = "none"
            /\ pc \notin {"keeping", "polling", "recovering"}
Asking   == pc \in {"ask_keepalive", "ask_poll", "ask_recover", "ask_drop"}
Due      == pc = "wait" /\ (wakeup \/ (timer # 0 /\ now >= timer))

Ready == \/ pc \in {"run", "rest"} \/ Due
         \/ phase = "up" /\ dropping
         \/ LockFree /\ (Asking \/ phase = "closing")
         \/ ~LockFree /\ now >= ioBy

Tick == now < Horizon /\ ~Ready /\ now' = now + 1
        /\ UNCHANGED <<opts, session, heard, sent, pending, shown, using, task, wakeup>>

(* The lock is handed over in the order of asking.  Of the users' calls that *)
(* queue up, only those before the task, or before the connection task and   *)
(* its disconnect, get it first.                                             *)
Ask(place) == pc' = place /\ behind' = (phase = "closing") /\ ahead' = Callers
Gets       == LockFree /\ ~(behind /\ phase = "closing")
GoesFirst  == LET others == Asking \/ phase = "closing"
              IN  /\ others => ahead > 0
                  /\ ahead' = IF others THEN ahead - 1 ELSE ahead
                  /\ UNCHANGED behind

-----------------------------------------------------------------------------
TellAsleep(seen, o) ==  \* mutant: the loop is not woken
    reported' = Freshness(seen, o) /\ published' = reported' /\ wakeup' = wakeup
TellSilent(seen, o) ==  \* mutant: entities are not updated
    reported' = Freshness(seen, o) /\ published' = published /\ wakeup' = TRUE

(* Entities see the freshness of this moment, and the loop is woken. *)
Tell(seen, o) ==
    reported' = Freshness(seen, o) /\ published' = reported' /\ wakeup' = TRUE

-----------------------------------------------------------------------------
(* The connection task. *)

(* _disconnect_client, which wakes the maintenance loop. *)
Reset ==
    /\ phase' = "down" /\ linkUp' = FALSE /\ connectedAt' = 0
    /\ verdict' = "none" /\ txn' = "open" /\ confirmBy' = 0
    /\ initial' = FALSE /\ attemptAt' = 0
    /\ reported' = Stale /\ published' = Stale /\ wakeup' = TRUE
    /\ UNCHANGED <<seenAt, packetAt, requestAt, keepaliveAt, ioBy>>

(* A new client is installed under the lock and its notifications started. *)
Install ==
    /\ phase = "down" /\ LockFree /\ ~Asking
    /\ phase' = "notify" /\ linkUp' = TRUE /\ dropping' = FALSE
    /\ ioBy' = now + IoTimeout
    /\ seenAt' = Never /\ packetAt' = 0 /\ requestAt' = 0 /\ keepaliveAt' = 0
    /\ attemptAt' = 0 /\ initial' = opts.keepalive
    /\ txn' = "open" /\ confirmBy' = 0 /\ reported' = Stale
    /\ UNCHANGED <<now, opts, connectedAt, verdict, published, using, task, wakeup>>

NotifyFails ==
    /\ phase = "notify" /\ Reset
    /\ UNCHANGED <<now, opts, dropping, using, task>>

(* Notifications run: the session counts as connected, and is greeted. *)
Notified ==
    /\ phase = "notify"
    /\ phase' = "greet" /\ connectedAt' = now /\ ioBy' = now + IoTimeout
    /\ UNCHANGED <<now, opts, linkUp, dropping, heard, sent, pending, shown,
                   using, task, wakeup>>

Greeted ==
    /\ phase = "greet" /\ linkUp
    /\ phase' = "up" /\ requestAt' = now /\ wakeup' = TRUE
    /\ published' = Freshness(seenAt, opts)
    /\ UNCHANGED <<now, opts, linkUp, dropping, connectedAt, ioBy, heard,
                   keepaliveAt, attemptAt, initial, pending,
                   reported, using, task>>

(* The connection task asks for the lock to disconnect. *)
Close == phase' = "closing" /\ ahead' = (IF Asking THEN ahead ELSE Callers)

(* A write error asks for the disconnect; a dead link is only reported. *)
GreetFails ==
    /\ phase = "greet" /\ Close
    /\ dropping' = TRUE \/ (~linkUp /\ dropping' = dropping)
    /\ UNCHANGED <<now, opts, linkUp, connectedAt, ioBy, heard, sent, pending,
                   shown, user, userAt, behind, task, wakeup>>

Dropped ==
    /\ phase = "up" /\ dropping /\ Close
    /\ UNCHANGED <<now, opts, linkUp, dropping, connectedAt, ioBy, heard, sent, pending,
                   shown, user, userAt, behind, task, wakeup>>

Disconnect ==
    /\ phase = "closing" /\ LockFree /\ (Asking => behind) /\ Reset
    /\ UNCHANGED <<now, opts, dropping, using, task>>

(* The link of the installed client dies, and its callback runs. *)
LinkLost ==
    /\ phase # "down" /\ linkUp
    /\ linkUp' = FALSE /\ dropping' = TRUE
    /\ UNCHANGED <<now, opts, phase, connectedAt, ioBy, heard, sent, pending,
                   shown, using, task, wakeup>>

-----------------------------------------------------------------------------
(* Notifications, each with one packet or with noise only. *)

Arrives == phase # "down" /\ linkUp

Heard ==
    /\ Tell(seenAt', opts)
    /\ UNCHANGED <<now, opts, session, requestAt, keepaliveAt, initial, using, task>>

Receive(i) ==
    /\ Arrives
    /\ seenAt' = IF i = "status" THEN [seenAt EXCEPT !["status"] = now] ELSE seenAt
    /\ packetAt' = IF i = "noise" THEN packetAt ELSE now
    /\ UNCHANGED <<verdict, pending, attemptAt>> /\ Heard

(* The pending transaction after a settings packet that allows v and, if     *)
(* matching, shows its target.                                               *)
NextTxn(v, matching) ==
    IF txn \in {"open", "blocked"} THEN "open"
    ELSE IF now > confirmBy THEN "blocked"
    ELSE IF matching /\ v # "implausible" THEN
        IF txn = "awaiting" THEN "open" ELSE "confirmed"
    ELSE IF txn = "confirmed" THEN "sending" ELSE txn

ReceiveSettings(v, matching) ==
    /\ Arrives
    /\ seenAt' = [seenAt EXCEPT !["settings"] = now] /\ packetAt' = now
    /\ verdict' = v /\ txn' = NextTxn(v, matching) /\ UNCHANGED confirmBy
    /\ attemptAt' = IF txn' = "open" THEN 0 ELSE attemptAt
    /\ Heard

-----------------------------------------------------------------------------
(* Writes of settings: _safe_settings_snapshot and the capability. *)

Capable  == verdict \in {"good", "implausible"}
Readable == connected /\ ~dropping
Missed   == txn \in {"sending", "confirmed", "awaiting"} /\ now > confirmBy
Writable == /\ Capable /\ Readable /\ txn = "open"
            /\ seenAt["settings"] # 0
            /\ now - seenAt["settings"] <= opts.stale["settings"]
            /\ verdict = "good"

(* A refusal also ends a transaction whose confirmation is overdue. *)
Refused ==
    /\ ~Writable
    /\ txn' = IF Capable /\ Readable /\ Missed THEN "blocked" ELSE txn
    /\ UNCHANGED confirmBy

(* The write begins, unless the link turns out to be dead. *)
Submit ==
    /\ Writable
    /\ confirmBy' = now + opts.stale["settings"]
    /\ IF linkUp THEN txn' = "sending" /\ ioBy' = now + IoTimeout
                 ELSE txn' = "blocked" /\ UNCHANGED ioBy

(* It has been written; a packet may have confirmed it already. *)
Submitted ==
    txn' = CASE txn = "confirmed" -> "open"
             [] txn = "sending"   -> "awaiting"
             [] OTHER             -> txn

(* _record_settings_write_activity. *)
Record(at) == keepaliveAt' = at /\ attemptAt' = 0 /\ initial' = FALSE

-----------------------------------------------------------------------------
(* What users do.  A call holds the lock across its write, and others queue  *)
(* up behind it.                                                             *)

UserBegins(command) == user' = command /\ ioBy' = now + IoTimeout

(* A settings command, or the keepalive button. *)
ChangeSettings ==
    /\ "settings" \in Commands /\ LockFree /\ GoesFirst
    /\ \/ /\ Submit
          /\ user' = IF linkUp THEN "settings" ELSE "none"
          /\ userAt' = IF linkUp THEN now ELSE 0
       \/ Refused /\ UNCHANGED <<user, userAt, ioBy>>
    /\ UNCHANGED <<now, opts, phase, linkUp, dropping, connectedAt, heard, sent,
                   shown, task, wakeup>>

(* A command for outputs; their own transaction is left open. *)
ChangeOutput ==
    /\ "output" \in Commands /\ LockFree /\ GoesFirst
    /\ Readable /\ linkUp /\ Freshness(seenAt, opts)["status"]
    /\ UserBegins("output")
    /\ UNCHANGED <<now, opts, phase, linkUp, dropping, connectedAt, heard, sent,
                   pending, shown, userAt, task, wakeup>>

(* The refresh button, and the delayed refresh after a command. *)
Refresh ==
    /\ "refresh" \in Commands /\ LockFree /\ GoesFirst
    /\ connected /\ linkUp
    /\ UserBegins("refresh")
    /\ UNCHANGED <<now, opts, phase, linkUp, dropping, connectedAt, heard, sent,
                   pending, shown, userAt, task, wakeup>>

UserWritten ==
    /\ user # "none" /\ linkUp /\ (user = "refresh" \/ ~dropping)
    /\ user' = "none" /\ userAt' = 0
    /\ IF user = "settings" THEN Record(userAt) /\ Submitted
       ELSE UNCHANGED <<keepaliveAt, attemptAt, initial, txn>>
    /\ requestAt' = IF user = "refresh" THEN now ELSE requestAt
    /\ UNCHANGED <<now, opts, session, heard, confirmBy, shown, ahead, behind, task,
                   wakeup>>

(* The write fails or runs out of time, or the call is cancelled. *)
UserFails ==
    /\ user # "none"
    /\ user' = "none" /\ userAt' = 0
    /\ txn' = IF user = "settings" THEN "blocked" ELSE txn
    /\ dropping' \in {dropping, TRUE}
    /\ UNCHANGED <<now, opts, phase, linkUp, connectedAt, ioBy, heard, sent,
                   confirmBy, shown, ahead, behind, task, wakeup>>

ApplyOptions(o) ==
    /\ "options" \in Commands
    /\ opts' = o
    /\ initial' = (o.keepalive /\ (~opts.keepalive \/ initial))
    /\ attemptAt' = IF o.keepalive /\ opts.keepalive THEN attemptAt ELSE 0
    /\ Tell(seenAt, o)
    /\ UNCHANGED <<now, session, heard, requestAt, keepaliveAt,
                   pending, using, task>>

-----------------------------------------------------------------------------
(* The maintenance task: one pass of its loop, cut where it suspends. *)

Sleep(until) == pc' = "wait" /\ timer' = until

PassDisconnected ==
    /\ pc = "run" /\ ~connected
    /\ Sleep(0)
    /\ UNCHANGED <<now, opts, session, heard, sent, pending, shown, using, passAt,
                   wakeup>>

TelemetryAlive ==  \* mutant: any packet counts as telemetry
    now - PacketReference > opts.watchdog
PushSuffices ==    \* mutant: no poll while packets arrive
    requestAt = 0 \/ now - PacketReference >= opts.status_interval

TelemetryExpired == now - StatusReference > opts.watchdog
TransportExpired == now - PacketReference > opts.watchdog
KeepaliveDue     == KeepaliveDeadline # 0 /\ KeepaliveDeadline <= now
PollDue          == requestAt = 0 \/ now - requestAt >= opts.status_interval

(* async_reconnect: the request, then _disconnect_client. *)
Reconnect == dropping' = TRUE /\ wakeup' = TRUE /\ Ask("ask_drop")

(* _emit_freshness_change and the first branch that applies. *)
Pass ==
    /\ pc = "run" /\ connected
    /\ reported' = Freshness(seenAt, opts)
    /\ published' = IF reported' = reported THEN published ELSE reported'
    /\ passAt' = now
    /\ CASE TelemetryExpired \/ TransportExpired -> Reconnect /\ UNCHANGED attemptAt
         [] OTHER ->
              /\ attemptAt' = IF KeepaliveDue THEN now ELSE attemptAt
              /\ IF KeepaliveDue THEN Ask("ask_keepalive")
                 ELSE IF PollDue THEN Ask("ask_poll")
                 ELSE pc' = "rest" /\ UNCHANGED <<ahead, behind>>
              /\ UNCHANGED <<dropping, wakeup>>
    /\ UNCHANGED <<now, opts, phase, linkUp, connectedAt, ioBy, heard, requestAt,
                   keepaliveAt, initial, pending, user, userAt, timer>>

(* The end of a pass: sleep until the next deadline or a wake-up. *)
Rest ==
    /\ pc = "rest"
    /\ Sleep(IF connected THEN Greatest(NextDeadline, now + 1) ELSE 0)
    /\ UNCHANGED <<now, opts, session, heard, sent, pending, shown, using, passAt,
                   wakeup>>

(* A timer that expires with the event set may leave the event set. *)
Wake ==
    /\ Due
    /\ pc' = "run"
    /\ wakeup' = FALSE \/ (timer # 0 /\ now >= timer /\ wakeup' = wakeup)
    /\ UNCHANGED <<now, opts, session, heard, sent, pending, shown, using, timer,
                   passAt>>

Drop ==
    /\ pc = "ask_drop" /\ Gets
    /\ pc' = "rest" /\ ahead' = Callers /\ UNCHANGED behind
    /\ IF connected THEN Reset
       ELSE wakeup' = TRUE /\ UNCHANGED <<phase, linkUp, connectedAt, ioBy, heard,
                                          sent, pending, shown>>
    /\ UNCHANGED <<now, opts, dropping, user, userAt, timer, passAt>>

-----------------------------------------------------------------------------
(* The keepalive: async_send_settings_keepalive and what its caller does. *)

KeepaliveInsists ==  \* mutant: the session is never renewed
    /\ pc = "ask_keepalive" /\ Gets /\ Refused
    /\ Ask("ask_recover") /\ UNCHANGED <<dropping, wakeup>>
    /\ UNCHANGED <<now, opts, phase, linkUp, connectedAt, ioBy, heard, sent, shown,
                   user, userAt, timer, passAt>>

(* The settings are unsafe: renew the session if the keepalive has been due   *)
(* for the whole interval, else ask for the status.                          *)
KeepaliveRefused ==
    /\ pc = "ask_keepalive" /\ Gets /\ Refused
    /\ IF KeepaliveReference # 0 /\ KeepaliveReference + opts.keepalive_interval <= passAt
       THEN Reconnect
       ELSE Ask("ask_recover") /\ UNCHANGED <<dropping, wakeup>>
    /\ UNCHANGED <<now, opts, phase, linkUp, connectedAt, ioBy, heard, sent, shown,
                   user, userAt, timer, passAt>>

KeepaliveBegins ==
    /\ pc = "ask_keepalive" /\ Gets /\ Submit
    /\ passAt' = now /\ ahead' = Callers /\ UNCHANGED behind
    /\ pc' = IF linkUp THEN "keeping" ELSE "rest"
    /\ UNCHANGED <<now, opts, phase, linkUp, dropping, connectedAt, heard, sent,
                   shown, user, userAt, timer, wakeup>>

KeepaliveWritten ==
    /\ pc = "keeping" /\ linkUp /\ ~dropping
    /\ pc' = "rest" /\ Record(passAt) /\ Submitted
    /\ UNCHANGED <<now, opts, session, heard, requestAt, confirmBy,
                   shown, using, timer, passAt, wakeup>>

KeepaliveFails ==
    /\ pc = "keeping"
    /\ pc' = "rest" /\ txn' = "blocked" /\ dropping' = TRUE
    /\ UNCHANGED <<now, opts, phase, linkUp, connectedAt, ioBy, heard, sent,
                   confirmBy, shown, using, timer, passAt, wakeup>>

-----------------------------------------------------------------------------
(* Status requests of the loop: async_request_status, as a poll or for a      *)
(* refused keepalive.                                                        *)

RequestBegins(ask, write) ==
    /\ pc = ask /\ Gets /\ ahead' = Callers /\ UNCHANGED behind
    /\ IF connected /\ linkUp THEN pc' = write /\ ioBy' = now + IoTimeout
                              ELSE pc' = "rest" /\ UNCHANGED ioBy
    /\ UNCHANGED <<now, opts, phase, linkUp, dropping, connectedAt, heard, sent,
                   pending, shown, user, userAt, timer, passAt, wakeup>>

RequestWritten ==
    /\ pc \in {"polling", "recovering"} /\ linkUp
    /\ pc' = "rest" /\ requestAt' = now
    /\ UNCHANGED <<now, opts, session, heard, keepaliveAt, attemptAt, initial,
                   pending, shown, using, timer, passAt, wakeup>>

RequestFails ==
    /\ pc \in {"polling", "recovering"}
    /\ pc' = "rest" /\ dropping' = TRUE
    /\ UNCHANGED <<now, opts, phase, linkUp, connectedAt, ioBy, heard, sent,
                   pending, shown, using, timer, passAt, wakeup>>

-----------------------------------------------------------------------------
Connecting  == Install \/ NotifyFails \/ Notified \/ Greeted \/ GreetFails
               \/ Dropped \/ Disconnect \/ LinkLost
Notifying   == (\E i \in Inputs : Receive(i))
               \/ (\E v \in Verdicts, m \in BOOLEAN : ReceiveSettings(v, m))
Using       == ChangeSettings \/ ChangeOutput \/ Refresh \/ UserWritten \/ UserFails
               \/ (\E o \in Options : ApplyOptions(o))
Maintaining == PassDisconnected \/ Pass \/ Rest \/ Wake \/ Drop
               \/ KeepaliveRefused \/ KeepaliveBegins \/ KeepaliveWritten \/ KeepaliveFails
               \/ RequestBegins("ask_poll", "polling")
               \/ RequestBegins("ask_recover", "recovering")
               \/ RequestWritten \/ RequestFails

Next == Tick \/ Connecting \/ Notifying \/ Using \/ Maintaining
Spec == Init /\ [][Next]_vars

-----------------------------------------------------------------------------
(* Properties. *)

(* Every stamp lies in the past, and every variable has its type.            *)
Stamps == 0 .. now
TypeOK ==
    /\ now \in Nat \ {0} /\ opts \in Options
    /\ phase \in {"down", "notify", "greet", "up", "closing"}
    /\ linkUp \in BOOLEAN /\ dropping \in BOOLEAN /\ wakeup \in BOOLEAN
    /\ initial \in BOOLEAN
    /\ seenAt \in [Groups -> Stamps] /\ {connectedAt, packetAt, requestAt,
         keepaliveAt, attemptAt, passAt, userAt} \subseteq Stamps
    /\ {timer, ioBy, confirmBy} \subseteq Nat
    /\ verdict \in {"none", "good", "implausible", "readonly"}
    /\ txn \in {"open", "sending", "confirmed", "awaiting", "blocked"}
    /\ user \in {"none", "settings", "output", "refresh"} /\ ahead \in 0 .. Callers
    /\ behind \in BOOLEAN
    /\ reported \in [Groups -> BOOLEAN] /\ published \in [Groups -> BOOLEAN]
    /\ pc \in {"run", "rest", "wait", "ask_keepalive", "ask_poll", "ask_recover",
               "ask_drop", "keeping", "polling", "recovering"}

(* The loop sleeps in an established session, and nothing has woken it. *)
Asleep == phase = "up" /\ pc = "wait" /\ ~wakeup

(* The longest wait for the lock, behind its holder and the users who asked  *)
(* before; and the most that a pass takes, which may ask twice, and write,   *)
(* together with the shortest wait after it.                                 *)
Turn  == (Callers + 1) * IoTimeout
Slack == 2 * Turn + 1

(* No wake-up is lost: whatever moved a deadline forward since the loop      *)
(* computed its wait (a packet, an option, a new session) has woken it.      *)
NoOversleep == Asleep => timer # 0 /\ timer <= Greatest(NextDeadline, now + 1)

(* A session without telemetry, or without any packet, does not outlive the  *)
(* watchdog timeout by more than a pass takes behind the users' writes.      *)
WatchdogFires ==
    Asleep => /\ now <= StatusReference + opts.watchdog + Slack
              /\ now <= PacketReference + opts.watchdog + Slack

(* Entities are told at once that a group is fresh, and that it has gone     *)
(* stale a pass later at most; only a deadline that passes during a pass,    *)
(* which drops it, is reported with the next poll.                           *)
FreshnessShown ==
    Asleep => \A g \in Groups :
        /\ Freshness(seenAt, opts)[g] => published[g]
        /\ published[g] =>
               now <= Greatest(seenAt[g] + opts.stale[g],
                               requestAt + opts.status_interval) + Slack

(* Neither keepalives nor their recovery starve the status poll, whoever     *)
(* writes meanwhile: one that is due comes in the pass after the one that    *)
(* sent a keepalive.                                                         *)
PollNotStarved ==
    Asleep /\ ~dropping =>
        requestAt # 0 /\ now <= requestAt + opts.status_interval + Slack

(* At each keepalive interval settings are written or the session is         *)
(* renewed; a retry later only while the first keepalive of a session waits  *)
(* for settings that it may send.                                            *)
KeepaliveOrRenewal ==
    Asleep /\ ~dropping /\ opts.keepalive =>
        now <= KeepaliveReference + opts.keepalive_interval + Slack
                 + IF initial THEN RetryDelay ELSE 0

(* A keepalive is sent an interval after settings were last written, but for *)
(* the initial one of a session or of switching the option on, and unless a  *)
(* user's write was recorded since the loop had decided to send it, one that *)
(* was under way by then or came first.                                      *)
KeepalivesSpaced ==
    [][pc = "ask_keepalive" /\ pc' = "keeping" =>
          \/ initial \/ keepaliveAt = 0
          \/ attemptAt = 0 /\ keepaliveAt + IoTimeout >= passAt
          \/ now - keepaliveAt >= opts.keepalive_interval]_vars
=============================================================================
