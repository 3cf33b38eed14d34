------------------------ MODULE MaintenanceLoopProofs ------------------------
(* Theorems about MaintenanceLoop, for all options, inputs and bounds that    *)
(* satisfy MaintenanceAssumption.                                             *)
EXTENDS MaintenanceLoop, TLAPS

(***************************************************************************)
(* The next deadline is the earliest one.                                   *)
(***************************************************************************)
HasLeast(S) == S = {} \/ \E d \in S : \A e \in S : d <= e

LEMMA LeastOfUnion ==
  ASSUME NEW S \in SUBSET Nat, NEW T \in SUBSET Nat, HasLeast(S), HasLeast(T)
  PROVE  S \cup T \in SUBSET Nat /\ HasLeast(S \cup T)
<1>1. CASE S = {} \/ T = {}
  BY <1>1 DEF HasLeast
<1>2. CASE S # {} /\ T # {}
  <2>1. PICK d \in S : \A e \in S : d <= e
    BY <1>2 DEF HasLeast
  <2>2. PICK f \in T : \A e \in T : f <= e
    BY <1>2 DEF HasLeast
  <2>3. CASE d <= f
    BY <2>1, <2>2, <2>3 DEF HasLeast
  <2>4. CASE f <= d
    BY <2>1, <2>2, <2>4 DEF HasLeast
  <2> QED
    BY <2>3, <2>4
<1> QED
  BY <1>1, <1>2

LEMMA LeastOfOne ==
  ASSUME NEW d \in Nat
  PROVE  {d} \in SUBSET Nat /\ HasLeast({d})
BY DEF HasLeast

LEMMA OptionTypes ==
  ASSUME NEW o \in Options
  PROVE  /\ o.status_interval \in Nat \ {0} /\ o.watchdog \in Nat
         /\ o.keepalive \in BOOLEAN /\ o.keepalive_interval \in Nat \ {0}
         /\ \A g \in Groups : o.stale[g] \in Nat
         /\ Least(o.status_interval, RetryMax) \in Nat
         /\ Least(o.status_interval, RetryMax) <= o.keepalive_interval
<1>1. o \in OptionSet /\ Validated(o)
  BY MaintenanceAssumption
<1>2. RetryMax \in Nat
  BY MaintenanceAssumption
<1>3. o.status_interval \in Nat \ {0} /\ o.watchdog \in Nat
      /\ o.keepalive \in BOOLEAN /\ o.keepalive_interval \in Nat \ {0}
      /\ o.stale \in [Groups -> Nat]
  BY <1>1 DEF OptionSet
<1>4. o.keepalive_interval >= RetryMax
  BY <1>1 DEF Validated
<1> QED
  BY <1>2, <1>3, <1>4 DEF Least

(* The stamps of TypeOK, one by one. *)
LEMMA StampTypes ==
  ASSUME TypeOK
  PROVE  /\ now \in Nat \ {0} /\ opts \in Options
         /\ \A g \in Groups : seenAt[g] \in Nat /\ seenAt[g] <= now
         /\ connectedAt \in Nat /\ connectedAt <= now
         /\ packetAt \in Nat /\ packetAt <= now
         /\ requestAt \in Nat /\ requestAt <= now
         /\ keepaliveAt \in Nat /\ keepaliveAt <= now
         /\ attemptAt \in Nat /\ attemptAt <= now
         /\ passAt \in Nat /\ passAt <= now
         /\ userAt \in Nat /\ userAt <= now
         /\ timer \in Nat
<1>1. now \in Nat \ {0} /\ opts \in Options /\ seenAt \in [Groups -> 0 .. now]
      /\ {connectedAt, packetAt, requestAt, keepaliveAt, attemptAt, passAt, userAt}
            \subseteq 0 .. now
      /\ timer \in Nat
  BY DEF TypeOK, Stamps
<1> QED
  BY <1>1

LEMMA ReferenceTypes ==
  ASSUME TypeOK
  PROVE  /\ StatusReference \in Nat /\ PacketReference \in Nat
         /\ KeepaliveReference \in Nat /\ KeepaliveReference <= now
         /\ RetryDelay \in Nat /\ RetryDelay <= opts.keepalive_interval
         /\ KeepaliveDeadline \in Nat
<1>1. \A a, b \in 0 .. now : Either(a, b) \in 0 .. now
  BY DEF Either
<1>2. /\ seenAt["status"] \in 0 .. now /\ seenAt["settings"] \in 0 .. now
      /\ connectedAt \in 0 .. now /\ packetAt \in 0 .. now
      /\ keepaliveAt \in 0 .. now /\ attemptAt \in 0 .. now
      /\ now \in Nat /\ opts \in Options
  BY StampTypes DEF Groups
<1>3. /\ StatusReference \in 0 .. now /\ PacketReference \in 0 .. now
      /\ KeepaliveReference \in 0 .. now
  BY <1>1, <1>2 DEF StatusReference, PacketReference, KeepaliveReference
<1>4. RetryDelay \in Nat /\ RetryDelay <= opts.keepalive_interval
      /\ opts.keepalive_interval \in Nat
  BY <1>2, OptionTypes DEF RetryDelay
<1>5. KeepaliveDeadline \in Nat
  BY <1>2, <1>3, <1>4 DEF KeepaliveDeadline
<1> QED
  BY <1>2, <1>3, <1>4, <1>5

LEMMA DeadlineIsLeast ==
  ASSUME TypeOK
  PROVE  /\ Deadlines \in SUBSET Nat
         /\ NextDeadline \in Deadlines
         /\ \A d \in Deadlines : NextDeadline <= d
<1> DEFINE A == IF StatusReference # 0 THEN {StatusReference + opts.watchdog} ELSE {}
           B == IF PacketReference # 0 THEN {PacketReference + opts.watchdog} ELSE {}
           C == {IF requestAt = 0 THEN now ELSE requestAt + opts.status_interval}
           D == IF KeepaliveDeadline # 0 THEN {KeepaliveDeadline} ELSE {}
           F(g) == IF seenAt[g] # 0 /\ now <= seenAt[g] + opts.stale[g]
                   THEN {seenAt[g] + opts.stale[g]} ELSE {}
           Good(S) == S \in SUBSET Nat /\ HasLeast(S)
<1>1. /\ now \in Nat /\ requestAt \in Nat /\ opts \in Options
      /\ \A g \in Groups : seenAt[g] \in Nat
  BY StampTypes
<1>2. /\ opts.watchdog \in Nat /\ opts.status_interval \in Nat
      /\ \A g \in Groups : opts.stale[g] \in Nat
  BY <1>1, OptionTypes
<1>3. Good({})
  BY DEF HasLeast
<1>4. Good(A)
  BY <1>2, <1>3, LeastOfOne, ReferenceTypes
<1>5. Good(B)
  BY <1>2, <1>3, LeastOfOne, ReferenceTypes
<1>6. Good(C)
  BY <1>1, <1>2, LeastOfOne
<1>7. Good(D)
  BY <1>3, LeastOfOne, ReferenceTypes
<1>8. \A g \in Groups : Good(F(g))
  BY <1>1, <1>2, <1>3, LeastOfOne
<1>9. {seenAt[g] + opts.stale[g] :
         g \in {h \in Groups : seenAt[h] # 0 /\ now <= seenAt[h] + opts.stale[h]}}
      = F("status") \cup F("settings")
  BY DEF Groups
<1>10. Deadlines = (((A \cup B) \cup C) \cup D) \cup (F("status") \cup F("settings"))
  BY <1>9 DEF Deadlines
<1>11. Good(F("status")) /\ Good(F("settings"))
  BY <1>8 DEF Groups
<1>12. ASSUME NEW S, NEW T, Good(S), Good(T) PROVE Good(S \cup T)
  BY <1>12, LeastOfUnion
<1>13. Good(((A \cup B) \cup C) \cup D) /\ Good(F("status") \cup F("settings"))
  <2> HIDE DEF A, B, C, D, F, Good
  <2>1. Good(A \cup B)
    BY <1>4, <1>5, <1>12
  <2>2. Good((A \cup B) \cup C)
    BY <1>6, <1>12, <2>1
  <2> QED
    BY <1>7, <1>11, <1>12, <2>2
<1>16. Good(Deadlines)
  <2> DEFINE S == ((A \cup B) \cup C) \cup D
             T == F("status") \cup F("settings")
  <2>1. Good(S) /\ Good(T)
    BY <1>13
  <2>2. Deadlines = S \cup T
    BY <1>10
  <2> HIDE DEF A, B, C, D, F, S, T, Good
  <2> QED
    BY <1>12, <2>1, <2>2
<1>17. Deadlines # {}
  BY <1>10
<1>18. \E d \in Deadlines : \A e \in Deadlines : d <= e
  BY <1>16, <1>17 DEF HasLeast
<1> QED
  BY <1>16, <1>18 DEF NextDeadline

(***************************************************************************)
(* Types.                                                                   *)
(***************************************************************************)

LEMMA FreshnessTypes ==
  \A seen, o : Freshness(seen, o) \in [Groups -> BOOLEAN]
BY DEF Freshness, connected

LEMMA ConstantTypes ==
  /\ Stale \in [Groups -> BOOLEAN]
  /\ \A n \in Nat : Never \in [Groups -> 0 .. n]
BY DEF Stale, Never

LEMMA TypeInit == Init => TypeOK
<1> SUFFICES ASSUME Init PROVE TypeOK
  OBVIOUS
<1>1. seenAt \in [Groups -> 0 .. now] /\ reported \in [Groups -> BOOLEAN]
      /\ published \in [Groups -> BOOLEAN]
  BY ConstantTypes DEF Init
<1>2. linkUp \in BOOLEAN /\ dropping \in BOOLEAN /\ wakeup \in BOOLEAN
      /\ initial \in BOOLEAN
  BY DEF Init
<1>3. now \in Nat \ {0} /\ opts \in Options
      /\ {connectedAt, packetAt, requestAt, keepaliveAt, attemptAt, passAt, userAt}
            \subseteq 0 .. now
      /\ {timer, ioBy, confirmBy} \subseteq Nat
  BY DEF Init
<1>4. /\ phase \in {"down", "notify", "greet", "up", "closing"}
      /\ verdict \in {"none", "good", "implausible", "readonly"}
      /\ txn \in {"open", "sending", "confirmed", "awaiting", "blocked"}
      /\ pc \in {"run", "rest", "wait", "ask_keepalive", "ask_poll", "ask_recover",
                "ask_drop", "keeping", "polling", "recovering"}
  BY DEF Init
<1>5. /\ user \in {"none", "settings", "output", "refresh"}
      /\ ahead \in 0 .. Callers /\ behind \in BOOLEAN
  <2>1. Callers \in 0 .. Callers
    BY MaintenanceAssumption
  <2> QED
    BY <2>1 DEF Init
<1> QED
  BY <1>1, <1>2, <1>3, <1>4, <1>5 DEF TypeOK, Stamps

Places == {"run", "rest", "wait", "ask_keepalive", "ask_poll", "ask_recover",
           "ask_drop", "keeping", "polling", "recovering"}

LEMMA TypeReset ==
  ASSUME TypeOK, Reset, now' = now, opts' = opts, dropping' = dropping,
         pc' \in Places, timer' = timer, passAt' = passAt,
         UNCHANGED <<user, userAt, behind>>, ahead' \in 0 .. Callers
  PROVE  TypeOK'
<1>1. linkUp' \in BOOLEAN /\ dropping' \in BOOLEAN /\ wakeup' \in BOOLEAN
      /\ initial' \in BOOLEAN
  BY DEF Reset, TypeOK
<1>2. reported' \in [Groups -> BOOLEAN] /\ published' \in [Groups -> BOOLEAN]
  BY ConstantTypes DEF Reset
<1>3. now \in Nat \ {0} /\ opts \in Options /\ timer \in Nat /\ ioBy \in Nat
      /\ {packetAt, requestAt, keepaliveAt, passAt, userAt} \subseteq 0 .. now
      /\ seenAt \in [Groups -> 0 .. now] /\ behind \in BOOLEAN
      /\ user \in {"none", "settings", "output", "refresh"}
  BY DEF TypeOK, Stamps
<1>4. /\ phase' = "down" /\ connectedAt' = 0 /\ verdict' = "none" /\ txn' = "open"
      /\ confirmBy' = 0 /\ attemptAt' = 0 /\ ioBy' = ioBy
      /\ UNCHANGED <<seenAt, packetAt, requestAt, keepaliveAt>>
  BY DEF Reset
<1> QED
  BY <1>1, <1>2, <1>3, <1>4 DEF TypeOK, Stamps, Places

(* Asking for the lock, and letting users go first, moves these alone.      *)
LEMMA QueueTypes ==
  ASSUME TypeOK
  PROVE  /\ Callers \in 0 .. Callers
         /\ Close => phase' = "closing" /\ ahead' \in 0 .. Callers
         /\ GoesFirst => ahead' \in 0 .. Callers /\ behind' = behind
         /\ \A place : Ask(place) => /\ pc' = place /\ ahead' = Callers
                                     /\ ahead' \in 0 .. Callers /\ behind' \in BOOLEAN
<1>1. Callers \in Nat /\ ahead \in 0 .. Callers
  BY MaintenanceAssumption DEF TypeOK
<1>2. GoesFirst => ahead' \in 0 .. Callers /\ behind' = behind
  BY <1>1 DEF GoesFirst
<1>3. Callers \in 0 .. Callers
  BY <1>1
<1>4. Close => phase' = "closing" /\ ahead' \in 0 .. Callers
  BY <1>1, <1>3 DEF Close
<1>5. ASSUME NEW place, Ask(place)
      PROVE  pc' = place /\ ahead' = Callers /\ behind' \in BOOLEAN
  BY <1>5 DEF Ask
<1> QED
  BY <1>2, <1>3, <1>4, <1>5

LEMMA TypeStep ==
  ASSUME TypeOK, [Next]_vars
  PROVE  TypeOK'
<1> USE DEF TypeOK, Stamps, session, heard, sent, pending, shown, using, task
<1>1. CASE UNCHANGED vars
  BY <1>1 DEF vars
<1>2. CASE Tick
  BY <1>2 DEF Tick
<1>3. CASE Connecting
  <2>1. CASE Install
    <3>1. seenAt' \in [Groups -> 0 .. now'] /\ reported' \in [Groups -> BOOLEAN]
      BY <2>1, ConstantTypes DEF Install
    <3>2. ioBy' \in Nat
      BY <2>1, MaintenanceAssumption DEF Install
    <3>3. linkUp' \in BOOLEAN /\ dropping' \in BOOLEAN /\ wakeup' \in BOOLEAN
          /\ initial' \in BOOLEAN
      BY <2>1, OptionTypes DEF Install
    <3>6. UNCHANGED using
      BY <2>1 DEF Install
    <3>4. published' \in [Groups -> BOOLEAN]
      BY <2>1 DEF Install
    <3> HIDE DEF TypeOK
    <3>5. now' = now /\ opts' = opts /\ connectedAt' = connectedAt /\ passAt' = passAt
          /\ pc' = pc /\ timer' = timer /\ verdict' = verdict
          /\ phase' = "notify" /\ txn' = "open" /\ confirmBy' = 0 /\ packetAt' = 0
          /\ requestAt' = 0 /\ keepaliveAt' = 0 /\ attemptAt' = 0
      BY <2>1 DEF Install
    <3> QED
      BY <3>1, <3>2, <3>3, <3>4, <3>5, <3>6 DEF TypeOK
  <2>2. CASE NotifyFails
    BY <2>2, TypeReset DEF NotifyFails, Places
  <2>3. CASE Notified
    BY <2>3, MaintenanceAssumption DEF Notified
  <2>4. CASE Greeted
    BY <2>4, FreshnessTypes DEF Greeted
  <2>5. CASE GreetFails \/ Dropped
    <3>1. dropping' \in BOOLEAN /\ phase' = "closing" /\ ahead' \in 0 .. Callers
      BY <2>5, QueueTypes DEF GreetFails, Dropped
    <3>2. UNCHANGED <<now, opts, linkUp, connectedAt, ioBy, heard, sent, pending, shown,
                      user, userAt, behind, task, wakeup>>
      BY <2>5 DEF GreetFails, Dropped
    <3>3. Stamps' = Stamps
      BY <3>2
    <3> QED
      BY <3>1, <3>2, <3>3
  <2>6. CASE Disconnect
    BY <2>6, TypeReset DEF Disconnect, Places
  <2>7. CASE LinkLost
    <3>1. linkUp' \in BOOLEAN /\ dropping' \in BOOLEAN
      BY <2>7 DEF LinkLost
    <3>2. UNCHANGED <<now, opts, phase, connectedAt, ioBy, heard, sent, pending,
                      shown, using, task, wakeup>>
      BY <2>7 DEF LinkLost
    <3> QED
      BY <3>1, <3>2
  <2> QED
    BY <1>3, <2>1, <2>2, <2>3, <2>4, <2>5, <2>6, <2>7 DEF Connecting
<1>4. CASE Notifying
  <2>1. ASSUME NEW i \in Inputs, Receive(i) PROVE TypeOK'
    BY <2>1, FreshnessTypes DEF Receive, Heard, Tell, Groups
  <2>2. ASSUME NEW v \in Verdicts, NEW m \in BOOLEAN, ReceiveSettings(v, m)
        PROVE  TypeOK'
    <3>1. txn' \in {"open", "sending", "confirmed", "awaiting", "blocked"}
      BY <2>2 DEF ReceiveSettings, NextTxn
    <3>2. verdict' \in {"good", "implausible", "readonly"}
      BY <2>2, MaintenanceAssumption DEF ReceiveSettings
    <3> QED
      BY <2>2, <3>1, <3>2, FreshnessTypes DEF ReceiveSettings, Heard, Tell, Groups
  <2> QED
    BY <1>4, <2>1, <2>2 DEF Notifying
<1>5. CASE Using
  <2>1. CASE ChangeSettings
    <3>1. ahead' \in 0 .. Callers /\ behind' = behind
      BY <2>1, QueueTypes DEF ChangeSettings
    <3>2. user' \in {"none", "settings", "output", "refresh"} /\ userAt' \in 0 .. now
      BY <2>1 DEF ChangeSettings
    <3>3. txn' \in {"open", "sending", "confirmed", "awaiting", "blocked"}
          /\ ioBy' \in Nat /\ confirmBy' \in Nat
      <4>1. now + opts.stale["settings"] \in Nat /\ now + IoTimeout \in Nat
        BY OptionTypes, MaintenanceAssumption DEF Groups
      <4> QED
        BY <2>1, <4>1 DEF ChangeSettings, Submit, Refused
    <3>4. UNCHANGED <<now, opts, phase, linkUp, dropping, connectedAt, heard, sent,
                      shown, task, wakeup>>
      BY <2>1 DEF ChangeSettings
    <3> QED
      BY <3>1, <3>2, <3>3, <3>4
  <2>2. CASE ChangeOutput \/ Refresh
    <3>1. ahead' \in 0 .. Callers /\ behind' = behind
      BY <2>2, QueueTypes DEF ChangeOutput, Refresh
    <3>2. user' \in {"none", "settings", "output", "refresh"} /\ ioBy' \in Nat
      BY <2>2, MaintenanceAssumption DEF ChangeOutput, Refresh, UserBegins
    <3>3. UNCHANGED <<now, opts, phase, linkUp, dropping, connectedAt, heard, sent,
                      pending, shown, userAt, task, wakeup>>
      BY <2>2 DEF ChangeOutput, Refresh
    <3> QED
      BY <3>1, <3>2, <3>3
  <2>4. CASE UserWritten
    <3>1. initial' \in BOOLEAN /\ keepaliveAt' \in 0 .. now /\ attemptAt' \in 0 .. now
          /\ requestAt' \in 0 .. now /\ user' = "none" /\ userAt' = 0
      <4>1. now \in 0 .. now /\ 0 \in 0 .. now
        OBVIOUS
      <4> QED
        BY <2>4, <4>1 DEF UserWritten, Record
    <3>2. txn' \in {"open", "sending", "confirmed", "awaiting", "blocked"}
      BY <2>4 DEF UserWritten, Submitted
    <3>3. UNCHANGED <<now, opts, session, heard, confirmBy, shown, ahead, behind, task,
                      wakeup>>
      BY <2>4 DEF UserWritten
    <3> QED
      BY <3>1, <3>2, <3>3
  <2>5. CASE UserFails
    <3>1. txn' \in {"open", "sending", "confirmed", "awaiting", "blocked"}
          /\ dropping' \in BOOLEAN /\ user' = "none" /\ userAt' = 0
      BY <2>5 DEF UserFails
    <3>2. UNCHANGED <<now, opts, phase, linkUp, connectedAt, ioBy, heard, sent,
                      confirmBy, shown, ahead, behind, task, wakeup>>
      BY <2>5 DEF UserFails
    <3> QED
      BY <3>1, <3>2
  <2>3. ASSUME NEW o \in Options, ApplyOptions(o) PROVE TypeOK'
    BY <2>3, FreshnessTypes, OptionTypes DEF ApplyOptions, Tell
  <2> QED
    BY <1>5, <2>1, <2>2, <2>3, <2>4, <2>5 DEF Using
<1>6. CASE Maintaining
  <2>1. CASE PassDisconnected
    BY <2>1 DEF PassDisconnected, Sleep
  <2>2. CASE Pass
    <3>1. reported' \in [Groups -> BOOLEAN] /\ published' \in [Groups -> BOOLEAN]
      BY <2>2, FreshnessTypes DEF Pass
    <3>2. dropping' \in BOOLEAN /\ wakeup' \in BOOLEAN
      BY <2>2 DEF Pass, Reconnect
    <3>3. attemptAt' \in 0 .. now /\ passAt' \in 0 .. now
          /\ pc' \in {"ask_drop", "ask_keepalive", "ask_poll", "rest"}
      BY <2>2, QueueTypes DEF Pass, Reconnect
    <3>4. ahead' \in 0 .. Callers /\ behind' \in BOOLEAN
      BY <2>2, QueueTypes DEF Pass, Reconnect
    <3>5. UNCHANGED <<now, opts, phase, linkUp, connectedAt, ioBy, heard, requestAt,
                      keepaliveAt, initial, pending, user, userAt, timer>>
      BY <2>2 DEF Pass
    <3> QED
      BY <3>1, <3>2, <3>3, <3>4, <3>5
  <2>3. CASE Rest
    <3>1. Greatest(NextDeadline, now + 1) \in Nat
      BY DeadlineIsLeast DEF Greatest
    <3> QED
      BY <2>3, <3>1 DEF Rest, Sleep
  <2>4. CASE Wake
    <3>1. wakeup' \in BOOLEAN
      BY <2>4 DEF Wake
    <3>2. pc' = "run" /\ UNCHANGED <<now, opts, session, heard, sent, pending, shown,
                                    using, timer, passAt>>
      BY <2>4 DEF Wake
    <3> QED
      BY <3>1, <3>2
  <2>5. CASE Drop
    <3>1. CASE connected
      BY <2>5, <3>1, TypeReset, QueueTypes DEF Drop, Places
    <3>2. CASE ~connected
      BY <2>5, <3>2, QueueTypes DEF Drop
    <3> QED
      BY <3>1, <3>2
  <2>6. CASE KeepaliveRefused
    <3>1. pc' \in {"ask_drop", "ask_recover"} /\ dropping' \in BOOLEAN /\ wakeup' \in BOOLEAN
          /\ ahead' \in 0 .. Callers /\ behind' \in BOOLEAN
      BY <2>6, QueueTypes DEF KeepaliveRefused, Reconnect
    <3>2. txn' \in {"open", "sending", "confirmed", "awaiting", "blocked"} /\ UNCHANGED confirmBy
      BY <2>6 DEF KeepaliveRefused, Refused
    <3>3. UNCHANGED <<now, opts, phase, linkUp, connectedAt, ioBy, heard, sent, shown,
                      user, userAt, timer, passAt>>
      BY <2>6 DEF KeepaliveRefused
    <3> QED
      BY <3>1, <3>2, <3>3
  <2>7. CASE KeepaliveBegins
    <3>1. now + opts.stale["settings"] \in Nat /\ now + IoTimeout \in Nat
      BY OptionTypes, MaintenanceAssumption DEF Groups
    <3>2. txn' \in {"sending", "blocked"} /\ ioBy' \in Nat /\ confirmBy' \in Nat
          /\ pc' \in {"keeping", "rest"} /\ passAt' = now
          /\ ahead' \in 0 .. Callers /\ behind' = behind
      BY <2>7, <3>1, QueueTypes DEF KeepaliveBegins, Submit
    <3>3. UNCHANGED <<now, opts, phase, linkUp, dropping, connectedAt, heard, sent,
                      shown, user, userAt, timer, wakeup>>
      BY <2>7 DEF KeepaliveBegins
    <3> QED
      BY <3>2, <3>3
  <2>8. CASE KeepaliveWritten
    <3>1. txn' \in {"open", "sending", "confirmed", "awaiting", "blocked"}
      BY <2>8 DEF KeepaliveWritten, Submitted
    <3>2. linkUp' \in BOOLEAN /\ dropping' \in BOOLEAN /\ wakeup' \in BOOLEAN
          /\ initial' \in BOOLEAN
      BY <2>8 DEF KeepaliveWritten, Record
    <3>3. keepaliveAt' = passAt /\ attemptAt' = 0 /\ pc' = "rest"
          /\ UNCHANGED <<now, opts, phase, connectedAt, ioBy, heard, requestAt, confirmBy,
                         shown, using, timer, passAt>>
      BY <2>8 DEF KeepaliveWritten, Record
    <3> QED
      BY <3>1, <3>2, <3>3
  <2>9. CASE KeepaliveFails
    BY <2>9 DEF KeepaliveFails
  <2>10. CASE RequestBegins("ask_poll", "polling") \/ RequestBegins("ask_recover", "recovering")
    BY <2>10, MaintenanceAssumption, QueueTypes DEF RequestBegins
  <2>11. CASE RequestWritten
    BY <2>11 DEF RequestWritten
  <2>12. CASE RequestFails
    BY <2>12 DEF RequestFails
  <2> QED
    BY <1>6, <2>1, <2>2, <2>3, <2>4, <2>5, <2>6, <2>7, <2>8, <2>9, <2>10, <2>11, <2>12
       DEF Maintaining
<1> QED
  BY <1>1, <1>2, <1>3, <1>4, <1>5, <1>6 DEF Next

(* Every stamp lies in the past and every variable has its type.             *)
THEOREM LoopTypeCorrect == Spec => []TypeOK
BY TypeInit, TypeStep, PTL DEF Spec

(***************************************************************************)
(* The clock, and who holds the lock.                                       *)
(***************************************************************************)
Asks    == {"ask_keepalive", "ask_poll", "ask_recover"}
Writing == {"keeping", "polling", "recovering"}

(* The clock never passes what somebody waits for; the lock has one holder;  *)
(* and a pass asks for it in an established session only.                    *)
OnTime ==
    /\ pc = "wait" /\ timer # 0 => now <= timer
    /\ ~LockFree => now <= ioBy /\ ioBy <= now + IoTimeout
    /\ pc \in Writing => phase \in {"up", "closing"}
    /\ pc = "ask_drop" /\ phase = "up" => wakeup
    /\ phase = "notify" => pc \notin Asks \cup Writing \cup {"ask_drop"}
    /\ connected => connectedAt # 0
    /\ phase = "up" => requestAt # 0

LEMMA OnTimeStep ==
  ASSUME TypeOK, OnTime, [Next]_vars
  PROVE  OnTime'
<1> USE DEF session, heard, sent, pending, shown, using, task
<1>0. now \in Nat \ {0} /\ timer \in Nat /\ ioBy \in Nat /\ IoTimeout \in Nat
      /\ NextDeadline \in Nat /\ pc \in Places
  BY StampTypes, DeadlineIsLeast, MaintenanceAssumption DEF TypeOK, Places
<1>1. CASE UNCHANGED vars
  BY <1>1 DEF vars, OnTime, LockFree, connected
<1>2. CASE Tick
  <2>1. /\ now < Horizon /\ now' = now + 1 /\ Horizon \in Nat
        /\ UNCHANGED <<phase, pc, timer, ioBy, wakeup, connectedAt, requestAt, user>>
    BY <1>2, MaintenanceAssumption DEF Tick
  <2>2. pc = "wait" /\ timer # 0 => now < timer
    BY <1>0, <1>2 DEF Tick, Ready, Due
  <2>3. ~LockFree => now < ioBy
    BY <1>0, <1>2 DEF Tick, Ready
  <2>4. (LockFree' <=> LockFree) /\ (connected' <=> connected)
    BY <2>1 DEF LockFree, connected
  <2> QED
    BY <1>0, <2>1, <2>2, <2>3, <2>4 DEF OnTime
<1>3. CASE Connecting
  <2>1. CASE Install
    BY <1>0, <2>1 DEF Install, OnTime, LockFree, Asking, connected, Asks, Writing, Places
  <2>2. CASE NotifyFails \/ Disconnect
    BY <2>2 DEF NotifyFails, Disconnect, Reset, OnTime, LockFree, connected, Asks, Writing
  <2>3. CASE Notified
    BY <1>0, <2>3 DEF Notified, OnTime, LockFree, connected, Asks, Writing
  <2>4. CASE Greeted \/ GreetFails \/ Dropped
    BY <1>0, <2>4 DEF Greeted, GreetFails, Dropped, Close, OnTime, LockFree, connected, Writing
  <2>5. CASE LinkLost
    BY <2>5 DEF LinkLost, OnTime, LockFree, connected
  <2> QED
    BY <1>3, <2>1, <2>2, <2>3, <2>4, <2>5 DEF Connecting
<1>4. CASE Notifying
  <2>1. UNCHANGED <<now, phase, connectedAt, ioBy, requestAt, pc, timer, user>>
        /\ wakeup' = TRUE
    BY <1>4 DEF Notifying, Receive, ReceiveSettings, Heard, Tell
  <2> QED
    BY <2>1 DEF OnTime, LockFree, connected
<1>5. CASE Using
  <2>1. /\ UNCHANGED <<now, phase, connectedAt, pc, timer>>
        /\ wakeup' = wakeup \/ wakeup' = TRUE
        /\ requestAt' = requestAt \/ requestAt' = now
    BY <1>5 DEF Using, ChangeSettings, ChangeOutput, Refresh, UserWritten, UserFails,
                ApplyOptions, Tell
  <2>2. ~LockFree' => ioBy' = now + IoTimeout \/ (~LockFree /\ ioBy' = ioBy)
    <3>1. CASE ChangeSettings
      BY <3>1 DEF ChangeSettings, Submit, LockFree
    <3>2. CASE ChangeOutput \/ Refresh
      BY <3>2 DEF ChangeOutput, Refresh, UserBegins
    <3>3. CASE UserWritten \/ UserFails \/ (\E o \in Options : ApplyOptions(o))
      BY <3>3 DEF UserWritten, UserFails, ApplyOptions, LockFree
    <3> QED
      BY <1>5, <3>1, <3>2, <3>3 DEF Using
  <2>3. ~LockFree' => now' <= ioBy' /\ ioBy' <= now' + IoTimeout
    BY <1>0, <2>1, <2>2 DEF OnTime
  <2> QED
    BY <1>0, <2>1, <2>3 DEF OnTime, connected
<1>6. CASE Maintaining
  <2>1. CASE PassDisconnected
    BY <2>1 DEF PassDisconnected, Sleep, OnTime, LockFree, connected, Asks, Writing
  <2>2. CASE Pass
    <3>1. /\ UNCHANGED <<now, phase, connectedAt, ioBy, requestAt, user>>
          /\ pc' \in {"ask_keepalive", "ask_poll", "rest", "ask_drop"}
          /\ pc' = "ask_drop" => wakeup'
          /\ pc = "run" /\ connected
      BY <2>2 DEF Pass, Reconnect, Ask
    <3> QED
      BY <3>1 DEF OnTime, LockFree, connected, Asks, Writing
  <2>3. CASE Rest
    <3>1. timer' # 0 => now <= timer'
      BY <1>0, <2>3 DEF Rest, Sleep, Greatest
    <3>2. /\ UNCHANGED <<now, phase, connectedAt, ioBy, requestAt, wakeup, user>>
          /\ pc = "rest" /\ pc' = "wait"
      BY <2>3 DEF Rest, Sleep
    <3> QED
      BY <3>1, <3>2 DEF OnTime, LockFree, connected, Asks, Writing
  <2>4. CASE Wake
    BY <2>4 DEF Wake, Due, OnTime, LockFree, connected, Asks, Writing
  <2>5. CASE Drop
    BY <2>5 DEF Drop, Gets, Reset, OnTime, LockFree, connected, Asks, Writing
  <2>6. CASE KeepaliveRefused
    BY <2>6 DEF KeepaliveRefused, Gets, Reconnect, Ask, OnTime, LockFree, connected, Asks, Writing
  <2>7. CASE KeepaliveBegins
    BY <1>0, <2>7 DEF KeepaliveBegins, Gets, Submit, Writable, Readable, OnTime, LockFree,
                      connected, Asks, Writing
  <2>8. CASE KeepaliveWritten \/ KeepaliveFails
    BY <2>8 DEF KeepaliveWritten, KeepaliveFails, OnTime, LockFree, connected, Asks, Writing
  <2>9. CASE RequestBegins("ask_poll", "polling") \/ RequestBegins("ask_recover", "recovering")
    BY <1>0, <2>9 DEF RequestBegins, Gets, OnTime, LockFree, connected, Asks, Writing
  <2>10. CASE RequestWritten \/ RequestFails
    BY <1>0, <2>10 DEF RequestWritten, RequestFails, OnTime, LockFree, connected, Asks, Writing
  <2> QED
    BY <1>6, <2>1, <2>2, <2>3, <2>4, <2>5, <2>6, <2>7, <2>8, <2>9, <2>10 DEF Maintaining
<1> QED
  BY <1>1, <1>2, <1>3, <1>4, <1>5, <1>6 DEF Next

(* A user's write keeps its session; of settings, it is stamped after any     *)
(* other write of them, and after any attempt but one that waits for the lock.*)
Held ==
    /\ user # "none" => phase \in {"up", "closing"} /\ pc \notin Writing
    /\ user = "settings" =>
         /\ userAt # 0 /\ keepaliveAt <= userAt /\ ioBy <= userAt + IoTimeout
         /\ seenAt["settings"] # 0
         /\ pc # "ask_keepalive" => attemptAt <= userAt
    /\ phase # "down" /\ opts.keepalive /\ ~initial => keepaliveAt # 0
    /\ pc = "keeping" => passAt # 0

LEMMA HeldInit == Init => OnTime /\ Held
BY DEF Init, OnTime, Held, LockFree, connected, Asks, Writing

LEMMA HeldStep ==
  ASSUME TypeOK, Held, [Next]_vars
  PROVE  Held'
<1> USE DEF session, heard, sent, pending, shown, using, task
<1>0. /\ now \in Nat \ {0} /\ ioBy \in Nat /\ IoTimeout \in Nat
      /\ keepaliveAt \in Nat /\ keepaliveAt <= now /\ attemptAt \in Nat /\ attemptAt <= now
  BY StampTypes, MaintenanceAssumption DEF TypeOK
<1>1. CASE UNCHANGED vars \/ Tick
  BY <1>1 DEF vars, Tick, Held
<1>2. CASE Connecting
  <2>1. CASE Install
    BY <2>1 DEF Install, LockFree, Held, Writing
  <2>2. CASE NotifyFails \/ Disconnect
    BY <2>2 DEF NotifyFails, Disconnect, Reset, LockFree, Held
  <2>3. CASE Notified \/ Greeted \/ GreetFails \/ Dropped \/ LinkLost
    BY <2>3 DEF Notified, Greeted, GreetFails, Dropped, Close, LinkLost, Held
  <2> QED
    BY <1>2, <2>1, <2>2, <2>3 DEF Connecting
<1>3. CASE Notifying
  <2>1. /\ UNCHANGED <<opts, phase, ioBy, keepaliveAt, initial, using, pc, passAt>>
        /\ attemptAt' = attemptAt \/ attemptAt' = 0
        /\ seenAt["settings"] # 0 => seenAt'["settings"] # 0
    BY <1>0, <1>3 DEF Notifying, Receive, ReceiveSettings, Heard, TypeOK, Groups
  <2> QED
    BY <1>0, <2>1, StampTypes DEF Held
<1>4. CASE Using
  <2>1. CASE ChangeSettings
    <3>1. UNCHANGED <<now, opts, phase, heard, sent, task>> /\ LockFree
      BY <2>1 DEF ChangeSettings
    <3>2. \/ user' = "none"
          \/ /\ user' = "settings" /\ userAt' = now /\ ioBy' = now + IoTimeout
             /\ Writable
      BY <2>1, <3>1 DEF ChangeSettings, Submit, LockFree
    <3>3. Writable => phase \in {"up", "closing"} /\ seenAt["settings"] # 0
      BY <3>1 DEF Writable, Readable, connected, LockFree
    <3> QED
      BY <1>0, <3>1, <3>2, <3>3 DEF Held, LockFree, Writing
  <2>2. CASE ChangeOutput \/ Refresh
    <3>1. UNCHANGED <<now, opts, phase, heard, sent, task>> /\ LockFree /\ connected
          /\ user' \in {"output", "refresh"}
      BY <2>2 DEF ChangeOutput, Refresh, UserBegins, Readable
    <3> QED
      BY <3>1 DEF Held, LockFree, connected, Writing
  <2>3. CASE UserWritten
    BY <2>3 DEF UserWritten, Record, Held
  <2>4. CASE UserFails
    BY <2>4 DEF UserFails, Held
  <2>5. ASSUME NEW o \in Options, ApplyOptions(o) PROVE Held'
    <3>1. /\ UNCHANGED <<now, phase, ioBy, seenAt, keepaliveAt, user, userAt, pc, passAt>>
          /\ attemptAt' \in {attemptAt, 0}
          /\ opts' = o /\ initial' = (o.keepalive /\ (~opts.keepalive \/ initial))
      BY <2>5 DEF ApplyOptions
    <3>2. opts'.keepalive /\ ~initial' => opts.keepalive /\ ~initial
      BY <3>1
    <3>3. pc # "ask_keepalive" /\ user = "settings" => attemptAt' <= userAt
      BY <1>0, <3>1, StampTypes DEF Held
    <3> QED
      BY <3>1, <3>2, <3>3 DEF Held
  <2> QED
    BY <1>4, <2>1, <2>2, <2>3, <2>4, <2>5 DEF Using
<1>5. CASE Maintaining
  <2>1. CASE Pass
    <3>1. /\ UNCHANGED <<now, opts, phase, ioBy, heard, keepaliveAt, initial, user, userAt>>
          /\ pc = "run" /\ pc' \in {"ask_keepalive", "ask_poll", "rest", "ask_drop"}
          /\ pc' # "ask_keepalive" => attemptAt' = attemptAt
      BY <2>1 DEF Pass, Reconnect, Ask
    <3> QED
      BY <3>1 DEF Held, Writing
  <2>2. CASE PassDisconnected \/ Rest \/ Wake
    BY <2>2 DEF PassDisconnected, Rest, Sleep, Wake, Due, Held, Writing
  <2>3. CASE Drop \/ KeepaliveRefused
    BY <2>3 DEF Drop, Gets, Reset, LockFree, KeepaliveRefused, Reconnect, Ask, Held
  <2>4. CASE KeepaliveBegins \/ RequestBegins("ask_poll", "polling")
             \/ RequestBegins("ask_recover", "recovering")
    BY <1>0, <2>4 DEF KeepaliveBegins, RequestBegins, Gets, LockFree, Held
  <2>5. CASE KeepaliveWritten \/ KeepaliveFails \/ RequestWritten \/ RequestFails
    BY <2>5 DEF KeepaliveWritten, Record, KeepaliveFails, RequestWritten, RequestFails, Held,
                Writing
  <2> QED
    BY <1>5, <2>1, <2>2, <2>3, <2>4, <2>5 DEF Maintaining
<1> QED
  BY <1>1, <1>2, <1>3, <1>4, <1>5 DEF Next

(***************************************************************************)
(* The loop does not oversleep.                                             *)
(***************************************************************************)

(* NoOversleep, with the deadlines one by one.                               *)
Armed == Asleep => /\ timer # 0
                   /\ timer <= now + 1 \/ \A d \in Deadlines : timer <= d

LEMMA ArmedIsEnough == TypeOK /\ Armed => NoOversleep
<1> SUFFICES ASSUME TypeOK, Armed, Asleep
             PROVE  timer # 0 /\ timer <= Greatest(NextDeadline, now + 1)
  BY DEF NoOversleep
<1>1. timer # 0 /\ (timer <= now + 1 \/ \A d \in Deadlines : timer <= d)
  BY DEF Armed
<1>2. timer \in Nat /\ now \in Nat /\ NextDeadline \in Nat /\ NextDeadline \in Deadlines
  BY StampTypes, DeadlineIsLeast
<1> QED
  BY <1>1, <1>2 DEF Greatest

(* What the deadlines are made of. *)
LEMMA DeadlineCases ==
  ASSUME NEW d
  PROVE  d \in Deadlines <=>
            \/ StatusReference # 0 /\ d = StatusReference + opts.watchdog
            \/ PacketReference # 0 /\ d = PacketReference + opts.watchdog
            \/ requestAt = 0 /\ d = now
            \/ requestAt # 0 /\ d = requestAt + opts.status_interval
            \/ KeepaliveDeadline # 0 /\ d = KeepaliveDeadline
            \/ \E g \in Groups : /\ seenAt[g] # 0 /\ now <= seenAt[g] + opts.stale[g]
                                 /\ d = seenAt[g] + opts.stale[g]
BY DEF Deadlines

(* Time passing brings no deadline closer than the one slept for. *)
LEMMA ArmedTick ==
  ASSUME TypeOK, TypeOK', Armed, Tick
  PROVE  Armed'
<1>1. /\ now' = now + 1 /\ ~Due
      /\ UNCHANGED <<opts, phase, connectedAt, seenAt, packetAt, requestAt, keepaliveAt,
                     attemptAt, initial, pc, timer, wakeup>>
  BY DEF Tick, Ready, session, heard, sent, task
<1> SUFFICES ASSUME Asleep, ~(timer <= now' + 1), NEW d \in Deadlines'
             PROVE  timer <= d
  BY <1>1 DEF Armed, Asleep
<1>2. timer \in Nat /\ now \in Nat /\ \A e \in Deadlines : timer <= e
  BY <1>1, StampTypes DEF Armed
<1>3. StatusReference' = StatusReference /\ PacketReference' = PacketReference
      /\ KeepaliveReference' = KeepaliveReference /\ RetryDelay' = RetryDelay
  BY <1>1 DEF StatusReference, PacketReference, KeepaliveReference, RetryDelay
<1>4. KeepaliveDeadline' = KeepaliveDeadline
  <2>1. CASE SendInitial' <=> SendInitial
    BY <1>1, <1>3, <2>1 DEF KeepaliveDeadline
  <2>2. ASSUME ~(SendInitial' <=> SendInitial) PROVE FALSE
    <3>1. seenAt["settings"] \in Nat /\ opts.stale["settings"] \in Nat /\ seenAt["settings"] <= now
      BY StampTypes, OptionTypes DEF Groups
    <3>2. seenAt["settings"] # 0 /\ now = seenAt["settings"] + opts.stale["settings"]
      BY <2>2, <3>1, <1>1, <1>2 DEF SendInitial
    <3>3. now \in Deadlines
      BY <3>1, <3>2, DeadlineCases DEF Groups
    <3> QED
      BY <3>3, <1>1, <1>2
  <2> QED
    BY <2>1, <2>2
<1>5. CASE d \in Deadlines
  BY <1>5, <1>2
<1>6. CASE d \notin Deadlines
  <2>1. \/ requestAt = 0
        \/ \E g \in Groups : /\ seenAt[g] # 0 /\ now' <= seenAt[g] + opts.stale[g]
                             /\ d = seenAt[g] + opts.stale[g]
    BY <1>1, <1>3, <1>4, <1>6 DEF Deadlines
  <2>2. ASSUME requestAt = 0 PROVE FALSE
    <3>1. now \in Deadlines
      BY <2>2, DeadlineCases
    <3> QED
      BY <3>1, <1>1, <1>2
  <2>3. ASSUME NEW g \in Groups, seenAt[g] # 0, now' <= seenAt[g] + opts.stale[g],
               d = seenAt[g] + opts.stale[g]
        PROVE  FALSE
    <3>1. seenAt[g] \in Nat /\ opts.stale[g] \in Nat
      BY StampTypes, OptionTypes
    <3>2. now <= seenAt[g] + opts.stale[g]
      BY <2>3, <3>1, <1>1, <1>2
    <3> QED
      BY <2>3, <3>2, <1>6, DeadlineCases
  <2> QED
    BY <2>1, <2>2, <2>3
<1> QED
  BY <1>5, <1>6

(* A user's write of settings moves the keepalive away, or no further towards *)
(* now than it was when the write began.                                      *)
LEMMA ArmedWritten ==
  ASSUME TypeOK, TypeOK', OnTime, Held, Armed, UserWritten, user = "settings"
  PROVE  Armed'
<1>1. /\ keepaliveAt' = userAt /\ attemptAt' = 0 /\ initial' = FALSE
      /\ UNCHANGED <<now, opts, phase, connectedAt, seenAt, packetAt, requestAt,
                     pc, timer, wakeup>>
  BY DEF UserWritten, Record, session, heard, task
<1> SUFFICES ASSUME Asleep, ~(timer <= now + 1), NEW d \in Deadlines'
             PROVE  timer <= d
  BY <1>1 DEF Armed, Asleep
<1>2. timer \in Nat /\ now \in Nat \ {0} /\ opts.keepalive_interval \in Nat
      /\ \A e \in Deadlines : timer <= e
  BY StampTypes, OptionTypes DEF Armed
<1>3. userAt \in Nat /\ userAt # 0 /\ userAt <= now /\ keepaliveAt <= userAt
      /\ seenAt["settings"] # 0 /\ attemptAt <= userAt /\ now <= userAt + IoTimeout
  <2>1. userAt \in Nat /\ userAt <= now /\ IoTimeout \in Nat /\ ioBy \in Nat
    BY StampTypes, MaintenanceAssumption DEF TypeOK
  <2>2. now <= ioBy /\ ioBy <= userAt + IoTimeout
    BY DEF OnTime, LockFree, Held
  <2> QED
    BY <1>2, <2>1, <2>2 DEF Held, Asleep
<1>4. KeepaliveDeadline' = IF opts.keepalive THEN userAt + opts.keepalive_interval ELSE 0
  BY <1>1, <1>2, <1>3 DEF KeepaliveDeadline, SendInitial, KeepaliveReference, Either
<1>5. ASSUME opts.keepalive PROVE timer <= userAt + opts.keepalive_interval
  <2>1. seenAt["settings"] \in Nat /\ seenAt["settings"] <= now
        /\ attemptAt \in Nat /\ keepaliveAt \in Nat /\ IoTimeout \in Nat
        /\ opts.stale["settings"] \in Nat /\ opts.stale["settings"] > opts.keepalive_interval
        /\ opts.keepalive_interval > IoTimeout
    <3>1. opts \in Options /\ Validated(opts) /\ opts.stale["settings"] \in Nat
          /\ IoTimeout \in Nat
      BY MaintenanceAssumption, OptionTypes DEF TypeOK, Groups
    <3> QED
      BY <1>2, <1>5, <3>1, StampTypes DEF Groups, Validated
  <2>2. RetryDelay \in Nat /\ RetryDelay <= opts.keepalive_interval
    BY ReferenceTypes
  <2>3. KeepaliveDeadline # 0 => timer <= KeepaliveDeadline
    BY <1>2, DeadlineCases
  <2>4. CASE SendInitial
    <3>1. KeepaliveDeadline = IF attemptAt # 0 /\ attemptAt >= seenAt["settings"]
                              THEN attemptAt + RetryDelay ELSE seenAt["settings"]
      BY <1>5, <2>4 DEF KeepaliveDeadline
    <3> QED
      BY <1>2, <1>3, <2>1, <2>2, <2>3, <3>1
  <2>5. CASE ~SendInitial
    <3>1. KeepaliveReference # 0 /\ KeepaliveReference \in Nat /\ KeepaliveReference <= userAt
      <4>1. CASE keepaliveAt # 0
        BY <1>3, <2>1, <4>1 DEF KeepaliveReference, Either
      <4>2. CASE keepaliveAt = 0
        <5>1. initial
          BY <1>5, <4>2 DEF Held, Asleep
        <5>2. now - seenAt["settings"] > opts.stale["settings"]
          BY <1>2, <1>3, <2>1, <2>5, <5>1 DEF SendInitial
        <5> QED
          BY <1>2, <1>3, <2>1, <4>2, <5>2 DEF KeepaliveReference, Either
      <4> QED
        BY <4>1, <4>2
    <3>2. KeepaliveDeadline \in {KeepaliveReference + opts.keepalive_interval,
                                attemptAt + RetryDelay}
      BY <1>5, <2>5, <3>1 DEF KeepaliveDeadline
    <3>3. KeepaliveDeadline # 0
      BY <1>2, <1>5, <2>1, <2>2, <2>5, <3>1 DEF KeepaliveDeadline
    <3> QED
      BY <1>2, <1>3, <2>1, <2>2, <2>3, <3>1, <3>2, <3>3
  <2> QED
    BY <2>4, <2>5
<1>6. CASE KeepaliveDeadline' # 0 /\ d = KeepaliveDeadline'
  BY <1>4, <1>5, <1>6
<1>7. CASE ~(KeepaliveDeadline' # 0 /\ d = KeepaliveDeadline')
  <2>1. StatusReference' = StatusReference /\ PacketReference' = PacketReference
    BY <1>1 DEF StatusReference, PacketReference
  <2>2. d \in Deadlines
    BY <1>1, <1>7, <2>1 DEF Deadlines
  <2> QED
    BY <2>2, <1>2
<1> QED
  BY <1>6, <1>7

(* A status request moves the poll away. *)
LEMMA ArmedRequested ==
  ASSUME TypeOK, TypeOK', Armed, UserWritten, user # "settings"
  PROVE  Armed'
<1>1. /\ requestAt' = now \/ requestAt' = requestAt
      /\ UNCHANGED <<now, opts, phase, connectedAt, seenAt, packetAt, keepaliveAt,
                     attemptAt, initial, pc, timer, wakeup>>
  BY DEF UserWritten, session, heard, task
<1> SUFFICES ASSUME Asleep, ~(timer <= now + 1), NEW d \in Deadlines'
             PROVE  timer <= d
  BY <1>1 DEF Armed, Asleep
<1>2. timer \in Nat /\ now \in Nat \ {0} /\ opts.status_interval \in Nat
      /\ requestAt \in Nat /\ requestAt <= now /\ \A e \in Deadlines : timer <= e
  BY StampTypes, OptionTypes DEF Armed
<1>3. timer <= now + opts.status_interval
  <2>1. CASE requestAt = 0
    BY <1>2, <2>1, DeadlineCases
  <2>2. CASE requestAt # 0
    <3>1. timer <= requestAt + opts.status_interval
      BY <1>2, <2>2, DeadlineCases
    <3> QED
      BY <3>1, <1>2
  <2> QED
    BY <2>1, <2>2
<1>4. CASE d \in Deadlines
  BY <1>4, <1>2
<1>5. CASE d \notin Deadlines
  <2>1. StatusReference' = StatusReference /\ PacketReference' = PacketReference
        /\ KeepaliveDeadline' = KeepaliveDeadline
    BY <1>1 DEF StatusReference, PacketReference, KeepaliveDeadline, KeepaliveReference,
                SendInitial, RetryDelay
  <2>2. requestAt' = now /\ d = now + opts.status_interval
    BY <1>1, <1>2, <1>5, <2>1 DEF Deadlines
  <2> QED
    BY <2>2, <1>3
<1> QED
  BY <1>4, <1>5

(* The deadlines depend on these variables only. *)
LEMMA ArmedKeeps ==
  ASSUME Armed,
         UNCHANGED <<now, opts, phase, connectedAt, seenAt, packetAt, requestAt,
                     keepaliveAt, attemptAt, initial, pc, timer, wakeup>>
  PROVE  Armed'
<1>1. Deadlines' = Deadlines
  BY DEF Deadlines, StatusReference, PacketReference, KeepaliveDeadline,
         KeepaliveReference, SendInitial, RetryDelay
<1> QED
  BY <1>1 DEF Armed, Asleep

LEMMA ArmedStep ==
  ASSUME TypeOK, TypeOK', OnTime, Held, Armed, [Next]_vars
  PROVE  Armed'
<1> USE DEF session, heard, sent, pending, shown, using, task
<1>1. CASE UNCHANGED vars
  BY <1>1, ArmedKeeps DEF vars
<1>2. CASE Tick
  BY <1>2, ArmedTick
<1>3. CASE Connecting
  <2>1. CASE LinkLost
    BY <2>1, ArmedKeeps DEF LinkLost
  <2>2. CASE Install \/ NotifyFails \/ Notified \/ GreetFails \/ Dropped \/ Disconnect
    BY <2>2 DEF Install, NotifyFails, Notified, GreetFails, Dropped, Close, Disconnect, Reset,
                Armed, Asleep
  <2>3. CASE Greeted
    BY <2>3 DEF Greeted, Armed, Asleep
  <2> QED
    BY <1>3, <2>1, <2>2, <2>3 DEF Connecting
<1>4. CASE Notifying
  BY <1>4 DEF Notifying, Receive, ReceiveSettings, Heard, Tell, Armed, Asleep
<1>5. CASE Using
  <2>1. CASE ChangeSettings \/ ChangeOutput \/ Refresh \/ UserFails
    BY <2>1, ArmedKeeps DEF ChangeSettings, ChangeOutput, Refresh, UserFails
  <2>2. CASE UserWritten /\ user = "settings"
    BY <2>2, ArmedWritten
  <2>3. CASE UserWritten /\ user # "settings"
    BY <2>3, ArmedRequested
  <2>4. CASE \E o \in Options : ApplyOptions(o)
    BY <2>4 DEF ApplyOptions, Tell, Armed, Asleep
  <2> QED
    BY <1>5, <2>1, <2>2, <2>3, <2>4 DEF Using
<1>6. CASE Maintaining
  <2>1. CASE Rest
    <3>1. CASE phase = "up"
      <4>1. timer' = Greatest(NextDeadline, now + 1)
        BY <2>1, <3>1 DEF Rest, Sleep, connected
      <4>2. now \in Nat /\ Deadlines \in SUBSET Nat /\ NextDeadline \in Nat
            /\ \A d \in Deadlines : NextDeadline <= d
        BY StampTypes, DeadlineIsLeast
      <4>3. Deadlines' = Deadlines /\ now' = now
        BY <2>1 DEF Rest, Deadlines, StatusReference, PacketReference,
                    KeepaliveDeadline, KeepaliveReference, SendInitial, RetryDelay
      <4>4. timer' # 0 /\ (timer' <= now + 1 \/ \A d \in Deadlines : timer' <= d)
        BY <4>1, <4>2 DEF Greatest
      <4> QED
        BY <4>3, <4>4 DEF Armed
    <3>2. CASE phase # "up"
      BY <2>1, <3>2 DEF Rest, Armed, Asleep
    <3> QED
      BY <3>1, <3>2
  <2>2. CASE PassDisconnected
    BY <2>2 DEF PassDisconnected, connected, Armed, Asleep
  <2>3. CASE Pass
    BY <2>3 DEF Pass, Reconnect, Ask, Armed, Asleep
  <2>4. CASE Wake \/ Drop
    BY <2>4 DEF Wake, Drop, Armed, Asleep
  <2>5. CASE KeepaliveRefused \/ KeepaliveBegins \/ KeepaliveWritten \/ KeepaliveFails
    BY <2>5 DEF KeepaliveRefused, Reconnect, Ask, KeepaliveBegins, KeepaliveWritten,
                KeepaliveFails, Armed, Asleep
  <2>6. CASE RequestBegins("ask_poll", "polling") \/ RequestBegins("ask_recover", "recovering")
             \/ RequestWritten \/ RequestFails
    BY <2>6 DEF RequestBegins, RequestWritten, RequestFails, Armed, Asleep
  <2> QED
    BY <1>6, <2>1, <2>2, <2>3, <2>4, <2>5, <2>6 DEF Maintaining
<1> QED
  BY <1>1, <1>2, <1>3, <1>4, <1>5, <1>6 DEF Next

(* A sleeping loop always sleeps until the next deadline at most.            *)
THEOREM NeverOversleeps == Spec => []NoOversleep
<1>1. Init => TypeOK /\ OnTime /\ Held /\ Armed
  BY TypeInit, HeldInit DEF Init, Armed, Asleep
<1>2. TypeOK /\ OnTime /\ Held /\ Armed /\ [Next]_vars
        => (TypeOK /\ OnTime /\ Held /\ Armed)'
  BY TypeStep, OnTimeStep, HeldStep, ArmedStep
<1>3. TypeOK /\ Armed => NoOversleep
  BY ArmedIsEnough
<1> QED
  BY <1>1, <1>2, <1>3, PTL DEF Spec

(***************************************************************************)
(* Keepalives keep their distance while the options stay.                   *)
(***************************************************************************)

(* A decision to send a keepalive stays justified until the lock is granted, *)
(* unless a user's write is recorded meanwhile.                              *)
Justified ==
    \/ initial \/ keepaliveAt = 0 \/ phase = "down"
    \/ attemptAt = 0 /\ keepaliveAt + IoTimeout >= passAt
    \/ passAt - keepaliveAt >= opts.keepalive_interval
Decided == pc = "ask_keepalive" => Justified

LEMMA DecidedPass ==
  ASSUME TypeOK, Pass
  PROVE  Decided'
<1> SUFFICES ASSUME pc' = "ask_keepalive" PROVE Justified'
  BY DEF Decided
<1>1. /\ KeepaliveDue /\ passAt' = now
      /\ UNCHANGED <<initial, keepaliveAt, phase, opts>>
  BY DEF Pass, Reconnect, Ask
<1>2. now \in Nat /\ keepaliveAt \in Nat /\ attemptAt \in Nat /\ attemptAt <= now
      /\ keepaliveAt <= now
      /\ opts.keepalive_interval \in Nat /\ RetryDelay \in Nat
  BY StampTypes, OptionTypes, ReferenceTypes
<1>3. CASE initial \/ keepaliveAt = 0
  BY <1>1, <1>3 DEF Justified
<1>4. CASE ~initial /\ keepaliveAt # 0
  <2>1. ~SendInitial /\ KeepaliveReference = keepaliveAt
    BY <1>4 DEF SendInitial, KeepaliveReference, Either
  <2>2. keepaliveAt + opts.keepalive_interval <= now
    BY <1>1, <1>2, <1>4, <2>1 DEF KeepaliveDue, KeepaliveDeadline
  <2> QED
    BY <1>1, <1>2, <2>2 DEF Justified
<1> QED
  BY <1>3, <1>4

LEMMA DecidedStep ==
  ASSUME "options" \notin Commands, TypeOK, OnTime, Held, Decided, [Next]_vars
  PROVE  Decided'
<1> USE DEF session, heard, sent, pending, shown, using, task
<1>1. CASE UNCHANGED vars
  BY <1>1 DEF vars, Decided, Justified
<1>2. CASE Tick
  BY <1>2 DEF Tick, Decided, Justified
<1>3. CASE Connecting
  <2>1. CASE Install
    BY <2>1 DEF Install, Asking, Decided
  <2>2. CASE NotifyFails \/ Disconnect
    BY <2>2 DEF NotifyFails, Disconnect, Reset, Decided, Justified
  <2>3. CASE Notified
    BY <2>3 DEF Notified, Decided, Justified
  <2>4. CASE Greeted
    BY <2>4 DEF Greeted, Decided, Justified
  <2>5. CASE GreetFails \/ Dropped
    BY <2>5 DEF GreetFails, Dropped, Close, Decided, Justified
  <2>6. CASE LinkLost
    BY <2>6 DEF LinkLost, Decided, Justified
  <2> QED
    BY <1>3, <2>1, <2>2, <2>3, <2>4, <2>5, <2>6 DEF Connecting
<1>4. CASE Notifying
  BY <1>4 DEF Notifying, Receive, ReceiveSettings, Heard, Decided, Justified
<1>5. CASE Using
  <2>1. CASE ChangeSettings \/ ChangeOutput \/ Refresh \/ UserFails
    BY <2>1 DEF ChangeSettings, ChangeOutput, Refresh, UserFails, Decided, Justified
  <2>2. CASE UserWritten /\ user = "settings"
    <3>1. keepaliveAt' = userAt /\ attemptAt' = 0 /\ passAt' = passAt
      BY <2>2 DEF UserWritten, Record
    <3>2. passAt <= now /\ now <= ioBy /\ ioBy <= userAt + IoTimeout
      BY <2>2, StampTypes DEF OnTime, LockFree, Held
    <3>3. userAt + IoTimeout >= passAt
      BY <3>2, StampTypes, MaintenanceAssumption DEF TypeOK
    <3> QED
      BY <3>1, <3>3 DEF Decided, Justified
  <2>3. CASE UserWritten /\ user # "settings"
    BY <2>3 DEF UserWritten, Decided, Justified
  <2> QED
    BY <1>5, <2>1, <2>2, <2>3 DEF Using, ApplyOptions
<1>6. CASE Maintaining
  <2>1. CASE Pass
    BY <2>1, DecidedPass
  <2>2. CASE PassDisconnected \/ Rest \/ Wake \/ Drop
    BY <2>2 DEF PassDisconnected, Rest, Sleep, Wake, Drop, Decided
  <2>3. CASE KeepaliveRefused \/ KeepaliveBegins \/ KeepaliveWritten \/ KeepaliveFails
    BY <2>3 DEF KeepaliveRefused, Reconnect, Ask, KeepaliveBegins, KeepaliveWritten,
                KeepaliveFails, Decided
  <2>4. CASE RequestBegins("ask_poll", "polling") \/ RequestBegins("ask_recover", "recovering")
             \/ RequestWritten \/ RequestFails
    BY <2>4 DEF RequestBegins, RequestWritten, RequestFails, Decided
  <2> QED
    BY <1>6, <2>1, <2>2, <2>3, <2>4 DEF Maintaining
<1> QED
  BY <1>1, <1>2, <1>3, <1>4, <1>5, <1>6 DEF Next

LEMMA DecidedSpaces ==
  ASSUME TypeOK, Decided, [Next]_vars, pc = "ask_keepalive", pc' = "keeping"
  PROVE  \/ initial \/ keepaliveAt = 0
         \/ attemptAt = 0 /\ keepaliveAt + IoTimeout >= passAt
         \/ now - keepaliveAt >= opts.keepalive_interval
<1> USE DEF session, heard, sent, pending, shown, using, task
<1>1. Maintaining
  BY DEF Next, vars, Tick, Connecting, Install, NotifyFails, Notified, Greeted, GreetFails,
         Dropped, Close, Disconnect, LinkLost, Notifying, Receive, ReceiveSettings, Heard, Using,
         ChangeSettings, ChangeOutput, Refresh, UserWritten, UserFails, ApplyOptions
<1>2. KeepaliveBegins
  BY <1>1 DEF Maintaining, PassDisconnected, Pass, Rest, Sleep, Wake, Drop, KeepaliveRefused,
              Reconnect, Ask, KeepaliveWritten, KeepaliveFails, RequestBegins, RequestWritten,
              RequestFails
<1>3. phase # "down"
  BY <1>2 DEF KeepaliveBegins, Submit, Writable, Readable, connected
<1>4. now \in Nat /\ passAt \in Nat /\ keepaliveAt \in Nat /\ passAt <= now
      /\ opts.keepalive_interval \in Nat
  BY StampTypes, OptionTypes
<1> QED
  BY <1>3, <1>4 DEF Decided, Justified

(* While the options stay as they are, a keepalive follows the last settings *)
(* write of its session after an interval, but for the initial one and for   *)
(* what KeepalivesSpaced says of users' writes.                              *)
THEOREM KeepalivesKeepDistance ==
  ASSUME "options" \notin Commands
  PROVE  Spec => KeepalivesSpaced
<1>1. Init => TypeOK /\ OnTime /\ Held /\ Decided
  BY TypeInit, HeldInit DEF Init, Decided
<1>2. TypeOK /\ OnTime /\ Held /\ Decided /\ [Next]_vars
        => (TypeOK /\ OnTime /\ Held /\ Decided)'
  BY TypeStep, OnTimeStep, HeldStep, DecidedStep
<1>3. TypeOK /\ Decided /\ [Next]_vars =>
        [pc = "ask_keepalive" /\ pc' = "keeping" =>
           \/ initial \/ keepaliveAt = 0
           \/ attemptAt = 0 /\ keepaliveAt + IoTimeout >= passAt
           \/ now - keepaliveAt >= opts.keepalive_interval]_vars
  BY DecidedSpaces
<1> QED
  BY <1>1, <1>2, <1>3, PTL DEF Spec, KeepalivesSpaced

(***************************************************************************)
(* Waiting for the lock.                                                    *)
(***************************************************************************)

(* How long k calls hold the lock.                                           *)
Wait == [k \in 0 .. Callers |-> k * IoTimeout]

LEMMA WaitTypes ==
  /\ IoTimeout \in Nat \ {0} /\ Callers \in Nat
  /\ Turn \in Nat /\ IoTimeout <= Turn /\ Turn = Wait[Callers] + IoTimeout
  /\ Slack = 2 * Turn + 1 /\ Wait[Callers] \in Nat
  /\ \A k \in 0 .. Callers : Wait[k] \in Nat /\ Wait[k] <= Wait[Callers]
  /\ \A k \in 0 .. Callers :
        k > 0 => k - 1 \in 0 .. Callers /\ Wait[k - 1] + IoTimeout = Wait[k]
<1>1. IoTimeout \in Nat \ {0} /\ Callers \in Nat
  BY MaintenanceAssumption
<1>2. ASSUME NEW k \in 0 .. Callers
      PROVE  /\ Wait[k] = k * IoTimeout /\ Wait[k] \in Nat
             /\ k > 0 => k - 1 \in 0 .. Callers /\ Wait[k - 1] = (k - 1) * IoTimeout
  BY <1>1 DEF Wait
<1>3. ASSUME NEW k \in 0 .. Callers PROVE Wait[k] <= Wait[Callers]
  <2>1. Callers - k \in Nat /\ (Callers - k) * IoTimeout \in Nat
    BY <1>1
  <2>2. Callers * IoTimeout = k * IoTimeout + (Callers - k) * IoTimeout
    BY <1>1
  <2>3. Callers \in 0 .. Callers
    BY <1>1
  <2>4. Wait[k] = k * IoTimeout /\ Wait[Callers] = Callers * IoTimeout
        /\ Wait[k] \in Nat
    BY <1>2, <2>3
  <2> QED
    BY <1>1, <2>1, <2>2, <2>4
<1>4. ASSUME NEW k \in 0 .. Callers, k > 0
      PROVE  k - 1 \in 0 .. Callers /\ Wait[k - 1] + IoTimeout = Wait[k]
  <2>1. (k - 1) * IoTimeout + IoTimeout = k * IoTimeout
    BY <1>1
  <2> QED
    BY <1>2, <1>4, <2>1
<1>5. Turn = Wait[Callers] + IoTimeout /\ Wait[Callers] \in Nat
  <2>1. (Callers + 1) * IoTimeout = Callers * IoTimeout + IoTimeout
    BY <1>1
  <2>2. Callers \in 0 .. Callers
    BY <1>1
  <2> QED
    BY <1>2, <2>1, <2>2 DEF Turn
<1>6. \A k \in 0 .. Callers : Wait[k] \in Nat
  BY <1>2
<1> QED
  BY <1>1, <1>3, <1>4, <1>5, <1>6 DEF Slack

(* When the lock is granted at the latest to who asked for it.               *)
Granted == (IF LockFree THEN now ELSE ioBy) + Wait[ahead]

LEMMA GrantedTypes ==
  ASSUME TypeOK, OnTime
  PROVE  /\ Granted \in Nat /\ now <= Granted /\ Granted <= now + Turn
         /\ LockFree => Granted + IoTimeout <= now + Turn
<1>1. now \in Nat /\ ioBy \in Nat /\ ahead \in 0 .. Callers
  BY DEF TypeOK
<1>2. ~LockFree => now <= ioBy /\ ioBy <= now + IoTimeout
  BY DEF OnTime
<1>3. Wait[Callers] \in Nat /\ Turn = Wait[Callers] + IoTimeout /\ IoTimeout \in Nat
  BY WaitTypes
<1>4. Wait[ahead] \in Nat /\ Wait[ahead] <= Wait[Callers]
  BY <1>1, WaitTypes
<1> QED
  BY <1>1, <1>2, <1>3, <1>4 DEF Granted

LEMMA SameBounds == Turn' = Turn /\ Slack' = Slack /\ Wait' = Wait
BY DEF Turn, Slack, Wait

LEMMA GrantedNext ==
  ASSUME TypeOK', OnTime'
  PROVE  /\ Granted' \in Nat /\ now' <= Granted' /\ Granted' <= now' + Turn
         /\ LockFree' => Granted' + IoTimeout <= now' + Turn
<1>1. now' \in Nat /\ ioBy' \in Nat /\ ahead' \in 0 .. Callers
  BY DEF TypeOK
<1>2. ~LockFree' => now' <= ioBy' /\ ioBy' <= now' + IoTimeout
  BY DEF OnTime
<1>3. Wait[Callers] \in Nat /\ Turn = Wait[Callers] + IoTimeout /\ IoTimeout \in Nat
  BY WaitTypes
<1>4. Wait[ahead'] \in Nat /\ Wait[ahead'] <= Wait[Callers]
  BY <1>1, WaitTypes
<1>5. Granted' = (IF LockFree' THEN now' ELSE ioBy') + Wait[ahead']
  BY SameBounds DEF Granted
<1>6. CASE LockFree'
  <2>1. Granted' = now' + Wait[ahead']
    BY <1>5, <1>6
  <2> QED
    BY <1>1, <1>3, <1>4, <2>1
<1>7. CASE ~LockFree'
  <2>1. Granted' = ioBy' + Wait[ahead'] /\ now' <= ioBy' /\ ioBy' <= now' + IoTimeout
    BY <1>2, <1>5, <1>7
  <2>2. PICK n \in Nat, b \in Nat, w \in Nat, c \in Nat, i \in Nat :
          n = now' /\ b = ioBy' /\ w = Wait[ahead'] /\ c = Wait[Callers] /\ i = IoTimeout
    BY <1>1, <1>3, <1>4
  <2>3. n <= b /\ b <= n + i /\ w <= c
    BY <1>4, <2>1, <2>2
  <2>4. b + w \in Nat /\ n <= b + w /\ b + w <= n + (c + i)
    BY <2>3
  <2>5. Granted' = b + w /\ Turn = c + i /\ now' = n
    BY <1>3, <2>1, <2>2
  <2> QED
    BY <1>7, <2>4, <2>5
<1> QED
  BY <1>6, <1>7

(* Nobody who asks later delays it.                                          *)
LEMMA GrantedKeeps ==
  ASSUME TypeOK, OnTime, UNCHANGED <<ioBy, ahead>>,
         (now' = now /\ (LockFree => LockFree')) \/ (~LockFree /\ ~LockFree')
  PROVE  Granted' <= Granted
<1>1. now \in Nat /\ ioBy \in Nat /\ ahead \in 0 .. Callers
  BY DEF TypeOK
<1>2. ~LockFree => now <= ioBy
  BY DEF OnTime
<1>3. Wait[ahead] \in Nat
  BY <1>1, WaitTypes
<1> QED
  BY <1>1, <1>2, <1>3 DEF Granted

(* Nor does who asked before: the hold of each is reckoned with.             *)
LEMMA GrantedUser ==
  ASSUME TypeOK, Asking, GoesFirst, LockFree, now' = now, pc' = pc,
         LockFree' \/ ioBy' = now + IoTimeout
  PROVE  Granted' <= Granted
<1>1. now \in Nat /\ ahead \in 0 .. Callers /\ ahead > 0 /\ ahead' = ahead - 1
  BY DEF TypeOK, GoesFirst
<1>2. Wait[ahead - 1] + IoTimeout = Wait[ahead] /\ IoTimeout \in Nat
      /\ Wait[ahead - 1] \in Nat /\ Wait[ahead] \in Nat
  BY <1>1, WaitTypes
<1>3. Granted = now + Wait[ahead]
  BY DEF Granted
<1>4. Granted' = (IF LockFree' THEN now ELSE ioBy') + Wait[ahead - 1]
  BY <1>1 DEF Granted
<1> QED
  BY <1>1, <1>2, <1>3, <1>4

LEMMA GrantedStep ==
  ASSUME TypeOK, OnTime, [Next]_vars, pc \in Asks, pc' = pc
  PROVE  Granted' <= Granted
<1> USE DEF session, heard, sent, pending, shown, using, task
<1>0. Asking /\ phase # "notify"
  BY DEF Asking, Asks, OnTime
<1>1. CASE UNCHANGED vars
  BY <1>1, GrantedKeeps DEF vars, LockFree
<1>2. CASE Tick
  <2>1. ~LockFree /\ UNCHANGED <<phase, user, pc, ioBy, ahead>>
    BY <1>0, <1>2 DEF Tick, Ready
  <2> QED
    BY <2>1, GrantedKeeps DEF LockFree
<1>3. CASE Connecting
  <2>1. UNCHANGED <<now, user, ioBy, ahead>> /\ (LockFree => LockFree')
    <3>1. ~Install /\ ~NotifyFails /\ ~Notified
      BY <1>0 DEF Install, NotifyFails, Notified
    <3>2. CASE Greeted
      BY <3>2 DEF Greeted, LockFree
    <3>3. CASE GreetFails \/ Dropped
      BY <1>0, <3>3 DEF GreetFails, Dropped, Close, LockFree
    <3>4. CASE Disconnect \/ LinkLost
      BY <3>4 DEF Disconnect, Reset, LinkLost, LockFree
    <3> QED
      BY <1>3, <3>1, <3>2, <3>3, <3>4 DEF Connecting
  <2> QED
    BY <2>1, GrantedKeeps DEF LockFree
<1>4. CASE Notifying
  <2>1. UNCHANGED <<now, phase, user, ioBy, ahead>>
    BY <1>4 DEF Notifying, Receive, ReceiveSettings, Heard
  <2> QED
    BY <2>1, GrantedKeeps DEF LockFree
<1>5. CASE Using
  <2>1. CASE ChangeSettings
    <3>1. GoesFirst /\ LockFree /\ now' = now /\ phase' = phase
          /\ (user' = "none" \/ ioBy' = now + IoTimeout)
      BY <2>1 DEF ChangeSettings, Submit, LockFree
    <3> QED
      BY <1>0, <3>1, GrantedUser DEF LockFree
  <2>2. CASE ChangeOutput \/ Refresh
    <3>1. GoesFirst /\ LockFree /\ now' = now /\ ioBy' = now + IoTimeout
      BY <2>2 DEF ChangeOutput, Refresh, UserBegins
    <3> QED
      BY <1>0, <3>1, GrantedUser
  <2>3. CASE UserWritten \/ UserFails \/ (\E o \in Options : ApplyOptions(o))
    <3>1. UNCHANGED <<now, phase, ioBy, ahead>> /\ (user' = user \/ user' = "none")
      BY <2>3 DEF UserWritten, UserFails, ApplyOptions
    <3> QED
      BY <3>1, GrantedKeeps DEF LockFree
  <2> QED
    BY <1>5, <2>1, <2>2, <2>3 DEF Using
<1>6. CASE Maintaining
  BY <1>6 DEF Maintaining, PassDisconnected, Pass, Rest, Wake, Due, Drop, KeepaliveRefused,
     Reconnect, Ask, KeepaliveBegins, KeepaliveWritten, KeepaliveFails, RequestBegins,
     RequestWritten, RequestFails, Asks
<1> QED
  BY <1>1, <1>2, <1>3, <1>4, <1>5, <1>6 DEF Next

(***************************************************************************)
(* Deadlines are met: what a pass finds in time is still in time, but for   *)
(* two turns at the lock, when the loop sleeps, and it sleeps no longer     *)
(* than until then.                                                         *)
(***************************************************************************)
(* What can happen in an established session without waking the loop.        *)
LEMMA QuietSteps ==
  ASSUME [Next]_vars, phase' = "up", ~wakeup'
  PROVE  /\ phase = "up"
         /\ \/ Tick \/ LinkLost \/ ChangeSettings \/ ChangeOutput \/ Refresh \/ UserWritten
            \/ UserFails \/ Pass \/ Rest \/ Wake
            \/ KeepaliveRefused \/ KeepaliveBegins \/ KeepaliveWritten \/ KeepaliveFails
            \/ RequestBegins("ask_poll", "polling")
            \/ RequestBegins("ask_recover", "recovering")
            \/ RequestWritten \/ RequestFails \/ UNCHANGED vars
<1> USE DEF session, heard, sent, pending, shown, using, task
<1>1. CASE Connecting
  BY <1>1 DEF Connecting, Install, NotifyFails, Notified, Greeted, GreetFails, Dropped, Close,
              Disconnect, Reset, LinkLost
<1>2. CASE Notifying
  BY <1>2 DEF Notifying, Receive, ReceiveSettings, Heard, Tell
<1>3. CASE Using
  BY <1>3 DEF Using, ChangeSettings, ChangeOutput, Refresh, UserWritten, UserFails, ApplyOptions,
              Tell
<1>4. CASE Maintaining
  <2>1. CASE PassDisconnected
    BY <2>1 DEF PassDisconnected, connected
  <2>2. CASE Drop
    BY <2>2 DEF Drop, Reset, connected
  <2>3. CASE KeepaliveRefused \/ KeepaliveBegins \/ KeepaliveWritten \/ KeepaliveFails
    BY <2>3 DEF KeepaliveRefused, KeepaliveBegins, KeepaliveWritten, KeepaliveFails
  <2>4. CASE RequestBegins("ask_poll", "polling") \/ RequestBegins("ask_recover", "recovering")
             \/ RequestWritten \/ RequestFails
    BY <2>4 DEF RequestBegins, RequestWritten, RequestFails
  <2>5. CASE Pass \/ Rest \/ Wake
    BY <2>5 DEF Pass, Rest, Wake
  <2> QED
    BY <1>4, <2>1, <2>2, <2>3, <2>4, <2>5 DEF Maintaining
<1>5. CASE Tick
  BY <1>5 DEF Tick
<1> QED
  BY <1>1, <1>2, <1>3, <1>4, <1>5 DEF Next, vars

(* Such a step leaves every deadline but the poll's where it was, and if the *)
(* loop had been woken, it starts the pass.                                  *)
LEMMA QuietKeeps ==
  ASSUME TypeOK, [Next]_vars, phase' = "up", ~wakeup'
  PROVE  /\ UNCHANGED <<opts, connectedAt, seenAt, packetAt>>
         /\ ~Pass => UNCHANGED <<reported, published>>
         /\ requestAt \in Nat /\ requestAt' \in Nat /\ requestAt <= requestAt'
         /\ wakeup => pc' = "run"
<1> USE DEF session, heard, sent, pending, shown, using, task
<1>1. now \in Nat /\ requestAt \in Nat /\ requestAt <= now
  BY StampTypes
<1>2. CASE Tick \/ LinkLost \/ UNCHANGED vars
  BY <1>1, <1>2 DEF Tick, LinkLost, vars
<1>3. CASE ChangeSettings \/ ChangeOutput \/ Refresh \/ UserWritten \/ UserFails
  <2>1. UNCHANGED <<opts, connectedAt, seenAt, packetAt, reported, published, wakeup>>
    BY <1>3 DEF ChangeSettings, ChangeOutput, Refresh, UserWritten, UserFails
  <2>2. requestAt' = requestAt \/ requestAt' = now
    BY <1>3 DEF ChangeSettings, ChangeOutput, Refresh, UserWritten, UserFails
  <2> QED
    BY <1>1, <2>1, <2>2
<1>4. CASE Pass \/ Rest \/ Wake
  BY <1>1, <1>4 DEF Pass, Reconnect, Ask, Rest, Wake
<1>5. CASE KeepaliveRefused \/ KeepaliveBegins \/ KeepaliveWritten \/ KeepaliveFails
  BY <1>1, <1>5 DEF KeepaliveRefused, Reconnect, Ask, KeepaliveBegins, KeepaliveWritten, Record,
                    KeepaliveFails
<1>6. CASE RequestBegins("ask_poll", "polling") \/ RequestBegins("ask_recover", "recovering")
           \/ RequestWritten \/ RequestFails
  BY <1>1, <1>6 DEF RequestBegins, RequestWritten, RequestFails
<1> QED
  BY <1>2, <1>3, <1>4, <1>5, <1>6, QuietSteps

(* The places of a pass that found a deadline not yet passed: it may ask for *)
(* the lock twice, and write.                                                *)
PassBy(limit) ==
    /\ pc \in {"ask_keepalive", "ask_poll"} => Granted <= limit + Turn
    /\ pc = "ask_recover" => Granted + IoTimeout <= limit + 2 * Turn
    /\ pc \in Writing => ioBy <= limit + 2 * Turn
    /\ pc = "rest" => now <= limit + 2 * Turn
SleptBy(limit) == pc = "wait" => timer <= limit + Slack

LEMMA PassByStep ==
  ASSUME TypeOK, TypeOK', OnTime, OnTime', [Next]_vars, phase' = "up", ~wakeup', ~Pass,
         NEW limit \in Nat, wakeup \/ PassBy(limit)
  PROVE  PassBy(limit)'
<1> USE DEF session, heard, sent, pending, shown, using, task
<1>1. CASE wakeup
  BY <1>1, QuietKeeps DEF PassBy, Asks, Writing
<1>2. CASE ~wakeup
  <2>1. /\ now \in Nat /\ ioBy \in Nat /\ Granted \in Nat /\ Granted' \in Nat
        /\ PassBy(limit) /\ phase = "up"
    BY <1>2, QuietSteps, GrantedTypes, GrantedNext DEF TypeOK
  <2>2. /\ Turn \in Nat /\ IoTimeout \in Nat /\ IoTimeout <= Turn
        /\ UNCHANGED Turn
    BY WaitTypes, SameBounds
  <2>3. CASE pc' = pc
    <3>1. pc \in Asks => Granted' <= Granted
      BY <2>3, GrantedStep
    <3>2. pc \in Writing => ioBy' = ioBy
      BY <2>3, QuietSteps DEF Tick, LinkLost, ChangeSettings, ChangeOutput, Refresh, UserWritten,
         UserFails, LockFree, Rest, Wake, KeepaliveRefused, KeepaliveBegins, KeepaliveWritten,
         KeepaliveFails, RequestBegins, RequestWritten, RequestFails, vars, Writing
    <3>3. pc = "rest" => now' = now
      BY <2>3, QuietSteps DEF Tick, Ready, LinkLost, ChangeSettings, ChangeOutput, Refresh,
         UserWritten, UserFails, Rest, Sleep, Wake, KeepaliveRefused, KeepaliveBegins,
         KeepaliveWritten, KeepaliveFails, RequestBegins, RequestWritten, RequestFails, vars
    <3>4. /\ pc \in {"ask_keepalive", "ask_poll"} => Granted' <= limit + Turn
          /\ pc = "ask_recover" => Granted' + IoTimeout <= limit + 2 * Turn
      <4>1. ASSUME pc \in {"ask_keepalive", "ask_poll"} PROVE Granted' <= limit + Turn
        <5>1. Granted' <= Granted /\ Granted <= limit + Turn
          BY <2>1, <3>1, <4>1 DEF PassBy, Asks
        <5> QED
          BY <2>1, <2>2, <5>1
      <4>2. ASSUME pc = "ask_recover" PROVE Granted' + IoTimeout <= limit + 2 * Turn
        <5>1. PICK g \in Nat, h \in Nat, t \in Nat, i \in Nat :
                g = Granted /\ h = Granted' /\ t = Turn /\ i = IoTimeout
          BY <2>1, <2>2
        <5>2. h <= g /\ g + i <= limit + 2 * t
          BY <2>1, <3>1, <4>2, <5>1 DEF PassBy, Asks
        <5>3. h + i <= limit + 2 * t
          BY <5>2
        <5> QED
          BY <5>1, <5>3
      <4> QED
        BY <4>1, <4>2
    <3>5. pc \in Writing => ioBy' <= limit + 2 * Turn
      BY <2>1, <3>2 DEF PassBy
    <3>6. pc = "rest" => now' <= limit + 2 * Turn
      BY <2>1, <3>3 DEF PassBy
    <3> QED
      BY <2>2, <2>3, <3>4, <3>5, <3>6 DEF PassBy
  <2>4. CASE Rest \/ Wake
    BY <2>4 DEF Rest, Sleep, Wake, PassBy, Writing
  <2>5. CASE KeepaliveRefused
    <3>1. /\ pc = "ask_keepalive" /\ LockFree /\ pc' = "ask_recover" /\ now' = now
          /\ UNCHANGED <<phase, user>>
      BY <2>5 DEF KeepaliveRefused, Gets, Reconnect, Ask
    <3>2. LockFree'
      BY <3>1 DEF LockFree
    <3>3. now <= Granted /\ Granted' + IoTimeout <= now' + Turn
      BY <3>2, GrantedTypes, GrantedNext
    <3>4. Granted <= limit + Turn
      BY <2>1, <3>1 DEF PassBy
    <3>5. PICK n \in Nat, g \in Nat, h \in Nat, t \in Nat, i \in Nat :
            n = now /\ g = Granted /\ h = Granted' /\ t = Turn /\ i = IoTimeout
      BY <2>1, <2>2
    <3>6. n <= g /\ h + i <= n + t /\ g <= limit + t
      BY <3>1, <3>3, <3>4, <3>5
    <3>7. h + i <= limit + 2 * t
      BY <3>6
    <3>8. Granted' + IoTimeout <= limit + 2 * Turn
      BY <3>5, <3>7
    <3> QED
      BY <2>2, <3>1, <3>8 DEF PassBy, Writing
  <2>6. CASE KeepaliveBegins \/ RequestBegins("ask_poll", "polling")
             \/ RequestBegins("ask_recover", "recovering")
    <3>1. /\ pc \in Asks /\ now' = now
          /\ pc' = "rest" \/ (pc' \in Writing /\ ioBy' = now + IoTimeout)
      BY <2>6 DEF KeepaliveBegins, Submit, RequestBegins, Asks, Writing
    <3>2. now <= Granted
      BY GrantedTypes
    <3>3. now + IoTimeout <= limit + 2 * Turn
      BY <2>1, <2>2, <3>1, <3>2 DEF PassBy, Asks
    <3>4. now <= limit + 2 * Turn
      BY <2>1, <2>2, <3>3
    <3> QED
      BY <2>2, <3>1, <3>3, <3>4 DEF PassBy, Writing
  <2>7. CASE KeepaliveWritten \/ KeepaliveFails \/ RequestWritten \/ RequestFails
    <3>1. pc \in Writing /\ ~LockFree
      BY <2>7 DEF KeepaliveWritten, KeepaliveFails, RequestWritten, RequestFails, Writing,
                  LockFree
    <3>2. now <= ioBy /\ ioBy <= limit + 2 * Turn
      BY <2>1, <3>1 DEF OnTime, PassBy
    <3>3. now' = now /\ pc' = "rest"
      BY <2>7 DEF KeepaliveWritten, KeepaliveFails, RequestWritten, RequestFails
    <3> QED
      BY <2>1, <2>2, <3>2, <3>3 DEF PassBy, Writing
  <2>8. CASE Tick \/ LinkLost \/ ChangeSettings \/ ChangeOutput \/ Refresh \/ UserWritten
             \/ UserFails \/ UNCHANGED vars
    BY <2>3, <2>8 DEF Tick, LinkLost, ChangeSettings, ChangeOutput, Refresh, UserWritten,
                      UserFails, vars
  <2> QED
    BY <2>4, <2>5, <2>6, <2>7, <2>8, QuietSteps
<1> QED
  BY <1>1, <1>2

(* And of a pass that finds it in time.                                      *)
LEMMA PassByPass ==
  ASSUME TypeOK, TypeOK', OnTime', NEW limit \in Nat, now <= limit, now' = now,
         pc' \in {"ask_keepalive", "ask_poll", "rest", "ask_drop"}
  PROVE  PassBy(limit)'
<1>1. Granted' \in Nat /\ Granted' <= now' + Turn /\ now \in Nat /\ Turn \in Nat
      /\ Turn' = Turn
  BY GrantedNext, WaitTypes, SameBounds DEF TypeOK
<1> QED
  BY <1>1 DEF PassBy, Writing

LEMMA SleptByStep ==
  ASSUME TypeOK, [Next]_vars, phase' = "up", ~wakeup', ~Rest,
         NEW limit \in Nat, wakeup \/ SleptBy(limit)
  PROVE  SleptBy(limit)'
<1> USE DEF session, heard, sent, pending, shown, using, task
<1>1. CASE wakeup
  BY <1>1, QuietKeeps DEF SleptBy
<1>2. CASE ~wakeup
  <2>1. pc' = "wait" => pc = "wait" /\ timer' = timer
    BY QuietSteps DEF Tick, LinkLost, ChangeSettings, ChangeOutput, Refresh, UserWritten,
       UserFails, Pass, Reconnect, Ask, Wake, KeepaliveRefused, KeepaliveBegins, KeepaliveWritten, KeepaliveFails, RequestBegins,
       RequestWritten, RequestFails, vars
  <2> QED
    BY <1>2, <2>1, SameBounds DEF SleptBy
<1> QED
  BY <1>1, <1>2

LEMMA RestSleepsBy ==
  ASSUME TypeOK, Rest, phase = "up", NEW limit \in Nat, NextDeadline <= limit + Slack,
         now <= limit + 2 * Turn
  PROVE  SleptBy(limit)'
<1>1. timer' = Greatest(NextDeadline, now + 1)
  BY DEF Rest, Sleep, connected
<1>2. now \in Nat /\ NextDeadline \in Nat /\ Turn \in Nat /\ Slack = 2 * Turn + 1
  BY StampTypes, DeadlineIsLeast, WaitTypes
<1>3. timer' <= limit + Slack
  BY <1>1, <1>2 DEF Greatest
<1> QED
  BY <1>3, SameBounds DEF SleptBy

(* The watchdogs: a pass that does not reconnect has found them in time.     *)
Telemetry == StatusReference + opts.watchdog
Transport == PacketReference + opts.watchdog
Watched ==
    phase = "up" /\ ~wakeup =>
        /\ pc = "wait" => timer # 0
        /\ PassBy(Telemetry) /\ SleptBy(Telemetry)
        /\ PassBy(Transport) /\ SleptBy(Transport)

LEMMA WatchdogTypes ==
  ASSUME TypeOK, OnTime
  PROVE  /\ Telemetry \in Nat /\ Transport \in Nat
         /\ connected => Telemetry \in Deadlines /\ Transport \in Deadlines
<1>1. StatusReference \in Nat /\ PacketReference \in Nat /\ opts.watchdog \in Nat
  BY ReferenceTypes, StampTypes, OptionTypes
<1>2. connected => StatusReference # 0 /\ PacketReference # 0
  BY StampTypes DEF OnTime, StatusReference, PacketReference, Either, Groups
<1> QED
  BY <1>1, <1>2, DeadlineCases DEF Telemetry, Transport

LEMMA WatchedStep ==
  ASSUME TypeOK, TypeOK', OnTime, OnTime', Watched, [Next]_vars
  PROVE  Watched'
<1> SUFFICES ASSUME phase' = "up", ~wakeup'
             PROVE  /\ pc' = "wait" => timer' # 0
                    /\ PassBy(Telemetry)' /\ SleptBy(Telemetry)'
                    /\ PassBy(Transport)' /\ SleptBy(Transport)'
  BY DEF Watched
<1>1. /\ phase = "up"
      /\ Telemetry' = Telemetry /\ Transport' = Transport
  BY QuietSteps, QuietKeeps DEF Telemetry, Transport, StatusReference, PacketReference, Either
<1>2. /\ Telemetry \in Nat /\ Transport \in Nat
      /\ Telemetry \in Deadlines /\ Transport \in Deadlines
  BY <1>1, WatchdogTypes DEF connected
<1>3. wakeup \/ /\ pc = "wait" => timer # 0
                /\ PassBy(Telemetry) /\ SleptBy(Telemetry)
                /\ PassBy(Transport) /\ SleptBy(Transport)
  BY <1>1 DEF Watched
<1>4. PICK a \in Nat, b \in Nat : a = Telemetry /\ b = Transport
  BY <1>2
<1>5. PassBy(a)' /\ PassBy(b)'
  <2>1. CASE Pass
    <3>1. ~TelemetryExpired /\ ~TransportExpired /\ now' = now
          /\ pc' \in {"ask_keepalive", "ask_poll", "rest", "ask_drop"}
      BY <2>1 DEF Pass, Reconnect, Ask
    <3>2. now \in Nat /\ StatusReference \in Nat /\ PacketReference \in Nat
          /\ opts.watchdog \in Nat
      BY StampTypes, ReferenceTypes, OptionTypes
    <3>3. now <= a /\ now <= b
      BY <1>4, <3>1, <3>2 DEF TelemetryExpired, TransportExpired, Telemetry, Transport
    <3> QED
      BY <3>1, <3>3, PassByPass
  <2>2. CASE ~Pass
    <3>1. wakeup \/ (PassBy(a) /\ PassBy(b))
      BY <1>3, <1>4 DEF PassBy
    <3> QED
      BY <2>2, <3>1, PassByStep
  <2> QED
    BY <2>1, <2>2
<1>6. (pc' = "wait" => timer' # 0) /\ SleptBy(a)' /\ SleptBy(b)'
  <2>1. CASE Rest
    <3>1. pc = "rest" /\ wakeup' = wakeup
      BY <2>1 DEF Rest
    <3>2. now <= a + 2 * Turn /\ now <= b + 2 * Turn
      BY <1>3, <1>4, <3>1 DEF PassBy
    <3>3. NextDeadline \in Nat /\ NextDeadline <= a /\ NextDeadline <= b /\ now \in Nat
      BY <1>2, <1>4, DeadlineIsLeast, StampTypes
    <3>4. NextDeadline <= a + Slack /\ NextDeadline <= b + Slack
      BY <3>3, WaitTypes
    <3>5. timer' = Greatest(NextDeadline, now + 1)
      BY <1>1, <2>1 DEF Rest, Sleep, connected
    <3> QED
      BY <1>1, <2>1, <3>2, <3>3, <3>4, <3>5, RestSleepsBy DEF Greatest
  <2>2. CASE ~Rest
    <3>1. wakeup \/ (SleptBy(a) /\ SleptBy(b))
      BY <1>3, <1>4 DEF SleptBy
    <3>2. SleptBy(a)' /\ SleptBy(b)'
      BY <2>2, <3>1, SleptByStep
    <3>3. pc' = "wait" => ~wakeup /\ pc = "wait" /\ timer' = timer
      BY <2>2, QuietSteps, QuietKeeps
         DEF Tick, LinkLost, ChangeSettings, ChangeOutput, Refresh, UserWritten, UserFails, Pass,
         Reconnect, Ask, Wake, KeepaliveRefused, KeepaliveBegins, KeepaliveWritten, KeepaliveFails, RequestBegins,
         RequestWritten, RequestFails, vars, task
    <3> QED
      BY <1>3, <3>2, <3>3
  <2> QED
    BY <2>1, <2>2
<1> QED
  BY <1>1, <1>4, <1>5, <1>6 DEF PassBy, SleptBy

(* A session in which the status, or every packet, stays away is dropped at  *)
(* the watchdog timeout and two turns at the lock at the latest, whatever    *)
(* users write meanwhile.                                                    *)
THEOREM SilenceIsNoticed == Spec => []WatchdogFires
<1>1. Init => TypeOK /\ OnTime /\ Watched
  BY TypeInit DEF Init, OnTime, Watched, LockFree, connected, Asks, Writing
<1>2. TypeOK /\ OnTime /\ Watched /\ [Next]_vars => (TypeOK /\ OnTime /\ Watched)'
  BY TypeStep, OnTimeStep, WatchedStep
<1>3. TypeOK /\ OnTime /\ Watched => WatchdogFires
  <2> SUFFICES ASSUME TypeOK, OnTime, Watched, Asleep
               PROVE  now <= Telemetry + Slack /\ now <= Transport + Slack
    BY DEF WatchdogFires, Telemetry, Transport
  <2>1. timer # 0 /\ timer <= Telemetry + Slack /\ timer <= Transport + Slack /\ now <= timer
    BY DEF Watched, SleptBy, Asleep, OnTime
  <2>2. now \in Nat /\ timer \in Nat /\ Telemetry \in Nat /\ Transport \in Nat /\ Slack \in Nat
    BY StampTypes, WatchdogTypes, WaitTypes
  <2> QED
    BY <2>1, <2>2
<1> QED
  BY <1>1, <1>2, <1>3, PTL DEF Spec

(***************************************************************************)
(* What entities show.                                                      *)
(***************************************************************************)
Fresh == Freshness(seenAt, opts)

(* Between the greeting and the first pass entities may know more than the   *)
(* loop has reported, and then that pass follows before time passes.         *)
Reported ==
    phase \in {"greet", "up"} /\ pc \in Asks \cup Writing \cup {"ask_drop"} =>
        \A g \in Groups : Fresh[g] => reported[g]
Shown ==
    phase = "up" =>
        \A g \in Groups :
            /\ Fresh[g] => published[g]
            /\ published[g] => seenAt[g] # 0
            /\ published[g] /\ ~reported[g] =>
                   Fresh[g] /\ (pc = "run" \/ (wakeup /\ pc \in {"rest", "wait"}))
Told == Reported /\ Shown

(* Freshness is lost by time only, and depends on nothing else.              *)
LEMMA FreshKeeps ==
  ASSUME UNCHANGED <<now, opts, seenAt>>, connected' <=> connected
  PROVE  Fresh' = Fresh
BY DEF Fresh, Freshness, connected

LEMMA FreshFades ==
  ASSUME TypeOK, Tick, NEW g \in Groups, Fresh'[g]
  PROVE  Fresh[g]
<1>1. now' = now + 1 /\ UNCHANGED <<opts, seenAt, phase>>
  BY DEF Tick, session, heard
<1>2. now \in Nat /\ seenAt[g] \in Nat /\ opts.stale[g] \in Nat
  BY StampTypes, OptionTypes
<1>3. connected' <=> connected
  BY <1>1 DEF connected
<1>4. Fresh'[g] <=> connected' /\ seenAt'[g] # 0 /\ now' - seenAt'[g] <= opts'.stale[g]
  BY DEF Fresh, Freshness
<1>5. Fresh[g] <=> connected /\ seenAt[g] # 0 /\ now - seenAt[g] <= opts.stale[g]
  BY DEF Fresh, Freshness
<1>6. now' - seenAt'[g] <= opts'.stale[g] => now - seenAt[g] <= opts.stale[g]
  BY <1>1, <1>2
<1> QED
  BY <1>1, <1>3, <1>4, <1>5, <1>6

LEMMA FreshSeen ==
  ASSUME NEW g \in Groups, Fresh[g]
  PROVE  seenAt[g] # 0 /\ now - seenAt[g] <= opts.stale[g]
BY DEF Fresh, Freshness

LEMMA ToldTick ==
  ASSUME TypeOK, Told, Tick
  PROVE  Told'
<1>1. ~Ready /\ UNCHANGED <<phase, pc, wakeup, timer, seenAt, reported, published>>
  BY DEF Tick, session, heard, shown, task
<1>2. \A g \in Groups : Fresh'[g] => Fresh[g]
  BY FreshFades
<1>3. ~(pc = "run" \/ (wakeup /\ pc \in {"rest", "wait"}))
  BY <1>1 DEF Ready, Due
<1> QED
  BY <1>1, <1>2, <1>3 DEF Told, Reported, Shown

(* Steps that leave both sides of the comparison alone.                      *)
LEMMA ToldKeeps ==
  ASSUME Told, UNCHANGED <<now, opts, phase, seenAt, reported, published>>,
         \/ UNCHANGED <<pc, wakeup>>
         \/ /\ pc \in Asks \cup Writing
            /\ pc' \in Asks \cup Writing \cup {"ask_drop", "rest"}
         \/ pc = "rest" /\ pc' = "wait" /\ wakeup' = wakeup
         \/ pc = "wait" /\ pc' = "run"
         \/ pc = "ask_drop" /\ pc' = "rest"
  PROVE  Told'
<1>1. Fresh' = Fresh
  BY FreshKeeps DEF connected
<1> QED
  BY <1>1 DEF Told, Reported, Shown, Asks, Writing

(* A notification, or new options: entities see the freshness of the moment. *)
LEMMA ToldTell ==
  ASSUME NEW seen, NEW o, Tell(seen, o), seenAt' = seen, opts' = o,
         UNCHANGED <<now, phase>>
  PROVE  Told'
<1>1. reported' = Fresh' /\ published' = Fresh'
  BY DEF Tell, Fresh, Freshness, connected
<1>2. \A g \in Groups : Fresh'[g] => seenAt'[g] # 0
  BY DEF Fresh, Freshness
<1> QED
  BY <1>1, <1>2 DEF Told, Reported, Shown

LEMMA ToldPass ==
  ASSUME Told, Pass
  PROVE  /\ Told'
         /\ phase = "up" => \A g \in Groups : published'[g] <=> Fresh[g]
<1>1. /\ reported' = Fresh /\ pc = "run"
      /\ published' = IF reported' = reported THEN published ELSE reported'
      /\ UNCHANGED <<now, opts, phase, seenAt>>
  BY DEF Pass, Fresh, heard
<1>2. Fresh' = Fresh
  BY <1>1, FreshKeeps DEF connected
<1>3. \A g \in Groups : Fresh[g] => seenAt[g] # 0
  BY FreshSeen
<1>4. ASSUME phase = "up", NEW g \in Groups PROVE published'[g] <=> Fresh[g]
  BY <1>1, <1>4 DEF Told, Shown
<1> QED
  BY <1>1, <1>2, <1>3, <1>4 DEF Told, Reported, Shown

LEMMA ToldStep ==
  ASSUME TypeOK, OnTime, Told, [Next]_vars
  PROVE  Told'
<1> USE DEF session, heard, sent, pending, shown, using, task
<1>1. CASE UNCHANGED vars
  BY <1>1, ToldKeeps DEF vars
<1>2. CASE Tick
  BY <1>2, ToldTick
<1>3. CASE Connecting
  <2>1. CASE Install \/ NotifyFails \/ GreetFails \/ Dropped \/ Disconnect
    BY <2>1 DEF Install, NotifyFails, GreetFails, Dropped, Close, Disconnect, Reset, Told, Reported, Shown
  <2>2. CASE Notified
    BY <2>2 DEF Notified, OnTime, Told, Reported, Shown
  <2>3. CASE Greeted
    <3>1. /\ published' = Fresh /\ wakeup' = TRUE
          /\ phase = "greet" /\ phase' = "up" /\ UNCHANGED <<now, opts, seenAt, reported, pc>>
      BY <2>3 DEF Greeted, Fresh
    <3>2. Fresh' = Fresh
      BY <3>1, FreshKeeps DEF connected
    <3>3. \A g \in Groups : Fresh[g] => seenAt[g] # 0
      BY FreshSeen
    <3>4. pc \in {"run", "rest", "wait"} \cup Asks \cup Writing \cup {"ask_drop"}
      BY DEF TypeOK, Asks, Writing
    <3> QED
      BY <3>1, <3>2, <3>3, <3>4 DEF Told, Reported, Shown
  <2>4. CASE LinkLost
    BY <2>4, ToldKeeps DEF LinkLost
  <2> QED
    BY <1>3, <2>1, <2>2, <2>3, <2>4 DEF Connecting
<1>4. CASE Notifying
  <2>1. Tell(seenAt', opts) /\ UNCHANGED <<now, opts, phase>>
    BY <1>4 DEF Notifying, Receive, ReceiveSettings, Heard
  <2>2. PICK seen, o : seen = seenAt' /\ o = opts
    OBVIOUS
  <2> QED
    BY <2>1, <2>2, ToldTell
<1>5. CASE Using
  <2>1. CASE ChangeSettings \/ ChangeOutput \/ Refresh \/ UserWritten \/ UserFails
    <3>1. UNCHANGED <<now, opts, phase, seenAt, reported, published, pc, wakeup>>
      BY <2>1 DEF ChangeSettings, ChangeOutput, Refresh, UserWritten, UserFails
    <3> QED
      BY <3>1, ToldKeeps
  <2>2. ASSUME NEW o \in Options, ApplyOptions(o) PROVE Told'
    <3>1. Tell(seenAt, o) /\ opts' = o /\ UNCHANGED <<now, phase, seenAt>>
      BY <2>2 DEF ApplyOptions
    <3>2. PICK seen : seen = seenAt
      OBVIOUS
    <3> QED
      BY <3>1, <3>2, ToldTell
  <2> QED
    BY <1>5, <2>1, <2>2 DEF Using
<1>6. CASE Maintaining
  <2>1. CASE PassDisconnected
    BY <2>1 DEF PassDisconnected, connected, Told, Reported, Shown
  <2>2. CASE Pass
    BY <2>2, ToldPass
  <2>3. CASE Rest \/ Wake
    BY <2>3, ToldKeeps DEF Rest, Sleep, Wake, Due
  <2>4. CASE Drop
    BY <2>4 DEF Drop, Reset, connected, Told, Reported, Shown
  <2>5. CASE KeepaliveRefused \/ KeepaliveBegins \/ KeepaliveWritten \/ KeepaliveFails
    BY <2>5, ToldKeeps DEF KeepaliveRefused, Reconnect, Ask, KeepaliveBegins, KeepaliveWritten,
                           KeepaliveFails, Asks, Writing
  <2>6. CASE RequestBegins("ask_poll", "polling") \/ RequestBegins("ask_recover", "recovering")
             \/ RequestWritten \/ RequestFails
    BY <2>6, ToldKeeps DEF RequestBegins, RequestWritten, RequestFails, Asks, Writing
  <2> QED
    BY <1>6, <2>1, <2>2, <2>3, <2>4, <2>5, <2>6 DEF Maintaining
<1> QED
  BY <1>1, <1>2, <1>3, <1>4, <1>5, <1>6 DEF Next

(* What is shown as fresh was so at the last pass, and the loop sleeps no    *)
(* longer than until it lapses or, if it did during a write, until the poll. *)
Expiry(g) == seenAt[g] + opts.stale[g]
NextPoll  == requestAt + opts.status_interval
Lapses ==
    phase = "up" /\ ~wakeup =>
        \A g \in Groups : published[g] =>
            PassBy(Expiry(g)) /\ SleptBy(Greatest(Expiry(g), NextPoll))

LEMMA LapsesStep ==
  ASSUME TypeOK, TypeOK', OnTime, OnTime', Told, Lapses, [Next]_vars
  PROVE  Lapses'
<1> SUFFICES ASSUME phase' = "up", ~wakeup', NEW g \in Groups, published'[g]
             PROVE  PassBy(Expiry(g))' /\ SleptBy(Greatest(Expiry(g), NextPoll))'
  BY DEF Lapses
<1>1. /\ phase = "up"
      /\ Expiry(g)' = Expiry(g)
      /\ opts' = opts
  BY QuietSteps, QuietKeeps DEF Expiry
<1>2. /\ seenAt[g] \in Nat /\ opts.stale[g] \in Nat /\ now \in Nat
      /\ requestAt \in Nat /\ requestAt' \in Nat /\ requestAt <= requestAt'
      /\ opts.status_interval \in Nat /\ Turn \in Nat /\ Slack = 2 * Turn + 1
  BY StampTypes, OptionTypes, QuietKeeps, WaitTypes
<1>3. Expiry(g) \in Nat /\ NextPoll \in Nat /\ Greatest(Expiry(g), NextPoll) \in Nat
  BY <1>2 DEF Expiry, NextPoll, Greatest
<1>4. PICK e \in Nat, m \in Nat : e = Expiry(g) /\ m = Greatest(Expiry(g), NextPoll)
  BY <1>3
<1>5. ~Pass => published[g]
  BY QuietKeeps
<1>6. wakeup \/ Pass \/ (PassBy(e) /\ SleptBy(m))
  BY <1>1, <1>4, <1>5 DEF Lapses, PassBy, SleptBy
<1>7. PassBy(e)'
  <2>1. CASE Pass
    <3>1. Fresh[g]
      BY <1>1, <2>1, ToldPass
    <3>2. now <= e
      BY <1>2, <1>4, <3>1, FreshSeen DEF Expiry
    <3>3. now' = now /\ pc' \in {"ask_keepalive", "ask_poll", "rest", "ask_drop"}
      BY <2>1 DEF Pass, Reconnect, Ask
    <3> QED
      BY <3>2, <3>3, PassByPass
  <2>2. CASE ~Pass
    BY <1>6, <2>2, PassByStep
  <2> QED
    BY <2>1, <2>2
<1>8. SleptBy(m)'
  <2>1. CASE Rest
    <3>1. now <= e + 2 * Turn /\ published[g]
      BY <1>5, <1>6, <2>1 DEF Rest, Pass, PassBy
    <3>2. e <= m /\ NextPoll <= m
      BY <1>3, <1>4 DEF Greatest
    <3>3. NextDeadline \in Nat /\ NextDeadline <= m
      <4>0. NextDeadline \in Nat /\ \A d \in Deadlines : NextDeadline <= d
        BY DeadlineIsLeast
      <4>1. CASE now <= e
        <5>1. seenAt[g] # 0
          BY <1>1, <3>1 DEF Told, Shown
        <5>2. e \in Deadlines
          BY <1>4, <4>1, <5>1, DeadlineCases DEF Expiry
        <5> QED
          BY <4>0, <3>2, <5>2
      <4>2. CASE ~(now <= e)
        <5>1. NextPoll \in Deadlines
          BY <1>1, DeadlineCases DEF OnTime, NextPoll
        <5> QED
          BY <4>0, <1>3, <3>2, <5>1
      <4> QED
        BY <4>1, <4>2
    <3>4. NextDeadline <= m + Slack /\ now <= m + 2 * Turn
      BY <1>2, <1>4, <3>1, <3>2, <3>3
    <3> QED
      BY <1>1, <2>1, <3>4, RestSleepsBy
  <2>2. CASE ~Rest
    <3>1. wakeup \/ SleptBy(m)
      BY <1>6 DEF Pass, SleptBy
    <3> QED
      BY <2>2, <3>1, SleptByStep
  <2> QED
    BY <2>1, <2>2
<1>9. m <= Greatest(Expiry(g), NextPoll)' /\ Greatest(Expiry(g), NextPoll)' \in Nat
  BY <1>1, <1>2, <1>3, <1>4 DEF Greatest, NextPoll
<1>10. timer' \in Nat /\ UNCHANGED Slack /\ Slack \in Nat
  BY <1>2, SameBounds DEF TypeOK
<1> QED
  BY <1>1, <1>4, <1>7, <1>8, <1>9, <1>10 DEF PassBy, SleptBy

(* What entities show of a group is what the client would report now, but    *)
(* for the delays that FreshnessShown names.                                 *)
THEOREM EntitiesUpToDate == Spec => []FreshnessShown
<1>1. Init => TypeOK /\ OnTime /\ Watched /\ Told /\ Lapses
  BY TypeInit DEF Init, OnTime, Watched, Told, Reported, Shown, Lapses, LockFree, connected, Asks,
                  Writing
<1>2. TypeOK /\ OnTime /\ Watched /\ Told /\ Lapses /\ [Next]_vars
        => (TypeOK /\ OnTime /\ Watched /\ Told /\ Lapses)'
  BY TypeStep, OnTimeStep, WatchedStep, ToldStep, LapsesStep
<1>3. TypeOK /\ OnTime /\ Watched /\ Told /\ Lapses => FreshnessShown
  <2> SUFFICES ASSUME TypeOK, OnTime, Watched, Told, Lapses, Asleep, NEW g \in Groups
               PROVE  /\ Fresh[g] => published[g]
                      /\ published[g] => now <= Greatest(Expiry(g), NextPoll) + Slack
    BY DEF FreshnessShown, Fresh, Expiry, NextPoll
  <2>1. Fresh[g] => published[g]
    BY DEF Told, Shown, Asleep
  <2>2. ASSUME published[g] PROVE now <= Greatest(Expiry(g), NextPoll) + Slack
    <3>1. timer <= Greatest(Expiry(g), NextPoll) + Slack /\ pc = "wait"
      BY <2>2 DEF Lapses, SleptBy, Asleep
    <3>2. now \in Nat /\ timer \in Nat /\ Expiry(g) \in Nat /\ NextPoll \in Nat /\ Slack \in Nat
      BY StampTypes, OptionTypes, WaitTypes DEF Expiry, NextPoll
    <3>3. now <= timer
      BY DEF Asleep, Watched, OnTime
    <3> QED
      BY <3>1, <3>2, <3>3 DEF Greatest
  <2> QED
    BY <2>1, <2>2
<1> QED
  BY <1>1, <1>2, <1>3, PTL DEF Spec

(***************************************************************************)
(* Keepalives and polls share the passes: where keepalives are off, or the  *)
(* options stay as they are.                                                *)
(***************************************************************************)
(* A keepalive decided in a pass is granted the lock a turn later.           *)
Waits == pc = "ask_keepalive" => Granted <= passAt + Turn

LEMMA WaitsStep ==
  ASSUME TypeOK, TypeOK', OnTime, OnTime', Waits, [Next]_vars
  PROVE  Waits'
<1> USE DEF session, heard, sent, pending, shown, using, task
<1> SUFFICES ASSUME pc' = "ask_keepalive" PROVE Granted' <= passAt' + Turn
  BY SameBounds DEF Waits
<1>1. (pc = "ask_keepalive" /\ passAt' = passAt) \/ Pass
  <2>1. CASE Maintaining
    BY <2>1 DEF Maintaining, PassDisconnected, Rest, Sleep, Wake, Drop, KeepaliveRefused,
       Reconnect, Ask, KeepaliveBegins, KeepaliveWritten, KeepaliveFails, RequestBegins,
       RequestWritten, RequestFails
  <2>2. CASE Connecting
    BY <2>2 DEF Connecting, Install, NotifyFails, Notified, Greeted, GreetFails, Dropped,
                Disconnect, LinkLost
  <2>3. CASE Notifying
    BY <2>3 DEF Notifying, Receive, ReceiveSettings, Heard
  <2>4. CASE Using
    BY <2>4 DEF Using, ChangeSettings, ChangeOutput, Refresh, UserWritten, UserFails, ApplyOptions
  <2>5. CASE Tick \/ UNCHANGED vars
    BY <2>5 DEF Tick, vars
  <2> QED
    BY <2>1, <2>2, <2>3, <2>4, <2>5 DEF Next
<1>2. CASE pc = "ask_keepalive" /\ passAt' = passAt
  <2>1. Granted' <= Granted /\ Granted <= passAt + Turn
    BY <1>2, GrantedStep DEF Waits, Asks
  <2>2. Granted \in Nat /\ Granted' \in Nat /\ passAt \in Nat /\ Turn \in Nat
    BY GrantedTypes, GrantedNext, StampTypes, WaitTypes
  <2> QED
    BY <1>2, <2>1, <2>2
<1>3. CASE Pass
  <2>1. passAt' = now /\ now' = now
    BY <1>3 DEF Pass
  <2> QED
    BY <2>1, GrantedNext
<1> QED
  BY <1>1, <1>2, <1>3

(* So a keepalive that begins finds little more time gone.                   *)
LEMMA GrantedSoon ==
  ASSUME TypeOK, OnTime, Waits, pc = "ask_keepalive", LockFree, NEW limit \in Nat,
         passAt <= limit
  PROVE  now <= limit + Turn /\ now + IoTimeout <= limit + 2 * Turn
<1>1. now <= Granted /\ Granted <= passAt + Turn
  BY GrantedTypes DEF Waits
<1>2. PICK n \in Nat, g \in Nat, p \in Nat, t \in Nat, i \in Nat :
        n = now /\ g = Granted /\ p = passAt /\ t = Turn /\ i = IoTimeout
  BY GrantedTypes, StampTypes, WaitTypes
<1>3. n <= g /\ g <= p + t /\ p <= limit /\ i <= t
  BY <1>1, <1>2, WaitTypes
<1>4. n <= limit + t /\ n + i <= limit + 2 * t
  BY <1>3
<1> QED
  BY <1>2, <1>4

Steady == "options" \notin Commands \/ \A o \in Options : ~o.keepalive

(* Settings were written, and no keepalive is due at x.                      *)
Spared(x) ==
    opts.keepalive => /\ ~initial /\ attemptAt = 0 /\ keepaliveAt # 0
                      /\ keepaliveAt + opts.keepalive_interval > x

(* A keepalive is sent in place of a poll that is not due yet; the one that  *)
(* is due afterwards finds no keepalive in its way.                          *)
Keeping ==
    /\ pc \in {"ask_keepalive", "keeping"} => opts.keepalive
    /\ pc = "keeping" => ioBy <= passAt + IoTimeout
Polled ==
    phase = "up" /\ ~dropping =>
        /\ linkUp
        /\ pc \in {"run", "rest", "wait"} => now <= NextPoll \/ Spared(now)
        /\ pc = "ask_keepalive" => passAt <= NextPoll
        /\ pc = "keeping" => ioBy <= NextPoll + 2 * Turn
        /\ pc = "rest" /\ ~wakeup =>
               now <= NextPoll + 2 * Turn /\ (now < NextPoll \/ Spared(now + 1))
        /\ pc = "wait" /\ ~wakeup =>
               timer <= NextPoll + Slack /\ (timer <= NextPoll \/ Spared(timer))

LEMMA KeepingStep ==
  ASSUME TypeOK, OnTime, Steady, Keeping, [Next]_vars
  PROVE  Keeping'
<1> USE DEF session, heard, sent, pending, shown, using, task
<1>1. now \in Nat \ {0} /\ IoTimeout \in Nat
  BY MaintenanceAssumption DEF TypeOK
<1>2. CASE Tick \/ UNCHANGED vars
  BY <1>2 DEF Tick, vars, Keeping
<1>3. CASE Connecting
  <2>1. pc = "keeping" => phase \in {"up", "closing"}
    BY DEF OnTime, Writing
  <2> QED
    BY <1>3, <2>1 DEF Connecting, Install, NotifyFails, Notified, Greeted, GreetFails,
       Dropped, Close, Disconnect, Reset, LinkLost, LockFree, Keeping
<1>4. CASE Notifying
  BY <1>4 DEF Notifying, Receive, ReceiveSettings, Heard, Keeping
<1>5. CASE Using
  <2>1. CASE ChangeSettings \/ ChangeOutput \/ Refresh
    BY <2>1 DEF ChangeSettings, ChangeOutput, Refresh, LockFree, Keeping
  <2>3. CASE UserWritten \/ UserFails
    BY <2>3 DEF UserWritten, UserFails, Keeping
  <2>2. ASSUME NEW o \in Options, ApplyOptions(o) PROVE Keeping'
    <3>1. ~opts.keepalive
      BY <2>2 DEF ApplyOptions, Steady, TypeOK
    <3> QED
      BY <2>2, <3>1 DEF ApplyOptions, Keeping
  <2> QED
    BY <1>5, <2>1, <2>2, <2>3 DEF Using
<1>6. CASE Maintaining
  <2>1. CASE Pass
    <3>1. pc' \in {"ask_drop", "ask_keepalive", "ask_poll", "rest"} /\ opts' = opts
          /\ (pc' = "ask_keepalive" => KeepaliveDue)
      BY <2>1 DEF Pass, Reconnect, Ask
    <3> QED
      BY <3>1 DEF KeepaliveDue, KeepaliveDeadline, Keeping
  <2>2. CASE PassDisconnected \/ Rest \/ Wake \/ Drop
    BY <2>2 DEF PassDisconnected, Rest, Sleep, Wake, Drop, Keeping
  <2>3. CASE KeepaliveRefused \/ KeepaliveBegins \/ KeepaliveWritten \/ KeepaliveFails
    BY <1>1, <2>3 DEF KeepaliveRefused, Reconnect, Ask, KeepaliveBegins, Submit,
                      KeepaliveWritten, KeepaliveFails, Keeping
  <2>4. CASE RequestBegins("ask_poll", "polling") \/ RequestBegins("ask_recover", "recovering")
             \/ RequestWritten \/ RequestFails
    BY <2>4 DEF RequestBegins, RequestWritten, RequestFails, Keeping
  <2> QED
    BY <1>6, <2>1, <2>2, <2>3, <2>4 DEF Maintaining
<1> QED
  BY <1>2, <1>3, <1>4, <1>5, <1>6 DEF Next

(* What is known at every step of Polled.                                    *)
LEMMA PollTypes ==
  ASSUME TypeOK
  PROVE  /\ now \in Nat \ {0} /\ timer \in Nat /\ ioBy \in Nat /\ passAt \in Nat
         /\ requestAt \in Nat /\ requestAt <= now
         /\ keepaliveAt \in Nat /\ keepaliveAt <= now
         /\ IoTimeout \in Nat /\ Turn \in Nat /\ IoTimeout <= Turn
         /\ Slack = 2 * Turn + 1
         /\ opts \in Options /\ opts.keepalive \in BOOLEAN
         /\ opts.status_interval \in Nat \ {0} /\ opts.keepalive_interval \in Nat
         /\ opts.keepalive_interval > IoTimeout + 1
         /\ NextPoll \in Nat /\ NextPoll = requestAt + opts.status_interval
<1>1. opts \in Options /\ Validated(opts)
  BY MaintenanceAssumption DEF TypeOK
<1> QED
  BY <1>1, StampTypes, OptionTypes, WaitTypes DEF TypeOK, NextPoll, Validated

(* No poll is due, and no keepalive, that was not due before.                *)
LEMMA SparedKeeps ==
  ASSUME NEW x, Spared(x), UNCHANGED opts, attemptAt' = attemptAt \/ attemptAt' = 0,
         UNCHANGED <<initial, keepaliveAt>>
  PROVE  Spared(x)'
BY DEF Spared

(* While it sleeps on, the session and the poll are as they were.            *)
LEMMA PolledKeeps ==
  ASSUME Polled, Spared(now) => Spared(now)', Spared(now + 1) => Spared(now + 1)',
         Spared(timer) => Spared(timer)', TypeOK, TypeOK',
         dropping' \/ ~dropping, linkUp' = linkUp \/ dropping',
         UNCHANGED <<now, opts, phase, pc, timer, requestAt, passAt>>,
         ioBy' = ioBy \/ pc # "keeping",
         wakeup' = wakeup \/ wakeup'
  PROVE  Polled'
<1>1. NextPoll' = NextPoll
  BY DEF NextPoll
<1>2. Slack' = Slack /\ Turn' = Turn
  BY SameBounds
<1> SUFFICES ASSUME phase' = "up", ~dropping'
             PROVE  /\ linkUp'
                    /\ pc' \in {"run", "rest", "wait"} => now' <= NextPoll' \/ Spared(now)'
                    /\ pc' = "ask_keepalive" => passAt' <= NextPoll'
                    /\ pc' = "keeping" => ioBy' <= NextPoll' + 2 * Turn
                    /\ pc' = "rest" /\ ~wakeup' =>
                         now' <= NextPoll' + 2 * Turn
                         /\ (now' < NextPoll' \/ Spared(now + 1)')
                    /\ pc' = "wait" /\ ~wakeup' =>
                         timer' <= NextPoll' + Slack /\ (timer' <= NextPoll' \/ Spared(timer)')
  BY <1>2 DEF Polled
<1> QED
  BY <1>1 DEF Polled, TypeOK

LEMMA PolledPass ==
  ASSUME TypeOK, Keeping, Polled, Pass
  PROVE  Polled'
<1>1. /\ pc = "run" /\ UNCHANGED <<now, opts, phase, linkUp, timer, requestAt, keepaliveAt, initial>>
      /\ pc' \in {"ask_drop", "ask_keepalive", "ask_poll", "rest"}
      /\ pc' = "ask_drop" => dropping'
      /\ dropping' = dropping \/ dropping'
      /\ pc' = "ask_keepalive" => KeepaliveDue
      /\ pc' = "rest" => ~PollDue
      /\ passAt' = now
  BY DEF Pass, Reconnect, Ask
<1> SUFFICES ASSUME phase' = "up", ~dropping'
             PROVE  /\ linkUp'
                    /\ pc' = "rest" => now < NextPoll
                    /\ pc' = "ask_keepalive" => now <= NextPoll
  <2>1. now \in Nat /\ NextPoll \in Nat /\ NextPoll' = NextPoll /\ Turn \in Nat
        /\ Turn' = Turn
    BY <1>1, PollTypes, SameBounds DEF NextPoll
  <2> QED
    BY <1>1, <2>1 DEF Polled
<1>2. linkUp /\ (now <= NextPoll \/ Spared(now))
  BY <1>1 DEF Polled
<1>3. pc' = "rest" => now < NextPoll
  BY <1>1, PollTypes DEF PollDue
<1>4. ASSUME Spared(now), pc' = "ask_keepalive" PROVE FALSE
  <2>1. opts.keepalive /\ KeepaliveDeadline # 0 /\ KeepaliveDeadline <= now
    BY <1>1, <1>4 DEF KeepaliveDue, KeepaliveDeadline
  <2>2. KeepaliveDeadline = keepaliveAt + opts.keepalive_interval
    BY <1>4, <2>1 DEF Spared, KeepaliveDeadline, SendInitial, KeepaliveReference, Either
  <2>3. keepaliveAt + opts.keepalive_interval > now
    BY <1>4, <2>1 DEF Spared
  <2> QED
    BY <2>1, <2>2, <2>3, PollTypes
<1> QED
  BY <1>1, <1>2, <1>3, <1>4

LEMMA PolledRest ==
  ASSUME TypeOK, OnTime, Polled, Rest
  PROVE  Polled'
<1>1. /\ pc = "rest" /\ pc' = "wait"
      /\ UNCHANGED <<now, opts, phase, linkUp, dropping, requestAt, keepaliveAt, attemptAt,
                     initial, wakeup>>
  BY DEF Rest, Sleep, session, sent
<1> SUFFICES ASSUME phase = "up", ~dropping
             PROVE  /\ linkUp' /\ (now <= NextPoll \/ Spared(now))
                    /\ ~wakeup => timer' <= NextPoll + Slack
                                  /\ (timer' <= NextPoll \/ Spared(timer'))
  <2>1. NextPoll' = NextPoll /\ (Spared(now)' <=> Spared(now))
        /\ (Spared(timer)' <=> Spared(timer'))
    BY <1>1 DEF NextPoll, Spared
  <2> QED
    BY <1>1, <2>1, SameBounds DEF Polled
<1>2. linkUp' /\ (now <= NextPoll \/ Spared(now))
  BY <1>1 DEF Polled
<1>3. ASSUME ~wakeup
      PROVE  timer' <= NextPoll + Slack /\ (timer' <= NextPoll \/ Spared(timer'))
  <2>1. now <= NextPoll + 2 * Turn /\ (now < NextPoll \/ Spared(now + 1))
    BY <1>1, <1>3 DEF Polled
  <2>2. timer' = Greatest(NextDeadline, now + 1)
    BY DEF Rest, Sleep, connected
  <2>3. NextDeadline \in Nat /\ NextDeadline <= NextPoll
    <3>1. NextPoll \in Deadlines
      BY DeadlineCases DEF OnTime, NextPoll
    <3> QED
      BY <3>1, DeadlineIsLeast
  <2>4. timer' <= NextPoll + Slack /\ (timer' <= NextPoll \/ timer' = now + 1)
    BY <2>1, <2>2, <2>3, PollTypes DEF Greatest
  <2>5. CASE now < NextPoll
    BY <2>2, <2>3, <2>4, <2>5, PollTypes DEF Greatest
  <2>6. CASE Spared(now + 1)
    BY <2>4, <2>6
  <2> QED
    BY <2>1, <2>4, <2>5, <2>6
<1> QED
  BY <1>2, <1>3

(* Time passes only while it sleeps or a write is under way.                 *)
LEMMA PolledTick ==
  ASSUME TypeOK, OnTime, Watched, Polled, Tick
  PROVE  Polled'
<1>1. /\ ~Ready /\ now' = now + 1
      /\ UNCHANGED <<opts, phase, linkUp, dropping, pc, timer, ioBy, requestAt, keepaliveAt,
                     attemptAt, initial, wakeup, passAt>>
  BY DEF Tick, session, sent, task
<1> SUFFICES ASSUME phase = "up", ~dropping
             PROVE  Polled'
  BY <1>1 DEF Polled
<1>2. pc \notin {"run", "rest"} /\ (pc = "wait" => ~wakeup)
  BY <1>1 DEF Ready, Due
<1>3. NextPoll' = NextPoll /\ Slack' = Slack /\ Turn' = Turn
  BY <1>1, SameBounds DEF NextPoll
<1>4. pc = "wait" => /\ timer # 0 /\ now < timer
                     /\ timer <= NextPoll + Slack /\ (timer <= NextPoll \/ Spared(timer))
  BY <1>1, <1>2, PollTypes DEF Watched, Polled, Ready, Due
<1>5. ASSUME pc = "wait", Spared(timer) PROVE Spared(now)'
  BY <1>1, <1>4, <1>5, PollTypes DEF Spared
<1>6. Spared(timer) => Spared(timer)'
  BY <1>1 DEF Spared
<1>7. pc = "wait" => now' <= NextPoll \/ Spared(now)'
  BY <1>1, <1>4, <1>5, PollTypes
<1> QED
  BY <1>1, <1>2, <1>3, <1>4, <1>6, <1>7 DEF Polled

LEMMA PolledStep ==
  ASSUME TypeOK, TypeOK', OnTime, Held, Watched, Waits, Steady, Keeping, Polled, [Next]_vars
  PROVE  Polled'
<1> USE DEF session, heard, sent, pending, shown, using, task
<1>1. CASE UNCHANGED vars
  BY <1>1, PolledKeeps DEF vars, Spared
<1>2. CASE Tick
  BY <1>2, PolledTick
<1>3. CASE Connecting
  <2>1. CASE Install \/ NotifyFails \/ Notified \/ GreetFails \/ Dropped \/ Disconnect
    BY <2>1 DEF Install, NotifyFails, Notified, GreetFails, Dropped, Close, Disconnect, Reset,
                Polled
  <2>2. CASE Greeted
    <3>1. /\ phase = "greet" /\ linkUp /\ UNCHANGED <<now, opts, linkUp, pc, timer, passAt>>
          /\ requestAt' = now /\ wakeup' = TRUE
      BY <2>2 DEF Greeted
    <3>2. now <= NextPoll' /\ passAt <= NextPoll' /\ pc # "keeping"
      BY <3>1, StampTypes, PollTypes DEF NextPoll, OnTime, Writing
    <3> QED
      BY <3>1, <3>2 DEF Polled
  <2>3. CASE LinkLost
    BY <2>3 DEF LinkLost, Polled
  <2> QED
    BY <1>3, <2>1, <2>2, <2>3 DEF Connecting
<1>4. CASE Notifying
  <2>1. /\ UNCHANGED <<now, opts, phase, linkUp, dropping, pc, timer, ioBy, requestAt,
                       passAt, keepaliveAt, initial>>
        /\ attemptAt' = attemptAt \/ attemptAt' = 0
        /\ wakeup' = TRUE
    BY <1>4 DEF Notifying, Receive, ReceiveSettings, Heard, Tell
  <2> QED
    BY <2>1, PolledKeeps DEF Spared
<1>5. CASE Using
  <2>1. CASE ChangeSettings \/ ChangeOutput \/ Refresh \/ UserFails
    <3>1. /\ UNCHANGED <<now, opts, phase, linkUp, pc, timer, requestAt, passAt, wakeup,
                         keepaliveAt, attemptAt, initial>>
          /\ dropping' \in {dropping, TRUE}
          /\ ioBy' = ioBy \/ LockFree
      BY <2>1 DEF ChangeSettings, ChangeOutput, Refresh, UserFails
    <3>2. /\ Spared(now) => Spared(now)'
          /\ Spared(now + 1) => Spared(now + 1)'
          /\ Spared(timer) => Spared(timer)'
      BY <3>1 DEF Spared
    <3>3. ioBy' = ioBy \/ pc # "keeping"
      BY <3>1 DEF LockFree
    <3>4. dropping' \/ ~dropping
      <4>1. dropping \in BOOLEAN /\ dropping' \in {dropping, TRUE}
        BY <3>1 DEF TypeOK
      <4> QED
        BY <4>1
    <3> QED
      BY <3>1, <3>2, <3>3, <3>4, PolledKeeps
  <2>2. CASE UserWritten /\ user = "settings"
    <3>1. /\ UNCHANGED <<now, opts, phase, linkUp, dropping, pc, timer, ioBy, requestAt,
                         passAt, wakeup>>
          /\ keepaliveAt' = userAt /\ attemptAt' = 0 /\ initial' = FALSE
      BY <2>2 DEF UserWritten, Record
    <3>2. userAt # 0 /\ keepaliveAt <= userAt /\ userAt \in Nat
      BY <2>2, StampTypes DEF Held
    <3>3. ASSUME NEW x \in Nat, Spared(x) PROVE Spared(x)'
      BY <3>1, <3>2, <3>3, PollTypes DEF Spared
    <3>4. now \in Nat /\ timer \in Nat /\ now + 1 \in Nat
      BY PollTypes
    <3>5. /\ Spared(now) => Spared(now)'
          /\ Spared(now + 1) => Spared(now + 1)'
          /\ Spared(timer) => Spared(timer)'
      <4>1. PICK x \in Nat, y \in Nat, z \in Nat : x = now /\ y = now + 1 /\ z = timer
        BY <3>4
      <4>2. (Spared(x) => Spared(x)') /\ (Spared(y) => Spared(y)') /\ (Spared(z) => Spared(z)')
        BY <3>3
      <4> QED
        BY <4>1, <4>2, <3>1 DEF Spared
    <3>6. dropping' \/ ~dropping
      BY <3>1 DEF TypeOK
    <3> QED
      BY <3>1, <3>5, <3>6, PolledKeeps
  <2>4. CASE UserWritten /\ user # "settings"
    <3>1. /\ UNCHANGED <<now, opts, phase, linkUp, dropping, pc, timer, passAt, keepaliveAt,
                         attemptAt, initial, wakeup>>
          /\ requestAt' = now \/ requestAt' = requestAt
          /\ user # "none"
      BY <2>4 DEF UserWritten
    <3>2. pc # "keeping"
      BY <3>1 DEF Held, Writing
    <3>3. NextPoll' \in Nat /\ NextPoll <= NextPoll' /\ UNCHANGED <<Slack, Turn>>
      BY <3>1, PollTypes, SameBounds DEF NextPoll
    <3>4. /\ Spared(now) => Spared(now)'
          /\ Spared(now + 1) => Spared(now + 1)'
          /\ Spared(timer) => Spared(timer)'
      BY <3>1 DEF Spared
    <3> QED
      BY <3>1, <3>2, <3>3, <3>4, PollTypes DEF Polled
  <2>3. ASSUME NEW o \in Options, ApplyOptions(o) PROVE Polled'
    <3>1. ~o.keepalive /\ ~opts.keepalive
      BY <2>3 DEF ApplyOptions, Steady, TypeOK
    <3>2. /\ UNCHANGED <<now, phase, linkUp, dropping, pc>>
          /\ opts' = o /\ wakeup' = TRUE
      BY <2>3 DEF ApplyOptions, Tell
    <3>3. Spared(now)'
      BY <3>1, <3>2 DEF Spared
    <3>4. pc \notin {"ask_keepalive", "keeping"}
      BY <3>1 DEF Keeping
    <3> QED
      BY <3>2, <3>3, <3>4 DEF Polled
  <2> QED
    BY <1>5, <2>1, <2>2, <2>3, <2>4 DEF Using
<1>6. CASE Maintaining
  <2>1. CASE PassDisconnected
    BY <2>1 DEF PassDisconnected, connected, Polled
  <2>2. CASE Pass
    BY <2>2, PolledPass
  <2>3. CASE Rest
    BY <2>3, PolledRest
  <2>4. CASE Wake
    BY <2>4 DEF Wake, Due, NextPoll, Spared, Polled
  <2>5. CASE Drop
    BY <2>5 DEF Drop, Reset, connected, Polled
  <2>6. CASE KeepaliveRefused
    BY <2>6 DEF KeepaliveRefused, Reconnect, Ask, Polled
  <2>7. CASE KeepaliveBegins
    <3>1. /\ pc = "ask_keepalive" /\ pc' \in {"keeping", "rest"}
          /\ UNCHANGED <<now, opts, phase, linkUp, dropping, requestAt>>
          /\ linkUp => pc' = "keeping" /\ ioBy' = now + IoTimeout
          /\ LockFree
      BY <2>7 DEF KeepaliveBegins, Submit, Gets
    <3>2. NextPoll' = NextPoll /\ NextPoll \in Nat /\ Turn' = Turn
      BY <3>1, PollTypes, SameBounds DEF NextPoll
    <3>3. passAt <= NextPoll => now + IoTimeout <= NextPoll + 2 * Turn
      <4>1. PICK m \in Nat : m = NextPoll
        BY <3>2
      <4> QED
        BY <3>1, <4>1, GrantedSoon
    <3> QED
      BY <3>1, <3>2, <3>3 DEF Polled
  <2>8. CASE KeepaliveWritten
    <3>1. /\ pc = "keeping" /\ pc' = "rest"
          /\ UNCHANGED <<now, opts, phase, linkUp, dropping, requestAt, passAt, ioBy>>
          /\ keepaliveAt' = passAt /\ attemptAt' = 0 /\ initial' = FALSE
      BY <2>8 DEF KeepaliveWritten, Record
    <3>2. NextPoll' = NextPoll /\ Turn' = Turn
      BY <3>1, SameBounds DEF NextPoll
    <3>3. now <= ioBy /\ ioBy <= passAt + IoTimeout /\ passAt # 0
      BY <3>1 DEF OnTime, LockFree, Held, Keeping
    <3>4. Spared(now)' /\ Spared(now + 1)'
      BY <3>1, <3>3, PollTypes DEF Spared
    <3>5. phase = "up" /\ ~dropping => linkUp /\ now <= NextPoll + 2 * Turn
      BY <3>1, <3>3, PollTypes DEF Polled
    <3> QED
      BY <3>1, <3>2, <3>4, <3>5 DEF Polled
  <2>9. CASE RequestWritten
    <3>1. /\ pc' = "rest" /\ requestAt' = now
          /\ UNCHANGED <<now, opts, phase, linkUp, dropping>> /\ linkUp
      BY <2>9 DEF RequestWritten
    <3>2. now < NextPoll' /\ now <= NextPoll' /\ now <= NextPoll' + 2 * Turn
          /\ Turn' = Turn
      BY <3>1, PollTypes, SameBounds DEF NextPoll
    <3> QED
      BY <3>1, <3>2 DEF Polled
  <2>10. CASE KeepaliveFails \/ RequestFails
    BY <2>10 DEF KeepaliveFails, RequestFails, Polled
  <2>11. CASE RequestBegins("ask_poll", "polling") \/ RequestBegins("ask_recover", "recovering")
    BY <2>11 DEF RequestBegins, Polled, connected
  <2> QED
    BY <1>6, <2>1, <2>2, <2>3, <2>4, <2>5, <2>6, <2>7, <2>8, <2>9, <2>10, <2>11 DEF Maintaining
<1> QED
  BY <1>1, <1>2, <1>3, <1>4, <1>5, <1>6 DEF Next

(* While the options stay, or keepalives are off, the status is polled at    *)
(* its interval, a pass behind the users' writes later at most.              *)
THEOREM PollsKeepComing ==
  ASSUME Steady
  PROVE  Spec => []PollNotStarved
<1> DEFINE Inv == TypeOK /\ OnTime /\ Held /\ Watched /\ Waits /\ Keeping /\ Polled
<1>1. Init => Inv
  BY TypeInit, HeldInit DEF Init, Watched, Waits, Keeping, Polled
<1>2. Inv /\ [Next]_vars => Inv'
  <2> SUFFICES ASSUME Inv, [Next]_vars PROVE Inv'
    OBVIOUS
  <2>1. TypeOK' /\ OnTime'
    BY TypeStep, OnTimeStep
  <2>2. Held' /\ Watched' /\ Waits'
    BY <2>1, HeldStep, WatchedStep, WaitsStep
  <2>3. Keeping' /\ Polled'
    BY <2>1, KeepingStep, PolledStep
  <2> QED
    BY <2>1, <2>2, <2>3
<1>3. Inv => PollNotStarved
  <2> SUFFICES ASSUME Inv, Asleep, ~dropping
               PROVE  requestAt # 0 /\ now <= NextPoll + Slack
    BY DEF PollNotStarved, NextPoll
  <2>1. requestAt # 0 /\ timer # 0 /\ now <= timer /\ timer <= NextPoll + Slack
    BY DEF Asleep, OnTime, Watched, Polled
  <2> QED
    BY <2>1, PollTypes
<1> QED
  BY <1>1, <1>2, <1>3, PTL DEF Spec

(***************************************************************************)
(* At each keepalive interval settings are written or the session ends.     *)
(***************************************************************************)
Interval == KeepaliveReference + opts.keepalive_interval
LastCall == Interval + IF initial THEN RetryDelay ELSE 0

(* Until settings are written in a session its first keepalive is pending;   *)
(* an attempt that did not end the session was before the interval was over. *)
Attempted ==
    /\ phase # "down" /\ opts.keepalive => (initial <=> keepaliveAt = 0)
    /\ phase = "notify" => attemptAt = 0
    /\ phase \in {"greet", "up"} /\ ~dropping /\ opts.keepalive =>
         /\ pc = "ask_keepalive" =>
                attemptAt <= passAt /\ (attemptAt = 0 \/ initial \/ Interval <= passAt)
         /\ pc \notin {"ask_keepalive", "keeping"} =>
                attemptAt = 0 \/ (initial /\ attemptAt < Interval)

(* Every pass that sends no keepalive is early enough, and so is the next.   *)
Renewed ==
    phase = "up" /\ ~dropping /\ ~wakeup /\ opts.keepalive =>
        /\ pc \notin {"ask_keepalive", "keeping"} => PassBy(LastCall)
        /\ SleptBy(LastCall)

LEMMA KeepaliveTypes ==
  ASSUME TypeOK
  PROVE  /\ now \in Nat \ {0} /\ attemptAt \in Nat /\ attemptAt <= now
         /\ passAt \in Nat /\ passAt <= now
         /\ keepaliveAt \in Nat /\ keepaliveAt <= now
         /\ seenAt["settings"] \in Nat /\ seenAt["settings"] <= now
         /\ connectedAt \in Nat
         /\ opts.keepalive \in BOOLEAN /\ opts.keepalive_interval \in Nat \ {0}
         /\ KeepaliveReference \in Nat /\ KeepaliveReference <= now
         /\ RetryDelay \in Nat /\ RetryDelay <= opts.keepalive_interval
         /\ KeepaliveDeadline \in Nat
         /\ Interval \in Nat /\ LastCall \in Nat /\ Interval <= LastCall
         /\ Interval <= now + opts.keepalive_interval
<1>1. /\ KeepaliveReference \in Nat /\ KeepaliveReference <= now
      /\ RetryDelay \in Nat /\ opts.keepalive_interval \in Nat \ {0}
  BY ReferenceTypes, StampTypes, OptionTypes
<1>2. Interval \in Nat /\ LastCall \in Nat /\ Interval <= LastCall
      /\ Interval <= now + opts.keepalive_interval
  BY <1>1, StampTypes DEF Interval, LastCall
<1> QED
  BY <1>2, StampTypes, OptionTypes, ReferenceTypes DEF Groups

(* The interval of a session starts again with a packet or with a write only.*)
LEMMA IntervalKeeps ==
  ASSUME UNCHANGED <<opts, keepaliveAt, connectedAt>>, seenAt'["settings"] = seenAt["settings"]
  PROVE  Interval' = Interval
BY DEF Interval, KeepaliveReference, Either

(* A keepalive becomes due before the last call.                             *)
LEMMA DueByLastCall ==
  ASSUME TypeOK, OnTime, Attempted, phase \in {"greet", "up"}, ~dropping, opts.keepalive,
         pc \notin {"ask_keepalive", "keeping"}
  PROVE  /\ KeepaliveDeadline # 0 /\ KeepaliveDeadline <= LastCall
         /\ ~initial => KeepaliveDeadline = Interval
<1>1. KeepaliveReference # 0
  BY KeepaliveTypes DEF OnTime, connected, KeepaliveReference, Either
<1>2. attemptAt = 0 \/ (initial /\ attemptAt < Interval)
  BY DEF Attempted
<1>3. CASE SendInitial
  <2>1. initial /\ keepaliveAt = 0 /\ seenAt["settings"] # 0
    BY <1>3 DEF SendInitial, Attempted
  <2>2. KeepaliveReference = seenAt["settings"]
    BY <2>1 DEF KeepaliveReference, Either
  <2>3. seenAt["settings"] <= Interval /\ LastCall = Interval + RetryDelay
    BY <2>1, <2>2, KeepaliveTypes DEF Interval, LastCall
  <2>4. KeepaliveDeadline = seenAt["settings"] \/ KeepaliveDeadline = attemptAt + RetryDelay
    BY <1>3, <2>1 DEF KeepaliveDeadline
  <2>5. KeepaliveDeadline # 0
    BY <1>3, <2>1, KeepaliveTypes DEF KeepaliveDeadline
  <2> QED
    BY <1>2, <2>1, <2>3, <2>4, <2>5, KeepaliveTypes
<1>4. CASE ~SendInitial
  <2>1. Interval # 0 /\ ~(attemptAt # 0 /\ attemptAt >= Interval)
    BY <1>2, KeepaliveTypes DEF Interval
  <2>2. KeepaliveDeadline = Interval
    BY <1>1, <1>4, <2>1 DEF KeepaliveDeadline, Interval
  <2> QED
    BY <2>1, <2>2, KeepaliveTypes
<1> QED
  BY <1>3, <1>4

(* It becomes due within an interval in any case.                            *)
LEMMA DueWithinInterval ==
  ASSUME TypeOK, opts.keepalive, seenAt["settings"] # 0
  PROVE  /\ KeepaliveDeadline # 0
         /\ KeepaliveDeadline <= now + opts.keepalive_interval
<1>1. KeepaliveReference # 0
  BY KeepaliveTypes DEF KeepaliveReference, Either
<1> QED
  BY <1>1, KeepaliveTypes DEF KeepaliveDeadline

LEMMA AttemptedStep ==
  ASSUME "options" \notin Commands,
         TypeOK, OnTime, Held, Keeping, Polled, Attempted, [Next]_vars
  PROVE  Attempted'
<1> USE DEF session, heard, sent, pending, shown, using, task
<1>1. CASE UNCHANGED vars
  <2>1. Interval' = Interval
    BY <1>1, IntervalKeeps DEF vars
  <2> QED
    BY <1>1, <2>1 DEF vars, Attempted
<1>2. CASE Tick
  <2>1. UNCHANGED <<opts, phase, dropping, pc, initial, keepaliveAt, attemptAt, passAt>>
    BY <1>2 DEF Tick
  <2>2. Interval' = Interval
    BY <1>2, IntervalKeeps DEF Tick
  <2> QED
    BY <2>1, <2>2 DEF Attempted
<1>3. CASE Connecting
  <2>1. CASE Install
    BY <2>1 DEF Install, Attempted
  <2>2. CASE NotifyFails \/ Disconnect
    BY <2>2 DEF NotifyFails, Disconnect, Reset, Attempted
  <2>3. CASE Notified
    BY <2>3 DEF Notified, Attempted, OnTime, Asks
  <2>4. CASE Greeted
    <3>1. Interval' = Interval
      BY <2>4, IntervalKeeps DEF Greeted
    <3> QED
      BY <2>4, <3>1 DEF Greeted, Attempted
  <2>5. CASE GreetFails \/ Dropped \/ LinkLost
    BY <2>5 DEF GreetFails, Dropped, Close, LinkLost, Attempted
  <2> QED
    BY <1>3, <2>1, <2>2, <2>3, <2>4, <2>5 DEF Connecting
<1>4. CASE Notifying
  <2>1. /\ UNCHANGED <<now, opts, phase, dropping, pc, initial, keepaliveAt, connectedAt, passAt>>
        /\ wakeup' = TRUE
        /\ attemptAt' = attemptAt \/ attemptAt' = 0
        /\ seenAt'["settings"] \in {seenAt["settings"], now}
    BY <1>4, KeepaliveTypes DEF Notifying, Receive, ReceiveSettings, Heard, Tell, TypeOK, Groups
  <2>2. Interval <= Interval' /\ Interval' \in Nat
    BY <2>1, KeepaliveTypes DEF Interval, KeepaliveReference, Either
  <2>3. keepaliveAt # 0 => Interval' = Interval
    BY <2>1 DEF Interval, KeepaliveReference, Either
  <2> QED
    BY <2>1, <2>2, <2>3, KeepaliveTypes DEF Attempted
<1>5. CASE Using
  <2>1. CASE UserWritten /\ user = "settings"
    <3>1. keepaliveAt' = userAt /\ attemptAt' = 0 /\ initial' = FALSE /\ userAt # 0
          /\ phase' = phase /\ phase # "notify"
      BY <2>1 DEF UserWritten, Record, Held
    <3>2. passAt' \in Nat
      BY <2>1, KeepaliveTypes DEF UserWritten
    <3> QED
      BY <3>1, <3>2 DEF Attempted
  <2>2. CASE ~(UserWritten /\ user = "settings")
    <3>1. /\ UNCHANGED <<now, opts, phase, pc, initial, keepaliveAt, connectedAt, passAt,
                         attemptAt, seenAt>>
          /\ dropping' \in {dropping, TRUE}
      BY <1>5, <2>2 DEF Using, ChangeSettings, ChangeOutput, Refresh, UserWritten, UserFails,
                        ApplyOptions
    <3>2. Interval' = Interval
      BY <3>1, IntervalKeeps
    <3> QED
      BY <3>1, <3>2 DEF Attempted
  <2> QED
    BY <2>1, <2>2
<1>6. CASE Maintaining
  <2>1. CASE PassDisconnected
    <3>1. UNCHANGED <<opts, phase, wakeup, initial, keepaliveAt, attemptAt, passAt>>
          /\ phase \notin {"greet", "up"}
      BY <2>1 DEF PassDisconnected, connected
    <3> QED
      BY <3>1 DEF Attempted
  <2>2. CASE Pass
    <3>1. /\ UNCHANGED <<now, opts, phase, initial, keepaliveAt, connectedAt, seenAt>>
          /\ pc = "run" /\ passAt' = now /\ phase # "notify"
          /\ \/ dropping'
             \/ /\ dropping' = dropping
                /\ \/ pc' = "ask_keepalive" /\ KeepaliveDue /\ attemptAt' = now
                   \/ pc' # "ask_keepalive" /\ attemptAt' = attemptAt
      BY <2>2 DEF Pass, Reconnect, Ask, connected
    <3>2. Interval' = Interval
      BY <3>1, IntervalKeeps
    <3>3. ASSUME KeepaliveDue, phase \in {"greet", "up"}, ~dropping, opts.keepalive, ~initial
          PROVE  Interval <= now
      BY <3>1, <3>3, DueByLastCall DEF KeepaliveDue
    <3> QED
      BY <3>1, <3>2, <3>3, KeepaliveTypes DEF Attempted
  <2>3. CASE Rest \/ Wake
    <3>1. UNCHANGED <<opts, phase, dropping, initial, keepaliveAt, connectedAt, seenAt,
                      attemptAt>>
          /\ pc \in {"rest", "wait"} /\ pc' \in {"wait", "run"}
      BY <2>3 DEF Rest, Sleep, Wake, Due
    <3>2. Interval' = Interval
      BY <3>1, IntervalKeeps
    <3> QED
      BY <3>1, <3>2 DEF Attempted
  <2>4. CASE Drop
    BY <2>4 DEF Drop, Reset, connected, Attempted
  <2>5. CASE KeepaliveRefused
    <3>1. /\ UNCHANGED <<opts, phase, initial, keepaliveAt, connectedAt, seenAt, attemptAt>>
          /\ pc = "ask_keepalive" /\ pc' \in {"ask_recover", "ask_drop"} /\ LockFree
          /\ \/ dropping'
             \/ /\ dropping' = dropping
                /\ ~(KeepaliveReference # 0 /\ Interval <= passAt)
      BY <2>5 DEF KeepaliveRefused, Gets, Reconnect, Ask, Interval
    <3>2. Interval' = Interval
      BY <3>1, IntervalKeeps
    <3>3. phase = "up" => KeepaliveReference # 0
      BY KeepaliveTypes DEF OnTime, connected, KeepaliveReference, Either
    <3>4. phase # "notify" /\ phase # "greet"
      BY <3>1 DEF LockFree
    <3> QED
      BY <3>1, <3>2, <3>3, <3>4, KeepaliveTypes DEF Attempted
  <2>6. CASE KeepaliveBegins
    <3>1. /\ UNCHANGED <<now, opts, phase, dropping, initial, keepaliveAt, attemptAt>>
          /\ pc' \in {"keeping", "rest"} /\ (linkUp => pc' = "keeping") /\ LockFree
          /\ ~dropping
      BY <2>6 DEF KeepaliveBegins, Submit, Gets, Writable, Readable
    <3>2. phase = "up" => linkUp
      BY <3>1 DEF Polled
    <3> QED
      BY <3>1, <3>2 DEF Attempted, LockFree
  <2>7. CASE KeepaliveWritten
    <3>1. /\ UNCHANGED <<opts, phase, wakeup>>
          /\ initial' = FALSE /\ attemptAt' = 0 /\ keepaliveAt' = passAt
          /\ pc = "keeping" /\ pc' = "rest"
      BY <2>7 DEF KeepaliveWritten, Record
    <3> QED
      BY <3>1 DEF Held, Attempted
  <2>8. CASE KeepaliveFails \/ RequestFails
    BY <2>8 DEF KeepaliveFails, RequestFails, Attempted
  <2>9. CASE RequestBegins("ask_poll", "polling") \/ RequestBegins("ask_recover", "recovering")
             \/ RequestWritten
    <3>1. /\ UNCHANGED <<opts, phase, dropping, initial, keepaliveAt, connectedAt, seenAt,
                         attemptAt>>
          /\ pc \notin {"ask_keepalive", "keeping"} /\ pc' \notin {"ask_keepalive", "keeping"}
      BY <2>9 DEF RequestBegins, RequestWritten
    <3>2. Interval' = Interval
      BY <3>1, IntervalKeeps
    <3> QED
      BY <3>1, <3>2 DEF Attempted
  <2> QED
    BY <1>6, <2>1, <2>2, <2>3, <2>4, <2>5, <2>6, <2>7, <2>8, <2>9 DEF Maintaining
<1> QED
  BY <1>1, <1>2, <1>3, <1>4, <1>5, <1>6 DEF Next

LEMMA RenewedStep ==
  ASSUME "options" \notin Commands,
         TypeOK, TypeOK', OnTime, OnTime', Held, Armed', Waits, Keeping, Polled, Attempted,
         Renewed, [Next]_vars
  PROVE  Renewed'
<1> USE DEF session, heard, sent, pending, shown, using, task
<1> SUFFICES ASSUME phase' = "up", ~dropping', ~wakeup', opts'.keepalive
             PROVE  /\ pc' \notin {"ask_keepalive", "keeping"} => PassBy(LastCall)'
                    /\ SleptBy(LastCall)'
  BY DEF Renewed
<1>1. /\ phase = "up" /\ opts' = opts /\ connectedAt' = connectedAt /\ seenAt' = seenAt
      /\ wakeup => pc' = "run"
  BY QuietSteps, QuietKeeps
<1>2. ~dropping /\ linkUp
  <2>1. dropping => dropping'
    BY QuietSteps DEF Tick, LinkLost, ChangeSettings, ChangeOutput, Refresh, UserWritten, UserFails,
       Pass, Reconnect, Rest, Wake, KeepaliveRefused, KeepaliveBegins, KeepaliveWritten,
       KeepaliveFails, RequestBegins, RequestWritten, RequestFails, vars
  <2> QED
    BY <1>1, <2>1 DEF Polled
<1>3. CASE wakeup
  BY <1>1, <1>3 DEF PassBy, SleptBy, Asks, Writing
<1>4. CASE ~wakeup
  <2>1. /\ pc \notin {"ask_keepalive", "keeping"} => PassBy(LastCall)
        /\ SleptBy(LastCall)
    BY <1>1, <1>2, <1>4 DEF Renewed
  <2>2. PICK l \in Nat : l = LastCall
    BY KeepaliveTypes
  <2>3. CASE UserWritten /\ user = "settings"
    <3>1. /\ UNCHANGED <<now, opts, phase, pc, timer>> /\ ~LockFree
          /\ keepaliveAt' = userAt /\ attemptAt' = 0 /\ initial' = FALSE /\ user' = "none"
      BY <2>3 DEF UserWritten, Record, LockFree
    <3>2. /\ userAt # 0 /\ now <= ioBy /\ ioBy <= userAt + IoTimeout /\ pc \notin Writing
          /\ seenAt["settings"] # 0
      BY <2>3, <3>1 DEF Held, OnTime
    <3>3. userAt \in Nat /\ ioBy \in Nat /\ now \in Nat
      BY StampTypes DEF TypeOK
    <3>4. LastCall' = userAt + opts.keepalive_interval
      BY <3>1, <3>2, <3>3, KeepaliveTypes DEF LastCall, Interval, KeepaliveReference, Either
    <3>5. PICK m \in Nat : m = LastCall' /\ now <= m
      BY <3>2, <3>3, <3>4, PollTypes
    <3>6. PassBy(m)'
      <4>1. LockFree'
        BY <1>1, <3>1, <3>2 DEF LockFree, Writing
      <4>2. Granted' + IoTimeout <= now + Turn /\ Granted' <= now + Turn /\ Granted' \in Nat
        BY <3>1, <4>1, GrantedNext
      <4>3. PICK h \in Nat, n \in Nat, t \in Nat, i \in Nat :
              h = Granted' /\ n = now /\ t = Turn /\ i = IoTimeout
        BY <3>3, <4>2, PollTypes
      <4>4. h <= n + t /\ h + i <= n + t /\ n <= m
        BY <3>5, <4>2, <4>3
      <4>5. h <= m + t /\ h + i <= m + 2 * t /\ n <= m + 2 * t
        BY <4>4
      <4> QED
        BY <3>1, <3>2, <4>3, <4>5, SameBounds DEF PassBy
    <3>7. SleptBy(m)'
      <4> SUFFICES ASSUME pc = "wait" PROVE timer <= m + Slack
        BY <3>1, SameBounds DEF SleptBy
      <4>1. KeepaliveDeadline' = userAt + opts.keepalive_interval /\ KeepaliveDeadline' # 0
        BY <1>1, <3>1, <3>2, <3>3, <3>4, KeepaliveTypes
           DEF KeepaliveDeadline, SendInitial, KeepaliveReference, Either, LastCall, Interval
      <4>2. m \in Deadlines'
        BY <3>4, <3>5, <4>1 DEF Deadlines
      <4>3. timer <= now + 1 \/ timer <= m
        BY <3>1, <4>2 DEF Armed, Asleep
      <4> QED
        BY <3>3, <3>5, <4>3, PollTypes
    <3> QED
      BY <3>5, <3>6, <3>7 DEF PassBy, SleptBy
  <2>4. CASE KeepaliveWritten
    <3>1. /\ now' = now /\ pc = "keeping" /\ pc' = "rest"
          /\ keepaliveAt' = passAt /\ initial' = FALSE
      BY <2>4 DEF KeepaliveWritten, Record
    <3>2. now <= passAt + IoTimeout /\ passAt # 0
      BY <3>1, PollTypes DEF Held, Keeping, OnTime, LockFree
    <3>3. LastCall' = passAt + opts.keepalive_interval
      BY <1>1, <3>1, <3>2, KeepaliveTypes DEF LastCall, Interval, KeepaliveReference, Either
    <3>4. now' <= LastCall' + 2 * Turn
      BY <3>1, <3>2, <3>3, PollTypes
    <3> QED
      BY <3>1, <3>4, SameBounds DEF PassBy, SleptBy, Writing
  <2>5. CASE ~(UserWritten /\ user = "settings") /\ ~KeepaliveWritten
    <3>1. UNCHANGED <<initial, keepaliveAt>>
      BY <2>5, QuietSteps DEF Tick, LinkLost, ChangeSettings, ChangeOutput, Refresh, UserWritten,
         UserFails, Pass, Rest, Wake, KeepaliveRefused, KeepaliveBegins, KeepaliveFails, RequestBegins,
         RequestWritten, RequestFails, vars
    <3>2. LastCall' = LastCall
      BY <1>1, <3>1 DEF LastCall, Interval, KeepaliveReference, Either, RetryDelay
    <3>3. pc' \notin {"ask_keepalive", "keeping"} => PassBy(l)'
      <4>1. CASE Pass
        <5>1. now' = now /\ pc = "run"
              /\ (pc' = "ask_keepalive" \/ (pc' \in {"ask_poll", "rest"} /\ ~KeepaliveDue))
          BY <2>5, <4>1 DEF Pass, Reconnect, Ask
        <5>2. ~KeepaliveDue => now <= l
          <6>1. opts.keepalive /\ KeepaliveDeadline # 0 /\ KeepaliveDeadline <= LastCall
            BY <1>1, <1>2, <5>1, DueByLastCall
          <6> QED
            BY <2>2, <6>1, KeepaliveTypes DEF KeepaliveDue
        <5> QED
          BY <5>1, <5>2, <2>2, PassByPass DEF PassBy, Writing
      <4>2. CASE KeepaliveRefused
        <5>1. /\ pc = "ask_keepalive" /\ pc' = "ask_recover" /\ LockFree
              /\ UNCHANGED <<now, phase, user>>
              /\ ~(KeepaliveReference # 0 /\ Interval <= passAt)
          BY <4>2 DEF KeepaliveRefused, Gets, Reconnect, Ask, Interval
        <5>2. KeepaliveReference # 0
          BY <1>1, KeepaliveTypes DEF OnTime, connected, KeepaliveReference, Either
        <5>3. passAt <= l
          BY <2>2, <5>1, <5>2, KeepaliveTypes
        <5>4. now <= l + Turn
          BY <5>1, <5>3, GrantedSoon
        <5>5. LockFree'
          BY <5>1 DEF LockFree
        <5>6. Granted' + IoTimeout <= now + Turn /\ Granted' \in Nat
          BY <5>1, <5>5, GrantedNext
        <5>7. PICK h \in Nat, n \in Nat, t \in Nat, i \in Nat :
                h = Granted' /\ n = now /\ t = Turn /\ i = IoTimeout
          BY <5>6, PollTypes
        <5>8. h + i <= n + t /\ n <= l + t
          BY <5>4, <5>6, <5>7
        <5>9. h + i <= l + 2 * t
          BY <5>8
        <5> QED
          BY <5>1, <5>7, <5>9, SameBounds DEF PassBy, Writing
      <4>3. CASE ~Pass /\ ~KeepaliveRefused
        <5>1. pc' \notin {"ask_keepalive", "keeping"} => pc \notin {"ask_keepalive", "keeping"}
          BY <1>2, <2>5, <4>3, QuietSteps DEF Tick, LinkLost, ChangeSettings, ChangeOutput,
             Refresh, UserWritten, UserFails, Rest, Wake, Due, KeepaliveBegins, KeepaliveFails, RequestBegins, RequestWritten,
             RequestFails, vars
        <5>2. ASSUME pc' \notin {"ask_keepalive", "keeping"} PROVE PassBy(l)
          BY <2>1, <2>2, <5>1, <5>2 DEF PassBy
        <5> QED
          BY <4>3, <5>2, PassByStep
      <4> QED
        BY <4>1, <4>2, <4>3
    <3>4. SleptBy(l)'
      <4>1. CASE Rest
        <5>1. pc = "rest"
          BY <4>1 DEF Rest
        <5>2. now <= l + 2 * Turn
          BY <2>1, <2>2, <5>1 DEF PassBy
        <5>3. KeepaliveDeadline # 0 /\ KeepaliveDeadline <= l /\ KeepaliveDeadline \in Nat
          BY <1>1, <1>2, <2>2, <5>1, DueByLastCall, KeepaliveTypes
        <5>4. NextDeadline \in Nat /\ NextDeadline <= KeepaliveDeadline
          BY <5>3, DeadlineCases, DeadlineIsLeast
        <5>5. NextDeadline <= l + Slack
          BY <5>3, <5>4, PollTypes
        <5> QED
          BY <1>1, <4>1, <5>2, <5>5, RestSleepsBy
      <4>2. CASE ~Rest
        <5>1. SleptBy(l)
          BY <2>1, <2>2 DEF SleptBy
        <5> QED
          BY <4>2, <5>1, SleptByStep
      <4> QED
        BY <4>1, <4>2
    <3> QED
      BY <2>2, <3>2, <3>3, <3>4 DEF PassBy, SleptBy
  <2> QED
    BY <2>3, <2>4, <2>5
<1> QED
  BY <1>3, <1>4

(* While the options stay, no keepalive interval passes without a write of   *)
(* settings in a session that lives on.                                      *)
THEOREM SettingsKeptAlive ==
  ASSUME "options" \notin Commands
  PROVE  Spec => []KeepaliveOrRenewal
<1> DEFINE Inv == /\ TypeOK /\ OnTime /\ Held /\ Watched /\ Armed
                  /\ Waits /\ Keeping /\ Polled /\ Attempted /\ Renewed
<1>1. Init => Inv
  BY TypeInit, HeldInit DEF Init, Watched, Armed, Asleep, Waits, Keeping, Polled, Attempted,
                            Renewed
<1>2. Inv /\ [Next]_vars => Inv'
  <2> SUFFICES ASSUME Inv, [Next]_vars PROVE Inv'
    OBVIOUS
  <2>1. TypeOK' /\ OnTime'
    BY TypeStep, OnTimeStep
  <2>2. Held' /\ Watched' /\ Waits' /\ Armed'
    BY <2>1, HeldStep, WatchedStep, WaitsStep, ArmedStep
  <2>3. Keeping' /\ Polled'
    BY <2>1, KeepingStep, PolledStep DEF Steady
  <2>4. Attempted' /\ Renewed'
    BY <2>1, <2>2, AttemptedStep, RenewedStep
  <2> QED
    BY <2>1, <2>2, <2>3, <2>4
<1>3. Inv => KeepaliveOrRenewal
  <2> DEFINE extra == IF initial THEN RetryDelay ELSE 0
  <2> SUFFICES ASSUME Inv, Asleep, ~dropping, opts.keepalive
               PROVE  now <= KeepaliveReference + opts.keepalive_interval + Slack + extra
    BY DEF KeepaliveOrRenewal
  <2>1. timer # 0 /\ now <= timer /\ timer <= LastCall + Slack
    BY DEF Asleep, OnTime, Watched, Renewed, SleptBy
  <2>2. LastCall = (KeepaliveReference + opts.keepalive_interval) + extra
    BY DEF LastCall, Interval
  <2>3. extra \in Nat
    BY KeepaliveTypes
  <2> HIDE DEF extra
  <2> QED
    BY <2>1, <2>2, <2>3, PollTypes, KeepaliveTypes
<1> QED
  BY <1>1, <1>2, <1>3, PTL DEF Spec
=============================================================================
