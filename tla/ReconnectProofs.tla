---------------------------- MODULE ReconnectProofs ----------------------------
(***************************************************************************)
(* Proofs about Reconnect, for every set of maxima, every set of faults and  *)
(* of restarts and all bounds: no advertisement is slept through, the        *)
(* back-off keeps its pace, and Repair issues are earned.                    *)
(***************************************************************************)
EXTENDS Reconnect, TLAPS

Issues == {"route", "watchdog"}

(* What is kept of a repairs manager and the issues it knows of. *)
Kept(r) == /\ r = Repairs(r.manager, r.issues)
           /\ r.manager \in Manager /\ r.issues \subseteq Issues

-----------------------------------------------------------------------------
(* What an update does to the manager. *)

LEMMA RaiseKeeps ==
    ASSUME NEW r, Kept(r), NEW issue \in Issues
    PROVE  /\ Kept(Raise(r, issue))
           /\ Raise(r, issue).manager = [r.manager EXCEPT !.shown = r.manager.shown \cup {issue}]
  BY DEF Kept, Raise, Repairs, Manager, Issues

LEMMA DismissKeeps ==
    ASSUME NEW r, Kept(r), NEW issue \in Issues
    PROVE  /\ Kept(Dismiss(r, issue))
           /\ Dismiss(r, issue).manager = [r.manager EXCEPT !.shown = r.manager.shown \ {issue}]
  <1>1. CASE issue \in r.manager.shown
    BY <1>1 DEF Kept, Dismiss, Repairs, Manager, Issues
  <1>2. CASE issue \notin r.manager.shown
    <2>1. r.manager.shown \ {issue} = r.manager.shown
      BY <1>2
    <2>2. r.manager = [r.manager EXCEPT !.shown = r.manager.shown \ {issue}]
      BY <2>1 DEF Kept, Manager
    <2> QED
      BY <1>2, <2>2 DEF Dismiss
  <1> QED
    BY <1>1, <1>2

(* An update shows a no-route issue only while it tells of that error. *)
LEMMA RouteEvaluated ==
    ASSUME NEW r, Kept(r), NEW isConnected \in BOOLEAN, NEW error
    PROVE  LET e == EvaluateRoute(r, isConnected, error) IN
           /\ Kept(e)
           /\ e.manager.baseline = r.manager.baseline
           /\ "watchdog" \in e.manager.shown <=> "watchdog" \in r.manager.shown
           /\ "route" \in e.manager.shown => ~isConnected /\ error = "route"
  <1> DEFINE e == EvaluateRoute(r, isConnected, error)
  <1>1. CASE ~isConnected /\ error = "route"
    <2> DEFINE streak  == Lesser(r.manager.streak + 1, Persistence)
               counted == [r EXCEPT !.manager.streak = streak]
    <2>1. streak \in 0..Persistence
      BY DEF Lesser, Persistence, Kept, Manager
    <2>2. /\ Kept(counted) /\ counted.manager.baseline = r.manager.baseline
          /\ counted.manager.shown = r.manager.shown
      BY <2>1 DEF Kept, Repairs, Manager
    <2>3. e = IF streak = Persistence THEN Raise(counted, "route") ELSE counted
      BY <1>1 DEF EvaluateRoute
    <2> HIDE DEF streak, counted
    <2>4. CASE e = counted
      BY <1>1, <2>2, <2>4
    <2>5. CASE e = Raise(counted, "route")
      <3>1. /\ Kept(e)
            /\ e.manager = [counted.manager EXCEPT !.shown = counted.manager.shown \cup {"route"}]
        BY <2>2, <2>5, RaiseKeeps DEF Issues
      <3>2. /\ e.manager.baseline = counted.manager.baseline
            /\ e.manager.shown = counted.manager.shown \cup {"route"}
        BY <2>2, <3>1 DEF Kept, Manager
      <3> QED
        BY <1>1, <2>2, <3>1, <3>2
    <2> QED
      BY <2>3, <2>4, <2>5
  <1>2. CASE ~(~isConnected /\ error = "route")
    <2> DEFINE counted == [r EXCEPT !.manager.streak = 0]
    <2>1. /\ Kept(counted) /\ counted.manager.baseline = r.manager.baseline
          /\ counted.manager.shown = r.manager.shown
      BY DEF Kept, Repairs, Manager, Persistence
    <2>2. e = Dismiss(counted, "route")
      BY <1>2 DEF EvaluateRoute
    <2> HIDE DEF counted
    <2>3. /\ Kept(e)
          /\ e.manager = [counted.manager EXCEPT !.shown = counted.manager.shown \ {"route"}]
      BY <2>1, <2>2, DismissKeeps DEF Issues
    <2>4. /\ e.manager.baseline = counted.manager.baseline
          /\ e.manager.shown = counted.manager.shown \ {"route"}
      BY <2>1, <2>3 DEF Kept, Manager
    <2> QED
      BY <2>1, <2>3, <2>4
  <1> QED
    BY <1>1, <1>2

(* Fresh status moves the baseline and dismisses the watchdog issue; it is    *)
(* raised only after enough resets.                                           *)
LEMMA WatchdogEvaluated ==
    ASSUME NEW r, Kept(r), NEW isFresh \in BOOLEAN, NEW count \in 0..MaxResets
    PROVE  LET e == EvaluateWatchdog(r, isFresh, count) IN
           /\ Kept(e)
           /\ e.manager.baseline = IF isFresh THEN count ELSE r.manager.baseline
           /\ "route" \in e.manager.shown <=> "route" \in r.manager.shown
           /\ "watchdog" \in e.manager.shown =>
                /\ ~isFresh
                /\ count - r.manager.baseline >= Persistence
                   \/ "watchdog" \in r.manager.shown
  <1> DEFINE e == EvaluateWatchdog(r, isFresh, count)
  <1>1. CASE count - r.manager.baseline >= Persistence /\ ~isFresh
    <2>1. e = Raise(r, "watchdog")
      BY <1>1 DEF EvaluateWatchdog
    <2>2. /\ Kept(e)
          /\ e.manager = [r.manager EXCEPT !.shown = r.manager.shown \cup {"watchdog"}]
      BY <2>1, RaiseKeeps DEF Issues
    <2>3. /\ e.manager.baseline = r.manager.baseline
          /\ e.manager.shown = r.manager.shown \cup {"watchdog"}
      BY <2>2 DEF Kept, Manager
    <2> QED
      BY <1>1, <2>2, <2>3
  <1>2. CASE isFresh
    <2> DEFINE counted == [r EXCEPT !.manager.baseline = count]
    <2>1. /\ Kept(counted) /\ counted.manager.baseline = count
          /\ counted.manager.shown = r.manager.shown
      BY DEF Kept, Repairs, Manager
    <2>2. e = Dismiss(counted, "watchdog")
      BY <1>2 DEF EvaluateWatchdog
    <2> HIDE DEF counted
    <2>3. /\ Kept(e)
          /\ e.manager = [counted.manager EXCEPT !.shown = counted.manager.shown \ {"watchdog"}]
      BY <2>1, <2>2, DismissKeeps DEF Issues
    <2>4. /\ e.manager.baseline = counted.manager.baseline
          /\ e.manager.shown = counted.manager.shown \ {"watchdog"}
      BY <2>1, <2>3 DEF Kept, Manager
    <2> QED
      BY <1>2, <2>1, <2>3, <2>4
  <1>3. CASE ~isFresh /\ ~(count - r.manager.baseline >= Persistence /\ ~isFresh)
    BY <1>3 DEF EvaluateWatchdog
  <1> QED
    BY <1>1, <1>2, <1>3

(* One whole update. *)
LEMMA Evaluated ==
    ASSUME NEW r, Kept(r), NEW isConnected \in BOOLEAN, NEW error,
           NEW count \in 0..MaxResets, NEW isFresh \in BOOLEAN
    PROVE  LET e == Evaluate(r, isConnected, error, count, isFresh) IN
           /\ Kept(e)
           /\ "route" \in e.manager.shown => ~isConnected /\ error = "route"
           /\ e.manager.baseline = IF isConnected /\ isFresh THEN count ELSE r.manager.baseline
           /\ "watchdog" \in e.manager.shown =>
                /\ ~(isConnected /\ isFresh)
                /\ count - r.manager.baseline >= Persistence
                   \/ "watchdog" \in r.manager.shown
  <1> DEFINE d == EvaluateRoute(r, isConnected, error)
             e == Evaluate(r, isConnected, error, count, isFresh)
  <1>1. /\ Kept(d)
        /\ d.manager.baseline = r.manager.baseline
        /\ "watchdog" \in d.manager.shown <=> "watchdog" \in r.manager.shown
        /\ "route" \in d.manager.shown => ~isConnected /\ error = "route"
    BY RouteEvaluated
  <1>2. e = EvaluateWatchdog(d, isConnected /\ isFresh, count)
    BY DEF Evaluate
  <1>3. (isConnected /\ isFresh) \in BOOLEAN
    OBVIOUS
  <1> HIDE DEF d, e
  <1>4. /\ Kept(e)
        /\ e.manager.baseline = IF isConnected /\ isFresh THEN count ELSE d.manager.baseline
        /\ "route" \in e.manager.shown <=> "route" \in d.manager.shown
        /\ "watchdog" \in e.manager.shown =>
             /\ ~(isConnected /\ isFresh)
             /\ count - d.manager.baseline >= Persistence
                \/ "watchdog" \in d.manager.shown
    BY <1>1, <1>2, <1>3, WatchdogEvaluated
  <1> QED
    BY <1>1, <1>4 DEF e

-----------------------------------------------------------------------------
(* What a step tells the manager: a session, or not; an error; fresh status,  *)
(* or not.                                                                    *)
Tells(isConnected, error, isFresh) ==
    /\ manager' \in Manager /\ issues' \subseteq Issues
    /\ "route" \in manager'.shown => ~isConnected /\ error = "route"
    /\ manager'.baseline = IF isConnected /\ isFresh THEN resets ELSE manager.baseline
    /\ "watchdog" \in manager'.shown =>
         /\ ~(isConnected /\ isFresh)
         /\ resets - manager.baseline >= Persistence \/ "watchdog" \in manager.shown

LEMMA Present == ASSUME TypeOK PROVE
    /\ Kept(Repairs(manager, issues))
    /\ Repairs(manager, issues).manager = manager
  BY DEF Kept, Repairs, TypeOK, Issues

LEMMA Telling ==
    ASSUME TypeOK, NEW isConnected \in BOOLEAN, NEW error, NEW isFresh \in BOOLEAN,
           Becomes(Evaluate(Repairs(manager, issues), isConnected, error, resets, isFresh))
    PROVE  Tells(isConnected, error, isFresh)
  <1> DEFINE r == Repairs(manager, issues)
             e == Evaluate(r, isConnected, error, resets, isFresh)
  <1>1. Kept(r) /\ r.manager = manager /\ resets \in 0..MaxResets
    BY Present DEF TypeOK
  <1>2. manager' = e.manager /\ issues' = e.issues
    BY DEF Becomes
  <1> HIDE DEF r
  <1>3. /\ Kept(e)
        /\ "route" \in e.manager.shown => ~isConnected /\ error = "route"
        /\ e.manager.baseline = IF isConnected /\ isFresh THEN resets ELSE r.manager.baseline
        /\ "watchdog" \in e.manager.shown =>
             /\ ~(isConnected /\ isFresh)
             /\ resets - r.manager.baseline >= Persistence
                \/ "watchdog" \in r.manager.shown
    BY <1>1, Evaluated
  <1> HIDE DEF e
  <1> QED
    BY <1>1, <1>2, <1>3 DEF Tells, Kept

LEMMA EmitTells ==
    ASSUME TypeOK, Emit, connected' \in BOOLEAN, fresh' \in BOOLEAN, resets' = resets
    PROVE  Tells(connected', lastError', fresh')
  <1>1. Becomes(Evaluate(Repairs(manager, issues), connected', lastError', resets, fresh'))
    BY DEF Emit
  <1> QED
    BY <1>1, Telling

(* Of two updates, the second counts where the first had no session to show.  *)
LEMMA EmitTwiceTells ==
    ASSUME TypeOK, EmitTwice(FALSE, lastError), connected' \in BOOLEAN,
           fresh' \in BOOLEAN, resets' = resets
    PROVE  Tells(connected', lastError', fresh')
  <1> DEFINE r == Repairs(manager, issues)
             d == Evaluate(r, FALSE, lastError, resets, fresh)
             e == Evaluate(d, connected', lastError', resets, fresh')
  <1>1. Kept(r) /\ r.manager = manager /\ resets \in 0..MaxResets /\ fresh \in BOOLEAN
    BY Present DEF TypeOK
  <1>2. manager' = e.manager /\ issues' = e.issues
    BY DEF EmitTwice, Becomes
  <1> HIDE DEF r
  <1>3. /\ Kept(d) /\ d.manager.baseline = r.manager.baseline
        /\ "watchdog" \in d.manager.shown =>
             resets - r.manager.baseline >= Persistence \/ "watchdog" \in r.manager.shown
    <2>1. \A c \in BOOLEAN : LET a == Evaluate(r, c, lastError, resets, fresh) IN
            /\ Kept(a)
            /\ a.manager.baseline = IF c /\ fresh THEN resets ELSE r.manager.baseline
            /\ "watchdog" \in a.manager.shown =>
                 resets - r.manager.baseline >= Persistence \/ "watchdog" \in r.manager.shown
      BY <1>1, Evaluated
    <2> QED
      BY <2>1
  <1> HIDE DEF d
  <1>4. /\ Kept(e)
        /\ "route" \in e.manager.shown => ~connected' /\ lastError' = "route"
        /\ e.manager.baseline = IF connected' /\ fresh' THEN resets ELSE d.manager.baseline
        /\ "watchdog" \in e.manager.shown =>
             /\ ~(connected' /\ fresh')
             /\ resets - d.manager.baseline >= Persistence
                \/ "watchdog" \in d.manager.shown
    BY <1>1, <1>3, Evaluated
  <1> HIDE DEF e
  <1> QED
    BY <1>1, <1>2, <1>3, <1>4 DEF Tells, Kept

-----------------------------------------------------------------------------
(* Types. *)

(* What a step tells is told by Emit, by EmitTwice or in the course of Attempt; *)
(* other steps tell nothing.                                                   *)
Told ==
    \/ UNCHANGED repairs
    \/ Tells(connected', lastError', fresh')
    \/ Attempt /\ Tells(connected, lastError, fresh)

(* The types of what the manager does not keep. *)
StateTyped ==
    /\ pc \in {"off", "top", "establish", "notify", "greet", "session", "closing", "ending",
               "waiting", "resting"}
    /\ dropping \in {"no", "due", "late"} /\ lastError \in {"none", "route", "other"}
    /\ event \in BOOLEAN /\ asked \in BOOLEAN /\ active \in BOOLEAN /\ link \in BOOLEAN
    /\ connected \in BOOLEAN /\ fresh \in BOOLEAN /\ heard \in BOOLEAN

AdsTyped ==
    /\ generation \in Nat /\ generation <= MaxAds
    /\ after \in Nat /\ after <= generation
    /\ retryAfter \in Nat /\ retryAfter <= generation
    /\ queued = None \/ (queued \in Nat /\ queued <= generation)

CountsTyped ==
    /\ resets \in 0..MaxResets /\ failures \in 0..Persistence /\ silent \in 0..Persistence
    /\ cap \in Caps /\ delay \in Nat /\ timeout \in Nat /\ doubled \in Nat

ClientTyped == StateTyped /\ AdsTyped /\ CountsTyped

LEMMA Bounds ==
    /\ Initial \in Nat /\ MaxAds \in Nat /\ MaxResets \in Nat /\ MaxDoubled \in Nat
    /\ None = MaxAds + 1 /\ Persistence = 3
    /\ \A c \in Caps : c \in Nat /\ Initial <= c
  BY ReconnectAssumption DEF None, Persistence

LEMMA Typing == TypeOK <=> ClientTyped /\ manager \in Manager /\ issues \subseteq Issues
  BY Bounds DEF TypeOK, ClientTyped, StateTyped, AdsTyped, CountsTyped, Issues

LEMMA Capping == ASSUME NEW n \in Nat PROVE
    /\ Lesser(n, Persistence) \in 0..Persistence
    /\ \A m \in Nat : Lesser(n, m) \in Nat
  BY DEF Lesser, Persistence

(* The jitter stays between nothing and the maximum. *)
LEMMA Jitter ==
    ASSUME NEW d \in Nat, NEW t \in Jittered(d), cap \in Nat
    PROVE  t \in Nat /\ t <= cap /\ t >= Lesser(d, cap) - Spread(Lesser(d, cap))
  <1> DEFINE bounded == Lesser(d, cap)
  <1>1. bounded \in Nat /\ bounded <= cap
    BY DEF Lesser
  <1> HIDE DEF bounded
  <1>2. Spread(bounded) \in Nat /\ Spread(bounded) <= bounded
    BY <1>1 DEF Spread
  <1>3. PICK j \in {bounded - Spread(bounded), bounded, bounded + Spread(bounded)} :
           t = Lesser(j, cap)
    BY DEF Jittered, bounded
  <1>4. j \in Nat /\ j >= bounded - Spread(bounded)
    BY <1>1, <1>2, <1>3
  <1> QED
    BY <1>1, <1>2, <1>3, <1>4 DEF Lesser, bounded

LEMMA StateTypedStep == TypeOK /\ [Next]_vars => StateTyped'
  <1> SUFFICES ASSUME TypeOK, [Next]_vars PROVE StateTyped'
    OBVIOUS
  <1>1. StateTyped
    BY Typing DEF ClientTyped
  <1>2. ASSUME NEW left, Gone(left) PROVE StateTyped'
    BY <1>2 DEF Gone, StateTyped
  <1>3. CASE Start \/ Install
    <2>1. CASE Start
      BY <1>1, <2>1 DEF Start, StateTyped, attempt, retry, ads, told
    <2>2. CASE Install
      BY <1>1, <2>2 DEF Install, StateTyped, retry, ads, told
    <2> QED
      BY <1>3, <2>1, <2>2
  <1>4. CASE Attempt
    BY <1>1, <1>4 DEF Attempt, StateTyped
  <1>5. CASE Greeted \/ AttemptFails
    BY <1>1, <1>5 DEF Greeted, AttemptFails, StateTyped, attempt, retry, ads
  <1>6. CASE Closed
    BY <1>1, <1>6 DEF Closed, StateTyped, retry, told
  <1>7. CASE WokenByAdvertisement
    <2>1. /\ pc' \in {pc, "top"} /\ event' \in BOOLEAN
          /\ UNCHANGED <<active, link, connected, dropping, asked, heard, lastError, fresh>>
      BY <1>1, <1>7 DEF WokenByAdvertisement, StateTyped, attempt, retry, told
    <2> QED
      BY <1>1, <2>1 DEF StateTyped
  <1>8. ASSUME NEW changed \in BOOLEAN, Advertise(changed) PROVE StateTyped'
    BY <1>1, <1>8 DEF Advertise, StateTyped, attempt, retry, told
  <1>9. CASE LinkLost
    <2>1. /\ link' \in BOOLEAN /\ heard' \in BOOLEAN
          /\ UNCHANGED <<pc, active, connected, dropping, asked, event, lastError, fresh>>
      BY <1>1, <1>9 DEF LinkLost, StateTyped, told
    <2> QED
      BY <1>1, <2>1 DEF StateTyped
  <1>10. CASE LinkLossHeard
    BY <1>1, <1>10 DEF LinkLossHeard, StateTyped, attempt, ads, told
  <1>11. CASE UserAsks \/ WatchdogAsks
    BY <1>1, <1>11 DEF UserAsks, WatchdogAsks, Ask, StateTyped
  <1>12. CASE Dropped
    BY <1>1, <1>12 DEF Dropped, StateTyped, retry, ads, told
  <1>13. CASE WriteFails \/ StatusArrives \/ StatusAges
    <2>1. CASE WriteFails
      BY <1>1, <2>1 DEF WriteFails, StateTyped, attempt
    <2>2. CASE StatusArrives
      BY <1>1, <2>2 DEF StatusArrives, StateTyped, attempt, retry, ads
    <2>3. CASE StatusAges
      <3>1. /\ fresh' \in BOOLEAN
            /\ UNCHANGED <<pc, active, link, connected, dropping, asked, event, heard, lastError>>
        BY <2>3 DEF StatusAges, attempt, retry, ads
      <3> QED
        BY <1>1, <3>1 DEF StateTyped
    <2> QED
      BY <1>13, <2>1, <2>2, <2>3
  <1>14. CASE Update
    BY <1>1, <1>14 DEF Update, StateTyped, attempt, retry, ads, told
  <1>15. ASSUME NEW c \in Caps, ApplyOptions(c) PROVE StateTyped'
    BY <1>1, <1>15 DEF ApplyOptions, StateTyped, attempt, retry, ads, told
  <1>16. CASE Subscribed \/ SessionEnds
    BY <1>1, <1>16 DEF Subscribed, SessionEnds, StateTyped, attempt, retry, ads, told
  <1>17. CASE WaitRunsOut
    BY <1>1, <1>17 DEF WaitRunsOut, StateTyped, attempt, retry, ads, told
  <1>18. CASE UNCHANGED vars
    BY <1>1, <1>18 DEF vars, StateTyped, attempt, retry, ads, told
  <1> QED
    BY <1>2, <1>3, <1>4, <1>5, <1>6, <1>7, <1>8, <1>9, <1>10, <1>11, <1>12, <1>13, <1>14,
       <1>15, <1>16, <1>17, <1>18
       DEF Next, Loop, Around, Shutdown, Crash

LEMMA AdsTypedStep == TypeOK /\ [Next]_vars => AdsTyped'
  <1> SUFFICES ASSUME TypeOK, [Next]_vars PROVE AdsTyped'
    OBVIOUS
  <1> USE Bounds DEF None
  <1>1. AdsTyped
    BY Typing DEF ClientTyped
  <1>2. ASSUME NEW left, Gone(left) PROVE AdsTyped'
    BY <1>2 DEF Gone, AdsTyped
  <1>3. CASE UNCHANGED <<retry, generation>>
    BY <1>1, <1>3 DEF AdsTyped, retry
  <1>4. CASE Attempt
    BY <1>1, <1>4 DEF Attempt, AdsTyped
  <1>5. CASE AttemptFails \/ WriteFails
    BY <1>1, <1>5 DEF AttemptFails, WriteFails, AdsTyped
  <1>6. CASE SessionEnds
    BY <1>1, <1>6 DEF SessionEnds, RetryAfter, Greater, AdsTyped, ads
  <1>7. ASSUME NEW changed \in BOOLEAN, Advertise(changed) PROVE AdsTyped'
    <2>1. generation < MaxAds /\ generation' = generation + 1 /\ UNCHANGED retry
      BY <1>7 DEF Advertise
    <2> QED
      BY <1>1, <2>1 DEF AdsTyped, retry
  <1>8. CASE LinkLost
    BY <1>1, <1>8 DEF LinkLost, AdsTyped
  <1>9. CASE LinkLossHeard
    BY <1>1, <1>9 DEF LinkLossHeard, AdsTyped, ads
  <1>10. CASE UserAsks \/ WatchdogAsks
    BY <1>1, <1>10 DEF UserAsks, WatchdogAsks, Ask, AdsTyped
  <1>11. ASSUME Start \/ Install \/ Subscribed \/ Greeted \/ Closed \/ WokenByAdvertisement
                \/ WaitRunsOut \/ Dropped \/ StatusArrives \/ StatusAges \/ Update
                \/ (\E c \in Caps : ApplyOptions(c)) \/ UNCHANGED vars
         PROVE  UNCHANGED <<retry, generation>>
    BY <1>11 DEF Start, Install, Subscribed, Greeted, Closed, WokenByAdvertisement, WaitRunsOut,
                 Dropped, StatusArrives, StatusAges, Update, ApplyOptions, vars, ads
  <1> QED
    BY <1>2, <1>3, <1>4, <1>5, <1>6, <1>7, <1>8, <1>9, <1>10, <1>11
       DEF Next, Loop, Around, Shutdown, Crash

LEMMA CountsTypedStep == TypeOK /\ [Next]_vars => CountsTyped'
  <1> SUFFICES ASSUME TypeOK, [Next]_vars PROVE CountsTyped'
    OBVIOUS
  <1> USE Bounds
  <1>1. CountsTyped
    BY Typing DEF ClientTyped
  <1>2. ASSUME NEW left, Gone(left) PROVE CountsTyped'
    BY <1>1, <1>2 DEF Gone, CountsTyped
  <1>3. CASE UNCHANGED <<pace, resets, silent, failures>>
    BY <1>1, <1>3 DEF CountsTyped, pace
  <1>4. ASSUME NEW n \in Nat, Silence(n) PROVE silent' \in 0..Persistence
    BY <1>4, Capping DEF Silence
  <1>5. CASE Attempt
    <2>1. Lesser(failures + 1, Persistence) \in 0..Persistence
      BY <1>1, Capping DEF CountsTyped
    <2> QED
      BY <1>1, <1>5, <2>1 DEF Attempt, CountsTyped, pace
  <1>6. CASE Greeted
    <2>1. silent' \in 0..Persistence
      BY <1>1, <1>4, <1>6 DEF Greeted, CountsTyped
    <2> QED
      BY <1>1, <1>6, <2>1 DEF Greeted, CountsTyped
  <1>7. CASE StatusArrives
    <2>1. silent' \in 0..Persistence
      BY <1>1, <1>4, <1>7 DEF StatusArrives, CountsTyped
    <2> QED
      BY <1>1, <1>7, <2>1 DEF StatusArrives, CountsTyped, pace
  <1>8. CASE UserAsks \/ WatchdogAsks
    <2>1. resets' \in 0..MaxResets /\ silent' \in 0..Persistence
      BY <1>1, <1>4, <1>8 DEF UserAsks, WatchdogAsks, CountsTyped
    <2>2. UNCHANGED <<pace, failures>>
      BY <1>8 DEF UserAsks, WatchdogAsks, Ask
    <2> QED
      BY <1>1, <2>1, <2>2 DEF CountsTyped, pace
  <1>9. CASE Closed
    <2>1. cap \in Nat /\ delay \in Nat
      BY <1>1 DEF CountsTyped
    <2>2. timeout' \in Nat
      BY <1>1, <1>9, <2>1, Jitter, Capping DEF Closed, CountsTyped
    <2> QED
      BY <1>1, <1>9, <2>2 DEF Closed, CountsTyped, told
  <1>10. CASE WokenByAdvertisement
    <2>1. /\ UNCHANGED <<cap, resets, silent, failures>>
          /\ delay' \in {delay, Initial} /\ timeout' \in {timeout, 0}
          /\ doubled' \in {doubled, Initial}
      BY <1>10 DEF WokenByAdvertisement, told
    <2> QED
      BY <1>1, <2>1 DEF CountsTyped
  <1>11. CASE WaitRunsOut
    <2>1. cap \in Nat /\ 2 * delay \in Nat /\ 2 * doubled \in Nat
      BY <1>1 DEF CountsTyped
    <2>2. Lesser(2 * delay, cap) \in Nat /\ Lesser(2 * doubled, MaxDoubled) \in Nat
      BY <2>1, Capping
    <2> QED
      BY <1>1, <1>11, <2>2 DEF WaitRunsOut, CountsTyped, told
  <1>12. ASSUME NEW c \in Caps, ApplyOptions(c) PROVE CountsTyped'
    BY <1>1, <1>12 DEF ApplyOptions, CountsTyped, told
  <1>13. ASSUME Start \/ Install \/ Subscribed \/ AttemptFails \/ SessionEnds
                \/ (\E changed \in BOOLEAN : Advertise(changed)) \/ LinkLost \/ LinkLossHeard
                \/ Dropped \/ WriteFails \/ StatusAges \/ Update \/ UNCHANGED vars
         PROVE  UNCHANGED <<pace, resets, silent, failures>>
    BY <1>13 DEF Start, Install, Subscribed, AttemptFails, SessionEnds, Advertise, LinkLost,
                 LinkLossHeard, Dropped, WriteFails, StatusAges, Update, vars, told
  <1> QED
    BY <1>2, <1>3, <1>5, <1>6, <1>7, <1>8, <1>9, <1>10, <1>11, <1>12, <1>13
       DEF Next, Loop, Around, Shutdown, Crash

LEMMA ClientTypedStep == TypeOK /\ [Next]_vars => ClientTyped'
  BY StateTypedStep, AdsTypedStep, CountsTypedStep DEF ClientTyped

(* The manager learns of a step by one of its updates, or not at all. *)
LEMMA StepTells ==
    ASSUME TypeOK, ClientTyped', [Loop \/ Around]_vars
    PROVE  Told
  <1>1. connected' \in BOOLEAN /\ fresh' \in BOOLEAN
    BY DEF ClientTyped, StateTyped
  <1>2. CASE Emit /\ resets' = resets
    BY <1>1, <1>2, EmitTells DEF Told
  <1>3. CASE Attempt
    <2>1. /\ connected \in BOOLEAN /\ fresh \in BOOLEAN
          /\ Becomes(Evaluate(Repairs(manager, issues), connected, lastError, resets, fresh))
      BY <1>3 DEF Attempt, TypeOK
    <2> QED
      BY <1>3, <2>1, Telling DEF Told
  <1>4. CASE Install \/ Subscribed \/ SessionEnds \/ WokenByAdvertisement \/ WaitRunsOut
             \/ LinkLost \/ LinkLossHeard \/ UserAsks \/ WatchdogAsks \/ StatusAges
             \/ UNCHANGED vars
    BY <1>4 DEF Install, Subscribed, SessionEnds, WokenByAdvertisement, WaitRunsOut, LinkLost,
                LinkLossHeard, UserAsks, WatchdogAsks, Ask, StatusAges, vars, Told
  <1>5. CASE Greeted \/ WriteFails \/ StatusArrives \/ Update \/ \E c \in Caps : ApplyOptions(c)
    BY <1>2, <1>5 DEF Greeted, WriteFails, StatusArrives, Update, ApplyOptions, told
  <1>6. CASE AttemptFails
    BY <1>2, <1>6 DEF AttemptFails, Told
  <1>7. CASE Closed
    <2>1. resets' = resets
      BY <1>7 DEF Closed, told
    <2>2. CASE EmitTwice(FALSE, lastError)
      BY <1>1, <2>1, <2>2, EmitTwiceTells DEF Told
    <2> QED
      BY <1>2, <1>7, <2>1, <2>2 DEF Closed
  <1>8. ASSUME NEW changed \in BOOLEAN, Advertise(changed) PROVE Told
    BY <1>2, <1>8 DEF Advertise, told, Told
  <1>9. CASE Dropped
    BY <1>2, <1>9 DEF Dropped, told, Told
  <1> QED
    BY <1>3, <1>4, <1>5, <1>6, <1>7, <1>8, <1>9 DEF Loop, Around

LEMMA ManagerTyped == ASSUME TypeOK, Told PROVE manager' \in Manager /\ issues' \subseteq Issues
  BY DEF TypeOK, Told, Tells, repairs, Issues

LEMMA FreshManager == NewManager \in Manager
  BY Bounds DEF NewManager, Manager

LEMMA TypeStep == TypeOK /\ [Next]_vars => TypeOK'
  <1> SUFFICES ASSUME TypeOK, [Next]_vars PROVE TypeOK'
    OBVIOUS
  <1>1. ClientTyped'
    BY ClientTypedStep
  <1>2. CASE [Loop \/ Around]_vars
    <2>1. manager' \in Manager /\ issues' \subseteq Issues
      BY <1>1, <1>2, StepTells, ManagerTyped
    <2> QED
      BY <1>1, <2>1, Bounds DEF TypeOK, ClientTyped, StateTyped, AdsTyped, CountsTyped, Issues, None
  <1>3. CASE Start \/ Shutdown \/ Crash
    <2>1. manager' \in Manager /\ issues' \subseteq Issues
      BY <1>3, FreshManager DEF Start, Shutdown, Crash, Gone, repairs, TypeOK, Issues
    <2> QED
      BY <1>1, <2>1, Bounds DEF TypeOK, ClientTyped, StateTyped, AdsTyped, CountsTyped, Issues, None
  <1> QED
    BY <1>2, <1>3 DEF Next

LEMMA InitTyped == Init => TypeOK
  <1> SUFFICES ASSUME Init PROVE TypeOK
    OBVIOUS
  <1>1. StateTyped
    BY DEF Init, StateTyped
  <1>2. AdsTyped /\ CountsTyped
    BY Bounds DEF Init, AdsTyped, CountsTyped, None
  <1>3. manager \in Manager /\ issues \subseteq Issues
    BY FreshManager DEF Init
  <1> QED
    BY <1>1, <1>2, <1>3, Typing DEF ClientTyped

(* TypeOK: every variable has its type. *)
THEOREM ReconnectTypeCorrect == Spec => []TypeOK
  BY InitTyped, TypeStep, PTL DEF Spec

-----------------------------------------------------------------------------
(* Advertisements. *)

(* An advertisement that counts is newer than whatever the loop may compare   *)
(* it with, be it recorded already or on its way to the loop.                 *)
Newer ==
    /\ heard => /\ generation > after /\ generation > retryAfter
                /\ queued # None => generation > queued
    /\ AdvertisementHeard

LEMMA NewerStep == TypeOK /\ Newer /\ [Next]_vars => Newer'
  <1> SUFFICES ASSUME TypeOK, Newer, [Next]_vars PROVE Newer'
    OBVIOUS
  <1> USE Bounds DEF None
  <1>1. AdsTyped
    BY Typing DEF ClientTyped
  <1>2. ASSUME ~heard' PROVE Newer'
    BY <1>2 DEF Newer, AdvertisementHeard
  <1>3. CASE UNCHANGED <<retry, ads>> /\ (pc' = pc \/ pc' \notin {"waiting", "resting"})
    BY <1>3 DEF Newer, AdvertisementHeard, retry, ads
  <1>4. CASE SessionEnds
    BY <1>4 DEF SessionEnds, RetryAfter, Greater, Newer, AdvertisementHeard, ads
  <1>5. CASE Closed
    <2>1. /\ UNCHANGED <<retry, generation, heard>>
          /\ pc' = "top" \/ generation <= after
      BY <1>5 DEF Closed
    <2> QED
      BY <1>1, <2>1 DEF Newer, AdvertisementHeard, retry, AdsTyped
  <1>6. CASE WokenByAdvertisement
    <2>1. /\ UNCHANGED <<retry, generation, heard>>
          /\ pc' = "top" \/ generation <= after
      BY <1>6 DEF WokenByAdvertisement
    <2> QED
      BY <1>1, <2>1 DEF Newer, AdvertisementHeard, retry, AdsTyped
  <1>7. ASSUME NEW changed \in BOOLEAN, Advertise(changed) PROVE Newer'
    <2>1. generation' = generation + 1 /\ event' = TRUE /\ UNCHANGED retry
      BY <1>7 DEF Advertise
    <2> QED
      BY <1>1, <2>1 DEF Newer, AdvertisementHeard, retry, AdsTyped
  <1>8. CASE LinkLost
    BY <1>2, <1>8 DEF LinkLost, Newer, AdvertisementHeard
  <1>9. CASE LinkLossHeard
    BY <1>1, <1>9 DEF LinkLossHeard, Newer, AdvertisementHeard, ads
  <1>10. CASE AttemptFails
    BY <1>2, <1>10 DEF AttemptFails, Newer, AdvertisementHeard
  <1>11. ASSUME \/ Shutdown \/ Crash \/ Attempt \/ UserAsks \/ WatchdogAsks \/ WriteFails
         PROVE  ~heard'
    BY <1>11 DEF Shutdown, Crash, Gone, Attempt, UserAsks, WatchdogAsks, Ask, WriteFails
  <1>12. ASSUME \/ Start \/ Install \/ Subscribed \/ Greeted \/ WaitRunsOut \/ Dropped
                \/ StatusArrives \/ StatusAges \/ Update
                \/ (\E c \in Caps : ApplyOptions(c)) \/ UNCHANGED vars
         PROVE  UNCHANGED <<retry, ads>> /\ (pc' = pc \/ pc' \notin {"waiting", "resting"})
    BY <1>12 DEF Start, Install, Subscribed, Greeted, WaitRunsOut, Dropped, StatusArrives,
                 StatusAges, Update, ApplyOptions, vars
  <1> QED
    BY <1>2, <1>3, <1>4, <1>5, <1>6, <1>7, <1>8, <1>9, <1>10, <1>11, <1>12
       DEF Next, Loop, Around

(* AdvertisementHeard: while the loop waits without having been woken, no     *)
(* advertisement has come since its attempt began or its session was asked to *)
(* end.                                                                       *)
THEOREM NoneSleptThrough == Spec => []AdvertisementHeard
  <1>1. Init => Newer
    BY DEF Init, Newer, AdvertisementHeard
  <1>2. Newer => AdvertisementHeard
    BY DEF Newer
  <1> QED
    BY <1>1, <1>2, NewerStep, InitTyped, TypeStep, PTL DEF Spec

-----------------------------------------------------------------------------
(* The back-off. *)

(* The next delay is what doubling has made of it, or has reached a maximum.  *)
Paced == \E c \in Caps : delay >= Doubling(c)

LEMMA PacedStep == TypeOK /\ Paced /\ [Next]_vars => Paced'
  <1> SUFFICES ASSUME TypeOK, Paced, [Next]_vars PROVE Paced'
    OBVIOUS
  <1> USE Bounds
  <1>1. CountsTyped
    BY Typing DEF ClientTyped
  <1>2. PICK c \in Caps : delay >= Doubling(c)
    BY DEF Paced
  <1>3. CASE UNCHANGED <<delay, doubled>>
    BY <1>3 DEF Paced, Doubling
  <1>4. CASE delay' = Initial /\ doubled' = Initial
    BY <1>1, <1>4 DEF Paced, Doubling, Lesser, CountsTyped
  <1>5. CASE delay' = Lesser(2 * delay, cap) /\ doubled' = Lesser(2 * doubled, MaxDoubled)
    <2>1. CASE 2 * delay <= cap
      <3>1. c \in Nat /\ delay \in Nat /\ doubled \in Nat /\ cap \in Nat
        BY <1>1 DEF CountsTyped
      <3>2. delay >= doubled \/ delay >= c
        BY <1>2 DEF Doubling, Lesser
      <3>3. delay' = 2 * delay /\ doubled' \in Nat /\ doubled' <= 2 * doubled
        BY <1>5, <2>1, <3>1 DEF Lesser
      <3>4. delay' >= Lesser(doubled', c)
        BY <3>1, <3>2, <3>3 DEF Lesser
      <3> QED
        BY <3>4 DEF Paced, Doubling
    <2>2. CASE ~(2 * delay <= cap)
      <3>1. delay' >= Lesser(doubled', cap) /\ cap \in Caps
        BY <1>1, <1>5, <2>2 DEF Lesser, CountsTyped
      <3> QED
        BY <3>1 DEF Paced, Doubling
    <2> QED
      BY <2>1, <2>2
  <1>6. ASSUME Next \/ UNCHANGED vars
        PROVE  \/ UNCHANGED <<delay, doubled>>
               \/ delay' = Initial /\ doubled' = Initial
               \/ delay' = Lesser(2 * delay, cap) /\ doubled' = Lesser(2 * doubled, MaxDoubled)
    <2>1. ASSUME \/ Start \/ Attempt \/ Install \/ Subscribed \/ AttemptFails \/ SessionEnds
                 \/ Around \/ UNCHANGED vars
          PROVE  UNCHANGED <<delay, doubled>>
      BY <2>1 DEF Start, Attempt, Install, Subscribed, AttemptFails, SessionEnds, Around,
                  Advertise, LinkLost, LinkLossHeard, UserAsks, WatchdogAsks, Ask, Dropped,
                  WriteFails, StatusArrives, StatusAges, Update, ApplyOptions, vars, pace
    <2> QED
      BY <1>6, <2>1 DEF Next, Loop, Shutdown, Crash, Gone, Greeted, Closed,
                        WokenByAdvertisement, WaitRunsOut
  <1> QED
    BY <1>3, <1>4, <1>5, <1>6

(* What is less before the jitter is not more after it. *)
LEMMA SpreadMonotone ==
    ASSUME NEW m \in Nat, NEW n \in Nat, m <= n
    PROVE  m - Spread(m) <= n - Spread(n)
  BY DEF Spread

(* BackoffPaced: the wait after n that ran out is as long as n doublings make *)
(* it, or as a maximum the user may choose, less the jitter, and never longer *)
(* than the maximum in force.                                                 *)
THEOREM BackoffKeepsPace == Spec => BackoffPaced
  <1> DEFINE Wait ==
        /\ timeout' <= cap
        /\ \E c \in Caps : timeout' >= Doubling(c) - Spread(Doubling(c))
  <1>1. ASSUME TypeOK, Paced, [Next]_vars, pc # "waiting", pc' = "waiting"
        PROVE  Wait
    <2>1. CountsTyped /\ cap \in Nat
      BY <1>1, Typing, Bounds DEF ClientTyped, CountsTyped
    <2>2. PICK c \in Caps : delay >= Doubling(c)
      BY <1>1 DEF Paced
    <2>3. Closed
      BY <1>1 DEF Next, Loop, Around, Start, Shutdown, Crash, Gone, Attempt, Install,
                  Subscribed, Greeted, AttemptFails, SessionEnds, WokenByAdvertisement,
                  WaitRunsOut, Advertise, LinkLost, LinkLossHeard, UserAsks, WatchdogAsks,
                  Ask, Dropped, WriteFails, StatusArrives, StatusAges, Update, ApplyOptions,
                  vars
    <2>4. timeout' \in Jittered(delay)
      BY <1>1, <2>3 DEF Closed
    <2> DEFINE bounded == Lesser(delay, cap)
    <2>5. /\ timeout' \in Nat /\ timeout' <= cap /\ bounded \in Nat
          /\ timeout' >= bounded - Spread(bounded)
      BY <2>1, <2>4, Jitter, Capping DEF CountsTyped
    <2>6. PICK d \in Caps : Doubling(d) <= bounded
      <3>1. CASE delay <= cap
        BY <2>2, <3>1 DEF Lesser
      <3>2. CASE ~(delay <= cap)
        BY <2>1, <3>2 DEF Lesser, Doubling, CountsTyped
      <3> QED
        BY <3>1, <3>2
    <2> HIDE DEF bounded
    <2>7. Doubling(d) \in Nat
      BY <2>1, Bounds, Capping DEF Doubling, CountsTyped
    <2>8. Doubling(d) - Spread(Doubling(d)) <= bounded - Spread(bounded)
      BY <2>5, <2>6, <2>7, SpreadMonotone
    <2>9. Spread(bounded) \in Nat /\ Spread(Doubling(d)) \in Nat
      BY <2>5, <2>7 DEF Spread
    <2>10. timeout' >= Doubling(d) - Spread(Doubling(d))
      BY <2>5, <2>7, <2>8, <2>9
    <2> QED
      BY <2>5, <2>10
  <1>2. TypeOK /\ Paced /\ [Next]_vars => [pc # "waiting" /\ pc' = "waiting" => Wait]_vars
    BY <1>1
  <1>3. Init => Paced
    BY Bounds DEF Init, Paced, Doubling, Lesser
  <1> QED
    BY <1>2, <1>3, PacedStep, InitTyped, TypeStep, PTL DEF Spec, BackoffPaced

-----------------------------------------------------------------------------
(* Repair issues. *)

(* An error of no route is that of an attempt without one, from its end to    *)
(* the next attempt that has one; so is the issue, which every way into a     *)
(* session or out of an attempt takes back otherwise.                         *)
RouteEarned ==
    /\ pc \in {"off", "greet", "session", "ending", "resting"} => lastError # "route"
    /\ pc \in {"closing", "waiting", "top"} /\ lastError = "route" => failures > 0
    /\ "route" \in manager.shown =>
           /\ pc \notin {"off", "session", "ending", "resting"}
           /\ pc \in {"waiting", "top"} => failures > 0

(* The manager counts no more resets than there were in silence. *)
WatchdogEarned ==
    /\ manager.baseline <= resets
    /\ resets - manager.baseline <= silent \/ silent = Persistence
    /\ "watchdog" \in manager.shown => silent = Persistence

(* The manager is told of the state a step leaves, or of nothing. *)
Shown == UNCHANGED repairs \/ Tells(connected', lastError', fresh')

LEMMA RouteStep == TypeOK /\ RouteEarned /\ [Next]_vars => RouteEarned'
  <1> SUFFICES ASSUME TypeOK, RouteEarned, [Next]_vars PROVE RouteEarned'
    OBVIOUS
  <1>1. TypeOK' /\ ClientTyped'
    BY TypeStep, ClientTypedStep
  <1>2. CASE Shutdown \/ Crash
    BY <1>2 DEF Shutdown, Crash, Gone, NewManager, RouteEarned
  <1>3. CASE Start
    BY <1>3 DEF Start, repairs, told, RouteEarned
  <1>4. CASE Attempt
    <2>1. Lesser(failures + 1, Persistence) > 0
      BY <1>1, Bounds DEF TypeOK, Lesser
    <2> QED
      BY <1>4, <2>1 DEF Attempt, RouteEarned
  <1>5. ASSUME [Loop \/ Around]_vars, ~Attempt PROVE Shown
    BY <1>1, <1>5, StepTells DEF Told, Shown
  <1>6. ASSUME Shown, pc' = pc, UNCHANGED failures, lastError' \in {lastError, "other"}
        PROVE  RouteEarned'
    BY <1>6 DEF Shown, Tells, repairs, RouteEarned
  <1>7. CASE Install \/ Subscribed
    BY <1>7 DEF Install, Subscribed, repairs, RouteEarned
  <1>8. CASE Greeted
    <2>1. pc = "greet" /\ pc' = "session" /\ UNCHANGED <<lastError, failures>>
      BY <1>8 DEF Greeted
    <2>2. Emit /\ UNCHANGED <<connected, fresh, resets>>
      BY <1>8 DEF Greeted, attempt
    <2>3. Tells(connected', lastError', fresh')
      BY <1>1, <2>2, EmitTells DEF ClientTyped, StateTyped
    <2> QED
      BY <2>1, <2>3 DEF Tells, RouteEarned
  <1>9. CASE AttemptFails
    BY <1>9 DEF AttemptFails, RouteEarned
  <1>10. CASE SessionEnds
    BY <1>10 DEF SessionEnds, repairs, told, RouteEarned
  <1>11. CASE Closed
    <2>1. /\ pc \in {"closing", "ending"} /\ UNCHANGED <<lastError, failures, fresh, resets>>
          /\ pc' \in {"top", "waiting"} \/ (pc = "ending" /\ pc' = "resting")
      BY <1>11 DEF Closed, told
    <2>2. Tells(connected', lastError', fresh')
      BY <1>1, <1>11, <2>1, EmitTells, EmitTwiceTells DEF Closed, ClientTyped, StateTyped
    <2> QED
      BY <2>1, <2>2 DEF Tells, RouteEarned
  <1>12. CASE WokenByAdvertisement \/ WaitRunsOut
    <2>1. /\ pc \in {"waiting", "resting"} /\ pc' \in {pc, "top"}
          /\ UNCHANGED <<manager, lastError, failures>>
      BY <1>12 DEF WokenByAdvertisement, WaitRunsOut, repairs, told
    <2> QED
      BY <2>1 DEF RouteEarned
  <1>13. ASSUME Around \/ UNCHANGED vars
         PROVE  pc' = pc /\ UNCHANGED failures /\ lastError' \in {lastError, "other"}
    BY <1>13 DEF Around, Advertise, LinkLost, LinkLossHeard, UserAsks, WatchdogAsks, Ask,
                 Dropped, WriteFails, StatusArrives, StatusAges, Update, ApplyOptions, vars,
                 told
  <1>14. CASE Around \/ UNCHANGED vars
    <2>1. pc' = pc /\ UNCHANGED failures /\ lastError' \in {lastError, "other"}
      BY <1>13, <1>14
    <2>2. ~Attempt
      BY <2>1 DEF Attempt
    <2> QED
      BY <1>5, <1>6, <1>14, <2>1, <2>2
  <1> QED
    BY <1>2, <1>3, <1>4, <1>7, <1>8, <1>9, <1>10, <1>11, <1>12, <1>14 DEF Next, Loop

LEMMA WatchdogStep == TypeOK /\ WatchdogEarned /\ [Next]_vars => WatchdogEarned'
  <1> SUFFICES ASSUME TypeOK, WatchdogEarned, [Next]_vars PROVE WatchdogEarned'
    OBVIOUS
  <1> USE Bounds
  <1>1. ClientTyped'
    BY ClientTypedStep
  <1>2. /\ resets \in Nat /\ silent \in 0..Persistence /\ manager.baseline \in Nat
    BY DEF TypeOK, Manager
  <1>3. CASE Shutdown \/ Crash
    BY <1>3 DEF Shutdown, Crash, Gone, NewManager, WatchdogEarned
  <1>4. CASE Start
    BY <1>4 DEF Start, repairs, told, WatchdogEarned
  <1>5. ASSUME NEW isConnected \in BOOLEAN, NEW error, NEW isFresh \in BOOLEAN,
               Tells(isConnected, error, isFresh), resets' = resets,
               silent' = silent \/ (isConnected /\ isFresh /\ silent' = 0)
        PROVE  WatchdogEarned'
    <2>1. CASE isConnected /\ isFresh
      BY <1>1, <1>2, <1>5, <2>1 DEF Tells, WatchdogEarned
    <2>2. CASE ~(isConnected /\ isFresh)
      BY <1>1, <1>2, <1>5, <2>2 DEF Tells, WatchdogEarned
    <2> QED
      BY <2>1, <2>2
  <1>6. CASE Attempt
    <2>1. Becomes(Evaluate(Repairs(manager, issues), connected, lastError, resets, fresh))
      BY <1>6 DEF Attempt
    <2>2. connected \in BOOLEAN /\ fresh \in BOOLEAN
      BY DEF TypeOK
    <2>3. Tells(connected, lastError, fresh)
      BY <2>1, <2>2, Telling
    <2> QED
      BY <1>5, <1>6, <2>2, <2>3 DEF Attempt
  <1>7. ASSUME [Loop \/ Around]_vars, ~Attempt, resets' = resets, silent' = silent
        PROVE  WatchdogEarned'
    <2>1. UNCHANGED repairs \/ Tells(connected', lastError', fresh')
      BY <1>1, <1>7, StepTells DEF Told
    <2>2. CASE UNCHANGED repairs
      BY <1>7, <2>2 DEF repairs, WatchdogEarned
    <2>3. CASE Tells(connected', lastError', fresh')
      BY <1>1, <1>5, <1>7, <2>3 DEF ClientTyped, StateTyped
    <2> QED
      BY <2>1, <2>2, <2>3
  <1>8. CASE Greeted \/ StatusArrives
    <2>1. Emit /\ Silence(silent) /\ resets' = resets
      BY <1>8 DEF Greeted, StatusArrives
    <2>2. connected' \in BOOLEAN /\ fresh' \in BOOLEAN
      BY <1>1 DEF ClientTyped, StateTyped
    <2>3. Tells(connected', lastError', fresh')
      BY <2>1, <2>2, EmitTells
    <2>4. silent' = silent \/ (connected' /\ fresh' /\ silent' = 0)
      BY <1>2, <2>1 DEF Silence, Lesser
    <2> QED
      BY <1>5, <2>1, <2>2, <2>3, <2>4
  <1>9. CASE WatchdogAsks
    <2>1. /\ resets' = resets + 1 /\ UNCHANGED <<manager, fresh>> /\ ~fresh
          /\ Silence(silent + 1)
      BY <1>9 DEF WatchdogAsks, Ask, repairs
    <2>2. silent' = Lesser(silent + 1, Persistence)
      BY <2>1 DEF Silence
    <2> QED
      BY <1>2, <2>1, <2>2 DEF Lesser, WatchdogEarned
  <1>10. ASSUME \/ Install \/ Subscribed \/ AttemptFails \/ SessionEnds \/ Closed
                \/ WokenByAdvertisement \/ WaitRunsOut \/ UserAsks \/ LinkLost \/ LinkLossHeard
                \/ Dropped \/ WriteFails \/ StatusAges \/ Update
                \/ (\E changed \in BOOLEAN : Advertise(changed))
                \/ (\E c \in Caps : ApplyOptions(c)) \/ UNCHANGED vars
         PROVE  UNCHANGED <<resets, silent>>
    BY <1>10 DEF Install, Subscribed, AttemptFails, SessionEnds, Closed, WokenByAdvertisement,
                 WaitRunsOut, UserAsks, LinkLost, LinkLossHeard, Dropped, WriteFails,
                 StatusAges, Update, Advertise, ApplyOptions, vars, told
  <1> QED
    BY <1>3, <1>4, <1>6, <1>7, <1>8, <1>9, <1>10 DEF Next, Loop, Around

(* IssuesEarned: a no-route issue is held neither against a session nor        *)
(* between attempts of which the last one had a route, and a watchdog issue    *)
(* only after three resets without fresh status in between.                    *)
THEOREM IssuesAreEarned == Spec => []IssuesEarned
  <1>1. Init => RouteEarned /\ WatchdogEarned
    BY Bounds DEF Init, NewManager, RouteEarned, WatchdogEarned
  <1>2. TypeOK /\ RouteEarned /\ WatchdogEarned => IssuesEarned
    BY Bounds DEF TypeOK, RouteEarned, WatchdogEarned, IssuesEarned
  <1> QED
    BY <1>1, <1>2, RouteStep, WatchdogStep, InitTyped, TypeStep, PTL DEF Spec

-----------------------------------------------------------------------------
(* Lost sessions. *)

(* A session that has lost its link or its client has been asked to end, or   *)
(* the callback that asks is queued.                                          *)
LossOnItsWay == pc = "session" /\ ~(active /\ link) => asked \/ queued # None

(* Who drops the client inside a session has asked for its end, and only the  *)
(* next attempt forgets that.                                                 *)
Requested ==
    /\ pc \in {"notify", "greet", "session"} /\ dropping # "no" => asked
    /\ LossOnItsWay

LEMMA RequestedStep == TypeOK /\ Requested /\ [Next]_vars => Requested'
  <1> SUFFICES ASSUME TypeOK, Requested, [Next]_vars PROVE Requested'
    OBVIOUS
  <1>1. CASE pc' \notin {"notify", "greet", "session"}
    BY <1>1 DEF Requested, LossOnItsWay
  <1>2. CASE UNCHANGED <<pc, active, link, dropping, asked, queued>>
    BY <1>2 DEF Requested, LossOnItsWay
  <1>3. CASE asked'
    BY <1>3 DEF Requested, LossOnItsWay
  <1>4. CASE Install
    BY <1>4 DEF Install, Requested, LossOnItsWay
  <1>5. CASE Subscribed
    BY <1>5 DEF Subscribed, Requested, LossOnItsWay, retry
  <1>6. CASE Greeted
    BY <1>6 DEF Greeted, Requested, LossOnItsWay, attempt, retry
  <1>7. CASE LinkLost
    <2>1. queued' # None \/ ~active
      BY <1>7, Bounds DEF LinkLost, TypeOK, None
    <2> QED
      BY <1>7, <2>1 DEF LinkLost, Requested, LossOnItsWay
  <1>8. CASE Dropped
    BY <1>8 DEF Dropped, Requested, LossOnItsWay, retry
  <1>9. CASE LinkLossHeard \/ UserAsks \/ WatchdogAsks \/ WriteFails
    BY <1>3, <1>9 DEF LinkLossHeard, UserAsks, WatchdogAsks, Ask, WriteFails
  <1>10. CASE \/ Start \/ Shutdown \/ Crash \/ Attempt \/ AttemptFails \/ SessionEnds
              \/ Closed \/ WaitRunsOut
    BY <1>1, <1>10 DEF Start, Shutdown, Crash, Gone, Attempt, AttemptFails, SessionEnds,
                       Closed, WaitRunsOut
  <1>11. CASE WokenByAdvertisement
    BY <1>1, <1>11 DEF WokenByAdvertisement
  <1>12. CASE \/ (\E changed \in BOOLEAN : Advertise(changed)) \/ StatusArrives \/ StatusAges
              \/ Update \/ (\E c \in Caps : ApplyOptions(c)) \/ UNCHANGED vars
    BY <1>2, <1>12 DEF Advertise, StatusArrives, StatusAges, Update, ApplyOptions, vars,
                       attempt, retry
  <1> QED
    BY <1>4, <1>5, <1>6, <1>7, <1>8, <1>9, <1>10, <1>11, <1>12 DEF Next, Loop, Around

(* The connection loop never waits in a session whose link or client is gone  *)
(* without having been asked to end it, or the request being on its way,      *)
(* however link losses, buttons, the watchdog and the clean-up of earlier     *)
(* sessions interleave (_make_disconnected_callback, async_reconnect and the  *)
(* wait of _connection_loop).                                                 *)
THEOREM LossIsNoticed == Spec => []LossOnItsWay
  <1>1. Init => Requested
    BY DEF Init, Requested, LossOnItsWay
  <1>2. Requested => LossOnItsWay
    BY DEF Requested
  <1> QED
    BY <1>1, <1>2, RequestedStep, InitTyped, TypeStep, PTL DEF Spec
=============================================================================
