------------------------ MODULE EntryLifecycleProofs ------------------------
(***************************************************************************)
(* Theorems about EntryLifecycle.  Two inductive invariants carry them:     *)
(* Owned says what is left of client, subscription, listener and runtime at *)
(* each await, and Residue what platforms may be left where a start is      *)
(* possible.                                                                *)
(***************************************************************************)
EXTENDS EntryLifecycle, TLAPS

(* What is left of the client where. *)
Owned ==
    /\ pc = "idle" => state \notin {"setup_in_progress", "unload_in_progress"}
    /\ pc \in {"waiting", "forwarding", "partial", "stopping"} =>
         state = "setup_in_progress"
    /\ pc \in {"unloading", "releasing"} => state = "unload_in_progress"
    /\ pc # "idle" \/ state = "loaded" => clients = 1 /\ adverts = 1 /\ listening
    /\ state = "failed_unload" => clients <= 1 /\ adverts <= 1
    /\ state \in {"not_loaded", "setup_retry", "setup_error"} =>
         clients = 0 /\ adverts = 0 /\ ~runtime /\ ~listening
    /\ retry => state = "setup_retry"
    /\ pc = "stopping" => after \in {"again", "setup_retry", "setup_error"}
    /\ pc = "partial" => after \in {"setup_retry", "setup_error"}

(* Where a start may follow, platforms that were not unloaded are latched; a
   setup or unload under way is never latched before its clean-up. *)
Residue ==
    /\ pc \in {"waiting", "forwarding", "stopping", "releasing"}
         \/ state \in {"not_loaded", "setup_retry", "setup_error"} =>
         latch \/ platforms = "none"
    /\ pc \in {"waiting", "forwarding", "partial", "unloading", "releasing"}
         \/ state = "loaded" \/ (pc = "stopping" /\ after = "again") => ~latch

-----------------------------------------------------------------------------
(* Types and ownership, which need each other: a count is a natural number
   because whoever releases owns. *)

(* Scheduling a reload takes the retry away. *)
LEMMA ScheduleType ==
  ASSUME TypeOK, Schedule
  PROVE  reloads' \in Nat /\ retry' \in BOOLEAN /\ ~retry'
<1>1. reloads' \in Nat
  BY DEF TypeOK, Schedule
<1>2. QED  BY <1>1 DEF Schedule

(* They hold at first. *)
LEMMA InitOwned == Init => TypeOK /\ Owned
<1> SUFFICES ASSUME Init  PROVE TypeOK /\ Owned
  OBVIOUS
<1>1. data \in Data /\ base \in Data
  BY DEF Init, Data
<1>2. flow \in [Flows -> Dialogs]
  BY DEF Init, Dialogs
<1>3. TypeOK
  BY <1>1, <1>2 DEF Init, TypeOK, States, Awaits
<1>4. QED  BY <1>3 DEF Init, Owned

(* An update of the entry keeps them. *)
LEMMA UpdateOwned ==
  ASSUME TypeOK, Owned, NEW d \in Data, NEW o \in Options, NEW b \in Data,
         Update(d, o, b), flow' \in [Flows -> Dialogs]
  PROVE  TypeOK' /\ Owned'
<1>1. /\ reloads' \in Nat /\ retry' \in BOOLEAN /\ reloadPending' \in BOOLEAN
      /\ applied' \in Options /\ issue' \in BOOLEAN /\ (retry' => retry)
  <2>1. CASE UNCHANGED Notice
    BY <2>1 DEF TypeOK, Notice
  <2>2. CASE Listener(d, o, b)
    <3>1. CASE Schedule
      <4>1. /\ reloadPending' \in BOOLEAN /\ applied' \in Options
            /\ issue' \in BOOLEAN
        BY <2>2 DEF TypeOK, Listener, Notice, RestartOnly
      <4>2. QED  BY <3>1, <4>1, ScheduleType
    <3>2. CASE ~Schedule
      <4>1. UNCHANGED <<reloads, retry>>
        BY <2>2, <3>2 DEF Listener, Notice
      <4>2. /\ reloadPending' \in BOOLEAN /\ applied' \in Options
            /\ issue' \in BOOLEAN
        BY <2>2, <3>2 DEF TypeOK, Listener, Notice, RestartOnly
      <4>3. QED  BY <4>1, <4>2 DEF TypeOK
    <3>3. QED  BY <3>1, <3>2
  <2>3. QED  BY <2>1, <2>2 DEF Update
<1>2. QED  BY <1>1 DEF TypeOK, Owned, Update

(* So does the head of a setup that no client is left for. *)
LEMMA SetupOwned ==
  ASSUME TypeOK, Owned, NEW c, NEW a, c = 0, a = 0, Setup(c, a),
         runtime' = FALSE, reloadPending' \in BOOLEAN, reloads' \in Nat,
         UNCHANGED <<stored, platforms, latch, flow>>
  PROVE  TypeOK' /\ Owned'
<1>1. CASE SetupBlocked /\ state' = "setup_error" /\ pc' = "idle" /\ after' = "none"
           /\ issue' = TRUE /\ retry' = FALSE /\ listening' = FALSE
           /\ clients' = c /\ adverts' = a
           /\ UNCHANGED <<base, applied>>
  BY <1>1 DEF TypeOK, Owned, States, Awaits, stored
<1>2. CASE Iterate(c, a) /\ UNCHANGED issue
  <2>1. TypeOK'
    <3>1. clients' \in Nat /\ adverts' \in Nat
      BY <1>2 DEF Iterate
    <3>2. QED  BY <1>2, <3>1 DEF TypeOK, Iterate, States, Awaits, stored
  <2>2. Owned'
    BY <1>2 DEF Owned, Iterate
  <2>3. QED  BY <2>1, <2>2
<1>3. QED  BY <1>1, <1>2 DEF Setup, SetupBlocked

(* One step per action. *)
LEMMA OwnedStep == TypeOK /\ Owned /\ [Next]_vars => TypeOK' /\ Owned'
<1> SUFFICES ASSUME TypeOK, Owned, [Next]_vars  PROVE TypeOK' /\ Owned'
  OBVIOUS
<1> USE DEF core, stored, client, entry, blocking
<1>1. CASE Start
  <2>1. clients = 0 /\ adverts = 0 /\ ~runtime
    BY <1>1 DEF Start, Owned
  <2>2. /\ Setup(clients, adverts)
        /\ runtime' = FALSE /\ reloadPending' \in BOOLEAN /\ reloads' \in Nat
        /\ UNCHANGED <<stored, platforms, latch, flow>>
    BY <1>1, <2>1 DEF Start, TypeOK
  <2>3. QED  BY <2>1, <2>2, SetupOwned
<1>2. CASE Ready
  <2>1. TypeOK'
    <3>1. data' \in Data /\ base' \in Data
      BY <1>2 DEF Ready, TypeOK, Data
    <3>2. /\ runtime' \in BOOLEAN /\ reloadPending' \in BOOLEAN /\ pc' \in Awaits
          /\ after' \in {"none", "again", "setup", "setup_retry", "setup_error"}
          /\ applied' \in Options
      BY <1>2 DEF Ready, TypeOK, Awaits
    <3>3. QED  BY <1>2, <3>1, <3>2 DEF Ready, TypeOK
  <2>2. Owned'
    BY <1>2 DEF Ready, Owned
  <2>3. QED  BY <2>1, <2>2
<1>3. CASE NotReady
  BY <1>3 DEF NotReady, TypeOK, Owned, Awaits
<1>4. CASE Forwarded
  BY <1>4 DEF Forwarded, TypeOK, Owned, Awaits, States
<1>5. CASE ForwardFails
  BY <1>5 DEF ForwardFails, TypeOK, Owned, Awaits
<1>6. CASE CleanPlatforms
  BY <1>6 DEF CleanPlatforms, TypeOK, Owned, Awaits
<1>7. CASE Stopped
  <2>1. clients - 1 = 0 /\ Unsubscribed = 0
    BY <1>7 DEF Stopped, Unsubscribed, Owned
  <2>2. CASE after = "again" /\ Iterate(clients - 1, Unsubscribed)
    <3>1. TypeOK'
      <4>1. clients' \in Nat /\ adverts' \in Nat
        BY <2>1, <2>2 DEF Iterate
      <4>2. QED  BY <1>7, <2>2, <4>1 DEF Stopped, Iterate, TypeOK, Awaits, States
    <3>2. Owned'
      BY <1>7, <2>1, <2>2 DEF Stopped, Iterate, Owned
    <3>3. QED  BY <3>1, <3>2
  <2>3. CASE ~(after = "again" /\ Iterate(clients - 1, Unsubscribed))
    <3>1. TypeOK'
      <4>1. clients' \in Nat /\ adverts' \in Nat
        BY <1>7, <2>1, <2>3 DEF Stopped
      <4>2. state' \in States /\ retry' \in BOOLEAN /\ listening' \in BOOLEAN
        BY <1>7, <2>3 DEF Stopped, Owned, States
      <4>3. QED  BY <1>7, <2>3, <4>1, <4>2 DEF Stopped, TypeOK, Awaits
    <3>2. Owned'
      BY <1>7, <2>1, <2>3 DEF Stopped, Owned
    <3>3. QED  BY <3>1, <3>2
  <2>4. QED  BY <2>2, <2>3
<1>8. CASE Unload
  <2>1. TypeOK'
    BY <1>8 DEF Unload, UnloadBegins, TypeOK, Awaits, States
  <2>2. Owned'
    BY <1>8 DEF Unload, UnloadBegins, Owned
  <2>3. QED  BY <2>1, <2>2
<1>9. CASE Reload
  <2>1. reloads' \in Nat
    BY <1>9 DEF Reload, ReloadDue, TypeOK
  <2>2. CASE state = "loaded" /\ UnloadBegins("setup")
    BY <1>9, <2>1, <2>2 DEF Reload, ReloadDue, UnloadBegins, TypeOK, Owned, Awaits, States
  <2>3. CASE state = "failed_unload"
    BY <1>9, <2>1, <2>3 DEF Reload, ReloadDue, UnloadBegins, TypeOK, Owned, Awaits, States
  <2>4. CASE state \in {"not_loaded", "setup_retry", "setup_error"}
    <3>1. clients = 0 /\ adverts = 0 /\ ~runtime
      BY <2>4 DEF Owned
    <3>2. /\ Setup(clients, adverts)
          /\ runtime' = FALSE /\ reloadPending' \in BOOLEAN
          /\ UNCHANGED <<stored, platforms, latch, flow>>
      BY <1>9, <2>4, <3>1 DEF Reload, TypeOK
    <3>3. QED  BY <2>1, <3>1, <3>2, SetupOwned
  <2>5. QED  BY <1>9, <2>2, <2>3, <2>4 DEF Reload
<1>10. CASE PlatformsUnloaded
  <2>1. TypeOK'
    BY <1>10 DEF PlatformsUnloaded, UnloadFails, TypeOK, Awaits, States
  <2>2. Owned'
    BY <1>10 DEF PlatformsUnloaded, UnloadFails, Owned
  <2>3. QED  BY <2>1, <2>2
<1>11. CASE Released
  <2>1. clients - 1 = 0 /\ adverts - 1 = 0
    BY <1>11 DEF Released, Owned
  <2>2. CASE Setup(clients - 1, adverts - 1) /\ runtime' = FALSE /\ reloadPending' = FALSE
    <3>1. reloads' \in Nat /\ UNCHANGED <<stored, platforms, latch, flow>>
      BY <1>11 DEF Released, TypeOK
    <3>2. QED  BY <2>1, <2>2, <3>1, SetupOwned
  <2>3. CASE /\ state' \in {"not_loaded", "failed_unload"} /\ pc' = "idle"
             /\ clients' = clients - 1 /\ adverts' \in {adverts, adverts - 1}
             /\ state' = "not_loaded" =>
                  adverts' = adverts - 1 /\ listening' = FALSE /\ runtime' = FALSE
             /\ listening' \in {listening, FALSE}
             /\ runtime' \in {runtime, FALSE}
             /\ reloadPending' \in {reloadPending, FALSE}
             /\ issue' \in {issue, TRUE}
             /\ after' \in {after, "none"}
             /\ UNCHANGED <<retry, base, applied>>
    <3>1. adverts = 1 /\ clients' = 0 /\ adverts' \in {0, 1}
      BY <1>11, <2>1, <2>3 DEF Released, Owned
    <3>2. UNCHANGED <<reloads, stored, platforms, latch, flow>>
      BY <1>11 DEF Released
    <3>3. TypeOK'
      <4>1. /\ listening' \in BOOLEAN /\ runtime' \in BOOLEAN
            /\ reloadPending' \in BOOLEAN /\ issue' \in BOOLEAN
            /\ after' \in {"none", "again", "setup", "setup_retry", "setup_error"}
        BY <2>3 DEF TypeOK
      <4>2. state' \in States /\ pc' \in Awaits /\ clients' \in Nat /\ adverts' \in Nat
        BY <2>3, <3>1 DEF Awaits, States
      <4>3. QED  BY <2>3, <3>2, <4>1, <4>2 DEF TypeOK
    <3>4. Owned'
      BY <1>11, <2>1, <2>3, <3>1 DEF Released, Owned
    <3>5. QED  BY <3>3, <3>4
  <2>4. QED  BY <1>11, <2>2, <2>3 DEF Released, UnloadFails
<1>12. CASE Restart
  BY <1>12 DEF Restart, Persisted, Dialogs, TypeOK, Owned, Awaits, States
<1>13. CASE Learn
  <2>1. [data EXCEPT !.identity = base.config] \in Data
        /\ [base EXCEPT !.identity = base.config] \in Data
    BY DEF TypeOK, Data
  <2>2. QED  BY <1>13, <2>1, UpdateOwned DEF Learn, TypeOK
<1>14. CASE SaveOptions
  BY <1>14, UpdateOwned DEF SaveOptions, TypeOK
<1>15. CASE AskReload
  <2>1. TypeOK'
    BY <1>15, ScheduleType DEF AskReload, TypeOK
  <2>2. Owned'
    BY <1>15 DEF AskReload, Schedule, Owned
  <2>3. QED  BY <2>1, <2>2
<1>16. ASSUME NEW f \in Flows, Probe(f)  PROVE TypeOK' /\ Owned'
  BY <1>16 DEF Probe, TypeOK, Owned, Data, Dialogs
<1>17. ASSUME NEW f \in Flows, ProbeFails(f)  PROVE TypeOK' /\ Owned'
  BY <1>17 DEF ProbeFails, TypeOK, Owned, Dialogs, RestartOnly
<1>18. ASSUME NEW f \in Flows, Reconfigure(f)  PROVE TypeOK' /\ Owned'
  <2>1. flow[f] \in [current : Configs, target : Configs, transition : BOOLEAN]
        /\ flow' \in [Flows -> Dialogs]
    BY <1>18 DEF Reconfigure, TypeOK, Dialogs
  <2>2. PICK i \in NextIdentity(f) :
          LET d == [config |-> flow[f].target, identity |-> i,
                    pending |-> data.pending \/ flow[f].transition]
          IN \/ Update(d, options, base)
             \/ /\ data' = d /\ Schedule
                /\ UNCHANGED <<state, pc, after, options, client, entry, blocking>>
    BY <1>18 DEF Reconfigure
  <2> DEFINE d == [config |-> flow[f].target, identity |-> i,
                   pending |-> data.pending \/ flow[f].transition]
  <2>3. d \in Data
    BY <2>1, <2>2 DEF NextIdentity, TypeOK, Data
  <2>4. CASE Update(d, options, base)
    BY <2>1, <2>3, <2>4, UpdateOwned DEF TypeOK
  <2>5. CASE /\ data' = d /\ Schedule
             /\ UNCHANGED <<state, pc, after, options, client, entry, blocking>>
    <3>1. TypeOK'
      BY <2>1, <2>3, <2>5, ScheduleType DEF TypeOK
    <3>2. Owned'
      BY <2>5 DEF Owned, Schedule
    <3>3. QED  BY <3>1, <3>2
  <2>6. QED  BY <2>2, <2>4, <2>5
<1>19. CASE UNCHANGED vars
  BY <1>19 DEF vars, TypeOK, Owned
<1>20. QED
  BY <1>1, <1>2, <1>3, <1>4, <1>5, <1>6, <1>7, <1>8, <1>9, <1>10, <1>11, <1>12,
     <1>13, <1>14, <1>15, <1>16, <1>17, <1>18, <1>19 DEF Next

(* The entry's variables have their types: nothing is ever released twice. *)
THEOREM EntryTypeCorrect == Spec => []TypeOK
<1>1. TypeOK /\ Owned /\ [Next]_vars => (TypeOK /\ Owned)'
  BY OwnedStep
<1>2. QED  BY InitOwned, <1>1, PTL DEF Spec

(* Hence always. *)
LEMMA OwnedAlways == Spec => [](TypeOK /\ Owned)
<1>1. TypeOK /\ Owned /\ [Next]_vars => (TypeOK /\ Owned)'
  BY OwnedStep
<1>2. QED  BY InitOwned, <1>1, PTL DEF Spec

(* Never two clients of an entry, and none, nor a subscription, a listener or a
   runtime, once a setup or unload has ended otherwise than loaded or failed:
   whatever failed on the way, in the setup, its clean-up or the unload. *)
THEOREM OneClient == Spec => []ClientOwned
<1>1. TypeOK /\ Owned => ClientOwned
  <2> SUFFICES ASSUME TypeOK, Owned  PROVE ClientOwned
    OBVIOUS
  <2>1. clients <= 1 /\ adverts <= 1
    <3>1. CASE pc # "idle" \/ state = "loaded"
      BY <3>1 DEF Owned
    <3>2. CASE state = "failed_unload"
      BY <3>2 DEF Owned
    <3>3. CASE state \in {"not_loaded", "setup_retry", "setup_error"}
      BY <3>3 DEF Owned
    <3>4. QED  BY <3>1, <3>2, <3>3 DEF TypeOK, Owned, States
  <2>2. QED  BY <2>1 DEF ClientOwned, Owned
<1>2. QED  BY OwnedAlways, <1>1, PTL

-----------------------------------------------------------------------------
(* What a failed unload or clean-up leaves behind. *)

(* Nothing is left at first. *)
LEMMA ResidueInit == Init => Residue
  BY DEF Init, Residue

(* No step leaves platforms unlatched where a start may follow. *)
LEMMA ResidueStep == TypeOK /\ Owned /\ Residue /\ [Next]_vars => Residue'
<1> SUFFICES ASSUME TypeOK, Owned, Residue, [Next]_vars  PROVE Residue'
  OBVIOUS
<1> USE DEF core, stored, client, entry, blocking
<1>1. CASE Start
  BY <1>1 DEF Start, Setup, SetupBlocked, Iterate, Residue, Owned
<1>2. CASE Ready \/ NotReady
  BY <1>2 DEF Ready, NotReady, Residue, Owned
<1>3. CASE Forwarded \/ ForwardFails \/ CleanPlatforms
  BY <1>3 DEF Forwarded, ForwardFails, CleanPlatforms, Residue, Owned
<1>4. CASE Stopped
  BY <1>4 DEF Stopped, Iterate, Residue, Owned
<1>5. CASE Unload
  BY <1>5 DEF Unload, UnloadBegins, Residue, Owned
<1>6. CASE Reload
  BY <1>6 DEF Reload, ReloadDue, UnloadBegins, Setup, SetupBlocked, Iterate, Residue, Owned
<1>7. CASE PlatformsUnloaded
  BY <1>7 DEF PlatformsUnloaded, UnloadFails, Residue, Owned
<1>8. CASE Released
  BY <1>8 DEF Released, UnloadFails, Setup, SetupBlocked, Iterate, Residue, Owned
<1>9. CASE Restart
  BY <1>9 DEF Restart, Residue
<1>10. CASE UNCHANGED <<state, pc, after, latch, platforms>>
  BY <1>10 DEF Residue
<1>11. CASE Learn \/ SaveOptions \/ AskReload
  <2>1. UNCHANGED <<state, pc, after, latch, platforms>>
    BY <1>11 DEF Learn, SaveOptions, AskReload, Update
  <2>2. QED  BY <2>1, <1>10
<1>12. ASSUME NEW f \in Flows, Probe(f) \/ ProbeFails(f) \/ Reconfigure(f)
       PROVE  Residue'
  <2>1. UNCHANGED <<state, pc, after, latch, platforms>>
    BY <1>12 DEF Probe, ProbeFails, Reconfigure, Update
  <2>2. QED  BY <2>1, <1>10
<1>13. QED
  BY <1>1, <1>2, <1>3, <1>4, <1>5, <1>6, <1>7, <1>8, <1>9, <1>10, <1>11, <1>12
  DEF Next, vars

(* Hence always. *)
LEMMA ResidueAlways == Spec => [](TypeOK /\ Owned /\ Residue)
<1>1. TypeOK /\ Owned /\ Residue /\ [Next]_vars => (TypeOK /\ Owned /\ Residue)'
  BY OwnedStep, ResidueStep
<1>2. QED  BY InitOwned, ResidueInit, <1>1, PTL DEF Spec

(* No client is started while platforms of an earlier runtime may be loaded or
   a restart is required. *)
THEOREM StartsClean == Spec => CleanStart
<1>1. TypeOK /\ Owned /\ Residue /\ [Next]_vars =>
        [clients' > clients => platforms = "none" /\ ~RestartOnly]_vars
  <2> SUFFICES ASSUME TypeOK, Owned, Residue, Next, clients' > clients
      PROVE  platforms = "none" /\ ~RestartOnly
    OBVIOUS
  <2> USE DEF core, stored, client, entry, blocking
  <2>1. CASE Start \/ Reload
    <3>1. state \in {"not_loaded", "setup_retry", "setup_error"} /\ Setup(clients, adverts)
      BY <2>1 DEF Start, Reload, UnloadBegins, Owned, TypeOK
    <3>2. ~latch
      BY <3>1 DEF Setup, SetupBlocked, TypeOK
    <3>3. QED  BY <3>1, <3>2 DEF Residue, RestartOnly
  <2>2. CASE Stopped \/ Released
    <3>1. clients' \in {clients - 1, clients - 1 + 1}
      BY <2>2 DEF Stopped, Released, Setup, Iterate
    <3>2. QED  BY <3>1 DEF TypeOK
  <2>3. CASE Ready \/ NotReady \/ Forwarded \/ ForwardFails \/ CleanPlatforms
             \/ Unload \/ PlatformsUnloaded \/ AskReload
    BY <2>3 DEF Ready, NotReady, Forwarded, ForwardFails, CleanPlatforms, Unload,
                UnloadBegins, PlatformsUnloaded, AskReload, TypeOK
  <2>4. CASE Restart
    BY <2>4 DEF Restart, TypeOK
  <2>5. CASE Learn \/ SaveOptions
    BY <2>5 DEF Learn, SaveOptions, Update, TypeOK
  <2>6. ASSUME NEW f \in Flows, Probe(f) \/ ProbeFails(f) \/ Reconfigure(f)
        PROVE  FALSE
    <3>1. clients' = clients
      BY <2>6 DEF Probe, ProbeFails, Reconfigure, Update
    <3>2. QED  BY <3>1 DEF TypeOK
  <2>7. QED  BY <2>1, <2>2, <2>3, <2>4, <2>5, <2>6 DEF Next
<1>2. QED  BY ResidueAlways, <1>1, PTL DEF Spec, CleanStart

-----------------------------------------------------------------------------
(* Reports. *)

(* Nothing is to be reported at first. *)
LEMMA ReportInit == Init => RestartReported
  BY DEF Init, RestartReported, RestartOnly

(* An update of the entry may raise the report and never withdraws it. *)
LEMMA UpdateReports ==
  ASSUME TypeOK, RestartReported, NEW d, NEW o, NEW b, Update(d, o, b)
  PROVE  RestartReported' /\ (issue => issue')
<1>1. issue => issue'
  <2>1. CASE UNCHANGED Notice
    BY <2>1 DEF Notice
  <2>2. CASE Listener(d, o, b)
    BY <2>2 DEF Listener, Notice
  <2>3. QED  BY <2>1, <2>2 DEF Update
<1>2. QED  BY <1>1 DEF Update, RestartReported, RestartOnly

(* Every step that makes a restart necessary reports it, and only Forwarded
   withdraws the report. *)
LEMMA ReportStep ==
  TypeOK /\ Owned /\ Residue /\ RestartReported /\ [Next]_vars =>
    /\ RestartReported'
    /\ issue /\ ~issue' => state' = "loaded" /\ ~RestartOnly
<1> SUFFICES ASSUME TypeOK, Owned, Residue, RestartReported, [Next]_vars
    PROVE  /\ RestartReported'
           /\ issue /\ ~issue' => state' = "loaded" /\ ~RestartOnly
  OBVIOUS
<1> USE DEF core, stored, client, entry, blocking, RestartReported, RestartOnly
<1>1. CASE Start
  BY <1>1 DEF Start, Setup, SetupBlocked, Iterate, Owned
<1>2. CASE Forwarded
  BY <1>2 DEF Forwarded, Owned, Residue
<1>3. CASE Ready \/ NotReady \/ ForwardFails \/ CleanPlatforms
  BY <1>3 DEF Ready, NotReady, ForwardFails, CleanPlatforms
<1>4. CASE Stopped
  BY <1>4 DEF Stopped, Iterate, Owned
<1>5. CASE Unload
  BY <1>5 DEF Unload, UnloadBegins
<1>6. CASE Reload
  BY <1>6 DEF Reload, UnloadBegins, Setup, SetupBlocked, Iterate, Owned
<1>7. CASE PlatformsUnloaded
  BY <1>7 DEF PlatformsUnloaded, UnloadFails
<1>8. CASE Released
  BY <1>8 DEF Released, Setup, SetupBlocked, Iterate, UnloadFails, Owned
<1>9. CASE Restart
  BY <1>9 DEF Restart, Persisted
<1>10. CASE AskReload
  BY <1>10 DEF AskReload
<1>11. CASE Learn \/ SaveOptions
  BY <1>11, UpdateReports DEF Learn, SaveOptions
<1>12. ASSUME NEW f \in Flows, Probe(f) \/ ProbeFails(f)
       PROVE  RestartReported' /\ (issue => issue')
  <2>1. UNCHANGED <<state, latch>> /\ (issue => issue') /\ (RestartOnly => issue \/ issue')
    BY <1>12 DEF Probe, ProbeFails
  <2>2. QED  BY <2>1
<1>13. ASSUME NEW f \in Flows, Reconfigure(f)
       PROVE  RestartReported' /\ (issue => issue')
  <2>1. CASE \E d : Update(d, options, base)
    BY <2>1, UpdateReports
  <2>2. CASE UNCHANGED <<state, latch, issue>>
    BY <2>2
  <2>3. QED  BY <1>13, <2>1, <2>2 DEF Reconfigure
<1>14. CASE UNCHANGED vars
  BY <1>14 DEF vars
<1>15. QED
  BY <1>1, <1>2, <1>3, <1>4, <1>5, <1>6, <1>7, <1>8, <1>9, <1>10, <1>11, <1>12,
     <1>13, <1>14 DEF Next

(* Hence always. *)
LEMMA ReportAlways == Spec => [](TypeOK /\ Owned /\ Residue /\ RestartReported)
<1>1. TypeOK /\ Owned /\ Residue /\ RestartReported /\ [Next]_vars =>
        (TypeOK /\ Owned /\ Residue /\ RestartReported)'
  BY OwnedStep, ResidueStep, ReportStep
<1>2. QED  BY InitOwned, ResidueInit, ReportInit, <1>1, PTL DEF Spec

(* A state that only a restart of Home Assistant can end is always reported. *)
THEOREM AlwaysReported == Spec => []RestartReported
  BY ReportAlways, PTL

(* The report goes only with a successful setup that had nothing latched. *)
THEOREM ReportStays == Spec => ReportKept
<1>1. TypeOK /\ Owned /\ Residue /\ RestartReported /\ [Next]_vars =>
        [issue /\ ~issue' => state' = "loaded" /\ ~RestartOnly]_vars
  BY ReportStep
<1>2. QED  BY ReportAlways, <1>1, PTL DEF Spec, ReportKept

-----------------------------------------------------------------------------
(* A runtime that may be used is current. *)

(* There is no runtime at first. *)
LEMMA CurrentInit == Init => RuntimeCurrent
  BY DEF Init, RuntimeCurrent

(* An update is noticed by the listener of any runtime that may be used; the
   client's own update moves the baseline with it. *)
LEMMA UpdateCurrent ==
  ASSUME TypeOK, Owned, RuntimeCurrent, NEW d, NEW o, NEW b, Update(d, o, b),
         b = base \/ (data = base /\ d = b)
  PROVE  RuntimeCurrent'
<1> SUFFICES ASSUME runtime, ~Blocked  PROVE RuntimeCurrent'
  BY DEF Update, RuntimeCurrent, Blocked, RestartOnly
<1>1. listening
  BY DEF Owned, TypeOK, Blocked, RestartOnly, States
<1>2. /\ data' = d /\ options' = o /\ base' = b
      /\ UNCHANGED <<state, latch, runtime>>
  BY DEF Update
<1>3. CASE <<d, o>> = stored
  <2>1. UNCHANGED <<data, options, base, applied, reloads, reloadPending>>
    BY <1>2, <1>3 DEF Update, Notice, stored
  <2>2. QED  BY <1>2, <2>1 DEF RuntimeCurrent, Blocked, RestartOnly
<1>4. CASE Listener(d, o, b)
  <2>1. CASE reloadPending
    <3>1. UNCHANGED <<reloads, reloadPending>>
      BY <1>4, <2>1 DEF Listener, Notice
    <3>2. QED  BY <2>1, <3>1 DEF RuntimeCurrent
  <2>2. CASE ~reloadPending /\ d # b
    <3>1. reloads' > 0 /\ reloadPending'
      BY <1>4, <2>2 DEF Listener, Schedule, TypeOK
    <3>2. QED  BY <3>1 DEF RuntimeCurrent
  <2>3. CASE ~reloadPending /\ d = b
    <3>1. applied' = o /\ ~reloadPending'
      BY <1>4, <2>3 DEF Listener
    <3>2. QED  BY <1>2, <2>3, <3>1 DEF RuntimeCurrent
  <2>4. QED  BY <2>1, <2>2, <2>3
<1>5. QED  BY <1>1, <1>3, <1>4 DEF Update

(* One step per action. *)
LEMMA CurrentStep ==
  TypeOK /\ Owned /\ Residue /\ RuntimeCurrent /\ [Next]_vars => RuntimeCurrent'
<1> SUFFICES ASSUME TypeOK, Owned, Residue, RuntimeCurrent, [Next]_vars
    PROVE  RuntimeCurrent'
  OBVIOUS
<1> USE DEF core, stored, client, entry, blocking
<1>1. CASE ~runtime'
  BY <1>1 DEF RuntimeCurrent
<1>2. CASE state' \in {"unload_in_progress", "failed_unload"}
  BY <1>2 DEF RuntimeCurrent, Blocked, RestartOnly
<1>3. CASE UNCHANGED <<state, latch, runtime, reloadPending, reloads, data, base,
                       options, applied>>
  BY <1>3 DEF RuntimeCurrent, Blocked, RestartOnly
<1>4. CASE Start
  <2>1. ~runtime'
    BY <1>4 DEF Start, Owned
  <2>2. QED  BY <2>1, <1>1
<1>5. CASE Ready
  <2>1. /\ applied' = options
        /\ UNCHANGED <<state, latch, reloads, options>>
    BY <1>5 DEF Ready
  <2>2. CASE UNCHANGED <<data, base, runtime, reloadPending>>
    BY <2>1, <2>2 DEF RuntimeCurrent, Blocked, RestartOnly
  <2>3. CASE ~Changed /\ data' = [data EXCEPT !.pending = FALSE]
             /\ base' = [base EXCEPT !.pending = FALSE] /\ ~reloadPending'
    BY <2>1, <2>3 DEF Changed, RuntimeCurrent
  <2>4. QED  BY <1>5, <2>2, <2>3 DEF Ready
<1>6. CASE NotReady
  BY <1>6, <1>3 DEF NotReady
<1>7. CASE Forwarded
  BY <1>7 DEF Forwarded, RuntimeCurrent, Blocked, RestartOnly, Owned, Residue
<1>8. CASE ForwardFails
  BY <1>8, <1>3 DEF ForwardFails
<1>9. CASE CleanPlatforms
  BY <1>9 DEF CleanPlatforms, RuntimeCurrent, Blocked, RestartOnly
<1>10. CASE Stopped \/ Restart
  BY <1>10, <1>1 DEF Stopped, Restart
<1>11. CASE Unload
  BY <1>11, <1>1, <1>2 DEF Unload, UnloadBegins, Owned
<1>12. CASE Reload
  BY <1>12, <1>1, <1>2 DEF Reload, UnloadBegins, Owned
<1>13. CASE PlatformsUnloaded
  BY <1>13, <1>2 DEF PlatformsUnloaded, UnloadFails, Owned
<1>14. CASE Released
  BY <1>14, <1>1, <1>2 DEF Released, UnloadFails
<1>15. CASE Learn
  BY <1>15, UpdateCurrent DEF Learn, MayPersist
<1>16. CASE SaveOptions
  BY <1>16, UpdateCurrent DEF SaveOptions
<1>17. CASE AskReload
  <2>1. reloads' > 0
    BY <1>17 DEF AskReload, Schedule, TypeOK
  <2>2. UNCHANGED <<state, latch, runtime, reloadPending, data, base, options, applied>>
    BY <1>17 DEF AskReload
  <2>3. QED  BY <2>1, <2>2 DEF RuntimeCurrent, Blocked, RestartOnly
<1>18. ASSUME NEW f \in Flows, Probe(f) \/ ProbeFails(f)  PROVE RuntimeCurrent'
  BY <1>18, <1>3 DEF Probe, ProbeFails
<1>19. ASSUME NEW f \in Flows, Reconfigure(f)  PROVE RuntimeCurrent'
  <2>1. CASE \E d : Update(d, options, base)
    BY <2>1, UpdateCurrent
  <2>2. CASE \E d : ScheduleItself(d # data) /\ UNCHANGED <<state, pc, latch, runtime>>
    <3>1. ~listening
      BY <2>2 DEF ScheduleItself
    <3>2. ~runtime \/ Blocked
      BY <3>1 DEF Owned, TypeOK, States, Blocked, RestartOnly
    <3>3. QED  BY <2>2, <3>2 DEF RuntimeCurrent, Blocked, RestartOnly
  <2>3. QED  BY <1>19, <2>1, <2>2 DEF Reconfigure
<1>20. CASE UNCHANGED vars
  BY <1>20, <1>3 DEF vars
<1>21. QED
  BY <1>4, <1>5, <1>6, <1>7, <1>8, <1>9, <1>10, <1>11, <1>12, <1>13, <1>14, <1>15,
     <1>16, <1>17, <1>18, <1>19, <1>20 DEF Next

(* However data, title, options and learned identity change during a setup and
   after it, a runtime that may be used has them or a reload on its way. *)
THEOREM RuntimeUpToDate == Spec => []RuntimeCurrent
<1>1. TypeOK /\ Owned /\ Residue /\ RuntimeCurrent /\ [Next]_vars =>
        (TypeOK /\ Owned /\ Residue /\ RuntimeCurrent)'
  BY OwnedStep, ResidueStep, CurrentStep
<1>2. QED  BY InitOwned, ResidueInit, CurrentInit, <1>1, PTL DEF Spec

-----------------------------------------------------------------------------
(* The stored identity.  A dialog compares its target with the address it saw before
   its probe; with a single dialog that address is still the entry's when it answers. *)
Followed == \A f \in Flows : flow[f] # Idle => flow[f].current = data.config

IdentityInv == IdentityOfDevice /\ Followed

LEMMA IdentityInit == Init => IdentityInv
  BY DEF Init, IdentityInv, IdentityOfDevice, Followed

(* An update by the client or the options dialog leaves the address alone. *)
LEMMA IdentityUpdate ==
  ASSUME IdentityInv, NEW d, NEW o, NEW b, Update(d, o, b), UNCHANGED flow,
         d.config = data.config, d.identity \in {Nothing, d.config},
         b.identity \in {Nothing, b.config}
  PROVE  IdentityInv'
  BY DEF IdentityInv, IdentityOfDevice, Followed, Update

LEMMA IdentityStep ==
  ASSUME TypeOK, IdentityInv, [Next]_vars, \A f, g \in Flows : f = g
  PROVE  IdentityInv'
<1> USE DEF core, stored, client, entry, blocking
<1>1. ASSUME UNCHANGED <<data, base, flow>>  PROVE IdentityInv'
  BY <1>1 DEF IdentityInv, IdentityOfDevice, Followed
(* The newest client starts from the entry as it is. *)
<1>2. ASSUME UNCHANGED <<data, flow>>, base' = data  PROVE IdentityInv'
  BY <1>2 DEF IdentityInv, IdentityOfDevice, Followed
<1>3. ASSUME NEW c, NEW a, Setup(c, a), UNCHANGED <<data, flow>>  PROVE IdentityInv'
  BY <1>1, <1>2, <1>3 DEF Setup, Iterate
<1>4. CASE Start
  BY <1>3, <1>4 DEF Start
<1>5. CASE Ready
  <2>1. CASE UNCHANGED <<data, base>>
    BY <1>1, <1>5, <2>1 DEF Ready
  <2>2. CASE /\ data' = [data EXCEPT !.pending = FALSE]
             /\ base' = [base EXCEPT !.pending = FALSE]
    <3>1. /\ data'.config = data.config /\ data'.identity = data.identity
          /\ base'.config = base.config /\ base'.identity = base.identity
      BY <2>2 DEF TypeOK, Data
    <3>2. UNCHANGED flow
      BY <1>5 DEF Ready
    <3>3. QED  BY <3>1, <3>2 DEF IdentityInv, IdentityOfDevice, Followed
  <2>3. QED  BY <1>5, <2>1, <2>2 DEF Ready
<1>6. CASE NotReady \/ Forwarded \/ ForwardFails \/ CleanPlatforms \/ PlatformsUnloaded
  BY <1>1, <1>6 DEF NotReady, Forwarded, ForwardFails, CleanPlatforms, PlatformsUnloaded
<1>7. CASE Stopped
  BY <1>1, <1>2, <1>7 DEF Stopped, Iterate
<1>8. CASE Unload \/ AskReload
  BY <1>1, <1>8 DEF Unload, UnloadBegins, AskReload
<1>9. CASE Reload
  BY <1>1, <1>3, <1>9 DEF Reload, UnloadBegins
<1>10. CASE Released
  BY <1>1, <1>3, <1>10 DEF Released
<1>11. CASE Restart
  BY <1>11 DEF Restart, IdentityInv, IdentityOfDevice, Followed
<1>12. CASE Learn
  <2>1. [data EXCEPT !.identity = base.config].config = data.config
    BY DEF TypeOK, Data
  <2>2. [data EXCEPT !.identity = base.config].identity = data.config
    BY <1>12 DEF Learn, MayPersist, TypeOK, Data
  <2>3. [base EXCEPT !.identity = base.config].identity
            = [base EXCEPT !.identity = base.config].config
    BY DEF TypeOK, Data
  <2>4. QED  BY <1>12, <2>1, <2>2, <2>3, IdentityUpdate DEF Learn
<1>13. CASE SaveOptions
  BY <1>13, IdentityUpdate DEF SaveOptions, IdentityInv, IdentityOfDevice
<1>14. ASSUME NEW f \in Flows, Probe(f) \/ ProbeFails(f)  PROVE IdentityInv'
  <2>1. UNCHANGED <<data, base>>
    BY <1>14 DEF Probe, ProbeFails
  <2>2. flow'[f] # Idle => flow'[f].current = data.config
    BY <1>14 DEF Probe, ProbeFails, TypeOK
  <2>3. \A g \in Flows : g = f
    OBVIOUS
  <2>4. QED  BY <2>1, <2>2, <2>3 DEF IdentityInv, IdentityOfDevice, Followed
(* What the dialog stores was seen at its target, or nothing is known of it. *)
<1>15. ASSUME NEW f \in Flows, Reconfigure(f)  PROVE IdentityInv'
  <2>1. PICK i \in NextIdentity(f) :
            /\ data'.config = flow[f].target /\ data'.identity = i
            /\ UNCHANGED base
    BY <1>15 DEF Reconfigure, Update
  <2>2. flow[f].current = data.config
    BY <1>15 DEF Reconfigure, IdentityInv, Followed
  <2>3. i \in {Nothing, flow[f].target}
    BY <2>2 DEF NextIdentity, IdentityInv, IdentityOfDevice
  <2>4. \A g \in Flows : flow'[g] = Idle
    BY <1>15 DEF Reconfigure, TypeOK
  <2>5. QED  BY <2>1, <2>3, <2>4 DEF IdentityInv, IdentityOfDevice, Followed
<1>16. CASE UNCHANGED vars
  BY <1>1, <1>16 DEF vars
<1>17. QED
  BY <1>4, <1>5, <1>6, <1>7, <1>8, <1>9, <1>10, <1>11, <1>12, <1>13, <1>14, <1>15,
     <1>16 DEF Next

(* With one reconfigure dialog at a time, the model identity that is stored, and the one
   the newest client starts from, were seen at the address they are stored with, however
   the client's discovery, the options dialog, failing setups and restarts interleave
   with it (_persist_model_identity and async_step_reconfigure).  Two dialogs at once
   break it: see the run entry_dialogs. *)
THEOREM IdentityFollowsAddress ==
  ASSUME \A f, g \in Flows : f = g
  PROVE  Spec => []IdentityOfDevice
<1>1. Init => TypeOK /\ Owned /\ IdentityInv
  BY InitOwned, IdentityInit
<1>2. TypeOK /\ Owned /\ IdentityInv /\ [Next]_vars => (TypeOK /\ Owned /\ IdentityInv)'
  BY OwnedStep, IdentityStep
<1>3. IdentityInv => IdentityOfDevice
  BY DEF IdentityInv
<1>4. QED  BY <1>1, <1>2, <1>3, PTL DEF Spec

-----------------------------------------------------------------------------
(* A change that no client has yet is used by the setup under way or by one to come. *)
ChangeOnItsWay ==
    pc = "idle" /\ data # base =>
        Blocked \/ state \in {"not_loaded", "setup_error"} \/ retry \/ reloads > 0

(* A setup that is to be repeated has its timer, or the reload that took its place; and
   what is loaded has a runtime, so that RuntimeCurrent speaks of it. *)
Ahead ==
    /\ pc = "forwarding" \/ state = "loaded" => runtime
    /\ state = "setup_retry" => retry \/ reloads > 0

LEMMA AheadInit == Init => Ahead
  BY DEF Init, Ahead

LEMMA AheadStep == TypeOK /\ Owned /\ Ahead /\ [Next]_vars => Ahead'
<1> SUFFICES ASSUME TypeOK, Owned, Ahead, [Next]_vars  PROVE Ahead'
  OBVIOUS
<1> USE DEF core, stored, client, entry, blocking
<1>1. CASE UNCHANGED <<pc, state, runtime, retry, reloads>>
  BY <1>1 DEF Ahead
<1>2. ASSUME UNCHANGED <<pc, state, runtime>>, Schedule  PROVE Ahead'
  BY <1>2 DEF Ahead, Schedule, TypeOK
(* A setup ends what was to be repeated, or arms the timer again. *)
<1>3. ASSUME NEW c, NEW a, Setup(c, a)  PROVE Ahead'
  BY <1>3 DEF Setup, Iterate, Ahead
<1>4. ASSUME NEW d, NEW o, NEW b, Update(d, o, b)  PROVE Ahead'
  <2>1. UNCHANGED <<pc, state, runtime>>
    BY <1>4 DEF Update
  <2>2. Schedule \/ UNCHANGED <<reloads, retry>>
    BY <1>4 DEF Update, Listener, Notice
  <2>3. QED  BY <1>1, <1>2, <2>1, <2>2
<1>5. CASE Start
  BY <1>3, <1>5 DEF Start
<1>6. CASE Ready
  BY <1>6 DEF Ready, Ahead, Owned
<1>7. CASE NotReady \/ ForwardFails \/ CleanPlatforms
  BY <1>7 DEF NotReady, ForwardFails, CleanPlatforms, Ahead, Owned
<1>8. CASE Forwarded
  BY <1>8 DEF Forwarded, Ahead
<1>9. CASE Stopped
  BY <1>9 DEF Stopped, Iterate, Ahead, Owned
<1>10. CASE Unload
  BY <1>10 DEF Unload, UnloadBegins, Ahead
<1>11. CASE Reload
  <2>1. CASE state = "loaded" /\ UnloadBegins("setup")
    BY <2>1 DEF UnloadBegins, Ahead
  <2>2. CASE state = "failed_unload" /\ UNCHANGED <<state, pc>>
    BY <2>2, <1>11 DEF Reload, ReloadDue, Ahead
  <2>3. QED  BY <1>3, <1>11, <2>1, <2>2 DEF Reload
<1>12. CASE PlatformsUnloaded
  BY <1>12 DEF PlatformsUnloaded, UnloadFails, Ahead, Owned
<1>13. CASE Released
  BY <1>3, <1>13 DEF Released, UnloadFails, Ahead
<1>14. CASE Restart
  BY <1>14 DEF Restart, Ahead
<1>15. CASE Learn \/ SaveOptions
  BY <1>4, <1>15 DEF Learn, SaveOptions
<1>16. CASE AskReload
  BY <1>2, <1>16 DEF AskReload
<1>17. ASSUME NEW f \in Flows, Probe(f) \/ ProbeFails(f) \/ Reconfigure(f)  PROVE Ahead'
  <2>1. CASE Probe(f) \/ ProbeFails(f)
    BY <1>1, <2>1 DEF Probe, ProbeFails
  <2>2. CASE Reconfigure(f)
    BY <1>2, <1>4, <2>2 DEF Reconfigure
  <2>3. QED  BY <1>17, <2>1, <2>2
<1>18. CASE UNCHANGED vars
  BY <1>1, <1>18 DEF vars
<1>19. QED
  BY <1>5, <1>6, <1>7, <1>8, <1>9, <1>10, <1>11, <1>12, <1>13, <1>14, <1>15, <1>16,
     <1>17, <1>18 DEF Next

(* Whenever no setup or unload is under way, a configuration that differs from what the
   newest client was made with has a reload or a retry ahead of it, unless the entry is
   unloaded, its setup failed with an error, or only a restart can help: no reload is
   dropped, and none takes the place of a retry without being scheduled itself (the
   update listener, async_setup_entry's clean-up and async_step_reconfigure). *)
THEOREM ChangesAreScheduled == Spec => []ChangeOnItsWay
<1>1. TypeOK /\ Owned /\ RuntimeCurrent /\ Ahead => ChangeOnItsWay
  <2> SUFFICES ASSUME TypeOK, Owned, RuntimeCurrent, Ahead, pc = "idle", data # base, ~Blocked,
                      state \notin {"not_loaded", "setup_error"}
               PROVE  retry \/ reloads > 0
    BY DEF ChangeOnItsWay
  <2>1. state \in {"loaded", "setup_retry"}
    BY DEF TypeOK, States, Owned, Blocked, RestartOnly
  <2>2. QED  BY <2>1 DEF Ahead, RuntimeCurrent
<1>2. TypeOK /\ Owned /\ Residue /\ RuntimeCurrent /\ Ahead /\ [Next]_vars =>
        (TypeOK /\ Owned /\ Residue /\ RuntimeCurrent /\ Ahead)'
  BY OwnedStep, ResidueStep, CurrentStep, AheadStep
<1>3. QED  BY InitOwned, ResidueInit, CurrentInit, AheadInit, <1>1, <1>2, PTL DEF Spec
=============================================================================
