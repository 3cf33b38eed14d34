--------------------------- MODULE ClientGateProofs ---------------------------
(***************************************************************************)
(* What the sessions of AllpowersClient keep apart, that the client        *)
(* implements CommandGate, and that no wake-up of its lock, its event or   *)
(* its lost links goes missing: theorems for every number of callers,      *)
(* sessions and packets.                                                   *)
(***************************************************************************)
EXTENDS AllpowersClientProofs

(* What the theorems of AllpowersClientProofs rest on. *)
BaseInv == TypeOK /\ LockInv /\ SessionInv

LEMMA BaseInit == Init => BaseInv
  BY TypeInit, LockInit, SessionInit DEF BaseInv

LEMMA BaseStep ==
    ASSUME BaseInv, [Next]_vars
    PROVE  BaseInv'
  BY TypeStep, LockStep, SessionStep DEF BaseInv

(* The steps there are; whatever is not a step of the loop happens while no task
   runs. *)
LEMMA Steps ==
    ASSUME TypeOK, [Next]_vars
    PROVE  \/ \E p \in Procs : Run(p) \/ Completes(p) \/ Deliver(p)
           \/ ConnStep \/ RefreshFires
           \/ CancelConnection \/ StopGathered
           \/ StopBegins /\ running = NoProc
           \/ \E p \in Callers : Reconnect(p) \/ \E o \in Calls : Call(p, o)
           \/ \E s \in 1..MaxSessions : RequestDisconnect(s)
           \/ \E s \in 1..MaxSessions : LinkDrops(s)
           \/ \E s \in 1..MaxSessions, k \in Packets : Notification(s, k)
           \/ \E g \in Groups : Stale(g) \/ DeadlinePasses(g)
           \/ UNCHANGED vars
<1>1. cancelReq \subseteq Procs
  BY DEF TypeOK, SessionType
<1>2. CASE LoopStep
  BY <1>2, Zenon DEF LoopStep
<1>3. CASE Stopping
  BY <1>1, <1>3, Zenon DEF Stopping
<1>4. CASE Callback
  BY <1>4, Zenon DEF Callback
<1>5. CASE Next
  BY <1>2, <1>3, <1>4, <1>5, Zenon DEF Next
<1>. QED BY <1>5

(* Facts about tasks that most steps need. *)
LEMMA Tasks ==
    ASSUME BaseInv
    PROVE  /\ pc \in [Procs -> PCs] /\ op \in [Procs -> Ops]
           /\ Conn \in Procs /\ Stop \in Procs /\ Refresh \in Procs
           /\ Conn # Stop /\ Conn # Refresh /\ Stop # Refresh
           /\ \A p \in Procs : pc[p] \in HoldingPCs => holder = p
           /\ op[Conn] = "connect" => pc[Conn] \in {"lock", "notify", "writing"}
           /\ op[Refresh] \in {"none", "status"}
           /\ gen \in Nat
  BY ProcsFacts DEF BaseInv, TypeOK, TaskType, SessionType, LockInv, LockDiscipline

-----------------------------------------------------------------------------
(* The numbers of the sessions.  The connection task opens only sessions that have
   a number, installs what it opened, and counts nothing else as connected; between
   two attempts no session is active. *)
Numbered ==
    /\ op[Conn] \in {"none", "connect", "disconnect"}
    /\ pc[Conn] = "estab" \/ op[Conn] = "connect" => gen # 0
    /\ pc[Conn] \in {"notify", "writing"} => op[Conn] = "connect" /\ client = gen
    /\ connected => client # 0
    /\ pc[Conn] \in {"retry", "disc"} => activeGen = 0
    /\ \A p \in Procs : pc[p] = "writing" => writeSession # 0

(* A step that leaves the connection task and the session alone. *)
LEMMA NumberedRest ==
    ASSUME Numbered, UNCHANGED <<gen, activeGen, client, connected>>,
           pc'[Conn] = pc[Conn], op'[Conn] = op[Conn],
           \A p \in Procs : pc'[p] = "writing" => writeSession' # 0
    PROVE  Numbered'
  BY DEF Numbered

(* A step of another task that leaves the lock's critical section or never was in it. *)
LEMMA NumberedOther ==
    ASSUME BaseInv, Numbered, NEW p \in Procs \ {Conn}, NEW l, l # "writing",
           \/ pc' = [pc EXCEPT ![p] = l]
           \/ pc' = [pc EXCEPT ![p] = l, ![Refresh] = "sleep"],
           op'[Conn] = op[Conn], UNCHANGED <<gen, activeGen, client, connected>>,
           holder = p \/ writeSession' = writeSession
    PROVE  Numbered'
<1>1. pc'[Conn] = pc[Conn]
  BY Tasks
<1>2. \A x \in Procs : pc'[x] = "writing" => pc[x] = "writing" /\ x # p
  BY Tasks
<1>3. \A x \in Procs : pc'[x] = "writing" => writeSession' # 0
  BY <1>2, Tasks DEF Numbered, HoldingPCs
<1>. QED BY <1>1, <1>3, NumberedRest

LEMMA NumberedRun ==
    ASSUME BaseInv, Numbered, NEW p \in Procs, Run(p)
    PROVE  Numbered'
<1>1. /\ pc \in [Procs -> PCs] /\ op \in [Procs -> Ops] /\ Conn \in Procs
      /\ Refresh \in Procs /\ Conn # Refresh
      /\ \A x \in Procs : pc[x] \in HoldingPCs => holder = x
      /\ op[Refresh] \in {"none", "status"}
  BY Tasks
<1>2. op[Conn] \in {"none", "connect", "disconnect"}
  BY DEF Numbered
<1>3. ASSUME NEW o \in Ops \ {"none", "connect", "disconnect"}, Inside(p, o),
             \/ /\ pc' = [pc EXCEPT ![p] = "writing"] /\ UNCHANGED op
                /\ writeSession' = activeGen /\ Writable
             \/ pc' = [pc EXCEPT ![p] = "idle"] /\ EndOp(p),
             UNCHANGED sessionVars
      PROVE  Numbered'
  <2>1. p # Conn /\ holder = p /\ pc[p] = "lock"
    BY <1>2, <1>3 DEF Inside
  <2>2. pc'[Conn] = pc[Conn] /\ op'[Conn] = op[Conn]
    BY <1>1, <1>3, <2>1 DEF EndOp
  <2>3. \A x \in Procs : pc'[x] = "writing" => writeSession' # 0
    BY <1>1, <1>3, <2>1 DEF Writable, HoldingPCs
  <2>. QED BY <1>3, <2>2, <2>3, NumberedRest DEF sessionVars
<1>4. CASE SendStatusRequest(p)
  BY <1>3, <1>4 DEF SendStatusRequest, Ops
<1>5. CASE Submit(p)
  <2>1. PICK o \in Groups \cup {"keepalive"} :
            /\ Inside(p, o) /\ UNCHANGED sessionVars
            /\ \/ /\ pc' = [pc EXCEPT ![p] = "writing"] /\ UNCHANGED op
                  /\ writeSession' = activeGen /\ Writable
               \/ pc' = [pc EXCEPT ![p] = "idle"] /\ EndOp(p)
    BY <1>5 DEF Submit
  <2>. QED BY <1>3, <2>1 DEF Ops, Groups
<1>6. CASE Decline(p)
  <2>1. PICK o \in Groups \cup {"keepalive"} :
            /\ Inside(p, o) /\ UNCHANGED sessionVars
            /\ pc' = [pc EXCEPT ![p] = "idle"] /\ EndOp(p)
    BY <1>6 DEF Decline
  <2>. QED BY <1>3, <2>1 DEF Ops, Groups
<1>7. CASE DisconnectClient(p)
  <2>1. /\ holder = p /\ pc[p] = "lock" /\ op[p] = "disconnect"
        /\ client' = 0 /\ activeGen' = 0 /\ ~connected' /\ UNCHANGED gen
        /\ \E m \in {"none", op[Refresh]} : op' = [op EXCEPT ![Refresh] = m, ![p] = "none"]
        /\ \E l \in {"disc", Resting(p)}, m \in {"idle", pc[Refresh]} :
               pc' = [pc EXCEPT ![Refresh] = m, ![p] = l]
    BY <1>7, <1>1, Zenon DEF DisconnectClient, Inside
  <2>2. Resting(p) \notin {"writing", "notify", "estab"}
    BY DEF Resting
  <2>3. \A x \in Procs : pc'[x] \notin {"writing", "notify"}
    BY <1>1, <2>1, <2>2 DEF HoldingPCs
  <2>4. op'[Conn] \in {op[Conn], "none"}
    BY <1>1, <2>1
  <2>5. pc'[Conn] = "estab" => pc[Conn] = "estab"
    BY <1>1, <2>1, <2>2
  <2>6. client' = 0 /\ activeGen' = 0 /\ ~connected' /\ gen' = gen
    BY <2>1
  <2>7. Conn \in Procs
    BY <1>1
  <2>. QED BY <2>3, <2>4, <2>5, <2>6, <2>7 DEF Numbered
<1>8. CASE WriteSucceeds(p)
  <2>1. /\ pc[p] = "writing" /\ p # Conn /\ UNCHANGED sessionVars
        /\ pc' = [pc EXCEPT ![p] = "idle", ![Refresh] = "sleep"]
        /\ op' = [op EXCEPT ![Refresh] = "none", ![p] = "none"]
    BY <1>8 DEF WriteSucceeds, Resumes
  <2>2. holder = p /\ op'[Conn] = op[Conn]
    BY <1>1, <2>1 DEF HoldingPCs
  <2>. QED BY <2>1, <2>2, NumberedOther DEF sessionVars
<1>9. CASE WriteReturns(p)
  <2>1. /\ pc[p] = "writing" /\ p # Conn /\ UNCHANGED sessionVars
        /\ pc' = [pc EXCEPT ![p] = "idle"] /\ EndOp(p)
    BY <1>9 DEF WriteReturns, Resumes
  <2>2. holder = p /\ op'[Conn] = op[Conn]
    BY <1>1, <2>1 DEF HoldingPCs, EndOp
  <2>. QED BY <2>1, <2>2, NumberedOther DEF sessionVars
<1>10. CASE WriteFails(p)
  <2>1. /\ pc[p] = "writing" /\ UNCHANGED sessionVars
        /\ pc' = [pc EXCEPT ![p] = IF p = Conn THEN "abort" ELSE "idle"]
        /\ op' = [op EXCEPT ![p] = "none"]
    BY <1>10 DEF WriteFails, Resumes, EndOp
  <2>2. holder = p
    BY <1>1, <2>1 DEF HoldingPCs
  <2>3. CASE p = Conn
    <3>1. /\ pc'[Conn] = "abort" /\ op'[Conn] = "none"
          /\ \A x \in Procs : pc'[x] # "writing"
      BY <1>1, <2>1, <2>2, <2>3 DEF HoldingPCs
    <3>. QED BY <2>1, <3>1 DEF Numbered, sessionVars
  <2>4. CASE p # Conn
    <3>1. pc' = [pc EXCEPT ![p] = "idle"] /\ op'[Conn] = op[Conn]
      BY <1>1, <2>1, <2>4
    <3>. QED BY <2>1, <2>2, <2>4, <3>1, NumberedOther DEF sessionVars
  <2>. QED BY <2>3, <2>4
<1>11. CASE Disconnected(p)
  <2>1. /\ pc[p] = "disc" /\ UNCHANGED <<op, sessionVars, writeSession>>
        /\ pc' = [pc EXCEPT ![p] = Resting(p)]
    BY <1>11 DEF Disconnected, Resumes
  <2>2. Resting(p) \notin {"writing", "notify", "estab"}
    BY DEF Resting
  <2>3. \A x \in Procs : pc'[x] = "writing" => pc[x] = "writing"
    BY <1>1, <2>1, <2>2
  <2>4. /\ pc'[Conn] \in {"notify", "writing", "estab"} => pc'[Conn] = pc[Conn]
        /\ pc'[Conn] \in {"retry", "disc"} => pc[Conn] \in {"retry", "disc"}
    BY <1>1, <2>1, <2>2
  <2>. QED BY <2>1, <2>3, <2>4 DEF Numbered, sessionVars
<1>. QED BY <1>4, <1>5, <1>6, <1>7, <1>8, <1>9, <1>10, <1>11 DEF Run

LEMMA NumberedConn ==
    ASSUME BaseInv, Numbered, ConnStep
    PROVE  Numbered'
<1>1. /\ pc \in [Procs -> PCs] /\ op \in [Procs -> Ops] /\ Conn \in Procs
      /\ \A x \in Procs : pc[x] \in HoldingPCs => holder = x
      /\ op[Conn] = "connect" => pc[Conn] \in {"lock", "notify", "writing"}
      /\ gen \in Nat
  BY Tasks
(* The connection task goes to l, where it does not write. *)
<1>2. ASSUME NEW l \in PCs \ {"writing"}, pc' = [pc EXCEPT ![Conn] = l],
             pc[Conn] \notin {"notify", "writing"} => UNCHANGED writeSession
      PROVE  \A x \in Procs : pc'[x] = "writing" => writeSession' # 0
  BY <1>1, <1>2 DEF Numbered, HoldingPCs
(* It asks for the lock, to disconnect. *)
<1>3. ASSUME pc' = [pc EXCEPT ![Conn] = "lock"], op' = [op EXCEPT ![Conn] = "disconnect"],
             UNCHANGED sessionVars,
             pc[Conn] \notin {"notify", "writing"} => UNCHANGED writeSession
      PROVE  Numbered'
  <2>1. \A x \in Procs : pc'[x] = "writing" => writeSession' # 0
    BY <1>2, <1>3 DEF PCs
  <2>. QED BY <1>1, <1>3, <2>1 DEF Numbered, sessionVars
<1>4. CASE StartAttempt
  <2>1. /\ pc[Conn] = "retry" /\ pc' = [pc EXCEPT ![Conn] = "estab"] /\ UNCHANGED op
        /\ UNCHANGED <<client, connected, writeSession>> /\ gen' = gen + 1
    BY <1>4 DEF StartAttempt, Resumes
  <2>2. \A x \in Procs : pc'[x] = "writing" => writeSession' # 0
    BY <1>2, <2>1 DEF PCs
  <2>3. gen' # 0
    BY <1>1, <2>1
  <2>. QED BY <1>1, <2>1, <2>2, <2>3 DEF Numbered
<1>5. CASE EstablishFails \/ Abort \/ SessionEnds
  BY <1>3, <1>5 DEF EstablishFails, Abort, SessionEnds, Acquire
<1>6. CASE Established
  <2>1. /\ pc[Conn] = "estab" /\ UNCHANGED sessionVars /\ UNCHANGED writeSession
        /\ \/ pc' = [pc EXCEPT ![Conn] = "abort"] /\ UNCHANGED op
           \/ pc' = [pc EXCEPT ![Conn] = "lock"] /\ op' = [op EXCEPT ![Conn] = "connect"]
    BY <1>6 DEF Established, Resumes, Acquire
  <2>2. \A x \in Procs : pc'[x] = "writing" => writeSession' # 0
    BY <1>2, <2>1 DEF PCs
  <2>. QED BY <1>1, <2>1, <2>2 DEF Numbered, sessionVars
<1>7. CASE Install
  <2>1. /\ pc' = [pc EXCEPT ![Conn] = "notify"] /\ op[Conn] = "connect" /\ UNCHANGED op
        /\ client' = gen /\ UNCHANGED <<gen, activeGen, connected, writeSession>>
    BY <1>7 DEF Install, Inside
  <2>2. \A x \in Procs : pc'[x] = "writing" => writeSession' # 0
    BY <1>2, <2>1 DEF PCs
  <2>. QED BY <1>1, <2>1, <2>2 DEF Numbered
<1>8. CASE SubscribeFails
  <2>1. /\ pc[Conn] = "notify" /\ UNCHANGED sessionVars /\ UNCHANGED writeSession
        /\ pc' = [pc EXCEPT ![Conn] = "abort"] /\ op' = [op EXCEPT ![Conn] = "none"]
    BY <1>8 DEF SubscribeFails, Resumes, EndOp
  <2>2. \A x \in Procs : pc'[x] = "writing" => writeSession' # 0
    BY <1>2, <2>1 DEF PCs
  <2>. QED BY <1>1, <2>1, <2>2 DEF Numbered, sessionVars
<1>9. CASE Subscribed
  <2>1. /\ pc[Conn] = "notify" /\ UNCHANGED <<gen, activeGen, client>>
        /\ \/ /\ pc' = [pc EXCEPT ![Conn] = "writing"] /\ UNCHANGED op
              /\ activeGen # 0 /\ writeSession' = activeGen
           \/ /\ pc' = [pc EXCEPT ![Conn] = "abort"] /\ op' = [op EXCEPT ![Conn] = "none"]
              /\ UNCHANGED writeSession
    BY <1>9 DEF Subscribed, Resumes, EndOp
  <2>2. \A x \in Procs : pc'[x] = "writing" => writeSession' # 0
    BY <1>1, <2>1 DEF HoldingPCs
  <2>3. client # 0
    BY <2>1 DEF Numbered
  <2>. QED BY <1>1, <2>1, <2>2, <2>3 DEF Numbered
<1>10. CASE FirstRequestSent
  <2>1. /\ pc[Conn] = "writing" /\ UNCHANGED sessionVars
        /\ \/ pc' = [pc EXCEPT ![Conn] = "lock"] /\ op' = [op EXCEPT ![Conn] = "disconnect"]
           \/ /\ \E l \in {"abort", "session"} : pc' = [pc EXCEPT ![Conn] = l]
              /\ op' = [op EXCEPT ![Conn] = "none"]
    <3>1. CASE Reacquire(Conn, "disconnect", After(Conn))
      BY <1>10, <3>1 DEF FirstRequestSent, Resumes, Reacquire
    <3>2. CASE Opened
      BY <1>10, <3>2 DEF FirstRequestSent, Resumes, Opened, EndOp
    <3>. QED BY <1>10, <3>1, <3>2 DEF FirstRequestSent
  <2>2. \A x \in Procs : pc'[x] = "writing" => writeSession' # 0
    BY <1>2, <2>1 DEF PCs
  <2>. QED BY <1>1, <2>1, <2>2 DEF Numbered, sessionVars
<1>. QED BY <1>4, <1>5, <1>6, <1>7, <1>8, <1>9, <1>10 DEF ConnStep

LEMMA NumberedStep ==
    ASSUME BaseInv, Numbered, [Next]_vars
    PROVE  Numbered'
<1>1. /\ pc \in [Procs -> PCs] /\ op \in [Procs -> Ops] /\ Conn \in Procs
      /\ Stop \in Procs /\ Refresh \in Procs /\ Conn # Stop /\ Conn # Refresh
      /\ \A x \in Procs : pc[x] \in HoldingPCs => holder = x
      /\ op[Conn] = "connect" => pc[Conn] \in {"lock", "notify", "writing"}
  BY Tasks
<1>2. ASSUME UNCHANGED <<pc, op, gen, activeGen, client, connected, writeSession>>
      PROVE  Numbered'
  BY <1>2 DEF Numbered
<1>3. ASSUME NEW p \in Callers, Reconnect(p) \/ \E o \in Calls : Call(p, o)
      PROVE  Numbered'
  <2>1. p \in Procs \ {Conn}
    BY ClientAssumption DEF Procs
  <2>2. /\ pc' = [pc EXCEPT ![p] = "lock"] /\ \E o : op' = [op EXCEPT ![p] = o]
        /\ UNCHANGED <<gen, activeGen, client, connected, writeSession>>
    BY <1>3 DEF Reconnect, Call, Acquire, sessionVars
  <2>3. op'[Conn] = op[Conn]
    BY <1>1, <2>1, <2>2
  <2>. QED BY <2>1, <2>2, <2>3, NumberedOther
<1>4. CASE RefreshFires
  <2>1. /\ pc' = [pc EXCEPT ![Refresh] = "lock"] /\ op' = [op EXCEPT ![Refresh] = "status"]
        /\ UNCHANGED <<gen, activeGen, client, connected, writeSession>>
    BY <1>4 DEF RefreshFires, Acquire, sessionVars
  <2>. QED BY <1>1, <2>1, NumberedOther
<1>5. CASE StopBegins \/ StopGathered
  <2>1. /\ \E l \in {"gather", "lock"} : pc' = [pc EXCEPT ![Stop] = l]
        /\ \E o : op' = op \/ op' = [op EXCEPT ![Stop] = o]
        /\ UNCHANGED <<gen, activeGen, client, connected, writeSession>>
    BY <1>5 DEF StopBegins, StopGathered, Acquire, sessionVars
  <2>. QED BY <1>1, <2>1, NumberedOther
<1>6. ASSUME NEW p \in Procs, Deliver(p)
      PROVE  Numbered'
  <2>1. /\ UNCHANGED sessionVars /\ pc' = [pc EXCEPT ![p] = Cancelled(p)]
        /\ op' = op \/ op' = [op EXCEPT ![p] = "none"]
        /\ writeSession' = writeSession \/ pc[p] = "writing"
    BY <1>6 DEF Deliver, CancelResting, CancelWaiting, CancelWriting, CancelDisconnect, EndOp
  <2>2. Cancelled(p) \in {"done", "idle"}
    BY DEF Cancelled
  <2>3. \A x \in Procs : pc'[x] = "writing" => writeSession' # 0
    BY <1>1, <2>1, <2>2 DEF Numbered, HoldingPCs
  <2>4. op'[Conn] \in {op[Conn], "none"}
    BY <1>1, <2>1
  <2>5. pc'[Conn] \in {pc[Conn], "done", "idle"}
    BY <1>1, <2>1, <2>2
  <2>6. p # Conn => op'[Conn] = op[Conn] /\ pc'[Conn] = pc[Conn]
    BY <1>1, <2>1
  <2>7. p = Conn => pc'[Conn] \in {"done", "idle"}
    BY <1>1, <2>1, <2>2
  <2>8. UNCHANGED <<gen, activeGen, client, connected>>
    BY <2>1 DEF sessionVars
  <2>. QED BY <2>3, <2>4, <2>6, <2>7, <2>8 DEF Numbered
<1>7. CASE CancelConnection
  <2>1. /\ UNCHANGED sessionVars /\ op' = [op EXCEPT ![Conn] = "disconnect"]
        /\ pc' = [pc EXCEPT ![Conn] = "lock"]
        /\ writeSession' = writeSession \/ pc[Conn] = "writing"
    <3>1. pc' = [pc EXCEPT ![Conn] = "lock"] \/ (UNCHANGED pc /\ Contains(waiters, Conn))
      BY <1>7 DEF CancelConnection, Acquire, Reacquire
    <3>2. Contains(waiters, Conn) => pc[Conn] = "lock"
      BY DEF Contains, BaseInv, LockInv, LockDiscipline, TypeOK, LockType
    <3>3. /\ UNCHANGED sessionVars /\ op' = [op EXCEPT ![Conn] = "disconnect"]
          /\ writeSession' = writeSession \/ pc[Conn] = "writing"
      BY <1>7 DEF CancelConnection, Acquire, Reacquire
    <3>. QED BY <1>1, <3>1, <3>2, <3>3
  <2>2. \A x \in Procs : pc'[x] = "writing" => writeSession' # 0
    BY <1>1, <2>1 DEF Numbered, HoldingPCs
  <2>. QED BY <1>1, <2>1, <2>2 DEF Numbered, sessionVars
<1>8. CASE \/ \E p \in Procs : Completes(p)
           \/ \E s \in 1..MaxSessions : RequestDisconnect(s)
           \/ \E s \in 1..MaxSessions : LinkDrops(s)
           \/ \E s \in 1..MaxSessions, k \in Packets : Notification(s, k)
           \/ \E g \in Groups : Stale(g) \/ DeadlinePasses(g)
           \/ UNCHANGED vars
  BY <1>2, <1>8 DEF LinkDrops, Notification, Stale, DeadlinePasses, Completes,
     RequestDisconnect, vars, taskVars, sessionVars
<1>. QED BY <1>3, <1>4, <1>5, <1>6, <1>7, <1>8, Steps, NumberedRun, NumberedConn DEF BaseInv

LEMMA NumberedInit == Init => Numbered
  BY ProcsFacts DEF Init, Numbered

-----------------------------------------------------------------------------
(* Evidence.  Readings change, and what they count for, in five kinds of steps. *)
Evidence ==
    /\ client # 0 => \A g \in Groups : fresh[g] => srcGen[g] = client
    /\ revision # "none" => activeGen # 0 /\ srcGen["settings"] = activeGen
    /\ ready => activeGen # 0 /\ srcGen["output"] = activeGen

LEMMA EvidenceStep ==
    ASSUME BaseInv, Evidence, [Next]_vars
    PROVE  Evidence'
<1>1. /\ fresh \in [Groups -> BOOLEAN] /\ srcGen \in [Groups -> Nat] /\ gen \in Nat
  BY DEF BaseInv, TypeOK, DataType, SessionType
<1>2. ASSUME UNCHANGED <<activeGen, client, ready, revision, fresh, srcGen>>
      PROVE  Evidence'
  BY <1>2 DEF Evidence
<1>3. CASE StartAttempt
  <2>1. client = 0
    BY <1>3 DEF BaseInv, SessionInv, SessionShape, Between, StartAttempt, Resumes
  <2>. QED BY <1>3, <2>1 DEF Evidence, StartAttempt
<1>4. CASE Install
  BY <1>4 DEF Evidence, Install, ForgetReadings
<1>5. ASSUME NEW p \in Procs, DisconnectClient(p)
      PROVE  Evidence'
  <2>1. client' = 0 /\ ~ready' /\ revision' = "none"
    BY <1>5 DEF DisconnectClient
  <2>. QED BY <2>1 DEF Evidence
<1>6. ASSUME NEW s \in 1..MaxSessions, NEW k \in Packets, Notification(s, k)
      PROVE  Evidence'
  <2>. DEFINE g == k.group
  <2>1. /\ s = activeGen /\ s = client /\ s # 0 /\ UNCHANGED <<activeGen, client>>
        /\ srcGen' = [srcGen EXCEPT ![g] = s] /\ fresh' = [fresh EXCEPT ![g] = TRUE]
        /\ ready' = (ready \/ g = "output")
        /\ revision' = IF g = "settings" THEN k.revision ELSE revision
    BY <1>6 DEF Notification, Current
  <2>2. g \in Groups
    BY ClientAssumption DEF PacketType
  <2>. HIDE DEF g
  <2>3. srcGen'[g] = client /\ \A h \in Groups \ {g} : srcGen'[h] = srcGen[h]
    BY <1>1, <2>1, <2>2
  <2>4. \A h \in Groups \ {g} : fresh'[h] = fresh[h]
    BY <1>1, <2>1, <2>2
  <2>. QED BY <2>1, <2>2, <2>3, <2>4 DEF Evidence, Groups
<1>7. ASSUME NEW g \in Groups, Stale(g)
      PROVE  Evidence'
  BY <1>1, <1>7 DEF Stale, Evidence, sessionVars
<1>8. ASSUME NEW p \in Procs, Run(p), ~DisconnectClient(p)
      PROVE  UNCHANGED <<activeGen, client, ready, revision, fresh, srcGen>>
  <2>1. CASE Submit(p) \/ Decline(p)
    BY <2>1 DEF Submit, Decline, sessionVars, dataVars
  <2>. QED BY <1>8, <2>1 DEF Run, SendStatusRequest, WriteSucceeds, WriteReturns, WriteFails,
              Disconnected, sessionVars, dataVars
<1>9. CASE ConnStep
  BY <1>2, <1>3, <1>4, <1>9 DEF ConnStep, EstablishFails, Established, SubscribeFails,
     Subscribed, FirstRequestSent, Abort, SessionEnds, sessionVars, dataVars
<1>10. ASSUME \/ \E p \in Procs : Completes(p) \/ Deliver(p)
              \/ RefreshFires \/ CancelConnection \/ StopGathered \/ StopBegins
              \/ \E p \in Callers : Reconnect(p) \/ \E o \in Calls : Call(p, o)
              \/ \E s \in 1..MaxSessions : RequestDisconnect(s) \/ LinkDrops(s)
              \/ \E g \in Groups : DeadlinePasses(g)
              \/ UNCHANGED vars
       PROVE  UNCHANGED <<activeGen, client, ready, revision, fresh, srcGen>>
  BY <1>10 DEF Completes, Deliver, CancelResting, CancelWaiting, CancelWriting,
     CancelDisconnect, RefreshFires, CancelConnection, StopGathered, StopBegins, Reconnect,
     Call, RequestDisconnect, LinkDrops, DeadlinePasses, vars, sessionVars, dataVars
<1>11. TypeOK
  BY DEF BaseInv
<1>. QED BY <1>2, <1>5, <1>6, <1>7, <1>8, <1>9, <1>10, <1>11, Steps

LEMMA EvidenceInit == Init => Evidence
  BY DEF Init, Evidence

(* A reading is evidence in the session that delivered it only: while the client is
   connected, a fresh reading came from the installed client, the revision that
   authorizes writes from the active session, and it is ready only by a status of
   that session -- however attempts, lost links and late notifications interleave
   (client.py, _process_notification and _activate_session_generation). *)
THEOREM ReadingsOfSession == Spec => []SessionEvidence
<1>1. Init => BaseInv /\ Numbered /\ Evidence
  BY BaseInit, NumberedInit, EvidenceInit
<1>2. BaseInv /\ Numbered /\ Evidence /\ [Next]_vars => (BaseInv /\ Numbered /\ Evidence)'
  BY BaseStep, NumberedStep, EvidenceStep
<1>3. Numbered /\ Evidence => SessionEvidence
  BY DEF Numbered, Evidence, SessionEvidence
<1>. QED BY <1>1, <1>2, <1>3, PTL DEF Spec

-----------------------------------------------------------------------------
(* Links.  A disconnect() under way is that of the last session, and is over before
   the connection task opens the next one. *)
LinkAccounted(s) ==
    \/ s = client
    \/ s = closing
    \/ s = gen /\ (pc[Conn] = "abort" \/ op[Conn] = "connect")
    \/ s \in failedLinks \cup cutLinks

LinkInv ==
    /\ \A s \in links : LinkAccounted(s)
    /\ 0 \notin links /\ closing \in {0, gen}
    /\ closing # 0 => \E p \in Procs : pc[p] = "disc"
    /\ pc[Conn] \in {"retry", "estab"} \/ op[Conn] = "connect" => closing = 0

(* A step that leaves the links, and what accounts for them, alone. *)
LEMMA LinkRest ==
    ASSUME LinkInv, UNCHANGED <<gen, client, closing, failedLinks, cutLinks>>,
           links' \subseteq links,
           pc'[Conn] = pc[Conn], op'[Conn] = op[Conn],
           \A p \in Procs : pc[p] = "disc" => pc'[p] = "disc"
    PROVE  LinkInv'
  BY DEF LinkInv, LinkAccounted

LEMMA LinkRun ==
    ASSUME BaseInv, Numbered, LinkInv, NEW p \in Procs, Run(p)
    PROVE  LinkInv'
<1>1. /\ pc \in [Procs -> PCs] /\ op \in [Procs -> Ops] /\ Conn \in Procs
      /\ Refresh \in Procs /\ Conn # Refresh
      /\ \A x \in Procs : pc[x] \in HoldingPCs => holder = x
      /\ op[Refresh] \in {"none", "status"}
      /\ op[Conn] = "connect" => pc[Conn] \in {"lock", "notify", "writing"}
      /\ client \in {0, gen} /\ closing \in {0, gen}
  BY Tasks DEF BaseInv, SessionInv, SessionShape, LinkInv
<1>2. op[Conn] \in {"none", "connect", "disconnect"}
  BY DEF Numbered
(* A holder that is not about to disconnect goes to l. *)
<1>3. ASSUME p # Conn, NEW l, pc[p] # "disc",
             \/ pc' = [pc EXCEPT ![p] = l]
             \/ pc' = [pc EXCEPT ![p] = l, ![Refresh] = "sleep"],
             holder = p, op'[Conn] = op[Conn], UNCHANGED <<sessionVars, linkVars>>
      PROVE  LinkInv'
  <2>1. pc'[Conn] = pc[Conn]
    BY <1>1, <1>3
  <2>2. \A x \in Procs : pc[x] = "disc" => pc'[x] = "disc"
    BY <1>1, <1>3 DEF HoldingPCs
  <2>. QED BY <1>3, <2>1, <2>2, LinkRest DEF sessionVars, linkVars
<1>4. CASE SendStatusRequest(p) \/ Submit(p) \/ Decline(p)
  <2>1. PICK o \in Groups \cup {"keepalive", "status"}, l \in {"writing", "idle"} :
            /\ Inside(p, o) /\ UNCHANGED <<sessionVars, linkVars>>
            /\ pc' = [pc EXCEPT ![p] = l]
            /\ op' = op \/ op' = [op EXCEPT ![p] = "none"]
    <3>1. CASE SendStatusRequest(p)
      BY <3>1 DEF SendStatusRequest, EndOp
    <3>2. CASE Submit(p)
      BY <3>2 DEF Submit, EndOp
    <3>3. CASE Decline(p)
      BY <3>3 DEF Decline, EndOp
    <3>. QED BY <1>4, <3>1, <3>2, <3>3
  <2>2. p # Conn /\ holder = p /\ pc[p] = "lock"
    BY <1>2, <2>1 DEF Inside, Groups
  <2>3. op'[Conn] = op[Conn]
    BY <1>1, <2>1, <2>2
  <2>. QED BY <1>3, <2>1, <2>2, <2>3
<1>5. CASE WriteSucceeds(p) \/ WriteReturns(p)
  <2>1. /\ pc[p] = "writing" /\ p # Conn /\ UNCHANGED <<sessionVars, linkVars>>
        /\ \/ pc' = [pc EXCEPT ![p] = "idle"] /\ op' = [op EXCEPT ![p] = "none"]
           \/ /\ pc' = [pc EXCEPT ![p] = "idle", ![Refresh] = "sleep"]
              /\ op' = [op EXCEPT ![Refresh] = "none", ![p] = "none"]
    BY <1>5 DEF WriteSucceeds, WriteReturns, Resumes, EndOp
  <2>2. holder = p /\ op'[Conn] = op[Conn]
    BY <1>1, <2>1 DEF HoldingPCs
  <2>. QED BY <1>3, <2>1, <2>2
<1>6. CASE WriteFails(p)
  <2>1. /\ pc[p] = "writing" /\ UNCHANGED <<sessionVars, linkVars>>
        /\ pc' = [pc EXCEPT ![p] = IF p = Conn THEN "abort" ELSE "idle"]
        /\ op' = [op EXCEPT ![p] = "none"]
    BY <1>6 DEF WriteFails, Resumes, EndOp
  <2>2. holder = p
    BY <1>1, <2>1 DEF HoldingPCs
  <2>3. CASE p # Conn
    <3>1. pc' = [pc EXCEPT ![p] = "idle"] /\ op'[Conn] = op[Conn]
      BY <1>1, <2>1, <2>3
    <3>. QED BY <1>3, <2>1, <2>2, <2>3, <3>1
  <2>4. CASE p = Conn
    <3>1. pc'[Conn] = "abort" /\ op'[Conn] = "none"
      BY <1>1, <2>1, <2>4
    <3>2. \A x \in Procs : pc[x] = "disc" => pc'[x] = "disc"
      BY <1>1, <2>1
    <3>. QED BY <2>1, <3>1, <3>2 DEF LinkInv, LinkAccounted, sessionVars, linkVars
  <2>. QED BY <2>3, <2>4
<1>7. CASE DisconnectClient(p)
  <2>1. /\ holder = p /\ pc[p] = "lock" /\ op[p] = "disconnect" /\ client' = 0
        /\ UNCHANGED <<gen, links, failedLinks, cutLinks>>
        /\ \E m \in {"none", op[Refresh]} : op' = [op EXCEPT ![Refresh] = m, ![p] = "none"]
        /\ \/ /\ Closable /\ closing' = client
              /\ \E m \in {"idle", pc[Refresh]} :
                     pc' = [pc EXCEPT ![Refresh] = m, ![p] = "disc"]
           \/ /\ ~Closable /\ UNCHANGED closing
              /\ \E m \in {"idle", pc[Refresh]} :
                     pc' = [pc EXCEPT ![Refresh] = m, ![p] = Resting(p)]
    BY <1>7, <1>1, Zenon DEF DisconnectClient, Inside
  <2>2. closing = 0
    BY <1>1, <2>1 DEF LinkInv, HoldingPCs
  <2>3. /\ op'[Conn] \in {op[Conn], "none"}
        /\ op'[Conn] = "connect" => p # Conn
        /\ p # Conn => pc'[Conn] = pc[Conn]
    BY <1>1, <2>1
  <2>4. \A s \in links : s = client => Closable
    BY DEF LinkInv, Closable
  <2>5. pc[Conn] = "abort" => p # Conn
    BY <2>1
  <2>6. CASE Closable /\ closing' = client
    <3>1. pc'[p] = "disc"
      BY <1>1, <2>1, <2>6
    <3>2. client # 0
      BY <2>6 DEF Closable
    <3>3. ~ (pc'[Conn] \in {"retry", "estab"} \/ op'[Conn] = "connect")
      <4>1. CASE p = Conn
        BY <2>3, <3>1, <4>1
      <4>2. CASE p # Conn
        <5>1. ~Between
          BY <3>2 DEF BaseInv, SessionInv, SessionShape
        <5>2. pc[Conn] \notin HoldingPCs
          BY <1>1, <2>1, <4>2 DEF HoldingPCs
        <5>3. op[Conn] # "connect" /\ pc[Conn] \notin {"retry", "estab"}
          BY <1>1, <5>1, <5>2 DEF Between, HoldingPCs
        <5>. QED BY <2>3, <4>2, <5>3
      <4>. QED BY <4>1, <4>2
    <3>4. \A s \in links : s = closing' \/ s \in failedLinks \cup cutLinks
      <4>1. ASSUME NEW s \in links
            PROVE  s = client \/ s \in failedLinks \cup cutLinks
        <5>1. s # 0 /\ LinkAccounted(s)
          BY DEF LinkInv
        <5>. QED BY <1>1, <2>2, <3>2, <5>1 DEF LinkAccounted
      <4>. QED BY <2>6, <4>1
    <3>. QED BY <1>1, <2>1, <2>6, <3>1, <3>3, <3>4 DEF LinkInv, LinkAccounted
  <2>7. CASE ~Closable /\ UNCHANGED closing
    <3>1. \A s \in links : \/ s = gen /\ (pc'[Conn] = "abort" \/ op'[Conn] = "connect")
                           \/ s \in failedLinks \cup cutLinks
      <4>1. SUFFICES ASSUME NEW s \in links, s \notin failedLinks \cup cutLinks
                     PROVE  s = gen /\ (pc'[Conn] = "abort" \/ op'[Conn] = "connect")
        OBVIOUS
      <4>2. s # 0 /\ LinkAccounted(s) /\ s # client
        BY <2>4, <2>7 DEF LinkInv
      <4>3. s = gen /\ (pc[Conn] = "abort" \/ op[Conn] = "connect")
        BY <2>2, <4>1, <4>2 DEF LinkAccounted
      <4>4. p # Conn
        BY <2>1, <4>3
      <4>5. op'[Conn] = op[Conn]
        BY <1>1, <2>1, <4>4
      <4>. QED BY <2>3, <4>3, <4>4, <4>5
    <3>. QED BY <2>1, <2>2, <2>7, <3>1 DEF LinkInv, LinkAccounted
  <2>. QED BY <2>1, <2>6, <2>7
<1>8. CASE Disconnected(p)
  <2>1. /\ pc[p] = "disc" /\ UNCHANGED <<op, gen, client, cutLinks>> /\ closing' = 0
        /\ pc' = [pc EXCEPT ![p] = Resting(p)]
        /\ \/ links' = links \ {closing} /\ UNCHANGED failedLinks
           \/ failedLinks' = failedLinks \cup ({closing} \cap links) /\ UNCHANGED links
    BY <1>8 DEF Disconnected, Resumes, sessionVars
  <2>2. Resting(p) # "abort"
    BY DEF Resting
  <2>3. pc[Conn] = "abort" => pc'[Conn] = "abort"
    BY <1>1, <2>1
  <2>4. \A s \in links' : LinkAccounted(s)'
    BY <2>1, <2>3 DEF LinkInv, LinkAccounted
  <2>. QED BY <2>1, <2>4 DEF LinkInv
<1>. QED BY <1>4, <1>5, <1>6, <1>7, <1>8 DEF Run

LEMMA LinkConn ==
    ASSUME BaseInv, Numbered, LinkInv, ConnStep
    PROVE  LinkInv'
<1>1. /\ pc \in [Procs -> PCs] /\ op \in [Procs -> Ops] /\ Conn \in Procs
      /\ \A x \in Procs : pc[x] \in HoldingPCs => holder = x
      /\ op[Conn] = "connect" => pc[Conn] \in {"lock", "notify", "writing"}
      /\ gen \in Nat /\ links \subseteq Nat
  BY Tasks DEF BaseInv, TypeOK, SessionType
<1>2. pc[Conn] # "disc" => \A l : pc' = [pc EXCEPT ![Conn] = l] =>
          \A p \in Procs : pc[p] = "disc" => pc'[p] = "disc"
  BY <1>1
<1>3. CASE StartAttempt
  <2>1. /\ pc[Conn] = "retry" /\ pc' = [pc EXCEPT ![Conn] = "estab"] /\ UNCHANGED op
        /\ UNCHANGED <<client, linkVars>> /\ gen' = gen + 1
    BY <1>3 DEF StartAttempt, Resumes
  <2>2. client = 0 /\ closing = 0 /\ op[Conn] # "connect"
    BY <1>1, <2>1 DEF BaseInv, SessionInv, SessionShape, Between, LinkInv
  <2>3. links \subseteq failedLinks \cup cutLinks
    BY <2>1, <2>2 DEF LinkInv, LinkAccounted
  <2>. QED BY <2>1, <2>2, <2>3 DEF LinkInv, LinkAccounted, linkVars
<1>4. CASE Established
  <2>1. /\ pc[Conn] = "estab" /\ UNCHANGED <<gen, client, closing, failedLinks, cutLinks>>
        /\ links' = links \cup {gen}
        /\ \/ pc' = [pc EXCEPT ![Conn] = "abort"] /\ UNCHANGED op
           \/ pc' = [pc EXCEPT ![Conn] = "lock"] /\ op' = [op EXCEPT ![Conn] = "connect"]
    BY <1>4 DEF Established, Resumes, Acquire, sessionVars
  <2>2. closing = 0 /\ gen # 0 /\ op[Conn] # "connect"
    BY <1>1, <2>1 DEF LinkInv, Numbered
  <2>3. pc'[Conn] = "abort" \/ op'[Conn] = "connect"
    BY <1>1, <2>1
  <2>4. \A s \in links' : LinkAccounted(s)'
    BY <2>1, <2>2, <2>3 DEF LinkInv, LinkAccounted
  <2>. QED BY <2>1, <2>2, <2>4 DEF LinkInv
<1>5. CASE Install
  <2>1. /\ op[Conn] = "connect" /\ pc[Conn] = "lock" /\ UNCHANGED <<op, gen, linkVars>>
        /\ client' = gen /\ pc' = [pc EXCEPT ![Conn] = "notify"]
    BY <1>5 DEF Install, Inside
  <2>2. client = 0 /\ closing = 0
    BY <2>1 DEF BaseInv, SessionInv, SessionShape, Between, LinkInv
  <2>. QED BY <2>1, <2>2 DEF LinkInv, LinkAccounted, linkVars
<1>6. CASE Abort
  <2>1. /\ pc[Conn] = "abort" /\ UNCHANGED <<gen, client, closing, cutLinks>>
        /\ pc' = [pc EXCEPT ![Conn] = "lock"] /\ op' = [op EXCEPT ![Conn] = "disconnect"]
        /\ \/ links' = links \ {gen} /\ UNCHANGED failedLinks
           \/ failedLinks' = failedLinks \cup ({gen} \cap links) /\ UNCHANGED links
    BY <1>6 DEF Abort, Resumes, Acquire, sessionVars
  <2>2. \A s \in links' : LinkAccounted(s)'
    BY <2>1 DEF LinkInv, LinkAccounted
  <2>3. pc'[Conn] = "lock" /\ op'[Conn] = "disconnect"
    BY <1>1, <2>1
  <2>4. \A p \in Procs : pc[p] = "disc" => pc'[p] = "disc"
    BY <1>2, <2>1
  <2>. QED BY <2>1, <2>2, <2>3, <2>4 DEF LinkInv
(* The other steps of the task: a link that was accounted for by op[Conn] is the
   client's by now. *)
<1>7. ASSUME UNCHANGED <<gen, client, linkVars>>,
             pc[Conn] \in {"estab", "notify", "writing", "session"},
             NEW l \in PCs \ {"retry", "estab"}, pc' = [pc EXCEPT ![Conn] = l],
             \/ op' = [op EXCEPT ![Conn] = "none"]
             \/ op' = [op EXCEPT ![Conn] = "disconnect"]
             \/ UNCHANGED op
      PROVE  LinkInv'
  <2>1. pc'[Conn] = l /\ op'[Conn] \in {op[Conn], "none", "disconnect"}
    BY <1>1, <1>7
  <2>2. \A s \in links : s = gen /\ op[Conn] = "connect" => s = client
    BY <1>1, <1>7 DEF Numbered
  <2>3. \A s \in links' : LinkAccounted(s)'
    BY <1>7, <2>2 DEF LinkInv, LinkAccounted, linkVars
  <2>4. \A p \in Procs : pc[p] = "disc" => pc'[p] = "disc"
    BY <1>2, <1>7
  <2>. QED BY <1>7, <2>1, <2>3, <2>4 DEF LinkInv, linkVars
<1>8. CASE EstablishFails \/ SessionEnds
  <2>1. /\ pc[Conn] \in {"estab", "session"} /\ UNCHANGED <<gen, client, linkVars>>
        /\ pc' = [pc EXCEPT ![Conn] = "lock"] /\ op' = [op EXCEPT ![Conn] = "disconnect"]
    BY <1>8 DEF EstablishFails, SessionEnds, Resumes, Acquire, sessionVars
  <2>. QED BY <1>7, <2>1 DEF PCs
<1>9. CASE SubscribeFails \/ Subscribed
  <2>1. /\ pc[Conn] = "notify" /\ UNCHANGED <<gen, client, linkVars>>
        /\ \E l \in {"abort", "writing"} : pc' = [pc EXCEPT ![Conn] = l]
        /\ op' = [op EXCEPT ![Conn] = "none"] \/ UNCHANGED op
    BY <1>9 DEF SubscribeFails, Subscribed, Resumes, EndOp, sessionVars
  <2>. QED BY <1>7, <2>1 DEF PCs
<1>10. CASE FirstRequestSent
  <2>1. /\ pc[Conn] = "writing" /\ UNCHANGED <<gen, client, linkVars>>
        /\ \E l \in {"abort", "session", "lock"} : pc' = [pc EXCEPT ![Conn] = l]
        /\ op' = [op EXCEPT ![Conn] = "none"] \/ op' = [op EXCEPT ![Conn] = "disconnect"]
    <3>1. CASE Reacquire(Conn, "disconnect", After(Conn))
      BY <1>10, <3>1 DEF FirstRequestSent, Resumes, Reacquire, sessionVars
    <3>2. CASE Opened
      BY <1>10, <3>2 DEF FirstRequestSent, Resumes, Opened, EndOp, sessionVars
    <3>. QED BY <1>10, <3>1, <3>2 DEF FirstRequestSent
  <2>. QED BY <1>7, <2>1 DEF PCs
<1>. QED BY <1>3, <1>4, <1>5, <1>6, <1>8, <1>9, <1>10 DEF ConnStep

LEMMA LinkStep ==
    ASSUME BaseInv, Numbered, LinkInv, [Next]_vars
    PROVE  LinkInv'
<1>1. /\ pc \in [Procs -> PCs] /\ op \in [Procs -> Ops] /\ Conn \in Procs
      /\ Stop \in Procs /\ Refresh \in Procs /\ Conn # Stop /\ Conn # Refresh
      /\ \A x \in Procs : pc[x] \in HoldingPCs => holder = x
      /\ op[Conn] = "connect" => pc[Conn] \in {"lock", "notify", "writing"}
  BY Tasks
<1>2. ASSUME NEW p \in Procs \ {Conn}, NEW l, pc' = [pc EXCEPT ![p] = l], pc[p] # "disc",
             op'[Conn] = op[Conn], UNCHANGED <<sessionVars, linkVars>>
      PROVE  LinkInv'
  <2>1. /\ pc'[Conn] = pc[Conn]
        /\ \A x \in Procs : pc[x] = "disc" => pc'[x] = "disc"
    BY <1>1, <1>2
  <2>. QED BY <1>2, <2>1, LinkRest DEF sessionVars, linkVars
<1>3. ASSUME NEW p \in Callers, Reconnect(p) \/ \E o \in Calls : Call(p, o)
      PROVE  LinkInv'
  <2>1. p \in Procs \ {Conn}
    BY ClientAssumption DEF Procs
  <2>2. /\ pc' = [pc EXCEPT ![p] = "lock"] /\ \E o : op' = [op EXCEPT ![p] = o]
        /\ pc[p] = "idle" /\ UNCHANGED <<gen, client, linkVars>>
    BY <1>3 DEF Reconnect, Call, Acquire, sessionVars
  <2>3. /\ pc'[Conn] = pc[Conn] /\ op'[Conn] = op[Conn]
        /\ \A x \in Procs : pc[x] = "disc" => pc'[x] = "disc"
    BY <1>1, <2>1, <2>2
  <2>. QED BY <2>2, <2>3, LinkRest DEF linkVars
<1>4. CASE RefreshFires \/ StopBegins \/ StopGathered
  <2>1. PICK p \in {Refresh, Stop} :
            /\ \E l \in {"lock", "gather"} : pc' = [pc EXCEPT ![p] = l]
            /\ \E o : op' = op \/ op' = [op EXCEPT ![p] = o]
            /\ pc[p] # "disc" /\ UNCHANGED <<sessionVars, linkVars>>
    <3>1. CASE RefreshFires
      BY <3>1 DEF RefreshFires, Resumes, Acquire
    <3>2. CASE StopBegins
      BY <3>2 DEF StopBegins
    <3>3. CASE StopGathered
      BY <3>3 DEF StopGathered, Acquire
    <3>. QED BY <1>4, <3>1, <3>2, <3>3
  <2>. QED BY <1>1, <1>2, <2>1
<1>5. ASSUME NEW p \in Procs, Deliver(p)
      PROVE  LinkInv'
  <2>1. Cancelled(p) \notin {"retry", "estab", "disc"}
    BY DEF Cancelled
  <2>2. CASE CancelDisconnect(p)
    <3>1. /\ pc[p] = "disc" /\ UNCHANGED <<op, gen, client, links, failedLinks>>
          /\ closing' = 0 /\ pc' = [pc EXCEPT ![p] = Cancelled(p)]
          /\ cutLinks' = cutLinks \cup ({closing} \cap links)
      BY <2>2 DEF CancelDisconnect, sessionVars
    <3>2. pc[Conn] = "abort" => pc'[Conn] = "abort"
      BY <1>1, <3>1
    <3>3. \A s \in links' : LinkAccounted(s)'
      BY <3>1, <3>2 DEF LinkInv, LinkAccounted
    <3>. QED BY <3>1, <3>3 DEF LinkInv
  <2>3. CASE CancelResting(p) \/ CancelWaiting(p) \/ CancelWriting(p)
    <3>1. /\ pc' = [pc EXCEPT ![p] = Cancelled(p)]
          /\ op' = op \/ op' = [op EXCEPT ![p] = "none"]
          /\ UNCHANGED <<gen, client, linkVars>>
          /\ pc[p] \in {"idle", "sleep", "retry", "lock", "writing"}
          /\ p = Conn => pc[p] \in {"idle", "sleep", "retry", "lock"} /\ op[p] # "connect"
      BY <1>1, <2>3 DEF CancelResting, CancelWaiting, CancelWriting, EndOp, sessionVars
    <3>2. \A x \in Procs : pc[x] = "disc" => pc'[x] = "disc"
      BY <1>1, <3>1
    <3>3. CASE p # Conn
      <4>1. pc'[Conn] = pc[Conn] /\ op'[Conn] = op[Conn]
        BY <1>1, <3>1, <3>3
      <4>. QED BY <3>1, <3>2, <4>1, LinkRest DEF linkVars
    <3>4. CASE p = Conn
      <4>1. pc'[Conn] = Cancelled(Conn) /\ op'[Conn] \in {op[Conn], "none"}
        BY <1>1, <3>1, <3>4
      <4>. QED BY <2>1, <3>1, <3>2, <3>4, <4>1 DEF LinkInv, LinkAccounted, linkVars
    <3>. QED BY <3>3, <3>4
  <2>. QED BY <1>5, <2>2, <2>3 DEF Deliver
<1>6. CASE CancelConnection
  <2>1. /\ op' = [op EXCEPT ![Conn] = "disconnect"] /\ pc' = [pc EXCEPT ![Conn] = "lock"]
        /\ UNCHANGED <<gen, client, links, closing, failedLinks>>
        /\ cutLinks' = cutLinks \cup (IF pc[Conn] \in {"abort", "lock"} THEN {gen} \cap links
                                                                         ELSE {})
    <3>1. pc' = [pc EXCEPT ![Conn] = "lock"] \/ (UNCHANGED pc /\ Contains(waiters, Conn))
      BY <1>6 DEF CancelConnection, Acquire, Reacquire
    <3>2. Contains(waiters, Conn) => pc[Conn] = "lock"
      BY DEF Contains, BaseInv, LockInv, LockDiscipline, TypeOK, LockType
    <3>3. op' = [op EXCEPT ![Conn] = "disconnect"]
      BY <1>6 DEF CancelConnection, Acquire, Reacquire
    <3>. QED BY <1>1, <1>6, <3>1, <3>2, <3>3 DEF CancelConnection, sessionVars
  <2>2. pc[Conn] # "disc"
    <3>1. Contains(waiters, Conn) => pc[Conn] = "lock"
      BY DEF Contains, BaseInv, LockInv, LockDiscipline, TypeOK, LockType
    <3>. QED BY <1>1, <1>6, <3>1 DEF CancelConnection
  <2>3. /\ pc'[Conn] = "lock" /\ op'[Conn] = "disconnect"
        /\ \A x \in Procs : pc[x] = "disc" => pc'[x] = "disc"
    BY <1>1, <2>1, <2>2
  <2>4. \A s \in links' : LinkAccounted(s)'
    BY <1>1, <2>1 DEF LinkInv, LinkAccounted, Numbered
  <2>. QED BY <2>1, <2>3, <2>4 DEF LinkInv
<1>7. CASE \/ \E p \in Procs : Completes(p)
           \/ \E s \in 1..MaxSessions : RequestDisconnect(s)
           \/ \E s \in 1..MaxSessions : LinkDrops(s)
           \/ \E s \in 1..MaxSessions, k \in Packets : Notification(s, k)
           \/ \E g \in Groups : Stale(g) \/ DeadlinePasses(g)
           \/ UNCHANGED vars
  <2>1. /\ UNCHANGED <<pc, op, gen, client, closing, failedLinks, cutLinks>>
        /\ links' \subseteq links
    BY <1>7 DEF LinkDrops, Notification, Stale, DeadlinePasses, Completes,
       RequestDisconnect, vars, taskVars, sessionVars, linkVars
  <2>. QED BY <2>1, LinkRest
<1>. QED BY <1>3, <1>4, <1>5, <1>6, <1>7, Steps, LinkRun, LinkConn DEF BaseInv

LEMMA LinkInit == Init => LinkInv
  BY ProcsFacts DEF Init, LinkInv

(* No GATT link is forgotten: each is the installed client's, or is being opened or
   closed by a task, or a disconnect of it failed or was cut short; and unless one did,
   at most one link is up at a time (client.py, _connect_once, _disconnect_client and
   the finally clause of _connection_loop). *)
THEOREM LinksAreKept == Spec => []LinksKept
<1>1. Init => BaseInv /\ Numbered /\ LinkInv
  BY BaseInit, NumberedInit, LinkInit
<1>2. BaseInv /\ Numbered /\ LinkInv /\ [Next]_vars => (BaseInv /\ Numbered /\ LinkInv)'
  BY BaseStep, NumberedStep, LinkStep
<1>3. BaseInv /\ LinkInv => LinksKept
  <2>. SUFFICES ASSUME BaseInv, LinkInv PROVE LinksKept
    OBVIOUS
  <2>2. /\ closing \in {0, gen} /\ 0 \notin links
        /\ \A s \in links : LinkAccounted(s)
    BY DEF LinkInv
  <2>3. \A s \in links : s = gen \/ s \in failedLinks \cup cutLinks
    <3>1. client \in {0, gen}
      BY DEF BaseInv, SessionInv, SessionShape
    <3>. QED BY <2>2, <3>1 DEF LinkAccounted
  <2>4. (failedLinks = {} /\ cutLinks = {}) => \A s, t \in links : s = t
    BY <2>3
  <2>. QED BY <2>2, <2>4 DEF LinkAccounted, LinksKept
<1>. QED BY <1>1, <1>2, <1>3, PTL DEF Spec

-----------------------------------------------------------------------------
(* Transactions.  Only the task inside a GATT write has a command mid-submission; a
   pending command belongs to the active session, and none stands before a closed
   gate; a mark that closes one waits for the next reading and no further. *)
Writer(g) == \E p \in Procs : pc[p] = "writing" /\ IsCommand(op[p]) /\ GroupOf(op[p]) = g

TxnOf(g) ==
    /\ txn[g].phase \in {"SENDING", "CONFIRMED"} => Writer(g)
    /\ txn[g] # NoTxn => txn[g].gen = activeGen /\ blocked[g] <= version[g]
    /\ txn[g].phase = "CONFIRMED" => value[g] = txn[g].target
    /\ blocked[g] <= version[g] + 1
    /\ client = 0 => txn[g] = NoTxn /\ blocked[g] = 0

TxnInv == \A g \in Groups : TxnOf(g)

LEMMA TxnTypes ==
    ASSUME BaseInv
    PROVE  /\ txn \in [Groups -> Transactions] /\ blocked \in [Groups -> Nat]
           /\ version \in [Groups -> Nat] /\ value \in [Groups -> Readings \cup {NoReading}]
           /\ NoReading \notin Readings /\ activeGen \in Nat
           /\ client \in {0, gen} /\ activeGen \in {0, gen}
           /\ \A o \in Ops : GroupOf(o) \in Groups
  BY ClientAssumption DEF BaseInv, TypeOK, GateType, DataType, SessionType, SessionInv,
     SessionShape, GroupOf, Groups

(* A step that leaves the gates and the session alone and takes no command out of its
   write. *)
LEMMA TxnRest ==
    ASSUME TxnInv, UNCHANGED <<txn, blocked, version, value, activeGen, client>>,
           \A p \in Procs : (pc[p] = "writing" /\ IsCommand(op[p]))
                                => (pc'[p] = "writing" /\ op'[p] = op[p])
    PROVE  TxnInv'
<1>1. \A g \in Groups : Writer(g) => Writer(g)'
  BY DEF Writer
<1>. QED BY <1>1 DEF TxnInv, TxnOf

(* All gates are open. *)
LEMMA TxnNone ==
    ASSUME BaseInv', txn' = [g \in Groups |-> NoTxn], blocked' = [g \in Groups |-> 0]
    PROVE  TxnInv'
<1>1. version' \in [Groups -> Nat]
  BY DEF BaseInv, TypeOK, DataType
<1>. QED BY <1>1 DEF TxnInv, TxnOf, NoTxn

(* What the task inside a write knows. *)
LEMMA TxnWriter ==
    ASSUME BaseInv, Numbered, TxnInv, NEW p \in Procs, pc[p] = "writing"
    PROVE  /\ activeGen = writeSession /\ client = writeSession /\ client # 0
           /\ \A x \in Procs : pc[x] = "writing" => x = p
           /\ \A g \in Groups : txn[g].phase \in {"SENDING", "CONFIRMED"}
                                    => (IsCommand(op[p]) /\ g = GroupOf(op[p]))
<1>1. activeGen = writeSession /\ client = writeSession /\ client # 0
  BY DEF BaseInv, SessionInv, WriteSessionStable, SessionChanged, Numbered
<1>2. \A x \in Procs : pc[x] = "writing" => x = p
  BY Tasks DEF HoldingPCs
<1>. QED BY <1>1, <1>2 DEF TxnInv, TxnOf, Writer

(* The end of a write that loses the command, if it was one. *)
LEMMA TxnLost ==
    ASSUME BaseInv, Numbered, TxnInv, NEW p \in Procs, pc[p] = "writing",
           LoseOwn(op[p]), UNCHANGED <<activeGen, client, version, value>>
    PROVE  TxnInv'
<1>1. /\ txn \in [Groups -> Transactions] /\ blocked \in [Groups -> Nat]
      /\ version \in [Groups -> Nat] /\ GroupOf(op[p]) \in Groups
  BY TxnTypes, Tasks
<1>2. /\ activeGen = writeSession /\ client # 0
      /\ \A g \in Groups : txn[g].phase \in {"SENDING", "CONFIRMED"}
                               => (IsCommand(op[p]) /\ g = GroupOf(op[p]))
  BY TxnWriter
<1>3. CASE IsCommand(op[p])
  <2>. PICK h \in Groups : h = GroupOf(op[p])
    BY <1>1
  <2>1. /\ txn' = [txn EXCEPT ![h] = NoTxn]
        /\ blocked' = [blocked EXCEPT ![h] = version[h] + 1]
    BY <1>1, <1>2, <1>3 DEF LoseOwn, Lose, TxnInv, TxnOf
  <2>2. txn'[h] = NoTxn /\ blocked'[h] = version[h] + 1 /\ version'[h] = version[h]
    BY <1>1, <2>1
  <2>3. TxnOf(h)'
    BY <1>1, <1>2, <2>2 DEF TxnOf, NoTxn
  <2>4. ASSUME NEW g \in Groups, g # h PROVE TxnOf(g)'
    <3>1. /\ txn'[g] = txn[g] /\ blocked'[g] = blocked[g]
          /\ txn[g].phase \notin {"SENDING", "CONFIRMED"}
      BY <1>1, <1>2, <2>1, <2>4
    <3>. QED BY <3>1 DEF TxnInv, TxnOf
  <2>. QED BY <2>3, <2>4 DEF TxnInv
<1>4. CASE ~IsCommand(op[p])
  <2>1. txn' = txn /\ blocked' = blocked
    BY <1>4 DEF LoseOwn, gateVars
  <2>2. \A g \in Groups : txn[g].phase \notin {"SENDING", "CONFIRMED"}
    BY <1>2, <1>4
  <2>. QED BY <2>1, <2>2 DEF TxnInv, TxnOf
<1>. QED BY <1>3, <1>4

LEMMA TxnRun ==
    ASSUME BaseInv, BaseInv', Numbered, TxnInv, NEW p \in Procs, Run(p)
    PROVE  TxnInv'
<1>1. /\ pc \in [Procs -> PCs] /\ op \in [Procs -> Ops] /\ Refresh \in Procs
      /\ \A x \in Procs : pc[x] \in HoldingPCs => holder = x
  BY Tasks
<1>2. /\ txn \in [Groups -> Transactions] /\ blocked \in [Groups -> Nat]
      /\ version \in [Groups -> Nat]
  BY TxnTypes
<1>3. connected => client # 0
  BY DEF Numbered
(* What happens to the gate of g leaves the other one alone. *)
<1>4. ASSUME NEW o \in Ops, Inside(p, o), NEW g \in Groups,
             UNCHANGED <<activeGen, client, version, value>>,
             NEW t, txn' = [txn EXCEPT ![g] = t], NEW b, blocked' = [blocked EXCEPT ![g] = b],
             NEW l, pc' = [pc EXCEPT ![p] = l], TxnOf(g)'
      PROVE  TxnInv'
  <2>1. \A x \in Procs : pc[x] # "writing"
    BY <1>1, <1>4 DEF Inside, HoldingPCs
  <2>2. ASSUME NEW h \in Groups, h # g PROVE TxnOf(h)'
    <3>1. txn'[h] = txn[h] /\ blocked'[h] = blocked[h]
      BY <1>2, <1>4, <2>2
    <3>2. txn[h].phase \notin {"SENDING", "CONFIRMED"}
      BY <2>1 DEF TxnInv, TxnOf, Writer
    <3>. QED BY <1>4, <3>1, <3>2 DEF TxnInv, TxnOf
  <2>. QED BY <1>4, <2>2 DEF TxnInv
<1>5. CASE SendStatusRequest(p)
  <2>1. /\ Inside(p, "status") /\ UNCHANGED <<sessionVars, dataVars, gateVars>>
    BY <1>5 DEF SendStatusRequest
  <2>2. \A x \in Procs : pc[x] # "writing"
    BY <1>1, <2>1 DEF Inside, HoldingPCs
  <2>. QED BY <2>1, <2>2, TxnRest DEF sessionVars, dataVars, gateVars
<1>6. CASE Submit(p)
  <2>1. PICK o \in Groups \cup {"keepalive"}, x \in Readings :
            LET g == GroupOf(o) IN
            /\ Inside(p, o) /\ Authorized(g)
            /\ UNCHANGED <<activeGen, client, version, value>>
            /\ \/ /\ Writable
                  /\ txn' = [txn EXCEPT ![g] = Transaction(g, x)]
                  /\ pc' = [pc EXCEPT ![p] = "writing"]
                  /\ UNCHANGED <<op, blocked>>
               \/ /\ ~Writable
                  /\ blocked' = [blocked EXCEPT ![g] = version[g] + 1]
                  /\ pc' = [pc EXCEPT ![p] = "idle"]
                  /\ UNCHANGED txn
    BY <1>6 DEF Submit, sessionVars, dataVars
  <2>. DEFINE g == GroupOf(o)
  <2>2. o \in Ops /\ g \in Groups /\ IsCommand(o) /\ op[p] = o
    BY <2>1 DEF Ops, Groups, GroupOf, IsCommand, Inside
  <2>3. /\ txn[g] = NoTxn /\ blocked[g] <= version[g] /\ client # 0 /\ activeGen # 0
    BY <1>2, <1>3, <2>1, <2>2 DEF Authorized, Usable, Ambiguous
  <2>4. CASE Writable
    <3>1. /\ txn' = [txn EXCEPT ![g] = Transaction(g, x)] /\ blocked' = blocked
          /\ pc' = [pc EXCEPT ![p] = "writing"] /\ op' = op
      BY <2>1, <2>4
    <3>2. Writer(g)'
      BY <1>1, <2>2, <3>1 DEF Writer
    <3>3. txn'[g] = Transaction(g, x)
      BY <1>2, <2>2, <3>1
    <3>4. txn'[g].gen = activeGen /\ txn'[g].phase = "SENDING"
      BY <3>3 DEF Transaction
    <3>5. TxnOf(g)'
      BY <1>2, <2>1, <2>2, <2>3, <3>1, <3>2, <3>4 DEF TxnOf
    <3>6. blocked' = [blocked EXCEPT ![g] = blocked[g]]
      BY <1>2, <3>1
    <3>. QED BY <1>4, <2>1, <2>2, <3>1, <3>5, <3>6
  <2>5. CASE ~Writable
    <3>1. /\ blocked' = [blocked EXCEPT ![g] = version[g] + 1] /\ txn' = txn
          /\ pc' = [pc EXCEPT ![p] = "idle"]
      BY <2>1, <2>5
    <3>2. TxnOf(g)'
      BY <1>2, <2>1, <2>2, <2>3, <3>1 DEF TxnOf, NoTxn
    <3>3. txn' = [txn EXCEPT ![g] = txn[g]]
      BY <1>2, <3>1
    <3>. QED BY <1>4, <2>1, <2>2, <3>1, <3>2, <3>3
  <2>. QED BY <2>4, <2>5
<1>7. CASE Decline(p)
  <2>1. PICK o \in Groups \cup {"keepalive"} :
            LET g == GroupOf(o)
                late == Capable /\ Usable /\ txn[g] # NoTxn /\ txn[g].expired IN
            /\ Inside(p, o) /\ UNCHANGED <<activeGen, client, version, value>>
            /\ txn' = IF late THEN [txn EXCEPT ![g] = NoTxn] ELSE txn
            /\ blocked' = IF late THEN [blocked EXCEPT ![g] = version[g] + 1] ELSE blocked
            /\ pc' = [pc EXCEPT ![p] = "idle"]
    BY <1>7 DEF Decline, sessionVars, dataVars
  <2>. DEFINE g == GroupOf(o)
              late == Capable /\ Usable /\ txn[g] # NoTxn /\ txn[g].expired
  <2>2. o \in Ops /\ g \in Groups
    BY DEF Ops, Groups, GroupOf
  <2>3. CASE late
    <3>1. /\ txn' = [txn EXCEPT ![g] = NoTxn]
          /\ blocked' = [blocked EXCEPT ![g] = version[g] + 1] /\ client # 0
      BY <1>3, <2>1, <2>3 DEF Usable
    <3>2. txn'[g] = NoTxn /\ blocked'[g] = version[g] + 1
      BY <1>2, <2>2, <3>1
    <3>3. TxnOf(g)'
      BY <1>2, <2>1, <2>2, <3>1, <3>2 DEF TxnOf, NoTxn
    <3>. QED BY <1>4, <2>1, <2>2, <3>1, <3>3
  <2>4. CASE ~late
    <3>1. txn' = txn /\ blocked' = blocked
      BY <2>1, <2>4
    <3>2. \A x \in Procs : pc[x] # "writing"
      BY <1>1, <2>1 DEF Inside, HoldingPCs
    <3>. QED BY <2>1, <3>1, <3>2, TxnRest
  <2>. QED BY <2>3, <2>4
<1>8. CASE DisconnectClient(p)
  BY <1>8, TxnNone DEF DisconnectClient
<1>9. CASE WriteSucceeds(p)
  <2>1. /\ pc[p] = "writing" /\ IsCommand(op[p]) /\ Submitted(GroupOf(op[p]))
        /\ UNCHANGED <<activeGen, client, version, value>>
    BY <1>9 DEF WriteSucceeds, Resumes, sessionVars, dataVars
  <2>2. PICK h \in Groups : h = GroupOf(op[p])
    BY <1>1, TxnTypes
  <2>3. ASSUME NEW g \in Groups, g # h PROVE TxnOf(g)'
    <3>1. txn'[g] = txn[g] /\ blocked'[g] = blocked[g]
      BY <1>2, <2>1, <2>2, <2>3 DEF Submitted
    <3>2. txn[g].phase \notin {"SENDING", "CONFIRMED"}
      BY <2>1, <2>2, <2>3, TxnWriter
    <3>. QED BY <2>1, <3>1, <3>2 DEF TxnInv, TxnOf
  <2>4. TxnOf(h)'
    <3>1. TxnOf(h) /\ blocked' = blocked /\ txn[h] \in Transactions
      BY <1>2, <2>1, <2>2 DEF TxnInv, Submitted
    <3>2. CASE txn[h].phase = "CONFIRMED" \/ txn[h] = NoTxn
      <4>1. txn'[h] = NoTxn
        BY <1>2, <2>1, <2>2, <3>2 DEF Submitted, NoTxn
      <4>. QED BY <2>1, <3>1, <4>1 DEF TxnOf, NoTxn
    <3>3. CASE txn[h].phase # "CONFIRMED" /\ txn[h] # NoTxn
      <4>1. txn'[h] = [txn[h] EXCEPT !.phase = "AWAITING_CONFIRMATION"]
        BY <1>2, <2>1, <2>2, <3>3 DEF Submitted
      <4>2. txn'[h].phase = "AWAITING_CONFIRMATION" /\ txn'[h].gen = txn[h].gen
        BY <3>1, <3>3, <4>1 DEF Transactions
      <4>. QED BY <2>1, <3>1, <3>3, <4>2 DEF TxnOf
    <3>. QED BY <3>2, <3>3
  <2>. QED BY <2>3, <2>4 DEF TxnInv
<1>10. CASE WriteReturns(p) \/ WriteFails(p)
  BY <1>10, TxnLost DEF WriteReturns, WriteFails, Resumes, sessionVars, dataVars
<1>11. CASE Disconnected(p)
  <2>1. /\ pc[p] = "disc" /\ pc' = [pc EXCEPT ![p] = Resting(p)]
        /\ UNCHANGED <<op, sessionVars, dataVars, gateVars>>
    BY <1>11 DEF Disconnected, Resumes
  <2>2. \A x \in Procs : pc[x] # "writing"
    BY <1>1, <2>1 DEF HoldingPCs
  <2>. QED BY <2>1, <2>2, TxnRest DEF sessionVars, dataVars, gateVars
<1>. QED BY <1>5, <1>6, <1>7, <1>8, <1>9, <1>10, <1>11 DEF Run

LEMMA TxnConn ==
    ASSUME BaseInv, BaseInv', Numbered, TxnInv, ConnStep
    PROVE  TxnInv'
<1>1. /\ pc \in [Procs -> PCs] /\ op \in [Procs -> Ops] /\ Conn \in Procs
      /\ op[Conn] \in {"none", "connect", "disconnect"}
  BY Tasks DEF Numbered
<1>2. ~IsCommand(op[Conn])
  BY <1>1 DEF IsCommand, Groups
(* The connection task goes anywhere and writes no command. *)
<1>3. ASSUME UNCHANGED <<txn, blocked, version, value, activeGen, client>>,
             NEW l, pc' = [pc EXCEPT ![Conn] = l],
             NEW o, op' = [op EXCEPT ![Conn] = o]
      PROVE  TxnInv'
  <2>1. ASSUME NEW p \in Procs, pc[p] = "writing", IsCommand(op[p])
        PROVE  pc'[p] = "writing" /\ op'[p] = op[p]
    BY <1>1, <1>2, <1>3, <2>1
  <2>. QED BY <1>3, <2>1, TxnRest
<1>4. CASE StartAttempt
  <2>1. client = 0
    BY <1>4 DEF BaseInv, SessionInv, SessionShape, Between, StartAttempt, Resumes
  <2>2. \A g \in Groups : txn[g] = NoTxn /\ blocked[g] = 0
    BY <2>1 DEF TxnInv, TxnOf
  <2>3. UNCHANGED <<txn, blocked, version, value, client>>
    BY <1>4 DEF StartAttempt, dataVars, gateVars
  <2>4. version \in [Groups -> Nat]
    BY TxnTypes
  <2>5. ASSUME NEW g \in Groups PROVE TxnOf(g)'
    <3>1. txn'[g] = NoTxn /\ blocked'[g] = 0 /\ version'[g] \in Nat
      BY <2>2, <2>3, <2>4
    <3>. QED BY <3>1 DEF TxnOf, NoTxn
  <2>. QED BY <2>5 DEF TxnInv
<1>5. CASE Install
  BY <1>5, TxnNone DEF Install
<1>6. CASE EstablishFails \/ Established \/ SubscribeFails \/ Subscribed \/ Abort \/ SessionEnds
  <2>1. /\ UNCHANGED <<txn, blocked, version, value, activeGen, client>>
        /\ \E l : pc' = [pc EXCEPT ![Conn] = l]
        /\ op' = op \/ \E o : op' = [op EXCEPT ![Conn] = o]
    BY <1>6 DEF EstablishFails, Established, SubscribeFails, Subscribed, Abort, SessionEnds,
       Acquire, EndOp, sessionVars, dataVars, gateVars
  <2>2. \E o : op' = [op EXCEPT ![Conn] = o]
    <3>1. op = [op EXCEPT ![Conn] = op[Conn]]
      BY <1>1
    <3>. QED BY <2>1, <3>1
  <2>. QED BY <1>3, <2>1, <2>2
<1>7. CASE FirstRequestSent
  <2>1. /\ UNCHANGED <<txn, blocked, version, value, activeGen, client>>
        /\ \E l : pc' = [pc EXCEPT ![Conn] = l]
        /\ \E o : op' = [op EXCEPT ![Conn] = o]
    <3>1. CASE Reacquire(Conn, "disconnect", After(Conn))
      BY <1>7, <3>1 DEF FirstRequestSent, Reacquire, sessionVars, dataVars, gateVars
    <3>2. CASE Opened
      BY <1>7, <3>2 DEF FirstRequestSent, Opened, EndOp, sessionVars, dataVars, gateVars
    <3>. QED BY <1>7, <3>1, <3>2 DEF FirstRequestSent
  <2>. QED BY <1>3, <2>1
<1>. QED BY <1>4, <1>5, <1>6, <1>7 DEF ConnStep

(* A packet settles or contradicts the pending command of its group, and lifts the mark
   that waits for it. *)
LEMMA TxnNotification ==
    ASSUME BaseInv, TxnInv, NEW s \in Nat, NEW k \in Packets, Notification(s, k)
    PROVE  TxnInv'
<1>1. PICK g \in Groups : g = k.group
  BY ClientAssumption DEF PacketType
<1>2. /\ txn \in [Groups -> Transactions] /\ blocked \in [Groups -> Nat]
      /\ version \in [Groups -> Nat]
  BY TxnTypes
<1>3. /\ value' = [value EXCEPT ![g] = k.value]
      /\ version' = [version EXCEPT ![g] = version[g] + 1]
      /\ client # 0 /\ UNCHANGED <<pc, op, activeGen, client>>
      /\ Converge(g, k.value, k.plausible, version[g] + 1)
  BY <1>1 DEF Notification, Current, taskVars
<1>4. Writer(g)' <=> Writer(g)
  BY <1>3 DEF Writer
<1>5. ASSUME NEW h \in Groups, h # g PROVE TxnOf(h)'
  <2>1. /\ txn'[h] = txn[h] /\ blocked'[h] = blocked[h] /\ version'[h] = version[h]
        /\ Writer(h)' <=> Writer(h)
    BY <1>2, <1>3, <1>5 DEF Converge, Writer
  <2>2. value'[h] = value[h]
    BY <1>3, <1>5, TxnTypes
  <2>. QED BY <1>3, <2>1, <2>2 DEF TxnInv, TxnOf
<1>6. TxnOf(g)'
  <2>. DEFINE t == txn[g]
              v == version[g] + 1
              match == v > t.source /\ k.plausible /\ k.value = t.target
              b == IF t # NoTxn /\ t.gen = activeGen /\ t.expired THEN v + 1
                   ELSE IF v >= blocked[g] THEN 0 ELSE blocked[g]
              u == IF t = NoTxn \/ t.gen # activeGen \/ t.expired THEN NoTxn
                   ELSE IF match
                        THEN IF t.phase = "AWAITING_CONFIRMATION" THEN NoTxn
                             ELSE [t EXCEPT !.phase = "CONFIRMED"]
                   ELSE IF t.phase = "CONFIRMED" THEN [t EXCEPT !.phase = "SENDING"] ELSE t
  <2>1. /\ txn'[g] = u /\ blocked'[g] = b /\ version'[g] = v
    BY <1>2, <1>3, Zenon DEF Converge
  <2>2. value'[g] = k.value
    BY <1>3, TxnTypes
  <2>3. TxnOf(g) /\ t \in Transactions /\ v \in Nat /\ v = version[g] + 1
    BY <1>2 DEF TxnInv
  <2>4. b \in Nat /\ b <= v + 1
    <3>1. blocked[g] \in Nat /\ blocked[g] <= v
      BY <1>2, <2>3 DEF TxnOf
    <3>2. b \in {v + 1, 0, blocked[g]}
      OBVIOUS
    <3>. QED BY <2>3, <3>1, <3>2
  <2>5. CASE t = NoTxn \/ t.gen # activeGen \/ t.expired
    BY <1>3, <2>1, <2>4, <2>5 DEF TxnOf, NoTxn
  <2>6. CASE ~ (t = NoTxn \/ t.gen # activeGen \/ t.expired)
    <3>1. b = 0
      BY <1>2, <2>3, <2>6 DEF TxnOf
    <3>2. CASE match /\ t.phase = "AWAITING_CONFIRMATION"
      BY <1>3, <2>1, <2>3, <2>6, <3>1, <3>2 DEF TxnOf, NoTxn
    <3>3. CASE match /\ t.phase # "AWAITING_CONFIRMATION"
      <4>1. u = [t EXCEPT !.phase = "CONFIRMED"]
        BY <2>6, <3>3
      <4>2. /\ u.phase = "CONFIRMED" /\ u.gen = t.gen /\ u.target = t.target
            /\ t.phase \in {"SENDING", "CONFIRMED"}
        BY <2>3, <2>6, <3>3, <4>1 DEF Transactions, Phases
      <4>. QED BY <1>3, <1>4, <2>1, <2>2, <2>3, <2>6, <3>1, <3>3, <4>2 DEF TxnOf
    <3>4. CASE ~match /\ t.phase = "CONFIRMED"
      <4>1. u = [t EXCEPT !.phase = "SENDING"]
        BY <2>6, <3>4
      <4>2. u.phase = "SENDING" /\ u.gen = t.gen
        BY <2>3, <2>6, <4>1 DEF Transactions
      <4>. QED BY <1>3, <1>4, <2>1, <2>3, <2>6, <3>1, <3>4, <4>2 DEF TxnOf
    <3>5. CASE ~match /\ t.phase # "CONFIRMED"
      <4>1. u = t
        BY <2>6, <3>5
      <4>. QED BY <1>3, <1>4, <2>1, <2>3, <2>6, <3>1, <3>5, <4>1 DEF TxnOf
    <3>. QED BY <3>2, <3>3, <3>4, <3>5
  <2>. QED BY <2>5, <2>6
<1>. QED BY <1>5, <1>6 DEF TxnInv

LEMMA TxnStep ==
    ASSUME BaseInv, BaseInv', Numbered, TxnInv, [Next]_vars
    PROVE  TxnInv'
<1>1. /\ pc \in [Procs -> PCs] /\ op \in [Procs -> Ops] /\ Conn \in Procs
      /\ Stop \in Procs /\ Refresh \in Procs
      /\ \A x \in Procs : pc[x] \in HoldingPCs => holder = x
  BY Tasks
(* A task that does not write takes any step that leaves the gates alone. *)
<1>2. ASSUME NEW p \in Procs, pc[p] # "writing" \/ ~IsCommand(op[p]),
             NEW l, pc' = [pc EXCEPT ![p] = l], NEW o, op' = [op EXCEPT ![p] = o],
             UNCHANGED <<sessionVars, dataVars, gateVars>>
      PROVE  TxnInv'
  <2>1. ASSUME NEW x \in Procs, pc[x] = "writing", IsCommand(op[x])
        PROVE  pc'[x] = "writing" /\ op'[x] = op[x]
    BY <1>1, <1>2, <2>1
  <2>. QED BY <1>2, <2>1, TxnRest DEF sessionVars, dataVars, gateVars
<1>3. ASSUME NEW p \in Callers, Reconnect(p) \/ \E o \in Calls : Call(p, o)
      PROVE  TxnInv'
  <2>1. /\ pc' = [pc EXCEPT ![p] = "lock"] /\ \E o : op' = [op EXCEPT ![p] = o]
        /\ pc[p] = "idle" /\ UNCHANGED <<sessionVars, dataVars, gateVars>> /\ p \in Procs
    BY <1>3 DEF Reconnect, Call, Acquire, Procs
  <2>. QED BY <1>2, <2>1
<1>4. CASE RefreshFires \/ StopGathered
  <2>1. \E p \in {Refresh, Stop} :
            /\ pc' = [pc EXCEPT ![p] = "lock"] /\ \E o : op' = [op EXCEPT ![p] = o]
            /\ pc[p] # "writing" /\ UNCHANGED <<sessionVars, dataVars, gateVars>>
    <3>1. CASE RefreshFires
      BY <3>1 DEF RefreshFires, Resumes, Acquire
    <3>2. CASE StopGathered
      BY <3>2 DEF StopGathered, Acquire
    <3>. QED BY <1>4, <3>1, <3>2
  <2>. QED BY <1>1, <1>2, <2>1
<1>5. CASE StopBegins
  <2>1. /\ pc' = [pc EXCEPT ![Stop] = "gather"] /\ op' = op /\ pc[Stop] # "writing"
        /\ UNCHANGED <<sessionVars, dataVars, gateVars>>
    BY <1>5 DEF StopBegins
  <2>2. op' = [op EXCEPT ![Stop] = op[Stop]]
    BY <1>1, <2>1
  <2>. QED BY <1>1, <1>2, <2>1, <2>2
<1>6. ASSUME NEW p \in Procs, Deliver(p)
      PROVE  TxnInv'
  <2>1. CASE CancelWriting(p)
    BY <2>1, TxnLost DEF CancelWriting, sessionVars, dataVars
  <2>2. CASE CancelResting(p) \/ CancelWaiting(p) \/ CancelDisconnect(p)
    <3>1. /\ pc' = [pc EXCEPT ![p] = Cancelled(p)] /\ pc[p] # "writing"
          /\ op' = op \/ op' = [op EXCEPT ![p] = "none"]
          /\ UNCHANGED <<sessionVars, dataVars, gateVars>>
      BY <2>2 DEF CancelResting, CancelWaiting, CancelDisconnect, EndOp
    <3>2. op = [op EXCEPT ![p] = op[p]]
      BY <1>1
    <3>. QED BY <1>2, <3>1, <3>2
  <2>. QED BY <1>6, <2>1, <2>2 DEF Deliver
<1>7. CASE CancelConnection
  <2>1. /\ pc' = [pc EXCEPT ![Conn] = "lock"] \/ pc' = pc
        /\ op' = [op EXCEPT ![Conn] = "disconnect"]
        /\ UNCHANGED <<sessionVars, dataVars, gateVars>>
    BY <1>7 DEF CancelConnection, Acquire, Reacquire
  <2>2. pc = [pc EXCEPT ![Conn] = pc[Conn]]
    BY <1>1
  <2>3. ~IsCommand(op[Conn])
    BY DEF Numbered, IsCommand, Groups
  <2>. QED BY <1>1, <1>2, <2>1, <2>2, <2>3
<1>8. ASSUME NEW g \in Groups, DeadlinePasses(g)
      PROVE  TxnInv'
  <2>1. /\ txn[g].phase = "AWAITING_CONFIRMATION" /\ txn' = [txn EXCEPT ![g].expired = TRUE]
        /\ UNCHANGED <<pc, op, activeGen, client, version, value, blocked>>
    BY <1>8 DEF DeadlinePasses, taskVars, sessionVars, dataVars
  <2>2. txn \in [Groups -> Transactions] /\ txn[g] # NoTxn
    BY <2>1, TxnTypes DEF NoTxn
  <2>3. \A h \in Groups \ {g} : txn'[h] = txn[h]
    BY <2>1, <2>2
  <2>4. txn'[g].phase = txn[g].phase /\ txn'[g].gen = txn[g].gen
    BY <2>1, <2>2 DEF Transactions
  <2>5. \A h \in Groups : Writer(h)' <=> Writer(h)
    BY <2>1 DEF Writer
  <2>6. TxnOf(g)'
    BY <2>1, <2>2, <2>4 DEF TxnInv, TxnOf
  <2>7. ASSUME NEW h \in Groups \ {g} PROVE TxnOf(h)'
    BY <2>1, <2>3, <2>5 DEF TxnInv, TxnOf
  <2>. QED BY <2>6, <2>7 DEF TxnInv
<1>9. ASSUME \/ \E p \in Procs : Completes(p)
             \/ \E s \in 1..MaxSessions : RequestDisconnect(s)
             \/ \E s \in 1..MaxSessions : LinkDrops(s)
             \/ \E g \in Groups : Stale(g)
             \/ UNCHANGED vars
      PROVE  TxnInv'
  <2>1. UNCHANGED <<pc, op, txn, blocked, version, value, activeGen, client>>
    BY <1>9 DEF LinkDrops, Stale, Completes, RequestDisconnect, vars, taskVars, sessionVars,
       dataVars, gateVars
  <2>. QED BY <2>1, TxnRest
<1>10. ASSUME NEW s \in 1..MaxSessions, NEW k \in Packets, Notification(s, k)
       PROVE  TxnInv'
  <2>1. s \in Nat
    BY ClientAssumption
  <2>. QED BY <1>10, <2>1, TxnNotification
<1>11. TypeOK
  BY DEF BaseInv
<1>. QED BY <1>3, <1>4, <1>5, <1>6, <1>7, <1>8, <1>9, <1>10, <1>11, Steps, TxnRun, TxnConn

LEMMA TxnInit == Init => TxnInv
  BY DEF Init, TxnInv, TxnOf, NoTxn

(* No command is stranded: one that is being sent has a task inside the GATT write that
   sends it, and a pending one belongs to the session that is active -- whatever fails,
   times out, is cancelled or reconnects (client.py, _write_transaction_unlocked and
   _disconnect_client). *)
THEOREM NothingStranded == Spec => []NoStrandedTransaction
<1>1. Init => BaseInv /\ Numbered /\ TxnInv
  BY BaseInit, NumberedInit, TxnInit
<1>2. BaseInv /\ Numbered /\ TxnInv /\ [Next]_vars => (BaseInv /\ Numbered /\ TxnInv)'
  BY BaseStep, NumberedStep, TxnStep
<1>3. TxnInv => NoStrandedTransaction
  BY DEF TxnInv, TxnOf, Writer, NoStrandedTransaction
<1>. QED BY <1>1, <1>2, <1>3, PTL DEF Spec

-----------------------------------------------------------------------------
(* The refinement of CommandGate.  What it sees of the client are two functions on the
   groups: the gate each group shows, and what its unresolved command asked for. *)
Gates == [g \in Groups |-> GateOf(g)]
Wants == [g \in Groups |-> txn[g].target]

(* A step that leaves the gates, the session and the readings alone. *)
LEMMA GateStutter ==
    ASSUME UNCHANGED <<gen, activeGen, value, txn, blocked, version>>
    PROVE  UNCHANGED Gate!vars
  BY DEF Gate!vars, GateOf, Ambiguous

(* The gate of one group changes. *)
LEMMA GateChange ==
    ASSUME NEW h \in Groups, NEW x, NEW y, GateOf(h)' = x, txn'[h].target = y,
           \A g \in Groups \ {h} : txn'[g] = txn[g] /\ blocked'[g] = blocked[g]
                                       /\ version'[g] = version[g]
    PROVE  /\ Gates' = [Gates EXCEPT ![h] = x]
           /\ Wants' = [Wants EXCEPT ![h] = y]
<1>1. \A g \in Groups \ {h} : GateOf(g)' = GateOf(g) /\ txn'[g].target = txn[g].target
  BY DEF GateOf, Ambiguous
<1>. QED BY <1>1 DEF Gates, Wants

(* Any open or pending command may be lost while a session is active; one that is
   ambiguous stays so. *)
LEMMA GateLoses ==
    ASSUME BaseInv, TxnInv, activeGen # 0, NEW h \in Groups,
           txn' = [txn EXCEPT ![h] = NoTxn], blocked' = [blocked EXCEPT ![h] = version[h] + 1],
           UNCHANGED <<gen, activeGen, value, version>>
    PROVE  Gate!Lose(h) \/ UNCHANGED Gate!vars
<1>1. /\ txn \in [Groups -> Transactions] /\ blocked \in [Groups -> Nat]
      /\ version \in [Groups -> Nat]
  BY TxnTypes
<1>2. txn'[h] = NoTxn /\ blocked'[h] = version[h] + 1 /\ version' = version
  BY <1>1
<1>3. GateOf(h)' = "ambiguous" /\ txn'[h].target = NoReading
  BY <1>1, <1>2 DEF GateOf, Ambiguous, NoTxn
<1>4. \A g \in Groups \ {h} : txn'[g] = txn[g] /\ blocked'[g] = blocked[g]
                                  /\ version'[g] = version[g]
  BY <1>1
<1>5. /\ Gates' = [Gates EXCEPT ![h] = "ambiguous"]
      /\ Wants' = [Wants EXCEPT ![h] = NoReading]
  BY <1>3, <1>4, GateChange
<1>6. CASE GateOf(h) \in {"open", "pending"}
  BY <1>5, <1>6 DEF Gate!Lose, Gate!Resolve, Gates, Wants
<1>7. CASE GateOf(h) \notin {"open", "pending"}
  <2>1. txn[h] = NoTxn /\ GateOf(h) = "ambiguous"
    BY <1>7 DEF GateOf
  <2>2. Gates[h] = "ambiguous" /\ Wants[h] = NoReading
    BY <2>1 DEF Gates, Wants, NoTxn
  <2>3. Gates' = Gates /\ Wants' = Wants
    BY <1>5, <2>2 DEF Gates, Wants
  <2>. QED BY <2>3 DEF Gate!vars, Gates, Wants
<1>. QED BY <1>6, <1>7

(* So may the command of a write that ends badly, if it was one. *)
LEMMA GateWriteLost ==
    ASSUME BaseInv, Numbered, TxnInv, NEW p \in Procs, pc[p] = "writing",
           LoseOwn(op[p]), UNCHANGED <<gen, activeGen, value, version>>
    PROVE  [Gate!Next]_(Gate!vars)
<1>1. /\ txn \in [Groups -> Transactions] /\ GroupOf(op[p]) \in Groups
  BY Tasks, TxnTypes
<1>2. activeGen = writeSession /\ activeGen # 0
  BY TxnWriter
<1>3. CASE IsCommand(op[p])
  <2>1. PICK h \in Groups : h = GroupOf(op[p])
    BY <1>1
  <2>2. /\ txn' = [txn EXCEPT ![h] = NoTxn]
        /\ blocked' = [blocked EXCEPT ![h] = version[h] + 1]
    BY <1>1, <1>2, <1>3, <2>1 DEF LoseOwn, Lose, TxnInv, TxnOf
  <2>. QED BY <1>2, <2>2, GateLoses DEF Gate!Next
<1>4. CASE ~IsCommand(op[p])
  BY <1>4, GateStutter DEF LoseOwn, gateVars
<1>. QED BY <1>3, <1>4

LEMMA GateRun ==
    ASSUME BaseInv, Numbered, TxnInv, NEW p \in Procs, Run(p)
    PROVE  [Gate!Next]_(Gate!vars)
<1>1. /\ pc \in [Procs -> PCs] /\ op \in [Procs -> Ops]
      /\ txn \in [Groups -> Transactions] /\ blocked \in [Groups -> Nat]
      /\ version \in [Groups -> Nat] /\ activeGen \in Nat
      /\ GroupOf(op[p]) \in Groups
  BY Tasks, TxnTypes
<1>2. CASE SendStatusRequest(p) \/ Disconnected(p)
  BY <1>2, GateStutter DEF SendStatusRequest, Disconnected, sessionVars, dataVars, gateVars
<1>3. CASE WriteReturns(p) \/ WriteFails(p)
  BY <1>3, GateWriteLost DEF WriteReturns, WriteFails, Resumes, sessionVars, dataVars
<1>4. CASE Submit(p)
  <2>1. PICK o \in Groups \cup {"keepalive"}, x \in Readings :
            LET g == GroupOf(o) IN
            /\ Authorized(g) /\ UNCHANGED <<gen, activeGen, value, version>>
            /\ \/ /\ txn' = [txn EXCEPT ![g] = Transaction(g, x)] /\ UNCHANGED blocked
               \/ /\ blocked' = [blocked EXCEPT ![g] = version[g] + 1] /\ UNCHANGED txn
    BY <1>4 DEF Submit, sessionVars, dataVars
  <2>2. PICK g \in Groups : g = GroupOf(o)
    BY DEF GroupOf, Groups
  <2>3. txn[g] = NoTxn /\ ~Ambiguous(g) /\ activeGen # 0
    BY <2>1, <2>2 DEF Authorized
  <2>4. CASE txn' = [txn EXCEPT ![g] = Transaction(g, x)] /\ UNCHANGED blocked
    <3>1. txn'[g] = Transaction(g, x)
      BY <1>1, <2>4
    <3>2. txn'[g] # NoTxn /\ txn'[g].target = x
      BY <2>3, <3>1 DEF Transaction, NoTxn
    <3>3. GateOf(g)' = "pending"
      BY <3>2 DEF GateOf
    <3>4. \A h \in Groups \ {g} : txn'[h] = txn[h] /\ blocked'[h] = blocked[h]
                                      /\ version'[h] = version[h]
      BY <1>1, <2>1, <2>4
    <3>5. Gates' = [Gates EXCEPT ![g] = "pending"] /\ Wants' = [Wants EXCEPT ![g] = x]
      BY <3>2, <3>3, <3>4, GateChange
    <3>6. GateOf(g) = "open"
      BY <2>3 DEF GateOf
    <3>7. Gate!Submit(g)
      BY <2>1, <2>3, <3>5, <3>6 DEF Gate!Submit, Gates, Wants
    <3>. QED BY <3>7 DEF Gate!Next
  <2>5. CASE blocked' = [blocked EXCEPT ![g] = version[g] + 1] /\ UNCHANGED txn
    <3>1. txn' = [txn EXCEPT ![g] = NoTxn]
      BY <1>1, <2>3, <2>5
    <3>. QED BY <2>1, <2>3, <2>5, <3>1, GateLoses DEF Gate!Next
  <2>. QED BY <2>1, <2>2, <2>4, <2>5
<1>5. CASE Decline(p)
  <2>1. PICK o \in Groups \cup {"keepalive"} :
            LET g == GroupOf(o)
                late == Capable /\ Usable /\ txn[g] # NoTxn /\ txn[g].expired IN
            /\ UNCHANGED <<gen, activeGen, value, version>>
            /\ txn' = IF late THEN [txn EXCEPT ![g] = NoTxn] ELSE txn
            /\ blocked' = IF late THEN [blocked EXCEPT ![g] = version[g] + 1] ELSE blocked
    BY <1>5 DEF Decline, sessionVars, dataVars
  <2>2. PICK g \in Groups : g = GroupOf(o)
    BY DEF GroupOf, Groups
  <2>3. CASE txn' = txn /\ blocked' = blocked
    BY <2>1, <2>3, GateStutter
  <2>4. CASE /\ txn[g] # NoTxn /\ txn' = [txn EXCEPT ![g] = NoTxn]
             /\ blocked' = [blocked EXCEPT ![g] = version[g] + 1]
    <3>1. activeGen # 0
      BY <1>1, <2>4 DEF TxnInv, TxnOf, Transactions
    <3>. QED BY <2>1, <2>4, <3>1, GateLoses DEF Gate!Next
  <2>. QED BY <2>1, <2>2, <2>3, <2>4
<1>6. CASE DisconnectClient(p)
  <2>1. /\ activeGen' = 0 /\ txn' = [g \in Groups |-> NoTxn]
        /\ blocked' = [g \in Groups |-> 0] /\ UNCHANGED <<gen, value>>
    BY <1>6 DEF DisconnectClient, dataVars
  <2>2. \A g \in Groups : GateOf(g)' = "open" /\ txn'[g].target = NoReading
    BY <2>1 DEF GateOf, Ambiguous, NoTxn
  <2>3. Gate!CloseSession
    BY <2>1, <2>2 DEF Gate!CloseSession, Gate!AllOpen, Gate!NoWant
  <2>. QED BY <2>3 DEF Gate!Next
<1>7. CASE WriteSucceeds(p)
  <2>1. /\ Submitted(GroupOf(op[p])) /\ UNCHANGED <<gen, activeGen, value, version>>
    BY <1>7 DEF WriteSucceeds, sessionVars, dataVars
  <2>2. PICK h \in Groups : h = GroupOf(op[p])
    BY <1>1
  <2>3. TxnOf(h) /\ blocked' = blocked /\ txn[h] \in Transactions
    BY <1>1, <2>1, <2>2 DEF TxnInv, Submitted
  <2>4. \A g \in Groups \ {h} : txn'[g] = txn[g] /\ blocked'[g] = blocked[g]
                                    /\ version'[g] = version[g]
    BY <1>1, <2>1, <2>2, <2>3 DEF Submitted
  <2>5. CASE txn[h].phase = "CONFIRMED"
    <3>1. txn'[h] = NoTxn
      BY <1>1, <2>1, <2>2, <2>5 DEF Submitted
    <3>2. txn[h] # NoTxn /\ blocked[h] <= version[h] /\ value[h] = txn[h].target
      BY <2>3, <2>5 DEF TxnOf, NoTxn
    <3>3. GateOf(h)' = "open" /\ txn'[h].target = NoReading
      BY <1>1, <2>1, <2>3, <3>1, <3>2 DEF GateOf, Ambiguous, NoTxn
    <3>4. Gates' = [Gates EXCEPT ![h] = "open"] /\ Wants' = [Wants EXCEPT ![h] = NoReading]
      BY <2>4, <3>3, GateChange
    <3>5. GateOf(h) = "pending"
      BY <3>2 DEF GateOf
    <3>6. Gate!Confirm(h)
      BY <2>1, <3>2, <3>4, <3>5 DEF Gate!Confirm, Gate!Resolve, Gates, Wants
    <3>. QED BY <3>6 DEF Gate!Next
  <2>6. CASE txn[h] = NoTxn
    <3>1. txn' = txn
      BY <2>1, <2>2, <2>6 DEF Submitted, NoTxn
    <3>. QED BY <2>1, <2>3, <3>1, GateStutter
  <2>7. CASE txn[h].phase # "CONFIRMED" /\ txn[h] # NoTxn
    <3>1. txn'[h] = [txn[h] EXCEPT !.phase = "AWAITING_CONFIRMATION"]
      BY <1>1, <2>1, <2>2, <2>7 DEF Submitted
    <3>2. txn'[h] # NoTxn /\ txn'[h].target = txn[h].target
      <4>1. txn'[h].phase = "AWAITING_CONFIRMATION" /\ txn'[h].target = txn[h].target
        BY <2>3, <2>7, <3>1 DEF Transactions
      <4>. QED BY <4>1 DEF NoTxn
    <3>3. GateOf(h)' = "pending" /\ GateOf(h) = "pending"
      BY <2>7, <3>2 DEF GateOf
    <3>4. /\ Gates' = [Gates EXCEPT ![h] = "pending"]
          /\ Wants' = [Wants EXCEPT ![h] = txn[h].target]
      BY <2>4, <3>2, <3>3, GateChange
    <3>5. Gates' = Gates /\ Wants' = Wants
      BY <3>3, <3>4 DEF Gates, Wants
    <3>. QED BY <2>1, <3>5 DEF Gate!vars, Gates, Wants
  <2>. QED BY <2>5, <2>6, <2>7
<1>. QED BY <1>2, <1>3, <1>4, <1>5, <1>6, <1>7 DEF Run

LEMMA GateNotification ==
    ASSUME BaseInv, TxnInv, NEW s \in Nat, NEW k \in Packets, Notification(s, k)
    PROVE  Gate!Next
<1>1. PICK g \in Groups : g = k.group
  BY ClientAssumption DEF PacketType
<1>2. /\ txn \in [Groups -> Transactions] /\ blocked \in [Groups -> Nat]
      /\ version \in [Groups -> Nat]
  BY TxnTypes
<1>3. /\ value' = [value EXCEPT ![g] = k.value]
      /\ version' = [version EXCEPT ![g] = version[g] + 1]
      /\ activeGen # 0 /\ UNCHANGED <<gen, activeGen>>
      /\ Converge(g, k.value, k.plausible, version[g] + 1)
      /\ k.value \in Readings
  BY <1>1, ClientAssumption DEF Notification, Current, PacketType
<1>. DEFINE t == txn[g]
            v == version[g] + 1
            match == v > t.source /\ k.plausible /\ k.value = t.target
            b == IF t # NoTxn /\ t.gen = activeGen /\ t.expired THEN v + 1
                 ELSE IF v >= blocked[g] THEN 0 ELSE blocked[g]
            u == IF t = NoTxn \/ t.gen # activeGen \/ t.expired THEN NoTxn
                 ELSE IF match
                      THEN IF t.phase = "AWAITING_CONFIRMATION" THEN NoTxn
                           ELSE [t EXCEPT !.phase = "CONFIRMED"]
                 ELSE IF t.phase = "CONFIRMED" THEN [t EXCEPT !.phase = "SENDING"] ELSE t
<1>4. /\ txn'[g] = u /\ blocked'[g] = b /\ version'[g] = v
  BY <1>2, <1>3, Zenon DEF Converge
<1>5. \A h \in Groups \ {g} : txn'[h] = txn[h] /\ blocked'[h] = blocked[h]
                                  /\ version'[h] = version[h]
  BY <1>2, <1>3 DEF Converge
<1>6. TxnOf(g) /\ t \in Transactions /\ blocked[g] \in Nat /\ v \in Nat /\ v = version[g] + 1
  BY <1>2 DEF TxnInv
(* The outcomes of the packet: the gate stays as it is, opens or closes. *)
<1>7. ASSUME GateOf(g)' = GateOf(g), txn'[g].target = t.target,
             GateOf(g) \in {"open", "pending"}
      PROVE  Gate!Observe(g, k.value)
  <2>1. /\ Gates' = [Gates EXCEPT ![g] = GateOf(g)]
        /\ Wants' = [Wants EXCEPT ![g] = t.target]
    BY <1>5, <1>7, GateChange
  <2>2. Gates' = Gates /\ Wants' = Wants
    BY <2>1 DEF Gates, Wants
  <2>. QED BY <1>3, <1>7, <2>2 DEF Gate!Observe, Gates, Wants
<1>8. ASSUME NEW x \in {"open", "ambiguous"}, GateOf(g)' = x, txn'[g] = NoTxn,
             \/ GateOf(g) = "ambiguous" /\ x = "open"
             \/ GateOf(g) = "pending" /\ k.value = t.target /\ x = "open"
             \/ GateOf(g) = "pending" /\ x = "ambiguous"
      PROVE  Gate!Observe(g, k.value)
  <2>1. txn'[g].target = NoReading
    BY <1>8 DEF NoTxn
  <2>2. Gates' = [Gates EXCEPT ![g] = x] /\ Wants' = [Wants EXCEPT ![g] = NoReading]
    BY <1>5, <1>8, <2>1, GateChange
  <2>. QED BY <1>3, <1>8, <2>2 DEF Gate!Observe, Gate!Resolve, Gates, Wants
<1>9. CASE t = NoTxn
  <2>1. txn'[g] = NoTxn /\ blocked'[g] = 0
    <3>1. blocked[g] <= v
      BY <1>6 DEF TxnOf
    <3>. QED BY <1>4, <1>6, <1>9, <3>1
  <2>2. GateOf(g)' = "open" /\ GateOf(g) \in {"open", "ambiguous"}
    BY <1>9, <2>1 DEF GateOf, Ambiguous
  <2>3. txn'[g].target = t.target
    BY <1>9, <2>1
  <2>. QED BY <1>3, <1>7, <1>8, <2>1, <2>2, <2>3 DEF Gate!Next
<1>10. CASE t # NoTxn
  <2>1. GateOf(g) = "pending" /\ t.gen = activeGen /\ blocked[g] <= v
    BY <1>6, <1>10, <1>2 DEF GateOf, TxnOf
  <2>2. CASE t.expired
    <3>1. txn'[g] = NoTxn /\ blocked'[g] = v + 1
      BY <1>4, <1>10, <2>1, <2>2
    <3>2. GateOf(g)' = "ambiguous"
      BY <1>4, <1>6, <3>1 DEF GateOf, Ambiguous
    <3>. QED BY <1>3, <1>8, <2>1, <3>1, <3>2 DEF Gate!Next
  <2>3. CASE ~t.expired
    <3>1. blocked'[g] = 0
      BY <1>4, <1>6, <2>1, <2>3
    <3>2. CASE match /\ t.phase = "AWAITING_CONFIRMATION"
      <4>1. txn'[g] = NoTxn
        BY <1>4, <1>10, <2>1, <2>3, <3>2
      <4>2. GateOf(g)' = "open"
        BY <3>1, <4>1 DEF GateOf, Ambiguous
      <4>. QED BY <1>3, <1>8, <2>1, <3>2, <4>1, <4>2 DEF Gate!Next
    <3>3. CASE ~ (match /\ t.phase = "AWAITING_CONFIRMATION")
      <4>1. \/ u = t
            \/ u = [t EXCEPT !.phase = "CONFIRMED"]
            \/ u = [t EXCEPT !.phase = "SENDING"] /\ t.phase = "CONFIRMED"
        BY <1>10, <2>1, <2>3, <3>3
      <4>2. u # NoTxn /\ u.target = t.target
        <5>1. u.target = t.target /\ (u.phase # "NONE" \/ u = t)
          BY <1>6, <1>10, <4>1 DEF Transactions
        <5>. QED BY <1>10, <5>1 DEF NoTxn
      <4>3. GateOf(g)' = "pending" /\ txn'[g].target = t.target
        BY <1>4, <4>2 DEF GateOf
      <4>. QED BY <1>3, <1>7, <2>1, <4>3 DEF Gate!Next
    <3>. QED BY <3>2, <3>3
  <2>. QED BY <2>2, <2>3
<1>. QED BY <1>9, <1>10

LEMMA GateStep ==
    ASSUME BaseInv, Numbered, TxnInv, [Next]_vars
    PROVE  [Gate!Next]_(Gate!vars)
<1>1. /\ txn \in [Groups -> Transactions] /\ client \in {0, gen}
  BY TxnTypes
<1>2. ASSUME UNCHANGED <<sessionVars, dataVars, gateVars>>
      PROVE  UNCHANGED Gate!vars
  BY <1>2, GateStutter DEF sessionVars, dataVars, gateVars
<1>3. CASE StartAttempt
  <2>1. pc[Conn] = "retry"
    BY <1>3 DEF StartAttempt, Resumes
  <2>2. activeGen = 0
    BY <2>1 DEF Numbered
  <2>3. gen' = gen + 1 /\ activeGen' = gen + 1 /\ UNCHANGED <<value, txn, blocked, version>>
    BY <1>3 DEF StartAttempt, dataVars, gateVars
  <2>4. Gate!OpenSession
    BY <2>2, <2>3 DEF Gate!OpenSession, GateOf, Ambiguous
  <2>. QED BY <2>4 DEF Gate!Next
<1>4. CASE Install
  <2>1. /\ pc[Conn] = "lock" /\ op[Conn] = "connect"
        /\ txn' = [g \in Groups |-> NoTxn] /\ blocked' = [g \in Groups |-> 0]
        /\ UNCHANGED <<gen, activeGen, value>>
    BY <1>4 DEF Install, Inside
  <2>2. client = 0
    BY <2>1 DEF BaseInv, SessionInv, SessionShape, Between
  <2>3. \A g \in Groups : txn[g] = NoTxn /\ blocked[g] = 0
    BY <2>2 DEF TxnInv, TxnOf
  <2>4. \A g \in Groups : /\ GateOf(g)' = GateOf(g)
                          /\ txn'[g].target = txn[g].target
    BY <2>1, <2>3 DEF GateOf, Ambiguous
  <2>. QED BY <2>1, <2>4 DEF Gate!vars
<1>5. CASE ConnStep
  <2>1. CASE FirstRequestSent
    BY <1>2, <2>1 DEF FirstRequestSent
  <2>2. CASE Subscribed
    BY <2>2, GateStutter DEF Subscribed, dataVars, gateVars
  <2>3. CASE EstablishFails \/ Established \/ SubscribeFails \/ Abort \/ SessionEnds
    BY <1>2, <2>3 DEF EstablishFails, Established, SubscribeFails, Abort, SessionEnds
  <2>. QED BY <1>3, <1>4, <1>5, <2>1, <2>2, <2>3 DEF ConnStep
<1>6. ASSUME NEW p \in Procs, Deliver(p)
      PROVE  [Gate!Next]_(Gate!vars)
  <2>1. CASE CancelWriting(p)
    BY <2>1, GateWriteLost DEF CancelWriting, sessionVars, dataVars
  <2>2. CASE CancelResting(p) \/ CancelWaiting(p) \/ CancelDisconnect(p)
    BY <1>2, <2>2 DEF CancelResting, CancelWaiting, CancelDisconnect
  <2>. QED BY <1>6, <2>1, <2>2 DEF Deliver
<1>7. ASSUME NEW s \in 1..MaxSessions, NEW k \in Packets, Notification(s, k)
      PROVE  Gate!Next
  <2>1. s \in Nat
    BY ClientAssumption
  <2>. QED BY <1>7, <2>1, GateNotification
<1>8. ASSUME NEW g \in Groups, DeadlinePasses(g)
      PROVE  UNCHANGED Gate!vars
  <2>1. /\ txn[g].phase = "AWAITING_CONFIRMATION" /\ txn' = [txn EXCEPT ![g].expired = TRUE]
        /\ UNCHANGED <<gen, activeGen, version, value, blocked>>
    BY <1>8 DEF DeadlinePasses, sessionVars, dataVars
  <2>2. \A h \in Groups \ {g} : txn'[h] = txn[h]
    BY <1>1, <2>1
  <2>3. txn'[g].phase = txn[g].phase /\ txn'[g].target = txn[g].target
    BY <1>1, <2>1 DEF Transactions
  <2>4. txn[g] # NoTxn /\ txn'[g] # NoTxn
    BY <2>1, <2>3 DEF NoTxn
  <2>5. \A h \in Groups : GateOf(h)' = GateOf(h) /\ txn'[h].target = txn[h].target
    BY <2>1, <2>2, <2>3, <2>4 DEF GateOf, Ambiguous
  <2>. QED BY <2>1, <2>5 DEF Gate!vars
<1>9. ASSUME \/ RefreshFires \/ CancelConnection \/ StopGathered \/ StopBegins
             \/ \E p \in Procs : Completes(p)
             \/ \E p \in Callers : Reconnect(p) \/ \E o \in Calls : Call(p, o)
             \/ \E s \in 1..MaxSessions : RequestDisconnect(s)
             \/ \E s \in 1..MaxSessions : LinkDrops(s)
      PROVE  UNCHANGED Gate!vars
  BY <1>2, <1>9 DEF RefreshFires, CancelConnection, StopGathered, StopBegins, Completes,
     Reconnect, Call, RequestDisconnect, LinkDrops
<1>10. ASSUME (\E g \in Groups : Stale(g)) \/ UNCHANGED vars
       PROVE  UNCHANGED Gate!vars
  BY <1>10, GateStutter DEF Stale, vars, sessionVars, dataVars, gateVars
<1>11. TypeOK
  BY DEF BaseInv
<1>. QED BY <1>5, <1>6, <1>7, <1>8, <1>9, <1>10, <1>11, Steps, GateRun

LEMMA GateInit == Init => Gate!Init
  BY DEF Init, Gate!Init, Gate!AllOpen, Gate!NoWant, GateOf, Ambiguous, NoTxn

(* The client keeps the promise of ADR 0011, whatever fails and however its tasks and
   the device interleave: in each group a command leaves only through an open gate, it
   is resolved by a reading that shows it or leaves the gate closed until the device has
   reported again, and nothing of it survives its session (client.py,
   _write_transaction_unlocked, _converge_* and _disconnect_client). *)
THEOREM GateImplemented == Spec => ImplementsCommandGate
<1>1. Init => BaseInv /\ Numbered /\ TxnInv /\ Gate!Init
  BY BaseInit, NumberedInit, TxnInit, GateInit
<1>2. BaseInv /\ Numbered /\ TxnInv /\ [Next]_vars => (BaseInv /\ Numbered /\ TxnInv)'
  BY BaseStep, NumberedStep, TxnStep
<1>3. BaseInv /\ Numbered /\ TxnInv /\ [Next]_vars => [Gate!Next]_(Gate!vars)
  BY GateStep
<1>. QED BY <1>1, <1>2, <1>3, PTL DEF Spec, ImplementsCommandGate, Gate!Spec

-----------------------------------------------------------------------------
(* async_stop.  A cancelled task does not run before its cancellation reaches it; once
   async_stop has begun, the connection task and the delayed refresh are on the way out
   or have yet to be cancelled, and no write succeeds that would create a new refresh;
   once gather() has returned, nothing it waited for runs again. *)
Cancelling == running \notin cancelReq /\ cancelReq \subseteq {Conn, Refresh} \cup Owned

ConnDown == \/ pc[Conn] \in {"disc", "done"}
            \/ pc[Conn] = "lock" /\ op[Conn] = "disconnect"

Closed == client = 0 /\ activeGen = 0 /\ ~connected /\ ~ready

AllDone == cancelReq = {} /\ \A p \in Owned \cup {Conn} : pc[p] = "done"

StopInv ==
    /\ Cancelling
    /\ pc[Stop] \in {"run", "gather", "lock", "disc", "stopped"}
    /\ pc[Stop] = "lock" => op[Stop] = "disconnect"
    /\ pc[Stop] # "run" => /\ stopEvent /\ discEvent
                           /\ Conn \notin cancelReq => ConnDown
                           /\ Refresh \notin cancelReq => pc[Refresh] = "idle"
    /\ pc[Stop] \in {"lock", "disc", "stopped"} => AllDone
    /\ pc[Stop] \in {"disc", "stopped"} => Closed

LEMMA StopTasks ==
    ASSUME BaseInv, StopInv
    PROVE  /\ NoProc \notin cancelReq /\ Stop \notin cancelReq
           /\ Stop \notin Callers /\ Stop \notin Owned
           /\ Refresh \notin Owned /\ Refresh \notin Callers
           /\ Conn \notin Owned /\ Conn \notin Callers
           /\ \A p \in Procs : Turn(p) => p \notin cancelReq
  BY ClientAssumption DEF StopInv, Cancelling, Turn

(* Until async_stop begins there is nothing to wind down. *)
LEMMA StopNotBegun ==
    ASSUME BaseInv, StopInv, pc'[Stop] = "run", cancelReq' \subseteq cancelReq,
           running' \in {running, NoProc} \/ running' \notin cancelReq
    PROVE  StopInv'
  BY StopTasks DEF StopInv, Cancelling

(* A step of another task that lets nothing come back. *)
LEMMA StopRest ==
    ASSUME BaseInv, StopInv,
           pc'[Stop] = pc[Stop], op'[Stop] = op[Stop],
           stopEvent' = stopEvent, discEvent => discEvent', cancelReq' \subseteq cancelReq,
           running' \in {running, NoProc} \/ running' \notin cancelReq',
           (/\ stopEvent /\ Conn \notin cancelReq'
            /\ Conn \notin cancelReq => ConnDown) => ConnDown',
           (/\ discEvent /\ Refresh \notin cancelReq'
            /\ Refresh \notin cancelReq => pc[Refresh] = "idle") => pc'[Refresh] = "idle",
           \A p \in Owned \cup {Conn} : pc[p] = "done" => pc'[p] = "done",
           (Closed /\ pc[Conn] = "done") => Closed'
    PROVE  StopInv'
<1>1. Cancelling'
  BY StopTasks DEF StopInv, Cancelling
<1>2. AllDone => AllDone'
  BY DEF AllDone
<1>3. pc[Stop] # "run" =>
          /\ stopEvent' /\ discEvent'
          /\ Conn \notin cancelReq' => ConnDown'
          /\ Refresh \notin cancelReq' => pc'[Refresh] = "idle"
  BY DEF StopInv
<1>4. pc[Stop] \in {"disc", "stopped"} => Closed'
  BY DEF StopInv, AllDone
<1>. QED BY <1>1, <1>2, <1>3, <1>4 DEF StopInv


LEMMA StopRun ==
    ASSUME BaseInv, Numbered, StopInv, NEW p \in Procs, Run(p)
    PROVE  StopInv'
<1>1. /\ pc \in [Procs -> PCs] /\ op \in [Procs -> Ops]
      /\ Conn \in Procs /\ Stop \in Procs /\ Refresh \in Procs
      /\ Conn # Stop /\ Conn # Refresh /\ Stop # Refresh
      /\ op[Refresh] \in {"none", "status"}
  BY Tasks
<1>2. /\ Refresh \notin Owned /\ Conn \notin Owned /\ Stop \notin Owned
      /\ NoProc \notin cancelReq
      /\ Turn(p) => p \notin cancelReq
  BY StopTasks
<1>3. pc[Stop] \notin {"writing", "idle"} /\ (pc[Stop] = "lock" => op[Stop] = "disconnect")
  BY DEF StopInv
(* p, which is neither the connection task nor async_stop, goes to l. *)
<1>4. ASSUME p # Conn, p # Stop, Turn(p), pc[p] \in {"lock", "writing", "disc"},
             NEW l, pc' = [pc EXCEPT ![p] = l],
             op' = op \/ op' = [op EXCEPT ![p] = "none"],
             UNCHANGED <<stopEvent, cancelReq, sessionVars>>, discEvent => discEvent',
             running' \in {NoProc, p}
      PROVE  StopInv'
  <2>1. /\ pc'[Stop] = pc[Stop] /\ op'[Stop] = op[Stop]
        /\ pc'[Conn] = pc[Conn] /\ op'[Conn] = op[Conn]
        /\ pc[Refresh] = "idle" => pc'[Refresh] = "idle"
    BY <1>1, <1>4
  <2>2. \A x \in Owned \cup {Conn} : pc[x] = "done" => pc'[x] = "done"
    BY <1>1, <1>4, ClientAssumption DEF Procs
  <2>3. ConnDown => ConnDown'
    BY <2>1 DEF ConnDown
  <2>4. Closed => Closed'
    BY <1>4 DEF Closed, sessionVars
  <2>. QED BY <1>2, <1>4, <2>1, <2>2, <2>3, <2>4, StopRest
<1>5. CASE SendStatusRequest(p) \/ Submit(p) \/ Decline(p)
  <2>1. PICK o \in Groups \cup {"keepalive", "status"}, l \in {"writing", "idle"} :
            /\ Inside(p, o) /\ UNCHANGED <<eventVars, sessionVars>>
            /\ pc' = [pc EXCEPT ![p] = l]
            /\ op' = op \/ op' = [op EXCEPT ![p] = "none"]
            /\ running' = NoProc
    <3>1. CASE SendStatusRequest(p)
      BY <3>1 DEF SendStatusRequest, EndOp, KeepLock, Release, HandOver
    <3>2. CASE Submit(p)
      BY <3>2 DEF Submit, EndOp, KeepLock, Release, HandOver
    <3>3. CASE Decline(p)
      BY <3>3 DEF Decline, EndOp, Release, HandOver
    <3>. QED BY <1>5, <3>1, <3>2, <3>3
  <2>2. p # Conn /\ p # Stop /\ Turn(p) /\ pc[p] = "lock"
    BY <1>3, <2>1 DEF Inside, Groups, Numbered
  <2>. QED BY <1>4, <2>1, <2>2 DEF eventVars
<1>6. CASE WriteReturns(p)
  BY <1>3, <1>4, <1>6 DEF WriteReturns, Resumes, EndOp, Release, HandOver, eventVars
<1>7. CASE WriteFails(p)
  <2>1. /\ Turn(p) /\ pc[p] = "writing" /\ discEvent' = TRUE
        /\ pc' = [pc EXCEPT ![p] = IF p = Conn THEN "abort" ELSE "idle"]
        /\ op' = [op EXCEPT ![p] = "none"] /\ running' = NoProc
        /\ UNCHANGED <<stopEvent, cancelReq, sessionVars>>
    BY <1>7 DEF WriteFails, Resumes, EndOp, Release, HandOver
  <2>2. CASE p = Conn
    <3>1. pc[Stop] = "run" /\ pc'[Stop] = "run"
      BY <1>1, <1>2, <2>1, <2>2 DEF StopInv, ConnDown
    <3>. QED BY <2>1, <3>1, StopNotBegun
  <2>3. CASE p # Conn
    BY <1>3, <1>4, <2>1, <2>3
  <2>. QED BY <2>2, <2>3
<1>8. CASE WriteSucceeds(p)
  <2>1. /\ pc[p] = "writing" /\ ~discEvent /\ UNCHANGED cancelReq /\ running' = NoProc
        /\ pc' = [pc EXCEPT ![p] = "idle", ![Refresh] = "sleep"]
    BY <1>8 DEF WriteSucceeds, Resumes, SessionLost, Reschedule, HandOver
  <2>2. pc[Stop] = "run" /\ pc'[Stop] = "run"
    BY <1>1, <1>3, <2>1 DEF StopInv
  <2>. QED BY <2>1, <2>2, StopNotBegun
<1>9. CASE Disconnected(p)
  <2>1. /\ Turn(p) /\ pc[p] = "disc" /\ pc' = [pc EXCEPT ![p] = Resting(p)]
        /\ UNCHANGED <<op, stopEvent, discEvent, cancelReq, sessionVars>>
        /\ running' \in RunsOn(p)
    BY <1>9 DEF Disconnected, Resumes, HandOver, eventVars
  <2>2. CASE p = Conn
    <3>1. /\ pc'[Stop] = pc[Stop] /\ pc'[Refresh] = pc[Refresh]
          /\ pc'[Conn] = Resting(Conn) /\ \A x \in Owned : pc'[x] = pc[x]
      BY <1>1, <1>2, <2>1, <2>2, ClientAssumption DEF Procs
    <3>2. stopEvent => ConnDown'
      BY <1>1, <3>1, Zenon DEF Resting, ConnDown
    <3>3. running' = NoProc \/ running' \notin cancelReq'
      BY <1>2, <2>1, <2>2 DEF RunsOn
    <3>4. Closed => Closed'
      BY <2>1 DEF Closed, sessionVars
    <3>. QED BY <2>1, <2>2, <3>1, <3>2, <3>3, <3>4, StopRest
  <2>3. CASE p = Stop
    <3>1. /\ pc'[Stop] = "stopped" /\ pc'[Refresh] = pc[Refresh]
          /\ pc'[Conn] = pc[Conn] /\ \A x \in Owned : pc'[x] = pc[x]
      BY <1>1, <1>2, <2>1, <2>3, ClientAssumption DEF Procs, Resting
    <3>2. /\ running' = NoProc /\ pc[Stop] = "disc"
      BY <1>1, <2>1, <2>3 DEF RunsOn
    <3>3. Closed' /\ AllDone' /\ ConnDown' /\ Cancelling'
      BY <1>2, <2>1, <3>1, <3>2 DEF StopInv, Closed, AllDone, ConnDown, Cancelling, sessionVars
    <3>. QED BY <2>1, <3>1, <3>2, <3>3 DEF StopInv
  <2>4. CASE p \notin {Conn, Stop}
    <3>1. running' = NoProc
      BY <2>1, <2>4 DEF RunsOn
    <3>. QED BY <1>4, <2>1, <2>4, <3>1
  <2>. QED BY <2>2, <2>3, <2>4
<1>10. CASE DisconnectClient(p)
  <2>1. /\ Turn(p) /\ pc[p] = "lock" /\ op[p] = "disconnect" /\ Closed'
        /\ UNCHANGED <<stopEvent, discEvent>> /\ running' \in RunsOn(p) \cup {NoProc}
        /\ \E m \in {"none", op[Refresh]} : op' = [op EXCEPT ![Refresh] = m, ![p] = "none"]
        /\ \E l \in {"disc", Resting(p)} :
               \/ /\ pc' = [pc EXCEPT ![Refresh] = "idle", ![p] = l]
                  /\ cancelReq' = cancelReq \ {Refresh}
               \/ /\ pc' = [pc EXCEPT ![Refresh] = pc[Refresh], ![p] = l]
                  /\ cancelReq' = cancelReq
    BY <1>1, <1>10, Zenon DEF DisconnectClient, Inside, Closed, HandOver
  <2>2. /\ p # Refresh /\ cancelReq' \subseteq cancelReq
        /\ pc[Refresh] = "idle" => pc'[Refresh] = "idle"
        /\ (Refresh \in cancelReq /\ Refresh \notin cancelReq') => pc'[Refresh] = "idle"
        /\ \A x \in Procs \ {p, Refresh} : pc'[x] = pc[x] /\ op'[x] = op[x]
    BY <1>1, <2>1
  <2>3. pc'[p] \in {"disc", Resting(p)}
    BY <1>1, <2>1, <2>2
  <2>4. \A x \in Owned \cup {Conn} : pc[x] = "done" => pc'[x] = "done"
    BY <1>1, <1>2, <2>1, <2>2, ClientAssumption DEF Procs
  <2>5. running' = NoProc \/ running' \notin cancelReq'
    BY <1>2, <2>1, <2>2 DEF RunsOn
  <2>6. CASE p = Stop
    <3>1. pc[Stop] = "lock" /\ pc'[Stop] \in {"disc", "stopped"} /\ pc'[Conn] = pc[Conn]
      BY <1>1, <2>1, <2>2, <2>3, <2>6 DEF Resting
    <3>2. AllDone /\ stopEvent /\ discEvent
      BY <3>1 DEF StopInv
    <3>3. AllDone'
      BY <2>2, <2>4, <3>2 DEF AllDone
    <3>4. ConnDown' /\ Cancelling'
      BY <2>2, <2>5, <3>1, <3>2, <3>3, <1>2 DEF AllDone, ConnDown, Cancelling
    <3>5. pc'[Refresh] = "idle"
      BY <2>2, <3>1, <3>2 DEF StopInv, AllDone
    <3>. QED BY <2>1, <3>1, <3>2, <3>3, <3>4, <3>5 DEF StopInv
  <2>7. CASE p # Stop
    <3>1. pc'[Stop] = pc[Stop] /\ op'[Stop] = op[Stop]
      BY <1>1, <2>2, <2>7
    <3>2. stopEvent /\ ConnDown => ConnDown'
      BY <1>1, <2>1, <2>2, <2>3 DEF ConnDown, Resting
    <3>3. Conn \in cancelReq => Conn \in cancelReq'
      BY <1>1, <2>1
    <3>. QED BY <2>1, <2>2, <2>4, <2>5, <3>1, <3>2, <3>3, StopRest
  <2>. QED BY <2>6, <2>7
<1>. QED BY <1>5, <1>6, <1>7, <1>8, <1>9, <1>10 DEF Run

LEMMA StopStep ==
    ASSUME BaseInv, Numbered, StopInv, [Next]_vars
    PROVE  StopInv'
<1>1. /\ pc \in [Procs -> PCs] /\ op \in [Procs -> Ops]
      /\ Conn \in Procs /\ Stop \in Procs /\ Refresh \in Procs
      /\ Conn # Stop /\ Conn # Refresh /\ Stop # Refresh
      /\ \A x \in Procs : pc[x] \in HoldingPCs => holder = x
      /\ op[Conn] = "connect" => pc[Conn] \in {"lock", "notify", "writing"}
  BY Tasks
<1>2. /\ Refresh \notin Owned /\ Conn \notin Owned /\ Stop \notin Owned
      /\ Refresh \notin Callers /\ Conn \notin Callers /\ Stop \notin Callers
      /\ NoProc \notin cancelReq /\ Stop \notin cancelReq
      /\ \A p \in Procs : Turn(p) => p \notin cancelReq
      /\ Owned \subseteq Procs
  BY StopTasks, ClientAssumption DEF Procs
<1>3. CASE ConnStep
  <2>1. /\ Turn(Conn) /\ UNCHANGED cancelReq /\ running' \in {NoProc, Conn}
        /\ \/ pc[Conn] \in {"retry", "estab", "notify", "writing", "abort", "session"}
           \/ pc[Conn] = "lock" /\ op[Conn] = "connect"
        /\ \E l : pc' = [pc EXCEPT ![Conn] = l]
    <3>1. CASE FirstRequestSent
      BY <3>1 DEF FirstRequestSent, Resumes, Reacquire, Opened, EndOp, HandOver, Release,
         eventVars
    <3>2. CASE Install
      BY <3>2 DEF Install, Inside, KeepLock, eventVars
    <3>3. CASE StartAttempt \/ EstablishFails \/ Established
      BY <3>3 DEF StartAttempt, EstablishFails, Established, Resumes, Acquire, KeepLock,
         RunOn, eventVars
    <3>4. CASE SubscribeFails \/ Subscribed \/ Abort \/ SessionEnds
      BY <3>4 DEF SubscribeFails, Subscribed, Abort, SessionEnds, Resumes, Acquire, KeepLock,
         HandOver, Release, EndOp, eventVars
    <3>. QED BY <1>3, <3>1, <3>2, <3>3, <3>4 DEF ConnStep
  <2>2. pc[Stop] = "run" /\ pc'[Stop] = "run"
    BY <1>1, <1>2, <2>1 DEF StopInv, ConnDown
  <2>. QED BY <1>1, <1>2, <2>1, <2>2, StopNotBegun
<1>4. CASE RefreshFires
  <2>1. /\ Turn(Refresh) /\ pc[Refresh] = "sleep" /\ UNCHANGED cancelReq
        /\ pc' = [pc EXCEPT ![Refresh] = "lock"] /\ running' \in {NoProc, Refresh}
    BY <1>4 DEF RefreshFires, Resumes, Acquire, eventVars
  <2>2. pc[Stop] = "run" /\ pc'[Stop] = "run"
    BY <1>1, <1>2, <2>1 DEF StopInv
  <2>. QED BY <1>1, <1>2, <2>1, <2>2, StopNotBegun
<1>5. CASE StopBegins /\ running = NoProc
  <2>1. /\ pc'[Stop] = "gather" /\ stopEvent' /\ discEvent' /\ running' = NoProc
        /\ cancelReq' = {p \in {Conn, Refresh} \cup Owned : p # Refresh \/ pc[Refresh] # "idle"}
        /\ pc'[Refresh] = pc[Refresh]
    BY <1>1, <1>5 DEF StopBegins, lockVars
  <2>2. NoProc \notin cancelReq' /\ Conn \in cancelReq'
    BY <1>1, <2>1, ClientAssumption
  <2>3. Refresh \notin cancelReq' => pc'[Refresh] = "idle"
    BY <2>1
  <2>. QED BY <2>1, <2>2, <2>3 DEF StopInv, Cancelling
<1>6. CASE StopGathered
  <2>1. /\ pc[Stop] = "gather" /\ AllDone /\ UNCHANGED <<stopEvent, discEvent, cancelReq>>
        /\ pc' = [pc EXCEPT ![Stop] = "lock"] /\ op' = [op EXCEPT ![Stop] = "disconnect"]
    BY <1>6 DEF StopGathered, Acquire, AllDone
  <2>2. pc'[Stop] = "lock" /\ op'[Stop] = "disconnect" /\ pc'[Refresh] = pc[Refresh]
    BY <1>1, <2>1
  <2>3. \A p \in Owned \cup {Conn} : pc'[p] = pc[p]
    BY <1>1, <1>2, <2>1
  <2>4. AllDone' /\ ConnDown' /\ Cancelling'
    BY <2>1, <2>3 DEF AllDone, ConnDown, Cancelling
  <2>. QED BY <2>1, <2>2, <2>4 DEF StopInv, AllDone
<1>7. ASSUME NEW p \in Callers, Reconnect(p) \/ \E o \in Calls : Call(p, o)
      PROVE  StopInv'
  <2>1. /\ pc[p] = "idle" /\ p \notin cancelReq /\ UNCHANGED <<stopEvent, cancelReq>>
        /\ discEvent => discEvent'
        /\ pc' = [pc EXCEPT ![p] = "lock"] /\ \E o : op' = [op EXCEPT ![p] = o]
        /\ running' \in {NoProc, p} /\ UNCHANGED sessionVars
    BY <1>7 DEF Reconnect, Call, Acquire, eventVars
  <2>2. /\ \A x \in {Conn, Stop, Refresh} : pc'[x] = pc[x] /\ op'[x] = op[x]
        /\ \A x \in Owned \cup {Conn} : pc[x] = "done" => pc'[x] = "done"
    BY <1>1, <1>2, <2>1
  <2>3. (ConnDown => ConnDown') /\ (Closed => Closed')
    BY <2>1, <2>2 DEF ConnDown, Closed, sessionVars
  <2>. QED BY <2>1, <2>2, <2>3, StopRest
<1>8. ASSUME NEW p \in Procs, Deliver(p)
      PROVE  StopInv'
  <2>1. /\ pc[p] # "done"
        /\ p \in cancelReq \/ p \in Callers \ Owned
        /\ UNCHANGED <<stopEvent, discEvent, sessionVars>>
        /\ cancelReq' = cancelReq \ {p} /\ running' \in {NoProc, running}
        /\ pc' = [pc EXCEPT ![p] = Cancelled(p)]
        /\ op' = op \/ op' = [op EXCEPT ![p] = "none"]
    <3>1. CASE CancelResting(p)
      BY <3>1 DEF CancelResting, lockVars
    <3>2. CASE CancelWaiting(p)
      BY <3>2 DEF CancelWaiting, Cancellable, Withdraw, Release, HandOver, EndOp
    <3>3. CASE CancelWriting(p) \/ CancelDisconnect(p)
      BY <3>3 DEF CancelWriting, CancelDisconnect, Cancellable, Release, HandOver, EndOp
    <3>. QED BY <1>8, <3>1, <3>2, <3>3 DEF Deliver
  <2>2. p # Stop /\ (p \in {Conn, Refresh} => p \in cancelReq)
    BY <1>2, <2>1
  <2>3. pc'[Stop] = pc[Stop] /\ op'[Stop] = op[Stop]
    BY <1>1, <2>1, <2>2
  <2>4. /\ p = Conn => pc'[Conn] = "done"
        /\ p # Conn => pc'[Conn] = pc[Conn] /\ op'[Conn] = op[Conn]
    BY <1>1, <2>1 DEF Cancelled
  <2>5. /\ p = Refresh => pc'[Refresh] = "idle"
        /\ p # Refresh => pc'[Refresh] = pc[Refresh]
    BY <1>1, <1>2, <2>1 DEF Cancelled
  <2>6. \A x \in Owned \cup {Conn} : pc[x] = "done" => pc'[x] = "done"
    BY <1>1, <1>2, <2>1 DEF Cancelled
  <2>7. /\ Closed => Closed'
        /\ (stopEvent /\ Conn \notin cancelReq'
                /\ (Conn \notin cancelReq => ConnDown)) => ConnDown'
        /\ (discEvent /\ Refresh \notin cancelReq'
                /\ (Refresh \notin cancelReq => pc[Refresh] = "idle")) => pc'[Refresh] = "idle"
    BY <2>1, <2>4, <2>5 DEF Closed, ConnDown, sessionVars
  <2>. QED BY <2>1, <2>3, <2>6, <2>7, StopRest
<1>9. CASE CancelConnection
  <2>1. /\ Conn \in cancelReq /\ cancelReq' = cancelReq \ {Conn}
        /\ UNCHANGED <<stopEvent, discEvent, sessionVars>>
        /\ op' = [op EXCEPT ![Conn] = "disconnect"]
        /\ running' \in {running, NoProc, Conn}
    BY <1>9 DEF CancelConnection, Acquire, Reacquire, HandOver
  <2>2. /\ pc[Conn] # "done" /\ pc'[Conn] = "lock"
        /\ \A x \in Procs \ {Conn} : pc'[x] = pc[x] /\ op'[x] = op[x]
    <3>1. pc' = [pc EXCEPT ![Conn] = "lock"] \/ (UNCHANGED pc /\ Contains(waiters, Conn))
      BY <1>9 DEF CancelConnection, Acquire, Reacquire
    <3>2. Contains(waiters, Conn) => pc[Conn] = "lock"
      BY DEF Contains, BaseInv, LockInv, LockDiscipline, TypeOK, LockType
    <3>3. pc[Conn] # "done"
      BY <1>1, <1>9, <3>2 DEF CancelConnection
    <3>. QED BY <1>1, <2>1, <3>1, <3>2, <3>3
  <2>3. ConnDown'
    BY <1>1, <2>1, <2>2 DEF ConnDown
  <2>4. \A x \in Owned \cup {Conn} : pc[x] = "done" => pc'[x] = "done"
    BY <1>2, <2>2
  <2>5. Closed => Closed'
    BY <2>1 DEF Closed, sessionVars
  <2>6. /\ pc'[Stop] = pc[Stop] /\ op'[Stop] = op[Stop] /\ pc'[Refresh] = pc[Refresh]
        /\ Refresh \in cancelReq => Refresh \in cancelReq'
        /\ cancelReq' \subseteq cancelReq /\ stopEvent' = stopEvent /\ discEvent' = discEvent
        /\ running' \in {running, NoProc} \/ running' \notin cancelReq'
    BY <1>1, <2>1, <2>2
  <2>. QED BY <2>3, <2>4, <2>5, <2>6, StopRest
<1>10. ASSUME NEW s \in 1..MaxSessions, NEW k \in Packets, Notification(s, k)
       PROVE  StopInv'
  <2>1. /\ UNCHANGED <<pc, op, stopEvent, discEvent, cancelReq, running>> /\ client # 0
    BY <1>10 DEF Notification, Current, taskVars, lockVars, eventVars
  <2>2. (Closed => Closed') /\ (ConnDown => ConnDown')
    BY <2>1 DEF Closed, ConnDown
  <2>. QED BY <2>1, <2>2, StopRest
<1>11. ASSUME \/ \E p \in Procs : Completes(p)
              \/ \E s \in 1..MaxSessions : RequestDisconnect(s)
              \/ \E s \in 1..MaxSessions : LinkDrops(s)
              \/ \E g \in Groups : Stale(g) \/ DeadlinePasses(g)
              \/ UNCHANGED vars
       PROVE  StopInv'
  <2>1. /\ UNCHANGED <<pc, op, stopEvent, cancelReq, running, sessionVars>>
        /\ discEvent => discEvent'
    BY <1>11 DEF LinkDrops, Stale, DeadlinePasses, Completes, RequestDisconnect, vars,
       taskVars, lockVars, eventVars
  <2>2. (Closed => Closed') /\ (ConnDown => ConnDown')
    BY <2>1 DEF Closed, ConnDown, sessionVars
  <2>. QED BY <2>1, <2>2, StopRest
<1>12. TypeOK
  BY DEF BaseInv
<1>. QED BY <1>3, <1>4, <1>5, <1>6, <1>7, <1>8, <1>9, <1>10, <1>11, <1>12, Steps, StopRun

LEMMA StopInit == Init => StopInv
<1>. SUFFICES ASSUME Init PROVE StopInv
  OBVIOUS
<1>1. pc[Stop] = "run" /\ cancelReq = {}
  BY ProcsFacts DEF Init
<1>. QED BY <1>1 DEF StopInv, Cancelling

(* async_stop leaves nothing behind, however it interleaves with calls, a connection
   attempt, a running session and the delayed refresh: when it has returned there is no
   client, no active session, no pending command, and no task of the client is left
   (client.py, async_stop, _connection_loop and _schedule_status_refresh). *)
THEOREM StopLeavesNothing == Spec => []StopQuiet
<1>1. Init => BaseInv /\ Numbered /\ TxnInv /\ StopInv
  BY BaseInit, NumberedInit, TxnInit, StopInit
<1>2. BaseInv /\ Numbered /\ TxnInv /\ StopInv /\ [Next]_vars
          => (BaseInv /\ Numbered /\ TxnInv /\ StopInv)'
  BY BaseStep, NumberedStep, TxnStep, StopStep
<1>3. BaseInv /\ TxnInv /\ StopInv => StopQuiet
  BY DEF TxnInv, TxnOf, StopInv, AllDone, Closed, StopQuiet
<1>. QED BY <1>1, <1>2, <1>3, PTL DEF Spec

-----------------------------------------------------------------------------
(* Wake-ups: who is in which queue.  x is in the sequence s; no task is in s twice. *)
Has(s, x) == \E i \in DOMAIN s : s[i] = x
Once(s) == \A i, j \in DOMAIN s : s[i] = s[j] /\ s[i] \in Procs => i = j

Queues == Seq(Procs \cup Nat)

(* Who is in a queue after one more has been appended to it. *)
LEMMA HasAppend ==
    ASSUME NEW S, NEW s \in Seq(S), NEW e \in S
    PROVE  /\ Append(s, e) \in Seq(S)
           /\ \A x : Has(Append(s, e), x) <=> Has(s, x) \/ x = e
           /\ Once(s) /\ (e \notin Procs \/ ~Has(s, e)) => Once(Append(s, e))
<1>. DEFINE t == Append(s, e)
<1>1. /\ t \in Seq(S) /\ DOMAIN t = 1..(Len(s) + 1) /\ DOMAIN s = 1..Len(s) /\ Len(s) \in Nat
      /\ t[Len(s) + 1] = e /\ \A i \in 1..Len(s) : t[i] = s[i]
  OBVIOUS
<1>. HIDE DEF t
<1>2. \A i \in DOMAIN t : i \in DOMAIN s \/ i = Len(s) + 1
  BY <1>1
<1>3. DOMAIN s \subseteq DOMAIN t /\ Len(s) + 1 \in DOMAIN t
  BY <1>1
<1>4. \A x : Has(t, x) <=> Has(s, x) \/ x = e
  BY <1>1, <1>2, <1>3 DEF Has
<1>5. Once(s) /\ (e \notin Procs \/ ~Has(s, e)) => Once(t)
  BY <1>1, <1>2, <1>3 DEF Has, Once
<1>. QED BY <1>1, <1>4, <1>5 DEF t

(* Who is in a queue after its head has been taken off. *)
LEMMA HasTail ==
    ASSUME NEW S, NEW s \in Seq(S), s # <<>>
    PROVE  /\ Tail(s) \in Seq(S) /\ Head(s) \in S /\ Has(s, Head(s))
           /\ \A x : Has(s, x) <=> Has(Tail(s), x) \/ x = Head(s)
           /\ Once(s) => Once(Tail(s)) /\ (Head(s) \in Procs => ~Has(Tail(s), Head(s)))
<1>. DEFINE t == Tail(s)
<1>1. /\ t \in Seq(S) /\ Len(s) \in Nat \ {0} /\ DOMAIN s = 1..Len(s)
      /\ DOMAIN t = 1..(Len(s) - 1) /\ Head(s) = s[1] /\ Head(s) \in S
      /\ \A i \in 1..(Len(s) - 1) : t[i] = s[i + 1]
  OBVIOUS
<1>. HIDE DEF t
<1>2. \A i \in DOMAIN t : i + 1 \in DOMAIN s /\ t[i] = s[i + 1] /\ i + 1 # 1
  BY <1>1
<1>3. \A i \in DOMAIN s : i = 1 \/ (i - 1 \in DOMAIN t /\ t[i - 1] = s[i])
  BY <1>1
<1>4. 1 \in DOMAIN s
  BY <1>1
<1>5. \A x : Has(s, x) <=> Has(t, x) \/ x = Head(s)
  BY <1>1, <1>2, <1>3, <1>4 DEF Has
<1>6. ASSUME Once(s) PROVE Once(t)
  <2>1. ASSUME NEW i \in DOMAIN t, NEW j \in DOMAIN t, t[i] = t[j], t[i] \in Procs
        PROVE  i = j
    <3>1. i + 1 = j + 1
      BY <1>2, <1>6, <2>1 DEF Once
    <3>. QED BY <1>1, <3>1
  <2>. QED BY <2>1 DEF Once
<1>7. ASSUME Once(s), Head(s) \in Procs PROVE ~Has(t, Head(s))
  BY <1>1, <1>2, <1>4, <1>7 DEF Once, Has
<1>. QED BY <1>1, <1>4, <1>5, <1>6, <1>7 DEF t, Has

(* Who is in a queue after a task has withdrawn from it. *)
LEMMA HasRemoveFirst ==
    ASSUME NEW S, NEW s \in Seq(S), NEW e \in Procs, Once(s)
    PROVE  /\ RemoveFirst(s, e) \in Seq(S)
           /\ ~Has(RemoveFirst(s, e), e)
           /\ \A x : x # e => (Has(RemoveFirst(s, e), x) <=> Has(s, x))
           /\ Once(RemoveFirst(s, e))
<1>1. CASE \E k \in 1..Len(s) : s[k] = e
  <2>1. PICK k \in 1..Len(s) : s[k] = e /\ RemoveFirst(s, e) = RemoveAt(s, k)
    BY <1>1, RemoveFirstIndex
  <2>. DEFINE r == RemoveAt(s, k)
  <2>2. /\ r \in Seq(S) /\ Len(r) = Len(s) - 1
        /\ \A j \in 1..(Len(s) - 1) : r[j] = IF j < k THEN s[j] ELSE s[j + 1]
    BY RemoveAtElements
  <2>. HIDE DEF r
  <2>3. DOMAIN r = 1..(Len(s) - 1) /\ DOMAIN s = 1..Len(s) /\ Len(s) \in Nat
    BY <2>2
  <2>4. ASSUME NEW i \in DOMAIN r
        PROVE  \E j \in DOMAIN s : r[i] = s[j] /\ j # k /\ j = IF i < k THEN i ELSE i + 1
    BY <2>2, <2>3
  <2>5. ASSUME NEW j \in DOMAIN s, j # k
        PROVE  \E i \in DOMAIN r : r[i] = s[j]
    <3>1. CASE j < k
      BY <2>2, <2>3, <3>1
    <3>2. CASE j > k
      <4>1. j - 1 \in DOMAIN r /\ ~(j - 1 < k) /\ (j - 1) + 1 = j
        BY <2>3, <3>2
      <4>. QED BY <2>2, <2>3, <4>1
    <3>. QED BY <2>3, <2>5, <3>1, <3>2
  <2>6. k \in DOMAIN s
    BY <2>3
  <2>7. ~Has(r, e)
    BY <2>1, <2>4, <2>6 DEF Once, Has
  <2>8. ASSUME NEW x, x # e PROVE Has(r, x) <=> Has(s, x)
    BY <2>1, <2>4, <2>5, <2>8 DEF Has
  <2>9. ASSUME NEW i \in DOMAIN r, NEW j \in DOMAIN r, r[i] = r[j], r[i] \in Procs
        PROVE  i = j
    <3>1. PICK m \in DOMAIN s : r[i] = s[m] /\ m = IF i < k THEN i ELSE i + 1
      BY <2>4
    <3>2. PICK n \in DOMAIN s : r[j] = s[n] /\ n = IF j < k THEN j ELSE j + 1
      BY <2>4
    <3>3. m = n
      BY <2>9, <3>1, <3>2 DEF Once
    <3>. QED BY <2>3, <3>1, <3>2, <3>3
  <2>. QED BY <2>1, <2>2, <2>7, <2>8, <2>9 DEF r, Once
<1>2. CASE ~ \E k \in 1..Len(s) : s[k] = e
  BY <1>2 DEF RemoveFirst, Has
<1>. QED BY <1>1, <1>2

(* Has is the library's Contains. *)
LEMMA HasContains ==
    ASSUME NEW S, NEW s \in Seq(S), NEW x
    PROVE  Contains(s, x) <=> Has(s, x)
  BY DEF Contains, Has

-----------------------------------------------------------------------------
(* What has to be known of the lock and of the ready queue: who wants the lock waits for
   it, or owns it and is about to run; an event that is set has woken the connection
   task; and who is queued is suspended where the loop may resume it. *)
WakeInv ==
    /\ \A p \in Procs : pc[p] = "lock" =>
           IF holder = p THEN running = p \/ Has(runq, p) ELSE Has(waiters, p)
    /\ pc[Conn] = "session" /\ discEvent => Has(runq, Conn) \/ Conn \in cancelReq
    /\ \A p \in Procs : Has(runq, p) =>
           /\ running # p /\ pc[p] \in Awaits
           /\ pc[p] = "lock" => holder = p
           /\ pc[p] = "session" => p = Conn /\ discEvent
    /\ Once(runq)

(* q is the ready queue without the tasks P, and with the connection task if woken
   says that its event has just been set. *)
Left(q, P, woken) ==
    /\ q \in Queues /\ Once(q)
    /\ \A x \in P : ~Has(q, x)
    /\ \A x \in Procs \ P : Has(q, x) <=>
           Has(runq, x) \/ (woken /\ x = Conn /\ pc[Conn] = "session" /\ ~discEvent)
    /\ \A s \in Nat : Has(runq, s) => Has(q, s)

(* The loop takes the task it runs off the ready queue. *)
LEMMA TurnLeft ==
    ASSUME TypeOK, WakeInv, NEW p \in Procs, Turn(p)
    PROVE  Left(After(p), {p}, FALSE) /\ running \in {NoProc, p}
<1>1. runq \in Queues /\ Once(runq)
  BY DEF TypeOK, LockType, WakeInv, Queues
<1>2. CASE running = p
  BY <1>1, <1>2 DEF After, Left, WakeInv
<1>3. CASE running # p
  <2>1. running = NoProc /\ runq # <<>> /\ Head(runq) = p /\ After(p) = Tail(runq)
    BY <1>3 DEF Turn, IsNext, After
  <2>2. /\ Tail(runq) \in Queues /\ Once(Tail(runq)) /\ ~Has(Tail(runq), p)
        /\ \A x : Has(runq, x) <=> Has(Tail(runq), x) \/ x = p
    BY <1>1, <2>1, HasTail DEF Queues
  <2>3. p \notin Nat
    BY TaskAssumption
  <2>. QED BY <2>1, <2>2, <2>3 DEF Left
<1>. QED BY <1>2, <1>3

(* A task that is cancelled is taken off the ready queue. *)
LEMMA DropLeft ==
    ASSUME NEW P \in SUBSET Procs, NEW e \in Procs, NEW q, Left(q, P, FALSE)
    PROVE  Left(RemoveFirst(q, e), P \cup {e}, FALSE)
<1>1. /\ RemoveFirst(q, e) \in Queues /\ Once(RemoveFirst(q, e))
      /\ ~Has(RemoveFirst(q, e), e)
      /\ \A x : x # e => (Has(RemoveFirst(q, e), x) <=> Has(q, x))
  BY HasRemoveFirst DEF Left, Queues
<1>2. e \notin Nat
  BY TaskAssumption
<1>. QED BY <1>1, <1>2 DEF Left

(* A step that takes nobody off the ready queue. *)
LEMMA NothingLeft ==
    ASSUME TypeOK, WakeInv
    PROVE  Left(runq, {}, FALSE)
  BY DEF TypeOK, LockType, WakeInv, Queues, Left

(* Setting the event wakes the connection task if it waits for it, once. *)
LEMMA WakesLeft ==
    ASSUME TypeOK, WakeInv, NEW P \in SUBSET Procs, NEW q, Left(q, P, FALSE),
           Conn \in P => pc[Conn] # "session"
    PROVE  Left(Wakes(q), P, TRUE)
<1>1. Conn \in Procs /\ q \in Seq(Procs \cup Nat) /\ Conn \notin Nat
  BY ProcsFacts, TaskAssumption DEF Left, Queues
<1>2. CASE pc[Conn] = "session" /\ ~discEvent
  <2>1. Wakes(q) = Append(q, Conn)
    BY <1>2 DEF Wakes
  <2>2. ~Has(q, Conn)
    BY <1>1, <1>2 DEF Left, WakeInv
  <2>3. /\ Append(q, Conn) \in Queues /\ Once(Append(q, Conn))
        /\ \A x : Has(Append(q, Conn), x) <=> Has(q, x) \/ x = Conn
    BY <1>1, <2>2, HasAppend DEF Left, Queues
  <2>. QED BY <1>1, <1>2, <2>1, <2>3 DEF Left
<1>3. CASE ~(pc[Conn] = "session" /\ ~discEvent)
  BY <1>3 DEF Wakes, Left
<1>. QED BY <1>2, <1>3

(* A request for the end of a session is queued behind the tasks. *)
LEMMA LossLeft ==
    ASSUME NEW P \in SUBSET Procs, NEW q, Left(q, P, FALSE), NEW s \in Nat
    PROVE  Left(QueueAfterLoss(s, q), P, FALSE)
<1>1. s \in Procs \cup Nat /\ s \notin Procs /\ q \in Seq(Procs \cup Nat)
  BY TaskAssumption DEF Left, Queues
<1>2. /\ Append(q, s) \in Queues /\ Once(Append(q, s))
      /\ \A x : Has(Append(q, s), x) <=> Has(q, x) \/ x = s
  BY <1>1, HasAppend DEF Left, Queues
<1>. QED BY <1>1, <1>2 DEF QueueAfterLoss, Left

-----------------------------------------------------------------------------
(* What a step does to the tasks P, and that it loses no event. *)
Moves(P, woken) ==
    /\ P \subseteq Procs /\ running \in P \cup {NoProc}
    /\ \A x \in Procs \ P : pc'[x] = pc[x]
    /\ \A x \in P : pc'[x] # "session" \/ (x = Conn /\ ~discEvent')
    /\ Conn \notin P =>
           /\ Conn \in cancelReq => Conn \in cancelReq'
           /\ discEvent => discEvent'
           /\ discEvent' => discEvent \/ woken \/ Conn \in cancelReq'
    /\ woken => discEvent'

(* The session part, whatever happens to the lock. *)
LEMMA SessionWoken ==
    ASSUME WakeInv, NEW P, NEW woken \in BOOLEAN, NEW q, Moves(P, woken),
           Left(q, P, woken)
    PROVE  pc'[Conn] = "session" /\ discEvent' => Has(q, Conn) \/ Conn \in cancelReq'
  BY ProcsFacts DEF WakeInv, Moves, Left

(* The lock does not change hands. *)
LEMMA WakeStays ==
    ASSUME TypeOK, WakeInv, NEW P, NEW woken \in BOOLEAN, NEW q, Moves(P, woken),
           Left(q, P, woken), holder' = holder, runq' = q,
           \A x \in Procs \ P : Has(waiters, x) => Has(waiters', x),
           running' \in P \cup {NoProc}, \A x \in P : pc'[x] # "lock"
    PROVE  WakeInv'
<1>1. pc'[Conn] = "session" /\ discEvent' => Has(runq', Conn) \/ Conn \in cancelReq'
  BY SessionWoken
<1>2. ASSUME NEW p \in Procs, pc'[p] = "lock"
      PROVE  IF holder' = p THEN running' = p \/ Has(runq', p) ELSE Has(waiters', p)
  BY <1>2, ProcsFacts DEF WakeInv, Moves, Left
<1>3. ASSUME NEW p \in Procs, Has(runq', p)
      PROVE  /\ running' # p /\ pc'[p] \in Awaits
             /\ pc'[p] = "lock" => holder' = p
             /\ pc'[p] = "session" => p = Conn /\ discEvent'
  <2>1. /\ p \notin P /\ pc'[p] = pc[p]
        /\ Has(runq, p) \/ (woken /\ p = Conn /\ pc[p] = "session")
    BY <1>3 DEF Moves, Left
  <2>. QED BY <1>3, <2>1, ProcsFacts DEF WakeInv, Moves, Awaits
<1>4. Once(runq')
  BY DEF Left
<1>. QED BY <1>1, <1>2, <1>3, <1>4 DEF WakeInv

(* The holder p gives the lock to the first of ws, who are those that want it now. *)
LEMMA WakeGives ==
    ASSUME TypeOK, WakeInv, NEW P, NEW woken \in BOOLEAN, NEW q, Moves(P, woken),
           Left(q, P, woken), NEW p \in P, holder = p,
           NEW ws \in Seq(Procs), NEW r, HandOver(ws, q, r),
           r = NoProc \/ (r \in P /\ pc'[r] # "lock"),
           \A x \in Procs : pc'[x] = "lock" => Has(ws, x),
           \A x \in Procs : Has(ws, x) => pc'[x] = "lock"
    PROVE  WakeInv'
<1>1. CASE ws = <<>>
  <2>1. \A x \in Procs : pc'[x] # "lock"
    BY <1>1 DEF Has
  <2>2. running' = r /\ holder' = NoProc /\ runq' = q
    BY <1>1 DEF HandOver
  <2>3. pc'[Conn] = "session" /\ discEvent' => Has(runq', Conn) \/ Conn \in cancelReq'
    BY <2>2, SessionWoken
  <2>4. ASSUME NEW x \in Procs, Has(runq', x)
        PROVE  /\ running' # x /\ pc'[x] \in Awaits
               /\ pc'[x] = "session" => x = Conn /\ discEvent'
    <3>1. /\ x \notin P /\ pc'[x] = pc[x]
          /\ Has(runq, x) \/ (woken /\ x = Conn /\ pc[x] = "session")
      BY <2>2, <2>4 DEF Moves, Left
    <3>. QED BY <2>2, <2>4, <3>1, ProcsFacts DEF WakeInv, Moves, Awaits
  <2>5. Once(runq')
    BY <2>2 DEF Left
  <2>. QED BY <2>1, <2>3, <2>4, <2>5 DEF WakeInv
<1>2. CASE ws # <<>>
  <2>. DEFINE h == Head(ws)
  <2>1. /\ h \in Procs /\ Has(ws, h)
        /\ \A x : Has(ws, x) <=> Has(Tail(ws), x) \/ x = h
    BY <1>2, HasTail
  <2>2. running' = r /\ holder' = h /\ waiters' = Tail(ws) /\ runq' = Append(q, h)
    BY <1>2 DEF HandOver
  <2>. HIDE DEF h
  <2>3. pc'[h] = "lock"
    BY <2>1
  <2>4. ~Has(q, h)
    <3>1. SUFFICES ASSUME Has(q, h) PROVE FALSE
      OBVIOUS
    <3>2. h \notin P /\ pc[h] = "lock" /\ Has(runq, h)
      BY <2>1, <2>3, <3>1 DEF Moves, Left
    <3>. QED BY <2>1, <3>2 DEF WakeInv
  <2>5. /\ Once(runq') /\ \A x : Has(runq', x) <=> Has(q, x) \/ x = h
    BY <2>1, <2>2, <2>4, HasAppend DEF Left, Queues
  <2>6. pc'[Conn] = "session" /\ discEvent' => Has(runq', Conn) \/ Conn \in cancelReq'
    BY <2>5, SessionWoken
  <2>7. ASSUME NEW x \in Procs, pc'[x] = "lock"
        PROVE  IF holder' = x THEN running' = x \/ Has(runq', x) ELSE Has(waiters', x)
    BY <2>1, <2>2, <2>5, <2>7
  <2>8. ASSUME NEW x \in Procs, Has(runq', x)
        PROVE  /\ running' # x /\ pc'[x] \in Awaits
               /\ pc'[x] = "lock" => holder' = x
               /\ pc'[x] = "session" => x = Conn /\ discEvent'
    <3>1. CASE x = h
      BY <2>1, <2>2, <2>3, <3>1, ProcsFacts DEF Awaits
    <3>2. CASE x # h
      <4>1. /\ x \notin P /\ pc'[x] = pc[x]
            /\ Has(runq, x) \/ (woken /\ x = Conn /\ pc[x] = "session")
        BY <2>5, <2>8, <3>2 DEF Moves, Left
      <4>2. pc[x] # "lock"
        BY <4>1 DEF WakeInv
      <4>. QED BY <2>2, <2>8, <4>1, <4>2, ProcsFacts DEF WakeInv, Moves, Awaits
    <3>. QED BY <3>1, <3>2
  <2>. QED BY <2>5, <2>6, <2>7, <2>8 DEF WakeInv
<1>. QED BY <1>1, <1>2

(* p, which has nothing to do with the lock, asks for it. *)
LEMMA WakeAcquires ==
    ASSUME TypeOK, LockInv, WakeInv, NEW p \in Procs, NEW o, NEW q, NEW woken \in BOOLEAN,
           Moves({p}, woken), Left(q, {p}, woken), Acquire(p, o, q),
           pc[p] \notin HoldingPCs \cup {"lock"}
    PROVE  WakeInv'
<1>1. holder # p /\ waiters \in Seq(Procs) /\ pc \in [Procs -> PCs] /\ p # NoProc
  BY ProcsFacts DEF TypeOK, TaskType, LockType, LockInv, LockDiscipline
<1>2. pc' = [pc EXCEPT ![p] = "lock"] /\ runq' = q
  BY DEF Acquire
<1>3. pc'[Conn] = "session" /\ discEvent' => Has(runq', Conn) \/ Conn \in cancelReq'
  BY <1>2, SessionWoken
<1>4. \A x : Has(Append(waiters, p), x) <=> Has(waiters, x) \/ x = p
  BY <1>1, HasAppend
<1>5. ASSUME NEW x \in Procs, pc'[x] = "lock"
      PROVE  IF holder' = x THEN running' = x \/ Has(runq', x) ELSE Has(waiters', x)
  <2>1. CASE holder = NoProc
    BY <1>2, <1>5, <2>1, ProcsFacts DEF Acquire, Moves, WakeInv
  <2>2. CASE holder # NoProc
    <3>1. holder' = holder /\ waiters' = Append(waiters, p) /\ running' = NoProc
      BY <2>2 DEF Acquire
    <3>2. CASE x = p
      BY <1>1, <1>4, <3>1, <3>2
    <3>3. CASE x # p
      <4>1. pc[x] = "lock" /\ running # x
        BY <1>5, <3>3, ProcsFacts DEF Moves
      <4>. QED BY <1>2, <1>4, <3>1, <3>3, <4>1 DEF WakeInv, Left
    <3>. QED BY <3>2, <3>3
  <2>. QED BY <2>1, <2>2
<1>6. ASSUME NEW x \in Procs, Has(runq', x)
      PROVE  /\ running' # x /\ pc'[x] \in Awaits
             /\ pc'[x] = "lock" => holder' = x
             /\ pc'[x] = "session" => x = Conn /\ discEvent'
  <2>1. /\ x # p /\ pc'[x] = pc[x]
        /\ Has(runq, x) \/ (woken /\ x = Conn /\ pc[x] = "session")
    BY <1>2, <1>6 DEF Moves, Left
  <2>2. running' \in {NoProc, p} /\ (holder # NoProc => holder' = holder)
    BY DEF Acquire
  <2>3. x # NoProc
    BY ProcsFacts
  <2>. QED BY <1>6, <2>1, <2>2, <2>3 DEF WakeInv, Moves, Awaits
<1>7. Once(runq')
  BY <1>2 DEF Left
<1>. QED BY <1>3, <1>5, <1>6, <1>7 DEF WakeInv

(* The holder p releases the lock and asks for it again at once. *)
LEMMA WakeReacquires ==
    ASSUME TypeOK, LockInv, WakeInv, NEW p \in Procs, NEW o, NEW q,
           Moves({p}, FALSE), Left(q, {p}, FALSE), Reacquire(p, o, q), holder = p
    PROVE  WakeInv'
<1>1. waiters \in Seq(Procs) /\ pc \in [Procs -> PCs] /\ pc' = [pc EXCEPT ![p] = "lock"]
  BY DEF Reacquire, TypeOK, TaskType, LockType
<1>2. \A x \in Procs \ {p} : pc'[x] = "lock" <=> Has(waiters, x)
  BY <1>1 DEF WakeInv, LockInv, LockDiscipline, Has
<1>3. CASE waiters # <<>>
  <2>1. HandOver(Append(waiters, p), q, NoProc)
    BY <1>3 DEF Reacquire
  <2>2. /\ Append(waiters, p) \in Seq(Procs)
        /\ \A x : Has(Append(waiters, p), x) <=> Has(waiters, x) \/ x = p
    BY <1>1, HasAppend
  <2>3. \A x \in Procs : pc'[x] = "lock" <=> Has(Append(waiters, p), x)
    BY <1>1, <1>2, <2>2
  <2>. QED BY <2>1, <2>2, <2>3, WakeGives
<1>4. CASE waiters = <<>>
  <2>1. running' = p /\ runq' = q /\ UNCHANGED <<holder, waiters>>
    BY <1>4 DEF Reacquire
  <2>2. \A x \in Procs \ {p} : pc'[x] # "lock"
    BY <1>2, <1>4 DEF Has
  <2>3. pc'[Conn] = "session" /\ discEvent' => Has(runq', Conn) \/ Conn \in cancelReq'
    BY <2>1, SessionWoken
  <2>4. ASSUME NEW x \in Procs, Has(runq', x)
        PROVE  /\ running' # x /\ pc'[x] \in Awaits
               /\ pc'[x] = "lock" => holder' = x
               /\ pc'[x] = "session" => x = Conn /\ discEvent'
    <3>1. x # p /\ pc'[x] = pc[x] /\ Has(runq, x)
      BY <2>1, <2>4 DEF Moves, Left
    <3>. QED BY <2>1, <2>2, <2>4, <3>1 DEF WakeInv, Moves
  <2>5. Once(runq')
    BY <2>1 DEF Left
  <2>. QED BY <2>1, <2>2, <2>3, <2>4, <2>5 DEF WakeInv
<1>. QED BY <1>3, <1>4

-----------------------------------------------------------------------------
(* Whoever wants the lock and does not hold it is in its queue, and nobody else is. *)
LEMMA Wanting ==
    ASSUME LockInv, WakeInv, TypeOK
    PROVE  \A x \in Procs : Has(waiters, x) <=> pc[x] = "lock" /\ holder # x
<1>1. waiters \in Seq(Procs)
  BY DEF TypeOK, LockType
<1>. QED BY <1>1 DEF WakeInv, LockInv, LockDiscipline, Has

(* The holder p goes to l and releases the lock. *)
LEMMA WakeReleases ==
    ASSUME TypeOK, LockInv, WakeInv, NEW p \in Procs, holder = p, NEW l, l # "lock",
           pc' = [pc EXCEPT ![p] = l], NEW woken \in BOOLEAN, NEW q,
           Moves({p}, woken), Left(q, {p}, woken), NEW r \in {NoProc, p},
           HandOver(waiters, q, r)
    PROVE  WakeInv'
<1>1. waiters \in Seq(Procs) /\ pc \in [Procs -> PCs]
  BY DEF TypeOK, TaskType, LockType
<1>2. \A x \in Procs : pc'[x] = "lock" <=> Has(waiters, x)
  BY <1>1, Wanting
<1>3. r = NoProc \/ (r \in {p} /\ pc'[r] # "lock")
  BY <1>1
<1>. QED BY <1>1, <1>2, <1>3, WakeGives

(* The same when the delayed refresh is cancelled with it, wherever it was. *)
LEMMA WakeReplaces ==
    ASSUME TypeOK, LockInv, WakeInv, NEW p \in Procs, holder = p, p # Refresh,
           NEW l, l \notin {"lock", "session"}, NEW m, m \notin {"lock", "session"},
           pc' = [pc EXCEPT ![Refresh] = m, ![p] = l], NEW q,
           Moves({p, Refresh}, FALSE), Left(q, {p, Refresh}, FALSE), NEW r \in {NoProc, p},
           HandOver(RemoveFirst(waiters, Refresh), q, r)
    PROVE  WakeInv'
<1>1. /\ waiters \in Seq(Procs) /\ pc \in [Procs -> PCs] /\ Refresh \in Procs
      /\ Distinct(waiters)
  BY ProcsFacts DEF TypeOK, TaskType, LockType, LockInv, LockDiscipline, Distinct
<1>2. Once(waiters)
  BY <1>1 DEF Distinct, Once
<1>. DEFINE ws == RemoveFirst(waiters, Refresh)
<1>3. /\ ws \in Seq(Procs) /\ ~Has(ws, Refresh)
      /\ \A x : x # Refresh => (Has(ws, x) <=> Has(waiters, x))
  BY <1>1, <1>2, HasRemoveFirst
<1>4. HandOver(ws, q, r)
  OBVIOUS
<1>. HIDE DEF ws
<1>5. /\ pc'[p] = l /\ pc'[Refresh] = m
      /\ \A x \in Procs \ {p, Refresh} : pc'[x] = pc[x]
  BY <1>1
<1>6. \A x \in Procs : pc'[x] = "lock" <=> Has(ws, x)
  BY <1>3, <1>5, Wanting
<1>7. r = NoProc \/ (r \in {p, Refresh} /\ pc'[r] # "lock")
  BY <1>5
<1>. QED BY <1>3, <1>4, <1>6, <1>7, WakeGives

(* Every step a task other than the attempt takes under the lock, or leaving it. *)
LEMMA WakeRun ==
    ASSUME BaseInv, Numbered, WakeInv, NEW p \in Procs, Run(p)
    PROVE  WakeInv'
<1>1. /\ TypeOK /\ LockInv /\ pc \in [Procs -> PCs] /\ op \in [Procs -> Ops]
      /\ Conn \in Procs /\ Refresh \in Procs /\ Conn # Refresh /\ p # NoProc
      /\ \A x \in Procs : pc[x] \in HoldingPCs => holder = x
      /\ op[Refresh] \in {"none", "status"}
  BY Tasks, ProcsFacts DEF BaseInv
<1>2. Turn(p) => Left(After(p), {p}, FALSE) /\ running \in {NoProc, p}
  BY <1>1, TurnLeft
(* p goes to l and loses no event. *)
<1>3. ASSUME NEW l, l \notin {"lock", "session"}, pc' = [pc EXCEPT ![p] = l], Turn(p),
             UNCHANGED <<discEvent, cancelReq>>
      PROVE  Moves({p}, FALSE)
  BY <1>1, <1>2, <1>3 DEF Moves
<1>4. CASE SendStatusRequest(p) \/ Submit(p) \/ Decline(p)
  <2>1. /\ holder = p /\ Turn(p) /\ UNCHANGED <<discEvent, cancelReq>>
        /\ \/ pc' = [pc EXCEPT ![p] = "writing"] /\ KeepLock(After(p))
           \/ pc' = [pc EXCEPT ![p] = "idle"] /\ Release(After(p))
    <3>1. CASE SendStatusRequest(p)
      BY <3>1 DEF SendStatusRequest, Inside, eventVars
    <3>2. CASE Submit(p)
      BY <3>2 DEF Submit, Inside, eventVars
    <3>3. CASE Decline(p)
      BY <3>3 DEF Decline, Inside, eventVars
    <3>. QED BY <1>4, <3>1, <3>2, <3>3
  <2>2. CASE pc' = [pc EXCEPT ![p] = "writing"] /\ KeepLock(After(p))
    <3>1. Moves({p}, FALSE) /\ Left(After(p), {p}, FALSE)
      BY <1>2, <1>3, <2>1, <2>2
    <3>2. UNCHANGED <<holder, waiters>> /\ runq' = After(p) /\ running' = NoProc
      BY <2>2 DEF KeepLock
    <3>3. \A x \in {p} : pc'[x] # "lock"
      BY <1>1, <2>2
    <3>. QED BY <1>1, <3>1, <3>2, <3>3, WakeStays
  <2>3. CASE pc' = [pc EXCEPT ![p] = "idle"] /\ Release(After(p))
    <3>1. Moves({p}, FALSE) /\ Left(After(p), {p}, FALSE)
      BY <1>2, <1>3, <2>1, <2>3
    <3>. QED BY <1>1, <2>1, <2>3, <3>1, WakeReleases DEF Release
  <2>. QED BY <2>1, <2>2, <2>3
<1>5. CASE WriteReturns(p)
  <2>1. /\ holder = p /\ Turn(p) /\ UNCHANGED <<discEvent, cancelReq>>
        /\ pc' = [pc EXCEPT ![p] = "idle"] /\ Release(After(p))
    BY <1>1, <1>5 DEF WriteReturns, Resumes, HoldingPCs, eventVars
  <2>2. Moves({p}, FALSE) /\ Left(After(p), {p}, FALSE)
    BY <1>2, <1>3, <2>1
  <2>. QED BY <1>1, <2>1, <2>2, WakeReleases DEF Release
<1>6. CASE WriteFails(p)
  <2>1. /\ holder = p /\ pc[p] = "writing" /\ Turn(p) /\ discEvent' = TRUE
        /\ UNCHANGED cancelReq
        /\ pc' = [pc EXCEPT ![p] = IF p = Conn THEN "abort" ELSE "idle"]
        /\ HandOver(waiters, Wakes(After(p)), NoProc)
    BY <1>1, <1>6 DEF WriteFails, Resumes, HoldingPCs, Release
  <2>2. Left(Wakes(After(p)), {p}, TRUE)
    BY <1>1, <1>2, <2>1, WakesLeft
  <2>3. Moves({p}, TRUE)
    BY <1>1, <1>2, <2>1 DEF Moves
  <2>. QED BY <1>1, <2>1, <2>2, <2>3, WakeReleases
<1>7. CASE WriteSucceeds(p)
  <2>1. /\ holder = p /\ Turn(p) /\ UNCHANGED <<discEvent, cancelReq>>
        /\ pc[p] = "writing" /\ IsCommand(op[p]) /\ p # Conn
        /\ pc' = [pc EXCEPT ![p] = "idle", ![Refresh] = "sleep"]
        /\ HandOver(RemoveFirst(waiters, Refresh), RemoveFirst(After(p), Refresh), NoProc)
    BY <1>1, <1>7 DEF WriteSucceeds, Resumes, HoldingPCs, Reschedule
  <2>2. p # Refresh
    BY <1>1, <2>1 DEF IsCommand, Groups
  <2>3. Left(RemoveFirst(After(p), Refresh), {p, Refresh}, FALSE)
    <3>1. Left(RemoveFirst(After(p), Refresh), {p} \cup {Refresh}, FALSE)
      BY <1>1, <1>2, <2>1, DropLeft
    <3>2. {p} \cup {Refresh} = {p, Refresh}
      OBVIOUS
    <3>. QED BY <3>1, <3>2, Zenon
  <2>4. pc' = [pc EXCEPT ![Refresh] = "sleep", ![p] = "idle"]
    BY <1>1, <2>1, <2>2
  <2>5. Moves({p, Refresh}, FALSE)
    BY <1>1, <1>2, <2>1, <2>2, <2>4 DEF Moves
  <2>. QED BY <1>1, <2>1, <2>2, <2>3, <2>4, <2>5, WakeReplaces
<1>8. Resting(p) \notin {"lock", "session", "disc"}
  BY DEF Resting
<1>9. CASE Disconnected(p)
  <2>1. /\ holder = p /\ Turn(p) /\ UNCHANGED <<discEvent, cancelReq>>
        /\ pc' = [pc EXCEPT ![p] = Resting(p)]
        /\ \E r \in {NoProc, p} : HandOver(waiters, After(p), r)
    BY <1>1, <1>9 DEF Disconnected, Resumes, HoldingPCs, RunsOn, eventVars
  <2>2. Moves({p}, FALSE) /\ Left(After(p), {p}, FALSE)
    BY <1>2, <1>3, <1>8, <2>1
  <2>. QED BY <1>1, <1>8, <2>1, <2>2, WakeReleases
<1>10. CASE DisconnectClient(p)
  <2>. DEFINE cancels == pc[Refresh] # "idle" /\ ~orphaned
  <2>1. /\ holder = p /\ pc[p] = "lock" /\ op[p] = "disconnect" /\ Turn(p)
        /\ UNCHANGED discEvent
        /\ cancelReq' = IF cancels THEN cancelReq \ {Refresh} ELSE cancelReq
    BY <1>10 DEF DisconnectClient, Inside
  <2>2. p # Refresh
    BY <1>1, <2>1
  <2>3. CASE cancels
    <3>. DEFINE q == RemoveFirst(After(p), Refresh)
    <3>1. \/ /\ pc' = [pc EXCEPT ![Refresh] = "idle", ![p] = "disc"]
             /\ waiters' = RemoveFirst(waiters, Refresh) /\ runq' = q /\ running' = NoProc
             /\ UNCHANGED holder
          \/ /\ pc' = [pc EXCEPT ![Refresh] = "idle", ![p] = Resting(p)]
             /\ \E r \in {NoProc, p} : HandOver(RemoveFirst(waiters, Refresh), q, r)
      BY <1>10, <2>3 DEF DisconnectClient, RunsOn
    <3>2. Left(q, {p, Refresh}, FALSE)
      <4>1. Left(q, {p} \cup {Refresh}, FALSE)
        BY <1>1, <1>2, <2>1, DropLeft
      <4>2. {p} \cup {Refresh} = {p, Refresh}
        OBVIOUS
      <4>. QED BY <4>1, <4>2, Zenon
    <3>3. Moves({p, Refresh}, FALSE)
      BY <1>1, <1>2, <1>8, <2>1, <2>2, <3>1 DEF Moves
    <3>. HIDE DEF q
    <3>4. CASE pc' = [pc EXCEPT ![Refresh] = "idle", ![p] = Resting(p)]
      <4>1. pc'[p] # "disc"
        BY <1>1, <1>8, <3>4
      <4>2. PICK r \in {NoProc, p} : HandOver(RemoveFirst(waiters, Refresh), q, r)
        BY <1>1, <3>1, <4>1
      <4>3. Resting(p) \notin {"lock", "session"} /\ "idle" \notin {"lock", "session"}
        BY <1>8
      <4>4. TypeOK /\ LockInv /\ holder = p
        BY <1>1, <2>1
      <4>. QED BY <2>2, <3>2, <3>3, <3>4, <4>2, <4>3, <4>4, WakeReplaces, ZenonT(60)
    <3>5. CASE pc' = [pc EXCEPT ![Refresh] = "idle", ![p] = "disc"]
      <4>1. waiters' = RemoveFirst(waiters, Refresh) /\ runq' = q /\ running' = NoProc
            /\ holder' = holder
        <5>1. /\ pc'[p] = "disc"
              /\ [pc EXCEPT ![Refresh] = "idle", ![p] = Resting(p)][p] = Resting(p)
          BY <1>1, <3>5
        <5>. QED BY <1>8, <3>1, <5>1
      <4>2. \A x \in Procs \ {p, Refresh} : Has(waiters, x) => Has(waiters', x)
        <5>1. waiters \in Seq(Procs) /\ Once(waiters)
          BY <1>1 DEF TypeOK, LockType, LockInv, LockDiscipline, Once
        <5>. QED BY <1>1, <4>1, <5>1, HasRemoveFirst
      <4>3. \A x \in {p, Refresh} : pc'[x] # "lock"
        BY <1>1, <2>2, <3>5
      <4>. QED BY <1>1, <3>2, <3>3, <4>1, <4>2, <4>3, WakeStays
    <3>. QED BY <3>1, <3>4, <3>5
  <2>4. CASE ~cancels
    <3>1. \/ /\ pc' = [pc EXCEPT ![Refresh] = pc[Refresh], ![p] = "disc"]
             /\ KeepLock(After(p))
          \/ /\ pc' = [pc EXCEPT ![Refresh] = pc[Refresh], ![p] = Resting(p)]
             /\ \E r \in {NoProc, p} : HandOver(waiters, After(p), r)
      BY <1>10, <2>4 DEF DisconnectClient, RunsOn, KeepLock
    <3>2. [pc EXCEPT ![Refresh] = pc[Refresh]] = pc
      BY <1>1
    <3>3. \/ /\ pc' = [pc EXCEPT ![p] = "disc"]
             /\ KeepLock(After(p))
          \/ /\ pc' = [pc EXCEPT ![p] = Resting(p)]
             /\ \E r \in {NoProc, p} : HandOver(waiters, After(p), r)
      BY <3>1, <3>2
    <3>4. UNCHANGED <<discEvent, cancelReq>>
      BY <2>1, <2>4
    <3>5. Moves({p}, FALSE) /\ Left(After(p), {p}, FALSE)
      BY <1>2, <1>3, <1>8, <2>1, <3>3, <3>4
    <3>6. CASE pc' = [pc EXCEPT ![p] = "disc"] /\ KeepLock(After(p))
      <4>1. UNCHANGED <<holder, waiters>> /\ runq' = After(p) /\ running' = NoProc
        BY <3>6 DEF KeepLock
      <4>2. \A x \in {p} : pc'[x] # "lock"
        BY <1>1, <3>6
      <4>. QED BY <1>1, <3>5, <4>1, <4>2, WakeStays
    <3>7. CASE /\ pc' = [pc EXCEPT ![p] = Resting(p)]
               /\ \E r \in {NoProc, p} : HandOver(waiters, After(p), r)
      BY <1>1, <1>8, <2>1, <3>5, <3>7, WakeReleases
    <3>. QED BY <3>3, <3>6, <3>7
  <2>. QED BY <2>3, <2>4
<1>. QED BY <1>4, <1>5, <1>6, <1>7, <1>9, <1>10 DEF Run

(* Every step of the connection task's attempts and sessions. *)
LEMMA WakeConn ==
    ASSUME BaseInv, Numbered, WakeInv, ConnStep
    PROVE  WakeInv'
<1>1. /\ TypeOK /\ LockInv /\ pc \in [Procs -> PCs] /\ Conn \in Procs /\ Conn # NoProc
      /\ \A x \in Procs : pc[x] \in HoldingPCs => holder = x /\ gen \in Nat
      /\ gen \in Nat
  BY Tasks, ProcsFacts DEF BaseInv
<1>2. Turn(Conn) => Left(After(Conn), {Conn}, FALSE) /\ running \in {NoProc, Conn}
  BY <1>1, TurnLeft
<1>3. ASSUME Turn(Conn), NEW l, pc' = [pc EXCEPT ![Conn] = l], l # "session" \/ ~discEvent'
      PROVE  Moves({Conn}, FALSE)
  BY <1>1, <1>2, <1>3 DEF Moves
(* The connection task goes on without touching the lock, which it may hold. *)
<1>4. ASSUME Turn(Conn), NEW l, pc' = [pc EXCEPT ![Conn] = l], l \notin {"lock", "session"},
             KeepLock(After(Conn)) \/ RunOn(Conn, After(Conn))
      PROVE  WakeInv'
  <2>1. Moves({Conn}, FALSE) /\ Left(After(Conn), {Conn}, FALSE)
    BY <1>2, <1>3, <1>4
  <2>2. /\ UNCHANGED <<holder, waiters>> /\ runq' = After(Conn)
        /\ running' \in {Conn} \cup {NoProc}
    BY <1>4 DEF KeepLock, RunOn
  <2>3. \A x \in {Conn} : pc'[x] # "lock"
    BY <1>1, <1>4
  <2>. QED BY <1>1, <2>1, <2>2, <2>3, WakeStays
<1>5. ASSUME Turn(Conn), NEW o, NEW q, Acquire(Conn, o, q), Left(q, {Conn}, FALSE),
             pc[Conn] \notin HoldingPCs \cup {"lock"}
      PROVE  WakeInv'
  <2>1. Moves({Conn}, FALSE)
    BY <1>3, <1>5 DEF Acquire
  <2>. QED BY <1>1, <1>5, <2>1, WakeAcquires
<1>6. ASSUME Turn(Conn), holder = Conn, NEW l, l # "lock", l # "session" \/ ~discEvent',
             pc' = [pc EXCEPT ![Conn] = l], Release(After(Conn))
      PROVE  WakeInv'
  <2>1. Moves({Conn}, FALSE) /\ Left(After(Conn), {Conn}, FALSE)
    BY <1>2, <1>3, <1>6
  <2>. QED BY <1>1, <1>6, <2>1, WakeReleases DEF Release
<1>7. CASE StartAttempt
  <2>1. /\ Turn(Conn) /\ pc' = [pc EXCEPT ![Conn] = "estab"]
        /\ KeepLock(After(Conn)) \/ RunOn(Conn, After(Conn))
    BY <1>7 DEF StartAttempt, Resumes
  <2>2. "estab" \notin {"lock", "session"}
    OBVIOUS
  <2>. QED BY <1>4, <2>1, <2>2, Zenon
<1>8. CASE EstablishFails \/ SessionEnds
  BY <1>2, <1>5, <1>8 DEF EstablishFails, SessionEnds, Resumes, HoldingPCs
<1>9. CASE Established
  BY <1>2, <1>4, <1>5, <1>9 DEF Established, Resumes, HoldingPCs
<1>10. CASE Install
  <2>1. Turn(Conn) /\ pc' = [pc EXCEPT ![Conn] = "notify"] /\ KeepLock(After(Conn))
    BY <1>10 DEF Install, Inside
  <2>2. "notify" \notin {"lock", "session"}
    OBVIOUS
  <2>. QED BY <1>4, <2>1, <2>2, Zenon
<1>11. CASE SubscribeFails \/ Subscribed
  <2>1. Turn(Conn) /\ holder = Conn
    BY <1>1, <1>11 DEF SubscribeFails, Subscribed, Resumes, HoldingPCs
  <2>2. \/ pc' = [pc EXCEPT ![Conn] = "abort"] /\ Release(After(Conn))
        \/ pc' = [pc EXCEPT ![Conn] = "writing"] /\ KeepLock(After(Conn))
    BY <1>11 DEF SubscribeFails, Subscribed
  <2>. QED BY <1>4, <1>6, <2>1, <2>2
<1>12. CASE FirstRequestSent
  <2>1. Turn(Conn) /\ holder = Conn
    BY <1>1, <1>12 DEF FirstRequestSent, Resumes, HoldingPCs
  <2>2. CASE Reacquire(Conn, "disconnect", After(Conn))
    <3>1. Moves({Conn}, FALSE) /\ Left(After(Conn), {Conn}, FALSE)
      BY <1>2, <1>3, <2>1, <2>2 DEF Reacquire
    <3>. QED BY <1>1, <2>1, <2>2, <3>1, WakeReacquires
  <2>3. CASE Opened /\ ~(discEvent /\ ~SessionChanged)
    <3>1. discEvent' = discEvent
      BY <1>12 DEF FirstRequestSent, eventVars
    <3>2. Release(After(Conn))
      BY <2>3 DEF Opened
    <3>3. CASE SessionChanged
      <4>1. pc' = [pc EXCEPT ![Conn] = "abort"]
        BY <2>3, <3>3 DEF Opened
      <4>. QED BY <1>6, <2>1, <3>2, <4>1
    <3>4. CASE ~SessionChanged
      <4>1. pc' = [pc EXCEPT ![Conn] = "session"] /\ ~discEvent'
        BY <2>3, <3>1, <3>4 DEF Opened
      <4>. QED BY <1>6, <2>1, <3>2, <4>1
    <3>. QED BY <3>3, <3>4
  <2>. QED BY <1>12, <2>2, <2>3 DEF FirstRequestSent
<1>13. CASE Abort
  <2>1. /\ Turn(Conn) /\ pc[Conn] = "abort"
        /\ \/ Acquire(Conn, "disconnect", QueueAfterLoss(gen, After(Conn)))
           \/ Acquire(Conn, "disconnect", After(Conn))
    BY <1>13 DEF Abort, Resumes
  <2>2. Left(QueueAfterLoss(gen, After(Conn)), {Conn}, FALSE)
    BY <1>1, <1>2, <2>1, LossLeft
  <2>. QED BY <1>2, <1>5, <2>1, <2>2 DEF HoldingPCs
<1>. QED BY <1>7, <1>8, <1>9, <1>10, <1>11, <1>12, <1>13 DEF ConnStep

(* What is not a step of the loop happens while no task runs. *)
LEMMA IdleSteps ==
    ASSUME [Next]_vars, ~LoopStep, vars' # vars
    PROVE  running = NoProc
  BY DEF Next

(* A task that is cancelled, or its caller's task, ends where it is. *)
LEMMA WakeDeliver ==
    ASSUME BaseInv, WakeInv, NEW p \in Procs, Deliver(p), running = NoProc
    PROVE  WakeInv'
<1>1. /\ TypeOK /\ LockInv /\ pc \in [Procs -> PCs] /\ p # NoProc
      /\ \A x \in Procs : pc[x] \in HoldingPCs => holder = x
  BY Tasks, ProcsFacts DEF BaseInv
<1>. DEFINE q == RemoveFirst(runq, p)
<1>2. Left(q, {p}, FALSE)
  <2>1. Left(q, {} \cup {p}, FALSE)
    BY <1>1, NothingLeft, DropLeft
  <2>2. {} \cup {p} = {p}
    OBVIOUS
  <2>. QED BY <2>1, <2>2, Zenon
<1>3. Cancelled(p) \notin {"lock", "session"}
  BY DEF Cancelled
<1>4. /\ pc' = [pc EXCEPT ![p] = Cancelled(p)] /\ discEvent' = discEvent
      /\ cancelReq' = cancelReq \ {p}
      /\ \/ UNCHANGED lockVars /\ runq' = q
         \/ Withdraw(p)
         \/ holder = p /\ Release(q)
  <2>1. CASE CancelResting(p)
    BY <2>1 DEF CancelResting
  <2>2. CASE CancelWaiting(p)
    BY <2>2 DEF CancelWaiting
  <2>3. CASE CancelWriting(p)
    BY <1>1, <2>3 DEF CancelWriting, HoldingPCs
  <2>4. CASE CancelDisconnect(p)
    BY <1>1, <2>4 DEF CancelDisconnect, HoldingPCs
  <2>. QED BY <2>1, <2>2, <2>3, <2>4 DEF Deliver
<1>. HIDE DEF q
<1>5. Moves({p}, FALSE)
  BY <1>1, <1>3, <1>4 DEF Moves
<1>6. pc'[p] # "lock"
  BY <1>1, <1>3, <1>4
<1>7. CASE UNCHANGED lockVars /\ runq' = q
  <2>1. /\ holder' = holder /\ runq' = q /\ running' \in {p} \cup {NoProc}
        /\ \A x \in Procs \ {p} : Has(waiters, x) => Has(waiters', x)
        /\ \A x \in {p} : pc'[x] # "lock"
    BY <1>6, <1>7 DEF lockVars
  <2>. QED BY <1>1, <1>2, <1>5, <2>1, WakeStays
<1>8. CASE holder = p /\ Release(q)
  BY <1>1, <1>2, <1>3, <1>4, <1>5, <1>8, WakeReleases DEF Release
<1>9. CASE holder # p /\ Withdraw(p)
  <2>1. waiters' = RemoveFirst(waiters, p) /\ runq' = q /\ UNCHANGED <<holder, running>>
    BY <1>9 DEF Withdraw, q
  <2>2. waiters \in Seq(Procs) /\ Once(waiters)
    BY <1>1 DEF TypeOK, LockType, LockInv, LockDiscipline, Once
  <2>3. \A x \in Procs \ {p} : Has(waiters, x) => Has(waiters', x)
    BY <2>1, <2>2, HasRemoveFirst
  <2>4. running' \in {p} \cup {NoProc} /\ \A x \in {p} : pc'[x] # "lock"
    BY <1>6, <2>1
  <2>. QED BY <1>1, <1>2, <1>5, <2>1, <2>3, <2>4, WakeStays
<1>. QED BY <1>4, <1>7, <1>8, <1>9 DEF Withdraw, q

(* async_stop's cancellation reaches the connection task, which cleans up as it ends.
   *)
LEMMA WakeCancelConnection ==
    ASSUME BaseInv, WakeInv, CancelConnection, running = NoProc
    PROVE  WakeInv'
<1>1. /\ TypeOK /\ LockInv /\ pc \in [Procs -> PCs] /\ Conn \in Procs /\ Conn # NoProc
      /\ \A x \in Procs : pc[x] \in HoldingPCs => holder = x
  BY Tasks, ProcsFacts DEF BaseInv
<1>. DEFINE q == RemoveFirst(runq, Conn)
<1>2. Left(q, {Conn}, FALSE)
  <2>1. Left(q, {} \cup {Conn}, FALSE)
    BY <1>1, NothingLeft, DropLeft
  <2>2. {} \cup {Conn} = {Conn}
    OBVIOUS
  <2>. QED BY <2>1, <2>2, Zenon
<1>3. /\ UNCHANGED <<discEvent>> /\ cancelReq' = cancelReq \ {Conn}
      /\ \/ pc[Conn] \in {"estab", "abort", "session"} /\ Acquire(Conn, "disconnect", q)
         \/ holder = Conn /\ Reacquire(Conn, "disconnect", q)
         \/ /\ Contains(waiters, Conn) /\ UNCHANGED <<pc, holder, running>> /\ runq' = q
            /\ waiters' = Append(RemoveFirst(waiters, Conn), Conn)
  BY <1>1 DEF CancelConnection, HoldingPCs
<1>. HIDE DEF q
<1>4. ASSUME pc' = [pc EXCEPT ![Conn] = "lock"]
      PROVE  Moves({Conn}, FALSE)
  BY <1>1, <1>3, <1>4 DEF Moves
<1>5. CASE pc[Conn] \in {"estab", "abort", "session"} /\ Acquire(Conn, "disconnect", q)
  <2>1. Moves({Conn}, FALSE)
    BY <1>4, <1>5 DEF Acquire
  <2>2. pc[Conn] \notin HoldingPCs \cup {"lock"}
    BY <1>5 DEF HoldingPCs
  <2>. QED BY <1>1, <1>2, <1>5, <2>1, <2>2, WakeAcquires
<1>6. CASE holder = Conn /\ Reacquire(Conn, "disconnect", q)
  <2>1. Moves({Conn}, FALSE)
    BY <1>4, <1>6 DEF Reacquire
  <2>. QED BY <1>1, <1>2, <1>6, <2>1, WakeReacquires
<1>7. CASE /\ Contains(waiters, Conn) /\ UNCHANGED <<pc, holder, running>> /\ runq' = q
           /\ waiters' = Append(RemoveFirst(waiters, Conn), Conn)
  <2>1. waiters \in Seq(Procs) /\ Once(waiters)
    BY <1>1 DEF TypeOK, LockType, LockInv, LockDiscipline, Once
  <2>2. pc[Conn] = "lock" /\ holder # Conn
    BY <1>1, <1>7, <2>1, Wanting, HasContains
  <2>3. /\ RemoveFirst(waiters, Conn) \in Seq(Procs)
        /\ \A x : x # Conn => (Has(RemoveFirst(waiters, Conn), x) <=> Has(waiters, x))
    BY <1>1, <2>1, HasRemoveFirst
  <2>4. \A x : Has(waiters', x) <=> Has(RemoveFirst(waiters, Conn), x) \/ x = Conn
    BY <1>1, <1>7, <2>3, HasAppend
  <2>5. \A x \in Procs : Has(runq', x) => Has(runq, x)
    BY <1>2, <1>7 DEF Left
  <2>6. \A x \in Procs : pc[x] = "lock" /\ holder = x => x # Conn /\ Has(runq', x)
    BY <1>2, <1>7, <2>2, ProcsFacts DEF Left, WakeInv
  <2>7. \A x \in Procs : pc[x] = "lock" /\ holder # x => Has(waiters', x)
    BY <2>3, <2>4 DEF WakeInv
  <2>8. Once(runq')
    BY <1>2, <1>7 DEF Left
  <2>. QED BY <1>3, <1>7, <2>2, <2>5, <2>6, <2>7, <2>8 DEF WakeInv
<1>. QED BY <1>3, <1>5, <1>6, <1>7

(* WakeInv is inductive. *)
LEMMA WakeStep ==
    ASSUME BaseInv, Numbered, WakeInv, [Next]_vars
    PROVE  WakeInv'
<1>1. /\ TypeOK /\ LockInv /\ pc \in [Procs -> PCs] /\ Conn \in Procs /\ Stop \in Procs
      /\ Refresh \in Procs /\ Conn # Stop /\ Conn # Refresh /\ Stop # Refresh
      /\ runq \in Queues /\ Once(runq)
  BY Tasks DEF BaseInv, TypeOK, LockType, Queues, WakeInv
<1>2. Left(runq, {}, FALSE)
  BY <1>1, NothingLeft
<1>3. CASE UNCHANGED <<pc, lockVars, runq, discEvent, cancelReq>>
  BY <1>3 DEF WakeInv, lockVars
<1>4. CASE LoopStep
  <2>1. CASE RefreshFires
    <3>1. /\ Turn(Refresh) /\ pc[Refresh] = "sleep" /\ UNCHANGED <<discEvent, cancelReq>>
          /\ Acquire(Refresh, "status", After(Refresh))
      BY <2>1 DEF RefreshFires, Resumes, eventVars
    <3>2. Left(After(Refresh), {Refresh}, FALSE) /\ running \in {NoProc, Refresh}
      BY <1>1, <3>1, TurnLeft
    <3>3. Moves({Refresh}, FALSE)
      BY <1>1, <3>1, <3>2 DEF Moves, Acquire
    <3>. QED BY <1>1, <3>1, <3>2, <3>3, WakeAcquires DEF HoldingPCs
  <2>2. ASSUME NEW s \in 1..MaxSessions, RequestDisconnect(s), running = NoProc
        PROVE  WakeInv'
    <3>1. /\ runq # <<>> /\ Head(runq) = s /\ runq' = Wakes(Tail(runq)) /\ discEvent' = TRUE
          /\ UNCHANGED <<pc, lockVars, cancelReq>>
      BY <2>2 DEF RequestDisconnect, IsNext, taskVars
    <3>2. s \notin Procs
      BY TaskAssumption, ClientAssumption
    <3>. DEFINE q == Wakes(Tail(runq))
    <3>3. /\ Tail(runq) \in Seq(Procs \cup Nat) /\ Once(Tail(runq))
          /\ \A x : Has(runq, x) <=> Has(Tail(runq), x) \/ x = s
      BY <1>1, <3>1, HasTail DEF Queues
    <3>4. /\ Once(q)
          /\ \A x \in Procs : Has(q, x) <=>
                 Has(runq, x) \/ (x = Conn /\ pc[Conn] = "session" /\ ~discEvent)
      <4>1. CASE pc[Conn] = "session" /\ ~discEvent
        <5>1. ~Has(Tail(runq), Conn)
          BY <1>1, <3>3, <4>1 DEF WakeInv
        <5>2. /\ Once(Append(Tail(runq), Conn))
              /\ \A x : Has(Append(Tail(runq), Conn), x) <=> Has(Tail(runq), x) \/ x = Conn
          <6>1. Conn \in Procs \cup Nat
            BY <1>1
          <6>. DEFINE t == Tail(runq)
          <6>2. t \in Seq(Procs \cup Nat) /\ Once(t) /\ ~Has(t, Conn)
            BY <3>3, <5>1
          <6>. HIDE DEF t
          <6>3. /\ Once(Append(t, Conn))
                /\ \A x : Has(Append(t, Conn), x) <=> Has(t, x) \/ x = Conn
            BY <6>1, <6>2, HasAppend, Zenon
          <6>. QED BY <6>3 DEF t
        <5>. QED BY <1>1, <3>2, <3>3, <4>1, <5>2 DEF Wakes
      <4>2. CASE ~(pc[Conn] = "session" /\ ~discEvent)
        BY <3>2, <3>3, <4>2 DEF Wakes
      <4>. QED BY <4>1, <4>2
    <3>. HIDE DEF q
    <3>5. runq' = q /\ UNCHANGED <<pc, holder, waiters, running, cancelReq>>
      BY <3>1 DEF lockVars, q
    <3>6. ASSUME NEW x \in Procs, Has(runq', x)
          PROVE  /\ running' # x /\ pc'[x] \in Awaits
                 /\ pc'[x] = "lock" => holder' = x
                 /\ pc'[x] = "session" => x = Conn /\ discEvent'
      BY <2>2, <3>1, <3>4, <3>5, <3>6, ProcsFacts DEF WakeInv, Awaits
    <3>7. \A x \in Procs : Has(runq, x) => Has(runq', x)
      BY <3>4, <3>5
    <3>8. pc'[Conn] = "session" /\ discEvent' => Has(runq', Conn) \/ Conn \in cancelReq'
      BY <1>1, <3>4, <3>5 DEF WakeInv
    <3>. QED BY <3>4, <3>5, <3>6, <3>7, <3>8 DEF WakeInv
  <2>. QED BY <1>4, <2>1, <2>2, WakeRun, WakeConn DEF LoopStep
<1>5. CASE running = NoProc
  <2>1. ASSUME NEW p \in Callers, Reconnect(p) \/ \E o \in Calls : Call(p, o)
        PROVE  WakeInv'
    <3>1. p \in Procs /\ p # Conn /\ p # NoProc
      BY ProcsFacts
    <3>2. CASE Reconnect(p)
      <4>1. /\ pc[p] = "idle" /\ discEvent' = TRUE /\ UNCHANGED cancelReq
            /\ Acquire(p, "disconnect", Wakes(runq))
        BY <3>2 DEF Reconnect
      <4>2. ~Has(runq, p)
        BY <3>1, <4>1 DEF WakeInv, Awaits, HoldingPCs
      <4>3. Left(Wakes(runq), {}, TRUE)
        BY <1>1, <1>2, WakesLeft
      <4>4. Left(Wakes(runq), {p}, TRUE)
        BY <3>1, <4>2, <4>3 DEF Left
      <4>5. Moves({p}, TRUE)
        BY <1>1, <1>5, <3>1, <4>1 DEF Moves, Acquire
      <4>. QED BY <1>1, <3>1, <4>1, <4>4, <4>5, WakeAcquires DEF HoldingPCs
    <3>3. ASSUME NEW o, Call(p, o)
          PROVE  WakeInv'
      <4>1. /\ pc[p] = "idle" /\ UNCHANGED <<discEvent, cancelReq>>
            /\ Acquire(p, o, runq)
        BY <3>3 DEF Call, eventVars
      <4>2. ~Has(runq, p)
        BY <3>1, <4>1 DEF WakeInv, Awaits, HoldingPCs
      <4>3. Left(runq, {p}, FALSE)
        BY <1>2, <4>2 DEF Left
      <4>4. Moves({p}, FALSE)
        BY <1>1, <1>5, <3>1, <4>1 DEF Moves, Acquire
      <4>. QED BY <1>1, <3>1, <4>1, <4>3, <4>4, WakeAcquires DEF HoldingPCs
    <3>. QED BY <2>1, <3>2, <3>3
  <2>2. CASE StopBegins
    <3>1. /\ pc[Stop] = "run" /\ pc' = [pc EXCEPT ![Stop] = "gather"] /\ discEvent' = TRUE
          /\ Conn \in cancelReq' /\ UNCHANGED <<holder, waiters, running, runq>>
      BY <1>1, <2>2 DEF StopBegins, lockVars
    <3>2. Left(runq, {Stop}, FALSE)
      BY <1>1, <1>2, <3>1 DEF Left, WakeInv, Awaits, HoldingPCs
    <3>3. Moves({Stop}, FALSE)
      BY <1>1, <1>5, <3>1 DEF Moves
    <3>4. \A x \in {Stop} : pc'[x] # "lock"
      BY <1>1, <3>1
    <3>. QED BY <1>1, <1>5, <3>1, <3>2, <3>3, <3>4, WakeStays
  <2>3. CASE StopGathered
    <3>1. /\ pc[Stop] = "gather" /\ UNCHANGED <<discEvent, cancelReq>>
          /\ Acquire(Stop, "disconnect", runq)
      BY <2>3 DEF StopGathered
    <3>2. Left(runq, {Stop}, FALSE)
      BY <1>1, <1>2, <3>1 DEF Left, WakeInv, Awaits, HoldingPCs
    <3>3. Moves({Stop}, FALSE)
      BY <1>1, <1>5, <3>1 DEF Moves, Acquire
    <3>. QED BY <1>1, <3>1, <3>2, <3>3, WakeAcquires DEF HoldingPCs
  <2>4. ASSUME NEW p \in Procs, Completes(p)
        PROVE  WakeInv'
    <3>1. /\ pc[p] \in {"sleep", "estab", "notify", "writing", "abort", "disc", "retry"}
          /\ ~Has(runq, p) /\ runq' = Append(runq, p)
          /\ UNCHANGED <<pc, holder, waiters, running, discEvent, cancelReq>>
      BY <2>4 DEF Completes, Queued, Has, taskVars, lockVars, eventVars
    <3>2. Once(runq') /\ \A x : Has(runq', x) <=> Has(runq, x) \/ x = p
      BY <1>1, <3>1, HasAppend DEF Queues
    <3>. QED BY <1>5, <3>1, <3>2, ProcsFacts DEF WakeInv, Awaits, HoldingPCs
  <2>5. ASSUME NEW s \in 1..MaxSessions, LinkDrops(s)
        PROVE  WakeInv'
    <3>1. /\ runq' = QueueAfterLoss(s, runq)
          /\ UNCHANGED <<pc, holder, waiters, running, discEvent, cancelReq>>
      BY <2>5 DEF LinkDrops, taskVars, lockVars, eventVars
    <3>2. Left(QueueAfterLoss(s, runq), {}, FALSE)
      <4>1. s \in Nat /\ {} \in SUBSET Procs
        BY ClientAssumption
      <4>. QED BY <1>2, <4>1, LossLeft
    <3>3. Once(runq') /\ \A x \in Procs : Has(runq', x) <=> Has(runq, x)
      BY <3>1, <3>2 DEF Left
    <3>. QED BY <3>1, <3>3, ProcsFacts DEF WakeInv
  <2>6. ASSUME \/ \E s \in 1..MaxSessions, k \in Packets : Notification(s, k)
               \/ \E g \in Groups : Stale(g) \/ DeadlinePasses(g)
               \/ UNCHANGED vars
        PROVE  WakeInv'
    BY <1>3, <2>6 DEF Notification, Stale, DeadlinePasses, vars, taskVars, eventVars, lockVars
  <2>7. \/ \E p \in Procs : Run(p) \/ Completes(p) \/ Deliver(p)
        \/ ConnStep \/ RefreshFires
        \/ CancelConnection \/ StopGathered \/ StopBegins
        \/ \E p \in Callers : Reconnect(p) \/ \E o \in Calls : Call(p, o)
        \/ \E s \in 1..MaxSessions : RequestDisconnect(s)
        \/ \E s \in 1..MaxSessions : LinkDrops(s)
        \/ \E s \in 1..MaxSessions, k \in Packets : Notification(s, k)
        \/ \E g \in Groups : Stale(g) \/ DeadlinePasses(g)
        \/ UNCHANGED vars
    BY <1>1, Steps, Zenon
  <2>8. (\E p \in Procs : Run(p)) \/ ConnStep \/ RefreshFires
            \/ (\E s \in 1..MaxSessions : RequestDisconnect(s)) => LoopStep
    BY <1>5 DEF LoopStep
  <2>. QED BY <1>4, <1>5, <2>1, <2>2, <2>3, <2>4, <2>5, <2>6, <2>7, <2>8, WakeDeliver,
              WakeCancelConnection
<1>6. CASE UNCHANGED vars
  BY <1>3, <1>6 DEF vars, taskVars, eventVars, lockVars
<1>. QED BY <1>4, <1>5, <1>6, IdleSteps

(* At the start only the connection task is queued. *)
LEMMA WakeInit == Init => WakeInv
<1>. SUFFICES ASSUME Init PROVE WakeInv
  OBVIOUS
<1>1. /\ pc[Conn] = "retry" /\ \A p \in Procs : pc[p] \in {"retry", "run", "idle"}
      /\ runq = <<Conn>> /\ running = NoProc
  BY ProcsFacts DEF Init
<1>2. \A x : Has(runq, x) <=> x = Conn
  BY <1>1 DEF Has
<1>. QED BY <1>1, <1>2, ProcsFacts DEF WakeInv, Once, Awaits

-----------------------------------------------------------------------------
(* A lost link.  The callback of the link that drops queues its request only if the
   session is the active one, so a session that counts as connected has to be active,
   or somebody is already on the way to end it.  A cancelled connection task may leave
   one behind, for async_stop, which has set the event. *)
Ending == discEvent \/ pc[Conn] = "abort" \/ op[Conn] = "disconnect"

LossInv ==
    /\ cancelReq # {} => pc[Stop] # "run"
    /\ \A p \in Procs : pc[p] = "disc" => ~connected
    /\ connected => activeGen = client \/ Ending
    /\ connected /\ client \notin links => Has(runq, client) \/ Ending

(* A hand-over appends the new owner to the queue, or nobody. *)
LEMMA HandsOn ==
    ASSUME NEW ws \in Seq(Procs), NEW q, NEW r, HandOver(ws, q, r)
    PROVE  runq' = q \/ \E h \in Procs : runq' = Append(q, h)
<1>1. ws # <<>> => Head(ws) \in Procs
  OBVIOUS
<1>. QED BY <1>1 DEF HandOver

(* Only the loop takes a request off the queue. *)
LEMMA RequestsQueued ==
    ASSUME BaseInv, WakeInv, [Next]_vars, NEW s \in Nat, Has(runq, s)
    PROVE  Has(runq', s) \/ \E t \in 1..MaxSessions : RequestDisconnect(t)
<1>1. /\ TypeOK /\ Conn \in Procs /\ Refresh \in Procs /\ waiters \in Seq(Procs)
      /\ gen \in Nat /\ MaxSessions \in Nat
      /\ RemoveFirst(waiters, Refresh) \in Seq(Procs)
  BY Tasks, RemoveFirstType, ClientAssumption DEF BaseInv, TypeOK, LockType
<1>2. Left(runq, {}, FALSE)
  BY <1>1, NothingLeft
(* Every queue that a step hands on keeps the requests. *)
<1>3. ASSUME NEW q, q \in Queues, Has(q, s),
             runq' = q \/ \E h \in Procs : runq' = Append(q, h)
      PROVE  Has(runq', s)
  <2>1. ASSUME NEW h \in Procs PROVE Has(Append(q, h), s)
    <3>1. h \in Procs \cup Nat
      OBVIOUS
    <3>. QED BY <1>3, <3>1, HasAppend DEF Queues
  <2>. QED BY <1>3, <2>1
<1>4. ASSUME NEW q, q \in Queues, Has(q, s), NEW ws \in Seq(Procs), NEW r,
             HandOver(ws, q, r)
      PROVE  Has(runq', s)
  BY <1>3, <1>4, HandsOn
<1>5. ASSUME NEW q, q \in Queues, Has(q, s), NEW p \in Procs, NEW o,
             Acquire(p, o, q) \/ Reacquire(p, o, q) \/ KeepLock(q) \/ RunOn(p, q) \/ Release(q)
      PROVE  Has(runq', s)
  <2>1. Append(waiters, p) \in Seq(Procs)
    BY <1>1
  <2>2. CASE Reacquire(p, o, q) /\ waiters # <<>>
    BY <1>4, <1>5, <2>1, <2>2 DEF Reacquire
  <2>3. CASE Release(q)
    BY <1>1, <1>4, <1>5, <2>3 DEF Release
  <2>. QED BY <1>5, <2>2, <2>3 DEF Acquire, Reacquire, KeepLock, RunOn
<1>6. ASSUME NEW p \in Procs, Turn(p)
      PROVE  /\ After(p) \in Queues /\ Has(After(p), s)
             /\ RemoveFirst(After(p), Refresh) \in Queues
             /\ Has(RemoveFirst(After(p), Refresh), s)
             /\ Wakes(After(p)) \in Queues /\ Has(Wakes(After(p)), s)
             /\ QueueAfterLoss(gen, After(p)) \in Queues
             /\ Has(QueueAfterLoss(gen, After(p)), s)
  <2>1. After(p) \in Queues /\ Has(After(p), s) /\ Left(After(p), {p}, FALSE)
    BY <1>1, <1>6, TurnLeft DEF Left
  <2>2. Left(RemoveFirst(After(p), Refresh), {p} \cup {Refresh}, FALSE)
    BY <1>1, <2>1, DropLeft
  <2>3. Wakes(After(p)) \in Queues /\ Has(Wakes(After(p)), s)
    <3>1. Conn \in Procs \cup Nat
      BY <1>1
    <3>2. Append(After(p), Conn) \in Queues /\ Has(Append(After(p), Conn), s)
      BY <2>1, <3>1, HasAppend DEF Queues
    <3>. QED BY <2>1, <3>2 DEF Wakes
  <2>4. Left(QueueAfterLoss(gen, After(p)), {p}, FALSE)
    BY <1>1, <2>1, LossLeft
  <2>. QED BY <2>1, <2>2, <2>3, <2>4 DEF Left
<1>7. ASSUME NEW p \in Procs, Run(p) PROVE Has(runq', s)
  <2>1. CASE DisconnectClient(p)
    <3>1. /\ Turn(p)
          /\ \E q \in {After(p), RemoveFirst(After(p), Refresh)} :
                \/ runq' = q
                \/ \E ws \in {waiters, RemoveFirst(waiters, Refresh)}, r \in RunsOn(p) :
                      HandOver(ws, q, r)
      BY <2>1, Zenon DEF DisconnectClient, Inside
    <3>. QED BY <1>1, <1>3, <1>4, <1>6, <3>1
  <2>2. CASE WriteSucceeds(p)
    <3>1. /\ Turn(p)
          /\ HandOver(RemoveFirst(waiters, Refresh), RemoveFirst(After(p), Refresh), NoProc)
      BY <2>2 DEF WriteSucceeds, Resumes, Reschedule
    <3>. QED BY <1>1, <1>4, <1>6, <3>1
  <2>3. CASE Disconnected(p)
    <3>1. Turn(p) /\ \E r \in RunsOn(p) : HandOver(waiters, After(p), r)
      BY <2>3 DEF Disconnected, Resumes
    <3>. QED BY <1>1, <1>4, <1>6, <3>1
  <2>4. CASE WriteFails(p)
    <3>1. Turn(p) /\ Release(Wakes(After(p)))
      BY <2>4 DEF WriteFails, Resumes
    <3>. QED BY <1>5, <1>6, <3>1
  <2>5. CASE SendStatusRequest(p) \/ Submit(p) \/ Decline(p) \/ WriteReturns(p)
    <3>1. Turn(p) /\ (KeepLock(After(p)) \/ Release(After(p)))
      BY <2>5 DEF SendStatusRequest, Submit, Decline, WriteReturns, Inside, Resumes
    <3>. QED BY <1>5, <1>6, <3>1
  <2>. QED BY <1>7, <2>1, <2>2, <2>3, <2>4, <2>5 DEF Run
<1>8. CASE ConnStep
  <2>1. CASE Abort
    <3>1. /\ Turn(Conn)
          /\ \E q \in {After(Conn), QueueAfterLoss(gen, After(Conn))} :
                Acquire(Conn, "disconnect", q)
      BY <2>1 DEF Abort, Resumes
    <3>. QED BY <1>1, <1>5, <1>6, <3>1
  <2>2. CASE FirstRequestSent
    <3>1. Turn(Conn) /\ (Reacquire(Conn, "disconnect", After(Conn)) \/ Release(After(Conn)))
      BY <2>2 DEF FirstRequestSent, Resumes, Opened
    <3>. QED BY <1>1, <1>5, <1>6, <3>1
  <2>3. CASE Established \/ EstablishFails \/ SessionEnds
    <3>1. /\ Turn(Conn)
          /\ \/ KeepLock(After(Conn)) \/ Acquire(Conn, "connect", After(Conn))
             \/ Acquire(Conn, "disconnect", After(Conn))
      BY <2>3 DEF Established, EstablishFails, SessionEnds, Resumes
    <3>. QED BY <1>1, <1>5, <1>6, <3>1
  <2>4. CASE StartAttempt \/ Install \/ SubscribeFails \/ Subscribed
    <3>1. /\ Turn(Conn)
          /\ KeepLock(After(Conn)) \/ RunOn(Conn, After(Conn)) \/ Release(After(Conn))
      BY <2>4 DEF StartAttempt, Install, SubscribeFails, Subscribed, Resumes, Inside
    <3>. QED BY <1>1, <1>5, <1>6, <3>1
  <2>. QED BY <1>8, <2>1, <2>2, <2>3, <2>4 DEF ConnStep
<1>9. CASE RefreshFires
  <2>1. Turn(Refresh) /\ Acquire(Refresh, "status", After(Refresh))
    BY <1>9 DEF RefreshFires, Resumes
  <2>. QED BY <1>1, <1>5, <1>6, <2>1
<1>10. /\ runq \in Queues
       /\ Wakes(runq) \in Queues /\ Has(Wakes(runq), s)
       /\ \A p \in Procs : RemoveFirst(runq, p) \in Queues /\ Has(RemoveFirst(runq, p), s)
       /\ \A t \in Nat : QueueAfterLoss(t, runq) \in Queues /\ Has(QueueAfterLoss(t, runq), s)
  <2>1. Left(Wakes(runq), {}, TRUE)
    BY <1>1, <1>2, WakesLeft
  <2>2. \A p \in Procs : Left(RemoveFirst(runq, p), {} \cup {p}, FALSE)
    BY <1>2, DropLeft
  <2>3. \A t \in Nat : Left(QueueAfterLoss(t, runq), {}, FALSE)
    BY <1>2, LossLeft
  <2>. QED BY <1>2, <2>1, <2>2, <2>3 DEF Left
<1>11. ASSUME NEW p \in Callers, Reconnect(p) \/ \E o \in Calls : Call(p, o)
       PROVE  Has(runq', s)
  <2>1. p \in Procs /\ \E q \in {runq, Wakes(runq)} : \E o : Acquire(p, o, q)
    BY <1>11, ProcsFacts DEF Reconnect, Call
  <2>. QED BY <1>5, <1>10, <2>1
<1>12. CASE CancelConnection
  <2>1. \/ Acquire(Conn, "disconnect", RemoveFirst(runq, Conn))
        \/ Reacquire(Conn, "disconnect", RemoveFirst(runq, Conn))
        \/ runq' = RemoveFirst(runq, Conn)
    BY <1>12 DEF CancelConnection
  <2>. QED BY <1>1, <1>3, <1>5, <1>10, <2>1
<1>13. ASSUME NEW p \in Procs, Deliver(p) PROVE Has(runq', s)
  <2>1. runq' = RemoveFirst(runq, p) \/ Release(RemoveFirst(runq, p))
    BY <1>13 DEF Deliver, CancelResting, CancelWaiting, CancelWriting, CancelDisconnect,
       Withdraw
  <2>. QED BY <1>3, <1>5, <1>10, <2>1
<1>14. ASSUME NEW t \in 1..MaxSessions, LinkDrops(t) PROVE Has(runq', s)
  <2>1. t \in Nat /\ runq' = QueueAfterLoss(t, runq)
    BY <1>1, <1>14 DEF LinkDrops
  <2>. QED BY <1>10, <2>1
<1>15. ASSUME NEW p \in Procs, Completes(p) PROVE Has(runq', s)
  BY <1>3, <1>10, <1>15 DEF Completes
<1>16. CASE StopBegins
  BY <1>16 DEF StopBegins
<1>17. CASE StopGathered
  <2>1. Acquire(Stop, "disconnect", runq)
    BY <1>17 DEF StopGathered
  <2>. QED BY <1>5, <1>10, <2>1, ProcsFacts
<1>18. ASSUME \/ \E t \in 1..MaxSessions, k \in Packets : Notification(t, k)
              \/ \E g \in Groups : Stale(g) \/ DeadlinePasses(g)
              \/ UNCHANGED vars
       PROVE  Has(runq', s)
  BY <1>18 DEF Notification, Stale, DeadlinePasses, vars
<1>. QED BY <1>1, <1>7, <1>8, <1>9, <1>11, <1>12, <1>13, <1>14, <1>15, <1>16, <1>17, <1>18,
            Steps

(* A step after which the session is known to end, or none counts as connected. *)
LEMMA LossEnding ==
    ASSUME LossInv, Ending' \/ ~connected', cancelReq' \subseteq cancelReq,
           pc'[Stop] = "run" => pc[Stop] = "run",
           \A p \in Procs : pc'[p] = "disc" => ~connected'
    PROVE  LossInv'
  BY DEF LossInv

(* A step that leaves the session and its link alone. *)
LEMMA LossRest ==
    ASSUME BaseInv, LossInv, UNCHANGED <<client, activeGen, connected>>,
           client \in links => client \in links',
           Has(runq, client) => Has(runq', client), Ending => Ending',
           cancelReq' \subseteq cancelReq, pc'[Stop] = "run" => pc[Stop] = "run",
           \A p \in Procs : pc'[p] = "disc" => pc[p] = "disc"
    PROVE  LossInv'
  BY DEF LossInv

(* LossInv is inductive. *)
LEMMA LossStep ==
    ASSUME BaseInv, Numbered, StopInv, WakeInv, LossInv, [Next]_vars
    PROVE  LossInv'
<1>1. /\ TypeOK /\ pc \in [Procs -> PCs] /\ op \in [Procs -> Ops]
      /\ Conn \in Procs /\ Stop \in Procs /\ Refresh \in Procs
      /\ Conn # Stop /\ Conn # Refresh /\ Stop # Refresh
      /\ \A x \in Procs : pc[x] \in HoldingPCs => holder = x
      /\ op[Conn] = "connect" => pc[Conn] \in {"lock", "notify", "writing"}
      /\ op[Refresh] \in {"none", "status"} /\ client \in Nat
      /\ MaxSessions \in Nat
  BY Tasks, ClientAssumption DEF BaseInv, TypeOK, SessionType
<1>2. \A s \in Nat :
          Has(runq, s) => Has(runq', s) \/ \E t \in 1..MaxSessions : RequestDisconnect(t)
  BY RequestsQueued
<1>3. /\ pc[Stop] \in {"run", "gather", "lock", "disc", "stopped"}
      /\ cancelReq # {} => discEvent
      /\ pc[Stop] = "lock" => op[Stop] = "disconnect"
  BY DEF StopInv, LossInv
<1>4. /\ op[Conn] \in {"none", "connect", "disconnect"}
      /\ pc[Conn] \in {"notify", "writing"} => op[Conn] = "connect" /\ client = gen
  BY DEF Numbered
<1>5. \A s \in 1..MaxSessions : RequestDisconnect(s) => LossInv'
  <2>. SUFFICES ASSUME NEW s \in 1..MaxSessions, RequestDisconnect(s) PROVE LossInv'
    OBVIOUS
  <2>1. discEvent' /\ UNCHANGED <<pc, cancelReq, connected>>
    BY DEF RequestDisconnect, taskVars, sessionVars
  <2>. QED BY <2>1, LossEnding DEF Ending, LossInv
(* Task p, which is not the connection task, goes to l. *)
<1>6. ASSUME NEW p \in Procs \ {Conn}, NEW l, l \notin {"run", "disc"},
             pc' = [pc EXCEPT ![p] = l], op'[Conn] = op[Conn],
             ~ \E t \in 1..MaxSessions : RequestDisconnect(t),
             UNCHANGED <<client, activeGen, connected, links>>, discEvent => discEvent',
             cancelReq' \subseteq cancelReq
      PROVE  LossInv'
  <2>1. /\ pc'[Conn] = pc[Conn] /\ (pc'[Stop] = "run" => pc[Stop] = "run")
        /\ \A x \in Procs : pc'[x] = "disc" => pc[x] = "disc"
    BY <1>1, <1>6
  <2>2. Ending => Ending'
    BY <1>6, <2>1 DEF Ending
  <2>. QED BY <1>1, <1>2, <1>6, <2>1, <2>2, LossRest
<1>. DEFINE Asked == \E t \in 1..MaxSessions : RequestDisconnect(t)
<1>7. ASSUME NEW p \in Procs, Run(p), ~Asked
      PROVE  LossInv'
  <2>1. CASE DisconnectClient(p)
    <3>1. /\ pc[p] = "lock" /\ ~connected' /\ cancelReq' \subseteq cancelReq
          /\ \E m \in {"idle", pc[Refresh]}, l \in {"disc", Resting(p)} :
                 pc' = [pc EXCEPT ![Refresh] = m, ![p] = l]
      BY <2>1 DEF DisconnectClient, Inside
    <3>2. Resting(p) # "run"
      BY DEF Resting
    <3>3. pc'[Stop] = "run" => pc[Stop] = "run"
      BY <1>1, <3>1, <3>2
    <3>. QED BY <3>1, <3>3, LossEnding
  <2>2. CASE Disconnected(p)
    <3>1. /\ pc[p] = "disc" /\ pc' = [pc EXCEPT ![p] = Resting(p)]
          /\ UNCHANGED <<connected, cancelReq>>
      BY <2>2 DEF Disconnected, Resumes, eventVars, sessionVars
    <3>2. ~connected' /\ Resting(p) # "run"
      BY <3>1 DEF LossInv, Resting
    <3>. QED BY <1>1, <3>1, <3>2, LossEnding
  <2>3. CASE WriteFails(p)
    <3>1. /\ discEvent' /\ UNCHANGED <<cancelReq, connected>>
          /\ pc' = [pc EXCEPT ![p] = IF p = Conn THEN "abort" ELSE "idle"]
      BY <2>3 DEF WriteFails, sessionVars
    <3>2. \A x \in Procs : pc'[x] = "disc" => ~connected'
      BY <1>1, <3>1 DEF LossInv
    <3>3. pc'[Stop] = "run" => pc[Stop] = "run"
      BY <1>1, <3>1
    <3>. QED BY <3>1, <3>2, <3>3, LossEnding DEF Ending
  <2>4. CASE WriteSucceeds(p)
    <3>1. /\ p # Conn /\ pc' = [pc EXCEPT ![p] = "idle", ![Refresh] = "sleep"]
          /\ op' = [op EXCEPT ![Refresh] = "none", ![p] = "none"]
          /\ UNCHANGED <<discEvent, cancelReq, client, activeGen, connected, links>>
      BY <2>4 DEF WriteSucceeds, sessionVars, linkVars
    <3>2. /\ pc'[Conn] = pc[Conn] /\ op'[Conn] = op[Conn]
          /\ (pc'[Stop] = "run" => pc[Stop] = "run")
          /\ \A x \in Procs : pc'[x] = "disc" => pc[x] = "disc"
      BY <1>1, <3>1
    <3>3. Ending => Ending'
      BY <3>1, <3>2 DEF Ending
    <3>. QED BY <1>1, <1>2, <1>7, <3>1, <3>2, <3>3, LossRest
  <2>5. CASE SendStatusRequest(p) \/ Submit(p) \/ Decline(p) \/ WriteReturns(p)
    <3>1. /\ p # Conn /\ \E l \in {"idle", "writing"} : pc' = [pc EXCEPT ![p] = l]
          /\ op' = op \/ op' = [op EXCEPT ![p] = "none"]
          /\ UNCHANGED <<discEvent, cancelReq, client, activeGen, connected, links>>
      <4>1. CASE SendStatusRequest(p)
        BY <1>4, <4>1 DEF SendStatusRequest, Inside, EndOp, eventVars, sessionVars, linkVars
      <4>2. CASE Submit(p)
        BY <1>4, <4>2 DEF Submit, Inside, EndOp, eventVars, sessionVars, linkVars, Groups
      <4>3. CASE Decline(p)
        BY <1>4, <4>3 DEF Decline, Inside, EndOp, eventVars, sessionVars, linkVars, Groups
      <4>4. CASE WriteReturns(p)
        BY <4>4 DEF WriteReturns, EndOp, eventVars, sessionVars, linkVars
      <4>. QED BY <2>5, <4>1, <4>2, <4>3, <4>4
    <3>2. op'[Conn] = op[Conn]
      BY <1>1, <3>1
    <3>. QED BY <1>6, <1>7, <3>1, <3>2
  <2>. QED BY <1>7, <2>1, <2>2, <2>3, <2>4, <2>5 DEF Run
(* The connection task goes to l, and on to the end of the session or outside one. *)
<1>8. ASSUME NEW l, l \notin {"run", "disc"}, pc' = [pc EXCEPT ![Conn] = l],
             Ending' \/ ~connected', connected' = connected \/ holder = Conn,
             pc[Conn] \in HoldingPCs \/ connected' = connected,
             cancelReq' \subseteq cancelReq
      PROVE  LossInv'
  <2>1. /\ pc'[Stop] = "run" => pc[Stop] = "run"
        /\ \A x \in Procs : pc'[x] = "disc" => pc[x] = "disc" /\ x # Conn
    BY <1>1, <1>8
  <2>2. \A p \in Procs : pc'[p] = "disc" => ~connected'
    BY <1>1, <1>8, <2>1 DEF LossInv, HoldingPCs
  <2>. QED BY <1>8, <2>1, <2>2, LossEnding
<1>9. CASE ConnStep /\ ~Asked
  <2>1. CASE StartAttempt \/ Established \/ Install
    <3>1. /\ ~connected /\ UNCHANGED <<connected, cancelReq>>
          /\ \E l \in {"estab", "abort", "lock", "notify"} : pc' = [pc EXCEPT ![Conn] = l]
      <4>1. CASE StartAttempt
        BY <4>1 DEF StartAttempt, Resumes, BaseInv, SessionInv, SessionShape, Between
      <4>2. CASE Established
        BY <4>2 DEF Established, Acquire, Resumes, BaseInv, SessionInv, SessionShape, Between,
           eventVars, sessionVars
      <4>3. CASE Install
        BY <4>3 DEF Install, Inside, BaseInv, SessionInv, SessionShape, Between, eventVars
      <4>. QED BY <2>1, <4>1, <4>2, <4>3
    <3>. QED BY <1>8, <3>1
  <2>2. CASE EstablishFails \/ SessionEnds \/ Abort
    <3>1. /\ UNCHANGED <<connected, cancelReq>> /\ op' = [op EXCEPT ![Conn] = "disconnect"]
          /\ pc' = [pc EXCEPT ![Conn] = "lock"]
      BY <2>2 DEF EstablishFails, SessionEnds, Abort, Acquire, eventVars, sessionVars
    <3>2. Ending'
      BY <1>1, <3>1 DEF Ending
    <3>. QED BY <1>8, <3>1, <3>2
  <2>3. CASE SubscribeFails
    <3>1. /\ UNCHANGED <<connected, cancelReq>> /\ pc' = [pc EXCEPT ![Conn] = "abort"]
      BY <2>3 DEF SubscribeFails, eventVars, sessionVars
    <3>2. Ending'
      BY <1>1, <3>1 DEF Ending
    <3>. QED BY <1>8, <3>1, <3>2
  <2>4. CASE Subscribed
    <3>1. /\ pc[Conn] = "notify" /\ holder = Conn /\ connected' = TRUE
          /\ UNCHANGED <<cancelReq, client, activeGen, links>>
          /\ \/ /\ client \in links /\ activeGen # 0
                /\ pc' = [pc EXCEPT ![Conn] = "writing"]
             \/ pc' = [pc EXCEPT ![Conn] = "abort"]
      BY <1>1, <2>4 DEF Subscribed, Resumes, HoldingPCs, eventVars, linkVars
    <3>2. \A x \in Procs : pc'[x] # "disc"
      BY <1>1, <3>1 DEF HoldingPCs
    <3>3. pc'[Stop] = "run" => pc[Stop] = "run"
      BY <1>1, <3>1
    <3>4. CASE pc' = [pc EXCEPT ![Conn] = "abort"]
      BY <1>1, <3>1, <3>2, <3>3, <3>4, LossEnding DEF Ending
    <3>5. CASE /\ client \in links /\ activeGen # 0
               /\ pc' = [pc EXCEPT ![Conn] = "writing"]
      <4>1. activeGen = client
        BY <3>1, <3>5 DEF BaseInv, SessionInv, SessionShape
      <4>. QED BY <3>1, <3>2, <3>3, <3>5, <4>1 DEF LossInv
    <3>. QED BY <3>1, <3>4, <3>5
  <2>5. CASE FirstRequestSent
    <3>1. /\ pc[Conn] = "writing"
          /\ UNCHANGED <<discEvent, cancelReq, client, activeGen, connected, links>>
          /\ \E l \in {"lock", "abort", "session"} : pc' = [pc EXCEPT ![Conn] = l]
      <4>1. CASE Opened
        BY <2>5, <4>1 DEF FirstRequestSent, Resumes, Opened, eventVars, sessionVars, linkVars
      <4>2. CASE Reacquire(Conn, "disconnect", After(Conn))
        BY <2>5, <4>2 DEF FirstRequestSent, Resumes, Reacquire, eventVars, sessionVars,
           linkVars
      <4>. QED BY <2>5, <4>1, <4>2 DEF FirstRequestSent
    <3>2. /\ pc'[Stop] = "run" => pc[Stop] = "run"
          /\ \A x \in Procs : pc'[x] = "disc" => pc[x] = "disc"
      BY <1>1, <3>1
    <3>3. Ending => Ending'
      BY <1>4, <3>1 DEF Ending
    <3>. QED BY <1>1, <1>2, <1>9, <3>1, <3>2, <3>3, LossRest
  <2>. QED BY <1>9, <2>1, <2>2, <2>3, <2>4, <2>5 DEF ConnStep
<1>10. CASE RefreshFires /\ ~Asked
  <2>1. /\ pc' = [pc EXCEPT ![Refresh] = "lock"] /\ op' = [op EXCEPT ![Refresh] = "status"]
        /\ UNCHANGED <<discEvent, cancelReq, client, activeGen, connected, links>>
    BY <1>10 DEF RefreshFires, Acquire, eventVars, sessionVars, linkVars
  <2>. QED BY <1>1, <1>6, <1>10, <2>1
<1>11. ASSUME NEW p \in Callers, Reconnect(p) \/ \E o \in Calls : Call(p, o), ~Asked
       PROVE  LossInv'
  <2>1. p \in Procs \ {Conn}
    BY ProcsFacts
  <2>2. /\ pc' = [pc EXCEPT ![p] = "lock"] /\ \E o : op' = [op EXCEPT ![p] = o]
        /\ UNCHANGED <<cancelReq, client, activeGen, connected, links>>
        /\ discEvent => discEvent'
    BY <1>11 DEF Reconnect, Call, Acquire, eventVars, sessionVars, linkVars
  <2>3. op'[Conn] = op[Conn]
    BY <1>1, <2>1, <2>2
  <2>. QED BY <1>6, <1>11, <2>1, <2>2, <2>3
<1>12. CASE StopBegins
  <2>1. /\ discEvent' /\ pc' = [pc EXCEPT ![Stop] = "gather"] /\ UNCHANGED connected
    BY <1>12 DEF StopBegins, sessionVars
  <2>2. pc'[Stop] = "gather" /\ \A x \in Procs : pc'[x] = "disc" => pc[x] = "disc"
    BY <1>1, <2>1
  <2>. QED BY <2>1, <2>2 DEF LossInv, Ending
<1>13. CASE StopGathered /\ ~Asked
  <2>1. /\ pc' = [pc EXCEPT ![Stop] = "lock"] /\ op' = [op EXCEPT ![Stop] = "disconnect"]
        /\ UNCHANGED <<discEvent, cancelReq, client, activeGen, connected, links>>
    BY <1>13 DEF StopGathered, Acquire, sessionVars, linkVars
  <2>2. op'[Conn] = op[Conn]
    BY <1>1, <2>1
  <2>. QED BY <1>1, <1>6, <1>13, <2>1, <2>2
<1>14. ASSUME NEW p \in Procs, Deliver(p), ~Asked
       PROVE  LossInv'
  <2>1. /\ p \in cancelReq \/ p \in Callers
        /\ pc' = [pc EXCEPT ![p] = Cancelled(p)]
        /\ op' = op \/ op' = [op EXCEPT ![p] = "none"]
        /\ cancelReq' \subseteq cancelReq
        /\ UNCHANGED <<discEvent, client, activeGen, connected, links>>
    <3>1. CASE CancelResting(p)
      BY <3>1 DEF CancelResting, sessionVars, linkVars
    <3>2. CASE CancelWaiting(p)
      BY <3>2 DEF CancelWaiting, Cancellable, EndOp, sessionVars, linkVars
    <3>3. CASE CancelWriting(p) \/ CancelDisconnect(p)
      BY <3>3 DEF CancelWriting, CancelDisconnect, Cancellable, EndOp, sessionVars, linkVars
    <3>. QED BY <1>14, <3>1, <3>2, <3>3 DEF Deliver
  <2>2. Cancelled(p) \notin {"run", "disc"}
    BY DEF Cancelled
  <2>3. CASE p = Conn
    <3>1. discEvent'
      BY <1>3, <2>1, <2>3, ProcsFacts
    <3>. QED BY <1>8, <2>1, <2>2, <2>3, <3>1 DEF Ending
  <2>4. CASE p # Conn
    <3>1. op'[Conn] = op[Conn]
      BY <1>1, <2>1, <2>4
    <3>. QED BY <1>6, <1>14, <2>1, <2>2, <2>4, <3>1
  <2>. QED BY <2>3, <2>4
<1>15. CASE CancelConnection
  <2>1. /\ UNCHANGED <<connected>> /\ op' = [op EXCEPT ![Conn] = "disconnect"]
        /\ pc' = pc \/ pc' = [pc EXCEPT ![Conn] = "lock"]
        /\ cancelReq' \subseteq cancelReq
    BY <1>15 DEF CancelConnection, Acquire, Reacquire, sessionVars
  <2>2. /\ Ending' /\ (pc'[Stop] = "run" => pc[Stop] = "run")
        /\ \A x \in Procs : pc'[x] = "disc" => pc[x] = "disc"
    BY <1>1, <2>1 DEF Ending
  <2>. QED BY <2>1, <2>2, LossEnding DEF LossInv
<1>16. ASSUME NEW s \in 1..MaxSessions, LinkDrops(s), ~Asked
       PROVE  LossInv'
  <2>1. /\ s \in links /\ links' = links \ {s} /\ runq' = QueueAfterLoss(s, runq)
        /\ UNCHANGED <<pc, op, discEvent, cancelReq, client, activeGen, connected>>
    BY <1>16 DEF LinkDrops, taskVars, eventVars, sessionVars
  <2>2. Ending <=> Ending'
    BY <2>1 DEF Ending
  <2>3. CASE s # client
    BY <1>1, <1>2, <1>16, <2>1, <2>2, <2>3, LossRest
  <2>4. CASE s = client /\ s = activeGen
    <3>1. runq' = Append(runq, s) /\ runq \in Seq(Procs \cup Nat) /\ s \in Procs \cup Nat
      BY <1>1, <2>1, <2>4 DEF QueueAfterLoss, TypeOK, LockType
    <3>2. Has(runq', s)
      <4>1. Has(Append(runq, s), s)
        BY <3>1, HasAppend
      <4>. QED BY <3>1, <4>1
    <3>. QED BY <2>1, <2>2, <2>4, <3>2 DEF LossInv
  <2>5. CASE s = client /\ s # activeGen
    BY <2>1, <2>2, <2>5 DEF LossInv
  <2>. QED BY <2>3, <2>4, <2>5
<1>17. ASSUME \/ \E p \in Procs : Completes(p)
              \/ \E s \in 1..MaxSessions, k \in Packets : Notification(s, k)
              \/ \E g \in Groups : Stale(g) \/ DeadlinePasses(g)
              \/ UNCHANGED vars,
              ~Asked
       PROVE  LossInv'
  <2>1. UNCHANGED <<pc, op, discEvent, cancelReq, client, activeGen, connected, links>>
    BY <1>17 DEF Completes, Notification, Stale, DeadlinePasses, vars, taskVars, eventVars,
       sessionVars, linkVars
  <2>. QED BY <1>1, <1>2, <1>17, <2>1, LossRest DEF Ending
<1>. HIDE DEF Asked
<1>18. Asked => LossInv'
  BY <1>5 DEF Asked
<1>. QED BY <1>1, <1>7, <1>9, <1>10, <1>11, <1>12, <1>13, <1>14, <1>15, <1>16, <1>17, <1>18,
            Steps DEF Asked

(* At the start no session counts as connected. *)
LEMMA LossInit == Init => LossInv
  BY ProcsFacts DEF Init, LossInv

(* The model's Queued, in the words of these proofs. *)
LEMMA QueuedHas == \A x : Queued(x) <=> Has(runq, x)
  BY DEF Queued, Has

(* No wake-up is lost, whoever is cancelled or overtaken: a task that wants the operation
   lock waits in its queue, or owns it and is about to run; a connection task whose
   disconnect event is set has been woken or cancelled; a session that counts as
   connected on a link that dropped has been asked to end, or its request is queued; and
   nobody is woken twice, or to a wait that is over (client.py, the uses of
   _operation_lock and of the disconnect event, and the disconnected callback of
   _connect_once). *)
THEOREM EverybodyIsWoken == Spec => []NoLostWakeup
<1>. DEFINE Inv == BaseInv /\ Numbered /\ TxnInv /\ StopInv /\ WakeInv /\ LossInv
<1>1. Init => Inv
  BY BaseInit, NumberedInit, TxnInit, StopInit, WakeInit, LossInit
<1>2. Inv /\ [Next]_vars => Inv'
  BY BaseStep, NumberedStep, TxnStep, StopStep, WakeStep, LossStep
<1>3. Inv => NoLostWakeup
  <2>. SUFFICES ASSUME Inv PROVE NoLostWakeup
    OBVIOUS
  <2>1. \A x : Contains(waiters, x) <=> Has(waiters, x)
    BY HasContains DEF BaseInv, TypeOK, LockType
  <2>. QED BY <2>1, QueuedHas, ProcsFacts DEF WakeInv, LossInv, Ending, NoLostWakeup, Once
<1>. HIDE DEF Inv
<1>. QED BY <1>1, <1>2, <1>3, PTL DEF Spec

(* Whoever holds the operation lock waits for nothing but an input or output of its own:
   it runs, is about to run, or awaits start_notify, a write or a disconnect. *)
THEOREM HolderGoesOn ==
    Spec => [](holder # NoProc => \/ running = holder \/ Queued(holder)
                                  \/ pc[holder] \in HoldingPCs)
<1>1. TypeOK /\ LockDiscipline /\ NoLostWakeup =>
          (holder # NoProc => \/ running = holder \/ Queued(holder)
                              \/ pc[holder] \in HoldingPCs)
  BY DEF TypeOK, LockType, LockDiscipline, NoLostWakeup
<1>. QED BY <1>1, TypeCorrect, LockExclusive, EverybodyIsWoken, PTL
=============================================================================
