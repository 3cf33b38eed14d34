------------------------ MODULE AllpowersClientProofs ------------------------
(***************************************************************************)
(* Theorems about AllpowersClient, for every number of callers, sessions   *)
(* and packets.                                                            *)
(***************************************************************************)
EXTENDS AllpowersClient, SequenceTheorems, WellFoundedInduction, TLAPS

-----------------------------------------------------------------------------
(* The queues of the lock and of the event loop: what taking an element out, appending
   one and taking the first one away do to the members of a sequence that holds nothing
   twice. *)

(* No element occurs twice in s. *)
Distinct(s) == \A i, j \in DOMAIN s : i # j => s[i] # s[j]

(* A non-empty set of natural numbers contains its minimum. *)
LEMMA MinIn == ASSUME NEW I \in SUBSET Nat, I # {} PROVE Min(I) \in I
<1>1. OpToRel(<, Nat) = {ss \in Nat \X Nat : ss[1] < ss[2]}
  BY Zenon DEF OpToRel
<1>2. PICK m \in I : \A n \in I : <<n, m>> \notin {ss \in Nat \X Nat : ss[1] < ss[2]}
  BY <1>1, NatLessThanWellFounded, WFMin, ZenonT(30)
<1>3. ASSUME NEW n \in I PROVE m <= n
  <2>1. <<n, m>> \in Nat \X Nat
    OBVIOUS
  <2>2. ~ (<<n, m>>[1] < <<n, m>>[2])
    BY <1>2, <2>1, Zenon
  <2>. QED BY <2>2
<1>. QED BY <1>3 DEF Min

(* RemoveAt(s, i) is s without its i-th element. *)
LEMMA RemoveAtElements ==
    ASSUME NEW S, NEW s \in Seq(S), NEW i \in 1..Len(s)
    PROVE  /\ RemoveAt(s, i) \in Seq(S)
           /\ Len(RemoveAt(s, i)) = Len(s) - 1
           /\ \A j \in 1..(Len(s) - 1) :
                  RemoveAt(s, i)[j] = IF j < i THEN s[j] ELSE s[j + 1]
<1>. DEFINE a == SubSeq(s, 1, i - 1)
            b == SubSeq(s, i + 1, Len(s))
<1>1. a \in Seq(S) /\ Len(a) = i - 1 /\ \A j \in 1..(i - 1) : a[j] = s[j]
  BY SubSeqProperties
<1>2. b \in Seq(S) /\ Len(b) = Len(s) - i /\ \A j \in 1..(Len(s) - i) : b[j] = s[i + j]
  OBVIOUS
<1>3. /\ a \o b \in Seq(S) /\ Len(a \o b) = Len(a) + Len(b)
      /\ \A j \in 1 .. Len(a) + Len(b) :
             (a \o b)[j] = IF j <= Len(a) THEN a[j] ELSE b[j - Len(a)]
  BY <1>1, <1>2, ConcatProperties, Zenon
<1>. HIDE DEF a, b
<1>4. Len(a) + Len(b) = Len(s) - 1
  BY <1>1, <1>2
<1>5. ASSUME NEW j \in 1..(Len(s) - 1), j < i PROVE (a \o b)[j] = s[j]
  BY <1>1, <1>3, <1>4, <1>5
<1>6. ASSUME NEW j \in 1..(Len(s) - 1), ~ (j < i) PROVE (a \o b)[j] = s[j + 1]
  <2>1. (a \o b)[j] = b[j - (i - 1)]
    BY <1>1, <1>3, <1>4, <1>6
  <2>2. j - (i - 1) \in 1..(Len(s) - i) /\ i + (j - (i - 1)) = j + 1
    BY <1>6
  <2>. QED BY <1>2, <2>1, <2>2
<1>7. RemoveAt(s, i) = a \o b
  BY DEF RemoveAt, a, b
<1>. QED BY <1>3, <1>4, <1>5, <1>6, <1>7

(* RemoveFirst takes out one occurrence, if there is one. *)
LEMMA RemoveFirstIndex ==
    ASSUME NEW S, NEW s \in Seq(S), NEW e, NEW k \in 1..Len(s), s[k] = e
    PROVE  \E i \in 1..Len(s) : s[i] = e /\ RemoveFirst(s, e) = RemoveAt(s, i)
<1>. DEFINE I == {i \in 1..Len(s) : s[i] = e}
<1>1. I # {} /\ I \subseteq Nat
  OBVIOUS
<1>2. Min(I) \in I
  BY <1>1, MinIn
<1>3. RemoveFirst(s, e) = RemoveAt(s, Min(I))
  BY <1>1 DEF RemoveFirst, SelectInSeq
<1>. QED BY <1>2, <1>3

(* RemoveFirst(s, e) is a sequence over the same set. *)
LEMMA RemoveFirstType ==
    ASSUME NEW S, NEW s \in Seq(S), NEW e
    PROVE  RemoveFirst(s, e) \in Seq(S)
<1>1. CASE \E k \in 1..Len(s) : s[k] = e
  BY <1>1, RemoveFirstIndex, RemoveAtElements
<1>2. CASE ~ \E k \in 1..Len(s) : s[k] = e
  BY <1>2 DEF RemoveFirst
<1>. QED BY <1>1, <1>2

(* Out of a sequence without duplicates, RemoveFirst takes e and nothing else. *)
LEMMA RemoveFirstDistinct ==
    ASSUME NEW S, NEW s \in Seq(S), NEW e, Distinct(s)
    PROVE  /\ Distinct(RemoveFirst(s, e))
           /\ \A i \in DOMAIN RemoveFirst(s, e) :
                  /\ RemoveFirst(s, e)[i] # e
                  /\ \E j \in DOMAIN s : RemoveFirst(s, e)[i] = s[j]
<1>1. CASE \E k \in 1..Len(s) : s[k] = e
  <2>1. PICK k \in 1..Len(s) : s[k] = e /\ RemoveFirst(s, e) = RemoveAt(s, k)
    BY <1>1, RemoveFirstIndex
  <2>. DEFINE r == RemoveAt(s, k)
  <2>2. /\ r \in Seq(S) /\ Len(r) = Len(s) - 1
        /\ \A j \in 1..(Len(s) - 1) : r[j] = IF j < k THEN s[j] ELSE s[j + 1]
    BY RemoveAtElements
  <2>. HIDE DEF r
  <2>3. DOMAIN r = 1..(Len(s) - 1) /\ DOMAIN s = 1..Len(s)
    BY <2>2
  <2>4. ASSUME NEW i \in DOMAIN r
        PROVE  \E j \in DOMAIN s : r[i] = s[j] /\ j # k /\ j = IF i < k THEN i ELSE i + 1
    BY <2>2, <2>3, <2>4
  <2>5. \A i \in DOMAIN r : r[i] # e
    BY <2>1, <2>3, <2>4 DEF Distinct
  <2>6. ASSUME NEW i \in DOMAIN r, NEW j \in DOMAIN r, i # j PROVE r[i] # r[j]
    <3>1. PICK m \in DOMAIN s : r[i] = s[m] /\ m = IF i < k THEN i ELSE i + 1
      BY <2>4
    <3>2. PICK n \in DOMAIN s : r[j] = s[n] /\ n = IF j < k THEN j ELSE j + 1
      BY <2>4
    <3>3. m # n
      BY <2>3, <2>6, <3>1, <3>2
    <3>. QED BY <3>1, <3>2, <3>3 DEF Distinct
  <2>7. Distinct(r)
    BY <2>6 DEF Distinct
  <2>. QED BY <2>1, <2>4, <2>5, <2>7 DEF r
<1>2. CASE ~ \E k \in 1..Len(s) : s[k] = e
  BY <1>2 DEF RemoveFirst
<1>. QED BY <1>1, <1>2

(* Appending an element that is not there keeps a sequence free of duplicates. *)
LEMMA AppendDistinct ==
    ASSUME NEW S, NEW s \in Seq(S), NEW e \in S, Distinct(s), \A i \in DOMAIN s : s[i] # e
    PROVE  /\ Distinct(Append(s, e))
           /\ \A i \in DOMAIN Append(s, e) :
                  Append(s, e)[i] = e \/ \E j \in DOMAIN s : Append(s, e)[i] = s[j]
  BY DEF Distinct

(* So does taking the first element away, and that element is gone. *)
LEMMA TailDistinct ==
    ASSUME NEW S, NEW s \in Seq(S), s # <<>>, Distinct(s)
    PROVE  /\ Distinct(Tail(s)) /\ Head(s) = s[1] /\ 1 \in DOMAIN s
           /\ \A i \in DOMAIN Tail(s) :
                  /\ Tail(s)[i] # Head(s)
                  /\ \E j \in DOMAIN s : Tail(s)[i] = s[j]
  BY DEF Distinct

-----------------------------------------------------------------------------
(* What the lock and queue helpers do to the types. *)

LEMMA ProcsFacts ==
    /\ Conn \in Procs /\ Stop \in Procs /\ Refresh \in Procs /\ Callers \subseteq Procs
    /\ Conn # Stop /\ Conn # Refresh /\ Stop # Refresh
    /\ \A p \in Callers : p # Conn /\ p # Stop /\ p # Refresh
    /\ NoProc \notin Procs
  BY ClientAssumption DEF Procs

LEMMA HandOverType ==
    ASSUME NEW ws \in Seq(Procs), NEW q \in Seq(Procs \cup Nat),
           NEW r \in Procs \cup {NoProc}, HandOver(ws, q, r)
    PROVE  LockType'
<1>1. CASE ws = <<>>
  BY <1>1 DEF HandOver, LockType
<1>2. CASE ws # <<>>
  <2>1. Head(ws) \in Procs /\ Tail(ws) \in Seq(Procs)
    BY <1>2
  <2>2. Append(q, Head(ws)) \in Seq(Procs \cup Nat)
    BY <2>1
  <2>3. /\ running' = r /\ holder' = Head(ws)
        /\ waiters' = Tail(ws) /\ runq' = Append(q, Head(ws))
    BY <1>2 DEF HandOver
  <2>. QED BY <2>1, <2>2, <2>3, Zenon DEF LockType
<1>. QED BY <1>1, <1>2

LEMMA ReleaseType ==
    ASSUME LockType, NEW q \in Seq(Procs \cup Nat), Release(q)
    PROVE  LockType'
  BY HandOverType DEF Release, LockType

LEMMA KeepLockType ==
    ASSUME LockType, NEW q \in Seq(Procs \cup Nat), KeepLock(q)
    PROVE  LockType'
  BY DEF KeepLock, LockType

LEMMA RunOnType ==
    ASSUME LockType, NEW p \in Procs, NEW q \in Seq(Procs \cup Nat), RunOn(p, q)
    PROVE  LockType'
  BY DEF RunOn, LockType

LEMMA AcquireType ==
    ASSUME TaskType, LockType, NEW p \in Procs, NEW o \in Ops,
           NEW q \in Seq(Procs \cup Nat), Acquire(p, o, q)
    PROVE  TaskType' /\ LockType'
<1>1. TaskType'
  BY DEF Acquire, TaskType, PCs
<1>2. Append(waiters, p) \in Seq(Procs)
  BY DEF LockType
<1>3. LockType'
  BY <1>2 DEF Acquire, LockType
<1>. QED BY <1>1, <1>3

LEMMA ReacquireType ==
    ASSUME TaskType, LockType, NEW p \in Procs, NEW o \in Ops,
           NEW q \in Seq(Procs \cup Nat), Reacquire(p, o, q)
    PROVE  TaskType' /\ LockType'
<1>1. TaskType'
  BY DEF Reacquire, TaskType, PCs
<1>2. CASE waiters = <<>>
  BY <1>1, <1>2 DEF Reacquire, LockType
<1>3. CASE waiters # <<>>
  <2>1. Append(waiters, p) \in Seq(Procs)
    BY DEF LockType
  <2>2. HandOver(Append(waiters, p), q, NoProc)
    BY <1>3 DEF Reacquire
  <2>3. NoProc \in Procs \cup {NoProc}
    OBVIOUS
  <2>. QED BY <1>1, <2>1, <2>2, <2>3, HandOverType, Zenon
<1>. QED BY <1>1, <1>2, <1>3

LEMMA WithdrawType ==
    ASSUME LockType, NEW p \in Procs, Withdraw(p)
    PROVE  LockType'
<1>1. RemoveFirst(runq, p) \in Seq(Procs \cup Nat) /\ RemoveFirst(waiters, p) \in Seq(Procs)
  BY RemoveFirstType DEF LockType
<1>2. CASE holder = p
  BY <1>1, <1>2, ReleaseType DEF Withdraw
<1>3. CASE holder # p
  BY <1>1, <1>3 DEF Withdraw, LockType
<1>. QED BY <1>2, <1>3

(* The queues a step hands on are queues. *)
LEMMA QueueTypes ==
    ASSUME LockType, NEW p \in Procs, Turn(p)
    PROVE  /\ After(p) \in Seq(Procs \cup Nat)
           /\ Wakes(After(p)) \in Seq(Procs \cup Nat)
           /\ \A s \in Nat : QueueAfterLoss(s, After(p)) \in Seq(Procs \cup Nat)
<1>1. After(p) \in Seq(Procs \cup Nat)
  BY DEF After, Turn, IsNext, LockType
<1>. QED BY <1>1, ProcsFacts DEF Wakes, QueueAfterLoss

-----------------------------------------------------------------------------
(* Every action keeps the types. *)

LEMMA CallTypes ==
    ASSUME TypeOK, NEW p \in Callers, NEW o \in Calls, Call(p, o) \/ Reconnect(p)
    PROVE  TypeOK'
<1>1. CASE Call(p, o)
  <2>1. o \in Ops /\ runq \in Seq(Procs \cup Nat)
    BY <1>1 DEF Call, Calls, Ops, TypeOK, LockType
  <2>2. TaskType' /\ LockType'
    BY <1>1, <2>1, AcquireType, ProcsFacts DEF Call, TypeOK
  <2>. QED BY <1>1, <2>2 DEF Call, TypeOK, SessionType, DataType, GateType,
              eventVars, sessionVars, linkVars, dataVars, gateVars
<1>2. CASE Reconnect(p)
  <2>1. Wakes(runq) \in Seq(Procs \cup Nat) /\ "disconnect" \in Ops
    BY ProcsFacts DEF Wakes, TypeOK, LockType, Ops
  <2>2. TaskType' /\ LockType'
    BY <1>2, <2>1, AcquireType, ProcsFacts DEF Reconnect, TypeOK
  <2>. QED BY <1>2, <2>2 DEF Reconnect, TypeOK, SessionType, DataType, GateType,
              sessionVars, linkVars, dataVars, gateVars
<1>. QED BY <1>1, <1>2

(* Losing a transaction, or settling it after the write. *)
LEMMA LoseType ==
    ASSUME TypeOK, NEW g \in Groups, Lose(g)
    PROVE  GateType'
  BY DEF Lose, TypeOK, DataType, GateType, Transactions

LEMMA LoseOwnType ==
    ASSUME TypeOK, NEW o \in Ops, LoseOwn(o)
    PROVE  GateType'
<1>1. GroupOf(o) \in Groups
  BY DEF GroupOf, Groups
<1>. QED BY <1>1, LoseType DEF LoseOwn, TypeOK, GateType, gateVars

LEMMA SubmittedType ==
    ASSUME TypeOK, NEW g \in Groups, Submitted(g)
    PROVE  GateType'
  BY DEF Submitted, TypeOK, GateType, Transactions, Phases

LEMMA ConvergeType ==
    ASSUME TypeOK, NEW g \in Groups, NEW x, NEW ok \in BOOLEAN, NEW v \in Nat,
           Converge(g, x, ok, v)
    PROVE  GateType'
  BY DEF Converge, TypeOK, GateType, Transactions, Phases

LEMMA SubmitType ==
    ASSUME TypeOK, NEW p \in Procs, Submit(p)
    PROVE  TypeOK'
<1>1. PICK o \in Groups \cup {"keepalive"}, x \in Readings :
          LET g == GroupOf(o) IN
          /\ Inside(p, o) /\ Authorized(g)
          /\ \/ /\ txn' = [txn EXCEPT ![g] = Transaction(g, x)]
                /\ writeSession' = activeGen
                /\ pc' = [pc EXCEPT ![p] = "writing"]
                /\ KeepLock(After(p)) /\ UNCHANGED <<op, blocked>>
             \/ /\ blocked' = [blocked EXCEPT ![g] = version[g] + 1]
                /\ pc' = [pc EXCEPT ![p] = "idle"]
                /\ EndOp(p) /\ Release(After(p))
                /\ UNCHANGED <<txn, writeSession>>
          /\ UNCHANGED <<eventVars, sessionVars, linkVars, dataVars>>
  BY DEF Submit
<1>2. GroupOf(o) \in Groups
  BY DEF GroupOf, Groups
<1>3. LockType'
  BY <1>1, QueueTypes, KeepLockType, ReleaseType DEF Inside, TypeOK
<1>4. TaskType'
  BY <1>1 DEF TypeOK, TaskType, EndOp, PCs, Ops
<1>5. Transaction(GroupOf(o), x) \in Transactions
  BY <1>1, <1>2 DEF Transaction, Transactions, Phases, Authorized, TypeOK, SessionType, DataType
<1>6. GateType'
  BY <1>1, <1>2, <1>5 DEF TypeOK, GateType, DataType
<1>7. SessionType' /\ DataType'
  BY <1>1 DEF TypeOK, SessionType, DataType, eventVars, sessionVars, linkVars, dataVars
<1>. QED BY <1>3, <1>4, <1>6, <1>7 DEF TypeOK

LEMMA DeclineType ==
    ASSUME TypeOK, NEW p \in Procs, Decline(p)
    PROVE  TypeOK'
<1>1. PICK o \in Groups \cup {"keepalive"} :
          LET g == GroupOf(o)
              late == Capable /\ Usable /\ txn[g] # NoTxn /\ txn[g].expired IN
          /\ Inside(p, o)
          /\ txn' = IF late THEN [txn EXCEPT ![g] = NoTxn] ELSE txn
          /\ blocked' = IF late THEN [blocked EXCEPT ![g] = version[g] + 1] ELSE blocked
          /\ pc' = [pc EXCEPT ![p] = "idle"]
          /\ EndOp(p) /\ Release(After(p))
          /\ UNCHANGED <<eventVars, sessionVars, linkVars, writeSession, dataVars>>
  BY DEF Decline
<1>2. GroupOf(o) \in Groups
  BY DEF GroupOf, Groups
<1>3. LockType'
  BY <1>1, QueueTypes, ReleaseType DEF Inside, TypeOK
<1>4. TaskType'
  BY <1>1 DEF TypeOK, TaskType, EndOp, PCs, Ops
<1>5. GateType'
  BY <1>1, <1>2 DEF TypeOK, GateType, DataType, Transactions
<1>6. SessionType' /\ DataType'
  BY <1>1 DEF TypeOK, SessionType, DataType, eventVars, sessionVars, linkVars, dataVars
<1>. QED BY <1>3, <1>4, <1>5, <1>6 DEF TypeOK

LEMMA WriteSucceedsType ==
    ASSUME TypeOK, NEW p \in Procs, WriteSucceeds(p)
    PROVE  TypeOK'
<1>1. After(p) \in Seq(Procs \cup Nat)
  BY QueueTypes DEF WriteSucceeds, Resumes, Reschedule, TypeOK
<1>2. RemoveFirst(After(p), Refresh) \in Seq(Procs \cup Nat)
      /\ RemoveFirst(waiters, Refresh) \in Seq(Procs)
  BY <1>1, RemoveFirstType DEF TypeOK, LockType
<1>3. LockType'
  BY <1>2, HandOverType DEF WriteSucceeds, Reschedule
<1>4. TaskType'
  BY DEF WriteSucceeds, TypeOK, TaskType, PCs, Ops
<1>5. GroupOf(op[p]) \in Groups
  BY DEF GroupOf, Groups
<1>6. GateType'
  BY <1>5, SubmittedType DEF WriteSucceeds
<1>7. SessionType' /\ DataType'
  BY DEF WriteSucceeds, TypeOK, SessionType, DataType, sessionVars, linkVars, dataVars
<1>. QED BY <1>3, <1>4, <1>6, <1>7 DEF TypeOK

LEMMA WriteEndsType ==
    ASSUME TypeOK, NEW p \in Procs, WriteReturns(p) \/ WriteFails(p)
    PROVE  TypeOK'
<1>1. After(p) \in Seq(Procs \cup Nat) /\ Wakes(After(p)) \in Seq(Procs \cup Nat)
  BY QueueTypes DEF WriteReturns, WriteFails, Resumes, TypeOK
<1>2. LockType'
  BY <1>1, ReleaseType DEF WriteReturns, WriteFails, TypeOK
<1>3. TaskType'
  BY DEF WriteReturns, WriteFails, EndOp, TypeOK, TaskType, PCs, Ops
<1>4. op[p] \in Ops
  BY DEF TypeOK, TaskType
<1>5. GateType'
  BY <1>4, LoseOwnType DEF WriteReturns, WriteFails
<1>6. /\ UNCHANGED <<stopEvent, cancelReq, orphaned, sessionVars, linkVars, dataVars>>
      /\ discEvent' \in {TRUE, discEvent} /\ writeSession' = 0
  BY DEF WriteReturns, WriteFails, eventVars
<1>7. SessionType' /\ DataType'
  BY <1>6 DEF TypeOK, SessionType, DataType, sessionVars, linkVars, dataVars
<1>. QED BY <1>2, <1>3, <1>5, <1>7 DEF TypeOK

LEMMA SendStatusRequestType ==
    ASSUME TypeOK, NEW p \in Procs, SendStatusRequest(p)
    PROVE  TypeOK'
<1>1. LockType'
  BY QueueTypes, KeepLockType, ReleaseType DEF SendStatusRequest, Inside, TypeOK
<1>2. TaskType'
  BY DEF SendStatusRequest, EndOp, TypeOK, TaskType, PCs, Ops
<1>3. SessionType' /\ DataType' /\ GateType'
  BY DEF SendStatusRequest, TypeOK, SessionType, DataType, GateType, eventVars,
         sessionVars, linkVars, dataVars, gateVars
<1>. QED BY <1>1, <1>2, <1>3 DEF TypeOK

LEMMA RestingTypes ==
    ASSUME NEW p \in Procs
    PROVE  /\ Resting(p) \in PCs /\ Cancelled(p) \in PCs
           /\ RunsOn(p) \subseteq Procs \cup {NoProc}
  BY ProcsFacts DEF Resting, Cancelled, RunsOn, PCs

LEMMA DisconnectClientType ==
    ASSUME TypeOK, NEW p \in Procs, DisconnectClient(p)
    PROVE  TypeOK'
<1>. DEFINE cancels == pc[Refresh] # "idle" /\ ~orphaned
            ws == IF cancels THEN RemoveFirst(waiters, Refresh) ELSE waiters
            q  == IF cancels THEN RemoveFirst(After(p), Refresh) ELSE After(p)
            next(l) == [pc EXCEPT ![Refresh] = IF cancels THEN "idle" ELSE @, ![p] = l]
<1>1. After(p) \in Seq(Procs \cup Nat)
  BY QueueTypes DEF DisconnectClient, Inside, TypeOK
<1>2. ws \in Seq(Procs) /\ q \in Seq(Procs \cup Nat)
  BY <1>1, RemoveFirstType DEF TypeOK, LockType
<1>3. \A l \in PCs : next(l) \in [Procs -> PCs]
  BY DEF TypeOK, TaskType, PCs
<1>4. /\ op' = [op EXCEPT ![Refresh] = IF cancels THEN "none" ELSE @, ![p] = "none"]
      /\ \/ /\ closing' = client
            /\ pc' = next("disc")
            /\ waiters' = ws /\ runq' = q /\ running' = NoProc
            /\ UNCHANGED holder
         \/ /\ pc' = next(Resting(p))
            /\ \E r \in RunsOn(p) : HandOver(ws, q, r)
            /\ UNCHANGED closing
  BY Zenon DEF DisconnectClient
<1>. HIDE DEF ws, q, next
<1>5. LockType'
  <2>1. CASE /\ waiters' = ws /\ runq' = q /\ running' = NoProc /\ UNCHANGED holder
    BY <1>2, <2>1 DEF TypeOK, LockType
  <2>2. CASE \E r \in RunsOn(p) : HandOver(ws, q, r)
    BY <1>2, <2>2, RestingTypes, HandOverType
  <2>. QED BY <1>4, <2>1, <2>2
<1>6. TaskType'
  <2>1. pc' \in [Procs -> PCs]
    BY <1>3, <1>4, RestingTypes DEF PCs
  <2>2. op' \in [Procs -> Ops]
    BY <1>4 DEF TypeOK, TaskType, Ops
  <2>. QED BY <2>1, <2>2 DEF TaskType
<1>7. closing' \in Nat
  BY <1>4 DEF TypeOK, SessionType
<1>8. SessionType' /\ DataType' /\ GateType'
  BY <1>7 DEF DisconnectClient, TypeOK, SessionType, DataType, GateType, Transactions,
              dataVars
<1>. QED BY <1>5, <1>6, <1>8 DEF TypeOK

LEMMA DisconnectedType ==
    ASSUME TypeOK, NEW p \in Procs, Disconnected(p)
    PROVE  TypeOK'
<1>1. After(p) \in Seq(Procs \cup Nat)
  BY QueueTypes DEF Disconnected, Resumes, TypeOK
<1>2. LockType'
  BY <1>1, RestingTypes, HandOverType DEF Disconnected, TypeOK, LockType
<1>3. TaskType'
  BY RestingTypes DEF Disconnected, TypeOK, TaskType
<1>4. SessionType' /\ DataType' /\ GateType'
  BY DEF Disconnected, TypeOK, SessionType, DataType, GateType, eventVars,
         sessionVars, dataVars, gateVars
<1>. QED BY <1>2, <1>3, <1>4 DEF TypeOK

LEMMA RunType ==
    ASSUME TypeOK, NEW p \in Procs, Run(p)
    PROVE  TypeOK'
  BY SendStatusRequestType, SubmitType, DeclineType, DisconnectClientType,
     WriteSucceedsType, WriteEndsType, DisconnectedType DEF Run

(* The steps of the connection task. *)
LEMMA ConnStepType ==
    ASSUME TypeOK, ConnStep
    PROVE  TypeOK'
<1>. DEFINE q == After(Conn)
<1>1. /\ q \in Seq(Procs \cup Nat) /\ QueueAfterLoss(gen, q) \in Seq(Procs \cup Nat)
      /\ Conn \in Procs /\ {"connect", "disconnect"} \subseteq Ops
  BY ProcsFacts, QueueTypes DEF ConnStep, StartAttempt, EstablishFails, Established, Install,
     SubscribeFails, Subscribed, FirstRequestSent, Opened, Abort, SessionEnds, Resumes, Inside,
     TypeOK, SessionType, Ops
<1>. HIDE DEF q
<1>2. CASE StartAttempt
  <2>1. LockType'
    BY <1>1, <1>2, KeepLockType, RunOnType, ProcsFacts DEF StartAttempt, TypeOK, q
  <2>2. TaskType'
    BY <1>2 DEF StartAttempt, TypeOK, TaskType, PCs
  <2>3. SessionType'
    <3>1. /\ discEvent' \in BOOLEAN /\ ready' \in BOOLEAN /\ revision' = "none"
          /\ gen' = gen + 1 /\ activeGen' = gen + 1
          /\ UNCHANGED <<stopEvent, cancelReq, orphaned, client, connected, links, closing,
                         failedLinks, cutLinks, writeSession>>
      BY <1>2 DEF StartAttempt, linkVars
    <3>. QED BY <3>1 DEF TypeOK, SessionType
  <2>4. DataType' /\ GateType'
    BY <1>2 DEF StartAttempt, TypeOK, DataType, GateType, dataVars, gateVars
  <2>. QED BY <2>1, <2>2, <2>3, <2>4 DEF TypeOK
<1>3. CASE EstablishFails
  <2>1. TaskType' /\ LockType'
    BY <1>1, <1>3, AcquireType DEF EstablishFails, TypeOK, q
  <2>. QED BY <1>3, <2>1 DEF EstablishFails, TypeOK, SessionType, DataType, GateType,
              eventVars, sessionVars, linkVars, dataVars, gateVars
<1>4. CASE Established
  <2>1. Acquire(Conn, "connect", q) => TaskType' /\ LockType'
    BY <1>1, AcquireType DEF TypeOK
  <2>2. /\ pc' = [pc EXCEPT ![Conn] = "abort"] /\ UNCHANGED op
        /\ KeepLock(q)
        => TaskType' /\ LockType'
    BY <1>1, KeepLockType DEF TypeOK, TaskType, PCs
  <2>3. TaskType' /\ LockType'
    BY <1>4, <2>1, <2>2 DEF Established, q, TypeOK
  <2>. QED BY <1>4, <2>3 DEF Established, TypeOK, SessionType, DataType, GateType,
              eventVars, sessionVars, dataVars, gateVars
<1>5. CASE Install
  <2>1. LockType'
    BY <1>1, <1>5, KeepLockType DEF Install, TypeOK, q
  <2>2. TaskType'
    BY <1>5 DEF Install, TypeOK, TaskType, PCs
  <2>. QED BY <1>5, <2>1, <2>2 DEF Install, ForgetReadings, TypeOK, SessionType, DataType,
              GateType, Transactions, eventVars, linkVars
<1>6. CASE SubscribeFails
  <2>1. LockType'
    BY <1>1, <1>6, ReleaseType DEF SubscribeFails, TypeOK, q
  <2>2. TaskType'
    BY <1>6 DEF SubscribeFails, EndOp, TypeOK, TaskType, PCs, Ops
  <2>. QED BY <1>6, <2>1, <2>2 DEF SubscribeFails, TypeOK, SessionType, DataType, GateType,
              eventVars, sessionVars, linkVars, dataVars, gateVars
<1>7. CASE Subscribed
  <2>1. LockType'
    BY <1>1, <1>7, KeepLockType, ReleaseType DEF Subscribed, TypeOK, q
  <2>2. TaskType'
    BY <1>7 DEF Subscribed, EndOp, TypeOK, TaskType, PCs, Ops
  <2>. QED BY <1>7, <2>1, <2>2 DEF Subscribed, TypeOK, SessionType, DataType, GateType,
              eventVars, linkVars, dataVars, gateVars
<1>8. CASE FirstRequestSent
  <2>1. Reacquire(Conn, "disconnect", q) => TaskType' /\ LockType'
    BY <1>1, ReacquireType DEF TypeOK
  <2>2. /\ pc' = [pc EXCEPT ![Conn] = IF SessionChanged THEN "abort" ELSE "session"]
        /\ EndOp(Conn) /\ Release(q)
        => TaskType' /\ LockType'
    BY <1>1, ReleaseType DEF TypeOK, TaskType, EndOp, PCs, Ops
  <2>3. TaskType' /\ LockType'
    BY <1>8, <2>1, <2>2 DEF FirstRequestSent, Opened, q
  <2>. QED BY <1>8, <2>3 DEF FirstRequestSent, Opened, TypeOK, SessionType, DataType, GateType,
              eventVars, sessionVars, linkVars, dataVars, gateVars
<1>9. CASE Abort
  <2>1. TaskType' /\ LockType'
    BY <1>1, <1>9, AcquireType DEF Abort, TypeOK, q
  <2>. QED BY <1>9, <2>1 DEF Abort, TypeOK, SessionType, DataType, GateType, eventVars,
              sessionVars, dataVars, gateVars
<1>10. CASE SessionEnds
  <2>1. TaskType' /\ LockType'
    BY <1>1, <1>10, AcquireType DEF SessionEnds, TypeOK, q
  <2>. QED BY <1>10, <2>1 DEF SessionEnds, TypeOK, SessionType, DataType, GateType,
              eventVars, sessionVars, linkVars, dataVars, gateVars
<1>. QED BY <1>2, <1>3, <1>4, <1>5, <1>6, <1>7, <1>8, <1>9, <1>10 DEF ConnStep

(* Stopping and cancellation. *)
LEMMA StoppingType ==
    ASSUME TypeOK, StopBegins \/ StopGathered \/ CancelConnection
    PROVE  TypeOK'
<1>1. CASE StopBegins
  <2>1. cancelReq' \subseteq Procs
    BY <1>1, ClientAssumption, ProcsFacts DEF StopBegins
  <2>2. TaskType' /\ LockType'
    BY <1>1 DEF StopBegins, TypeOK, TaskType, LockType, PCs, lockVars
  <2>. QED BY <1>1, <2>1, <2>2 DEF StopBegins, TypeOK, SessionType, DataType, GateType,
              sessionVars, linkVars, dataVars, gateVars
<1>2. CASE StopGathered
  <2>1. TaskType' /\ LockType'
    BY <1>2, ProcsFacts, AcquireType DEF StopGathered, TypeOK, LockType, Ops
  <2>. QED BY <1>2, <2>1 DEF StopGathered, TypeOK, SessionType, DataType, GateType,
              sessionVars, linkVars, dataVars, gateVars
<1>3. CASE CancelConnection
  <2>. DEFINE q == RemoveFirst(runq, Conn)
  <2>1. /\ q \in Seq(Procs \cup Nat) /\ RemoveFirst(waiters, Conn) \in Seq(Procs)
        /\ Conn \in Procs /\ "disconnect" \in Ops
    BY ProcsFacts, RemoveFirstType DEF TypeOK, LockType, Ops
  <2>. HIDE DEF q
  <2>2. Acquire(Conn, "disconnect", q) => TaskType' /\ LockType'
    BY <2>1, AcquireType DEF TypeOK
  <2>3. Reacquire(Conn, "disconnect", q) => TaskType' /\ LockType'
    BY <2>1, ReacquireType DEF TypeOK
  <2>4. /\ op' = [op EXCEPT ![Conn] = "disconnect"]
        /\ waiters' = Append(RemoveFirst(waiters, Conn), Conn)
        /\ runq' = q
        /\ UNCHANGED <<pc, holder, running>>
        => TaskType' /\ LockType'
    <3>1. Append(RemoveFirst(waiters, Conn), Conn) \in Seq(Procs)
      BY <2>1
    <3>. QED BY <2>1, <3>1 DEF TypeOK, TaskType, LockType
  <2>5. TaskType' /\ LockType'
    BY <1>3, <2>2, <2>3, <2>4 DEF CancelConnection, q
  <2>. QED BY <1>3, <2>5 DEF CancelConnection, TypeOK, SessionType, DataType, GateType,
              sessionVars, dataVars, gateVars
<1>. QED BY <1>1, <1>2, <1>3

LEMMA DeliverType ==
    ASSUME TypeOK, NEW p \in Procs, Deliver(p)
    PROVE  TypeOK'
<1>1. RemoveFirst(runq, p) \in Seq(Procs \cup Nat)
  BY RemoveFirstType DEF TypeOK, LockType
<1>2. CASE CancelResting(p)
  BY <1>1, <1>2, RestingTypes DEF CancelResting, TypeOK, TaskType, LockType, SessionType,
     DataType, GateType, lockVars, sessionVars, linkVars, dataVars, gateVars
<1>3. CASE CancelWaiting(p)
  <2>1. LockType'
    BY <1>3, WithdrawType DEF CancelWaiting, TypeOK
  <2>2. TaskType'
    BY <1>3, RestingTypes DEF CancelWaiting, EndOp, TypeOK, TaskType, Ops
  <2>. QED BY <1>3, <2>1, <2>2 DEF CancelWaiting, TypeOK, SessionType, DataType, GateType,
              sessionVars, linkVars, dataVars, gateVars
<1>4. CASE CancelWriting(p)
  <2>1. LockType'
    BY <1>1, <1>4, ReleaseType DEF CancelWriting, TypeOK
  <2>2. TaskType'
    BY <1>4, RestingTypes DEF CancelWriting, EndOp, TypeOK, TaskType, Ops
  <2>3. GateType'
    BY <1>4, LoseOwnType DEF CancelWriting, TypeOK, TaskType
  <2>. QED BY <1>4, <2>1, <2>2, <2>3 DEF CancelWriting, TypeOK, SessionType, DataType,
              sessionVars, linkVars, dataVars
<1>5. CASE CancelDisconnect(p)
  <2>1. LockType'
    BY <1>1, <1>5, ReleaseType DEF CancelDisconnect, TypeOK
  <2>2. TaskType'
    BY <1>5, RestingTypes DEF CancelDisconnect, TypeOK, TaskType
  <2>. QED BY <1>5, <2>1, <2>2 DEF CancelDisconnect, TypeOK, SessionType, DataType, GateType,
              sessionVars, dataVars, gateVars
<1>. QED BY <1>2, <1>3, <1>4, <1>5 DEF Deliver

LEMMA CompletesType ==
    ASSUME TypeOK, NEW p \in Procs, Completes(p)
    PROVE  TypeOK'
<1>1. Append(runq, p) \in Seq(Procs \cup Nat)
  BY DEF TypeOK, LockType
<1>. QED BY <1>1 DEF Completes, TypeOK, TaskType, LockType, SessionType, DataType, GateType,
            taskVars, lockVars, eventVars, sessionVars, linkVars, dataVars, gateVars

LEMMA RequestDisconnectType ==
    ASSUME TypeOK, NEW s \in Nat, RequestDisconnect(s)
    PROVE  TypeOK'
<1>1. Wakes(Tail(runq)) \in Seq(Procs \cup Nat)
  <2>1. Tail(runq) \in Seq(Procs \cup Nat)
    BY DEF RequestDisconnect, IsNext, TypeOK, LockType
  <2>. QED BY <2>1, ProcsFacts DEF Wakes
<1>. QED BY <1>1 DEF RequestDisconnect, TypeOK, TaskType, LockType, SessionType, DataType,
            GateType, taskVars, lockVars, sessionVars, linkVars, dataVars, gateVars

LEMMA LinkDropsType ==
    ASSUME TypeOK, NEW s \in Nat, LinkDrops(s)
    PROVE  TypeOK'
<1>1. QueueAfterLoss(s, runq) \in Seq(Procs \cup Nat)
  BY DEF QueueAfterLoss, TypeOK, LockType
<1>. QED BY <1>1 DEF LinkDrops, TypeOK, TaskType, LockType, SessionType, DataType, GateType,
            taskVars, lockVars, eventVars, sessionVars, dataVars, gateVars

LEMMA NotificationType ==
    ASSUME TypeOK, NEW s \in Nat, NEW k \in Packets, Notification(s, k)
    PROVE  TypeOK'
<1>1. k \in PacketType
  BY ClientAssumption
<1>2. /\ k.group \in Groups /\ k.value \in Readings /\ k.plausible \in BOOLEAN
      /\ k.revision \in {"verified", "unverified"}
  BY <1>1 DEF PacketType
<1>3. version[k.group] + 1 \in Nat
  BY <1>2 DEF TypeOK, DataType
<1>4. GateType'
  BY <1>2, <1>3, ConvergeType DEF Notification
<1>5. DataType'
  BY <1>2, <1>3 DEF Notification, TypeOK, DataType
<1>6. SessionType'
  BY <1>2 DEF Notification, TypeOK, SessionType, eventVars, linkVars
<1>7. TaskType' /\ LockType'
  BY DEF Notification, TypeOK, TaskType, LockType, taskVars, lockVars
<1>. QED BY <1>4, <1>5, <1>6, <1>7 DEF TypeOK

LEMMA TimeType ==
    ASSUME TypeOK, NEW g \in Groups, Stale(g) \/ DeadlinePasses(g)
    PROVE  TypeOK'
<1>1. CASE Stale(g)
  BY <1>1 DEF Stale, TypeOK, TaskType, LockType, SessionType, DataType, GateType,
     taskVars, lockVars, eventVars, sessionVars, linkVars, gateVars
<1>2. CASE DeadlinePasses(g)
  <2>1. txn[g] \in Transactions /\ txn[g] # NoTxn
    BY <1>2 DEF DeadlinePasses, TypeOK, GateType, NoTxn
  <2>2. [txn[g] EXCEPT !.expired = TRUE] \in Transactions
    BY <2>1 DEF Transactions
  <2>3. GateType'
    BY <1>2, <2>2 DEF DeadlinePasses, TypeOK, GateType
  <2>. QED BY <1>2, <2>3 DEF DeadlinePasses, TypeOK, TaskType, LockType, SessionType, DataType,
              taskVars, lockVars, eventVars, sessionVars, linkVars, dataVars
<1>. QED BY <1>1, <1>2

LEMMA CallbackType ==
    ASSUME TypeOK, Callback
    PROVE  TypeOK'
<1>1. 1..MaxSessions \subseteq Nat
  BY ClientAssumption
<1>. QED BY <1>1, LinkDropsType, NotificationType, TimeType DEF Callback

LEMMA LoopStepType ==
    ASSUME TypeOK, LoopStep
    PROVE  TypeOK'
<1>1. CASE RefreshFires
  <2>1. After(Refresh) \in Seq(Procs \cup Nat) /\ "status" \in Ops
    BY <1>1, QueueTypes, ProcsFacts DEF RefreshFires, Resumes, TypeOK, Ops
  <2>2. TaskType' /\ LockType'
    BY <1>1, <2>1, AcquireType, ProcsFacts DEF RefreshFires, TypeOK
  <2>. QED BY <1>1, <2>2 DEF RefreshFires, TypeOK, SessionType, DataType, GateType,
              eventVars, sessionVars, linkVars, dataVars, gateVars
<1>2. CASE \E s \in 1..MaxSessions : RequestDisconnect(s)
  <2>1. 1..MaxSessions \subseteq Nat
    BY ClientAssumption
  <2>. QED BY <1>2, <2>1, RequestDisconnectType
<1>. QED BY <1>1, <1>2, RunType, ConnStepType DEF LoopStep

LEMMA TypeStep ==
    ASSUME TypeOK, [Next]_vars
    PROVE  TypeOK'
<1>1. CASE UNCHANGED vars
  BY <1>1 DEF vars, TypeOK, TaskType, LockType, SessionType, DataType, GateType, taskVars,
     lockVars, eventVars, sessionVars, linkVars, dataVars, gateVars
<1>2. CASE \E p \in Callers : Reconnect(p) \/ \E o \in Calls : Call(p, o)
  <2>1. "status" \in Calls
    BY DEF Calls
  <2>. QED BY <1>2, <2>1, CallTypes
<1>3. CASE Stopping
  <2>1. cancelReq \subseteq Procs
    BY DEF TypeOK, SessionType
  <2>. QED BY <1>3, <2>1, StoppingType, DeliverType DEF Stopping
<1>. QED BY <1>1, <1>2, <1>3, LoopStepType, CompletesType, DeliverType, StoppingType,
            CallbackType DEF Next

LEMMA TypeInit == Init => TypeOK
<1>. SUFFICES ASSUME Init PROVE TypeOK
  OBVIOUS
<1>1. TaskType
  BY ProcsFacts DEF Init, TaskType, PCs, Ops
<1>2. LockType
  BY ProcsFacts DEF Init, LockType
<1>3. SessionType /\ DataType /\ GateType
  BY DEF Init, SessionType, DataType, GateType, Transactions
<1>. QED BY <1>1, <1>2, <1>3 DEF TypeOK

(* Every variable keeps its type in every behaviour; in particular a pending
   transaction of the client is complete or absent, whatever write, cancellation
   or packet touched it (client.py, _write_transaction_unlocked). *)
THEOREM TypeCorrect == Spec => []TypeOK
<1>1. Init => TypeOK
  BY TypeInit
<1>2. TypeOK /\ [Next]_vars => TypeOK'
  BY TypeStep
<1>. QED BY <1>1, <1>2, PTL DEF Spec

-----------------------------------------------------------------------------
(* Mutual exclusion.  LockDiscipline is inductive together with two facts about
   what tasks want: the connection task wants to "connect" only on the way to and
   during _connect_once's critical section, and the delayed refresh wants nothing
   but a status request, so it never disconnects and never cancels itself. *)
LockInv ==
    /\ LockDiscipline
    /\ op[Conn] = "connect" => pc[Conn] \in {"lock", "notify", "writing"}
    /\ op[Refresh] \in {"none", "status"}

LEMMA HandOverLock ==
    ASSUME NEW ws \in Seq(Procs), NEW q, NEW r, HandOver(ws, q, r), Distinct(ws),
           \A i \in DOMAIN ws : pc'[ws[i]] = "lock",
           \A p \in Procs : pc'[p] \notin HoldingPCs
    PROVE  LockDiscipline'
<1>1. CASE ws = <<>>
  BY <1>1 DEF HandOver, LockDiscipline
<1>2. CASE ws # <<>>
  <2>1. holder' = Head(ws) /\ waiters' = Tail(ws)
    BY <1>2 DEF HandOver
  <2>2. /\ Distinct(Tail(ws)) /\ Head(ws) = ws[1] /\ 1 \in DOMAIN ws
        /\ \A i \in DOMAIN Tail(ws) :
               Tail(ws)[i] # Head(ws) /\ \E j \in DOMAIN ws : Tail(ws)[i] = ws[j]
    BY <1>2, TailDistinct
  <2>3. Head(ws) \in Procs
    BY <1>2
  <2>4. pc'[holder'] = "lock" /\ holder' # NoProc
    BY <2>1, <2>2, <2>3, ProcsFacts
  <2>5. \A i \in DOMAIN waiters' : pc'[waiters'[i]] = "lock" /\ waiters'[i] # holder'
    <3> TAKE i \in DOMAIN waiters'
    <3>1. waiters'[i] = Tail(ws)[i] /\ i \in DOMAIN Tail(ws)
      BY <2>1
    <3>2. PICK j \in DOMAIN ws : Tail(ws)[i] = ws[j]
      BY <2>2, <3>1
    <3>3. pc'[waiters'[i]] = "lock"
      BY <3>1, <3>2
    <3> QED
      BY <2>1, <2>2, <3>1, <3>3
  <2>6. \A i, j \in DOMAIN waiters' : i # j => waiters'[i] # waiters'[j]
    BY <2>1, <2>2, Zenon DEF Distinct
  <2>. QED BY <2>4, <2>5, <2>6 DEF LockDiscipline
<1>. QED BY <1>1, <1>2

(* The lock is released by its holder p, which goes to l. *)
LEMMA ReleaseLock ==
    ASSUME TypeOK, LockDiscipline, NEW p \in Procs, holder = p,
           NEW l, l \notin HoldingPCs, pc' = [pc EXCEPT ![p] = l], NEW q, Release(q)
    PROVE  LockDiscipline'
<1>1. waiters \in Seq(Procs) /\ Distinct(waiters)
  BY DEF TypeOK, LockType, LockDiscipline, Distinct
<1>2. \A x \in Procs : pc'[x] \notin HoldingPCs
  BY DEF TypeOK, TaskType, LockDiscipline
<1>3. \A i \in DOMAIN waiters : pc'[waiters[i]] = "lock"
  <2>1. \A i \in DOMAIN waiters : waiters[i] \in Procs /\ waiters[i] # p
    BY <1>1 DEF LockDiscipline
  <2>. QED BY <2>1 DEF TypeOK, TaskType, LockDiscipline
<1>. QED BY <1>1, <1>2, <1>3, HandOverLock DEF Release

LEMMA AcquireLock ==
    ASSUME TypeOK, LockDiscipline, NEW p \in Procs, pc[p] \notin HoldingPCs \cup {"lock"},
           NEW o, NEW q, Acquire(p, o, q)
    PROVE  LockDiscipline'
<1>1. pc' = [pc EXCEPT ![p] = "lock"]
  BY DEF Acquire
<1>2. waiters \in Seq(Procs) /\ Distinct(waiters) /\ pc \in [Procs -> PCs]
  BY DEF TypeOK, TaskType, LockType, LockDiscipline, Distinct
<1>3. CASE holder = NoProc
  <2>1. holder' = p /\ UNCHANGED waiters /\ waiters = <<>>
    BY <1>3 DEF Acquire, LockDiscipline
  <2>. QED BY <1>1, <1>2, <1>3, <2>1, ProcsFacts DEF LockDiscipline, HoldingPCs
<1>4. CASE holder # NoProc
  <2>1. waiters' = Append(waiters, p) /\ UNCHANGED holder
    BY <1>4 DEF Acquire
  <2>2. \A i \in DOMAIN waiters : waiters[i] # p /\ waiters[i] \in Procs
    BY <1>2 DEF LockDiscipline
  <2>3. /\ Distinct(waiters')
        /\ \A i \in DOMAIN waiters' :
               waiters'[i] = p \/ \E j \in DOMAIN waiters : waiters'[i] = waiters[j]
    BY <1>2, <2>1, <2>2, AppendDistinct
  <2>4. holder # p /\ holder \in Procs
    BY <1>4 DEF LockDiscipline, TypeOK, LockType
  <2>5. \A i \in DOMAIN waiters' : pc'[waiters'[i]] = "lock" /\ waiters'[i] # holder
    BY <1>1, <1>2, <2>2, <2>3, <2>4 DEF LockDiscipline
  <2>6. \A x \in Procs : pc'[x] \in HoldingPCs => holder = x
    BY <1>1, <1>2 DEF LockDiscipline, HoldingPCs
  <2>7. pc'[holder] \in HoldingPCs \cup {"lock"}
    BY <1>1, <1>2, <1>4, <2>4 DEF LockDiscipline
  <2>. QED BY <1>4, <2>1, <2>3, <2>5, <2>6, <2>7 DEF LockDiscipline, Distinct
<1>. QED BY <1>3, <1>4

(* The holder goes on inside its critical section. *)
LEMMA KeepLockLock ==
    ASSUME TypeOK, LockDiscipline, NEW p \in Procs, holder = p,
           NEW l \in HoldingPCs \cup {"lock"}, pc' = [pc EXCEPT ![p] = l],
           UNCHANGED <<holder, waiters>>
    PROVE  LockDiscipline'
<1>1. waiters \in Seq(Procs) /\ pc \in [Procs -> PCs]
  BY DEF TypeOK, TaskType, LockType
<1>2. \A i \in DOMAIN waiters : waiters[i] \in Procs
  BY <1>1
<1>. QED BY <1>1, <1>2 DEF LockDiscipline

(* A task that has nothing to do with the lock goes to l. *)
LEMMA OutsideLock ==
    ASSUME TypeOK, LockDiscipline, NEW p \in Procs, pc[p] \notin HoldingPCs \cup {"lock"},
           NEW l, l \notin HoldingPCs, pc' = [pc EXCEPT ![p] = l],
           UNCHANGED <<holder, waiters>>
    PROVE  LockDiscipline'
<1>1. waiters \in Seq(Procs) /\ pc \in [Procs -> PCs]
  BY DEF TypeOK, TaskType, LockType
<1>2. \A i \in DOMAIN waiters : waiters[i] \in Procs
  BY <1>1
<1>3. holder # NoProc => holder \in Procs
  BY DEF TypeOK, LockType
<1>. QED BY <1>1, <1>2, <1>3 DEF LockDiscipline

LEMMA ReacquireLock ==
    ASSUME TypeOK, LockDiscipline, NEW p \in Procs, holder = p, NEW o, NEW q,
           Reacquire(p, o, q)
    PROVE  LockDiscipline'
<1>1. pc' = [pc EXCEPT ![p] = "lock"]
  BY DEF Reacquire
<1>2. CASE waiters = <<>>
  BY <1>1, <1>2, KeepLockLock DEF Reacquire
<1>3. CASE waiters # <<>>
  <2>. DEFINE ws == Append(waiters, p)
  <2>1. HandOver(ws, q, NoProc)
    BY <1>3 DEF Reacquire
  <2>2. /\ waiters \in Seq(Procs) /\ Distinct(waiters) /\ pc \in [Procs -> PCs]
        /\ \A i \in DOMAIN waiters : waiters[i] \in Procs /\ waiters[i] # p
    BY DEF TypeOK, TaskType, LockType, LockDiscipline, Distinct
  <2>3. /\ ws \in Seq(Procs) /\ Distinct(ws)
        /\ \A i \in DOMAIN ws : ws[i] = p \/ \E j \in DOMAIN waiters : ws[i] = waiters[j]
    BY <2>2, AppendDistinct
  <2>. HIDE DEF ws
  <2>4. \A i \in DOMAIN ws : pc'[ws[i]] = "lock"
    BY <1>1, <2>2, <2>3 DEF LockDiscipline
  <2>5. \A x \in Procs : pc'[x] \notin HoldingPCs
    BY <1>1, <2>2 DEF LockDiscipline, HoldingPCs
  <2>. QED BY <2>1, <2>3, <2>4, <2>5, HandOverLock
<1>. QED BY <1>2, <1>3

(* The waiters without p, when p neither holds the lock nor keeps waiting. *)
LEMMA WithoutLock ==
    ASSUME TypeOK, LockDiscipline, NEW p \in Procs
    PROVE  /\ RemoveFirst(waiters, p) \in Seq(Procs)
           /\ Distinct(RemoveFirst(waiters, p))
           /\ \A i \in DOMAIN RemoveFirst(waiters, p) :
                  LET x == RemoveFirst(waiters, p)[i] IN
                  x \in Procs /\ x # p /\ pc[x] = "lock" /\ x # holder
<1>1. waiters \in Seq(Procs) /\ Distinct(waiters)
  BY DEF TypeOK, LockType, LockDiscipline, Distinct
<1>2. RemoveFirst(waiters, p) \in Seq(Procs) /\ Distinct(RemoveFirst(waiters, p))
  BY <1>1, RemoveFirstType, RemoveFirstDistinct
<1>3. ASSUME NEW i \in DOMAIN RemoveFirst(waiters, p)
      PROVE  LET x == RemoveFirst(waiters, p)[i] IN
             x \in Procs /\ x # p /\ pc[x] = "lock" /\ x # holder
  <2>1. PICK j \in DOMAIN waiters : RemoveFirst(waiters, p)[i] = waiters[j]
    BY <1>1, RemoveFirstDistinct
  <2>2. RemoveFirst(waiters, p)[i] # p
    BY <1>1, RemoveFirstDistinct
  <2>3. waiters[j] \in Procs
    BY <1>1
  <2>. QED BY <2>1, <2>2, <2>3 DEF LockDiscipline
<1>. QED BY <1>2, <1>3

LEMMA WithdrawLock ==
    ASSUME TypeOK, LockDiscipline, NEW p \in Procs, pc[p] = "lock",
           NEW l, l \notin HoldingPCs \cup {"lock"}, pc' = [pc EXCEPT ![p] = l], Withdraw(p)
    PROVE  LockDiscipline'
<1>1. CASE holder = p
  BY <1>1, ReleaseLock DEF Withdraw
<1>2. CASE holder # p
  <2>. DEFINE ws == RemoveFirst(waiters, p)
  <2>1. waiters' = ws /\ UNCHANGED holder
    BY <1>2 DEF Withdraw
  <2>2. /\ ws \in Seq(Procs) /\ Distinct(ws)
        /\ \A i \in DOMAIN ws : ws[i] \in Procs /\ ws[i] # p /\ pc[ws[i]] = "lock"
                                /\ ws[i] # holder
    BY WithoutLock
  <2>. HIDE DEF ws
  <2>3. pc \in [Procs -> PCs] /\ (holder # NoProc => holder \in Procs)
    BY DEF TypeOK, TaskType, LockType
  <2>4. ws # <<>> => holder # NoProc
    BY <2>2 DEF TypeOK, LockDiscipline, RemoveFirst, ws
  <2>. QED BY <1>2, <2>1, <2>2, <2>3, <2>4 DEF LockDiscipline, Distinct
<1>. QED BY <1>1, <1>2


(* Steps of a task that is inside the critical section, or wants to be. *)
LEMMA RunLock ==
    ASSUME TypeOK, LockInv, NEW p \in Procs, Run(p)
    PROVE  LockInv'
<1>1. LockDiscipline /\ pc \in [Procs -> PCs] /\ op \in [Procs -> Ops]
  BY DEF LockInv, TypeOK, TaskType
<1>2. CASE SendStatusRequest(p)
  <2>1. LockDiscipline'
    BY <1>1, <1>2, ReleaseLock, KeepLockLock
       DEF SendStatusRequest, Inside, KeepLock, HoldingPCs
  <2>. QED BY <1>1, <1>2, <2>1, ProcsFacts DEF LockInv, SendStatusRequest, Inside, EndOp
<1>3. CASE Submit(p)
  <2>1. PICK o \in Groups \cup {"keepalive"} :
            /\ Inside(p, o)
            /\ \/ pc' = [pc EXCEPT ![p] = "writing"] /\ KeepLock(After(p)) /\ UNCHANGED op
               \/ pc' = [pc EXCEPT ![p] = "idle"] /\ Release(After(p)) /\ EndOp(p)
    BY <1>3 DEF Submit
  <2>2. LockDiscipline'
    BY <1>1, <2>1, ReleaseLock, KeepLockLock DEF Inside, KeepLock, HoldingPCs
  <2>. QED BY <1>1, <2>1, <2>2, ProcsFacts DEF LockInv, Inside, EndOp, Groups
<1>4. CASE Decline(p)
  <2>1. PICK o \in Groups \cup {"keepalive"} :
            /\ Inside(p, o) /\ EndOp(p)
            /\ pc' = [pc EXCEPT ![p] = "idle"] /\ Release(After(p))
    BY <1>4 DEF Decline
  <2>2. LockDiscipline'
    BY <1>1, <2>1, ReleaseLock DEF Inside, HoldingPCs
  <2>. QED BY <1>1, <2>1, <2>2, ProcsFacts DEF LockInv, Inside, EndOp, Groups
<1>5. CASE DisconnectClient(p)
  <2>. DEFINE cancels == pc[Refresh] # "idle" /\ ~orphaned
              ws == IF cancels THEN RemoveFirst(waiters, Refresh) ELSE waiters
              q  == IF cancels THEN RemoveFirst(After(p), Refresh) ELSE After(p)
              next(l) == [pc EXCEPT ![Refresh] = IF cancels THEN "idle" ELSE @, ![p] = l]
  <2>1. /\ pc[p] = "lock" /\ holder = p /\ op[p] = "disconnect"
        /\ op' = [op EXCEPT ![Refresh] = IF cancels THEN "none" ELSE @, ![p] = "none"]
        /\ \/ pc' = next("disc") /\ waiters' = ws /\ UNCHANGED holder
           \/ pc' = next(Resting(p)) /\ \E r \in RunsOn(p) : HandOver(ws, q, r)
    BY <1>5, Zenon DEF DisconnectClient, Inside
  <2>2. p # Refresh
    BY <2>1 DEF LockInv
  <2>3. /\ ws \in Seq(Procs) /\ Distinct(ws)
        /\ \A i \in DOMAIN ws : /\ ws[i] \in Procs /\ ws[i] # p /\ pc[ws[i]] = "lock"
                                /\ cancels => ws[i] # Refresh
    <3>1. CASE cancels
      BY <1>1, <2>1, <3>1, ProcsFacts, WithoutLock
    <3>2. CASE ~cancels
      BY <1>1, <2>1, <3>2 DEF LockDiscipline, TypeOK, LockType, Distinct
    <3>. QED BY <3>1, <3>2
  <2>. HIDE DEF ws, q
  <2>4. \A x \in Procs : pc[x] \in HoldingPCs => x = p
    BY <1>1, <2>1 DEF LockDiscipline
  <2>5. CASE pc' = next("disc") /\ waiters' = ws /\ UNCHANGED holder
    <3>1. \A x \in Procs : pc'[x] \in HoldingPCs => holder' = x
      BY <1>1, <2>1, <2>2, <2>4, <2>5, ProcsFacts DEF HoldingPCs
    <3>2. pc'[holder'] \in HoldingPCs
      BY <1>1, <2>1, <2>5 DEF HoldingPCs
    <3>3. \A i \in DOMAIN waiters' : pc'[waiters'[i]] = "lock" /\ waiters'[i] # holder'
      BY <1>1, <2>1, <2>3, <2>5
    <3>. QED BY <1>1, <2>1, <2>3, <2>5, <3>1, <3>2, <3>3, ProcsFacts
             DEF LockInv, LockDiscipline, Distinct
  <2>6. CASE pc' = next(Resting(p)) /\ \E r \in RunsOn(p) : HandOver(ws, q, r)
    <3>1. Resting(p) \notin HoldingPCs \cup {"lock"}
      BY DEF Resting, HoldingPCs
    <3>2. \A x \in Procs : pc'[x] \notin HoldingPCs
      BY <1>1, <2>2, <2>4, <2>6, <3>1, ProcsFacts DEF HoldingPCs
    <3>3. \A i \in DOMAIN ws : pc'[ws[i]] = "lock"
      BY <1>1, <2>3, <2>6
    <3>4. LockDiscipline'
      BY <2>3, <2>6, <3>2, <3>3, HandOverLock
    <3>. QED BY <1>1, <2>1, <3>4, ProcsFacts DEF LockInv
  <2>. QED BY <2>1, <2>5, <2>6
<1>6. CASE WriteSucceeds(p)
  <2>. DEFINE ws == RemoveFirst(waiters, Refresh)
              q == RemoveFirst(After(p), Refresh)
  <2>1. /\ pc[p] = "writing" /\ p # Conn /\ IsCommand(op[p])
        /\ pc' = [pc EXCEPT ![p] = "idle", ![Refresh] = "sleep"]
        /\ op' = [op EXCEPT ![Refresh] = "none", ![p] = "none"]
        /\ HandOver(ws, q, NoProc)
    BY <1>6 DEF WriteSucceeds, Resumes, Reschedule
  <2>2. p # Refresh
    BY <2>1 DEF LockInv, IsCommand, Groups
  <2>3. holder = p
    BY <1>1, <2>1 DEF LockDiscipline, HoldingPCs
  <2>4. /\ ws \in Seq(Procs) /\ Distinct(ws)
        /\ \A i \in DOMAIN ws : ws[i] \in Procs /\ ws[i] # p /\ ws[i] # Refresh
                                /\ pc[ws[i]] = "lock"
    BY <1>1, <2>3, ProcsFacts, WithoutLock
  <2>. HIDE DEF ws, q
  <2>5. \A x \in Procs : pc'[x] \notin HoldingPCs
    BY <1>1, <2>1, <2>3, ProcsFacts DEF HoldingPCs, LockDiscipline
  <2>6. \A i \in DOMAIN ws : pc'[ws[i]] = "lock"
    BY <1>1, <2>1, <2>4
  <2>7. LockDiscipline'
    BY <2>1, <2>4, <2>5, <2>6, HandOverLock
  <2>. QED BY <1>1, <2>1, <2>7, ProcsFacts DEF LockInv
<1>7. CASE WriteReturns(p) \/ WriteFails(p)
  <2>1. PICK l \in {"idle", "abort"} :
            /\ pc[p] = "writing" /\ pc' = [pc EXCEPT ![p] = l]
            /\ EndOp(p) /\ \E q : Release(q)
    BY <1>7 DEF WriteReturns, WriteFails, Resumes
  <2>2. holder = p
    BY <1>1, <2>1 DEF LockDiscipline, HoldingPCs
  <2>3. LockDiscipline'
    BY <1>1, <2>1, <2>2, ReleaseLock DEF HoldingPCs
  <2>. QED BY <1>1, <2>1, <2>3, ProcsFacts DEF LockInv, EndOp
<1>8. CASE Disconnected(p)
  <2>1. /\ pc[p] = "disc" /\ UNCHANGED op /\ pc' = [pc EXCEPT ![p] = Resting(p)]
        /\ \E r \in RunsOn(p) : HandOver(waiters, After(p), r)
    BY <1>8 DEF Disconnected, Resumes
  <2>2. holder = p
    BY <1>1, <2>1 DEF LockDiscipline, HoldingPCs
  <2>3. Resting(p) \notin HoldingPCs \cup {"lock"}
    BY DEF Resting, HoldingPCs
  <2>4. \A x \in Procs : pc'[x] \notin HoldingPCs
    BY <1>1, <2>1, <2>2, <2>3 DEF LockDiscipline
  <2>5. /\ waiters \in Seq(Procs) /\ Distinct(waiters)
        /\ \A i \in DOMAIN waiters : waiters[i] \in Procs /\ waiters[i] # p
                                     /\ pc[waiters[i]] = "lock"
    BY <1>1, <2>2 DEF TypeOK, LockType, LockDiscipline, Distinct
  <2>6. \A i \in DOMAIN waiters : pc'[waiters[i]] = "lock"
    BY <1>1, <2>1, <2>5
  <2>7. LockDiscipline'
    BY <2>1, <2>4, <2>5, <2>6, HandOverLock
  <2>. QED BY <1>1, <2>1, <2>7, ProcsFacts DEF LockInv
<1>. QED BY <1>2, <1>3, <1>4, <1>5, <1>6, <1>7, <1>8 DEF Run


LEMMA ConnStepLock ==
    ASSUME TypeOK, LockInv, ConnStep
    PROVE  LockInv'
<1>1. LockDiscipline /\ pc \in [Procs -> PCs] /\ op \in [Procs -> Ops] /\ Conn \in Procs
  BY ProcsFacts DEF LockInv, TypeOK, TaskType
<1>2. ASSUME NEW o \in {"connect", "disconnect"}, NEW q, Acquire(Conn, o, q),
             pc[Conn] \in {"estab", "abort", "session"}
      PROVE  LockInv'
  <2>1. LockDiscipline'
    BY <1>1, <1>2, AcquireLock DEF HoldingPCs
  <2>. QED BY <1>1, <1>2, <2>1, ProcsFacts DEF LockInv, Acquire
<1>3. CASE StartAttempt
  <2>1. LockDiscipline'
    BY <1>1, <1>3, OutsideLock DEF StartAttempt, Resumes, KeepLock, RunOn, HoldingPCs
  <2>. QED BY <1>1, <1>3, <2>1, ProcsFacts DEF LockInv, StartAttempt, Resumes
<1>4. CASE Established
  <2>1. CASE /\ pc[Conn] = "estab" /\ pc' = [pc EXCEPT ![Conn] = "abort"]
             /\ UNCHANGED <<op, holder, waiters>>
    <3>1. LockDiscipline'
      BY <1>1, <2>1, OutsideLock DEF HoldingPCs
    <3>. QED BY <1>1, <2>1, <3>1, ProcsFacts DEF LockInv
  <2>. QED BY <1>2, <1>4, <2>1 DEF Established, Resumes, KeepLock
<1>5. CASE Install
  <2>1. LockDiscipline'
    BY <1>1, <1>5, KeepLockLock DEF Install, Inside, KeepLock, HoldingPCs
  <2>. QED BY <1>1, <1>5, <2>1, ProcsFacts DEF LockInv, Install
<1>6. CASE SubscribeFails
  <2>1. holder = Conn
    BY <1>1, <1>6 DEF SubscribeFails, Resumes, LockDiscipline, HoldingPCs
  <2>2. LockDiscipline'
    BY <1>1, <1>6, <2>1, ReleaseLock DEF SubscribeFails, HoldingPCs
  <2>. QED BY <1>1, <1>6, <2>2, ProcsFacts DEF LockInv, SubscribeFails, EndOp
<1>7. CASE Subscribed
  <2>1. holder = Conn
    BY <1>1, <1>7 DEF Subscribed, Resumes, LockDiscipline, HoldingPCs
  <2>2. LockDiscipline'
    BY <1>1, <1>7, <2>1, KeepLockLock, ReleaseLock DEF Subscribed, KeepLock, HoldingPCs
  <2>. QED BY <1>1, <1>7, <2>2, ProcsFacts DEF LockInv, Subscribed, EndOp
<1>8. CASE FirstRequestSent
  <2>1. holder = Conn
    BY <1>1, <1>8 DEF FirstRequestSent, Resumes, LockDiscipline, HoldingPCs
  <2>2. CASE Reacquire(Conn, "disconnect", After(Conn))
    <3>1. LockDiscipline'
      BY <1>1, <2>1, <2>2, ReacquireLock
    <3>. QED BY <1>1, <2>2, <3>1, ProcsFacts DEF LockInv, Reacquire
  <2>3. CASE /\ pc' = [pc EXCEPT ![Conn] = IF SessionChanged THEN "abort" ELSE "session"]
             /\ EndOp(Conn) /\ Release(After(Conn))
    <3>1. PICK l \in {"abort", "session"} : pc' = [pc EXCEPT ![Conn] = l]
      BY <2>3
    <3>2. LockDiscipline'
      BY <1>1, <2>1, <2>3, <3>1, ReleaseLock DEF HoldingPCs
    <3>. QED BY <1>1, <2>3, <3>2, ProcsFacts DEF LockInv, EndOp
  <2>. QED BY <1>8, <2>2, <2>3 DEF FirstRequestSent, Opened
<1>9. CASE EstablishFails \/ Abort \/ SessionEnds
  BY <1>2, <1>9 DEF EstablishFails, Abort, SessionEnds, Resumes
<1>. QED BY <1>3, <1>4, <1>5, <1>6, <1>7, <1>8, <1>9 DEF ConnStep

LEMMA StoppingLock ==
    ASSUME TypeOK, LockInv, StopBegins \/ StopGathered \/ CancelConnection
    PROVE  LockInv'
<1>1. /\ LockDiscipline /\ pc \in [Procs -> PCs] /\ op \in [Procs -> Ops]
      /\ Conn \in Procs /\ Stop \in Procs
  BY ProcsFacts DEF LockInv, TypeOK, TaskType
<1>2. CASE StopBegins
  <2>1. LockDiscipline'
    BY <1>1, <1>2, OutsideLock DEF StopBegins, lockVars, HoldingPCs
  <2>. QED BY <1>1, <1>2, <2>1, ProcsFacts DEF LockInv, StopBegins
<1>3. CASE StopGathered
  <2>1. LockDiscipline'
    BY <1>1, <1>3, AcquireLock DEF StopGathered, HoldingPCs
  <2>. QED BY <1>1, <1>3, <2>1, ProcsFacts DEF LockInv, StopGathered, Acquire
<1>4. CASE CancelConnection
  <2>. DEFINE q == RemoveFirst(runq, Conn)
  <2>1. CASE pc[Conn] \in {"estab", "abort", "session"} /\ Acquire(Conn, "disconnect", q)
    <3>1. LockDiscipline'
      BY <1>1, <2>1, AcquireLock DEF HoldingPCs
    <3>. QED BY <1>1, <2>1, <3>1, ProcsFacts DEF LockInv, Acquire
  <2>2. CASE /\ pc[Conn] \in {"notify", "writing"} \/ (op[Conn] = "connect" /\ holder = Conn)
             /\ Reacquire(Conn, "disconnect", q)
    <3>1. holder = Conn
      BY <1>1, <2>2 DEF LockDiscipline, HoldingPCs
    <3>2. LockDiscipline'
      BY <1>1, <2>2, <3>1, ReacquireLock
    <3>. QED BY <1>1, <2>2, <3>2, ProcsFacts DEF LockInv, Reacquire
  <2>3. CASE /\ op[Conn] = "connect" /\ Contains(waiters, Conn)
             /\ op' = [op EXCEPT ![Conn] = "disconnect"]
             /\ waiters' = Append(RemoveFirst(waiters, Conn), Conn)
             /\ UNCHANGED <<pc, holder>>
    <3>1. pc[Conn] = "lock" /\ holder # Conn /\ holder # NoProc
      <4>1. PICK i \in DOMAIN waiters : waiters[i] = Conn
        BY <2>3 DEF Contains, TypeOK, LockType
      <4>2. waiters # <<>>
        BY <4>1 DEF TypeOK, LockType
      <4>. QED BY <1>1, <4>1, <4>2 DEF LockDiscipline
    <3>. DEFINE ws == RemoveFirst(waiters, Conn)
    <3>2. /\ ws \in Seq(Procs) /\ Distinct(ws)
          /\ \A i \in DOMAIN ws : ws[i] # Conn /\ pc[ws[i]] = "lock" /\ ws[i] # holder
      BY <1>1, WithoutLock
    <3>. HIDE DEF ws
    <3>4. /\ Distinct(waiters')
          /\ \A i \in DOMAIN waiters' :
                 waiters'[i] = Conn \/ \E j \in DOMAIN ws : waiters'[i] = ws[j]
      BY <1>1, <2>3, <3>2, AppendDistinct DEF ws
    <3>5. LockDiscipline'
      BY <1>1, <2>3, <3>1, <3>2, <3>4 DEF LockDiscipline, Distinct
    <3>. QED BY <1>1, <2>3, <3>5, ProcsFacts DEF LockInv
  <2>. QED BY <1>4, <2>1, <2>2, <2>3 DEF CancelConnection
<1>. QED BY <1>2, <1>3, <1>4

LEMMA DeliverLock ==
    ASSUME TypeOK, LockInv, NEW p \in Procs, Deliver(p)
    PROVE  LockInv'
<1>1. /\ LockDiscipline /\ pc \in [Procs -> PCs] /\ op \in [Procs -> Ops]
      /\ Cancelled(p) \notin HoldingPCs \cup {"lock"}
  BY DEF LockInv, TypeOK, TaskType, Cancelled, HoldingPCs
<1>2. CASE CancelResting(p)
  <2>1. LockDiscipline'
    BY <1>1, <1>2, OutsideLock DEF CancelResting, lockVars, HoldingPCs
  <2>. QED BY <1>1, <1>2, <2>1, ProcsFacts DEF LockInv, CancelResting
<1>3. CASE CancelWaiting(p)
  <2>1. LockDiscipline'
    BY <1>1, <1>3, WithdrawLock DEF CancelWaiting
  <2>. QED BY <1>1, <1>3, <2>1, ProcsFacts DEF LockInv, CancelWaiting, EndOp
<1>4. CASE CancelWriting(p)
  <2>1. holder = p
    BY <1>1, <1>4 DEF CancelWriting, LockDiscipline, HoldingPCs
  <2>2. LockDiscipline'
    BY <1>1, <1>4, <2>1, ReleaseLock DEF CancelWriting
  <2>. QED BY <1>1, <1>4, <2>2, ProcsFacts DEF LockInv, CancelWriting, EndOp
<1>5. CASE CancelDisconnect(p)
  <2>1. holder = p
    BY <1>1, <1>5 DEF CancelDisconnect, LockDiscipline, HoldingPCs
  <2>2. LockDiscipline'
    BY <1>1, <1>5, <2>1, ReleaseLock DEF CancelDisconnect
  <2>. QED BY <1>1, <1>5, <2>2, ProcsFacts DEF LockInv, CancelDisconnect
<1>. QED BY <1>2, <1>3, <1>4, <1>5 DEF Deliver

(* Public calls and the delayed refresh ask for the lock. *)
LEMMA CallLock ==
    ASSUME TypeOK, LockInv,
           \/ \E p \in Callers : Reconnect(p) \/ \E o \in Calls : Call(p, o)
           \/ RefreshFires
    PROVE  LockInv'
<1>1. LockDiscipline /\ pc \in [Procs -> PCs] /\ op \in [Procs -> Ops]
  BY DEF LockInv, TypeOK, TaskType
<1>2. ASSUME NEW p \in Procs \ {Conn}, NEW o, NEW q, Acquire(p, o, q),
             pc[p] \in {"idle", "sleep"}, p = Refresh => o = "status"
      PROVE  LockInv'
  <2>1. LockDiscipline'
    BY <1>1, <1>2, AcquireLock DEF HoldingPCs
  <2>. QED BY <1>1, <1>2, <2>1, ProcsFacts DEF LockInv, Acquire
<1>3. CASE RefreshFires
  BY <1>2, <1>3, ProcsFacts DEF RefreshFires, Resumes
<1>4. ASSUME NEW p \in Callers, Reconnect(p) \/ \E o \in Calls : Call(p, o)
      PROVE  LockInv'
  <2>1. p \in Procs \ {Conn} /\ p # Refresh
    BY ProcsFacts, ClientAssumption DEF Procs
  <2>. QED BY <1>2, <1>4, <2>1 DEF Reconnect, Call
<1>. QED BY <1>3, <1>4

LEMMA LockStep ==
    ASSUME TypeOK, LockInv, [Next]_vars
    PROVE  LockInv'
<1>1. ASSUME UNCHANGED <<pc, op, holder, waiters>>
      PROVE  LockInv'
  BY <1>1 DEF LockInv, LockDiscipline
<1>2. CASE UNCHANGED vars
  BY <1>1, <1>2 DEF vars, taskVars, lockVars
<1>3. CASE LoopStep
  <2>1. CASE \E s \in 1..MaxSessions : RequestDisconnect(s)
    BY <1>1, <2>1 DEF RequestDisconnect, taskVars, lockVars
  <2>. QED BY <1>3, <2>1, RunLock, ConnStepLock, CallLock DEF LoopStep
<1>4. CASE Callback
  BY <1>1, <1>4 DEF Callback, LinkDrops, Notification, Stale, DeadlinePasses, taskVars,
     lockVars
<1>5. CASE \E p \in Procs : Completes(p)
  BY <1>1, <1>5 DEF Completes, taskVars, lockVars
<1>6. CASE Stopping
  <2>1. cancelReq \subseteq Procs
    BY DEF TypeOK, SessionType
  <2>. QED BY <1>6, <2>1, StoppingLock, DeliverLock DEF Stopping
<1>. QED BY <1>2, <1>3, <1>4, <1>5, <1>6, CallLock, DeliverLock, StoppingLock DEF Next

LEMMA LockInit == Init => LockInv
<1>. SUFFICES ASSUME Init PROVE LockInv
  OBVIOUS
<1>1. \A p \in Procs : pc[p] \notin HoldingPCs /\ op[p] = "none"
  BY DEF Init, HoldingPCs
<1>2. holder = NoProc /\ waiters = <<>>
  BY DEF Init
<1>. QED BY <1>1, <1>2, ProcsFacts DEF LockInv, LockDiscipline

(* _operation_lock excludes: at most one task is inside a GATT critical section, it
   is the owner of the lock, and no task waits for the lock twice or while it has it
   -- whatever is cancelled, in whichever order, for any number of service calls
   and sessions (client.py, every "async with self._operation_lock"). *)
THEOREM LockExclusive == Spec => []LockDiscipline
<1>1. Init => TypeOK /\ LockInv
  BY TypeInit, LockInit
<1>2. (TypeOK /\ LockInv) /\ [Next]_vars => (TypeOK /\ LockInv)'
  BY TypeStep, LockStep
<1>3. LockInv => LockDiscipline
  BY DEF LockInv
<1>. QED BY <1>1, <1>2, <1>3, PTL DEF Spec

-----------------------------------------------------------------------------
(* The session of a write.  WriteSessionStable needs to know where the session
   variables can change: client and activeGen name the last generation or none, and
   the connection task advances the generation and installs a client only after
   the last one is gone. *)
Between == \/ pc[Conn] \in {"retry", "estab", "disc"}
           \/ pc[Conn] = "lock" /\ op[Conn] = "connect"

SessionShape ==
    /\ client \in {0, gen} /\ activeGen \in {0, gen}
    /\ Between => client = 0 /\ ~connected
    /\ pc[Conn] = "notify" => client = gen

SessionInv == SessionShape /\ WriteSessionStable

(* Nobody writes while p has the lock and does something else. *)
LEMMA OnlyHolderWrites ==
    ASSUME LockInv
    PROVE  \A x \in Procs : pc[x] \in {"writing", "notify"} => holder = x
BY DEF LockInv, LockDiscipline, HoldingPCs

LEMMA RunSession ==
    ASSUME TypeOK, LockInv, SessionInv, NEW p \in Procs, Run(p)
    PROVE  SessionInv'
<1>1. /\ pc \in [Procs -> PCs] /\ op \in [Procs -> Ops] /\ Conn \in Procs
      /\ Refresh \in Procs /\ Conn # Refresh /\ gen \in Nat
      /\ \A x \in Procs : pc[x] \in {"writing", "notify"} => holder = x
      /\ op[Refresh] \in {"none", "status"}
      /\ pc[p] \in HoldingPCs => holder = p
  BY ProcsFacts, OnlyHolderWrites DEF TypeOK, TaskType, SessionType, LockInv, LockDiscipline
(* A step that keeps the session and moves p, which holds the lock, to l. *)
<1>2. ASSUME NEW l, pc' = [pc EXCEPT ![p] = l], l \notin {"retry", "estab", "disc", "lock"},
             l # "notify", holder = p, op' = op \/ EndOp(p),
             UNCHANGED sessionVars,
             l = "writing" => Writable /\ writeSession' = activeGen
      PROVE  SessionInv'
  <2>1. SessionShape'
    BY <1>1, <1>2 DEF SessionInv, SessionShape, Between, sessionVars, EndOp
  <2>2. WriteSessionStable'
    BY <1>1, <1>2 DEF SessionInv, SessionShape, WriteSessionStable, SessionChanged,
       sessionVars, Writable
  <2>. QED BY <2>1, <2>2 DEF SessionInv
<1>3. CASE SendStatusRequest(p)
  BY <1>2, <1>3 DEF SendStatusRequest, Inside
<1>4. CASE Submit(p)
  <2>1. PICK l \in {"writing", "idle"} :
            /\ pc' = [pc EXCEPT ![p] = l] /\ holder = p /\ UNCHANGED sessionVars
            /\ op' = op \/ EndOp(p)
            /\ l = "writing" => Writable /\ writeSession' = activeGen
    BY <1>4 DEF Submit, Inside
  <2>. QED BY <1>2, <2>1
<1>5. CASE Decline(p)
  <2>1. /\ pc' = [pc EXCEPT ![p] = "idle"] /\ holder = p
        /\ EndOp(p) /\ UNCHANGED sessionVars
    BY <1>5 DEF Decline, Inside
  <2>. QED BY <1>2, <2>1
<1>6. CASE DisconnectClient(p)
  <2>1. /\ holder = p /\ pc[p] = "lock" /\ op[p] = "disconnect"
        /\ client' = 0 /\ activeGen' = 0 /\ ~connected' /\ UNCHANGED gen
        /\ \E l \in {"disc", Resting(p)}, m \in {"idle", pc[Refresh]} :
               pc' = [pc EXCEPT ![Refresh] = m, ![p] = l]
    BY <1>6, <1>1, Zenon DEF DisconnectClient, Inside
  <2>2. Resting(p) \notin {"writing", "notify"}
    BY DEF Resting
  <2>3. \A x \in Procs : pc'[x] \notin {"writing", "notify"}
    BY <1>1, <2>1, <2>2
  <2>4. SessionShape'
    BY <1>1, <2>1, <2>3 DEF SessionShape
  <2>. QED BY <2>3, <2>4 DEF SessionInv, WriteSessionStable
<1>7. CASE WriteSucceeds(p)
  <2>1. /\ holder = p /\ p # Conn /\ UNCHANGED sessionVars
        /\ pc' = [pc EXCEPT ![p] = "idle", ![Refresh] = "sleep"]
        /\ op' = [op EXCEPT ![Refresh] = "none", ![p] = "none"]
    BY <1>1, <1>7 DEF WriteSucceeds, Resumes, HoldingPCs
  <2>2. SessionShape'
    BY <1>1, <2>1 DEF SessionInv, SessionShape, Between, sessionVars
  <2>3. \A x \in Procs : pc'[x] # "writing"
    BY <1>1, <2>1
  <2>. QED BY <2>2, <2>3 DEF SessionInv, WriteSessionStable
<1>8. CASE WriteReturns(p) \/ WriteFails(p)
  <2>1. PICK l \in {"idle", "abort"} :
            /\ holder = p /\ pc' = [pc EXCEPT ![p] = l]
            /\ EndOp(p) /\ UNCHANGED sessionVars
    BY <1>1, <1>8 DEF WriteReturns, WriteFails, Resumes, HoldingPCs
  <2>. QED BY <1>2, <2>1
<1>9. CASE Disconnected(p)
  <2>1. /\ holder = p /\ pc[p] = "disc" /\ UNCHANGED <<op, sessionVars>>
        /\ pc' = [pc EXCEPT ![p] = Resting(p)]
    BY <1>1, <1>9 DEF Disconnected, Resumes, HoldingPCs
  <2>2. Resting(p) \notin {"writing", "notify", "disc", "estab", "lock"}
    BY DEF Resting
  <2>3. SessionShape'
    <3>1. Between' => Between
      BY <1>1, <2>1, <2>2 DEF Between
    <3>2. pc'[Conn] = "notify" => pc[Conn] = "notify"
      BY <1>1, <2>1, <2>2
    <3>. QED BY <2>1, <3>1, <3>2 DEF SessionInv, SessionShape, sessionVars
  <2>4. \A x \in Procs : pc'[x] # "writing"
    BY <1>1, <2>1, <2>2
  <2>. QED BY <2>3, <2>4 DEF SessionInv, WriteSessionStable
<1>. QED BY <1>3, <1>4, <1>5, <1>6, <1>7, <1>8, <1>9 DEF Run

LEMMA ConnStepSession ==
    ASSUME TypeOK, LockInv, SessionInv, ConnStep
    PROVE  SessionInv'
<1>1. /\ pc \in [Procs -> PCs] /\ op \in [Procs -> Ops] /\ Conn \in Procs /\ gen \in Nat
      /\ \A x \in Procs : pc[x] \in {"writing", "notify"} => holder = x
  BY ProcsFacts, OnlyHolderWrites DEF TypeOK, TaskType, SessionType
(* The connection task stops writing or subscribing, or did neither. *)
<1>2. ASSUME NEW l, pc' = [pc EXCEPT ![Conn] = l], l \notin {"writing", "notify"},
             UNCHANGED <<gen, activeGen, client>>,
             ~Between' \/ (Between /\ ~connected'),
             holder # Conn => connected' = connected /\ writeSession' = writeSession
      PROVE  SessionInv'
  <2>1. SessionShape'
    BY <1>1, <1>2 DEF SessionInv, SessionShape
  <2>2. WriteSessionStable'
    BY <1>1, <1>2 DEF SessionInv, WriteSessionStable, SessionChanged
  <2>. QED BY <2>1, <2>2 DEF SessionInv
<1>3. CASE StartAttempt
  <2>1. /\ ~connected /\ client = 0 /\ pc' = [pc EXCEPT ![Conn] = "estab"]
        /\ UNCHANGED <<op, connected, client, writeSession>>
        /\ gen' = gen + 1 /\ activeGen' = gen + 1
    BY <1>3 DEF StartAttempt, Resumes, SessionInv, SessionShape, Between
  <2>2. SessionShape'
    BY <1>1, <2>1 DEF SessionShape
  <2>3. \A x \in Procs : pc'[x] # "writing"
    BY <1>1, <2>1 DEF SessionInv, WriteSessionStable, SessionChanged
  <2>. QED BY <2>2, <2>3 DEF SessionInv, WriteSessionStable
<1>4. CASE Install
  <2>1. /\ holder = Conn /\ ~connected /\ pc[Conn] = "lock"
        /\ pc' = [pc EXCEPT ![Conn] = "notify"] /\ client' = gen
        /\ UNCHANGED <<gen, activeGen, connected>>
    BY <1>4 DEF Install, Inside, SessionInv, SessionShape, Between
  <2>2. SessionShape'
    BY <1>1, <2>1 DEF SessionInv, SessionShape, Between
  <2>3. \A x \in Procs : pc'[x] # "writing"
    BY <1>1, <2>1
  <2>. QED BY <2>2, <2>3 DEF SessionInv, WriteSessionStable
<1>5. CASE Subscribed
  <2>1. holder = Conn /\ client = gen /\ pc[Conn] = "notify"
    BY <1>1, <1>5 DEF Subscribed, Resumes, SessionInv, SessionShape
  <2>2. CASE /\ client \in links /\ activeGen # 0 /\ writeSession' = activeGen
             /\ connected' /\ pc' = [pc EXCEPT ![Conn] = "writing"]
             /\ UNCHANGED <<gen, activeGen, client>>
    <3>1. SessionShape'
      BY <1>1, <2>1, <2>2 DEF SessionInv, SessionShape, Between
    <3>2. WriteSessionStable'
      BY <1>1, <2>1, <2>2 DEF SessionInv, SessionShape, WriteSessionStable, SessionChanged
    <3>. QED BY <3>1, <3>2 DEF SessionInv
  <2>3. CASE /\ pc' = [pc EXCEPT ![Conn] = "abort"]
             /\ UNCHANGED <<gen, activeGen, client>>
    <3>1. ~Between'
      BY <1>1, <2>3 DEF Between
    <3>2. "abort" \notin {"writing", "notify"}
      OBVIOUS
    <3>. QED BY <1>2, <2>1, <2>3, <3>1, <3>2, Zenon
  <2>. QED BY <1>5, <2>2, <2>3 DEF Subscribed
<1>6. CASE EstablishFails \/ Abort \/ SessionEnds
  <2>1. /\ pc' = [pc EXCEPT ![Conn] = "lock"] /\ op' = [op EXCEPT ![Conn] = "disconnect"]
        /\ UNCHANGED <<gen, activeGen, client, connected, writeSession>>
    BY <1>6 DEF EstablishFails, Abort, SessionEnds, Acquire, sessionVars
  <2>2. ~Between'
    BY <1>1, <2>1 DEF Between
  <2>3. /\ UNCHANGED <<gen, activeGen, client>>
        /\ holder # Conn => connected' = connected /\ writeSession' = writeSession
        /\ "lock" \notin {"writing", "notify"}
    BY <2>1
  <2>. QED BY <1>2, <2>1, <2>2, <2>3, Zenon
<1>7. CASE Established
  <2>1. /\ pc[Conn] = "estab" /\ UNCHANGED <<sessionVars, writeSession>>
        /\ \E l \in {"abort", "lock"} : pc' = [pc EXCEPT ![Conn] = l]
    BY <1>7 DEF Established, Resumes, Acquire
  <2>2. Between /\ ~connected
    BY <2>1 DEF SessionInv, SessionShape, Between
  <2>. QED BY <1>2, <2>1, <2>2 DEF sessionVars
<1>8. CASE SubscribeFails
  <2>1. /\ pc' = [pc EXCEPT ![Conn] = "abort"] /\ UNCHANGED <<sessionVars, writeSession>>
    BY <1>8 DEF SubscribeFails
  <2>2. ~Between'
    BY <1>1, <2>1 DEF Between
  <2>3. /\ UNCHANGED <<gen, activeGen, client>>
        /\ holder # Conn => connected' = connected /\ writeSession' = writeSession
        /\ "abort" \notin {"writing", "notify"}
    BY <2>1 DEF sessionVars
  <2>. QED BY <1>2, <2>1, <2>2, <2>3, Zenon
<1>9. CASE FirstRequestSent
  <2>1. /\ holder = Conn /\ UNCHANGED sessionVars
        /\ \E l \in {"abort", "session", "lock"} :
               /\ pc' = [pc EXCEPT ![Conn] = l]
               /\ l = "lock" => op' = [op EXCEPT ![Conn] = "disconnect"]
    <3>1. holder = Conn /\ UNCHANGED sessionVars
      BY <1>1, <1>9 DEF FirstRequestSent, Resumes
    <3>2. CASE Reacquire(Conn, "disconnect", After(Conn))
      BY <3>1, <3>2 DEF Reacquire
    <3>3. CASE pc' = [pc EXCEPT ![Conn] = IF SessionChanged THEN "abort" ELSE "session"]
      BY <3>1, <3>3
    <3>. QED BY <1>9, <3>2, <3>3 DEF FirstRequestSent, Opened
  <2>2. ~Between'
    BY <1>1, <2>1 DEF Between
  <2>3. PICK l \in {"abort", "session", "lock"} : pc' = [pc EXCEPT ![Conn] = l]
    BY <2>1
  <2>4. UNCHANGED <<gen, activeGen, client>> /\ l \notin {"writing", "notify"}
    BY <2>1 DEF sessionVars
  <2>. QED BY <1>2, <2>1, <2>2, <2>3, <2>4, Zenon
<1>. QED BY <1>3, <1>4, <1>5, <1>6, <1>7, <1>8, <1>9 DEF ConnStep

(* Steps that neither move a writer's session nor end a critical section of the
   connection task. *)
LEMMA OtherSession ==
    ASSUME TypeOK, LockInv, SessionInv,
           \/ \E p \in Callers : Reconnect(p) \/ \E o \in Calls : Call(p, o)
           \/ RefreshFires \/ StopBegins \/ StopGathered \/ Callback
           \/ \E p \in Procs : Completes(p)
           \/ \E s \in 1..MaxSessions : RequestDisconnect(s)
           \/ UNCHANGED vars
    PROVE  SessionInv'
<1>1. /\ pc \in [Procs -> PCs] /\ op \in [Procs -> Ops] /\ Conn \in Procs
      /\ Stop \in Procs /\ Stop # Conn
  BY ProcsFacts DEF TypeOK, TaskType
<1>2. ASSUME UNCHANGED <<pc, op, gen, activeGen, client, connected, writeSession>>
      PROVE  SessionInv'
  BY <1>2 DEF SessionInv, SessionShape, Between, WriteSessionStable, SessionChanged
<1>3. ASSUME NEW p \in Procs \ {Conn}, NEW l \in {"lock", "gather"}, NEW o,
             pc' = [pc EXCEPT ![p] = l], op' = [op EXCEPT ![p] = o],
             UNCHANGED <<gen, activeGen, client, connected, writeSession>>
      PROVE  SessionInv'
  BY <1>1, <1>3 DEF SessionInv, SessionShape, Between, WriteSessionStable, SessionChanged
<1>4. ASSUME NEW p \in Callers, Reconnect(p) \/ \E o \in Calls : Call(p, o)
      PROVE  SessionInv'
  <2>1. p \in Procs \ {Conn}
    BY ClientAssumption DEF Procs
  <2>2. /\ pc' = [pc EXCEPT ![p] = "lock"] /\ \E o : op' = [op EXCEPT ![p] = o]
        /\ UNCHANGED <<gen, activeGen, client, connected, writeSession>>
    BY <1>4 DEF Reconnect, Call, Acquire, sessionVars
  <2>. QED BY <1>3, <2>1, <2>2
<1>5. CASE RefreshFires
  <2>1. /\ pc' = [pc EXCEPT ![Refresh] = "lock"] /\ op' = [op EXCEPT ![Refresh] = "status"]
        /\ UNCHANGED <<gen, activeGen, client, connected, writeSession>>
    BY <1>5 DEF RefreshFires, Acquire, sessionVars
  <2>. QED BY <1>3, <2>1, ProcsFacts
<1>6. CASE StopBegins
  <2>1. /\ pc' = [pc EXCEPT ![Stop] = "gather"] /\ op' = [op EXCEPT ![Stop] = op[Stop]]
        /\ UNCHANGED <<gen, activeGen, client, connected, writeSession>>
    BY <1>1, <1>6 DEF StopBegins, sessionVars
  <2>. QED BY <1>1, <1>3, <2>1
<1>7. CASE StopGathered
  <2>1. /\ pc' = [pc EXCEPT ![Stop] = "lock"] /\ op' = [op EXCEPT ![Stop] = "disconnect"]
        /\ UNCHANGED <<gen, activeGen, client, connected, writeSession>>
    BY <1>7 DEF StopGathered, Acquire, sessionVars
  <2>. QED BY <1>1, <1>3, <2>1
<1>8. CASE \/ Callback \/ \E p \in Procs : Completes(p)
           \/ \E s \in 1..MaxSessions : RequestDisconnect(s)
           \/ UNCHANGED vars
  BY <1>2, <1>8 DEF Callback, LinkDrops, Notification, Stale, DeadlinePasses, Completes,
     RequestDisconnect, vars, taskVars, sessionVars
<1>. QED BY <1>4, <1>5, <1>6, <1>7, <1>8

LEMMA CancelSession ==
    ASSUME TypeOK, LockInv, SessionInv,
           (\E p \in Procs : Deliver(p)) \/ CancelConnection
    PROVE  SessionInv'
<1>1. /\ pc \in [Procs -> PCs] /\ op \in [Procs -> Ops] /\ Conn \in Procs
      /\ \A x \in Procs : pc[x] \in {"writing", "notify"} => holder = x
      /\ \A x \in Procs : pc[x] = "disc" => holder = x
  BY ProcsFacts, OnlyHolderWrites DEF TypeOK, TaskType, LockInv, LockDiscipline, HoldingPCs
<1>2. ASSUME NEW p \in Procs, Deliver(p)
      PROVE  SessionInv'
  <2>1. /\ UNCHANGED sessionVars /\ pc' = [pc EXCEPT ![p] = Cancelled(p)]
        /\ op' = op \/ EndOp(p)
        /\ writeSession' = writeSession \/ pc[p] = "writing"
    BY <1>2 DEF Deliver, CancelResting, CancelWaiting, CancelWriting, CancelDisconnect
  <2>2. Cancelled(p) \in {"done", "idle"}
    BY DEF Cancelled
  <2>3. SessionShape'
    BY <1>1, <2>1, <2>2 DEF SessionInv, SessionShape, Between, sessionVars, EndOp
  <2>4. WriteSessionStable'
    BY <1>1, <2>1, <2>2 DEF SessionInv, WriteSessionStable, SessionChanged, sessionVars
  <2>. QED BY <2>3, <2>4 DEF SessionInv
<1>3. CASE CancelConnection
  <2>1. /\ UNCHANGED sessionVars /\ pc' = [pc EXCEPT ![Conn] = "lock"]
        /\ op' = [op EXCEPT ![Conn] = "disconnect"]
    <3>1. pc' = [pc EXCEPT ![Conn] = "lock"] \/ (UNCHANGED pc /\ Contains(waiters, Conn))
      BY <1>3 DEF CancelConnection, Acquire, Reacquire
    <3>2. Contains(waiters, Conn) => pc[Conn] = "lock"
      BY DEF Contains, LockInv, LockDiscipline, TypeOK, LockType
    <3>3. UNCHANGED sessionVars /\ op' = [op EXCEPT ![Conn] = "disconnect"]
      BY <1>3 DEF CancelConnection, Acquire, Reacquire
    <3>. QED BY <1>1, <3>1, <3>2, <3>3
  <2>2. writeSession' = writeSession \/ pc[Conn] = "writing"
    BY <1>3 DEF CancelConnection
  <2>3. SessionShape'
    BY <1>1, <2>1 DEF SessionInv, SessionShape, Between, sessionVars
  <2>4. WriteSessionStable'
    BY <1>1, <2>1, <2>2 DEF SessionInv, WriteSessionStable, SessionChanged, sessionVars
  <2>. QED BY <2>3, <2>4 DEF SessionInv
<1>. QED BY <1>2, <1>3

LEMMA SessionStep ==
    ASSUME TypeOK, LockInv, SessionInv, [Next]_vars
    PROVE  SessionInv'
<1>1. cancelReq \subseteq Procs
  BY DEF TypeOK, SessionType
<1>2. CASE LoopStep
  BY <1>2, RunSession, ConnStepSession, OtherSession DEF LoopStep
<1>3. CASE Stopping
  BY <1>1, <1>3, OtherSession, CancelSession DEF Stopping
<1>. QED BY <1>2, <1>3, OtherSession, CancelSession DEF Next

LEMMA SessionInit == Init => SessionInv
BY ProcsFacts DEF Init, SessionInv, SessionShape, Between, WriteSessionStable

(* While a GATT write is in progress, the session it was started in stays the
   installed and active one: no task replaces the client or activates another
   generation under a write, for any number of callers and sessions (client.py,
   _write_frame_unlocked and _activate_session_generation). *)
THEOREM WriteKeepsSession == Spec => []WriteSessionStable
<1>1. Init => TypeOK /\ LockInv /\ SessionInv
  BY TypeInit, LockInit, SessionInit
<1>2. (TypeOK /\ LockInv /\ SessionInv) /\ [Next]_vars => (TypeOK /\ LockInv /\ SessionInv)'
  BY TypeStep, LockStep, SessionStep
<1>3. SessionInv => WriteSessionStable
  BY DEF SessionInv
<1>. QED BY <1>1, <1>2, <1>3, PTL DEF Spec
=============================================================================
