------------------------- MODULE ModelIdentityProofs -------------------------
(* Proofs about ModelIdentity (I!): for any families and any number of sessions, *)
(* the conflict of the client is the stored one, and what it may write rests   *)
(* on settings of the session and on a name that nothing contradicts.          *)
EXTENDS MCStation, TLAPS

LEMMA Parameters ==
    /\ NoModel \notin I!Families
    /\ Rejected \cap (Writable \cup ReadOnly) = {}
    /\ MaxSessions \in Nat
  BY IdentityParameters DEF I!IdentityAssumption

Whos    == [identity : (I!Families \cup {NoModel}) \ Rejected, conflict : BOOLEAN,
            candidate : I!Families \cup {NoModel}, heardIn : 0 .. MaxSessions]
Storeds == [identity : I!Families \cup {NoModel}, conflict : BOOLEAN]

(* The settings that count are those of the session.                          *)
Evidenced ==
    /\ sessionRevision # "none" => reportedIn = generation /\ revision = sessionRevision
    /\ phase \in {"notify", "up"} /\ recent => reportedIn = generation

(* A client w that last heard the name n: only a conflict has a candidate,    *)
(* which is that name; without a conflict the identity is that name.          *)
Heard(w, n) ==
    /\ w.candidate = NoModel \/ (w.conflict /\ n = w.candidate)
    /\ n \in {NoModel, w.identity} \/ w.conflict \/ w.identity = NoModel

(* What is stored, s, of a client w.                                          *)
Remembered(w, s) ==
    /\ s.conflict = w.conflict
    /\ s.identity \in {NoModel, w.identity}
       \/ (s.identity \in Rejected /\ w.conflict /\ w.identity = NoModel)

IInv == /\ I!TypeOK /\ Evidenced /\ Heard(who, named)
        /\ ~edited => Remembered(who, stored)

-----------------------------------------------------------------------------
(* What fresh settings do: nothing, confirm the candidate, store the identity. *)
LEMMA SettleOutcome ==
    ASSUME NEW w, NEW s, NEW fresh \in BOOLEAN
    PROVE  \/ I!Settle(w, s, fresh) = <<w, s>>
           \/ /\ w.candidate # NoModel /\ I!Confirms(w) /\ fresh
              /\ I!Settle(w, s, fresh)
                   = <<I!Confirmed(w), [identity |-> w.candidate, conflict |-> FALSE]>>
           \/ /\ w.candidate = NoModel /\ w.identity # NoModel
              /\ I!Settle(w, s, fresh) = <<w, [s EXCEPT !.identity = w.identity]>>
  BY DEF I!Settle

(* Settling keeps what is known of the client and of what is stored.          *)
LEMMA SettleKeeps ==
    ASSUME NEW w \in Whos, NEW s \in Storeds, NEW n, NEW fresh \in BOOLEAN,
           Heard(w, n),
           NEW w2, NEW s2, I!Settle(w, s, fresh) = <<w2, s2>>
    PROVE  /\ w2 \in Whos /\ s2 \in Storeds /\ Heard(w2, n)
           /\ Remembered(w, s) => Remembered(w2, s2)
  <1>1. CASE w2 = w /\ s2 = s
    BY <1>1
  <1>2. CASE /\ w.candidate # NoModel /\ I!Confirms(w)
             /\ w2 = I!Confirmed(w) /\ s2 = [identity |-> w.candidate, conflict |-> FALSE]
    <2>1. /\ w.candidate \in (I!Families \cup {NoModel}) \ Rejected /\ n = w.candidate
          /\ MaxSessions \in Nat
      BY <1>2, Parameters DEF I!Confirms, I!Supported, Whos, Heard
    <2>2. w2.identity = w.candidate /\ w2.conflict = FALSE /\ w2.candidate = NoModel
          /\ s2.identity = w.candidate /\ s2.conflict = FALSE
      BY <1>2 DEF I!Confirmed
    <2>3. w2 \in Whos
      BY <1>2, <2>1 DEF I!Confirmed, Whos
    <2>4. s2 \in Storeds
      BY <1>2, <2>1 DEF Storeds
    <2> QED
      BY <2>1, <2>2, <2>3, <2>4 DEF Heard, Remembered
  <1>3. CASE w2 = w /\ s2 = [s EXCEPT !.identity = w.identity]
    <2>1. s2 \in Storeds /\ s2.identity = w.identity /\ s2.conflict = s.conflict
      BY <1>3 DEF Storeds, Whos
    <2> QED
      BY <1>3, <2>1 DEF Remembered
  <1> QED
    BY <1>1, <1>2, <1>3, SettleOutcome

(* The same for the step that applies it.                                     *)
LEMMA BecomeKeeps ==
    ASSUME NEW w \in Whos, NEW n, NEW fresh \in BOOLEAN,
           stored \in Storeds, edited \in BOOLEAN, Heard(w, n),
           ~edited => Remembered(w, stored),
           I!Become(I!Settle(w, stored, fresh))
    PROVE  /\ who' \in Whos /\ stored' \in Storeds /\ edited' = edited
           /\ Heard(who', n) /\ (~edited' => Remembered(who', stored'))
  <1>1. PICK w2, s2 : I!Settle(w, stored, fresh) = <<w2, s2>>
    BY SettleOutcome
  <1>2. who' = w2 /\ edited' = edited /\ stored' = IF edited THEN stored ELSE s2
    BY <1>1 DEF I!Become
  <1>3. /\ w2 \in Whos /\ s2 \in Storeds /\ Heard(w2, n)
        /\ Remembered(w, stored) => Remembered(w2, s2)
    BY <1>1, SettleKeeps
  <1> QED
    BY <1>2, <1>3

-----------------------------------------------------------------------------
(* What TypeOK says of the session and its settings.                          *)
SessionType ==
    /\ generation \in 0 .. MaxSessions /\ active \in {0, generation}
    /\ phase \in {"idle", "attempt", "notify", "up"}
    /\ {dropping, recent, edited} \subseteq BOOLEAN
    /\ {revision, sessionRevision} \subseteq {"none", "known", "unknown"}
    /\ namedIn \in 0 .. generation + 1 /\ reportedIn \in 0 .. generation

LEMMA Typing == I!TypeOK <=> /\ who \in Whos /\ stored \in Storeds /\ SessionType
                           /\ named \in I!Families \cup {NoModel}
  BY DEF I!TypeOK, Whos, Storeds, SessionType

(* A new client of a stored entry.                                            *)
LEMMA ClientConsistent ==
    ASSUME NEW s \in Storeds
    PROVE  /\ I!Client(s) \in Whos /\ I!Entry(s) \in Storeds
           /\ Remembered(I!Client(s), I!Entry(s))
           /\ I!Client(s).candidate = NoModel
  <1>1. I!Client(s) \in Whos
    <2>1. (IF I!Condemned(s) THEN NoModel ELSE s.identity)
            \in (I!Families \cup {NoModel}) \ Rejected
      BY Parameters DEF I!Condemned, Storeds, I!Families
    <2>2. (s.conflict \/ I!Condemned(s)) \in BOOLEAN
      OBVIOUS
    <2>3. 0 \in 0 .. MaxSessions
      BY Parameters
    <2> QED
      BY <2>1, <2>2, <2>3 DEF I!Client, Whos
  <1>2. I!Entry(s) \in Storeds
    BY DEF I!Entry, I!Condemned, Storeds
  <1>3. /\ I!Entry(s).identity = s.identity
        /\ I!Entry(s).conflict = (s.conflict \/ I!Condemned(s))
    BY DEF I!Entry, Storeds
  <1> QED
    BY <1>1, <1>2, <1>3 DEF I!Client, I!Condemned, Remembered, Storeds

LEMMA InitIInv == I!Init => IInv
  <1> SUFFICES ASSUME I!Init PROVE IInv
    OBVIOUS
  <1>1. PICK f \in I!Families \cup {NoModel} :
          stored = I!Entry([identity |-> f, conflict |-> FALSE])
    BY DEF I!Init
  <1>2. [identity |-> f, conflict |-> FALSE] \in Storeds
    BY DEF Storeds
  <1>3. stored \in Storeds
    BY <1>1, <1>2, ClientConsistent
  <1>4. /\ who \in Whos /\ Remembered(who, I!Entry(stored)) /\ who.candidate = NoModel
    BY <1>3, ClientConsistent DEF I!Init
  <1>5. I!Entry(stored) = stored
    BY <1>1, <1>2, <1>3 DEF I!Entry, I!Condemned, Storeds
  <1>6. SessionType
    <2>1. {dropping, recent, edited} \subseteq BOOLEAN
      BY DEF I!Init
    <2>2. generation \in 0 .. MaxSessions
      BY Parameters DEF I!Init
    <2> QED
      BY <2>1, <2>2 DEF I!Init, SessionType
  <1>7. Heard(who, named)
    BY <1>4 DEF I!Init, Heard
  <1>8. I!TypeOK
    BY <1>3, <1>4, <1>6, Typing DEF I!Init
  <1> QED
    BY <1>4, <1>5, <1>7, <1>8 DEF IInv, I!Init, Evidenced

-----------------------------------------------------------------------------
(* A contradiction latches before it settles nothing, or settles in conflict. *)
LEMMA ContradictKeeps ==
    ASSUME IInv, NEW f \in I!Families, I!Contradict(f), named' = f
    PROVE  /\ who' \in Whos /\ stored' \in Storeds /\ edited' = edited
           /\ Heard(who', named') /\ (~edited' => Remembered(who', stored'))
  <1> DEFINE w == [who EXCEPT !.candidate = f, !.heardIn = active, !.conflict = TRUE]
  <1>1. /\ who \in Whos /\ stored \in Storeds /\ edited \in BOOLEAN
        /\ active \in 0 .. MaxSessions /\ who.identity # NoModel
    BY Typing, Parameters DEF IInv, SessionType, I!Contradict
  <1>2. w \in Whos /\ w.candidate = f /\ w.conflict = TRUE /\ w.identity = who.identity
    BY <1>1 DEF Whos
  <1>3. Heard(w, f)
    BY <1>2 DEF Heard
  <1>0. I!Fresh \in BOOLEAN
    BY DEF I!Fresh
  <1>4. PICK w2, s2 : I!Settle(w, stored, I!Fresh) = <<w2, s2>>
    <2> HIDE DEF w
    <2> QED
      BY <1>0, SettleOutcome
  <1>5. /\ w2 \in Whos /\ s2 \in Storeds /\ Heard(w2, f)
        /\ Remembered(w, stored) => Remembered(w2, s2)
    <2> HIDE DEF w
    <2> QED
      BY <1>1, <1>2, <1>3, <1>4, <1>0, SettleKeeps
  <1>6. /\ who' = w2 /\ edited' = edited
        /\ stored' = IF edited THEN stored
                     ELSE IF w2.conflict THEN I!Latched(s2) ELSE s2
    BY <1>4 DEF I!Contradict, I!Become
  <1>7. CASE who.conflict
    <2>1. ~edited => Remembered(w, stored)
      BY <1>2, <1>7 DEF IInv, Remembered
    <2>2. I!Latched(s2) = s2
      BY <1>7 DEF I!Latched
    <2> QED
      BY <1>1, <1>5, <1>6, <2>1, <2>2
  <1>8. CASE ~who.conflict
    <2>1. f # who.identity /\ ~I!Confirms(w) /\ w.candidate # NoModel
      BY <1>1, <1>2, <1>8, Parameters DEF I!Contradict, I!Confirms
    <2>2. w2 = w /\ s2 = stored
      <3> HIDE DEF w
      <3> QED
        BY <1>4, <1>0, <2>1, SettleOutcome
    <2>3. I!Latched(stored) \in Storeds /\ I!Latched(stored).conflict = TRUE
          /\ I!Latched(stored).identity = stored.identity
      BY <1>1, <1>8 DEF I!Latched, Storeds
    <2>4. ~edited => stored.identity \in {NoModel, who.identity}
      BY <1>8 DEF IInv, Remembered
    <2> QED
      BY <1>1, <1>2, <1>3, <1>6, <2>2, <2>3, <2>4 DEF Remembered
  <1> QED
    BY <1>7, <1>8

(* Every observation keeps what is known of the client.                       *)
LEMMA ObserveKeeps ==
    ASSUME IInv, NEW f \in I!Families, I!Observe(f)
    PROVE  /\ who' \in Whos /\ stored' \in Storeds /\ edited' = edited
           /\ Heard(who', named') /\ (~edited' => Remembered(who', stored'))
  <1>1. /\ who \in Whos /\ stored \in Storeds /\ edited \in BOOLEAN
        /\ active \in 0 .. MaxSessions /\ named' = f /\ Heard(who, named)
        /\ ~edited => Remembered(who, stored)
    BY Typing, Parameters DEF IInv, SessionType, I!Observe
  <1>2. CASE I!Adopt(f)
    <2> DEFINE w == [who EXCEPT !.identity = f]
    <2>1. /\ w \in Whos /\ w.identity = f /\ w.conflict = FALSE
          /\ w.candidate = NoModel /\ who.identity = NoModel
      BY <1>1, <1>2 DEF I!Adopt, I!Supported, Whos, Heard
    <2>2. Heard(w, f)
      BY <2>1 DEF Heard
    <2>3. ~edited => Remembered(w, stored)
      BY <1>1, <1>2, <2>1 DEF I!Adopt, Remembered, Whos
    <2>4. I!Become(I!Settle(w, stored, I!Fresh)) /\ I!Fresh \in BOOLEAN
      BY <1>2 DEF I!Adopt, I!Fresh
    <2> HIDE DEF w
    <2> QED
      BY <1>1, <2>1, <2>2, <2>3, <2>4, BecomeKeeps
  <1>3. CASE I!Refuse(f)
    <2> DEFINE w == [who EXCEPT !.candidate = NoModel, !.heardIn = 0, !.conflict = TRUE]
    <2>1. 0 \in 0 .. MaxSessions
      BY Parameters
    <2>2. /\ w \in Whos /\ w.conflict = TRUE /\ w.candidate = NoModel
          /\ w.identity = NoModel /\ who.identity = NoModel
      BY <1>1, <1>3, <2>1 DEF I!Refuse, Whos
    <2>3. /\ who' = w /\ edited' = edited
          /\ stored' = IF edited THEN stored ELSE I!Latched(stored)
      BY <1>3 DEF I!Refuse, I!Become
    <2>4. /\ I!Latched(stored) \in Storeds
          /\ I!Latched(stored).identity = stored.identity
          /\ ~edited => I!Latched(stored).conflict = TRUE
      BY <1>1 DEF I!Latched, Storeds, Remembered
    <2>5. Heard(w, f)
      BY <2>2 DEF Heard
    <2>6. ~edited => Remembered(w, I!Latched(stored))
      BY <1>1, <2>2, <2>4 DEF Remembered
    <2> HIDE DEF w
    <2> QED
      BY <1>1, <2>2, <2>3, <2>4, <2>5, <2>6
  <1>4. CASE I!Reconsider(f)
    <2> DEFINE w == [who EXCEPT !.candidate = f, !.heardIn = active]
    <2>1. /\ w \in Whos /\ w.candidate = f /\ w.conflict = who.conflict
          /\ w.identity = who.identity /\ who.conflict
      BY <1>1, <1>4 DEF I!Reconsider, Whos
    <2>2. Heard(w, f)
      BY <2>1 DEF Heard
    <2>3. ~edited => Remembered(w, stored)
      BY <1>1, <2>1 DEF Remembered
    <2>4. I!Become(I!Settle(w, stored, I!Fresh)) /\ I!Fresh \in BOOLEAN
      BY <1>4 DEF I!Reconsider, I!Fresh
    <2> HIDE DEF w
    <2> QED
      BY <1>1, <2>1, <2>2, <2>3, <2>4, BecomeKeeps
  <1>5. CASE I!Contradict(f)
    BY <1>1, <1>5, ContradictKeeps
  <1>6. CASE I!Repeat(f)
    BY <1>1, <1>6 DEF I!Repeat, I!entry, Heard, Whos
  <1> QED
    BY <1>2, <1>3, <1>4, <1>5, <1>6 DEF I!Observe

-----------------------------------------------------------------------------
(* Every step keeps the invariant.                                            *)
LEMMA StepIInv == IInv /\ [I!Next]_(I!vars) => IInv'
  <1> SUFFICES ASSUME IInv, [I!Next]_(I!vars) PROVE IInv'
    OBVIOUS
  <1>1. /\ who \in Whos /\ stored \in Storeds /\ SessionType
        /\ named \in I!Families \cup {NoModel} /\ Heard(who, named) /\ Evidenced
        /\ ~edited => Remembered(who, stored)
    BY Typing DEF IInv
  <1>2. ASSUME /\ who' \in Whos /\ stored' \in Storeds /\ SessionType'
               /\ named' \in I!Families \cup {NoModel} /\ Heard(who', named') /\ Evidenced'
               /\ ~edited' => Remembered(who', stored')
        PROVE  IInv'
    <2>1. I!TypeOK'
      BY <1>2 DEF I!TypeOK, Whos, Storeds, SessionType
    <2> QED
      BY <1>2, <2>1 DEF IInv, Heard, Remembered
  <1>3. ASSUME NEW f \in I!Families, I!Observe(f) PROVE IInv'
    <2>1. /\ who' \in Whos /\ stored' \in Storeds /\ edited' = edited
          /\ Heard(who', named') /\ (~edited' => Remembered(who', stored'))
      BY <1>3, ObserveKeeps
    <2>2. /\ named' = f /\ UNCHANGED <<I!session, I!settings>>
          /\ namedIn' = IF active = 0 THEN generation + 1 ELSE active
      BY <1>3 DEF I!Observe
    <2>3. namedIn' \in 0 .. generation + 1
      BY <1>1, <2>2, Parameters DEF SessionType
    <2>4. SessionType' /\ Evidenced'
      BY <1>1, <2>1, <2>2, <2>3 DEF SessionType, Evidenced, I!session, I!settings
    <2> QED
      BY <1>2, <2>1, <2>2, <2>4
  <1>4. CASE I!Activate
    <2>1. /\ generation + 1 \in 0 .. MaxSessions /\ reportedIn \in 0 .. generation + 1
          /\ namedIn \in 0 .. generation + 1 + 1
      BY <1>1, <1>4, Parameters DEF I!Activate, SessionType
    <2>2. {dropping', recent', edited'} \subseteq BOOLEAN
      BY <1>1, <1>4 DEF I!Activate, SessionType, I!entry
    <2>3. SessionType' /\ Evidenced'
      BY <1>1, <1>4, <2>1, <2>2 DEF I!Activate, SessionType, Evidenced, I!history
    <2>4. who' \in Whos /\ who'.identity = who.identity /\ who'.conflict = who.conflict
          /\ who'.candidate \in {NoModel, who.candidate}
      <3>1. 0 \in 0 .. MaxSessions /\ NoModel \in I!Families \cup {NoModel}
        BY Parameters
      <3>2. who' = I!Bound(who)
        BY <1>4 DEF I!Activate
      <3> QED
        BY <1>1, <2>1, <3>1, <3>2 DEF I!Bound, Whos
    <2>5. UNCHANGED <<stored, edited, named>>
      BY <1>4 DEF I!Activate, I!entry, I!history
    <2>6. Heard(who', named') /\ (~edited' => Remembered(who', stored'))
      BY <1>1, <2>4, <2>5 DEF Heard, Remembered
    <2> QED
      BY <1>1, <1>2, <2>3, <2>4, <2>5, <2>6
  <1>5. CASE I!Install \/ I!End \/ I!Overtaken \/ I!Ending \/ I!Age
    <2>1. UNCHANGED <<who, stored, edited, named>>
      BY <1>5 DEF I!Install, I!End, I!Overtaken, I!Ending, I!Age, I!entry, I!history
    <2>2. {dropping', recent', edited'} \subseteq BOOLEAN
      BY <1>1, <1>5 DEF I!Install, I!End, I!Overtaken, I!Ending, I!Age, SessionType, I!entry,
                        I!session, I!settings
    <2>3. SessionType' /\ Evidenced'
      BY <1>1, <1>5, <2>2 DEF I!Install, I!End, I!Overtaken, I!Ending, I!Age, SessionType,
                              Evidenced, I!session, I!settings, I!history
    <2> QED
      BY <1>1, <1>2, <2>1, <2>3
  <1>6. CASE I!Connected
    <2>1. /\ I!Become(I!Settle(who, stored, ~dropping /\ recent)) /\ phase' = "up"
          /\ UNCHANGED <<generation, active, dropping, I!settings, I!history>>
          /\ phase = "notify"
      BY <1>6 DEF I!Connected
    <2>2. (~dropping /\ recent) \in BOOLEAN /\ edited \in BOOLEAN
      BY <1>1 DEF SessionType
    <2>3. /\ who' \in Whos /\ stored' \in Storeds /\ edited' = edited
          /\ Heard(who', named) /\ (~edited' => Remembered(who', stored'))
      BY <1>1, <2>1, <2>2, BecomeKeeps
    <2>4. SessionType' /\ Evidenced' /\ named' = named
      BY <1>1, <2>1, <2>3 DEF SessionType, Evidenced, I!settings, I!history
    <2> QED
      BY <1>1, <1>2, <2>3, <2>4
  <1>7. ASSUME NEW r \in {"known", "unknown"}, I!Settings(r) PROVE IInv'
    <2>1. /\ I!Become(I!Settle(who, stored, phase = "up" /\ ~dropping))
          /\ UNCHANGED <<I!session, I!history>> /\ reportedIn' = generation
          /\ revision' = r /\ sessionRevision' = r /\ recent' = TRUE
      BY <1>7 DEF I!Settings
    <2>2. (phase = "up" /\ ~dropping) \in BOOLEAN /\ edited \in BOOLEAN
      BY <1>1 DEF SessionType
    <2>3. /\ who' \in Whos /\ stored' \in Storeds /\ edited' = edited
          /\ Heard(who', named) /\ (~edited' => Remembered(who', stored'))
      BY <1>1, <2>1, <2>2, BecomeKeeps
    <2>4. {dropping', recent', edited'} \subseteq BOOLEAN
      BY <1>1, <2>1, <2>3 DEF SessionType, I!session
    <2>5. reportedIn' \in 0 .. generation
      BY <1>1, <2>1, Parameters DEF SessionType
    <2>6. SessionType' /\ Evidenced' /\ named' = named
      BY <1>1, <2>1, <2>4, <2>5 DEF SessionType, Evidenced, I!session, I!history
    <2> QED
      BY <1>1, <1>2, <2>3, <2>6
  <1>8. CASE I!Edit
    <2>1. edited' = TRUE /\ UNCHANGED <<who, I!session, I!settings, I!history>>
      BY <1>8 DEF I!Edit
    <2>2. stored' \in Storeds
      <3> DEFINE offered == {stored.identity} \cup (I!Families \ Rejected)
      <3>1. stored.identity \in I!Families \cup {NoModel} /\ stored.conflict \in BOOLEAN
        BY <1>1 DEF Storeds
      <3>2. offered \subseteq I!Families \cup {NoModel}
        BY <3>1
      <3>3. \A f \in offered : [stored EXCEPT !.identity = f] \in Storeds
        BY <1>1, <3>2 DEF Storeds
      <3>4. \A f \in offered \cup {NoModel} : [identity |-> f, conflict |-> FALSE] \in Storeds
        BY <3>2 DEF Storeds
      <3>5. \/ \E f \in offered : stored' = [stored EXCEPT !.identity = f]
            \/ \E f \in offered \cup {NoModel} : stored' = [identity |-> f, conflict |-> FALSE]
        BY <1>8 DEF I!Edit
      <3> HIDE DEF offered
      <3> QED
        BY <3>3, <3>4, <3>5
    <2>3. {dropping', recent', edited'} \subseteq BOOLEAN
      BY <1>1, <2>1 DEF SessionType, I!session, I!settings
    <2>4. SessionType' /\ Evidenced' /\ named' = named
      BY <1>1, <2>1, <2>3 DEF SessionType, Evidenced, I!session, I!settings, I!history
    <2> QED
      BY <1>1, <1>2, <2>1, <2>2, <2>4
  <1>9. CASE I!Reload
    <2>1. /\ stored' = I!Entry(stored) /\ who' = I!Client(stored) /\ edited' = FALSE
          /\ named' = (IF edited THEN NoModel ELSE named) /\ I!NoSession
      BY <1>9 DEF I!Reload
    <2>2. /\ who' \in Whos /\ stored' \in Storeds /\ Remembered(who', stored')
          /\ who'.candidate = NoModel
      BY <1>1, <2>1, ClientConsistent
    <2>3. {dropping', recent', edited'} \subseteq BOOLEAN
      BY <2>1 DEF I!NoSession
    <2>4. 0 \in 0 .. MaxSessions /\ 0 \in 0 .. 0 /\ 0 \in 0 .. 0 + 1
      BY Parameters
    <2>5. SessionType' /\ Evidenced'
      BY <2>1, <2>3, <2>4 DEF SessionType, Evidenced, I!NoSession
    <2>6. Heard(who', named')
      <3>1. CASE edited
        BY <2>1, <2>2, <3>1 DEF Heard
      <3>2. CASE ~edited /\ ~who'.conflict /\ who'.identity # NoModel
        <4>1. /\ who'.identity = stored.identity /\ ~stored.conflict
              /\ stored.identity \notin Rejected
          BY <2>1, <3>2 DEF I!Client, I!Condemned
        <4>2. stored.identity = who.identity /\ ~who.conflict
          BY <1>1, <3>2, <4>1 DEF Remembered
        <4> QED
          BY <1>1, <2>1, <2>2, <3>2, <4>1, <4>2 DEF Heard
      <3>3. CASE who'.conflict \/ who'.identity = NoModel
        BY <2>2, <3>3 DEF Heard
      <3> QED
        BY <3>1, <3>2, <3>3
    <2> QED
      BY <1>1, <1>2, <2>1, <2>2, <2>5, <2>6
  <1>10. CASE UNCHANGED I!vars
    <2>1. UNCHANGED <<who, stored, edited, named>>
      BY <1>10 DEF I!vars, I!entry, I!history
    <2>2. SessionType' /\ Evidenced'
      BY <1>1, <1>10 DEF I!vars, SessionType, Evidenced, I!session, I!settings, I!entry, I!history
    <2> QED
      BY <1>1, <1>2, <2>1, <2>2
  <1> QED
    BY <1>3, <1>4, <1>5, <1>6, <1>7, <1>8, <1>9, <1>10 DEF I!Next

LEMMA InvariantIInv == I!Spec => []IInv
  BY InitIInv, StepIInv, PTL DEF I!Spec

(* TypeOK: every variable has its type; no rejected family is an identity.    *)
THEOREM IdentityTypeCorrect == I!Spec => []I!TypeOK
  BY InvariantIInv, PTL DEF IInv

(* ConflictStored: unless the entry has been edited, a restart finds the      *)
(* conflict that the client was in.                                           *)
THEOREM ConflictAlwaysStored == I!Spec => []I!ConflictStored
  <1>1. IInv => I!ConflictStored
    BY DEF IInv, Remembered, I!ConflictStored
  <1> QED
    BY <1>1, InvariantIInv, PTL

(* WritesVerified: what the client may write rests on settings of the session *)
(* with a verified revision, and on a name that no later one contradicts.     *)
THEOREM WritesAlwaysVerified == I!Spec => []I!WritesVerified
  <1>1. IInv => I!WritesVerified
    <2> SUFFICES ASSUME IInv, I!Authorized PROVE I!WritesVerified
      BY DEF I!WritesVerified
    <2>1. who.identity \in Writable /\ I!Evidence = "known" /\ ~who.conflict
      BY DEF I!Authorized, I!Capable, I!Verified
    <2>2. who.identity # NoModel
      BY <2>1, Parameters DEF I!Families
    <2>3. named \in {NoModel, who.identity}
      BY <2>1, <2>2 DEF IInv, Heard
    <2>4. reportedIn = generation /\ revision = "known"
      BY <2>1 DEF IInv, Evidenced, I!Evidence, I!Fresh
    <2> QED
      BY <2>1, <2>3, <2>4 DEF I!WritesVerified
  <1> QED
    BY <1>1, InvariantIInv, PTL

-----------------------------------------------------------------------------
(* A candidate counts for the session that the last name counts for, and a    *)
(* connection without an active session is ending.                            *)
Binding ==
    /\ who.candidate # NoModel =>
         \/ who.heardIn = 0 /\ active = 0 /\ namedIn = generation + 1
         \/ who.heardIn # 0 /\ who.heardIn = namedIn
    /\ active = 0 => phase = "idle" \/ dropping

(* What applying a settlement does to the client: nothing, unless fresh       *)
(* settings confirm its candidate.                                            *)
LEMMA BecomeOutcome ==
    ASSUME NEW w, NEW fresh \in BOOLEAN, I!Become(I!Settle(w, stored, fresh))
    PROVE  \/ who' = w
           \/ who' = I!Confirmed(w) /\ w.candidate # NoModel /\ I!Confirms(w) /\ fresh
  BY SettleOutcome DEF I!Become

(* What an observation does to a client in conflict.                          *)
LEMMA ObserveOutcome ==
    ASSUME IInv, NEW f \in I!Families, I!Observe(f)
    PROVE  \/ who'.conflict /\ who'.candidate = f /\ who'.heardIn = active
           \/ who'.candidate = NoModel /\ (who.conflict => who'.conflict)
           \/ who'.candidate = NoModel /\ who'.identity = f /\ I!Fresh
  <1>1. who \in Whos /\ Heard(who, named) /\ I!Fresh \in BOOLEAN /\ active \in 0 .. MaxSessions
    BY Typing, Parameters DEF IInv, I!Fresh, SessionType
  <1>2. CASE I!Adopt(f)
    <2> DEFINE w == [who EXCEPT !.identity = f]
    <2>1. w.candidate = NoModel /\ ~who.conflict
      BY <1>1, <1>2 DEF I!Adopt, Whos, Heard
    <2>2. who' = w \/ who' = I!Confirmed(w)
      <3> HIDE DEF w
      <3> QED
        BY <1>1, <1>2, BecomeOutcome DEF I!Adopt, w
    <2>3. I!Confirmed(w).candidate = NoModel
      BY DEF I!Confirmed
    <2> HIDE DEF w
    <2> QED
      BY <2>1, <2>2, <2>3
  <1>3. CASE I!Refuse(f)
    BY <1>1, <1>3 DEF I!Refuse, I!Become, Whos
  <1>4. CASE I!Reconsider(f)
    <2> DEFINE w == [who EXCEPT !.candidate = f, !.heardIn = active]
    <2>1. w.candidate = f /\ w.heardIn = active /\ w.conflict
      BY <1>1, <1>4 DEF I!Reconsider, Whos
    <2>2. who' = w \/ (who' = I!Confirmed(w) /\ I!Fresh)
      <3> HIDE DEF w
      <3> QED
        BY <1>1, <1>4, BecomeOutcome DEF I!Reconsider, w
    <2>3. I!Confirmed(w).candidate = NoModel /\ I!Confirmed(w).identity = f
      BY <2>1 DEF I!Confirmed
    <2> HIDE DEF w
    <2> QED
      BY <2>1, <2>2, <2>3
  <1>5. CASE I!Contradict(f)
    <2> DEFINE w == [who EXCEPT !.candidate = f, !.heardIn = active, !.conflict = TRUE]
    <2>1. w.candidate = f /\ w.heardIn = active /\ w.conflict
      BY <1>1 DEF Whos
    <2>2. who' = w \/ (who' = I!Confirmed(w) /\ I!Fresh)
      <3>1. who' = I!Settle(w, stored, I!Fresh)[1]
        BY <1>5 DEF I!Contradict, I!Become
      <3> HIDE DEF w
      <3> QED
        BY <1>1, <3>1, SettleOutcome
    <2>3. I!Confirmed(w).candidate = NoModel /\ I!Confirmed(w).identity = f
      BY <2>1 DEF I!Confirmed
    <2> HIDE DEF w
    <2> QED
      BY <2>1, <2>2, <2>3
  <1>6. CASE I!Repeat(f)
    BY <1>1, <1>6 DEF I!Repeat, Heard
  <1> QED
    BY <1>2, <1>3, <1>4, <1>5, <1>6 DEF I!Observe

LEMMA StepBinding == IInv /\ Binding /\ [I!Next]_(I!vars) => Binding'
  <1> SUFFICES ASSUME IInv, Binding, [I!Next]_(I!vars) PROVE Binding'
    OBVIOUS
  <1>1. /\ who \in Whos /\ SessionType /\ generation \in Nat /\ active \in {0, generation}
        /\ phase \in {"idle", "attempt", "notify", "up"}
    BY Typing, Parameters DEF IInv, SessionType
  <1>2. ASSUME NEW f \in I!Families, I!Observe(f) PROVE Binding'
    <2>1. /\ UNCHANGED I!session /\ namedIn' = IF active = 0 THEN generation + 1 ELSE active
      BY <1>2 DEF I!Observe
    <2>2. who'.candidate = NoModel \/ who'.heardIn = active
      BY <1>2, ObserveOutcome
    <2> QED
      BY <2>1, <2>2 DEF Binding, I!session
  <1>3. CASE I!Activate
    <2>1. /\ who' = I!Bound(who) /\ namedIn' = namedIn /\ generation' = generation + 1
          /\ active' = generation + 1
      BY <1>3 DEF I!Activate, I!history
    <2>2. who'.candidate # NoModel => who'.heardIn = generation + 1 /\ namedIn = generation + 1
      BY <1>1, <2>1, Parameters DEF I!Bound, Binding, Whos
    <2> QED
      BY <1>1, <2>1, <2>2 DEF Binding
  <1>4. CASE I!Install \/ I!Overtaken \/ I!Ending \/ I!Age \/ I!Edit
    BY <1>1, <1>4 DEF I!Install, I!Overtaken, I!Ending, I!Age, I!Edit, Binding, I!session, I!history
  <1>5. CASE I!End
    <2>1. /\ UNCHANGED <<who, namedIn, generation>> /\ active' = 0 /\ phase' = "idle"
      BY <1>5 DEF I!End, I!history
    <2> QED
      BY <1>1, <2>1 DEF Binding
  <1>6. CASE I!Connected \/ \E r \in {"known", "unknown"} : I!Settings(r)
    <2>1. PICK fresh \in BOOLEAN : I!Become(I!Settle(who, stored, fresh))
      BY <1>6 DEF I!Connected, I!Settings
    <2>2. /\ UNCHANGED <<generation, active, dropping, namedIn>>
          /\ phase # "idle" /\ phase' # "idle"
      BY <1>6 DEF I!Connected, I!Settings, I!session, I!history
    <2>3. who' = who \/ who' = I!Confirmed(who)
      BY <2>1, BecomeOutcome
    <2>4. who' = who \/ who'.candidate = NoModel
      BY <2>3 DEF I!Confirmed
    <2> QED
      BY <2>2, <2>4 DEF Binding
  <1>7. CASE I!Reload
    <2>1. who'.candidate = NoModel /\ phase' = "idle"
      BY <1>7 DEF I!Reload, I!Client, I!NoSession
    <2> QED
      BY <2>1 DEF Binding
  <1>8. CASE UNCHANGED I!vars
    BY <1>8 DEF I!vars, Binding, I!session, I!history
  <1> QED
    BY <1>2, <1>3, <1>4, <1>5, <1>6, <1>7, <1>8 DEF I!Next

LEMMA InvariantBinding == I!Spec => []Binding
  <1>1. I!Init => Binding
    BY DEF I!Init, Binding, I!Client
  <1> QED
    BY <1>1, StepBinding, InvariantIInv, PTL DEF I!Spec

(* ResolvedInSession: a running client leaves a conflict only in an            *)
(* established session, by the name last heard for it and by settings that it  *)
(* has delivered.                                                             *)
THEOREM ConflictResolvedInSession == I!Spec => I!ResolvedInSession
  <1> DEFINE Resolved ==
        /\ phase' = "up" /\ ~dropping'
        /\ namedIn' = generation' /\ reportedIn' = generation'
        /\ who'.identity = named'
  <1>1. ASSUME IInv, Binding, [I!Next]_(I!vars), who.conflict, ~who'.conflict, ~I!Reload
        PROVE  Resolved
    <2>1. /\ generation \in Nat /\ active \in {0, generation} /\ NoModel \notin I!Families
          /\ Evidenced /\ Heard(who, named) /\ I!Fresh \in BOOLEAN /\ dropping \in BOOLEAN
          /\ who.candidate \in I!Families \cup {NoModel}
      BY <1>1, Typing, Parameters DEF IInv, SessionType, I!Fresh, Whos
    <2>2. ASSUME NEW f \in I!Families, I!Observe(f) PROVE Resolved
      <3>1. who'.identity = f /\ I!Fresh
        BY <1>1, <2>1, <2>2, ObserveOutcome
      <3>2. active = generation /\ active # 0
        BY <1>1, <2>1, <3>1 DEF Binding, I!Fresh
      <3> QED
        BY <2>1, <2>2, <3>1, <3>2 DEF I!Observe, I!session, I!settings, Evidenced, I!Fresh
    <2>3. ASSUME NEW fresh \in BOOLEAN, I!Become(I!Settle(who, stored, fresh))
          PROVE  /\ fresh /\ I!Confirms(who) /\ who'.identity = who.candidate
                 /\ who.candidate # NoModel /\ who.candidate = named
      <3>1. who' = I!Confirmed(who) /\ who.candidate # NoModel /\ I!Confirms(who) /\ fresh
        BY <1>1, <2>3, BecomeOutcome
      <3> QED
        BY <2>1, <3>1 DEF I!Confirmed, Heard
    <2>4. ASSUME phase # "idle", ~dropping, who.candidate # NoModel, I!Confirms(who)
          PROVE  namedIn = generation
      <3>1. active # 0 /\ active = generation
        BY <1>1, <2>1, <2>4 DEF Binding
      <3> QED
        BY <1>1, <2>4, <3>1 DEF Binding, I!Confirms
    <2>5. CASE I!Connected
      <3>1. ~dropping /\ recent /\ I!Confirms(who) /\ who'.identity = who.candidate
            /\ who.candidate # NoModel /\ who.candidate = named
        <4>1. (~dropping /\ recent) \in BOOLEAN
          OBVIOUS
        <4> QED
          BY <4>1, <2>3, <2>5 DEF I!Connected
      <3>2. namedIn = generation
        BY <2>4, <2>5, <3>1 DEF I!Connected
      <3> QED
        BY <2>1, <2>5, <3>1, <3>2 DEF I!Connected, I!settings, I!history, Evidenced
    <2>6. ASSUME NEW r \in {"known", "unknown"}, I!Settings(r) PROVE Resolved
      <3>1. phase = "up" /\ ~dropping /\ I!Confirms(who) /\ who'.identity = who.candidate
            /\ who.candidate # NoModel /\ who.candidate = named
        <4>1. (phase = "up" /\ ~dropping) \in BOOLEAN
          OBVIOUS
        <4> QED
          BY <4>1, <2>3, <2>6 DEF I!Settings
      <3>2. namedIn = generation
        BY <2>4, <3>1
      <3> QED
        BY <2>6, <3>1, <3>2 DEF I!Settings, I!session, I!history
    <2>7. who'.conflict = who.conflict \/ ~(I!Activate \/ I!Install \/ I!End \/ I!Overtaken \/ I!Ending
             \/ I!Age \/ I!Edit \/ UNCHANGED I!vars)
      <3>1. I!Bound(who).conflict = who.conflict
        BY <1>1, Typing DEF I!Bound, IInv, Whos
      <3> QED
        BY <3>1 DEF I!Activate, I!Install, I!End, I!Overtaken, I!Ending, I!Age, I!Edit, I!vars
    <2> QED
      BY <1>1, <2>2, <2>5, <2>6, <2>7 DEF I!Next
  <1>2. IInv /\ Binding /\ [I!Next]_(I!vars)
          => [who.conflict /\ ~who'.conflict /\ ~I!Reload => Resolved]_(I!vars)
    BY <1>1
  <1> QED
    BY <1>2, InvariantIInv, InvariantBinding, PTL DEF I!Spec, I!ResolvedInSession

-----------------------------------------------------------------------------
(* A settlement never takes an identity away, and what it stores as identity  *)
(* is that of the client after it.                                            *)
LEMMA SettleStores ==
    ASSUME NEW w \in Whos, NEW s \in Storeds, NEW fresh \in BOOLEAN,
           NEW w2, NEW s2, I!Settle(w, s, fresh) = <<w2, s2>>
    PROVE  /\ w.identity \in {NoModel, w2.identity}
           /\ s2.identity \in {s.identity, w2.identity}
  <1>1. CASE w2 = w /\ s2 = s
    BY <1>1
  <1>2. CASE /\ I!Confirms(w) /\ w2 = I!Confirmed(w)
             /\ s2 = [identity |-> w.candidate, conflict |-> FALSE]
    BY <1>2 DEF I!Confirms, I!Confirmed
  <1>3. CASE w2 = w /\ s2 = [s EXCEPT !.identity = w.identity]
    BY <1>3 DEF Storeds
  <1> QED
    BY <1>1, <1>2, <1>3, SettleOutcome

(* Nor does an observation; and it stores nothing in an edited entry.         *)
LEMMA ObserveStores ==
    ASSUME IInv, NEW f \in I!Families, I!Observe(f)
    PROVE  /\ who.identity \in {NoModel, who'.identity}
           /\ stored'.identity \in {stored.identity, who'.identity}
           /\ edited => stored' = stored
  <1>1. /\ who \in Whos /\ stored \in Storeds /\ active \in 0 .. MaxSessions
        /\ I!Fresh \in BOOLEAN
    BY Typing, Parameters DEF IInv, SessionType, I!Fresh
  <1>2. ASSUME NEW w \in Whos, who.identity \in {NoModel, w.identity},
               NEW s2, who' = I!Settle(w, stored, I!Fresh)[1],
               s2.identity = I!Settle(w, stored, I!Fresh)[2].identity,
               stored' = IF edited THEN stored ELSE s2
        PROVE  /\ who.identity \in {NoModel, who'.identity}
               /\ stored'.identity \in {stored.identity, who'.identity}
    <2>1. PICK v, s : I!Settle(w, stored, I!Fresh) = <<v, s>>
      BY <1>1, SettleOutcome
    <2>2. /\ w.identity \in {NoModel, v.identity}
          /\ s.identity \in {stored.identity, v.identity}
      BY <1>1, <2>1, SettleStores
    <2>3. who' = v /\ s2.identity = s.identity
      BY <1>2, <2>1
    <2> QED
      BY <1>2, <2>2, <2>3
  <1>3. CASE I!Adopt(f)
    <2> DEFINE w == [who EXCEPT !.identity = f]
    <2>1. w \in Whos /\ who.identity = NoModel
      BY <1>1, <1>3 DEF I!Adopt, I!Supported, Whos
    <2>2. /\ who' = I!Settle(w, stored, I!Fresh)[1]
          /\ stored' = IF edited THEN stored ELSE I!Settle(w, stored, I!Fresh)[2]
      BY <1>3 DEF I!Adopt, I!Become
    <2> HIDE DEF w
    <2> QED
      BY <1>2, <2>1, <2>2
  <1>4. CASE I!Refuse(f)
    BY <1>1, <1>4 DEF I!Refuse, I!Become, I!Latched, Whos, Storeds
  <1>5. CASE I!Reconsider(f)
    <2> DEFINE w == [who EXCEPT !.candidate = f, !.heardIn = active]
    <2>1. w \in Whos /\ w.identity = who.identity
      BY <1>1 DEF Whos
    <2>2. /\ who' = I!Settle(w, stored, I!Fresh)[1]
          /\ stored' = IF edited THEN stored ELSE I!Settle(w, stored, I!Fresh)[2]
      BY <1>5 DEF I!Reconsider, I!Become
    <2> HIDE DEF w
    <2> QED
      BY <1>2, <2>1, <2>2
  <1>6. CASE I!Contradict(f)
    <2> DEFINE w == [who EXCEPT !.candidate = f, !.heardIn = active, !.conflict = TRUE]
               after == I!Settle(w, stored, I!Fresh)
               s2 == IF after[1].conflict THEN I!Latched(after[2]) ELSE after[2]
    <2>1. w \in Whos /\ w.identity = who.identity
      BY <1>1 DEF Whos
    <2>2. who' = after[1] /\ stored' = IF edited THEN stored ELSE s2
      BY <1>6 DEF I!Contradict, I!Become
    <2>3. PICK v, s : after = <<v, s>>
      <3> HIDE DEF w
      <3> QED
        BY <1>1, SettleOutcome
    <2>4. s \in Storeds
      <3>1. after[2] \in Storeds
        <4> HIDE DEF w
        <4>1. \/ after = <<w, stored>>
              \/ after = <<I!Confirmed(w), [identity |-> w.candidate, conflict |-> FALSE]>>
              \/ after = <<w, [stored EXCEPT !.identity = w.identity]>>
          BY <1>1, SettleOutcome
        <4>2. [identity |-> w.candidate, conflict |-> FALSE] \in Storeds
          BY <2>1 DEF Whos, Storeds
        <4>3. [stored EXCEPT !.identity = w.identity] \in Storeds
          BY <1>1, <2>1 DEF Whos, Storeds
        <4> QED
          <5> HIDE DEF after
          <5>1. CASE after = <<w, stored>>
            BY <1>1, <5>1
          <5>2. CASE after = <<I!Confirmed(w), [identity |-> w.candidate, conflict |-> FALSE]>>
            BY <4>2, <5>2
          <5>3. CASE after = <<w, [stored EXCEPT !.identity = w.identity]>>
            BY <4>3, <5>3
          <5> QED
            BY <4>1, <5>1, <5>2, <5>3
      <3> HIDE DEF w
      <3> QED
        BY <2>3, <3>1
    <2>5. s2.identity = after[2].identity
      <3>1. I!Latched(s).identity = s.identity
        BY <2>4 DEF I!Latched, Storeds
      <3> HIDE DEF w
      <3> QED
        BY <2>3, <3>1
    <2> HIDE DEF w, s2
    <2>6. /\ who.identity \in {NoModel, who'.identity}
          /\ stored'.identity \in {stored.identity, who'.identity}
      BY <1>2, <2>1, <2>2, <2>5
    <2> QED
      BY <2>2, <2>6
  <1>7. CASE I!Repeat(f)
    BY <1>7 DEF I!Repeat, I!entry
  <1> QED
    BY <1>3, <1>4, <1>5, <1>6, <1>7 DEF I!Observe

(* IdentityKept: what the device says of itself never replaces a stored        *)
(* family that the client accepts, nor what the user has changed; an identity  *)
(* that is stored is the client's.                                            *)
THEOREM StoredIdentityKept == I!Spec => I!IdentityKept
  <1> DEFINE Rightly ==
        /\ ~edited /\ stored.identity \in Rejected \cup {NoModel}
        /\ stored'.identity = who'.identity
  <1>1. ASSUME IInv, [I!Next]_(I!vars), ~I!Edit, stored'.identity # stored.identity
        PROVE  Rightly
    <2>1. /\ who \in Whos /\ stored \in Storeds /\ SessionType
          /\ ~edited => Remembered(who, stored)
      BY <1>1, Typing DEF IInv
    <2>2. ASSUME /\ who.identity \in {NoModel, who'.identity}
                 /\ stored'.identity \in {stored.identity, who'.identity}
                 /\ edited => stored' = stored
          PROVE  Rightly
      <3>1. ~edited /\ stored'.identity = who'.identity
        BY <1>1, <2>2
      <3>2. \/ stored.identity \in {NoModel, who.identity}
            \/ stored.identity \in Rejected
        BY <2>1, <3>1 DEF Remembered
      <3> QED
        BY <1>1, <2>2, <3>1, <3>2
    <2>3. ASSUME NEW f \in I!Families, I!Observe(f) PROVE Rightly
      BY <1>1, <2>2, <2>3, ObserveStores
    <2>4. ASSUME NEW fresh \in BOOLEAN, I!Become(I!Settle(who, stored, fresh))
          PROVE  Rightly
      <3>1. PICK v, s : I!Settle(who, stored, fresh) = <<v, s>>
        BY <2>1, SettleOutcome
      <3>2. who' = v /\ stored' = IF edited THEN stored ELSE s
        BY <2>4, <3>1 DEF I!Become
      <3>3. /\ who.identity \in {NoModel, v.identity}
            /\ s.identity \in {stored.identity, v.identity}
        BY <2>1, <3>1, SettleStores
      <3> QED
        BY <2>2, <3>2, <3>3
    <2>5. CASE I!Connected
      <3>1. (~dropping /\ recent) \in BOOLEAN
        OBVIOUS
      <3> QED
        BY <2>4, <2>5, <3>1 DEF I!Connected
    <2>6. ASSUME NEW r \in {"known", "unknown"}, I!Settings(r) PROVE Rightly
      <3>1. (phase = "up" /\ ~dropping) \in BOOLEAN
        OBVIOUS
      <3> QED
        BY <2>4, <2>6, <3>1 DEF I!Settings
    <2>7. CASE I!Reload
      <3>1. stored' = I!Entry(stored)
        BY <2>7 DEF I!Reload
      <3> QED
        BY <1>1, <2>1, <3>1 DEF I!Entry, Storeds
    <2>8. ~(I!Activate \/ I!Install \/ I!End \/ I!Overtaken \/ I!Ending \/ I!Age \/ UNCHANGED I!vars)
      BY <1>1 DEF I!Activate, I!Install, I!End, I!Overtaken, I!Ending, I!Age, I!entry, I!vars
    <2> QED
      BY <1>1, <2>3, <2>5, <2>6, <2>7, <2>8 DEF I!Next
  <1>2. IInv /\ [I!Next]_(I!vars)
          => [~I!Edit /\ stored'.identity # stored.identity => Rightly]_(I!vars)
    BY <1>1
  <1> QED
    BY <1>2, InvariantIInv, PTL DEF I!Spec, I!IdentityKept

-----------------------------------------------------------------------------
(* The specification that is run: the identity part of a behaviour of the parts *)
(* is a behaviour of ModelIdentity.                                             *)
LEMMA IdentityPart == PartsSpec => I!Spec
<1>1. PartsInit => I!Init
  BY DEF PartsInit
<1>2. [PartsNext]_<<part, vars, control, identity, registry, setup>> => [I!Next]_(I!vars)
  BY DEF PartsNext, identity, I!vars, I!session, I!settings, I!entry, I!history
<1> QED  BY <1>1, <1>2, PTL DEF PartsSpec, I!Spec

(* ConflictStored of the part: a restart finds the conflict the client was in   *)
(* (_observe_model_identity and the callbacks of __init__.py).                  *)
THEOREM PartsConflictStored == PartsSpec => []ConflictStored
<1>1. I!ConflictStored => ConflictStored
  BY DEF ConflictStored
<1> QED  BY <1>1, IdentityPart, ConflictAlwaysStored, PTL

(* WritesVerified of the part: write capabilities rest on evidence of the       *)
(* running session (_runtime_model_support).                                    *)
THEOREM PartsWritesVerified == PartsSpec => []WritesVerified
<1>1. I!WritesVerified => WritesVerified
  BY DEF WritesVerified
<1> QED  BY <1>1, IdentityPart, WritesAlwaysVerified, PTL

(* ResolvedInSession of the part: a conflict is left only in an established     *)
(* session (_persist_model_identity_if_validated).                              *)
THEOREM PartsResolvedInSession == PartsSpec => ResolvedInSession
  BY IdentityPart, ConflictResolvedInSession DEF ResolvedInSession

(* IdentityKept of the part: observations replace neither a supported family    *)
(* nor what the user has edited (the callbacks of __init__.py).                 *)
THEOREM PartsIdentityKept == PartsSpec => IdentityKept
  BY IdentityPart, StoredIdentityKept DEF IdentityKept
=============================================================================
