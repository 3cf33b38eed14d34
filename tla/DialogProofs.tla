----------------------------- MODULE DialogProofs -----------------------------
(***************************************************************************)
(* Theorems about what the dialogs do, for all sets of dialogs, entries,    *)
(* addresses and entities: how an address comes to an entry (SetupFlow, S!)  *)
(* and what becomes of its registry records when the address changes        *)
(* (RegistryTransition, R!).                                                 *)
(***************************************************************************)
EXTENDS MCStation, TLAPS, FiniteSetTheorems

-----------------------------------------------------------------------------
(* Dialogs. *)

Dialog == [pc : S!Probing \cup {"idle", "form", "done"},
           entry : Entries \cup {NoEntry}, target : Places \cup {Nowhere},
           found : BOOLEAN, subscribed : BOOLEAN, ok : BOOLEAN, raced : BOOLEAN]

(* A dialog that still has to move its entry, and was not overtaken, has an   *)
(* address that no other entry has; a discovered device is about no entry.    *)
Unraced ==
    \A f \in Flows :
        /\ flow[f].found => flow[f].entry = NoEntry
        /\ flow[f].pc \in S!Probing /\ flow[f].entry # NoEntry /\ ~flow[f].raced =>
               flow[f].target # Nowhere /\ ~S!InUse(flow[f].entry, flow[f].target)

SetupInv == S!TypeOK /\ Unraced /\ S!OvertakenOnly

-----------------------------------------------------------------------------

LEMMA Goes ==
    ASSUME S!TypeOK, NEW f \in Flows, NEW r \in Dialog, S!Go(f, r)
    PROVE  /\ flow' \in [Flows -> Dialog] /\ flow'[f] = r
           /\ \A g \in Flows \ {f} : flow'[g] = flow[g]
  BY DEF S!TypeOK, S!Go, Dialog

(* What giving an entry an address does to the dialogs: the one that does it  *)
(* ends, and of the others those about the address are raced.                  *)
LEMMA GivesAddress ==
    ASSUME S!TypeOK, NEW f \in Flows, NEW e \in Entries, NEW a \in Places \cup {Nowhere},
           S!Place(f, e, a)
    PROVE  /\ place' \in [Entries -> Places \cup {Nowhere}] /\ place'[e] = a
           /\ \A o \in Entries \ {e} : place'[o] = place[o]
           /\ flow' \in [Flows -> Dialog] /\ flow'[f].pc = "done"
           /\ \A g \in Flows : /\ flow'[g].entry = flow[g].entry
                               /\ flow'[g].target = flow[g].target
                               /\ flow'[g].found = flow[g].found
                               /\ flow'[g].pc = flow[g].pc \/ flow'[g].pc = "done"
                               /\ flow[g].raced => flow'[g].raced
                               /\ flow[g].target = a /\ flow[g].entry # e => flow'[g].raced
<1> DEFINE others == [g \in Flows |->
             IF flow[g].target = a /\ flow[g].entry # e THEN [flow[g] EXCEPT !.raced = TRUE]
             ELSE flow[g]]
<1>1. flow' = [others EXCEPT ![f].pc = "done"] /\ place' = [place EXCEPT ![e] = a]
  BY DEF S!Place, S!Ended
<1>2. others \in [Flows -> Dialog]
  <2>1. \A r \in Dialog : [r EXCEPT !.raced = TRUE] \in Dialog
    BY DEF Dialog
  <2>2. flow \in [Flows -> Dialog]
    BY DEF S!TypeOK, Dialog
  <2> QED  BY <2>1, <2>2
<1>3. \A g \in Flows : /\ others[g].entry = flow[g].entry
                       /\ others[g].target = flow[g].target
                       /\ others[g].found = flow[g].found
                       /\ others[g].pc = flow[g].pc
                       /\ flow[g].raced => others[g].raced
                       /\ flow[g].target = a /\ flow[g].entry # e => others[g].raced
  BY DEF S!TypeOK
<1>4. flow' \in [Flows -> Dialog] /\ flow'[f].pc = "done"
  <2>1. others[f] \in Dialog
    BY <1>2
  <2>2. [others[f] EXCEPT !.pc = "done"] \in Dialog
    BY <2>1 DEF Dialog
  <2> HIDE DEF others
  <2> QED  BY <1>1, <1>2, <2>2 DEF Dialog
<1>5. \A g \in Flows : /\ flow'[g].entry = others[g].entry
                       /\ flow'[g].target = others[g].target
                       /\ flow'[g].found = others[g].found
                       /\ flow'[g].pc = others[g].pc \/ flow'[g].pc = "done"
                       /\ flow'[g].raced = others[g].raced
  <2> HIDE DEF others
  <2> QED  BY <1>1, <1>2 DEF Dialog
<1> HIDE DEF others
<1> QED  BY <1>1, <1>3, <1>4, <1>5 DEF S!TypeOK

(* A dialog that goes on, with its entry, target and race as they were, or    *)
(* about no entry, or about an address nobody else has.                        *)
LEMMA StepKeeps ==
    ASSUME SetupInv, NEW f \in Flows, NEW r \in Dialog, S!Go(f, r),
           UNCHANGED <<place, moved>>,
           r.found => r.entry = NoEntry,
           \/ r.pc \notin S!Probing
           \/ r.entry = NoEntry
           \/ r.target # Nowhere /\ ~S!InUse(r.entry, r.target)
           \/ /\ flow[f].pc \in S!Probing
              /\ r.entry = flow[f].entry /\ r.target = flow[f].target
              /\ r.raced = flow[f].raced,
           links' \subseteq Flows, left' \subseteq Flows
    PROVE  SetupInv'
<1>1. /\ flow' \in [Flows -> Dialog] /\ flow'[f] = r
      /\ \A g \in Flows \ {f} : flow'[g] = flow[g]
  BY Goes DEF SetupInv
<1>2. S!TypeOK'
  BY <1>1 DEF SetupInv, S!TypeOK, Dialog
<1>3. Unraced'
  BY <1>1 DEF SetupInv, Unraced, S!InUse
<1>4. S!OvertakenOnly'
  BY DEF SetupInv, S!OvertakenOnly
<1> QED  BY <1>2, <1>3, <1>4 DEF SetupInv

(* An entry given an address that no other has, or remembered as overtaken.   *)
LEMMA PlaceKeeps ==
    ASSUME SetupInv, NEW f \in Flows, NEW e \in Entries, NEW a \in Places \cup {Nowhere},
           S!Place(f, e, a), UNCHANGED <<links, left>>,
           \/ ~S!InUse(e, a) /\ moved' \in {moved, moved \ {e}}
           \/ moved' = moved \cup {e}
    PROVE  SetupInv'
<1>1. /\ place' \in [Entries -> Places \cup {Nowhere}] /\ place'[e] = a
      /\ \A o \in Entries \ {e} : place'[o] = place[o]
      /\ flow' \in [Flows -> Dialog] /\ flow'[f].pc = "done"
      /\ \A g \in Flows : /\ flow'[g].entry = flow[g].entry
                          /\ flow'[g].target = flow[g].target
                          /\ flow'[g].found = flow[g].found
                          /\ flow'[g].pc = flow[g].pc \/ flow'[g].pc = "done"
                          /\ flow[g].raced => flow'[g].raced
                          /\ flow[g].target = a /\ flow[g].entry # e => flow'[g].raced
  BY GivesAddress DEF SetupInv
<1>2. S!TypeOK'
  BY <1>1 DEF SetupInv, S!TypeOK, Dialog
<1>3. Unraced'
  <2> SUFFICES ASSUME NEW g \in Flows
               PROVE  /\ flow'[g].found => flow'[g].entry = NoEntry
                      /\ flow'[g].pc \in S!Probing /\ flow'[g].entry # NoEntry
                           /\ ~flow'[g].raced
                           => /\ flow'[g].target # Nowhere
                              /\ \A o \in Entries \ {flow'[g].entry} :
                                    place'[o] # flow'[g].target
    BY DEF Unraced, S!InUse
  <2>1. flow'[g].found => flow'[g].entry = NoEntry
    BY <1>1 DEF SetupInv, Unraced
  <2>2. ASSUME flow'[g].pc \in S!Probing, flow'[g].entry # NoEntry, ~flow'[g].raced
        PROVE  flow'[g].target # Nowhere
    BY <1>1, <2>2 DEF SetupInv, Unraced, S!Probing
  <2>3. ASSUME flow'[g].pc \in S!Probing, flow'[g].entry # NoEntry, ~flow'[g].raced,
               NEW o \in Entries \ {flow'[g].entry}
        PROVE  place'[o] # flow'[g].target
    <3>1. flow[g].pc \in S!Probing
      BY <1>1, <2>3 DEF S!Probing
    <3>2. place[o] # flow[g].target
      BY <1>1, <2>3, <3>1 DEF SetupInv, Unraced, S!InUse
    <3>3. CASE o = e
      BY <1>1, <2>3, <3>3
    <3>4. CASE o # e
      BY <1>1, <3>2, <3>4
    <3> QED  BY <3>3, <3>4
  <2> QED  BY <2>1, <2>2, <2>3
<1>4. S!OvertakenOnly'
  <2> SUFFICES ASSUME NEW d \in Entries, NEW o \in Entries, d # o,
                      place'[d] = place'[o], place'[d] # Nowhere
               PROVE  d \in moved' \/ o \in moved'
    BY DEF S!OvertakenOnly
  <2>1. CASE moved' = moved \cup {e}
    BY <1>1, <2>1 DEF SetupInv, S!OvertakenOnly
  <2>2. CASE ~S!InUse(e, a) /\ moved' \in {moved, moved \ {e}}
    <3>1. d # e /\ o # e
      BY <1>1, <2>2 DEF S!InUse
    <3> QED  BY <1>1, <2>2, <3>1 DEF SetupInv, S!OvertakenOnly
  <2> QED  BY <2>1, <2>2
<1> QED  BY <1>2, <1>3, <1>4 DEF SetupInv

-----------------------------------------------------------------------------

LEMMA CleanUpTyped ==
    ASSUME NEW r \in Dialog, NEW up \in BOOLEAN
    PROVE  /\ S!CleanUp(r, up) \in Dialog /\ S!CleanUp(r, up).pc \in S!Probing
           /\ \A k \in {"entry", "target", "found", "raced"} : S!CleanUp(r, up)[k] = r[k]
  BY DEF S!CleanUp, Dialog, S!Probing

(* A stage of the probe, or the clean-up, keeps what the dialog is about. *)
LEMMA ProbeKeeps ==
    ASSUME SetupInv, NEW f \in Flows, NEW r \in Dialog, S!Go(f, r),
           flow[f].pc \in S!Probing, UNCHANGED <<place, moved>>,
           links' \subseteq Flows, left' \subseteq Flows,
           \A k \in {"entry", "target", "found", "raced"} : r[k] = flow[f][k]
    PROVE  SetupInv'
<1>1. r.entry = flow[f].entry /\ r.target = flow[f].target
      /\ r.found = flow[f].found /\ r.raced = flow[f].raced
  OBVIOUS
<1>2. r.found => r.entry = NoEntry
  BY <1>1 DEF SetupInv, Unraced
<1> QED  BY <1>1, <1>2, StepKeeps

LEMMA InitInv == ASSUME S!SetupAssumption, S!Init PROVE SetupInv
<1>1. S!Idle \in Dialog /\ S!Idle.pc = "idle" /\ ~S!Idle.found
  BY DEF S!Idle, Dialog
<1>2. S!TypeOK
  BY <1>1 DEF S!Init, S!TypeOK, Dialog
<1>3. Unraced
  BY <1>1 DEF S!Init, Unraced, S!Probing
<1>4. S!OvertakenOnly
  BY DEF S!Init, S!OvertakenOnly
<1> QED  BY <1>2, <1>3, <1>4 DEF SetupInv

LEMMA NextInv == ASSUME S!SetupAssumption, SetupInv, [S!Next]_(S!vars) PROVE SetupInv'
<1> USE DEF Dialog
<1>t. S!TypeOK /\ \A f \in Flows : flow[f] \in Dialog
  BY DEF SetupInv, S!TypeOK
<1>i. S!Idle \in Dialog
  BY DEF S!Idle
<1>1. ASSUME NEW f \in Flows, NEW a \in Places, S!Discover(f, a) PROVE SetupInv'
  <2> DEFINE r == [S!Idle EXCEPT !.pc = "form", !.target = a, !.found = TRUE]
  <2>1. r \in Dialog /\ r.pc \notin S!Probing /\ r.entry = NoEntry
    BY DEF S!Idle, S!Probing
  <2>2. /\ S!Go(f, r) /\ UNCHANGED <<place, moved>>
        /\ links' \subseteq Flows /\ left' \subseteq Flows
    BY <1>1, <1>t DEF S!Discover, S!TypeOK
  <2> HIDE DEF r
  <2> QED  BY <2>1, <2>2, StepKeeps
<1>2. ASSUME NEW f \in Flows, S!Confirm(f) PROVE SetupInv'
  <2> DEFINE r == [flow[f] EXCEPT !.pc = "connect", !.subscribed = FALSE]
  <2>1. r \in Dialog /\ r.entry = flow[f].entry /\ flow[f].found
    BY <1>2, <1>t DEF S!Confirm, S!Open, S!At, S!Probing
  <2>2. /\ S!Go(f, r) /\ UNCHANGED <<place, moved>>
        /\ links' \subseteq Flows /\ left' \subseteq Flows
    BY <1>2, <1>t DEF S!Confirm, S!TypeOK
  <2>3. r.entry = NoEntry
    BY <2>1 DEF SetupInv, Unraced
  <2> HIDE DEF r
  <2> QED  BY <2>1, <2>2, <2>3, StepKeeps
<1>3. ASSUME NEW f \in Flows, NEW a \in Places, S!Select(f, a) PROVE SetupInv'
  <2> DEFINE r == [S!Idle EXCEPT !.pc = "connect", !.target = a]
  <2>1. r \in Dialog /\ r.entry = NoEntry
    BY DEF S!Idle, S!Probing
  <2>2. /\ S!Go(f, r) /\ UNCHANGED <<place, moved>>
        /\ links' \subseteq Flows /\ left' \subseteq Flows
    BY <1>3, <1>t DEF S!Select, S!TypeOK
  <2> HIDE DEF r
  <2> QED  BY <2>1, <2>2, StepKeeps
<1>4. ASSUME NEW f \in Flows, NEW e \in Entries, NEW a \in Places, S!Reconfigure(f, e, a)
      PROVE SetupInv'
  <2> DEFINE r == [S!Idle EXCEPT !.pc = "connect", !.entry = e, !.target = a]
  <2>1. r \in Dialog /\ r.entry = e /\ r.target = a /\ ~r.found /\ a # Nowhere
    BY DEF S!Idle, S!Probing, S!SetupAssumption
  <2>2. ~S!InUse(e, a) /\ UNCHANGED <<links, left>>
    BY <1>4 DEF S!Reconfigure
  <2>3. links' \subseteq Flows /\ left' \subseteq Flows
    BY <2>2, <1>t DEF S!TypeOK
  <2>4. CASE S!Go(f, r) /\ UNCHANGED <<place, moved>>
    <3> HIDE DEF r
    <3> QED  BY <2>1, <2>2, <2>3, <2>4, StepKeeps
  <2>5. CASE a = place[e] /\ S!Place(f, e, a) /\ moved' = moved \ {e}
    BY <2>2, <2>5, PlaceKeeps
  <2> QED  BY <1>4, <2>4, <2>5 DEF S!Reconfigure
<1>5. ASSUME NEW f \in Flows, S!Connect(f) PROVE SetupInv'
  <2>1. UNCHANGED <<place, left, moved>>
        /\ links' \subseteq Flows /\ left' \subseteq Flows
        /\ flow[f].pc \in S!Probing
    BY <1>5, <1>t DEF S!Connect, S!TypeOK, S!At, S!Probing
  <2>2. CASE S!Go(f, S!CleanUp(flow[f], TRUE))
    BY <2>1, <2>2, <1>t, CleanUpTyped, ProbeKeeps
  <2>3. ASSUME NEW pc \in S!Probing, S!Go(f, [flow[f] EXCEPT !.pc = pc]) PROVE SetupInv'
    <3> DEFINE r == [flow[f] EXCEPT !.pc = pc]
    <3>1. r \in Dialog /\ \A k \in {"entry", "target", "found", "raced"} : r[k] = flow[f][k]
      BY <1>t
    <3>2. S!Go(f, r)
      BY <2>3
    <3> HIDE DEF r
    <3> QED  BY <2>1, <3>1, <3>2, ProbeKeeps
  <2> QED  BY <1>5, <2>2, <2>3 DEF S!Connect, S!Probing
<1>6. ASSUME NEW f \in Flows, NEW pc, NEW r \in Dialog, S!Stage(f, pc, r), pc \in S!Probing,
             \A k \in {"entry", "target", "found", "raced"} : r[k] = flow[f][k]
      PROVE SetupInv'
  <2>1. /\ UNCHANGED <<place, links, left, moved>>
        /\ links' \subseteq Flows /\ left' \subseteq Flows
        /\ flow[f].pc \in S!Probing
    BY <1>6, <1>t DEF S!Stage, S!TypeOK, S!At
  <2>2. S!Go(f, r) \/ S!Go(f, S!CleanUp(flow[f], f \in links))
    BY <1>6 DEF S!Stage
  <2>3. CASE S!Go(f, S!CleanUp(flow[f], f \in links))
    <3> DEFINE up == f \in links
               c == S!CleanUp(flow[f], up)
    <3>1. up \in BOOLEAN /\ flow[f] \in Dialog
      BY <1>t
    <3> HIDE DEF up
    <3>2. c \in Dialog /\ \A k \in {"entry", "target", "found", "raced"} : c[k] = flow[f][k]
      BY <3>1, CleanUpTyped
    <3>3. S!Go(f, c)
      BY <2>3 DEF up
    <3> HIDE DEF c
    <3> QED  BY <2>1, <3>2, <3>3, ProbeKeeps
  <2> QED  BY <2>1, <2>2, <2>3, <1>6, ProbeKeeps
<1>7. ASSUME NEW f \in Flows, S!Subscribe(f) \/ S!Request(f) \/ S!Await(f) PROVE SetupInv'
  <2>1. CASE S!Subscribe(f)
    <3> DEFINE r == [flow[f] EXCEPT !.pc = "request", !.subscribed = TRUE]
    <3>1. r \in Dialog /\ \A k \in {"entry", "target", "found", "raced"} : r[k] = flow[f][k]
      BY <1>t DEF S!Probing
    <3>2. S!Stage(f, "subscribe", r)
      BY <2>1 DEF S!Subscribe
    <3> HIDE DEF r
    <3> QED  BY <3>1, <3>2, <1>6 DEF S!Probing
  <2>2. CASE S!Request(f)
    <3> DEFINE r == [flow[f] EXCEPT !.pc = "await"]
    <3>1. r \in Dialog /\ \A k \in {"entry", "target", "found", "raced"} : r[k] = flow[f][k]
      BY <1>t DEF S!Probing
    <3>2. S!Stage(f, "request", r)
      BY <2>2 DEF S!Request
    <3> HIDE DEF r
    <3> QED  BY <3>1, <3>2, <1>6 DEF S!Probing
  <2>3. CASE S!Await(f)
    <3> DEFINE o == [flow[f] EXCEPT !.ok = TRUE]
               up == f \in links
               r == S!CleanUp(o, up)
    <3>1. o \in Dialog /\ \A k \in {"entry", "target", "found", "raced"} : o[k] = flow[f][k]
      BY <1>t
    <3>2. S!Stage(f, "await", r)
      BY <2>3 DEF S!Await
    <3>4. up \in BOOLEAN
      OBVIOUS
    <3> HIDE DEF o, up
    <3>3. r \in Dialog /\ \A k \in {"entry", "target", "found", "raced"} : r[k] = flow[f][k]
      BY <3>1, <3>4, CleanUpTyped
    <3> HIDE DEF r
    <3> QED  BY <3>2, <3>3, <1>6 DEF S!Probing
  <2> QED  BY <1>7, <2>1, <2>2, <2>3
<1>8. ASSUME NEW f \in Flows, S!Unsubscribe(f) \/ S!Disconnect(f) PROVE SetupInv'
  <2>1. UNCHANGED <<place, moved>>
        /\ links' \subseteq Flows /\ left' \subseteq Flows
        /\ flow[f].pc \in S!Probing
    BY <1>8, <1>t DEF S!Unsubscribe, S!Disconnect, S!TypeOK, S!At, S!Probing
  <2>2. PICK pc \in S!Probing : S!Go(f, [flow[f] EXCEPT !.pc = pc])
    BY <1>8 DEF S!Unsubscribe, S!Disconnect, S!Probing
  <2> DEFINE r == [flow[f] EXCEPT !.pc = pc]
  <2>3. r \in Dialog /\ \A k \in {"entry", "target", "found", "raced"} : r[k] = flow[f][k]
    BY <1>t
  <2>4. S!Go(f, r)
    BY <2>2
  <2> HIDE DEF r
  <2> QED  BY <2>1, <2>3, <2>4, ProbeKeeps
<1>9. ASSUME NEW f \in Flows, S!Drop(f) PROVE SetupInv'
  BY <1>9 DEF S!Drop, SetupInv, S!TypeOK, Unraced, S!InUse, S!OvertakenOnly
<1>10. ASSUME NEW f \in Flows, S!Fails(f) \/ S!Close(f) PROVE SetupInv'
  <2>1. UNCHANGED <<place, moved>>
        /\ links' \subseteq Flows /\ left' \subseteq Flows
    BY <1>10, <1>t DEF S!Fails, S!Close, S!TypeOK
  <2>2. ASSUME NEW pc \in {"form", "done"}, S!Go(f, [flow[f] EXCEPT !.pc = pc])
        PROVE  SetupInv'
    <3> DEFINE r == [flow[f] EXCEPT !.pc = pc]
    <3>1. r \in Dialog /\ r.pc \notin S!Probing /\ r.found = flow[f].found
          /\ r.entry = flow[f].entry
      BY <1>t DEF S!Probing
    <3>2. S!Go(f, r) /\ (r.found => r.entry = NoEntry)
      BY <2>2, <3>1 DEF SetupInv, Unraced
    <3> HIDE DEF r
    <3> QED  BY <2>1, <3>1, <3>2, StepKeeps
  <2>3. CASE S!Go(f, S!Idle)
    <3>1. S!Idle.pc \notin S!Probing /\ ~S!Idle.found
      BY DEF S!Idle, S!Probing
    <3> QED  BY <2>1, <2>3, <3>1, <1>i, StepKeeps
  <2>4. CASE S!Go(f, [flow[f] EXCEPT !.pc = "form"])
    BY <2>2, <2>4
  <2>5. CASE flow' = S!Ended(f, flow)
    <3>1. S!Go(f, [flow[f] EXCEPT !.pc = "done"])
      BY <2>5 DEF S!Ended, S!Go
    <3> QED  BY <2>2, <3>1
  <2> QED  BY <1>10, <2>3, <2>4, <2>5 DEF S!Fails, S!Close
<1>11. ASSUME NEW f \in Flows, S!Create(f) PROVE SetupInv'
  <2>1. UNCHANGED <<links, left, moved>>
        /\ links' \subseteq Flows /\ left' \subseteq Flows
        /\ flow[f].target \in Places \cup {Nowhere}
    BY <1>11, <1>t DEF S!Create, S!TypeOK
  <2>2. CASE S!Configured(flow[f].target)
    <3> DEFINE r == [flow[f] EXCEPT !.pc = "done"]
    <3>1. r \in Dialog /\ r.pc \notin S!Probing /\ r.found = flow[f].found
          /\ r.entry = flow[f].entry
      BY <1>t DEF S!Probing
    <3>2. S!Go(f, r) /\ (r.found => r.entry = NoEntry) /\ UNCHANGED place
      BY <1>11, <2>2, <3>1 DEF S!Create, S!Ended, S!Go, SetupInv, Unraced
    <3> HIDE DEF r
    <3> QED  BY <2>1, <3>1, <3>2, StepKeeps
  <2>3. CASE ~S!Configured(flow[f].target)
    <3>1. PICK e \in Entries : S!Place(f, e, flow[f].target)
      BY <1>11, <2>3 DEF S!Create
    <3>2. ~S!InUse(e, flow[f].target)
      BY <2>3 DEF S!InUse, S!Configured
    <3> QED  BY <2>1, <3>1, <3>2, PlaceKeeps
  <2> QED  BY <2>2, <2>3
<1>12. ASSUME NEW f \in Flows, S!Move(f) PROVE SetupInv'
  <2>1. /\ flow[f].entry \in Entries /\ flow[f].target \in Places \cup {Nowhere}
        /\ flow[f].pc \in S!Probing /\ UNCHANGED <<links, left>>
        /\ S!Place(f, flow[f].entry, flow[f].target)
    BY <1>12, <1>t DEF S!Move, S!At, S!Probing
  <2>2. CASE flow[f].raced
    <3>1. moved' = moved \cup {flow[f].entry}
      BY <1>12, <2>2 DEF S!Move
    <3> QED  BY <2>1, <3>1, PlaceKeeps
  <2>3. CASE ~flow[f].raced
    <3>1. ~S!InUse(flow[f].entry, flow[f].target)
      BY <1>12, <2>1, <2>3 DEF SetupInv, Unraced, S!Move
    <3>2. moved' = moved \ {flow[f].entry}
      BY <1>12, <2>3 DEF S!Move
    <3> QED  BY <2>1, <3>1, <3>2, PlaceKeeps
  <2> QED  BY <2>2, <2>3
<1>13. ASSUME NEW e \in Entries, S!Remove(e) PROVE SetupInv'
  <2>1. /\ place' \in [Entries -> Places \cup {Nowhere}] /\ place'[e] = Nowhere
        /\ \A o \in Entries \ {e} : place'[o] = place[o]
        /\ moved' = moved \ {e} /\ UNCHANGED <<flow, links, left>>
        /\ \A f \in Flows : flow[f].entry # e
    BY <1>13, <1>t DEF S!Remove, S!TypeOK
  <2>2. S!TypeOK'
    BY <2>1, <1>t DEF S!TypeOK
  <2>3. S!OvertakenOnly'
    BY <2>1 DEF SetupInv, S!OvertakenOnly
  <2>4. Unraced'
    BY <2>1 DEF SetupInv, Unraced, S!InUse
  <2> QED  BY <2>2, <2>3, <2>4 DEF SetupInv
<1>14. CASE UNCHANGED S!vars
  BY <1>14 DEF S!vars, SetupInv, S!TypeOK, Unraced, S!InUse, S!OvertakenOnly
<1> QED
  BY <1>1, <1>2, <1>3, <1>4, <1>5, <1>7, <1>8, <1>9, <1>10, <1>11, <1>12, <1>13,
     <1>14 DEF S!Next

-----------------------------------------------------------------------------
(* Every variable keeps its type. *)
THEOREM SetupTypeCorrect == ASSUME S!SetupAssumption PROVE S!Spec => []S!TypeOK
<1>1. S!Spec => []SetupInv
  BY InitInv, NextInv, PTL DEF S!Spec
<1>2. SetupInv => S!TypeOK
  BY DEF SetupInv
<1> QED  BY <1>1, <1>2, PTL

(* However many dialogs overlap, two entries share an address only where one  *)
(* was moved there by a dialog that had been overtaken during its probe        *)
(* (_async_probe_and_create and async_step_reconfigure).                        *)
THEOREM OnlyTheOvertaken == ASSUME S!SetupAssumption PROVE S!Spec => []S!OvertakenOnly
<1>1. S!Spec => []SetupInv
  BY InitInv, NextInv, PTL DEF S!Spec
<1>2. SetupInv => S!OvertakenOnly
  BY DEF SetupInv
<1> QED  BY <1>1, <1>2, PTL

(* The step of one dialog over its own link. *)
LEMMA LinkKept ==
    ASSUME S!TypeOK, S!ProbeLinkReturned, NEW f \in Flows, NEW r \in Dialog, S!Go(f, r),
           links' \subseteq Flows, links' \ {f} \subseteq links, left \ {f} \subseteq left',
           f \in links' => r.pc \in S!Probing \ {"connect", "decide"} \/ f \in left'
    PROVE  S!ProbeLinkReturned'
<1>1. flow'[f] = r /\ \A g \in Flows \ {f} : flow'[g] = flow[g]
  BY Goes
<1> QED  BY <1>1 DEF S!TypeOK, S!ProbeLinkReturned

(* The finally clause of async_probe_device: whatever stage fails, the link is *)
(* given back before the dialog goes on, or the clean-up has failed itself.     *)
THEOREM LinksReturned == ASSUME S!SetupAssumption PROVE S!Spec => []S!ProbeLinkReturned
<1>1. S!Init => S!ProbeLinkReturned
  BY DEF S!Init, S!ProbeLinkReturned
<1>2. ASSUME SetupInv, S!ProbeLinkReturned, [S!Next]_(S!vars) PROVE S!ProbeLinkReturned'
  <2> USE DEF Dialog, S!At
  <2> DEFINE Held == S!Probing \ {"connect", "decide"}
  <2>t. S!TypeOK /\ \A f \in Flows : flow[f] \in Dialog
    BY <1>2 DEF SetupInv, S!TypeOK
  <2>s. links \subseteq Flows /\ left \subseteq Flows
    BY <2>t DEF S!TypeOK
  <2>1. ASSUME NEW f \in Flows, NEW r \in Dialog, S!Go(f, r), UNCHANGED <<links, left>>,
               f \in links => r.pc \in Held \/ f \in left
        PROVE  S!ProbeLinkReturned'
    BY <1>2, <2>t, <2>s, <2>1, LinkKept
  <2>2. ASSUME NEW f \in Flows, NEW r \in Dialog, S!Go(f, r), UNCHANGED <<links, left>>,
               f \notin links \/ flow[f].pc \notin Held
        PROVE  S!ProbeLinkReturned'
    <3>1. f \in links => f \in left
      BY <1>2, <2>2 DEF S!ProbeLinkReturned
    <3> QED  BY <2>1, <2>2, <3>1
  <2>3. ASSUME NEW f \in Flows, NEW e \in Entries, NEW a \in Places \cup {Nowhere},
               S!Place(f, e, a), UNCHANGED <<links, left>>,
               flow[f].pc \notin Held \/ f \notin links
        PROVE  S!ProbeLinkReturned'
    <3>1. \A g \in Flows : flow'[g].pc = flow[g].pc \/ flow'[g].pc = "done"
      BY <2>3, <2>t, GivesAddress
    <3>2. \A g \in Flows \ {f} : flow'[g].pc = flow[g].pc
      BY <2>3, <2>t DEF S!Place, S!Ended, S!TypeOK
    <3>3. f \in links => f \in left
      BY <1>2, <2>3 DEF S!ProbeLinkReturned
    <3> QED  BY <1>2, <2>3, <2>s, <3>2, <3>3 DEF S!ProbeLinkReturned
  <2>9. ASSUME NEW f \in Flows, S!Confirm(f) PROVE S!ProbeLinkReturned'
    <3>1. flow[f].pc \notin Held /\ UNCHANGED <<links, left>>
      BY <2>9 DEF S!Confirm, S!Probing
    <3>2. \E r \in Dialog : S!Go(f, r)
      BY <2>9, <2>t DEF S!Confirm, S!Probing
    <3> QED  BY <2>2, <3>1, <3>2
  <2>10. ASSUME NEW f \in Flows, NEW a \in Places,
                S!Discover(f, a) \/ S!Select(f, a)
         PROVE  S!ProbeLinkReturned'
    <3>1. flow[f].pc \in {"idle", "form"} /\ UNCHANGED <<links, left>>
      BY <2>10 DEF S!Discover, S!Select, S!Open
    <3>2. flow[f].pc \notin Held
      BY <3>1 DEF S!Probing
    <3>3. \E r \in Dialog : S!Go(f, r)
      BY <2>10, <2>t DEF S!Discover, S!Select, S!Idle, S!Probing
    <3> QED  BY <2>2, <3>1, <3>2, <3>3
  <2>11. ASSUME NEW f \in Flows, NEW e \in Entries, NEW a \in Places, S!Reconfigure(f, e, a)
         PROVE  S!ProbeLinkReturned'
    <3>1. f \notin links /\ UNCHANGED <<links, left>>
      BY <2>11 DEF S!Reconfigure, S!Open
    <3>2. CASE S!Place(f, e, a)
      BY <2>3, <3>1, <3>2
    <3>3. CASE S!Go(f, [S!Idle EXCEPT !.pc = "connect", !.entry = e, !.target = a])
      <4>1. [S!Idle EXCEPT !.pc = "connect", !.entry = e, !.target = a] \in Dialog
        BY DEF S!Idle, S!Probing
      <4> QED  BY <2>2, <3>1, <3>3, <4>1
    <3> QED  BY <2>11, <3>2, <3>3 DEF S!Reconfigure
  <2>12. ASSUME NEW f \in Flows, S!Connect(f) PROVE S!ProbeLinkReturned'
    <3>1. flow[f].pc = "connect" /\ left' = left
      BY <2>12 DEF S!Connect
    <3>2. CASE links' = links \cup {f} /\ S!Go(f, [flow[f] EXCEPT !.pc = "subscribe"])
      <4> DEFINE r == [flow[f] EXCEPT !.pc = "subscribe"]
      <4>1. r \in Dialog /\ r.pc \in Held /\ S!Go(f, r)
        BY <2>t, <3>2 DEF S!Probing
      <4> HIDE DEF r, Held
      <4> QED  BY <1>2, <2>t, <2>s, <3>1, <3>2, <4>1, LinkKept DEF Held
    <3>3. CASE links' = links \cup {f} /\ S!Go(f, S!CleanUp(flow[f], TRUE))
      <4> DEFINE r == S!CleanUp(flow[f], TRUE)
      <4>1. r \in Dialog /\ r.pc \in Held /\ S!Go(f, r)
        BY <2>t, <3>3 DEF S!CleanUp, S!Probing
      <4> HIDE DEF r, Held
      <4> QED  BY <1>2, <2>t, <2>s, <3>1, <3>3, <4>1, LinkKept DEF Held
    <3>4. CASE links' = links /\ S!Go(f, [flow[f] EXCEPT !.pc = "decide"])
      <4>1. [flow[f] EXCEPT !.pc = "decide"] \in Dialog
        BY <2>t DEF S!Probing
      <4> QED  BY <2>2, <3>1, <3>4, <4>1
    <3> QED  BY <2>12, <3>2, <3>3, <3>4 DEF S!Connect
  <2>13. ASSUME NEW f \in Flows, S!Subscribe(f) \/ S!Request(f) \/ S!Await(f)
         PROVE  S!ProbeLinkReturned'
    <3> DEFINE o == [flow[f] EXCEPT !.ok = TRUE]
               up == f \in links
    <3>1. UNCHANGED <<links, left>> /\ o \in Dialog /\ up \in BOOLEAN
      <4>1. UNCHANGED <<links, left>>
        BY <2>13 DEF S!Subscribe, S!Request, S!Await, S!Stage
      <4>2. o \in Dialog
        BY <2>t
      <4> QED  BY <4>1, <4>2
    <3>2. \A d \in {flow[f], o} :
            S!CleanUp(d, up) \in Dialog /\ (up => S!CleanUp(d, up).pc \in Held)
      <4> HIDE DEF o, up
      <4>1. \A d \in Dialog :
            S!CleanUp(d, up) \in Dialog /\ (up => S!CleanUp(d, up).pc \in Held)
        BY <3>1 DEF S!CleanUp, S!Probing
      <4> QED  BY <2>t, <3>1, <4>1
    <3>3. [flow[f] EXCEPT !.pc = "request", !.subscribed = TRUE] \in Dialog
          /\ [flow[f] EXCEPT !.pc = "await"] \in Dialog
          /\ {"request", "await"} \subseteq Held
      BY <2>t DEF S!Probing
    <3>4. \/ S!Go(f, [flow[f] EXCEPT !.pc = "request", !.subscribed = TRUE])
          \/ S!Go(f, [flow[f] EXCEPT !.pc = "await"])
          \/ S!Go(f, S!CleanUp(o, up))
          \/ S!Go(f, S!CleanUp(flow[f], up))
      BY <2>13 DEF S!Subscribe, S!Request, S!Await, S!Stage
    <3>5. CASE S!Go(f, S!CleanUp(o, up)) \/ S!Go(f, S!CleanUp(flow[f], up))
      <4> PICK d \in {flow[f], o} : S!Go(f, S!CleanUp(d, up))
        BY <3>5
      <4> QED  BY <2>1, <3>1, <3>2
    <3>6. CASE S!Go(f, [flow[f] EXCEPT !.pc = "request", !.subscribed = TRUE])
      BY <2>1, <2>t, <3>1, <3>3, <3>6
    <3>7. CASE S!Go(f, [flow[f] EXCEPT !.pc = "await"])
      BY <2>1, <2>t, <3>1, <3>3, <3>7
    <3> QED  BY <3>4, <3>5, <3>6, <3>7
  <2>14. ASSUME NEW f \in Flows, S!Unsubscribe(f) \/ S!Disconnect(f) PROVE S!ProbeLinkReturned'
    <3>1. PICK pc \in {"disconnect", "decide"} : S!Go(f, [flow[f] EXCEPT !.pc = pc])
      BY <2>14 DEF S!Unsubscribe, S!Disconnect
    <3> DEFINE r == [flow[f] EXCEPT !.pc = pc]
    <3>2. r \in Dialog /\ r.pc = pc /\ S!Go(f, r)
      BY <2>t, <3>1 DEF S!Probing
    <3>3. /\ links' \subseteq links /\ left \subseteq left'
          /\ f \in links' => pc = "disconnect" \/ f \in left'
      <4>1. CASE S!Unsubscribe(f)
        <5>1. CASE S!Go(f, [flow[f] EXCEPT !.pc = "disconnect"]) /\ UNCHANGED left
          BY <2>t, <3>1, <4>1, <5>1 DEF S!Unsubscribe, S!Go, S!TypeOK
        <5>2. CASE left' = left \cup {f}
          BY <4>1, <5>2 DEF S!Unsubscribe
        <5> QED  BY <4>1, <5>1, <5>2 DEF S!Unsubscribe
      <4>2. CASE S!Disconnect(f)
        BY <4>2 DEF S!Disconnect
      <4> QED  BY <2>14, <4>1, <4>2
    <3>4. "disconnect" \in Held
      BY DEF S!Probing
    <3> HIDE DEF r
    <3> QED  BY <1>2, <2>t, <2>s, <3>2, <3>3, <3>4, LinkKept
  <2>15. ASSUME NEW f \in Flows, S!Drop(f) PROVE S!ProbeLinkReturned'
    BY <1>2, <2>15 DEF S!Drop, S!ProbeLinkReturned
  <2>16. ASSUME NEW f \in Flows, S!Fails(f) \/ S!Close(f) \/ S!Create(f) \/ S!Move(f)
         PROVE  S!ProbeLinkReturned'
    <3>1. UNCHANGED <<links, left>> /\ (flow[f].pc = "decide" \/ f \notin links)
          /\ flow[f].target \in Places \cup {Nowhere}
      BY <2>16, <2>t DEF S!Fails, S!Close, S!Create, S!Move
    <3>2. flow[f].pc \notin Held \/ f \notin links
      BY <3>1
    <3>3. \/ S!Go(f, [flow[f] EXCEPT !.pc = "form"]) \/ S!Go(f, S!Idle)
          \/ S!Go(f, [flow[f] EXCEPT !.pc = "done"])
          \/ \E e \in Entries : S!Place(f, e, flow[f].target)
      BY <2>16, <2>t DEF S!Fails, S!Close, S!Create, S!Move, S!Ended, S!Go
    <3>4. [flow[f] EXCEPT !.pc = "form"] \in Dialog /\ S!Idle \in Dialog
          /\ [flow[f] EXCEPT !.pc = "done"] \in Dialog
      BY <2>t DEF S!Idle
    <3> HIDE DEF Held
    <3>5. CASE \E e \in Entries : S!Place(f, e, flow[f].target)
      BY <2>3, <3>1, <3>2, <3>5
    <3> QED  BY <2>2, <3>1, <3>2, <3>3, <3>4, <3>5
  <2>17. ASSUME NEW e \in Entries, S!Remove(e) PROVE S!ProbeLinkReturned'
    BY <1>2, <2>17 DEF S!Remove, S!ProbeLinkReturned
  <2>18. CASE UNCHANGED S!vars
    BY <1>2, <2>18 DEF S!vars, S!ProbeLinkReturned
  <2> HIDE DEF Dialog, S!At, Held
  <2>19. CASE S!Next
    BY <2>9, <2>10, <2>11, <2>12, <2>13, <2>14, <2>15, <2>16, <2>17, <2>19 DEF S!Next
  <2> QED
    BY <1>2, <2>18, <2>19
<1>3. S!Spec => []SetupInv
  BY InitInv, NextInv, PTL DEF S!Spec
<1> QED  BY <1>1, <1>2, <1>3, PTL DEF S!Spec

-----------------------------------------------------------------------------
(* The same of the specification that is run. *)

LEMMA SetupPart == PartsSpec => S!Spec
<1>1. PartsInit => S!Init
  BY DEF PartsInit
<1>2. [PartsNext]_<<part, vars, control, identity, registry, setup>> => [S!Next]_(S!vars)
  BY DEF PartsNext, setup, S!vars
<1> QED  BY <1>1, <1>2, PTL DEF PartsSpec, S!Spec

(* OvertakenOnly, for every number of dialogs, entries and addresses: two    *)
(* entries share an address only where one was moved there by a dialog that had *)
(* been overtaken (_async_probe_and_create, async_step_reconfigure).            *)
THEOREM PartsOvertakenOnly == PartsSpec => []OvertakenOnly
<1>1. S!OvertakenOnly => OvertakenOnly
  BY DEF OvertakenOnly
<1> QED  BY <1>1, SetupPart, OnlyTheOvertaken, SetupParameters, PTL

(* ProbeLinkReturned, for every number of dialogs: a link is never left behind  *)
(* but where the clean-up failed itself (async_probe_device).                   *)
THEOREM PartsLinksReturned == PartsSpec => []ProbeLinkReturned
<1>1. S!ProbeLinkReturned => ProbeLinkReturned
  BY DEF ProbeLinkReturned
<1> QED  BY <1>1, SetupPart, LinksReturned, SetupParameters, PTL

-----------------------------------------------------------------------------
(* Registry records. *)

(* The registry ids there have been, and all records of entities. *)
KnownId == Addresses \cup 1..used
All   == entities \cup removedEntities

(* Until a replacement is finished, whatever there is belongs to the station  *)
(* of the last finished transition, as does what could be restored.           *)
Stationed ==
    /\ settled <= used /\ station <= used
    /\ IF replace THEN pending /\ station # settled ELSE station = settled
    /\ \A e \in entities : e.station = settled
    /\ \A e \in removedEntities : e.id \in {R!Source, registryId} => e.station = settled
    /\ \A d \in devices : d.station = settled

(* A replacement has an id that no record has, as id or in its name.          *)
Named ==
    /\ registryId \in KnownId /\ previous \in KnownId /\ prefix \in {Retired} \cup 1..used
    /\ \A e \in All : e.id \in KnownId \cup {Stray} /\ e.name \in {Retired, Stray} \cup 1..used
    /\ replace => /\ registryId \in 1..used /\ prefix # registryId
                  /\ \A e \in All : registryId \notin {e.id, e.name}

(* The prefix in use stands for one station, as does each before it.          *)
Prefixed ==
    /\ \A e \in All : e.name = prefix => e.station = settled
    /\ \A e, f \in All : e.key = f.key /\ e.name = f.name => e.station = f.station

(* No two records of one thing; none of another id once nothing is pending.   *)
Single ==
    /\ \A e, f \in entities : e.key = f.key /\ e.id = f.id => e = f
    /\ \A d, e \in devices : d = e
    /\ ~pending => /\ \A e \in entities : e.id \in {registryId, Stray}
                   /\ \A d \in devices : d.address = address
    /\ \A d \in removedDevices : d.id = Retired /\ d.address = NoAddress
    /\ loaded => /\ ~pending /\ \A k \in Keys : R!Found(k) # {}
                 /\ \E d \in devices : d.id = registryId

RegistryInv == R!TypeOK /\ Stationed /\ Named /\ Prefixed /\ Single

-----------------------------------------------------------------------------
(* Ids and records. *)

LEMMA KnownIds ==
    ASSUME R!RegistryAssumption, used \in R!Stations
    PROVE  /\ KnownId \subseteq R!Ids /\ used \in Nat /\ MaxIds \in Nat
           /\ Retired \notin KnownId /\ Stray \notin KnownId
           /\ used + 1 \notin KnownId /\ used + 1 \notin {Retired, Stray}
           /\ used + 1 \in R!Ids => used + 1 \in R!Stations
           /\ Retired \in R!Ids /\ Stray \in R!Ids
  BY DEF R!RegistryAssumption, R!Stations, KnownId, R!Ids

LEMMA RenamedEntity ==
    ASSUME registryId \in R!Ids, NEW e \in R!Entity
    PROVE  /\ R!Renamed(e) \in R!Entity
           /\ R!Renamed(e).key = e.key /\ R!Renamed(e).name = e.name
           /\ R!Renamed(e).station = e.station
           /\ R!Renamed(e).id = IF e.id = previous THEN registryId ELSE e.id
  BY DEF R!Renamed, R!Entity

LEMMA MovedDevice ==
    ASSUME registryId \in R!Ids, address \in Addresses, NEW d \in R!Device
    PROVE  /\ R!Moved(d) \in R!Device
           /\ R!Moved(d).address = address /\ R!Moved(d).station = d.station
  <1> DEFINE id == IF d.id = previous THEN registryId ELSE d.id
  <1>1. R!Moved(d) = [d EXCEPT !.id = id, !.address = address]
    BY DEF R!Moved
  <1>2. id \in R!Ids
    BY DEF R!Device
  <1> HIDE DEF id
  <1> QED
    BY <1>1, <1>2 DEF R!Device

LEMMA UnlistedDevice ==
    ASSUME R!RegistryAssumption, NEW d \in R!Device
    PROVE  /\ R!Unlisted(d) \in R!Device
           /\ R!Unlisted(d).id = Retired /\ R!Unlisted(d).address = NoAddress
           /\ R!Unlisted(d).station = d.station
  <1>1. Retired \in R!Ids
    BY DEF R!Ids
  <1> QED
    BY <1>1 DEF R!Unlisted, R!Device

-----------------------------------------------------------------------------
(* The beginning. *)

LEMMA RegistryInit == ASSUME R!RegistryAssumption, R!Init PROVE RegistryInv
  <1>1. /\ used = 0 /\ settled = 0 /\ station = 0
        /\ pending = FALSE /\ replace = FALSE /\ loaded = TRUE
        /\ prefix = Retired /\ registryId = address /\ previous = address
        /\ address \in Addresses /\ opaque = FALSE
        /\ removedEntities = {} /\ removedDevices = {}
        /\ devices = {[id |-> address, address |-> address, station |-> 0]}
    BY DEF R!Init
  <1>2. used \in R!Stations /\ 0 \in R!Stations /\ MaxIds \in Nat
    BY <1>1 DEF R!RegistryAssumption, R!Stations
  <1>3. /\ KnownId \subseteq R!Ids /\ Retired \notin KnownId /\ Stray \notin KnownId
        /\ Retired \in R!Ids /\ Stray \in R!Ids /\ address \in KnownId
    BY <1>1, <1>2, KnownIds DEF KnownId
  <1>4. \A k \in Keys : /\ R!NewEntity(k, Retired, 0) \in R!Entity
                        /\ R!NewEntity(k, Retired, 0).key = k
                        /\ R!NewEntity(k, Retired, 0).id = address
                        /\ R!NewEntity(k, Retired, 0).name = Retired
                        /\ R!NewEntity(k, Retired, 0).station = 0
    BY <1>1, <1>2, <1>3 DEF R!NewEntity, R!Entity
  <1>5. PICK stray \in SUBSET {CHOOSE k \in Keys : TRUE} :
          entities = {R!NewEntity(k, Retired, 0) : k \in Keys}
             \cup {[key |-> k, id |-> Stray, name |-> Stray, station |-> 0] : k \in stray}
    BY DEF R!Init
  <1>6. (CHOOSE k \in Keys : TRUE) \in Keys
    BY DEF R!RegistryAssumption
  <1>7. \A e \in entities :
          /\ e \in R!Entity /\ e.station = 0
          /\ \/ e = R!NewEntity(e.key, Retired, 0) /\ e.id = address /\ e.name = Retired
             \/ /\ e = [key |-> e.key, id |-> Stray, name |-> Stray, station |-> 0]
                /\ e.id = Stray /\ e.name = Stray
    <2> SUFFICES ASSUME NEW e \in entities
                 PROVE  /\ e \in R!Entity /\ e.station = 0
                        /\ \/ e = R!NewEntity(e.key, Retired, 0) /\ e.id = address
                              /\ e.name = Retired
                           \/ /\ e = [key |-> e.key, id |-> Stray, name |-> Stray,
                                      station |-> 0]
                              /\ e.id = Stray /\ e.name = Stray
      OBVIOUS
    <2>1. CASE \E k \in Keys : e = R!NewEntity(k, Retired, 0)
      BY <1>4, <2>1
    <2>2. CASE \E k \in stray : e = [key |-> k, id |-> Stray, name |-> Stray, station |-> 0]
      BY <1>2, <1>3, <1>6, <2>2 DEF R!Entity
    <2> QED
      BY <1>5, <2>1, <2>2
  <1>8. Stray # address
    BY <1>3
  <1>9. R!TypeOK
    <2>1. devices \subseteq R!Device
      BY <1>1, <1>2, <1>3 DEF R!Device
    <2>2. /\ registryId \in R!Ids /\ previous \in R!Ids /\ prefix \in R!Ids
          /\ station \in R!Stations /\ settled \in R!Stations
      BY <1>1, <1>2, <1>3
    <2>3. entities \subseteq R!Entity
      BY <1>7
    <2> QED
      BY <1>1, <1>2, <2>1, <2>2, <2>3 DEF R!TypeOK
  <1>10. Stationed
    BY <1>1, <1>7 DEF Stationed
  <1>11. Named
    BY <1>1, <1>3, <1>7 DEF Named, All
  <1>12. Prefixed
    BY <1>1, <1>7 DEF Prefixed, All
  <1>13. Single
    <2>1. \A e, f \in entities : e.key = f.key /\ e.id = f.id => e = f
      BY <1>7, <1>8
    <2>2. \A k \in Keys : R!Found(k) # {}
      <3> SUFFICES ASSUME NEW k \in Keys PROVE R!Found(k) # {}
        OBVIOUS
      <3>1. R!NewEntity(k, Retired, 0) \in entities
        BY <1>5
      <3> QED
        BY <1>1, <1>4, <3>1 DEF R!Found
    <2> QED
      BY <1>1, <1>7, <2>1, <2>2 DEF Single
  <1> QED
    BY <1>9, <1>10, <1>11, <1>12, <1>13 DEF RegistryInv

-----------------------------------------------------------------------------
(* The dialog. *)

LEMMA Reconfigured ==
    ASSUME R!RegistryAssumption, RegistryInv, NEW a \in Addresses,
           NEW choice \in {"same_device", "replacement"}, R!Reconfigure(a, choice)
    PROVE  /\ UNCHANGED <<prefix, R!records, settled>>
           /\ pending' = TRUE /\ loaded' = FALSE /\ opaque' = TRUE /\ address' = a
           /\ previous' = R!Source /\ R!Source \in KnownId /\ replace' \in BOOLEAN
           /\ registryId' \in R!Ids /\ used' \in R!Stations
           /\ \/ registryId' = used + 1 /\ used' = used + 1
              \/ registryId' \in {R!Source, registryId} /\ used' = used /\ ~replace'
           /\ IF replace' THEN station' # settled ELSE station' = settled
           /\ station' <= used' /\ station' \in R!Stations
  <1>1. /\ registryId \in KnownId /\ previous \in KnownId /\ used \in R!Stations
        /\ station \in R!Stations /\ settled \in R!Stations /\ replace \in BOOLEAN
        /\ settled <= used /\ station <= used
        /\ IF replace THEN pending /\ station # settled ELSE station = settled
    BY DEF RegistryInv, R!TypeOK, Stationed, Named
  <1>2. /\ used \in Nat /\ MaxIds \in Nat /\ used + 1 \notin KnownId
        /\ used + 1 \in R!Ids => used + 1 \in R!Stations
    BY <1>1, KnownIds
  <1>3. R!Source \in KnownId
    BY <1>1 DEF R!Source
  <1>4. PICK id \in IF R!Rollback(a, choice) THEN {R!Source}
                    ELSE IF R!Replaces(a, choice) \/ ~opaque THEN {used + 1} ELSE {registryId} :
          /\ id \in R!Ids /\ registryId' = id /\ used' = IF id = used + 1 THEN id ELSE used
    BY DEF R!Reconfigure
  <1>5. /\ UNCHANGED <<prefix, R!records, settled>>
        /\ pending' = TRUE /\ loaded' = FALSE /\ opaque' = TRUE /\ address' = a
        /\ previous' = R!Source /\ replace' = R!Replaces(a, choice)
        /\ station' = CASE R!Rollback(a, choice)    -> settled
                        [] choice = "replacement" -> used'
                        [] OTHER                  -> station
    BY DEF R!Reconfigure
  <1>6. /\ R!Rollback(a, choice) => choice = "same_device"
        /\ R!Replaces(a, choice) <=>
             ~R!Rollback(a, choice) /\ (choice = "replacement" \/ replace)
    BY DEF R!Rollback, R!Replaces
  <1>7. CASE id = used + 1
    <2>1. ~R!Rollback(a, choice)
      BY <1>2, <1>3, <1>4, <1>7
    <2>2. station' = IF choice = "replacement" THEN used + 1 ELSE station
      BY <1>4, <1>5, <1>7, <2>1
    <2>3. used' = used + 1 /\ registryId' = used + 1 /\ used' \in R!Stations
      BY <1>2, <1>4, <1>7
    <2>4. replace' <=> (choice = "replacement" \/ replace)
      BY <1>5, <1>6, <2>1
    <2>5. IF replace' THEN station' # settled ELSE station' = settled
      BY <1>1, <1>2, <2>2, <2>4 DEF R!Stations
    <2>6. station' <= used' /\ station' \in R!Stations
      BY <1>1, <1>2, <2>2, <2>3 DEF R!Stations
    <2>7. replace' \in BOOLEAN
      BY <1>5 DEF R!Replaces
    <2> QED
      BY <1>3, <1>4, <1>5, <2>3, <2>5, <2>6, <2>7
  <1>8. CASE id # used + 1
    <2>1. id \in {R!Source, registryId} /\ ~R!Replaces(a, choice)
      BY <1>4, <1>6, <1>8
    <2>2. station' = IF R!Rollback(a, choice) THEN settled ELSE station
      BY <1>5, <1>6, <2>1
    <2>3. station' = settled
      BY <1>1, <1>6, <2>1, <2>2
    <2>4. ~replace' /\ replace' \in BOOLEAN
      BY <1>5, <2>1 DEF R!Replaces
    <2> QED
      BY <1>1, <1>3, <1>4, <1>5, <1>8, <2>1, <2>3, <2>4
  <1> QED
    BY <1>7, <1>8

LEMMA ReconfigureStep ==
    ASSUME R!RegistryAssumption, RegistryInv, NEW a \in Addresses,
           NEW choice \in {"same_device", "replacement"}, R!Reconfigure(a, choice)
    PROVE  RegistryInv'
  <1>1. /\ UNCHANGED <<prefix, R!records, settled>>
        /\ pending' = TRUE /\ loaded' = FALSE /\ opaque' = TRUE /\ address' = a
        /\ previous' = R!Source /\ R!Source \in KnownId /\ replace' \in BOOLEAN
        /\ registryId' \in R!Ids /\ used' \in R!Stations
        /\ \/ registryId' = used + 1 /\ used' = used + 1
           \/ registryId' \in {R!Source, registryId} /\ used' = used /\ ~replace'
        /\ IF replace' THEN station' # settled ELSE station' = settled
        /\ station' <= used' /\ station' \in R!Stations
    BY Reconfigured
  <1>2. UNCHANGED <<entities, devices, removedEntities, removedDevices, prefix, settled>>
    BY <1>1 DEF R!records
  <1>3. All' = All
    BY <1>2 DEF All
  <1>4. /\ KnownId \subseteq R!Ids /\ used \in Nat /\ used + 1 \notin KnownId
        /\ used + 1 # Retired /\ used + 1 # Stray
    BY KnownIds DEF RegistryInv, R!TypeOK
  <1>5. KnownId \subseteq KnownId' /\ registryId' \in KnownId' /\ 1..used \subseteq 1..used'
    <2>1. registryId \in KnownId
      BY DEF RegistryInv, Named
    <2> QED
      BY <1>1, <1>4, <2>1 DEF KnownId
  <1>6. R!Source' = R!Source
    BY <1>1 DEF R!Source
  <1>7. R!TypeOK'
    BY <1>1, <1>2, <1>4 DEF RegistryInv, R!TypeOK
  <1>8. Stationed'
    <2>1. settled' <= used'
      BY <1>1, <1>2, <1>4 DEF RegistryInv, Stationed, R!TypeOK, R!Stations
    <2>2. \A e \in removedEntities : e.id \in {R!Source, registryId'} => e.station = settled
      <3> SUFFICES ASSUME NEW e \in removedEntities, e.id \in {R!Source, registryId'}
                   PROVE  e.station = settled
        OBVIOUS
      <3>1. e.id \in KnownId \cup {Stray}
        BY DEF RegistryInv, Named, All
      <3>2. e.id \in {R!Source, registryId}
        BY <1>1, <1>4, <3>1
      <3> QED
        BY <3>2 DEF RegistryInv, Stationed
    <2> QED
      BY <1>1, <1>2, <1>6, <2>1, <2>2 DEF RegistryInv, Stationed
  <1>9. Named'
    <2>1. /\ previous' \in KnownId' /\ prefix' \in {Retired} \cup 1..used'
          /\ \A e \in All' : e.id \in KnownId' \cup {Stray}
                             /\ e.name \in {Retired, Stray} \cup 1..used'
      BY <1>1, <1>2, <1>3, <1>5 DEF RegistryInv, Named
    <2>2. ASSUME replace'
          PROVE  /\ registryId' \in 1..used' /\ prefix' # registryId'
                 /\ \A e \in All' : registryId' \notin {e.id, e.name}
      <3>1. registryId' = used + 1 /\ used' = used + 1
        BY <1>1, <2>2
      <3>2. prefix' # registryId'
        BY <1>2, <1>4, <3>1 DEF RegistryInv, Named
      <3>3. \A e \in All : used + 1 \notin {e.id, e.name}
        BY <1>4 DEF RegistryInv, Named
      <3> QED
        BY <1>3, <1>4, <3>1, <3>2, <3>3
    <2> QED
      BY <1>5, <2>1, <2>2 DEF Named
  <1>10. Prefixed'
    BY <1>2, <1>3 DEF RegistryInv, Prefixed
  <1>11. Single'
    BY <1>1, <1>2 DEF RegistryInv, Single
  <1> QED
    BY <1>7, <1>8, <1>9, <1>10, <1>11 DEF RegistryInv

-----------------------------------------------------------------------------
(* The setup. *)

(* Entities that keep their names keep the prefixes apart.                     *)
LEMMA KeptApart ==
    ASSUME RegistryInv, UNCHANGED <<prefix, settled>>, removedEntities' \subseteq All,
           \A e \in entities' : /\ e.station = settled
                                /\ \/ \E f \in entities : f.key = e.key /\ f.name = e.name
                                   \/ e.name = prefix
    PROVE  Prefixed'
  <1>1. /\ \A e \in All : e.name = prefix => e.station = settled
        /\ \A e, f \in All : e.key = f.key /\ e.name = f.name => e.station = f.station
        /\ \A e \in entities : e \in All /\ e.station = settled
    BY DEF RegistryInv, Prefixed, Stationed, All
  <1>2. \A e \in All' : e.name = prefix => e.station = settled
    BY <1>1 DEF All
  <1>3. ASSUME NEW e \in All', NEW f \in All', e.key = f.key, e.name = f.name
        PROVE  e.station = f.station
    <2>1. CASE e \in All /\ f \in All
      BY <1>1, <1>3, <2>1
    <2>2. CASE e.name = prefix
      BY <1>2, <1>3, <2>2
    <2>3. CASE e \in entities' /\ f \in entities'
      BY <2>3
    <2>4. CASE e \in entities' /\ f \in All /\ e.name # prefix
      BY <1>1, <1>3, <2>4
    <2>5. CASE f \in entities' /\ e \in All /\ e.name # prefix
      BY <1>1, <1>3, <2>5
    <2> QED
      BY <2>1, <2>2, <2>3, <2>4, <2>5 DEF All
  <1> QED
    BY <1>2, <1>3 DEF Prefixed

(* A replacement takes records away and adds none.                            *)
LEMMA Replacing ==
    ASSUME R!RegistryAssumption, RegistryInv, replace,
           NEW some \in SUBSET entities, R!Apply(some)
    PROVE  /\ entities' = entities \ some /\ All' = All
           /\ removedEntities' = removedEntities \cup some
           /\ \A d \in devices' : d \in R!Device /\ d.station = settled
           /\ \A d, e \in devices' : d = e
           /\ \A d \in removedDevices' \ removedDevices :
                d \in R!Device /\ d.id = Retired /\ d.address = NoAddress
  <1>1. entities' = entities \ some /\ removedEntities' = removedEntities \cup some
    BY DEF R!Apply
  <1>2. All' = All
    BY <1>1 DEF All
  <1>3. /\ \A d \in devices : d \in R!Device /\ d.station = settled
        /\ \A d, e \in devices : d = e
    BY DEF RegistryInv, R!TypeOK, Stationed, Single
  <1>4. \A d \in devices : /\ R!Unlisted(d) \in R!Device /\ R!Unlisted(d).id = Retired
                           /\ R!Unlisted(d).address = NoAddress
                           /\ R!Unlisted(d).station = settled
    BY <1>3, UnlistedDevice
  <1>5. \/ /\ devices' = {}
           /\ removedDevices' = removedDevices \cup {R!Unlisted(d) : d \in devices}
        \/ devices' = {R!Unlisted(d) : d \in devices} /\ removedDevices' = removedDevices
        \/ devices' = devices /\ removedDevices' = removedDevices
    BY DEF R!Apply
  <1> QED
    BY <1>1, <1>2, <1>3, <1>4, <1>5

(* The same device's records all keep what the user made of them.             *)
LEMMA Migrating ==
    ASSUME R!RegistryAssumption, RegistryInv, pending, ~replace,
           NEW some \in SUBSET entities, R!Apply(some)
    PROVE  /\ removedEntities' = removedEntities /\ removedDevices' = removedDevices
           /\ entities' = (entities \ some) \cup {R!Renamed(e) : e \in some}
           /\ \A e \in entities' : e \in R!Entity /\ e.station = settled
           /\ \A e \in entities' : e.id \in {previous, registryId}
           /\ some = entities => \A e \in entities' : e.id = registryId
           /\ \A e \in entities' : \E f \in entities : f.key = e.key /\ f.name = e.name
           /\ \A e \in entities : \E f \in entities' : f.key = e.key /\ f.name = e.name
           /\ \A e, f \in entities' : e.key = f.key /\ e.id = f.id => e = f
           /\ \A d \in devices' : d \in R!Device /\ d.station = settled
           /\ \A d, e \in devices' : d = e
           /\ devices # {} => devices' # {}
  <1>1. /\ removedEntities' = removedEntities /\ removedDevices' = removedDevices
        /\ entities' = (entities \ some) \cup {R!Renamed(e) : e \in some}
        /\ devices' \in {devices, {R!Moved(d) : d \in devices}}
        /\ ~R!Conflicts(previous, registryId, address)
    BY DEF R!Apply
  <1>2. /\ registryId \in R!Ids /\ address \in Addresses
        /\ \A e \in entities : e \in R!Entity /\ e.station = settled
        /\ \A d \in devices : d \in R!Device /\ d.station = settled
        /\ \A d, e \in devices : d = e
        /\ \A e, f \in entities : e.key = f.key /\ e.id = f.id => e = f
    BY DEF RegistryInv, R!TypeOK, Stationed, Single
  <1>3. /\ \A e \in entities : e.id \in {previous, registryId}
        /\ \A e, f \in entities : e.key = f.key /\ f.id = registryId => e = f
    BY <1>1 DEF R!Conflicts
  <1>4. \A e \in entities :
          /\ R!Renamed(e) \in R!Entity
          /\ R!Renamed(e).key = e.key /\ R!Renamed(e).name = e.name
          /\ R!Renamed(e).station = settled /\ R!Renamed(e).id = registryId
    BY <1>2, <1>3, RenamedEntity
  <1>5. \A d \in devices : R!Moved(d) \in R!Device /\ R!Moved(d).station = settled
    BY <1>2, MovedDevice
  <1>6. /\ \A d \in devices' : d \in R!Device /\ d.station = settled
        /\ \A d, e \in devices' : d = e
        /\ devices # {} => devices' # {}
    <2>1. CASE devices' = devices
      BY <1>2, <2>1
    <2>2. CASE devices' = {R!Moved(d) : d \in devices}
      BY <1>2, <1>5, <2>2
    <2> QED
      BY <1>1, <2>1, <2>2
  <1>7. \A e, f \in entities' : e.key = f.key /\ e.id = f.id => e = f
    <2> SUFFICES ASSUME NEW e \in entities', NEW f \in entities', e.key = f.key, e.id = f.id
                 PROVE  e = f
      OBVIOUS
    <2>1. PICK g \in entities : g.key = e.key /\ e = (IF g \in some THEN R!Renamed(g) ELSE g)
      BY <1>1, <1>4
    <2>2. PICK h \in entities : h.key = f.key /\ f = (IF h \in some THEN R!Renamed(h) ELSE h)
      BY <1>1, <1>4
    <2>3. CASE g = h
      BY <2>1, <2>2, <2>3
    <2>4. CASE g # h
      <3>1. g.key = h.key
        BY <2>1, <2>2
      <3>2. g.id # registryId /\ h.id # registryId
        BY <1>3, <2>4, <3>1
      <3>3. g.id = h.id
        BY <1>3, <3>2
      <3> QED
        BY <1>2, <2>4, <3>1, <3>3
    <2> QED
      BY <2>3, <2>4
  <1>8. /\ \A e \in entities' : e \in R!Entity /\ e.station = settled
        /\ \A e \in entities' : e.id \in {previous, registryId}
        /\ some = entities => \A e \in entities' : e.id = registryId
        /\ \A e \in entities' : \E f \in entities : f.key = e.key /\ f.name = e.name
    BY <1>1, <1>2, <1>3, <1>4
  <1>9. \A e \in entities : \E f \in entities' : f.key = e.key /\ f.name = e.name
    BY <1>1, <1>4
  <1> QED
    BY <1>1, <1>6, <1>7, <1>8, <1>9

LEMMA FailureStep ==
    ASSUME R!RegistryAssumption, RegistryInv, R!TransitionFails
    PROVE  RegistryInv'
  <1>1. PICK some \in SUBSET entities : R!Apply(some)
    BY DEF R!TransitionFails
  <1>2. /\ pending
        /\ UNCHANGED <<address, registryId, opaque, previous, replace, pending, prefix,
                       loaded, used, station, settled>>
    BY DEF R!TransitionFails, R!entry
  <1>3. KnownId' = KnownId /\ R!Source' = R!Source /\ ~loaded
    BY <1>2 DEF KnownId, R!Source, RegistryInv, Single
  <1>4. CASE replace
    <2>1. /\ entities' = entities \ some /\ All' = All
          /\ removedEntities' = removedEntities \cup some
          /\ \A d \in devices' : d \in R!Device /\ d.station = settled
          /\ \A d, e \in devices' : d = e
          /\ \A d \in removedDevices' \ removedDevices :
               d \in R!Device /\ d.id = Retired /\ d.address = NoAddress
      BY <1>1, <1>4, Replacing
    <2>2. R!TypeOK'
      BY <1>2, <2>1 DEF RegistryInv, R!TypeOK
    <2>3. Stationed'
      BY <1>2, <1>3, <2>1 DEF RegistryInv, Stationed
    <2>4. Named'
      BY <1>2, <1>3, <2>1 DEF RegistryInv, Named
    <2>5. Prefixed'
      BY <1>2, <2>1 DEF RegistryInv, Prefixed
    <2>6. Single'
      BY <1>2, <1>3, <2>1 DEF RegistryInv, Single
    <2> QED
      BY <2>2, <2>3, <2>4, <2>5, <2>6 DEF RegistryInv
  <1>5. CASE ~replace
    <2>1. /\ removedEntities' = removedEntities /\ removedDevices' = removedDevices
          /\ \A e \in entities' : e \in R!Entity /\ e.station = settled
          /\ \A e \in entities' : e.id \in {previous, registryId}
          /\ \A e \in entities' : \E f \in entities : f.key = e.key /\ f.name = e.name
          /\ \A e, f \in entities' : e.key = f.key /\ e.id = f.id => e = f
          /\ \A d \in devices' : d \in R!Device /\ d.station = settled
          /\ \A d, e \in devices' : d = e
      BY <1>1, <1>2, <1>5, Migrating
    <2>2. R!TypeOK'
      BY <1>2, <2>1 DEF RegistryInv, R!TypeOK
    <2>3. Stationed'
      BY <1>2, <1>3, <2>1 DEF RegistryInv, Stationed
    <2>4. Named'
      BY <1>2, <1>3, <1>5, <2>1 DEF RegistryInv, Named, All
    <2>5. Prefixed'
      <3>1. removedEntities' \subseteq All
        BY <2>1 DEF All
      <3> QED
        BY <1>2, <2>1, <3>1, KeptApart
    <2>6. Single'
      BY <1>2, <1>3, <2>1 DEF RegistryInv, Single
    <2> QED
      BY <2>2, <2>3, <2>4, <2>5, <2>6 DEF RegistryInv
  <1> QED
    BY <1>4, <1>5

LEMMA TransitionStep ==
    ASSUME R!RegistryAssumption, RegistryInv, R!Transition
    PROVE  RegistryInv'
  <1>1. /\ pending /\ R!Apply(entities) /\ R!Done /\ entities \in SUBSET entities
        /\ pending' = FALSE /\ replace' = FALSE /\ settled' = station
        /\ prefix' = IF replace THEN registryId ELSE prefix
        /\ UNCHANGED <<address, registryId, opaque, previous, loaded, used, station>>
    BY DEF R!Transition, R!PrefixKept
  <1>2. KnownId' = KnownId /\ R!Source' = registryId /\ ~loaded
    BY <1>1 DEF KnownId, R!Source, RegistryInv, Single
  <1>3. CASE replace
    <2>1. /\ entities' = {} /\ All' = All /\ devices' = {}
          /\ \A d \in removedDevices' \ removedDevices :
               d \in R!Device /\ d.id = Retired /\ d.address = NoAddress
      BY <1>1, <1>3, Replacing DEF R!Done
    <2>2. removedEntities' = All
      BY <2>1 DEF All
    <2>3. /\ registryId \in 1..used /\ prefix # registryId
          /\ \A e \in All : registryId \notin {e.id, e.name}
      BY <1>3 DEF RegistryInv, Named
    <2>4. R!TypeOK'
      <3>1. removedEntities' \subseteq R!Entity
        BY <2>2 DEF All, RegistryInv, R!TypeOK
      <3> QED
        BY <1>1, <1>3, <2>1, <3>1 DEF RegistryInv, R!TypeOK
    <2>5. Stationed'
      BY <1>1, <1>2, <2>1, <2>2, <2>3 DEF RegistryInv, Stationed
    <2>6. Named'
      BY <1>1, <1>2, <1>3, <2>1, <2>3 DEF RegistryInv, Named
    <2>7. Prefixed'
      BY <1>1, <1>3, <2>1, <2>3 DEF RegistryInv, Prefixed
    <2>8. Single'
      BY <1>1, <1>2, <2>1 DEF RegistryInv, Single
    <2> QED
      BY <2>4, <2>5, <2>6, <2>7, <2>8 DEF RegistryInv
  <1>4. CASE ~replace
    <2>1. /\ removedEntities' = removedEntities /\ removedDevices' = removedDevices
          /\ \A e \in entities' : e \in R!Entity /\ e.station = settled /\ e.id = registryId
          /\ \A e \in entities' : \E f \in entities : f.key = e.key /\ f.name = e.name
          /\ \A e, f \in entities' : e.key = f.key /\ e.id = f.id => e = f
          /\ \A d \in devices' : d \in R!Device /\ d.station = settled
          /\ \A d, e \in devices' : d = e
      BY <1>1, <1>4, Migrating
    <2>2. prefix' = prefix /\ station = settled
      BY <1>1, <1>4 DEF RegistryInv, Stationed
    <2>3. R!TypeOK'
      BY <1>1, <2>1, <2>2 DEF RegistryInv, R!TypeOK
    <2>4. Stationed'
      BY <1>1, <1>2, <2>1, <2>2 DEF RegistryInv, Stationed
    <2>5. Named'
      BY <1>1, <1>2, <2>1, <2>2 DEF RegistryInv, Named, All
    <2>6. Prefixed'
      <3>1. removedEntities' \subseteq All
        BY <2>1 DEF All
      <3>2. settled' = settled
        BY <1>1, <2>2
      <3> QED
        BY <2>1, <2>2, <3>1, <3>2, KeptApart
    <2>7. Single'
      <3>1. \A d \in devices' : d.address = address'
        BY <1>1, <1>4 DEF R!Done
      <3> QED
        BY <1>1, <1>2, <2>1, <3>1 DEF RegistryInv, Single
    <2> QED
      BY <2>3, <2>4, <2>5, <2>6, <2>7 DEF RegistryInv
  <1> QED
    BY <1>3, <1>4

(* What the platforms add is the station's own, new or restored.              *)
LEMMA Loaded ==
    ASSUME R!RegistryAssumption, RegistryInv, R!Load
    PROVE  /\ ~pending /\ ~replace /\ station = settled /\ loaded' = TRUE
           /\ UNCHANGED <<address, registryId, opaque, previous, replace, pending, prefix,
                          used, station, settled>>
           /\ entities \subseteq entities' /\ removedEntities' \subseteq removedEntities
           /\ \A k \in Keys : \E e \in entities' : e.key = k /\ e.id = registryId
           /\ \A e \in entities' \ entities :
                /\ e \in R!Entity /\ e.id = registryId /\ e.station = station
                /\ R!Found(e.key) = {}
                /\ e \in All \/ e.name = prefix
           /\ \A e, f \in entities' \ entities : e.key = f.key => e = f
           /\ \E d \in R!Device : devices' = {d} /\ d.id = registryId /\ d.address = address
                                /\ d.station = station
           /\ removedDevices' \subseteq removedDevices
  <1>1. /\ ~pending /\ loaded' = TRUE
        /\ UNCHANGED <<address, registryId, opaque, previous, replace, pending, prefix,
                       used, station, settled>>
    BY DEF R!Load, R!entry
  <1>2. ~replace /\ station = settled /\ R!Source = registryId
    BY <1>1 DEF RegistryInv, Stationed, R!Source
  <1>3. PICK make \in [Keys -> UNION {R!Entities(k) : k \in Keys}] :
          /\ \A k \in Keys : make[k] \in R!Entities(k)
          /\ entities' = entities \cup {make[k] : k \in Keys}
          /\ removedEntities' = removedEntities \ {make[k] : k \in Keys}
    BY DEF R!Load
  <1>4. /\ registryId \in KnownId /\ KnownId \subseteq R!Ids /\ Retired \notin KnownId
        /\ registryId \in R!Ids /\ prefix \in R!Ids /\ station \in R!Stations /\ address \in Addresses
        /\ entities \subseteq R!Entity /\ removedEntities \subseteq R!Entity
        /\ devices \subseteq R!Device /\ removedDevices \subseteq R!Device
    BY KnownIds DEF RegistryInv, R!TypeOK, Named
  <1>5. ASSUME NEW k \in Keys
        PROVE  /\ make[k] \in R!Entity /\ make[k].key = k /\ make[k].id = registryId
               /\ make[k].station = station
               /\ make[k] \in entities \/ R!Found(k) = {}
               /\ make[k] \in All \/ make[k].name = prefix
    <2>1. make[k] \in R!Entities(k)
      BY <1>3
    <2>2. CASE R!Found(k) # {}
      <3>1. make[k] \in entities /\ make[k].key = k /\ make[k].id = registryId
        BY <2>1, <2>2 DEF R!Entities, R!Found
      <3> QED
        BY <1>2, <1>4, <3>1 DEF All, RegistryInv, Stationed
    <2>3. CASE R!Found(k) = {} /\ R!Restored(k) # {}
      <3>1. make[k] \in removedEntities /\ make[k].key = k /\ make[k].id = registryId
        BY <2>1, <2>3 DEF R!Entities, R!Restored
      <3> QED
        BY <1>2, <1>4, <2>3, <3>1 DEF All, RegistryInv, Stationed
    <2>4. CASE R!Found(k) = {} /\ R!Restored(k) = {}
      <3>1. make[k] = [key |-> k, id |-> registryId, name |-> prefix, station |-> station]
        BY <2>1, <2>4 DEF R!Entities, R!NewEntity
      <3> QED
        BY <1>4, <2>4, <3>1 DEF R!Entity
    <2> QED
      BY <2>2, <2>3, <2>4
  <1>6. PICK d \in R!DeviceRecords :
          /\ devices' = (devices \ {d}) \cup {[d EXCEPT !.id = registryId, !.address = address]}
          /\ removedDevices' = removedDevices \ {d}
    BY DEF R!Load
  <1>7. /\ \A e \in devices : R!Same(e) /\ e.station = station
        /\ \A e \in removedDevices : ~R!Same(e)
        /\ \A e, f \in devices : e = f
    <2>1. /\ \A e \in devices : e.address = address /\ e.station = settled
          /\ \A e \in removedDevices : e.id = Retired /\ e.address = NoAddress
          /\ \A e, f \in devices : e = f
      BY <1>1 DEF RegistryInv, Single, Stationed
    <2>2. registryId # Retired /\ address # NoAddress
      BY <1>4 DEF R!RegistryAssumption
    <2> QED
      BY <1>2, <2>1, <2>2 DEF R!Same
  <1>8. /\ d \in R!Device /\ d.station = station
        /\ d \in devices \/ devices = {}
    <2>1. CASE devices # {}
      BY <1>4, <1>7, <2>1 DEF R!DeviceRecords
    <2>2. CASE devices = {}
      <3>1. d = [id |-> registryId, address |-> address, station |-> station]
        BY <1>7, <2>2 DEF R!DeviceRecords
      <3> QED
        BY <1>4, <2>2, <3>1 DEF R!Device
    <2> QED
      BY <2>1, <2>2
  <1>9. devices' = {[d EXCEPT !.id = registryId, !.address = address]}
    BY <1>6, <1>7, <1>8
  <1>10. \E e \in R!Device : devices' = {e} /\ e.id = registryId /\ e.address = address
                           /\ e.station = station
    <2> DEFINE e == [d EXCEPT !.id = registryId, !.address = address]
    <2>1. /\ e \in R!Device /\ e.id = registryId /\ e.address = address
          /\ e.station = station
      BY <1>4, <1>8 DEF R!Device
    <2> QED
      BY <1>9, <2>1
  <1>11. \A e \in entities' \ entities :
           /\ e \in R!Entity /\ e.id = registryId /\ e.station = station
           /\ R!Found(e.key) = {}
           /\ e \in All \/ e.name = prefix
    BY <1>3, <1>5
  <1>12. \A e, f \in entities' \ entities : e.key = f.key => e = f
    BY <1>3, <1>5
  <1>13. \A k \in Keys : \E e \in entities' : e.key = k /\ e.id = registryId
    BY <1>3, <1>5
  <1> QED
    BY <1>1, <1>2, <1>3, <1>6, <1>10, <1>11, <1>12, <1>13

LEMMA LoadStep ==
    ASSUME R!RegistryAssumption, RegistryInv, R!Load
    PROVE  RegistryInv'
  <1>1. /\ ~pending /\ ~replace /\ station = settled /\ loaded' = TRUE
        /\ UNCHANGED <<address, registryId, opaque, previous, replace, pending, prefix,
                       used, station, settled>>
        /\ entities \subseteq entities' /\ removedEntities' \subseteq removedEntities
        /\ \A k \in Keys : \E e \in entities' : e.key = k /\ e.id = registryId
        /\ \A e \in entities' \ entities :
             /\ e \in R!Entity /\ e.id = registryId /\ e.station = station
             /\ R!Found(e.key) = {}
             /\ e \in All \/ e.name = prefix
        /\ \A e, f \in entities' \ entities : e.key = f.key => e = f
        /\ removedDevices' \subseteq removedDevices
    BY Loaded
  <1>2. PICK d \in R!Device : devices' = {d} /\ d.id = registryId /\ d.address = address
                            /\ d.station = station
    BY Loaded
  <1>3. KnownId' = KnownId /\ R!Source' = R!Source /\ R!Source = registryId
    BY <1>1 DEF KnownId, R!Source
  <1>4. /\ registryId \in KnownId
        /\ \A e \in All : e.id \in KnownId \cup {Stray} /\ e.name \in {Retired, Stray} \cup 1..used
        /\ prefix \in {Retired} \cup 1..used
    BY DEF RegistryInv, Named
  <1>5. ASSUME NEW e \in All' PROVE e \in All \/ (e.id = registryId /\ e.name = prefix)
    <2>1. e \in entities' \ entities \/ e \in All
      BY <1>1 DEF All
    <2> QED
      BY <1>1, <2>1
  <1>6. \A e \in entities' : e.station = settled
    BY <1>1 DEF RegistryInv, Stationed
  <1>7. R!TypeOK'
    <2>1. /\ entities' \subseteq R!Entity /\ removedEntities' \subseteq R!Entity
          /\ devices' \subseteq R!Device /\ removedDevices' \subseteq R!Device
      BY <1>1, <1>2 DEF RegistryInv, R!TypeOK
    <2> QED
      BY <1>1, <2>1 DEF RegistryInv, R!TypeOK
  <1>8. Stationed'
    BY <1>1, <1>2, <1>3, <1>6 DEF RegistryInv, Stationed
  <1>9. Named'
    BY <1>1, <1>3, <1>4, <1>5 DEF RegistryInv, Named
  <1>10. Prefixed'
    <2>1. removedEntities' \subseteq All
      BY <1>1 DEF All
    <2>2. \A e \in All' : e.name = prefix' => e.station = settled'
      BY <1>1, <1>6, <2>1 DEF All, RegistryInv, Prefixed
    <2>3. \A e, f \in All' : e.key = f.key /\ e.name = f.name => e.station = f.station
      <3>1. /\ \A e, f \in All : e.key = f.key /\ e.name = f.name => e.station = f.station
            /\ \A e \in All' : e \in All \/ e.name = prefix
        BY <1>5 DEF RegistryInv, Prefixed
      <3> QED
        BY <1>1, <2>2, <3>1
    <2> QED
      BY <2>2, <2>3 DEF Prefixed
  <1>11. Single'
    <2>1. \A e, f \in entities' : e.key = f.key /\ e.id = f.id => e = f
      <3>1. \A e, f \in entities : e.key = f.key /\ e.id = f.id => e = f
        BY DEF RegistryInv, Single
      <3>2. \A e \in entities, f \in entities' \ entities : ~(e.key = f.key /\ e.id = f.id)
        BY <1>1 DEF R!Found
      <3> QED
        BY <1>1, <3>1, <3>2
    <2>2. \A e \in entities' : e.id \in {registryId, Stray}
      BY <1>1 DEF RegistryInv, Single
    <2>3. \A k \in Keys : R!Found(k)' # {}
      BY <1>1 DEF R!Found
    <2>4. \A e \in removedDevices' : e.id = Retired /\ e.address = NoAddress
      BY <1>1 DEF RegistryInv, Single
    <2> QED
      BY <1>1, <1>2, <2>1, <2>2, <2>3, <2>4 DEF Single
  <1> QED
    BY <1>7, <1>8, <1>9, <1>10, <1>11 DEF RegistryInv

-----------------------------------------------------------------------------
(* What holds of every move. *)

LEMMA RegistryStep ==
    ASSUME R!RegistryAssumption, RegistryInv, [R!Next]_(R!vars)
    PROVE  RegistryInv'
  <1>1. CASE R!Next
    BY <1>1, ReconfigureStep, FailureStep, TransitionStep, LoadStep DEF R!Next
  <1>2. CASE UNCHANGED R!vars
    BY <1>2 DEF R!vars, R!entry, R!records, RegistryInv, R!TypeOK, Stationed, Named,
                Prefixed, Single,
                KnownId, All, R!Source, R!Found
  <1> QED
    BY <1>1, <1>2

LEMMA RegistryInvariant == ASSUME R!RegistryAssumption PROVE R!Spec => []RegistryInv
  <1>1. R!Init => RegistryInv
    BY RegistryInit
  <1>2. RegistryInv /\ [R!Next]_(R!vars) => RegistryInv'
    BY RegistryStep
  <1> QED
    BY <1>1, <1>2, PTL DEF R!Spec

(* However often an entry is moved, replaced, taken back and interrupted, what *)
(* it has once loaded is its own station's and nothing else (registry.py,      *)
(* async_apply_registry_transition).                                           *)
THEOREM OwnRecordsOnly == ASSUME R!RegistryAssumption PROVE R!Spec => []R!RecordsOfStation
  <1>1. RegistryInv => R!RecordsOfStation
    <2> SUFFICES ASSUME RegistryInv PROVE R!RecordsOfStation
      OBVIOUS
    <2>1. \A e, f \in entities \cup removedEntities :
            e.key = f.key /\ e.name = f.name => e.station = f.station
      BY DEF RegistryInv, Prefixed, All
    <2>2. ASSUME loaded
          PROVE  /\ \A k \in Keys : \E e \in R!Found(k) : R!Found(k) = {e} /\ e.station = station
                 /\ \A e \in entities : e.id \in {registryId, Stray}
                 /\ \E d \in devices : devices = {d} /\ d.id = registryId
                                         /\ d.address = address /\ d.station = station
      <3>1. /\ ~pending /\ station = settled
            /\ \A e \in entities : e.id \in {registryId, Stray} /\ e.station = station
            /\ \A e, f \in entities : e.key = f.key /\ e.id = f.id => e = f
            /\ \A k \in Keys : R!Found(k) # {}
            /\ \A d \in devices : d.address = address /\ d.station = station
            /\ \A d, e \in devices : d = e
            /\ \E d \in devices : d.id = registryId
        BY <2>2 DEF RegistryInv, Stationed, Single
      <3>2. ASSUME NEW k \in Keys
            PROVE  \E e \in R!Found(k) : R!Found(k) = {e} /\ e.station = station
        <4>1. PICK e \in R!Found(k) : TRUE
          BY <3>1
        <4>2. \A f \in R!Found(k) : f = e
          BY <3>1 DEF R!Found
        <4>3. e.station = station
          BY <3>1 DEF R!Found
        <4> QED
          BY <4>1, <4>2, <4>3
      <3>3. \E d \in devices : devices = {d} /\ d.id = registryId
                                 /\ d.address = address /\ d.station = station
        BY <3>1
      <3> QED
        BY <3>1, <3>2, <3>3
    <2> QED
      BY <2>1, <2>2 DEF R!RecordsOfStation
  <1> QED
    BY <1>1, RegistryInvariant, PTL

LEMMA AtMostOne ==
    ASSUME NEW A, NEW B, \A d, e \in A : d = e, \A d, e \in B : d = e, A # {} => B # {}
    PROVE  Cardinality(A) <= Cardinality(B)
  <1>1. CASE B = {}
    BY <1>1, FS_EmptySet
  <1>2. CASE B # {} /\ A = {}
    <2>1. PICK d \in B : B = {d}
      BY <1>2
    <2>2. Cardinality(B) = 1
      BY <2>1, FS_Singleton
    <2>3. Cardinality(A) = 0
      BY <1>2, FS_EmptySet
    <2> QED
      BY <2>2, <2>3
  <1>3. CASE B # {} /\ A # {}
    <2>1. PICK d \in B : B = {d}
      BY <1>3
    <2>2. PICK e \in A : A = {e}
      BY <1>3
    <2> QED
      BY <2>1, <2>2, FS_Singleton
  <1> QED
    BY <1>1, <1>2, <1>3

LEMMA SameCount == \A T : R!Cardinality(T) = Cardinality(T)
  BY DEF R!Cardinality, Cardinality

LEMMA KeepingStep ==
    ASSUME R!RegistryAssumption, RegistryInv, [R!Next]_(R!vars), station = settled
    PROVE  /\ R!Identities \subseteq R!Identities'
           /\ R!Cardinality(devices) <= R!Cardinality(devices')
  <1>1. ~replace /\ \A d, e \in devices : d = e
    BY DEF RegistryInv, Stationed, Single
  <1>2. \A d, e \in devices' : d = e
    BY RegistryStep DEF RegistryInv, Single
  <1>3. /\ \A e \in entities : \E f \in entities' : /\ f.key = e.key /\ f.name = e.name
                                                    /\ f.station = e.station
        /\ devices # {} => devices' # {}
    <2>1. CASE UNCHANGED <<entities, devices>>
      BY <2>1
    <2>2. ASSUME NEW some \in SUBSET entities, pending, R!Apply(some)
          PROVE  <1>3!1 /\ <1>3!2
      <3>1. /\ \A e \in entities' : e.station = settled
            /\ \A e \in entities : \E f \in entities' : f.key = e.key /\ f.name = e.name
            /\ devices # {} => devices' # {}
        BY <1>1, <2>2, Migrating
      <3>2. \A e \in entities : e.station = settled
        BY DEF RegistryInv, Stationed
      <3> QED
        BY <3>1, <3>2
    <2>3. CASE R!Load
      BY <2>3, Loaded
    <2>4. CASE R!TransitionFails \/ R!Transition
      BY <2>2, <2>4 DEF R!TransitionFails, R!Transition
    <2>5. ASSUME NEW a \in Addresses, NEW choice \in {"same_device", "replacement"},
                 R!Reconfigure(a, choice)
          PROVE  UNCHANGED <<entities, devices>>
      BY <2>5 DEF R!Reconfigure, R!records
    <2> QED
      BY <2>1, <2>3, <2>4, <2>5 DEF R!Next, R!vars, R!records
  <1>4. R!Identities \subseteq R!Identities'
    BY <1>3 DEF R!Identities
  <1>5. R!Cardinality(devices) <= R!Cardinality(devices')
    BY <1>1, <1>2, <1>3, AtMostOne, SameCount
  <1> QED
    BY <1>4, <1>5

(* Moving the same station, however often it is interrupted, loses no entity  *)
(* and no device, nor what the user made of them (registry.py,                *)
(* async_apply_registry_transition).                                          *)
THEOREM SameStationKeeps == ASSUME R!RegistryAssumption PROVE R!Spec => R!SameDeviceKeeps
  <1>1. RegistryInv /\ RegistryInv' /\ [R!Next]_(R!vars)
          => [station = settled => /\ R!Identities \subseteq R!Identities'
                                   /\ R!Cardinality(devices) <= R!Cardinality(devices')]_(R!vars)
    BY KeepingStep
  <1> QED
    BY <1>1, RegistryInvariant, PTL DEF R!Spec, R!SameDeviceKeeps

-----------------------------------------------------------------------------
(* The same of the specification that is run. *)

LEMMA RegistryPart == PartsSpec => R!Spec
  <1>1. PartsInit => R!Init
    BY DEF PartsInit
  <1>2. [PartsNext]_<<part, vars, control, identity, registry, setup>> => [R!Next]_(R!vars)
    BY DEF PartsNext, registry, R!vars, R!entry, R!records
  <1> QED
    BY <1>1, <1>2, PTL DEF PartsSpec, R!Spec

(* RecordsOfStation, for all addresses and entities and any number of moves:  *)
(* a loaded entry has the records of its own station and no others            *)
(* (registry.py, async_apply_registry_transition).                            *)
THEOREM PartsOwnRecords == PartsSpec => []RecordsOfStation
  <1>1. R!RecordsOfStation => RecordsOfStation
    BY DEF RecordsOfStation
  <1> QED
    BY <1>1, RegistryPart, OwnRecordsOnly, RegistryParameters, PTL

(* SameDeviceKeeps, likewise: moving the same station loses none of them      *)
(* (registry.py, async_apply_registry_transition).                            *)
THEOREM PartsSameStation == PartsSpec => SameDeviceKeeps
  <1>1. R!SameDeviceKeeps => SameDeviceKeeps
    BY DEF SameDeviceKeeps
  <1> QED
    BY <1>1, RegistryPart, SameStationKeeps, RegistryParameters, PTL
=============================================================================
