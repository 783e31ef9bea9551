------------------------- MODULE SafirSettingsProofs -------------------------
(***************************************************************************)
(* Proofs about SafirSettings: the key can be lost in one race only, and a *)
(* send the dashboard has accepted can be made, for any set of settings    *)
(* requests, sends, keys and environments.                                 *)
(***************************************************************************)
EXTENDS SafirSettings, TLAPS

\* A request about to save has a key of its own, or the stored one unless
\* another request has stored a key since.
KeyInHand ==
    \A p \in Posts :
        /\ post_pc[p] \in {"key", "save"} /\ ~left_empty[p] => post_form[p].key # NoKey
        /\ post_pc[p] = "save" /\ left_empty[p] => post_form[p].key = row.key \/ raced

\* What an accepted send relies on until its client is built.
StillCanSend ==
    \A s \in Sends :
        send_pc[s] = "accepted" =>
            /\ Effective.key # NoKey \/ raced
            /\ Effective.bot # 0 \/ \E p \in Posts :
                  post_pc[p] = "saved" /\ post_form[p].bot = 0

Inv == TypeOK /\ KeyInHand /\ NewestKeyUnlessRaced /\ StillCanSend /\ AcceptedSendCanSend

USE KeysAssumption, BotsAssumption, EnvsAssumption, FaultsAssumption

LEMMA InitInv == Init => Inv
  <1> SUFFICES ASSUME Init PROVE Inv
    OBVIOUS
  <1>1. TypeOK
    <2>1. Blank \in Config /\ faults \in 0..MaxFaults
      BY DEF Init, Config, Blank
    <2> QED
      BY <2>1 DEF Init, TypeOK, Config, Blank
  <1>2. KeyInHand /\ NewestKeyUnlessRaced /\ StillCanSend /\ AcceptedSendCanSend
    BY DEF Init, KeyInHand, NewestKeyUnlessRaced, StillCanSend, AcceptedSendCanSend, Blank
  <1> QED
    BY <1>1, <1>2 DEF Inv

\* A read of the configuration uses up one fault at most.
LEMMA ReadsFault ==
    ASSUME NEW c, Reads(c), faults \in 0..MaxFaults, exists \in BOOLEAN
    PROVE  faults' \in 0..MaxFaults /\ exists' \in BOOLEAN
  <1>1. CASE exists' = TRUE /\ UNCHANGED faults
    BY <1>1
  <1>2. CASE Fault /\ UNCHANGED exists
    BY <1>2 DEF Fault
  <1> QED
    BY <1>1, <1>2 DEF Reads

\* The types.
LEMMA TypeStep == Inv /\ [Next]_vars => TypeOK'
  <1> SUFFICES ASSUME Inv, [Next]_vars PROVE TypeOK'
    OBVIOUS
  <1> USE DEF Inv, TypeOK, Config
  <1>1. ASSUME NEW p \in Posts, LoadAndValidate(p) PROVE TypeOK'
    <2>1. post_pc' \in [Posts -> {"idle", "key", "save", "saved", "invalid", "failed"}]
      BY <1>1 DEF LoadAndValidate, PostGoto
    <2>2. post_form' \in [Posts -> Config]
      BY <1>1 DEF LoadAndValidate
    <2>3. left_empty' \in [Posts -> BOOLEAN]
      BY <1>1 DEF LoadAndValidate
    <2> QED
      BY <1>1, <2>1, <2>2, <2>3 DEF LoadAndValidate, send_vars
  <1>2. ASSUME NEW p \in Posts, ReadKey(p) PROVE TypeOK'
    <2>1. KeyToSave(p) \in Keys \cup {NoKey}
      BY DEF KeyToSave
    <2> QED
      BY <1>2, <2>1 DEF ReadKey, PostGoto, send_vars
  <1>3. ASSUME NEW p \in Posts, Save(p) PROVE TypeOK'
    BY <1>3 DEF Save, PostGoto, send_vars
  <1>4. ASSUME NEW p \in Posts, PostFails(p) PROVE TypeOK'
    BY <1>4 DEF PostFails, Fault, send_vars
  <1>5. ASSUME NEW s \in Sends, Accept(s) PROVE TypeOK'
    <2>1. faults' \in 0..MaxFaults /\ exists' \in BOOLEAN
      <3>1. PICK c \in Config : Reads(c)
        BY <1>5 DEF Accept
      <3> QED
        BY <3>1, ReadsFault
    <2>2. send_pc' \in [Sends -> {"idle", "accepted", "refused", "started", "alone"}]
      BY <1>5 DEF Accept
    <2> QED
      BY <1>5, <2>1, <2>2 DEF Accept, post_vars
  <1>6. ASSUME NEW s \in Sends, BuildClient(s) PROVE TypeOK'
    <2>1. faults' \in 0..MaxFaults /\ exists' \in BOOLEAN
      <3>1. PICK c \in Config : Reads(c)
        BY <1>6 DEF BuildClient
      <3> QED
        BY <3>1, ReadsFault
    <2>2. send_pc' \in [Sends -> {"idle", "accepted", "refused", "started", "alone"}]
      BY <1>6 DEF BuildClient
    <2>3. client' \in [Sends -> Config]
      BY <1>6 DEF BuildClient
    <2> QED
      BY <1>6, <2>1, <2>2, <2>3 DEF BuildClient, post_vars
  <1>7. CASE UNCHANGED vars
    BY <1>7 DEF vars, post_vars, send_vars
  <1> QED
    BY <1>1, <1>2, <1>3, <1>4, <1>5, <1>6, <1>7 DEF Next

\* The keys: what is stored, and what is about to be.
LEMMA KeyStep == Inv /\ [Next]_vars => KeyInHand' /\ NewestKeyUnlessRaced'
  <1> SUFFICES ASSUME Inv, [Next]_vars PROVE KeyInHand' /\ NewestKeyUnlessRaced'
    OBVIOUS
  <1> USE DEF Inv, TypeOK, Config, KeyInHand, NewestKeyUnlessRaced
  <1>1. ASSUME NEW p \in Posts, LoadAndValidate(p)
        PROVE  KeyInHand' /\ NewestKeyUnlessRaced'
    <2>1. NewestKeyUnlessRaced'
      BY <1>1 DEF LoadAndValidate
    <2>2. ASSUME NEW q \in Posts, q # p
          PROVE  post_pc'[q] = post_pc[q] /\ post_form'[q] = post_form[q]
                 /\ left_empty'[q] = left_empty[q]
      BY <1>1, <2>2 DEF LoadAndValidate, PostGoto
    <2>3. CASE post_pc'[p] = "invalid"
      BY <1>1, <2>1, <2>2, <2>3 DEF LoadAndValidate
    <2>4. CASE post_pc'[p] = "key"
      <3>1. ~left_empty'[p] => post_form'[p].key # NoKey
        BY <1>1, <2>4 DEF LoadAndValidate, PostGoto
      <3> QED
        BY <1>1, <2>1, <2>2, <2>4, <3>1 DEF LoadAndValidate
    <2> QED
      BY <1>1, <2>3, <2>4 DEF LoadAndValidate, PostGoto
  <1>2. ASSUME NEW p \in Posts, ReadKey(p)
        PROVE  KeyInHand' /\ NewestKeyUnlessRaced'
    BY <1>2 DEF ReadKey, PostGoto, KeyToSave
  <1>3. ASSUME NEW p \in Posts, Save(p)
        PROVE  KeyInHand' /\ NewestKeyUnlessRaced'
    <2>1. CASE left_empty[p]
      BY <1>3, <2>1 DEF Save, PostGoto
    <2>2. CASE ~left_empty[p]
      <3>1. NewestKeyUnlessRaced'
        BY <1>3, <2>2 DEF Save, PostGoto
      <3>2. ASSUME NEW q \in Posts, post_pc'[q] = "save", left_empty'[q]
            PROVE  raced'
        BY <1>3, <2>2, <3>2 DEF Save, PostGoto
      <3> QED
        BY <1>3, <3>1, <3>2 DEF Save, PostGoto
    <2> QED
      BY <2>1, <2>2
  <1>4. ASSUME NEW p \in Posts, PostFails(p)
        PROVE  KeyInHand' /\ NewestKeyUnlessRaced'
    BY <1>4 DEF PostFails
  <1>5. ASSUME NEW s \in Sends, Accept(s)
        PROVE  KeyInHand' /\ NewestKeyUnlessRaced'
    BY <1>5 DEF Accept, post_vars
  <1>6. ASSUME NEW s \in Sends, BuildClient(s)
        PROVE  KeyInHand' /\ NewestKeyUnlessRaced'
    BY <1>6 DEF BuildClient, post_vars
  <1>7. CASE UNCHANGED vars
    BY <1>7 DEF vars, post_vars
  <1> QED
    BY <1>1, <1>2, <1>3, <1>4, <1>5, <1>6, <1>7 DEF Next

\* The sends, between the two reads and after them.
LEMMA SendStep == Inv /\ [Next]_vars => StillCanSend' /\ AcceptedSendCanSend'
  <1> SUFFICES ASSUME Inv, [Next]_vars PROVE StillCanSend' /\ AcceptedSendCanSend'
    OBVIOUS
  <1> USE DEF Inv, TypeOK, Config, StillCanSend, AcceptedSendCanSend
  <1> DEFINE Cleared == \E p \in Posts : post_pc[p] = "saved" /\ post_form[p].bot = 0
  <1>1. ASSUME NEW p \in Posts, LoadAndValidate(p)
        PROVE  StillCanSend' /\ AcceptedSendCanSend'
    <2>1. Cleared => Cleared'
      BY <1>1 DEF LoadAndValidate, PostGoto
    <2> QED
      BY <1>1, <2>1 DEF LoadAndValidate, send_vars, Effective
  <1>2. ASSUME NEW p \in Posts, ReadKey(p)
        PROVE  StillCanSend' /\ AcceptedSendCanSend'
    <2>1. Cleared => Cleared'
      BY <1>2 DEF ReadKey, PostGoto
    <2> QED
      BY <1>2, <2>1 DEF ReadKey, send_vars, Effective
  <1>3. ASSUME NEW p \in Posts, Save(p)
        PROVE  StillCanSend' /\ AcceptedSendCanSend'
    <2>1. Cleared => Cleared'
      BY <1>3 DEF Save, PostGoto
    <2>2. row'.bot = 0 => Cleared'
      BY <1>3 DEF Save, PostGoto
    <2>3. raced => raced'
      BY <1>3 DEF Save
    <2>4. row.key # NoKey => row'.key # NoKey \/ raced'
      BY <1>3 DEF Save, PostGoto, KeyInHand
    <2> QED
      BY <1>3, <2>1, <2>2, <2>3, <2>4 DEF Save, send_vars, Effective
  <1>4. ASSUME NEW p \in Posts, PostFails(p)
        PROVE  StillCanSend' /\ AcceptedSendCanSend'
    <2>1. Cleared => Cleared'
      BY <1>4 DEF PostFails
    <2> QED
      BY <1>4, <2>1 DEF PostFails, send_vars, Effective
  <1>5. ASSUME NEW s \in Sends, Accept(s)
        PROVE  StillCanSend' /\ AcceptedSendCanSend'
    <2>1. Cleared' = Cleared /\ Effective' = Effective /\ raced' = raced
      BY <1>5 DEF Accept, post_vars, Effective
    <2>2. PICK c \in Config : Reads(c) /\ send_pc' =
              [send_pc EXCEPT ![s] = IF CanSend(c) THEN "accepted" ELSE "refused"]
      BY <1>5 DEF Accept
    <2>3. CanSend(c) => Effective.key # NoKey /\ Effective.bot # 0
      BY <2>2 DEF CanSend, Reads, Effective
    <2> QED
      BY <1>5, <2>1, <2>2, <2>3 DEF Accept
  <1>6. ASSUME NEW s \in Sends, BuildClient(s)
        PROVE  StillCanSend' /\ AcceptedSendCanSend'
    <2>1. Cleared' = Cleared /\ Effective' = Effective /\ raced' = raced
      BY <1>6 DEF BuildClient, post_vars, Effective
    <2>2. PICK c \in Config : /\ Reads(c) /\ client' = [client EXCEPT ![s] = c]
                              /\ send_pc' = [send_pc EXCEPT ![s] =
                                    IF faults' = faults THEN "started" ELSE "alone"]
      BY <1>6 DEF BuildClient
    <2>3. faults' = faults => c = Effective
      BY <2>2 DEF Reads, Fault
    <2> QED
      BY <1>6, <2>1, <2>2, <2>3 DEF BuildClient
  <1>7. CASE UNCHANGED vars
    BY <1>7 DEF vars, post_vars, send_vars, Effective
  <1> QED
    BY <1>1, <1>2, <1>3, <1>4, <1>5, <1>6, <1>7 DEF Next

LEMMA Invariance == Spec => []Inv
  <1>1. Inv /\ [Next]_vars => Inv'
    BY TypeStep, KeyStep, SendStep DEF Inv
  <1> QED
    BY InitInv, <1>1, PTL DEF Spec

\* forms.py 423-433, core.py 560-589: the row, the requests and the clients hold
\* values of their types, whatever fails in between.
THEOREM TypeCorrect == Spec => []TypeOK
  <1>1. Inv => TypeOK
    BY DEF Inv
  <1> QED
    BY Invariance, <1>1, PTL

\* The stored key is the newest one submitted (forms.py save 426-429), unless
\* a key was saved between another request's read of the old one and its save.
THEOREM NewestKeyKept == Spec => []NewestKeyUnlessRaced
  <1>1. Inv => NewestKeyUnlessRaced
    BY DEF Inv
  <1> QED
    BY Invariance, <1>1, PTL

\* A send that views.py dashboard has accepted finds a key and a bot id when
\* core.py BaleSafirClient reads the settings again, with the exceptions the
\* property names.
THEOREM AcceptedSendGoes == Spec => []AcceptedSendCanSend
  <1>1. Inv => AcceptedSendCanSend
    BY DEF Inv
  <1> QED
    BY Invariance, <1>1, PTL
=============================================================================
