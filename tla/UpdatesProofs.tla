--------------------------- MODULE UpdatesProofs ---------------------------
(***************************************************************************)
(* The properties of Updates, for any callers, any methods and any values. *)
(***************************************************************************)
EXTENDS Updates, TLAPS

\* A caller about to send its update has a copy of every field it must send without
\* knowing it, and the copy is good unless an update has overlapped with another.
CopiesAreGood ==
  \A c \in Callers : pc[c] = "ready" =>
    \A f \in Unknown(c) :
      /\ f \in DOMAIN copy[c]
      /\ ~overlapped => copy[c][f] = resource[f]

IInv == TypeOK /\ CopiesAreGood /\ LastUpdateHolds

\* A field has an encoding.
LEMMA FieldEncoded ==
  ASSUME TypeOK, NEW f \in Fields
  PROVE  method[f] \in Encodings
  BY UpdatesAssumption DEF TypeOK, Fields

\* What is in a partial function is a value.
LEMMA ChangeValue ==
  ASSUME NEW w \in Changes, NEW f \in DOMAIN w
  PROVE  f \in Fields /\ w[f] \in Values
  BY DEF Changes

\* Nothing is a change of no fields.
LEMMA NothingIsAChange == Nothing \in Changes /\ DOMAIN Nothing = {}
  <1>1. Nothing \in [{} -> Values]
    BY DEF Nothing
  <1>2. {} \in SUBSET Fields
    OBVIOUS
  <1> QED BY <1>1, <1>2 DEF Changes, Nothing

\* Every argument of a caller about to send its update is a value.
LEMMA ArgumentValue ==
  ASSUME TypeOK, CopiesAreGood,
         NEW c \in Callers, pc[c] = "ready", NEW f \in Fields
  PROVE  Argument(c, f) \in Values
  <1>1. want[c] \in Changes /\ copy[c] \in Changes
    BY DEF TypeOK
  <1>2. f \in Unknown(c) => f \in DOMAIN copy[c]
    BY DEF CopiesAreGood
  <1> QED BY <1>1, <1>2, ChangeValue, UpdatesAssumption DEF Argument

\* Init establishes the invariant.
LEMMA InitInv == Init => IInv
  <1> SUFFICES ASSUME Init PROVE IInv
    OBVIOUS
  <1> USE DEF Init
  <1>1. TypeOK
    <2>1. Nothing \in Changes
      BY NothingIsAChange
    <2> QED BY <2>1 DEF TypeOK
  <1>2. CopiesAreGood
    BY DEF CopiesAreGood
  <1>3. LastUpdateHolds
    BY DEF LastUpdateHolds
  <1> QED BY <1>1, <1>2, <1>3 DEF IInv

\* A step other than an update changes neither the resource nor what was asked.
LEMMA TypeStep ==
  ASSUME TypeOK, CopiesAreGood, NEW c \in Callers,
         Begin(c) \/ Get(c) \/ NoGet(c) \/ Update(c) \/ Fail(c)
  PROVE  TypeOK'
  <1>1. method' = method /\ Fields' = Fields /\ Changes' = Changes
    BY DEF Begin, Get, NoGet, Update, Fail, Fields, Changes
  <1>2. CASE Begin(c)
    <2>1. PICK changed \in SUBSET Fields \ {{}} : \E w \in [changed -> Values] :
            want' = [want EXCEPT ![c] = w]
      BY <1>2 DEF Begin
    <2>2. PICK w \in [changed -> Values] : want' = [want EXCEPT ![c] = w]
      BY <2>1
    <2>3. w \in Changes
      BY DEF Changes
    <2> QED BY <1>1, <1>2, <2>2, <2>3 DEF TypeOK, Begin
  <1>3. CASE Get(c)
    <2>1. [f \in Unknown(c) |-> resource[f]] \in [Unknown(c) -> Values]
      BY DEF TypeOK, Unknown
    <2>2. [f \in Unknown(c) |-> resource[f]] \in Changes
      BY <2>1 DEF Changes, Unknown
    <2> QED BY <1>1, <1>3, <2>2 DEF TypeOK, Get
  <1>4. CASE NoGet(c)
    BY <1>1, <1>4 DEF TypeOK, NoGet
  <1>5. CASE Update(c)
    <2>1. \A f \in Fields : Argument(c, f) \in Values
      BY <1>5, ArgumentValue DEF Update
    <2>2. \A f \in DOMAIN want[c] : want[c][f] \in Values
      BY ChangeValue DEF TypeOK
    <2>3. resource' \in [Fields -> Values]
      BY <1>5, <2>1 DEF Update, TypeOK
    <2>4. asked' \in [Fields -> Values]
      BY <1>5, <2>2 DEF Update, TypeOK
    <2>5. overlapped' \in BOOLEAN
      BY <1>5 DEF Update, TypeOK
    <2> QED BY <1>1, <1>5, <2>3, <2>4, <2>5, NothingIsAChange DEF TypeOK, Update, Forget
  <1>6. CASE Fail(c)
    BY <1>1, <1>6, NothingIsAChange DEF TypeOK, Fail, Forget
  <1> QED BY <1>2, <1>3, <1>4, <1>5, <1>6

\* Copies stay good: an update that makes one stale records that it overlapped.
LEMMA CopyStep ==
  ASSUME TypeOK, CopiesAreGood, NEW c \in Callers,
         Begin(c) \/ Get(c) \/ NoGet(c) \/ Update(c) \/ Fail(c)
  PROVE  CopiesAreGood'
  <1> SUFFICES ASSUME NEW d \in Callers, pc'[d] = "ready", NEW f \in Unknown(d)'
               PROVE  /\ f \in DOMAIN copy'[d]
                      /\ ~overlapped' => copy'[d][f] = resource'[f]
    BY DEF CopiesAreGood
  <1>1. method' = method /\ Fields' = Fields
    BY DEF Begin, Get, NoGet, Update, Fail, Fields
  <1>2. CASE d # c
    <2>1. pc'[d] = pc[d] /\ want'[d] = want[d] /\ copy'[d] = copy[d]
      BY <1>2 DEF TypeOK, Begin, Get, NoGet, Update, Fail, Forget
    <2>2. f \in Unknown(d)
      BY <1>1, <2>1 DEF Unknown
    <2>3. f \in DOMAIN copy[d] /\ (~overlapped => copy[d][f] = resource[f])
      BY <2>1, <2>2 DEF CopiesAreGood
    <2>4. CASE Update(c)
      BY <1>2, <2>1, <2>2, <2>3, <2>4 DEF Update
    <2>5. CASE ~Update(c)
      BY <2>1, <2>3, <2>5 DEF Begin, Get, NoGet, Fail
    <2> QED BY <2>4, <2>5
  <1>3. CASE d = c /\ Get(c)
    <2>1. Unknown(d)' = Unknown(d)
      BY <1>3, <1>1 DEF Get, Unknown
    <2> QED BY <1>3, <2>1 DEF Get, TypeOK
  <1>4. CASE d = c /\ NoGet(c)
    <2>1. Unknown(d)' = Unknown(d)
      BY <1>4, <1>1 DEF NoGet, Unknown
    <2> QED BY <1>4, <2>1 DEF NoGet
  <1>5. CASE d = c /\ (Begin(c) \/ Update(c) \/ Fail(c))
    BY <1>5 DEF TypeOK, Begin, Update, Fail, Forget
  <1> QED BY <1>2, <1>3, <1>4, <1>5

\* An update sets what it was to set, if its request says so, and sends back a good
\* copy of the rest.
LEMMA UpdateHolds ==
  ASSUME TypeOK, CopiesAreGood, LastUpdateHolds, NEW c \in Callers, Update(c)
  PROVE  LastUpdateHolds'
  <1>1. method' = method /\ Fields' = Fields
    BY DEF Update, Fields
  <1> SUFFICES ASSUME NEW f \in Fields
               PROVE  \/ resource'[f] = asked'[f]
                      \/ method[f] = "always" /\ overlapped'
                      \/ method[f] = "nonzero" /\ asked'[f] = Zero
    BY <1>1 DEF LastUpdateHolds
  <1>2. method[f] \in {"always", "nonzero", "asked"}
    BY FieldEncoded DEF Encodings
  <1>3. resource'[f] = IF f \in Sent(c) THEN Argument(c, f) ELSE resource[f]
    BY DEF Update
  <1>4. asked'[f] = IF f \in DOMAIN want[c] THEN want[c][f] ELSE asked[f]
    BY DEF Update
  <1>5. overlapped => overlapped'
    BY DEF Update
  <1>6. \/ resource[f] = asked[f]
        \/ method[f] = "always" /\ overlapped
        \/ method[f] = "nonzero" /\ asked[f] = Zero
    BY DEF LastUpdateHolds
  <1>7. CASE f \in DOMAIN want[c]
    <2>1. Argument(c, f) = want[c][f] /\ asked'[f] = want[c][f]
      BY <1>4, <1>7 DEF Argument
    <2>2. f \in Sent(c) \/ (method[f] = "nonzero" /\ want[c][f] = Zero)
      BY <1>2, <1>7, <2>1 DEF Sent
    <2> QED BY <1>3, <2>1, <2>2
  <1>8. CASE f \notin DOMAIN want[c] /\ method[f] = "always"
    <2>1. f \in Unknown(c) /\ f \in Sent(c)
      BY <1>8 DEF Unknown, Sent
    <2>2. ~overlapped => copy[c][f] = resource[f]
      BY <2>1 DEF CopiesAreGood, Update
    <2> QED BY <1>3, <1>4, <1>5, <1>6, <1>8, <2>1, <2>2 DEF Argument
  <1>9. CASE f \notin DOMAIN want[c] /\ method[f] # "always"
    <2>1. f \notin Sent(c)
      BY <1>9 DEF Unknown, Sent, Argument
    <2> QED BY <1>3, <1>4, <1>6, <1>9, <2>1
  <1> QED BY <1>2, <1>7, <1>8, <1>9

\* Every step keeps the invariant.
LEMMA StepInv == IInv /\ [Next]_vars => IInv'
  <1> SUFFICES ASSUME IInv, [Next]_vars PROVE IInv'
    OBVIOUS
  <1> USE DEF IInv
  <1>1. CASE UNCHANGED vars
    BY <1>1 DEF vars, TypeOK, CopiesAreGood, LastUpdateHolds, Fields, Changes, Unknown
  <1>2. ASSUME NEW c \in Callers, Begin(c) \/ Get(c) \/ NoGet(c) \/ Update(c) \/ Fail(c)
        PROVE  IInv'
    <2>1. TypeOK' /\ CopiesAreGood'
      BY <1>2, TypeStep, CopyStep
    <2>2. LastUpdateHolds'
      <3>1. CASE Update(c)
        BY <3>1, UpdateHolds
      <3>2. CASE ~Update(c)
        BY <1>2, <3>2 DEF LastUpdateHolds, Fields, Begin, Get, NoGet, Fail
      <3> QED BY <3>1, <3>2
    <2> QED BY <2>1, <2>2
  <1> QED BY <1>1, <1>2 DEF Next

\* The state of callers and resource is well typed.
THEOREM TypeCorrect == Spec => []TypeOK
  <1>1. IInv => TypeOK
    BY DEF IInv
  <1> QED BY <1>1, InitInv, StepInv, PTL DEF Spec

\* Updates of one resource by several callers do not undo each other, but for fields
\* that are always sent and updates that overlap; a change is without effect only if
\* it is to a zero that is not sent.
THEOREM UpdatesHold == Spec => []LastUpdateHolds
  <1>1. IInv => LastUpdateHolds
    BY DEF IInv
  <1> QED BY <1>1, InitInv, StepInv, PTL DEF Spec
=============================================================================
