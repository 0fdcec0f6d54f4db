------------------------------ MODULE Updates ------------------------------
(***************************************************************************)
(* Several callers change one resource through its update method.  A       *)
(* caller knows which fields it wants to change; what the request says of  *)
(* the others depends on how the method encodes its arguments.  For a      *)
(* field that is always sent, a careful caller first gets the resource and *)
(* sends back what it got.                                                 *)
(*                                                                         *)
(* The service replaces the fields a request has and keeps the others.     *)
(***************************************************************************)
EXTENDS UpdateMethods

CONSTANTS
  Callers,
  Methods,  (* encodings of the update methods, one resource each *)
  Values,
  Zero      (* "", 0, nil, an empty list: Go's zero value         *)

ASSUME UpdatesAssumption ==
  /\ Zero \in Values
  /\ \A m \in Methods : m \in [DOMAIN m -> Encodings]

VARIABLES
  method,     (* the method of this resource, which never changes          *)
  resource,   (* its fields, in the service                                *)
  pc,         (* where each caller is                                      *)
  want,       (* the fields it wants to change, and to what                *)
  copy,       (* what it got of the resource                               *)
  asked,      (* history: what the last update of each field was to set    *)
  overlapped  (* history: an update came between a Get and its own update  *)

vars == <<method, resource, pc, want, copy, asked, overlapped>>

Fields == DOMAIN method
Nothing == [f \in {} |-> Zero]

Init ==
  /\ method \in Methods
  /\ resource \in [Fields -> Values]
  /\ pc = [c \in Callers |-> "idle"]
  /\ want = [c \in Callers |-> Nothing]
  /\ copy = [c \in Callers |-> Nothing]
  /\ asked = resource
  /\ overlapped = FALSE

\* The method cannot be called without a value for these fields.
Unknown(c) == {f \in Fields \ DOMAIN want[c] : method[f] = "always"}

Begin(c) ==
  /\ pc[c] = "idle"
  /\ \E changed \in SUBSET Fields \ {{}} :
       \E w \in [changed -> Values] : want' = [want EXCEPT ![c] = w]
  /\ pc' = [pc EXCEPT ![c] = "begun"]
  /\ UNCHANGED <<method, resource, copy, asked, overlapped>>

\* GetDomain, GetVolume and their like, for the fields it does not know
Get(c) ==
  /\ pc[c] = "begun"
  /\ Unknown(c) # {}
  /\ copy' = [copy EXCEPT ![c] = [f \in Unknown(c) |-> resource[f]]]
  /\ pc' = [pc EXCEPT ![c] = "ready"]
  /\ UNCHANGED <<method, resource, want, asked, overlapped>>

NoGet(c) ==
  /\ pc[c] = "begun"
  /\ Unknown(c) = {}
  /\ pc' = [pc EXCEPT ![c] = "ready"]
  /\ UNCHANGED <<method, resource, want, copy, asked, overlapped>>

\* The argument for field f, Go's zero value if the caller has nothing to say.
Argument(c, f) ==
  IF f \in DOMAIN want[c] THEN want[c][f]
  ELSE IF f \in Unknown(c) THEN copy[c][f] ELSE Zero

\* Mutant: the value behind a pointer is tested, not the pointer.
Bug_PointerToZeroOmitted(c) ==
  {f \in Fields : method[f] = "always" \/ Argument(c, f) # Zero}

\* The fields that the request has.
Sent(c) ==
  {f \in Fields :
     \/ method[f] = "always"
     \/ method[f] = "nonzero" /\ Argument(c, f) # Zero
     \/ method[f] = "asked" /\ f \in DOMAIN want[c]}

\* The call returns.
Forget(c) ==
  /\ pc' = [pc EXCEPT ![c] = "idle"]
  /\ want' = [want EXCEPT ![c] = Nothing]
  /\ copy' = [copy EXCEPT ![c] = Nothing]

\* Mutant: the request replaces the resource.
Bug_ReplacesResource(c) ==
  /\ pc[c] = "ready"
  /\ resource' = [f \in Sent(c) |-> Argument(c, f)]
  /\ Forget(c)
  /\ UNCHANGED <<method, asked, overlapped>>

\* The request reaches the service; its answer may or may not reach the caller.
Update(c) ==
  /\ pc[c] = "ready"
  /\ resource' = [f \in Fields |-> IF f \in Sent(c) THEN Argument(c, f) ELSE resource[f]]
  /\ asked' = [f \in Fields |-> IF f \in DOMAIN want[c] THEN want[c][f] ELSE asked[f]]
  /\ overlapped' = (overlapped \/ \E d \in Callers \ {c} : pc[d] = "ready" /\ Unknown(d) # {})
  /\ Forget(c)
  /\ UNCHANGED method

\* Get or the update fails without an effect.
Fail(c) ==
  /\ pc[c] \in {"begun", "ready"}
  /\ Forget(c)
  /\ UNCHANGED <<method, resource, asked, overlapped>>

Next == \E c \in Callers : Begin(c) \/ Get(c) \/ NoGet(c) \/ Update(c) \/ Fail(c)

Spec == Init /\ [][Next]_vars
-----------------------------------------------------------------------------
Changes == UNION {[S -> Values] : S \in SUBSET Fields}

TypeOK ==
  /\ method \in Methods
  /\ resource \in [Fields -> Values]
  /\ pc \in [Callers -> {"idle", "begun", "ready"}]
  /\ want \in [Callers -> Changes]
  /\ copy \in [Callers -> Changes]
  /\ asked \in [Fields -> Values]
  /\ overlapped \in BOOLEAN

\* Every field is what the last update that was to change it made it: an update of
\* other fields, at the same time or later, does not undo it.  Only two kinds of
\* change are lost: of a field that is always sent, when an update came between
\* another caller's Get and its update, and to zero, of a field whose zero is not sent.
LastUpdateHolds ==
  \A f \in Fields :
    \/ resource[f] = asked[f]
    \/ method[f] = "always" /\ overlapped
    \/ method[f] = "nonzero" /\ asked[f] = Zero
=============================================================================
