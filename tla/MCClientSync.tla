---------------------------- MODULE MCClientSync ----------------------------
(***************************************************************************)
(* Constants for model checking ClientSync.  The calls are the shapes of   *)
(* the methods of Handlers on the services that the model has.             *)
(***************************************************************************)
EXTENDS ClientSync, TLC

H == INSTANCE Handlers

ShapesOf(services) ==
  {[svc |-> h.svc, tenant |-> h.tenant, token |-> h.token, login |-> FALSE] :
     h \in {x \in H!AllHandlers : x.svc \in services}}

CONSTANTS p1, p2, p3

\* Two goroutines log in; the second one also makes the calls that read all three
\* fields under the lock, the third one those that read the token without it.  A
\* call that sends nothing does what these do when they return unsent.
MCCalls ==
  (p1 :> {Login})
  @@ (p2 :> {Login} \cup {c \in ShapesOf(Services) : c.tenant /\ c.token = "locked"})
  @@ (p3 :> {c \in ShapesOf(Services) : c.token = "raw"})
=============================================================================
