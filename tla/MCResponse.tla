----------------------------- MODULE MCResponse -----------------------------
(* The methods of Handlers, as far as Response tells them apart. *)
EXTENDS Response

H == INSTANCE Handlers

MCMethods ==
  {[exec |-> h.exec, decode |-> h.decode] : h \in {x \in H!AllHandlers : x.exec # "none"}}
=============================================================================
