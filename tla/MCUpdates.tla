----------------------------- MODULE MCUpdates -----------------------------
(***************************************************************************)
(* Constants for model checking Updates: the methods of UpdateMethods, the *)
(* two long ones with one field per encoding and a second that is omitted  *)
(* when it is zero.                                                        *)
(***************************************************************************)
EXTENDS Updates, Functions, TLC

CONSTANTS c1, c2

MCMethods ==
  {IF m = UpdateDNSRecord THEN Restrict(m, {"data", "priority"})
   ELSE IF m = UpdatePort THEN Restrict(m, {"fixed_ips", "qos_policy_id"})
   ELSE m : m \in AllMethods}

\* The callers differ in nothing.
CallersAreAlike == Permutations(Callers)
=============================================================================
