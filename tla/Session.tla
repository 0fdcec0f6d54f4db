------------------------------ MODULE Session ------------------------------
(***************************************************************************)
(* What the client promises about the state its lock protects: the token   *)
(* and the tenant ID are one object.  A login replaces it in one step, a   *)
(* read returns a part of it as it is at that moment, and nothing else     *)
(* touches it.                                                             *)
(***************************************************************************)
EXTENDS Integers

CONSTANTS Procs, NotRead

VARIABLES
  session,     (* the token and the tenant ID, by the login that set them *)
  logins,      (* how many logins have been installed                     *)
  seenToken,   (* what the present call of each goroutine read            *)
  seenTenant

sessionVars == <<session, logins, seenToken, seenTenant>>

Init ==
  /\ session = [token |-> 0, tenant |-> 0]
  /\ logins = 0
  /\ seenToken = [p \in Procs |-> NotRead]
  /\ seenTenant = [p \in Procs |-> NotRead]

\* A login always brings a token; it may leave the tenant ID as it was.
Install ==
  /\ logins' = logins + 1
  /\ \E tenant \in {session.tenant, logins + 1} :
       session' = [token |-> logins + 1, tenant |-> tenant]
  /\ UNCHANGED <<seenToken, seenTenant>>

ReadTenant(p) ==
  /\ seenTenant[p] = NotRead
  /\ seenTenant' = [seenTenant EXCEPT ![p] = session.tenant]
  /\ UNCHANGED <<session, logins, seenToken>>

ReadToken(p) ==
  /\ seenToken[p] = NotRead
  /\ seenToken' = [seenToken EXCEPT ![p] = session.token]
  /\ UNCHANGED <<session, logins, seenTenant>>

EndCall(p) ==
  /\ seenToken' = [seenToken EXCEPT ![p] = NotRead]
  /\ seenTenant' = [seenTenant EXCEPT ![p] = NotRead]
  /\ UNCHANGED <<session, logins>>

Next ==
  \/ Install
  \/ \E p \in Procs : ReadTenant(p) \/ ReadToken(p) \/ EndCall(p)

Spec == Init /\ [][Next]_sessionVars
=============================================================================
