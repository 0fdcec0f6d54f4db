-------------------------- MODULE ClientSyncProofs --------------------------
(***************************************************************************)
(* Safety of ClientSync for any number of goroutines, services and logins. *)
(***************************************************************************)
EXTENDS ClientSync, FiniteSetTheorems, TLAPS

\* Who holds the lock is where it holds it: a goroutine is inside or parked as a
\* reader exactly while it is in tenantID() or newRequest, the writer is in
\* authenticate, and a field is half written only by the login that is inside.
LockInv ==
  /\ readers \cap parked = {}
  /\ \A p \in Procs : p \in readers \cup parked <=> pc[p] \in {"tenant", "token"}
  /\ writer # NoProc => pc[writer] \in {"lock", "install"}
  /\ exclusive => writer # NoProc /\ readers = {}
  /\ \A p \in Procs : pc[p] = "install" <=> exclusive /\ writer = p
  /\ writing # NoField => exclusive /\ writing \in todo[writer]

\* The locals of a call are set in the order of its steps.
LocalInv ==
  \A p \in Procs :
    /\ pc[p] = "idle" => gotURL[p] = NotRead /\ gotTenant[p] = NotRead
    /\ pc[p] \in {"idle", "args", "tenant", "token"} => gotToken[p] = NotRead
    /\ pc[p] = "tenant" => gotTenant[p] = NotRead
    /\ pc[p] = "token" => call[p].token = "locked"
    /\ pc[p] \in {"token", "sent"} =>
         gotURL[p] # NotRead /\ (call[p].tenant => gotTenant[p] # NotRead)
    /\ pc[p] = "sent" => gotToken[p] # NotRead

\* A login that has still to write the token has written nothing else.
TokenFirst ==
  /\ \A p \in Procs : pc[p] = "lock" => "token" \in todo[p]
  /\ writing \notin {NoField, "token"} => "token" \notin todo[writer]

\* The token field holds the number of the last login to enter, or of the one
\* before if the last one has not written it yet; no field and no local variable
\* holds a later one.
FreshInv ==
  /\ mem["token"] =
       IF exclusive /\ "token" \in todo[writer] THEN installs - 1 ELSE installs
  /\ \A f \in Fields : mem[f] <= mem["token"]
  /\ \A p \in Procs : gotURL[p] <= mem["token"] /\ gotTenant[p] <= mem["token"]

\* Nobody is writing while a call that no login overlapped is under way, and what
\* the call has read is still what the fields hold.
QuietInv ==
  \A p \in Procs :
    /\ since[p] <= installs
    /\ since[p] = installs =>
         /\ ~exclusive
         /\ gotURL[p] \in {NotRead, mem[call[p].svc]}
         /\ gotTenant[p] \in {NotRead, mem["tenant"]}
         /\ gotToken[p] \in {NotRead, mem["token"]}

-----------------------------------------------------------------------------
\* "none" is no field, and the URL fields are neither the token nor the tenant ID.
LEMMA NoSuchField == NoField \notin Fields /\ "token" \notin Services /\ "tenant" \notin Services
BY ServicesAssumption DEF NoField, Fields

\* The request of a login is a call like another.
LEMMA LoginShape == Login \in Shapes
BY DEF Shapes

\* Every call starts from the URL of a service.
LEMMA ShapeService == ASSUME NEW c \in Shapes PROVE c.svc \in Services
<1>1. CASE c = Login
  BY <1>1, ServicesAssumption DEF Login
<1>2. CASE c \in [svc: Services, tenant: BOOLEAN,
                  token: {"locked", "raw", "none"}, login: {FALSE}]
  BY <1>2
<1> QED
  BY <1>1, <1>2 DEF Shapes

\* Every variable keeps its type.  NewClient's fields, the lock, and the locals of
\* every call and login.
THEOREM TypeCorrect == Spec => []TypeOK
<1>1. Init => TypeOK
  <2>1. Login \in Shapes
    BY LoginShape
  <2> SUFFICES ASSUME Init PROVE TypeOK
    OBVIOUS
  <2>2. LockTypeOK
    BY DEF Init, LockInit, LockTypeOK
  <2>3. mem \in [Fields -> Nat] /\ installs \in Nat /\ writing \in Fields \cup {NoField}
    BY DEF Init
  <2>4. pc \in [Procs -> Places] /\ todo \in [Procs -> SUBSET Fields]
    BY DEF Init, Places
  <2>5. call \in [Procs -> Shapes]
    BY <2>1 DEF Init
  <2>6. /\ gotURL \in [Procs -> Nat \cup {NotRead, Torn}]
        /\ gotTenant \in [Procs -> Nat \cup {NotRead, Torn}]
        /\ gotToken \in [Procs -> Nat \cup {NotRead, Torn}]
        /\ since \in [Procs -> Nat \cup {Disturbed}]
    BY DEF Init
  <2> QED
    BY <2>2, <2>3, <2>4, <2>5, <2>6 DEF TypeOK
<1>2. TypeOK /\ [Next]_vars => TypeOK'
  <2> SUFFICES ASSUME TypeOK, [Next]_vars PROVE TypeOK'
    OBVIOUS
  <2> USE DEF TypeOK, LockTypeOK
  <2>1. ASSUME NEW p \in Procs, NEW c \in Calls[p], Start(p, c) PROVE TypeOK'
    <3>1. c \in Shapes
      BY CallsAssumption
    <3> QED
      BY <2>1, <3>1 DEF Start, Goto, Places, lockVars, clientVars
  <2>2. ASSUME NEW p \in Procs, LoadURL(p) PROVE TypeOK'
    <3>1. call[p].svc \in Fields
      BY ShapeService DEF Fields
    <3>2. Unlocked(call[p].svc) \subseteq Nat \cup {Torn}
      BY <3>1 DEF Unlocked
    <3> QED
      BY <2>2, <3>2 DEF LoadURL, lockVars, clientVars
  <2>3. ASSUME NEW p \in Procs, TenantRLock(p) PROVE TypeOK'
    BY <2>3 DEF TenantRLock, RLock, Goto, Places, clientVars, localVars
  <2>4. ASSUME NEW p \in Procs, TenantRead(p) PROVE TypeOK'
    <3>1. Unlocked("tenant") \subseteq Nat \cup {Torn}
      BY DEF Unlocked, Fields
    <3> QED
      BY <2>4, <3>1 DEF TenantRead, RUnlock, Goto, Places, clientVars
  <2>5. ASSUME NEW p \in Procs, ReturnUnsent(p) PROVE TypeOK'
    BY <2>5, LoginShape DEF ReturnUnsent, Return, Goto, Places, lockVars, clientVars
  <2>6. ASSUME NEW p \in Procs, TokenRLock(p) PROVE TypeOK'
    BY <2>6 DEF TokenRLock, RLock, Goto, Places, clientVars, localVars
  <2>7. ASSUME NEW p \in Procs, TokenRead(p) \/ TokenLoad(p) PROVE TypeOK'
    <3>1. Unlocked("token") \subseteq Nat \cup {Torn}
      BY DEF Unlocked, Fields
    <3> QED
      BY <2>7, <3>1 DEF TokenRead, TokenLoad, RUnlock, Goto, Places, lockVars, clientVars
  <2>8. ASSUME NEW p \in Procs, Answered(p) PROVE TypeOK'
    BY <2>8, LoginShape DEF Answered, Return, Goto, Places, lockVars, clientVars
  <2>9. ASSUME NEW p \in Procs, LoginAccepted(p) PROVE TypeOK'
    <3> PICK tenant \in {{}, {"tenant"}}, catalog \in SUBSET Services :
          todo' = [todo EXCEPT ![p] = {"token"} \cup tenant \cup Discovered(catalog)]
      BY <2>9 DEF LoginAccepted
    <3>1. {"token"} \cup tenant \cup Discovered(catalog) \in SUBSET Fields
      BY DEF Discovered, Fields
    <3> QED
      BY <2>9, <3>1 DEF LoginAccepted, Goto, Places, lockVars, clientVars
  <2>10. ASSUME NEW p \in Procs, AnnounceLogin(p) PROVE TypeOK'
    BY <2>10 DEF AnnounceLogin, Announce, clientVars, localVars
  <2>11. ASSUME NEW p \in Procs, EnterLogin(p) PROVE TypeOK'
    BY <2>11 DEF EnterLogin, Enter, Goto, Places, localVars
  <2>12. ASSUME NEW p \in Procs, WriteBegin(p) PROVE TypeOK'
    BY <2>12 DEF WriteBegin, lockVars, localVars
  <2>13. ASSUME NEW p \in Procs, WriteEnd(p) PROVE TypeOK'
    BY <2>13 DEF WriteEnd, lockVars
  <2>14. ASSUME NEW p \in Procs, UnlockLogin(p) PROVE TypeOK'
    BY <2>14, LoginShape DEF UnlockLogin, Unlock, Return, Goto, Places, clientVars
  <2>15. CASE UNCHANGED vars
    BY <2>15 DEF vars
  <2> QED
    BY <2>1, <2>2, <2>3, <2>4, <2>5, <2>6, <2>7, <2>8, <2>9, <2>10, <2>11, <2>12,
       <2>13, <2>14, <2>15 DEF Next, Step
<1> QED
  BY <1>1, <1>2, PTL DEF Spec
-----------------------------------------------------------------------------
\* The lock's state agrees with where the goroutines are: RLock and RUnlock pair up
\* in tenantID() and newRequest, Lock and Unlock in authenticate.
THEOREM LockCorrect == Spec => []LockInv
<1>1. Init => LockInv
  BY DEF Init, LockInit, LockInv
<1>2. TypeOK /\ LockInv /\ [Next]_vars => LockInv'
  <2> SUFFICES ASSUME TypeOK, LockInv, [Next]_vars PROVE LockInv'
    OBVIOUS
  <2> USE NoProcAssumption DEF TypeOK, LockTypeOK, LockInv
  <2>1. ASSUME NEW p \in Procs, NEW c \in Calls[p], Start(p, c) PROVE LockInv'
    BY <2>1 DEF Start, Goto, Places, lockVars, clientVars
  <2>2. ASSUME NEW p \in Procs, LoadURL(p) PROVE LockInv'
    BY <2>2 DEF LoadURL, lockVars, clientVars
  <2>3. ASSUME NEW p \in Procs, TenantRLock(p) \/ TokenRLock(p) PROVE LockInv'
    <3>1. pc[p] = "args" /\ RLock(p) /\ UNCHANGED <<writing, todo>>
      BY <2>3 DEF TenantRLock, TokenRLock, ArgsRead, clientVars, localVars
    <3>2. PICK place \in {"tenant", "token"} : pc' = [pc EXCEPT ![p] = place]
      BY <2>3 DEF TenantRLock, TokenRLock, Goto
    <3> QED
      BY <3>1, <3>2 DEF RLock, Places
  <2>4. ASSUME NEW p \in Procs, TenantRead(p) \/ TokenRead(p) PROVE LockInv'
    <3>1. pc[p] \in {"tenant", "token"} /\ RUnlock(p) /\ UNCHANGED <<writing, todo>>
      BY <2>4 DEF TenantRead, TokenRead, clientVars
    <3>2. PICK place \in {"args", "sent"} : pc' = [pc EXCEPT ![p] = place]
      BY <2>4 DEF TenantRead, TokenRead, Goto
    <3> QED
      BY <3>1, <3>2 DEF RUnlock, Places
  <2>5. ASSUME NEW p \in Procs, ReturnUnsent(p) \/ Answered(p) PROVE LockInv'
    BY <2>5 DEF ReturnUnsent, Answered, ArgsRead, Return, Goto, Places, lockVars, clientVars
  <2>6. ASSUME NEW p \in Procs, TokenLoad(p) PROVE LockInv'
    BY <2>6 DEF TokenLoad, ArgsRead, Goto, Places, lockVars, clientVars
  <2>7. ASSUME NEW p \in Procs, LoginAccepted(p) PROVE LockInv'
    BY <2>7 DEF LoginAccepted, Goto, Places, lockVars, clientVars
  <2>8. ASSUME NEW p \in Procs, AnnounceLogin(p) PROVE LockInv'
    BY <2>8 DEF AnnounceLogin, Announce, clientVars, localVars
  <2>9. ASSUME NEW p \in Procs, EnterLogin(p) PROVE LockInv'
    BY <2>9 DEF EnterLogin, Enter, Goto, Places, localVars
  <2>10. ASSUME NEW p \in Procs, WriteBegin(p) PROVE LockInv'
    BY <2>10 DEF WriteBegin, NextField, lockVars, localVars
  <2>11. ASSUME NEW p \in Procs, WriteEnd(p) PROVE LockInv'
    BY <2>11 DEF WriteEnd, lockVars
  <2>12. ASSUME NEW p \in Procs, UnlockLogin(p) PROVE LockInv'
    BY <2>12 DEF UnlockLogin, Unlock, Return, Goto, Places, clientVars
  <2>13. CASE UNCHANGED vars
    BY <2>13 DEF vars
  <2> QED
    BY <2>1, <2>2, <2>3, <2>4, <2>5, <2>6, <2>7, <2>8, <2>9, <2>10, <2>11, <2>12,
       <2>13 DEF Next, Step
<1> QED
  BY <1>1, <1>2, TypeCorrect, PTL DEF Spec

\* While a goroutine is inside as a reader no field is half written.
LEMMA ReaderSeesWhole ==
  ASSUME LockInv, NEW p \in readers, NEW f \in Fields
  PROVE  Unlocked(f) = {mem[f]}
BY NoSuchField DEF LockInv, Unlocked

-----------------------------------------------------------------------------
\* A method reads its URL and its tenant ID before it reads the token, and the token
\* before it sends, as the order of the statements in every method says.
LEMMA LocalsInOrder == Spec => []LocalInv
<1>1. Init => LocalInv
  BY DEF Init, LocalInv
<1>2. TypeOK /\ LocalInv /\ [Next]_vars => LocalInv'
  <2> SUFFICES ASSUME TypeOK, LocalInv, [Next]_vars PROVE LocalInv'
    OBVIOUS
  <2> USE DEF TypeOK, LocalInv
  <2>0. \A f \in Fields : NotRead \notin Unlocked(f)
    BY DEF Unlocked, NotRead, Torn
  <2>1. ASSUME NEW p \in Procs, NEW c \in Calls[p], Start(p, c) PROVE LocalInv'
    BY <2>1 DEF Start, Goto, Places
  <2>2. ASSUME NEW p \in Procs, LoadURL(p) PROVE LocalInv'
    BY <2>2 DEF LoadURL
  <2>3. ASSUME NEW p \in Procs, TenantRLock(p) \/ TokenRLock(p) PROVE LocalInv'
    BY <2>3 DEF TenantRLock, TokenRLock, ArgsRead, Goto, Places, localVars
  <2>4. ASSUME NEW p \in Procs, TenantRead(p) PROVE LocalInv'
    BY <2>4 DEF TenantRead, Goto, Places
  <2>5. ASSUME NEW p \in Procs, TokenRead(p) \/ TokenLoad(p) PROVE LocalInv'
    BY <2>5, <2>0 DEF TokenRead, TokenLoad, ArgsRead, Goto, Places, Fields
  <2>6. ASSUME NEW p \in Procs, ReturnUnsent(p) \/ Answered(p) \/ UnlockLogin(p)
        PROVE LocalInv'
    BY <2>6 DEF ReturnUnsent, Answered, UnlockLogin, Return, Goto, Places
  <2>7. ASSUME NEW p \in Procs, LoginAccepted(p) \/ EnterLogin(p) PROVE LocalInv'
    BY <2>7 DEF LoginAccepted, EnterLogin, Goto, Places, localVars
  <2>8. ASSUME NEW p \in Procs, AnnounceLogin(p) \/ WriteBegin(p) \/ WriteEnd(p)
        PROVE LocalInv'
    BY <2>8 DEF AnnounceLogin, WriteBegin, WriteEnd, localVars
  <2>9. CASE UNCHANGED vars
    BY <2>9 DEF vars
  <2> QED
    BY <2>1, <2>2, <2>3, <2>4, <2>5, <2>6, <2>7, <2>8, <2>9 DEF Next, Step
<1> QED
  BY <1>1, <1>2, TypeCorrect, PTL DEF Spec
-----------------------------------------------------------------------------
\* tenantID() and newRequest never see half a string: what they read under mu, no
\* login is writing.
THEOREM LockedReads == Spec => []LockedReadsIntact
<1>1. Init => LockedReadsIntact
  BY DEF Init, LockedReadsIntact, NotRead, Torn
<1>2. TypeOK /\ LockInv /\ LocalInv /\ LockedReadsIntact /\ [Next]_vars
        => LockedReadsIntact'
  <2> SUFFICES ASSUME TypeOK, LockInv, LocalInv, LockedReadsIntact, [Next]_vars
               PROVE  LockedReadsIntact'
    OBVIOUS
  <2> USE DEF TypeOK, LockedReadsIntact
  <2>1. NotRead # Torn /\ \A f \in Fields : mem[f] # Torn
    BY DEF NotRead, Torn
  <2>2. ASSUME NEW p \in Procs, NEW c \in Calls[p], Start(p, c)
        PROVE  LockedReadsIntact'
    BY <2>2, <2>1 DEF Start, LocalInv
  <2>3. ASSUME NEW p \in Procs, TenantRead(p) PROVE LockedReadsIntact'
    <3>1. Unlocked("tenant") = {mem["tenant"]}
      BY <2>3, ReaderSeesWhole DEF TenantRead, RUnlock, Fields
    <3> QED
      BY <2>3, <2>1, <3>1 DEF TenantRead, Fields
  <2>4. ASSUME NEW p \in Procs, TokenRead(p) PROVE LockedReadsIntact'
    <3>1. Unlocked("token") = {mem["token"]}
      BY <2>4, ReaderSeesWhole DEF TokenRead, RUnlock, Fields
    <3> QED
      BY <2>4, <2>1, <3>1 DEF TokenRead, Fields
  <2>5. ASSUME NEW p \in Procs, TokenLoad(p) PROVE LockedReadsIntact'
    BY <2>5 DEF TokenLoad
  <2>6. ASSUME NEW p \in Procs, ReturnUnsent(p) \/ Answered(p) \/ UnlockLogin(p)
        PROVE  LockedReadsIntact'
    BY <2>6, <2>1 DEF ReturnUnsent, Answered, UnlockLogin, Return
  <2>7. CASE UNCHANGED <<call, gotTenant, gotToken>>
    BY <2>7
  <2>8. ASSUME NEW p \in Procs,
               \/ LoadURL(p) \/ TenantRLock(p) \/ TokenRLock(p) \/ LoginAccepted(p)
               \/ AnnounceLogin(p) \/ EnterLogin(p) \/ WriteBegin(p) \/ WriteEnd(p)
        PROVE  UNCHANGED <<call, gotTenant, gotToken>>
    BY <2>8 DEF LoadURL, TenantRLock, TokenRLock, LoginAccepted, AnnounceLogin,
         EnterLogin, WriteBegin, WriteEnd, localVars
  <2> QED
    BY <2>2, <2>3, <2>4, <2>5, <2>6, <2>7, <2>8 DEF Next, Step, vars
<1> QED
  BY <1>1, <1>2, TypeCorrect, LockCorrect, LocalsInOrder, PTL DEF Spec

-----------------------------------------------------------------------------
\* A login that has not written the token has written nothing yet.
LEMMA TokenIsFirst == Spec => []TokenFirst
<1>1. Init => TokenFirst
  BY DEF Init, TokenFirst
<1>2. TypeOK /\ LockInv /\ TokenFirst /\ [Next]_vars => TokenFirst'
  <2> SUFFICES ASSUME TypeOK, LockInv, TokenFirst, [Next]_vars PROVE TokenFirst'
    OBVIOUS
  <2> USE NoProcAssumption DEF TypeOK, LockTypeOK, TokenFirst
  <2>1. writing # NoField =>
          exclusive /\ writer \in Procs /\ pc[writer] = "install"
    BY DEF LockInv
  <2>2. ASSUME NEW p \in Procs, LoginAccepted(p) PROVE TokenFirst'
    BY <2>2, <2>1 DEF LoginAccepted, Goto, lockVars, clientVars
  <2>3. ASSUME NEW p \in Procs, WriteBegin(p) PROVE TokenFirst'
    BY <2>3 DEF WriteBegin, NextField, LockInv, lockVars, localVars
  <2>4. ASSUME NEW p \in Procs, WriteEnd(p) PROVE TokenFirst'
    BY <2>4 DEF WriteEnd, lockVars
  <2>5. ASSUME NEW p \in Procs, UnlockLogin(p) PROVE TokenFirst'
    BY <2>5 DEF UnlockLogin, Unlock, Return, Goto, clientVars
  <2>6. ASSUME NEW p \in Procs, AnnounceLogin(p) PROVE TokenFirst'
    BY <2>6, <2>1 DEF AnnounceLogin, Announce, clientVars, localVars
  <2>7. ASSUME NEW p \in Procs, EnterLogin(p) PROVE TokenFirst'
    BY <2>7 DEF EnterLogin, Enter, Goto, localVars
  <2>8. CASE /\ UNCHANGED <<writing, todo, writer>>
             /\ \A q \in Procs : pc'[q] = "lock" => pc[q] = "lock"
    BY <2>8
  <2>9. ASSUME NEW p \in Procs,
               \/ \E c \in Calls[p] : Start(p, c)
               \/ LoadURL(p) \/ TenantRLock(p) \/ TenantRead(p) \/ ReturnUnsent(p)
               \/ TokenRLock(p) \/ TokenRead(p) \/ TokenLoad(p) \/ Answered(p)
        PROVE  /\ UNCHANGED <<writing, todo, writer>>
               /\ \A q \in Procs : pc'[q] = "lock" => pc[q] = "lock"
    BY <2>9 DEF Start, LoadURL, TenantRLock, TenantRead, ReturnUnsent, TokenRLock,
         TokenRead, TokenLoad, Answered, RLock, RUnlock, Return, Goto, lockVars,
         clientVars, localVars
  <2>10. CASE UNCHANGED vars
    BY <2>10 DEF vars
  <2> QED
    BY <2>2, <2>3, <2>4, <2>5, <2>6, <2>7, <2>8, <2>9, <2>10 DEF Next, Step
<1> QED
  BY <1>1, <1>2, TypeCorrect, LockCorrect, PTL DEF Spec
-----------------------------------------------------------------------------
\* The token field is never behind another field or a local variable.
LEMMA TokenIsLatest == Spec => []FreshInv
<1>1. Init => FreshInv
  BY ServicesAssumption DEF Init, LockInit, FreshInv, Fields, NotRead
<1>2. TypeOK /\ TypeOK' /\ LockInv /\ TokenFirst /\ FreshInv /\ [Next]_vars
        => FreshInv'
  <2> SUFFICES ASSUME TypeOK, LockInv, TokenFirst, TypeOK', FreshInv, [Next]_vars
               PROVE  FreshInv'
    OBVIOUS
  <2>0. exclusive => writer \in Procs /\ pc[writer] = "install"
    BY DEF LockInv, TypeOK, LockTypeOK
  <2>1. mem["token"] <= installs /\ mem["token"] \in Nat /\ installs \in Nat
    BY DEF FreshInv, TypeOK, Fields
  <2>2. \A f \in Fields : \A v \in Unlocked(f) : f # "token" => v <= mem["token"]
    <3> SUFFICES ASSUME NEW f \in Fields, NEW v \in Unlocked(f), f # "token"
                 PROVE  v <= mem["token"]
      OBVIOUS
    <3>1. CASE v = mem[f]
      BY <3>1 DEF FreshInv
    <3>2. CASE v = Torn
      BY <3>2, <2>1 DEF Torn
    <3>3. CASE writing = f /\ v = installs
      BY <3>3, <2>1, NoSuchField DEF TokenFirst, FreshInv
    <3> QED
      BY <3>1, <3>2, <3>3 DEF Unlocked
  <2>3. ASSUME NEW p \in Procs, LoadURL(p) PROVE FreshInv'
    <3>1. call[p].svc \in Fields /\ call[p].svc # "token"
      BY ShapeService, NoSuchField DEF TypeOK, Fields
    <3>2. PICK v \in Unlocked(call[p].svc) : gotURL' = [gotURL EXCEPT ![p] = v]
      BY <2>3 DEF LoadURL
    <3>3. v <= mem["token"]
      BY <3>1, <2>2
    <3> QED
      BY <2>3, <3>2, <3>3 DEF LoadURL, FreshInv, TypeOK, lockVars, clientVars
  <2>4. ASSUME NEW p \in Procs, TenantRead(p) PROVE FreshInv'
    <3>1. PICK v \in Unlocked("tenant") : gotTenant' = [gotTenant EXCEPT ![p] = v]
      BY <2>4 DEF TenantRead
    <3>2. v <= mem["token"]
      BY <2>2 DEF Fields
    <3> QED
      BY <2>4, <3>1, <3>2 DEF TenantRead, RUnlock, FreshInv, TypeOK, clientVars
  <2>5. ASSUME NEW p \in Procs, ReturnUnsent(p) \/ Answered(p) PROVE FreshInv'
    <3>1. /\ gotURL' = [gotURL EXCEPT ![p] = NotRead]
          /\ gotTenant' = [gotTenant EXCEPT ![p] = NotRead]
          /\ UNCHANGED <<mem, installs, exclusive, writer, todo>>
      BY <2>5 DEF ReturnUnsent, Answered, Return, lockVars, clientVars
    <3> QED
      BY <3>1, <2>1 DEF FreshInv, TypeOK, NotRead
  <2>6. ASSUME NEW p \in Procs, LoginAccepted(p) PROVE FreshInv'
    <3>1. /\ UNCHANGED <<mem, installs, exclusive, writer, gotURL, gotTenant>>
          /\ pc[p] = "sent"
      BY <2>6 DEF LoginAccepted, lockVars, clientVars
    <3>2. exclusive => todo'[writer] = todo[writer]
      BY <2>6, <2>0, <3>1 DEF LoginAccepted, TypeOK
    <3> QED
      BY <3>1, <3>2 DEF FreshInv
  <2>7. ASSUME NEW p \in Procs, AnnounceLogin(p) PROVE FreshInv'
    BY <2>7, <2>0, NoProcAssumption
    DEF AnnounceLogin, Announce, FreshInv, clientVars, localVars, LockInv
  <2>8. ASSUME NEW p \in Procs, EnterLogin(p) PROVE FreshInv'
    <3>1. /\ pc[p] = "lock" /\ writer' = p /\ ~exclusive /\ exclusive'
          /\ installs' = installs + 1
          /\ UNCHANGED <<mem, todo, gotURL, gotTenant>>
      BY <2>8 DEF EnterLogin, Enter, localVars
    <3>2. "token" \in todo'[writer']
      BY <3>1 DEF TokenFirst
    <3> QED
      BY <3>1, <3>2, <2>1 DEF FreshInv
  <2>9. ASSUME NEW p \in Procs, WriteEnd(p) PROVE FreshInv'
    <3>1. /\ writing # NoField /\ exclusive /\ writer = p /\ writing \in todo[p]
          /\ writing \in Fields
          /\ mem' = [mem EXCEPT ![writing] = installs]
          /\ todo' = [todo EXCEPT ![p] = @ \ {writing}]
          /\ UNCHANGED <<installs, exclusive, writer, gotURL, gotTenant>>
      BY <2>9 DEF WriteEnd, LockInv, TypeOK, lockVars
    <3>2. CASE writing = "token"
      <4>1. mem'["token"] = installs /\ "token" \notin todo'[p]
        BY <3>1, <3>2 DEF TypeOK, Fields
      <4>2. \A f \in Fields : mem'[f] <= installs
        BY <3>1, <2>1 DEF FreshInv, TypeOK
      <4>3. \A q \in Procs : gotURL[q] <= installs /\ gotTenant[q] <= installs
        BY <2>1 DEF FreshInv, TypeOK, NotRead, Torn
      <4> QED
        BY <3>1, <4>1, <4>2, <4>3 DEF FreshInv
    <3>3. CASE writing # "token"
      <4>1. "token" \notin todo[p] /\ "token" \notin todo'[p]
        BY <3>1, <3>3 DEF TokenFirst, TypeOK
      <4>2. mem'["token"] = mem["token"] /\ mem["token"] = installs
        BY <3>1, <3>3, <4>1 DEF FreshInv, TypeOK, Fields
      <4>3. \A f \in Fields : mem'[f] <= installs
        BY <3>1, <4>2, <2>1 DEF FreshInv, TypeOK
      <4> QED
        BY <3>1, <4>1, <4>2, <4>3 DEF FreshInv
    <3> QED
      BY <3>2, <3>3
  <2>10. ASSUME NEW p \in Procs, UnlockLogin(p) PROVE FreshInv'
    <3>1. /\ todo[p] = {} /\ writer = p /\ exclusive /\ ~exclusive'
          /\ gotURL' = [gotURL EXCEPT ![p] = NotRead]
          /\ gotTenant' = [gotTenant EXCEPT ![p] = NotRead]
          /\ UNCHANGED <<mem, installs>>
      BY <2>10 DEF UnlockLogin, Unlock, Return, clientVars
    <3> QED
      BY <3>1, <2>1 DEF FreshInv, TypeOK, NotRead
  <2>11. CASE UNCHANGED <<mem, installs, exclusive, writer, todo, gotURL, gotTenant>>
    BY <2>11 DEF FreshInv
  <2>12. ASSUME NEW p \in Procs,
                \/ \E c \in Calls[p] : Start(p, c)
                \/ TenantRLock(p) \/ TokenRLock(p) \/ TokenRead(p) \/ TokenLoad(p)
                \/ WriteBegin(p)
         PROVE  UNCHANGED <<mem, installs, exclusive, writer, todo, gotURL, gotTenant>>
    BY <2>12 DEF Start, TenantRLock, TokenRLock, TokenRead, TokenLoad, WriteBegin,
         RLock, RUnlock, lockVars, clientVars, localVars
  <2> QED
    BY <2>3, <2>4, <2>5, <2>6, <2>7, <2>8, <2>9, <2>10, <2>11, <2>12
    DEF Next, Step, vars
<1> QED
  BY <1>1, <1>2, TypeCorrect, LockCorrect, TokenIsFirst, PTL DEF Spec

\* No request carries a token older than its tenant ID or its endpoint URL, in any
\* interleaving of any number of logins and calls.
THEOREM FreshTokens == Spec => []NoStaleToken
<1>1. Init => NoStaleToken
  BY DEF Init, NoStaleToken
<1>2. TypeOK /\ TypeOK' /\ FreshInv /\ LocalInv /\ NoStaleToken /\ [Next]_vars
        => NoStaleToken'
  <2> SUFFICES ASSUME TypeOK, TypeOK', FreshInv, LocalInv, NoStaleToken, [Next]_vars
               PROVE  NoStaleToken'
    OBVIOUS
  <2> USE DEF TypeOK, NoStaleToken
  <2>1. ASSUME NEW p \in Procs, TokenRead(p) \/ TokenLoad(p) PROVE NoStaleToken'
    <3>1. PICK v \in Unlocked("token") : gotToken' = [gotToken EXCEPT ![p] = v]
      BY <2>1 DEF TokenRead, TokenLoad
    <3>2. v = Torn \/ (v \in Nat /\ mem["token"] \in Nat /\ mem["token"] <= v)
      BY DEF Unlocked, FreshInv, Fields
    <3>3. /\ UNCHANGED <<gotURL, gotTenant>>
          /\ \A q \in Procs \ {p} : pc'[q] = pc[q]
      BY <2>1 DEF TokenRead, TokenLoad, Goto
    <3>4. v # Torn => gotURL[p] <= v /\ gotTenant[p] <= v
      BY <3>2 DEF FreshInv, NotRead, Torn
    <3> QED
      BY <3>1, <3>3, <3>4
  <2>2. \A q \in Procs :
          pc'[q] = "sent" /\ UNCHANGED <<pc[q], gotToken[q], gotTenant[q], gotURL[q]>>
            => (gotToken'[q] # Torn => gotTenant'[q] <= gotToken'[q]
                                       /\ gotURL'[q] <= gotToken'[q])
    OBVIOUS
  <2>3. ASSUME NEW p \in Procs,
               \/ \E c \in Calls[p] : Start(p, c)
               \/ LoadURL(p) \/ TenantRLock(p) \/ TenantRead(p) \/ ReturnUnsent(p)
               \/ TokenRLock(p) \/ Answered(p) \/ LoginAccepted(p) \/ AnnounceLogin(p)
               \/ EnterLogin(p) \/ WriteBegin(p) \/ WriteEnd(p) \/ UnlockLogin(p)
        PROVE  \A q \in Procs : pc'[q] = "sent" =>
                 UNCHANGED <<pc[q], gotToken[q], gotTenant[q], gotURL[q]>>
    BY <2>3 DEF Start, LoadURL, TenantRLock, TenantRead, ReturnUnsent, TokenRLock,
         Answered, LoginAccepted, AnnounceLogin, EnterLogin, WriteBegin, WriteEnd,
         UnlockLogin, ArgsRead, Return, Goto, localVars
  <2>4. CASE UNCHANGED vars
    BY <2>4 DEF vars
  <2> QED
    BY <2>1, <2>2, <2>3, <2>4 DEF Next, Step
<1> QED
  BY <1>1, <1>2, TypeCorrect, TokenIsLatest, LocalsInOrder, PTL DEF Spec
-----------------------------------------------------------------------------
\* A reader that is parked is let in by the Unlock of a writer that is there.
LEMMA ParkedHaveWriter == Spec => [](parked # {} => writer # NoProc)
<1> DEFINE P == parked # {} => writer # NoProc
<1>1. Init => P
  BY DEF Init, LockInit
<1>2. P /\ [Next]_vars => P'
  <2> SUFFICES ASSUME P, [Next]_vars PROVE P'
    OBVIOUS
  <2>1. ASSUME NEW p \in Procs, AnnounceLogin(p) PROVE P'
    BY <2>1, NoProcAssumption DEF AnnounceLogin, Announce
  <2>2. ASSUME NEW p \in Procs, UnlockLogin(p) PROVE P'
    BY <2>2 DEF UnlockLogin, Unlock
  <2>3. ASSUME NEW p \in Procs, TenantRLock(p) \/ TokenRLock(p) PROVE P'
    BY <2>3 DEF TenantRLock, TokenRLock, RLock
  <2>4. CASE UNCHANGED <<parked, writer>>
    BY <2>4
  <2>5. ASSUME NEW p \in Procs,
               \/ \E c \in Calls[p] : Start(p, c)
               \/ LoadURL(p) \/ TenantRead(p) \/ ReturnUnsent(p) \/ TokenRead(p)
               \/ TokenLoad(p) \/ Answered(p) \/ LoginAccepted(p) \/ EnterLogin(p)
               \/ WriteBegin(p) \/ WriteEnd(p)
        PROVE  UNCHANGED <<parked, writer>>
    BY <2>5 DEF Start, LoadURL, TenantRead, ReturnUnsent, TokenRead, TokenLoad, Answered,
         LoginAccepted, EnterLogin, WriteBegin, WriteEnd, RUnlock, Enter, lockVars
  <2> QED
    BY <2>1, <2>2, <2>3, <2>4, <2>5 DEF Next, Step, vars, lockVars
<1> QED
  BY <1>1, <1>2, PTL DEF Spec

\* A login inside the write section has a field to write, or all are written.
LEMMA InstallGoesOn ==
  ASSUME TypeOK, LockInv, NEW p \in Procs, pc[p] = "install"
  PROVE  CanGo(p)
<1>1. writer = p /\ exclusive /\ todo[p] \subseteq Fields
  BY DEF LockInv, TypeOK
<1>2. CASE todo[p] = {}
  BY <1>1, <1>2 DEF CanGo
<1>3. CASE todo[p] # {}
  <2>1. \E f \in todo[p] : NextField(p, f)
    <3>1. CASE "token" \in todo[p]
      BY <3>1, ServicesAssumption DEF NextField
    <3>2. CASE "token" \notin todo[p] /\ "tenant" \in todo[p]
      BY <3>2, ServicesAssumption DEF NextField
    <3>3. CASE "token" \notin todo[p] /\ "tenant" \notin todo[p]
      BY <1>3, <3>3 DEF NextField
    <3> QED
      BY <3>1, <3>2, <3>3
  <2> QED
    BY <1>1, <2>1 DEF CanGo
<1> QED
  BY <1>2, <1>3

\* No goroutines wait for each other: when one cannot go on, the login that is inside
\* or the readers that an announced login waits for can, or else that login itself.
THEOREM NoDeadlock == Spec => []NobodyStuck
<1>1. TypeOK /\ LockInv /\ (parked # {} => writer # NoProc) => NobodyStuck
  <2> SUFFICES ASSUME TypeOK, LockInv, parked # {} => writer # NoProc,
                      NEW p \in Procs, pc[p] # "idle", ~CanGo(p)
               PROVE  \E q \in readers \cup {writer} :
                        pc[q] \in {"tenant", "token", "lock", "install"} /\ CanGo(q)
    BY DEF NobodyStuck
  <2> USE DEF TypeOK, LockTypeOK
  <2>1. writer # NoProc
    <3>1. CASE pc[p] \in {"tenant", "token"}
      BY <3>1 DEF CanGo, LockInv
    <3>2. CASE pc[p] = "lock"
      BY <3>2 DEF CanGo
    <3>3. pc[p] # "install"
      BY InstallGoesOn
    <3> QED
      BY <3>1, <3>2, <3>3 DEF CanGo, Places
  <2>2. writer \in Procs /\ pc[writer] \in {"lock", "install"}
    BY <2>1 DEF LockInv
  <2>3. CASE exclusive
    BY <2>2, <2>3, InstallGoesOn DEF LockInv
  <2>4. CASE ~exclusive /\ readers = {}
    <3>1. pc[writer] = "lock"
      BY <2>2, <2>4 DEF LockInv
    <3> QED
      BY <2>4, <3>1 DEF CanGo
  <2>5. CASE readers # {}
    <3> PICK q \in readers : TRUE
      BY <2>5
    <3>1. pc[q] \in {"tenant", "token"}
      BY DEF LockInv
    <3> QED
      BY <3>1 DEF CanGo
  <2> QED
    BY <2>3, <2>4, <2>5
<1> QED
  BY <1>1, TypeCorrect, LockCorrect, ParkedHaveWriter, PTL
-----------------------------------------------------------------------------
\* A login has finitely many fields to write.
LEMMA FieldsFinite ==
  /\ IsFiniteSet(Fields)
  /\ \A T \in SUBSET Fields :
       /\ IsFiniteSet(T)
       /\ Cardinality(T) \in Nat /\ Cardinality(Fields) \in Nat
       /\ Cardinality(T) <= Cardinality(Fields)
<1>1. IsFiniteSet(Fields)
  <2>1. IsFiniteSet(Services \cup {"tenant"})
    BY ServicesAssumption, FS_AddElement
  <2>2. IsFiniteSet((Services \cup {"tenant"}) \cup {"token"})
    BY <2>1, FS_AddElement
  <2>3. (Services \cup {"tenant"}) \cup {"token"} = Fields
    BY DEF Fields
  <2> QED
    BY <2>2, <2>3
<1> QED
  BY <1>1, FS_Subset, FS_CardinalityType

\* What a step leaves of a goroutine's place and locals, it leaves of its way.
LEMMA LeftKept ==
  ASSUME NEW q \in Procs,
         UNCHANGED <<pc[q], call[q], gotURL[q], gotTenant[q], todo[q]>>,
         pc[q] = "lock" => (writer' = q <=> writer = q),
         pc[q] = "install" => (writing' = NoField <=> writing = NoField)
  PROVE  Left(q)' = Left(q)
BY DEF Left

\* Every step brings the call that takes it nearer to its return, and leaves the other
\* calls where they are.
THEOREM CallsOnlyAdvance == Spec => CallsAdvance
<1> DEFINE F == Cardinality(Fields)
           Advances(p) == /\ IF pc[p] = "idle" THEN pc'[p] # "idle" ELSE Left(p)' < Left(p)
                          /\ \A q \in Procs \ {p} : Left(q)' = Left(q)
<1>1. TypeOK /\ TypeOK' /\ LockInv /\ LocalInv /\ [Next]_vars
        => [\E p \in Procs : Advances(p)]_vars
  <2> SUFFICES ASSUME TypeOK, TypeOK', LockInv, LocalInv, Next
               PROVE  \E p \in Procs : Advances(p)
    OBVIOUS
  <2> USE DEF TypeOK, LockTypeOK
  <2>0. /\ F \in Nat
        /\ \A p \in Procs : Cardinality(todo[p]) \in Nat
        /\ \A p \in Procs : Cardinality(todo'[p]) \in Nat /\ Cardinality(todo'[p]) <= F
    BY FieldsFinite
  <2>1. \A f \in Fields : NotRead \notin Unlocked(f)
    BY DEF Unlocked, NotRead, Torn
  <2>16. ASSUME NEW p \in Procs, Left(p)' < Left(p),
                \A q \in Procs \ {p} : Left(q)' = Left(q)
         PROVE  Advances(p)
    <3>1. Left(p)' \in Nat
      <4>1. CASE pc'[p] \in {"args", "tenant", "token", "sent"}
        BY <2>0, <4>1 DEF Left
      <4>2. CASE pc'[p] \in {"idle", "lock", "install"}
        BY <2>0, <4>2 DEF Left
      <4> QED
        BY <4>1, <4>2 DEF Places
    <3>2. pc[p] = "idle" => Left(p) = 0
      BY DEF Left
    <3> QED
      BY <2>16, <3>1, <3>2
  <2>2. ASSUME NEW p \in Procs, Return(p), pc[p] # "idle", 0 < Left(p),
               UNCHANGED writing, writer' = writer \/ (writer = p /\ writer' = NoProc)
        PROVE  Advances(p)
    <3>1. Left(p)' = 0
      BY <2>2 DEF Return, Goto, Left
    <3>2. \A q \in Procs \ {p} : Left(q)' = Left(q)
      BY <2>2, LeftKept, NoProcAssumption DEF Return, Goto
    <3> QED
      BY <2>2, <3>1, <3>2
  <2>3. ASSUME NEW p \in Procs, NEW c \in Calls[p], Start(p, c) PROVE Advances(p)
    BY <2>3, LeftKept DEF Start, Goto, lockVars, clientVars
  <2>4. ASSUME NEW p \in Procs, LoadURL(p) PROVE Advances(p)
    <3>1. gotURL'[p] # NotRead
      <4>1. call[p].svc \in Fields
        BY ShapeService DEF Fields
      <4> QED
        BY <2>4, <2>1, <4>1 DEF LoadURL
    <3>2. Left(p)' < Left(p)
      BY <2>4, <2>0, <3>1 DEF LoadURL, Left
    <3>3. \A q \in Procs \ {p} : Left(q)' = Left(q)
      BY <2>4, LeftKept DEF LoadURL, lockVars, clientVars
    <3> QED
      BY <3>2, <3>3, <2>16
  <2>5. ASSUME NEW p \in Procs, TenantRLock(p) \/ TokenRLock(p) PROVE Advances(p)
    <3>1. Left(p)' < Left(p)
      <4>1. CASE TenantRLock(p)
        BY <4>1, <2>0 DEF TenantRLock, Goto, Left, localVars
      <4>2. CASE TokenRLock(p)
        BY <4>2, <2>0 DEF TokenRLock, ArgsRead, Goto, Left, localVars
      <4> QED
        BY <2>5, <4>1, <4>2
    <3>2. \A q \in Procs \ {p} : Left(q)' = Left(q)
      BY <2>5, LeftKept DEF TenantRLock, TokenRLock, RLock, Goto, clientVars, localVars
    <3> QED
      BY <3>1, <3>2, <2>16
  <2>6. ASSUME NEW p \in Procs, TenantRead(p) PROVE Advances(p)
    <3>1. gotTenant'[p] # NotRead
      BY <2>6, <2>1 DEF TenantRead, Fields
    <3>2. Left(p)' < Left(p)
      BY <2>6, <2>0, <3>1 DEF TenantRead, Goto, Left
    <3>3. \A q \in Procs \ {p} : Left(q)' = Left(q)
      BY <2>6, LeftKept DEF TenantRead, RUnlock, Goto, clientVars
    <3> QED
      BY <3>2, <3>3, <2>16
  <2>7. ASSUME NEW p \in Procs, TokenRead(p) \/ TokenLoad(p) PROVE Advances(p)
    <3>1. Left(p)' < Left(p)
      <4>1. CASE TokenRead(p)
        BY <4>1, <2>0 DEF TokenRead, Goto, Left
      <4>2. CASE TokenLoad(p)
        BY <4>2, <2>0 DEF TokenLoad, ArgsRead, Goto, Left
      <4> QED
        BY <2>7, <4>1, <4>2
    <3>2. \A q \in Procs \ {p} : Left(q)' = Left(q)
      BY <2>7, LeftKept DEF TokenRead, TokenLoad, RUnlock, Goto, lockVars, clientVars
    <3> QED
      BY <3>1, <3>2, <2>16
  <2>8. ASSUME NEW p \in Procs, ReturnUnsent(p) \/ Answered(p) PROVE Advances(p)
    <3>1. pc[p] \in {"args", "sent"} /\ 0 < Left(p)
      BY <2>8, <2>0 DEF ReturnUnsent, ArgsRead, Answered, Left
    <3> QED
      BY <2>2, <2>8, <3>1 DEF ReturnUnsent, Answered, lockVars, clientVars
  <2>9. ASSUME NEW p \in Procs, LoginAccepted(p) PROVE Advances(p)
    <3>1. Left(p)' < Left(p)
      <4>1. pc[p] = "sent" /\ pc'[p] = "lock"
        BY <2>9 DEF LoginAccepted, Goto
      <4>2. Left(p) = 2 * F + 4
        BY <4>1 DEF Left
      <4>3. Left(p)' \in {2 * Cardinality(todo'[p]) + 2, 2 * Cardinality(todo'[p]) + 3}
        BY <2>0, <4>1 DEF Left
      <4> QED
        BY <2>0, <4>2, <4>3
    <3>2. \A q \in Procs \ {p} : Left(q)' = Left(q)
      BY <2>9, LeftKept DEF LoginAccepted, Goto, lockVars, clientVars
    <3> QED
      BY <3>1, <3>2, <2>16
  <2>10. ASSUME NEW p \in Procs, AnnounceLogin(p) PROVE Advances(p)
    <3>1. /\ pc[p] = "lock" /\ writer = NoProc /\ writer' = p
          /\ UNCHANGED <<writing, pc, localVars>>
      BY <2>10 DEF AnnounceLogin, Announce, clientVars
    <3>2. Left(p)' < Left(p)
      BY <2>0, <3>1, NoProcAssumption DEF Left, localVars
    <3>3. \A q \in Procs \ {p} : Left(q)' = Left(q)
      BY <3>1, LeftKept, NoProcAssumption DEF localVars
    <3> QED
      BY <3>2, <3>3, <2>16
  <2>11. ASSUME NEW p \in Procs, EnterLogin(p) PROVE Advances(p)
    <3>1. Left(p)' < Left(p)
      BY <2>11, <2>0 DEF EnterLogin, Enter, Goto, Left, localVars
    <3>2. \A q \in Procs \ {p} : Left(q)' = Left(q)
      BY <2>11, LeftKept DEF EnterLogin, Enter, Goto, localVars
    <3> QED
      BY <3>1, <3>2, <2>16
  <2>12. ASSUME NEW p \in Procs, NEW q \in Procs \ {p}, pc[p] = "install"
         PROVE  pc[q] # "install"
    BY <2>12 DEF LockInv
  <2>13. ASSUME NEW p \in Procs, WriteBegin(p) PROVE Advances(p)
    <3>1. /\ pc[p] = "install" /\ writing = NoField /\ writing' # NoField
          /\ UNCHANGED <<writer, pc, localVars>>
      BY <2>13, NoSuchField DEF WriteBegin, lockVars
    <3>2. Left(p)' < Left(p)
      BY <2>0, <3>1 DEF Left, localVars
    <3>3. \A q \in Procs \ {p} : Left(q)' = Left(q)
      BY <3>1, <2>12, LeftKept DEF localVars
    <3> QED
      BY <3>2, <3>3, <2>16
  <2>14. ASSUME NEW p \in Procs, WriteEnd(p) PROVE Advances(p)
    <3>1. /\ pc[p] = "install" /\ writing # NoField /\ writing' = NoField
          /\ writing \in todo[p] /\ todo' = [todo EXCEPT ![p] = @ \ {writing}]
          /\ UNCHANGED <<writer, pc, call, gotURL, gotTenant>>
      BY <2>14 DEF WriteEnd, LockInv, lockVars
    <3>2. Cardinality(todo'[p]) = Cardinality(todo[p]) - 1
      <4>1. IsFiniteSet(todo[p])
        BY FieldsFinite
      <4>2. writing \in todo[p]
        BY <3>1
      <4>3. Cardinality(todo[p] \ {writing}) = Cardinality(todo[p]) - 1
        BY <4>1, <4>2, FS_RemoveElement
      <4> QED
        BY <3>1, <4>3
    <3>3. Left(p)' < Left(p)
      BY <2>0, <3>1, <3>2 DEF Left
    <3>4. \A q \in Procs \ {p} : Left(q)' = Left(q)
      BY <3>1, <2>12, LeftKept
    <3> QED
      BY <3>3, <3>4, <2>16
  <2>15. ASSUME NEW p \in Procs, UnlockLogin(p) PROVE Advances(p)
    <3>1. pc[p] = "install" /\ 0 < Left(p)
      <4>1. pc[p] = "install" /\ writing = NoField
        BY <2>15 DEF UnlockLogin
      <4> QED
        BY <2>0, <4>1 DEF Left
    <3> QED
      BY <2>2, <2>15, <3>1 DEF UnlockLogin, Unlock, clientVars
  <2> HIDE DEF Advances
  <2> QED
    BY <2>3, <2>4, <2>5, <2>6, <2>7, <2>8, <2>9, <2>10, <2>11, <2>13, <2>14, <2>15
    DEF Next, Step
<1> QED
  BY <1>1, TypeCorrect, LockCorrect, LocalsInOrder, PTL DEF Spec, CallsAdvance
-----------------------------------------------------------------------------
\* While no login overlaps a call, what the call has read stays what the fields hold.
LEMMA QuietStays == Spec => []QuietInv
<1>1. Init => QuietInv
  BY DEF Init, QuietInv, Disturbed
<1>2. TypeOK /\ LockInv /\ LocalInv /\ QuietInv /\ [Next]_vars => QuietInv'
  <2> SUFFICES ASSUME TypeOK, LockInv, LocalInv, QuietInv, [Next]_vars
               PROVE  QuietInv'
    OBVIOUS
  <2> USE DEF TypeOK, QuietInv
  <2>0. ~exclusive => \A f \in Fields : Unlocked(f) = {mem[f]}
    BY NoSuchField DEF LockInv, Unlocked
  <2>1. ASSUME NEW p \in Procs, NEW c \in Calls[p], Start(p, c) PROVE QuietInv'
    <3>1. /\ UNCHANGED <<mem, installs, exclusive, gotURL, gotTenant, gotToken>>
          /\ call' = [call EXCEPT ![p] = c]
          /\ since' = [since EXCEPT ![p] = IF exclusive THEN Disturbed ELSE installs]
          /\ gotURL[p] = NotRead /\ gotTenant[p] = NotRead /\ gotToken[p] = NotRead
      BY <2>1 DEF Start, LocalInv, lockVars, clientVars
    <3>2. since'[p] <= installs /\ (since'[p] = installs => ~exclusive)
      BY <3>1 DEF Disturbed
    <3> QED
      BY <3>1, <3>2
  <2>2. ASSUME NEW p \in Procs, LoadURL(p) PROVE QuietInv'
    <3>1. PICK v \in Unlocked(call[p].svc) : gotURL' = [gotURL EXCEPT ![p] = v]
      BY <2>2 DEF LoadURL
    <3>2. ~exclusive => v = mem[call[p].svc]
      <4>1. call[p].svc \in Fields
        BY ShapeService DEF Fields
      <4> QED
        BY <4>1, <3>1, <2>0
    <3> QED
      BY <2>2, <3>1, <3>2 DEF LoadURL, lockVars, clientVars
  <2>3. ASSUME NEW p \in Procs, TenantRead(p) PROVE QuietInv'
    <3>1. PICK v \in Unlocked("tenant") : gotTenant' = [gotTenant EXCEPT ![p] = v]
      BY <2>3 DEF TenantRead
    <3>2. ~exclusive => v = mem["tenant"]
      BY <2>0 DEF Fields
    <3> QED
      BY <2>3, <3>1, <3>2 DEF TenantRead, RUnlock, clientVars
  <2>4. ASSUME NEW p \in Procs, TokenRead(p) \/ TokenLoad(p) PROVE QuietInv'
    <3>1. PICK v \in Unlocked("token") : gotToken' = [gotToken EXCEPT ![p] = v]
      BY <2>4 DEF TokenRead, TokenLoad
    <3>2. ~exclusive => v = mem["token"]
      BY <2>0 DEF Fields
    <3>3. UNCHANGED <<mem, installs, exclusive, call, gotURL, gotTenant, since>>
      BY <2>4 DEF TokenRead, TokenLoad, RUnlock, lockVars, clientVars
    <3> QED
      BY <3>1, <3>2, <3>3
  <2>5. ASSUME NEW p \in Procs, ReturnUnsent(p) \/ Answered(p) \/ UnlockLogin(p)
        PROVE  QuietInv'
    <3>1. /\ Return(p)
          /\ UNCHANGED <<mem, installs>>
          /\ exclusive' => exclusive
      BY <2>5 DEF ReturnUnsent, Answered, UnlockLogin, Unlock, lockVars, clientVars
    <3> QED
      BY <3>1 DEF Return, Disturbed
  <2>6. ASSUME NEW p \in Procs, EnterLogin(p) PROVE QuietInv'
    BY <2>6 DEF EnterLogin, Enter, localVars, Disturbed
  <2>7. ASSUME NEW p \in Procs, WriteEnd(p) PROVE QuietInv'
    <3>1. exclusive /\ UNCHANGED <<installs, since>>
      BY <2>7 DEF WriteEnd, LockInv
    <3> QED
      BY <3>1
  <2>8. CASE UNCHANGED <<mem, installs, exclusive, call, gotURL, gotTenant, gotToken, since>>
    BY <2>8
  <2>9. ASSUME NEW p \in Procs,
               \/ TenantRLock(p) \/ TokenRLock(p) \/ LoginAccepted(p)
               \/ AnnounceLogin(p) \/ WriteBegin(p)
        PROVE  UNCHANGED <<mem, installs, exclusive, call, gotURL, gotTenant, gotToken, since>>
    BY <2>9 DEF TenantRLock, TokenRLock, LoginAccepted, AnnounceLogin, Announce,
         WriteBegin, RLock, lockVars, clientVars, localVars
  <2> QED
    BY <2>1, <2>2, <2>3, <2>4, <2>5, <2>6, <2>7, <2>8, <2>9 DEF Next, Step, vars
<1> QED
  BY <1>1, <1>2, TypeCorrect, LockCorrect, LocalsInOrder, PTL DEF Spec

\* A call that no login overlapped uses the current URL, tenant ID and token.
THEOREM QuietCallsAreCurrent == Spec => []QuietCalls
<1>1. LocalInv /\ QuietInv => QuietCalls
  BY DEF LocalInv, QuietInv, QuietCalls
<1> QED
  BY <1>1, LocalsInOrder, QuietStays, PTL
-----------------------------------------------------------------------------
\* The locked part of the client is one session that a login replaces in one step:
\* ClientSync implements Session, with the session taken from the fields and from
\* what the login inside has still to write.
THEOREM SessionImplemented == Spec => ImplementsSession
<1> DEFINE Token == Installed("token")
           Tenant == Installed("tenant")
           SeenToken == [p \in Procs |-> IF call[p].token = "locked"
                                           THEN gotToken[p] ELSE NotRead]
           Kept == UNCHANGED <<Token, Tenant, installs, SeenToken, gotTenant>>
<1>1. Init => Abstract!Init
  <2> SUFFICES ASSUME Init PROVE Abstract!Init
    OBVIOUS
  <2>1. Token = 0 /\ Tenant = 0
    BY DEF Init, LockInit, Installed, Fields
  <2>2. SeenToken = [p \in Procs |-> NotRead]
    BY DEF Init
  <2> QED
    BY <2>1, <2>2 DEF Init, Abstract!Init
<1>2. TypeOK /\ LockInv /\ LocalInv /\ TokenFirst /\ [Next]_vars
        => [Abstract!Next]_(Abstract!sessionVars)
  <2> SUFFICES ASSUME TypeOK, LockInv, LocalInv, TokenFirst, [Next]_vars
               PROVE  Abstract!Next \/ Kept
    BY DEF Abstract!sessionVars
  <2> USE DEF TypeOK, LockTypeOK
  <2>0. exclusive => writer \in Procs /\ pc[writer] = "install"
    BY DEF LockInv
  <2>1. ASSUME NEW p \in Procs, NEW c \in Calls[p], Start(p, c) PROVE Kept
    <3>1. /\ UNCHANGED <<mem, exclusive, writer, todo, installs, gotTenant, gotToken>>
          /\ gotToken[p] = NotRead
          /\ call' = [call EXCEPT ![p] = c]
      BY <2>1 DEF Start, LocalInv, lockVars, clientVars
    <3>2. SeenToken' = SeenToken
      BY <3>1
    <3> QED
      BY <3>1, <3>2 DEF Installed
  <2>2. ASSUME NEW p \in Procs, LoadURL(p) \/ TenantRLock(p) \/ TokenRLock(p) PROVE Kept
    BY <2>2 DEF LoadURL, TenantRLock, TokenRLock, RLock, Installed, lockVars,
         clientVars, localVars
  <2>3. ASSUME NEW p \in Procs, TenantRead(p) PROVE Abstract!Next
    <3>1. gotTenant[p] = NotRead /\ ~exclusive
      BY <2>3 DEF TenantRead, RUnlock, LocalInv, LockInv
    <3>2. Unlocked("tenant") = {mem["tenant"]}
      BY <2>3, ReaderSeesWhole DEF TenantRead, RUnlock, Fields
    <3>3. gotTenant' = [gotTenant EXCEPT ![p] = Tenant]
      BY <2>3, <3>1, <3>2 DEF TenantRead, Installed
    <3>4. UNCHANGED <<Token, Tenant, installs, SeenToken>>
      BY <2>3 DEF TenantRead, RUnlock, Installed, clientVars
    <3>5. Abstract!ReadTenant(p)
      BY <3>1, <3>3, <3>4 DEF Abstract!ReadTenant
    <3> QED
      BY <3>5 DEF Abstract!Next
  <2>4. ASSUME NEW p \in Procs, TokenRead(p) PROVE Abstract!Next
    <3>1. gotToken[p] = NotRead /\ ~exclusive /\ call[p].token = "locked"
      BY <2>4 DEF TokenRead, RUnlock, LocalInv, LockInv
    <3>2. Unlocked("token") = {mem["token"]}
      BY <2>4, ReaderSeesWhole DEF TokenRead, RUnlock, Fields
    <3>3. SeenToken' = [SeenToken EXCEPT ![p] = Token] /\ SeenToken[p] = NotRead
      BY <2>4, <3>1, <3>2 DEF TokenRead, Installed
    <3>4. UNCHANGED <<Token, Tenant, installs, gotTenant>>
      BY <2>4 DEF TokenRead, RUnlock, Installed, clientVars
    <3>5. Abstract!ReadToken(p)
      BY <3>3, <3>4 DEF Abstract!ReadToken
    <3> QED
      BY <3>5 DEF Abstract!Next
  <2>5. ASSUME NEW p \in Procs, TokenLoad(p) PROVE Kept
    <3>1. /\ UNCHANGED <<mem, exclusive, writer, todo, installs, gotTenant, call>>
          /\ call[p].token = "raw"
          /\ \E v : gotToken' = [gotToken EXCEPT ![p] = v]
      BY <2>5 DEF TokenLoad, lockVars, clientVars
    <3>2. SeenToken' = SeenToken
      BY <3>1
    <3> QED
      BY <3>1, <3>2 DEF Installed
  <2>6. ASSUME NEW p \in Procs, ReturnUnsent(p) \/ Answered(p) \/ UnlockLogin(p)
        PROVE  Abstract!Next
    <3>1. UNCHANGED <<Token, Tenant, installs>>
      <4>1. CASE ReturnUnsent(p) \/ Answered(p)
        BY <4>1 DEF ReturnUnsent, Answered, Return, Installed, lockVars, clientVars
      <4>2. CASE UnlockLogin(p)
        BY <4>2 DEF UnlockLogin, Unlock, Return, Installed, clientVars
      <4> QED
        BY <2>6, <4>1, <4>2
    <3>2. Return(p)
      BY <2>6 DEF ReturnUnsent, Answered, UnlockLogin
    <3>3. /\ SeenToken' = [SeenToken EXCEPT ![p] = NotRead]
          /\ gotTenant' = [gotTenant EXCEPT ![p] = NotRead]
      BY <3>2 DEF Return
    <3>4. Abstract!EndCall(p)
      BY <3>1, <3>3 DEF Abstract!EndCall
    <3> QED
      BY <3>4 DEF Abstract!Next
  <2>7. ASSUME NEW p \in Procs, LoginAccepted(p) PROVE Kept
    <3>1. exclusive => writer # p
      BY <2>7, <2>0 DEF LoginAccepted
    <3>2. /\ UNCHANGED <<mem, exclusive, writer, installs, gotTenant, SeenToken>>
          /\ exclusive => todo'[writer] = todo[writer]
      BY <2>7, <2>0, <3>1 DEF LoginAccepted, lockVars, clientVars
    <3> QED
      BY <3>2 DEF Installed
  <2>8. ASSUME NEW p \in Procs, AnnounceLogin(p) PROVE Kept
    <3>1. /\ UNCHANGED <<mem, exclusive, todo, installs, gotTenant, SeenToken>>
          /\ ~exclusive
      BY <2>8 DEF AnnounceLogin, Announce, LockInv, clientVars, localVars
    <3> QED
      BY <3>1 DEF Installed
  <2>9. ASSUME NEW p \in Procs, EnterLogin(p) PROVE Abstract!Next
    <3>1. /\ pc[p] = "lock" /\ ~exclusive /\ exclusive' /\ writer' = p
          /\ installs' = installs + 1
          /\ UNCHANGED <<mem, todo, gotTenant, gotToken, call>>
      BY <2>9 DEF EnterLogin, Enter, localVars
    <3>2. Token' = installs + 1 /\ Tenant' \in {Tenant, installs + 1}
      BY <3>1 DEF Installed, TokenFirst
    <3>3. UNCHANGED <<SeenToken, gotTenant>>
      BY <3>1
    <3>4. Abstract!Install
      BY <3>1, <3>2, <3>3 DEF Abstract!Install
    <3> QED
      BY <3>4 DEF Abstract!Next
  <2>10. ASSUME NEW p \in Procs, WriteBegin(p) PROVE Kept
    BY <2>10 DEF WriteBegin, Installed, lockVars, localVars
  <2>11. ASSUME NEW p \in Procs, WriteEnd(p) PROVE Kept
    <3>1. /\ exclusive /\ writer = p /\ writing \in todo[p] /\ writing \in Fields
          /\ mem' = [mem EXCEPT ![writing] = installs]
          /\ todo' = [todo EXCEPT ![p] = @ \ {writing}]
          /\ UNCHANGED <<installs, exclusive, writer, gotTenant, gotToken, call>>
      BY <2>11 DEF WriteEnd, LockInv, lockVars
    <3>2. \A f \in Fields : Installed(f)' = Installed(f)
      BY <3>1 DEF Installed
    <3> QED
      BY <3>1, <3>2 DEF Fields
  <2>12. CASE UNCHANGED vars
    BY <2>12 DEF vars, Installed
  <2> QED
    BY <2>1, <2>2, <2>3, <2>4, <2>5, <2>6, <2>7, <2>8, <2>9, <2>10, <2>11, <2>12
    DEF Next, Step
<1> QED
  BY <1>1, <1>2, TypeCorrect, LockCorrect, LocalsInOrder, TokenIsFirst, PTL
  DEF Spec, ImplementsSession, Abstract!Spec
=============================================================================
