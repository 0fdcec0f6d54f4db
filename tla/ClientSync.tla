----------------------------- MODULE ClientSync -----------------------------
(***************************************************************************)
(* One *conoha.Client shared by several goroutines.  The client's fields   *)
(* Token, TenantID and the endpoint URLs are shared memory; Client.mu is   *)
(* an RWMutex that authenticate takes to write them and that tenantID()    *)
(* and newRequest take to read TenantID and Token.  The URL fields are     *)
(* read without the lock by every method, and c.Token by the methods that  *)
(* build their own request.                                                *)
(*                                                                         *)
(* What a field holds is the number of the login that installed it: 0 for  *)
(* what NewClient left there, n for the n-th goroutine that entered the    *)
(* write section.  A Go string is two words, so a write takes two steps,   *)
(* and an unlocked read between them sees the old string, the new one, or  *)
(* the pointer of one with the length of the other: Torn.                  *)
(*                                                                         *)
(* Memory is sequentially consistent apart from that.                      *)
(***************************************************************************)
EXTENDS Integers, FiniteSets, GoRWMutex

CONSTANTS
  Services,     (* the services whose URL fields the model has                *)
  Explicit,     (* those the user set: Client.explicitURLs                    *)
  Calls,        (* the shapes of the calls each goroutine makes, see Handlers *)
  MaxInstalls   (* bound: logins that the server accepts                      *)

ASSUME ServicesAssumption ==
  /\ "identity" \in Services /\ IsFiniteSet(Services)
  /\ Services \cap {"token", "tenant", "none"} = {}
  /\ Explicit \subseteq Services
  /\ MaxInstalls \in Nat

\* A login is a call of its own shape; the other shapes are those of Handlers.
Login == [svc |-> "identity", tenant |-> FALSE, token |-> "locked", login |-> TRUE]

Shapes ==
  {Login} \cup [svc: Services, tenant: BOOLEAN,
               token: {"locked", "raw", "none"}, login: {FALSE}]

ASSUME CallsAssumption == Calls \in [Procs -> SUBSET Shapes]

Fields == {"token", "tenant"} \cup Services
NoField == "none"

\* Values of a local variable that are not the number of a login.
NotRead == -1
Torn    == -2
\* The value of "since" for a call that began while a login was writing.
Disturbed == -1

VARIABLES
  mem,       (* the client's fields, by the login that installed each      *)
  writing,   (* the field between the two steps of a write                 *)
  installs,  (* logins that have entered the write section                 *)
  pc,        (* where each goroutine is                                    *)
  call,      (* the shape of the method it is in                           *)
  gotURL,    (* what it read of the URL field ...                          *)
  gotTenant, (* ... of TenantID ...                                        *)
  gotToken,  (* ... and of Token                                           *)
  todo,      (* the fields its login has still to write                    *)
  since      (* history: installs when the call began, see QuietCalls      *)

clientVars == <<mem, writing, installs>>
localVars == <<call, gotURL, gotTenant, gotToken, todo, since>>
vars == <<writer, exclusive, readers, parked, mem, writing, installs,
          pc, call, gotURL, gotTenant, gotToken, todo, since>>

Places == {"idle", "args", "tenant", "token", "sent", "lock", "install"}

TypeOK ==
  /\ LockTypeOK
  /\ mem \in [Fields -> Nat]
  /\ writing \in Fields \cup {NoField}
  /\ installs \in Nat
  /\ pc \in [Procs -> Places]
  /\ call \in [Procs -> Shapes]
  /\ gotURL \in [Procs -> Nat \cup {NotRead, Torn}]
  /\ gotTenant \in [Procs -> Nat \cup {NotRead, Torn}]
  /\ gotToken \in [Procs -> Nat \cup {NotRead, Torn}]
  /\ todo \in [Procs -> SUBSET Fields]
  /\ since \in [Procs -> Nat \cup {Disturbed}]

\* Mutant: NewClient does not fill the URL fields that no option set.
Bug_UnfilledInit ==
  /\ LockInit
  /\ mem = [f \in Fields |-> IF f \in Services \ Explicit THEN NotRead ELSE 0]
  /\ writing = NoField
  /\ installs = 0
  /\ pc = [p \in Procs |-> "idle"]
  /\ call = [p \in Procs |-> Login]
  /\ gotURL = [p \in Procs |-> NotRead]
  /\ gotTenant = [p \in Procs |-> NotRead]
  /\ gotToken = [p \in Procs |-> NotRead]
  /\ todo = [p \in Procs |-> {}]
  /\ since = [p \in Procs |-> Disturbed]

Init ==
  /\ LockInit
  /\ mem = [f \in Fields |-> 0]
  /\ writing = NoField
  /\ installs = 0
  /\ pc = [p \in Procs |-> "idle"]
  /\ call = [p \in Procs |-> Login]
  /\ gotURL = [p \in Procs |-> NotRead]
  /\ gotTenant = [p \in Procs |-> NotRead]
  /\ gotToken = [p \in Procs |-> NotRead]
  /\ todo = [p \in Procs |-> {}]
  /\ since = [p \in Procs |-> Disturbed]

Goto(p, place) == pc' = [pc EXCEPT ![p] = place]

\* The call returns and its local variables are gone.
Return(p) ==
  /\ Goto(p, "idle")
  /\ call' = [call EXCEPT ![p] = Login]
  /\ gotURL' = [gotURL EXCEPT ![p] = NotRead]
  /\ gotTenant' = [gotTenant EXCEPT ![p] = NotRead]
  /\ gotToken' = [gotToken EXCEPT ![p] = NotRead]
  /\ since' = [since EXCEPT ![p] = Disturbed]
  /\ UNCHANGED todo

\* The values a read of field f without the lock can return.
Unlocked(f) == IF writing = f THEN {mem[f], installs, Torn} ELSE {mem[f]}
-----------------------------------------------------------------------------
(* An API call *)

Start(p, c) ==
  /\ pc[p] = "idle"
  /\ Goto(p, "args")
  /\ call' = [call EXCEPT ![p] = c]
  /\ since' = [since EXCEPT ![p] = IF exclusive THEN Disturbed ELSE installs]
  /\ UNCHANGED <<lockVars, clientVars, gotURL, gotTenant, gotToken, todo>>

\* c.ComputeURL + "/servers", and the first operand of Sprintf("%s/%s/volumes",
\* c.BlockStorageURL, c.tenantID()): Go does not say which operand is read first.
LoadURL(p) ==
  /\ pc[p] = "args"
  /\ gotURL[p] = NotRead
  /\ \E v \in Unlocked(call[p].svc) : gotURL' = [gotURL EXCEPT ![p] = v]
  /\ UNCHANGED <<lockVars, clientVars, pc, call, gotTenant, gotToken, todo, since>>

\* tenantID(), up to the return of RLock
TenantRLock(p) ==
  /\ pc[p] = "args"
  /\ call[p].tenant
  /\ gotTenant[p] = NotRead
  /\ RLock(p)
  /\ Goto(p, "tenant")
  /\ UNCHANGED <<clientVars, localVars>>

\* return c.TenantID, and the deferred RUnlock
TenantRead(p) ==
  /\ pc[p] = "tenant"
  /\ RUnlock(p)
  /\ \E v \in Unlocked("tenant") : gotTenant' = [gotTenant EXCEPT ![p] = v]
  /\ Goto(p, "args")
  /\ UNCHANGED <<clientVars, call, gotURL, gotToken, todo, since>>

\* The request's URL is complete.
ArgsRead(p) ==
  /\ pc[p] = "args"
  /\ gotURL[p] # NotRead
  /\ call[p].tenant => gotTenant[p] # NotRead

\* The URL does not parse, the body does not marshal, or nothing is to be sent.
ReturnUnsent(p) ==
  /\ ArgsRead(p)
  /\ Return(p)
  /\ UNCHANGED <<lockVars, clientVars>>

\* Mutant: newRequest reads c.Token without the lock.
Bug_NewRequestUnlocked(p) ==
  /\ ArgsRead(p)
  /\ call[p].token = "locked"
  /\ \E v \in Unlocked("token") : gotToken' = [gotToken EXCEPT ![p] = v]
  /\ Goto(p, "sent")
  /\ UNCHANGED <<lockVars, clientVars, call, gotURL, gotTenant, todo, since>>

\* newRequest, up to the return of RLock
TokenRLock(p) ==
  /\ ArgsRead(p)
  /\ call[p].token = "locked"
  /\ RLock(p)
  /\ Goto(p, "token")
  /\ UNCHANGED <<clientVars, localVars>>

\* Mutant: newRequest forgets RUnlock.
Bug_TokenKeepsLock(p) ==
  /\ pc[p] = "token"
  /\ p \in readers
  /\ gotToken' = [gotToken EXCEPT ![p] = mem["token"]]
  /\ Goto(p, "sent")
  /\ UNCHANGED <<lockVars, clientVars, call, gotURL, gotTenant, todo, since>>

\* token := c.Token, RUnlock, and the request goes out
TokenRead(p) ==
  /\ pc[p] = "token"
  /\ RUnlock(p)
  /\ \E v \in Unlocked("token") : gotToken' = [gotToken EXCEPT ![p] = v]
  /\ Goto(p, "sent")
  /\ UNCHANGED <<clientVars, call, gotURL, gotTenant, todo, since>>

\* req.Header.Set("X-Auth-Token", c.Token), and the request goes out
TokenLoad(p) ==
  /\ ArgsRead(p)
  /\ call[p].token = "raw"
  /\ \E v \in Unlocked("token") : gotToken' = [gotToken EXCEPT ![p] = v]
  /\ Goto(p, "sent")
  /\ UNCHANGED <<lockVars, clientVars, call, gotURL, gotTenant, todo, since>>

\* Mutant: a request that fails is built and sent again.
Bug_SendsAgain(p) ==
  /\ pc[p] = "sent"
  /\ \/ Return(p)
     \/ /\ Goto(p, "args")
        /\ gotToken' = [gotToken EXCEPT ![p] = NotRead]
        /\ UNCHANGED <<call, gotURL, gotTenant, todo, since>>
  /\ UNCHANGED <<lockVars, clientVars>>

\* The answer of a call, or the failure of a call or of a login: the transport's
\* error, an unreadable body, a status of 400 or more, or a body that is not JSON.
Answered(p) ==
  /\ pc[p] = "sent"
  /\ Return(p)
  /\ UNCHANGED <<lockVars, clientVars>>
-----------------------------------------------------------------------------
(* A login *)

\* The services of the answer's catalog whose URL fields are overwritten.
Discovered(catalog) == catalog \ Explicit

\* A good answer: it names a token, perhaps a project, and some services.
LoginAccepted(p) ==
  /\ pc[p] = "sent"
  /\ call[p].login
  /\ installs + Cardinality({q \in Procs : pc[q] = "lock"}) < MaxInstalls
  /\ \E tenant \in {{}, {"tenant"}}, catalog \in SUBSET Services :
       todo' = [todo EXCEPT ![p] = {"token"} \cup tenant \cup Discovered(catalog)]
  /\ Goto(p, "lock")
  /\ UNCHANGED <<lockVars, clientVars, call, gotURL, gotTenant, gotToken, since>>

\* c.mu.Lock(), first half
AnnounceLogin(p) ==
  /\ pc[p] = "lock"
  /\ Announce(p)
  /\ UNCHANGED <<clientVars, pc, localVars>>

\* c.mu.Lock() returns
EnterLogin(p) ==
  /\ pc[p] = "lock"
  /\ Enter(p)
  /\ installs' = installs + 1
  /\ Goto(p, "install")
  /\ UNCHANGED <<mem, writing, localVars>>

\* Mutant: the token is written after the tenant ID and the catalog.
Bug_TokenLast(p, f) ==
  /\ f \in todo[p]
  /\ f = "token" => todo[p] = {"token"}

\* c.Token, then c.TenantID, then the URLs in the order of the catalog
NextField(p, f) ==
  /\ f \in todo[p]
  /\ f # "token" => "token" \notin todo[p]
  /\ f \in Services => "tenant" \notin todo[p]

WriteBegin(p) ==
  /\ pc[p] = "install"
  /\ writing = NoField
  /\ \E f \in Fields : NextField(p, f) /\ writing' = f
  /\ UNCHANGED <<lockVars, mem, installs, pc, localVars>>

WriteEnd(p) ==
  /\ pc[p] = "install"
  /\ writing # NoField
  /\ mem' = [mem EXCEPT ![writing] = installs]
  /\ todo' = [todo EXCEPT ![p] = @ \ {writing}]
  /\ writing' = NoField
  /\ UNCHANGED <<lockVars, installs, pc, call, gotURL, gotTenant, gotToken, since>>

\* Mutant: the lock is released after the token is written, the rest follows.
Bug_UnlockAfterToken(p) ==
  /\ pc[p] = "install"
  /\ writing = NoField
  /\ "token" \notin todo[p]
  /\ \/ /\ Unlock(p)
        /\ UNCHANGED <<pc, localVars>>
     \/ /\ writer # p
        /\ todo[p] = {}
        /\ Return(p)
        /\ UNCHANGED lockVars
  /\ UNCHANGED clientVars

\* c.mu.Unlock(), and authenticate returns
UnlockLogin(p) ==
  /\ pc[p] = "install"
  /\ writing = NoField
  /\ todo[p] = {}
  /\ Unlock(p)
  /\ Return(p)
  /\ UNCHANGED clientVars
-----------------------------------------------------------------------------
Step(p) ==
  \/ LoadURL(p) \/ TenantRLock(p) \/ TenantRead(p) \/ ReturnUnsent(p)
  \/ TokenRLock(p) \/ TokenRead(p) \/ TokenLoad(p) \/ Answered(p)
  \/ LoginAccepted(p) \/ AnnounceLogin(p) \/ EnterLogin(p)
  \/ WriteBegin(p) \/ WriteEnd(p) \/ UnlockLogin(p)

Next ==
  \E p \in Procs :
    \/ \E c \in Calls[p] : Start(p, c)
    \/ Step(p)

Spec == Init /\ [][Next]_vars

\* The scheduler runs every goroutine that can run, and every request ends.
FairSpec == Spec /\ \A p \in Procs : WF_vars(Step(p))
-----------------------------------------------------------------------------
(* Safety *)

\* What a goroutine reads under the read lock is never half of an old and half of
\* a new string: tenantID() and newRequest hold mu while they read, authenticate
\* holds it exclusively while it writes.
LockedReadsIntact ==
  \A p \in Procs :
    /\ gotTenant[p] # Torn
    /\ call[p].token = "locked" => gotToken[p] # Torn

\* A request never carries a token older than the login that its tenant ID or its
\* endpoint URL comes from: every method reads the token last and authenticate
\* writes it first.
NoStaleToken ==
  \A p \in Procs :
    pc[p] = "sent" /\ gotToken[p] # Torn =>
      /\ gotTenant[p] <= gotToken[p]
      /\ gotURL[p] <= gotToken[p]

\* A call that no login overlapped is made of the client's current session and
\* nothing else: its URL, its tenant ID and its token are those the fields hold.
QuietCalls ==
  \A p \in Procs :
    pc[p] = "sent" /\ since[p] = installs =>
      /\ gotURL[p] = mem[call[p].svc]
      /\ call[p].tenant => gotTenant[p] = mem["tenant"]
      /\ gotToken[p] = mem["token"]

\* Goroutine p can take its next step: between calls to the lock always, inside it
\* once RLock or Lock has returned, and before it if Lock can go on.
CanGo(p) ==
  \/ pc[p] \in {"args", "sent"}
  \/ pc[p] \in {"tenant", "token"} /\ p \in readers
  \/ pc[p] = "lock" /\ (writer = NoProc \/ (writer = p /\ ~exclusive /\ readers = {}))
  \/ /\ pc[p] = "install"
     /\ \/ writing # NoField
        \/ \E f \in Fields : NextField(p, f)
        \/ todo[p] = {} /\ writer = p /\ exclusive

\* Nobody waits for a goroutine that itself waits: when a call cannot go on, one that
\* has the lock, or that the lock lets in next, can.  No method takes mu twice, keeps
\* it when it returns, or sends a request under it.
NobodyStuck ==
  \A p \in Procs : pc[p] # "idle" /\ ~CanGo(p) =>
    \E q \in readers \cup {writer} : pc[q] \in {"tenant", "token", "lock", "install"} /\ CanGo(q)

\* How many steps the call of goroutine p can still take.
Left(p) ==
  LET sent == 2 * Cardinality(Fields) + 4
      url  == IF gotURL[p] = NotRead THEN 1 ELSE 0
  IN CASE pc[p] = "idle" -> 0
       [] pc[p] = "args" ->
            sent + 2 + url + (IF call[p].tenant /\ gotTenant[p] = NotRead THEN 2 ELSE 0)
       [] pc[p] = "tenant" -> sent + 2 + url + 1
       [] pc[p] = "token" -> sent + 1
       [] pc[p] = "sent" -> sent
       [] pc[p] = "lock" -> 2 * Cardinality(todo[p]) + (IF writer = p THEN 2 ELSE 3)
       [] pc[p] = "install" -> 2 * Cardinality(todo[p]) + (IF writing = NoField THEN 1 ELSE 0)

\* Every step begins a call or brings one nearer to its return, and sets none back:
\* nothing is retried, no goroutine spins on the lock, and a login does not make the
\* calls beside it start over.  With NobodyStuck, every call that has begun ends once
\* no others begin.
CallsAdvance ==
  [][\E p \in Procs :
       /\ IF pc[p] = "idle" THEN pc'[p] # "idle" ELSE Left(p)' < Left(p)
       /\ \A q \in Procs \ {p} : Left(q)' = Left(q)]_vars

\* What field f holds once the login that is inside the write section, if there
\* is one, has finished with it.
Installed(f) ==
  IF exclusive /\ f \in todo[writer] THEN installs ELSE mem[f]

\* The token and the tenant ID change together, when Lock returns to authenticate.
Abstract == INSTANCE Session WITH
  session <- [token  |-> Installed("token"), tenant |-> Installed("tenant")],
  logins <- installs,
  seenTenant <- gotTenant,
  seenToken <- [p \in Procs |-> IF call[p].token = "locked" THEN gotToken[p] ELSE NotRead]

\* Session's steps are those of this module on the locked fields.
ImplementsSession == Abstract!Spec

(* Liveness *)

\* Every call returns: no goroutine is left waiting for the lock, whatever the
\* others do, as long as every request that was sent ends.
EveryCallReturns ==
  \A p \in Procs : pc[p] # "idle" ~> pc[p] = "idle"

(* What the comment on mu says of Token and the endpoint URL fields *)

\* "mu protects Token, TenantID, and endpoint URL fields from concurrent read/write
\* access": no method reads half a URL or half a token.
NoTornRead == \A p \in Procs : Torn \notin {gotURL[p], gotToken[p]}
=============================================================================
