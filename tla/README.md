# Verification of the ConoHa VPS v3 Go SDK

The repository is a Go client library. A `*conoha.Client` (`src/client.go`) holds a token, a
tenant ID and eight endpoint URLs; about 180 hand-written methods in eight files build one HTTP
request each from them, send it and decode the answer. `Authenticate` and `AuthenticateByName`
(`src/identity.go`) obtain a token and overwrite the token, the tenant ID and the URLs while
other goroutines may be using them. The library keeps no queue, retries nothing, starts no
goroutine and persists nothing, so what is hard in it is the shared state of the client, the
order in which its endpoints are resolved, the error paths of a request, and what its requests do to
a resource that others change too. One of the two example programs is a long protocol of its own.

## Inventory

| Component | State | Operations | What makes it correct |
|---|---|---|---|
| Client state and its lock (`client.go` 38-63, 474-506, `identity.go` 149-180) | `Token`, `TenantID`, eight URL fields, `mu` | `tenantID`, `newRequest`, `authenticate`, the methods' own reads | no half-read strings, a request is never older than where it goes, a quiet client is consistent, nobody waits for ever |
| API methods (all other files) | locals of one call | about 180 methods | each follows the skeleton: URL field, perhaps tenant ID, request, token last, answer |
| Endpoint resolution (`client.go` 65-413) | URL fields, `Region`, `explicitURLs`, `explicitRegion` | the options, `NewClient`, `updateEndpointsFromCatalog` | the documented priority, one region, URLs that methods can append to |
| Responses and errors (`client.go` 415-548, the inline copies in `objectstorage.go` and `image.go`) | the body of one answer | `do`, the inline variants, `newAPIError`, `DownloadObject` | the body is closed or handed over once, no failure is reported as success, an error says what the server said |
| Server lifecycle example (`examples/e2e/main.go`) | the server and volume made so far, deadlines | create, wait, stop, start, back up, clean up | nothing deleted unless the user let the chance to keep it pass, cleanup in order, nothing left behind unannounced, waits that end |
| Integration tests (`integration_test.go`) | the resources of a scenario | polling, scenarios with cleanup | as above |
| Temporary URLs (`objectstorage.go` 598-634) | none | `GenerateTempURL` | the signature covers method, expiry and path |
| Requests of the update methods (all service files) | the resource, in the service | 21 methods that change a resource in place | no change undoes another, a change that is asked for arrives |
| Other request and response types, query strings, header parsing | none | | data only |

How they interact. A method reads its URL field and, in block and object storage, calls
`tenantID()`, which takes and releases the read lock; then it calls `newRequest`, which takes it
again for the token, or reads `c.Token` by itself; then `http.Client.Do` runs, and `do` or the
method's own copy of it reads the answer. `authenticate` does all of that as an ordinary call
and then takes the write lock to install what it got, running `updateEndpointsFromCatalog` inside.
There are no callbacks; the only shared state is the client, the only blocking operations are the
lock and the transport.

What is hard: reads of the client in the middle of a login (with and without the lock), a request
put together across several critical sections, the order of reads and writes, several logins at
once, options that undo each other, a region inferred from a URL that later filters catalogs, and
the error paths after the headers of an answer have arrived, a resource that two callers get and write
back, and a program that makes, polls and deletes things while the cloud does as it likes and its
input may end. `PROJECT.json` lists each of these
at its line, with the properties that would catch it going wrong.

## Modules

| Module | Models |
|---|---|
| `GoRWMutex` | Go's `sync.RWMutex`, external: writer announcement, parked readers, admission of the parked readers at `Unlock` |
| `Handlers` | the API methods by their *shape* (URL field, tenant ID, how the token is read, how the answer is), one definition per stretch of a file |
| `Session` | abstract specification: token and tenant ID are one atomic object |
| `ClientSync` | the client shared by goroutines |
| `ClientSyncProofs` | the theorems about `ClientSync` |
| `MCClientSync` | its constants for TLC, taken from `Handlers` |
| `Endpoints` | options, `NewClient`, service catalogs |
| `MCEndpoints` | the options and catalogs TLC tries |
| `Resolution` | abstract specification: the hosts are decided by `NewClient` in one step and moved by a login in one, to hosts that its catalog names for the client's region |
| `EndpointsProofs` | the theorems about `Endpoints` |
| `Response` | one call from the sent request to its result: status, body, decoding, closing |
| `ResponseProofs` | the theorems about `Response` |
| `MCResponse` | the ways of treating answers, taken from `Handlers` |
| `Lifecycle` | the end-to-end example and the cloud it works against |
| `Rental` | abstract specification: what the example promises to the user who pays for a volume and a server |
| `LifecycleProofs` | the theorems about `Lifecycle` |
| `UpdateMethods` | the update methods by the encoding of each of their arguments |
| `Updates` | callers that change one resource through an update method |
| `MCUpdates` | its constants for TLC, taken from `UpdateMethods` |
| `UpdatesProofs` | the theorems about `Updates` |

### ClientSync

`mem` maps each field to the number of the login that wrote it last (0 is what `NewClient` or the
options left). That is all the properties tell apart: whether two things a request carries come
from the same login, and which is older. A Go string is a pointer and a length, so a write is two
steps, `WriteBegin` and `WriteEnd`, with `writing` naming the field in between; a read without the
lock then (`Unlocked`) yields the old string, the new one, or `Torn`.

| Action | Code |
|---|---|
| `Start` | a method is called; `Calls` gives the shapes |
| `LoadURL` | the method evaluates `c.ComputeURL + ...` or its like, without the lock |
| `TenantRLock`, `TenantRead` | `tenantID()` (`client.go` 474-478) |
| `ReturnUnsent` | the errors of `newRequest` and `NewRequestWithContext`; `GenerateTempURL` |
| `TokenRLock`, `TokenRead` | `newRequest` (499-501) |
| `TokenLoad` | `req.Header.Set("X-Auth-Token", c.Token)` |
| `Answered` | the end of a call, and of a login that fails |
| `LoginAccepted` | `authenticate` after `do` succeeded; `todo` is what it will write |
| `AnnounceLogin`, `EnterLogin` | `c.mu.Lock()` |
| `WriteBegin`, `WriteEnd` | the assignments, in the order of `NextField` |
| `UnlockLogin` | `c.mu.Unlock()` and the return |

Go leaves it open whether `c.BlockStorageURL` or `c.tenantID()` is evaluated first in one
expression, so `LoadURL` and the two tenant steps come in either order. A login that names no
project leaves the tenant ID; its catalog may name any set of services. Assumptions: memory is
sequentially consistent apart from torn strings (Go gives no meaning to a program with a race;
this is the mildest one); `HTTPClient` is not reassigned; tokens of different logins differ.

`Abstract` maps the client to `Session`: `Installed(f)` is what a field holds once the login that is
inside the write section is done with it, so the session changes when `Lock` returns. `CanGo(p)` says
which goroutines a lock call would let go on; `Left(p)` counts the steps that a call can still take.

### Endpoints

A URL is its host's labels, its path's segments, and whether slashes follow.

| Action | Code |
|---|---|
| `ApplyOption` | one turn of the option loop of `NewClient` (`client.go` 232-234), one disjunct per kind of option |
| `Build` | the rest of `NewClient`: `InferredRegion`, `Normalized`, `Filled` |
| `Login` | an answer with a catalog reaches `authenticate` (`identity.go` 172-176); `pending` is what is left of it |
| `Discover` | one turn of the loop of `updateEndpointsFromCatalog`: `PublicURL`, then `CatalogURL` |
| `Installed` | the loop's end |

Nobody sees the client between `Login` and `Installed` under the lock; the properties therefore speak
of `phase = "ready"`. (Reads without the lock are the subject of `ClientSync`.) `given`, `found`
and `heard` are history variables: which host an option last set; which host the catalogs last gave,
computed from the whole catalog by a definition (`Offers`, `Offered`) that does not use the loop; and the
entries of all catalogs so far. `Strings` is what
labels, segments and regions are taken from; it is a constant because the provers do not take a literal
for a member of `STRING`. One
assumption is a promise of the service, not of the code: `PathsAssumption` (a catalog path is the
service's version or nothing, then whatever is a tenant's, and no host is named for a version). Otherwise the
hosts of a catalog are free; which region an endpoint is for is what its `region` and `region_id` say.
The inputs are the URL and catalog forms of the unit tests, the README and the comments, among them the
catalogs of `client_test.go` and `identity_test.go` whose hosts name no region, and a few at the edges of
the parsing code (an empty URL, a fifth host label, a host named after a version).
`HasVersion` knows the segments that occur in them; other prefixes of a segment, such as `v30`, do not.

`Decided` maps the client to `Resolution`. A host is its `Outcome`: what its field will hold when the
login under way has gone through its catalog, which `Offered` says without the loop. Until `Build`
returns nothing is decided, whatever the options have set so far.

### Response

A body is the number of its chunks; `got` is how many were read, `broken` that reading failed.
`Send` starts a call whose method is one of `Methods`, the pairs of `exec` and `decode` that occur in
`Handlers`. `StartReading`, `ReadChunk`, `BodyBreaks` and `ReadAllReturned` are `io.ReadAll`;
`DoReturns` is the rest of `do` (`client.go` 515-530), `InlineReturns` the two lines that the methods
of `objectstorage.go` and `UploadISOImage` repeat, `ReturnUnread` their success, `HandOver` and
`CallerCloses` the life of the body that `DownloadObject` returns. A deferred `Close` happens with the
return (`CloseAndReturn`). Calls share nothing here, so one call after another is the whole system.
`doRaw`, which only tests call, and the choice of a message in `newAPIError` are left out. The
errors before a request is sent are in `ClientSync` (`ReturnUnsent`).

### Lifecycle

`pc` is the step of `main` in `examples/e2e/main.go`; `seen` is the status that a poll returned and that
has not been judged; `late` says that the deadline of the present wait is past. `volume`, `server`,
`task` and `backup` are the cloud's. `warned` is which steps of the cleanup printed a warning, `reply`
what `main` read at its prompt.

| Action | Code |
|---|---|
| `Prepare` | up to the first request that makes something (62-115), all of which only reads |
| `CreateVolume` ... `EnableAutoBackup` | the request of that name; any error is `log.Fatal` |
| `Poll`, `Judge` | one turn of `waitForServerStatus` or `waitForVolumeStatus`: the request, then the tests in their order |
| `DeadlinePasses` | time; it can pass while a poll is under way |
| `Prompt` | 196-211; an input that has ended or fails (`"eof"`) deletes like Enter, because `Scan`'s result is ignored |
| `DisableAutoBackup`, `DeleteServer`, `DeleteVolume` | 213-245, where an error is printed and `main` goes on |
| `PollGone`, `SleepGone` | one turn of the wait for the server's end (223-237), whose deadline is looked at first |

A request is refused or lost without an effect, or done and its answer lost, or done, or it never ends:
the context has no deadline and the client no timeout. What the cloud does is external: `TaskDone`,
`VolumeMade`, `ServerBreaks` and the rest of `Cloud` may happen at any time or never. Deletions are
accepted first and carried out later: a server's can fail until it has detached the volume (assumed not to
after that), a volume's can fail to the end (`VolumeRemoved`), and `main` does not wait to see. It is
assumed that a volume that is in use is not deleted (`main` passes `force = false`) and that nobody else
works on this server and volume.

`Contract` maps the example to `Rental`: the server is given up at the moment its deletion cannot fail
any more, which is when the volume is detached (`ServerHeld`), the volume when it is gone. `waived` is not
the user's consent, which the code does not establish: it says that the user could have answered
"keep" and that `main` has read something else, or nothing. That the prompt asks for more is a finding.

### Updates

`UpdateMethods` gives, per update method, the encoding of each argument: `"always"` sent, sent unless
it is Go's zero value (`"nonzero"`: `omitempty`, or a test in the method), or sent when the caller
passes it, zero or not (`"asked"`: a pointer with `omitempty`, a key of a map, a header with a method of
its own). A caller in `Updates` begins with the fields it wants to change (`Begin`), gets the resource
if the method cannot be called without a value for another field (`Get`, else `NoGet`), and calls the
method (`Update`): the service replaces the fields that the request has (`Sent`) and keeps the others.
A call that fails without an effect is `Fail`; one whose answer is lost is an `Update`. `asked` and
`overlapped` are history. The callers are careful ones: with a caller that does not get first, a field
that is always sent would be lost without any overlap.

## Runs

| Run | Checks | Bounds |
|---|---|---|
| `client_sync` | `TypeOK`, `LockedReadsIntact`, `NoStaleToken`, `QuietCalls`, `NobodyStuck`, `CallsAdvance`, `ImplementsSession` | 3 goroutines, 2 services of which 1 is explicit, 2 accepted logins |
| `client_live` | `EveryCallReturns` | the same with both services explicit |
| `torn_read` | violation, see Findings | as `client_sync` |
| `endpoints` | `TypeOK`, `PriorityOrder`, `RegionAgreement`, `RootedURLs`, `ImplementsResolution` | 8 services, sequences of up to 4 of 13 options, 3 logins of 6 catalogs |
| `region_pattern` | violation, see Findings | 2 options, 2 logins |
| `response` | `TypeOK`, `BodiesSettled`, `SuccessIsWhole`, `IntactErrorsAreRaw` | bodies of up to 4 chunks |
| `bad_status`, `raw_body` | violations, see Findings | as `response` |
| `lifecycle` | `TypeOK`, `RequestsFitStatus`, `NothingDeletedEarly`, `CleanUnlessWarned`, `OverrunBounded`, `ImplementsRental`, `EndsOrBlocks` | none: the whole state space |
| `deleted_on_enter`, `cleanup_complete` | violations, see Findings | as `lifecycle` |
| `updates` | `TypeOK`, `LastUpdateHolds` | 2 callers, 3 values, every method of `UpdateMethods` |

* `LockedReadsIntact`: what is read under the read lock is never half written.
* `NoStaleToken`: a request never carries a token older than the login its tenant ID or its URL
  comes from. It rests on every method reading the token last and `authenticate` writing it first;
  the lock alone does not give it, since the URL is read without it.
* `QuietCalls`: a call that no login overlapped is made of the current session. It says that no
  login, finished or cancelled, leaves anything half installed.
* `ImplementsSession`: for everything read under the lock, a login is one atomic step, at the
  moment `Lock` returns, and each locked read returns the state of one moment. Two locked reads of
  one call may still belong to different sessions: `Session` allows that, and so does the code.
* `NobodyStuck`: when a call cannot go on, a goroutine that has the lock, or that the lock lets in next,
  can. It rests on every method releasing the lock before it takes it again or sends anything.
* `CallsAdvance`: every step begins a call or brings the one that takes it nearer to its return, by
  `Left`, and sets no other back; nothing is retried and no login makes the calls beside it start over.
* `EveryCallReturns`: no goroutine is stuck on the lock.
* `PriorityOrder`: every URL's host is what an option set last, else what the catalogs gave last
  for the client's region, else generated; for all orders of options and logins.
* `RegionAgreement`: the client is in one region: every URL that the user did not set was generated for it
  or comes from an endpoint that a catalog labels with it, and an identity URL that the user did set is in
  it, unless the user chose the region as well. The labels are those of the catalogs, through
  `NamedHosts`, which knows nothing of the loop or its filter.
* `RootedURLs`: no URL ends in a slash, and one the user did not set is a host and a version only,
  so that what the methods append comes out right, whatever path the catalog gave.
* `ImplementsResolution`: for who waits until a login is installed, a login moves all hosts at once, and
  never one that the user chose, and only to hosts that its catalog names for the region; which entries its catalog repeats, and in which
  order they and the unusable ones come, makes no difference to that.
* `BodiesSettled`: a body that the transport opened is closed once, by the method or by the caller
  that got it from `DownloadObject`, and not before it was read.
* `SuccessIsWhole`: success means a good status, and a decoded value comes from the whole body.
* `IntactErrorsAreRaw`: a bad status whose body arrived is an `APIError` with all of that body, through
  every method, and nothing else is one. It is what remains true of the two statements that `bad_status`
  and `raw_body` refute: both need a body that breaks off.
* `RequestsFitStatus`: when `main` makes a request, the server still has the status that its wait saw
  and the cloud is done with it, or it broke down since. It rests on a wait that times out being an error.
* `NothingDeletedEarly`: until the prompt's reply was read, and after "keep", no path deletes anything; at
  the prompt the server and volume it speaks of are there, with the backup, though the server may have
  broken down since it was last seen `ACTIVE` ("still running" is not checked again by the code).
* `CleanUnlessWarned`: if the cleanup printed no warning, the backup is off, the volume's deletion was
  accepted, and the server is gone or its deletion is past where it can fail. A volume's deletion that
  fails after it was accepted is what no warning speaks of.
* `OverrunBounded`: a wait makes at most one poll after its deadline.
* `ImplementsRental`: the prompt comes with the server and the volume both there; then the server goes
  before the volume and each of them once, whatever is refused, lost or comes too late.
* `EndsOrBlocks`: `main` ends, or waits for ever for one answer, of the cloud or at the prompt. No loop of
  its own keeps it going, whatever the cloud does and whichever requests it answers.
* `LastUpdateHolds`: every field is what the last update that was to change it made it. Only two kinds of
  change are lost: of a field that is always sent, if another update came between the caller's get and its
  own, and to the zero value, of a field that is then not sent (a port cannot lose its last security group
  through `UpdatePort`, nor a security group its description).

Why the bounds are enough. Two goroutines can be in the write path (one inside, one waiting)
while a third reads with or without the lock; a fourth repeats a role. Two accepted logins give
three values per field: initial, overwritten, overwritten again, and let one login wait while the
other writes. `MaxInstalls` counts accepted logins; failed ones are unlimited. One explicit and
one discovered service tell the two cases of the catalog apart. The third goroutine makes the
calls that read the token without the lock, the second those that take the lock twice; a login's own
request is the call that takes it once, and `GenerateTempURL` does what a call does that returns
unsent.
In `endpoints`, an option's effect on one service depends on at most the last option for it, the
last region option and the last identity URL; four options hold all of these and one more. In
`response`, a body can break before its first chunk, between chunks and after the last. In `endpoints`,
three logins let a catalog that names a service follow one that does and one that does not.
In `updates`, a lost update takes two callers, and a third value tells what both wrote from what was
there; the callers are interchangeable (symmetry), and the two methods with many fields keep one field
per encoding, since fields of one encoding are treated alike. The system of `endpoints` stops when its
login bound is reached and `main` of `lifecycle` ends, so those runs do not check for deadlock; the
others do.

Fairness. `FairSpec` gives each goroutine weak fairness of its steps, not of starting calls. Go's
scheduler runs every runnable goroutine, and Go's `RWMutex` parks new readers behind an announced
writer and lets them in when it unlocks, so weak fairness is all the lock needs as long as the
number of accepted logins is bounded. That a request ends is an assumption: the default
`http.Client` has no timeout, so it holds only if the caller's context or transport has one.
`Lifecycle` assumes less: weak fairness of what `main` does between two requests (`Judge`, `SleepGone`) and
of `DeadlinePasses` (time passes), none of the cloud, of the user or of any request, since the example uses
`context.Background()` and a client without timeout. That is why `EndsOrBlocks` does not say that `main`
ends: a poll that is never answered hangs it past every deadline.

## Findings

* `torn_read`: the comment on `Client` (`client.go` 35-37, 53-54) says the mutex
  protects Token, TenantID and the endpoint URL fields when `Authenticate` runs concurrently with
  other methods. Every method reads its URL field without the mutex, and the object storage
  methods that build their own request, and `UploadISOImage`, read `c.Token` without it.
* `region_pattern`: `extractRegionFromConoHaURL` takes the second label of any `conoha.io` host
  with at least four labels; its comments say it returns "" for anything but
  `{service}.{region}.conoha.io`.
* `bad_status`: `do` reads the body before it looks at the status, so when a refused call's body
  cannot be read the error is a plain one; the README says API errors are `*conoha.APIError`.
* `raw_body`: the methods that read an error's body themselves ignore that reading failed, so
  `APIError.Body` can be a prefix; its comment says it always is the raw body.
* `deleted_on_enter`: the example's prompt says "Press Enter to delete them", but `main` ignores what
  `scanner.Scan()` returns: with its input closed or at its end it deletes the server and the volume though
  nobody pressed anything.
* `cleanup_complete`: the example prints "Cleanup complete." on every path through its cleanup, after a
  prompt that promised to delete the server and the volume; either can still be there, because the wait
  for the server's end gives up at its deadline or at any error, a refused deletion is only printed, and the
  volume's is not waited for.

## Proofs

Five modules hold theorems, and between them they state every invariant, action property and
refinement that a passing run checks.

`ClientSyncProofs` proves every property of `client_sync`, for all sets of goroutines, all finite sets of
services, all assignments of calls and any bound on logins, from the three assumptions
`NoProcAssumption`, `ServicesAssumption` and `CallsAssumption` (that the services are finitely many is
needed only by `CallsOnlyAdvance`, which counts the fields a login still has to write):

| Theorem | Property | Argument |
|---|---|---|
| `TypeCorrect` | `TypeOK` | inductive as it stands |
| `LockCorrect` | | `LockInv`: the program counters say exactly who holds, waits for and announced the lock; a writer inside has no readers; `writing` and `todo` are used only inside |
| `LockedReads` | `LockedReadsIntact` | `ReaderSeesWhole`: by `LockInv` nothing is being written while a reader is inside; `LocalsInOrder` gives which locals are set where |
| `FreshTokens` | `NoStaleToken` | `TokenIsFirst`: inside the write section nothing is written while the token is still to do; `TokenIsLatest`: no field, and nothing read from one, is newer than the token |
| `QuietCallsAreCurrent` | `QuietCalls` | `QuietStays`: as long as `installs` is what it was at the start and no writer is inside, what was read is what the fields hold |
| `NoDeadlock` | `NobodyStuck` | `LockInv` names the goroutine that can go on: a reader inside, else the writer; a parked goroutine is there only because of a writer (`ParkedHaveWriter`), and a writer inside has a field to begin, to end, or is done (`InstallGoesOn`) |
| `CallsOnlyAdvance` | `CallsAdvance` | one step per action: `LeftKept` for the goroutines that do not move, and for the one that does what its measure was and is; an idle goroutine's is 0, so only `Start` can leave `idle` |
| `SessionImplemented` | `ImplementsSession` | `Init` maps to `Init`; `EnterLogin` maps to `Install`, `TenantRead` and `TokenRead` to the reads, `Return` to `EndCall`, every other step to a stutter, because `Installed` already shows what the writer inside will have written |

`NoDeadlock` and `CallsOnlyAdvance` are the part of `EveryCallReturns` that needs no fairness: while a
call is under way some goroutine can take a step, and no step is taken twice for the same progress.

`TypeOK` and the property of a theorem are not inductive by themselves: `NoStaleToken` says
nothing of a call that has not sent its request, and a step from such a state could break it;
hence the invariants above, each about the moments between. Each of them was an invariant of the
`client_sync` instance before it was proved.

`ResponseProofs` proves the four invariants of `response` for any subset of the methods' ways and
bodies of any length, from `MethodsAssumption`:

| Theorem | Property | Argument |
|---|---|---|
| `TypeCorrect` | `TypeOK` | by `IInv` below, which it needs for `closes` to stay in `0..1` |
| `EveryBodySettled` | `BodiesSettled` | `ProgressInv`: at every place of a call, whether there is a status, a result, an open body |
| `NoFalseSuccess` | `SuccessIsWhole` | inductive together with `ProgressInv`; `ReturnKeeps` does all the returns at once |
| `ErrorsAreRaw` | `IntactErrorsAreRaw` | `ErrorInv`: also, a body that no method reads is that of a `HEAD` request and empty, and a body handed over has a good status |

`IInv` is the conjunction of `TypeOK`, `ProgressInv` and `SuccessIsWhole`; `ErrorInv` is inductive relative to it. `BodiesSettled` is not inductive alone: `Answer` opens a body
in a state where it says nothing, and `CallerCloses` relies on nothing having been closed before.

`EndpointsProofs` proves every property of `endpoints`, for any sets of options and catalogs, from the
assumptions of `Endpoints`: typing, and `PathsAssumption`, which only the part `PathInv` of the invariant needs.

| Theorem | Property | Argument |
|---|---|---|
| `TypeCorrect` | `TypeOK` | `IInv`; every field has a URL after `Build` because each is explicit or generated |
| `OrderKept` | `PriorityOrder` | `GivenInv` (what the options' history says is what the explicit fields hold) and `CatalogInv` |
| `OneRegion` | `RegionAgreement` | `RegionInv`; `HeardInv` (what is left of a catalog has been heard) and `EligibleNamed` for a discovered URL; `Build` infers the region before it generates the URLs and changes no host that an option set |
| `PathsAreVersions` | `RootedURLs` | `PathInv`, with `CatalogPath` for each service's way of cutting |
| `ResolutionImplemented` | `ImplementsResolution` | `Build` maps to `Create` and `Login` to `LogIn`, whose hosts are named by the catalog (`OfferedHost`); a turn of the loop maps to a stutter, because `CatalogInv` makes the `Outcome` of each service what `found` says before and after it |

`CatalogInv` is the invariant of the loop in `updateEndpointsFromCatalog`: if the rest of the catalog
offers a service nothing, its field is as it will be; if it does, the last such offer is what `found`
says. `PriorityOrder` says nothing while a login is installing and is not inductive without it.
`UnsetInv` says what `NewClient` relies on: nothing but an option sets a field before `Build`.

`UpdatesProofs` proves every property of `updates`, for any callers, values and encodings, from
`UpdatesAssumption`:

| Theorem | Property | Argument |
|---|---|---|
| `TypeCorrect` | `TypeOK` | with `CopiesAreGood`: a caller about to send has a copy of every field it must send |
| `UpdatesHold` | `LastUpdateHolds` | `CopiesAreGood`: without an overlap, the copies are what the resource still holds; a field that is to be changed is sent, unless it is to a zero that its encoding omits |

`LifecycleProofs` proves every property of `lifecycle` but `EndsOrBlocks`. The model has no constants and
TLC sees all of its states; the proof adds the reason, in the parts of `IInv`:

| Part | Says |
|---|---|
| `CloudInv` | how a server, its task and its volume fit together: the volume is in use from the server's creation until a deletion detaches it |
| `ReplyInv` | there is a reply exactly from the prompt on, and before it nothing is being deleted |
| `StageInv` | what `main` has made at each step, and what became of the server once the status of a wait was seen |
| `CleanupInv` | after its step of the cleanup, the backup is off or was warned of, and the volume's deletion accepted or warned of |
| `DeadlineInv` | a poll after the deadline has an answer that is not judged yet |

| Theorem | Property | Needs |
|---|---|---|
| `TypeCorrect` | `TypeOK` | `DeadlineInv`, for the number of late polls |
| `RequestsFit` | `RequestsFitStatus` | `StageInv`: a wait that ended in success saw the status it was for, and the cloud leaves that status only by breaking the server |
| `NothingDeleted` | `NothingDeletedEarly` | `ReplyInv`, and `StageInv` and `CloudInv` for what is there at the prompt |
| `CleanOrWarned` | `CleanUnlessWarned` | `CleanupInv`; a volume whose deletion was accepted was detached, so by `CloudInv` the server is gone or past saving |
| `Overrun` | `OverrunBounded` | `DeadlineInv` |
| `RentalImplemented` | `ImplementsRental` | `CloudKeepsContract`: the cloud gives up a server only in a deletion that was asked for; `MainKeepsContract`: a volume that can be deleted is attached to no server |

None of the five properties is inductive alone: `CleanUnlessWarned`, for one, speaks only of the end, and what
makes it true was done three requests earlier. `IInv` was an invariant of the run before it was proved.

Each invariant of the other modules was an invariant of its run before it was proved. Only model-checked:
`EveryCallReturns` and `EndsOrBlocks`, which are liveness under fairness and beyond the prover, and the
counterexamples of the runs that expect a violation. That `CanGo(p)` is when the goroutine has an enabled
step was checked by TLC and is not proved, since it speaks of `ENABLED`.

## Not modelled

* Paths, query strings, path escaping and the bodies of requests that are no updates; the other struct
  types; header parsing; the HMAC of `GenerateTempURL`: data without state, for which the unit tests are
  the right tool.
* `doRaw`, which only tests call, and which of several messages `newAPIError` picks from an error's body
  (Go's order of iteration over a map decides; nothing promises one).
* `http.Client` is a request that ends; redirects and connection reuse are its own.
* `examples/main.go` is a list of calls without state or loops.
* `integration_test.go` is a test harness that needs a live account and no part of the SDK. Its waits are
  those of the example, but take a 404 for success; its scenarios run once, in order.
* Catalogs that break `PathsAssumption`, and with them a version that `ensureVersionPath` finds where it is
  none: what paths the service promises is not in the repository, and the code has no guard of its own.

## Plan

What is left, in the order of its worth:

1. Logins that are answered in one order and installed in the other (`identity.go` 156): tell the order
   of answers from the order of installation in `ClientSync`, if a document ever promises one.
2. The load balancer scenario of the integration test, whose children can only change while the balancer
   is `ACTIVE`, and its cleanup.
