-------------------------- MODULE LifecycleProofs --------------------------
(***************************************************************************)
(* Safety of the end-to-end example, from what its waits establish and     *)
(* what the cloud does to a volume and a server.                           *)
(***************************************************************************)
EXTENDS Lifecycle, TLAPS

Present == {"BUILD", "ACTIVE", "SHUTOFF", "ERROR"}
Doomed == {"deleting", "error_deleting", "gone"}
Proceeds == {"enter", "eof"}

\* The volume and the server belong together: a server has a volume that is in use
\* until a deletion detaches it, and a task fits the status it started from.
CloudInv ==
  /\ server = "none" => task = "none" /\ volume # "in-use"
  /\ server = "gone" => task = "none" /\ volume \notin {"none", "creating", "in-use"}
  /\ server \in Present =>
       \/ volume = "in-use"
       \/ task = "delete" /\ volume \in {"available"} \cup Doomed
  /\ task = "build" => server = "BUILD"
  /\ task = "stop" => server = "ACTIVE"
  /\ task = "start" => server = "SHUTOFF"
  /\ server = "BUILD" => task \in {"build", "delete"}

\* There is a reply from the prompt on, and nothing is deleted before.
ReplyInv ==
  /\ reply \in Proceeds <=> pc \in Cleanup \cup {"complete"}
  /\ reply = "keep" <=> pc = "kept"
  /\ reply \notin Proceeds => task # "delete" /\ server # "gone" /\ volume \notin Doomed

\* What main has made when it is at a step, and, once the status that its wait is for
\* was seen, what became of the server: it has that status, and no task, or broke down.
StageInv ==
  /\ pc \in {"prepare", "createVolume"} => volume = "none" /\ server = "none"
  /\ pc \in {"waitAvailable", "createServer"} => server = "none"
  /\ pc = "waitAvailable" /\ seen = "available" => volume = "available"
  /\ pc = "createServer" => volume = "available"
  /\ pc \in {"waitActive", "waitShutoff", "waitRestart", "stop", "start", "enableBackup",
             "prompt", "kept"} => server \in Present
  /\ pc = "waitActive" => task \in {"build", "none"}
  /\ pc = "waitActive" /\ task = "none" => server \in {"ACTIVE", "ERROR"}
  /\ pc = "waitActive" /\ seen = "ACTIVE" => server # "BUILD"
  /\ pc = "waitShutoff" => task \in {"stop", "none"}
  /\ pc = "waitShutoff" /\ task = "none" => server \in {"SHUTOFF", "ERROR"}
  /\ pc = "waitShutoff" /\ seen = "SHUTOFF" => task = "none"
  /\ pc = "waitRestart" => task \in {"start", "none"}
  /\ pc = "waitRestart" /\ task = "none" => server \in {"ACTIVE", "ERROR"}
  /\ pc = "waitRestart" /\ seen = "ACTIVE" => task = "none"
  /\ pc \in {"stop", "enableBackup", "prompt", "kept"} =>
       server \in {"ACTIVE", "ERROR"} /\ task = "none"
  /\ pc = "start" => server \in {"SHUTOFF", "ERROR"} /\ task = "none"
  /\ pc \in {"prompt", "kept"} => backup
  /\ pc \in Cleanup \cup {"complete"} => server \in Present \cup {"gone"}

\* What the cleanup has done, unless it printed a warning.
CleanupInv ==
  /\ pc \in {"deleteServer", "waitGone", "deleteVolume", "complete"} =>
       (~backup \/ "disableBackup" \in warned)
  /\ pc = "complete" => (volume \in Doomed \/ "deleteVolume" \in warned)

\* A poll after the deadline is judged before the next, and is then the last.
DeadlineInv ==
  overdue # 0 => overdue = 1 /\ late /\ seen # "nothing" /\ pc \in Waits

IInv == TypeOK /\ CloudInv /\ ReplyInv /\ StageInv /\ CleanupInv /\ DeadlineInv
-----------------------------------------------------------------------------
\* The waits, the status each is for and what follows it.
LEMMA WaitsAre ==
  /\ Waits = {"waitAvailable", "waitActive", "waitShutoff", "waitRestart"}
  /\ Target["waitAvailable"] = "available" /\ Follows["waitAvailable"] = "createServer"
  /\ Target["waitActive"] = "ACTIVE" /\ Follows["waitActive"] = "stop"
  /\ Target["waitShutoff"] = "SHUTOFF" /\ Follows["waitShutoff"] = "start"
  /\ Target["waitRestart"] = "ACTIVE" /\ Follows["waitRestart"] = "enableBackup"
  BY DEF Waits, Target, Follows

\* Nothing is there when the program starts.
LEMMA InitInv == Init => IInv
  <1> SUFFICES ASSUME Init PROVE IInv
    OBVIOUS
  <1>1. pc \notin Waits
    BY WaitsAre DEF Init
  <1>2. TypeOK
    <2>1. pc = "prepare" /\ late = FALSE /\ backup = FALSE /\ warned = {}
      BY DEF Init
    <2>2. overdue \in 0..2 /\ seen = "nothing"
      BY DEF Init
    <2> QED BY <2>1, <2>2 DEF Init, TypeOK, VolumeStatuses, ServerStatuses, Asking
  <1>3. CloudInv /\ ReplyInv /\ CleanupInv
    BY DEF Init, CloudInv, ReplyInv, CleanupInv, Present, Doomed, Proceeds, Cleanup
  <1>4. StageInv
    BY DEF Init, StageInv, Cleanup
  <1>5. DeadlineInv
    BY DEF Init, DeadlineInv
  <1> QED BY <1>2, <1>3, <1>4, <1>5 DEF IInv

\* What the cloud does on its own keeps the invariant: it ends tasks in the status
\* that main waits for, and takes a volume away from a server only in a deletion.
LEMMA CloudStep == IInv /\ Cloud => IInv'
  <1> SUFFICES ASSUME IInv, Cloud PROVE IInv'
    OBVIOUS
  <1> USE DEF IInv, TypeOK, CloudInv, ReplyInv, StageInv, CleanupInv, DeadlineInv,
         VolumeStatuses, ServerStatuses, Cleanup, Exits, Asking,
         Present, Doomed, Proceeds, waitVars
  <1>1. CASE VolumeMade
    BY <1>1, WaitsAre DEF Cloud, VolumeMade
  <1>2. CASE TaskDone
    BY <1>2, WaitsAre DEF Cloud, TaskDone
  <1>3. CASE VolumeDetached
    BY <1>3, WaitsAre DEF Cloud, VolumeDetached
  <1>6. CASE VolumeRemoved
    BY <1>6, WaitsAre DEF Cloud, VolumeRemoved
  <1>4. CASE ServerRemoved
    BY <1>4, WaitsAre DEF Cloud, ServerRemoved
  <1>5. CASE ServerBreaks
    BY <1>5, WaitsAre DEF Cloud, ServerBreaks
  <1> QED BY <1>1, <1>2, <1>3, <1>4, <1>5, <1>6 DEF Cloud

\* The requests up to the prompt keep it, answered or not.
LEMMA RequestStep ==
  ASSUME IInv, Prepare \/ CreateVolume \/ CreateServer \/ StopServer \/ StartServer
               \/ EnableAutoBackup
  PROVE  IInv'
  <1> USE DEF IInv, TypeOK, CloudInv, ReplyInv, StageInv, CleanupInv, DeadlineInv,
         VolumeStatuses, ServerStatuses, Cleanup, Exits, Asking,
         Present, Doomed, Proceeds, cloudVars, Goto
  <1>1. CASE Prepare
    BY <1>1, WaitsAre DEF Prepare
  <1>2. CASE CreateVolume
    BY <1>2, WaitsAre DEF CreateVolume, Request, VolumeCreated
  <1>3. CASE CreateServer
    BY <1>3, WaitsAre DEF CreateServer, Request, ServerCreated
  <1>4. CASE StopServer
    BY <1>4, WaitsAre DEF StopServer, Request, TaskBegun
  <1>5. CASE StartServer
    BY <1>5, WaitsAre DEF StartServer, Request, TaskBegun
  <1>6. CASE EnableAutoBackup
    BY <1>6, WaitsAre DEF EnableAutoBackup, Request, BackupEnabled
  <1> QED BY <1>1, <1>2, <1>3, <1>4, <1>5, <1>6

\* So do the polls of a wait, the judgement of what they returned and its deadline.
LEMMA WaitStep ==
  ASSUME IInv, Poll \/ Judge \/ DeadlinePasses
  PROVE  IInv'
  <1> USE DEF IInv, TypeOK, CloudInv, ReplyInv, StageInv, CleanupInv, DeadlineInv,
         VolumeStatuses, ServerStatuses, Cleanup, Exits, Asking,
         Present, Doomed, Proceeds, cloudVars, Goto
  <1>1. CASE Poll
    <2>1. TypeOK'
      <3>1. UNCHANGED <<cloudVars, warned, reply>>
        BY <1>1 DEF Poll
      <3>2. pc' \in {pc, "fatal"} /\ late' \in BOOLEAN
        BY <1>1 DEF Poll
      <3>3. seen' \in {"nothing", volume, server}
        BY <1>1 DEF Poll
      <3>4. overdue' \in 0..2
        BY <1>1 DEF Poll, Polled
      <3> QED BY <3>1, <3>2, <3>3, <3>4
    <2>2. CloudInv'
      BY <1>1, WaitsAre DEF Poll, Polled
    <2>3. ReplyInv'
      BY <1>1, WaitsAre DEF Poll, Polled
    <2>4. StageInv'
      BY <1>1, WaitsAre DEF Poll, Polled
    <2>5. CleanupInv'
      BY <1>1, WaitsAre DEF Poll, Polled
    <2>6. DeadlineInv'
      BY <1>1, WaitsAre DEF Poll, Polled
    <2> QED BY <2>1, <2>2, <2>3, <2>4, <2>5, <2>6
  <1>2. CASE Judge
    <2>1. TypeOK'
      <3>1. UNCHANGED <<cloudVars, warned, reply>>
        BY <1>2 DEF Judge
      <3>2. pc' \in {pc, "fatal", "createServer", "stop", "start", "enableBackup"}
        BY <1>2, WaitsAre DEF Judge
      <3>3. seen' = "nothing" /\ overdue' \in {0, overdue}
        BY <1>2 DEF Judge
      <3>4. late' \in BOOLEAN
        BY <1>2 DEF Judge
      <3> QED BY <3>1, <3>2, <3>3, <3>4
    <2>2. CloudInv'
      BY <1>2, WaitsAre DEF Judge
    <2>3. ReplyInv'
      BY <1>2, WaitsAre DEF Judge
    <2>4. StageInv'
      BY <1>2, WaitsAre DEF Judge
    <2>5. CleanupInv'
      BY <1>2, WaitsAre DEF Judge
    <2>6. DeadlineInv'
      BY <1>2, WaitsAre DEF Judge
    <2> QED BY <2>1, <2>2, <2>3, <2>4, <2>5, <2>6
  <1>3. CASE DeadlinePasses
    BY <1>3, WaitsAre DEF DeadlinePasses
  <1> QED BY <1>1, <1>2, <1>3

\* And so do the prompt and the cleanup after it.
LEMMA CleanupStep ==
  ASSUME IInv, Prompt \/ DisableAutoBackup \/ DeleteServer \/ PollGone \/ SleepGone
               \/ DeleteVolume
  PROVE  IInv'
  <1> USE DEF IInv, TypeOK, CloudInv, ReplyInv, StageInv, CleanupInv, DeadlineInv,
         VolumeStatuses, ServerStatuses, Cleanup, Exits, Asking,
         Present, Doomed, Proceeds, cloudVars, Goto
  <1>1. CASE Prompt
    BY <1>1, WaitsAre DEF Prompt
  <1>2. CASE DisableAutoBackup
    BY <1>2, WaitsAre DEF DisableAutoBackup, CleanupRequest, BackupDisabled
  <1>3. CASE DeleteServer
    <2>1. TypeOK'
      BY <1>3, WaitsAre DEF DeleteServer, CleanupRequest, DeletionBegun
    <2>2. CloudInv'
      BY <1>3, WaitsAre DEF DeleteServer, CleanupRequest, DeletionBegun
    <2>3. ReplyInv'
      BY <1>3, WaitsAre DEF DeleteServer, CleanupRequest, DeletionBegun
    <2>4. StageInv'
      BY <1>3, WaitsAre DEF DeleteServer, CleanupRequest, DeletionBegun
    <2>5. CleanupInv'
      BY <1>3, WaitsAre DEF DeleteServer, CleanupRequest, DeletionBegun
    <2>6. DeadlineInv'
      BY <1>3, WaitsAre DEF DeleteServer, CleanupRequest, DeletionBegun
    <2> QED BY <2>1, <2>2, <2>3, <2>4, <2>5, <2>6
  <1>4. CASE PollGone
    BY <1>4, WaitsAre DEF PollGone
  <1>5. CASE SleepGone
    BY <1>5, WaitsAre DEF SleepGone
  <1>6. CASE DeleteVolume
    <2>1. TypeOK'
      BY <1>6, WaitsAre DEF DeleteVolume, CleanupRequest, VolumeDeletionBegun
    <2>2. CloudInv'
      BY <1>6, WaitsAre DEF DeleteVolume, CleanupRequest, VolumeDeletionBegun
    <2>3. ReplyInv'
      BY <1>6, WaitsAre DEF DeleteVolume, CleanupRequest, VolumeDeletionBegun
    <2>4. StageInv'
      BY <1>6, WaitsAre DEF DeleteVolume, CleanupRequest, VolumeDeletionBegun
    <2>5. CleanupInv'
      BY <1>6, WaitsAre DEF DeleteVolume, CleanupRequest, VolumeDeletionBegun
    <2>6. DeadlineInv'
      BY <1>6, WaitsAre DEF DeleteVolume, CleanupRequest, VolumeDeletionBegun
    <2> QED BY <2>1, <2>2, <2>3, <2>4, <2>5, <2>6
  <1> QED BY <1>1, <1>2, <1>3, <1>4, <1>5, <1>6

\* Every step of the program and of the cloud keeps the invariant.
LEMMA StepInv == IInv /\ [Next]_vars => IInv'
  <1> SUFFICES ASSUME IInv, [Next]_vars PROVE IInv'
    OBVIOUS
  <1>1. CASE Cloud
    BY <1>1, CloudStep
  <1>2. CASE Prepare \/ CreateVolume \/ CreateServer \/ StopServer \/ StartServer
             \/ EnableAutoBackup
    BY <1>2, RequestStep
  <1>3. CASE Poll \/ Judge \/ DeadlinePasses
    BY <1>3, WaitStep
  <1>4. CASE Prompt \/ DisableAutoBackup \/ DeleteServer \/ PollGone \/ SleepGone
             \/ DeleteVolume
    BY <1>4, CleanupStep
  <1>5. CASE UNCHANGED vars
    BY <1>5 DEF vars, IInv, TypeOK, CloudInv, ReplyInv, StageInv, CleanupInv, DeadlineInv
  <1> QED BY <1>1, <1>2, <1>3, <1>4, <1>5 DEF Next, Main

\* The invariant holds in every behaviour of the example.
LEMMA Invariance == Spec => []IInv
  BY InitInv, StepInv, PTL DEF Spec
-----------------------------------------------------------------------------
\* The variables keep their types.
THEOREM TypeCorrect == Spec => []TypeOK
  <1>1. IInv => TypeOK
    BY DEF IInv
  <1> QED BY <1>1, Invariance, PTL

\* Every request of main before the prompt finds the volume and the server as the
\* waits before it left them, or broken down since.
THEOREM RequestsFit == Spec => []RequestsFitStatus
  <1>1. IInv => RequestsFitStatus
    BY DEF IInv, StageInv, RequestsFitStatus
  <1> QED BY <1>1, Invariance, PTL

\* Nothing main made is deleted, or being deleted, before main has read a reply and
\* after "keep", and at the prompt all of it is there.
THEOREM NothingDeleted == Spec => []NothingDeletedEarly
  <1>1. IInv => NothingDeletedEarly
    <2> SUFFICES ASSUME IInv, reply \in {"none", "keep"}
                 PROVE  /\ volume \notin Doomed
                        /\ task # "delete" /\ server # "gone"
                        /\ pc \in {"prompt", "kept"} =>
                             /\ volume = "in-use" /\ server \notin {"none", "BUILD"}
                             /\ backup /\ task = "none"
      BY DEF NothingDeletedEarly, Doomed
    <2>1. volume \notin Doomed /\ task # "delete" /\ server # "gone"
      BY DEF IInv, ReplyInv, Proceeds
    <2>2. ASSUME pc \in {"prompt", "kept"}
          PROVE  /\ volume = "in-use" /\ server \notin {"none", "BUILD"}
                 /\ backup /\ task = "none"
      <3>1. server \in {"ACTIVE", "ERROR"} /\ task = "none" /\ backup
        BY <2>2 DEF IInv, StageInv
      <3>2. volume = "in-use"
        BY <3>1 DEF IInv, CloudInv, Present
      <3> QED BY <3>1, <3>2
    <2> QED BY <2>1, <2>2
  <1> QED BY <1>1, Invariance, PTL

\* A cleanup that printed no warning left no backup, no volume whose deletion was not
\* accepted, and no server whose deletion can still fail.
THEOREM CleanOrWarned == Spec => []CleanUnlessWarned
  <1>1. IInv => CleanUnlessWarned
    <2> SUFFICES ASSUME IInv, pc = "complete", warned = {}
                 PROVE  ~backup /\ volume \in Doomed /\ (server = "gone" \/ task = "delete")
      BY DEF CleanUnlessWarned, Doomed
    <2>1. ~backup /\ volume \in Doomed
      BY DEF IInv, CleanupInv
    <2>2. server \in Present \cup {"gone"}
      BY DEF IInv, StageInv
    <2>3. server = "gone" \/ task = "delete"
      BY <2>1, <2>2 DEF IInv, CloudInv, Doomed
    <2> QED BY <2>1, <2>3
  <1> QED BY <1>1, Invariance, PTL

\* No wait polls twice after its deadline.
THEOREM Overrun == Spec => []OverrunBounded
  <1>1. IInv => OverrunBounded
    BY DEF IInv, DeadlineInv, OverrunBounded
  <1> QED BY <1>1, Invariance, PTL
-----------------------------------------------------------------------------
\* What the cloud does on its own gives up a server whose deletion main requested, then
\* a volume likewise, or nothing.
LEMMA CloudKeepsContract ==
  ASSUME IInv, Cloud
  PROVE  [Contract!Next]_(Contract!rentalVars)
  <1> DEFINE Kept == UNCHANGED <<VolumeHeld, ServerHeld, reply \in Proceeds>>
  <1> SUFFICES Contract!GiveUpServer \/ Contract!GiveUpVolume \/ Kept
    BY DEF Contract!Next, Contract!rentalVars, Proceeds
  <1> USE DEF IInv, TypeOK, CloudInv, Present, Doomed, Proceeds, VolumeStatuses,
         ServerStatuses, VolumeHeld, ServerHeld
  <1>1. UNCHANGED reply
    BY DEF Cloud
  <1>2. CASE VolumeMade
    BY <1>1, <1>2 DEF VolumeMade
  <1>3. CASE TaskDone
    BY <1>1, <1>3 DEF TaskDone
  <1>4. CASE VolumeDetached
    <2>1. reply \in Proceeds
      BY <1>4 DEF VolumeDetached, ReplyInv
    <2>2. ServerHeld = "held" /\ ServerHeld' = "released" /\ UNCHANGED VolumeHeld
      BY <1>4 DEF VolumeDetached
    <2> QED BY <1>1, <2>1, <2>2 DEF Contract!GiveUpServer
  <1>5. CASE ServerRemoved
    BY <1>1, <1>5 DEF ServerRemoved
  <1>7. CASE VolumeRemoved
    <2>1. reply \in Proceeds /\ server \in Present \cup {"gone"}
      BY <1>7 DEF VolumeRemoved, ReplyInv, StageInv
    <2>2. ServerHeld = "released" /\ UNCHANGED ServerHeld
      BY <1>7, <2>1 DEF VolumeRemoved
    <2>3. VolumeHeld = "held" /\ VolumeHeld' \in {"held", "released"}
      BY <1>7 DEF VolumeRemoved
    <2> QED BY <1>1, <2>1, <2>2, <2>3 DEF Contract!GiveUpVolume
  <1>6. CASE ServerBreaks
    BY <1>1, <1>6 DEF ServerBreaks
  <1> QED BY <1>2, <1>3, <1>4, <1>5, <1>6, <1>7 DEF Cloud

\* A request takes a volume, or a server on it, or changes nothing that is paid for: a
\* deletion that is accepted is the cloud's to carry out.
LEMMA MainKeepsContract ==
  ASSUME IInv, Main \/ DeadlinePasses
  PROVE  [Contract!Next]_(Contract!rentalVars)
  <1> DEFINE Kept == UNCHANGED <<VolumeHeld, ServerHeld, reply \in Proceeds>>
  <1> SUFFICES Contract!Next \/ Kept
    BY DEF Contract!rentalVars, Proceeds
  <1> USE DEF IInv, TypeOK, CloudInv, ReplyInv, StageInv, Present, Doomed, Proceeds,
         Cleanup, VolumeStatuses, ServerStatuses, VolumeHeld, ServerHeld
  <1>1. ASSUME UNCHANGED <<cloudVars, reply>> PROVE Kept
    BY <1>1 DEF cloudVars
  <1>2. CASE CreateVolume
    <2>1. UNCHANGED reply /\ reply \notin Proceeds /\ volume = "none"
      BY <1>2 DEF CreateVolume, Request
    <2>2. CASE VolumeCreated
      BY <2>1, <2>2 DEF VolumeCreated, Contract!TakeVolume, Contract!Next
    <2> QED BY <1>1, <1>2, <2>1, <2>2 DEF CreateVolume, Request
  <1>3. CASE CreateServer
    <2>1. UNCHANGED reply /\ reply \notin Proceeds /\ server = "none"
      BY <1>3 DEF CreateServer, Request
    <2>2. CASE ServerCreated
      BY <2>1, <2>2 DEF ServerCreated, Contract!TakeServer, Contract!Next
    <2> QED BY <1>1, <1>3, <2>1, <2>2 DEF CreateServer, Request
  <1>4. CASE StopServer \/ StartServer \/ EnableAutoBackup
    <2>1. UNCHANGED reply /\ task = "none"
      BY <1>4 DEF StopServer, StartServer, EnableAutoBackup, Request
    <2>2. UNCHANGED <<volume, server>> /\ task' # "delete"
      BY <1>4, <2>1 DEF StopServer, StartServer, EnableAutoBackup, Request, TaskBegun,
         BackupEnabled, cloudVars
    <2> QED BY <2>1, <2>2
  <1>5. CASE Prompt
    <2>1. VolumeHeld = "held" /\ ServerHeld = "held" /\ reply \notin Proceeds
      BY <1>5 DEF Prompt
    <2>2. UNCHANGED <<VolumeHeld, ServerHeld>>
      BY <1>5 DEF Prompt, cloudVars
    <2>3. reply' \in {"keep"} \cup Proceeds
      BY <1>5 DEF Prompt
    <2> QED BY <2>1, <2>2, <2>3 DEF Contract!Waive, Contract!Next
  <1>6. CASE DisableAutoBackup
    BY <1>6 DEF DisableAutoBackup, CleanupRequest, BackupDisabled, cloudVars
  <1>7. CASE DeleteServer
    BY <1>7 DEF DeleteServer, CleanupRequest, DeletionBegun, cloudVars
  <1>8. CASE DeleteVolume
    <2>1. UNCHANGED reply /\ reply \in Proceeds /\ server \in Present \cup {"gone"}
      BY <1>8 DEF DeleteVolume, CleanupRequest
    <2>2. CASE VolumeDeletionBegun
      BY <2>1, <2>2 DEF VolumeDeletionBegun
    <2> QED BY <1>1, <1>8, <2>1, <2>2 DEF DeleteVolume, CleanupRequest
  <1>9. ASSUME Prepare \/ Poll \/ Judge \/ PollGone \/ SleepGone \/ DeadlinePasses
        PROVE  UNCHANGED <<cloudVars, reply>>
    BY <1>9 DEF Prepare, Poll, Judge, PollGone, SleepGone, DeadlinePasses
  <1> QED BY <1>1, <1>2, <1>3, <1>4, <1>5, <1>6, <1>7, <1>8, <1>9 DEF Main

\* The example implements Rental: whatever fails, and in whatever order the cloud and
\* the program take their steps, a server is taken on a volume, given up only if the
\* user could have kept it and did not, and the volume after it.
THEOREM RentalImplemented == Spec => ImplementsRental
  <1>1. Init => Contract!Init
    BY DEF Init, Contract!Init, VolumeHeld, ServerHeld
  <1>2. IInv /\ [Next]_vars => [Contract!Next]_(Contract!rentalVars)
    <2> SUFFICES ASSUME IInv, [Next]_vars
                 PROVE  [Contract!Next]_(Contract!rentalVars)
      OBVIOUS
    <2>1. CASE UNCHANGED vars
      BY <2>1 DEF vars, VolumeHeld, ServerHeld, Contract!rentalVars
    <2> QED BY <2>1, CloudKeepsContract, MainKeepsContract DEF Next
  <1> QED BY <1>1, <1>2, Invariance, PTL DEF Spec, ImplementsRental, Contract!Spec
=============================================================================
