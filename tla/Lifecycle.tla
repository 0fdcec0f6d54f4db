----------------------------- MODULE Lifecycle -----------------------------
(***************************************************************************)
(* The end-to-end example: a program that makes a volume and a server from *)
(* it, stops and starts the server, enables its backup, and deletes all of *)
(* it unless the user says keep, against a cloud whose volumes and servers change *)
(* status on their own.                                                    *)
(*                                                                         *)
(* Any call can fail: refused, lost, or done with the answer lost.  A poll *)
(* takes two steps, reading the status and judging it, and the deadline of *)
(* a wait can pass before, between and after them.                         *)
(***************************************************************************)
EXTENDS Integers

VARIABLES
  volume,   (* the volume's status in the cloud, "none" before, "gone" after *)
  server,   (* the server's status, likewise                                 *)
  task,     (* what the cloud is doing to the server                         *)
  backup,   (* the server is subscribed to backups                           *)
  pc,       (* the step of main                                              *)
  seen,     (* the status a poll returned and main has not judged yet        *)
  late,     (* the deadline of the present wait has passed                   *)
  warned,   (* the steps of the cleanup that printed a warning               *)
  reply,    (* history: what main read at its prompt, "eof" for nothing      *)
  overdue   (* history: polls of this wait made after its deadline           *)

cloudVars == <<volume, server, task, backup>>
waitVars == <<seen, late, overdue>>
vars == <<volume, server, task, backup, pc, seen, late, warned, reply, overdue>>

\* The waits: the status each is for, and the step after it.
Target ==
  [waitAvailable |-> "available", waitActive |-> "ACTIVE",
   waitShutoff |-> "SHUTOFF", waitRestart |-> "ACTIVE"]

Follows ==
  [waitAvailable |-> "createServer", waitActive |-> "stop",
   waitShutoff |-> "start", waitRestart |-> "enableBackup"]

Waits == DOMAIN Target
Cleanup == {"disableBackup", "deleteServer", "waitGone", "deleteVolume"}
Exits == {"fatal", "kept", "complete"}

\* Where main needs an answer, of the cloud or, at the prompt, of the user.
Asking ==
  {"prepare", "createVolume", "createServer", "stop", "start", "enableBackup", "prompt"}
  \cup Waits \cup Cleanup

Init ==
  /\ volume = "none"
  /\ server = "none"
  /\ task = "none"
  /\ backup = FALSE
  /\ pc = "prepare"
  /\ seen = "nothing"
  /\ late = FALSE
  /\ warned = {}
  /\ reply = "none"
  /\ overdue = 0

\* To another step of main; a wait that begins there has its deadline before it.
Goto(step) ==
  /\ pc' = step
  /\ seen' = "nothing"
  /\ late' = FALSE
  /\ overdue' = 0
-----------------------------------------------------------------------------
(* The cloud *)

VolumeMade ==
  /\ volume = "creating"
  /\ volume' \in {"available", "error"}
  /\ UNCHANGED <<server, task, backup>>

\* The deletion of a volume ends, one way or the other.
VolumeRemoved ==
  /\ volume = "deleting"
  /\ volume' \in {"gone", "error_deleting"}
  /\ UNCHANGED <<server, task, backup>>

\* BUILD, stopping and starting end.
TaskDone ==
  /\ task \in {"build", "stop", "start"}
  /\ task' = "none"
  /\ server' = IF task = "stop" THEN "SHUTOFF" ELSE "ACTIVE"
  /\ UNCHANGED <<volume, backup>>

\* A deletion detaches the volume, then removes the server.
VolumeDetached ==
  /\ task = "delete"
  /\ volume = "in-use"
  /\ volume' = "available"
  /\ UNCHANGED <<server, task, backup>>

ServerRemoved ==
  /\ task = "delete"
  /\ volume # "in-use"
  /\ server' = "gone"
  /\ task' = "none"
  /\ UNCHANGED <<volume, backup>>

\* A server breaks down, idle or in the middle of a task; a deletion that has
\* detached the volume does not fail any more.
ServerBreaks ==
  /\ server \in {"BUILD", "ACTIVE", "SHUTOFF", "ERROR"}
  /\ volume = "in-use"
  /\ server' = "ERROR"
  /\ task' = "none"
  /\ UNCHANGED <<volume, backup>>

Cloud ==
  /\ \/ VolumeMade \/ VolumeRemoved \/ TaskDone
     \/ VolumeDetached \/ ServerRemoved \/ ServerBreaks
  /\ UNCHANGED <<pc, waitVars, warned, reply>>

\* What accepting a request does to the cloud, and when it is accepted.

VolumeCreated == volume' = "creating" /\ UNCHANGED <<server, task, backup>>

ServerCreated ==
  /\ volume = "available"
  /\ volume' = "in-use"
  /\ server' = "BUILD"
  /\ task' = "build"
  /\ UNCHANGED backup

TaskBegun(status, t) ==
  /\ server = status
  /\ task = "none"
  /\ task' = t
  /\ UNCHANGED <<volume, server, backup>>

BackupEnabled ==
  /\ server = "ACTIVE"
  /\ backup' = TRUE
  /\ UNCHANGED <<volume, server, task>>

BackupDisabled == backup' = FALSE /\ UNCHANGED <<volume, server, task>>

DeletionBegun ==
  /\ server # "gone"
  /\ task' = "delete"
  /\ UNCHANGED <<volume, server, backup>>

VolumeDeletionBegun ==
  /\ volume \in {"available", "error"}
  /\ volume' = "deleting"
  /\ UNCHANGED <<server, task, backup>>
-----------------------------------------------------------------------------
(* main, up to the prompt: log.Fatal at the first error *)

\* The environment, the login, the flavor and the image.
Prepare ==
  /\ pc = "prepare"
  /\ Goto("createVolume") \/ Goto("fatal")
  /\ UNCHANGED <<cloudVars, warned, reply>>

\* A request that, if it is accepted, does what effect says.  The answer can be
\* lost on its way.
Request(step, effect, next) ==
  /\ pc = step
  /\ \/ effect /\ (Goto(next) \/ Goto("fatal"))
     \/ Goto("fatal") /\ UNCHANGED cloudVars
  /\ UNCHANGED <<warned, reply>>

CreateVolume == Request("createVolume", VolumeCreated, "waitAvailable")
CreateServer == Request("createServer", ServerCreated, "waitActive")
StopServer   == Request("stop", TaskBegun("ACTIVE", "stop"), "waitShutoff")
StartServer  == Request("start", TaskBegun("SHUTOFF", "start"), "waitRestart")
EnableAutoBackup == Request("enableBackup", BackupEnabled, "prompt")

(* waitForServerStatus and waitForVolumeStatus *)

\* Two polls after the deadline are as bad as more.
Polled == overdue' = IF late /\ overdue < 2 THEN overdue + 1 ELSE overdue

\* GetServer or GetVolume
Poll ==
  /\ pc \in Waits
  /\ seen = "nothing"
  /\ \/ /\ seen' = IF pc = "waitAvailable" THEN volume ELSE server
        /\ Polled
        /\ UNCHANGED <<pc, late>>
     \/ Goto("fatal")
  /\ UNCHANGED <<cloudVars, warned, reply>>

\* Mutant: a wait that times out returns no error.
Bug_TimeoutIsSuccess ==
  /\ pc \in Waits
  /\ seen # "nothing"
  /\ \/ (seen = Target[pc] \/ late) /\ Goto(Follows[pc])
     \/ seen \in {"ERROR", "error"} /\ Goto("fatal")
     \/ /\ seen \notin {Target[pc], "ERROR", "error"}
        /\ ~late
        /\ seen' = "nothing"
        /\ UNCHANGED <<pc, late, overdue>>
  /\ UNCHANGED <<cloudVars, warned, reply>>

\* Mutant: the deadline is computed anew in every turn of the loop.
Bug_DeadlineMoves ==
  /\ pc \in Waits
  /\ seen # "nothing"
  /\ \/ seen = Target[pc] /\ Goto(Follows[pc])
     \/ seen \in {"ERROR", "error"} /\ Goto("fatal")
     \/ /\ seen \notin {Target[pc], "ERROR", "error"}
        /\ seen' = "nothing"
        /\ UNCHANGED <<pc, late, overdue>>
  /\ UNCHANGED <<cloudVars, warned, reply>>

\* The rest of a turn: the target is reached, the resource is broken, the deadline
\* has passed, or it sleeps and polls again.
Judge ==
  /\ pc \in Waits
  /\ seen # "nothing"
  /\ \/ seen = Target[pc] /\ Goto(Follows[pc])
     \/ /\ seen # Target[pc]
        /\ late \/ seen \in {"ERROR", "error"}
        /\ Goto("fatal")
     \/ /\ seen \notin {Target[pc], "ERROR", "error"}
        /\ ~late
        /\ seen' = "nothing"
        /\ UNCHANGED <<pc, late, overdue>>
  /\ UNCHANGED <<cloudVars, warned, reply>>

DeadlinePasses ==
  /\ pc \in Waits \cup {"waitGone"}
  /\ ~late
  /\ late' = TRUE
  /\ UNCHANGED <<cloudVars, pc, seen, overdue, warned, reply>>
-----------------------------------------------------------------------------
(* The prompt and the cleanup: errors are printed and main goes on *)

\* Mutant: nothing returns from main after "keep".
Bug_KeepFallsThrough ==
  /\ pc = "prompt"
  /\ reply' \in {"keep", "enter", "eof"}
  /\ Goto("disableBackup")
  /\ UNCHANGED <<cloudVars, warned>>

\* Enter, a line other than "keep", and no line at all (end of file or a read error,
\* which Scan reports and main does not look at) are the same to main.
Prompt ==
  /\ pc = "prompt"
  /\ \/ reply' = "keep" /\ Goto("kept")
     \/ reply' \in {"enter", "eof"} /\ Goto("disableBackup")
  /\ UNCHANGED <<cloudVars, warned>>

\* Mutant: the warning is that of the step that follows.
Bug_WarnsForNext(step, effect, next, otherwise) ==
  /\ pc = step
  /\ \/ effect /\ Goto(next) /\ UNCHANGED warned
     \/ /\ effect \/ UNCHANGED cloudVars
        /\ Goto(otherwise)
        /\ warned' = warned \cup {otherwise}
  /\ UNCHANGED reply

\* A request of the cleanup, which warns when it fails.
CleanupRequest(step, effect, next, otherwise) ==
  /\ pc = step
  /\ \/ effect /\ Goto(next) /\ UNCHANGED warned
     \/ /\ effect \/ UNCHANGED cloudVars
        /\ Goto(otherwise)
        /\ warned' = warned \cup {step}
  /\ UNCHANGED reply

DisableAutoBackup ==
  CleanupRequest("disableBackup", BackupDisabled, "deleteServer", "deleteServer")

DeleteServer ==
  CleanupRequest("deleteServer", DeletionBegun, "waitGone", "deleteVolume")

\* Mutant: the failure of a request to delete the volume is not printed.
Bug_SilentDeleteVolume ==
  /\ pc = "deleteVolume"
  /\ VolumeDeletionBegun \/ UNCHANGED cloudVars
  /\ Goto("complete")
  /\ UNCHANGED <<warned, reply>>

\* Mutant: main passes force = true, and the service deletes a volume that is in use.
Bug_ForceDelete ==
  /\ pc = "deleteVolume"
  /\ \/ /\ volume \in {"available", "in-use", "error"}
        /\ volume' = "deleting"
        /\ UNCHANGED <<server, task, backup, warned>>
     \/ UNCHANGED cloudVars /\ warned' = warned \cup {"deleteVolume"}
  /\ Goto("complete")
  /\ UNCHANGED reply

DeleteVolume ==
  CleanupRequest("deleteVolume", VolumeDeletionBegun, "complete", "complete")

\* Mutant: the wait for the deletion has no deadline.
Bug_WaitGoneForever ==
  /\ pc = "waitGone"
  /\ seen = "nothing"
  /\ \/ server = "gone" /\ Goto("deleteVolume") /\ UNCHANGED warned
     \/ Goto("deleteVolume") /\ warned' = warned \cup {"waitGone"}
     \/ server # "gone" /\ seen' = server /\ UNCHANGED <<pc, late, overdue, warned>>
  /\ UNCHANGED <<cloudVars, reply>>

\* for time.Now().Before(deadline): until GetServer fails, with 404 or otherwise
PollGone ==
  /\ pc = "waitGone"
  /\ seen = "nothing"
  /\ \/ (late \/ server = "gone") /\ Goto("deleteVolume") /\ UNCHANGED warned
     \/ ~late /\ Goto("deleteVolume") /\ warned' = warned \cup {"waitGone"}
     \/ /\ ~late
        /\ server # "gone"
        /\ seen' = server
        /\ UNCHANGED <<pc, late, overdue, warned>>
  /\ UNCHANGED <<cloudVars, reply>>

\* The status of a server that is still there is printed and not looked at.
SleepGone ==
  /\ pc = "waitGone"
  /\ seen # "nothing"
  /\ seen' = "nothing"
  /\ UNCHANGED <<cloudVars, pc, late, overdue, warned, reply>>
-----------------------------------------------------------------------------
Main ==
  \/ Prepare \/ CreateVolume \/ CreateServer \/ StopServer \/ StartServer
  \/ EnableAutoBackup \/ Poll \/ Judge \/ Prompt \/ DisableAutoBackup
  \/ DeleteServer \/ DeleteVolume \/ PollGone \/ SleepGone

Next == Main \/ DeadlinePasses \/ Cloud

Spec == Init /\ [][Next]_vars

\* What main does by itself goes on, and time passes.  A request need not end: the
\* context has no deadline and the client no timeout.  Nor need the user answer.
FairSpec == Spec /\ WF_vars(Judge \/ SleepGone) /\ WF_vars(DeadlinePasses)
-----------------------------------------------------------------------------
VolumeStatuses ==
  {"none", "creating", "available", "in-use", "error", "deleting", "error_deleting", "gone"}
ServerStatuses == {"none", "BUILD", "ACTIVE", "SHUTOFF", "ERROR", "gone"}

TypeOK ==
  /\ volume \in VolumeStatuses
  /\ server \in ServerStatuses
  /\ task \in {"none", "build", "stop", "start", "delete"}
  /\ backup \in BOOLEAN
  /\ pc \in Asking \cup Exits
  /\ seen \in {"nothing"} \cup VolumeStatuses \cup ServerStatuses
  /\ late \in BOOLEAN
  /\ warned \subseteq Cleanup
  /\ reply \in {"none", "keep", "enter", "eof"}
  /\ overdue \in 0..2

\* When main makes a request, what the waits before it have seen is still so: the
\* volume is there, the server has the status the request needs and the cloud has
\* finished what it was doing to it, unless the server broke down since.
RequestsFitStatus ==
  /\ pc = "createServer" => volume = "available" /\ server = "none"
  /\ pc \in {"stop", "enableBackup"} => server \in {"ACTIVE", "ERROR"} /\ task = "none"
  /\ pc = "start" => server \in {"SHUTOFF", "ERROR"} /\ task = "none"

\* Until main has read the reply, and after "keep", nothing is deleted or being deleted:
\* no path deletes anything before, and an early exit leaves everything that was made.
\* At the prompt all that it speaks of is there, with a backup, though the server may
\* have broken down since it was seen ACTIVE.
NothingDeletedEarly ==
  reply \in {"none", "keep"} =>
    /\ volume \notin {"deleting", "error_deleting", "gone"}
    /\ task # "delete" /\ server # "gone"
    /\ pc \in {"prompt", "kept"} =>
         volume = "in-use" /\ server \notin {"none", "BUILD"} /\ backup /\ task = "none"

\* After a cleanup that printed no warning the backup is off, the deletion of the
\* volume was accepted, and the server is gone or, if the wait for it gave up, its
\* deletion is past the point where it can fail: what is left then is left by a
\* deletion of the volume that failed later, which main does not wait to see.
CleanUnlessWarned ==
  pc = "complete" /\ warned = {} =>
    /\ ~backup
    /\ volume \in {"deleting", "error_deleting", "gone"}
    /\ server = "gone" \/ task = "delete"

\* A wait makes at most one poll after its deadline: it looks at the deadline in
\* every turn, after the status, so a late success still counts but a second late
\* poll never happens.
OverrunBounded == overdue <= 1

\* What the user pays for: a server is given up when its deletion cannot fail any
\* more, which is when the volume is detached from it; a volume when it is gone, since
\* its deletion can fail to the end.
VolumeHeld ==
  IF volume = "none" THEN "none" ELSE IF volume = "gone" THEN "released" ELSE "held"

ServerHeld ==
  IF server = "none" THEN "none"
  ELSE IF server = "gone" \/ (task = "delete" /\ volume # "in-use") THEN "released"
  ELSE "held"

Contract == INSTANCE Rental WITH
  volume <- VolumeHeld, server <- ServerHeld, waived <- (reply \in {"enter", "eof"})

\* The example keeps to the contract in Rental, whatever fails: it prompts with both
\* held, and then the server goes before the volume, each of them once.
ImplementsRental == Contract!Spec

\* main ends, or for ever waits for one answer: no loop of its own keeps it going,
\* whatever the cloud does to the volume and the server and whichever polls it answers.
EndsOrBlocks ==
  <>(pc \in Exits) \/ \E step \in Asking : <>[](pc = step /\ seen = "nothing")

(* What main prints that need not be so *)

\* "Press Enter to delete them": what main deletes, the user pressed Enter for.
DeletedOnEnter ==
  reply # "enter" => volume \notin {"deleting", "error_deleting", "gone"} /\ task # "delete"

\* "Cleanup complete."
CleanupComplete == pc = "complete" => volume = "gone" /\ server = "gone"
=============================================================================
