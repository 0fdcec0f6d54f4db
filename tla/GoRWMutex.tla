----------------------------- MODULE GoRWMutex -----------------------------
(***************************************************************************)
(* The sync.RWMutex of Go's standard library, as far as its callers can    *)
(* tell.  A writer first excludes other writers, then announces itself; a  *)
(* reader that comes after the announcement is parked, so the readers that *)
(* are inside drain and the writer gets in.  Unlock lets every parked      *)
(* reader in at once, before another writer can announce itself.           *)
(***************************************************************************)
CONSTANTS Procs,    (* the goroutines that share the lock *)
          NoProc    (* no goroutine                       *)

ASSUME NoProcAssumption == NoProc \notin Procs

VARIABLES
  writer,     (* the goroutine that announced a write, until it unlocks *)
  exclusive,  (* whether the writer is inside                           *)
  readers,    (* the goroutines inside for reading                      *)
  parked      (* the goroutines that wait for the writer to unlock      *)

lockVars == <<writer, exclusive, readers, parked>>

LockTypeOK ==
  /\ writer \in Procs \cup {NoProc}
  /\ exclusive \in BOOLEAN
  /\ readers \subseteq Procs
  /\ parked \subseteq Procs

LockInit ==
  /\ writer = NoProc
  /\ exclusive = FALSE
  /\ readers = {}
  /\ parked = {}

\* mu.RLock(): the call returns at once, or parks the caller.
RLock(p) ==
  /\ \/ /\ writer = NoProc
        /\ readers' = readers \cup {p}
        /\ UNCHANGED parked
     \/ /\ writer # NoProc
        /\ parked' = parked \cup {p}
        /\ UNCHANGED readers
  /\ UNCHANGED <<writer, exclusive>>

\* mu.RUnlock()
RUnlock(p) ==
  /\ p \in readers
  /\ readers' = readers \ {p}
  /\ UNCHANGED <<writer, exclusive, parked>>

\* mu.Lock(), first half: no other writer, and from here on no new reader.
Announce(p) ==
  /\ writer = NoProc
  /\ writer' = p
  /\ UNCHANGED <<exclusive, readers, parked>>

\* mu.Lock(), second half: the last reader has left and Lock returns.
Enter(p) ==
  /\ writer = p
  /\ ~exclusive
  /\ readers = {}
  /\ exclusive' = TRUE
  /\ UNCHANGED <<writer, readers, parked>>

\* mu.Unlock()
Unlock(p) ==
  /\ writer = p
  /\ exclusive
  /\ writer' = NoProc
  /\ exclusive' = FALSE
  /\ readers' = readers \cup parked
  /\ parked' = {}
=============================================================================
