--------------------------- MODULE SerializedState ---------------------------
(***************************************************************************)
(* A state file of the harness (context-continuity.json,                   *)
(* runtime-resume.json, runtime-status.json) shared by several Canvast     *)
(* processes: withOwnedFileLock around a read-reduce-write of the file.    *)
(*                                                                         *)
(* Every system call that another process can observe, or that observes    *)
(* another process, is a step.  The lock file is created empty and then    *)
(* filled with its owner record.  createOwnedLock leaves its finally block *)
(* with `return' when the file was not created, which discards the EEXIST  *)
(* error: the caller of a refused open goes on as if it had the lock, so   *)
(* the waiting and reclaiming arm of withOwnedFileLock is never entered.   *)
(*                                                                         *)
(* The content of the file is abstracted to its revision and the set of    *)
(* events applied to it, which is what the reducers' revision counter and  *)
(* processedEventIds tell apart.                                           *)
(***************************************************************************)
EXTENDS Naturals

CONSTANTS
  Proc,        \* process slots; a crashed process restarts in its slot
  Event,       \* events (external ids) the processes dispatch
  MaxAttempts, \* bound: dispatches a slot makes, over all its incarnations
  MaxFaults    \* bound: crashes and failed system calls

ASSUME SerializedAssumption ==
  /\ MaxAttempts \in Nat
  /\ MaxFaults \in Nat

VARIABLES
  kind,       \* how the file's users write: see Kind
  lockFile,   \* NoLock or the record on disk
  stored,     \* the state file
  pc,         \* what the process does next
  attempt,    \* the process's latest dispatch: stands for its token
  event,      \* the event it dispatches
  base,       \* what it read and reduced
  pinned,     \* generation of the file it opened before its rename
  owns,       \* history: it created the lock file and has not released it
  acked,      \* history: events whose dispatch returned
  overlapped, \* history: two processes were in the protected section at once
  misread,    \* history: a failed read that no second read caught was used
  faults      \* number of faults so far

vars == <<kind, lockFile, stored, pc, attempt, event, base, pinned, owns,
          acked, overlapped, misread, faults>>

\* "dispatch": dispatchSerializedStateUpdate with its revision check and a
\* pinned rename; "update": updateRuntimeStatus, neither of them.
Kind == {"dispatch", "update"}

NoEvent == "none"

\* No file: no owner, no token, and no record that fails to parse.
NoLock == [by |-> "nobody", token |-> 0, filled |-> TRUE]
LockRecord == [by : Proc, token : 0 .. MaxAttempts, filled : BOOLEAN]
\* The owner (pid, birth identity) and token a process writes into the record.
OwnRecord(p) == [by |-> p, token |-> attempt[p], filled |-> TRUE]

\* Mutant: heartbeat and release take any record for their own.
MutMine(p) == lockFile # NoLock /\ lockFile.filled

\* The comparison refreshOwnedLockHeartbeat and releaseOwnedLock make.
Mine(p) == lockFile = OwnRecord(p)

\* Mutant: the empty state carries the -1 of currentStoredRevision.
MutNoState == [gen |-> 0, revision |-> 0 - 1, applied |-> {}]

\* A missing or unreadable file is read as the empty state.
NoState == [gen |-> 0, revision |-> 0, applied |-> {}]
State == [gen : Nat, revision : Nat, applied : SUBSET Event]

Outside == {"idle", "opening", "fillingOwner", "syncingLock"}
Section == {"refreshing", "heartbeat", "reading", "checking", "pinning",
            "asserting", "renaming"}
Step == Outside \cup Section \cup {"releasing", "unlinking"}

InSection(p) == pc[p] \in Section

Init ==
  /\ kind \in Kind
  /\ lockFile = NoLock
  /\ stored = NoState
  /\ pc = [p \in Proc |-> "idle"]
  /\ attempt = [p \in Proc |-> 0]
  /\ event = [p \in Proc |-> NoEvent]
  /\ base = [p \in Proc |-> NoState]
  /\ pinned = [p \in Proc |-> 0]
  /\ owns = [p \in Proc |-> FALSE]
  /\ acked = {}
  /\ overlapped = FALSE
  /\ misread = FALSE
  /\ faults = 0

Goto(p, step) == pc' = [pc EXCEPT ![p] = step]

\* The call is over, and with it its local variables.
Leave(p) ==
  /\ Goto(p, "idle")
  /\ event' = [event EXCEPT ![p] = NoEvent]
  /\ base' = [base EXCEPT ![p] = NoState]
  /\ pinned' = [pinned EXCEPT ![p] = 0]

\* The local variables of a call that goes on.
Locals == <<event, base, pinned>>

\* Enter the protected section, noting whether somebody is in it already.
Enter(p) ==
  /\ Goto(p, "refreshing")
  /\ overlapped' = (overlapped \/ \E q \in Proc \ {p} : InSection(q))

\* A read of a pinned file fails when a rename replaces it in the middle.
RenameConcurrent(p) ==
  \E q \in Proc \ {p} : pc[q] = "renaming"

\* A system call of the process fails.
Fault == faults < MaxFaults /\ faults' = faults + 1

\* What a read of the state file returns.  The readers turn every failure,
\* of the open, the read or the parse, into the empty state: a fault, or for
\* the pinned reader of the dispatched files a rename in the middle.
Reads(p, seen) ==
  \/ seen = stored /\ UNCHANGED faults
  \/ /\ seen = NoState
     /\ \/ kind = "dispatch" /\ RenameConcurrent(p) /\ UNCHANGED faults
        \/ Fault

\* Note that the process goes on with what a failed read returned.
GoesOnWith(seen) == misread' = (misread \/ seen # stored)

\* Mutant: the check expects the revision the write will produce.
MutUnmoved(p, revision) == revision = base[p].revision + 1

\* Mutant: the revision is not read again.
MutUnchecked(p, revision) == TRUE

\* The revision is still the one the transition was reduced from.
Unmoved(p, revision) == revision = base[p].revision

\* Mutant: the write keeps only the latest event.
MutReduced(p) ==
  [gen |-> stored.gen + 1, revision |-> base[p].revision + 1,
   applied |-> {event[p]}]

\* The file after the rename: the reduced state, whatever was there before.
Reduced(p) ==
  [gen |-> stored.gen + 1, revision |-> base[p].revision + 1,
   applied |-> base[p].applied \cup {event[p]}]

-----------------------------------------------------------------------------
\* withOwnedFileLock: a fresh token, then the exclusive open.
Dispatch(p, e) ==
  /\ pc[p] = "idle"
  /\ attempt[p] < MaxAttempts
  /\ attempt' = [attempt EXCEPT ![p] = @ + 1]
  /\ event' = [event EXCEPT ![p] = e]
  /\ Goto(p, "opening")
  /\ UNCHANGED <<kind, lockFile, stored, base, pinned, owns, acked,
                 overlapped, misread, faults>>

\* openSync with O_EXCL succeeds: the file exists and is still empty.
CreateLock(p) ==
  /\ pc[p] = "opening"
  /\ lockFile = NoLock
  /\ lockFile' = [by |-> p, token |-> attempt[p], filled |-> FALSE]
  /\ owns' = [owns EXCEPT ![p] = TRUE]
  /\ Goto(p, "fillingOwner")
  /\ UNCHANGED <<kind, stored, attempt, event, base, pinned, acked,
                 overlapped, misread, faults>>

\* openSync fails with EEXIST; the `return' in the finally block drops it.
OpenRefused(p) ==
  /\ pc[p] = "opening"
  /\ lockFile # NoLock
  /\ Enter(p)
  /\ UNCHANGED <<kind, lockFile, stored, attempt, event, base, pinned, owns,
                 acked, misread, faults>>

FillOwner(p) ==
  /\ pc[p] = "fillingOwner"
  /\ lockFile' = OwnRecord(p)
  /\ Goto(p, "syncingLock")
  /\ UNCHANGED <<kind, stored, attempt, event, base, pinned, owns, acked,
                 overlapped, misread, faults>>

\* fsync of the file and of its directory, then the section.
SyncLock(p) ==
  /\ pc[p] = "syncingLock"
  /\ Enter(p)
  /\ UNCHANGED <<kind, lockFile, stored, attempt, event, base, pinned, owns,
                 acked, misread, faults>>

\* The write or an fsync fails: the error leaves withOwnedFileLock before
\* its try.  The file stays as it is; when the directory cannot be synced it
\* is unlinked, by path and as far as that succeeds.
FillFails(p) ==
  /\ pc[p] \in {"fillingOwner", "syncingLock"}
  /\ Fault
  /\ lockFile' \in {lockFile, NoLock}
  /\ owns' = [owns EXCEPT ![p] = FALSE]
  /\ Leave(p)
  /\ UNCHANGED <<kind, stored, attempt, acked, overlapped, misread>>

\* refreshOwnedLockHeartbeat reads the record: an empty one does not parse
\* and one being replaced fails its identity check, either throws into the
\* finally block; somebody else's record, or none, is left alone.
Refresh(p) ==
  /\ pc[p] = "refreshing"
  /\ \/ /\ Mine(p)
        /\ Goto(p, "heartbeat")
     \/ /\ ~Mine(p)
        /\ lockFile.filled
        /\ Goto(p, "reading")
     \/ /\ \/ ~lockFile.filled
           \/ \E q \in Proc \ {p} : pc[q] = "heartbeat"
        /\ Goto(p, "releasing")
  /\ UNCHANGED <<kind, lockFile, stored, attempt, event, base, pinned, owns,
                 acked, overlapped, misread, faults>>

\* The heartbeat renames a fresh copy of the owner's record over the file.
Heartbeat(p) ==
  /\ pc[p] = "heartbeat"
  /\ lockFile' = OwnRecord(p)
  /\ Goto(p, "reading")
  /\ UNCHANGED <<kind, stored, attempt, event, base, pinned, owns, acked,
                 overlapped, misread, faults>>

\* dispatch: read, normalise and reduce; an applied event is a duplicate and
\* returns at once.  update: read and reduce, then straight to the rename.
ReadState(p) ==
  /\ pc[p] = "reading"
  /\ \E seen \in {stored, NoState} :
       /\ Reads(p, seen)
       /\ base' = [base EXCEPT ![p] = seen]
       /\ \/ /\ kind = "dispatch"
             /\ event[p] \in seen.applied
             /\ Goto(p, "releasing")
             /\ acked' = acked \cup {event[p]}
             /\ UNCHANGED misread
          \/ /\ kind = "dispatch"
             /\ event[p] \notin seen.applied
             /\ Goto(p, "checking")
             /\ UNCHANGED <<acked, misread>>
          \/ /\ kind = "update"
             /\ Goto(p, "renaming")
             /\ GoesOnWith(seen)
             /\ UNCHANGED acked
  /\ UNCHANGED <<kind, lockFile, stored, attempt, event, pinned, owns,
                 overlapped>>

\* currentStoredRevision, a second read, against the revision reduced from;
\* else start over.
CheckRevision(p) ==
  /\ pc[p] = "checking"
  /\ \E seen \in {stored, NoState} :
       /\ Reads(p, seen)
       /\ \/ /\ Unmoved(p, seen.revision)
             /\ Goto(p, "pinning")
             /\ GoesOnWith(seen)
          \/ /\ ~Unmoved(p, seen.revision)
             /\ Goto(p, "reading")
             /\ UNCHANGED misread
  /\ UNCHANGED <<kind, lockFile, stored, attempt, event, base, pinned, owns,
                 acked, overlapped>>

\* writeProtectedTextFileAtomic opens the file it will replace.
Pin(p) ==
  /\ pc[p] = "pinning"
  /\ \/ /\ pinned' = [pinned EXCEPT ![p] = stored.gen]
        /\ Goto(p, "asserting")
     \/ /\ RenameConcurrent(p)
        /\ Goto(p, "releasing")
        /\ UNCHANGED pinned
  /\ UNCHANGED <<kind, lockFile, stored, attempt, event, base, owns, acked,
                 overlapped, misread, faults>>

\* Before the rename the pinned file must still be the one in place; a file
\* that did not exist is not compared.
AssertPinned(p) ==
  /\ pc[p] = "asserting"
  /\ Goto(p, IF pinned[p] \in {0, stored.gen} THEN "renaming" ELSE "releasing")
  /\ UNCHANGED <<kind, lockFile, stored, attempt, event, base, pinned, owns,
                 acked, overlapped, misread, faults>>

Publish(p) ==
  /\ pc[p] = "renaming"
  /\ stored' = Reduced(p)
  /\ acked' = acked \cup {event[p]}
  /\ Goto(p, "releasing")
  /\ UNCHANGED <<kind, lockFile, attempt, event, base, pinned, owns,
                 overlapped, misread, faults>>

\* releaseOwnedLock: only a record with this owner and token is unlinked;
\* errors of the read are swallowed.
Release(p) ==
  /\ pc[p] = "releasing"
  /\ IF Mine(p) THEN Goto(p, "unlinking") /\ UNCHANGED Locals ELSE Leave(p)
  /\ UNCHANGED <<kind, lockFile, stored, attempt, owns, acked, overlapped,
                 misread, faults>>

\* unlinkSync goes by path, whatever is there by now.
Unlink(p) ==
  /\ pc[p] = "unlinking"
  /\ lockFile' = NoLock
  /\ owns' = [owns EXCEPT ![p] = FALSE]
  /\ Leave(p)
  /\ UNCHANGED <<kind, stored, attempt, acked, overlapped, misread, faults>>

\* A system call of the heartbeat or of the write fails: the error goes
\* through the finally block to the caller.
WorkFails(p) ==
  /\ pc[p] \in {"refreshing", "heartbeat", "pinning", "asserting", "renaming"}
  /\ Fault
  /\ Goto(p, "releasing")
  /\ UNCHANGED <<kind, lockFile, stored, attempt, event, base, pinned, owns,
                 acked, overlapped, misread>>

\* The process dies; files stay as they are, and the slot's next dispatch is
\* a new process with a new token.
Crash(p) ==
  /\ pc[p] # "idle"
  /\ Fault
  /\ owns' = [owns EXCEPT ![p] = FALSE]
  /\ Leave(p)
  /\ UNCHANGED <<kind, lockFile, stored, attempt, acked, overlapped, misread>>

Advance(p) ==
  \/ CreateLock(p) \/ OpenRefused(p) \/ FillOwner(p) \/ SyncLock(p)
  \/ Refresh(p) \/ Heartbeat(p)
  \/ ReadState(p) \/ CheckRevision(p) \/ Pin(p) \/ AssertPinned(p)
  \/ Publish(p) \/ Release(p) \/ Unlink(p)

Next ==
  \E p \in Proc :
    \/ \E e \in Event : Dispatch(p, e)
    \/ Advance(p)
    \/ FillFails(p)
    \/ WorkFails(p)
    \/ Crash(p)

Spec == Init /\ [][Next]_vars

\* The calls are synchronous: once made, only the scheduler delays them.
FairSpec == Spec /\ \A p \in Proc : WF_vars(Advance(p))

-----------------------------------------------------------------------------
TypeOK ==
  /\ kind \in Kind
  /\ lockFile \in LockRecord \cup {NoLock}
  /\ stored \in State
  /\ pc \in [Proc -> Step]
  /\ attempt \in [Proc -> 0 .. MaxAttempts]
  /\ event \in [Proc -> Event \cup {NoEvent}]
  /\ \A p \in Proc : pc[p] # "idle" => event[p] \in Event
  /\ base \in [Proc -> State]
  /\ pinned \in [Proc -> Nat]
  /\ owns \in [Proc -> BOOLEAN]
  /\ acked \subseteq Event
  /\ overlapped \in BOOLEAN
  /\ misread \in BOOLEAN
  /\ faults \in 0 .. MaxFaults

\* The lock file a process created stays its own, under its token, until it
\* releases it itself or dies: no heartbeat, release, crash or restart of
\* anybody else, and no earlier incarnation, replaces or removes it
\* (refreshOwnedLockHeartbeat and releaseOwnedLock act by path).
LockOwnership ==
  \A p \in Proc : owns[p] =>
    /\ lockFile # NoLock
    /\ lockFile.by = p
    /\ lockFile.token = attempt[p]

\* An update that returned is lost in two ways only: two processes were in
\* the section at once, or the file was read as empty and no second read
\* contradicted that (an update's single read, or both reads of a dispatch's
\* round: the revision check catches any one).  No crash, no failed write
\* and no lock file left behind loses one (storage.ts:20-29, serialized-
\* state.ts:65-77).
SoloUpdatesDurable ==
  ~overlapped /\ ~misread => acked \subseteq stored.applied

\* Under the same condition the file only ever moves by one event and one
\* revision on top of what it held: the atomic update the reducers assume.
SoloUpdatesAtomic ==
  [][~overlapped' /\ ~misread' =>
       \E e \in Event :
         stored' = [gen |-> stored.gen + 1, revision |-> stored.revision + 1,
                    applied |-> stored.applied \cup {e}]]_stored

\* What the header of serialized-state.ts says of dispatches: processes never
\* overwrite each other, so whatever a dispatch returned stays in the file.
DispatchesDurable == kind = "dispatch" => acked \subseteq stored.applied

\* A dispatch returns or throws, unless its retry loop is starved for ever:
\* other processes publish, or reads fail, again and again.  The loop has no
\* limit of its own (serialized-state.ts:65-76); the bounds on attempts and
\* faults remove only behaviours that the property excepts.
DispatchReturns ==
  \A p \in Proc :
    \/ []<><<\E q \in Proc \ {p} : Publish(q)>>_vars
    \/ []<><<faults' # faults>>_vars
    \/ pc[p] # "idle" ~> pc[p] = "idle"
=============================================================================
