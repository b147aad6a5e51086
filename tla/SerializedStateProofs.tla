------------------------ MODULE SerializedStateProofs ------------------------
(***************************************************************************)
(* For any number of processes, events and faults: the lock file of a      *)
(* process stays its own until it releases it, and without an overlap or a *)
(* misread file the updates of the file are atomic and durable.            *)
(***************************************************************************)
EXTENDS SerializedState, TLAPS

\* The file is the record p's latest dispatch created.
CreatedBy(p) ==
  /\ lockFile # NoLock
  /\ lockFile.by = p
  /\ lockFile.token = attempt[p]

\* A record on disk is the owner's, no record carries a token of the future,
\* and a record with the current token exists exactly while it is owned.
LockInv ==
  \A p \in Proc :
    /\ lockFile # NoLock /\ lockFile.by = p => lockFile.token <= attempt[p]
    /\ pc[p] = "opening" /\ lockFile # NoLock /\ lockFile.by = p
         => lockFile.token < attempt[p]
    /\ pc[p] \in {"idle", "opening"} => ~owns[p]
    /\ pc[p] \in {"fillingOwner", "syncingLock", "heartbeat", "unlinking"}
         => owns[p]
    /\ owns[p] => CreatedBy(p) /\ (lockFile.filled <=> pc[p] # "fillingOwner")
    /\ pc[p] # "idle" /\ CreatedBy(p) => owns[p]
    /\ pc[p] # "idle" => attempt[p] > 0

\* Only the state nobody has written yet has the revision of an empty one,
\* so that the revision check tells a file from a failed read of it.
FileInv == stored = NoState \/ stored.revision > 0

\* Without an overlap there is one process in the section, and what it
\* checked to be unmoved is what the file holds.
SoloInv ==
  /\ ~overlapped =>
       \A p, q \in Proc : InSection(p) /\ InSection(q) => p = q
  /\ ~overlapped /\ ~misread =>
       /\ \A p \in Proc :
            /\ pc[p] = "checking" => base[p] \in {stored, NoState}
            /\ pc[p] \in {"pinning", "asserting", "renaming"}
                 => base[p] = stored
       /\ acked \subseteq stored.applied

IInv == TypeOK /\ LockInv /\ FileInv /\ SoloInv

-----------------------------------------------------------------------------
\* The variables are in their types in every reachable state (the module's
\* data model of withOwnedFileLock and dispatchSerializedStateUpdate).
LEMMA TypeStep == TypeOK /\ [Next]_vars => TypeOK'
<1> SUFFICES ASSUME TypeOK, [Next]_vars PROVE TypeOK'
  OBVIOUS
<1> USE SerializedAssumption
<1> USE DEF TypeOK, Kind, LockRecord, State, Step, Outside, Section, Goto,
            NoState, NoLock, NoEvent, Leave, Locals, Fault
<1>1. CASE UNCHANGED vars
  BY <1>1 DEF vars
<1>2. ASSUME NEW p \in Proc, NEW e \in Event, Dispatch(p, e) PROVE TypeOK'
  BY <1>2 DEF Dispatch
<1>3. ASSUME NEW p \in Proc, CreateLock(p) PROVE TypeOK'
  BY <1>3 DEF CreateLock
<1>4. ASSUME NEW p \in Proc, OpenRefused(p) PROVE TypeOK'
  BY <1>4 DEF OpenRefused, Enter
<1>5. ASSUME NEW p \in Proc, FillOwner(p) PROVE TypeOK'
  BY <1>5 DEF FillOwner, OwnRecord
<1>6. ASSUME NEW p \in Proc, FillFails(p) PROVE TypeOK'
  BY <1>6 DEF FillFails
<1>7. ASSUME NEW p \in Proc, Refresh(p) PROVE TypeOK'
  BY <1>7 DEF Refresh
<1>8. ASSUME NEW p \in Proc, Heartbeat(p) PROVE TypeOK'
  BY <1>8 DEF Heartbeat, OwnRecord
<1>9. ASSUME NEW p \in Proc, ReadState(p) PROVE TypeOK'
  <2>1. PICK seen \in {stored, NoState} :
          /\ Reads(p, seen)
          /\ base' = [base EXCEPT ![p] = seen]
          /\ \/ Goto(p, "releasing") /\ acked' = acked \cup {event[p]}
                                    /\ UNCHANGED misread
             \/ Goto(p, "checking") /\ UNCHANGED <<acked, misread>>
             \/ Goto(p, "renaming") /\ GoesOnWith(seen) /\ UNCHANGED acked
    BY <1>9 DEF ReadState
  <2>2. /\ pc[p] # "idle"
        /\ UNCHANGED <<kind, lockFile, stored, attempt, event, pinned, owns,
                       overlapped>>
    BY <1>9 DEF ReadState
  <2>3. faults' \in 0 .. MaxFaults
    BY <2>1 DEF Reads
  <2>4. misread' \in BOOLEAN /\ acked' \subseteq Event
    BY <2>1, <2>2 DEF GoesOnWith
  <2> QED
    BY <2>1, <2>2, <2>3, <2>4
<1>10. ASSUME NEW p \in Proc, CheckRevision(p) PROVE TypeOK'
  <2>1. PICK seen \in {stored, NoState} :
          /\ Reads(p, seen)
          /\ \/ Goto(p, "pinning") /\ GoesOnWith(seen)
             \/ Goto(p, "reading") /\ UNCHANGED misread
    BY <1>10 DEF CheckRevision
  <2>2. /\ pc[p] # "idle"
        /\ UNCHANGED <<kind, lockFile, stored, attempt, event, base, pinned,
                       owns, acked, overlapped>>
    BY <1>10 DEF CheckRevision
  <2>3. faults' \in 0 .. MaxFaults
    BY <2>1 DEF Reads
  <2>4. misread' \in BOOLEAN
    BY <2>1 DEF GoesOnWith
  <2> QED
    BY <2>1, <2>2, <2>3, <2>4
<1>11. ASSUME NEW p \in Proc, Pin(p) PROVE TypeOK'
  BY <1>11 DEF Pin
<1>12. ASSUME NEW p \in Proc, AssertPinned(p) PROVE TypeOK'
  BY <1>12 DEF AssertPinned
<1>13. ASSUME NEW p \in Proc, Publish(p) PROVE TypeOK'
  BY <1>13 DEF Publish, Reduced
<1>14. ASSUME NEW p \in Proc, Release(p) PROVE TypeOK'
  <2>1. CASE Mine(p)
    BY <1>14, <2>1 DEF Release
  <2>2. CASE ~Mine(p)
    <3>1. /\ Leave(p)
          /\ UNCHANGED <<kind, lockFile, stored, attempt, owns, acked,
                         overlapped, misread, faults>>
      BY <1>14, <2>2 DEF Release
    <3>2. NoState \in State
      OBVIOUS
    <3> QED
      BY <3>1, <3>2
  <2> QED
    BY <2>1, <2>2
<1>15. ASSUME NEW p \in Proc, Unlink(p) PROVE TypeOK'
  BY <1>15 DEF Unlink
<1>16. ASSUME NEW p \in Proc, Crash(p) PROVE TypeOK'
  BY <1>16 DEF Crash
<1>17. ASSUME NEW p \in Proc, SyncLock(p) PROVE TypeOK'
  BY <1>17 DEF SyncLock, Enter
<1>18. ASSUME NEW p \in Proc, WorkFails(p) PROVE TypeOK'
  BY <1>18 DEF WorkFails
<1> QED
  BY <1>1, <1>2, <1>3, <1>4, <1>5, <1>6, <1>7, <1>8, <1>9, <1>10, <1>11, <1>12, <1>13, <1>14, <1>15, <1>16, <1>17, <1>18 DEF Next, Advance

\* Each step keeps the ownership of the lock file: a creation gives it to one
\* process, and only that process replaces or removes it.
LEMMA LockStep == TypeOK /\ LockInv /\ [Next]_vars => LockInv'
<1> SUFFICES ASSUME TypeOK, LockInv, [Next]_vars PROVE LockInv'
  OBVIOUS
<1> USE DEF LockInv, CreatedBy, TypeOK, Step, Outside, Section, Goto, Leave,
            Locals
<1>0. /\ lockFile.token \in Nat
      /\ \A p \in Proc : attempt[p] \in Nat
  BY SerializedAssumption DEF LockRecord, NoLock
<1>1. CASE UNCHANGED vars
  BY <1>1 DEF vars
<1>2. ASSUME NEW p \in Proc, NEW e \in Event, Dispatch(p, e) PROVE LockInv'
  BY <1>0, <1>2 DEF Dispatch
<1>3. ASSUME NEW p \in Proc, CreateLock(p) PROVE LockInv'
  <2>1. /\ lockFile' # NoLock
        /\ lockFile'.by = p
        /\ lockFile'.token = attempt[p]
        /\ ~lockFile'.filled
    BY <1>0, <1>3 DEF CreateLock, NoLock
  <2>2. \A q \in Proc : ~owns[q]
    BY <1>3 DEF CreateLock
  <2> QED
    BY <1>0, <1>3, <2>1, <2>2 DEF CreateLock
<1>4. ASSUME NEW p \in Proc, OpenRefused(p) PROVE LockInv'
  BY <1>4 DEF OpenRefused, Enter
<1>5. ASSUME NEW p \in Proc, FillOwner(p) PROVE LockInv'
  <2>1. /\ lockFile' # NoLock
        /\ lockFile'.by = p
        /\ lockFile'.token = attempt[p]
        /\ lockFile'.filled = TRUE
    BY <1>0, <1>5 DEF FillOwner, OwnRecord, NoLock
  <2>2. owns[p] /\ CreatedBy(p)
    BY <1>5 DEF FillOwner
  <2> QED
    BY <1>0, <1>5, <2>1, <2>2 DEF FillOwner
<1>6. ASSUME NEW p \in Proc, FillFails(p) PROVE LockInv'
  <2>1. owns[p]
    BY <1>6 DEF FillFails
  <2> QED
    BY <1>0, <1>6, <2>1 DEF FillFails
<1>7. ASSUME NEW p \in Proc, Refresh(p) PROVE LockInv'
  BY <1>0, <1>7 DEF Refresh, Mine, OwnRecord, NoLock
<1>8. ASSUME NEW p \in Proc, Heartbeat(p) PROVE LockInv'
  <2>1. /\ lockFile' # NoLock
        /\ lockFile'.by = p
        /\ lockFile'.token = attempt[p]
        /\ lockFile'.filled = TRUE
    BY <1>0, <1>8 DEF Heartbeat, OwnRecord, NoLock
  <2>2. owns[p] /\ CreatedBy(p)
    BY <1>8 DEF Heartbeat
  <2> QED
    BY <1>0, <1>8, <2>1, <2>2 DEF Heartbeat
<1>9. ASSUME NEW p \in Proc, ReadState(p) PROVE LockInv'
  BY <1>9 DEF ReadState
<1>10. ASSUME NEW p \in Proc, CheckRevision(p) PROVE LockInv'
  BY <1>10 DEF CheckRevision
<1>11. ASSUME NEW p \in Proc, Pin(p) PROVE LockInv'
  BY <1>11 DEF Pin
<1>12. ASSUME NEW p \in Proc, AssertPinned(p) PROVE LockInv'
  BY <1>12 DEF AssertPinned
<1>13. ASSUME NEW p \in Proc, Publish(p) PROVE LockInv'
  BY <1>13 DEF Publish
<1>14. ASSUME NEW p \in Proc, Release(p) PROVE LockInv'
  <2>1. CASE Mine(p)
    <3>1. CreatedBy(p)
      BY <1>0, <1>14, <2>1 DEF Release, Mine, OwnRecord, NoLock
    <3> QED
      BY <1>14, <2>1, <3>1 DEF Release
  <2>2. CASE ~Mine(p)
    <3>1. ~owns[p]
      <4>1. owns[p] => lockFile \in LockRecord /\ lockFile.filled = TRUE
        BY <1>14 DEF Release, LockRecord
      <4>2. owns[p] => lockFile = OwnRecord(p)
        BY <4>1 DEF OwnRecord, LockRecord
      <4> QED
        BY <2>2, <4>2 DEF Mine
    <3> QED
      BY <1>14, <2>2, <3>1 DEF Release
  <2> QED
    BY <2>1, <2>2
<1>15. ASSUME NEW p \in Proc, Unlink(p) PROVE LockInv'
  BY <1>15 DEF Unlink
<1>16. ASSUME NEW p \in Proc, Crash(p) PROVE LockInv'
  BY <1>16 DEF Crash
<1>17. ASSUME NEW p \in Proc, SyncLock(p) PROVE LockInv'
  BY <1>17 DEF SyncLock, Enter
<1>18. ASSUME NEW p \in Proc, WorkFails(p) PROVE LockInv'
  BY <1>18 DEF WorkFails
<1> HIDE DEF LockInv, TypeOK
<1> QED
  BY <1>1, <1>2, <1>3, <1>4, <1>5, <1>6, <1>7, <1>8, <1>9, <1>10, <1>11, <1>12, <1>13, <1>14, <1>15, <1>16, <1>17, <1>18 DEF Next, Advance

\* Without an overlap nobody moves the file between a process's read and its
\* rename, so each write lands on what it was reduced from.
LEMMA SoloStep ==
  TypeOK /\ FileInv /\ SoloInv /\ [Next]_vars => FileInv' /\ SoloInv'
<1> SUFFICES ASSUME TypeOK, FileInv, SoloInv, [Next]_vars
             PROVE  FileInv' /\ SoloInv'
  OBVIOUS
<1> DEFINE Good == FileInv' /\ SoloInv'
<1> USE DEF FileInv, SoloInv, InSection, Section, Goto, TypeOK, Step, Outside,
            Leave, Locals
<1>1. CASE UNCHANGED vars
  BY <1>1 DEF vars
<1>2. ASSUME NEW p \in Proc, NEW e \in Event, Dispatch(p, e) PROVE Good
  BY <1>2 DEF Dispatch
<1>3. ASSUME NEW p \in Proc, CreateLock(p) PROVE Good
  BY <1>3 DEF CreateLock
<1>4. ASSUME NEW p \in Proc, OpenRefused(p) PROVE Good
  BY <1>4 DEF OpenRefused, Enter
<1>5. ASSUME NEW p \in Proc, FillOwner(p) PROVE Good
  BY <1>5 DEF FillOwner
<1>6. ASSUME NEW p \in Proc, FillFails(p) PROVE Good
  BY <1>6 DEF FillFails
<1>7. ASSUME NEW p \in Proc, Refresh(p) PROVE Good
  BY <1>7 DEF Refresh
<1>8. ASSUME NEW p \in Proc, Heartbeat(p) PROVE Good
  BY <1>8 DEF Heartbeat
<1>9. ASSUME NEW p \in Proc, ReadState(p) PROVE Good
  <2>1. PICK seen \in {stored, NoState} :
          /\ Reads(p, seen)
          /\ base' = [base EXCEPT ![p] = seen]
          /\ \/ /\ event[p] \in seen.applied
                /\ Goto(p, "releasing")
                /\ acked' = acked \cup {event[p]}
                /\ UNCHANGED misread
             \/ Goto(p, "checking") /\ UNCHANGED <<acked, misread>>
             \/ Goto(p, "renaming") /\ GoesOnWith(seen) /\ UNCHANGED acked
    BY <1>9 DEF ReadState
  <2>2. pc[p] = "reading" /\ UNCHANGED <<stored, overlapped>>
    BY <1>9 DEF ReadState
  <2>3. FileInv'
    BY <2>2
  <2>4. ~overlapped' =>
          \A q, r \in Proc : InSection(q)' /\ InSection(r)' => q = r
    BY <2>1, <2>2
  <2>5. ASSUME ~overlapped', ~misread'
        PROVE  /\ \A q \in Proc :
                    /\ pc'[q] = "checking" => base'[q] \in {stored', NoState}
                    /\ pc'[q] \in {"pinning", "asserting", "renaming"}
                         => base'[q] = stored'
               /\ acked' \subseteq stored'.applied
    <3>1. ~misread /\ ~overlapped
      BY <2>1, <2>2, <2>5 DEF GoesOnWith
    <3>2. \A q \in Proc \ {p} : pc'[q] \notin Section
      BY <2>1, <2>2, <3>1
    <3>3. event[p] \in NoState.applied => FALSE
      BY DEF NoState
    <3>4. acked' \subseteq stored'.applied
      BY <2>1, <2>2, <3>1, <3>3
    <3>5. pc'[p] = "renaming" => base'[p] = stored'
      BY <2>1, <2>2, <2>5 DEF GoesOnWith
    <3>6. /\ pc'[p] \notin {"pinning", "asserting"}
          /\ base'[p] \in {stored', NoState}
      BY <2>1, <2>2
    <3> QED
      BY <3>2, <3>4, <3>5, <3>6
  <2> QED
    BY <2>3, <2>4, <2>5
<1>10. ASSUME NEW p \in Proc, CheckRevision(p) PROVE Good
  <2>1. PICK seen \in {stored, NoState} :
          \/ /\ seen.revision = base[p].revision
             /\ Goto(p, "pinning")
             /\ GoesOnWith(seen)
          \/ Goto(p, "reading") /\ UNCHANGED misread
    BY <1>10 DEF CheckRevision, Unmoved
  <2>2. /\ pc[p] = "checking"
        /\ UNCHANGED <<stored, base, acked, overlapped>>
    BY <1>10 DEF CheckRevision
  <2>3. FileInv'
    BY <2>2
  <2>4. ~overlapped' =>
          \A q, r \in Proc : InSection(q)' /\ InSection(r)' => q = r
    BY <2>1, <2>2
  <2>5. ASSUME ~overlapped', ~misread'
        PROVE  /\ \A q \in Proc :
                    /\ pc'[q] = "checking" => base'[q] \in {stored', NoState}
                    /\ pc'[q] \in {"pinning", "asserting", "renaming"}
                         => base'[q] = stored'
               /\ acked' \subseteq stored'.applied
    <3>1. ~misread /\ ~overlapped
      BY <2>1, <2>2, <2>5 DEF GoesOnWith
    <3>2. \A q \in Proc \ {p} : pc'[q] \notin Section
      BY <2>1, <2>2, <3>1
    <3>3. ASSUME pc'[p] = "pinning" PROVE base[p] = stored
      <4>1. seen = stored /\ stored.revision = base[p].revision
        BY <2>1, <2>2, <2>5, <3>3 DEF GoesOnWith
      <4>2. base[p] \in {stored, NoState}
        BY <2>2, <3>1
      <4>3. NoState.revision = 0
        BY DEF NoState
      <4> QED
        BY <4>1, <4>2, <4>3
    <3>4. pc'[p] \in {"pinning", "reading"}
      BY <2>1, <2>2
    <3> QED
      BY <2>2, <3>1, <3>2, <3>3, <3>4
  <2> QED
    BY <2>3, <2>4, <2>5
<1>11. ASSUME NEW p \in Proc, Pin(p) PROVE Good
  BY <1>11 DEF Pin
<1>12. ASSUME NEW p \in Proc, AssertPinned(p) PROVE Good
  BY <1>12 DEF AssertPinned
<1>13. ASSUME NEW p \in Proc, Publish(p) PROVE Good
  BY <1>13 DEF Publish, Reduced, State, NoState
<1>14. ASSUME NEW p \in Proc, Release(p) PROVE Good
  BY <1>14 DEF Release
<1>15. ASSUME NEW p \in Proc, Unlink(p) PROVE Good
  BY <1>15 DEF Unlink
<1>16. ASSUME NEW p \in Proc, Crash(p) PROVE Good
  BY <1>16 DEF Crash
<1>17. ASSUME NEW p \in Proc, SyncLock(p) PROVE Good
  BY <1>17 DEF SyncLock, Enter
<1>18. ASSUME NEW p \in Proc, WorkFails(p) PROVE Good
  BY <1>18 DEF WorkFails
<1> HIDE DEF FileInv, SoloInv, TypeOK
<1> QED
  BY <1>1, <1>2, <1>3, <1>4, <1>5, <1>6, <1>7, <1>8, <1>9, <1>10, <1>11, <1>12, <1>13, <1>14, <1>15, <1>16, <1>17, <1>18 DEF Next, Advance

\* The initial state: no lock file, nothing acknowledged, nobody inside.
LEMMA InitIInv == Init => IInv
<1> SUFFICES ASSUME Init PROVE IInv
  OBVIOUS
<1>1. NoState \in State
  BY DEF NoState, State
<1>2. TypeOK
  <2>1. 0 \in Nat /\ 0 \in 0 .. MaxAttempts /\ 0 \in 0 .. MaxFaults
    BY SerializedAssumption
  <2>2. pc \in [Proc -> Step]
    BY DEF Init, Step, Outside
  <2>3. base \in [Proc -> State]
    BY <1>1 DEF Init
  <2> QED
    BY <1>1, <2>1, <2>2, <2>3, Zenon DEF Init, TypeOK
<1>3. LockInv
  BY DEF Init, LockInv, CreatedBy
<1>4. SoloInv
  BY DEF Init, SoloInv, InSection, Section
<1>5. FileInv
  BY DEF Init, FileInv
<1> QED
  BY <1>2, <1>3, <1>4, <1>5 DEF IInv

\* Type correctness, lock ownership and solo exclusion together.
THEOREM Inductive == Spec => []IInv
<1>1. IInv /\ [Next]_vars => IInv'
  BY TypeStep, LockStep, SoloStep DEF IInv
<1> QED
  BY InitIInv, <1>1, PTL DEF Spec

\* The variables keep their types (withOwnedFileLock, serialized-state.ts).
THEOREM TypeCorrect == Spec => []TypeOK
<1>1. IInv => TypeOK
  BY DEF IInv
<1> QED
  BY <1>1, Inductive, PTL

\* Nobody but its creator replaces or removes a lock file: the owner and
\* token comparison of releaseOwnedLock and refreshOwnedLockHeartbeat is
\* enough although both act by path.
THEOREM LockOwned == Spec => []LockOwnership
<1>1. IInv => LockOwnership
  BY DEF IInv, LockInv, LockOwnership, CreatedBy
<1> QED
  BY <1>1, Inductive, PTL

\* Whatever crashes or fails, a returned dispatch stays in the file unless
\* two processes were in the section at once or the file was read as empty
\* and nothing contradicted it: a dispatch's second read (currentStored-
\* Revision) makes up for any one failed read.
THEOREM SoloDurable == Spec => []SoloUpdatesDurable
<1>1. IInv => SoloUpdatesDurable
  BY DEF IInv, SoloInv, SoloUpdatesDurable
<1> QED
  BY <1>1, Inductive, PTL

\* Under the same condition each change of the file is one event and one
\* revision on top of its content: the atomic update reducers rely on.
THEOREM SoloAtomic == Spec => SoloUpdatesAtomic
<1> DEFINE OneEvent ==
      ~overlapped' /\ ~misread' =>
        \E e \in Event :
          stored' = [gen |-> stored.gen + 1, revision |-> stored.revision + 1,
                     applied |-> stored.applied \cup {e}]
<1>1. IInv /\ [Next]_vars => [OneEvent]_stored
  <2> SUFFICES ASSUME IInv, [Next]_vars, stored' # stored, ~overlapped', ~misread'
               PROVE  OneEvent
    OBVIOUS
  <2>1. PICK p \in Proc : Publish(p)
    BY DEF Next, Advance, vars, Dispatch, CreateLock, OpenRefused, FillOwner,
           SyncLock, FillFails, Refresh, Heartbeat, ReadState, CheckRevision,
           Pin, AssertPinned, Release, Unlink, WorkFails, Crash
  <2>2. base[p] = stored /\ event[p] \in Event
    BY <2>1 DEF Publish, IInv, SoloInv, TypeOK
  <2> QED
    BY <2>1, <2>2 DEF Publish, Reduced
<1> QED
  BY <1>1, Inductive, PTL DEF Spec, SoloUpdatesAtomic
=============================================================================
