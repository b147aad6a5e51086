------------------------- MODULE RuntimeResumeProofs -------------------------
(***************************************************************************)
(* Type correctness of RuntimeResume and the safety of its claims, for     *)
(* every number of sessions and candidates and every bound.                *)
(***************************************************************************)
EXTENDS RuntimeResume, TLAPS

\* A handler between its claim and its dispatch knows the candidate.
Targeted ==
  \A s \in Session :
    pc[s] \in {"dispatching", "releasing"} => target[s] \in Candidate

Typed == TypeOK /\ Targeted

\* What makes the expected revision a sound check: nobody has seen a revision
\* still to come, and a session for which the candidates changed has seen an
\* older one.  Every transition must count for it, the refused ones too.
RevisionCounts ==
  \A s \in Session :
    /\ viewRevision[s] <= revision
    /\ s \in changed => viewRevision[s] < revision

-----------------------------------------------------------------------------
\* What Release, the common part of GiveBack and TimedOut, leaves of the type.
LEMMA ReleaseTyped ==
  ASSUME Typed, NEW s \in Session, NEW c \in Candidate, Release(s, c)
  PROVE  /\ revision' \in Nat
         /\ selected' \in Candidate \cup {None}
         /\ disp' \in [Candidate -> Disposition]
         /\ lease' \in [Candidate -> Lease]
         /\ holder' \in [Candidate -> Session \cup {None}]
         /\ ready' \subseteq Candidate
         /\ bound' \subseteq Candidate
         /\ processed' \subseteq EventId
<1>1. ReleaseId(s, c) \in EventId
  BY DEF ReleaseId, EventId
<1>2. CASE UNCHANGED resume
  BY <1>2 DEF Typed, TypeOK, resume, content
<1>3. CASE Commit({ReleaseId(s, c)}) /\ UNCHANGED content
  BY <1>1, <1>3 DEF Typed, TypeOK, Commit, content
<1>4. CASE /\ Commit({ReleaseId(s, c)})
           /\ disp' = [disp EXCEPT ![c] =
                         IF selected = c THEN "selected" ELSE "available"]
           /\ lease' = EndLease(c, "released")
           /\ UNCHANGED <<selected, holder, ready, bound>>
  BY <1>1, <1>4 DEF Typed, TypeOK, Commit, EndLease, Disposition, Lease
<1>. QED  BY <1>2, <1>3, <1>4 DEF Release

\* What a retirement leaves of it.
LEMMA RetireTyped ==
  ASSUME Typed, NEW c \in Candidate, NEW ids \in SUBSET EventId, Retire(c, ids)
  PROVE  /\ revision' \in Nat
         /\ selected' \in Candidate \cup {None}
         /\ disp' \in [Candidate -> Disposition]
         /\ lease' \in [Candidate -> Lease]
         /\ holder' \in [Candidate -> Session \cup {None}]
         /\ ready' \subseteq Candidate
         /\ bound' \subseteq Candidate
         /\ processed' \subseteq EventId
<1>1. CASE Commit(ids) /\ UNCHANGED content
  BY <1>1 DEF Typed, TypeOK, Commit, content
<1>2. CASE /\ Commit(ids)
           /\ disp' = [disp EXCEPT ![c] = "retired"]
           /\ lease' = EndLease(c, "released")
           /\ selected' = Unselect(c)
           /\ UNCHANGED <<holder, ready, bound>>
  BY <1>2 DEF Typed, TypeOK, Commit, EndLease, Unselect, Disposition, Lease
<1>. QED  BY <1>1, <1>2 DEF Retire

\* What a reconciliation leaves of it.
LEMMA ReconciledTyped ==
  ASSUME Typed, NEW source \in Candidate \cup {None}, NEW r \in BOOLEAN,
         Reconciled(source, r)
  PROVE  /\ selected' \in Candidate \cup {None}
         /\ disp' \in [Candidate -> Disposition]
         /\ lease' \in [Candidate -> Lease]
         /\ holder' \in [Candidate -> Session \cup {None}]
         /\ ready' \subseteq Candidate
         /\ bound' \subseteq Candidate
<1>1. \A c \in Candidate : ReconciledDisposition(c) \in Disposition
  BY DEF ReconciledDisposition, Disposition, Typed, TypeOK
<1>2. disp' \in [Candidate -> Disposition]
  BY <1>1 DEF Reconciled, Disposition, Typed, TypeOK
<1>3. lease' \in [Candidate -> Lease] /\ holder' \in [Candidate -> Session \cup {None}]
  BY DEF Reconciled, Lease, Typed, TypeOK
<1>4. /\ selected' \in Candidate \cup {None}
      /\ ready' \subseteq Candidate /\ bound' \subseteq Candidate
  BY DEF Reconciled, Typed, TypeOK
<1>. QED  BY <1>2, <1>3, <1>4

-----------------------------------------------------------------------------
\* The type holds at first.
LEMMA TypedInit == Init => Typed
  BY DEF Init, Typed, TypeOK, Targeted, Disposition, Lease, Step, EventId

\* Every step keeps the type.
LEMMA TypedStep == Typed /\ [Next]_vars => Typed'
<1>. SUFFICES ASSUME Typed, [Next]_vars PROVE Typed'
  OBVIOUS
<1>. USE DEF Typed, Targeted, TypeOK, Step, Goto, None
<1>1. CASE UNCHANGED vars
  BY <1>1 DEF vars, resume, content, continuity, handler, memory, views
<1>2. ASSUME NEW s \in Session, Inspect(s) PROVE Typed'
  BY <1>2 DEF Inspect, resume, content, continuity, handler, memory
<1>3. ASSUME NEW s \in Session, NEW next \in {"idle", "beginning", "clearing"},
             NEW linked \in BOOLEAN, StartHandler(s, next, linked)
      PROVE Typed'
  BY <1>3 DEF StartHandler, ReadFor, Read, Fault, resume, content, continuity, views, memory
<1>4. ASSUME NEW s \in Session, Reconcile(s) PROVE Typed'
  <2>1. /\ Reconciled(seenTurn[s], seenReady[s])
        /\ seenTurn[s] \in Candidate \cup {None}
        /\ seenReady[s] \in BOOLEAN
    BY <1>4 DEF Reconcile
  <2>2. /\ selected' \in Candidate \cup {None}
        /\ disp' \in [Candidate -> Disposition]
        /\ lease' \in [Candidate -> Lease]
        /\ holder' \in [Candidate -> Session \cup {None}]
        /\ ready' \subseteq Candidate
        /\ bound' \subseteq Candidate
    BY <2>1, ReconciledTyped
  <2>3. revision' \in Nat /\ processed' \subseteq EventId
    BY <1>4 DEF Reconcile, Commit
  <2>. QED
    BY <1>4, <2>2, <2>3 DEF Reconcile, Outdate, continuity, memory
<1>5. ASSUME NEW s \in Session, NEW c \in Candidate, BeginTurn(s, c) PROVE Typed'
  BY <1>5 DEF BeginTurn, resume, content, views, memory
<1>6. ASSUME NEW s \in Session, ClearSession(s) PROVE Typed'
  BY <1>6 DEF ClearSession, resume, content, views
<1>7. ASSUME NEW s \in Session, NEW c \in Candidate, RetireAtReset(s, c) PROVE Typed'
  <2>1. {RetireId(c)} \in SUBSET EventId
    BY DEF RetireId, EventId
  <2>2. /\ revision' \in Nat
        /\ selected' \in Candidate \cup {None}
        /\ disp' \in [Candidate -> Disposition]
        /\ lease' \in [Candidate -> Lease]
        /\ holder' \in [Candidate -> Session \cup {None}]
        /\ ready' \subseteq Candidate
        /\ bound' \subseteq Candidate
        /\ processed' \subseteq EventId
    BY <1>7, <2>1, RetireTyped DEF RetireAtReset, resume, content
  <2>. QED
    BY <1>7, <2>2 DEF RetireAtReset, Outdate, continuity, memory
<1>8. ASSUME NEW s \in Session, NEW c \in Candidate, Choose(s, c) PROVE Typed'
  BY <1>8 DEF Choose, Commit, Outdate, content, continuity, handler, memory, Disposition
<1>9. ASSUME NEW s \in Session, NEW c \in Candidate, NEW linked \in BOOLEAN,
             Rebind(s, c, linked)
      PROVE Typed'
  <2>1. CASE Live(c)
    <3>1. /\ bound' = bound \cup {c}
          /\ selected' = c
          /\ UNCHANGED <<disp, lease, holder, ready>>
          /\ Read(s, bound \cup {c}, linked)
          /\ Goto(s, "reconciling")
          /\ after' = [after EXCEPT ![s] = "idle"]
          /\ UNCHANGED <<target, fresh, todo>>
      BY <1>9, <2>1 DEF Rebind
    <3>2. /\ Commit({}) /\ Outdate
          /\ UNCHANGED <<continuity, memory, faults>>
      BY <1>9 DEF Rebind
    <3>. QED
      BY <3>1, <3>2 DEF Read, Commit, Outdate, continuity, memory
  <2>2. CASE ~Live(c)
    BY <1>9, <2>2 DEF Rebind, Commit, Outdate, content, continuity, handler, memory
  <2>. QED  BY <2>1, <2>2
<1>10. ASSUME NEW s \in Session, NEW c \in Candidate, RetireByUser(s, c) PROVE Typed'
  <2>1. /\ revision' \in Nat
        /\ selected' \in Candidate \cup {None}
        /\ disp' \in [Candidate -> Disposition]
        /\ lease' \in [Candidate -> Lease]
        /\ holder' \in [Candidate -> Session \cup {None}]
        /\ ready' \subseteq Candidate
        /\ bound' \subseteq Candidate
        /\ processed' \subseteq EventId
    BY <1>10, RetireTyped DEF RetireByUser
  <2>. QED
    BY <1>10, <2>1 DEF RetireByUser, Outdate, continuity, handler, memory
<1>11. ASSUME NEW s \in Session, NEW c \in Candidate, ClaimGranted(s, c) PROVE Typed'
  <2>1. ClaimId(s, c) \in EventId
    BY DEF ClaimId, EventId
  <2>. QED
    BY <1>11, <2>1 DEF ClaimGranted, GoOn, Commit, Outdate, continuity, memory,
                       Disposition, Lease
<1>12. ASSUME NEW s \in Session, NEW c \in Candidate, ClaimRefused(s, c) PROVE Typed'
  <2>1. ClaimId(s, c) \in EventId
    BY DEF ClaimId, EventId
  <2>. QED
    BY <1>12, <2>1 DEF ClaimRefused, Commit, content, continuity, handler, views, memory
<1>13. ASSUME NEW s \in Session, NEW c \in Candidate, ClaimDuplicate(s, c) PROVE Typed'
  BY <1>13 DEF ClaimDuplicate, GoOn, resume, content, continuity, views, memory
<1>14. ASSUME NEW s \in Session, NEW sent \in SUBSET Candidate, NEW polls \in BOOLEAN,
              Dispatch(s, sent, polls)
       PROVE Typed'
  <2>. DEFINE c == target[s]
              box == IF outbox[c] = "none" /\ c \notin queued
                     THEN [outbox EXCEPT ![c] = "pending"] ELSE outbox
  <2>1. c \in Candidate
    BY <1>14 DEF Dispatch
  <2>2. box \in [Candidate -> {"none", "pending", "attempted", "acknowledged"}]
    OBVIOUS
  <2>3. /\ outbox' = [x \in Candidate |-> IF x \in sent THEN "attempted" ELSE box[x]]
        /\ queued' = IF outbox[c] = "none" THEN queued \cup {c} ELSE queued
    BY <1>14 DEF Dispatch
  <2>4. outbox' \in [Candidate -> {"none", "pending", "attempted", "acknowledged"}]
    BY <2>2, <2>3
  <2>5. queued' \subseteq Candidate
    BY <2>1, <2>3
  <2>6. CASE sent = {} /\ fresh[s]
    BY <1>14, <2>1, <2>4, <2>5, <2>6
       DEF Dispatch, Fault, resume, content, views, memory
  <2>7. CASE ~(sent = {} /\ fresh[s])
    <3>1. EndClaim(s)
      BY <1>14, <2>7 DEF Dispatch
    <3>2. /\ pc' \in [Session -> Step]
          /\ target' \in [Session -> Candidate \cup {None}]
          /\ fresh' \in [Session -> BOOLEAN]
          /\ \A x \in Session :
               pc'[x] \in {"dispatching", "releasing"} => target'[x] \in Candidate
      BY <3>1 DEF EndClaim
    <3>3. /\ binding' \in [Session -> Candidate \cup {None}]
          /\ prior' \in [Session -> Candidate \cup {None}]
          /\ poll' \in [Session -> Candidate \cup {None}]
      <4>1. CASE sent = {}
        BY <1>14, <4>1 DEF Dispatch, memory
      <4>2. CASE sent # {}
        BY <1>14, <2>1, <4>2 DEF Dispatch
      <4>. QED  BY <4>1, <4>2
    <3>4. faults' \in Nat
      BY <1>14 DEF Dispatch, Fault
    <3>. QED
      BY <1>14, <2>4, <2>5, <3>2, <3>3, <3>4
         DEF Dispatch, resume, content, views
  <2>. QED  BY <2>6, <2>7
<1>15. ASSUME NEW s \in Session, GiveBack(s) PROVE Typed'
  <2>1. target[s] \in Candidate
    BY <1>15 DEF GiveBack
  <2>2. /\ revision' \in Nat
        /\ selected' \in Candidate \cup {None}
        /\ disp' \in [Candidate -> Disposition]
        /\ lease' \in [Candidate -> Lease]
        /\ holder' \in [Candidate -> Session \cup {None}]
        /\ ready' \subseteq Candidate
        /\ bound' \subseteq Candidate
        /\ processed' \subseteq EventId
    BY <1>15, <2>1, ReleaseTyped DEF GiveBack
  <2>. QED
    BY <1>15, <2>2 DEF GiveBack, EndClaim, Outdate, continuity, memory
<1>16. ASSUME NEW s \in Session, Accepted(s) PROVE Typed'
  BY <1>16 DEF Accepted, resume, content, continuity, handler, views
<1>17. ASSUME NEW s \in Session, TimedOut(s) PROVE Typed'
  <2>1. poll[s] \in Candidate
    BY <1>17 DEF TimedOut
  <2>2. /\ revision' \in Nat
        /\ selected' \in Candidate \cup {None}
        /\ disp' \in [Candidate -> Disposition]
        /\ lease' \in [Candidate -> Lease]
        /\ holder' \in [Candidate -> Session \cup {None}]
        /\ ready' \subseteq Candidate
        /\ bound' \subseteq Candidate
        /\ processed' \subseteq EventId
    BY <1>17, <2>1, ReleaseTyped DEF TimedOut
  <2>. QED
    BY <1>17, <2>2 DEF TimedOut, Outdate, continuity, handler
<1>18. ASSUME NEW c \in Candidate, MessageStart(c) PROVE Typed'
  BY <1>18 DEF MessageStart, resume, content, handler, views, memory
<1>19. ASSUME NEW c \in Candidate, Consume(c) PROVE Typed'
  BY <1>19 DEF Consume, resume, content, handler, views, memory
<1>20. ASSUME NEW s \in Session, SettleResumed(s) PROVE Typed'
  <2>1. binding[s] \in Candidate
    BY <1>20 DEF SettleResumed
  <2>2. CompletedId(binding[s]) \in EventId
    BY <2>1 DEF CompletedId, EventId
  <2>. QED
    BY <1>20, <2>1, <2>2 DEF SettleResumed, Commit, EndLease, Unselect, Outdate, handler,
                             Disposition, Lease
<1>21. ASSUME NEW s \in Session, SettleTurn(s) PROVE Typed'
  BY <1>21 DEF SettleTurn, resume, content, handler, views, memory
<1>22. ASSUME NEW s \in Session, Crash(s) PROVE Typed'
  BY <1>22 DEF Crash, Fault, resume, content, continuity, views
<1>23. ASSUME NEW s \in Session, NEW linked \in BOOLEAN, Start(s, linked) PROVE Typed'
  <2>1. CASE Preserves(s)
    BY <1>23, <2>1 DEF Start, resume, content, continuity, views, memory
  <2>2. CASE ~Preserves(s)
    <3>1. ReadFor(s, "opening", linked)
      BY <1>23, <2>2 DEF Start
    <3>2. UNCHANGED <<resume, continuity, views, memory, faults>>
      BY <1>23 DEF Start
    <3>. QED
      BY <3>1, <3>2 DEF ReadFor, Read, resume, content, continuity, views, memory
  <2>. QED  BY <2>1, <2>2
<1>24. ASSUME NEW s \in Session, Open(s) PROVE Typed'
  BY <1>24 DEF Open, resume, content, continuity, views, memory
<1>25. ASSUME NEW s \in Session, NEW linked \in BOOLEAN, Reload(s, linked) PROVE Typed'
  BY <1>25 DEF Reload, ReadFor, Read, Fault, resume, content, continuity, views, memory
<1>26. ASSUME NEW s \in Session, Restore(s) PROVE Typed'
  BY <1>26 DEF Restore, resume, content, continuity, views
<1>. HIDE DEF Typed, Targeted, TypeOK, Step, Goto, None
<1>27. ASSUME NEW s \in Session, Process(s) PROVE Typed'
  BY <1>2, <1>3, <1>4, <1>5, <1>6, <1>7, <1>8, <1>9, <1>10, <1>11, <1>12, <1>13,
     <1>14, <1>15, <1>16, <1>17, <1>20, <1>21, <1>22, <1>23, <1>24, <1>25, <1>26,
     <1>27 DEF Process
<1>. QED
  BY <1>1, <1>18, <1>19, <1>27 DEF Next

\* The variables keep their types, whatever the handlers of the processes do
\* between each other's steps.
THEOREM ResumeTypeCorrect == Spec => []TypeOK
<1>1. Spec => []Typed
  BY TypedInit, TypedStep, PTL DEF Spec
<1>. QED  BY <1>1, PTL DEF Typed

-----------------------------------------------------------------------------
\* The steps that commit a transition of runtime-resume.json (or find its id
\* used); every other step but an inspection leaves file and views alone.
FileAction(s) ==
  \/ Reconcile(s) \/ GiveBack(s) \/ TimedOut(s) \/ SettleResumed(s)
  \/ \E c \in Candidate :
       \/ RetireAtReset(s, c) \/ Choose(s, c) \/ RetireByUser(s, c)
       \/ \E linked \in BOOLEAN : Rebind(s, c, linked)
       \/ ClaimGranted(s, c) \/ ClaimRefused(s, c)

\* A step leaves the file alone, is an inspection or one of its transitions.
LEMMA StepKinds ==
  ASSUME [Next]_vars
  PROVE  \/ UNCHANGED <<resume, views>>
         \/ \E s \in Session : Inspect(s) \/ FileAction(s)
<1>1. CASE UNCHANGED vars
  BY <1>1 DEF vars
<1>2. ASSUME NEW c \in Candidate, MessageStart(c) \/ Consume(c)
      PROVE UNCHANGED <<resume, views>>
  BY <1>2 DEF MessageStart, Consume
<1>3. ASSUME NEW s \in Session, Process(s), ~Inspect(s), ~FileAction(s)
      PROVE UNCHANGED <<resume, views>>
  <2>1. CASE ClearSession(s) \/ Accepted(s) \/ SettleTurn(s)
    BY <2>1 DEF ClearSession, Accepted, SettleTurn
  <2>2. CASE Crash(s) \/ Open(s) \/ Restore(s)
    BY <2>2 DEF Crash, Open, Restore
  <2>3. ASSUME NEW linked \in BOOLEAN, Start(s, linked) \/ Reload(s, linked)
        PROVE UNCHANGED <<resume, views>>
    BY <2>3 DEF Start, Reload
  <2>4. ASSUME NEW next \in {"idle", "beginning", "clearing"},
               NEW linked \in BOOLEAN, StartHandler(s, next, linked)
        PROVE UNCHANGED <<resume, views>>
    BY <2>4 DEF StartHandler
  <2>5. ASSUME NEW c \in Candidate, BeginTurn(s, c) \/ ClaimDuplicate(s, c)
        PROVE UNCHANGED <<resume, views>>
    BY <2>5 DEF BeginTurn, ClaimDuplicate
  <2>6. ASSUME NEW sent \in SUBSET Candidate, NEW polls \in BOOLEAN,
               Dispatch(s, sent, polls)
        PROVE UNCHANGED <<resume, views>>
    BY <2>6 DEF Dispatch
  <2>. QED
    BY <1>3, <2>1, <2>2, <2>3, <2>4, <2>5, <2>6 DEF Process, FileAction
<1>. QED
  BY <1>1, <1>2, <1>3 DEF Next

-----------------------------------------------------------------------------
\* What every transition does to the revision and to the views.
Counted ==
  /\ UNCHANGED viewRevision
  /\ revision' \in {revision, revision + 1}
  /\ revision' = revision => UNCHANGED content
  /\ changed' = IF content' = content THEN changed ELSE Session

\* A transition of the file that changes it raises the revision (Counted).
LEMMA FileActionCounted ==
  ASSUME Typed, NEW s \in Session, FileAction(s)
  PROVE  Counted
<1>0. revision \in Nat
  BY DEF Typed, TypeOK
<1>1. CASE Reconcile(s)
  BY <1>0, <1>1 DEF Reconcile, Commit, Outdate, Counted
<1>2. ASSUME NEW c, Release(s, c), Outdate PROVE Counted
  BY <1>0, <1>2 DEF Release, Commit, Outdate, Counted, resume
<1>3. ASSUME NEW c, NEW ids, Retire(c, ids), Outdate PROVE Counted
  BY <1>0, <1>3 DEF Retire, Commit, Outdate, Counted
<1>4. CASE GiveBack(s)
  <2>1. Release(s, target[s]) /\ Outdate
    BY <1>4 DEF GiveBack
  <2>. QED  BY <2>1, <1>2
<1>5. CASE TimedOut(s)
  <2>1. Release(s, poll[s]) /\ Outdate
    BY <1>5 DEF TimedOut
  <2>. QED  BY <2>1, <1>2
<1>6. CASE SettleResumed(s)
  BY <1>0, <1>6 DEF SettleResumed, Commit, Outdate, Counted
<1>7. ASSUME NEW c \in Candidate, RetireAtReset(s, c) PROVE Counted
  <2>1. CASE RetireId(c) \in processed
    BY <1>7, <2>1 DEF RetireAtReset, Outdate, Counted, resume
  <2>2. CASE RetireId(c) \notin processed
    BY <1>7, <2>2, <1>3 DEF RetireAtReset
  <2>. QED  BY <2>1, <2>2
<1>8. ASSUME NEW c \in Candidate, Choose(s, c) PROVE Counted
  BY <1>0, <1>8 DEF Choose, Commit, Outdate, Counted
<1>9. ASSUME NEW c \in Candidate, RetireByUser(s, c) PROVE Counted
  BY <1>9, <1>3 DEF RetireByUser
<1>10. ASSUME NEW c \in Candidate, NEW linked \in BOOLEAN, Rebind(s, c, linked)
       PROVE Counted
  BY <1>0, <1>10 DEF Rebind, Commit, Outdate, Counted
<1>11. ASSUME NEW c \in Candidate, ClaimGranted(s, c) PROVE Counted
  BY <1>0, <1>11 DEF ClaimGranted, Commit, Outdate, Counted
<1>12. ASSUME NEW c \in Candidate, ClaimRefused(s, c) PROVE Counted
  BY <1>0, <1>12 DEF ClaimRefused, Commit, Counted, views
<1>. QED
  BY <1>1, <1>4, <1>5, <1>6, <1>7, <1>8, <1>9, <1>10, <1>11, <1>12 DEF FileAction

\* The revisions are counted from the start.
LEMMA RevisionInit == Init => RevisionCounts
<1>1. Init => revision = 0 /\ viewRevision = [s \in Session |-> 0] /\ changed = {}
  BY DEF Init
<1>2. ASSUME Init, NEW s \in Session
      PROVE viewRevision[s] <= revision /\ (s \in changed => viewRevision[s] < revision)
  <2>1. viewRevision[s] = 0 /\ revision = 0 /\ s \notin changed
    BY <1>1, <1>2
  <2>. QED  BY <2>1
<1>. QED  BY <1>2 DEF RevisionCounts

\* Every step keeps the count of revisions.
LEMMA RevisionStep == Typed /\ RevisionCounts /\ [Next]_vars => RevisionCounts'
<1>. SUFFICES ASSUME Typed, RevisionCounts, [Next]_vars PROVE RevisionCounts'
  OBVIOUS
<1>0. revision \in Nat /\ viewRevision \in [Session -> Nat]
  BY DEF Typed, TypeOK
<1>1. CASE UNCHANGED <<resume, views>>
  BY <1>1 DEF RevisionCounts, resume, views
<1>2. ASSUME NEW s \in Session, Inspect(s) PROVE RevisionCounts'
  BY <1>0, <1>2 DEF Inspect, RevisionCounts, resume
<1>3. ASSUME NEW s \in Session, FileAction(s) PROVE RevisionCounts'
  <2>1. Counted
    BY <1>3, FileActionCounted
  <2>. QED  BY <1>0, <2>1 DEF Counted, RevisionCounts
<1>. QED
  BY <1>1, <1>2, <1>3, StepKinds

\* An id of a claim enters the file with a claim only, granted or refused.
LEMMA ClaimIds ==
  ASSUME Typed, NEW s \in Session, FileAction(s),
         NEW p \in Session, NEW c \in Candidate,
         ClaimId(p, c) \in processed' \ processed
  PROVE  viewRevision[p] = revision
<1>1. \A q \in Session, d \in Candidate : ClaimId(p, c) # ReleaseId(q, d)
  BY DEF ClaimId, ReleaseId
<1>2. \A d \in Candidate : ClaimId(p, c) # CompletedId(d) /\ ClaimId(p, c) # RetireId(d)
  BY DEF ClaimId, CompletedId, RetireId
<1>3. \A q \in Session, d \in Candidate : ClaimId(p, c) = ClaimId(q, d) => p = q
  BY DEF ClaimId
<1>4. ASSUME NEW d \in Candidate, ClaimGranted(s, d) \/ ClaimRefused(s, d)
      PROVE viewRevision[p] = revision
  <2>1. processed' = processed \cup {ClaimId(s, d)} /\ viewRevision[s] = revision
    BY <1>4 DEF ClaimGranted, ClaimRefused, Grantable, Current, Commit
  <2>2. ClaimId(p, c) = ClaimId(s, d)
    BY <2>1
  <2>. QED  BY <1>3, <2>1, <2>2
<1>5. ~Reconcile(s)
  BY DEF Reconcile, Commit
<1>6. ~GiveBack(s)
  BY <1>1 DEF GiveBack, Release, Commit, resume, Typed, Targeted
<1>7. ~TimedOut(s)
  <2>1. poll[s] \in Candidate \cup {None}
    BY DEF Typed, TypeOK
  <2>. QED  BY <1>1, <2>1 DEF TimedOut, Release, Commit, resume
<1>8. ~SettleResumed(s)
  <2>1. binding[s] \in Candidate \cup {None}
    BY DEF Typed, TypeOK
  <2>. QED  BY <1>2, <2>1 DEF SettleResumed, Commit
<1>9. \A d \in Candidate : ~RetireAtReset(s, d)
  BY <1>2 DEF RetireAtReset, Retire, Commit, resume
<1>10. \A d \in Candidate : ~Choose(s, d) /\ ~RetireByUser(s, d)
  BY DEF Choose, RetireByUser, Retire, Commit
<1>11. \A d \in Candidate, linked \in BOOLEAN : ~Rebind(s, d, linked)
  BY DEF Rebind, Commit
<1>. QED
  BY <1>4, <1>5, <1>6, <1>7, <1>8, <1>9, <1>10, <1>11 DEF FileAction

\* A claim, granted or refused, names the revision its session saw last, and
\* no candidate changed since: every transition of every process counts.
THEOREM ClaimsOnInspected == Spec => ClaimOnInspected
<1>1. Spec => [](Typed /\ RevisionCounts)
  BY TypedInit, TypedStep, RevisionInit, RevisionStep, PTL DEF Spec
<1>2. ASSUME Typed, RevisionCounts, [Next]_vars,
             NEW p \in Session, NEW c \in Candidate,
             ClaimId(p, c) \in processed' \ processed
      PROVE p \notin changed
  <2>1. ~UNCHANGED <<resume, views>>
    BY <1>2 DEF resume
  <2>2. \A s \in Session : ~Inspect(s)
    BY <1>2 DEF Inspect, resume
  <2>3. PICK s \in Session : FileAction(s)
    BY <1>2, <2>1, <2>2, StepKinds
  <2>4. viewRevision[p] = revision
    BY <1>2, <2>3, ClaimIds
  <2>. QED
    BY <1>2, <2>4 DEF RevisionCounts, Typed, TypeOK
<1>3. Typed /\ RevisionCounts /\ [Next]_vars =>
        [\A s \in Session, c \in Candidate :
           ClaimId(s, c) \in processed' \ processed => s \notin changed]_vars
  BY <1>2
<1>. QED
  BY <1>1, <1>3, PTL DEF Spec, ClaimOnInspected

-----------------------------------------------------------------------------
\* What a step may do to an active claim (the body of ClaimNotStolen).
Kept ==
  \A c \in Candidate :
    lease[c] = "active" =>
      \/ lease'[c] = "active" /\ holder'[c] = holder[c]
      \/ disp'[c] \in {"completed", "retired"}
      \/ ReleaseId(holder[c], c) \in processed' \ processed

\* The claims agree with the candidates by induction on their own: a release
\* respects another session's claim, a retirement and a completion end the
\* claim they find, and a reconciliation neither drops a candidate whose claim
\* is active nor forgets that it is claimed, whatever turn it read before.
LEMMA ReleaseClaims ==
  ASSUME Typed, ClaimMatchesCandidate, NEW s \in Session, NEW x \in Candidate,
         Release(s, x)
  PROVE  ClaimMatchesCandidate' /\ Kept
<1>1. CASE UNCHANGED content
  BY <1>1 DEF content, ClaimMatchesCandidate, Kept
<1>2. CASE UNCHANGED resume
  BY <1>1, <1>2 DEF resume
<1>3. CASE /\ ReleaseId(s, x) \notin processed
           /\ ~(disp[x] = "absent" \/ ForeignClaim(s, x))
  <2>1. /\ disp' = [disp EXCEPT ![x] =
                      IF selected = x THEN "selected" ELSE "available"]
        /\ lease' = EndLease(x, "released")
        /\ holder' = holder
        /\ processed' = processed \cup {ReleaseId(s, x)}
    BY <1>3 DEF Release, Commit
  <2>2. lease[x] = "active" => holder[x] = s
    BY <1>3 DEF ForeignClaim
  <2>3. ClaimMatchesCandidate'
    BY <2>1 DEF EndLease, ClaimMatchesCandidate, Typed, TypeOK
  <2>4. Kept
    BY <1>3, <2>1, <2>2 DEF EndLease, Kept, Typed, TypeOK
  <2>. QED  BY <2>3, <2>4
<1>. QED
  BY <1>1, <1>2, <1>3 DEF Release

\* The same of a retirement.
LEMMA RetireClaims ==
  ASSUME Typed, ClaimMatchesCandidate, NEW x \in Candidate, NEW ids, Retire(x, ids)
  PROVE  ClaimMatchesCandidate' /\ Kept
<1>1. CASE UNCHANGED content
  BY <1>1 DEF content, ClaimMatchesCandidate, Kept
<1>2. CASE /\ disp' = [disp EXCEPT ![x] = "retired"]
           /\ lease' = EndLease(x, "released")
           /\ holder' = holder
  BY <1>2 DEF EndLease, ClaimMatchesCandidate, Kept, Typed, TypeOK
<1>. QED
  BY <1>1, <1>2 DEF Retire

\* The same of a reconciliation.
LEMMA ReconcileClaims ==
  ASSUME Typed, ClaimMatchesCandidate, NEW source, NEW r, Reconciled(source, r)
  PROVE  ClaimMatchesCandidate' /\ Kept
<1>1. \A c \in Candidate :
        /\ lease'[c] = IF c \in Dropped(source) THEN "none" ELSE lease[c]
        /\ holder'[c] = IF c \in Dropped(source) THEN None ELSE holder[c]
        /\ disp'[c] = IF c = source THEN ReconciledDisposition(c)
                      ELSE IF c \in Dropped(source) THEN "absent" ELSE disp[c]
  BY DEF Reconciled
<1>2. \A c \in Candidate : lease[c] = "active" => c \notin Dropped(source)
  BY DEF Dropped, ClaimMatchesCandidate
<1>3. \A c \in Candidate :
        /\ lease[c] = "active" => ReconciledDisposition(c) = disp[c]
        /\ ReconciledDisposition(c) = "claimed" => lease[c] = "active"
  BY DEF ReconciledDisposition, ClaimMatchesCandidate
<1>4. \A c \in Candidate : c \in Dropped(source) => c # source
  BY DEF Dropped
<1>5. Kept
  BY <1>1, <1>2 DEF Kept
<1>6. ClaimMatchesCandidate'
  BY <1>1, <1>2, <1>3, <1>4 DEF ClaimMatchesCandidate
<1>. QED  BY <1>5, <1>6

\* The same of every transition of the file.
LEMMA FileActionClaims ==
  ASSUME Typed, ClaimMatchesCandidate, NEW s \in Session, FileAction(s)
  PROVE  ClaimMatchesCandidate' /\ Kept
<1>1. CASE UNCHANGED <<disp, lease, holder>>
  BY <1>1 DEF ClaimMatchesCandidate, Kept
<1>2. CASE Reconcile(s)
  BY <1>2, ReconcileClaims DEF Reconcile
<1>3. CASE GiveBack(s)
  <2>1. target[s] \in Candidate /\ Release(s, target[s])
    BY <1>3 DEF GiveBack, Typed, Targeted
  <2>. QED  BY <2>1, ReleaseClaims
<1>4. CASE TimedOut(s)
  <2>1. poll[s] \in Candidate /\ Release(s, poll[s])
    BY <1>4 DEF TimedOut, Typed, TypeOK
  <2>. QED  BY <2>1, ReleaseClaims
<1>5. CASE SettleResumed(s)
  <2>. DEFINE x == binding[s]
  <2>1. /\ disp' = [disp EXCEPT ![x] = "completed"]
        /\ lease' = EndLease(x, "consumed")
        /\ holder' = holder
    BY <1>5 DEF SettleResumed
  <2>. QED
    BY <2>1 DEF EndLease, ClaimMatchesCandidate, Kept, Typed, TypeOK
<1>6. ASSUME NEW x \in Candidate, RetireAtReset(s, x)
      PROVE ClaimMatchesCandidate' /\ Kept
  <2>1. CASE UNCHANGED resume
    BY <1>1, <2>1 DEF resume, content
  <2>2. CASE Retire(x, {RetireId(x)})
    BY <2>2, RetireClaims
  <2>. QED  BY <1>6, <2>1, <2>2 DEF RetireAtReset
<1>7. ASSUME NEW x \in Candidate, Choose(s, x)
      PROVE ClaimMatchesCandidate' /\ Kept
  BY <1>7 DEF Choose, Live, content, ClaimMatchesCandidate, Kept, Typed, TypeOK
<1>8. ASSUME NEW x \in Candidate, RetireByUser(s, x)
      PROVE ClaimMatchesCandidate' /\ Kept
  BY <1>8, RetireClaims DEF RetireByUser
<1>9. ASSUME NEW x \in Candidate, NEW linked \in BOOLEAN, Rebind(s, x, linked)
      PROVE UNCHANGED <<disp, lease, holder>>
  BY <1>9 DEF Rebind, content
<1>10. ASSUME NEW x \in Candidate, ClaimGranted(s, x)
       PROVE ClaimMatchesCandidate' /\ Kept
  <2>1. /\ lease[x] # "active"
        /\ disp' = [disp EXCEPT ![x] = "claimed"]
        /\ lease' = [lease EXCEPT ![x] = "active"]
        /\ holder' = [holder EXCEPT ![x] = s]
    BY <1>10 DEF ClaimGranted, Grantable
  <2>. QED
    BY <2>1 DEF ClaimMatchesCandidate, Kept, Typed, TypeOK
<1>11. ASSUME NEW x \in Candidate, ClaimRefused(s, x)
       PROVE UNCHANGED <<disp, lease, holder>>
  BY <1>11 DEF ClaimRefused, content
<1>. QED
  BY <1>1, <1>2, <1>3, <1>4, <1>5, <1>6, <1>7, <1>8, <1>9, <1>10, <1>11 DEF FileAction

\* There is no claim at first.
LEMMA ClaimsInit == Init => ClaimMatchesCandidate
<1>. SUFFICES ASSUME Init, NEW c \in Candidate
              PROVE disp[c] = "absent" /\ lease[c] = "none"
  BY DEF ClaimMatchesCandidate
<1>. QED  BY DEF Init

\* Every step keeps claim and candidate in agreement.
LEMMA ClaimsStep ==
  Typed /\ ClaimMatchesCandidate /\ [Next]_vars => ClaimMatchesCandidate' /\ Kept
<1>. SUFFICES ASSUME Typed, ClaimMatchesCandidate, [Next]_vars
              PROVE ClaimMatchesCandidate' /\ Kept
  OBVIOUS
<1>1. CASE UNCHANGED resume
  BY <1>1 DEF resume, content, ClaimMatchesCandidate, Kept
<1>2. ASSUME NEW s \in Session, Inspect(s) \/ FileAction(s)
      PROVE ClaimMatchesCandidate' /\ Kept
  <2>1. CASE Inspect(s)
    BY <1>1, <2>1 DEF Inspect
  <2>2. CASE FileAction(s)
    BY <2>2, FileActionClaims
  <2>. QED  BY <1>2, <2>1, <2>2
<1>. QED
  BY <1>1, <1>2, StepKinds

\* Claim and candidate agree in every state, restarts, timeouts, stale
\* reconciliations and retirements of other processes included.
THEOREM ClaimsMatchCandidates == Spec => []ClaimMatchesCandidate
BY TypedInit, TypedStep, ClaimsInit, ClaimsStep, PTL DEF Spec

\* No step of any process ends a session's claim but its own release, the
\* candidate's completion or its retirement.
THEOREM ClaimsNotStolen == Spec => ClaimNotStolen
<1>1. Spec => [](Typed /\ ClaimMatchesCandidate)
  BY TypedInit, TypedStep, ClaimsInit, ClaimsStep, PTL DEF Spec
<1>2. Typed /\ ClaimMatchesCandidate /\ [Next]_vars =>
        [\A c \in Candidate :
           lease[c] = "active" =>
             \/ lease'[c] = "active" /\ holder'[c] = holder[c]
             \/ disp'[c] \in {"completed", "retired"}
             \/ ReleaseId(holder[c], c) \in processed' \ processed]_vars
  BY ClaimsStep DEF Kept
<1>. QED
  BY <1>1, <1>2, PTL DEF Spec, ClaimNotStolen
=============================================================================
