-------------------------- MODULE ContextContinuity --------------------------
(***************************************************************************)
(* The reducer of context-continuity.json: turn identity, compactions and  *)
(* the outbox and inbox of hidden continuations, as functions from the     *)
(* stored state to the next one.  SerializedState says how a transition    *)
(* reaches the file; RequestCoordinator says which events are dispatched.  *)
(*                                                                         *)
(* A turn is named by its request (turnId is `turn-' and the request id).  *)
(* An event id is a tuple of the parts contextContinuityEventId hashes;    *)
(* ids that contain a clock or a counter are always fresh and are not      *)
(* stored.  The caps on the number of compactions, continuations and       *)
(* processed ids (32, 64, 128) are not reached at the bounds of the runs.  *)
(***************************************************************************)
EXTENDS Naturals, Sequences

CONSTANTS
  Session,    \* session ids of the host
  Request,    \* request ids
  Key         \* what makes compactions of one turn differ: branch entries

NoTurn == [request |-> "none"]
NoSession == "no session"

Phase == {"active", "compacting", "awaiting_resume", "resumed",
          "recoverable_failure", "completed", "interrupted"}

\* contextCompactionOperationId and the dispatch id built from it.
OperationId == Request \X Key
CompactionDispatch(op) == <<"compaction", op[1], op[2]>>
IsCompactionDispatch(d) == d[1] = "compaction"

\* emptyContextContinuityState.
EmptyContinuity ==
  [session |-> NoSession, turn |-> NoTurn, compactions |-> <<>>,
   outbox |-> <<>>, inbox |-> <<>>, recovery |-> "none", processed |-> {}]

\* The outbox and inbox are partial functions from dispatch ids.
Put(f, k, v) == [x \in DOMAIN f \cup {k} |-> IF x = k THEN v ELSE f[x]]
Drop(f, k) == [x \in DOMAIN f \ {k} |-> f[x]]

Receipt(c, d) ==
  IF d \in DOMAIN c.inbox THEN c.inbox[d].status ELSE "missing"

\* projectContextContinuity's pendingContinuationCount, as a set.
Outstanding(c) == {d \in DOMAIN c.outbox : c.outbox[d] # "acknowledged"}

-----------------------------------------------------------------------------
\* commitTransition and duplicateTransition: an id seen before changes
\* nothing, a new one is recorded with the change.
Commit(c, id, next) ==
  IF id \in c.processed THEN c
  ELSE [next EXCEPT !.processed = c.processed \cup {id}]

CompactionOf(c, op) ==
  {i \in DOMAIN c.compactions : c.compactions[i].op = op}
Latest(indexes) == CHOOSE i \in indexes : \A j \in indexes : j <= i
SetCompaction(c, i, status) == [c.compactions EXCEPT ![i].status = status]

\* latestCompactionIndex without an operation id.
TurnCompactions(c) ==
  {i \in DOMAIN c.compactions : c.compactions[i].op[1] = c.turn.request}

PreparedCompactions(c) ==
  {i \in DOMAIN c.compactions : c.compactions[i].status = "prepared"}

\* activeTurnMatchesCompaction.
Matches(c, op) ==
  /\ c.turn # NoTurn
  /\ op[1] = c.turn.request
  /\ c.turn.session = c.session

-----------------------------------------------------------------------------
TurnStarted(c, s, r) ==
  LET same == c.turn # NoTurn /\ c.turn.request = r
              /\ c.turn.phase \notin {"completed", "interrupted"}
      moved == c.session \notin {NoSession, s}
  IN IF same THEN c
     ELSE Commit(c, <<"turn_started", s, r>>,
       [c EXCEPT !.session = s,
                 !.turn = [request |-> r, session |-> s, phase |-> "active"],
                 !.recovery = "none",
                 !.outbox = IF moved THEN <<>> ELSE @,
                 !.inbox = IF moved THEN <<>> ELSE @])

\* The operation id hashes the session, the turn and the branch entries; a
\* second preparation of the same window is a duplicate whatever became of
\* the first.
CompactionPrepared(c, s, op, owner) ==
  LET id == <<"compaction_prepared", s, op>> IN
  IF c.turn = NoTurn \/ c.turn.request # op[1] \/ c.turn.session # s
  THEN Commit(c, id, [c EXCEPT !.recovery = "final"])
  ELSE IF CompactionOf(c, op) # {} THEN c
  ELSE Commit(c, id,
         [c EXCEPT !.turn.phase = "compacting",
                   !.compactions = Append(@, [op |-> op, owner |-> owner,
                                              status |-> "prepared"]),
                   !.recovery = "none"])

\* An attempt that no longer belongs to the active turn of the active session
\* leaves only a recovery note.
CompactionSucceeded(c, i) ==
  LET attempt == c.compactions[i] IN
  IF ~Matches(c, attempt.op) THEN [c EXCEPT !.recovery = "final"]
  ELSE [c EXCEPT !.turn.phase = "awaiting_resume",
                 !.compactions = SetCompaction(c, i, "committed"),
                 !.recovery = "none"]

CompactionFailed(c, i, reason) ==
  LET attempt == c.compactions[i] IN
  Commit(c, <<"compaction_failed", attempt.op, reason>>,
    IF ~Matches(c, attempt.op) THEN [c EXCEPT !.recovery = "final"]
    ELSE [c EXCEPT !.turn.phase = "recoverable_failure",
                   !.compactions = SetCompaction(c, i, "failed"),
                   !.recovery = "retryable"])

\* turn_resumed: the latest attempt of the turn counts as resumed with it.
\* The id of a native or restored resume counts the resumes, so it is fresh;
\* the harness's is made of the turn and the dispatch.
Resumed(c) ==
  LET mine == TurnCompactions(c)
      already == /\ mine # {}
                 /\ c.compactions[Latest(mine)].status = "resumed"
                 /\ c.turn.phase = "resumed"
  IN IF already THEN c
     ELSE [c EXCEPT !.turn.phase = "resumed",
                    !.compactions = IF mine = {} THEN @
                                    ELSE SetCompaction(c, Latest(mine), "resumed"),
                    !.recovery = "none"]

HarnessResume(c, d) == <<"turn_resumed", c.turn.request, d>>
ResumedByHarness(c, d) == Commit(c, HarnessResume(c, d), Resumed(c))

\* turn_completed.
TurnCompleted(c, r) ==
  IF c.turn = NoTurn \/ c.turn.request # r THEN c
  ELSE Commit(c, <<"turn_completed", r>>,
         [c EXCEPT !.turn.phase = "completed", !.recovery = "none"])

-----------------------------------------------------------------------------
\* continuation_queued.
Queued(c, d) ==
  IF d \in DOMAIN c.outbox THEN c
  ELSE Commit(c, <<"continuation_queued", d>>,
         [c EXCEPT !.outbox = Put(@, d, "pending")])

\* continuation_dispatch_started; its id counts the attempts.
DispatchStarted(c, d) == [c EXCEPT !.outbox[d] = "attempted"]

\* continuation_received: `tag' is the receive count before it, or the
\* session reconciliation's constant.  A further receipt is only counted.
SessionReconcile == <<>>
Claimed(c, d) ==
  IF d \in DOMAIN c.inbox
  THEN [c.inbox[d] EXCEPT !.count = c.inbox[d].count + 1]
  ELSE [status |-> "claimed", count |-> 1]
Received(c, d, tag) ==
  IF d \notin DOMAIN c.outbox THEN c
  ELSE Commit(c, <<"continuation_received", d, tag>>,
         [c EXCEPT !.inbox = Put(c.inbox, d, Claimed(c, d))])

\* Mutant: only the receipt is settled.
MutConsumed(c, d) ==
  IF Receipt(c, d) # "claimed" THEN c
  ELSE Commit(c, <<"continuation_consumed", d>>,
         [c EXCEPT !.inbox[d].status = "consumed"])

\* continuation_consumed settles both sides, and needs a receipt.
Consumed(c, d) ==
  IF Receipt(c, d) # "claimed" THEN c
  ELSE Commit(c, <<"continuation_consumed", d>>,
         [c EXCEPT !.inbox[d].status = "consumed",
                   !.outbox = IF d \in DOMAIN @
                              THEN [@ EXCEPT ![d] = "acknowledged"] ELSE @])

\* continuation_released gives an unfinished dispatch back to the outbox.
CanRelease(c, d) ==
  /\ d \in DOMAIN c.outbox
  /\ c.outbox[d] # "acknowledged"
  /\ Receipt(c, d) # "consumed"
GiveBack(c, d) == [c EXCEPT !.inbox = Drop(@, d), !.outbox[d] = "pending"]

\* From a failed run (the id contains the clock) and from the session
\* reconciliation (it contains a constant).
Released(c, d) == IF CanRelease(c, d) THEN GiveBack(c, d) ELSE c
ReleasedAtStart(c, d) ==
  IF CanRelease(c, d)
  THEN Commit(c, <<"continuation_released", d, SessionReconcile>>,
              GiveBack(c, d))
  ELSE c

-----------------------------------------------------------------------------
\* session_started.  The event id is made of the session, the reason and the
\* previous session file, which is the same for every start of one kind.
SessionEvent(s, reason) == <<"session_started", s, reason>>

Cleared(c, s, phase, recovery) ==
  [c EXCEPT !.session = s, !.outbox = <<>>, !.inbox = <<>>,
            !.turn = IF c.turn = NoTurn \/ phase = "none" THEN NoTurn
                     ELSE [c.turn EXCEPT !.phase = phase],
            !.recovery = recovery]

\* What the transition signals to the coordinator.
SessionSignal(c, s, reason) ==
  IF SessionEvent(s, reason) \in c.processed THEN "none"
  ELSE IF reason = "new" THEN "retire"
  ELSE IF reason = "fork" THEN "fork"
  ELSE IF c.session \in {NoSession, s} \/ reason \in {"reload", "resume"}
       THEN "restore"
  ELSE "retire"

SessionStarted(c, s, reason) ==
  Commit(c, SessionEvent(s, reason),
    CASE reason \in {"new", "fork"} -> Cleared(c, s, "none", "none")
      [] SessionSignal(c, s, reason) = "restore" ->
           [c EXCEPT !.session = s,
                     !.turn = IF c.turn = NoTurn THEN NoTurn
                              ELSE [c.turn EXCEPT !.session = s]]
      [] OTHER ->
           Cleared(c, s, "interrupted",
                   IF c.turn = NoTurn THEN "none" ELSE "final"))

\* session_reset; its id contains the clock.
SessionReset(c, s) == Cleared(c, s, "none", "none")
=============================================================================
