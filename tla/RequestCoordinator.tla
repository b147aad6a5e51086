-------------------------- MODULE RequestCoordinator --------------------------
(***************************************************************************)
(* RuntimeRequestCoordinator over the durable continuity state: requests,  *)
(* context compactions and the hidden continuations that follow them, with *)
(* the host that runs the agent and process restarts in between.           *)
(*                                                                         *)
(* One action per handler.  What a handler writes to disk (cc, req, root)  *)
(* and what it keeps in memory (co) are apart, because a restart loses the *)
(* second.  The host's part (its run, its follow-up queue, the messages of *)
(* the session file) is what the handlers are called with.                 *)
(***************************************************************************)
EXTENDS ContextContinuity, FiniteSets, FiniteSetsExt

CONSTANTS
  Sidecar,      \* ids of sidecar requests
  MaxRequests,    \* bound: requests and sidecars the user makes
  MaxDisruptions  \* bound: crashes, torn handlers, sends that throw, session
                  \* starts, resets, compactions, native retries and batches
                  \* that cancel the root

\* The placeholder of the fields that name no request is no request's id.
ASSUME RequestCoordinatorAssumption == "none" \notin Request \cup Sidecar

VARIABLES
  cc,       \* context-continuity.json
  req,      \* runtime-status.json: lifecycle of the requests
  replied,  \* those with a visible reply (hasVisibleReply)
  parent,   \* parentRequestId of the sidecars
  root,     \* rootExecution: the root request, its settlement, batchControl
  co,       \* fields of the coordinator object
  host,     \* session, run, follow-up queue and compaction of the host
  branch,   \* per session file: continuation messages in it
  torn,     \* history: continuations a crash kept from being queued or resumed
  settled,  \* history: dispatches acknowledged at any time
  disruptions  \* number of them so far

vars == <<cc, req, replied, parent, root, co, host, branch, torn, settled,
          disruptions>>

NoRequest == "none"
\* The root of a request that has just begun.
RootOf(r) == [request |-> r, settlement |-> "pending", control |-> "none"]
NoRoot == RootOf(NoRequest)
Settlement == {"pending", "succeeded", "failed", "interrupted"}
\* "open": queued, delivered or answering; "stopped": failed or interrupted.
RequestStatus == {"unknown", "open", "answered", "stopped"}
SidecarContinuation(q) == <<"sidecar", q>>
Dispatches == {CompactionDispatch(op) : op \in OperationId}
              \cup {SidecarContinuation(q) : q \in Sidecar}

\* A coordinator as its constructor and resetLiveSessionHandles leave it.
FreshCoordinator ==
  [primary |-> NoRequest, response |-> NoRequest, settling |-> NoRequest,
   sidecar |-> NoRequest, incomplete |-> FALSE, restorePending |-> FALSE,
   terminal |-> FALSE, active |-> {}, admitted |-> {}]

\* A session file: continuation messages without and with a final reply after
\* them, those still in the context, and what the next compaction works on:
\* the key of the attempt made on these entries, or "new" when more came.
EmptyBranch == [open |-> {}, completed |-> {}, visible |-> {}, window |-> "new"]

HostAt(s) == [session |-> s, run |-> "idle", queue |-> {}, compacting |-> FALSE]

Init ==
  \E s \in Session :
    /\ cc = SessionStarted(EmptyContinuity, s, "startup")
    /\ req = [r \in Request \cup Sidecar |-> "unknown"]
    /\ replied = {}
    /\ parent = [q \in Sidecar |-> NoRequest]
    /\ root = NoRoot
    /\ co = FreshCoordinator
    /\ host = HostAt(s)
    /\ branch = [t \in Session |-> EmptyBranch]
    /\ torn = FALSE
    /\ settled = {}
    /\ disruptions = 0

MayDisrupt == disruptions < MaxDisruptions
Disrupt == MayDisrupt /\ disruptions' = disruptions + 1

MayRequest ==
  Cardinality({r \in DOMAIN req : req[r] # "unknown"}) < MaxRequests

Acknowledged(c) == {d \in DOMAIN c.outbox : c.outbox[d] = "acknowledged"}
Store(c) ==
  /\ cc' = c
  /\ settled' = settled \cup Acknowledged(c)

-----------------------------------------------------------------------------
\* REQUEST_TRANSITIONS, restricted to the statuses kept here: only an open
\* request is answered.
Answer(r) ==
  IF r # NoRequest /\ req[r] = "open"
  THEN req' = [req EXCEPT ![r] = "answered"] /\ replied' = replied \cup {r}
  ELSE UNCHANGED <<req, replied>>

Sidecars(p) == {q \in Sidecar : parent[q] = p /\ req[q] = "answered"}

\* shouldContinuePrimary; `work': other runnable rows of the runtime status.
ShouldContinue(p, work) ==
  /\ p # NoRequest
  /\ req[p] # "stopped"
  /\ req[p] = "answered" => work

\* Mutant: the status of an older version of the outbox is written.
MutAttempt(c, sent) ==
  [c EXCEPT !.outbox = [d \in DOMAIN @ |-> IF d \in sent THEN "dispatched" ELSE @[d]]]

\* dispatchPendingContinuations: everything pending is marked attempted and
\* sent; a send that throws leaves its dispatch pending.
Pending(c) == {d \in DOMAIN c.outbox : c.outbox[d] = "pending"}
Attempt(c, sent) ==
  [c EXCEPT !.outbox = [d \in DOMAIN @ |-> IF d \in sent THEN "attempted" ELSE @[d]]]

\* The sends of one call: all of them, or with one fault some that throw.
Sends(c) == {Pending(c)} \cup (IF MayDisrupt THEN SUBSET Pending(c) ELSE {})
SpendSends(c, sent) ==
  IF sent = Pending(c) THEN UNCHANGED disruptions ELSE Disrupt

\* Mutant: the turn that was waiting is not resumed.
MutConsume(c, d) == IF d \notin DOMAIN c.outbox THEN c ELSE Consumed(c, d)

\* consumeContinuation: consumed, and a turn that was waiting resumes.
Consume(c, d) ==
  IF d \notin DOMAIN c.outbox THEN c
  ELSE LET used == Consumed(c, d)
       IN IF IsCompactionDispatch(d) /\ used.turn # NoTurn
             /\ used.turn.phase = "awaiting_resume"
          THEN ResumedByHarness(used, d)
          ELSE used

\* The condition of onTurnStart for a resume by the host itself.
LastCompaction(c) == c.compactions[Len(c.compactions)]
NativeRetry(c) ==
  /\ c.turn # NoTurn
  /\ c.compactions # <<>>
  /\ \/ /\ c.turn.phase = "awaiting_resume"
        /\ LastCompaction(c).owner = "native"
     \/ /\ c.turn.phase = "recoverable_failure"
        /\ LastCompaction(c).status = "failed"
        /\ ~co.restorePending
RestoredRetry(c) ==
  c.turn # NoTurn /\ c.turn.phase = "recoverable_failure" /\ co.restorePending

\* onTurnStart as functions of the state: continuity, requests, memory.
TurnStartCC(c) == IF NativeRetry(c) \/ RestoredRetry(c) THEN Resumed(c) ELSE c
TurnStartReq(c) ==
  IF RestoredRetry(c) /\ req[c.turn.request] = "stopped"
  THEN [req EXCEPT ![c.turn.request] = "open"] ELSE req
TurnStartCo(c) ==
  IF RestoredRetry(c)
  THEN [co EXCEPT !.response = c.turn.request, !.primary = c.turn.request,
                  !.incomplete = FALSE, !.restorePending = FALSE]
  ELSE co

-----------------------------------------------------------------------------
\* before_agent_start: beginRequest of a new primary request, then its run.
BeginRequest(r) ==
  /\ host.run = "idle"
  /\ ~host.compacting
  /\ req[r] = "unknown"
  /\ MayRequest
  /\ Store(TurnStarted(cc, host.session, r))
  /\ req' = [req EXCEPT ![r] = "open"]
  /\ root' = RootOf(r)
  /\ co' = [co EXCEPT !.primary = r, !.response = r, !.terminal = FALSE]
  /\ host' = [host EXCEPT !.run = "running"]
  /\ branch' = [branch EXCEPT ![host.session].window = "new"]
  /\ UNCHANGED <<replied, parent, torn, disruptions>>

\* turn_start of a retry by the host after agent_end.
Retry ==
  /\ host.run = "ended"
  /\ ~host.compacting
  /\ Disrupt
  /\ Store(TurnStartCC(cc))
  /\ req' = TurnStartReq(cc)
  /\ co' = TurnStartCo(cc)
  /\ host' = [host EXCEPT !.run = "running"]
  /\ UNCHANGED <<replied, parent, root, branch, torn>>

\* message_start of a continuation the host takes from its follow-up queue;
\* when no run is under way this starts one, with its turn_start first.  A
\* message whose dispatch is gone from the outbox is not recorded.
MessageStart(d) ==
  /\ d \in host.queue
  /\ host.run \in {"idle", "running", "ended"}
  /\ ~host.compacting
  /\ LET starts == host.run # "running"
         c == IF starts THEN TurnStartCC(cc) ELSE cc
         m == IF starts THEN TurnStartCo(cc) ELSE co
         count == IF d \in DOMAIN c.inbox THEN c.inbox[d].count ELSE 0
     IN /\ Store(Received(c, d, <<count>>))
        /\ req' = IF starts THEN TurnStartReq(cc) ELSE req
        /\ co' = IF d \in DOMAIN c.outbox
                 THEN [m EXCEPT !.active = @ \cup {d}] ELSE m
  /\ host' = [host EXCEPT !.run = "running", !.queue = @ \ {d}]
  /\ branch' = [branch EXCEPT ![host.session].open = @ \cup {d},
                              ![host.session].visible = @ \cup {d},
                              ![host.session].window = "new"]
  /\ UNCHANGED <<replied, parent, root, torn, disruptions>>

\* Mutant: a consumed receipt does not keep a message out.
MutAdmissible(d) ==
  /\ d \in DOMAIN cc.outbox
  /\ d \notin co.admitted

\* onContext: which continuation messages of the context reach the model.
Admissible(d) ==
  /\ d \in DOMAIN cc.outbox
  /\ Receipt(cc, d) # "consumed"
  /\ d \notin co.admitted
  /\ Receipt(cc, d) = "claimed" => d \in co.active

Context ==
  /\ host.run = "running"
  /\ LET accepted == {d \in branch[host.session].visible : Admissible(d)}
     IN /\ accepted # {}
        /\ co' = [co EXCEPT !.active = @ \cup accepted,
                            !.admitted = @ \cup accepted]
  /\ UNCHANGED <<cc, req, replied, parent, root, host, branch, torn, settled,
                 disruptions>>

\* A final visible reply settles, in the session file, every continuation
\* message before it.
Completed(b) ==
  [b EXCEPT !.completed = @ \cup b.open, !.open = {}, !.window = "new"]

\* message_start and message_end of a final visible assistant message.
FinalReply ==
  /\ host.run = "running"
  /\ Answer(co.response)
  /\ co' = IF co.response = NoRequest THEN co
           ELSE [co EXCEPT !.incomplete = FALSE]
  /\ branch' = [branch EXCEPT ![host.session] = Completed(@)]
  /\ UNCHANGED <<cc, parent, root, host, torn, settled, disruptions>>

\* A sidecar request that joins the run and is answered in it: handleInput,
\* message_start of the user message, message_end of the reply.
SidecarReply(q) ==
  /\ host.run = "running"
  /\ req[q] = "unknown"
  /\ MayRequest
  /\ co.primary # NoRequest
  /\ parent' = [parent EXCEPT ![q] = co.primary]
  /\ req' = [req EXCEPT ![q] = "answered"]
  /\ replied' = replied \cup {q}
  /\ co' = [co EXCEPT !.response = q, !.sidecar = q, !.incomplete = FALSE]
  /\ branch' = [branch EXCEPT ![host.session] = Completed(@)]
  /\ UNCHANGED <<cc, root, host, torn, settled, disruptions>>

\* A batch decided during the run cancels the root: applyRuntimeBatch-
\* Transitions interrupts its request, whatever its status, and its control
\* stays until another root starts.
CancelRoot ==
  /\ host.run = "running"
  /\ root.request # NoRequest
  /\ Disrupt
  /\ req' = [req EXCEPT ![root.request] = "stopped"]
  /\ root' = [root EXCEPT !.settlement = "interrupted", !.control = "cancel"]
  /\ UNCHANGED <<cc, replied, parent, co, host, branch, torn, settled>>

-----------------------------------------------------------------------------
\* onContinuationRunEnd: the dispatches of a failed run are given back, those
\* of a finished one consumed.
AfterRun(failed) ==
  FoldSet(LAMBDA d, c : IF failed THEN Released(c, d) ELSE Consume(c, d),
          cc, co.active)

\* onAgentEnd: after a sidecar's answer the unfinished primary request gets
\* one continuation, unless messages are already waiting.
ResumesPrimary(c, failed, work) ==
  /\ ~failed
  /\ co.sidecar # NoRequest
  /\ SidecarContinuation(co.sidecar) \notin DOMAIN c.outbox
  /\ host.queue = {}
  /\ ShouldContinue(co.primary, work)

\* `terminal': a tool of the run ended it, which onToolExecutionEnd latched.
\* Inputs that make no difference are FALSE.
RunEnd(failed, terminal, work) ==
  /\ host.run = "running"
  /\ terminal => ~co.terminal
  /\ work => ~failed /\ co.sidecar # NoRequest
  /\ LET c == AfterRun(failed)
         resumes == ResumesPrimary(c, failed, work)
         q == IF resumes THEN Queued(c, SidecarContinuation(co.sidecar)) ELSE c
         sent == IF resumes THEN Pending(q) ELSE {}
         settling == IF co.settling = NoRequest THEN co.response ELSE co.settling
     IN /\ Store(Attempt(q, sent))
        /\ co' = [co EXCEPT !.active = {}, !.admitted = {},
                            !.settling = settling, !.incomplete = failed,
                            !.terminal = @ \/ terminal,
                            !.response = IF resumes THEN co.primary ELSE @]
        /\ host' = [host EXCEPT !.run = "ended", !.queue = @ \cup sent]
  /\ UNCHANGED <<req, replied, parent, root, branch, torn, disruptions>>

\* Mutant: outstanding continuations do not count.
MutOpen(c) ==
  \/ c.recovery # "none"
  \/ /\ c.turn # NoTurn
     /\ c.turn.phase \in {"compacting", "awaiting_resume",
                          "recoverable_failure", "interrupted"}

\* Continuity's part in the projection of the root: it keeps it from `done'.
Open(c) ==
  \/ Outstanding(c) # {}
  \/ c.recovery # "none"
  \/ /\ c.turn # NoTurn
     /\ c.turn.phase \in {"compacting", "awaiting_resume",
                          "recoverable_failure", "interrupted"}

\* runtimeSettlementRequestId: whose settlement this is.  `work': other rows
\* of the runtime status are open.
Settles(c, work) ==
  LET response == IF co.settling = NoRequest THEN co.response ELSE co.settling
      ready == /\ req[co.primary] = "answered"
               /\ root = RootOf(co.primary)
               /\ ~Open(c)
               /\ ~work
  IN IF response = co.primary \/ ready THEN co.primary ELSE response

\* A compaction that never came to an end is recorded as failed.
WithoutPrepared(c) ==
  IF PreparedCompactions(c) = {} THEN c
  ELSE CompactionFailed(c, Latest(PreparedCompactions(c)), "settled-without-commit")

LocalSucceeded(c, id) ==
  /\ ~co.terminal
  /\ id = co.primary
  /\ ~co.incomplete
  /\ co.primary \in replied
  /\ c.recovery = "none"

\* onAgentSettled.  `kept': preserveIncompleteProjectDelivery keeps the root
\* open, which it does of a success; `work': other rows of the runtime status do.
Settled(kept, work) ==
  /\ host.run = "ended"
  /\ ~host.compacting
  /\ host' = [host EXCEPT !.run = "idle"]
  /\ IF co.primary = NoRequest
     THEN /\ ~kept /\ ~work
          /\ co' = [co EXCEPT !.terminal = FALSE]
          /\ UNCHANGED <<cc, req, root, settled>>
     ELSE LET c == WithoutPrepared(cc)
              id == Settles(c, work)
              ok == LocalSucceeded(c, id)
              outcome == IF id # root.request THEN root
                         ELSE [root EXCEPT !.settlement =
                                 IF ok THEN "succeeded" ELSE "failed"]
              done == \/ outcome.control = "cancel"
                      \/ /\ outcome.settlement = "succeeded"
                         /\ ~Open(c)
                         /\ ~work
                         /\ req[outcome.request] # "open"
          IN /\ kept => ok
             /\ co' = [co EXCEPT !.terminal = FALSE, !.settling = NoRequest]
             /\ IF kept
                THEN Store(c) /\ UNCHANGED <<req, root>>
                ELSE /\ root' = outcome
                     /\ req' = IF ~ok /\ id = co.primary /\ req[id] = "open"
                               THEN [req EXCEPT ![id] = "stopped"] ELSE req
                     /\ Store(IF done THEN TurnCompleted(c, co.primary) ELSE c)
  /\ UNCHANGED <<replied, parent, branch, torn, disruptions>>

-----------------------------------------------------------------------------
Tried(r, k) == CompactionOf(cc, <<r, k>>) # {}

\* session_before_compact.  Another attempt on the same branch entries has
\* the same operation id.
BeforeCompaction(k, owner) ==
  /\ host.run \in {"idle", "ended"}
  /\ ~host.compacting
  /\ host.run = "idle" => owner = "harness"
  /\ Disrupt
  /\ host' = [host EXCEPT !.compacting = TRUE]
  /\ branch' = [branch EXCEPT ![host.session].window = k]
  /\ IF cc.turn = NoTurn THEN UNCHANGED <<cc, settled>>
     ELSE /\ branch[host.session].window \in {"new", k}
          /\ branch[host.session].window = "new" => ~Tried(cc.turn.request, k)
          /\ Store(CompactionPrepared(cc, host.session, <<cc.turn.request, k>>, owner))
  /\ UNCHANGED <<req, replied, parent, root, co, torn>>

CompactionEnds == [host EXCEPT !.compacting = FALSE]

\* The context after a compaction keeps some of the messages.
Kept(b, kept) == [b EXCEPT !.visible = kept, !.window = "new"]

\* session_compact: afterCompaction.  A crash between its writes leaves the
\* compaction committed and nothing queued.
AfterCompaction(kept, sent, crash) ==
  /\ host.compacting
  /\ kept \subseteq branch[host.session].visible
  /\ branch' = [branch EXCEPT ![host.session] = Kept(@, kept)]
  /\ IF PreparedCompactions(cc) = {}
     THEN /\ ~crash
          /\ sent = {}
          /\ host' = CompactionEnds
          /\ UNCHANGED <<cc, co, torn, settled, disruptions>>
     ELSE LET i == Latest(PreparedCompactions(cc))
              c == CompactionSucceeded(cc, i)
              dispatches == Matches(cc, cc.compactions[i].op)
                            /\ cc.compactions[i].owner = "harness"
              q == IF dispatches
                   THEN Queued(c, CompactionDispatch(cc.compactions[i].op)) ELSE c
          IN IF crash
             THEN /\ dispatches
                  /\ Disrupt
                  /\ sent = {}
                  /\ Store(c)
                  /\ torn' = TRUE
                  /\ co' = FreshCoordinator
                  /\ host' = [HostAt(host.session) EXCEPT !.run = "down"]
             ELSE /\ sent \in (IF dispatches THEN Sends(q) ELSE {{}})
                  /\ IF dispatches THEN SpendSends(q, sent) ELSE UNCHANGED disruptions
                  /\ Store(Attempt(q, sent))
                  /\ host' = [CompactionEnds EXCEPT !.queue = @ \cup sent]
                  /\ UNCHANGED <<torn, co>>
  /\ UNCHANGED <<req, replied, parent, root>>

\* The abort signal of the preparation, and an error nobody is told of.
CompactionAborts(signalled) ==
  /\ host.compacting
  /\ host' = CompactionEnds
  /\ IF signalled /\ PreparedCompactions(cc) # {}
     THEN Store(CompactionFailed(cc, Latest(PreparedCompactions(cc)), "aborted"))
     ELSE UNCHANGED <<cc, settled>>
  /\ UNCHANGED <<req, replied, parent, root, co, branch, torn, disruptions>>

-----------------------------------------------------------------------------
Crash ==
  /\ host.run # "down"
  /\ Disrupt
  /\ co' = FreshCoordinator
  /\ host' = [HostAt(host.session) EXCEPT !.run = "down"]
  /\ UNCHANGED <<cc, req, replied, parent, root, branch, torn, settled>>

\* A run that finished, killed after a dispatch was consumed and before the
\* turn was resumed.
CrashInRunEnd(d) ==
  /\ host.run = "running"
  /\ d \in co.active
  /\ cc.turn # NoTurn
  /\ cc.turn.phase = "awaiting_resume"
  /\ Receipt(cc, d) = "claimed"
  /\ Disrupt
  /\ Store(Consumed(cc, d))
  /\ torn' = TRUE
  /\ co' = FreshCoordinator
  /\ host' = [HostAt(host.session) EXCEPT !.run = "down"]
  /\ UNCHANGED <<req, replied, parent, root, branch>>

\* The attempted dispatches at a restored start: those the session file shows
\* as answered are settled, the others are given back.
Reconciled(c, s) ==
  FoldSet(LAMBDA d, x :
            IF d \in branch[s].completed
            THEN Consume(Received(x, d, SessionReconcile), d)
            ELSE ReleasedAtStart(x, d),
          c, {d \in DOMAIN c.outbox : c.outbox[d] = "attempted"})

\* The answered sidecar whose continuation was not queued yet.
Unresumed(c, work) ==
  {q \in Sidecars(c.turn.request) :
     /\ SidecarContinuation(q) \notin DOMAIN c.outbox
     /\ ShouldContinue(c.turn.request, work)}

\* onSessionStart's memory of a restored turn.
Restored(turn) ==
  [FreshCoordinator EXCEPT
     !.primary = turn.request, !.response = turn.request,
     !.incomplete = turn.phase \in {"recoverable_failure", "interrupted"},
     !.restorePending = turn.phase = "recoverable_failure"]

\* retireRuntimeSessionItems on the requests and the root.
RetireItems ==
  /\ req' = [r \in DOMAIN req |-> IF req[r] = "open" THEN "stopped" ELSE req[r]]
  /\ root' = NoRoot

Known(s) == \E reason \in {"startup", "new", "fork", "resume"} :
              SessionEvent(s, reason) \in cc.processed

\* The starts the host makes: a new process continues a session or opens a
\* fresh one; a running one reloads, resumes another or opens a fresh one.
Starts(s, reason) ==
  CASE reason = "startup" -> host.run = "down"
    [] reason = "reload" -> host.run = "idle" /\ s = host.session
    [] reason = "resume" -> host.run = "idle" /\ s # host.session /\ Known(s)
    [] OTHER -> host.run = "idle" /\ ~Known(s)

\* onSessionStart, in a new coordinator.
SessionStart(s, reason, work, sent) ==
  /\ Starts(s, reason)
  /\ ~host.compacting
  /\ LET signal == SessionSignal(cc, s, reason)
         c == SessionStarted(cc, s, reason)
     IN IF signal = "restore" /\ c.turn # NoTurn
        THEN LET r == Reconciled(c, s)
                 q == IF Unresumed(c, work) = {} THEN r
                      ELSE Queued(r, SidecarContinuation(
                                       CHOOSE x \in Unresumed(c, work) : TRUE))
             IN /\ sent = Pending(q)
                /\ Store(Attempt(q, sent))
                /\ co' = Restored(c.turn)
                /\ host' = [HostAt(s) EXCEPT !.queue = sent]
                /\ UNCHANGED <<req, root>>
        ELSE /\ sent = {}
             /\ ~work
             /\ Store(c)
             /\ co' = FreshCoordinator
             /\ host' = HostAt(s)
             /\ IF signal \in {"retire", "fork"} THEN RetireItems
                ELSE UNCHANGED <<req, root>>
  /\ Disrupt
  /\ UNCHANGED <<replied, parent, branch, torn>>

\* resetSession: the command may come while a run or messages are under way.
ResetSession ==
  /\ host.run # "down"
  /\ ~host.compacting
  /\ Disrupt
  /\ Store(SessionReset(cc, host.session))
  /\ RetireItems
  /\ co' = FreshCoordinator
  /\ UNCHANGED <<replied, parent, host, branch, torn>>

Next ==
  \/ \E r \in Request : BeginRequest(r)
  \/ Retry
  \/ \E d \in Dispatches : MessageStart(d) \/ CrashInRunEnd(d)
  \/ Context
  \/ FinalReply
  \/ \E q \in Sidecar : SidecarReply(q)
  \/ CancelRoot
  \/ \E failed, terminal, work \in BOOLEAN : RunEnd(failed, terminal, work)
  \/ \E kept, work \in BOOLEAN : Settled(kept, work)
  \/ \E k \in Key, owner \in {"harness", "native"} : BeforeCompaction(k, owner)
  \/ \E kept, sent \in SUBSET Dispatches, crash \in BOOLEAN :
       AfterCompaction(kept, sent, crash)
  \/ \E signalled \in BOOLEAN : CompactionAborts(signalled)
  \/ Crash
  \/ \E s \in Session, work \in BOOLEAN, sent \in SUBSET Dispatches,
        reason \in {"startup", "reload", "new", "resume", "fork"} :
       SessionStart(s, reason, work, sent)
  \/ ResetSession

Spec == Init /\ [][Next]_vars
-----------------------------------------------------------------------------
TypeOK ==
  /\ cc.session \in Session
  /\ cc.turn = NoTurn \/ (/\ cc.turn.request \in Request
                          /\ cc.turn.session \in Session
                          /\ cc.turn.phase \in Phase)
  /\ \A i \in DOMAIN cc.compactions :
       /\ cc.compactions[i].op \in OperationId
       /\ cc.compactions[i].status \in {"prepared", "committed", "resumed", "failed"}
  /\ DOMAIN cc.outbox \subseteq Dispatches
  /\ \A d \in DOMAIN cc.outbox : cc.outbox[d] \in {"pending", "attempted", "acknowledged"}
  /\ req \in [Request \cup Sidecar -> RequestStatus]
  /\ replied \subseteq Request \cup Sidecar
  /\ parent \in [Sidecar -> Request \cup {NoRequest}]
  /\ root.request \in Request \cup {NoRequest}
  /\ root.settlement \in Settlement
  /\ root.control \in {"none", "cancel"}
  /\ co.active \subseteq Dispatches /\ co.admitted \subseteq co.active
  /\ host.queue \subseteq Dispatches

\* The two sides of a continuation agree: a receipt belongs to a dispatch of
\* the outbox, and it is consumed exactly when the dispatch is acknowledged
\* (continuation_consumed and continuation_released write both).
ReceiptsMatchOutbox ==
  /\ DOMAIN cc.inbox \subseteq DOMAIN cc.outbox
  /\ \A d \in DOMAIN cc.outbox :
       cc.outbox[d] = "acknowledged" <=> Receipt(cc, d) = "consumed"

\* The durable operation id and the processed events suppress a duplicate
\* dispatch: what was acknowledged once is never sent or shown to the model
\* again, across crashes, reloads, resets and changes of session.
SettledNotRepeated ==
  [][/\ settled \cap (host'.queue \ host.queue) = {}
     /\ settled \cap (co'.admitted \ co.admitted) = {}]_vars

\* The event of its first receipt is spent: by a delivery or a session start.
Noted(d, p) ==
  \E tag \in {<<0>>, SessionReconcile} : <<"continuation_received", d, tag>> \in p

\* A session start gave d back, and no start does so a second time; or its
\* receipt was given back, and no further delivery leaves another.
SpentOnce(c, d) ==
  \/ <<"continuation_released", d, SessionReconcile>> \in c.processed
  \/ d \notin DOMAIN c.inbox /\ Noted(d, c.processed)

\* Its dispatch is yet to be sent, or was sent and its message is in the
\* queue of the host or taken up by the run.
UnderWay(d) ==
  \/ cc.outbox[d] = "pending"
  \/ d \in host.queue \cup co.active

\* A turn that waits to be resumed has a committed compaction which the host
\* resumes at its next turn start, or whose continuation is recorded and not
\* acknowledged (only a crash between two writes of one handler may lose
\* that).  In a coordinator that knows the turn this continuation is under
\* way, unless it was given back or delivered before: a session start gives
\* back under a fixed event id, and a start of one kind counts once, so that
\* a message lost for the second time leaves the turn waiting.  The compaction
\* need not be the last: one that nobody ended is committed in the name of a
\* later one.
AwaitedContinuation ==
  (cc.turn # NoTurn /\ cc.turn.phase = "awaiting_resume" /\ ~torn)
    => \E i \in TurnCompactions(cc) :
         LET d == CompactionDispatch(cc.compactions[i].op) IN
         /\ cc.compactions[i].status = "committed"
         /\ \/ cc.compactions[i].owner = "native"
            \/ /\ d \in Outstanding(cc)
               /\ co.primary = cc.turn.request => UnderWay(d) \/ SpentOnce(cc, d)

\* A turn is recorded as completed only when a batch cancelled its root or
\* nothing of it is under way: its request was answered visibly, its root
\* settled as succeeded, no continuation is outstanding and none of its
\* compactions is unresolved, however many runs, sidecars, restarts and
\* sessions it took.
CompletionIsQuiet ==
  [][(cc'.turn # NoTurn /\ cc'.turn.phase = "completed" /\ cc'.turn # cc.turn)
       => \/ cc.turn # NoTurn /\ cc.turn.phase = "completed"
          \/ root'.request = cc'.turn.request /\ root'.control = "cancel"
          \/ /\ req'[cc'.turn.request] = "answered"
             /\ root' = [RootOf(cc'.turn.request) EXCEPT !.settlement = "succeeded"]
             /\ Outstanding(cc') = {}
             /\ TurnCompactions(cc') \cap PreparedCompactions(cc') = {}]_vars
=============================================================================
