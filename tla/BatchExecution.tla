--------------------------- MODULE BatchExecution ---------------------------
(***************************************************************************)
(* Batches of queued inputs: RuntimeBatchDeliveryCoordinator stages the    *)
(* inputs that wait at a safe checkpoint, the model decides on all of them *)
(* at once, and RuntimeBatchExecutionCoordinator runs the parallel and the *)
(* serial ones through messages to the runtime.                            *)
(*                                                                         *)
(* `db' is runtime-status.json.  An execution is named by its batch and    *)
(* its input, <<b, i>>.  Policies that replace, pause or cancel the root   *)
(* request are left out, and so are executions refused for evidence that   *)
(* admission has already checked.                                          *)
(***************************************************************************)
EXTENDS Naturals, FiniteSets

CONSTANTS
  MaxInputs,    \* bound: inputs the user queues while the agent runs
  MaxBatches,   \* bound: batches staged
  MaxRequests,  \* bound: root requests begun
  MaxFaults     \* bound: crashes, sends refused, messages delivered again,
                \* native retries, compactions

ASSUME BoundsAssumption ==
  {MaxInputs, MaxBatches, MaxRequests, MaxFaults} \subseteq Nat

VARIABLES
  db,          \* inputs, their requests, batch directives and executions
  root,        \* rootExecution: the root request, and if it is settled
  answered,    \* root requests with a visible reply
  begun,       \* number of root requests so far
  primary,     \* primaryRequestId of the coordinator
  active,      \* execution message that the run works on
  admitted,    \* messages accepted and not settled, by their executions
  receipt,     \* planning message that the run works on
  stage,       \* the staged batch and what became of its planning message
  staged,      \* number of batches staged so far
  run,         \* the agent of the runtime; "failed" is lastRunIncomplete as well
  sent,        \* execution messages the runtime has not delivered
  plans,       \* planning messages that a restart left with the runtime
  faults       \* number of faults so far

memory == <<primary, active, admitted, receipt>>
vars == <<db, root, answered, begun, memory, stage, staged, run, sent, plans, faults>>

Input == 1..MaxInputs  \* an input is its sequence number
Batch == 1..MaxBatches
Line == Batch \X Input
None == 0
Request == 1..MaxRequests
\* on_tool_success and on_tool_error, and on_turn_settle.
Checkpoint == {"tool", "settle"}
Mode == {"current", "parallel", "serial", "deferred"}
ExecutionState == {"pending", "dispatching", "accepted", "running",
                   "completed", "failed", "cancelled"}
Live == {"pending", "dispatching", "accepted", "running"}
InFlight == {"dispatching", "accepted", "running"}

NoStage == [batch |-> None, check |-> "none", inputs |-> {}, revision |-> 0,
            started |-> FALSE]
NoReceipt == [batch |-> None, inputs |-> {}]
NoMessage == [claims |-> [l \in {} |-> 0], check |-> "none"]
Inactive == [message |-> NoMessage, accepted |-> {}]
NoRoot == [request |-> None, settled |-> FALSE]
NoDirective == [mode |-> "none", root |-> None, check |-> "none",
                state |-> "none", attempt |-> 0]

Init ==
  /\ db = [input |-> [i \in Input |->
                       [status |-> "absent", policy |-> "none", check |-> "none"]],
           request |-> [i \in Input |-> "none"],
           line |-> [l \in Line |-> NoDirective],
           revision |-> 0]
  /\ root = NoRoot
  /\ answered = {}
  /\ begun = 0
  /\ primary = None
  /\ active = Inactive
  /\ admitted = {}
  /\ receipt = NoReceipt
  /\ stage = NoStage
  /\ staged = 0
  /\ run = "idle"
  /\ sent = {}
  /\ plans = {}
  /\ faults = 0

-----------------------------------------------------------------------------
(* Writes of runtime-status.json.  finalizeRuntimeStatusUpdate counts every *)
(* change of an input in the revision of the queue.                        *)

Queued(d, input, request, line) ==
  [input |-> input, request |-> request, line |-> line,
   revision |-> IF input = d.input THEN d.revision ELSE d.revision + 1]
\* The same, with a write for each input.
QueuedOneByOne(d, input, request, line) ==
  [input |-> input, request |-> request, line |-> line,
   revision |-> d.revision + Cardinality({i \in Input : input[i] # d.input[i]})]
Lines(d, line) ==
  [input |-> d.input, request |-> d.request, line |-> line, revision |-> d.revision]
\* updateRuntimeContinuity: the projection it replaces carries the revision, and
\* context-continuity.json, which it copies, knows no other than zero.
ContinuityCopied(d) ==
  [input |-> d.input, request |-> d.request, line |-> d.line, revision |-> 0]

Moved(line, S, state) ==
  [l \in Line |->
    IF l \notin S THEN line[l]
    ELSE [mode |-> line[l].mode, root |-> line[l].root, check |-> line[l].check,
          state |-> state, attempt |-> line[l].attempt]]
SetStatus(input, I, status) ==
  [i \in Input |->
    IF i \notin I THEN input[i]
    ELSE [status |-> status, policy |-> input[i].policy, check |-> input[i].check]]
SetRequest(request, I, status) ==
  [i \in Input |-> IF i \in I THEN status ELSE request[i]]
InputsOf(S) == {l[2] : l \in S}

\* Mutant: the claim of a serial execution looks at the root only.
MutClaimable(d, rt, l, settled, check) ==
  /\ d.line[l].state = "pending"
  /\ d.line[l].mode = "serial" =>
       /\ settled = d.line[l].root /\ check = d.line[l].check
       /\ rt.request = settled /\ rt.settled
\* claimRuntimeBatchDirectiveExecution with the root execution rt, for the
\* root request `settled' and the checkpoint the dispatcher was called with.
\* Each claim has a token of its own, here the number of the attempt.
Claimable(d, rt, l, settled, check) ==
  /\ d.line[l].state = "pending"
  /\ d.line[l].mode = "serial" =>
       /\ settled = d.line[l].root /\ check = d.line[l].check
       /\ rt.request = settled /\ rt.settled
       /\ d.input[l[2]].status = "deferred"
       /\ d.request[l[2]] = "deferred"
Claim(d, S) ==
  LET Serial == {l \in S : d.line[l].mode = "serial"}
      line == [l \in Line |->
                IF l \notin S THEN d.line[l]
                ELSE [mode |-> d.line[l].mode, root |-> d.line[l].root,
                      check |-> d.line[l].check, state |-> "dispatching",
                      attempt |-> d.line[l].attempt + 1]]
  IN IF Serial = {} THEN Lines(d, line)
     ELSE Queued(d, SetStatus(d.input, InputsOf(Serial), "admitted"),
                 SetRequest(d.request, InputsOf(Serial), "open"), line)

\* Mutant: a release forgets the input and the request of a serial execution.
MutRelease(d, S) ==
  Lines(d, Moved(d.line, {l \in S : d.line[l].state = "dispatching"}, "pending"))
\* releaseDispatchingClaim: a serial input is deferred again.
Release(d, S) ==
  LET Held == {l \in S : d.line[l].state = "dispatching"}
      Serial == {l \in Held : d.line[l].mode = "serial"}
      line == Moved(d.line, Held, "pending")
  IN IF Serial = {} THEN Lines(d, line)
     ELSE Queued(d, SetStatus(d.input, InputsOf(Serial), "deferred"),
                 SetRequest(d.request, InputsOf(Serial), "deferred"), line)

\* Mutant: the token of the claim is not compared.
MutOf(d, m, S, state) ==
  {l \in S \cap DOMAIN m.claims : d.line[l].state = state}
\* The executions of a message that are in `state' under its claim.
Of(d, m, S, state) ==
  {l \in S \cap DOMAIN m.claims : /\ d.line[l].state = state
                                  /\ d.line[l].attempt = m.claims[l]}
Start(d, m, S) == Lines(d, Moved(d.line, Of(d, m, S, "accepted"), "running"))
\* Mutant: the input is given the state of the execution.
MutSettle(d, m, S, outcome) ==
  LET Run == Of(d, m, S, "running")
  IN Queued(d, SetStatus(d.input, InputsOf(Run), outcome),
            SetRequest(d.request, InputsOf(Run), "stopped"),
            Moved(d.line, Run, outcome))
\* settleRuntimeBatchDirectiveExecution writes the input and the request too,
\* whatever their statuses are.
Settle(d, m, S, outcome) ==
  LET Run == Of(d, m, S, "running")
  IN IF Run = {} THEN d
     ELSE QueuedOneByOne(d,
            SetStatus(d.input, InputsOf(Run),
                      IF outcome = "completed" THEN "answered" ELSE "failed"),
            SetRequest(d.request, InputsOf(Run),
                       IF outcome = "completed" THEN "answered" ELSE "stopped"),
            Moved(d.line, Run, outcome))

-----------------------------------------------------------------------------
(* dispatchReady: what is claimed, and what the claim leaves behind when   *)
(* the message was posted, refused, or lost with the process.              *)

Outcome == {"posted", "refused", "crashed"}
Faults(n) == faults + n <= MaxFaults /\ faults' = faults + n
FaultsOf(outcome) == IF outcome = "posted" THEN 0 ELSE 1
\* A crash in the middle of a handler; memory is read again at the restart.
RunAfter(outcome, r) == run' = IF outcome = "crashed" THEN "down" ELSE r

ReadyParallel(d, B) ==
  {l \in B \X Input : d.line[l].mode = "parallel" /\ d.line[l].state = "pending"}
\* At most one serial execution, the first by sequence; between batches the
\* order is that of a hash.
ReadySerial(d, settled, check) ==
  LET R == {l \in Line : /\ d.line[l].mode = "serial" /\ d.line[l].state = "pending"
                         /\ d.line[l].root = settled /\ d.line[l].check = check}
  IN {l \in R : \A k \in R : l[2] <= k[2]}
SerialDispatches(d, rt, settled, check) ==
  LET R == ReadySerial(d, settled, check)
  IN IF R = {} THEN {{}}
     ELSE {{k \in {l} : Claimable(d, rt, k, settled, check)} : l \in R}

Dispatched(d, S, outcome) ==
  IF S = {} THEN d
  ELSE IF outcome = "refused" THEN Release(Claim(d, S), S) ELSE Claim(d, S)
\* The new messages; no claim, no message, and nothing that can be refused.
Posted(d, S, check, outcome) ==
  IF S = {} \/ outcome # "posted" THEN {}
  ELSE {[claims |-> [l \in S |-> d.line[l].attempt + 1], check |-> check]}
MayTurnOut(S, outcome) == S = {} => outcome = "posted"

\* batchCandidates.
Candidates(input, check) ==
  {i \in Input : \/ input[i].status = "queued"
                 \/ input[i].status = "deferred" /\ input[i].check = check}

\* prepareRuntimeBatchDispatch: a stage is bound to the queue as it is.
StageOf(d, check) ==
  [batch |-> staged + 1, check |-> check, inputs |-> Candidates(d.input, check),
   revision |-> d.revision, started |-> FALSE]

\* safeCheckpoint over the file d.  A second batch is not staged beside
\* the first.  A planning message that is refused takes its stage along.
SafeCheckpoint(d, check, post) ==
  LET May == /\ stage = NoStage /\ staged < MaxBatches
             /\ Candidates(d.input, check) # {}
  IN IF May /\ post = "posted"
     THEN /\ stage' = StageOf(d, check)
          /\ staged' = staged + 1
     ELSE /\ May \/ post = "posted"
          /\ UNCHANGED <<stage, staged>>

\* Mutant: a decision is not bound to the queue it was made for.
MutStageIsCurrent == stage.batch # None
\* The bindings of a plan are compared with the queue at each of its steps.
StageIsCurrent ==
  db.revision = stage.revision /\ Candidates(db.input, stage.check) = stage.inputs

-----------------------------------------------------------------------------
(* The user and the runtime.                                               *)

\* beginRequest and the start of its run.  A request that takes one of the
\* queued inputs along is left out.
BeginRequest ==
  /\ run = "idle"
  /\ begun < MaxRequests
  /\ \A i \in Input : db.input[i].status # "queued"
  /\ begun' = begun + 1
  /\ primary' = begun + 1
  /\ db' = ContinuityCopied(db)
  /\ root' = [request |-> begun + 1, settled |-> FALSE]
  /\ run' = "ready"
  /\ UNCHANGED <<answered, active, admitted, receipt, stage,
                 staged, sent, faults, plans>>

\* A compaction, or a continuation on its way: the continuity is copied.
ContinuityUpdate ==
  /\ run # "down"
  /\ Faults(1)
  /\ db' = ContinuityCopied(db)
  /\ UNCHANGED <<root, answered, begun, memory, stage, staged, run, sent, plans>>

\* RuntimeInputDeliveryStore.record.
Recorded(d, i) ==
  Queued(d, [d.input EXCEPT ![i] =
               [status |-> "queued", policy |-> "none", check |-> "none"]],
         SetRequest(d.request, {i}, "open"), d.line)
\* handleInput while the agent streams.
NewInput(i) ==
  /\ run \in {"ready", "assistant", "tool"}
  /\ db.input[i].status = "absent"
  /\ \A j \in 1..(i - 1) : db.input[j].status # "absent"
  /\ db' = Recorded(db, i)
  /\ UNCHANGED <<root, answered, begun, memory, stage, staged, run, sent, faults, plans>>

\* A steered message starts between two steps of a run, a follow-up where the
\* run would stop, and either one starts a run.
MayStart(followUp) ==
  run \in (IF followUp THEN {"idle", "replied"} ELSE {"idle", "ready", "replied"})

\* onMessageStart of a planning message.
PlanStart ==
  /\ stage # NoStage /\ ~stage.started
  /\ MayStart(FALSE)
  /\ stage' = [batch |-> stage.batch, check |-> stage.check,
               inputs |-> stage.inputs, revision |-> stage.revision,
               started |-> TRUE]
  /\ receipt' = IF StageIsCurrent
                THEN [batch |-> stage.batch, inputs |-> stage.inputs]
                ELSE receipt
  /\ run' = "ready"
  /\ UNCHANGED <<db, root, answered, begun, primary, active,
                 admitted, staged, sent, faults, plans>>

\* Of one that a restart left: it is no longer staged, but it is worked on when it
\* matches the queue.
StalePlanStart(p) ==
  /\ MayStart(FALSE)
  /\ plans' = plans \ {p}
  /\ receipt' = IF db.revision = p.revision /\ Candidates(db.input, p.check) = p.inputs
                THEN [batch |-> p.batch, inputs |-> p.inputs]
                ELSE receipt
  /\ run' = "ready"
  /\ UNCHANGED <<db, root, answered, begun, primary, active, admitted, stage, staged,
                 sent, faults>>

\* onMessageStart of an execution message, which the runtime may hold for a
\* second delivery (again).
ExecutionStart(m, again) ==
  LET S == Of(db, m, Line, "dispatching")
  IN /\ MayStart(\E l \in DOMAIN m.claims : db.line[l].mode = "serial")
     /\ Faults(IF again THEN 1 ELSE 0)
     /\ sent' = IF again THEN sent ELSE sent \ {m}
     /\ IF DOMAIN m.claims \in admitted \/ S = {}
        THEN UNCHANGED <<db, active, admitted>>
        ELSE /\ db' = Lines(db, Moved(db.line, S, "accepted"))
             /\ active' = [message |-> m, accepted |-> S]
             /\ admitted' = admitted \cup {DOMAIN m.claims}
     /\ run' = "ready"
     /\ UNCHANGED <<root, answered, begun, primary, receipt, stage,
                    staged, plans>>

\* The inputs of the receipt that are not scheduled for later.
PlannedHere ==
  {i \in receipt.inputs :
     db.line[<<receipt.batch, i>>].mode \notin {"parallel", "serial", "deferred"}}

\* onMessageStart of an assistant message.
AssistantStart ==
  /\ run = "ready"
  /\ run' = "assistant"
  /\ db' = IF active # Inactive
           THEN Start(db, active.message, active.accepted)
           ELSE [input |-> db.input, line |-> db.line,
                 revision |-> db.revision,
                 request |-> SetRequest(db.request,
                   {i \in PlannedHere : db.request[i] \in {"open", "deferred"}},
                   "open")]
  /\ UNCHANGED <<root, answered, begun, memory, stage, staged, sent, faults, plans>>

ToolStart ==
  /\ run = "assistant"
  /\ run' = "tool"
  /\ UNCHANGED <<db, root, answered, begun, memory, stage, staged, sent, faults, plans>>

ToolEnd(post) ==
  /\ run = "tool"
  /\ run' = "ready"
  /\ Faults(FaultsOf(post))
  /\ SafeCheckpoint(db, "tool", post)
  /\ UNCHANGED <<db, root, answered, begun, memory, sent, plans>>

-----------------------------------------------------------------------------
(* The decision on a batch.                                                *)

\* What the model may choose for one input: a policy, and for those that wait
\* the checkpoint they wait for.
Choice == ({"current", "parallel"} \X {"none"})
          \cup ({"serial", "deferred"} \X Checkpoint)
Admits(c) == c[1] \in {"current", "parallel"}

\* The directive of a choice; only serial ones are looked up by root and
\* checkpoint later.
DirectiveOf(c) ==
  [mode |-> c[1],
   root |-> IF c[1] = "serial" THEN root.request ELSE None,
   check |-> IF c[1] = "serial" THEN c[2] ELSE "none",
   state |-> IF c[1] \in {"parallel", "serial"} THEN "pending" ELSE "none",
   attempt |-> 0]

\* admitBatch and commitRuntimeBatchTransitions: one write of the inputs, the
\* requests, the directives and the executions.
Committed(choice) ==
  LET I == stage.inputs
      Admitted == {i \in I : Admits(choice[i])}
  IN [input |->
        [i \in Input |->
          IF i \notin I THEN db.input[i]
          ELSE [status |-> IF i \in Admitted THEN "admitted" ELSE "deferred",
                policy |-> choice[i][1], check |-> choice[i][2]]],
      request |-> SetRequest(SetRequest(db.request, Admitted, "open"),
                             I \ Admitted, "deferred"),
      line |->
        [l \in Line |->
          IF l[1] # stage.batch \/ l[2] \notin I THEN db.line[l]
          ELSE DirectiveOf(choice[l[2]])],
      revision |-> db.revision + 1]

\* applyDecision: whatever does not match the queue is refused with no change,
\* and leaves the stage.  Only deferring needs no root request.
MayDecide ==
  /\ run = "tool"
  /\ stage # NoStage /\ stage.started
  /\ StageIsCurrent
Choices ==
  {choice \in [stage.inputs -> Choice] :
     root.request = None => \A i \in stage.inputs : choice[i][1] = "deferred"}

Decide(outcome) ==
  /\ MayDecide
  /\ \E choice \in Choices :
       LET d == Committed(choice)
           S == ReadyParallel(d, {stage.batch})
       IN /\ MayTurnOut(S, outcome)
          /\ db' = Dispatched(d, S, outcome)
          /\ sent' = sent \cup Posted(d, S, "none", outcome)
  /\ stage' = NoStage
  /\ Faults(FaultsOf(outcome))
  /\ RunAfter(outcome, "tool")
  /\ UNCHANGED <<root, answered, begun, memory, staged, plans>>

\* The commit is on disk and some of its executions are claimed one by one
\* when the process dies.
DecideCrashed ==
  /\ MayDecide
  /\ Faults(1)
  /\ \E choice \in Choices :
       LET d == Committed(choice)
           S == ReadyParallel(d, {stage.batch})
       IN \E claimed \in SUBSET S \ {S} :
            /\ \A l \in claimed, k \in S \ claimed : l[2] < k[2]
            /\ db' = Dispatched(d, claimed, "crashed")
  /\ stage' = NoStage
  /\ run' = "down"
  /\ UNCHANGED <<root, answered, begun, memory, staged, sent, plans>>

-----------------------------------------------------------------------------
(* Replies and ends of runs.                                               *)

\* onFinalVisibleReply of the executions: they are completed, and the next
\* serial execution of the same root follows a serial one.
ExecutionReply(outcome) ==
  /\ run = "assistant"
  /\ active # Inactive
  /\ LET m == active.message
         d == Settle(db, m, active.accepted, "completed")
         Serial == {l \in active.accepted : db.line[l].mode = "serial"}
     IN \E S \in (IF Serial = {} \/ m.check = "none" THEN {{}}
                  ELSE UNION {SerialDispatches(d, root, db.line[l].root, m.check) :
                              l \in Serial}) :
          /\ MayTurnOut(S, outcome)
          /\ db' = Dispatched(d, S, outcome)
          /\ sent' = sent \cup Posted(d, S, m.check, outcome)
          /\ admitted' = admitted \ {DOMAIN m.claims}
  /\ active' = Inactive
  /\ Faults(FaultsOf(outcome))
  /\ RunAfter(outcome, "replied")
  /\ UNCHANGED <<root, answered, begun, primary, receipt, stage,
                 staged, plans>>

\* The inputs a batch reply answers: not scheduled for later by its decision,
\* nor by one before it.
AnsweredHere ==
  {i \in PlannedHere : /\ db.input[i].status # "deferred"
                       /\ db.input[i].policy \notin {"parallel", "serial", "deferred"}}

\* onFinalVisibleReply of the planning message.
BatchReply ==
  /\ run = "assistant"
  /\ active = Inactive /\ receipt # NoReceipt
  /\ db' = IF AnsweredHere = {} THEN db
           ELSE QueuedOneByOne(db, SetStatus(db.input, AnsweredHere, "answered"),
                  SetRequest(db.request,
                    {i \in AnsweredHere : db.request[i] \in {"open", "deferred"}},
                    "answered"), db.line)
  /\ stage' = IF stage.batch = receipt.batch THEN NoStage ELSE stage
  /\ receipt' = NoReceipt
  /\ run' = "replied"
  /\ UNCHANGED <<root, answered, begun, primary, active, admitted, staged, sent,
                 faults, plans>>

\* onMessageEnd of the root request's reply.
RootReply ==
  /\ run = "assistant"
  /\ active = Inactive /\ receipt = NoReceipt
  /\ answered' = answered \cup ({primary} \ {None})
  /\ run' = "replied"
  /\ UNCHANGED <<db, root, begun, primary, active, admitted, receipt, stage,
                 staged, sent, faults, plans>>

\* agent_end: the executions that the run has not answered have failed.
RunEnd(failed) ==
  /\ run \in {"assistant", "replied"} \cup (IF failed THEN {"ready", "tool"} ELSE {})
  /\ db' = LET m == active.message
           IN Settle(Start(db, m, active.accepted), m, active.accepted, "failed")
  /\ admitted' = IF active = Inactive THEN admitted
                 ELSE admitted \ {DOMAIN active.message.claims}
  /\ active' = Inactive
  /\ run' = IF failed THEN "failed" ELSE "ended"
  /\ UNCHANGED <<root, answered, begun, primary, receipt, stage, staged, sent,
                 faults, plans>>

\* The runtime goes on with a run that failed.
NativeRetry ==
  /\ run = "failed"
  /\ Faults(1)
  /\ run' = "ready"
  /\ UNCHANGED <<db, root, answered, begun, memory, stage, staged, sent, plans>>

\* onAgentSettled.  `kept': a project that is not delivered yet keeps the root
\* open; `closed': no work is left and the turn is completed, for which an input
\* that is deferred does not count.  Both need a reply and a run that did not
\* fail; whether the root is settled as succeeded or failed is left out.
Settled(kept, closed, outcome, post) ==
  /\ run \in {"ended", "failed"}
  /\ kept \/ closed => run = "ended" /\ primary \in answered
  /\ closed => /\ ~kept /\ root.request = primary
               /\ \A i \in Input : db.input[i].status # "queued"
  /\ LET closes == primary # None /\ ~kept
         rt == IF closes /\ root.request = primary
               THEN [request |-> primary, settled |-> TRUE]
               ELSE root
     IN /\ root' = rt
        /\ \E S \in (IF closes THEN SerialDispatches(db, rt, primary, "settle")
                     ELSE {{}}) :
             LET d == Dispatched(db, S, outcome)
             IN /\ MayTurnOut(S, outcome)
                /\ sent' = sent \cup Posted(db, S, "settle", outcome)
                /\ db' = IF closed THEN ContinuityCopied(d) ELSE d
                /\ IF outcome = "crashed"
                   THEN post = "posted" /\ UNCHANGED <<stage, staged>>
                   ELSE SafeCheckpoint(db', "settle", post)
  /\ Faults(FaultsOf(outcome) + FaultsOf(post))
  /\ RunAfter(outcome, "idle")
  /\ UNCHANGED <<answered, begun, memory, plans>>

-----------------------------------------------------------------------------
(* Sessions.                                                               *)

\* What the process keeps in memory, with the stage.
Forgotten ==
  /\ active' = Inactive
  /\ admitted' = {}
  /\ receipt' = NoReceipt
  /\ stage' = NoStage

\* The planning messages that are not delivered.
Undelivered ==
  plans \cup {[batch |-> st.batch, check |-> st.check, inputs |-> st.inputs,
              revision |-> st.revision] : st \in {x \in {stage} \ {NoStage} : ~x.started}}

Crash ==
  /\ run # "down"
  /\ Faults(1)
  /\ run' = "down"
  /\ primary' = None
  /\ Forgotten
  /\ plans' = Undelivered
  /\ UNCHANGED <<db, root, answered, begun, staged, sent>>

\* Mutant: retirement also cancels executions that are over.
MutRetired(d) ==
  LET Known == {l \in Line : d.line[l].state # "none"}
  IN Queued(d, SetStatus(d.input, InputsOf(Known), "expired"),
            SetRequest(d.request, InputsOf(Known), "stopped"),
            Moved(d.line, Known, "cancelled"))
\* retireRuntimeSessionItems: executions that are not settled are cancelled,
\* with the input and the request each is bound to.
Retired(d) ==
  LET Open == {l \in Line : d.line[l].state \in Live}
  IN Queued(d,
       SetStatus(d.input,
         {i \in Input : d.input[i].status \in {"queued", "deferred"}}
           \cup InputsOf(Open), "expired"),
       SetRequest(d.request,
         {i \in Input : d.request[i] = "open"} \cup InputsOf(Open), "stopped"),
       Moved(d.line, Open, "cancelled"))

\* session_start with another session, in this process or after a restart.
SessionRetired ==
  /\ run \in {"idle", "down"}
  /\ db' = Retired(ContinuityCopied(db))
  /\ root' = NoRoot
  /\ primary' = None
  /\ Forgotten
  /\ sent' = {}
  /\ plans' = {}
  /\ run' = "idle"
  /\ UNCHANGED <<answered, begun, staged, faults>>

\* recoverPending: what an earlier process accepted has failed, the claims
\* whose lease is over (expired) are released.
Recovered(expired) ==
  LET Held == {l \in Line : db.line[l].state \in {"accepted", "running"}}
      c == ContinuityCopied(db)
      d == IF Held = {} THEN c
           ELSE QueuedOneByOne(c, SetStatus(db.input, InputsOf(Held), "failed"),
                       SetRequest(db.request, InputsOf(Held), "stopped"),
                       Moved(db.line, Held, "failed"))
  IN Release(d, expired)

\* session_start of the same session after a restart.  `restored': its turn
\* goes on; `kept': the runtime still has its undelivered messages.
SessionStart(restored, kept, outcome) ==
  /\ run = "down"
  /\ primary' = IF restored THEN root.request ELSE None
  /\ Forgotten
  /\ kept => sent # {} \/ Undelivered # {}
  /\ plans' = IF kept THEN Undelivered ELSE {}
  /\ \E expired \in SUBSET {l \in Line : db.line[l].state = "dispatching"} :
       LET d == Recovered(expired)
           S == ReadyParallel(d, Batch)
       IN /\ MayTurnOut(S, outcome)
          /\ db' = Dispatched(d, S, outcome)
          /\ sent' = (IF kept THEN sent ELSE {}) \cup Posted(d, S, "none", outcome)
  /\ Faults(FaultsOf(outcome))
  /\ RunAfter(outcome, "idle")
  /\ UNCHANGED <<root, answered, begun, staged>>

\* session_start when the extensions of a session are loaded once more: the event
\* of the first time is spent, so that nothing is restored or recovered.
SessionReloaded(kept) ==
  /\ run = "idle"
  /\ primary' = None
  /\ Forgotten
  /\ kept => sent # {} \/ Undelivered # {}
  /\ plans' = IF kept THEN Undelivered ELSE {}
  /\ sent' = IF kept THEN sent ELSE {}
  /\ db' = ContinuityCopied(db)
  /\ UNCHANGED <<root, answered, begun, staged, run, faults>>

Next ==
  \/ BeginRequest
  \/ ContinuityUpdate
  \/ \E i \in Input : NewInput(i)
  \/ PlanStart
  \/ \E p \in plans : StalePlanStart(p)
  \/ \E m \in sent, again \in BOOLEAN : ExecutionStart(m, again)
  \/ AssistantStart
  \/ ToolStart
  \/ \E post \in {"posted", "refused"} : ToolEnd(post)
  \/ \E outcome \in Outcome : Decide(outcome)
  \/ DecideCrashed
  \/ \E outcome \in Outcome : ExecutionReply(outcome)
  \/ BatchReply
  \/ RootReply
  \/ \E failed \in BOOLEAN : RunEnd(failed)
  \/ NativeRetry
  \/ \E kept, closed \in BOOLEAN, outcome \in Outcome,
        post \in {"posted", "refused"} :
       Settled(kept, closed, outcome, post)
  \/ Crash
  \/ SessionRetired
  \/ \E restored, kept \in BOOLEAN, outcome \in Outcome :
       SessionStart(restored, kept, outcome)
  \/ \E kept \in BOOLEAN : SessionReloaded(kept)

Spec == Init /\ [][Next]_vars

-----------------------------------------------------------------------------
(* Properties.                                                             *)

\* The variables have their types.
MessageType(m) ==
  /\ DOMAIN m.claims \subseteq Line
  /\ \A l \in DOMAIN m.claims : m.claims[l] \in 0..(MaxFaults + 1)
  /\ m.check \in Checkpoint \cup {"none"}
TypeOK ==
  /\ db.input \in [Input -> [status : {"absent", "queued", "deferred", "admitted",
                                      "answered", "failed", "expired"},
                             policy : Mode \cup {"none"},
                             check : Checkpoint \cup {"none"}]]
  /\ db.request \in [Input -> {"none", "open", "deferred", "answered", "stopped"}]
  /\ db.line \in [Line -> [mode : Mode \cup {"none"}, root : Request \cup {None},
                           check : Checkpoint \cup {"none"},
                           state : ExecutionState \cup {"none"},
                           attempt : 0..(MaxFaults + 1)]]
  /\ db.revision \in Nat
  /\ root.request \in Request \cup {None}
  /\ root.settled \in BOOLEAN
  /\ answered \subseteq Request
  /\ begun \in 0..MaxRequests /\ primary \in 0..begun
  /\ MessageType(active.message) /\ active.accepted \subseteq DOMAIN active.message.claims
  /\ admitted \subseteq SUBSET Line
  /\ stage.batch \in 0..staged /\ stage.inputs \subseteq Input
  /\ receipt.batch \in 0..staged /\ receipt.inputs \subseteq Input
  /\ staged \in 0..MaxBatches
  /\ run \in {"idle", "ready", "assistant", "tool", "replied", "ended", "failed", "down"}
  /\ \A m \in sent : MessageType(m)
  /\ \A p \in plans : p.batch \in 1..staged /\ p.inputs \subseteq Input
  /\ faults \in 0..MaxFaults

\* An input that several batches decided on, or that was claimed, released and
\* claimed again, is worked on by at most one execution; that one has the input
\* and its request to itself.
OneExecutionInFlight ==
  \A l \in Line :
    db.line[l].state \in InFlight =>
      /\ db.input[l[2]].status = "admitted" /\ db.request[l[2]] = "open"
      /\ \A k \in Line : k[2] = l[2] /\ db.line[k].state \in InFlight => k = l

\* No input is dropped between two writes: one admitted to run on its own, in
\* parallel or when its turn came, has an execution that is not over.
AdmittedIsOwed ==
  \A i \in Input :
    db.input[i].status = "admitted" /\ db.input[i].policy \in {"parallel", "serial"} =>
      \E b \in Batch : /\ db.line[<<b, i>>].mode = db.input[i].policy
                        /\ db.line[<<b, i>>].state \in
                             (IF db.input[i].policy = "serial" THEN InFlight ELSE Live)

\* A message delivered again, or kept over a restart that gave its executions
\* to another message, takes none of them: what the run works on is held under
\* the claims of its own message.
ActiveHoldsClaims ==
  run # "down" =>
    \A l \in active.accepted :
      /\ db.line[l].state \in {"accepted", "running"}
      /\ db.line[l].attempt = active.message.claims[l]

\* Executions go forward; only a claim that no message was accepted for goes
\* back to pending, and what is over stays as it ended.
ExecutionsAdvance ==
  [][\A l \in Line :
       LET s == db.line[l].state
           t == db'.line[l].state
       IN s # t =>
            \/ s = "none" /\ t \in {"pending", "dispatching"}
            \/ s = "pending" /\ t \in {"dispatching", "cancelled"}
            \/ s = "dispatching" /\ t \in {"pending", "accepted", "cancelled"}
            \/ s \in {"accepted", "running"}
                 /\ t \in {"running", "completed", "failed", "cancelled"}]_vars

\* A decision is about exactly the inputs that wait at its checkpoint when it is
\* committed, also when the user has queued more since the batch was staged.
DecisionsComplete ==
  [][\A b \in Batch :
       LET Decided == {i \in Input : db.line[<<b, i>>] # db'.line[<<b, i>>]
                                     /\ db.line[<<b, i>>].mode = "none"}
       IN Decided # {} => Decided = Candidates(db.input, stage.check)]_vars

\* A committed directive is consumed exactly once: when the agent is idle, no
\* execution that a message was accepted for is left without an outcome.
AcceptedSettled ==
  run = "idle" =>
    \A l \in Line : db.line[l].state \notin {"accepted", "running"}
=============================================================================
