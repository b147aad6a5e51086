------------------------ MODULE SidecarOrchestration ------------------------
(***************************************************************************)
(* The sidecar orchestration controller of the harness: the primary        *)
(* request of a session, the follow-ups that suspend it (sidecars), the    *)
(* batches that interpose, the dispatch a sidecar records before it may    *)
(* call an agent tool, and the file that carries all of it across restarts *)
(* and changes of the project.  Most hooks do nothing outside the enhanced *)
(* mode, which may end at any moment.                                      *)
(*                                                                         *)
(* A step is one hook of the host or one call of the controller, all of    *)
(* them synchronous.  Prompts, assessments, times, the identities of model *)
(* requests and the run ids of children are left out; what the model       *)
(* decides and answers is chosen freely.                                   *)
(***************************************************************************)
EXTENDS Naturals, Sequences, FiniteSets, SequencesExt

CONSTANTS
  Side,         \* the requests of follow-ups
  Batch,        \* the requests of batches
  ToolCall,     \* the ids of tool calls
  Project,      \* the directories a state file may be in
  Worked,       \* bound: the projects in which requests begin
  Dispatching,  \* bound: the follow-ups whose dispatch is recorded, twice at most
  Repeats       \* whether a text may be sent again before it is answered

VARIABLES
  state,     \* what persist writes
  saved,     \* the state file of every project
  bound,     \* the project the controller is bound to
  enhanced,  \* the mode in effect: enhanced or parity
  awaiting,  \* awaitingPrimaryMessage
  owner,     \* toolCallOwners
  seen,      \* seenToolCallIds
  reserved,  \* the capacity reserved for tool calls that have not started
  call,      \* how far the host is with every tool call
  staged     \* the batch the bridge has staged

memory == <<awaiting, owner, seen, reserved>>
vars == <<state, saved, bound, enhanced, memory, call, staged>>

None == "none"
Primary == "primary"
Request == {Primary} \cup Side \cup Batch

ASSUME SidecarAssumption ==
  /\ None \notin Request
  /\ Primary \notin Side \cup Batch /\ Side \cap Batch = {}
  /\ Worked \subseteq Project
  /\ Dispatching \subseteq Side
  /\ Repeats \in BOOLEAN

\* "active" stands for "answering" too, from which nothing differs.
Phase == {"absent", "awaiting_message", "active", "waiting", "suspended", "completed"}
Finished == {"absent", "completed"}

\* counted: the branch count that was reported is that of the branches.
NoDispatch ==
  [revision |-> 0, state |-> "none", tool |-> "none", counted |-> TRUE, call |-> None]
NoOwner == [request |-> None, revision |-> 0]

Blank ==
  [phase |-> [r \in Request |-> "absent"],
   dispatch |-> [s \in Side |-> NoDispatch],
   parent |-> [b \in Batch |-> None],
   committed |-> {},
   open |-> <<>>,
   active |-> None,
   primary |-> FALSE,     \* whether primaryRequestId is set
   prompt |-> FALSE,      \* whether the primary has a prompt that is not empty
   needs |-> FALSE,       \* primaryNeedsExecution
   restoring |-> FALSE]   \* restorationPending

Init ==
  /\ state = Blank
  /\ saved = [p \in Project |-> Blank]
  /\ bound \in Project
  /\ enhanced \in BOOLEAN
  /\ awaiting = FALSE
  /\ owner = [c \in ToolCall |-> NoOwner]
  /\ seen = {}
  /\ reserved = {}
  /\ call = [c \in ToolCall |-> "none"]
  /\ staged = None

Unfinished(d) == {s \in Side : d.phase[s] \notin Finished}

\* persist
Save(new) ==
  /\ state' = new
  /\ saved' = [saved EXCEPT ![bound] = new]

\* releaseAllDispatchReservations
AdmittedCalls ==
  {state.dispatch[s].call : s \in {x \in Side : state.dispatch[x].state = "admitted"}}

-----------------------------------------------------------------------------
\* The mode is changed by a command, by a tool of the model, by a word in the
\* prompt or when the process starts; a mode for one turn ends with the next.
SetMode ==
  /\ enhanced' = ~enhanced
  /\ UNCHANGED <<state, saved, bound, memory, call, staged>>

-----------------------------------------------------------------------------
\* A new primary clears every other request, a restored one goes on.
Begin(phase, wait, asked) ==
  /\ \E prompt, needs \in BOOLEAN :
       /\ (prompt => asked) /\ (needs => prompt)
       /\ Save([Blank EXCEPT !.phase[Primary] = phase, !.primary = TRUE,
                             !.active = Primary, !.prompt = prompt, !.needs = needs])
  /\ awaiting' = wait
  /\ reserved' = reserved \ AdmittedCalls

Activate ==
  Save([state EXCEPT !.phase[Primary] = "active", !.active = Primary])

\* In parity the primary has no prompt, and a restored one is given up.
BeforeAgentStart ==
  /\ bound \in Worked
  /\ IF enhanced /\ state.primary /\ state.restoring
     THEN Activate /\ UNCHANGED <<awaiting, reserved>>
     ELSE Begin("awaiting_message", TRUE, enhanced)
  /\ UNCHANGED <<bound, enhanced, owner, seen, call, staged>>

\* onMessageStart of a user message that is or becomes the primary.
PrimaryMessage ==
  /\ enhanced
  /\ bound \in Worked
  /\ IF awaiting
     THEN Activate /\ awaiting' = FALSE /\ UNCHANGED reserved
     ELSE Begin("active", FALSE, TRUE)
  /\ UNCHANGED <<bound, enhanced, owner, seen, call, staged>>

\* Of a follow-up: the newest input with its text gives the request its id, so
\* that a text which is sent again before it is answered gives the same id.

\* Mutant: the newest follow-up is the active one.
MutSidecarMessage(s) ==
  /\ enhanced
  /\ ~awaiting
  /\ state.primary
  /\ state.phase[s] = "absent"
  /\ Save([state EXCEPT
       !.phase = [state.phase EXCEPT ![Primary] = IF @ = "completed" THEN @ ELSE "suspended",
                                     ![s] = "active"],
       !.dispatch[s] = NoDispatch,
       !.open = Append(@, s),
       !.active = s,
       !.restoring = FALSE])
  /\ UNCHANGED <<bound, enhanced, memory, call, staged>>
SidecarMessage(s) ==
  LET busy == state.active \in Side /\ state.phase[state.active] # "completed" IN
  /\ enhanced
  /\ ~awaiting
  /\ state.primary
  /\ \/ state.phase[s] = "absent"
     \/ Repeats /\ state.phase[s] # "completed"
  /\ Save([state EXCEPT
       !.phase = [state.phase EXCEPT ![Primary] = IF @ = "completed" THEN @ ELSE "suspended",
                                     ![s] = IF busy THEN "waiting" ELSE "active"],
       !.dispatch[s] = NoDispatch,
       !.open = Append(@, s),
       !.active = IF busy THEN @ ELSE s,
       !.restoring = FALSE])
  /\ UNCHANGED <<bound, enhanced, memory, call, staged>>

\* onMessageStart, which parity skips, and onMessageEnd, which it does not: both
\* write the file, the second what is in memory.
AssistantMessage ==
  LET answers == enhanced /\ state.active # None /\ state.phase[state.active] # "completed" IN
  /\ \/ answers /\ Save([state EXCEPT !.phase[state.active] = "active"])
     \/ Save(state)
  /\ UNCHANGED <<bound, enhanced, memory, call, staged>>

\* onContext: the guidance of a restored primary is given once.
Context ==
  /\ enhanced
  /\ state.active # None
  /\ state.active # Primary \/ state.restoring
  /\ Save([state EXCEPT !.restoring = FALSE])
  /\ UNCHANGED <<bound, enhanced, memory, call, staged>>

-----------------------------------------------------------------------------
\* A batch is staged one at a time, and its message is started once.
Stage(b) ==
  /\ bound \in Worked
  /\ staged = None
  /\ state.phase[b] = "absent"
  /\ staged' = b
  /\ UNCHANGED <<state, saved, bound, enhanced, memory, call>>

\* The stage goes with the final reply to the batch, when the batch could not be
\* sent and when the deliveries are reset, in either mode.
Unstage ==
  /\ staged # None
  /\ staged' = None
  /\ UNCHANGED <<state, saved, bound, enhanced, memory, call>>

\* Its message is sent once and its stage is in memory only, so that it finds no
\* request of its own: the id of a batch is new.
BatchMessage(b) ==
  /\ enhanced
  /\ staged = b
  /\ state.phase[b] = "absent"
  /\ Save([state EXCEPT !.phase[b] = "active", !.parent[b] = state.active,
                        !.active = b, !.restoring = FALSE])
  /\ UNCHANGED <<bound, enhanced, memory, call, staged>>

\* recordBatchTransaction, when the coordinator accepts the decision.
CommitBatch(b) ==
  /\ state.active = b
  /\ staged = b
  /\ b \notin state.committed
  /\ Save([state EXCEPT !.committed = @ \cup {b}])
  /\ staged' = None
  /\ UNCHANGED <<bound, enhanced, memory, call>>

-----------------------------------------------------------------------------
\* The decision on a dispatch, from evidence that is chosen freely: proven is
\* that the branches are identified, self-contained, independent of each other
\* and of live state, and isolated; executable, that the execution descriptors
\* are valid and match.
Evidence ==
  {e \in [policy : {"sidecar", "control"}, requested : {"none", "serial", "defer", "agent"},
          branches : 0..2, counted : BOOLEAN, proven : BOOLEAN, writes : BOOLEAN,
          executable : BOOLEAN, funded : BOOLEAN, slots : 0..2] :
     e.counted => e.branches > 0}

Decide(e) ==
  LET ready == e.counted /\ e.branches > 0 /\ e.proven /\ e.executable
               /\ (e.branches > 1 => ~e.writes)
  IN  IF e.policy # "sidecar" \/ e.requested = "serial" THEN "serial"
      ELSE IF e.requested = "defer" THEN "defer"
      ELSE IF ~ready THEN "serial"
      ELSE IF ~e.funded \/ e.slots < e.branches
           THEN IF e.requested = "agent" THEN "defer" ELSE "serial"
      ELSE IF e.branches = 1 THEN "spawn_agent" ELSE "parallel_agents"

\* What the controller goes by: spawn_agent and parallel_agents differ in the
\* slots they need only.

\* Mutant: the strategy is recorded where the tool belongs.
MutDecisions == {[tool |-> Decide(e), counted |-> e.counted] : e \in Evidence}
Decisions ==
  {[tool |-> IF Decide(e) \in {"serial", "defer"} THEN "none" ELSE "agent",
    counted |-> e.counted] : e \in Evidence}

RecordDispatch ==
  /\ state.active \in Dispatching
  /\ \E d \in Decisions :
       LET old == state.dispatch[state.active] IN
       /\ old.revision < 2
       /\ old.state # "admitted"
       /\ Save([state EXCEPT !.dispatch[state.active] =
            [revision |-> old.revision + 1, state |-> "recorded",
             tool |-> d.tool, counted |-> d.counted, call |-> None]])
  /\ UNCHANGED <<bound, enhanced, memory, call, staged>>

-----------------------------------------------------------------------------
\* shouldBlock, when it does not: an agent tool of a sidecar needs the dispatch
\* that was recorded for it and reserves its capacity; a call that is blocked
\* leaves nothing behind.
Unused(c) == call[c] = "none" /\ owner[c] = NoOwner /\ c \notin seen

\* Mutant: a dispatch may be admitted whatever became of it.
MutAdmit(c) ==
  /\ enhanced
  /\ Unused(c)
  /\ state.active \in Side
  /\ LET d == state.dispatch[state.active] IN
     /\ d.revision > 0
     /\ d.tool = "agent"
     /\ owner' = [owner EXCEPT ![c] = [request |-> state.active, revision |-> d.revision]]
  /\ reserved' = reserved \cup {c}
  /\ seen' = seen \cup {c}
  /\ call' = [call EXCEPT ![c] = "hooked"]
  /\ Save([state EXCEPT !.dispatch[state.active].state = "admitted",
                        !.dispatch[state.active].call = c])
  /\ UNCHANGED <<bound, enhanced, awaiting, staged>>
Admit(c) ==
  /\ enhanced
  /\ Unused(c)
  /\ state.active \in Side
  /\ LET d == state.dispatch[state.active] IN
     /\ d.state = "recorded"
     /\ d.tool = "agent"
     /\ owner' = [owner EXCEPT ![c] = [request |-> state.active, revision |-> d.revision]]
  /\ reserved' = reserved \cup {c}
  /\ seen' = seen \cup {c}
  /\ call' = [call EXCEPT ![c] = "hooked"]
  /\ Save([state EXCEPT !.dispatch[state.active].state = "admitted",
                        !.dispatch[state.active].call = c])
  /\ UNCHANGED <<bound, enhanced, awaiting, staged>>

\* Whether call c is the one its sidecar waits for.
Awaited(c) ==
  /\ owner[c].revision > 0
  /\ LET d == state.dispatch[owner[c].request] IN
     d.state = "admitted" /\ d.call = c /\ d.revision = owner[c].revision

\* The rest of the hook blocks the call: the admission is taken back.
Rollback(c) ==
  /\ call[c] = "hooked"
  /\ call' = [call EXCEPT ![c] = "none"]
  /\ IF Awaited(c)
     THEN /\ Save([state EXCEPT !.dispatch[owner[c].request].state = "recorded",
                                !.dispatch[owner[c].request].call = None])
          /\ owner' = [owner EXCEPT ![c] = NoOwner]
          /\ reserved' = reserved \ {c}
     ELSE /\ UNCHANGED <<state, saved>>
          /\ IF owner[c] # NoOwner /\ state.phase[owner[c].request] = "absent"
             THEN owner' = [owner EXCEPT ![c] = NoOwner] /\ reserved' = reserved \ {c}
             ELSE UNCHANGED <<owner, reserved>>
  /\ UNCHANGED <<bound, enhanced, awaiting, seen, staged>>

\* The tool starts and takes what was reserved for it, in either mode.
ToolStart(c) ==
  /\ call[c] = "hooked"
  /\ call' = [call EXCEPT ![c] = "started"]
  /\ reserved' = reserved \ {c}
  /\ UNCHANGED <<state, saved, bound, enhanced, awaiting, owner, seen, staged>>

\* In parity the result is ignored, and the dispatch stays in flight.
ToolResult(c) ==
  /\ call[c] = "started"
  /\ call' = [call EXCEPT ![c] = "none"]
  /\ IF enhanced /\ Awaited(c)
     THEN \E outcome \in {"completed", "failed"} :
            Save([state EXCEPT !.dispatch[owner[c].request].state = outcome,
                               !.dispatch[owner[c].request].call = None])
     ELSE UNCHANGED <<state, saved>>
  /\ IF enhanced
     THEN owner' = [owner EXCEPT ![c] = NoOwner] /\ reserved' = reserved \ {c}
     ELSE UNCHANGED <<owner, reserved>>
  /\ UNCHANGED <<bound, enhanced, awaiting, seen, staged>>

-----------------------------------------------------------------------------
\* onTurnEnd, which parity skips.  A batch is over once it is committed.

\* settleRuntimeStateRequests, of a dispatch that is not settled.
Settled(d) ==
  IF d.state \in {"recorded", "admitted"}
  THEN [d EXCEPT !.state = IF d.tool = "none" THEN "completed" ELSE "failed", !.call = None]
  ELSE d

BatchTurnEnd(b) ==
  /\ enhanced
  /\ state.active = b
  /\ b \in state.committed
  /\ Save([state EXCEPT !.phase[b] = "completed",
       !.active = CASE state.parent[b] # None -> state.parent[b]
                    [] state.parent[b] = None /\ state.primary -> Primary
                    [] OTHER -> b])
  /\ UNCHANGED <<bound, enhanced, memory, call, staged>>

PrimaryTurnEnd ==
  /\ enhanced
  /\ state.active = Primary
  /\ \E more \in BOOLEAN :
       Save([state EXCEPT !.needs = more,
                          !.phase[Primary] = IF more THEN "active" ELSE "completed"])
  /\ UNCHANGED <<bound, enhanced, memory, call, staged>>

\* A final visible reply settles a sidecar whose agent tool is not in flight:
\* the oldest one that is open goes on, or else the primary.
RemoveLast(q, s) ==
  LET at == CHOOSE i \in DOMAIN q : q[i] = s /\ \A j \in DOMAIN q : q[j] = s => j <= i
  IN  RemoveAt(q, at)

OpenBut(s, q) == {i \in DOMAIN q : q[i] # s /\ state.phase[q[i]] \notin Finished}

\* Mutant: the primary goes on although another follow-up is open.
MutSidecarTurnEnd(s) ==
  /\ enhanced
  /\ state.active = s
  /\ state.dispatch[s].state # "admitted"
  /\ Save([state EXCEPT !.phase = [@ EXCEPT ![s] = "completed", ![Primary] = "active"],
                        !.open = RemoveLast(@, s), !.active = Primary])
  /\ UNCHANGED <<bound, enhanced, memory, call, staged>>
SidecarTurnEnd(s) ==
  LET open == IF s \in Range(state.open) THEN RemoveLast(state.open, s) ELSE state.open
      left == OpenBut(s, open)
      next == open[Min(left)]
      primary == state.phase[Primary]
      restored == state.primary /\ state.needs /\ primary # "completed"
      done == [state EXCEPT !.phase[s] = "completed", !.dispatch[s] = Settled(@), !.open = open]
  IN
  /\ enhanced
  /\ state.active = s
  /\ state.dispatch[s].state # "admitted"
  /\ Save(
       CASE left # {} ->
              [done EXCEPT !.phase[next] = "active", !.active = next, !.restoring = FALSE]
         [] left = {} /\ restored ->
              [done EXCEPT !.phase[Primary] = "active", !.active = Primary, !.restoring = TRUE]
         [] left = {} /\ ~restored /\ state.primary ->
              [done EXCEPT !.phase[Primary] = "completed", !.active = Primary]
         [] OTHER -> done)
  /\ UNCHANGED <<bound, enhanced, memory, call, staged>>

-----------------------------------------------------------------------------
\* hydrate.  Nothing is taken from a file with a request that has no prompt, or
\* whose queue is not one of sidecars in order, the active one in front.
Prompted(d) == d.phase[Primary] = "absent" \/ d.prompt

Fifo(d) ==
  LET q == d.open IN
  /\ Len(q) = Cardinality(Unfinished(d)) /\ Range(q) = Unfinished(d)
  /\ IF q = <<>> THEN d.active \notin Side
     ELSE /\ d.active = q[1]
          /\ d.phase[q[1]] = "active"
          /\ \A i \in 2..Len(q) : d.phase[q[i]] = "waiting"

Restorable(d) == Prompted(d) /\ Fifo(d)

\* A dispatch that cannot be read or whose tool was in flight has failed.

\* Mutant: a dispatch whose tool was in flight stays so.
MutReloaded(d, phase) ==
  IF d.state # "none" /\ ~d.counted
  THEN [d EXCEPT !.state = "failed", !.tool = "none", !.counted = FALSE, !.call = None]
  ELSE d
Reloaded(d, phase) ==
  CASE d.state = "none" -> d
    [] \/ d.state # "none" /\ ~d.counted
       \/ phase = "completed" /\ d.state \in {"recorded", "admitted"} ->
         [d EXCEPT !.state = "failed", !.tool = "none", !.counted = FALSE, !.call = None]
    [] d.counted /\ phase # "completed" /\ d.state = "admitted" ->
         [d EXCEPT !.state = "failed", !.call = None]
    [] OTHER -> d

Hydrated(d) ==
  IF Restorable(d)
  THEN [d EXCEPT
         !.dispatch = [s \in Side |-> Reloaded(d.dispatch[s], d.phase[s])],
         !.active = IF @ = None /\ d.primary THEN Primary ELSE @]
  ELSE Blank

Forget ==
  /\ awaiting' = FALSE
  /\ owner' = [c \in ToolCall |-> NoOwner]
  /\ seen' = {}

\* The process dies, or the session ends, and another is started: the file is
\* written when a dispatch had to be failed.
Restart ==
  /\ state' = Hydrated(saved[bound])
  /\ saved' = [saved EXCEPT ![bound] = IF state'.dispatch # @.dispatch /\ Restorable(@) THEN state' ELSE @]
  /\ Forget
  /\ reserved' = {}
  /\ call' = [c \in ToolCall |-> "none"]
  /\ staged' = None
  /\ UNCHANGED <<bound, enhanced>>

\* resetPendingToolCalls, at session_start.

\* Mutant: the bindings are dropped and the dispatches stay as they are.
MutSessionStart ==
  /\ Save(state)
  /\ reserved' = {c \in reserved : owner[c] = NoOwner}
  /\ owner' = [c \in ToolCall |-> NoOwner]
  /\ seen' = {}
  /\ UNCHANGED <<bound, enhanced, awaiting, call, staged>>
SessionStart ==
  /\ Save([state EXCEPT !.dispatch = [s \in Side |->
       IF state.dispatch[s].state = "admitted" /\ Awaited(state.dispatch[s].call)
       THEN [state.dispatch[s] EXCEPT !.state = "failed", !.call = None]
       ELSE state.dispatch[s]]])
  /\ reserved' = {c \in reserved : owner[c] = NoOwner}
  /\ owner' = [c \in ToolCall |-> NoOwner]
  /\ seen' = {}
  /\ UNCHANGED <<bound, enhanced, awaiting, call, staged>>

\* rebindProject: everything that is left behind is settled.

\* Mutant: the requests are completed, their dispatches are not settled.
MutRetired ==
  [state EXCEPT
    !.phase = [r \in Request |-> IF @[r] = "absent" THEN "absent" ELSE "completed"],
    !.open = <<>>, !.active = None, !.primary = FALSE, !.needs = FALSE, !.restoring = FALSE]
Retired ==
  [state EXCEPT
    !.phase = [r \in Request |-> IF @[r] = "absent" THEN "absent" ELSE "completed"],
    !.dispatch = [s \in Side |-> Settled(@[s])],
    !.open = <<>>, !.active = None, !.primary = FALSE, !.needs = FALSE, !.restoring = FALSE]

Rebind(p) ==
  /\ state' = Hydrated(saved[p])
  /\ saved' = [saved EXCEPT
       ![bound] = IF p # bound /\ \E r \in Request : state.phase[r] # "absent" THEN Retired ELSE @,
       ![p] = state']
  /\ bound' = p
  /\ reserved' = reserved \ AdmittedCalls
  /\ Forget
  /\ staged' = None
  /\ UNCHANGED <<enhanced, call>>

Next ==
  \/ SetMode \/ BeforeAgentStart \/ PrimaryMessage \/ AssistantMessage \/ Context
  \/ PrimaryTurnEnd \/ RecordDispatch \/ Unstage
  \/ \E s \in Side : SidecarMessage(s) \/ SidecarTurnEnd(s)
  \/ \E b \in Batch : Stage(b) \/ BatchMessage(b) \/ CommitBatch(b) \/ BatchTurnEnd(b)
  \/ \E c \in ToolCall :
       Admit(c) \/ Rollback(c) \/ ToolStart(c) \/ ToolResult(c)
  \/ SessionStart \/ Restart
  \/ \E p \in Project : Rebind(p)

Spec == Init /\ [][Next]_vars

\* The tools return and the model comes to a final reply, as often as it is
\* asked for one; nothing is assumed of the user, the host or the process.
Fairness ==
  /\ \A s \in Side : SF_vars(SidecarTurnEnd(s))
  /\ \A c \in ToolCall : WF_vars(ToolStart(c) \/ ToolResult(c))

FairSpec == Spec /\ Fairness

-----------------------------------------------------------------------------
\* Every variable stays within its type.
TypeOK ==
  /\ \A d \in {state} \cup Range(saved) :
       /\ d.phase \in [Request -> Phase]
       /\ d.dispatch \in [Side -> [revision : 0..2,
            state : {"none", "recorded", "admitted", "completed", "failed"},
            tool : {"none", "agent"}, counted : BOOLEAN, call : ToolCall \cup {None}]]
       /\ d.parent \in [Batch -> Request \cup {None}]
       /\ d.committed \subseteq Batch
       /\ Range(d.open) \subseteq Side
       /\ d.active \in Request \cup {None}
       /\ {d.primary, d.prompt, d.needs, d.restoring} \subseteq BOOLEAN
  /\ DOMAIN saved = Project
  /\ bound \in Project
  /\ enhanced \in BOOLEAN /\ awaiting \in BOOLEAN
  /\ owner \in [ToolCall -> [request : Request \cup {None}, revision : 0..2]]
  /\ seen \subseteq ToolCall
  /\ reserved \subseteq ToolCall
  /\ call \in [ToolCall -> {"none", "hooked", "started"}]
  /\ staged \in Batch \cup {None}

\* A dispatch in flight has a binding that will settle it, when the tool returns,
\* or, after a result that parity ignores, when the session starts again, and
\* capacity is reserved for no other call (sidecar-orchestration.ts:677, 709, 356).
DispatchOwned ==
  /\ \A s \in Side : LET d == state.dispatch[s] IN
       d.state = "admitted" => owner[d.call] = [request |-> s, revision |-> d.revision]
  /\ reserved \subseteq AdmittedCalls

\* A revision whose tool has left the hooks, started or ended, is never recorded
\* again, and one that is settled is never admitted again, across rollbacks,
\* changes of the mode, session starts and restarts: no decision runs its
\* children twice (sidecar-orchestration.ts:481, 614, 280).
NeverRunAgain ==
  [][bound' = bound =>
     \A s \in Side : LET d == state.dispatch[s]
                         e == state'.dispatch[s]
                         over == d.state \in {"completed", "failed"} IN
       /\ d.revision > 0
       /\ e.revision = d.revision
       /\ over \/ (d.state = "admitted" /\ call[d.call] # "hooked")
       => e.state # "recorded" /\ (over => e.state # "admitted")]_vars

\* What is saved of a primary with a prompt is accepted when it is read back,
\* where no text is repeated and unless a batch has begun and a follow-up is open:
\* the queue is that of the unfinished follow-ups in the order they came, the
\* first is active, the others wait (sidecar-orchestration-hydration.ts:22-56).
\* What parity saves has no prompt and is refused (sidecar-orchestration.ts:260).
QueueRestorable ==
  \A p \in Project :
    /\ Prompted(saved[p])
    /\ (\A b \in Batch : saved[p].phase[b] = "absent") \/ Unfinished(saved[p]) = {}
    => Restorable(saved[p])

\* The primary stays suspended as long as a follow-up is open and no longer, and
\* while one is, it or a batch that interposed is what the model answers, in
\* either mode (docs/architecture/runtime-orchestration.md:59).
PrimaryHeld ==
  /\ state.phase[Primary] = "suspended" => Unfinished(state) # {}
  /\ Unfinished(state) # {} => state.active \in Unfinished(state) \cup Batch

\* A project that was left has nothing unfinished that a return would revive,
\* neither a request nor a dispatch (sidecar-orchestration.ts:753-768).
LeftSettled ==
  \A p \in Project \ {bound} : Restorable(saved[p]) =>
    /\ Unfinished(saved[p]) = {}
    /\ ~saved[p].primary /\ ~saved[p].restoring
    /\ \A s \in Side : saved[p].dispatch[s].state \notin {"recorded", "admitted"}

\* A suspended primary comes back, whatever restarts and resets happen to the
\* follow-ups it waits for, unless a batch interposes, which keeps the turn when
\* it is answered without a decision, the mode becomes parity, or did so while a
\* tool ran: its result was ignored and its follow-up waits for it until the
\* session starts again (sidecar-orchestration.ts:899-906, 943-971,
\* sidecar-orchestration-context.ts:133-144).
SuspendedReturns ==
  state.phase[Primary] = "suspended" ~>
    \/ state.phase[Primary] # "suspended"
    \/ state.active \in Batch
    \/ ~enhanced
    \/ \E s \in Side : LET d == state.dispatch[s] IN
         d.state = "admitted" /\ owner[d.call].request = s /\ call[d.call] = "none"
=============================================================================
