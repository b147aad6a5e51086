---------------------- MODULE SidecarOrchestrationProofs ----------------------
(***************************************************************************)
(* What SidecarOrchestration keeps for every set of follow-ups, batches,   *)
(* tool calls and projects: the dispatch in flight is owned, none runs     *)
(* twice, a project that was left has nothing unfinished, a suspended      *)
(* primary waits for a follow-up that is answered, and what is saved can   *)
(* be read back.                                                           *)
(***************************************************************************)
EXTENDS SidecarOrchestration, FiniteSetTheorems, WellFoundedInduction, TLAPS

Dispatch ==
  [revision : Nat, state : {"none", "recorded", "admitted", "completed", "failed"},
   tool : {"none", "agent"}, counted : BOOLEAN, call : ToolCall \cup {None}]

\* What is written is a record of the kind Blank is.  What was never begun has no
\* dispatch, and neither the active request nor a parent or a primary is such.
Sound(d) ==
  /\ d \in [phase : [Request -> Phase], dispatch : [Side -> Dispatch], parent : {d.parent},
            committed : {d.committed}, open : {d.open}, active : {d.active},
            primary : BOOLEAN, prompt : {d.prompt}, needs : {d.needs}, restoring : BOOLEAN]
  /\ d.parent = [b \in Batch |-> d.parent[b]]
  /\ \A s \in Side : LET e == d.dispatch[s] IN
       /\ e.state # "none" => e.revision > 0
       /\ e.state = "admitted" => e.call \in ToolCall
       /\ d.phase[s] = "absent" => e.state = "none"
  /\ d.active \in Request => d.phase[d.active] # "absent"
  /\ \A b \in Batch : d.parent[b] \in Request => d.phase[d.parent[b]] # "absent"
  /\ d.primary => d.phase[Primary] # "absent"
  /\ d.restoring => d.primary

\* The file of the project that is bound: what is in memory, but for the active
\* request, unless it is one that is not accepted.
Tied ==
  Restorable(saved[bound]) =>
    /\ state.phase = saved[bound].phase /\ state.dispatch = saved[bound].dispatch
    /\ state.primary = saved[bound].primary /\ state.restoring = saved[bound].restoring

Files ==
  /\ bound \in Project
  /\ saved = [p \in Project |-> saved[p]]
  /\ Sound(state) /\ \A p \in Project : Sound(saved[p])
  /\ Tied
  /\ LeftSettled

\* Only tool calls of follow-ups have an owner; where no text is repeated,
\* capacity is reserved for what is in flight only.
Owners ==
  /\ owner \in [ToolCall -> [request : Request \cup {None}, revision : Nat]]
  /\ reserved \subseteq ToolCall
  /\ \A c \in ToolCall : owner[c].revision > 0 => owner[c].request \in Side
  /\ \A s \in Side : LET d == state.dispatch[s] IN
       d.state = "admitted" => owner[d.call] = [request |-> s, revision |-> d.revision]
  /\ ~Repeats => reserved \subseteq AdmittedCalls

IInv == Files /\ Owners

\* What a step makes of the dispatches, which NeverRunAgain states of all steps.
RunsOnce(d, e, begun) ==
  LET over == d.state \in {"completed", "failed"} IN
  /\ d.revision > 0
  /\ e.revision = d.revision
  /\ over \/ (d.state = "admitted" /\ begun)
  => e.state # "recorded" /\ (over => e.state # "admitted")

Kept ==
  bound' = bound =>
    \A s \in Side :
      RunsOnce(state.dispatch[s], state'.dispatch[s], call[state.dispatch[s].call] # "hooked")

-----------------------------------------------------------------------------
\* The empty state, with a primary that begins or without.
LEMMA BlankSound ==
  ASSUME NEW phase \in Phase \ {"absent"}, NEW prompt \in BOOLEAN, NEW needs \in BOOLEAN
  PROVE  /\ Sound(Blank) /\ Blank.dispatch = [s \in Side |-> NoDispatch]
         /\ LET new == [Blank EXCEPT !.phase[Primary] = phase, !.primary = TRUE,
                                     !.active = Primary, !.prompt = prompt, !.needs = needs]
            IN  Sound(new) /\ new.dispatch = Blank.dispatch
<1>1. Primary \in Request /\ Side \subseteq Request /\ NoDispatch \in Dispatch
  BY DEF Request, NoDispatch, Dispatch
<1>2. Sound(Blank) /\ Blank.dispatch = [s \in Side |-> NoDispatch]
  BY <1>1, SidecarAssumption DEF Blank, Sound, Phase, NoDispatch
<1>. DEFINE new == [Blank EXCEPT !.phase[Primary] = phase, !.primary = TRUE,
                                 !.active = Primary, !.prompt = prompt, !.needs = needs]
<1>3. /\ new.phase = [Blank.phase EXCEPT ![Primary] = phase] /\ new.dispatch = Blank.dispatch
      /\ new.parent = Blank.parent /\ new.primary = TRUE /\ new.restoring = FALSE
      /\ new.active = Primary
  BY DEF Blank
<1>4. Sound(new)
  <2>1. new \in [phase : [Request -> Phase], dispatch : [Side -> Dispatch],
                 parent : {new.parent}, committed : {new.committed}, open : {new.open},
                 active : {new.active}, primary : BOOLEAN, needs : {new.needs},
                 prompt : {new.prompt},
                 restoring : BOOLEAN]
    BY <1>1 DEF Blank, Phase
  <2>2. \A b \in Batch : new.parent[b] \notin Request
    BY <1>3, SidecarAssumption DEF Blank
  <2>3. new.phase[Primary] # "absent"
    BY <1>1, <1>3 DEF Blank
  <2>. QED  BY <1>2, <1>3, <2>1, <2>2, <2>3 DEF Sound, NoDispatch, Blank
<1>. QED  BY <1>2, <1>3, <1>4

\* A write to the file of the project that is bound.
LEMMA Written ==
  ASSUME NEW new, Files, Save(new), bound' = bound, Sound(new)
  PROVE  Files'
<1>1. /\ state' = new /\ saved' = [saved EXCEPT ![bound] = new]
      /\ saved'[bound] = new
      /\ \A p \in Project \ {bound} : saved'[p] = saved[p]
  BY DEF Files, Save
<1>2. Tied'
  BY <1>1 DEF Tied
<1>3. LeftSettled'
  BY <1>1 DEF Files, LeftSettled
<1>. QED  BY <1>1, <1>2, <1>3 DEF Files

\* A step that leaves every dispatch as it was.
LEMMA DispatchesKept ==
  ASSUME Owners, state'.dispatch = state.dispatch, owner' = owner,
         reserved' \subseteq reserved
  PROVE  Owners' /\ Kept
<1>1. Owners'
  BY DEF Owners, AdmittedCalls
<1>2. Kept
  BY DEF Kept, RunsOnce
<1>. QED  BY <1>1, <1>2

\* A step after which no dispatch is in flight.
LEMMA NoneInFlight ==
  ASSUME Owners, \A s \in Side : state'.dispatch[s].state # "admitted",
         owner' = owner \/ owner' = [c \in ToolCall |-> NoOwner],
         reserved' \subseteq reserved, ~Repeats => reserved' = {}
  PROVE  Owners'
<1>1. /\ owner' \in [ToolCall -> [request : Request \cup {None}, revision : Nat]]
      /\ \A c \in ToolCall : owner'[c].revision > 0 => owner'[c].request \in Side
  BY DEF Owners, NoOwner
<1>2. reserved' \subseteq ToolCall
  BY DEF Owners
<1>. QED  BY <1>1, <1>2 DEF Owners

\* State e is d with other phases, and with every dispatch as it was.
Rephased(d, e) ==
  /\ e \in [phase : [Request -> Phase], dispatch : {d.dispatch}, parent : {e.parent},
            committed : {e.committed}, open : {e.open}, active : {e.active},
            primary : {d.primary},
            prompt : {e.prompt}, needs : {e.needs}, restoring : {d.restoring, FALSE}]
  /\ \A r \in Request : d.phase[r] # "absent" => e.phase[r] # "absent"
  /\ e.active \in Request => e.phase[e.active] # "absent"
  /\ e.parent = [b \in Batch |-> e.parent[b]]
  /\ \A b \in Batch : e.parent[b] \in Request => e.phase[e.parent[b]] # "absent"

\* Such a state is as sound as the one before it.
LEMMA PhasesSound ==
  ASSUME NEW d, NEW e, Sound(d), Rephased(d, e)
  PROVE  Sound(e) /\ e.dispatch = d.dispatch
<1>1. Primary \in Request /\ Side \subseteq Request
  BY DEF Request
<1>2. e.phase \in [Request -> Phase] /\ e.dispatch = d.dispatch /\ e.primary = d.primary
      /\ e.restoring \in {d.restoring, FALSE}
  BY DEF Rephased
<1>3. e \in [phase : [Request -> Phase], dispatch : [Side -> Dispatch], parent : {e.parent},
             committed : {e.committed}, open : {e.open}, active : {e.active},
             primary : BOOLEAN, prompt : {e.prompt}, needs : {e.needs}, restoring : BOOLEAN]
  BY DEF Rephased, Sound
<1>4. \A s \in Side : LET x == e.dispatch[s] IN
        /\ x.state # "none" => x.revision > 0
        /\ x.state = "admitted" => x.call \in ToolCall
        /\ e.phase[s] = "absent" => x.state = "none"
  BY <1>1, <1>2 DEF Rephased, Sound
<1>5. /\ e.parent = [b \in Batch |-> e.parent[b]]
      /\ e.active \in Request => e.phase[e.active] # "absent"
      /\ \A b \in Batch : e.parent[b] \in Request => e.phase[e.parent[b]] # "absent"
  BY DEF Rephased
<1>6. (e.primary => e.phase[Primary] # "absent") /\ (e.restoring => e.primary)
  BY <1>1, <1>2 DEF Rephased, Sound
<1>. QED  BY <1>2, <1>3, <1>4, <1>5, <1>6 DEF Sound

-----------------------------------------------------------------------------
\* A restored or awaited primary is taken up.
LEMMA ActivateKeeps ==
  ASSUME IInv, Activate, bound' = bound, owner' = owner, reserved' = reserved
  PROVE  IInv' /\ Kept
<1>1. Sound(state) /\ Files /\ Owners /\ Primary \in Request
  BY DEF IInv, Files, Request
<1>2. PICK e : e = [state EXCEPT !.phase[Primary] = "active", !.active = Primary] /\ Save(e)
  BY DEF Activate
<1>3. /\ e \in [phase : [Request -> Phase], dispatch : {state.dispatch},
                parent : {e.parent}, committed : {e.committed}, open : {e.open},
                active : {e.active}, primary : {state.primary}, needs : {e.needs},
                prompt : {e.prompt},
                restoring : {state.restoring, FALSE}]
      /\ e.phase = [state.phase EXCEPT ![Primary] = "active"] /\ e.active = Primary
      /\ e.parent = state.parent /\ e.dispatch = state.dispatch
  BY <1>1, <1>2 DEF Sound, Phase
<1>4. Rephased(state, e)
  <2>1. /\ \A r \in Request : state.phase[r] # "absent" => e.phase[r] # "absent"
        /\ e.phase[Primary] # "absent"
        /\ e.parent = [b \in Batch |-> e.parent[b]]
    BY <1>1, <1>3 DEF Sound
  <2>2. \A b \in Batch : e.parent[b] \in Request => e.phase[e.parent[b]] # "absent"
    BY <1>1, <1>3, <2>1 DEF Sound
  <2>. QED  BY <1>3, <2>1, <2>2 DEF Rephased
<1>5. Files'
  BY <1>1, <1>2, <1>4, PhasesSound, Written
<1>6. state'.dispatch = state.dispatch
  BY <1>2, <1>3 DEF Save
<1>. QED  BY <1>1, <1>5, <1>6, DispatchesKept DEF IInv

\* A new primary begins, and every dispatch is gone.
LEMMA BeginKeeps ==
  ASSUME IInv, NEW phase \in Phase \ {"absent"}, NEW wait, NEW asked,
         Begin(phase, wait, asked), bound' = bound, owner' = owner
  PROVE  IInv' /\ Kept
<1>1. PICK prompt, needs \in BOOLEAN :
        Save([Blank EXCEPT !.phase[Primary] = phase, !.primary = TRUE,
                           !.active = Primary, !.prompt = prompt, !.needs = needs])
  BY DEF Begin
<1>2. Sound(state') /\ Save(state') /\ state'.dispatch = [s \in Side |-> NoDispatch]
  BY <1>1, BlankSound DEF Save
<1>3. Files'
  BY <1>2, Written DEF IInv
<1>4. reserved' = reserved \ AdmittedCalls /\ Owners
  BY DEF Begin, IInv
<1>5. Owners'
  BY <1>2, <1>4, NoneInFlight DEF Owners, NoDispatch
<1>6. Kept
  BY <1>2 DEF Kept, RunsOnce, NoDispatch
<1>. QED  BY <1>3, <1>5, <1>6 DEF IInv

\* The messages of the user that concern the primary.
LEMMA PrimaryKeeps ==
  ASSUME IInv, BeforeAgentStart \/ PrimaryMessage
  PROVE  IInv' /\ Kept
<1>1. {"awaiting_message", "active"} \subseteq Phase \ {"absent"}
  BY DEF Phase
<1>. QED  BY <1>1, ActivateKeeps, BeginKeeps DEF BeforeAgentStart, PrimaryMessage

\* A step that writes other phases, and no dispatch.
LEMMA PhasesKeep ==
  ASSUME IInv, NEW e, Save(e), UNCHANGED <<bound, memory>>, Rephased(state, e)
  PROVE  IInv' /\ Kept
<1>1. Sound(state) /\ Files /\ Owners
  BY DEF IInv, Files
<1>2. Sound(e) /\ e.dispatch = state.dispatch
  BY <1>1, PhasesSound
<1>3. Files'
  BY <1>1, <1>2, Written
<1>4. state'.dispatch = state.dispatch
  BY <1>2 DEF Save
<1>. QED  BY <1>1, <1>3, <1>4, DispatchesKept DEF IInv, memory

\* What they need to know of the state before it.
LEMMA StateSound ==
  ASSUME IInv
  PROVE  /\ state \in [phase : [Request -> Phase], dispatch : {state.dispatch},
                       parent : {state.parent}, committed : {state.committed},
                       open : {state.open}, active : {state.active},
                       primary : {state.primary}, needs : {state.needs},
                       prompt : {state.prompt},
                       restoring : {state.restoring}]
         /\ state.phase \in [Request -> Phase]
         /\ state.active \in Request => state.phase[state.active] # "absent"
         /\ state.parent = [b \in Batch |-> state.parent[b]]
         /\ \A b \in Batch :
              state.parent[b] \in Request => state.phase[state.parent[b]] # "absent"
         /\ state.primary => state.phase[Primary] # "absent"
  BY DEF IInv, Files, Sound

\* The messages of the model and the end of a turn of the primary.
LEMMA MessagesKeep ==
  ASSUME IInv, AssistantMessage \/ Context \/ PrimaryTurnEnd
  PROVE  IInv' /\ Kept
<1>1. CASE AssistantMessage
  <2>1. PICK e : Save(e) /\ (e = state \/ e = [state EXCEPT !.phase[state.active] = "active"])
    BY <1>1 DEF AssistantMessage
  <2>2. /\ e \in [phase : [Request -> Phase], dispatch : {state.dispatch},
                  parent : {e.parent}, committed : {e.committed}, open : {e.open},
                  active : {e.active}, primary : {state.primary}, prompt : {e.prompt},
                  needs : {e.needs}, restoring : {state.restoring, FALSE}]
        /\ e.phase = state.phase \/ e.phase = [state.phase EXCEPT ![state.active] = "active"]
        /\ e.parent = state.parent /\ e.active = state.active
    <3>1. CASE e = state
      BY <3>1, StateSound
    <3>2. CASE e = [state EXCEPT !.phase[state.active] = "active"]
      BY <3>2, StateSound DEF Phase
    <3>. QED  BY <2>1, <3>1, <3>2
  <2>3. /\ \A r \in Request : state.phase[r] # "absent" => e.phase[r] # "absent"
        /\ e.active \in Request => e.phase[e.active] # "absent"
    BY <2>2, StateSound
  <2>4. UNCHANGED <<bound, memory>>
    BY <1>1 DEF AssistantMessage
  <2>5. /\ e.parent = [b \in Batch |-> e.parent[b]]
        /\ \A b \in Batch : e.parent[b] \in Request => e.phase[e.parent[b]] # "absent"
    BY <2>2, <2>3, StateSound
  <2>6. Rephased(state, e)
    BY <2>2, <2>3, <2>5 DEF Rephased
  <2>. QED  BY <2>1, <2>4, <2>6, PhasesKeep
<1>2. CASE Context
  <2>1. PICK e : e = [state EXCEPT !.restoring = FALSE] /\ Save(e)
    BY <1>2 DEF Context
  <2>2. /\ e \in [phase : [Request -> Phase], dispatch : {state.dispatch},
                  parent : {e.parent}, committed : {e.committed}, open : {e.open},
                  active : {e.active}, primary : {state.primary}, needs : {e.needs},
                  prompt : {e.prompt},
                  restoring : {state.restoring, FALSE}]
        /\ e.phase = state.phase /\ e.parent = state.parent /\ e.active = state.active
    BY <2>1, StateSound
  <2>3. UNCHANGED <<bound, memory>>
    BY <1>2 DEF Context
  <2>4. Rephased(state, e)
    BY <2>2, StateSound DEF Rephased
  <2>. QED  BY <2>1, <2>3, <2>4, PhasesKeep
<1>3. CASE PrimaryTurnEnd
  <2>1. PICK more \in BOOLEAN :
          Save([state EXCEPT !.needs = more,
                             !.phase[Primary] = IF more THEN "active" ELSE "completed"])
    BY <1>3 DEF PrimaryTurnEnd
  <2>2. PICK phase \in {"active", "completed"} :
          phase = IF more THEN "active" ELSE "completed"
    OBVIOUS
  <2>3. PICK e : e = [state EXCEPT !.needs = more, !.phase[Primary] = phase] /\ Save(e)
    BY <2>1, <2>2
  <2>4. /\ e \in [phase : [Request -> Phase], dispatch : {state.dispatch},
                  parent : {e.parent}, committed : {e.committed}, open : {e.open},
                  active : {e.active}, primary : {state.primary}, needs : {e.needs},
                  prompt : {e.prompt},
                  restoring : {state.restoring, FALSE}]
        /\ e.phase = [state.phase EXCEPT ![Primary] = phase]
        /\ e.parent = state.parent /\ e.active = state.active
    BY <2>2, <2>3, StateSound DEF Phase
  <2>5. /\ \A r \in Request : state.phase[r] # "absent" => e.phase[r] # "absent"
        /\ e.active \in Request => e.phase[e.active] # "absent"
    BY <2>2, <2>4, StateSound
  <2>6. UNCHANGED <<bound, memory>>
    BY <1>3 DEF PrimaryTurnEnd
  <2>7. /\ e.parent = [b \in Batch |-> e.parent[b]]
        /\ \A b \in Batch : e.parent[b] \in Request => e.phase[e.parent[b]] # "absent"
    BY <2>4, <2>5, StateSound
  <2>8. Rephased(state, e)
    BY <2>4, <2>5, <2>7 DEF Rephased
  <2>. QED  BY <2>3, <2>6, <2>8, PhasesKeep
<1>. QED  BY <1>1, <1>2, <1>3

\* The life of a batch.
LEMMA BatchesKeep ==
  ASSUME IInv, NEW b \in Batch,
         Stage(b) \/ BatchMessage(b) \/ CommitBatch(b) \/ BatchTurnEnd(b)
  PROVE  IInv' /\ Kept
<1>1. b \in Request /\ Primary \in Request
  BY DEF Request
<1>2. ASSUME UNCHANGED <<state, saved, bound, memory>> PROVE IInv' /\ Kept
  <2>1. Files' /\ Owners' /\ Kept
    BY <1>2, DispatchesKept DEF IInv, Files, Tied, LeftSettled, memory
  <2>. QED  BY <2>1 DEF IInv
<1>3. CASE BatchMessage(b)
  <2>1. PICK e : /\ e = [state EXCEPT !.phase[b] = "active", !.parent[b] = state.active,
                                      !.active = b, !.restoring = FALSE]
                 /\ Save(e)
    BY <1>3 DEF BatchMessage
  <2>2. /\ e \in [phase : [Request -> Phase], dispatch : {state.dispatch},
                  parent : {e.parent}, committed : {e.committed}, open : {e.open},
                  active : {e.active}, primary : {state.primary}, needs : {e.needs},
                  prompt : {e.prompt},
                  restoring : {state.restoring, FALSE}]
        /\ e.phase = [state.phase EXCEPT ![b] = "active"] /\ e.active = b
        /\ e.parent = [state.parent EXCEPT ![b] = state.active]
    BY <2>1, StateSound DEF Phase
  <2>3. /\ \A r \in Request : state.phase[r] # "absent" => e.phase[r] # "absent"
        /\ e.phase[e.active] # "absent"
        /\ e.parent = [x \in Batch |-> e.parent[x]]
    BY <1>1, <2>2, StateSound
  <2>4. \A x \in Batch : e.parent[x] \in Request => e.phase[e.parent[x]] # "absent"
    BY <1>1, <2>2, <2>3, StateSound
  <2>5. UNCHANGED <<bound, memory>>
    BY <1>3 DEF BatchMessage
  <2>6. Rephased(state, e)
    BY <2>2, <2>3, <2>4 DEF Rephased
  <2>. QED  BY <2>1, <2>5, <2>6, PhasesKeep
<1>4. CASE CommitBatch(b)
  <2>1. PICK e : e = [state EXCEPT !.committed = @ \cup {b}] /\ Save(e)
    BY <1>4 DEF CommitBatch
  <2>2. /\ e \in [phase : [Request -> Phase], dispatch : {state.dispatch},
                  parent : {e.parent}, committed : {e.committed}, open : {e.open},
                  active : {e.active}, primary : {state.primary}, needs : {e.needs},
                  prompt : {e.prompt},
                  restoring : {state.restoring, FALSE}]
        /\ e.phase = state.phase /\ e.parent = state.parent /\ e.active = state.active
    BY <2>1, StateSound
  <2>3. UNCHANGED <<bound, memory>>
    BY <1>4 DEF CommitBatch
  <2>4. Rephased(state, e)
    BY <2>2, StateSound DEF Rephased
  <2>. QED  BY <2>1, <2>3, <2>4, PhasesKeep
<1>5. CASE BatchTurnEnd(b)
  <2>1. PICK next : next = CASE state.parent[b] # None -> state.parent[b]
                             [] state.parent[b] = None /\ state.primary -> Primary
                             [] OTHER -> b
    OBVIOUS
  <2>2. PICK e : e = [state EXCEPT !.phase[b] = "completed", !.active = next] /\ Save(e)
    BY <1>5, <2>1 DEF BatchTurnEnd
  <2>3. /\ e \in [phase : [Request -> Phase], dispatch : {state.dispatch},
                  parent : {e.parent}, committed : {e.committed}, open : {e.open},
                  active : {e.active}, primary : {state.primary}, needs : {e.needs},
                  prompt : {e.prompt},
                  restoring : {state.restoring, FALSE}]
        /\ e.phase = [state.phase EXCEPT ![b] = "completed"] /\ e.active = next
        /\ e.parent = state.parent
    BY <2>2, StateSound DEF Phase
  <2>4. \A r \in Request : state.phase[r] # "absent" => e.phase[r] # "absent"
    BY <2>3, StateSound
  <2>5. e.phase[b] # "absent"
    BY <1>1, <2>3, StateSound
  <2>6. next \in Request => e.phase[next] # "absent"
    BY <1>1, <2>1, <2>4, <2>5, StateSound
  <2>7. UNCHANGED <<bound, memory>>
    BY <1>5 DEF BatchTurnEnd
  <2>8. /\ e.parent = [x \in Batch |-> e.parent[x]]
        /\ \A x \in Batch : e.parent[x] \in Request => e.phase[e.parent[x]] # "absent"
    BY <2>3, <2>4, StateSound
  <2>9. Rephased(state, e)
    BY <2>3, <2>4, <2>6, <2>8 DEF Rephased
  <2>. QED  BY <2>2, <2>7, <2>9, PhasesKeep
<1>. QED  BY <1>2, <1>3, <1>4, <1>5 DEF Stage

-----------------------------------------------------------------------------
\* A step that writes the dispatch of one follow-up and nothing else.
Redispatched(s, x) ==
  [phase : {state.phase}, dispatch : {[state.dispatch EXCEPT ![s] = x]},
   parent : {state.parent}, committed : {state.committed}, open : {state.open},
   active : {state.active}, primary : {state.primary}, needs : {state.needs},
   prompt : {state.prompt},
   restoring : {state.restoring}]

\* A step that writes one dispatch of a follow-up that was begun.
LEMMA DispatchWritten ==
  ASSUME IInv, NEW s \in Side, NEW x \in Dispatch, x.state # "none", x.revision > 0,
         x.state = "admitted" => x.call \in ToolCall, state.phase[s] # "absent",
         NEW e \in Redispatched(s, x), Save(e), bound' = bound
  PROVE  /\ Files' /\ state.dispatch \in [Side -> Dispatch]
         /\ state'.dispatch = [state.dispatch EXCEPT ![s] = x]
<1>1. Sound(state) /\ Files
  BY DEF IInv, Files
<1>2. /\ e.phase = state.phase /\ e.dispatch = [state.dispatch EXCEPT ![s] = x]
      /\ e.parent = state.parent /\ e.active = state.active /\ e.primary = state.primary
      /\ e.restoring = state.restoring
  BY DEF Redispatched
<1>3. state.dispatch \in [Side -> Dispatch]
  BY <1>1 DEF Sound
<1>4. e \in [phase : [Request -> Phase], dispatch : [Side -> Dispatch], parent : {e.parent},
             committed : {e.committed}, open : {e.open}, active : {e.active},
             primary : BOOLEAN, prompt : {e.prompt}, needs : {e.needs}, restoring : BOOLEAN]
  BY <1>1, <1>2, <1>3 DEF Redispatched, Sound
<1>5. Sound(e)
  BY <1>1, <1>2, <1>3, <1>4 DEF Sound
<1>. QED  BY <1>1, <1>2, <1>3, <1>5, Written DEF Save

\* A follow-up comes in, with no dispatch.
LEMMA FollowUpKeeps ==
  ASSUME IInv, NEW s \in Side, SidecarMessage(s)
  PROVE  IInv' /\ Kept
<1>. DEFINE busy == state.active \in Side /\ state.phase[state.active] # "completed"
            phases == [state.phase EXCEPT
                         ![Primary] = IF @ = "completed" THEN @ ELSE "suspended",
                         ![s] = IF busy THEN "waiting" ELSE "active"]
            next == IF busy THEN state.active ELSE s
            e == [state EXCEPT !.phase = phases, !.dispatch[s] = NoDispatch,
                               !.open = Append(@, s), !.active = next, !.restoring = FALSE]
<1>1. Sound(state) /\ Files /\ Owners /\ s \in Request /\ Primary \in Request
  BY DEF IInv, Files, Request
<1>2. Save(e) /\ UNCHANGED <<bound, memory>>
  BY DEF SidecarMessage
<1>3. Repeats \/ state.phase[s] = "absent"
  BY DEF SidecarMessage
<1>4. /\ phases \in [Request -> Phase] /\ phases[s] # "absent"
      /\ \A r \in Request : state.phase[r] # "absent" => phases[r] # "absent"
  BY <1>1 DEF Sound, Phase
<1>5. NoDispatch \in Dispatch /\ NoDispatch.state = "none" /\ NoDispatch.revision = 0
  BY DEF NoDispatch, Dispatch
<1>6. next \in Request => phases[next] # "absent"
  BY <1>1, <1>4 DEF Sound
<1>. HIDE DEF phases, next
<1>7. /\ e \in [phase : {phases}, dispatch : [Side -> Dispatch], parent : {state.parent},
                committed : {e.committed}, open : {e.open}, active : {next},
                primary : {state.primary},
                prompt : {e.prompt}, needs : {e.needs}, restoring : {FALSE}]
      /\ e.dispatch = [state.dispatch EXCEPT ![s] = NoDispatch]
  BY <1>1, <1>5 DEF Sound
<1>. HIDE DEF e
<1>8. e.phase = phases /\ e.parent = state.parent /\ e.active = next
      /\ e.primary = state.primary /\ e.restoring = FALSE
  BY <1>7
<1>9. Sound(e)
  <2>1. e \in [phase : [Request -> Phase], dispatch : [Side -> Dispatch], parent : {e.parent},
               committed : {e.committed}, open : {e.open}, active : {e.active},
               primary : BOOLEAN,
               prompt : {e.prompt}, needs : {e.needs}, restoring : BOOLEAN]
    BY <1>1, <1>4, <1>7 DEF Sound
  <2>2. \A x \in Side : LET y == e.dispatch[x] IN
          /\ y.state # "none" => y.revision > 0
          /\ y.state = "admitted" => y.call \in ToolCall
          /\ e.phase[x] = "absent" => y.state = "none"
    BY <1>1, <1>4, <1>5, <1>7, <1>8 DEF Sound, Request
  <2>. QED  BY <1>1, <1>4, <1>6, <1>8, <2>1, <2>2 DEF Sound
<1>10. Files'
  BY <1>1, <1>2, <1>9, Written
<1>11. state'.dispatch = [state.dispatch EXCEPT ![s] = NoDispatch]
       /\ state.dispatch \in [Side -> Dispatch]
  BY <1>1, <1>2, <1>7 DEF Save, Sound
<1>12. ~Repeats => AdmittedCalls \subseteq AdmittedCalls'
  BY <1>1, <1>3, <1>11 DEF AdmittedCalls, Sound
<1>13. Owners'
  BY <1>1, <1>2, <1>5, <1>11, <1>12 DEF Owners, memory
<1>14. Kept
  BY <1>5, <1>11 DEF Kept, RunsOnce
<1>. QED  BY <1>10, <1>13, <1>14 DEF IInv

\* A dispatch is recorded for the active follow-up.
LEMMA RecordKeeps ==
  ASSUME IInv, RecordDispatch
  PROVE  IInv' /\ Kept
<1>1. PICK s \in Side : s = state.active
  BY SidecarAssumption DEF RecordDispatch
<1>2. /\ Sound(state) /\ Owners /\ state.phase[s] # "absent"
      /\ state.dispatch[s] \in Dispatch /\ state.dispatch[s].revision \in Nat
  BY <1>1 DEF IInv, Files, Sound, Request, Dispatch
<1>3. PICK d \in Decisions :
        /\ state.dispatch[s].state # "admitted"
        /\ Save([state EXCEPT !.dispatch[s] =
             [revision |-> state.dispatch[s].revision + 1, state |-> "recorded",
              tool |-> d.tool, counted |-> d.counted, call |-> None]])
  BY <1>1 DEF RecordDispatch
<1>4. d.tool \in {"none", "agent"} /\ d.counted \in BOOLEAN
  BY DEF Decisions, Evidence
<1>5. PICK x : x = [revision |-> state.dispatch[s].revision + 1, state |-> "recorded",
                    tool |-> d.tool, counted |-> d.counted, call |-> None]
  OBVIOUS
<1>6. x \in Dispatch /\ x.state = "recorded" /\ x.revision = state.dispatch[s].revision + 1
  BY <1>2, <1>4, <1>5 DEF Dispatch
<1>7. PICK e : e = [state EXCEPT !.dispatch[s] = x] /\ Save(e)
  BY <1>3, <1>5
<1>8. e \in Redispatched(s, x)
  BY <1>2, <1>7 DEF Redispatched, Sound
<1>9. /\ Files' /\ state.dispatch \in [Side -> Dispatch]
      /\ state'.dispatch = [state.dispatch EXCEPT ![s] = x]
  BY <1>2, <1>6, <1>7, <1>8, DispatchWritten DEF RecordDispatch
<1>10. AdmittedCalls \subseteq AdmittedCalls'
  BY <1>3, <1>9 DEF AdmittedCalls
<1>11. Owners'
  BY <1>2, <1>6, <1>9, <1>10 DEF Owners, RecordDispatch, memory
<1>12. Kept
  BY <1>2, <1>6, <1>9 DEF Kept, RunsOnce
<1>. QED  BY <1>9, <1>11, <1>12 DEF IInv

\* A recorded dispatch is admitted for a tool call.
LEMMA AdmitKeeps ==
  ASSUME IInv, NEW c \in ToolCall, Admit(c)
  PROVE  IInv' /\ Kept
<1>1. PICK s \in Side : s = state.active
  BY DEF Admit
<1>2. /\ Sound(state) /\ Owners /\ state.phase[s] # "absent"
      /\ state.dispatch[s] \in Dispatch /\ state.dispatch[s].revision \in Nat
      /\ state.dispatch[s].state = "recorded" /\ state.dispatch[s].revision > 0
  BY <1>1 DEF IInv, Files, Sound, Request, Dispatch, Admit
<1>3. PICK x : x = [state.dispatch[s] EXCEPT !.state = "admitted", !.call = c]
  OBVIOUS
<1>4. /\ x \in Dispatch /\ x.state = "admitted" /\ x.call = c
      /\ x.revision = state.dispatch[s].revision
  BY <1>2, <1>3 DEF Dispatch
<1>5. PICK e : /\ e = [state EXCEPT !.dispatch[s].state = "admitted", !.dispatch[s].call = c]
               /\ Save(e)
  BY <1>1 DEF Admit
<1>6. e \in Redispatched(s, x)
  BY <1>2, <1>3, <1>5 DEF Redispatched, Sound, Dispatch
<1>7. /\ Files' /\ state.dispatch \in [Side -> Dispatch]
      /\ state'.dispatch = [state.dispatch EXCEPT ![s] = x]
  BY <1>2, <1>4, <1>5, <1>6, DispatchWritten DEF Admit
<1>8. /\ owner' = [owner EXCEPT ![c] = [request |-> s, revision |-> x.revision]]
      /\ reserved' = reserved \cup {c} /\ owner[c].revision = 0
  BY <1>1, <1>4 DEF Admit, Unused, NoOwner
<1>9. AdmittedCalls \cup {c} \subseteq AdmittedCalls'
  BY <1>2, <1>4, <1>7 DEF AdmittedCalls
<1>10. Owners'
  <2>1. s \in Request \cup {None} /\ x.revision \in Nat
    BY <1>2, <1>4 DEF Request
  <2>2. owner' \in [ToolCall -> [request : Request \cup {None}, revision : Nat]]
    BY <1>2, <1>8, <2>1 DEF Owners
  <2>3. \A y \in ToolCall : owner'[y].revision > 0 => owner'[y].request \in Side
    BY <1>2, <1>8, <2>1 DEF Owners
  <2>4. ASSUME NEW y \in Side, state'.dispatch[y].state = "admitted"
        PROVE  owner'[state'.dispatch[y].call] =
                 [request |-> y, revision |-> state'.dispatch[y].revision]
    <3>1. CASE y = s
      BY <1>2, <1>4, <1>7, <1>8, <3>1 DEF Owners
    <3>2. CASE y # s
      <4>1. /\ state'.dispatch[y] = state.dispatch[y]
            /\ state.dispatch[y].revision > 0
            /\ state.dispatch[y].call \in ToolCall
        BY <1>2, <1>7, <2>4, <3>2 DEF Sound
      <4>2. owner[state.dispatch[y].call] = [request |-> y, revision |-> state.dispatch[y].revision]
        BY <1>2, <2>4, <4>1 DEF Owners
      <4>. QED  BY <1>2, <1>8, <4>1, <4>2 DEF Owners
    <3>. QED  BY <3>1, <3>2
  <2>. QED  BY <1>2, <1>8, <1>9, <2>2, <2>3, <2>4 DEF Owners
<1>11. Kept
  BY <1>2, <1>4, <1>7 DEF Kept, RunsOnce
<1>. QED  BY <1>7, <1>10, <1>11 DEF IInv

\* A call that a follow-up waits for comes to its end.
LEMMA AwaitedEnds ==
  ASSUME IInv, NEW c \in ToolCall, Awaited(c), NEW outcome \in {"recorded", "completed", "failed"},
         Save([state EXCEPT !.dispatch[owner[c].request].state = outcome,
                            !.dispatch[owner[c].request].call = None]),
         bound' = bound, owner' = [owner EXCEPT ![c] = NoOwner], reserved' = reserved \ {c},
         outcome = "recorded" => call[c] = "hooked"
  PROVE  IInv' /\ Kept
<1>1. PICK s \in Side : s = owner[c].request
  BY DEF IInv, Owners, Awaited
<1>2. /\ Sound(state) /\ Owners
      /\ state.dispatch[s] \in Dispatch /\ state.dispatch[s].revision \in Nat
      /\ state.dispatch[s].state = "admitted" /\ state.dispatch[s].revision > 0
      /\ state.dispatch[s].call = c
  BY <1>1 DEF IInv, Files, Sound, Dispatch, Awaited
<1>3. state.phase[s] # "absent"
  BY <1>2 DEF Sound
<1>4. PICK x : x = [state.dispatch[s] EXCEPT !.state = outcome, !.call = None]
  OBVIOUS
<1>5. x \in Dispatch /\ x.state = outcome /\ x.revision = state.dispatch[s].revision
  BY <1>2, <1>4 DEF Dispatch
<1>6. PICK e : /\ e = [state EXCEPT !.dispatch[s].state = outcome, !.dispatch[s].call = None]
               /\ Save(e)
  BY <1>1
<1>7. e \in Redispatched(s, x)
  BY <1>2, <1>4, <1>6 DEF Redispatched, Sound, Dispatch
<1>8. /\ Files' /\ state.dispatch \in [Side -> Dispatch]
      /\ state'.dispatch = [state.dispatch EXCEPT ![s] = x]
  BY <1>2, <1>3, <1>5, <1>6, <1>7, DispatchWritten
<1>9. ASSUME NEW y \in Side, y # s, state.dispatch[y].state = "admitted"
      PROVE  /\ state.dispatch[y].call \in ToolCall \ {c}
             /\ state'.dispatch[y] = state.dispatch[y]
             /\ owner'[state.dispatch[y].call] =
                  [request |-> y, revision |-> state.dispatch[y].revision]
  <2>1. state.dispatch[y].call \in ToolCall /\ state'.dispatch[y] = state.dispatch[y]
    BY <1>2, <1>8, <1>9 DEF Sound
  <2>2. owner[state.dispatch[y].call] =
          [request |-> y, revision |-> state.dispatch[y].revision]
    BY <1>2, <1>9 DEF Owners
  <2>3. state.dispatch[y].call # c
    BY <1>1, <1>9, <2>2
  <2>. QED  BY <1>2, <2>1, <2>2, <2>3 DEF Owners
<1>10. Owners'
  <2>1. /\ owner' \in [ToolCall -> [request : Request \cup {None}, revision : Nat]]
        /\ \A y \in ToolCall : owner'[y].revision > 0 => owner'[y].request \in Side
    BY <1>2 DEF Owners, NoOwner
  <2>2. \A y \in Side : state'.dispatch[y].state = "admitted" =>
          y # s /\ state.dispatch[y].state = "admitted"
    BY <1>5, <1>8
  <2>3. ASSUME ~Repeats, NEW k \in reserved'
        PROVE  k \in AdmittedCalls'
    <3>1. PICK y \in Side : state.dispatch[y].state = "admitted" /\ state.dispatch[y].call = k
      BY <1>2, <2>3 DEF Owners, AdmittedCalls
    <3>2. state'.dispatch[y].state = "admitted" /\ state'.dispatch[y].call = k
      BY <1>2, <1>9, <2>3, <3>1
    <3>. QED  BY <3>2 DEF AdmittedCalls
  <2>. QED  BY <1>2, <1>9, <2>1, <2>2, <2>3 DEF Owners
<1>11. Kept
  BY <1>2, <1>5, <1>8 DEF Kept, RunsOnce
<1>. QED  BY <1>8, <1>10, <1>11 DEF IInv

\* A call that none waits for: what is forgotten of it settles no dispatch.
LEMMA OthersEnd ==
  ASSUME IInv, NEW c \in ToolCall, ~Awaited(c), UNCHANGED <<state, saved, bound>>,
         owner' = [owner EXCEPT ![c] = NoOwner] \/ owner' = owner,
         reserved' = reserved \ {c} \/ reserved' = reserved
  PROVE  IInv' /\ Kept
<1>1. Sound(state) /\ Owners /\ Files
  BY DEF IInv, Files
<1>2. Files'
  BY <1>1 DEF Files, Tied, LeftSettled
<1>3. /\ owner' \in [ToolCall -> [request : Request \cup {None}, revision : Nat]]
      /\ \A y \in ToolCall : owner'[y].revision > 0 => owner'[y].request \in Side
  BY <1>1 DEF Owners, NoOwner
<1>4. ASSUME NEW s \in Side, state.dispatch[s].state = "admitted"
      PROVE  owner'[state.dispatch[s].call] =
               [request |-> s, revision |-> state.dispatch[s].revision]
  <2>1. owner[state.dispatch[s].call] =
          [request |-> s, revision |-> state.dispatch[s].revision]
    BY <1>1, <1>4 DEF Owners
  <2>2. state.dispatch[s].revision > 0 /\ state.dispatch[s].call \in ToolCall
    BY <1>1, <1>4 DEF Sound
  <2>3. state.dispatch[s].call # c
    BY <1>4, <2>1, <2>2 DEF Awaited
  <2>. QED  BY <1>1, <2>1, <2>2, <2>3 DEF Owners
<1>5. Owners'
  BY <1>1, <1>3, <1>4 DEF Owners, AdmittedCalls
<1>6. Kept
  BY DEF Kept, RunsOnce
<1>. QED  BY <1>2, <1>5, <1>6 DEF IInv

\* A tool call is rolled back, starts or returns.
LEMMA ToolCallsKeep ==
  ASSUME IInv, NEW c \in ToolCall, Rollback(c) \/ ToolStart(c) \/ ToolResult(c)
  PROVE  IInv' /\ Kept
<1>1. CASE Rollback(c)
  <2>1. CASE Awaited(c)
    BY <1>1, <2>1, AwaitedEnds DEF Rollback
  <2>2. CASE ~Awaited(c)
    BY <1>1, <2>2, OthersEnd DEF Rollback
  <2>. QED  BY <2>1, <2>2
<1>2. CASE ToolStart(c)
  <2>1. Files'
    BY <1>2 DEF ToolStart, IInv, Files, Tied, LeftSettled
  <2>2. Owners' /\ Kept
    BY <1>2, DispatchesKept DEF ToolStart, IInv
  <2>. QED  BY <2>1, <2>2 DEF IInv
<1>3. CASE ToolResult(c)
  <2>1. CASE enhanced /\ Awaited(c)
    <3>1. PICK outcome \in {"completed", "failed"} :
            Save([state EXCEPT !.dispatch[owner[c].request].state = outcome,
                               !.dispatch[owner[c].request].call = None])
      BY <1>3, <2>1 DEF ToolResult
    <3>. QED  BY <1>3, <2>1, <3>1, AwaitedEnds DEF ToolResult
  <2>2. CASE enhanced /\ ~Awaited(c)
    BY <1>3, <2>2, OthersEnd DEF ToolResult
  <2>3. CASE ~enhanced
    <3>1. Files'
      BY <1>3, <2>3 DEF ToolResult, IInv, Files, Tied, LeftSettled
    <3>2. Owners' /\ Kept
      BY <1>3, <2>3, DispatchesKept DEF ToolResult, IInv
    <3>. QED  BY <3>1, <3>2 DEF IInv
  <2>. QED  BY <2>1, <2>2, <2>3
<1>. QED  BY <1>1, <1>2, <1>3

-----------------------------------------------------------------------------
\* A follow-up whose tool is not in flight is settled with its reply.
Replied(s, x, phases, next, restoring) ==
  [phase : {phases}, dispatch : {[state.dispatch EXCEPT ![s] = x]}, parent : {state.parent},
   committed : {state.committed}, open : {state'.open}, active : {next},
   primary : {state.primary},
   prompt : {state.prompt}, needs : {state.needs}, restoring : {restoring}]

\* What the reply to a follow-up writes is sound.
LEMMA ReplyWritten ==
  ASSUME IInv, NEW s \in Side, state.dispatch[s].state # "admitted",
         NEW x, x = Settled(state.dispatch[s]),
         NEW phases \in [Request -> Phase], phases[s] # "absent",
         \A r \in Request : state.phase[r] # "absent" => phases[r] # "absent",
         NEW next, next \in Request => phases[next] # "absent",
         NEW restoring \in BOOLEAN, restoring => state.restoring \/ state.primary,
         Save(state'), state' \in Replied(s, x, phases, next, restoring),
         UNCHANGED <<bound, memory>>
  PROVE  IInv' /\ Kept
<1>1. /\ Sound(state) /\ Files /\ Owners /\ state.dispatch \in [Side -> Dispatch]
  BY DEF IInv, Files, Sound
<1>2. /\ x \in Dispatch /\ x.state \notin {"recorded", "admitted"}
      /\ x.revision = state.dispatch[s].revision
      /\ x.state # "none" => x.revision > 0
      /\ state.dispatch[s].state \in {"completed", "failed"} => x.state = state.dispatch[s].state
  <2>1. /\ state.dispatch[s] \in Dispatch
        /\ state.dispatch[s].state # "none" => state.dispatch[s].revision > 0
    BY <1>1 DEF Sound
  <2>. QED  BY <2>1 DEF Settled, Dispatch
<1>3. /\ state'.phase = phases /\ state'.dispatch = [state.dispatch EXCEPT ![s] = x]
      /\ state'.parent = state.parent /\ state'.active = next
      /\ state'.primary = state.primary /\ state'.restoring = restoring
  BY DEF Replied
<1>4. Sound(state')
  <2>1. state' \in [phase : [Request -> Phase], dispatch : [Side -> Dispatch],
                    parent : {state'.parent}, committed : {state'.committed},
                    open : {state'.open}, active : {state'.active}, primary : BOOLEAN,
                    prompt : {state'.prompt}, needs : {state'.needs}, restoring : BOOLEAN]
    BY <1>1, <1>2, <1>3 DEF Replied, Sound
  <2>2. \A y \in Side : LET e == state'.dispatch[y] IN
          /\ e.state # "none" => e.revision > 0
          /\ e.state = "admitted" => e.call \in ToolCall
          /\ state'.phase[y] = "absent" => e.state = "none"
    BY <1>1, <1>2, <1>3 DEF Sound, Request
  <2>. QED  BY <1>1, <1>3, <2>1, <2>2 DEF Sound, Request
<1>5. Files'
  BY <1>1, <1>4, Written
<1>6. AdmittedCalls \subseteq AdmittedCalls'
  BY <1>1, <1>3 DEF AdmittedCalls
<1>7. Owners'
  BY <1>1, <1>2, <1>3, <1>6 DEF Owners, memory
<1>8. Kept
  BY <1>1, <1>2, <1>3 DEF Kept, RunsOnce
<1>. QED  BY <1>5, <1>7, <1>8 DEF IInv

\* The reply to a follow-up, whatever goes on after it.
LEMMA ReplyKeeps ==
  ASSUME IInv, NEW s \in Side, SidecarTurnEnd(s)
  PROVE  IInv' /\ Kept
<1>1. /\ Sound(state) /\ s \in Request /\ Primary \in Request
      /\ state.dispatch[s].state # "admitted" /\ UNCHANGED <<bound, memory>>
  BY DEF IInv, Files, Request, SidecarTurnEnd
<1>. DEFINE queue == IF s \in Range(state.open) THEN RemoveLast(state.open, s) ELSE state.open
            others == OpenBut(s, queue)
            goesOn == state.primary /\ state.needs /\ state.phase[Primary] # "completed"
            over == [state EXCEPT !.phase[s] = "completed", !.dispatch[s] = Settled(@),
                                  !.open = queue]
            Following(open, left, restored, done) ==
              CASE left # {} ->
                     [done EXCEPT !.phase[open[Min(left)]] = "active",
                                  !.active = open[Min(left)],
                                  !.restoring = FALSE]
                [] left = {} /\ restored ->
                     [done EXCEPT !.phase[Primary] = "active", !.active = Primary,
                                  !.restoring = TRUE]
                [] left = {} /\ ~restored /\ state.primary ->
                     [done EXCEPT !.phase[Primary] = "completed", !.active = Primary]
                [] OTHER -> done
<1>. HIDE DEF Following
<1>saved. Save(Following(queue, others, goesOn, over))
  BY DEF SidecarTurnEnd, Following
<1>2. PICK open, left, restored, done :
        /\ restored => state.primary
        /\ done = [state EXCEPT !.phase[s] = "completed", !.dispatch[s] = Settled(@),
                                !.open = open]
        /\ Save(Following(open, left, restored, done))
  BY <1>saved
<1>3. PICK x : x = Settled(state.dispatch[s])
  OBVIOUS
<1>4. PICK phase : phase = [state.phase EXCEPT ![s] = "completed"]
  OBVIOUS
<1>5. /\ phase \in [Request -> Phase] /\ phase[s] # "absent"
      /\ \A r \in Request : state.phase[r] # "absent" => phase[r] # "absent"
  BY <1>1, <1>4 DEF Sound, Phase
<1>6. done \in [phase : {phase}, dispatch : {[state.dispatch EXCEPT ![s] = x]},
                parent : {state.parent}, committed : {state.committed}, open : {done.open},
                active : {state.active}, primary : {state.primary}, needs : {state.needs},
                prompt : {state.prompt},
                restoring : {state.restoring}]
  BY <1>1, <1>2, <1>3, <1>4 DEF Sound
<1>7. CASE left # {}
  <2>1. PICK next : next = open[Min(left)]
    OBVIOUS
  <2>2. PICK phases : phases = [phase EXCEPT ![next] = "active"]
    OBVIOUS
  <2>3. Save([done EXCEPT !.phase[next] = "active", !.active = next, !.restoring = FALSE])
    BY <1>2, <1>7, <2>1 DEF Following
  <2>4. Save(state') /\ state' \in Replied(s, x, phases, next, FALSE)
    BY <1>6, <2>2, <2>3 DEF Replied, Save
  <2>5. /\ phases \in [Request -> Phase] /\ phases[s] # "absent"
        /\ \A r \in Request : state.phase[r] # "absent" => phases[r] # "absent"
        /\ next \in Request => phases[next] # "absent"
    BY <1>1, <1>5, <2>2 DEF Phase
  <2>. QED  BY <1>1, <1>3, <2>4, <2>5, ReplyWritten
<1>8. CASE left = {} /\ restored
  <2>1. PICK phases : phases = [phase EXCEPT ![Primary] = "active"]
    OBVIOUS
  <2>2. Save([done EXCEPT !.phase[Primary] = "active", !.active = Primary, !.restoring = TRUE])
    BY <1>2, <1>8 DEF Following
  <2>3. Save(state') /\ state' \in Replied(s, x, phases, Primary, TRUE)
    BY <1>6, <2>1, <2>2 DEF Replied, Save
  <2>4. /\ phases \in [Request -> Phase] /\ phases[s] # "absent"
        /\ \A r \in Request : state.phase[r] # "absent" => phases[r] # "absent"
        /\ phases[Primary] # "absent"
    BY <1>1, <1>5, <2>1 DEF Phase
  <2>. QED  BY <1>1, <1>2, <1>3, <1>8, <2>3, <2>4, ReplyWritten
<1>9. CASE left = {} /\ ~restored /\ state.primary
  <2>1. PICK phases : phases = [phase EXCEPT ![Primary] = "completed"]
    OBVIOUS
  <2>2. Save([done EXCEPT !.phase[Primary] = "completed", !.active = Primary])
    BY <1>2, <1>9 DEF Following
  <2>3. Save(state') /\ state' \in Replied(s, x, phases, Primary, state.restoring)
    BY <1>6, <2>1, <2>2 DEF Replied, Save
  <2>4. /\ phases \in [Request -> Phase] /\ phases[s] # "absent"
        /\ \A r \in Request : state.phase[r] # "absent" => phases[r] # "absent"
        /\ phases[Primary] # "absent"
    BY <1>1, <1>5, <2>1 DEF Phase
  <2>. QED  BY <1>1, <1>3, <2>3, <2>4, ReplyWritten DEF Sound
<1>10. CASE left = {} /\ ~restored /\ ~state.primary
  <2>1. Save(done)
    BY <1>2, <1>10 DEF Following
  <2>2. Save(state') /\ state' \in Replied(s, x, phase, state.active, state.restoring)
    BY <1>6, <2>1 DEF Replied, Save
  <2>3. state.active \in Request => phase[state.active] # "absent"
    BY <1>1, <1>5 DEF Sound
  <2>. QED  BY <1>1, <1>3, <1>5, <2>2, <2>3, ReplyWritten DEF Sound
<1>. QED  BY <1>7, <1>8, <1>9, <1>10

-----------------------------------------------------------------------------
\* What is read back: nothing is in flight, and what was over stays so.
LEMMA HydratedSound ==
  ASSUME NEW d, Sound(d)
  PROVE  /\ Sound(Hydrated(d))
         /\ \A s \in Side : Hydrated(d).dispatch[s].state # "admitted"
         /\ ~Restorable(d) => Hydrated(d).dispatch = [s \in Side |-> NoDispatch]
         /\ Restorable(d) =>
              /\ Hydrated(d).phase = d.phase /\ Hydrated(d).primary = d.primary
              /\ Hydrated(d).restoring = d.restoring
              /\ \A s \in Side : RunsOnce(d.dispatch[s], Hydrated(d).dispatch[s], TRUE)
<1>1. CASE ~Restorable(d)
  <2>1. "active" \in Phase \ {"absent"} /\ TRUE \in BOOLEAN
    BY DEF Phase
  <2>2. Sound(Blank) /\ Blank.dispatch = [s \in Side |-> NoDispatch]
    BY <2>1, BlankSound
  <2>3. Hydrated(d) = Blank
    BY <1>1 DEF Hydrated
  <2>4. \A s \in Side : Blank.dispatch[s].state # "admitted"
    BY <2>2 DEF NoDispatch
  <2>. QED  BY <1>1, <2>2, <2>3, <2>4
<1>2. CASE Restorable(d)
  <2>1. PICK ds : ds = [s \in Side |-> Reloaded(d.dispatch[s], d.phase[s])]
    OBVIOUS
  <2>2. PICK next : next = IF d.active = None /\ d.primary THEN Primary ELSE d.active
    OBVIOUS
  <2>3. ASSUME NEW s \in Side
        PROVE  /\ ds[s] \in Dispatch /\ ds[s].state # "admitted"
               /\ ds[s].state = "none" <=> d.dispatch[s].state = "none"
               /\ ds[s].revision = d.dispatch[s].revision
               /\ RunsOnce(d.dispatch[s], ds[s], TRUE)
    <3>1. d.dispatch[s] \in Dispatch
      BY DEF Sound
    <3>2. ds[s] = Reloaded(d.dispatch[s], d.phase[s])
      BY <2>1
    <3>3. PICK y : y = d.dispatch[s]
      OBVIOUS
    <3>4. CASE ds[s] = y /\ y.state # "admitted"
      BY <3>1, <3>3, <3>4 DEF RunsOnce
    <3>5. CASE ds[s] = [y EXCEPT !.state = "failed", !.tool = "none", !.counted = FALSE,
                                 !.call = None] /\ y.state # "none"
      BY <3>1, <3>3, <3>5 DEF RunsOnce, Dispatch
    <3>6. CASE ds[s] = [y EXCEPT !.state = "failed", !.call = None] /\ y.state # "none"
      BY <3>1, <3>3, <3>6 DEF RunsOnce, Dispatch
    <3>7. \/ ds[s] = y /\ y.state # "admitted"
          \/ ds[s] = [y EXCEPT !.state = "failed", !.tool = "none", !.counted = FALSE,
                               !.call = None] /\ y.state # "none"
          \/ ds[s] = [y EXCEPT !.state = "failed", !.call = None] /\ y.state # "none"
      <4>1. y.counted \in BOOLEAN
        BY <3>1, <3>3 DEF Dispatch
      <4>2. PICK phase : phase = d.phase[s]
        OBVIOUS
      <4>3. ds[s] = Reloaded(y, phase)
        BY <3>2, <3>3, <4>2
      <4>4. CASE y.state = "none"
        BY <4>3, <4>4 DEF Reloaded
      <4>5. CASE \/ y.state # "none" /\ ~y.counted
                 \/ phase = "completed" /\ y.state \in {"recorded", "admitted"}
        BY <4>3, <4>5 DEF Reloaded
      <4>6. CASE y.counted /\ phase # "completed" /\ y.state = "admitted"
        BY <4>3, <4>6 DEF Reloaded
      <4>. QED  BY <4>1, <4>3, <4>4, <4>5, <4>6 DEF Reloaded
    <3>. QED  BY <3>4, <3>5, <3>6, <3>7
  <2>4. Hydrated(d) = [d EXCEPT !.dispatch = ds, !.active = next]
    BY <1>2, <2>1, <2>2 DEF Hydrated
  <2>5. Hydrated(d) \in [phase : {d.phase}, dispatch : {ds}, parent : {d.parent},
                         committed : {d.committed}, open : {d.open}, active : {next},
                         primary : {d.primary},
                         prompt : {d.prompt}, needs : {d.needs}, restoring : {d.restoring}]
    BY <2>4 DEF Sound
  <2>6. ds \in [Side -> Dispatch]
    BY <2>1, <2>3
  <2>7. PICK e : e = Hydrated(d)
    OBVIOUS
  <2>8. /\ e.phase = d.phase /\ e.dispatch = ds /\ e.parent = d.parent /\ e.active = next
        /\ e.primary = d.primary /\ e.restoring = d.restoring
    BY <2>5, <2>7
  <2>9. e \in [phase : [Request -> Phase], dispatch : [Side -> Dispatch], parent : {e.parent},
               committed : {e.committed}, open : {e.open}, active : {e.active},
               primary : BOOLEAN,
               prompt : {e.prompt}, needs : {e.needs}, restoring : BOOLEAN]
    BY <2>5, <2>6, <2>7, <2>8 DEF Sound
  <2>10. \A s \in Side : LET y == ds[s] IN
           /\ y.state # "none" => y.revision > 0
           /\ y.state = "admitted" => y.call \in ToolCall
           /\ d.phase[s] = "absent" => y.state = "none"
    BY <2>3 DEF Sound
  <2>11. next \in Request => d.phase[next] # "absent"
    BY <2>2 DEF Sound
  <2>12. Sound(e)
    BY <2>8, <2>9, <2>10, <2>11 DEF Sound
  <2>. QED  BY <1>2, <2>3, <2>7, <2>8, <2>12
<1>. QED  BY <1>1, <1>2

\* The process or the session comes back to the file of project p, and nothing
\* that was over, or whose tool had started, is made new by it.
LEMMA ReadBack ==
  ASSUME IInv, NEW p \in Project, state' = Hydrated(saved[p]),
         owner' = owner \/ owner' = [c \in ToolCall |-> NoOwner],
         reserved' \subseteq reserved, ~Repeats => reserved' = {}
  PROVE  /\ Sound(state') /\ Owners'
         /\ p = bound => \A s \in Side :
              RunsOnce(state.dispatch[s], state'.dispatch[s],
                       call[state.dispatch[s].call] # "hooked")
<1>1. Sound(saved[p]) /\ Owners /\ Tied
  BY DEF IInv, Files
<1>2. Sound(state') /\ \A s \in Side : state'.dispatch[s].state # "admitted"
  BY <1>1, HydratedSound
<1>3. Owners'
  BY <1>1, <1>2, NoneInFlight
<1>4. CASE p = bound /\ Restorable(saved[p])
  <2>1. \A s \in Side : RunsOnce(state.dispatch[s], state'.dispatch[s], TRUE)
    BY <1>1, <1>4, HydratedSound DEF Tied
  <2>. QED  BY <1>2, <1>3, <2>1 DEF RunsOnce
<1>5. CASE p = bound /\ ~Restorable(saved[p])
  <2>0. state'.dispatch = [s \in Side |-> NoDispatch]
    BY <1>1, <1>5, HydratedSound
  <2>1. \A s \in Side : state'.dispatch[s].revision = 0
    BY <2>0 DEF NoDispatch
  <2>. QED  BY <1>2, <1>3, <2>1 DEF RunsOnce
<1>. QED  BY <1>2, <1>3, <1>4, <1>5

\* A restart reads the file of the bound project back.
LEMMA RestartKeeps ==
  ASSUME IInv, Restart
  PROVE  IInv' /\ Kept
<1>1. Files /\ bound \in Project /\ bound' = bound /\ state' = Hydrated(saved[bound])
  BY DEF IInv, Files, Restart
<1>2. Sound(state') /\ Owners' /\ Kept
  <2>1. owner' = [c \in ToolCall |-> NoOwner] /\ reserved' = {}
    BY DEF Restart, Forget
  <2>2. /\ Sound(state') /\ Owners'
        /\ \A s \in Side :
             RunsOnce(state.dispatch[s], state'.dispatch[s],
                      call[state.dispatch[s].call] # "hooked")
    BY <1>1, <2>1, ReadBack
  <2>. QED  BY <2>2 DEF Kept
<1>3. PICK file : /\ saved' = [saved EXCEPT ![bound] = file]
                  /\ \/ file = state'
                     \/ file = saved[bound] /\ (Restorable(file) => state'.dispatch = file.dispatch)
  BY DEF Restart
<1>4. /\ saved'[bound] = file /\ Sound(file)
      /\ \A p \in Project \ {bound} : saved'[p] = saved[p]
      /\ saved' = [p \in Project |-> saved'[p]]
  BY <1>1, <1>2, <1>3 DEF Files
<1>5. Tied'
  <2>1. CASE file = state'
    BY <1>1, <1>4, <2>1 DEF Tied
  <2>2. CASE file = saved[bound] /\ Restorable(file) /\ state'.dispatch = file.dispatch
    <3>1. Sound(file)
      BY <1>4
    <3>2. /\ state'.phase = file.phase /\ state'.primary = file.primary
          /\ state'.restoring = file.restoring
      BY <1>1, <2>2, <3>1, HydratedSound
    <3>. QED  BY <1>1, <1>4, <2>2, <3>2 DEF Tied
  <2>3. CASE file = saved[bound] /\ ~Restorable(file)
    BY <1>1, <1>4, <2>3 DEF Tied
  <2>. QED  BY <1>3, <2>1, <2>2, <2>3
<1>6. LeftSettled'
  BY <1>1, <1>4 DEF Files, LeftSettled
<1>. QED  BY <1>1, <1>2, <1>4, <1>5, <1>6 DEF IInv, Files

\* A session start fails what is in flight.
LEMMA SessionStartKeeps ==
  ASSUME IInv, SessionStart
  PROVE  IInv' /\ Kept
<1>1. /\ Sound(state) /\ Files /\ Owners /\ state.dispatch \in [Side -> Dispatch]
      /\ bound' = bound
  BY DEF IInv, Files, Sound, SessionStart
<1>2. PICK ds : ds = [s \in Side |->
        IF state.dispatch[s].state = "admitted" /\ Awaited(state.dispatch[s].call)
        THEN [state.dispatch[s] EXCEPT !.state = "failed", !.call = None]
        ELSE state.dispatch[s]]
  OBVIOUS
<1>3. ASSUME NEW s \in Side, state.dispatch[s].state = "admitted"
      PROVE  /\ Awaited(state.dispatch[s].call)
             /\ owner[state.dispatch[s].call] # NoOwner
  <2>1. PICK c : c = state.dispatch[s].call
    OBVIOUS
  <2>2. owner[c] = [request |-> s, revision |-> state.dispatch[s].revision]
        /\ state.dispatch[s].revision > 0 /\ state.dispatch[s].revision \in Nat
    BY <1>1, <1>3, <2>1 DEF Owners, Sound, Dispatch
  <2>3. owner[c].request = s /\ owner[c].revision = state.dispatch[s].revision
    BY <2>2
  <2>. QED  BY <1>3, <2>1, <2>2, <2>3 DEF Awaited, NoOwner
<1>4. ASSUME NEW s \in Side
      PROVE  /\ ds[s] \in Dispatch /\ ds[s].state # "admitted"
             /\ ds[s].state = "none" <=> state.dispatch[s].state = "none"
             /\ ds[s].revision = state.dispatch[s].revision
             /\ RunsOnce(state.dispatch[s], ds[s], TRUE)
  <2>1. PICK y \in Dispatch : y = state.dispatch[s]
    BY <1>1
  <2>2. CASE y.state = "admitted"
    <3>1. ds[s] = [y EXCEPT !.state = "failed", !.call = None]
      BY <1>2, <1>3, <2>1, <2>2
    <3>. QED  BY <2>1, <2>2, <3>1 DEF Dispatch, RunsOnce
  <2>3. CASE y.state # "admitted"
    <3>1. ds[s] = y
      BY <1>2, <2>1, <2>3
    <3>. QED  BY <2>1, <2>3, <3>1 DEF Dispatch, RunsOnce
  <2>. QED  BY <2>2, <2>3
<1>5. ds \in [Side -> Dispatch]
  BY <1>2, <1>4
<1>6. PICK e : e = [state EXCEPT !.dispatch = ds] /\ Save(e)
  BY <1>2 DEF SessionStart
<1>7. e \in [phase : {state.phase}, dispatch : {ds}, parent : {state.parent},
             committed : {state.committed}, open : {state.open}, active : {state.active},
             primary : {state.primary},
             prompt : {state.prompt}, needs : {state.needs}, restoring : {state.restoring}]
  BY <1>1, <1>6 DEF Sound
<1>8. Sound(e) /\ state'.dispatch = ds
  BY <1>1, <1>4, <1>5, <1>6, <1>7 DEF Sound, Save
<1>9. Files'
  BY <1>1, <1>6, <1>8, Written
<1>10. ~Repeats => reserved' = {}
  <2>1. reserved' = {c \in reserved : owner[c] = NoOwner}
    BY DEF SessionStart
  <2>2. \A c \in AdmittedCalls : owner[c] # NoOwner
    BY <1>3 DEF AdmittedCalls
  <2>3. ~Repeats => reserved \subseteq AdmittedCalls
    BY <1>1 DEF Owners
  <2>. QED  BY <2>1, <2>2, <2>3
<1>11. Owners'
  BY <1>1, <1>4, <1>8, <1>10, NoneInFlight DEF SessionStart
<1>12. Kept
  BY <1>4, <1>8 DEF Kept, RunsOnce
<1>. QED  BY <1>9, <1>11, <1>12 DEF IInv

\* Nothing of the project that is left is unfinished.
LEMMA RetiredSettled ==
  ASSUME Sound(state)
  PROVE  /\ Sound(Retired) /\ Unfinished(Retired) = {}
         /\ ~Retired.primary /\ ~Retired.restoring
         /\ \A s \in Side : Retired.dispatch[s].state \notin {"recorded", "admitted"}
<1>1. PICK phases : phases = [r \in Request |->
        IF state.phase[r] = "absent" THEN "absent" ELSE "completed"]
  OBVIOUS
<1>2. PICK ds : ds = [s \in Side |-> Settled(state.dispatch[s])]
  OBVIOUS
<1>3. ASSUME NEW s \in Side
      PROVE  /\ ds[s] \in Dispatch /\ ds[s].state \notin {"recorded", "admitted"}
             /\ ds[s].state = "none" <=> state.dispatch[s].state = "none"
             /\ ds[s].revision = state.dispatch[s].revision
  <2>1. PICK y \in Dispatch : y = state.dispatch[s]
    BY DEF Sound
  <2>2. ds[s] = Settled(y)
    BY <1>2, <2>1
  <2>3. CASE y.state \in {"recorded", "admitted"}
    <3>1. PICK to \in {"completed", "failed"} : ds[s] = [y EXCEPT !.state = to, !.call = None]
      BY <2>2, <2>3 DEF Settled
    <3>. QED  BY <2>1, <2>3, <3>1 DEF Dispatch
  <2>4. CASE y.state \notin {"recorded", "admitted"}
    BY <2>1, <2>2, <2>4 DEF Settled
  <2>. QED  BY <2>3, <2>4
<1>4. ds \in [Side -> Dispatch]
  BY <1>2, <1>3
<1>5. Retired = [state EXCEPT !.phase = phases, !.dispatch = ds, !.open = <<>>,
                              !.active = None, !.primary = FALSE, !.needs = FALSE,
                              !.restoring = FALSE]
  BY <1>1, <1>2 DEF Retired
<1>6. Retired \in [phase : {phases}, dispatch : {ds}, parent : {state.parent},
                   committed : {state.committed}, open : {<<>>}, active : {None},
                   primary : {FALSE},
                   prompt : {state.prompt}, needs : {FALSE}, restoring : {FALSE}]
  BY <1>5 DEF Sound
<1>7. phases \in [Request -> Phase] /\ Side \subseteq Request /\ None \notin Request
  BY <1>1, SidecarAssumption DEF Phase, Request
<1>8. \A r \in Request : phases[r] = "absent" <=> state.phase[r] = "absent"
  BY <1>1
<1>9. Sound(Retired)
  <2>1. PICK d : d = Retired
    OBVIOUS
  <2>2. /\ d.phase = phases /\ d.dispatch = ds /\ d.parent = state.parent
        /\ d.active = None /\ d.primary = FALSE /\ d.restoring = FALSE
    BY <1>6, <2>1
  <2>3. d \in [phase : [Request -> Phase], dispatch : [Side -> Dispatch], parent : {d.parent},
               committed : {d.committed}, open : {d.open}, active : {d.active},
               primary : BOOLEAN,
               prompt : {d.prompt}, needs : {d.needs}, restoring : BOOLEAN]
    BY <1>4, <1>6, <1>7, <2>1, <2>2
  <2>4. \A b \in Batch : state.parent[b] \in Request => phases[state.parent[b]] # "absent"
    BY <1>8 DEF Sound
  <2>5. \A s \in Side : LET e == ds[s] IN
          /\ e.state # "none" => e.revision > 0
          /\ e.state = "admitted" => e.call \in ToolCall
          /\ phases[s] = "absent" => e.state = "none"
    BY <1>3, <1>7, <1>8 DEF Sound
  <2>. QED  BY <1>7, <2>1, <2>2, <2>3, <2>4, <2>5 DEF Sound
<1>10. Unfinished(Retired) = {}
  BY <1>1, <1>6, <1>7 DEF Unfinished, Finished
<1>. QED  BY <1>3, <1>6, <1>9, <1>10

\* A change of the project settles what is left and reads what is there.
LEMMA RebindKeeps ==
  ASSUME IInv, NEW p \in Project, Rebind(p)
  PROVE  IInv' /\ Kept
<1>1. Files /\ Owners /\ Sound(state) /\ bound' = p /\ state' = Hydrated(saved[p])
  BY DEF IInv, Files, Rebind
<1>2. reserved' \subseteq reserved /\ (~Repeats => reserved' = {})
  BY <1>1 DEF Rebind, Owners
<1>3. Sound(state') /\ Owners' /\ Kept
  BY <1>1, <1>2, ReadBack DEF Rebind, Forget, Kept
<1>4. PICK file :
        /\ saved' = [saved EXCEPT ![bound] = file, ![p] = state']
        /\ file = IF p # bound /\ \E r \in Request : state.phase[r] # "absent"
                  THEN Retired ELSE saved[bound]
  BY DEF Rebind
<1>5. Sound(file)
  BY <1>1, <1>4, RetiredSettled DEF Files
<1>6. /\ saved' = [q \in Project |-> saved'[q]]
      /\ saved'[p] = state'
      /\ p # bound => saved'[bound] = file
      /\ \A q \in Project \ {bound, p} : saved'[q] = saved[q]
  BY <1>1, <1>4 DEF Files
<1>7. Tied'
  BY <1>1, <1>6 DEF Tied
<1>8. ASSUME NEW q \in Project \ {p}, Restorable(saved'[q])
      PROVE  /\ Unfinished(saved'[q]) = {}
             /\ ~saved'[q].primary /\ ~saved'[q].restoring
             /\ \A s \in Side : saved'[q].dispatch[s].state \notin {"recorded", "admitted"}
  <2>1. CASE q # bound
    BY <1>1, <1>6, <1>8, <2>1 DEF Files, LeftSettled
  <2>2. CASE q = bound /\ file = Retired
    BY <1>1, <1>6, <1>8, <2>2, RetiredSettled
  <2>3. CASE q = bound /\ \A r \in Request : state.phase[r] = "absent"
    <3>1. saved'[q] = saved[bound] /\ Restorable(saved[bound])
      BY <1>4, <1>6, <1>8, <2>3
    <3>2. /\ state.phase = saved[bound].phase /\ state.dispatch = saved[bound].dispatch
          /\ state.primary = saved[bound].primary /\ state.restoring = saved[bound].restoring
      BY <1>1, <3>1 DEF Files, Tied
    <3>3. Side \subseteq Request /\ Primary \in Request
      BY DEF Request
    <3>4. ~state.primary /\ ~state.restoring
          /\ \A s \in Side : state.dispatch[s].state = "none"
      BY <1>1, <2>3, <3>3 DEF Sound
    <3>. QED  BY <2>3, <3>1, <3>2, <3>3, <3>4 DEF Unfinished, Finished
  <2>. QED  BY <1>4, <1>8, <2>1, <2>2, <2>3
<1>9. LeftSettled'
  BY <1>1, <1>8 DEF LeftSettled
<1>10. Files'
  BY <1>1, <1>3, <1>5, <1>6, <1>7, <1>9 DEF Files
<1>. QED  BY <1>3, <1>10 DEF IInv

-----------------------------------------------------------------------------
\* Nothing is begun at the start.
LEMMA InitHolds == Init => IInv
<1>. SUFFICES ASSUME Init PROVE IInv
  OBVIOUS
<1>1. "active" \in Phase \ {"absent"} /\ TRUE \in BOOLEAN
  BY DEF Phase
<1>2. Sound(Blank) /\ Blank.dispatch = [s \in Side |-> NoDispatch]
  BY <1>1, BlankSound
<1>3. /\ Blank.phase = [r \in Request |-> "absent"] /\ Side \subseteq Request
      /\ Blank.primary = FALSE /\ Blank.restoring = FALSE
  BY DEF Blank, Request
<1>4. state = Blank /\ saved = [p \in Project |-> Blank] /\ bound \in Project
  BY DEF Init
<1>5. Unfinished(Blank) = {}
  BY <1>3 DEF Unfinished, Finished
<1>6. \A s \in Side : Blank.dispatch[s].state = "none"
  BY <1>2 DEF NoDispatch
<1>7. Files
  BY <1>2, <1>3, <1>4, <1>5, <1>6 DEF Files, Tied, LeftSettled
<1>8. Owners
  BY <1>4, <1>6 DEF Init, Owners, NoOwner
<1>. QED  BY <1>7, <1>8 DEF IInv

\* Every step keeps the invariant, and runs no dispatch twice.
LEMMA StepHolds ==
  ASSUME IInv, [Next]_vars
  PROVE  IInv' /\ Kept
<1>1. CASE BeforeAgentStart \/ PrimaryMessage
  BY <1>1, PrimaryKeeps
<1>2. CASE AssistantMessage \/ Context \/ PrimaryTurnEnd
  BY <1>2, MessagesKeep
<1>3. CASE RecordDispatch
  BY <1>3, RecordKeeps
<1>4. CASE \E s \in Side : SidecarMessage(s) \/ SidecarTurnEnd(s)
  BY <1>4, FollowUpKeeps, ReplyKeeps
<1>5. CASE \E b \in Batch : Stage(b) \/ BatchMessage(b) \/ CommitBatch(b) \/ BatchTurnEnd(b)
  BY <1>5, BatchesKeep
<1>6. CASE \E c \in ToolCall : Admit(c) \/ Rollback(c) \/ ToolStart(c) \/ ToolResult(c)
  BY <1>6, AdmitKeeps, ToolCallsKeep
<1>7. CASE SessionStart \/ Restart
  BY <1>7, SessionStartKeeps, RestartKeeps
<1>8. CASE \E p \in Project : Rebind(p)
  BY <1>8, RebindKeeps
<1>9. CASE SetMode \/ Unstage \/ UNCHANGED vars
  <2>1. UNCHANGED <<state, saved, bound, owner, reserved>>
    BY <1>9 DEF SetMode, Unstage, vars, memory
  <2>2. Files'
    BY <2>1 DEF IInv, Files, Tied, LeftSettled
  <2>. QED  BY <2>1, <2>2, DispatchesKept DEF IInv
<1>. QED  BY <1>1, <1>2, <1>3, <1>4, <1>5, <1>6, <1>7, <1>8, <1>9 DEF Next

-----------------------------------------------------------------------------
\* The turns.  No follow-up is in the queue twice.
Once(q) == \A i, j \in DOMAIN q : q[i] = q[j] => i = j

NoBatch(d) == \A b \in Batch : d.phase[b] = "absent"

InOrder(d) == Fifo(d) /\ Once(d.open) /\ (d.open # <<>> => d.primary)

\* What is active is unfinished, a primary, or a batch from which the parents lead
\* to such a request.
Rooted(d) ==
  /\ Unfinished(d) # {} => d.primary
  /\ \E C \in SUBSET Batch :
       /\ d.active \in Unfinished(d) \cup C \cup {Primary, None}
       /\ \A b \in C : d.parent[b] \in Unfinished(d) \cup C \cup {Primary, None}

\* Where no text is repeated, the queue holds what is unfinished, once.
Listed(d) == ~Repeats => Once(d.open) /\ Range(d.open) \subseteq Unfinished(d)

\* Every state that is written: a suspended primary waits for a follow-up, a
\* restored one for none, and what is read back is in order as long as no batch
\* has begun and no text was repeated.
Queued(d) ==
  /\ d.open \in Seq(Side)
  /\ Rooted(d) /\ Listed(d)
  /\ d.phase[Primary] = "suspended" => d.primary /\ Unfinished(d) # {}
  /\ d.restoring => Unfinished(d) = {}
  /\ ~Repeats /\ NoBatch(d) => InOrder(d)

\* The active batch interposed: from it the parents lead to an open follow-up.
Interposed(d) ==
  \E C \in SUBSET Batch :
    d.active \in C /\ \A b \in C : d.parent[b] \in Unfinished(d) \cup C

\* The state in memory: what is unfinished can be found, and it is answered.
Answering(d) ==
  /\ Unfinished(d) \subseteq Range(d.open)
  /\ Unfinished(d) # {} => d.active \in Unfinished(d) \/ Interposed(d)

Turns ==
  /\ Queued(state) /\ \A p \in Project : Queued(saved[p])
  /\ Answering(state)
  /\ awaiting => Unfinished(state) = {}

\* The requests are of three kinds that have nothing in common.
LEMMA Kinds ==
  /\ Primary \in Request /\ Side \subseteq Request /\ Batch \subseteq Request
  /\ Primary \notin Side /\ Primary \notin Batch /\ Side \cap Batch = {}
  /\ None \notin Side /\ None \notin Batch /\ None # Primary /\ None \notin Request
BY SidecarAssumption DEF Request

\* A write to the file of the project that is bound, of a state in order.
LEMMA TurnsWritten ==
  ASSUME Files, Turns, NEW e, Save(e), bound' = bound, Queued(e), Answering(e),
         awaiting' => Unfinished(e) = {}
  PROVE  Turns'
<1>1. /\ state' = e /\ saved' = [saved EXCEPT ![bound] = e]
      /\ saved'[bound] = e
      /\ \A p \in Project \ {bound} : saved'[p] = saved[p]
  BY DEF Files, Save
<1>2. \A p \in Project : Queued(saved'[p])
  BY <1>1 DEF Turns
<1>3. Queued(state)' /\ Answering(state)' /\ (awaiting => Unfinished(state) = {})'
  BY <1>1 DEF Queued, Rooted, Listed, Answering, Unfinished, Interposed, NoBatch, InOrder,
             Fifo, Once
<1>4. (\A p \in Project : Queued(saved[p]))'
  BY <1>2 DEF Queued, Rooted, Listed, Unfinished, NoBatch, InOrder, Fifo, Once
<1>. QED  BY <1>3, <1>4 DEF Turns

\* A state where what is active leads nowhere else.
LEMMA AtRoot ==
  ASSUME NEW d, d.active \in Unfinished(d) \cup {Primary, None},
         Unfinished(d) # {} => d.primary
  PROVE  Rooted(d)
<1>1. PICK C \in SUBSET Batch : C = {}
  OBVIOUS
<1>2. /\ d.active \in Unfinished(d) \cup C \cup {Primary, None}
      /\ \A b \in C : d.parent[b] \in Unfinished(d) \cup C \cup {Primary, None}
  BY <1>1
<1>. QED  BY <1>2 DEF Rooted

\* A state that differs in nothing of all this.
SameTurns(d, e) ==
  /\ e.phase = d.phase /\ e.open = d.open /\ e.active = d.active /\ e.parent = d.parent
  /\ e.primary = d.primary /\ (e.restoring => d.restoring)

\* Such a state is as much in order, and as answered.
LEMMA SameQueued ==
  ASSUME NEW d, NEW e, SameTurns(d, e)
  PROVE  /\ Unfinished(e) = Unfinished(d)
         /\ Queued(d) => Queued(e)
         /\ Answering(d) => Answering(e)
<1>1. Unfinished(e) = Unfinished(d)
  BY DEF SameTurns, Unfinished
<1>2. Fifo(e) = Fifo(d) /\ NoBatch(e) = NoBatch(d)
  BY <1>1 DEF SameTurns, Fifo, NoBatch
<1>3. Interposed(e) = Interposed(d)
  BY <1>1 DEF SameTurns, Interposed
<1>4. InOrder(e) = InOrder(d)
  BY <1>2 DEF SameTurns, InOrder
<1>5. Rooted(e) = Rooted(d) /\ Listed(e) = Listed(d)
  BY <1>1 DEF SameTurns, Rooted, Listed
<1>. QED  BY <1>1, <1>2, <1>3, <1>4, <1>5 DEF SameTurns, Queued, Answering

\* A step that writes such a state.
LEMMA TurnsSame ==
  ASSUME Files, Turns, NEW e, Save(e), bound' = bound, SameTurns(state, e),
         awaiting' = awaiting
  PROVE  Turns'
<1>1. Queued(e) /\ Answering(e) /\ Unfinished(e) = Unfinished(state)
  BY SameQueued DEF Turns
<1>. QED  BY <1>1, TurnsWritten DEF Turns

\* A step that writes none.
LEMMA TurnsUntouched ==
  ASSUME Turns, UNCHANGED <<state, saved, awaiting>>
  PROVE  Turns'
<1>1. Queued(state)' = Queued(state) /\ Answering(state)' = Answering(state)
      /\ Unfinished(state)' = Unfinished(state)
  BY DEF Queued, Rooted, Listed, Answering, Unfinished, Interposed, NoBatch, InOrder, Fifo, Once
<1>2. (\A p \in Project : Queued(saved[p]))' = (\A p \in Project : Queued(saved[p]))
  BY DEF Queued, Rooted, Listed, Unfinished, NoBatch, InOrder, Fifo, Once
<1>. QED  BY <1>1, <1>2 DEF Turns

\* What StateSound says of the state, by field, whatever is written of the rest.
LEMMA FieldsKept ==
  ASSUME IInv, NEW dispatches, NEW done
  PROVE  /\ SameTurns(state, [state EXCEPT !.dispatch = dispatches])
         /\ SameTurns(state, [state EXCEPT !.committed = done])
         /\ SameTurns(state, [state EXCEPT !.restoring = FALSE])
BY StateSound DEF SameTurns

\* Two fields of a dispatch are written together, whatever they are.
FieldsAre(s, to, with, ds) ==
  [state EXCEPT !.dispatch[s].state = to, !.dispatch[s].call = with]
  = [state EXCEPT !.dispatch = ds]

\* Writing them makes these dispatches.
LEMMA DispatchFields ==
  ASSUME Sound(state), NEW s, NEW to, NEW with, NEW ds,
         ds = [state.dispatch EXCEPT ![s] = [@ EXCEPT !.state = to, !.call = with]]
  PROVE  FieldsAre(s, to, with, ds)
<1>1. PICK f \in [Side -> Dispatch] : f = state.dispatch
  BY DEF Sound
<1>2. [[f EXCEPT ![s].state = to] EXCEPT ![s].call = with]
      = [f EXCEPT ![s] = [@ EXCEPT !.state = to, !.call = with]]
  <2>1. CASE s \in Side
    BY <2>1
  <2>2. CASE s \notin Side
    BY <2>2
  <2>. QED  BY <2>1, <2>2
<1>3. PICK g1, g : g1 = [f EXCEPT ![s].state = to] /\ g = [g1 EXCEPT ![s].call = with]
  OBVIOUS
<1>4. PICK d1 : d1 = [state EXCEPT !.dispatch = g1]
  OBVIOUS
<1>5. d1.dispatch = g1 /\ [d1 EXCEPT !.dispatch = g] = [state EXCEPT !.dispatch = g]
  BY <1>4 DEF Sound
<1>6. [d1 EXCEPT !.dispatch[s].call = with] = [d1 EXCEPT !.dispatch = g]
  BY <1>3, <1>5
<1>7. [state EXCEPT !.dispatch[s].state = to] = d1
  BY <1>1, <1>3, <1>4
<1>8. [state EXCEPT !.dispatch[s].state = to, !.dispatch[s].call = with]
      = [[state EXCEPT !.dispatch[s].state = to] EXCEPT !.dispatch[s].call = with]
  OBVIOUS
<1>9. g = ds
  BY <1>1, <1>2, <1>3
<1>. QED  BY <1>5, <1>6, <1>7, <1>8, <1>9 DEF FieldsAre

\* The steps of tool calls and dispatches, and the commit of a batch.
LEMMA DispatchTurns ==
  ASSUME IInv, Turns, NEW c, NEW b,
         \/ RecordDispatch \/ SessionStart \/ Context
         \/ Admit(c) \/ Rollback(c) \/ ToolStart(c) \/ ToolResult(c)
         \/ Stage(b) \/ CommitBatch(b)
  PROVE  Turns'
<1>1. Files /\ Sound(state)
  BY DEF IInv, Files
<1>2. /\ \A ds : Save([state EXCEPT !.dispatch = ds]) /\ UNCHANGED <<bound, awaiting>> => Turns'
      /\ UNCHANGED <<state, saved, awaiting>> => Turns'
  BY <1>1, FieldsKept, TurnsSame, TurnsUntouched
<1>3. CASE RecordDispatch
  BY <1>2, <1>3 DEF RecordDispatch, memory
<1>4. CASE SessionStart
  BY <1>2, <1>4 DEF SessionStart
<1>5. CASE Context
  <2>1. Save([state EXCEPT !.restoring = FALSE]) /\ UNCHANGED <<bound, awaiting>>
    BY <1>5 DEF Context, memory
  <2>. QED  BY <1>1, <2>1, FieldsKept, TurnsSame
<1>6. CASE Admit(c)
  <2>1. PICK s, ds : /\ s = state.active
                     /\ ds = [state.dispatch EXCEPT
                                ![s] = [@ EXCEPT !.state = "admitted", !.call = c]]
    OBVIOUS
  <2>2. Save([state EXCEPT !.dispatch[s].state = "admitted", !.dispatch[s].call = c])
        /\ UNCHANGED <<bound, awaiting>> /\ s \in Side
    BY <1>6, <2>1 DEF Admit
  <2>3. [state EXCEPT !.dispatch[s].state = "admitted", !.dispatch[s].call = c]
        = [state EXCEPT !.dispatch = ds]
    <3>1. FieldsAre(s, "admitted", c, ds)
      BY <1>1, <2>1, DispatchFields
    <3>. QED  BY <3>1 DEF FieldsAre
  <2>. QED  BY <1>2, <2>2, <2>3
<1>7. CASE Rollback(c) \/ ToolResult(c)
  <2>1. CASE UNCHANGED <<state, saved>>
    BY <1>2, <1>7, <2>1 DEF Rollback, ToolResult
  <2>2. CASE ~UNCHANGED <<state, saved>>
    <3>1. PICK s, to : Save([state EXCEPT !.dispatch[s].state = to, !.dispatch[s].call = None])
                       /\ UNCHANGED <<bound, awaiting>>
      <4>1. CASE Rollback(c)
        BY <2>2, <4>1 DEF Rollback
      <4>2. CASE ToolResult(c)
        BY <2>2, <4>2 DEF ToolResult
      <4>. QED  BY <1>7, <4>1, <4>2
    <3>2. PICK ds : ds = [state.dispatch EXCEPT
                            ![s] = [@ EXCEPT !.state = to, !.call = None]]
      OBVIOUS
    <3>3. [state EXCEPT !.dispatch[s].state = to, !.dispatch[s].call = None]
          = [state EXCEPT !.dispatch = ds]
      <4>1. FieldsAre(s, to, None, ds)
        BY <1>1, <3>2, DispatchFields
      <4>. QED  BY <4>1 DEF FieldsAre
    <3>. QED  BY <1>2, <3>1, <3>3
  <2>. QED  BY <2>1, <2>2
<1>8. CASE ToolStart(c)
  BY <1>2, <1>8 DEF ToolStart
<1>9. CASE Stage(b)
  BY <1>2, <1>9 DEF Stage, memory
<1>10. CASE CommitBatch(b)
  <2>1. Save([state EXCEPT !.committed = @ \cup {b}]) /\ UNCHANGED <<bound, awaiting>>
    BY <1>10 DEF CommitBatch, memory
  <2>. QED  BY <1>1, <2>1, FieldsKept, TurnsSame
<1>. QED  BY <1>3, <1>4, <1>5, <1>6, <1>7, <1>8, <1>9, <1>10

\* An empty queue is one of nothing unfinished.
LEMMA EmptyQueue ==
  ASSUME NEW d, d.open \in Seq(Side)
  PROVE  /\ Fifo(d) /\ Unfinished(d) = {} => d.open = <<>>
         /\ d.open = <<>> /\ Unfinished(d) = {} /\ d.active \notin Side => Fifo(d)
<1>1. Cardinality({}) = 0
  BY FS_EmptySet
<1>2. Len(<<>>) = 0 /\ Range(<<>>) = {}
  BY DEF Range
<1>3. Len(d.open) = 0 => d.open = <<>>
  OBVIOUS
<1>. QED  BY <1>1, <1>2, <1>3 DEF Fifo

\* The primary goes on where no follow-up is open.
LEMMA PrimaryMoved ==
  ASSUME IInv, Turns, NEW e, Save(e), bound' = bound, Unfinished(state) = {},
         NEW x \in {"active", "completed"}, e.phase = [state.phase EXCEPT ![Primary] = x],
         e.open = state.open, e.active = Primary, e.parent = state.parent,
         e.primary = state.primary
  PROVE  Turns'
<1>1. Files /\ state.phase \in [Request -> Phase]
  BY StateSound DEF IInv
<1>2. /\ e.phase[Primary] = x
      /\ \A r \in Request \ {Primary} : e.phase[r] = state.phase[r]
  BY <1>1, Kinds
<1>3. Unfinished(e) = {}
  BY <1>2, Kinds DEF Unfinished
<1>4. NoBatch(e) => NoBatch(state)
  BY <1>2, Kinds DEF NoBatch
<1>5. Queued(e)
  <2>1. ASSUME ~Repeats, NoBatch(e)
        PROVE  InOrder(e)
    BY <1>3, <1>4, <2>1, EmptyQueue, Kinds DEF Turns, Queued, Once, InOrder
  <2>2. Rooted(e)
    BY <1>3 DEF Rooted
  <2>3. Listed(e)
    BY <1>3 DEF Turns, Queued, Listed
  <2>. QED  BY <1>2, <1>3, <2>1, <2>2, <2>3 DEF Turns, Queued
<1>6. Answering(e)
  BY <1>3 DEF Answering
<1>. QED  BY <1>1, <1>3, <1>5, <1>6, TurnsWritten

\* A new primary, with nothing else.
LEMMA BeginTurns ==
  ASSUME IInv, Turns, NEW phase \in {"awaiting_message", "active"}, NEW wait,
         NEW asked, Begin(phase, wait, asked), bound' = bound
  PROVE  Turns'
<1>1. PICK prompt, needs, e :
        /\ e = [Blank EXCEPT !.phase[Primary] = phase, !.primary = TRUE,
                             !.active = Primary, !.prompt = prompt, !.needs = needs]
        /\ Save(e)
  BY DEF Begin
<1>2. /\ e.phase = [[r \in Request |-> "absent"] EXCEPT ![Primary] = phase]
      /\ e.open = <<>> /\ e.active = Primary /\ e.restoring = FALSE
  BY <1>1 DEF Blank
<1>3. e.phase[Primary] = phase /\ \A s \in Side : e.phase[s] = "absent"
  BY <1>2, Kinds
<1>4. Unfinished(e) = {}
  BY <1>3 DEF Unfinished, Finished
<1>5. Queued(e)
  <2>1. e.open \in Seq(Side) /\ Once(e.open)
    BY <1>2 DEF Once
  <2>2. Fifo(e)
    BY <1>2, <1>4, <2>1, EmptyQueue, Kinds
  <2>3. e.phase[Primary] # "suspended"
    BY <1>3
  <2>4. Rooted(e) /\ Listed(e)
    BY <1>2, <1>4, <2>1 DEF Rooted, Listed, Range
  <2>. QED  BY <1>2, <1>4, <2>1, <2>2, <2>3, <2>4 DEF Queued, InOrder
<1>. QED  BY <1>1, <1>4, <1>5, TurnsWritten DEF Answering, IInv

\* The messages of the primary and its end: no follow-up is open then.
LEMMA PrimaryTurns ==
  ASSUME IInv, Turns, BeforeAgentStart \/ PrimaryMessage \/ PrimaryTurnEnd
  PROVE  Turns'
<1>1. ASSUME Unfinished(state) = {}, Activate, bound' = bound
      PROVE  Turns'
  <2>1. PICK e : e = [state EXCEPT !.phase[Primary] = "active", !.active = Primary] /\ Save(e)
    BY <1>1 DEF Activate
  <2>2. /\ e.phase = [state.phase EXCEPT ![Primary] = "active"] /\ e.open = state.open
        /\ e.active = Primary /\ e.parent = state.parent /\ e.primary = state.primary
    BY <2>1, StateSound
  <2>. QED  BY <1>1, <2>1, <2>2, PrimaryMoved
<1>2. CASE BeforeAgentStart
  <2>1. state.restoring => Unfinished(state) = {}
    BY DEF Turns, Queued
  <2>. QED  BY <1>1, <1>2, <2>1, BeginTurns DEF BeforeAgentStart
<1>3. CASE PrimaryMessage
  <2>1. awaiting => Unfinished(state) = {}
    BY DEF Turns
  <2>. QED  BY <1>1, <1>3, <2>1, BeginTurns DEF PrimaryMessage
<1>4. CASE PrimaryTurnEnd
  <2>1. PICK more \in BOOLEAN :
          Save([state EXCEPT !.needs = more,
                             !.phase[Primary] = IF more THEN "active" ELSE "completed"])
    BY <1>4 DEF PrimaryTurnEnd
  <2>. DEFINE to == IF more THEN "active" ELSE "completed"
  <2>7. PICK x \in {"active", "completed"} : x = to
    OBVIOUS
  <2>2. PICK e : e = [state EXCEPT !.needs = more, !.phase[Primary] = x] /\ Save(e)
    BY <2>1, <2>7
  <2>3. state.active = Primary /\ bound' = bound
    BY <1>4 DEF PrimaryTurnEnd
  <2>4. Primary \notin Unfinished(state) /\ ~Interposed(state)
    BY <2>3, Kinds DEF Unfinished, Interposed
  <2>5. Unfinished(state) = {}
    BY <2>3, <2>4 DEF Turns, Answering
  <2>6. /\ e.phase = [state.phase EXCEPT ![Primary] = x] /\ e.open = state.open
        /\ e.active = Primary /\ e.parent = state.parent /\ e.primary = state.primary
    BY <2>2, <2>3, StateSound
  <2>. QED  BY <2>2, <2>3, <2>5, <2>6, PrimaryMoved
<1>. QED  BY <1>2, <1>3, <1>4

\* A state with other phases of batches, and the same follow-ups.
LEMMA BatchQueued ==
  ASSUME NEW d, NEW e, Queued(d), Unfinished(e) = Unfinished(d), e.open = d.open,
         e.phase[Primary] = d.phase[Primary], e.primary = d.primary,
         e.restoring => d.restoring, Rooted(e),
         ~Repeats /\ NoBatch(e) => InOrder(e)
  PROVE  Queued(e)
<1>1. Listed(e)
  BY DEF Queued, Listed
<1>. QED  BY <1>1 DEF Queued

\* The model answers what is active.
LEMMA AssistantTurns ==
  ASSUME IInv, Turns, AssistantMessage
  PROVE  Turns'
<1>0. CASE Save(state)
  BY <1>0, TurnsSame DEF SameTurns, AssistantMessage, memory, IInv
<1>. SUFFICES ASSUME ~Save(state) PROVE Turns'
  BY <1>0
<1>1. PICK a : a = state.active
  OBVIOUS
<1>2. PICK e : e = [state EXCEPT !.phase[a] = "active"] /\ Save(e)
  BY <1>1 DEF AssistantMessage
<1>3. /\ e.phase = [state.phase EXCEPT ![a] = "active"] /\ e.open = state.open
      /\ e.active = a /\ e.parent = state.parent /\ e.primary = state.primary
      /\ e.restoring = state.restoring
  BY <1>1, <1>2, StateSound
<1>4. /\ bound' = bound /\ awaiting' = awaiting /\ Files /\ state.phase[a] # "completed"
      /\ state.phase \in [Request -> Phase]
  BY <1>1, StateSound DEF AssistantMessage, memory, IInv
<1>5. CASE a = Primary
  <2>1. Primary \notin Unfinished(state) /\ ~Interposed(state)
    BY <1>1, <1>5, Kinds DEF Unfinished, Interposed
  <2>2. Unfinished(state) = {}
    BY <1>1, <1>5, <2>1 DEF Turns, Answering
  <2>3. e.phase = [state.phase EXCEPT ![Primary] = "active"]
    BY <1>3, <1>5
  <2>. QED  BY <1>2, <1>3, <1>4, <1>5, <2>2, <2>3, PrimaryMoved
<1>6. CASE e.phase = state.phase
  <2>1. SameTurns(state, e)
    BY <1>1, <1>3, <1>6 DEF SameTurns
  <2>. QED  BY <1>2, <1>4, <2>1, TurnsSame
<1>7. CASE a \in Side \cup Batch /\ e.phase # state.phase
  <2>1. a \in Request /\ state.phase[a] # "absent"
    BY <1>1, <1>7, Kinds, StateSound
  <2>2. Unfinished(e) = Unfinished(state)
    BY <1>3, <1>4, <2>1, Kinds DEF Unfinished, Finished
  <2>3. e.phase[Primary] = state.phase[Primary] /\ e.phase[a] = "active"
    BY <1>3, <1>4, <1>7, <2>1, Kinds
  <2>4. ~(~Repeats /\ NoBatch(e))
    <3>1. CASE a \in Batch
      BY <2>3, <3>1 DEF NoBatch
    <3>2. CASE a \in Side
      <4>1. \A b \in Batch : e.phase[b] = state.phase[b]
        BY <1>3, <1>4, <3>2, Kinds
      <4>2. ASSUME ~Repeats, NoBatch(e)
            PROVE  state.phase[a] = "active"
        <5>1. Fifo(state)
          BY <4>1, <4>2 DEF Turns, Queued, NoBatch, InOrder
        <5>. QED  BY <1>1, <3>2, <5>1 DEF Fifo
      <4>3. state.phase[a] # "active"
        BY <1>3, <1>4, <1>7, <2>1
      <4>. QED  BY <4>2, <4>3
    <3>. QED  BY <1>7, <3>1, <3>2
  <2>9. Rooted(e)
    BY <1>1, <1>3, <2>2 DEF Turns, Queued, Rooted
  <2>5. Queued(e)
    BY <1>3, <2>2, <2>3, <2>4, <2>9, BatchQueued DEF Turns
  <2>6. Interposed(state) => Interposed(e)
    BY <1>1, <1>3, <2>2 DEF Interposed
  <2>7. Answering(e)
    BY <1>1, <1>3, <2>2, <2>6 DEF Turns, Answering
  <2>. QED  BY <1>2, <1>4, <2>2, <2>5, <2>7, TurnsWritten DEF Turns
<1>8. a \in Request \/ e.phase = state.phase
  BY <1>3, <1>4
<1>. QED  BY <1>5, <1>6, <1>7, <1>8 DEF Request

\* A batch interposes, and what was active is its parent.
LEMMA BatchMessageTurns ==
  ASSUME IInv, Turns, NEW b \in Batch, BatchMessage(b)
  PROVE  Turns'
<1>1. PICK a : a = state.active
  OBVIOUS
<1>2. PICK e : e = [state EXCEPT !.phase[b] = "active", !.parent[b] = a,
                                 !.active = b, !.restoring = FALSE] /\ Save(e)
  BY <1>1 DEF BatchMessage
<1>3. /\ e.phase = [state.phase EXCEPT ![b] = "active"] /\ e.open = state.open
      /\ e.active = b /\ e.parent = [state.parent EXCEPT ![b] = a]
      /\ e.primary = state.primary /\ e.restoring = FALSE
  BY <1>1, <1>2, StateSound
<1>4. /\ bound' = bound /\ awaiting' = awaiting /\ Files
      /\ state.phase \in [Request -> Phase]
  BY StateSound DEF BatchMessage, memory, IInv
<1>5. /\ e.phase[b] = "active" /\ e.parent[b] = a
      /\ \A r \in Request \ {b} : e.phase[r] = state.phase[r]
      /\ \A x \in Batch \ {b} : e.parent[x] = state.parent[x]
  BY <1>3, <1>4, Kinds, StateSound
<1>6. Unfinished(e) = Unfinished(state)
  BY <1>5, Kinds DEF Unfinished
<1>7. ~NoBatch(e) /\ e.phase[Primary] = state.phase[Primary]
  BY <1>5, Kinds DEF NoBatch
<1>11. Rooted(e)
  <2>1. PICK C \in SUBSET Batch :
          /\ a \in Unfinished(state) \cup C \cup {Primary, None}
          /\ \A x \in C : state.parent[x] \in Unfinished(state) \cup C \cup {Primary, None}
    BY <1>1 DEF Turns, Queued, Rooted
  <2>2. PICK D \in SUBSET Batch : D = C \cup {b}
    OBVIOUS
  <2>3. /\ e.active \in Unfinished(e) \cup D \cup {Primary, None}
        /\ \A x \in D : e.parent[x] \in Unfinished(e) \cup D \cup {Primary, None}
    BY <1>3, <1>5, <1>6, <2>1, <2>2
  <2>4. Unfinished(e) # {} => e.primary
    BY <1>3, <1>6 DEF Turns, Queued, Rooted
  <2>. QED  BY <2>3, <2>4 DEF Rooted
<1>8. Queued(e)
  BY <1>3, <1>6, <1>7, <1>11, BatchQueued DEF Turns
<1>9. ASSUME Unfinished(state) # {}
      PROVE  Interposed(e)
  <2>1. CASE a \in Unfinished(state)
    <3>1. {b} \in SUBSET Batch /\ \A x \in {b} : e.parent[x] \in Unfinished(e) \cup {b}
      BY <1>5, <1>6, <2>1
    <3>. QED  BY <1>3, <3>1 DEF Interposed
  <2>2. CASE Interposed(state)
    <3>1. PICK C \in SUBSET Batch :
            a \in C /\ \A x \in C : state.parent[x] \in Unfinished(state) \cup C
      BY <1>1, <2>2 DEF Interposed
    <3>2. PICK D : D = C \cup {b}
      OBVIOUS
    <3>3. D \in SUBSET Batch /\ b \in D
      BY <3>1, <3>2
    <3>4. \A x \in D : e.parent[x] \in Unfinished(e) \cup D
      BY <1>5, <1>6, <3>1, <3>2
    <3>. QED  BY <1>3, <3>3, <3>4 DEF Interposed
  <2>. QED  BY <1>1, <1>9, <2>1, <2>2 DEF Turns, Answering
<1>10. Answering(e)
  BY <1>3, <1>6, <1>9 DEF Turns, Answering
<1>. QED  BY <1>2, <1>4, <1>6, <1>8, <1>10, TurnsWritten DEF Turns

\* A batch that is over gives the turn back to its parent.
LEMMA BatchEndTurns ==
  ASSUME IInv, Turns, NEW b \in Batch, BatchTurnEnd(b)
  PROVE  Turns'
<1>2. CASE TRUE
  <2>1. PICK a, e :
          /\ e = [state EXCEPT !.phase[b] = "completed", !.active = a] /\ Save(e)
          /\ state.parent[b] # None => a = state.parent[b]
          /\ state.parent[b] = None => a \in {Primary, b}
    BY <1>2 DEF BatchTurnEnd
  <2>2. /\ e.phase = [state.phase EXCEPT ![b] = "completed"] /\ e.open = state.open
        /\ e.active = a /\ e.parent = state.parent
        /\ e.primary = state.primary /\ e.restoring = state.restoring
    BY <2>1, StateSound
  <2>3. /\ bound' = bound /\ awaiting' = awaiting /\ Files /\ state.active = b
        /\ state.phase \in [Request -> Phase]
    BY StateSound DEF BatchTurnEnd, memory, IInv
  <2>4. e.phase[b] = "completed" /\ \A r \in Request \ {b} : e.phase[r] = state.phase[r]
    BY <2>2, <2>3, Kinds
  <2>5. Unfinished(e) = Unfinished(state)
    BY <2>4, Kinds DEF Unfinished
  <2>6. ~NoBatch(e) /\ e.phase[Primary] = state.phase[Primary]
    BY <2>4, Kinds DEF NoBatch
  <2>10. Rooted(e)
    <3>1. PICK C \in SUBSET Batch :
            /\ b \in Unfinished(state) \cup C \cup {Primary, None}
            /\ \A x \in C : state.parent[x] \in Unfinished(state) \cup C \cup {Primary, None}
      BY <2>3 DEF Turns, Queued, Rooted
    <3>2. b \in C
      BY <3>1, Kinds DEF Unfinished
    <3>3. a \in Unfinished(state) \cup C \cup {Primary, None}
      BY <2>1, <3>1, <3>2
    <3>4. Unfinished(e) # {} => e.primary
      BY <2>2, <2>5 DEF Turns, Queued, Rooted
    <3>. QED  BY <2>2, <2>5, <3>1, <3>3, <3>4 DEF Rooted
  <2>7. Queued(e)
    BY <2>2, <2>5, <2>6, <2>10, BatchQueued DEF Turns
  <2>8. ASSUME Unfinished(state) # {}
        PROVE  a \in Unfinished(e) \/ Interposed(e)
    <3>1. b \notin Unfinished(state)
      BY Kinds DEF Unfinished
    <3>2. PICK C \in SUBSET Batch :
            b \in C /\ \A x \in C : state.parent[x] \in Unfinished(state) \cup C
      BY <2>3, <2>8, <3>1 DEF Turns, Answering, Interposed
    <3>3. state.parent[b] # None
      BY <3>2, Kinds DEF Unfinished
    <3>4. a \in Unfinished(state) \cup C
      BY <2>1, <3>2, <3>3
    <3>. QED  BY <2>2, <2>5, <3>2, <3>4 DEF Interposed
  <2>9. Answering(e)
    BY <2>2, <2>5, <2>8 DEF Turns, Answering
  <2>. QED  BY <2>1, <2>3, <2>5, <2>7, <2>9, TurnsWritten DEF Turns
<1>. QED  BY <1>2

\* A set of numbers that is not empty has a least member.
LEMMA LeastNumber ==
  ASSUME NEW T \in SUBSET Nat, T # {}
  PROVE  \E x \in T : \A y \in T : x <= y
<1>1. PICK R : R = OpToRel(<, Nat)
  OBVIOUS
<1>2. IsWellFoundedOn(R, Nat)
  BY <1>1, NatLessThanWellFounded
<1>3. PICK x \in T : \A y \in T : <<y, x>> \notin R
  BY <1>2, WFMin
<1>4. ASSUME NEW y \in T PROVE ~(y < x)
  BY <1>1, <1>3 DEF OpToRel
<1>. QED  BY <1>4

\* The members of a queue are finitely many.
LEMMA FiniteRange ==
  ASSUME NEW q \in Seq(Side)
  PROVE  IsFiniteSet(Range(q)) /\ Range(q) \subseteq Side /\ Cardinality(Range(q)) \in Nat
<1>1. Len(q) \in Nat /\ q \in [1..Len(q) -> Side] /\ DOMAIN q = 1..Len(q)
  OBVIOUS
<1>2. IsFiniteSet(1..Len(q))
  BY <1>1, FS_Interval
<1>3. q \in Surjection(1..Len(q), Range(q))
  BY <1>1 DEF Surjection, Range
<1>4. IsFiniteSet(Range(q))
  BY <1>2, <1>3, FS_Surjection
<1>5. Range(q) \subseteq Side
  BY <1>1 DEF Range
<1>. QED  BY <1>4, <1>5, FS_CardinalityType

\* A queue with one more.
LEMMA Appended ==
  ASSUME NEW q \in Seq(Side), NEW s \in Side
  PROVE  /\ Append(q, s) \in Seq(Side) /\ Len(Append(q, s)) = Len(q) + 1
         /\ Append(q, s)[Len(q) + 1] = s
         /\ \A i \in 1..Len(q) : Append(q, s)[i] = q[i]
         /\ Range(Append(q, s)) = Range(q) \cup {s}
<1>1. /\ Append(q, s) \in Seq(Side) /\ Len(Append(q, s)) = Len(q) + 1
      /\ Append(q, s)[Len(q) + 1] = s
      /\ \A i \in 1..Len(q) : Append(q, s)[i] = q[i]
  OBVIOUS
<1>2. Len(q) \in Nat /\ DOMAIN q = 1..Len(q) /\ DOMAIN Append(q, s) = 1..(Len(q) + 1)
  BY <1>1
<1>3. ASSUME NEW x \in Range(Append(q, s)) PROVE x \in Range(q) \cup {s}
  <2>1. PICK i \in 1..(Len(q) + 1) : x = Append(q, s)[i]
    BY <1>2, <1>3 DEF Range
  <2>2. i \in 1..Len(q) \/ i = Len(q) + 1
    BY <1>2
  <2>. QED  BY <1>1, <1>2, <2>1, <2>2 DEF Range
<1>4. ASSUME NEW x \in Range(q) \cup {s} PROVE x \in Range(Append(q, s))
  <2>1. CASE x = s
    <3>1. Len(q) + 1 \in 1..(Len(q) + 1)
      BY <1>2
    <3>. QED  BY <1>1, <1>2, <2>1, <3>1 DEF Range
  <2>2. CASE x # s
    <3>1. PICK i \in 1..Len(q) : x = q[i]
      BY <1>2, <1>4, <2>2 DEF Range
    <3>2. i \in 1..(Len(q) + 1)
      BY <1>2
    <3>. QED  BY <1>1, <1>2, <3>1, <3>2 DEF Range
  <2>. QED  BY <2>1, <2>2
<1>. QED  BY <1>1, <1>3, <1>4

\* A queue holds a follow-up once that it did not hold.
LEMMA AppendedOnce ==
  ASSUME NEW q \in Seq(Side), NEW s \in Side, Once(q), s \notin Range(q)
  PROVE  Once(Append(q, s))
<1>0. Append(q, s) \in Seq(Side) /\ Len(q) \in Nat
  BY Appended
<1>1. PICK a \in Seq(Side), n \in Nat : a = Append(q, s) /\ n = Len(q)
  BY <1>0
<1>2. /\ DOMAIN a = 1..(n + 1) /\ DOMAIN q = 1..n /\ a[n + 1] = s
      /\ \A i \in 1..n : a[i] = q[i]
  BY <1>1, Appended
<1>3. \A i \in 1..n : q[i] # s
  BY <1>2 DEF Range
<1>4. ASSUME NEW i \in 1..(n + 1), NEW j \in 1..(n + 1), a[i] = a[j]
      PROVE  i = j
  <2>1. (i \in 1..n \/ i = n + 1) /\ (j \in 1..n \/ j = n + 1)
    BY <1>1
  <2>2. CASE i \in 1..n /\ j \in 1..n
    <3>1. q[i] = q[j]
      BY <1>2, <1>4, <2>2
    <3>. QED  BY <1>2, <2>2, <3>1 DEF Once
  <2>3. CASE i = n + 1 /\ j \in 1..n
    BY <1>2, <1>3, <1>4, <2>3
  <2>4. CASE i \in 1..n /\ j = n + 1
    BY <1>2, <1>3, <1>4, <2>4
  <2>. QED  BY <2>1, <2>2, <2>3, <2>4
<1>. QED  BY <1>1, <1>2, <1>4 DEF Once

\* The queue with a follow-up that was not in it, the others being in order.
LEMMA AppendedInOrder ==
  ASSUME NEW d, NEW e, NEW s \in Side, d.open \in Seq(Side), Fifo(d), Once(d.open),
         s \notin Unfinished(d), e.open = Append(d.open, s),
         Unfinished(e) = Unfinished(d) \cup {s},
         \A x \in Unfinished(d) : e.phase[x] = d.phase[x],
         d.open = <<>> => e.active = s /\ e.phase[s] = "active",
         d.open # <<>> => e.active = d.active /\ e.phase[s] = "waiting"
  PROVE  Fifo(e) /\ Once(e.open)
<1>1. PICK q \in Seq(Side), n \in Nat : q = d.open /\ n = Len(q)
  OBVIOUS
<1>2. PICK a \in Seq(Side) : a = Append(q, s)
  BY <1>1, Appended
<1>3. /\ Len(a) = n + 1 /\ a[n + 1] = s /\ Range(a) = Range(q) \cup {s}
      /\ \A i \in 1..n : a[i] = q[i]
  BY <1>1, <1>2, Appended
<1>4. Range(q) = Unfinished(d) /\ n = Cardinality(Range(q)) /\ s \notin Range(q)
  BY <1>1 DEF Fifo
<1>5. Cardinality(Range(q) \cup {s}) = n + 1
  <2>1. PICK R : R = Range(q)
    OBVIOUS
  <2>2. IsFiniteSet(R) /\ s \notin R /\ Cardinality(R) = n
    BY <1>4, <2>1, FiniteRange
  <2>. QED  BY ONLY <2>1, <2>2, FS_AddElement
<1>6. Len(a) = Cardinality(Unfinished(e)) /\ Range(a) = Unfinished(e)
  BY <1>3, <1>4, <1>5
<1>7. \A i \in 1..n : q[i] \in Range(q) /\ q[i] # s
  <2>1. DOMAIN q = 1..n
    BY <1>1
  <2>. QED  BY <1>4, <2>1 DEF Range
<1>8. Once(a)
  BY <1>1, <1>2, <1>4, AppendedOnce
<1>9. CASE q = <<>>
  <2>1. n = 0 /\ a # <<>> /\ a[1] = s /\ 2..Len(a) = {}
    BY <1>1, <1>2, <1>3, <1>9
  <2>. QED  BY <1>1, <1>2, <1>6, <1>8, <1>9, <2>1 DEF Fifo
<1>10. CASE q # <<>>
  <2>1. n >= 1 /\ a # <<>>
    BY <1>1, <1>2, <1>3, <1>10
  <2>2. /\ d.active = q[1] /\ d.phase[q[1]] = "active"
        /\ \A i \in 2..n : d.phase[q[i]] = "waiting"
    BY <1>1, <1>10 DEF Fifo
  <2>3. a[1] = q[1] /\ q[1] \in Unfinished(d)
    BY <1>1, <1>3, <1>4, <1>7, <2>1
  <2>4. e.active = a[1] /\ e.phase[a[1]] = "active"
    BY <1>1, <1>10, <2>2, <2>3
  <2>5. ASSUME NEW i \in 2..Len(a) PROVE e.phase[a[i]] = "waiting"
    <3>1. i \in 2..n \/ i = n + 1
      BY <1>1, <1>3
    <3>2. CASE i \in 2..n
      <4>1. i \in 1..n
        BY <1>1, <3>2
      <4>2. a[i] = q[i] /\ q[i] \in Unfinished(d)
        BY <1>3, <1>4, <1>7, <4>1
      <4>3. d.phase[q[i]] = "waiting" /\ e.phase[q[i]] = d.phase[q[i]]
        BY <2>2, <3>2, <4>2
      <4>. QED  BY <4>2, <4>3
    <3>. QED  BY <1>1, <1>3, <1>10, <3>1, <3>2
  <2>6. e.open = a
    BY <1>1, <1>2
  <2>7. Fifo(e)
    BY ONLY <1>6, <2>1, <2>4, <2>5, <2>6 DEF Fifo
  <2>. QED  BY <1>8, <2>6, <2>7
<1>. QED  BY <1>9, <1>10

\* A follow-up comes in: it is answered, or waits behind the one that is.
LEMMA FollowUpTurns ==
  ASSUME IInv, Turns, NEW s \in Side, SidecarMessage(s)
  PROVE  Turns'
<1>. DEFINE busy == state.active \in Side /\ state.phase[state.active] # "completed"
<1>1. PICK new : /\ busy => new = "waiting"
                 /\ ~busy => new = "active"
  <2>1. CASE busy
    BY <2>1
  <2>2. CASE ~busy
    BY <2>2
  <2>. QED  BY <2>1, <2>2
<1>2. PICK a : (busy => a = state.active) /\ (~busy => a = s)
  <2>1. CASE busy
    BY <2>1
  <2>2. CASE ~busy
    BY <2>2
  <2>. QED  BY <2>1, <2>2
<1>3. PICK held : /\ state.phase[Primary] = "completed" => held = "completed"
                  /\ state.phase[Primary] # "completed" => held = "suspended"
  <2>1. CASE state.phase[Primary] = "completed"
    BY <2>1
  <2>2. CASE state.phase[Primary] # "completed"
    BY <2>2
  <2>. QED  BY <2>1, <2>2
<1>4. PICK e : /\ e = [state EXCEPT
                         !.phase = [state.phase EXCEPT ![Primary] = held, ![s] = new],
                         !.dispatch[s] = NoDispatch, !.open = Append(@, s),
                         !.active = a, !.restoring = FALSE]
               /\ Save(e)
  <2>1. /\ held = IF state.phase[Primary] = "completed" THEN state.phase[Primary]
                  ELSE "suspended"
        /\ new = IF busy THEN "waiting" ELSE "active"
        /\ a = IF busy THEN state.active ELSE s
    BY <1>1, <1>2, <1>3
  <2>. QED  BY <2>1 DEF SidecarMessage
<1>5. /\ ~awaiting /\ state.primary /\ UNCHANGED <<bound, awaiting>> /\ Files
      /\ state.phase[s] = "absent" \/ (Repeats /\ state.phase[s] # "completed")
  BY DEF SidecarMessage, memory, IInv
<1>6. /\ e.phase = [state.phase EXCEPT ![Primary] = held, ![s] = new]
      /\ e.open = Append(state.open, s) /\ e.active = a /\ e.parent = state.parent
      /\ e.primary = state.primary /\ e.restoring = FALSE
  BY <1>4, StateSound
<1>7. /\ e.phase[s] = new /\ e.phase[Primary] = held
      /\ \A r \in Request \ {s, Primary} : e.phase[r] = state.phase[r]
  BY <1>6, Kinds, StateSound
<1>8. Unfinished(e) = Unfinished(state) \cup {s} /\ new \notin Finished
  BY <1>1, <1>7, Kinds DEF Unfinished, Finished
<1>9. busy => a \in Unfinished(state)
  BY <1>2, Kinds, StateSound DEF Unfinished, Finished
<1>10. state.open \in Seq(Side) /\ e.open \in Seq(Side)
       /\ Range(e.open) = Range(state.open) \cup {s}
  BY <1>6, Appended DEF Turns, Queued
<1>11. ASSUME ~Repeats, NoBatch(e)
       PROVE  InOrder(e)
  <2>1. NoBatch(state) /\ state.phase[s] = "absent" /\ s \notin Unfinished(state)
    BY <1>5, <1>7, <1>11, Kinds DEF NoBatch, Unfinished, Finished
  <2>2. Fifo(state) /\ Once(state.open)
    BY <1>11, <2>1 DEF Turns, Queued, InOrder
  <2>3. \A x \in Unfinished(state) : e.phase[x] = state.phase[x]
    BY <1>7, <2>1, Kinds DEF Unfinished
  <2>4. CASE state.open = <<>>
    <3>1. ~busy
      BY <2>2, <2>4 DEF Fifo
    <3>2. Fifo(e) /\ Once(e.open)
      BY <1>1, <1>2, <1>6, <1>7, <1>8, <1>10, <2>1, <2>2, <2>3, <2>4, <3>1,
         AppendedInOrder
    <3>. QED  BY <1>5, <1>6, <3>2 DEF InOrder
  <2>5. CASE state.open # <<>>
    <3>1. PICK q \in Seq(Side) : q = state.open /\ q # <<>>
      BY <1>10, <2>5
    <3>2. state.active = q[1] /\ state.phase[q[1]] = "active" /\ q[1] \in Side
      BY <2>2, <3>1 DEF Fifo
    <3>3. busy
      BY <3>2
    <3>4. Fifo(e) /\ Once(e.open)
      BY <1>1, <1>2, <1>6, <1>7, <1>8, <1>10, <2>1, <2>2, <2>3, <2>5, <3>3,
         AppendedInOrder
    <3>. QED  BY <1>5, <1>6, <3>4 DEF InOrder
  <2>. QED  BY <2>4, <2>5
<1>14. Rooted(e)
  <2>1. e.active \in Unfinished(e)
    BY <1>2, <1>6, <1>8, <1>9
  <2>. QED  BY <1>5, <1>6, <2>1, AtRoot
<1>15. Listed(e)
  <2>1. ASSUME ~Repeats
        PROVE  Once(e.open) /\ Range(e.open) \subseteq Unfinished(e)
    <3>1. Once(state.open) /\ Range(state.open) \subseteq Unfinished(state)
      BY <2>1 DEF Turns, Queued, Listed
    <3>2. s \notin Range(state.open)
      BY <1>5, <2>1, <3>1 DEF Unfinished, Finished
    <3>. QED  BY <1>6, <1>8, <1>10, <3>1, <3>2, AppendedOnce
  <2>. QED  BY <2>1 DEF Listed
<1>12. Queued(e)
  BY <1>5, <1>6, <1>8, <1>10, <1>11, <1>14, <1>15 DEF Queued
<1>13. Answering(e)
  BY <1>2, <1>6, <1>8, <1>9, <1>10 DEF Turns, Answering
<1>. QED  BY <1>4, <1>5, <1>12, <1>13, TurnsWritten

\* Taking out the last s closes the gap at its place.
LEMMA LastPlace ==
  ASSUME NEW q \in Seq(Side), NEW s \in Range(q)
  PROVE  \E k \in 1..Len(q), r \in Seq(Side) :
           /\ q[k] = s /\ r = RemoveLast(q, s) /\ Len(r) = Len(q) - 1
           /\ \A i \in 1..(k - 1) : r[i] = q[i]
           /\ \A i \in k..(Len(q) - 1) : r[i] = q[i + 1]
<1>1. PICK n \in Nat : n = Len(q) /\ DOMAIN q = 1..n
  OBVIOUS
<1>. DEFINE At == {i \in 1..n : q[i] = s}
            IsLast(k) == k \in At /\ \A j \in At : j <= k
<1>2. \E k : IsLast(k)
  <2>1. PICK T \in SUBSET Nat : T = {m \in Nat : n - m \in At}
    OBVIOUS
  <2>2. PICK i \in 1..n : q[i] = s
    BY <1>1 DEF Range
  <2>3. n - i \in T
    BY <2>1, <2>2
  <2>4. PICK m \in T : \A y \in T : m <= y
    BY <2>3, LeastNumber
  <2>5. ASSUME NEW j \in At PROVE j <= n - m
    <3>1. n - j \in T
      BY <2>1, <2>5
    <3>2. m <= n - j /\ m \in Nat /\ j \in 1..n
      BY <2>1, <2>4, <2>5, <3>1
    <3>. QED  BY <3>2
  <2>. QED  BY <2>1, <2>4, <2>5
<1>3. PICK k : k = CHOOSE i \in DOMAIN q : q[i] = s /\ \A j \in DOMAIN q : q[j] = s => j <= i
  OBVIOUS
<1>4. IsLast(k)
  <2>1. PICK i : IsLast(i)
    BY <1>2
  <2>2. i \in DOMAIN q /\ q[i] = s /\ \A j \in DOMAIN q : q[j] = s => j <= i
    BY <1>1, <2>1
  <2>3. k \in DOMAIN q /\ q[k] = s /\ \A j \in DOMAIN q : q[j] = s => j <= k
    BY <1>3, <2>2
  <2>. QED  BY <1>1, <2>3
<1>5. PICK r : r = SubSeq(q, 1, k - 1) \o SubSeq(q, k + 1, n)
  OBVIOUS
<1>6. RemoveLast(q, s) = r
  BY <1>1, <1>3, <1>5 DEF RemoveLast, RemoveAt
<1>7. k \in 1..n /\ q[k] = s
  BY <1>4
<1>8. /\ SubSeq(q, 1, k - 1) \in Seq(Side) /\ Len(SubSeq(q, 1, k - 1)) = k - 1
      /\ \A i \in 1..(k - 1) : SubSeq(q, 1, k - 1)[i] = q[i]
  BY <1>1, <1>7
<1>9. /\ SubSeq(q, k + 1, n) \in Seq(Side) /\ Len(SubSeq(q, k + 1, n)) = n - k
      /\ \A i \in 1..(n - k) : SubSeq(q, k + 1, n)[i] = q[k + i]
  BY <1>1, <1>7
<1>10. /\ r \in Seq(Side) /\ Len(r) = n - 1
       /\ \A i \in 1..(k - 1) : r[i] = q[i]
       /\ \A i \in k..(n - 1) : r[i] = q[i + 1]
  <2>1. PICK a \in Seq(Side), b \in Seq(Side) :
          a = SubSeq(q, 1, k - 1) /\ b = SubSeq(q, k + 1, n)
    BY <1>8, <1>9
  <2>2. /\ Len(a) = k - 1 /\ Len(b) = n - k
        /\ \A i \in 1..(k - 1) : a[i] = q[i]
        /\ \A i \in 1..(n - k) : b[i] = q[k + i]
    BY <1>8, <1>9, <2>1
  <2>3. r = a \o b
    BY <1>5, <2>1
  <2>4. r \in Seq(Side) /\ Len(r) = n - 1
    BY <1>7, <2>2, <2>3
  <2>5. ASSUME NEW i \in 1..(k - 1) PROVE r[i] = q[i]
    BY <1>7, <2>2, <2>3, <2>5
  <2>6. ASSUME NEW i \in k..(n - 1) PROVE r[i] = q[i + 1]
    <3>1. i - (k - 1) \in 1..(n - k) /\ k + (i - (k - 1)) = i + 1
      BY <1>7, <2>6
    <3>2. i \in 1..(Len(a) + Len(b)) /\ ~(i <= Len(a)) /\ Len(a) = k - 1
      BY <1>7, <2>2, <2>6
    <3>3. r[i] = b[i - Len(a)]
      BY <2>1, <2>3, <3>2, SMTT(30)
    <3>4. r[i] = b[i - (k - 1)]
      BY <3>2, <3>3
    <3>. QED  BY <2>2, <3>1, <3>4
  <2>. QED  BY <2>4, <2>5, <2>6
<1>. QED  BY <1>1, <1>6, <1>7, <1>10

\* It leaves everything else, and of a queue that s heads and is in once, what
\* comes after it.
LEMMA LastRemoved ==
  ASSUME NEW q \in Seq(Side), NEW s \in Range(q)
  PROVE  /\ RemoveLast(q, s) \in Seq(Side)
         /\ Range(q) \ {s} \subseteq Range(RemoveLast(q, s))
         /\ q[1] = s /\ (\A i \in 2..Len(q) : q[i] # s) =>
              /\ Len(RemoveLast(q, s)) = Len(q) - 1
              /\ \A i \in 1..(Len(q) - 1) : RemoveLast(q, s)[i] = q[i + 1]
<1>1. PICK n \in Nat : n = Len(q) /\ DOMAIN q = 1..n
  OBVIOUS
<1>2. PICK k \in 1..n, r \in Seq(Side) :
        /\ q[k] = s /\ r = RemoveLast(q, s) /\ Len(r) = n - 1
        /\ \A i \in 1..(k - 1) : r[i] = q[i]
        /\ \A i \in k..(n - 1) : r[i] = q[i + 1]
  BY <1>1, LastPlace
<1>11. ASSUME NEW x \in Range(q) \ {s}
       PROVE  x \in Range(r)
  <2>1. PICK i \in 1..n : x = q[i]
    BY <1>1 DEF Range
  <2>2. i < k \/ i > k
    BY <1>2, <1>11, <2>1
  <2>3. CASE i < k
    <3>1. i \in 1..(n - 1) /\ r[i] = x
      BY <1>2, <2>1, <2>3
    <3>. QED  BY <1>2, <3>1 DEF Range
  <2>4. CASE i > k
    <3>1. i - 1 \in 1..(n - 1) /\ r[i - 1] = x
      <4>1. i - 1 \in k..(n - 1) /\ i - 1 + 1 = i
        BY <1>2, <2>4
      <4>. QED  BY <1>2, <2>1, <4>1
    <3>. QED  BY <1>2, <3>1 DEF Range
  <2>. QED  BY <2>2, <2>3, <2>4
<1>12. ASSUME q[1] = s, \A i \in 2..n : q[i] # s
       PROVE  k = 1
  BY <1>2, <1>12
<1>. QED  BY <1>1, <1>2, <1>11, <1>12

\* A queue that holds s once holds it no longer, and the rest once.
LEMMA RemovedOnce ==
  ASSUME NEW q \in Seq(Side), NEW s \in Range(q), Once(q)
  PROVE  Once(RemoveLast(q, s)) /\ Range(RemoveLast(q, s)) \subseteq Range(q) \ {s}
<1>1. PICK n \in Nat : n = Len(q) /\ DOMAIN q = 1..n
  OBVIOUS
<1>2. PICK k \in 1..n, r \in Seq(Side) :
        /\ q[k] = s /\ r = RemoveLast(q, s) /\ Len(r) = n - 1
        /\ \A i \in 1..(k - 1) : r[i] = q[i]
        /\ \A i \in k..(n - 1) : r[i] = q[i + 1]
  BY <1>1, LastPlace
<1>3. PICK From : From = [i \in 1..(n - 1) |-> IF i < k THEN i ELSE i + 1]
  OBVIOUS
<1>4. ASSUME NEW i \in 1..(n - 1)
      PROVE  /\ From[i] \in 1..n /\ From[i] # k /\ r[i] = q[From[i]]
             /\ (From[i] = i /\ i < k) \/ (From[i] = i + 1 /\ i >= k)
  <2>1. CASE i < k
    <3>1. From[i] = i /\ i \in 1..(k - 1) /\ i \in 1..n /\ i # k
      BY <1>2, <1>3, <2>1
    <3>. QED  BY <1>2, <2>1, <3>1
  <2>2. CASE ~(i < k)
    BY <1>2, <1>3, <2>2
  <2>. QED  BY <2>1, <2>2
<1>5. DOMAIN r = 1..(n - 1)
  BY <1>1, <1>2
<1>6. ASSUME NEW i \in 1..(n - 1), NEW j \in 1..(n - 1), r[i] = r[j]
      PROVE  i = j
  <2>1. From[i] = From[j]
    BY <1>1, <1>4, <1>6 DEF Once
  <2>. QED  BY <1>4, <2>1
<1>7. ASSUME NEW i \in 1..(n - 1)
      PROVE  r[i] \in Range(q) \ {s}
  <2>1. r[i] = q[From[i]] /\ From[i] \in 1..n /\ From[i] # k
    BY <1>4
  <2>2. q[From[i]] # q[k]
    BY <1>1, <2>1 DEF Once
  <2>. QED  BY <1>1, <1>2, <2>1, <2>2 DEF Range
<1>. QED  BY <1>2, <1>5, <1>6, <1>7 DEF Once, Range

\* A follow-up is settled, and what is left of the queue is o.  The state e goes on
\* with the next follow-up, with the primary, or where it was.
GoesOn(s, o, e) ==
  LET left == OpenBut(s, o) IN
  /\ e.open = o /\ e.parent = state.parent /\ e.primary = state.primary
  /\ e.committed = state.committed /\ e.needs = state.needs /\ e.prompt = state.prompt
  /\ e.dispatch = [state.dispatch EXCEPT ![s] = Settled(@)]
  /\ \/ /\ left # {}
        /\ e.phase = [state.phase EXCEPT ![s] = "completed", ![o[Min(left)]] = "active"]
        /\ e.active = o[Min(left)] /\ e.restoring = FALSE
     \/ /\ left = {} /\ state.primary /\ e.active = Primary
        /\ \E x \in {"active", "completed"} :
             e.phase = [state.phase EXCEPT ![s] = "completed", ![Primary] = x]
     \/ /\ left = {} /\ ~state.primary /\ e.active = state.active
        /\ e.phase = [state.phase EXCEPT ![s] = "completed"]

\* The reply to a follow-up does one of the three.
LEMMA ReplyGoesOn ==
  ASSUME IInv, NEW s \in Side, SidecarTurnEnd(s)
  PROVE  \E o, e : /\ o = IF s \in Range(state.open) THEN RemoveLast(state.open, s)
                          ELSE state.open
                   /\ GoesOn(s, o, e) /\ Save(e)
<1>. DEFINE queue == IF s \in Range(state.open) THEN RemoveLast(state.open, s) ELSE state.open
            others == OpenBut(s, queue)
            goesOn == state.primary /\ state.needs /\ state.phase[Primary] # "completed"
            over == [state EXCEPT !.phase[s] = "completed", !.dispatch[s] = Settled(@),
                                  !.open = queue]
            Following(o, left, restored, done) ==
              CASE left # {} ->
                     [done EXCEPT !.phase[o[Min(left)]] = "active",
                                  !.active = o[Min(left)],
                                  !.restoring = FALSE]
                [] left = {} /\ restored ->
                     [done EXCEPT !.phase[Primary] = "active", !.active = Primary,
                                  !.restoring = TRUE]
                [] left = {} /\ ~restored /\ state.primary ->
                     [done EXCEPT !.phase[Primary] = "completed", !.active = Primary]
                [] OTHER -> done
<1>. HIDE DEF Following
<1>saved. Save(Following(queue, others, goesOn, over))
  BY DEF SidecarTurnEnd, Following
<1>1. PICK o, left, restored, done, e :
        /\ o = queue /\ left = OpenBut(s, o) /\ restored = goesOn
        /\ done = [state EXCEPT !.phase[s] = "completed", !.dispatch[s] = Settled(@),
                                !.open = o]
        /\ e = Following(o, left, restored, done) /\ Save(e)
  BY <1>saved
<1>2. left = OpenBut(s, o) /\ (restored => state.primary)
  BY <1>1
<1>3. PICK next : next = o[Min(left)]
  OBVIOUS
<1>4. PICK ds : ds = [state.dispatch EXCEPT ![s] = Settled(@)]
  OBVIOUS
<1>5. restored \in BOOLEAN /\ (~restored \/ state.primary)
  BY <1>1
<1>6. done = [state EXCEPT !.phase[s] = "completed", !.dispatch = ds, !.open = o]
  BY <1>1, <1>4
<1>7. /\ e = CASE left # {} ->
                    [done EXCEPT !.phase[next] = "active", !.active = next, !.restoring = FALSE]
               [] left = {} /\ restored ->
                    [done EXCEPT !.phase[Primary] = "active", !.active = Primary,
                                 !.restoring = TRUE]
               [] left = {} /\ ~restored /\ state.primary ->
                    [done EXCEPT !.phase[Primary] = "completed", !.active = Primary]
               [] OTHER -> done
      /\ Save(e)
  BY <1>1, <1>3 DEF Following
<1>8. /\ done \in [phase : {done.phase}, dispatch : {ds}, parent : {state.parent},
                   committed : {state.committed}, open : {o}, active : {state.active},
                   primary : {state.primary}, prompt : {state.prompt},
                   needs : {state.needs},
                   restoring : {state.restoring}]
      /\ done.phase = [state.phase EXCEPT ![s] = "completed"]
  BY <1>6, StateSound
<1>9. GoesOn(s, o, e)
  <2>1. CASE left # {}
    <3>1. e = [done EXCEPT !.phase[next] = "active", !.active = next, !.restoring = FALSE]
      BY <1>7, <2>1
    <3>2. /\ e.open = o /\ e.parent = state.parent /\ e.primary = state.primary
          /\ e.phase = [done.phase EXCEPT ![next] = "active"] /\ e.active = next
          /\ e.restoring = FALSE /\ e.dispatch = ds
          /\ e.committed = state.committed /\ e.needs = state.needs
          /\ e.prompt = state.prompt
      BY <1>8, <3>1
    <3>. QED  BY <1>2, <1>3, <1>4, <1>8, <2>1, <3>2 DEF GoesOn
  <2>2. CASE left = {} /\ state.primary
    <3>1. PICK x \in {"active", "completed"} :
            (restored => x = "active") /\ (~restored => x = "completed")
      BY <1>5
    <3>2. /\ e.open = o /\ e.parent = state.parent /\ e.primary = state.primary
          /\ e.phase = [done.phase EXCEPT ![Primary] = x] /\ e.active = Primary
          /\ e.dispatch = ds /\ e.committed = state.committed /\ e.needs = state.needs
          /\ e.prompt = state.prompt
      <4>1. CASE restored
        <5>1. e = [done EXCEPT !.phase[Primary] = "active", !.active = Primary,
                               !.restoring = TRUE]
          BY <1>7, <2>2, <4>1
        <5>. QED  BY <1>8, <3>1, <4>1, <5>1
      <4>2. CASE ~restored
        <5>1. e = [done EXCEPT !.phase[Primary] = "completed", !.active = Primary]
          BY <1>7, <2>2, <4>2
        <5>. QED  BY <1>8, <3>1, <4>2, <5>1
      <4>. QED  BY <4>1, <4>2
    <3>3. e.phase = [state.phase EXCEPT ![s] = "completed", ![Primary] = x]
      BY <1>8, <3>2
    <3>. QED  BY <1>2, <1>4, <2>2, <3>2, <3>3 DEF GoesOn
  <2>3. CASE left = {} /\ ~state.primary
    <3>1. e = done
      BY <1>5, <1>7, <2>3
    <3>. QED  BY <1>2, <1>4, <1>8, <2>3, <3>1 DEF GoesOn
  <2>. QED  BY <2>1, <2>2, <2>3
<1>. QED  BY <1>1, <1>7, <1>9

\* In a queue in order the active follow-up is the head, and the rest is left.
LEMMA HeadRemoved ==
  ASSUME NEW d, NEW s \in Side, d.open \in Seq(Side), InOrder(d), d.active = s,
         NEW o, o = IF s \in Range(d.open) THEN RemoveLast(d.open, s) ELSE d.open
  PROVE  /\ d.primary /\ o \in Seq(Side) /\ Once(o)
         /\ Len(o) = Cardinality(Unfinished(d) \ {s}) /\ Range(o) = Unfinished(d) \ {s}
         /\ \A i \in 1..Len(o) : d.phase[o[i]] = "waiting"
<1>1. PICK q \in Seq(Side), n \in Nat : q = d.open /\ n = Len(q) /\ DOMAIN q = 1..n
  OBVIOUS
<1>2. q # <<>> /\ q[1] = s /\ n >= 1
  BY <1>1 DEF InOrder, Fifo
<1>3. s \in Range(q) /\ Range(q) = Unfinished(d) /\ n = Cardinality(Range(q))
      /\ d.primary /\ Once(q) /\ \A i \in 2..n : d.phase[q[i]] = "waiting"
  BY <1>1, <1>2 DEF InOrder, Fifo, Range
<1>4. \A i \in 2..n : q[i] # s
  <2>1. ASSUME NEW i \in 2..n, q[i] = q[1] PROVE FALSE
    <3>1. i \in 1..n /\ 1 \in 1..n /\ i # 1
      BY <1>2, <2>1
    <3>. QED  BY <1>1, <1>3, <2>1, <3>1 DEF Once
  <2>. QED  BY <1>2, <2>1
<1>5. o = RemoveLast(q, s)
  BY <1>1, <1>3
<1>6. /\ o \in Seq(Side) /\ Range(q) \ {s} \subseteq Range(o)
      /\ Len(o) = n - 1 /\ \A i \in 1..(n - 1) : o[i] = q[i + 1]
  BY <1>1, <1>2, <1>3, <1>4, <1>5, LastRemoved
<1>7. \A i \in 1..(n - 1) : i + 1 \in 2..n /\ i + 1 \in 1..n
  BY <1>2
<1>8. DOMAIN o = 1..(n - 1)
  BY <1>6
<1>9. Once(o)
  <2>1. ASSUME NEW i \in 1..(n - 1), NEW j \in 1..(n - 1), o[i] = o[j]
        PROVE  i = j
    <3>1. q[i + 1] = q[j + 1]
      BY <1>6, <2>1
    <3>2. i + 1 = j + 1
      BY <1>1, <1>3, <1>7, <3>1 DEF Once
    <3>. QED  BY <3>2
  <2>. QED  BY <1>8, <2>1 DEF Once
<1>10. Range(o) \subseteq Range(q) \ {s}
  <2>1. ASSUME NEW i \in 1..(n - 1) PROVE o[i] \in Range(q) \ {s}
    <3>1. o[i] = q[i + 1] /\ i + 1 \in 2..n /\ i + 1 \in DOMAIN q
      BY <1>1, <1>6, <1>7
    <3>. QED  BY <1>4, <3>1 DEF Range
  <2>. QED  BY <1>8, <2>1 DEF Range
<1>11. Cardinality(Range(q) \ {s}) = n - 1
  <2>1. PICK R : R = Range(q)
    OBVIOUS
  <2>2. IsFiniteSet(R) /\ s \in R /\ Cardinality(R) = n
    BY <1>3, <2>1, FiniteRange
  <2>. QED  BY ONLY <2>1, <2>2, FS_RemoveElement
<1>12. \A i \in 1..(n - 1) : d.phase[o[i]] = "waiting"
  <2>1. ASSUME NEW i \in 1..(n - 1) PROVE d.phase[o[i]] = "waiting"
    <3>1. o[i] = q[i + 1] /\ i + 1 \in 2..n
      BY <1>6, <1>7
    <3>. QED  BY <1>3, <3>1
  <2>. QED  BY <2>1
<1>. QED  BY <1>3, <1>6, <1>9, <1>10, <1>11, <1>12

\* The reply to a follow-up keeps the turns.
LEMMA ReplyTurns ==
  ASSUME IInv, Turns, NEW s \in Side, SidecarTurnEnd(s)
  PROVE  Turns'
<1>1. PICK o, e : /\ o = IF s \in Range(state.open) THEN RemoveLast(state.open, s)
                         ELSE state.open
                  /\ GoesOn(s, o, e) /\ Save(e)
  BY ReplyGoesOn
<1>2. /\ bound' = bound /\ awaiting' = awaiting /\ Files /\ state.active = s
      /\ state.phase \in [Request -> Phase] /\ state.open \in Seq(Side)
  BY StateSound DEF SidecarTurnEnd, memory, IInv, Turns, Queued
<1>3. o \in Seq(Side) /\ Range(state.open) \ {s} \subseteq Range(o)
  BY <1>1, <1>2, LastRemoved
<1>4. Unfinished(state) \ {s} \subseteq Range(o)
  BY <1>3 DEF Turns, Answering
<1>5. PICK left : left = OpenBut(s, o)
  OBVIOUS
<1>6. /\ left \subseteq DOMAIN o
      /\ \A i \in DOMAIN o : i \in left <=> o[i] \in Unfinished(state) \ {s}
      /\ left \in SUBSET Nat
  <2>1. PICK n \in Nat : n = Len(o) /\ DOMAIN o = 1..n
    BY <1>3
  <2>2. left \subseteq 1..n /\ \A i \in 1..n : o[i] \in Side
    BY <1>3, <1>5, <2>1 DEF OpenBut
  <2>. QED  BY <1>5, <2>1, <2>2 DEF OpenBut, Unfinished
<1>7. (~Repeats /\ NoBatch(state)) => InOrder(state)
  BY DEF Turns, Queued
<1>10. ~Repeats => Once(o) /\ Range(o) \subseteq Unfinished(state) \ {s}
  <2>1. ASSUME ~Repeats
        PROVE  Once(state.open) /\ Range(state.open) \subseteq Unfinished(state)
    BY <2>1 DEF Turns, Queued, Listed
  <2>2. CASE s \in Range(state.open)
    BY <1>1, <1>2, <2>1, <2>2, RemovedOnce
  <2>3. CASE s \notin Range(state.open)
    BY <1>1, <2>1, <2>3
  <2>. QED  BY <2>2, <2>3
<1>8. CASE left # {}
  <2>1. PICK k, next : k = Min(left) /\ next = o[k]
    OBVIOUS
  <2>2. k \in left /\ \A j \in left : k <= j
    BY <1>6, <1>8, <2>1, LeastNumber DEF Min
  <2>3. next \in Unfinished(state) \ {s}
    BY <1>6, <2>1, <2>2
  <2>4. /\ e.phase = [state.phase EXCEPT ![s] = "completed", ![next] = "active"]
        /\ e.active = next /\ e.restoring = FALSE /\ e.open = o /\ e.primary = state.primary
    BY <1>1, <1>5, <1>8, <2>1 DEF GoesOn
  <2>5. next \in Side
    BY <2>3 DEF Unfinished
  <2>6. /\ e.phase[s] = "completed" /\ e.phase[next] = "active"
        /\ \A r \in Request \ {s, next} : e.phase[r] = state.phase[r]
    BY <1>2, <2>3, <2>4, <2>5, Kinds
  <2>7. Unfinished(e) = Unfinished(state) \ {s}
    BY <2>3, <2>5, <2>6, Kinds DEF Unfinished, Finished
  <2>8. ASSUME ~Repeats, NoBatch(e)
        PROVE  InOrder(e)
    <3>1. NoBatch(state)
      BY <2>5, <2>6, <2>8, Kinds DEF NoBatch
    <3>2. InOrder(state)
      BY <1>7, <2>8, <3>1
    <3>3. /\ state.primary /\ Once(o)
          /\ Len(o) = Cardinality(Unfinished(state) \ {s})
          /\ Range(o) = Unfinished(state) \ {s}
          /\ \A i \in 1..Len(o) : state.phase[o[i]] = "waiting"
      BY <1>1, <1>2, <3>2, HeadRemoved
    <3>4. DOMAIN o = 1..Len(o) /\ Len(o) \in Nat
      BY <1>3
    <3>5. 1 \in 1..Len(o)
      <4>1. PICK i : i \in 1..Len(o)
        BY <1>6, <1>8, <3>4
      <4>. QED  BY <3>4, <4>1
    <3>6. 1 \in left
      BY <1>6, <3>3, <3>4, <3>5 DEF Range
    <3>7. k = 1
      BY <1>6, <2>2, <3>4, <3>6
    <3>8. ASSUME NEW i \in 2..Len(o) PROVE e.phase[o[i]] = "waiting"
      <4>1. i \in 1..Len(o) /\ i # 1
        BY <3>4, <3>8
      <4>2. o[i] # next /\ o[i] \in Range(o)
        BY <2>1, <3>3, <3>4, <3>5, <3>7, <4>1 DEF Once, Range
      <4>3. o[i] \in Request \ {s, next}
        BY <3>3, <4>2, Kinds DEF Unfinished
      <4>. QED  BY <2>6, <3>3, <4>1, <4>3
    <3>9. Fifo(e)
      <4>1. o # <<>> /\ next = o[1]
        BY <2>1, <3>5, <3>7
      <4>. QED  BY <2>4, <2>6, <2>7, <3>3, <3>8, <4>1 DEF Fifo
    <3>. QED  BY <2>4, <3>3, <3>9 DEF InOrder
  <2>9. e.phase[Primary] = "suspended" => e.primary /\ Unfinished(e) # {}
    <3>1. e.phase[Primary] = state.phase[Primary]
      BY <2>5, <2>6, Kinds
    <3>. QED  BY <2>3, <2>4, <2>7, <3>1 DEF Turns, Queued
  <2>13. Rooted(e)
    <3>1. state.primary
      BY <2>3 DEF Turns, Queued, Rooted
    <3>2. e.active \in Unfinished(e)
      BY <2>3, <2>4, <2>7
    <3>. QED  BY <2>4, <3>1, <3>2, AtRoot
  <2>14. Listed(e)
    BY <1>10, <2>4, <2>7 DEF Listed
  <2>10. Queued(e)
    BY <1>3, <2>4, <2>8, <2>9, <2>13, <2>14 DEF Queued
  <2>11. Answering(e)
    BY <1>4, <2>3, <2>4, <2>7 DEF Answering
  <2>12. awaiting' => Unfinished(e) = {}
    BY <1>2, <2>7 DEF Turns
  <2>. QED  BY <1>1, <1>2, <2>10, <2>11, <2>12, TurnsWritten
<1>9. CASE left = {}
  <2>1. Unfinished(state) \ {s} = {}
    BY <1>4, <1>6, <1>9 DEF Range
  <2>2. /\ e.open = o /\ e.primary = state.primary
        /\ \/ /\ state.primary /\ e.active = Primary
              /\ \E x \in {"active", "completed"} :
                   e.phase = [state.phase EXCEPT ![s] = "completed", ![Primary] = x]
           \/ ~state.primary /\ e.phase = [state.phase EXCEPT ![s] = "completed"]
    BY <1>1, <1>5, <1>9 DEF GoesOn
  <2>3. /\ e.phase[s] = "completed"
        /\ \A r \in Request \ {s, Primary} : e.phase[r] = state.phase[r]
        /\ ~state.primary => e.phase[Primary] = state.phase[Primary]
        /\ state.primary => e.phase[Primary] # "suspended" /\ e.active = Primary
    BY <1>2, <2>2, Kinds
  <2>4. Unfinished(e) = {}
    BY <2>1, <2>3, Kinds DEF Unfinished, Finished
  <2>5. ASSUME ~Repeats, NoBatch(e)
        PROVE  InOrder(e)
    <3>1. InOrder(state)
      BY <1>7, <2>3, <2>5, Kinds DEF NoBatch
    <3>2. /\ state.primary /\ Once(o)
          /\ Len(o) = Cardinality(Unfinished(state) \ {s})
      BY <1>1, <1>2, <3>1, HeadRemoved
    <3>3. o = <<>>
      <4>1. Len(o) = 0
        BY <2>1, <3>2, FS_EmptySet
      <4>. QED  BY <1>3, <4>1
    <3>4. Fifo(e)
      BY <1>3, <2>2, <2>3, <2>4, <3>2, <3>3, EmptyQueue, Kinds
    <3>. QED  BY <2>2, <3>2, <3>4 DEF InOrder
  <2>6. e.phase[Primary] # "suspended"
    BY <2>3 DEF Turns, Queued
  <2>8. state.primary
    <3>1. s \notin Batch \cup {Primary, None}
      BY Kinds
    <3>. QED  BY <1>2, <3>1 DEF Turns, Queued, Rooted
  <2>9. Rooted(e)
    BY <2>3, <2>4, <2>8 DEF Rooted
  <2>10. Listed(e)
    BY <1>10, <2>1, <2>2, <2>4 DEF Listed
  <2>7. Queued(e) /\ Answering(e)
    BY <1>3, <2>2, <2>4, <2>5, <2>6, <2>9, <2>10 DEF Queued, Answering
  <2>. QED  BY <1>1, <1>2, <2>4, <2>7, TurnsWritten
<1>. QED  BY <1>8, <1>9

\* A state with no follow-up in it.
LEMMA EmptyQueued ==
  ASSUME NEW d, d.open = <<>>, Unfinished(d) = {}, d.active = None,
         d.phase[Primary] # "suspended"
  PROVE  Queued(d) /\ Answering(d)
<1>1. d.open \in Seq(Side) /\ Once(d.open)
  BY DEF Once
<1>2. Fifo(d)
  BY <1>1, EmptyQueue, Kinds
<1>3. Rooted(d) /\ Listed(d)
  BY <1>1 DEF Rooted, Listed, Range
<1>. QED  BY <1>1, <1>2, <1>3 DEF Queued, InOrder, Answering

\* Nothing is open at the start.
LEMMA BlankQueued == Queued(Blank) /\ Answering(Blank)
<1>1. /\ Blank.phase = [r \in Request |-> "absent"] /\ Blank.open = <<>>
      /\ Blank.active = None
  BY DEF Blank
<1>2. Unfinished(Blank) = {}
  BY <1>1, Kinds DEF Unfinished, Finished
<1>. QED  BY <1>1, <1>2, Kinds, EmptyQueued

\* What is read back is in order, and answered.
LEMMA HydratedQueued ==
  ASSUME NEW d, Sound(d), Queued(d)
  PROVE  Queued(Hydrated(d)) /\ Answering(Hydrated(d))
<1>1. CASE ~Restorable(d)
  BY <1>1, BlankQueued DEF Hydrated
<1>2. CASE Restorable(d)
  <2>1. PICK a, ds : /\ d.active = None /\ d.primary => a = Primary
                     /\ ~(d.active = None /\ d.primary) => a = d.active
                     /\ ds = [s \in Side |-> Reloaded(d.dispatch[s], d.phase[s])]
    <3>1. CASE d.active = None /\ d.primary
      BY <3>1
    <3>2. CASE ~(d.active = None /\ d.primary)
      BY <3>2
    <3>. QED  BY <3>1, <3>2
  <2>2. PICK h : h = Hydrated(d)
    OBVIOUS
  <2>3. a = IF d.active = None /\ d.primary THEN Primary ELSE d.active
    BY <2>1
  <2>4. h = [d EXCEPT !.dispatch = ds, !.active = a]
    BY <1>2, <2>1, <2>2, <2>3 DEF Hydrated
  <2>5. /\ h.phase = d.phase /\ h.open = d.open /\ h.primary = d.primary
        /\ h.restoring = d.restoring /\ h.active = a /\ h.parent = d.parent
    BY <2>4 DEF Sound
  <2>6. Unfinished(h) = Unfinished(d)
    BY <2>5 DEF Unfinished
  <2>7. PICK q \in Seq(Side) : q = d.open
    BY DEF Queued
  <2>8. Fifo(h)
    <3>1. CASE q = <<>>
      BY <1>2, <2>1, <2>5, <2>6, <2>7, <3>1, Kinds DEF Restorable, Fifo
    <3>2. CASE q # <<>>
      <4>1. d.active = q[1] /\ q[1] \in Side
        BY <1>2, <2>7, <3>2 DEF Restorable, Fifo
      <4>2. a = d.active
        BY <2>1, <4>1, Kinds
      <4>. QED  BY <1>2, <2>5, <2>6, <4>2 DEF Restorable, Fifo
    <3>. QED  BY <3>1, <3>2
  <2>11. Rooted(h)
    <3>1. PICK C \in SUBSET Batch :
            /\ d.active \in Unfinished(d) \cup C \cup {Primary, None}
            /\ \A b \in C : d.parent[b] \in Unfinished(d) \cup C \cup {Primary, None}
      BY DEF Queued, Rooted
    <3>2. a \in Unfinished(d) \cup C \cup {Primary, None}
      BY <2>1, <3>1
    <3>3. Unfinished(h) # {} => h.primary
      BY <2>5, <2>6 DEF Queued, Rooted
    <3>. QED  BY <2>5, <2>6, <3>1, <3>2, <3>3 DEF Rooted
  <2>12. Listed(h)
    BY <2>5, <2>6 DEF Queued, Listed
  <2>9. Queued(h)
    BY <2>5, <2>6, <2>8, <2>11, <2>12 DEF Queued, NoBatch, InOrder
  <2>10. Answering(h)
    <3>1. Range(q) = Unfinished(h)
      BY <2>5, <2>7, <2>8 DEF Fifo
    <3>2. CASE q = <<>>
      BY <2>5, <2>7, <3>1, <3>2 DEF Answering, Range
    <3>3. CASE q # <<>>
      <4>1. h.active = q[1] /\ q[1] \in Range(q)
        BY <2>5, <2>7, <2>8, <3>3 DEF Fifo, Range
      <4>. QED  BY <2>5, <2>7, <3>1, <4>1 DEF Answering
    <3>. QED  BY <3>2, <3>3
  <2>. QED  BY <2>2, <2>9, <2>10
<1>. QED  BY <1>1, <1>2

\* A project that is left has nothing open.
LEMMA RetiredQueued ==
  ASSUME Sound(state)
  PROVE  Queued(Retired) /\ Answering(Retired)
<1>1. PICK phases : phases = [r \in Request |->
        IF state.phase[r] = "absent" THEN "absent" ELSE "completed"]
  OBVIOUS
<1>2. PICK ds : ds = [s \in Side |-> Settled(state.dispatch[s])]
  OBVIOUS
<1>3. Retired = [state EXCEPT !.phase = phases, !.dispatch = ds, !.open = <<>>,
                              !.active = None, !.primary = FALSE, !.needs = FALSE,
                              !.restoring = FALSE]
  BY <1>1, <1>2 DEF Retired
<1>4. Retired.phase = phases /\ Retired.open = <<>> /\ Retired.active = None
  BY <1>3 DEF Sound
<1>5. Retired.phase[Primary] # "suspended"
  BY <1>1, <1>4, Kinds
<1>. QED  BY <1>4, <1>5, RetiredSettled, EmptyQueued, Kinds

\* The state and the files after a step that may write two of them.
LEMMA TurnsRead ==
  ASSUME Turns, NEW h, Queued(h), Answering(h), state' = h, awaiting' = FALSE,
         \A p \in Project : Queued(saved'[p])
  PROVE  Turns'
<1>1. Queued(state)' = Queued(h)
  BY DEF Queued, Rooted, Listed, Unfinished, NoBatch, InOrder, Fifo, Once
<1>3. Answering(state)' = Answering(h)
  BY DEF Answering, Unfinished, Interposed
<1>2. (\A p \in Project : Queued(saved[p]))'
  BY DEF Queued, Rooted, Listed, Unfinished, NoBatch, InOrder, Fifo, Once
<1>. QED  BY <1>1, <1>2, <1>3 DEF Turns

\* A restart reads what is in order.
LEMMA RestartTurns ==
  ASSUME IInv, Turns, Restart
  PROVE  Turns'
<1>1. Files /\ bound \in Project /\ Sound(saved[bound]) /\ Queued(saved[bound])
  BY DEF IInv, Files, Turns
<1>2. PICK h : h = Hydrated(saved[bound])
  OBVIOUS
<1>3. state' = h /\ Queued(h) /\ Answering(h) /\ awaiting' = FALSE
  BY <1>1, <1>2, HydratedQueued DEF Restart, Forget
<1>4. PICK file : saved' = [saved EXCEPT ![bound] = file] /\ file \in {state', saved[bound]}
  BY DEF Restart
<1>5. Queued(file)
  BY <1>1, <1>3, <1>4
<1>6. \A p \in Project : Queued(saved'[p])
  BY <1>1, <1>4, <1>5 DEF Files, Turns
<1>. QED  BY <1>3, <1>6, TurnsRead

\* So does a change of the project, which leaves nothing open behind.
LEMMA RebindTurns ==
  ASSUME IInv, Turns, NEW p \in Project, Rebind(p)
  PROVE  Turns'
<1>1. Files /\ bound \in Project /\ Sound(state) /\ Sound(saved[p]) /\ Queued(saved[p])
  BY DEF IInv, Files, Turns
<1>2. PICK h : h = Hydrated(saved[p])
  OBVIOUS
<1>3. state' = h /\ Queued(h) /\ Answering(h) /\ awaiting' = FALSE
  BY <1>1, <1>2, HydratedQueued DEF Rebind, Forget
<1>4. PICK file : /\ saved' = [saved EXCEPT ![bound] = file, ![p] = h]
                  /\ file \in {Retired, saved[bound]}
  BY <1>3 DEF Rebind
<1>5. Queued(file)
  BY <1>1, <1>4, RetiredQueued DEF Turns
<1>6. \A q \in Project : Queued(saved'[q])
  BY <1>1, <1>3, <1>4, <1>5 DEF Files, Turns
<1>. QED  BY <1>3, <1>6, TurnsRead

\* The turns at the start.
LEMMA InitTurns == Init => Turns
<1>. SUFFICES ASSUME Init PROVE Turns
  OBVIOUS
<1>1. state = Blank /\ saved = [p \in Project |-> Blank] /\ awaiting = FALSE
  BY DEF Init
<1>. QED  BY <1>1, BlankQueued DEF Turns

\* Every step keeps the turns.
LEMMA StepTurns ==
  ASSUME IInv, Turns, [Next]_vars
  PROVE  Turns'
<1>1. CASE BeforeAgentStart \/ PrimaryMessage \/ PrimaryTurnEnd
  BY <1>1, PrimaryTurns
<1>2. CASE AssistantMessage
  BY <1>2, AssistantTurns
<1>3. CASE Context \/ RecordDispatch \/ SessionStart
  BY <1>3, DispatchTurns
<1>4. CASE \E s \in Side : SidecarMessage(s) \/ SidecarTurnEnd(s)
  BY <1>4, FollowUpTurns, ReplyTurns
<1>5. CASE \E b \in Batch : Stage(b) \/ BatchMessage(b) \/ CommitBatch(b) \/ BatchTurnEnd(b)
  BY <1>5, BatchMessageTurns, BatchEndTurns, DispatchTurns
<1>6. CASE \E c \in ToolCall : Admit(c) \/ Rollback(c) \/ ToolStart(c) \/ ToolResult(c)
  BY <1>6, DispatchTurns
<1>7. CASE Restart \/ \E p \in Project : Rebind(p)
  BY <1>7, RestartTurns, RebindTurns
<1>8. CASE SetMode \/ Unstage \/ UNCHANGED vars
  BY <1>8, TurnsUntouched DEF SetMode, Unstage, vars, memory
<1>. QED  BY <1>1, <1>2, <1>3, <1>4, <1>5, <1>6, <1>7, <1>8 DEF Next

-----------------------------------------------------------------------------
\* The types that the invariant has not used.
Typed(d) ==
  /\ \A s \in Side : d.dispatch[s].revision <= 2
  /\ d.parent \in [Batch -> Request \cup {None}]
  /\ d.committed \subseteq Batch
  /\ d.active \in Request \cup {None}
  /\ {d.needs, d.prompt} \subseteq BOOLEAN

Typing ==
  /\ Typed(state) /\ \A p \in Project : Typed(saved[p])
  /\ \A c \in ToolCall : owner[c].revision <= 2
  /\ awaiting \in BOOLEAN
  /\ seen \subseteq ToolCall
  /\ call \in [ToolCall -> {"none", "hooked", "started"}]
  /\ staged \in Batch \cup {None}

\* A write of a state that is typed.
LEMMA TypingWritten ==
  ASSUME Files, Typing, NEW e, Save(e), bound' = bound, Typed(e)
  PROVE  Typed(state)' /\ (\A p \in Project : Typed(saved[p]))'
<1>1. /\ state' = e /\ saved' = [saved EXCEPT ![bound] = e]
      /\ saved'[bound] = e
      /\ \A p \in Project \ {bound} : saved'[p] = saved[p]
  BY DEF Files, Save
<1>2. \A p \in Project : Typed(saved'[p])
  BY <1>1 DEF Typing
<1>. QED  BY <1>1, <1>2 DEF Typed

\* A state that differs in its phases, its queue and these fields only.
LEMMA FieldsTyped ==
  ASSUME Typed(state), NEW e, e.dispatch = state.dispatch,
         e.parent \in [Batch -> Request \cup {None}], e.committed \subseteq Batch,
         e.active \in Request \cup {None}, {e.needs, e.prompt} \subseteq BOOLEAN
  PROVE  Typed(e)
BY DEF Typed

\* The memory but for the owners, where no call is hooked and no batch staged.
LEMMA MemoryTyped ==
  ASSUME Typing, Typed(state)', (\A p \in Project : Typed(saved[p]))',
         owner' = owner \/ owner' = [c \in ToolCall |-> NoOwner],
         awaiting' \in BOOLEAN, seen' = seen \/ seen' = {},
         call' = call \/ call' = [c \in ToolCall |-> "none"],
         staged' = staged \/ staged' = None
  PROVE  Typing'
<1>1. \A c \in ToolCall : owner'[c].revision <= 2
  BY DEF Typing, NoOwner
<1>2. call' \in [ToolCall -> {"none", "hooked", "started"}]
  BY DEF Typing
<1>. QED  BY <1>1, <1>2 DEF Typing

\* A new primary, or one that is taken up again.
LEMMA PrimaryTyping ==
  ASSUME IInv, Typing, BeforeAgentStart \/ PrimaryMessage \/ PrimaryTurnEnd
  PROVE  Typing'
<1>1. Files /\ Typed(state)
  BY DEF IInv, Typing
<1>2. ASSUME Activate, bound' = bound
      PROVE  Typed(state)' /\ (\A p \in Project : Typed(saved[p]))'
  <2>1. PICK e : e = [state EXCEPT !.phase[Primary] = "active", !.active = Primary] /\ Save(e)
    BY <1>2 DEF Activate
  <2>2. /\ e.dispatch = state.dispatch /\ e.parent = state.parent
        /\ e.committed = state.committed /\ e.active = Primary
        /\ e.needs = state.needs /\ e.prompt = state.prompt
    BY <2>1, StateSound
  <2>3. Typed(e)
    BY <1>1, <2>2, Kinds DEF Typed
  <2>. QED  BY <1>1, <1>2, <2>1, <2>3, TypingWritten
<1>3. ASSUME NEW phase, NEW wait, NEW asked, Begin(phase, wait, asked), bound' = bound
      PROVE  Typed(state)' /\ (\A p \in Project : Typed(saved[p]))'
  <2>. DEFINE New(prompt, needs) ==
         [Blank EXCEPT !.phase[Primary] = phase, !.primary = TRUE,
                       !.active = Primary, !.prompt = prompt, !.needs = needs]
  <2>0. PICK prompt, needs \in BOOLEAN : Save(New(prompt, needs))
    BY <1>3 DEF Begin
  <2>1. PICK e : e = New(prompt, needs) /\ Save(e)
    BY <2>0
  <2>2. /\ e.dispatch = [s \in Side |-> NoDispatch] /\ e.parent = [b \in Batch |-> None]
        /\ e.committed = {} /\ e.active = Primary /\ e.needs = needs /\ e.prompt = prompt
    BY <2>1 DEF Blank
  <2>3. Typed(e)
    BY <2>0, <2>2, Kinds DEF Typed, NoDispatch
  <2>. QED  BY <1>1, <1>3, <2>1, <2>3, TypingWritten
<1>4. CASE BeforeAgentStart
  <2>1. bound' = bound /\ UNCHANGED <<owner, seen, call, staged>> /\ awaiting' \in BOOLEAN
    BY <1>4 DEF BeforeAgentStart, Begin, Typing
  <2>2. Typed(state)' /\ (\A p \in Project : Typed(saved[p]))'
    BY <1>2, <1>3, <1>4, <2>1 DEF BeforeAgentStart
  <2>. QED  BY <2>1, <2>2, MemoryTyped
<1>5. CASE PrimaryMessage
  <2>1. bound' = bound /\ UNCHANGED <<owner, seen, call, staged>> /\ awaiting' \in BOOLEAN
    BY <1>5 DEF PrimaryMessage, Begin
  <2>2. Typed(state)' /\ (\A p \in Project : Typed(saved[p]))'
    BY <1>2, <1>3, <1>5, <2>1 DEF PrimaryMessage
  <2>. QED  BY <2>1, <2>2, MemoryTyped
<1>6. CASE PrimaryTurnEnd
  <2>. DEFINE New(more) ==
         [state EXCEPT !.needs = more,
                       !.phase[Primary] = IF more THEN "active" ELSE "completed"]
  <2>0. PICK more \in BOOLEAN : Save(New(more))
    BY <1>6 DEF PrimaryTurnEnd
  <2>1. PICK e : e = New(more) /\ Save(e)
    BY <2>0
  <2>2. bound' = bound /\ UNCHANGED <<awaiting, owner, seen, call, staged>>
    BY <1>6 DEF PrimaryTurnEnd, memory
  <2>3. /\ e.dispatch = state.dispatch /\ e.parent = state.parent
        /\ e.committed = state.committed /\ e.active = state.active
        /\ e.needs = more /\ e.prompt = state.prompt
    BY <2>1, StateSound
  <2>4. Typed(e)
    BY <1>1, <2>0, <2>3 DEF Typed
  <2>. QED  BY <1>1, <2>1, <2>2, <2>4, TypingWritten, MemoryTyped DEF Typing
<1>. QED  BY <1>4, <1>5, <1>6


\* The messages of the model, and the batches.
LEMMA MessagesTyping ==
  ASSUME IInv, Typing, NEW b \in Batch \cup {None},
         AssistantMessage \/ Context \/ Stage(b) \/ BatchMessage(b) \/ CommitBatch(b)
         \/ BatchTurnEnd(b), b = None => AssistantMessage \/ Context
  PROVE  Typing'
<1>1. Files /\ Typed(state)
  BY DEF IInv, Typing
<1>2. CASE AssistantMessage
  <2>1. PICK e : Save(e) /\ (e = state \/ e = [state EXCEPT !.phase[state.active] = "active"])
    BY <1>2 DEF AssistantMessage
  <2>2. Typed(e)
    BY <1>1, <2>1, StateSound DEF Typed
  <2>3. bound' = bound /\ UNCHANGED <<awaiting, owner, seen, call, staged>>
    BY <1>2 DEF AssistantMessage, memory
  <2>. QED  BY <1>1, <2>1, <2>2, <2>3, TypingWritten, MemoryTyped DEF Typing
<1>3. CASE Context
  <2>1. PICK e : e = [state EXCEPT !.restoring = FALSE] /\ Save(e)
    BY <1>3 DEF Context
  <2>2. Typed(e)
    BY <1>1, <2>1, StateSound DEF Typed
  <2>3. bound' = bound /\ UNCHANGED <<awaiting, owner, seen, call, staged>>
    BY <1>3 DEF Context, memory
  <2>. QED  BY <1>1, <2>1, <2>2, <2>3, TypingWritten, MemoryTyped DEF Typing
<1>4. CASE Stage(b) /\ b # None
  BY <1>4 DEF Stage, memory, Typing, Typed
<1>5. CASE BatchMessage(b) /\ b # None
  <2>1. PICK e : e = [state EXCEPT !.phase[b] = "active", !.parent[b] = state.active,
                                   !.active = b, !.restoring = FALSE] /\ Save(e)
    BY <1>5 DEF BatchMessage
  <2>2. Typed(e)
    BY <1>1, <1>5, <2>1, StateSound, Kinds DEF Typed
  <2>3. bound' = bound /\ UNCHANGED <<awaiting, owner, seen, call, staged>>
    BY <1>5 DEF BatchMessage, memory
  <2>. QED  BY <1>1, <2>1, <2>2, <2>3, TypingWritten, MemoryTyped DEF Typing
<1>6. CASE CommitBatch(b) /\ b # None
  <2>1. PICK e : e = [state EXCEPT !.committed = @ \cup {b}] /\ Save(e)
    BY <1>6 DEF CommitBatch
  <2>2. Typed(e)
    BY <1>1, <1>6, <2>1, StateSound DEF Typed
  <2>3. bound' = bound /\ UNCHANGED <<awaiting, owner, seen, call>> /\ staged' = None
    BY <1>6 DEF CommitBatch, memory
  <2>. QED  BY <1>1, <2>1, <2>2, <2>3, TypingWritten, MemoryTyped DEF Typing
<1>7. CASE BatchTurnEnd(b) /\ b # None
  <2>1. bound' = bound /\ UNCHANGED <<awaiting, owner, seen, call, staged>>
    BY <1>7 DEF BatchTurnEnd, memory
  <2>2. PICK a, e :
          /\ e = [state EXCEPT !.phase[b] = "completed", !.active = a] /\ Save(e)
          /\ a \in {state.parent[b], Primary, b}
    BY <1>7 DEF BatchTurnEnd
  <2>3. a \in Request \cup {None}
    BY <1>1, <1>7, <2>2, Kinds DEF Typed
  <2>4. Typed(e)
    BY <1>1, <2>2, <2>3, StateSound DEF Typed
  <2>. QED  BY <1>1, <2>1, <2>2, <2>4, TypingWritten, MemoryTyped DEF Typing
<1>. QED  BY <1>2, <1>3, <1>4, <1>5, <1>6, <1>7

\* The messages of follow-ups and the replies to them.
LEMMA FollowUpTyping ==
  ASSUME IInv, Turns, Typing, NEW s \in Side, SidecarMessage(s) \/ SidecarTurnEnd(s)
  PROVE  Typing'
<1>1. Files /\ Typed(state) /\ state.dispatch \in [Side -> Dispatch]
  BY DEF IInv, Files, Sound, Typing
<1>2. CASE SidecarMessage(s)
  <2>1. PICK phases, a, e :
          /\ e = [state EXCEPT !.phase = phases, !.dispatch[s] = NoDispatch,
                               !.open = Append(@, s), !.active = a, !.restoring = FALSE]
          /\ Save(e) /\ a \in {state.active, s}
    BY <1>2 DEF SidecarMessage
  <2>2. /\ e.dispatch = [state.dispatch EXCEPT ![s] = NoDispatch] /\ e.active = a
        /\ e.parent = state.parent /\ e.committed = state.committed
        /\ e.needs = state.needs /\ e.prompt = state.prompt
    BY <2>1, StateSound
  <2>3. Typed(e)
    BY <1>1, <2>1, <2>2, Kinds DEF Typed, NoDispatch
  <2>4. bound' = bound /\ UNCHANGED <<awaiting, owner, seen, call, staged>>
    BY <1>2 DEF SidecarMessage, memory
  <2>. QED  BY <1>1, <2>1, <2>3, <2>4, TypingWritten, MemoryTyped DEF Typing
<1>3. CASE SidecarTurnEnd(s)
  <2>1. PICK o, e : /\ o = IF s \in Range(state.open) THEN RemoveLast(state.open, s)
                           ELSE state.open
                    /\ GoesOn(s, o, e) /\ Save(e)
    BY <1>3, ReplyGoesOn
  <2>2. o \in Seq(Side)
    BY <2>1, LastRemoved DEF Turns, Queued
  <2>3. e.active \in Request \cup {None}
    <3>1. PICK left, k : left = OpenBut(s, o) /\ k = Min(left)
      OBVIOUS
    <3>2. CASE left # {}
      <4>1. left \subseteq DOMAIN o /\ left \in SUBSET Nat
        BY <2>2, <3>1 DEF OpenBut
      <4>2. k \in left
        BY <3>1, <3>2, <4>1, LeastNumber DEF Min
      <4>3. o[k] \in Side
        BY <2>2, <4>1, <4>2
      <4>. QED  BY <2>1, <3>1, <3>2, <4>3, Kinds DEF GoesOn
    <3>3. CASE left = {}
      BY <1>1, <2>1, <3>1, <3>3, Kinds DEF GoesOn, Typed
    <3>. QED  BY <3>2, <3>3
  <2>4. /\ e.dispatch = [state.dispatch EXCEPT ![s] = Settled(@)]
        /\ e.parent = state.parent /\ e.committed = state.committed
        /\ e.needs = state.needs /\ e.prompt = state.prompt
    BY <2>1 DEF GoesOn
  <2>5. Settled(state.dispatch[s]).revision <= 2
    BY <1>1 DEF Settled, Typed, Dispatch
  <2>6. Typed(e)
    BY <1>1, <2>3, <2>4, <2>5 DEF Typed
  <2>7. bound' = bound /\ UNCHANGED <<awaiting, owner, seen, call, staged>>
    BY <1>3 DEF SidecarTurnEnd, memory
  <2>. QED  BY <1>1, <2>1, <2>6, <2>7, TypingWritten, MemoryTyped DEF Typing
<1>. QED  BY <1>2, <1>3

\* A step that writes dispatches only.
LEMMA DispatchesTyped ==
  ASSUME IInv, Typing, NEW ds, Save([state EXCEPT !.dispatch = ds]), bound' = bound,
         \A s \in Side : ds[s].revision <= 2
  PROVE  Typed(state)' /\ (\A p \in Project : Typed(saved[p]))'
<1>1. PICK e : e = [state EXCEPT !.dispatch = ds] /\ Save(e)
  OBVIOUS
<1>2. Typed(e)
  BY <1>1, StateSound DEF Typing, Typed
<1>. QED  BY <1>1, <1>2, TypingWritten DEF IInv

\* The dispatches, and the tool calls they are admitted for.
LEMMA DispatchTyping ==
  ASSUME IInv, Typing, NEW c,
         RecordDispatch \/ SessionStart
         \/ (c \in ToolCall /\ (Admit(c) \/ Rollback(c) \/ ToolStart(c) \/ ToolResult(c)))
  PROVE  Typing'
<1>1. /\ Sound(state) /\ state.dispatch \in [Side -> Dispatch]
      /\ \A s \in Side : state.dispatch[s].revision <= 2
  BY DEF IInv, Files, Sound, Typing, Typed
<1>. DEFINE Files2 == Typed(state)' /\ (\A p \in Project : Typed(saved[p]))'
<1>2. CASE RecordDispatch
  <2>1. PICK s, x, ds :
          /\ s \in Side /\ x.revision <= 2
          /\ ds = [state.dispatch EXCEPT ![s] = x]
          /\ Save([state EXCEPT !.dispatch = ds])
    <3>1. PICK s : s = state.active
      OBVIOUS
    <3>2. PICK d \in Decisions :
            /\ state.dispatch[s].revision < 2
            /\ Save([state EXCEPT !.dispatch[s] =
                 [revision |-> state.dispatch[s].revision + 1, state |-> "recorded",
                  tool |-> d.tool, counted |-> d.counted, call |-> None]])
      BY <1>2, <3>1 DEF RecordDispatch
    <3>3. PICK x : x = [revision |-> state.dispatch[s].revision + 1, state |-> "recorded",
                        tool |-> d.tool, counted |-> d.counted, call |-> None]
      OBVIOUS
    <3>4. s \in Side
      BY <1>2, <3>1, SidecarAssumption DEF RecordDispatch
    <3>5. state.dispatch[s].revision \in Nat
      BY <1>1, <3>4 DEF Dispatch
    <3>6. x.revision <= 2
      BY <3>2, <3>3, <3>5
    <3>7. PICK ds : ds = [state.dispatch EXCEPT ![s] = x]
      OBVIOUS
    <3>8. Save([state EXCEPT !.dispatch = ds])
      BY <3>2, <3>3, <3>7
    <3>. QED  BY <3>4, <3>6, <3>7, <3>8
  <2>2. \A t \in Side : ds[t].revision <= 2
    BY <1>1, <2>1
  <2>3. bound' = bound /\ UNCHANGED <<awaiting, owner, seen, call, staged>>
    BY <1>2 DEF RecordDispatch, memory
  <2>. QED  BY <2>1, <2>2, <2>3, DispatchesTyped, MemoryTyped DEF Typing
<1>3. CASE SessionStart
  <2>1. PICK ds : ds = [s \in Side |->
          IF state.dispatch[s].state = "admitted" /\ Awaited(state.dispatch[s].call)
          THEN [state.dispatch[s] EXCEPT !.state = "failed", !.call = None]
          ELSE state.dispatch[s]]
    OBVIOUS
  <2>2. ASSUME NEW s \in Side PROVE ds[s].revision <= 2
    <3>1. PICK y \in Dispatch : y = state.dispatch[s] /\ y.revision <= 2
      BY <1>1
    <3>2. ds[s] \in {y, [y EXCEPT !.state = "failed", !.call = None]}
      BY <2>1, <3>1
    <3>. QED  BY <3>1, <3>2 DEF Dispatch
  <2>3. Save([state EXCEPT !.dispatch = ds]) /\ bound' = bound
    BY <1>3, <2>1 DEF SessionStart
  <2>4. Files2
    BY <2>2, <2>3, DispatchesTyped
  <2>. QED  BY <1>3, <2>4, MemoryTyped DEF SessionStart, Typing
<1>4. ASSUME NEW s \in Side, NEW to, NEW with,
             Save([state EXCEPT !.dispatch[s].state = to, !.dispatch[s].call = with]),
             bound' = bound
      PROVE  Files2
  <2>1. PICK y \in Dispatch : y = state.dispatch[s] /\ y.revision <= 2
    BY <1>1
  <2>2. PICK ds : ds = [state.dispatch EXCEPT ![s] = [@ EXCEPT !.state = to, !.call = with]]
    OBVIOUS
  <2>3. [state EXCEPT !.dispatch[s].state = to, !.dispatch[s].call = with]
        = [state EXCEPT !.dispatch = ds]
    <3>1. FieldsAre(s, to, with, ds)
      BY <1>1, <2>2, DispatchFields
    <3>. QED  BY <3>1 DEF FieldsAre
  <2>4. \A t \in Side : ds[t].revision <= 2
    <3>1. ds = [state.dispatch EXCEPT ![s] = [y EXCEPT !.state = to, !.call = with]]
      BY <2>1, <2>2
    <3>2. [y EXCEPT !.state = to, !.call = with].revision = y.revision
      BY <2>1 DEF Dispatch
    <3>. QED  BY <1>1, <2>1, <3>1, <3>2
  <2>. QED  BY <1>4, <2>3, <2>4, DispatchesTyped
<1>5. CASE c \in ToolCall /\ Admit(c)
  <2>1. PICK s : s = state.active
    OBVIOUS
  <2>2. s \in Side /\ Files2
    BY <1>4, <1>5, <2>1 DEF Admit
  <2>3. owner' = [owner EXCEPT ![c] = [request |-> s, revision |-> state.dispatch[s].revision]]
    BY <1>5, <2>1 DEF Admit
  <2>4. \A x \in ToolCall : owner'[x].revision <= 2
    BY <1>1, <2>2, <2>3 DEF IInv, Owners, Typing
  <2>. QED  BY <1>5, <2>2, <2>4 DEF Admit, Typing
<1>6. CASE c \in ToolCall /\ (Rollback(c) \/ ToolResult(c))
  <2>1. \A x \in ToolCall : owner'[x].revision <= 2
    <3>1. owner' = owner \/ owner' = [owner EXCEPT ![c] = NoOwner]
      BY <1>6 DEF Rollback, ToolResult
    <3>. QED  BY <3>1 DEF IInv, Owners, Typing, NoOwner
  <2>2. CASE UNCHANGED <<state, saved>>
    BY <1>6, <2>1, <2>2 DEF Rollback, ToolResult, Typing, Typed
  <2>3. CASE ~UNCHANGED <<state, saved>>
    <3>1. Awaited(c)
      BY <1>6, <2>3 DEF Rollback, ToolResult
    <3>2. owner[c].request \in Side
      BY <1>6, <3>1 DEF Awaited, IInv, Owners
    <3>3. PICK s : s = owner[c].request
      OBVIOUS
    <3>4. PICK to : Save([state EXCEPT !.dispatch[s].state = to, !.dispatch[s].call = None])
      BY <1>6, <2>3, <3>3 DEF Rollback, ToolResult
    <3>5. Files2
      BY <1>4, <1>6, <3>2, <3>3, <3>4 DEF Rollback, ToolResult
    <3>. QED  BY <1>6, <2>1, <3>5 DEF Rollback, ToolResult, Typing
  <2>. QED  BY <2>2, <2>3
<1>7. CASE c \in ToolCall /\ ToolStart(c)
  BY <1>7 DEF ToolStart, Typing, Typed
<1>. QED  BY <1>2, <1>3, <1>5, <1>6, <1>7

\* The empty state is typed.
LEMMA BlankTyped == Typed(Blank)
  BY Kinds DEF Typed, Blank, NoDispatch

\* What is read back, and what is left.
LEMMA ReadTyped ==
  ASSUME NEW d, Sound(d), Typed(d)
  PROVE  Typed(Hydrated(d))
<1>1. CASE ~Restorable(d)
  BY <1>1, BlankTyped DEF Hydrated
<1>2. CASE Restorable(d)
  <2>1. PICK a, ds : /\ a = IF d.active = None /\ d.primary THEN Primary ELSE d.active
                     /\ ds = [s \in Side |-> Reloaded(d.dispatch[s], d.phase[s])]
    OBVIOUS
  <2>2. PICK h : h = Hydrated(d)
    OBVIOUS
  <2>3. h = [d EXCEPT !.dispatch = ds, !.active = a]
    BY <1>2, <2>1, <2>2 DEF Hydrated
  <2>4. /\ h.dispatch = ds /\ h.active = a /\ h.parent = d.parent
        /\ h.committed = d.committed /\ h.needs = d.needs /\ h.prompt = d.prompt
    BY <2>3 DEF Sound
  <2>5. ASSUME NEW s \in Side PROVE ds[s].revision <= 2
    <3>1. PICK y \in Dispatch : y = d.dispatch[s] /\ y.revision <= 2
      BY DEF Sound, Typed
    <3>2. ds[s] = Reloaded(y, d.phase[s])
      BY <2>1, <3>1
    <3>3. Reloaded(y, d.phase[s]).revision = y.revision
      BY <3>1 DEF Reloaded, Dispatch
    <3>. QED  BY <3>1, <3>2, <3>3
  <2>6. a \in Request \cup {None}
    BY <2>1, Kinds DEF Typed
  <2>. QED  BY <2>2, <2>4, <2>5, <2>6 DEF Typed
<1>. QED  BY <1>1, <1>2

\* So is what is left behind.
LEMMA RetiredTyped ==
  ASSUME Sound(state), Typed(state)
  PROVE  Typed(Retired)
<1>1. PICK phases : phases = [r \in Request |->
        IF state.phase[r] = "absent" THEN "absent" ELSE "completed"]
  OBVIOUS
<1>2. PICK ds : ds = [s \in Side |-> Settled(state.dispatch[s])]
  OBVIOUS
<1>3. Retired = [state EXCEPT !.phase = phases, !.dispatch = ds, !.open = <<>>,
                              !.active = None, !.primary = FALSE, !.needs = FALSE,
                              !.restoring = FALSE]
  BY <1>1, <1>2 DEF Retired
<1>4. /\ Retired.dispatch = ds /\ Retired.active = None
      /\ Retired.needs = FALSE /\ Retired.prompt = state.prompt
      /\ Retired.parent = state.parent /\ Retired.committed = state.committed
  BY <1>3 DEF Sound
<1>5. ASSUME NEW s \in Side PROVE ds[s].revision <= 2
  <2>1. PICK y \in Dispatch : y = state.dispatch[s] /\ y.revision <= 2
    BY DEF Sound, Typed
  <2>2. ds[s] = Settled(y)
    BY <1>2, <2>1
  <2>. QED  BY <2>1, <2>2 DEF Settled, Dispatch
<1>. QED  BY <1>4, <1>5 DEF Typed

\* A restart, or a change of the project.
LEMMA ReadTyping ==
  ASSUME IInv, Typing, Restart \/ \E p \in Project : Rebind(p)
  PROVE  Typing'
<1>1. /\ bound \in Project /\ saved = [q \in Project |-> saved[q]]
      /\ Sound(state) /\ Typed(state) /\ \A q \in Project : Sound(saved[q]) /\ Typed(saved[q])
  BY DEF IInv, Files, Typing
<1>2. PICK p, file :
        /\ p \in Project /\ state' = Hydrated(saved[p])
        /\ saved' = [saved EXCEPT ![bound] = file, ![p] = state']
           \/ (p = bound /\ saved' = [saved EXCEPT ![bound] = file])
        /\ file \in {Retired, saved[bound], state'}
  <2>1. CASE Restart
    BY <1>1, <2>1 DEF Restart
  <2>2. CASE \E p \in Project : Rebind(p)
    BY <1>1, <2>2 DEF Rebind
  <2>. QED  BY <2>1, <2>2
<1>3. PICK h : h = state'
  OBVIOUS
<1>4. Typed(h) /\ Typed(file)
  BY <1>1, <1>2, <1>3, ReadTyped, RetiredTyped
<1>5. \A q \in Project : Typed(saved'[q])
  BY <1>1, <1>2, <1>3, <1>4
<1>6. Typed(state)' /\ (\A q \in Project : Typed(saved[q]))'
  BY <1>3, <1>4, <1>5 DEF Typed
<1>. QED  BY <1>6, MemoryTyped DEF Restart, Rebind, Forget

\* The types at the start.
LEMMA InitTyping == Init => Typing
<1>. SUFFICES ASSUME Init PROVE Typing
  OBVIOUS
<1>1. /\ state = Blank /\ saved = [p \in Project |-> Blank] /\ awaiting = FALSE
      /\ owner = [c \in ToolCall |-> NoOwner] /\ seen = {} /\ staged = None
      /\ call = [c \in ToolCall |-> "none"]
  BY DEF Init
<1>2. \A c \in ToolCall : owner[c].revision <= 2
  BY <1>1 DEF NoOwner
<1>3. Typed(state) /\ \A p \in Project : Typed(saved[p])
  BY <1>1, BlankTyped
<1>4. call \in [ToolCall -> {"none", "hooked", "started"}]
  BY <1>1
<1>. QED  BY <1>1, <1>2, <1>3, <1>4 DEF Typing

\* Every step keeps the types.
LEMMA StepTyping ==
  ASSUME IInv, Turns, Typing, [Next]_vars
  PROVE  Typing'
<1>1. CASE BeforeAgentStart \/ PrimaryMessage \/ PrimaryTurnEnd
  BY <1>1, PrimaryTyping
<1>2. CASE AssistantMessage \/ Context
  BY <1>2, MessagesTyping
<1>3. CASE RecordDispatch \/ SessionStart
  BY <1>3, DispatchTyping
<1>4. CASE \E s \in Side : SidecarMessage(s) \/ SidecarTurnEnd(s)
  BY <1>4, FollowUpTyping
<1>5. CASE \E b \in Batch : Stage(b) \/ BatchMessage(b) \/ CommitBatch(b) \/ BatchTurnEnd(b)
  BY <1>5, MessagesTyping, Kinds
<1>6. CASE \E c \in ToolCall : Admit(c) \/ Rollback(c) \/ ToolStart(c) \/ ToolResult(c)
  BY <1>6, DispatchTyping
<1>7. CASE Restart \/ \E p \in Project : Rebind(p)
  BY <1>7, ReadTyping
<1>8. CASE SetMode \/ Unstage \/ UNCHANGED vars
  BY <1>8 DEF SetMode, Unstage, vars, memory, Typing, Typed
<1>. QED  BY <1>1, <1>2, <1>3, <1>4, <1>5, <1>6, <1>7, <1>8 DEF Next

\* The mode is one of two, and one step only changes it.
LEMMA ModeKept ==
  ASSUME enhanced \in BOOLEAN, [Next]_vars
  PROVE  enhanced' \in BOOLEAN
<1>1. CASE SetMode
  BY <1>1 DEF SetMode
<1>2. CASE \/ BeforeAgentStart \/ PrimaryMessage \/ AssistantMessage \/ Context
           \/ PrimaryTurnEnd \/ RecordDispatch \/ Unstage \/ SessionStart \/ Restart
           \/ UNCHANGED vars
  BY <1>2 DEF BeforeAgentStart, PrimaryMessage, AssistantMessage, Context, PrimaryTurnEnd,
              RecordDispatch, Unstage, SessionStart, Restart, vars
<1>3. CASE \E s \in Side : SidecarMessage(s) \/ SidecarTurnEnd(s)
  BY <1>3 DEF SidecarMessage, SidecarTurnEnd
<1>4. CASE \E b \in Batch : Stage(b) \/ BatchMessage(b) \/ CommitBatch(b) \/ BatchTurnEnd(b)
  BY <1>4 DEF Stage, BatchMessage, CommitBatch, BatchTurnEnd
<1>5. CASE \E c \in ToolCall : Admit(c) \/ Rollback(c) \/ ToolStart(c) \/ ToolResult(c)
  BY <1>5 DEF Admit, Rollback, ToolStart, ToolResult
<1>6. CASE \E p \in Project : Rebind(p)
  BY <1>6 DEF Rebind
<1>. QED  BY <1>1, <1>2, <1>3, <1>4, <1>5, <1>6 DEF Next

\* What they amount to.
LEMMA AllTyped ==
  ASSUME IInv, Turns, Typing, enhanced \in BOOLEAN
  PROVE  TypeOK
<1>1. ASSUME NEW d, Sound(d), Typed(d), Queued(d)
      PROVE  /\ d.phase \in [Request -> Phase]
             /\ d.dispatch \in [Side -> [revision : 0..2,
                  state : {"none", "recorded", "admitted", "completed", "failed"},
                  tool : {"none", "agent"}, counted : BOOLEAN, call : ToolCall \cup {None}]]
             /\ d.parent \in [Batch -> Request \cup {None}]
             /\ d.committed \subseteq Batch
             /\ Range(d.open) \subseteq Side
             /\ d.active \in Request \cup {None}
             /\ {d.primary, d.prompt, d.needs, d.restoring} \subseteq BOOLEAN
  <2>1. /\ d.phase \in [Request -> Phase] /\ d.dispatch \in [Side -> Dispatch]
        /\ d.primary \in BOOLEAN /\ d.restoring \in BOOLEAN
    BY <1>1 DEF Sound
  <2>2. ASSUME NEW s \in Side
        PROVE  d.dispatch[s] \in [revision : 0..2,
                 state : {"none", "recorded", "admitted", "completed", "failed"},
                 tool : {"none", "agent"}, counted : BOOLEAN, call : ToolCall \cup {None}]
    <3>1. PICK y \in Dispatch : y = d.dispatch[s] /\ y.revision <= 2
      BY <1>1, <2>1 DEF Typed
    <3>2. y.revision \in 0..2
      BY <3>1 DEF Dispatch
    <3>. QED  BY <3>1, <3>2 DEF Dispatch
  <2>3. d.open \in Seq(Side)
    BY <1>1 DEF Queued
  <2>. QED  BY <1>1, <2>1, <2>2, <2>3, FiniteRange DEF Typed
<1>2. /\ saved = [p \in Project |-> saved[p]] /\ bound \in Project
      /\ Sound(state) /\ \A p \in Project : Sound(saved[p])
  BY DEF IInv, Files
<1>3. \A d \in {state} \cup Range(saved) : Sound(d) /\ Typed(d) /\ Queued(d)
  BY <1>2 DEF Typing, Turns, Range
<1>4. owner \in [ToolCall -> [request : Request \cup {None}, revision : 0..2]]
  <2>1. owner \in [ToolCall -> [request : Request \cup {None}, revision : Nat]]
        /\ \A c \in ToolCall : owner[c].revision <= 2
    BY DEF IInv, Owners, Typing
  <2>. QED  BY <2>1
<1>5. DOMAIN saved = Project /\ reserved \subseteq ToolCall
  BY <1>2 DEF IInv, Owners
<1>. QED  BY <1>1, <1>2, <1>3, <1>4, <1>5 DEF TypeOK, Typing

-----------------------------------------------------------------------------
\* The invariant behind the theorems below: every file is sound, that of the
\* bound project is what is in memory, and what is in flight has its owner.
THEOREM Inductive == Spec => []IInv
<1>1. IInv /\ [Next]_vars => IInv'
  BY StepHolds
<1>. QED  BY InitHolds, <1>1, PTL DEF Spec

\* A project that was left has nothing unfinished that a return would revive
\* (sidecar-orchestration.ts:753-768).
THEOREM LeftProjectsSettled == Spec => []LeftSettled
<1>1. IInv => LeftSettled
  BY DEF IInv, Files
<1>. QED  BY Inductive, <1>1, PTL

\* No decision runs its children twice: a dispatch whose tool has left the hooks,
\* or that is settled, is not offered again (sidecar-orchestration.ts:481, 614, 280).
THEOREM DispatchesRunOnce == Spec => NeverRunAgain
<1>1. IInv /\ [Next]_vars =>
        [bound' = bound =>
           \A s \in Side : LET d == state.dispatch[s]
                               e == state'.dispatch[s]
                               over == d.state \in {"completed", "failed"} IN
             /\ d.revision > 0
             /\ e.revision = d.revision
             /\ over \/ (d.state = "admitted" /\ call[d.call] # "hooked")
             => e.state # "recorded" /\ (over => e.state # "admitted")]_vars
  BY StepHolds DEF Kept, RunsOnce
<1>. QED  BY Inductive, <1>1, PTL DEF Spec, NeverRunAgain

\* A dispatch in flight has the binding that will settle it, and where no text
\* is repeated capacity is reserved for no other call
\* (sidecar-orchestration.ts:677, 709, 356).
THEOREM DispatchesOwned == ASSUME ~Repeats PROVE Spec => []DispatchOwned
<1>1. IInv => DispatchOwned
  BY DEF IInv, Owners, DispatchOwned
<1>. QED  BY Inductive, <1>1, PTL

\* What the invariant, the turns and the types amount to together.
THEOREM Turning == Spec => [](IInv /\ Turns /\ Typing /\ enhanced \in BOOLEAN)
<1>1. Init => IInv /\ Turns /\ Typing /\ enhanced \in BOOLEAN
  BY InitHolds, InitTurns, InitTyping DEF Init
<1>2. IInv /\ Turns /\ Typing /\ enhanced \in BOOLEAN /\ [Next]_vars
      => (IInv /\ Turns /\ Typing /\ enhanced \in BOOLEAN)'
  BY StepHolds, StepTurns, StepTyping, ModeKept
<1>. QED  BY <1>1, <1>2, PTL DEF Spec

\* Every variable stays within its type.
THEOREM TypeCorrect == Spec => []TypeOK
<1>1. IInv /\ Turns /\ Typing /\ enhanced \in BOOLEAN => TypeOK
  BY AllTyped
<1>. QED  BY Turning, <1>1, PTL

\* The primary stays suspended as long as a follow-up is open and no longer, and
\* while one is, it or a batch that interposed is what the model answers, whether
\* texts are repeated or not (docs/architecture/runtime-orchestration.md:59).
THEOREM PrimaryIsHeld == Spec => []PrimaryHeld
<1>1. Turns => PrimaryHeld
  BY DEF Turns, Queued, Answering, Interposed, PrimaryHeld
<1>. QED  BY Turning, <1>1, PTL

\* Where no text is repeated, what is saved of a primary with a prompt is accepted
\* when it is read back, unless a batch has begun and a follow-up is open
\* (sidecar-orchestration.ts:258-263, sidecar-orchestration-hydration.ts:22-56).
THEOREM QueueIsRestorable == ASSUME ~Repeats PROVE Spec => []QueueRestorable
<1>1. ASSUME NEW d, Queued(d), Prompted(d), NoBatch(d) \/ Unfinished(d) = {}
      PROVE  Restorable(d)
  <2>1. CASE NoBatch(d)
    BY <1>1, <2>1 DEF Queued, InOrder, Restorable
  <2>2. CASE Unfinished(d) = {}
    <3>1. PICK q \in Seq(Side) : q = d.open /\ Range(q) = {}
      BY <1>1, <2>2 DEF Queued, Listed
    <3>2. q = <<>>
      <4>1. q # <<>> => 1 \in DOMAIN q
        OBVIOUS
      <4>. QED  BY <3>1, <4>1 DEF Range
    <3>3. d.active \notin Side
      BY <1>1, <2>2, Kinds DEF Queued, Rooted
    <3>. QED  BY <1>1, <2>2, <3>1, <3>2, <3>3, EmptyQueue DEF Restorable
  <2>. QED  BY <1>1, <2>1, <2>2
<1>2. Turns => QueueRestorable
  BY <1>1 DEF Turns, NoBatch, QueueRestorable
<1>. QED  BY Turning, <1>2, PTL
=============================================================================
