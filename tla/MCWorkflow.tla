------------------------------ MODULE MCWorkflow ------------------------------
(***************************************************************************)
(* Workflow with the plans that are worth running against each other.      *)
(***************************************************************************)
EXTENDS Workflow, TLC
CONSTANTS c1, c2, a, b, d

\* c1: b waits for a and d, in any mode; or b waits for itself too; or
\* the steps form a chain.  c2: one step, which shares the two slots with them.
Plan(sequential, order, after) ==
  [order |-> order, after |-> after, sequential |-> sequential]
Free == [s \in {a, b, d} |-> {}]
MCPlans ==
  (c1 :> {Plan(mode, <<b, a, d>>, [Free EXCEPT ![b] = {a, d}]) : mode \in BOOLEAN}
         \cup {Plan(FALSE, <<b, a>>, [Free EXCEPT ![b] = {a, b}]),
               Plan(FALSE, <<d, b, a>>, [Free EXCEPT ![b] = {a}, ![d] = {b}])})
  @@ (c2 :> {Plan(FALSE, <<a>>, Free)})
=============================================================================
