------------------------------ MODULE SlotPool ------------------------------
(***************************************************************************)
(* What a pool of slots promises to the components that share it: a slot   *)
(* is free, reserved for a holder that has not come yet, or held by one    *)
(* that has.  A holder may take what was reserved for it and what is free, *)
(* never what is reserved for another.  Nothing here is code: SubAgents    *)
(* implements it.                                                          *)
(***************************************************************************)
EXTENDS Naturals, Functions

CONSTANTS
  Holder,  \* who reserves and holds slots
  Slots    \* how many there are, a natural number

VARIABLES reserved, held
poolVars == <<reserved, held>>

Unclaimed == Slots - SumFunction(reserved) - SumFunction(held)

PoolInit ==
  /\ reserved = [h \in Holder |-> 0]
  /\ held = [h \in Holder |-> 0]

Reserve(h, n) ==
  /\ reserved[h] = 0
  /\ reserved' = [reserved EXCEPT ![h] = n]
  /\ n <= Unclaimed
  /\ UNCHANGED held

Take(h, n) ==
  /\ held[h] = 0
  /\ held' = [held EXCEPT ![h] = n]
  /\ reserved' = [reserved EXCEPT ![h] = 0]
  /\ n <= Unclaimed + reserved[h]

\* Reservations are withdrawn and slots given back, of any holders at once,
\* always as a whole.
GiveBack ==
  \E withdrawn, given \in SUBSET Holder :
    /\ reserved' = [h \in Holder |-> IF h \in withdrawn THEN 0 ELSE reserved[h]]
    /\ held' = [h \in Holder |-> IF h \in given THEN 0 ELSE held[h]]

PoolNext ==
  \/ GiveBack
  \/ \E h \in Holder, n \in 1..Slots : Reserve(h, n) \/ Take(h, n)

PoolSpec == PoolInit /\ [][PoolNext]_poolVars
=============================================================================
