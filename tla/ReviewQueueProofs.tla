------------------------- MODULE ReviewQueueProofs -------------------------
(***************************************************************************)
(* Theorems about ReviewQueue: its type invariant, and that refusals are   *)
(* honest, for any number of requests and operators.                       *)
(***************************************************************************)
EXTENDS ReviewQueue, TLAPS

\* What the refusals rest on.  A closed item is closed by a committed request
\* that asked for that status; what a request has seen closed is closed; and
\* a request that is answered with a refusal, or has not got that far, has
\* committed nothing.
ClosureInv ==
  /\ item.status # "pending" => \E q \in closers : Body[q].status = item.status
  /\ \A r \in Requests : seen[r].status # "pending" => item.status # "pending"
  /\ closers # {} => item.status # "pending"
  /\ \A r \in closers : pc[r] = "committed" /\ told[r] # 409
  /\ \A r \in Requests : told[r] # 0 /\ pc[r] # "end" => told[r] = 200

IInv == TypeOK /\ ClosureInv /\ RefusalsHonest

-----------------------------------------------------------------------------
(* The columns of the row after an UPDATE.                                 *)

LEMMA EntityType ==
  ASSUME NEW r \in Requests
  PROVE  /\ Entity(r) \in Item
         /\ Entity(r).status = Body[r].status
         /\ Body[r].status # "pending"
BY ReviewAssumption DEF Entity, Item, Closed, Statuses

LEMMA WrittenType ==
  ASSUME TypeOK, NEW r \in Requests
  PROVE  /\ Written(r) \in Item
         /\ \/ Written(r).status = Body[r].status
            \/ Written(r).status = item.status /\ seen[r].status = Body[r].status
<1>1. /\ seen[r] \in Item
      /\ item \in Item
  BY DEF TypeOK
<1>2. Written(r) =
        [status |-> IF Entity(r).status # seen[r].status
                    THEN Entity(r).status ELSE item.status,
         by |-> IF Entity(r).by # seen[r].by THEN Entity(r).by ELSE item.by,
         at |-> IF Entity(r).at # seen[r].at THEN Entity(r).at ELSE item.at]
  BY DEF Written
<1> QED
  BY <1>1, <1>2, EntityType DEF Item

-----------------------------------------------------------------------------
LEMMA InvInit == Init => IInv
<1> SUFFICES ASSUME Init
             PROVE  IInv
  OBVIOUS
<1>1. Open \in Item /\ Open.status = "pending"
  BY DEF Open, Item, Statuses
<1>2. "pending" \in Statuses
  BY DEF Statuses
<1>3. TypeOK
  BY <1>1, <1>2 DEF Init, TypeOK
<1>4. ClosureInv
  BY <1>1 DEF Init, ClosureInv
<1>5. RefusalsHonest
  BY DEF Init, RefusalsHonest
<1> QED
  BY <1>3, <1>4, <1>5 DEF IInv

LEMMA TypeStep == TypeOK /\ [Next]_vars => TypeOK'
<1> SUFFICES ASSUME TypeOK, [Next]_vars
             PROVE  TypeOK'
  OBVIOUS
<1> USE DEF TypeOK, Goto, Tell
<1>1. CASE File
  BY <1>1 DEF File
<1>2. ASSUME NEW r \in Requests, Get(r)
      PROVE  TypeOK'
  BY <1>2 DEF Get, Visible, Item
<1>3. ASSUME NEW r \in Requests, Reread(r)
      PROVE  TypeOK'
  BY <1>3 DEF Reread, Visible
<1>4. ASSUME NEW r \in Requests, Flush(r)
      PROVE  TypeOK'
  BY <1>4 DEF Flush
<1>5. ASSUME NEW r \in Requests, Answer(r)
      PROVE  TypeOK'
  BY <1>5 DEF Answer
<1>6. ASSUME NEW r \in Requests, Commit(r)
      PROVE  TypeOK'
  BY <1>6, WrittenType DEF Commit
<1>7. ASSUME NEW r \in Requests, Fail(r)
      PROVE  TypeOK'
  BY <1>7 DEF Fail
<1>8. CASE UNCHANGED vars
  BY <1>8 DEF vars
<1> QED
  BY <1>1, <1>2, <1>3, <1>4, <1>5, <1>6, <1>7, <1>8 DEF Next, Serve, Done

LEMMA ClosureStep == TypeOK /\ ClosureInv /\ [Next]_vars => ClosureInv'
<1> SUFFICES ASSUME TypeOK, ClosureInv, [Next]_vars
             PROVE  ClosureInv'
  OBVIOUS
<1> USE DEF TypeOK, ClosureInv, Goto, Tell
<1>1. CASE File
  BY <1>1 DEF File
<1>2. ASSUME NEW r \in Requests, Get(r)
      PROVE  ClosureInv'
  BY <1>2 DEF Get
<1>3. ASSUME NEW r \in Requests, Reread(r)
      PROVE  ClosureInv'
  BY <1>3 DEF Reread, Visible
<1>4. ASSUME NEW r \in Requests, Flush(r)
      PROVE  ClosureInv'
  BY <1>4 DEF Flush
<1>5. ASSUME NEW r \in Requests, Answer(r)
      PROVE  ClosureInv'
  BY <1>5 DEF Answer
<1>6. ASSUME NEW r \in Requests, Commit(r)
      PROVE  ClosureInv'
  <2>1. item'.status # "pending"
    BY <1>6, WrittenType, EntityType DEF Commit
  <2>2. \E q \in closers' : Body[q].status = item'.status
    BY <1>6, WrittenType, EntityType DEF Commit
  <2>3. \A q \in closers' : pc'[q] = "committed" /\ told'[q] # 409
    BY <1>6 DEF Commit
  <2> QED
    BY <1>6, <2>1, <2>2, <2>3 DEF Commit
<1>7. ASSUME NEW r \in Requests, Fail(r)
      PROVE  ClosureInv'
  BY <1>7 DEF Fail
<1>8. CASE UNCHANGED vars
  BY <1>8 DEF vars
<1> QED
  BY <1>1, <1>2, <1>3, <1>4, <1>5, <1>6, <1>7, <1>8 DEF Next, Serve, Done

LEMMA RefusalStep == IInv /\ [Next]_vars => RefusalsHonest'
<1> SUFFICES ASSUME IInv, [Next]_vars
             PROVE  RefusalsHonest'
  OBVIOUS
<1> USE DEF IInv, TypeOK, RefusalsHonest, Goto, Tell
<1>1. CASE File
  BY <1>1 DEF File
<1>2. ASSUME NEW r \in Requests, Get(r)
      PROVE  RefusalsHonest'
  <2>1. CASE told'[r] = 409
    <3>1. /\ pc[r] = "start"
          /\ item.status # "pending"
          /\ refusal' = [refusal EXCEPT ![r] = item.status]
      BY <1>2, <2>1 DEF Get, Visible
    <3>2. PICK q \in closers : Body[q].status = item.status
      BY <3>1 DEF ClosureInv
    <3>3. q # r
      BY <3>1, <3>2 DEF ClosureInv
    <3> QED
      BY <1>2, <2>1, <3>1, <3>2, <3>3 DEF Get
  <2>2. CASE told'[r] # 409
    BY <1>2, <2>2 DEF Get
  <2> QED
    BY <2>1, <2>2
<1>3. ASSUME NEW r \in Requests, Reread(r)
      PROVE  RefusalsHonest'
  BY <1>3 DEF Reread
<1>4. ASSUME NEW r \in Requests, Flush(r)
      PROVE  RefusalsHonest'
  BY <1>4 DEF Flush
<1>5. ASSUME NEW r \in Requests, Answer(r)
      PROVE  RefusalsHonest'
  BY <1>5 DEF Answer
<1>6. ASSUME NEW r \in Requests, Commit(r)
      PROVE  RefusalsHonest'
  <2>1. item'.status # "pending"
    BY <1>6, WrittenType, EntityType DEF Commit, ClosureInv
  <2> QED
    BY <1>6, <2>1 DEF Commit
<1>7. ASSUME NEW r \in Requests, Fail(r)
      PROVE  RefusalsHonest'
  BY <1>7 DEF Fail
<1>8. CASE UNCHANGED vars
  BY <1>8 DEF vars
<1> QED
  BY <1>1, <1>2, <1>3, <1>4, <1>5, <1>6, <1>7, <1>8 DEF Next, Serve, Done

LEMMA InvStep == IInv /\ [Next]_vars => IInv'
BY TypeStep, ClosureStep, RefusalStep DEF IInv

\* Every variable keeps its type: in particular the row never mixes columns
\* into something that is not an item.
THEOREM TypeCorrect == Spec => []TypeOK
<1>1. Init => TypeOK
  BY InvInit DEF IInv
<1> QED
  BY <1>1, TypeStep, PTL DEF Spec

\* Whoever is told 409 is told of a closure of another request that is
\* committed, and the item stays closed: for any number of requests, however
\* they interleave and fail.
THEOREM RefusalsAreHonest == Spec => []RefusalsHonest
<1>1. IInv => RefusalsHonest
  BY DEF IInv
<1> QED
  BY InvInit, InvStep, <1>1, PTL DEF Spec
=============================================================================
