---------------------------- MODULE ReviewQueue ----------------------------
(***************************************************************************)
(* One item of the review queue and the requests of operators who resolve, *)
(* dismiss or escalate it.  A handler reads the item, refuses with 409     *)
(* unless it is open, reads the row again in update() - the identity map   *)
(* has let go of the first one - and writes the columns that differ from   *)
(* what it read.  Statements are steps; transactions run at READ COMMITTED *)
(* and a row written by one is locked until it ends.                       *)
(***************************************************************************)
EXTENDS Integers

CONSTANTS
  Requests,  \* requests about the item
  Operators,
  Body,      \* Body[r]: what request r asks for, and for whom
  NoOne

Statuses == {"pending", "reviewed", "dismissed", "escalated"}
Closed == Statuses \ {"pending"}

ASSUME ReviewAssumption ==
  /\ Body \in [Requests -> [status : Closed, by : Operators]]
  /\ NoOne \notin Requests \cup Operators

\* The row's columns.  Every request stamps a resolved_at of its own: the
\* time stamp is the request.
Item == [status : Statuses, by : Operators \cup {NoOne},
         at : Requests \cup {NoOne}]
Open == [status |-> "pending", by |-> NoOne, at |-> NoOne]

VARIABLES
  exists,   \* the nightly job has filed the item
  item,     \* the committed row
  pc,       \* where each request is
  seen,     \* the row update() has read
  told,     \* the answer each operator has got: the HTTP status
  refusal,  \* the status named in a 409
  closers   \* requests whose UPDATE is committed

vars == <<exists, item, pc, seen, told, refusal, closers>>

Init ==
  /\ exists = FALSE
  /\ item = Open
  /\ pc = [r \in Requests |-> "start"]
  /\ seen = [r \in Requests |-> Open]
  /\ told = [r \in Requests |-> 0]
  /\ refusal = [r \in Requests |-> "pending"]
  /\ closers = {}

Goto(r, label) == pc' = [pc EXCEPT ![r] = label]
Tell(r, code) == told' = [told EXCEPT ![r] = code]

\* The reconciliation job commits the item it has found cause for.
File ==
  /\ ~exists
  /\ exists' = TRUE
  /\ UNCHANGED <<item, pc, seen, told, refusal, closers>>

\* Mutation: the columns are set in the wrong order.
EntitySwapped(r) == [status |-> Body[r].status, by |-> r, at |-> Body[r].by]

\* The entity after resolve(), dismiss() or escalate().
Entity(r) == [status |-> Body[r].status, by |-> Body[r].by, at |-> r]

\* The row once r's UPDATE is applied: only the columns that differ from the
\* ones read are in it.
Written(r) ==
  [c \in {"status", "by", "at"} |->
     IF Entity(r)[c] # seen[r][c] THEN Entity(r)[c] ELSE item[c]]

\* Mutation: a failed transaction is not rolled back.
WritingOrFailed(r) == pc[r] = "flushed" \/ told[r] = 500

\* r's transaction holds the row.
Writing(r) == pc[r] = "flushed"

\* Mutation: reads that see what is not committed.
VisibleUncommitted ==
  IF \E q \in Requests : Writing(q)
  THEN Written(CHOOSE q \in Requests : Writing(q)) ELSE item

\* What a SELECT sees of the row.
Visible == item

\* get(), and 404 or 409.
Get(r) ==
  /\ pc[r] = "start"
  /\ \/ ~exists /\ Tell(r, 404) /\ Goto(r, "end") /\ UNCHANGED refusal
     \/ /\ exists
        /\ Visible.status # "pending"
        /\ refusal' = [refusal EXCEPT ![r] = Visible.status]
        /\ Tell(r, 409)
        /\ Goto(r, "end")
     \/ /\ exists
        /\ Visible.status = "pending"
        /\ Goto(r, "reread")
        /\ UNCHANGED <<told, refusal>>
  /\ UNCHANGED <<exists, item, seen, closers>>

\* The SELECT of update().
Reread(r) ==
  /\ pc[r] = "reread"
  /\ seen' = [seen EXCEPT ![r] = Visible]
  /\ Goto(r, "flush")
  /\ UNCHANGED <<exists, item, told, refusal, closers>>

\* The UPDATE of flush(), once no other transaction holds the row.
Flush(r) ==
  /\ pc[r] = "flush"
  /\ ~\E q \in Requests : Writing(q)
  /\ Goto(r, "flushed")
  /\ UNCHANGED <<exists, item, seen, told, refusal, closers>>

\* The response goes out before or after the code behind get_db's yield: it
\* depends on the FastAPI that is installed, and the build allows both.
Answer(r) ==
  /\ pc[r] \in {"flushed", "committed"}
  /\ told[r] = 0
  /\ Tell(r, 200)
  /\ UNCHANGED <<exists, item, pc, seen, refusal, closers>>

Commit(r) ==
  /\ pc[r] = "flushed"
  /\ item' = Written(r)
  /\ closers' = closers \cup {r}
  /\ Goto(r, "committed")
  /\ UNCHANGED <<exists, seen, told, refusal>>

\* A statement or the commit fails: the session is rolled back, and the
\* operator gets a 500 - unless the answer is already out.
Fail(r) ==
  /\ pc[r] \in {"start", "reread", "flush", "flushed"}
  /\ told' = [told EXCEPT ![r] = IF @ = 0 THEN 500 ELSE @]
  /\ Goto(r, "end")
  /\ UNCHANGED <<exists, item, seen, refusal, closers>>

Serve(r) == Get(r) \/ Reread(r) \/ Flush(r) \/ Answer(r) \/ Commit(r)

Ended(r) == pc[r] \in {"committed", "end"} /\ told[r] # 0

\* Nothing is left to do.
Done ==
  /\ exists
  /\ \A r \in Requests : Ended(r)
  /\ UNCHANGED vars

Next == File \/ (\E r \in Requests : Serve(r) \/ Fail(r)) \/ Done

\* The event loop and the database serve what is enabled.
Spec == Init /\ [][Next]_vars /\ \A r \in Requests : WF_vars(Serve(r))

-----------------------------------------------------------------------------
TypeOK ==
  /\ exists \in BOOLEAN
  /\ item \in Item
  /\ pc \in [Requests -> {"start", "reread", "flush", "flushed",
                          "committed", "end"}]
  /\ seen \in [Requests -> Item]
  /\ told \in [Requests -> {0, 200, 404, 409, 500}]
  /\ refusal \in [Requests -> Statuses]
  /\ closers \subseteq Requests

\* Nobody is turned away in vain: an operator who is told 409 is told of a
\* closure of another request that is committed and stays, however the
\* transactions meet and whichever of them fail.
RefusalsHonest ==
  \A r \in Requests : told[r] = 409 =>
    /\ item.status # "pending"
    /\ \E q \in closers \ {r} : Body[q].status = refusal[r]

\* Every operator is answered and every transaction ends, also those that
\* wait for a row another request has written.
RequestsEnd == \A r \in Requests : <>Ended(r)

\* An item that is resolved is not closed again, as
\* test_resolve_already_resolved_returns_409 has it of one after the other.
ClosedOnce == \A q, r \in closers : q = r

=============================================================================
