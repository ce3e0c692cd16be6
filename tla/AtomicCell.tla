----------------------------- MODULE AtomicCell -----------------------------
(***************************************************************************)
(* What the __atomic_* functions promise: every call takes effect at one   *)
(* moment between its start and its return.                                *)
(***************************************************************************)
CONSTANTS Threads, Objects, Values, Ops,
          NoOp, NoResult,
          Update(_, _),   \* what an operation makes of the value it finds
          Result(_, _)    \* what it returns for it

VARIABLES cell,    \* the value of every object
          call,    \* the call each thread is in, or NoOp
          answer   \* its result once it has taken effect, or NoResult

vars == << cell, call, answer >>

CellInit ==
  /\ cell \in [Objects -> Values]
  /\ call = [t \in Threads |-> NoOp]
  /\ answer = [t \in Threads |-> NoResult]

Invoke(t, op) ==
  /\ call[t] = NoOp
  /\ call' = [call EXCEPT ![t] = op]
  /\ UNCHANGED << cell, answer >>

TakeEffect(t) ==
  /\ call[t] # NoOp /\ answer[t] = NoResult
  /\ LET op == call[t]
     IN  /\ cell' = [cell EXCEPT ![op.obj] = Update(op, cell[op.obj])]
         /\ answer' = [answer EXCEPT ![t] = Result(op, cell[op.obj])]
  /\ UNCHANGED call

Respond(t) ==
  /\ answer[t] # NoResult
  /\ call' = [call EXCEPT ![t] = NoOp]
  /\ answer' = [answer EXCEPT ![t] = NoResult]
  /\ UNCHANGED cell

CellNext ==
  \E t \in Threads : TakeEffect(t) \/ Respond(t) \/ \E op \in Ops : Invoke(t, op)

CellSpec == CellInit /\ [][CellNext]_vars
=============================================================================
