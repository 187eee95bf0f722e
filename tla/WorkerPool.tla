------------------------------ MODULE WorkerPool ------------------------------
(***************************************************************************)
(* The worker pool of one run (core/llm/Agent/scheduler.py): threads       *)
(* submit workers, ask for their status, wait for them, cancel them and    *)
(* shut the pool down, all at the same time; the running workers may do    *)
(* all but the last of this too.  The scheduler's own lock guards the      *)
(* handles and the shutdown flag, never a future: status() reads one three *)
(* times.  The executor below is a ThreadPoolExecutor: it starts what was  *)
(* submitted in order, at most MaxWorkers at a time.                       *)
(***************************************************************************)
EXTENDS Integers, Sequences, FiniteSets

CONSTANTS Callers,     \* threads of the run, one of which may shut the pool down
          Workers,     \* what can be submitted, each once
          MaxWorkers,
          Free         \* nobody has the lock

ASSUME WorkerPoolAssumption ==
  /\ MaxWorkers \in Nat \ {0}
  /\ Callers \cap Workers = {}
  /\ Free \notin Callers \cup Workers

VARIABLES
  future,   \* per worker: the state of its future
  pending,  \* the executor's queue, cancelled ones included
  handles,  \* _handles: the workers that are known by their id
  closed,   \* _shutdown
  lock,     \* who has _lock; free between steps, as no method blocks while it has it
  call      \* per thread: the call it is in

vars == <<future, pending, handles, closed, lock, call>>

Threads == Callers \cup Workers
EndStates == {"completed", "failed", "cancelled"}
Ended(w) == future[w] \in EndStates
Running == {w \in Workers : future[w] = "running"}

\* op: the method; at: how far it is; worker: its argument; and for status(),
\* held: the states the future has had since the call began, said: its answer.
NoCall == [op |-> "none"]
Idle(t) == call[t].op = "none"
In(t, op, at) == ~Idle(t) /\ call[t].op = op /\ call[t].at = at

Init ==
  /\ future = [w \in Workers |-> "none"]
  /\ pending = << >>
  /\ handles = {}
  /\ closed = FALSE
  /\ lock = Free
  /\ call = [t \in Threads |-> NoCall]

-------------------------------------------------------------------------------
(* Threads.  What a status() call has seen is kept up with in every step   *)
(* that changes a future.                                                  *)

SetFuture(w, state) ==
  future' = [future EXCEPT ![w] = state]

Seen(calls, w, state) ==
  [t \in Threads |->
     IF calls[t].op = "status" /\ calls[t].worker = w
     THEN [calls[t] EXCEPT !.held = @ \cup {state}]
     ELSE calls[t]]

Goto(t, at) == call' = [call EXCEPT ![t].at = at]
Return(t) == call' = [call EXCEPT ![t] = NoCall]

\* A caller, or a worker while it runs, calls a method; shutdown() is the run's.
Begin(t) ==
  /\ Idle(t)
  /\ \/ /\ t \in Callers \cup Running
        /\ \E op \in {"submit", "status", "wait", "cancel"}, w \in Workers :
             /\ op = "submit" => future[w] = "none"
             /\ call' = [call EXCEPT ![t] =
                  [op |-> op, at |-> "enter", worker |-> w, said |-> "none",
                   held |-> IF op = "status" THEN {future[w]} ELSE {}]]
     \/ t \in Callers /\ call' = [call EXCEPT ![t] = [op |-> "shutdown", at |-> "enter"]]
  /\ UNCHANGED <<future, pending, handles, closed, lock>>

\* A section under the lock is one step of its thread.
Locked(t, op) == In(t, op, "enter") /\ lock = Free

\* submit: raises once the pool is shut down.
Submit(t) ==
  /\ Locked(t, "submit")
  /\ LET w == call[t].worker
     IN  IF closed \/ future[w] # "none"
         THEN Return(t) /\ UNCHANGED <<future, pending, handles>>
         ELSE /\ SetFuture(w, "pending")
              /\ pending' = Append(pending, w)
              /\ handles' = handles \cup {w}
              /\ call' = Seen([call EXCEPT ![t] = NoCall], w, "pending")
  /\ UNCHANGED <<closed, lock>>

\* _require_handle: raises for an id that is not, or no longer, known.
RequireHandle(t) ==
  /\ \E op \in {"status", "wait", "cancel"} : Locked(t, op)
  /\ IF call[t].worker \in handles THEN Goto(t, "known") ELSE Return(t)
  /\ UNCHANGED <<future, pending, handles, closed, lock>>

Wait(t) ==
  /\ In(t, "wait", "known") /\ Ended(call[t].worker)
  /\ Return(t)
  /\ UNCHANGED <<future, pending, handles, closed, lock>>

Cancel(t) ==
  /\ In(t, "cancel", "known")
  /\ LET w == call[t].worker
     IN  IF future[w] = "pending"
         THEN /\ SetFuture(w, "cancelled")
              /\ call' = Seen([call EXCEPT ![t] = NoCall], w, "cancelled")
         ELSE Return(t) /\ UNCHANGED future
  /\ UNCHANGED <<pending, handles, closed, lock>>

Say(t, word) == call' = [call EXCEPT ![t].at = "returned", ![t].said = word]

\* Mutant: status() first asks whether the future is done, then whether it runs.
StatusDoneFirst(t) ==
  /\ \/ /\ In(t, "status", "known")
        /\ IF Ended(call[t].worker) THEN Say(t, future[call[t].worker]) ELSE Goto(t, "idle")
     \/ /\ In(t, "status", "idle")
        /\ Say(t, IF future[call[t].worker] = "running" THEN "running" ELSE "pending")
     \/ In(t, "status", "returned") /\ Return(t)
  /\ UNCHANGED <<future, pending, handles, closed, lock>>

\* status: running(), then done(), then how it ended.
Status(t) ==
  /\ \/ /\ In(t, "status", "known")
        /\ IF future[call[t].worker] = "running" THEN Say(t, "running") ELSE Goto(t, "idle")
     \/ /\ In(t, "status", "idle")
        /\ IF Ended(call[t].worker) THEN Goto(t, "done") ELSE Say(t, "pending")
     \/ In(t, "status", "done") /\ Say(t, future[call[t].worker])
     \/ In(t, "status", "returned") /\ Return(t)
  /\ UNCHANGED <<future, pending, handles, closed, lock>>

\* Mutant: the lock, which is not reentrant, is kept while the workers are waited for.
BeginShutdownLocked(t) ==
  /\ Locked(t, "shutdown")
  /\ IF closed THEN Return(t) /\ UNCHANGED lock ELSE Goto(t, "joining") /\ lock' = t
  /\ closed' = TRUE
  /\ UNCHANGED <<future, pending, handles>>

\* shutdown: only the first call goes on to wait.
BeginShutdown(t) ==
  /\ Locked(t, "shutdown")
  /\ IF closed THEN Return(t) ELSE Goto(t, "joining")
  /\ closed' = TRUE
  /\ UNCHANGED <<future, pending, handles, lock>>

\* executor.shutdown(wait=True) returns when its threads are done; then, with the
\* lock again, the handles are let go.
EndShutdown(t) ==
  /\ \/ /\ In(t, "shutdown", "joining")
        /\ pending = << >> /\ Running = {}
        /\ Goto(t, "clearing") /\ UNCHANGED handles
     \/ /\ In(t, "shutdown", "clearing") /\ lock = Free
        /\ handles' = {} /\ Return(t)
  /\ UNCHANGED <<future, pending, closed, lock>>

Thread(t) ==
  \/ Submit(t) \/ RequireHandle(t) \/ Wait(t) \/ Cancel(t) \/ Status(t)
  \/ BeginShutdown(t) \/ EndShutdown(t)

-------------------------------------------------------------------------------
(* The executor.                                                           *)

\* A thread takes the next worker; a cancelled one is passed over.
Start ==
  /\ pending # << >> /\ Cardinality(Running) < MaxWorkers
  /\ pending' = Tail(pending)
  /\ LET w == Head(pending)
     IN  IF future[w] = "pending"
         THEN SetFuture(w, "running") /\ call' = Seen(call, w, "running")
         ELSE UNCHANGED <<future, call>>
  /\ UNCHANGED <<handles, closed, lock>>

End(w) ==
  /\ future[w] = "running" /\ Idle(w)
  /\ \E state \in {"completed", "failed"} :
       SetFuture(w, state) /\ call' = Seen(call, w, state)
  /\ UNCHANGED <<pending, handles, closed, lock>>

Next ==
  \/ \E t \in Threads : Begin(t) \/ Thread(t)
  \/ Start \/ \E w \in Workers : End(w)

Spec == Init /\ [][Next]_vars

\* Threads run, and a worker that is not in a call now and then comes to its end.
FairSpec ==
  /\ Spec
  /\ \A t \in Threads : WF_vars(Thread(t))
  /\ WF_vars(Start)
  /\ \A w \in Workers : SF_vars(End(w))

-------------------------------------------------------------------------------
(* Properties.                                                             *)

(***************************************************************************)
(* What status() returns was the state of the worker at one moment of the  *)
(* call, although it reads the future up to four times without a lock      *)
(* while the worker starts, ends or is cancelled.                          *)
(***************************************************************************)
StatusWasTrue ==
  \A t \in Threads : In(t, "status", "returned") => call[t].said \in call[t].held

\* Every running worker waits for one that has not ended, and no other can start.
Starved ==
  /\ Running # {}
  /\ \A w \in Running : In(w, "wait", "known") /\ ~Ended(call[w].worker)
  /\ pending = << >> \/ Cardinality(Running) = MaxWorkers

(***************************************************************************)
(* The shutdown at the end of a run returns, whatever is queued, running,  *)
(* failing, cancelled or in a call of the scheduler - unless the workers   *)
(* wait for each other: for one that is queued behind them, or in a circle.*)
(***************************************************************************)
ShutdownReturns ==
  \A t \in Callers : In(t, "shutdown", "joining") ~> (Idle(t) \/ Starved)
===============================================================================
