---------------------------- MODULE WorkerPoolProofs ----------------------------
(***************************************************************************)
(* status() of WorkerPool is true of one moment of its call, for any       *)
(* number of callers and workers and any size of the pool.                 *)
(***************************************************************************)
EXTENDS WorkerPool, TLAPS

States == {"none", "pending", "running"} \cup EndStates

Calls ==
  {NoCall}
  \cup [op : {"shutdown"}, at : {"enter", "joining", "clearing"}]
  \cup [op : {"submit", "status", "wait", "cancel"},
        at : {"enter", "known", "idle", "done", "returned"},
        worker : Workers, said : States, held : SUBSET States]

PoolTypes ==
  /\ future \in [Workers -> States]
  /\ pending \in Seq(Workers)
  /\ handles \subseteq Workers
  /\ closed \in BOOLEAN
  /\ lock = Free
  /\ call \in [Threads -> Calls]

\* A worker that is known by its id was submitted.
KnownWasSubmitted == \A w \in handles : future[w] # "none"

(***************************************************************************)
(* What a status() call has learnt at each of its steps: its worker was    *)
(* submitted; it was seen not to run, so that if it runs now it was        *)
(* pending meanwhile; it has ended, and an ended worker stays as it is.    *)
(***************************************************************************)
Learnt(t) ==
  LET c == call[t]
  IN  /\ future[c.worker] \in c.held
      /\ c.at \in {"known", "idle", "done"} => future[c.worker] # "none"
      /\ c.at = "idle" => Ended(c.worker) \/ "pending" \in c.held
      /\ c.at = "done" => Ended(c.worker)
      /\ c.at = "returned" => c.said \in c.held

StatusInv ==
  /\ PoolTypes
  /\ KnownWasSubmitted
  /\ \A t \in Threads : call[t].op = "status" => Learnt(t)

LEMMA StatusInit == Init => StatusInv
<1> SUFFICES ASSUME Init PROVE StatusInv
  OBVIOUS
<1>1. \A t \in Threads : call[t] = NoCall
  BY DEF Init
<1>2. PoolTypes
  <2>1. NoCall \in Calls /\ "none" \in States
    BY DEF Calls, States
  <2>2. future \in [Workers -> States]
    BY <2>1 DEF Init
  <2>3. call \in [Threads -> Calls]
    BY <2>1 DEF Init
  <2>4. pending \in Seq(Workers) /\ handles \subseteq Workers
    BY DEF Init
  <2>5. closed \in BOOLEAN /\ lock = Free
    BY DEF Init
  <2> QED
    BY <2>2, <2>3, <2>4, <2>5 DEF PoolTypes
<1>3. KnownWasSubmitted
  BY DEF Init, KnownWasSubmitted
<1>4. \A t \in Threads : call[t].op # "status"
  BY <1>1 DEF NoCall
<1> QED
  BY <1>2, <1>3, <1>4 DEF StatusInv

(***************************************************************************)
(* The record of a call that has a worker.                                 *)
(***************************************************************************)
WithWorker ==
  [op : {"submit", "status", "wait", "cancel"},
   at : {"enter", "known", "idle", "done", "returned"},
   worker : Workers, said : States, held : SUBSET States]

LEMMA HasWorker ==
  ASSUME NEW c \in Calls, c.op \notin {"none", "shutdown"}
  PROVE  c \in WithWorker
BY DEF Calls, NoCall, WithWorker

(***************************************************************************)
(* A step that changes no future, and of the calls only t's.               *)
(***************************************************************************)
LEMMA QuietStep ==
  ASSUME StatusInv, NEW t \in Threads, NEW c \in Calls,
         call' = [call EXCEPT ![t] = c],
         future' = future, UNCHANGED <<pending, lock>>,
         handles' \subseteq handles, closed' \in BOOLEAN,
         c.op = "status" => Learnt(t)'
  PROVE  StatusInv'
<1>1. PoolTypes'
  BY DEF StatusInv, PoolTypes
<1>2. KnownWasSubmitted'
  BY DEF StatusInv, KnownWasSubmitted
<1>3. ASSUME NEW u \in Threads, call'[u].op = "status"
      PROVE  Learnt(u)'
  <2>1. CASE u = t
    BY <1>3, <2>1 DEF StatusInv, PoolTypes
  <2>2. CASE u # t
    <3>1. call'[u] = call[u]
      BY <2>2 DEF StatusInv, PoolTypes
    <3>2. Learnt(u)
      BY <1>3, <3>1 DEF StatusInv
    <3> QED
      BY <3>1, <3>2 DEF Learnt, Ended
  <2> QED
    BY <2>1, <2>2
<1> QED
  BY <1>1, <1>2, <1>3 DEF StatusInv

(***************************************************************************)
(* A step that changes the future of w, which had not ended: every         *)
(* status() call on w has seen the new state.                              *)
(***************************************************************************)
LEMMA FutureStep ==
  ASSUME StatusInv, NEW w \in Workers, NEW state \in States \ {"none"},
         ~Ended(w), SetFuture(w, state),
         NEW calls \in [Threads -> Calls],
         \A t \in Threads : calls[t].op = "status" => calls[t] = call[t],
         call' = Seen(calls, w, state),
         pending' \in Seq(Workers), UNCHANGED <<closed, lock>>,
         handles' \subseteq handles \cup {w}
  PROVE  StatusInv'
<1>0. /\ future \in [Workers -> States] /\ handles \subseteq Workers
      /\ future' = [future EXCEPT ![w] = state]
  BY DEF StatusInv, PoolTypes, SetFuture
<1>1. ASSUME NEW t \in Threads
      PROVE  call'[t] \in Calls
  <2>1. CASE calls[t].op = "status" /\ calls[t].worker = w
    <3>1. calls[t] \in WithWorker
      BY <2>1, HasWorker
    <3>2. call'[t] = [calls[t] EXCEPT !.held = @ \cup {state}]
      BY <2>1 DEF Seen
    <3>3. call'[t] \in WithWorker
      BY <3>1, <3>2 DEF WithWorker
    <3> QED
      BY <3>3 DEF Calls, WithWorker
  <2>2. CASE ~(calls[t].op = "status" /\ calls[t].worker = w)
    BY <2>2 DEF Seen
  <2> QED
    BY <2>1, <2>2
<1>2. PoolTypes'
  <2>1. call' \in [Threads -> Calls]
    BY <1>1 DEF Seen
  <2> QED
    BY <1>0, <2>1 DEF StatusInv, PoolTypes
<1>3. KnownWasSubmitted'
  BY <1>0 DEF StatusInv, KnownWasSubmitted
<1>4. ASSUME NEW t \in Threads, call'[t].op = "status"
      PROVE  Learnt(t)'
  <2>1. CASE calls[t].op = "status" /\ calls[t].worker = w
    <3>1. calls[t] = call[t] /\ call[t] \in WithWorker /\ Learnt(t)
      BY <2>1, HasWorker DEF StatusInv
    <3>2. call'[t] = [call[t] EXCEPT !.held = @ \cup {state}]
      BY <2>1, <3>1 DEF Seen
    <3>3. /\ call'[t].at = call[t].at /\ call'[t].worker = w /\ call'[t].said = call[t].said
          /\ call'[t].held = call[t].held \cup {state}
      BY <2>1, <3>1, <3>2 DEF WithWorker
    <3>4. future'[w] = state
      BY <1>0
    <3>5. future[w] \in {"none", "pending", "running"}
      BY <1>0 DEF States, Ended, EndStates
    <3>6. Ended(w)' \/ state \in {"pending", "running"}
      BY <3>4 DEF Ended, States
    <3> QED
      BY <2>1, <3>1, <3>3, <3>4, <3>5, <3>6 DEF Learnt, Ended, EndStates, States
  <2>2. CASE ~(calls[t].op = "status" /\ calls[t].worker = w)
    <3>1. call'[t] = calls[t] /\ calls[t] = call[t] /\ Learnt(t)
      BY <1>4, <2>2 DEF StatusInv, Seen
    <3>2. call[t].worker # w
      BY <1>4, <2>2, <3>1
    <3>3. call[t].worker \in Workers
      BY <1>4, <3>1, HasWorker DEF WithWorker
    <3> QED
      BY <1>0, <3>1, <3>2, <3>3 DEF Learnt, Ended
  <2> QED
    BY <2>1, <2>2
<1> QED
  BY <1>2, <1>3, <1>4 DEF StatusInv

(***************************************************************************)
(* The steps of a thread in one of the scheduler's methods.                *)
(***************************************************************************)
LEMMA CallStep ==
  ASSUME StatusInv, NEW t \in Threads, Begin(t) \/ Thread(t)
  PROVE  StatusInv'
<1>0. /\ future \in [Workers -> States] /\ handles \subseteq Workers
      /\ pending \in Seq(Workers) /\ closed \in BOOLEAN
      /\ call \in [Threads -> Calls] /\ call[t] \in Calls /\ NoCall \in Calls
      /\ NoCall.op = "none"
  BY DEF StatusInv, PoolTypes, Calls, NoCall
<1>1. ASSUME call' = [call EXCEPT ![t] = NoCall], future' = future,
             UNCHANGED <<pending, lock>>, handles' \subseteq handles, closed' \in BOOLEAN
      PROVE  StatusInv'
  BY <1>0, <1>1, QuietStep
<1>2. CASE Begin(t)
  <2>1. CASE \E op \in {"submit", "status", "wait", "cancel"}, w \in Workers :
               call' = [call EXCEPT ![t] =
                  [op |-> op, at |-> "enter", worker |-> w, said |-> "none",
                   held |-> IF op = "status" THEN {future[w]} ELSE {}]]
    <3>1. PICK op \in {"submit", "status", "wait", "cancel"}, w \in Workers :
               call' = [call EXCEPT ![t] =
                  [op |-> op, at |-> "enter", worker |-> w, said |-> "none",
                   held |-> IF op = "status" THEN {future[w]} ELSE {}]]
      BY <2>1
    <3> DEFINE c == [op |-> op, at |-> "enter", worker |-> w, said |-> "none",
                     held |-> IF op = "status" THEN {future[w]} ELSE {}]
    <3>2. c \in WithWorker
      BY <1>0 DEF WithWorker, States
    <3>3. c \in Calls
      BY <3>2 DEF Calls, WithWorker
    <3>4. future' = future /\ UNCHANGED <<pending, handles, closed, lock>>
      BY <1>2 DEF Begin
    <3>5. c.op = "status" => Learnt(t)'
      BY <1>0, <3>1, <3>4 DEF Learnt
    <3> QED
      BY <1>0, <3>1, <3>3, <3>4, <3>5, QuietStep
  <2>2. CASE call' = [call EXCEPT ![t] = [op |-> "shutdown", at |-> "enter"]]
    <3> DEFINE c == [op |-> "shutdown", at |-> "enter"]
    <3>1. c \in Calls
      BY DEF Calls
    <3>2. future' = future /\ UNCHANGED <<pending, handles, closed, lock>>
      BY <1>2 DEF Begin
    <3> QED
      BY <1>0, <2>2, <3>1, <3>2, QuietStep
  <2> QED
    BY <1>2, <2>1, <2>2 DEF Begin
<1>3. CASE Submit(t)
  <2> DEFINE w == call[t].worker
  <2>1. call[t] \in WithWorker /\ w \in Workers /\ call[t].op = "submit"
    BY <1>0, <1>3, HasWorker DEF Submit, Locked, In, WithWorker
  <2>2. CASE closed \/ future[w] # "none"
    BY <1>1, <1>3, <2>2, <1>0 DEF Submit, Return
  <2>3. CASE ~(closed \/ future[w] # "none")
    <3> DEFINE calls == [call EXCEPT ![t] = NoCall]
    <3>1. /\ SetFuture(w, "pending") /\ pending' = Append(pending, w)
          /\ handles' = handles \cup {w} /\ call' = Seen(calls, w, "pending")
          /\ UNCHANGED <<closed, lock>>
      BY <1>3, <2>3 DEF Submit
    <3>2. calls \in [Threads -> Calls]
      BY <1>0
    <3>3. \A u \in Threads : calls[u].op = "status" => calls[u] = call[u]
      BY <1>0
    <3>4. ~Ended(w) /\ "pending" \in States \ {"none"} /\ Append(pending, w) \in Seq(Workers)
      BY <1>0, <2>1, <2>3 DEF Ended, EndStates, States
    <3> QED
      BY <2>1, <3>1, <3>2, <3>3, <3>4, FutureStep
  <2> QED
    BY <2>2, <2>3
<1>4. CASE RequireHandle(t)
  <2>1. CASE call[t].worker \in handles
    <3> DEFINE c == [call[t] EXCEPT !.at = "known"]
    <3>1. call[t] \in WithWorker /\ call[t].at = "enter"
      BY <1>0, <1>4, HasWorker DEF RequireHandle, Locked, In
    <3>2. c \in WithWorker
      BY <3>1 DEF WithWorker
    <3>3. c \in Calls
      BY <3>2 DEF Calls, WithWorker
    <3>4. /\ call' = [call EXCEPT ![t] = c]
          /\ future' = future /\ UNCHANGED <<pending, handles, closed, lock>>
      BY <1>4, <2>1 DEF RequireHandle, Goto
    <3>5. c.op = "status" => Learnt(t)'
      <4> SUFFICES ASSUME c.op = "status" PROVE Learnt(t)'
        OBVIOUS
      <4>1. /\ c.op = call[t].op /\ c.worker = call[t].worker /\ c.held = call[t].held
            /\ c.at = "known"
        BY <3>1 DEF WithWorker
      <4>2. Learnt(t)
        BY <4>1 DEF StatusInv
      <4>3. call'[t] = c /\ future[call[t].worker] # "none"
        BY <1>0, <2>1, <3>4 DEF StatusInv, KnownWasSubmitted
      <4> QED
        BY <3>4, <4>1, <4>2, <4>3 DEF Learnt, Ended
    <3> QED
      BY <1>0, <3>3, <3>4, <3>5, QuietStep
  <2>2. CASE call[t].worker \notin handles
    BY <1>0, <1>1, <1>4, <2>2 DEF RequireHandle, Return
  <2> QED
    BY <2>1, <2>2
<1>5. CASE Wait(t)
  BY <1>0, <1>1, <1>5 DEF Wait, Return
<1>6. CASE Cancel(t)
  <2> DEFINE w == call[t].worker
  <2>1. call[t] \in WithWorker /\ w \in Workers /\ call[t].op = "cancel"
    BY <1>0, <1>6, HasWorker DEF Cancel, In, WithWorker
  <2>2. CASE future[w] = "pending"
    <3> DEFINE calls == [call EXCEPT ![t] = NoCall]
    <3>1. /\ SetFuture(w, "cancelled") /\ call' = Seen(calls, w, "cancelled")
          /\ UNCHANGED <<pending, handles, closed, lock>>
      BY <1>6, <2>2 DEF Cancel
    <3>2. calls \in [Threads -> Calls]
      BY <1>0
    <3>3. \A u \in Threads : calls[u].op = "status" => calls[u] = call[u]
      BY <1>0
    <3>4. ~Ended(w) /\ "cancelled" \in States \ {"none"}
      BY <2>2 DEF Ended, EndStates, States
    <3> QED
      BY <1>0, <2>1, <3>1, <3>2, <3>3, <3>4, FutureStep
  <2>3. CASE future[w] # "pending"
    BY <1>0, <1>1, <1>6, <2>3 DEF Cancel, Return
  <2> QED
    BY <2>2, <2>3
<1>7. CASE Status(t)
  <2> DEFINE w == call[t].worker
  <2>1. call[t] \in WithWorker /\ w \in Workers /\ call[t].op = "status" /\ Learnt(t)
    BY <1>0, <1>7, HasWorker DEF Status, In, WithWorker, StatusInv
  <2>2. future' = future /\ UNCHANGED <<pending, handles, closed, lock>>
    BY <1>7 DEF Status
  <2>3. ASSUME NEW c \in WithWorker, call' = [call EXCEPT ![t] = c],
               c.op = "status", c.worker = w, c.held = call[t].held,
               c.at \in {"idle", "done", "returned"}, future[w] # "none",
               c.at = "idle" => Ended(w) \/ "pending" \in call[t].held,
               c.at = "done" => Ended(w),
               c.at = "returned" => c.said \in call[t].held
        PROVE  StatusInv'
    <3>1. c \in Calls
      BY <2>3 DEF Calls, WithWorker
    <3>2. call'[t] = c
      BY <1>0, <2>3
    <3>3. Learnt(t)'
      BY <2>1, <2>2, <2>3, <3>2 DEF Learnt, Ended
    <3> QED
      BY <1>0, <2>2, <2>3, <3>1, <3>3, QuietStep
  <2>4. ASSUME NEW at \in {"idle", "done"}, Goto(t, at), future[w] # "none",
               at = "idle" => Ended(w) \/ "pending" \in call[t].held,
               at = "done" => Ended(w)
        PROVE  StatusInv'
    <3> DEFINE c == [call[t] EXCEPT !.at = at]
    <3>1. /\ c \in WithWorker /\ c.op = "status" /\ c.worker = w /\ c.held = call[t].held
          /\ c.at = at
      BY <2>1 DEF WithWorker
    <3>2. call' = [call EXCEPT ![t] = c]
      BY <2>4 DEF Goto
    <3> HIDE DEF c
    <3> QED
      BY <2>3, <2>4, <3>1, <3>2
  <2>5. ASSUME NEW word \in States, Say(t, word), future[w] # "none", word \in call[t].held
        PROVE  StatusInv'
    <3> DEFINE c == [call[t] EXCEPT !.at = "returned", !.said = word]
    <3>1. /\ c \in WithWorker /\ c.op = "status" /\ c.worker = w /\ c.held = call[t].held
          /\ c.at = "returned" /\ c.said = word
      BY <2>1 DEF WithWorker
    <3>2. call' = [call EXCEPT ![t] = c]
      BY <1>0, <2>5 DEF Say
    <3> HIDE DEF c
    <3> QED
      BY <2>3, <2>5, <3>1, <3>2
  <2>6. future[w] \in States /\ future[w] \in call[t].held
    BY <1>0, <2>1 DEF Learnt
  <2>7. CASE call[t].at = "known"
    <3>1. future[w] # "none"
      BY <2>1, <2>7 DEF Learnt
    <3>2. CASE future[w] = "running"
      BY <1>7, <2>5, <2>6, <2>7, <3>1, <3>2 DEF Status, In
    <3>3. CASE future[w] # "running"
      <4>1. Ended(w) \/ "pending" \in call[t].held
        BY <2>6, <3>1, <3>3 DEF States, Ended
      <4> QED
        BY <1>7, <2>4, <2>7, <3>1, <3>3, <4>1 DEF Status, In
    <3> QED
      BY <3>2, <3>3
  <2>8. CASE call[t].at = "idle"
    <3>1. future[w] # "none" /\ (Ended(w) \/ "pending" \in call[t].held)
      BY <2>1, <2>8 DEF Learnt
    <3>2. CASE Ended(w)
      BY <1>7, <2>4, <2>8, <3>1, <3>2 DEF Status, In
    <3>3. CASE ~Ended(w)
      BY <1>7, <2>5, <2>8, <3>1, <3>3 DEF Status, In, States
    <3> QED
      BY <3>2, <3>3
  <2>9. CASE call[t].at = "done"
    <3>1. future[w] # "none"
      BY <2>1, <2>9 DEF Learnt
    <3> QED
      BY <1>7, <2>5, <2>6, <2>9, <3>1 DEF Status, In
  <2>10. CASE call[t].at = "returned"
    BY <1>0, <1>1, <1>7, <2>2, <2>10 DEF Status, In, Return
  <2> QED
    BY <1>7, <2>7, <2>8, <2>9, <2>10 DEF Status, In
<1>8. ASSUME NEW at \in {"joining", "clearing"}, call[t].op = "shutdown", Goto(t, at),
             UNCHANGED <<future, pending, handles, lock>>, closed' \in BOOLEAN
      PROVE  StatusInv'
  <2> DEFINE c == [call[t] EXCEPT !.at = at]
  <2>1. call[t] \in [op : {"shutdown"}, at : {"enter", "joining", "clearing"}]
    BY <1>0, <1>8 DEF Calls, NoCall
  <2>2. c \in [op : {"shutdown"}, at : {"enter", "joining", "clearing"}]
    BY <2>1
  <2>3. c \in Calls /\ c.op = "shutdown"
    BY <2>2 DEF Calls
  <2>4. call' = [call EXCEPT ![t] = c]
    BY <1>8 DEF Goto
  <2> HIDE DEF c
  <2> QED
    BY <1>8, <2>3, <2>4, QuietStep
<1>9. CASE BeginShutdown(t)
  <2>1. CASE closed
    BY <1>0, <1>1, <1>9, <2>1 DEF BeginShutdown, Return
  <2>2. CASE ~closed
    BY <1>8, <1>9, <2>2 DEF BeginShutdown, Locked, In
  <2> QED
    BY <2>1, <2>2
<1>10. CASE EndShutdown(t)
  <2>1. CASE call[t].at = "joining"
    BY <1>0, <1>8, <1>10, <2>1 DEF EndShutdown, In
  <2>2. CASE call[t].at = "clearing"
    BY <1>0, <1>1, <1>10, <2>2 DEF EndShutdown, In, Return
  <2> QED
    BY <1>10, <2>1, <2>2 DEF EndShutdown, In
<1> QED
  BY <1>2, <1>3, <1>4, <1>5, <1>6, <1>7, <1>9, <1>10 DEF Thread

(***************************************************************************)
(* The steps of the executor.                                              *)
(***************************************************************************)
LEMMA ExecutorStep ==
  ASSUME StatusInv, Start \/ \E w \in Workers : End(w)
  PROVE  StatusInv'
<1>0. /\ future \in [Workers -> States] /\ handles \subseteq Workers
      /\ pending \in Seq(Workers) /\ call \in [Threads -> Calls]
  BY DEF StatusInv, PoolTypes
<1>1. CASE Start
  <2> DEFINE w == Head(pending)
  <2>1. w \in Workers /\ Tail(pending) \in Seq(Workers)
    BY <1>0, <1>1 DEF Start
  <2>2. CASE future[w] = "pending"
    <3>1. /\ SetFuture(w, "running") /\ call' = Seen(call, w, "running")
          /\ pending' = Tail(pending) /\ UNCHANGED <<handles, closed, lock>>
      BY <1>1, <2>2 DEF Start
    <3>2. ~Ended(w) /\ "running" \in States \ {"none"}
      BY <2>2 DEF Ended, EndStates, States
    <3> HIDE DEF w
    <3> QED
      BY <1>0, <2>1, <3>1, <3>2, FutureStep
  <2>3. CASE future[w] # "pending"
    <3>1. /\ UNCHANGED <<future, call, handles, closed, lock>> /\ pending' = Tail(pending)
      BY <1>1, <2>3 DEF Start
    <3> QED
      BY <2>1, <3>1 DEF StatusInv, PoolTypes, KnownWasSubmitted, Learnt, Ended
  <2> QED
    BY <2>2, <2>3
<1>2. ASSUME NEW w \in Workers, End(w)
      PROVE  StatusInv'
  <2>1. PICK state \in {"completed", "failed"} :
          SetFuture(w, state) /\ call' = Seen(call, w, state)
    BY <1>2 DEF End
  <2>2. ~Ended(w) /\ state \in States \ {"none"}
    BY <1>2 DEF End, Ended, EndStates, States
  <2>3. UNCHANGED <<pending, handles, closed, lock>>
    BY <1>2 DEF End
  <2> QED
    BY <1>0, <2>1, <2>2, <2>3, FutureStep
<1> QED
  BY <1>1, <1>2

(***************************************************************************)
(* What status() returns was the state of the worker at one moment of the  *)
(* call (StatusWasTrue), however many threads and workers use the          *)
(* scheduler and whatever they call meanwhile.                             *)
(***************************************************************************)
THEOREM StatusIsTrue == Spec => []StatusWasTrue
<1>1. StatusInv /\ [Next]_vars => StatusInv'
  <2> SUFFICES ASSUME StatusInv, [Next]_vars PROVE StatusInv'
    OBVIOUS
  <2>1. CASE UNCHANGED vars
    BY <2>1 DEF vars, StatusInv, PoolTypes, KnownWasSubmitted, Learnt, Ended
  <2> QED
    BY <2>1, CallStep, ExecutorStep DEF Next
<1>2. StatusInv => StatusWasTrue
  BY DEF StatusInv, StatusWasTrue, Learnt, In
<1> QED
  BY StatusInit, <1>1, <1>2, PTL DEF Spec
===============================================================================
