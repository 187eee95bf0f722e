------------------------------- MODULE TraceLog -------------------------------
(***************************************************************************)
(* The trace of the daemon's runs (core/trace/recorder.py, reader.py): the *)
(* event loop and the threads of the runs all write entries to the file of *)
(* a run.  record() takes a sequence number under the recorder's lock, the *)
(* time outside it, and the lock once more to write; the entries of other  *)
(* threads come in between, and a file's lines are in neither order.  The  *)
(* reader sorts them by time, to the millisecond, then by number.          *)
(*                                                                         *)
(* Every entry of a run names its session, so all go to one file.  What is *)
(* read while the daemon works is also what a daemon that was killed there *)
(* leaves behind: each entry is one flushed line.                          *)
(***************************************************************************)
EXTENDS Integers, Sequences, FiniteSets, SequencesExt

CONSTANTS Runs, Clients,
          Loop,        \* the daemon's event loop, a thread like the runs'
          MaxRecords,  \* bound: events published and calls made by a run
          MaxClock     \* bound: milliseconds that pass

ASSUME TraceLogAssumption ==
  /\ MaxRecords \in Nat /\ MaxClock \in Nat
  /\ IsFiniteSet(Clients)
  /\ Loop \notin Runs \X {"run", "refresh"}

VARIABLES
  clock,   \* the system's clock, which is not set back
  seq,     \* _seq
  agenda,  \* per thread: what it does next, in order; the loop's callbacks
  stamp,   \* per thread: number and time of the entry it is about to write
  done,    \* per thread: events published and calls made so far
  phase,   \* per run: what became of its request
  file     \* per run: the lines of its file

vars == <<clock, seq, agenda, stamp, done, phase, file>>

\* A run has its own thread and, after its answer was remembered, a refresh thread.
Workers == Runs \X {"run", "refresh"}
Threads == {Loop} \cup Workers
RunOf(t) == t[1]

Unstamped == [seq |-> 0, ts |-> 0]
NoOne == "no client"

\* by and n identify an event or a call; client is whom a copy is sent to.
Note(kind, r, by, n, client) ==
  [do |-> "record", kind |-> kind, run |-> r, by |-> by, n |-> n, client |-> client]
Callback(do, r, by, n) ==
  [do |-> do, kind |-> "none", run |-> r, by |-> by, n |-> n, client |-> NoOne]

Init ==
  /\ clock = 1 /\ seq = 0
  /\ agenda = [t \in Threads |-> << >>]
  /\ stamp = [t \in Threads |-> Unstamped]
  /\ done = [t \in Workers |-> 0]
  /\ phase = [r \in Runs |-> "none"]
  /\ file = [r \in Runs |-> {}]

Tick ==
  /\ clock < MaxClock
  /\ clock' = clock + 1
  /\ UNCHANGED <<seq, agenda, stamp, done, phase, file>>

-------------------------------------------------------------------------------
(* record(), in any thread.                                                *)

Upcoming(t, do) == agenda[t] # << >> /\ Head(agenda[t]).do = do

TakeNumber(t) ==
  /\ Upcoming(t, "record") /\ stamp[t] = Unstamped
  /\ seq' = seq + 1
  /\ stamp' = [stamp EXCEPT ![t].seq = seq']
  /\ UNCHANGED <<clock, agenda, done, phase, file>>

TakeTime(t) ==
  /\ stamp[t].seq # 0 /\ stamp[t].ts = 0
  /\ stamp' = [stamp EXCEPT ![t].ts = clock]
  /\ UNCHANGED <<clock, seq, agenda, done, phase, file>>

Write(t) ==
  /\ stamp[t].ts # 0
  /\ LET note == Head(agenda[t])
     IN  file' = [file EXCEPT ![note.run] = @ \cup {[note |-> note, stamp |-> stamp[t]]}]
  /\ stamp' = [stamp EXCEPT ![t] = Unstamped]
  /\ agenda' = [agenda EXCEPT ![t] = Tail(@)]
  /\ UNCHANGED <<clock, seq, done, phase>>

-------------------------------------------------------------------------------
(* A run's threads.                                                        *)

\* Mutant: the hub subscribed to the bus before the recorder.
PublishedHubFirst(r, by, n) ==
  <<Callback("notify", r, by, n), Note("CORE", r, by, n, NoOne)>>

\* EventBus.publish: the recorder subscribed first, then the hub, which hands
\* the event over to the loop.
Published(r, by, n) ==
  <<Note("CORE", r, by, n, NoOne), Callback("notify", r, by, n)>>

\* A thread of the run publishes an event; the refresh thread at most one, its failure.
Publish(t) ==
  /\ agenda[t] = << >>
  /\ \/ t[2] = "run" /\ phase[RunOf(t)] \in {"running", "remembered"} /\ done[t] < MaxRecords
     \/ t[2] = "refresh" /\ phase[RunOf(t)] \in {"remembered", "failed"} /\ done[t] = 0
  /\ done' = [done EXCEPT ![t] = @ + 1]
  /\ agenda' = [agenda EXCEPT ![t] = Published(RunOf(t), t[2], done'[t])]
  /\ UNCHANGED <<clock, seq, stamp, phase, file>>

\* _chat_completion: an entry before the call of the model and one with its outcome.
Chat(t) ==
  /\ t[2] = "run" /\ agenda[t] = << >>
  /\ phase[RunOf(t)] = "running" /\ done[t] < MaxRecords
  /\ done' = [done EXCEPT ![t] = @ + 1]
  /\ agenda' = [agenda EXCEPT ![t] =
       <<Note("CORE_TO_LLM", RunOf(t), t[2], done'[t], NoOne),
         Note("LLM_TO_CORE", RunOf(t), t[2], done'[t], NoOne)>>]
  /\ UNCHANGED <<clock, seq, stamp, phase, file>>

\* ToolExecutor: an entry when a tool's result is there.
Audit(t) ==
  /\ t[2] = "run" /\ agenda[t] = << >>
  /\ phase[RunOf(t)] = "running" /\ done[t] < MaxRecords
  /\ done' = [done EXCEPT ![t] = @ + 1]
  /\ agenda' = [agenda EXCEPT ![t] = <<Note("TOOL", RunOf(t), t[2], done'[t], NoOne)>>]
  /\ UNCHANGED <<clock, seq, stamp, phase, file>>

\* The answer is remembered and a refresh scheduled: its thread may report a failure.
Remember(r) ==
  /\ phase[r] = "running" /\ agenda[<<r, "run">>] = << >>
  /\ phase' = [phase EXCEPT ![r] = "remembered"]
  /\ UNCHANGED <<clock, seq, agenda, stamp, done, file>>

\* What AgentRuntime.run raises reaches the background task, on the loop.
RunRaises(r) ==
  /\ phase[r] \in {"running", "remembered"} /\ agenda[<<r, "run">>] = << >>
  /\ phase' = [phase EXCEPT ![r] = IF @ = "running" THEN "raised" ELSE "failed"]
  /\ agenda' = [agenda EXCEPT ![Loop] = Append(@, Callback("report", r, "task", 0))]
  /\ UNCHANGED <<clock, seq, stamp, done, file>>

\* EventHub.publish: call_soon_threadsafe.
Notify(t) ==
  /\ Upcoming(t, "notify")
  /\ LET rest == [agenda EXCEPT ![t] = Tail(@)]
     IN  agenda' = [rest EXCEPT ![Loop] = Append(@, [Head(agenda[t]) EXCEPT !.do = "push"])]
  /\ UNCHANGED <<clock, seq, stamp, done, phase, file>>

-------------------------------------------------------------------------------
(* The loop.                                                               *)

\* A request agent.run arrives; the loop gets to it in its turn.
Request(r) ==
  /\ phase[r] = "none"
  /\ phase' = [phase EXCEPT ![r] = "requested"]
  /\ agenda' = [agenda EXCEPT ![Loop] = Append(@, Callback("request", r, "client", 0))]
  /\ UNCHANGED <<clock, seq, stamp, done, file>>

\* handle_client: the request's entry is prepared, the handler creates the run's
\* task, then the prepared entry and the reply are written; nothing is awaited.
Handle ==
  /\ Upcoming(Loop, "request")
  /\ LET r == Head(agenda[Loop]).run
     IN  agenda' = [agenda EXCEPT ![Loop] =
           <<Note("CLIENT_TO_CORE", r, "client", 0, NoOne),
             Note("CORE_TO_CLIENT", r, "reply", 0, NoOne)>>
           \o Tail(@) \o <<Callback("start", r, "client", 0)>>]
  /\ UNCHANGED <<clock, seq, stamp, done, phase, file>>

Start ==
  /\ Upcoming(Loop, "start")
  /\ phase' = [phase EXCEPT ![Head(agenda[Loop]).run] = "running"]
  /\ agenda' = [agenda EXCEPT ![Loop] = Tail(@)]
  /\ UNCHANGED <<clock, seq, stamp, done, file>>

\* The background task publishes agent.error and run.finished itself.
Report ==
  /\ Upcoming(Loop, "report")
  /\ LET r == Head(agenda[Loop]).run
     IN  agenda' = [agenda EXCEPT ![Loop] =
           Published(r, "task", 1) \o Published(r, "task", 2) \o Tail(@)]
  /\ UNCHANGED <<clock, seq, stamp, done, phase, file>>

\* _publish_on_loop: an entry for each subscriber in whose queue there is room.
Push ==
  /\ Upcoming(Loop, "push")
  /\ LET e == Head(agenda[Loop])
     IN  \E served \in SUBSET Clients :
           agenda' = [agenda EXCEPT ![Loop] =
             SetToSeq({Note("CORE_TO_CLIENT", e.run, e.by, e.n, c) : c \in served}) \o Tail(@)]
  /\ UNCHANGED <<clock, seq, stamp, done, phase, file>>

Next ==
  \/ Tick
  \/ \E t \in Threads : TakeNumber(t) \/ TakeTime(t) \/ Write(t) \/ Notify(t)
  \/ \E t \in Workers : Publish(t) \/ Chat(t) \/ Audit(t)
  \/ \E r \in Runs : Request(r) \/ Remember(r) \/ RunRaises(r)
  \/ Handle \/ Start \/ Report \/ Push

Spec == Init /\ [][Next]_vars

-------------------------------------------------------------------------------
(* read_trace and its order.                                               *)

ReadsBefore(d, e) ==
  \/ d.stamp.ts < e.stamp.ts
  \/ d.stamp.ts = e.stamp.ts /\ d.stamp.seq < e.stamp.seq

(***************************************************************************)
(* A run's trace, read at any time, tells its story in order, although the *)
(* loop and two threads of the run write it and many entries share a       *)
(* millisecond: the request and its reply come first; each thread's events *)
(* and calls in the order it made them, an answer of the model behind its  *)
(* question; and what clients were sent behind the event it is a copy of,  *)
(* for each client in the order of the events of a thread.                 *)
(***************************************************************************)
StoryInOrder ==
  \A r \in Runs : \A e \in file[r] :
    LET earlier == {d.note : d \in {d \in file[r] : ReadsBefore(d, e)}}
        told(kind, by, n) == Note(kind, r, by, n, NoOne) \in earlier
    IN  CASE e.note.kind = "CLIENT_TO_CORE" -> earlier = {}
          [] e.note.by = "reply" ->
               earlier = {Note("CLIENT_TO_CORE", r, "client", 0, NoOne)}
          [] e.note.kind \in {"CORE", "CORE_TO_LLM", "TOOL"} ->
               /\ told("CORE_TO_CLIENT", "reply", 0)
               /\ e.note.n > 1 => \E last \in {"CORE", "LLM_TO_CORE", "TOOL"} :
                                    told(last, e.note.by, e.note.n - 1)
          [] e.note.kind = "LLM_TO_CORE" -> told("CORE_TO_LLM", e.note.by, e.note.n)
          [] OTHER ->
               /\ told("CORE", e.note.by, e.note.n)
               /\ \A d \in earlier :
                    d.kind = "CORE_TO_CLIENT" /\ d.client = e.note.client /\ d.by = e.note.by
                      => d.n < e.note.n
===============================================================================
