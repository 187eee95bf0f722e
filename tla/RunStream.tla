------------------------------- MODULE RunStream -------------------------------
(***************************************************************************)
(* `sorrow run` end to end: the CLI processes, the daemon's event loop     *)
(* (connection handlers, EventHub, background tasks) and the threads that  *)
(* execute AgentRuntime.run.                                               *)
(*                                                                         *)
(* An event travels: EventBus.publish in the run's thread, a callback of   *)
(* the loop (call_soon_threadsafe), the client's queue in the hub, the     *)
(* client's socket, the CLI.  A step of the loop is what runs between two  *)
(* awaits; a step of a run's thread is one publication or one call that    *)
(* may raise.  A client starts one run, and the run bears its name.        *)
(***************************************************************************)
EXTENDS RunEvents, FiniteSets

CONSTANTS Clients,      \* processes executing `sorrow run` once
          MaxQueue,     \* EventHub: max_queue_size
          HighWater,    \* messages in a socket above which drain() waits
          LowWater,     \* messages in it at which the waiting is over
          MaxProgress,  \* bound: events of the engine per run
          Faults,       \* what may go wrong: a subset of FaultKinds
          Troubled      \* bound: the clients to which it happens

\* quit: Ctrl-C in a CLI; session: its session is deleted; open, write: the
\* run's events.jsonl; encode: an event of the engine that is no UTF-8, which
\* neither that file nor a socket takes; persist: the memory; refresh: the
\* memory's background refresh that the run scheduled; shutdown: `sorrow shutdown`.
FaultKinds ==
  {"quit", "session", "open", "write", "encode", "persist", "refresh", "shutdown"}

ASSUME RunStreamAssumption ==
  /\ MaxQueue \in Nat \ {0}
  /\ HighWater \in Nat
  /\ LowWater \in 0 .. HighWater
  /\ MaxProgress \in Nat
  /\ Faults \subseteq FaultKinds
  /\ Troubled \subseteq Clients

Fails(c, fault) == fault \in Faults /\ c \in Troubled

VARIABLES
  pc,         \* the CLI: connecting, subscribing, starting, streaming, exited
  pending,    \* events read before the answer to agent.run and not shown yet
  seen,       \* the events of its own run that it has printed
  code,       \* its exit code
  request,    \* the request it has sent and the daemon not yet read
  wire,       \* messages on the way from the daemon to it
  waiting,    \* who has written to it and waits in drain(): answer, event
  eof,        \* the daemon has closed the connection
  handler,    \* its handle_client: none, open, closed
  hub,        \* its place in the EventHub: absent, registered, subscribed
  queue,      \* its queue in the EventHub
  lost,       \* silenced: its send task has died; history: dropped for its full queue
  ready,      \* callbacks the loop has yet to run
  daemon,     \* running, stopping (server closed), stopped (loop ended)
  run,        \* where the thread of its run stands
  progress,   \* events the engine has published
  status,     \* the runtime's status of the run
  escaped,    \* an exception is leaving AgentRuntime.run
  refreshing, \* the refresh it scheduled will fail and has not been reported
  published   \* history: the events published for the run

client == <<pc, pending, seen, code>>
socket == <<request, wire, waiting, eof>>
hubs == <<hub, queue, lost>>
runs == <<run, progress, status, escaped, refreshing, published>>
vars == <<client, socket, handler, hubs, ready, daemon, runs>>

Replies == {"subscribed", "accepted", "refused"}
Message == [run : Clients, type : EventTypes \cup Replies]
Event(r, type) == [run |-> r, type |-> type]
IsEventPush(m) == m.type \in EventTypes

\* A callback of the loop: an event to publish, a client to remove, a task to start.
Callback(do, r, type) == [do |-> do, run |-> r, type |-> type]

Init ==
  /\ pc = [c \in Clients |-> "connecting"]
  /\ pending = [c \in Clients |-> << >>]
  /\ seen = [c \in Clients |-> << >>]
  /\ code = [c \in Clients |-> StillRunning]
  /\ request = [c \in Clients |-> "none"]
  /\ wire = [c \in Clients |-> << >>]
  /\ waiting = [c \in Clients |-> {}]
  /\ eof = [c \in Clients |-> FALSE]
  /\ handler = [c \in Clients |-> "none"]
  /\ hub = [c \in Clients |-> "absent"]
  /\ queue = [c \in Clients |-> << >>]
  /\ lost = [c \in Clients |-> "no"]
  /\ ready = << >>
  /\ daemon = "running"
  /\ run = [c \in Clients |-> "none"]
  /\ progress = [c \in Clients |-> 0]
  /\ status = [c \in Clients |-> "failed"]
  /\ escaped = [c \in Clients |-> FALSE]
  /\ refreshing = [c \in Clients |-> FALSE]
  /\ published = [c \in Clients |-> << >>]

-------------------------------------------------------------------------------
(* The CLI.                                                                *)

Exit(c, x) ==
  /\ pc' = [pc EXCEPT ![c] = "exited"]
  /\ code' = [code EXCEPT ![c] = x]

\* Connect to the listening daemon, which registers the client, and subscribe
\* to every topic of every run.
Connect(c) ==
  /\ pc[c] = "connecting" /\ daemon = "running"
  /\ pc' = [pc EXCEPT ![c] = "subscribing"]
  /\ request' = [request EXCEPT ![c] = "event.subscribe"]
  /\ handler' = [handler EXCEPT ![c] = "open"]
  /\ hub' = [hub EXCEPT ![c] = "registered"]
  /\ UNCHANGED <<pending, seen, code, wire, waiting, eof, queue, lost, ready, daemon, runs>>

ConnectFails(c) ==
  /\ pc[c] = "connecting" /\ daemon # "running"
  /\ Exit(c, "error")
  /\ UNCHANGED <<pending, seen, socket, handler, hubs, ready, daemon, runs>>

Reading(c, at) == pc[c] = at /\ wire[c] # << >>

\* Whoever waits in drain() goes on when little is left on the way.
Read(c) ==
  /\ wire' = [wire EXCEPT ![c] = Tail(@)]
  /\ waiting' = IF Len(wire'[c]) <= LowWater THEN [waiting EXCEPT ![c] = {}] ELSE waiting

\* Mutant: the events of every run are taken for the own run's.
ShowAll(c, event) ==
  /\ seen' = [seen EXCEPT ![c] = Append(@, event.type)]
  /\ IF event.type \in Verdicts THEN Exit(c, ExitOf(event.type)) ELSE UNCHANGED <<pc, code>>

\* Print an event of the own run, and exit if it is the verdict.
Show(c, event) ==
  IF event.run # c THEN UNCHANGED <<pc, seen, code>>
  ELSE /\ seen' = [seen EXCEPT ![c] = Append(@, event.type)]
       /\ IF event.type \in Verdicts THEN Exit(c, ExitOf(event.type)) ELSE UNCHANGED <<pc, code>>

ReadEarlyEvent(c) ==
  /\ Reading(c, "subscribing") \/ Reading(c, "starting")
  /\ IsEventPush(Head(wire[c]))
  /\ Read(c)
  /\ pending' = [pending EXCEPT ![c] = Append(@, Head(wire[c]))]
  /\ UNCHANGED <<pc, seen, code, request, eof, handler, hubs, ready, daemon, runs>>

ReadSubscribed(c) ==
  /\ Reading(c, "subscribing") /\ Head(wire[c]).type = "subscribed"
  /\ Read(c)
  /\ pc' = [pc EXCEPT ![c] = "starting"]
  /\ request' = [request EXCEPT ![c] = "agent.run"]
  /\ UNCHANGED <<pending, seen, code, eof, handler, hubs, ready, daemon, runs>>

ReadAccepted(c) ==
  /\ Reading(c, "starting") /\ Head(wire[c]).type = "accepted"
  /\ Read(c)
  /\ pc' = [pc EXCEPT ![c] = "streaming"]
  /\ UNCHANGED <<pending, seen, code, request, eof, handler, hubs, ready, daemon, runs>>

\* What was read too early comes first: one event of the loop over pending_events.
ShowPending(c) ==
  /\ pc[c] = "streaming" /\ pending[c] # << >>
  /\ Show(c, Head(pending[c]))
  /\ pending' = [pending EXCEPT ![c] = Tail(@)]
  /\ UNCHANGED <<socket, handler, hubs, ready, daemon, runs>>

ReadRefused(c) ==
  /\ Reading(c, "subscribing") \/ Reading(c, "starting")
  /\ Head(wire[c]).type = "refused"
  /\ Read(c)
  /\ Exit(c, "error")
  /\ UNCHANGED <<pending, seen, request, eof, handler, hubs, ready, daemon, runs>>

ReadEvent(c) ==
  /\ Reading(c, "streaming") /\ pending[c] = << >> /\ IsEventPush(Head(wire[c]))
  /\ Read(c)
  /\ Show(c, Head(wire[c]))
  /\ UNCHANGED <<pending, request, eof, handler, hubs, ready, daemon, runs>>

\* The connection ends while the CLI waits for a message.
ReadEof(c) ==
  /\ \/ pc[c] \in {"subscribing", "starting"}
     \/ pc[c] = "streaming" /\ pending[c] = << >>
  /\ wire[c] = << >> /\ eof[c]
  /\ Exit(c, "error")
  /\ UNCHANGED <<pending, seen, socket, handler, hubs, ready, daemon, runs>>

Quit(c) ==
  /\ Fails(c, "quit")
  /\ pc[c] \in {"subscribing", "starting", "streaming"}
  /\ Exit(c, "interrupted")
  /\ UNCHANGED <<pending, seen, socket, handler, hubs, ready, daemon, runs>>

Cli(c) ==
  \/ ReadEarlyEvent(c) \/ ReadSubscribed(c) \/ ReadAccepted(c) \/ ShowPending(c)
  \/ ReadRefused(c) \/ ReadEvent(c) \/ ReadEof(c)

-------------------------------------------------------------------------------
(* The daemon's event loop.                                                *)

At(r, here) == run[r] = here
Goto(r, there) == run' = [run EXCEPT ![r] = there]

\* Mutant: nobody looks at how the background task ended.
RaiseUnseen(r) ==
  /\ Goto(r, "ended")
  /\ escaped' = [escaped EXCEPT ![r] = TRUE]

\* AgentRuntime.run ends with an exception, which its background task awaits.
Raise(r) ==
  /\ Goto(r, "raised")
  /\ escaped' = [escaped EXCEPT ![r] = TRUE]

\* handle_client and the client's _send_loop write to one StreamWriter; each
\* writes first and then waits in drain() for what is on the way by then, so
\* that both may write before either waits.
Writers == {"answer", "event"}
MayWrite(c, who) == who \notin waiting[c]

\* A message to a CLI that has exited goes nowhere.
Write(c, who, m) ==
  IF pc[c] = "exited" THEN UNCHANGED <<wire, waiting>>
  ELSE /\ wire' = [wire EXCEPT ![c] = Append(@, m)]
       /\ waiting' = IF Len(wire'[c]) > HighWater
                     THEN [waiting EXCEPT ![c] = @ \cup {who}] ELSE waiting

\* handle_client reads its next request when its last answer has drained.
Requested(c, method) ==
  /\ daemon # "stopped" /\ handler[c] = "open" /\ MayWrite(c, "answer")
  /\ request[c] = method

Answer(c, reply) ==
  /\ request' = [request EXCEPT ![c] = "none"]
  /\ Write(c, "answer", Event(c, reply))

\* Mutant: the client is answered, but its subscription is not kept.
SubscribeNot(c) ==
  /\ Requested(c, "event.subscribe")
  /\ Answer(c, "subscribed")
  /\ UNCHANGED <<client, eof, handler, hubs, ready, daemon, runs>>

Subscribe(c) ==
  /\ Requested(c, "event.subscribe")
  /\ IF hub[c] = "absent"
     THEN Answer(c, "refused") /\ UNCHANGED hub
     ELSE Answer(c, "subscribed") /\ hub' = [hub EXCEPT ![c] = "subscribed"]
  /\ UNCHANGED <<client, eof, handler, queue, lost, ready, daemon, runs>>

\* agent.run creates the background task and answers; the loop starts it later.
StartRun(c) ==
  /\ Requested(c, "agent.run")
  /\ Answer(c, "accepted")
  /\ run' = [run EXCEPT ![c] = "queued"]
  /\ ready' = Append(ready, Callback("start", c, "none"))
  /\ UNCHANGED <<client, eof, handler, hubs, daemon, progress, status, escaped, refreshing,
                 published>>

RefuseRun(c) ==
  /\ Fails(c, "session")
  /\ Requested(c, "agent.run")
  /\ Answer(c, "refused")
  /\ UNCHANGED <<client, eof, handler, hubs, ready, daemon, runs>>

\* Mutant: a client that leaves is noticed only by an answer to it.
DisconnectedLate(c) ==
  /\ daemon # "stopped" /\ handler[c] = "open" /\ pc[c] = "exited"
  /\ "answer" \in waiting[c]
  /\ handler' = [handler EXCEPT ![c] = "closed"]
  /\ eof' = [eof EXCEPT ![c] = TRUE]
  /\ ready' = Append(ready, Callback("remove", c, "none"))
  /\ UNCHANGED <<client, request, wire, waiting, hubs, daemon, runs>>

\* The CLI has closed its socket.  handle_client sees it when it reads, or when
\* an answer of its cannot be drained; it ends and has the client removed.
Disconnected(c) ==
  /\ daemon # "stopped" /\ handler[c] = "open" /\ pc[c] = "exited"
  /\ request[c] = "none" \/ "answer" \in waiting[c]
  /\ handler' = [handler EXCEPT ![c] = "closed"]
  /\ eof' = [eof EXCEPT ![c] = TRUE]
  /\ ready' = Append(ready, Callback("remove", c, "none"))
  /\ UNCHANGED <<client, request, wire, waiting, hubs, daemon, runs>>

\* _send_loop: the head of the queue is next when the last event has drained.
SendsNext(c) ==
  /\ daemon # "stopped" /\ hub[c] # "absent" /\ lost[c] # "silenced"
  /\ queue[c] # << >> /\ MayWrite(c, "event")
  /\ queue' = [queue EXCEPT ![c] = Tail(@)]

Send(c) ==
  /\ SendsNext(c) /\ Head(queue[c]).type # Garbled
  /\ Write(c, "event", Head(queue[c]))
  /\ UNCHANGED <<client, request, eof, handler, hub, lost, ready, daemon, runs>>

\* encode_message raises what nobody catches: the task ends, and the client
\* stays in the hub with a queue that nobody empties.
SendDies(c) ==
  /\ SendsNext(c) /\ Head(queue[c]).type = Garbled
  /\ lost' = [lost EXCEPT ![c] = "silenced"]
  /\ UNCHANGED <<client, socket, handler, hub, ready, daemon, runs>>

\* Writing or draining raises once the connection is lost.
SendFails(c) ==
  /\ daemon # "stopped" /\ hub[c] # "absent" /\ lost[c] # "silenced" /\ pc[c] = "exited"
  /\ queue[c] # << >> \/ "event" \in waiting[c]
  /\ hub' = [hub EXCEPT ![c] = "absent"]
  /\ queue' = [queue EXCEPT ![c] = << >>]
  /\ UNCHANGED <<client, socket, handler, lost, ready, daemon, runs>>

NextCallback(do) == daemon # "stopped" /\ ready # << >> /\ Head(ready).do = do

\* Mutant: one event more than the queue holds.
FullBeyond(c) == Len(queue[c]) > MaxQueue

Full(c) == Len(queue[c]) >= MaxQueue

\* Mutant: an event that finds the queue full is dropped, the client stays.
PublishOrDrop ==
  /\ NextCallback("publish")
  /\ ready' = Tail(ready)
  /\ LET event == Event(Head(ready).run, Head(ready).type)
     IN queue' = [c \in Clients |->
                    IF hub[c] # "subscribed" \/ Full(c) THEN queue[c]
                    ELSE Append(queue[c], event)]
  /\ UNCHANGED <<client, socket, handler, hub, lost, daemon, runs>>

\* _publish_on_loop: every subscribed client gets the event; one whose queue
\* is full is removed from the hub, and its queue with it.
PublishOnLoop ==
  /\ NextCallback("publish")
  /\ ready' = Tail(ready)
  /\ LET event == Event(Head(ready).run, Head(ready).type)
     IN queue' = [c \in Clients |->
                    IF hub[c] # "subscribed" THEN queue[c]
                    ELSE IF Full(c) THEN << >> ELSE Append(queue[c], event)]
  /\ LET drops(c) == hub[c] = "subscribed" /\ Full(c)
     IN /\ hub' = [c \in Clients |-> IF drops(c) THEN "absent" ELSE hub[c]]
        /\ lost' = [c \in Clients |-> IF drops(c) THEN "dropped" ELSE lost[c]]
  /\ UNCHANGED <<client, socket, handler, daemon, runs>>

RemoveOnLoop ==
  /\ NextCallback("remove")
  /\ ready' = Tail(ready)
  /\ hub' = [hub EXCEPT ![Head(ready).run] = "absent"]
  /\ queue' = [queue EXCEPT ![Head(ready).run] = << >>]
  /\ UNCHANGED <<client, socket, handler, lost, daemon, runs>>

\* The background task hands AgentRuntime.run to a thread, which prepares: the
\* run's context or its events.jsonl may raise past every handler of run().
StartOnLoop ==
  /\ NextCallback("start")
  /\ ready' = Tail(ready)
  /\ LET r == Head(ready).run
     IN \/ Goto(r, "starting") /\ UNCHANGED escaped
        \/ (Fails(r, "session") \/ Fails(r, "open")) /\ Raise(r)
  /\ UNCHANGED <<client, socket, handler, hubs, daemon, progress, status, refreshing, published>>

\* The background task catches what run() raised and reports it on the bus.
Report(r) ==
  /\ run[r] = "raised" /\ daemon # "stopped"
  /\ run' = [run EXCEPT ![r] = "ended"]
  /\ published' = [published EXCEPT ![r] = @ \o <<"agent.error", "failed">>]
  /\ ready' = ready \o <<Callback("publish", r, "agent.error"), Callback("publish", r, "failed")>>
  /\ UNCHANGED <<client, socket, handler, hubs, daemon, progress, status, escaped, refreshing>>

Shutdown ==
  /\ "shutdown" \in Faults /\ daemon = "running"
  /\ daemon' = "stopping"
  /\ UNCHANGED <<client, socket, handler, hubs, ready, runs>>

\* The loop ends: every task is cancelled and every connection closed, with
\* any part of what was written still to arrive.  server.wait_closed() waits
\* for the open connections in some versions of Python and not in others.
Stop ==
  /\ daemon = "stopping"
  /\ daemon' = "stopped"
  /\ handler' = [c \in Clients |-> IF handler[c] = "open" THEN "closed" ELSE handler[c]]
  /\ eof' = [c \in Clients |-> handler[c] # "none"]
  /\ \E kept \in [Clients -> 0 .. HighWater + 2] :
       /\ \A c \in Clients : kept[c] <= Len(wire[c])
       /\ wire' = [c \in Clients |-> SubSeq(wire[c], 1, kept[c])]
  /\ hub' = [c \in Clients |-> "absent"]
  /\ queue' = [c \in Clients |-> << >>]
  /\ ready' = << >>
  /\ run' = [c \in Clients |-> IF run[c] = "queued" THEN "ended" ELSE run[c]]
  /\ UNCHANGED <<client, request, waiting, lost, progress, status, escaped, refreshing, published>>

Loop == PublishOnLoop \/ RemoveOnLoop \/ StartOnLoop
Connection(c) == Subscribe(c) \/ StartRun(c) \/ RefuseRun(c) \/ Disconnected(c)

-------------------------------------------------------------------------------
(* AgentRuntime.run in the run's thread.                                   *)

ThreadOnly == UNCHANGED <<client, socket, handler, hubs, daemon, refreshing>>

\* EventBus.publish: the hub comes first and always takes the event; the
\* run's EventWriter comes after it and may raise into the caller.
Publish(r, type) ==
  /\ published' = [published EXCEPT ![r] = Append(@, type)]
  /\ ready' = IF daemon = "stopped" THEN ready ELSE Append(ready, Callback("publish", r, type))
WriterRaises(r) == IF Fails(r, "write") THEN BOOLEAN ELSE {FALSE}

\* A publication of the engine; one that is no UTF-8 raises in the EventWriter.
Emit(r, type) ==
  /\ Publish(r, type)
  /\ \E raises \in IF type = Garbled THEN {TRUE} ELSE WriterRaises(r) :
       Goto(r, IF raises THEN "erring" ELSE "engine")

\* run.started is published outside the inner try: nothing but the daemon
\* reports a failure here.
PublishStarted(r) ==
  /\ At(r, "starting")
  /\ Publish(r, "run.started")
  /\ \E raises \in WriterRaises(r) :
       IF raises THEN Raise(r) ELSE Goto(r, "engine") /\ UNCHANGED escaped
  /\ ThreadOnly /\ UNCHANGED <<progress, status>>

EngineEmits(r) ==
  /\ At(r, "engine") /\ progress[r] < MaxProgress
  /\ Emit(r, "agent.progress") \/ (Fails(r, "encode") /\ Emit(r, Garbled))
  /\ progress' = [progress EXCEPT ![r] = @ + 1]
  /\ ThreadOnly /\ UNCHANGED <<status, escaped>>

\* The engine returns, and _remember_success reports a memory failure as an
\* event and goes on to the answer.
MemoryFails(r) ==
  /\ At(r, "engine") /\ Fails(r, "persist")
  /\ status' = [status EXCEPT ![r] = "finished"]
  /\ Publish(r, "agent.memory.failed")
  /\ \E raises \in WriterRaises(r) : Goto(r, IF raises THEN "erring" ELSE "answering")
  /\ ThreadOnly /\ UNCHANGED <<progress, escaped>>

\* The engine returns, the memory takes the record, and the refresh that
\* _remember_success schedules in a thread of its own is going to fail.
RefreshScheduled(r) ==
  /\ At(r, "engine") /\ Fails(r, "refresh")
  /\ status' = [status EXCEPT ![r] = "finished"]
  /\ refreshing' = [refreshing EXCEPT ![r] = TRUE]
  /\ Goto(r, "answering")
  /\ UNCHANGED <<client, socket, handler, hubs, ready, daemon, progress, escaped, published>>

\* report_refresh_failure, in the refresh thread and at any time, even when the
\* run is over: what its EventWriter raises stays in that thread.
ReportRefresh(r) ==
  /\ refreshing[r]
  /\ refreshing' = [refreshing EXCEPT ![r] = FALSE]
  /\ Publish(r, "agent.memory.failed")
  /\ UNCHANGED <<client, socket, handler, hubs, daemon, run, progress, status, escaped>>

\* The engine returns and the memory takes the record, or its failure was reported.
PublishAnswer(r) ==
  /\ At(r, "engine") \/ At(r, "answering")
  /\ status' = [status EXCEPT ![r] = "finished"]
  /\ Publish(r, "agent.answer")
  /\ \E raises \in WriterRaises(r) : Goto(r, IF raises THEN "erring" ELSE "finishing")
  /\ ThreadOnly /\ UNCHANGED <<progress, escaped>>

\* The engine raises, or a publication did.
PublishError(r) ==
  /\ At(r, "engine") \/ At(r, "erring")
  /\ Publish(r, "agent.error")
  /\ Goto(r, "finishing")
  /\ \E raises \in WriterRaises(r) : escaped' = [escaped EXCEPT ![r] = raises]
  /\ ThreadOnly /\ UNCHANGED <<progress, status>>

\* Mutant: the background task is told of every run that failed.
FinishRaising(r) ==
  /\ At(r, "finishing")
  /\ Publish(r, status[r])
  /\ Goto(r, IF status[r] = "failed" THEN "raised" ELSE "ended")
  /\ ThreadOnly /\ UNCHANGED <<progress, status, escaped>>

\* The finally clauses: the verdict is the status, whatever was raised since;
\* the log is closed, the handlers unsubscribed, the worker pool shut down.
Finish(r) ==
  /\ At(r, "finishing")
  /\ Publish(r, status[r])
  /\ \E raises \in WriterRaises(r) :
       IF raises \/ escaped[r] THEN Raise(r) ELSE Goto(r, "ended") /\ UNCHANGED escaped
  /\ ThreadOnly /\ UNCHANGED <<progress, status>>

Runtime(r) ==
  \/ PublishStarted(r) \/ EngineEmits(r) \/ MemoryFails(r) \/ RefreshScheduled(r)
  \/ PublishAnswer(r) \/ PublishError(r) \/ Finish(r)

-------------------------------------------------------------------------------
Next ==
  \/ \E c \in Clients : \/ Connect(c) \/ ConnectFails(c) \/ Quit(c) \/ Cli(c)
                        \/ Connection(c) \/ Send(c) \/ SendDies(c) \/ SendFails(c)
  \/ Loop \/ Shutdown \/ Stop
  \/ \E r \in Clients : Runtime(r) \/ ReportRefresh(r) \/ Report(r)

Spec == Init /\ [][Next]_vars

\* Threads, coroutines and callbacks keep running, the engine returns or raises
\* in the end, and a CLI keeps reading.  Nobody has to connect, quit or shut
\* the daemon down.
Fairness ==
  /\ \A c \in Clients : /\ WF_vars(Cli(c)) /\ WF_vars(Connection(c))
                        /\ WF_vars(Send(c) \/ SendDies(c))
                        /\ WF_vars(Runtime(c)) /\ WF_vars(Report(c))
  /\ WF_vars(Loop)
  /\ WF_vars(Stop /\ \A c \in Clients : handler[c] # "open")

FairSpec == Spec /\ Fairness

-------------------------------------------------------------------------------
\* What lies beyond the mark was written by somebody who waits for it.
Beyond(c) ==
  (IF "answer" \in waiting[c] THEN 1 ELSE 0) + (IF "event" \in waiting[c] THEN 1 ELSE 0)

WireBounded == \A c \in Clients : Len(wire[c]) <= HighWater + Beyond(c)

TypeOK ==
  /\ pc \in [Clients -> {"connecting", "subscribing", "starting", "streaming", "exited"}]
  /\ pending \in [Clients -> Seq([run : Clients, type : EventTypes])]
  /\ seen \in [Clients -> Seq(EventTypes)]
  /\ code \in [Clients -> ExitCodes \cup {StillRunning}]
  /\ request \in [Clients -> {"none", "event.subscribe", "agent.run"}]
  /\ wire \in [Clients -> Seq(Message)]
  /\ waiting \in [Clients -> SUBSET Writers]
  /\ eof \in [Clients -> BOOLEAN]
  /\ handler \in [Clients -> {"none", "open", "closed"}]
  /\ hub \in [Clients -> {"absent", "registered", "subscribed"}]
  /\ queue \in [Clients -> Seq([run : Clients, type : EventTypes])]
  /\ lost \in [Clients -> {"no", "silenced", "dropped"}]
  /\ ready \in Seq([do : {"start", "publish", "remove"}, run : Clients, type : EventTypes \cup {"none"}])
  /\ daemon \in {"running", "stopping", "stopped"}
  /\ run \in [Clients -> {"none", "queued", "starting", "engine", "answering", "erring",
                          "finishing", "raised", "ended"}]
  /\ progress \in [Clients -> 0 .. MaxProgress]
  /\ status \in [Clients -> Verdicts]
  /\ escaped \in [Clients -> BOOLEAN]
  /\ refreshing \in [Clients -> BOOLEAN]
  /\ published \in [Clients -> Seq(EventTypes)]
  /\ \A c \in Clients : Len(queue[c]) <= MaxQueue
  /\ WireBounded

\* A CLI shows its run's events from the first one on, in order and without a
\* gap, whoever else runs, leaves or is too slow, and exits with the verdict.
Stream == INSTANCE EventStream
ShowsTheStream == Stream!Spec

\* Exit code 0 means that the engine returned an answer for this very run.
SuccessIsTrue == \A c \in Clients : code[c] = "ok" => status[c] = "finished"

\* A run that is over was given a verdict, however it ended, unless the daemon
\* was stopped meanwhile: no CLI waits for a run that does not exist any more.
EveryRunConcludes ==
  \A r \in Clients : run[r] = "ended" /\ daemon # "stopped" => VerdictsIn(published[r]) # {}

\* A run gets one verdict; a second one, a failure, only if publishing the
\* first part of its end raised and the background task had to report it.
OneVerdict ==
  \A r \in Clients :
    Cardinality(VerdictsIn(published[r])) <= (IF escaped[r] THEN 2 ELSE 1)

\* A CLI that is connected comes to an end, unless the hub dropped it for a full
\* queue or its send task died of an event that cannot be encoded; and once the
\* daemon has stopped, every CLI learns of it and ends, those included.
EndsUnlessLost ==
  \A c \in Clients :
    LET connected == pc[c] \in {"subscribing", "starting", "streaming"}
    IN /\ connected ~> (pc[c] = "exited" \/ lost[c] # "no")
       /\ (connected /\ daemon = "stopped") ~> pc[c] = "exited"

\* A daemon that was asked to shut down ends although CLIs are connected, even
\* where server.wait_closed() waits for them: each leaves at its verdict or at a
\* refusal - except one that the hub lost, which keeps its connection open forever.
StopsUnlessLost ==
  daemon = "stopping" ~>
    daemon = "stopped" \/ \E c \in Clients : pc[c] = "streaming" /\ lost[c] # "no"
===============================================================================
