---------------------------- MODULE RunStreamProofs ----------------------------
(***************************************************************************)
(* Safety of RunStream for any number of clients and runs, any queue and   *)
(* buffer sizes and any faults: its types, its verdicts, and that what a   *)
(* CLI shows is the stream of its run.                                     *)
(***************************************************************************)
EXTENDS RunStream, SequenceTheorems, FiniteSetTheorems, TLAPS

-------------------------------------------------------------------------------
(* Types.                                                                  *)

EventsOf == [run : Clients, type : EventTypes]
Callbacks == [do : {"start", "publish", "remove"}, run : Clients, type : EventTypes \cup {"none"}]

\* An event is a callback that publishes, and no other callback carries one.
CallbackHasEvent(callback) == callback.do = "publish" <=> callback.type \in EventTypes

TypesInv ==
  /\ TypeOK
  /\ \A i \in 1..Len(ready) : CallbackHasEvent(ready[i])

LEMMA Front ==
  ASSUME NEW S, NEW s \in Seq(S), NEW k \in Nat, k <= Len(s)
  PROVE  /\ SubSeq(s, 1, k) \in Seq(S) /\ Len(SubSeq(s, 1, k)) = k
         /\ \A i \in 1..k : SubSeq(s, 1, k)[i] = s[i]
OBVIOUS

LEMMA Popped ==
  ASSUME NEW S, NEW s \in Seq(S), s # << >>
  PROVE  /\ Len(s) \in Nat /\ Len(s) > 0 /\ Head(s) = s[1] /\ Head(s) \in S
         /\ Tail(s) \in Seq(S) /\ Len(Tail(s)) = Len(s) - 1
         /\ \A i \in 1..Len(Tail(s)) : Tail(s)[i] = s[i + 1] /\ i + 1 \in 1..Len(s)
BY HeadTailProperties

LEMMA Appended ==
  ASSUME NEW S, NEW s \in Seq(S), NEW x \in S
  PROVE  /\ Len(s) \in Nat /\ Append(s, x) \in Seq(S) /\ Len(Append(s, x)) = Len(s) + 1
         /\ Append(s, x)[Len(s) + 1] = x
         /\ \A i \in 1..Len(s) : Append(s, x)[i] = s[i]
OBVIOUS

LEMMA TypesInit == Init => TypesInv
BY RunStreamAssumption
   DEF WireBounded, Beyond, Init, TypesInv, TypeOK, Verdicts, EventTypes, Garbled, ExitCodes, StillRunning

(***************************************************************************)
(* What reading a message, showing one, writing one and publishing one do  *)
(* to the state, in terms of the sequences.                                *)
(***************************************************************************)
LEMMA ReadEffect ==
  ASSUME wire \in [Clients -> Seq(Message)], NEW c \in Clients, wire[c] # << >>, Read(c)
  PROVE  /\ wire' \in [Clients -> Seq(Message)] /\ Head(wire[c]) \in Message
         /\ wire'[c] = Tail(wire[c]) /\ Len(wire'[c]) = Len(wire[c]) - 1
         /\ \A d \in Clients : d # c => wire'[d] = wire[d]
         /\ \A d \in Clients : Len(wire'[d]) \in Nat /\ Len(wire'[d]) <= Len(wire[d])
<1>1. /\ Tail(wire[c]) \in Seq(Message) /\ Head(wire[c]) \in Message
      /\ Len(Tail(wire[c])) = Len(wire[c]) - 1
  BY Popped
<1>2. /\ wire' \in [Clients -> Seq(Message)] /\ wire'[c] = Tail(wire[c])
      /\ \A d \in Clients : d # c => wire'[d] = wire[d]
  BY <1>1 DEF Read
<1>3. Len(wire'[c]) <= Len(wire[c])
  BY <1>1, <1>2
<1>4. ASSUME NEW d \in Clients
      PROVE  Len(wire'[d]) \in Nat /\ Len(wire'[d]) <= Len(wire[d])
  <2>1. wire[d] \in Seq(Message) /\ wire'[d] \in Seq(Message)
    BY <1>2
  <2>2. Len(wire[d]) \in Nat /\ Len(wire'[d]) \in Nat
    BY <2>1
  <2>3. CASE d = c
    BY <1>3, <2>2, <2>3
  <2>4. CASE d # c
    <3>1. Len(wire'[d]) = Len(wire[d])
      BY <1>2, <2>4
    <3> QED
      BY <2>2, <3>1
  <2> QED
    BY <2>3, <2>4
<1> QED
  BY <1>1, <1>2, <1>4

\* The socket's part of the type invariant.
WireOK ==
  /\ wire \in [Clients -> Seq(Message)] /\ waiting \in [Clients -> SUBSET Writers]
  /\ WireBounded

LEMMA BoundKept == ASSUME WireBounded, UNCHANGED <<wire, waiting>>  PROVE WireBounded'
BY DEF WireBounded, Beyond

\* Reading leaves as many writers waiting, or so little that none has to.
LEMMA WireRead ==
  ASSUME WireOK, NEW c \in Clients, wire[c] # << >>, Read(c)
  PROVE  WireOK'
<1>1. /\ wire' \in [Clients -> Seq(Message)] /\ Len(wire'[c]) = Len(wire[c]) - 1
      /\ \A d \in Clients : d # c => wire'[d] = wire[d]
      /\ \A d \in Clients : Len(wire'[d]) \in Nat /\ Len(wire'[d]) <= Len(wire[d])
  BY ReadEffect DEF WireOK
<1>2. /\ waiting' \in [Clients -> SUBSET Writers]
      /\ \A d \in Clients : d # c => waiting'[d] = waiting[d]
      /\ IF Len(wire'[c]) <= LowWater THEN waiting'[c] = {} ELSE waiting'[c] = waiting[c]
  BY DEF Read, WireOK
<1>3. ASSUME NEW d \in Clients  PROVE Len(wire'[d]) <= HighWater + Beyond(d)'
  <2>1. /\ Len(wire[d]) <= HighWater + Beyond(d) /\ Len(wire[d]) \in Nat
        /\ Len(wire'[d]) \in Nat /\ Len(wire'[d]) <= Len(wire[d])
    BY <1>1 DEF WireOK, WireBounded
  <2>2. CASE waiting'[d] = waiting[d]
    BY <2>1, <2>2, RunStreamAssumption DEF Beyond
  <2>3. CASE d = c /\ Len(wire'[c]) <= LowWater
    BY <2>1, <2>3, RunStreamAssumption DEF Beyond
  <2> QED
    BY <1>2, <2>2, <2>3
<1> QED
  BY <1>1, <1>2, <1>3 DEF WireOK, WireBounded

LEMMA ShowEffect ==
  ASSUME pc \in [Clients -> {"connecting", "subscribing", "starting", "streaming", "exited"}],
         seen \in [Clients -> Seq(EventTypes)],
         code \in [Clients -> ExitCodes \cup {StillRunning}],
         NEW c \in Clients, NEW event \in EventsOf, Show(c, event)
  PROVE  /\ pc' \in [Clients -> {"connecting", "subscribing", "starting", "streaming", "exited"}]
         /\ seen' \in [Clients -> Seq(EventTypes)]
         /\ code' \in [Clients -> ExitCodes \cup {StillRunning}]
         /\ \A d \in Clients : d # c =>
              pc'[d] = pc[d] /\ seen'[d] = seen[d] /\ code'[d] = code[d]
<1>1. event.type \in EventTypes
  BY DEF EventsOf
<1>2. ExitOf(event.type) \in ExitCodes
  BY DEF ExitOf, ExitCodes
<1>3. Append(seen[c], event.type) \in Seq(EventTypes)
  BY <1>1
<1>4. CASE event.run # c
  BY <1>4 DEF Show
<1>5. CASE event.run = c
  <2>1. seen' = [seen EXCEPT ![c] = Append(seen[c], event.type)]
    BY <1>5 DEF Show
  <2>2. CASE event.type \in Verdicts
    <3>1. pc' = [pc EXCEPT ![c] = "exited"] /\ code' = [code EXCEPT ![c] = ExitOf(event.type)]
      BY <1>5, <2>2 DEF Show, Exit
    <3> QED
      BY <1>2, <1>3, <2>1, <3>1
  <2>3. CASE event.type \notin Verdicts
    BY <1>3, <1>5, <2>1, <2>3 DEF Show
  <2> QED
    BY <2>2, <2>3
<1> QED
  BY <1>4, <1>5

LEMMA CliTypes ==
  ASSUME TypesInv, NEW c \in Clients, Cli(c) \/ Quit(c) \/ ConnectFails(c) \/ Connect(c)
  PROVE  TypesInv'
<1> USE BoundKept DEF TypesInv, client, socket, hubs, runs, WireOK
<1>1. CASE Connect(c)
  BY <1>1 DEF Connect, TypeOK
<1>2. CASE ConnectFails(c)
  BY <1>2 DEF ConnectFails, Exit, ExitCodes, TypeOK
<1>3. CASE Quit(c)
  BY <1>3 DEF Quit, Exit, ExitCodes, TypeOK
<1>4. CASE ReadEarlyEvent(c)
  <2>1. wire \in [Clients -> Seq(Message)] /\ wire[c] # << >> /\ Read(c)
    BY <1>4 DEF ReadEarlyEvent, Reading, TypeOK
  <2> DEFINE event == Head(wire[c])
  <2>2. event \in EventsOf
    BY <1>4, <2>1, ReadEffect DEF ReadEarlyEvent, IsEventPush, Message, EventsOf
  <2> HIDE DEF event
  <2>3. pending' = [pending EXCEPT ![c] = Append(@, event)]
    BY <1>4 DEF ReadEarlyEvent, event
  <2>4. pending[c] \in Seq(EventsOf) /\ pending \in [Clients -> Seq(EventsOf)]
    BY DEF TypeOK, EventsOf
  <2>5. Append(pending[c], event) \in Seq(EventsOf)
    BY <2>2, <2>4
  <2>6. pending' \in [Clients -> Seq(EventsOf)]
    BY <2>3, <2>4, <2>5
  <2>7. WireOK'
    BY <2>1, WireRead DEF TypeOK, WireOK
  <2> QED
    BY <1>4, <2>6, <2>7 DEF ReadEarlyEvent, TypeOK, EventsOf
<1>5. CASE ReadSubscribed(c)
  <2>1. wire \in [Clients -> Seq(Message)] /\ wire[c] # << >> /\ Read(c)
    BY <1>5 DEF ReadSubscribed, Reading, TypeOK
  <2>2. WireOK'
    BY <2>1, WireRead DEF TypeOK, WireOK
  <2> QED
    BY <1>5, <2>2 DEF ReadSubscribed, TypeOK
<1>6. CASE ReadAccepted(c)
  <2>1. wire \in [Clients -> Seq(Message)] /\ wire[c] # << >> /\ Read(c)
    BY <1>6 DEF ReadAccepted, Reading, TypeOK
  <2>2. WireOK'
    BY <2>1, WireRead DEF TypeOK, WireOK
  <2> QED
    BY <1>6, <2>2 DEF ReadAccepted, TypeOK
<1>7. CASE ShowPending(c)
  <2>1. pending[c] \in Seq(EventsOf) /\ pending[c] # << >>
    BY <1>7 DEF ShowPending, TypeOK, EventsOf
  <2>2. Head(pending[c]) \in EventsOf /\ Tail(pending[c]) \in Seq(EventsOf)
    BY <2>1
  <2>3. pending' \in [Clients -> Seq(EventsOf)]
    BY <1>7, <2>2 DEF ShowPending, TypeOK, EventsOf
  <2> QED
    BY <1>7, <2>2, <2>3, ShowEffect DEF ShowPending, TypeOK, EventsOf
<1>8. CASE ReadRefused(c)
  <2>1. wire \in [Clients -> Seq(Message)] /\ wire[c] # << >> /\ Read(c)
    BY <1>8 DEF ReadRefused, Reading, TypeOK
  <2>2. WireOK'
    BY <2>1, WireRead DEF TypeOK, WireOK
  <2> QED
    BY <1>8, <2>2 DEF ReadRefused, Exit, ExitCodes, TypeOK
<1>9. CASE ReadEvent(c)
  <2>1. wire \in [Clients -> Seq(Message)] /\ wire[c] # << >> /\ Read(c)
    BY <1>9 DEF ReadEvent, Reading, TypeOK
  <2>2. Head(wire[c]) \in EventsOf
    BY <1>9, <2>1, ReadEffect DEF ReadEvent, IsEventPush, Message, EventsOf
  <2>3. WireOK'
    BY <2>1, WireRead DEF TypeOK, WireOK
  <2> QED
    BY <1>9, <2>2, <2>3, ShowEffect DEF ReadEvent, TypeOK
<1>10. CASE ReadEof(c)
  BY <1>10 DEF ReadEof, Exit, ExitCodes, TypeOK
<1> QED
  BY <1>1, <1>2, <1>3, <1>4, <1>5, <1>6, <1>7, <1>8, <1>9, <1>10 DEF Cli

LEMMA WriteEffect ==
  ASSUME TypeOK, NEW c \in Clients, NEW who \in Writers, NEW m \in Message,
         MayWrite(c, who), Write(c, who, m)
  PROVE  /\ WireOK'
         /\ wire'[c] = IF pc[c] = "exited" THEN wire[c] ELSE Append(wire[c], m)
         /\ \A d \in Clients : d # c => wire'[d] = wire[d]
<1>1. wire[c] \in Seq(Message) /\ WireOK
  BY DEF TypeOK, WireOK
<1>2. Append(wire[c], m) \in Seq(Message) /\ Len(Append(wire[c], m)) = Len(wire[c]) + 1
      /\ Len(wire[c]) \in Nat
  BY <1>1, Appended
<1>3. CASE pc[c] = "exited"
  BY <1>1, <1>3, BoundKept DEF Write, WireOK
<1>4. CASE pc[c] # "exited"
  <2>1. /\ wire' = [wire EXCEPT ![c] = Append(wire[c], m)]
        /\ waiting' = IF Len(wire'[c]) > HighWater
                      THEN [waiting EXCEPT ![c] = waiting[c] \cup {who}] ELSE waiting
    BY <1>4 DEF Write
  <2>2. /\ wire' \in [Clients -> Seq(Message)] /\ wire'[c] = Append(wire[c], m)
        /\ \A d \in Clients : d # c => wire'[d] = wire[d]
    BY <1>1, <1>2, <2>1 DEF WireOK
  <2>3. /\ waiting' \in [Clients -> SUBSET Writers]
        /\ \A d \in Clients : d # c => waiting'[d] = waiting[d]
        /\ IF Len(wire'[c]) > HighWater THEN waiting'[c] = waiting[c] \cup {who}
                                        ELSE waiting'[c] = waiting[c]
    BY <1>1, <2>1 DEF WireOK
  <2>4. Len(wire[c]) <= HighWater + Beyond(c)
    BY <1>1 DEF WireOK, WireBounded
  <2>5. Len(wire'[c]) <= HighWater + Beyond(c)'
    <3>1. CASE Len(wire'[c]) > HighWater
      <4>1. waiting'[c] = waiting[c] \cup {who} /\ who \notin waiting[c]
        BY <2>3, <3>1 DEF MayWrite
      <4>2. Beyond(c)' = Beyond(c) + 1
        BY <4>1 DEF Beyond, Writers
      <4>3. Beyond(c) \in Nat
        BY DEF Beyond
      <4> QED
        BY <1>2, <2>2, <2>4, <4>2, <4>3, RunStreamAssumption
    <3>2. CASE ~(Len(wire'[c]) > HighWater)
      BY <1>2, <2>2, <3>2, RunStreamAssumption DEF Beyond
    <3> QED
      BY <3>1, <3>2
  <2>6. ASSUME NEW d \in Clients, d # c  PROVE Len(wire'[d]) <= HighWater + Beyond(d)'
    BY <1>1, <2>2, <2>3, <2>6 DEF WireOK, WireBounded, Beyond
  <2> QED
    BY <1>4, <2>2, <2>3, <2>5, <2>6 DEF WireOK, WireBounded
<1> QED
  BY <1>3, <1>4

LEMMA ReadyAppended ==
  ASSUME TypesInv, NEW callback \in Callbacks, CallbackHasEvent(callback),
         ready' = Append(ready, callback)
  PROVE  ready' \in Seq(Callbacks) /\ \A i \in 1..Len(ready') : CallbackHasEvent(ready'[i])
<1>1. ready \in Seq(Callbacks) /\ \A i \in 1..Len(ready) : CallbackHasEvent(ready[i])
  BY DEF TypesInv, TypeOK, Callbacks
<1> HIDE DEF CallbackHasEvent, Callbacks
<1>2. ready' \in Seq(Callbacks) /\ Len(ready') = Len(ready) + 1 /\ Len(ready) \in Nat
      /\ ready'[Len(ready) + 1] = callback /\ \A i \in 1..Len(ready) : ready'[i] = ready[i]
  BY <1>1, Appended
<1>3. ASSUME NEW i \in 1..Len(ready')  PROVE CallbackHasEvent(ready'[i])
  <2>1. CASE i = Len(ready) + 1
    BY <1>2, <2>1
  <2>2. CASE i # Len(ready) + 1
    <3>1. i \in 1..Len(ready)
      BY <1>2, <2>2
    <3> QED
      BY <1>1, <1>2, <3>1
  <2> QED
    BY <2>1, <2>2
<1> QED
  BY <1>2, <1>3

LEMMA ReadyPopped ==
  ASSUME TypesInv, ready # << >>, ready' = Tail(ready)
  PROVE  /\ ready' \in Seq(Callbacks) /\ \A i \in 1..Len(ready') : CallbackHasEvent(ready'[i])
         /\ Head(ready) \in Callbacks /\ CallbackHasEvent(Head(ready))
<1>1. ready \in Seq(Callbacks) /\ \A i \in 1..Len(ready) : CallbackHasEvent(ready[i])
  BY DEF TypesInv, TypeOK, Callbacks
<1>2. /\ Len(ready) \in Nat /\ Len(ready) > 0 /\ Head(ready) = ready[1] /\ Head(ready) \in Callbacks
      /\ ready' \in Seq(Callbacks) /\ Len(ready') = Len(ready) - 1
      /\ \A i \in 1..Len(ready') : ready'[i] = ready[i + 1] /\ i + 1 \in 1..Len(ready)
  BY <1>1, Popped
<1>3. 1 \in 1..Len(ready)
  BY <1>2
<1>4. ASSUME NEW i \in 1..Len(ready')  PROVE CallbackHasEvent(ready'[i])
  BY <1>1, <1>2, <1>4
<1> QED
  BY <1>1, <1>2, <1>3, <1>4

LEMMA QueueEmptied ==
  ASSUME TypeOK, NEW c \in Clients, queue' = [queue EXCEPT ![c] = << >>]
  PROVE  queue' \in [Clients -> Seq(EventsOf)] /\ \A d \in Clients : Len(queue'[d]) <= MaxQueue
<1>1. queue \in [Clients -> Seq(EventsOf)] /\ \A d \in Clients : Len(queue[d]) <= MaxQueue
  BY DEF TypeOK, EventsOf
<1>2. << >> \in Seq(EventsOf) /\ Len(<< >>) <= MaxQueue
  BY RunStreamAssumption
<1> QED
  BY <1>1, <1>2

LEMMA QueueShortened ==
  ASSUME TypeOK, NEW c \in Clients, queue[c] # << >>, queue' = [queue EXCEPT ![c] = Tail(@)]
  PROVE  /\ queue' \in [Clients -> Seq(EventsOf)] /\ \A d \in Clients : Len(queue'[d]) <= MaxQueue
         /\ Head(queue[c]) \in EventsOf
<1>1. queue[c] \in Seq(EventsOf) /\ queue \in [Clients -> Seq(EventsOf)]
  BY DEF TypeOK, EventsOf
<1>2. Head(queue[c]) \in EventsOf /\ Tail(queue[c]) \in Seq(EventsOf)
      /\ Len(Tail(queue[c])) <= Len(queue[c])
  BY <1>1, Popped
<1>3. queue' = [queue EXCEPT ![c] = Tail(queue[c])]
  OBVIOUS
<1>4. queue' \in [Clients -> Seq(EventsOf)]
  BY <1>1, <1>2, <1>3
<1>5. ASSUME NEW d \in Clients  PROVE Len(queue'[d]) <= MaxQueue
  <2>1. Len(queue[d]) <= MaxQueue /\ Len(queue[d]) \in Nat /\ Len(queue[c]) <= MaxQueue
    BY <1>1 DEF TypeOK
  <2>2. CASE d = c
    BY <1>1, <1>2, <1>3, <2>1, <2>2, RunStreamAssumption, LenProperties
  <2>3. CASE d # c
    BY <1>1, <1>3, <2>1, <2>3
  <2> QED
    BY <2>2, <2>3
<1> QED
  BY <1>2, <1>4, <1>5

LEMMA ConnectionTypes ==
  ASSUME TypesInv, NEW c \in Clients, Connection(c) \/ Send(c) \/ SendDies(c) \/ SendFails(c)
  PROVE  TypesInv'
<1> USE BoundKept DEF TypesInv, client, socket, hubs, runs, WireOK
<1>1. ASSUME NEW reply \in Replies, Answer(c, reply), MayWrite(c, "answer")
      PROVE  /\ WireOK'
             /\ request' \in [Clients -> {"none", "event.subscribe", "agent.run"}]
  <2>1. Event(c, reply) \in Message /\ Write(c, "answer", Event(c, reply))
    BY <1>1 DEF Event, Message, Answer
  <2>2. request' \in [Clients -> {"none", "event.subscribe", "agent.run"}]
    BY <1>1 DEF Answer, TypeOK
  <2> QED
    BY <1>1, <2>1, <2>2, WriteEffect DEF Writers
<1>2. "subscribed" \in Replies /\ "accepted" \in Replies /\ "refused" \in Replies
  BY DEF Replies
<1>3. CASE Subscribe(c)
  <2>1. PICK reply \in Replies : Answer(c, reply)
    BY <1>2, <1>3 DEF Subscribe
  <2>2. MayWrite(c, "answer")
    BY <1>3 DEF Subscribe, Requested
  <2>3. hub' \in [Clients -> {"absent", "registered", "subscribed"}]
    BY <1>3 DEF Subscribe, TypeOK
  <2> QED
    BY <1>1, <1>3, <2>1, <2>2, <2>3 DEF Subscribe, TypeOK
<1>4. CASE StartRun(c)
  <2>1. Answer(c, "accepted") /\ MayWrite(c, "answer")
    BY <1>4 DEF StartRun, Requested
  <2>2. Callback("start", c, "none") \in Callbacks /\ CallbackHasEvent(Callback("start", c, "none"))
    BY DEF Callback, Callbacks, CallbackHasEvent, EventTypes, Garbled, Verdicts
  <2>3. ready' \in Seq(Callbacks) /\ \A i \in 1..Len(ready') : CallbackHasEvent(ready'[i])
    BY <1>4, <2>2, ReadyAppended DEF StartRun
  <2> QED
    BY <1>1, <1>2, <1>4, <2>1, <2>3 DEF StartRun, TypeOK, Callbacks
<1>5. CASE RefuseRun(c)
  <2>1. Answer(c, "refused") /\ MayWrite(c, "answer")
    BY <1>5 DEF RefuseRun, Requested
  <2> QED
    BY <1>1, <1>2, <1>5, <2>1 DEF RefuseRun, TypeOK
<1>6. CASE Disconnected(c)
  <2>1. Callback("remove", c, "none") \in Callbacks
        /\ CallbackHasEvent(Callback("remove", c, "none"))
    BY DEF Callback, Callbacks, CallbackHasEvent, EventTypes, Garbled, Verdicts
  <2>2. ready' \in Seq(Callbacks) /\ \A i \in 1..Len(ready') : CallbackHasEvent(ready'[i])
    BY <1>6, <2>1, ReadyAppended DEF Disconnected
  <2> QED
    BY <1>6, <2>2 DEF Disconnected, TypeOK, Callbacks
<1>7. CASE Send(c)
  <2>1. queue' \in [Clients -> Seq(EventsOf)] /\ (\A d \in Clients : Len(queue'[d]) <= MaxQueue)
        /\ Head(queue[c]) \in EventsOf
    BY <1>7, QueueShortened DEF Send, SendsNext
  <2>2. Head(queue[c]) \in Message
    BY <2>1 DEF EventsOf, Message
  <2>3. WireOK'
    BY <1>7, <2>2, WriteEffect DEF Send, SendsNext, Writers
  <2> QED
    BY <1>7, <2>1, <2>3 DEF Send, TypeOK, EventsOf
<1>9. CASE SendDies(c)
  <2>1. queue' \in [Clients -> Seq(EventsOf)] /\ \A d \in Clients : Len(queue'[d]) <= MaxQueue
    BY <1>9, QueueShortened DEF SendDies, SendsNext
  <2>2. lost' \in [Clients -> {"no", "silenced", "dropped"}]
    BY <1>9 DEF SendDies, TypeOK
  <2> QED
    BY <1>9, <2>1, <2>2 DEF SendDies, TypeOK, EventsOf
<1>8. CASE SendFails(c)
  <2>1. queue' \in [Clients -> Seq(EventsOf)] /\ \A d \in Clients : Len(queue'[d]) <= MaxQueue
    BY <1>8, QueueEmptied DEF SendFails
  <2>2. hub' \in [Clients -> {"absent", "registered", "subscribed"}]
    BY <1>8 DEF SendFails, TypeOK
  <2> QED
    BY <1>8, <2>1, <2>2 DEF SendFails, TypeOK, EventsOf
<1> QED
  BY <1>3, <1>4, <1>5, <1>6, <1>7, <1>8, <1>9 DEF Connection

LEMMA LoopTypes ==
  ASSUME TypesInv, Loop \/ Shutdown \/ Stop
  PROVE  TypesInv'
<1> USE BoundKept DEF TypesInv, client, socket, hubs, runs, WireOK
<1>1. ASSUME ready # << >>, ready' = Tail(ready)
      PROVE  /\ ready' \in Seq(Callbacks) /\ \A i \in 1..Len(ready') : CallbackHasEvent(ready'[i])
             /\ Head(ready) \in Callbacks /\ CallbackHasEvent(Head(ready))
  BY <1>1, ReadyPopped
<1>2. CASE PublishOnLoop
  <2>1. ready # << >> /\ ready' = Tail(ready) /\ Head(ready).do = "publish"
    BY <1>2 DEF PublishOnLoop, NextCallback
  <2> DEFINE event == Event(Head(ready).run, Head(ready).type)
  <2>2. event \in EventsOf
    BY <1>1, <2>1 DEF Event, EventsOf, Callbacks, CallbackHasEvent
  <2>3. queue' = [c \in Clients |->
                   IF hub[c] # "subscribed" THEN queue[c]
                   ELSE IF Full(c) THEN << >> ELSE Append(queue[c], event)]
    BY <1>2 DEF PublishOnLoop
  <2> HIDE DEF event
  <2>4. ASSUME NEW c \in Clients
        PROVE  queue'[c] \in Seq(EventsOf) /\ Len(queue'[c]) <= MaxQueue
    <3>1. queue[c] \in Seq(EventsOf) /\ Len(queue[c]) <= MaxQueue
      BY DEF TypeOK, EventsOf
    <3>2. Len(Append(queue[c], event)) = Len(queue[c]) + 1 /\ Append(queue[c], event) \in Seq(EventsOf)
      BY <2>2, <3>1
    <3> QED
      BY <2>3, <3>1, <3>2, RunStreamAssumption DEF Full
  <2>5. queue' \in [Clients -> Seq(EventsOf)]
    BY <2>3, <2>4
  <2>6. /\ hub' \in [Clients -> {"absent", "registered", "subscribed"}]
        /\ lost' \in [Clients -> {"no", "silenced", "dropped"}]
    BY <1>2 DEF PublishOnLoop, TypeOK
  <2> QED
    BY <1>1, <1>2, <2>1, <2>4, <2>5, <2>6 DEF PublishOnLoop, TypeOK, EventsOf, Callbacks
<1>3. CASE RemoveOnLoop
  <2>1. ready # << >> /\ ready' = Tail(ready)
    BY <1>3 DEF RemoveOnLoop, NextCallback
  <2>2. Head(ready).run \in Clients
    BY <1>1, <2>1 DEF Callbacks
  <2>3. queue' \in [Clients -> Seq(EventsOf)] /\ \A c \in Clients : Len(queue'[c]) <= MaxQueue
    BY <1>3, <2>2, QueueEmptied DEF RemoveOnLoop
  <2>4. hub' \in [Clients -> {"absent", "registered", "subscribed"}]
    BY <1>3, <2>2 DEF RemoveOnLoop, TypeOK
  <2> QED
    BY <1>1, <1>3, <2>1, <2>3, <2>4 DEF RemoveOnLoop, TypeOK, EventsOf, Callbacks
<1>4. CASE StartOnLoop
  <2>1. ready # << >> /\ ready' = Tail(ready)
    BY <1>4 DEF StartOnLoop, NextCallback
  <2>2. run' \in [Clients -> {"none", "queued", "starting", "engine", "answering", "erring",
                              "finishing", "raised", "ended"}]
        /\ escaped' \in [Clients -> BOOLEAN]
    <3>1. run \in [Clients -> {"none", "queued", "starting", "engine", "answering", "erring",
                               "finishing", "raised", "ended"}]
          /\ escaped \in [Clients -> BOOLEAN]
      BY DEF TypeOK
    <3>2. PICK r \in Clients : (Goto(r, "starting") /\ UNCHANGED escaped) \/ Raise(r)
      BY <1>1, <1>4, <2>1 DEF StartOnLoop, Callbacks
    <3> QED
      BY ONLY <3>1, <3>2 DEF Goto, Raise
  <2> QED
    BY <1>1, <1>4, <2>1, <2>2 DEF StartOnLoop, TypeOK, Callbacks
<1>5. CASE Shutdown
  BY <1>5 DEF Shutdown, TypeOK
<1>6. CASE Stop
  <2>1. PICK kept \in [Clients -> 0 .. HighWater + 2] :
          /\ \A c \in Clients : kept[c] <= Len(wire[c])
          /\ wire' = [c \in Clients |-> SubSeq(wire[c], 1, kept[c])]
    BY <1>6 DEF Stop
  <2>2. ASSUME NEW c \in Clients
        PROVE  wire'[c] \in Seq(Message) /\ Len(wire'[c]) <= Len(wire[c])
    <3>1. wire[c] \in Seq(Message) /\ kept[c] \in Nat /\ kept[c] <= Len(wire[c])
      BY <2>1, RunStreamAssumption DEF TypeOK
    <3> QED
      BY <2>1, <3>1, Front
  <2>3. wire' \in [Clients -> Seq(Message)]
    BY <2>1, <2>2
  <2>4. queue' \in [Clients -> Seq(EventsOf)] /\ \A c \in Clients : Len(queue'[c]) <= MaxQueue
    BY <1>6, RunStreamAssumption DEF Stop
  <2>5. run' \in [Clients -> {"none", "queued", "starting", "engine", "answering", "erring",
                              "finishing", "raised", "ended"}]
    BY <1>6 DEF Stop, TypeOK
  <2>6. /\ hub' \in [Clients -> {"absent", "registered", "subscribed"}]
        /\ handler' \in [Clients -> {"none", "open", "closed"}]
        /\ eof' \in [Clients -> BOOLEAN]
    BY <1>6 DEF Stop, TypeOK
  <2>7. /\ ready' \in Seq(Callbacks) /\ \A i \in 1..Len(ready') : CallbackHasEvent(ready'[i])
    BY <1>6 DEF Stop
  <2>8. daemon' \in {"running", "stopping", "stopped"}
    BY <1>6 DEF Stop
  <2>10. UNCHANGED <<waiting, lost>>
    BY <1>6 DEF Stop
  <2>11. WireBounded'
    <3>1. ASSUME NEW c \in Clients  PROVE Len(wire'[c]) <= HighWater + Beyond(c)'
      <4>1. Len(wire'[c]) \in Nat /\ Len(wire[c]) \in Nat
        BY <2>2 DEF TypeOK
      <4>2. Len(wire[c]) <= HighWater + Beyond(c)
        BY DEF TypeOK, WireBounded
      <4>3. Beyond(c)' = Beyond(c) /\ Beyond(c) \in Nat
        BY <2>10 DEF Beyond
      <4> QED
        BY <2>2, <4>1, <4>2, <4>3, RunStreamAssumption
    <3> QED
      BY <3>1 DEF WireBounded
  <2>9. UNCHANGED <<client, request, progress, status, escaped, refreshing, published>>
    BY <1>6 DEF Stop
  <2> QED
    BY <2>2, <2>3, <2>4, <2>5, <2>6, <2>7, <2>8, <2>9, <2>10, <2>11 DEF TypeOK, EventsOf, Callbacks
<1> QED
  BY <1>2, <1>3, <1>4, <1>5, <1>6 DEF Loop

LEMMA PublishEffect ==
  ASSUME TypesInv, NEW r \in Clients, NEW type \in EventTypes, Publish(r, type)
  PROVE  /\ published' \in [Clients -> Seq(EventTypes)]
         /\ published'[r] = Append(published[r], type)
         /\ \A c \in Clients : c # r => published'[c] = published[c]
         /\ ready' \in Seq(Callbacks) /\ \A i \in 1..Len(ready') : CallbackHasEvent(ready'[i])
<1>1. published \in [Clients -> Seq(EventTypes)]
  BY DEF TypesInv, TypeOK
<1>2. Append(published[r], type) \in Seq(EventTypes)
  BY <1>1
<1>3. published' = [published EXCEPT ![r] = Append(published[r], type)]
  BY DEF Publish
<1>4. /\ Callback("publish", r, type) \in Callbacks
      /\ CallbackHasEvent(Callback("publish", r, type))
  BY DEF Callback, Callbacks, CallbackHasEvent
<1>5. CASE daemon = "stopped"
  BY <1>1, <1>2, <1>3, <1>5 DEF Publish, TypesInv, TypeOK, Callbacks
<1>6. CASE daemon # "stopped"
  <2>1. ready' = Append(ready, Callback("publish", r, type))
    BY <1>6 DEF Publish
  <2> QED
    BY <1>1, <1>2, <1>3, <1>4, <2>1, ReadyAppended
<1> QED
  BY <1>5, <1>6

\* A failure that the background task reports: two events, one after the other.
LEMMA Two ==
  ASSUME NEW S, NEW s \in Seq(S), NEW x \in S, NEW y \in S
  PROVE  /\ s \o <<x, y>> = Append(Append(s, x), y)
         /\ s \o <<x, y>> \in Seq(S) /\ Len(s \o <<x, y>>) = Len(s) + 2 /\ Len(s) \in Nat
         /\ (s \o <<x, y>>)[Len(s) + 1] = x /\ (s \o <<x, y>>)[Len(s) + 2] = y
         /\ \A i \in 1..Len(s) : (s \o <<x, y>>)[i] = s[i]
OBVIOUS

LEMMA ReportEffect ==
  ASSUME TypesInv, NEW r \in Clients, Report(r)
  PROVE  /\ published' \in [Clients -> Seq(EventTypes)]
         /\ published'[r] = published[r] \o <<"agent.error", "failed">>
         /\ \A c \in Clients : c # r => published'[c] = published[c]
         /\ ready' \in Seq(Callbacks) /\ \A i \in 1..Len(ready') : CallbackHasEvent(ready'[i])
<1>1. /\ published \in [Clients -> Seq(EventTypes)]
      /\ ready \in Seq(Callbacks) /\ \A i \in 1..Len(ready) : CallbackHasEvent(ready[i])
  BY DEF TypesInv, TypeOK, Callbacks
<1>2. "agent.error" \in EventTypes /\ "failed" \in EventTypes
  BY DEF EventTypes, Garbled, Verdicts
<1>3. published[r] \o <<"agent.error", "failed">> \in Seq(EventTypes)
  BY <1>1, <1>2, Two
<1>4. published' = [published EXCEPT ![r] = published[r] \o <<"agent.error", "failed">>]
  BY DEF Report
<1> DEFINE first == Callback("publish", r, "agent.error")
           second == Callback("publish", r, "failed")
<1>5. /\ first \in Callbacks /\ CallbackHasEvent(first)
      /\ second \in Callbacks /\ CallbackHasEvent(second)
  BY <1>2 DEF Callback, Callbacks, CallbackHasEvent
<1>6. ready' = ready \o <<first, second>>
  BY DEF Report
<1> HIDE DEF first, second, CallbackHasEvent, Callbacks
<1>7. /\ ready' \in Seq(Callbacks) /\ Len(ready') = Len(ready) + 2 /\ Len(ready) \in Nat
      /\ ready'[Len(ready) + 1] = first /\ ready'[Len(ready) + 2] = second
      /\ \A i \in 1..Len(ready) : ready'[i] = ready[i]
  BY <1>1, <1>5, <1>6, Two
<1>8. ASSUME NEW i \in 1..Len(ready')  PROVE CallbackHasEvent(ready'[i])
  <2>1. i \in 1..Len(ready) \/ i = Len(ready) + 1 \/ i = Len(ready) + 2
    BY <1>7
  <2> QED
    BY <1>1, <1>5, <1>7, <2>1
<1> QED
  BY <1>1, <1>3, <1>4, <1>7, <1>8

LEMMA RuntimeTypes ==
  ASSUME TypesInv, NEW r \in Clients, Runtime(r) \/ ReportRefresh(r) \/ Report(r)
  PROVE  TypesInv'
<1> USE BoundKept DEF client, socket, hubs, ThreadOnly
<1> DEFINE Stages == {"none", "queued", "starting", "engine", "answering", "erring",
                      "finishing", "raised", "ended"}
<1>1. /\ "run.started" \in EventTypes /\ "agent.progress" \in EventTypes /\ Garbled \in EventTypes
      /\ "agent.memory.failed" \in EventTypes /\ "agent.answer" \in EventTypes
      /\ "agent.error" \in EventTypes /\ "finished" \in Verdicts
      /\ Verdicts \subseteq EventTypes
  BY DEF EventTypes, Garbled, Verdicts
<1>2. /\ TypeOK /\ run \in [Clients -> Stages] /\ escaped \in [Clients -> BOOLEAN]
      /\ status \in [Clients -> Verdicts] /\ refreshing \in [Clients -> BOOLEAN]
      /\ progress \in [Clients -> 0 .. MaxProgress]
  BY DEF TypesInv, TypeOK
<1>3. WriterRaises(r) \subseteq BOOLEAN
  BY DEF WriterRaises
<1>4. ASSUME NEW type \in EventTypes, Publish(r, type),
             UNCHANGED <<client, socket, handler, hubs, daemon>>,
             run' \in [Clients -> Stages], escaped' \in [Clients -> BOOLEAN],
             status' \in [Clients -> Verdicts], refreshing' \in [Clients -> BOOLEAN],
             progress' \in [Clients -> 0 .. MaxProgress]
      PROVE  TypesInv'
  BY <1>4, PublishEffect DEF TypesInv, TypeOK, Callbacks
<1>5. CASE PublishStarted(r)
  BY <1>1, <1>2, <1>4, <1>5 DEF PublishStarted, Raise, Goto
<1>6. CASE EngineEmits(r)
  <2>1. progress' \in [Clients -> 0 .. MaxProgress]
    BY <1>2, <1>6, RunStreamAssumption DEF EngineEmits
  <2>2. PICK type \in EventTypes : Emit(r, type)
    BY <1>1, <1>6 DEF EngineEmits
  <2>3. run' \in [Clients -> Stages] /\ Publish(r, type)
    BY <1>2, <2>2 DEF Emit, Goto
  <2> QED
    BY <1>2, <1>4, <1>6, <2>1, <2>3 DEF EngineEmits
<1>7. CASE MemoryFails(r)
  BY <1>1, <1>2, <1>4, <1>7 DEF MemoryFails, Goto
<1>8. CASE RefreshScheduled(r)
  BY <1>1, <1>2, <1>8 DEF RefreshScheduled, Goto, TypesInv, TypeOK, runs
<1>9. CASE PublishAnswer(r)
  BY <1>1, <1>2, <1>4, <1>9 DEF PublishAnswer, Goto
<1>10. CASE PublishError(r)
  BY <1>1, <1>2, <1>3, <1>4, <1>10 DEF PublishError, Goto
<1>11. CASE Finish(r)
  <2>1. status[r] \in EventTypes
    BY <1>1, <1>2
  <2>2. run' \in [Clients -> Stages] /\ escaped' \in [Clients -> BOOLEAN]
    BY <1>2, <1>11 DEF Finish, Goto, Raise
  <2> QED
    BY <1>2, <1>4, <1>11, <2>1, <2>2 DEF Finish
<1>12. CASE ReportRefresh(r)
  BY <1>1, <1>2, <1>4, <1>12 DEF ReportRefresh
<1>13. CASE Report(r)
  BY <1>2, <1>13, ReportEffect DEF Report, TypesInv, TypeOK, Callbacks
<1> QED
  BY <1>5, <1>6, <1>7, <1>8, <1>9, <1>10, <1>11, <1>12, <1>13 DEF Runtime

LEMMA TypesStutter == ASSUME TypesInv, UNCHANGED vars  PROVE TypesInv'
BY DEF TypesInv, TypeOK, vars, client, socket, hubs, runs, WireBounded, Beyond

LEMMA TypesNext == ASSUME TypesInv, [Next]_vars  PROVE TypesInv'
BY CliTypes, ConnectionTypes, LoopTypes, RuntimeTypes, TypesStutter DEF Next

LEMMA SpecTypes == Spec => []TypesInv
<1>1. TypesInv /\ [Next]_vars => TypesInv'
  BY TypesNext
<1> QED
  BY TypesInit, <1>1, PTL DEF Spec

\* Every queue, buffer and callback of the daemon holds what its reader expects,
\* and none outgrows its limit: the client's queue max_queue_size, its socket
\* one message more than the mark above which drain() waits.
THEOREM Types == Spec => []TypeOK
<1>1. TypesInv => TypeOK
  BY DEF TypesInv
<1> QED
  BY SpecTypes, <1>1, PTL

-------------------------------------------------------------------------------
(* A run is started once.                                                  *)

IsStart(callback, r) == callback.do = "start" /\ callback.run = r

StartedOnce ==
  /\ \A c \in Clients : pc[c] \in {"connecting", "subscribing"} => run[c] = "none"
  /\ \A c \in Clients : request[c] = "agent.run" =>
       run[c] = "none" /\ pc[c] \notin {"connecting", "subscribing"}
  /\ \A r \in Clients : \A i \in 1..Len(ready) :
       IsStart(ready[i], r) =>
         run[r] = "queued" /\ \A j \in 1..Len(ready) : IsStart(ready[j], r) => i = j

LEMMA StartedOnceInit == Init => StartedOnce
BY DEF Init, StartedOnce

\* Callbacks other than "start" come and go.
LEMMA NoNewStart ==
  ASSUME TypesInv, StartedOnce, NEW callback \in Callbacks, callback.do # "start",
         ready' = Append(ready, callback), UNCHANGED <<pc, request>>,
         \A r \in Clients : run[r] \in {"none", "queued"} => run'[r] = run[r]
  PROVE  StartedOnce'
<1>1. ready \in Seq(Callbacks)
  BY DEF TypesInv, TypeOK, Callbacks
<1>2. /\ Len(ready') = Len(ready) + 1 /\ Len(ready) \in Nat /\ ready'[Len(ready) + 1] = callback
      /\ \A i \in 1..Len(ready) : ready'[i] = ready[i]
  BY <1>1, Appended
<1>3. ASSUME NEW r \in Clients, NEW i \in 1..Len(ready'), IsStart(ready'[i], r)
      PROVE  i \in 1..Len(ready) /\ ready'[i] = ready[i] /\ IsStart(ready[i], r)
  <2>1. i # Len(ready) + 1
    BY <1>2, <1>3 DEF IsStart
  <2> QED
    BY <1>2, <1>3, <2>1
<1>4. ASSUME NEW r \in Clients, NEW i \in 1..Len(ready'), IsStart(ready'[i], r)
      PROVE  run'[r] = "queued" /\ \A j \in 1..Len(ready') : IsStart(ready'[j], r) => i = j
  <2>1. run[r] = "queued" /\ \A j \in 1..Len(ready) : IsStart(ready[j], r) => i = j
    BY <1>3, <1>4 DEF StartedOnce
  <2> QED
    BY <1>3, <1>4, <2>1
<1>5. \A c \in Clients : pc'[c] \in {"connecting", "subscribing"} => run'[c] = "none"
  BY DEF StartedOnce
<1>6. \A c \in Clients : request'[c] = "agent.run" =>
        run'[c] = "none" /\ pc'[c] \notin {"connecting", "subscribing"}
  BY DEF StartedOnce
<1> QED
  BY <1>4, <1>5, <1>6 DEF StartedOnce

\* So do the starts, each taken by the loop when it is the oldest callback.
LEMMA StartsPopped ==
  ASSUME TypesInv, StartedOnce, ready # << >>, ready' = Tail(ready), UNCHANGED <<pc, request>>,
         \A r \in Clients : IsStart(Head(ready), r) \/ run'[r] = run[r]
  PROVE  StartedOnce'
<1>1. ready \in Seq(Callbacks)
  BY DEF TypesInv, TypeOK, Callbacks
<1>2. /\ Len(ready) \in Nat /\ Len(ready) > 0 /\ Head(ready) = ready[1]
      /\ Len(ready') = Len(ready) - 1 /\ 1 \in 1..Len(ready)
      /\ \A i \in 1..Len(ready') : ready'[i] = ready[i + 1] /\ i + 1 \in 1..Len(ready)
  BY <1>1, Popped
<1>3. ASSUME NEW r \in Clients, IsStart(Head(ready), r)  PROVE run[r] = "queued"
  BY <1>2, <1>3 DEF StartedOnce
<1>4. ASSUME NEW r \in Clients, NEW i \in 1..Len(ready'), IsStart(ready'[i], r)
      PROVE  run'[r] = "queued" /\ \A j \in 1..Len(ready') : IsStart(ready'[j], r) => i = j
  <2>1. i + 1 \in 1..Len(ready) /\ IsStart(ready[i + 1], r)
    BY <1>2, <1>4
  <2>2. run[r] = "queued" /\ \A j \in 1..Len(ready) : IsStart(ready[j], r) => i + 1 = j
    BY <2>1 DEF StartedOnce
  <2>3. ~IsStart(Head(ready), r)
    BY <1>2, <2>2
  <2>4. ASSUME NEW j \in 1..Len(ready'), IsStart(ready'[j], r)  PROVE i = j
    <3>1. j + 1 \in 1..Len(ready) /\ IsStart(ready[j + 1], r)
      BY <1>2, <2>4
    <3> QED
      BY <2>2, <3>1
  <2> QED
    BY <2>2, <2>3, <2>4
<1>5. ASSUME NEW c \in Clients, run[c] = "none"  PROVE run'[c] = "none"
  BY <1>3, <1>5
<1> QED
  BY <1>4, <1>5 DEF StartedOnce

LEMMA StartedOnceNext == ASSUME TypesInv, StartedOnce, [Next]_vars  PROVE StartedOnce'
<1> USE DEF client, socket, hubs, runs
<1>1. TypesInv'
  BY TypesNext
<1>2. ASSUME UNCHANGED <<run, ready>>,
             \A c \in Clients : pc'[c] \in {"connecting", "subscribing"} => run[c] = "none",
             \A c \in Clients : request'[c] = "agent.run" =>
               run[c] = "none" /\ pc'[c] \notin {"connecting", "subscribing"}
      PROVE  StartedOnce'
  BY <1>2 DEF StartedOnce
<1>3. ASSUME NEW c \in Clients, Connect(c) \/ ConnectFails(c) \/ Quit(c) \/ Cli(c)
      PROVE  StartedOnce'
  <2>1. UNCHANGED <<run, ready>>
    BY <1>3 DEF Connect, ConnectFails, Quit, Cli, ReadEarlyEvent, ReadSubscribed, ReadAccepted,
                ShowPending, ReadRefused, ReadEvent, ReadEof
  <2>2. CASE Connect(c)
    BY <1>2, <2>1, <2>2 DEF Connect, TypesInv, TypeOK, StartedOnce
  <2>3. CASE ReadSubscribed(c)
    <3>1. /\ pc[c] = "subscribing" /\ pc' = [pc EXCEPT ![c] = "starting"]
          /\ request' = [request EXCEPT ![c] = "agent.run"]
      BY <2>3 DEF ReadSubscribed, Reading
    <3>2. \A d \in Clients : d # c => pc'[d] = pc[d] /\ request'[d] = request[d]
      BY <3>1 DEF TypesInv, TypeOK
    <3>3. pc'[c] = "starting" /\ run[c] = "none"
      BY <3>1 DEF TypesInv, TypeOK, StartedOnce
    <3> QED
      BY <1>2, <2>1, <3>2, <3>3 DEF StartedOnce
  <2>4. CASE ConnectFails(c) \/ Quit(c) \/ ReadEarlyEvent(c) \/ ReadAccepted(c) \/ ShowPending(c)
             \/ ReadRefused(c) \/ ReadEvent(c) \/ ReadEof(c)
    <3>1. UNCHANGED request
      BY <2>4 DEF ConnectFails, Quit, ReadEarlyEvent, ReadAccepted, ShowPending, ReadRefused,
                  ReadEvent, ReadEof
    <3>2. \A d \in Clients : pc'[d] = pc[d] \/ pc'[d] \in {"streaming", "exited"}
      BY <2>4 DEF ConnectFails, Quit, ReadEarlyEvent, ReadAccepted, ShowPending, ReadRefused,
                  ReadEvent, ReadEof, Show, Exit, TypesInv, TypeOK
    <3> QED
      BY <1>2, <2>1, <3>1, <3>2 DEF StartedOnce
  <2> QED
    BY <1>3, <2>2, <2>3, <2>4 DEF Cli
<1>4. ASSUME NEW c \in Clients, Subscribe(c) \/ RefuseRun(c)  PROVE StartedOnce'
  BY <1>2, <1>4 DEF Subscribe, RefuseRun, Answer, StartedOnce, TypesInv, TypeOK
<1>5. ASSUME NEW c \in Clients, StartRun(c)  PROVE StartedOnce'
  <2> DEFINE start == Callback("start", c, "none")
  <2>1. /\ ready' = Append(ready, start) /\ start \in Callbacks /\ IsStart(start, c)
        /\ \A r \in Clients : IsStart(start, r) => r = c
    BY <1>5 DEF StartRun, Callback, Callbacks, IsStart
  <2> HIDE DEF start
  <2>2. ready \in Seq(Callbacks)
    BY DEF TypesInv, TypeOK, Callbacks
  <2>3. /\ Len(ready') = Len(ready) + 1 /\ Len(ready) \in Nat /\ ready'[Len(ready) + 1] = start
        /\ \A i \in 1..Len(ready) : ready'[i] = ready[i]
    BY <2>1, <2>2, Appended
  <2>4. request[c] = "agent.run" /\ run[c] = "none" /\ pc[c] \notin {"connecting", "subscribing"}
    BY <1>5 DEF StartRun, Requested, StartedOnce
  <2>5. /\ \A r \in Clients : r # c => run'[r] = run[r]
        /\ run'[c] = "queued" /\ UNCHANGED pc
        /\ \A r \in Clients : r # c => request'[r] = request[r]
        /\ request'[c] = "none"
    BY <1>5 DEF StartRun, Answer, TypesInv, TypeOK
  <2>6. ASSUME NEW i \in 1..Len(ready)  PROVE ~IsStart(ready[i], c)
    BY <2>4 DEF StartedOnce
  <2>7. ASSUME NEW r \in Clients, NEW i \in 1..Len(ready'), IsStart(ready'[i], r)
        PROVE  run'[r] = "queued" /\ \A j \in 1..Len(ready') : IsStart(ready'[j], r) => i = j
    <3>1. i \in 1..Len(ready) \/ i = Len(ready) + 1
      BY <2>3
    <3>2. CASE r = c
      <4>1. \A j \in 1..Len(ready') : IsStart(ready'[j], r) => j = Len(ready) + 1
        BY <2>3, <2>6, <3>2
      <4> QED
        BY <2>5, <2>7, <3>2, <4>1
    <3>3. CASE r # c
      <4>1. \A j \in 1..Len(ready') : IsStart(ready'[j], r) => j \in 1..Len(ready) /\ IsStart(ready[j], r)
        BY <2>1, <2>3, <3>3
      <4>2. run[r] = "queued" /\ \A j \in 1..Len(ready) : IsStart(ready[j], r) => i = j
        BY <2>7, <4>1 DEF StartedOnce
      <4> QED
        BY <2>5, <3>3, <4>1, <4>2
    <3> QED
      BY <3>2, <3>3
  <2> QED
    BY <2>4, <2>5, <2>7 DEF StartedOnce
<1>6. ASSUME NEW c \in Clients, Disconnected(c)  PROVE StartedOnce'
  <2>1. Callback("remove", c, "none") \in Callbacks /\ Callback("remove", c, "none").do # "start"
    BY DEF Callback, Callbacks
  <2> QED
    BY <1>6, <2>1, NoNewStart DEF Disconnected
<1>7. ASSUME NEW c \in Clients, Send(c) \/ SendDies(c) \/ SendFails(c)  PROVE StartedOnce'
  BY <1>2, <1>7 DEF Send, SendDies, SendFails, StartedOnce
<1>8. CASE PublishOnLoop
  BY <1>8, StartsPopped DEF PublishOnLoop, NextCallback
<1>9. CASE RemoveOnLoop
  BY <1>9, StartsPopped DEF RemoveOnLoop, NextCallback
<1>10. CASE StartOnLoop
  <2>1. \A r \in Clients : r # Head(ready).run => run'[r] = run[r]
    BY <1>10 DEF StartOnLoop, Goto, Raise, TypesInv, TypeOK
  <2> QED
    BY <1>10, <2>1, StartsPopped DEF StartOnLoop, NextCallback, IsStart
<1>11. CASE Shutdown
  BY <1>2, <1>11 DEF Shutdown, StartedOnce
<1>12. CASE Stop
  <2>1. ready' = << >> /\ UNCHANGED <<pc, request>>
        /\ \A c \in Clients : run[c] = "none" => run'[c] = "none"
    BY <1>12 DEF Stop
  <2> QED
    BY <2>1 DEF StartedOnce
<1>13. ASSUME NEW r \in Clients, NEW type \in EventTypes, Publish(r, type), UNCHANGED <<pc, request>>,
              \A c \in Clients : run[c] \in {"none", "queued"} => run'[c] = run[c]
       PROVE  StartedOnce'
  <2>1. Callback("publish", r, type) \in Callbacks /\ Callback("publish", r, type).do # "start"
    BY DEF Callback, Callbacks
  <2>2. CASE daemon = "stopped"
    BY <1>13, <2>2 DEF Publish, StartedOnce
  <2> QED
    BY <1>13, <2>1, <2>2, NoNewStart DEF Publish
<1>14. ASSUME NEW r \in Clients, Runtime(r) \/ ReportRefresh(r)  PROVE StartedOnce'
  <2>1. CASE RefreshScheduled(r)
    <3>1. UNCHANGED <<pc, request, ready>>
      BY <2>1 DEF RefreshScheduled
    <3>2. \A c \in Clients : run[c] \in {"none", "queued"} => run'[c] = run[c]
      BY <2>1 DEF RefreshScheduled, At, Goto, TypesInv, TypeOK
    <3> QED
      BY <3>1, <3>2 DEF StartedOnce
  <2>2. CASE ~RefreshScheduled(r)
    <3>1. UNCHANGED <<pc, request>>
      BY <1>14, <2>2 DEF Runtime, ReportRefresh, PublishStarted, EngineEmits, Emit, MemoryFails,
                         PublishAnswer, PublishError, Finish, ThreadOnly
    <3>2. PICK type \in EventTypes : Publish(r, type)
      <4>1. CASE EngineEmits(r)
        BY <4>1 DEF EngineEmits, Emit, EventTypes, Garbled
      <4>2. CASE Finish(r)
        BY <4>2 DEF Finish, EventTypes, TypesInv, TypeOK
      <4> QED
        BY <1>14, <2>2, <4>1, <4>2
           DEF Runtime, ReportRefresh, PublishStarted, MemoryFails, PublishAnswer, PublishError,
               EventTypes
    <3>3. \A c \in Clients : run[c] \in {"none", "queued"} => run'[c] = run[c]
      <4>1. run[r] \notin {"none", "queued"} \/ UNCHANGED run
        BY <1>14, <2>2 DEF Runtime, ReportRefresh, PublishStarted, EngineEmits, MemoryFails,
                           PublishAnswer, PublishError, Finish, At
      <4>2. \A c \in Clients : c # r => run'[c] = run[c]
        <5>1. CASE EngineEmits(r)
          BY <5>1 DEF EngineEmits, Emit, Goto, TypesInv, TypeOK
        <5>2. CASE MemoryFails(r)
          BY <5>2 DEF MemoryFails, Goto, TypesInv, TypeOK
        <5>3. CASE PublishAnswer(r)
          BY <5>3 DEF PublishAnswer, Goto, TypesInv, TypeOK
        <5>4. CASE PublishError(r)
          BY <5>4 DEF PublishError, Goto, TypesInv, TypeOK
        <5>5. CASE PublishStarted(r)
          BY <5>5 DEF PublishStarted, Raise, Goto, TypesInv, TypeOK
        <5>6. CASE Finish(r)
          BY <5>6 DEF Finish, Raise, Goto, TypesInv, TypeOK
        <5>7. CASE ReportRefresh(r)
          BY <5>7 DEF ReportRefresh
        <5> QED
          BY <1>14, <2>2, <5>1, <5>2, <5>3, <5>4, <5>5, <5>6, <5>7 DEF Runtime
      <4> QED
        BY <4>1, <4>2
    <3> QED
      BY <1>13, <3>1, <3>2, <3>3
  <2> QED
    BY <2>1, <2>2
<1>15. ASSUME NEW r \in Clients, Report(r)  PROVE StartedOnce'
  <2> DEFINE first == Callback("publish", r, "agent.error")
             second == Callback("publish", r, "failed")
  <2>1. /\ first \in Callbacks /\ first.do # "start" /\ second \in Callbacks /\ second.do # "start"
    BY DEF Callback, Callbacks, EventTypes, Garbled, Verdicts
  <2>2. ready' = ready \o <<first, second>> /\ UNCHANGED <<pc, request>>
    BY <1>15 DEF Report
  <2> HIDE DEF first, second
  <2>3. ready \in Seq(Callbacks)
    BY DEF TypesInv, TypeOK, Callbacks
  <2>4. /\ Len(ready') = Len(ready) + 2 /\ Len(ready) \in Nat
        /\ ready'[Len(ready) + 1] = first /\ ready'[Len(ready) + 2] = second
        /\ \A i \in 1..Len(ready) : ready'[i] = ready[i]
    BY <2>1, <2>2, <2>3, Two
  <2>5. \A c \in Clients : run[c] \in {"none", "queued"} => run'[c] = run[c]
    BY <1>15 DEF Report, TypesInv, TypeOK
  <2>6. ASSUME NEW c \in Clients, NEW i \in 1..Len(ready'), IsStart(ready'[i], c)
        PROVE  i \in 1..Len(ready) /\ IsStart(ready[i], c)
    <3>1. i \in 1..Len(ready) \/ i = Len(ready) + 1 \/ i = Len(ready) + 2
      BY <2>4
    <3> QED
      BY <2>1, <2>4, <2>6, <3>1 DEF IsStart
  <2>7. ASSUME NEW c \in Clients, NEW i \in 1..Len(ready'), IsStart(ready'[i], c)
        PROVE  run'[c] = "queued" /\ \A j \in 1..Len(ready') : IsStart(ready'[j], c) => i = j
    <3>1. run[c] = "queued" /\ \A j \in 1..Len(ready) : IsStart(ready[j], c) => i = j
      BY <2>6, <2>7 DEF StartedOnce
    <3> QED
      BY <2>5, <2>6, <3>1
  <2> QED
    BY <2>2, <2>5, <2>7 DEF StartedOnce
<1>16. CASE UNCHANGED vars
  BY <1>16 DEF vars, StartedOnce
<1> QED
  BY <1>3, <1>4, <1>5, <1>6, <1>7, <1>8, <1>9, <1>10, <1>11, <1>12, <1>14, <1>15, <1>16
     DEF Next, Loop, Connection

-------------------------------------------------------------------------------
(* Verdicts.                                                               *)

LEMMA VerdictOne ==
  ASSUME NEW s \in Seq(EventTypes), NEW t \in Seq(EventTypes), NEW e \in EventTypes,
         Len(t) = Len(s) + 1, t[Len(s) + 1] = e, \A i \in 1..Len(s) : t[i] = s[i]
  PROVE  /\ VerdictsIn(s) \subseteq 1..Len(s)
         /\ VerdictsIn(t) = VerdictsIn(s) \cup (IF e \in Verdicts THEN {Len(s) + 1} ELSE {})
<1>1. Len(s) \in Nat /\ Len(t) \in Nat
  OBVIOUS
<1>2. /\ VerdictsIn(s) = {i \in 1..Len(s) : s[i] \in Verdicts}
      /\ VerdictsIn(t) = {i \in 1..Len(t) : t[i] \in Verdicts}
  BY DEF VerdictsIn
<1>3. ASSUME NEW i
      PROVE  i \in VerdictsIn(t) <=> i \in VerdictsIn(s) \/ (i = Len(s) + 1 /\ e \in Verdicts)
  <2>1. i \in 1..Len(t) <=> i \in 1..Len(s) \/ i = Len(s) + 1
    BY <1>1
  <2>2. Len(s) + 1 \notin 1..Len(s)
    BY <1>1
  <2>3. CASE i \in 1..Len(s)
    BY <1>2, <2>1, <2>2, <2>3
  <2>4. CASE i = Len(s) + 1
    BY <1>2, <2>1, <2>2, <2>4
  <2>5. CASE i \notin 1..Len(s) /\ i # Len(s) + 1
    BY <1>2, <2>1, <2>5
  <2> QED
    BY <2>3, <2>4, <2>5
<1>4. VerdictsIn(s) \subseteq 1..Len(s)
  BY <1>2
<1>5. CASE e \in Verdicts
  BY <1>3, <1>5, <1>4
<1>6. CASE e \notin Verdicts
  BY <1>3, <1>6, <1>4
<1> QED
  BY <1>4, <1>5, <1>6

LEMMA VerdictsGrow ==
  ASSUME NEW s \in Seq(EventTypes)
  PROVE  /\ VerdictsIn(s) \subseteq 1..Len(s) /\ Len(s) \in Nat
         /\ \A e \in EventTypes :
              VerdictsIn(Append(s, e)) =
                VerdictsIn(s) \cup (IF e \in Verdicts THEN {Len(s) + 1} ELSE {})
         /\ VerdictsIn(s \o <<"agent.error", "failed">>) = VerdictsIn(s) \cup {Len(s) + 2}
<1>1. ASSUME NEW e \in EventTypes
      PROVE  /\ VerdictsIn(s) \subseteq 1..Len(s)
             /\ VerdictsIn(Append(s, e)) =
                  VerdictsIn(s) \cup (IF e \in Verdicts THEN {Len(s) + 1} ELSE {})
  <2> DEFINE t == Append(s, e)
  <2>1. /\ t \in Seq(EventTypes) /\ Len(t) = Len(s) + 1 /\ t[Len(s) + 1] = e
        /\ \A i \in 1..Len(s) : t[i] = s[i]
    BY Appended
  <2> HIDE DEF t
  <2>2. /\ VerdictsIn(s) \subseteq 1..Len(s)
        /\ VerdictsIn(t) = VerdictsIn(s) \cup (IF e \in Verdicts THEN {Len(s) + 1} ELSE {})
    BY <2>1, VerdictOne
  <2> QED
    BY <2>2 DEF t
<1>2. /\ "agent.error" \in EventTypes /\ "agent.error" \notin Verdicts
      /\ "failed" \in EventTypes /\ "failed" \in Verdicts
  BY DEF EventTypes, Garbled, Verdicts
<1> DEFINE t == Append(s, "agent.error")
           u == Append(t, "failed")
<1>3. t \in Seq(EventTypes) /\ Len(t) = Len(s) + 1 /\ VerdictsIn(t) = VerdictsIn(s)
  BY <1>1, <1>2, Appended
<1> HIDE DEF t
<1>4. /\ u \in Seq(EventTypes) /\ Len(u) = Len(t) + 1 /\ u[Len(t) + 1] = "failed"
      /\ \A i \in 1..Len(t) : u[i] = t[i]
  BY <1>2, <1>3, Appended
<1>5. s \o <<"agent.error", "failed">> = u
  BY <1>2, Two DEF t
<1> HIDE DEF u
<1>6. VerdictsIn(u) = VerdictsIn(t) \cup {Len(t) + 1}
  BY <1>2, <1>3, <1>4, VerdictOne
<1>7. VerdictsIn(u) = VerdictsIn(s) \cup {Len(s) + 2}
  BY <1>3, <1>6, LenProperties
<1> QED
  BY <1>1, <1>2, <1>5, <1>7, LenProperties

UnderWay == {"none", "queued", "starting", "engine", "answering", "erring", "finishing"}

\* What the events of a run say of its verdict, by where its thread stands.
Concluded(r) ==
  /\ run[r] \in UnderWay => VerdictsIn(published[r]) = {}
  /\ run[r] = "raised" => escaped[r] /\ \E i \in Nat : VerdictsIn(published[r]) \subseteq {i}
  /\ run[r] = "ended" =>
       /\ \E i, j \in Nat : VerdictsIn(published[r]) \subseteq {i, j} /\ (escaped[r] \/ i = j)
       /\ daemon # "stopped" => VerdictsIn(published[r]) # {}

\* A step that takes a run neither to its end nor from one end to another.
Stays(r) == run'[r] = run[r] \/ (run[r] \in UnderWay /\ run'[r] \in UnderWay)

VerdictsInv == \A r \in Clients : Concluded(r)

LEMMA VerdictsInit == Init => VerdictsInv
BY DEF Init, VerdictsInv, Concluded, VerdictsIn, UnderWay

LEMMA VerdictsKept ==
  ASSUME VerdictsInv, NEW r \in Clients, UNCHANGED escaped,
         Stays(r),
         VerdictsIn(published'[r]) = VerdictsIn(published[r]),
         daemon' # "stopped" => daemon # "stopped"
  PROVE  Concluded(r)'
<1>1. run[r] # "raised" \/ run[r] \notin UnderWay
  BY DEF UnderWay
<1>2. run[r] # "ended" \/ run[r] \notin UnderWay
  BY DEF UnderWay
<1>3. run'[r] # "raised" \/ run'[r] \notin UnderWay
  BY DEF UnderWay
<1>4. run'[r] # "ended" \/ run'[r] \notin UnderWay
  BY DEF UnderWay
<1>5. Concluded(r)
  BY DEF VerdictsInv
<1>6. CASE run'[r] = run[r]
  BY <1>5, <1>6 DEF Concluded
<1>7. CASE run[r] \in UnderWay /\ run'[r] \in UnderWay
  BY <1>3, <1>4, <1>5, <1>7 DEF Concluded
<1> QED
  BY <1>6, <1>7 DEF Stays

\* Publications on the way, by a thread that has not concluded or by the refresh.
LEMMA VerdictsOnTheWay ==
  ASSUME TypesInv, VerdictsInv, NEW r \in Clients, NEW type \in EventTypes \ Verdicts,
         Publish(r, type), UNCHANGED <<escaped, daemon>>,
         \A c \in Clients : Stays(c)
  PROVE  VerdictsInv'
<1>1. /\ published'[r] = Append(published[r], type)
      /\ \A c \in Clients : c # r => published'[c] = published[c]
  BY PublishEffect
<1>2. published[r] \in Seq(EventTypes)
  BY DEF TypesInv, TypeOK
<1>3. VerdictsIn(published'[r]) = VerdictsIn(published[r])
  BY <1>1, <1>2, VerdictsGrow
<1>4. ASSUME NEW c \in Clients  PROVE Concluded(c)'
  <2>1. VerdictsIn(published'[c]) = VerdictsIn(published[c])
    BY <1>1, <1>3
  <2> QED
    BY <2>1, VerdictsKept
<1> QED
  BY <1>4 DEF VerdictsInv

LEMMA VerdictsNext ==
  ASSUME TypesInv, StartedOnce, VerdictsInv, [Next]_vars
  PROVE  VerdictsInv'
<1> USE DEF client, socket, hubs, runs
<1>1. /\ run \in [Clients -> UnderWay \cup {"raised", "ended"}]
      /\ escaped \in [Clients -> BOOLEAN] /\ published \in [Clients -> Seq(EventTypes)]
      /\ status \in [Clients -> Verdicts]
  BY DEF TypesInv, TypeOK, UnderWay
<1>2. ASSUME UNCHANGED <<escaped, published>>, daemon' # "stopped" => daemon # "stopped",
             \A r \in Clients : Stays(r)
      PROVE  VerdictsInv'
  BY <1>2, VerdictsKept DEF VerdictsInv
<1>3. ASSUME NEW c \in Clients, Connect(c) \/ ConnectFails(c) \/ Quit(c) \/ Cli(c)
      PROVE  VerdictsInv'
  <2>1. UNCHANGED <<run, escaped, published, daemon>>
    BY <1>3 DEF Connect, ConnectFails, Quit, Cli, ReadEarlyEvent, ReadSubscribed,
                ReadAccepted, ShowPending, ReadRefused, ReadEvent, ReadEof
  <2> QED
    BY <1>2, <2>1 DEF Stays
<1>4. ASSUME NEW c \in Clients, Connection(c) \/ Send(c) \/ SendDies(c) \/ SendFails(c)
      PROVE  VerdictsInv'
  <2>1. CASE StartRun(c)
    <3>1. run[c] = "none"
      BY <2>1 DEF StartRun, Requested, StartedOnce
    <3>2. \A r \in Clients : Stays(r)
      BY <1>1, <2>1, <3>1 DEF StartRun, UnderWay, Stays
    <3> QED
      BY <1>2, <2>1, <3>2 DEF StartRun
  <2>2. CASE ~StartRun(c)
    <3>1. UNCHANGED <<run, escaped, published, daemon>>
      BY <1>4, <2>2 DEF Connection, Subscribe, RefuseRun, Disconnected, Send, SendDies, SendsNext, SendFails
    <3> QED
      BY <1>2, <3>1 DEF Stays
  <2> QED
    BY <2>1, <2>2
<1>5. CASE PublishOnLoop \/ RemoveOnLoop \/ Shutdown
  BY <1>2, <1>5 DEF PublishOnLoop, RemoveOnLoop, Shutdown, Stays
<1>6. CASE StartOnLoop
  <2>1. ready # << >> /\ ready' = Tail(ready) /\ Head(ready).do = "start"
    BY <1>6 DEF StartOnLoop, NextCallback
  <2>2. PICK r \in Clients : r = Head(ready).run /\ run[r] = "queued"
    <3>1. ready \in Seq(Callbacks)
      BY DEF TypesInv, TypeOK, Callbacks
    <3>2. Head(ready) = ready[1] /\ 1 \in 1..Len(ready) /\ Head(ready) \in Callbacks
      BY <2>1, <3>1, Popped
    <3> QED
      BY <2>1, <3>2 DEF StartedOnce, IsStart, Callbacks
  <2>3. VerdictsIn(published[r]) = {}
    BY <2>2 DEF VerdictsInv, Concluded, UnderWay
  <2>4. CASE Goto(r, "starting") /\ UNCHANGED escaped
    <3>1. \A c \in Clients : Stays(c)
      BY <1>1, <2>2, <2>4 DEF Goto, UnderWay, Stays
    <3> QED
      BY <1>2, <1>6, <2>4, <3>1 DEF StartOnLoop
  <2>5. CASE Raise(r)
    <3>1. UNCHANGED <<published, daemon>>
      BY <1>6 DEF StartOnLoop
    <3>2. run'[r] = "raised" /\ escaped'[r] = TRUE
      BY <1>1, <2>2, <2>5 DEF Raise, Goto
    <3>3. Concluded(r)'
      BY <2>3, <3>1, <3>2 DEF Concluded, UnderWay
    <3>4. ASSUME NEW c \in Clients, c # r  PROVE Concluded(c)'
      <4>1. run'[c] = run[c] /\ escaped'[c] = escaped[c]
        BY <1>1, <2>5, <3>4 DEF Raise, Goto
      <4> QED
        BY <3>1, <4>1 DEF VerdictsInv, Concluded
    <3> QED
      BY <3>3, <3>4 DEF VerdictsInv
  <2> QED
    BY <1>6, <2>2, <2>4, <2>5 DEF StartOnLoop
<1>7. CASE Stop
  <2>1. daemon' = "stopped" /\ UNCHANGED <<escaped, published>>
        /\ run' = [c \in Clients |-> IF run[c] = "queued" THEN "ended" ELSE run[c]]
    BY <1>7 DEF Stop
  <2>2. ASSUME NEW r \in Clients  PROVE Concluded(r)'
    <3>1. CASE run[r] = "queued"
      <4>1. VerdictsIn(published[r]) = {} /\ run'[r] = "ended"
        BY <2>1, <3>1 DEF VerdictsInv, Concluded, UnderWay
      <4> QED
        BY <2>1, <4>1 DEF Concluded, UnderWay
    <3>2. CASE run[r] # "queued"
      <4>1. run'[r] = run[r] /\ VerdictsIn(published'[r]) = VerdictsIn(published[r])
        BY <2>1, <3>2
      <4> QED
        BY <2>1, <4>1, VerdictsKept DEF Stays
    <3> QED
      BY <3>1, <3>2
  <2> QED
    BY <2>2 DEF VerdictsInv
<1>8. ASSUME NEW r \in Clients, ReportRefresh(r)  PROVE VerdictsInv'
  <2>1. "agent.memory.failed" \in EventTypes \ Verdicts
    BY DEF EventTypes, Garbled, Verdicts
  <2> QED
    BY <1>8, <2>1, VerdictsOnTheWay DEF ReportRefresh, Stays
<1>9. ASSUME NEW r \in Clients, PublishStarted(r)  PROVE VerdictsInv'
  <2>1. "run.started" \in EventTypes \ Verdicts
    BY DEF EventTypes, Garbled, Verdicts
  <2>2. CASE Goto(r, "engine") /\ UNCHANGED escaped
    <3>1. \A c \in Clients : Stays(c)
      BY <1>1, <1>9, <2>2 DEF PublishStarted, At, Goto, UnderWay, Stays
    <3> QED
      BY <1>9, <2>1, <2>2, <3>1, VerdictsOnTheWay DEF PublishStarted, ThreadOnly
  <2>3. CASE Raise(r)
    <3>1. /\ published'[r] = Append(published[r], "run.started") /\ UNCHANGED daemon
          /\ \A c \in Clients : c # r => published'[c] = published[c]
      BY <1>9, <2>1, PublishEffect DEF PublishStarted, ThreadOnly
    <3>2. VerdictsIn(published[r]) = {}
      BY <1>9 DEF PublishStarted, At, VerdictsInv, Concluded, UnderWay
    <3>3. VerdictsIn(published'[r]) = {}
      BY <1>1, <2>1, <3>1, <3>2, VerdictsGrow
    <3>4. run'[r] = "raised" /\ escaped'[r] = TRUE
      BY <1>1, <2>3 DEF Raise, Goto
    <3>5. Concluded(r)'
      BY <3>3, <3>4 DEF Concluded, UnderWay
    <3>6. ASSUME NEW c \in Clients, c # r  PROVE Concluded(c)'
      <4>1. run'[c] = run[c] /\ escaped'[c] = escaped[c] /\ published'[c] = published[c]
        BY <1>1, <2>3, <3>1, <3>6 DEF Raise, Goto
      <4> QED
        BY <3>1, <4>1 DEF VerdictsInv, Concluded
    <3> QED
      BY <3>5, <3>6 DEF VerdictsInv
  <2> QED
    BY <1>9, <2>2, <2>3 DEF PublishStarted
<1>10. ASSUME NEW r \in Clients, EngineEmits(r) \/ MemoryFails(r) \/ PublishAnswer(r)
       PROVE  VerdictsInv'
  <2>1. PICK type \in EventTypes \ Verdicts : Publish(r, type)
    BY <1>10 DEF EngineEmits, Emit, MemoryFails, PublishAnswer, EventTypes, Garbled, Verdicts
  <2>2. UNCHANGED <<escaped, daemon>>
    BY <1>10 DEF EngineEmits, Emit, MemoryFails, PublishAnswer, ThreadOnly
  <2>3. \A c \in Clients : Stays(c)
    BY <1>1, <1>10 DEF EngineEmits, Emit, MemoryFails, PublishAnswer, At, Goto, UnderWay, Stays
  <2> QED
    BY <2>1, <2>2, <2>3, VerdictsOnTheWay
<1>11. ASSUME NEW r \in Clients, RefreshScheduled(r)  PROVE VerdictsInv'
  <2>1. \A c \in Clients : Stays(c)
    BY <1>1, <1>11 DEF RefreshScheduled, At, Goto, UnderWay, Stays
  <2> QED
    BY <1>2, <1>11, <2>1 DEF RefreshScheduled
<1>12. ASSUME NEW r \in Clients, PublishError(r)  PROVE VerdictsInv'
  <2>1. "agent.error" \in EventTypes /\ "agent.error" \notin Verdicts
    BY DEF EventTypes, Garbled, Verdicts
  <2>2. /\ published'[r] = Append(published[r], "agent.error") /\ UNCHANGED daemon
        /\ \A c \in Clients : c # r => published'[c] = published[c]
    BY <1>12, <2>1, PublishEffect DEF PublishError, ThreadOnly
  <2>3. VerdictsIn(published[r]) = {}
    BY <1>12 DEF PublishError, At, VerdictsInv, Concluded, UnderWay
  <2>4. VerdictsIn(published'[r]) = {}
    BY <1>1, <2>1, <2>2, <2>3, VerdictsGrow
  <2>5. run'[r] = "finishing" /\ \A c \in Clients : c # r => run'[c] = run[c] /\ escaped'[c] = escaped[c]
    BY <1>1, <1>12 DEF PublishError, Goto
  <2>6. Concluded(r)'
    BY <2>4, <2>5 DEF Concluded, UnderWay
  <2>7. ASSUME NEW c \in Clients, c # r  PROVE Concluded(c)'
    BY <2>2, <2>5, <2>7 DEF VerdictsInv, Concluded
  <2> QED
    BY <2>6, <2>7 DEF VerdictsInv
<1>13. ASSUME NEW r \in Clients, Finish(r)  PROVE VerdictsInv'
  <2>1. status[r] \in EventTypes /\ status[r] \in Verdicts
    BY <1>1 DEF EventTypes, Garbled
  <2>2. /\ published'[r] = Append(published[r], status[r]) /\ UNCHANGED daemon
        /\ \A c \in Clients : c # r => published'[c] = published[c]
    BY <1>13, <2>1, PublishEffect DEF Finish, ThreadOnly
  <2>3. VerdictsIn(published[r]) = {}
    BY <1>13 DEF Finish, At, VerdictsInv, Concluded, UnderWay
  <2> DEFINE last == Len(published[r]) + 1
  <2>4. VerdictsIn(published'[r]) = {last} /\ last \in Nat
    BY <1>1, <2>1, <2>2, <2>3, VerdictsGrow
  <2> HIDE DEF last
  <2>5. \/ run'[r] = "raised" /\ escaped'[r] = TRUE
        \/ run'[r] = "ended" /\ escaped'[r] = escaped[r]
    BY <1>1, <1>13 DEF Finish, Goto, Raise
  <2>6. \A c \in Clients : c # r => run'[c] = run[c] /\ escaped'[c] = escaped[c]
    BY <1>1, <1>13 DEF Finish, Goto, Raise
  <2>7. Concluded(r)'
    <3>1. CASE run'[r] = "raised" /\ escaped'[r] = TRUE
      BY <2>4, <3>1 DEF Concluded, UnderWay
    <3>2. CASE run'[r] = "ended"
      <4>1. \E i, j \in Nat : VerdictsIn(published'[r]) \subseteq {i, j} /\ (escaped'[r] \/ i = j)
        BY <2>4
      <4> QED
        BY <2>4, <3>2, <4>1 DEF Concluded, UnderWay
    <3> QED
      BY <2>5, <3>1, <3>2
  <2>8. ASSUME NEW c \in Clients, c # r  PROVE Concluded(c)'
    BY <2>2, <2>6, <2>8 DEF VerdictsInv, Concluded
  <2> QED
    BY <2>7, <2>8 DEF VerdictsInv
<1>14. ASSUME NEW r \in Clients, Report(r)  PROVE VerdictsInv'
  <2>1. /\ published'[r] = published[r] \o <<"agent.error", "failed">>
        /\ \A c \in Clients : c # r => published'[c] = published[c]
    BY <1>14, ReportEffect
  <2>2. PICK i \in Nat : VerdictsIn(published[r]) \subseteq {i} /\ escaped[r]
    BY <1>14 DEF Report, VerdictsInv, Concluded
  <2>3. UNCHANGED <<escaped, daemon>> /\ run'[r] = "ended"
        /\ \A c \in Clients : c # r => run'[c] = run[c]
    BY <1>1, <1>14 DEF Report
  <2> DEFINE last == Len(published[r]) + 2
  <2>4. VerdictsIn(published'[r]) = VerdictsIn(published[r]) \cup {last} /\ last \in Nat
    BY <1>1, <2>1, VerdictsGrow
  <2> HIDE DEF last
  <2>5. Concluded(r)'
    BY <2>2, <2>3, <2>4 DEF Concluded, UnderWay
  <2>6. ASSUME NEW c \in Clients, c # r  PROVE Concluded(c)'
    BY <2>1, <2>3, <2>6 DEF VerdictsInv, Concluded
  <2> QED
    BY <2>5, <2>6 DEF VerdictsInv
<1>15. CASE UNCHANGED vars
  BY <1>2, <1>15 DEF vars, Stays
<1> QED
  BY <1>3, <1>4, <1>5, <1>6, <1>7, <1>8, <1>9, <1>10, <1>11, <1>12, <1>13, <1>14, <1>15
     DEF Next, Loop, Runtime

LEMMA SpecVerdicts == Spec => [](TypesInv /\ StartedOnce /\ VerdictsInv)
<1>1. /\ TypesInv /\ StartedOnce /\ VerdictsInv
      /\ [Next]_vars
      => (TypesInv /\ StartedOnce /\ VerdictsInv)'
  BY TypesNext, StartedOnceNext, VerdictsNext
<1> QED
  BY TypesInit, StartedOnceInit, VerdictsInit, <1>1, PTL DEF Spec

\* A run that is over was given a verdict, whatever raised on the way - its
\* context, its log, its memory, a publication - unless the daemon had stopped:
\* no CLI waits for a verdict that nobody will give.
THEOREM RunsConclude == Spec => []EveryRunConcludes
<1>1. VerdictsInv => EveryRunConcludes
  BY DEF VerdictsInv, Concluded, EveryRunConcludes
<1> QED
  BY SpecVerdicts, <1>1, PTL

\* AgentRuntime.run publishes its verdict in a finally clause and the background
\* task another when run() raised: still no run gets two, unless an exception
\* did escape from it, and none ever gets three.
THEOREM VerdictsAreOne == Spec => []OneVerdict
<1>1. ASSUME TypesInv, VerdictsInv  PROVE OneVerdict
  <2> SUFFICES ASSUME NEW r \in Clients
               PROVE  Cardinality(VerdictsIn(published[r])) <= (IF escaped[r] THEN 2 ELSE 1)
    BY DEF OneVerdict
  <2>1. \E i, j \in Nat : VerdictsIn(published[r]) \subseteq {i, j} /\ (escaped[r] \/ i = j)
    <3>1. run[r] \in UnderWay \/ run[r] = "raised" \/ run[r] = "ended"
      BY <1>1 DEF TypesInv, TypeOK, UnderWay
    <3>2. CASE run[r] \in UnderWay
      <4>1. VerdictsIn(published[r]) \subseteq {0, 0}
        BY <1>1, <3>2 DEF VerdictsInv, Concluded
      <4> QED
        BY <4>1
    <3> QED
      BY <1>1, <3>1, <3>2 DEF VerdictsInv, Concluded
  <2>2. PICK i, j \in Nat : VerdictsIn(published[r]) \subseteq {i, j} /\ (escaped[r] \/ i = j)
    BY <2>1
  <2>3. IsFiniteSet({i, j}) /\ Cardinality({i, j}) <= (IF i = j THEN 1 ELSE 2)
    <3>1. IsFiniteSet({i}) /\ Cardinality({i}) = 1
      BY FS_Singleton
    <3>2. CASE i = j
      BY <3>1, <3>2
    <3>3. CASE i # j
      <4>1. {i, j} = {i} \cup {j} /\ j \notin {i}
        BY <3>3
      <4> QED
        BY <3>1, <3>3, <4>1, FS_AddElement
    <3> QED
      BY <3>2, <3>3
  <2>4. /\ Cardinality(VerdictsIn(published[r])) <= Cardinality({i, j})
        /\ IsFiniteSet(VerdictsIn(published[r]))
    BY <2>2, <2>3, FS_Subset
  <2>5. Cardinality(VerdictsIn(published[r])) \in Nat /\ Cardinality({i, j}) \in Nat
    BY <2>3, <2>4, FS_CardinalityType
  <2> QED
    BY <2>2, <2>3, <2>4, <2>5
<1> QED
  BY SpecVerdicts, <1>1, PTL

-------------------------------------------------------------------------------
(* A success that is announced is true.                                    *)

Honest(message) == message.type = "finished" => status[message.run] = "finished"
HonestEvents == {event \in EventsOf : Honest(event)}
HonestMessages == {message \in Message : Honest(message)}
HonestCallbacks == {callback \in Callbacks : Honest(callback)}

HonestInv ==
  /\ ready \in Seq(HonestCallbacks)
  /\ queue \in [Clients -> Seq(HonestEvents)]
  /\ wire \in [Clients -> Seq(HonestMessages)]
  /\ pending \in [Clients -> Seq(HonestEvents)]
  /\ SuccessIsTrue

LEMMA SequencesGrow == ASSUME NEW S, NEW T, S \subseteq T, NEW s \in Seq(S)  PROVE s \in Seq(T)
OBVIOUS

LEMMA StatusKept ==
  ASSUME \A r \in Clients : status[r] = "finished" => status'[r] = "finished"
  PROVE  /\ HonestEvents \subseteq HonestEvents' /\ HonestMessages \subseteq HonestMessages'
         /\ HonestCallbacks \subseteq HonestCallbacks'
<1>1. ASSUME NEW m, m.run \in Clients, Honest(m)  PROVE Honest(m)'
  BY <1>1 DEF Honest
<1>2. EventsOf' = EventsOf /\ Message' = Message /\ Callbacks' = Callbacks
  BY DEF EventsOf, Message, Callbacks
<1>3. /\ \A m \in EventsOf : m.run \in Clients
      /\ \A m \in Message : m.run \in Clients
      /\ \A m \in Callbacks : m.run \in Clients
  BY DEF EventsOf, Message, Callbacks
<1>4. \A m : m.run \in Clients /\ Honest(m) => Honest(m)'
  BY <1>1
<1> QED
  BY <1>2, <1>3, <1>4 DEF HonestEvents, HonestMessages, HonestCallbacks

LEMMA HonestInit == Init => HonestInv
BY DEF Init, HonestInv, SuccessIsTrue, StillRunning

LEMMA HonestRead ==
  ASSUME HonestInv, NEW c \in Clients, wire[c] # << >>, Read(c)
  PROVE  wire' \in [Clients -> Seq(HonestMessages)] /\ Head(wire[c]) \in HonestMessages
<1>1. wire[c] \in Seq(HonestMessages)
  BY DEF HonestInv
<1>2. Tail(wire[c]) \in Seq(HonestMessages) /\ Head(wire[c]) \in HonestMessages
  BY <1>1, Popped
<1>3. wire' = [wire EXCEPT ![c] = Tail(wire[c])]
  BY DEF Read
<1> QED
  BY <1>2, <1>3 DEF HonestInv

LEMMA HonestShow ==
  ASSUME TypesInv, HonestInv, NEW c \in Clients, NEW event \in HonestEvents, Show(c, event),
         UNCHANGED status
  PROVE  SuccessIsTrue'
<1>1. event.type \in EventTypes /\ (event.type = "finished" => status[event.run] = "finished")
  BY DEF HonestEvents, EventsOf, Honest
<1>2. code \in [Clients -> ExitCodes \cup {StillRunning}]
  BY DEF TypesInv, TypeOK
<1>3. \A d \in Clients : d # c => code'[d] = code[d]
  BY <1>2 DEF Show, Exit
<1>4. code'[c] = code[c] \/ (event.run = c /\ code'[c] = ExitOf(event.type))
  BY <1>2 DEF Show, Exit
<1>5. ExitOf(event.type) = "ok" => event.type = "finished"
  BY DEF ExitOf
<1> QED
  BY <1>1, <1>3, <1>4, <1>5 DEF HonestInv, SuccessIsTrue

LEMMA HonestWrite ==
  ASSUME HonestInv, NEW c \in Clients, NEW who, NEW m \in HonestMessages, Write(c, who, m)
  PROVE  wire' \in [Clients -> Seq(HonestMessages)]
<1>1. wire \in [Clients -> Seq(HonestMessages)]
  BY DEF HonestInv
<1>2. Append(wire[c], m) \in Seq(HonestMessages)
  BY <1>1
<1>3. CASE pc[c] = "exited"
  BY <1>1, <1>3 DEF Write
<1>4. CASE pc[c] # "exited"
  <2>1. wire' = [wire EXCEPT ![c] = Append(wire[c], m)]
    BY <1>4 DEF Write
  <2> QED
    BY <1>1, <1>2, <2>1
<1> QED
  BY <1>3, <1>4

LEMMA HonestNext == ASSUME TypesInv, HonestInv, [Next]_vars  PROVE HonestInv'
<1> USE DEF client, socket, hubs, runs
<1>1. /\ ready \in Seq(HonestCallbacks) /\ queue \in [Clients -> Seq(HonestEvents)]
      /\ wire \in [Clients -> Seq(HonestMessages)] /\ pending \in [Clients -> Seq(HonestEvents)]
      /\ SuccessIsTrue /\ ready \in Seq(Callbacks)
  BY DEF HonestInv, TypesInv, TypeOK, Callbacks
\* The status of a run is as it was.
<1>2. ASSUME UNCHANGED status, ready' \in Seq(HonestCallbacks),
             queue' \in [Clients -> Seq(HonestEvents)],
             wire' \in [Clients -> Seq(HonestMessages)],
             pending' \in [Clients -> Seq(HonestEvents)], SuccessIsTrue'
      PROVE  HonestInv'
  <2>1. HonestCallbacks' = HonestCallbacks /\ HonestEvents' = HonestEvents
        /\ HonestMessages' = HonestMessages
    BY <1>2 DEF HonestCallbacks, HonestEvents, HonestMessages, Honest, Callbacks, EventsOf, Message
  <2> QED
    BY <1>2, <2>1 DEF HonestInv
\* The engine returned: the status becomes "finished".
<1>3. ASSUME NEW r \in Clients, status' = [status EXCEPT ![r] = "finished"],
             ready' = ready \/ \E type \in EventTypes : type # "finished" /\ Publish(r, type),
             UNCHANGED <<queue, wire, pending, code>>
      PROVE  HonestInv'
  <2>1. status \in [Clients -> Verdicts]
    BY DEF TypesInv, TypeOK
  <2>2. \A c \in Clients : status[c] = "finished" => status'[c] = "finished"
    BY <1>3, <2>1
  <2>3. /\ HonestEvents \subseteq HonestEvents' /\ HonestMessages \subseteq HonestMessages'
        /\ HonestCallbacks \subseteq HonestCallbacks'
    BY <2>2, StatusKept
  <2>4. \A c \in Clients : /\ queue[c] \in Seq(HonestEvents') /\ wire[c] \in Seq(HonestMessages')
                           /\ pending[c] \in Seq(HonestEvents')
    BY <1>1, <2>3, SequencesGrow
  <2>5. ready' \in Seq(HonestCallbacks')
    <3>1. ready \in Seq(HonestCallbacks')
      BY <1>1, <2>3, SequencesGrow
    <3>2. CASE \E type \in EventTypes : type # "finished" /\ Publish(r, type)
      <4>1. PICK type \in EventTypes : type # "finished" /\ Publish(r, type)
        BY <3>2
      <4>2. Callback("publish", r, type) \in Callbacks' /\ Honest(Callback("publish", r, type))'
        BY <4>1 DEF Callback, Callbacks, Honest
      <4>3. Callback("publish", r, type) \in HonestCallbacks'
        BY <4>2 DEF HonestCallbacks
      <4>4. Append(ready, Callback("publish", r, type)) \in Seq(HonestCallbacks')
        BY <3>1, <4>3
      <4> QED
        BY <3>1, <4>1, <4>4 DEF Publish
    <3> QED
      BY <1>3, <3>1, <3>2
  <2>6. SuccessIsTrue'
    BY <1>1, <1>3, <2>2 DEF SuccessIsTrue
  <2>7. queue' \in [Clients -> Seq(HonestEvents')] /\ wire' \in [Clients -> Seq(HonestMessages')]
        /\ pending' \in [Clients -> Seq(HonestEvents')]
    BY <1>1, <1>3, <2>4
  <2> QED
    BY <2>5, <2>6, <2>7 DEF HonestInv
<1>4. ASSUME UNCHANGED <<code, status>>  PROVE SuccessIsTrue'
  BY <1>1, <1>4 DEF SuccessIsTrue
<1>5. ASSUME NEW c \in Clients, NEW x \in {"error", "interrupted"}, Exit(c, x), UNCHANGED status
      PROVE  SuccessIsTrue'
  BY <1>1, <1>5 DEF Exit, SuccessIsTrue, TypesInv, TypeOK
<1>6. ASSUME NEW c \in Clients, Connect(c) \/ ConnectFails(c) \/ Quit(c) \/ ReadEof(c)
      PROVE  HonestInv'
  <2>1. UNCHANGED <<status, ready, queue, wire, pending>>
    BY <1>6 DEF Connect, ConnectFails, Quit, ReadEof
  <2>2. SuccessIsTrue'
    BY <1>4, <1>5, <1>6 DEF Connect, ConnectFails, Quit, ReadEof
  <2> QED
    BY <1>1, <1>2, <2>1, <2>2
<1>7. ASSUME NEW c \in Clients, NEW m \in HonestMessages, IsEventPush(m)  PROVE m \in HonestEvents
  BY <1>7 DEF HonestMessages, HonestEvents, Message, EventsOf, IsEventPush, Honest
<1>8. ASSUME NEW c \in Clients, ReadEarlyEvent(c)  PROVE HonestInv'
  <2>1. wire[c] # << >> /\ Read(c) /\ UNCHANGED <<status, ready, queue, code>>
    BY <1>8 DEF ReadEarlyEvent, Reading
  <2>2. wire' \in [Clients -> Seq(HonestMessages)] /\ Head(wire[c]) \in HonestEvents
    BY <1>7, <1>8, <2>1, HonestRead DEF ReadEarlyEvent
  <2>3. Append(pending[c], Head(wire[c])) \in Seq(HonestEvents)
    BY <1>1, <2>2
  <2>4. pending' = [pending EXCEPT ![c] = Append(pending[c], Head(wire[c]))]
    BY <1>8 DEF ReadEarlyEvent
  <2>5. pending' \in [Clients -> Seq(HonestEvents)]
    BY <1>1, <2>3, <2>4
  <2> QED
    BY <1>1, <1>2, <1>4, <2>1, <2>2, <2>5
<1>9. ASSUME NEW c \in Clients, ReadSubscribed(c) \/ ReadAccepted(c) \/ ReadRefused(c)
      PROVE  HonestInv'
  <2>1. wire[c] # << >> /\ Read(c) /\ UNCHANGED <<status, ready, queue, pending>>
    BY <1>9 DEF ReadSubscribed, ReadAccepted, ReadRefused, Reading
  <2>2. SuccessIsTrue'
    BY <1>4, <1>5, <1>9 DEF ReadSubscribed, ReadAccepted, ReadRefused
  <2> QED
    BY <1>1, <1>2, <2>1, <2>2, HonestRead
<1>10. ASSUME NEW c \in Clients, ShowPending(c)  PROVE HonestInv'
  <2>1. pending[c] # << >> /\ pending[c] \in Seq(HonestEvents)
    BY <1>1, <1>10 DEF ShowPending
  <2>2. Head(pending[c]) \in HonestEvents /\ Tail(pending[c]) \in Seq(HonestEvents)
    BY <2>1, Popped
  <2>3. pending' \in [Clients -> Seq(HonestEvents)]
    BY <1>1, <1>10, <2>2 DEF ShowPending
  <2>4. UNCHANGED <<status, ready, queue, wire>> /\ Show(c, Head(pending[c]))
    BY <1>10 DEF ShowPending
  <2>5. SuccessIsTrue'
    BY <2>2, <2>4, HonestShow
  <2> QED
    BY <1>1, <1>2, <2>3, <2>4, <2>5
<1>11. ASSUME NEW c \in Clients, ReadEvent(c)  PROVE HonestInv'
  <2>1. wire[c] # << >> /\ Read(c) /\ UNCHANGED <<status, ready, queue, pending>>
        /\ Show(c, Head(wire[c])) /\ IsEventPush(Head(wire[c]))
    BY <1>11 DEF ReadEvent, Reading
  <2>2. wire' \in [Clients -> Seq(HonestMessages)] /\ Head(wire[c]) \in HonestEvents
    BY <1>7, <2>1, HonestRead
  <2>3. SuccessIsTrue'
    BY <2>1, <2>2, HonestShow
  <2> QED
    BY <1>1, <1>2, <2>1, <2>2, <2>3
<1>12. ASSUME NEW c \in Clients, Subscribe(c) \/ RefuseRun(c) \/ StartRun(c)  PROVE HonestInv'
  <2>1. PICK reply \in Replies : Answer(c, reply)
    BY <1>12 DEF Subscribe, RefuseRun, StartRun, Replies
  <2>2. Event(c, reply) \in HonestMessages
    BY DEF Event, HonestMessages, Message, Honest, Replies
  <2>3. wire' \in [Clients -> Seq(HonestMessages)]
    BY <2>1, <2>2, HonestWrite DEF Answer
  <2>4. Callback("start", c, "none") \in HonestCallbacks
    BY DEF Callback, HonestCallbacks, Callbacks, Honest
  <2>5. Append(ready, Callback("start", c, "none")) \in Seq(HonestCallbacks)
    BY <1>1, <2>4
  <2>6. ready' \in Seq(HonestCallbacks) /\ UNCHANGED <<status, code, queue, pending>>
    BY <1>1, <1>12, <2>5 DEF Subscribe, RefuseRun, StartRun
  <2> QED
    BY <1>1, <1>2, <1>4, <2>3, <2>6
<1>13. ASSUME NEW c \in Clients, Disconnected(c)  PROVE HonestInv'
  <2>1. Callback("remove", c, "none") \in HonestCallbacks
    BY DEF Callback, HonestCallbacks, Callbacks, Honest
  <2>2. Append(ready, Callback("remove", c, "none")) \in Seq(HonestCallbacks)
    BY <1>1, <2>1
  <2>3. ready' \in Seq(HonestCallbacks) /\ UNCHANGED <<status, code, queue, pending, wire>>
    BY <1>13, <2>2 DEF Disconnected
  <2> QED
    BY <1>1, <1>2, <1>4, <2>3
<1>14. ASSUME NEW c \in Clients, Send(c)  PROVE HonestInv'
  <2>1. queue[c] # << >> /\ queue[c] \in Seq(HonestEvents)
    BY <1>1, <1>14 DEF Send, SendsNext
  <2>2. Head(queue[c]) \in HonestEvents /\ Tail(queue[c]) \in Seq(HonestEvents)
    BY <2>1, Popped
  <2>3. Head(queue[c]) \in HonestMessages
    BY <2>2 DEF HonestEvents, HonestMessages, EventsOf, Message
  <2>4. wire' \in [Clients -> Seq(HonestMessages)]
    BY <1>14, <2>3, HonestWrite DEF Send
  <2>5. queue' \in [Clients -> Seq(HonestEvents)]
    BY <1>1, <1>14, <2>2 DEF Send, SendsNext
  <2>6. UNCHANGED <<status, code, ready, pending>>
    BY <1>14 DEF Send, SendsNext
  <2> QED
    BY <1>1, <1>2, <1>4, <2>4, <2>5, <2>6
<1>26. ASSUME NEW c \in Clients, SendDies(c)  PROVE HonestInv'
  <2>1. queue[c] # << >> /\ queue[c] \in Seq(HonestEvents)
    BY <1>1, <1>26 DEF SendDies, SendsNext
  <2>2. Tail(queue[c]) \in Seq(HonestEvents)
    BY <2>1, Popped
  <2>3. queue' \in [Clients -> Seq(HonestEvents)]
    BY <1>1, <1>26, <2>2 DEF SendDies, SendsNext
  <2>4. UNCHANGED <<status, code, ready, pending, wire>>
    BY <1>26 DEF SendDies, SendsNext
  <2> QED
    BY <1>1, <1>2, <1>4, <2>3, <2>4
<1>15. ASSUME NEW c \in Clients, SendFails(c)  PROVE HonestInv'
  <2>1. queue' \in [Clients -> Seq(HonestEvents)]
    BY <1>1, <1>15 DEF SendFails
  <2> QED
    BY <1>1, <1>2, <1>4, <1>15, <2>1 DEF SendFails
<1>16. ASSUME ready # << >>, ready' = Tail(ready)
       PROVE  /\ ready' \in Seq(HonestCallbacks) /\ Head(ready) \in HonestCallbacks
              /\ CallbackHasEvent(Head(ready))
  BY <1>1, <1>16, Popped, ReadyPopped
<1>17. CASE PublishOnLoop
  <2>1. ready # << >> /\ ready' = Tail(ready) /\ Head(ready).do = "publish"
    BY <1>17 DEF PublishOnLoop, NextCallback
  <2> DEFINE event == Event(Head(ready).run, Head(ready).type)
  <2>2. event \in HonestEvents
    BY <1>16, <2>1 DEF Event, HonestEvents, HonestCallbacks, EventsOf, Callbacks, Honest,
                       CallbackHasEvent
  <2>3. queue' = [c \in Clients |->
                   IF hub[c] # "subscribed" THEN queue[c]
                   ELSE IF Full(c) THEN << >> ELSE Append(queue[c], event)]
    BY <1>17 DEF PublishOnLoop
  <2> HIDE DEF event
  <2>4. ASSUME NEW c \in Clients  PROVE queue'[c] \in Seq(HonestEvents)
    <3>1. queue[c] \in Seq(HonestEvents) /\ Append(queue[c], event) \in Seq(HonestEvents)
      BY <1>1, <2>2
    <3> QED
      BY <2>3, <3>1
  <2>5. queue' \in [Clients -> Seq(HonestEvents)]
    BY <2>3, <2>4
  <2>6. UNCHANGED <<status, code, wire, pending>>
    BY <1>17 DEF PublishOnLoop
  <2> QED
    BY <1>1, <1>2, <1>4, <1>16, <2>1, <2>5, <2>6
<1>18. CASE RemoveOnLoop \/ StartOnLoop
  <2>1. ready # << >> /\ ready' = Tail(ready) /\ UNCHANGED <<status, code, wire, pending>>
    BY <1>18 DEF RemoveOnLoop, StartOnLoop, NextCallback
  <2>2. queue' \in [Clients -> Seq(HonestEvents)]
    <3>1. CASE RemoveOnLoop
      <4>1. << >> \in Seq(HonestEvents) /\ queue' = [queue EXCEPT ![Head(ready).run] = << >>]
        BY <3>1 DEF RemoveOnLoop
      <4> QED
        BY <1>1, <4>1
    <3>2. CASE StartOnLoop
      BY <1>1, <3>2 DEF StartOnLoop
    <3> QED
      BY <1>18, <3>1, <3>2
  <2> QED
    BY <1>1, <1>2, <1>4, <1>16, <2>1, <2>2
<1>19. CASE Shutdown
  BY <1>1, <1>2, <1>4, <1>19 DEF Shutdown
<1>20. CASE Stop
  <2>1. PICK kept \in [Clients -> 0 .. HighWater + 2] :
          /\ \A c \in Clients : kept[c] <= Len(wire[c])
          /\ wire' = [c \in Clients |-> SubSeq(wire[c], 1, kept[c])]
    BY <1>20 DEF Stop
  <2>2. ASSUME NEW c \in Clients  PROVE wire'[c] \in Seq(HonestMessages)
    <3>1. wire[c] \in Seq(HonestMessages) /\ kept[c] \in Nat
      BY <1>1, RunStreamAssumption
    <3> QED
      BY <2>1, <3>1, Front
  <2>3. wire' \in [Clients -> Seq(HonestMessages)]
    BY <2>1, <2>2
  <2>4. queue' \in [Clients -> Seq(HonestEvents)] /\ ready' \in Seq(HonestCallbacks)
        /\ UNCHANGED <<status, code, pending>>
    BY <1>20 DEF Stop
  <2> QED
    BY <1>1, <1>2, <1>4, <2>3, <2>4
<1>21. ASSUME NEW r \in Clients, NEW type \in EventTypes, Publish(r, type),
              type = "finished" => status[r] = "finished",
              UNCHANGED <<status, code, queue, wire, pending>>
       PROVE  HonestInv'
  <2>1. Callback("publish", r, type) \in HonestCallbacks
    BY <1>21 DEF Callback, HonestCallbacks, Callbacks, Honest
  <2>2. Append(ready, Callback("publish", r, type)) \in Seq(HonestCallbacks)
    BY <1>1, <2>1
  <2>3. ready' \in Seq(HonestCallbacks)
    BY <1>1, <1>21, <2>2 DEF Publish
  <2> QED
    BY <1>1, <1>2, <1>4, <1>21, <2>3
<1>22. ASSUME NEW r \in Clients,
              PublishStarted(r) \/ EngineEmits(r) \/ PublishError(r) \/ ReportRefresh(r) \/ Finish(r)
       PROVE  HonestInv'
  <2>1. UNCHANGED <<status, code, queue, wire, pending>>
    BY <1>22 DEF PublishStarted, EngineEmits, Emit, PublishError, ReportRefresh, Finish, ThreadOnly
  <2>2. status[r] \in EventTypes
    BY DEF TypesInv, TypeOK, EventTypes, Garbled
  <2>3. \E type \in EventTypes : Publish(r, type) /\ (type = "finished" => status[r] = "finished")
    <3>1. CASE Finish(r)
      BY <2>2, <3>1 DEF Finish
    <3>2. CASE PublishStarted(r) \/ EngineEmits(r) \/ PublishError(r) \/ ReportRefresh(r)
      BY <3>2 DEF PublishStarted, EngineEmits, Emit, PublishError, ReportRefresh, EventTypes, Garbled
    <3> QED
      BY <1>22, <3>1, <3>2
  <2> QED
    BY <1>21, <2>1, <2>3
<1>23. ASSUME NEW r \in Clients, MemoryFails(r) \/ RefreshScheduled(r) \/ PublishAnswer(r)
       PROVE  HonestInv'
  <2>1. status' = [status EXCEPT ![r] = "finished"] /\ UNCHANGED <<queue, wire, pending, code>>
    BY <1>23 DEF MemoryFails, RefreshScheduled, PublishAnswer, ThreadOnly
  <2>2. ready' = ready \/ \E type \in EventTypes : type # "finished" /\ Publish(r, type)
    BY <1>23 DEF MemoryFails, RefreshScheduled, PublishAnswer, EventTypes, Garbled, Verdicts
  <2> QED
    BY <1>3, <2>1, <2>2
<1>24. ASSUME NEW r \in Clients, Report(r)  PROVE HonestInv'
  <2> DEFINE first == Callback("publish", r, "agent.error")
             second == Callback("publish", r, "failed")
  <2>1. first \in HonestCallbacks /\ second \in HonestCallbacks
    BY DEF Callback, HonestCallbacks, Callbacks, Honest, EventTypes, Garbled, Verdicts
  <2>2. ready' = ready \o <<first, second>> /\ UNCHANGED <<status, code, queue, wire, pending>>
    BY <1>24 DEF Report
  <2> HIDE DEF first, second
  <2>3. ready' \in Seq(HonestCallbacks)
    BY <1>1, <2>1, <2>2, Two
  <2> QED
    BY <1>1, <1>2, <1>4, <2>2, <2>3
<1>25. CASE UNCHANGED vars
  BY <1>1, <1>2, <1>4, <1>25 DEF vars
<1> QED
  BY <1>6, <1>8, <1>9, <1>10, <1>11, <1>12, <1>13, <1>14, <1>15, <1>17, <1>18, <1>19, <1>20, <1>22,
     <1>23, <1>24, <1>25, <1>26 DEF Next, Cli, Connection, Loop, Runtime

\* Exit code 0 is given only for a run whose engine returned an answer, however
\* many hands the announcement went through: the bus, the loop's callbacks, the
\* hub's queue, the socket and the events read too early.
THEOREM SuccessIsNoRumour == Spec => []SuccessIsTrue
<1>1. TypesInv /\ HonestInv /\ [Next]_vars => (TypesInv /\ HonestInv)'
  BY TypesNext, HonestNext
<1>2. HonestInv => SuccessIsTrue
  BY DEF HonestInv
<1> QED
  BY TypesInit, HonestInit, <1>1, <1>2, PTL DEF Spec

-------------------------------------------------------------------------------
(* The stream of a run on its way to its CLI.                              *)

Own(c, message) == message.run = c /\ message.type \in EventTypes

\* s carries the events of c's run from the one after number `from` to number
\* `to`, each once and in order, among others that are not c's: f counts them.
Counts(f, events, c, s) ==
  \A i \in 1..Len(s) :
    IF Own(c, s[i]) THEN f[i] = f[i-1] + 1 /\ s[i].type = events[f[i]] ELSE f[i] = f[i-1]

Carries(events, c, s, from, to) ==
  \E f \in [0..Len(s) -> 0..Len(events)] :
    f[0] = from /\ f[Len(s)] = to /\ Counts(f, events, c, s)

LEMMA CarriesBounds ==
  ASSUME NEW events \in Seq(EventTypes), NEW c, NEW S, NEW s \in Seq(S), NEW from, NEW to,
         Carries(events, c, s, from, to)
  PROVE  from \in 0..Len(events) /\ to \in 0..Len(events) /\ Len(events) \in Nat
<1>1. Len(s) \in Nat /\ Len(events) \in Nat
  OBVIOUS
<1> QED
  BY <1>1 DEF Carries

LEMMA CarriesNothing ==
  ASSUME NEW events \in Seq(EventTypes), NEW c
  PROVE  /\ \A n \in 0..Len(events) : Carries(events, c, << >>, n, n)
         /\ \A from, to : Carries(events, c, << >>, from, to) => from = to
<1>1. Len(<< >>) = 0
  OBVIOUS
<1>2. ASSUME NEW n \in 0..Len(events)  PROVE Carries(events, c, << >>, n, n)
  <2> DEFINE f == [i \in 0..0 |-> n]
  <2>1. f \in [0..Len(<< >>) -> 0..Len(events)] /\ f[0] = n /\ f[Len(<< >>)] = n
    BY <1>1
  <2>2. Counts(f, events, c, << >>)
    BY <1>1 DEF Counts
  <2> QED
    BY <2>1, <2>2 DEF Carries
<1>3. ASSUME NEW from, NEW to, Carries(events, c, << >>, from, to)  PROVE from = to
  BY <1>1, <1>3 DEF Carries
<1> QED
  BY <1>2, <1>3

\* A stream without events carries none.
LEMMA CarriesNone ==
  ASSUME NEW c, NEW S, NEW s \in Seq(S), NEW from, NEW to, Carries(<< >>, c, s, from, to)
  PROVE  from = 0 /\ to = 0
<1>1. Len(s) \in Nat /\ Len(<< >>) = 0
  OBVIOUS
<1> QED
  BY <1>1 DEF Carries

LEMMA CarriesMore ==
  ASSUME NEW events \in Seq(EventTypes), NEW more \in Seq(EventTypes),
         Len(events) <= Len(more), \A i \in 1..Len(events) : more[i] = events[i],
         NEW c, NEW S, NEW s \in Seq(S), NEW from, NEW to, Carries(events, c, s, from, to)
  PROVE  Carries(more, c, s, from, to)
<1>1. Len(s) \in Nat /\ Len(events) \in Nat /\ Len(more) \in Nat
  OBVIOUS
<1>2. PICK f \in [0..Len(s) -> 0..Len(events)] :
        f[0] = from /\ f[Len(s)] = to /\ Counts(f, events, c, s)
  BY DEF Carries
<1>3. f \in [0..Len(s) -> 0..Len(more)]
  BY <1>1
<1>4. ASSUME NEW i \in 1..Len(s), Own(c, s[i])
      PROVE  f[i] = f[i-1] + 1 /\ s[i].type = more[f[i]]
  <2>1. f[i] = f[i-1] + 1 /\ s[i].type = events[f[i]]
    BY <1>2, <1>4 DEF Counts
  <2>2. f[i-1] \in 0..Len(events) /\ f[i] \in 0..Len(events)
    <3>1. i \in 0..Len(s) /\ i - 1 \in 0..Len(s)
      BY <1>1
    <3> QED
      BY <1>2, <3>1
  <2>3. f[i] \in 1..Len(events)
    BY <1>1, <2>1, <2>2
  <2> QED
    BY <2>1, <2>3
<1>5. Counts(f, more, c, s)
  BY <1>2, <1>4 DEF Counts
<1> QED
  BY <1>2, <1>3, <1>5 DEF Carries

LEMMA CarriesAppend ==
  ASSUME NEW events \in Seq(EventTypes), NEW c, NEW S, NEW s \in Seq(S), NEW m \in S,
         NEW from, NEW to, Carries(events, c, s, from, to),
         NEW n, n = IF Own(c, m) THEN to + 1 ELSE to,
         Own(c, m) => to + 1 <= Len(events) /\ m.type = events[to + 1]
  PROVE  Carries(events, c, Append(s, m), from, n)
<1> DEFINE t == Append(s, m)
           k == Len(s) + 1
<1>1. /\ Len(s) \in Nat /\ Len(events) \in Nat /\ Len(t) = k /\ k \in Nat /\ t[k] = m
      /\ \A i \in 1..Len(s) : t[i] = s[i]
  BY Appended
<1>2. PICK f \in [0..Len(s) -> 0..Len(events)] :
        f[0] = from /\ f[Len(s)] = to /\ Counts(f, events, c, s)
  BY DEF Carries
<1>3. n \in 0..Len(events)
  BY <1>1, <1>2
<1> DEFINE g == [i \in 0..k |-> IF i = k THEN n ELSE f[i]]
<1>4. g \in [0..k -> 0..Len(events)]
  BY <1>1, <1>2, <1>3
<1>5. g[0] = from /\ g[k] = n /\ g[k-1] = to
  BY <1>1, <1>2
<1>6. ASSUME NEW i \in 1..k
      PROVE  IF Own(c, t[i]) THEN g[i] = g[i-1] + 1 /\ t[i].type = events[g[i]] ELSE g[i] = g[i-1]
  <2>1. CASE i = k
    BY <1>1, <1>5, <2>1
  <2>2. CASE i # k
    <3>1. i \in 1..Len(s) /\ i - 1 \in 0..Len(s) /\ i - 1 # k
      BY <1>1, <2>2
    <3>2. g[i] = f[i] /\ g[i-1] = f[i-1]
      BY <1>1, <2>2, <3>1
    <3> QED
      BY <1>1, <1>2, <3>1, <3>2 DEF Counts
  <2> QED
    BY <2>1, <2>2
<1> HIDE DEF g, t, k
<1>7. Counts(g, events, c, t)
  BY <1>1, <1>6 DEF Counts
<1>8. Carries(events, c, t, from, n)
  BY <1>1, <1>4, <1>5, <1>7 DEF Carries
<1> QED
  BY <1>8 DEF t

LEMMA CarriesPop ==
  ASSUME NEW events \in Seq(EventTypes), NEW c, NEW S, NEW s \in Seq(S), s # << >>,
         NEW from, NEW to, Carries(events, c, s, from, to)
  PROVE  IF Own(c, Head(s))
         THEN /\ from + 1 \in 1..Len(events) /\ Head(s).type = events[from + 1]
              /\ Carries(events, c, Tail(s), from + 1, to)
         ELSE Carries(events, c, Tail(s), from, to)
<1> DEFINE t == Tail(s)
           k == Len(t)
<1>1. /\ Len(s) \in Nat /\ Len(events) \in Nat /\ Len(s) > 0 /\ Head(s) = s[1]
      /\ k = Len(s) - 1 /\ k \in Nat
      /\ \A i \in 1..k : t[i] = s[i + 1] /\ i + 1 \in 1..Len(s)
  BY Popped
<1>2. PICK f \in [0..Len(s) -> 0..Len(events)] :
        f[0] = from /\ f[Len(s)] = to /\ Counts(f, events, c, s)
  BY DEF Carries
<1> DEFINE g == [i \in 0..k |-> f[i + 1]]
<1>3. \A i \in 0..k : i + 1 \in 0..Len(s)
  BY <1>1
<1>4. g \in [0..k -> 0..Len(events)]
  BY <1>2, <1>3
<1>5. g[0] = f[1] /\ g[k] = to
  BY <1>1, <1>2
<1>6. ASSUME NEW i \in 1..k
      PROVE  IF Own(c, t[i]) THEN g[i] = g[i-1] + 1 /\ t[i].type = events[g[i]] ELSE g[i] = g[i-1]
  <2>1. i + 1 \in 1..Len(s) /\ t[i] = s[i + 1] /\ g[i] = f[i + 1]
    BY <1>1
  <2>2. g[i-1] = f[i] /\ (i + 1) - 1 = i
    BY <1>1
  <2>3. IF Own(c, s[i + 1]) THEN f[i + 1] = f[i] + 1 /\ s[i + 1].type = events[f[i + 1]]
        ELSE f[i + 1] = f[i]
    BY <1>2, <2>1, <2>2 DEF Counts
  <2> QED
    BY <2>1, <2>2, <2>3
<1>7. IF Own(c, s[1]) THEN f[1] = f[0] + 1 /\ s[1].type = events[f[1]] ELSE f[1] = f[0]
  <2>1. 1 \in 1..Len(s) /\ 1 - 1 = 0
    BY <1>1
  <2> QED
    BY <1>2, <2>1 DEF Counts
<1>8. f[1] \in 0..Len(events) /\ f[0] \in 0..Len(events)
  BY <1>1, <1>2
<1> HIDE DEF g
<1>9. Carries(events, c, t, f[1], to)
  <2> HIDE DEF t
  <2>1. Counts(g, events, c, t)
    BY <1>6 DEF Counts
  <2> QED
    BY <1>4, <1>5, <2>1 DEF Carries
<1> QED
  BY <1>1, <1>2, <1>7, <1>8, <1>9

LEMMA CarriesFront ==
  ASSUME NEW events \in Seq(EventTypes), NEW c, NEW S, NEW s \in Seq(S), NEW k \in Nat, k <= Len(s),
         NEW from, NEW to, Carries(events, c, s, from, to)
  PROVE  \E n \in Nat : Carries(events, c, SubSeq(s, 1, k), from, n)
<1> DEFINE t == SubSeq(s, 1, k)
<1>1. Len(s) \in Nat /\ Len(events) \in Nat /\ Len(t) = k /\ \A i \in 1..k : t[i] = s[i]
  BY Front
<1>2. PICK f \in [0..Len(s) -> 0..Len(events)] :
        f[0] = from /\ f[Len(s)] = to /\ Counts(f, events, c, s)
  BY DEF Carries
<1> DEFINE g == [i \in 0..k |-> f[i]]
<1>3. g \in [0..k -> 0..Len(events)] /\ g[0] = from /\ g[k] \in Nat
  BY <1>1, <1>2
<1>4. ASSUME NEW i \in 1..k
      PROVE  IF Own(c, t[i]) THEN g[i] = g[i-1] + 1 /\ t[i].type = events[g[i]] ELSE g[i] = g[i-1]
  <2>1. i \in 1..Len(s) /\ t[i] = s[i] /\ g[i] = f[i] /\ g[i-1] = f[i-1]
    BY <1>1
  <2>2. IF Own(c, s[i]) THEN f[i] = f[i-1] + 1 /\ s[i].type = events[f[i]] ELSE f[i] = f[i-1]
    BY <1>2, <2>1 DEF Counts
  <2> QED
    BY <2>1, <2>2
<1> HIDE DEF g, t
<1>5. Counts(g, events, c, t)
  BY <1>1, <1>4 DEF Counts
<1>6. Carries(events, c, t, from, g[k])
  BY <1>1, <1>3, <1>5 DEF Carries
<1> QED
  BY <1>3, <1>6 DEF t

-------------------------------------------------------------------------------
(* Where a client stands when its run begins: subscribed, or dropped.      *)

\* No message tells the client that it is subscribed.
NotTold(c) == \A i \in 1..Len(wire[c]) : wire[c][i].type # "subscribed"

SubscribedFirst ==
  \A c \in Clients :
    /\ pc[c] = "connecting" => hub[c] = "absent" /\ handler[c] = "none" /\ wire[c] = << >>
    /\ hub[c] = "registered" /\ pc[c] # "exited" => pc[c] = "subscribing" /\ NotTold(c)
    /\ hub[c] # "absent" => daemon # "stopped"

SilentBefore == \A r \in Clients : run[r] = "none" => published[r] = << >> /\ ~refreshing[r]

CodeAtExit == \A c \in Clients : pc[c] # "exited" <=> code[c] = StillRunning

LEMMA ShowExits ==
  ASSUME TypesInv, CodeAtExit, NEW c \in Clients, NEW event \in EventsOf, Show(c, event),
         pc[c] = "streaming"
  PROVE  /\ CodeAtExit'
         /\ \A d \in Clients : pc'[d] = pc[d] \/ pc'[d] = "exited"
<1>1. pc \in [Clients -> {"connecting", "subscribing", "starting", "streaming", "exited"}]
      /\ code \in [Clients -> ExitCodes \cup {StillRunning}]
  BY DEF TypesInv, TypeOK
<1>2. ExitOf(event.type) # StillRunning
  BY DEF ExitOf, StillRunning
<1>3. CASE UNCHANGED <<pc, code>>
  BY <1>3 DEF CodeAtExit
<1>4. CASE Exit(c, ExitOf(event.type))
  BY <1>1, <1>2, <1>4 DEF Exit, CodeAtExit
<1> QED
  BY <1>3, <1>4 DEF Show

\* What a step of a CLI does to where it stands.
LEMMA CliMoves ==
  ASSUME TypesInv, CodeAtExit, NEW c \in Clients,
         ConnectFails(c) \/ Quit(c) \/ Cli(c)
  PROVE  /\ CodeAtExit' /\ UNCHANGED <<hub, handler, daemon, run, published, refreshing>>
         /\ \A d \in Clients : \/ pc'[d] = pc[d] \/ pc'[d] = "exited"
                               \/ d = c /\ ReadSubscribed(c)
                               \/ d = c /\ ReadAccepted(c)
         /\ pc[c] = "connecting" => UNCHANGED wire
         /\ \/ UNCHANGED wire \/ (wire[c] # << >> /\ Read(c))
<1> USE DEF client, socket, hubs, runs
<1>1. pc \in [Clients -> {"connecting", "subscribing", "starting", "streaming", "exited"}]
      /\ code \in [Clients -> ExitCodes \cup {StillRunning}]
  BY DEF TypesInv, TypeOK
<1>2. ASSUME NEW x \in {"error", "interrupted"}, Exit(c, x)
      PROVE  CodeAtExit' /\ \A d \in Clients : pc'[d] = pc[d] \/ pc'[d] = "exited"
  BY <1>1, <1>2 DEF Exit, CodeAtExit, StillRunning
<1>3. CASE ConnectFails(c) \/ Quit(c) \/ ReadEof(c)
  BY <1>2, <1>3 DEF ConnectFails, Quit, ReadEof
<1>4. CASE ReadRefused(c)
  BY <1>2, <1>4 DEF ReadRefused, Reading
<1>5. CASE ReadEarlyEvent(c)
  BY <1>5 DEF ReadEarlyEvent, Reading, CodeAtExit
<1>6. CASE ReadSubscribed(c)
  BY <1>1, <1>6 DEF ReadSubscribed, Reading, CodeAtExit
<1>7. CASE ReadAccepted(c)
  BY <1>1, <1>7 DEF ReadAccepted, Reading, CodeAtExit
<1>8. CASE ShowPending(c)
  <2>1. pending[c] \in Seq(EventsOf) /\ pending[c] # << >>
    BY <1>8 DEF ShowPending, TypesInv, TypeOK, EventsOf
  <2>2. Head(pending[c]) \in EventsOf
    BY <2>1, Popped
  <2> QED
    BY <1>8, <2>2, ShowExits DEF ShowPending
<1>9. CASE ReadEvent(c)
  <2>1. wire[c] # << >> /\ Read(c) /\ wire \in [Clients -> Seq(Message)]
    BY <1>9 DEF ReadEvent, Reading, TypesInv, TypeOK
  <2>2. Head(wire[c]) \in EventsOf
    BY <1>9, <2>1, ReadEffect DEF ReadEvent, IsEventPush, Message, EventsOf
  <2> QED
    BY <1>9, <2>1, <2>2, ShowExits DEF ReadEvent, Reading
<1> QED
  BY <1>3, <1>4, <1>5, <1>6, <1>7, <1>8, <1>9 DEF Cli

LEMMA SilentNext ==
  ASSUME TypesInv, StartedOnce, SilentBefore, [Next]_vars
  PROVE  SilentBefore'
<1> USE DEF client, socket, hubs, runs
<1>1. /\ run \in [Clients -> UnderWay \cup {"raised", "ended"}]
      /\ published \in [Clients -> Seq(EventTypes)] /\ refreshing \in [Clients -> BOOLEAN]
  BY DEF TypesInv, TypeOK, UnderWay
<1>2. ASSUME UNCHANGED <<published, refreshing>>,
             \A r \in Clients : run'[r] = "none" => run[r] = "none"
      PROVE  SilentBefore'
  BY <1>2 DEF SilentBefore
<1>3. ASSUME NEW r \in Clients, run[r] # "none", run'[r] # "none",
             \A c \in Clients : c # r => run'[c] = run[c] /\ published'[c] = published[c]
                                         /\ refreshing'[c] = refreshing[c]
      PROVE  SilentBefore'
  BY <1>3 DEF SilentBefore
<1>4. ASSUME NEW c \in Clients, Connect(c) \/ ConnectFails(c) \/ Quit(c) \/ Cli(c)
                                \/ Connection(c) \/ Send(c) \/ SendDies(c) \/ SendFails(c)
      PROVE  SilentBefore'
  <2>1. UNCHANGED <<published, refreshing>> /\ (UNCHANGED run \/ StartRun(c))
    BY <1>4 DEF Connect, ConnectFails, Quit, Cli, ReadEarlyEvent, ReadSubscribed, ReadAccepted,
                ShowPending, ReadRefused, ReadEvent, ReadEof, Connection, Subscribe, StartRun,
                RefuseRun, Disconnected, Send, SendDies, SendsNext, SendFails
  <2>2. \A r \in Clients : run'[r] = "none" => run[r] = "none"
    BY <1>1, <2>1 DEF StartRun
  <2> QED
    BY <1>2, <2>1, <2>2
<1>5. CASE Loop \/ Shutdown \/ Stop
  <2>1. UNCHANGED <<published, refreshing>>
    BY <1>5 DEF Loop, PublishOnLoop, RemoveOnLoop, StartOnLoop, Shutdown, Stop
  <2>2. CASE StartOnLoop
    BY <1>1, <1>2, <2>1, <2>2 DEF StartOnLoop, Goto, Raise
  <2>3. CASE ~StartOnLoop
    BY <1>2, <1>5, <2>1, <2>3 DEF Loop, PublishOnLoop, RemoveOnLoop, Shutdown, Stop
  <2> QED
    BY <2>2, <2>3
<1>6. ASSUME NEW r \in Clients, Runtime(r) \/ ReportRefresh(r) \/ Report(r)  PROVE SilentBefore'
  <2>1. run[r] # "none"
    BY <1>6 DEF Runtime, PublishStarted, EngineEmits, Emit, MemoryFails, RefreshScheduled, PublishAnswer,
                PublishError, Finish, ReportRefresh, Report, At, SilentBefore
  <2>2. run'[r] # "none" /\ \A c \in Clients : c # r => run'[c] = run[c]
    BY <1>1, <1>6, <2>1
       DEF Runtime, PublishStarted, EngineEmits, Emit, MemoryFails, RefreshScheduled, PublishAnswer,
           PublishError, Finish, ReportRefresh, Report, Goto, Raise
  <2>3. \A c \in Clients : c # r => refreshing'[c] = refreshing[c]
    BY <1>1, <1>6
       DEF Runtime, PublishStarted, EngineEmits, Emit, MemoryFails, RefreshScheduled, PublishAnswer,
           PublishError, Finish, ReportRefresh, Report, ThreadOnly
  <2>4. \A c \in Clients : c # r => published'[c] = published[c]
    BY <1>1, <1>6
       DEF Runtime, PublishStarted, EngineEmits, Emit, MemoryFails, RefreshScheduled, PublishAnswer,
           PublishError, Finish, ReportRefresh, Report, Publish
  <2> QED
    BY <1>3, <2>1, <2>2, <2>3, <2>4
<1>7. CASE UNCHANGED vars
  BY <1>2, <1>7 DEF vars
<1> QED
  BY <1>4, <1>5, <1>6, <1>7 DEF Next

LEMMA SubscribedFirstInit == Init => SubscribedFirst /\ SilentBefore /\ CodeAtExit
BY DEF Init, SubscribedFirst, SilentBefore, CodeAtExit, StillRunning

LEMMA CodeAtExitNext == ASSUME TypesInv, CodeAtExit, [Next]_vars  PROVE CodeAtExit'
<1> USE DEF client, socket, hubs, runs
<1>1. ASSUME NEW c \in Clients, Connect(c)  PROVE CodeAtExit'
  BY <1>1 DEF Connect, CodeAtExit, TypesInv, TypeOK
<1>2. ASSUME NEW c \in Clients, ConnectFails(c) \/ Quit(c) \/ Cli(c)  PROVE CodeAtExit'
  BY <1>2, CliMoves
<1>3. ASSUME UNCHANGED <<pc, code>>  PROVE CodeAtExit'
  BY <1>3 DEF CodeAtExit
<1>4. ASSUME NEW c \in Clients, Connection(c) \/ Send(c) \/ SendDies(c) \/ SendFails(c)  PROVE CodeAtExit'
  BY <1>3, <1>4 DEF Connection, Subscribe, StartRun, RefuseRun, Disconnected, Send, SendDies, SendsNext, SendFails
<1>5. CASE Loop \/ Shutdown \/ Stop
  BY <1>3, <1>5 DEF Loop, PublishOnLoop, RemoveOnLoop, StartOnLoop, Shutdown, Stop
<1>6. ASSUME NEW r \in Clients, Runtime(r) \/ ReportRefresh(r) \/ Report(r)  PROVE CodeAtExit'
  BY <1>3, <1>6
     DEF Runtime, PublishStarted, EngineEmits, Emit, MemoryFails, RefreshScheduled, PublishAnswer,
         PublishError, Finish, ReportRefresh, Report, ThreadOnly
<1>7. CASE UNCHANGED vars
  BY <1>3, <1>7 DEF vars
<1> QED
  BY <1>1, <1>2, <1>4, <1>5, <1>6, <1>7 DEF Next

LEMMA SubscribedFirstNext ==
  ASSUME TypesInv, SubscribedFirst, CodeAtExit, [Next]_vars
  PROVE  SubscribedFirst'
<1> USE DEF client, socket, hubs, runs
<1>1. /\ pc \in [Clients -> {"connecting", "subscribing", "starting", "streaming", "exited"}]
      /\ hub \in [Clients -> {"absent", "registered", "subscribed"}]
      /\ handler \in [Clients -> {"none", "open", "closed"}]
      /\ wire \in [Clients -> Seq(Message)]
  BY DEF TypesInv, TypeOK
<1>2. ASSUME UNCHANGED <<pc, hub, handler, wire>>, daemon' = "stopped" => daemon = "stopped"
      PROVE  SubscribedFirst'
  BY <1>2 DEF SubscribedFirst, NotTold
<1>3. ASSUME NEW c \in Clients, Connect(c)  PROVE SubscribedFirst'
  <2>1. /\ UNCHANGED <<wire, daemon>> /\ daemon = "running" /\ pc[c] = "connecting"
        /\ pc'[c] = "subscribing" /\ hub'[c] = "registered" /\ wire[c] = << >>
        /\ \A d \in Clients : d # c => pc'[d] = pc[d] /\ hub'[d] = hub[d] /\ handler'[d] = handler[d]
    BY <1>1, <1>3 DEF Connect, SubscribedFirst
  <2>2. NotTold(c)'
    BY <2>1 DEF NotTold
  <2> QED
    BY <2>1, <2>2 DEF SubscribedFirst, NotTold
<1>4. ASSUME NEW c \in Clients, wire[c] # << >>, Read(c)
      PROVE  /\ \A d \in Clients : NotTold(d) => NotTold(d)'
             /\ \A d \in Clients : d # c => wire'[d] = wire[d]
             /\ Head(wire[c]).type = "subscribed" => ~NotTold(c)
  <2>1. wire'[c] = Tail(wire[c]) /\ \A d \in Clients : d # c => wire'[d] = wire[d]
    BY <1>1, <1>4, ReadEffect
  <2>2. wire[c] \in Seq(Message)
    BY <1>1
  <2>3. /\ Len(wire[c]) > 0 /\ Len(wire[c]) \in Nat /\ Head(wire[c]) = wire[c][1]
        /\ \A i \in 1..Len(Tail(wire[c])) : Tail(wire[c])[i] = wire[c][i + 1]
                                            /\ i + 1 \in 1..Len(wire[c])
    BY <1>4, <2>2, Popped
  <2>4. 1 \in 1..Len(wire[c])
    BY <2>3
  <2>5. Head(wire[c]).type = "subscribed" => ~NotTold(c)
    BY <2>3, <2>4 DEF NotTold
  <2>6. ASSUME NotTold(c)  PROVE NotTold(c)'
    BY <2>1, <2>3, <2>6 DEF NotTold
  <2>7. ASSUME NEW d \in Clients, d # c, NotTold(d)  PROVE NotTold(d)'
    BY <2>1, <2>7 DEF NotTold
  <2> QED
    BY <2>1, <2>5, <2>6, <2>7
<1>5. ASSUME NEW c \in Clients, ConnectFails(c) \/ Quit(c) \/ Cli(c)  PROVE SubscribedFirst'
  <2>1. /\ UNCHANGED <<hub, handler, daemon>>
        /\ \A d \in Clients : \/ pc'[d] = pc[d] \/ pc'[d] = "exited"
                              \/ d = c /\ ReadSubscribed(c)
                              \/ d = c /\ ReadAccepted(c)
        /\ \/ UNCHANGED wire \/ (wire[c] # << >> /\ Read(c))
    BY <1>5, CliMoves
  <2>2. ReadSubscribed(c) \/ ReadAccepted(c) => hub[c] # "registered" /\ pc[c] # "connecting"
                                                /\ pc'[c] # "connecting"
    <3>1. ReadSubscribed(c) => wire[c] # << >> /\ Read(c) /\ Head(wire[c]).type = "subscribed"
                               /\ pc[c] = "subscribing" /\ pc'[c] = "starting"
      BY <1>1 DEF ReadSubscribed, Reading
    <3>2. ReadAccepted(c) => pc[c] = "starting" /\ pc'[c] = "streaming"
      BY <1>1 DEF ReadAccepted, Reading
    <3> QED
      BY <1>4, <3>1, <3>2 DEF SubscribedFirst
  <2>3. ASSUME NEW d \in Clients, pc'[d] = "connecting"
        PROVE  hub'[d] = "absent" /\ handler'[d] = "none" /\ wire'[d] = << >>
    <3>1. pc[d] = "connecting"
      BY <2>1, <2>2, <2>3
    <3>2. hub[d] = "absent" /\ handler[d] = "none" /\ wire[d] = << >>
      BY <3>1 DEF SubscribedFirst
    <3>3. wire'[d] = wire[d]
      BY <1>4, <2>1, <3>2
    <3> QED
      BY <2>1, <3>2, <3>3
  <2>4. ASSUME NEW d \in Clients, hub'[d] = "registered", pc'[d] # "exited"
        PROVE  pc'[d] = "subscribing" /\ NotTold(d)'
    <3>1. pc'[d] = pc[d]
      BY <2>1, <2>2, <2>4
    <3>2. pc[d] = "subscribing" /\ NotTold(d)
      BY <2>1, <2>4, <3>1 DEF SubscribedFirst
    <3>3. NotTold(d)'
      BY <1>4, <2>1, <3>2 DEF NotTold
    <3> QED
      BY <3>1, <3>2, <3>3
  <2>5. \A d \in Clients : hub'[d] # "absent" => daemon' # "stopped"
    BY <2>1 DEF SubscribedFirst
  <2> QED
    BY <2>3, <2>4, <2>5 DEF SubscribedFirst
<1>6. ASSUME NEW c \in Clients, NEW who \in Writers, NEW m \in Message,
             MayWrite(c, who), Write(c, who, m), handler[c] = "open" \/ hub[c] # "absent",
             m.type # "subscribed" \/ hub'[c] # "registered", UNCHANGED <<pc, handler, daemon>>,
             hub'[c] = hub[c] \/ (hub'[c] = "subscribed" /\ hub[c] # "absent"),
             \A d \in Clients : d # c => hub'[d] = hub[d]
      PROVE  SubscribedFirst'
  <2>1. /\ wire'[c] = IF pc[c] = "exited" THEN wire[c] ELSE Append(wire[c], m)
        /\ \A d \in Clients : d # c => wire'[d] = wire[d]
    BY <1>6, WriteEffect DEF TypesInv
  <2>2. pc[c] # "connecting"
    BY <1>6 DEF SubscribedFirst
  <2>3. ASSUME NotTold(c), m.type # "subscribed"  PROVE NotTold(c)'
    <3>1. wire[c] \in Seq(Message)
      BY <1>1
    <3>2. /\ Len(Append(wire[c], m)) = Len(wire[c]) + 1 /\ Append(wire[c], m)[Len(wire[c]) + 1] = m
          /\ Len(wire[c]) \in Nat
          /\ \A i \in 1..Len(wire[c]) : Append(wire[c], m)[i] = wire[c][i]
      BY <3>1, Appended
    <3> DEFINE more == Append(wire[c], m)
    <3> HIDE DEF more
    <3>3. ASSUME NEW i \in 1..Len(wire[c]) + 1  PROVE more[i].type # "subscribed"
      <4>1. i \in 1..Len(wire[c]) \/ i = Len(wire[c]) + 1
        BY <3>2
      <4> QED
        BY <2>3, <3>2, <4>1 DEF NotTold, more
    <3>4. wire'[c] = wire[c] \/ (wire'[c] = more /\ Len(more) = Len(wire[c]) + 1)
      BY <2>1, <3>2 DEF more
    <3> QED
      BY <2>3, <3>3, <3>4 DEF NotTold
  <2>4. ASSUME NEW d \in Clients, hub'[d] = "registered", pc'[d] # "exited"
        PROVE  pc'[d] = "subscribing" /\ NotTold(d)'
    <3>1. pc[d] = "subscribing" /\ NotTold(d) /\ hub[d] = "registered"
      BY <1>6, <2>4 DEF SubscribedFirst
    <3>2. CASE d = c
      BY <1>6, <2>3, <2>4, <3>1, <3>2
    <3>3. CASE d # c
      BY <1>6, <2>1, <3>1, <3>3 DEF NotTold
    <3> QED
      BY <3>2, <3>3
  <2>5. ASSUME NEW d \in Clients, pc'[d] = "connecting"
        PROVE  hub'[d] = "absent" /\ handler'[d] = "none" /\ wire'[d] = << >>
    BY <1>6, <2>1, <2>2, <2>5 DEF SubscribedFirst
  <2>6. \A d \in Clients : hub'[d] # "absent" => daemon' # "stopped"
    BY <1>6 DEF SubscribedFirst
  <2> QED
    BY <2>4, <2>5, <2>6 DEF SubscribedFirst
<1>7. ASSUME NEW c \in Clients, Subscribe(c) \/ StartRun(c) \/ RefuseRun(c)  PROVE SubscribedFirst'
  <2>1. /\ UNCHANGED <<pc, handler, daemon>> /\ MayWrite(c, "answer") /\ handler[c] = "open"
        /\ \A d \in Clients : d # c => hub'[d] = hub[d]
    BY <1>1, <1>7 DEF Subscribe, StartRun, RefuseRun, Requested
  <2>2. ASSUME NEW reply \in Replies, Answer(c, reply), reply # "subscribed" \/ hub'[c] # "registered",
               hub'[c] = hub[c] \/ (hub'[c] = "subscribed" /\ hub[c] # "absent")
        PROVE  SubscribedFirst'
    <3>1. Event(c, reply) \in Message /\ Event(c, reply).type = reply
          /\ Write(c, "answer", Event(c, reply)) /\ "answer" \in Writers
      BY <2>2 DEF Event, Message, Answer, Writers
    <3> QED
      BY <1>6, <2>1, <2>2, <3>1
  <2>3. CASE Subscribe(c)
    <3>1. CASE hub[c] = "absent"
      <4>1. Answer(c, "refused") /\ hub'[c] = hub[c] /\ "refused" \in Replies
        BY <2>3, <3>1 DEF Subscribe, Replies
      <4> QED
        BY <2>2, <4>1
    <3>2. CASE hub[c] # "absent"
      <4>1. Answer(c, "subscribed") /\ hub'[c] = "subscribed" /\ "subscribed" \in Replies
        BY <1>1, <2>3, <3>2 DEF Subscribe, Replies
      <4> QED
        BY <2>2, <3>2, <4>1
    <3> QED
      BY <3>1, <3>2
  <2>4. CASE StartRun(c)
    <3>1. Answer(c, "accepted") /\ hub'[c] = hub[c] /\ "accepted" \in Replies
      BY <2>4 DEF StartRun, Replies
    <3> QED
      BY <2>2, <3>1
  <2>5. CASE RefuseRun(c)
    <3>1. Answer(c, "refused") /\ hub'[c] = hub[c] /\ "refused" \in Replies
      BY <2>5 DEF RefuseRun, Replies
    <3> QED
      BY <2>2, <3>1
  <2> QED
    BY <1>7, <2>3, <2>4, <2>5
<1>8. ASSUME NEW c \in Clients, Send(c)  PROVE SubscribedFirst'
  <2>1. queue[c] \in Seq(EventsOf) /\ queue[c] # << >>
    BY <1>8 DEF Send, SendsNext, TypesInv, TypeOK, EventsOf
  <2>2. Head(queue[c]) \in EventsOf
    BY <2>1, Popped
  <2>3. Head(queue[c]) \in Message /\ Head(queue[c]).type # "subscribed"
    BY <2>2 DEF EventsOf, Message, EventTypes, Garbled, Verdicts
  <2> QED
    BY <1>6, <1>8, <2>3 DEF Send, SendsNext, Writers
<1>9. ASSUME UNCHANGED <<pc, wire>>, daemon' = "stopped" => daemon = "stopped",
             \A d \in Clients : hub'[d] = hub[d] \/ hub'[d] = "absent",
             \A d \in Clients : handler'[d] = handler[d] \/ handler[d] # "none"
      PROVE  SubscribedFirst'
  <2>1. \A d \in Clients : NotTold(d)' <=> NotTold(d)
    BY <1>9 DEF NotTold
  <2> QED
    BY <1>9, <2>1 DEF SubscribedFirst
<1>10. ASSUME NEW c \in Clients, Disconnected(c)  PROVE SubscribedFirst'
  BY <1>1, <1>9, <1>10 DEF Disconnected
<1>11. ASSUME NEW c \in Clients, SendFails(c)  PROVE SubscribedFirst'
  BY <1>1, <1>9, <1>11 DEF SendFails
<1>16. ASSUME NEW c \in Clients, SendDies(c)  PROVE SubscribedFirst'
  BY <1>1, <1>9, <1>16 DEF SendDies, SendsNext
<1>12. CASE Loop \/ Shutdown
  <2>1. UNCHANGED <<pc, wire, handler>> /\ (daemon' = "stopped" => daemon = "stopped")
    BY <1>12 DEF Loop, PublishOnLoop, RemoveOnLoop, StartOnLoop, Shutdown
  <2>2. \A d \in Clients : hub'[d] = hub[d] \/ hub'[d] = "absent"
    BY <1>1, <1>12 DEF Loop, PublishOnLoop, RemoveOnLoop, StartOnLoop, Shutdown
  <2> QED
    BY <1>9, <2>1, <2>2
<1>13. CASE Stop
  <2>1. PICK kept \in [Clients -> 0 .. HighWater + 2] :
          /\ \A c \in Clients : kept[c] <= Len(wire[c])
          /\ wire' = [c \in Clients |-> SubSeq(wire[c], 1, kept[c])]
    BY <1>13 DEF Stop
  <2>2. /\ UNCHANGED pc /\ \A c \in Clients : hub'[c] = "absent"
        /\ \A c \in Clients : handler[c] = "none" => handler'[c] = "none"
    BY <1>13 DEF Stop
  <2>3. ASSUME NEW c \in Clients, pc[c] = "connecting"  PROVE wire'[c] = << >>
    <3>1. wire[c] = << >> /\ Len(wire[c]) = 0
      BY <2>3 DEF SubscribedFirst
    <3>2. kept[c] = 0
      BY <2>1, <3>1, RunStreamAssumption
    <3>3. SubSeq(wire[c], 1, 0) = << >>
      BY <3>1
    <3> QED
      BY <2>1, <3>2, <3>3
  <2> QED
    BY <2>2, <2>3 DEF SubscribedFirst
<1>14. ASSUME NEW r \in Clients, Runtime(r) \/ ReportRefresh(r) \/ Report(r)  PROVE SubscribedFirst'
  BY <1>2, <1>14
     DEF Runtime, PublishStarted, EngineEmits, Emit, MemoryFails, RefreshScheduled, PublishAnswer,
         PublishError, Finish, ReportRefresh, Report, ThreadOnly
<1>15. CASE UNCHANGED vars
  BY <1>2, <1>15 DEF vars
<1> QED
  BY <1>3, <1>5, <1>7, <1>8, <1>10, <1>11, <1>12, <1>13, <1>14, <1>15, <1>16 DEF Next, Connection

-------------------------------------------------------------------------------
(* The line from a run to its CLI: what the CLI has shown, has pending, has *)
(* on the wire, and, while it is in the hub, has in its queue and among the *)
(* callbacks of the loop.                                                  *)

Ahead(c, n) ==
  \E k \in Nat : /\ Carries(published[c], c, pending[c], Len(seen[c]), k)
                 /\ Carries(published[c], c, wire[c], k, n)

Behind(c, n) ==
  \E k \in Nat : /\ Carries(published[c], c, queue[c], n, k)
                 /\ Carries(published[c], c, ready, k, Len(published[c]))

\* Its own events will be queued for the client.
InLine(c) ==
  \/ hub[c] # "absent" /\ lost[c] # "silenced"
  \/ (pc[c] = "connecting" /\ daemon = "running")

Line(c) == \E n \in Nat : Ahead(c, n) /\ (InLine(c) => Behind(c, n))

LineInv == \A c \in Clients : pc[c] # "exited" => Line(c)

\* Everything the proof of LineInv is relative to.
StreamInv ==
  TypesInv /\ StartedOnce /\ SubscribedFirst /\ SilentBefore /\ CodeAtExit /\ LineInv

LEMMA LineInit == Init => LineInv
<1> SUFFICES ASSUME Init, NEW c \in Clients  PROVE Line(c)
  BY DEF LineInv
<1>1. << >> \in Seq(EventTypes) /\ Len(<< >>) = 0 /\ 0 \in 0..Len(<< >>)
  OBVIOUS
<1>2. Carries(<< >>, c, << >>, 0, 0)
  BY <1>1, CarriesNothing
<1>3. published[c] = << >> /\ pending[c] = << >> /\ wire[c] = << >> /\ queue[c] = << >>
      /\ ready = << >> /\ seen[c] = << >>
  BY DEF Init
<1>4. Ahead(c, 0) /\ Behind(c, 0)
  BY <1>1, <1>2, <1>3 DEF Ahead, Behind
<1> QED
  BY <1>4 DEF Line

LEMMA LineKept ==
  ASSUME NEW c \in Clients, Line(c), published'[c] = published[c], pending'[c] = pending[c],
         wire'[c] = wire[c], seen'[c] = seen[c],
         InLine(c)' => InLine(c) /\ queue'[c] = queue[c] /\ ready' = ready
  PROVE  Line(c)'
BY DEF Line, Ahead, Behind

LEMMA StreamTypes ==
  ASSUME TypesInv, NEW c \in Clients
  PROVE  /\ published[c] \in Seq(EventTypes) /\ pending[c] \in Seq(EventsOf)
         /\ wire[c] \in Seq(Message) /\ queue[c] \in Seq(EventsOf) /\ ready \in Seq(Callbacks)
         /\ seen[c] \in Seq(EventTypes) /\ Len(seen[c]) \in Nat /\ Len(published[c]) \in Nat
         /\ hub[c] \in {"absent", "registered", "subscribed"}
<1>1. /\ published[c] \in Seq(EventTypes) /\ pending[c] \in Seq(EventsOf)
      /\ wire[c] \in Seq(Message) /\ queue[c] \in Seq(EventsOf) /\ ready \in Seq(Callbacks)
      /\ seen[c] \in Seq(EventTypes)
  BY DEF TypesInv, TypeOK, EventsOf, Callbacks
<1>2. Len(seen[c]) \in Nat /\ Len(published[c]) \in Nat
  BY <1>1
<1>3. hub[c] \in {"absent", "registered", "subscribed"}
  BY DEF TypesInv, TypeOK
<1> QED
  BY <1>1, <1>2, <1>3

\* A client that waits for its turn has published nothing.
LEMMA QuietUnlessSubscribed ==
  ASSUME StreamInv, NEW c \in Clients, pc[c] # "exited", InLine(c), hub[c] # "subscribed"
  PROVE  published[c] = << >>
<1>1. pc[c] \in {"connecting", "subscribing"}
  <2>1. hub[c] = "registered" \/ hub[c] = "absent"
    BY StreamTypes DEF StreamInv
  <2> QED
    BY <2>1 DEF StreamInv, InLine, SubscribedFirst
<1> QED
  BY <1>1 DEF StreamInv, StartedOnce, SilentBefore

\* The CLI takes a message off the wire.
LEMMA AheadRead ==
  ASSUME TypesInv, NEW c \in Clients, wire[c] # << >>, Read(c), NEW k \in Nat, NEW n \in Nat,
         Carries(published[c], c, wire[c], k, n)
  PROVE  /\ Head(wire[c]) \in Message
         /\ IF Own(c, Head(wire[c]))
            THEN /\ k + 1 \in 1..Len(published[c]) /\ Head(wire[c]).type = published[c][k + 1]
                 /\ Carries(published[c], c, wire'[c], k + 1, n)
            ELSE Carries(published[c], c, wire'[c], k, n)
<1>1. wire \in [Clients -> Seq(Message)] /\ wire[c] \in Seq(Message)
      /\ published[c] \in Seq(EventTypes)
  BY DEF TypesInv, TypeOK
<1>2. wire'[c] = Tail(wire[c]) /\ Head(wire[c]) \in Message
  BY <1>1, ReadEffect
<1> QED
  BY <1>1, <1>2, CarriesPop

\* Showing an event is showing the next one of the own run.
ShowsNext(c) ==
  LET n == Len(seen[c]) + 1
  IN /\ n <= Len(published[c])
     /\ seen' = [seen EXCEPT ![c] = Append(@, published[c][n])]
     /\ code' = IF published[c][n] \in Verdicts
                THEN [code EXCEPT ![c] = ExitOf(published[c][n])] ELSE code

LEMMA ShowLine ==
  ASSUME TypesInv, NEW c \in Clients, NEW event \in EventsOf, Show(c, event),
         Own(c, event) =>
           Len(seen[c]) + 1 \in 1..Len(published[c]) /\ event.type = published[c][Len(seen[c]) + 1]
  PROVE  /\ IF Own(c, event) THEN ShowsNext(c) ELSE UNCHANGED <<seen, code>>
         /\ Len(seen'[c]) = IF Own(c, event) THEN Len(seen[c]) + 1 ELSE Len(seen[c])
         /\ \A d \in Clients : d # c => seen'[d] = seen[d] /\ pc'[d] = pc[d]
<1>1. seen \in [Clients -> Seq(EventTypes)] /\ Len(seen[c]) \in Nat
      /\ pc \in [Clients -> {"connecting", "subscribing", "starting", "streaming", "exited"}]
      /\ code \in [Clients -> ExitCodes \cup {StillRunning}]
  BY DEF TypesInv, TypeOK
<1>2. event.type \in EventTypes /\ (Own(c, event) <=> event.run = c)
  BY DEF EventsOf, Own
<1>3. CASE event.run # c
  BY <1>2, <1>3 DEF Show
<1>4. CASE event.run = c
  <2>1. seen' = [seen EXCEPT ![c] = Append(seen[c], event.type)]
        /\ code' = IF event.type \in Verdicts THEN [code EXCEPT ![c] = ExitOf(event.type)] ELSE code
    <3>1. CASE event.type \in Verdicts
      BY <1>4, <3>1 DEF Show, Exit
    <3>2. CASE event.type \notin Verdicts
      BY <1>4, <3>2 DEF Show
    <3> QED
      BY <3>1, <3>2
  <2>2. ShowsNext(c)
    <3> DEFINE n == Len(seen[c]) + 1
               type == published[c][n]
    <3>1. n \in 1..Len(published[c]) /\ event.type = type /\ Len(published[c]) \in Nat
      BY <1>2, <1>4, StreamTypes
    <3> HIDE DEF type
    <3>2. seen' = [seen EXCEPT ![c] = Append(seen[c], type)]
      BY <2>1, <3>1
    <3>3. code' = IF type \in Verdicts THEN [code EXCEPT ![c] = ExitOf(type)] ELSE code
      BY <2>1, <3>1
    <3>4. n <= Len(published[c])
      BY <3>1
    <3> QED
      BY <3>2, <3>3, <3>4 DEF ShowsNext, type
  <2>3. seen'[c] = Append(seen[c], event.type) /\ Len(Append(seen[c], event.type)) = Len(seen[c]) + 1
    <3>1. seen[c] \in Seq(EventTypes)
      BY <1>1
    <3> QED
      BY <1>1, <1>2, <2>1, <3>1, Appended
  <2>4. \A d \in Clients : d # c => seen'[d] = seen[d] /\ pc'[d] = pc[d]
    BY <1>1, <2>1, <1>4, ShowEffect
  <2> QED
    BY <1>2, <1>4, <2>2, <2>3, <2>4
<1> QED
  BY <1>3, <1>4

\* The steps of the CLI: their effect on its own line, and what they show.
LEMMA LineCli ==
  ASSUME StreamInv, NEW c \in Clients, Cli(c)
  PROVE  /\ pc'[c] # "exited" => Line(c)'
         /\ \/ pc[c] # "exited" /\ ShowsNext(c)
            \/ UNCHANGED <<seen, code>>
            \/ UNCHANGED seen /\ pc[c] # "exited" /\ \E x \in {"error", "interrupted"} : Exit(c, x)
<1> USE DEF client, socket, hubs, runs
<1>1. TypesInv
  BY DEF StreamInv
<1>2. pc[c] # "exited"
  BY DEF Cli, ReadEarlyEvent, ReadSubscribed, ReadAccepted, ShowPending, ReadRefused, ReadEvent,
         ReadEof, Reading
<1>3. PICK n \in Nat : Ahead(c, n) /\ (InLine(c) => Behind(c, n))
  BY <1>2 DEF StreamInv, LineInv, Line
<1>4. PICK k \in Nat : /\ Carries(published[c], c, pending[c], Len(seen[c]), k)
                       /\ Carries(published[c], c, wire[c], k, n)
  BY <1>3 DEF Ahead
<1>5. UNCHANGED <<published, hub, queue, lost, ready, daemon>>
  BY DEF Cli, ReadEarlyEvent, ReadSubscribed, ReadAccepted, ShowPending, ReadRefused, ReadEvent,
         ReadEof
<1>6. InLine(c)' => InLine(c)
  <2>1. pc'[c] # "connecting"
    BY <1>1 DEF Cli, ReadEarlyEvent, ReadSubscribed, ReadAccepted, ShowPending, ReadRefused,
       ReadEvent, ReadEof, Reading, Show, Exit, TypesInv, TypeOK
  <2> QED
    BY <1>5, <2>1 DEF InLine
<1>7. Behind(c, n)' <=> Behind(c, n)
  BY <1>5 DEF Behind
<1>8. ASSUME Ahead(c, n)'  PROVE Line(c)'
  BY <1>3, <1>6, <1>7, <1>8 DEF Line
<1> DEFINE events == published[c]
<1>9. /\ events \in Seq(EventTypes) /\ pending[c] \in Seq(EventsOf) /\ Len(seen[c]) \in Nat
      /\ pending \in [Clients -> Seq(EventsOf)] /\ Len(events) \in Nat
  BY <1>1, StreamTypes DEF TypesInv, TypeOK, EventsOf
<1>10. CASE ReadEarlyEvent(c)
  <2> DEFINE event == Head(wire[c])
             m == IF Own(c, event) THEN k + 1 ELSE k
  <2>1. wire[c] # << >> /\ Read(c) /\ IsEventPush(event)
    BY <1>10 DEF ReadEarlyEvent, Reading
  <2>2. /\ event \in Message
        /\ IF Own(c, event)
           THEN /\ k + 1 \in 1..Len(events) /\ event.type = events[k + 1]
                /\ Carries(events, c, wire'[c], k + 1, n)
           ELSE Carries(events, c, wire'[c], k, n)
    BY <1>1, <1>4, <2>1, AheadRead
  <2>3. event \in EventsOf
    BY <2>1, <2>2 DEF EventsOf, Message, IsEventPush
  <2>4. pending'[c] = Append(pending[c], event)
    BY <1>9, <1>10 DEF ReadEarlyEvent
  <2> HIDE DEF event
  <2>5. Carries(events, c, Append(pending[c], event), Len(seen[c]), m)
    BY <1>4, <1>9, <2>2, <2>3, CarriesAppend
  <2>6. Carries(events, c, wire'[c], m, n) /\ m \in Nat
    BY <2>2
  <2>7. UNCHANGED <<seen, code, published>>
    BY <1>10 DEF ReadEarlyEvent
  <2>8. Ahead(c, n)'
    BY <2>4, <2>5, <2>6, <2>7 DEF Ahead
  <2> QED
    BY <1>8, <2>7, <2>8
<1>11. CASE ReadSubscribed(c) \/ ReadAccepted(c)
  <2>1. wire[c] # << >> /\ Read(c) /\ Head(wire[c]).type \in Replies
        /\ UNCHANGED <<seen, code, published, pending>>
    BY <1>11 DEF ReadSubscribed, ReadAccepted, Reading, Replies
  <2>2. ~Own(c, Head(wire[c]))
    BY <2>1 DEF Own, Replies, EventTypes, Garbled, Verdicts
  <2>3. Carries(events, c, wire'[c], k, n)
    BY <1>1, <1>4, <2>1, <2>2, AheadRead
  <2>4. Ahead(c, n)'
    BY <1>4, <2>1, <2>3 DEF Ahead
  <2> QED
    BY <1>8, <2>1, <2>4
<1>12. CASE ShowPending(c)
  <2> DEFINE event == Head(pending[c])
             shown == IF Own(c, event) THEN Len(seen[c]) + 1 ELSE Len(seen[c])
  <2>1. pending[c] # << >> /\ Show(c, event) /\ UNCHANGED <<wire, published>>
    BY <1>12 DEF ShowPending
  <2>2. event \in EventsOf
    BY <1>9, <2>1, Popped
  <2>3. IF Own(c, event)
        THEN /\ Len(seen[c]) + 1 \in 1..Len(events) /\ event.type = events[Len(seen[c]) + 1]
             /\ Carries(events, c, Tail(pending[c]), Len(seen[c]) + 1, k)
        ELSE Carries(events, c, Tail(pending[c]), Len(seen[c]), k)
    BY <1>4, <1>9, <2>1, CarriesPop
  <2>4. pending'[c] = Tail(pending[c])
    BY <1>9, <1>12 DEF ShowPending
  <2> HIDE DEF event
  <2>5. /\ IF Own(c, event) THEN ShowsNext(c) ELSE UNCHANGED <<seen, code>>
        /\ Len(seen'[c]) = shown
    BY <1>1, <2>1, <2>2, <2>3, ShowLine
  <2>6. Carries(events, c, Tail(pending[c]), shown, k)
    BY <2>3
  <2>7. Ahead(c, n)'
    BY <1>4, <2>1, <2>4, <2>5, <2>6 DEF Ahead
  <2> QED
    BY <1>2, <1>8, <2>5, <2>7
<1>13. CASE ReadEvent(c)
  <2> DEFINE event == Head(wire[c])
             shown == IF Own(c, event) THEN Len(seen[c]) + 1 ELSE Len(seen[c])
  <2>1. /\ wire[c] # << >> /\ Read(c) /\ IsEventPush(event) /\ pending[c] = << >>
        /\ UNCHANGED <<pending, published>> /\ Show(c, event)
    BY <1>13 DEF ReadEvent, Reading
  <2>2. k = Len(seen[c])
    <3>1. Carries(events, c, << >>, Len(seen[c]), k)
      BY <1>4, <2>1
    <3> QED
      BY <1>9, <3>1, CarriesNothing
  <2>3. /\ event \in Message
        /\ IF Own(c, event)
           THEN /\ k + 1 \in 1..Len(events) /\ event.type = events[k + 1]
                /\ Carries(events, c, wire'[c], k + 1, n)
           ELSE Carries(events, c, wire'[c], k, n)
    BY <1>1, <1>4, <2>1, AheadRead
  <2>4. event \in EventsOf
    BY <2>1, <2>3 DEF EventsOf, Message, IsEventPush
  <2> HIDE DEF event
  <2>5. /\ IF Own(c, event) THEN ShowsNext(c) ELSE UNCHANGED <<seen, code>>
        /\ Len(seen'[c]) = shown
    BY <1>1, <2>1, <2>2, <2>3, <2>4, ShowLine
  <2>6. Carries(events, c, wire'[c], shown, n) /\ shown \in Nat
    BY <1>9, <2>2, <2>3
  <2>7. k \in 0..Len(events)
    BY <1>4, <1>9, CarriesBounds
  <2>8. shown \in 0..Len(events)
    BY <1>9, <2>2, <2>3, <2>7
  <2>9. Carries(events, c, pending[c], shown, shown)
    BY <1>9, <2>1, <2>8, CarriesNothing
  <2>10. Ahead(c, n)'
    BY <2>1, <2>5, <2>6, <2>9 DEF Ahead
  <2> QED
    BY <1>2, <1>8, <2>5, <2>10
<1>14. CASE ReadRefused(c) \/ ReadEof(c)
  <2>1. Exit(c, "error") /\ UNCHANGED seen
    BY <1>14 DEF ReadRefused, ReadEof
  <2>2. pc'[c] = "exited"
    BY <1>1, <2>1 DEF Exit, TypesInv, TypeOK
  <2> QED
    BY <1>2, <2>1, <2>2
<1> QED
  BY <1>10, <1>11, <1>12, <1>13, <1>14 DEF Cli

LEMMA AheadKept ==
  ASSUME NEW c \in Clients, NEW n \in Nat, Ahead(c, n), published'[c] = published[c],
         pending'[c] = pending[c], wire'[c] = wire[c], seen'[c] = seen[c]
  PROVE  Ahead(c, n)'
BY DEF Ahead

\* The daemon writes a message.
LEMMA AheadWrite ==
  ASSUME TypesInv, NEW c \in Clients, NEW who, NEW m \in Message, Write(c, who, m), pc[c] # "exited",
         UNCHANGED <<client, published>>, NEW n \in Nat, Ahead(c, n),
         Own(c, m) => n + 1 <= Len(published[c]) /\ m.type = published[c][n + 1]
  PROVE  Ahead(c, IF Own(c, m) THEN n + 1 ELSE n)'
<1> DEFINE to == IF Own(c, m) THEN n + 1 ELSE n
<1>1. published[c] \in Seq(EventTypes) /\ wire[c] \in Seq(Message)
  BY StreamTypes
<1>2. PICK k \in Nat : /\ Carries(published[c], c, pending[c], Len(seen[c]), k)
                       /\ Carries(published[c], c, wire[c], k, n)
  BY DEF Ahead
<1>3. wire'[c] = Append(wire[c], m)
  BY DEF Write, TypesInv, TypeOK
<1>4. Carries(published[c], c, Append(wire[c], m), k, to)
  BY <1>1, <1>2, CarriesAppend
<1> HIDE DEF to
<1>5. Ahead(c, to)'
  BY <1>2, <1>3, <1>4 DEF Ahead, client
<1> QED
  BY <1>5 DEF to

LEMMA BehindAppend ==
  ASSUME TypesInv, NEW c \in Clients, NEW n \in Nat, Behind(c, n), NEW m \in Callbacks, ~Own(c, m),
         ready' = Append(ready, m), published'[c] = published[c], queue'[c] = queue[c]
  PROVE  Behind(c, n)'
<1>1. published[c] \in Seq(EventTypes) /\ ready \in Seq(Callbacks)
  BY StreamTypes
<1>2. PICK k \in Nat : /\ Carries(published[c], c, queue[c], n, k)
                       /\ Carries(published[c], c, ready, k, Len(published[c]))
  BY DEF Behind
<1>3. Carries(published[c], c, Append(ready, m), k, Len(published[c]))
  BY <1>1, <1>2, CarriesAppend
<1> QED
  BY <1>2, <1>3 DEF Behind

LEMMA BehindPop ==
  ASSUME TypesInv, NEW c \in Clients, NEW n \in Nat, Behind(c, n), ready # << >>,
         ~Own(c, Head(ready)), ready' = Tail(ready), published'[c] = published[c],
         queue'[c] = queue[c]
  PROVE  Behind(c, n)'
<1>1. published[c] \in Seq(EventTypes) /\ ready \in Seq(Callbacks)
  BY StreamTypes
<1>2. PICK k \in Nat : /\ Carries(published[c], c, queue[c], n, k)
                       /\ Carries(published[c], c, ready, k, Len(published[c]))
  BY DEF Behind
<1>3. Carries(published[c], c, Tail(ready), k, Len(published[c]))
  BY <1>1, <1>2, CarriesPop
<1> QED
  BY <1>2, <1>3 DEF Behind

\* The connection handlers and the send loops.
LEMMA LineConnection ==
  ASSUME StreamInv, NEW c \in Clients, Connection(c) \/ Send(c) \/ SendDies(c) \/ SendFails(c),
         NEW d \in Clients, pc'[d] # "exited"
  PROVE  Line(d)'
<1> USE DEF client, socket, hubs, runs
<1>1. TypesInv
  BY DEF StreamInv
<1>2. UNCHANGED <<client, published, daemon, pc>>
  BY DEF Connection, Subscribe, StartRun, RefuseRun, Disconnected, Send, SendDies, SendsNext, SendFails
<1>3. pc[d] # "exited" /\ Line(d)
  BY <1>2 DEF StreamInv, LineInv
<1>4. PICK n \in Nat : Ahead(d, n) /\ (InLine(d) => Behind(d, n))
  BY <1>3 DEF Line
\* Callbacks that are nobody's event.
<1>5. ASSUME NEW m \in Callbacks, m.type = "none", ready' = Append(ready, m), queue'[d] = queue[d],
             Behind(d, n)
      PROVE  Behind(d, n)'
  <2>1. ~Own(d, m)
    BY <1>5 DEF Own, EventTypes, Garbled, Verdicts
  <2> QED
    BY <1>1, <1>2, <1>5, <2>1, BehindAppend
\* A reply is not an event.
<1>6. ASSUME NEW reply \in Replies, Answer(c, reply), MayWrite(c, "answer")
      PROVE  Ahead(d, n)'
  <2>1. Event(c, reply) \in Message /\ ~Own(c, Event(c, reply)) 
        /\ Write(c, "answer", Event(c, reply)) /\ "answer" \in Writers
    BY <1>6 DEF Event, Message, Own, Answer, Replies, EventTypes, Garbled, Verdicts, Garbled, Writers
  <2>2. CASE d = c
    BY <1>1, <1>2, <1>3, <1>4, <2>1, <2>2, AheadWrite
  <2>3. CASE d # c
    <3>1. wire'[d] = wire[d]
      BY <1>1, <1>6, <2>1, <2>3, WriteEffect DEF TypesInv
    <3> QED
      BY <1>2, <1>4, <3>1, AheadKept
  <2> QED
    BY <2>2, <2>3
<1>7. CASE Subscribe(c)
  <2>1. \E reply \in Replies : Answer(c, reply)
    BY <1>7 DEF Subscribe, Replies
  <2>2. Ahead(d, n)'
    BY <1>6, <1>7, <2>1 DEF Subscribe, Requested
  <2>3. InLine(d)' => InLine(d)
    BY <1>1, <1>2, <1>7 DEF Subscribe, InLine, TypesInv, TypeOK
  <2>4. Behind(d, n) => Behind(d, n)'
    BY <1>2, <1>7 DEF Subscribe, Behind
  <2> QED
    BY <1>4, <2>2, <2>3, <2>4 DEF Line
<1>8. CASE StartRun(c)
  <2>1. Ahead(d, n)'
    <3>1. "accepted" \in Replies
      BY DEF Replies
    <3> QED
      BY <1>6, <1>8, <3>1 DEF StartRun, Requested
  <2>2. /\ Callback("start", c, "none") \in Callbacks /\ Callback("start", c, "none").type = "none"
        /\ ready' = Append(ready, Callback("start", c, "none")) /\ UNCHANGED <<hub, queue, lost>>
    BY <1>8 DEF Callback, Callbacks, StartRun
  <2>3. Behind(d, n) => Behind(d, n)'
    BY <1>5, <2>2
  <2>4. InLine(d)' => InLine(d)
    BY <1>2, <2>2 DEF InLine
  <2> QED
    BY <1>4, <2>1, <2>3, <2>4 DEF Line
<1>9. CASE RefuseRun(c)
  <2>1. Ahead(d, n)'
    <3>1. "refused" \in Replies
      BY DEF Replies
    <3> QED
      BY <1>6, <1>9, <3>1 DEF RefuseRun, Requested
  <2>2. UNCHANGED <<hub, queue, lost, ready>>
    BY <1>9 DEF RefuseRun
  <2>3. (InLine(d)' => InLine(d)) /\ (Behind(d, n) => Behind(d, n)')
    BY <1>2, <2>2 DEF InLine, Behind
  <2> QED
    BY <1>4, <2>1, <2>3 DEF Line
<1>10. CASE Disconnected(c)
  <2>1. Ahead(d, n)'
    BY <1>2, <1>4, <1>10, AheadKept DEF Disconnected
  <2>2. /\ Callback("remove", c, "none") \in Callbacks /\ Callback("remove", c, "none").type = "none"
        /\ ready' = Append(ready, Callback("remove", c, "none")) /\ UNCHANGED <<hub, queue, lost>>
    BY <1>10 DEF Callback, Callbacks, Disconnected
  <2>3. Behind(d, n) => Behind(d, n)'
    BY <1>5, <2>2
  <2>4. InLine(d)' => InLine(d)
    BY <1>2, <2>2 DEF InLine
  <2> QED
    BY <1>4, <2>1, <2>3, <2>4 DEF Line
<1>11. CASE Send(c) /\ d = c
  <2>1. /\ queue[c] # << >> /\ Write(c, "event", Head(queue[c]))
        /\ hub[c] # "absent" /\ lost[c] # "silenced" /\ UNCHANGED <<hub, ready>> /\ queue'[c] = Tail(queue[c])
    BY <1>1, <1>11 DEF Send, SendsNext, TypesInv, TypeOK
  <2>2. queue[c] \in Seq(EventsOf) /\ published[c] \in Seq(EventTypes) /\ Len(published[c]) \in Nat
    BY <1>1, StreamTypes
  <2>3. Head(queue[c]) \in EventsOf
    BY <2>1, <2>2, Popped
  <2>4. PICK m \in EventsOf : m = Head(queue[c])
    BY <2>3
  <2>5. m \in Message
    BY DEF EventsOf, Message
  <2>6. PICK k \in Nat : /\ Carries(published[c], c, queue[c], n, k)
                         /\ Carries(published[c], c, ready, k, Len(published[c]))
    BY <1>4, <1>11, <2>1 DEF InLine, Behind
  <2>7. IF Own(c, m)
        THEN /\ n + 1 \in 1..Len(published[c]) /\ m.type = published[c][n + 1]
             /\ Carries(published[c], c, Tail(queue[c]), n + 1, k)
        ELSE Carries(published[c], c, Tail(queue[c]), n, k)
    BY <2>1, <2>2, <2>4, <2>6, CarriesPop
  <2>8. PICK to \in Nat : to = IF Own(c, m) THEN n + 1 ELSE n
    OBVIOUS
  <2>9. Own(c, m) => n + 1 <= Len(published[c]) /\ m.type = published[c][n + 1]
    BY <2>2, <2>7
  <2>10. Ahead(c, to)'
    BY <1>1, <1>2, <1>3, <1>4, <1>11, <2>1, <2>4, <2>5, <2>8, <2>9, AheadWrite
  <2>11. Carries(published[c], c, Tail(queue[c]), to, k)
    BY <2>7, <2>8
  <2>12. Behind(c, to)'
    BY <1>2, <2>1, <2>6, <2>11 DEF Behind
  <2> QED
    BY <1>11, <2>10, <2>12 DEF Line
<1>12. CASE ((Send(c) \/ SendDies(c)) /\ d # c) \/ SendFails(c)
  <2>1. d # c
    BY <1>3, <1>12 DEF SendFails
  <2>2. UNCHANGED ready /\ queue'[d] = queue[d] /\ hub'[d] = hub[d] /\ lost'[d] = lost[d]
    BY <1>1, <1>12, <2>1 DEF Send, SendDies, SendsNext, SendFails, TypesInv, TypeOK
  <2>3. wire'[d] = wire[d]
    BY <1>1, <1>12, <2>1 DEF Send, SendDies, SendsNext, SendFails, Write, TypesInv, TypeOK
  <2>4. InLine(d)' => InLine(d)
    BY <1>2, <2>2 DEF InLine
  <2> QED
    BY <1>2, <1>3, <2>2, <2>3, <2>4, LineKept
\* The send task dies: what is on the wire is the last that comes.
<1>13. CASE SendDies(c) /\ d = c
  <2>1. UNCHANGED wire /\ lost'[c] = "silenced" /\ UNCHANGED hub /\ hub[c] # "absent"
        /\ pc'[c] # "connecting"
    BY <1>1, <1>2, <1>13 DEF SendDies, SendsNext, TypesInv, TypeOK, StreamInv, SubscribedFirst
  <2>2. Ahead(c, n)'
    BY <1>2, <1>4, <1>13, <2>1, AheadKept
  <2>3. ~InLine(c)'
    BY <2>1 DEF InLine
  <2> QED
    BY <1>13, <2>2, <2>3 DEF Line
<1> QED
  BY <1>7, <1>8, <1>9, <1>10, <1>11, <1>12, <1>13 DEF Connection

\* The loop.
LEMMA LineLoop ==
  ASSUME StreamInv, Loop \/ Shutdown \/ Stop, NEW c \in Clients, pc'[c] # "exited"
  PROVE  Line(c)'
<1> USE DEF client, socket, hubs, runs
<1>1. TypesInv
  BY DEF StreamInv
<1>2. UNCHANGED <<client, published, pc>>
  BY DEF Loop, PublishOnLoop, RemoveOnLoop, StartOnLoop, Shutdown, Stop
<1>3. pc[c] # "exited" /\ Line(c)
  BY <1>2 DEF StreamInv, LineInv
<1>4. PICK n \in Nat : Ahead(c, n) /\ (InLine(c) => Behind(c, n))
  BY <1>3 DEF Line
<1>5. published[c] \in Seq(EventTypes) /\ queue[c] \in Seq(EventsOf) /\ ready \in Seq(Callbacks)
      /\ Len(published[c]) \in Nat /\ hub[c] \in {"absent", "registered", "subscribed"}
  BY <1>1, StreamTypes
<1>6. ASSUME ready # << >>, ready' = Tail(ready)
      PROVE  Head(ready) \in Callbacks /\ CallbackHasEvent(Head(ready))
  BY <1>1, <1>6, ReadyPopped
<1>7. CASE PublishOnLoop
  <2>1. /\ ready # << >> /\ ready' = Tail(ready) /\ Head(ready).do = "publish"
        /\ UNCHANGED <<wire, daemon>>
    BY <1>7 DEF PublishOnLoop, NextCallback
  <2>2. PICK m \in EventsOf : m = Event(Head(ready).run, Head(ready).type)
    BY <1>6, <2>1 DEF Event, EventsOf, Callbacks, CallbackHasEvent
  <2>3. Own(c, m) <=> Own(c, Head(ready))
    BY <2>2 DEF Event, Own
  <2>4. m.type = Head(ready).type
    BY <2>2 DEF Event
  <2>5. /\ queue'[c] = IF hub[c] # "subscribed" THEN queue[c]
                       ELSE IF Full(c) THEN << >> ELSE Append(queue[c], m)
        /\ hub'[c] = IF hub[c] = "subscribed" /\ Full(c) THEN "absent" ELSE hub[c]
        /\ ~(hub[c] = "subscribed" /\ Full(c)) => lost'[c] = lost[c]
    BY <1>7, <2>2 DEF PublishOnLoop
  <2>6. Ahead(c, n)'
    BY <1>2, <1>4, <2>1, AheadKept
  <2>7. ASSUME InLine(c)'  PROVE Behind(c, n)'
    <3>1. ~(hub[c] = "subscribed" /\ Full(c))
      BY <1>2, <2>1, <2>5, <2>7 DEF InLine, StreamInv, SubscribedFirst
    <3>2. InLine(c)
      BY <1>2, <2>1, <2>5, <2>7, <3>1 DEF InLine
    <3>3. PICK k \in Nat : /\ Carries(published[c], c, queue[c], n, k)
                           /\ Carries(published[c], c, ready, k, Len(published[c]))
      BY <1>4, <3>2 DEF Behind
    <3>4. IF Own(c, m)
          THEN /\ k + 1 \in 1..Len(published[c]) /\ m.type = published[c][k + 1]
               /\ Carries(published[c], c, Tail(ready), k + 1, Len(published[c]))
          ELSE Carries(published[c], c, Tail(ready), k, Len(published[c]))
      BY <1>5, <2>1, <2>3, <2>4, <3>3, CarriesPop
    <3>5. CASE hub[c] # "subscribed"
      <4>1. Len(published[c]) = 0
        BY <1>3, <3>2, <3>5, QuietUnlessSubscribed
      <4>2. ~Own(c, m)
        BY <3>4, <4>1
      <4> QED
        BY <1>2, <2>1, <2>5, <3>3, <3>4, <3>5, <4>2 DEF Behind
    <3>6. CASE hub[c] = "subscribed"
      <4>1. queue'[c] = Append(queue[c], m)
        BY <2>5, <3>1, <3>6
      <4>2. PICK to \in Nat : to = IF Own(c, m) THEN k + 1 ELSE k
        OBVIOUS
      <4>3. Own(c, m) => k + 1 <= Len(published[c]) /\ m.type = published[c][k + 1]
        BY <1>5, <3>4
      <4>4. Carries(published[c], c, Append(queue[c], m), n, to)
        BY <1>5, <3>3, <4>2, <4>3, CarriesAppend
      <4>5. Carries(published[c], c, Tail(ready), to, Len(published[c]))
        BY <3>4, <4>2
      <4> QED
        BY <1>2, <2>1, <4>1, <4>4, <4>5 DEF Behind
    <3> QED
      BY <3>5, <3>6
  <2> QED
    BY <2>6, <2>7 DEF Line
<1>8. CASE RemoveOnLoop \/ StartOnLoop
  <2>1. /\ ready # << >> /\ ready' = Tail(ready) /\ Head(ready).do # "publish"
        /\ UNCHANGED <<wire, daemon>>
    BY <1>8 DEF RemoveOnLoop, StartOnLoop, NextCallback
  <2>2. ~Own(c, Head(ready))
    BY <1>6, <2>1 DEF Own, CallbackHasEvent
  <2>3. Ahead(c, n)'
    BY <1>2, <1>4, <2>1, AheadKept
  <2>4. Head(ready).run \in Clients
    BY <1>6, <2>1 DEF Callbacks
  <2>5. \/ queue'[c] = queue[c] /\ hub'[c] = hub[c] /\ UNCHANGED lost
        \/ queue'[c] = << >> /\ hub'[c] = "absent"
    <3>1. CASE RemoveOnLoop
      BY <1>1, <2>4, <3>1 DEF RemoveOnLoop, TypesInv, TypeOK
    <3>2. CASE StartOnLoop
      BY <3>2 DEF StartOnLoop
    <3> QED
      BY <1>8, <3>1, <3>2
  <2>6. ASSUME InLine(c)'  PROVE Behind(c, n)'
    <3>1. CASE queue'[c] = queue[c] /\ hub'[c] = hub[c] /\ UNCHANGED lost
      <4>1. InLine(c)
        BY <1>2, <2>1, <2>6, <3>1 DEF InLine
      <4> QED
        BY <1>1, <1>2, <1>4, <2>1, <2>2, <3>1, <4>1, BehindPop
    <3>2. CASE queue'[c] = << >> /\ hub'[c] = "absent"
      <4>1. pc[c] = "connecting" /\ InLine(c) /\ hub[c] = "absent"
        BY <1>2, <2>1, <2>6, <3>2 DEF InLine, StreamInv, SubscribedFirst
      <4>2. published[c] = << >>
        BY <1>3, <4>1, QuietUnlessSubscribed
      <4>3. PICK k \in Nat : /\ Carries(<< >>, c, queue[c], n, k)
                             /\ Carries(<< >>, c, ready, k, Len(published[c]))
        BY <1>4, <4>1, <4>2 DEF Behind
      <4>4. n = 0 /\ k = 0
        BY <1>5, <4>3, CarriesNone
      <4>5. Carries(<< >>, c, Tail(ready), k, Len(published[c]))
        BY <1>5, <2>1, <2>2, <4>2, <4>3, CarriesPop
      <4>6. Carries(<< >>, c, << >>, 0, 0)
        <5>1. << >> \in Seq(EventTypes) /\ 0 \in 0..Len(<< >>)
          OBVIOUS
        <5> QED
          BY <5>1, CarriesNothing
      <4> QED
        BY <1>2, <2>1, <3>2, <4>2, <4>4, <4>5, <4>6 DEF Behind
    <3> QED
      BY <2>5, <3>1, <3>2
  <2> QED
    BY <2>3, <2>6 DEF Line
<1>9. CASE Shutdown
  <2>1. InLine(c)' => InLine(c)
    BY <1>2, <1>9 DEF Shutdown, InLine
  <2> QED
    BY <1>2, <1>3, <1>9, <2>1, LineKept DEF Shutdown
<1>10. CASE Stop
  <2>1. PICK kept \in [Clients -> 0 .. HighWater + 2] :
          /\ \A d \in Clients : kept[d] <= Len(wire[d])
          /\ wire' = [d \in Clients |-> SubSeq(wire[d], 1, kept[d])]
    BY <1>10 DEF Stop
  <2>2. PICK k \in Nat : /\ Carries(published[c], c, pending[c], Len(seen[c]), k)
                         /\ Carries(published[c], c, wire[c], k, n)
    BY <1>4 DEF Ahead
  <2>3. wire[c] \in Seq(Message) /\ kept[c] \in Nat /\ kept[c] <= Len(wire[c])
    BY <1>1, <2>1, StreamTypes, RunStreamAssumption
  <2>4. PICK m \in Nat : Carries(published[c], c, SubSeq(wire[c], 1, kept[c]), k, m)
    BY <1>5, <2>2, <2>3, CarriesFront
  <2>5. Ahead(c, m)'
    BY <1>2, <2>1, <2>2, <2>4 DEF Ahead
  <2>6. ~InLine(c)'
    BY <1>10 DEF Stop, InLine
  <2> QED
    BY <2>5, <2>6 DEF Line
<1> QED
  BY <1>7, <1>8, <1>9, <1>10 DEF Loop

\* A publication reaches the line of the run's client at its end, or, when the
\* loop has stopped, not at all.
LEMMA LinePublished ==
  ASSUME StreamInv, NEW r \in Clients, NEW type \in EventTypes, Publish(r, type),
         UNCHANGED <<client, socket, hubs, daemon>>,
         NEW c \in Clients, pc'[c] # "exited"
  PROVE  Line(c)'
<1> USE DEF client, socket, hubs
<1>1. TypesInv /\ pc[c] # "exited" /\ Line(c)
  BY DEF StreamInv, LineInv
<1>2. PICK n \in Nat : Ahead(c, n) /\ (InLine(c) => Behind(c, n))
  BY <1>1 DEF Line
<1>3. /\ published' \in [Clients -> Seq(EventTypes)]
      /\ published'[r] = Append(published[r], type)
      /\ \A d \in Clients : d # r => published'[d] = published[d]
  BY <1>1, PublishEffect
<1>4. InLine(c)' => InLine(c) /\ daemon # "stopped"
  BY DEF InLine, StreamInv, SubscribedFirst
<1>5. CASE c # r
  <2>1. Ahead(c, n)'
    BY <1>2, <1>3, <1>5, AheadKept
  <2>2. ASSUME InLine(c)'  PROVE Behind(c, n)'
    <3>1. ready' = Append(ready, Callback("publish", r, type))
      BY <1>4, <2>2 DEF Publish
    <3>2. Callback("publish", r, type) \in Callbacks /\ ~Own(c, Callback("publish", r, type))
      BY <1>5 DEF Callback, Callbacks, Own
    <3> QED
      BY <1>1, <1>2, <1>3, <1>4, <1>5, <2>2, <3>1, <3>2, BehindAppend
  <2> QED
    BY <2>1, <2>2 DEF Line
<1>6. CASE c = r
  <2> DEFINE events == published[c]
             more == Append(events, type)
  <2>1. /\ events \in Seq(EventTypes) /\ pending[c] \in Seq(EventsOf) /\ wire[c] \in Seq(Message)
        /\ queue[c] \in Seq(EventsOf) /\ ready \in Seq(Callbacks)
    BY <1>1, StreamTypes
  <2>2. /\ more \in Seq(EventTypes) /\ Len(more) = Len(events) + 1 /\ Len(events) \in Nat
        /\ more[Len(events) + 1] = type /\ \A i \in 1..Len(events) : more[i] = events[i]
    BY <2>1, Appended
  <2>3. published'[c] = more
    BY <1>3, <1>6
  <2> HIDE DEF more
  <2>4. Len(events) <= Len(more)
    BY <2>2
  <2>5. PICK k \in Nat : /\ Carries(events, c, pending[c], Len(seen[c]), k)
                         /\ Carries(events, c, wire[c], k, n)
    BY <1>2 DEF Ahead
  <2>6. Carries(more, c, pending[c], Len(seen[c]), k) /\ Carries(more, c, wire[c], k, n)
    BY <2>1, <2>2, <2>4, <2>5, CarriesMore
  <2>7. Ahead(c, n)'
    BY <2>3, <2>6 DEF Ahead
  <2>8. ASSUME InLine(c)'  PROVE Behind(c, n)'
    <3>1. PICK m \in Callbacks : m = Callback("publish", r, type)
      BY DEF Callback, Callbacks
    <3>2. ready' = Append(ready, m) /\ m.type = type /\ Own(c, m)
      BY <1>4, <1>6, <2>8, <3>1 DEF Publish, Own, Callback
    <3>3. PICK j \in Nat : /\ Carries(events, c, queue[c], n, j)
                           /\ Carries(events, c, ready, j, Len(events))
      BY <1>2, <1>4, <2>8 DEF Behind
    <3>4. Carries(more, c, queue[c], n, j) /\ Carries(more, c, ready, j, Len(events))
      BY <2>1, <2>2, <2>4, <3>3, CarriesMore
    <3>5. Len(events) + 1 <= Len(more) /\ m.type = more[Len(events) + 1]
      BY <2>2, <3>2
    <3>6. Carries(more, c, Append(ready, m), j, Len(events) + 1)
      BY <2>1, <2>2, <3>2, <3>4, <3>5, CarriesAppend
    <3>7. Carries(more, c, Append(ready, m), j, Len(more))
      BY <2>2, <3>6
    <3> QED
      BY <2>3, <3>2, <3>4, <3>7 DEF Behind
  <2> QED
    BY <2>7, <2>8 DEF Line
<1> QED
  BY <1>5, <1>6

LEMMA LineReported ==
  ASSUME StreamInv, NEW r \in Clients, Report(r), NEW c \in Clients, pc'[c] # "exited"
  PROVE  Line(c)'
<1> USE DEF client, socket, hubs
<1>1. TypesInv /\ pc[c] # "exited" /\ Line(c) /\ UNCHANGED <<client, socket, hubs, daemon>>
  BY DEF StreamInv, LineInv, Report
<1>2. PICK n \in Nat : Ahead(c, n) /\ (InLine(c) => Behind(c, n))
  BY <1>1 DEF Line
<1>3. /\ published'[r] = published[r] \o <<"agent.error", "failed">>
      /\ \A d \in Clients : d # r => published'[d] = published[d]
  BY <1>1, ReportEffect
<1>4. InLine(c)' => InLine(c)
  BY <1>1 DEF InLine
<1>5. PICK first \in Callbacks, second \in Callbacks :
        /\ first = Callback("publish", r, "agent.error")
        /\ second = Callback("publish", r, "failed")
  BY DEF Callback, Callbacks, EventTypes, Garbled, Verdicts
<1>6. /\ first.run = r /\ first.type = "agent.error" /\ second.run = r /\ second.type = "failed"
      /\ ready' = ready \o <<first, second>>
  BY <1>5 DEF Callback, Report
<1>7. "agent.error" \in EventTypes /\ "failed" \in EventTypes
  BY DEF EventTypes, Garbled, Verdicts
<1> DEFINE events == published[c]
<1>8. /\ events \in Seq(EventTypes) /\ pending[c] \in Seq(EventsOf) /\ wire[c] \in Seq(Message)
      /\ queue[c] \in Seq(EventsOf) /\ ready \in Seq(Callbacks) /\ Len(events) \in Nat
  BY <1>1, StreamTypes
<1>9. /\ ready' = Append(Append(ready, first), second) /\ Append(ready, first) \in Seq(Callbacks)
  BY <1>6, <1>8, Two, Appended
<1>10. CASE c # r
  <2>1. ~Own(c, first) /\ ~Own(c, second) /\ published'[c] = events
    BY <1>3, <1>6, <1>10 DEF Own
  <2>2. Ahead(c, n)'
    BY <1>1, <1>2, <2>1, AheadKept
  <2>3. ASSUME InLine(c)'  PROVE Behind(c, n)'
    <3>1. PICK j \in Nat : Carries(events, c, queue[c], n, j) /\ Carries(events, c, ready, j, Len(events))
      BY <1>2, <1>4, <2>3 DEF Behind
    <3>2. Carries(events, c, Append(ready, first), j, Len(events))
      BY <1>8, <2>1, <3>1, CarriesAppend
    <3>3. Carries(events, c, ready', j, Len(events))
      BY <1>8, <1>9, <2>1, <3>2, CarriesAppend
    <3> QED
      BY <1>1, <2>1, <3>1, <3>3 DEF Behind
  <2> QED
    BY <2>2, <2>3 DEF Line
<1>11. CASE c = r
  <2> DEFINE more == events \o <<"agent.error", "failed">>
  <2>1. /\ more \in Seq(EventTypes) /\ Len(more) = Len(events) + 2
        /\ more[Len(events) + 1] = "agent.error" /\ more[Len(events) + 2] = "failed"
        /\ \A i \in 1..Len(events) : more[i] = events[i]
    BY <1>7, <1>8, Two
  <2>2. published'[c] = more
    BY <1>3, <1>11
  <2> HIDE DEF more
  <2>3. Len(events) <= Len(more)
    BY <1>8, <2>1
  <2>4. PICK k \in Nat : /\ Carries(events, c, pending[c], Len(seen[c]), k)
                         /\ Carries(events, c, wire[c], k, n)
    BY <1>2 DEF Ahead
  <2>5. Carries(more, c, pending[c], Len(seen[c]), k) /\ Carries(more, c, wire[c], k, n)
    BY <1>8, <2>1, <2>3, <2>4, CarriesMore
  <2>6. Ahead(c, n)'
    BY <1>1, <2>2, <2>5 DEF Ahead
  <2>7. ASSUME InLine(c)'  PROVE Behind(c, n)'
    <3>1. Own(c, first) /\ Own(c, second)
      BY <1>6, <1>7, <1>11 DEF Own
    <3>2. PICK j \in Nat : Carries(events, c, queue[c], n, j) /\ Carries(events, c, ready, j, Len(events))
      BY <1>2, <1>4, <2>7 DEF Behind
    <3>3. Carries(more, c, queue[c], n, j) /\ Carries(more, c, ready, j, Len(events))
      BY <1>8, <2>1, <2>3, <3>2, CarriesMore
    <3>4. Len(events) + 1 <= Len(more) /\ (Len(events) + 1) + 1 <= Len(more)
          /\ (Len(events) + 1) + 1 = Len(events) + 2
      BY <1>8, <2>1
    <3>5. Carries(more, c, Append(ready, first), j, Len(events) + 1)
      BY <1>6, <1>8, <2>1, <3>1, <3>3, <3>4, CarriesAppend
    <3>6. second.type = more[(Len(events) + 1) + 1]
      BY <1>6, <2>1, <3>4
    <3>7. Carries(more, c, Append(Append(ready, first), second), j, (Len(events) + 1) + 1)
      BY <1>9, <2>1, <3>1, <3>4, <3>5, <3>6, CarriesAppend
    <3>8. Carries(more, c, ready', j, Len(more))
      BY <1>9, <2>1, <3>4, <3>7
    <3> QED
      BY <1>1, <2>2, <3>3, <3>8 DEF Behind
  <2> QED
    BY <2>6, <2>7 DEF Line
<1> QED
  BY <1>10, <1>11

LEMMA LineNext == ASSUME StreamInv, [Next]_vars  PROVE LineInv'
<1> USE DEF client, socket, hubs, runs
<1>1. TypesInv /\ \A c \in Clients : pc[c] # "exited" => Line(c)
  BY DEF StreamInv, LineInv
<1>2. ASSUME NEW c \in Clients, Connect(c)  PROVE LineInv'
  <2>1. /\ UNCHANGED <<published, pending, wire, seen, queue, ready, daemon>>
        /\ pc[c] = "connecting" /\ daemon = "running"
        /\ UNCHANGED lost
        /\ \A d \in Clients : d # c => pc'[d] = pc[d] /\ hub'[d] = hub[d]
    BY <1>1, <1>2 DEF Connect, TypesInv, TypeOK
  <2>2. ASSUME NEW d \in Clients, pc'[d] # "exited"  PROVE Line(d)'
    <3>1. pc[d] # "exited" /\ (InLine(d)' => InLine(d))
      BY <2>1, <2>2 DEF InLine
    <3> QED
      BY <1>1, <2>1, <3>1, LineKept
  <2> QED
    BY <2>2 DEF LineInv
<1>3. ASSUME NEW c \in Clients, ConnectFails(c) \/ Quit(c) \/ Cli(c)  PROVE LineInv'
  <2>1. UNCHANGED <<published, hub, queue, lost, ready, daemon>>
    BY <1>3 DEF ConnectFails, Quit, Cli, ReadEarlyEvent, ReadSubscribed, ReadAccepted, ShowPending,
                ReadRefused, ReadEvent, ReadEof
  <2>2. ASSUME NEW d \in Clients, d # c
        PROVE  pc'[d] = pc[d] /\ pending'[d] = pending[d] /\ wire'[d] = wire[d] /\ seen'[d] = seen[d]
    <3>1. pc' = pc \/ \E x : pc' = [pc EXCEPT ![c] = x]
      BY <1>3 DEF ConnectFails, Quit, Cli, ReadEarlyEvent, ReadSubscribed, ReadAccepted, ShowPending,
                  ReadRefused, ReadEvent, ReadEof, Read, Show, Exit
    <3>2. pending' = pending \/ \E x : pending' = [pending EXCEPT ![c] = x]
      BY <1>3 DEF ConnectFails, Quit, Cli, ReadEarlyEvent, ReadSubscribed, ReadAccepted, ShowPending,
                  ReadRefused, ReadEvent, ReadEof, Read, Show, Exit
    <3>3. wire' = wire \/ \E x : wire' = [wire EXCEPT ![c] = x]
      BY <1>3 DEF ConnectFails, Quit, Cli, ReadEarlyEvent, ReadSubscribed, ReadAccepted, ShowPending,
                  ReadRefused, ReadEvent, ReadEof, Read, Show, Exit
    <3>4. seen' = seen \/ \E x : seen' = [seen EXCEPT ![c] = x]
      BY <1>3 DEF ConnectFails, Quit, Cli, ReadEarlyEvent, ReadSubscribed, ReadAccepted, ShowPending,
                  ReadRefused, ReadEvent, ReadEof, Read, Show, Exit
    <3> QED
      BY <1>1, <2>2, <3>1, <3>2, <3>3, <3>4 DEF TypesInv, TypeOK
  <2>3. ASSUME NEW d \in Clients, d # c, pc'[d] # "exited"  PROVE Line(d)'
    <3>1. InLine(d)' => InLine(d)
      BY <2>1, <2>2, <2>3 DEF InLine
    <3> QED
      BY <1>1, <2>1, <2>2, <2>3, <3>1, LineKept
  <2>4. ASSUME pc'[c] # "exited"  PROVE Line(c)'
    <3>1. Cli(c)
      BY <1>1, <1>3, <2>4 DEF ConnectFails, Quit, Exit, TypesInv, TypeOK
    <3> QED
      BY <2>4, <3>1, LineCli
  <2> QED
    BY <2>3, <2>4 DEF LineInv
<1>4. ASSUME NEW c \in Clients, Connection(c) \/ Send(c) \/ SendDies(c) \/ SendFails(c)  PROVE LineInv'
  BY <1>4, LineConnection DEF LineInv
<1>5. CASE Loop \/ Shutdown \/ Stop
  BY <1>5, LineLoop DEF LineInv
<1>6. ASSUME UNCHANGED <<client, socket, hubs, ready, daemon, published>>  PROVE LineInv'
  <2>1. ASSUME NEW c \in Clients, pc'[c] # "exited"  PROVE Line(c)'
    BY <1>1, <1>6, <2>1, LineKept DEF InLine
  <2> QED
    BY <2>1 DEF LineInv
<1>7. ASSUME NEW r \in Clients, Runtime(r) \/ ReportRefresh(r)  PROVE LineInv'
  <2>1. CASE RefreshScheduled(r)
    BY <1>6, <2>1 DEF RefreshScheduled
  <2>2. CASE ~RefreshScheduled(r)
    <3>1. UNCHANGED <<client, socket, hubs, daemon>>
      BY <1>7, <2>2 DEF Runtime, ReportRefresh, PublishStarted, EngineEmits, Emit, MemoryFails,
                        PublishAnswer, PublishError, Finish, ThreadOnly
    <3>2. PICK type \in EventTypes : Publish(r, type)
      BY <1>1, <1>7, <2>2
         DEF Runtime, ReportRefresh, PublishStarted, EngineEmits, Emit, MemoryFails, PublishAnswer,
             PublishError, Finish, EventTypes, Garbled, TypesInv, TypeOK
    <3> QED
      BY <3>1, <3>2, LinePublished DEF LineInv
  <2> QED
    BY <2>1, <2>2
<1>8. ASSUME NEW r \in Clients, Report(r)  PROVE LineInv'
  BY <1>8, LineReported DEF LineInv
<1>9. CASE UNCHANGED vars
  BY <1>6, <1>9 DEF vars
<1> QED
  BY <1>2, <1>3, <1>4, <1>5, <1>7, <1>8, <1>9 DEF Next

LEMMA StreamInvInit == Init => StreamInv
BY TypesInit, StartedOnceInit, SubscribedFirstInit, LineInit DEF StreamInv

LEMMA StreamInvNext == ASSUME StreamInv, [Next]_vars  PROVE StreamInv'
BY TypesNext, StartedOnceNext, SubscribedFirstNext, SilentNext, CodeAtExitNext, LineNext
   DEF StreamInv

-------------------------------------------------------------------------------
(* The refinement: each step publishes, shows, gives up, or stutters.      *)

LEMMA StepPublishes ==
  ASSUME StreamInv, NEW r \in Clients, Runtime(r) \/ ReportRefresh(r) \/ Report(r)
  PROVE  Stream!Publish(r) \/ UNCHANGED <<published, seen, code>>
<1> USE DEF client
<1>1. TypesInv
  BY DEF StreamInv
<1>2. UNCHANGED <<seen, code>>
  BY DEF Runtime, ReportRefresh, Report, PublishStarted, EngineEmits, Emit, MemoryFails, RefreshScheduled,
         PublishAnswer, PublishError, Finish, ThreadOnly
<1>3. CASE RefreshScheduled(r)
  BY <1>2, <1>3 DEF RefreshScheduled
<1>4. CASE Report(r)
  BY <1>2, <1>4 DEF Report, Stream!Publish
<1>5. CASE ~RefreshScheduled(r) /\ ~Report(r)
  <2>1. PICK type \in EventTypes : Publish(r, type)
    BY <1>1, <1>5
       DEF Runtime, ReportRefresh, PublishStarted, EngineEmits, Emit, MemoryFails, PublishAnswer,
           PublishError, Finish, EventTypes, Garbled, TypesInv, TypeOK
  <2>2. published[r] \in Seq(EventTypes)
    BY <1>1, StreamTypes
  <2>3. Append(published[r], type) = published[r] \o <<type>>
    BY <2>2
  <2>4. published' = [published EXCEPT ![r] = published[r] \o <<type>>]
    BY <2>1, <2>3 DEF Publish
  <2> QED
    <3>1. type \in Stream!EventTypes
      BY DEF EventTypes, Garbled, Verdicts, Stream!EventTypes, Stream!Garbled, Stream!Verdicts
    <3>2. <<type>> \in {<<e>> : e \in Stream!EventTypes}
      BY <3>1
    <3> QED
      BY <1>2, <2>4, <3>2 DEF Stream!Publish
<1> QED
  BY <1>3, <1>4, <1>5

LEMMA StepShows ==
  ASSUME StreamInv, NEW c \in Clients, ConnectFails(c) \/ Quit(c) \/ Cli(c)
  PROVE  Stream!Show(c) \/ Stream!GiveUp(c) \/ UNCHANGED <<published, seen, code>>
<1> USE DEF client, runs
<1>1. TypesInv /\ CodeAtExit
  BY DEF StreamInv
<1>2. UNCHANGED published
  BY DEF ConnectFails, Quit, Cli, ReadEarlyEvent, ReadSubscribed, ReadAccepted, ShowPending,
         ReadRefused, ReadEvent, ReadEof
<1>3. ASSUME NEW x \in {"error", "interrupted"}, Exit(c, x), UNCHANGED seen, pc[c] # "exited"
      PROVE  Stream!GiveUp(c)
  BY <1>1, <1>2, <1>3 DEF Exit, Stream!GiveUp, CodeAtExit, StillRunning, Stream!StillRunning
<1>4. ASSUME pc[c] # "exited", ShowsNext(c)  PROVE Stream!Show(c)
  BY <1>1, <1>2, <1>4
     DEF ShowsNext, Stream!Show, CodeAtExit, StillRunning, Stream!StillRunning, ExitOf,
         Stream!ExitOf, Verdicts, Stream!Verdicts
<1>5. CASE ConnectFails(c) \/ Quit(c)
  BY <1>3, <1>5 DEF ConnectFails, Quit
<1>6. CASE Cli(c)
  BY <1>2, <1>3, <1>4, <1>6, LineCli
<1> QED
  BY <1>5, <1>6

LEMMA StreamStep ==
  ASSUME StreamInv, [Next]_vars
  PROVE  [Stream!Next]_<<published, seen, code>>
<1> USE DEF client, runs
<1>1. ASSUME NEW c \in Clients, Connect(c) \/ Connection(c) \/ Send(c) \/ SendDies(c) \/ SendFails(c)
      PROVE  UNCHANGED <<published, seen, code>>
  BY <1>1 DEF Connect, Connection, Subscribe, StartRun, RefuseRun, Disconnected, Send, SendDies, SendsNext, SendFails
<1>2. ASSUME NEW c \in Clients, ConnectFails(c) \/ Quit(c) \/ Cli(c)
      PROVE  Stream!Next \/ UNCHANGED <<published, seen, code>>
  BY <1>2, StepShows DEF Stream!Next
<1>3. CASE Loop \/ Shutdown \/ Stop
  BY <1>3 DEF Loop, PublishOnLoop, RemoveOnLoop, StartOnLoop, Shutdown, Stop
<1>4. ASSUME NEW r \in Clients, Runtime(r) \/ ReportRefresh(r) \/ Report(r)
      PROVE  Stream!Next \/ UNCHANGED <<published, seen, code>>
  BY <1>4, StepPublishes DEF Stream!Next
<1>5. CASE UNCHANGED vars
  BY <1>5 DEF vars
<1> QED
  BY <1>1, <1>2, <1>3, <1>4, <1>5 DEF Next

(***************************************************************************)
(* EventHub, its queues and send loops, the sockets, the events read too   *)
(* early: for any number of CLIs and runs, any queue and buffer size, any  *)
(* faults, and a shutdown in the middle, a CLI prints its own run's events *)
(* from the first one on, in order and without a gap or a repetition, and  *)
(* exits with the verdict, or gives up and claims nothing.                 *)
(***************************************************************************)
THEOREM CliShowsTheStream == Spec => ShowsTheStream
<1>1. Init => Stream!Init
  BY DEF Init, Stream!Init, StillRunning, Stream!StillRunning
<1>2. StreamInv /\ [Next]_vars => StreamInv' /\ [Stream!Next]_<<published, seen, code>>
  BY StreamInvNext, StreamStep
<1> QED
  BY <1>1, <1>2, StreamInvInit, PTL DEF Spec, ShowsTheStream, Stream!Spec
===============================================================================
