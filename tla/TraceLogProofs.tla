----------------------------- MODULE TraceLogProofs -----------------------------
(***************************************************************************)
(* The order of a trace, for any number of runs, clients, events and       *)
(* milliseconds.                                                           *)
(***************************************************************************)
EXTENDS TraceLog, SequenceTheorems, FiniteSetTheorems, TLAPS

-------------------------------------------------------------------------------
(* What a thread has to do, and what must be in the trace before it.       *)

Sources == {"run", "refresh", "task"}
Begun == {"running", "remembered", "raised", "failed"}
Over == {"raised", "failed"}

RequestNote(r) == Note("CLIENT_TO_CORE", r, "client", 0, NoOne)
ReplyNote(r) == Note("CORE_TO_CLIENT", r, "reply", 0, NoOne)

Items == [do : {"record", "notify", "push", "request", "start", "report"},
          kind : {"none", "CLIENT_TO_CORE", "CORE_TO_CLIENT", "CORE", "CORE_TO_LLM", "LLM_TO_CORE", "TOOL"},
          run : Runs, by : Sources \cup {"client", "reply"}, n : Nat, client : Clients \cup {NoOne}]

\* What the loop may find on its agenda ...
LoopItem(x) ==
  \/ \E r \in Runs : x \in {Callback("request", r, "client", 0), Callback("start", r, "client", 0),
                           Callback("report", r, "task", 0), RequestNote(r), ReplyNote(r)}
  \/ \E r \in Runs, n \in {1, 2} : x \in {Note("CORE", r, "task", n, NoOne),
                                         Callback("notify", r, "task", n)}
  \/ \E r \in Runs, by \in Sources, n \in Nat :
       \/ x = Callback("push", r, by, n)
       \/ \E c \in Clients : x = Note("CORE_TO_CLIENT", r, by, n, c)

LoopItems == \A i \in 1..Len(agenda[Loop]) : LoopItem(agenda[Loop][i])

\* ... and what a thread of a run does, of its latest event or call.
Latest(t, kind) == Note(kind, RunOf(t), t[2], done[t], NoOne)
LatestNotify(t) == Callback("notify", RunOf(t), t[2], done[t])

WorkerAgenda(t) ==
  agenda[t] \in {<< >>,
                 <<Latest(t, "CORE"), LatestNotify(t)>>, <<LatestNotify(t)>>,
                 <<Latest(t, "CORE_TO_LLM"), Latest(t, "LLM_TO_CORE")>>, <<Latest(t, "LLM_TO_CORE")>>,
                 <<Latest(t, "TOOL")>>}

\* An event that goes, or went, to clients.
IsDelivery(x) == x.do = "push" \/ (x.kind = "CORE_TO_CLIENT" /\ x.by # "reply")

\* The last entry of the n-th event or call of a thread is one of these.
Lasts(r, by, n) == {Note("CORE", r, by, n, NoOne), Note("LLM_TO_CORE", r, by, n, NoOne),
                    Note("TOOL", r, by, n, NoOne)}

\* The entries that come before x: of each set one.
Causes(x) ==
  IF x.do \in {"start", "report"} THEN {}
  ELSE IF x.kind \in {"CORE", "CORE_TO_LLM", "TOOL"}
  THEN IF x.n > 1 THEN {Lasts(x.run, x.by, x.n - 1)} ELSE {}
  ELSE IF x.kind = "LLM_TO_CORE" THEN {{Note("CORE_TO_LLM", x.run, x.by, x.n, NoOne)}}
  ELSE {{Note("CORE", x.run, x.by, x.n, NoOne)}}

Required(x) ==
  IF x.do = "request" \/ x.kind = "CLIENT_TO_CORE" THEN {}
  ELSE IF x.by = "reply" THEN {{RequestNote(x.run)}}
  ELSE {{RequestNote(x.run)}, {ReplyNote(x.run)}} \cup Causes(x)

-------------------------------------------------------------------------------
(* Stamps.                                                                 *)

Typed ==
  /\ clock \in Nat \ {0} /\ seq \in Nat
  /\ agenda \in [Threads -> Seq(Items)]
  /\ stamp \in [Threads -> [seq : Nat, ts : Nat]]
  /\ done \in [Workers -> Nat]
  /\ phase \in [Runs -> Begun \cup {"none", "requested"}]
  /\ file \in [Runs -> SUBSET [note : Items, stamp : [seq : Nat, ts : Nat]]]

\* No stamp is ahead of clock and counter, and only an entry at the head has one.
Stamped ==
  /\ \A t \in Threads :
       /\ stamp[t].seq <= seq /\ stamp[t].ts <= clock
       /\ stamp[t].seq = 0 => stamp[t].ts = 0
       /\ stamp[t].seq # 0 => agenda[t] # << >> /\ agenda[t][1].do = "record"
  /\ \A r \in Runs : \A d \in file[r] : d.stamp.seq <= seq /\ d.stamp.ts <= clock /\ d.stamp.ts # 0

\* d was in the file before t took its stamp.
Past(t, d) ==
  stamp[t].seq # 0 => /\ d.stamp.seq < stamp[t].seq
                      /\ stamp[t].ts # 0 => d.stamp.ts <= stamp[t].ts

-------------------------------------------------------------------------------
(* Causes before effects.                                                  *)

\* When t gets to the i-th item of its agenda, y will be in the file.
Known(t, i, y) ==
  \/ \E j \in 1..i-1 : agenda[t][j] = y
  \/ \E d \in file[y.run] : d.note = y /\ (i = 1 => Past(t, d))

Caused(t) ==
  \A i \in 1..Len(agenda[t]) : \A alt \in Required(agenda[t][i]) :
    \E y \in alt : Known(t, i, y)

CausesRead ==
  \A r \in Runs : \A e \in file[r] : \A alt \in Required(e.note) :
    \E d \in file[r] : d.note \in alt /\ ReadsBefore(d, e)

Has(y) == \E d \in file[y.run] : d.note = y

Opened == \A r \in Runs : phase[r] \in Begun => Has(RequestNote(r)) /\ Has(ReplyNote(r))

\* The last entry of t's latest event or call is written, or will be next.
Reported(t) ==
  done[t] > 0 => \E y \in Lasts(RunOf(t), t[2], done[t]) :
                   Has(y) \/ \E i \in 1..Len(agenda[t]) : agenda[t][i] = y

CauseInv ==
  /\ Typed /\ Stamped /\ CausesRead /\ Opened
  /\ LoopItems
  /\ \A t \in Threads : Caused(t)
  /\ \A t \in Workers : WorkerAgenda(t) /\ Reported(t)

-------------------------------------------------------------------------------
(* Each once, and in order.                                                *)

Opening(r) == {Callback("request", r, "client", 0), Callback("start", r, "client", 0),
               RequestNote(r), ReplyNote(r)}
ReportOf(r) == Callback("report", r, "task", 0)

\* What x may be behind on the loop's agenda without coming too late.
Orderly(x, y) ==
  x.run = y.run /\ x.by = y.by =>
    /\ IsDelivery(x) /\ IsDelivery(y) /\ (x.do = "record" /\ y.do = "record" => x.client = y.client)
         => x.n < y.n
    /\ IsDelivery(x) /\ y.do = "notify" => x.n < y.n
    /\ x.do = "notify" /\ IsDelivery(y) => y.n < x.n
    /\ x.do = "notify" /\ y.do = "notify" => x.n < y.n

\* What can be on the loop's agenda beside each other.
Compatible(x, y) ==
  \A r \in Runs :
    /\ x = y => x \notin Opening(r) \cup {ReportOf(r)}
    /\ x = Callback("request", r, "client", 0) => y \notin Opening(r)
    /\ y = Callback("request", r, "client", 0) => x \notin Opening(r)
    /\ x = ReportOf(r) => ~(y.run = r /\ y.by = "task")
    /\ y = ReportOf(r) => ~(x.run = r /\ x.by = "task")

Beside(x, y) == Orderly(x, y) /\ Compatible(x, y)

InOrder(f) == \A i, j \in 1..Len(f) : i < j => Beside(f[i], f[j])

Notifies(t) == \E i \in 1..Len(agenda[t]) : agenda[t][i].do = "notify"

\* A delivery of one of t's events is of its latest at most.
Delivered(x) ==
  \A t \in Workers : x.run = RunOf(t) /\ x.by = t[2] =>
    x.n <= done[t] /\ (Notifies(t) => x.n < done[t])

\* How far r must have come for x to be on the loop's agenda.
Fits(x) ==
  LET r == x.run IN
    /\ x.do = "request" => file[r] = {} /\ phase[r] = "requested"
    /\ x.kind = "CLIENT_TO_CORE" => file[r] = {} /\ phase[r] # "none"
    /\ x.by = "reply" => (\A d \in file[r] : d.note = RequestNote(r)) /\ phase[r] # "none"
    /\ x.do = "start" => phase[r] = "requested"
    /\ x.by = "task" => phase[r] \in Over
    /\ x.do = "report" => \A d \in file[r] : d.note.by # "task"
    /\ IsDelivery(x) => Delivered(x)
    /\ IsDelivery(x) \/ x.do = "notify" =>
         \A d \in file[r] :
           IsDelivery(d.note) /\ d.note.by = x.by /\ (x.do = "record" => d.note.client = x.client)
             => d.note.n < x.n

LoopInOrder ==
  /\ \A i \in 1..Len(agenda[Loop]) : Fits(agenda[Loop][i])
  /\ InOrder(agenda[Loop])

\* An entry of r's file.
FileEntry(r, d) ==
  /\ d.note.run = r /\ d.note.do = "record"
  /\ \/ d.note \in {RequestNote(r), ReplyNote(r)}
     \/ d.note.kind \in {"CORE", "CORE_TO_LLM", "LLM_TO_CORE", "TOOL"} /\ d.note.by \in Sources
     \/ d.note.kind = "CORE_TO_CLIENT" /\ d.note.by \in Sources
  /\ d.note.by = "task" => phase[r] \in Over
  /\ d.note.kind = "CORE_TO_CLIENT" => Past(Loop, d)
  /\ IsDelivery(d.note) => Delivered(d.note)

FileInOrder ==
  \A r \in Runs :
    /\ phase[r] = "none" => file[r] = {}
    /\ \A d \in file[r] : FileEntry(r, d)
    /\ \A d, e \in file[r] :
         /\ d.note = e.note /\ d.note \in {RequestNote(r), ReplyNote(r)} => d = e
         /\ IsDelivery(d.note) /\ IsDelivery(e.note) /\ d.note.by = e.note.by
            /\ d.note.client = e.note.client =>
              (d.note.n < e.note.n => ReadsBefore(d, e)) /\ (d.note.n = e.note.n => d = e)

OnceInv == LoopInOrder /\ FileInOrder

-------------------------------------------------------------------------------
(* Sequences and constants.                                                *)

\* The rest of a sequence, by index.
LEMMA Popped ==
  ASSUME NEW S, NEW s \in Seq(S), s # << >>
  PROVE  /\ Len(s) \in Nat /\ Len(s) > 0 /\ Head(s) = s[1] /\ Head(s) \in S
         /\ Tail(s) \in Seq(S) /\ Len(Tail(s)) = Len(s) - 1
         /\ \A i \in 1..Len(Tail(s)) : Tail(s)[i] = s[i + 1] /\ i + 1 \in 1..Len(s)
BY HeadTailProperties

\* A sequence with one more item, by index.
LEMMA Appended ==
  ASSUME NEW S, NEW s \in Seq(S), NEW x \in S
  PROVE  /\ Len(s) \in Nat /\ Append(s, x) \in Seq(S) /\ Len(Append(s, x)) = Len(s) + 1
         /\ Append(s, x)[Len(s) + 1] = x
         /\ \A i \in 1..Len(s) : Append(s, x)[i] = s[i]
OBVIOUS

\* In r the head of s has made room for f, and b is added.
IsSplice(r, s, f, b) ==
  /\ Len(r) = Len(f) + Len(s) - 1 + Len(b)
  /\ \A k \in 1..Len(f) : r[k] = f[k]
  /\ \A i \in 2..Len(s) : r[Len(f) + i - 1] = s[i]
  /\ \A m \in 1..Len(b) : r[Len(f) + Len(s) - 1 + m] = b[m]
  /\ \A k \in 1..Len(r) : \/ k \in 1..Len(f)
                          \/ \E i \in 2..Len(s) : k = Len(f) + i - 1
                          \/ \E m \in 1..Len(b) : k = Len(f) + Len(s) - 1 + m

\* A head replaced by items before and behind the rest, by index.
LEMMA Spliced ==
  ASSUME NEW S, NEW s \in Seq(S), s # << >>, NEW f \in Seq(S), NEW b \in Seq(S),
         NEW r, r = f \o Tail(s) \o b
  PROVE  r \in Seq(S) /\ IsSplice(r, s, f, b)
<1>1. /\ Tail(s) \in Seq(S) /\ Len(Tail(s)) = Len(s) - 1 /\ Len(s) \in Nat /\ Len(s) > 0
      /\ \A i \in 1..Len(Tail(s)) : Tail(s)[i] = s[i + 1]
  BY Popped
<1> DEFINE u == f \o Tail(s)
<1>2. /\ u \in Seq(S) /\ Len(u) = Len(f) + Len(s) - 1 /\ Len(f) \in Nat /\ Len(b) \in Nat
      /\ \A k \in 1..Len(f) : u[k] = f[k]
      /\ \A i \in 2..Len(s) : u[Len(f) + i - 1] = s[i]
  <2>1. /\ u \in Seq(S) /\ Len(u) = Len(f) + Len(Tail(s)) /\ Len(f) \in Nat /\ Len(b) \in Nat
        /\ \A i \in 1..Len(u) : u[i] = IF i <= Len(f) THEN f[i] ELSE Tail(s)[i - Len(f)]
    BY <1>1, ConcatProperties
  <2> HIDE DEF u
  <2> DEFINE tail == Tail(s)
  <2> HIDE DEF tail
  <2>a. \A k \in 1..Len(u) : k <= Len(f) => u[k] = f[k]
    BY <2>1
  <2>b. \A k \in 1..Len(u) : ~(k <= Len(f)) => u[k] = tail[k - Len(f)]
    BY <2>1 DEF tail
  <2>2. ASSUME NEW k \in 1..Len(f)  PROVE u[k] = f[k]
    <3>1. k \in 1..Len(u) /\ k <= Len(f)
      BY <1>1, <2>1, <2>2
    <3> QED
      BY <2>a, <3>1
  <2>3. ASSUME NEW i \in 2..Len(s)  PROVE u[Len(f) + i - 1] = s[i]
    <3>1. Len(f) + i - 1 \in 1..Len(u) /\ ~(Len(f) + i - 1 <= Len(f)) /\ i - 1 \in 1..Len(Tail(s))
      BY <1>1, <2>1, <2>3
    <3>2. Tail(s)[i - 1] = s[i]
      <4>1. Tail(s)[i - 1] = s[(i - 1) + 1]
        BY <1>1, <3>1
      <4> QED
        BY <4>1
    <3>3. u[Len(f) + i - 1] = tail[(Len(f) + i - 1) - Len(f)]
      BY <2>b, <3>1
    <3>4. (Len(f) + i - 1) - Len(f) = i - 1
      BY <2>1, <2>3
    <3> QED
      BY <3>2, <3>3, <3>4 DEF tail
  <2> QED
    BY <1>1, <2>1, <2>2, <2>3
<1>3. r = u \o b
  OBVIOUS
<1> HIDE DEF u
<1>4. /\ r \in Seq(S) /\ Len(r) = Len(u) + Len(b)
      /\ \A i \in 1..Len(r) : r[i] = IF i <= Len(u) THEN u[i] ELSE b[i - Len(u)]
  BY <1>2, <1>3, ConcatProperties
<1>5. ASSUME NEW k \in 1..Len(u)  PROVE r[k] = u[k]
  BY <1>2, <1>4, <1>5
<1>6. ASSUME NEW m \in 1..Len(b)  PROVE r[Len(f) + Len(s) - 1 + m] = b[m]
  BY <1>1, <1>2, <1>4, <1>6
<1>7. ASSUME NEW i \in 2..Len(s)  PROVE r[Len(f) + i - 1] = s[i]
  BY <1>1, <1>2, <1>5, <1>7
<1>8. ASSUME NEW k \in 1..Len(f)  PROVE r[k] = f[k]
  BY <1>1, <1>2, <1>5, <1>8
<1>9. ASSUME NEW k \in 1..Len(r), k \notin 1..Len(f)
      PROVE  \/ \E i \in 2..Len(s) : k = Len(f) + i - 1
             \/ \E m \in 1..Len(b) : k = Len(f) + Len(s) - 1 + m
  <2>1. CASE k <= Len(u)
    <3>1. k - Len(f) + 1 \in 2..Len(s) /\ k = Len(f) + (k - Len(f) + 1) - 1
      BY <1>1, <1>2, <1>4, <1>9, <2>1
    <3> QED
      BY <3>1
  <2>2. CASE ~(k <= Len(u))
    <3>1. k - Len(u) \in 1..Len(b) /\ k = Len(f) + Len(s) - 1 + (k - Len(u))
      BY <1>1, <1>2, <1>4, <1>9, <2>2
    <3> QED
      BY <3>1
  <2> QED
    BY <2>1, <2>2
<1> QED
  BY <1>2, <1>4, <1>6, <1>7, <1>8, <1>9 DEF IsSplice

\* The loop is no thread of a run, and a run's thread knows its run.
LEMMA ThreadFacts ==
  /\ Loop \in Threads /\ Loop \notin Workers
  /\ \A t \in Workers : /\ t \in Threads /\ RunOf(t) \in Runs /\ t[2] \in {"run", "refresh"}
                        /\ t = <<RunOf(t), t[2]>>
  /\ \A r \in Runs : <<r, "run">> \in Workers /\ RunOf(<<r, "run">>) = r
BY TraceLogAssumption DEF Threads, Workers, RunOf

\* The clients an event is sent to, in some order.
LEMMA ServedInOrder ==
  ASSUME NEW S \in SUBSET Items, IsFiniteSet(S)
  PROVE  /\ SetToSeq(S) \in Seq(S)
         /\ \A i, j \in 1..Len(SetToSeq(S)) : SetToSeq(S)[i] = SetToSeq(S)[j] => i = j
<1>1. Cardinality(S) \in Nat /\ ExistsBijection(1..Cardinality(S), S)
  BY FS_CardinalityType
<1>2. PICK g \in [1..Cardinality(S) -> S] : IsInjective(g)
  BY <1>1 DEF ExistsBijection, Bijection, Injection
<1>3. /\ SetToSeq(S) \in [1..Cardinality(S) -> S] /\ IsInjective(SetToSeq(S))
  BY <1>2 DEF SetToSeq
<1> HIDE DEF SetToSeq
<1>4. DOMAIN SetToSeq(S) = 1..Cardinality(S)
  BY <1>3
<1>5. SetToSeq(S) \in Seq(S) /\ Len(SetToSeq(S)) = Cardinality(S)
  BY <1>1, <1>3, SeqDef
<1> QED
  BY <1>3, <1>4, <1>5 DEF IsInjective

\* What Push puts before the rest of the loop's agenda.
Deliveries(q, e) ==
  /\ q \in Seq(Items)
  /\ \A k \in 1..Len(q) : \E c \in Clients : q[k] = Note("CORE_TO_CLIENT", e.run, e.by, e.n, c)
  /\ \A i, j \in 1..Len(q) : q[i] = q[j] => i = j

\* What Push puts on the agenda: one copy for each client served.
LEMMA Served ==
  ASSUME NEW e \in Items, NEW served \in SUBSET Clients,
         NEW q, q = SetToSeq({Note("CORE_TO_CLIENT", e.run, e.by, e.n, c) : c \in served})
  PROVE  Deliveries(q, e)
<1> DEFINE S == {Note("CORE_TO_CLIENT", e.run, e.by, e.n, c) : c \in served}
           g == [c \in served |-> Note("CORE_TO_CLIENT", e.run, e.by, e.n, c)]
<1>1. S \in SUBSET Items
  BY DEF Items, Note
<1>2. IsFiniteSet(S)
  <2>1. IsFiniteSet(served)
    BY TraceLogAssumption, FS_Subset
  <2>2. g \in Surjection(served, S)
    BY DEF Surjection
  <2> QED
    BY <2>1, <2>2, FS_Surjection
<1>3. \A d \in S : \E c \in Clients : d = Note("CORE_TO_CLIENT", e.run, e.by, e.n, c)
  OBVIOUS
<1>4. q = SetToSeq(S)
  OBVIOUS
<1> HIDE DEF S
<1>5. /\ q \in Seq(S)
      /\ \A i, j \in 1..Len(q) : q[i] = q[j] => i = j
  BY <1>1, <1>2, <1>4, ServedInOrder
<1>6. q \in Seq(Items) /\ \A k \in 1..Len(q) : q[k] \in S
  BY <1>1, <1>5, SeqMonotonic, ElementOfSeq
<1> QED
  BY <1>3, <1>5, <1>6 DEF Deliveries

\* The items that steps make are items.
LEMMA NewItems ==
  ASSUME NEW r \in Runs, NEW n \in Nat, NEW by \in Sources \cup {"client", "reply"}
  PROVE  /\ \A kind \in {"CLIENT_TO_CORE", "CORE_TO_CLIENT", "CORE", "CORE_TO_LLM", "LLM_TO_CORE", "TOOL"} :
              Note(kind, r, by, n, NoOne) \in Items
         /\ \A do \in {"notify", "push", "request", "start", "report"} :
              Callback(do, r, by, n) \in Items
BY DEF Items, Note, Callback, Sources

\* A publish is two items.
LEMMA PublishedItems ==
  ASSUME NEW r \in Runs, NEW n \in Nat, NEW by \in Sources \cup {"client", "reply"}
  PROVE  Published(r, by, n) \in Seq(Items) /\ Len(Published(r, by, n)) = 2
BY NewItems DEF Published

\* The types hold at the start ...
LEMMA InitTyped == Init => Typed
BY ThreadFacts DEF Init, Typed, Unstamped, Begun

\* ... and every step keeps them.
LEMMA WellTyped == Typed /\ Stamped /\ [Next]_vars => Typed'
<1> SUFFICES ASSUME Typed, Stamped, [Next]_vars  PROVE Typed'
  OBVIOUS
<1> USE DEF Typed
<1>1. CASE Tick
  BY <1>1 DEF Tick
<1>2. ASSUME NEW t \in Threads, TakeNumber(t)  PROVE Typed'
  <2>1. seq' = seq + 1 /\ seq' \in Nat
    BY <1>2 DEF TakeNumber
  <2>2. PICK n : n = seq + 1
    OBVIOUS
  <2>3. stamp' = [stamp EXCEPT ![t].seq = n]
    BY <1>2, <2>1, <2>2 DEF TakeNumber
  <2>4. stamp' \in [Threads -> [seq : Nat, ts : Nat]]
    BY <2>2, <2>3
  <2> QED
    BY <1>2, <2>1, <2>4 DEF TakeNumber
<1>3. ASSUME NEW t \in Threads, TakeTime(t)  PROVE Typed'
  BY <1>3 DEF TakeTime
<1>4. ASSUME NEW t \in Threads, Write(t)  PROVE Typed'
  <2>1. PICK note : note = Head(agenda[t])
    OBVIOUS
  <2>2. agenda[t] # << >> /\ stamp[t] \in [seq : Nat, ts : Nat] /\ agenda[t] \in Seq(Items)
    BY <1>4 DEF Write, Stamped
  <2>3. note \in Items /\ Tail(agenda[t]) \in Seq(Items)
    BY <2>1, <2>2, Popped
  <2>5. note.run \in Runs
    BY <2>3 DEF Items
  <2>6. [note |-> note, stamp |-> stamp[t]] \in [note : Items, stamp : [seq : Nat, ts : Nat]]
    BY <2>2, <2>3
  <2>7. Unstamped \in [seq : Nat, ts : Nat]
    BY DEF Unstamped
  <2>4. file' = [file EXCEPT ![note.run] = @ \cup {[note |-> note, stamp |-> stamp[t]]}]
    BY <1>4, <2>1 DEF Write
  <2>8. file' \in [Runs -> SUBSET [note : Items, stamp : [seq : Nat, ts : Nat]]]
    <3>1. (file[note.run] \cup {[note |-> note, stamp |-> stamp[t]]})
            \in SUBSET [note : Items, stamp : [seq : Nat, ts : Nat]]
      BY <2>5, <2>6
    <3> QED
      BY <2>4, <3>1
  <2> QED
    BY <1>4, <2>3, <2>7, <2>8 DEF Write
<1>5. ASSUME NEW t \in Threads, Notify(t)  PROVE Typed'
  <2>1. PICK push : push = [Head(agenda[t]) EXCEPT !.do = "push"]
    OBVIOUS
  <2>2. Head(agenda[t]) \in Items /\ Tail(agenda[t]) \in Seq(Items)
    BY <1>5, Popped DEF Notify, Upcoming
  <2>3. push \in Items
    BY <2>1, <2>2 DEF Items
  <2>4. PICK rest : rest = [agenda EXCEPT ![t] = Tail(@)]
    OBVIOUS
  <2>5. rest \in [Threads -> Seq(Items)]
    BY <2>2, <2>4
  <2>6. agenda' = [rest EXCEPT ![Loop] = Append(@, push)]
    BY <1>5, <2>1, <2>4 DEF Notify
  <2>7. agenda' \in [Threads -> Seq(Items)]
    <3>1. Append(rest[Loop], push) \in Seq(Items)
      BY <2>3, <2>5, ThreadFacts, Appended
    <3> QED
      BY <2>5, <2>6, <3>1
  <2> QED
    BY <1>5, <2>7 DEF Notify
<1>6. ASSUME NEW t \in Workers, Publish(t)  PROVE Typed'
  <2>1. done[t] + 1 \in Nat /\ t[2] \in Sources /\ RunOf(t) \in Runs
    BY ThreadFacts DEF Sources
  <2>2. Published(RunOf(t), t[2], done[t] + 1) \in Seq(Items)
    BY <2>1, PublishedItems
  <2>3. done' = [done EXCEPT ![t] = @ + 1] /\ done'[t] = done[t] + 1
    BY <1>6 DEF Publish
  <2>4. agenda' = [agenda EXCEPT ![t] = Published(RunOf(t), t[2], done[t] + 1)]
    BY <1>6, <2>3 DEF Publish
  <2> QED
    BY <1>6, <2>2, <2>3, <2>4, ThreadFacts DEF Publish
<1>7. ASSUME NEW t \in Workers, Chat(t)  PROVE Typed'
  <2>1. done[t] + 1 \in Nat /\ t[2] \in Sources /\ RunOf(t) \in Runs
    BY ThreadFacts DEF Sources
  <2>2. /\ Note("CORE_TO_LLM", RunOf(t), t[2], done[t] + 1, NoOne) \in Items
        /\ Note("LLM_TO_CORE", RunOf(t), t[2], done[t] + 1, NoOne) \in Items
    BY <2>1, NewItems
  <2>3. done' = [done EXCEPT ![t] = @ + 1] /\ done'[t] = done[t] + 1
    BY <1>7 DEF Chat
  <2>4. agenda' = [agenda EXCEPT ![t] =
           <<Note("CORE_TO_LLM", RunOf(t), t[2], done[t] + 1, NoOne),
             Note("LLM_TO_CORE", RunOf(t), t[2], done[t] + 1, NoOne)>>]
    BY <1>7, <2>3 DEF Chat
  <2> QED
    BY <1>7, <2>2, <2>3, <2>4, ThreadFacts DEF Chat
<1>16. ASSUME NEW t \in Workers, Audit(t)  PROVE Typed'
  <2>1. done[t] + 1 \in Nat /\ t[2] \in Sources /\ RunOf(t) \in Runs
    BY ThreadFacts DEF Sources
  <2>2. Note("TOOL", RunOf(t), t[2], done[t] + 1, NoOne) \in Items
    BY <2>1, NewItems
  <2>3. done' = [done EXCEPT ![t] = @ + 1] /\ done'[t] = done[t] + 1
    BY <1>16 DEF Audit
  <2>4. agenda' = [agenda EXCEPT ![t] = <<Note("TOOL", RunOf(t), t[2], done[t] + 1, NoOne)>>]
    BY <1>16, <2>3 DEF Audit
  <2> QED
    BY <1>16, <2>2, <2>3, <2>4, ThreadFacts DEF Audit
<1>8. ASSUME NEW r \in Runs, Request(r)  PROVE Typed'
  <2>1. Callback("request", r, "client", 0) \in Items
    BY NewItems
  <2> QED
    BY <1>8, <2>1, ThreadFacts DEF Request
<1>9. ASSUME NEW r \in Runs, Remember(r)  PROVE Typed'
  BY <1>9 DEF Remember, Begun
<1>10. ASSUME NEW r \in Runs, RunRaises(r)  PROVE Typed'
  <2>1. Callback("report", r, "task", 0) \in Items
    BY NewItems DEF Sources
  <2> QED
    BY <1>10, <2>1, ThreadFacts DEF RunRaises, Begun
<1>11. CASE Handle
  <2>1. PICK r : r = Head(agenda[Loop]).run
    OBVIOUS
  <2>2. Head(agenda[Loop]) \in Items /\ Tail(agenda[Loop]) \in Seq(Items)
    BY <1>11, Popped, ThreadFacts DEF Handle, Upcoming
  <2>3. r \in Runs
    BY <2>1, <2>2 DEF Items
  <2>4. /\ RequestNote(r) \in Items /\ ReplyNote(r) \in Items
        /\ Callback("start", r, "client", 0) \in Items
    BY <2>3, NewItems DEF RequestNote, ReplyNote
  <2>5. agenda' = [agenda EXCEPT ![Loop] = <<RequestNote(r), ReplyNote(r)>> \o Tail(@)
                                            \o <<Callback("start", r, "client", 0)>>]
    BY <1>11, <2>1 DEF Handle, RequestNote, ReplyNote
  <2>6. <<RequestNote(r), ReplyNote(r)>> \o Tail(agenda[Loop]) \o <<Callback("start", r, "client", 0)>>
          \in Seq(Items)
    <3>1. <<RequestNote(r), ReplyNote(r)>> \in Seq(Items) /\ <<Callback("start", r, "client", 0)>> \in Seq(Items)
      BY <2>4
    <3> QED
      BY <2>2, <3>1, ConcatProperties
  <2>7. PICK all : all = <<RequestNote(r), ReplyNote(r)>> \o Tail(agenda[Loop])
                         \o <<Callback("start", r, "client", 0)>>
    OBVIOUS
  <2>8. agenda' = [agenda EXCEPT ![Loop] = all] /\ all \in Seq(Items)
    BY <2>5, <2>6, <2>7
  <2> QED
    BY <1>11, <2>8 DEF Handle
<1>12. CASE Start
  <2>1. PICK r : r = Head(agenda[Loop]).run
    OBVIOUS
  <2>2. Head(agenda[Loop]) \in Items /\ Tail(agenda[Loop]) \in Seq(Items)
    BY <1>12, Popped, ThreadFacts DEF Start, Upcoming
  <2>3. r \in Runs
    BY <2>1, <2>2 DEF Items
  <2> QED
    BY <1>12, <2>1, <2>2, <2>3, ThreadFacts DEF Start, Begun
<1>13. CASE Report
  <2>1. PICK r : r = Head(agenda[Loop]).run
    OBVIOUS
  <2>2. Head(agenda[Loop]) \in Items /\ Tail(agenda[Loop]) \in Seq(Items)
    BY <1>13, Popped, ThreadFacts DEF Report, Upcoming
  <2>3. r \in Runs
    BY <2>1, <2>2 DEF Items
  <2>4. Published(r, "task", 1) \in Seq(Items) /\ Published(r, "task", 2) \in Seq(Items)
    BY <2>3, PublishedItems DEF Sources
  <2>5. agenda' = [agenda EXCEPT ![Loop] = Published(r, "task", 1) \o Published(r, "task", 2) \o Tail(@)]
    BY <1>13, <2>1 DEF Report
  <2>6. Published(r, "task", 1) \o Published(r, "task", 2) \o Tail(agenda[Loop]) \in Seq(Items)
    BY <2>2, <2>4, ConcatProperties
  <2>7. PICK all : all = Published(r, "task", 1) \o Published(r, "task", 2) \o Tail(agenda[Loop])
    OBVIOUS
  <2>8. agenda' = [agenda EXCEPT ![Loop] = all] /\ all \in Seq(Items)
    BY <2>5, <2>6, <2>7
  <2> QED
    BY <1>13, <2>8 DEF Report
<1>14. CASE Push
  <2>1. PICK e : e = Head(agenda[Loop])
    OBVIOUS
  <2>2. e \in Items /\ Tail(agenda[Loop]) \in Seq(Items)
    BY <1>14, <2>1, Popped, ThreadFacts DEF Push, Upcoming
  <2>3. PICK served \in SUBSET Clients : agenda' = [agenda EXCEPT ![Loop] = SetToSeq({
             Note("CORE_TO_CLIENT", Head(agenda[Loop]).run, Head(agenda[Loop]).by,
                  Head(agenda[Loop]).n, c) : c \in served}) \o Tail(@)]
    BY <1>14 DEF Push
  <2>4. PICK q : q = SetToSeq({
             Note("CORE_TO_CLIENT", Head(agenda[Loop]).run, Head(agenda[Loop]).by,
                  Head(agenda[Loop]).n, c) : c \in served})
    OBVIOUS
  <2>5. q \in Seq(Items)
    BY <2>1, <2>2, <2>4, Served DEF Deliveries
  <2>6. agenda' = [agenda EXCEPT ![Loop] = q \o Tail(@)]
    BY <2>3, <2>4
  <2>7. q \o Tail(agenda[Loop]) \in Seq(Items)
    BY <2>2, <2>5, ConcatProperties
  <2> QED
    BY <1>14, <2>6, <2>7, ThreadFacts DEF Push
<1>15. CASE UNCHANGED vars
  BY <1>15 DEF vars
<1> QED
  BY <1>1, <1>2, <1>3, <1>4, <1>5, <1>6, <1>7, <1>8, <1>9, <1>10, <1>11, <1>12, <1>13, <1>14, <1>15, <1>16
     DEF Next

-------------------------------------------------------------------------------
(* What the actions do to the agendas.                                     *)

\* t's head makes room for f, and b is added.
Splices(t, f, b) ==
  /\ agenda[t] # << >> /\ f \in Seq(Items) /\ b \in Seq(Items)
  /\ agenda'[t] = f \o Tail(agenda[t]) \o b

\* A callback of the loop.
LoopSplices(f, b) ==
  /\ Splices(Loop, f, b) /\ agenda[Loop][1].do # "record"
  /\ \A t \in Workers : agenda'[t] = agenda[t]
  /\ UNCHANGED <<clock, seq, stamp, done, file>>

LoopAppends(x) == x \in Items /\ agenda'[Loop] = Append(agenda[Loop], x)

\* Write: the entry at the head goes into its run's file, with its stamp.
LEMMA WriteShape ==
  ASSUME Typed, Stamped, NEW t \in Threads, Write(t)
  PROVE  /\ Splices(t, << >>, << >>) /\ agenda[t][1] \in Items
         /\ agenda[t][1].do = "record" /\ agenda[t][1].run \in Runs
         /\ \A u \in Threads \ {t} : agenda'[u] = agenda[u] /\ stamp'[u] = stamp[u]
         /\ stamp'[t] = Unstamped /\ stamp[t].seq # 0 /\ stamp[t].ts # 0
         /\ file' = [file EXCEPT ![agenda[t][1].run] =
                       @ \cup {[note |-> agenda[t][1], stamp |-> stamp[t]]}]
         /\ UNCHANGED <<clock, seq, done, phase>>
<1>1. stamp[t].seq # 0 /\ stamp[t].ts # 0
  BY DEF Write, Stamped
<1>2. agenda[t] # << >> /\ agenda[t][1].do = "record" /\ agenda[t] \in Seq(Items)
  BY <1>1 DEF Stamped, Typed
<1>3. agenda[t][1] \in Items /\ agenda[t][1] = Head(agenda[t]) /\ Tail(agenda[t]) \in Seq(Items)
  BY <1>2, Popped
<1>4. << >> \in Seq(Items) /\ << >> \o Tail(agenda[t]) \o << >> = Tail(agenda[t])
  BY <1>3, EmptySeq, ConcatEmptySeq
<1>5. agenda[t][1].run \in Runs
  BY <1>3 DEF Items
<1>6. agenda' = [agenda EXCEPT ![t] = Tail(@)] /\ stamp' = [stamp EXCEPT ![t] = Unstamped]
  BY DEF Write
<1>7. file' = [file EXCEPT ![agenda[t][1].run] = @ \cup {[note |-> agenda[t][1], stamp |-> stamp[t]]}]
  BY <1>3 DEF Write
<1>8. /\ agenda'[t] = Tail(agenda[t])
      /\ \A u \in Threads \ {t} : agenda'[u] = agenda[u] /\ stamp'[u] = stamp[u]
      /\ stamp'[t] = Unstamped
  BY <1>6 DEF Typed
<1> QED
  BY <1>1, <1>2, <1>3, <1>4, <1>5, <1>7, <1>8 DEF Splices, Write

\* The head of a thread that does something else than write an entry.
LEMMA HeadItem ==
  ASSUME Typed, NEW t \in Threads, NEW do, Upcoming(t, do)
  PROVE  /\ agenda[t] # << >> /\ agenda[t] \in Seq(Items) /\ Tail(agenda[t]) \in Seq(Items)
         /\ Head(agenda[t]) = agenda[t][1] /\ agenda[t][1] \in Items
         /\ agenda[t][1].do = do /\ agenda[t][1].run \in Runs
<1>1. agenda[t] # << >> /\ agenda[t] \in Seq(Items) /\ Head(agenda[t]).do = do
  BY DEF Upcoming, Typed
<1>2. Tail(agenda[t]) \in Seq(Items) /\ Head(agenda[t]) = agenda[t][1] /\ agenda[t][1] \in Items
  BY <1>1, Popped
<1> QED
  BY <1>1, <1>2 DEF Items

PushOf(x) == [x EXCEPT !.do = "push"]

\* Notify: the loop gets the event to push; its own notifications leave its agenda.
LEMMA NotifyShape ==
  ASSUME Typed, NEW t \in Threads, Notify(t)
  PROVE  /\ agenda[t][1] \in Items /\ agenda[t][1].do = "notify" /\ PushOf(agenda[t][1]) \in Items
         /\ phase' = phase
         /\ t = Loop => LoopSplices(<< >>, <<PushOf(agenda[t][1])>>)
         /\ t # Loop => /\ Splices(t, << >>, << >>) /\ LoopAppends(PushOf(agenda[t][1]))
                        /\ \A u \in Threads \ {t, Loop} : agenda'[u] = agenda[u]
                        /\ UNCHANGED <<clock, seq, stamp, done, file>>
<1>1. /\ agenda[t] # << >> /\ agenda[t] \in Seq(Items) /\ Tail(agenda[t]) \in Seq(Items)
      /\ Head(agenda[t]) = agenda[t][1] /\ agenda[t][1] \in Items /\ agenda[t][1].do = "notify"
  BY HeadItem DEF Notify
<1>2. PushOf(agenda[t][1]) \in Items
  BY <1>1 DEF PushOf, Items
<1>3. PICK rest : rest = [agenda EXCEPT ![t] = Tail(@)]
  OBVIOUS
<1>4. agenda' = [rest EXCEPT ![Loop] = Append(@, PushOf(agenda[t][1]))]
  BY <1>1, <1>3 DEF Notify, PushOf
<1>5. rest \in [Threads -> Seq(Items)] /\ \A u \in Threads : rest[u] = IF u = t THEN Tail(agenda[t]) ELSE agenda[u]
  BY <1>1, <1>3 DEF Typed
<1>6. << >> \in Seq(Items) /\ << >> \o Tail(agenda[t]) \o << >> = Tail(agenda[t])
  BY <1>1, EmptySeq, ConcatEmptySeq
<1>7. /\ <<PushOf(agenda[t][1])>> \in Seq(Items)
      /\ Append(Tail(agenda[t]), PushOf(agenda[t][1])) = << >> \o Tail(agenda[t]) \o <<PushOf(agenda[t][1])>>
  BY <1>1, <1>2, AppendIsConcat, ConcatEmptySeq
<1>8. CASE t = Loop
  <2>1. agenda'[Loop] = Append(Tail(agenda[t]), PushOf(agenda[t][1])) /\ \A u \in Workers : agenda'[u] = agenda[u]
    BY <1>4, <1>5, <1>8, ThreadFacts
  <2> QED
    BY <1>1, <1>2, <1>6, <1>7, <1>8, <2>1 DEF LoopSplices, Splices, Notify
<1>9. CASE t # Loop
  <2>1. /\ agenda'[Loop] = Append(agenda[Loop], PushOf(agenda[t][1]))
        /\ agenda'[t] = Tail(agenda[t]) /\ \A u \in Threads \ {t, Loop} : agenda'[u] = agenda[u]
    BY <1>4, <1>5, <1>9, ThreadFacts
  <2> QED
    BY <1>1, <1>2, <1>6, <1>9, <2>1 DEF LoopAppends, Splices, Notify
<1> QED
  BY <1>8, <1>9

\* Handle: request and reply before the rest of the agenda, the start behind it.
LEMMA HandleShape ==
  ASSUME Typed, Handle, NEW r, r = agenda[Loop][1].run
  PROVE  /\ r \in Runs /\ agenda[Loop][1] \in Items /\ agenda[Loop][1].do = "request"
         /\ LoopSplices(<<RequestNote(r), ReplyNote(r)>>, <<Callback("start", r, "client", 0)>>)
         /\ phase' = phase
<1>1. /\ agenda[Loop] # << >> /\ Head(agenda[Loop]) = agenda[Loop][1] /\ agenda[Loop][1] \in Items
      /\ agenda[Loop][1].do = "request" /\ r \in Runs
  BY HeadItem, ThreadFacts DEF Handle
<1>2. /\ RequestNote(r) \in Items /\ ReplyNote(r) \in Items
      /\ Callback("start", r, "client", 0) \in Items
  BY <1>1, NewItems DEF RequestNote, ReplyNote
<1>3. agenda' = [agenda EXCEPT ![Loop] = <<RequestNote(r), ReplyNote(r)>> \o Tail(@)
                                            \o <<Callback("start", r, "client", 0)>>]
  BY <1>1 DEF Handle, RequestNote, ReplyNote
<1>4. PICK all : all = <<RequestNote(r), ReplyNote(r)>> \o Tail(agenda[Loop])
                         \o <<Callback("start", r, "client", 0)>>
  OBVIOUS
<1>5. agenda' = [agenda EXCEPT ![Loop] = all]
  BY <1>3, <1>4
<1>6. agenda'[Loop] = all /\ \A t \in Workers : agenda'[t] = agenda[t]
  BY <1>5, ThreadFacts DEF Typed
<1>7. /\ <<RequestNote(r), ReplyNote(r)>> \in Seq(Items)
      /\ <<Callback("start", r, "client", 0)>> \in Seq(Items)
  BY <1>2
<1> QED
  BY <1>1, <1>4, <1>6, <1>7 DEF LoopSplices, Splices, Handle

\* Start: the run whose turn it is runs.
LEMMA StartShape ==
  ASSUME Typed, Start
  PROVE  /\ agenda[Loop][1] \in Items /\ agenda[Loop][1].do = "start" /\ agenda[Loop][1].run \in Runs
         /\ LoopSplices(<< >>, << >>)
         /\ phase' = [phase EXCEPT ![agenda[Loop][1].run] = "running"]
<1>1. /\ agenda[Loop] # << >> /\ Head(agenda[Loop]) = agenda[Loop][1] /\ agenda[Loop][1] \in Items
      /\ agenda[Loop][1].do = "start" /\ Tail(agenda[Loop]) \in Seq(Items) /\ agenda[Loop][1].run \in Runs
  BY HeadItem, ThreadFacts DEF Start
<1>2. << >> \in Seq(Items) /\ << >> \o Tail(agenda[Loop]) \o << >> = Tail(agenda[Loop])
  BY <1>1, EmptySeq, ConcatEmptySeq
<1>3. agenda' = [agenda EXCEPT ![Loop] = Tail(@)]
  BY DEF Start
<1>4. agenda'[Loop] = Tail(agenda[Loop]) /\ \A t \in Workers : agenda'[t] = agenda[t]
  BY <1>3, ThreadFacts DEF Typed
<1> QED
  BY <1>1, <1>2, <1>4 DEF LoopSplices, Splices, Start

\* Report: the task's two events, before the rest of the agenda.
LEMMA ReportShape ==
  ASSUME Typed, Report, NEW r, r = agenda[Loop][1].run
  PROVE  /\ r \in Runs /\ agenda[Loop][1] \in Items /\ agenda[Loop][1].do = "report"
         /\ LoopSplices(<<Note("CORE", r, "task", 1, NoOne), Callback("notify", r, "task", 1),
                          Note("CORE", r, "task", 2, NoOne), Callback("notify", r, "task", 2)>>, << >>)
         /\ phase' = phase
<1> DEFINE four == <<Note("CORE", r, "task", 1, NoOne), Callback("notify", r, "task", 1),
                     Note("CORE", r, "task", 2, NoOne), Callback("notify", r, "task", 2)>>
<1>1. /\ agenda[Loop] # << >> /\ Head(agenda[Loop]) = agenda[Loop][1] /\ agenda[Loop][1] \in Items
      /\ agenda[Loop][1].do = "report" /\ Tail(agenda[Loop]) \in Seq(Items) /\ r \in Runs
  BY HeadItem, ThreadFacts DEF Report
<1>2. /\ Note("CORE", r, "task", 1, NoOne) \in Items /\ Callback("notify", r, "task", 1) \in Items
      /\ Note("CORE", r, "task", 2, NoOne) \in Items /\ Callback("notify", r, "task", 2) \in Items
  BY <1>1, NewItems DEF Sources
<1>3. Published(r, "task", 1) \o Published(r, "task", 2) = four /\ four \in Seq(Items)
  <2>1. ASSUME NEW a \in Items, NEW b \in Items, NEW c \in Items, NEW d \in Items
        PROVE  <<a, b>> \o <<c, d>> = <<a, b, c, d>>
    <3>1. <<a, b>> \in Seq(Items) /\ <<c, d>> \in Seq(Items) /\ <<a, b, c, d>> \in Seq(Items)
      OBVIOUS
    <3>2. PICK u : u = <<a, b>> \o <<c, d>>
      OBVIOUS
    <3>3. /\ u \in Seq(Items) /\ Len(u) = 4
          /\ \A i \in 1..4 : u[i] = IF i <= 2 THEN <<a, b>>[i] ELSE <<c, d>>[i - 2]
      BY <3>1, <3>2, ConcatProperties
    <3>4. u[1] = a /\ u[2] = b /\ u[3] = c /\ u[4] = d
      BY <3>3
    <3>5. \A i \in 1..4 : u[i] = <<a, b, c, d>>[i]
      BY <3>4
    <3> QED
      BY <3>1, <3>2, <3>3, <3>5, SeqEqual
  <2>2. four \in Seq(Items)
    BY <1>2
  <2> QED
    BY <2>1, <2>2 DEF Published
<1>4. agenda' = [agenda EXCEPT ![Loop] = Published(r, "task", 1) \o Published(r, "task", 2) \o Tail(@)]
  BY <1>1 DEF Report
<1> HIDE DEF four
<1>5. agenda' = [agenda EXCEPT ![Loop] = four \o Tail(@)]
  BY <1>3, <1>4
<1>6. PICK all : all = four \o Tail(agenda[Loop])
  OBVIOUS
<1>7. agenda' = [agenda EXCEPT ![Loop] = all]
  BY <1>5, <1>6
<1>8. agenda'[Loop] = all /\ \A t \in Workers : agenda'[t] = agenda[t]
  BY <1>7, ThreadFacts DEF Typed
<1>9. all \in Seq(Items) /\ all \o << >> = all /\ << >> \in Seq(Items)
  BY <1>1, <1>3, <1>6, ConcatProperties, ConcatEmptySeq, EmptySeq
<1>10. LoopSplices(four, << >>)
  BY <1>1, <1>3, <1>6, <1>8, <1>9 DEF LoopSplices, Splices, Report
<1> QED
  BY <1>1, <1>10 DEF four, Report

\* Push: copies of one event, before the rest of the agenda.
LEMMA PushShape ==
  ASSUME Typed, Push
  PROVE  /\ agenda[Loop][1] \in Items /\ agenda[Loop][1].do = "push"
         /\ \E q :
              /\ LoopSplices(q, << >>)
              /\ Deliveries(q, agenda[Loop][1])
         /\ phase' = phase
<1>1. /\ agenda[Loop] # << >> /\ Head(agenda[Loop]) = agenda[Loop][1] /\ agenda[Loop][1] \in Items
      /\ agenda[Loop][1].do = "push" /\ Tail(agenda[Loop]) \in Seq(Items)
  BY HeadItem, ThreadFacts DEF Push
<1>2. PICK served \in SUBSET Clients : agenda' = [agenda EXCEPT ![Loop] = SetToSeq({
           Note("CORE_TO_CLIENT", Head(agenda[Loop]).run, Head(agenda[Loop]).by,
                Head(agenda[Loop]).n, c) : c \in served}) \o Tail(@)]
  BY DEF Push
<1>4. PICK q : q = SetToSeq({
           Note("CORE_TO_CLIENT", Head(agenda[Loop]).run, Head(agenda[Loop]).by,
                Head(agenda[Loop]).n, c) : c \in served})
  OBVIOUS
<1>6. Deliveries(q, Head(agenda[Loop]))
  <2>1. Head(agenda[Loop]) \in Items
    BY <1>1
  <2> QED
    BY <1>4, <2>1, Served
<1>7. agenda' = [agenda EXCEPT ![Loop] = q \o Tail(@)]
  BY <1>2, <1>4
<1>8. PICK all : all = q \o Tail(agenda[Loop])
  OBVIOUS
<1>9. agenda'[Loop] = all /\ \A t \in Workers : agenda'[t] = agenda[t]
  BY <1>7, <1>8, ThreadFacts DEF Typed
<1>10. all \in Seq(Items) /\ all \o << >> = all /\ << >> \in Seq(Items)
  BY <1>1, <1>6, <1>8, ConcatProperties, ConcatEmptySeq, EmptySeq DEF Deliveries
<1>11. LoopSplices(q, << >>)
  BY <1>1, <1>6, <1>8, <1>9, <1>10 DEF Deliveries, LoopSplices, Splices, Push
<1> QED
  BY <1>1, <1>6, <1>11 DEF Push

\* A request and a report go to the end of the loop's agenda.
LEMMA AppendShape ==
  ASSUME Typed, NEW r \in Runs
  PROVE  /\ Request(r) => /\ LoopAppends(Callback("request", r, "client", 0))
                          /\ \A t \in Workers : agenda'[t] = agenda[t]
         /\ RunRaises(r) => /\ LoopAppends(Callback("report", r, "task", 0))
                            /\ \A t \in Workers : agenda'[t] = agenda[t]
<1>1. Callback("request", r, "client", 0) \in Items /\ Callback("report", r, "task", 0) \in Items
  BY NewItems DEF Sources
<1> QED
  BY <1>1, ThreadFacts DEF Request, RunRaises, LoopAppends, Typed

\* Publish, Chat and Audit: a thread with nothing left to do gets its next event or call.
LEMMA MadeShape ==
  ASSUME Typed, NEW t \in Workers, Publish(t) \/ Chat(t) \/ Audit(t)
  PROVE  /\ agenda[t] = << >> /\ phase[RunOf(t)] \in Begun
         /\ done'[t] = done[t] + 1 /\ \A u \in Workers \ {t} : done'[u] = done[u]
         /\ \/ agenda'[t] = <<Latest(t, "CORE")', LatestNotify(t)'>>
            \/ agenda'[t] = <<Latest(t, "CORE_TO_LLM")', Latest(t, "LLM_TO_CORE")'>>
            \/ agenda'[t] = <<Latest(t, "TOOL")'>>
         /\ Latest(t, "CORE")' \in Items /\ LatestNotify(t)' \in Items
         /\ Latest(t, "CORE_TO_LLM")' \in Items /\ Latest(t, "LLM_TO_CORE")' \in Items
         /\ Latest(t, "TOOL")' \in Items
         /\ \A u \in Threads \ {t} : agenda'[u] = agenda[u]
         /\ UNCHANGED <<clock, seq, stamp, phase, file>>
<1>1. t \in Threads /\ RunOf(t) \in Runs /\ t[2] \in Sources
  BY ThreadFacts DEF Sources
<1>2. done' = [done EXCEPT ![t] = @ + 1]
  BY DEF Publish, Chat, Audit
<1>3. done'[t] = done[t] + 1 /\ done'[t] \in Nat /\ \A u \in Workers \ {t} : done'[u] = done[u]
  BY <1>2 DEF Typed
<1>4. /\ Latest(t, "CORE")' \in Items /\ LatestNotify(t)' \in Items
      /\ Latest(t, "CORE_TO_LLM")' \in Items /\ Latest(t, "LLM_TO_CORE")' \in Items
      /\ Latest(t, "TOOL")' \in Items
  BY <1>1, <1>3, NewItems DEF Latest, LatestNotify
<1>5. CASE Publish(t)
  <2>1. agenda' = [agenda EXCEPT ![t] = <<Latest(t, "CORE")', LatestNotify(t)'>>]
    BY <1>5 DEF Publish, Published, Latest, LatestNotify
  <2>2. agenda'[t] = <<Latest(t, "CORE")', LatestNotify(t)'>> /\ \A u \in Threads \ {t} : agenda'[u] = agenda[u]
    BY <1>1, <2>1 DEF Typed
  <2>3. agenda[t] = << >> /\ phase[RunOf(t)] \in Begun /\ UNCHANGED <<clock, seq, stamp, phase, file>>
    BY <1>5 DEF Publish, Begun
  <2> QED
    BY <1>3, <1>4, <2>2, <2>3
<1>6. CASE Chat(t)
  <2>1. agenda' = [agenda EXCEPT ![t] = <<Latest(t, "CORE_TO_LLM")', Latest(t, "LLM_TO_CORE")'>>]
    BY <1>6 DEF Chat, Latest
  <2>2. agenda'[t] = <<Latest(t, "CORE_TO_LLM")', Latest(t, "LLM_TO_CORE")'>> /\ \A u \in Threads \ {t} : agenda'[u] = agenda[u]
    BY <1>1, <2>1 DEF Typed
  <2>3. agenda[t] = << >> /\ phase[RunOf(t)] \in Begun /\ UNCHANGED <<clock, seq, stamp, phase, file>>
    BY <1>6 DEF Chat, Begun
  <2> QED
    BY <1>3, <1>4, <2>2, <2>3
<1>7. CASE Audit(t)
  <2>1. agenda' = [agenda EXCEPT ![t] = <<Latest(t, "TOOL")'>>]
    BY <1>7 DEF Audit, Latest
  <2>2. agenda'[t] = <<Latest(t, "TOOL")'>> /\ \A u \in Threads \ {t} : agenda'[u] = agenda[u]
    BY <1>1, <2>1 DEF Typed
  <2>3. agenda[t] = << >> /\ phase[RunOf(t)] \in Begun /\ UNCHANGED <<clock, seq, stamp, phase, file>>
    BY <1>7 DEF Audit, Begun
  <2> QED
    BY <1>3, <1>4, <2>2, <2>3
<1> QED
  BY <1>5, <1>6, <1>7

\* Numbers and times are taken one thread at a time.
LEMMA NumberShape ==
  ASSUME Typed, Stamped, NEW t \in Threads, TakeNumber(t)
  PROVE  /\ seq' = seq + 1 /\ stamp'[t].seq = seq + 1 /\ stamp'[t].ts = 0
         /\ stamp[t].seq = 0 /\ agenda[t] # << >> /\ agenda[t][1].do = "record"
         /\ \A u \in Threads \ {t} : stamp'[u] = stamp[u]
         /\ UNCHANGED <<clock, agenda, done, phase, file>>
<1>1. PICK n : n = seq + 1
  OBVIOUS
<1>2. seq' = n /\ stamp' = [stamp EXCEPT ![t].seq = n] /\ stamp[t] = Unstamped
  BY <1>1 DEF TakeNumber
<1>3. stamp[t] \in [seq : Nat, ts : Nat] /\ stamp[t].seq = 0 /\ stamp[t].ts = 0
  BY <1>2 DEF Typed, Unstamped
<1>4. stamp'[t].seq = n /\ stamp'[t].ts = 0 /\ \A u \in Threads \ {t} : stamp'[u] = stamp[u]
  BY <1>2, <1>3 DEF Typed
<1>5. agenda[t] # << >> /\ agenda[t][1].do = "record"
  BY HeadItem DEF TakeNumber
<1> QED
  BY <1>1, <1>2, <1>3, <1>4, <1>5 DEF TakeNumber

\* TakeTime: the time is now.
LEMMA TimeShape ==
  ASSUME Typed, Stamped, NEW t \in Threads, TakeTime(t)
  PROVE  /\ stamp'[t].seq = stamp[t].seq /\ stamp[t].seq # 0 /\ stamp'[t].ts = clock
         /\ \A u \in Threads \ {t} : stamp'[u] = stamp[u]
         /\ UNCHANGED <<clock, seq, agenda, done, phase, file>>
<1>1. stamp[t] \in [seq : Nat, ts : Nat] /\ stamp' = [stamp EXCEPT ![t].ts = clock]
  BY DEF TakeTime, Typed
<1>2. /\ stamp'[t].seq = stamp[t].seq /\ stamp'[t].ts = clock
      /\ \A u \in Threads \ {t} : stamp'[u] = stamp[u]
  BY <1>1 DEF Typed
<1> QED
  BY <1>2 DEF TakeTime

-------------------------------------------------------------------------------
(* Stamps stay behind clock and counter.                                   *)

\* A step that writes nothing and leaves stamped heads alone keeps Stamped.
LEMMA StampedKept ==
  ASSUME Typed, Stamped, UNCHANGED <<clock, seq, stamp, file>>,
         \A t \in Threads : \/ stamp[t].seq = 0 \/ agenda'[t] = agenda[t]
                            \/ \E x \in Items : agenda'[t] = Append(agenda[t], x)
  PROVE  Stamped'
<1>1. ASSUME NEW t \in Threads, stamp[t].seq # 0
      PROVE  agenda'[t] # << >> /\ agenda'[t][1].do = "record"
  <2>1. agenda[t] # << >> /\ agenda[t][1].do = "record" /\ agenda[t] \in Seq(Items)
    BY <1>1 DEF Stamped, Typed
  <2>2. CASE agenda'[t] = agenda[t]
    BY <2>1, <2>2
  <2>3. ASSUME NEW x \in Items, agenda'[t] = Append(agenda[t], x)
        PROVE  agenda'[t] # << >> /\ agenda'[t][1] = agenda[t][1]
    <3>1. /\ Len(agenda[t]) \in Nat /\ Len(agenda[t]) > 0
          /\ Append(agenda[t], x) \in Seq(Items) /\ Len(Append(agenda[t], x)) = Len(agenda[t]) + 1
          /\ \A i \in 1..Len(agenda[t]) : Append(agenda[t], x)[i] = agenda[t][i]
      BY <2>1, Appended, Popped
    <3>2. 1 \in 1..Len(agenda[t])
      BY <3>1
    <3> QED
      BY <2>3, <3>1, <3>2
  <2> QED
    BY <1>1, <2>1, <2>2, <2>3
<1> QED
  BY <1>1 DEF Stamped

\* So does a step that takes a callback from the loop's agenda.
LEMMA LoopSplicesStamped ==
  ASSUME Typed, Stamped, NEW f, NEW b, LoopSplices(f, b)
  PROVE  Stamped'
<1>1. stamp[Loop].seq = 0
  BY ThreadFacts DEF LoopSplices, Splices, Stamped
<1> QED
  BY <1>1, StampedKept, ThreadFacts DEF LoopSplices, Threads

\* Stamped is inductive.
LEMMA StampedNext ==
  ASSUME Typed, Stamped, [Next]_vars
  PROVE  Stamped'
<1>1. CASE Tick
  <2>1. clock' = clock + 1 /\ UNCHANGED <<seq, agenda, stamp, file>>
    BY <1>1 DEF Tick
  <2> QED
    BY <2>1 DEF Stamped, Typed
<1>2. ASSUME NEW t \in Threads, TakeNumber(t)  PROVE Stamped'
  <2>1. /\ seq' = seq + 1 /\ stamp'[t].seq = seq + 1 /\ stamp'[t].ts = 0
        /\ agenda[t] # << >> /\ agenda[t][1].do = "record"
        /\ \A u \in Threads \ {t} : stamp'[u] = stamp[u]
        /\ UNCHANGED <<clock, agenda, file>>
    BY <1>2, NumberShape
  <2>2. ASSUME NEW u \in Threads
        PROVE  /\ stamp'[u].seq <= seq' /\ stamp'[u].ts <= clock
               /\ stamp'[u].seq = 0 => stamp'[u].ts = 0
               /\ stamp'[u].seq # 0 => agenda[u] # << >> /\ agenda[u][1].do = "record"
    <3>1. CASE u = t
      BY <2>1, <3>1 DEF Stamped, Typed
    <3>2. CASE u # t
      <4>1. stamp[u].seq \in Nat /\ stamp[u].seq <= seq /\ seq \in Nat
        BY DEF Stamped, Typed
      <4> QED
        BY <2>1, <3>2, <4>1 DEF Stamped
    <3> QED
      BY <3>1, <3>2
  <2>3. ASSUME NEW r \in Runs, NEW d \in file[r]
        PROVE  d.stamp.seq <= seq' /\ d.stamp.ts <= clock /\ d.stamp.ts # 0
    <3>1. d.stamp.seq \in Nat /\ d.stamp.seq <= seq /\ seq \in Nat
      BY DEF Stamped, Typed
    <3> QED
      BY <2>1, <3>1 DEF Stamped
  <2> QED
    BY <2>1, <2>2, <2>3 DEF Stamped
<1>3. ASSUME NEW t \in Threads, TakeTime(t)  PROVE Stamped'
  <2>1. /\ stamp'[t].seq = stamp[t].seq /\ stamp[t].seq # 0 /\ stamp'[t].ts = clock
        /\ \A u \in Threads \ {t} : stamp'[u] = stamp[u]
        /\ UNCHANGED <<clock, seq, agenda, file>>
    BY <1>3, TimeShape
  <2>2. ASSUME NEW u \in Threads
        PROVE  /\ stamp'[u].seq <= seq' /\ stamp'[u].ts <= clock
               /\ stamp'[u].seq = 0 => stamp'[u].ts = 0
               /\ stamp'[u].seq # 0 => agenda[u] # << >> /\ agenda[u][1].do = "record"
    <3>1. CASE u = t
      BY <2>1, <3>1 DEF Stamped, Typed
    <3>2. CASE u # t
      <4>1. stamp[u].seq \in Nat /\ stamp[u].seq <= seq /\ seq \in Nat
        BY DEF Stamped, Typed
      <4> QED
        BY <2>1, <3>2, <4>1 DEF Stamped
    <3> QED
      BY <3>1, <3>2
  <2>3. ASSUME NEW r \in Runs, NEW d \in file[r]
        PROVE  d.stamp.seq <= seq' /\ d.stamp.ts <= clock /\ d.stamp.ts # 0
    <3>1. d.stamp.seq \in Nat /\ d.stamp.seq <= seq /\ seq \in Nat
      BY DEF Stamped, Typed
    <3> QED
      BY <2>1, <3>1 DEF Stamped
  <2> QED
    BY <2>1, <2>2, <2>3 DEF Stamped
<1>4. ASSUME NEW t \in Threads, Write(t)  PROVE Stamped'
  <2>1. PICK d : d = [note |-> agenda[t][1], stamp |-> stamp[t]]
    OBVIOUS
  <2>2. /\ agenda[t][1].run \in Runs
        /\ \A u \in Threads \ {t} : agenda'[u] = agenda[u] /\ stamp'[u] = stamp[u]
        /\ stamp'[t] = Unstamped /\ stamp[t].seq # 0 /\ stamp[t].ts # 0
        /\ file' = [file EXCEPT ![agenda[t][1].run] = @ \cup {d}]
        /\ UNCHANGED <<clock, seq>>
    BY <1>4, <2>1, WriteShape
  <2>3. ASSUME NEW r \in Runs, NEW e \in file'[r]
        PROVE  e.stamp.seq <= seq /\ e.stamp.ts <= clock /\ e.stamp.ts # 0
    BY <2>1, <2>2 DEF Stamped, Typed
  <2>4. ASSUME NEW u \in Threads
        PROVE  /\ stamp'[u].seq <= seq /\ stamp'[u].ts <= clock
               /\ stamp'[u].seq = 0 => stamp'[u].ts = 0
               /\ stamp'[u].seq # 0 => agenda'[u] # << >> /\ agenda'[u][1].do = "record"
    <3>1. CASE u = t
      BY <2>2, <3>1 DEF Typed, Unstamped
    <3>2. CASE u # t
      BY <2>2, <3>2 DEF Stamped
    <3> QED
      BY <3>1, <3>2
  <2> QED
    BY <2>2, <2>3, <2>4 DEF Stamped
<1>5. ASSUME NEW t \in Threads, Notify(t)  PROVE Stamped'
  <2>1. CASE t = Loop
    BY <1>5, <2>1, NotifyShape, LoopSplicesStamped
  <2>2. CASE t # Loop
    <3>1. /\ LoopAppends(PushOf(agenda[t][1]))
          /\ \A u \in Threads \ {t, Loop} : agenda'[u] = agenda[u]
          /\ UNCHANGED <<clock, seq, stamp, file>>
      BY <1>5, <2>2, NotifyShape
    <3>2. stamp[t].seq = 0
      BY <1>5, NotifyShape DEF Stamped
    <3> QED
      BY <3>1, <3>2, StampedKept DEF LoopAppends
  <2> QED
    BY <2>1, <2>2
<1>6. ASSUME NEW t \in Workers, Publish(t) \/ Chat(t) \/ Audit(t)  PROVE Stamped'
  <2>1. /\ agenda[t] = << >> /\ \A u \in Threads \ {t} : agenda'[u] = agenda[u]
        /\ UNCHANGED <<clock, seq, stamp, file>>
    BY <1>6, MadeShape
  <2>2. t \in Threads /\ stamp[t].seq = 0
    BY <2>1, ThreadFacts DEF Stamped
  <2> QED
    BY <2>1, <2>2, StampedKept
<1>7. ASSUME NEW r \in Runs, Request(r) \/ RunRaises(r)  PROVE Stamped'
  <2>1. \E x : LoopAppends(x)
    BY <1>7, AppendShape
  <2>2. (\A t \in Workers : agenda'[t] = agenda[t]) /\ UNCHANGED <<clock, seq, stamp, file>>
    BY <1>7, AppendShape DEF Request, RunRaises
  <2> QED
    BY <2>1, <2>2, StampedKept DEF LoopAppends, Threads
<1>8. ASSUME NEW r \in Runs, Remember(r)  PROVE Stamped'
  BY <1>8, StampedKept DEF Remember
<1>9. CASE Handle
  BY <1>9, HandleShape, LoopSplicesStamped
<1>10. CASE Start
  BY <1>10, StartShape, LoopSplicesStamped
<1>11. CASE Report
  BY <1>11, ReportShape, LoopSplicesStamped
<1>12. CASE Push
  BY <1>12, PushShape, LoopSplicesStamped
<1>13. CASE UNCHANGED vars
  BY <1>13, StampedKept DEF vars
<1> QED
  BY <1>1, <1>2, <1>3, <1>4, <1>5, <1>6, <1>7, <1>8, <1>9, <1>10, <1>11, <1>12, <1>13 DEF Next

-------------------------------------------------------------------------------
(* Causes stay before their effects.                                       *)

FilesGrow == \A r \in Runs : file[r] \subseteq file'[r]
StaysPast(t) == \A r \in Runs : \A d \in file[r] : Past(t, d) => Past(t, d)'

\* The next step of t has its causes in the file, behind t's stamp.
Supported(t) ==
  \A alt \in Required(agenda[t][1]) : \E y \in alt : \E d \in file[y.run] : d.note = y /\ Past(t, d)

\* What is required are entries of the same run.
LEMMA RequiredEntries ==
  ASSUME NEW x, NEW alt \in Required(x), NEW y \in alt
  PROVE  y.do = "record" /\ y.run = x.run
<1>1. ASSUME alt \in Causes(x)  PROVE y.do = "record" /\ y.run = x.run
  BY <1>1 DEF Causes, Lasts, Note
<1>2. ASSUME alt \in {{RequestNote(x.run)}, {ReplyNote(x.run)}}  PROVE y.do = "record" /\ y.run = x.run
  BY <1>2 DEF RequestNote, ReplyNote, Note
<1> QED
  BY <1>1, <1>2 DEF Required

\* What the head of an agenda requires is in the file, before the head's stamp.
LEMMA HeadSupported ==
  ASSUME Typed, NEW t \in Threads, agenda[t] # << >>, Caused(t)
  PROVE  Supported(t)
<1>1. 1 \in 1..Len(agenda[t])
  BY Popped DEF Typed
<1>2. ASSUME NEW y, Known(t, 1, y)  PROVE \E d \in file[y.run] : d.note = y /\ Past(t, d)
  <2>1. 1..1-1 = {}
    OBVIOUS
  <2> QED
    BY <1>2, <2>1 DEF Known
<1> QED
  BY <1>1, <1>2 DEF Caused, Supported

\* Files lose nothing.
LEMMA HasKept ==
  ASSUME FilesGrow, NEW y, y.run \in Runs, Has(y)
  PROVE  Has(y)'
BY DEF FilesGrow, Has

\* Caused survives steps of others ...
LEMMA CausedSame ==
  ASSUME Typed, NEW t \in Threads, Caused(t), agenda'[t] = agenda[t], FilesGrow, StaysPast(t)
  PROVE  Caused(t)'
<1>1. ASSUME NEW i \in 1..Len(agenda[t]), NEW alt \in Required(agenda[t][i]), NEW y \in alt, Known(t, i, y)
      PROVE  Known(t, i, y)'
  <2>1. CASE \E j \in 1..i-1 : agenda[t][j] = y
    BY <2>1 DEF Known
  <2>2. CASE \E d \in file[y.run] : d.note = y /\ (i = 1 => Past(t, d))
    <3>1. agenda[t][i] \in Items
      BY ElementOfSeq DEF Typed
    <3>2. y.run \in Runs
      BY <3>1, RequiredEntries DEF Items
    <3>3. PICK d \in file[y.run] : d.note = y /\ (i = 1 => Past(t, d))
      BY <2>2
    <3>4. d \in file'[y.run] /\ (i = 1 => Past(t, d)')
      BY <3>2, <3>3 DEF FilesGrow, StaysPast
    <3> QED
      BY <3>3, <3>4 DEF Known
  <2> QED
    BY <1>1, <2>1, <2>2 DEF Known
<1> QED
  BY <1>1 DEF Caused

\* ... an item more whose causes are written ...
LEMMA CausedAppend ==
  ASSUME Typed, Stamped, NEW t \in Threads, Caused(t), NEW x \in Items,
         agenda'[t] = Append(agenda[t], x), stamp'[t] = stamp[t], FilesGrow, StaysPast(t),
         \A alt \in Required(x) : \E y \in alt : Has(y)
  PROVE  Caused(t)'
<1> PICK s : s = agenda[t]
  OBVIOUS
<1>1. /\ Len(s) \in Nat /\ Append(s, x) \in Seq(Items) /\ Len(Append(s, x)) = Len(s) + 1
      /\ Append(s, x)[Len(s) + 1] = x /\ s \in Seq(Items)
      /\ \A i \in 1..Len(s) : Append(s, x)[i] = s[i]
  BY Appended DEF Typed
<1>2. PICK u : u = Append(s, x)
  OBVIOUS
<1>3. agenda'[t] = u
  BY <1>2
<1>4. ASSUME NEW i \in 1..Len(s), NEW alt \in Required(u[i])
      PROVE  \E y \in alt : Known(t, i, y)'
  <2>1. u[i] = s[i] /\ s[i] \in Items
    BY <1>1, <1>2, ElementOfSeq
  <2>2. PICK y \in alt : Known(t, i, y)
    BY <2>1 DEF Caused
  <2>3. y.run \in Runs
    BY <2>1, RequiredEntries DEF Items
  <2>4. ASSUME NEW j \in 1..i-1, s[j] = y  PROVE u[j] = y
    <3>1. j \in 1..Len(s)
      BY <1>1, <2>4
    <3> QED
      BY <1>1, <1>2, <2>4, <3>1
  <2>5. ASSUME NEW d \in file[y.run], d.note = y, i = 1 => Past(t, d)
        PROVE  d \in file'[y.run] /\ (i = 1 => Past(t, d)')
    BY <2>3, <2>5 DEF FilesGrow, StaysPast
  <2>6. CASE \E j \in 1..i-1 : s[j] = y
    BY <1>3, <2>4, <2>6 DEF Known
  <2>7. CASE \E d \in file[y.run] : d.note = y /\ (i = 1 => Past(t, d))
    BY <2>5, <2>7 DEF Known
  <2> QED
    BY <2>2, <2>6, <2>7 DEF Known
<1>5. ASSUME NEW alt \in Required(x)  PROVE \E y \in alt : Known(t, Len(s) + 1, y)'
  <2>1. PICK y \in alt : Has(y)
    OBVIOUS
  <2>2. y.run \in Runs
    BY RequiredEntries DEF Items
  <2>3. Has(y)'
    BY <2>1, <2>2, HasKept
  <2>4. Len(s) + 1 = 1 => stamp'[t].seq = 0
    <3>1. Len(s) + 1 = 1 => s = << >>
      BY <1>1
    <3> QED
      BY <3>1 DEF Stamped
  <2>5. PICK d \in file'[y.run] : d.note = y
    BY <2>3 DEF Has
  <2>6. Len(s) + 1 = 1 => Past(t, d)'
    BY <2>4 DEF Past
  <2> QED
    BY <2>5, <2>6 DEF Known
<1>6. ASSUME NEW i \in 1..Len(u), NEW alt \in Required(u[i])
      PROVE  \E y \in alt : Known(t, i, y)'
  <2>1. i \in 1..Len(s) \/ i = Len(s) + 1
    BY <1>1, <1>2, <1>6
  <2>2. CASE i \in 1..Len(s)
    BY <1>4, <2>2
  <2>3. CASE i = Len(s) + 1
    <3>1. u[i] = x
      BY <1>1, <1>2, <2>3
    <3>2. PICK y \in alt : Known(t, Len(s) + 1, y)'
      BY <1>5, <3>1
    <3> QED
      BY <2>3, <3>2
  <2> QED
    BY <2>1, <2>2, <2>3
<1> QED
  BY <1>3, <1>6 DEF Caused

\* A thread without a stamp has its causes behind every stamp it may take.
LEMMA KnownByFile ==
  ASSUME NEW t \in Threads, stamp'[t].seq = 0, NEW i, NEW y, Has(y)'
  PROVE  Known(t, i, y)'
<1>1. PICK d \in file'[y.run] : d.note = y
  BY DEF Has
<1>2. Past(t, d)'
  BY DEF Past
<1> QED
  BY <1>1, <1>2 DEF Known

\* What f and b need is in the file or before it.
Grounded(f, b) ==
  /\ \A k \in 1..Len(f) : \A alt \in Required(f[k]) : \E y \in alt :
       Has(y) \/ \E j \in 1..k-1 : f[j] = y
  /\ \A m \in 1..Len(b) : \A alt \in Required(b[m]) : \E y \in alt :
       Has(y) \/ \E j \in 1..Len(f) : f[j] = y

\* ... and the head's departure, when what comes instead has its causes there.
LEMMA CausedSplice ==
  ASSUME Typed, NEW t \in Threads, Caused(t), NEW f, NEW b, Splices(t, f, b),
         stamp'[t].seq = 0, FilesGrow,
         NEW head, head = agenda[t][1], head.do # "record" \/ Has(head)',
         Grounded(f, b)
  PROVE  Caused(t)'
<1> PICK s : s = agenda[t]
  OBVIOUS
<1>1. s \in Seq(Items) /\ s # << >> /\ f \in Seq(Items) /\ b \in Seq(Items)
  BY DEF Typed, Splices
<1>2. PICK u : u = f \o Tail(s) \o b
  OBVIOUS
<1>3. agenda'[t] = u
  BY <1>2 DEF Splices
<1>11. IsSplice(u, s, f, b)
  BY <1>1, <1>2, Spliced
<1>4. /\ Len(u) = Len(f) + Len(s) - 1 + Len(b)
      /\ \A k \in 1..Len(f) : u[k] = f[k]
      /\ \A i \in 2..Len(s) : u[Len(f) + i - 1] = s[i]
      /\ \A m \in 1..Len(b) : u[Len(f) + Len(s) - 1 + m] = b[m]
      /\ \A k \in 1..Len(u) : \/ k \in 1..Len(f)
                              \/ \E i \in 2..Len(s) : k = Len(f) + i - 1
                              \/ \E m \in 1..Len(b) : k = Len(f) + Len(s) - 1 + m
  BY <1>11 DEF IsSplice
<1>5. Len(f) \in Nat /\ Len(s) \in Nat /\ Len(s) > 0 /\ Len(b) \in Nat
  BY <1>1, Popped
<1>6. ASSUME NEW x \in Items, NEW alt \in Required(x), NEW y \in alt, Has(y), NEW i
      PROVE  Known(t, i, y)'
  <2>1. y.run \in Runs
    BY RequiredEntries DEF Items
  <2> QED
    BY <1>6, <2>1, HasKept, KnownByFile
<1>7. ASSUME NEW k \in 1..Len(f), NEW alt \in Required(u[k])
      PROVE  \E y \in alt : Known(t, k, y)'
  <2>1. u[k] = f[k] /\ f[k] \in Items
    BY <1>1, <1>4, ElementOfSeq
  <2>2. PICK y \in alt : Has(y) \/ \E j \in 1..k-1 : f[j] = y
    BY <2>1 DEF Grounded
  <2>3. ASSUME NEW j \in 1..k-1, f[j] = y  PROVE u[j] = y
    <3>1. j \in 1..Len(f)
      BY <1>5, <2>3
    <3> QED
      BY <1>4, <2>3, <3>1
  <2>4. CASE \E j \in 1..k-1 : f[j] = y
    BY <1>3, <2>3, <2>4 DEF Known
  <2> QED
    BY <1>6, <2>1, <2>2, <2>4
<1>8. ASSUME NEW m \in 1..Len(b), NEW alt \in Required(b[m])
      PROVE  \E y \in alt : Known(t, Len(f) + Len(s) - 1 + m, y)'
  <2> PICK n : n = Len(f) + Len(s) - 1 + m
    OBVIOUS
  <2>1. b[m] \in Items
    BY <1>1, ElementOfSeq
  <2>2. PICK y \in alt : Has(y) \/ \E j \in 1..Len(f) : f[j] = y
    BY DEF Grounded
  <2>3. ASSUME NEW j \in 1..Len(f), f[j] = y
        PROVE  j \in 1..n-1 /\ u[j] = y
    <3>1. j \in 1..n-1
      BY <1>5, <2>3
    <3> QED
      BY <1>4, <2>3, <3>1
  <2>4. CASE \E j \in 1..Len(f) : f[j] = y
    <3>1. Known(t, n, y)'
      BY <1>3, <2>3, <2>4 DEF Known
    <3> QED
      BY <3>1
  <2> QED
    BY <1>6, <2>1, <2>2, <2>4
<1>9. ASSUME NEW i \in 2..Len(s), NEW alt \in Required(s[i])
      PROVE  \E y \in alt : Known(t, Len(f) + i - 1, y)'
  <2>1. i \in 1..Len(s)
    BY <1>5, <1>9
  <2>2. s[i] \in Items
    BY <1>1, <2>1, ElementOfSeq
  <2>3. PICK y \in alt : Known(t, i, y)
    BY <2>1 DEF Caused
  <2>4. y.run \in Runs /\ y.do = "record"
    BY <2>2, RequiredEntries DEF Items
  <2>5. CASE \E d \in file[y.run] : d.note = y
    <3>1. Has(y)
      BY <2>5 DEF Has
    <3> QED
      BY <1>6, <2>2, <3>1
  <2>6. ASSUME NEW j \in 1..i-1, s[j] = y  PROVE Known(t, Len(f) + i - 1, y)'
    <3>1. CASE j = 1
      <4>1. Has(y)'
        <5>1. y = head
          BY <2>6, <3>1
        <5> QED
          BY <2>4, <5>1
      <4> QED
        BY <4>1, KnownByFile
    <3>2. CASE j # 1
      <4>1. j \in 2..Len(s) /\ Len(f) + j - 1 \in 1..(Len(f) + i - 1)-1
        BY <1>5, <1>9, <2>6, <3>2
      <4>2. u[Len(f) + j - 1] = y
        BY <1>4, <2>6, <4>1
      <4> QED
        BY <1>3, <4>1, <4>2 DEF Known
    <3> QED
      BY <3>1, <3>2
  <2> QED
    BY <2>3, <2>5, <2>6 DEF Known
<1>10. ASSUME NEW k \in 1..Len(u), NEW alt \in Required(u[k])
       PROVE  \E y \in alt : Known(t, k, y)'
  <2>1. ASSUME NEW i \in 2..Len(s), k = Len(f) + i - 1  PROVE \E y \in alt : Known(t, k, y)'
    <3>1. u[k] = s[i]
      BY <1>4, <2>1
    <3>2. PICK y \in alt : Known(t, Len(f) + i - 1, y)'
      BY <1>9, <3>1
    <3> QED
      BY <2>1, <3>2
  <2>2. ASSUME NEW m \in 1..Len(b), k = Len(f) + Len(s) - 1 + m  PROVE \E y \in alt : Known(t, k, y)'
    <3>1. u[k] = b[m]
      BY <1>4, <2>2
    <3>2. PICK y \in alt : Known(t, Len(f) + Len(s) - 1 + m, y)'
      BY <1>8, <3>1
    <3> QED
      BY <2>2, <3>2
  <2> QED
    BY <1>4, <1>7, <2>1, <2>2
<1> QED
  BY <1>3, <1>10 DEF Caused

RequestAndReply(r) == {{RequestNote(r)}, {ReplyNote(r)}}

\* What the items of the loop require.
LEMMA RequiredOf ==
  ASSUME NEW r \in Runs, NEW by \in Sources, NEW n \in Nat
  PROVE  /\ Required(Callback("request", r, "client", 0)) = {} /\ Required(RequestNote(r)) = {}
         /\ Required(ReplyNote(r)) = {{RequestNote(r)}}
         /\ Required(Callback("start", r, "client", 0)) = RequestAndReply(r)
         /\ Required(Callback("report", r, "task", 0)) = RequestAndReply(r)
         /\ \A kind \in {"CORE", "CORE_TO_LLM", "TOOL"} :
              /\ ~(n > 1) => Required(Note(kind, r, by, n, NoOne)) = RequestAndReply(r)
              /\ n > 1 => Required(Note(kind, r, by, n, NoOne)) =
                            RequestAndReply(r) \cup {Lasts(r, by, n - 1)}
         /\ Required(Note("LLM_TO_CORE", r, by, n, NoOne)) =
              RequestAndReply(r) \cup {{Note("CORE_TO_LLM", r, by, n, NoOne)}}
         /\ \A do \in {"notify", "push"} :
              Required(Callback(do, r, by, n)) = RequestAndReply(r) \cup {{Note("CORE", r, by, n, NoOne)}}
         /\ \A c \in Clients :
              Required(Note("CORE_TO_CLIENT", r, by, n, c)) =
                RequestAndReply(r) \cup {{Note("CORE", r, by, n, NoOne)}}
<1> USE DEF Required, Causes, RequestAndReply, Note, Callback, Sources
<1>1. Required(Callback("request", r, "client", 0)) = {} /\ Required(RequestNote(r)) = {}
  BY DEF RequestNote
<1>2. Required(ReplyNote(r)) = {{RequestNote(r)}}
  BY DEF ReplyNote
<1>3. Required(Callback("start", r, "client", 0)) = RequestAndReply(r)
  OBVIOUS
<1>4. Required(Callback("report", r, "task", 0)) = RequestAndReply(r)
  OBVIOUS
<1>5. ASSUME NEW kind \in {"CORE", "CORE_TO_LLM", "TOOL"}
      PROVE  /\ ~(n > 1) => Required(Note(kind, r, by, n, NoOne)) = RequestAndReply(r)
             /\ n > 1 => Required(Note(kind, r, by, n, NoOne)) =
                           RequestAndReply(r) \cup {Lasts(r, by, n - 1)}
  OBVIOUS
<1>6. Required(Note("LLM_TO_CORE", r, by, n, NoOne)) =
              RequestAndReply(r) \cup {{Note("CORE_TO_LLM", r, by, n, NoOne)}}
  OBVIOUS
<1>7. ASSUME NEW do \in {"notify", "push"}
      PROVE Required(Callback(do, r, by, n)) = RequestAndReply(r) \cup {{Note("CORE", r, by, n, NoOne)}}
  OBVIOUS
<1>8. ASSUME NEW c \in Clients
      PROVE Required(Note("CORE_TO_CLIENT", r, by, n, c)) =
                RequestAndReply(r) \cup {{Note("CORE", r, by, n, NoOne)}}
  OBVIOUS
<1> QED
  BY <1>1, <1>2, <1>3, <1>4, <1>5, <1>6, <1>7, <1>8

\* No step removes an entry.
LEMMA FilesGrowNext ==
  ASSUME Typed, Stamped, [Next]_vars
  PROVE  FilesGrow
<1>1. ASSUME NEW t \in Threads, Write(t)  PROVE FilesGrow
  <2>1. PICK d : d = [note |-> agenda[t][1], stamp |-> stamp[t]]
    OBVIOUS
  <2>2. file' = [file EXCEPT ![agenda[t][1].run] = @ \cup {d}]
    BY <1>1, <2>1, WriteShape
  <2> QED
    BY <2>2 DEF FilesGrow, Typed
<1>2. ASSUME file' = file  PROVE FilesGrow
  BY <1>2 DEF FilesGrow
<1>3. (\E t \in Threads : Write(t)) \/ file' = file
  BY DEF Next, Tick, TakeNumber, TakeTime, Notify, Publish, Chat, Audit, Request, Remember, RunRaises,
         Handle, Start, Report, Push, vars
<1> QED
  BY <1>1, <1>2, <1>3

\* An entry that was there before a stamp was taken stays so.
LEMMA StaysPastNext ==
  ASSUME Typed, Stamped, [Next]_vars, NEW t \in Threads
  PROVE  StaysPast(t)
<1>1. ASSUME NEW u \in Threads, TakeNumber(u)  PROVE StaysPast(t)
  <2>1. /\ stamp'[u].seq = seq + 1 /\ stamp'[u].ts = 0
        /\ \A w \in Threads \ {u} : stamp'[w] = stamp[w]
    BY <1>1, NumberShape
  <2>2. CASE t = u
    <3>1. ASSUME NEW r \in Runs, NEW d \in file[r]  PROVE Past(t, d)'
      <4>1. d.stamp.seq \in Nat /\ d.stamp.seq <= seq /\ seq \in Nat
        BY DEF Stamped, Typed
      <4> QED
        BY <2>1, <2>2, <4>1 DEF Past
    <3> QED
      BY <3>1 DEF StaysPast
  <2>3. CASE t # u
    BY <2>1, <2>3 DEF StaysPast, Past
  <2> QED
    BY <2>2, <2>3
<1>2. ASSUME NEW u \in Threads, TakeTime(u)  PROVE StaysPast(t)
  <2>1. /\ stamp'[u].seq = stamp[u].seq /\ stamp[u].seq # 0 /\ stamp'[u].ts = clock
        /\ \A w \in Threads \ {u} : stamp'[w] = stamp[w]
    BY <1>2, TimeShape
  <2>2. CASE t = u
    <3>1. ASSUME NEW r \in Runs, NEW d \in file[r], Past(t, d)  PROVE Past(t, d)'
      BY <2>1, <2>2, <3>1 DEF Past, Stamped
    <3> QED
      BY <3>1 DEF StaysPast
  <2>3. CASE t # u
    BY <2>1, <2>3 DEF StaysPast, Past
  <2> QED
    BY <2>2, <2>3
<1>3. ASSUME NEW u \in Threads, Write(u)  PROVE StaysPast(t)
  <2>1. stamp'[u] = Unstamped /\ \A w \in Threads \ {u} : stamp'[w] = stamp[w]
    BY <1>3, WriteShape
  <2>2. CASE t = u
    BY <2>1, <2>2 DEF StaysPast, Past, Unstamped
  <2>3. CASE t # u
    BY <2>1, <2>3 DEF StaysPast, Past
  <2> QED
    BY <2>2, <2>3
<1>4. ASSUME stamp' = stamp  PROVE StaysPast(t)
  BY <1>4 DEF StaysPast, Past
<1>5. (\E u \in Threads : TakeNumber(u) \/ TakeTime(u) \/ Write(u)) \/ stamp' = stamp
  BY DEF Next, Tick, Notify, Publish, Chat, Audit, Request, Remember, RunRaises,
         Handle, Start, Report, Push, vars
<1> QED
  BY <1>1, <1>2, <1>3, <1>4, <1>5

\* The head's causes are in the file.
LEMMA HeadCaused ==
  ASSUME Typed, NEW t \in Threads, agenda[t] # << >>, Caused(t)
  PROVE  \A alt \in Required(agenda[t][1]) : \E y \in alt : Has(y)
BY HeadSupported DEF Supported, Has

\* A step of the loop that brings only items with their causes keeps Caused for all threads.
LEMMA LoopCaused ==
  ASSUME Typed, Stamped, [Next]_vars, \A t \in Threads : Caused(t), NEW f, NEW b, LoopSplices(f, b),
         Grounded(f, b)
  PROVE  \A t \in Threads : Caused(t)'
<1>1. PICK head : head = agenda[Loop][1]
  OBVIOUS
<1>2. /\ Splices(Loop, f, b) /\ head.do # "record" /\ agenda[Loop] # << >>
      /\ \A t \in Workers : agenda'[t] = agenda[t]
      /\ stamp' = stamp
  BY <1>1 DEF LoopSplices, Splices
<1>3. stamp'[Loop].seq = 0
  BY <1>1, <1>2, ThreadFacts DEF Stamped
<1>4. FilesGrow /\ Loop \in Threads
  BY FilesGrowNext, ThreadFacts
<1>5. Caused(Loop)'
  BY <1>1, <1>2, <1>3, <1>4, CausedSplice
<1>6. ASSUME NEW t \in Workers  PROVE Caused(t)'
  BY <1>2, <1>4, StaysPastNext, CausedSame, ThreadFacts
<1> QED
  BY <1>5, <1>6 DEF Threads

\* A push requires what the notification did.
LEMMA PushRequires ==
  ASSUME NEW x \in Items, x.do = "notify"
  PROVE  Required(PushOf(x)) = Required(x)
<1>1. /\ PushOf(x).do = "push" /\ PushOf(x).kind = x.kind /\ PushOf(x).run = x.run
      /\ PushOf(x).by = x.by /\ PushOf(x).n = x.n
  BY DEF PushOf, Items
<1>2. Causes(PushOf(x)) = Causes(x)
  BY <1>1 DEF Causes
<1> QED
  BY <1>1, <1>2 DEF Required

\* The loop gets an event whose entry is written.
LEMMA CausedNotify ==
  ASSUME Typed, Stamped, [Next]_vars, \A t \in Threads : Caused(t), NEW t \in Threads, Notify(t)
  PROVE  \A u \in Threads : Caused(u)'
<1>1. agenda[t] # << >> /\ agenda[t][1] \in Items /\ agenda[t][1].do = "notify"
  BY HeadItem DEF Notify
<1>2. PICK push : push = PushOf(agenda[t][1])
  OBVIOUS
<1>3. \A alt \in Required(push) : \E y \in alt : Has(y)
  BY <1>1, <1>2, HeadCaused, PushRequires
<1>4. CASE t = Loop
  <2>1. LoopSplices(<< >>, <<push>>)
    BY <1>2, <1>4, NotifyShape
  <2>2. Len(<< >>) = 0 /\ Len(<<push>>) = 1 /\ <<push>>[1] = push
    OBVIOUS
  <2>3. \A k \in 1..Len(<< >>) : FALSE
    BY <2>2
  <2>4. \A m \in 1..Len(<<push>>) : \A alt \in Required(<<push>>[m]) : \E y \in alt : Has(y)
    BY <1>3, <2>2
  <2>5. Grounded(<< >>, <<push>>)
    BY <2>3, <2>4 DEF Grounded
  <2> QED
    BY <2>1, <2>5, LoopCaused
<1>5. CASE t # Loop
  <2>1. /\ Splices(t, << >>, << >>) /\ LoopAppends(push)
        /\ \A u \in Threads \ {t, Loop} : agenda'[u] = agenda[u]
        /\ stamp' = stamp
    BY <1>2, <1>5, NotifyShape
  <2>2. FilesGrow /\ \A u \in Threads : StaysPast(u)
    BY FilesGrowNext, StaysPastNext
  <2>3. Caused(Loop)'
    BY <1>3, <2>1, <2>2, CausedAppend, ThreadFacts DEF LoopAppends
  <2>4. Caused(t)'
    <3>1. stamp'[t].seq = 0
      BY <1>1, <2>1 DEF Stamped
    <3>2. PICK head : head = agenda[t][1]
      OBVIOUS
    <3>3. head.do # "record" /\ Grounded(<< >>, << >>)
      BY <1>1, <3>2 DEF Grounded
    <3> QED
      BY <2>1, <2>2, <3>1, <3>2, <3>3, CausedSplice
  <2>5. ASSUME NEW u \in Threads \ {t, Loop}  PROVE Caused(u)'
    BY <2>1, <2>2, CausedSame
  <2> QED
    BY <2>3, <2>4, <2>5
<1> QED
  BY <1>4, <1>5

\* What waited for the entry at the head finds it in the file.
LEMMA CausedWrite ==
  ASSUME Typed, Stamped, [Next]_vars, \A t \in Threads : Caused(t), NEW t \in Threads, Write(t)
  PROVE  \A u \in Threads : Caused(u)'
<1>1. PICK head : head = agenda[t][1]
  OBVIOUS
<1>2. PICK d : d = [note |-> head, stamp |-> stamp[t]]
  OBVIOUS
<1>3. /\ Splices(t, << >>, << >>) /\ head.run \in Runs
      /\ \A u \in Threads \ {t} : agenda'[u] = agenda[u]
      /\ stamp'[t] = Unstamped
      /\ file' = [file EXCEPT ![head.run] = @ \cup {d}]
  BY <1>1, <1>2, WriteShape
<1>4. FilesGrow /\ \A u \in Threads : StaysPast(u)
  BY FilesGrowNext, StaysPastNext
<1>5. Has(head)'
  BY <1>2, <1>3 DEF Has, Typed
<1>6. Caused(t)'
  <2>1. stamp'[t].seq = 0 /\ Grounded(<< >>, << >>)
    BY <1>3 DEF Unstamped, Grounded
  <2> QED
    BY <1>1, <1>3, <1>4, <1>5, <2>1, CausedSplice
<1>7. ASSUME NEW u \in Threads \ {t}  PROVE Caused(u)'
  BY <1>3, <1>4, CausedSame
<1> QED
  BY <1>6, <1>7

\* The files of runs that began hold request and reply.
LEMMA BegunHas ==
  ASSUME Opened, NEW r \in Runs, phase[r] \in Begun
  PROVE  \A alt \in RequestAndReply(r) : \E y \in alt : Has(y)
BY DEF Opened, RequestAndReply

\* A thread's next event finds its previous one written, and the request and the reply.
LEMMA CausedMade ==
  ASSUME Typed, Stamped, [Next]_vars, \A t \in Threads : Caused(t), Opened,
         NEW t \in Workers, Reported(t), Publish(t) \/ Chat(t) \/ Audit(t)
  PROVE  \A u \in Threads : Caused(u)'
<1>1. /\ agenda[t] = << >> /\ phase[RunOf(t)] \in Begun /\ done'[t] = done[t] + 1
      /\ \A u \in Threads \ {t} : agenda'[u] = agenda[u]
      /\ UNCHANGED <<stamp, file>>
  BY MadeShape
<1>2. t \in Threads /\ RunOf(t) \in Runs /\ t[2] \in Sources /\ done[t] \in Nat
  BY ThreadFacts DEF Sources, Typed
<1>3. PICK r, by, n : r = RunOf(t) /\ by = t[2] /\ n = done[t] + 1
  OBVIOUS
<1>4. r \in Runs /\ by \in Sources /\ n \in Nat
  BY <1>2, <1>3
<1>5. stamp'[t].seq = 0
  BY <1>1, <1>2 DEF Stamped
<1>6. FilesGrow /\ \A u \in Threads : StaysPast(u)
  BY FilesGrowNext, StaysPastNext
<1>7. ASSUME NEW i, NEW y, Has(y), y.run = r  PROVE Known(t, i, y)'
  BY <1>2, <1>4, <1>5, <1>6, <1>7, HasKept, KnownByFile
<1>8. ASSUME NEW i, NEW alt \in RequestAndReply(r)  PROVE \E y \in alt : Known(t, i, y)'
  <2>1. PICK y \in alt : Has(y)
    BY <1>1, <1>3, <1>4, BegunHas
  <2>2. y.run = r
    BY DEF RequestAndReply, RequestNote, ReplyNote, Note
  <2> QED
    BY <1>7, <2>1, <2>2
<1>9. ASSUME n > 1
      PROVE  \E y \in Lasts(r, by, n - 1) : Known(t, 1, y)'
  <2>1. done[t] > 0 /\ n - 1 = done[t]
    BY <1>2, <1>3, <1>9
  <2>2. PICK y \in Lasts(r, by, n - 1) : Has(y)
    <3>1. Len(agenda[t]) = 0
      BY <1>1
    <3> QED
      BY <1>3, <2>1, <3>1 DEF Reported
  <2>3. y.run = r
    BY <2>2 DEF Lasts, Note
  <2> QED
    BY <1>7, <2>2, <2>3
<1>15. ASSUME NEW first, NEW kind \in {"CORE", "CORE_TO_LLM", "TOOL"},
              first = Note(kind, r, by, n, NoOne), NEW alt \in Required(first)
       PROVE  \E y \in alt : Known(t, 1, y)'
  <2>1. alt \in RequestAndReply(r) \/ (n > 1 /\ alt = Lasts(r, by, n - 1))
    BY <1>4, <1>15, RequiredOf
  <2> QED
    BY <1>8, <1>9, <2>1
<1>10. ASSUME NEW first, NEW second, agenda'[t] = <<first, second>>,
              first \in {Note("CORE", r, by, n, NoOne), Note("CORE_TO_LLM", r, by, n, NoOne)},
              Required(second) = RequestAndReply(r) \cup {{first}}
       PROVE  Caused(t)'
  <2>1. Len(agenda'[t]) = 2 /\ agenda'[t][1] = first /\ agenda'[t][2] = second
    BY <1>10
  <2>2. ASSUME NEW alt \in Required(first)  PROVE \E y \in alt : Known(t, 1, y)'
    BY <1>10, <1>15, <2>2
  <2>3. ASSUME NEW alt \in Required(second)  PROVE \E y \in alt : Known(t, 2, y)'
    <3>1. CASE alt \in RequestAndReply(r)
      BY <1>8, <3>1
    <3>2. CASE alt = {first}
      <4>1. 1 \in 1..2-1
        OBVIOUS
      <4> QED
        BY <2>1, <3>2, <4>1 DEF Known
    <3> QED
      BY <1>10, <3>1, <3>2
  <2>4. ASSUME NEW i \in 1..2, NEW alt \in Required(agenda'[t][i])
        PROVE  \E y \in alt : Known(t, i, y)'
    <3>1. CASE i = 1
      BY <2>1, <2>2, <3>1
    <3>2. CASE i = 2
      BY <2>1, <2>3, <3>2
    <3> QED
      BY <3>1, <3>2
  <2> QED
    BY <2>1, <2>4 DEF Caused
<1>11. \/ agenda'[t] = <<Note("CORE", r, by, n, NoOne), Callback("notify", r, by, n)>>
       \/ agenda'[t] = <<Note("CORE_TO_LLM", r, by, n, NoOne), Note("LLM_TO_CORE", r, by, n, NoOne)>>
       \/ agenda'[t] = <<Note("TOOL", r, by, n, NoOne)>>
  BY <1>1, <1>3, MadeShape DEF Latest, LatestNotify
<1>12. /\ Required(Callback("notify", r, by, n)) = RequestAndReply(r) \cup {{Note("CORE", r, by, n, NoOne)}}
       /\ Required(Note("LLM_TO_CORE", r, by, n, NoOne)) =
            RequestAndReply(r) \cup {{Note("CORE_TO_LLM", r, by, n, NoOne)}}
  BY <1>4, RequiredOf
<1>16. ASSUME agenda'[t] = <<Note("TOOL", r, by, n, NoOne)>>  PROVE Caused(t)'
  <2>1. PICK first : first = Note("TOOL", r, by, n, NoOne)
    OBVIOUS
  <2>2. Len(agenda'[t]) = 1 /\ agenda'[t][1] = first
    BY <1>16, <2>1
  <2>3. ASSUME NEW alt \in Required(first)  PROVE \E y \in alt : Known(t, 1, y)'
    BY <1>15, <2>1, <2>3
  <2> QED
    BY <2>2, <2>3 DEF Caused
<1>13. Caused(t)'
  BY <1>10, <1>11, <1>12, <1>16
<1>14. ASSUME NEW u \in Threads \ {t}  PROVE Caused(u)'
  BY <1>1, <1>6, CausedSame
<1> QED
  BY <1>13, <1>14

\* A callback or an entry of the loop is what its first field says.
LEMMA LoopHead ==
  ASSUME NEW x, LoopItem(x)
  PROVE  /\ x.run \in Runs
         /\ x.do = "request" => x = Callback("request", x.run, "client", 0)
         /\ x.do = "start" => x = Callback("start", x.run, "client", 0)
         /\ x.do = "report" => x = ReportOf(x.run)
         /\ x.do = "push" => /\ x.by \in Sources /\ x.n \in Nat
                             /\ x = Callback("push", x.run, x.by, x.n)
         /\ x.do = "notify" => x.n \in {1, 2} /\ x = Callback("notify", x.run, "task", x.n)
         /\ x.do = "record" =>
              \/ x = RequestNote(x.run) \/ x = ReplyNote(x.run)
              \/ x.n \in {1, 2} /\ x = Note("CORE", x.run, "task", x.n, NoOne)
              \/ x.by \in Sources /\ x.n \in Nat /\ \E c \in Clients : x = Note("CORE_TO_CLIENT", x.run, x.by, x.n, c)
<1> USE DEF Note, Callback, RequestNote, ReplyNote, ReportOf, Sources
<1>1. CASE \E r \in Runs : x \in {Callback("request", r, "client", 0), Callback("start", r, "client", 0),
                           Callback("report", r, "task", 0), RequestNote(r), ReplyNote(r)}
  BY <1>1
<1>2. CASE \E r \in Runs, n \in {1, 2} : x \in {Note("CORE", r, "task", n, NoOne),
                                         Callback("notify", r, "task", n)}
  BY <1>2
<1>3. ASSUME NEW r \in Runs, NEW by \in Sources, NEW n \in Nat, x = Callback("push", r, by, n)
      PROVE  x.run \in Runs /\ x.by \in Sources /\ x.n \in Nat /\ x = Callback("push", x.run, x.by, x.n)
             /\ x.do = "push"
  BY <1>3
<1>4. ASSUME NEW r \in Runs, NEW by \in Sources, NEW n \in Nat, NEW c \in Clients,
             x = Note("CORE_TO_CLIENT", r, by, n, c)
      PROVE  x.run \in Runs /\ x.by \in Sources /\ x.n \in Nat /\ x.do = "record"
             /\ x = Note("CORE_TO_CLIENT", x.run, x.by, x.n, c)
  BY <1>4
<1> QED
  BY <1>1, <1>2, <1>3, <1>4 DEF LoopItem

\* The loop's requests, replies and deliveries are known by kind and author.
LEMMA LoopKinds ==
  ASSUME NEW x, LoopItem(x)
  PROVE  /\ x.kind = "CLIENT_TO_CORE" => x = RequestNote(x.run)
         /\ x.by = "reply" => x = ReplyNote(x.run)
         /\ x.do = "record" /\ IsDelivery(x) => x.by \in Sources /\ x.kind = "CORE_TO_CLIENT"
<1> USE DEF Note, Callback, RequestNote, ReplyNote, Sources, IsDelivery
<1>1. CASE \E r \in Runs : x \in {Callback("request", r, "client", 0), Callback("start", r, "client", 0),
                           Callback("report", r, "task", 0), RequestNote(r), ReplyNote(r)}
  BY <1>1
<1>2. CASE \E r \in Runs, n \in {1, 2} : x \in {Note("CORE", r, "task", n, NoOne),
                                         Callback("notify", r, "task", n)}
  BY <1>2
<1>3. CASE \E r \in Runs, by \in Sources, n \in Nat :
             \/ x = Callback("push", r, by, n)
             \/ \E c \in Clients : x = Note("CORE_TO_CLIENT", r, by, n, c)
  BY <1>3
<1> QED
  BY <1>1, <1>2, <1>3 DEF LoopItem

\* The head of the loop's agenda is one of its items.
LEMMA HeadIsItem ==
  ASSUME Typed, LoopItems, agenda[Loop] # << >>
  PROVE  LoopItem(agenda[Loop][1])
<1>1. 1 \in 1..Len(agenda[Loop])
  BY Popped, ThreadFacts DEF Typed
<1> QED
  BY <1>1 DEF LoopItems

\* The loop's callbacks bring only items with their causes.
LEMMA CausedLoop ==
  ASSUME Typed, Stamped, [Next]_vars, \A t \in Threads : Caused(t), LoopItems,
         Handle \/ Start \/ Report \/ Push
  PROVE  \A t \in Threads : Caused(t)'
<1> PICK r : r = agenda[Loop][1].run
  OBVIOUS
<1>1. CASE Handle
  <2>1. r \in Runs /\ LoopSplices(<<RequestNote(r), ReplyNote(r)>>, <<Callback("start", r, "client", 0)>>)
    BY <1>1, HandleShape
  <2>2. /\ Required(RequestNote(r)) = {} /\ Required(ReplyNote(r)) = {{RequestNote(r)}}
        /\ Required(Callback("start", r, "client", 0)) = {{RequestNote(r)}, {ReplyNote(r)}}
    BY <2>1, RequiredOf DEF Sources, RequestAndReply
  <2>3. PICK f : f = <<RequestNote(r), ReplyNote(r)>>
    OBVIOUS
  <2>4. PICK b : b = <<Callback("start", r, "client", 0)>>
    OBVIOUS
  <2>5. Len(f) = 2 /\ f[1] = RequestNote(r) /\ f[2] = ReplyNote(r)
    BY <2>3
  <2>6. Len(b) = 1 /\ b[1] = Callback("start", r, "client", 0)
    BY <2>4
  <2>7. ASSUME NEW k \in 1..2, NEW alt \in Required(f[k])
        PROVE  \E y \in alt : \E j \in 1..k-1 : f[j] = y
    <3>1. CASE k = 1
      BY <2>2, <2>5, <3>1
    <3>2. CASE k = 2
      <4>1. 1 \in 1..2-1
        OBVIOUS
      <4> QED
        BY <2>2, <2>5, <3>2, <4>1
    <3> QED
      BY <3>1, <3>2
  <2>8. ASSUME NEW m \in 1..1, NEW alt \in Required(b[m])
        PROVE  \E y \in alt : \E j \in 1..2 : f[j] = y
    <3>1. alt \in {{RequestNote(r)}, {ReplyNote(r)}}
      BY <2>2, <2>6
    <3>2. 1 \in 1..2 /\ 2 \in 1..2
      OBVIOUS
    <3> QED
      BY <2>5, <3>1, <3>2
  <2>9. Grounded(f, b)
    BY <2>5, <2>6, <2>7, <2>8 DEF Grounded
  <2> QED
    BY <2>1, <2>3, <2>4, <2>9, LoopCaused
<1>2. CASE Start
  <2>1. LoopSplices(<< >>, << >>)
    BY <1>2, StartShape
  <2>2. Grounded(<< >>, << >>)
    BY DEF Grounded
  <2> QED
    BY <2>1, <2>2, LoopCaused
<1>3. CASE Report
  <2>1. PICK f : f = <<Note("CORE", r, "task", 1, NoOne), Callback("notify", r, "task", 1),
                       Note("CORE", r, "task", 2, NoOne), Callback("notify", r, "task", 2)>>
    OBVIOUS
  <2>2. r \in Runs /\ LoopSplices(f, << >>) /\ agenda[Loop][1].do = "report" /\ agenda[Loop] # << >>
    BY <1>3, <2>1, ReportShape DEF LoopSplices, Splices
  <2>3. \A alt \in RequestAndReply(r) : \E y \in alt : Has(y)
    <3>1. agenda[Loop][1] = Callback("report", r, "task", 0)
      BY <2>2, HeadIsItem, LoopHead DEF ReportOf
    <3>2. Required(agenda[Loop][1]) = RequestAndReply(r)
      BY <2>2, <3>1, RequiredOf DEF Sources
    <3> QED
      BY <2>2, <3>2, HeadCaused, ThreadFacts
  <2>4. /\ Len(f) = 4 /\ f[1] = Note("CORE", r, "task", 1, NoOne) /\ f[2] = Callback("notify", r, "task", 1)
        /\ f[3] = Note("CORE", r, "task", 2, NoOne) /\ f[4] = Callback("notify", r, "task", 2)
    BY <2>1
  <2>5. /\ Required(f[1]) = RequestAndReply(r) /\ Required(f[2]) = RequestAndReply(r) \cup {{f[1]}}
        /\ Required(f[3]) = RequestAndReply(r) \cup {Lasts(r, "task", 1)}
        /\ Required(f[4]) = RequestAndReply(r) \cup {{f[3]}}
    <3>1. /\ "task" \in Sources /\ 1 \in Nat /\ 2 \in Nat /\ 2 - 1 = 1 /\ 2 > 1 /\ ~(1 > 1)
          /\ "notify" \in {"notify", "push"} /\ "CORE" \in {"CORE", "CORE_TO_LLM", "TOOL"}
      BY DEF Sources
    <3>2. Required(f[1]) = RequestAndReply(r)
      BY <2>2, <2>4, <3>1, RequiredOf
    <3>3. Required(f[2]) = RequestAndReply(r) \cup {{f[1]}}
      BY <2>2, <2>4, <3>1, RequiredOf
    <3>4. Required(f[3]) = RequestAndReply(r) \cup {Lasts(r, "task", 1)}
      BY <2>2, <2>4, <3>1, RequiredOf
    <3>5. Required(f[4]) = RequestAndReply(r) \cup {{f[3]}}
      BY <2>2, <2>4, <3>1, RequiredOf
    <3> QED
      BY <3>2, <3>3, <3>4, <3>5
  <2>6. ASSUME NEW k \in 1..4, NEW alt \in Required(f[k])
        PROVE  \E y \in alt : Has(y) \/ \E j \in 1..k-1 : f[j] = y
    <3>1. alt \in RequestAndReply(r) \/ (k \in {2, 3} /\ f[1] \in alt) \/ (k = 4 /\ f[3] \in alt)
      BY <2>4, <2>5 DEF Lasts
    <3>2. (k \in {2, 3} => 1 \in 1..k-1) /\ (k = 4 => 3 \in 1..k-1)
      OBVIOUS
    <3> QED
      BY <2>3, <3>1, <3>2
  <2>7. Grounded(f, << >>)
    BY <2>4, <2>6 DEF Grounded
  <2> QED
    BY <2>2, <2>7, LoopCaused
<1>4. CASE Push
  <2>1. PICK q : LoopSplices(q, << >>) /\ Deliveries(q, agenda[Loop][1])
    BY <1>4, PushShape
  <2>2. PICK e : e = agenda[Loop][1]
    OBVIOUS
  <2>3. e.do = "push" /\ agenda[Loop] # << >>
    BY <1>4, <2>1, <2>2, PushShape DEF LoopSplices, Splices
  <2>4. e = Callback("push", e.run, e.by, e.n) /\ e.run \in Runs /\ e.by \in Sources /\ e.n \in Nat
    BY <2>2, <2>3, HeadIsItem, LoopHead
  <2>5. \A alt \in Required(e) : \E y \in alt : Has(y)
    BY <2>2, <2>3, HeadCaused, ThreadFacts
  <2>6. Required(e) = RequestAndReply(e.run) \cup {{Note("CORE", e.run, e.by, e.n, NoOne)}}
    <3>1. PICK r0, by, n : r0 = e.run /\ by = e.by /\ n = e.n
      OBVIOUS
    <3>2. Required(Callback("push", r0, by, n)) = RequestAndReply(r0) \cup {{Note("CORE", r0, by, n, NoOne)}}
      BY <2>4, <3>1, RequiredOf
    <3> QED
      BY <2>4, <3>1, <3>2
  <2>7. ASSUME NEW c \in Clients
        PROVE  Required(Note("CORE_TO_CLIENT", e.run, e.by, e.n, c)) = Required(e)
    BY <2>4, <2>6, RequiredOf
  <2>8. Grounded(q, << >>)
    BY <2>1, <2>2, <2>5, <2>7 DEF Grounded, Deliveries
  <2> QED
    BY <2>1, <2>8, LoopCaused
<1> QED
  BY <1>1, <1>2, <1>3, <1>4

\* Caused is inductive.
LEMMA CausedNext ==
  ASSUME CauseInv, [Next]_vars
  PROVE  \A t \in Threads : Caused(t)'
<1> USE DEF CauseInv
<1>1. CASE UNCHANGED agenda
  BY <1>1, FilesGrowNext, StaysPastNext, CausedSame
<1>2. ASSUME NEW t \in Threads, Write(t) \/ Notify(t)  PROVE \A u \in Threads : Caused(u)'
  BY <1>2, CausedWrite, CausedNotify
<1>3. ASSUME NEW t \in Workers, Publish(t) \/ Chat(t) \/ Audit(t)  PROVE \A u \in Threads : Caused(u)'
  BY <1>3, CausedMade
<1>4. ASSUME NEW r \in Runs, Request(r) \/ RunRaises(r)  PROVE \A u \in Threads : Caused(u)'
  <2>1. FilesGrow /\ \A u \in Threads : StaysPast(u)
    BY FilesGrowNext, StaysPastNext
  <2>2. PICK x \in Items :
          /\ agenda'[Loop] = Append(agenda[Loop], x) /\ \A t \in Workers : agenda'[t] = agenda[t]
          /\ \A alt \in Required(x) : \E y \in alt : Has(y)
    <3>1. CASE Request(r)
      BY <1>4, <3>1, AppendShape, RequiredOf DEF LoopAppends, Sources
    <3>2. CASE RunRaises(r)
      <4>1. phase[r] \in Begun
        BY <3>2 DEF RunRaises, Begun
      <4>2. Required(Callback("report", r, "task", 0)) = RequestAndReply(r)
        BY RequiredOf DEF Sources
      <4> QED
        BY <3>2, <4>1, <4>2, AppendShape, BegunHas DEF LoopAppends
    <3> QED
      BY <1>4, <3>1, <3>2
  <2>3. stamp' = stamp
    BY <1>4 DEF Request, RunRaises
  <2>4. Caused(Loop)'
    BY <2>1, <2>2, <2>3, CausedAppend, ThreadFacts
  <2>5. ASSUME NEW t \in Workers  PROVE Caused(t)'
    BY <2>1, <2>2, CausedSame, ThreadFacts
  <2> QED
    BY <2>4, <2>5 DEF Threads
<1>5. CASE Handle \/ Start \/ Report \/ Push
  BY <1>5, CausedLoop
<1>6. \/ UNCHANGED agenda
      \/ \E t \in Threads : Write(t) \/ Notify(t)
      \/ \E t \in Workers : Publish(t) \/ Chat(t) \/ Audit(t)
      \/ \E r \in Runs : Request(r) \/ RunRaises(r)
      \/ Handle \/ Start \/ Report \/ Push
  BY DEF Next, Tick, TakeNumber, TakeTime, Remember, vars
<1> QED
  BY <1>1, <1>2, <1>3, <1>4, <1>5, <1>6

\* An entry is read behind its causes: they were there before its number and its time.
LEMMA CausesReadNext ==
  ASSUME CauseInv, [Next]_vars
  PROVE  CausesRead'
<1> USE DEF CauseInv
<1>1. ASSUME NEW t \in Threads, Write(t)  PROVE CausesRead'
  <2>1. PICK head : head = agenda[t][1]
    OBVIOUS
  <2>2. PICK new : new = [note |-> head, stamp |-> stamp[t]]
    OBVIOUS
  <2>3. /\ agenda[t] # << >> /\ head \in Items /\ head.run \in Runs
        /\ stamp[t].seq # 0 /\ stamp[t].ts # 0
        /\ file' = [file EXCEPT ![head.run] = @ \cup {new}]
    BY <1>1, <2>1, <2>2, WriteShape DEF Splices
  <2>4. Supported(t)
    BY <2>3, HeadSupported
  <2>5. ASSUME NEW r \in Runs, NEW e \in file'[r], NEW alt \in Required(e.note)
        PROVE  \E d \in file'[r] : d.note \in alt /\ ReadsBefore(d, e)
    <3>1. CASE e \in file[r]
      <4>1. PICK d \in file[r] : d.note \in alt /\ ReadsBefore(d, e)
        BY <3>1 DEF CausesRead
      <4>2. d \in file'[r]
        BY <2>3 DEF Typed
      <4> QED
        BY <4>1, <4>2
    <3>2. CASE r = head.run /\ e = new
      <4>1. alt \in Required(head)
        BY <2>2, <3>2
      <4>2. PICK y \in alt : \E d \in file[y.run] : d.note = y /\ Past(t, d)
        BY <2>1, <2>4, <4>1 DEF Supported
      <4>3. y.run = r
        BY <3>2, <4>1, RequiredEntries
      <4>4. PICK d \in file[r] : d.note = y /\ Past(t, d)
        BY <4>2, <4>3
      <4>5. d.stamp.seq \in Nat /\ d.stamp.ts \in Nat /\ stamp[t].seq \in Nat /\ stamp[t].ts \in Nat
        BY <4>4 DEF Typed
      <4>6. ReadsBefore(d, e)
        BY <2>2, <2>3, <3>2, <4>4, <4>5 DEF Past, ReadsBefore
      <4>7. d \in file'[r]
        BY <2>3 DEF Typed
      <4> QED
        BY <4>4, <4>6, <4>7
    <3> QED
      BY <2>3, <3>1, <3>2 DEF Typed
  <2> QED
    BY <2>5 DEF CausesRead
<1>2. ASSUME file' = file  PROVE CausesRead'
  BY <1>2 DEF CausesRead
<1>3. (\E t \in Threads : Write(t)) \/ file' = file
  BY DEF Next, Tick, TakeNumber, TakeTime, Notify, Publish, Chat, Audit, Request, Remember, RunRaises,
         Handle, Start, Report, Push, vars
<1> QED
  BY <1>1, <1>2, <1>3

\* A run begins when its request and its reply are written.
LEMMA OpenedNext ==
  ASSUME CauseInv, [Next]_vars
  PROVE  Opened'
<1> USE DEF CauseInv
<1>1. ASSUME NEW r \in Runs, phase'[r] \in Begun, phase[r] \notin Begun
      PROVE  Start /\ r = agenda[Loop][1].run
  <2>1. ASSUME NEW q \in Runs, Request(q)  PROVE phase'[r] \notin Begun
    BY <1>1, <2>1 DEF Request, Typed, Begun
  <2>2. ASSUME NEW q \in Runs, Remember(q) \/ RunRaises(q)  PROVE phase'[r] \notin Begun
    BY <1>1, <2>2 DEF Remember, RunRaises, Typed, Begun
  <2>3. CASE phase' = phase
    BY <1>1, <2>3
  <2>4. CASE Start
    BY <1>1, <2>4, StartShape DEF Typed
  <2>5. \/ phase' = phase \/ Start
        \/ \E q \in Runs : Request(q) \/ Remember(q) \/ RunRaises(q)
    BY DEF Next, Tick, TakeNumber, TakeTime, Write, Notify, Publish, Chat, Audit, Handle, Report, Push, vars
  <2> QED
    BY <1>1, <2>1, <2>2, <2>3, <2>4, <2>5
<1>2. ASSUME NEW r \in Runs, phase'[r] \in Begun  PROVE Has(RequestNote(r)) /\ Has(ReplyNote(r))
  <2>1. CASE phase[r] \in Begun
    BY <2>1 DEF Opened
  <2>2. CASE phase[r] \notin Begun
    <3>1. Start /\ r = agenda[Loop][1].run
      BY <1>1, <1>2, <2>2
    <3>2. agenda[Loop] # << >> /\ agenda[Loop][1].do = "start"
      BY <3>1, StartShape DEF LoopSplices, Splices
    <3>3. agenda[Loop][1] = Callback("start", r, "client", 0)
      BY <3>1, <3>2, HeadIsItem, LoopHead
    <3>4. Required(agenda[Loop][1]) = {{RequestNote(r)}, {ReplyNote(r)}}
      BY <3>3, RequiredOf DEF Sources, RequestAndReply
    <3> QED
      BY <3>2, <3>4, HeadCaused, ThreadFacts, ZenonT(60)
  <2> QED
    BY <2>1, <2>2
<1>3. ASSUME NEW r \in Runs  PROVE RequestNote(r).run \in Runs /\ ReplyNote(r).run \in Runs
  BY DEF RequestNote, ReplyNote, Note
<1>4. FilesGrow
  BY FilesGrowNext
<1> QED
  BY <1>2, <1>3, <1>4, HasKept DEF Opened

\* An item after a splice was there or came with it.
LEMMA SplicedItems ==
  ASSUME Typed, NEW t \in Threads, NEW f, NEW b, Splices(t, f, b),
         NEW k \in 1..Len(agenda'[t])
  PROVE  \/ \E i \in 2..Len(agenda[t]) : agenda'[t][k] = agenda[t][i]
         \/ \E i \in 1..Len(f) : agenda'[t][k] = f[i]
         \/ \E i \in 1..Len(b) : agenda'[t][k] = b[i]
<1>1. IsSplice(agenda'[t], agenda[t], f, b)
  BY Spliced DEF Splices, Typed
<1> QED
  BY <1>1 DEF IsSplice

\* A splice of the loop's items keeps LoopItems ...
LEMMA LoopItemsSplice ==
  ASSUME Typed, LoopItems, NEW f, NEW b, Splices(Loop, f, b),
         \A i \in 1..Len(f) : LoopItem(f[i]), \A i \in 1..Len(b) : LoopItem(b[i])
  PROVE  LoopItems'
<1>1. \A i \in 2..Len(agenda[Loop]) : i \in 1..Len(agenda[Loop])
  BY Popped, ThreadFacts DEF Typed, Splices
<1> QED
  BY <1>1, SplicedItems, ThreadFacts DEF LoopItems

\* ... which is inductive.
LEMMA LoopItemsNext ==
  ASSUME CauseInv, [Next]_vars
  PROVE  LoopItems'
<1> USE DEF CauseInv
<1>1. CASE agenda'[Loop] = agenda[Loop]
  BY <1>1 DEF LoopItems
<1>2. ASSUME NEW x, LoopItem(x), LoopAppends(x)  PROVE LoopItems'
  <2>1. agenda[Loop] \in Seq(Items) /\ x \in Items /\ agenda'[Loop] = Append(agenda[Loop], x)
    BY <1>2, ThreadFacts DEF Typed, LoopAppends
  <2>2. /\ Len(agenda'[Loop]) = Len(agenda[Loop]) + 1 /\ agenda'[Loop][Len(agenda[Loop]) + 1] = x
        /\ Len(agenda[Loop]) \in Nat
        /\ \A i \in 1..Len(agenda[Loop]) : agenda'[Loop][i] = agenda[Loop][i]
    BY <2>1, Appended
  <2>3. ASSUME NEW i \in 1..Len(agenda'[Loop])  PROVE LoopItem(agenda'[Loop][i])
    <3>1. i \in 1..Len(agenda[Loop]) \/ i = Len(agenda[Loop]) + 1
      BY <2>2
    <3> QED
      BY <1>2, <2>2, <3>1 DEF LoopItems
  <2> QED
    BY <2>3 DEF LoopItems
<1>3. ASSUME NEW t \in Threads, Notify(t)  PROVE LoopItem(PushOf(agenda[t][1]))
  <2>1. agenda[t] # << >> /\ agenda[t][1] \in Items /\ agenda[t][1].do = "notify"
    BY <1>3, HeadItem DEF Notify
  <2>2. ASSUME NEW r \in Runs, NEW by \in Sources, NEW n \in Nat, agenda[t][1] = Callback("notify", r, by, n)
        PROVE  LoopItem(PushOf(agenda[t][1]))
    <3>1. PushOf(agenda[t][1]) = Callback("push", r, by, n)
      BY <2>2 DEF PushOf, Callback
    <3> QED
      BY <3>1 DEF LoopItem
  <2>3. CASE t = Loop
    <3>1. LoopItem(agenda[t][1])
      BY <2>1, <2>3, HeadIsItem
    <3> QED
      BY <2>1, <2>2, <3>1, LoopHead DEF Sources
  <2>4. CASE t \in Workers
    <3>1. RunOf(t) \in Runs /\ t[2] \in Sources /\ done[t] \in Nat
      BY <2>4, ThreadFacts DEF Sources, Typed
    <3>2. agenda[t][1] = Callback("notify", RunOf(t), t[2], done[t])
      BY <2>1, <2>4 DEF WorkerAgenda, Latest, LatestNotify, Note
    <3> QED
      BY <2>2, <3>1, <3>2
  <2> QED
    BY <2>3, <2>4 DEF Threads
<1>4. ASSUME NEW t \in Threads, Notify(t)  PROVE LoopItems'
  <2>1. CASE t = Loop
    <3>1. PICK b : b = <<PushOf(agenda[t][1])>>
      OBVIOUS
    <3>2. Splices(Loop, << >>, b)
      BY <1>4, <2>1, <3>1, NotifyShape DEF LoopSplices
    <3>3. (\A i \in 1..Len(b) : LoopItem(b[i])) /\ \A i \in 1..Len(<< >>) : LoopItem(<< >>[i])
      BY <1>3, <1>4, <3>1
    <3> QED
      BY <3>2, <3>3, LoopItemsSplice
  <2> QED
    BY <1>2, <1>3, <1>4, <2>1, NotifyShape
<1>5. ASSUME NEW t \in Threads, Write(t)  PROVE LoopItems'
  <2>1. CASE t = Loop
    <3>1. Splices(Loop, << >>, << >>) /\ \A i \in 1..Len(<< >>) : LoopItem(<< >>[i])
      BY <1>5, <2>1, WriteShape
    <3> QED
      BY <3>1, LoopItemsSplice
  <2> QED
    BY <1>1, <1>5, <2>1, WriteShape, ThreadFacts
<1>6. ASSUME NEW t \in Workers, Publish(t) \/ Chat(t) \/ Audit(t)  PROVE LoopItems'
  BY <1>1, <1>6, MadeShape, ThreadFacts
<1>7. ASSUME NEW r \in Runs, Request(r) \/ RunRaises(r)  PROVE LoopItems'
  BY <1>2, <1>7, AppendShape DEF LoopItem
<1>8. CASE Handle
  <2>1. PICK r, f, b : r = agenda[Loop][1].run /\ f = <<RequestNote(r), ReplyNote(r)>>
                       /\ b = <<Callback("start", r, "client", 0)>>
    OBVIOUS
  <2>2. r \in Runs /\ Splices(Loop, f, b)
    BY <1>8, <2>1, HandleShape DEF LoopSplices
  <2>3. LoopItem(RequestNote(r)) /\ LoopItem(ReplyNote(r)) /\ LoopItem(Callback("start", r, "client", 0))
    BY <2>2 DEF LoopItem
  <2>4. (\A i \in 1..Len(f) : LoopItem(f[i])) /\ \A i \in 1..Len(b) : LoopItem(b[i])
    BY <2>1, <2>3
  <2> QED
    BY <2>2, <2>4, LoopItemsSplice
<1>9. CASE Start
  <2>1. Splices(Loop, << >>, << >>) /\ \A i \in 1..Len(<< >>) : LoopItem(<< >>[i])
    BY <1>9, StartShape DEF LoopSplices
  <2> QED
    BY <2>1, LoopItemsSplice
<1>10. CASE Report
  <2>1. PICK r, f : r = agenda[Loop][1].run
          /\ f = <<Note("CORE", r, "task", 1, NoOne), Callback("notify", r, "task", 1),
                   Note("CORE", r, "task", 2, NoOne), Callback("notify", r, "task", 2)>>
    OBVIOUS
  <2>2. r \in Runs /\ Splices(Loop, f, << >>)
    BY <1>10, <2>1, ReportShape DEF LoopSplices
  <2>3. \A n \in {1, 2} : LoopItem(Note("CORE", r, "task", n, NoOne)) /\ LoopItem(Callback("notify", r, "task", n))
    BY <2>2 DEF LoopItem
  <2>4. (\A i \in 1..Len(f) : LoopItem(f[i])) /\ \A i \in 1..Len(<< >>) : LoopItem(<< >>[i])
    BY <2>1, <2>3
  <2> QED
    BY <2>2, <2>4, LoopItemsSplice
<1>11. CASE Push
  <2>1. PICK q : Splices(Loop, q, << >>) /\ Deliveries(q, agenda[Loop][1])
    BY <1>11, PushShape DEF LoopSplices
  <2>2. PICK e : e = agenda[Loop][1]
    OBVIOUS
  <2>3. e.run \in Runs /\ e.by \in Sources /\ e.n \in Nat
    BY <1>11, <2>1, <2>2, PushShape, HeadIsItem, LoopHead DEF Splices
  <2>4. \A c \in Clients : LoopItem(Note("CORE_TO_CLIENT", e.run, e.by, e.n, c))
    BY <2>3 DEF LoopItem
  <2>5. (\A i \in 1..Len(q) : LoopItem(q[i])) /\ \A i \in 1..Len(<< >>) : LoopItem(<< >>[i])
    BY <2>1, <2>2, <2>4 DEF Deliveries
  <2> QED
    BY <2>1, <2>5, LoopItemsSplice
<1>12. \/ UNCHANGED agenda
       \/ \E t \in Threads : Write(t) \/ Notify(t)
       \/ \E t \in Workers : Publish(t) \/ Chat(t) \/ Audit(t)
       \/ \E r \in Runs : Request(r) \/ RunRaises(r)
       \/ Handle \/ Start \/ Report \/ Push
  BY DEF Next, Tick, TakeNumber, TakeTime, Remember, vars
<1> QED
  BY <1>1, <1>4, <1>5, <1>6, <1>7, <1>8, <1>9, <1>10, <1>11, <1>12

\* A thread's agenda is its latest event or call, or what is left of it.
LEMMA WorkersNext ==
  ASSUME CauseInv, [Next]_vars, NEW t \in Workers
  PROVE  WorkerAgenda(t)' /\ Reported(t)'
<1> USE DEF CauseInv
<1>1. t \in Threads /\ t # Loop /\ RunOf(t) \in Runs
  BY ThreadFacts
<1>2. \A kind : Latest(t, kind).run \in Runs
  BY <1>1 DEF Latest, Note
<1>3. FilesGrow
  BY FilesGrowNext
<1>4. ASSUME agenda'[t] = agenda[t], done'[t] = done[t]  PROVE WorkerAgenda(t)' /\ Reported(t)'
  <2>1. LatestNotify(t)' = LatestNotify(t) /\ \A kind : Latest(t, kind)' = Latest(t, kind)
    BY <1>4 DEF Latest, LatestNotify
  <2>2. WorkerAgenda(t)'
    BY <1>4, <2>1 DEF WorkerAgenda
  <2>3. ASSUME NEW y, y.run \in Runs, Has(y)  PROVE Has(y)'
    BY <1>3, <2>3, HasKept
  <2>5. Reported(t)'
    <3> SUFFICES ASSUME done'[t] > 0
                 PROVE  \E y \in Lasts(RunOf(t), t[2], done'[t]) :
                          Has(y)' \/ \E i \in 1..Len(agenda'[t]) : agenda'[t][i] = y
      BY DEF Reported
    <3>1. PICK y \in Lasts(RunOf(t), t[2], done[t]) : Has(y) \/ \E i \in 1..Len(agenda[t]) : agenda[t][i] = y
      BY <1>4 DEF Reported
    <3>2. y.run \in Runs
      BY <1>1, <3>1 DEF Lasts, Note
    <3>3. Has(y) => Has(y)'
      BY <2>3, <3>2
    <3> QED
      BY <1>4, <3>1, <3>3
  <2> QED
    BY <2>2, <2>5
<1>5. ASSUME Write(t)  PROVE WorkerAgenda(t)' /\ Reported(t)'
  <2>1. PICK head : head = agenda[t][1]
    OBVIOUS
  <2>2. PICK new : new = [note |-> head, stamp |-> stamp[t]]
    OBVIOUS
  <2>3. /\ agenda[t] # << >> /\ head.do = "record" /\ head.run \in Runs /\ done' = done
        /\ file' = [file EXCEPT ![head.run] = @ \cup {new}]
    BY <1>1, <1>5, <2>1, <2>2, WriteShape DEF Splices
  <2>4. agenda'[t] = Tail(agenda[t])
    BY <1>1, <1>5 DEF Write, Typed
  <2>5. LatestNotify(t)' = LatestNotify(t) /\ \A kind : Latest(t, kind)' = Latest(t, kind)
    BY <2>3 DEF Latest, LatestNotify
  <2>6. Has(head)'
    BY <2>2, <2>3 DEF Has, Typed
  <2>11. \A kind \in {"CORE", "LLM_TO_CORE", "TOOL"} : Latest(t, kind)' \in Lasts(RunOf(t), t[2], done'[t])
    BY DEF Latest, Lasts
  <2>7. CASE agenda[t] = <<Latest(t, "CORE"), LatestNotify(t)>>
    <3>1. agenda'[t] = <<LatestNotify(t)>> /\ head = Latest(t, "CORE")
      BY <2>1, <2>4, <2>7
    <3>2. Reported(t)'
      BY <2>5, <2>6, <2>11, <3>1 DEF Reported
    <3> QED
      BY <2>5, <3>1, <3>2 DEF WorkerAgenda
  <2>8. CASE agenda[t] = <<Latest(t, "CORE_TO_LLM"), Latest(t, "LLM_TO_CORE")>>
    <3>1. agenda'[t] = <<Latest(t, "LLM_TO_CORE")>>
      BY <2>4, <2>8
    <3>2. 1 \in 1..Len(agenda'[t]) /\ agenda'[t][1] = Latest(t, "LLM_TO_CORE")'
      BY <2>5, <3>1
    <3>3. Reported(t)'
      BY <2>11, <3>2 DEF Reported
    <3> QED
      BY <2>5, <3>1, <3>3 DEF WorkerAgenda
  <2>9. CASE agenda[t] = <<Latest(t, "LLM_TO_CORE")>>
    <3>1. agenda'[t] = << >> /\ head = Latest(t, "LLM_TO_CORE")
      BY <2>1, <2>4, <2>9
    <3>2. Reported(t)'
      BY <2>5, <2>6, <2>11, <3>1 DEF Reported
    <3> QED
      BY <2>5, <3>1, <3>2 DEF WorkerAgenda
  <2>12. CASE agenda[t] = <<Latest(t, "TOOL")>>
    <3>1. agenda'[t] = << >> /\ head = Latest(t, "TOOL")
      BY <2>1, <2>4, <2>12
    <3>2. Reported(t)'
      BY <2>5, <2>6, <2>11, <3>1 DEF Reported
    <3> QED
      BY <2>5, <3>1, <3>2 DEF WorkerAgenda
  <2>10. agenda[t] # <<LatestNotify(t)>>
    BY <2>1, <2>3 DEF LatestNotify, Callback
  <2> QED
    BY <2>3, <2>7, <2>8, <2>9, <2>10, <2>12 DEF WorkerAgenda
<1>6. ASSUME Notify(t)  PROVE WorkerAgenda(t)' /\ Reported(t)'
  <2>1. agenda[t] # << >> /\ agenda[t][1].do = "notify"
    BY <1>1, <1>6, HeadItem DEF Notify
  <2>2. agenda[t] = <<LatestNotify(t)>>
    BY <2>1 DEF WorkerAgenda, Latest, Note
  <2>3. agenda'[t] = Tail(agenda[t]) /\ UNCHANGED <<done, file>>
    <3>1. << >> \o Tail(agenda[t]) \o << >> = Tail(agenda[t])
      BY <1>1, <2>1, Popped, ConcatEmptySeq DEF Typed
    <3> QED
      BY <1>1, <1>6, <3>1, NotifyShape DEF Splices
  <2>4. agenda'[t] = << >>
    BY <2>2, <2>3
  <2>5. LatestNotify(t)' = LatestNotify(t) /\ \A kind : Latest(t, kind)' = Latest(t, kind)
    BY <2>3 DEF Latest, LatestNotify
  <2>6. Reported(t)'
    <3> SUFFICES ASSUME done[t] > 0  PROVE \E y \in Lasts(RunOf(t), t[2], done[t]) : Has(y)'
      BY <2>3 DEF Reported
    <3>1. Len(agenda[t]) = 1 /\ agenda[t][1] = LatestNotify(t)
      BY <2>2
    <3>2. LatestNotify(t) \notin Lasts(RunOf(t), t[2], done[t])
      BY DEF LatestNotify, Lasts, Note, Callback
    <3>3. PICK y \in Lasts(RunOf(t), t[2], done[t]) : Has(y)
      BY <3>1, <3>2 DEF Reported
    <3> QED
      BY <2>3, <3>3 DEF Has
  <2> QED
    BY <2>4, <2>6 DEF WorkerAgenda
<1>7. ASSUME Publish(t) \/ Chat(t) \/ Audit(t)  PROVE WorkerAgenda(t)' /\ Reported(t)'
  <2>3. \A kind \in {"CORE", "LLM_TO_CORE", "TOOL"} : Latest(t, kind)' \in Lasts(RunOf(t), t[2], done'[t])
    BY DEF Latest, Lasts
  <2>1. CASE agenda'[t] = <<Latest(t, "CORE")', LatestNotify(t)'>>
    <3>1. 1 \in 1..Len(agenda'[t]) /\ agenda'[t][1] = Latest(t, "CORE")'
      BY <2>1
    <3>2. Reported(t)'
      BY <2>3, <3>1 DEF Reported
    <3> QED
      BY <2>1, <3>2 DEF WorkerAgenda
  <2>2. CASE agenda'[t] = <<Latest(t, "CORE_TO_LLM")', Latest(t, "LLM_TO_CORE")'>>
    <3>1. 2 \in 1..Len(agenda'[t]) /\ agenda'[t][2] = Latest(t, "LLM_TO_CORE")'
      BY <2>2
    <3>2. Reported(t)'
      BY <2>3, <3>1 DEF Reported
    <3> QED
      BY <2>2, <3>2 DEF WorkerAgenda
  <2>4. CASE agenda'[t] = <<Latest(t, "TOOL")'>>
    <3>1. 1 \in 1..Len(agenda'[t]) /\ agenda'[t][1] = Latest(t, "TOOL")'
      BY <2>4
    <3>2. Reported(t)'
      BY <2>3, <3>1 DEF Reported
    <3> QED
      BY <2>4, <3>2 DEF WorkerAgenda
  <2> QED
    BY <1>7, <2>1, <2>2, <2>4, MadeShape
<1>8. ASSUME NEW u \in Threads \ {t}, Write(u) \/ Notify(u)  PROVE agenda'[t] = agenda[t] /\ done' = done
  <2>1. CASE Write(u)
    BY <1>1, <2>1, WriteShape
  <2>2. CASE Notify(u)
    BY <1>1, <1>8, <2>2, NotifyShape DEF LoopSplices, Notify
  <2> QED
    BY <1>8, <2>1, <2>2
<1>9. ASSUME NEW u \in Workers \ {t}, Publish(u) \/ Chat(u) \/ Audit(u)
      PROVE  agenda'[t] = agenda[t] /\ done'[t] = done[t]
  BY <1>1, <1>9, MadeShape
<1>10. ASSUME NEW r \in Runs, Request(r) \/ RunRaises(r)  PROVE agenda'[t] = agenda[t] /\ done' = done
  BY <1>10, AppendShape DEF Request, RunRaises
<1>11. ASSUME Handle \/ Start \/ Report \/ Push  PROVE agenda'[t] = agenda[t] /\ done' = done
  BY <1>11, HandleShape, StartShape, ReportShape, PushShape DEF LoopSplices
<1>12. \/ UNCHANGED <<agenda, done>>
       \/ \E u \in Threads : Write(u) \/ Notify(u)
       \/ \E u \in Workers : Publish(u) \/ Chat(u) \/ Audit(u)
       \/ \E r \in Runs : Request(r) \/ RunRaises(r)
       \/ Handle \/ Start \/ Report \/ Push
  BY DEF Next, Tick, TakeNumber, TakeTime, Remember, vars
<1> QED
  BY <1>4, <1>5, <1>6, <1>7, <1>8, <1>9, <1>10, <1>11, <1>12

\* Causes come before effects, in every reachable state.
LEMMA CauseInvHolds == Spec => []CauseInv
<1>1. Init => CauseInv
  <2> SUFFICES ASSUME Init  PROVE CauseInv
    OBVIOUS
  <2>1. Typed
    BY InitTyped
  <2>2. \A t \in Threads : agenda[t] = << >> /\ Len(agenda[t]) = 0 /\ stamp[t] = Unstamped
    BY DEF Init
  <2>3. Stamped
    BY <2>2 DEF Init, Stamped, Unstamped
  <2>4. LoopItems /\ \A t \in Threads : Caused(t)
    BY <2>2, ThreadFacts DEF LoopItems, Caused
  <2>5. \A t \in Workers : WorkerAgenda(t) /\ Reported(t)
    BY <2>2, ThreadFacts DEF WorkerAgenda, Reported, Init
  <2>6. CausesRead /\ Opened
    BY DEF Init, CausesRead, Opened, Begun
  <2> QED
    BY <2>1, <2>3, <2>4, <2>5, <2>6 DEF CauseInv
<1>2. CauseInv /\ [Next]_vars => CauseInv'
  <2> SUFFICES ASSUME CauseInv, [Next]_vars  PROVE CauseInv'
    OBVIOUS
  <2>1. Typed' /\ Stamped'
    BY WellTyped, StampedNext DEF CauseInv
  <2> QED
    BY <2>1, CausedNext, CausesReadNext, OpenedNext, LoopItemsNext, WorkersNext DEF CauseInv
<1> QED
  BY <1>1, <1>2, PTL DEF Spec

-------------------------------------------------------------------------------
(* The order of the loop's agenda.                                         *)

\* f fits before the rest of the agenda, and b behind it.
FitsAround(f, b) ==
  /\ InOrder(f) /\ InOrder(b)
  /\ \A k \in 1..Len(f) : \A i \in 2..Len(agenda[Loop]) : Beside(f[k], agenda[Loop][i])
  /\ \A k \in 1..Len(f) : \A m \in 1..Len(b) : Beside(f[k], b[m])
  /\ \A i \in 2..Len(agenda[Loop]) : \A m \in 1..Len(b) : Beside(agenda[Loop][i], b[m])

\* A splice keeps the order when what comes fits around the rest ...
LEMMA InOrderSplice ==
  ASSUME Typed, InOrder(agenda[Loop]), NEW f, NEW b, Splices(Loop, f, b), FitsAround(f, b)
  PROVE  InOrder(agenda[Loop])'
<1> PICK s, u : s = agenda[Loop] /\ u = agenda'[Loop]
  OBVIOUS
<1>1. /\ s \in Seq(Items) /\ s # << >> /\ f \in Seq(Items) /\ b \in Seq(Items)
      /\ u = f \o Tail(s) \o b
  BY ThreadFacts DEF Typed, Splices
<1>2. IsSplice(u, s, f, b)
  BY <1>1, Spliced
<1>3. /\ Len(u) = Len(f) + Len(s) - 1 + Len(b)
      /\ \A k \in 1..Len(f) : u[k] = f[k]
      /\ \A i \in 2..Len(s) : u[Len(f) + i - 1] = s[i]
      /\ \A m \in 1..Len(b) : u[Len(f) + Len(s) - 1 + m] = b[m]
      /\ \A k \in 1..Len(u) : \/ k \in 1..Len(f)
                              \/ \E i \in 2..Len(s) : k = Len(f) + i - 1
                              \/ \E m \in 1..Len(b) : k = Len(f) + Len(s) - 1 + m
  BY <1>2 DEF IsSplice
<1>4. Len(f) \in Nat /\ Len(s) \in Nat /\ Len(s) > 0 /\ Len(b) \in Nat
  BY <1>1, Popped
<1>5. /\ \A i, j \in 1..Len(f) : i < j => Beside(f[i], f[j])
      /\ \A i, j \in 1..Len(b) : i < j => Beside(b[i], b[j])
      /\ \A i, j \in 1..Len(s) : i < j => Beside(s[i], s[j])
      /\ \A k \in 1..Len(f) : \A i \in 2..Len(s) : Beside(f[k], s[i])
      /\ \A k \in 1..Len(f) : \A m \in 1..Len(b) : Beside(f[k], b[m])
      /\ \A i \in 2..Len(s) : \A m \in 1..Len(b) : Beside(s[i], b[m])
  BY DEF FitsAround, InOrder
<1>6. ASSUME NEW k \in 1..Len(u), NEW l \in 1..Len(u), k < l  PROVE Beside(u[k], u[l])
  <2>1. CASE k \in 1..Len(f)
    <3>1. CASE l \in 1..Len(f)
      BY <1>3, <1>5, <1>6, <2>1, <3>1
    <3>2. ASSUME NEW i \in 2..Len(s), l = Len(f) + i - 1  PROVE Beside(u[k], u[l])
      BY <1>3, <1>5, <2>1, <3>2
    <3>3. ASSUME NEW m \in 1..Len(b), l = Len(f) + Len(s) - 1 + m  PROVE Beside(u[k], u[l])
      BY <1>3, <1>5, <2>1, <3>3
    <3> QED
      BY <1>3, <3>1, <3>2, <3>3
  <2>2. ASSUME NEW h \in 2..Len(s), k = Len(f) + h - 1  PROVE Beside(u[k], u[l])
    <3>1. l \notin 1..Len(f)
      BY <1>4, <1>6, <2>2
    <3>2. ASSUME NEW i \in 2..Len(s), l = Len(f) + i - 1  PROVE Beside(u[k], u[l])
      <4>1. h \in 1..Len(s) /\ i \in 1..Len(s) /\ h < i
        BY <1>4, <1>6, <2>2, <3>2
      <4>2. u[k] = s[h] /\ u[l] = s[i]
        BY <1>3, <2>2, <3>2
      <4> QED
        BY <1>5, <4>1, <4>2
    <3>3. ASSUME NEW m \in 1..Len(b), l = Len(f) + Len(s) - 1 + m  PROVE Beside(u[k], u[l])
      <4>1. u[k] = s[h] /\ u[l] = b[m]
        BY <1>3, <2>2, <3>3
      <4> QED
        BY <1>5, <4>1
    <3> QED
      BY <1>3, <3>1, <3>2, <3>3
  <2>3. ASSUME NEW h \in 1..Len(b), k = Len(f) + Len(s) - 1 + h  PROVE Beside(u[k], u[l])
    <3>3. l \notin 1..Len(f)
      BY <1>4, <1>6, <2>3
    <3>4. \A i \in 2..Len(s) : l # Len(f) + i - 1
      BY <1>4, <1>6, <2>3
    <3>1. PICK m \in 1..Len(b) : l = Len(f) + Len(s) - 1 + m
      BY <1>3, <1>6, <3>3, <3>4
    <3>2. h < m /\ u[k] = b[h] /\ u[l] = b[m]
      <4>1. u[k] = b[h] /\ u[l] = b[m]
        BY <1>3, <2>3, <3>1
      <4>2. h < m
        BY <1>4, <1>6, <2>3, <3>1
      <4> QED
        BY <4>1, <4>2
    <3> QED
      BY <1>5, <3>2
  <2> QED
    BY <1>3, <2>1, <2>2, <2>3
<1> QED
  BY <1>6 DEF InOrder

\* ... and an append when the item may be behind all others.
LEMMA InOrderAppend ==
  ASSUME Typed, InOrder(agenda[Loop]), NEW x, LoopAppends(x),
         \A i \in 1..Len(agenda[Loop]) : Beside(agenda[Loop][i], x)
  PROVE  InOrder(agenda[Loop])'
<1> PICK s, u : s = agenda[Loop] /\ u = agenda'[Loop]
  OBVIOUS
<1>1. s \in Seq(Items) /\ x \in Items /\ u = Append(s, x)
  BY ThreadFacts DEF Typed, LoopAppends
<1>2. /\ Len(s) \in Nat /\ Len(u) = Len(s) + 1 /\ u[Len(s) + 1] = x
      /\ \A i \in 1..Len(s) : u[i] = s[i]
  BY <1>1, Appended
<1>3. ASSUME NEW i \in 1..Len(u), NEW j \in 1..Len(u), i < j  PROVE Beside(u[i], u[j])
  <2>1. i \in 1..Len(s)
    BY <1>2, <1>3
  <2>2. CASE j \in 1..Len(s)
    BY <1>2, <1>3, <2>1, <2>2 DEF InOrder
  <2>3. CASE j = Len(s) + 1
    BY <1>2, <2>1, <2>3
  <2> QED
    BY <1>2, <2>2, <2>3
<1> QED
  BY <1>3 DEF InOrder

\* The head is in order with what follows it.
LEMMA HeadBeside ==
  ASSUME Typed, InOrder(agenda[Loop]), agenda[Loop] # << >>, NEW i \in 2..Len(agenda[Loop])
  PROVE  Beside(agenda[Loop][1], agenda[Loop][i])
<1>1. 1 \in 1..Len(agenda[Loop]) /\ i \in 1..Len(agenda[Loop]) /\ 1 < i
  BY Popped, ThreadFacts DEF Typed
<1> QED
  BY <1>1 DEF InOrder

-------------------------------------------------------------------------------
(* What is on the loop's agenda still fits.                                *)

\* A thread's count does not change but for a new event or call.
LEMMA WorkerSteps ==
  ASSUME CauseInv, [Next]_vars, NEW t \in Workers
  PROVE  \/ done'[t] = done[t] /\ (Notifies(t)' => Notifies(t))
         \/ done'[t] = done[t] + 1
<1> USE DEF CauseInv
<1>1. t \in Threads /\ t # Loop
  BY ThreadFacts
<1>2. CASE agenda'[t] = agenda[t] /\ done' = done
  BY <1>2 DEF Notifies
<1>3. CASE agenda[t] # << >> /\ agenda'[t] = Tail(agenda[t]) /\ done' = done
  <2>1. PICK s, u : s = agenda[t] /\ u = agenda'[t]
    OBVIOUS
  <2>2. s \in Seq(Items) /\ s # << >> /\ u = Tail(s)
    BY <1>1, <1>3, <2>1 DEF Typed
  <2>3. \A i \in 1..Len(u) : u[i] = s[i + 1] /\ i + 1 \in 1..Len(s)
    BY <2>2, Popped
  <2>4. (\E i \in 1..Len(u) : u[i].do = "notify") => \E i \in 1..Len(s) : s[i].do = "notify"
    BY <2>3
  <2> QED
    BY <1>3, <2>1, <2>4 DEF Notifies
<1>4. ASSUME NEW u \in Threads, Write(u)
      PROVE  \/ agenda'[t] = agenda[t] /\ done' = done
             \/ agenda[t] # << >> /\ agenda'[t] = Tail(agenda[t]) /\ done' = done
  <2>1. CASE u = t
    <3>1. agenda'[t] = Tail(agenda[t])
      BY <1>1, <1>4, <2>1 DEF Write, Typed
    <3> QED
      BY <1>4, <2>1, <3>1, WriteShape DEF Splices
  <2>2. CASE u # t
    BY <1>1, <1>4, <2>2, WriteShape
  <2> QED
    BY <2>1, <2>2
<1>5. ASSUME NEW u \in Threads, Notify(u)
      PROVE  \/ agenda'[t] = agenda[t] /\ done' = done
             \/ agenda[t] # << >> /\ agenda'[t] = Tail(agenda[t]) /\ done' = done
  <2>1. done' = done
    BY <1>5 DEF Notify
  <2>2. CASE u = t
    <3>1. agenda[t] # << >> /\ agenda'[t] = << >> \o Tail(agenda[t]) \o << >>
      BY <1>1, <1>5, <2>2, NotifyShape DEF Splices
    <3>2. << >> \o Tail(agenda[t]) \o << >> = Tail(agenda[t])
      BY <1>1, <3>1, Popped, ConcatEmptySeq DEF Typed
    <3> QED
      BY <2>1, <3>1, <3>2
  <2>3. CASE u # t
    BY <1>1, <1>5, <2>1, <2>3, NotifyShape DEF LoopSplices
  <2> QED
    BY <2>2, <2>3
<1>6. ASSUME NEW u \in Workers, Publish(u) \/ Chat(u) \/ Audit(u)
      PROVE  (agenda'[t] = agenda[t] /\ done'[t] = done[t]) \/ done'[t] = done[t] + 1
  BY <1>1, <1>6, MadeShape
<1>7. ASSUME NEW r \in Runs, Request(r) \/ RunRaises(r)  PROVE agenda'[t] = agenda[t] /\ done' = done
  BY <1>7, AppendShape DEF Request, RunRaises
<1>8. ASSUME Handle \/ Start \/ Report \/ Push  PROVE agenda'[t] = agenda[t] /\ done' = done
  BY <1>8, HandleShape, StartShape, ReportShape, PushShape DEF LoopSplices
<1>9. \/ UNCHANGED <<agenda, done>>
      \/ \E u \in Threads : Write(u) \/ Notify(u)
      \/ \E u \in Workers : Publish(u) \/ Chat(u) \/ Audit(u)
      \/ \E r \in Runs : Request(r) \/ RunRaises(r)
      \/ Handle \/ Start \/ Report \/ Push
  BY DEF Next, Tick, TakeNumber, TakeTime, Remember, vars
<1>10. ASSUME agenda'[t] = agenda[t] /\ done'[t] = done[t]
       PROVE  done'[t] = done[t] /\ (Notifies(t)' => Notifies(t))
  BY <1>10 DEF Notifies
<1> QED
  BY <1>2, <1>3, <1>4, <1>5, <1>6, <1>7, <1>8, <1>9, <1>10

\* A delivery stays one of an event that was handed to the loop.
LEMMA DeliveredNext ==
  ASSUME CauseInv, [Next]_vars, NEW x \in Items, Delivered(x)
  PROVE  Delivered(x)'
<1> SUFFICES ASSUME NEW t \in Workers, x.run = RunOf(t), x.by = t[2]
             PROVE  (x.n <= done[t] /\ (Notifies(t) => x.n < done[t]))'
  BY DEF Delivered
<1>1. x.n <= done[t] /\ (Notifies(t) => x.n < done[t])
  BY DEF Delivered
<1>2. x.n \in Nat /\ done[t] \in Nat
  BY DEF Items, CauseInv, Typed
<1> QED
  BY <1>1, <1>2, WorkerSteps

\* The run of x may go on as long as x still fits its phase.
LEMMA FitsPhase ==
  ASSUME CauseInv, [Next]_vars, NEW x \in Items, Fits(x), file'[x.run] = file[x.run],
         \/ phase'[x.run] = phase[x.run]
         \/ /\ x.do \notin {"request", "start"} /\ (x.by = "task" => phase'[x.run] \in Over)
            /\ phase'[x.run] # "none"
  PROVE  Fits(x)'
<1>1. IsDelivery(x) => Delivered(x)'
  BY DeliveredNext DEF Fits
<1> QED
  BY <1>1 DEF Fits

\* Another run's entry, or one that comes before x.
LEMMA FitsEntry ==
  ASSUME CauseInv, [Next]_vars, NEW x \in Items, Fits(x), phase' = phase, NEW d,
         file' = [file EXCEPT ![d.note.run] = @ \cup {d}],
         x.run = d.note.run =>
           /\ x.do # "request" /\ x.kind # "CLIENT_TO_CORE"
           /\ x.by = "reply" => d.note = RequestNote(x.run)
           /\ x.do = "report" => d.note.by # "task"
           /\ (IsDelivery(x) \/ x.do = "notify")
                /\ IsDelivery(d.note) /\ d.note.by = x.by /\ (x.do = "record" => d.note.client = x.client)
              => d.note.n < x.n
  PROVE  Fits(x)'
<1>1. IsDelivery(x) => Delivered(x)'
  BY DeliveredNext DEF Fits
<1>2. x.run \in Runs
  BY DEF Items
<1>3. CASE x.run # d.note.run
  <2>1. file'[x.run] = file[x.run]
    BY <1>2, <1>3 DEF CauseInv, Typed
  <2> QED
    BY <2>1, FitsPhase
<1>4. CASE x.run = d.note.run
  <2>1. file'[x.run] = file[x.run] \cup {d}
    BY <1>2, <1>4 DEF CauseInv, Typed
  <2> QED
    BY <1>1, <1>4, <2>1 DEF Fits
<1> QED
  BY <1>3, <1>4

\* Request and reply are the first entries of a run.
LEMMA OpensFile ==
  ASSUME CauseInv, NEW t \in Threads, agenda[t] # << >>, agenda[t][1].do = "record",
         NEW head, head = agenda[t][1]
  PROVE  /\ head.run \in Runs
         /\ head # RequestNote(head.run) => Has(RequestNote(head.run))
         /\ head \notin {RequestNote(head.run), ReplyNote(head.run)} =>
              Has(ReplyNote(head.run)) /\ head.by \in Sources
<1> USE DEF CauseInv
<1>1. \A alt \in Required(head) : \E y \in alt : Has(y)
  BY HeadCaused
<1>2. \/ head = RequestNote(head.run) \/ head = ReplyNote(head.run)
      \/ head.by \in Sources /\ RequestAndReply(head.run) \subseteq Required(head)
  <2>1. CASE t = Loop
    <3>1. LoopItem(head)
      BY <2>1, HeadIsItem
    <3>2. ASSUME NEW r \in Runs, NEW n \in Nat, head = Note("CORE", r, "task", n, NoOne), r = head.run
          PROVE  RequestAndReply(r) \subseteq Required(head) /\ head.by \in Sources
      <4>1. RequestAndReply(r) \subseteq Required(head)
        BY <3>2, RequiredOf DEF Sources
      <4>2. head.by = "task"
        BY <3>2 DEF Note
      <4> QED
        BY <4>1, <4>2 DEF Sources
    <3>3. ASSUME NEW r \in Runs, NEW by \in Sources, NEW n \in Nat, NEW c \in Clients,
                 head = Note("CORE_TO_CLIENT", r, by, n, c), r = head.run
          PROVE  RequestAndReply(r) \subseteq Required(head) /\ head.by \in Sources
      <4>1. RequestAndReply(r) \subseteq Required(head)
        BY <3>3, RequiredOf
      <4>2. head.by = by
        BY <3>3 DEF Note
      <4> QED
        BY <4>1, <4>2
    <3> QED
      BY <3>1, <3>2, <3>3, LoopHead
  <2>2. CASE t \in Workers
    <3>1. RunOf(t) \in Runs /\ t[2] \in Sources /\ done[t] \in Nat
      BY <2>2, ThreadFacts DEF Sources, Typed
    <3>2. PICK kind \in {"CORE", "CORE_TO_LLM", "LLM_TO_CORE", "TOOL"} : head = Note(kind, RunOf(t), t[2], done[t], NoOne)
      <4>1. agenda[t][1].do = "record" /\ agenda[t] # << >>
        OBVIOUS
      <4> QED
        BY <2>2, <4>1 DEF WorkerAgenda, Latest, LatestNotify, Callback
    <3>3. head.run = RunOf(t) /\ head.by = t[2]
      BY <3>2 DEF Note
    <3>4. RequestAndReply(RunOf(t)) \subseteq Required(head)
      BY <3>1, <3>2, RequiredOf
    <3> QED
      BY <3>1, <3>3, <3>4
  <2> QED
    BY <2>1, <2>2 DEF Threads
<1>3. head.run \in Runs
  <2>1. agenda[t][1] \in Items
    BY Popped DEF Typed
  <2> QED
    BY <2>1 DEF Items
<1>4. ASSUME head = ReplyNote(head.run)  PROVE Has(RequestNote(head.run))
  <2>1. PICK r : r = head.run
    OBVIOUS
  <2>2. Required(ReplyNote(r)) = {{RequestNote(r)}}
    BY <1>3, <2>1, RequiredOf DEF Sources
  <2>3. {RequestNote(r)} \in Required(head)
    BY <1>4, <2>1, <2>2
  <2>4. Has(RequestNote(r))
    BY <1>1, <2>3
  <2> QED
    BY <2>1, <2>4
<1>5. ASSUME RequestAndReply(head.run) \subseteq Required(head)
      PROVE  Has(RequestNote(head.run)) /\ Has(ReplyNote(head.run))
  <2>1. PICK y, z : y = RequestNote(head.run) /\ z = ReplyNote(head.run)
    OBVIOUS
  <2>2. {y} \in Required(head) /\ {z} \in Required(head)
    BY <1>5, <2>1 DEF RequestAndReply
  <2>3. Has(y) /\ Has(z)
    BY <1>1, <2>2
  <2> QED
    BY <2>1, <2>3
<1> QED
  BY <1>2, <1>3, <1>4, <1>5

Elements(f) == {f[i] : i \in 1..Len(f)}
Rest == {agenda[Loop][i] : i \in 2..Len(agenda[Loop])}

\* What waits behind the head of the loop's agenda fits, and may be there.
LEMMA RestFacts ==
  ASSUME CauseInv, LoopInOrder, agenda[Loop] # << >>, NEW x \in Rest
  PROVE  x \in Items /\ LoopItem(x) /\ Fits(x) /\ Beside(agenda[Loop][1], x)
<1>1. PICK i \in 2..Len(agenda[Loop]) : x = agenda[Loop][i]
  BY DEF Rest
<1>2. i \in 1..Len(agenda[Loop]) /\ agenda[Loop] \in Seq(Items)
  BY ThreadFacts, Popped DEF CauseInv, Typed
<1>3. x \in Items
  BY <1>1, <1>2, ElementOfSeq
<1>4. Beside(agenda[Loop][1], x)
  BY <1>1, HeadBeside DEF CauseInv, LoopInOrder
<1> QED
  BY <1>1, <1>2, <1>3, <1>4 DEF CauseInv, LoopItems, LoopInOrder

\* What is on the loop's agenda fits.
LEMMA ElementFacts ==
  ASSUME CauseInv, LoopInOrder, NEW x \in Elements(agenda[Loop])
  PROVE  x \in Items /\ LoopItem(x) /\ Fits(x)
<1>1. PICK i \in 1..Len(agenda[Loop]) : x = agenda[Loop][i]
  BY DEF Elements
<1>2. x \in Items
  BY <1>1, ElementOfSeq, ThreadFacts DEF CauseInv, Typed
<1> QED
  BY <1>1, <1>2 DEF CauseInv, LoopItems, LoopInOrder

\* What a splice must show to keep LoopInOrder ...
LEMMA LoopSpliced ==
  ASSUME CauseInv, LoopInOrder, NEW f, NEW b, Splices(Loop, f, b), FitsAround(f, b),
         \A x \in Rest : Fits(x)', \A x \in Elements(f) \cup Elements(b) : Fits(x)'
  PROVE  LoopInOrder'
<1>1. ASSUME NEW k \in 1..Len(agenda'[Loop])
      PROVE  agenda'[Loop][k] \in Rest \cup Elements(f) \cup Elements(b)
  BY SplicedItems, ThreadFacts DEF CauseInv, Rest, Elements
<1>2. InOrder(agenda[Loop])'
  BY InOrderSplice DEF CauseInv, LoopInOrder
<1>3. \A k \in 1..Len(agenda'[Loop]) : Fits(agenda[Loop][k])'
  BY <1>1
<1> QED
  BY <1>2, <1>3 DEF LoopInOrder

\* ... and what an append must.
LEMMA LoopAppended ==
  ASSUME CauseInv, LoopInOrder, NEW x, LoopAppends(x), Fits(x)',
         \A y \in Elements(agenda[Loop]) : Fits(y)' /\ Beside(y, x)
  PROVE  LoopInOrder'
<1>1. /\ Len(agenda[Loop]) \in Nat /\ Len(agenda'[Loop]) = Len(agenda[Loop]) + 1
      /\ agenda'[Loop][Len(agenda[Loop]) + 1] = x
      /\ \A i \in 1..Len(agenda[Loop]) : agenda'[Loop][i] = agenda[Loop][i]
  BY Appended, ThreadFacts DEF CauseInv, Typed, LoopAppends
<1>2. ASSUME NEW k \in 1..Len(agenda'[Loop])
      PROVE  agenda'[Loop][k] \in Elements(agenda[Loop]) \cup {x}
  <2>1. CASE k \in 1..Len(agenda[Loop])
    BY <1>1, <2>1 DEF Elements
  <2>2. CASE k = Len(agenda[Loop]) + 1
    BY <1>1, <2>2
  <2> QED
    BY <1>1, <2>1, <2>2
<1>3. InOrder(agenda[Loop])'
  BY InOrderAppend DEF CauseInv, LoopInOrder, Elements
<1>4. \A k \in 1..Len(agenda'[Loop]) : Fits(agenda[Loop][k])'
  BY <1>2
<1> QED
  BY <1>3, <1>4 DEF LoopInOrder

\* An entry written leaves the items behind it in time.
LEMMA FitsWrite ==
  ASSUME CauseInv, [Next]_vars, NEW t \in Threads, Write(t), NEW x \in Items, LoopItem(x), Fits(x),
         t = Loop => Beside(agenda[t][1], x)
  PROVE  Fits(x)'
<1> USE DEF CauseInv
<1>1. PICK head : head = agenda[t][1]
  OBVIOUS
<1>2. PICK d : d = [note |-> head, stamp |-> stamp[t]]
  OBVIOUS
<1>3. /\ agenda[t] # << >> /\ head.do = "record" /\ head.run \in Runs /\ phase' = phase
      /\ file' = [file EXCEPT ![head.run] = @ \cup {d}]
  BY <1>1, <1>2, WriteShape DEF Splices
<1>4. d.note = head
  BY <1>2
<1>5. PICK r : r = head.run
  OBVIOUS
<1>6. /\ head # RequestNote(r) => Has(RequestNote(r))
      /\ head \notin {RequestNote(r), ReplyNote(r)} => Has(ReplyNote(r)) /\ head.by \in Sources
  BY <1>1, <1>3, <1>5, OpensFile
<1>7. ASSUME t \in Workers  PROVE head.by \in {"run", "refresh"} /\ head.kind # "CORE_TO_CLIENT"
  <2>1. t[2] \in {"run", "refresh"}
    BY <1>7, ThreadFacts
  <2>2. \E kind \in {"CORE", "CORE_TO_LLM", "LLM_TO_CORE", "TOOL"} : head = Latest(t, kind)
    BY <1>1, <1>3, <1>7 DEF WorkerAgenda, LatestNotify, Callback
  <2> QED
    BY <2>1, <2>2 DEF Latest, Note
<1>8. ASSUME head = RequestNote(r) \/ head = ReplyNote(r)  PROVE t = Loop
  BY <1>7, <1>8 DEF RequestNote, ReplyNote, Note, Threads
<1>9. ASSUME x.run = r
      PROVE  /\ x.do # "request" /\ x.kind # "CLIENT_TO_CORE"
             /\ x.by = "reply" => head = RequestNote(r)
             /\ x.do = "report" => head.by # "task"
             /\ (IsDelivery(x) \/ x.do = "notify")
                  /\ IsDelivery(head) /\ head.by = x.by /\ (x.do = "record" => head.client = x.client)
                => head.n < x.n
  <2>1. r \in Runs
    BY <1>3, <1>5
  <2>2. RequestNote(r).run = r /\ ReplyNote(r).run = r /\ RequestNote(r) # ReplyNote(r)
    BY DEF RequestNote, ReplyNote, Note
  <2>3. x.do # "request"
    <3> SUFFICES ASSUME x.do = "request"  PROVE FALSE
      OBVIOUS
    <3>1. x = Callback("request", r, "client", 0) /\ file[r] = {}
      BY <1>9, LoopHead DEF Fits
    <3>2. head = RequestNote(r)
      BY <1>6, <2>2, <3>1 DEF Has
    <3>3. head \notin Opening(r)
      BY <1>1, <1>8, <2>1, <3>1, <3>2 DEF Beside, Compatible
    <3> QED
      BY <3>2, <3>3 DEF Opening
  <2>4. x.kind # "CLIENT_TO_CORE"
    <3> SUFFICES ASSUME x.kind = "CLIENT_TO_CORE"  PROVE FALSE
      OBVIOUS
    <3>1. x = RequestNote(r) /\ file[r] = {}
      BY <1>9, LoopKinds DEF Fits
    <3>2. head = RequestNote(r)
      BY <1>6, <2>2, <3>1 DEF Has
    <3>3. head \notin Opening(r)
      BY <1>1, <1>8, <2>1, <3>1, <3>2 DEF Beside, Compatible
    <3> QED
      BY <3>2, <3>3 DEF Opening
  <2>5. ASSUME x.by = "reply"  PROVE head = RequestNote(r)
    <3>1. x = ReplyNote(r)
      BY <1>9, <2>5, LoopKinds
    <3>2. \A e \in file[r] : e.note = RequestNote(r)
      BY <1>9, <2>5 DEF Fits
    <3>3. ~Has(ReplyNote(r))
      BY <2>2, <3>2 DEF Has
    <3>4. head # ReplyNote(r)
      <4> SUFFICES ASSUME head = ReplyNote(r)  PROVE FALSE
        OBVIOUS
      <4>1. head \notin Opening(r)
        BY <1>1, <1>8, <2>1, <3>1 DEF Beside, Compatible
      <4> QED
        BY <4>1 DEF Opening
    <3> QED
      BY <1>6, <3>3, <3>4
  <2>6. ASSUME x.do = "report"  PROVE head.by # "task"
    <3>1. x = ReportOf(r)
      BY <1>9, <2>6, LoopHead
    <3>2. CASE t = Loop
      BY <1>1, <1>5, <2>1, <3>1, <3>2 DEF Beside, Compatible
    <3>3. CASE t \in Workers
      BY <1>7, <3>3
    <3> QED
      BY <3>2, <3>3 DEF Threads
  <2>7. ASSUME IsDelivery(x) \/ x.do = "notify", IsDelivery(head), head.by = x.by,
               x.do = "record" => head.client = x.client
        PROVE  head.n < x.n
    <3>1. t = Loop
      BY <1>3, <1>7, <2>7 DEF IsDelivery, Threads
    <3>2. Orderly(head, x) /\ head.run = x.run
      BY <1>1, <1>5, <1>9, <3>1 DEF Beside
    <3> QED
      BY <2>7, <3>2 DEF Orderly
  <2> QED
    BY <2>3, <2>4, <2>5, <2>6, <2>7
<1> QED
  BY <1>3, <1>4, <1>5, <1>9, FitsEntry

\* Nothing fits around everything.
LEMMA NothingAround == FitsAround(<< >>, << >>)
BY DEF FitsAround, InOrder

\* LoopInOrder survives each action: Write,
LEMMA LoopInOrderWrite ==
  ASSUME CauseInv, [Next]_vars, LoopInOrder, NEW t \in Threads, Write(t)
  PROVE  LoopInOrder'
<1>1. CASE t = Loop
  <2>1. Splices(Loop, << >>, << >>) /\ agenda[Loop] # << >>
    BY <1>1, WriteShape DEF CauseInv, Splices
  <2>2. \A x \in Rest : Fits(x)'
    BY <1>1, <2>1, RestFacts, FitsWrite
  <2>3. \A x \in Elements(<< >>) \cup Elements(<< >>) : Fits(x)'
    BY DEF Elements
  <2> QED
    BY <2>1, <2>2, <2>3, NothingAround, LoopSpliced
<1>2. CASE t # Loop
  <2>1. agenda'[Loop] = agenda[Loop]
    BY <1>2, WriteShape, ThreadFacts DEF CauseInv
  <2>2. \A x \in Elements(agenda[Loop]) : Fits(x)'
    BY <1>2, ElementFacts, FitsWrite
  <2>3. \A i \in 1..Len(agenda'[Loop]) : agenda'[Loop][i] \in Elements(agenda[Loop])
    BY <2>1 DEF Elements
  <2>4. \A i \in 1..Len(agenda'[Loop]) : Fits(agenda[Loop][i])'
    BY <2>2, <2>3
  <2> QED
    BY <2>1, <2>4 DEF LoopInOrder
<1> QED
  BY <1>1, <1>2

\* a step that leaves the loop's agenda alone,
LEMMA LoopSame ==
  ASSUME LoopInOrder, agenda'[Loop] = agenda[Loop], \A x \in Elements(agenda[Loop]) : Fits(x)'
  PROVE  LoopInOrder'
<1>1. \A i \in 1..Len(agenda'[Loop]) : agenda'[Loop][i] \in Elements(agenda[Loop])
  BY DEF Elements
<1>2. \A i \in 1..Len(agenda'[Loop]) : Fits(agenda[Loop][i])'
  BY <1>1
<1> QED
  BY <1>2 DEF LoopInOrder

\* Where no entry is written and no run goes on, all that fitted fits.
LEMMA FitsQuiet ==
  ASSUME CauseInv, [Next]_vars, UNCHANGED <<phase, file>>, NEW x \in Items, Fits(x)
  PROVE  Fits(x)'
BY FitsPhase

\* Remember,
LEMMA LoopInOrderRemember ==
  ASSUME CauseInv, [Next]_vars, LoopInOrder, NEW r \in Runs, Remember(r)
  PROVE  LoopInOrder'
<1>1. ASSUME NEW x \in Elements(agenda[Loop])  PROVE Fits(x)'
  <2>1. x \in Items /\ Fits(x) /\ x.run \in Runs
    BY ElementFacts DEF Items
  <2>2. phase[r] = "running" /\ phase' = [phase EXCEPT ![r] = "remembered"] /\ file' = file
    BY DEF Remember
  <2>3. CASE x.run = r
    <3>1. x.do \notin {"request", "start"} /\ x.by # "task"
      BY <2>1, <2>2, <2>3 DEF Fits, Over
    <3>2. phase'[x.run] # "none"
      BY <2>1, <2>2, <2>3 DEF CauseInv, Typed
    <3> QED
      BY <2>1, <2>2, <3>1, <3>2, FitsPhase
  <2>4. CASE x.run # r
    BY <2>1, <2>2, <2>4, FitsPhase DEF CauseInv, Typed
  <2> QED
    BY <2>3, <2>4
<1> QED
  BY <1>1, LoopSame DEF Remember

\* Request,
LEMMA LoopInOrderRequest ==
  ASSUME CauseInv, [Next]_vars, OnceInv, NEW r \in Runs, Request(r)
  PROVE  LoopInOrder'
<1> PICK x : x = Callback("request", r, "client", 0)
  OBVIOUS
<1>1. /\ phase[r] = "none" /\ phase' = [phase EXCEPT ![r] = "requested"] /\ file' = file
      /\ phase'[r] = "requested"
  BY DEF Request, CauseInv, Typed
<1>2. /\ x.do = "request" /\ x.kind = "none" /\ x.run = r /\ x.by = "client"
      /\ x \notin {RequestNote(r), ReplyNote(r)} /\ ~IsDelivery(x)
  BY DEF Callback, RequestNote, ReplyNote, Note, IsDelivery
<1>3. Fits(x)'
  <2>1. file'[r] = {}
    BY <1>1 DEF OnceInv, FileInOrder
  <2> QED
    BY <1>1, <1>2, <2>1 DEF Fits
<1>4. ASSUME NEW y \in Elements(agenda[Loop])  PROVE Fits(y)' /\ Beside(y, x)
  <2>1. y \in Items /\ Fits(y) /\ y.run \in Runs /\ LoopItem(y)
    BY ElementFacts DEF Items, OnceInv
  <2>2. y.run = r => y.do \notin {"request", "start"} /\ y.by \notin {"task", "reply"} /\ y.kind # "CLIENT_TO_CORE"
    BY <1>1, <2>1 DEF Fits, Over
  <2>3. Fits(y)'
    <3>1. CASE y.run = r
      BY <1>1, <2>1, <2>2, <3>1, FitsPhase
    <3>2. CASE y.run # r
      BY <1>1, <2>1, <3>2, FitsPhase DEF CauseInv, Typed
    <3> QED
      BY <3>1, <3>2
  <2>4. y \notin Opening(r) /\ y # x
    BY <1>2, <2>2 DEF Opening, Callback, RequestNote, ReplyNote, Note
  <2>5. ASSUME NEW q \in Runs
        PROVE  /\ x \notin {ReportOf(q)} /\ (q # r => x \notin Opening(q)) /\ (x = Callback("request", q, "client", 0) => q = r)
               /\ y = Callback("request", q, "client", 0) => q # r
    BY <1>2, <2>2 DEF ReportOf, Opening, Callback, RequestNote, ReplyNote, Note
  <2>6. Compatible(y, x)
    BY <1>2, <2>4, <2>5 DEF Compatible
  <2>7. Orderly(y, x)
    BY <1>2 DEF Orderly
  <2> QED
    BY <2>3, <2>6, <2>7 DEF Beside
<1>5. LoopAppends(x)
  BY AppendShape DEF CauseInv
<1> QED
  BY <1>3, <1>4, <1>5, LoopAppended DEF OnceInv

\* RunRaises,
LEMMA LoopInOrderRaises ==
  ASSUME CauseInv, [Next]_vars, OnceInv, NEW r \in Runs, RunRaises(r)
  PROVE  LoopInOrder'
<1> PICK x : x = ReportOf(r)
  OBVIOUS
<1>1. /\ phase[r] \in {"running", "remembered"} /\ phase'[r] \in Over /\ file' = file
      /\ \A q \in Runs \ {r} : phase'[q] = phase[q]
  BY DEF RunRaises, CauseInv, Typed, Over
<1>2. /\ x.do = "report" /\ x.kind = "none" /\ x.run = r /\ x.by = "task" /\ ~IsDelivery(x)
  BY DEF ReportOf, Callback, IsDelivery
<1>3. Fits(x)'
  <2>1. \A d \in file'[r] : d.note.by # "task"
    BY <1>1 DEF OnceInv, FileInOrder, FileEntry, Over
  <2> QED
    BY <1>1, <1>2, <2>1 DEF Fits
<1>4. ASSUME NEW y \in Elements(agenda[Loop])  PROVE Fits(y)' /\ Beside(y, x)
  <2>1. y \in Items /\ Fits(y) /\ y.run \in Runs /\ LoopItem(y)
    BY ElementFacts DEF Items, OnceInv
  <2>2. y.run = r => y.do \notin {"request", "start"} /\ y.by # "task"
    BY <1>1, <2>1 DEF Fits, Over
  <2>3. Fits(y)'
    <3>1. CASE y.run = r
      BY <1>1, <2>1, <2>2, <3>1, FitsPhase DEF Over
    <3>2. CASE y.run # r
      BY <1>1, <2>1, <3>2, FitsPhase
    <3> QED
      BY <3>1, <3>2
  <2>4. y # x /\ \A q \in Runs : x \notin Opening(q) /\ x # Callback("request", q, "client", 0)
    BY <1>2, <2>2 DEF Opening, Callback, RequestNote, ReplyNote, Note
  <2>5. \A q \in Runs : /\ y = ReportOf(q) => q # r
                        /\ x = ReportOf(q) => q = r
    BY <1>2, <2>2 DEF ReportOf, Callback
  <2>6. Compatible(y, x)
    BY <1>2, <2>2, <2>4, <2>5 DEF Compatible
  <2>7. Orderly(y, x)
    BY <1>2 DEF Orderly
  <2> QED
    BY <2>3, <2>6, <2>7 DEF Beside
<1>5. LoopAppends(x)
  BY AppendShape DEF CauseInv, ReportOf
<1> QED
  BY <1>3, <1>4, <1>5, LoopAppended DEF OnceInv

\* What the loop does to start r.
Starts(a, r) ==
  /\ a.run = r /\ a.by # "task" /\ ~IsDelivery(a) /\ a.do # "notify" /\ a \in Opening(r)
  /\ \A q \in Runs : /\ a # Callback("request", q, "client", 0) /\ a # ReportOf(q)
                     /\ a \in Opening(q) => q = r

\* The start of a run beside everything but the request it came from,
LEMMA StartsBeside ==
  ASSUME NEW r \in Runs, NEW a, Starts(a, r), NEW x, x # a
  PROVE  /\ Starts(x, r) => Beside(a, x)
         /\ x \notin Opening(r) => Beside(a, x) /\ Beside(x, a)
<1>1. Orderly(a, x) /\ Orderly(x, a)
  BY DEF Starts, Orderly
<1>2. ASSUME Starts(x, r)  PROVE Compatible(a, x)
  BY <1>2 DEF Starts, Compatible
<1>3. ASSUME x \notin Opening(r)  PROVE Compatible(a, x) /\ Compatible(x, a)
  <2>1. x # Callback("request", r, "client", 0)
    BY <1>3 DEF Opening
  <2> QED
    BY <2>1 DEF Starts, Compatible
<1> QED
  BY <1>1, <1>2, <1>3 DEF Beside

\* Handle,
LEMMA LoopInOrderHandle ==
  ASSUME CauseInv, [Next]_vars, OnceInv, Handle
  PROVE  LoopInOrder'
<1> PICK r, f, b, head : /\ r = agenda[Loop][1].run /\ f = <<RequestNote(r), ReplyNote(r)>>
                         /\ b = <<Callback("start", r, "client", 0)>> /\ head = agenda[Loop][1]
  OBVIOUS
<1>1. /\ r \in Runs /\ Splices(Loop, f, b) /\ agenda[Loop] # << >> /\ head.do = "request"
      /\ UNCHANGED <<phase, file>>
  BY HandleShape DEF CauseInv, LoopSplices, Splices
<1>2. head = Callback("request", r, "client", 0)
  BY <1>1, HeadIsItem, LoopHead DEF CauseInv
<1>3. file[r] = {} /\ phase[r] = "requested"
  <2>1. Fits(head)
    BY <1>1, Popped, ThreadFacts DEF CauseInv, Typed, OnceInv, LoopInOrder
  <2> QED
    BY <1>2, <2>1 DEF Fits, Callback
<1> PICK a1, a2, a3 : a1 = RequestNote(r) /\ a2 = ReplyNote(r) /\ a3 = Callback("start", r, "client", 0)
  OBVIOUS
<1>4. /\ Len(f) = 2 /\ f[1] = a1 /\ f[2] = a2 /\ Len(b) = 1 /\ b[1] = a3
  OBVIOUS
<1>5. /\ a1.run = r /\ a2.run = r /\ a3.run = r
      /\ a1.do = "record" /\ a2.do = "record" /\ a3.do = "start"
      /\ a1.by = "client" /\ a2.by = "reply" /\ a3.by = "client"
      /\ a1.kind = "CLIENT_TO_CORE" /\ a2.kind = "CORE_TO_CLIENT" /\ a3.kind = "none"
      /\ a1 # a2 /\ a1 # a3 /\ a2 # a3
  BY DEF RequestNote, ReplyNote, Note, Callback
<1>6. Starts(a1, r) /\ Starts(a2, r) /\ Starts(a3, r)
  BY DEF RequestNote, ReplyNote, Note, Callback, Opening, ReportOf, IsDelivery, Starts
<1>7. Fits(a1)' /\ Fits(a2)' /\ Fits(a3)'
  <2>1. file'[r] = {} /\ phase'[r] = "requested"
    BY <1>1, <1>3
  <2>2. Fits(a1)'
    BY <1>5, <1>6, <2>1 DEF Fits, Starts
  <2>3. Fits(a2)'
    BY <1>5, <1>6, <2>1 DEF Fits, Starts
  <2>4. Fits(a3)'
    BY <1>5, <1>6, <2>1 DEF Fits, Starts
  <2> QED
    BY <2>2, <2>3, <2>4
<1>8. Beside(a1, a2) /\ Beside(a1, a3) /\ Beside(a2, a3)
  BY <1>1, <1>5, <1>6, StartsBeside
<1>9. ASSUME NEW y \in Rest, NEW x \in {a1, a2, a3}  PROVE Beside(x, y) /\ Beside(y, x)
  <2>1. Beside(head, y)
    BY <1>1, RestFacts DEF OnceInv
  <2>2. y \notin Opening(r)
    BY <1>1, <1>2, <2>1 DEF Beside, Compatible
  <2>3. x # y /\ Starts(x, r)
    BY <1>6, <2>2 DEF Starts
  <2> QED
    BY <1>1, <2>2, <2>3, StartsBeside
<1>10. FitsAround(f, b)
  <2>1. InOrder(f)
    BY <1>4, <1>8 DEF InOrder
  <2>2. InOrder(b)
    BY <1>4 DEF InOrder
  <2>3. \A k \in 1..Len(f) : f[k] \in {a1, a2}
    BY <1>4
  <2>4. \A m \in 1..Len(b) : b[m] = a3
    BY <1>4
  <2>5. \A i \in 2..Len(agenda[Loop]) : agenda[Loop][i] \in Rest
    BY DEF Rest
  <2> QED
    BY <1>8, <1>9, <2>1, <2>2, <2>3, <2>4, <2>5 DEF FitsAround
<1>11. \A x \in Elements(f) \cup Elements(b) : Fits(x)'
  <2>1. \A x \in Elements(f) \cup Elements(b) : x \in {a1, a2, a3}
    BY <1>4 DEF Elements
  <2> QED
    BY <1>7, <2>1
<1>12. \A x \in Rest : Fits(x)'
  BY <1>1, RestFacts, FitsQuiet DEF OnceInv
<1> QED
  BY <1>1, <1>10, <1>11, <1>12, LoopSpliced DEF OnceInv

\* Start.
LEMMA LoopInOrderStart ==
  ASSUME CauseInv, [Next]_vars, OnceInv, Start
  PROVE  LoopInOrder'
<1> PICK r, head : r = agenda[Loop][1].run /\ head = agenda[Loop][1]
  OBVIOUS
<1>1. /\ r \in Runs /\ Splices(Loop, << >>, << >>) /\ agenda[Loop] # << >> /\ head.do = "start"
      /\ file' = file /\ phase' = [phase EXCEPT ![r] = "running"]
  BY StartShape DEF CauseInv, LoopSplices, Splices
<1>2. head = Callback("start", r, "client", 0)
  BY <1>1, HeadIsItem, LoopHead DEF CauseInv
<1>3. phase[r] = "requested" /\ phase'[r] = "running" /\ \A q \in Runs \ {r} : phase'[q] = phase[q]
  <2>1. Fits(head)
    BY <1>1, Popped, ThreadFacts DEF CauseInv, Typed, OnceInv, LoopInOrder
  <2>2. head.do = "start" /\ head.run = r
    BY <1>1
  <2> QED
    BY <1>1, <2>1, <2>2 DEF Fits, CauseInv, Typed
<1>4. ASSUME NEW x \in Rest  PROVE Fits(x)'
  <2>1. x \in Items /\ LoopItem(x) /\ Fits(x) /\ Beside(head, x) /\ x.run \in Runs
    BY <1>1, RestFacts DEF OnceInv, Items
  <2>2. CASE x.run = r
    <3>1. head \in Opening(r)
      BY <1>2 DEF Opening
    <3>2. x # head /\ x # Callback("request", r, "client", 0)
      BY <1>1, <2>1, <3>1 DEF Beside, Compatible
    <3>3. x.do \notin {"request", "start"}
      BY <1>2, <2>1, <2>2, <3>2, LoopHead
    <3>4. x.by # "task"
      BY <1>3, <2>1, <2>2 DEF Fits, Over
    <3> QED
      BY <1>1, <1>3, <2>1, <2>2, <3>3, <3>4, FitsPhase
  <2>3. CASE x.run # r
    BY <1>1, <1>3, <2>1, <2>3, FitsPhase
  <2> QED
    BY <2>2, <2>3
<1>5. \A x \in Elements(<< >>) \cup Elements(<< >>) : Fits(x)'
  BY DEF Elements
<1> QED
  BY <1>1, <1>4, <1>5, NothingAround, LoopSpliced DEF OnceInv

\* An event on its way to clients opens no file and reports no run.
Passing(a) ==
  \A q \in Runs : a \notin Opening(q) /\ a # ReportOf(q)

\* Notifications, pushes, events and copies are passing items,
LEMMA PassingItems ==
  ASSUME NEW r \in Runs, NEW by \in Sources, NEW n \in Nat
  PROVE  /\ \A do \in {"notify", "push"} : Passing(Callback(do, r, by, n))
         /\ Passing(Note("CORE", r, by, n, NoOne))
         /\ \A c \in Clients : Passing(Note("CORE_TO_CLIENT", r, by, n, c))
<1> USE DEF Passing, Opening, ReportOf, Note, Callback, RequestNote, ReplyNote, Sources
<1>1. \A do \in {"notify", "push"} : Passing(Callback(do, r, by, n))
  OBVIOUS
<1>2. Passing(Note("CORE", r, by, n, NoOne))
  OBVIOUS
<1>3. \A c \in Clients : Passing(Note("CORE_TO_CLIENT", r, by, n, c))
  OBVIOUS
<1> QED
  BY <1>1, <1>2, <1>3

\* which go beside anything but the report of the task's events.
LEMMA PassingCompatible ==
  ASSUME NEW a, Passing(a), NEW x
  PROVE  /\ (a.by = "task" => x # ReportOf(a.run)) => Compatible(a, x) /\ Compatible(x, a)
<1>1. ASSUME NEW q \in Runs  PROVE a # Callback("request", q, "client", 0)
  BY DEF Passing, Opening
<1> QED
  BY <1>1 DEF Passing, Compatible

\* Notify: what it hands over is of a later event than all deliveries under way.
LEMMA LoopInOrderNotify ==
  ASSUME CauseInv, [Next]_vars, OnceInv, NEW t \in Threads, Notify(t)
  PROVE  LoopInOrder'
<1> USE DEF CauseInv
<1> PICK head, push : head = agenda[t][1] /\ push = PushOf(head)
  OBVIOUS
<1>1. head \in Items /\ head.do = "notify" /\ push \in Items /\ UNCHANGED <<phase, file>> /\ agenda[t] # << >>
  <2>1. agenda[t] # << >>
    BY HeadItem DEF Notify
  <2> QED
    BY <2>1, NotifyShape DEF Notify
<1>2. /\ push.do = "push" /\ push.kind = head.kind /\ push.run = head.run /\ push.by = head.by /\ push.n = head.n
      /\ IsDelivery(push)
  BY <1>1 DEF PushOf, Items, IsDelivery
<1>3. CASE t = Loop
  <2>1. Splices(Loop, << >>, <<push>>) /\ agenda[Loop] # << >>
    BY <1>1, <1>3, NotifyShape DEF LoopSplices
  <2>2. head.run \in Runs /\ head.by = "task" /\ head.n \in Nat /\ head = Callback("notify", head.run, "task", head.n)
    <3>1. LoopItem(head)
      BY <1>3, <2>1, HeadIsItem
    <3> QED
      BY <1>1, <3>1, LoopHead DEF Callback
  <2>3. Fits(head)
    BY <1>3, <2>1, Popped, ThreadFacts DEF Typed, OnceInv, LoopInOrder
  <2>4. Passing(push)
    <3>1. push = Callback("push", head.run, "task", head.n)
      BY <2>2 DEF PushOf, Callback
    <3> QED
      BY <2>2, <3>1, PassingItems DEF Sources
  <2>5. Fits(push)'
    <3>1. Delivered(push)'
      <4>1. \A u \in Workers : u[2] # "task"
        BY ThreadFacts
      <4> QED
        BY <1>2, <2>2, <4>1 DEF Delivered
    <3>2. push.kind # "CLIENT_TO_CORE"
      BY <1>2, <2>2 DEF Callback
    <3> QED
      BY <1>1, <1>2, <2>2, <2>3, <3>1, <3>2 DEF Fits
  <2>6. ASSUME NEW y \in Rest  PROVE Beside(y, push)
    <3>1. Beside(head, y)
      BY <1>3, <2>1, RestFacts DEF OnceInv
    <3>2. y # ReportOf(head.run)
      BY <2>2, <3>1 DEF Beside, Compatible
    <3>3. Compatible(y, push)
      BY <1>2, <2>4, <3>2, PassingCompatible
    <3>4. Orderly(y, push)
      BY <1>1, <1>2, <3>1 DEF Beside, Orderly
    <3> QED
      BY <3>3, <3>4 DEF Beside
  <2>7. PICK b : b = <<push>>
    OBVIOUS
  <2>8. Len(b) = 1 /\ b[1] = push
    BY <2>7
  <2>9. FitsAround(<< >>, b)
    <3>1. \A i \in 2..Len(agenda[Loop]) : agenda[Loop][i] \in Rest
      BY DEF Rest
    <3> QED
      BY <2>6, <2>8, <3>1 DEF FitsAround, InOrder
  <2>10. \A x \in Elements(<< >>) \cup Elements(b) : Fits(x)'
    <3>1. \A x \in Elements(<< >>) \cup Elements(b) : x = push
      BY <2>8 DEF Elements
    <3> QED
      BY <2>5, <3>1
  <2>11. \A x \in Rest : Fits(x)'
    BY <1>1, <2>1, RestFacts, FitsQuiet DEF OnceInv
  <2> QED
    BY <2>1, <2>7, <2>9, <2>10, <2>11, LoopSpliced DEF OnceInv
<1>4. CASE t \in Workers
  <2>1. t # Loop /\ RunOf(t) \in Runs /\ t[2] \in {"run", "refresh"} /\ done[t] \in Nat
    BY <1>4, ThreadFacts DEF Typed
  <2>2. agenda[t] = <<LatestNotify(t)>> /\ head = LatestNotify(t)
    BY <1>1, <1>4 DEF WorkerAgenda, Latest, Note
  <2>3. /\ push = Callback("push", RunOf(t), t[2], done[t])
        /\ push.run = RunOf(t) /\ push.by = t[2] /\ push.n = done[t] /\ push.kind = "none"
    BY <2>2 DEF LatestNotify, PushOf, Callback
  <2>4. Passing(push)
    BY <2>1, <2>3, PassingItems DEF Sources
  <2>5. LoopAppends(push) /\ Splices(t, << >>, << >>) /\ done' = done
    BY <2>1, NotifyShape
  <2>6. Notifies(t) /\ ~Notifies(t)'
    <3>1. Tail(agenda[t]) = << >>
      BY <2>2
    <3>2. << >> \o << >> \o << >> = << >>
      OBVIOUS
    <3>3. agenda'[t] = << >>
      BY <2>5, <3>1, <3>2 DEF Splices
    <3>4. Len(agenda[t]) = 1 /\ agenda[t][1].do = "notify"
      BY <1>1, <2>2
    <3> QED
      BY <3>3, <3>4 DEF Notifies
  <2>7. Fits(push)'
    <3>1. Delivered(push)'
      <4>1. ASSUME NEW u \in Workers, push.run = RunOf(u), push.by = u[2]  PROVE u = t
        <5>1. u = <<RunOf(u), u[2]>> /\ t = <<RunOf(t), t[2]>>
          BY <1>4, ThreadFacts
        <5>2. RunOf(u) = RunOf(t) /\ u[2] = t[2]
          BY <2>3, <4>1
        <5>3. <<RunOf(u), u[2]>> = <<RunOf(t), t[2]>>
          BY <5>2
        <5> QED
          BY <5>1, <5>3
      <4> QED
        BY <2>1, <2>3, <2>5, <2>6, <4>1 DEF Delivered
    <3>2. ASSUME NEW d \in file[RunOf(t)], IsDelivery(d.note), d.note.by = t[2]  PROVE d.note.n < done[t]
      <4>1. FileEntry(RunOf(t), d)
        BY <2>1 DEF OnceInv, FileInOrder
      <4> QED
        BY <1>4, <2>6, <3>2, <4>1 DEF FileEntry, Delivered
    <3> QED
      BY <1>1, <1>2, <2>1, <2>3, <3>1, <3>2 DEF Fits
  <2>8. ASSUME NEW y \in Elements(agenda[Loop])  PROVE Fits(y)' /\ Beside(y, push)
    <3>1. y \in Items /\ LoopItem(y) /\ Fits(y)
      BY ElementFacts DEF OnceInv
    <3>2. Fits(y)'
      BY <1>1, <3>1, FitsQuiet
    <3>3. Compatible(y, push)
      BY <2>1, <2>3, <2>4, PassingCompatible
    <3>4. ASSUME y.run = push.run, y.by = push.by
          PROVE  y.do # "notify" /\ (IsDelivery(y) => y.n < push.n)
      <4>1. y.do # "notify"
        BY <2>1, <2>3, <3>1, <3>4, LoopHead DEF Callback
      <4>2. IsDelivery(y) => Delivered(y)
        BY <3>1 DEF Fits
      <4> QED
        BY <1>4, <2>3, <2>6, <3>4, <4>1, <4>2 DEF Delivered
    <3>5. Orderly(y, push)
      BY <1>2, <3>4 DEF Orderly
    <3> QED
      BY <3>2, <3>3, <3>5 DEF Beside
  <2> QED
    BY <2>5, <2>7, <2>8, LoopAppended DEF OnceInv
<1> QED
  BY <1>3, <1>4 DEF Threads

\* Push: the copies take the event's place.
LEMMA LoopInOrderPush ==
  ASSUME CauseInv, [Next]_vars, OnceInv, Push
  PROVE  LoopInOrder'
<1> USE DEF CauseInv
<1> PICK head : head = agenda[Loop][1]
  OBVIOUS
<1>1. PICK q : LoopSplices(q, << >>) /\ Deliveries(q, head)
  BY PushShape
<1>2. /\ Splices(Loop, q, << >>) /\ agenda[Loop] # << >> /\ head.do = "push" /\ UNCHANGED <<phase, file>>
  BY <1>1, PushShape DEF LoopSplices, Splices
<1>3. /\ head.run \in Runs /\ head.by \in Sources /\ head.n \in Nat /\ IsDelivery(head)
  BY <1>2, HeadIsItem, LoopHead DEF IsDelivery
<1>4. Fits(head)
  BY <1>2, Popped, ThreadFacts DEF Typed, OnceInv, LoopInOrder
<1>5. ASSUME NEW x \in Elements(q)
      PROVE  /\ x \in Items /\ x.run = head.run /\ x.by = head.by /\ x.n = head.n /\ x.do = "record"
             /\ x.kind = "CORE_TO_CLIENT" /\ IsDelivery(x) /\ Passing(x)
             /\ x = Note("CORE_TO_CLIENT", head.run, head.by, head.n, x.client)
  <2>1. PICK k \in 1..Len(q) : x = q[k]
    BY DEF Elements
  <2>2. x \in Items
    BY <1>1, <2>1, ElementOfSeq DEF Deliveries
  <2>3. PICK c \in Clients : x = Note("CORE_TO_CLIENT", head.run, head.by, head.n, c)
    BY <1>1, <2>1 DEF Deliveries
  <2>4. Passing(x)
    BY <1>3, <2>3, PassingItems
  <2>5. /\ x.run = head.run /\ x.by = head.by /\ x.n = head.n /\ x.do = "record"
        /\ x.kind = "CORE_TO_CLIENT" /\ x.client = c
    BY <2>3 DEF Note
  <2>6. IsDelivery(x)
    BY <1>3, <2>5 DEF IsDelivery, Sources
  <2> QED
    BY <2>2, <2>3, <2>4, <2>5, <2>6
<1>6. ASSUME NEW x \in Elements(q)  PROVE Fits(x)'
  <2>1. /\ x \in Items /\ x.run = head.run /\ x.by = head.by /\ x.n = head.n /\ x.do = "record"
        /\ x.kind = "CORE_TO_CLIENT" /\ IsDelivery(x)
    BY <1>5
  <2>2. Delivered(x)
    BY <1>3, <1>4, <2>1 DEF Fits, Delivered
  <2>3. Delivered(x)'
    BY <2>1, <2>2, DeliveredNext
  <2> QED
    BY <1>2, <1>3, <1>4, <2>1, <2>3 DEF Fits, Sources
<1>7. ASSUME NEW i \in 1..Len(q), NEW j \in 1..Len(q), i # j  PROVE Beside(q[i], q[j])
  <2>1. q[i] \in Elements(q) /\ q[j] \in Elements(q) /\ q[i] # q[j]
    BY <1>1, <1>7 DEF Elements, Deliveries
  <2>2. PICK x, y : x = q[i] /\ y = q[j]
    OBVIOUS
  <2>3. /\ x = Note("CORE_TO_CLIENT", head.run, head.by, head.n, x.client)
        /\ y = Note("CORE_TO_CLIENT", head.run, head.by, head.n, y.client)
        /\ x.do = "record" /\ y.do = "record" /\ Passing(x) /\ Passing(y)
    BY <1>5, <2>1, <2>2
  <2>4. x.client # y.client
    BY <2>1, <2>2, <2>3
  <2>5. Orderly(x, y)
    BY <2>3, <2>4 DEF Orderly
  <2>6. y # ReportOf(x.run)
    <3>1. x.run \in Runs
      BY <1>3, <1>5, <2>1, <2>2
    <3> QED
      BY <2>3, <3>1 DEF Passing
  <2>7. Compatible(x, y)
    BY <2>3, <2>6, PassingCompatible
  <2> QED
    BY <2>2, <2>5, <2>7 DEF Beside
<1>8. ASSUME NEW x \in Elements(q), NEW y \in Rest  PROVE Beside(x, y)
  <2>1. Beside(head, y)
    BY <1>2, RestFacts DEF OnceInv
  <2>2. /\ x.run = head.run /\ x.by = head.by /\ x.n = head.n /\ x.do = "record" /\ IsDelivery(x) /\ Passing(x)
    BY <1>5
  <2>3. Orderly(x, y)
    BY <1>2, <1>3, <2>1, <2>2 DEF Beside, Orderly
  <2>4. x.by = "task" => y # ReportOf(x.run)
    <3>1. head.by = "task" => y # ReportOf(head.run)
      BY <1>3, <2>1 DEF Beside, Compatible
    <3> QED
      BY <2>2, <3>1
  <2>5. Compatible(x, y)
    BY <2>2, <2>4, PassingCompatible
  <2> QED
    BY <2>3, <2>5 DEF Beside
<1>9. FitsAround(q, << >>)
  <2>1. InOrder(q) /\ InOrder(<< >>)
    BY <1>7 DEF InOrder
  <2>2. \A i \in 2..Len(agenda[Loop]) : agenda[Loop][i] \in Rest
    BY DEF Rest
  <2>3. \A k \in 1..Len(q) : q[k] \in Elements(q)
    BY DEF Elements
  <2> QED
    BY <1>8, <2>1, <2>2, <2>3 DEF FitsAround
<1>10. \A x \in Rest : Fits(x)'
  BY <1>2, RestFacts, FitsQuiet DEF OnceInv
<1>11. \A x \in Elements(q) \cup Elements(<< >>) : Fits(x)'
  <2>1. Elements(<< >>) = {}
    BY DEF Elements
  <2> QED
    BY <1>6, <2>1
<1> QED
  BY <1>2, <1>9, <1>10, <1>11, LoopSpliced DEF OnceInv

\* Report: the task's events are its first.
LEMMA LoopInOrderReport ==
  ASSUME CauseInv, [Next]_vars, OnceInv, Report
  PROVE  LoopInOrder'
<1> USE DEF CauseInv
<1> PICK r, head, f : /\ r = agenda[Loop][1].run /\ head = agenda[Loop][1]
       /\ f = <<Note("CORE", r, "task", 1, NoOne), Callback("notify", r, "task", 1),
                Note("CORE", r, "task", 2, NoOne), Callback("notify", r, "task", 2)>>
  OBVIOUS
<1>1. /\ r \in Runs /\ Splices(Loop, f, << >>) /\ agenda[Loop] # << >> /\ head.do = "report"
      /\ UNCHANGED <<phase, file>>
  BY ReportShape DEF LoopSplices, Splices
<1>2. head = ReportOf(r)
  BY <1>1, HeadIsItem, LoopHead
<1>3. head.by = "task" /\ head.run = r
  BY <1>2 DEF ReportOf, Callback
<1>4. phase[r] \in Over /\ \A d \in file[r] : d.note.by # "task"
  <2>1. Fits(head)
    BY <1>1, Popped, ThreadFacts DEF Typed, OnceInv, LoopInOrder
  <2> QED
    BY <1>1, <1>3, <2>1 DEF Fits
<1>5. PICK a1, a2, a3, a4 :
        /\ a1 = Note("CORE", r, "task", 1, NoOne) /\ a2 = Callback("notify", r, "task", 1)
        /\ a3 = Note("CORE", r, "task", 2, NoOne) /\ a4 = Callback("notify", r, "task", 2)
  OBVIOUS
<1>6. Len(f) = 4 /\ f[1] = a1 /\ f[2] = a2 /\ f[3] = a3 /\ f[4] = a4
  BY <1>5
<1>7. /\ a1.run = r /\ a2.run = r /\ a3.run = r /\ a4.run = r
      /\ a1.by = "task" /\ a2.by = "task" /\ a3.by = "task" /\ a4.by = "task"
      /\ a1.do = "record" /\ a2.do = "notify" /\ a3.do = "record" /\ a4.do = "notify"
      /\ a1.kind = "CORE" /\ a2.kind = "none" /\ a3.kind = "CORE" /\ a4.kind = "none"
      /\ a2.n = 1 /\ a4.n = 2
  BY <1>5 DEF Note, Callback
<1>8. Passing(a1) /\ Passing(a2) /\ Passing(a3) /\ Passing(a4)
  BY <1>1, <1>5, PassingItems DEF Sources
<1>9. ~IsDelivery(a1) /\ ~IsDelivery(a2) /\ ~IsDelivery(a3) /\ ~IsDelivery(a4)
  BY <1>7 DEF IsDelivery
<1>10. ASSUME NEW a \in {a1, a2, a3, a4}, NEW x, x # ReportOf(r)  PROVE Compatible(a, x)
  BY <1>7, <1>8, <1>10, PassingCompatible
<1>11. InOrder(f)
  <2>1. /\ a1 # ReportOf(r) /\ a2 # ReportOf(r) /\ a3 # ReportOf(r) /\ a4 # ReportOf(r)
    BY <1>1, <1>8 DEF Passing
  <2>2. /\ Orderly(a1, a2) /\ Orderly(a1, a3) /\ Orderly(a1, a4)
        /\ Orderly(a2, a3) /\ Orderly(a2, a4) /\ Orderly(a3, a4)
    BY <1>7, <1>9 DEF Orderly
  <2>3. /\ Beside(a1, a2) /\ Beside(a1, a3) /\ Beside(a1, a4)
        /\ Beside(a2, a3) /\ Beside(a2, a4) /\ Beside(a3, a4)
    BY <1>10, <2>1, <2>2 DEF Beside
  <2> QED
    BY <1>6, <2>3 DEF InOrder
<1>12. ASSUME NEW y \in Rest, NEW a \in {a1, a2, a3, a4}  PROVE Beside(a, y)
  <2>1. Beside(head, y)
    BY <1>1, RestFacts DEF OnceInv
  <2>2. ~(y.run = r /\ y.by = "task")
    BY <1>1, <1>2, <2>1 DEF Beside, Compatible
  <2>3. y # ReportOf(r)
    BY <2>2 DEF ReportOf, Callback
  <2>4. a.run = r /\ a.by = "task"
    BY <1>7
  <2>5. Orderly(a, y)
    BY <2>2, <2>4 DEF Orderly
  <2> QED
    BY <1>10, <2>3, <2>5 DEF Beside
<1>13. FitsAround(f, << >>)
  <2>1. InOrder(<< >>)
    BY DEF InOrder
  <2>2. \A i \in 2..Len(agenda[Loop]) : agenda[Loop][i] \in Rest
    BY DEF Rest
  <2>3. \A k \in 1..Len(f) : f[k] \in {a1, a2, a3, a4}
    BY <1>6
  <2> QED
    BY <1>11, <1>12, <2>1, <2>2, <2>3 DEF FitsAround
<1>14. Fits(a1)' /\ Fits(a2)' /\ Fits(a3)' /\ Fits(a4)'
  <2>1. phase'[r] \in Over /\ \A d \in file'[r] : d.note.by # "task"
    BY <1>1, <1>4
  <2>2. Fits(a1)'
    BY <1>7, <1>9, <2>1 DEF Fits
  <2>3. Fits(a2)'
    BY <1>7, <1>9, <2>1 DEF Fits
  <2>4. Fits(a3)'
    BY <1>7, <1>9, <2>1 DEF Fits
  <2>5. Fits(a4)'
    BY <1>7, <1>9, <2>1 DEF Fits
  <2> QED
    BY <2>2, <2>3, <2>4, <2>5
<1>15. \A x \in Elements(f) \cup Elements(<< >>) : Fits(x)'
  <2>1. \A x \in Elements(f) \cup Elements(<< >>) : x = a1 \/ x = a2 \/ x = a3 \/ x = a4
    BY <1>6 DEF Elements
  <2> QED
    BY <1>14, <2>1
<1>16. \A x \in Rest : Fits(x)'
  BY <1>1, RestFacts, FitsQuiet DEF OnceInv
<1> QED
  BY <1>1, <1>13, <1>15, <1>16, LoopSpliced DEF OnceInv

\* LoopInOrder is inductive, with FileInOrder.
LEMMA LoopInOrderNext ==
  ASSUME CauseInv, [Next]_vars, OnceInv
  PROVE  LoopInOrder'
<1>1. ASSUME agenda'[Loop] = agenda[Loop], UNCHANGED <<phase, file>>  PROVE LoopInOrder'
  <2>1. \A x \in Elements(agenda[Loop]) : Fits(x)'
    BY <1>1, ElementFacts, FitsQuiet DEF OnceInv
  <2> QED
    BY <1>1, <2>1, LoopSame DEF OnceInv
<1>2. ASSUME NEW t \in Threads, TakeNumber(t) \/ TakeTime(t)  PROVE LoopInOrder'
  BY <1>1, <1>2 DEF TakeNumber, TakeTime
<1>3. ASSUME NEW t \in Threads, Write(t) \/ Notify(t)  PROVE LoopInOrder'
  BY <1>3, LoopInOrderWrite, LoopInOrderNotify DEF OnceInv
<1>4. ASSUME NEW t \in Workers, Publish(t) \/ Chat(t) \/ Audit(t)  PROVE LoopInOrder'
  BY <1>1, <1>4, MadeShape, ThreadFacts DEF CauseInv
<1>5. ASSUME NEW r \in Runs, Request(r) \/ Remember(r) \/ RunRaises(r)  PROVE LoopInOrder'
  BY <1>5, LoopInOrderRequest, LoopInOrderRemember, LoopInOrderRaises DEF OnceInv
<1>6. CASE Handle \/ Start \/ Report \/ Push
  BY <1>6, LoopInOrderHandle, LoopInOrderStart, LoopInOrderReport, LoopInOrderPush
<1>7. CASE Tick \/ UNCHANGED vars
  BY <1>1, <1>7 DEF Tick, vars
<1> QED
  BY <1>2, <1>3, <1>4, <1>5, <1>6, <1>7 DEF Next

-------------------------------------------------------------------------------
(* The files.                                                              *)

\* A request does not become unmade, nor a failed run go on.
LEMMA PhaseNext ==
  ASSUME CauseInv, OnceInv, [Next]_vars, NEW r \in Runs
  PROVE  /\ phase'[r] = "none" => phase[r] = "none"
         /\ phase[r] \in Over => phase'[r] \in Over
<1> USE DEF CauseInv
<1>1. ASSUME NEW q \in Runs, Request(q) \/ Remember(q) \/ RunRaises(q)
      PROVE  /\ phase'[r] = "none" => phase[r] = "none"
             /\ phase[r] \in Over => phase'[r] \in Over
  BY <1>1 DEF Request, Remember, RunRaises, Typed, Over
<1>2. ASSUME Start
      PROVE  /\ phase'[r] = "none" => phase[r] = "none"
             /\ phase[r] \in Over => phase'[r] \in Over
  <2>1. PICK head : head = agenda[Loop][1]
    OBVIOUS
  <2>2. /\ agenda[Loop] # << >> /\ head.do = "start" /\ phase' = [phase EXCEPT ![head.run] = "running"]
    BY <1>2, <2>1, StartShape DEF LoopSplices, Splices
  <2>3. Fits(head)
    BY <2>1, <2>2, Popped, ThreadFacts DEF Typed, OnceInv, LoopInOrder
  <2>4. phase[head.run] = "requested"
    BY <2>2, <2>3 DEF Fits
  <2> QED
    BY <2>2, <2>4 DEF Typed, Over
<1>3. phase' = phase \/ Start \/ \E q \in Runs : Request(q) \/ Remember(q) \/ RunRaises(q)
  BY DEF Next, Tick, TakeNumber, TakeTime, Write, Notify, Publish, Chat, Audit, Handle, Report, Push, vars
<1> QED
  BY <1>1, <1>2, <1>3

\* What holds of an entry goes on to hold.
LEMMA FileEntryKept ==
  ASSUME CauseInv, OnceInv, [Next]_vars, NEW r \in Runs, NEW d \in file[r]
  PROVE  FileEntry(r, d)'
<1>1. FileEntry(r, d) /\ d.note \in Items
  BY DEF OnceInv, FileInOrder, CauseInv, Typed
<1>2. phase[r] \in Over => phase'[r] \in Over
  BY PhaseNext
<1>3. Past(Loop, d) => Past(Loop, d)'
  BY StaysPastNext, ThreadFacts DEF CauseInv, StaysPast
<1>4. Delivered(d.note) => Delivered(d.note)'
  <2>1. PICK x : x = d.note
    OBVIOUS
  <2>2. Delivered(x) => Delivered(x)'
    BY <1>1, <2>1, DeliveredNext
  <2> QED
    BY <2>1, <2>2
<1> QED
  BY <1>1, <1>2, <1>3, <1>4 DEF FileEntry

\* An entry that is written, and what is in the file then.
LEMMA WrittenEntry ==
  ASSUME CauseInv, OnceInv, [Next]_vars, NEW t \in Threads, Write(t),
         NEW head, head = agenda[t][1], NEW new, new = [note |-> head, stamp |-> stamp[t]],
         NEW r, r = head.run
  PROVE  /\ r \in Runs /\ phase[r] # "none" /\ FileEntry(r, new)'
         /\ \A d \in file[r] :
              /\ d.note = head => head \notin {RequestNote(r), ReplyNote(r)}
              /\ IsDelivery(d.note) /\ IsDelivery(head) /\ d.note.by = head.by
                 /\ d.note.client = head.client =>
                   d.note.n < head.n /\ ReadsBefore(d, new)
<1> USE DEF CauseInv
<1>1. /\ agenda[t] # << >> /\ head.do = "record" /\ head \in Items /\ r \in Runs
      /\ stamp[t].seq # 0 /\ stamp[t].ts # 0 /\ stamp'[t] = Unstamped /\ phase' = phase
  BY WriteShape DEF Splices
<1>2. /\ head # RequestNote(r) => Has(RequestNote(r))
      /\ head \notin {RequestNote(r), ReplyNote(r)} => Has(ReplyNote(r)) /\ head.by \in Sources
  BY <1>1, OpensFile
<1>3. RequestNote(r).run = r /\ ReplyNote(r).run = r /\ RequestNote(r) # ReplyNote(r)
  BY DEF RequestNote, ReplyNote, Note
<1>4. CASE t = Loop
  <2>1. LoopItem(head) /\ Fits(head)
    BY <1>1, <1>4, HeadIsItem, Popped, ThreadFacts DEF Typed, OnceInv, LoopInOrder
  <2>2. phase[r] # "none"
    <3>1. CASE head = RequestNote(r)
      BY <2>1, <3>1 DEF Fits, RequestNote, Note
    <3>2. CASE head # RequestNote(r)
      BY <1>1, <1>2, <1>3, <3>2 DEF Has, OnceInv, FileInOrder
    <3> QED
      BY <3>1, <3>2
  <2>3. head \in {RequestNote(r), ReplyNote(r)} \/ (head.kind = "CORE" /\ head.by \in Sources)
        \/ (head.kind = "CORE_TO_CLIENT" /\ head.by \in Sources)
    BY <1>1, <2>1, LoopHead DEF Note, Sources
  <2>4. head.by = "task" => phase'[r] \in Over
    BY <1>1, <2>1 DEF Fits
  <2>5. Past(Loop, new)'
    BY <1>1, <1>4 DEF Past, Unstamped
  <2>6. IsDelivery(head) => Delivered(head)'
    BY <1>1, <2>1, DeliveredNext DEF Fits
  <2>7. FileEntry(r, new)'
    BY <1>1, <2>3, <2>4, <2>5, <2>6 DEF FileEntry
  <2>8. ASSUME NEW d \in file[r], d.note = head  PROVE head \notin {RequestNote(r), ReplyNote(r)}
    <3>1. head # RequestNote(r)
      <4>1. head = RequestNote(r) => file[r] = {}
        BY <2>1 DEF Fits, RequestNote, Note
      <4> QED
        BY <2>8, <4>1
    <3>2. head # ReplyNote(r)
      <4>1. head = ReplyNote(r) => \A e \in file[r] : e.note = RequestNote(r)
        BY <2>1 DEF Fits, ReplyNote, Note
      <4> QED
        BY <1>3, <2>8, <4>1
    <3> QED
      BY <3>1, <3>2
  <2>9. ASSUME NEW d \in file[r], IsDelivery(d.note), IsDelivery(head), d.note.by = head.by,
               d.note.client = head.client
        PROVE  d.note.n < head.n /\ ReadsBefore(d, new)
    <3>1. d.note.n < head.n
      BY <1>1, <2>1, <2>9 DEF Fits
    <3>2. Past(Loop, d)
      BY <1>1, <2>9 DEF OnceInv, FileInOrder, FileEntry, IsDelivery
    <3>3. d.stamp.seq \in Nat /\ d.stamp.ts \in Nat /\ stamp[t].seq \in Nat /\ stamp[t].ts \in Nat
      BY <1>1 DEF Typed
    <3>4. ReadsBefore(d, new)
      BY <1>1, <1>4, <3>2, <3>3 DEF Past, ReadsBefore
    <3> QED
      BY <3>1, <3>4
  <2> QED
    BY <1>1, <2>2, <2>7, <2>8, <2>9
<1>5. CASE t \in Workers
  <2>1. t[2] \in {"run", "refresh"} /\ RunOf(t) \in Runs /\ t # Loop
    BY <1>5, ThreadFacts
  <2>2. PICK kind \in {"CORE", "CORE_TO_LLM", "LLM_TO_CORE", "TOOL"} : head = Latest(t, kind)
    BY <1>1, <1>5 DEF WorkerAgenda, LatestNotify, Callback
  <2>3. head.kind \in {"CORE", "CORE_TO_LLM", "LLM_TO_CORE", "TOOL"} /\ head.by = t[2]
    BY <2>2 DEF Latest, Note
  <2>4. head # RequestNote(r) /\ head # ReplyNote(r) /\ ~IsDelivery(head)
    BY <1>1, <2>3 DEF RequestNote, ReplyNote, Note, IsDelivery
  <2>5. phase[r] # "none"
    BY <1>1, <1>2, <1>3, <2>4 DEF Has, OnceInv, FileInOrder
  <2>6. FileEntry(r, new)'
    BY <1>1, <2>1, <2>3, <2>4 DEF FileEntry, Sources
  <2> QED
    BY <1>1, <2>4, <2>5, <2>6
<1> QED
  BY <1>4, <1>5 DEF Threads

\* FileInOrder is inductive, with LoopInOrder.
LEMMA FileInOrderNext ==
  ASSUME CauseInv, OnceInv, [Next]_vars
  PROVE  FileInOrder'
<1> USE DEF CauseInv
<1>1. ASSUME file' = file  PROVE FileInOrder'
  BY <1>1, FileEntryKept, PhaseNext DEF OnceInv, FileInOrder
<1>2. ASSUME NEW t \in Threads, Write(t)  PROVE FileInOrder'
  <2> PICK head, new, q : head = agenda[t][1] /\ new = [note |-> head, stamp |-> stamp[t]] /\ q = head.run
    OBVIOUS
  <2>1. /\ q \in Runs /\ phase[q] # "none" /\ FileEntry(q, new)'
        /\ \A d \in file[q] :
             /\ d.note = head => head \notin {RequestNote(q), ReplyNote(q)}
             /\ IsDelivery(d.note) /\ IsDelivery(head) /\ d.note.by = head.by
                /\ d.note.client = head.client =>
                  d.note.n < head.n /\ ReadsBefore(d, new)
    BY <1>2, WrittenEntry
  <2>2. file' = [file EXCEPT ![q] = @ \cup {new}] /\ phase' = phase /\ head \in Items
    BY <1>2, WriteShape
  <2>3. file'[q] = file[q] \cup {new} /\ \A r \in Runs \ {q} : file'[r] = file[r]
    BY <2>1, <2>2 DEF Typed
  <2>4. new.note = head
    OBVIOUS
  <2>5. ASSUME NEW r \in Runs, NEW d \in file'[r]  PROVE FileEntry(r, d)'
    BY <2>1, <2>3, FileEntryKept
  <2>6. ASSUME NEW r \in Runs, phase'[r] = "none"  PROVE file'[r] = {}
    BY <2>1, <2>2, <2>3, <2>6 DEF OnceInv, FileInOrder
  <2>7. ASSUME NEW d \in file[q]
        PROVE  /\ d.note = head => head \notin {RequestNote(q), ReplyNote(q)}
               /\ IsDelivery(d.note) /\ IsDelivery(head) /\ d.note.by = head.by
                  /\ d.note.client = head.client =>
                    d.note.n < head.n /\ ~(head.n < d.note.n) /\ d.note.n # head.n /\ ReadsBefore(d, new)
    <3>1. d.note.n \in Nat /\ head.n \in Nat
      BY <2>1, <2>2 DEF Typed, Items
    <3> QED
      BY <2>1, <3>1
  <2>8. ASSUME NEW r \in Runs, NEW d \in file'[r], NEW e \in file'[r]
        PROVE  /\ d.note = e.note /\ d.note \in {RequestNote(r), ReplyNote(r)} => d = e
               /\ IsDelivery(d.note) /\ IsDelivery(e.note) /\ d.note.by = e.note.by
                  /\ d.note.client = e.note.client =>
                    (d.note.n < e.note.n => ReadsBefore(d, e)) /\ (d.note.n = e.note.n => d = e)
    <3>1. CASE d \in file[r] /\ e \in file[r]
      BY <3>1 DEF OnceInv, FileInOrder
    <3>2. CASE r = q /\ d \in file[q] /\ e = new
      BY <2>4, <2>7, <3>2
    <3>3. CASE r = q /\ d = new /\ e \in file[q]
      BY <2>4, <2>7, <3>3
    <3>4. CASE d = new /\ e = new
      <4>1. head.n \in Nat
        BY <2>2 DEF Items
      <4> QED
        BY <2>4, <3>4, <4>1
    <3> QED
      BY <2>3, <3>1, <3>2, <3>3, <3>4
  <2> QED
    BY <2>5, <2>6, <2>8 DEF FileInOrder
<1>3. (\E t \in Threads : Write(t)) \/ file' = file
  BY DEF Next, Tick, TakeNumber, TakeTime, Notify, Publish, Chat, Audit, Request, Remember, RunRaises,
         Handle, Start, Report, Push, vars
<1> QED
  BY <1>1, <1>2, <1>3

\* Requests and replies come once and deliveries in order, in every reachable state.
LEMMA OnceInvHolds == Spec => []OnceInv
<1>1. Init => OnceInv
  <2> SUFFICES ASSUME Init  PROVE OnceInv
    OBVIOUS
  <2>1. agenda[Loop] = << >> /\ Len(agenda[Loop]) = 0
    BY ThreadFacts DEF Init
  <2>2. LoopInOrder
    BY <2>1 DEF LoopInOrder, InOrder
  <2>3. FileInOrder
    BY DEF Init, FileInOrder
  <2> QED
    BY <2>2, <2>3 DEF OnceInv
<1>2. OnceInv /\ CauseInv /\ [Next]_vars => OnceInv'
  BY LoopInOrderNext, FileInOrderNext DEF OnceInv
<1> QED
  BY <1>1, <1>2, CauseInvHolds, PTL DEF Spec

-------------------------------------------------------------------------------
(* What is read before an entry.                                           *)

Earlier(r, e) == {d.note : d \in {d \in file[r] : ReadsBefore(d, e)}}

\* A note is read before e if an entry with it is.
LEMMA EarlierEntry ==
  ASSUME NEW r, NEW e, NEW y
  PROVE  y \in Earlier(r, e) <=> \E d \in file[r] : d.note = y /\ ReadsBefore(d, e)
BY DEF Earlier

\* Nothing is read both before and behind an entry, or before itself.
LEMMA ReadsOneWay ==
  ASSUME CauseInv, NEW r \in Runs, NEW d \in file[r], NEW e \in file[r]
  PROVE  ~(ReadsBefore(d, e) /\ ReadsBefore(e, d))
<1>1. d.stamp.seq \in Nat /\ d.stamp.ts \in Nat /\ e.stamp.seq \in Nat /\ e.stamp.ts \in Nat
  BY DEF CauseInv, Typed
<1> QED
  BY <1>1 DEF ReadsBefore

\* One entry of every required set is read before.
LEMMA RequiredRead ==
  ASSUME CauseInv, NEW r \in Runs, NEW e \in file[r], NEW alt \in Required(e.note)
  PROVE  \E d \in file[r] : d.note \in alt /\ ReadsBefore(d, e)
BY DEF CauseInv, CausesRead

\* Every entry has one of five kinds.
LEMMA EntryKinds ==
  ASSUME OnceInv, NEW r \in Runs, NEW e \in file[r]
  PROVE  /\ e.note.run = r /\ e.note.do = "record"
         /\ \/ e.note = RequestNote(r)
            \/ e.note = ReplyNote(r)
            \/ e.note.kind \in {"CORE", "CORE_TO_LLM", "LLM_TO_CORE", "TOOL", "CORE_TO_CLIENT"}
               /\ e.note.by \in {"run", "refresh", "task"}
BY DEF OnceInv, FileInOrder, FileEntry, Sources

\* An entry that is not of the request or its reply is read behind both.
LEMMA RequestIsRead ==
  ASSUME CauseInv, OnceInv, NEW r \in Runs, NEW e \in file[r], e.note # RequestNote(r)
  PROVE  /\ RequestNote(r) \in Earlier(r, e)
         /\ e.note # ReplyNote(r) => ReplyNote(r) \in Earlier(r, e)
<1>1. e.note.run = r /\ e.note.do = "record"
  BY EntryKinds
<1>2. e.note = ReplyNote(r) \/ (e.note.kind # "CLIENT_TO_CORE" /\ e.note.by # "reply")
  BY EntryKinds
<1>3. {RequestNote(r)} \in Required(e.note)
  BY <1>1, <1>2 DEF Required, ReplyNote, Note
<1>4. e.note # ReplyNote(r) => {ReplyNote(r)} \in Required(e.note)
  BY <1>1, <1>2 DEF Required
<1>5. RequestNote(r) \in Earlier(r, e)
  BY <1>3, RequiredRead, EarlierEntry
<1>6. e.note # ReplyNote(r) => ReplyNote(r) \in Earlier(r, e)
  BY <1>4, RequiredRead, EarlierEntry
<1> QED
  BY <1>5, <1>6

\* Only the request's entry is read before the reply's, and nothing before the request's.
LEMMA OpeningIsFirst ==
  ASSUME CauseInv, OnceInv, NEW r \in Runs, NEW e \in file[r]
  PROVE  /\ e.note = RequestNote(r) => Earlier(r, e) = {}
         /\ e.note = ReplyNote(r) => Earlier(r, e) = {RequestNote(r)}
<1>1. \A d \in file[r] : d.note = e.note /\ d.note \in {RequestNote(r), ReplyNote(r)} => d = e
  BY DEF OnceInv, FileInOrder
<1>2. RequestNote(r) # ReplyNote(r)
  BY DEF RequestNote, ReplyNote, Note
<1>3. ASSUME NEW d \in file[r], ReadsBefore(d, e), e.note \in {RequestNote(r), ReplyNote(r)}
      PROVE  d.note = RequestNote(r) /\ e.note = ReplyNote(r)
  <2>1. e.note \notin Earlier(r, d)
    <3> SUFFICES ASSUME e.note \in Earlier(r, d)  PROVE FALSE
      OBVIOUS
    <3>1. PICK q \in file[r] : q.note = e.note /\ ReadsBefore(q, d)
      BY EarlierEntry
    <3>2. q = e
      BY <1>1, <1>3, <3>1
    <3> QED
      BY <1>3, <3>1, <3>2, ReadsOneWay
  <2>2. e.note # d.note
    <3> SUFFICES ASSUME e.note = d.note  PROVE FALSE
      OBVIOUS
    <3>1. d = e
      BY <1>1, <1>3
    <3> QED
      BY <1>3, <3>1, ReadsOneWay
  <2>3. d.note = RequestNote(r)
    BY <1>3, <2>1, <2>2, RequestIsRead
  <2> QED
    BY <1>3, <2>2, <2>3
<1>4. e.note = RequestNote(r) => Earlier(r, e) = {}
  <2> SUFFICES ASSUME e.note = RequestNote(r), NEW y \in Earlier(r, e)  PROVE FALSE
    OBVIOUS
  <2> QED
    BY <1>2, <1>3, EarlierEntry
<1>5. e.note = ReplyNote(r) => Earlier(r, e) = {RequestNote(r)}
  <2> SUFFICES ASSUME e.note = ReplyNote(r)  PROVE Earlier(r, e) = {RequestNote(r)}
    OBVIOUS
  <2>1. RequestNote(r) \in Earlier(r, e)
    BY <1>2, RequestIsRead
  <2>2. ASSUME NEW y \in Earlier(r, e)  PROVE y = RequestNote(r)
    BY <1>3, <2>2, EarlierEntry
  <2> QED
    BY <2>1, <2>2
<1> QED
  BY <1>4, <1>5

\* What an event, a call or a delivery requires besides is read before it.
LEMMA CausesAreRead ==
  ASSUME CauseInv, OnceInv, NEW r \in Runs, NEW e \in file[r],
         e.note \notin {RequestNote(r), ReplyNote(r)}
  PROVE  /\ e.note.kind \in {"CORE", "CORE_TO_LLM", "TOOL"} /\ e.note.n > 1 =>
              \E y \in Lasts(r, e.note.by, e.note.n - 1) : y \in Earlier(r, e)
         /\ e.note.kind = "LLM_TO_CORE" =>
              Note("CORE_TO_LLM", r, e.note.by, e.note.n, NoOne) \in Earlier(r, e)
         /\ e.note.kind = "CORE_TO_CLIENT" =>
              Note("CORE", r, e.note.by, e.note.n, NoOne) \in Earlier(r, e)
<1>1. /\ e.note.run = r /\ e.note.do = "record"
      /\ e.note.kind \in {"CORE", "CORE_TO_LLM", "LLM_TO_CORE", "TOOL", "CORE_TO_CLIENT"}
      /\ e.note.by \in {"run", "refresh", "task"}
  BY EntryKinds
<1>2. ASSUME NEW alt \in Causes(e.note)  PROVE alt \in Required(e.note)
  BY <1>1, <1>2 DEF Required
<1>3. ASSUME NEW alt \in Causes(e.note)  PROVE \E y \in alt : y \in Earlier(r, e)
  <2>1. PICK d \in file[r] : d.note \in alt /\ ReadsBefore(d, e)
    BY <1>2, <1>3, RequiredRead
  <2> QED
    BY <2>1, EarlierEntry
<1>4. e.note.kind \in {"CORE", "CORE_TO_LLM", "TOOL"} /\ e.note.n > 1 =>
        Lasts(r, e.note.by, e.note.n - 1) \in Causes(e.note)
  BY <1>1 DEF Causes
<1>5. e.note.kind = "LLM_TO_CORE" =>
        {Note("CORE_TO_LLM", r, e.note.by, e.note.n, NoOne)} \in Causes(e.note)
  BY <1>1 DEF Causes
<1>6. e.note.kind = "CORE_TO_CLIENT" =>
        {Note("CORE", r, e.note.by, e.note.n, NoOne)} \in Causes(e.note)
  BY <1>1 DEF Causes
<1>7. e.note.kind \in {"CORE", "CORE_TO_LLM", "TOOL"} /\ e.note.n > 1 =>
        \E y \in Lasts(r, e.note.by, e.note.n - 1) : y \in Earlier(r, e)
  BY <1>3, <1>4
<1>8. e.note.kind = "LLM_TO_CORE" =>
        Note("CORE_TO_LLM", r, e.note.by, e.note.n, NoOne) \in Earlier(r, e)
  BY <1>3, <1>5
<1>9. e.note.kind = "CORE_TO_CLIENT" =>
        Note("CORE", r, e.note.by, e.note.n, NoOne) \in Earlier(r, e)
  BY <1>3, <1>6
<1> QED
  BY <1>7, <1>8, <1>9

\* What a client was sent of a thread's events before is of earlier events.
LEMMA DeliveriesInOrder ==
  ASSUME CauseInv, OnceInv, NEW r \in Runs, NEW e \in file[r],
         e.note.kind = "CORE_TO_CLIENT", e.note.by # "reply",
         NEW y \in Earlier(r, e),
         y.kind = "CORE_TO_CLIENT", y.client = e.note.client, y.by = e.note.by
  PROVE  y.n < e.note.n
<1>1. PICK d \in file[r] : d.note = y /\ ReadsBefore(d, e)
  BY EarlierEntry
<1>2. IsDelivery(e.note) /\ IsDelivery(d.note)
  BY <1>1 DEF IsDelivery
<1>3. d.note.n \in Nat /\ e.note.n \in Nat
  BY DEF CauseInv, Typed, Items
<1>4. /\ e.note.n < d.note.n => ReadsBefore(e, d)
      /\ e.note.n = d.note.n => e = d
  BY <1>1, <1>2 DEF OnceInv, FileInOrder
<1>5. ~(e.note.n < d.note.n) /\ e.note.n # d.note.n
  BY <1>1, <1>4, ReadsOneWay
<1> QED
  BY <1>1, <1>3, <1>5

-------------------------------------------------------------------------------
(***************************************************************************)
(* A run's trace, read at any time, tells its story in order, however many *)
(* runs and clients there are, events a run publishes and milliseconds     *)
(* pass, and however the loop and the two threads of the run come between  *)
(* each other's record(): the request's entry is read first and its reply  *)
(* second; an event or a call behind the one its thread made before, the   *)
(* model's answer behind the question; a copy sent to a client behind the  *)
(* event and behind the copies of the thread's earlier events.             *)
(***************************************************************************)
THEOREM TraceInOrder == Spec => []StoryInOrder
<1>1. ASSUME CauseInv, OnceInv  PROVE StoryInOrder
  <2>1. ASSUME NEW r \in Runs, NEW e \in file[r], NEW earlier, earlier = Earlier(r, e)
        PROVE
    LET told(kind, by, n) == Note(kind, r, by, n, NoOne) \in earlier
    IN  CASE e.note.kind = "CLIENT_TO_CORE" -> earlier = {}
          [] e.note.by = "reply" ->
               earlier = {Note("CLIENT_TO_CORE", r, "client", 0, NoOne)}
          [] e.note.kind \in {"CORE", "CORE_TO_LLM", "TOOL"} ->
               /\ told("CORE_TO_CLIENT", "reply", 0)
               /\ e.note.n > 1 => \E last \in {"CORE", "LLM_TO_CORE", "TOOL"} :
                                    told(last, e.note.by, e.note.n - 1)
          [] e.note.kind = "LLM_TO_CORE" -> told("CORE_TO_LLM", e.note.by, e.note.n)
          [] OTHER ->
               /\ told("CORE", e.note.by, e.note.n)
               /\ \A d \in earlier :
                    d.kind = "CORE_TO_CLIENT" /\ d.client = e.note.client /\ d.by = e.note.by
                      => d.n < e.note.n
    <3>1. CASE e.note = RequestNote(r)
      <4>1. earlier = {} /\ e.note.kind = "CLIENT_TO_CORE" /\ e.note.by # "reply"
        BY <1>1, <2>1, <3>1, OpeningIsFirst DEF RequestNote, Note
      <4> QED
        BY <4>1
    <3>2. CASE e.note = ReplyNote(r)
      <4>1. e.note.kind = "CORE_TO_CLIENT" /\ e.note.by = "reply"
        BY <3>2 DEF ReplyNote, Note
      <4>2. earlier = {RequestNote(r)}
        BY <1>1, <2>1, <3>2, OpeningIsFirst
      <4>3. earlier = {Note("CLIENT_TO_CORE", r, "client", 0, NoOne)}
        BY <4>2 DEF RequestNote
      <4> QED
        BY <4>1, <4>3
    <3>3. CASE e.note \notin {RequestNote(r), ReplyNote(r)}
      <4>1. /\ e.note.kind \in {"CORE", "CORE_TO_LLM", "LLM_TO_CORE", "TOOL", "CORE_TO_CLIENT"}
            /\ e.note.by # "reply"
        BY <1>1, <3>3, EntryKinds
      <4>2. Note("CORE_TO_CLIENT", r, "reply", 0, NoOne) \in earlier
        BY <1>1, <2>1, <3>3, RequestIsRead DEF ReplyNote
      <4>3. /\ e.note.kind \in {"CORE", "CORE_TO_LLM", "TOOL"} /\ e.note.n > 1 =>
                 \E last \in {"CORE", "LLM_TO_CORE", "TOOL"} :
                   Note(last, r, e.note.by, e.note.n - 1, NoOne) \in earlier
            /\ e.note.kind = "LLM_TO_CORE" =>
                 Note("CORE_TO_LLM", r, e.note.by, e.note.n, NoOne) \in earlier
            /\ e.note.kind = "CORE_TO_CLIENT" =>
                 Note("CORE", r, e.note.by, e.note.n, NoOne) \in earlier
        BY <1>1, <2>1, <3>3, CausesAreRead DEF Lasts
      <4>4. e.note.kind = "CORE_TO_CLIENT" =>
              \A d \in earlier :
                d.kind = "CORE_TO_CLIENT" /\ d.client = e.note.client /\ d.by = e.note.by
                  => d.n < e.note.n
        BY <1>1, <2>1, <4>1, DeliveriesInOrder
      <4>5. CASE e.note.kind \in {"CORE", "CORE_TO_LLM", "TOOL"}
        BY <4>1, <4>2, <4>3, <4>5
      <4>6. CASE e.note.kind = "LLM_TO_CORE"
        BY <4>1, <4>3, <4>6
      <4>7. CASE e.note.kind = "CORE_TO_CLIENT"
        BY <4>1, <4>3, <4>4, <4>7
      <4> QED
        BY <4>1, <4>5, <4>6, <4>7
    <3> QED
      BY <3>1, <3>2, <3>3
  <2> QED
    BY <2>1, ZenonT(60) DEF StoryInOrder, Earlier
<1> QED
  BY <1>1, CauseInvHolds, OnceInvHolds, PTL
===============================================================================
