-------------------------- MODULE SessionMemoryProofs --------------------------
(***************************************************************************)
(* What SessionMemory promises, for any number of runs, threads and        *)
(* processes, any set of faults and any bound on the kills: its types, the *)
(* summary and the log, then the refresh scheduler, what a remembered run  *)
(* may rely on, which record a sequence number and an accepted summary     *)
(* mean, and last, in MemoryReuse, what is left of this when the session's *)
(* id is deleted and used again, for any bound on the deletions.  A        *)
(* theorem that holds only without some fault, or without UpdateMemory in  *)
(* another process, says so in its ASSUME.                                 *)
(***************************************************************************)
EXTENDS MemoryReuse, SequenceTheorems, TLAPS

-------------------------------------------------------------------------------
(* Types.                                                                  *)

(***************************************************************************)
(* A refresh has merged no more records than its goal, and its goal lies   *)
(* in its snapshot.  Without this the next batch could reach past the end  *)
(* of the snapshot, and TypeOK would not be inductive.                     *)
(***************************************************************************)
WorkBounded ==
  \A t \in Threads : /\ work[t].covered <= work[t].goal
                     /\ work[t].goal <= Len(work[t].source)

\* The types, with those bounds: inductive.
TypeInv == TypeOK /\ WorkBounded

(***************************************************************************)
(* Reading the control file yields a control file.                         *)
(***************************************************************************)
LEMMA ReadStateType ==
  ASSUME TypeOK, NEW n \in Nat
  PROVE  ReadState(n) \in StateFile
BY DEF TypeOK, ReadState, StateFile, Statuses, Smaller

(***************************************************************************)
(* The constants of the control flow have their types.                     *)
(***************************************************************************)
LEMMA ConstantTypes ==
  /\ DefaultState \in StateFile
  /\ NoSummary \in Summaries
  /\ NoWork \in Works
  /\ \A t \in Threads : Process(t) \in Processes
BY SessionMemoryAssumption
   DEF DefaultState, StateFile, Statuses, NoSummary, Summaries, NoWork, Works,
       Process, Processes, Threads

(***************************************************************************)
(* Replacing a field of a refresh in progress leaves one.                  *)
(***************************************************************************)
LEMMA WorkUpdates ==
  ASSUME NEW w \in Works, NEW n \in Nat, NEW s \in Seq(Runs)
  PROVE  /\ [w EXCEPT !.text = w.text \o s] \in Works
         /\ [w EXCEPT !.seen = n] \in Works
         /\ [w EXCEPT !.covered = n] \in Works
<1>1. w.text \o s \in Seq(Runs)
  BY DEF Works
<1> QED
  BY <1>1 DEF Works

(***************************************************************************)
(* A subsequence inside a sequence is a sequence over the same set.        *)
(***************************************************************************)
LEMMA SubSeqType ==
  ASSUME NEW S, NEW s \in Seq(S), NEW m \in Nat \ {0}, NEW n \in Nat, n <= Len(s)
  PROVE  SubSeq(s, m, n) \in Seq(S)
BY SubSeqProperties

(***************************************************************************)
(* Continuing a line that had not ended takes at most the last record.     *)
(***************************************************************************)
LEMMA ContinuedIsPrefix ==
  ASSUME TypeOK
  PROVE  /\ Continued \in Seq(Runs)
         /\ \/ Continued = records
            \/ /\ tail = "unended" /\ records # << >>
               /\ Continued = SubSeq(records, 1, Len(records) - 1)
               /\ Len(Continued) = Len(records) - 1
               /\ \A i \in 1..Len(Continued) : Continued[i] = records[i]
<1>0. records \in Seq(Runs) /\ Len(records) \in Nat
  BY DEF TypeOK
<1>1. CASE tail # "unended"
  BY <1>0, <1>1 DEF Continued
<1>2. CASE tail = "unended" /\ records = << >>
  <2>1. SubSeq(<< >>, 1, 0 - 1) = << >>
    OBVIOUS
  <2> QED
    BY <1>0, <1>2, <2>1 DEF Continued
<1>3. CASE tail = "unended" /\ records # << >>
  <2>1. Len(records) > 0
    BY <1>0, <1>3, EmptySeq
  <2>2. Continued = SubSeq(records, 1, Len(records) - 1)
    BY <1>3 DEF Continued
  <2>3. /\ SubSeq(records, 1, Len(records) - 1) \in Seq(Runs)
        /\ Len(SubSeq(records, 1, Len(records) - 1)) = Len(records) - 1
        /\ \A i \in 1..Len(records) - 1 : SubSeq(records, 1, Len(records) - 1)[i] = records[i]
    <3> DEFINE n == Len(records) - 1
    <3>1. n \in Nat /\ n <= Len(records) /\ 1 \in 1..Len(records) + 1 /\ n \in 1 - 1..Len(records)
      BY <1>0, <2>1
    <3> HIDE DEF n
    <3>2. /\ SubSeq(records, 1, n) \in Seq(Runs) /\ Len(SubSeq(records, 1, n)) = n
          /\ \A i \in 1..n : SubSeq(records, 1, n)[i] = records[i]
      BY <1>0, <3>1, SubSeqProperties
    <3> QED
      BY <3>2 DEF n
  <2> QED
    BY <1>0, <1>3, <2>1, <2>2, <2>3
<1> QED
  BY <1>1, <1>2, <1>3

(***************************************************************************)
(* What a refresh has merged after its next batch.                         *)
(***************************************************************************)
LEMMA NextCoveredBounds ==
  ASSUME TypeInv, NEW t \in Threads
  PROVE  /\ NextCovered(t) \in Nat
         /\ work[t].covered <= NextCovered(t)
         /\ NextCovered(t) <= work[t].goal
         /\ NextCovered(t) <= Len(work[t].source)
<1>1. work[t] \in Works /\ Len(work[t].source) \in Nat
  BY DEF TypeInv, TypeOK, Works
<1> QED
  BY <1>1, SessionMemoryAssumption DEF TypeInv, WorkBounded, NextCovered, Smaller, Works

(***************************************************************************)
(* Every start is well typed.                                              *)
(***************************************************************************)
LEMMA TypeInit == Init => TypeInv
<1> SUFFICES ASSUME Init PROVE TypeInv
  OBVIOUS
<1>1. records \in Seq(Runs)
  BY DEF Init
<1>8. tail \in Tails /\ running \in BOOLEAN
  BY DEF Init, Tails
<1>2. state \in StateFile /\ summary \in Summaries
  BY ConstantTypes DEF Init
<1>3. /\ lock \in [Processes -> Threads \cup {NoThread}]
      /\ summaryLock \in [Processes -> Threads \cup {NoThread}]
  BY DEF Init
<1>4. pc \in [Threads -> Labels]
  BY DEF Init, Labels
<1>5. view \in [Threads -> StateFile] /\ work \in [Threads -> Works]
  BY ConstantTypes DEF Init
<1>6. targets \in Nat /\ target \in [Threads -> Nat] /\ crashes \in Nat
  BY DEF Init
<1>7. WorkBounded
  BY DEF Init, WorkBounded, NoWork
<1> QED
  BY <1>1, <1>2, <1>3, <1>4, <1>5, <1>6, <1>7, <1>8 DEF TypeInv, TypeOK

(***************************************************************************)
(* Lock sections, moves and the end of a refresh keep their variables'     *)
(* types.                                                                  *)
(***************************************************************************)
LEMMA EnterType ==
  ASSUME TypeOK, NEW t \in Threads, NEW st \in StateFile, Enter(t, st)
  PROVE  /\ lock' \in [Processes -> Threads \cup {NoThread}]
         /\ view' \in [Threads -> StateFile]
BY ConstantTypes DEF TypeOK, Enter

\* Leaving a file lock keeps its types.
LEMMA LeaveType ==
  ASSUME TypeOK, NEW t \in Threads, Leave(t)
  PROVE  /\ lock' \in [Processes -> Threads \cup {NoThread}]
         /\ view' \in [Threads -> StateFile]
BY ConstantTypes DEF TypeOK, Leave

\* So does a move to another label.
LEMMA GotoType ==
  ASSUME TypeOK, NEW t, NEW label \in Labels, Goto(t, label)
  PROVE  pc' \in [Threads -> Labels]
BY DEF TypeOK, Goto

\* So does the end of a refresh.
LEMMA EndWorkType ==
  ASSUME TypeInv, NEW t \in Threads, EndWork(t)
  PROVE  /\ summaryLock' \in [Processes -> Threads \cup {NoThread}]
         /\ work' \in [Threads -> Works]
         /\ WorkBounded'
<1>1. /\ summaryLock' \in [Processes -> Threads \cup {NoThread}]
      /\ work' \in [Threads -> Works]
  BY ConstantTypes DEF TypeInv, TypeOK, EndWork
<1>2. NoWork.covered <= NoWork.goal /\ NoWork.goal <= Len(NoWork.source)
  BY DEF NoWork
<1>3. WorkBounded'
  BY <1>2 DEF TypeInv, TypeOK, WorkBounded, EndWork
<1> QED
  BY <1>1, <1>3

(***************************************************************************)
(* The steps of a run are well typed.                                      *)
(***************************************************************************)
LEMMA TypeRunStep ==
  ASSUME TypeInv, NEW r \in Runs, RunStep(r)
  PROVE  TypeInv'
<1> USE DEF TypeInv, TypeOK, files, locks, scheduler
<1>0. r \in Threads /\ Len(records) \in Nat /\ ReadState(Len(records)) \in StateFile
  BY ReadStateType DEF Threads
<1>1. CASE RememberAppend(r)
  <2>1. records' \in Seq(Runs)
    BY <1>1, ContinuedIsPrefix DEF RememberAppend
  <2>3. tail' \in Tails
    BY <1>1 DEF RememberAppend, Tails
  <2>2. pc' \in [Threads -> Labels]
    BY <1>1, GotoType DEF RememberAppend, Labels
  <2> QED
    BY <1>0, <1>1, <2>1, <2>2, <2>3, EnterType DEF RememberAppend, WorkBounded
<1>2. CASE RememberWrite(r)
  <2>1. pc' \in [Threads -> Labels]
    BY <1>2, GotoType DEF RememberWrite, Labels
  <2>2. state' \in StateFile
    BY <1>0, <1>2 DEF RememberWrite, StateFile, Statuses
  <2> QED
    BY <1>0, <1>2, <2>1, <2>2, LeaveType DEF RememberWrite, WorkBounded
<1>3. CASE ReserveSuppressed(r)
  <2>1. pc' \in [Threads -> Labels]
    BY <1>3, GotoType DEF ReserveSuppressed, Labels
  <2> QED
    BY <1>0, <1>3, <2>1 DEF ReserveSuppressed, WorkBounded
<1>4. CASE ReserveRead(r)
  <2>1. pc' \in [Threads -> Labels]
    BY <1>4, GotoType DEF ReserveRead, Labels
  <2> QED
    BY <1>0, <1>4, <2>1, EnterType DEF ReserveRead, WorkBounded
<1>5. CASE ReserveWrite(r)
  <2>1. pc' \in [Threads -> Labels]
    BY <1>5, GotoType DEF ReserveWrite, Labels
  <2>2. state' \in StateFile
    BY <1>0, <1>5 DEF ReserveWrite, StateFile, Statuses
  <2>3. target' \in [Threads -> Nat]
    BY <1>0, <1>5 DEF ReserveWrite
  <2> QED
    BY <1>0, <1>5, <2>1, <2>2, <2>3, LeaveType DEF ReserveWrite, WorkBounded
<1>6. CASE Enqueue(r)
  <2>1. running' \in BOOLEAN
    BY <1>6 DEF Enqueue
  <2>2. pc' \in [Threads -> Labels]
    BY <1>0, <1>6 DEF Enqueue, Goto, Labels
  <2>3. targets' \in Nat
    BY <1>0, <1>6 DEF Enqueue, Larger
  <2> QED
    BY <1>0, <1>6, <2>1, <2>2, <2>3 DEF Enqueue, WorkBounded
<1> QED
  BY <1>1, <1>2, <1>3, <1>4, <1>5, <1>6 DEF RunStep

(***************************************************************************)
(* The steps of a refresh are well typed.                                  *)
(***************************************************************************)
LEMMA TypeRefreshStep ==
  ASSUME TypeInv, NEW t \in Threads, RefreshStep(t)
  PROVE  TypeInv'
<1> USE DEF TypeInv, TypeOK, files, locks, scheduler
<1>0. /\ Len(records) \in Nat
      /\ AfterRefresh(t) \in Labels /\ AfterError(t) \in Labels
      /\ work[t] \in Works
  BY DEF AfterRefresh, AfterError, Labels
<1>n. /\ NextCovered(t) \in Nat
      /\ work[t].covered <= NextCovered(t)
      /\ NextCovered(t) <= work[t].goal
      /\ NextCovered(t) <= Len(work[t].source)
  BY NextCoveredBounds
<1>1. CASE NothingToRefresh(t)
  <2>1. pc' \in [Threads -> Labels]
    BY <1>0, <1>1, GotoType DEF NothingToRefresh
  <2> QED
    BY <1>1, <2>1 DEF NothingToRefresh, WorkBounded
<1>2. CASE BeginRefresh(t)
  <2>1. pc' \in [Threads -> Labels]
    BY <1>2, GotoType DEF BeginRefresh, Labels
  <2>2. /\ CoveredNow \in Nat /\ Goal(t) \in Nat
        /\ CoveredNow <= Goal(t) /\ Goal(t) <= Len(records)
    BY <1>0, <1>2 DEF BeginRefresh, CoveredNow, Goal, Smaller, Summaries
  <2>3. work' \in [Threads -> Works]
    BY <1>2, <2>2 DEF BeginRefresh, Works, Summaries
  <2>4. WorkBounded'
    BY <1>2, <2>2 DEF BeginRefresh, WorkBounded
  <2>5. summaryLock' \in [Processes -> Threads \cup {NoThread}]
    BY <1>2 DEF BeginRefresh
  <2> QED
    BY <1>2, <2>1, <2>3, <2>4, <2>5 DEF BeginRefresh
<1>3. CASE Summarize(t)
  <2>1. pc' \in [Threads -> Labels]
    BY <1>3, GotoType DEF Summarize, Labels
  <2>2. SubSeq(work[t].source, work[t].covered + 1, NextCovered(t)) \in Seq(Runs)
    BY <1>0, <1>n, SubSeqType DEF Works
  <2>3. work' \in [Threads -> Works]
    BY <1>0, <1>3, <2>2, WorkUpdates DEF Summarize
  <2>4. WorkBounded'
    BY <1>3 DEF Summarize, WorkBounded, Works
  <2> QED
    BY <1>3, <2>1, <2>3, <2>4 DEF Summarize
<1>4. CASE SummarizeFails(t)
  <2>1. pc' \in [Threads -> Labels]
    BY <1>0, <1>4, GotoType DEF SummarizeFails
  <2> QED
    BY <1>4, <2>1, EndWorkType DEF SummarizeFails
<1>5. CASE CommitSummary(t)
  <2>1. CASE Len(records) >= NextCovered(t)
    <3>1. pc' \in [Threads -> Labels]
      BY <1>5, <2>1, GotoType DEF CommitSummary, Labels
    <3>2. SubSeq(records, 1, NextCovered(t)) \in Seq(Runs)
      BY <1>n, <2>1, SubSeqType
    <3>3. summary' \in Summaries
      <4>1. work[t].text \in Seq(Runs)
        BY <1>0 DEF Works
      <4>2. summary' = [covered |-> NextCovered(t),
                        digest |-> SubSeq(records, 1, NextCovered(t)),
                        text |-> work[t].text]
        BY <1>5, <2>1 DEF CommitSummary
      <4> QED
        BY <1>n, <3>2, <4>1, <4>2 DEF Summaries
    <3>4. work' \in [Threads -> Works]
      <4> DEFINE w == [work[t] EXCEPT !.seen = Len(records)]
      <4>1. work' = [work EXCEPT ![t] = w]
        BY <1>5, <2>1 DEF CommitSummary
      <4>2. w \in Works
        BY <1>0, WorkUpdates
      <4> QED
        BY <4>1, <4>2
    <3>5. WorkBounded'
      <4>1. /\ work' = [work EXCEPT ![t].seen = Len(records)] /\ work \in [Threads -> Works]
            /\ WorkBounded
        BY <1>0, <1>5, <2>1 DEF CommitSummary, TypeInv, TypeOK
      <4>2. ASSUME NEW q \in Threads
            PROVE  /\ work'[q].covered = work[q].covered /\ work'[q].goal = work[q].goal
                   /\ work'[q].source = work[q].source
        BY <4>1 DEF Works
      <4> QED
        BY <4>1, <4>2 DEF WorkBounded
    <3>6. lock' \in [Processes -> Threads \cup {NoThread}]
      BY <1>5, <2>1 DEF CommitSummary
    <3> QED
      BY <1>5, <2>1, <3>1, <3>3, <3>4, <3>5, <3>6 DEF CommitSummary
  <2>2. CASE ~(Len(records) >= NextCovered(t))
    <3>1. EndWork(t) /\ Goto(t, AfterError(t)) /\ UNCHANGED <<summary, lock>>
      BY <1>5, <2>2 DEF CommitSummary
    <3>2. pc' \in [Threads -> Labels]
      BY <1>0, <3>1, GotoType
    <3> QED
      BY <1>5, <3>1, <3>2, EndWorkType DEF CommitSummary
  <2> QED
    BY <2>1, <2>2
<1>6. CASE CommitRead(t)
  <2>1. pc' \in [Threads -> Labels]
    BY <1>6, GotoType DEF CommitRead, Labels
  <2>2. view' \in [Threads -> StateFile]
    BY <1>0, <1>6, ReadStateType DEF CommitRead, Works
  <2> QED
    BY <1>6, <2>1, <2>2 DEF CommitRead, WorkBounded
<1>7. CASE CommitWrite(t)
  <2>1. state' \in StateFile
    BY <1>n, <1>7 DEF CommitWrite, StateFile, Statuses
  <2>2. /\ lock' \in [Processes -> Threads \cup {NoThread}]
        /\ view' \in [Threads -> StateFile]
    BY <1>7, LeaveType DEF CommitWrite
  <2>3. CASE NextCovered(t) < work[t].goal
    <3>1. pc' \in [Threads -> Labels]
      BY <1>7, <2>3, GotoType DEF CommitWrite, Labels
    <3>2. work' \in [Threads -> Works]
      <4> DEFINE w == [work[t] EXCEPT !.covered = NextCovered(t)]
      <4>1. work' = [work EXCEPT ![t] = w]
        BY <1>7, <2>3 DEF CommitWrite
      <4>2. w \in Works
        BY <1>0, <1>n, WorkUpdates
      <4> QED
        BY <1>0, <4>1, <4>2
    <3>3. WorkBounded'
      BY <1>n, <1>7, <2>3 DEF CommitWrite, WorkBounded, Works
    <3> QED
      BY <1>7, <2>1, <2>2, <2>3, <3>1, <3>2, <3>3 DEF CommitWrite
  <2>4. CASE ~(NextCovered(t) < work[t].goal)
    <3>1. EndWork(t) /\ Goto(t, AfterRefresh(t))
      BY <1>7, <2>4 DEF CommitWrite
    <3>2. pc' \in [Threads -> Labels]
      BY <1>0, <3>1, GotoType
    <3> QED
      BY <1>7, <2>1, <2>2, <3>1, <3>2, EndWorkType DEF CommitWrite
  <2> QED
    BY <2>3, <2>4
<1> QED
  BY <1>1, <1>2, <1>3, <1>4, <1>5, <1>6, <1>7 DEF RefreshStep

(***************************************************************************)
(* The scheduler's own steps are well typed.                               *)
(***************************************************************************)
LEMMA TypeSchedulerStep ==
  ASSUME TypeInv, NEW w \in Workers,
         \/ Pop(w) \/ MarkRead(w) \/ MarkWrite(w) \/ Settle(w)
         \/ FailRead(w) \/ FailWrite(w) \/ AfterFailure(w)
  PROVE  TypeInv'
<1> USE DEF TypeInv, TypeOK, files, locks, scheduler
<1>0. w \in Threads /\ Len(records) \in Nat /\ ReadState(Len(records)) \in StateFile
  BY ReadStateType DEF Threads
<1>1. CASE Pop(w)
  <2>1. pc' \in [Threads -> Labels]
    BY <1>1, GotoType DEF Pop, Labels
  <2>2. target' \in [Threads -> Nat]
    BY <1>1 DEF Pop
  <2> QED
    BY <1>1, <2>1, <2>2 DEF Pop, WorkBounded
<1>2. CASE MarkRead(w)
  <2>1. pc' \in [Threads -> Labels]
    BY <1>2, GotoType DEF MarkRead, Labels
  <2>2. /\ lock' \in [Processes -> Threads \cup {NoThread}]
        /\ view' \in [Threads -> StateFile]
    BY <1>0, <1>2, EnterType DEF MarkRead
  <2> QED
    BY <1>2, <2>1, <2>2 DEF MarkRead, WorkBounded
<1>3. CASE MarkWrite(w)
  <2>1. pc' \in [Threads -> Labels]
    BY <1>3, GotoType DEF MarkWrite, Labels
  <2>2. state' \in StateFile
    BY <1>0, <1>3 DEF MarkWrite, StateFile, Statuses
  <2> QED
    BY <1>0, <1>3, <2>1, <2>2, LeaveType DEF MarkWrite, WorkBounded
<1>r. ASSUME Retire(w)
      PROVE  /\ running' \in BOOLEAN
             /\ pc' \in [Threads -> Labels]
             /\ target' \in [Threads -> Nat]
  <2>1. pc' \in [Threads -> Labels]
    BY <1>r, GotoType DEF Retire, Labels
  <2>2. running' \in BOOLEAN
    BY <1>r DEF Retire
  <2> QED
    BY <1>r, <2>1, <2>2 DEF Retire
<1>4. CASE Settle(w)
  <2>1. /\ running' \in BOOLEAN
        /\ pc' \in [Threads -> Labels]
        /\ target' \in [Threads -> Nat]
    <3>1. CASE targets = 0
      BY <1>4, <1>r, <3>1 DEF Settle
    <3>2. CASE targets # 0
      <4>1. Goto(w, "pop") /\ UNCHANGED <<running, target>>
        BY <1>4, <3>2 DEF Settle
      <4>2. pc' \in [Threads -> Labels]
        BY <4>1, GotoType DEF Labels
      <4> QED
        BY <4>1, <4>2
    <3> QED
      BY <3>1, <3>2
  <2> QED
    BY <1>4, <2>1 DEF Settle, WorkBounded
<1>5. CASE FailRead(w)
  <2>1. pc' \in [Threads -> Labels]
    BY <1>5, GotoType DEF FailRead, Labels
  <2> QED
    BY <1>0, <1>5, <2>1, EnterType DEF FailRead, WorkBounded
<1>6. CASE FailWrite(w)
  <2>1. pc' \in [Threads -> Labels]
    BY <1>6, GotoType DEF FailWrite, Labels
  <2>2. state' \in StateFile
    BY <1>0, <1>6 DEF FailWrite, Smaller, StateFile, Statuses
  <2> QED
    BY <1>0, <1>6, <2>1, <2>2, LeaveType DEF FailWrite, WorkBounded
<1>7. CASE AfterFailure(w)
  <2>1. /\ running' \in BOOLEAN
        /\ targets' \in Nat
        /\ pc' \in [Threads -> Labels]
        /\ target' \in [Threads -> Nat]
    <3>1. CASE targets > target[w]
      <4>1. Goto(w, "pop") /\ UNCHANGED <<scheduler, target>>
        BY <1>7, <3>1 DEF AfterFailure
      <4>2. pc' \in [Threads -> Labels]
        BY <4>1, GotoType DEF Labels
      <4> QED
        BY <4>1, <4>2
    <3>2. CASE ~(targets > target[w])
      BY <1>7, <1>r, <3>2 DEF AfterFailure
    <3> QED
      BY <3>1, <3>2
  <2> QED
    BY <1>7, <2>1 DEF AfterFailure, WorkBounded
<1> QED
  BY <1>1, <1>2, <1>3, <1>4, <1>5, <1>6, <1>7

(***************************************************************************)
(* The faults are well typed.                                              *)
(***************************************************************************)
LEMMA TypeFault ==
  ASSUME TypeInv, Fault
  PROVE  TypeInv'
<1> USE DEF TypeInv, TypeOK, files, locks, scheduler
<1>1. ASSUME NEW r \in Runs, RememberTorn(r) PROVE TypeInv'
  <2>1. pc' \in [Threads -> Labels]
    BY <1>1, GotoType DEF RememberTorn, Labels
  <2>2. records' \in Seq(Runs) /\ tail' \in Tails
    BY <1>1, ContinuedIsPrefix DEF RememberTorn, Tails
  <2> QED
    BY <1>1, <2>1, <2>2 DEF RememberTorn, WorkBounded
<1>5. ASSUME NEW r \in Runs, RememberUnended(r) PROVE TypeInv'
  <2>1. pc' \in [Threads -> Labels]
    BY <1>5, GotoType DEF RememberUnended, Labels
  <2>2. records' \in Seq(Runs) /\ tail' \in Tails
    BY <1>5 DEF RememberUnended, Tails
  <2> QED
    BY <1>5, <2>1, <2>2 DEF RememberUnended, WorkBounded
<1>2. ASSUME NEW w \in Workers, ReportRaises(w) PROVE TypeInv'
  <2>1. pc' \in [Threads -> Labels]
    BY <1>2, GotoType DEF ReportRaises, Labels
  <2> QED
    BY <1>2, <2>1 DEF ReportRaises, WorkBounded
<1>3. ASSUME NEW t \in Threads, StateWriteFails(t) PROVE TypeInv'
  <2>1. pc' \in [Threads -> Labels]
    <3>1. AfterWriteError(t) \in Labels
      BY DEF AfterWriteError, AfterError, Labels
    <3> QED
      BY <1>3, <3>1, GotoType DEF StateWriteFails
  <2>2. /\ lock' \in [Processes -> Threads \cup {NoThread}]
        /\ view' \in [Threads -> StateFile]
    BY <1>3, LeaveType DEF StateWriteFails
  <2>3. /\ summaryLock' \in [Processes -> Threads \cup {NoThread}]
        /\ work' \in [Threads -> Works]
        /\ WorkBounded'
    BY <1>3, EndWorkType DEF StateWriteFails, WorkBounded
  <2> QED
    BY <1>3, <2>1, <2>2, <2>3 DEF StateWriteFails
<1>4. ASSUME NEW p \in Processes, Kill(p) PROVE TypeInv'
  <2>1. pc' \in [Threads -> Labels]
    <3>1. \A t \in Threads : AfterKill(t) \in Labels
      BY DEF AfterKill, Labels
    <3> QED
      BY <1>4, <3>1 DEF Kill
  <2>2. /\ lock' \in [Processes -> Threads \cup {NoThread}]
        /\ summaryLock' \in [Processes -> Threads \cup {NoThread}]
        /\ view' \in [Threads -> StateFile]
    BY <1>4, ConstantTypes DEF Kill
  <2>3. work' \in [Threads -> Works]
    BY <1>4, ConstantTypes DEF Kill
  <2>4. WorkBounded'
    <3>1. NoWork.covered <= NoWork.goal /\ NoWork.goal <= Len(NoWork.source)
      BY DEF NoWork
    <3> QED
      BY <1>4, <3>1 DEF Kill, WorkBounded
  <2>5. target' \in [Threads -> Nat] /\ targets' \in Nat /\ crashes' \in Nat
    BY <1>4 DEF Kill
  <2>6. running' \in BOOLEAN
    BY <1>4 DEF Kill
  <2> QED
    BY <1>4, <2>1, <2>2, <2>3, <2>4, <2>5, <2>6 DEF Kill
<1> QED
  BY <1>1, <1>2, <1>3, <1>4, <1>5 DEF Fault

(***************************************************************************)
(* A call that could not read the log is well typed.                       *)
(***************************************************************************)
LEMMA TypeReadRaises ==
  ASSUME TypeInv, NEW t \in Threads, ReadRaises(t)
  PROVE  TypeInv'
<1>1. pc' \in [Threads -> Labels]
  <2>1. AfterReadError(t) \in Labels
    BY DEF AfterReadError, AfterError, Labels
  <2> QED
    BY <2>1, GotoType DEF ReadRaises, TypeInv
<1>2. /\ summaryLock' \in [Processes -> Threads \cup {NoThread}]
      /\ work' \in [Threads -> Works]
      /\ WorkBounded'
  BY EndWorkType DEF ReadRaises, TypeInv, TypeOK, WorkBounded
<1> QED
  BY <1>1, <1>2 DEF ReadRaises, TypeInv, TypeOK, files, scheduler

(***************************************************************************)
(* Every step keeps the types.                                             *)
(***************************************************************************)
LEMMA TypeStep == TypeInv /\ [Next]_vars => TypeInv'
<1> SUFFICES ASSUME TypeInv, [Next]_vars PROVE TypeInv'
  OBVIOUS
<1>1. ASSUME NEW r \in Runs, RunStep(r) PROVE TypeInv'
  BY <1>1, TypeRunStep
<1>2. ASSUME NEW w \in Workers, WorkerStep(w) PROVE TypeInv'
  <2>1. w \in Threads
    BY DEF Threads
  <2> QED
    BY <1>2, <2>1, TypeSchedulerStep, TypeRefreshStep DEF WorkerStep
<1>3. ASSUME NEW u \in Updaters, RefreshStep(u) PROVE TypeInv'
  <2>1. u \in Threads
    BY DEF Threads
  <2> QED
    BY <1>3, <2>1, TypeRefreshStep
<1>4. CASE UNCHANGED vars
  BY <1>4 DEF TypeInv, TypeOK, WorkBounded, vars, files, locks, scheduler
<1> QED
  BY <1>1, <1>2, <1>3, <1>4, TypeFault, TypeReadRaises DEF Next

(***************************************************************************)
(* The history only watches: every step is one of Next, or none.           *)
(***************************************************************************)
LEMMA CoreStep == [Next /\ Noted]_<<vars, history>> => [Next]_vars
OBVIOUS

(***************************************************************************)
(* Every variable has its type in every state of every behaviour.          *)
(***************************************************************************)
THEOREM TypeCorrect == Spec => []TypeOK
<1>1. TypeInv => TypeOK
  BY DEF TypeInv
<1> QED
  BY <1>1, TypeInit, TypeStep, CoreStep, PTL DEF Spec

-------------------------------------------------------------------------------
(* How the log changes.                                                    *)

(***************************************************************************)
(* Appending leaves every prefix as it was.                                *)
(***************************************************************************)
LEMMA PrefixOfAppend ==
  ASSUME NEW S, NEW s \in Seq(S), NEW e \in S, NEW n \in 0..Len(s)
  PROVE  SubSeq(Append(s, e), 1, n) = SubSeq(s, 1, n)
<1>1. /\ Append(s, e) \in Seq(S) /\ Len(Append(s, e)) = Len(s) + 1
      /\ \A i \in 1..Len(s) : Append(s, e)[i] = s[i]
  BY AppendProperties
<1> QED
  BY <1>1, SubSeqProperties

(***************************************************************************)
(* A prefix of a prefix, and a prefix extended by the records after it.    *)
(***************************************************************************)
LEMMA PrefixOfPrefix ==
  ASSUME NEW S, NEW s \in Seq(S), NEW k \in 0..Len(s), NEW m \in Nat \ {0}, NEW n \in 0..k
  PROVE  SubSeq(SubSeq(s, 1, k), m, n) = SubSeq(s, m, n)
BY SubSeqProperties

\* A prefix and the batch behind it are a longer prefix.
LEMMA PrefixExtended ==
  ASSUME NEW S, NEW s \in Seq(S), NEW n \in 0..Len(s), NEW m \in 0..n
  PROVE  SubSeq(s, 1, m) \o SubSeq(s, m + 1, n) = SubSeq(s, 1, n)
BY ConcatAdjacentSubSeq

(***************************************************************************)
(* The log as s, and later as r: every prefix is what it was.              *)
(***************************************************************************)
Grows(s, r) ==
  /\ Len(s) <= Len(r)
  /\ \A n \in 0..Len(s) : SubSeq(r, 1, n) = SubSeq(s, 1, n)

\* Only a run that remembers changes the log or its end.
LEMMA RecordsChange ==
  ASSUME TypeInv, [Next]_vars
  PROVE  \/ records' = records /\ tail' = tail
         \/ \E r \in Runs : RememberAppend(r) \/ RememberTorn(r) \/ RememberUnended(r)
BY DEF Next, RunStep, RefreshStep, WorkerStep, Fault, vars, files, locks, scheduler,
       RememberWrite, ReserveSuppressed, ReserveRead, ReserveWrite,
       Enqueue, Pop, MarkRead, MarkWrite, Settle, FailRead, FailWrite, AfterFailure,
       NothingToRefresh, BeginRefresh, Summarize, SummarizeFails, CommitSummary,
       CommitRead, CommitWrite, ReportRaises, StateWriteFails, Kill, ReadRaises

\* A log that is as it was, or longer by a record, has grown.
LEMMA AppendGrows ==
  ASSUME TypeInv, \/ records' = records
                  \/ \E r \in Runs : records' = Append(records, r)
  PROVE  Grows(records, records')
<1>1. records \in Seq(Runs) /\ Len(records) \in Nat
  BY DEF TypeInv, TypeOK
<1>2. CASE records' = records
  BY <1>1, <1>2 DEF Grows
<1>3. ASSUME NEW r \in Runs, records' = Append(records, r)  PROVE Grows(records, records')
  <2>1. Len(records') = Len(records) + 1
    BY <1>1, <1>3, AppendProperties
  <2>2. \A n \in 0..Len(records) : SubSeq(records', 1, n) = SubSeq(records, 1, n)
    BY <1>1, <1>3, PrefixOfAppend
  <2> QED
    BY <1>1, <2>1, <2>2 DEF Grows
<1> QED
  BY <1>2, <1>3

(***************************************************************************)
(* A step leaves the log, adds its run, or continues a line that had not   *)
(* ended.                                                                  *)
(***************************************************************************)
LEMMA RecordsMoves ==
  ASSUME TypeInv, [Next]_vars
  PROVE  \/ records' = records
         \/ /\ tail = "clean"
            /\ \E r \in Runs : /\ RememberAppend(r) \/ RememberUnended(r)
                               /\ records' = Append(records, r)
         \/ tail = "unended" /\ records' = Continued /\ records' # records
<1>1. TypeOK
  BY DEF TypeInv
<1>2. CASE records' = records /\ tail' = tail
  BY <1>2
<1>3. ASSUME NEW r \in Runs, RememberAppend(r) \/ RememberTorn(r) \/ RememberUnended(r)
      PROVE  \/ records' = records
             \/ tail = "clean" /\ (RememberAppend(r) \/ RememberUnended(r)) /\ records' = Append(records, r)
             \/ tail = "unended" /\ records' = Continued /\ records' # records
  BY <1>1, <1>3 DEF RememberAppend, RememberTorn, RememberUnended, Continued
<1> QED
  BY <1>2, <1>3, RecordsChange

\* The log grows, or lost its last record, which had not ended.
LEMMA RecordsGrow ==
  ASSUME TypeInv, [Next]_vars
  PROVE  \/ Grows(records, records')
         \/ /\ tail = "unended" /\ records # << >>
            /\ Len(records') = Len(records) - 1 /\ Len(records') < Len(records)
            /\ \A i \in 1..Len(records') : records'[i] = records[i]
<1>0. TypeOK /\ Len(records) \in Nat
  BY DEF TypeInv, TypeOK
<1>1. CASE \/ records' = records
           \/ \E r \in Runs : records' = Append(records, r)
  BY <1>1, AppendGrows
<1>2. CASE tail = "unended" /\ records' = Continued /\ records' # records
  <2>1. /\ records # << >> /\ Len(Continued) = Len(records) - 1
        /\ \A i \in 1..Len(Continued) : Continued[i] = records[i]
    BY <1>0, <1>2, ContinuedIsPrefix
  <2> QED
    BY <1>0, <1>2, <2>1
<1> QED
  BY <1>1, <1>2, RecordsMoves

-------------------------------------------------------------------------------
(* The summary tells what it claims.                                       *)

\* t's text already holds the next batch, which its covered does not count yet.
Merging(t) == pc[t] \in {"commit", "committing", "updating"}
\* How many records the text of t stands for, a batch not committed included.
Merged(t) == IF Merging(t) THEN NextCovered(t) ELSE work[t].covered

(***************************************************************************)
(* A refresh in progress works on a prefix of the log, and its text tells  *)
(* a prefix of that.                                                       *)
(***************************************************************************)
WorkTrue(t) ==
  /\ Len(work[t].source) <= Len(records)
  /\ work[t].source = SubSeq(records, 1, Len(work[t].source))
  /\ work[t].text = SubSeq(records, 1, Merged(t))

(***************************************************************************)
(* The summary file's text tells the records whose digest its header       *)
(* holds, valid or not.                                                    *)
(***************************************************************************)
SummaryTrue ==
  /\ summary.covered = Len(summary.digest)
  /\ summary.text = summary.digest

(***************************************************************************)
(* The inductive invariant behind SummaryFaithful: both are true, but for  *)
(* the refreshes that the history tells of.                                *)
(***************************************************************************)
SummaryInv ==
  /\ TypeInv
  /\ ~spoiled => SummaryTrue /\ \A t \in Threads \ straddling : WorkTrue(t)

\* A summary that is true and valid tells the records.
LEMMA TrueSummaryIsFaithful ==
  ASSUME TypeInv, SummaryTrue, SummaryIsValid
  PROVE  /\ summary.covered \in 0..Len(records)
         /\ summary.text = SubSeq(records, 1, summary.covered)
<1>1. /\ Len(records) \in Nat /\ TypeOK /\ state \in StateFile
  BY DEF TypeInv, TypeOK
<1>2. summary.covered = Smaller(state.covered, Len(records)) /\ summary.digest = SubSeq(records, 1, summary.covered)
  <2>1. ReadState(Len(records)).covered = Smaller(state.covered, Len(records))
    BY <1>1 DEF ReadState, StateFile
  <2> QED
    BY <2>1 DEF SummaryIsValid
<1> QED
  BY <1>1, <1>2 DEF SummaryTrue, Smaller, StateFile

\* It holds at first.
LEMMA SummaryInit == Init => TypeInv /\ SummaryTrue /\ \A t \in Threads : WorkTrue(t)
<1> SUFFICES ASSUME Init PROVE TypeInv /\ SummaryTrue /\ \A t \in Threads : WorkTrue(t)
  OBVIOUS
<1>1. TypeInv
  BY TypeInit
<1>2. SubSeq(records, 1, 0) = << >> /\ Len(records) = 0
  BY DEF Init
<1>3. SummaryTrue
  BY <1>2 DEF Init, SummaryTrue, NoSummary
<1>4. ASSUME NEW t \in Threads PROVE WorkTrue(t)
  <2>1. work[t] = NoWork /\ ~Merging(t)
    BY DEF Init, Merging
  <2> QED
    BY <1>2, <2>1 DEF WorkTrue, Merged, NoWork
<1> QED
  BY <1>1, <1>3, <1>4


(***************************************************************************)
(* A refresh that a step does not touch stays true, and one that ended is. *)
(***************************************************************************)
LEMMA WorkTrueKept ==
  ASSUME TypeInv, NEW t \in Threads, WorkTrue(t), Grows(records, records'),
         work'[t] = work[t], Merging(t)' <=> Merging(t)
  PROVE  WorkTrue(t)'
<1>1. /\ work[t] \in Works /\ Len(work[t].source) \in Nat
      /\ Len(records) \in Nat
      /\ NextCovered(t) \in Nat /\ NextCovered(t) <= Len(work[t].source)
      /\ work[t].covered \in Nat /\ work[t].covered <= Len(work[t].source)
  BY NextCoveredBounds DEF TypeInv, TypeOK, WorkBounded, Works
<1>2. NextCovered(t)' = NextCovered(t)
  BY DEF NextCovered
<1>3. Merged(t)' = Merged(t) /\ Merged(t) \in 0..Len(records)
  BY <1>1, <1>2 DEF Merged, WorkTrue
<1> QED
  BY <1>1, <1>3 DEF WorkTrue, Grows

\* A refresh that has ended claims nothing.
LEMMA WorkTrueEnded ==
  ASSUME TypeInv', NEW t \in Threads, work'[t] = NoWork
  PROVE  WorkTrue(t)'
<1>1. records' \in Seq(Runs) /\ SubSeq(records', 1, 0) = << >>
  BY DEF TypeInv, TypeOK
<1>2. Merged(t)' = 0
  BY SessionMemoryAssumption DEF Merged, NextCovered, NoWork, Smaller
<1> QED
  BY <1>1, <1>2 DEF WorkTrue, NoWork

(***************************************************************************)
(* Only the steps of a refresh and the faults touch a refresh.             *)
(***************************************************************************)
OtherStep ==
  \/ \E r \in Runs : RunStep(r) \/ RememberTorn(r) \/ RememberUnended(r)
  \/ \E w \in Workers : \/ Pop(w) \/ MarkRead(w) \/ MarkWrite(w) \/ Settle(w)
                         \/ FailRead(w) \/ FailWrite(w) \/ AfterFailure(w)
                         \/ ReportRaises(w)

\* The other steps leave refreshes and the summary alone.
LEMMA OtherSteps ==
  ASSUME TypeInv, OtherStep
  PROVE  /\ work' = work /\ summary' = summary
         /\ \A t \in Threads : Merging(t)' <=> Merging(t)
<1>1. work' = work /\ summary' = summary
  BY DEF OtherStep, RunStep, files, RememberAppend, RememberWrite, RememberTorn, RememberUnended,
         ReserveSuppressed, ReserveRead, ReserveWrite, Enqueue,
         Pop, MarkRead, MarkWrite, Settle, FailRead, FailWrite, AfterFailure, ReportRaises
<1>2. \A t \in Threads : Merging(t)' <=> Merging(t)
  <2>1. pc \in [Threads -> Labels]
    BY DEF TypeInv, TypeOK
  <2>2. CASE \E r \in Runs : RunStep(r) \/ RememberTorn(r) \/ RememberUnended(r)
    BY <2>1, <2>2
       DEF Merging, RunStep, RememberAppend, RememberWrite, RememberTorn, RememberUnended,
           ReserveSuppressed, ReserveRead, ReserveWrite, Enqueue, Goto
  <2>3. CASE \E w \in Workers : \/ Pop(w) \/ MarkRead(w) \/ MarkWrite(w) \/ Settle(w)
                                \/ FailRead(w) \/ FailWrite(w) \/ AfterFailure(w)
                                \/ ReportRaises(w)
    BY <2>1, <2>3
       DEF Merging, Goto, Retire, Pop, MarkRead, MarkWrite, Settle, FailRead, FailWrite,
           AfterFailure, ReportRaises
  <2> QED
    BY <2>2, <2>3 DEF OtherStep
<1> QED
  BY <1>1, <1>2

(***************************************************************************)
(* A refresh ends, or its thread is killed or fails to write.              *)
(***************************************************************************)
LEMMA EndWorkEnds ==
  ASSUME TypeInv, NEW t \in Threads, EndWork(t)
  PROVE  work'[t] = NoWork /\ \A q \in Threads : q # t => work'[q] = work[q]
BY DEF TypeInv, TypeOK, EndWork

\* A move of t is nobody else's.
LEMMA GotoMoves ==
  ASSUME TypeInv, NEW t \in Threads, NEW label, Goto(t, label)
  PROVE  pc'[t] = label /\ \A q \in Threads : q # t => (Merging(q)' <=> Merging(q))
BY DEF TypeInv, TypeOK, Goto, Merging

\* A summary that is not written stays true.
LEMMA SummaryTrueKept ==
  ASSUME SummaryTrue, summary' = summary
  PROVE  SummaryTrue'
BY DEF SummaryTrue

(***************************************************************************)
(* The steps of a refresh keep it, and the summary, true.                  *)
(***************************************************************************)
LEMMA SummaryRefreshStep ==
  ASSUME TypeInv, TypeInv', NEW t \in Threads, RefreshStep(t), SummaryTrue, WorkTrue(t),
         Grows(records, records'), records' = records
  PROVE  SummaryTrue' /\ WorkTrue(t)'
<1>0. /\ TypeInv /\ SummaryTrue /\ WorkTrue(t)
      /\ records \in Seq(Runs) /\ Len(records) \in Nat
      /\ work[t] \in Works /\ work \in [Threads -> Works]
  BY DEF TypeInv, TypeOK
<1>n. /\ NextCovered(t) \in Nat
      /\ work[t].covered \in Nat /\ work[t].covered <= NextCovered(t)
      /\ NextCovered(t) <= Len(work[t].source)
      /\ Len(work[t].source) \in Nat /\ Len(work[t].source) <= Len(records)
  BY <1>0, NextCoveredBounds DEF Works, WorkTrue
<1>1. CASE NothingToRefresh(t)
  <2>1. work' = work /\ summary' = summary
    BY <1>1 DEF NothingToRefresh, files
  <2>2. Merging(t)' <=> Merging(t)
    BY <1>0, <1>1, GotoMoves
       DEF NothingToRefresh, Merging, AfterRefresh, TypeInv, TypeOK
  <2> QED
    BY <1>0, <2>1, <2>2, WorkTrueKept, SummaryTrueKept
<1>2. CASE BeginRefresh(t)
  <2>1. /\ summary' = summary /\ ~Merging(t)'
    BY <1>0, <1>2, GotoMoves DEF BeginRefresh, files, Merging
  <2>2. /\ work'[t] = [source |-> records, covered |-> CoveredNow, goal |-> Goal(t), seen |-> 0,
                       text |-> IF SummaryIsValid THEN summary.text ELSE << >>]
    BY <1>0, <1>2 DEF BeginRefresh
  <2>3. /\ SubSeq(records, 1, 0) = << >>
        /\ records = SubSeq(records, 1, Len(records))
    BY <1>0, SubSeqProperties
  <2>4. WorkTrue(t)'
    <3>1. Merged(t)' = CoveredNow
      BY <2>1, <2>2 DEF Merged
    <3>2. work'[t].text = SubSeq(records, 1, CoveredNow)
      <4>1. work'[t].text = IF SummaryIsValid THEN summary.text ELSE << >>
        BY <2>2
      <4>2. CASE SummaryIsValid
        BY <1>0, <4>1, <4>2, TrueSummaryIsFaithful DEF CoveredNow
      <4>3. CASE ~SummaryIsValid
        BY <2>3, <4>1, <4>3 DEF CoveredNow
      <4> QED
        BY <4>2, <4>3
    <3>3. work'[t].source = records
      BY <2>2
    <3> QED
      BY <1>0, <2>3, <3>1, <3>2, <3>3 DEF WorkTrue
  <2> QED
    BY <1>0, <2>1, <2>2, <2>4, WorkTrueKept, SummaryTrueKept
<1>3. CASE Summarize(t)
  <2>1. /\ summary' = summary /\ Merging(t)' /\ ~Merging(t)
    BY <1>0, <1>3, GotoMoves DEF Summarize, files, Merging
  <2> DEFINE batch == SubSeq(work[t].source, work[t].covered + 1, NextCovered(t))
             w == [work[t] EXCEPT !.text = work[t].text \o batch]
  <2>2. work' = [work EXCEPT ![t] = w]
    BY <1>3 DEF Summarize
  <2>3. /\ w.text = work[t].text \o batch
        /\ w.source = work[t].source /\ w.covered = work[t].covered /\ w.goal = work[t].goal
    BY <1>0 DEF Works
  <2>4. batch = SubSeq(records, work[t].covered + 1, NextCovered(t))
    <3> DEFINE k == Len(work[t].source)
               m == work[t].covered + 1
               n == NextCovered(t)
    <3>1. k \in 0..Len(records) /\ m \in Nat \ {0} /\ n \in 0..k
      BY <1>0, <1>n
    <3>2. work[t].source = SubSeq(records, 1, k)
      BY <1>0 DEF WorkTrue
    <3> HIDE DEF k, m, n
    <3>3. SubSeq(SubSeq(records, 1, k), m, n) = SubSeq(records, m, n)
      BY <1>0, <3>1, PrefixOfPrefix
    <3>4. SubSeq(work[t].source, m, n) = SubSeq(records, m, n)
      BY <3>2, <3>3
    <3> QED
      BY <3>4 DEF m, n
  <2>5. work[t].text = SubSeq(records, 1, work[t].covered)
    BY <1>0, <2>1 DEF WorkTrue, Merged
  <2> HIDE DEF batch, w
  <2>6. work[t].text \o batch = SubSeq(records, 1, NextCovered(t))
    <3>1. NextCovered(t) \in 0..Len(records) /\ work[t].covered \in 0..NextCovered(t)
      BY <1>0, <1>n
    <3>2. SubSeq(records, 1, work[t].covered)
          \o SubSeq(records, work[t].covered + 1, NextCovered(t))
            = SubSeq(records, 1, NextCovered(t))
      BY <1>0, <3>1, PrefixExtended
    <3> QED
      BY <2>4, <2>5, <3>2
  <2>7. work'[t] = w
    BY <1>0, <2>2
  <2>8. NextCovered(t)' = NextCovered(t)
    BY <2>3, <2>7 DEF NextCovered
  <2>9. WorkTrue(t)'
    BY <1>0, <2>1, <2>3, <2>6, <2>7, <2>8 DEF WorkTrue, Merged
  <2> QED
    BY <1>0, <2>1, <2>7, <2>9, WorkTrueKept, SummaryTrueKept
<1>4. CASE SummarizeFails(t)
  <2>1. /\ summary' = summary /\ ~Merging(t)'
    BY <1>0, <1>4, GotoMoves DEF SummarizeFails, files, Merging, AfterError
  <2> QED
    BY <1>0, <1>4, <2>1, EndWorkEnds, WorkTrueKept, WorkTrueEnded, SummaryTrueKept
       DEF SummarizeFails
<1>5. CASE CommitSummary(t)
  <2>1. CASE Len(records) >= NextCovered(t)
    <3>1. /\ Merging(t) /\ Merging(t)'
      BY <1>0, <1>5, <2>1, GotoMoves DEF CommitSummary, Merging
    <3>2. summary' = [covered |-> NextCovered(t),
                      digest |-> SubSeq(records, 1, NextCovered(t)),
                      text |-> work[t].text]
      BY <1>5, <2>1 DEF CommitSummary
    <3>3. work[t].text = SubSeq(records, 1, NextCovered(t))
      BY <1>0, <3>1 DEF WorkTrue, Merged
    <3>4. SummaryTrue'
      <4>1. Len(SubSeq(records, 1, NextCovered(t))) = NextCovered(t)
        BY <1>0, <1>n, <2>1, SubSeqProperties
      <4> QED
        BY <3>2, <3>3, <4>1 DEF SummaryTrue
    <3> DEFINE w == [work[t] EXCEPT !.seen = Len(records)]
    <3>5. work' = [work EXCEPT ![t] = w]
      BY <1>5, <2>1 DEF CommitSummary
    <3>6. /\ w.text = work[t].text /\ w.source = work[t].source
          /\ w.covered = work[t].covered /\ w.goal = work[t].goal
      BY <1>0 DEF Works
    <3> HIDE DEF w
    <3>7. work'[t] = w
      BY <1>0, <3>5
    <3>8. NextCovered(t)' = NextCovered(t)
      BY <3>6, <3>7 DEF NextCovered
    <3>9. WorkTrue(t)'
      BY <1>0, <3>1, <3>6, <3>7, <3>8 DEF WorkTrue, Merged
    <3> QED
      BY <1>0, <3>1, <3>4, <3>7, <3>9, WorkTrueKept
  <2>2. CASE ~(Len(records) >= NextCovered(t))
    <3>1. EndWork(t) /\ Goto(t, AfterError(t)) /\ summary' = summary
      BY <1>5, <2>2 DEF CommitSummary
    <3>2. ~Merging(t)'
      BY <1>0, <3>1, GotoMoves DEF Merging, AfterError
    <3> QED
      BY <1>0, <3>1, <3>2, EndWorkEnds, WorkTrueKept, WorkTrueEnded, SummaryTrueKept
  <2> QED
    BY <2>1, <2>2
<1>6. CASE CommitRead(t)
  <2>1. /\ work' = work /\ summary' = summary /\ Merging(t) /\ Merging(t)'
    BY <1>0, <1>6, GotoMoves DEF CommitRead, files, Merging
  <2> QED
    BY <1>0, <2>1, WorkTrueKept, SummaryTrueKept
<1>7. CASE CommitWrite(t)
  <2>0. summary' = summary /\ Merging(t)
    BY <1>7 DEF CommitWrite, Merging
  <2>1. CASE NextCovered(t) < work[t].goal
    <3>1. ~Merging(t)'
      BY <1>0, <1>7, <2>1, GotoMoves DEF CommitWrite, Merging
    <3> DEFINE w == [work[t] EXCEPT !.covered = NextCovered(t)]
    <3>2. work' = [work EXCEPT ![t] = w]
      BY <1>7, <2>1 DEF CommitWrite
    <3>3. /\ w.text = work[t].text /\ w.source = work[t].source
          /\ w.covered = NextCovered(t)
      BY <1>0 DEF Works
    <3> HIDE DEF w
    <3>4. work'[t] = w
      BY <1>0, <3>2
    <3>5. WorkTrue(t)'
      BY <1>0, <2>0, <3>1, <3>3, <3>4 DEF WorkTrue, Merged
    <3> QED
      BY <1>0, <2>0, <3>1, <3>4, <3>5, WorkTrueKept, SummaryTrueKept
  <2>2. CASE ~(NextCovered(t) < work[t].goal)
    <3>1. EndWork(t) /\ Goto(t, AfterRefresh(t))
      BY <1>7, <2>2 DEF CommitWrite
    <3>2. ~Merging(t)'
      BY <1>0, <3>1, GotoMoves DEF Merging, AfterRefresh
    <3> QED
      BY <1>0, <2>0, <3>1, <3>2, EndWorkEnds, WorkTrueKept, WorkTrueEnded, SummaryTrueKept
  <2> QED
    BY <2>1, <2>2
<1> QED
  BY <1>1, <1>2, <1>3, <1>4, <1>5, <1>6, <1>7 DEF RefreshStep

(***************************************************************************)
(* A step of one refresh does not touch another.                           *)
(***************************************************************************)
LEMMA RefreshMoves ==
  ASSUME TypeInv, NEW t \in Threads, RefreshStep(t)
  PROVE  \A q \in Threads : q # t => work'[q] = work[q] /\ (Merging(q)' <=> Merging(q))
<1>1. \E label : Goto(t, label)
  BY DEF RefreshStep, NothingToRefresh, BeginRefresh, Summarize,
         SummarizeFails, CommitSummary, CommitRead, CommitWrite
<1>2. \A q \in Threads : q # t => work'[q] = work[q]
  BY DEF RefreshStep, NothingToRefresh, BeginRefresh, Summarize,
         SummarizeFails, CommitSummary, CommitRead, CommitWrite, EndWork, TypeInv, TypeOK
<1> QED
  BY <1>1, <1>2, GotoMoves

\* Only a commit writes the summary.
LEMMA SummaryWrites ==
  ASSUME [Next]_vars  PROVE summary' = summary \/ \E t \in Threads : CommitSummary(t)
BY DEF Next, RunStep, RefreshStep, WorkerStep, Fault, vars, files, Threads,
       RememberAppend, RememberWrite, ReserveSuppressed, ReserveRead, ReserveWrite,
       Enqueue, Pop, MarkRead, MarkWrite, Settle, FailRead, FailWrite, AfterFailure,
       NothingToRefresh, BeginRefresh, Summarize, SummarizeFails,
       CommitRead, CommitWrite, RememberTorn, RememberUnended, ReportRaises, StateWriteFails, Kill,
       ReadRaises

(***************************************************************************)
(* Every step that takes no record away keeps a true refresh true, beside  *)
(* a true summary ...                                                      *)
(***************************************************************************)
LEMMA WorkStep ==
  ASSUME TypeInv, SummaryTrue, NEW t \in Threads, WorkTrue(t), [Next]_vars,
         Grows(records, records')
  PROVE  WorkTrue(t)'
<1>0. TypeInv /\ TypeInv' /\ SummaryTrue /\ WorkTrue(t) /\ Grows(records, records')
  BY TypeStep
<1>k. ASSUME work'[t] = work[t], Merging(t)' <=> Merging(t)  PROVE WorkTrue(t)'
  BY <1>0, <1>k, WorkTrueKept
<1>1. CASE OtherStep
  BY <1>0, <1>k, <1>1, OtherSteps
<1>2. ASSUME NEW q \in Threads, RefreshStep(q)  PROVE WorkTrue(t)'
  <2>1. records' = records
    BY <1>2 DEF RefreshStep, files, NothingToRefresh, BeginRefresh, Summarize,
                SummarizeFails, CommitSummary, CommitRead, CommitWrite
  <2>2. CASE q = t
    BY <1>0, <1>2, <2>1, <2>2, SummaryRefreshStep
  <2>3. CASE q # t
    BY <1>0, <1>2, <1>k, <2>3, RefreshMoves
  <2> QED
    BY <2>2, <2>3
<1>3. ASSUME NEW q \in Threads, StateWriteFails(q)  PROVE WorkTrue(t)'
  <2>1. \A u \in Threads : u # q => work'[u] = work[u] /\ (Merging(u)' <=> Merging(u))
    BY <1>0, <1>3, GotoMoves, EndWorkEnds DEF StateWriteFails
  <2>2. ~Merging(q)'
    <3>1. pc'[q] = AfterWriteError(q)
      BY <1>0, <1>3, GotoMoves DEF StateWriteFails
    <3> QED
      BY <3>1 DEF Merging, AfterWriteError, AfterError
  <2>3. CASE q # t
    BY <1>k, <2>1, <2>3
  <2>4. CASE q = t /\ pc[t] = "updating"
    BY <1>0, <1>3, <2>2, <2>4, EndWorkEnds, WorkTrueEnded DEF StateWriteFails
  <2>5. CASE q = t /\ pc[t] # "updating"
    <3>1. work' = work /\ ~Merging(t)
      BY <1>3, <2>5 DEF StateWriteFails, Merging
    <3> QED
      BY <1>k, <2>2, <2>5, <3>1
  <2> QED
    BY <2>3, <2>4, <2>5
<1>4. ASSUME NEW p \in Processes, Kill(p)  PROVE WorkTrue(t)'
  <2>1. CASE Process(t) = p
    <3>1. work'[t] = NoWork /\ pc'[t] = AfterKill(t)
      BY <1>4, <2>1 DEF Kill
    <3>2. ~Merging(t)'
      BY <3>1 DEF Merging, AfterKill
    <3> QED
      BY <1>0, <3>1, <3>2, WorkTrueEnded
  <2>2. CASE Process(t) # p
    <3>1. work'[t] = work[t] /\ (Merging(t)' <=> Merging(t))
      BY <1>4, <2>2 DEF Kill, Merging
    <3> QED
      BY <1>k, <3>1
  <2> QED
    BY <2>1, <2>2
<1>5. CASE UNCHANGED vars
  BY <1>k, <1>5 DEF vars, Merging
<1>6. ASSUME NEW q \in Threads, ReadRaises(q)  PROVE WorkTrue(t)'
  <2>1. \A u \in Threads : u # q => work'[u] = work[u] /\ (Merging(u)' <=> Merging(u))
    BY <1>0, <1>6, GotoMoves, EndWorkEnds DEF ReadRaises
  <2>2. ~Merging(q)'
    <3>1. pc'[q] = AfterReadError(q)
      BY <1>0, <1>6, GotoMoves DEF ReadRaises
    <3> QED
      BY <3>1 DEF Merging, AfterReadError, AfterError
  <2>3. CASE q # t
    BY <1>k, <2>1, <2>3
  <2>4. CASE q = t /\ pc[t] = "commit"
    BY <1>0, <1>6, <2>4, EndWorkEnds, WorkTrueEnded DEF ReadRaises
  <2>5. CASE q = t /\ pc[t] # "commit"
    <3>1. work' = work /\ ~Merging(t)
      BY <1>6, <2>5 DEF ReadRaises, Merging
    <3> QED
      BY <1>k, <2>2, <2>5, <3>1
  <2> QED
    BY <2>3, <2>4, <2>5
<1> QED
  BY <1>1, <1>2, <1>3, <1>4, <1>5, <1>6 DEF Next, WorkerStep, Fault, OtherStep, Threads

(***************************************************************************)
(* ... and the summary true, unless a refresh that is not commits.         *)
(***************************************************************************)
LEMMA SummaryTrueStep ==
  ASSUME TypeInv, SummaryTrue, [Next]_vars,
         \A t \in Threads : pc[t] = "commit" /\ pc'[t] = "committing" => WorkTrue(t)
  PROVE  SummaryTrue'
<1>0. /\ TypeInv /\ TypeInv' /\ SummaryTrue /\ pc \in [Threads -> Labels]
      /\ records \in Seq(Runs)
  BY TypeStep DEF TypeInv, TypeOK
<1>1. CASE summary' = summary
  BY <1>0, <1>1, SummaryTrueKept
<1>2. ASSUME NEW t \in Threads, CommitSummary(t), summary' # summary  PROVE SummaryTrue'
  <2>1. pc[t] = "commit" /\ pc' = [pc EXCEPT ![t] = "committing"] /\ records' = records
    BY <1>2 DEF CommitSummary, Goto
  <2>2. WorkTrue(t) /\ RefreshStep(t)
    BY <1>0, <1>2, <2>1 DEF RefreshStep
  <2>3. Grows(records, records')
    BY <1>0, <2>1, AppendGrows
  <2> QED
    BY <1>0, <2>1, <2>2, <2>3, SummaryRefreshStep
<1>3. summary' = summary \/ \E t \in Threads : CommitSummary(t)
  BY SummaryWrites
<1> QED
  BY <1>1, <1>2, <1>3

(***************************************************************************)
(* A step of Next: a refresh that straddles the loss of a record either    *)
(* commits, which is noted, or changes nothing that is claimed.            *)
(***************************************************************************)
LEMMA SummaryNextStep == ASSUME SummaryInv, [Next]_vars, Noted  PROVE SummaryInv'
<1>1. TypeInv /\ TypeInv'
  BY TypeStep DEF SummaryInv
<1>2. ASSUME ~spoiled'  PROVE SummaryTrue' /\ \A t \in Threads \ straddling' : WorkTrue(t)'
  <2>1. /\ ~spoiled
        /\ \A t \in straddling : ~(pc[t] = "commit" /\ pc'[t] = "committing")
    BY <1>2 DEF Noted
  <2>2. SummaryTrue /\ \A t \in Threads \ straddling : WorkTrue(t)
    BY <2>1 DEF SummaryInv
  <2>3. SummaryTrue'
    BY <1>1, <2>1, <2>2, SummaryTrueStep
  <2>4. ASSUME NEW t \in Threads \ straddling'  PROVE WorkTrue(t)'
    <3>1. CASE t \notin straddling /\ Grows(records, records')
      BY <1>1, <2>2, <3>1, WorkStep
    <3>2. CASE t \in straddling \/ ~Grows(records, records')
      <4>1. ~Grows(records, records') => Len(records') < Len(records)
        BY <1>1, RecordsGrow
      <4>2. work'[t] = NoWork
        BY <2>4, <3>2, <4>1 DEF Noted
      <4> QED
        BY <1>1, <4>2, WorkTrueEnded
    <3> QED
      BY <3>1, <3>2
  <2> QED
    BY <2>3, <2>4
<1> QED
  BY <1>1, <1>2 DEF SummaryInv

\* A step that changes nothing keeps SummaryInv.
LEMMA SummaryStutter == ASSUME SummaryInv, UNCHANGED <<vars, history>>  PROVE SummaryInv'
<1>1. /\ UNCHANGED <<files, work, pc, straddling, spoiled>>
      /\ [Next]_vars
  BY DEF vars, history
<1>2. TypeInv'
  BY <1>1, TypeStep DEF SummaryInv
<1>3. SummaryTrue' <=> SummaryTrue
  BY <1>1 DEF SummaryTrue, files
<1>4. \A t \in Threads : WorkTrue(t)' <=> WorkTrue(t)
  BY <1>1 DEF WorkTrue, Merged, Merging, NextCovered, files
<1> QED
  BY <1>1, <1>2, <1>3, <1>4 DEF SummaryInv

\* Every step keeps SummaryInv.
LEMMA SummaryStep == SummaryInv /\ [Next /\ Noted]_<<vars, history>> => SummaryInv'
BY SummaryNextStep, SummaryStutter

(***************************************************************************)
(* A summary that load_context() accepts tells exactly the records it      *)
(* claims to cover, until a refresh commits that had read a record which   *)
(* is gone.  The proof shows more: the summary file never tells anything   *)
(* but the records whose digest it holds, even while the control file      *)
(* disagrees with it.                                                      *)
(***************************************************************************)
THEOREM SummaryFaithfulness == Spec => []SummaryStaysFaithful
<1>1. SummaryInv => SummaryStaysFaithful
  BY TrueSummaryIsFaithful DEF SummaryInv, SummaryStaysFaithful, SummaryFaithful
<1>2. Init => SummaryInv
  BY SummaryInit DEF SummaryInv
<1> QED
  BY <1>1, <1>2, SummaryStep, PTL DEF Spec

-------------------------------------------------------------------------------
(* The runs, seen from the log.                                            *)

\* The run is in the log.
Recorded(r) == \E i \in 1..Len(records) : records[i] = r

\* The runs whose append did not return, so that their answer is reported as
\* not persisted.
Unsaved == {"unsaved", "unended"}

(***************************************************************************)
(* Only its own steps, and a kill, move a run.                             *)
(***************************************************************************)
LEMMA RunMoves ==
  ASSUME TypeInv, [Next]_vars, NEW r \in Runs
  PROVE  \/ pc'[r] = pc[r]
         \/ RunStep(r) \/ RememberTorn(r) \/ RememberUnended(r)
         \/ ReadRaises(r) \/ StateWriteFails(r)
         \/ pc'[r] = AfterKill(r)
<1>0. /\ pc \in [Threads -> Labels] /\ r \in Threads
      /\ \A w \in Workers : w # r
      /\ \A u \in Updaters : u # r
      /\ Runs \subseteq Threads /\ Workers \subseteq Threads /\ Updaters \subseteq Threads
  BY SessionMemoryAssumption DEF TypeInv, TypeOK, Threads
<1>a. ASSUME NEW t \in Threads, t # r, NEW label, Goto(t, label)  PROVE pc'[r] = pc[r]
  BY <1>0, <1>a DEF Goto
<1>1. ASSUME NEW q \in Runs, q # r, RunStep(q) \/ RememberTorn(q) \/ RememberUnended(q)
      PROVE  pc'[r] = pc[r]
  <2>1. CASE Enqueue(q)
    BY <1>0, <1>1, <2>1 DEF Enqueue, Goto
  <2>2. CASE ~Enqueue(q)
    <3>1. \E label : Goto(q, label)
      BY <1>1, <2>2 DEF RunStep, RememberAppend, RememberWrite, ReserveSuppressed, ReserveRead,
                        ReserveWrite, RememberTorn, RememberUnended
    <3> QED
      BY <1>0, <1>1, <1>a, <3>1
  <2> QED
    BY <2>1, <2>2
<1>2. ASSUME NEW t \in Threads, t # r, RefreshStep(t) \/ StateWriteFails(t) \/ ReadRaises(t)
      PROVE  pc'[r] = pc[r]
  <2>1. \E label : Goto(t, label)
    BY <1>2 DEF RefreshStep, NothingToRefresh, BeginRefresh, Summarize, SummarizeFails,
                CommitSummary, CommitRead, CommitWrite, StateWriteFails, ReadRaises
  <2> QED
    BY <1>2, <1>a, <2>1
<1>3. ASSUME NEW w \in Workers,
             \/ Pop(w) \/ MarkRead(w) \/ MarkWrite(w) \/ Settle(w)
             \/ FailRead(w) \/ FailWrite(w) \/ AfterFailure(w) \/ ReportRaises(w)
      PROVE  pc'[r] = pc[r]
  <2>1. \E label : Goto(w, label)
    BY <1>3 DEF Retire, Pop, MarkRead, MarkWrite, Settle, FailRead, FailWrite,
                AfterFailure, ReportRaises
  <2> QED
    BY <1>0, <1>a, <2>1
<1>4. ASSUME NEW p \in Processes, Kill(p)
      PROVE  pc'[r] = pc[r] \/ pc'[r] = AfterKill(r)
  BY <1>0, <1>4 DEF Kill
<1>5. CASE UNCHANGED vars
  BY <1>5 DEF vars
<1> QED
  BY <1>0, <1>1, <1>2, <1>3, <1>4, <1>5 DEF Next, WorkerStep, Fault

\* Where a run may stand.
RunLabels == {"executing", "appended", "saved", "reserving", "reserved", "done",
              "unsaved", "unended", "lost"}

\* Runs stand there.
RunsInv == \A r \in Runs : pc[r] \in RunLabels

\* Every step keeps them there.
LEMMA RunsStep == ASSUME TypeInv, RunsInv, [Next]_vars  PROVE RunsInv'
<1> SUFFICES ASSUME NEW r \in Runs  PROVE pc'[r] \in RunLabels
  BY DEF RunsInv
<1>0. pc \in [Threads -> Labels] /\ r \in Threads /\ pc[r] \in RunLabels /\ r \notin Workers /\ r \notin Updaters
  BY SessionMemoryAssumption DEF TypeInv, TypeOK, Threads, RunsInv
<1>2. CASE pc'[r] = pc[r]
  BY <1>0, <1>2
<1>3. CASE RunStep(r)
  BY <1>0, <1>3
     DEF RunStep, RememberAppend, RememberWrite, ReserveSuppressed, ReserveRead, ReserveWrite,
         Enqueue, Goto, RunLabels
<1>4. CASE RememberTorn(r) \/ RememberUnended(r)
  BY <1>0, <1>4 DEF RememberTorn, RememberUnended, Goto, RunLabels
<1>5. CASE ReadRaises(r)
  BY <1>0, <1>5 DEF ReadRaises, AfterReadError, Goto, RunLabels
<1>6. CASE StateWriteFails(r)
  BY <1>0, <1>6 DEF StateWriteFails, AfterWriteError, Goto, RunLabels
<1>7. CASE pc'[r] = AfterKill(r)
  BY <1>0, <1>7 DEF AfterKill, RunLabels
<1> QED
  BY <1>2, <1>3, <1>4, <1>5, <1>6, <1>7, RunMoves

\* No step makes a run execute again; its append returns only by appending.
LEMMA RunProgress ==
  ASSUME TypeInv, RunsInv, [Next]_vars, NEW r \in Runs
  PROVE  /\ pc'[r] = "executing" => pc[r] = "executing"
         /\ Returned(r)' => Returned(r) \/ RememberAppend(r)
         /\ pc[r] \in Unsaved => pc'[r] = pc[r]
         /\ pc'[r] \in Unsaved =>
              \/ pc[r] \in Unsaved
              \/ RememberTorn(r) \/ RememberUnended(r) \/ ReadRaises(r) \/ StateWriteFails(r)
<1>0. pc \in [Threads -> Labels] /\ r \in Threads /\ pc[r] \in RunLabels
  BY DEF TypeInv, TypeOK, Threads, RunsInv
<1>1. r \notin Workers /\ r \notin Updaters
  BY SessionMemoryAssumption
<1>2. CASE pc'[r] = pc[r]
  BY <1>2 DEF Returned
<1>3. CASE RunStep(r)
  <2>1. CASE RememberAppend(r)
    BY <1>0, <2>1 DEF RememberAppend, Goto, Unsaved
  <2>2. CASE ~RememberAppend(r)
    BY <1>0, <1>1, <1>3, <2>2
       DEF RunStep, RememberWrite, ReserveSuppressed, ReserveRead, ReserveWrite, Enqueue,
           Goto, Returned, Unsaved
  <2> QED
    BY <2>1, <2>2
<1>4. CASE RememberTorn(r) \/ RememberUnended(r)
  BY <1>0, <1>4 DEF RememberTorn, RememberUnended, Goto, Returned, Unsaved
<1>5. CASE ReadRaises(r)
  BY <1>0, <1>1, <1>5 DEF ReadRaises, AfterReadError, AfterError, Goto, Returned, Unsaved
<1>6. CASE StateWriteFails(r)
  <2>1. pc'[r] = AfterWriteError(r) /\ pc[r] \notin Unsaved
    BY <1>0, <1>6 DEF StateWriteFails, Goto, Unsaved
  <2>2. pc[r] = "reserving" \/ pc'[r] \in {"unsaved", "fail", "dead"}
    BY <1>1, <2>1 DEF AfterWriteError, AfterError
  <2>3. pc'[r] # "executing" /\ (Returned(r)' => Returned(r))
    BY <2>1, <2>2 DEF AfterWriteError, Returned
  <2> QED
    BY <1>6, <2>1, <2>3
<1>7. CASE pc'[r] = AfterKill(r)
  BY <1>0, <1>1, <1>7 DEF AfterKill, RunLabels, Returned, Unsaved
<1> QED
  BY <1>2, <1>3, <1>4, <1>5, <1>6, <1>7, RunMoves

(***************************************************************************)
(* A run that still executes has no record, so each run is logged once;    *)
(* and a last record that lacks its newline is of a run that was told so.  *)
(***************************************************************************)
ExecutingUnrecorded == \A r \in Runs : pc[r] = "executing" => ~Recorded(r)
UnendedIsLast ==
  tail = "unended" => records # << >> /\ pc[records[Len(records)]] = "unended"

\* The types, and these.
LogInv == TypeInv /\ RunsInv /\ ExecutingUnrecorded /\ UnendedIsLast

\* LogInv holds at first.
LEMMA LogInit == Init => LogInv
BY TypeInit DEF Init, LogInv, RunsInv, RunLabels, Threads, ExecutingUnrecorded, UnendedIsLast, Recorded

\* What a record in the log was, it is while the log changes, but for one that had not ended.
LEMMA RecordKept ==
  ASSUME LogInv, [Next]_vars, NEW r \in Runs, Recorded(r), pc[r] # "unended"
  PROVE  Recorded(r)'
<1>0. TypeInv /\ records \in Seq(Runs) /\ Len(records) \in Nat
  BY DEF LogInv, TypeInv, TypeOK
<1>1. PICK i \in 1..Len(records) : records[i] = r
  BY DEF Recorded
<1>2. CASE records' = records
  BY <1>1, <1>2 DEF Recorded
<1>3. ASSUME NEW q \in Runs, records' = Append(records, q)  PROVE Recorded(r)'
  <2>1. Len(records') = Len(records) + 1 /\ records'[i] = records[i]
    BY <1>0, <1>1, <1>3, AppendProperties
  <2> QED
    BY <1>0, <1>1, <2>1 DEF Recorded
<1>4. CASE tail = "unended" /\ records' = Continued /\ records' # records
  <2>1. /\ Len(records') = Len(records) - 1
        /\ \A j \in 1..Len(records') : records'[j] = records[j]
    BY <1>0, <1>4, ContinuedIsPrefix DEF TypeInv
  <2>2. i # Len(records)
    BY <1>1, <1>4 DEF LogInv, UnendedIsLast
  <2> QED
    BY <1>0, <1>1, <2>1, <2>2 DEF Recorded
<1> QED
  BY <1>0, <1>2, <1>3, <1>4, RecordsMoves

\* A record in the log was there, or has just been added.
LEMMA RecordWasThere ==
  ASSUME TypeInv, [Next]_vars, NEW r \in Runs, Recorded(r)'
  PROVE  Recorded(r) \/ RememberAppend(r) \/ RememberUnended(r)
<1>0. records \in Seq(Runs) /\ Len(records) \in Nat
  BY DEF TypeInv, TypeOK
<1>1. CASE records' = records
  BY <1>1 DEF Recorded
<1>2. ASSUME NEW q \in Runs, RememberAppend(q) \/ RememberUnended(q), records' = Append(records, q)
      PROVE  Recorded(r) \/ q = r
  BY <1>0, <1>2, AppendProperties DEF Recorded
<1>3. CASE tail = "unended" /\ records' = Continued /\ records' # records
  <2>1. /\ Len(records') = Len(records) - 1
        /\ \A j \in 1..Len(records') : records'[j] = records[j]
    BY <1>0, <1>3, ContinuedIsPrefix DEF TypeInv
  <2> QED
    BY <1>0, <2>1 DEF Recorded
<1> QED
  BY <1>1, <1>2, <1>3, RecordsMoves

\* Every step keeps LogInv.
LEMMA LogStep == LogInv /\ [Next]_vars => LogInv'
<1> SUFFICES ASSUME LogInv, [Next]_vars  PROVE LogInv'
  OBVIOUS
<1>0. /\ TypeInv /\ TypeInv' /\ pc \in [Threads -> Labels] /\ records \in Seq(Runs)
      /\ Len(records) \in Nat /\ Runs \subseteq Threads /\ RunsInv /\ RunsInv'
  BY TypeStep, RunsStep DEF LogInv, TypeInv, TypeOK, Threads
<1>1. ASSUME NEW r \in Runs, pc'[r] = "executing"  PROVE ~Recorded(r)'
  <2>1. pc[r] = "executing" /\ ~Recorded(r)
    BY <1>0, <1>1, RunProgress DEF LogInv, ExecutingUnrecorded
  <2>2. ~RememberAppend(r) /\ ~RememberUnended(r)
    BY <1>0, <1>1 DEF RememberAppend, RememberUnended, Goto
  <2> QED
    BY <1>0, <2>1, <2>2, RecordWasThere
<1>2. UnendedIsLast'
  <2>1. CASE records' = records /\ tail' = tail
    <3>1. CASE tail' = "unended"
      <4>1. records # << >> /\ pc[records[Len(records)]] = "unended"
        BY <2>1, <3>1 DEF LogInv, UnendedIsLast
      <4>2. records[Len(records)] \in Runs
        <5>1. Len(records) > 0
          BY <1>0, <4>1, EmptySeq
        <5> QED
          BY <1>0, <5>1, ElementOfSeq
      <4>3. pc'[records[Len(records)]] = "unended"
        BY <1>0, <4>1, <4>2, RunProgress DEF Unsaved
      <4> QED
        BY <2>1, <4>1, <4>3 DEF UnendedIsLast
    <3> QED
      BY <3>1 DEF UnendedIsLast
  <2>2. ASSUME NEW r \in Runs, RememberUnended(r)  PROVE UnendedIsLast'
    <3>1. records' = Append(records, r) /\ pc'[r] = "unended"
      BY <1>0, <2>2 DEF RememberUnended, Goto
    <3>2. records' # << >> /\ records'[Len(records')] = r
      BY <1>0, <3>1, AppendProperties
    <3> QED
      BY <3>1, <3>2 DEF UnendedIsLast
  <2>3. ASSUME NEW r \in Runs, RememberAppend(r) \/ RememberTorn(r), ~(records' = records /\ tail' = tail)
        PROVE  UnendedIsLast'
    BY <2>3 DEF RememberAppend, RememberTorn, UnendedIsLast
  <2> QED
    BY <1>0, <2>1, <2>2, <2>3, RecordsChange
<1> QED
  BY <1>0, <1>1, <1>2 DEF LogInv, ExecutingUnrecorded

(***************************************************************************)
(* A remembered run stays remembered.                                      *)
(***************************************************************************)
KeptInv == LogInv /\ RememberedKept

\* Every step keeps it: what it takes from the log was never promised.
LEMMA KeptStep == ASSUME KeptInv, [Next]_vars, Noted  PROVE KeptInv'
<1>0. /\ LogInv /\ LogInv' /\ TypeInv /\ RunsInv /\ records \in Seq(Runs) /\ Len(records) \in Nat
      /\ pc \in [Threads -> Labels] /\ Runs \subseteq Threads
  BY LogStep DEF KeptInv, LogInv, TypeInv, TypeOK, Threads
<1>1. ASSUME NEW r \in Runs, Returned(r)'  PROVE r \in glued' \/ Recorded(r)'
  <2>1. CASE RememberAppend(r)
    <3>1. pc[r] = "executing" /\ pc'[r] = "appended"
      BY <1>0, <2>1 DEF RememberAppend, Goto
    <3>2. CASE tail = "clean"
      <4>1. records' = Append(records, r)
        BY <2>1, <3>2 DEF RememberAppend
      <4>2. Len(records') = Len(records) + 1 /\ records'[Len(records) + 1] = r
        BY <1>0, <4>1, AppendProperties
      <4> QED
        BY <1>0, <4>2 DEF Recorded
    <3>3. CASE tail # "clean"
      BY <3>1, <3>3 DEF Noted
    <3> QED
      BY <3>2, <3>3
  <2>2. CASE Returned(r)
    <3>1. r \in glued \/ Recorded(r)
      BY <2>2 DEF KeptInv, RememberedKept, Recorded
    <3>2. pc[r] # "unended"
      BY <2>2 DEF Returned
    <3>3. glued \subseteq glued'
      BY DEF Noted
    <3> QED
      BY <1>0, <3>1, <3>2, <3>3, RecordKept
  <2> QED
    BY <1>0, <1>1, <2>1, <2>2, RunProgress
<1> QED
  BY <1>0, <1>1 DEF KeptInv, RememberedKept, Recorded

(***************************************************************************)
(* A run whose append returned is in the log for good, whatever is         *)
(* appended, broken off, refreshed or killed afterwards; the only one that *)
(* is not was appended to a line that had not ended, and was lost there.   *)
(***************************************************************************)
THEOREM RememberedIsKept == Spec => []RememberedKept
<1>1. Init => KeptInv
  <2>1. Init => \A r \in Runs : ~Returned(r)
    BY DEF Init, Threads, Returned
  <2> QED
    BY <2>1, LogInit DEF KeptInv, RememberedKept
<1>2. KeptInv /\ [Next /\ Noted]_<<vars, history>> => KeptInv'
  <2>1. ASSUME KeptInv, UNCHANGED <<vars, history>>  PROVE KeptInv'
    <3>1. UNCHANGED <<records, pc, glued>> /\ [Next]_vars
      BY <2>1 DEF vars, files, history
    <3>2. LogInv'
      BY <2>1, <3>1, LogStep DEF KeptInv
    <3> QED
      BY <2>1, <3>1, <3>2 DEF KeptInv, RememberedKept, Returned
  <2> QED
    BY <2>1, KeptStep
<1>3. KeptInv => RememberedKept
  BY DEF KeptInv
<1> QED
  BY <1>1, <1>2, <1>3, PTL DEF Spec

-------------------------------------------------------------------------------
(* The files implement the session log.                                    *)

(***************************************************************************)
(* The context of the next run is always one the session log allows.       *)
(***************************************************************************)
LEMMA VisibleAllowed ==
  TypeInv /\ SummaryTrue => Visible \in Promise!ContextsOf(records)
<1> SUFFICES ASSUME TypeInv, SummaryTrue PROVE Visible \in Promise!ContextsOf(records)
  OBVIOUS
<1>0. records \in Seq(Runs) /\ Len(records) \in Nat
  BY DEF TypeInv, TypeOK
<1> DEFINE Rest(k) == SubSeq(records, k + 1, Len(records))
<1>1. CASE SummaryIsValid
  <2>0. /\ summary.covered \in 0..Len(records)
        /\ summary.text = SubSeq(records, 1, summary.covered)
    BY <1>1, TrueSummaryIsFaithful
  <2>1. /\ Len(summary.text) = summary.covered
        /\ \A i \in 1..summary.covered : summary.text[i] = records[i]
    BY <1>0, <2>0, SubSeqProperties
  <2>2. {summary.text[i] : i \in 1..Len(summary.text)} = Promise!FirstOf(records, summary.covered)
    BY <1>0, <2>0, <2>1 DEF Promise!FirstOf
  <2>3. Newest(Rest(summary.covered)) = Promise!Newest(Rest(summary.covered))
    BY DEF Newest, Promise!Newest
  <2>4. Visible = Promise!FirstOf(records, summary.covered)
                  \cup Promise!Newest(Rest(summary.covered))
    BY <1>1, <2>2, <2>3 DEF Visible
  <2> QED
    BY <1>0, <2>0, <2>4 DEF Promise!ContextsOf
<1>2. CASE ~SummaryIsValid
  <2>1. Promise!FirstOf(records, 0) = {}
    BY <1>0 DEF Promise!FirstOf
  <2>2. Rest(0) = records
    BY <1>0, SubSeqProperties
  <2>3. Newest(records) = Promise!Newest(Rest(0))
    BY <2>2 DEF Newest, Promise!Newest
  <2>4. Visible = Promise!FirstOf(records, 0) \cup Promise!Newest(Rest(0))
    BY <1>2, <2>1, <2>3 DEF Visible
  <2> QED
    BY <1>0, <2>4 DEF Promise!ContextsOf
<1> QED
  BY <1>1, <1>2


\* The runs that SessionLog calls failed.
FailedRuns == {r \in Runs : pc[r] \in {"unsaved", "unended"}}

\* A line that has not ended, and what comes of it, is behind one of these.
FaultInv == tail # "clean" \/ spoiled \/ straddling # {} => FailedRuns # {}

\* What the refinement needs of a state.
PromiseInv == LogInv /\ SummaryInv /\ FaultInv

(***************************************************************************)
(* A step fails at most one save.                                          *)
(***************************************************************************)
LEMMA FailedMoves ==
  ASSUME LogInv, [Next]_vars
  PROVE  /\ FailedRuns \subseteq FailedRuns'
         /\ \/ FailedRuns' = FailedRuns
            \/ \E r \in Runs :
                 /\ r \notin FailedRuns /\ FailedRuns' = FailedRuns \cup {r}
                 /\ \/ records' = records /\ tail' = tail
                    \/ RememberTorn(r) \/ RememberUnended(r)
         /\ \A r \in Runs : RememberAppend(r) => FailedRuns' = FailedRuns
         /\ \A r \in Runs : RememberTorn(r) \/ RememberUnended(r) =>
              r \notin FailedRuns /\ FailedRuns' = FailedRuns \cup {r}
<1>0. TypeInv /\ RunsInv /\ pc \in [Threads -> Labels] /\ Runs \subseteq Threads
  BY DEF LogInv, TypeInv, TypeOK, Threads
<1>1. FailedRuns \subseteq FailedRuns'
  <2>1. ASSUME NEW r \in Runs, pc[r] \in Unsaved  PROVE pc'[r] = pc[r]
    BY <1>0, <2>1, RunProgress
  <2> QED
    BY <2>1 DEF FailedRuns, Unsaved
<1>2. ASSUME NEW r \in Runs, r \notin FailedRuns, NEW label, Goto(r, label)
      PROVE  FailedRuns' = IF label \in Unsaved THEN FailedRuns \cup {r} ELSE FailedRuns
  BY <1>0, <1>2 DEF Goto, FailedRuns, Unsaved
<1>3. ASSUME NEW r \in Runs, RememberAppend(r)  PROVE FailedRuns' = FailedRuns
  <2>1. r \notin FailedRuns /\ Goto(r, "appended")
    BY <1>3 DEF RememberAppend, FailedRuns
  <2> QED
    BY <1>2, <2>1 DEF Unsaved
<1>4. ASSUME NEW r \in Runs, RememberTorn(r) \/ RememberUnended(r)
      PROVE  r \notin FailedRuns /\ FailedRuns' = FailedRuns \cup {r}
  <2>1. r \notin FailedRuns /\ (Goto(r, "unsaved") \/ Goto(r, "unended"))
    BY <1>4 DEF RememberTorn, RememberUnended, FailedRuns
  <2> QED
    BY <1>2, <2>1 DEF Unsaved
<1>5. ASSUME FailedRuns' # FailedRuns
      PROVE  \E r \in Runs :
               /\ r \notin FailedRuns /\ FailedRuns' = FailedRuns \cup {r}
               /\ \/ records' = records /\ tail' = tail
                  \/ RememberTorn(r) \/ RememberUnended(r)
  <2>1. PICK r \in Runs : r \in FailedRuns' /\ r \notin FailedRuns
    BY <1>1, <1>5 DEF FailedRuns
  <2>2. pc'[r] \in Unsaved /\ pc[r] \notin Unsaved
    BY <2>1 DEF FailedRuns, Unsaved
  <2>3. RememberTorn(r) \/ RememberUnended(r) \/ ReadRaises(r) \/ StateWriteFails(r)
    BY <1>0, <2>2, RunProgress
  <2>4. CASE RememberTorn(r) \/ RememberUnended(r)
    BY <1>4, <2>4
  <2>5. CASE ReadRaises(r) \/ StateWriteFails(r)
    <3>1. records' = records /\ tail' = tail
      BY <2>5 DEF ReadRaises, StateWriteFails, files
    <3>2. PICK label : Goto(r, label)
      BY <2>5 DEF ReadRaises, StateWriteFails
    <3>3. label \in Unsaved
      BY <1>0, <2>2, <3>2 DEF Goto
    <3> QED
      BY <1>2, <2>1, <3>1, <3>2, <3>3
  <2> QED
    BY <2>3, <2>4, <2>5
<1> QED
  BY <1>1, <1>3, <1>4, <1>5

\* PromiseInv holds at first.
LEMMA PromiseStart == Init => PromiseInv
BY SummaryInit, LogInit DEF Init, PromiseInv, SummaryInv, FaultInv

\* Every step keeps it.
LEMMA PromiseInvStep == PromiseInv /\ [Next /\ Noted]_<<vars, history>> => PromiseInv'
<1> SUFFICES ASSUME PromiseInv, [Next /\ Noted]_<<vars, history>>  PROVE PromiseInv'
  OBVIOUS
<1>0. LogInv /\ LogInv' /\ SummaryInv' /\ TypeInv /\ [Next]_vars
  BY CoreStep, LogStep, SummaryStep DEF PromiseInv, LogInv
<1>1. FailedRuns # {} => FailedRuns' # {}
  BY <1>0, FailedMoves
<1>2. ASSUME tail' # "clean"  PROVE FailedRuns' # {}
  <2>1. CASE tail' = tail
    BY <1>1, <1>2, <2>1 DEF PromiseInv, FaultInv
  <2>2. CASE tail' # tail
    <3>1. PICK r \in Runs : RememberTorn(r) \/ RememberUnended(r)
      BY <1>0, <1>2, <2>2, RecordsChange DEF RememberAppend
    <3>2. FailedRuns' = FailedRuns \cup {r}
      BY <1>0, <3>1, FailedMoves
    <3> QED
      BY <3>2
  <2> QED
    BY <2>1, <2>2
<1>3. ASSUME spoiled' \/ straddling' # {}  PROVE FailedRuns' # {}
  <2>1. CASE spoiled \/ straddling # {}
    BY <1>1, <2>1 DEF PromiseInv, FaultInv
  <2>2. CASE ~spoiled /\ straddling = {} /\ Next /\ Noted
    <3>1. Len(records') < Len(records)
      BY <1>3, <2>2 DEF Noted
    <3>2. tail = "unended"
      <4>1. ~Grows(records, records')
        BY <1>0, <3>1 DEF Grows, TypeInv, TypeOK, LogInv
      <4> QED
        BY <1>0, <4>1, RecordsGrow
    <3> QED
      BY <1>1, <3>2 DEF PromiseInv, FaultInv
  <2>3. CASE UNCHANGED <<vars, history>>
    BY <1>3, <2>1, <2>3 DEF history
  <2> QED
    BY <2>1, <2>2, <2>3
<1> QED
  BY <1>0, <1>2, <1>3 DEF PromiseInv, FaultInv

(***************************************************************************)
(* The start maps to the start, and every step to a step or a stutter.     *)
(***************************************************************************)
LEMMA PromiseInit == Init => Promise!Init
<1> SUFFICES ASSUME Init PROVE Promise!Init
  OBVIOUS
<1>1. records = << >> /\ ~SummaryIsValid
  BY DEF Init, SummaryIsValid, NoSummary
<1>2. Visible = {}
  BY <1>1 DEF Visible, Newest
<1>3. \A r \in Runs : pc[r] = "executing"
  BY DEF Init, Threads
<1>4. tail = "clean" /\ spoiled = FALSE
  BY DEF Init
<1>5. {r \in Runs : pc[r] \in {"unsaved", "unended"}} = {}
  BY <1>3
<1>6. Broken = FALSE
  BY <1>4 DEF Broken
<1> QED
  BY <1>1, <1>2, <1>5, <1>6 DEF Promise!Init

\* Every step is one of SessionLog.
LEMMA PromiseStep ==
  ASSUME PromiseInv, PromiseInv', Next, Noted
  PROVE  Promise!Next
<1>0. /\ LogInv /\ TypeInv /\ TypeInv' /\ records \in Seq(Runs) /\ FaultInv /\ FaultInv' /\ [Next]_vars
      /\ SummaryInv'
  BY DEF PromiseInv, LogInv, TypeInv, TypeOK
<1>1. ~Broken' => Visible' \in Promise!ContextsOf(records')
  <2>1. TypeInv' /\ SummaryTrue' => (Visible \in Promise!ContextsOf(records))'
    BY VisibleAllowed, PTL
  <2>2. ~Broken' => SummaryTrue'
    BY <1>0 DEF Broken, SummaryInv
  <2> QED
    BY <1>0, <2>1, <2>2 DEF Promise!ContextsOf, Promise!FirstOf, Promise!Newest
<1>2. Broken => Broken'
  <2>1. tail = "undecodable" => tail' = tail
    <3>1. \A r \in Runs : tail = "undecodable" => ~RememberAppend(r) /\ ~RememberTorn(r) /\ ~RememberUnended(r)
      BY DEF RememberAppend, RememberTorn, RememberUnended, Opens
    <3> QED
      BY <1>0, <3>1, RecordsChange
  <2>2. spoiled => spoiled'
    BY DEF Noted
  <2> QED
    BY <2>1, <2>2 DEF Broken
<1>3. Broken' => FailedRuns' # {}
  BY <1>0 DEF Broken, FaultInv
<1>4. \/ Promise!Redigest \/ Promise!SaveBehind
      \/ \E r \in Runs : Promise!Save(r) \/ Promise!SaveFails(r)
  <2>f. \A r \in Runs : r \in FailedRuns <=> pc[r] \in {"unsaved", "unended"}
    BY DEF FailedRuns
  <2>l. ASSUME tail = "unended", records' = Continued  PROVE Promise!Retract
    <3>1. records # << >> /\ pc[records[Len(records)]] = "unended"
      BY <1>0, <2>l DEF LogInv, UnendedIsLast
    <3>2. records[Len(records)] \in Runs
      BY <1>0, <3>1, EmptySeq, ElementOfSeq
    <3>3. records' = SubSeq(records, 1, Len(records) - 1)
      BY <2>l DEF Continued
    <3> QED
      BY <3>1, <3>2, <3>3 DEF Promise!Retract, Promise!LastFailed
  <2>c. tail # "unended" => Continued = records
    BY DEF Continued
  <2>1. CASE records' = records /\ tail' = tail
    <3>1. CASE FailedRuns' = FailedRuns
      BY <2>1, <3>1 DEF Promise!Redigest, FailedRuns
    <3>2. ASSUME NEW r \in Runs, r \notin FailedRuns, FailedRuns' = FailedRuns \cup {r}
          PROVE  Promise!SaveFails(r)
      BY <2>1, <3>2 DEF Promise!SaveFails, FailedRuns
    <3> QED
      BY <1>0, <3>1, <3>2, FailedMoves
  <2>2. ASSUME NEW r \in Runs, RememberAppend(r)
        PROVE  Promise!Save(r) \/ Promise!SaveBehind
    <3>1. FailedRuns' = FailedRuns
      BY <1>0, <2>2, FailedMoves
    <3>2. CASE tail = "clean"
      <4>1. records' = Append(records, r) /\ pc[r] = "executing"
        BY <2>2, <3>2 DEF RememberAppend
      <4>2. ~Promise!Saved(r)
        BY <1>0, <4>1 DEF LogInv, ExecutingUnrecorded, Recorded, Promise!Saved
      <4> QED
        BY <3>1, <4>1, <4>2 DEF Promise!Save, FailedRuns
    <3>3. CASE tail # "clean"
      <4>1. records' = Continued /\ FailedRuns # {}
        BY <1>0, <2>2, <3>3 DEF RememberAppend, FaultInv
      <4>2. Promise!Retract \/ records' = records
        BY <2>c, <2>l, <4>1
      <4> QED
        BY <3>1, <4>1, <4>2 DEF Promise!SaveBehind, FailedRuns
    <3> QED
      BY <3>2, <3>3
  <2>3. ASSUME NEW r \in Runs, RememberTorn(r) \/ RememberUnended(r)
        PROVE  Promise!SaveFails(r)
    <3>1. r \notin FailedRuns /\ FailedRuns' = FailedRuns \cup {r}
      BY <1>0, <2>3, FailedMoves
    <3>2. CASE RememberTorn(r)
      <4>1. records' = records \/ records' = Continued
        BY <3>2 DEF RememberTorn
      <4>2. Promise!Retract \/ records' = records
        BY <2>c, <2>l, <4>1
      <4> QED
        BY <3>1, <4>2 DEF Promise!SaveFails, FailedRuns
    <3>3. CASE RememberUnended(r)
      <4>1. records' = Append(records, r) /\ pc[r] = "executing"
        BY <3>3 DEF RememberUnended
      <4>2. ~Promise!Saved(r)
        BY <1>0, <4>1 DEF LogInv, ExecutingUnrecorded, Recorded, Promise!Saved
      <4> QED
        BY <3>1, <4>1, <4>2 DEF Promise!SaveFails, FailedRuns
    <3> QED
      BY <2>3, <3>2, <3>3
  <2> QED
    BY <1>0, <2>1, <2>2, <2>3, RecordsChange
<1> QED
  BY <1>1, <1>2, <1>3, <1>4 DEF Promise!Next, FailedRuns

\* A step that changes nothing is a stutter of SessionLog.
LEMMA PromiseStutter == UNCHANGED <<vars, history>> => UNCHANGED Promise!vars
BY DEF vars, files, history, Promise!vars, Broken, Visible, SummaryIsValid, ReadState

(***************************************************************************)
(* SessionMemory implements SessionLog: whatever refreshes, failed writes  *)
(* and kills do, the log only gains records and the next run's context has *)
(* no gap.  A record is lost, or the promise ends, only behind an append   *)
(* that broke off, and that its run was told of.                           *)
(***************************************************************************)
THEOREM PromiseKept == Spec => KeepsPromise
<1> USE DEF KeepsPromise
<1>1. PromiseInv /\ PromiseInv' /\ [Next /\ Noted]_<<vars, history>> => [Promise!Next]_Promise!vars
  BY PromiseStep, PromiseStutter
<1> QED
  BY <1>1, PromiseStart, PromiseInvStep, PromiseInit, PTL DEF Spec, Promise!Spec

-------------------------------------------------------------------------------
(* The file lock.                                                          *)

\* Where a thread holds the file lock of its process.
Locked == {"appended", "reserving", "marking", "failing", "committing", "updating"}

\* Who is at a label behind the file lock of its process holds it.
LockInv == \A t \in Threads : pc[t] \in Locked => lock[Process(t)] = t

\* LockInv holds at first.
LEMMA LockInit == Init => LockInv
BY DEF Init, LockInv, Locked, Threads

(***************************************************************************)
(* Every step keeps the lock sections of a process apart.                  *)
(***************************************************************************)
LEMMA LockStep == ASSUME TypeInv, LockInv, [Next]_vars  PROVE LockInv'
<1>0. /\ pc \in [Threads -> Labels] /\ lock \in [Processes -> Threads \cup {NoThread}]
      /\ \A t \in Threads : Process(t) \in Processes /\ t # NoThread
      /\ Runs \subseteq Threads /\ Workers \subseteq Threads /\ Updaters \subseteq Threads
  BY ConstantTypes, SessionMemoryAssumption DEF TypeInv, TypeOK, Threads
<1>1. \A t \in Threads : pc[t] \in Locked => lock[Process(t)] = t
  BY DEF LockInv
\* A thread that does without the lock, or keeps it.
<1>a. ASSUME NEW t \in Threads, NEW label, Goto(t, label), lock' = lock,
             label \notin Locked \/ pc[t] \in Locked
      PROVE  LockInv'
  BY <1>0, <1>1, <1>a DEF LockInv, Goto
\* A thread that takes the lock.
<1>b. ASSUME NEW t \in Threads, NEW label, Goto(t, label), Free(t),
             lock' = [lock EXCEPT ![Process(t)] = t]
      PROVE  LockInv'
  BY <1>0, <1>1, <1>b DEF LockInv, Goto, Free
\* A thread that gives it back.
<1>c. ASSUME NEW t \in Threads, NEW label, Goto(t, label), Leave(t), pc[t] \in Locked, label \notin Locked
      PROVE  LockInv'
  BY <1>0, <1>1, <1>c DEF LockInv, Goto, Leave
<1>2. ASSUME NEW r \in Runs, RunStep(r) \/ RememberTorn(r) \/ RememberUnended(r)  PROVE LockInv'
  <2>1. CASE RememberAppend(r) \/ ReserveRead(r)
    BY <1>0, <1>b, <2>1 DEF RememberAppend, ReserveRead, Enter, Opens
  <2>2. CASE RememberWrite(r) \/ ReserveWrite(r)
    BY <1>0, <1>c, <2>2 DEF RememberWrite, ReserveWrite, Locked
  <2>3. CASE ReserveSuppressed(r) \/ RememberTorn(r) \/ RememberUnended(r)
    BY <1>0, <1>a, <2>3 DEF ReserveSuppressed, RememberTorn, RememberUnended, Locked, locks
  <2>4. CASE Enqueue(r)
    <3>1. lock' = lock /\ \A t \in Threads : pc'[t] \in {pc[t], "done", "pop"}
      BY <1>0, <2>4 DEF Enqueue, Goto, locks
    <3> QED
      BY <1>1, <3>1 DEF LockInv, Locked
  <2> QED
    BY <1>2, <2>1, <2>2, <2>3, <2>4 DEF RunStep
<1>3. ASSUME NEW t \in Threads, RefreshStep(t)  PROVE LockInv'
  <2>0. AfterRefresh(t) \notin Locked /\ AfterError(t) \notin Locked
    BY DEF AfterRefresh, AfterError, Locked
  <2>1. CASE NothingToRefresh(t) \/ BeginRefresh(t) \/ Summarize(t) \/ SummarizeFails(t)
    <3>1. PICK label \in {"summarizing", "commit", AfterRefresh(t), AfterError(t)} : Goto(t, label)
      BY <2>1 DEF NothingToRefresh, BeginRefresh, Summarize, SummarizeFails
    <3>2. lock' = lock
      BY <2>1 DEF NothingToRefresh, BeginRefresh, Summarize, SummarizeFails, locks
    <3> QED
      BY <1>a, <2>0, <3>1, <3>2 DEF Locked
  <2>2. CASE CommitSummary(t)
    <3>1. \/ Goto(t, "committing") /\ lock' = [lock EXCEPT ![Process(t)] = t] /\ Free(t)
          \/ Goto(t, AfterError(t)) /\ lock' = lock
      BY <2>2 DEF CommitSummary, Opens
    <3> QED
      BY <1>a, <1>b, <2>0, <3>1
  <2>3. CASE CommitRead(t)
    BY <1>a, <2>3 DEF CommitRead, Locked, locks
  <2>4. CASE CommitWrite(t)
    <3>1. \E label \in {"summarizing", AfterRefresh(t)} : Goto(t, label)
      BY <2>4 DEF CommitWrite
    <3>2. Leave(t) /\ pc[t] \in Locked
      BY <2>4 DEF CommitWrite, Locked
    <3> QED
      BY <1>c, <2>0, <3>1, <3>2 DEF Locked
  <2> QED
    BY <1>3, <2>1, <2>2, <2>3, <2>4 DEF RefreshStep
<1>4. ASSUME NEW w \in Workers, WorkerStep(w) \/ ReportRaises(w)  PROVE LockInv'
  <2>1. CASE Pop(w) \/ Settle(w) \/ AfterFailure(w) \/ ReportRaises(w)
    <3>1. PICK label \in {"mark", "idle", "pop", "dead"} : Goto(w, label)
      BY <2>1 DEF Pop, Settle, AfterFailure, ReportRaises, Retire
    <3>2. lock' = lock
      BY <2>1 DEF Pop, Settle, AfterFailure, ReportRaises, locks
    <3> QED
      BY <1>0, <1>a, <3>1, <3>2 DEF Locked
  <2>2. CASE MarkRead(w) \/ FailRead(w)
    <3>1. \/ (Goto(w, "marking") \/ Goto(w, "failing")) /\ Free(w) /\ lock' = [lock EXCEPT ![Process(w)] = w]
          \/ Goto(w, "refresh") /\ lock' = lock
      BY <2>2 DEF MarkRead, FailRead, Enter, Opens
    <3> QED
      BY <1>0, <1>a, <1>b, <3>1 DEF Locked
  <2>3. CASE MarkWrite(w) \/ FailWrite(w)
    <3>1. (Goto(w, "refresh") \/ Goto(w, "report")) /\ Leave(w) /\ pc[w] \in {"marking", "failing"}
      BY <2>3 DEF MarkWrite, FailWrite
    <3> QED
      BY <1>0, <1>c, <3>1 DEF Locked
  <2> QED
    BY <1>0, <1>3, <1>4, <2>1, <2>2, <2>3 DEF WorkerStep
<1>5. ASSUME NEW t \in Threads, StateWriteFails(t)  PROVE LockInv'
  <2>1. Leave(t) /\ pc[t] \in Locked /\ Goto(t, AfterWriteError(t)) /\ AfterWriteError(t) \notin Locked
    BY <1>5 DEF StateWriteFails, AfterWriteError, AfterError, Locked
  <2> QED
    BY <1>c, <2>1
<1>6. ASSUME NEW p \in Processes, Kill(p)  PROVE LockInv'
  <2>1. /\ \A t \in Threads : pc'[t] = IF Process(t) = p THEN AfterKill(t) ELSE pc[t]
        /\ lock' = [lock EXCEPT ![p] = NoThread]
    BY <1>6 DEF Kill
  <2>2. \A t \in Threads : AfterKill(t) \notin Locked
    BY DEF AfterKill, Locked
  <2> QED
    BY <1>0, <1>1, <2>1, <2>2 DEF LockInv
<1>8. ASSUME NEW t \in Threads, ReadRaises(t)  PROVE LockInv'
  <2>1. lock' = lock /\ Goto(t, AfterReadError(t)) /\ AfterReadError(t) \notin Locked
    BY <1>8 DEF ReadRaises, AfterReadError, AfterError, Locked
  <2> QED
    BY <1>a, <2>1
<1>7. CASE UNCHANGED vars
  BY <1>1, <1>7 DEF LockInv, vars, locks
<1> QED
  BY <1>0, <1>2, <1>3, <1>4, <1>5, <1>6, <1>7, <1>8 DEF Next, Fault

-------------------------------------------------------------------------------
(* One thread, and always a target for it.                                 *)

(***************************************************************************)
(* A run reserves in a log that is not empty, so it hands over a target.   *)
(***************************************************************************)
ReservedTarget ==
  \A r \in Runs : /\ pc[r] = "reserving" => Len(records) > 0
                  /\ pc[r] = "reserved" => target[r] > 0

\* The inductive invariant of the scheduler.
SchedulerInv == TypeInv /\ LockInv /\ OneRefresher /\ RefresherHasTarget /\ ReservedTarget

\* It holds at first.
LEMMA SchedulerInit == Init => SchedulerInv
<1> SUFFICES ASSUME Init PROVE SchedulerInv
  OBVIOUS
<1>1. \A w \in Workers : pc[w] = "idle"
  BY SessionMemoryAssumption DEF Init, Threads
<1>2. \A r \in Runs : pc[r] = "executing"
  BY DEF Init, Threads
<1>3. OneRefresher
  BY <1>1 DEF Init, OneRefresher
<1> QED
  BY <1>1, <1>2, <1>3, TypeInit, LockInit DEF SchedulerInv, RefresherHasTarget, ReservedTarget

(***************************************************************************)
(* A thread that moves on without touching the scheduler's tables, from    *)
(* and to places where it has its target.  Where a run appends or fails    *)
(* to, nobody reserves: the lock is free.                                  *)
(***************************************************************************)
Tables == <<targets, running, target>>

\* A move that leaves the scheduler's tables alone keeps it.
LEMMA MoveKeeps ==
  ASSUME SchedulerInv, TypeInv', LockInv', NEW t \in Threads, NEW label, Goto(t, label),
         UNCHANGED Tables, records' = records \/ (t \in Runs /\ Free(t)),
         t \in Workers => pc[t] \notin {"idle", "pop", "dead"} /\ label \notin {"idle", "pop"},
         t \in Runs => label \notin {"reserving", "reserved"}
  PROVE  SchedulerInv'
<1>0. /\ pc \in [Threads -> Labels] /\ Workers \subseteq Threads /\ Runs \subseteq Threads
      /\ pc' = [pc EXCEPT ![t] = label]
      /\ Len(records) \in Nat /\ Len(records') \in Nat
  BY DEF SchedulerInv, TypeInv, TypeOK, Threads, Goto
<1>1. \A w \in Workers : pc'[w] = "idle" <=> pc[w] = "idle"
  BY <1>0
<1>2. OneRefresher'
  BY <1>1 DEF SchedulerInv, OneRefresher, Tables
<1>3. RefresherHasTarget'
  BY <1>0 DEF SchedulerInv, RefresherHasTarget, Tables
<1>4. ASSUME NEW r \in Runs, pc'[r] = "reserving"  PROVE Len(records') > 0
  <2>1. r # t /\ pc[r] = "reserving"
    BY <1>0, <1>4
  <2>2. CASE records' = records
    BY <1>0, <2>1, <2>2 DEF SchedulerInv, ReservedTarget
  <2>3. CASE t \in Runs /\ Free(t)
    <3>1. Process(r) = Process(t) /\ r # NoThread /\ lock[Process(r)] = r
      BY <1>0, <2>1, <2>3, SessionMemoryAssumption DEF SchedulerInv, LockInv, Locked, Process, Threads
    <3> QED
      BY <2>3, <3>1 DEF Free
  <2> QED
    BY <2>2, <2>3
<1>5. ReservedTarget'
  BY <1>0, <1>4 DEF SchedulerInv, ReservedTarget, Tables
<1> QED
  BY <1>2, <1>3, <1>5 DEF SchedulerInv

(***************************************************************************)
(* The steps of a run.                                                     *)
(***************************************************************************)
LEMMA SchedulerRunStep ==
  ASSUME SchedulerInv, TypeInv', LockInv', NEW r \in Runs,
         RunStep(r) \/ RememberTorn(r) \/ RememberUnended(r)
  PROVE  SchedulerInv'
<1>0. /\ pc \in [Threads -> Labels] /\ target \in [Threads -> Nat] /\ targets \in Nat
      /\ r \in Threads /\ r \notin Workers /\ Len(records) \in Nat
      /\ Workers \subseteq Threads /\ Runs \subseteq Threads
  BY SessionMemoryAssumption DEF SchedulerInv, TypeInv, TypeOK, Threads
<1>1. CASE \/ RememberAppend(r) \/ RememberWrite(r) \/ ReserveSuppressed(r)
           \/ RememberTorn(r) \/ RememberUnended(r)
  <2>1. /\ UNCHANGED Tables
        /\ \E label \in {"appended", "saved", "done", "unsaved", "unended"} : Goto(r, label)
    BY <1>1 DEF RememberAppend, RememberWrite, ReserveSuppressed, RememberTorn, RememberUnended,
                Tables, scheduler
  <2>2. records' = records \/ Free(r)
    BY <1>1 DEF RememberAppend, RememberWrite, ReserveSuppressed, RememberTorn, RememberUnended,
                files, Opens
  <2> QED
    BY <1>0, <2>1, <2>2, MoveKeeps
<1>2. CASE ReserveRead(r)
  <2>1. UNCHANGED Tables /\ records' = records /\ pc' = [pc EXCEPT ![r] = "reserving"]
    BY <1>2 DEF ReserveRead, Goto, Tables, scheduler, files
  <2>2. Len(records) > 0
    <3>1. ReadState(Len(records)) \in StateFile
      BY <1>0, ReadStateType DEF SchedulerInv, TypeInv
    <3>2. ReadState(Len(records)).covered \in Nat
      BY <3>1 DEF StateFile
    <3>3. ~(Len(records) <= ReadState(Len(records)).covered)
      BY <1>2 DEF ReserveRead, Suppressed
    <3> QED
      BY <1>0, <3>2, <3>3
  <2> QED
    BY <1>0, <2>1, <2>2
       DEF SchedulerInv, OneRefresher, RefresherHasTarget, ReservedTarget, Tables
<1>3. CASE ReserveWrite(r)
  <2>1. /\ UNCHANGED <<targets, running, records>>
        /\ pc[r] = "reserving" /\ pc' = [pc EXCEPT ![r] = "reserved"]
        /\ target' = [target EXCEPT ![r] = Len(records)]
    BY <1>3 DEF ReserveWrite, Goto, scheduler
  <2>2. Len(records) > 0
    BY <2>1 DEF SchedulerInv, ReservedTarget
  <2> QED
    BY <1>0, <2>1, <2>2
       DEF SchedulerInv, OneRefresher, RefresherHasTarget, ReservedTarget
<1>4. CASE Enqueue(r)
  <2>1. /\ target' = target /\ records' = records
        /\ pc[r] = "reserved" /\ targets' = Larger(target[r], targets)
    BY <1>4 DEF Enqueue, files
  <2>2. targets' > 0 /\ targets' >= targets
    BY <1>0, <2>1 DEF SchedulerInv, ReservedTarget, Larger
  <2>3. CASE running
    <3>1. running' = running /\ pc' = [pc EXCEPT ![r] = "done"]
      BY <1>4, <2>3 DEF Enqueue, Goto
    <3> QED
      BY <1>0, <2>1, <2>2, <3>1
         DEF SchedulerInv, OneRefresher, RefresherHasTarget, ReservedTarget
  <2>4. CASE ~running
    <3>1. PICK w \in Workers : pc' = [pc EXCEPT ![r] = "done", ![w] = "pop"]
      BY <1>4, <2>4 DEF Enqueue
    <3>2. running' = TRUE
      BY <1>4, <2>4 DEF Enqueue
    <3>3. \A v \in Workers : pc[v] = "idle"
      BY <2>4 DEF SchedulerInv, OneRefresher
    <3>4. /\ pc'[w] = "pop" /\ \A v \in Workers : v # w => pc'[v] = "idle"
          /\ \A q \in Runs : pc'[q] = IF q = r THEN "done" ELSE pc[q]
      BY <1>0, <3>1, <3>3, SessionMemoryAssumption
    <3>5. OneRefresher'
      BY <3>2, <3>4 DEF OneRefresher
    <3>6. RefresherHasTarget'
      BY <2>2, <3>4 DEF RefresherHasTarget
    <3>7. ReservedTarget'
      BY <2>1, <3>4 DEF SchedulerInv, ReservedTarget
    <3> QED
      BY <3>5, <3>6, <3>7 DEF SchedulerInv
  <2> QED
    BY <2>3, <2>4
<1> QED
  BY <1>1, <1>2, <1>3, <1>4 DEF RunStep

(***************************************************************************)
(* The steps of a refresh: the thread keeps its target.                    *)
(***************************************************************************)
LEMMA SchedulerRefreshStep ==
  ASSUME SchedulerInv, TypeInv', LockInv', NEW t \in Threads, RefreshStep(t), t \notin Runs
  PROVE  SchedulerInv'
<1>1. UNCHANGED Tables /\ records' = records
  BY DEF RefreshStep, Tables, scheduler, files, NothingToRefresh, BeginRefresh, Summarize,
         SummarizeFails, CommitSummary, CommitRead, CommitWrite
<1>2. pc[t] \in {"refresh", "summarizing", "commit", "committing", "updating"}
  BY DEF RefreshStep, NothingToRefresh, BeginRefresh, Summarize,
         SummarizeFails, CommitSummary, CommitRead, CommitWrite
<1>3. \E label \in {"summarizing", "commit", "committing", "updating",
                    AfterRefresh(t), AfterError(t)} : Goto(t, label)
  BY DEF RefreshStep, NothingToRefresh, BeginRefresh, Summarize,
         SummarizeFails, CommitSummary, CommitRead, CommitWrite
<1>4. /\ AfterRefresh(t) \notin {"idle", "pop"}
      /\ AfterError(t) \notin {"idle", "pop"}
  BY DEF AfterRefresh, AfterError
<1> QED
  BY <1>1, <1>2, <1>3, <1>4, MoveKeeps

(***************************************************************************)
(* The scheduler thread's own steps.                                       *)
(***************************************************************************)
LEMMA SchedulerThreadStep ==
  ASSUME SchedulerInv, TypeInv', LockInv', NEW w \in Workers,
         \/ Pop(w) \/ MarkRead(w) \/ MarkWrite(w) \/ Settle(w)
         \/ FailRead(w) \/ FailWrite(w) \/ AfterFailure(w) \/ ReportRaises(w)
  PROVE  SchedulerInv'
<1>0. /\ pc \in [Threads -> Labels] /\ target \in [Threads -> Nat] /\ targets \in Nat
      /\ w \in Threads /\ w \notin Runs
      /\ Workers \subseteq Threads /\ Runs \subseteq Threads
  BY SessionMemoryAssumption DEF SchedulerInv, TypeInv, TypeOK, Threads
<1>1. CASE Pop(w)
  <2>1. /\ UNCHANGED <<running, records>> /\ pc[w] = "pop"
        /\ pc' = [pc EXCEPT ![w] = "mark"]
        /\ target' = [target EXCEPT ![w] = targets]
    BY <1>1 DEF Pop, Goto, files
  <2>2. \A v \in Workers : v # w => pc[v] = "idle" /\ pc'[v] = "idle"
    BY <1>0, <2>1 DEF SchedulerInv, OneRefresher
  <2>3. pc'[w] = "mark" /\ target'[w] > 0
    BY <1>0, <2>1 DEF SchedulerInv, RefresherHasTarget
  <2>4. \A r \in Runs : pc'[r] = pc[r] /\ target'[r] = target[r]
    BY <1>0, <2>1
  <2>5. OneRefresher'
    BY <2>1, <2>2, <2>3 DEF SchedulerInv, OneRefresher
  <2>6. RefresherHasTarget'
    BY <2>2, <2>3 DEF RefresherHasTarget
  <2> QED
    BY <2>1, <2>4, <2>5, <2>6 DEF SchedulerInv, ReservedTarget
<1>2. CASE MarkRead(w) \/ MarkWrite(w) \/ FailRead(w) \/ FailWrite(w) \/ ReportRaises(w)
  <2>1. /\ UNCHANGED Tables /\ records' = records
        /\ pc[w] \in {"mark", "marking", "fail", "failing", "report"}
        /\ \E label \in {"marking", "refresh", "failing", "report", "dead"} : Goto(w, label)
    BY <1>2 DEF MarkRead, MarkWrite, FailRead, FailWrite, ReportRaises, Tables, scheduler, files
  <2> QED
    BY <1>0, <2>1, MoveKeeps
<1>r. ASSUME Retire(w), pc[w] # "idle", records' = records PROVE SchedulerInv'
  <2>1. /\ running' = FALSE /\ pc' = [pc EXCEPT ![w] = "idle"]
        /\ target' = [target EXCEPT ![w] = 0]
    BY <1>r DEF Retire, Goto
  <2>2. \A v \in Workers : pc'[v] = "idle"
    BY <1>0, <1>r, <2>1 DEF SchedulerInv, OneRefresher
  <2>3. OneRefresher' /\ RefresherHasTarget'
    BY <2>1, <2>2 DEF OneRefresher, RefresherHasTarget
  <2> QED
    BY <1>0, <1>r, <2>1, <2>3 DEF SchedulerInv, ReservedTarget
<1>p. ASSUME Goto(w, "pop"), pc[w] # "idle", targets > 0, UNCHANGED Tables, records' = records
      PROVE  SchedulerInv'
  <2>1. pc' = [pc EXCEPT ![w] = "pop"] /\ UNCHANGED <<targets, running, target>>
    BY <1>p DEF Goto, Tables
  <2>2. \A v \in Workers : (pc'[v] = "idle" <=> pc[v] = "idle")
    BY <1>0, <1>p, <2>1
  <2>3. OneRefresher'
    BY <2>1, <2>2 DEF SchedulerInv, OneRefresher
  <2>4. RefresherHasTarget'
    BY <1>0, <1>p, <2>1 DEF SchedulerInv, RefresherHasTarget
  <2> QED
    BY <1>0, <1>p, <2>1, <2>3, <2>4 DEF SchedulerInv, ReservedTarget
<1>3. CASE Settle(w)
  BY <1>0, <1>r, <1>p, <1>3 DEF Settle, Tables, files
<1>4. CASE AfterFailure(w)
  <2>1. target[w] >= 0
    BY <1>0
  <2> QED
    BY <1>0, <1>r, <1>p, <1>4, <2>1 DEF AfterFailure, Tables, files, scheduler
<1> QED
  BY <1>1, <1>2, <1>3, <1>4

(***************************************************************************)
(* Every step keeps the scheduler's invariant.                             *)
(***************************************************************************)
LEMMA SchedulerStep == SchedulerInv /\ [Next]_vars => SchedulerInv'
<1> SUFFICES ASSUME SchedulerInv, [Next]_vars PROVE SchedulerInv'
  OBVIOUS
<1>0. /\ TypeInv /\ TypeInv' /\ LockInv' /\ pc \in [Threads -> Labels]
  BY TypeStep, LockStep DEF SchedulerInv, TypeInv, TypeOK
<1>1. ASSUME NEW r \in Runs, RunStep(r) \/ RememberTorn(r) \/ RememberUnended(r) PROVE SchedulerInv'
  BY <1>0, <1>1, SchedulerRunStep
<1>2. ASSUME NEW w \in Workers, WorkerStep(w) \/ ReportRaises(w) PROVE SchedulerInv'
  <2>1. w \in Threads /\ w \notin Runs
    BY SessionMemoryAssumption DEF Threads
  <2> QED
    BY <1>0, <1>2, <2>1, SchedulerThreadStep, SchedulerRefreshStep DEF WorkerStep
<1>3. ASSUME NEW u \in Updaters, RefreshStep(u) PROVE SchedulerInv'
  <2>1. u \in Threads /\ u \notin Runs
    BY SessionMemoryAssumption DEF Threads
  <2> QED
    BY <1>0, <1>3, <2>1, SchedulerRefreshStep
<1>4. ASSUME NEW t \in Threads, StateWriteFails(t) PROVE SchedulerInv'
  <2>1. /\ UNCHANGED Tables /\ records' = records /\ Goto(t, AfterWriteError(t))
        /\ pc[t] \in {"appended", "reserving", "marking", "updating", "failing"}
    BY <1>4 DEF StateWriteFails, Tables, scheduler, files
  <2>2. AfterWriteError(t) \notin {"idle", "pop", "reserving", "reserved"}
    BY DEF AfterWriteError, AfterError
  <2> QED
    BY <1>0, <2>1, <2>2, MoveKeeps
<1>5. ASSUME NEW p \in Processes, Kill(p) PROVE SchedulerInv'
  <2>1. /\ records' = records
        /\ \A t \in Threads : /\ pc'[t] = IF Process(t) = p THEN AfterKill(t) ELSE pc[t]
                              /\ t \in Runs => target'[t] = target[t]
    BY <1>5, SessionMemoryAssumption DEF Kill, files, Threads
  <2>2. ReservedTarget'
    BY <2>1 DEF SchedulerInv, ReservedTarget, AfterKill, Threads
  <2>3. \A w \in Workers : Process(w) = Daemon
    BY SessionMemoryAssumption DEF Process
  <2>4. CASE p = Daemon
    <3>1. targets' = 0 /\ running' = FALSE
      BY <1>5, <2>4 DEF Kill
    <3>2. \A w \in Workers : pc'[w] = "idle"
      BY <2>1, <2>3, <2>4 DEF AfterKill, Threads
    <3>3. OneRefresher' /\ RefresherHasTarget'
      BY <3>1, <3>2 DEF OneRefresher, RefresherHasTarget
    <3> QED
      BY <1>0, <2>2, <3>3 DEF SchedulerInv
  <2>5. CASE p # Daemon
    <3>1. targets' = targets /\ running' = running
      BY <1>5, <2>5 DEF Kill, scheduler
    <3>2. \A w \in Workers : pc'[w] = pc[w] /\ target'[w] = target[w]
      BY <1>5, <2>1, <2>3, <2>5 DEF Kill, Threads
    <3>3. OneRefresher' /\ RefresherHasTarget'
      BY <3>1, <3>2 DEF SchedulerInv, OneRefresher, RefresherHasTarget
    <3> QED
      BY <1>0, <2>2, <3>3 DEF SchedulerInv
  <2> QED
    BY <2>4, <2>5
<1>7. ASSUME NEW t \in Threads, ReadRaises(t) PROVE SchedulerInv'
  <2>1. /\ UNCHANGED Tables /\ records' = records /\ Goto(t, AfterReadError(t))
        /\ pc[t] \in {"executing", "saved", "mark", "refresh", "commit", "fail"}
    BY <1>7 DEF ReadRaises, Tables, scheduler, files
  <2>2. AfterReadError(t) \notin {"idle", "pop", "reserving", "reserved"}
    BY DEF AfterReadError, AfterError
  <2> QED
    BY <1>0, <2>1, <2>2, MoveKeeps
<1>6. CASE UNCHANGED vars
  <2>1. UNCHANGED <<pc, targets, running, target, records>>
    BY <1>6 DEF vars, files, scheduler
  <2> QED
    BY <1>0, <2>1 DEF SchedulerInv, OneRefresher, RefresherHasTarget, ReservedTarget
<1> QED
  BY <1>1, <1>2, <1>3, <1>4, <1>5, <1>6, <1>7 DEF Next, Fault

(***************************************************************************)
(* The session never has two refresh threads, and _running is set exactly  *)
(* while it has one.                                                       *)
(***************************************************************************)
THEOREM RefresherIsAlone == Spec => []OneRefresher
<1>1. SchedulerInv => OneRefresher
  BY DEF SchedulerInv
<1> QED
  BY <1>1, SchedulerInit, SchedulerStep, CoreStep, PTL DEF Spec

(***************************************************************************)
(* The default target 0 of _targets.pop is never used.                     *)
(***************************************************************************)
THEOREM TargetIsThere == Spec => []RefresherHasTarget
<1>1. SchedulerInv => RefresherHasTarget
  BY DEF SchedulerInv
<1> QED
  BY <1>1, SchedulerInit, SchedulerStep, CoreStep, PTL DEF Spec

-------------------------------------------------------------------------------
(* A new record unlocks a refresh.                                         *)

(***************************************************************************)
(* No control file, on disk or in a thread's hands, says that something    *)
(* was attempted or failed beyond the k-th record.                         *)
(***************************************************************************)
NumbersUpTo(k) ==
  /\ state.attempted <= k /\ state.failed <= k
  /\ \A t \in Threads : view[t].attempted <= k /\ view[t].failed <= k

(***************************************************************************)
(* That holds for the whole log; and for the log as it was before a run    *)
(* that has just added its record: whoever writes a higher number holds    *)
(* the daemon's lock, and the run is holding that.                         *)
(***************************************************************************)
NumbersInv ==
  /\ NumbersUpTo(Len(records))
  /\ \A r \in Runs : pc[r] = "appended" /\ Recorded(r) => NumbersUpTo(Len(records) - 1)

\* No append stopped before its newline, so no record disappears again.
NoneUnended == \A r \in Runs : pc[r] # "unended"

\* Log, locks and numbers together.
BookingInv == LogInv /\ LockInv /\ (NoneUnended => NumbersInv)

\* That no append did is seen from the state behind a step, and then the log grows.
LEMMA NoneUnendedBefore ==
  ASSUME LogInv, [Next]_vars, NoneUnended'
  PROVE  /\ NoneUnended /\ tail # "unended" /\ Continued = records
         /\ \A r \in Runs : ~RememberUnended(r)
         /\ Grows(records, records')
<1>0. TypeInv /\ RunsInv /\ records \in Seq(Runs) /\ pc \in [Threads -> Labels] /\ Runs \subseteq Threads
  BY DEF LogInv, TypeInv, TypeOK, Threads
<1>1. NoneUnended
  BY <1>0, RunProgress DEF NoneUnended, Unsaved
<1>2. tail # "unended"
  <2> SUFFICES ASSUME tail = "unended"  PROVE FALSE
    OBVIOUS
  <2>1. records # << >> /\ pc[records[Len(records)]] = "unended"
    BY DEF LogInv, UnendedIsLast
  <2>2. records[Len(records)] \in Runs
    BY <1>0, <2>1, EmptySeq, ElementOfSeq
  <2> QED
    BY <1>1, <2>1, <2>2 DEF NoneUnended
<1>3. \A r \in Runs : ~RememberUnended(r)
  BY <1>0 DEF RememberUnended, Goto, NoneUnended
<1> QED
  BY <1>0, <1>1, <1>2, <1>3, RecordsGrow DEF Continued

\* What a thread reads of the control file is cut to the length of the log.
LEMMA ReadStateNumbers ==
  ASSUME TypeOK, NEW n \in Nat
  PROVE  /\ ReadState(n) \in StateFile
         /\ ReadState(n).covered = Smaller(state.covered, n)
         /\ ReadState(n).attempted = Smaller(state.attempted, n)
         /\ ReadState(n).failed = Smaller(state.failed, n)
<1>1. state \in StateFile
  BY DEF TypeOK
<1> QED
  BY <1>1, ReadStateType DEF ReadState, StateFile

\* BookingInv holds at first.
LEMMA BookingInit == Init => BookingInv
<1> SUFFICES ASSUME Init PROVE BookingInv
  OBVIOUS
<1>1. Len(records) = 0 /\ state = DefaultState /\ \A t \in Threads : view[t] = DefaultState
  BY DEF Init
<1>2. \A r \in Runs : pc[r] # "appended"
  BY DEF Init, Threads
<1> QED
  BY <1>1, <1>2, LogInit, LockInit DEF BookingInv, NumbersInv, NumbersUpTo, DefaultState

(***************************************************************************)
(* A step that appends nothing, and after which no number is higher than   *)
(* before.                                                                 *)
(***************************************************************************)
LEMMA NumbersKept ==
  ASSUME TypeInv, NumbersInv, records' = records,
         \A k \in Nat : NumbersUpTo(k) => NumbersUpTo(k)',
         \A r \in Runs : pc'[r] = "appended" => pc[r] = "appended"
  PROVE  NumbersInv'
<1>1. Len(records) \in Nat /\ \A r \in Runs : Recorded(r)' <=> Recorded(r)
  BY DEF TypeInv, TypeOK, Recorded
<1>2. \A r \in Runs : Recorded(r) => Len(records) > 0
  BY <1>1 DEF Recorded
<1>3. \A k \in Nat : k = Len(records') => NumbersUpTo(k)'
  BY <1>1 DEF NumbersInv
<1>4. \A r \in Runs : pc'[r] = "appended" /\ Recorded(r)' =>
        \A k \in Nat : k = Len(records') - 1 => NumbersUpTo(k)'
  BY <1>1, <1>2 DEF NumbersInv
<1>5. Len(records') \in Nat /\ \A r \in Runs : Recorded(r)' => Len(records') - 1 \in Nat
  BY <1>1, <1>2
<1>6. NumbersUpTo(Len(records))'
  BY <1>3, <1>5 DEF NumbersUpTo
<1>7. \A r \in Runs : pc'[r] = "appended" /\ Recorded(r)' => NumbersUpTo(Len(records) - 1)'
  BY <1>4, <1>5 DEF NumbersUpTo
<1> QED
  BY <1>6, <1>7 DEF NumbersInv

(***************************************************************************)
(* A step of t that puts st into the control file and seen into its hands, *)
(* with no number higher than there was.                                   *)
(***************************************************************************)
LEMMA NumbersMoved ==
  ASSUME TypeInv, NumbersInv, records' = records, NEW t \in Threads,
         NEW st \in StateFile, NEW seen \in StateFile, state' = st, view' = [view EXCEPT ![t] = seen],
         \A k \in Nat : NumbersUpTo(k) => /\ st.attempted <= k /\ st.failed <= k
                                          /\ seen.attempted <= k /\ seen.failed <= k,
         \A r \in Runs : pc'[r] = "appended" => pc[r] = "appended"
  PROVE  NumbersInv'
<1>1. view \in [Threads -> StateFile]
  BY DEF TypeInv, TypeOK
<1>2. \A k \in Nat : NumbersUpTo(k) => NumbersUpTo(k)'
  BY <1>1 DEF NumbersUpTo
<1> QED
  BY <1>2, NumbersKept

(***************************************************************************)
(* What threads read and write that book nothing.                          *)
(***************************************************************************)
LEMMA NumbersRead ==
  ASSUME TypeInv, NEW n \in Nat, NEW k \in Nat, NumbersUpTo(k)
  PROVE  /\ state.attempted <= k /\ state.failed <= k
         /\ ReadState(n).attempted <= k /\ ReadState(n).failed <= k
         /\ DefaultState.attempted <= k /\ DefaultState.failed <= k
<1>1. state.attempted \in Nat /\ state.failed \in Nat /\ state.attempted <= k /\ state.failed <= k
  BY DEF TypeInv, TypeOK, StateFile, NumbersUpTo
<1>2. /\ ReadState(n).attempted = Smaller(state.attempted, n)
      /\ ReadState(n).failed = Smaller(state.failed, n)
  BY ReadStateNumbers DEF TypeInv
<1>3. DefaultState.attempted <= k /\ DefaultState.failed <= k
  BY DEF DefaultState
<1> QED
  BY <1>1, <1>2, <1>3 DEF Smaller

(***************************************************************************)
(* Every step keeps the numbers where they were.                           *)
(***************************************************************************)
LEMMA NumbersStep == ASSUME BookingInv, [Next]_vars, NoneUnended'  PROVE NumbersInv'
<1>0. /\ TypeInv /\ TypeInv' /\ LockInv /\ NumbersInv
      /\ \A r \in Runs : pc[r] = "executing" => ~Recorded(r)
      /\ Continued = records /\ \A r \in Runs : ~RememberUnended(r)
  BY TypeStep, NoneUnendedBefore DEF BookingInv, LogInv, ExecutingUnrecorded
<1>1. /\ pc \in [Threads -> Labels] /\ lock \in [Processes -> Threads \cup {NoThread}]
      /\ view \in [Threads -> StateFile] /\ target \in [Threads -> Nat] /\ records \in Seq(Runs)
      /\ state \in StateFile /\ Len(records) \in Nat /\ DefaultState \in StateFile
      /\ \A t \in Threads : Process(t) \in Processes /\ t # NoThread
      /\ Runs \subseteq Threads /\ Workers \subseteq Threads /\ Updaters \subseteq Threads
      /\ \A r \in Runs : Process(r) = Daemon
      /\ \A w \in Workers : Process(w) = Daemon
  BY <1>0, ConstantTypes, SessionMemoryAssumption DEF TypeInv, TypeOK, Threads, Process
<1>2. \A t \in Threads : pc[t] \in Locked => lock[Process(t)] = t
  BY <1>0 DEF LockInv
<1>3. NumbersUpTo(Len(records))
  BY <1>0 DEF NumbersInv
\* A step that neither appends nor touches a control file.
<1>a. ASSUME UNCHANGED <<records, state, view>>, \A r \in Runs : pc'[r] = "appended" => pc[r] = "appended"
      PROVE  NumbersInv'
  <2>1. \A k \in Nat : NumbersUpTo(k) => NumbersUpTo(k)'
    BY <1>a DEF NumbersUpTo
  <2> QED
    BY <1>0, <1>a, <2>1, NumbersKept
\* A thread that reads the control file, or lets go of it.
<1>b. ASSUME NEW t \in Threads, NEW label, Goto(t, label), label # "appended",
             UNCHANGED <<records, state>>, NEW n \in Nat, NEW seen \in {ReadState(n), DefaultState},
             view' = [view EXCEPT ![t] = seen]
      PROVE  NumbersInv'
  <2>1. \A k \in Nat : NumbersUpTo(k) => /\ state.attempted <= k /\ state.failed <= k
                                         /\ seen.attempted <= k /\ seen.failed <= k
    BY <1>0, <1>b, NumbersRead
  <2>2. seen \in StateFile
    BY <1>0, <1>1, <1>b, ReadStateNumbers DEF TypeInv
  <2>3. \A r \in Runs : pc'[r] = "appended" => pc[r] = "appended"
    BY <1>1, <1>b DEF Goto
  <2> QED
    BY <1>0, <1>1, <1>b, <2>1, <2>2, <2>3, NumbersMoved
\* A thread that writes what it has read, but for the numbers that follow.
<1>c. ASSUME NEW t \in Threads, NEW label, Goto(t, label), label # "appended", records' = records,
             Leave(t), NEW st \in StateFile, state' = st,
             st.attempted = view[t].attempted, st.failed \in {0, view[t].failed}
      PROVE  NumbersInv'
  <2>1. \A k \in Nat : NumbersUpTo(k) => /\ st.attempted <= k /\ st.failed <= k
                                         /\ DefaultState.attempted <= k /\ DefaultState.failed <= k
    BY <1>0, <1>c, NumbersRead DEF NumbersUpTo
  <2>2. \A r \in Runs : pc'[r] = "appended" => pc[r] = "appended"
    BY <1>1, <1>c DEF Goto
  <2> QED
    BY <1>0, <1>1, <1>c, <2>1, <2>2, NumbersMoved DEF Leave
\* A thread of the daemon that writes a new number, under the daemon's lock.
<1>d. ASSUME NEW t \in Runs \cup Workers, NEW label, Goto(t, label), label # "appended",
             pc[t] \in Locked \ {"appended"}, records' = records, Leave(t),
             NEW st \in StateFile, state' = st,
             st.attempted <= Len(records), st.failed <= Len(records)
      PROVE  NumbersInv'
  <2>1. \A r \in Runs : pc'[r] # "appended"
    BY <1>1, <1>2, <1>d DEF Goto, Locked
  <2>2. /\ view' = [view EXCEPT ![t] = DefaultState]
        /\ DefaultState.attempted <= Len(records) /\ DefaultState.failed <= Len(records)
    BY <1>1, <1>d DEF Leave, DefaultState
  <2>3. NumbersUpTo(Len(records))'
    BY <1>1, <1>3, <1>d, <2>2 DEF NumbersUpTo
  <2> QED
    BY <2>1, <2>3 DEF NumbersInv
<1>4. ASSUME NEW r \in Runs, RememberAppend(r)  PROVE NumbersInv'
  <2>1. /\ pc[r] = "executing" /\ pc' = [pc EXCEPT ![r] = "appended"] /\ state' = state
        /\ lock[Daemon] = NoThread /\ view' = [view EXCEPT ![r] = ReadState(Len(records))]
        /\ records' = IF tail = "clean" THEN Append(records, r) ELSE records
    BY <1>0, <1>1, <1>4 DEF RememberAppend, Goto, Opens, Free, Enter
  <2>2. ReadState(Len(records)) \in StateFile
    BY <1>0, <1>1, ReadStateNumbers DEF TypeInv
  <2>3. \A k \in Nat : NumbersUpTo(k) => NumbersUpTo(k)'
    <3> SUFFICES ASSUME NEW k \in Nat, NumbersUpTo(k)  PROVE NumbersUpTo(k)'
      OBVIOUS
    <3>1. ReadState(Len(records)).attempted <= k /\ ReadState(Len(records)).failed <= k
      BY <1>0, <1>1, NumbersRead
    <3> QED
      BY <1>1, <2>1, <2>2, <3>1 DEF NumbersUpTo
  <2>4. \A q \in Runs : pc'[q] = "appended" => q = r
    BY <1>1, <1>2, <2>1 DEF Locked
  <2>5. CASE tail # "clean"
    <3>1. records' = records /\ ~Recorded(r)'
      BY <1>0, <2>1, <2>5 DEF Recorded
    <3>2. NumbersUpTo(Len(records))'
      BY <1>1, <1>3, <2>3, <3>1 DEF NumbersUpTo
    <3> QED
      BY <2>4, <3>1, <3>2 DEF NumbersInv
  <2>6. CASE tail = "clean"
    <3>1. Len(records') = Len(records) + 1
      BY <1>1, <2>1, <2>6, AppendProperties
    <3>2. NumbersUpTo(Len(records))' /\ NumbersUpTo(Len(records) - 1)'
      <4>1. /\ state'.attempted <= Len(records) /\ state'.failed <= Len(records)
            /\ \A t \in Threads : view'[t].attempted <= Len(records) /\ view'[t].failed <= Len(records)
        BY <1>1, <1>3, <2>3 DEF NumbersUpTo
      <4>2. /\ state'.attempted \in Nat /\ state'.failed \in Nat
            /\ \A t \in Threads : view'[t].attempted \in Nat /\ view'[t].failed \in Nat
        BY <1>0 DEF TypeInv, TypeOK, StateFile
      <4> QED
        BY <1>1, <3>1, <4>1, <4>2 DEF NumbersUpTo
    <3> QED
      BY <3>2 DEF NumbersInv
  <2> QED
    BY <2>5, <2>6
<1>5. ASSUME NEW r \in Runs, RunStep(r) \/ RememberTorn(r)  PROVE NumbersInv'
  <2>1. CASE RememberWrite(r)
    <3>1. state' = [view[r] EXCEPT !.status = "dirty"] /\ Leave(r) /\ Goto(r, "saved") /\ records' = records
      BY <2>1 DEF RememberWrite
    <3>2. /\ [view[r] EXCEPT !.status = "dirty"] \in StateFile
          /\ [view[r] EXCEPT !.status = "dirty"].attempted = view[r].attempted
          /\ [view[r] EXCEPT !.status = "dirty"].failed = view[r].failed
      BY <1>1 DEF StateFile, Statuses
    <3> QED
      BY <1>1, <1>c, <3>1, <3>2
  <2>2. CASE ReserveRead(r)
    BY <1>1, <1>b, <2>2 DEF ReserveRead, Enter, files
  <2>3. CASE ReserveWrite(r)
    <3>1. /\ state' = [view[r] EXCEPT !.attempted = Len(records), !.status = "scheduled"]
          /\ Leave(r) /\ Goto(r, "reserved") /\ records' = records /\ pc[r] = "reserving"
      BY <2>3 DEF ReserveWrite
    <3>2. view[r].failed <= Len(records)
      BY <1>1, <1>3 DEF NumbersUpTo
    <3>5. view[r] \in StateFile
      BY <1>1
    <3>6. state'.attempted = Len(records) /\ state'.failed = view[r].failed
      BY <3>1, <3>5 DEF StateFile
    <3>3. state' \in StateFile /\ state'.attempted <= Len(records) /\ state'.failed <= Len(records)
      BY <1>0, <1>1, <3>2, <3>6 DEF TypeInv, TypeOK
    <3>4. PICK st \in StateFile : state' = st
      BY <3>3
    <3> QED
      BY <1>d, <3>1, <3>3, <3>4 DEF Locked
  <2>4. CASE ReserveSuppressed(r) \/ RememberTorn(r)
    BY <1>0, <1>1, <1>a, <2>4 DEF ReserveSuppressed, RememberTorn, Goto, files
  <2>5. CASE Enqueue(r)
    <3>1. \A q \in Runs : pc'[q] \in {pc[q], "done", "pop"}
      BY <1>1, <2>5 DEF Enqueue, Goto
    <3> QED
      BY <1>a, <2>5, <3>1 DEF Enqueue, files
  <2> QED
    BY <1>4, <1>5, <2>1, <2>2, <2>3, <2>4, <2>5 DEF RunStep
<1>6. ASSUME NEW t \in Threads, RefreshStep(t)  PROVE NumbersInv'
  <2>0. AfterRefresh(t) # "appended" /\ AfterError(t) # "appended"
    BY DEF AfterRefresh, AfterError
  <2>1. CASE NothingToRefresh(t) \/ BeginRefresh(t) \/ Summarize(t) \/ SummarizeFails(t) \/ CommitSummary(t)
    <3>1. PICK label \in {"summarizing", "commit", "committing", AfterRefresh(t), AfterError(t)} :
            Goto(t, label)
      BY <2>1 DEF NothingToRefresh, BeginRefresh, Summarize, SummarizeFails, CommitSummary
    <3>2. UNCHANGED <<records, state, view>>
      BY <2>1 DEF NothingToRefresh, BeginRefresh, Summarize, SummarizeFails, CommitSummary, files
    <3> QED
      BY <1>1, <1>a, <2>0, <3>1, <3>2 DEF Goto
  <2>2. CASE CommitRead(t)
    <3>1. work[t].seen \in Nat
      BY <1>0 DEF TypeInv, TypeOK, Works
    <3> QED
      BY <1>b, <2>2, <3>1 DEF CommitRead, files
  <2>3. CASE CommitWrite(t)
    <3>1. PICK label \in {"summarizing", AfterRefresh(t)} : Goto(t, label)
      BY <2>3 DEF CommitWrite
    <3>2. Leave(t) /\ records' = records /\ state'.attempted = view[t].attempted /\ state'.failed = 0
      BY <1>1, <2>3 DEF CommitWrite, StateFile
    <3>3. PICK st \in StateFile : state' = st
      BY <1>0 DEF TypeInv, TypeOK
    <3> QED
      BY <1>c, <2>0, <3>1, <3>2, <3>3
  <2> QED
    BY <1>6, <2>1, <2>2, <2>3 DEF RefreshStep
<1>7. ASSUME NEW w \in Workers, WorkerStep(w) \/ ReportRaises(w)  PROVE NumbersInv'
  <2>1. CASE Pop(w) \/ Settle(w) \/ AfterFailure(w) \/ ReportRaises(w)
    <3>1. PICK label \in {"mark", "idle", "pop", "dead"} : Goto(w, label)
      BY <2>1 DEF Pop, Settle, AfterFailure, ReportRaises, Retire
    <3>2. UNCHANGED <<records, state, view>>
      BY <2>1 DEF Pop, Settle, AfterFailure, ReportRaises, files
    <3> QED
      BY <1>1, <1>a, <3>1, <3>2 DEF Goto
  <2>2. CASE MarkRead(w) \/ FailRead(w)
    <3>1. UNCHANGED <<records, state>>
      BY <2>2 DEF MarkRead, FailRead, files
    <3>2. CASE Goto(w, "refresh") /\ view' = view
      BY <1>1, <1>a, <3>1, <3>2 DEF Goto
    <3>3. CASE \E label \in {"marking", "failing"} :
                 Goto(w, label) /\ view' = [view EXCEPT ![w] = ReadState(Len(records))]
      BY <1>1, <1>b, <3>1, <3>3
    <3> QED
      BY <2>2, <3>2, <3>3 DEF MarkRead, FailRead, Enter
  <2>3. CASE MarkWrite(w)
    <3>1. /\ state' = [view[w] EXCEPT !.status = "refreshing"]
          /\ Leave(w) /\ Goto(w, "refresh") /\ records' = records
      BY <2>3 DEF MarkWrite
    <3>2. /\ [view[w] EXCEPT !.status = "refreshing"] \in StateFile
          /\ [view[w] EXCEPT !.status = "refreshing"].attempted = view[w].attempted
          /\ [view[w] EXCEPT !.status = "refreshing"].failed = view[w].failed
      BY <1>1 DEF StateFile, Statuses
    <3> QED
      BY <1>1, <1>c, <3>1, <3>2
  <2>4. CASE FailWrite(w)
    <3>1. /\ state' = [view[w] EXCEPT !.failed = Smaller(target[w], Len(records)), !.status = "failed"]
          /\ Leave(w) /\ Goto(w, "report") /\ records' = records /\ pc[w] = "failing"
      BY <2>4 DEF FailWrite
    <3>2. view[w].attempted <= Len(records) /\ Smaller(target[w], Len(records)) <= Len(records)
          /\ Smaller(target[w], Len(records)) \in Nat
      BY <1>1, <1>3 DEF NumbersUpTo, Smaller
    <3>3. state' \in StateFile /\ state'.attempted <= Len(records) /\ state'.failed <= Len(records)
      BY <1>1, <3>1, <3>2 DEF StateFile, Statuses
    <3>4. PICK st \in StateFile : state' = st
      BY <3>3
    <3> QED
      BY <1>d, <3>1, <3>3, <3>4 DEF Locked
  <2> QED
    BY <1>1, <1>6, <1>7, <2>1, <2>2, <2>3, <2>4 DEF WorkerStep
<1>8. ASSUME NEW t \in Threads, StateWriteFails(t)  PROVE NumbersInv'
  <2>1. /\ UNCHANGED <<records, state>> /\ Leave(t)
        /\ Goto(t, AfterWriteError(t)) /\ AfterWriteError(t) # "appended"
    BY <1>8 DEF StateWriteFails, AfterWriteError, AfterError, files
  <2> QED
    BY <1>1, <1>b, <2>1 DEF Leave
<1>9. ASSUME NEW p \in Processes, Kill(p)  PROVE NumbersInv'
  <2>1. /\ UNCHANGED <<records, state>>
        /\ \A t \in Threads : /\ pc'[t] = IF Process(t) = p THEN AfterKill(t) ELSE pc[t]
                              /\ view'[t] = IF Process(t) = p THEN DefaultState ELSE view[t]
    BY <1>9 DEF Kill, files
  <2>2. \A t \in Threads : AfterKill(t) # "appended"
    BY DEF AfterKill
  <2>3. \A k \in Nat : NumbersUpTo(k) => NumbersUpTo(k)'
    BY <2>1 DEF NumbersUpTo, DefaultState
  <2>4. \A r \in Runs : pc'[r] = "appended" => pc[r] = "appended"
    BY <1>1, <2>1, <2>2
  <2> QED
    BY <1>0, <2>1, <2>3, <2>4, NumbersKept
<1>11. ASSUME NEW t \in Threads, ReadRaises(t)  PROVE NumbersInv'
  <2>1. UNCHANGED <<records, state, view>> /\ Goto(t, AfterReadError(t)) /\ AfterReadError(t) # "appended"
    BY <1>11 DEF ReadRaises, AfterReadError, AfterError, files
  <2> QED
    BY <1>1, <1>a, <2>1 DEF Goto
<1>10. CASE UNCHANGED vars
  BY <1>a, <1>10 DEF vars, files
<1> QED
  BY <1>0, <1>1, <1>5, <1>6, <1>7, <1>8, <1>9, <1>10, <1>11 DEF Next, Fault

\* Every step keeps BookingInv.
LEMMA BookingStep == BookingInv /\ [Next]_vars => BookingInv'
BY LogStep, LockStep, NumbersStep DEF BookingInv, LogInv

(***************************************************************************)
(* Whatever was reserved, has failed, was killed, or is being refreshed by *)
(* another process: a run whose record has reached the log is not refused  *)
(* a refresh, unless a summary covers the record already, or some append   *)
(* stopped before its newline.                                             *)
(***************************************************************************)
THEOREM NewRecordsUnlock == Spec => []NewRecordUnlocks
<1>1. BookingInv => NewRecordUnlocks
  <2> SUFFICES ASSUME BookingInv, NEW r \in Runs, pc[r] = "appended", Recorded(r), NoneUnended,
                      Suppressed(Len(records), ReadState(Len(records)))
               PROVE  state.covered >= Len(records)
    BY DEF NewRecordUnlocks, Recorded, NoneUnended
  <2>1. TypeOK /\ Len(records) \in Nat /\ state \in StateFile
    BY DEF BookingInv, LogInv, TypeInv, TypeOK
  <2>2. state.attempted <= Len(records) - 1 /\ state.failed <= Len(records) - 1
    BY DEF BookingInv, NumbersInv, NumbersUpTo
  <2>3. /\ ReadState(Len(records)).covered = Smaller(state.covered, Len(records))
        /\ ReadState(Len(records)).attempted = Smaller(state.attempted, Len(records))
        /\ ReadState(Len(records)).failed = Smaller(state.failed, Len(records))
    BY <2>1, ReadStateNumbers
  <2>4. state.covered \in Nat /\ state.attempted \in Nat /\ state.failed \in Nat
    BY <2>1 DEF StateFile
  <2> QED
    BY <2>1, <2>2, <2>3, <2>4 DEF Suppressed, Smaller
<1> QED
  BY <1>1, BookingInit, BookingStep, CoreStep, PTL DEF Spec
-------------------------------------------------------------------------------
(* One process only: each sequence is reserved once.                       *)

(***************************************************************************)
(* Without an updater every thread is the daemon's, and its lock excludes  *)
(* every other one.                                                        *)
(***************************************************************************)
LEMMA OneProcess ==
  ASSUME Updaters = {}, TypeInv, LockInv
  PROVE  /\ \A t, u \in Threads : pc[t] \in Locked /\ pc[u] \in Locked => t = u
         /\ \A t, u \in Threads : Free(t) => pc[u] \notin Locked
<1>1. \A t \in Threads : Process(t) = Daemon /\ t # NoThread
  BY SessionMemoryAssumption DEF Process, Threads
<1> QED
  BY <1>1 DEF LockInv, Free

(***************************************************************************)
(* What the lock's holder has read is what the file says; the file says at *)
(* least what was reserved; and who is about to reserve reserves more.     *)
(***************************************************************************)
AttemptInv ==
  /\ \A r \in Runs : target[r] <= state.attempted
  /\ \A t \in Threads : pc[t] \in Locked \ {"committing"} => view[t].attempted = state.attempted
  /\ \A t \in Threads : pc[t] = "committing" => work[t].seen = Len(records)
  /\ \A r \in Runs : pc[r] = "reserving" => state.attempted < Len(records)
  /\ OneAttemptPerSequence

\* AttemptInv holds at first.
LEMMA AttemptInit == Init => AttemptInv
BY DEF Init, AttemptInv, OneAttemptPerSequence, Locked, Threads, DefaultState

\* Every step keeps AttemptInv where nobody runs UpdateMemory.
LEMMA AttemptStep ==
  ASSUME Updaters = {}, BookingInv, AttemptInv, [Next]_vars, NoneUnended'  PROVE AttemptInv'
<1>0. /\ TypeInv /\ TypeInv' /\ TypeOK /\ NumbersUpTo(Len(records))
      /\ \A t, u \in Threads : pc[t] \in Locked /\ pc[u] \in Locked => t = u
      /\ \A t, u \in Threads : Free(t) => pc[u] \notin Locked
      /\ Continued = records /\ \A r \in Runs : ~RememberUnended(r)
  BY TypeStep, OneProcess, NoneUnendedBefore DEF BookingInv, LogInv, NumbersInv, TypeInv
<1>1. /\ pc \in [Threads -> Labels] /\ view \in [Threads -> StateFile] /\ target \in [Threads -> Nat]
      /\ work \in [Threads -> Works] /\ state \in StateFile
      /\ state.attempted \in Nat /\ Len(records) \in Nat
      /\ \A t \in Threads : Process(t) = Daemon
      /\ Runs \subseteq Threads /\ Workers \subseteq Threads /\ Updaters \subseteq Threads
      /\ \A w \in Workers : w \notin Runs
  BY <1>0, SessionMemoryAssumption DEF TypeInv, TypeOK, StateFile, Threads, Process
<1>2. /\ \A r \in Runs : target[r] <= state.attempted
      /\ \A t \in Threads : pc[t] \in Locked \ {"committing"} => view[t].attempted = state.attempted
      /\ \A t \in Threads : pc[t] = "committing" => work[t].seen = Len(records)
      /\ \A r \in Runs : pc[r] = "reserving" => state.attempted < Len(records)
      /\ \A r, q \in Runs : r # q /\ target[r] = target[q] => target[r] = 0
  BY DEF AttemptInv, OneAttemptPerSequence
<1>3. ReadState(Len(records)).attempted = state.attempted
  <2>1. ReadState(Len(records)).attempted = Smaller(state.attempted, Len(records))
    BY <1>0, <1>1, ReadStateNumbers
  <2>2. state.attempted <= Len(records)
    BY <1>0 DEF NumbersUpTo
  <2> QED
    BY <1>1, <2>1, <2>2 DEF Smaller
\* A step after which nobody holds the lock who did not, and with what he had.
<1>a. ASSUME records' = records, state' = state, \A r \in Runs : target'[r] = target[r],
             \A u \in Threads : pc'[u] \in Locked =>
               pc'[u] = pc[u] /\ view'[u] = view[u] /\ work'[u] = work[u]
      PROVE  AttemptInv'
  BY <1>1, <1>2, <1>a DEF AttemptInv, OneAttemptPerSequence, Locked
\* The same for a step of t that does not take the lock.
<1>b. ASSUME NEW t \in Threads, NEW label, Goto(t, label), label \notin Locked,
             records' = records, state' = state, \A r \in Runs : target'[r] = target[r],
             \A u \in Threads : u # t => view'[u] = view[u] /\ work'[u] = work[u]
      PROVE  AttemptInv'
  BY <1>1, <1>a, <1>b DEF Goto
\* t takes the lock and reads the control file.
<1>c. ASSUME NEW t \in Threads, NEW label, Goto(t, label), Free(t), Enter(t, ReadState(Len(records))),
             label # "committing", state' = state, target' = target,
             label = "reserving" => state.attempted < Len(records) /\ records' = records
      PROVE  AttemptInv'
  <2>1. \A u \in Threads : pc'[u] \in Locked => u = t /\ pc'[u] = label
    BY <1>0, <1>1, <1>c DEF Goto
  <2>2. view'[t].attempted = state.attempted
    BY <1>1, <1>3, <1>c DEF Enter
  <2> QED
    BY <1>1, <1>2, <1>c, <2>1, <2>2 DEF AttemptInv, OneAttemptPerSequence, Locked
\* t gives it back, after it wrote what it had read.
<1>d. ASSUME NEW t \in Threads, NEW label, Goto(t, label), pc[t] \in Locked \ {"committing"},
             label \notin Locked, state'.attempted = view[t].attempted, target' = target
      PROVE  AttemptInv'
  <2>1. \A u \in Threads : pc'[u] \notin Locked
    BY <1>0, <1>1, <1>d DEF Goto
  <2>2. state'.attempted = state.attempted
    BY <1>2, <1>d
  <2> QED
    BY <1>1, <1>2, <1>d, <2>1, <2>2 DEF AttemptInv, OneAttemptPerSequence, Locked
<1>4. ASSUME NEW r \in Runs, RunStep(r) \/ RememberTorn(r)  PROVE AttemptInv'
  <2>1. CASE RememberAppend(r)
    BY <1>1, <1>c, <2>1 DEF RememberAppend, Opens, scheduler
  <2>2. CASE RememberWrite(r)
    <3>1. state' = [view[r] EXCEPT !.status = "dirty"] /\ view[r] \in StateFile
      BY <1>1, <2>2 DEF RememberWrite
    <3>2. state'.attempted = view[r].attempted
      BY <3>1 DEF StateFile
    <3> QED
      BY <1>1, <1>d, <2>2, <3>2 DEF RememberWrite, Locked
  <2>3. CASE ReserveRead(r)
    <3>1. state.attempted < Len(records)
      BY <1>1, <1>3, <2>3 DEF ReserveRead, Suppressed
    <3> QED
      BY <1>1, <1>c, <2>3, <3>1 DEF ReserveRead, Opens, files
  <2>4. CASE ReserveWrite(r)
    <3>1. /\ state' = [view[r] EXCEPT !.attempted = Len(records), !.status = "scheduled"]
          /\ pc[r] = "reserving" /\ pc' = [pc EXCEPT ![r] = "reserved"]
          /\ target' = [target EXCEPT ![r] = Len(records)] /\ view[r] \in StateFile
      BY <1>1, <2>4 DEF ReserveWrite, Goto
    <3>2. state'.attempted = Len(records) /\ state.attempted < Len(records)
      BY <1>2, <3>1 DEF StateFile
    <3>3. \A u \in Threads : pc'[u] \notin Locked
      BY <1>0, <1>1, <3>1 DEF Locked
    <3>4. \A q \in Runs : target'[q] = IF q = r THEN Len(records) ELSE target[q]
      BY <1>1, <3>1
    <3>5. \A q \in Runs : target[q] < Len(records)
      BY <1>1, <1>2, <3>2
    <3>6. OneAttemptPerSequence'
      BY <1>1, <1>2, <3>4, <3>5 DEF OneAttemptPerSequence
    <3>7. \A q \in Runs : target'[q] <= state'.attempted
      BY <1>1, <3>2, <3>4, <3>5
    <3> QED
      BY <1>1, <3>3, <3>6, <3>7 DEF AttemptInv, Locked
  <2>5. CASE ReserveSuppressed(r) \/ RememberTorn(r)
    BY <1>0, <1>1, <1>b, <2>5 DEF ReserveSuppressed, RememberTorn, files, scheduler, Locked
  <2>6. CASE Enqueue(r)
    <3>1. \A u \in Threads : pc'[u] \in {pc[u], "done", "pop"}
      BY <1>1, <2>6 DEF Enqueue, Goto
    <3> QED
      BY <1>a, <2>6, <3>1 DEF Enqueue, files, Locked
  <2> QED
    BY <1>4, <2>1, <2>2, <2>3, <2>4, <2>5, <2>6 DEF RunStep
<1>5. ASSUME NEW t \in Threads, RefreshStep(t)  PROVE AttemptInv'
  <2>0. AfterRefresh(t) \notin Locked /\ AfterError(t) \notin Locked
    BY DEF AfterRefresh, AfterError, Locked
  <2>1. CASE NothingToRefresh(t) \/ BeginRefresh(t) \/ Summarize(t) \/ SummarizeFails(t)
    <3>1. PICK label \in {"summarizing", "commit", AfterRefresh(t), AfterError(t)} : Goto(t, label)
      BY <2>1 DEF NothingToRefresh, BeginRefresh, Summarize, SummarizeFails
    <3>2. UNCHANGED <<records, state, view, target>>
      BY <2>1 DEF NothingToRefresh, BeginRefresh, Summarize, SummarizeFails, files
    <3>3. \A u \in Threads : u # t => work'[u] = work[u]
      BY <1>1, <2>1 DEF NothingToRefresh, BeginRefresh, Summarize, SummarizeFails, EndWork
    <3> QED
      BY <1>b, <2>0, <3>1, <3>2, <3>3 DEF Locked
  <2>2. CASE CommitSummary(t)
    <3>1. UNCHANGED <<records, state, view, target>>
      BY <2>2 DEF CommitSummary, scheduler
    <3>2. CASE Goto(t, AfterError(t)) /\ EndWork(t)
      BY <1>1, <1>b, <2>0, <3>1, <3>2 DEF EndWork
    <3>3. CASE Goto(t, "committing") /\ Free(t) /\ work' = [work EXCEPT ![t].seen = Len(records)]
      <4>1. \A u \in Threads : pc'[u] \in Locked => u = t /\ pc'[u] = "committing"
        BY <1>0, <1>1, <3>3 DEF Goto
      <4>2. work'[t].seen = Len(records)
        BY <1>1, <3>3 DEF Works
      <4> QED
        BY <1>1, <1>2, <3>1, <4>1, <4>2 DEF AttemptInv, OneAttemptPerSequence, Locked
    <3> QED
      BY <2>2, <3>2, <3>3 DEF CommitSummary, Opens
  <2>3. CASE CommitRead(t)
    <3>1. /\ UNCHANGED <<records, state, target, work>> /\ pc[t] = "committing"
          /\ pc' = [pc EXCEPT ![t] = "updating"] /\ view' = [view EXCEPT ![t] = ReadState(work[t].seen)]
      BY <2>3 DEF CommitRead, files, Goto
    <3>2. \A u \in Threads : pc'[u] \in Locked => u = t /\ pc'[u] = "updating"
      BY <1>0, <1>1, <3>1 DEF Locked
    <3>3. view'[t].attempted = state.attempted
      BY <1>1, <1>2, <1>3, <3>1
    <3> QED
      BY <1>1, <1>2, <3>1, <3>2, <3>3 DEF AttemptInv, OneAttemptPerSequence, Locked
  <2>4. CASE CommitWrite(t)
    <3>1. PICK label \in {"summarizing", AfterRefresh(t)} : Goto(t, label)
      BY <2>4 DEF CommitWrite
    <3>2. state'.attempted = view[t].attempted /\ target' = target /\ pc[t] = "updating"
      BY <1>1, <2>4 DEF CommitWrite, StateFile, scheduler
    <3> QED
      BY <1>d, <2>0, <3>1, <3>2 DEF Locked
  <2> QED
    BY <1>5, <2>1, <2>2, <2>3, <2>4 DEF RefreshStep
<1>6. ASSUME NEW w \in Workers, WorkerStep(w) \/ ReportRaises(w)  PROVE AttemptInv'
  <2>1. CASE Pop(w) \/ Settle(w) \/ AfterFailure(w) \/ ReportRaises(w)
    <3>1. PICK label \in {"mark", "idle", "pop", "dead"} : Goto(w, label)
      BY <2>1 DEF Pop, Settle, AfterFailure, ReportRaises, Retire
    <3>2. UNCHANGED <<records, state, view, work>>
      BY <2>1 DEF Pop, Settle, AfterFailure, ReportRaises, files
    <3>3. \A r \in Runs : target'[r] = target[r]
      BY <1>1, <2>1 DEF Pop, Settle, AfterFailure, ReportRaises, Retire
    <3> QED
      BY <1>1, <1>b, <3>1, <3>2, <3>3 DEF Locked
  <2>2. CASE MarkRead(w) \/ FailRead(w)
    <3>1. UNCHANGED <<records, state, target, work>>
      BY <2>2 DEF MarkRead, FailRead, files
    <3>2. CASE Goto(w, "refresh") /\ view' = view
      BY <1>1, <1>b, <3>1, <3>2 DEF Locked
    <3>3. CASE \E label \in {"marking", "failing"} :
                 Goto(w, label) /\ Free(w) /\ Enter(w, ReadState(Len(records)))
      BY <1>1, <1>c, <3>1, <3>3
    <3> QED
      BY <2>2, <3>2, <3>3 DEF MarkRead, FailRead, Opens
  <2>3. CASE MarkWrite(w) \/ FailWrite(w)
    <3>1. state'.attempted = view[w].attempted /\ target' = target
      BY <1>1, <2>3 DEF MarkWrite, FailWrite, StateFile, scheduler
    <3>2. PICK label \in {"refresh", "report"} : Goto(w, label) /\ pc[w] \in {"marking", "failing"}
      BY <2>3 DEF MarkWrite, FailWrite
    <3> QED
      BY <1>1, <1>d, <3>1, <3>2 DEF Locked
  <2> QED
    BY <1>1, <1>5, <1>6, <2>1, <2>2, <2>3 DEF WorkerStep
<1>7. ASSUME NEW t \in Threads, StateWriteFails(t)  PROVE AttemptInv'
  <2>1. /\ UNCHANGED <<records, state, target>> /\ Goto(t, AfterWriteError(t))
        /\ AfterWriteError(t) \notin Locked
    BY <1>7 DEF StateWriteFails, AfterWriteError, AfterError, files, Locked
  <2>2. \A u \in Threads : u # t => view'[u] = view[u] /\ work'[u] = work[u]
    BY <1>1, <1>7 DEF StateWriteFails, Leave, EndWork
  <2> QED
    BY <1>b, <2>1, <2>2
<1>8. ASSUME NEW p \in Processes, Kill(p)  PROVE AttemptInv'
  <2>1. /\ UNCHANGED <<records, state>>
        /\ \A r \in Runs : target'[r] = target[r]
        /\ \A t \in Threads : pc'[t] = IF Process(t) = p THEN AfterKill(t) ELSE pc[t]
        /\ \A t \in Threads : Process(t) # p => view'[t] = view[t] /\ work'[t] = work[t]
    BY <1>1, <1>8 DEF Kill, files
  <2>2. \A t \in Threads : AfterKill(t) \notin Locked
    BY DEF AfterKill, Locked
  <2> QED
    BY <1>a, <2>1, <2>2
<1>10. ASSUME NEW t \in Threads, ReadRaises(t)  PROVE AttemptInv'
  <2>1. /\ UNCHANGED <<records, state, view, target>> /\ Goto(t, AfterReadError(t))
        /\ AfterReadError(t) \notin Locked
    BY <1>10 DEF ReadRaises, AfterReadError, AfterError, files, Locked
  <2>2. \A u \in Threads : u # t => work'[u] = work[u]
    BY <1>1, <1>10 DEF ReadRaises, EndWork
  <2> QED
    BY <1>b, <2>1, <2>2
<1>9. CASE UNCHANGED vars
  BY <1>a, <1>9 DEF vars, files
<1> QED
  BY <1>0, <1>1, <1>4, <1>5, <1>6, <1>7, <1>8, <1>9, <1>10 DEF Next, Fault

\* Without that fault, no append stops before its newline.
LEMMA NoneUnendedStep ==
  ASSUME "newline" \notin Faults, LogInv, NoneUnended, [Next]_vars  PROVE NoneUnended'
<1> SUFFICES ASSUME NEW r \in Runs, pc'[r] = "unended"  PROVE FALSE
  BY DEF NoneUnended
<1>0. TypeInv /\ RunsInv /\ pc[r] # "unended" /\ pc \in [Threads -> Labels] /\ r \in Threads
  BY DEF LogInv, TypeInv, TypeOK, NoneUnended, Threads
<1>1. RememberTorn(r) \/ ReadRaises(r) \/ StateWriteFails(r)
  <2>1. pc[r] \notin Unsaved
    BY <1>0, RunProgress DEF Unsaved
  <2> QED
    BY <1>0, <2>1, RunProgress DEF Unsaved, RememberUnended
<1>2. pc'[r] \in {"unsaved", AfterReadError(r), AfterWriteError(r)}
  BY <1>0, <1>1 DEF RememberTorn, ReadRaises, StateWriteFails, Goto
<1> QED
  BY <1>2 DEF AfterReadError, AfterWriteError, AfterError

(***************************************************************************)
(* As long as no UpdateMemory writes the same control file, and no append  *)
(* stops exactly before its newline, no two runs of the daemon reserve the *)
(* same sequence, whatever else fails and however often the daemon is      *)
(* killed.                                                                 *)
(***************************************************************************)
THEOREM SequencesAreReservedOnce ==
  ASSUME Updaters = {}, "newline" \notin Faults  PROVE Spec => []OneAttemptPerSequence
<1>1. BookingInv /\ AttemptInv /\ NoneUnended /\ [Next]_vars => AttemptInv' /\ NoneUnended'
  BY AttemptStep, NoneUnendedStep DEF BookingInv
<1>2. AttemptInv => OneAttemptPerSequence
  BY DEF AttemptInv
<1>3. Init => NoneUnended
  BY DEF Init, NoneUnended, Threads
<1> QED
  BY <1>1, <1>2, <1>3, BookingInit, BookingStep, AttemptInit, CoreStep, PTL DEF Spec

-------------------------------------------------------------------------------
(* One process only: the coverage never goes back.                         *)

\* Where a thread holds the summary lock of its process.
Busy == {"summarizing", "commit", "committing", "updating"}
\* Behind the first write of a commit, and before the second.
Committing == {"committing", "updating"}

(***************************************************************************)
(* A refresh starts from what the control file says is covered, and stays  *)
(* the only one; the summary file says the same but while a commit is      *)
(* between its two writes, and then it says what the second will write.    *)
(***************************************************************************)
CoverInv ==
  /\ \A t \in Threads : pc[t] \in Busy => summaryLock[Process(t)] = t
  /\ state.covered <= Len(records)
  /\ \A t \in Threads : pc[t] \in Locked \ Committing => view[t].covered = state.covered
  /\ \A t \in Threads : pc[t] \in Busy => work[t].covered = state.covered
  /\ \A t \in Threads : pc[t] \in Committing => summary.covered = NextCovered(t)
  /\ (\A t \in Threads : pc[t] \notin Committing) => summary.covered = state.covered

\* CoverInv holds at first.
LEMMA CoverInit == Init => CoverInv
BY DEF Init, CoverInv, Busy, Committing, Locked, Threads, DefaultState, NoSummary

(***************************************************************************)
(* While the log only grows, every refresh and the summary are true, and   *)
(* the summary's digest is that of records which are there.                *)
(***************************************************************************)
DigestTrue ==
  /\ summary.covered <= Len(records)
  /\ summary.digest = SubSeq(records, 1, summary.covered)

AllTrue == SummaryTrue /\ DigestTrue /\ \A t \in Threads : WorkTrue(t)

\* AllTrue holds at first.
LEMMA AllTrueInit == Init => AllTrue
<1> SUFFICES ASSUME Init PROVE DigestTrue
  BY SummaryInit DEF AllTrue
<1>1. SubSeq(records, 1, 0) = << >> /\ Len(records) = 0
  BY DEF Init
<1> QED
  BY <1>1 DEF Init, DigestTrue, NoSummary

\* Every step keeps AllTrue as long as the log grows.
LEMMA AllTrueStep ==
  ASSUME TypeInv, AllTrue, [Next]_vars, Grows(records, records')
  PROVE  AllTrue'
<1>0. /\ TypeInv' /\ records \in Seq(Runs) /\ Len(records) \in Nat
      /\ Len(records') \in Nat /\ Len(records) <= Len(records')
      /\ summary.covered \in Nat
  BY TypeStep DEF TypeInv, TypeOK, Summaries, Grows
<1>1. SummaryTrue' /\ \A t \in Threads : WorkTrue(t)'
  BY SummaryTrueStep, WorkStep DEF AllTrue
<1>2. CASE summary' = summary
  <2>1. summary.covered \in 0..Len(records)
    BY <1>0 DEF AllTrue, DigestTrue
  <2>2. SubSeq(records', 1, summary.covered) = SubSeq(records, 1, summary.covered)
    BY <2>1 DEF Grows
  <2>3. summary.digest = SubSeq(records, 1, summary.covered)
    BY DEF AllTrue, DigestTrue
  <2>4. DigestTrue'
    BY <1>0, <1>2, <2>1, <2>2, <2>3 DEF DigestTrue
  <2> QED
    BY <1>1, <2>4 DEF AllTrue
<1>3. ASSUME NEW t \in Threads, CommitSummary(t), summary' # summary  PROVE DigestTrue'
  <2>1. /\ records' = records /\ Len(records) >= NextCovered(t)
        /\ summary' = [covered |-> NextCovered(t),
                       digest |-> SubSeq(records, 1, NextCovered(t)),
                       text |-> work[t].text]
    BY <1>3 DEF CommitSummary
  <2>2. NextCovered(t) \in Nat
    BY NextCoveredBounds
  <2> QED
    BY <1>0, <2>1, <2>2 DEF DigestTrue
<1>4. summary' = summary \/ \E t \in Threads : CommitSummary(t)
  BY SummaryWrites
<1> QED
  BY <1>1, <1>2, <1>3, <1>4 DEF AllTrue

\* Every step keeps CoverInv and never lowers the covered sequence, without kills,
\* refused writes and UpdateMemory.
LEMMA CoverStep ==
  ASSUME Updaters = {}, "crash" \notin Faults, "state_write" \notin Faults,
         LogInv, LockInv, AllTrue, CoverInv, [Next]_vars, NoneUnended'
  PROVE  CoverInv' /\ state'.covered >= state.covered
<1>0. /\ TypeInv /\ TypeOK /\ SummaryTrue /\ DigestTrue /\ Grows(records, records')
      /\ Continued = records /\ \A r \in Runs : ~RememberUnended(r)
      /\ \A t, u \in Threads : pc[t] \in Locked /\ pc[u] \in Locked => t = u
      /\ \A t, u \in Threads : Free(t) => pc[u] \notin Locked
      /\ \A t \in Threads : WorkTrue(t)
      /\ TypeInv'
  BY OneProcess, NoneUnendedBefore, TypeStep DEF LogInv, AllTrue, TypeInv
<1>1. /\ pc \in [Threads -> Labels] /\ view \in [Threads -> StateFile]
      /\ work \in [Threads -> Works] /\ state \in StateFile /\ summary \in Summaries
      /\ summaryLock \in [Processes -> Threads \cup {NoThread}] /\ records \in Seq(Runs)
      /\ state.covered \in Nat /\ Len(records) \in Nat /\ Len(records') \in Nat
      /\ Len(records) <= Len(records')
  <2>1. records \in Seq(Runs) /\ records' \in Seq(Runs)
    BY <1>0 DEF TypeInv, TypeOK
  <2>2. Len(records) \in Nat /\ Len(records') \in Nat /\ Len(records) <= Len(records')
    BY <1>0, <2>1, LenProperties DEF Grows
  <2>3. state \in StateFile /\ state.covered \in Nat
    BY <1>0 DEF TypeInv, TypeOK, StateFile
  <2> QED
    BY <1>0, <2>2, <2>3 DEF TypeInv, TypeOK
<1>p. /\ \A t \in Threads : Process(t) = Daemon /\ t # NoThread
      /\ Daemon \in Processes
      /\ Runs \subseteq Threads /\ Workers \subseteq Threads /\ Updaters \subseteq Threads
  BY SessionMemoryAssumption DEF Threads, Process, Processes
<1>2. /\ \A t \in Threads : pc[t] \in Busy => summaryLock[Daemon] = t
      /\ state.covered <= Len(records)
      /\ \A t \in Threads : pc[t] \in Locked \ Committing => view[t].covered = state.covered
      /\ \A t \in Threads : pc[t] \in Busy => work[t].covered = state.covered
      /\ \A t \in Threads : pc[t] \in Committing => summary.covered = NextCovered(t)
      /\ (\A t \in Threads : pc[t] \notin Committing) => summary.covered = state.covered
  BY <1>1, <1>p DEF CoverInv
<1>3. ReadState(Len(records)).covered = state.covered
  BY <1>0, <1>1, <1>p, <1>2, ReadStateNumbers DEF Smaller
<1>4. \A t \in Threads : /\ NextCovered(t) \in Nat /\ work[t].covered <= NextCovered(t)
                         /\ NextCovered(t) <= Len(records)
  <2> SUFFICES ASSUME NEW t \in Threads
               PROVE  /\ NextCovered(t) \in Nat /\ work[t].covered <= NextCovered(t)
                      /\ NextCovered(t) <= Len(records)
    OBVIOUS
  <2>1. NextCovered(t) \in Nat /\ work[t].covered <= NextCovered(t) /\ NextCovered(t) <= Len(work[t].source)
    BY <1>0, NextCoveredBounds
  <2>2. Len(work[t].source) <= Len(records) /\ Len(work[t].source) \in Nat
    BY <1>0, <1>1, <1>p DEF WorkTrue, Works
  <2> QED
    BY <1>1, <1>p, <2>1, <2>2
\* A step that leaves the files and every thread in a refresh alone.
<1>a. ASSUME state' = state, summary' = summary, summaryLock' = summaryLock,
             \A u \in Threads : pc'[u] \in Locked \cup Busy \/ pc[u] \in Locked \cup Busy =>
               pc'[u] = pc[u] /\ view'[u] = view[u] /\ work'[u] = work[u]
      PROVE  CoverInv' /\ state'.covered >= state.covered
  <2>1. \A u \in Threads : pc'[u] \in Busy => NextCovered(u)' = NextCovered(u)
    BY <1>a DEF NextCovered
  <2>2. Committing \subseteq Busy /\ Committing \subseteq Locked
    BY DEF Committing, Busy, Locked
  <2>3. \A u \in Threads : pc'[u] \in Committing <=> pc[u] \in Committing
    BY <1>a, <2>2
  <2> QED
    BY <1>1, <1>p, <1>2, <1>a, <2>1, <2>2, <2>3 DEF CoverInv
\* The same for a step of t.
<1>b. ASSUME NEW t \in Threads, NEW label, Goto(t, label), pc[t] \notin Locked \cup Busy,
             label \notin Locked \cup Busy, state' = state, summary' = summary, summaryLock' = summaryLock,
             \A u \in Threads : u # t => view'[u] = view[u] /\ work'[u] = work[u]
      PROVE  CoverInv' /\ state'.covered >= state.covered
  BY <1>1, <1>p, <1>a, <1>b DEF Goto
\* t takes the lock and reads the control file.
<1>c. ASSUME NEW t \in Threads, NEW label \in Locked \ Committing, Goto(t, label), Free(t),
             Enter(t, ReadState(Len(records))), pc[t] \notin Busy,
             state' = state, summary' = summary, summaryLock' = summaryLock, work' = work
      PROVE  CoverInv' /\ state'.covered >= state.covered
  <2>1. \A u \in Threads : pc[u] \notin Locked /\ (pc'[u] \in Locked => u = t) /\ pc'[u] \notin Committing
    BY <1>0, <1>1, <1>p, <1>c DEF Goto, Committing, Locked
  <2>2. view'[t].covered = state.covered
    BY <1>1, <1>p, <1>3, <1>c DEF Enter
  <2>3. \A u \in Threads : pc'[u] \in Busy => pc[u] \in Busy
    BY <1>1, <1>p, <1>c DEF Goto, Busy, Locked, Committing
  <2>4. summary.covered = state.covered
    BY <1>2, <2>1 DEF Committing, Locked
  <2> QED
    BY <1>1, <1>p, <1>2, <1>c, <2>1, <2>2, <2>3, <2>4 DEF CoverInv
\* t gives it back, after it wrote what it had read.
<1>d. ASSUME NEW t \in Threads, NEW label, Goto(t, label), pc[t] \in Locked \ Committing,
             label \notin Locked \cup Busy, state'.covered = view[t].covered,
             summary' = summary, summaryLock' = summaryLock, work' = work
      PROVE  CoverInv' /\ state'.covered >= state.covered
  <2>1. \A u \in Threads : pc'[u] \notin Locked /\ pc[u] \notin Committing
    BY <1>0, <1>1, <1>p, <1>d DEF Goto, Committing, Locked
  <2>2. \A u \in Threads : pc'[u] \notin Committing
    BY <2>1 DEF Committing, Locked
  <2>3. state'.covered = state.covered /\ summary.covered = state.covered
    BY <1>2, <1>d, <2>1
  <2>4. \A u \in Threads : pc'[u] \in Busy => pc[u] \in Busy
    BY <1>1, <1>p, <1>d DEF Goto
  <2> QED
    BY <1>1, <1>p, <1>2, <1>d, <2>1, <2>2, <2>3, <2>4 DEF CoverInv
\* t is the only thread in a refresh, and ends it.
<1>e. ASSUME NEW t \in Threads, pc[t] \in Busy \ Committing, state' = state, summary' = summary,
             EndWork(t), Goto(t, AfterError(t)), view' = view
      PROVE  CoverInv' /\ state'.covered >= state.covered
  <2>0. AfterError(t) \notin Locked \cup Busy
    BY DEF AfterError, Locked, Busy
  <2>1. \A u \in Threads : pc'[u] \notin Busy /\ pc[u] \notin Committing
    BY <1>1, <1>p, <1>2, <1>e, <2>0 DEF Goto, Committing, Busy
  <2>2. \A u \in Threads : pc'[u] \notin Committing /\ (pc'[u] \in Locked => pc'[u] = pc[u])
    BY <1>1, <1>p, <1>e, <2>0, <2>1 DEF Goto, Committing, Busy
  <2> QED
    BY <1>1, <1>p, <1>2, <1>e, <2>1, <2>2 DEF CoverInv
<1>5. ASSUME NEW r \in Runs, RunStep(r) \/ RememberTorn(r)
      PROVE  CoverInv' /\ state'.covered >= state.covered
  <2>1. CASE RememberAppend(r)
    <3>1. pc[r] \notin Busy
      BY <2>1 DEF RememberAppend, Busy
    <3> QED
      BY <1>1, <1>p, <1>c, <2>1, <3>1 DEF RememberAppend, Opens, scheduler, Locked, Committing
  <2>2. CASE RememberWrite(r) \/ ReserveWrite(r)
    <3>1. PICK label \in {"saved", "reserved"} : Goto(r, label) /\ pc[r] \in {"appended", "reserving"}
      BY <2>2 DEF RememberWrite, ReserveWrite
    <3>2. state'.covered = view[r].covered
      BY <1>1, <1>p, <2>2 DEF RememberWrite, ReserveWrite, StateFile
    <3>3. UNCHANGED <<summary, summaryLock, work>>
      BY <2>2 DEF RememberWrite, ReserveWrite
    <3> QED
      BY <1>1, <1>p, <1>d, <3>1, <3>2, <3>3 DEF Locked, Busy, Committing
  <2>3. CASE ReserveRead(r)
    <3>1. pc[r] \notin Busy
      BY <2>3 DEF ReserveRead, Busy
    <3> QED
      BY <1>1, <1>p, <1>c, <2>3, <3>1 DEF ReserveRead, Opens, files, Locked, Committing
  <2>4. CASE ReserveSuppressed(r) \/ RememberTorn(r)
    <3>1. PICK label \in {"done", "unsaved"} : Goto(r, label) /\ pc[r] \in {"saved", "executing"}
      BY <2>4 DEF ReserveSuppressed, RememberTorn
    <3>2. UNCHANGED <<state, summary, summaryLock, view, work>>
      BY <2>4 DEF ReserveSuppressed, RememberTorn, files, locks
    <3> QED
      BY <1>1, <1>p, <1>b, <3>1, <3>2 DEF Locked, Busy
  <2>5. CASE Enqueue(r)
    <3>1. \A u \in Threads : pc'[u] = pc[u] \/ (pc'[u] \in {"done", "pop"} /\ pc[u] \in {"reserved", "idle"})
      BY <1>1, <1>p, <2>5 DEF Enqueue, Goto
    <3>2. UNCHANGED <<state, summary, summaryLock, view, work>>
      BY <2>5 DEF Enqueue, files, locks
    <3> QED
      BY <1>a, <3>1, <3>2 DEF Locked, Busy
  <2> QED
    BY <1>5, <2>1, <2>2, <2>3, <2>4, <2>5 DEF RunStep
<1>6. ASSUME NEW t \in Threads, RefreshStep(t)  PROVE CoverInv' /\ state'.covered >= state.covered
  <2>0. AfterRefresh(t) \notin Locked \cup Busy /\ AfterError(t) \notin Locked \cup Busy
    BY DEF AfterRefresh, AfterError, Locked, Busy
  <2>1. CASE NothingToRefresh(t)
    <3>1. pc[t] \notin Locked \cup Busy
      BY <2>1 DEF NothingToRefresh, Locked, Busy
    <3> QED
      BY <1>b, <2>0, <2>1, <3>1 DEF NothingToRefresh, files, locks
  <2>2. CASE BeginRefresh(t)
    <3>1. /\ pc[t] = "refresh" /\ pc' = [pc EXCEPT ![t] = "summarizing"]
          /\ summaryLock[Daemon] = NoThread /\ summaryLock' = [summaryLock EXCEPT ![Daemon] = t]
          /\ UNCHANGED <<state, summary, records, view>>
      BY <1>1, <1>p, <2>2 DEF BeginRefresh, Goto, files
    <3>2. \A u \in Threads : pc[u] \notin Busy /\ pc[u] \notin Committing
      BY <1>1, <1>p, <1>2, <3>1 DEF Committing, Busy
    <3>3. summary.covered = state.covered
      BY <1>2, <3>2
    <3>4. CoveredNow = state.covered
      <4>1. CASE state.covered = 0
        BY <3>3, <4>1 DEF CoveredNow
      <4>2. CASE state.covered > 0
        <5>1. summary.text = SubSeq(records, 1, summary.covered)
              /\ summary.digest = SubSeq(records, 1, summary.covered)
          BY <1>0 DEF SummaryTrue, DigestTrue
        <5>2. Len(SubSeq(records, 1, state.covered)) = state.covered
          BY <1>1, <1>p, <1>2, <4>2, SubSeqProperties
        <5>3. summary.text # << >>
          <6>1. Len(summary.text) > 0
            BY <3>3, <4>2, <5>1, <5>2
          <6>2. Len(<< >>) = 0
            OBVIOUS
          <6> QED
            BY <6>1, <6>2
        <5>4. SummaryIsValid
          BY <1>1, <1>p, <1>3, <3>3, <4>2, <5>1, <5>3 DEF SummaryIsValid
        <5> QED
          BY <3>3, <5>4 DEF CoveredNow
      <4> QED
        BY <1>1, <1>p, <4>1, <4>2
    <3>5. work'[t].covered = state.covered
      BY <1>1, <1>p, <2>2, <3>4 DEF BeginRefresh
    <3>6. \A u \in Threads : /\ pc'[u] \in Busy => u = t
                             /\ pc'[u] \notin Committing
                             /\ pc'[u] \in Locked => pc'[u] = pc[u]
      BY <1>1, <1>p, <3>1, <3>2 DEF Committing, Locked
    <3> QED
      BY <1>1, <1>p, <1>2, <3>1, <3>3, <3>5, <3>6 DEF CoverInv
  <2>3. CASE Summarize(t)
    <3>1. /\ pc[t] = "summarizing" /\ pc' = [pc EXCEPT ![t] = "commit"]
          /\ UNCHANGED <<state, summary, records, view, summaryLock>>
      BY <2>3 DEF Summarize, Goto, files, locks
    <3>2. \A u \in Threads : work'[u].covered = work[u].covered
      BY <1>1, <1>p, <2>3 DEF Summarize, Works
    <3>3. \A u \in Threads : pc[u] \notin Committing /\ pc'[u] \notin Committing
      BY <1>1, <1>p, <1>2, <3>1 DEF Committing, Busy
    <3>4. \A u \in Threads : /\ pc'[u] \in Busy => pc[u] \in Busy
                             /\ pc'[u] \in Locked => pc'[u] = pc[u]
      BY <1>1, <1>p, <3>1 DEF Busy, Locked
    <3> QED
      BY <1>1, <1>p, <1>2, <3>1, <3>2, <3>3, <3>4 DEF CoverInv
  <2>4. CASE SummarizeFails(t)
    BY <1>e, <2>4 DEF SummarizeFails, files, Busy, Committing
  <2>5. CASE CommitSummary(t)
    <3>1. pc[t] = "commit" /\ UNCHANGED <<records, state, view>>
      BY <2>5 DEF CommitSummary
    <3>2. CASE EndWork(t) /\ Goto(t, AfterError(t)) /\ summary' = summary
      BY <1>e, <3>1, <3>2 DEF Busy, Committing
    <3>3. CASE /\ summary'.covered = NextCovered(t) /\ Free(t) /\ Goto(t, "committing")
               /\ work' = [work EXCEPT ![t].seen = Len(records)] /\ summaryLock' = summaryLock
      <4>1. \A u \in Threads : /\ work'[u].covered = work[u].covered
                               /\ NextCovered(u)' = NextCovered(u)
        BY <1>1, <1>p, <3>3 DEF Works, NextCovered
      <4>2. \A u \in Threads : pc'[u] \in Locked => u = t /\ pc'[u] = "committing"
        BY <1>0, <1>1, <1>p, <3>3 DEF Goto
      <4>3. \A u \in Threads : /\ pc'[u] \in Busy => pc[u] \in Busy
                               /\ pc'[u] \in Committing => u = t
        BY <1>1, <1>p, <3>1, <3>3, <4>2 DEF Goto, Busy, Committing, Locked
      <4>4. pc'[t] \in Committing
        BY <1>1, <1>p, <3>3 DEF Goto, Committing
      <4>5. \A u \in Threads : pc'[u] \notin Locked \ Committing
        BY <4>2 DEF Committing
      <4> QED
        BY <1>1, <1>p, <1>2, <3>1, <3>3, <4>1, <4>3, <4>4, <4>5 DEF CoverInv
    <3>4. [covered |-> NextCovered(t), digest |-> SubSeq(records, 1, NextCovered(t)),
           text |-> work[t].text].covered = NextCovered(t)
      OBVIOUS
    <3> QED
      BY <2>5, <3>2, <3>3, <3>4 DEF CommitSummary, Opens
  <2>6. CASE CommitRead(t)
    <3>1. /\ pc[t] = "committing" /\ pc' = [pc EXCEPT ![t] = "updating"]
          /\ UNCHANGED <<records, state, summary, summaryLock, work>>
      BY <2>6 DEF CommitRead, Goto, files, locks
    <3>2. \A u \in Threads : pc'[u] \in Locked => u = t /\ pc'[u] = "updating"
      BY <1>0, <1>1, <1>p, <3>1 DEF Locked
    <3>3. \A u \in Threads : /\ pc'[u] \in Busy => pc[u] \in Busy
                             /\ pc'[u] \in Committing <=> pc[u] \in Committing
                             /\ NextCovered(u)' = NextCovered(u)
      BY <1>1, <1>p, <3>1 DEF Busy, Committing, NextCovered
    <3>4. \A u \in Threads : pc'[u] \notin Locked \ Committing
      BY <3>2 DEF Committing
    <3> QED
      BY <1>1, <1>p, <1>2, <3>1, <3>3, <3>4 DEF CoverInv
  <2>7. CASE CommitWrite(t)
    <3>1. /\ pc[t] = "updating" /\ UNCHANGED <<records, summary>>
          /\ state' = [view[t] EXCEPT
               !.covered = NextCovered(t),
               !.failed = 0,
               !.status = IF NextCovered(t) >= work[t].seen THEN "idle" ELSE "dirty"]
      BY <2>7 DEF CommitWrite
    <3>2. state'.covered = NextCovered(t) /\ summary.covered = NextCovered(t)
          /\ NextCovered(t) >= state.covered /\ NextCovered(t) <= Len(records)
      BY <1>1, <1>p, <1>2, <1>4, <3>1 DEF StateFile, Busy, Committing
    <3>3. \A u \in Threads : (pc[u] \in Busy \/ pc[u] \in Locked) => u = t
      BY <1>0, <1>1, <1>p, <1>2, <3>1 DEF Busy, Locked
    <3>4. CASE /\ work' = [work EXCEPT ![t].covered = NextCovered(t)]
               /\ Goto(t, "summarizing") /\ summaryLock' = summaryLock
      <4>1. \A u \in Threads : /\ pc'[u] \in Busy => u = t
                               /\ pc'[u] \notin Locked /\ pc'[u] \notin Committing
        BY <1>1, <1>p, <3>3, <3>4 DEF Goto, Committing, Locked
      <4>2. work'[t].covered = NextCovered(t)
        BY <1>1, <1>p, <3>4 DEF Works
      <4>3. summaryLock[Daemon] = t
        BY <1>2, <3>1 DEF Busy
      <4> QED
        BY <1>1, <1>p, <3>1, <3>2, <3>4, <4>1, <4>2, <4>3 DEF CoverInv
    <3>5. CASE EndWork(t) /\ Goto(t, AfterRefresh(t))
      <4>1. \A u \in Threads : pc'[u] \notin Busy /\ pc'[u] \notin Locked /\ pc'[u] \notin Committing
        BY <1>1, <1>p, <2>0, <3>3, <3>5 DEF Goto, Committing, Locked
      <4> QED
        BY <1>1, <1>p, <3>1, <3>2, <4>1 DEF CoverInv
    <3> QED
      BY <2>7, <3>4, <3>5 DEF CommitWrite
  <2> QED
    BY <1>6, <2>1, <2>2, <2>3, <2>4, <2>5, <2>6, <2>7 DEF RefreshStep
<1>7. ASSUME NEW w \in Workers, WorkerStep(w) \/ ReportRaises(w)
      PROVE  CoverInv' /\ state'.covered >= state.covered
  <2>1. CASE Pop(w) \/ Settle(w) \/ AfterFailure(w) \/ ReportRaises(w)
    <3>1. PICK label \in {"mark", "idle", "pop", "dead"} :
            Goto(w, label) /\ pc[w] \in {"pop", "settle", "report"}
      BY <2>1 DEF Pop, Settle, AfterFailure, ReportRaises, Retire
    <3>2. UNCHANGED <<state, summary, summaryLock, view, work>>
      BY <2>1 DEF Pop, Settle, AfterFailure, ReportRaises, files, locks
    <3> QED
      BY <1>1, <1>p, <1>b, <3>1, <3>2 DEF Locked, Busy
  <2>2. CASE MarkRead(w) \/ FailRead(w)
    <3>1. pc[w] \in {"mark", "fail"} /\ UNCHANGED <<state, summary, summaryLock, work>>
      BY <2>2 DEF MarkRead, FailRead, files
    <3>2. CASE Goto(w, "refresh") /\ view' = view
      BY <1>1, <1>p, <1>b, <3>1, <3>2 DEF Locked, Busy
    <3>3. CASE \E label \in {"marking", "failing"} :
                 Goto(w, label) /\ Free(w) /\ Enter(w, ReadState(Len(records)))
      BY <1>1, <1>p, <1>c, <3>1, <3>3 DEF Locked, Busy, Committing
    <3> QED
      BY <2>2, <3>2, <3>3 DEF MarkRead, FailRead, Opens
  <2>3. CASE MarkWrite(w) \/ FailWrite(w)
    <3>1. state'.covered = view[w].covered /\ UNCHANGED <<summary, summaryLock, work>>
      BY <1>1, <1>p, <2>3 DEF MarkWrite, FailWrite, StateFile
    <3>2. PICK label \in {"refresh", "report"} : Goto(w, label) /\ pc[w] \in {"marking", "failing"}
      BY <2>3 DEF MarkWrite, FailWrite
    <3> QED
      BY <1>1, <1>p, <1>d, <3>1, <3>2 DEF Locked, Busy, Committing
  <2> QED
    BY <1>1, <1>p, <1>6, <1>7, <2>1, <2>2, <2>3 DEF WorkerStep
<1>8. ASSUME NEW t \in Threads, StateWriteFails(t)  PROVE FALSE
  BY <1>8 DEF StateWriteFails
<1>9. ASSUME NEW p \in Processes, Kill(p)  PROVE FALSE
  BY <1>9 DEF Kill
<1>11. ASSUME NEW t \in Threads, ReadRaises(t)  PROVE CoverInv' /\ state'.covered >= state.covered
  <2>1. /\ UNCHANGED <<state, summary, view>> /\ Goto(t, AfterReadError(t))
        /\ pc[t] \in {"executing", "saved", "mark", "refresh", "commit", "fail"}
    BY <1>11 DEF ReadRaises, files
  <2>2. CASE pc[t] = "commit"
    <3>1. EndWork(t) /\ AfterReadError(t) = AfterError(t)
      BY <1>11, <2>2 DEF ReadRaises, AfterReadError
    <3> QED
      BY <1>e, <2>1, <2>2, <3>1 DEF Busy, Committing
  <2>3. CASE pc[t] # "commit"
    <3>1. UNCHANGED <<summaryLock, work>>
      BY <1>11, <2>3 DEF ReadRaises
    <3>2. AfterReadError(t) \notin Locked \cup Busy
      BY DEF AfterReadError, AfterError, Locked, Busy
    <3>3. pc[t] \notin Locked \cup Busy
      BY <2>1, <2>3 DEF Locked, Busy
    <3> QED
      BY <1>b, <2>1, <3>1, <3>2, <3>3
  <2> QED
    BY <2>2, <2>3
<1>10. CASE UNCHANGED vars
  BY <1>a, <1>10 DEF vars, files, locks
<1> QED
  BY <1>0, <1>1, <1>p, <1>5, <1>6, <1>7, <1>8, <1>9, <1>10, <1>11 DEF Next, Fault

(***************************************************************************)
(* With one process, that is not killed, whose control file can be written *)
(* and whose appends never stop exactly before the newline, what the       *)
(* control file says is covered never goes back: a refresh that fails      *)
(* leaves it, and one that is overtaken does not exist.  (After a kill or  *)
(* a failed write between the two files of a commit they disagree, and the *)
(* next refresh starts again from the first record.)                       *)
(***************************************************************************)
THEOREM CoverageAdvances ==
  ASSUME Updaters = {}, "crash" \notin Faults, "state_write" \notin Faults,
         "newline" \notin Faults
  PROVE  Spec => CoverageMonotone
<1>1. LogInv /\ LockInv /\ AllTrue /\ CoverInv /\ NoneUnended /\ [Next]_vars =>
        /\ LogInv' /\ LockInv' /\ AllTrue' /\ CoverInv' /\ NoneUnended'
        /\ [state'.covered >= state.covered]_state
  <2> SUFFICES ASSUME LogInv, LockInv, AllTrue, CoverInv, NoneUnended, [Next]_vars
               PROVE  /\ LogInv' /\ LockInv' /\ AllTrue' /\ CoverInv' /\ NoneUnended'
                      /\ state'.covered >= state.covered
    OBVIOUS
  <2>1. NoneUnended' /\ TypeInv
    BY NoneUnendedStep DEF LogInv
  <2>2. Grows(records, records')
    BY <2>1, NoneUnendedBefore
  <2> QED
    BY <2>1, <2>2, LogStep, LockStep, AllTrueStep, CoverStep
<1>2. Init => NoneUnended
  BY DEF Init, NoneUnended, Threads
<1> QED
  BY <1>1, <1>2, LogInit, LockInit, AllTrueInit, CoverInit, CoreStep, PTL DEF Spec, CoverageMonotone

-------------------------------------------------------------------------------
(* A session id that is deleted and used again (MemoryReuse).              *)

(***************************************************************************)
(* The directory goes: everything that is not noted is true of the new,    *)
(* empty session.                                                          *)
(***************************************************************************)
LEMMA DeletionStep == ASSUME SummaryInv, DeleteSession  PROVE SummaryInv'
<1>0. TypeInv /\ TypeOK
  BY DEF SummaryInv, TypeInv
<1>1. /\ records' = << >> /\ tail' = "clean" /\ state' = DefaultState /\ summary' = NoSummary
      /\ straddling' = {t \in Threads : work[t] # NoWork}
      /\ UNCHANGED <<lock, summaryLock, targets, running, pc, view, target, work, crashes>>
  BY DEF DeleteSession, locks, scheduler
<1>2. TypeInv'
  <2>1. records' \in Seq(Runs) /\ tail' \in Tails
    <3>1. << >> \in Seq(Runs)
      OBVIOUS
    <3> QED
      BY <1>1, <3>1 DEF Tails
  <2>2. state' \in StateFile /\ summary' \in Summaries
    BY <1>1, ConstantTypes
  <2>3. TypeOK'
    BY <1>0, <1>1, <2>1, <2>2 DEF TypeOK, StateFile, Summaries
  <2> QED
    BY <1>0, <1>1, <2>3 DEF TypeInv, WorkBounded
<1>3. SummaryTrue'
  BY <1>1 DEF SummaryTrue, NoSummary
<1>4. ASSUME NEW t \in Threads \ straddling'  PROVE WorkTrue(t)'
  <2>1. work'[t] = NoWork
    BY <1>1, <1>4
  <2> QED
    BY <1>2, <2>1, WorkTrueEnded
<1> QED
  BY <1>2, <1>3, <1>4 DEF SummaryInv

(***************************************************************************)
(* Locks, threads, targets and late writes that outlive a deleted session  *)
(* cannot put its records into the summary of the one that got its id:     *)
(* only a refresh that had read the old log, and that commits afterwards,  *)
(* can.  The invariant is that of SummaryFaithfulness: until such a commit *)
(* the summary file is true of the present session, and so is every        *)
(* refresh that did not begin before the deletion.                         *)
(***************************************************************************)
THEOREM OwnRecords == ReuseSpec => []OwnRecordsOnly
<1>1. SummaryInv /\ [ReuseNext]_reuseVars => SummaryInv'
  <2>1. SummaryInv /\ UNCHANGED reuseVars => SummaryInv'
    BY SummaryStutter DEF reuseVars
  <2>2. SummaryInv /\ Next /\ Noted => SummaryInv'
    BY SummaryNextStep
  <2> QED
    BY <2>1, <2>2, DeletionStep DEF ReuseNext
<1>2. ReuseInit => SummaryInv
  BY SummaryInit DEF ReuseInit, SummaryInv
<1>3. SummaryInv => OwnRecordsOnly
  BY TrueSummaryIsFaithful DEF SummaryInv, OwnRecordsOnly, SummaryFaithful
<1> QED
  BY <1>1, <1>2, <1>3, PTL DEF ReuseSpec
================================================================================
