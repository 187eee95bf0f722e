----------------------------- MODULE SessionMemory -----------------------------
(***************************************************************************)
(* One session's long-term memory (core/llm/Agent/memory.py): the raw log  *)
(* context_memory.jsonl, the control file memory_state.json, the rolling   *)
(* summary context_memory_summary.md, the agent runs of the daemon that    *)
(* append to the log and ask for a refresh, the scheduler's background     *)
(* threads that merge new records into the summary, and the CLI processes  *)
(* that run UpdateMemory on the same files.                                *)
(*                                                                         *)
(* A thread takes one step per file written, per lock section or per model *)
(* call.  The locks of memory.py belong to one OS process, so an updater's *)
(* steps fall anywhere between the daemon's.  A record is the run that     *)
(* wrote it; the digest of a prefix is that prefix; the text of a summary  *)
(* is the sequence of the records that were merged into it.                *)
(***************************************************************************)
EXTENDS RecordWindow, FiniteSets

CONSTANTS Runs,          \* agent runs of the daemon, one record each
          Workers,       \* threads the refresh scheduler may start
          Updaters,      \* CLI processes executing UpdateMemory once
          Daemon,        \* the daemon's process
          NoThread,      \* the value of a lock nobody holds
          Batch,         \* records merged per model call
          Faults,        \* what may go wrong: a subset of FaultKinds
          MaxCrashes     \* bound: how often a process may be killed

FaultKinds == {"llm", "state_write", "torn", "newline", "report", "crash"}

ASSUME SessionMemoryAssumption ==
  /\ Runs \cap Workers = {} /\ Runs \cap Updaters = {} /\ Workers \cap Updaters = {}
  /\ Daemon \notin Updaters
  /\ NoThread \notin Runs \cup Workers \cup Updaters
  /\ Batch \in Nat \ {0}
  /\ Faults \subseteq FaultKinds
  /\ MaxCrashes \in Nat

Threads == Runs \cup Workers \cup Updaters
Processes == Updaters \cup {Daemon}
Process(t) == IF t \in Updaters THEN t ELSE Daemon

VARIABLES
  records,      \* the readable lines of context_memory.jsonl, oldest first
  tail,         \* how its last line ends, see Tails
  state,        \* memory_state.json (a missing file reads as its defaults)
  summary,      \* context_memory_summary.md (likewise)
  lock,         \* per process: who holds the session's file lock
  summaryLock,  \* per process: who holds the session's summary lock
  targets,      \* scheduler: the merged target of the session, 0 when absent
  running,      \* scheduler: the session is in _running
  pc,           \* where each thread stands
  view,         \* the control file as a thread read it in its lock section
  target,       \* the sequence a run reserved, or a worker is refreshing to
  work,         \* a refresh in progress, see NoWork
  crashes,      \* how often a process was killed so far
  \* History, which no step depends on:
  glued,        \* runs whose line was appended to one that had not ended
  straddling,   \* threads in a refresh that read a record gone since
  spoiled       \* such a refresh wrote the summary

files == <<records, tail, state, summary>>
locks == <<lock, summaryLock>>
scheduler == <<targets, running>>
vars == <<files, locks, scheduler, pc, view, target, work, crashes>>
history == <<glued, straddling, spoiled>>

(***************************************************************************)
(* clean: with its newline.  unended: a whole record that lacks only that. *)
(* fragment: less, and no reader takes it for a record.  undecodable: it   *)
(* ends inside a character, and reading the log raises (only               *)
(* JSONDecodeError is caught).                                             *)
(***************************************************************************)
Tails == {"clean", "unended", "fragment", "undecodable"}

Statuses == {"idle", "dirty", "scheduled", "refreshing", "failed"}

\* failed = 0 stands for None: no reader tells the two apart.  No write leaves
\* these values behind, so they also say that there is no file.
\* Mutant: None written to the file as -1.
DefaultStateSentinel == [covered |-> 0, attempted |-> 0, failed |-> -1, status |-> "idle"]

DefaultState == [covered |-> 0, attempted |-> 0, failed |-> 0, status |-> "idle"]
NoSummary == [covered |-> 0, digest |-> << >>, text |-> << >>]

\* source: the records as snapshotted, of which the first covered are in text;
\* seen: how many records the commit found in the log.
NoWork == [source |-> << >>, covered |-> 0, goal |-> 0, text |-> << >>, seen |-> 0]

Smaller(a, b) == IF a < b THEN a ELSE b
Larger(a, b) == IF a > b THEN a ELSE b

-------------------------------------------------------------------------------
(* Reading the three files.                                                *)

(***************************************************************************)
(* memory_state.json as read beside a log of n records: no number in it    *)
(* may point past the end of the log, and a missing file means a dirty     *)
(* summary as soon as there are records.                                   *)
(***************************************************************************)
ReadState(n) ==
  [state EXCEPT !.covered = Smaller(@, n),
                !.attempted = Smaller(@, n),
                !.failed = Smaller(@, n),
                !.status = IF state = DefaultState /\ n > 0 THEN "dirty" ELSE @]

(***************************************************************************)
(* The summary may be shown: control file, summary header and the digest   *)
(* of the covered records agree.                                           *)
(***************************************************************************)
SummaryIsValid ==
  LET covered == ReadState(Len(records)).covered
  IN  /\ summary.text # << >>
      /\ covered > 0
      /\ summary.covered = covered
      /\ summary.digest = SubSeq(records, 1, covered)

\* Mutant: an invalid summary is dropped, but its records are still skipped.
VisibleWithGap ==
  (IF SummaryIsValid THEN {summary.text[i] : i \in 1..Len(summary.text)} ELSE {})
  \cup Newest(SubSeq(records, ReadState(Len(records)).covered + 1, Len(records)))

(***************************************************************************)
(* The records load_context() tells the next run about.                    *)
(***************************************************************************)
Visible ==
  IF SummaryIsValid
  THEN {summary.text[i] : i \in 1..Len(summary.text)}
       \cup Newest(SubSeq(records, summary.covered + 1, Len(records)))
  ELSE Newest(records)

-------------------------------------------------------------------------------
(* Threads and locks.                                                      *)

Goto(t, label) == pc' = [pc EXCEPT ![t] = label]
Free(t) == lock[Process(t)] = NoThread
\* A lock section that begins with reading the log.
Opens(t) == Free(t) /\ tail # "undecodable"
\* A lock section that writes the control file reads it first: st is kept in view.
Enter(t, st) == /\ lock' = [lock EXCEPT ![Process(t)] = t]
                /\ view' = [view EXCEPT ![t] = st]
Leave(t) == /\ lock' = [lock EXCEPT ![Process(t)] = NoThread]
            /\ view' = [view EXCEPT ![t] = DefaultState]
EndWork(t) == /\ summaryLock' = [summaryLock EXCEPT ![Process(t)] = NoThread]
              /\ work' = [work EXCEPT ![t] = NoWork]

\* Where a thread goes when its refresh returned, and when it raised.
AfterRefresh(t) == IF t \in Updaters THEN "done" ELSE "settle"
AfterError(t) == IF t \in Updaters THEN "done" ELSE "fail"

Init ==
  /\ records = << >>
  /\ tail = "clean"
  /\ state = DefaultState
  /\ summary = NoSummary
  /\ lock = [p \in Processes |-> NoThread]
  /\ summaryLock = [p \in Processes |-> NoThread]
  /\ targets = 0
  /\ running = FALSE
  /\ pc = [t \in Threads |-> IF t \in Runs THEN "executing"
                            ELSE IF t \in Workers THEN "idle" ELSE "refresh"]
  /\ view = [t \in Threads |-> DefaultState]
  /\ target = [t \in Threads |-> 0]
  /\ work = [t \in Threads |-> NoWork]
  /\ crashes = 0
  /\ glued = {} /\ straddling = {} /\ spoiled = FALSE

-------------------------------------------------------------------------------
(* A run remembers its answer and asks for a refresh.                      *)

\* Mutant: the log is opened for writing instead of appending.
RememberOverwrites(r) ==
  /\ pc[r] = "executing" /\ Opens(r)
  /\ records' = <<r>>
  /\ tail' = "clean"
  /\ Enter(r, ReadState(Len(records))) /\ Goto(r, "appended")
  /\ UNCHANGED <<state, summary, summaryLock, scheduler, target, work, crashes>>

(***************************************************************************)
(* The records that are left when the last line is continued: it had to be *)
(* ended to be one.                                                        *)
(***************************************************************************)
Continued ==
  IF tail = "unended" THEN SubSeq(records, 1, Len(records) - 1) ELSE records

(***************************************************************************)
(* remember(): read the control file, then append one line and sync it.    *)
(* Behind a line that has not ended the new one continues it, and neither  *)
(* is a record.                                                            *)
(***************************************************************************)
RememberAppend(r) ==
  /\ pc[r] = "executing" /\ Opens(r)
  /\ records' = IF tail = "clean" THEN Append(records, r) ELSE Continued
  /\ tail' = "clean"
  /\ Enter(r, ReadState(Len(records))) /\ Goto(r, "appended")
  /\ UNCHANGED <<state, summary, summaryLock, scheduler, target, work, crashes>>

(***************************************************************************)
(* The append stops part way (disk full, or the kill that follows): the    *)
(* call raises and the run's answer is reported as not persisted, whatever *)
(* has reached the file: nothing, a part of the line, or, in               *)
(* RememberUnended, all of it but the newline.                             *)
(***************************************************************************)
RememberTorn(r) ==
  /\ "torn" \in Faults
  /\ pc[r] = "executing" /\ Opens(r)
  /\ \/ UNCHANGED <<records, tail>>
     \/ records' = Continued /\ tail' \in {"fragment", "undecodable"}
  /\ Goto(r, "unsaved")
  /\ UNCHANGED <<state, summary, locks, scheduler, view, target, work, crashes>>

RememberUnended(r) ==
  /\ "newline" \in Faults
  /\ pc[r] = "executing" /\ Opens(r)
  /\ tail = "clean"
  /\ records' = Append(records, r)
  /\ tail' = "unended"
  /\ Goto(r, "unended")
  /\ UNCHANGED <<state, summary, locks, scheduler, view, target, work, crashes>>

(***************************************************************************)
(* remember(): the control file turns dirty and the lock is released.      *)
(***************************************************************************)
RememberWrite(r) ==
  /\ pc[r] = "appended"
  /\ state' = [view[r] EXCEPT !.status = "dirty"]
  /\ Leave(r) /\ Goto(r, "saved")
  /\ UNCHANGED <<records, tail, summary, summaryLock, scheduler, target, work, crashes>>

\* Mutant: a sequence somebody else has reserved is not suppressed.
SuppressedUnlessCovered(n, st) == n <= st.covered \/ n <= st.failed

(***************************************************************************)
(* reserve_auto_refresh(), nothing to reserve: the log holds no record     *)
(* newer than what is covered, was attempted, or failed.                   *)
(***************************************************************************)
Suppressed(n, st) == n <= st.covered \/ n <= st.attempted \/ n <= st.failed

ReserveSuppressed(r) ==
  /\ pc[r] = "saved" /\ Opens(r)
  /\ Suppressed(Len(records), ReadState(Len(records)))
  /\ Goto(r, "done")
  /\ UNCHANGED <<files, locks, scheduler, view, target, work, crashes>>

ReserveRead(r) ==
  /\ pc[r] = "saved" /\ Opens(r)
  /\ ~Suppressed(Len(records), ReadState(Len(records)))
  /\ Enter(r, ReadState(Len(records))) /\ Goto(r, "reserving")
  /\ UNCHANGED <<files, summaryLock, scheduler, target, work, crashes>>

\* Mutant: the sequence of the record to come is booked.
ReserveWriteNext(r) ==
  /\ pc[r] = "reserving"
  /\ state' = [view[r] EXCEPT !.attempted = Len(records) + 1, !.status = "scheduled"]
  /\ target' = [target EXCEPT ![r] = Len(records)]
  /\ Leave(r) /\ Goto(r, "reserved")
  /\ UNCHANGED <<records, tail, summary, summaryLock, scheduler, work, crashes>>

(***************************************************************************)
(* reserve_auto_refresh(): book the newest sequence (the lock is held, so  *)
(* the log is as long as when it was read).                                *)
(***************************************************************************)
ReserveWrite(r) ==
  /\ pc[r] = "reserving"
  /\ state' = [view[r] EXCEPT !.attempted = Len(records), !.status = "scheduled"]
  /\ target' = [target EXCEPT ![r] = Len(records)]
  /\ Leave(r) /\ Goto(r, "reserved")
  /\ UNCHANGED <<records, tail, summary, summaryLock, scheduler, work, crashes>>

\* Mutant: every reservation starts a thread of its own.
EnqueueAlwaysStarts(r) ==
  /\ pc[r] = "reserved"
  /\ targets' = Larger(target[r], targets)
  /\ running' = TRUE
  /\ \E w \in Workers : /\ pc[w] = "idle"
                        /\ pc' = [pc EXCEPT ![r] = "done", ![w] = "pop"]
  /\ UNCHANGED <<files, locks, view, target, work, crashes>>

\* Mutant: the target is merged only into the work of a running thread.
EnqueueForgetsFirst(r) ==
  /\ pc[r] = "reserved"
  /\ \/ /\ running
        /\ targets' = Larger(target[r], targets)
        /\ Goto(r, "done")
        /\ UNCHANGED running
     \/ /\ ~running
        /\ running' = TRUE
        /\ \E w \in Workers : /\ pc[w] = "idle"
                              /\ pc' = [pc EXCEPT ![r] = "done", ![w] = "pop"]
        /\ UNCHANGED targets
  /\ UNCHANGED <<files, locks, view, target, work, crashes>>

(***************************************************************************)
(* schedule(), after the reservation and under the scheduler's lock: merge *)
(* the target, and start a thread unless one is running.                   *)
(***************************************************************************)
Enqueue(r) ==
  /\ pc[r] = "reserved"
  /\ targets' = Larger(target[r], targets)
  /\ \/ /\ running
        /\ Goto(r, "done")
        /\ UNCHANGED running
     \/ /\ ~running
        /\ running' = TRUE
        /\ \E w \in Workers : /\ pc[w] = "idle"
                              /\ pc' = [pc EXCEPT ![r] = "done", ![w] = "pop"]
  /\ UNCHANGED <<files, locks, view, target, work, crashes>>

-------------------------------------------------------------------------------
(* The scheduler's thread.                                                 *)

(***************************************************************************)
(* _run(): take the session's target, by default 0.                        *)
(***************************************************************************)
Pop(w) ==
  /\ pc[w] = "pop"
  /\ target' = [target EXCEPT ![w] = targets]
  /\ targets' = 0
  /\ Goto(w, "mark")
  /\ UNCHANGED <<files, locks, running, view, work, crashes>>

(***************************************************************************)
(* mark_refreshing(): only when the log still reaches the target.          *)
(***************************************************************************)
MarkRead(w) ==
  /\ pc[w] = "mark" /\ Opens(w)
  /\ IF Len(records) >= target[w]
     THEN /\ Enter(w, ReadState(Len(records))) /\ Goto(w, "marking")
     ELSE Goto(w, "refresh") /\ UNCHANGED <<lock, view>>
  /\ UNCHANGED <<files, summaryLock, scheduler, target, work, crashes>>

MarkWrite(w) ==
  /\ pc[w] = "marking"
  /\ state' = [view[w] EXCEPT !.status = "refreshing"]
  /\ Leave(w) /\ Goto(w, "refresh")
  /\ UNCHANGED <<records, tail, summary, summaryLock, scheduler, target, work, crashes>>

(***************************************************************************)
(* _run() after a refresh that returned: go on with a target that arrived  *)
(* meanwhile, or leave.                                                    *)
(***************************************************************************)
Retire(w) == /\ running' = FALSE
             /\ target' = [target EXCEPT ![w] = 0]
             /\ Goto(w, "idle")

\* Mutant: the thread leaves without looking for a newer target.
SettleOnce(w) ==
  /\ pc[w] = "settle"
  /\ Retire(w)
  /\ UNCHANGED <<files, locks, targets, view, work, crashes>>

Settle(w) ==
  /\ pc[w] = "settle"
  /\ IF targets = 0
     THEN Retire(w)
     ELSE Goto(w, "pop") /\ UNCHANGED <<running, target>>
  /\ UNCHANGED <<files, locks, targets, view, work, crashes>>

(***************************************************************************)
(* mark_refresh_failed(), in the handler of a refresh that raised.         *)
(***************************************************************************)
FailRead(w) ==
  /\ pc[w] = "fail" /\ Opens(w)
  /\ Enter(w, ReadState(Len(records))) /\ Goto(w, "failing")
  /\ UNCHANGED <<files, summaryLock, scheduler, target, work, crashes>>

\* Mutant: the failure is written into a new control file.
FailWriteAfresh(w) ==
  /\ pc[w] = "failing"
  /\ state' = [DefaultState EXCEPT !.failed = Smaller(target[w], Len(records)),
                                   !.status = "failed"]
  /\ Leave(w) /\ Goto(w, "report")
  /\ UNCHANGED <<records, tail, summary, summaryLock, scheduler, target, work, crashes>>

FailWrite(w) ==
  /\ pc[w] = "failing"
  /\ state' = [view[w] EXCEPT !.failed = Smaller(target[w], Len(records)),
                              !.status = "failed"]
  /\ Leave(w) /\ Goto(w, "report")
  /\ UNCHANGED <<records, tail, summary, summaryLock, scheduler, target, work, crashes>>

(***************************************************************************)
(* on_failure() returned: retry for a newer target only, or leave.         *)
(***************************************************************************)
AfterFailure(w) ==
  /\ pc[w] = "report"
  /\ IF targets > target[w]
     THEN Goto(w, "pop") /\ UNCHANGED <<scheduler, target>>
     ELSE targets' = 0 /\ Retire(w)
  /\ UNCHANGED <<files, locks, view, work, crashes>>

(***************************************************************************)
(* on_failure() publishes on the bus of the run that started the thread; a *)
(* handler that raises ends the thread inside its except clause.           *)
(***************************************************************************)
ReportRaises(w) ==
  /\ "report" \in Faults
  /\ pc[w] = "report"
  /\ Goto(w, "dead")
  /\ UNCHANGED <<files, locks, scheduler, view, target, work, crashes>>

-------------------------------------------------------------------------------
(* refresh_rolling_summary(), by a worker or by UpdateMemory.  Only        *)
(* force=False is called; a target of None or 0 means the whole log.       *)

CoveredNow == IF SummaryIsValid THEN summary.covered ELSE 0
Goal(t) == IF target[t] = 0 THEN Len(records) ELSE Smaller(target[t], Len(records))

(***************************************************************************)
(* The log is empty, or the valid summary already covers the goal.         *)
(***************************************************************************)
NothingToRefresh(t) ==
  /\ pc[t] = "refresh" /\ Opens(t) /\ summaryLock[Process(t)] = NoThread
  /\ CoveredNow >= Goal(t)
  /\ Goto(t, AfterRefresh(t))
  /\ UNCHANGED <<files, locks, scheduler, view, target, work, crashes>>

\* Mutant: an invalid summary is rebuilt on top of its old text.
BeginRefreshKeepsText(t) ==
  /\ pc[t] = "refresh" /\ Opens(t) /\ summaryLock[Process(t)] = NoThread
  /\ CoveredNow < Goal(t)
  /\ summaryLock' = [summaryLock EXCEPT ![Process(t)] = t]
  /\ work' = [work EXCEPT ![t] =
       [source |-> records, covered |-> CoveredNow, goal |-> Goal(t), seen |-> 0,
        text |-> summary.text]]
  /\ Goto(t, "summarizing")
  /\ UNCHANGED <<files, lock, scheduler, view, target, crashes>>

(***************************************************************************)
(* Snapshot log and summary, and keep the summary lock until the end.      *)
(***************************************************************************)
BeginRefresh(t) ==
  /\ pc[t] = "refresh" /\ Opens(t) /\ summaryLock[Process(t)] = NoThread
  /\ CoveredNow < Goal(t)
  /\ summaryLock' = [summaryLock EXCEPT ![Process(t)] = t]
  /\ work' = [work EXCEPT ![t] =
       [source |-> records, covered |-> CoveredNow, goal |-> Goal(t), seen |-> 0,
        text |-> IF SummaryIsValid THEN summary.text ELSE << >>]]
  /\ Goto(t, "summarizing")
  /\ UNCHANGED <<files, lock, scheduler, view, target, crashes>>

NextCovered(t) == Smaller(work[t].covered + Batch, work[t].goal)

(***************************************************************************)
(* The model merges the next batch into the text, outside the file lock.   *)
(***************************************************************************)
Summarize(t) ==
  /\ pc[t] = "summarizing"
  /\ work' = [work EXCEPT ![t].text =
       @ \o SubSeq(work[t].source, work[t].covered + 1, NextCovered(t))]
  /\ Goto(t, "commit")
  /\ UNCHANGED <<files, locks, scheduler, view, target, crashes>>

(***************************************************************************)
(* The call fails, or what it returns is no summary.                       *)
(***************************************************************************)
SummarizeFails(t) ==
  /\ "llm" \in Faults
  /\ pc[t] = "summarizing"
  /\ EndWork(t) /\ Goto(t, AfterError(t))
  /\ UNCHANGED <<files, lock, scheduler, view, target, crashes>>

(***************************************************************************)
(* Commit: unless the log became too short, the summary file is replaced   *)
(* first ...                                                               *)
(***************************************************************************)
CommitSummary(t) ==
  /\ pc[t] = "commit" /\ Opens(t)
  /\ IF Len(records) >= NextCovered(t)
     THEN /\ summary' = [covered |-> NextCovered(t),
                         digest |-> SubSeq(records, 1, NextCovered(t)),
                         text |-> work[t].text]
          /\ work' = [work EXCEPT ![t].seen = Len(records)]
          /\ lock' = [lock EXCEPT ![Process(t)] = t]
          /\ Goto(t, "committing")
          /\ UNCHANGED summaryLock
     ELSE /\ EndWork(t) /\ Goto(t, AfterError(t))
          /\ UNCHANGED <<summary, lock>>
  /\ UNCHANGED <<records, tail, state, scheduler, view, target, crashes>>

(***************************************************************************)
(* ... then the control file is read again ...                             *)
(***************************************************************************)
CommitRead(t) ==
  /\ pc[t] = "committing"
  /\ view' = [view EXCEPT ![t] = ReadState(work[t].seen)]
  /\ Goto(t, "updating")
  /\ UNCHANGED <<files, locks, scheduler, target, work, crashes>>

(***************************************************************************)
(* ... and replaced; the loop goes on or the refresh returns.              *)
(***************************************************************************)
CommitWrite(t) ==
  /\ pc[t] = "updating"
  /\ state' = [view[t] EXCEPT
       !.covered = NextCovered(t),
       !.failed = 0,
       !.status = IF NextCovered(t) >= work[t].seen THEN "idle" ELSE "dirty"]
  /\ Leave(t)
  /\ IF NextCovered(t) < work[t].goal
     THEN /\ work' = [work EXCEPT ![t].covered = NextCovered(t)]
          /\ Goto(t, "summarizing")
          /\ UNCHANGED summaryLock
     ELSE EndWork(t) /\ Goto(t, AfterRefresh(t))
  /\ UNCHANGED <<records, tail, summary, scheduler, target, crashes>>

-------------------------------------------------------------------------------
(* Faults of the surroundings.                                             *)

(***************************************************************************)
(* The log cannot be decoded: what reads it raises, and so does the        *)
(* handler of a refresh that failed, as it reads the log itself.           *)
(***************************************************************************)
AfterReadError(t) ==
  IF pc[t] = "executing" THEN "unsaved"
  ELSE IF pc[t] = "saved" THEN "done"
  ELSE IF pc[t] = "fail" THEN "dead"
  ELSE AfterError(t)

ReadRaises(t) ==
  /\ tail = "undecodable"
  /\ pc[t] \in {"executing", "saved", "mark", "refresh", "commit", "fail"} /\ Free(t)
  /\ pc[t] = "refresh" => summaryLock[Process(t)] = NoThread
  /\ IF pc[t] = "commit" THEN EndWork(t) ELSE UNCHANGED <<summaryLock, work>>
  /\ Goto(t, AfterReadError(t))
  /\ UNCHANGED <<files, lock, scheduler, view, target, crashes>>

(***************************************************************************)
(* Replacing memory_state.json raises (disk full, no permission): the old  *)
(* file stays, the locks are released, and the caller handles the error -  *)
(* except the handler of a failed refresh, which has no handler itself.    *)
(***************************************************************************)
AfterWriteError(t) ==
  IF pc[t] = "appended" THEN "unsaved"
  ELSE IF pc[t] = "reserving" THEN "done"
  ELSE IF pc[t] = "failing" THEN "dead"
  ELSE AfterError(t)

StateWriteFails(t) ==
  /\ "state_write" \in Faults
  /\ pc[t] \in {"appended", "reserving", "marking", "updating", "failing"}
  /\ Leave(t)
  /\ IF pc[t] = "updating" THEN EndWork(t) ELSE UNCHANGED <<summaryLock, work>>
  /\ Goto(t, AfterWriteError(t))
  /\ UNCHANGED <<files, scheduler, target, crashes>>

(***************************************************************************)
(* A process is killed: its threads, its locks and, with the daemon, the   *)
(* scheduler's tables are gone; the files are what they were.  The daemon  *)
(* is started again.                                                       *)
(***************************************************************************)
AfterKill(t) ==
  IF t \in Workers THEN "idle"
  ELSE IF t \in Updaters THEN "done"
  ELSE IF pc[t] \in {"executing", "unsaved", "unended", "done"} THEN pc[t]
  ELSE "lost"

Kill(p) ==
  /\ "crash" \in Faults
  /\ crashes < MaxCrashes
  /\ crashes' = crashes + 1
  /\ pc' = [t \in Threads |-> IF Process(t) = p THEN AfterKill(t) ELSE pc[t]]
  /\ lock' = [lock EXCEPT ![p] = NoThread]
  /\ summaryLock' = [summaryLock EXCEPT ![p] = NoThread]
  /\ work' = [t \in Threads |-> IF Process(t) = p THEN NoWork ELSE work[t]]
  /\ view' = [t \in Threads |-> IF Process(t) = p THEN DefaultState ELSE view[t]]
  /\ target' = [t \in Threads |-> IF Process(t) = p /\ t \in Workers THEN 0 ELSE target[t]]
  /\ IF p = Daemon
     THEN targets' = 0 /\ running' = FALSE
     ELSE UNCHANGED scheduler
  /\ UNCHANGED files

-------------------------------------------------------------------------------
RunStep(r) ==
  \/ RememberAppend(r) \/ RememberWrite(r)
  \/ ReserveSuppressed(r) \/ ReserveRead(r) \/ ReserveWrite(r)
  \/ Enqueue(r)

RefreshStep(t) ==
  \/ NothingToRefresh(t) \/ BeginRefresh(t)
  \/ Summarize(t) \/ SummarizeFails(t)
  \/ CommitSummary(t) \/ CommitRead(t) \/ CommitWrite(t)

WorkerStep(w) ==
  \/ Pop(w) \/ MarkRead(w) \/ MarkWrite(w)
  \/ Settle(w) \/ FailRead(w) \/ FailWrite(w) \/ AfterFailure(w)
  \/ RefreshStep(w)

Fault ==
  \/ \E r \in Runs : RememberTorn(r) \/ RememberUnended(r)
  \/ \E w \in Workers : ReportRaises(w)
  \/ \E t \in Threads : StateWriteFails(t)
  \/ \E p \in Processes : Kill(p)

Next ==
  \/ \E r \in Runs : RunStep(r)
  \/ \E w \in Workers : WorkerStep(w)
  \/ \E u \in Updaters : RefreshStep(u)
  \/ \E t \in Threads : ReadRaises(t)
  \/ Fault

(***************************************************************************)
(* What the history variables note of a step.                              *)
(***************************************************************************)
Noted ==
  /\ glued' = glued \cup {r \in Runs : /\ pc[r] = "executing" /\ pc'[r] = "appended"
                                      /\ tail # "clean"}
  /\ straddling' = {t \in Threads : /\ work'[t] # NoWork
                                    /\ t \in straddling \/ Len(records') < Len(records)}
  /\ spoiled' = (spoiled \/ \E t \in straddling : pc[t] = "commit" /\ pc'[t] = "committing")

Spec == Init /\ [][Next /\ Noted]_<<vars, history>>

(***************************************************************************)
(* An agent run may take forever, but one that remembered its answer goes  *)
(* on, and so do the scheduler's threads and the updaters: they wait only  *)
(* for locks held over a bounded number of steps, and a model call returns *)
(* or raises (the client has a timeout).                                   *)
(***************************************************************************)
Fairness ==
  /\ \A r \in Runs : WF_vars(pc[r] # "executing" /\ (RunStep(r) \/ ReadRaises(r)))
  /\ \A w \in Workers : WF_vars(WorkerStep(w) \/ ReadRaises(w))
  /\ \A u \in Updaters : WF_vars(RefreshStep(u) \/ ReadRaises(u))

FairSpec == Spec /\ Fairness

-------------------------------------------------------------------------------
(* Properties.                                                             *)

Labels == {"executing", "appended", "saved", "reserving", "reserved", "done",
           "unsaved", "unended", "lost", "idle", "pop", "mark", "marking", "refresh",
           "summarizing", "commit", "committing", "updating", "settle", "fail",
           "failing", "report", "dead"}

StateFile == [covered : Nat, attempted : Nat, failed : Nat, status : Statuses]
Summaries == [covered : Nat, digest : Seq(Runs), text : Seq(Runs)]
Works == [source : Seq(Runs), covered : Nat, goal : Nat, text : Seq(Runs), seen : Nat]

(***************************************************************************)
(* Every variable but the history has its type.                            *)
(***************************************************************************)
TypeOK ==
  /\ records \in Seq(Runs)
  /\ tail \in Tails
  /\ state \in StateFile
  /\ summary \in Summaries
  /\ lock \in [Processes -> Threads \cup {NoThread}]
  /\ summaryLock \in [Processes -> Threads \cup {NoThread}]
  /\ targets \in Nat
  /\ running \in BOOLEAN
  /\ pc \in [Threads -> Labels]
  /\ view \in [Threads -> StateFile]
  /\ target \in [Threads -> Nat]
  /\ work \in [Threads -> Works]
  /\ crashes \in Nat

(***************************************************************************)
(* A summary that load_context() accepts tells exactly the records it      *)
(* claims to cover, each once and in order.                                *)
(***************************************************************************)
SummaryFaithful ==
  SummaryIsValid => summary.text = SubSeq(records, 1, summary.covered)

(***************************************************************************)
(* However many processes refresh it at once and wherever one of them was  *)
(* killed, an accepted summary is faithful - unless a refresh that had     *)
(* read a record lacking its newline commits after the next append took    *)
(* that record away: the commit compares lengths only.                     *)
(***************************************************************************)
SummaryStaysFaithful == ~spoiled => SummaryFaithful

(***************************************************************************)
(* The files implement the session log of SessionLog: whatever refreshes,  *)
(* failures and kills do to the summary, the next run's context holds the  *)
(* newest records and has no gap between summary and fallback              *)
(* (load_context(), "the point that guarantees continuity").  Only appends *)
(* that broke off may end this: inside a character, so that load_context() *)
(* raises, or before the newline, see SummaryStaysFaithful.                *)
(***************************************************************************)
Broken == tail = "undecodable" \/ spoiled

Promise == INSTANCE SessionLog
             WITH log <- records,
                  context <- IF Broken THEN {} ELSE Visible,
                  failed <- {r \in Runs : pc[r] \in {"unsaved", "unended"}},
                  broken <- Broken

KeepsPromise == Promise!Spec

(***************************************************************************)
(* A run whose append returned has its record in the log for good: no      *)
(* later append, whole or broken off, no refresh, failed write or kill     *)
(* takes it away, whether the run went on or was killed as well.  The one  *)
(* exception is decided at the append itself, when it continues a line     *)
(* that had not ended.                                                     *)
(***************************************************************************)
Returned(r) == pc[r] \in {"appended", "saved", "reserving", "reserved", "done", "lost"}

RememberedKept ==
  \A r \in Runs : Returned(r) => r \in glued \/ \E i \in 1..Len(records) : records[i] = r

(***************************************************************************)
(* At most one thread of the scheduler works for the session, and the      *)
(* _running mark is set exactly while there is one (a thread that died in  *)
(* its error handler still counts: it left the mark behind).               *)
(***************************************************************************)
OneRefresher ==
  /\ \A v, w \in Workers : pc[v] # "idle" /\ pc[w] # "idle" => v = w
  /\ running <=> \E w \in Workers : pc[w] # "idle"

(***************************************************************************)
(* A scheduler thread always has a target: the default 0 of _targets.pop,  *)
(* which refresh_rolling_summary() would take for "the whole log", is      *)
(* never used.                                                             *)
(***************************************************************************)
RefresherHasTarget ==
  \A w \in Workers :
    /\ pc[w] = "pop" => targets > 0
    /\ pc[w] \notin {"idle", "pop", "dead"} => target[w] > 0

(***************************************************************************)
(* No two runs reserve the same sequence: each length of the log causes at *)
(* most one automatic refresh.                                             *)
(***************************************************************************)
OneAttemptPerSequence ==
  \A r, q \in Runs : r # q /\ target[r] = target[q] => target[r] = 0

(***************************************************************************)
(* "The covered sequence of the summary only advances, never goes back"    *)
(* (memory-flow.md, maintenance check 2).                                  *)
(***************************************************************************)
CoverageMonotone == [][state'.covered >= state.covered]_state

(***************************************************************************)
(* "Only a record written after the failed target may unlock one retry"    *)
(* (memory.py:644), and such a record always does: whatever reservation,   *)
(* failure or kill came before, a run that has just added its record is    *)
(* not refused a refresh, unless a summary covers the record already - or  *)
(* the log was longer once, with a record that lacked its newline.         *)
(***************************************************************************)
NewRecordUnlocks ==
  \A r \in Runs :
    pc[r] = "appended" /\ (\E i \in 1..Len(records) : records[i] = r) =>
      \/ ~Suppressed(Len(records), ReadState(Len(records)))
      \/ state.covered >= Len(records)
      \/ \E q \in Runs : pc[q] = "unended"

(***************************************************************************)
(* Every remembered run is eventually merged into the summary, or a        *)
(* refresh that should have covered it fails, or a handler that raised     *)
(* ended the scheduler's thread and left the session marked as running.    *)
(***************************************************************************)
Covered(r) == SummaryIsValid /\ \E i \in 1..Len(summary.text) : summary.text[i] = r
Failed(r) == \E i \in 1..Len(records) : records[i] = r /\ state.failed >= i
RefresherDied == \E w \in Workers : pc[w] = "dead"

EventuallyAttempted ==
  \A r \in Runs : pc[r] = "appended" ~> Covered(r) \/ Failed(r) \/ RefresherDied
===============================================================================
