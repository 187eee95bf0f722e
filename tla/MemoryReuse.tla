------------------------------ MODULE MemoryReuse ------------------------------
(***************************************************************************)
(* SessionMemory with "session del" (core/session/manager.py): a CLI       *)
(* process removes the session's directory while runs, refresh threads and *)
(* UpdateMemory go on, and "session new" may hand out the same id again,   *)
(* since the next number is one above the highest that exists.  Nothing in *)
(* memory.py notices: its locks and the scheduler's tables are keyed by    *)
(* the path, which is the same for the old session and the new one.        *)
(***************************************************************************)
EXTENDS SessionMemory

CONSTANT MaxDeletes   \* bound: how often the session is deleted

ASSUME MemoryReuseAssumption == MaxDeletes \in Nat

VARIABLE deletes     \* how often the session was deleted so far

reuseVars == <<vars, deletes, history>>

ReuseInit ==
  /\ Init
  /\ deletes = 0

(***************************************************************************)
(* The directory goes with its three files (a removal is one step here),   *)
(* and is made again by "session new" or by the first thread that writes   *)
(* into it.  Locks, threads and the scheduler's tables stay.               *)
(***************************************************************************)
DeleteSession ==
  /\ deletes < MaxDeletes
  /\ deletes' = deletes + 1
  /\ records' = << >> /\ tail' = "clean"
  /\ state' = DefaultState
  /\ summary' = NoSummary
  /\ straddling' = {t \in Threads : work[t] # NoWork}
  /\ spoiled' = FALSE
  /\ UNCHANGED <<locks, scheduler, pc, view, target, work, crashes, glued>>

ReuseNext ==
  \/ Next /\ Noted /\ UNCHANGED deletes
  \/ DeleteSession

ReuseSpec == ReuseInit /\ [][ReuseNext]_reuseVars

(***************************************************************************)
(* A session that is deleted and created again starts from nothing: unless *)
(* a refresh begun before the deletion commits after it, an accepted       *)
(* summary tells exactly the new session's own records, in order and each  *)
(* once - whatever a run, a waiting refresh, a stale target, a late write  *)
(* of the control file or a kill left behind.                              *)
(***************************************************************************)
OwnRecordsOnly == ~spoiled => SummaryFaithful
===============================================================================
