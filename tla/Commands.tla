-------------------------------- MODULE Commands --------------------------------
(***************************************************************************)
(* `sorrow` processes, each executing one command, and what they share     *)
(* outside of a run's events: the session directories and                  *)
(* current_session.json (core/session/manager.py), the daemon's port and   *)
(* the daemons they start (core/ipc/daemon_process.py), and the runs that  *)
(* a daemon accepts for a session.                                         *)
(*                                                                         *)
(* A step is one look at the files or one change of them.  The id          *)
(* session_i is the number i.  `run` stands for every command that needs a *)
(* current session; the others stop before they ask for a daemon.          *)
(***************************************************************************)
EXTENDS Naturals, FiniteSets, FiniteSetsExt

CONSTANTS Processes,    \* CLI processes, each executing one command
          Before,       \* the daemon somebody started earlier
          NoSession,    \* no session: the file is missing, empty or torn
          NoCommand,    \* a process that has not been started
          MaxId,        \* bound: the highest session number
          InitialIds,   \* sessions that may exist at first
          Faults        \* what may go wrong: a subset of FaultKinds

\* kill: a CLI is killed at any step; rmtree: a directory is removed in part or
\* not at all, for an open file (Windows), a file written meanwhile, its rights.
FaultKinds == {"kill", "rmtree"}

Ids == 1..MaxId

ASSUME CommandsAssumption ==
  /\ Before \notin Processes
  /\ MaxId \in Nat \ {0}
  /\ NoSession \notin Ids
  /\ InitialIds \subseteq Ids
  /\ Faults \subseteq FaultKinds

Daemons == Processes \cup {Before}

VARIABLES
  memory,     \* sessions with a memory directory
  traces,     \* sessions with a trace directory
  current,    \* what current_session.json names
  log,        \* per session: the runs whose record its memory holds
  pc,         \* where each process stands
  command,    \* the command it executes
  session,    \* the session it chose
  daemon,     \* per daemon: none, starting, listening, closing, exited
  run,        \* per process: its run in the daemon
  host,       \* the daemon of that run
  remembered, \* history: runs whose record was written
  earlier,    \* history, per run: the commands that were over by then
  patient     \* the user starts a session command only when none is in progress

files == <<memory, traces, current, log>>
cli == <<pc, command, session>>
runs == <<run, host, remembered, earlier>>
vars == <<files, cli, daemon, runs, patient>>

Requests == [kind : {"new", "run", "shutdown"}, on : {NoSession}]
            \cup [kind : {"switch", "del"}, on : Ids]

ASSUME NoCommandAssumption == NoCommand \notin Requests

\* refused: for the session it names; cut: killed while it removes a session.
Ended == {"done", "refused", "failed", "nodaemon", "killed", "cut"}
Removing == {"rmmemory", "rmdir", "rmtraces"}
OnFiles == Removing \cup {"ensure", "remake", "choose", "mkdirs", "truncate", "write",
                          "exists", "compare"}

Goto(p, there) == pc' = [pc EXCEPT ![p] = there]
Listed == memory \cup traces \cup ({current} \ {NoSession})
Listening == {d \in Daemons : daemon[d] = "listening"}

Init ==
  /\ memory \in SUBSET InitialIds
  /\ traces = memory
  /\ current \in memory \cup {NoSession}
  /\ log = [s \in Ids |-> {}]
  /\ pc = [p \in Processes |-> "ready"]
  /\ command = [p \in Processes |-> NoCommand]
  /\ session = [p \in Processes |-> NoSession]
  /\ \E state \in {"none", "listening"} :
       daemon = [d \in Daemons |-> IF d = Before THEN state ELSE "none"]
  /\ run = [p \in Processes |-> "none"]
  /\ host = [p \in Processes |-> Before]
  /\ remembered = {}
  /\ earlier = [p \in Processes |-> {}]
  /\ patient \in BOOLEAN

-------------------------------------------------------------------------------
(* Commands and the session files.                                         *)

FirstStep(kind) ==
  IF kind = "new" THEN "choose"
  ELSE IF kind = "run" THEN "ensure"
  ELSE IF kind = "shutdown" THEN "shutdown" ELSE "exists"

Begin(p) ==
  /\ pc[p] = "ready"
  /\ \E c \in Requests :
       /\ patient /\ c.kind # "shutdown" => \A q \in Processes : pc[q] \notin OnFiles
       /\ command' = [command EXCEPT ![p] = c]
       /\ session' = [session EXCEPT ![p] = c.on]
       /\ Goto(p, FirstStep(c.kind))
  /\ UNCHANGED <<files, daemon, runs, patient>>

\* ensure_current_session: take the current session, or create one.
Ensure(p) ==
  /\ pc[p] = "ensure"
  /\ session' = [session EXCEPT ![p] = current]
  /\ Goto(p, IF current = NoSession THEN "choose" ELSE "remake")
  /\ UNCHANGED <<files, command, daemon, runs, patient>>

\* ensure_session_dirs.
MakeDirsOf(s) ==
  /\ memory' = memory \cup {s}
  /\ traces' = traces \cup {s}

Remake(p) ==
  /\ pc[p] = "remake"
  /\ MakeDirsOf(session[p])
  /\ Goto(p, "ping")
  /\ UNCHANGED <<current, log, command, session, daemon, runs, patient>>

\* _next_session_id: one more than the highest there is.
Choose(p) ==
  /\ pc[p] = "choose"
  /\ Max(Listed \cup {0}) + 1 \in Ids
  /\ session' = [session EXCEPT ![p] = Max(Listed \cup {0}) + 1]
  /\ Goto(p, "mkdirs")
  /\ UNCHANGED <<files, command, daemon, runs, patient>>

MakeDirs(p) ==
  /\ pc[p] = "mkdirs"
  /\ MakeDirsOf(session[p])
  /\ Goto(p, "truncate")
  /\ UNCHANGED <<current, log, command, session, daemon, runs, patient>>

\* set_current_session writes the file in place: it is empty for a moment.
Truncate(p) ==
  /\ pc[p] = "truncate"
  /\ current' = NoSession
  /\ Goto(p, "write")
  /\ UNCHANGED <<memory, traces, log, command, session, daemon, runs, patient>>

WriteCurrent(p) ==
  /\ pc[p] = "write"
  /\ current' = session[p]
  /\ Goto(p, IF command[p].kind = "run" THEN "ping" ELSE "done")
  /\ UNCHANGED <<memory, traces, log, command, session, daemon, runs, patient>>

\* switch_session and delete_session refuse a session that is not listed.
Exists(p) ==
  /\ pc[p] = "exists"
  /\ Goto(p, IF session[p] \notin Listed THEN "refused"
             ELSE IF command[p].kind = "switch" THEN "mkdirs" ELSE "compare")
  /\ UNCHANGED <<files, command, session, daemon, runs, patient>>

\* Mutant: the current session is not refused.
CompareNot(p) ==
  /\ pc[p] = "compare"
  /\ Goto(p, "rmmemory")
  /\ UNCHANGED <<files, command, session, daemon, runs, patient>>

\* Mutant: the memory is gone before the current session is refused.
CompareLate(p) ==
  /\ pc[p] = "compare"
  /\ memory' = memory \ {session[p]}
  /\ log' = [log EXCEPT ![session[p]] = {}]
  /\ Goto(p, IF current = session[p] THEN "refused" ELSE "rmtraces")
  /\ UNCHANGED <<traces, current, command, session, daemon, runs, patient>>

\* delete_session: the current session is refused.
Compare(p) ==
  /\ pc[p] = "compare"
  /\ Goto(p, IF current = session[p] THEN "refused" ELSE "rmmemory")
  /\ UNCHANGED <<files, command, session, daemon, runs, patient>>

\* shutil.rmtree takes the files first; a directory that is not there is skipped.
EmptyMemory(p) ==
  /\ pc[p] = "rmmemory"
  /\ \/ /\ Goto(p, IF session[p] \in memory THEN "rmdir" ELSE "rmtraces")
        /\ log' = [log EXCEPT ![session[p]] = {}]
     \/ /\ "rmtree" \in Faults
        /\ Goto(p, "failed")
        /\ log' \in {log, [log EXCEPT ![session[p]] = {}]}
  /\ UNCHANGED <<memory, traces, current, command, session, daemon, runs, patient>>

\* It raises when a run has written meanwhile, or when the directory has gone.
RemoveMemory(p) ==
  /\ pc[p] = "rmdir"
  /\ LET empty == session[p] \in memory /\ log[session[p]] = {}
     IN \/ empty /\ Goto(p, "rmtraces") /\ memory' = memory \ {session[p]}
        \/ (~empty \/ "rmtree" \in Faults) /\ Goto(p, "failed") /\ UNCHANGED memory
  /\ UNCHANGED <<traces, current, log, command, session, daemon, runs, patient>>

\* The daemon keeps the trace files it has written open: on Windows this fails
\* when the memory is gone already.
RemoveTraces(p) ==
  /\ pc[p] = "rmtraces"
  /\ \/ Goto(p, "done") /\ traces' = traces \ {session[p]}
     \/ "rmtree" \in Faults /\ Goto(p, "failed") /\ UNCHANGED traces
  /\ UNCHANGED <<memory, current, log, command, session, daemon, runs, patient>>

-------------------------------------------------------------------------------
(* The daemon: found, started, asked.                                      *)

\* Mutant: a daemon is started without a look for one.
PingNever(p) ==
  /\ pc[p] = "ping"
  /\ daemon' = [daemon EXCEPT ![p] = "starting"]
  /\ Goto(p, "wait")
  /\ UNCHANGED <<files, command, session, runs, patient>>

Ping(p) ==
  /\ pc[p] = "ping"
  /\ IF Listening # {}
     THEN Goto(p, "request") /\ UNCHANGED daemon
     ELSE Goto(p, "wait") /\ daemon' = [daemon EXCEPT ![p] = "starting"]
  /\ UNCHANGED <<files, command, session, runs, patient>>

\* The started process is looked at before the ping: when it has exited, it
\* does not matter that another daemon answers.
Wait(p) ==
  /\ pc[p] = "wait"
  /\ \/ daemon[p] = "exited" /\ Goto(p, "nodaemon")
     \/ daemon[p] # "exited" /\ Listening # {} /\ Goto(p, "request")
  /\ UNCHANGED <<files, command, session, daemon, runs, patient>>

\* agent.run: the handler looks for the session, makes its directories, and
\* the request and its answer are traced.
Request(p) ==
  /\ pc[p] = "request"
  /\ IF session[p] \in Listed /\ Listening # {}
     THEN \E d \in Listening :
            /\ MakeDirsOf(session[p])
            /\ run' = [run EXCEPT ![p] = "accepted"]
            /\ host' = [host EXCEPT ![p] = d]
            /\ Goto(p, "stream")
     ELSE Goto(p, "failed") /\ UNCHANGED <<memory, traces, run, host>>
  /\ UNCHANGED <<current, log, command, session, daemon, remembered, earlier, patient>>

\* The CLI is shown the end of its run, or the daemon closes the connection.
Stream(p) ==
  /\ pc[p] = "stream"
  /\ \/ run[p] = "over" /\ Goto(p, "done")
     \/ daemon[host[p]] # "listening" /\ Goto(p, "failed")
  /\ UNCHANGED <<files, command, session, daemon, runs, patient>>

ShutDown(p) ==
  /\ pc[p] = "shutdown"
  /\ daemon' = [d \in Daemons |-> IF d \in Listening THEN "closing" ELSE daemon[d]]
  /\ Goto(p, "done")
  /\ UNCHANGED <<files, command, session, runs, patient>>

\* The port belongs to one daemon; a second one exits.
Bind(d) ==
  /\ daemon[d] = "starting"
  /\ daemon' = [daemon EXCEPT ![d] = IF Listening = {} THEN "listening" ELSE "exited"]
  /\ UNCHANGED <<files, cli, runs, patient>>

\* A closing daemon waits for the threads of its runs.
ExitDaemon(d) ==
  /\ daemon[d] = "closing"
  /\ \A p \in Processes : host[p] = d => run[p] \in {"none", "over"}
  /\ daemon' = [daemon EXCEPT ![d] = "exited"]
  /\ UNCHANGED <<files, cli, runs, patient>>

-------------------------------------------------------------------------------
(* A run in the daemon.                                                    *)

\* _create_context looks for the session again; a closing daemon may cancel
\* the background task first.
StartRun(p) ==
  /\ run[p] = "accepted"
  /\ \/ /\ session[p] \in Listed
        /\ MakeDirsOf(session[p])
        /\ run' = [run EXCEPT ![p] = "executing"]
     \/ /\ session[p] \notin Listed \/ daemon[host[p]] = "closing"
        /\ run' = [run EXCEPT ![p] = "over"]
        /\ UNCHANGED <<memory, traces>>
  /\ UNCHANGED <<current, log, cli, daemon, host, remembered, earlier, patient>>

\* Mutant: the memory directory is taken for granted.
RememberInPlace(p) ==
  /\ run[p] = "executing"
  /\ log' = [log EXCEPT ![session[p]] = @ \cup {p}]
  /\ run' = [run EXCEPT ![p] = "over"]
  /\ remembered' = remembered \cup {p}
  /\ UNCHANGED <<earlier, memory, traces, current, cli, daemon, host, patient>>

\* remember() makes the memory directory when it is not there.
Remember(p) ==
  /\ run[p] = "executing"
  /\ memory' = memory \cup {session[p]}
  /\ log' = [log EXCEPT ![session[p]] = @ \cup {p}]
  /\ run' = [run EXCEPT ![p] = "over"]
  /\ remembered' = remembered \cup {p}
  /\ earlier' = [earlier EXCEPT ![p] = {q \in Processes : pc[q] \in Ended}]
  /\ UNCHANGED <<traces, current, cli, daemon, host, patient>>

RunFails(p) ==
  /\ run[p] = "executing"
  /\ run' = [run EXCEPT ![p] = "over"]
  /\ UNCHANGED <<files, cli, daemon, host, remembered, earlier, patient>>

Kill(p) ==
  /\ "kill" \in Faults
  /\ pc[p] \notin Ended \cup {"ready"}
  /\ Goto(p, IF pc[p] \in Removing THEN "cut" ELSE "killed")
  /\ UNCHANGED <<files, command, session, daemon, runs, patient>>

-------------------------------------------------------------------------------
SessionStep(p) ==
  \/ Ensure(p) \/ Remake(p) \/ Choose(p) \/ MakeDirs(p) \/ Truncate(p) \/ WriteCurrent(p)
  \/ Exists(p) \/ Compare(p) \/ EmptyMemory(p) \/ RemoveMemory(p) \/ RemoveTraces(p)
DaemonStep(p) == Ping(p) \/ Wait(p) \/ Request(p) \/ Stream(p) \/ ShutDown(p)
RunStep(p) == StartRun(p) \/ Remember(p) \/ RunFails(p)

Next ==
  \/ \E p \in Processes : Begin(p) \/ SessionStep(p) \/ DaemonStep(p) \/ RunStep(p) \/ Kill(p)
  \/ \E d \in Daemons : Bind(d) \/ ExitDaemon(d)

Spec == Init /\ [][Next]_vars

-------------------------------------------------------------------------------
\* Every variable has its type; a run has a session, and what a session's
\* memory holds is in a directory that is there.
TypeOK ==
  /\ memory \subseteq Ids /\ traces \subseteq Ids
  /\ current \in Ids \cup {NoSession}
  /\ log \in [Ids -> SUBSET Processes]
  /\ pc \in [Processes -> Ended \cup OnFiles \cup {"ready", "ping", "wait", "request",
                                                   "stream", "shutdown"}]
  /\ command \in [Processes -> Requests \cup {NoCommand}]
  /\ session \in [Processes -> Ids \cup {NoSession}]
  /\ daemon \in [Daemons -> {"none", "starting", "listening", "closing", "exited"}]
  /\ run \in [Processes -> {"none", "accepted", "executing", "over"}]
  /\ host \in [Processes -> Daemons]
  /\ remembered \subseteq Processes
  /\ earlier \in [Processes -> SUBSET Processes]
  /\ patient \in BOOLEAN
  /\ \A p \in Processes : run[p] # "none" => session[p] \in Ids
  /\ \A s \in Ids : log[s] # {} => s \in memory

\* "The current session cannot be deleted" (README): with one session command
\* at a time the current session has both its directories, wherever a command
\* is killed and whichever runs are in flight.
CurrentHasData == patient /\ current # NoSession => current \in memory \cap traces

\* What a run remembered is lost only by a deletion of its session that was not
\* over when the record was written and was not refused: one that succeeds or
\* is in progress, was cut short by a kill, or reports that it failed although
\* the memory is gone.
LostOnlyByDelete ==
  \A p \in remembered :
    p \notin log[session[p]] =>
      \E q \in Processes \ earlier[p] :
        /\ command[q] = [kind |-> "del", on |-> session[p]]
        /\ pc[q] \in {"rmdir", "rmtraces", "done", "failed", "cut"}

\* A daemon is running or started when one is needed: a CLI gives up on that
\* only if another one has started a daemon or is asked to shut one down.
AloneGetsDaemon ==
  \A p \in Processes :
    pc[p] = "nodaemon" =>
      \E q \in Processes \ {p} :
        daemon[q] # "none" \/ (command[q] # NoCommand /\ command[q].kind = "shutdown")
===============================================================================
