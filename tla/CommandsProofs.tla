----------------------------- MODULE CommandsProofs -----------------------------
(***************************************************************************)
(* Safety of Commands for any set of CLI processes, any number of sessions *)
(* and any fault: the types, the current session's directories, what may   *)
(* lose a remembered run, and who gets a daemon.                           *)
(***************************************************************************)
EXTENDS Commands, TLAPS

-------------------------------------------------------------------------------
(* Types.                                                                  *)

\* Where a process has chosen its session.
Chosen == {"remake", "mkdirs", "truncate", "write", "exists", "compare", "rmmemory", "rmdir",
           "rmtraces", "ping", "wait", "request", "stream"}

Places == Ended \cup OnFiles \cup {"ready", "ping", "wait", "request", "stream", "shutdown"}

TypesInv ==
  /\ TypeOK
  /\ \A p \in Processes : pc[p] \in Chosen => session[p] \in Ids
  /\ \A p \in Processes : run[p] # "none" => pc[p] \in Ended \cup {"stream"}

LEMMA TypesInit == Init => TypesInv
BY CommandsAssumption
   DEF Init, TypesInv, TypeOK, Daemons, Requests, Ended, OnFiles, Removing, Chosen, Ids

LEMMA TypesNext == ASSUME TypesInv, [Next]_vars  PROVE TypesInv'
<1> USE CommandsAssumption DEF files, cli, runs, Goto
<1>1. /\ memory \subseteq Ids /\ traces \subseteq Ids /\ current \in Ids \cup {NoSession}
      /\ log \in [Ids -> SUBSET Processes] /\ pc \in [Processes -> Places]
      /\ command \in [Processes -> Requests \cup {NoCommand}]
      /\ session \in [Processes -> Ids \cup {NoSession}]
      /\ daemon \in [Daemons -> {"none", "starting", "listening", "closing", "exited"}]
      /\ run \in [Processes -> {"none", "accepted", "executing", "over"}]
      /\ host \in [Processes -> Daemons] /\ remembered \subseteq Processes /\ patient \in BOOLEAN
      /\ earlier \in [Processes -> SUBSET Processes]
      /\ \A p \in Processes : run[p] # "none" => session[p] \in Ids
      /\ \A s \in Ids : log[s] # {} => s \in memory
  BY DEF TypesInv, TypeOK, Places
<1>2. /\ \A p \in Processes : pc[p] \in Chosen => session[p] \in Ids
      /\ \A p \in Processes : run[p] # "none" => pc[p] \in Ended \cup {"stream"}
  BY DEF TypesInv
<1>3. Processes \subseteq Daemons
  BY DEF Daemons
<1>4. ASSUME NEW p \in Processes, Begin(p)  PROVE TypesInv'
  <2>1. PICK c \in Requests :
          /\ command' = [command EXCEPT ![p] = c] /\ session' = [session EXCEPT ![p] = c.on]
          /\ pc' = [pc EXCEPT ![p] = FirstStep(c.kind)]
    BY <1>4 DEF Begin
  <2>2. pc[p] = "ready" /\ run[p] = "none" /\ UNCHANGED <<files, daemon, runs, patient>>
    BY <1>2, <1>4 DEF Begin, Ended
  <2>3. FirstStep(c.kind) \in {"choose", "ensure", "shutdown", "exists"}
        /\ (FirstStep(c.kind) = "exists" => c.on \in Ids) /\ c.on \in Ids \cup {NoSession}
    BY DEF FirstStep, Requests
  <2> QED
    BY <1>1, <1>2, <2>1, <2>2, <2>3 DEF TypesInv, TypeOK, Chosen, Ended, OnFiles, Removing
\* A step of p that keeps the session, the run and the logs.
<1>5. ASSUME NEW p \in Processes, NEW there \in Places, pc' = [pc EXCEPT ![p] = there],
             UNCHANGED <<command, session, daemon, runs, patient>>,
             log' \in [Ids -> SUBSET Processes], \A s \in Ids : log'[s] # {} => s \in memory',
             memory' \subseteq Ids, traces' \subseteq Ids,
             current' \in Ids \cup {NoSession},
             there \in Chosen => session[p] \in Ids, run[p] # "none" => there \in Ended
      PROVE  TypesInv'
  BY <1>1, <1>2, <1>5 DEF TypesInv, TypeOK, Places
<1>6. ASSUME NEW p \in Processes, pc[p] \in Chosen  PROVE session[p] \in Ids
  BY <1>2, <1>6
<1>7. \A p \in Processes : pc[p] \notin Ended \cup {"stream"} => run[p] = "none"
  BY <1>2
<1>8. ASSUME NEW p \in Processes, Ensure(p)  PROVE TypesInv'
  <2>1. pc[p] = "ensure" /\ run[p] = "none"
    BY <1>7, <1>8 DEF Ensure, Ended
  <2>2. session' = [session EXCEPT ![p] = current]
        /\ pc' = [pc EXCEPT ![p] = IF current = NoSession THEN "choose" ELSE "remake"]
        /\ UNCHANGED <<files, command, daemon, runs, patient>>
    BY <1>8 DEF Ensure
  <2> QED
    BY <1>1, <1>2, <2>1, <2>2 DEF TypesInv, TypeOK, Chosen, Ended, OnFiles, Removing
<1>9. ASSUME NEW p \in Processes, Choose(p)  PROVE TypesInv'
  <2>1. PICK s \in Ids : session' = [session EXCEPT ![p] = s]
    BY <1>9 DEF Choose
  <2>2. pc[p] = "choose" /\ run[p] = "none" /\ pc' = [pc EXCEPT ![p] = "mkdirs"]
        /\ UNCHANGED <<files, command, daemon, runs, patient>>
    BY <1>7, <1>9 DEF Choose, Ended
  <2> QED
    BY <1>1, <1>2, <2>1, <2>2 DEF TypesInv, TypeOK, Chosen, Ended, OnFiles, Removing
<1>10. ASSUME NEW p \in Processes, Remake(p) \/ MakeDirs(p)  PROVE TypesInv'
  <2>1. session[p] \in Ids /\ run[p] = "none"
    BY <1>6, <1>7, <1>10 DEF Remake, MakeDirs, Chosen, Ended
  <2>2. memory' = memory \cup {session[p]} /\ traces' = traces \cup {session[p]}
        /\ UNCHANGED <<current, log, command, session, daemon, runs, patient>>
    BY <1>10 DEF Remake, MakeDirs, MakeDirsOf
  <2>3. PICK there \in {"ping", "truncate"} : pc' = [pc EXCEPT ![p] = there]
    BY <1>10 DEF Remake, MakeDirs
  <2>4. \A s \in Ids : log'[s] # {} => s \in memory'
    BY <1>1, <2>2
  <2> QED
    BY <1>1, <1>5, <2>1, <2>2, <2>3, <2>4 DEF Places, OnFiles, Removing
<1>11. ASSUME NEW p \in Processes, Truncate(p) \/ WriteCurrent(p)  PROVE TypesInv'
  <2>1. session[p] \in Ids /\ run[p] = "none"
    BY <1>6, <1>7, <1>11 DEF Truncate, WriteCurrent, Chosen, Ended
  <2>2. PICK there \in {"write", "ping", "done"} : pc' = [pc EXCEPT ![p] = there]
    BY <1>11 DEF Truncate, WriteCurrent
  <2>3. current' \in Ids \cup {NoSession}
        /\ UNCHANGED <<memory, traces, log, command, session, daemon, runs, patient>>
    BY <1>11, <2>1 DEF Truncate, WriteCurrent
  <2> QED
    BY <1>1, <1>5, <2>1, <2>2, <2>3 DEF Places, OnFiles, Removing, Ended
<1>12. ASSUME NEW p \in Processes, Exists(p) \/ Compare(p) \/ RemoveTraces(p)  PROVE TypesInv'
  <2>1. session[p] \in Ids /\ run[p] = "none"
    BY <1>6, <1>7, <1>12 DEF Exists, Compare, RemoveTraces, Chosen, Ended
  <2>2. PICK there \in {"refused", "failed", "mkdirs", "compare", "rmmemory", "done"} :
          pc' = [pc EXCEPT ![p] = there]
    BY <1>12 DEF Exists, Compare, RemoveTraces
  <2>3. traces' \subseteq Ids /\ UNCHANGED <<memory, current, log, command, session, daemon, runs, patient>>
    BY <1>1, <1>12 DEF Exists, Compare, RemoveTraces
  <2> QED
    BY <1>1, <1>5, <2>1, <2>2, <2>3 DEF Places, OnFiles, Removing, Ended
<1>13. ASSUME NEW p \in Processes, EmptyMemory(p) \/ RemoveMemory(p)  PROVE TypesInv'
  <2>1. session[p] \in Ids /\ run[p] = "none"
    BY <1>6, <1>7, <1>13 DEF EmptyMemory, RemoveMemory, Chosen, Ended
  <2>2. UNCHANGED <<traces, current, command, session, daemon, runs, patient>>
    BY <1>13 DEF EmptyMemory, RemoveMemory
  <2>3. PICK there \in {"rmdir", "rmtraces", "failed"} : pc' = [pc EXCEPT ![p] = there]
    BY <1>13 DEF EmptyMemory, RemoveMemory
  <2>4. /\ log' \in [Ids -> SUBSET Processes] /\ memory' \subseteq Ids
        /\ \A s \in Ids : log'[s] # {} => s \in memory'
    <3>1. CASE EmptyMemory(p)
      BY <1>1, <2>1, <3>1 DEF EmptyMemory
    <3>2. CASE RemoveMemory(p)
      BY <1>1, <2>1, <3>2 DEF RemoveMemory
    <3> QED
      BY <1>13, <3>1, <3>2
  <2> QED
    BY <1>1, <1>5, <2>1, <2>2, <2>3, <2>4 DEF Places, OnFiles, Removing, Ended
<1>14. ASSUME NEW p \in Processes, Ping(p)  PROVE TypesInv'
  <2>1. session[p] \in Ids /\ run[p] = "none"
    BY <1>6, <1>7, <1>14 DEF Ping, Chosen, Ended
  <2>2. daemon' \in [Daemons -> {"none", "starting", "listening", "closing", "exited"}]
    BY <1>1, <1>3, <1>14 DEF Ping
  <2>3. PICK there \in {"request", "wait"} : pc' = [pc EXCEPT ![p] = there]
    BY <1>14 DEF Ping
  <2>4. UNCHANGED <<files, command, session, runs, patient>>
    BY <1>14 DEF Ping
  <2> QED
    BY <1>1, <1>2, <2>1, <2>2, <2>3, <2>4 DEF TypesInv, TypeOK, Chosen, Ended, OnFiles, Removing
<1>15. ASSUME NEW p \in Processes, Wait(p) \/ Stream(p) \/ Kill(p)  PROVE TypesInv'
  <2>1. PICK there \in {"nodaemon", "request", "done", "failed", "killed", "cut"} :
          pc' = [pc EXCEPT ![p] = there] /\ (there = "request" => pc[p] = "wait")
    BY <1>15 DEF Wait, Stream, Kill
  <2>2. UNCHANGED <<files, command, session, daemon, runs, patient>>
    BY <1>15 DEF Wait, Stream, Kill
  <2>3. there \in Chosen => session[p] \in Ids
    BY <1>6, <2>1 DEF Chosen
  <2>4. run[p] # "none" => there \in Ended
    BY <1>7, <2>1 DEF Ended
  <2> QED
    BY <1>1, <1>5, <2>1, <2>2, <2>3, <2>4 DEF Places, Ended
<1>16. ASSUME NEW p \in Processes, Request(p)  PROVE TypesInv'
  <2>1. session[p] \in Ids /\ run[p] = "none"
    BY <1>6, <1>7, <1>16 DEF Request, Chosen, Ended
  <2>2. UNCHANGED <<current, log, command, session, daemon, remembered, earlier, patient>>
    BY <1>16 DEF Request
  <2>3. CASE pc' = [pc EXCEPT ![p] = "failed"] /\ UNCHANGED <<memory, traces, run, host>>
    BY <1>1, <1>5, <2>1, <2>2, <2>3 DEF Places, Ended, Chosen
  <2>4. CASE \E d \in Listening :
               /\ MakeDirsOf(session[p])
               /\ run' = [run EXCEPT ![p] = "accepted"]
               /\ host' = [host EXCEPT ![p] = d]
               /\ pc' = [pc EXCEPT ![p] = "stream"]
    <3>1. PICK d \in Daemons :
               /\ memory' = memory \cup {session[p]} /\ traces' = traces \cup {session[p]}
               /\ run' = [run EXCEPT ![p] = "accepted"]
               /\ host' = [host EXCEPT ![p] = d]
               /\ pc' = [pc EXCEPT ![p] = "stream"]
      BY <2>4 DEF MakeDirsOf, Listening
    <3>3. run' \in [Processes -> {"none", "accepted", "executing", "over"}]
          /\ host' \in [Processes -> Daemons]
      BY <1>1, <3>1
    <3>4. pc' \in [Processes -> Places]
      BY <1>1, <3>1 DEF Places
    <3>5. \A q \in Processes : run'[q] # "none" =>
            session'[q] \in Ids /\ pc'[q] \in Ended \cup {"stream"}
      BY <1>1, <1>2, <2>1, <2>2, <3>1
    <3>6. \A q \in Processes : pc'[q] \in Chosen => session'[q] \in Ids
      BY <1>1, <1>2, <2>1, <2>2, <3>1
    <3>7. memory' \subseteq Ids /\ traces' \subseteq Ids /\ \A s \in Ids : log'[s] # {} => s \in memory'
      BY <1>1, <2>1, <2>2, <3>1
    <3> QED
      BY <1>1, <2>2, <3>3, <3>4, <3>5, <3>6, <3>7 DEF TypesInv, TypeOK, Places
  <2> QED
    BY <1>16, <2>3, <2>4 DEF Request
<1>17. ASSUME NEW p \in Processes, ShutDown(p)  PROVE TypesInv'
  <2>1. pc' = [pc EXCEPT ![p] = "done"] /\ run[p] = "none"
        /\ UNCHANGED <<files, command, session, runs, patient>>
    BY <1>7, <1>17 DEF ShutDown, Ended
  <2>2. daemon' \in [Daemons -> {"none", "starting", "listening", "closing", "exited"}]
    BY <1>1, <1>17 DEF ShutDown
  <2> QED
    BY <1>1, <1>2, <2>1, <2>2 DEF TypesInv, TypeOK, Chosen, Ended
<1>18. ASSUME NEW d \in Daemons, Bind(d) \/ ExitDaemon(d)  PROVE TypesInv'
  <2>1. daemon' \in [Daemons -> {"none", "starting", "listening", "closing", "exited"}]
    BY <1>1, <1>18 DEF Bind, ExitDaemon
  <2>2. UNCHANGED <<files, cli, runs, patient>>
    BY <1>18 DEF Bind, ExitDaemon
  <2> QED
    BY <1>1, <1>2, <2>1, <2>2 DEF TypesInv, TypeOK, Places
\* A step of a run.
<1>19. ASSUME NEW p \in Processes, StartRun(p) \/ Remember(p) \/ RunFails(p)  PROVE TypesInv'
  <2>1. session[p] \in Ids /\ run[p] # "none"
    BY <1>1, <1>19 DEF StartRun, Remember, RunFails
  <2>2. UNCHANGED <<current, cli, daemon, host, patient>>
    BY <1>19 DEF StartRun, Remember, RunFails
  <2>3. PICK there \in {"executing", "over"} : run' = [run EXCEPT ![p] = there]
    BY <1>19 DEF StartRun, Remember, RunFails
  <2>4. /\ memory \subseteq memory' /\ memory' \subseteq Ids /\ traces' \subseteq Ids
        /\ remembered' \subseteq Processes /\ earlier' \in [Processes -> SUBSET Processes]
    BY <1>1, <1>19, <2>1 DEF StartRun, Remember, RunFails, MakeDirsOf
  <2>5. log' \in [Ids -> SUBSET Processes] /\ \A s \in Ids : log'[s] # {} => s \in memory'
    BY <1>1, <1>19, <2>1, <2>4 DEF StartRun, Remember, RunFails
  <2> QED
    BY <1>1, <1>2, <2>1, <2>2, <2>3, <2>4, <2>5 DEF TypesInv, TypeOK, Places
<1>20. CASE UNCHANGED vars
  BY <1>1, <1>2, <1>20 DEF vars, TypesInv, TypeOK, Places
<1> QED
  BY <1>4, <1>8, <1>9, <1>10, <1>11, <1>12, <1>13, <1>14, <1>15, <1>16, <1>17, <1>18, <1>19, <1>20
     DEF Next, SessionStep, DaemonStep, RunStep

LEMMA SpecTypes == Spec => []TypesInv
<1>1. TypesInv /\ [Next]_vars => TypesInv'
  BY TypesNext
<1> QED
  BY TypesInit, <1>1, PTL DEF Spec

\* A run is accepted only for a session that was chosen, by a daemon that is
\* one, and what a session remembers is in a directory that is there, whatever
\* is deleted, killed and restarted meanwhile.
THEOREM Types == Spec => []TypeOK
<1>1. TypesInv => TypeOK
  BY DEF TypesInv
<1> QED
  BY SpecTypes, <1>1, PTL

-------------------------------------------------------------------------------
(* The current session.                                                    *)

HasData(s) == s \in memory /\ s \in traces

\* A patient user has one session command in progress.  It names a session
\* only after it made its directories, and it removes the directories of a
\* session that is not the current one.
DataInv ==
  patient =>
    /\ \A p, q \in Processes : pc[p] \in OnFiles /\ pc[q] \in OnFiles => p = q
    /\ current # NoSession => HasData(current)
    /\ \A p \in Processes : pc[p] \in {"truncate", "write"} => HasData(session[p])
    /\ \A p \in Processes : pc[p] \in Removing => current # session[p]

LEMMA DataInit == Init => DataInv
BY DEF Init, DataInv, HasData, OnFiles, Removing

LEMMA DataNext == ASSUME TypesInv, DataInv, [Next]_vars  PROVE DataInv'
<1> USE CommandsAssumption DEF files, cli, runs, Goto
<1>1. pc \in [Processes -> Places] /\ session \in [Processes -> Ids \cup {NoSession}] /\ patient \in BOOLEAN
  BY DEF TypesInv, TypeOK, Places
<1>2. \A p \in Processes : pc[p] \in Chosen => session[p] \in Ids
  BY DEF TypesInv
<1>3. patient' = patient
  BY DEF Next, SessionStep, DaemonStep, RunStep, Begin, Ensure, Remake, Choose, MakeDirs, Truncate,
         WriteCurrent, Exists, Compare, EmptyMemory, RemoveMemory, RemoveTraces, Ping, Wait, Request, Stream,
         ShutDown, StartRun, Remember, RunFails, Kill, Bind, ExitDaemon, vars
<1> SUFFICES ASSUME patient  PROVE DataInv'
  BY <1>3 DEF DataInv
<1>4. /\ \A p, q \in Processes : pc[p] \in OnFiles /\ pc[q] \in OnFiles => p = q
      /\ current # NoSession => HasData(current)
      /\ \A p \in Processes : pc[p] \in {"truncate", "write"} => HasData(session[p])
      /\ \A p \in Processes : pc[p] \in Removing => current # session[p]
  BY DEF DataInv
\* A step of p that keeps every directory, the current session and the chosen
\* ones.
<1>5. ASSUME NEW p \in Processes, NEW there \in Places, pc' = [pc EXCEPT ![p] = there],
             UNCHANGED <<current, session>>, memory \subseteq memory', traces \subseteq traces',
             there \in OnFiles => pc[p] \in OnFiles,
             there \in {"truncate", "write"} => HasData(session[p])',
             there \in Removing => current # session[p]
      PROVE  DataInv'
  BY <1>1, <1>3, <1>4, <1>5 DEF DataInv, HasData
<1>6. ASSUME NEW p \in Processes, Begin(p)  PROVE DataInv'
  <2>1. PICK c \in Requests :
          /\ c.kind # "shutdown" => \A q \in Processes : pc[q] \notin OnFiles
          /\ session' = [session EXCEPT ![p] = c.on] /\ pc' = [pc EXCEPT ![p] = FirstStep(c.kind)]
    BY <1>6 DEF Begin
  <2>2. FirstStep(c.kind) \in {"choose", "ensure", "exists", "shutdown"}
        /\ (FirstStep(c.kind) # "shutdown" => \A q \in Processes : pc[q] \notin OnFiles)
    BY <2>1 DEF FirstStep
  <2>3. UNCHANGED files
    BY <1>6 DEF Begin
  <2> QED
    BY <1>1, <1>4, <2>1, <2>2, <2>3 DEF DataInv, HasData, OnFiles, Removing
<1>7. ASSUME NEW p \in Processes, Ensure(p) \/ Choose(p)  PROVE DataInv'
  <2>1. pc[p] \in OnFiles /\ UNCHANGED files
    BY <1>7 DEF Ensure, Choose, OnFiles, Removing
  <2>2. PICK there \in {"choose", "remake", "mkdirs"} :
          pc' = [pc EXCEPT ![p] = there] /\ \E s : session' = [session EXCEPT ![p] = s]
    BY <1>7 DEF Ensure, Choose
  <2> QED
    BY <1>1, <1>4, <2>1, <2>2 DEF DataInv, HasData, OnFiles, Removing
<1>8. ASSUME NEW p \in Processes, Remake(p) \/ MakeDirs(p)  PROVE DataInv'
  <2>1. pc[p] \in OnFiles /\ UNCHANGED <<current, session>>
        /\ memory' = memory \cup {session[p]} /\ traces' = traces \cup {session[p]}
    BY <1>8 DEF Remake, MakeDirs, MakeDirsOf, OnFiles, Removing
  <2>2. PICK there \in {"ping", "truncate"} : pc' = [pc EXCEPT ![p] = there]
    BY <1>8 DEF Remake, MakeDirs
  <2>3. HasData(session[p])'
    BY <2>1 DEF HasData
  <2> QED
    BY <1>5, <2>1, <2>2, <2>3 DEF Places, OnFiles, Removing
<1>9. ASSUME NEW p \in Processes, Truncate(p)  PROVE DataInv'
  <2>1. pc[p] = "truncate" /\ pc' = [pc EXCEPT ![p] = "write"] /\ current' = NoSession
        /\ UNCHANGED <<memory, traces, session>>
    BY <1>9 DEF Truncate
  <2> QED
    BY <1>1, <1>4, <2>1 DEF DataInv, HasData, OnFiles, Removing
<1>10. ASSUME NEW p \in Processes, WriteCurrent(p)  PROVE DataInv'
  <2>1. pc[p] = "write" /\ current' = session[p] /\ UNCHANGED <<memory, traces, session>>
    BY <1>10 DEF WriteCurrent
  <2>2. PICK there \in {"ping", "done"} : pc' = [pc EXCEPT ![p] = there]
    BY <1>10 DEF WriteCurrent
  <2>3. \A q \in Processes : pc'[q] \in OnFiles => FALSE
    BY <1>1, <1>4, <2>1, <2>2 DEF OnFiles, Removing
  <2>4. HasData(session[p])
    BY <1>4, <2>1
  <2> QED
    BY <2>1, <2>3, <2>4 DEF DataInv, HasData, OnFiles, Removing
<1>11. ASSUME NEW p \in Processes, Exists(p) \/ Compare(p)  PROVE DataInv'
  <2>1. pc[p] \in OnFiles /\ UNCHANGED <<memory, traces, current, session>>
    BY <1>11 DEF Exists, Compare, OnFiles, Removing
  <2>2. PICK there \in {"refused", "mkdirs", "compare", "rmmemory"} :
          pc' = [pc EXCEPT ![p] = there] /\ (there = "rmmemory" => current # session[p])
    BY <1>11 DEF Exists, Compare
  <2> QED
    BY <1>5, <2>1, <2>2 DEF Places, OnFiles, Removing, Ended
<1>12. ASSUME NEW p \in Processes, EmptyMemory(p) \/ RemoveMemory(p) \/ RemoveTraces(p)
       PROVE  DataInv'
  <2>1. pc[p] \in Removing /\ UNCHANGED <<current, session>>
        /\ memory \ {session[p]} \subseteq memory' /\ traces \ {session[p]} \subseteq traces'
    BY <1>12 DEF EmptyMemory, RemoveMemory, RemoveTraces, Removing
  <2>2. PICK there \in {"rmdir", "rmtraces", "failed", "done"} : pc' = [pc EXCEPT ![p] = there]
    BY <1>12 DEF EmptyMemory, RemoveMemory, RemoveTraces
  <2>3. current # session[p] /\ (current # NoSession => HasData(current)')
    BY <1>4, <2>1 DEF HasData
  <2>4. \A q \in Processes : pc'[q] \in OnFiles => q = p /\ pc'[q] \in Removing
    BY <1>1, <1>4, <2>1, <2>2 DEF OnFiles, Removing
  <2> QED
    BY <2>1, <2>3, <2>4 DEF DataInv, HasData, OnFiles, Removing
<1>13. ASSUME NEW p \in Processes,
              Ping(p) \/ Wait(p) \/ Request(p) \/ Stream(p) \/ ShutDown(p) \/ Kill(p)
       PROVE  DataInv'
  <2>1. UNCHANGED <<current, session>> /\ memory \subseteq memory' /\ traces \subseteq traces'
    BY <1>13 DEF Ping, Wait, Request, Stream, ShutDown, Kill, MakeDirsOf
  <2>2. PICK there \in Ended \cup {"request", "wait", "stream"} : pc' = [pc EXCEPT ![p] = there]
    BY <1>13 DEF Ping, Wait, Request, Stream, ShutDown, Kill, Ended
  <2> QED
    BY <1>5, <2>1, <2>2 DEF Places, OnFiles, Removing, Ended
<1>14. ASSUME UNCHANGED <<current, pc, session>>, memory \subseteq memory', traces \subseteq traces'
       PROVE  DataInv'
  BY <1>3, <1>4, <1>14 DEF DataInv, HasData
<1>15. ASSUME NEW p \in Processes, RunStep(p)  PROVE DataInv'
  BY <1>14, <1>15 DEF RunStep, StartRun, Remember, RunFails, MakeDirsOf
<1>16. ASSUME NEW d \in Daemons, Bind(d) \/ ExitDaemon(d)  PROVE DataInv'
  BY <1>14, <1>16 DEF Bind, ExitDaemon
<1>17. CASE UNCHANGED vars
  BY <1>14, <1>17 DEF vars
<1> QED
  BY <1>6, <1>7, <1>8, <1>9, <1>10, <1>11, <1>12, <1>13, <1>15, <1>16, <1>17
     DEF Next, SessionStep, DaemonStep

\* The current session has both its directories, wherever a session command
\* is killed and whatever the runs do, when the user starts one at a time.
THEOREM CurrentIsWhole == Spec => []CurrentHasData
<1>1. TypesInv /\ DataInv /\ [Next]_vars => DataInv'
  BY DataNext
<1>2. DataInv => CurrentHasData
  BY DEF DataInv, HasData, CurrentHasData
<1> QED
  BY SpecTypes, DataInit, <1>1, <1>2, PTL DEF Spec

-------------------------------------------------------------------------------
(* What a run remembered.                                                  *)

Deletion(s) == [kind |-> "del", on |-> s]

\* Where a deletion has begun to remove.
Lossy == {"rmdir", "rmtraces", "done", "failed", "cut"}

\* A process that removes directories, or that may come to it, executes the
\* deletion of the session it chose; a remembered run is over, so that its
\* process chooses no other session; the commands that were over before it
\* remembered stay so; and its record is there, or a deletion of that session
\* that was not over has removed it.
LostInv ==
  /\ \A q \in Processes : pc[q] \in Removing \cup {"compare"} =>
                            command[q] = Deletion(session[q])
  /\ \A q \in Processes : pc[q] = "exists" =>
                            command[q].kind = "switch" \/ command[q] = Deletion(session[q])
  /\ \A p \in remembered : run[p] = "over"
  /\ \A p \in remembered : \A q \in earlier[p] : pc[q] \in Ended
  /\ LostOnlyByDelete

LEMMA LostInit == Init => LostInv
BY DEF Init, LostInv, LostOnlyByDelete, Removing

LEMMA LostNext ==
  ASSUME TypesInv, LostInv, [Next]_vars  PROVE LostInv'
<1> USE CommandsAssumption DEF files, cli, runs, Goto
<1>1. /\ pc \in [Processes -> Places] /\ session \in [Processes -> Ids \cup {NoSession}]
      /\ command \in [Processes -> Requests \cup {NoCommand}]
      /\ run \in [Processes -> {"none", "accepted", "executing", "over"}]
      /\ log \in [Ids -> SUBSET Processes] /\ remembered \subseteq Processes
      /\ earlier \in [Processes -> SUBSET Processes]
      /\ \A p \in Processes : run[p] # "none" => session[p] \in Ids
  BY DEF TypesInv, TypeOK, Places
<1>2. /\ \A p \in Processes : pc[p] \in Chosen => session[p] \in Ids
      /\ \A p \in Processes : run[p] # "none" => pc[p] \in Ended \cup {"stream"}
  BY DEF TypesInv
<1>3. /\ \A q \in Processes : pc[q] \in Removing \cup {"compare"} =>
                                command[q] = Deletion(session[q])
      /\ \A q \in Processes : pc[q] = "exists" =>
                                command[q].kind = "switch" \/ command[q] = Deletion(session[q])
      /\ \A p \in remembered : run[p] = "over"
      /\ \A p \in remembered : \A q \in earlier[p] : pc[q] \in Ended
  BY DEF LostInv
<1>4. \A p \in remembered : p \notin log[session[p]] =>
        \E q \in Processes \ earlier[p] : command[q] = Deletion(session[p]) /\ pc[q] \in Lossy
  BY DEF LostInv, LostOnlyByDelete, Deletion, Lossy
\* A step of q that keeps the records, and its command unless it is new.
<1>5. ASSUME NEW q \in Processes, NEW there \in Places, NEW c, NEW s,
             pc' = [pc EXCEPT ![q] = there],
             command' = [command EXCEPT ![q] = c], session' = [session EXCEPT ![q] = s],
             UNCHANGED <<log, remembered, earlier>>,
             pc[q] \in Ended => there \in Ended,
             \A p \in remembered : run'[p] = run[p],
             run[q] # "none" => s = session[q],
             pc[q] \in Lossy =>
               c = command[q] /\ there \in Lossy,
             there \in Removing \cup {"compare"} => c = Deletion(s),
             there = "exists" => c.kind = "switch" \/ c = Deletion(s)
      PROVE  LostInv'
  <2>1. \A p \in remembered : session'[p] = session[p] /\ run'[p] = "over"
    BY <1>1, <1>3, <1>5
  <2>2. \A p \in Processes : pc[p] \in Lossy =>
          command'[p] = command[p] /\ pc'[p] \in Lossy
    BY <1>1, <1>5
  <2>3. \A p \in remembered : p \notin log'[session'[p]] =>
          \E r \in Processes \ earlier'[p] :
            command'[r] = Deletion(session'[p]) /\ pc'[r] \in Lossy
    BY <1>4, <1>5, <2>1, <2>2
  <2>4. \A p \in Processes : pc'[p] \in Removing \cup {"compare"} =>
                                command'[p] = Deletion(session'[p])
    BY <1>1, <1>3, <1>5
  <2>5. \A p \in Processes : pc'[p] = "exists" =>
          command'[p].kind = "switch" \/ command'[p] = Deletion(session'[p])
    BY <1>1, <1>3, <1>5
  <2>6. \A p \in remembered : \A r \in earlier'[p] : pc'[r] \in Ended
    BY <1>1, <1>3, <1>5
  <2> QED
    BY <1>5, <2>1, <2>3, <2>4, <2>5, <2>6 DEF LostInv, LostOnlyByDelete, Deletion, Lossy
\* A step of q that keeps its command and its session, too.
<1>6. ASSUME NEW q \in Processes, NEW there \in Places, pc' = [pc EXCEPT ![q] = there],
             UNCHANGED <<command, session, log, remembered, earlier>>,
             pc[q] \in Ended => there \in Ended,
             \A p \in remembered : run'[p] = run[p],
             pc[q] \in Lossy => there \in Lossy,
             there \in Removing \cup {"compare"} => command[q] = Deletion(session[q]),
             there # "exists"
      PROVE  LostInv'
  <2>1. command' = [command EXCEPT ![q] = command[q]] /\ session' = [session EXCEPT ![q] = session[q]]
    BY <1>1, <1>6
  <2> QED
    BY <1>5, <1>6, <2>1
<1>7. \A p \in Processes : pc[p] \notin Ended \cup {"stream"} => run[p] = "none"
  BY <1>2
<1>8. ASSUME NEW q \in Processes, Begin(q)  PROVE LostInv'
  <2>1. PICK c \in Requests :
          /\ command' = [command EXCEPT ![q] = c] /\ session' = [session EXCEPT ![q] = c.on]
          /\ pc' = [pc EXCEPT ![q] = FirstStep(c.kind)]
    BY <1>8 DEF Begin
  <2>2. pc[q] = "ready" /\ run[q] = "none" /\ UNCHANGED <<log, run, remembered, earlier>>
    BY <1>7, <1>8 DEF Begin, Ended
  <2>3. FirstStep(c.kind) \in {"choose", "ensure", "shutdown", "exists"}
        /\ (FirstStep(c.kind) = "exists" => c.kind = "switch" \/ c = Deletion(c.on))
    BY DEF FirstStep, Requests, Deletion
  <2> QED
    BY <1>5, <2>1, <2>2, <2>3 DEF Places, OnFiles, Removing, Ended, Lossy
<1>9. ASSUME NEW q \in Processes, Ensure(q) \/ Choose(q)  PROVE LostInv'
  <2>1. pc[q] \in {"ensure", "choose"} /\ run[q] = "none"
        /\ UNCHANGED <<command, log, run, remembered, earlier>>
    BY <1>7, <1>9 DEF Ensure, Choose, Ended
  <2>2. PICK there \in {"choose", "remake", "mkdirs"} :
          pc' = [pc EXCEPT ![q] = there] /\ \E s : session' = [session EXCEPT ![q] = s]
    BY <1>9 DEF Ensure, Choose
  <2>3. command' = [command EXCEPT ![q] = command[q]]
    BY <1>1, <2>1
  <2> QED
    BY <1>5, <2>1, <2>2, <2>3 DEF Places, OnFiles, Removing, Ended, Lossy
<1>10. ASSUME NEW q \in Processes, Remake(q) \/ MakeDirs(q) \/ Truncate(q) \/ WriteCurrent(q)
       PROVE  LostInv'
  <2>1. pc[q] \in {"remake", "mkdirs", "truncate", "write"}
        /\ UNCHANGED <<command, session, log, run, remembered, earlier>>
    BY <1>10 DEF Remake, MakeDirs, Truncate, WriteCurrent
  <2>2. PICK there \in {"ping", "truncate", "write", "done"} : pc' = [pc EXCEPT ![q] = there]
    BY <1>10 DEF Remake, MakeDirs, Truncate, WriteCurrent
  <2> QED
    BY <1>6, <2>1, <2>2 DEF Places, OnFiles, Removing, Ended, Lossy
<1>11. ASSUME NEW q \in Processes, Exists(q) \/ Compare(q)  PROVE LostInv'
  <2>1. pc[q] \in {"exists", "compare"} /\ UNCHANGED <<command, session, log, run, remembered, earlier>>
    BY <1>11 DEF Exists, Compare
  <2>2. PICK there \in {"refused", "mkdirs", "compare", "rmmemory"} : pc' = [pc EXCEPT ![q] = there]
    BY <1>11 DEF Exists, Compare
  <2>3. there \in {"compare", "rmmemory"} => command[q] = Deletion(session[q])
    <3>1. CASE Exists(q)
      BY <1>1, <1>3, <2>2, <3>1 DEF Exists
    <3>2. CASE Compare(q)
      BY <1>3, <3>2 DEF Compare
    <3> QED
      BY <1>11, <3>1, <3>2
  <2> QED
    BY <1>6, <2>1, <2>2, <2>3 DEF Places, OnFiles, Removing, Ended, Lossy
\* The records of a session are lost to the process that deletes it.
<1>12. ASSUME NEW q \in Processes, EmptyMemory(q)  PROVE LostInv'
  <2>1. /\ pc[q] = "rmmemory"
        /\ UNCHANGED <<command, session, run, remembered, earlier>>
        /\ log' \in {log, [log EXCEPT ![session[q]] = {}]}
    BY <1>12 DEF EmptyMemory
  <2>2. PICK there \in {"rmdir", "rmtraces", "failed"} : pc' = [pc EXCEPT ![q] = there]
    BY <1>12 DEF EmptyMemory
  <2>3. command[q] = Deletion(session[q]) /\ \A p \in remembered : q \notin earlier[p]
    BY <1>3, <2>1 DEF Removing, Ended
  <2>4. ASSUME NEW p \in remembered, p \notin log'[session'[p]]
        PROVE  \E r \in Processes \ earlier'[p] :
                 command'[r] = Deletion(session'[p]) /\ pc'[r] \in Lossy
    <3>1. CASE session[p] = session[q]
      BY <1>1, <2>1, <2>2, <2>3, <3>1 DEF Lossy
    <3>2. CASE session[p] # session[q]
      <4>1. session[p] \in Ids
        BY <1>1, <1>3
      <4>2. p \notin log[session[p]]
        BY <1>1, <2>1, <2>4, <3>2, <4>1
      <4>3. PICK r \in Processes \ earlier[p] : command[r] = Deletion(session[p]) /\ pc[r] \in Lossy
        BY <1>4, <4>2
      <4>4. r # q
        BY <2>1, <4>3 DEF Lossy
      <4> QED
        BY <1>1, <2>1, <2>2, <4>3, <4>4
    <3> QED
      BY <3>1, <3>2
  <2>5. \A p \in remembered : \A r \in earlier'[p] : pc'[r] \in Ended
    BY <1>1, <1>3, <2>1, <2>2, <2>3
  <2>6. \A r \in Processes : /\ pc'[r] \in Removing \cup {"compare"} => command'[r] = Deletion(session'[r])
                             /\ pc'[r] = "exists" => pc[r] = "exists"
    BY <1>1, <1>3, <2>1, <2>2, <2>3 DEF Removing
  <2> QED
    BY <1>3, <2>1, <2>4, <2>5, <2>6 DEF LostInv, LostOnlyByDelete, Deletion, Lossy
<1>13. ASSUME NEW q \in Processes, RemoveMemory(q) \/ RemoveTraces(q)  PROVE LostInv'
  <2>1. pc[q] \in Removing /\ UNCHANGED <<command, session, log, run, remembered, earlier>>
    BY <1>13 DEF RemoveMemory, RemoveTraces, Removing
  <2>2. PICK there \in {"rmtraces", "done", "failed"} : pc' = [pc EXCEPT ![q] = there]
    BY <1>13 DEF RemoveMemory, RemoveTraces
  <2> QED
    BY <1>3, <1>6, <2>1, <2>2 DEF Places, Ended, OnFiles, Removing, Lossy
<1>14. ASSUME NEW q \in Processes, Ping(q) \/ Wait(q) \/ Request(q) \/ Stream(q) \/ ShutDown(q)
       PROVE  LostInv'
  <2>1. pc[q] \in {"ping", "wait", "request", "stream", "shutdown"}
        /\ UNCHANGED <<command, session, log, remembered, earlier>>
    BY <1>14 DEF Ping, Wait, Request, Stream, ShutDown
  <2>2. PICK there \in Ended \cup {"request", "wait", "stream"} : pc' = [pc EXCEPT ![q] = there]
    BY <1>14 DEF Ping, Wait, Request, Stream, ShutDown, Ended
  <2>3. \A p \in remembered : run'[p] = run[p]
    <3>1. CASE Request(q)
      <4>1. run[q] = "none"
        BY <1>7, <3>1 DEF Request, Ended
      <4> QED
        BY <1>1, <1>3, <3>1, <4>1 DEF Request
    <3>2. CASE Ping(q) \/ Wait(q) \/ Stream(q) \/ ShutDown(q)
      BY <3>2 DEF Ping, Wait, Stream, ShutDown
    <3> QED
      BY <1>14, <3>1, <3>2
  <2> QED
    BY <1>6, <2>1, <2>2, <2>3 DEF Places, OnFiles, Removing, Ended, Lossy
<1>15. ASSUME NEW q \in Processes, Kill(q)  PROVE LostInv'
  <2>1. pc[q] \notin Ended /\ UNCHANGED <<command, session, log, run, remembered, earlier>>
    BY <1>15 DEF Kill
  <2>2. PICK there \in {"killed", "cut"} :
          pc' = [pc EXCEPT ![q] = there] /\ (pc[q] \in Removing => there = "cut")
    BY <1>15 DEF Kill
  <2> QED
    BY <1>6, <2>1, <2>2 DEF Places, Ended, Removing, Lossy
<1>16. ASSUME NEW p \in Processes, StartRun(p) \/ RunFails(p)  PROVE LostInv'
  <2>1. run[p] \in {"accepted", "executing"} /\ UNCHANGED <<log, pc, command, session, remembered, earlier>>
        /\ \A q \in Processes : q # p => run'[q] = run[q]
    BY <1>1, <1>16 DEF StartRun, RunFails
  <2> QED
    BY <1>1, <1>3, <1>4, <2>1 DEF LostInv, LostOnlyByDelete, Deletion, Lossy
<1>17. ASSUME NEW p \in Processes, Remember(p)  PROVE LostInv'
  <2>1. /\ run[p] = "executing" /\ run' = [run EXCEPT ![p] = "over"]
        /\ remembered' = remembered \cup {p}
        /\ log' = [log EXCEPT ![session[p]] = log[session[p]] \cup {p}]
        /\ earlier' = [earlier EXCEPT ![p] = {q \in Processes : pc[q] \in Ended}]
        /\ UNCHANGED <<pc, command, session>>
    BY <1>17 DEF Remember
  <2>2. session[p] \in Ids
    BY <1>1, <2>1
  <2>3. p \in log'[session[p]] /\ \A s \in Ids : log[s] \subseteq log'[s]
    BY <1>1, <2>1, <2>2
  <2>4. \A q \in remembered : session[q] \in Ids
    BY <1>1, <1>3
  <2>5. \A q \in remembered' : run'[q] = "over"
    BY <1>1, <1>3, <2>1
  <2>6. p \notin remembered /\ earlier'[p] = {q \in Processes : pc[q] \in Ended}
        /\ \A q \in remembered : earlier'[q] = earlier[q]
    BY <1>1, <1>3, <2>1
  <2>7. \A q \in remembered' : \A r \in earlier'[q] : pc'[r] \in Ended
    BY <1>3, <2>1, <2>6
  <2>8. \A q \in remembered' : q \notin log'[session'[q]] =>
          \E r \in Processes \ earlier'[q] : command'[r] = Deletion(session'[q]) /\ pc'[r] \in Lossy
    BY <1>4, <2>1, <2>3, <2>4, <2>6
  <2> QED
    BY <1>3, <2>1, <2>5, <2>7, <2>8 DEF LostInv, LostOnlyByDelete, Deletion, Lossy
<1>18. ASSUME UNCHANGED <<log, pc, command, session, run, remembered, earlier>>  PROVE LostInv'
  BY <1>3, <1>4, <1>18 DEF LostInv, LostOnlyByDelete, Deletion, Lossy
<1>19. ASSUME NEW d \in Daemons, Bind(d) \/ ExitDaemon(d)  PROVE LostInv'
  BY <1>18, <1>19 DEF Bind, ExitDaemon
<1>20. CASE UNCHANGED vars
  BY <1>18, <1>20 DEF vars
<1> QED
  BY <1>8, <1>9, <1>10, <1>11, <1>12, <1>13, <1>14, <1>15, <1>16, <1>17, <1>19, <1>20
     DEF Next, SessionStep, DaemonStep, RunStep

\* The record of a run is lost to a deletion of its session that was not over
\* when it was written and was not refused, whatever fails or is killed in it,
\* and to nothing else.
THEOREM RecordsOutliveFailures == Spec => []LostOnlyByDelete
<1>1. TypesInv /\ LostInv /\ [Next]_vars => LostInv'
  BY LostNext
<1>2. LostInv => LostOnlyByDelete
  BY DEF LostInv
<1> QED
  BY SpecTypes, LostInit, <1>1, <1>2, PTL DEF Spec

-------------------------------------------------------------------------------
(* Who gets a daemon.                                                      *)

\* Somebody else starts a daemon or shuts the daemons down.
Interference(p) ==
  \E q \in Processes \ {p} :
    daemon[q] # "none" \/ (command[q] # NoCommand /\ command[q].kind = "shutdown")

\* A process starts a daemon only in a run, and only when none is listening;
\* the one that was there before is never started again.  So a daemon that
\* had to close or to exit has been overtaken.
DaemonInv ==
  /\ daemon[Before] # "starting"
  /\ \A p \in Processes : daemon[p] # "none" => /\ daemon[Before] # "listening"
                                                /\ command[p].kind = "run" /\ pc[p] # "ready"
  /\ \A p \in Processes : daemon[p] \in {"closing", "exited"} => Interference(p)
  /\ \A p \in Processes : pc[p] = "nodaemon" => daemon[p] = "exited"
  /\ \A p \in Processes : pc[p] = "ready" => command[p] = NoCommand
  /\ \A p \in Processes : pc[p] = "shutdown" => command[p] # NoCommand /\ command[p].kind = "shutdown"
  /\ \A p \in Processes : pc[p] \in {"ensure", "remake", "ping"} => command[p].kind = "run"

LEMMA DaemonInit == Init => DaemonInv
BY CommandsAssumption DEF Init, DaemonInv, Daemons

LEMMA DaemonNext == ASSUME TypesInv, DaemonInv, [Next]_vars  PROVE DaemonInv'
<1> USE CommandsAssumption DEF files, cli, runs, Goto
<1>1. /\ pc \in [Processes -> Places] /\ command \in [Processes -> Requests \cup {NoCommand}]
      /\ daemon \in [Daemons -> {"none", "starting", "listening", "closing", "exited"}]
  BY DEF TypesInv, TypeOK, Places
<1>2. Daemons = Processes \cup {Before} /\ Before \in Daemons /\ Before \notin Processes
      /\ Processes \subseteq Daemons
  BY DEF Daemons
<1>3. /\ daemon[Before] # "starting"
      /\ \A p \in Processes : daemon[p] # "none" => /\ daemon[Before] # "listening"
                                                    /\ command[p].kind = "run" /\ pc[p] # "ready"
      /\ \A p \in Processes : daemon[p] \in {"closing", "exited"} => Interference(p)
      /\ \A p \in Processes : pc[p] = "nodaemon" => daemon[p] = "exited"
      /\ \A p \in Processes : pc[p] = "ready" => command[p] = NoCommand
      /\ \A p \in Processes : pc[p] = "shutdown" => command[p] # NoCommand /\ command[p].kind = "shutdown"
      /\ \A p \in Processes : pc[p] \in {"ensure", "remake", "ping"} => command[p].kind = "run"
  BY DEF DaemonInv
\* A step of p that keeps the commands and the daemons.
<1>4. ASSUME NEW p \in Processes, NEW there \in Places, pc' = [pc EXCEPT ![p] = there],
             UNCHANGED <<command, daemon>>, there \notin {"ready", "shutdown"},
             there = "nodaemon" => daemon[p] = "exited",
             there \in {"ensure", "remake", "ping"} => command[p].kind = "run"
      PROVE  DaemonInv'
  BY <1>1, <1>3, <1>4 DEF DaemonInv, Interference
<1>5. ASSUME NEW p \in Processes, Begin(p)  PROVE DaemonInv'
  <2>1. PICK c \in Requests :
          command' = [command EXCEPT ![p] = c] /\ pc' = [pc EXCEPT ![p] = FirstStep(c.kind)]
    BY <1>5 DEF Begin
  <2>2. pc[p] = "ready" /\ daemon' = daemon /\ daemon[p] = "none" /\ command[p] = NoCommand
    BY <1>3, <1>5 DEF Begin
  <2>3. FirstStep(c.kind) \in {"choose", "ensure", "shutdown", "exists"}
        /\ (FirstStep(c.kind) = "shutdown" <=> c.kind = "shutdown")
        /\ (FirstStep(c.kind) = "ensure" <=> c.kind = "run")
    BY DEF FirstStep, Requests
  <2>4. \A q \in Processes : Interference(q) => Interference(q)'
    <3> SUFFICES ASSUME NEW q \in Processes, NEW r \in Processes \ {q},
                        daemon[r] # "none" \/ (command[r] # NoCommand /\ command[r].kind = "shutdown")
                 PROVE  daemon'[r] # "none" \/ (command'[r] # NoCommand /\ command'[r].kind = "shutdown")
      BY DEF Interference
    <3> QED
      BY <1>1, <2>1, <2>2
  <2> QED
    BY <1>1, <1>2, <1>3, <2>1, <2>2, <2>3, <2>4, NoCommandAssumption DEF DaemonInv
<1>6. ASSUME NEW p \in Processes, Ensure(p) \/ Remake(p) \/ Choose(p) \/ MakeDirs(p) \/ Truncate(p)
                                  \/ WriteCurrent(p)
      PROVE  DaemonInv'
  <2>1. PICK there \in {"choose", "remake", "ping", "mkdirs", "truncate", "write", "done"} :
          /\ pc' = [pc EXCEPT ![p] = there]
          /\ there \in {"remake", "ping"} => pc[p] \in {"ensure", "remake"} \/ command[p].kind = "run"
    BY <1>6 DEF Ensure, Remake, Choose, MakeDirs, Truncate, WriteCurrent
  <2>2. UNCHANGED <<command, daemon>>
    BY <1>6 DEF Ensure, Remake, Choose, MakeDirs, Truncate, WriteCurrent
  <2> QED
    BY <1>3, <1>4, <2>1, <2>2 DEF Places, OnFiles, Removing, Ended
<1>7. ASSUME NEW p \in Processes, Exists(p) \/ Compare(p) \/ EmptyMemory(p) \/ RemoveMemory(p)
                                  \/ RemoveTraces(p)
      PROVE  DaemonInv'
  <2>1. PICK there \in {"refused", "failed", "mkdirs", "compare", "rmmemory", "rmdir", "rmtraces", "done"} :
          pc' = [pc EXCEPT ![p] = there]
    BY <1>7 DEF Exists, Compare, EmptyMemory, RemoveMemory, RemoveTraces
  <2>2. UNCHANGED <<command, daemon>>
    BY <1>7 DEF Exists, Compare, EmptyMemory, RemoveMemory, RemoveTraces
  <2> QED
    BY <1>4, <2>1, <2>2 DEF Places, OnFiles, Removing, Ended
<1>8. ASSUME NEW p \in Processes, Wait(p) \/ Request(p) \/ Stream(p) \/ Kill(p)  PROVE DaemonInv'
  <2>1. PICK there \in Ended \cup {"request", "stream"} :
          pc' = [pc EXCEPT ![p] = there] /\ (there = "nodaemon" => daemon[p] = "exited")
    BY <1>8 DEF Wait, Request, Stream, Kill, Ended
  <2>2. UNCHANGED <<command, daemon>>
    BY <1>8 DEF Wait, Request, Stream, Kill
  <2> QED
    BY <1>4, <2>1, <2>2 DEF Places, Ended
\* No daemon is listening when one is started.
<1>9. ASSUME NEW p \in Processes, Ping(p)  PROVE DaemonInv'
  <2>1. pc[p] = "ping" /\ command' = command
    BY <1>9 DEF Ping
  <2>2. CASE pc' = [pc EXCEPT ![p] = "request"] /\ daemon' = daemon
    <3>1. PICK there \in {"request"} : pc' = [pc EXCEPT ![p] = there]
      BY <2>2
    <3> QED
      BY <1>4, <2>1, <2>2, <3>1 DEF Places
  <2>3. CASE Listening = {} /\ pc' = [pc EXCEPT ![p] = "wait"]
             /\ daemon' = [daemon EXCEPT ![p] = "starting"]
    <3>1. daemon[Before] # "listening" /\ daemon'[Before] = daemon[Before]
      BY <1>1, <1>2, <2>3 DEF Listening
    <3>2. command[p].kind = "run"
      BY <1>3, <2>1
    <3>3. \A q \in Processes : Interference(q) => Interference(q)'
      BY <1>1, <1>2, <2>1, <2>3 DEF Interference
    <3>4. \A q \in Processes : /\ pc'[q] \in {"ready", "nodaemon", "shutdown"} => pc[q] = pc'[q] /\ q # p
                               /\ pc'[q] \in {"ensure", "remake", "ping"} => pc[q] = pc'[q]
                               /\ q # p => daemon'[q] = daemon[q] /\ pc'[q] = pc[q]
                               /\ daemon'[q] \in {"closing", "exited"} => daemon[q] = daemon'[q]
      BY <1>1, <1>2, <2>3
    <3>5. pc'[p] = "wait"
      BY <1>1, <2>3
    <3> QED
      BY <1>3, <2>1, <3>1, <3>2, <3>3, <3>4, <3>5 DEF DaemonInv
  <2> QED
    BY <1>9, <2>2, <2>3 DEF Ping
\* The daemons that close were started by others.
<1>10. ASSUME NEW p \in Processes, ShutDown(p)  PROVE DaemonInv'
  <2>1. /\ pc[p] = "shutdown" /\ pc' = [pc EXCEPT ![p] = "done"] /\ command' = command
        /\ daemon' = [d \in Daemons |-> IF d \in Listening THEN "closing" ELSE daemon[d]]
    BY <1>10 DEF ShutDown
  <2>2. command[p] # NoCommand /\ command[p].kind = "shutdown" /\ daemon[p] = "none"
    BY <1>3, <2>1
  <2>3. \A d \in Daemons : /\ daemon'[d] = daemon[d] \/ (daemon[d] = "listening" /\ daemon'[d] = "closing")
                           /\ daemon'[d] # "listening"
    BY <1>1, <2>1 DEF Listening
  <2>4. \A q \in Processes : Interference(q) => Interference(q)'
    BY <1>2, <2>1, <2>3 DEF Interference
  <2>5. \A q \in Processes : daemon[q] = "listening" => Interference(q)'
    BY <2>1, <2>2 DEF Interference
  <2>6. \A q \in Processes : daemon'[q] \in {"closing", "exited"} => Interference(q)'
    BY <1>2, <1>3, <2>3, <2>4, <2>5
  <2>7. \A q \in Processes : pc'[q] \in {"ready", "nodaemon", "shutdown", "ensure", "remake", "ping"} =>
                               pc'[q] = pc[q]
    BY <1>1, <2>1
  <2>8. \A q \in Processes : daemon'[q] # "none" => daemon[q] # "none"
    BY <1>2, <2>3
  <2>9. \A q \in Processes : daemon[q] # "none" => pc'[q] # "ready"
    BY <1>3, <2>7
  <2>10. daemon'[Before] \notin {"starting", "listening"}
    BY <1>2, <1>3, <2>3
  <2>11. \A q \in Processes : pc'[q] = "nodaemon" => daemon'[q] = "exited"
    BY <1>2, <1>3, <2>3, <2>7
  <2> QED
    BY <1>3, <2>1, <2>6, <2>7, <2>8, <2>9, <2>10, <2>11 DEF DaemonInv
\* A daemon that finds the port taken was overtaken by another started one.
<1>11. ASSUME NEW d \in Daemons, Bind(d)  PROVE DaemonInv'
  <2>1. /\ daemon[d] = "starting" /\ UNCHANGED <<pc, command>>
        /\ daemon' = [daemon EXCEPT ![d] = IF Listening = {} THEN "listening" ELSE "exited"]
    BY <1>11 DEF Bind
  <2>2. d \in Processes
    BY <1>2, <1>3, <2>1
  <2>3. daemon[Before] # "listening" /\ daemon'[Before] = daemon[Before]
    BY <1>1, <1>2, <1>3, <2>1, <2>2
  <2>4. \A q \in Processes : daemon'[q] # "none" <=> daemon[q] # "none"
    BY <1>1, <1>2, <2>1
  <2>5. \A q \in Processes : Interference(q) => Interference(q)'
    BY <2>1, <2>4 DEF Interference
  <2>6. daemon'[d] = "exited" => Interference(d)'
    <3> SUFFICES ASSUME daemon'[d] = "exited"  PROVE Interference(d)'
      OBVIOUS
    <3>1. PICK e \in Daemons : daemon[e] = "listening"
      BY <1>1, <1>2, <2>1 DEF Listening
    <3>2. e \in Processes \ {d} /\ daemon[e] # "none"
      BY <1>2, <2>1, <2>3, <3>1
    <3> QED
      BY <2>4, <3>2 DEF Interference
  <2>7. \A q \in Processes : /\ daemon'[q] \in {"closing", "exited"} => q = d \/ daemon'[q] = daemon[q]
                             /\ daemon[q] = "exited" => daemon'[q] = "exited"
    BY <1>1, <1>2, <2>1
  <2>8. daemon'[d] # "closing"
    BY <1>1, <2>1
  <2> QED
    BY <1>3, <2>1, <2>3, <2>4, <2>5, <2>6, <2>7, <2>8 DEF DaemonInv
<1>12. ASSUME NEW d \in Daemons, ExitDaemon(d)  PROVE DaemonInv'
  <2>1. daemon[d] = "closing" /\ daemon' = [daemon EXCEPT ![d] = "exited"] /\ UNCHANGED <<pc, command>>
    BY <1>12 DEF ExitDaemon
  <2>2. \A e \in Daemons : daemon'[e] = daemon[e] \/ (daemon[e] = "closing" /\ daemon'[e] = "exited")
    BY <1>1, <2>1
  <2>3. \A q \in Processes : Interference(q) => Interference(q)'
    BY <1>2, <2>1, <2>2 DEF Interference
  <2> QED
    BY <1>2, <1>3, <2>1, <2>2, <2>3 DEF DaemonInv
<1>13. ASSUME UNCHANGED <<pc, command, daemon>>  PROVE DaemonInv'
  BY <1>3, <1>13 DEF DaemonInv, Interference
<1>14. ASSUME NEW p \in Processes, RunStep(p)  PROVE DaemonInv'
  BY <1>13, <1>14 DEF RunStep, StartRun, Remember, RunFails
<1>15. CASE UNCHANGED vars
  BY <1>13, <1>15 DEF vars
<1> QED
  BY <1>5, <1>6, <1>7, <1>8, <1>9, <1>10, <1>11, <1>12, <1>14, <1>15
     DEF Next, SessionStep, DaemonStep

\* A CLI ends without a daemon only when another process starts a daemon or
\* stops them: a single one finds the daemon or starts one that listens.
THEOREM OnlyRivalsCostADaemon == Spec => []AloneGetsDaemon
<1>1. TypesInv /\ DaemonInv /\ [Next]_vars => DaemonInv'
  BY DaemonNext
<1>2. DaemonInv => AloneGetsDaemon
  BY DEF DaemonInv, Interference, AloneGetsDaemon
<1> QED
  BY SpecTypes, DaemonInit, <1>1, <1>2, PTL DEF Spec
===============================================================================
