--------------------------- MODULE Process_proofs ---------------------------
(***************************************************************************)
(* A process is configured once and before it serves, and the envelope     *)
(* says what ended it, for any number of lost answers and log entries.     *)
(***************************************************************************)
EXTENDS Process, TLAPS

Stages == {"new", "running", "done", "gone"}

(* InitAkasalet is answered before anything relies on it.                  *)
Configured ==
  /\ sTask \in [ServerTasks -> Stages]
  /\ inits \in 0 .. 1
  /\ answered \/ env \in {"ready", "unserved", "serving", "waited", "returned"} => inits = 1
  /\ sTask["log"] # "new" \/ alet = "running" \/ runner # "off" => inits = 1

(* e.ctx ends for a reason, a goroutine of Serve does not end before stop  *)
(* has an error, and the envelope waits for all of them.                   *)
Blamed ==
  /\ rTask \in [Goroutines -> Stages]
  /\ stopping \in [Goroutines -> Failures \cup {nil}]
  /\ rResult \in {"none", "waiting"} \/ \A t \in Goroutines : rTask[t] = "gone"
  /\ rResult # "none" => \A t \in Goroutines : rTask[t] # "new"
  /\ env \in {"none", "starting", "ready", "unserved", "failed"} =>
       \A t \in Goroutines : rTask[t] = "new"
  /\ \A t \in Goroutines : rTask[t] \in {"done", "gone"} \/ stopping[t] # nil => stopErr # nil
  /\ ectx => outside \/ stopErr # nil \/ env = "failed"
  /\ stopErr = "ctx" => outside
  /\ env \in {"waited", "returned"} => \A t \in Goroutines : rTask[t] = "gone"
  /\ env = "returned" => proc = "reaped"

ProcessInv == Configured /\ Blamed
-----------------------------------------------------------------------------
(* The two groups have no limit: Go starts its function, Done frees no     *)
(* token.                                                                  *)
LEMMA ServersGo ==
  ASSUME NEW t \in ServerTasks, sTask \in [ServerTasks -> Stages], Servers!Go(t)
  PROVE  sTask[t] = "new" /\ sTask' = [sTask EXCEPT ![t] = "running"]
BY DEF Servers!Go, Servers!HasRoom, Unlimited

LEMMA ServersReturn ==
  ASSUME NEW t \in ServerTasks, NEW e, Servers!Return(t, e)
  PROVE  sTask[t] = "running" /\ sTask' = [sTask EXCEPT ![t] = "done"]
BY DEF Servers!Return

LEMMA ServersDone ==
  ASSUME NEW t \in ServerTasks, Servers!Done(t)
  PROVE  sTask[t] = "done" /\ sTask' = [sTask EXCEPT ![t] = "gone"]
BY DEF Servers!Done, Unlimited

LEMMA RunningGo ==
  ASSUME NEW t \in Goroutines, Running!Go(t)
  PROVE  /\ rTask[t] = "new" /\ rTask' = [rTask EXCEPT ![t] = "running"]
         /\ rResult = "none" /\ rResult' = rResult
BY DEF Running!Go, Running!HasRoom, Running!Owner, Unlimited

LEMMA RunningReturn ==
  ASSUME NEW t \in Goroutines, NEW e, Running!Return(t, e)
  PROVE  rTask[t] = "running" /\ rTask' = [rTask EXCEPT ![t] = "done"] /\ rResult' = rResult
BY DEF Running!Return

LEMMA RunningDone ==
  ASSUME NEW t \in Goroutines, Running!Done(t)
  PROVE  rTask[t] = "done" /\ rTask' = [rTask EXCEPT ![t] = "gone"] /\ rResult' = rResult
BY DEF Running!Done, Unlimited

LEMMA RunningWaits ==
  ASSUME rTask \in [Goroutines -> Stages], Running!WaitReturns
  PROVE  /\ rResult = "waiting" /\ rTask' = rTask
         /\ \A t \in Goroutines : rTask[t] \in {"new", "gone"}
BY DEF Running!WaitReturns, Running!Active, Stages
-----------------------------------------------------------------------------
LEMMA InitProcess == Init => ProcessInv
<1>1. Init => Configured
  BY DEF Init, Configured, Stages, Servers!GroupInit, Logger!LogInit, ServerTasks
<1>2. Init => rTask = [t \in Goroutines |-> "new"] /\ rResult = "none"
  BY DEF Init, Running!GroupInit
<1>3. Init => Blamed
  BY <1>2, ProcessAssumption DEF Init, Blamed, Stages, Goroutines, Readers, Failures
<1>4. QED BY <1>1, <1>3 DEF ProcessInv

LEMMA ExitConfigured ==
  ASSUME Configured, Exit, UNCHANGED <<env, answered>>
  PROVE  Configured'
BY DEF Configured, Exit, ServerTasks, Stages

LEMMA EnvelopeConfigured ==
  ASSUME Configured, EnvelopeStep \/ AnswerLost \/ DeployerStops
  PROVE  Configured'
<1>1. CASE InitAkasalet
  <2>1. inits' = 1
    BY <1>1 DEF InitAkasalet, Configured
  <2>2. QED BY <1>1, <2>1 DEF InitAkasalet, Configured, envVars, groupVars, logVars
<1>2. CASE Kill
  BY <1>2, ExitConfigured DEF Kill, envVars
<1>3. CASE StartChild
  BY <1>3 DEF StartChild, Fails, Configured, letVars, groupVars, logVars
<1>4. CASE InitReturns \/ InitGivesUp
  BY <1>4 DEF InitReturns, InitGivesUp, Fails, Configured, letVars, groupVars, logVars
<1>5. CASE Serve \/ WaitForChild
  BY <1>5 DEF Serve, WaitForChild, Configured, letVars, groupVars, logVars
<1>6. CASE WaitForGroup
  BY <1>6 DEF WaitForGroup, Configured, letVars, groupVars, logVars
<1>7. CASE AnswerLost \/ DeployerStops
  BY <1>7 DEF AnswerLost, DeployerStops, Configured, letVars, groupVars, logVars
<1>8. ASSUME NEW t \in Goroutines, StopCancels(t) \/ GoroutineDone(t) \/ \E e \in Failures : Stop(t, e)
      PROVE  Configured'
  BY <1>8 DEF StopCancels, GoroutineDone, Stop, Configured, letVars, groupVars, logVars
<1>9. ASSUME NEW i \in DOMAIN Order, AddGoroutine(i)
      PROVE  Configured'
  BY <1>9 DEF AddGoroutine, Configured, letVars, groupVars, logVars
<1>10. QED BY <1>1, <1>2, <1>3, <1>4, <1>5, <1>6, <1>7, <1>8, <1>9 DEF EnvelopeStep

LEMMA LetConfigured ==
  ASSUME Configured,
         ProcessStep \/ AppLogs \/ AppReturns \/ ControlReturns \/ RpcReturns \/ Crash
  PROVE  Configured'
<1>0. sTask \in [ServerTasks -> Stages] /\ {"control", "log", "rpc"} = ServerTasks
  BY DEF Configured, ServerTasks
<1>1. ASSUME Exit, UNCHANGED <<envVars, answered>> PROVE Configured'
  BY <1>1, ExitConfigured DEF envVars
<1>2. CASE NewAkasalet
  <2>1. CASE Exit
    BY <1>1, <1>2, <2>1 DEF NewAkasalet
  <2>2. CASE alet' = "handshake" /\ Servers!Go("control") /\ UNCHANGED <<proc, inits, main, errs, logVars>>
    BY <1>0, <1>2, <2>2, ServersGo DEF NewAkasalet, Configured, Stages, envVars, logVars
  <2>3. QED BY <1>2, <2>1, <2>2 DEF NewAkasalet
<1>3. CASE InitDone
  <2>1. inits = 1
    BY <1>3 DEF InitDone, Configured
  <2>2. QED BY <1>0, <1>3, <2>1, ServersGo DEF InitDone, Configured, Stages, envVars
<1>4. CASE GroupEnds \/ RunRemoteReturns \/ Crash
  BY <1>1, <1>4 DEF GroupEnds, RunRemoteReturns, Crash
<1>5. CASE ServeRpc
  BY <1>0, <1>5, ServersGo DEF ServeRpc, Configured, Stages, envVars, logVars
<1>6. CASE CreateRoot
  <2>1. CASE Exit
    BY <1>1, <1>6, <2>1 DEF CreateRoot
  <2>2. CASE Servers!Wait /\ UNCHANGED <<proc, alet, inits, errs, logVars>>
    BY <1>6, <2>2 DEF CreateRoot, Configured, Servers!Wait, envVars, logVars
  <2>3. QED BY <1>6, <2>1, <2>2 DEF CreateRoot
<1>7. CASE AppLogs \/ AppReturns
  BY <1>7 DEF AppLogs, AppReturns, Logger!Log, Configured, envVars, groupVars, logVars
<1>8. CASE ControlReturns
  <2>1. sTask["log"]' = sTask["log"] /\ sTask' \in [ServerTasks -> Stages]
    BY <1>0, <1>8, ServersReturn DEF ControlReturns, Stages
  <2>2. QED BY <1>8, <2>1 DEF ControlReturns, Configured, envVars, logVars
<1>9. CASE RpcReturns
  <2>1. sTask["log"]' = sTask["log"] /\ sTask' \in [ServerTasks -> Stages]
    BY <1>0, <1>9, ServersReturn DEF RpcReturns, Stages
  <2>2. QED BY <1>9, <2>1 DEF RpcReturns, Logger!Log, Configured, envVars
<1>10. CASE RunReturns
  <2>1. sTask["log"] = "running" /\ sTask' \in [ServerTasks -> Stages]
    BY <1>0, <1>10, ServersReturn DEF RunReturns, Stages
  <2>2. QED BY <1>10, <2>1 DEF RunReturns, Configured, envVars
<1>11. CASE RunStep
  <2>1. runner # "off" /\ UNCHANGED <<env, answered, alet, inits, sTask>>
    BY <1>11 DEF RunStep, Logger!Receive, Logger!BreakReadLoop, Logger!LogBatch, envVars, groupVars
  <2>2. QED BY <2>1 DEF Configured
<1>12. CASE ServersWait
  BY <1>12 DEF ServersWait, Servers!WaitReturns, Configured, envVars, logVars
<1>13. ASSUME NEW t \in ServerTasks, ServerDone(t) PROVE Configured'
  <2>1. sTask[t] = "done" /\ sTask' = [sTask EXCEPT ![t] = "gone"]
    BY <1>13, ServersDone DEF ServerDone
  <2>2. QED BY <1>0, <1>13, <2>1 DEF ServerDone, Configured, Stages, envVars, logVars
<1>14. QED BY <1>2, <1>3, <1>4, <1>5, <1>6, <1>7, <1>8, <1>9, <1>10, <1>11, <1>12, <1>13 DEF ProcessStep
(* A step that leaves the goroutines of Serve alone.                       *)
LEMMA QuietBlamed ==
  ASSUME Blamed, UNCHANGED <<rTask, rResult, stopping, stopErr, outside>>,
         ectx' => ectx \/ env' = "failed",
         env' # env =>
           /\ \A t \in Goroutines : rTask[t] = "new"
           /\ env # "failed" /\ env' \notin {"none", "waited", "returned"},
         proc' = proc \/ env' # "returned"
  PROVE  Blamed'
BY DEF Blamed

LEMMA EnvelopeBlamed ==
  ASSUME Blamed, EnvelopeStep \/ AnswerLost \/ DeployerStops
  PROVE  Blamed'
<1>1. CASE StartChild \/ InitReturns \/ InitGivesUp \/ Serve
  BY <1>1, QuietBlamed
     DEF StartChild, InitReturns, InitGivesUp, Serve, Fails, Blamed, runningVars, letVars
<1>2. CASE InitAkasalet \/ AnswerLost
  BY <1>2, QuietBlamed DEF InitAkasalet, AnswerLost, envVars, runningVars, letVars
<1>3. CASE Kill
  BY <1>3, QuietBlamed DEF Kill, Up, Exit, envVars, Blamed
<1>4. CASE DeployerStops
  BY <1>4 DEF DeployerStops, Blamed, runningVars, letVars
<1>5. ASSUME NEW i \in DOMAIN Order, AddGoroutine(i)
      PROVE  Blamed'
  <2>1. PICK t \in Goroutines : Running!Go(t)
    BY <1>5 DEF AddGoroutine, Order, Goroutines, Readers
  <2>2. QED BY <1>5, <2>1, RunningGo DEF AddGoroutine, Blamed, Stages, letVars
<1>6. ASSUME NEW t \in Goroutines, NEW e \in Failures, Stop(t, e)
      PROVE  Blamed'
  <2>1. /\ rTask[t] = "running" /\ e # nil
        /\ UNCHANGED <<env, ectx, outside, rTask, rResult, proc>>
    BY <1>6, ProcessAssumption DEF Stop, runningVars, letVars
  <2>2. env \notin {"none", "starting", "ready", "unserved", "failed", "waited", "returned"}
    BY <2>1 DEF Blamed
  <2>3. stopErr' # nil /\ (stopErr # nil => stopErr' = stopErr) /\ (stopErr = nil => stopErr' = e)
    BY <1>6, <2>1 DEF Stop
  <2>4. e = "ctx" => ectx
    BY <1>6 DEF Stop, Ends
  <2>5. stopErr' = "ctx" => outside
    BY <2>2, <2>3, <2>4 DEF Blamed
  <2>6. /\ stopping' \in [Goroutines -> Failures \cup {nil}]
        /\ \A u \in Goroutines : stopping'[u] # nil => u = t \/ stopping[u] # nil
    BY <1>6 DEF Stop, Blamed
  <2>7. QED BY <2>1, <2>2, <2>3, <2>5, <2>6 DEF Blamed
<1>7. ASSUME NEW t \in Goroutines, StopCancels(t)
      PROVE  Blamed'
  <2>1. /\ rTask[t] = "running" /\ rTask' = [rTask EXCEPT ![t] = "done"] /\ rResult' = rResult
        /\ stopping[t] # nil /\ stopping' = [stopping EXCEPT ![t] = nil]
        /\ UNCHANGED <<env, outside, stopErr, proc>>
    BY <1>7, RunningReturn DEF StopCancels, letVars
  <2>2. stopErr # nil /\ env \notin {"none", "starting", "ready", "unserved", "failed"}
    BY <2>1 DEF Blamed
  <2>3. QED BY <2>1, <2>2 DEF Blamed, Stages
<1>8. ASSUME NEW t \in Goroutines, GoroutineDone(t)
      PROVE  Blamed'
  <2>1. /\ rTask[t] = "done" /\ rTask' = [rTask EXCEPT ![t] = "gone"] /\ rResult' = rResult
        /\ UNCHANGED <<env, ectx, outside, stopErr, stopping, proc>>
    BY <1>8, RunningDone DEF GoroutineDone, letVars
  <2>2. QED BY <2>1 DEF Blamed, Stages
<1>9. CASE WaitForGroup
  <2>1. CASE Running!Wait /\ (\A t \in Goroutines : rTask[t] # "new") /\ UNCHANGED env
    BY <1>9, <2>1 DEF WaitForGroup, Running!Wait, Blamed, letVars
  <2>2. CASE Running!WaitReturns /\ env' = "waited"
    <3>1. rTask' = rTask /\ \A t \in Goroutines : rTask[t] = "gone"
      BY <2>2, RunningWaits DEF Blamed
    <3>2. env = "serving" /\ UNCHANGED <<ectx, outside, stopErr, stopping, proc>>
      BY <1>9 DEF WaitForGroup, letVars
    <3>3. QED BY <2>2, <3>1, <3>2, RunningWaits DEF Blamed
  <2>3. QED BY <1>9, <2>1, <2>2 DEF WaitForGroup
<1>10. CASE WaitForChild
  BY <1>10 DEF WaitForChild, Blamed, runningVars, letVars
<1>11. QED BY <1>1, <1>2, <1>3, <1>4, <1>5, <1>6, <1>7, <1>8, <1>9, <1>10 DEF EnvelopeStep

LEMMA LetBlamed ==
  ASSUME Blamed,
         ProcessStep \/ AppLogs \/ AppReturns \/ ControlReturns \/ RpcReturns \/ Crash
  PROVE  Blamed'
<1>1. UNCHANGED envVars
  BY DEF ProcessStep, NewAkasalet, InitDone, GroupEnds, ServeRpc, CreateRoot, RunReturns, RunStep,
     ServersWait, RunRemoteReturns, ServerDone, AppLogs, AppReturns, ControlReturns, RpcReturns, Crash
<1>2. Up
  BY DEF ProcessStep, NewAkasalet, InitDone, GroupEnds, ServeRpc, CreateRoot, RunReturns, RunStep,
     ServersWait, RunRemoteReturns, ServerDone, AppLogs, AppReturns, ControlReturns, RpcReturns, Crash
<1>3. env # "returned"
  BY <1>2 DEF Blamed, Up
<1>4. QED BY <1>1, <1>3, QuietBlamed DEF envVars

LEMMA ProcessInductive ==
  ASSUME ProcessInv, [Next]_vars
  PROVE  ProcessInv'
<1>1. CASE EnvelopeStep \/ AnswerLost \/ DeployerStops
  BY <1>1, EnvelopeConfigured, EnvelopeBlamed DEF ProcessInv
<1>2. CASE ProcessStep \/ AppLogs \/ AppReturns \/ ControlReturns \/ RpcReturns \/ Crash
  BY <1>2, LetConfigured, LetBlamed DEF ProcessInv
<1>3. CASE UNCHANGED vars
  BY <1>3 DEF ProcessInv, Configured, Blamed, vars, envVars, letVars, groupVars, logVars
<1>4. QED BY <1>1, <1>2, <1>3 DEF Next

LEMMA ProcessInvariant == Spec => []ProcessInv
BY InitProcess, ProcessInductive, PTL DEF Spec
-----------------------------------------------------------------------------
(* However often the answer to InitAkasalet is lost and the call repeated, *)
(* initDone is closed once, before the servers that need the configuration *)
(* start and before the envelope serves (remote_akasalet.go 264-281).      *)
THEOREM HandshakeCorrect == Spec => []Handshake
<1>1. ProcessInv => Handshake
  BY DEF ProcessInv, Configured, Handshake
<1>2. QED BY <1>1, ProcessInvariant, PTL

(* Serve returns the reason: "the context ended" only when the deployer    *)
(* ended it, never because one of its own goroutines cancelled it on the   *)
(* way, and not before the process and the goroutines are gone.            *)
THEOREM BlameCorrect == Spec => []Blame
<1>1. ProcessInv => Blame
  <2>1. Goroutines # {}
    BY DEF Goroutines
  <2>2. QED BY <2>1 DEF ProcessInv, Blamed, Blame
<1>2. QED BY <1>1, ProcessInvariant, PTL
=============================================================================
