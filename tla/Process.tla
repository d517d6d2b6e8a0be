------------------------------- MODULE Process ------------------------------
(***************************************************************************)
(* A process of a deployment and its envelope: runtime/envelope            *)
(* (NewEnvelope, Serve) in the deployer and NewRemoteAkasaLet, runRemote   *)
(* in the process, each with its error group, and the process's log        *)
(* entries on their way to the deployer.  Deployment starts processes in   *)
(* one step; here is what that step is made of, for one process.           *)
(***************************************************************************)
EXTENDS Naturals, Sequences, FiniteSets

CONSTANTS MaxLogs,        \* bound: entries the application logs
          MaxLost,        \* bound: answers to InitAkasalet that are lost
          LogBufferCount, \* capacity of the log channel
          nil

VARIABLES
  env,        \* the envelope: "none", "starting", "ready", "unserved",
              \* "serving", "waited", "returned" or "failed"
  ectx,       \* e.ctx has ended
  outside,    \* history: the deployer ended it
  stopErr,    \* the first error stop was called with
  stopping,   \* the error each goroutine of Serve is calling stop with, or nil
  rTask, rErr, rCancelled, rResult,   \* the group of Serve
  answered, lost,                     \* InitAkasalet: executed, answers lost
  proc,       \* "none", "up", "down" or "reaped"
  alet,       \* "none", "handshake", "running"
  inits,      \* initDone was closed this often
  main,       \* "none", "create", "app", "returned"
  errs,       \* runRemote's channel
  sTask, sErr, sCancelled, sResult,   \* a.servers and its context
  c, batch, runner, logged            \* module RemoteLogger

envVars   == <<env, ectx, outside, stopErr, stopping, rTask, rErr, rCancelled, rResult, lost>>
groupVars == <<sTask, sErr, sCancelled, sResult>>
logVars   == <<c, batch, runner, logged>>
letVars   == <<alet, inits, main, errs, groupVars, logVars>>
vars      == <<envVars, answered, proc, letVars>>

Readers   == {"stdout", "stderr"}
Goroutines == Readers \cup {"context", "control"}   \* of Serve
ServerTasks == {"control", "log", "rpc"}             \* of a.servers
Unlimited == [cap |-> 0, held |-> 0]
Failures  == {"eof", "ctx", "accept", "exit", "app"}

ASSUME ProcessAssumption == nil \notin Failures /\ MaxLogs \in Nat /\ MaxLost \in Nat

Running == INSTANCE Errgroup WITH
  Tasks <- Goroutines, Errors <- Failures, Limits <- {},
  task <- rTask, groupErr <- rErr, cancelled <- rCancelled, sem <- Unlimited, result <- rResult, early <- FALSE
Servers == INSTANCE Errgroup WITH
  Tasks <- ServerTasks, Errors <- Failures, Limits <- {},
  task <- sTask, groupErr <- sErr, cancelled <- sCancelled, sem <- Unlimited, result <- sResult, early <- FALSE
Logger == INSTANCE RemoteLogger

runningVars == <<rTask, rErr, rCancelled, rResult>>

Up == proc = "up"

(* A process that ends takes its memory along; inits stays, a history.     *)
Exit ==
  /\ proc' = "down" /\ UNCHANGED inits
  /\ alet' = "none" /\ main' = "none" /\ errs' = <<>>
  /\ sTask' = [t \in ServerTasks |-> "new"] /\ sErr' = nil /\ sCancelled' = FALSE /\ sResult' = "none"
  /\ c' = 0 /\ batch' = 0 /\ runner' = "off" /\ logged' = 0
-----------------------------------------------------------------------------
Init ==
  /\ env = "none" /\ ectx = FALSE /\ outside = FALSE /\ stopErr = nil /\ stopping = [t \in Goroutines |-> nil] /\ lost = 0
  /\ Running!GroupInit
  /\ answered = FALSE /\ proc = "none"
  /\ alet = "none" /\ inits = 0 /\ main = "none" /\ errs = <<>>
  /\ Servers!GroupInit /\ Logger!LogInit

-----------------------------------------------------------------------------
(* NewEnvelope.                                                            *)

Fails == env' = "failed" /\ ectx' = TRUE

StartChild ==
  /\ env = "none"
  /\ \/ env' = "starting" /\ proc' = "up" /\ UNCHANGED ectx
     \/ Fails /\ UNCHANGED proc
  /\ UNCHANGED <<outside, stopErr, stopping, runningVars, lost, answered, letVars>>

(* The control stub calls InitAkasalet, and again when the answer is lost. *)
(* Mutated form: initDone is closed by each.                               *)
InitAkasalet_Each ==
  /\ env = "starting" /\ ~ectx /\ ~answered
  /\ Up /\ sTask["control"] = "running"
  /\ inits' = inits + 1
  /\ answered' = TRUE
  /\ UNCHANGED <<envVars, proc, alet, main, errs, groupVars, logVars>>

InitAkasalet ==
  /\ env = "starting" /\ ~ectx /\ ~answered
  /\ Up /\ sTask["control"] = "running"
  /\ inits' = IF inits = 0 THEN 1 ELSE inits
  /\ answered' = TRUE
  /\ UNCHANGED <<envVars, proc, alet, main, errs, groupVars, logVars>>

(* More than the code lets happen: only the failed write of a request is   *)
(* tried again (Call), not the failed read of its answer.                  *)
AnswerLost ==
  /\ env = "starting" /\ answered /\ lost < MaxLost
  /\ answered' = FALSE /\ lost' = lost + 1
  /\ UNCHANGED <<env, ectx, outside, stopErr, stopping, runningVars, proc, letVars>>

(* The answer is checked: another version of the deployer API is an error. *)
InitReturns ==
  /\ env = "starting" /\ answered
  /\ (env' = "ready" /\ UNCHANGED ectx) \/ Fails
  /\ UNCHANGED <<outside, stopErr, stopping, runningVars, lost, answered, proc, letVars>>

(* Without an answer the call tries until e.ctx ends, also when the        *)
(* process has died.                                                       *)
InitGivesUp ==
  /\ env = "starting" /\ ectx
  /\ env' = "failed"
  /\ UNCHANGED <<ectx, outside, stopErr, stopping, runningVars, lost, answered, proc, letVars>>

(* The deployer stops.                                                     *)
DeployerStops ==
  /\ ~ectx /\ env # "none"
  /\ ectx' = TRUE /\ outside' = TRUE
  /\ UNCHANGED <<env, stopErr, stopping, runningVars, lost, answered, proc, letVars>>

(* exec.CommandContext kills the process when its context ends.            *)
Kill == Up /\ ectx /\ Exit /\ UNCHANGED <<envVars, answered>>
-----------------------------------------------------------------------------
(* Serve.                                                                  *)

(* Serve listens; without a listener it returns, and leaves the process to *)
(* the deployer's stop.                                                    *)
Serve ==
  /\ env = "ready"
  /\ env' \in {"serving", "unserved"}
  /\ UNCHANGED <<ectx, outside, stopErr, stopping, runningVars, lost, answered, proc, letVars>>

Order == <<"stdout", "stderr", "context", "control">>   \* of the calls of Go

AddGoroutine(i) ==
  /\ env = "serving" /\ \A j \in 1 .. i - 1 : rTask[Order[j]] # "new"
  /\ Running!Go(Order[i])
  /\ UNCHANGED <<env, ectx, outside, stopErr, stopping, lost, answered, proc, letVars>>

(* Why a goroutine of Serve ends: the process's output, e.ctx, or the      *)
(* server of the deployer's control component.                             *)
Ends(t, e) ==
  \/ t \in Readers /\ e = "eof" /\ proc = "down"
  \/ t = "context" /\ e = "ctx" /\ ectx
  \/ t = "control" /\ e = "ctx" /\ ectx
  \/ t = "control" /\ e = "accept" /\ ~ectx

(* stop keeps the first error, then ends e.ctx.  Mutated form: the last.   *)
Stop_Last(t, e) ==
  /\ rTask[t] = "running" /\ stopping[t] = nil /\ Ends(t, e)
  /\ stopErr' = e
  /\ stopping' = [stopping EXCEPT ![t] = e]
  /\ UNCHANGED <<env, ectx, outside, runningVars, lost, answered, proc, letVars>>

Stop(t, e) ==
  /\ rTask[t] = "running" /\ stopping[t] = nil /\ Ends(t, e)
  /\ stopErr' = IF stopErr = nil THEN e ELSE stopErr
  /\ stopping' = [stopping EXCEPT ![t] = e]
  /\ UNCHANGED <<env, ectx, outside, runningVars, lost, answered, proc, letVars>>

(* Mutated form of StopCancels: the other goroutines are left running.     *)
StopCancels_Not(t) ==
  /\ stopping[t] # nil
  /\ stopping' = [stopping EXCEPT ![t] = nil]
  /\ Running!Return(t, IF t = "stdout" THEN nil ELSE stopping[t])
  /\ UNCHANGED <<env, ectx, outside, stopErr, lost, answered, proc, letVars>>

StopCancels(t) ==
  /\ stopping[t] # nil
  /\ ectx' = TRUE /\ stopping' = [stopping EXCEPT ![t] = nil]
  /\ Running!Return(t, IF t = "stdout" THEN nil ELSE stopping[t])
  /\ UNCHANGED <<env, outside, stopErr, lost, answered, proc, letVars>>

GoroutineDone(t) ==
  /\ Running!Done(t)
  /\ UNCHANGED <<env, ectx, outside, stopErr, stopping, lost, answered, proc, letVars>>

WaitForGroup ==
  /\ env = "serving"
  /\ \/ (\A t \in Goroutines : rTask[t] # "new") /\ Running!Wait /\ UNCHANGED env
     \/ Running!WaitReturns /\ env' = "waited"
  /\ UNCHANGED <<ectx, outside, stopErr, stopping, lost, answered, proc, letVars>>

(* child.Wait, then Serve returns stopErr.                                 *)
WaitForChild ==
  /\ env = "waited" /\ proc = "down"
  /\ proc' = "reaped" /\ env' = "returned"
  /\ UNCHANGED <<ectx, outside, stopErr, stopping, runningVars, lost, answered, letVars>>

EnvelopeStep ==
  \/ StartChild \/ InitAkasalet \/ InitReturns \/ InitGivesUp \/ Serve \/ Kill
  \/ \E t \in Goroutines :
       StopCancels(t) \/ GoroutineDone(t) \/ \E e \in Failures : Stop(t, e)
  \/ (\E i \in DOMAIN Order : AddGoroutine(i)) \/ WaitForGroup \/ WaitForChild
-----------------------------------------------------------------------------
(* The process.                                                            *)

(* NewRemoteAkasaLet, or an error of it, up to the wait for InitAkasalet.  *)
NewAkasalet ==
  /\ Up /\ alet = "none"
  /\ \/ /\ alet' = "handshake" /\ Servers!Go("control")
        /\ UNCHANGED <<proc, inits, main, errs, logVars>>
     \/ Exit
  /\ UNCHANGED <<envVars, answered>>

(* The select of initDone and the group's context.                         *)
InitDone ==
  /\ Up /\ alet = "handshake" /\ inits > 0 /\ sTask["log"] = "new"
  /\ Servers!Go("log") /\ Logger!Run
  /\ UNCHANGED <<envVars, answered, proc, alet, inits, main, errs>>

GroupEnds ==
  /\ Up /\ alet = "handshake" /\ sCancelled /\ sTask["log"] = "new"
  /\ Exit
  /\ UNCHANGED <<envVars, answered>>

ServeRpc ==
  /\ Up /\ alet = "handshake" /\ sTask["log"] # "new"
  /\ Servers!Go("rpc")
  /\ alet' = "running" /\ main' = "create"
  /\ UNCHANGED <<envVars, answered, proc, inits, errs, logVars>>

(* GetImpl of the root component: an error ends the process.  It needs the *)
(* deployer, which serves the control component by now or soon.            *)
CreateRoot ==
  /\ Up /\ main = "create"
  /\ \/ rTask["control"] = "running" /\ main' = "app" /\ Servers!Wait
        /\ UNCHANGED <<proc, alet, inits, errs, logVars>>
     \/ Exit
  /\ UNCHANGED <<envVars, answered>>

AppLogs ==
  /\ Up /\ main = "app" /\ logged < MaxLogs
  /\ Logger!Log
  /\ UNCHANGED <<envVars, answered, proc, alet, inits, main, errs, groupVars>>

AppReturns ==
  /\ Up /\ main = "app"
  /\ main' = "returned" /\ errs' = Append(errs, "app")
  /\ UNCHANGED <<envVars, answered, proc, alet, inits, groupVars, logVars>>

(* call.Serve returns: its listener fails, or the context has ended.  The  *)
(* RPC server logs the error before it returns it.                         *)
ControlReturns ==
  /\ Up /\ \E e \in IF sCancelled THEN {"ctx"} ELSE {"accept"} : Servers!Return("control", e)
  /\ UNCHANGED <<envVars, answered, proc, alet, inits, main, errs, logVars>>

RpcReturns ==
  /\ Up /\ \E e \in IF sCancelled THEN {"ctx"} ELSE {"accept"} : Servers!Return("rpc", e)
  /\ Logger!Log
  /\ UNCHANGED <<envVars, answered, proc, alet, inits, main, errs>>

RunReturns ==
  /\ Up /\ sCancelled /\ Logger!Leave /\ Servers!Return("log", nil)
  /\ UNCHANGED <<envVars, answered, proc, alet, inits, main, errs>>

(* run takes and sends entries; the deployer answers while it serves, and  *)
(* the call gives up when the group's context ends.                        *)
RunStep ==
  /\ Up
  /\ \/ Logger!Receive
     \/ ~sCancelled /\ Logger!BreakReadLoop
     \/ (rTask["control"] = "running" \/ sCancelled) /\ Logger!LogBatch
  /\ UNCHANGED <<envVars, answered, proc, alet, inits, main, errs, groupVars>>

ServerDone(t) ==
  /\ Up /\ Servers!Done(t)
  /\ UNCHANGED <<envVars, answered, proc, alet, inits, main, errs, logVars>>

ServersWait ==
  /\ Up /\ Servers!WaitReturns
  /\ errs' = Append(errs, sErr)
  /\ UNCHANGED <<envVars, answered, proc, alet, inits, main, logVars>>

(* runRemote returns the first of errs, and the process exits.             *)
RunRemoteReturns == Up /\ errs # <<>> /\ Exit /\ UNCHANGED <<envVars, answered>>

Crash == Up /\ Exit /\ UNCHANGED <<envVars, answered>>

ProcessStep ==
  \/ NewAkasalet \/ InitDone \/ GroupEnds \/ ServeRpc \/ CreateRoot
  \/ RunReturns \/ RunStep \/ ServersWait \/ RunRemoteReturns
  \/ \E t \in ServerTasks : ServerDone(t)

AfterCancel == sCancelled /\ (ControlReturns \/ RpcReturns)

Next ==
  \/ EnvelopeStep \/ AnswerLost \/ DeployerStops
  \/ ProcessStep \/ AppLogs \/ AppReturns \/ ControlReturns \/ RpcReturns \/ Crash

(* Goroutines run on; the application and the network owe nothing.  A      *)
(* deployer whose Serve has returned stops.                                *)
Spec ==
  /\ Init /\ [][Next]_vars
  /\ WF_vars(EnvelopeStep /\ env # "none") /\ WF_vars(Kill)
  /\ WF_vars(env = "unserved" /\ DeployerStops)
  /\ \A t \in Goroutines : WF_vars(\E e \in Failures : e # "accept" /\ Stop(t, e))
  /\ WF_vars(ProcessStep) /\ WF_vars(AfterCancel) /\ WF_vars(RunReturns) /\ WF_vars(RunRemoteReturns)
-----------------------------------------------------------------------------
(* However often InitAkasalet is called, initDone is closed once; nothing  *)
(* that needs the configuration runs before, and the envelope serves a     *)
(* process that has it (remote_akasalet.go 264-281, 203-209).              *)
Handshake ==
  /\ inits <= 1
  /\ alet = "running" \/ runner # "off" => inits = 1
  /\ env \in {"ready", "serving", "waited", "returned"} => inits = 1

(* Serve returns the error that made it stop: its own context's only if    *)
(* the deployer ended it, the process's end or a failed server otherwise;  *)
(* and once it has returned the process is gone and so are the goroutines. *)
Blame ==
  /\ stopErr = "ctx" => outside
  /\ env = "returned" => /\ stopErr # nil /\ proc = "reaped"
                         /\ \A t \in Goroutines : rTask[t] = "gone"

(* A server that cannot log its error because nobody reads the channel any *)
(* more.                                                                   *)
HungOnLog == Logger!Full /\ sTask["rpc"] = "running" /\ runner = "gone"

(* A process that ends takes its envelope along, an envelope whose context *)
(* ends takes its process along, and so does a server of the process that  *)
(* fails, unless the RPC server hangs in its log statement (logger.go 29). *)
EndTogether ==
  /\ (proc = "down" /\ env \in {"serving", "waited"} ~> env = "returned")
  /\ (ectx ~> ~Up)
  /\ (sErr # nil /\ main = "app" ~> ~Up \/ HungOnLog)
=============================================================================
