---------------------------- MODULE RemoteLogger ----------------------------
(***************************************************************************)
(* internal/akasar/logger.go: log statements put entries into a bounded    *)
(* channel, one goroutine takes them out and sends them in batches to the  *)
(* deployer's LogBatch.  Entries are counted, not told apart.              *)
(***************************************************************************)
EXTENDS Naturals

CONSTANTS LogBufferCount

VARIABLES c,       \* entries in the channel
          batch,   \* entries in batch.Entries
          runner,  \* where run stands: "off", "idle", "reading", "sending" or "gone"
          logged   \* statements of the application, bounded by the user

logVars == <<c, batch, runner, logged>>

LogInit == c = 0 /\ batch = 0 /\ runner = "off" /\ logged = 0

(* log blocks while the channel is full.                                   *)
Full == c = LogBufferCount

Log ==
  /\ ~Full
  /\ c' = c + 1 /\ logged' = logged + 1
  /\ UNCHANGED <<batch, runner>>

Run == runner = "off" /\ runner' = "idle" /\ UNCHANGED <<c, batch, logged>>

(* select: with an entry and a context that is done, either.               *)
Receive ==
  /\ runner \in {"idle", "reading"} /\ c > 0
  /\ c' = c - 1 /\ batch' = batch + 1 /\ runner' = "reading"
  /\ UNCHANGED logged

Leave ==
  /\ runner \in {"idle", "reading"}
  /\ runner' = "gone"
  /\ UNCHANGED <<c, batch, logged>>

(* The inner select finds nothing to read and its context running.         *)
BreakReadLoop ==
  /\ runner = "reading" /\ c = 0
  /\ runner' = "sending"
  /\ UNCHANGED <<c, batch, logged>>

(* LogBatch returns; when it failed, run prints an empty line per entry.   *)
LogBatch ==
  /\ runner = "sending"
  /\ batch' = 0 /\ runner' = "idle"
  /\ UNCHANGED <<c, logged>>
=============================================================================
