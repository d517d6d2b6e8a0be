----------------------------- MODULE MethodCall -----------------------------
(***************************************************************************)
(* What a component method promises its caller, local or remote: a call    *)
(* that returns brings an outcome that an execution of that very call      *)
(* produced; only a remote call may fail instead, and only a remote call   *)
(* may execute more than once, or after its caller has given it up.        *)
(***************************************************************************)
CONSTANTS Calls, Outcomes

VARIABLES remote,    \* the calls that go to another process
          called, returned,
          executed,  \* executed[c]: outcomes the executions of c produced
          got        \* got[c]: what c returned; "failed" for a remote error

promised == <<remote, called, returned, executed, got>>

Init ==
  /\ remote = {} /\ called = {} /\ returned = {}
  /\ executed = [c \in Calls |-> {}]
  /\ got = [c \in Calls |-> "nothing"]

Call(c) ==
  /\ c \notin called
  /\ called' = called \cup {c}
  /\ remote' \in {remote, remote \cup {c}}
  /\ UNCHANGED <<returned, executed, got>>

Execute(c, o) ==
  /\ c \in called
  /\ c \in remote \/ executed[c] = {}
  /\ executed' = [executed EXCEPT ![c] = @ \cup {o}]
  /\ UNCHANGED <<remote, called, returned, got>>

Return(c) ==
  /\ c \in called \ returned
  /\ \E o \in Outcomes \cup {"failed"} :
       /\ o \in executed[c] \/ (o = "failed" /\ c \in remote)
       /\ got' = [got EXCEPT ![c] = o]
  /\ returned' = returned \cup {c}
  /\ UNCHANGED <<remote, called, executed>>

Next == \E c \in Calls : Call(c) \/ Return(c) \/ \E o \in Outcomes : Execute(c, o)

Spec == Init /\ [][Next]_promised
=============================================================================
