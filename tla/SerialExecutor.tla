--------------------------- MODULE SerialExecutor ---------------------------
(***************************************************************************)
(* What the thread pool promises to its one client, the reactor thread: a  *)
(* bounded first-in first-out queue whose tasks are executed one at a      *)
(* time, and which nobody can add to while a task is being executed.       *)
(*                                                                         *)
(* The last part is a consequence of utils/ThreadPoll.cpp holding mutex_   *)
(* across the call task(): enqueueTask needs the same mutex.  HylChan is   *)
(* built on this module, and ThreadPoll is shown to implement it.          *)
(***************************************************************************)
EXTENDS Naturals, Sequences

CONSTANTS
  Task,       \* the tasks that can be submitted
  Idle,       \* the value of active when no task is being executed, not a task
  maxTasks_   \* capacity of the queue, a positive number

VARIABLES
  pending,    \* tasks accepted and not yet started, oldest first
  active,     \* the task being executed, or Idle
  phase       \* "kNone", "kStart" or "kClose"

vars == <<pending, active, phase>>

TypeOK ==
  /\ pending \in Seq(Task)
  /\ Len(pending) <= maxTasks_
  /\ active \in Task \cup {Idle}
  /\ phase \in {"kNone", "kStart", "kClose"}

Init ==
  /\ pending = <<>>
  /\ active = Idle
  /\ phase = "kNone"

-----------------------------------------------------------------------------

Start ==
  /\ phase = "kNone"
  /\ phase' = "kStart"
  /\ UNCHANGED <<pending, active>>

HasRoomOffByOne == Len(pending) <= maxTasks_
HasRoom == Len(pending) < maxTasks_

Submit(t) ==
  /\ phase = "kStart"
  /\ active = Idle
  /\ HasRoom
  /\ pending' = Append(pending, t)
  /\ UNCHANGED <<active, phase>>

Begin ==
  /\ phase = "kStart"
  /\ active = Idle
  /\ pending # <<>>
  /\ active' = Head(pending)
  /\ pending' = Tail(pending)
  /\ UNCHANGED phase

End ==
  /\ active # Idle
  /\ active' = Idle
  /\ UNCHANGED <<pending, phase>>

Close ==
  /\ phase = "kStart"
  /\ active = Idle
  /\ phase' = "kClose"
  /\ UNCHANGED <<pending, active>>

(* Tasks still queued when the executor is closed are never executed.      *)
Discard ==
  /\ phase = "kClose"
  /\ active = Idle
  /\ pending' = <<>>
  /\ UNCHANGED <<active, phase>>

Next ==
  \/ Start
  \/ \E t \in Task : Submit(t)
  \/ Begin
  \/ End
  \/ Close
  \/ Discard

SafetySpec == Init /\ [][Next]_vars

=============================================================================
