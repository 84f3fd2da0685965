------------------------------ MODULE TaskQueue -------------------------------
(***************************************************************************)
(* What smw.h promises the rest of the program: tasks run one at a time, in *)
(* the order they were registered, once per pass over the list; a task may  *)
(* register others and may destroy itself while it runs.  Smw implements    *)
(* this module, and WeatherServer is built on it.                           *)
(***************************************************************************)
EXTENDS Naturals, SequencesExt

CONSTANTS Task, NULL

VARIABLES tasks,      \* the registered tasks, oldest first
          rest,       \* those the current pass has still to run
          running     \* the task whose callback is executing, or NULL

queueVars == <<tasks, rest, running>>

IsRegistered(t) == t \in ToSet(tasks)

Idle == rest = << >> /\ running = NULL

(***************************************************************************)
(* A new task goes to the end.  smw_work has read the successor of the      *)
(* running node before the callback, so a pass that has nobody left to run  *)
(* does not see the newcomer, and any other pass does.                      *)
(***************************************************************************)
Register(t) == /\ ~ IsRegistered(t)
               /\ tasks' = Append(tasks, t)
               /\ rest' = IF rest = << >> THEN << >> ELSE Append(rest, t)

Unregister(t) == /\ \E i \in DOMAIN tasks : /\ tasks[i] = t
                                            /\ tasks' = RemoveAt(tasks, i)
                 /\ UNCHANGED rest

BeginPass == /\ Idle
             /\ rest' = tasks
             /\ UNCHANGED <<tasks, running>>

Dispatch == /\ running = NULL /\ rest # << >>
            /\ running' = Head(rest)
            /\ rest' = Tail(rest)
            /\ UNCHANGED tasks

Return == /\ running # NULL
          /\ running' = NULL
          /\ UNCHANGED <<tasks, rest>>

-------------------------------------------------------------------------------
Init == tasks = << >> /\ rest = << >> /\ running = NULL

\* A callback's call, or its last call together with its return.
StaysOrReturns == running' \in {running, NULL}

Create == (\E t \in Task : Register(t)) /\ StaysOrReturns

DestroySelf == running # NULL /\ Unregister(running) /\ StaysOrReturns

DestroyAll == Idle /\ tasks' = << >> /\ UNCHANGED <<rest, running>>

Next == BeginPass \/ Dispatch \/ Return \/ Create \/ DestroySelf \/ DestroyAll

Spec == Init /\ [][Next]_queueVars
===============================================================================
