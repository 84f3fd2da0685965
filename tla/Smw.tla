--------------------------------- MODULE Smw ----------------------------------
(***************************************************************************)
(* src/src/lib/smw.c: the cooperative scheduler every part of the server    *)
(* and of the client hangs its work on.  g_smw.tasks is a LinkedList whose  *)
(* items are task pointers; smw_work walks it and calls every task once.    *)
(* A callback is any sequence of calls the callbacks of this program make:  *)
(* a task in Spawner (the listener of tcp_server.c) registers others, and   *)
(* any task may, as its last call, destroy itself.                          *)
(***************************************************************************)
EXTENDS LinkedList

CONSTANT Spawner   \* the tasks whose callback registers tasks

ASSUME TaskAssumption == Spawner \subseteq Item /\ NULL \notin Item

Task == Item

VARIABLES ready,    \* g_smw.tasks # NULL
          node,     \* smw_work's local: the node of this round, NULL outside
          next,     \* smw_work's local, read before the callback
          task,     \* the task being called back, NULL between callbacks
          heap,     \* the allocated SmwTask structures
          due       \* history: registered when the pass began, not yet run

smwVars == <<ready, node, next, task, heap, due>>
vars == <<listVars, smwVars>>

registered == {item[n] : n \in live}

SmwTypeOK == /\ TypeOK
             /\ ready \in BOOLEAN
             /\ node \in Node \cup {NULL}
             /\ next \in Node \cup {NULL}
             /\ task \in Task \cup {NULL}
             /\ heap \in SUBSET Task
             /\ due \in SUBSET Task

-------------------------------------------------------------------------------
SmwInit == /\ linked_list_create
           /\ ready = FALSE
           /\ node = NULL /\ next = NULL /\ task = NULL
           /\ heap = {} /\ due = {}

smw_init == /\ ~ ready
            /\ ready' = TRUE
            /\ UNCHANGED <<listVars, node, next, task, heap, due>>

\* Outside smw_work, or inside a callback that has not destroyed its task.
MayCall == ready /\ (node = NULL \/ (task # NULL /\ node \in live))

(***************************************************************************)
(* malloc hands out any task structure that is not allocated, a freed one   *)
(* included.  When it fails, or the append does (the structure is freed     *)
(* again), nothing changes.                                                 *)
(***************************************************************************)
\* Mutant: the task is put at the front of the list.
smw_create_task_in_front(n, t) == /\ ready /\ t \notin heap
                                  /\ heap' = heap \cup {t}
                                  /\ linked_list_insert(0, n, t)

smw_create_task(n, t) == /\ ready /\ t \notin heap
                         /\ heap' = heap \cup {t}
                         /\ linked_list_append(n, t)

\* Mutant: the node removed is the one after the task's.
smw_destroy_task_next(t) ==
  \E n \in live :
    /\ ready /\ item[n] = t
    /\ heap' = heap \ {t}
    /\ linked_list_remove(IF front[n] = NULL THEN n ELSE front[n])

\* Mutant: the task is freed and its node stays in the list.
smw_destroy_task_keeps_node(t) ==
  \E n \in live : /\ ready /\ item[n] = t
                  /\ heap' = heap \ {t}
                  /\ UNCHANGED listVars

smw_destroy_task(t) ==
  \E n \in live : /\ ready /\ item[n] = t
                  /\ heap' = heap \ {t}
                  /\ linked_list_remove(n)

smw_dispose == /\ ready /\ node = NULL
               /\ linked_list_clear
               /\ ready' = FALSE
               /\ heap' = heap \ registered
               /\ UNCHANGED <<node, next, task, due>>

\* smw_work starts at the head of the list.
BeginWork == /\ ready /\ node = NULL
             /\ node' = head
             /\ due' = registered
             /\ UNCHANGED <<listVars, ready, next, task, heap>>

\* Save the successor, then call the task.
CallTask == /\ node # NULL /\ task = NULL
            /\ next' = front[node]
            /\ task' = item[node]
            /\ due' = due \ {item[node]}
            /\ UNCHANGED <<listVars, ready, node, heap>>

\* Mutant: the successor is read again after the callback.
TaskReturns_rereads == /\ task # NULL
                       /\ node' = front[node]
                       /\ next' = NULL /\ task' = NULL
                       /\ UNCHANGED <<listVars, ready, heap, due>>

\* Mutant: the walk starts over after every callback.
TaskReturns_restarts == /\ task # NULL
                        /\ node' = IF next = NULL THEN NULL ELSE head
                        /\ next' = NULL /\ task' = NULL
                        /\ UNCHANGED <<listVars, ready, heap, due>>

TaskReturns == /\ task # NULL
               /\ node' = next
               /\ next' = NULL /\ task' = NULL
               /\ UNCHANGED <<listVars, ready, heap, due>>

CreateTask == /\ MayCall
              /\ task = NULL \/ task \in Spawner
              /\ \E n \in Node, t \in Task : smw_create_task(n, t)
              /\ UNCHANGED <<ready, node, next, task, due>>

DestroyOwnTask == /\ MayCall /\ node # NULL
                  /\ smw_destroy_task(task)
                  /\ UNCHANGED <<ready, node, next, task, due>>

SmwNext == \/ smw_init \/ smw_dispose
           \/ BeginWork \/ CallTask \/ TaskReturns
           \/ CreateTask \/ DestroyOwnTask

SmwSpec == SmwInit /\ [][SmwNext]_vars

(***************************************************************************)
(* main calls smw_work again and again, and callbacks return.               *)
(***************************************************************************)
Fairness == WF_vars(BeginWork) /\ WF_vars(CallTask) /\ WF_vars(TaskReturns)

SmwFairSpec == SmwSpec /\ Fairness

-------------------------------------------------------------------------------
(***************************************************************************)
(* smw_work dereferences node only to save its successor and to read its    *)
(* task, and holds next across the callback: both are allocated whenever    *)
(* they are used, whatever the callback registered or destroyed.            *)
(***************************************************************************)
CursorLive == /\ task = NULL => node \in live \cup {NULL}
              /\ next \in live \cup {NULL}
              /\ node = NULL => next = NULL /\ task = NULL

(***************************************************************************)
(* The list and the allocated tasks stay in step: each allocated task is    *)
(* the item of exactly one node, and no node holds a freed one, so          *)
(* smw_work never calls through freed memory and smw_destroy_task, which    *)
(* frees the item of the first node it finds, leaves no second one behind.  *)
(***************************************************************************)
TasksSound == /\ registered = heap
              /\ \A m, n \in live : item[m] = item[n] => m = n

(***************************************************************************)
(* A pass ends only when every task that was registered when it began has   *)
(* been called or has been destroyed.                                       *)
(***************************************************************************)
PassMissesNobody == node = NULL => due \cap registered = {}

(***************************************************************************)
(* The walk over nodes implements the pass over tasks of TaskQueue: order   *)
(* of registration, each task once, a newcomer seen by the current pass     *)
(* exactly when the running node was not the last one.                      *)
(***************************************************************************)
From(n) == IF n = NULL THEN << >>
           ELSE SubSeq(Items, CHOOSE i \in 1 .. size : Order[i] = n, size)

Queue == INSTANCE TaskQueue WITH
           tasks <- Items,
           rest <- IF task = NULL THEN From(node) ELSE From(next),
           running <- task

ImplementsTaskQueue == Queue!Spec

(***************************************************************************)
(* No starvation: a registered task is called, unless smw_dispose takes it  *)
(* out of the list, however many tasks the others register meanwhile.  It   *)
(* needs spawners that are not themselves spawned: smw_work has no bound on *)
(* a pass, and tasks that register a successor before destroying themselves *)
(* would keep one pass going for ever, away from the head of the list.      *)
(***************************************************************************)
EveryTaskRuns ==
  \A t \in Task : (t \in registered) ~> (task = t \/ t \notin registered)
===============================================================================
