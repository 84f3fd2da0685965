------------------------------- MODULE SmwProofs ------------------------------
(***************************************************************************)
(* smw_work never follows a dangling cursor and never calls a freed task,   *)
(* for every number of tasks and every sequence of registrations and        *)
(* self-destructions in their callbacks.                                    *)
(***************************************************************************)
EXTENDS Smw, LinkedListProofs

(***************************************************************************)
(* What the cursor relies on between a callback's calls: as long as the     *)
(* running node is allocated it holds the running task, and the successor   *)
(* that was saved is another node.                                          *)
(***************************************************************************)
CallbackInv == /\ task # NULL /\ node \in live => item[node] = task
               /\ next # NULL => next # node

SmwIInv == SmwTypeOK /\ ListInv /\ TasksSound /\ CursorLive /\ CallbackInv

(***************************************************************************)
(* The pointers smw_work reads from a well-formed list lead to live nodes,  *)
(* and never back to the node they are read from.                           *)
(***************************************************************************)
LEMMA PointersLead ==
  ASSUME IInv
  PROVE  /\ head \in live \cup {NULL}
         /\ \A n \in live : front[n] \in live \cup {NULL} /\ front[n] # n
<1>1. TypeOK /\ size \in Nat /\ live \subseteq Node
  BY DEF IInv, TypeOK
<1>2. PICK s \in [1 .. size -> live] : Chain(s)
  BY DEF IInv, ListInv
<1>3. head \in live \cup {NULL}
  <2>1. head = IF size = 0 THEN NULL ELSE s[1]
    BY <1>2 DEF Chain
  <2> QED  BY <2>1, <1>1
<1>4. ASSUME NEW n \in live
      PROVE  front[n] \in live \cup {NULL} /\ front[n] # n
  <2>1. PICK i \in 1 .. size : s[i] = n
    BY <1>2 DEF Chain
  <2>2. front[n] = IF i = size THEN NULL ELSE s[i+1]
    BY <2>1, <1>2 DEF Chain
  <2>3. CASE i = size
    BY <2>2, <2>3, <1>1, NullAssumption
  <2>4. CASE i # size
    <3>1. i + 1 \in 1 .. size /\ i + 1 # i
      BY <2>4, <1>1
    <3>2. s[i+1] # s[i]
      BY <3>1, <1>2 DEF Chain
    <3> QED  BY <2>1, <2>2, <2>4, <3>1, <3>2
  <2> QED  BY <2>3, <2>4
<1> QED  BY <1>3, <1>4

(***************************************************************************)
(* A step that leaves the list and the heap alone keeps what is said of     *)
(* them.                                                                    *)
(***************************************************************************)
LEMMA SameList ==
  ASSUME UNCHANGED <<listVars, heap>>
  PROVE  (ListInv => ListInv') /\ (TasksSound => TasksSound')
<1>1. ASSUME ListInv
      PROVE  ListInv'
  <2>1. PICK s \in [1 .. size -> live] : Chain(s)
    BY <1>1 DEF ListInv
  <2>2. s \in [1 .. size' -> live'] /\ Chain(s)'
    BY <2>1 DEF Chain, listVars
  <2> QED  BY <2>2 DEF ListInv
<1>2. TasksSound => TasksSound'
  BY DEF TasksSound, registered, listVars
<1> QED  BY <1>1, <1>2

(***************************************************************************)
(* The scheduler starts with no list and no cursor.                         *)
(***************************************************************************)
LEMMA SmwInitEstablishes == SmwInit => SmwIInv
<1> SUFFICES ASSUME SmwInit
             PROVE  SmwIInv
  OBVIOUS
<1>1. IInv
  BY CreateEstablishes DEF SmwInit
<1>2. registered = {} /\ live = {}
  BY DEF SmwInit, linked_list_create, registered
<1> QED  BY <1>1, <1>2 DEF SmwInit, IInv, SmwIInv, SmwTypeOK, TasksSound, CursorLive, CallbackInv

-------------------------------------------------------------------------------
(***************************************************************************)
(* Registering a task, inside a callback or outside smw_work: the new node  *)
(* is no node the cursor knows, the new task none that is allocated.        *)
(***************************************************************************)
LEMMA CreateTaskPreserves == SmwIInv /\ CreateTask => SmwIInv'
<1> SUFFICES ASSUME SmwIInv, CreateTask
             PROVE  SmwIInv'
  OBVIOUS
<1>1. PICK n \in Node, t \in Task : smw_create_task(n, t)
  BY DEF CreateTask
<1>2. /\ IInv /\ SmwTypeOK /\ TypeOK /\ TasksSound /\ CursorLive /\ CallbackInv
  BY DEF SmwIInv, IInv, SmwTypeOK
<1>3. IInv'
  BY <1>1, <1>2, AppendPreserves DEF smw_create_task, Task
<1>4. /\ n \notin live /\ live' = live \cup {n} /\ live \subseteq Node
      /\ item' = [item EXCEPT ![n] = t] /\ item \in [Node -> Item \cup {NULL}]
      /\ t \notin heap /\ heap' = heap \cup {t}
  BY <1>1, <1>2 DEF smw_create_task, linked_list_append, calloc_node, TypeOK
<1>5. UNCHANGED <<ready, node, next, task, due>>
  BY DEF CreateTask
<1>6. item'[n] = t /\ \A m \in live : m # n /\ item'[m] = item[m]
  BY <1>4
<1>7. TasksSound'
  <2>1. registered = heap /\ \A k, m \in live : item[k] = item[m] => k = m
    BY <1>2 DEF TasksSound
  <2>2. \A m \in live : item[m] # t
    BY <2>1, <1>4 DEF registered
  <2>3. registered' = heap'
    BY <2>1, <1>4, <1>6 DEF registered
  <2>4. \A k, m \in live' : item'[k] = item'[m] => k = m
    BY <2>1, <2>2, <1>4, <1>6
  <2> QED  BY <2>3, <2>4 DEF TasksSound
<1>8. SmwTypeOK'
  BY <1>2, <1>3, <1>4, <1>5 DEF SmwTypeOK, IInv
<1>9. CursorLive'
  BY <1>2, <1>4, <1>5 DEF CursorLive
<1>10. CallbackInv'
  <2>1. task # NULL => node \in live
    BY <1>2 DEF CreateTask, MayCall, CursorLive
  <2> QED  BY <2>1, <1>2, <1>4, <1>5, <1>6 DEF CallbackInv
<1> QED  BY <1>3, <1>7, <1>8, <1>9, <1>10 DEF SmwIInv, IInv

(***************************************************************************)
(* A callback that destroys its own task removes the running node, and so   *)
(* never the one smw_work goes on to.                                       *)
(***************************************************************************)
LEMMA DestroyOwnTaskPreserves == SmwIInv /\ DestroyOwnTask => SmwIInv'
<1> SUFFICES ASSUME SmwIInv, DestroyOwnTask
             PROVE  SmwIInv'
  OBVIOUS
<1>1. PICK n \in live : /\ item[n] = task
                        /\ heap' = heap \ {task}
                        /\ linked_list_remove(n)
  BY DEF DestroyOwnTask, smw_destroy_task
<1>2. /\ IInv /\ SmwTypeOK /\ TypeOK /\ TasksSound /\ CursorLive /\ CallbackInv
  BY DEF SmwIInv, IInv, SmwTypeOK
<1>3. UNCHANGED <<ready, node, next, task, due>> /\ live \subseteq Node
  BY <1>2 DEF DestroyOwnTask, TypeOK
<1>4. IInv'
  BY <1>1, <1>2, <1>3, RemovePreserves
<1>5. task # NULL /\ node \in live
  BY DEF DestroyOwnTask, MayCall
<1>6. n = node
  BY <1>1, <1>2, <1>5 DEF CallbackInv, TasksSound
<1>7. /\ live' = live \ {n}
      /\ \A m \in live' : item'[m] = item[m]
  BY <1>1, <1>2 DEF linked_list_remove, TypeOK
<1>8. TasksSound'
  <2>1. registered = heap /\ \A k, m \in live : item[k] = item[m] => k = m
    BY <1>2 DEF TasksSound
  <2>2. registered' = registered \ {task}
    BY <2>1, <1>1, <1>7 DEF registered
  <2> QED  BY <2>1, <2>2, <1>1, <1>7 DEF TasksSound
<1>9. SmwTypeOK'
  BY <1>1, <1>2, <1>3, <1>4 DEF SmwTypeOK, IInv
<1>10. CursorLive' /\ CallbackInv'
  BY <1>2, <1>3, <1>5, <1>6, <1>7 DEF CursorLive, CallbackInv
<1> QED  BY <1>4, <1>8, <1>9, <1>10 DEF SmwIInv, IInv

(***************************************************************************)
(* The steps of smw_work itself move the cursor to live nodes only.         *)
(***************************************************************************)
LEMMA WorkPreserves ==
  ASSUME SmwIInv, BeginWork \/ CallTask \/ TaskReturns
  PROVE  SmwIInv'
<1>1. /\ IInv /\ SmwTypeOK /\ TypeOK /\ TasksSound /\ CursorLive /\ CallbackInv
  BY DEF SmwIInv, IInv, SmwTypeOK
<1>2. UNCHANGED <<listVars, ready, heap>>
  BY DEF BeginWork, CallTask, TaskReturns
<1>3. TypeOK' /\ ListInv' /\ TasksSound' /\ registered' = registered
  BY <1>1, <1>2 DEF IInv, TypeOK, ListInv, Chain, TasksSound, registered, listVars
<1>4. /\ live \subseteq Node /\ live' = live /\ item' = item
      /\ \A n \in live : item[n] \in heap /\ item[n] \in Task
      /\ registered \subseteq Task
  BY <1>1, <1>2 DEF SmwTypeOK, TypeOK, TasksSound, registered, listVars
<1>5. CASE BeginWork
  <2>1. head \in live \cup {NULL}
    BY <1>1, PointersLead
  <2>2. SmwTypeOK'
    BY <2>1, <1>1, <1>2, <1>3, <1>4, <1>5 DEF SmwTypeOK, BeginWork
  <2>3. CursorLive' /\ CallbackInv'
    BY <2>1, <1>1, <1>4, <1>5 DEF CursorLive, CallbackInv, BeginWork
  <2> QED  BY <2>2, <2>3, <1>3 DEF SmwIInv
<1>6. CASE CallTask
  <2>1. node \in live
    BY <1>1, <1>6 DEF CallTask, CursorLive
  <2>2. front[node] \in live \cup {NULL} /\ front[node] # node
    BY <2>1, <1>1, PointersLead
  <2>3. item[node] \in Task /\ item[node] # NULL
    BY <2>1, <1>4, TaskAssumption DEF Task
  <2>4. SmwTypeOK'
    BY <2>2, <2>3, <1>1, <1>2, <1>3, <1>4, <1>6 DEF SmwTypeOK, CallTask
  <2>5. CursorLive' /\ CallbackInv'
    BY <2>1, <2>2, <2>3, <1>1, <1>4, <1>6 DEF CursorLive, CallbackInv, CallTask
  <2> QED  BY <2>4, <2>5, <1>3 DEF SmwIInv
<1>7. CASE TaskReturns
  <2>1. SmwTypeOK'
    BY <1>1, <1>2, <1>3, <1>7 DEF SmwTypeOK, TaskReturns
  <2>2. CursorLive' /\ CallbackInv'
    BY <1>1, <1>4, <1>7 DEF CursorLive, CallbackInv, TaskReturns
  <2> QED  BY <2>1, <2>2, <1>3 DEF SmwIInv
<1> QED  BY <1>5, <1>6, <1>7

(***************************************************************************)
(* smw_init and smw_dispose leave an empty scheduler.                       *)
(***************************************************************************)
LEMMA StartStopPreserves ==
  ASSUME SmwIInv, smw_init \/ smw_dispose
  PROVE  SmwIInv'
<1>1. /\ IInv /\ SmwTypeOK /\ TypeOK /\ TasksSound /\ CursorLive /\ CallbackInv
  BY DEF SmwIInv, IInv, SmwTypeOK
<1>2. CASE smw_init
  <2>1. UNCHANGED <<listVars, node, next, task, heap, due>> /\ ready' = TRUE
    BY <1>2 DEF smw_init
  <2>2. SmwTypeOK' /\ CursorLive' /\ CallbackInv'
    BY <2>1, <1>1 DEF TypeOK, SmwTypeOK, CursorLive, CallbackInv, listVars
  <2> QED  BY <2>1, <2>2, <1>1, SameList DEF SmwIInv
<1>3. CASE smw_dispose
  <2>1. IInv'
    BY <1>3, ClearPreserves DEF smw_dispose
  <2>2. live' = {} /\ registered' = {} /\ heap' = {}
    BY <1>1, <1>3 DEF smw_dispose, linked_list_clear, registered, TasksSound
  <2>3. UNCHANGED <<node, next, task, due>> /\ ready' = FALSE /\ node = NULL
    BY <1>3 DEF smw_dispose
  <2>4. SmwTypeOK'
    BY <2>1, <2>2, <2>3, <1>1 DEF SmwTypeOK, IInv
  <2>5. TasksSound' /\ CursorLive' /\ CallbackInv'
    BY <2>2, <2>3, <1>1 DEF TasksSound, CursorLive, CallbackInv
  <2> QED  BY <2>1, <2>4, <2>5 DEF SmwIInv, IInv
<1> QED  BY <1>2, <1>3

-------------------------------------------------------------------------------
(***************************************************************************)
(* The inductive invariant of the scheduler.                                *)
(***************************************************************************)
THEOREM SmwInductive == SmwSpec => []SmwIInv
<1>1. SmwInit => SmwIInv
  BY SmwInitEstablishes
<1>2. SmwIInv /\ [SmwNext]_vars => SmwIInv'
  <2> SUFFICES ASSUME SmwIInv, [SmwNext]_vars
               PROVE  SmwIInv'
    OBVIOUS
  <2>1. CASE smw_init \/ smw_dispose
    BY <2>1, StartStopPreserves
  <2>2. CASE BeginWork \/ CallTask \/ TaskReturns
    BY <2>2, WorkPreserves
  <2>3. CASE CreateTask
    BY <2>3, CreateTaskPreserves
  <2>4. CASE DestroyOwnTask
    BY <2>4, DestroyOwnTaskPreserves
  <2>5. CASE UNCHANGED vars
    <3>1. UNCHANGED <<listVars, ready, node, next, task, heap, due>>
      BY <2>5 DEF vars, smwVars
    <3>2. SmwTypeOK' /\ CursorLive' /\ CallbackInv'
      BY <3>1 DEF SmwIInv, TypeOK, SmwTypeOK, CursorLive, CallbackInv, listVars
    <3> QED  BY <3>1, <3>2, SameList DEF SmwIInv
  <2> QED  BY <2>1, <2>2, <2>3, <2>4, <2>5 DEF SmwNext
<1> QED  BY <1>1, <1>2, PTL DEF SmwSpec

(***************************************************************************)
(* The variables of the scheduler and of its list hold what they should.    *)
(***************************************************************************)
THEOREM SmwTypeCorrect == SmwSpec => []SmwTypeOK
<1>1. SmwIInv => SmwTypeOK
  BY DEF SmwIInv
<1> QED  BY <1>1, SmwInductive, PTL

(***************************************************************************)
(* smw_work's node and next are allocated whenever they are used, whatever  *)
(* callbacks register and destroy, for any number of tasks.                 *)
(***************************************************************************)
THEOREM CursorNeverDangles == SmwSpec => []CursorLive
<1>1. SmwIInv => CursorLive
  BY DEF SmwIInv
<1> QED  BY <1>1, SmwInductive, PTL

(***************************************************************************)
(* The allocated tasks are exactly the items of the list, each in one node. *)
(***************************************************************************)
THEOREM TasksStaySound == SmwSpec => []TasksSound
<1>1. SmwIInv => TasksSound
  BY DEF SmwIInv
<1> QED  BY <1>1, SmwInductive, PTL

-------------------------------------------------------------------------------
(***************************************************************************)
(* No pass misses a task.  The nodes whose tasks the pass still owes a call *)
(* are a stretch of the list that begins at the cursor: each of them is the *)
(* cursor or comes right after another of them.                             *)
(***************************************************************************)
Cursor == IF task = NULL THEN node ELSE next

Pending == {n \in live : item[n] \in due}

PassInv == /\ due \subseteq heap /\ task \notin due
           /\ \A n \in Pending : n = Cursor \/ back[n] \in Pending

\* The head has nobody before it, the others somebody who points to them.
LEMMA NeighboursAgree ==
  ASSUME IInv
  PROVE  /\ \A n \in live : n = head \/ back[n] \in live
         /\ \A m, n \in live : back[n] = m <=> front[m] = n
         /\ head = NULL => live = {}
<1>1. TypeOK /\ size \in Nat /\ live \subseteq Node
  BY DEF IInv, TypeOK
<1>2. PICK s \in [1 .. size -> live] : Chain(s)
  BY DEF IInv, ListInv
<1>3. \A n \in live : \E i \in 1 .. size : s[i] = n
  BY <1>2 DEF Chain
<1>4. \A i \in 1 .. size : /\ back[s[i]] = IF i = 1 THEN NULL ELSE s[i-1]
                           /\ front[s[i]] = IF i = size THEN NULL ELSE s[i+1]
  BY <1>2 DEF Chain
<1>5. \A i, j \in 1 .. size : s[i] = s[j] => i = j
  BY <1>2 DEF Chain
<1>6. head = IF size = 0 THEN NULL ELSE s[1]
  BY <1>2 DEF Chain
<1>7. ASSUME NEW n \in live PROVE n = head \/ back[n] \in live
  <2>1. PICK i \in 1 .. size : s[i] = n
    BY <1>3
  <2>2. i # 1 => i - 1 \in 1 .. size
    BY <1>1
  <2> QED  BY <1>1, <1>4, <1>6, <2>1, <2>2
<1>8. ASSUME NEW m \in live, NEW n \in live PROVE back[n] = m <=> front[m] = n
  <2>1. PICK i \in 1 .. size : s[i] = n
    BY <1>3
  <2>2. PICK j \in 1 .. size : s[j] = m
    BY <1>3
  <2>3. back[n] = m <=> i - 1 = j
    <3>1. i # 1 => i - 1 \in 1 .. size
      BY <1>1
    <3> QED  BY <1>1, <1>4, <1>5, <2>1, <2>2, <3>1, NullAssumption
  <2>4. front[m] = n <=> j + 1 = i
    <3>1. j # size => j + 1 \in 1 .. size
      BY <1>1
    <3> QED  BY <1>1, <1>4, <1>5, <2>1, <2>2, <3>1, NullAssumption
  <2> QED  BY <1>1, <2>3, <2>4
<1>9. head = NULL => live = {}
  <2>1. size # 0 => 1 \in 1 .. size
    BY <1>1
  <2> QED  BY <1>1, <1>3, <1>6, <2>1, NullAssumption
<1> QED  BY <1>7, <1>8, <1>9

\* The first of the pending nodes can only be the cursor.
LEMMA PendingFromCursor ==
  ASSUME IInv, PassInv, Pending # {}
  PROVE  Cursor \in Pending
<1>1. size \in Nat /\ live \subseteq Node
  BY DEF IInv, TypeOK
<1>2. PICK s \in [1 .. size -> live] : Chain(s)
  BY DEF IInv, ListInv
<1> DEFINE P == {i \in 1 .. size : s[i] \in Pending}
<1>3. P \in SUBSET Nat /\ P # {}
  <2>1. PICK n \in Pending : n \in live
    BY DEF Pending
  <2>2. PICK i \in 1 .. size : s[i] = n
    BY <1>2, <2>1 DEF Chain
  <2>3. i \in P
    BY <2>2
  <2> QED  BY <1>1, <2>3
<1>4. PICK i \in P : \A j \in P : i <= j
  BY <1>3, LeastNatural
<1>5. CASE s[i] = Cursor
  BY <1>5
<1>6. CASE back[s[i]] \in Pending
  <2>1. back[s[i]] = IF i = 1 THEN NULL ELSE s[i-1]
    BY <1>2 DEF Chain
  <2>2. i # 1
    BY <1>1, <1>6, <2>1, NullAssumption DEF Pending
  <2>3. i - 1 \in P
    BY <1>1, <1>6, <2>1, <2>2
  <2> QED  BY <1>3, <1>4, <2>3
<1> QED  BY <1>5, <1>6 DEF PassInv

LEMMA PassHolds ==
  ASSUME SmwIInv, PassInv, [SmwNext]_vars
  PROVE  PassInv'
<1>1. /\ IInv /\ TypeOK /\ SmwTypeOK /\ TasksSound /\ CursorLive /\ CallbackInv
      /\ live \subseteq Node /\ due \subseteq heap /\ task \notin due /\ heap \subseteq Task
  BY DEF SmwIInv, IInv, SmwTypeOK, TypeOK, PassInv
<1>2. /\ registered = heap /\ NULL \notin Task
      /\ \A m, n \in live : item[m] = item[n] => m = n
  BY <1>1, TaskAssumption DEF TasksSound, Task
<1>3. CASE smw_init \/ TaskReturns \/ UNCHANGED vars
  <2>1. UNCHANGED <<listVars, heap, due>> /\ Cursor' = Cursor
    BY <1>1, <1>3 DEF smw_init, TaskReturns, vars, smwVars, Cursor
  <2>2. task' \in {task, NULL}
    BY <1>3 DEF smw_init, TaskReturns, vars, smwVars
  <2> QED  BY <1>1, <1>2, <2>1, <2>2 DEF PassInv, Pending, listVars
<1>4. CASE BeginWork
  <2>1. /\ due' = registered /\ task' = NULL /\ node' = head /\ UNCHANGED <<listVars, heap>>
    BY <1>1, <1>4 DEF BeginWork, CursorLive
  <2>2. Pending' = live /\ Cursor' = head /\ back' = back
    BY <2>1 DEF Pending, registered, Cursor, listVars
  <2> QED  BY <1>1, <1>2, <2>1, <2>2, NeighboursAgree DEF PassInv
<1>5. CASE CallTask
  <2>1. /\ node \in live /\ task = NULL /\ due' = due \ {item[node]}
        /\ task' = item[node] /\ next' = front[node] /\ UNCHANGED <<listVars, heap>>
    BY <1>1, <1>5 DEF CallTask, CursorLive
  <2>2. item[node] \in Task
    BY <1>1, <1>2, <2>1 DEF registered
  <2>3. /\ Pending' = Pending \ {node} /\ back' = back
        /\ Cursor = node /\ Cursor' = front[node]
    BY <1>2, <2>1, <2>2 DEF Pending, Cursor, listVars
  <2>4. ASSUME NEW n \in Pending' PROVE n = Cursor' \/ back'[n] \in Pending'
    <3>1. n \in live /\ n \in Pending /\ n # node /\ back[n] \in Pending
      BY <2>3 DEF Pending, PassInv
    <3>2. back[n] = node => n = front[node]
      BY <1>1, <2>1, <3>1, NeighboursAgree
    <3> QED  BY <2>3, <3>1, <3>2
  <2> QED  BY <1>1, <2>1, <2>4 DEF PassInv
<1>6. CASE CreateTask
  <2>1. PICK n \in Node, t \in Task : smw_create_task(n, t)
    BY <1>6 DEF CreateTask
  <2>2. /\ n \notin live /\ live' = live \cup {n} /\ item' = [item EXCEPT ![n] = t]
        /\ back' = [back EXCEPT ![n] = tail] /\ t \notin heap /\ heap' = heap \cup {t}
        /\ UNCHANGED <<node, next, task, due>>
    BY <1>6, <2>1 DEF CreateTask, smw_create_task, linked_list_append, calloc_node
  <2>3. /\ item'[n] = t /\ \A m \in live : item'[m] = item[m] /\ back'[m] = back[m]
    BY <1>1, <2>2 DEF TypeOK
  <2>4. Pending' = Pending /\ Cursor' = Cursor
    BY <1>1, <2>2, <2>3 DEF Pending, Cursor
  <2> QED  BY <1>1, <2>2, <2>3, <2>4 DEF PassInv, Pending
<1>7. CASE DestroyOwnTask
  <2>1. PICK r \in live : /\ item[r] = task /\ heap' = heap \ {task}
                          /\ linked_list_remove(r)
    BY <1>7 DEF DestroyOwnTask, smw_destroy_task
  <2>2. /\ live' = live \ {r} /\ item' = [item EXCEPT ![r] = NULL]
        /\ back' = Bypass(back, front, r) /\ UNCHANGED <<node, next, task, due>>
    BY <1>7, <2>1 DEF DestroyOwnTask, linked_list_remove
  <2>3. \A m \in live : m # r => item'[m] = item[m]
    BY <1>1, <2>2 DEF TypeOK
  <2>4. Pending' = Pending /\ Cursor' = Cursor /\ r \notin Pending
    BY <1>1, <2>1, <2>2, <2>3 DEF Pending, Cursor
  <2>5. ASSUME NEW n \in Pending, n # Cursor PROVE back'[n] \in Pending
    <3>1. n \in live /\ n # r /\ back[n] \in Pending /\ back[n] # r /\ back[n] \in live
      BY <2>4, <2>5 DEF Pending, PassInv
    <3>2. n # front[r]
      BY <1>1, <3>1, NeighboursAgree
    <3> QED  BY <1>1, <2>2, <3>1, <3>2 DEF Bypass
  <2> QED  BY <1>1, <2>1, <2>2, <2>4, <2>5 DEF PassInv
<1>8. CASE smw_dispose
  <2>1. /\ live' = {} /\ heap' = {} /\ node = NULL /\ UNCHANGED <<task, due>>
    BY <1>2, <1>8 DEF smw_dispose, linked_list_clear
  <2>2. due = {}
    <3>1. Cursor \notin Pending
      BY <1>1, <2>1, NullAssumption DEF Cursor, CursorLive, Pending
    <3>2. Pending = {}
      BY <1>1, <3>1, PendingFromCursor
    <3> QED  BY <1>1, <1>2, <3>2 DEF Pending, registered
  <2> QED  BY <2>1, <2>2 DEF PassInv, Pending
<1> QED  BY <1>3, <1>4, <1>5, <1>6, <1>7, <1>8 DEF SmwNext

(***************************************************************************)
(* smw_work ends its walk only when every task registered at its beginning  *)
(* has been called or is gone (smw.c, smw_work), for any number of tasks.   *)
(***************************************************************************)
THEOREM NoPassMissesATask == SmwSpec => []PassMissesNobody
<1>1. SmwInit => SmwIInv /\ PassInv
  <2>1. SmwInit => PassInv
    BY TaskAssumption DEF SmwInit, linked_list_create, PassInv, Pending
  <2> QED  BY <2>1, SmwInitEstablishes
<1>2. SmwIInv /\ PassInv /\ [SmwNext]_vars => PassInv'
  BY PassHolds
<1>3. SmwIInv /\ PassInv => PassMissesNobody
  <2> SUFFICES ASSUME SmwIInv, PassInv, node = NULL PROVE due \cap registered = {}
    BY DEF PassMissesNobody
  <2>1. Cursor \notin Pending
    BY NullAssumption DEF Cursor, SmwIInv, SmwTypeOK, TypeOK, CursorLive, Pending
  <2>2. Pending = {}
    BY <2>1, PendingFromCursor DEF SmwIInv, IInv, SmwTypeOK
  <2> QED  BY <2>2 DEF Pending, registered
<1> QED  BY <1>1, <1>2, <1>3, SmwInductive, PTL DEF SmwSpec

-------------------------------------------------------------------------------
(***************************************************************************)
(* The walk of smw_work over the nodes of its list implements the pass over *)
(* the tasks of TaskQueue, on which WeatherServer is built.                 *)
(***************************************************************************)
\* What Smw's mapping gives TaskQueue for rest: the items from the cursor on.
Rest == IF task = NULL THEN From(node) ELSE From(next)

(***************************************************************************)
(* A saved successor stays the running node's successor: callbacks append   *)
(* behind the last node only, and a callback that frees its node is over.   *)
(***************************************************************************)
SuccInv == task # NULL /\ node \in live /\ next # NULL => next = front[node]

RInv == SmwIInv /\ SuccInv

(***************************************************************************)
(* The items from the node at position k on.                                *)
(***************************************************************************)
LEMMA FromAt ==
  ASSUME TypeOK, NEW s \in [1 .. size -> live], Chain(s), NEW k \in 1 .. size
  PROVE  From(s[k]) = SubSeq(Items, k, size)
<1>1. Order = s
  BY OrderIs
<1>2. s[k] # NULL
  BY NullAssumption DEF TypeOK
<1>3. \A i \in 1 .. size : s[i] = s[k] <=> i = k
  BY DEF Chain
<1>4. (CHOOSE i \in 1 .. size : Order[i] = s[k]) = k
  BY <1>1, <1>3
<1> QED  BY <1>2, <1>4 DEF From

\* The same of the next state.
LEMMA NextFromAt ==
  ASSUME TypeOK', NEW s \in [1 .. size' -> live'], Chain(s)', NEW k \in 1 .. size'
  PROVE  From(s[k])' = SubSeq(Items', k, size')
<1>1. Order' = s
  BY NextOrderIs
<1>2. s[k] # NULL
  BY NullAssumption DEF TypeOK
<1>3. \A i \in 1 .. size' : s[i] = s[k] <=> i = k
  BY DEF Chain
<1>4. (CHOOSE i \in 1 .. size' : Order'[i] = s[k]) = k
  BY <1>1, <1>3
<1> QED  BY <1>2, <1>4 DEF From

LEMMA FromNull == From(NULL) = << >> /\ From(NULL)' = << >>
BY DEF From

\* A step that leaves the list alone leaves the items and where they begin.
LEMMA SameItems ==
  ASSUME UNCHANGED listVars
  PROVE  Items' = Items /\ \A n : From(n)' = From(n)
<1>1. Order' = Order
  BY DEF Order, Chain, listVars
<1>2. Items' = Items
  BY <1>1 DEF Items, listVars
<1> QED  BY <1>1, <1>2 DEF From, listVars

-------------------------------------------------------------------------------
(***************************************************************************)
(* The steps of smw_work: a pass begins, a task is called, it returns.      *)
(***************************************************************************)
LEMMA BeginRefines ==
  ASSUME RInv, BeginWork
  PROVE  Queue!BeginPass /\ SuccInv'
<1>1. /\ TypeOK /\ size \in Nat /\ ready /\ node = NULL /\ task = NULL
      /\ node' = head /\ UNCHANGED <<listVars, task>>
  BY DEF RInv, SmwIInv, SmwTypeOK, TypeOK, CursorLive, BeginWork
<1>2. PICK s \in [1 .. size -> live] : Chain(s)
  BY DEF RInv, SmwIInv, ListInv
<1>3. Items \in Seq(Item \cup {NULL}) /\ Len(Items) = size
  BY <1>1, <1>2, ItemsAre
<1>4. From(head) = Items
  <2>1. CASE size = 0
    <3>1. head = NULL
      BY <1>2, <2>1 DEF Chain
    <3>2. Items = << >>
      BY <1>3, <2>1, EmptySeq
    <3> QED  BY <3>1, <3>2, FromNull
  <2>2. CASE size # 0
    <3>1. head = s[1] /\ 1 \in 1 .. size
      BY <1>1, <1>2, <2>2 DEF Chain
    <3>2. From(s[1]) = SubSeq(Items, 1, size)
      BY <1>1, <1>2, <3>1, FromAt
    <3> QED  BY <1>3, <3>1, <3>2, SubSeqFull
  <2> QED  BY <2>1, <2>2
<1>5. Items' = Items /\ From(node)' = From(head)
  <2>1. PICK c : c = head
    OBVIOUS
  <2>2. From(node)' = From(c)'
    BY <1>1, <2>1 DEF From
  <2> QED  BY <1>1, <2>1, <2>2, SameItems
<1> QED  BY <1>1, <1>4, <1>5, FromNull DEF Queue!BeginPass, Queue!Idle, SuccInv

LEMMA CallRefines ==
  ASSUME RInv, CallTask
  PROVE  Queue!Dispatch /\ SuccInv'
<1>1. /\ TypeOK /\ size \in Nat /\ node \in live /\ task = NULL
      /\ next' = front[node] /\ task' = item[node]
      /\ UNCHANGED listVars /\ UNCHANGED node
  BY DEF RInv, SmwIInv, SmwTypeOK, TypeOK, CursorLive, CallTask
<1>2. PICK s \in [1 .. size -> live] : Chain(s)
  BY DEF RInv, SmwIInv, ListInv
<1>3. /\ Items \in Seq(Item \cup {NULL}) /\ Len(Items) = size
      /\ \A i \in 1 .. size : Items[i] = item[s[i]]
  BY <1>1, <1>2, ItemsAre
<1>4. PICK k \in 1 .. size : s[k] = node
  BY <1>1, <1>2 DEF Chain
<1>5. Rest = SubSeq(Items, k, size)
  BY <1>1, <1>2, <1>4, FromAt DEF Rest
<1>6. Head(Rest) = item[node] /\ Tail(Rest) = SubSeq(Items, k + 1, size)
  <2>1. k \in 1 .. Len(Items) /\ Len(Items) \in k .. Len(Items)
    BY <1>1, <1>3
  <2> QED  BY <2>1, <1>3, <1>4, <1>5, HeadTailOfSubSeq
<1>7. Rest # << >>
  <2>1. k \in 1 .. Len(Items) /\ Len(Items) - k + 1 # 0
    BY <1>1, <1>3
  <2>2. Len(SubSeq(Items, k, Len(Items))) = Len(Items) - k + 1
    BY <2>1, <1>3, SuffixElements
  <2> QED  BY <2>1, <2>2, <1>3, <1>5, EmptySeq
<1>8. item[node] \in Task /\ item[node] # NULL
  BY <1>1, TaskAssumption DEF RInv, SmwIInv, SmwTypeOK, TasksSound, registered, Task
<1>9. From(front[node]) = SubSeq(Items, k + 1, size)
  <2>1. front[node] = IF k = size THEN NULL ELSE s[k+1]
    BY <1>2, <1>4 DEF Chain
  <2>2. CASE k = size
    <3>1. SubSeq(Items, k + 1, size) = << >>
      BY <2>2, <1>1, SubSeqEmpty
    <3> QED  BY <2>1, <2>2, <3>1, FromNull
  <2>3. CASE k # size
    <3>1. k + 1 \in 1 .. size
      BY <2>3, <1>1
    <3> QED  BY <2>1, <2>3, <3>1, <1>1, <1>2, FromAt
  <2> QED  BY <2>2, <2>3
<1>10. Items' = Items /\ From(next)' = From(front[node])
  <2>1. PICK c : c = front[node]
    OBVIOUS
  <2>2. From(next)' = From(c)'
    BY <1>1, <2>1 DEF From
  <2> QED  BY <1>1, <2>1, <2>2, SameItems
<1>11. Rest' = Tail(Rest)
  BY <1>1, <1>6, <1>8, <1>9, <1>10 DEF Rest
<1>12. SuccInv'
  BY <1>1 DEF SuccInv, listVars
<1> QED  BY <1>1, <1>6, <1>7, <1>8, <1>10, <1>11, <1>12 DEF Queue!Dispatch, Rest

LEMMA ReturnRefines ==
  ASSUME RInv, TaskReturns
  PROVE  Queue!Return /\ SuccInv'
<1>1. /\ task # NULL /\ task' = NULL /\ node' = next /\ UNCHANGED listVars
  BY DEF TaskReturns
<1>2. Items' = Items /\ From(node)' = From(next)
  <2>1. PICK c : c = next
    OBVIOUS
  <2>2. From(node)' = From(c)'
    BY <1>1, <2>1 DEF From
  <2> QED  BY <1>1, <2>1, <2>2, SameItems
<1> QED  BY <1>1, <1>2 DEF Queue!Return, SuccInv

-------------------------------------------------------------------------------
(***************************************************************************)
(* The calls a callback makes, and those from outside a pass.               *)
(***************************************************************************)
LEMMA CreateRefines ==
  ASSUME RInv, CreateTask
  PROVE  Queue!Create /\ SuccInv'
<1>1. /\ TypeOK /\ size \in Nat /\ live \subseteq Node
      /\ TasksSound /\ CursorLive /\ SuccInv
  BY DEF RInv, SmwIInv, SmwTypeOK, TypeOK
<1>2. PICK n \in Node, x \in Task : smw_create_task(n, x)
  BY DEF CreateTask
<1>3. /\ linked_list_append(n, x) /\ x \notin heap /\ x \in Item
      /\ UNCHANGED <<node, next, task>>
  BY <1>2 DEF CreateTask, smw_create_task, Task
<1>4. /\ n \notin live /\ live' = live \cup {n} /\ size' = size + 1
      /\ front' = [m \in Node |-> IF m = n THEN NULL ELSE IF m = tail THEN n ELSE front[m]]
  BY <1>3 DEF linked_list_append, calloc_node
<1>5. PICK s \in [1 .. size -> live] : Chain(s)
  BY DEF RInv, SmwIInv, ListInv
<1>6. PICK t : t = [i \in 1 .. size + 1 |-> IF i = size + 1 THEN n ELSE s[i]]
  OBVIOUS
<1>7. TypeOK' /\ t \in [1 .. size' -> live'] /\ Chain(t)'
  BY <1>1, <1>3, <1>5, <1>6, AppendLinks
<1>8. /\ Items \in Seq(Item \cup {NULL}) /\ Len(Items) = size
      /\ \A i \in 1 .. size : Items[i] = item[s[i]]
  BY <1>1, <1>5, ItemsAre
<1>9. Items' = Append(Items, x)
  <2>1. Items' = InsertAt(Items, size + 1, x)
    BY <1>1, <1>3, <1>5, AppendAdds
  <2>2. PICK S, q : S = Item \cup {NULL} /\ q = Items
    OBVIOUS
  <2>3. InsertAt(q, Len(q) + 1, x) = Append(q, x)
    <3>1. q \in Seq(S) /\ x \in S
      BY <2>2, <1>3, <1>8
    <3> QED  BY <3>1, InsertAtEnd
  <2> QED  BY <2>1, <2>2, <2>3, <1>8
<1>10. x \notin ToSet(Items)
  <2>1. ToSet(Items) = {Items[i] : i \in 1 .. size}
    BY <1>8, ToSetIs
  <2>2. \A i \in 1 .. size : Items[i] \in registered
    BY <1>8 DEF registered
  <2> QED  BY <2>1, <2>2, <1>1, <1>3 DEF TasksSound
<1>11. Cursor \in live \cup {NULL} /\ Cursor' = Cursor
       /\ Rest = From(Cursor) /\ Rest' = From(Cursor)'
  <2>1. Cursor \in live \cup {NULL} /\ Cursor' = Cursor
    BY <1>1, <1>3 DEF Cursor, CursorLive
  <2>2. Rest = From(Cursor)
    BY DEF Rest, Cursor
  <2>3. Rest' = From(Cursor)'
    BY DEF Rest, Cursor
  <2> QED  BY <2>1, <2>2, <2>3
<1>12. Rest' = IF Rest = << >> THEN << >> ELSE Append(Rest, x)
  <2>1. CASE Cursor = NULL
    <3>1. From(Cursor)' = From(NULL)'
      BY <2>1, <1>11 DEF From
    <3> QED  BY <2>1, <3>1, <1>11, FromNull
  <2>2. CASE Cursor # NULL
    <3>1. PICK k \in 1 .. size : s[k] = Cursor
      BY <2>2, <1>5, <1>11 DEF Chain
    <3>2. k \in 1 .. size' /\ t[k] = s[k] /\ k \in 1 .. Len(Items)
      BY <1>1, <1>4, <1>6, <1>8
    <3>3. Rest = SubSeq(Items, k, Len(Items))
      BY <3>1, <1>1, <1>5, <1>8, <1>11, FromAt
    <3>4. From(Cursor)' = From(t[k])'
      BY <3>1, <3>2, <1>11 DEF From
    <3>5. Rest' = SubSeq(Items', k, size')
      BY <3>2, <3>4, <1>7, <1>11, NextFromAt
    <3>6. Len(Append(Items, x)) = size'
      BY <1>3, <1>4, <1>8, AppendProperties
    <3>7. Rest' = Append(Rest, x)
      BY <3>2, <3>3, <3>5, <3>6, <1>3, <1>8, <1>9, SuffixGrows
    <3>8. Rest # << >>
      <4>1. Len(SubSeq(Items, k, Len(Items))) = Len(Items) - k + 1 /\ Len(Items) - k + 1 # 0
        BY <3>2, <1>8, SuffixElements
      <4> QED  BY <3>3, <4>1, EmptySeq
    <3> QED  BY <3>7, <3>8
  <2> QED  BY <2>1, <2>2
<1>13. Queue!Register(x)
  BY <1>9, <1>10, <1>12 DEF Queue!Register, Queue!IsRegistered, Queue!ToSet, ToSet, Rest
<1>14. SuccInv'
  <2> SUFFICES ASSUME task # NULL, node \in live', next # NULL PROVE next = front'[node]
    BY <1>3 DEF SuccInv
  <2>1. node \in live
    BY <1>2 DEF CreateTask, MayCall, RInv, SmwIInv, CursorLive
  <2>2. next = front[node]
    BY <1>1, <2>1 DEF SuccInv
  <2>3. tail = s[size] /\ size \in 1 .. size
    BY <1>1, <1>5, <2>1 DEF Chain
  <2>4. front[tail] = NULL
    BY <2>3, <1>5 DEF Chain
  <2> QED  BY <2>1, <2>2, <2>4, <1>1, <1>4
<1> QED  BY <1>3, <1>13, <1>14 DEF Queue!Create, Queue!StaysOrReturns, Task

LEMMA DestroyRefines ==
  ASSUME RInv, DestroyOwnTask
  PROVE  Queue!DestroySelf /\ SuccInv'
<1>1. /\ TypeOK /\ size \in Nat /\ live \subseteq Node /\ NULL \notin Node
      /\ TasksSound /\ CursorLive /\ CallbackInv /\ SuccInv
  BY NullAssumption DEF RInv, SmwIInv, SmwTypeOK, TypeOK
<1>2. /\ task # NULL /\ node \in live /\ UNCHANGED <<node, next, task>>
  BY <1>1 DEF DestroyOwnTask, MayCall
<1>3. /\ item[node] = task /\ linked_list_remove(node)
  <2>1. PICK n \in live : item[n] = task /\ linked_list_remove(n)
    BY DEF DestroyOwnTask, smw_destroy_task
  <2>2. n = node
    BY <1>1, <1>2, <2>1 DEF CallbackInv, TasksSound
  <2> QED  BY <2>1, <2>2
<1>4. PICK s \in [1 .. size -> live] : Chain(s)
  BY DEF RInv, SmwIInv, ListInv
<1>5. PICK k \in 1 .. size : s[k] = node
  BY <1>2, <1>4 DEF Chain
<1>6. PICK q : q = [i \in 1 .. size - 1 |-> s[IF i < k THEN i ELSE i + 1]]
  OBVIOUS
<1>7. TypeOK' /\ q \in [1 .. size' -> live'] /\ Chain(q)'
  BY <1>1, <1>2, <1>3, <1>4, <1>5, <1>6, RemoveUnlinks
<1>8. /\ Items \in Seq(Item \cup {NULL}) /\ Len(Items) = size
      /\ \A i \in 1 .. size : Items[i] = item[s[i]]
  BY <1>1, <1>4, ItemsAre
<1>9. Items' = RemoveAt(Items, k) /\ Items[k] = task /\ k \in DOMAIN Items
  <2>1. Items' = RemoveAt(Items, k)
    BY <1>1, <1>3, <1>4, <1>5, RemoveTakes
  <2> QED  BY <2>1, <1>3, <1>5, <1>8, LenProperties
<1>10. From(next)' = From(next)
  <2>1. CASE next = NULL
    <3>1. From(next)' = From(NULL)'
      BY <2>1, <1>2 DEF From
    <3> QED  BY <2>1, <3>1, FromNull
  <2>2. CASE next # NULL
    <3>1. next = front[s[k]]
      BY <2>2, <1>1, <1>2, <1>5 DEF SuccInv
    <3>2. k # size /\ next = s[k+1]
      BY <2>2, <3>1, <1>4 DEF Chain
    <3>3. /\ k + 1 \in 1 .. size /\ k + 1 \in k + 1 .. Len(Items)
          /\ size' = size - 1 /\ k \in 1 .. size' /\ q[k] = s[k+1]
      BY <3>2, <1>1, <1>3, <1>6, <1>8 DEF linked_list_remove
    <3>4. From(next) = SubSeq(Items, k + 1, size)
      BY <3>2, <3>3, <1>1, <1>4, FromAt
    <3>5. From(next)' = From(q[k])'
      BY <3>2, <3>3, <1>2 DEF From
    <3>6. From(q[k])' = SubSeq(Items', k, size')
      BY <3>3, <1>7, NextFromAt
    <3>7. SubSeq(RemoveAt(Items, k), k, size - 1) = SubSeq(Items, k + 1, size)
      <4>1. PICK j : j = k + 1
        OBVIOUS
      <4>2. SubSeq(RemoveAt(Items, k), j - 1, Len(Items) - 1) = SubSeq(Items, j, Len(Items))
        BY <3>3, <4>1, <1>8, SuffixStays
      <4>3. j - 1 = k
        BY <4>1, <1>1
      <4> QED  BY <4>1, <4>2, <4>3, <1>8
    <3> QED  BY <3>3, <3>4, <3>5, <3>6, <3>7, <1>9
  <2> QED  BY <2>1, <2>2
<1>11. Queue!Unregister(task)
  BY <1>2, <1>9, <1>10 DEF Queue!Unregister, Queue!RemoveAt, RemoveAt
<1>12. SuccInv'
  BY <1>2, <1>3 DEF SuccInv, linked_list_remove
<1> QED  BY <1>2, <1>11, <1>12 DEF Queue!DestroySelf, Queue!StaysOrReturns

LEMMA DisposeRefines ==
  ASSUME RInv, smw_dispose
  PROVE  Queue!DestroyAll /\ SuccInv'
<1>1. /\ node = NULL /\ task = NULL /\ UNCHANGED <<node, next, task>> /\ size' = 0
  BY DEF RInv, SmwIInv, CursorLive, smw_dispose, linked_list_clear
<1>2. Items' = << >>
  BY <1>1 DEF Items
<1>3. From(node)' = From(NULL)'
  BY <1>1 DEF From
<1> QED  BY <1>1, <1>2, <1>3, FromNull DEF Queue!DestroyAll, Queue!Idle, SuccInv

LEMMA QuietRefines ==
  ASSUME RInv, UNCHANGED <<listVars, node, next, task>>
  PROVE  UNCHANGED <<Items, Rest, task>> /\ SuccInv'
<1>1. From(node)' = From(node) /\ From(next)' = From(next) /\ Items' = Items
  <2>1. PICK c, d : c = node /\ d = next
    OBVIOUS
  <2>2. From(node)' = From(c)' /\ From(next)' = From(d)'
    BY <2>1 DEF From
  <2> QED  BY <2>1, <2>2, SameItems
<1> QED  BY <1>1 DEF Rest, RInv, SuccInv, listVars

-------------------------------------------------------------------------------
(***************************************************************************)
(* smw_work over linked_list.c implements TaskQueue, for any tasks: a pass  *)
(* runs them in the order of their registration, and a newcomer is seen by  *)
(* it exactly when the running node was not the last one.                   *)
(***************************************************************************)
THEOREM TaskQueueRefined == SmwSpec => ImplementsTaskQueue
<1>1. SmwInit => RInv /\ Queue!Init
  <2> SUFFICES ASSUME SmwInit PROVE RInv /\ Queue!Init
    OBVIOUS
  <2>1. node = NULL /\ next = NULL /\ task = NULL /\ size = 0
    BY DEF SmwInit, linked_list_create
  <2>2. Items = << >>
    BY <2>1 DEF Items
  <2> QED  BY <2>1, <2>2, SmwInitEstablishes, FromNull DEF RInv, SuccInv, Queue!Init
<1>2. RInv /\ SmwIInv' /\ [SmwNext]_vars
        => RInv' /\ [Queue!Next]_<<Items, Rest, task>>
  <2> SUFFICES ASSUME RInv, SmwIInv', [SmwNext]_vars
               PROVE  SuccInv' /\ [Queue!Next]_<<Items, Rest, task>>
    BY DEF RInv
  <2> USE DEF Queue!Next
  <2>1. CASE smw_init \/ UNCHANGED vars
    <3>1. UNCHANGED <<listVars, node, next, task>>
      BY <2>1 DEF smw_init, vars, smwVars
    <3> QED  BY <3>1, QuietRefines
  <2>2. CASE smw_dispose
    BY <2>2, DisposeRefines
  <2>3. CASE BeginWork
    BY <2>3, BeginRefines
  <2>4. CASE CallTask
    BY <2>4, CallRefines
  <2>5. CASE TaskReturns
    BY <2>5, ReturnRefines
  <2>6. CASE CreateTask
    BY <2>6, CreateRefines
  <2>7. CASE DestroyOwnTask
    BY <2>7, DestroyRefines
  <2> QED  BY <2>1, <2>2, <2>3, <2>4, <2>5, <2>6, <2>7 DEF SmwNext
<1>3. SmwSpec => []SmwIInv
  BY SmwInductive
<1> QED  BY <1>1, <1>2, <1>3, PTL DEF SmwSpec, ImplementsTaskQueue, Queue!Spec, Queue!queueVars, Rest
===============================================================================
