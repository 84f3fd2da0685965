-------------------------- MODULE WeatherServerProofs --------------------------
(***************************************************************************)
(* The server of WeatherServer keeps its descriptors, its tasks and its     *)
(* connections together, for any number of clients, any requests in any     *)
(* pieces and any failing allocations; a connection's answer is that of its *)
(* own request; and the whole implements HttpService.                       *)
(***************************************************************************)
EXTENDS WeatherServer, DataLemmas

Record ==
  [alloc : BOOLEAN, fd : Fd \cup {NoFd}, task : BOOLEAN,
   callback : BOOLEAN, state : {"RECEIVE", "SEND", "DISPOSE"},
   read_buffer_size : Nat, damaged : BOOLEAN, body_start : Nat,
   content_len : Nat,
   method : Methods \cup {NULL}, path : Paths \cup {NULL},
   reply : ReplyKinds \cup {NULL}, reply_body : Nat,
   write_size : Nat, write_offset : Nat, handled : Nat]

(***************************************************************************)
(* A pass runs each registered task once: the one that runs is registered   *)
(* and no longer ahead, so that it may destroy itself.                      *)
(***************************************************************************)
QueueInv ==
  /\ IsInjective(tasks) /\ IsInjective(rest)
  /\ ToSet(rest) \subseteq ToSet(tasks)
  /\ running # NULL => running \in ToSet(tasks) \ ToSet(rest)
  /\ main = "start" => tasks = << >> /\ rest = << >> /\ running = NULL

(***************************************************************************)
(* A client that has not been accepted has no connection yet, and one that  *)
(* waits to be accepted waits in one place.                                 *)
(***************************************************************************)
WaitInv ==
  /\ IsInjective(backlog)
  /\ \A c \in ToSet(backlog) : peer[c] # "away" /\ conn[c] = NoConnection
  /\ \A c \in Conn : peer[c] = "away" => conn[c] = NoConnection
  /\ \A c \in Conn : peer[c] # "away" => request[c] \in Requests

IInv == TypeOK /\ QueueInv /\ WaitInv /\ DescriptorsOwned /\ TasksMatchConnections

-------------------------------------------------------------------------------
(* The types *)

LEMMA Constants ==
  /\ NULL \notin Conn /\ NULL \notin Task /\ Services \cap Conn = {}
  /\ NULL \notin ReplyKinds
  /\ Fd \subseteq Nat /\ NoFd \notin Fd /\ MaxFd \in Nat
  /\ CHUNK_SIZE \in Nat /\ CHUNK_SIZE > 0 /\ ReplySize \in Nat /\ ReplySize > 0
  /\ SendBuffer \in Nat
  BY TcpAssumption, ConnectionAssumption, ServerAssumption DEF Fd, NoFd

LEMMA RequestTyped ==
  ASSUME NEW r \in Requests
  PROVE  /\ r.method \in {"GET", "POST"} /\ r.path \in Paths
         /\ r.header \in Nat /\ r.content_len \in Nat /\ r.header >= 4
  BY TcpAssumption DEF Paths

LEMMA NoConnectionTyped ==
  NoConnection \in Record /\ NoConnection.fd = NoFd /\ ~ NoConnection.task
  BY DEF NoConnection, Record, NoFd

LEMMA InitiatedIs ==
  ASSUME NEW f \in Fd, NEW task \in BOOLEAN, NEW callback \in BOOLEAN
  PROVE  LET k == Initiated(f, task, callback) IN
         /\ k \in Record /\ k.fd = f /\ k.task = task /\ k.alloc
         /\ k.state = "RECEIVE" /\ ~ k.damaged
         /\ k.handled = 0 /\ k.write_offset = 0
<1> DEFINE k == Initiated(f, task, callback)
           a == [NoConnection EXCEPT !.alloc = TRUE, !.fd = f]
<1>1. a \in Record
  BY NoConnectionTyped DEF Record
<1>2. k = [a EXCEPT !.task = task, !.callback = callback]
  BY DEF Initiated, NoConnection
<1>3. /\ k.fd = f /\ k.task = task /\ k.alloc /\ k.state = "RECEIVE" /\ ~ k.damaged
      /\ k.handled = 0 /\ k.write_offset = 0
  BY DEF Initiated, NoConnection
<1> HIDE DEF a
<1>4. [a EXCEPT !.task = task, !.callback = callback] \in Record
  BY <1>1 DEF Record
<1> QED  BY <1>2, <1>3, <1>4

\* The lowest free descriptor is a free one.
LEMMA AcceptedIsFree == FreeFds # {} => AcceptedFd \in FreeFds
<1>1. FreeFds \in SUBSET Nat
  BY Constants DEF FreeFds
<1> QED  BY <1>1, LeastNatural DEF AcceptedFd

\* The scheduler's list holds the tasks it is asked for.
LEMMA RegisteredIs ==
  /\ \A t : Queue!IsRegistered(t) <=> t \in ToSet(tasks)
  /\ \A t : Queue!IsRegistered(t)' <=> t \in ToSet(tasks')
  BY DEF Queue!IsRegistered, Queue!ToSet, ToSet

LEMMA InitHolds == Init => IInv
<1> SUFFICES ASSUME Init PROVE IInv
  OBVIOUS
<1> USE DEF Init, TcpInit, ConnInit, Queue!Init
<1>1. TypeOK
  <2>1. TcpTypeOK
    BY DEF TcpTypeOK
  <2>2. ConnTypeOK
    <3>1. conn \in [Conn -> Record]
      BY NoConnectionTyped
    <3> QED  BY <3>1 DEF ConnTypeOK, Record
  <2>3. instances \in Seq(Conn) /\ tasks \in Seq(Task) /\ rest \in Seq(Task)
    OBVIOUS
  <2>4. main \in {"start", "loop"} /\ listening \in BOOLEAN /\ running \in Task \cup {NULL}
    OBVIOUS
  <2> QED  BY <2>1, <2>2, <2>3, <2>4 DEF TypeOK
<1>2. ToSet(tasks) = {} /\ ToSet(rest) = {} /\ ToSet(backlog) = {}
  BY DEF ToSet
<1>3. IsInjective(tasks) /\ IsInjective(rest) /\ IsInjective(backlog)
  BY DEF IsInjective
<1>4. QueueInv /\ WaitInv
  BY <1>2, <1>3 DEF QueueInv, WaitInv
<1>5. DescriptorsOwned
  BY NoConnectionTyped DEF DescriptorsOwned
<1>6. TasksMatchConnections
  <2>1. \A c \in Conn : ~ conn[c].task
    BY NoConnectionTyped
  <2>2. \A c \in Conn : ~ Queue!IsRegistered(c)
    BY <1>2 DEF Queue!IsRegistered, Queue!ToSet, ToSet
  <2>3. DOMAIN tasks = {}
    OBVIOUS
  <2> QED  BY <2>1, <2>2, <2>3 DEF TasksMatchConnections
<1> QED  BY <1>1, <1>4, <1>5, <1>6 DEF IInv

-------------------------------------------------------------------------------
(* A connection's own steps *)

\* The record of c changes, and neither its descriptor nor its task.
Handles(c) == /\ conn' \in [Conn -> Record]
              /\ \A d \in Conn \ {c} : conn'[d] = conn[d]
              /\ conn'[c].fd = conn[c].fd /\ conn'[c].task = conn[c].task

LEMMA BecomesHandles ==
  ASSUME conn \in [Conn -> Record], NEW c \in Conn, NEW k \in Record,
         k.fd = conn[c].fd, k.task = conn[c].task, conn' = [conn EXCEPT ![c] = k]
  PROVE  Handles(c)
  BY DEF Handles

\* While a connection's task runs, it holds its own socket.
LEMMA RunningIs ==
  ASSUME IInv, NEW c \in Conn, running = c
  PROVE  /\ conn[c] \in Record /\ conn[c].task /\ conn[c].fd \in Fd
         /\ Socket(conn[c].fd) = c /\ conn[c] # NoConnection
         /\ peer[c] # "away" /\ request[c] \in Requests
         /\ c \in ToSet(tasks) \ ToSet(rest) /\ main = "loop"
<1>1. conn \in [Conn -> Record]
  BY DEF IInv, TypeOK, ConnTypeOK, Record
<1>2. running # NULL
  BY Constants
<1>3. c \in ToSet(tasks) \ ToSet(rest) /\ main # "start"
  BY <1>2 DEF IInv, QueueInv
<1>4. conn[c].task /\ conn[c].fd # NoFd
  <2>1. Queue!IsRegistered(c)
    BY <1>3 DEF Queue!IsRegistered, Queue!ToSet, ToSet
  <2> QED  BY <2>1 DEF IInv, TasksMatchConnections
<1>5. conn[c] # NoConnection
  BY <1>4, NoConnectionTyped
<1>6. peer[c] # "away" /\ request[c] \in Requests
  BY <1>5 DEF IInv, WaitInv
<1>7. conn[c] \in Record /\ conn[c].fd \in Fd
  BY <1>1, <1>4 DEF Record
<1>8. Socket(conn[c].fd) = c
  BY <1>4 DEF IInv, DescriptorsOwned
<1> QED  BY <1>3, <1>4, <1>5, <1>6, <1>7, <1>8 DEF IInv, TypeOK

\* What holds of descriptors, tasks and waiting clients is left as it is.
LEMMA HandlingHolds ==
  ASSUME IInv, NEW c \in Conn, running = c, Handles(c) \/ conn' = conn, KeepsTasks,
         UNCHANGED <<serverVars, fdtab, backlog, peer, request>>
  PROVE  QueueInv' /\ WaitInv' /\ DescriptorsOwned' /\ TasksMatchConnections'
<1>1. \A d \in Conn : conn'[d].fd = conn[d].fd /\ conn'[d].task = conn[d].task
  BY DEF Handles
<1>2. \A d \in Conn : conn[d] = NoConnection => conn'[d] = NoConnection
  BY RunningIs DEF Handles
<1>3. QueueInv'
  BY RunningIs DEF IInv, QueueInv, KeepsTasks, Returns, serverVars
<1>4. WaitInv'
  <2>1. ToSet(backlog) \subseteq Conn
    BY ToSetIs DEF IInv, TypeOK, TcpTypeOK
  <2> QED  BY <1>2, <2>1 DEF IInv, WaitInv
<1>5. DescriptorsOwned'
  <2>1. \A f \in Fd : fdtab[f] # NULL => fdtab[f] \in Conn
    BY DEF IInv, TypeOK, TcpTypeOK
  <2> QED  BY <1>1, <2>1 DEF IInv, DescriptorsOwned, Socket
<1>6. TasksMatchConnections'
  BY <1>1 DEF IInv, TasksMatchConnections, Queue!IsRegistered, KeepsTasks
<1> QED  BY <1>3, <1>4, <1>5, <1>6

LEMMA HandlingTyped ==
  ASSUME IInv, NEW c \in Conn, Handles(c) \/ conn' = conn, KeepsTasks,
         UNCHANGED serverVars, crashed' \in BOOLEAN, TcpTypeOK'
  PROVE  TypeOK'
<1>1. conn \in [Conn -> Record] /\ conn' \in [Conn -> Record]
  BY DEF IInv, TypeOK, ConnTypeOK, Record, Handles
<1>2. ConnTypeOK'
  BY <1>1 DEF ConnTypeOK, Record
<1> QED  BY <1>2 DEF IInv, TypeOK, KeepsTasks, Returns, serverVars

LEMMA ScannedTyped ==
  ASSUME NEW k \in Record, NEW r \in Requests, NEW p \in Scanned(k, r)
  PROVE  p \in Record /\ p.fd = k.fd /\ p.task = k.task
<1>1. \A m \in Methods, a \in Paths, start, len \in Nat :
        /\ HeadersParsed(k, m, a, start, len) \in Record
        /\ HeadersParsed(k, m, a, start, len).fd = k.fd
        /\ HeadersParsed(k, m, a, start, len).task = k.task
  BY ZenonT(60) DEF HeadersParsed, Record
<1>2. /\ {r.method, "garbled"} \subseteq Methods /\ {r.path, "garbled"} \subseteq Paths
      /\ {r.header, r.content_len, 0} \subseteq Nat
  BY RequestTyped DEF Methods, Paths
<1>3. k.read_buffer_size \in Nat /\ k.read_buffer_size + 4 \in Nat
  BY DEF Record
<1>4. \/ p = k
      \/ \E m \in Methods, a \in Paths, start, len \in Nat :
           p = HeadersParsed(k, m, a, start, len)
  <2>1. CASE k.body_start # 0
    BY <2>1 DEF Scanned
  <2>2. CASE k.body_start = 0 /\ ScanRunsAway(k)
    <3>1. p = HeadersParsed(k, "garbled", "garbled", k.read_buffer_size + 4, 0)
      BY <2>2 DEF Scanned
    <3> QED  BY <1>2, <1>3, <3>1
  <2>3. CASE k.body_start = 0 /\ ~ ScanRunsAway(k)
    BY <1>2, <1>3, <2>3 DEF Scanned
  <2> QED  BY <2>1, <2>2, <2>3
<1> QED  BY <1>1, <1>4

\* A connection that becomes one of a set of typed records.
LEMMA BecomesOneOf ==
  ASSUME conn \in [Conn -> Record], crashed \in BOOLEAN, NEW c \in Conn, NEW ks,
         \A k \in ks : k \in Record /\ k.fd = conn[c].fd /\ k.task = conn[c].task,
         Becomes(c, ks)
  PROVE  Handles(c) /\ crashed' \in BOOLEAN
<1>1. PICK k \in ks : conn' = [conn EXCEPT ![c] = k]
  BY DEF Becomes
<1> QED  BY <1>1, BecomesHandles DEF Becomes

LEMMA HandledTyped ==
  ASSUME NEW k \in Record, NEW h \in Handled(k)
  PROVE  h \in Record /\ h.fd = k.fd /\ h.task = k.task
<1> DEFINE s == [k EXCEPT !.state = "SEND", !.handled = @ + 1]
<1>1. s \in Record /\ s.fd = k.fd /\ s.task = k.task
  <2> DEFINE m == [k EXCEPT !.state = "SEND"]
             n == [m EXCEPT !.handled = @ + 1]
  <2>1. m \in Record /\ m.fd = k.fd /\ m.task = k.task
    BY DEF Record
  <2> HIDE DEF m
  <2>2. n \in Record /\ n.fd = k.fd /\ n.task = k.task
    BY <2>1 DEF Record
  <2>3. s = n
    BY DEF m, Record
  <2> QED  BY <2>2, <2>3
<1>2. Reply(s.method, s.path) \in ReplyKinds
  BY DEF Reply, ReplyKinds
<1>3. ReplyBody(s, Reply(s.method, s.path)) \in Nat
  BY <1>1 DEF ReplyBody, Record
<1> DEFINE w == weather_server_instance_on_request(s)
<1>4. w \in Record /\ w.fd = s.fd /\ w.task = s.task
  <2> HIDE DEF s
  <2> QED  BY <1>1, <1>2, <1>3, Constants DEF weather_server_instance_on_request, Record
<1>5. h = s \/ h = w
  BY DEF Handled
<1> QED  BY <1>1, <1>4, <1>5

LEMMA ProcessHandles ==
  ASSUME conn \in [Conn -> Record], crashed \in BOOLEAN, NEW c \in Conn,
         NEW k \in Record, NEW r \in Requests,
         k.fd = conn[c].fd, k.task = conn[c].task, Process(c, k, r)
  PROVE  (Handles(c) \/ conn' = conn) /\ crashed' \in BOOLEAN
<1>1. CASE Crash
  BY <1>1 DEF Crash
<1>2. CASE Becomes(c, {k})
  BY <1>2, BecomesOneOf
<1>3. ASSUME NEW p \in Scanned(k, r), Becomes(c, {p}) PROVE Handles(c) /\ crashed' \in BOOLEAN
  <2>1. p \in Record /\ p.fd = conn[c].fd /\ p.task = conn[c].task
    BY ScannedTyped
  <2> QED  BY <1>3, <2>1, BecomesOneOf
<1>4. ASSUME NEW p \in Scanned(k, r), Becomes(c, Handled(p))
      PROVE  Handles(c) /\ crashed' \in BOOLEAN
  <2>1. p \in Record /\ p.fd = conn[c].fd /\ p.task = conn[c].task
    BY ScannedTyped
  <2>2. \A h \in Handled(p) : h \in Record /\ h.fd = conn[c].fd /\ h.task = conn[c].task
    BY <2>1, HandledTyped
  <2> QED  BY <1>4, <2>2, BecomesOneOf
<1> QED  BY <1>1, <1>2, <1>3, <1>4 DEF Process

LEMMA ReceiveHolds ==
  ASSUME IInv, NEW c \in Conn, connection_receives(c)
  PROVE  IInv'
<1> DEFINE s == Socket(conn[c].fd)
<1>1. /\ running = c /\ s = c /\ conn[c] \in Record /\ request[c] \in Requests
      /\ conn \in [Conn -> Record] /\ crashed \in BOOLEAN /\ TcpTypeOK
      /\ KeepsTasks /\ UNCHANGED serverVars
  BY RunningIs DEF connection_receives, IInv, TypeOK, ConnTypeOK, Record
<1>2. CASE UNCHANGED <<tcpVars, connVars>>
  <2>1. TcpTypeOK' /\ crashed' \in BOOLEAN /\ conn' = conn
    BY <1>1, <1>2 DEF tcpVars, connVars, TcpTypeOK
  <2>2. UNCHANGED <<fdtab, backlog, peer, request>>
    BY <1>2 DEF tcpVars
  <2> QED  BY <1>1, <2>1, <2>2, HandlingHolds, HandlingTyped DEF IInv
<1>3. CASE ~ UNCHANGED <<tcpVars, connVars>>
  <2> DEFINE n == Min({CHUNK_SIZE, Unread(c)})
  <2>1. /\ Unread(c) > 0 /\ Recv(c, n)
        /\ \/ Process(c, Appended(conn[c], n), request[c])
           \/ Becomes(c, {[conn[c] EXCEPT !.damaged = TRUE]})
    BY <1>1, <1>3 DEF connection_receives, http_server_connection_receive
  <2>2. Unread(c) \in Nat /\ CHUNK_SIZE \in Nat
    BY <1>1, <2>1, Constants DEF Unread, TcpTypeOK
  <2>3. n \in Nat
    BY <2>2 DEF Min
  <2> HIDE DEF n
  <2>4. TcpTypeOK' /\ UNCHANGED <<fdtab, backlog, peer, request>>
    BY <1>1, <2>1, <2>3 DEF Recv, TcpTypeOK
  <2>5. (Handles(c) \/ conn' = conn) /\ crashed' \in BOOLEAN
    <3>1. CASE Process(c, Appended(conn[c], n), request[c])
      <4>1. /\ Appended(conn[c], n) \in Record
            /\ Appended(conn[c], n).fd = conn[c].fd
            /\ Appended(conn[c], n).task = conn[c].task
        BY <1>1, <2>3 DEF Appended, Record
      <4> QED  BY <1>1, <3>1, <4>1, ProcessHandles
    <3>2. CASE Becomes(c, {[conn[c] EXCEPT !.damaged = TRUE]})
      <4> DEFINE k == [conn[c] EXCEPT !.damaged = TRUE]
      <4>1. k \in Record /\ k.fd = conn[c].fd /\ k.task = conn[c].task
        BY <1>1 DEF Record
      <4> HIDE DEF k
      <4>2. Becomes(c, {k})
        BY <3>2 DEF k
      <4> QED  BY <1>1, <4>1, <4>2, BecomesOneOf
    <3> QED  BY <2>1, <3>1, <3>2
  <2> QED  BY <1>1, <2>4, <2>5, HandlingHolds, HandlingTyped DEF IInv
<1> QED  BY <1>2, <1>3

LEMMA SendHolds ==
  ASSUME IInv, NEW c \in Conn, connection_sends(c)
  PROVE  IInv'
<1> DEFINE k == conn[c]
<1>1. /\ running = c /\ Socket(k.fd) = c /\ k \in Record
      /\ conn \in [Conn -> Record] /\ crashed \in BOOLEAN /\ TcpTypeOK
      /\ KeepsTasks /\ UNCHANGED serverVars
  BY RunningIs DEF connection_sends, IInv, TypeOK, ConnTypeOK, Record
<1>2. CASE UNCHANGED <<tcpVars, connVars>>
  <2>1. TcpTypeOK' /\ crashed' \in BOOLEAN /\ conn' = conn
    BY <1>1, <1>2 DEF tcpVars, connVars, TcpTypeOK
  <2>2. UNCHANGED <<fdtab, backlog, peer, request>>
    BY <1>2 DEF tcpVars
  <2> QED  BY <1>1, <2>1, <2>2, HandlingHolds, HandlingTyped DEF IInv
<1>3. CASE \E n \in Sendable(c, k.write_size - k.write_offset) :
             ~ NothingToSend(k) /\ Send(c, n) /\ Becomes(c, {Sent(k, n)})
  <2>1. PICK n \in Sendable(c, k.write_size - k.write_offset) :
               ~ NothingToSend(k) /\ Send(c, n) /\ Becomes(c, {Sent(k, n)})
    BY <1>3
  <2>2. n \in Nat
    BY DEF Sendable
  <2>3. TcpTypeOK' /\ UNCHANGED <<fdtab, backlog, peer, request>>
    BY <1>1, <2>1, <2>2 DEF Send, TcpTypeOK
  <2>4. Sent(k, n) \in Record /\ Sent(k, n).fd = k.fd /\ Sent(k, n).task = k.task
    <3> DEFINE m == [k EXCEPT !.write_offset = @ + n]
               d == [m EXCEPT !.state = IF k.write_offset + n >= k.write_size
                                        THEN "DISPOSE" ELSE @]
    <3>1. m \in Record /\ m.fd = k.fd /\ m.task = k.task
      BY <1>1, <2>2 DEF Record
    <3> HIDE DEF m
    <3>2. d \in Record /\ d.fd = k.fd /\ d.task = k.task
      BY <3>1 DEF Record
    <3>3. Sent(k, n) = d
      BY <1>1 DEF m, Sent, Record
    <3> QED  BY <3>2, <3>3
  <2>5. Handles(c) /\ crashed' \in BOOLEAN
    BY <1>1, <2>1, <2>4, BecomesOneOf
  <2> QED  BY <1>1, <2>3, <2>5, HandlingHolds, HandlingTyped DEF IInv
<1>4. CASE Becomes(c, {[k EXCEPT !.state = "DISPOSE"]}) /\ UNCHANGED tcpVars
  <2> DEFINE d == [k EXCEPT !.state = "DISPOSE"]
  <2>1. TcpTypeOK' /\ UNCHANGED <<fdtab, backlog, peer, request>>
    BY <1>1, <1>4 DEF tcpVars, TcpTypeOK
  <2>2. d \in Record /\ d.fd = k.fd /\ d.task = k.task
    BY <1>1 DEF Record
  <2>3. Becomes(c, {d})
    BY <1>4
  <2> HIDE DEF d
  <2>4. Handles(c) /\ crashed' \in BOOLEAN
    BY <1>1, <2>2, <2>3, BecomesOneOf
  <2> QED  BY <1>1, <2>1, <2>4, HandlingHolds, HandlingTyped DEF IInv
<1> QED  BY <1>1, <1>2, <1>3, <1>4 DEF connection_sends, http_server_connection_send

LEMMA DisposeHolds ==
  ASSUME IInv, NEW c \in Conn, connection_disposes(c)
  PROVE  IInv'
<1> DEFINE k == conn[c]
<1>1. /\ running = c /\ k \in Record /\ k.task /\ k.fd \in Fd /\ Socket(k.fd) = c
      /\ k # NoConnection /\ c \in ToSet(tasks) \ ToSet(rest) /\ main = "loop"
      /\ conn \in [Conn -> Record] /\ crashed \in BOOLEAN /\ TcpTypeOK
      /\ running' = NULL /\ rest' = rest /\ UNCHANGED serverVars
  BY RunningIs DEF connection_disposes, IInv, TypeOK, ConnTypeOK, Record,
                   Queue!Unregister, Returns
<1>2. /\ conn' = [conn EXCEPT ![c] = Disposed(k)] /\ crashed' = crashed
      /\ Close(k.fd) /\ Queue!Unregister(c)
  BY <1>1, Constants DEF connection_disposes, http_server_connection_dispose, Becomes
<1>3. Disposed(k) \in Record /\ Disposed(k).fd = NoFd /\ ~ Disposed(k).task
  BY <1>1 DEF Disposed, Record, NoFd
<1>4. /\ tasks' \in Seq(Task) /\ IsInjective(tasks')
      /\ ToSet(tasks') = ToSet(tasks) \ {c}
  <2>1. PICK i \in DOMAIN tasks : tasks[i] = c /\ tasks' = RemoveAt(tasks, i)
    BY <1>2 DEF Queue!Unregister, Queue!RemoveAt, RemoveAt
  <2>2. tasks \in Seq(Task) /\ IsInjective(tasks) /\ i \in 1 .. Len(tasks)
    BY <2>1, LenProperties DEF IInv, TypeOK, QueueInv
  <2> QED  BY <2>1, <2>2, RemoveAtLeaves
<1>5. /\ fdtab' = [fdtab EXCEPT ![k.fd] = NULL] /\ fdtab[k.fd] = c
      /\ UNCHANGED <<peer, request, backlog>>
  BY <1>1, <1>2 DEF Close, Socket
<1>6. conn' \in [Conn -> Record] /\ \A d \in Conn \ {c} : conn'[d] = conn[d]
  BY <1>1, <1>2, <1>3
<1>7. conn'[c].fd = NoFd /\ ~ conn'[c].task
  BY <1>1, <1>2, <1>3
<1>8. TypeOK'
  <2>1. TcpTypeOK'
    BY <1>1, <1>2, <1>5 DEF Close, TcpTypeOK
  <2> QED  BY <1>1, <1>2, <1>4, <1>6, <2>1
           DEF IInv, TypeOK, ConnTypeOK, Record, serverVars
<1>9. QueueInv'
  BY <1>1, <1>4 DEF IInv, QueueInv, serverVars
<1>10. WaitInv'
  <2>1. ToSet(backlog) \subseteq Conn \ {c}
    BY <1>1, ToSetIs DEF IInv, WaitInv, TypeOK, TcpTypeOK
  <2>2. peer[c] # "away"
    BY <1>1 DEF IInv, WaitInv
  <2> QED  BY <1>5, <1>6, <2>1, <2>2 DEF IInv, WaitInv
<1>11. DescriptorsOwned'
  <2>1. \A d \in Conn \ {c} : conn[d].fd # NoFd => conn[d].fd # k.fd
    BY <1>1 DEF IInv, DescriptorsOwned
  <2>2. ASSUME NEW d \in Conn, conn'[d].fd # NoFd PROVE Socket(conn[d].fd)' = d
    <3>1. d # c /\ conn'[d] = conn[d]
      BY <1>6, <1>7, <2>2
    <3>2. Socket(conn[d].fd) = d /\ conn[d].fd \in Fd
      BY <1>1, <2>2, <3>1 DEF IInv, DescriptorsOwned, Record
    <3>3. fdtab'[conn[d].fd] = fdtab[conn[d].fd]
      BY <1>1, <1>5, <2>1, <2>2, <3>1, <3>2 DEF TcpTypeOK
    <3> QED  BY <3>1, <3>2, <3>3 DEF Socket
  <2>3. ASSUME NEW f \in Fd, fdtab'[f] # NULL PROVE (conn[fdtab[f]].fd)' = f
    <3>1. f # k.fd /\ fdtab'[f] = fdtab[f] /\ fdtab[f] \in Conn
      BY <1>1, <1>5, <2>3 DEF TcpTypeOK
    <3>2. conn[fdtab[f]].fd = f
      BY <2>3, <3>1 DEF IInv, DescriptorsOwned
    <3> QED  BY <1>6, <3>1, <3>2
  <2> QED  BY <2>2, <2>3 DEF DescriptorsOwned
<1>12. TasksMatchConnections'
  <2>1. \A d \in Conn : d \in ToSet(tasks) <=> conn[d].task
    BY RegisteredIs DEF IInv, TasksMatchConnections
  <2>2. \A d \in Conn : d \in ToSet(tasks') <=> conn'[d].task
    BY <1>4, <1>6, <1>7, <2>1
  <2>3. \A d \in Conn : conn'[d].task => conn'[d].fd # NoFd
    BY <1>6, <1>7 DEF IInv, TasksMatchConnections
  <2> QED  BY <1>4, <2>2, <2>3, RegisteredIs DEF TasksMatchConnections, IsInjective
<1> QED  BY <1>8, <1>9, <1>10, <1>11, <1>12 DEF IInv

-------------------------------------------------------------------------------
(* The listener, the scheduler, the start and the clients *)

LEMMA AcceptServedHolds ==
  ASSUME IInv, running = "tcp", AcceptServed, UNCHANGED <<main, listening>>
  PROVE  IInv'
<1> DEFINE c == Head(backlog)
<1>1. /\ conn \in [Conn -> Record] /\ crashed \in BOOLEAN /\ TcpTypeOK
      /\ backlog \in Seq(Conn) /\ tasks \in Seq(Task) /\ rest \in Seq(Task)
      /\ instances \in Seq(Conn) \cup {NULL}
      /\ main \in {"start", "loop"} /\ listening \in BOOLEAN
  BY DEF IInv, TypeOK, ConnTypeOK, TcpTypeOK, Record
<1>2. running # NULL /\ main # "start"
  BY Constants DEF IInv, QueueInv, Task, Services
<1>3. /\ AcceptSucceeds /\ backlog' = Tail(backlog)
      /\ sock' = [sock EXCEPT ![c] = "open"]
      /\ fdtab' = [fdtab EXCEPT ![AcceptedFd] = c]
      /\ UNCHANGED <<peer, request, sent, recvd, wrote, got>>
  BY DEF AcceptServed, AcceptOpens
<1>4. /\ c \in ToSet(backlog) /\ c \in Conn /\ IsInjective(Tail(backlog))
      /\ Tail(backlog) \in Seq(Conn) /\ ToSet(Tail(backlog)) = ToSet(backlog) \ {c}
  <2>1. backlog # << >> /\ IsInjective(backlog)
    BY <1>3 DEF AcceptSucceeds, IInv, WaitInv
  <2> QED  BY <1>1, <2>1, HeadTailElements, ToSetIs
<1>5. conn[c] = NoConnection /\ conn[c].fd = NoFd /\ ~ conn[c].task /\ peer[c] # "away"
  BY <1>4, NoConnectionTyped DEF IInv, WaitInv
<1>6. AcceptedFd \in Fd /\ fdtab[AcceptedFd] = NULL /\ AcceptedFd # NoFd
  BY <1>3, AcceptedIsFree, Constants DEF AcceptSucceeds, FreeFds
<1>7. PICK task \in BOOLEAN, callback \in BOOLEAN :
        /\ Becomes(c, {Initiated(AcceptedFd, task, callback)})
        /\ IF task THEN Queue!Register(c) ELSE UNCHANGED <<tasks, rest>>
        /\ \/ instances # NULL /\ instances' = Append(instances, c)
           \/ instances' = instances
        /\ running' = NULL
  BY DEF AcceptServed, Returns
<1> DEFINE k == Initiated(AcceptedFd, task, callback)
<1>8. k \in Record /\ k.fd = AcceptedFd /\ k.task = task
  BY <1>6, InitiatedIs
<1>9. /\ conn' \in [Conn -> Record] /\ conn'[c] = k /\ crashed' = crashed
      /\ \A d \in Conn \ {c} : conn'[d] = conn[d]
  <2> HIDE DEF k
  <2>1. Becomes(c, {k})
    BY <1>7 DEF k
  <2>2. conn' = [conn EXCEPT ![c] = k] /\ crashed' = crashed
    BY <2>1 DEF Becomes
  <2> QED  BY <1>1, <1>4, <1>8, <2>2
<1> HIDE DEF k
<1>10. c \notin ToSet(tasks) /\ c \notin ToSet(rest) /\ c \in Task
  BY <1>4, <1>5, RegisteredIs DEF IInv, TasksMatchConnections, QueueInv, Task
<1>11. /\ tasks' \in Seq(Task) /\ IsInjective(tasks')
       /\ ToSet(tasks') = IF task THEN ToSet(tasks) \cup {c} ELSE ToSet(tasks)
       /\ rest' \in Seq(Task) /\ IsInjective(rest')
       /\ ToSet(rest') \subseteq ToSet(tasks')
  <2>1. IsInjective(tasks) /\ IsInjective(rest) /\ ToSet(rest) \subseteq ToSet(tasks)
    BY DEF IInv, QueueInv
  <2>2. CASE task
    <3>1. tasks' = Append(tasks, c) /\ (rest' = rest \/ rest' = Append(rest, c))
      BY <1>7, <2>2 DEF Queue!Register
    <3>2. /\ Append(tasks, c) \in Seq(Task) /\ IsInjective(Append(tasks, c))
          /\ ToSet(Append(tasks, c)) = ToSet(tasks) \cup {c}
      BY <1>1, <1>10, <2>1, AppendElements
    <3>3. /\ Append(rest, c) \in Seq(Task) /\ IsInjective(Append(rest, c))
          /\ ToSet(Append(rest, c)) = ToSet(rest) \cup {c}
      BY <1>1, <1>10, <2>1, AppendElements
    <3> QED  BY <1>1, <2>1, <2>2, <3>1, <3>2, <3>3
  <2>3. CASE ~ task
    BY <1>1, <1>7, <2>1, <2>3
  <2> QED  BY <2>2, <2>3
<1>12. TypeOK'
  <2>1. TcpTypeOK'
    BY <1>1, <1>3, <1>4, <1>6 DEF TcpTypeOK
  <2>2. instances' \in Seq(Conn) \cup {NULL}
    <3>1. instances # NULL => Append(instances, c) \in Seq(Conn)
      BY <1>1, <1>4, AppendElements
    <3> QED  BY <1>1, <1>7, <3>1
  <2> QED  BY <1>1, <1>7, <1>9, <1>11, <2>1, <2>2 DEF TypeOK, ConnTypeOK, Record
<1>13. QueueInv'
  BY <1>2, <1>7, <1>11 DEF QueueInv
<1>14. WaitInv'
  <2>1. ToSet(backlog) \subseteq Conn
    BY <1>1, ToSetIs
  <2> QED  BY <1>3, <1>4, <1>5, <1>9, <2>1 DEF IInv, WaitInv
<1>15. DescriptorsOwned'
  <2>1. ASSUME NEW d \in Conn, conn'[d].fd # NoFd PROVE Socket(conn[d].fd)' = d
    <3>1. CASE d = c
      BY <1>1, <1>3, <1>6, <1>8, <1>9, <3>1 DEF Socket, TcpTypeOK
    <3>2. CASE d # c
      <4>1. conn'[d] = conn[d] /\ Socket(conn[d].fd) = d /\ conn[d].fd \in Fd
        BY <1>1, <1>9, <2>1, <3>2 DEF IInv, DescriptorsOwned, Record
      <4>2. fdtab[conn[d].fd] = d /\ conn[d].fd # AcceptedFd
        BY <4>1, <1>6, Constants DEF Socket
      <4> QED  BY <1>1, <1>3, <4>1, <4>2 DEF Socket, TcpTypeOK
    <3> QED  BY <3>1, <3>2
  <2>2. ASSUME NEW f \in Fd, fdtab'[f] # NULL PROVE (conn[fdtab[f]].fd)' = f
    <3>1. CASE f = AcceptedFd
      BY <1>1, <1>3, <1>8, <1>9, <3>1 DEF TcpTypeOK
    <3>2. CASE f # AcceptedFd
      <4>1. fdtab'[f] = fdtab[f] /\ fdtab[f] \in Conn /\ conn[fdtab[f]].fd = f
        BY <1>1, <1>3, <2>2, <3>2 DEF TcpTypeOK, IInv, DescriptorsOwned
      <4>2. fdtab[f] # c
        BY <1>5, <4>1, Constants
      <4> QED  BY <1>9, <4>1, <4>2
    <3> QED  BY <3>1, <3>2
  <2> QED  BY <2>1, <2>2 DEF DescriptorsOwned
<1>16. TasksMatchConnections'
  <2>1. \A d \in Conn : d \in ToSet(tasks) <=> conn[d].task
    BY RegisteredIs DEF IInv, TasksMatchConnections
  <2>2. \A d \in Conn : d \in ToSet(tasks') <=> conn'[d].task
    BY <1>5, <1>8, <1>9, <1>11, <2>1
  <2>3. \A d \in Conn : conn'[d].task => conn'[d].fd # NoFd
    BY <1>6, <1>8, <1>9 DEF IInv, TasksMatchConnections
  <2> QED  BY <1>11, <2>2, <2>3, RegisteredIs DEF TasksMatchConnections, IsInjective
<1> QED  BY <1>12, <1>13, <1>14, <1>15, <1>16 DEF IInv

LEMMA ListenerHolds ==
  ASSUME IInv, tcp_server_task_work
  PROVE  IInv'
<1>1. CASE AcceptServed
  BY <1>1, AcceptServedHolds DEF tcp_server_task_work
<1>2. CASE AcceptNobody \/ AcceptDropped
  <2>1. /\ KeepsTasks /\ UNCHANGED <<main, listening, connVars, instances>>
        /\ UNCHANGED <<fdtab, peer, request, sent, recvd, wrote, got>>
        /\ \/ UNCHANGED <<backlog, sock>>
           \/ /\ backlog # << >> /\ backlog' = Tail(backlog)
              /\ sock' = [sock EXCEPT ![Head(backlog)] = "reset"]
    BY <1>2 DEF AcceptNobody, AcceptDropped, AcceptRefuses, AcceptSucceeds,
                tcp_server_task_work, tcpVars
  <2>2. /\ backlog \in Seq(Conn) /\ IsInjective(backlog) /\ ToSet(backlog) \subseteq Conn
        /\ TcpTypeOK
    BY ToSetIs DEF IInv, WaitInv, TypeOK, TcpTypeOK
  <2>3. /\ backlog' \in Seq(Conn) /\ IsInjective(backlog')
        /\ ToSet(backlog') \subseteq ToSet(backlog)
    <3>1. CASE backlog' = backlog
      BY <2>2, <3>1
    <3>2. CASE backlog # << >> /\ backlog' = Tail(backlog)
      BY <2>2, <3>2, HeadTailElements
    <3> QED  BY <2>1, <3>1, <3>2
  <2>4. TypeOK'
    <3>1. TcpTypeOK'
      BY <2>1, <2>2, <2>3 DEF TcpTypeOK
    <3> QED  BY <2>1, <3>1 DEF IInv, TypeOK, ConnTypeOK, connVars, KeepsTasks, Returns
  <2>5. QueueInv'
    BY <2>1 DEF IInv, QueueInv, KeepsTasks, Returns, tcp_server_task_work
  <2>6. WaitInv'
    BY <2>1, <2>2, <2>3 DEF IInv, WaitInv, connVars
  <2>7. DescriptorsOwned'
    BY <2>1 DEF IInv, DescriptorsOwned, Socket, connVars
  <2>8. TasksMatchConnections'
    BY <2>1 DEF IInv, TasksMatchConnections, Queue!IsRegistered, KeepsTasks, connVars
  <2> QED  BY <2>4, <2>5, <2>6, <2>7, <2>8 DEF IInv
<1> QED  BY <1>1, <1>2 DEF tcp_server_task_work

LEMMA SchedulerHolds ==
  ASSUME IInv, smw_work \/ idle_task_work
  PROVE  IInv'
<1>1. /\ UNCHANGED <<tcpVars, conn, serverVars>> /\ tasks' = tasks
      /\ crashed' = crashed \/ crashed' = TRUE
  BY DEF smw_work, idle_task_work, http_server_task_work, weather_server_task_work,
         Crash, connVars, KeepsTasks, Queue!BeginPass, Queue!Dispatch
<1>2. rest \in Seq(Task) /\ tasks \in Seq(Task) /\ IsInjective(rest)
  BY DEF IInv, TypeOK, QueueInv
<1>3. /\ rest' \in Seq(Task) /\ running' \in Task \cup {NULL} /\ QueueInv'
  <2>1. CASE Queue!BeginPass /\ smw_work
    <3>1. rest' = tasks /\ running = NULL /\ running' = NULL /\ main = "loop" /\ main' = "loop"
      BY <2>1 DEF Queue!BeginPass, Queue!Idle, smw_work, serverVars
    <3> QED  BY <1>1, <1>2, <3>1 DEF IInv, QueueInv
  <2>2. CASE Queue!Dispatch /\ smw_work
    <3>1. rest # << >> /\ running' = Head(rest) /\ rest' = Tail(rest) /\ main' = "loop"
      BY <2>2 DEF Queue!Dispatch, smw_work, serverVars
    <3>2. /\ Head(rest) \in ToSet(rest) /\ Tail(rest) \in Seq(Task)
          /\ ToSet(Tail(rest)) = ToSet(rest) \ {Head(rest)} /\ IsInjective(Tail(rest))
      BY <1>2, <3>1, HeadTailElements
    <3>3. ToSet(rest) \subseteq Task /\ ToSet(rest) \subseteq ToSet(tasks)
      BY <1>2, ToSetIs DEF IInv, QueueInv
    <3> QED  BY <1>1, <3>1, <3>2, <3>3 DEF IInv, QueueInv
  <2>3. CASE idle_task_work
    <3>1. rest' = rest /\ running' = NULL /\ main' = main
      BY <1>1, <2>3 DEF idle_task_work, http_server_task_work, weather_server_task_work,
                       KeepsTasks, Returns, serverVars
    <3> QED  BY <1>1, <1>2, <2>3, <3>1 DEF IInv, QueueInv
  <2> QED  BY <2>1, <2>2, <2>3 DEF smw_work
<1>4. TypeOK'
  BY <1>1, <1>3 DEF IInv, TypeOK, TcpTypeOK, ConnTypeOK, tcpVars, serverVars
<1>5. WaitInv'
  BY <1>1 DEF IInv, WaitInv, tcpVars
<1>6. DescriptorsOwned'
  BY <1>1 DEF IInv, DescriptorsOwned, Socket, tcpVars
<1>7. TasksMatchConnections'
  BY <1>1 DEF IInv, TasksMatchConnections, Queue!IsRegistered
<1> QED  BY <1>3, <1>4, <1>5, <1>6, <1>7 DEF IInv

LEMMA StartHolds ==
  ASSUME IInv, weather_server_initiate
  PROVE  IInv'
<1>1. /\ main = "start" /\ main' = "loop" /\ listening' \in BOOLEAN
      /\ UNCHANGED <<tcpVars, connVars, rest, running>>
      /\ instances' = instances \/ instances' = NULL
  BY DEF weather_server_initiate
<1>2. tasks = << >> /\ rest = << >> /\ running = NULL
  BY <1>1 DEF IInv, QueueInv
<1>3. PICK a \in BOOLEAN, b \in BOOLEAN, d \in BOOLEAN :
        tasks' = Started("tcp", a) \o Started("http", b) \o Started("weather", d)
  BY <1>1 DEF weather_server_initiate
<1>4. /\ tasks' \in Seq(Task) /\ IsInjective(tasks')
      /\ ToSet(tasks') \subseteq Services
  <2>1. \A t \in Task, starts \in BOOLEAN :
          /\ Started(t, starts) \in Seq(Task) /\ IsInjective(Started(t, starts))
          /\ ToSet(Started(t, starts)) \subseteq {t}
    BY DEF Started, IsInjective, ToSet
  <2>2. Services \subseteq Task
    BY DEF Task
  <2> DEFINE s == Started("tcp", a)
             t == Started("http", b)
             u == Started("weather", d)
  <2>3. /\ {s, t, u} \subseteq Seq(Task) /\ IsInjective(s) /\ IsInjective(t) /\ IsInjective(u)
        /\ ToSet(s) \subseteq {"tcp"} /\ ToSet(t) \subseteq {"http"}
        /\ ToSet(u) \subseteq {"weather"}
    BY <2>1, <2>2 DEF Services
  <2>4. tasks' = (s \o t) \o u
    BY <1>3
  <2> HIDE DEF s, t, u
  <2>5. /\ s \o t \in Seq(Task) /\ IsInjective(s \o t)
        /\ ToSet(s \o t) \subseteq {"tcp", "http"}
    <3>1. ToSet(s) \cap ToSet(t) = {}
      BY <2>3
    <3> QED  BY <2>3, <3>1, ConcatElements
  <2>6. ToSet(s \o t) \cap ToSet(u) = {}
    BY <2>3, <2>5
  <2> QED  BY <2>3, <2>4, <2>5, <2>6, ConcatElements DEF Services
<1>5. ToSet(rest) = {}
  BY <1>2 DEF ToSet
<1>6. TypeOK'
  BY <1>1, <1>4 DEF IInv, TypeOK, TcpTypeOK, ConnTypeOK, tcpVars, connVars
<1>7. QueueInv'
  BY <1>1, <1>2, <1>4, <1>5 DEF IInv, QueueInv
<1>8. WaitInv'
  BY <1>1 DEF IInv, WaitInv, tcpVars, connVars
<1>9. DescriptorsOwned'
  BY <1>1 DEF IInv, DescriptorsOwned, Socket, tcpVars, connVars
<1>10. TasksMatchConnections'
  <2>1. \A c \in Conn : c \notin ToSet(tasks) /\ ~ conn[c].task
    BY <1>2, RegisteredIs DEF IInv, TasksMatchConnections, ToSet
  <2>2. \A c \in Conn : c \notin ToSet(tasks')
    BY <1>4, Constants
  <2> QED  BY <1>1, <1>4, <2>1, <2>2, RegisteredIs
           DEF TasksMatchConnections, IsInjective, connVars
<1> QED  BY <1>6, <1>7, <1>8, <1>9, <1>10 DEF IInv

LEMMA ConnectHolds ==
  ASSUME IInv, NEW c \in Conn, Connect(c), UNCHANGED <<connVars, serverVars, queueVars>>
  PROVE  IInv'
<1>1. /\ TcpTypeOK /\ backlog \in Seq(Conn) /\ IsInjective(backlog)
      /\ ToSet(backlog) \subseteq Conn /\ conn \in [Conn -> Record]
  BY ToSetIs DEF IInv, TypeOK, TcpTypeOK, ConnTypeOK, WaitInv, Record
<1>2. PICK r \in Requests : request' = [request EXCEPT ![c] = r]
  BY DEF Connect
<1>3. /\ peer[c] = "away" /\ peer' = [peer EXCEPT ![c] = "open"]
      /\ sock' = [sock EXCEPT ![c] = "queued"] /\ backlog' = Append(backlog, c)
      /\ UNCHANGED <<sent, recvd, wrote, got, fdtab, conn>>
  BY DEF Connect, connVars
<1>4. conn[c] = NoConnection /\ c \notin ToSet(backlog)
  BY <1>3 DEF IInv, WaitInv
<1>5. /\ backlog' \in Seq(Conn) /\ IsInjective(backlog')
      /\ ToSet(backlog') = ToSet(backlog) \cup {c}
  BY <1>1, <1>3, <1>4, AppendElements
<1>6. /\ peer' \in [Conn -> {"away", "open", "left"}] /\ peer'[c] = "open"
      /\ request' \in [Conn -> Requests \cup {NULL}] /\ request'[c] = r
      /\ \A d \in Conn \ {c} : peer'[d] = peer[d] /\ request'[d] = request[d]
  BY <1>1, <1>2, <1>3 DEF TcpTypeOK
<1>7. TypeOK'
  <2>1. TcpTypeOK'
    BY <1>1, <1>3, <1>5, <1>6 DEF TcpTypeOK
  <2> QED  BY <2>1 DEF IInv, TypeOK, ConnTypeOK, connVars, serverVars, queueVars
<1>8. QueueInv'
  BY DEF IInv, QueueInv, serverVars, queueVars
<1>9. WaitInv'
  <2>1. ASSUME NEW d \in ToSet(backlog') PROVE peer'[d] # "away" /\ conn'[d] = NoConnection
    BY <1>1, <1>3, <1>4, <1>5, <1>6 DEF IInv, WaitInv
  <2>2. ASSUME NEW d \in Conn
        PROVE  /\ peer'[d] = "away" => conn'[d] = NoConnection
               /\ peer'[d] # "away" => request'[d] \in Requests
    BY <1>3, <1>4, <1>6 DEF IInv, WaitInv
  <2> QED  BY <1>5, <2>1, <2>2 DEF WaitInv
<1>10. DescriptorsOwned'
  BY <1>3 DEF IInv, DescriptorsOwned, Socket
<1>11. TasksMatchConnections'
  BY DEF IInv, TasksMatchConnections, Queue!IsRegistered, connVars, queueVars
<1> QED  BY <1>7, <1>8, <1>9, <1>10, <1>11 DEF IInv

LEMMA ClientHolds ==
  ASSUME IInv, NEW c \in Conn, ClientStep(c)
  PROVE  IInv'
<1>1. UNCHANGED <<connVars, serverVars, queueVars>>
  BY DEF ClientStep
<1>2. CASE Connect(c)
  BY <1>1, <1>2, ConnectHolds
<1>3. CASE PeerSends(c) \/ PeerReads(c) \/ PeerLeaves(c)
  <2>1. /\ UNCHANGED <<request, recvd, wrote, sock, backlog, fdtab>>
        /\ peer' = peer \/ (peer[c] = "open" /\ peer' = [peer EXCEPT ![c] = "left"])
    BY <1>3 DEF PeerSends, PeerReads, PeerLeaves
  <2>2. TcpTypeOK
    BY DEF IInv, TypeOK
  <2>3. sent' \in [Conn -> Nat]
    <3>1. CASE PeerSends(c)
      <4>1. PICK n \in Segments : sent' = [sent EXCEPT ![c] = @ + n]
        BY <3>1 DEF PeerSends
      <4> QED  BY <2>2, <4>1, TcpAssumption DEF TcpTypeOK
    <3>2. CASE PeerReads(c) \/ PeerLeaves(c)
      BY <2>2, <3>2 DEF PeerReads, PeerLeaves, TcpTypeOK
    <3> QED  BY <1>3, <3>1, <3>2
  <2>4. got' \in [Conn -> Nat]
    BY <1>3, <2>2 DEF PeerSends, PeerReads, PeerLeaves, TcpTypeOK
  <2>5. /\ peer' \in [Conn -> {"away", "open", "left"}]
        /\ \A d \in Conn : peer'[d] = "away" <=> peer[d] = "away"
    BY <2>1, <2>2 DEF TcpTypeOK
  <2>6. TypeOK'
    <3>1. TcpTypeOK'
      BY <2>1, <2>2, <2>3, <2>4, <2>5 DEF TcpTypeOK
    <3> QED  BY <1>1, <3>1 DEF IInv, TypeOK, ConnTypeOK, connVars, serverVars, queueVars
  <2>7. QueueInv'
    BY <1>1 DEF IInv, QueueInv, serverVars, queueVars
  <2>8. WaitInv'
    <3>1. ToSet(backlog) \subseteq Conn
      BY <2>2, ToSetIs DEF TcpTypeOK
    <3> QED  BY <1>1, <2>1, <2>5, <3>1 DEF IInv, WaitInv, connVars
  <2>9. DescriptorsOwned'
    BY <1>1, <2>1 DEF IInv, DescriptorsOwned, Socket, connVars
  <2>10. TasksMatchConnections'
    BY <1>1 DEF IInv, TasksMatchConnections, Queue!IsRegistered, connVars, queueVars
  <2> QED  BY <2>6, <2>7, <2>8, <2>9, <2>10 DEF IInv
<1> QED  BY <1>2, <1>3 DEF ClientStep, PeerStep

LEMMA NextHolds == IInv /\ [Next]_vars => IInv'
<1> SUFFICES ASSUME IInv, [Next]_vars PROVE IInv'
  OBVIOUS
<1>1. CASE weather_server_initiate
  BY <1>1, StartHolds
<1>2. CASE smw_work \/ idle_task_work
  BY <1>2, SchedulerHolds
<1>3. CASE tcp_server_task_work
  BY <1>3, ListenerHolds
<1>4. ASSUME NEW c \in Conn,
             \/ connection_receives(c) \/ connection_sends(c) \/ connection_disposes(c)
      PROVE  IInv'
  BY <1>4, ReceiveHolds, SendHolds, DisposeHolds
<1>5. ASSUME NEW c \in Conn, ClientStep(c) PROVE IInv'
  BY <1>5, ClientHolds
<1>6. CASE UNCHANGED vars
  <2>1. /\ UNCHANGED <<tcpVars, connVars, serverVars, queueVars>>
    BY <1>6 DEF vars
  <2>2. TypeOK'
    BY <2>1 DEF IInv, TypeOK, TcpTypeOK, ConnTypeOK, tcpVars, connVars, serverVars, queueVars
  <2>3. QueueInv' /\ WaitInv'
    BY <2>1 DEF IInv, QueueInv, WaitInv, tcpVars, connVars, serverVars, queueVars
  <2>4. DescriptorsOwned'
    BY <2>1 DEF IInv, DescriptorsOwned, Socket, tcpVars, connVars
  <2>5. TasksMatchConnections'
    BY <2>1 DEF IInv, TasksMatchConnections, Queue!IsRegistered, connVars, queueVars
  <2> QED  BY <2>2, <2>3, <2>4, <2>5 DEF IInv
<1> QED  BY <1>1, <1>2, <1>3, <1>4, <1>5, <1>6 DEF Next, ServerStep, Callback

(***************************************************************************)
(* The invariant of the server: its types, the order of a pass, the clients *)
(* that wait, the descriptors and the tasks.                                *)
(***************************************************************************)
THEOREM WeatherServerInductive == Spec => []IInv
<1>1. Init => IInv
  BY InitHolds
<1>2. IInv /\ [Next]_vars => IInv'
  BY NextHolds
<1> QED  BY <1>1, <1>2, PTL DEF Spec

(***************************************************************************)
(* Every variable keeps its type; the counters are natural numbers.         *)
(***************************************************************************)
THEOREM WeatherServerTypeCorrect == Spec => []TypeOK
<1>1. IInv => TypeOK
  BY DEF IInv
<1> QED  BY <1>1, WeatherServerInductive, PTL

(***************************************************************************)
(* However clients connect and leave and allocations fail, a descriptor     *)
(* kept in a connection is that of its own socket (http_server_connection.c *)
(* :31, tcp_client.c:56): no number is used after its close has given it to *)
(* another client, and none that is open has been forgotten.                *)
(***************************************************************************)
THEOREM NoDescriptorConfused == Spec => []DescriptorsOwned
<1>1. IInv => DescriptorsOwned
  BY DEF IInv
<1> QED  BY <1>1, WeatherServerInductive, PTL

(***************************************************************************)
(* The scheduler never calls the task of a connection that has been         *)
(* disposed of, and never holds two for one (http_server_connection.c:31,   *)
(* :190).                                                                   *)
(***************************************************************************)
THEOREM NoTaskOutlivesItsConnection == Spec => []TasksMatchConnections
<1>1. IInv => TasksMatchConnections
  BY DEF IInv
<1> QED  BY <1>1, WeatherServerInductive, PTL

-------------------------------------------------------------------------------
(***************************************************************************)
(* The answer fits the request, if the first segment of a request and a     *)
(* call of recv bring the four bytes the scan for the blank line needs: the *)
(* run ShortSegment shows what happens otherwise.                           *)
(***************************************************************************)
Fits(k, r) ==
  /\ k.handled <= 1
  /\ k.reply = "home" => r.method = "GET" /\ r.path = "/"
  /\ k.reply = "current" => r.method = "GET" /\ r.path = "/v1/current"
  /\ k.reply = "echo" => r.path = "/echo"
  /\ k.reply = "echo" /\ r.method = "GET"
       => k.reply_body >= r.header + r.content_len
  /\ k.reply = "not_found" => ~ \/ r.path = "/echo"
                                \/ r.method = "GET" /\ r.path \in {"/", "/v1/current"}

\* The first n bytes of the request are in read_buffer and have been scanned.
Scanning(k, r, n) ==
  /\ k.read_buffer_size = n
  /\ k.body_start # 0 => /\ k.body_start = r.header /\ k.content_len = r.content_len
                         /\ k.method = r.method /\ k.path = r.path

Receiving(k, r, n) == /\ k.alloc /\ k.state = "RECEIVE"
                      /\ k.handled = 0 /\ k.reply = NULL
                      /\ ~ k.damaged => Scanning(k, r, n)

Progress(k, r, n, dead) ==
  /\ ~ k.alloc => k = NoConnection /\ n = 0
  /\ k.state = "RECEIVE" => k.handled = 0 /\ k.reply = NULL
  /\ k.state = "RECEIVE" /\ ~ k.damaged /\ ~ dead => Scanning(k, r, n)
  /\ ~ k.damaged => Fits(k, r)

ProgressInv == \A c \in Conn : Progress(conn[c], request[c], recvd[c], crashed)

SegmentInv == \A c \in Conn : /\ sent[c] = 0 \/ sent[c] >= 4
                              /\ recvd[c] = 0 \/ recvd[c] >= 4
                              /\ recvd[c] <= sent[c]

AInv == SegmentInv /\ ProgressInv

LEMMA ReceivingProgresses ==
  ASSUME NEW k, NEW r, NEW n, NEW dead, Receiving(k, r, n)
  PROVE  Progress(k, r, n, dead)
<1>1. Fits(k, r)
  BY Constants DEF Receiving, Fits, ReplyKinds
<1> QED  BY <1>1 DEF Receiving, Progress

LEMMA ScannedReceives ==
  ASSUME NEW k \in Record, NEW r \in Requests, NEW n \in Nat, n >= 4,
         Receiving(k, r, n), NEW p \in Scanned(k, r)
  PROVE  Receiving(p, r, n) /\ p.damaged = k.damaged
<1>1. r.header >= 4
  BY RequestTyped
<1>2. CASE k.damaged
  <2>1. p = k \/ \E m, a, start, len : p = HeadersParsed(k, m, a, start, len)
    BY <1>2 DEF Scanned
  <2>2. \A m, a, start, len : LET h == HeadersParsed(k, m, a, start, len) IN
          /\ h.alloc = k.alloc /\ h.state = k.state /\ h.handled = k.handled
          /\ h.reply = k.reply /\ h.damaged = k.damaged
    BY DEF HeadersParsed, Record
  <2> QED  BY <1>2, <2>1, <2>2 DEF Receiving
<1>3. CASE ~ k.damaged
  <2>1. k.read_buffer_size = n /\ ~ ScanRunsAway(k)
    BY <1>3 DEF Receiving, Scanning, ScanRunsAway
  <2>2. p = k \/ p = HeadersParsed(k, r.method, r.path, r.header, r.content_len)
    BY <1>3, <2>1 DEF Scanned
  <2>3. LET h == HeadersParsed(k, r.method, r.path, r.header, r.content_len)
        IN  Receiving(h, r, n) /\ h.damaged = k.damaged
    BY <2>1 DEF HeadersParsed, Record, Receiving, Scanning
  <2> QED  BY <2>2, <2>3
<1> QED  BY <1>2, <1>3

\* A complete request is handled once, and answered as its own.
LEMMA HandledFits ==
  ASSUME NEW p \in Record, NEW r \in Requests, NEW n \in Nat, NEW dead,
         Receiving(p, r, n), Complete(p), NEW h \in Handled(p)
  PROVE  Progress(h, r, n, dead)
<1> DEFINE m == [p EXCEPT !.state = "SEND"]
           s == [p EXCEPT !.state = "SEND", !.handled = @ + 1]
           w == weather_server_instance_on_request(s)
<1>1. /\ s \in Record /\ s.alloc /\ s.state = "SEND" /\ s.handled = 1 /\ s.reply = NULL
      /\ s.damaged = p.damaged /\ s.method = p.method /\ s.path = p.path
      /\ s.read_buffer_size = p.read_buffer_size
  <2>1. m \in Record /\ s = [m EXCEPT !.handled = @ + 1]
    BY DEF Record
  <2>2. /\ m.alloc /\ m.state = "SEND" /\ m.handled = 0 /\ m.reply = NULL
        /\ m.damaged = p.damaged /\ m.method = p.method /\ m.path = p.path
        /\ m.read_buffer_size = p.read_buffer_size
    BY DEF Record, Receiving
  <2> HIDE DEF m, s
  <2> QED  BY <2>1, <2>2 DEF Record
<1>4. h = s \/ h = w
  BY DEF Handled
<1> HIDE DEF s
<1>2. CASE h = s
  BY <1>1, <1>2, Constants DEF Progress, Fits, ReplyKinds
<1>3. CASE h = w
  <2>1. /\ w.alloc /\ w.state = "SEND" /\ w.handled = 1 /\ w.damaged = p.damaged
        /\ w.reply = Reply(p.method, p.path)
        /\ w.reply_body = ReplyBody(s, Reply(p.method, p.path))
    BY <1>1 DEF weather_server_instance_on_request, Record
  <2>2. ASSUME ~ p.damaged PROVE Fits(w, r)
    <3>1. /\ p.method = r.method /\ p.path = r.path
          /\ p.read_buffer_size >= r.header + r.content_len
      BY <2>2 DEF Receiving, Scanning, Complete, Record
    <3>2. r.method \in {"GET", "POST"}
      BY RequestTyped
    <3>3. CASE r.method = "GET" /\ r.path = "/"
      BY <2>1, <3>1, <3>3 DEF Reply, Fits
    <3>4. CASE r.path = "/echo"
      <4>1. Reply(r.method, r.path) = "echo"
        BY <3>4 DEF Reply
      <4> QED  BY <1>1, <2>1, <3>1, <3>4, <4>1 DEF ReplyBody, Fits
    <3>5. CASE r.method = "GET" /\ r.path = "/v1/current"
      BY <2>1, <3>1, <3>5 DEF Reply, Fits
    <3>6. CASE ~ \/ r.path = "/echo"
                 \/ r.method = "GET" /\ r.path \in {"/", "/v1/current"}
      BY <2>1, <3>1, <3>6 DEF Reply, Fits
    <3> QED  BY <3>3, <3>4, <3>5, <3>6
  <2> QED  BY <1>3, <2>1, <2>2 DEF Progress
<1> QED  BY <1>2, <1>3, <1>4

(***************************************************************************)
(* What recv brings and what becomes of it.                                 *)
(***************************************************************************)
LEMMA ReceiveProgresses ==
  ASSUME IInv, AInv, NEW c \in Conn, ~ crashed, connection_receives(c),
         FirstSegment >= 4, CHUNK_SIZE >= 4
  PROVE  AInv'
<1> DEFINE k == conn[c]
           r == request[c]
           n == Min({CHUNK_SIZE, Unread(c)})
<1>1. /\ Socket(k.fd) = c /\ k \in Record /\ r \in Requests /\ k # NoConnection
      /\ conn \in [Conn -> Record] /\ TcpTypeOK /\ k.state = "RECEIVE"
  BY RunningIs DEF connection_receives, IInv, TypeOK, ConnTypeOK, Record
<1>2. CASE UNCHANGED <<tcpVars, connVars>>
  BY <1>2 DEF tcpVars, connVars, AInv, SegmentInv, ProgressInv
<1>3. CASE ~ UNCHANGED <<tcpVars, connVars>>
  <2>1. /\ Unread(c) > 0 /\ Recv(c, n)
        /\ \/ Process(c, Appended(k, n), r)
           \/ Becomes(c, {[k EXCEPT !.damaged = TRUE]})
    BY <1>1, <1>3 DEF connection_receives, http_server_connection_receive
  <2>2. sent[c] \in Nat /\ recvd[c] \in Nat /\ CHUNK_SIZE \in Nat
    BY <1>1, Constants DEF TcpTypeOK
  <2>3. n \in Nat /\ n <= CHUNK_SIZE /\ n <= Unread(c) /\ n \in {CHUNK_SIZE, Unread(c)}
    BY <2>1, <2>2 DEF Min, Unread
  <2> HIDE DEF n
  <2>4. recvd' = [recvd EXCEPT ![c] = @ + n] /\ sent' = sent /\ request' = request
    BY <2>1 DEF Recv
  <2> DEFINE t == recvd[c] + n
  <2>5. t \in Nat /\ t >= 4 /\ t <= sent[c] /\ recvd'[c] = t
    BY <1>1, <2>1, <2>2, <2>3, <2>4 DEF AInv, SegmentInv, Unread, TcpTypeOK
  <2>6. SegmentInv'
    BY <1>1, <2>4, <2>5 DEF AInv, SegmentInv, TcpTypeOK
  <2>7. Receiving(k, r, recvd[c])
    BY <1>1 DEF AInv, ProgressInv, Progress, Receiving
  <2> DEFINE a == Appended(k, n)
  <2>8. a \in Record /\ Receiving(a, r, t)
    BY <1>1, <2>2, <2>3, <2>7 DEF Appended, Record, Receiving, Scanning
  <2>9. Progress(conn[c], request[c], recvd[c], crashed)'
    <3> HIDE DEF a, t
    <3>1. ASSUME NEW b, Receiving(b, r, t), Becomes(c, {b})
          PROVE  Progress(conn[c], request[c], recvd[c], crashed)'
      <4>1. conn'[c] = b
        BY <1>1, <3>1 DEF Becomes
      <4> QED  BY <2>4, <2>5, <3>1, <4>1, ReceivingProgresses
    <3>2. CASE Crash
      BY <1>1, <2>4, <2>5, <2>7, <3>2 DEF Crash, AInv, ProgressInv, Progress, Receiving
    <3>3. ASSUME NEW b \in Scanned(a, r), Complete(b), Becomes(c, Handled(b))
          PROVE  Progress(conn[c], request[c], recvd[c], crashed)'
      <4>1. b \in Record /\ Receiving(b, r, t)
        BY <1>1, <2>5, <2>8, ScannedTyped, ScannedReceives
      <4>2. PICK h \in Handled(b) : conn' = [conn EXCEPT ![c] = h]
        BY <3>3 DEF Becomes
      <4>3. conn'[c] = h
        BY <1>1, <4>2
      <4>4. Progress(h, r, t, crashed')
        BY <1>1, <2>5, <3>3, <4>1, HandledFits
      <4> QED  BY <2>4, <2>5, <4>3, <4>4
    <3>4. CASE Process(c, a, r)
      <4>1. \A b \in Scanned(a, r) : Receiving(b, r, t)
        BY <1>1, <2>5, <2>8, ScannedReceives
      <4> QED  BY <2>8, <3>1, <3>2, <3>3, <3>4, <4>1 DEF Process
    <3>5. CASE Becomes(c, {[k EXCEPT !.damaged = TRUE]})
      <4>1. Receiving([k EXCEPT !.damaged = TRUE], r, t)
        BY <1>1, <2>7 DEF Receiving, Record
      <4> QED  BY <3>1, <3>5, <4>1
    <3> QED  BY <2>1, <3>4, <3>5 DEF a
  <2>10. ASSUME NEW d \in Conn, d # c
         PROVE  Progress(conn[d], request[d], recvd[d], crashed)'
    <3>1. conn'[d] = conn[d] /\ recvd'[d] = recvd[d] /\ request'[d] = request[d]
      BY <1>1, <2>1, <2>4, <2>10 DEF Process, Becomes, Crash, TcpTypeOK
    <3> QED  BY <3>1 DEF AInv, ProgressInv, Progress
  <2> QED  BY <2>6, <2>9, <2>10 DEF AInv, ProgressInv
<1> QED  BY <1>2, <1>3

LEMMA InitAnswers == Init => AInv
<1> SUFFICES ASSUME Init PROVE AInv
  OBVIOUS
<1>1. SegmentInv
  BY DEF Init, TcpInit, SegmentInv
<1>2. ProgressInv
  <2>1. /\ ~ NoConnection.alloc /\ NoConnection.handled = 0 /\ NoConnection.reply = NULL
        /\ NoConnection.read_buffer_size = 0 /\ NoConnection.body_start = 0
    BY DEF NoConnection
  <2>2. \A r, dead : Progress(NoConnection, r, 0, dead)
    BY <2>1, Constants DEF Progress, Scanning, Fits, ReplyKinds
  <2> QED  BY <2>2 DEF Init, ConnInit, TcpInit, ProgressInv
<1> QED  BY <1>1, <1>2 DEF AInv

\* What leaves a connection's progress alone: everything but its handlers.
LEMMA OthersKeepAnswers ==
  ASSUME AInv, UNCHANGED <<conn, request, sent, recvd>>, crashed => crashed'
  PROVE  AInv'
  BY DEF AInv, SegmentInv, ProgressInv, Progress

LEMMA AcceptAnswers ==
  ASSUME IInv, AInv, AcceptServed
  PROVE  AInv'
<1>0. PICK c : c = Head(backlog)
  OBVIOUS
<1>1. UNCHANGED <<request, sent, recvd>> /\ backlog # << >>
  BY DEF AcceptServed, AcceptOpens, AcceptSucceeds
<1>2. c \in Conn /\ conn[c] = NoConnection /\ conn \in [Conn -> Record]
  BY <1>0, <1>1, HeadTailElements, ToSetIs
     DEF IInv, WaitInv, TypeOK, TcpTypeOK, ConnTypeOK, Record
<1>3. PICK task \in BOOLEAN, callback \in BOOLEAN :
        Becomes(c, {Initiated(AcceptedFd, task, callback)})
  BY <1>0 DEF AcceptServed
<1> DEFINE k == Initiated(AcceptedFd, task, callback)
<1>4. Receiving(k, request[c], 0)
  BY DEF Initiated, NoConnection, Receiving, Scanning
<1>5. recvd[c] = 0
  BY <1>2 DEF AInv, ProgressInv, Progress, NoConnection
<1> HIDE DEF k
<1>6. conn' = [conn EXCEPT ![c] = k] /\ crashed' = crashed
  BY <1>3 DEF Becomes, k
<1>7. Progress(conn[c], request[c], recvd[c], crashed)'
  BY <1>1, <1>2, <1>4, <1>5, <1>6, ReceivingProgresses
<1>8. \A d \in Conn \ {c} : conn'[d] = conn[d]
  BY <1>2, <1>6
<1> QED  BY <1>1, <1>6, <1>7, <1>8 DEF AInv, ProgressInv, SegmentInv

LEMMA SendAnswers ==
  ASSUME IInv, AInv, NEW c \in Conn,
         connection_sends(c) \/ connection_disposes(c)
  PROVE  AInv'
<1> DEFINE k == conn[c]
<1>1. /\ k \in Record /\ k # NoConnection /\ k.state \in {"SEND", "DISPOSE"}
      /\ conn \in [Conn -> Record] /\ Socket(k.fd) = c
  BY RunningIs DEF connection_sends, connection_disposes, IInv, TypeOK, ConnTypeOK, Record
<1>2. UNCHANGED <<request, sent, recvd, crashed>>
  BY <1>1 DEF connection_sends, connection_disposes, http_server_connection_send,
              http_server_connection_dispose, Send, Close, Becomes, tcpVars, connVars
<1>3. \/ conn' = conn
      \/ \E n : conn' = [conn EXCEPT ![c] = Sent(k, n)]
      \/ conn' = [conn EXCEPT ![c] = [k EXCEPT !.state = "DISPOSE"]]
      \/ k.state = "DISPOSE" /\ conn' = [conn EXCEPT ![c] = Disposed(k)]
  BY DEF connection_sends, connection_disposes, http_server_connection_send,
         http_server_connection_dispose, Becomes, connVars
<1>4. CASE conn' = conn
  BY <1>2, <1>4, OthersKeepAnswers
<1>5. CASE conn' # conn
  <2>1. PICK b : /\ conn' = [conn EXCEPT ![c] = b] /\ b.alloc = k.alloc
                 /\ b.state # "RECEIVE" /\ b.damaged = k.damaged
                 /\ b.handled = k.handled
                 /\ b.reply = NULL \/ (b.reply = k.reply /\ b.reply_body = k.reply_body)
    <3>1. CASE \E n : conn' = [conn EXCEPT ![c] = Sent(k, n)]
      <4>1. PICK n : conn' = [conn EXCEPT ![c] = Sent(k, n)]
        BY <3>1
      <4> DEFINE b == Sent(k, n)
      <4>2. /\ b.alloc = k.alloc /\ b.state # "RECEIVE" /\ b.damaged = k.damaged
            /\ b.handled = k.handled /\ b.reply = k.reply /\ b.reply_body = k.reply_body
        BY <1>1 DEF Sent, Record
      <4> QED  BY <4>1, <4>2
    <3>2. CASE conn' = [conn EXCEPT ![c] = [k EXCEPT !.state = "DISPOSE"]]
      <4> DEFINE b == [k EXCEPT !.state = "DISPOSE"]
      <4>2. /\ b.alloc = k.alloc /\ b.state # "RECEIVE" /\ b.damaged = k.damaged
            /\ b.handled = k.handled /\ b.reply = k.reply /\ b.reply_body = k.reply_body
        BY <1>1 DEF Record
      <4> QED  BY <3>2, <4>2
    <3>3. CASE k.state = "DISPOSE" /\ conn' = [conn EXCEPT ![c] = Disposed(k)]
      <4> DEFINE b == Disposed(k)
      <4>2. /\ b.alloc = k.alloc /\ b.state # "RECEIVE" /\ b.damaged = k.damaged
            /\ b.handled = k.handled /\ b.reply = NULL
        BY <1>1, <3>3 DEF Disposed, Record
      <4> QED  BY <3>3, <4>2
    <3> QED  BY <1>3, <1>5, <3>1, <3>2, <3>3
  <2>2. Progress(k, request[c], recvd[c], crashed) /\ k.alloc
    BY <1>1 DEF AInv, ProgressInv, Progress
  <2>3. Progress(b, request[c], recvd[c], crashed)
    BY <2>1, <2>2, Constants DEF Progress, Fits, ReplyKinds
  <2>4. conn'[c] = b /\ \A d \in Conn \ {c} : conn'[d] = conn[d]
    BY <1>1, <2>1
  <2> QED  BY <1>2, <2>3, <2>4 DEF AInv, ProgressInv, SegmentInv
<1> QED  BY <1>4, <1>5

LEMMA ClientAnswers ==
  ASSUME IInv, AInv, NEW c \in Conn, ClientStep(c), FirstSegment >= 4
  PROVE  AInv'
<1>1. UNCHANGED <<conn, crashed>> /\ TcpTypeOK
  BY DEF ClientStep, connVars, IInv, TypeOK
<1>2. CASE Connect(c)
  <2>1. PICK r \in Requests : request' = [request EXCEPT ![c] = r]
    BY <1>2 DEF Connect
  <2>2. UNCHANGED <<sent, recvd>> /\ conn[c] = NoConnection
    BY <1>2 DEF Connect, IInv, WaitInv
  <2>3. request'[c] = r /\ \A d \in Conn \ {c} : request'[d] = request[d]
    BY <1>1, <2>1 DEF TcpTypeOK
  <2>4. Progress(NoConnection, r, recvd[c], crashed)
    BY <2>2, Constants
       DEF AInv, ProgressInv, Progress, NoConnection, Scanning, Fits, ReplyKinds
  <2> QED  BY <1>1, <2>2, <2>3, <2>4 DEF AInv, ProgressInv, SegmentInv
<1>3. CASE PeerSends(c)
  <2>1. PICK n \in Segments : /\ sent' = [sent EXCEPT ![c] = @ + n]
                              /\ sent[c] = 0 => n >= FirstSegment
    BY <1>3 DEF PeerSends
  <2>2. n \in Nat /\ FirstSegment \in Nat /\ UNCHANGED <<request, recvd>>
    BY <1>3, TcpAssumption DEF PeerSends
  <2>3. SegmentInv'
    BY <1>1, <2>1, <2>2 DEF AInv, SegmentInv, TcpTypeOK
  <2> QED  BY <1>1, <2>2, <2>3 DEF AInv, ProgressInv
<1>4. CASE PeerReads(c) \/ PeerLeaves(c)
  BY <1>1, <1>4, OthersKeepAnswers DEF PeerReads, PeerLeaves
<1> QED  BY <1>2, <1>3, <1>4 DEF ClientStep, PeerStep

LEMMA NextAnswers ==
  ASSUME FirstSegment >= 4, CHUNK_SIZE >= 4, IInv, AInv, [Next]_vars
  PROVE  AInv'
<1>1. CASE weather_server_initiate \/ smw_work \/ idle_task_work \/ UNCHANGED vars
  BY <1>1, OthersKeepAnswers
     DEF weather_server_initiate, smw_work, idle_task_work, http_server_task_work,
         weather_server_task_work, Crash, vars, tcpVars, connVars
<1>2. CASE tcp_server_task_work
  <2>1. CASE AcceptServed
    BY <2>1, AcceptAnswers
  <2>2. CASE AcceptNobody \/ AcceptDropped
    BY <2>2, OthersKeepAnswers DEF AcceptNobody, AcceptDropped, AcceptRefuses,
                                   tcpVars, connVars
  <2> QED  BY <1>2, <2>1, <2>2 DEF tcp_server_task_work
<1>3. ASSUME NEW c \in Conn, ~ crashed, connection_receives(c) PROVE AInv'
  BY <1>3, ReceiveProgresses
<1>4. ASSUME NEW c \in Conn, connection_sends(c) \/ connection_disposes(c) PROVE AInv'
  BY <1>4, SendAnswers
<1>5. ASSUME NEW c \in Conn, ClientStep(c) PROVE AInv'
  BY <1>5, ClientAnswers
<1> QED  BY <1>1, <1>2, <1>3, <1>4, <1>5 DEF Next, ServerStep, Callback

(***************************************************************************)
(* However a request is cut into segments (the first of them no shorter     *)
(* than the blank line) and whatever other connections do, onRequest runs   *)
(* at most once for it and answers with its method and path; the answer to  *)
(* GET /echo holds the whole request (http_server_connection.c:90-195).     *)
(***************************************************************************)
THEOREM AnswersFit ==
  ASSUME FirstSegment >= 4, CHUNK_SIZE >= 4
  PROVE  Spec => []AnswerFitsRequest
<1>1. Init => IInv /\ AInv
  BY InitHolds, InitAnswers
<1>2. IInv /\ AInv /\ [Next]_vars => IInv' /\ AInv'
  BY NextHolds, NextAnswers
<1>3. AInv => AnswerFitsRequest
  BY DEF AInv, ProgressInv, Progress, Fits, AnswerFitsRequest
<1> QED  BY <1>1, <1>2, <1>3, PTL DEF Spec
-------------------------------------------------------------------------------
(***************************************************************************)
(* The server implements HttpService.  Whether a connection may be answered *)
(* or closed depends on where it stands (Serving); a step concerns one      *)
(* connection and leaves every other as it is (Elsewhere).                  *)
(***************************************************************************)
Asked(c) == /\ request[c] # NULL
            /\ sent[c] >= request[c].header + request[c].content_len

Serving(c) ==
  LET k == conn[c] IN
  /\ ~ k.damaged
  /\ k.fd # NoFd => sock[c] = "open" /\ k.alloc
  /\ c \in ToSet(backlog) => sock[c] = "queued"
  /\ sock[c] = "none" <=> peer[c] = "away"
  /\ peer[c] = "away" => sent[c] = 0
  /\ k.state = "RECEIVE" => k.handled = 0 /\ k.write_offset = 0 /\ wrote[c] = 0
  /\ k.state = "SEND" => /\ k.handled > 0 /\ wrote[c] = k.write_offset
                         /\ k.reply # NULL => k.write_size = ReplySize
  /\ k.state = "DISPOSE" => k.handled > 0 /\ (wrote[c] = ReplySize \/ peer[c] = "left")
  /\ k.handled > 0 => Asked(c)

SInv == \A c \in Conn : Serving(c)

Kept(d) == /\ conn'[d] = conn[d] /\ sock'[d] = sock[d] /\ peer'[d] = peer[d]
           /\ sent'[d] = sent[d] /\ wrote'[d] = wrote[d] /\ request'[d] = request[d]

Elsewhere(c) == /\ \A d \in Conn \ {c} : Kept(d)
                /\ ToSet(backlog') \subseteq ToSet(backlog) \cup {c}

PhaseOf == [c \in Conn |-> Phase(c)]
AskedOf == [c \in Conn |-> Asked(c)]
DeliveredOf == [c \in Conn |-> wrote[c] = ReplySize]
GoneOf == [c \in Conn |-> peer[c] = "left"]

Stutters == UNCHANGED <<PhaseOf, backlog, AskedOf, DeliveredOf, GoneOf>>

Serves == Service!Next \/ Stutters

LEMMA KeptIsKept ==
  ASSUME NEW d \in Conn, Kept(d)
  PROVE  /\ Phase(d)' = Phase(d) /\ Asked(d)' = Asked(d)
         /\ (wrote[d] = ReplySize)' = (wrote[d] = ReplySize)
         /\ (peer[d] = "left")' = (peer[d] = "left")
         /\ Serving(d) /\ (d \in ToSet(backlog') => d \in ToSet(backlog)) => Serving(d)'
<1>1. Phase(d)' = Phase(d)
  BY DEF Kept, Phase
<1>2. Asked(d)' <=> Asked(d)
  BY DEF Kept, Asked
<1>3. Serving(d) /\ (d \in ToSet(backlog') => d \in ToSet(backlog)) => Serving(d)'
  BY <1>2 DEF Kept, Serving
<1> QED  BY <1>1, <1>2, <1>3 DEF Kept, Asked

LEMMA ServingElsewhere ==
  ASSUME SInv, NEW c \in Conn, Elsewhere(c), Serving(c)'
  PROVE  SInv'
<1>1. ASSUME NEW d \in Conn \ {c} PROVE Serving(d)'
  BY KeptIsKept DEF Elsewhere, SInv
<1> QED  BY <1>1 DEF SInv

\* A step of c changes the maps at c alone.
LEMMA MapsElsewhere ==
  ASSUME NEW c \in Conn, Elsewhere(c)
  PROVE  /\ PhaseOf' = [PhaseOf EXCEPT ![c] = Phase(c)']
         /\ AskedOf' = [AskedOf EXCEPT ![c] = Asked(c)']
         /\ DeliveredOf' = [DeliveredOf EXCEPT ![c] = (wrote[c] = ReplySize)']
         /\ GoneOf' = [GoneOf EXCEPT ![c] = (peer[c] = "left")']
<1>1. ASSUME NEW d \in Conn \ {c}
      PROVE  /\ Phase(d)' = Phase(d) /\ Asked(d)' = Asked(d)
             /\ (wrote[d] = ReplySize)' = (wrote[d] = ReplySize)
             /\ (peer[d] = "left")' = (peer[d] = "left")
  BY KeptIsKept DEF Elsewhere
<1>2. PhaseOf' = [PhaseOf EXCEPT ![c] = Phase(c)']
  BY <1>1 DEF PhaseOf
<1>3. AskedOf' = [AskedOf EXCEPT ![c] = Asked(c)']
  BY <1>1 DEF AskedOf
<1>4. DeliveredOf' = [DeliveredOf EXCEPT ![c] = (wrote[c] = ReplySize)']
  BY <1>1 DEF DeliveredOf
<1>5. GoneOf' = [GoneOf EXCEPT ![c] = (peer[c] = "left")']
  BY <1>1 DEF GoneOf
<1> QED  BY <1>2, <1>3, <1>4, <1>5

LEMMA NothingServed ==
  ASSUME SInv, UNCHANGED <<conn, sock, peer, sent, wrote, request, backlog>>
  PROVE  SInv' /\ Stutters
<1>1. \A d \in Conn : Kept(d)
  BY DEF Kept
<1>2. SInv'
  BY <1>1, KeptIsKept DEF SInv
<1>3. \A d \in Conn : Phase(d)' = Phase(d) /\ Asked(d)' = Asked(d)
  BY <1>1, KeptIsKept
<1>4. PhaseOf' = PhaseOf
  BY <1>3 DEF PhaseOf
<1>5. AskedOf' = AskedOf
  BY <1>3 DEF AskedOf
<1> QED  BY <1>2, <1>4, <1>5 DEF Stutters, DeliveredOf, GoneOf

LEMMA MapsUnchanged ==
  ASSUME NEW c \in Conn, Elsewhere(c)
  PROVE  /\ Phase(c)' = Phase(c) => PhaseOf' = PhaseOf
         /\ Asked(c)' = Asked(c) => AskedOf' = AskedOf
         /\ wrote'[c] = wrote[c] => DeliveredOf' = DeliveredOf
         /\ peer'[c] = peer[c] => GoneOf' = GoneOf
<1>1. \A d \in Conn \ {c} : Phase(d)' = Phase(d) /\ Asked(d)' = Asked(d) /\ Kept(d)
  BY KeptIsKept DEF Elsewhere
<1>2. ASSUME Phase(c)' = Phase(c) PROVE PhaseOf' = PhaseOf
  <2>1. \A d \in Conn : Phase(d)' = Phase(d)
    BY <1>1, <1>2
  <2> QED  BY <2>1 DEF PhaseOf
<1>3. ASSUME Asked(c)' = Asked(c) PROVE AskedOf' = AskedOf
  <2>1. \A d \in Conn : Asked(d)' = Asked(d)
    BY <1>1, <1>3
  <2> QED  BY <2>1 DEF AskedOf
<1>4. ASSUME wrote'[c] = wrote[c] PROVE DeliveredOf' = DeliveredOf
  <2>1. \A d \in Conn : wrote'[d] = wrote[d]
    BY <1>1, <1>4 DEF Kept
  <2> QED  BY <2>1 DEF DeliveredOf
<1>5. ASSUME peer'[c] = peer[c] PROVE GoneOf' = GoneOf
  <2>1. \A d \in Conn : peer'[d] = peer[d]
    BY <1>1, <1>5 DEF Kept
  <2> QED  BY <2>1 DEF GoneOf
<1> QED  BY <1>2, <1>3, <1>4, <1>5

\* The steps of HttpService, by what they do to the one connection.
LEMMA Moving ==
  ASSUME NEW c \in Conn, Elsewhere(c),
         Asked(c)' = Asked(c), wrote'[c] = wrote[c], peer'[c] = peer[c]
  PROVE  /\ Phase(c) = "waiting" /\ Phase(c)' \in {"open", "refused"}
              /\ backlog # << >> /\ c = Head(backlog) /\ backlog' = Tail(backlog)
              => Service!Take(c)
         /\ Phase(c) = "open" /\ Phase(c)' = "answered" /\ Asked(c) /\ backlog' = backlog
              => Service!Answer(c)
         /\ Phase(c) = "answered" /\ Phase(c)' = "closed" /\ backlog' = backlog
              /\ (wrote[c] = ReplySize \/ peer[c] = "left")
              => Service!Close(c)
         /\ Phase(c)' = Phase(c) /\ backlog' = backlog => Stutters
<1>1. /\ AskedOf' = AskedOf /\ DeliveredOf' = DeliveredOf /\ GoneOf' = GoneOf
      /\ PhaseOf' = [PhaseOf EXCEPT ![c] = Phase(c)']
  BY MapsElsewhere, MapsUnchanged
<1>2. /\ PhaseOf[c] = Phase(c) /\ AskedOf[c] = Asked(c)
      /\ DeliveredOf[c] = (wrote[c] = ReplySize) /\ GoneOf[c] = (peer[c] = "left")
  BY DEF PhaseOf, AskedOf, DeliveredOf, GoneOf
<1>3. ASSUME Phase(c) = "waiting", Phase(c)' \in {"open", "refused"},
             backlog # << >>, c = Head(backlog), backlog' = Tail(backlog)
      PROVE  Service!Take(c)
  BY <1>1, <1>2, <1>3
     DEF Service!Take, Service!Moves, PhaseOf, AskedOf, DeliveredOf, GoneOf, Asked
<1>4. ASSUME Phase(c) = "open", Phase(c)' = "answered", Asked(c), backlog' = backlog
      PROVE  Service!Answer(c)
  BY <1>1, <1>2, <1>4
     DEF Service!Answer, Service!Moves, PhaseOf, AskedOf, DeliveredOf, GoneOf, Asked
<1>5. ASSUME Phase(c) = "answered", Phase(c)' = "closed", backlog' = backlog,
             wrote[c] = ReplySize \/ peer[c] = "left"
      PROVE  Service!Close(c)
  BY <1>1, <1>2, <1>5
     DEF Service!Close, Service!Moves, PhaseOf, AskedOf, DeliveredOf, GoneOf, Asked
<1>6. ASSUME Phase(c)' = Phase(c), backlog' = backlog
      PROVE  Stutters
  BY <1>1, <1>2, <1>6 DEF Stutters, PhaseOf
<1> QED  BY <1>3, <1>4, <1>5, <1>6
LEMMA Arriving ==
  ASSUME NEW c \in Conn, Elsewhere(c), Phase(c) = "away", Phase(c)' = "waiting",
         backlog' = Append(backlog, c), ~ Asked(c), ~ Asked(c)',
         wrote'[c] = wrote[c], peer[c] # "left", peer'[c] # "left"
  PROVE  Service!Arrive(c)
<1>1. Asked(c)' = Asked(c)
  BY DEF Asked
<1>2. AskedOf' = AskedOf /\ DeliveredOf' = DeliveredOf
  BY <1>1, MapsUnchanged
<1>3. GoneOf' = GoneOf
  <2>1. \A d \in Conn : (peer'[d] = "left") <=> (peer[d] = "left")
    BY DEF Elsewhere, Kept
  <2> QED  BY <2>1 DEF GoneOf
<1>4. PhaseOf' = [PhaseOf EXCEPT ![c] = "waiting"] /\ PhaseOf[c] = "away"
  BY MapsElsewhere DEF PhaseOf
<1> QED  BY <1>2, <1>3, <1>4
         DEF Service!Arrive, Service!Moves, PhaseOf, AskedOf, DeliveredOf, GoneOf, Asked

LEMMA Asking ==
  ASSUME NEW c \in Conn, Elsewhere(c), Phase(c) \in {"waiting", "open"},
         Phase(c)' = Phase(c), backlog' = backlog, ~ Asked(c), Asked(c)',
         wrote'[c] = wrote[c], peer'[c] = peer[c]
  PROVE  Service!Ask(c)
<1>1. PhaseOf' = PhaseOf /\ DeliveredOf' = DeliveredOf /\ GoneOf' = GoneOf
  BY MapsUnchanged
<1>2. AskedOf' = [AskedOf EXCEPT ![c] = TRUE]
  BY MapsElsewhere
<1>3. PhaseOf[c] = Phase(c) /\ ~ AskedOf[c]
  BY DEF PhaseOf, AskedOf
<1> QED  BY <1>1, <1>2, <1>3
         DEF Service!Ask, Service!Sets, PhaseOf, AskedOf, DeliveredOf, GoneOf, Asked

LEMMA Leaving ==
  ASSUME NEW c \in Conn, Elsewhere(c), Phase(c) # "away", Phase(c)' = Phase(c),
         backlog' = backlog, Asked(c)' = Asked(c), wrote'[c] = wrote[c],
         peer[c] # "left", peer'[c] = "left"
  PROVE  Service!Leave(c)
<1>1. PhaseOf' = PhaseOf /\ DeliveredOf' = DeliveredOf /\ AskedOf' = AskedOf
  BY MapsUnchanged
<1>2. GoneOf' = [GoneOf EXCEPT ![c] = TRUE]
  BY MapsElsewhere
<1>3. PhaseOf[c] = Phase(c) /\ ~ GoneOf[c]
  BY DEF PhaseOf, GoneOf
<1> QED  BY <1>1, <1>2, <1>3
         DEF Service!Leave, Service!Sets, PhaseOf, AskedOf, DeliveredOf, GoneOf, Asked

LEMMA Delivering ==
  ASSUME NEW c \in Conn, Elsewhere(c), Phase(c) = "answered", Phase(c)' = "answered",
         backlog' = backlog, Asked(c)' = Asked(c), peer'[c] = peer[c],
         wrote[c] # ReplySize, wrote'[c] = ReplySize
  PROVE  Service!Deliver(c)
<1>1. PhaseOf' = PhaseOf /\ GoneOf' = GoneOf /\ AskedOf' = AskedOf
  BY MapsUnchanged
<1>2. DeliveredOf' = [DeliveredOf EXCEPT ![c] = TRUE]
  BY MapsElsewhere
<1>3. PhaseOf[c] = "answered" /\ ~ DeliveredOf[c]
  BY DEF PhaseOf, DeliveredOf
<1> QED  BY <1>1, <1>2, <1>3
         DEF Service!Deliver, Service!Sets, PhaseOf, AskedOf, DeliveredOf, GoneOf, Asked

\* A chunk was appended and the request is not handled yet.
Continues(b, k) == /\ b \in Record /\ b.alloc = k.alloc /\ b.fd = k.fd /\ ~ b.damaged
                   /\ b.state = k.state /\ b.handled = k.handled
                   /\ b.write_offset = k.write_offset

\* The request was complete and onRequest has been called.
Answers(b, k) == /\ b \in Record /\ b.alloc = k.alloc /\ b.fd = k.fd /\ ~ b.damaged
                 /\ b.state = "SEND" /\ b.handled > 0
                 /\ b.write_offset = k.write_offset
                 /\ b.reply # NULL => b.write_size = ReplySize

LEMMA ScannedContinues ==
  ASSUME NEW k \in Record, NEW r \in Requests, NEW p \in Scanned(k, r),
         NEW o, Continues(k, o)
  PROVE  Continues(p, o)
<1>1. p \in Record
  BY ScannedTyped
<1>2. p = k \/ \E m, a, start, len : p = HeadersParsed(k, m, a, start, len)
  BY DEF Scanned
<1>3. ASSUME NEW m, NEW a, NEW start, NEW len
      PROVE  LET h == HeadersParsed(k, m, a, start, len) IN
             /\ h.alloc = k.alloc /\ h.fd = k.fd /\ h.damaged = k.damaged
             /\ h.state = k.state /\ h.handled = k.handled
             /\ h.write_offset = k.write_offset
  BY DEF HeadersParsed, Record
<1> QED  BY <1>1, <1>2, <1>3 DEF Continues

LEMMA HandledAnswers ==
  ASSUME NEW p \in Record, NEW o, Continues(p, o), NEW h \in Handled(p), p.reply = NULL
  PROVE  Answers(h, o)
<1> DEFINE m == [p EXCEPT !.state = "SEND"]
           s == [p EXCEPT !.state = "SEND", !.handled = @ + 1]
           w == weather_server_instance_on_request(s)
<1>1. /\ s \in Record /\ s.alloc = p.alloc /\ s.fd = p.fd /\ s.damaged = p.damaged
      /\ s.state = "SEND" /\ s.handled > 0 /\ s.write_offset = p.write_offset
      /\ s.reply = NULL
  <2>1. m \in Record /\ s = [m EXCEPT !.handled = @ + 1]
    BY DEF Record
  <2>2. /\ m.alloc = p.alloc /\ m.fd = p.fd /\ m.damaged = p.damaged
        /\ m.state = "SEND" /\ m.handled \in Nat /\ m.write_offset = p.write_offset
        /\ m.reply = NULL
    BY DEF Record
  <2> HIDE DEF m, s
  <2> QED  BY <2>1, <2>2 DEF Record
<1>2. h = s \/ h = w
  BY DEF Handled
<1>3. h \in Record
  BY HandledTyped
<1> HIDE DEF s
<1>4. CASE h = s
  BY <1>1, <1>4 DEF Answers, Continues
<1>5. CASE h = w
  <2>1. /\ w.alloc = s.alloc /\ w.fd = s.fd /\ w.damaged = s.damaged
        /\ w.state = s.state /\ w.handled = s.handled
        /\ w.write_offset = s.write_offset /\ w.write_size = ReplySize
    BY <1>1 DEF weather_server_instance_on_request, Record
  <2> QED  BY <1>1, <1>3, <1>5, <2>1 DEF Answers, Continues
<1> QED  BY <1>2, <1>4, <1>5

(***************************************************************************)
(* What a call of receive leaves behind.                                    *)
(***************************************************************************)
LEMMA ReceiveYields ==
  ASSUME IInv, AInv, SInv, NEW c \in Conn, ~ crashed, connection_receives(c),
         FirstSegment >= 4, CHUNK_SIZE >= 4, "realloc" \notin AllocFail
  PROVE  /\ UNCHANGED <<sock, peer, sent, wrote, request, backlog>>
         /\ \A d \in Conn \ {c} : conn'[d] = conn[d]
         /\ \/ Continues(conn'[c], conn[c])
            \/ Answers(conn'[c], conn[c]) /\ Asked(c)
<1> DEFINE k == conn[c]
           r == request[c]
           n == Min({CHUNK_SIZE, Unread(c)})
<1>1. /\ Socket(k.fd) = c /\ k \in Record /\ r \in Requests /\ k # NoConnection
      /\ conn \in [Conn -> Record] /\ TcpTypeOK /\ k.state = "RECEIVE" /\ k.alloc
  <2>1. k \in Record /\ k # NoConnection
    BY RunningIs DEF connection_receives
  <2>2. k.alloc
    BY <2>1 DEF AInv, ProgressInv, Progress
  <2> QED  BY <2>2, RunningIs DEF connection_receives, IInv, TypeOK, ConnTypeOK, Record
<1>2. Continues(k, k) /\ r # NULL
  <2>1. r # NULL
    BY <1>1, TcpAssumption
  <2> QED  BY <1>1, <2>1 DEF SInv, Serving, Continues
<1>3. CASE UNCHANGED <<tcpVars, connVars>>
  BY <1>2, <1>3 DEF tcpVars, connVars
<1>4. CASE ~ UNCHANGED <<tcpVars, connVars>>
  <2>1. Unread(c) > 0 /\ Recv(c, n) /\ Process(c, Appended(k, n), r)
    BY <1>1, <1>4 DEF connection_receives, http_server_connection_receive, MayFail
  <2>2. sent[c] \in Nat /\ recvd[c] \in Nat /\ CHUNK_SIZE \in Nat
    BY <1>1, Constants DEF TcpTypeOK
  <2>3. n \in Nat /\ n <= CHUNK_SIZE /\ n <= Unread(c) /\ n \in {CHUNK_SIZE, Unread(c)}
    BY <2>1, <2>2 DEF Min, Unread
  <2> HIDE DEF n
  <2>4. UNCHANGED <<sock, peer, sent, wrote, request, backlog>>
    BY <2>1 DEF Recv
  <2> DEFINE t == recvd[c] + n
             a == Appended(k, n)
  <2>5. t \in Nat /\ t >= 4 /\ t <= sent[c]
    BY <1>1, <2>1, <2>2, <2>3 DEF AInv, SegmentInv, Unread
  <2>6. Receiving(k, r, recvd[c])
    BY <1>1 DEF AInv, ProgressInv, Progress, Receiving
  <2>7. a \in Record /\ Receiving(a, r, t) /\ Continues(a, k)
    <3>1. a \in Record /\ Receiving(a, r, t)
      BY <1>1, <2>2, <2>3, <2>6 DEF Appended, Record, Receiving, Scanning
    <3>2. /\ a.alloc = k.alloc /\ a.fd = k.fd /\ a.damaged = k.damaged
          /\ a.state = k.state /\ a.handled = k.handled
          /\ a.write_offset = k.write_offset
      BY <1>1 DEF Appended, Record
    <3> QED  BY <1>2, <3>1, <3>2 DEF Continues
  <2>8. \A p \in Scanned(a, r) : p \in Record /\ Receiving(p, r, t) /\ Continues(p, k)
    BY <1>1, <2>5, <2>7, ScannedTyped, ScannedReceives, ScannedContinues
  <2>9. \/ conn' = conn
        \/ \E b : Continues(b, k) /\ conn' = [conn EXCEPT ![c] = b]
        \/ \E p \in Scanned(a, r) : Complete(p) /\ \E h \in Handled(p) :
             conn' = [conn EXCEPT ![c] = h]
    <3> HIDE DEF a
    <3>1. Process(c, a, r)
      BY <2>1 DEF a
    <3> QED  BY <2>7, <2>8, <3>1 DEF Process, Becomes, Crash
  <2>10. CASE conn' = conn
    BY <1>2, <2>4, <2>10
  <2>11. CASE \E b : Continues(b, k) /\ conn' = [conn EXCEPT ![c] = b]
    BY <1>1, <2>4, <2>11
  <2>12. ASSUME NEW p \in Scanned(a, r), Complete(p), NEW h \in Handled(p),
                conn' = [conn EXCEPT ![c] = h]
         PROVE  Answers(conn'[c], k) /\ Asked(c)
    <3>1. p \in Record /\ Receiving(p, r, t) /\ Continues(p, k)
      BY <2>8, <2>12
    <3>2. Answers(h, k)
      BY <3>1, HandledAnswers DEF Receiving
    <3>3. /\ p.read_buffer_size = t /\ p.body_start = r.header
          /\ p.content_len = r.content_len
      BY <2>12, <3>1 DEF Receiving, Scanning, Continues, Complete, Record
    <3>4. r.header + r.content_len <= sent[c]
      BY <2>2, <2>5, <2>12, <3>3, RequestTyped, <1>1 DEF Complete
    <3> QED  BY <1>1, <1>2, <2>2, <2>12, <3>2, <3>4, RequestTyped DEF Asked
  <2> QED  BY <1>1, <2>4, <2>9, <2>10, <2>11, <2>12
<1> QED  BY <1>3, <1>4

LEMMA ReceiveServes ==
  ASSUME IInv, AInv, SInv, NEW c \in Conn, ~ crashed, connection_receives(c),
         FirstSegment >= 4, CHUNK_SIZE >= 4, "realloc" \notin AllocFail
  PROVE  SInv' /\ Serves
<1> DEFINE k == conn[c]
<1>1. /\ UNCHANGED <<sock, peer, sent, wrote, request, backlog>>
      /\ Elsewhere(c) /\ Asked(c)' = Asked(c)
  BY ReceiveYields DEF Elsewhere, Kept, Asked
<1>2. /\ k.fd # NoFd /\ k.state = "RECEIVE" /\ k \in Record /\ Serving(c)
  BY RunningIs, Constants DEF connection_receives, SInv
<1>3. sock[c] = "open" /\ k.alloc /\ k.handled = 0 /\ k.write_offset = 0 /\ wrote[c] = 0
  BY <1>2 DEF Serving
<1>4. CASE Continues(conn'[c], k)
  <2>1. Serving(c)'
    BY <1>1, <1>2, <1>3, <1>4 DEF Serving, Continues
  <2>2. Phase(c)' = Phase(c)
    BY <1>1, <1>3, <1>4 DEF Phase, Continues
  <2> QED  BY <1>1, <2>1, <2>2, ServingElsewhere, Moving DEF Serves
<1>5. CASE Answers(conn'[c], k) /\ Asked(c)
  <2>1. Serving(c)'
    BY <1>1, <1>2, <1>3, <1>5 DEF Serving, Answers
  <2>2. Phase(c) = "open" /\ Phase(c)' = "answered"
    BY <1>1, <1>3, <1>5 DEF Phase, Answers, Record
  <2>3. Service!Answer(c)
    BY <1>1, <1>5, <2>2, Moving
  <2> QED  BY <1>1, <2>1, <2>3, ServingElsewhere DEF Serves, Service!Next
<1> QED  BY <1>4, <1>5, ReceiveYields

LEMMA SendServes ==
  ASSUME IInv, SInv, NEW c \in Conn, connection_sends(c)
  PROVE  SInv' /\ Serves
<1> DEFINE k == conn[c]
<1>1. /\ k \in Record /\ Socket(k.fd) = c /\ k.fd # NoFd /\ k.state = "SEND"
      /\ conn \in [Conn -> Record] /\ TcpTypeOK /\ Serving(c)
  BY RunningIs, Constants
     DEF connection_sends, IInv, TypeOK, ConnTypeOK, Record, SInv
<1>2. /\ sock[c] = "open" /\ k.alloc /\ k.handled > 0 /\ wrote[c] = k.write_offset
      /\ k.reply # NULL => k.write_size = ReplySize
      /\ ~ k.damaged /\ Asked(c) /\ sock[c] = "none" <=> peer[c] = "away"
  BY <1>1 DEF Serving
<1>3. Phase(c) = "answered"
  BY <1>1, <1>2 DEF Phase, Record
<1>4. CASE UNCHANGED <<tcpVars, connVars>>
  BY <1>4, NothingServed DEF Serves, tcpVars, connVars
<1>5. CASE \E n \in Sendable(c, k.write_size - k.write_offset) :
             ~ NothingToSend(k) /\ Send(c, n) /\ Becomes(c, {Sent(k, n)})
  <2>1. PICK n \in Sendable(c, k.write_size - k.write_offset) :
               ~ NothingToSend(k) /\ Send(c, n) /\ Becomes(c, {Sent(k, n)})
    BY <1>5
  <2>2. /\ n \in Nat /\ n <= k.write_size - k.write_offset
        /\ k.write_offset \in Nat /\ k.write_size \in Nat
        /\ k.write_size = ReplySize /\ k.write_offset < ReplySize
    BY <1>1, <1>2, <2>1 DEF Sendable, NothingToSend, Record
  <2>3. /\ wrote' = [wrote EXCEPT ![c] = @ + n] /\ conn' = [conn EXCEPT ![c] = Sent(k, n)]
        /\ UNCHANGED <<peer, request, sent, sock, backlog>>
    BY <2>1 DEF Send, Becomes
  <2> DEFINE b == Sent(k, n)
  <2>4. /\ b.alloc = k.alloc /\ b.fd = k.fd /\ b.damaged = k.damaged
        /\ b.handled = k.handled /\ b.reply = k.reply /\ b.write_size = k.write_size
        /\ b.write_offset = k.write_offset + n
        /\ b.state = IF k.write_offset + n >= ReplySize THEN "DISPOSE" ELSE "SEND"
    BY <1>1, <2>2 DEF Sent, Record
  <2>5. /\ conn'[c] = b /\ wrote'[c] = k.write_offset + n
        /\ Elsewhere(c) /\ Asked(c)' = Asked(c)
    BY <1>1, <1>2, <2>3 DEF TcpTypeOK, Elsewhere, Kept, Asked
  <2> HIDE DEF b
  <2>6. Phase(c)' = "answered"
    BY <1>1, <1>2, <2>3, <2>4, <2>5 DEF Phase, Record
  <2>7. CASE k.write_offset + n >= ReplySize
    <3>1. wrote'[c] = ReplySize /\ wrote[c] # ReplySize
      BY <1>2, <2>2, <2>5, <2>7, Constants
    <3>2. Serving(c)'
      BY <1>1, <1>2, <2>3, <2>4, <2>5, <2>7, <3>1 DEF Serving
    <3>3. Service!Deliver(c)
      BY <1>3, <2>3, <2>5, <2>6, <3>1, Delivering
    <3> QED  BY <2>5, <3>2, <3>3, ServingElsewhere DEF Serves, Service!Next
  <2>8. CASE ~ (k.write_offset + n >= ReplySize)
    <3>1. wrote'[c] # ReplySize /\ wrote[c] # ReplySize
      BY <1>2, <2>2, <2>5, <2>8, Constants
    <3>2. Serving(c)'
      BY <1>1, <1>2, <2>2, <2>3, <2>4, <2>5, <2>8 DEF Serving
    <3>3. PhaseOf' = PhaseOf /\ AskedOf' = AskedOf /\ GoneOf' = GoneOf
      BY <1>3, <2>3, <2>5, <2>6, MapsUnchanged
    <3>4. DeliveredOf' = DeliveredOf
      <4>1. \A d \in Conn : (wrote'[d] = ReplySize) <=> (wrote[d] = ReplySize)
        BY <2>5, <3>1 DEF Elsewhere, Kept
      <4> QED  BY <4>1 DEF DeliveredOf
    <3> QED  BY <2>3, <2>5, <3>2, <3>3, <3>4, ServingElsewhere DEF Serves, Stutters
  <2> QED  BY <2>7, <2>8
<1>6. CASE /\ peer[c] = "left" /\ UNCHANGED tcpVars
           /\ Becomes(c, {[k EXCEPT !.state = "DISPOSE"]})
  <2> DEFINE b == [k EXCEPT !.state = "DISPOSE"]
  <2>1. /\ conn' = [conn EXCEPT ![c] = b]
        /\ UNCHANGED <<peer, request, sent, wrote, sock, backlog>>
    BY <1>6 DEF Becomes, tcpVars
  <2>2. /\ b.alloc = k.alloc /\ b.fd = k.fd /\ b.damaged = k.damaged
        /\ b.handled = k.handled /\ b.state = "DISPOSE"
    BY <1>1 DEF Record
  <2>3. conn'[c] = b /\ Elsewhere(c) /\ Asked(c)' = Asked(c)
    BY <1>1, <2>1 DEF Elsewhere, Kept, Asked
  <2> HIDE DEF b
  <2>4. Serving(c)'
    BY <1>1, <1>2, <1>6, <2>1, <2>2, <2>3 DEF Serving
  <2>5. Phase(c)' = Phase(c)
    BY <1>2, <2>1, <2>2, <2>3 DEF Phase
  <2> QED  BY <2>1, <2>3, <2>4, <2>5, ServingElsewhere, Moving DEF Serves
<1>7. c # NULL
  BY Constants
<1> QED  BY <1>1, <1>4, <1>5, <1>6, <1>7 DEF connection_sends, http_server_connection_send

LEMMA DisposeServes ==
  ASSUME IInv, SInv, NEW c \in Conn, connection_disposes(c)
  PROVE  SInv' /\ Serves
<1> DEFINE k == conn[c]
           b == Disposed(k)
<1>1. /\ k \in Record /\ Socket(k.fd) = c /\ k.fd # NoFd /\ k.state = "DISPOSE"
      /\ conn \in [Conn -> Record] /\ TcpTypeOK /\ Serving(c)
  BY RunningIs, Constants
     DEF connection_disposes, IInv, TypeOK, ConnTypeOK, Record, SInv
<1>2. /\ sock[c] = "open" /\ k.alloc /\ k.handled > 0 /\ ~ k.damaged
      /\ wrote[c] = ReplySize \/ peer[c] = "left"
      /\ Asked(c) /\ peer[c] # "away" /\ c \notin ToSet(backlog)
  BY <1>1 DEF Serving
<1>3. Phase(c) = "answered"
  BY <1>1, <1>2 DEF Phase, Record
<1>4. /\ conn' = [conn EXCEPT ![c] = b] /\ sock'[c] \in {"closed", "reset"}
      /\ \A d \in Conn \ {c} : sock'[d] = sock[d]
      /\ UNCHANGED <<peer, request, sent, wrote, backlog>>
  <2>1. Close(k.fd) /\ conn' = [conn EXCEPT ![c] = b]
    BY <1>1, Constants DEF connection_disposes, http_server_connection_dispose, Becomes
  <2> QED  BY <1>1, <2>1 DEF Close, TcpTypeOK
<1>5. /\ b.alloc = k.alloc /\ b.fd = NoFd /\ b.damaged = k.damaged
      /\ b.handled = k.handled /\ b.state = "DISPOSE"
  BY <1>1 DEF Disposed, Record
<1>6. conn'[c] = b /\ Elsewhere(c) /\ Asked(c)' = Asked(c)
  BY <1>1, <1>4 DEF Elsewhere, Kept, Asked
<1> HIDE DEF b
<1>7. Serving(c)'
  BY <1>1, <1>2, <1>4, <1>5, <1>6 DEF Serving
<1>8. Phase(c)' = "closed"
  BY <1>2, <1>4, <1>5, <1>6 DEF Phase
<1>9. Service!Close(c)
  BY <1>2, <1>3, <1>4, <1>6, <1>8, Moving
<1> QED  BY <1>6, <1>7, <1>9, ServingElsewhere DEF Serves, Service!Next

LEMMA AcceptServes ==
  ASSUME IInv, SInv, AcceptServed \/ AcceptDropped
  PROVE  SInv' /\ Serves
<1>1. PICK c : c = Head(backlog)
  OBVIOUS
<1>2. /\ backlog # << >> /\ backlog' = Tail(backlog)
      /\ UNCHANGED <<peer, request, sent, wrote>>
      /\ \/ /\ AcceptServed /\ FreeFds # {} /\ sock' = [sock EXCEPT ![c] = "open"]
         \/ /\ AcceptDropped /\ conn' = conn /\ sock' = [sock EXCEPT ![c] = "reset"]
  BY <1>1 DEF AcceptServed, AcceptDropped, AcceptOpens, AcceptRefuses,
              AcceptSucceeds, connVars
<1>3. /\ c \in ToSet(backlog) /\ ToSet(Tail(backlog)) = ToSet(backlog) \ {c}
      /\ c \in Conn /\ TcpTypeOK /\ conn \in [Conn -> Record]
  <2>1. backlog \in Seq(Conn) /\ IsInjective(backlog)
    BY DEF IInv, WaitInv, TypeOK, TcpTypeOK
  <2>2. c \in ToSet(backlog) /\ ToSet(Tail(backlog)) = ToSet(backlog) \ {c}
    BY <1>1, <1>2, <2>1, HeadTailElements
  <2> QED  BY <2>1, <2>2, ToSetIs DEF IInv, TypeOK, ConnTypeOK, Record
<1>4. conn[c] = NoConnection /\ peer[c] # "away" /\ Serving(c)
  BY <1>3 DEF IInv, WaitInv, SInv
<1>5. sock[c] = "queued" /\ wrote[c] = 0 /\ Phase(c) = "waiting"
  BY <1>3, <1>4 DEF Serving, NoConnection, Phase
<1>6. PICK b \in Record :
        /\ conn' = [conn EXCEPT ![c] = b] /\ ~ b.damaged /\ b.state = "RECEIVE"
        /\ b.handled = 0 /\ b.write_offset = 0
        /\ \/ sock'[c] = "open" /\ b.alloc
           \/ sock'[c] = "reset" /\ ~ b.alloc /\ b.fd = NoFd
  <2>1. CASE AcceptDropped /\ conn' = conn /\ sock' = [sock EXCEPT ![c] = "reset"]
    <3>1. conn' = [conn EXCEPT ![c] = NoConnection]
      BY <1>3, <1>4, <2>1
    <3>2. /\ ~ NoConnection.damaged /\ NoConnection.state = "RECEIVE"
          /\ NoConnection.handled = 0 /\ NoConnection.write_offset = 0
          /\ ~ NoConnection.alloc /\ NoConnection.fd = NoFd
      BY DEF NoConnection
    <3>3. sock'[c] = "reset"
      BY <1>3, <2>1 DEF TcpTypeOK
    <3> QED  BY <3>1, <3>2, <3>3, NoConnectionTyped
  <2>2. CASE AcceptServed /\ FreeFds # {} /\ sock' = [sock EXCEPT ![c] = "open"]
    <3>1. PICK task \in BOOLEAN, callback \in BOOLEAN :
            Becomes(c, {Initiated(AcceptedFd, task, callback)})
      BY <1>1, <2>2 DEF AcceptServed
    <3> DEFINE k == Initiated(AcceptedFd, task, callback)
    <3>2. AcceptedFd \in Fd
      BY <2>2, AcceptedIsFree DEF FreeFds
    <3>3. /\ k \in Record /\ ~ k.damaged /\ k.state = "RECEIVE" /\ k.handled = 0
          /\ k.write_offset = 0 /\ k.alloc
      BY <3>2, InitiatedIs
    <3> HIDE DEF k
    <3>4. Becomes(c, {k})
      BY <3>1 DEF k
    <3>5. sock'[c] = "open" /\ conn' = [conn EXCEPT ![c] = k]
      BY <1>3, <2>2, <3>4 DEF TcpTypeOK, Becomes
    <3> QED  BY <3>3, <3>5
  <2> QED  BY <1>2, <2>1, <2>2
<1>7. /\ conn'[c] = b /\ Elsewhere(c) /\ Asked(c)' = Asked(c) /\ c \notin ToSet(backlog')
  BY <1>2, <1>3, <1>6 DEF Elsewhere, Kept, Asked, TcpTypeOK
<1>8. Serving(c)'
  BY <1>2, <1>4, <1>5, <1>6, <1>7 DEF Serving
<1>9. Phase(c)' \in {"open", "refused"}
  BY <1>6, <1>7 DEF Phase
<1>10. Service!Take(c)
  BY <1>1, <1>2, <1>3, <1>5, <1>7, <1>9, Moving
<1> QED  BY <1>3, <1>7, <1>8, <1>10, ServingElsewhere DEF Serves, Service!Next

LEMMA ClientServes ==
  ASSUME IInv, SInv, NEW c \in Conn, ClientStep(c)
  PROVE  SInv' /\ Serves
<1> DEFINE k == conn[c]
<1>1. /\ conn' = conn /\ k \in Record /\ TcpTypeOK /\ Serving(c)
      /\ ToSet(backlog) \subseteq Conn /\ backlog \in Seq(Conn)
  BY ToSetIs DEF ClientStep, connVars, IInv, TypeOK, TcpTypeOK, ConnTypeOK, Record, SInv
<1>2. CASE Connect(c)
  <2>1. PICK r \in Requests : request' = [request EXCEPT ![c] = r]
    BY <1>2 DEF Connect
  <2>2. /\ peer[c] = "away" /\ peer' = [peer EXCEPT ![c] = "open"]
        /\ sock' = [sock EXCEPT ![c] = "queued"] /\ backlog' = Append(backlog, c)
        /\ UNCHANGED <<sent, wrote>>
    BY <1>2 DEF Connect
  <2>3. ToSet(backlog') = ToSet(backlog) \cup {c}
    BY <1>1, <2>2, AppendElements
  <2>4. Elsewhere(c)
    BY <1>1, <2>1, <2>2, <2>3 DEF Elsewhere, Kept, TcpTypeOK
  <2>5. /\ peer'[c] = "open" /\ sock'[c] = "queued" /\ request'[c] = r
        /\ k = NoConnection /\ sock[c] = "none" /\ sent[c] = 0
    BY <1>1, <2>1, <2>2 DEF TcpTypeOK, IInv, WaitInv, Serving
  <2>6. k.handled = 0 /\ k.fd = NoFd /\ k.state = "RECEIVE"
    BY <2>5 DEF NoConnection
  <2>7. ~ Asked(c) /\ ~ Asked(c)'
    <3>1. request[c] # NULL => request[c] \in Requests
      BY <1>1 DEF TcpTypeOK
    <3>2. \A q \in Requests : ~ (0 >= q.header + q.content_len)
      BY RequestTyped
    <3> QED  BY <2>2, <2>5, <3>1, <3>2 DEF Asked
  <2>8. Serving(c)'
    BY <1>1, <2>2, <2>5, <2>6 DEF Serving
  <2>9. Phase(c) = "away" /\ Phase(c)' = "waiting"
    BY <2>5 DEF Phase
  <2>10. Service!Arrive(c)
    BY <2>2, <2>4, <2>5, <2>7, <2>9, Arriving
  <2> QED  BY <2>4, <2>8, <2>10, ServingElsewhere DEF Serves, Service!Next
<1>3. CASE PeerSends(c)
  <2>1. PICK n \in Segments : sent' = [sent EXCEPT ![c] = @ + n]
    BY <1>3 DEF PeerSends
  <2>2. /\ peer[c] = "open" /\ sock[c] \in {"queued", "open"} /\ n \in Nat
        /\ UNCHANGED <<peer, request, wrote, sock, backlog>>
    BY <1>3, TcpAssumption DEF PeerSends
  <2>3. Elsewhere(c)
    BY <1>1, <2>1, <2>2 DEF Elsewhere, Kept, TcpTypeOK
  <2>4. Asked(c) => Asked(c)'
    <3>1. sent'[c] = sent[c] + n /\ sent[c] \in Nat
      BY <1>1, <2>1 DEF TcpTypeOK
    <3>2. request[c] # NULL => request[c] \in Requests
      BY <1>1 DEF TcpTypeOK
    <3>3. request[c] # NULL => request[c].header + request[c].content_len \in Nat
      BY <3>2, RequestTyped
    <3> QED  BY <2>2, <3>1, <3>3 DEF Asked
  <2>5. Serving(c)'
    BY <1>1, <2>2, <2>4 DEF Serving
  <2>6. Phase(c)' = Phase(c)
    BY <1>1, <2>2 DEF Phase
  <2>7. CASE Asked(c)' /\ ~ Asked(c)
    <3>1. k.handled = 0
      BY <1>1, <2>7 DEF Serving, Record
    <3>2. Phase(c) \in {"waiting", "open"}
      BY <2>2, <3>1 DEF Phase
    <3>3. Service!Ask(c)
      BY <2>2, <2>3, <2>6, <2>7, <3>2, Asking
    <3> QED  BY <2>3, <2>5, <3>3, ServingElsewhere DEF Serves, Service!Next
  <2>8. CASE ~ (Asked(c)' /\ ~ Asked(c))
    <3>1. Asked(c)' = Asked(c)
      BY <2>4, <2>8 DEF Asked
    <3> QED  BY <2>2, <2>3, <2>5, <2>6, <3>1, ServingElsewhere, Moving DEF Serves
  <2> QED  BY <2>7, <2>8
<1>4. CASE PeerReads(c)
  BY <1>1, <1>4, NothingServed DEF PeerReads, Serves
<1>5. CASE PeerLeaves(c)
  <2>1. /\ peer[c] = "open" /\ peer' = [peer EXCEPT ![c] = "left"]
        /\ UNCHANGED <<request, sent, wrote, sock, backlog>>
    BY <1>5 DEF PeerLeaves
  <2>2. peer'[c] = "left" /\ sock[c] # "none" /\ Elsewhere(c) /\ Asked(c)' = Asked(c)
    BY <1>1, <2>1 DEF TcpTypeOK, Serving, Elsewhere, Kept, Asked
  <2>3. Serving(c)'
    BY <1>1, <2>1, <2>2 DEF Serving, Asked
  <2>4. Phase(c) # "away" /\ Phase(c)' = Phase(c)
    BY <1>1, <2>1, <2>2 DEF Phase
  <2>5. Service!Leave(c)
    BY <2>1, <2>2, <2>4, Leaving
  <2> QED  BY <2>2, <2>3, <2>5, ServingElsewhere DEF Serves, Service!Next
<1> QED  BY <1>2, <1>3, <1>4, <1>5 DEF ClientStep, PeerStep

LEMMA InitServes == Init => SInv /\ Service!Init
<1> SUFFICES ASSUME Init PROVE SInv /\ Service!Init
  OBVIOUS
<1>1. ASSUME NEW c \in Conn
      PROVE  /\ conn[c] = NoConnection /\ sock[c] = "none" /\ peer[c] = "away"
             /\ sent[c] = 0 /\ wrote[c] = 0 /\ request[c] = NULL /\ backlog = << >>
  BY DEF Init, TcpInit, ConnInit
<1>2. ToSet(backlog) = {}
  BY DEF ToSet, Init, TcpInit
<1>3. /\ ~ NoConnection.damaged /\ NoConnection.fd = NoFd /\ NoConnection.handled = 0
      /\ NoConnection.state = "RECEIVE" /\ NoConnection.write_offset = 0
  BY DEF NoConnection
<1>4. SInv
  BY <1>1, <1>2, <1>3 DEF SInv, Serving
<1>5. \A c \in Conn : Phase(c) = "away" /\ ~ Asked(c)
  BY <1>1 DEF Phase, Asked
<1>6. PhaseOf = [c \in Conn |-> "away"]
  BY <1>5 DEF PhaseOf
<1>7. AskedOf = [c \in Conn |-> FALSE]
  <2>1. \A c \in Conn : Asked(c) = FALSE
    BY <1>5 DEF Asked
  <2> QED  BY <2>1, Zenon DEF AskedOf
<1>8. DeliveredOf = [c \in Conn |-> FALSE]
  <2>1. \A c \in Conn : (wrote[c] = ReplySize) = FALSE
    BY <1>1, Constants
  <2> QED  BY <2>1, Zenon DEF DeliveredOf
<1>9. GoneOf = [c \in Conn |-> FALSE]
  BY <1>1 DEF GoneOf
<1>10. backlog = << >>
  BY DEF Init, TcpInit
<1> QED  BY <1>4, <1>6, <1>7, <1>8, <1>9, <1>10
         DEF Service!Init, PhaseOf, AskedOf, DeliveredOf, GoneOf, Asked

LEMMA NextServes ==
  ASSUME FirstSegment >= 4, CHUNK_SIZE >= 4, "realloc" \notin AllocFail,
         IInv, AInv, SInv, [Next]_vars
  PROVE  SInv' /\ Serves
<1>1. CASE weather_server_initiate \/ smw_work \/ idle_task_work \/ UNCHANGED vars
  BY <1>1, NothingServed
     DEF weather_server_initiate, smw_work, idle_task_work, http_server_task_work,
         weather_server_task_work, Crash, vars, tcpVars, connVars, Serves
<1>2. CASE tcp_server_task_work
  <2>1. CASE AcceptServed \/ AcceptDropped
    BY <2>1, AcceptServes
  <2>2. CASE AcceptNobody
    BY <2>2, NothingServed DEF AcceptNobody, tcpVars, connVars, Serves
  <2> QED  BY <1>2, <2>1, <2>2 DEF tcp_server_task_work
<1>3. ASSUME NEW c \in Conn, ~ crashed, connection_receives(c) PROVE SInv' /\ Serves
  BY <1>3, ReceiveServes
<1>4. ASSUME NEW c \in Conn, connection_sends(c) \/ connection_disposes(c)
      PROVE  SInv' /\ Serves
  BY <1>4, SendServes, DisposeServes
<1>5. ASSUME NEW c \in Conn, ClientStep(c) PROVE SInv' /\ Serves
  BY <1>5, ClientServes
<1> QED  BY <1>1, <1>2, <1>3, <1>4, <1>5 DEF Next, ServerStep, Callback

(***************************************************************************)
(* The event loop with its connections implements HttpService: clients are  *)
(* taken in their order, no answer comes before its request is complete,    *)
(* and no connection is closed before its answer is out or its client gone  *)
(* (tcp_server.c:65-91, http_server_connection.c:90-195), for any number of *)
(* clients, segments and buffers, as long as no chunk is lost to a failed   *)
(* realloc and the scan for the blank line has its four bytes.              *)
(***************************************************************************)
THEOREM ServiceRefined ==
  ASSUME FirstSegment >= 4, CHUNK_SIZE >= 4, "realloc" \notin AllocFail
  PROVE  Spec => ImplementsHttpService
<1>1. Init => IInv /\ AInv /\ SInv /\ Service!Init
  BY InitHolds, InitAnswers, InitServes
<1>2. IInv /\ AInv /\ SInv /\ [Next]_vars => IInv' /\ AInv' /\ SInv'
  BY NextHolds, NextAnswers, NextServes
<1>3. IInv /\ AInv /\ SInv /\ [Next]_vars => [Service!Next]_(Service!serviceVars)
  BY NextServes DEF Serves, Stutters, Service!serviceVars,
                    PhaseOf, AskedOf, DeliveredOf, GoneOf, Asked
<1> QED  BY <1>1, <1>2, <1>3, PTL DEF Spec, ImplementsHttpService, Service!Spec
===============================================================================
