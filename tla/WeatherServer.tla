----------------------------- MODULE WeatherServer ----------------------------
(***************************************************************************)
(* The server process: server/main.c, weather_server.c, http_server.c and   *)
(* tcp_server.c around the connections of HttpServerConnection, all of them *)
(* tasks of one scheduler (TaskQueue).  The server does one thing at a      *)
(* time, a callback to its end; between two callbacks the clients connect,  *)
(* send, read and leave as they like.                                       *)
(***************************************************************************)
EXTENDS HttpServerConnection

VARIABLES main,          \* "start", "loop": where main() is
          listening,     \* tcp_server_initiate succeeded
          instances,     \* weather_server->instances, by connection, or NULL
          tasks, rest, running

Services == {"tcp", "http", "weather"}
Task == Services \cup Conn

queueVars == <<tasks, rest, running>>
serverVars == <<main, listening, instances>>
vars == <<tcpVars, connVars, serverVars, queueVars>>

ASSUME ServerAssumption == /\ Services \cap Conn = {}
                           /\ NULL \notin Task \cup ReplyKinds

Queue == INSTANCE TaskQueue

TypeOK == /\ TcpTypeOK /\ ConnTypeOK
          /\ main \in {"start", "loop"}
          /\ listening \in BOOLEAN
          /\ instances \in Seq(Conn) \cup {NULL}
          /\ tasks \in Seq(Task) /\ rest \in Seq(Task)
          /\ running \in Task \cup {NULL}

Init == /\ TcpInit /\ ConnInit
        /\ main = "start" /\ listening = FALSE
        /\ instances = << >>
        /\ Queue!Init

-------------------------------------------------------------------------------
(***************************************************************************)
(* smw_init and weather_server_initiate.  A port that cannot be bound       *)
(* leaves the server without its "tcp" task, and a task that cannot be      *)
(* allocated leaves it without that one; main goes on in either case, and   *)
(* without the list of instances as well.                                   *)
(***************************************************************************)
Started(t, starts) == IF starts THEN <<t>> ELSE << >>

weather_server_initiate ==
  /\ main = "start"
  /\ main' = "loop"
  /\ listening' \in BOOLEAN
  /\ \E lost \in SUBSET Services :
       /\ lost # {} => MayFail("task")
       /\ tasks' = Started("tcp", listening' /\ "tcp" \notin lost)
                     \o Started("http", "http" \notin lost)
                     \o Started("weather", "weather" \notin lost)
  /\ \/ UNCHANGED instances
     \/ MayFail("list") /\ instances' = NULL
  /\ UNCHANGED <<tcpVars, connVars, rest, running>>

smw_work == /\ main = "loop" /\ ~ crashed
            /\ Queue!BeginPass \/ Queue!Dispatch
            /\ UNCHANGED <<tcpVars, connVars, serverVars>>

Returns == running' = NULL

\* The callbacks that do nothing to the task list.
KeepsTasks == Returns /\ UNCHANGED <<tasks, rest>>

-------------------------------------------------------------------------------
(***************************************************************************)
(* tcp_server_accept, http_server_on_accept and                             *)
(* weather_server_on_http_connection, which run in one callback.            *)
(***************************************************************************)
\* Mutant: the listening socket was left blocking.
AcceptNobody_blocks == /\ ~ AcceptSucceeds /\ backlog # << >>
                       /\ KeepsTasks
                       /\ UNCHANGED <<tcpVars, connVars, instances>>

AcceptNobody == /\ ~ AcceptSucceeds
                /\ KeepsTasks
                /\ UNCHANGED <<tcpVars, connVars, instances>>

AcceptDropped == /\ MayFail("connection")
                 /\ AcceptRefuses
                 /\ KeepsTasks
                 /\ UNCHANGED <<connVars, instances>>

AcceptServed ==
  LET c == Head(backlog) IN
  /\ AcceptOpens
  /\ \E task, callback \in BOOLEAN :
       /\ task \/ MayFail("task")
       /\ callback \/ MayFail("instance")
       /\ Becomes(c, {Initiated(AcceptedFd, task, callback)})
       /\ IF task THEN Queue!Register(c) ELSE UNCHANGED <<tasks, rest>>
       /\ \/ /\ callback /\ instances # NULL
             /\ instances' = Append(instances, c)
          \/ /\ ~ callback \/ instances = NULL \/ MayFail("node")
             /\ UNCHANGED instances
  /\ Returns

tcp_server_task_work == /\ running = "tcp"
                        /\ AcceptNobody \/ AcceptDropped \/ AcceptServed
                        /\ UNCHANGED <<main, listening>>

http_server_task_work == /\ running = "http"
                         /\ KeepsTasks
                         /\ UNCHANGED <<tcpVars, connVars, serverVars>>

\* The instances have no work, but walking the list dereferences it.
weather_server_task_work == /\ running = "weather"
                            /\ KeepsTasks
                            /\ \/ instances # NULL /\ UNCHANGED connVars
                               \/ instances = NULL /\ Crash
                            /\ UNCHANGED <<tcpVars, serverVars>>

idle_task_work == http_server_task_work \/ weather_server_task_work

connection_receives(c) == /\ running = c /\ conn[c].state = "RECEIVE"
                          /\ http_server_connection_receive(c)
                          /\ KeepsTasks
                          /\ UNCHANGED serverVars

connection_sends(c) == /\ running = c /\ conn[c].state = "SEND"
                       /\ http_server_connection_send(c)
                       /\ KeepsTasks
                       /\ UNCHANGED serverVars

\* Mutant: the socket is closed and the task stays.
connection_disposes_keeps_task(c) ==
  /\ running = c /\ conn[c].state = "DISPOSE"
  /\ http_server_connection_dispose(c)
  /\ KeepsTasks
  /\ UNCHANGED serverVars

connection_disposes(c) == /\ running = c /\ conn[c].state = "DISPOSE"
                          /\ http_server_connection_dispose(c)
                          /\ Queue!Unregister(c) /\ Returns
                          /\ UNCHANGED serverVars

Callback == \/ tcp_server_task_work \/ idle_task_work
            \/ \E c \in Conn : \/ connection_receives(c) \/ connection_sends(c)
                               \/ connection_disposes(c)

ServerStep == weather_server_initiate \/ smw_work \/ (~ crashed /\ Callback)

ClientStep(c) == /\ listening /\ PeerStep(c)
                 /\ UNCHANGED <<connVars, serverVars, queueVars>>

Next == ServerStep \/ \E c \in Conn : ClientStep(c)

Spec == Init /\ [][Next]_vars

(***************************************************************************)
(* main's loop never stops, and a patient client sends its request to the   *)
(* end and reads what arrives (unless the kernel has reset the connection). *)
(***************************************************************************)
PatientReads(c) == sock[c] # "reset" /\ ClientStep(c) /\ got' # got

PatientSends(c) == ClientStep(c) /\ sent' # sent

Fairness == /\ WF_vars(ServerStep)
            /\ \A c \in Patient : /\ WF_vars(PatientSends(c))
                                  /\ WF_vars(PatientReads(c))

FairSpec == Spec /\ Fairness

-------------------------------------------------------------------------------
(***************************************************************************)
(* A descriptor number kept in a connection means that connection's socket  *)
(* for as long as it is kept, though the kernel hands the number out again  *)
(* after a close; and every descriptor that is open is kept somewhere.      *)
(***************************************************************************)
DescriptorsOwned ==
  /\ \A c \in Conn : conn[c].fd # NoFd => Socket(conn[c].fd) = c
  /\ \A f \in Fd : fdtab[f] # NULL => conn[fdtab[f]].fd = f

(***************************************************************************)
(* The scheduler and the connections agree: a connection has one task as    *)
(* long as it believes so, and a task that will be called is that of a      *)
(* connection with an open socket.                                          *)
(***************************************************************************)
TasksMatchConnections ==
  /\ \A c \in Conn : Queue!IsRegistered(c) <=> conn[c].task
  /\ \A c \in Conn : conn[c].task => conn[c].fd # NoFd
  /\ \A i, j \in DOMAIN tasks : tasks[i] = tasks[j] => i = j

(***************************************************************************)
(* onRequest runs once for a connection, however its request was cut into   *)
(* segments and whatever follows it, with that request's method and path;   *)
(* the answer to GET /echo holds the whole request ("echo raw request",     *)
(* weather_server_instance.c:80).  Of POST /echo ("echo raw body", :81)     *)
(* nothing is claimed: the code sends the headers back as well (:114).      *)
(***************************************************************************)
AnswerFitsRequest ==
  \A c \in Conn : LET k == conn[c]
                      r == request[c] IN
    ~ k.damaged =>
      /\ k.handled <= 1
      /\ k.reply = "home" => r.method = "GET" /\ r.path = "/"
      /\ k.reply = "current" => r.method = "GET" /\ r.path = "/v1/current"
      /\ k.reply = "echo" => r.path = "/echo"
      /\ k.reply = "echo" /\ r.method = "GET"
           => k.reply_body >= r.header + r.content_len
      /\ k.reply = "not_found" => ~ \/ r.path = "/echo"
                                    \/ r.method = "GET" /\ r.path \in {"/", "/v1/current"}

(***************************************************************************)
(* http_server_connection.c:127 says of the scan "Checks if we have parsed  *)
(* all headers": the headers it finds are within what was received.         *)
(***************************************************************************)
HeadersWereReceived ==
  \A c \in Conn : ~ conn[c].damaged => conn[c].body_start <= conn[c].read_buffer_size

-------------------------------------------------------------------------------
Phase(c) == CASE sock[c] = "none" -> "away"
              [] sock[c] = "queued" -> "waiting"
              [] sock[c] = "open" /\ conn[c].handled = 0 -> "open"
              [] sock[c] = "open" /\ conn[c].handled > 0 -> "answered"
              [] OTHER -> IF conn[c].alloc THEN "closed" ELSE "refused"

Service == INSTANCE HttpService WITH
  phase <- [c \in Conn |-> Phase(c)],
  queue <- backlog,
  asked <- [c \in Conn |-> /\ request[c] # NULL
                           /\ sent[c] >= request[c].header + request[c].content_len],
  delivered <- [c \in Conn |-> wrote[c] = ReplySize],
  gone <- [c \in Conn |-> peer[c] = "left"]

(***************************************************************************)
(* The event loop, its handlers and the sockets implement HttpService: the  *)
(* answer is not given before the request is complete, and the connection   *)
(* is not closed before the answer is sent, by whatever pieces they travel. *)
(***************************************************************************)
ImplementsHttpService == Service!Spec

(***************************************************************************)
(* A client that does not end its request, or ends it, stays and does not   *)
(* read its answer, keeps its descriptor: nothing times out, and receive    *)
(* cannot tell the end of the stream from no data.                          *)
(***************************************************************************)
HeldByOthers == \A f \in Fd : fdtab[f] # NULL /\ fdtab[f] \notin Patient

(***************************************************************************)
(* A patient client that reaches the accept queue is answered in full, with *)
(* these exceptions: a reset, which surplus bytes of its own provoke; a     *)
(* first segment of its own under four bytes, which the scan may take for   *)
(* headers; the death of the process, in the scan of such a segment or in   *)
(* the handling of /v1/current, for whichever client; and impatient clients *)
(* that between them hold every descriptor for ever.                        *)
(***************************************************************************)
PatientServed ==
  \/ \A c \in Patient :
       (sock[c] = "queued")
         ~> (got[c] = ReplySize \/ sock[c] = "reset" \/ conn[c].method = "garbled")
  \/ <>crashed
  \/ <>[]HeldByOthers

(***************************************************************************)
(* When a request is complete and its client reads the answer or has left,  *)
(* the connection is closed in the end, also when the socket takes the      *)
(* answer bit by bit and when the client leaves in the middle of it, unless *)
(* the process dies.  A client that stays and never reads is no part of the *)
(* claim: every send to it is EAGAIN, and it keeps its descriptor.          *)
(***************************************************************************)
AnsweredIsClosed ==
  \A c \in Conn :
    (conn[c].state = "SEND" /\ (c \in Patient \/ peer[c] = "left"))
      ~> (conn[c].fd = NoFd \/ crashed)

(***************************************************************************)
(* No callback waits for a client: every pass of smw_work ends, or the      *)
(* process has died.                                                        *)
(***************************************************************************)
EveryPassEnds == (~ Queue!Idle) ~> (Queue!Idle \/ crashed)
===============================================================================
