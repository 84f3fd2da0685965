------------------------------ MODULE HttpClient ------------------------------
(***************************************************************************)
(* src/src/lib/http_client.c and the main of src/src/client: one request,   *)
(* by a state machine that smw_work calls again and again, one step of one  *)
(* handler per call.  Bytes are counted: a response is its status, where    *)
(* its headers end, what its Content-Length says (0 when there is none that *)
(* the client recognises) and its length.  The network and the server are   *)
(* external.  malloc's memory is fresh from the system here, as main makes  *)
(* one request: the fields http_client_init leaves out are zero.            *)
(***************************************************************************)
EXTENDS Naturals, SequencesExt

CONSTANTS Responses,     \* what the server may answer
          Segments,      \* how many bytes of it arrive at a time
          CHUNK_SIZE,    \* bytes one recv takes at most
          RequestSize,   \* bytes of the request
          SendBuffer,    \* bytes the socket holds towards the server
          ResponseRoom,  \* bytes of a body that fit behind the status in
          ErrorRoom,     \*   response_info and in error_info
          Timeout,
          Faults,        \* what may fail
          NULL

ASSUME ClientAssumption ==
  /\ Responses \subseteq [status : Nat, header : Nat, announced : Nat, total : Nat]
  /\ \A r \in Responses : r.header >= 4 /\ r.total >= r.header + r.announced
  /\ Segments \subseteq Nat \ {0}
  /\ {CHUNK_SIZE, RequestSize, SendBuffer, Timeout} \subseteq Nat \ {0}
  /\ {ResponseRoom, ErrorRoom} \subseteq Nat
  /\ Faults \subseteq {"memory", "task", "url", "connect"}
  /\ NULL \notin Nat

VARIABLES main,       \* "start", "loop" or "exit"
          client,     \* the http_client structure
          events,     \* what the callback was told
          told,       \* how many bytes of the body the last event had in it
          crashed,    \* the process has died
          fd,         \* the client's descriptor: "none", "open" or "closed"
          net,        \* its connection
          response,   \* what the server answers
          written,    \* bytes of the request put into the socket
          taken,      \* of which the server has read
          served,     \* bytes of the response that have arrived
          received    \* of which the client has taken from the socket

netVars == <<fd, net, response, written, taken, served, received>>
vars == <<main, client, events, told, crashed, netVars>>

States == {"init", "connect", "connecting", "writing", "reading", "done", "dispose"}

(***************************************************************************)
(* age is the time since timer was set, and NULL while timer is 0; the      *)
(* buffers and tcp_conn say whether the pointer is set, body also how long  *)
(* the body is; garbled (history): the header scan has run past the buffer. *)
(***************************************************************************)
NoClient ==
  [alloc |-> FALSE, task |-> FALSE, state |-> "init", age |-> NULL,
   write_buffer |-> FALSE, write_offset |-> 0, read_buffer_size |-> 0,
   body_start |-> 0, content_len |-> 0, status_code |-> 0,
   body |-> NULL, tcp_conn |-> FALSE, garbled |-> FALSE]

TypeOK ==
  /\ main \in {"start", "loop", "exit"}
  /\ client \in
       [alloc : BOOLEAN, task : BOOLEAN, state : States, age : Nat \cup {NULL},
        write_buffer : BOOLEAN, write_offset : 0 .. RequestSize,
        read_buffer_size : Nat, body_start : Nat, content_len : Nat,
        status_code : Nat, body : Nat \cup {NULL}, tcp_conn : BOOLEAN,
        garbled : BOOLEAN]
  /\ events \in Seq({"RESPONSE", "ERROR", "TIMEOUT"})
  /\ told \in Nat
  /\ crashed \in BOOLEAN
  /\ fd \in {"none", "open", "closed"}
  /\ net \in {"none", "connecting", "open", "failed", "ended", "reset"}
  /\ response \in Responses
  /\ {written, taken, served, received} \subseteq Nat

Init == /\ main = "start" /\ client = NoClient
        /\ events = << >> /\ told = 0 /\ crashed = FALSE
        /\ fd = "none" /\ net = "none"
        /\ response \in Responses
        /\ written = 0 /\ taken = 0 /\ served = 0 /\ received = 0

MayFail(what) == what \in Faults

-------------------------------------------------------------------------------
(***************************************************************************)
(* http_client_get and http_client_init.  smw_create_task's result is       *)
(* stored unchecked: without a task the client is never called, and the     *)
(* caller is told that all is well.                                         *)
(***************************************************************************)
http_client_get ==
  /\ main = "start"
  /\ \/ /\ MayFail("memory") \/ MayFail("url")
        /\ main' = "exit" /\ UNCHANGED client
     \/ /\ main' = "loop"
        /\ \E task \in BOOLEAN :
             /\ task \/ MayFail("task")
             /\ client' = [NoClient EXCEPT !.alloc = TRUE, !.task = task]
  /\ UNCHANGED <<events, told, crashed, netVars>>

\* An event, and how many bytes of the body are in its text.
Report(e, bytes) == events' = Append(events, e) /\ told' = bytes

\* A handler's return value becomes the state.
Moves(k, state) == /\ client' = [k EXCEPT !.state = state]
                   /\ UNCHANGED <<main, events, told, crashed>>

\* Mutant: the error is reported and the state stays.
Fails_again(k) == /\ Report("ERROR", 0)
                  /\ client' = k
                  /\ UNCHANGED <<main, crashed>>

Fails(k) == /\ Report("ERROR", 0)
            /\ client' = [k EXCEPT !.state = "dispose"]
            /\ UNCHANGED <<main, crashed>>

Crash == crashed' = TRUE /\ UNCHANGED <<main, client, events, told>>

-------------------------------------------------------------------------------
\* parse_url: a host name that is empty or longer than 255.
UrlRejected == MayFail("url")

http_client_work_init(k) == /\ k.state = "init"
                            /\ \/ UrlRejected /\ Fails(k)
                               \/ Moves(k, "connect")
                            /\ UNCHANGED netVars

(***************************************************************************)
(* tcp_client_connect: getaddrinfo, and then one address after another      *)
(* until a connect succeeds or is under way; the sockets of the addresses   *)
(* before it are closed.  The first that is under way is the last tried.    *)
(***************************************************************************)
tcp_client_connect == /\ fd' = "open"
                      /\ net' \in {"connecting", "open"}
                      /\ UNCHANGED <<response, written, taken, served, received>>

http_client_work_connect(k) ==
  /\ k.state = "connect"
  /\ \/ /\ MayFail("memory") \/ MayFail("connect")
        /\ Fails(k)
        /\ UNCHANGED netVars
     \/ /\ tcp_client_connect
        /\ Moves([k EXCEPT !.tcp_conn = TRUE], "connecting")

(***************************************************************************)
(* SO_ERROR is 0 while a connect is under way (the kernel never returns     *)
(* EINPROGRESS here), so the wait for it happens in writing.  The tests for *)
(* a missing socket cannot fire: see SocketAccounted.                       *)
(***************************************************************************)
http_client_work_connecting(k) ==
  /\ k.state = "connecting"
  /\ IF net \in {"failed", "reset"} THEN Fails(k) ELSE Moves(k, "writing")
  /\ UNCHANGED netVars

-------------------------------------------------------------------------------
\* Mutant: the length given to send is that of the whole request.
Sendable_whole(len) ==
  IF net = "connecting" \/ written - taken = SendBuffer THEN {0}
  ELSE {n \in 1 .. RequestSize : n <= SendBuffer - (written - taken)}

\* What send() of len bytes may take; 0 stands for EAGAIN.
Sendable(len) ==
  IF net = "connecting" \/ written - taken = SendBuffer THEN {0}
  ELSE {n \in 1 .. len : n <= SendBuffer - (written - taken)}

\* Mutant: what the socket has taken counts as everything.
AllWritten_partial(k) == k.write_offset > 0

AllWritten(k) == k.write_offset >= RequestSize

\* The buffer is freed once it is empty, and only then.
Written(k) == IF AllWritten(k) THEN Moves([k EXCEPT !.write_buffer = FALSE], "reading")
              ELSE Moves(k, "writing")

http_client_work_writing(k) ==
  LET b == IF k.write_buffer THEN k
           ELSE [k EXCEPT !.write_buffer = TRUE, !.write_offset = 0] IN
  /\ k.state = "writing"
  /\ \/ /\ ~ k.write_buffer /\ MayFail("memory")
        /\ Fails(k)
        /\ UNCHANGED netVars
     \/ /\ net \in {"failed", "reset"}
        /\ Fails(b)
        /\ UNCHANGED netVars
     \/ /\ net \notin {"failed", "reset"}
        /\ \E n \in Sendable(RequestSize - b.write_offset) :
             /\ written' = written + n
             /\ IF n = 0 THEN Moves(b, "writing")
                ELSE Written([b EXCEPT !.write_offset = @ + n])
        /\ UNCHANGED <<fd, net, response, taken, served, received>>

-------------------------------------------------------------------------------
\* Mutant: the body is taken to begin at the blank line, not behind it.
HeadersParsed_early(k) ==
  [k EXCEPT !.body_start = response.header - 4, !.content_len = response.announced,
            !.status_code = response.status]

HeadersParsed(k) ==
  [k EXCEPT !.body_start = response.header, !.content_len = response.announced,
            !.status_code = response.status]

(***************************************************************************)
(* The scan for the blank line, from offset 0 each time.  Its bound         *)
(* read_buffer_size - 4 is unsigned: with fewer than four bytes it runs on  *)
(* past the buffer, until it meets an unmapped page or something like an    *)
(* end of headers there, and then takes the status and the length from      *)
(* whatever lies before it.  An end behind the whole response is as good as *)
(* any further one; the lengths are those of the responses.                 *)
(***************************************************************************)
ScanRunsAway(k) == k.body_start = 0 /\ k.read_buffer_size < 4

FoundBehind == [header    : 4 .. response.total + 1,
                announced : {0} \cup {r.announced : r \in Responses},
                status    : {0} \cup {r.status : r \in Responses}]

Garbled(k) == {[k EXCEPT !.garbled = TRUE, !.body_start = found.header,
                         !.content_len = found.announced,
                         !.status_code = found.status] : found \in FoundBehind}

HeadersEnd(k) == /\ k.body_start = 0 /\ ~ ScanRunsAway(k)
                 /\ k.read_buffer_size >= response.header

Scanned(k) == CASE ScanRunsAway(k) -> Garbled(k)
                [] HeadersEnd(k) -> {HeadersParsed(k)}
                [] OTHER -> {k}

\* Mutant: the headers alone make a response.
Complete_headers(k) == k.body_start > 0

Complete(k) == /\ k.body_start > 0
               /\ k.read_buffer_size >= k.body_start + k.content_len

Bytes(body) == IF body = NULL THEN 0 ELSE body

(***************************************************************************)
(* The body is copied out, if there is one and there is memory for it, and  *)
(* the callback told as much of the copy as response_info holds.            *)
(***************************************************************************)
Respond(k) ==
  \E body \in {IF k.content_len > 0 THEN k.content_len ELSE NULL}
              \cup (IF MayFail("memory") THEN {NULL} ELSE {}) :
    /\ client' = [k EXCEPT !.state = "done", !.body = body]
    /\ Report("RESPONSE", Min({Bytes(body), ResponseRoom}))
    /\ UNCHANGED <<main, crashed>>

\* What is done with k, the client once the new bytes are appended.
Process(k) ==
  \/ ScanRunsAway(k) /\ Crash
  \/ /\ ScanRunsAway(k) \/ HeadersEnd(k)
     /\ MayFail("memory") /\ Fails(k)
  \/ \E p \in Scanned(k) : IF Complete(p) THEN Respond(p) ELSE Moves(p, "reading")

Unread == served - received

(***************************************************************************)
(* One recv.  The end of the stream looks like no data: tcp_client_read     *)
(* returns 0 for both, and a response that is cut short is waited for.      *)
(***************************************************************************)
http_client_work_reading(k) ==
  /\ k.state = "reading"
  /\ \/ /\ net = "reset" /\ Fails(k)
        /\ UNCHANGED netVars
     \/ /\ Unread = 0 /\ net # "reset" /\ Moves(k, "reading")
        /\ UNCHANGED netVars
     \/ /\ Unread > 0
        /\ LET n == Min({CHUNK_SIZE, Unread}) IN
             /\ received' = received + n
             /\ \/ MayFail("memory") /\ Fails(k)
                \/ Process([k EXCEPT !.read_buffer_size = @ + n])
        /\ UNCHANGED <<fd, net, response, written, taken, served>>

-------------------------------------------------------------------------------
\* Mutant: the socket is left to the disposal.
Released_keeps_socket(k) ==
  [k EXCEPT !.state = "dispose", !.body = NULL, !.write_buffer = FALSE]

\* The buffers are freed and the socket is closed.
Released(k) == [k EXCEPT !.state = "dispose", !.body = NULL, !.write_buffer = FALSE,
                         !.tcp_conn = FALSE]

Successful(k) == k.status_code >= 200 /\ k.status_code < 300

\* The verdict: the body goes out as it is, or cut to what error_info holds.
http_client_work_done(k) ==
  /\ k.state = "done"
  /\ IF Successful(k) THEN Report("RESPONSE", Bytes(k.body))
     ELSE Report("ERROR", Min({Bytes(k.body), ErrorRoom}))
  /\ client' = Released(k)
  /\ fd' = IF client'.tcp_conn THEN fd ELSE "closed"
  /\ UNCHANGED <<main, crashed, net, response, written, taken, served, received>>

\* The task is destroyed and the structure freed: not the buffers, not the socket.
http_client_dispose == /\ client' = [NoClient EXCEPT !.garbled = client.garbled]
                       /\ UNCHANGED <<main, crashed, netVars>>

work_dispose(k) == /\ k.state = "dispose"
                   /\ http_client_dispose
                   /\ UNCHANGED <<events, told>>

-------------------------------------------------------------------------------
\* Mutant: timer is set in every call.
Started_again(k) == [k EXCEPT !.age = 0]

Started(k) == [k EXCEPT !.age = IF @ = NULL THEN 0 ELSE @]

\* In every state: the response may already have been reported.
TimedOut(k) == k.age # NULL /\ k.age >= Timeout

\* smw_work calls the client's task.
Called == main = "loop" /\ client.task /\ ~ crashed

TimesOut == /\ Called /\ TimedOut(client)
            /\ Report("TIMEOUT", 0)
            /\ http_client_dispose

http_client_work ==
  \/ TimesOut
  \/ /\ Called /\ ~ TimedOut(client)
     /\ LET k == Started(client) IN
          \/ http_client_work_init(k)    \/ http_client_work_connect(k)
          \/ http_client_work_connecting(k)
          \/ http_client_work_writing(k) \/ http_client_work_reading(k)
          \/ http_client_work_done(k)    \/ work_dispose(k)

-------------------------------------------------------------------------------
(* The clock, the network and the server *)

Tick == /\ client.age # NULL /\ client.age < Timeout
        /\ client' = [client EXCEPT !.age = @ + 1]
        /\ UNCHANGED <<main, events, told, crashed, netVars>>

NetMoves(from, to) == /\ net \in from /\ fd = "open"
                      /\ net' = to
                      /\ UNCHANGED <<fd, response, written, taken, served, received>>

ServerReads == /\ net \in {"open", "ended"} /\ taken < written
               /\ taken' = written
               /\ UNCHANGED <<fd, net, response, written, served, received>>

ServerSends == /\ net = "open" /\ fd = "open"
               /\ \E n \in Segments : /\ served + n <= response.total
                                      /\ served' = served + n
               /\ UNCHANGED <<fd, net, response, written, taken, received>>

Network == /\ \/ NetMoves({"connecting"}, "open") \/ NetMoves({"connecting"}, "failed")
              \/ NetMoves({"open"}, "ended")      \/ NetMoves({"open", "ended"}, "reset")
              \/ ServerReads \/ ServerSends
           /\ UNCHANGED <<main, client, events, told, crashed>>

Next == http_client_get \/ http_client_work \/ Tick \/ Network

Spec == Init /\ [][Next]_vars

\* main calls smw_work for ever, getaddrinfo returns, and time passes.
FairSpec == Spec /\ WF_vars(http_client_work) /\ WF_vars(Tick)

-------------------------------------------------------------------------------
(***************************************************************************)
(* Who owns the socket.  It is open as long as the client points to it, and *)
(* "Close TCP connection" (http_client.c:443) is reached whenever a verdict *)
(* is given: the descriptors left open are those of clients that ended with *)
(* an ERROR before any response or with a TIMEOUT.                          *)
(***************************************************************************)
SocketAccounted ==
  /\ client.tcp_conn => fd = "open"
  /\ fd = "open" => \/ client.tcp_conn
                    \/ ~ client.alloc /\ events \in {<<"ERROR">>, <<"TIMEOUT">>,
                                                     <<"ERROR", "TIMEOUT">>,
                                                     <<"RESPONSE", "TIMEOUT">>}
  /\ client.state \in {"connecting", "writing", "reading", "done"} => client.tcp_conn

(***************************************************************************)
(* The whole request has been handed to the socket before the client turns  *)
(* to the answer, however the socket cuts it up, and write_offset never     *)
(* loses count.                                                             *)
(***************************************************************************)
RequestGoesFirst ==
  /\ client.alloc => client.write_offset = written
  /\ client.state \in {"reading", "done"} => written = RequestSize

(***************************************************************************)
(* However the response is cut into segments and chunks, no byte is lost or *)
(* taken twice; and the body is where the server put it, unless the first   *)
(* recv brought fewer than four bytes.  Then the bound of the scan wraps    *)
(* (http_client.c:309) and nothing is said here of what is taken for the    *)
(* end of the headers.                                                      *)
(***************************************************************************)
ResponseReassembled ==
  ~ crashed /\ client.state \in {"reading", "done"} =>
    /\ client.read_buffer_size = received
    /\ ~ client.garbled => /\ client.body_start \in {0, response.header}
                           /\ client.body_start > 0 <=> received >= response.header

\* How many bytes of the announced body an event may have in its text.
BodyWithin(room) == {Min({response.announced, room})}
                    \cup (IF MayFail("memory") THEN {0} ELSE {})

(***************************************************************************)
(* A RESPONSE is reported when every byte the server announced has arrived. *)
(* The first has as much of the body in it as fits into the 256 bytes of    *)
(* response_info, the verdict all of it, or what fits into error_info when  *)
(* the status is no success; each of them nothing if there was no memory to *)
(* copy the body, and the verdict repeats what the first report began.      *)
(* Nothing is claimed of a response whose first recv brought fewer than     *)
(* four bytes: a garbled one may be reported before it has arrived.         *)
(***************************************************************************)
ReportsWhatArrived ==
  [][ events' # events /\ ~ client'.garbled =>
        /\ Last(events') = "RESPONSE"
             => received' >= response.header + response.announced
        /\ events' = <<"RESPONSE">> => told' \in BodyWithin(ResponseRoom)
        /\ events' = <<"RESPONSE", "RESPONSE">>
             => /\ told' \in BodyWithin(response.announced)
                /\ told = Min({told', ResponseRoom})
        /\ events' = <<"RESPONSE", "ERROR">>
             => told' \in BodyWithin(ErrorRoom) ]_vars

(***************************************************************************)
(* What the callback is told, and when, is what HttpExchange allows: the    *)
(* order of events, nothing after the end, and no end without a word.  That *)
(* the answer waits for the whole response is shown unless the first recv   *)
(* brought fewer than four bytes: a garbled one counts as whole below.      *)
(***************************************************************************)
Exchange == INSTANCE HttpExchange WITH
  stage <- CASE main # "loop" -> "unasked"
             [] client.alloc  -> "asking"
             [] OTHER         -> "over",
  whole <- client.garbled \/ received >= response.header + response.announced

ImplementsHttpExchange == Exchange!Spec

(***************************************************************************)
(* A request ends: by its timeout if nothing else, whether the connection   *)
(* hangs, the server falls silent or its answer is cut short.               *)
(***************************************************************************)
EveryRequestEnds == client.task ~> (~ client.alloc \/ crashed)
===============================================================================
