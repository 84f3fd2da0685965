------------------------- MODULE HttpServerConnection -------------------------
(***************************************************************************)
(* http_server_connection.c and weather_server_instance.c: what the server  *)
(* keeps for a connection, and the three handlers its task runs, one call   *)
(* of one of them each time the scheduler comes round.  A handler is an     *)
(* action on conn[c] and on the socket its descriptor stands for; crashed   *)
(* says that the process has died.                                          *)
(***************************************************************************)
EXTENDS TcpSockets

CONSTANTS CHUNK_SIZE,   \* bytes one call of recv takes at most
          ReplySize,    \* bytes of a response
          AllocFail     \* the allocations that may fail

ASSUME ConnectionAssumption ==
  /\ CHUNK_SIZE \in Nat \ {0} /\ ReplySize \in Nat \ {0}
  /\ AllocFail \subseteq {"connection", "task", "instance", "node", "realloc",
                          "headers", "strdup", "body", "reply", "list"}

VARIABLES conn,      \* the HTTPServerConnection of each accepted connection
          crashed

connVars == <<conn, crashed>>

Methods == {"GET", "POST", "garbled"}
Paths == {r.path : r \in Requests} \cup {"garbled"}
ReplyKinds == {"home", "echo", "current", "not_found"}

(***************************************************************************)
(* alloc: the structure exists; callback: onRequest has been set; method    *)
(* and path: NULL until the headers are parsed; damaged: a chunk never      *)
(* reached read_buffer; reply, reply_body: what write_buffer holds and how  *)
(* many bytes of it are body (write_buffer is NULL while reply is);         *)
(* handled: how often onRequest was called.                                 *)
(***************************************************************************)
NoConnection ==
  [alloc |-> FALSE, fd |-> NoFd, task |-> FALSE, callback |-> FALSE,
   state |-> "RECEIVE", read_buffer_size |-> 0, damaged |-> FALSE,
   body_start |-> 0, content_len |-> 0,
   method |-> NULL, path |-> NULL, reply |-> NULL, reply_body |-> 0,
   write_size |-> 0, write_offset |-> 0, handled |-> 0]

ConnTypeOK ==
  /\ crashed \in BOOLEAN
  /\ conn \in [Conn ->
       [alloc : BOOLEAN, fd : Fd \cup {NoFd}, task : BOOLEAN,
        callback : BOOLEAN, state : {"RECEIVE", "SEND", "DISPOSE"},
        read_buffer_size : Nat, damaged : BOOLEAN, body_start : Nat,
        content_len : Nat,
        method : Methods \cup {NULL}, path : Paths \cup {NULL},
        reply : ReplyKinds \cup {NULL}, reply_body : Nat,
        write_size : Nat, write_offset : Nat, handled : Nat]]

ConnInit == conn = [c \in Conn |-> NoConnection] /\ crashed = FALSE

MayFail(what) == what \in AllocFail

-------------------------------------------------------------------------------
(***************************************************************************)
(* http_server_connection_initiate and weather_server_instance_initiate for *)
(* descriptor f.  The task may be missing (the result of smw_create_task is *)
(* stored unchecked) and so may the callback (http_server_on_accept ignores *)
(* what onConnection returns).                                              *)
(***************************************************************************)
Initiated(f, task, callback) ==
  [NoConnection EXCEPT !.alloc = TRUE, !.fd = f, !.task = task,
                       !.callback = callback]

-------------------------------------------------------------------------------
(* weather_server_instance.c *)

Reply(method, path) ==
  CASE method = "GET" /\ path = "/"           -> "home"
    [] path = "/echo"                         -> "echo"
    [] method = "GET" /\ path = "/v1/current" -> "current"
    [] OTHER                                  -> "not_found"

\* The echo endpoint sends back read_buffer, the request line included.
ReplyBody(k, reply) == IF reply = "echo" THEN k.read_buffer_size ELSE 1

weather_server_instance_on_request(k) ==
  LET reply == Reply(k.method, k.path)
  IN  [k EXCEPT !.reply = reply, !.reply_body = ReplyBody(k, reply),
                !.write_size = ReplySize]

\* malloc of the response: checked for "current" and "not_found" only.
ReplyUnchecked(k) == Reply(k.method, k.path) \in {"home", "echo"}

-------------------------------------------------------------------------------
(* http_server_connection_receive *)

Appended(k, n) == [k EXCEPT !.read_buffer_size = @ + n]

\* Mutant: method and path are swapped.
HeadersParsed_swapped(k, method, path, start, len) ==
  [k EXCEPT !.method = path, !.path = method,
            !.body_start = start, !.content_len = len]

HeadersParsed(k, method, path, start, len) ==
  [k EXCEPT !.method = method, !.path = path,
            !.body_start = start, !.content_len = len]

(***************************************************************************)
(* The scan for the blank line, from offset 0 each time.  Its bound         *)
(* read_buffer_size - 4 is unsigned: with fewer than four bytes received it *)
(* runs on past the buffer, until it meets four bytes that look like the    *)
(* end of headers or an unmapped page (ScanRunsAway, below).  Once a chunk  *)
(* is lost the blank line may be seen anywhere, or never.                   *)
(***************************************************************************)
ScanRunsAway(k) == k.body_start = 0 /\ k.read_buffer_size < 4

Scanned(k, r) ==
  IF k.body_start # 0 THEN {k}
  ELSE IF ScanRunsAway(k)
       THEN {HeadersParsed(k, "garbled", "garbled", k.read_buffer_size + 4, 0)}
  ELSE IF k.damaged
       THEN {k, HeadersParsed(k, "garbled", "garbled", k.read_buffer_size, 0),
                HeadersParsed(k, r.method, r.path, k.read_buffer_size, 0)}
  ELSE IF k.read_buffer_size < r.header THEN {k}
  ELSE {HeadersParsed(k, r.method, r.path, r.header, r.content_len)}

\* Mutant: the body is not waited for.
Complete_without_body(k) == k.body_start > 0

\* Mutant: the request's last byte is not counted.
Complete_strict(k) == /\ k.read_buffer_size > k.body_start + k.content_len
                      /\ k.body_start > 0

Complete(k) == /\ k.read_buffer_size >= k.body_start + k.content_len
               /\ k.body_start > 0

\* Mutant: the state is left RECEIVE.
Handled_still_receiving(k) ==
  {weather_server_instance_on_request([k EXCEPT !.handled = @ + 1])}

\* State SEND, then onRequest; no buffer when its malloc fails.
Handled(k) ==
  LET s == [k EXCEPT !.state = "SEND", !.handled = @ + 1]
  IN  {weather_server_instance_on_request(s)}
        \cup (IF MayFail("reply") /\ ~ ReplyUnchecked(k) THEN {s} ELSE {})

(***************************************************************************)
(* onRequest never set, a strdup that failed, a response malloc not         *)
(* checked.  /v1/current may end the process with every allocation made:    *)
(* OpenMeteo says when (FetchEmpty, MisuseEndsIt), here it is a choice.     *)
(***************************************************************************)
HandlingCrashes(k) == \/ ~ k.callback
                      \/ MayFail("strdup")
                      \/ MayFail("reply") /\ ReplyUnchecked(k)
                      \/ Reply(k.method, k.path) = "current"

BodyAllocFails(k) == k.method # "GET" /\ MayFail("body")

Crash == crashed' = TRUE /\ UNCHANGED conn

Becomes(c, ks) == /\ \E k \in ks : conn' = [conn EXCEPT ![c] = k]
                  /\ UNCHANGED crashed

\* What is done with k, the connection once the new bytes are appended.
Process(c, k, r) ==
  \/ ScanRunsAway(k) /\ Crash
  \/ MayFail("headers") /\ k.body_start = 0 /\ Becomes(c, {k})
  \/ \E p \in Scanned(k, r) :
       \/ ~ Complete(p) /\ Becomes(c, {p})
       \/ Complete(p) /\ BodyAllocFails(p) /\ Becomes(c, {p})
       \/ Complete(p) /\ p.callback /\ Becomes(c, Handled(p))
       \/ Complete(p) /\ HandlingCrashes(p) /\ Crash

(***************************************************************************)
(* One recv.  No data, the end of the stream and an error all leave the     *)
(* connection as it is: tcp_client_read returns 0 for the first two, and    *)
(* the task ignores what receive returns.                                   *)
(***************************************************************************)
http_server_connection_receive(c) ==
  LET s == Socket(conn[c].fd) IN
  \/ /\ s = NULL \/ Unread(s) = 0
     /\ UNCHANGED <<tcpVars, connVars>>
  \/ /\ s # NULL /\ Unread(s) > 0
     /\ LET n == Min({CHUNK_SIZE, Unread(s)}) IN
        /\ Recv(s, n)
        /\ \/ Process(c, Appended(conn[c], n), request[s])
           \/ MayFail("realloc") /\ Becomes(c, {[conn[c] EXCEPT !.damaged = TRUE]})

-------------------------------------------------------------------------------
(***************************************************************************)
(* One send.  An empty or missing buffer returns at once, and for ever; a   *)
(* client that has left may make it fail, which abandons the response.      *)
(***************************************************************************)
NothingToSend(k) == k.reply = NULL \/ k.write_offset >= k.write_size

\* Mutant: only a send that takes the whole response ends it.
Sent_at_once(k, n) == [k EXCEPT !.write_offset = @ + n,
                                !.state = IF n >= k.write_size
                                          THEN "DISPOSE" ELSE @]

Sent(k, n) == [k EXCEPT !.write_offset = @ + n,
                        !.state = IF k.write_offset + n >= k.write_size
                                  THEN "DISPOSE" ELSE @]

http_server_connection_send(c) ==
  LET k == conn[c]
      s == Socket(k.fd) IN
  \/ /\ NothingToSend(k)
     /\ UNCHANGED <<tcpVars, connVars>>
  \/ /\ ~ NothingToSend(k) /\ s # NULL
     /\ \E n \in Sendable(s, k.write_size - k.write_offset) :
           Send(s, n) /\ Becomes(c, {Sent(k, n)})
  \/ /\ ~ NothingToSend(k) /\ (s = NULL \/ peer[s] = "left")
     /\ Becomes(c, {[k EXCEPT !.state = "DISPOSE"]})
     /\ UNCHANGED tcpVars

-------------------------------------------------------------------------------
\* Mutant: the descriptor is closed and kept.
Disposed_keeps_fd(k) ==
  [k EXCEPT !.task = FALSE, !.reply = NULL, !.reply_body = 0, !.method = NULL,
            !.path = NULL, !.read_buffer_size = 0, !.write_size = 0,
            !.write_offset = 0, !.body_start = 0, !.content_len = 0]

\* Everything is freed but the structure itself, which stays allocated.
Disposed(k) ==
  [k EXCEPT !.task = FALSE, !.fd = NoFd, !.reply = NULL, !.reply_body = 0,
            !.method = NULL, !.path = NULL, !.read_buffer_size = 0,
            !.write_size = 0, !.write_offset = 0,
            !.body_start = 0, !.content_len = 0]

\* The scheduler's part, smw_destroy_task, is the caller's conjunct.
http_server_connection_dispose(c) ==
  /\ Becomes(c, {Disposed(conn[c])})
  /\ IF Socket(conn[c].fd) # NULL THEN Close(conn[c].fd) ELSE UNCHANGED tcpVars
===============================================================================
