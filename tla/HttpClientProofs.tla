--------------------------- MODULE HttpClientProofs ---------------------------
(***************************************************************************)
(* What HttpClient's socket, bytes and events amount to, for any responses, *)
(* segments, sizes, timeout and faults, and that it implements              *)
(* HttpExchange.                                                            *)
(***************************************************************************)
EXTENDS HttpClient, SequenceTheorems, TLAPS

Before == {"init", "connect", "connecting", "writing"}

\* Nothing happens outside main's loop, and a freed client is forgotten.
MainInv == /\ main # "loop" => /\ client = NoClient /\ events = << >> /\ ~ crashed
                               /\ fd = "none" /\ net = "none"
                               /\ written = 0 /\ received = 0
           /\ ~ client.alloc => /\ ~ client.task /\ ~ client.tcp_conn
                                /\ client.state = "init"

\* What has been reported follows from the state.
EventsInv ==
  client.alloc =>
    /\ client.state \in Before \cup {"reading"} => events = << >>
    /\ client.state = "done" => events = <<"RESPONSE">>
    /\ client.state = "dispose" =>
         /\ events \in {<<"ERROR">>, <<"RESPONSE", "RESPONSE">>, <<"RESPONSE", "ERROR">>}
         /\ client.tcp_conn => events = <<"ERROR">>

SocketInv == /\ SocketAccounted
             /\ client.state \in {"init", "connect"} => ~ client.tcp_conn

SendInv == /\ RequestGoesFirst
           /\ client.alloc /\ client.state \in Before /\ ~ client.write_buffer
                => written = 0
           /\ client.state \in {"init", "connect", "connecting"} => ~ client.write_buffer

(***************************************************************************)
(* Nothing is received before the request is written; the length of the     *)
(* body is known with its place; a client that is done had it all; and the  *)
(* body is copied once, and then reported as far as it fits.                *)
(***************************************************************************)
ReceiveInv ==
  /\ ResponseReassembled
  /\ client.alloc /\ client.state \in Before
       => /\ received = 0 /\ client.read_buffer_size = 0 /\ client.body_start = 0
          /\ ~ client.garbled
  /\ ~ crashed /\ client.state \in {"reading", "done"} /\ ~ client.garbled
       => (client.body_start > 0 => client.content_len = response.announced)
  /\ client.state = "done" /\ ~ client.garbled
       => /\ received >= response.header + response.announced
          /\ Bytes(client.body) \in BodyWithin(response.announced)
          /\ told = Min({Bytes(client.body), ResponseRoom})
  /\ client.state \in Before \cup {"reading"} => client.body = NULL
  /\ received <= served

IInv == TypeOK /\ MainInv /\ EventsInv /\ SocketInv /\ SendInv /\ ReceiveInv

ClientRecord ==
  [alloc : BOOLEAN, task : BOOLEAN, state : States, age : Nat \cup {NULL},
   write_buffer : BOOLEAN, write_offset : 0 .. RequestSize,
   read_buffer_size : Nat, body_start : Nat, content_len : Nat,
   status_code : Nat, body : Nat \cup {NULL}, tcp_conn : BOOLEAN,
   garbled : BOOLEAN]

-------------------------------------------------------------------------------
LEMMA Typed == TypeOK => /\ client \in ClientRecord /\ response \in Responses
                         /\ response.header \in Nat /\ response.header >= 4
                         /\ response.announced \in Nat /\ response.status \in Nat
                         /\ RequestSize \in Nat /\ CHUNK_SIZE \in Nat /\ CHUNK_SIZE > 0
                         /\ ResponseRoom \in Nat /\ ErrorRoom \in Nat /\ told \in Nat
                         /\ written \in Nat /\ taken \in Nat /\ served \in Nat
                         /\ received \in Nat
<1> SUFFICES ASSUME TypeOK
             PROVE  /\ client \in ClientRecord /\ response \in Responses
                    /\ response.header \in Nat /\ response.header >= 4
                    /\ response.announced \in Nat /\ response.status \in Nat
                    /\ RequestSize \in Nat /\ CHUNK_SIZE \in Nat /\ CHUNK_SIZE > 0
                    /\ ResponseRoom \in Nat /\ ErrorRoom \in Nat /\ told \in Nat
                    /\ written \in Nat /\ taken \in Nat /\ served \in Nat
                    /\ received \in Nat
  OBVIOUS
<1>1. client \in ClientRecord
  BY DEF TypeOK, ClientRecord
<1>2. /\ response \in Responses /\ written \in Nat /\ taken \in Nat
      /\ served \in Nat /\ received \in Nat /\ told \in Nat
  BY DEF TypeOK
<1>3. /\ response.header \in Nat /\ response.header >= 4
      /\ response.announced \in Nat /\ response.status \in Nat
  BY <1>2, ClientAssumption
<1>4. /\ RequestSize \in Nat /\ CHUNK_SIZE \in Nat /\ CHUNK_SIZE > 0
      /\ ResponseRoom \in Nat /\ ErrorRoom \in Nat
  BY ClientAssumption
<1> QED  BY <1>1, <1>2, <1>3, <1>4

LEMMA MinOfTwo ==
  ASSUME NEW m \in Nat, NEW n \in Nat
  PROVE  Min({m, n}) \in {m, n} /\ Min({m, n}) <= m /\ Min({m, n}) <= n
<1>1. CASE m <= n
  BY <1>1 DEF Min
<1>2. CASE ~ m <= n
  BY <1>2 DEF Min
<1> QED  BY <1>1, <1>2

\* The bytes of a body, and how many of them an event may have in it.
LEMMA BytesAre ==
  ASSUME NEW n \in Nat, NEW room \in Nat, NEW b \in {n, NULL}
  PROVE  /\ Bytes(b) \in Nat /\ Bytes(b) = (IF b = NULL THEN 0 ELSE n)
         /\ Min({Bytes(b), room}) \in Nat
         /\ Min({Bytes(b), room}) = (IF b = NULL THEN 0 ELSE Min({n, room}))
<1>1. NULL \notin Nat
  BY ClientAssumption
<1>2. Bytes(b) \in Nat /\ Bytes(b) = (IF b = NULL THEN 0 ELSE n)
  BY <1>1 DEF Bytes
<1>3. Min({0, room}) = 0
  BY MinOfTwo
<1>4. Min({Bytes(b), room}) \in Nat
  BY <1>2, MinOfTwo
<1> QED  BY <1>2, <1>3, <1>4

Reports == {"RESPONSE", "ERROR", "TIMEOUT"}

LEMMA TwoReports ==
  ASSUME NEW a \in Reports, NEW b \in Reports
  PROVE  Append(<<a>>, b) = <<a, b>>
<1> DEFINE s == Append(<<a>>, b)
<1>1. <<a>> \in Seq(Reports) /\ Len(<<a>>) = 1 /\ <<a>>[1] = a
  OBVIOUS
<1>2. s \in Seq(Reports) /\ Len(s) = 2 /\ s[1] = a /\ s[2] = b
  BY <1>1, AppendProperties
<1>3. <<a, b>> \in Seq(Reports) /\ Len(<<a, b>>) = 2 /\ <<a, b>>[1] = a /\ <<a, b>>[2] = b
  OBVIOUS
<1>4. \A i \in 1 .. 2 : s[i] = <<a, b>>[i]
  BY <1>2, <1>3
<1> QED  BY <1>2, <1>3, <1>4, SeqEqual

LEMMA NoClientTyped == NoClient \in ClientRecord
  BY ClientAssumption DEF NoClient, ClientRecord, States

LEMMA InitHolds == Init => IInv
<1> SUFFICES ASSUME Init PROVE IInv
  OBVIOUS
<1>1. TypeOK
  <2>1. events \in Seq({"RESPONSE", "ERROR", "TIMEOUT"})
    BY DEF Init
  <2>2. client \in ClientRecord
    BY NoClientTyped DEF Init
  <2>3. /\ main \in {"start", "loop", "exit"} /\ crashed \in BOOLEAN
        /\ fd \in {"none", "open", "closed"}
        /\ net \in {"none", "connecting", "open", "failed", "ended", "reset"}
        /\ response \in Responses
        /\ written \in Nat /\ taken \in Nat /\ served \in Nat /\ received \in Nat /\ told \in Nat
    BY DEF Init
  <2> QED  BY <2>1, <2>2, <2>3 DEF TypeOK, ClientRecord
<1>2. MainInv /\ EventsInv /\ SocketInv /\ SendInv /\ ReceiveInv
  BY DEF Init, NoClient, MainInv, EventsInv, SocketInv, SocketAccounted, SendInv,
         RequestGoesFirst, ReceiveInv, ResponseReassembled, Before
<1> QED  BY <1>1, <1>2 DEF IInv

\* A handler works on a client that differs from the last one in its age at most.
Same(k) ==
  /\ k \in ClientRecord
  /\ k.alloc = client.alloc /\ k.task = client.task /\ k.state = client.state
  /\ k.write_buffer = client.write_buffer /\ k.write_offset = client.write_offset
  /\ k.read_buffer_size = client.read_buffer_size /\ k.body_start = client.body_start
  /\ k.content_len = client.content_len /\ k.status_code = client.status_code
  /\ k.body = client.body /\ k.tcp_conn = client.tcp_conn /\ k.garbled = client.garbled

LEMMA StartedIsSame == TypeOK => Same(Started(client))
<1> SUFFICES ASSUME TypeOK PROVE Same(Started(client))
  OBVIOUS
<1>1. client \in ClientRecord
  BY Typed
<1> QED  BY <1>1 DEF Started, ClientRecord, Same

\* A client whose task is called has been allocated, and main is in its loop.
LEMMA CalledIs == IInv /\ Called => /\ main = "loop" /\ client.alloc /\ client.task
                                    /\ ~ crashed
<1> SUFFICES ASSUME IInv, Called
             PROVE  main = "loop" /\ client.alloc /\ client.task /\ ~ crashed
  OBVIOUS
<1>1. client \in ClientRecord
  BY Typed DEF IInv
<1> QED  BY <1>1 DEF IInv, MainInv, Called, ClientRecord

\* The types after a step of a handler.
LEMMA TypesKept ==
  ASSUME TypeOK, client' \in ClientRecord, main' = main, crashed' \in BOOLEAN,
         \/ events' = events
         \/ \E e \in Reports : events' = Append(events, e),
         told' \in Nat, fd' \in {"none", "open", "closed"}, response' = response,
         net' \in {"none", "connecting", "open", "failed", "ended", "reset"},
         written' \in Nat, taken' \in Nat, served' \in Nat, received' \in Nat
  PROVE  TypeOK'
<1>1. events' \in Seq(Reports)
  <2>1. events \in Seq(Reports)
    BY DEF TypeOK, Reports
  <2>2. CASE events' = events
    BY <2>1, <2>2
  <2>3. CASE \E e \in Reports : events' = Append(events, e)
    <3>1. PICK e \in Reports : events' = Append(events, e)
      BY <2>3
    <3> QED  BY <2>1, <3>1
  <2> QED  BY <2>2, <2>3
<1>2. main' \in {"start", "loop", "exit"} /\ response' \in Responses
  BY DEF TypeOK
<1> QED  BY <1>1, <1>2 DEF TypeOK, ClientRecord, Reports

(***************************************************************************)
(* An error before any response: reported once, and the socket still the    *)
(* client's.                                                                *)
(***************************************************************************)
LEMMA FailsHolds ==
  ASSUME IInv, Called, NEW b \in ClientRecord, Fails(b),
         client.state \in Before \cup {"reading"},
         b.alloc, b.tcp_conn = client.tcp_conn, b.write_offset = written,
         UNCHANGED <<fd, net, response, written, taken, served>>,
         received' \in Nat, received' <= served
  PROVE  IInv'
<1>1. /\ client.alloc /\ main = "loop" /\ main' = main /\ ~ crashed /\ crashed' = crashed
      /\ events' = <<"ERROR">> /\ events' = Append(events, "ERROR") /\ told' = 0
      /\ client' = [b EXCEPT !.state = "dispose"]
  <2>1. client.alloc /\ main = "loop" /\ ~ crashed
    BY CalledIs
  <2>2. events = << >>
    BY <2>1 DEF IInv, EventsInv
  <2> QED  BY <2>1, <2>2 DEF Fails, Report
<1>2. /\ client' \in ClientRecord /\ client'.state = "dispose" /\ client'.alloc
      /\ client'.tcp_conn = client.tcp_conn /\ client'.write_offset = written
  BY <1>1 DEF ClientRecord, States
<1>3. TypeOK'
  BY <1>1, <1>2, TypesKept DEF IInv, TypeOK, Reports
<1>4. MainInv' /\ EventsInv' /\ SendInv'
  BY <1>1, <1>2 DEF MainInv, EventsInv, Before, SendInv, RequestGoesFirst
<1>5. SocketInv'
  BY <1>1, <1>2 DEF IInv, SocketInv, SocketAccounted
<1>6. ReceiveInv'
  BY <1>1, <1>2 DEF IInv, ReceiveInv, ResponseReassembled, Before
<1> QED  BY <1>3, <1>4, <1>5, <1>6 DEF IInv

\* A step into connect, connecting or writing that leaves the bytes alone.
LEMMA ForwardHolds ==
  ASSUME IInv, Called, NEW k, Same(k), UNCHANGED <<main, events, told, crashed>>,
         UNCHANGED <<response, written, taken, served, received>>,
         fd' \in {"none", "open", "closed"},
         net' \in {"none", "connecting", "open", "failed", "ended", "reset"},
         client.state \in {"init", "connect", "connecting"},
         NEW s \in {"connect", "connecting", "writing"}, NEW t \in BOOLEAN,
         client' = [k EXCEPT !.state = s, !.tcp_conn = t],
         s = "connect" => ~ t /\ client.state = "init",
         s # "connect" => t,
         t => fd' = "open",
         ~ t => fd' = fd
  PROVE  IInv'
<1>1. /\ main = "loop" /\ client.alloc /\ ~ crashed
      /\ client \in ClientRecord /\ k \in ClientRecord /\ k.alloc
  BY CalledIs, Typed DEF Same, IInv
<1>2. /\ client' \in ClientRecord /\ client'.state = s /\ client'.tcp_conn = t
      /\ client'.alloc /\ client'.task = client.task
      /\ client'.write_buffer = client.write_buffer
      /\ client'.write_offset = client.write_offset
      /\ client'.read_buffer_size = client.read_buffer_size
      /\ client'.body_start = client.body_start /\ client'.garbled = client.garbled
      /\ client'.body = client.body
  <2>1. k.tcp_conn \in BOOLEAN /\ s \in States
    BY <1>1 DEF ClientRecord, States
  <2> QED  BY <1>1, <2>1 DEF Same, ClientRecord
<1>3. TypeOK'
  BY <1>1, <1>2, TypesKept DEF IInv, TypeOK
<1>4. MainInv' /\ EventsInv' /\ SendInv'
  BY <1>1, <1>2 DEF IInv, MainInv, EventsInv, Before, SendInv, RequestGoesFirst
<1>5. SocketInv'
  BY <1>1, <1>2 DEF IInv, SocketInv, SocketAccounted
<1>6. ReceiveInv'
  BY <1>1, <1>2 DEF IInv, ReceiveInv, ResponseReassembled, Before
<1> QED  BY <1>3, <1>4, <1>5, <1>6 DEF IInv

LEMMA InitStateHolds ==
  ASSUME IInv, Called, NEW k, Same(k), http_client_work_init(k)
  PROVE  IInv'
<1>1. /\ k \in ClientRecord /\ k.alloc /\ client.state = "init" /\ client.alloc
      /\ k.write_offset = written /\ UNCHANGED netVars
      /\ k.tcp_conn = FALSE /\ client.tcp_conn = FALSE
  BY CalledIs, Typed
     DEF Same, http_client_work_init, IInv, SendInv, RequestGoesFirst, SocketInv, ClientRecord
<1>2. CASE Fails(k)
  BY <1>1, <1>2, FailsHolds, Typed DEF netVars, Before, IInv, ReceiveInv
<1>3. CASE Moves(k, "connect")
  <2>1. client' = [k EXCEPT !.state = "connect", !.tcp_conn = FALSE]
    BY <1>1, <1>3 DEF Moves, ClientRecord
  <2>2. fd \in {"none", "open", "closed"}
        /\ net \in {"none", "connecting", "open", "failed", "ended", "reset"}
    BY DEF IInv, TypeOK
  <2> QED  BY <1>1, <1>3, <2>1, <2>2, ForwardHolds DEF netVars, Moves
<1> QED  BY <1>2, <1>3 DEF http_client_work_init

LEMMA ConnectStateHolds ==
  ASSUME IInv, Called, NEW k, Same(k), http_client_work_connect(k)
  PROVE  IInv'
<1>1. /\ k \in ClientRecord /\ k.alloc /\ client.state = "connect"
      /\ k.write_offset = written /\ k.tcp_conn = client.tcp_conn
  BY CalledIs DEF Same, http_client_work_connect, IInv, SendInv, RequestGoesFirst
<1>2. CASE Fails(k) /\ UNCHANGED netVars
  <2>1. received' \in Nat /\ received' <= served
    BY <1>2, Typed DEF netVars, IInv, ReceiveInv
  <2> QED  BY <1>1, <1>2, <2>1, FailsHolds DEF netVars, Before
<1>3. CASE tcp_client_connect /\ Moves([k EXCEPT !.tcp_conn = TRUE], "connecting")
  <2>1. client' = [k EXCEPT !.state = "connecting", !.tcp_conn = TRUE]
    BY <1>1, <1>3 DEF Moves, ClientRecord
  <2> QED  BY <1>1, <1>3, <2>1, ForwardHolds DEF tcp_client_connect, Moves
<1> QED  BY <1>2, <1>3 DEF http_client_work_connect

LEMMA ConnectingStateHolds ==
  ASSUME IInv, Called, NEW k, Same(k), http_client_work_connecting(k)
  PROVE  IInv'
<1>1. /\ k \in ClientRecord /\ k.alloc /\ client.state = "connecting" /\ UNCHANGED netVars
      /\ k.write_offset = written /\ k.tcp_conn = client.tcp_conn /\ client.tcp_conn
      /\ fd = "open"
  BY CalledIs DEF Same, http_client_work_connecting, IInv, SendInv, RequestGoesFirst,
                  SocketInv, SocketAccounted
<1>2. CASE Fails(k)
  <2>1. received' \in Nat /\ received' <= served
    BY <1>1, Typed DEF netVars, IInv, ReceiveInv
  <2> QED  BY <1>1, <1>2, <2>1, FailsHolds DEF netVars, Before
<1>3. CASE Moves(k, "writing")
  <2>1. client' = [k EXCEPT !.state = "writing", !.tcp_conn = TRUE]
    BY <1>1, <1>3 DEF Moves, ClientRecord
  <2>2. fd \in {"none", "open", "closed"}
        /\ net \in {"none", "connecting", "open", "failed", "ended", "reset"}
    BY DEF IInv, TypeOK
  <2> QED  BY <1>1, <1>3, <2>1, <2>2, ForwardHolds DEF netVars, Moves
<1> QED  BY <1>2, <1>3 DEF http_client_work_connecting

-------------------------------------------------------------------------------
LEMMA SendableIs ==
  ASSUME NEW len \in Nat, NEW n \in Sendable(len)
  PROVE  n \in Nat /\ n <= len
<1>1. CASE net = "connecting" \/ written - taken = SendBuffer
  BY <1>1 DEF Sendable
<1>2. CASE ~ (net = "connecting" \/ written - taken = SendBuffer)
  BY <1>2 DEF Sendable
<1> QED  BY <1>1, <1>2

\* Some more bytes are written, or none, and the client reads once they all are.
LEMMA SentHolds ==
  ASSUME IInv, Called, client.state = "writing",
         NEW c \in ClientRecord, client' = c,
         UNCHANGED <<main, events, told, crashed, fd, net, response, taken, served, received>>,
         c.alloc, c.state \in {"writing", "reading"},
         written' \in Nat, c.write_offset = written',
         c.state = "reading" => written' = RequestSize,
         c.state = "writing" => c.write_buffer,
         c.tcp_conn = client.tcp_conn, c.read_buffer_size = client.read_buffer_size,
         c.body_start = client.body_start, c.garbled = client.garbled,
         c.body = client.body
  PROVE  IInv'
<1>1. main = "loop" /\ client.alloc /\ ~ crashed
  BY CalledIs
<1>2. TypeOK'
  BY <1>1, TypesKept DEF IInv, TypeOK
<1>3. MainInv' /\ EventsInv' /\ SendInv'
  BY <1>1 DEF IInv, MainInv, EventsInv, Before, SendInv, RequestGoesFirst
<1>4. SocketInv'
  BY <1>1 DEF IInv, SocketInv, SocketAccounted
<1>5. ReceiveInv'
  <2>1. received = 0 /\ client.read_buffer_size = 0 /\ client.body_start = 0
        /\ ~ client.garbled /\ received <= served /\ client.body = NULL
    BY <1>1 DEF IInv, ReceiveInv, Before
  <2>2. response.header >= 4 /\ response.header \in Nat
    BY Typed DEF IInv
  <2> QED  BY <1>1, <2>1, <2>2 DEF ReceiveInv, ResponseReassembled, Before
<1> QED  BY <1>2, <1>3, <1>4, <1>5 DEF IInv

LEMMA WritingStateHolds ==
  ASSUME IInv, Called, NEW k, Same(k), http_client_work_writing(k)
  PROVE  IInv'
<1> DEFINE b == IF k.write_buffer THEN k
                ELSE [k EXCEPT !.write_buffer = TRUE, !.write_offset = 0]
<1>1. /\ k \in ClientRecord /\ k.alloc /\ client.state = "writing"
      /\ k.write_offset = written /\ k.tcp_conn = client.tcp_conn
      /\ k.write_buffer = client.write_buffer /\ ~ k.write_buffer => written = 0
  BY CalledIs DEF Same, http_client_work_writing, IInv, SendInv, RequestGoesFirst, Before
<1>2. /\ b \in ClientRecord /\ b.alloc /\ b.write_buffer /\ b.write_offset = written
      /\ b.tcp_conn = client.tcp_conn /\ b.read_buffer_size = client.read_buffer_size
      /\ b.body_start = client.body_start /\ b.garbled = client.garbled
      /\ b.body = client.body
      /\ b.write_offset \in 0 .. RequestSize
  <2>0. RequestSize \in Nat
    BY Typed DEF IInv
  <2>1. CASE k.write_buffer
    BY <1>1, <2>1 DEF Same, ClientRecord
  <2>2. CASE ~ k.write_buffer
    BY <2>0, <1>1, <2>2 DEF Same, ClientRecord
  <2> QED  BY <2>1, <2>2
<1>3. received \in Nat /\ received <= served /\ RequestSize \in Nat /\ written \in Nat
  BY Typed DEF IInv, ReceiveInv
<1> HIDE DEF b
<1>4. CASE Fails(k) /\ UNCHANGED netVars
  BY <1>1, <1>3, <1>4, FailsHolds DEF netVars, Before
<1>5. CASE Fails(b) /\ UNCHANGED netVars
  BY <1>1, <1>2, <1>3, <1>5, FailsHolds DEF netVars, Before
<1>6. ASSUME NEW n \in Sendable(RequestSize - b.write_offset), written' = written + n,
             IF n = 0 THEN Moves(b, "writing")
             ELSE Written([b EXCEPT !.write_offset = @ + n]),
             UNCHANGED <<fd, net, response, taken, served, received>>
      PROVE  IInv'
  <2>1. RequestSize - b.write_offset \in Nat
    BY <1>2, <1>3
  <2>2. n \in Nat /\ n <= RequestSize - b.write_offset /\ written' \in Nat
    BY <1>3, <1>6, <2>1, SendableIs
  <2>3. CASE n = 0
    <3>1. client' = [b EXCEPT !.state = "writing"] /\ UNCHANGED <<main, events, told, crashed>>
      BY <1>6, <2>3 DEF Moves
    <3>2. /\ client' \in ClientRecord /\ client'.state = "writing" /\ client'.alloc
          /\ client'.write_buffer /\ client'.write_offset = written'
          /\ client'.tcp_conn = client.tcp_conn
          /\ client'.read_buffer_size = client.read_buffer_size
          /\ client'.body_start = client.body_start /\ client'.garbled = client.garbled
          /\ client'.body = client.body
      BY <1>2, <1>3, <1>6, <2>3, <3>1 DEF ClientRecord, States
    <3> QED  BY <1>1, <1>6, <2>2, <3>1, <3>2, SentHolds
  <2>4. CASE n # 0
    <3> DEFINE w == [b EXCEPT !.write_offset = @ + n]
    <3>1. /\ w \in ClientRecord /\ w.alloc /\ w.write_offset = written'
          /\ w.write_buffer /\ w.tcp_conn = client.tcp_conn
          /\ w.read_buffer_size = client.read_buffer_size
          /\ w.body_start = client.body_start /\ w.garbled = client.garbled
          /\ w.body = client.body
          /\ w.write_offset \in 0 .. RequestSize
      <4>1. b.write_offset + n \in 0 .. RequestSize /\ b.write_offset + n = written'
        BY <1>2, <1>3, <1>6, <2>2
      <4> QED  BY <1>2, <4>1 DEF ClientRecord
    <3>2. Written(w)
      BY <1>6, <2>4
    <3> HIDE DEF w
    <3>3. CASE AllWritten(w)
      <4>1. /\ client' = [w EXCEPT !.write_buffer = FALSE, !.state = "reading"]
            /\ UNCHANGED <<main, events, told, crashed>> /\ w.write_offset = RequestSize
        BY <1>3, <3>1, <3>2, <3>3 DEF Written, AllWritten, Moves, ClientRecord
      <4>2. /\ client' \in ClientRecord /\ client'.state = "reading" /\ client'.alloc
            /\ client'.write_offset = written' /\ written' = RequestSize
            /\ client'.tcp_conn = client.tcp_conn
            /\ client'.read_buffer_size = client.read_buffer_size
            /\ client'.body_start = client.body_start /\ client'.garbled = client.garbled
            /\ client'.body = client.body
        BY <3>1, <4>1 DEF ClientRecord, States
      <4> QED  BY <1>1, <1>6, <2>2, <4>1, <4>2, SentHolds
    <3>4. CASE ~ AllWritten(w)
      <4>1. client' = [w EXCEPT !.state = "writing"] /\ UNCHANGED <<main, events, told, crashed>>
        BY <3>2, <3>4 DEF Written, Moves
      <4>2. /\ client' \in ClientRecord /\ client'.state = "writing" /\ client'.alloc
            /\ client'.write_buffer /\ client'.write_offset = written'
            /\ client'.tcp_conn = client.tcp_conn
            /\ client'.read_buffer_size = client.read_buffer_size
            /\ client'.body_start = client.body_start /\ client'.garbled = client.garbled
            /\ client'.body = client.body
        BY <3>1, <4>1 DEF ClientRecord, States
      <4> QED  BY <1>1, <1>6, <2>2, <4>1, <4>2, SentHolds
    <3> QED  BY <3>3, <3>4
  <2> QED  BY <2>3, <2>4
<1> QED  BY <1>4, <1>5, <1>6 DEF http_client_work_writing, b

-------------------------------------------------------------------------------
\* What the scan knows of the response, once there are more bytes.
Knows(p) ==
  ~ p.garbled => /\ p.body_start \in {0, response.header}
                 /\ p.body_start > 0 <=> received' >= response.header
                 /\ p.body_start > 0 => p.content_len = response.announced

LEMMA GarbledIs ==
  ASSUME NEW k, NEW p \in Garbled(k)
  PROVE  \E start, len, status \in Nat :
           p = [k EXCEPT !.garbled = TRUE, !.body_start = start,
                         !.content_len = len, !.status_code = status]
<1>1. PICK found \in FoundBehind :
        p = [k EXCEPT !.garbled = TRUE, !.body_start = found.header,
                      !.content_len = found.announced, !.status_code = found.status]
  BY DEF Garbled
<1>2. /\ found.header \in 4 .. response.total + 1
      /\ found.announced \in {0} \cup {r.announced : r \in Responses}
      /\ found.status \in {0} \cup {r.status : r \in Responses}
  BY DEF FoundBehind
<1>3. found.header \in Nat
  BY <1>2
<1>4. found.announced \in Nat /\ found.status \in Nat
  BY <1>2, ClientAssumption
<1> QED  BY <1>1, <1>3, <1>4

LEMMA ScannedKnows ==
  ASSUME IInv, Called, NEW k, Same(k), client.state = "reading",
         NEW n \in Nat, received' = received + n,
         NEW p \in Scanned([k EXCEPT !.read_buffer_size = @ + n])
  PROVE  /\ p \in ClientRecord /\ p.alloc /\ p.tcp_conn = client.tcp_conn
         /\ p.write_offset = written /\ p.read_buffer_size = received'
         /\ p.state = "reading" /\ p.body = NULL /\ Knows(p)
<1> DEFINE r == [k EXCEPT !.read_buffer_size = @ + n]
<1>1. /\ client.alloc /\ ~ crashed /\ k \in ClientRecord
      /\ k.write_offset = written /\ k.read_buffer_size = received /\ k.body = NULL
      /\ ~ k.garbled => /\ k.body_start \in {0, response.header}
                        /\ k.body_start > 0 <=> received >= response.header
                        /\ k.body_start > 0 => k.content_len = response.announced
  BY CalledIs DEF Same, IInv, SendInv, RequestGoesFirst, ReceiveInv, ResponseReassembled
<1>2. /\ response.header \in Nat /\ response.header >= 4 /\ response.announced \in Nat
      /\ response.status \in Nat /\ received \in Nat
  BY Typed DEF IInv
<1>3. /\ r \in ClientRecord /\ r.alloc /\ r.tcp_conn = client.tcp_conn
      /\ r.write_offset = written /\ r.read_buffer_size = received' /\ received' \in Nat
      /\ r.state = "reading" /\ r.body = NULL /\ r.garbled = k.garbled
      /\ r.body_start = k.body_start /\ r.content_len = k.content_len
  <2>1. received + n \in Nat
    BY <1>2
  <2>2. r = [k EXCEPT !.read_buffer_size = received + n] /\ k.state = "reading"
        /\ k.alloc /\ k.tcp_conn = client.tcp_conn
    BY <1>1 DEF Same
  <2> HIDE DEF r
  <2>3. r \in ClientRecord
    BY <1>1, <2>1, <2>2 DEF ClientRecord
  <2>4. r.alloc /\ r.tcp_conn = k.tcp_conn /\ r.write_offset = k.write_offset
    BY <1>1, <2>1, <2>2 DEF ClientRecord
  <2>5. r.read_buffer_size = received' /\ received' \in Nat
    BY <1>1, <2>1, <2>2 DEF ClientRecord
  <2>6. r.state = k.state /\ r.body = k.body /\ r.garbled = k.garbled
        /\ r.body_start = k.body_start /\ r.content_len = k.content_len
    BY <1>1, <2>1, <2>2 DEF ClientRecord
  <2> QED  BY <1>1, <2>2, <2>3, <2>4, <2>5, <2>6
<1>p. p \in Scanned(r)
  OBVIOUS
<1> HIDE DEF r
<1>4. CASE ScanRunsAway(r)
  <2>1. \E start, len, status \in Nat :
          p = [r EXCEPT !.garbled = TRUE, !.body_start = start,
                        !.content_len = len, !.status_code = status]
    <3>1. p \in Garbled(r)
      <4>1. ~ HeadersEnd(r)
        BY <1>4 DEF HeadersEnd
      <4> QED  BY <1>p, <1>4, <4>1 DEF Scanned
    <3> QED  BY <3>1, GarbledIs
  <2>2. PICK start, len, status \in Nat :
          p = [r EXCEPT !.garbled = TRUE, !.body_start = start,
                        !.content_len = len, !.status_code = status]
    BY <2>1
  <2>3. p \in ClientRecord
    BY <1>3, <2>2 DEF ClientRecord
  <2>4. /\ p.garbled /\ p.alloc = r.alloc /\ p.tcp_conn = r.tcp_conn
        /\ p.write_offset = r.write_offset /\ p.read_buffer_size = r.read_buffer_size
        /\ p.state = r.state /\ p.body = r.body
    BY <1>3, <2>2 DEF ClientRecord
  <2> QED  BY <1>3, <2>3, <2>4 DEF Knows
<1>5. CASE HeadersEnd(r)
  <2>1. p = [r EXCEPT !.body_start = response.header, !.content_len = response.announced,
                      !.status_code = response.status]
    <3>1. ~ ScanRunsAway(r)
      BY <1>5 DEF HeadersEnd
    <3> QED  BY <1>p, <1>5, <3>1 DEF Scanned, HeadersParsed
  <2>2. p \in ClientRecord
    BY <1>2, <1>3, <2>1 DEF ClientRecord
  <2>3. /\ p.body_start = response.header /\ p.content_len = response.announced
        /\ p.garbled = r.garbled /\ p.alloc = r.alloc /\ p.tcp_conn = r.tcp_conn /\ p.write_offset = r.write_offset
        /\ p.read_buffer_size = r.read_buffer_size /\ p.state = r.state /\ p.body = r.body
    BY <1>3, <2>1 DEF ClientRecord
  <2>4. r.read_buffer_size >= response.header
    BY <1>5 DEF HeadersEnd
  <2>5. Knows(p)
    <3>1. received' >= response.header /\ response.header > 0
      BY <1>2, <1>3, <2>4
    <3> QED  BY <2>3, <3>1 DEF Knows
  <2> QED  BY <1>3, <2>2, <2>3, <2>5
<1>6. CASE ~ ScanRunsAway(r) /\ ~ HeadersEnd(r)
  <2>1. p = r
    BY <1>p, <1>6 DEF Scanned
  <2>2. r.body_start \in Nat
    BY <1>3 DEF ClientRecord
  <2>3. CASE r.body_start = 0
    BY <1>1, <1>2, <1>3, <1>6, <2>1, <2>3 DEF Knows, ScanRunsAway, HeadersEnd
  <2>4. CASE r.body_start > 0
    BY <1>1, <1>2, <1>3, <2>1, <2>4 DEF Knows
  <2> QED  BY <1>3, <2>1, <2>2, <2>3, <2>4
<1> QED  BY <1>4, <1>5, <1>6

\* The client reads on, or has the whole response and says so.
LEMMA ReadHolds ==
  ASSUME IInv, Called, client.state = "reading",
         NEW c \in ClientRecord, client' = c,
         UNCHANGED <<main, crashed, fd, net, response, written, taken, served>>,
         received' \in Nat, received' <= served,
         c.alloc, c.state \in {"reading", "done"}, c.tcp_conn = client.tcp_conn,
         c.write_offset = written, c.read_buffer_size = received', Knows(c),
         told' \in Nat,
         c.state = "reading" => UNCHANGED <<events, told>> /\ c.body = NULL,
         c.state = "done" =>
           /\ Report("RESPONSE", Min({Bytes(c.body), ResponseRoom}))
           /\ ~ c.garbled => /\ received' >= response.header + response.announced
                             /\ Bytes(c.body) \in BodyWithin(response.announced)
  PROVE  IInv'
<1>1. main = "loop" /\ client.alloc /\ ~ crashed
  BY CalledIs
<1>2. events = << >>
  BY <1>1 DEF IInv, EventsInv
<1>3. c.state = "done" => /\ events' = <<"RESPONSE">> /\ events' = Append(events, "RESPONSE")
                          /\ told' = Min({Bytes(c.body), ResponseRoom})
  BY <1>2 DEF Report
<1>4. TypeOK'
  BY <1>1, <1>3, TypesKept DEF IInv, TypeOK, Reports
<1>5. MainInv' /\ EventsInv' /\ SendInv'
  BY <1>1, <1>2, <1>3
     DEF IInv, MainInv, EventsInv, Before, SendInv, RequestGoesFirst
<1>6. SocketInv'
  BY <1>1 DEF IInv, SocketInv, SocketAccounted
<1>7. ReceiveInv'
  BY <1>1, <1>3 DEF IInv, ReceiveInv, ResponseReassembled, Before, Knows, BodyWithin
<1> QED  BY <1>4, <1>5, <1>6, <1>7 DEF IInv

LEMMA ReadingStateHolds ==
  ASSUME IInv, Called, NEW k, Same(k), http_client_work_reading(k)
  PROVE  IInv'
<1>1. /\ k \in ClientRecord /\ k.alloc /\ client.alloc /\ client.state = "reading"
      /\ ~ crashed /\ k.write_offset = written /\ k.tcp_conn = client.tcp_conn
  BY CalledIs DEF Same, http_client_work_reading, IInv, SendInv, RequestGoesFirst
<1>2. /\ received \in Nat /\ served \in Nat /\ received <= served
      /\ CHUNK_SIZE \in Nat
  BY Typed DEF IInv, ReceiveInv
<1>3. CASE Fails(k) /\ UNCHANGED netVars
  BY <1>1, <1>2, <1>3, FailsHolds DEF netVars
<1>4. CASE Moves(k, "reading") /\ UNCHANGED netVars
  <2>1. client' = [k EXCEPT !.state = "reading"] /\ UNCHANGED <<main, events, told, crashed>>
    BY <1>4 DEF Moves
  <2>2. /\ client' \in ClientRecord /\ client'.state = "reading" /\ client'.alloc
        /\ client'.write_offset = written /\ client'.tcp_conn = client.tcp_conn
        /\ client'.read_buffer_size = received' /\ client'.body = NULL
        /\ Knows(client')
    <3>1. /\ k.read_buffer_size = received /\ k.body = NULL
          /\ ~ k.garbled => /\ k.body_start \in {0, response.header}
                            /\ k.body_start > 0 <=> received >= response.header
                            /\ k.body_start > 0 => k.content_len = response.announced
      BY <1>1 DEF Same, IInv, ReceiveInv, ResponseReassembled
    <3>2. received' = received
      BY <1>4 DEF netVars
    <3> QED  BY <1>1, <2>1, <3>1, <3>2 DEF ClientRecord, States, Knows
  <2>3. told' \in Nat
    BY <2>1, Typed DEF IInv
  <2> QED  BY <1>1, <1>2, <1>4, <2>1, <2>2, <2>3, ReadHolds DEF netVars
<1>5. ASSUME Unread > 0, UNCHANGED <<fd, net, response, written, taken, served>>,
             NEW n, n = Min({CHUNK_SIZE, Unread}), received' = received + n,
             \/ Fails(k)
             \/ Process([k EXCEPT !.read_buffer_size = @ + n])
      PROVE  IInv'
  <2>1. n \in Nat /\ received' \in Nat /\ received' <= served
    <3>1. Unread \in Nat /\ received + Unread = served
      BY <1>2 DEF Unread
    <3>2. n \in {CHUNK_SIZE, Unread} /\ n <= Unread
      BY <1>2, <1>5, <3>1, MinOfTwo
    <3> QED  BY <1>2, <1>5, <3>1, <3>2
  <2> DEFINE r == [k EXCEPT !.read_buffer_size = @ + n]
  <2>2. ASSUME NEW p \in Scanned(r)
        PROVE  /\ p \in ClientRecord /\ p.alloc /\ p.tcp_conn = client.tcp_conn
               /\ p.write_offset = written /\ p.read_buffer_size = received'
               /\ p.state = "reading" /\ p.body = NULL /\ Knows(p)
    BY <1>1, <1>5, <2>1, <2>2, ScannedKnows
  <2>3. /\ r \in ClientRecord /\ r.alloc /\ r.tcp_conn = client.tcp_conn
        /\ r.write_offset = written
    BY <1>1, <2>1 DEF ClientRecord
  <2> HIDE DEF r
  <2>4. CASE Fails(k)
    BY <1>1, <1>5, <2>1, <2>4, FailsHolds
  <2>5. CASE Fails(r)
    BY <1>1, <1>5, <2>1, <2>3, <2>5, FailsHolds
  <2>6. CASE Crash
    <3>1. /\ crashed' = TRUE /\ UNCHANGED <<main, client, events, told>>
          /\ client \in ClientRecord /\ main = "loop"
      BY <2>6, Typed, CalledIs DEF Crash, IInv
    <3>2. TypeOK'
      BY <1>5, <2>1, <3>1, TypesKept DEF IInv, TypeOK
    <3>3. MainInv' /\ EventsInv' /\ SocketInv' /\ SendInv'
      BY <1>1, <1>5, <3>1
         DEF IInv, MainInv, EventsInv, SocketInv, SocketAccounted, SendInv, RequestGoesFirst
    <3>4. ReceiveInv'
      BY <1>1, <1>5, <2>1, <3>1 DEF IInv, ReceiveInv, ResponseReassembled, Before
    <3> QED  BY <3>2, <3>3, <3>4 DEF IInv
  <2>7. ASSUME NEW p \in Scanned(r), Moves(p, "reading")
        PROVE  IInv'
    <3>1. client' = [p EXCEPT !.state = "reading"] /\ UNCHANGED <<main, events, told, crashed>>
      BY <2>7 DEF Moves
    <3>2. client' = p
      BY <2>2, <3>1 DEF ClientRecord
    <3>3. told' \in Nat
      BY <3>1, Typed DEF IInv
    <3> QED  BY <1>1, <1>5, <2>1, <2>2, <3>1, <3>2, <3>3, ReadHolds
  <2>8. ASSUME NEW p \in Scanned(r), Complete(p), Respond(p)
        PROVE  IInv'
    <3>1. PICK b \in {IF p.content_len > 0 THEN p.content_len ELSE NULL}
                     \cup (IF MayFail("memory") THEN {NULL} ELSE {}) :
            /\ client' = [p EXCEPT !.state = "done", !.body = b]
            /\ Report("RESPONSE", Min({Bytes(b), ResponseRoom}))
            /\ UNCHANGED <<main, crashed>>
      BY <2>8 DEF Respond
    <3>2. /\ b \in {p.content_len, NULL} /\ p.content_len \in Nat
          /\ b = NULL => p.content_len = 0 \/ MayFail("memory")
      BY <2>2, ClientAssumption DEF ClientRecord
    <3>3. /\ client' \in ClientRecord /\ client'.state = "done" /\ client'.alloc
          /\ client'.write_offset = written /\ client'.tcp_conn = client.tcp_conn
          /\ client'.read_buffer_size = received' /\ client'.garbled = p.garbled
          /\ client'.body_start = p.body_start /\ client'.content_len = p.content_len
          /\ client'.body = b
      BY <2>2, <3>1, <3>2 DEF ClientRecord, States
    <3>4. ~ p.garbled => /\ received' >= response.header + response.announced
                         /\ Bytes(b) \in BodyWithin(response.announced)
      <4>1. p.body_start > 0 /\ received' >= p.body_start + p.content_len
        BY <2>2, <2>8 DEF Complete
      <4>2. ~ p.garbled => p.body_start = response.header /\ p.content_len = response.announced
        BY <2>2, <4>1 DEF Knows
      <4>3. Min({response.announced, response.announced}) = response.announced
        BY Typed, MinOfTwo DEF IInv
      <4>4. Bytes(b) = (IF b = NULL THEN 0 ELSE p.content_len)
        BY <3>2, BytesAre
      <4> QED  BY <3>2, <4>1, <4>2, <4>3, <4>4 DEF BodyWithin
    <3>5. Knows(client')
      BY <2>2, <3>3 DEF Knows
    <3>6. told' \in Nat
      <4>1. Min({Bytes(b), ResponseRoom}) \in Nat
        BY <3>2, BytesAre, Typed DEF IInv
      <4> QED  BY <3>1, <4>1 DEF Report
    <3> QED  BY <1>1, <1>5, <2>1, <3>1, <3>3, <3>4, <3>5, <3>6, ReadHolds
  <2> QED  BY <1>5, <2>4, <2>5, <2>6, <2>7, <2>8 DEF Process, r
<1> QED  BY <1>3, <1>4, <1>5 DEF http_client_work_reading

-------------------------------------------------------------------------------
LEMMA DoneStateHolds ==
  ASSUME IInv, Called, NEW k, Same(k), http_client_work_done(k)
  PROVE  IInv'
<1>1. /\ k \in ClientRecord /\ k.alloc /\ client.alloc /\ client.state = "done"
      /\ ~ crashed /\ main = "loop" /\ k.write_offset = written
  BY CalledIs DEF Same, http_client_work_done, IInv, SendInv, RequestGoesFirst
<1>2. /\ client' \in ClientRecord /\ client'.state = "dispose" /\ client'.alloc
      /\ ~ client'.tcp_conn /\ client'.write_offset = written
  BY <1>1, ClientAssumption DEF http_client_work_done, Released, ClientRecord, States
<1>r. k.body \in Nat \cup {NULL} /\ ResponseRoom \in Nat /\ ErrorRoom \in Nat
  BY <1>1, Typed DEF IInv, ClientRecord
<1>t. told' \in Nat
  <2>1. Bytes(k.body) \in Nat /\ Min({Bytes(k.body), ErrorRoom}) \in Nat
    <3>1. CASE k.body = NULL
      BY <1>r, <3>1, MinOfTwo DEF Bytes
    <3>2. CASE k.body \in Nat
      BY <1>r, <3>2, BytesAre
    <3> QED  BY <1>r, <3>1, <3>2
  <2> QED  BY <2>1 DEF http_client_work_done, Report
<1>3. /\ fd' = "closed"
      /\ UNCHANGED <<main, crashed, net, response, written, taken, served, received>>
  BY <1>2 DEF http_client_work_done
<1>4. /\ events' \in {<<"RESPONSE", "RESPONSE">>, <<"RESPONSE", "ERROR">>}
      /\ \E e \in Reports : events' = Append(events, e)
  <2>1. events = <<"RESPONSE">>
    BY <1>1 DEF IInv, EventsInv
  <2>2. PICK e \in {"RESPONSE", "ERROR"} : events' = Append(events, e)
    BY DEF http_client_work_done, Report
  <2>3. events' = <<"RESPONSE", e>>
    BY <2>1, <2>2, TwoReports DEF Reports
  <2> QED  BY <2>2, <2>3 DEF Reports
<1>5. TypeOK'
  BY <1>2, <1>3, <1>4, <1>t, TypesKept DEF IInv, TypeOK
<1>6. MainInv' /\ EventsInv' /\ SendInv' /\ SocketInv'
  BY <1>1, <1>2, <1>3, <1>4
     DEF MainInv, EventsInv, Before, SendInv, RequestGoesFirst, SocketInv, SocketAccounted
<1>7. ReceiveInv'
  BY <1>1, <1>2, <1>3 DEF IInv, ReceiveInv, ResponseReassembled, Before
<1> QED  BY <1>5, <1>6, <1>7 DEF IInv

\* The structure is freed; the socket may stay open, and then it is told how.
LEMMA DisposalHolds ==
  ASSUME IInv, Called, http_client_dispose,
         \/ client.state = "dispose" /\ UNCHANGED <<events, told>>
         \/ Report("TIMEOUT", 0)
  PROVE  IInv'
<1>1. /\ client.alloc /\ main = "loop" /\ ~ crashed /\ client \in ClientRecord
  BY CalledIs, Typed DEF IInv
<1>2. /\ client' \in ClientRecord /\ ~ client'.alloc /\ ~ client'.task
      /\ ~ client'.tcp_conn /\ client'.state = "init" /\ ~ client'.write_buffer
      /\ client'.body = NULL
  BY <1>1, NoClientTyped DEF http_client_dispose, NoClient, ClientRecord
<1>3. UNCHANGED <<main, crashed, fd, net, response, written, taken, served, received>>
  BY DEF http_client_dispose, netVars
<1>4. TypeOK'
  BY <1>2, <1>3, TypesKept DEF IInv, TypeOK, Report, Reports
<1>5. MainInv' /\ EventsInv' /\ SendInv'
  BY <1>1, <1>2, <1>3 DEF MainInv, EventsInv, SendInv, RequestGoesFirst
<1>6. SocketInv'
  <2>1. ASSUME fd' = "open"
        PROVE  events' \in {<<"ERROR">>, <<"TIMEOUT">>, <<"ERROR", "TIMEOUT">>,
                            <<"RESPONSE", "TIMEOUT">>}
    <3>1. client.tcp_conn
      BY <1>1, <1>3, <2>1 DEF IInv, SocketInv, SocketAccounted
    <3>2. events \in {<< >>, <<"RESPONSE">>, <<"ERROR">>}
      BY <1>1, <3>1 DEF IInv, EventsInv, ClientRecord, States, Before
    <3>3. CASE client.state = "dispose" /\ UNCHANGED events
      BY <1>1, <3>1, <3>3 DEF IInv, EventsInv
    <3>4. CASE Report("TIMEOUT", 0)
      <4>1. events' = Append(events, "TIMEOUT")
        BY <3>4 DEF Report
      <4>2. CASE events = << >>
        BY <4>1, <4>2
      <4>3. CASE events \in {<<"RESPONSE">>, <<"ERROR">>}
        BY <4>1, <4>3, TwoReports DEF Reports
      <4> QED  BY <3>2, <4>2, <4>3
    <3> QED  BY <3>3, <3>4
  <2> QED  BY <1>2, <2>1 DEF SocketInv, SocketAccounted
<1>7. ReceiveInv'
  BY <1>1, <1>2, <1>3 DEF IInv, ReceiveInv, ResponseReassembled
<1> QED  BY <1>4, <1>5, <1>6, <1>7 DEF IInv

LEMMA WorkHolds == ASSUME IInv, http_client_work PROVE IInv'
<1>1. CASE TimesOut
  BY <1>1, DisposalHolds DEF TimesOut
<1>2. CASE /\ Called
           /\ LET k == Started(client) IN
                \/ http_client_work_init(k)    \/ http_client_work_connect(k)
                \/ http_client_work_connecting(k)
                \/ http_client_work_writing(k) \/ http_client_work_reading(k)
                \/ http_client_work_done(k)    \/ work_dispose(k)
  <2> DEFINE k == Started(client)
  <2>1. Called /\ Same(k)
    BY <1>2, StartedIsSame DEF IInv
  <2>2. k.state = client.state
    BY <2>1 DEF Same
  <2> HIDE DEF k
  <2>3. CASE http_client_work_init(k)
    BY <2>1, <2>3, InitStateHolds
  <2>4. CASE http_client_work_connect(k)
    BY <2>1, <2>4, ConnectStateHolds
  <2>5. CASE http_client_work_connecting(k)
    BY <2>1, <2>5, ConnectingStateHolds
  <2>6. CASE http_client_work_writing(k)
    BY <2>1, <2>6, WritingStateHolds
  <2>7. CASE http_client_work_reading(k)
    BY <2>1, <2>7, ReadingStateHolds
  <2>8. CASE http_client_work_done(k)
    BY <2>1, <2>8, DoneStateHolds
  <2>9. CASE work_dispose(k)
    BY <2>1, <2>2, <2>9, DisposalHolds DEF work_dispose
  <2> QED  BY <1>2, <2>3, <2>4, <2>5, <2>6, <2>7, <2>8, <2>9 DEF k
<1> QED  BY <1>1, <1>2 DEF http_client_work

LEMMA GetHolds == ASSUME IInv, http_client_get PROVE IInv'
<1>1. /\ main = "start" /\ client = NoClient /\ events = << >> /\ ~ crashed
      /\ fd = "none" /\ net = "none" /\ written = 0 /\ received = 0
      /\ UNCHANGED <<events, told, crashed, netVars>> /\ main' \in {"exit", "loop"}
      /\ client \in ClientRecord /\ received <= served
  BY Typed DEF http_client_get, IInv, MainInv, ReceiveInv
<1>2. CASE main' = "exit" /\ client' = client
  BY <1>1, <1>2
     DEF IInv, TypeOK, MainInv, EventsInv, SocketInv, SocketAccounted, SendInv,
         RequestGoesFirst, ReceiveInv, ResponseReassembled, Before, netVars
<1>3. ASSUME main' = "loop", NEW t \in BOOLEAN,
             client' = [NoClient EXCEPT !.alloc = TRUE, !.task = t]
      PROVE  IInv'
  <2>1. /\ client' \in ClientRecord /\ client'.state = "init" /\ client'.alloc
        /\ ~ client'.tcp_conn /\ ~ client'.write_buffer /\ client'.write_offset = 0
        /\ client'.read_buffer_size = 0 /\ client'.body_start = 0 /\ ~ client'.garbled
        /\ client'.body = NULL
    BY <1>3, NoClientTyped DEF NoClient, ClientRecord
  <2>2. TypeOK'
    BY <1>1, <1>3, <2>1 DEF IInv, TypeOK, ClientRecord, netVars
  <2>3. MainInv' /\ EventsInv' /\ SocketInv' /\ SendInv'
    BY <1>1, <1>3, <2>1
       DEF MainInv, EventsInv, SocketInv, SocketAccounted, SendInv, RequestGoesFirst,
           Before, netVars
  <2>4. ReceiveInv'
    BY <1>1, <2>1 DEF ReceiveInv, ResponseReassembled, Before, netVars
  <2> QED  BY <2>2, <2>3, <2>4 DEF IInv
<1> QED  BY <1>1, <1>2, <1>3 DEF http_client_get

LEMMA TickHolds == ASSUME IInv, Tick PROVE IInv'
<1>1. client \in ClientRecord
  BY Typed DEF IInv
<1>2. main = "loop"
  BY DEF IInv, MainInv, Tick, NoClient
<1>3. /\ client.age \in Nat /\ client' = [client EXCEPT !.age = client.age + 1]
      /\ UNCHANGED <<main, events, told, crashed, fd, net, response, written, taken, served,
                     received>>
  BY <1>1 DEF Tick, ClientRecord, netVars
<1>4. /\ client' \in ClientRecord /\ client'.alloc = client.alloc
      /\ client'.task = client.task /\ client'.state = client.state
      /\ client'.write_buffer = client.write_buffer
      /\ client'.write_offset = client.write_offset
      /\ client'.read_buffer_size = client.read_buffer_size
      /\ client'.body_start = client.body_start /\ client'.content_len = client.content_len
      /\ client'.body = client.body /\ client'.tcp_conn = client.tcp_conn
      /\ client'.garbled = client.garbled
  BY <1>1, <1>3 DEF ClientRecord
<1>5. TypeOK'
  BY <1>3, <1>4, TypesKept DEF IInv, TypeOK
<1>6. MainInv' /\ EventsInv' /\ SocketInv' /\ SendInv'
  BY <1>2, <1>3, <1>4
     DEF IInv, MainInv, EventsInv, SocketInv, SocketAccounted, SendInv, RequestGoesFirst
<1>7. ReceiveInv'
  BY <1>3, <1>4 DEF IInv, ReceiveInv, ResponseReassembled, BodyWithin
<1> QED  BY <1>5, <1>6, <1>7 DEF IInv

LEMMA NetworkHolds == ASSUME IInv, Network PROVE IInv'
<1>1. /\ UNCHANGED <<main, client, events, told, crashed, fd, response, written, received>>
      /\ net' \in {"none", "connecting", "open", "failed", "ended", "reset"}
      /\ taken' \in Nat /\ served' \in Nat /\ served <= served'
      /\ main # "loop" => net' = net
  <2>1. written \in Nat /\ taken \in Nat /\ served \in Nat
    BY Typed DEF IInv
  <2>2. main # "loop" => fd = "none" /\ net = "none"
    BY DEF IInv, MainInv
  <2>3. net \in {"none", "connecting", "open", "failed", "ended", "reset"}
    BY DEF IInv, TypeOK
  <2>4. CASE \/ NetMoves({"connecting"}, "open") \/ NetMoves({"connecting"}, "failed")
             \/ NetMoves({"open"}, "ended")      \/ NetMoves({"open", "ended"}, "reset")
    BY <2>1, <2>2, <2>4 DEF NetMoves, Network
  <2>5. CASE ServerReads
    BY <2>1, <2>3, <2>5 DEF ServerReads, Network
  <2>6. CASE ServerSends
    <3>1. PICK n \in Segments : served' = served + n
      BY <2>6 DEF ServerSends
    <3>2. n \in Nat
      BY ClientAssumption
    <3> QED  BY <2>1, <2>3, <2>6, <3>1, <3>2 DEF ServerSends, Network
  <2> QED  BY <2>4, <2>5, <2>6 DEF Network
<1>2. TypeOK'
  BY <1>1 DEF IInv, TypeOK
<1>3. MainInv' /\ EventsInv' /\ SocketInv' /\ SendInv'
  BY <1>1
     DEF IInv, MainInv, EventsInv, SocketInv, SocketAccounted, SendInv, RequestGoesFirst
<1>4. ReceiveInv'
  <2>1. received <= served /\ received \in Nat /\ served \in Nat
    BY Typed DEF IInv, ReceiveInv
  <2> QED  BY <1>1, <2>1 DEF IInv, ReceiveInv, ResponseReassembled, BodyWithin
<1> QED  BY <1>2, <1>3, <1>4 DEF IInv

LEMMA StutterHolds == ASSUME IInv, UNCHANGED vars PROVE IInv'
<1> QED  BY DEF IInv, TypeOK, MainInv, EventsInv, SocketInv, SocketAccounted, SendInv,
                RequestGoesFirst, ReceiveInv, ResponseReassembled, BodyWithin, vars, netVars

THEOREM HttpClientInductive == Spec => []IInv
<1>1. IInv /\ [Next]_vars => IInv'
  BY WorkHolds, GetHolds, TickHolds, NetworkHolds, StutterHolds DEF Next
<1> QED  BY InitHolds, <1>1, PTL DEF Spec

(***************************************************************************)
(* The fields of the client are of their types in every reachable state of  *)
(* http_client_work and its handlers.                                       *)
(***************************************************************************)
THEOREM HttpClientTypeCorrect == Spec => []TypeOK
<1>1. IInv => TypeOK
  BY DEF IInv
<1> QED  BY <1>1, HttpClientInductive, PTL

(***************************************************************************)
(* The socket is open while the client points to it, and stays open only    *)
(* after an ERROR before any response and after a TIMEOUT, the two ways to  *)
(* http_client_dispose that pass by the close in http_client_work_done.     *)
(***************************************************************************)
THEOREM SocketIsAccounted == Spec => []SocketAccounted
<1>1. IInv => SocketAccounted
  BY DEF IInv, SocketInv
<1> QED  BY <1>1, HttpClientInductive, PTL

(***************************************************************************)
(* http_client_work_writing counts every byte that send takes, and reading  *)
(* begins with the last of them, for any request and any socket buffer.     *)
(***************************************************************************)
THEOREM RequestIsSent == Spec => []RequestGoesFirst
<1>1. IInv => RequestGoesFirst
  BY DEF IInv, SendInv
<1> QED  BY <1>1, HttpClientInductive, PTL

(***************************************************************************)
(* http_client_work_reading counts every byte it takes, for any segments    *)
(* and any size of chunk, and finds the body where it begins as long as the *)
(* first recv brought at least four bytes (garbled is false).               *)
(***************************************************************************)
THEOREM ResponseIsReassembled == Spec => []ResponseReassembled
<1>1. IInv => ResponseReassembled
  BY DEF IInv, ReceiveInv
<1> QED  BY <1>1, HttpClientInductive, PTL

-------------------------------------------------------------------------------
(* Where no segment and no chunk is shorter than four bytes. *)

WholeStart == /\ served = 0 \/ served >= 4
              /\ received = 0 \/ received >= 4
              /\ ~ crashed /\ ~ client.garbled

Spared == crashed' = crashed /\ client'.garbled = client.garbled

\* Only a recv that leaves fewer than four bytes in all may end the scan badly.
Takes == /\ served' = served
         /\ \/ received' = received /\ Spared
            \/ /\ Unread > 0 /\ received' = received + Min({CHUNK_SIZE, Unread})
               /\ received' >= 4 => Spared

LEMMA SparedBy ==
  ASSUME NEW b \in ClientRecord, b.garbled = client.garbled,
         Fails(b) \/ \E s : Moves(b, s)
  PROVE  Spared
  BY DEF Fails, Moves, ClientRecord, Spared

LEMMA ReadingTakes ==
  ASSUME IInv, Called, NEW k, Same(k), http_client_work_reading(k)
  PROVE  Takes
<1>1. /\ k \in ClientRecord /\ k.garbled = client.garbled
      /\ k.read_buffer_size = received
  BY CalledIs DEF Same, http_client_work_reading, IInv, ReceiveInv, ResponseReassembled
<1>2. received \in Nat /\ served \in Nat /\ received <= served /\ CHUNK_SIZE \in Nat
  BY Typed DEF IInv, ReceiveInv
<1>3. CASE (Fails(k) \/ Moves(k, "reading")) /\ UNCHANGED netVars
  BY <1>1, <1>3, SparedBy DEF netVars, Takes
<1>4. ASSUME Unread > 0, NEW n, n = Min({CHUNK_SIZE, Unread}), received' = received + n,
             served' = served,
             \/ Fails(k)
             \/ Process([k EXCEPT !.read_buffer_size = @ + n])
      PROVE  Takes
  <2> DEFINE r == [k EXCEPT !.read_buffer_size = @ + n]
  <2>1. n \in Nat /\ received' \in Nat
    <3>1. Unread \in Nat
      BY <1>2 DEF Unread
    <3>2. n \in {CHUNK_SIZE, Unread}
      BY <1>2, <1>4, <3>1, MinOfTwo
    <3> QED  BY <1>2, <1>4, <3>1, <3>2
  <2>2. r \in ClientRecord /\ r.garbled = client.garbled /\ r.read_buffer_size = received'
    BY <1>1, <1>2, <1>4, <2>1 DEF ClientRecord
  <2> HIDE DEF r
  <2>3. CASE Fails(k) \/ Fails(r)
    BY <1>1, <1>4, <2>2, <2>3, SparedBy DEF Takes
  <2>4. CASE ScanRunsAway(r)
    BY <1>4, <2>1, <2>2, <2>4 DEF ScanRunsAway, Takes
  <2>5. ASSUME ~ ScanRunsAway(r), NEW p \in Scanned(r), Respond(p) \/ Moves(p, "reading")
        PROVE  Takes
    <3>1. p \in {r, HeadersParsed(r)}
      BY <2>5 DEF Scanned
    <3>2. p.garbled = client.garbled
      BY <2>2, <3>1 DEF HeadersParsed, ClientRecord
    <3>3. HeadersParsed(r) \in ClientRecord
      BY <2>2, Typed DEF HeadersParsed, ClientRecord, IInv
    <3>4. client'.garbled = p.garbled /\ crashed' = crashed
      BY <2>2, <2>5, <3>1, <3>3 DEF Respond, Moves, ClientRecord
    <3> QED  BY <1>4, <3>2, <3>4 DEF Takes, Spared
  <2> QED  BY <1>4, <2>3, <2>4, <2>5 DEF Process, r
<1> QED  BY <1>3, <1>4 DEF http_client_work_reading

LEMMA WorkTakes == ASSUME IInv, http_client_work PROVE Takes
<1>1. CASE http_client_dispose
  BY <1>1 DEF http_client_dispose, NoClient, netVars, Takes, Spared
<1>2. CASE /\ Called
           /\ LET k == Started(client) IN
                \/ http_client_work_init(k)    \/ http_client_work_connect(k)
                \/ http_client_work_connecting(k)
                \/ http_client_work_writing(k) \/ http_client_work_reading(k)
                \/ http_client_work_done(k)    \/ work_dispose(k)
  <2> DEFINE k == Started(client)
             b == IF k.write_buffer THEN k
                  ELSE [k EXCEPT !.write_buffer = TRUE, !.write_offset = 0]
  <2>1. Same(k) /\ k \in ClientRecord /\ k.garbled = client.garbled
    BY StartedIsSame DEF IInv, Same
  <2> HIDE DEF k
  <2>2. CASE \/ http_client_work_init(k) \/ http_client_work_connecting(k)
    BY <2>1, <2>2, SparedBy
       DEF http_client_work_init, http_client_work_connecting, netVars, Takes
  <2>3. CASE http_client_work_connect(k)
    <3>1. [k EXCEPT !.tcp_conn = TRUE] \in ClientRecord
          /\ [k EXCEPT !.tcp_conn = TRUE].garbled = client.garbled
      BY <2>1 DEF ClientRecord
    <3> QED  BY <2>1, <2>3, <3>1, SparedBy
             DEF http_client_work_connect, tcp_client_connect, netVars, Takes
  <2>4. CASE http_client_work_writing(k)
    <3>1. Fails(k) \/ Fails(b) \/ Moves(b, "writing")
          \/ \E n : Written([b EXCEPT !.write_offset = @ + n])
      BY <2>4 DEF http_client_work_writing
    <3>2. Spared
      BY <2>1, <3>1 DEF Fails, Moves, Written, Spared, ClientRecord
    <3> QED  BY <2>4, <3>2 DEF http_client_work_writing, netVars, Takes
  <2>5. CASE http_client_work_reading(k)
    BY <1>2, <2>1, <2>5, ReadingTakes
  <2>6. CASE http_client_work_done(k)
    BY <2>1, <2>6 DEF http_client_work_done, Released, ClientRecord, Takes, Spared
  <2>7. CASE work_dispose(k)
    BY <1>1, <2>7 DEF work_dispose
  <2> QED  BY <1>2, <2>2, <2>3, <2>4, <2>5, <2>6, <2>7 DEF k
<1> QED  BY <1>1, <1>2 DEF http_client_work, TimesOut

LEMMA WholeStartKept ==
  ASSUME \A n \in Segments : n >= 4, CHUNK_SIZE >= 4,
         IInv, WholeStart, [Next]_vars
  PROVE  WholeStart'
<1>1. /\ received \in Nat /\ served \in Nat /\ received <= served
      /\ CHUNK_SIZE \in Nat /\ client \in ClientRecord
  BY Typed DEF IInv, ReceiveInv
<1>2. CASE http_client_get
  <2>1. client = NoClient /\ UNCHANGED <<crashed, served, received>>
    BY <1>2 DEF http_client_get, IInv, MainInv, netVars
  <2>2. ~ client'.garbled
    BY <1>2, <2>1, NoClientTyped DEF http_client_get, NoClient, ClientRecord
  <2> QED  BY <2>1, <2>2 DEF WholeStart
<1>3. CASE http_client_work
  <2>1. Takes
    BY <1>3, WorkTakes
  <2>2. CASE received' = received
    BY <1>1, <2>1, <2>2, MinOfTwo DEF Takes, Spared, WholeStart, Unread
  <2>3. CASE received' # received
    <3>1. /\ Unread \in Nat /\ Unread > 0 /\ Unread = served - received
          /\ received' = received + Min({CHUNK_SIZE, Unread})
          /\ Min({CHUNK_SIZE, Unread}) \in {CHUNK_SIZE, Unread}
      BY <1>1, <2>1, <2>3, MinOfTwo DEF Takes, Unread
    <3>2. received' >= 4
      BY <1>1, <3>1 DEF WholeStart
    <3> QED  BY <2>1, <2>3, <3>2 DEF Takes, Spared, WholeStart
  <2> QED  BY <2>2, <2>3
<1>4. CASE Tick
  BY <1>1, <1>4 DEF Tick, ClientRecord, netVars, WholeStart
<1>5. CASE Network
  <2>1. UNCHANGED <<client, crashed, received>> /\ (served' = 0 \/ served' >= 4)
    <3>1. CASE ServerSends
      <4>1. PICK n \in Segments : served' = served + n
        BY <3>1 DEF ServerSends
      <4>2. n \in Nat /\ n >= 4
        BY ClientAssumption
      <4> QED  BY <1>1, <1>5, <3>1, <4>1, <4>2 DEF ServerSends, Network
    <3>2. CASE ~ ServerSends
      BY <1>5, <3>2 DEF Network, NetMoves, ServerReads, WholeStart
    <3> QED  BY <3>1, <3>2
  <2> QED  BY <2>1 DEF WholeStart
<1>6. CASE UNCHANGED vars
  BY <1>6 DEF vars, netVars, WholeStart
<1> QED  BY <1>2, <1>3, <1>4, <1>5, <1>6 DEF Next

\* ResponseReassembled without its exemption.
ReassembledInFull ==
  client.state \in {"reading", "done"} =>
    /\ client.read_buffer_size = received
    /\ client.body_start \in {0, response.header}
    /\ client.body_start > 0 <=> received >= response.header

(***************************************************************************)
(* Short segments are all that http_client_work_reading's scan is exposed   *)
(* to: where none is under four bytes, and the chunks are no smaller, the   *)
(* client never runs past its buffer, never dies there, and puts every      *)
(* response together.                                                       *)
(***************************************************************************)
THEOREM WholeSegmentsAreSafe ==
  ASSUME \A n \in Segments : n >= 4, CHUNK_SIZE >= 4
  PROVE  Spec => [](~ crashed /\ ~ client.garbled /\ ReassembledInFull)
<1>1. Init => WholeStart
  BY DEF Init, NoClient, WholeStart
<1>2. IInv /\ WholeStart /\ [Next]_vars => WholeStart'
  BY WholeStartKept
<1>3. IInv /\ WholeStart => ~ crashed /\ ~ client.garbled /\ ReassembledInFull
  BY DEF IInv, ReceiveInv, ResponseReassembled, WholeStart, ReassembledInFull
<1> QED  BY <1>1, <1>2, <1>3, HttpClientInductive, PTL DEF Spec

-------------------------------------------------------------------------------
(* What a step does to the events. *)

Quiet == UNCHANGED events /\ client'.alloc = client.alloc

Failing == /\ client.alloc /\ client'.alloc
           /\ events = << >> /\ events' = <<"ERROR">>

Answering == /\ client.alloc /\ client'.alloc
             /\ events = << >> /\ events' = <<"RESPONSE">>
             /\ client.state = "reading" /\ client'.state = "done"

Judging == /\ client.alloc /\ client'.alloc
           /\ client.state = "done" /\ events = <<"RESPONSE">>
           /\ events' \in {<<"RESPONSE", "RESPONSE">>, <<"RESPONSE", "ERROR">>}
           /\ events' = <<"RESPONSE", "RESPONSE">> => told' = Bytes(client.body)
           /\ events' = <<"RESPONSE", "ERROR">>
                => told' = Min({Bytes(client.body), ErrorRoom})
           /\ received' = received /\ client'.garbled = client.garbled

Closing == /\ client.alloc /\ ~ client'.alloc
           /\ received' = received /\ client'.garbled = client.garbled
           /\ \/ client.state = "dispose" /\ UNCHANGED events
              \/ Report("TIMEOUT", 0)

\* The response arrives, and what is garbled stays so.
Grows == /\ main' = main /\ response' = response
         /\ received' \in Nat /\ received' >= received
         /\ client.garbled => client'.garbled

StepKind == Grows /\ (Quiet \/ Failing \/ Answering \/ Judging \/ Closing)

LEMMA FailingIs ==
  ASSUME IInv, Called, NEW b \in ClientRecord, Fails(b), b.alloc,
         b.garbled = client.garbled, client.state \in Before \cup {"reading"},
         response' = response, received' \in Nat, received' >= received
  PROVE  StepKind
<1>1. client.alloc /\ events = << >>
  BY CalledIs DEF IInv, EventsInv
<1>2. events' = <<"ERROR">>
  BY <1>1 DEF Fails, Report
<1>3. client'.alloc /\ client'.garbled = client.garbled /\ main' = main
  BY DEF Fails, ClientRecord
<1> QED  BY <1>1, <1>2, <1>3 DEF StepKind, Failing, Grows

LEMMA MovingIs ==
  ASSUME IInv, Called, NEW b \in ClientRecord, NEW s, Moves(b, s), b.alloc,
         client.garbled => b.garbled,
         response' = response, received' \in Nat, received' >= received
  PROVE  StepKind
<1>1. client.alloc
  BY CalledIs
<1>2. client'.alloc /\ client'.garbled = b.garbled /\ main' = main /\ events' = events
  BY DEF Moves, ClientRecord
<1>3. client.alloc = client'.alloc
  BY <1>1, <1>2, Typed DEF IInv, Moves, ClientRecord
<1> QED  BY <1>1, <1>2, <1>3 DEF StepKind, Quiet, Grows

LEMMA ScannedStaysGarbled ==
  ASSUME NEW r \in ClientRecord, NEW p \in Scanned(r)
  PROVE  r.garbled => p.garbled
<1>1. CASE ScanRunsAway(r)
  <2>1. p \in Garbled(r)
    BY <1>1 DEF Scanned, HeadersEnd
  <2>2. PICK start, len, status \in Nat :
          p = [r EXCEPT !.garbled = TRUE, !.body_start = start,
                        !.content_len = len, !.status_code = status]
    BY <2>1, GarbledIs
  <2> QED  BY <2>2 DEF ClientRecord
<1>2. CASE HeadersEnd(r)
  BY <1>2 DEF HeadersEnd, Scanned, HeadersParsed, ClientRecord
<1>3. CASE ~ ScanRunsAway(r) /\ ~ HeadersEnd(r)
  BY <1>3 DEF Scanned
<1> QED  BY <1>1, <1>2, <1>3

LEMMA ReadingIs ==
  ASSUME IInv, Called, NEW k, Same(k), http_client_work_reading(k)
  PROVE  StepKind
<1>1. /\ k \in ClientRecord /\ k.alloc /\ client.alloc /\ client.state = "reading"
      /\ k.garbled = client.garbled /\ response' = response /\ main = "loop"
  BY CalledIs DEF Same, http_client_work_reading, netVars
<1>2. /\ received \in Nat /\ served \in Nat /\ received <= served /\ CHUNK_SIZE \in Nat
      /\ events = << >>
  BY <1>1, Typed DEF IInv, ReceiveInv, EventsInv
<1>3. CASE (Fails(k) \/ Moves(k, "reading")) /\ UNCHANGED netVars
  BY <1>1, <1>2, <1>3, FailingIs, MovingIs DEF netVars
<1>4. ASSUME Unread > 0, NEW n, n = Min({CHUNK_SIZE, Unread}), received' = received + n,
             \/ Fails(k)
             \/ Process([k EXCEPT !.read_buffer_size = @ + n])
      PROVE  StepKind
  <2>1. n \in Nat /\ received' \in Nat /\ received' >= received
    <3>1. Unread \in Nat
      BY <1>2 DEF Unread
    <3>2. n \in {CHUNK_SIZE, Unread}
      BY <1>2, <1>4, <3>1, MinOfTwo
    <3> QED  BY <1>2, <1>4, <3>1, <3>2
  <2> DEFINE r == [k EXCEPT !.read_buffer_size = @ + n]
  <2>0. ASSUME NEW p \in Scanned(r)
        PROVE  p \in ClientRecord /\ p.alloc
    BY <1>1, <1>4, <2>0, <2>1, ScannedKnows
  <2>3. r \in ClientRecord /\ r.alloc /\ r.garbled = client.garbled
    BY <1>1, <2>1 DEF ClientRecord
  <2>2. ASSUME NEW p \in Scanned(r)
        PROVE  p \in ClientRecord /\ p.alloc /\ (client.garbled => p.garbled)
    <3>1. p \in ClientRecord /\ p.alloc
      BY <2>0, <2>2
    <3> HIDE DEF r
    <3> QED  BY <2>2, <2>3, <3>1, ScannedStaysGarbled
  <2> HIDE DEF r
  <2>4. CASE Fails(k) \/ Fails(r)
    BY <1>1, <2>1, <2>3, <2>4, FailingIs
  <2>5. CASE Crash
    BY <1>1, <2>1, <2>5 DEF Crash, StepKind, Quiet, Grows
  <2>6. ASSUME NEW p \in Scanned(r), Moves(p, "reading")
        PROVE  StepKind
    BY <1>1, <2>1, <2>2, <2>6, MovingIs
  <2>7. ASSUME NEW p \in Scanned(r), Respond(p)
        PROVE  StepKind
    <3>1. PICK b : /\ client' = [p EXCEPT !.state = "done", !.body = b]
                   /\ Report("RESPONSE", Min({Bytes(b), ResponseRoom}))
                   /\ UNCHANGED <<main, crashed>>
      BY <2>7 DEF Respond
    <3>2. client'.state = "done" /\ client'.alloc /\ client'.garbled = p.garbled
      BY <2>2, <3>1 DEF ClientRecord
    <3>3. events' = <<"RESPONSE">> /\ main' = main
      BY <1>2, <3>1 DEF Report
    <3> QED  BY <1>1, <1>2, <2>1, <2>2, <3>2, <3>3 DEF StepKind, Answering, Grows
  <2> QED  BY <1>4, <2>4, <2>5, <2>6, <2>7 DEF Process, r
<1> QED  BY <1>3, <1>4 DEF http_client_work_reading

LEMMA WorkIs == ASSUME IInv, http_client_work PROVE StepKind
<1>1. /\ Called /\ client.alloc /\ main = "loop" /\ client \in ClientRecord
      /\ received \in Nat /\ received >= received
  BY CalledIs, Typed DEF http_client_work, TimesOut, IInv
<1>2. CASE /\ http_client_dispose
           /\ \/ client.state = "dispose" /\ UNCHANGED <<events, told>>
              \/ Report("TIMEOUT", 0)
  <2>1. ~ client'.alloc /\ client'.garbled = client.garbled
    BY <1>2 DEF http_client_dispose, NoClient
  <2>2. UNCHANGED <<main, response, received>>
    BY <1>2 DEF http_client_dispose, netVars
  <2> QED  BY <1>1, <1>2, <2>1, <2>2 DEF StepKind, Closing, Grows
<1>3. CASE LET k == Started(client) IN
             \/ http_client_work_init(k)    \/ http_client_work_connect(k)
             \/ http_client_work_connecting(k)
             \/ http_client_work_writing(k) \/ http_client_work_reading(k)
             \/ http_client_work_done(k)    \/ work_dispose(k)
  <2> DEFINE k == Started(client)
  <2>1. Same(k)
    BY StartedIsSame DEF IInv
  <2>2. k \in ClientRecord /\ k.alloc /\ k.state = client.state /\ k.garbled = client.garbled
    BY <1>1, <2>1 DEF Same
  <2> HIDE DEF k
  <2>3. CASE http_client_work_init(k)
    <3>1. client.state \in Before /\ UNCHANGED <<response, received>>
      BY <2>2, <2>3 DEF http_client_work_init, Before, netVars
    <3> QED  BY <1>1, <2>2, <2>3, <3>1, FailingIs, MovingIs DEF http_client_work_init
  <2>4. CASE http_client_work_connect(k)
    <3>1. client.state \in Before /\ UNCHANGED <<response, received>>
      BY <2>2, <2>4 DEF http_client_work_connect, Before, tcp_client_connect, netVars
    <3>2. /\ [k EXCEPT !.tcp_conn = TRUE] \in ClientRecord
          /\ [k EXCEPT !.tcp_conn = TRUE].alloc
          /\ [k EXCEPT !.tcp_conn = TRUE].garbled = client.garbled
      BY <2>2 DEF ClientRecord
    <3> QED  BY <1>1, <2>2, <2>4, <3>1, <3>2, FailingIs, MovingIs
                DEF http_client_work_connect
  <2>5. CASE http_client_work_connecting(k)
    <3>1. client.state \in Before /\ UNCHANGED <<response, received>>
      BY <2>2, <2>5 DEF http_client_work_connecting, Before, netVars
    <3> QED  BY <1>1, <2>2, <2>5, <3>1, FailingIs, MovingIs DEF http_client_work_connecting
  <2>6. CASE http_client_work_writing(k)
    <3> DEFINE b == IF k.write_buffer THEN k
                    ELSE [k EXCEPT !.write_buffer = TRUE, !.write_offset = 0]
    <3>1. client.state \in Before /\ UNCHANGED <<response, received>>
      BY <2>2, <2>6 DEF http_client_work_writing, Before, netVars
    <3>2. RequestSize \in Nat
      BY Typed DEF IInv
    <3>3. b \in ClientRecord /\ b.alloc /\ b.garbled = client.garbled
      <4>1. CASE k.write_buffer
        BY <2>2, <4>1
      <4>2. CASE ~ k.write_buffer
        <5>1. b = [k EXCEPT !.write_buffer = TRUE, !.write_offset = 0]
          BY <4>2
        <5>2. 0 \in 0 .. RequestSize
          BY <3>2
        <5> HIDE DEF b
        <5>3. b \in ClientRecord
          BY <2>2, <5>1, <5>2 DEF ClientRecord
        <5>4. b.alloc = k.alloc /\ b.garbled = k.garbled
          BY <2>2, <5>1 DEF ClientRecord
        <5> QED  BY <2>2, <5>3, <5>4
      <4> QED  BY <4>1, <4>2
    <3> HIDE DEF b
    <3>4. CASE Fails(k) \/ Fails(b)
      BY <1>1, <2>2, <3>1, <3>3, <3>4, FailingIs
    <3>5. CASE Moves(b, "writing")
      BY <1>1, <3>1, <3>3, <3>5, MovingIs
    <3>6. ASSUME NEW n \in Sendable(RequestSize - b.write_offset),
                 Written([b EXCEPT !.write_offset = @ + n])
          PROVE  StepKind
      <4> DEFINE w == [b EXCEPT !.write_offset = @ + n]
      <4>1. w \in ClientRecord /\ w.alloc /\ w.garbled = client.garbled
        <5>1. b.write_offset \in 0 .. RequestSize
          BY <3>3 DEF ClientRecord
        <5>2. b.write_offset + n \in 0 .. RequestSize
          BY <3>2, <5>1, SendableIs
        <5> QED  BY <3>3, <5>2 DEF ClientRecord
      <4>2. [w EXCEPT !.write_buffer = FALSE] \in ClientRecord
            /\ [w EXCEPT !.write_buffer = FALSE].alloc
            /\ [w EXCEPT !.write_buffer = FALSE].garbled = client.garbled
        <5> HIDE DEF w
        <5> QED  BY <4>1 DEF ClientRecord
      <4>3. \/ Moves(w, "writing")
            \/ Moves([w EXCEPT !.write_buffer = FALSE], "reading")
        BY <3>6 DEF Written
      <4> HIDE DEF w
      <4> QED  BY <1>1, <3>1, <4>1, <4>2, <4>3, MovingIs
    <3> QED  BY <2>6, <3>4, <3>5, <3>6 DEF http_client_work_writing, b
  <2>7. CASE http_client_work_reading(k)
    BY <1>1, <2>1, <2>7, ReadingIs
  <2>8. CASE http_client_work_done(k)
    <3>1. events = <<"RESPONSE">> /\ client.state = "done"
      BY <1>1, <2>2, <2>8 DEF http_client_work_done, IInv, EventsInv
    <3>2. client'.alloc /\ client'.garbled = client.garbled
      BY <2>2, <2>8 DEF http_client_work_done, Released, ClientRecord
    <3>3. k.body = client.body /\ UNCHANGED <<main, response, received>>
      BY <2>1, <2>8 DEF Same, http_client_work_done
    <3>4. \/ /\ events' = Append(events, "RESPONSE") /\ told' = Bytes(client.body)
          \/ /\ events' = Append(events, "ERROR")
             /\ told' = Min({Bytes(client.body), ErrorRoom})
      BY <2>8, <3>3 DEF http_client_work_done, Report
    <3>5. \/ /\ events' = <<"RESPONSE", "RESPONSE">> /\ told' = Bytes(client.body)
          \/ /\ events' = <<"RESPONSE", "ERROR">>
             /\ told' = Min({Bytes(client.body), ErrorRoom})
      BY <3>1, <3>4, TwoReports DEF Reports
    <3>6. <<"RESPONSE", "RESPONSE">> # <<"RESPONSE", "ERROR">>
      OBVIOUS
    <3> QED  BY <1>1, <3>1, <3>2, <3>3, <3>5, <3>6 DEF StepKind, Judging, Grows
  <2>9. CASE work_dispose(k)
    BY <1>2, <2>2, <2>9 DEF work_dispose
  <2> QED  BY <1>3, <2>3, <2>4, <2>5, <2>6, <2>7, <2>8, <2>9 DEF k
<1> QED  BY <1>2, <1>3 DEF http_client_work, TimesOut

\* What ReportsWhatArrived says of one step that reports something.
ReportFits ==
  events' # events /\ ~ client'.garbled =>
    /\ Last(events') = "RESPONSE"
         => received' >= response.header + response.announced
    /\ events' = <<"RESPONSE">> => told' \in BodyWithin(ResponseRoom)
    /\ events' = <<"RESPONSE", "RESPONSE">>
         => /\ told' \in BodyWithin(response.announced)
            /\ told = Min({told', ResponseRoom})
    /\ events' = <<"RESPONSE", "ERROR">>
         => told' \in BodyWithin(ErrorRoom)

\* A body that is whole or missing, cut to a room.
LEMMA CutIsWithin ==
  ASSUME IInv, NEW b \in Nat, b \in BodyWithin(response.announced), NEW room \in Nat
  PROVE  Min({b, room}) \in BodyWithin(room)
<1>1. response.announced \in Nat
  BY Typed DEF IInv
<1>2. Min({response.announced, response.announced}) = response.announced /\ Min({0, room}) = 0
  BY <1>1, MinOfTwo
<1> QED  BY <1>2 DEF BodyWithin

LEMMA DoneBodyIs ==
  ASSUME IInv, client.state = "done"
  PROVE  Bytes(client.body) \in Nat
<1>1. client.body \in Nat \cup {NULL}
  BY Typed DEF IInv, ClientRecord
<1> QED  BY <1>1 DEF Bytes

LEMMA ReportIsWhole ==
  ASSUME IInv, IInv', [Next]_vars
  PROVE  ReportFits
<1> SUFFICES ASSUME events' # events, ~ client'.garbled
             PROVE  ReportFits
  BY DEF ReportFits
<1>1. StepKind
  <2>1. http_client_work
    BY DEF Next, vars, http_client_get, Tick, Network
  <2> QED  BY <2>1, WorkIs
<1>2. ResponseRoom \in Nat /\ ErrorRoom \in Nat /\ response' = response
  BY <1>1, Typed DEF IInv, StepKind, Grows
<1>3. CASE Failing
  <2>1. /\ <<"ERROR">> # <<"RESPONSE">> /\ <<"ERROR">> # <<"RESPONSE", "RESPONSE">>
        /\ <<"ERROR">> # <<"RESPONSE", "ERROR">> /\ Last(<<"ERROR">>) = "ERROR"
    BY DEF Last
  <2> QED  BY <1>3, <2>1 DEF Failing, ReportFits
<1>4. CASE Answering
  <2>1. /\ events' = <<"RESPONSE">> /\ events' # <<"RESPONSE", "RESPONSE">>
        /\ events' # <<"RESPONSE", "ERROR">>
    BY <1>4 DEF Answering
  <2>2. /\ received' >= response.header + response.announced
        /\ Bytes(client'.body) \in BodyWithin(response.announced)
        /\ told' = Min({Bytes(client'.body), ResponseRoom})
    BY <1>2, <1>4 DEF Answering, IInv, ReceiveInv, BodyWithin
  <2>3. Bytes(client'.body) \in Nat
    <3>1. client'.body \in Nat \cup {NULL}
      BY DEF IInv, TypeOK
    <3> QED  BY <3>1 DEF Bytes
  <2>4. told' \in BodyWithin(ResponseRoom)
    BY <1>2, <2>2, <2>3, CutIsWithin
  <2> QED  BY <2>1, <2>2, <2>4 DEF ReportFits
<1>5. CASE Judging
  <2>1. /\ client.state = "done" /\ ~ client.garbled /\ received' = received
        /\ events' # <<"RESPONSE">>
    BY <1>5 DEF Judging
  <2>2. /\ received >= response.header + response.announced
        /\ Bytes(client.body) \in BodyWithin(response.announced)
        /\ told = Min({Bytes(client.body), ResponseRoom})
    BY <2>1 DEF IInv, ReceiveInv
  <2>3. Bytes(client.body) \in Nat
    BY <2>1, DoneBodyIs
  <2>4. Min({Bytes(client.body), ErrorRoom}) \in BodyWithin(ErrorRoom)
    BY <1>2, <2>2, <2>3, CutIsWithin
  <2> QED  BY <1>5, <2>1, <2>2, <2>4 DEF Judging, ReportFits
<1>6. CASE Closing
  <2>1. events' = Append(events, "TIMEOUT") /\ events \in Seq(Reports)
    BY <1>6 DEF Closing, Report, IInv, TypeOK, Reports
  <2>2. Last(events') = "TIMEOUT"
    BY <2>1, AppendProperties DEF Last, Reports
  <2>3. /\ Last(<<"RESPONSE">>) = "RESPONSE" /\ Last(<<"RESPONSE", "ERROR">>) = "ERROR"
        /\ Last(<<"RESPONSE", "RESPONSE">>) = "RESPONSE"
    BY DEF Last
  <2> QED  BY <2>2, <2>3 DEF ReportFits
<1> QED  BY <1>1, <1>3, <1>4, <1>5, <1>6 DEF StepKind, Quiet

(***************************************************************************)
(* A RESPONSE is reported by http_client_work_reading when all that the     *)
(* server announced has come, with what fits of it into response_info, and  *)
(* http_client_work_done gives the verdict with the same body, whole or cut *)
(* to error_info: for any segments, chunks and faults, and for every        *)
(* response whose first recv brings at least four bytes.                    *)
(***************************************************************************)
THEOREM ReportsHaveArrived == Spec => ReportsWhatArrived
<1>1. IInv /\ IInv' /\ [Next]_vars => ReportFits
  BY ReportIsWhole
<1>2. IInv /\ IInv' /\ [Next]_vars
      => [ events' # events /\ ~ client'.garbled =>
             /\ Last(events') = "RESPONSE"
                  => received' >= response.header + response.announced
             /\ events' = <<"RESPONSE">> => told' \in BodyWithin(ResponseRoom)
             /\ events' = <<"RESPONSE", "RESPONSE">>
                  => /\ told' \in BodyWithin(response.announced)
                     /\ told = Min({told', ResponseRoom})
             /\ events' = <<"RESPONSE", "ERROR">>
                  => told' \in BodyWithin(ErrorRoom) ]_vars
  BY <1>1 DEF ReportFits
<1> QED  BY <1>2, HttpClientInductive, PTL DEF Spec, ReportsWhatArrived

-------------------------------------------------------------------------------
(* The refinement: the stage and the wholeness that HttpExchange is given. *)

stage == CASE main # "loop" -> "unasked"
           [] client.alloc  -> "asking"
           [] OTHER         -> "over"

whole == client.garbled \/ received >= response.header + response.announced

LEMMA StageIs ==
  ASSUME MainInv, client.alloc \in BOOLEAN
  PROVE  /\ main # "loop" => stage = "unasked"
         /\ main = "loop" /\ client.alloc => stage = "asking"
         /\ main = "loop" /\ ~ client.alloc => stage = "over"
<1>1. main # "loop" => ~ client.alloc
  BY DEF MainInv, NoClient
<1> QED  BY <1>1 DEF stage

LEMMA InitRefines == Init => Exchange!Init
<1> SUFFICES ASSUME Init PROVE Exchange!Init
  OBVIOUS
<1>1. MainInv /\ client.alloc \in BOOLEAN
  BY InitHolds DEF IInv, Init, NoClient
<1>2. stage = "unasked"
  BY <1>1, StageIs DEF Init
<1>3. ~ whole
  <2>1. response.header \in Nat /\ response.header >= 4 /\ response.announced \in Nat
    BY InitHolds, Typed DEF IInv
  <2> QED  BY <2>1 DEF Init, NoClient, whole
<1> QED  BY <1>2, <1>3 DEF Init, Exchange!Init, stage, whole

LEMMA WholeGrows ==
  ASSUME IInv, response' = response, received' \in Nat, received' >= received,
         client.garbled => client'.garbled, whole
  PROVE  whole'
<1>1. response.header \in Nat /\ response.announced \in Nat /\ received \in Nat
  BY Typed DEF IInv
<1> QED  BY <1>1 DEF whole

\* Where nothing is reported and the stage stays, the response may have come.
LEMMA QuietRefines ==
  ASSUME events' = events, stage' = stage, whole => whole'
  PROVE  [Exchange!Next]_(Exchange!exchangeVars)
<1>1. CASE whole' = whole
  BY <1>1 DEF Exchange!exchangeVars, stage, whole
<1>2. CASE ~ whole /\ whole'
  BY <1>2 DEF Exchange!Next, Exchange!Arrive, stage, whole
<1> QED  BY <1>1, <1>2 DEF whole

LEMMA WorkRefines ==
  ASSUME IInv, IInv', http_client_work
  PROVE  [Exchange!Next]_(Exchange!exchangeVars)
<1>1. StepKind /\ main = "loop" /\ main' = "loop"
  BY WorkIs, CalledIs DEF StepKind, Grows, http_client_work, TimesOut
<1>2. client.alloc \in BOOLEAN /\ client'.alloc \in BOOLEAN
  <2>1. client \in ClientRecord /\ client' \in ClientRecord
    BY DEF IInv, TypeOK, ClientRecord
  <2> QED  BY <2>1 DEF ClientRecord
<1>3. /\ client.alloc => stage = "asking"
      /\ ~ client.alloc => stage = "over"
  BY <1>1, <1>2, StageIs DEF IInv
<1>4. /\ client'.alloc => stage' = "asking"
      /\ ~ client'.alloc => stage' = "over"
  BY <1>1, <1>2 DEF stage
<1>5. whole => whole'
  BY <1>1, WholeGrows DEF StepKind, Grows
<1>6. CASE Quiet
  <2>1. stage' = stage
    BY <1>2, <1>3, <1>4, <1>6 DEF Quiet
  <2> QED  BY <1>5, <1>6, <2>1, QuietRefines DEF Quiet
<1>7. CASE Failing
  <2>1. stage = "asking" /\ stage' = "asking" /\ events = << >> /\ events' = Append(events, "ERROR")
    BY <1>3, <1>4, <1>7 DEF Failing
  <2>2. whole' \in {whole, TRUE}
    BY <1>5 DEF whole
  <2> QED  BY <2>1, <2>2
           DEF Exchange!Next, Exchange!Fail, Exchange!Report, stage, whole
<1>8. CASE Answering
  <2>1. /\ stage = "asking" /\ stage' = "asking" /\ events = << >>
        /\ events' = Append(events, "RESPONSE")
    BY <1>3, <1>4, <1>8 DEF Answering
  <2>2. whole'
    BY <1>8 DEF Answering, IInv, ReceiveInv, whole
  <2> QED  BY <2>1, <2>2
           DEF Exchange!Next, Exchange!Answer, Exchange!Report, stage, whole
<1>9. CASE Judging
  <2>1. /\ stage = "asking" /\ stage' = "asking" /\ events = <<"RESPONSE">>
        /\ events' = Append(events, "RESPONSE") \/ events' = Append(events, "ERROR")
    <3>1. \A e \in Reports : Append(<<"RESPONSE">>, e) = <<"RESPONSE", e>>
      BY TwoReports DEF Reports
    <3> QED  BY <1>3, <1>4, <1>9, <3>1 DEF Judging, Reports
  <2>2. whole' = whole
    BY <1>1, <1>9 DEF Judging, StepKind, Grows, whole
  <2> QED  BY <2>1, <2>2
           DEF Exchange!Next, Exchange!Verdict, Exchange!Report, stage, whole
<1>10. CASE Closing
  <2>1. stage = "asking" /\ stage' = "over"
    BY <1>3, <1>4, <1>10 DEF Closing
  <2>2. whole' = whole
    BY <1>1, <1>10 DEF Closing, StepKind, Grows, whole
  <2>3. CASE client.state = "dispose" /\ UNCHANGED events
    <3>1. events \in {<<"ERROR">>, <<"RESPONSE", "RESPONSE">>, <<"RESPONSE", "ERROR">>}
      BY <1>10, <2>3 DEF Closing, IInv, EventsInv
    <3>2. events # << >> /\ events # <<"RESPONSE">>
      BY <3>1
    <3> QED  BY <2>1, <2>2, <2>3, <3>2 DEF Exchange!Next, Exchange!End, stage, whole
  <2>4. CASE Report("TIMEOUT", 0)
    BY <2>1, <2>2, <2>4
       DEF Report, Exchange!Next, Exchange!Expire, Exchange!Report, stage, whole
  <2> QED  BY <1>10, <2>3, <2>4 DEF Closing
<1> QED  BY <1>1, <1>6, <1>7, <1>8, <1>9, <1>10 DEF StepKind

LEMMA StepRefines ==
  ASSUME IInv, IInv', [Next]_vars
  PROVE  [Exchange!Next]_(Exchange!exchangeVars)
<1>1. client \in ClientRecord /\ client' \in ClientRecord /\ MainInv /\ MainInv'
  BY DEF IInv, TypeOK, ClientRecord
<1>2. client.alloc \in BOOLEAN /\ client'.alloc \in BOOLEAN
  BY <1>1 DEF ClientRecord
<1>3. CASE http_client_get
  <2>1. /\ main = "start" /\ client = NoClient /\ ~ client.garbled /\ received = 0
        /\ UNCHANGED <<events, told, crashed, netVars>>
    <3>1. main = "start" /\ UNCHANGED <<events, told, crashed, netVars>>
      BY <1>3 DEF http_client_get
    <3>2. client = NoClient /\ received = 0
      BY <1>1, <3>1 DEF MainInv
    <3> QED  BY <3>1, <3>2 DEF NoClient
  <2>2. stage = "unasked"
    BY <1>1, <1>2, <2>1, StageIs
  <2>3. ~ client'.garbled
    BY <1>3, <2>1, NoClientTyped DEF http_client_get, NoClient, ClientRecord
  <2>4. whole' = whole
    BY <2>1, <2>3 DEF whole, netVars
  <2>5. CASE main' = "exit"
    <3>1. stage' = "unasked"
      BY <1>1, <1>2, <2>5 DEF stage, MainInv, NoClient
    <3> QED  BY <2>1, <2>2, <2>4, <3>1, QuietRefines
  <2>6. CASE main' = "loop"
    <3>1. client'.alloc
      BY <1>3, <2>6, NoClientTyped DEF http_client_get, ClientRecord
    <3>2. stage' = "asking"
      BY <2>6, <3>1 DEF stage
    <3> QED  BY <2>1, <2>2, <2>4, <3>2 DEF Exchange!Next, Exchange!Ask, stage, whole
  <2> QED  BY <1>3, <2>5, <2>6 DEF http_client_get
<1>4. CASE http_client_work
  BY <1>4, WorkRefines
<1>5. CASE Tick
  <2>1. client'.alloc = client.alloc /\ client'.garbled = client.garbled
        /\ UNCHANGED <<main, events, response, received>>
    BY <1>1, <1>5 DEF Tick, ClientRecord, netVars
  <2> QED  BY <2>1, QuietRefines DEF stage, whole
<1>6. CASE Network \/ UNCHANGED vars
  <2>1. UNCHANGED <<main, client, events, response, received>>
    BY <1>6 DEF Network, NetMoves, ServerReads, ServerSends, vars, netVars
  <2> QED  BY <2>1, QuietRefines DEF stage, whole
<1> QED  BY <1>3, <1>4, <1>5, <1>6 DEF Next

(***************************************************************************)
(* http_client_get keeps the promise of HttpExchange to its callback: the   *)
(* order of the events, none after the end, and no end without one.         *)
(***************************************************************************)
THEOREM ExchangeRefined == Spec => ImplementsHttpExchange
<1>1. IInv /\ IInv' /\ [Next]_vars => [Exchange!Next]_(Exchange!exchangeVars)
  BY StepRefines
<1> QED  BY <1>1, InitRefines, HttpClientInductive, PTL
         DEF Spec, ImplementsHttpExchange, Exchange!Spec
===============================================================================
