------------------------------ MODULE TcpSockets ------------------------------
(***************************************************************************)
(* The operating system's side of the server's sockets, as far as           *)
(* tcp_server.c and tcp_client.c use it, and the clients at the other end.  *)
(* A connection is named by a member of Conn and used once.  Bytes are      *)
(* counted, not spelled out: a request is its length, where its headers     *)
(* end, and what its first line and Content-Length say.                     *)
(***************************************************************************)
EXTENDS Naturals, SequencesExt

CONSTANTS Conn,          \* the connections clients may open
          Patient,       \* the clients that never leave before the answer
          Requests,      \* what a client may ask
          Segments,      \* how many bytes a client sends at a time
          FirstSegment,  \* the least it sends at first
          Backlog,       \* MAX_CLIENTS, the length of the accept queue
          MaxFd,         \* how many connections can have a descriptor
          SendBuffer,    \* unread bytes a socket holds towards its client
          NULL

ASSUME TcpAssumption ==
  /\ NULL \notin Conn /\ NULL \notin Requests
  /\ Patient \subseteq Conn
  /\ Requests \subseteq [method : {"GET", "POST"}, path : STRING, header : Nat,
                         content_len : Nat, total : Nat]
  /\ \A r \in Requests : r.header >= 4 /\ r.total >= r.header + r.content_len
  /\ {FirstSegment, Backlog, MaxFd, SendBuffer} \subseteq Nat \ {0}
  /\ Segments \subseteq Nat \ {0}

VARIABLES peer,      \* "away", "open" or "left"
          request,   \* what the client of a connection asks
          sent,      \* bytes its client has sent
          recvd,     \* bytes the server has taken from the socket
          wrote,     \* bytes the server has put into the socket
          got,       \* bytes the client has read
          sock,      \* "none", "queued", "open", "closed" or "reset"
          backlog,   \* connections waiting in the accept queue
          fdtab      \* the socket behind each descriptor

peerVars == <<peer, request>>
tcpVars == <<peer, request, sent, recvd, wrote, got, sock, backlog, fdtab>>

Fd == 1 .. MaxFd
NoFd == 0          \* stands for -1

TcpTypeOK == /\ peer \in [Conn -> {"away", "open", "left"}]
             /\ request \in [Conn -> Requests \cup {NULL}]
             /\ sent \in [Conn -> Nat] /\ recvd \in [Conn -> Nat]
             /\ wrote \in [Conn -> Nat] /\ got \in [Conn -> Nat]
             /\ sock \in [Conn -> {"none", "queued", "open", "closed", "reset"}]
             /\ backlog \in Seq(Conn)
             /\ fdtab \in [Fd -> Conn \cup {NULL}]

TcpInit == /\ peer = [c \in Conn |-> "away"]
           /\ request = [c \in Conn |-> NULL]
           /\ sent = [c \in Conn |-> 0] /\ recvd = [c \in Conn |-> 0]
           /\ wrote = [c \in Conn |-> 0] /\ got = [c \in Conn |-> 0]
           /\ sock = [c \in Conn |-> "none"]
           /\ backlog = << >>
           /\ fdtab = [f \in Fd |-> NULL]

-------------------------------------------------------------------------------
(* The system calls of tcp_server.c and tcp_client.c *)

Unread(c) == sent[c] - recvd[c]
InFlight(c) == wrote[c] - got[c]

FreeFds == {f \in Fd : fdtab[f] = NULL}

\* The socket a descriptor stands for at this moment.
Socket(f) == IF f \in Fd THEN fdtab[f] ELSE NULL

\* accept() finds a connection and a descriptor, the lowest free one.
AcceptSucceeds == backlog # << >> /\ FreeFds # {}

AcceptedFd == CHOOSE f \in FreeFds : \A g \in FreeFds : f <= g

AcceptOpens == /\ AcceptSucceeds
               /\ backlog' = Tail(backlog)
               /\ sock' = [sock EXCEPT ![Head(backlog)] = "open"]
               /\ fdtab' = [fdtab EXCEPT ![AcceptedFd] = Head(backlog)]
               /\ UNCHANGED <<peer, request, sent, recvd, wrote, got>>

\* accept() and, because on_accept failed, close() in the same callback.
AcceptRefuses == /\ AcceptSucceeds
                 /\ backlog' = Tail(backlog)
                 /\ sock' = [sock EXCEPT ![Head(backlog)] = "reset"]
                 /\ UNCHANGED <<peer, request, sent, recvd, wrote, got, fdtab>>

\* recv() of n bytes from socket c.
Recv(c, n) == /\ recvd' = [recvd EXCEPT ![c] = @ + n]
              /\ UNCHANGED <<peer, request, sent, wrote, got, sock, backlog, fdtab>>

\* What send() of len bytes to socket c may take: 0 stands for EAGAIN.
Sendable(c, len) ==
  {n \in 0 .. len : n <= SendBuffer - InFlight(c) /\ (n = 0 <=> InFlight(c) = SendBuffer)}

Send(c, n) == /\ wrote' = [wrote EXCEPT ![c] = @ + n]
              /\ got' = IF peer[c] = "left" THEN [got EXCEPT ![c] = @ + n] ELSE got
              /\ UNCHANGED <<peer, request, sent, recvd, sock, backlog, fdtab>>

(***************************************************************************)
(* close(): with bytes left unread the kernel resets the connection, and    *)
(* what the client has not read yet may be lost.                            *)
(***************************************************************************)
Close(f) == LET c == Socket(f) IN
  /\ fdtab' = [fdtab EXCEPT ![f] = NULL]
  /\ sock' = [sock EXCEPT ![c] = IF Unread(c) > 0 THEN "reset" ELSE "closed"]
  /\ UNCHANGED <<peer, request, sent, recvd, wrote, got, backlog>>

-------------------------------------------------------------------------------
(* The clients *)

Connect(c) == /\ peer[c] = "away" /\ Len(backlog) < Backlog
              /\ \E r \in Requests : request' = [request EXCEPT ![c] = r]
              /\ peer' = [peer EXCEPT ![c] = "open"]
              /\ sock' = [sock EXCEPT ![c] = "queued"]
              /\ backlog' = Append(backlog, c)
              /\ UNCHANGED <<sent, recvd, wrote, got, fdtab>>

PeerSends(c) ==
  /\ peer[c] = "open" /\ sock[c] \in {"queued", "open"}
  /\ \E n \in Segments : /\ sent[c] + n <= request[c].total
                         /\ sent[c] = 0 => n >= FirstSegment
                         /\ sent' = [sent EXCEPT ![c] = @ + n]
  /\ UNCHANGED <<peer, request, recvd, wrote, got, sock, backlog, fdtab>>

PeerReads(c) == /\ peer[c] = "open" /\ InFlight(c) > 0
                /\ sock[c] \in {"open", "closed", "reset"}
                /\ got' = [got EXCEPT ![c] = wrote[c]]
                /\ UNCHANGED <<peer, request, sent, recvd, wrote, sock, backlog, fdtab>>

PeerLeaves(c) == /\ peer[c] = "open" /\ c \notin Patient
                 /\ peer' = [peer EXCEPT ![c] = "left"]
                 /\ got' = [got EXCEPT ![c] = wrote[c]]
                 /\ UNCHANGED <<request, sent, recvd, wrote, sock, backlog, fdtab>>

PeerStep(c) == Connect(c) \/ PeerSends(c) \/ PeerReads(c) \/ PeerLeaves(c)
===============================================================================
