------------------------------ MODULE HttpService -----------------------------
(***************************************************************************)
(* What the server promises its clients, one connection at a time: they are *)
(* taken in the order they arrive (or turned away), each is answered once   *)
(* and not before its request has been sent to the last byte, and its       *)
(* connection is closed only when the whole answer has been handed over or  *)
(* the client has gone.  WeatherServer implements this module.              *)
(***************************************************************************)
EXTENDS Sequences

CONSTANT Conn

VARIABLES phase,      \* "away", "waiting", "open", "answered", "closed", "refused"
          queue,      \* the connections that wait, in the order they came
          asked,      \* the whole request has been sent
          delivered,  \* the whole answer has been handed over
          gone        \* the client has left

serviceVars == <<phase, queue, asked, delivered, gone>>

Moves(c, from, to) == phase[c] = from /\ phase' = [phase EXCEPT ![c] = to]

Sets(f, g, c) == ~ f[c] /\ g = [f EXCEPT ![c] = TRUE]

Arrive(c) == /\ Moves(c, "away", "waiting")
             /\ queue' = Append(queue, c)
             /\ UNCHANGED <<asked, delivered, gone>>

Take(c) == /\ queue # << >> /\ c = Head(queue)
           /\ Moves(c, "waiting", "open") \/ Moves(c, "waiting", "refused")
           /\ queue' = Tail(queue)
           /\ UNCHANGED <<asked, delivered, gone>>

Ask(c) == /\ phase[c] \in {"waiting", "open"}
          /\ Sets(asked, asked', c)
          /\ UNCHANGED <<phase, queue, delivered, gone>>

Leave(c) == /\ phase[c] # "away"
            /\ Sets(gone, gone', c)
            /\ UNCHANGED <<phase, queue, asked, delivered>>

Answer(c) == /\ asked[c] /\ Moves(c, "open", "answered")
             /\ UNCHANGED <<queue, asked, delivered, gone>>

Deliver(c) == /\ phase[c] = "answered"
              /\ Sets(delivered, delivered', c)
              /\ UNCHANGED <<phase, queue, asked, gone>>

Close(c) == /\ delivered[c] \/ gone[c]
            /\ Moves(c, "answered", "closed")
            /\ UNCHANGED <<queue, asked, delivered, gone>>

Init == /\ phase = [c \in Conn |-> "away"]
        /\ queue = << >>
        /\ asked = [c \in Conn |-> FALSE]
        /\ delivered = [c \in Conn |-> FALSE]
        /\ gone = [c \in Conn |-> FALSE]

Next == \E c \in Conn : \/ Arrive(c) \/ Take(c) \/ Ask(c) \/ Leave(c)
                        \/ Answer(c) \/ Deliver(c) \/ Close(c)

Spec == Init /\ [][Next]_serviceVars
===============================================================================
