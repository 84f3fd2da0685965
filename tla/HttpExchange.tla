----------------------------- MODULE HttpExchange -----------------------------
(***************************************************************************)
(* What http_client_get promises through its callback: nothing before the   *)
(* request is made and nothing after a TIMEOUT; either one ERROR, or one    *)
(* RESPONSE when the whole response has arrived and then the verdict on its *)
(* status; a TIMEOUT at any moment; and never an end without a word.        *)
(* HttpClient implements this module.                                       *)
(***************************************************************************)
EXTENDS Sequences

VARIABLES stage,    \* "unasked", "asking" or "over"
          events,   \* the events reported so far
          whole     \* the whole response has arrived

exchangeVars == <<stage, events, whole>>

Init == stage = "unasked" /\ events = << >> /\ whole = FALSE

Report(e) == events' = Append(events, e)

Ask == /\ stage = "unasked" /\ stage' = "asking"
       /\ UNCHANGED <<events, whole>>

Arrive == /\ ~ whole /\ whole' = TRUE
          /\ UNCHANGED <<stage, events>>

\* A failure and an answer may come with the response's last byte.
Fail == /\ stage = "asking" /\ events = << >>
        /\ whole' \in {whole, TRUE} /\ Report("ERROR")
        /\ UNCHANGED stage

Answer == /\ stage = "asking" /\ events = << >>
          /\ whole' /\ Report("RESPONSE")
          /\ UNCHANGED stage

Verdict == /\ stage = "asking" /\ events = <<"RESPONSE">>
           /\ Report("RESPONSE") \/ Report("ERROR")
           /\ UNCHANGED <<stage, whole>>

Expire == /\ stage = "asking" /\ stage' = "over"
          /\ Report("TIMEOUT")
          /\ UNCHANGED whole

End == /\ stage = "asking" /\ stage' = "over"
       /\ events \notin {<< >>, <<"RESPONSE">>}
       /\ UNCHANGED <<events, whole>>

Next == Ask \/ Arrive \/ Fail \/ Answer \/ Verdict \/ Expire \/ End

Spec == Init /\ [][Next]_exchangeVars
===============================================================================
