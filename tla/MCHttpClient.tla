----------------------------- MODULE MCHttpClient -----------------------------
(* The responses of the checked instance of HttpClient. *)
EXTENDS HttpClient

WithBody == [status |-> 200, header |-> 5, announced |-> 3, total |-> 8]

\* A refusal with more bytes than Content-Length announces.
Surplus == [status |-> 500, header |-> 5, announced |-> 4, total |-> 10]

\* A refusal whose Content-Length the client does not recognise.
NotFound == [status |-> 404, header |-> 6, announced |-> 0, total |-> 8]

SomeResponses == {WithBody, Surplus, NotFound}
===============================================================================
