---------------------------- MODULE MCWeatherServer ---------------------------
(* The requests of the checked instances of WeatherServer. *)
EXTENDS WeatherServer

Get == [method |-> "GET", path |-> "/", header |-> 5, content_len |-> 0, total |-> 5]

Current == [method |-> "GET", path |-> "/v1/current", header |-> 5,
            content_len |-> 0, total |-> 5]

PostEcho == [method |-> "POST", path |-> "/echo", header |-> 5,
             content_len |-> 2, total |-> 7]

GetEcho == [method |-> "GET", path |-> "/echo", header |-> 5,
            content_len |-> 2, total |-> 7]

\* More bytes than Content-Length announces.
Surplus == [method |-> "GET", path |-> "/none", header |-> 5,
            content_len |-> 0, total |-> 9]

\* Requests of one and of two segments.
TinyRequests ==
  {[method |-> "GET", path |-> "/v1/current", header |-> 4, content_len |-> 0, total |-> 4],
   [method |-> "POST", path |-> "/echo", header |-> 4, content_len |-> 2, total |-> 6]}

\* The same and one with surplus bytes.
TinyAndSurplus ==
  TinyRequests \cup
  {[method |-> "GET", path |-> "/none", header |-> 4, content_len |-> 0, total |-> 6]}

SomeRequests == {Get, Current, GetEcho, PostEcho, Surplus}
===============================================================================
