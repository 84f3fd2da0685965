------------------------------- MODULE OpenMeteo ------------------------------
(***************************************************************************)
(* open_meteo_handler.c and open_meteo_api.c: one GET /v1/current after     *)
(* another, each a sequence of steps between which time passes and the      *)
(* process may be killed.  The cache is a directory with a file for each    *)
(* location; what it holds is named by whose weather it is and by its       *)
(* modification time.  The API is in one of the moods of Apis, and the rest *)
(* fails as Faults allows.                                                  *)
(***************************************************************************)
EXTENDS Integers, SequencesExt

CONSTANTS Query,        \* query strings: sequences of tokens [name, value]
          Ttl,          \* g_config.cache_ttl
          MaxTime,      \* bound of the clock
          Apis,         \* the moods of the Open-Meteo API
          Faults,       \* where else a request may fail
          NULL

ASSUME OpenMeteoAssumption ==
  /\ \A q \in Query :
       /\ Len(q) \in Nat /\ DOMAIN q = 1 .. Len(q)
       /\ \A i \in DOMAIN q : q[i].name \in {"lat", "lon", "long", "other"}
  /\ Ttl \in Nat /\ MaxTime \in Nat
  /\ NULL \notin Nat
  /\ Apis \subseteq {"up", "down", "silent", "empty", "garbled"} /\ "up" \in Apis
  /\ Faults \subseteq {"path", "load", "save", "write", "build", "kill"}

VARIABLES now,          \* the clock
          api,          \* what the API does with a request just now
          dir,          \* the cache directory exists
          file,         \* the cache file of each location
          up,           \* the process runs
          pc,           \* the step of the request being handled
          query,        \* its query string
          loc,          \* the location parsed from it
          started,      \* when it began
          cache_file,   \* "none", "held" or "freed": the path string
          data,         \* *data: whose weather and when fetched, or NULL
          reply,        \* the answer to the last request
          fetched       \* history: each location's last fetch that no fault has cost

requestVars == <<pc, query, loc, started, cache_file, data>>
vars == <<now, api, dir, file, up, requestVars, reply, fetched>>

Time == 0 .. MaxTime
Steps == {"idle", "check", "load", "fetch", "open", "write", "build"}

\* The last latitude and the last longitude of a query: NULL unless it has both.
parse_query(q) ==
  LET at(names) == {i \in DOMAIN q : q[i].name \in names} IN
  IF at({"lat"}) = {} \/ at({"lon", "long"}) = {} THEN NULL
  ELSE <<q[Max(at({"lat"}))].value, q[Max(at({"lon", "long"}))].value>>

\* The locations that are asked for, to the six decimals of key and URL.
Loc == {parse_query(q) : q \in Query} \ {NULL}
Weather == [of : Loc, dated : Time]

\* Mutant: the longitude is left out of the key.
cache_key_latitude(l) == <<"weather", l[1]>>

\* The name of a location's file, an MD5 of its two coordinates.
cache_key(l) == <<"weather", l[1], l[2]>>

\* A cache file: what it holds, its modification time and whose weather it is.
NoFile  == [kind |-> "none", mtime |-> 0, of |-> NULL]
Partial == [kind |-> "partial", mtime |-> now, of |-> NULL]
Whole   == [kind |-> "whole", mtime |-> now, of |-> data.of]
Cached  == file[cache_key(loc)]
Content == [of |-> Cached.of, dated |-> Cached.mtime]

TypeOK == /\ now \in Time /\ api \in Apis
          /\ {dir, up} \subseteq BOOLEAN
          /\ file \in [{cache_key(l) : l \in Loc} ->
                         [kind : {"none", "partial", "whole"}, mtime : Time,
                          of : Loc \cup {NULL}]]
          /\ pc \in Steps
          /\ query \in Query \cup {NULL}
          /\ loc \in Loc \cup {NULL}
          /\ started \in Time
          /\ cache_file \in {"none", "held", "freed"}
          /\ data \in Weather \cup {NULL}
          /\ reply \in [status : {400, 500}, weather : {NULL}]
                     \cup [status : {200}, weather : Weather]
          /\ fetched \in [Loc -> Time \cup {NULL}]

Idle == /\ pc = "idle" /\ query = NULL /\ loc = NULL /\ started = 0
        /\ cache_file = "none" /\ data = NULL

\* What the handler sets before it does anything.
NoReply == [status |-> 500, weather |-> NULL]

Init == /\ now = 0 /\ api = "up" /\ up = TRUE
        /\ dir \in BOOLEAN     \* whoever installs the program may have made it
        /\ file = [key \in {cache_key(l) : l \in Loc} |-> NoFile]
        /\ Idle
        /\ reply = NoReply
        /\ fetched = [l \in Loc |-> NULL]

MayFail(what) == what \in Faults

-------------------------------------------------------------------------------
(***************************************************************************)
(* It makes the directory and sets g_config to the values it has anyway.    *)
(* server/main.c never calls it: here it may run early, late or not at all. *)
(***************************************************************************)
open_meteo_handler_init == /\ up /\ pc = "idle"
                           /\ dir' = TRUE
                           /\ UNCHANGED <<now, api, file, up, requestVars, reply, fetched>>

Goto(step) == pc' = step

\* The handler returns: its locals are gone, the answer is given.
Answer(answer) == /\ reply' = answer
                  /\ pc' = "idle" /\ query' = NULL /\ loc' = NULL /\ started' = 0
                  /\ cache_file' = "none" /\ data' = NULL

Fails(status) == Answer([status |-> status, weather |-> NULL])

\* open_meteo_handler_current with a query it cannot parse.
BadQuery(q) == /\ up /\ pc = "idle"
               /\ parse_query(q) = NULL
               /\ Fails(400)
               /\ UNCHANGED <<now, api, dir, file, up, fetched>>

Request(q) == /\ up /\ pc = "idle"
              /\ parse_query(q) # NULL
              /\ query' = q /\ loc' = parse_query(q) /\ started' = now
              /\ reply' = NoReply
              /\ Goto("check")
              /\ UNCHANGED <<now, api, dir, file, up, cache_file, data, fetched>>

\* generate_cache_filepath fails.
NoFilePath == /\ up /\ pc = "check" /\ MayFail("path")
              /\ Fails(500)
              /\ UNCHANGED <<now, api, dir, file, up, fetched>>

-------------------------------------------------------------------------------
\* Mutant: the age of the file is not looked at.
is_cache_valid_any_age == Cached.kind # "none"

\* Mutant: a file that is exactly Ttl old has expired.
is_cache_valid_strict == Cached.kind # "none" /\ now - Cached.mtime < Ttl

is_cache_valid == Cached.kind # "none" /\ ~ now - Cached.mtime > Ttl

CheckCache == /\ up /\ pc = "check"
              /\ cache_file' = "held"
              /\ Goto(IF is_cache_valid THEN "load" ELSE "fetch")
              /\ UNCHANGED <<now, api, dir, file, up, query, loc, started, data, reply, fetched>>

\* History only: a fault has cost the location its cached copy.
CopyLost == fetched' = [fetched EXCEPT ![loc] = NULL]

(***************************************************************************)
(* load_weather_from_cache, and the free of the path that follows it on     *)
(* success and on failure.                                                  *)
(***************************************************************************)
LoadCache == /\ up /\ pc = "load"
             /\ cache_file' = "freed"
             /\ \/ /\ Cached.kind = "whole"
                   /\ data' = Content
                   /\ Goto("build")
                   /\ UNCHANGED fetched
                \/ /\ Cached.kind = "partial" \/ MayFail("load")
                   /\ data' = NULL
                   /\ Goto("fetch")
                   /\ CopyLost
             /\ UNCHANGED <<now, api, dir, file, up, query, loc, started, reply>>

-------------------------------------------------------------------------------
\* Using or freeing the path once more is undefined: it may kill the process.
Misused == cache_file = "freed"

Dies == /\ up' = FALSE
        /\ pc' = "idle" /\ query' = NULL /\ loc' = NULL /\ started' = 0
        /\ cache_file' = "none" /\ data' = NULL
        /\ IF pc \in {"open", "write"} THEN CopyLost ELSE UNCHANGED fetched
        /\ UNCHANGED <<now, api, dir, file, reply>>

\* Mutant: no CURLOPT_TIMEOUT.
CurlFails_no_timeout == api = "down"

\* CURLOPT_TIMEOUT ends a transfer from an API that never answers.
CurlFails == api \in {"down", "silent"}

\* No JSON, or none with "current" and "current_units".  A fetch without memory
\* ends as one of these does, or as one from an API that is down.
ParseFails == api = "garbled"

FetchFails == /\ up /\ pc = "fetch" /\ (CurlFails \/ ParseFails)
              /\ \/ Fails(500) /\ UNCHANGED <<now, api, dir, file, up, fetched>>
                 \/ Misused /\ Dies

Fetch == /\ up /\ pc = "fetch" /\ api = "up"
         /\ data' = [of |-> loc, dated |-> now]
         /\ fetched' = [fetched EXCEPT ![loc] = now]
         /\ Goto("open")
         /\ UNCHANGED <<now, api, dir, file, up, query, loc, started, cache_file, reply>>

\* A 200 without a body leaves chunk.data NULL, and strlen reads it.
FetchEmpty == /\ up /\ pc = "fetch" /\ api = "empty"
              /\ Dies

-------------------------------------------------------------------------------
(***************************************************************************)
(* save_raw_json_to_cache: json_loadb parses the text once more, and        *)
(* json_dump_file opens the file for writing, which empties it, and then    *)
(* writes it.  The request goes on when the save ends before the file is    *)
(* open ("save": no memory for the text or the stream, or fopen is refused) *)
(* and when the writing fails.  A freed path, if using it is survived,      *)
(* still names the location's own file or names no file of the cache.       *)
(***************************************************************************)
OpenForSave ==
  /\ up /\ pc = "open"
  /\ \/ /\ dir
        /\ file' = [file EXCEPT ![cache_key(loc)] = Partial]
        /\ Goto("write")
        /\ UNCHANGED <<cache_file, fetched>>
     \/ /\ ~ dir \/ MayFail("save") \/ Misused
        /\ cache_file' = "freed"
        /\ Goto("build")
        /\ CopyLost
        /\ UNCHANGED file
  /\ UNCHANGED <<now, api, dir, up, query, loc, started, data, reply>>

WriteSave == /\ up /\ pc = "write"
             /\ \/ file' = [file EXCEPT ![cache_key(loc)] = Whole] /\ UNCHANGED fetched
                \/ MayFail("write") /\ CopyLost /\ UNCHANGED file
             /\ cache_file' = "freed"
             /\ Goto("build")
             /\ UNCHANGED <<now, api, dir, up, query, loc, started, data, reply>>

MisuseEndsIt == /\ up /\ pc \in {"open", "write"} /\ Misused
                /\ Dies

-------------------------------------------------------------------------------
\* Mutant: no fallback to the data when the file cannot be read.
BuiltFrom_file == IF Cached.kind = "whole" THEN Content ELSE NULL

(***************************************************************************)
(* open_meteo_api_build_json_response takes whatever the cache file holds,  *)
(* without asking how old it is, and the data only when it cannot read it,  *)
(* be it for want of memory (Build).                                        *)
(***************************************************************************)
BuiltFrom == IF Cached.kind = "whole" THEN Content ELSE data

Build == /\ up /\ pc = "build"
         /\ \/ Answer([status |-> 200, weather |-> BuiltFrom])
            \/ /\ MayFail("build")
               /\ Answer([status |-> 200, weather |-> data]) \/ Fails(500)
         /\ UNCHANGED <<now, api, dir, file, up, fetched>>

-------------------------------------------------------------------------------
Tick == /\ now < MaxTime
        /\ now' = now + 1
        /\ UNCHANGED <<api, dir, file, up, requestVars, reply, fetched>>

ApiChanges == /\ api' \in Apis
              /\ UNCHANGED <<now, dir, file, up, requestVars, reply, fetched>>

Kill == up /\ MayFail("kill") /\ Dies

\* The process is started again: the files are where it left them.
Restart == /\ ~ up
           /\ up' = TRUE
           /\ UNCHANGED <<now, api, dir, file, requestVars, reply, fetched>>

Handler == \/ NoFilePath \/ CheckCache \/ LoadCache
           \/ FetchFails \/ Fetch \/ FetchEmpty
           \/ OpenForSave \/ WriteSave \/ MisuseEndsIt \/ Build

Next == \/ open_meteo_handler_init
        \/ \E q \in Query : BadQuery(q) \/ Request(q)
        \/ Handler \/ Tick \/ ApiChanges \/ Kill \/ Restart

Spec == Init /\ [][Next]_vars

\* The handler runs to its end, and curl within its timeout.
FairSpec == Spec /\ WF_vars(Handler)

-------------------------------------------------------------------------------
Answers(status) == pc # "idle" /\ pc' = "idle" /\ up' /\ reply'.status = status

(***************************************************************************)
(* The weather in an answer was saved or fetched at most Ttl before its     *)
(* request began ("cache_ttl = 900, /* 15 minutes */",                      *)
(* open_meteo_handler.c:38), though the file is read once to be checked,    *)
(* once to be loaded and once to be sent, and other requests rewrite it.    *)
(* Only a save that ends before it has opened the file breaks it ("save").  *)
(***************************************************************************)
AnswerIsFresh ==
  [][Answers(200) => started <= reply'.weather.dated + Ttl]_vars

(***************************************************************************)
(* The weather in an answer is that of the coordinates in its query, in     *)
(* whichever order and under whichever name ("lat=X&lon=Y or lat=X&long=Y", *)
(* open_meteo_api.c:342), though it went through a file that requests for   *)
(* other coordinates read and write beside it.                              *)
(***************************************************************************)
Asks(q, lat, lon) ==
  \E i, j \in DOMAIN q : /\ q[i].name = "lat" /\ q[i].value = lat
                         /\ q[j].name \in {"lon", "long"} /\ q[j].value = lon

AnswerIsForItsQuery ==
  [][Answers(200) => Asks(query, reply'.weather.of[1], reply'.weather.of[2])]_vars

(***************************************************************************)
(* The cache keeps the load off the API, across restarts too: unless a      *)
(* fault has cost the copy that was saved, a location is not fetched again  *)
(* while its last fetch is at most Ttl old.                                 *)
(***************************************************************************)
FetchesOncePerTtl ==
  [][pc = "fetch" /\ pc' = "open" /\ fetched[loc] # NULL
       => now > fetched[loc] + Ttl]_vars

\* Every request ends, also when the API does not answer.
EveryRequestEnds == (pc # "idle") ~> (pc = "idle")

-------------------------------------------------------------------------------
(***************************************************************************)
(* open_meteo_api.c:410 makes the caller of generate_cache_filepath free    *)
(* its result, which get_current does at the end of every path: the string  *)
(* must still be there when the fetch that follows a failed load comes.     *)
(***************************************************************************)
PathHeld == pc \in {"fetch", "open", "write"} => cache_file = "held"
===============================================================================
