---------------------------- MODULE OpenMeteoProofs ----------------------------
(***************************************************************************)
(* The weather in an answer of OpenMeteo is the right one and fresh, and    *)
(* the API is asked once per Ttl, for any queries, Ttl, clock and faults.   *)
(***************************************************************************)
EXTENDS OpenMeteo, WellFoundedInduction, TLAPS

FileOf(l) == file[cache_key(l)]

\* A request is handled by a process that runs, for the location in its query.
RequestInv == pc # "idle" => /\ up /\ query \in Query
                             /\ loc = parse_query(query) /\ loc \in Loc
                             /\ started <= now

\* There are no files without a directory, and each holds its own location.
FilesInv == /\ ~ dir => pc # "write" /\ \A l \in Loc : FileOf(l).kind = "none"
            /\ \A l \in Loc : FileOf(l).kind = "whole" => FileOf(l).of = l

\* From a load or a fetch on there is data, and it is the location's.
DataInv == pc \in {"open", "write", "build"} => data \in Weather /\ data.of = loc

StillFresh == FileOf(loc).kind = "whole" => started <= FileOf(loc).mtime + Ttl

(***************************************************************************)
(* Why a file may be read again without a look at its age: at the moment of *)
(* the load it was valid, and where it is not, a fetch has emptied it.      *)
(* Where the path was freed the file is the one that had just been valid.   *)
(***************************************************************************)
FreshInv ==
  /\ pc \in {"open", "write", "build"} => started <= data.dated + Ttl
  /\ pc = "load" => started <= FileOf(loc).mtime + Ttl
  /\ pc \in {"fetch", "open"} /\ cache_file = "freed" => StillFresh
  /\ pc \in {"write", "build"} => StillFresh

(***************************************************************************)
(* A fetch that no fault has cost is in its location's file, but for the    *)
(* steps between the fetch and the end of its save.                         *)
(***************************************************************************)
FetchInv ==
  /\ \A l \in Loc : fetched[l] # NULL /\ ~ (pc \in {"open", "write"} /\ l = loc)
                      => /\ FileOf(l).kind = "whole"
                         /\ fetched[l] <= FileOf(l).mtime
  /\ pc \in {"open", "write"} /\ fetched[loc] # NULL => fetched[loc] <= now
  /\ pc = "fetch" /\ fetched[loc] # NULL => now > fetched[loc] + Ttl

IInv == /\ TypeOK /\ RequestInv /\ FilesInv /\ DataInv /\ FetchInv
        /\ "save" \notin Faults => FreshInv

-------------------------------------------------------------------------------
(***************************************************************************)
(* A nonempty set of numbers up to n has a greatest, which Max gives.       *)
(***************************************************************************)
LEMMA MaxIsIn ==
  ASSUME NEW n \in Nat, NEW S \in SUBSET (1 .. n), S # {}
  PROVE  Max(S) \in S
<1> DEFINE T == {n - i : i \in S}
<1>1. T \in SUBSET Nat /\ T # {}
  <2>1. \A i \in S : n - i \in Nat
    OBVIOUS
  <2>2. PICK i \in S : TRUE
    OBVIOUS
  <2>3. n - i \in T
    OBVIOUS
  <2> QED  BY <2>1, <2>3
<1>2. PICK m \in T : \A j \in T : ~ (<<j, m>> \in OpToRel(<, Nat))
  BY <1>1, NatLessThanWellFounded, WFMin
<1>3. PICK i \in S : m = n - i
  BY <1>2
<1>4. ASSUME NEW j \in S
      PROVE  i >= j
  <2>1. n - j \in T /\ n - j \in Nat /\ m \in Nat
    BY <1>1
  <2>2. ~ (n - j < m)
    BY <1>2, <2>1 DEF OpToRel
  <2> QED  BY <1>3, <2>1, <2>2
<1> QED  BY <1>4 DEF Max

\* What parse_query returns is a pair of values of the query's tokens.
LEMMA ParsedIsAsked ==
  ASSUME NEW q \in Query, parse_query(q) # NULL
  PROVE  /\ parse_query(q) = <<parse_query(q)[1], parse_query(q)[2]>>
         /\ Asks(q, parse_query(q)[1], parse_query(q)[2])
<1> DEFINE lats == {i \in DOMAIN q : q[i].name \in {"lat"}}
           lons == {i \in DOMAIN q : q[i].name \in {"lon", "long"}}
<1>1. /\ lats # {} /\ lons # {}
      /\ parse_query(q) = <<q[Max(lats)].value, q[Max(lons)].value>>
  BY DEF parse_query
<1>2. /\ Len(q) \in Nat
      /\ lats \in SUBSET (1 .. Len(q)) /\ lons \in SUBSET (1 .. Len(q))
  BY OpenMeteoAssumption
<1>3. Max(lats) \in lats /\ Max(lons) \in lons
  BY <1>1, <1>2, MaxIsIn
<1>4. /\ Max(lats) \in DOMAIN q /\ q[Max(lats)].name = "lat"
      /\ Max(lons) \in DOMAIN q /\ q[Max(lons)].name \in {"lon", "long"}
  BY <1>3
<1> HIDE DEF lats, lons
<1>5. /\ parse_query(q)[1] = q[Max(lats)].value
      /\ parse_query(q)[2] = q[Max(lons)].value
  BY <1>1
<1> QED  BY <1>1, <1>4, <1>5 DEF Asks

LEMMA LocIsAsked == \A l \in Loc : l = <<l[1], l[2]>>
  BY ParsedIsAsked DEF Loc

\* Two locations never share a file.
LEMMA KeyTellsApart == \A l, m \in Loc : cache_key(l) = cache_key(m) => l = m
<1> SUFFICES ASSUME NEW l \in Loc, NEW m \in Loc, cache_key(l) = cache_key(m)
             PROVE  l = m
  OBVIOUS
<1>1. l[1] = m[1] /\ l[2] = m[2]
  BY DEF cache_key
<1> QED  BY <1>1, LocIsAsked

LEMMA FileOfTyped ==
  TypeOK => \A l \in Loc : FileOf(l) \in [kind : {"none", "partial", "whole"},
                                         mtime : Time, of : Loc \cup {NULL}]
  BY DEF TypeOK, FileOf

\* Writing one location's file leaves those of the others alone.
LEMMA FileWritten ==
  ASSUME TypeOK, loc \in Loc, NEW v, file' = [file EXCEPT ![cache_key(loc)] = v],
         NEW l \in Loc
  PROVE  FileOf(l)' = IF l = loc THEN v ELSE FileOf(l)
  BY KeyTellsApart DEF TypeOK, FileOf

-------------------------------------------------------------------------------
\* A reply of the handler: an error, or 200 with some location's weather.
Replies == [status : {400, 500}, weather : {NULL}] \cup [status : {200}, weather : Weather]

LEMMA InitHolds == Init => IInv
<1> SUFFICES ASSUME Init PROVE IInv
  OBVIOUS
<1>1. 0 \in Time /\ NoFile.kind = "none" /\ "up" \in Apis
  BY OpenMeteoAssumption DEF Time, NoFile
<1>2. \A l \in Loc : FileOf(l) = NoFile
  BY DEF Init, FileOf
<1>3. NoFile \in [kind : {"none", "partial", "whole"}, mtime : Time, of : Loc \cup {NULL}]
  BY <1>1 DEF NoFile
<1>4. TypeOK
  BY <1>1, <1>3 DEF Init, Idle, TypeOK, NoReply, Steps
<1>5. RequestInv /\ DataInv /\ FreshInv
  BY DEF Init, Idle, RequestInv, DataInv, FreshInv
<1>6. FilesInv /\ FetchInv
  BY <1>1, <1>2 DEF Init, Idle, FilesInv, FetchInv
<1> QED  BY <1>4, <1>5, <1>6 DEF IInv

(***************************************************************************)
(* Every way a request may end leaves the files alone.                      *)
(***************************************************************************)
LEMMA EndHolds ==
  ASSUME IInv, pc' = "idle", query' = NULL, loc' = NULL, started' = 0,
         cache_file' = "none", data' = NULL,
         UNCHANGED <<now, api, dir, file>>, up' \in BOOLEAN, reply' \in Replies,
         \/ pc \notin {"open", "write"} /\ fetched' = fetched
         \/ pc \in {"open", "write"} /\ CopyLost
  PROVE  IInv'
<1>1. 0 \in Time /\ "idle" \in Steps
  BY OpenMeteoAssumption DEF Time, Steps
<1>2. fetched' \in [Loc -> Time \cup {NULL}]
  BY DEF IInv, TypeOK, CopyLost
<1>3. TypeOK'
  BY <1>1, <1>2 DEF IInv, TypeOK, Replies
<1>4. RequestInv' /\ DataInv' /\ FreshInv' /\ FilesInv'
  BY DEF IInv, RequestInv, DataInv, FreshInv, FilesInv, FileOf
<1>5. \A l \in Loc : FileOf(l)' = FileOf(l)
  BY DEF FileOf
<1>6. FetchInv'
  BY <1>5 DEF IInv, TypeOK, RequestInv, FetchInv, CopyLost
<1> QED  BY <1>3, <1>4, <1>6 DEF IInv

LEMMA DiesHolds ==
  ASSUME IInv, Dies
  PROVE  IInv'
<1>1. reply' \in Replies /\ up' \in BOOLEAN
  BY DEF IInv, TypeOK, Dies, Replies
<1> QED  BY <1>1, EndHolds DEF Dies

LEMMA FailsHolds ==
  ASSUME IInv, NEW status \in {400, 500}, Fails(status), pc \notin {"open", "write"},
         UNCHANGED <<now, api, dir, file, up, fetched>>
  PROVE  IInv'
<1>1. reply' \in Replies /\ up' \in BOOLEAN
  BY DEF IInv, TypeOK, Fails, Answer, Replies
<1> QED  BY <1>1, EndHolds DEF Fails, Answer

LEMMA BuildHolds ==
  ASSUME IInv, Build
  PROVE  IInv'
<1>1. loc \in Loc /\ data \in Weather
  BY DEF IInv, RequestInv, DataInv, Build
<1>2. BuiltFrom \in Weather
  <2>1. CASE FileOf(loc).kind = "whole"
    <3>1. Content \in Weather
      BY <1>1, <2>1, FileOfTyped DEF IInv, FilesInv, FileOf, Content, Cached, Weather
    <3> QED  BY <2>1, <3>1 DEF BuiltFrom, FileOf, Cached
  <2>2. CASE FileOf(loc).kind # "whole"
    BY <1>1, <2>2 DEF BuiltFrom, FileOf, Cached
  <2> QED  BY <2>1, <2>2
<1>3. ASSUME NEW w \in {BuiltFrom, data}, Answer([status |-> 200, weather |-> w])
      PROVE  IInv'
  <2>1. reply' \in Replies /\ up' \in BOOLEAN /\ pc \notin {"open", "write"}
    BY <1>1, <1>2, <1>3 DEF IInv, TypeOK, Build, Answer, Replies
  <2> QED  BY <1>3, <2>1, EndHolds DEF Build, Answer
<1>4. CASE Fails(500)
  BY <1>4, FailsHolds DEF Build
<1> QED  BY <1>3, <1>4 DEF Build

-------------------------------------------------------------------------------
LEMMA RequestHolds ==
  ASSUME IInv, NEW q \in Query, Request(q)
  PROVE  IInv'
<1>1. loc' \in Loc /\ query' = q /\ loc' = parse_query(q) /\ started' = now /\ pc' = "check"
  BY DEF Request, Loc, Goto
<1>2. now \in Time /\ now <= now
  BY OpenMeteoAssumption DEF IInv, TypeOK, Time
<1>3. TypeOK'
  BY <1>1, <1>2 DEF IInv, TypeOK, Request, NoReply, Steps
<1>4. \A l \in Loc : FileOf(l)' = FileOf(l)
  BY DEF Request, FileOf
<1>5. RequestInv'
  BY <1>1, <1>2 DEF IInv, RequestInv, Request
<1>6. DataInv' /\ FreshInv' /\ FilesInv'
  BY <1>1, <1>4 DEF IInv, DataInv, FreshInv, FilesInv, Request
<1>7. FetchInv'
  BY <1>1, <1>4 DEF IInv, FetchInv, Request
<1> QED  BY <1>3, <1>5, <1>6, <1>7 DEF IInv

LEMMA CheckHolds ==
  ASSUME IInv, CheckCache
  PROVE  IInv'
<1>1. /\ loc \in Loc /\ loc' = loc /\ started' = started /\ now' = now /\ up'
      /\ query' = query /\ started <= now /\ loc = parse_query(query)
      /\ pc' \in {"load", "fetch"} /\ cache_file' = "held" /\ fetched' = fetched
  BY DEF IInv, RequestInv, CheckCache, Goto
<1>2. \A l \in Loc : FileOf(l)' = FileOf(l)
  BY DEF CheckCache, FileOf
<1>3. TypeOK'
  BY <1>1 DEF IInv, TypeOK, CheckCache, Steps
<1>4. RequestInv' /\ DataInv' /\ FilesInv'
  BY <1>1, <1>2 DEF IInv, RequestInv, DataInv, FilesInv, CheckCache
<1>5. /\ now \in Int /\ started \in Int /\ FileOf(loc).mtime \in Int /\ Ttl \in Int
      /\ \A l \in Loc : fetched[l] # NULL => fetched[l] \in Int
  BY <1>1, FileOfTyped, OpenMeteoAssumption DEF IInv, TypeOK, Time
<1>6. /\ pc' = "load" => now <= FileOf(loc).mtime + Ttl
      /\ pc' = "fetch" => \/ FileOf(loc).kind = "none"
                          \/ now > FileOf(loc).mtime + Ttl
  BY <1>1, <1>5 DEF CheckCache, Goto, is_cache_valid, Cached, FileOf
<1>7. FreshInv'
  BY <1>1, <1>2, <1>5, <1>6 DEF FreshInv, StillFresh
<1>8. FetchInv'
  <2>1. \A l \in Loc : fetched[l] # NULL => /\ FileOf(l).kind = "whole"
                                            /\ fetched[l] <= FileOf(l).mtime
    BY DEF IInv, FetchInv, CheckCache
  <2>2. pc' = "fetch" /\ fetched[loc] # NULL => now > fetched[loc] + Ttl
    BY <1>1, <1>5, <1>6, <2>1
  <2> QED  BY <1>1, <1>2, <2>1, <2>2 DEF FetchInv
<1> QED  BY <1>3, <1>4, <1>7, <1>8 DEF IInv

LEMMA LoadHolds ==
  ASSUME IInv, LoadCache
  PROVE  IInv'
<1>1. /\ loc \in Loc /\ loc' = loc /\ started' = started /\ now' = now /\ up'
      /\ query' = query /\ started <= now /\ loc = parse_query(query)
      /\ cache_file' = "freed" /\ pc = "load" /\ pc' \in {"build", "fetch"}
  BY DEF IInv, RequestInv, LoadCache, Goto
<1>2. \A l \in Loc : FileOf(l)' = FileOf(l)
  BY DEF LoadCache, FileOf
<1>3. \/ /\ FileOf(loc).kind = "whole" /\ pc' = "build" /\ fetched' = fetched
         /\ data' = [of |-> loc, dated |-> FileOf(loc).mtime]
      \/ /\ pc' = "fetch" /\ data' = NULL
         /\ fetched' = [fetched EXCEPT ![loc] = NULL]
  BY <1>1 DEF IInv, FilesInv, LoadCache, Goto, CopyLost, Content, Cached, FileOf
<1>4. data' \in Weather \cup {NULL} /\ (pc' = "build" => data' \in Weather)
  BY <1>1, <1>3, FileOfTyped DEF IInv, Weather
<1>5. fetched' \in [Loc -> Time \cup {NULL}]
  BY <1>3 DEF IInv, TypeOK
<1>6. TypeOK'
  BY <1>1, <1>4, <1>5 DEF IInv, TypeOK, LoadCache, Steps
<1>7. RequestInv' /\ DataInv' /\ FilesInv'
  BY <1>1, <1>2, <1>3, <1>4 DEF IInv, RequestInv, DataInv, FilesInv, LoadCache
<1>8. FreshInv => FreshInv'
  BY <1>1, <1>2, <1>3 DEF FreshInv, StillFresh
<1>9. FetchInv'
  BY <1>1, <1>2, <1>3 DEF IInv, TypeOK, FetchInv
<1> QED  BY <1>6, <1>7, <1>8, <1>9 DEF IInv

LEMMA FetchHolds ==
  ASSUME IInv, Fetch
  PROVE  IInv'
<1>1. /\ loc \in Loc /\ loc' = loc /\ started' = started /\ now' = now /\ up'
      /\ query' = query /\ started <= now /\ loc = parse_query(query)
      /\ pc = "fetch" /\ pc' = "open" /\ cache_file' = cache_file
      /\ data' = [of |-> loc, dated |-> now]
      /\ fetched' = [fetched EXCEPT ![loc] = now]
  BY DEF IInv, RequestInv, Fetch, Goto
<1>2. \A l \in Loc : FileOf(l)' = FileOf(l)
  BY DEF Fetch, FileOf
<1>3. /\ data' \in Weather /\ now \in Int /\ started \in Int /\ Ttl \in Nat
      /\ fetched' \in [Loc -> Time \cup {NULL}]
  BY <1>1, OpenMeteoAssumption DEF IInv, TypeOK, Weather, Time
<1>4. TypeOK'
  BY <1>1, <1>3 DEF IInv, TypeOK, Fetch, Steps
<1>5. RequestInv' /\ DataInv' /\ FilesInv'
  BY <1>1, <1>2, <1>3 DEF IInv, RequestInv, DataInv, FilesInv, Fetch
<1>6. FreshInv => FreshInv'
  BY <1>1, <1>2, <1>3 DEF FreshInv, StillFresh
<1>7. FetchInv'
  BY <1>1, <1>2, <1>3 DEF IInv, TypeOK, FetchInv
<1> QED  BY <1>4, <1>5, <1>6, <1>7 DEF IInv

LEMMA OpenHolds ==
  ASSUME IInv, OpenForSave
  PROVE  IInv'
<1>1. /\ loc \in Loc /\ loc' = loc /\ started' = started /\ now' = now /\ up'
      /\ query' = query /\ started <= now /\ loc = parse_query(query)
      /\ pc = "open" /\ pc' \in {"write", "build"} /\ data' = data /\ dir' = dir
  BY DEF IInv, RequestInv, OpenForSave, Goto
<1>2. CASE dir /\ pc' = "write" /\ cache_file' = cache_file /\ fetched' = fetched
           /\ file' = [file EXCEPT ![cache_key(loc)] = Partial]
  <2>1. \A l \in Loc : FileOf(l)' = IF l = loc THEN Partial ELSE FileOf(l)
    BY <1>1, <1>2, FileWritten DEF IInv
  <2>2. Partial \in [kind : {"none", "partial", "whole"}, mtime : Time, of : Loc \cup {NULL}]
        /\ Partial.kind = "partial"
    BY DEF IInv, TypeOK, Partial
  <2>3. TypeOK'
    BY <1>1, <1>2, <2>2 DEF IInv, TypeOK, OpenForSave, Steps
  <2>4. RequestInv' /\ DataInv' /\ FilesInv'
    BY <1>1, <1>2, <2>1, <2>2 DEF IInv, RequestInv, DataInv, FilesInv, OpenForSave
  <2>5. FreshInv => FreshInv'
    BY <1>1, <1>2, <2>1, <2>2 DEF FreshInv, StillFresh
  <2>6. FetchInv'
    BY <1>1, <1>2, <2>1 DEF IInv, FetchInv
  <2> QED  BY <2>3, <2>4, <2>5, <2>6 DEF IInv
<1>3. CASE /\ ~ dir \/ MayFail("save") \/ Misused
           /\ pc' = "build" /\ cache_file' = "freed" /\ file' = file
           /\ fetched' = [fetched EXCEPT ![loc] = NULL]
  <2>1. \A l \in Loc : FileOf(l)' = FileOf(l)
    BY <1>3 DEF FileOf
  <2>2. TypeOK'
    BY <1>1, <1>3 DEF IInv, TypeOK, OpenForSave, Steps
  <2>3. RequestInv' /\ DataInv' /\ FilesInv'
    BY <1>1, <1>3, <2>1 DEF IInv, RequestInv, DataInv, FilesInv, OpenForSave
  <2>4. "save" \notin Faults => FreshInv'
    BY <1>1, <1>3, <2>1 DEF IInv, FilesInv, FreshInv, StillFresh, MayFail, Misused
  <2>5. FetchInv'
    BY <1>1, <1>3, <2>1 DEF IInv, TypeOK, FetchInv
  <2> QED  BY <2>2, <2>3, <2>4, <2>5 DEF IInv
<1> QED  BY <1>2, <1>3 DEF OpenForSave, Goto, CopyLost

LEMMA WriteHolds ==
  ASSUME IInv, WriteSave
  PROVE  IInv'
<1>1. /\ loc \in Loc /\ loc' = loc /\ started' = started /\ now' = now /\ up'
      /\ query' = query /\ started <= now /\ loc = parse_query(query)
      /\ pc = "write" /\ pc' = "build" /\ data' = data /\ dir' = dir
      /\ cache_file' = "freed"
  BY DEF IInv, RequestInv, WriteSave, Goto
<1>2. /\ data \in Weather /\ data.of = loc /\ dir
      /\ now \in Int /\ started \in Int /\ Ttl \in Nat
  BY <1>1, OpenMeteoAssumption DEF IInv, DataInv, FilesInv, TypeOK, Time
<1>3. CASE /\ file' = [file EXCEPT ![cache_key(loc)] = Whole]
           /\ fetched' = fetched
  <2>1. \A l \in Loc : FileOf(l)' = IF l = loc THEN Whole ELSE FileOf(l)
    BY <1>1, <1>3, FileWritten DEF IInv
  <2>2. /\ Whole \in [kind : {"none", "partial", "whole"}, mtime : Time,
                      of : Loc \cup {NULL}]
        /\ Whole.kind = "whole" /\ Whole.of = loc /\ Whole.mtime = now
    BY <1>1, <1>2 DEF IInv, TypeOK, Whole
  <2>3. TypeOK'
    BY <1>1, <1>3, <2>2 DEF IInv, TypeOK, WriteSave, Steps
  <2>4. RequestInv' /\ DataInv' /\ FilesInv'
    BY <1>1, <1>2, <2>1, <2>2 DEF IInv, RequestInv, DataInv, FilesInv, WriteSave
  <2>5. FreshInv => FreshInv'
    BY <1>1, <1>2, <2>1, <2>2 DEF FreshInv, StillFresh
  <2>6. FetchInv'
    BY <1>1, <1>3, <2>1, <2>2 DEF IInv, FetchInv
  <2> QED  BY <2>3, <2>4, <2>5, <2>6 DEF IInv
<1>4. CASE file' = file /\ fetched' = [fetched EXCEPT ![loc] = NULL]
  <2>1. \A l \in Loc : FileOf(l)' = FileOf(l)
    BY <1>4 DEF FileOf
  <2>2. TypeOK'
    BY <1>1, <1>4 DEF IInv, TypeOK, WriteSave, Steps
  <2>3. RequestInv' /\ DataInv' /\ FilesInv'
    BY <1>1, <1>2, <2>1 DEF IInv, RequestInv, DataInv, FilesInv, WriteSave
  <2>4. FreshInv => FreshInv'
    BY <1>1, <2>1 DEF FreshInv, StillFresh
  <2>5. FetchInv'
    BY <1>1, <1>4, <2>1 DEF IInv, TypeOK, FetchInv
  <2> QED  BY <2>2, <2>3, <2>4, <2>5 DEF IInv
<1> QED  BY <1>3, <1>4 DEF WriteSave, CopyLost

-------------------------------------------------------------------------------
LEMMA TickHolds ==
  ASSUME IInv, Tick
  PROVE  IInv'
<1>1. /\ now \in Nat /\ now' = now + 1 /\ now' \in Time /\ Ttl \in Nat
      /\ \A l \in Loc : fetched[l] # NULL => fetched[l] \in Nat
  BY OpenMeteoAssumption DEF IInv, TypeOK, Tick, Time
<1>2. started \in Nat
  BY OpenMeteoAssumption DEF IInv, TypeOK, Time
<1>3. UNCHANGED <<api, dir, file, up, pc, query, loc, started, cache_file, data, reply, fetched>>
  BY DEF Tick, requestVars
<1>4. TypeOK'
  BY <1>1, <1>3 DEF IInv, TypeOK
<1>5. RequestInv'
  BY <1>1, <1>2, <1>3 DEF IInv, RequestInv
<1>6. DataInv' /\ FilesInv' /\ (FreshInv => FreshInv')
  BY <1>3 DEF IInv, DataInv, FilesInv, FreshInv, StillFresh, FileOf
<1>7. \A l \in Loc : FileOf(l)' = FileOf(l)
  BY <1>3 DEF FileOf
<1>8. FetchInv'
  BY <1>1, <1>3, <1>7 DEF IInv, FetchInv, RequestInv
<1> QED  BY <1>4, <1>5, <1>6, <1>8 DEF IInv

\* Steps that touch neither the request nor the files nor the clock.
LEMMA AsideHolds ==
  ASSUME IInv, UNCHANGED <<now, file, requestVars, reply, fetched>>,
         api' \in Apis, dir' \in BOOLEAN, dir => dir',
         up' \in BOOLEAN, up => up'
  PROVE  IInv'
<1>1. UNCHANGED <<pc, query, loc, started, cache_file, data>>
  BY DEF requestVars
<1>2. TypeOK'
  BY <1>1 DEF IInv, TypeOK
<1>3. RequestInv' /\ DataInv' /\ FilesInv' /\ FetchInv' /\ (FreshInv => FreshInv')
  BY <1>1 DEF IInv, RequestInv, DataInv, FilesInv, FetchInv, FreshInv, StillFresh, FileOf
<1> QED  BY <1>2, <1>3 DEF IInv

LEMMA NextHolds == IInv /\ [Next]_vars => IInv'
<1> SUFFICES ASSUME IInv, [Next]_vars PROVE IInv'
  OBVIOUS
<1>1. api \in Apis /\ dir \in BOOLEAN /\ up \in BOOLEAN
  BY DEF IInv, TypeOK
<1>2. CASE open_meteo_handler_init
  BY <1>1, <1>2, AsideHolds DEF open_meteo_handler_init
<1>3. ASSUME NEW q \in Query, BadQuery(q)
      PROVE  IInv'
  BY <1>3, FailsHolds DEF BadQuery
<1>4. ASSUME NEW q \in Query, Request(q)
      PROVE  IInv'
  BY <1>4, RequestHolds
<1>5. CASE NoFilePath
  BY <1>5, FailsHolds DEF NoFilePath
<1>6. CASE FetchFails
  BY <1>6, FailsHolds, DiesHolds DEF FetchFails
<1>7. CASE FetchEmpty \/ MisuseEndsIt \/ Kill
  BY <1>7, DiesHolds DEF FetchEmpty, MisuseEndsIt, Kill
<1>8. CASE ApiChanges
  BY <1>1, <1>8, AsideHolds DEF ApiChanges
<1>9. CASE Restart
  BY <1>1, <1>9, AsideHolds DEF Restart
<1>10. CASE UNCHANGED vars
  BY <1>1, <1>10, AsideHolds DEF vars
<1> QED  BY <1>2, <1>3, <1>4, <1>5, <1>6, <1>7, <1>8, <1>9, <1>10, CheckHolds, LoadHolds,
            FetchHolds, OpenHolds, WriteHolds, BuildHolds, TickHolds DEF Next, Handler

-------------------------------------------------------------------------------
(***************************************************************************)
(* The invariant behind the theorems: what a file holds, what data there is *)
(* at each step, and how old both may be.                                   *)
(***************************************************************************)
THEOREM OpenMeteoInductive == Spec => []IInv
<1> QED  BY InitHolds, NextHolds, PTL DEF Spec

\* The variables of OpenMeteo keep their types.
THEOREM OpenMeteoTypeCorrect == Spec => []TypeOK
<1>1. IInv => TypeOK
  BY DEF IInv
<1> QED  BY <1>1, OpenMeteoInductive, PTL

\* Only Build gives a 200, with the weather of BuiltFrom or the data.
LEMMA OnlyBuildAnswers ==
  ASSUME IInv, Next, Answers(200)
  PROVE  /\ pc = "build" /\ loc \in Loc /\ loc = parse_query(query) /\ query \in Query
         /\ reply'.weather \in {BuiltFrom, data}
<1>1. pc # "idle" /\ pc' = "idle" /\ up' /\ reply'.status = 200
  BY DEF Answers
<1>2. ~ (\E status \in {400, 500} : Fails(status))
  BY <1>1 DEF Fails, Answer
<1>3. ~ Dies
  BY <1>1 DEF Dies
<1>4. Build
  BY <1>1, <1>2, <1>3
     DEF Next, Handler, open_meteo_handler_init, BadQuery, Request, NoFilePath, CheckCache,
         LoadCache, FetchFails, Fetch, FetchEmpty, OpenForSave, WriteSave, MisuseEndsIt,
         Tick, ApiChanges, Kill, Restart, Goto, requestVars
<1>5. reply'.weather \in {BuiltFrom, data}
  BY <1>2, <1>4 DEF Build, Answer
<1> QED  BY <1>4, <1>5 DEF Build, IInv, RequestInv

(***************************************************************************)
(* An answer is for the coordinates of its query, although it was read from *)
(* a file (open_meteo_api.c:251).                                           *)
(***************************************************************************)
THEOREM AnswersItsQuery == Spec => AnswerIsForItsQuery
<1>1. IInv /\ [Next]_vars =>
        [Answers(200) => Asks(query, reply'.weather.of[1], reply'.weather.of[2])]_vars
  <2> SUFFICES ASSUME IInv, Next, Answers(200)
               PROVE  Asks(query, reply'.weather.of[1], reply'.weather.of[2])
    OBVIOUS
  <2>1. /\ pc = "build" /\ loc \in Loc /\ loc = parse_query(query) /\ query \in Query
        /\ reply'.weather \in {BuiltFrom, data}
    BY OnlyBuildAnswers
  <2>2. BuiltFrom.of = loc /\ data.of = loc
    BY <2>1 DEF IInv, FilesInv, DataInv, BuiltFrom, Content, Cached, FileOf
  <2>3. parse_query(query) # NULL
    BY <2>1 DEF Loc
  <2> QED  BY <2>1, <2>2, <2>3, ParsedIsAsked
<1> QED  BY <1>1, OpenMeteoInductive, PTL DEF Spec, AnswerIsForItsQuery

(***************************************************************************)
(* An answer is fresh for every Ttl, whatever fails in the request's other  *)
(* steps, if no save ends before it has opened the cache file, be it for    *)
(* want of memory (open_meteo_api.c:581) or because fopen is refused: the   *)
(* run open_meteo_stale shows that this is needed.                          *)
(***************************************************************************)
THEOREM AnswersFresh ==
  ASSUME "save" \notin Faults
  PROVE  Spec => AnswerIsFresh
<1>1. IInv /\ [Next]_vars => [Answers(200) => started <= reply'.weather.dated + Ttl]_vars
  <2> SUFFICES ASSUME IInv, Next, Answers(200)
               PROVE  started <= reply'.weather.dated + Ttl
    OBVIOUS
  <2>1. pc = "build" /\ reply'.weather \in {BuiltFrom, data}
    BY OnlyBuildAnswers
  <2> QED  BY <2>1 DEF IInv, FreshInv, StillFresh, BuiltFrom, Content, Cached, FileOf
<1> QED  BY <1>1, OpenMeteoInductive, PTL DEF Spec, AnswerIsFresh

(***************************************************************************)
(* Between two fetches of a location more than Ttl passes, also over kills  *)
(* and restarts, unless a fault cost what the first one saved.              *)
(***************************************************************************)
THEOREM FetchesAreRare == Spec => FetchesOncePerTtl
<1>1. IInv /\ [Next]_vars =>
        [pc = "fetch" /\ pc' = "open" /\ fetched[loc] # NULL => now > fetched[loc] + Ttl]_vars
  BY DEF IInv, FetchInv
<1> QED  BY <1>1, OpenMeteoInductive, PTL DEF Spec, FetchesOncePerTtl
===============================================================================
