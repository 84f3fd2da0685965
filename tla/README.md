# just-weather in TLA+

A verification project for just-weather: a single-threaded HTTP server in C
that answers `/`, `/echo` and `/v1/current` (current weather, from
api.open-meteo.com, through a cache of files), and its HTTP client. The modules
are translated from the code under `src/src`; TLC checks them on small
instances, and TLAPS proves the theorems of the `...Proofs` modules for every
value of the constants: every safety property that a passing run checks, and
every refinement.

## The system

| part | code | its state | its operations |
|---|---|---|---|
| linked list | `lib/linked_list.c` | head, tail, size, and the nodes' back, front, item | create, get_index, append, insert, remove, pop, clear, dispose |
| scheduler (SMW) | `lib/smw.c` | `g_smw.tasks`, a linked list of tasks | init, create_task, destroy_task, work, dispose |
| sockets | `lib/tcp_server.c`, `lib/tcp_client.c` | the listening and the accepted descriptors | initiate, accept, read, write, disconnect; connect (client only) |
| HTTP server | `lib/http_server/*.c` | per connection: descriptor, task, state RECEIVE / SEND / DISPOSE, read and write buffers, parsed headers | on_accept, receive, send, dispose |
| weather server | `server/weather_server*.c`, `server/main.c` | the list of instances | start-up, on_http_connection, on_request |
| Open-Meteo | `server/open_meteo_*.c` | a cache directory with one JSON file per location | init, current (check, load, fetch, save, build) |
| HTTP client | `lib/http_client.c`, `client/main.c` | a state machine per request | init, get, work, dispose |
| memory cache | `lib/cache.c` | a list of entries with expiry | create, set, get, remove, clear, destroy (nobody calls it yet) |
| MD5 | `server/hash_md5.c` | digest state, a two-word count and a 64-byte block | init, update, final |

Everything runs in one thread. `main` calls `smw_work` for ever; `smw_work`
walks the task list and calls each task once. The listener's task accepts at
most one connection per call and registers a task for it; a connection's task
makes one step (one `recv`, one `send`, or the disposal) per call, and destroys
itself in the last. Between two calls anything may have happened on the
sockets. A request for `/v1/current` blocks the loop while curl runs. The client
is a program of its own with the same scheduler: one task walks one request
through connecting, writing, reading and reporting.

What is hard to test here: the task list changes under the walk; a request and
its answer travel in pieces of any size; clients stop half way, leave, or send
too much; descriptor numbers are reused; allocations, the API and the file
system fail at any step; the process is killed while it writes a cache file,
and the file is read three times in one request while the clock runs; the
client's timeout races with its answer, whose end it must find by itself.
`PROJECT.json` lists each of these hazards at its line.

What makes each part correct: the list's pointers agree in both directions and
lose nobody; the scheduler's cursor never dangles and every task gets its turn;
sockets, tasks and connections stay matched; a request is answered once, with
its own answer, not before its last byte, and completely; an answer's weather
is no older than the cache's time to live and of the place that was asked for,
and the API is not asked more often; the client reports a response when it is
whole, says how every request ended, and accounts for its socket; the memory
cache is a bounded map with expiry; the blocks that MD5 hashes are those of the
padded message.

## The modules

| module | models | corresponds to the code |
|---|---|---|
| `ItemList` | what a list promises: a sequence | abstract, for `LinkedList` |
| `LinkedList` | `linked_list.c` | one variable per field; the heap cells are `Node`, `live` those that are allocated; one action per function |
| `TaskQueue` | what the scheduler promises: a pass over the registered tasks | abstract, for `Smw`; also the scheduler that `WeatherServer` is built on |
| `Smw` | `smw.c` on top of `LinkedList` | `node`, `next` and `task` are the locals of `smw_work`; `BeginWork`, `CallTask`, `TaskReturns` its three parts; callbacks are the steps in between |
| `TcpSockets` | the kernel's sockets as `tcp_server.c` and `tcp_client.c` use them, and the clients | each operation of the two files is one of `AcceptOpens`, `AcceptRefuses`, `Recv`, `Send`, `Close`; the `Peer...` actions are external |
| `HttpServerConnection` | `http_server_connection.c`, `weather_server_instance.c` | `conn[c]` is the structure; receive, send and dispose are actions |
| `WeatherServer` | `main.c`, `weather_server.c`, `http_server.c` and all of the above as tasks | one action per callback, run by `TaskQueue` |
| `HttpService` | what the server promises its clients | abstract, for `WeatherServer` |
| `OpenMeteo` | `open_meteo_handler.c`, `open_meteo_api.c` | `pc` is the step of the request; the variables are the locals and files that outlive a step |
| `HttpClient` | `http_client.c`, `client/main.c` and `tcp_client_connect` | `client` is the structure; one action per state handler, one call of the task per step; `Network` is external |
| `HttpExchange` | what the client's callback may be told, and when | abstract, for `HttpClient` |
| `Cache` | `cache.c`, its list being the sequence that `ItemList` says it is | one action per function; `got` is what the last `cache_get` returned |
| `BoundedMap` | a map whose keys expire and which forgets the oldest | abstract, for `Cache` |
| `Md5` | `hash_md5.c` | `ctx` is `MD5_CTX`, where `absorbed`, the bytes hashed so far, stands for a, b, c and d |
| `MCLinkedList`, `MCWeatherServer`, `MCOpenMeteo`, `MCHttpClient` | the symmetry, requests, queries and responses of the checked instances | |
| `DataLemmas` | lemmas about sequences | |
| `LinkedListProofs`, `SmwProofs`, `WeatherServerProofs`, `OpenMeteoProofs`, `HttpClientProofs`, `CacheProofs`, `Md5Proofs` | the theorems about the modules they are named after | |

`Smw` extends `LinkedList` and is refined on both sides: `LinkedList` implements
`ItemList`, and `Smw` implements `TaskQueue` (the sequence of tasks is the
list's items, what is left of the pass is the suffix that starts at the
cursor). `WeatherServer` runs its tasks with `TaskQueue`, so the pointer
structure does not have to be explored again; `Cache` keeps its entries in the
sequence of `ItemList` for the same reason. `HttpClient` has one task and calls
it directly.

What is abstracted: bytes are counted, not spelled out. A request is its length,
where its headers end, and its first line and Content-Length; a response is its
status, its length, where its headers end and what it announces. The server's
answers are one of four kinds. A query is a sequence of tokens with a name and a
value, of which parsing keeps the last; a cache key is the pair of coordinates
(an MD5 that does not collide). A cache file is whole, partial or absent, with
its date and the place it is about. In `Md5` the message's bytes are told apart
by their places and the rounds of a block are not interpreted. Logging is left
out. `MayFail` with `AllocFail` or `Faults` stands for a call that fails at a
named place. In the texts that the client's callback is given, the bytes of the body
are counted, and `ResponseRoom` and `ErrorRoom` are what the two 256-byte buffers
leave for them behind the status. Undefined behaviour is a choice: a scan beyond
the buffer may crash or find headers there, with any status and length; a freed
path may open the request's own file or none of the cache's and may kill the
process. In `WeatherServer` the handling of `/v1/current` may kill the process at
any time; `OpenMeteo` says when. The clocks do not go back; `main` of the client makes one request, so
the memory it gets from malloc is fresh and zero.

## The runs

Each takes about two minutes or less with two workers.

| run | checks | bounds, and why they are enough |
|---|---|---|
| `linked_list` | `TypeOK`, `ListInv`, `ImplementsItemList`, `ActsOnItsIndex` | five nodes, so that a removal can be at the head, the tail, the middle and of the last node, and the walk of get_index from the tail takes a step back, which lists of four never need; three items; the nodes, which nothing tells apart, are symmetric |
| `smw` | `SmwTypeOK`, `CursorLive`, `TasksSound`, `PassMissesNobody`, `ImplementsTaskQueue`, `EveryTaskRuns` | four tasks, one of which registers others: newcomers arrive before, at and after the cursor while others destroy themselves |
| `weather_server` | `TypeOK`, `DescriptorsOwned`, `TasksMatchConnections`, `AnswerFitsRequest`, `ImplementsHttpService` | two connections and two descriptors; five kinds of request (home page, weather, GET and POST of the echo with a body, and one with surplus bytes) of one to three segments; chunks of four bytes; a socket that takes one byte at a time of an answer of two. The weather may kill the process, so a state without successors is allowed |
| `weather_server_live` | `PatientServed`, `AnsweredIsClosed` | one descriptor for two clients; requests of one segment, of two and with surplus bytes, and first segments from one byte on, so that every exception of the two properties is met: resets, the death of the process, a scan that ran past the buffer, a descriptor held for ever |
| `weather_server_faults` | `DescriptorsOwned`, `TasksMatchConnections`, `EveryPassEnds` | every allocation may fail, the list of instances included; first segments of two bytes. The process may have died, so a state without successors is allowed |
| `open_meteo` | `TypeOK`, `AnswerIsFresh`, `AnswerIsForItsQuery`, `FetchesOncePerTtl`, `EveryRequestEnds` | two locations on one parallel, so that one coordinate is not enough to tell them apart, and queries that name both, name one twice or too few; a ttl of one tick and a clock from 0 to 4, so that a file can be fresh, exactly at the ttl, and expired, twice over; an API that answers, fails, is silent, sends nothing or something else; failures at every step but the opening of a save, kills at any step |
| `http_client` | `TypeOK`, `SocketAccounted`, `RequestGoesFirst`, `ResponseReassembled`, `ReportsWhatArrived`, `ImplementsHttpExchange`, `EveryRequestEnds` | three responses (with body, a refusal with body and surplus bytes, one whose length is not recognised), bodies of 3 and 4 bytes against rooms of 2 and 3, so that both texts are cut; segments of 1, 3 and 5 bytes against chunks of 4, so that the first recv may be too short for the scan, a request of 3 bytes into a socket of 2, a timeout of two ticks; every fault. The request ends, so a state without successors is allowed |
| `cache` | `TypeOK`, `KeysUnique`, `SizeBounded`, `OldestFirst`, `ImplementsBoundedMap` | three keys for caches of size 0, 1 and 2, so that a key can be new, replaced and the oldest; lifetimes of none (expired at once), one and the default of two on a clock from 0 to 3; allocations that fail |
| `md5` | `TypeOK`, `BytesAccounted`, `DigestOfPadding` | blocks of 8 bytes with a length of 2 and messages of up to 36 bytes: every position in a block is the end of a call and of a message, with and without room for the length, and the low word of the count overflows at 16 and both at 32 |
| `short_segment` | finding: `HeadersWereReceived` fails | a first segment of one byte |
| `open_meteo_path` | finding: `PathHeld` fails | a write that fails half way |
| `open_meteo_stale` | finding: `AnswerIsFresh` fails | a save that ends before it has opened the file |

What they show:

- `ListInv`: some order of the live cells, each once, agrees with head, tail
  and both chains of pointers. `ActsOnItsIndex` adds that insert and pop change
  the place they are asked to.
- `CursorLive`, `TasksSound`: a callback may register any number of tasks and
  destroy its own, and `smw_work` still never touches freed memory. The saved
  `next` is safe only because a callback removes no task but its own.
- `ImplementsTaskQueue` pins down when a newcomer is seen: by the current pass
  exactly if the running node was not the last. `PassMissesNobody`: whoever was
  registered when a pass began has been called by its end.
- `DescriptorsOwned`, `TasksMatchConnections`: two-way agreement of the
  kernel's descriptor table, the connections and the task list, with reuse of
  descriptor numbers and with failing allocations.
- `ImplementsHttpService`, `AnswerFitsRequest`: one answer, of the right kind,
  after the last byte of the request, and a close only after the whole answer
  (or when the client has gone).
- `AnswerFitsRequest` says of `GET /echo` that the answer holds the whole
  request, as the home page promises; of `POST /echo` it says only that the
  answer is an echo (see below).
- `AnsweredIsClosed`: once a request is complete its descriptor comes back,
  however the answer is cut up, if its client reads it or leaves, also half way
  through. Three kinds of descriptor leak, and no property denies it: those of
  clients that never complete a request, those of clients that do, stay and
  never read (every `send` is EAGAIN, `http_server_connection.c:80-84`), and
  those of connections that a failed allocation left without task or answer.
- `AnswerIsForItsQuery`: whatever files, faults and restarts come between, an
  answer's weather is that of the coordinates in its own query.
- `AnswerIsFresh` holds with kills, restarts and failures at every step but one,
  and fails when a save ends before it has opened the cache file, because it may
  not or because json_loadb or fopen has no memory (`open_meteo_api.c:579-588`):
  the expired file then stays, and the answer is taken from it.
- `FetchesOncePerTtl`: a location is fetched again only when its ttl is over or a
  fault has cost its saved copy. Without a cache directory no copy is ever
  saved, and the property says nothing.
- `SocketAccounted` says exactly which of the client's endings leave a
  descriptor open: an ERROR before a response, and a TIMEOUT.
- `ResponseReassembled`: of a response in any segments no byte is lost or counted
  twice. `ReportsWhatArrived`: it is reported when every announced byte has
  arrived, not before, first with as much of its body as `response_info` holds
  and then, in a successful verdict, with all of it. Neither says where the body
  is or when the report comes if the first recv brought *fewer than four bytes*:
  the bound of the header scan then wraps (`http_client.c:309`), as it does in
  the server. The run reaches this case (first segments of 1 and 3 bytes), and
  may crash in it or report a response that has not arrived; it is the client's
  twin of the finding `short_segment`. `WholeSegmentsAreSafe` proves that it is
  the only case.
- `ImplementsHttpExchange`: no event before the request and none after the
  TIMEOUT; an ERROR, or one RESPONSE followed by a verdict; no end without a
  word. A TIMEOUT may follow a RESPONSE: it is checked in every state. After a
  first recv of fewer than four bytes only this order is shown, as the mapping
  counts what the scan then finds as a whole response.
- `ImplementsBoundedMap`: every call, also one that fails half way, is a step of
  a map that forgets what has expired and, when full, a key to make room. A
  cache of size 0 keeps one entry: `cache.h:22`, "Maximum number of entries",
  makes no such exception, `cache_set` does.
- `DigestOfPadding`: for any way of cutting a message into calls, the blocks
  that are hashed are those of the message, the 0x80, the zeros and its length.

The three findings are explained in `PROJECT.json`. Also seen while modelling,
and followed by the models:

- `open_meteo_handler_init` "must be called before handling requests" and
  `server/main.c` never calls it (the model lets it happen at any time or never).
- The home page says that `POST /echo` echoes the raw body
  (`weather_server_instance.c:81`), and `:114` sends the whole request back, as
  for GET. `AnswerFitsRequest` leaves the body of this answer out of its claim.
- The repository's README describes an answer with `current.temperature` and
  `coords`; whenever a cache file can be read, the API's own JSON is sent
  (`open_meteo_api.c:251-265`).
- The "16-point compass rose" of `open_meteo_api.c:87` has 15 names:
  "North-Northwest" stands for two of its sectors (`:115`).
- The client's scan for the end of the headers runs past its buffer after a first
  recv of fewer than four bytes (`http_client.c:309`).
- The texts of the client's first RESPONSE and of its ERROR verdict are cut to 256
  bytes, status included (`http_client.c:392-396`, `:419-423`): only the verdict of
  a success has the whole of a longer body.
- In the client, `http_client_get` ignores its `port`; a RESPONSE is reported
  twice, once by reading and once by the verdict on its status; SO_ERROR is
  never EINPROGRESS, so the branch for "Still connecting" is never taken; a
  response without a Content-Length it recognises is reported with an empty
  body; the end of the stream looks like no data, so that an answer cut short is
  only ended by the timeout; and the socket and buffers are not released on the
  paths of an early ERROR and of a TIMEOUT.
- A port that cannot be bound leaves the server running without a listener
  (`http_server.c:17`), and 16, `SMW_MAX_TASKS`, bounds nothing (`smw.h:9`).

Liveness rests on these fairness assumptions. `main` loops for ever and
callbacks return, so the steps of `smw_work` and `ServerStep` are weakly fair.
Only the clients in `Patient` are fair: they send their request to its end and
read what comes. Of the handler of `OpenMeteo`, weak fairness of `Handler` says
that it runs on, and that curl ends a transfer within its timeout. Of
`HttpClient`, `http_client_work` is weakly fair, as the loop of the client's
`main` calls `smw_work` for ever (`client/main.c:36-39`) and getaddrinfo returns,
and so is `Tick`: time passes. No fairness is assumed of kills, faults, restarts,
other clients, the network or the server a client talks to.

- `EveryTaskRuns` needs spawners that are not spawned themselves, as the
  listener is the only task that registers others: `smw_work` has no bound on a
  pass, and two tasks that keep registering each other would hold one for ever.
- `PatientServed` makes these exceptions, which are all the code's: a connection
  that the kernel resets because of surplus bytes left unread at the close; a
  first segment of the client's own under four bytes, which the scan may take
  for headers; the death of the process, which ends service for everybody, in
  the scan of anyone's short segment or in the handling of anyone's
  `/v1/current` (`open_meteo_api.c:770`, `:194`, `:211`); and clients that stop
  half way, or never read, and between them hold every descriptor for ever,
  since nothing times out. `AnsweredIsClosed` and `EveryPassEnds` exempt the death
  of the process too.

## The proofs

Each module of theorems EXTENDS the module it is about. Every theorem that names
a property of a run holds for any value of the constants that satisfies the
assumptions of the modules (`NullAssumption`, `TaskAssumption`, `TcpAssumption`,
`ConnectionAssumption`, `ServerAssumption`, `OpenMeteoAssumption`,
`ClientAssumption`, `CacheAssumption`, `Md5Assumption`), which TLC evaluates in
the runs: for any sets of clients, cells, tasks, requests or keys, any sizes and
any `MaxTime`, and for MD5 with the code's own sizes (64-byte blocks, 2^29 and
2^32) as well as those of the run. Four theorems assume more, in their statement.

**The list** (`LinkedListProofs`). `Inductive`, `TypeCorrect` and `WellFormed`:
`ListInv` is inductive together with the types, so no further strengthening is
needed; the work is in the witnesses. For each operation the proof names the new
order of the cells as a function of the old one (append: one more at the end;
insert at k: everything from k moves up; remove at k: everything after k moves
down) and shows that it is a chain for the new pointers. Insert and pop reach
their node by a walk: `WalkFollows` shows, from a least counterexample, that a
walk of k steps ends where any sequence along the same pointers does, and
`IndexFindsNode` that get_index finds its node from either end.
`IndexIsRespected` (`ActsOnItsIndex`) and `ItemListRefined`
(`ImplementsItemList`) rest on `OneOrder`: the order of the cells that `ListInv`
says exists is the only one, so the sequence of items the refinement maps to is
known before and after a call, and `AppendAdds`, `InsertBeforeAdds` and
`RemoveTakes` compare the two.

**The scheduler** (`SmwProofs`). `CursorNeverDangles`,
`TasksStaySound`, `SmwTypeCorrect`. `CursorLive` is not inductive by itself. That
the saved successor survives a callback needs that the only node removed is the
running one, which needs that a task is the item of one node (`TasksSound`) and
that the running node still holds the running task; and that it is another node
than the running one, which comes from `ListInv` when it is saved
(`PointersLead`). `CallbackInv` states the two facts about the running node, and
`SmwIInv` is the conjunction of all. `NoPassMissesATask` (`PassMissesNobody`) adds
`PassInv`: whoever is still due stands at the cursor or behind it.
`TaskQueueRefined` (`ImplementsTaskQueue`) adds `SuccInv`, that a saved successor
which exists is still the one that follows; the abstract `rest` is then the
suffix of the items that starts at the cursor, and the lemmas on suffixes say
how it changes with a registration and with the removal of the running node.

**The server** (`WeatherServerProofs`). `WeatherServerInductive` proves together
the types, `QueueInv` (a pass runs each registered task once), `WaitInv` (a
client that waits has no connection yet and waits in one place),
`DescriptorsOwned` and `TasksMatchConnections`: neither of the last two is
inductive alone, since a dispose must know that the task that runs is registered
and that its descriptor is its own. `AnswersFit` (`AnswerFitsRequest`) assumes
that a first segment and a chunk have four bytes, and carries `SegmentInv` and
`ProgressInv`: read_buffer holds exactly what was received, and what the scan
found is the request's own. The run `short_segment` shows that the assumption is
needed. `ServiceRefined` (`ImplementsHttpService`) assumes the same and that no
realloc fails, since a chunk that is lost lets the scan believe anything. Its
invariant `SInv` says what each state of a connection knows of its socket, its
client and the bytes written; the proof shows that a step concerns one connection
(`Elsewhere`) and that it is the step of `HttpService` with that name, or none.

**Open-Meteo** (`OpenMeteoProofs`). `OpenMeteoTypeCorrect`, `AnswersItsQuery`
(`AnswerIsForItsQuery`), `FetchesAreRare` (`FetchesOncePerTtl`) from one
invariant: `RequestInv` (a request in progress has the location its query
names), `FilesInv` and `DataInv` (a whole file, and the data in memory, are the
weather of their own place), `FetchInv` (a fetch that no fault has cost is in
its file, with its date). `AnswersFresh` (`AnswerIsFresh`) assumes that no
save ends before it has opened its file (`"save"` is not among the `Faults`), so
that an expired file is at least truncated before the answer is built, and adds
`FreshInv`; `open_meteo_stale` shows that the assumption is needed.

**The client** (`HttpClientProofs`). `HttpClientInductive` is the conjunction of
the types, `MainInv`, `EventsInv` (which events each state can have seen),
`SocketInv`, `SendInv` and `ReceiveInv` (the buffer is what was received, and the
body begins where the server put it unless the scan has run past it). From it
follow `HttpClientTypeCorrect`, `SocketIsAccounted`, `RequestIsSent`,
`ResponseIsReassembled` and, with `StepKind`, which sorts the steps of the
handlers by what they report, `ReportsHaveArrived` (`ReportsWhatArrived`) and
`ExchangeRefined` (`ImplementsHttpExchange`). The two about the response exempt
what they say they exempt, a first recv of fewer than four bytes.
`WholeSegmentsAreSafe` says that this is all: it assumes that no segment and no
chunk is shorter than four bytes, carries `WholeStart` (nothing has been served
and received, or at least four bytes have), and concludes that the scan never
leaves the buffer, the client never dies, and every response is put together.

**The cache** (`CacheProofs`). `CacheTypeCorrect`, `CacheKeysUnique`,
`CacheBounded`, `CacheByAge` are inductive together, with the addition that a
cache that is not alive has no entries. The lemmas on removal and storing are
about any good list of entries, as cache_set changes the list two or three times
in one call. `MapRefined` (`ImplementsBoundedMap`) maps the entries to a function
on their keys, which the uniqueness of keys makes well defined.

**MD5** (`Md5Proofs`). `Md5TypeCorrect` (the buffer
keeps its size, and only whole blocks are hashed), `Md5BytesAccounted`,
`Md5DigestIsPadded` (`DigestOfPadding`): the three properties are inductive
together, and nothing has to be added. The work is in what a call does. A context
*holds* the blocks absorbed and the used part of its buffer; `UpdatedIs` shows
that MD5_Update appends its bytes to what is held, whichever of its three
branches it takes, and `FinishedIs` that MD5_Final absorbs what is held, the
0x80, the zeros and the length, with room for the length or without. They rest on
division with a remainder (`DivModIs`), on `WrapKeepsPlace` (the place in the
block survives the wrap of the low word, as 2^29 is a multiple of 64: the
assumption `LoMod % Block = 0` is needed), on `CarryIs` and `WordsAre` (lo and hi
count as one number, though the code finds the carry by comparing lo with its old
value), and on lemmas about writing into a buffer and cutting a sequence. There
is no induction over the calls but that of the invariant: a context that has a
message of n bytes (`Has`) is taken by each call to one that has its message.

Only model-checked: liveness (`EveryTaskRuns`, `PatientServed`,
`AnsweredIsClosed`, `EveryPassEnds`, and `EveryRequestEnds` of both modules),
which is beyond the prover, as is ENABLED. The prover cannot do induction over
data either; the proofs avoid it, with a least element in `WalkFollows` and with
sequences compared place by place in `Md5Proofs`. No module that a proof uses
declares a RECURSIVE operator.

## Not modelled, and what is left

- `utils.h`: reads a clock whose value no task of the server uses; `HttpClient`
  has it as `Tick`.
- The disposal of the TCP, HTTP and weather servers: it comes after `main`'s
  endless loop.
- The texts of answers, the parsing of JSON, the names of units, codes and
  compass points, the hexadecimal form of a digest and the rounds of MD5:
  formatting and arithmetic without state.
- The time for which curl blocks the loop, and its overlap with other
  connections: `OpenMeteo` and `WeatherServer` are not composed, as the one runs
  to its end within one callback of the other.
- A sum of body_start and Content-Length that wraps (`size_t`); the fields that
  `http_client_init` leaves as malloc returned them when a second request is
  made in one process, which the program does not do; connections whose
  instance, task or response could not be allocated are modelled, and no
  property says that they end, as they do not.

What could be added next: a second request in the client's process with memory
that is not fresh, and the composition of the client with the server over one
network in place of the external one that each of them has now.
