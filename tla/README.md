# ht_xlcpp in TLA+

ht_xlcpp is a gateway server: a libevent reactor whose connections run scripts
written in XML, with an in-memory database of binary tables that are saved to
files. These modules describe its core, TLC explores small instances of
them, and TLAPS proves the most important invariants for every value of the
constants.

    tlc -workers 2 -config Routing_row.cfg MCRouting.tla
    tlapm Packets_proofs.tla

`PROJECT.json` lists the runs with their configurations, the source lines
behind each definition, one plausible error of the code per property, and the
hazards the properties are for.

## 1. The system

One thread runs the event loop (`WIZBASE_RunLibEvent`). Everything below
happens in its callbacks; `GB_Lock` is compiled away unless `WIZ_THREAD` is
set. A second thread appends UDP datagrams to a file and shares nothing.
There is no test suite; the README of the repository has two lines. Comments
and error messages are what the program says about itself.

| component | state | operations | talks to |
|---|---|---|---|
| connection pool (`ConnQueue.cpp`, `WizBase.cpp`) | doubly linked list of `Conn`, `ConnNum`, per-connection flags, timers | accept, connect, the read, write and event callbacks, the reconnection task, `CONN_OBJ_CREATE`, `CONN_OBJ_CANCLE`, `START_TIME_TASK`, `CANCLE_TIME_CYCLE`, `CloseAfterSend` | libevent; the scripts of its connections |
| packet framing (`echo_read_cb`) | `buffer`, `packet_len`, `bufstate`, `case_step`, `proc_step` | one case of the loop at a time | libevent's input buffer; the script of a step |
| routing (`echo_read_cb`) | `rsend_str`, the header in it | forward, deliver, return an error | connections by name |
| send queue (`ObjectProcess.cpp`, `SendNodeQueue`) | `sendQueue`, the slot `doCellObj` | `SEND_MSG`, `DO_QUEUE_SEND`, `DO_QUEUE_RACT`, `CHK_QUEUE_TIMEOUT`, `DO_QUEUE_SIZE` | the upstream connection; the scripts of the clients that asked |
| session store (`Session`) | two maps, `SessionBuf` and `SessionTime` | `NEW`, `GET`, `DEL_TIME_OUT` | scripts |
| table files (`FileQueue.cpp`, `AvartarDB_Base.cpp`) | open streams with the length noted at the open | `LoadDB`, `SaveDB`, `SaveDBNode`, `COMMIT_ALL` | database actions |
| table tasks (`AvartarDBManager.cpp`) | task rows with a state and a time, `TASK_START` and `CYCLE_ADD` | `TASK_CYCLE_RUN`, `@CYCLE_ADD` | scripts, database |
| registered tasks (`AvartarDBManager.cpp`) | status and time of each row, the row `DoRegTable_Rec` is at, messages to the cloud | `DO_REG_TABLE_MAIN`, `DO_REG_TABLE_CALLBACK` | scripts, the connection to the cloud |
| database actions (`AvartarDB_Action.cpp`) | the tables: rows, index array, `AddInfo`, upload flags, change marks | `ACTION_WRITE`, `ACTION_DELETE`, `ACTION_READ` | byte objects, files, sort indexes |
| byte objects (`ByteBase.cpp`) | none (in-place buffers) | cells, arrays, tables | |
| sort indexes (`AvartarSortObj.cpp`) | two maps, field value to row number and back | insert, delete, seek | database actions |
| global time tasks | one one-shot timer per `__TimeProcess`, counters | `TimeLimitCallback` | scripts |
| script interpreter (`Parse*.cpp`, `ObjectProcess.cpp`) | the map of names `AddParas`, objects, the C++ stack | control nodes, about 200 functions | everything above |
| WebSocket frames (`cws.cpp`), TLS (`ConnSSL.cpp`), start-up, string and platform helpers, character sets, HTTP configuration, QQ plug-in | little or none | | |
| third-party code: pugixml, libevent, sha1, base64 | | | |

What is hard in this program:

- **Callbacks nest.** A script runs inside a callback and may create, close or
  rename connections, start timers and send on other connections. The callback
  goes on afterwards with pointers it took before. `CHK_QUEUE_TIMEOUT` and
  `DO_QUEUE_RACT` run scripts of other connections in the middle of a change
  of the queue's slot. A script that `TASK_CYCLE_RUN` starts may add rows to the
  table the cycle is walking over.
- **Names are not identities.** Connections are found by `obj_name` or by
  `obj_name_orign`, some lookups see only active ones, and accepted
  connections share the name of their Listen node. Script parameters and loop
  counters live in one map of names per object, whatever the nesting.
- **Positions are not identities either.** A table's rows, its index array, its
  sort index and its change marks are tied together by row numbers only.
- **Raw pointers are kept.** Timers hold a `Conn*`, queued requests hold a
  `srcObj`.
- **Bytes arrive in any division**, with bytes that belong to no packet.
- **Answers are late or never come**; timeouts free the slot first, and a main
  task is due again whether its round trip has ended or not.
- **Steps fail half way** and take nothing back: an action on several rows, a
  row written field by field.
- **The process may die between two writes** of one save, and a write may fail,
  which nobody notices.

What makes each component correct:

- pool: nothing leaked or deleted twice; no callback returns into a deleted
  connection; no timer outlives its connection; one connection for each thread
  slot, and one again after each failure;
- framing: the packets handed over are the packets sent, whole, once, in order
  and as soon as they are there; the loop ends;
- routing: a packet is where its `dest_point` says, comes to a script only at
  its destination, ends once, and is not dropped silently;
- send queue: requests keep their order, callbacks run once and in order, an
  answer reaches the request it answers, no request waits for ever; and, with its
  connection, nothing of the queue outlives the connection it was for;
- sessions: a session in use survives, an unused one does not, the two maps
  stay inverse to each other;
- files: after a crash a table has what it had before or after the save that
  was going on, and a failed write does no harm beyond the next commit and save;
- table tasks: a task that was added is run when it is due, and is not lost when
  the ring wraps, a row fails or the process restarts;
- registered tasks: the sons of a main task run in order, once per round trip,
  and every main task gets its turn;
- table rows: a row and its id, its sort entry and its copy in the file stay
  together; no row is changed in place of another; a change nobody has read
  stays marked;
- interpreter: each node finds its own parameters and counters, packets cut from
  an object are handled once, scripts end.

## 2. The modules

| module | what it is | run by | proofs |
|---|---|---|---|
| `ConnPool` | the pool, its callbacks and timers | `MCConnPool` | `Upstream_proofs` |
| `SendQueue` | the send queue of one upstream | `MCSendQueue` | `SendQueue_proofs` |
| `Upstream` | `ConnPool` and `SendQueue` composed: one upstream as a whole | `MCUpstream` | `Upstream_proofs` |
| `SessionCache` | abstract: what scripts see of sessions | through `SessionStore` | `Stores_proofs` |
| `SessionStore` | class `Session`, implements `SessionCache` | `MCSessionStore` | `Stores_proofs` |
| `TableFile` | one table and its file, write by write | `MCTableFile` | `TableFile_proofs` |
| `TableRows` | rows, ids and sort index of one table | `MCTableRows` | `TableRows_proofs` |
| `TableSync` | upload flags and change marks of one table | `MCTableSync` | `Stores_proofs` |
| `TaskTable` | a table of tasks as a ring | itself | `TaskTable_proofs` |
| `RegTable` | registered tasks and their round trips | `MCRegTable` | `RegTable_proofs` |
| `PacketRead` | the loop of `echo_read_cb` on one connection | `MCPacketRead` | `Packets_proofs` |
| `Routing` | routing packets in a network of gateways | `MCRouting` | `Packets_proofs` |
| `Script` | the control nodes of the interpreter | `MCScript` | `Stores_proofs` |

How they fit together:

- `PacketRead` and `Routing` describe the same function from two sides: the
  first follows one connection's bytes and leaves open where a routing packet
  goes, the second follows whole packets through many gateways. `ConnPool` takes
  one pass of that loop for one script step and leaves the bytes out.
- `SendQueue` takes from the pool which clients exist and whether the upstream is
  connected; `Upstream` replaces the second by the pool itself.
- `TableFile` has the single writes of a save, with a crash between any two;
  `TableRows`, `TableSync` and `TaskTable` take a save as one step and follow
  what is saved when.
- `Script` is what runs inside the `Script...` actions of `ConnPool`, the frames
  of `SendQueue.stack` and `PacketRead.CaseProcess`. Those allow a script to do
  anything; `Script` shows what the interpreter itself keeps in order.

Where no run names the type invariant, it is a part of the first invariant of
the run, so that a state outside of it is reported there.

### ConnPool

The state is that of the C++ objects: `live` (the objects that exist), `list`
(the linked list between its sentinels), the two counters, and a function for
each field of `Conn`. An address is used again after `delete`. `ctx` is libevent's
record of armed timers.

A callback is not atomic. `cb` and `cur` say which callback is running and for
which connection; while it runs, every `Script...` action may happen any
number of times, in any order, and `CreateStep` goes through the slots of
`WIZBASE_create_connect_obj` one by one, because each lookup sees the
connections made before it. `cb = "idle"` is the event loop.

| action | code |
|---|---|
| `Accept`, `Connected`, `ConnError`, `Read`, `ReadHandshake`, `ReadShort`, `Drained`, `TimerFire`, `LimitTick` | the callbacks that libevent calls |
| `EndError`, `EndRead`, `EndScript`, `EndLimit` | what they do after the script |
| `CreateSkip`, `CreateConn`, `CreateFail` | one slot of `WIZBASE_create_connect_obj` |
| `ScriptCreate` ... `ScriptRename` | the script calls that touch the pool |

Assumptions. A script does not close its own connection with
`CONN_OBJ_CANCLE` (the source says to use `@_CLOSE_AFTER_READ`); the name of a
slot is no Listen node's or user's name (`SlotAssumption`); the tail of the
connection's list is never passed (the sentinels are not modelled).
`RestartTimers` says whether scripts start the timer of a connection that has
one: `TimersOwned` needs that they do not (section 3 says what happens if they
do).

### SendQueue

One upstream, its `queue`, its `slot`, and the clients that send through it.
`stack` holds the scripts that are running: an answer's script calls
`DO_QUEUE_RACT`, which runs `_RACTIONS` of a client, which may send; a timeout
runs a script of the upstream before the slot is marked. `wire` is what
the peer has not answered; it answers in order or not at all. `orphaned`,
`abandoned`, `written` and `calls` are history, and so is `sent` of a running
timeout script.

Assumptions. A script calls `DO_QUEUE_RACT` at most once (`acted`). There are no durations: a timeout may come whenever the
slot is `SENDED`. An immediate send happens only once the upstream is connected:
before that `SendCBFunc` is uninitialised and the call has no outcome to model.

### Upstream

`Upstream` extends `ConnPool` and adds `Q`, an instance of `SendQueue`; its own
`UpInit`, `UpNext` and `UpSpec` combine those of the two. `Hub` is the connection that has the upstream's name. An action of the
composition is a step of both (`HubConnected`, `HubError`, `HubRead`, `HubTime`,
`HubDrained`: a callback of that connection starts a script of the queue;
`HubReturns`: the script ends and the callback returns) or of one with the other
unchanged, where the guard says when: steps of the queue belong to scripts, so a
callback has to be running; the event loop goes on only when no script is.

`Careless` lets a script of another connection, or the `_RACTIONS` of a client,
close the upstream by name while a script of the upstream runs. The code does
not prevent it (section 3); the run is about configurations that do not.
Clients' own callbacks are not followed: a client's `SEND_MSG` comes when the
event loop is idle or from its `_RACTIONS`.

### SessionCache and SessionStore

`SessionStore` keeps the two maps and the composed keys (`seconds << 32`
plus two 32-bit numbers whose sum may carry). `Cache` maps it to the
abstract cache: a session's data and the second of its last use. `used` is the
history variable the mapping needs: the time keys alone do not determine the
last use because of the carry, which is why `SessionCache` leaves one second open
in a sweep. Keys are assumed to be distinct, as `New` assumes. `AgeAssumption`
keeps ages below the clock: the bound of the sweep is unsigned and would wrap.

### TableFile

A file is a head (the number of rows) and the rows; a save is a list of
`pending` writes and each write is a step, so that `Crash` can come between any
two. `saved` and `goal` are history: the rows at the last completed save and at
the save that was begun. `length` is what the `FileQueue` entry noted when the
file was opened. Objects are deleted and created again within one process as
well as after a crash.

Any write may fail (`WriteFails`). Nothing in the code looks at the stream, so the
save is reported as done, and `good` stays false: the stream refuses all that
follows, until `COMMIT_ALL` closes the file and opens it again (`Commit`). `lag` and
`mixed` are history: `lag` says whether saves were lost and whether the
file was opened anew since, `mixed` that single rows were then saved to a file
whose other rows are old. The fault model has no partial cells, and a file that was
opened once can be opened again: otherwise `Commit` leaves the entry with a stream
that is deleted.

### TableRows

`table` has the rows, the index array and `INDEX_MAX_NUM`; `sort` the two maps of
`AvartarSortObj`; `disk` what a restart loads. Ids and rows are two sequences, as
in the code, and nothing but the position ties them. A write (`Written`) is the
composition of what `WriteBufferToDB_OneNode` does in that order: find the row
or append row and id (`Found`), write the fields (`WithFields`, which may fail
after the append), set `INDEX_MAX_NUM` (`WithMax`); `SortWritten` is the insert
into the sort index.

| action | code |
|---|---|
| `WriteOne`, `WriteTwo` | `ACTION_WRITE` with one row (`SaveDBNode`) or two (`SaveDB`) |
| `Delete`, `DeleteBatch` | `ACTION_DELETE`, its branch for one id and the one for an array of ids |
| `Crash` | a restart; the sort index is built from what was loaded |

`torn`, `lost`, `unsaved` and `given` are history. Assumptions: a full row and a
full index array have the same size; `INDEX_MAX_NUM` is not the first field of
`AddInfo` (section 3). `AnyId` lets scripts write ids that were never given out;
`Careless` lets them delete rows of a sorted table and change its sorted fields.

### TableSync

`flags` says of every row whether its upload flags are not 0, `marks` is the set
of bits of `REC_CHG_MARK`, one for every `BitStep` rows, and `owed` is history: the
rows with a change that no query has read. `Looked` is the loop of
`BuildBufferFromDB_AllNode`; `LookFrom` is one turn of it, which may jump over a byte
(`EmptyByte`) or a bit without a mark;
`Reached` and `Read` are the rows it clears and the rows it returns, which differ
when there is a page. `Query` and `QueryForbidden` are its two ends, `ReadOne`
is `BuildBufferFromDB_OneNode`.

`Strict` is what the scripts have to see to: who clears flags reads all that is
flagged (no page, no conditions, no access mask), who reads by marks clears flags,
and rows of a table with marks are not deleted. Rows of a marked table whose bit
is behind the data are not written (`HasBit`), because that sets bits of other
data (section 3).

### TaskTable

`rows` is the field `TaskField` of every row: free, or the time the task is due.
The states `START`, `RCB` and `WAIT` choose the node a script starts at; they are
one here. `scan` holds the local variables of
`DoTaskTableCycleRun`, which are read once when a cycle begins (`BeginCycle`); a
step is one row (`PassFree`, `PassLater`, `Run`, `Abort`), so that `CycleAdd`,
`CycleAddIfFree` and `PlainWrite`, the three ways a script adds a task, can come
between two. They come in the middle of a cycle only while a row is due
(`ScriptMayRun`). `open` and `owed` are history.

`Room` is what scripts have to see to: that a full ring is not written over its
start. `Overrun = TRUE` lifts it (section 3).

### RegTable

`MainOf` gives the main task of each row; rows of one group are consecutive.
`call` holds the local variables of the call that is going on, `cursor` is
`DoRegTable_Rec`, which the main call uses as its loop variable and keeps for the
next one. `flight` counts the messages on their way, because an answer names its
row and nothing else. A step is a row; `DoCloud` ends the call.

`Punctual` says that a main task is not due again while its round trip is under
way. The code does not check that (section 3).

### PacketRead

One action per case of the loop; every `break` with `while_break` ends the
callback and the next chunk starts it. A byte is a number: below 10 it is a
length, the others are marks or data. `due` is what has to be handed over:
the packets of `stream`, and strings that scripts reload, at the place they
belong. Lengths go through `AsInt` and `AsSize` as in the code, with small
widths.

Abstractions. `"@~@"`, a handshake's `MatchStr` and `EndHex` are one byte each
(that `"@~@"` may be split between chunks is not covered; the source
says so in a comment); an `EndHex` that cannot be decoded is left out; `MinLen`
is at least 1. `Confs` holds the configurations of a connection together with
what its peer may send; a behaviour picks one of them.

What a peer may send is `Framed`, which `ReadAssumption` asks of every stream: items,
each a packet or bytes to skip. A packet is what the configuration says a packet is
(`Normal`, `Routed`, `Handshake`): it has `MinLen` bytes, begins with `BeginHex` and has
its length where `Len` looks for it, or `EndHex` at its end only. The other conditions are
what the code relies on to find the begin of the next packet again, and `Inside` and
`First` name them. No place in skipped bytes looks like a begin. No routing packet comes
right behind skipped bytes, because `CASE_NORMAL_STEP` is not left while it skips and does
not look for `"@~@"`. And where a start step is missing, so that `CASE_END` clears the buffer
in the middle of a packet, no place inside of a packet looks like a begin, no routing packet
comes and nothing is reloaded.

Scripts do anything that steers the loop: `@_NEXT_STEP`,
`@_CLOSE_AFTER_READ`, `@_SYS_RELOAD`, `@_SYS_ROUTING`. The stream ends, so
deadlock is not an error in this run.

### Routing

`conns` has a pair for each active connection and its name, `wire` the packets
that are written, `work` the `rsend_str` of the callback that is running at a
gateway. Two ends of a connection come up together and are lost one by one, so
that a gateway may write to a peer that is gone. Places in a path are counted
from 1. A connection is named after the gateway at its other end and a path
begins with its sender: the configuration has to see to both. `sent`,
`handled` and `broken` are history.

### Script

`stack` is the C++ stack of `ParseAction`, `CALL`, `SWITCH` and `FOR`, a frame for
every node whose body is running; `paras` is the object's `AddParas`, which
outlives scripts; `kept` is the object `CutObj`. The tree of nodes is not a
constant: while a body runs, any node may come next, and a test or `BreakTest`
may hold or not. A behaviour of the module is a run of some configuration.

| action | code |
|---|---|
| `GoAction`, `Actions`, `BlockEnd` | the script of a step, nested `ACTIONS` |
| `Call`, `Callback`, `CallEnd` | `CALL` of a function, of an `ActCBID`; their names leave the map |
| `Switch`, `CaseTrue`, `Default`, `Break`, `SwitchEnd` | `SWITCH`, simple and `Deep` |
| `ForRange`, `ForList`, `ForNext`, `ForTurnEnd`, `ForEnd` | `FOR` with a counter or over a list of any type |
| `Collect`, `ForCut`, `CutNext`, `CutTurnEnd`, `CutEnd` | `CUT_LEN` with `LenStart` and `LenLen` over an object that grows |

The names are `{@_f_attr}`, `{@_f_CBID}`, `{@_FOR_NUM_k}` and `{@_FOR_VALUE_k}`;
`{@_FOR_SIZE_k}` and `{@_FOR_NODE_k}` come and go with the last two. `ParseAction`
is that of `ObjectProcess` (`ObjectProcess.cpp:397`); the one of the base class is
never run.

Assumptions. `Careless` is false: a function is not called within a call of
itself, a callback not within a callback, and nothing collects or cuts within a
cut (section 3). Lengths are valid and the text is hex, which has no zero bytes.

## 3. The runs

All runs are expected to pass, and each property has a plausible error of the code
in `PROJECT.json` (`mutants`) that violates it.

| run | instance | shows |
|---|---|---|
| `pool_life` | 3 connections, 2 thread slots and a plain one, 2 accepted, 2 timers; 1,900,000 states up to symmetry | `CountsAgree`, `OneConnPerThread`, `CallbackConnLive`, `TimersOwned`, `ConnectingLeavesByEvent` |
| `queue_calls` | 2 clients, 3 requests; 1,780,000 states up to symmetry | `Ordered`, `CallsLive`, `AnswerBelongs`, `TimeoutHitsExpired` |
| `upstream_served` | an upstream, another connection, 1 client, 2 requests, fair; 66,000 states | `QueueHasConn`, `Served`, `Reconnects` |
| `session_cache` | 2 sessions, 3 seconds, keys that carry; 31,000 states | `MapsSound`, `ImplementsCache` |
| `table_saved` | 3 rows, 2 values, crashes and failures at any write; 1,580,000 states up to symmetry | `FileCurrent`, `Recovered` |
| `table_rows` | 2 rows, 4 ids, 2 values, a restart; 29,000 states up to symmetry | `RowsIndexed`, `SortSeeks`, `Saved`, `NeverReused`, `OthersKept` |
| `table_sync` | 5 rows, 2 bytes of 2 bits, 2 rows to a bit, a restart; 3,000 states with every query in each | `Tracked`, `MarksExact` |
| `task_ring` | 4 rows, 2 times, a restart, fair; 213,000 states | `OpenKept`, `DueServed`, `CycleEnds` |
| `reg_rounds` | 2 main tasks with 3 sons and 1, 3 rows for the cloud, fair; 3,400 states | `InOrder`, `OneTrip`, `Rotates` |
| `packet_all` | 4 configurations, 9 streams, fair; 7,400 states | `Exact`, `Prompt`, `Returns` |
| `routing_row` | 3 gateways in a row, 2 requests, fair; 23,000 states | `AtItsPlace`, `AtDestination`, `OneEnd`, `NothingLost`, `Settles` |
| `script_nested` | 4 nodes per script, 4 frames, 4 call nodes, 3 packets, fair; 154,000 states | `OwnParas`, `CutOnce`, `Ends` |

Why the bounds are enough. Two connections are what a lookup can confuse and
three leave one in the middle of the list; two timers are what overwriting
`time_ev` needs. Plain slots are in `pool_life` because their lookup is another
one. Three requests give one in the slot, one waiting and one that
arrives, and the answer of the first can come when the third is in the slot. In
`upstream_served` a second request may be made on the next connection while the
first was lost with the old one. Two sessions and three seconds let a sweep take
one and leave one, and a carry reach the next second. Three rows of a file let a
deletion move a row that is neither the first nor the last. Two rows of a table
leave one behind or before the one that is deleted and make it full; the third
id is new after a deletion and the fourth is the one of `ff` bytes. Five
rows over two bytes of marks give a byte without marks, a byte with one, a bit
whose second row is missing. Four task rows are one more than a start, an end and
a row between; the ring is also empty, full and shorter than the table. A group
of four rows has local rows before, between and behind those for the cloud; a
second group lets an answer of one come while the other runs, and ends with the
table. The streams have two to four packets with payloads
that look like the begin of a packet, in every division into chunks of up to
seven bytes, which is two whole packets; one configuration lets more arrive than
a read takes. Three gateways give a place before, at and behind the
middle; a second request is what could be confused with the first. Two nodes that
call the same function, one after the other or through a callback, are what the
map of names can mix up; a nesting of four has a loop in a call in a loop; a
packet of one byte is only a length, and packets are cut in pieces by
`Collect` at every byte.

### Where the code differs from what it says

These were met while modelling. The models contain them (an action allows them, or
does when the constant that is named here is set), and the properties name the
exception or the configurations leave it out, as said here. No run is spent on
them.

Connections and queues:

- `WizBase.cpp:1624`, `1653`: a second `START_TIME_TASK` forgets the first timer,
  which fires for a deleted connection; the test of the callback is commented out
  (`RestartTimers = TRUE` violates `TimersOwned`).
- `WizBase.cpp:1551`: a `CONNECT` node without `ThreadCount` is dialled again at
  every tick while its connect is in progress. `OneConnPerThread` speaks of
  thread slots only.
- `ObjectProcess.cpp:820`: a queued request's client is tested by name. Another
  client of the same name passes the test for one that is deleted, whose object
  is then used (`NameOf` with a shared name violates `CallsLive`).
- `ObjectProcess.cpp:757`: a client's `Rstate` says `0x08` (failed) for a request that
  stays queued and is written later. `Rstate` is not modelled.
- `ObjectProcess.cpp:1110`: a timeout script that sends the next request has that
  request cancelled. `TimeoutHitsExpired` names the exception.
- `ObjectProcess.cpp:789`: an immediate send to an upstream that is still
  connecting calls `SendCBFunc`, which nothing has set.
- `ObjectProcess.cpp:1098`: `CHK_QUEUE_TIMEOUT` looks for the first connection of
  a node; the queues of its other threads are not checked. `Upstream` has one
  thread.
- `ObjectProcess.cpp:1109`, `941`: a timeout script, or `_RACTIONS` of a client,
  that closes the upstream by name deletes the object that runs it (`Careless` of
  `Upstream` violates `QueueHasConn`).

Framing:

- `WizBase.cpp:921`: a `Len` that is no number is not noticed, because `NaN` is
  compared after its conversion: the connection waits for about 2^64 bytes.
- `WizBase.cpp:764`: a read takes one buffer; when TLS has decrypted more, the rest
  waits for the next arrival.
- `WizBase.cpp:796`: one useless byte stays in front of the handshake, so that its
  script gets more than the packet. The handshakes of the streams have at most one
  byte in front.
- `WizBase.cpp:905`: a begin mark that arrives in two chunks loses its packet,
  unless `MinLen` covers it. The configurations have such a `MinLen`.
- `WizBase.cpp:1059`: a reloaded string is thrown away with a packet that has
  neither `Len` nor `EndHex`. The configurations have one of them.
- `WizBase.cpp:1011`: a script that asks for the close and names a next step has
  that step run (`Process` allows it).

Files and tables:

- `FileQueue.cpp:27`, `123`: "read all" reads as much as there was when the file was
  opened. A table whose file was made by this process is refused as empty when its
  object is created again, and of one that has grown the later rows are whatever
  was in memory (`Garbage`, which `Recovered` and `FileCurrent` except).
- `FileQueue.cpp:160`: after a failed write every save of the table reports success
  and reaches nothing, until a script calls `COMMIT_ALL`; the rows that were lost
  come back only when all rows are saved (`lag`, `mixed`). A table whose object
  is created in between is read as zero bytes.
- An index array that is sized for fewer rows than the table: the append of the row
  succeeds and that of the id fails, and rows and ids no longer correspond.
- `AvartarSortObj.cpp:54`: the comment says that inserting replaces; `map::insert`
  does not. After an update the index finds the row by the old value; after a
  deletion the numbers behind it are one too high (`Careless` of `TableRows`
  violates `SortSeeks`).
- Ids that scripts choose above `INDEX_MAX_NUM` are given out again later, and the
  new row is written over the old one (`AnyId`, `OthersKept`). Below 2
  `INDEX_MAX_NUM` is not used, so id 1 is (`NeverReused` names it).
- A batch of `ACTION_DELETE` takes the whole array for each id: with two or more
  ids nothing is deleted and success is reported. `OthersKept` says that nothing
  else is deleted instead. The deletion of son objects of a row skips every second
  one for the same reason as any loop that erases and advances.
- A new row whose fields fail stays, with its id, and each retry adds another
  (`torn`, `unsaved`); when a later row is saved by `SaveDBNode` the file has a hole
  there (`Holes`).
- `AvartarDB_Action.cpp:3707`: the access mask ends the query with an error where it
  should filter (so its comment asks); flags cleared before that stay cleared.
- `AvartarDB_Action.cpp:3186`: the bit for a row behind `max_num` is set behind
  the data. `data_bit` is a `BYTE`, so that more than 256 rows to a byte of marks
  mix up; a `data_len` greater than the rows divides by zero.
- Marks are cleared even if the query ended with its page; a page that starts at 0
  has one row less; a deletion does not move the marks (`Strict = FALSE`
  violates `Tracked`).
- The upload flag means "was read", not "has arrived": an answer that is lost
  loses the change for its reader.

Tasks:

- `AvartarDBManager.cpp`, `@CYCLE_ADD` on a full ring: the end pointer is never
  compared with the start pointer. The ring then looks empty, and a cycle runs one
  row (`Overrun = TRUE` violates `OpenKept`).
- What a script returns is written to `TaskField` and not saved: tasks that are done
  are there again after a restart (`Crash` loads them; `open` does not count them).
- A row whose script returns something of another length ends the cycle
  (`Abort`); when it is due again the rows behind it wait again, for as long as it
  fails. `DueServed` leaves out broken cycles.
- `@CYCLE_ADD` with conditions reads the row first, which fails for a row that does
  not exist: such a table never grows (`CycleAddIfFree`).
- The first field of `AddInfo` can be read but not set.
- A main task is locked (`枷锁主任务`) but the lock is not tested: one that is
  due again runs again, whatever is on its way (`Punctual = FALSE`
  violates `InOrder` and `OneTrip`).
- `AvartarDBManager.cpp:601`: an error in a call back unlocks the row that was
  answered, not its main task; a main task that was switched off is switched on by a
  late answer; a main task that fails and is due at every call keeps those behind
  it from running (`Punctual` leaves that out).

Scripts:

- `ParseProcess.cpp:1540`: a call of a function within itself, or a callback within
  a callback, takes the outer's names with it when it ends; the comment says so
  (`Careless` of `Script` violates `OwnParas`).
- A simple `SWITCH` goes on to every later `CASE` that holds and to `DEFAULT`, unless
  `BREAK` stands directly in the body; inside `ACTIONS` it ends only those. With
  `DEFAULT` alone it returns an error, and `Deep` never runs its `DEFAULT`.
- `ObjectProcess.cpp:406`: `ErrBreak` is inverted: with `'true'` an error never
  ends the script, with any other value (and `ErrTo`) it does.
- `ParseProcess.cpp:2285`: `Step` 0 loops for ever (`ScriptAssumption` leaves it
  out), and so does `CUT_LEN` with a packet length of 0.
- `ParseProcess.cpp:2366`: a packet that is nothing but its length field waits for
  one more byte (`IsWhole`; `>` where `>=` is meant).
- `CUT_LEN` with `Len` leaves the last packet in the object, which is handled again;
  with `LenStart` the error exit leaves those already handled there. The module
  has the `LenStart` mode without errors.
- The second `CUT_LEN` branch (`2479`) is unreachable; a counter is not visible to
  its loop's `BreakTest`; node sets are walked by index, which shifts when the
  body deletes nodes; in a condition an operand without an operator takes the
  previous one's (`ParseBase.cpp:102`).

### Fairness

- `Reconnects`: the event loop fires its timer (`LimitTick`), a callback goes on
  until it returns, a created attempt is not refused by the local system for ever
  (`CreateStep` that makes a connection), and a peer that is dialled again and
  again connects sometime. Strong fairness, because errors and other callbacks
  disable these in between.
- `Served`: scripts end, and the upstream's `_TIME_TASK`, a persistent timer,
  runs `CHK_QUEUE_TIMEOUT` and `DO_QUEUE_SEND` again and again. Without such a
  task requests do wait for ever: nothing else in the code sends the next one.
- `CycleEnds`: a cycle is one call and goes on until it returns.
- `Rotates`: a timer calls `DO_REG_TABLE_MAIN` again and again, and a call goes on
  until it returns. Nothing is assumed of answers.
- `Returns`: the cases of the loop follow each other without waiting for
  anything, and scripts do not name a next step for ever (strong fairness of the
  script that ends without one).
- `Settles`: gateways run, and written packets are read or lost with their
  connection.
- `Ends`: the interpreter goes on until the script ends. That a script is finite
  is `MaxActs`; that loops come to their end is what is checked.

## 4. The proofs

| theorem | module | from |
|---|---|---|
| `TypeCorrect`, `CountsAgreeHolds`, `CallbackSafe`, `OneConnPerThreadHolds`, `ConnectingLeavesByEventHolds` | `Upstream_proofs` | `SlotAssumption` |
| `TimersOwnedHolds` | `Upstream_proofs` | also `~RestartTimers` |
| `UpstreamImplementsPool` | `Upstream_proofs` | `SlotAssumption`, `UpstreamAssumption` |
| `QueueHasConnHolds`, `UpstreamImplementsQueue` | `Upstream_proofs` | also `~Careless` |
| `OrderedHolds`, `AnswerBelongsHolds`, `TimeoutHitsExpiredHolds` | `SendQueue_proofs` | `SendQueueAssumption` |
| `CallsLiveHolds` | `SendQueue_proofs` | also that no two clients have the same name |
| `SessionTypes`, `IndexSoundHolds`, `StampSoundHolds`, `MapsSoundHolds`, `SessionRefinesCache` | `Stores_proofs` | `SessionAssumption`, `AgeAssumption` |
| `TrackedHolds`, `MarksExactHolds` | `Stores_proofs` | `SyncAssumption`, `Strict` |
| `OwnParasHolds`, `CutOnceHolds` | `Stores_proofs` | `ScriptAssumption`, `~Careless` |
| `FileCurrentHolds`, `RecoveredHolds` | `TableFile_proofs` | `TableAssumption` |
| `RowsIndexedHolds`, `SavedHolds`, `NeverReusedHolds` | `TableRows_proofs` | `RowsAssumption` |
| `SortSeeksHolds` | `TableRows_proofs` | also `~Careless` |
| `OthersKeptHolds` | `TableRows_proofs` | also `~AnyId` |
| `OpenKeptHolds`, `DueServedHolds` | `TaskTable_proofs` | `TaskAssumption`, `~Overrun` |
| `InOrderHolds`, `OneTripHolds` | `RegTable_proofs` | `RegAssumption`, `Punctual` |
| `ExactHolds`, `PromptHolds` | `Packets_proofs` | `ReadAssumption` |
| `RoutingTypes`, `AtItsPlaceHolds`, `AtDestinationHolds`, `OneEndHolds`, `NothingLostHolds` | `Packets_proofs` | `RoutingAssumption` |

Each of these modules first proves that its strengthened invariant holds
(`PoolInvariant`, `UpstreamInvariant`, `SendQueueInvariant`, `SessionInvariant`, `FileInvariant`,
`RowsInvariant`, `ScriptInvariant`, `TaskInvariant`, `RegInvariant`, `ReadInvHolds`, `RoutingInvariant`,
`EndInvariant`); the theorems of the table follow from it. All theorems are of the specification without
fairness (`Spec`, `UpSpec`, `ReadSpec`, ...), and hold for every value of the constants that satisfies the named
assumptions: any number of connections, slots, timers, requests, sessions, rows,
values, gateways, packets and restarts. The assumptions beyond the named ones say what
scripts must not do, and section 3 shows what happens if they do it:
a timer started twice (`RestartTimers`), an upstream closed by name while one of its
scripts runs (`Careless` of `Upstream`), two clients of one name, a deleted or changed
row of a sorted table (`Careless` of `TableRows`), an id that was never given out (`AnyId`),
flags that are cleared unread (not `Strict`), calls of a function within itself and
cuts within a cut (`Careless` of `Script`), a ring that is full (`Overrun`), a task that is due again during its own
round trip (not `Punctual`).

**Pool.** No property of the pool is inductive by itself. `PoolInv` adds two
parts to `TypeOK`. `ListOK` says that the list holds every existing object exactly
once; without it, removing the first match of a lookup could leave a second copy.
`CursorOK` says what a running callback knows of `cur`: that it exists, and that
in the read and connect callbacks it is active, which is why a script that closes
connections by name cannot delete the one it runs for. `InsertKeeps`,
`DeleteKeeps` and `DisconnectKeeps` show that the three ways to
change the list keep `ListOK`; `PoolInvStep` goes through the actions. Then
`StepKinds` sorts every step into three kinds: `Quiet` (no object comes or
goes), `Inserts` (one comes, under a name no live thread connection has) and
`Deletes` (one goes, and its timer with it). `OneConnPerThread`, `TimersOwned`
and `CountsAgree` are each proved over these three kinds instead of some
twenty-five actions; `CountsAgree` uses that the set of live objects is finite because
it is the range of a finite list.

**Upstream.** `StepOfPool` shows that each of its steps is one of the pool or
leaves the pool alone, so `UpSpec => Spec` (`UpstreamImplementsPool`) and every theorem of
the pool applies. `QueueHasConn` needs two things more. There must be one
connection of the upstream's name, which is `OneConnPerThread`: otherwise the end of one
would empty the queue of another. And whoever ends a script must know what
it ends: `OuterOK` says that the outermost script is `_CONN_ERR` exactly
while the error of the upstream's connection is handled, another script in its other
callbacks, and a timeout script outside of them. The lemmas `HubStays`, `HubDeleted` and
`HubInserted` say what a step of the pool does to the upstream's
connection, `Starts`, `GoesOn` and `Emptied` what a step of the queue does to its scripts;
the cases of `UpInvStep` put one of each together. With `QueueHasConn`, `StepOfQueue` shows
that each step is one of `SendQueue` or leaves the queue alone; the only hard
case is `CONN_OBJ_CANCLE`, where it is the invariant that says that the queue is up. So
`UpSpec => Q!Spec` (`UpstreamImplementsQueue`), and `Ordered`, `AnswerBelongs`
and the others, proved of `SendQueue` alone, hold inside the upstream.

**Send queue.** That the queue is in order says nothing yet about the
next request that is sent or called: `OrderInv` adds that all that waits is younger
than all that was written, called or stands in the slot, and that the slot is at the
youngest written. `Ordered` also needs that each request is called once; this holds
because while `_RACTIONS` run (`Calling`) their request stays in the slot although scripts
may send, check timeouts and answer inside of them, and `ShapeInv` bounds that
nesting: an event's script, over it one timeout script, over it one
`DO_QUEUE_RACT`. `AnswerBelongs` rests on `GivenInv`: an answer that is on the wire, or that a
script has and did not hand on, is that of the request in the slot, or a request
up to it was abandoned. `TimeoutInv` remembers for a timeout script which request
expired. `CallsLive` is proved from `LiveInv`: an orphaned request is one of a client
that is gone; it needs distinct names, since the name is all that
`DO_QUEUE_RACT` looks the client up by.

**Sessions.** `MapsSound` is the conjunction of `TypeOK`, `IndexSound` and
`StampSound`, and is inductive (`SessionInvariant`). `IndexSound` needs
`StampSound`: that a new time key is not in use
already follows from keys being distinct, but that an old one leaves with its
session needs the two maps to be inverse. For the refinement, `Cache` maps
`sessionBuf` and the history `used` to the abstract cache. The sweep is
the hard step: the code compares keys, the abstract cache compares
seconds, and `KeyRange` bounds the difference by the carry.

**Change flags.** `Tracked` is inductive under `Strict`, action by action. A deletion
moves the rows behind it, their flags and what is owed by one place alike
(`DeleteKeeps`). A query may clear flags of rows it does not return only if they are
left out by a page, a condition or the access mask, which `Strict` excludes: what it clears it
has read (`QueryKeeps`), however it walks.

`MarksExact` has two halves. That the rows owed have their bits is an invariant of the steps
(`MarkInv`): marks are set with the flag and cleared only by a query that reads by them, and
such a query, under `Strict`, has read all that was owed (`ClearsMarks`). That the walk
looks at exactly the rows with a bit is a fact about the loop alone. `LookedIs` shows that
the recursive function exists; then `WalkGood` goes from the end of the table to its begin, one
turn at a time (`GoodStep`), with `Aligned` as the invariant of the loop: its counter
`bit_num` is the place of the row in its group, and within a group the bit is set. A jump over a byte
is sound because the rows of a byte have its bits and no others (`BitIs`, `NextByte`),
one over a bit because the rows of a group have one bit (`Group`, `NextGroup`).

**Scripts.** `OwnParas` says nothing of how the stack is built, and is not inductive: that
a loop finds a free counter, and that a name can be taken out at the end of a node
without taking another's, depends on the frames below. `Shape` says how frames stand
on each other: only the topmost loop is at its test, the counters of loops
differ and are smaller than their places in the stack (so that `SlotFree` finds one within the
depth), a `CASE` stands on its `SWITCH`, functions on the stack differ, a callback stands
above the call whose `THEN` it runs. `Fits` ties the map to the frames. The lemmas
about `Fits` and `Shape` are about any stack, for the ways to change it (a frame pushed,
popped or replaced), and `SoundStep` puts them together; `CallBehind` is where both
meet: a `CBID` in the map is that of a call on the stack.

`CutOnce` is about joined sequences. `FlatMore` shows that `FlattenSeq` of one
sequence more appends it, `DoneStep` that the packets handled grow by the next one, and
`NextPacket`, the heart of it, that the whole packet in front of the waiting bytes
is the next one of the stream, since what waits, with what has not come yet, is a suffix of it.
`Held` says which bytes wait, in the object or in the one cut that is open, and `CutInv`
carries it over the nodes. Since a theorem with an operator as parameter cannot be used,
the induction over the number of packets is one over sets of numbers (`Induct`).

**Table files.** Neither property is inductive, since in the middle of a
save the file is neither the old nor the new table. `CoverInv` says of every cell that
it is in the file already or among the writes that are left, `PendInv` that those
writes are of the rows being saved and that the head is the first one to an
empty file; together they give `FileCurrent` when no write is left. `DiskInv` is what
`Recovered` needs: the head has one of the two numbers of rows and each row that both have is
the old or the new one, whichever writes came before the crash. `OpenInv` and
`MixedInv` carry the history of failed writes and of `COMMIT_ALL` through this.

**Rows and sort index.** `WrittenIs` says what a write does, in one
sentence: position `n` has the row with the id, all other positions are as
they were. `WrittenFacts` shows it for the composition `Found`, `WithFields`, `WithMax`,
and the conjuncts of the invariant are carried over `WrittenIs` one by one
(`WrittenIds`, `WrittenBelow`, `WrittenSaved`, `WrittenSort`), so that a message of two rows
is the same argument twice. `Saved` needs `Behind`: rows are appended
behind those on disk, and it is only a delete, which saves all, that moves positions.
`NeverReused` needs `GivenInv`: the number that was given out is saved with its row,
so that it is not above what a restart loads. `OthersKept` needs `BelowInv`: without
it an id above `INDEX_MAX_NUM` could be met again; that a batch of two ids makes a
number that is no id is a lemma of its own (`BatchIsNoId`). `SeekInv` is `SortSeeks`
together with the other direction, that every value of a row is in the index.

**Task ring.** `OnWay(x, a, b)` stands for "between, over the end of the table if need be",
and avoids sets of rows. `OpenInv` says that what is open is on the way from
`TASK_START` to `CYCLE_ADD`, in memory and for a restart, `ScanInv` that a running cycle is
between the two, and that as long as it has met free rows only, no open row is behind it,
which is why `TASK_START` may follow it. `OwedInv` says that what a cycle owes
is in front of it. A ring that is not full ends with its last row (`RingInv`), the
one case in which adding a task makes the table longer.

**Registered tasks.** Everything rests on one fact: a round trip is in one place. It
is in the call that runs the sons (`RunInv`), or in one message (`TripInv`), or the
main task is due and there is none (`DueInv`). `OrderInv` and `FlightInv` say for each of
these places that the rows before it are passed.

**Packet framing.** `Exact` speaks of what was handed over and not at all of the bytes
that are still in the three places `net`, `input` and `buffer`. `ReadInv` says that there
are items `its` whose bytes are exactly those (`Rest`), that may follow (`Good`) and whose
packets are what is still due behind what was handed over (`Follows`). Where in the loop
the callback is says what is known of the first item, in five phases (`Phase`): the packet
of a connection without a name is to come (`Hand`), an item begins with the buffer
(`Seek`), its frame is known and it is not taken yet (`Wait`), it is handed over and its
bytes are still in the buffer (`Held`), or the buffer is going to be lost (`Lost`).

The facts about bytes are lemmas of their own. `FrameIs` shows that `FrameLen`, computed
from a buffer that has `MinLen` bytes of a packet, is its length, or `PACKET_LEN_END` when
it ends with `EndHex`, through the conversions of `AsInt` and `AsSize`, and `LoadIs` that
`CASE_LOAD_PACKET` then waits as long as the packet is not whole and takes exactly the
packet when it is. `RestRead`, `RestArrive`, `RestErase` and `RestInsert` say what the four
ways to move bytes do to `Rest`; a division into chunks does not matter because the first
two leave it alone. `DropOne` and `DropAll` show that what remains when one byte is
skipped, or a buffer lost, again are items that may follow: the rest of a cut item becomes
bytes to skip. `FollowsReload` is the string that a script puts in front. Each action has
one lemma (`StepArrive` to `StepEnd`) that names the items after it.

`Prompt` needs more, since `its` may begin with rests and reloaded strings that are not in
the stream. `Link` says that behind those the items end as the stream does, `Waits` that no
chunk is left in the input buffer when the callback returns, and `Pending` that then no
packet that follows has arrived whole. Each `break` has to show the last one: nothing is in
the buffer, or fewer than the bytes of the packet in front of it. `HalvesIs` and `RunIs`,
about the numbers of bytes and packets of a front and the rest, turn this into the counts
that `Prompt` compares.

Streams have any length, so their bytes are `FlattenSeq`, which `FlatCons` opens from the
front; inductions over items are, as for the scripts, inductions over sets of numbers.

**Routing.** `AtItsPlace` is not inductive: to know that the next place of a
forwarded packet has the name of the next gateway one has to know whose path it is.
`Sound(p, n)` says that the packet stands at a place of its path that has the
name `n`, and that the path is its request's own, or, for an error string,
made of names of it. `RoutingInv` asks it of every packet on a wire, in work or handled.
`ErrorSound` is the lemma about the way back.

`OneEnd` and `NothingLost` are about numbers of packets. `Tokens` are the places where a
request can be; `SingleInv` says that a request has one at most and `PresentInv` that it has one
while no connection was lost, and each action takes one token away and puts one
down at most. That an error string is never without a way needs `WayInv`: while nothing
is lost, connections go both ways and all of the path behind a packet is joined.

## 5. What is only run, and what is not modelled

Only run:

- liveness (`Reconnects`, `Served`, `CycleEnds`, `Rotates`, `Returns`, `Settles`,
  `Ends`): the prover cannot reason about fairness.

The bounds of these runs are in section 3. Every other property of the runs is a theorem.

Not modelled: `components` in `PROJECT.json` gives the reason for each part. In
short:

- of the database actions, the parsing of messages, son objects, redirected tables
  and external fields;
- of the table tasks, `DoQueueTableTask_Main` and `_PushItem`, which have no
  callers;
- of the byte objects, the layout of buffers. (`BB_NEW_REPLACE`,
  `ByteBase.cpp:2776`, copies overlapping memory with `memcpy`, whose outcome
  depends on the library; the models take it for the intended move);
- of the interpreter, expressions and conditions, the tree of objects and some 200
  functions on strings and numbers: a sequential library without state of its own;
- TLS, start-up, HTTP configuration, the QQ plug-in, character sets and
  third-party code keep no state of their own here.

Known limits: the 16-bit widths of the routing header.

## 6. Plan

Done: `ConnPool`, `SendQueue`, `Upstream`, `SessionStore`, `TableFile`,
`TableRows`, `TableSync`, `TaskTable`, `RegTable`, `PacketRead`, `Routing`,
`Script`, with proofs for the pool, the send queue and their composition, the sessions, table files, rows, the
two schedulers, change flags and marks, scripts, the framing of packets and their routing.

Next, in this order:

1. `ByteArray`: append, update and delete in a binary array with its offset table,
   against sequences of items.
2. `ConnList`: the doubly linked list with its sentinels, shown to implement the
   sequence `list` of `ConnPool`.
3. The widths of the header in `Routing`.
4. `WsFrame`: encode and decode of frame lengths.
