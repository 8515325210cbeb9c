# webserv in TLA+

A TLA+ model of the web server of this repository: one thread, one `select()`
loop, any number of listening sockets, keep-alive clients, and CGI programs.
`PROJECT.json` lists the components, runs, mutants, theorems and hazards, and names
for every definition the lines of `src/` it stands for.

Run `tlc -config <run>.cfg <module>` for a run and `tlapm <module>_proofs.tla` for the
proofs.

## 1. The system

| part | code | state | operations |
|---|---|---|---|
| event loop | `ServerManager.cpp`, `Server_run.cpp` | the fd sets and their copies, `mMaxFd`, `gTotalClients` | `RunServers` (ready / time-out / error), `run`, `closeOldConnection`, `serviceUnavailable` |
| server | `Server.cpp`, `Server_run.cpp` | `mConnections`, `mErrorPage`, the blocks of the configuration | accept, evict, close, receive, solve, execute, send |
| connection | `Connection.cpp` | `eStatus`, `mRequest`, `mResponse`, `mLastRequestAt`, target URI, CGI program | its status machine |
| request | `Request.cpp`, `Server.cpp:122-280` | phase, `mHttpMessage`, `mSeek`, headers, body | `parseStartLine`, `parseHeader`, `parseBody` |
| response | `Response.cpp` | code, headers, body, message, `mSeek`, length left | `makeHttpMessage` |
| solving | `Server.cpp:384-644`, `Server_execute*.cpp` | the served tree | GET, HEAD, POST, PUT, DELETE, OPTIONS, autoindex |
| CGI | `Server_execute*.cpp:170-372` | `toCGI`, `fromCGI<fd>` files | `executeCGI` in two steps |
| configuration file | `main.cpp`, `gnl/`, `ConfigFile/`, `ServerConfigIdx/`, `Path/` | the lines, the brackets of the blocks, one `ConfigFile` per block | read lines, find blocks, read directives |
| configuration | `ServerManager.cpp:98-217,365-384`, `Server_parsing.cpp` | servers, server blocks, locations | refuse overlaps, group, open the sockets, look up |

`RunServers` asks the kernel which descriptors are ready and calls `run()` of every
server; `run()` visits the connections in the order of their descriptors and gives
each one piece of work - a write, a CGI step, or a read followed by the solving of
the request - and then accepts at most one new connection.  All parts share the fd
sets, the descriptor space of the process and `gTotalClients`.  Nothing runs
concurrently with a visit, but peers and clock move between two visits, and a
descriptor closed in a pass may be handed out again in the same pass.

### What is hard, and what makes each part correct

* **Event loop.**  Descriptor numbers are reused while copies of the fd sets still name
  them; several servers share one descriptor space and one count of clients; the only
  pass that reaps idle clients is one in which `select()` times out.  It is correct if
  every descriptor has one owner (`Ownership`), no readiness outlives its descriptor
  (`NoStaleReadiness`), `select()` is given every watched descriptor (`Watched`), the
  limits hold (`WithinShare`, `LowDescriptors`), and idle clients go (`IdleReaped`) and
  are told (`ClosedIdleIsTold`).
* **Connection and response.**  The status of a connection, the write interest, the
  request and the response are four variables set in different functions.  They have to
  agree (`WriteInterest`, `AnswerExists`), a partial write has to go on where it stopped
  (`WriteWindow`, `MessageSentWhole`), the Content-Length has to be that of the body, which
  is replaced after it was stated (`Framed`), and every complete request has to be answered
  (`Answered`) and not dropped (`PendingAnswerKept`).
* **Request parsing.**  `read()` ends anywhere; each parser waits for what it needs and
  goes on from `mSeek`.  The pieces must not matter (`PiecesDoNotMatter`), what is solved
  must be what was sent (`ParsedAsSent`), only malformed requests may be refused
  (`RejectedAsTold`, `RejectedStays`), and nothing may wait for ever (`Drained`).
* **Solving.**  Checks come in an order, each with early returns, over a tree that other
  connections change.  The tree changes only by permission (`TreeGuarded`) and as the
  answers say, or what a call that fails unnoticed leaves of it (`StoredAsTold`).
* **CGI.**  Its two steps are separate visits, so visits of other connections come
  between them; the output file is named after a descriptor, the program path lives as
  long as the connection, the error page belongs to the whole server.  An answer must
  hold the output made for its own request (`CgiAnswerIsOwn`) and a 404 its own page
  (`ErrorPageIsOwn`).
* **Configuration.**  `read()` cuts the file anywhere and the lines have to come out the
  same (`LinesAsRead`); blocks are found by brackets and their lines are outdented in
  place; a location starts from a copy of its server, whose directives may go on behind
  it (`ReadAsWritten`), and a damaged block must not change the ones beside it
  (`DamageContained`).  The blocks are then taken from the last to the first and grouped
  by three nested lookups, and a request finds its block and the *first* location that
  fits, which because of the reversal is the last one of the file, and otherwise the last
  one of the table, which is the server itself.  End to end, a request must get what the
  file says (`ServedAsWritten`), nothing may be lost (`NoneLost`, for files that do not go
  back to a server behind another one of its address), two servers of one name may not
  share an address (`OverlapRefused`), and the tables must have the shape that the event
  loop takes for granted (`TablesSound`).
* **All of it, seen by a client.**  Whatever happens in the loop, a client sees requests
  and answers in turn, answers from their beginning to their end, and no close without a
  reason it can know (`ExchangeKept`, `ImplementsExchange`).

The hazards behind these properties are listed with their lines in `PROJECT.json`.

## 2. The modules

| module | models | status |
|---|---|---|
| `EventLoop` | the loop, the life of connections, sending, the order of the work | checked, proved (`EventLoop_proofs`) |
| `SolveRequest` | `solveRequest`, the methods, the status pages, both CGI steps, the served tree | checked, proved (`SolveRequest_proofs`) |
| `RequestParser` | `recvRequest` and its three parsers, the stream of one connection | checked, proved (`RequestParser_proofs`) |
| `Exchange` | what a client is promised, without descriptors, fd sets or passes | implemented by `EventLoop`: checked, its safety proved (`Exchange_proofs`) |
| `ConfigFiles` | `get_next_line`, `ConfigFiles`, `ServerConfigIdx`: from the file to a list of configurations | checked, by way of `ServerConfig`; the reading and the blocks proved (`ConfigFiles_proofs`), what is read proved (`ConfigWritten_proofs`) |
| `ServerConfig` | extends `ConfigFiles` with `isOverlapedServer`, `setServersValue`, `setServers` and the lookups of a request | checked, proved (`ServerConfig_proofs`, and without hypotheses in `ConfigWritten_proofs`) |

### EventLoop

One action is one visit of one connection, one return of `select()`, one accept, or one
move of a peer or of the clock.

| actions | code |
|---|---|
| `Select`, `SelectTimeout`, `SelectError` | `RunServers` and its three cases, `closeOldConnection`, `serviceUnavailable` |
| `VisitIdle`, `Visit`, `hasSendWork`, `hasExecuteWork`, `hasRequest` | the loop of `Server::run` and its tests, in their order |
| `RunSendReady`, `RunSendPart`, `RunSendLast`, `RunSendFail` | `runSend`: the message is built; a part, or the rest, is written; `write()` fails |
| `CgiRun`, `CgiRefuse`, `CgiAnswer`, `CgiStatus`, `CgiFail` | the two steps of `executeCGI` by their outcome |
| `RecvEnd`, `RecvMore`, `RecvReject`, `SolveAnswer`, `SolveCgi`, `SolveSilent`, `SolveUnwritable` | `runRecvAndSolve`: end of file, incomplete, a parser throws, and what `solveRequest` leaves behind |
| `AcceptNew`, `AcceptFull`, `AcceptFails`, `NoNewConnection` | `hasNewConnection`, `acceptNewConnection`, `getUnuseConnectionFd` |
| `Connect`, `ClientSend`, `ClientClose`, `PeerReads`, `Expire` | peers, kernel and clock |

Variables have the names of the members they model; `pc`, `srv` and `todo` are the
position in the nested loops, `open`, `backlog`, `inbox`, `hungup`, `room` the kernel's
view, `told` a record of the unsolicited 408 and 503 answers.  A request is reduced to
its phase, a response to its code class (below 400, or not) and to the window of its
message still to be sent, measured in units of one write.  `Faults` names what a run
allows to go wrong: `select()` failing, SIGPIPE, clients that send while an answer is
pending ("talkative"), lookups that fail with another errno than ENOENT ("silent"), a
PUT that `open()` refuses ("unwritable").

Two outcomes are undefined behaviour in the code and nondeterministic here: the last
turn of `serviceUnavailable` dereferences `end()`, and `executePut` adds headers to a
null response; the process may die (`pc = "crashed"`), at the first one it may also
survive.

### Exchange

The abstract specification of `EventLoop`, with one record of state per client: closed,
idle, asking (a part of the request has been read), asked, or answering with so much
left.  A step of the loop may move several clients at once (a pass that times out closes
many), so `Next` says of *every* client which of the seven things it may see.  The
refinement mapping at the end of `EventLoop` reads a client's phase off `open`,
`eStatus` and `mRequest`; `left` is `mHttpMessageLength` and `code` that of the response
while a part of it is on the wire, and nothing before: a response that is prepared and
replaced before its first byte is sent (a CGI program's, an error's) is not visible.
`gone` is `hungup`, and `blocked` are the clients whose send buffer is full.  `Served`
is the liveness of `Exchange`: who has asked is answered or dropped for a reason.

### SolveRequest

One action is one request solved, one CGI step, one answer sent, or one connection
closed; their interleaving is arbitrary, which includes every order `EventLoop` allows.
A path of the served tree is absent, a directory, a file, or refuses to be opened;
`Stat` gives what `stat()` says of it, ENOTDIR included.  The checks of `solveRequest`
are `Objection`, in the order of the code: method list, credentials, body limit, missing
slash.  Then come the branches on the method and on the type of the URI.  Contents are
symbols that say where they come from (`output(program, path, input, form)`), so that a
property can tell whose they are.  A response carries its body and the content its
Content-Length is the length of, two fields that the code sets at different places
(`Headed`): `executeHead` drops the body it states the length of, and the answer of a CGI
program replaces the one that was prepared.

Kept across requests as in the code: the CGI program path of a connection (cleared only
by an answer of 400 or more), `fromCGI<fd>` across owners of the descriptor, and
`mErrorPage` across all connections.

`executePut` opens the file twice, without and with `O_CREAT`.  It drops one final slash
of the path, but a URI that ends in a slash has been given a second one
(`relative_path` ends in `//`), so such a PUT opens `.../new/`: ENOTDIR for a file (no
response, `crashed`), 204 for a directory, and for a new name a 201 whose second
`open()` cannot succeed.  `Creates` is when it can, `Store` is the `write()` whose result
nobody looks at: all of the body, nothing of it, or a part of it is in the file
(`Written`).  In `executeDelete` `unlink()` may fail in the same way.  The program of a
CGI request reads what has been written of the prepared body to `toCGI`, and leaves
`fromCGI` empty when it cannot be started; for a PHP program that is a 200 with an empty
body, for another one a 500.

`fresh` and `failed` are history variables: no later request changed what this one named,
and a call of this one on the tree failed without the code looking at it.

### RequestParser

A message is a sequence of tokens; delimiters, the bytes of bodies and the digits of
numbers are tokens of their own, words are one token.  CR and LF are separate, so a
piece can end between them.  A parser is an operator from a request to a request with
the fields of `Request`, `thrown` included; `recvRequest(n)` appends `n` tokens and runs
the three of them (`Parse`), as the code does at every read.  The two `while (true)`
loops are a `Loop` of turns, `HeaderTurn` and `ChunkTurn`, which follow the code's
`find`/`substr` pairs, `npos` included (`Between` wraps round as
`substr(from, found - from)` does); a turn that ends the loop is one that changes nothing
when it is made again, so that `Loop` may make as many as there are tokens.

### ConfigFiles and ServerConfig

A text is a sequence of tokens; a new line, a tab, a space and a slash are tokens of
their own, a word is one token.  One action is one `read()` (`ReadPiece(n)` returns any
number of tokens up to the buffer size, `NextLine` takes a line that is there already,
`ReadEnd` the last one), one turn of the search for servers (`Step1`) or locations
(`Step2`), one block (`ParseServer`, `ParseLocation`), one turn of `setServersValue`, or
one listening socket.  `Start` composes them: reading, then grouping, then the sockets,
and `RunServers` is where `EventLoop` begins.  `pc` names the function, `line` is the
counter of whichever loop runs.

The tests of the code are its guards, `outdentTab` included, which changes the lines in
place and therefore which of them a later pass recognises.  Where the code looks behind
the end of the lines (`Overrun`), at the first word of a blank line (`blank`), at an
uninitialised `autoindex` or at the line that a failed `read()` did not set, the outcome
is any that the build can produce, the death of the process included.

A file of a run is the text of a list of server blocks.  The list stays beside the text
in `file.servers`, for the properties only: `Written` says what configurations a block
stands for (its effective directives, over the defaults or over its server), and
`Asked` which of them a request asks for.  Neither follows the code: the loops of the
code are `ReadPiece ... ParseEnd`, `setServersValue` and `Lookup`.  `WrittenAssumption`
says what such a list is: words without spaces and new lines, a name and its value or
values on each line, and the text of the list in `file.text`.

`splitVector` is a recursive function and the reading of a block a fold over its lines,
so that both can be proved about.

## 3. The runs

| run | asks | instance |
|---|---|---|
| `loop_faults` | do status, interest, request, response and write window stay consistent under every fault? | 1 server, 1 client descriptor, messages of 3 writes, all faults but "unwritable"; 17114 states |
| `loop_capacity` | what happens at the limit, who is closed and is he told, and does every client see a proper exchange? | a share of 3 (the listening socket and two clients), 3 client descriptors, lookups and PUTs that fail, and `FewTroubles`: at most one client is gone, one has been idle too long, one has an output file; 550 thousand states |
| `loop_live` | do two servers share descriptors without inheriting anything, is a message sent whole, is every request answered, are silent peers reaped, is `Exchange` implemented with its liveness? | 2 servers, 1 client descriptor between them, messages of 3 writes, fair, clients that wait for answers; 46860 states |
| `solve` | does the tree change only as allowed and answered, is the output of a program the one of the request it answers, and is a body as long as its Content-Length? | 2 connections (symmetric), 9 paths, one of them a missing directory and one below it, the requests of both kinds, with and without a final slash, `open()`, `write()`, `unlink()` and `execve()` that fail, and `OneLeftover`: one connection at a time has an output file that it is not working with; 1.06 million states |
| `parse_pieces` | does it matter how a request is cut? | about 30 messages, every cut; 837 states |
| `config` | is what is served what the file says, also around a damaged block? | 7 files with and without a final new line, each line of two of them lost, doubled, followed by a blank or indented once more, and files that are missing or unreadable; 37442 states |
| `idle_at_capacity`, `message_replaced`, `idle_503`, `silent_lookup`, `parse_overlong`, `config_repeated` | see section 6 | |

Why the bounds are enough:

* Connections interact through descriptor reuse, through the two limits, and through
  shared variables.  Reuse needs one descriptor and two owners, which `loop_live`
  has with one descriptor and two servers; the limit needs `share` connections and one
  more peer, which `loop_capacity` has; the shared variables of `SolveRequest` need two
  connections.  The proofs cover every other number.
* `solve` has the two connections symmetric; nothing in `SolveRequest` orders them, and
  its one temporal property is an action property.
* `FewTroubles` and `OneLeftover` are state constraints: what comes after a state outside
  them is not explored.  They leave every action and one trouble of each kind, of
  different clients if need be.  What is lost, several clients in the same trouble at
  once, is what the theorems about the same properties cover: each of the properties
  checked in these two runs is proved for every number of clients.
* `MaxLen = 3` gives a message a first, a middle and a last write.
* `MaxBacklog = 1` is enough because a pass looks only at whether the queue is empty.
* The trees and locations have one path of each kind and of each decision: with and
  without credentials, limit and index pages, above and below a file, allowed and not.
* The messages of `parse_pieces` have every delimiter of the grammar at every place the
  parsers look for it, and every cut of each is a behaviour.  It has few states because
  `PiecesDoNotMatter` holds: all the cuts that end at a token lead to the same state.

* `BUFFER_SIZE_GNL = 4` tokens make reads that end inside a line, at its end, and behind
  it; lines have up to 8 tokens.  The files have two names on one address, three
  addresses (one with a port above 65535), locations inside others, locations that move
  to another name or port, lists in one, two and no lines, and a server that goes on
  behind its locations.

`CHECK_DEADLOCK FALSE` is said where the program may stop: it has crashed after a fault
(`loop_faults`, `loop_capacity`, `idle_503`, `solve`).  In `parse_pieces` a client can
always do something; in `config` the start ends in `Over`, so that a start which gets
stuck on the way is found.

Each property of a passing run has a mutant in its module, named
`<definition>_<what is wrong>`: a plausible bug of the code with which TLC finds the
property violated.

## 4. Fairness

`FairSpec` assumes weak fairness of `System` (the loop is one thread that never waits
for anything but `select()`, which returns as soon as something is ready and otherwise
after its time-out), of `Expire` (the clock moves on) and of `PeerReads` (a peer that is
still there reads what it was sent).  Peers are never assumed to send, to connect or to
close.  A step of a CGI program is one step of `System`: the code waits for the program
with `waitpid()` without a limit, so a program that does not end stops every server; the
model takes programs to end.

`Served`, the liveness of `Exchange`, is not an assumption: it follows in `loop_live`
from the same fairness, through the refinement mapping.

`loop_live` has clients that wait for their answers.  With talkative ones `Answered`
does not hold: every byte read while the answer is half sent makes the loop solve the
request again and restart the answer.

## 5. What is proved

`EventLoop_proofs`, for every number of servers, every descriptor limit, share, bound
and set of faults:

* `InductiveInvariant`: the conjunction `IInv` of the type invariant, `Ownership`,
  `NoStaleReadiness`, `WriteInterest`, `AnswerExists`, `Watched` and two helpers.  None
  of them is inductive alone.  A visit may trust its connection only because `todo`
  stays inside the connections of the running server (`Scheduling`); an accepted
  connection starts without work only because a free descriptor carries nothing of its
  last owner (`Blank`); `gTotalClients` is exact only because a closed connection was
  owned by exactly one server, so that it is counted off once.  The proof has a lemma
  for the closing of a set of connections, which four actions share, and one step per
  action.  `TypeCorrect`, `OwnershipCorrect`, `NoStaleReadinessCorrect`,
  `WriteInterestCorrect`, `AnswerExistsCorrect` and `WatchedCorrect` are its conjuncts.
* `ClosedIdleIsToldCorrect` and `PendingAnswerKeptCorrect`, if `select()` does not fail
  (`"select" \notin Faults`; the run `idle_503` shows the first without that).
* `WithinShareCorrect`, and from it `LowDescriptorsCorrect`: when `accept()` returns a
  descriptor all those below it are open, and there are at most `N * Share` of them, because
  the connections of every server can be numbered within its share
  (`SharesBoundOpen`).  For one server and `INIT_FD_MAX` = 1023 that is descriptor 1025, two
  above what an `fd_set` of 1024 can name: the shares bring the descriptors down to the
  size of the set, and the limit of the process has to do the rest.
* `WriteWindowCorrect`, unless clients are talkative and a PUT is refused, and
  `MessageSentWholeCorrect`, if clients are not talkative (`message_replaced` shows what
  happens then), from the further invariant that a client which waits for its answer has
  nothing unread while there is one.

`Exchange_proofs`, for the same parameters: `ExchangeKeptCorrect`, the loop implements
`Exchange` (its initial states and its steps), if clients wait for their answers and
`select()` does not fail.  It rests on `InductiveInvariant` and on the invariant of the
polite clients, and has one lemma per kind of step (opened, dropped, sent, executed,
received), each about an arbitrary client: what the step does to the one connection it
visits is a step of `Exchange`, every other client sees nothing, and one that is dropped
without a request has been told.  Both hypotheses are needed: `message_replaced` and
`idle_503` show the two ways out.

`RequestParser_proofs`, for every set of messages of any length, every cut into pieces,
every table `Lower` and every `MaxUri`; `MessagesAssumption` says that messages are
sequences of tokens and that statuses are statuses:

* `TypeCorrect`.  A request is `WellPlaced` when its `mSeek` is in what has been read or
  right behind it.  Every parser keeps it so, and throws only before `COMPLETE`; for the
  loops this is an induction over their turns (`TurnsKeep`), which also shows that `Loop`
  makes enough of them: every turn but the last moves `mSeek` by two tokens (`TurnsEnd`).
  That no `substr()` throws is thus true of every input, also of one that is read on after
  a parser has thrown.
* `PiecesDoNotMatterCorrect`.  A delimiter that is found in the bytes so far is found at the
  same place in more of them (`FoundMore`), so each parser *commutes with reading more*:
  what it took it takes again from the longer message, and where it waits it has changed
  nothing.  For the header this is `MoreHeaderLoop`; for the chunks, where the loop stops
  in the middle, the first turns are the same ones and the loop then goes on as if it had
  never stopped (`MoreChunkLoop`).  `MoreParse` puts them together: to read `s` and then
  `t` is to read `s \o t`.  The inductive invariant `InPieces` adds to
  `PiecesDoNotMatter` what a parser has thrown: nothing while no answer is due, and otherwise
  the status of the answer, so that the next read forgets nothing that counted.  The theorem leaves out
  the messages in `Overtaken` while they are the one sent: bytes read behind a complete
  body, or after a rejection, do make a difference.
* `ParsedAsSentCorrect`, `RejectedAsToldCorrect`, `DrainedCorrect`.  What has been read and
  what is on the wire are always the message the client waits for an answer to (`InOrder`);
  this and the theorem above reduce the three properties to what the parsers make of
  each beginning of a message that is read in one piece, `ReadWhole`.  Their hypotheses are that
  every message is `ReadWhole`, which the run shows for its own, since every beginning of a
  message can be the first piece of it, and `Overtaken = {}`: a socket is writable when a parser
  throws.  What they add to the run
  is the cuts: for a new message only its beginnings have to be evaluated, one each,
  and nothing about its pieces or about the messages before it.

The induction is in `NatInduction`, over a set and by the least number outside of it,
since the library's induction takes an operator.

`SolveRequest_proofs`, for every set of connections, tree, location, and set of
requests.  `PathsAssumption` says that the initial tree is one, that request paths are
known and that sizes are numbers; TLC evaluates it in `solve`:

* `InductiveInvariant` and `TypeCorrect`: the served tree stays one, because a file is
  written only where a file is or into directories that are there and is removed only
  where one is; and a connection with an answer has a request.
* `TreeGuardedCorrect`, from what `Objection(r) = 0` gives in the two branches that
  write.
* `StoredAsToldCorrect`.  It is about every PUT answered 200 or 201 and every DELETE
  answered 200, missing directories and final slashes included.  If no call failed, the
  file is the body or gone.  If one failed, the file of a PUT is nothing or a part of its
  body, or was not created (only after a 201), and the file of a DELETE still has the content
  that was answered; a stored file always has its directory and a name without a slash.
  A step that changes a path ends the freshness of every answer about it, no step makes
  or removes a directory, and a request in a CGI step is neither PUT nor DELETE.
* `CgiAnswerIsOwnCorrect`, under `CgiHasProgram` (every CGI extension has a program):
  between the two steps the connection's program is the one of the path of its request,
  what the program reads is what has been written of the body of a POST, and what is in
  `fromCGI` is its own output or nothing.
* `ErrorPageIsOwnCorrect`.  A page made in a CGI step uses the `mErrorPage` of the last
  request solved; it does no harm because such a page is never sent as a 404: until the
  output has been read the answer has status 200; then it is sent as a 200, 205 or 500,
  or not at all (a program that answers 404 leaves its connection in `CGI_ING`, and the
  next step makes the answer a 500).
* `FramedCorrect`.  What is stated and what is sent differ in one place, the answer to a
  HEAD of a file, whose body is dropped.  Such a request never gets a CGI program's answer
  on top: a program with nothing to read is not run, and the prepared body is what it would
  read (this rests on the invariant behind `ErrorPageIsOwn`).

`ConfigFiles_proofs`, for every set of files, every size of a `read()` and every table of
numbers.  `FilesAssumption` says that a text is a sequence and `AtoiAssumption` that the
table holds integers; TLC evaluates both in `config`:

* `ReadingInvariant`: the lines taken so far with their ends, what get_next_line keeps and
  what `read()` has not returned are together the file, in this order.  `LinesAsReadCorrect`
  is what is left of it when the last line has been taken.
* `BlocksInvariant`: every bracket found lies in the lines, the opening one before the
  closing one, those of a location between those of its server; and every configuration has
  all the members of `ConfigFile` and a port of 16 bits.  This holds of damaged files as
  well.  It needs the places of the three loops (`LoopsOK`): `Step2` looks for
  locations only behind the bracket of its server, and `ParseLocation` goes `line` entries
  back only where there are as many.

Both are about recursive definitions: `Text` flattens a sequence of lines, and the reading of
a block is a fold over its lines.  The provers have no induction and do not know that the
function of a recursive definition exists.  Both are proved here, by least counterexample
(`NatInduction`) and by writing the function down (`FlattenExists`, `TurnsExist`).

`ServerConfig_proofs`, for every set of configuration files, every size of a `read()` and
every table of numbers:

* `TablesSoundCorrect`.  What a file says does not matter to it.  `setServersValue` adds a
  server only if no server has its address and a block only if none has its name, and the
  lookup that says so returns 0 exactly when nothing fits (`FirstServer`,
  `FirstServerBlock`).  The invariant `IInv` of that module says this of every turn, and
  which descriptors are open at every step: 3 while the file is read, none of the server's
  when the grouping begins, and then one more at every turn of `setServers`, the lowest
  free one.  The closing of the file matters: with it open the sockets would begin at 4.
* `StartLinesAsRead` and `TypeCorrect`: what is proved of the reading holds of the whole
  start, of which the reading is the beginning.
* `OverlapRefusedCorrect` and `NoneLostCorrect` say what becomes of the configurations, and
  take from `[]ReadAsWritten` that they are those written.  `ConfigWritten_proofs` proves
  this hypothesis of every start and repeats the conclusions without it.
  `NoneLostCorrect` rests on `Filing`, about the configurations taken so far (those at the
  end of the file): each is in a block of its address and name, each location in the tables is
  one of them, and the blocks of a server are in the reverse order of the names in the
  file.  The last part is why a location lands in its own block: if its name has one
  already and no other name came in between, that block is the last one, which is where
  `setServersValue` appends.  Without it the invariant is not inductive, and without
  `~Interleaved` it is false.
* `ServedAsWrittenCorrect`, end to end and from the same hypothesis.  What is written is a list of
  servers, each a configuration and those of its locations behind it; the offsets at which
  `FlattenSeq` puts them are given by `FlattenPlaces`.  A file that is `Plain` and not
  `Overlapping` neither repeats a location nor comes back to a server (`PlainlyClear`), so
  that everything is `Filed`.  `Filing` also says that the locations of a block are in the reverse
  order of the file, so the first one there whose segments begin the path is the last one of
  the file (`LocationFound`; the server itself has no segments and is always one), and that the
  blocks of an address are in reverse as well, so the last block, the default, is the first
  server of the file (`BlockFound`).

`ConfigWritten_proofs`, for the same parameters and under `WrittenAssumption`, which says
what a file that is not damaged is; TLC evaluates it in `config`:

* `ReadAsWrittenCorrect`: whatever the servers, locations and directives of such a file and
  however `read()` cuts it, the configurations are those written.
  - *The text gives the lines back, the lines the words.*  `splitVector` undoes `Join` for
    words that hold no delimiter (`SplitJoin`), and cutting at new lines is the same with the
    empty pieces kept, so that a text has one list of lines (`TextInjective`).  With
    `ReadingInvariant` the lines that `get_next_line` takes are those of the list of blocks,
    with or without an empty one behind the last new line.
  - *The brackets are where they were put.*  `RuledLines` is the plan of the file: which words
    are on which line, and how many tabs before them; `Above` and `At` say on which line a
    server or an item of it ends.  While the parser runs the lines are `Laid` out as in the
    plan except for the tabs they have lost: all of them in front of a line that moves on,
    one from there to the end of the block being searched.  A bracket that is
    indented is not taken for one, so each search ends at its own (`Step1Turn`,
    `Step2ServerTurn`, `Step2Turn`).
  - *The lines of a block are read one by one as `Effect` says.*  `EffectAppend` is what one
    line more changes in the configuration that a list of lines stands for: a list grows, a
    scalar is replaced.  `DirectiveRead` is that the code's turn does the same, its memory of
    the directives met (`exist`) being what tells the first line of a list from the others.
    The fold then gives the effect of the body of a location (`LocationRead`) and of the
    server's own directives, those behind a location included, since a line of a location is
    passed by (`ServerTurn`).
  - `WrittenInv` says this of every place of the parser, with `AtStep1`, `AtStep2` and
    `AtSetConfigs` for how far its three loops have come.  It is inductive together with
    `ReadingInv` and `BlocksInv`: the first for the end of the reading, the second for the places
    that the loops go to.
* `StartReadAsWritten`, of the whole start, and from it `StartOverlapRefused`, `StartNoneLost`
  and `StartServedAsWritten`: the three theorems above without their hypothesis.  The last one
  goes from the text of a file to the location that a request is given.

Only model-checked:

* `Answered`, `IdleReaped` and the `Served` half of `ImplementsExchange`: liveness.
* `DamageContained`: what a damaged line makes of its block depends on the damage, and the
  property asks only about the blocks beside it.
* `RejectedStays`.  It is not true of every message: a chunk of the wrong size and a start
  line without a space are read differently when more comes (see section 7).
* `ReadWhole`, what the parsers make of a message that comes in one piece: it is said of each
  message of the run.
* `ParsedAsSent`, `RejectedAsTold` and `Drained` of messages that are overtaken.

Conversely, what the proofs say about several clients under a failing `select()` is not
repeated by a run.

## 6. What the runs found

Of the runs:

* `idle_at_capacity`: `getUnuseConnectionFd` skips every connection, because the socket
  of a connection always equals its key.  A server at its share evicts nobody; with one
  peer waiting in the queue `select()` is always ready, its time-out never comes, and
  idle clients stay.
* `message_replaced`: more bytes from a client whose answer is half sent make the server
  solve the request again; the rest of the message comes from another response.
* `idle_503`: `serviceUnavailable` writes to the connection after the one it closes.
* `silent_lookup`: a lookup that fails with ENOTDIR or EACCES leaves the request without
  an answer.
* `parse_overlong`: a body longer than its Content-Length is accepted when a read ends
  at the announced length.
* `config_repeated`: a location that a server has twice is refused by
  `setServersValue`, whose -1 nobody looks at; the server runs without the blocks that
  stand before it in the file.

Of the proofs:

* `NoneLost` was first stated for every file that repeats no location, and its proof failed
  at the turn of `setServersValue` that finds the block of a name and appends to another one,
  the last of the server (`ServerManager.cpp:170`).  The file `Entangled` is the
  counterexample that came of it: a location of `b` that moves to the name of the next
  server, `a`, is filed under `b`, the location of the same path that `b` has then looks
  repeated, and the configurations in front of it are lost as in `config_repeated`,
  although the file repeats nothing.
  `NoneLost` now leaves out the files that come back to a server behind another one of
  its address (`Interleaved`).

## 7. What the models leave out

* `EventLoop`: contents.  What a request means is a choice among the outcomes
  `SolveRequest` and `RequestParser` can have.
* `SolveRequest`: special files; the header fields of a response, except
  Content-Length, and those that a CGI program prints (the code keeps them under lower-case
  names, beside its own); the text of pages, environment and
  listings.  `.htpasswd` is a yes or no, and credentials are right if
  `isRightCredentials` finds them in it.  Modelled are the failures of the calls that
  write and remove: both `open()` and both `write()` of `executePut`, `unlink()`, and those of
  `executeCGI`, `execve()` included.  A file that can be opened is also read
  to its end: `read()` of a served file, and `opendir()` of a listing, do not fail.  What
  a PHP program prints has one form.  A HEAD of a directory, or one that is redirected, is answered with a body (only the
  branch for files calls `executeHead`); the model does the same, and `Framed` leaves those
  out: it is about answers below 300.  The configuration of the runs has a program for each
  CGI extension.
* `RequestParser`: a client waits for its answer and sends no body with a GET (the
  server drops or misreads what is sent ahead, so nothing could be promised).  Chunk
  data hold no CRLF.  `Drained` is for requests with at least one header field, as
  without one `parseHeader` waits for an EOL too many.  `RejectedStays` is not asked of
  chunks of the wrong size, whose rest can be taken for sizes.  A start line without a
  space, followed by a line with two (`GET`, then `k: / HTTP/1.1`), is refused when a piece
  ends inside it and read as one method when it comes whole; no message of the run has one.
  When a message has
  several faults, any of the statuses of its faults is accepted.
* `ConfigFiles`, `ServerConfig`: a word is one token (`Path` splits at slashes, which are
  tokens, and `std::atoi` is a table), and a text holds no NUL, at which the code would
  end a line.  A read behind the last line is never taken for a bracket.  `ReadAsWritten`
  is about undamaged files, in which a server's own directives do not hold the token
  `location` (`hasLocation` looks for it, and a space behind it, anywhere in a line); `DamageContained` asks only about
  the blocks around the damage.  `ServedAsWritten` and
  `NoneLost` are about undamaged files, the first of them without locations that move to
  another name or address (`Plain`): the code files such a location under the last block
  of its server, and no text says where it belongs.  `NoneLost` admits them, unless the
  file comes back to a server behind one of another name (section 6).  `OverlapRefused` and
  `RepeatedRefused` are about the undamaged ones as well.
* Hazards without a property, listed in `PROJECT.json` with the reason: SIGPIPE (the
  process may die, which is a fault of `loop_faults`), a CGI program that never ends
  (`waitpid()` has no limit), and a request sent ahead of the answer to the one before it
  (dropped with the rest of the message).
* Not modelled: what `Response::makeHttpMessage` puts into the header fields, the tests
  and CGI programs of `ft_tester`, and the text helpers of `utils` that only format.

## 8. Plan

1. The header fields of a response other than Content-Length.
2. `DamageContained` for every file: the kinds of damage as steps away from the plan.
