------------------------------ MODULE EventLoop ------------------------------
(***************************************************************************)
(* The select() loop of the server: ServerManager::RunServers multiplexes  *)
(* every listening socket and every client connection of every Server over *)
(* one thread.  A pass of the loop asks the kernel which descriptors are   *)
(* ready and calls Server::run for each server; Server::run visits the     *)
(* connections of the server in the order of their descriptors and gives   *)
(* each ONE piece of work: a write, a step of its CGI program, or a read   *)
(* followed by the solving of the request.                                 *)
(*                                                                         *)
(* One action is one visit of one connection (nothing else runs meanwhile, *)
(* but the peers and the clock move between two visits).  What parsing and *)
(* solving decide is a choice here: any outcome the code can produce.      *)
(***************************************************************************)
EXTENDS Integers, FiniteSets

CONSTANTS
  N,          (* number of servers (listening sockets)                      *)
  FdLimit,    (* the highest descriptor the kernel gives to the process     *)
  InitFdMax,  (* INIT_FD_MAX of Define.hpp                                  *)
  MaxBacklog, (* BOUND: connections waiting in one listen queue             *)
  MaxLen,     (* BOUND: length of an answer, in units of one write          *)
  Faults      (* what the environment and the served tree may do (below)    *)

(***************************************************************************)
(* "select"     select() itself fails (cnt < 0)                            *)
(* "sigpipe"    a write to a vanished peer raises SIGPIPE                  *)
(* "talkative"  a client sends more bytes while its answer is pending      *)
(* "silent"     the URI names something the lookup refuses with an errno   *)
(*              other than ENOENT (a file used as a directory, no rights)  *)
(* "unwritable" a PUT names something open() refuses for another reason    *)
(*              than EISDIR and ENOENT                                     *)
(***************************************************************************)
AllFaults == {"select", "sigpipe", "talkative", "silent", "unwritable"}

ASSUME NAssumption       == N \in Nat \ {0}
ASSUME FdLimitAssumption == FdLimit \in Nat
ASSUME InitFdMaxAssumption == InitFdMax \in Nat \ {0}
ASSUME BoundsAssumption  == MaxBacklog \in Nat /\ MaxLen \in Nat \ {0}
ASSUME FaultsAssumption  == Faults \subseteq AllFaults

Servers == 1..N

(* Descriptors 0, 1 and 2 are the standard streams, setServers opens the   *)
(* listening sockets next, one per server in the order of mServers.        *)
ListenFd(s) == 2 + s
ListenFds == {ListenFd(s) : s \in Servers}
ClientFds == (3 + N)..FdLimit

VARIABLES
  pc,             (* "select": in RunServers; "run": in Server::run; "crashed" *)
  srv,            (* the server whose run() is executing                    *)
  todo,           (* the connections run() still has to visit               *)
  mConnections,   (* Server::mConnections, the keys of each server's map    *)
  eStatus,        (* Connection::eStatus                                    *)
  mRequest,       (* "NULL", "incoming", or "COMPLETE" (its phase)          *)
  mResponse,      (* Connection::mResponse                                  *)
  mReadFds, mWriteFds, mReadCopyFds, mWriteCopyFds, mMaxFd, (* ServerManager *)
  gTotalClients,  (* the global count of clients                            *)
  fromCGI,        (* connections whose CGI output file is on disk           *)
  expired,        (* connections idle for longer than KEEP_ALIVE_LIMIT      *)
  open,           (* kernel: the sockets of the process                     *)
  backlog,        (* kernel: connections waiting to be accepted             *)
  inbox,          (* kernel: connections with unread bytes                  *)
  hungup,         (* kernel: connections whose peer is gone                 *)
  room,           (* kernel: connections with room in their send buffer     *)
  told            (* peers that were sent an unsolicited 408 or 503         *)

loopVars  == <<pc, srv, todo>>
connVars  == <<eStatus, mRequest, mResponse>>
fdSetVars == <<mReadFds, mWriteFds, mReadCopyFds, mWriteCopyFds>>
poolVars  == <<mConnections, mMaxFd, gTotalClients>>
kernelVars == <<open, backlog, inbox, hungup, room, told>>
vars == <<loopVars, connVars, fdSetVars, poolVars, fromCGI, expired, kernelVars>>

Status == {"REQUEST_READY", "CGI_READY", "CGI_ING", "SEND_READY", "SEND_ING"}
Sending == {"SEND_READY", "SEND_ING"}
Executing == {"CGI_READY", "CGI_ING"}
Codes == {"ok", "error"}   (* status code below 400, or 400 and above *)

(* size is the length of mHttpMessage; mHttpMessageLength what is left.    *)
NewResponse(code) == [code |-> code, size |-> 0, mSeek |-> 0, mHttpMessageLength |-> 0]
NoResponse == NewResponse("NULL")

(* A Response whose message, of length n, has been built; a Response of    *)
(* which n more units have been written.                                   *)
makeHttpMessage(r, n) ==
  [code |-> r.code, size |-> n, mSeek |-> r.mSeek, mHttpMessageLength |-> n]
written_LengthKept(r, n) ==   (* mutant: SetResponseLength is forgotten *)
  [code |-> r.code, size |-> r.size,
   mSeek |-> r.mSeek + n, mHttpMessageLength |-> r.mHttpMessageLength]
written_SeekSet(r, n) ==   (* mutant: SetSeek(count) instead of adding to it *)
  [code |-> r.code, size |-> r.size,
   mSeek |-> n, mHttpMessageLength |-> r.mHttpMessageLength - n]
written(r, n) ==
  [code |-> r.code, size |-> r.size,
   mSeek |-> r.mSeek + n, mHttpMessageLength |-> r.mHttpMessageLength - n]

clients(s) == mConnections[s] \ {ListenFd(s)}

-----------------------------------------------------------------------------
(* The state RunServers starts from: the listening sockets are open, each  *)
(* is a connection of its server, and only they are watched.               *)
Init ==
  /\ pc = "select" /\ srv = 1 /\ todo = {}
  /\ mConnections = [s \in Servers |-> {ListenFd(s)}]
  /\ eStatus = [fd \in ClientFds |-> "REQUEST_READY"]
  /\ mRequest = [fd \in ClientFds |-> "NULL"]
  /\ mResponse = [fd \in ClientFds |-> NoResponse]
  /\ mReadFds = ListenFds /\ mWriteFds = {}
  /\ mReadCopyFds = {} /\ mWriteCopyFds = {}
  /\ mMaxFd = InitFdMax
  /\ gTotalClients = 0
  /\ fromCGI = {} /\ expired = {}
  /\ open = ListenFds
  /\ backlog = [s \in Servers |-> 0]
  /\ inbox = {} /\ hungup = {} /\ room = {} /\ told = {}

-----------------------------------------------------------------------------
(* Server::closeConnection, for every connection of the set: close(), out  *)
(* of the fd sets, one client less, out of the map of its server.          *)
eraseConnections_Leak(fds) ==   (* mutant: close() is forgotten *)
  /\ open' = open
  /\ mReadFds' = mReadFds \ fds
  /\ mWriteFds' = mWriteFds \ fds
  /\ gTotalClients' = gTotalClients - Cardinality(fds)
  /\ mConnections' = [s \in Servers |-> mConnections[s] \ fds]
  /\ eStatus' = [fd \in ClientFds |-> IF fd \in fds THEN "REQUEST_READY" ELSE eStatus[fd]]
  /\ mRequest' = [fd \in ClientFds |-> IF fd \in fds THEN "NULL" ELSE mRequest[fd]]
  /\ mResponse' = [fd \in ClientFds |-> IF fd \in fds THEN NoResponse ELSE mResponse[fd]]
  /\ expired' = expired \ fds
  /\ inbox' = inbox \ fds
  /\ hungup' = hungup \ fds
  /\ room' = room \ fds
eraseConnections(fds) ==
  /\ open' = open \ fds
  /\ mReadFds' = mReadFds \ fds
  /\ mWriteFds' = mWriteFds \ fds
  /\ gTotalClients' = gTotalClients - Cardinality(fds)
  /\ mConnections' = [s \in Servers |-> mConnections[s] \ fds]
  /\ eStatus' = [fd \in ClientFds |-> IF fd \in fds THEN "REQUEST_READY" ELSE eStatus[fd]]
  /\ mRequest' = [fd \in ClientFds |-> IF fd \in fds THEN "NULL" ELSE mRequest[fd]]
  /\ mResponse' = [fd \in ClientFds |-> IF fd \in fds THEN NoResponse ELSE mResponse[fd]]
  /\ expired' = expired \ fds
  /\ inbox' = inbox \ fds
  /\ hungup' = hungup \ fds
  /\ room' = room \ fds

closeConnection_KeepCopies(fds) ==   (* mutant: the copies are not cleared *)
  /\ eraseConnections(fds)
  /\ UNCHANGED <<mReadCopyFds, mWriteCopyFds>>
closeConnection(fds) ==
  /\ eraseConnections(fds)
  /\ mReadCopyFds' = mReadCopyFds \ fds
  /\ mWriteCopyFds' = mWriteCopyFds \ fds

-----------------------------------------------------------------------------
(* ServerManager::RunServers: select() and its three results.              *)

updateMaxFd_OffByOne ==   (* mutant: lowered while one client is left *)
  IF gTotalClients <= 1 THEN 2 + N ELSE mMaxFd
updateMaxFd == IF gTotalClients = 0 THEN 2 + N ELSE mMaxFd

Readable == inbox \cup hungup \cup {fd \in ListenFds : backlog[fd - 2] > 0}
Writable == room \cup hungup

(* select() looks at the descriptors 0..mMaxFd only                        *)
ReadyToRead  == {fd \in mReadFds \cap Readable : fd <= updateMaxFd}
ReadyToWrite == {fd \in mWriteFds \cap Writable : fd <= updateMaxFd}

Select ==
  /\ pc = "select"
  /\ ReadyToRead \cup ReadyToWrite # {}
  /\ mReadCopyFds' = ReadyToRead
  /\ mWriteCopyFds' = ReadyToWrite
  /\ mMaxFd' = updateMaxFd
  /\ pc' = "run" /\ srv' = 1 /\ todo' = clients(1)
  /\ UNCHANGED <<connVars, mConnections, mReadFds, mWriteFds, gTotalClients,
                 fromCGI, expired, kernelVars>>

(* IsKeepConnection is false of the expired connections.                   *)
IsKeepConnection(fd) == fd \notin expired

(* select() timed out: closeOldConnection closes the expired connections   *)
(* of every server, those that have no request with a 408.                 *)
SelectTimeout_NoRequestTest ==   (* mutant: the 408 goes to those with a request *)
  LET old == {fd \in UNION {clients(s) : s \in Servers} : ~IsKeepConnection(fd)}
  IN  /\ pc = "select"
      /\ ReadyToRead \cup ReadyToWrite = {}
      /\ mReadCopyFds' = {} /\ mWriteCopyFds' = {}
      /\ mMaxFd' = updateMaxFd
      /\ told' = told \cup {fd \in old : mRequest[fd] # "NULL"}
      /\ eraseConnections(old)
      /\ UNCHANGED <<loopVars, fromCGI, backlog>>
SelectTimeout ==
  LET old == {fd \in UNION {clients(s) : s \in Servers} : ~IsKeepConnection(fd)}
  IN  /\ pc = "select"
      /\ ReadyToRead \cup ReadyToWrite = {}
      /\ mReadCopyFds' = {} /\ mWriteCopyFds' = {}
      /\ mMaxFd' = updateMaxFd
      /\ told' = told \cup {fd \in old : mRequest[fd] = "NULL"}
      /\ eraseConnections(old)
      /\ UNCHANGED <<loopVars, fromCGI, backlog>>

(* select() failed: serviceUnavailable closes every client.  The loop      *)
(* writes its 503 to the connection AFTER the one it closes, so the first  *)
(* client of a server gets none and the last turn dereferences end():      *)
(* the process dies there, or survives it.                                 *)
SelectError ==
  LET closed == UNION {clients(s) : s \in Servers}
      first  == {fd \in closed : \E s \in Servers :
                   fd \in clients(s) /\ \A g \in clients(s) : fd <= g}
  IN  /\ pc = "select"
      /\ "select" \in Faults
      /\ mReadCopyFds' = mReadFds \ closed /\ mWriteCopyFds' = mWriteFds \ closed
      /\ mMaxFd' = updateMaxFd
      /\ told' = told \cup (closed \ first)
      /\ eraseConnections(closed)
      /\ pc' \in IF closed = {} THEN {"select"} ELSE {"select", "crashed"}
      /\ UNCHANGED <<srv, todo, fromCGI, backlog>>

-----------------------------------------------------------------------------
(* Server::run: the visit of one connection.                               *)
Visit(fd) ==
  /\ pc = "run"
  /\ fd \in todo
  /\ \A g \in todo : fd <= g
  /\ todo' = todo \ {fd}

hasSendWork(fd) ==
  /\ mRequest[fd] # "NULL"
  /\ eStatus[fd] \in Sending
  /\ fd \in mWriteCopyFds

hasExecuteWork(fd) == eStatus[fd] \in Executing
hasRequest(fd) == fd \in mReadCopyFds

(* No work: the connection is passed over.                                 *)
VisitIdle(fd) ==
  /\ Visit(fd)
  /\ ~hasSendWork(fd) /\ ~hasExecuteWork(fd) /\ ~hasRequest(fd)
  /\ UNCHANGED <<pc, srv, connVars, fdSetVars, poolVars, fromCGI, expired, kernelVars>>

(* The visit closes the connection.                                        *)
VisitClose(fd) ==
  /\ closeConnection({fd})
  /\ UNCHANGED <<pc, srv, mMaxFd, fromCGI, backlog, told>>

-----------------------------------------------------------------------------
(* Server::runSend                                                         *)

(* SEND_READY: the message is built from the Response, which AnswerExists  *)
(* says is there.  mSeek is left as it is.                                 *)
RunSendReady(fd) ==
  /\ Visit(fd) /\ hasSendWork(fd) /\ eStatus[fd] = "SEND_READY"
  /\ \E n \in 1..MaxLen :
       mResponse' = [mResponse EXCEPT ![fd] = makeHttpMessage(@, n)]
  /\ eStatus' = [eStatus EXCEPT ![fd] = "SEND_ING"]
  /\ expired' = expired \ {fd}
  /\ UNCHANGED <<pc, srv, mRequest, fdSetVars, poolVars, fromCGI, kernelVars>>

(* SEND_ING: write() took a part of what is left, the buffer is full now.  *)
RunSendPart_Rebuild(fd) ==   (* mutant: the next write builds a message again *)
  /\ Visit(fd) /\ hasSendWork(fd) /\ eStatus[fd] = "SEND_ING"
  /\ \E n \in 1..(mResponse[fd].mHttpMessageLength - 1) :
       mResponse' = [mResponse EXCEPT ![fd] = written(@, n)]
  /\ eStatus' = [eStatus EXCEPT ![fd] = "SEND_READY"]
  /\ expired' = expired \ {fd}
  /\ room' = room \ {fd}
  /\ UNCHANGED <<pc, srv, mRequest, fdSetVars, poolVars, fromCGI,
                 open, backlog, inbox, hungup, told>>
RunSendPart(fd) ==
  /\ Visit(fd) /\ hasSendWork(fd) /\ eStatus[fd] = "SEND_ING"
  /\ \E n \in 1..(mResponse[fd].mHttpMessageLength - 1) :
       mResponse' = [mResponse EXCEPT ![fd] = written(@, n)]
  /\ expired' = expired \ {fd}
  /\ room' = room \ {fd}
  /\ UNCHANGED <<pc, srv, eStatus, mRequest, fdSetVars, poolVars, fromCGI,
                 open, backlog, inbox, hungup, told>>

(* SEND_ING: write() took the rest.  The connection is kept for the next   *)
(* request, or closed when the status code is 400 or more.                 *)
RunSendLast_KeepInterest(fd) ==   (* mutant: ClrWriteFds is forgotten *)
  /\ Visit(fd) /\ hasSendWork(fd) /\ eStatus[fd] = "SEND_ING"
  /\ \/ /\ mResponse[fd].code = "ok"
        /\ mRequest' = [mRequest EXCEPT ![fd] = "NULL"]
        /\ mResponse' = [mResponse EXCEPT ![fd] = NoResponse]
        /\ eStatus' = [eStatus EXCEPT ![fd] = "REQUEST_READY"]
        /\ mWriteFds' = mWriteFds
        /\ mWriteCopyFds' = mWriteCopyFds \ {fd}
        /\ expired' = expired \ {fd}
        /\ room' \in {room, room \ {fd}}
        /\ UNCHANGED <<pc, srv, mReadFds, mReadCopyFds, poolVars, fromCGI,
                       open, backlog, inbox, hungup, told>>
     \/ /\ mResponse[fd].code = "error"
        /\ VisitClose(fd)
RunSendLast(fd) ==
  /\ Visit(fd) /\ hasSendWork(fd) /\ eStatus[fd] = "SEND_ING"
  /\ \/ /\ mResponse[fd].code = "ok"
        /\ mRequest' = [mRequest EXCEPT ![fd] = "NULL"]
        /\ mResponse' = [mResponse EXCEPT ![fd] = NoResponse]
        /\ eStatus' = [eStatus EXCEPT ![fd] = "REQUEST_READY"]
        /\ mWriteFds' = mWriteFds \ {fd}
        /\ mWriteCopyFds' = mWriteCopyFds \ {fd}
        /\ expired' = expired \ {fd}
        /\ room' \in {room, room \ {fd}}
        /\ UNCHANGED <<pc, srv, mReadFds, mReadCopyFds, poolVars, fromCGI,
                       open, backlog, inbox, hungup, told>>
     \/ /\ mResponse[fd].code = "error"
        /\ VisitClose(fd)

(* SEND_ING: the peer is gone.  write() fails and the IOError closes the   *)
(* connection, unless SIGPIPE, whose disposition is the default, kills the *)
(* process first.                                                          *)
RunSendFail(fd) ==
  /\ Visit(fd) /\ hasSendWork(fd) /\ eStatus[fd] = "SEND_ING"
  /\ fd \in hungup
  /\ \/ VisitClose(fd)
     \/ /\ "sigpipe" \in Faults
        /\ pc' = "crashed"
        /\ UNCHANGED <<srv, connVars, fdSetVars, poolVars, fromCGI, expired, kernelVars>>

-----------------------------------------------------------------------------
(* Server::runExecute and executeCGI                                       *)
RunExecute(fd, status, response, files) ==
  /\ Visit(fd) /\ ~hasSendWork(fd) /\ hasExecuteWork(fd)
  /\ eStatus' = [eStatus EXCEPT ![fd] = status]
  /\ mResponse' = [mResponse EXCEPT ![fd] = response]
  /\ fromCGI' = files
  /\ UNCHANGED <<pc, srv, mRequest, fdSetVars, poolVars, expired, kernelVars>>

(* CGI_READY: fork, and wait for the program to end.                       *)
CgiRun(fd) ==
  /\ eStatus[fd] = "CGI_READY"
  /\ RunExecute(fd, "CGI_ING", mResponse[fd], fromCGI \cup {fd})

(* CGI_READY: no descriptor, no memory or no process (500), or nothing to  *)
(* send to the program (205); the output file may have been created.       *)
CgiRefuse(fd) ==
  /\ eStatus[fd] = "CGI_READY"
  /\ \/ RunExecute(fd, "SEND_READY", NewResponse("error"), fromCGI)
     \/ \E code \in Codes :
          RunExecute(fd, "SEND_READY", NewResponse(code), fromCGI \cup {fd})

(* CGI_ING: the output of the program becomes the body of the response.    *)
CgiAnswer(fd) ==
  /\ eStatus[fd] = "CGI_ING" /\ fd \in fromCGI
  /\ RunExecute(fd, "SEND_READY", mResponse[fd], fromCGI \ {fd})

(* CGI_ING: the program answered with a status other than 200.  The        *)
(* function returns without SetStatus: the connection stays in CGI_ING.    *)
CgiStatus(fd) ==
  /\ eStatus[fd] = "CGI_ING" /\ fd \in fromCGI
  /\ \E code \in Codes : RunExecute(fd, "CGI_ING", NewResponse(code), fromCGI \ {fd})

(* CGI_ING: there is no output file, it cannot be read, or it is malformed. *)
CgiFail_NoSetStatus(fd) ==   (* mutant: SetStatus is forgotten here too *)
  /\ eStatus[fd] = "CGI_ING"
  /\ \E files \in {fromCGI, fromCGI \ {fd}} :
       RunExecute(fd, "CGI_ING", NewResponse("error"), files)
CgiFail(fd) ==
  /\ eStatus[fd] = "CGI_ING"
  /\ \E files \in {fromCGI, fromCGI \ {fd}} :
       RunExecute(fd, "SEND_READY", NewResponse("error"), files)

-----------------------------------------------------------------------------
(* Server::runRecvAndSolve                                                 *)
Recv(fd) ==
  /\ Visit(fd)
  /\ ~hasSendWork(fd) /\ ~hasExecuteWork(fd) /\ hasRequest(fd)

(* read() consumes what the peer has sent.                                 *)
RecvBytes(fd) ==
  /\ Recv(fd)
  /\ fd \in inbox
  /\ inbox' = inbox \ {fd}
  /\ UNCHANGED <<srv, mReadFds, mReadCopyFds, poolVars, fromCGI, expired,
                 open, backlog, hungup, room, told>>

(* read() returns 0 or fails.                                              *)
RecvEnd(fd) ==
  /\ Recv(fd)
  /\ fd \in hungup
  /\ VisitClose(fd)

(* The request is not complete yet.                                        *)
RecvMore(fd) ==
  /\ RecvBytes(fd)
  /\ mRequest[fd] # "COMPLETE"
  /\ mRequest' = [mRequest EXCEPT ![fd] = "incoming"]
  /\ UNCHANGED <<pc, eStatus, mResponse, mWriteFds, mWriteCopyFds>>

(* A parser throws: the status page is the answer.                         *)
RecvReject_NoInterest(fd) ==   (* mutant: SetWriteFds is forgotten *)
  /\ RecvBytes(fd)
  /\ mRequest[fd] # "COMPLETE"
  /\ mRequest' = [mRequest EXCEPT ![fd] = "incoming"]
  /\ mResponse' = [mResponse EXCEPT ![fd] = NewResponse("error")]
  /\ eStatus' = [eStatus EXCEPT ![fd] = "SEND_READY"]
  /\ mWriteFds' = mWriteFds
  /\ UNCHANGED <<pc, mWriteCopyFds>>
RecvReject(fd) ==
  /\ RecvBytes(fd)
  /\ mRequest[fd] # "COMPLETE"
  /\ mRequest' = [mRequest EXCEPT ![fd] = "incoming"]
  /\ mResponse' = [mResponse EXCEPT ![fd] = NewResponse("error")]
  /\ eStatus' = [eStatus EXCEPT ![fd] = "SEND_READY"]
  /\ mWriteFds' = mWriteFds \cup {fd}
  /\ UNCHANGED <<pc, mWriteCopyFds>>

(* The request is complete, or was already (recvRequest then only adds the *)
(* bytes): solveRequest answers it, now or through its CGI program.        *)
RecvComplete_NoInterest(fd) ==   (* mutant: SetWriteFds is forgotten *)
  /\ RecvBytes(fd)
  /\ mRequest' = [mRequest EXCEPT ![fd] = "COMPLETE"]
  /\ UNCHANGED <<mWriteFds, mWriteCopyFds>>
RecvComplete(fd) ==
  /\ RecvBytes(fd)
  /\ mRequest' = [mRequest EXCEPT ![fd] = "COMPLETE"]
  /\ IF mRequest[fd] = "COMPLETE"
     THEN UNCHANGED <<mWriteFds, mWriteCopyFds>>
     ELSE /\ mWriteFds' = mWriteFds \cup {fd}
          /\ mWriteCopyFds' = mWriteCopyFds \cup {fd}

Solve(fd, status, code) ==
  /\ RecvComplete(fd)
  /\ mResponse' = [mResponse EXCEPT ![fd] = NewResponse(code)]
  /\ eStatus' = [eStatus EXCEPT ![fd] = status]
  /\ UNCHANGED pc

SolveAnswer(fd) == \E code \in Codes : Solve(fd, "SEND_READY", code)
SolveCgi(fd) == Solve(fd, "CGI_READY", "ok")

(* The lookup failed with an errno other than ENOENT: solveRequest returns *)
(* without a response and without a status.                                *)
SolveSilent_Ready(fd) ==   (* mutant: SEND_READY is set without a response *)
  /\ "silent" \in Faults
  /\ RecvComplete(fd)
  /\ eStatus' = [eStatus EXCEPT ![fd] = "SEND_READY"]
  /\ UNCHANGED <<pc, mResponse>>
SolveSilent(fd) ==
  /\ "silent" \in Faults
  /\ RecvComplete(fd)
  /\ UNCHANGED <<pc, eStatus, mResponse>>

(* executePut creates no response, and adds headers to the one there is:   *)
(* a null pointer, or the answer already being sent.                       *)
SolveUnwritable(fd) ==
  /\ "unwritable" \in Faults
  /\ RecvComplete(fd)
  /\ \/ /\ mResponse[fd].code = "NULL"
        /\ pc' = "crashed"
        /\ UNCHANGED <<eStatus, mResponse>>
     \/ /\ mResponse[fd].code # "NULL"
        /\ mResponse[fd].mSeek <= MaxLen   (* BOUND: mSeek may grow for ever *)
        /\ eStatus' = [eStatus EXCEPT ![fd] = "SEND_READY"]
        /\ UNCHANGED <<pc, mResponse>>

-----------------------------------------------------------------------------
(* The end of Server::run: hasNewConnection and acceptNewConnection.       *)
hasNewConnection ==
  /\ pc = "run" /\ todo = {}
  /\ ListenFd(srv) \in mReadCopyFds

(* The next turn of the loop over mServers, or back to select().           *)
NextServer_NoReset ==   (* mutant: the server to run is not reset *)
  IF srv < N
  THEN pc' = "run" /\ srv' = srv + 1 /\ todo' = clients(srv + 1)
  ELSE pc' = "select" /\ srv' = srv + 1 /\ todo' = {}
NextServer ==
  IF srv < N
  THEN pc' = "run" /\ srv' = srv + 1 /\ todo' = clients(srv + 1)
  ELSE pc' = "select" /\ srv' = 1 /\ todo' = {}

NoNewConnection ==
  /\ pc = "run" /\ todo = {}
  /\ ListenFd(srv) \notin mReadCopyFds
  /\ NextServer
  /\ UNCHANGED <<connVars, fdSetVars, poolVars, fromCGI, expired, kernelVars>>

(* GetSocket() of a connection is the descriptor it is filed under.        *)
GetSocket(fd) == fd

(* The connection to give up when the server is full: the first one that   *)
(* is not ready and has expired.  The code skips the entries whose         *)
(* GetSocket() equals their key.                                           *)
getUnuseConnectionFd(s) ==
  LET unused == {fd \in mConnections[s] : /\ GetSocket(fd) # fd
                                          /\ fd \notin mReadCopyFds
                                          /\ ~IsKeepConnection(fd)}
  IN  {fd \in unused : \A g \in unused : fd <= g}

isFull_OneMore(s) ==   (* mutant: > for >= *)
  Cardinality(mConnections[s]) > InitFdMax \div N
isFull(s) == Cardinality(mConnections[s]) >= InitFdMax \div N

(* accept() returns the lowest free descriptor.                            *)
AcceptNew ==
  LET evicted == IF isFull(srv) THEN getUnuseConnectionFd(srv) ELSE {}
      free    == (ClientFds \ open) \cup evicted
  IN  /\ hasNewConnection
      /\ isFull(srv) => evicted # {}
      /\ \E fd \in free :
           /\ \A g \in free : fd <= g
           /\ open' = (open \ evicted) \cup {fd}
           /\ mReadFds' = (mReadFds \ evicted) \cup {fd}
           /\ mReadCopyFds' = (mReadCopyFds \ evicted) \cup {fd}
           /\ mWriteFds' = mWriteFds \ evicted
           /\ mWriteCopyFds' = mWriteCopyFds \ evicted
           /\ mConnections' = [mConnections EXCEPT ![srv] = (@ \ evicted) \cup {fd}]
           /\ gTotalClients' = gTotalClients - Cardinality(evicted) + 1
           /\ mMaxFd' = IF mMaxFd < fd THEN fd ELSE mMaxFd
           /\ eStatus' = [eStatus EXCEPT ![fd] = "REQUEST_READY"]
           /\ mRequest' = [mRequest EXCEPT ![fd] = "NULL"]
           /\ mResponse' = [mResponse EXCEPT ![fd] = NoResponse]
           /\ expired' = expired \ {fd}
           /\ inbox' = inbox \ {fd} /\ hungup' = hungup \ {fd}
           /\ room' = room \cup {fd} /\ told' = told \ {fd}
      /\ backlog' = [backlog EXCEPT ![srv] = @ - 1]
      /\ NextServer
      /\ UNCHANGED fromCGI

(* The server is full and nobody can be given up: accept() is not called.  *)
AcceptFull ==
  /\ hasNewConnection
  /\ isFull(srv) /\ getUnuseConnectionFd(srv) = {}
  /\ NextServer
  /\ UNCHANGED <<connVars, fdSetVars, poolVars, fromCGI, expired, kernelVars>>

(* accept() fails: the process has no descriptor left.                     *)
AcceptFails ==
  /\ hasNewConnection
  /\ ~isFull(srv)
  /\ ClientFds \subseteq open
  /\ NextServer
  /\ UNCHANGED <<connVars, fdSetVars, poolVars, fromCGI, expired, kernelVars>>

-----------------------------------------------------------------------------
(* The environment: peers and clock.                                       *)
systemVars == <<loopVars, connVars, fdSetVars, poolVars, fromCGI>>
Accepted == open \cap ClientFds

Connect(s) ==
  /\ pc # "crashed" /\ backlog[s] < MaxBacklog
  /\ backlog' = [backlog EXCEPT ![s] = @ + 1]
  /\ UNCHANGED <<systemVars, expired, open, inbox, hungup, room, told>>

(* Without the "talkative" fault a client waits for its answer.            *)
ClientSend(fd) ==
  /\ pc # "crashed" /\ fd \in Accepted /\ fd \notin hungup \cup inbox
  /\ \/ "talkative" \in Faults
     \/ eStatus[fd] = "REQUEST_READY" /\ mRequest[fd] # "COMPLETE"
  /\ inbox' = inbox \cup {fd}
  /\ UNCHANGED <<systemVars, expired, open, backlog, hungup, room, told>>

ClientClose(fd) ==
  /\ pc # "crashed" /\ fd \in Accepted /\ fd \notin hungup
  /\ hungup' = hungup \cup {fd}
  /\ UNCHANGED <<systemVars, expired, open, backlog, inbox, room, told>>

(* The peer reads: its socket can be written to again.                     *)
PeerReads(fd) ==
  /\ pc # "crashed" /\ fd \in Accepted /\ fd \notin hungup \cup room
  /\ room' = room \cup {fd}
  /\ UNCHANGED <<systemVars, expired, open, backlog, inbox, hungup, told>>

(* KEEP_ALIVE_LIMIT seconds have passed since mLastRequestAt.              *)
Expire(fd) ==
  /\ pc # "crashed" /\ fd \in Accepted /\ fd \notin expired
  /\ expired' = expired \cup {fd}
  /\ UNCHANGED <<systemVars, kernelVars>>

-----------------------------------------------------------------------------
SendStep(fd) == RunSendReady(fd) \/ RunSendPart(fd) \/ RunSendLast(fd) \/ RunSendFail(fd)
CgiStep(fd)  == CgiRun(fd) \/ CgiRefuse(fd) \/ CgiAnswer(fd) \/ CgiStatus(fd) \/ CgiFail(fd)
RecvStep(fd) == \/ RecvEnd(fd) \/ RecvMore(fd) \/ RecvReject(fd)
                \/ SolveAnswer(fd) \/ SolveCgi(fd) \/ SolveSilent(fd) \/ SolveUnwritable(fd)
AcceptStep   == NoNewConnection \/ AcceptNew \/ AcceptFull \/ AcceptFails

System ==
  \/ Select \/ SelectTimeout \/ SelectError
  \/ \E fd \in ClientFds : VisitIdle(fd) \/ SendStep(fd) \/ CgiStep(fd) \/ RecvStep(fd)
  \/ AcceptStep

Environment ==
  \/ \E s \in Servers : Connect(s)
  \/ \E fd \in ClientFds :
       ClientSend(fd) \/ ClientClose(fd) \/ PeerReads(fd) \/ Expire(fd)

Next == System \/ Environment

Spec == Init /\ [][Next]_vars

(***************************************************************************)
(* Fairness.  The loop is one thread that always runs on: select returns   *)
(* as soon as a descriptor is ready and otherwise after its time-out.  The *)
(* clock moves, and a peer that is still there reads what it was sent.     *)
(***************************************************************************)
FairSpec ==
  /\ Spec
  /\ WF_vars(System)
  /\ \A fd \in ClientFds : WF_vars(Expire(fd)) /\ WF_vars(PeerReads(fd))

-----------------------------------------------------------------------------
(* Properties.                                                             *)
Responses == [code : Codes \cup {"NULL"}, size : Nat, mSeek : Nat, mHttpMessageLength : Nat]

(* Every variable has its type, and what concerns one connection concerns  *)
(* an accepted one.                                                        *)
TypeOK ==
  /\ pc \in {"select", "run", "crashed"}
  /\ srv \in Servers
  /\ todo \in SUBSET ClientFds
  /\ mConnections \in [Servers -> SUBSET (ListenFds \cup ClientFds)]
  /\ eStatus \in [ClientFds -> Status]
  /\ mRequest \in [ClientFds -> {"NULL", "incoming", "COMPLETE"}]
  /\ mResponse \in [ClientFds -> Responses]
  /\ mReadFds \in SUBSET (ListenFds \cup ClientFds)
  /\ mWriteFds \in SUBSET ClientFds
  /\ mReadCopyFds \in SUBSET (ListenFds \cup ClientFds)
  /\ mWriteCopyFds \in SUBSET ClientFds
  /\ mMaxFd \in Nat
  /\ gTotalClients \in Int
  /\ fromCGI \in SUBSET ClientFds
  /\ open \in SUBSET (ListenFds \cup ClientFds)
  /\ backlog \in [Servers -> Int]
  /\ expired \in SUBSET Accepted /\ inbox \in SUBSET Accepted
  /\ hungup \in SUBSET Accepted /\ room \in SUBSET Accepted
  /\ told \in SUBSET ClientFds

(* A descriptor is a connection of exactly one server, the sockets of the  *)
(* process are the connections of the servers (no descriptor is leaked or  *)
(* used after its close), and they are what the loop watches.              *)
Ownership ==
  /\ \A s, t \in Servers : s # t => mConnections[s] \cap mConnections[t] = {}
  /\ \A s \in Servers : ListenFd(s) \in mConnections[s] /\ clients(s) \subseteq ClientFds
  /\ open = UNION {mConnections[s] : s \in Servers}
  /\ mReadFds = open

(* The copies that select() filled in never name a descriptor closed       *)
(* since, nor one that has no interest: a descriptor number that is reused *)
(* in the same pass does not inherit the readiness of its predecessor.     *)
NoStaleReadiness ==
  /\ mReadCopyFds \subseteq open
  /\ mWriteCopyFds \subseteq mWriteFds

(* The loop waits for a connection to become writable exactly when there   *)
(* is something left to do for it: no pending answer is forgotten by       *)
(* select(), and no idle connection keeps it from timing out.              *)
HasWork(fd) == eStatus[fd] # "REQUEST_READY" \/ mRequest[fd] = "COMPLETE"
WriteInterest == \A fd \in ClientFds : fd \in mWriteFds <=> HasWork(fd)

(* runSend and executeCGI dereference the request and the response.        *)
AnswerExists ==
  \A fd \in ClientFds :
    eStatus[fd] # "REQUEST_READY" => mRequest[fd] # "NULL" /\ mResponse[fd].code # "NULL"

(* What write() is given ends where the message ends, and is never empty   *)
(* (a count of 0 is taken for an error); a message that is built anew is   *)
(* sent from its beginning.                                                *)
WriteWindow ==
  \A fd \in ClientFds :
    IF eStatus[fd] = "SEND_ING"
    THEN /\ mResponse[fd].mSeek + mResponse[fd].mHttpMessageLength = mResponse[fd].size
         /\ mResponse[fd].mHttpMessageLength > 0
    ELSE mResponse[fd].mSeek = 0

(* gTotalClients counts the clients, and select() is given a range that    *)
(* holds every watched descriptor: updateMaxFd lowers the range only when  *)
(* the count is 0.                                                         *)
Watched ==
  /\ gTotalClients = Cardinality(Accepted)
  /\ \A fd \in open : fd <= updateMaxFd

(* Every server stays within its share of INIT_FD_MAX connections (its     *)
(* listening socket, which is one of them, is there in any case).          *)
Share == IF InitFdMax \div N > 1 THEN InitFdMax \div N ELSE 1
WithinShare == \A s \in Servers : Cardinality(mConnections[s]) <= Share

(* The kernel giving the lowest free descriptor, no descriptor is ever     *)
(* above the shares of the servers and the three standard streams: the     *)
(* fd sets have to hold no more.                                           *)
LowDescriptors == \A fd \in open : fd <= 2 + N * Share

(* A descriptor that is not a connection carries nothing of the connection *)
(* that had it before, and run() only has connections of its server left.  *)
Blank ==
  \A fd \in ClientFds \ open :
    eStatus[fd] = "REQUEST_READY" /\ mRequest[fd] = "NULL" /\ mResponse[fd] = NoResponse
Scheduling == pc = "run" => todo \subseteq clients(srv)

(* A client that waits for its answers has nothing unread while one is     *)
(* pending.                                                                *)
PoliteClients ==
  "talkative" \notin Faults => \A fd \in ClientFds : HasWork(fd) => fd \notin inbox

(* The inductive invariant that the proofs rest on.                        *)
IInv ==
  /\ TypeOK /\ Ownership /\ NoStaleReadiness /\ WriteInterest
  /\ AnswerExists /\ Watched /\ Blank /\ Scheduling

(* A connection without a request is closed by the server only with a 408  *)
(* or a 503 (closeOldConnection, serviceUnavailable), unless its peer left *)
(* first.                                                                  *)
ClosedIdleIsTold ==
  [][\A fd \in Accepted :
       fd \notin open' /\ mRequest[fd] = "NULL" /\ fd \notin hungup => fd \in told']_vars

(* A pending answer is given up only when its peer left, when its peer has *)
(* stopped reading, or when it was an error answer that has just been sent *)
(* whole.                                                                  *)
PendingAnswerKept ==
  [][\A fd \in Accepted :
       fd \notin open' /\ HasWork(fd) =>
         \/ fd \in hungup \/ fd \notin room
         \/ eStatus[fd] = "SEND_ING" /\ mResponse[fd].code = "error"]_vars

(* Once a part of an answer is on the wire the message being sent is not   *)
(* replaced, and what is left to send is what has not been sent: mSeek     *)
(* moves on in the same message until all of it is on the wire.            *)
MessageSentWhole ==
  [][\A fd \in Accepted :
       mResponse[fd].mSeek > 0 /\ fd \in open' =>
         \/ /\ mResponse'[fd].code = mResponse[fd].code
            /\ mResponse'[fd].size = mResponse[fd].size
            /\ mResponse'[fd].mSeek >= mResponse[fd].mSeek
            /\ mResponse'[fd].mSeek + mResponse'[fd].mHttpMessageLength
                 = mResponse[fd].mSeek + mResponse[fd].mHttpMessageLength
         \/ mRequest'[fd] = "NULL" /\ eStatus'[fd] = "REQUEST_READY"]_vars

(***************************************************************************)
(* The loop implements the exchange of Exchange with each of its clients.  *)
(***************************************************************************)
clientPhase ==
  [fd \in ClientFds |->
     IF fd \notin open THEN "closed"
     ELSE IF eStatus[fd] = "SEND_ING" THEN "answering"
     ELSE IF HasWork(fd) THEN "asked"
     ELSE IF mRequest[fd] = "incoming" THEN "asking" ELSE "idle"]
sending(fd) == eStatus[fd] = "SEND_ING"
stillToSend == [fd \in ClientFds |-> IF sending(fd) THEN mResponse[fd].mHttpMessageLength ELSE 0]
answerCode == [fd \in ClientFds |-> IF sending(fd) THEN mResponse[fd].code ELSE "NULL"]

Ex == INSTANCE Exchange WITH
        Clients <- ClientFds, phase <- clientPhase, left <- stillToSend, code <- answerCode,
        gone <- hungup, blocked <- ClientFds \ room

(* With clients that wait for their answers, every client sees an exchange *)
(* that Exchange allows: answers come whole, from their beginning, once,   *)
(* and nobody is dropped without a reason (runSend, closeOldConnection).   *)
ExchangeKept == Ex!SafeSpec

(* And, in a loop that is fair and meets no fault, who has asked is served.*)
ImplementsExchange == Ex!Spec

(* A complete request is answered or its connection closed.                *)
Answered ==
  \A fd \in ClientFds : mRequest[fd] = "COMPLETE" ~> mRequest[fd] = "NULL"

(* When the peers fall silent every connection is reaped.                  *)
Quiet == inbox = {} /\ \A s \in Servers : backlog[s] = 0
IdleReaped == <>[]Quiet => <>[](Accepted = {})

(* A peer that does nothing is not kept for ever.                          *)
IdleForever(fd) == fd \in Accepted /\ mRequest[fd] = "NULL" /\ fd \in expired
IdleClosed == \A fd \in ClientFds : ~<>[]IdleForever(fd)
=============================================================================
