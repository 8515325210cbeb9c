--------------------------- MODULE EventLoop_proofs ---------------------------
(***************************************************************************)
(* Theorems about EventLoop, for any number of servers, descriptors and    *)
(* faults.  The inductive invariant is IInv; one lemma per group of        *)
(* actions shows that it is preserved: Erase for the steps that close      *)
(* connections, ConnStep for those that move one connection on, and one    *)
(* lemma each for accepting, for the rest of the loop and for the peers.   *)
(***************************************************************************)
EXTENDS EventLoop, FiniteSetTheorems, FunctionTheorems, TLAPS

(* The descriptors of the clients are above those of the listening sockets. *)
LEMMA Fds ==
  /\ ListenFds \cap ClientFds = {}
  /\ \A s \in Servers : ListenFd(s) \in ListenFds
  /\ \A fd \in ListenFds : fd \in Nat /\ fd <= 2 + N
  /\ \A fd \in ClientFds : fd \in Nat /\ fd > 2 + N
  /\ IsFiniteSet(ClientFds)
<1>1. \A fd \in ListenFds : fd \in Nat /\ fd <= 2 + N
  BY NAssumption DEF ListenFds, ListenFd, Servers
<1>2. \A fd \in ClientFds : fd \in Nat /\ fd > 2 + N
  BY NAssumption, FdLimitAssumption DEF ClientFds
<1>3. IsFiniteSet(ClientFds)
  BY FS_Interval, NAssumption, FdLimitAssumption DEF ClientFds
<1>4. ListenFds \cap ClientFds = {}
  <2>1. ASSUME NEW fd \in ListenFds, fd \in ClientFds PROVE FALSE
    BY <1>1, <1>2, <2>1, NAssumption
  <2> QED BY <2>1
<1>5. \A s \in Servers : ListenFd(s) \in ListenFds
  BY DEF ListenFds
<1> QED BY <1>1, <1>2, <1>3, <1>4, <1>5

(* Taking a subset away from a finite set subtracts the cardinalities.     *)
LEMMA CardinalityWithout ==
  ASSUME NEW S, IsFiniteSet(S), NEW T \in SUBSET S
  PROVE  /\ IsFiniteSet(T) /\ IsFiniteSet(S \ T)
         /\ Cardinality(S \ T) = Cardinality(S) - Cardinality(T)
         /\ Cardinality(S) \in Nat /\ Cardinality(T) \in Nat /\ Cardinality(S \ T) \in Nat
<1>1. IsFiniteSet(T) /\ IsFiniteSet(S \ T)
  BY FS_Subset
<1>2. S \cap T = T
  OBVIOUS
<1>3. Cardinality(S \ T) = Cardinality(S) - Cardinality(S \cap T)
  BY <1>1, FS_Difference
<1>4. Cardinality(S) \in Nat /\ Cardinality(T) \in Nat /\ Cardinality(S \ T) \in Nat
  BY <1>1, FS_CardinalityType
<1> QED BY <1>1, <1>2, <1>3, <1>4

(* The initial state.                                                      *)
LEMMA InitIInv == Init => IInv
<1> SUFFICES ASSUME Init PROVE IInv
  OBVIOUS
<1> USE DEF Init
<1>1. Accepted = {}
  BY Fds DEF Accepted
<1>2. TypeOK
  BY <1>1, NAssumption, InitFdMaxAssumption, Fds
  DEF TypeOK, Servers, Status, Responses, NewResponse, NoResponse, Codes
<1>3. Ownership
  <2>1. ASSUME NEW s \in Servers, NEW t \in Servers, s # t
        PROVE  mConnections[s] \cap mConnections[t] = {}
    BY <2>1 DEF Servers, ListenFd
  <2>2. \A s \in Servers : ListenFd(s) \in mConnections[s] /\ clients(s) \subseteq ClientFds
    BY DEF clients
  <2>3. open = UNION {mConnections[s] : s \in Servers}
    BY DEF ListenFds
  <2> QED BY <2>1, <2>2, <2>3 DEF Ownership
<1>4. NoStaleReadiness
  BY DEF NoStaleReadiness
<1>5. WriteInterest /\ AnswerExists /\ Blank
  BY DEF WriteInterest, HasWork, AnswerExists, Blank
<1>6. Watched
  BY <1>1, Fds, FS_EmptySet DEF Watched, updateMaxFd
<1>7. Scheduling
  BY DEF Scheduling
<1> QED BY <1>2, <1>3, <1>4, <1>5, <1>6, <1>7 DEF IInv

(* Every client connection of a server is an accepted one, and the other   *)
(* way round.                                                              *)
LEMMA ClientsAccepted ==
  ASSUME TypeOK, Ownership
  PROVE  /\ \A s \in Servers : clients(s) \subseteq Accepted
         /\ UNION {clients(s) : s \in Servers} = Accepted
         /\ ListenFds \subseteq open
         /\ open = ListenFds \cup Accepted
<1>1. \A s \in Servers : clients(s) \subseteq Accepted
  BY DEF Ownership, clients, Accepted
<1>2. \A s \in Servers : mConnections[s] = {ListenFd(s)} \cup clients(s)
  BY DEF Ownership, clients
<1>3. ListenFds \subseteq open
  BY DEF Ownership, ListenFds
<1>4. open = ListenFds \cup Accepted
  BY <1>3 DEF TypeOK, Accepted
<1>5. ASSUME NEW fd \in Accepted PROVE \E s \in Servers : fd \in clients(s)
  <2>1. PICK s \in Servers : fd \in mConnections[s]
    BY DEF Ownership, Accepted
  <2>2. fd # ListenFd(s)
    BY Fds DEF Accepted
  <2> QED BY <2>1, <2>2 DEF clients
<1> QED BY <1>1, <1>3, <1>4, <1>5

(* The steps that close connections: eraseConnections of accepted ones.    *)
LEMMA Erase ==
  ASSUME IInv, NEW fds \in SUBSET Accepted, eraseConnections(fds),
         mReadCopyFds' \subseteq mReadFds', mWriteCopyFds' \subseteq mWriteFds',
         mMaxFd' \in {mMaxFd, updateMaxFd},
         pc' \in {pc, "crashed"}, srv' = srv,
         pc = "run" => todo' \subseteq todo \ fds, todo' \subseteq todo,
         told' \in SUBSET ClientFds, UNCHANGED <<fromCGI, backlog>>
  PROVE  IInv'
<1> USE DEF IInv, eraseConnections
<1>0. fds \subseteq ClientFds /\ fds \subseteq open /\ fds \cap ListenFds = {}
  BY Fds DEF Accepted
<1>1. Accepted' = Accepted \ fds
  BY DEF Accepted
<1>2. IsFiniteSet(Accepted)
  BY Fds, FS_Subset DEF Accepted
<1>3. /\ Cardinality(fds) \in Nat
      /\ Cardinality(Accepted') = Cardinality(Accepted) - Cardinality(fds)
      /\ Cardinality(Accepted') \in Nat /\ Cardinality(Accepted) \in Nat
      /\ IsFiniteSet(Accepted')
  BY <1>1, <1>2, CardinalityWithout
<1>4. gTotalClients' = Cardinality(Accepted')
  BY <1>3 DEF Watched
<1>5. mMaxFd' \in Nat
  BY NAssumption DEF TypeOK, updateMaxFd
<1>6. TypeOK'
  <2>1. eStatus' \in [ClientFds -> Status]
    BY DEF TypeOK, Status
  <2>2. mRequest' \in [ClientFds -> {"NULL", "incoming", "COMPLETE"}]
    BY DEF TypeOK
  <2>3. mResponse' \in [ClientFds -> Responses]
    BY DEF TypeOK, Responses, NewResponse, NoResponse, Codes
  <2>4. mConnections' \in [Servers -> SUBSET (ListenFds \cup ClientFds)]
    BY DEF TypeOK
  <2>5. /\ open' \in SUBSET (ListenFds \cup ClientFds)
        /\ mReadFds' \in SUBSET (ListenFds \cup ClientFds)
        /\ mWriteFds' \in SUBSET ClientFds
    BY DEF TypeOK
  <2>6. /\ mReadCopyFds' \in SUBSET (ListenFds \cup ClientFds)
        /\ mWriteCopyFds' \in SUBSET ClientFds
    BY <2>5
  <2>7. gTotalClients' \in Int
    BY <1>3, <1>4
  <2>8. /\ expired' \in SUBSET Accepted' /\ inbox' \in SUBSET Accepted'
        /\ hungup' \in SUBSET Accepted' /\ room' \in SUBSET Accepted'
    BY <1>1 DEF TypeOK
  <2>9. pc' \in {"select", "run", "crashed"} /\ srv' \in Servers /\ todo' \in SUBSET ClientFds
    BY DEF TypeOK
  <2>10. fromCGI' \in SUBSET ClientFds /\ backlog' \in [Servers -> Int]
    BY DEF TypeOK
  <2> QED BY <1>5, <2>1, <2>2, <2>3, <2>4, <2>5, <2>6, <2>7, <2>8, <2>9, <2>10 DEF TypeOK
<1>7. \A s \in Servers : clients(s)' = clients(s) \ fds
  BY DEF clients
<1>8. Ownership'
  <2>1. \A s, t \in Servers : s # t => mConnections'[s] \cap mConnections'[t] = {}
    BY DEF Ownership
  <2>2. \A s \in Servers : ListenFd(s) \in mConnections'[s] /\ clients(s)' \subseteq ClientFds
    BY <1>0, <1>7, Fds DEF Ownership
  <2>3. open' = UNION {mConnections'[s] : s \in Servers}
    BY DEF Ownership
  <2>4. mReadFds' = open'
    BY DEF Ownership
  <2> QED BY <2>1, <2>2, <2>3, <2>4 DEF Ownership
<1>9. NoStaleReadiness'
  BY <1>8 DEF NoStaleReadiness, Ownership
<1>10. WriteInterest'
  BY DEF WriteInterest, HasWork, TypeOK
<1>11. AnswerExists'
  BY DEF AnswerExists, TypeOK
<1>12. Watched'
  <2>1. updateMaxFd' = IF gTotalClients' = 0 THEN 2 + N ELSE mMaxFd'
    BY DEF updateMaxFd
  <2>2. CASE gTotalClients' = 0
    <3>1. Accepted' = {}
      BY <1>3, <1>4, <2>2, FS_EmptySet
    <3>2. open' \subseteq ListenFds
      BY <1>6, <3>1 DEF TypeOK, Accepted
    <3> QED BY <1>4, <2>1, <2>2, <3>2, Fds DEF Watched
  <2>3. CASE gTotalClients' # 0
    <3>1. gTotalClients # 0
      BY <1>3, <1>4, <2>3 DEF Watched
    <3>2. mMaxFd' = mMaxFd /\ updateMaxFd' = updateMaxFd
      BY <2>1, <2>3, <3>1 DEF updateMaxFd
    <3> QED BY <1>4, <3>2 DEF Watched
  <2> QED BY <2>2, <2>3
<1>13. Blank'
  BY DEF Blank
<1>14. Scheduling'
  <2>1. ASSUME pc' = "run" PROVE todo' \subseteq clients(srv) \ fds
    BY <2>1 DEF Scheduling
  <2>2. srv \in Servers
    BY DEF TypeOK
  <2>3. ASSUME pc' = "run" PROVE todo' \subseteq clients(srv)'
    BY <2>1, <2>2, <2>3, <1>7 DEF clients
  <2> QED BY <2>3 DEF Scheduling
<1> QED BY <1>6, <1>8, <1>9, <1>10, <1>11, <1>12, <1>13, <1>14

(* The steps that move one connection on: its status, its request and its  *)
(* response change, and its interest in writing with them.                 *)
LEMMA ConnStep ==
  ASSUME IInv, NEW fd \in Accepted,
         NEW st \in Status, NEW rq \in {"NULL", "incoming", "COMPLETE"}, NEW rs \in Responses,
         eStatus' = [eStatus EXCEPT ![fd] = st],
         mRequest' = [mRequest EXCEPT ![fd] = rq],
         mResponse' = [mResponse EXCEPT ![fd] = rs],
         st # "REQUEST_READY" => rq # "NULL" /\ rs.code # "NULL",
         mWriteFds' = IF st # "REQUEST_READY" \/ rq = "COMPLETE"
                      THEN mWriteFds \cup {fd} ELSE mWriteFds \ {fd},
         mWriteCopyFds' \subseteq mWriteFds',
         pc' \in {pc, "crashed"}, todo' \subseteq todo,
         expired' \subseteq expired, inbox' \subseteq inbox, room' \subseteq room,
         fromCGI' \in SUBSET ClientFds,
         UNCHANGED <<srv, mReadFds, mReadCopyFds, poolVars, open, backlog, hungup, told>>
  PROVE  IInv'
<1> USE DEF IInv, poolVars
<1>1. Accepted' = Accepted /\ fd \in ClientFds /\ fd \in open
  BY DEF Accepted
<1>2. TypeOK'
  <2>1. /\ eStatus' \in [ClientFds -> Status]
        /\ mRequest' \in [ClientFds -> {"NULL", "incoming", "COMPLETE"}]
        /\ mResponse' \in [ClientFds -> Responses]
    BY <1>1 DEF TypeOK
  <2>2. mWriteFds' \in SUBSET ClientFds /\ mWriteCopyFds' \in SUBSET ClientFds
    BY <1>1 DEF TypeOK
  <2>3. /\ expired' \in SUBSET Accepted' /\ inbox' \in SUBSET Accepted'
        /\ hungup' \in SUBSET Accepted' /\ room' \in SUBSET Accepted'
    BY <1>1 DEF TypeOK
  <2>4. pc' \in {"select", "run", "crashed"} /\ todo' \in SUBSET ClientFds
    BY DEF TypeOK
  <2> QED BY <2>1, <2>2, <2>3, <2>4 DEF TypeOK
<1>3. \A s \in Servers : clients(s)' = clients(s)
  BY DEF clients
<1>4. Ownership'
  BY <1>3 DEF Ownership
<1>5. NoStaleReadiness'
  BY DEF NoStaleReadiness
<1>6. WriteInterest'
  BY <1>1 DEF WriteInterest, HasWork, TypeOK
<1>7. AnswerExists'
  BY <1>1 DEF AnswerExists, TypeOK
<1>8. Watched'
  BY <1>1 DEF Watched, updateMaxFd
<1>9. Blank'
  BY <1>1 DEF Blank, TypeOK
<1>10. Scheduling'
  BY <1>3 DEF Scheduling, TypeOK
<1> QED BY <1>2, <1>4, <1>5, <1>6, <1>7, <1>8, <1>9, <1>10

(* run() visits accepted connections.                                      *)
LEMMA VisitFacts ==
  ASSUME IInv, NEW fd, Visit(fd)
  PROVE  /\ fd \in Accepted /\ fd \in ClientFds /\ {fd} \in SUBSET Accepted
         /\ todo' \subseteq todo /\ todo' \subseteq todo \ {fd}
         /\ eStatus[fd] \in Status
         /\ mRequest[fd] \in {"NULL", "incoming", "COMPLETE"}
         /\ mResponse[fd] \in Responses
         /\ eStatus = [eStatus EXCEPT ![fd] = eStatus[fd]]
         /\ mRequest = [mRequest EXCEPT ![fd] = mRequest[fd]]
         /\ mResponse = [mResponse EXCEPT ![fd] = mResponse[fd]]
<1>1. fd \in clients(srv)
  BY DEF IInv, Scheduling, Visit
<1>2. fd \in Accepted
  BY <1>1, ClientsAccepted DEF IInv, TypeOK
<1>3. fd \in ClientFds
  BY <1>2 DEF Accepted
<1> QED BY <1>2, <1>3 DEF Visit, IInv, TypeOK

(* A visit that closes its connection preserves the invariant.             *)
LEMMA VisitCloseStep ==
  ASSUME IInv, NEW fd \in ClientFds, Visit(fd), VisitClose(fd)
  PROVE  IInv'
<1>1. fd \in Accepted /\ {fd} \in SUBSET Accepted /\ todo' \subseteq todo /\ todo' \subseteq todo \ {fd}
  BY VisitFacts
<1>2. mReadCopyFds' \subseteq mReadFds' /\ mWriteCopyFds' \subseteq mWriteFds'
  BY DEF VisitClose, closeConnection, eraseConnections, IInv, NoStaleReadiness, Ownership
<1>3. told' \in SUBSET ClientFds
  BY DEF VisitClose, IInv, TypeOK
<1> QED BY <1>1, <1>2, <1>3, Erase DEF VisitClose, closeConnection

(* runSend.                                                                *)
LEMMA SendStepInv ==
  ASSUME IInv, NEW fd \in ClientFds, SendStep(fd)
  PROVE  IInv'
<1>0. /\ Visit(fd) /\ mRequest[fd] # "NULL" /\ eStatus[fd] \in Sending
  BY DEF SendStep, RunSendReady, RunSendPart, RunSendLast, RunSendFail, hasSendWork
<1>1. /\ fd \in Accepted /\ todo' \subseteq todo
      /\ eStatus[fd] \in Status
      /\ mRequest[fd] \in {"NULL", "incoming", "COMPLETE"}
      /\ mResponse[fd] \in Responses
      /\ eStatus = [eStatus EXCEPT ![fd] = eStatus[fd]]
      /\ mRequest = [mRequest EXCEPT ![fd] = mRequest[fd]]
      /\ mResponse = [mResponse EXCEPT ![fd] = mResponse[fd]]
  BY <1>0, VisitFacts
<1>2. mResponse[fd].code \in Codes /\ mWriteFds = mWriteFds \cup {fd}
  BY <1>0, <1>1 DEF IInv, AnswerExists, WriteInterest, HasWork, Responses, Sending
<1>3. /\ mWriteFds \in SUBSET ClientFds /\ fromCGI \in SUBSET ClientFds
      /\ mWriteCopyFds \subseteq mWriteFds
  BY DEF IInv, TypeOK, NoStaleReadiness
<1>4. CASE RunSendReady(fd)
  <2>1. PICK n \in 1..MaxLen :
          mResponse' = [mResponse EXCEPT ![fd] = makeHttpMessage(@, n)]
    BY <1>4 DEF RunSendReady
  <2> DEFINE rs == makeHttpMessage(mResponse[fd], n)
  <2>2. n \in Nat
    BY BoundsAssumption
  <2>3. rs \in Responses /\ rs.code = mResponse[fd].code
    BY <1>1, <2>2 DEF Responses, makeHttpMessage
  <2>4. mResponse' = [mResponse EXCEPT ![fd] = rs]
    BY <2>1, <1>1 DEF IInv, TypeOK
  <2>5. "SEND_ING" \in Status /\ mRequest' = [mRequest EXCEPT ![fd] = mRequest[fd]]
    BY <1>1, <1>4 DEF RunSendReady, Status
  <2> HIDE DEF rs
  <2> QED BY <1>0, <1>1, <1>2, <1>3, <1>4, <2>3, <2>4, <2>5, ConnStep
          DEF RunSendReady, fdSetVars, kernelVars, Codes
<1>5. CASE RunSendPart(fd)
  <2>1. PICK n \in 1..(mResponse[fd].mHttpMessageLength - 1) :
          mResponse' = [mResponse EXCEPT ![fd] = written(@, n)]
    BY <1>5 DEF RunSendPart
  <2> DEFINE rs == written(mResponse[fd], n)
  <2>2. mResponse[fd].mHttpMessageLength \in Nat /\ mResponse[fd].mSeek \in Nat
    BY <1>1 DEF Responses
  <2>3. mResponse[fd].mHttpMessageLength - n \in Nat /\ mResponse[fd].mSeek + n \in Nat
    BY <2>2
  <2>4. rs \in Responses /\ rs.code = mResponse[fd].code
    BY <1>1, <2>3 DEF Responses, written
  <2>5. mResponse' = [mResponse EXCEPT ![fd] = rs]
    BY <2>1, <1>1 DEF IInv, TypeOK
  <2>6. /\ eStatus' = [eStatus EXCEPT ![fd] = eStatus[fd]]
        /\ mRequest' = [mRequest EXCEPT ![fd] = mRequest[fd]]
    BY <1>1, <1>5 DEF RunSendPart
  <2>7. eStatus[fd] # "REQUEST_READY"
    BY <1>0 DEF Sending
  <2> HIDE DEF rs
  <2> QED BY <1>0, <1>1, <1>2, <1>3, <1>5, <2>4, <2>5, <2>6, <2>7, ConnStep
          DEF RunSendPart, fdSetVars, Codes
<1>6. CASE RunSendLast(fd)
  <2>1. CASE VisitClose(fd)
    BY <1>0, <2>1, VisitCloseStep
  <2>2. CASE ~VisitClose(fd)
    <3>1. NoResponse \in Responses /\ "REQUEST_READY" \in Status
      BY DEF NewResponse, NoResponse, Responses, Status, Codes
    <3>2. mWriteCopyFds' \subseteq mWriteFds' /\ mWriteFds' = mWriteFds \ {fd}
      BY <1>3, <1>6, <2>2 DEF RunSendLast
    <3> QED BY <1>1, <1>3, <1>6, <2>2, <3>1, <3>2, ConnStep DEF RunSendLast
  <2> QED BY <2>1, <2>2
<1>7. CASE RunSendFail(fd)
  <2>1. CASE VisitClose(fd)
    BY <1>0, <2>1, VisitCloseStep
  <2>2. CASE ~VisitClose(fd)
    <3>1. /\ eStatus' = [eStatus EXCEPT ![fd] = eStatus[fd]]
          /\ mRequest' = [mRequest EXCEPT ![fd] = mRequest[fd]]
          /\ mResponse' = [mResponse EXCEPT ![fd] = mResponse[fd]]
      BY <1>1, <1>7, <2>2 DEF RunSendFail, connVars
    <3>2. eStatus[fd] # "REQUEST_READY"
      BY <1>0 DEF Sending
    <3> QED BY <1>0, <1>1, <1>2, <1>3, <1>7, <2>2, <3>1, <3>2, ConnStep
            DEF RunSendFail, fdSetVars, kernelVars, Codes
  <2> QED BY <2>1, <2>2
<1> QED BY <1>4, <1>5, <1>6, <1>7 DEF SendStep

(* runExecute.                                                             *)
LEMMA CgiStepInv ==
  ASSUME IInv, NEW fd \in ClientFds, CgiStep(fd)
  PROVE  IInv'
<1>1. \A code \in Codes : NewResponse(code) \in Responses /\ NewResponse(code).code = code
  BY DEF NewResponse, Responses, Codes
<1>2. fromCGI \in SUBSET ClientFds
  BY DEF IInv, TypeOK
<1>3. Visit(fd) /\ eStatus[fd] \in Executing
  BY DEF CgiStep, CgiRun, CgiRefuse, CgiAnswer, CgiStatus, CgiFail, RunExecute, hasExecuteWork
<1>4. fd \in Accepted /\ mResponse[fd] \in Responses /\ mResponse[fd].code \in Codes
  BY <1>3, VisitFacts DEF IInv, AnswerExists, Executing, Responses
<1>5. PICK st \in Status, rs \in Responses, files \in SUBSET ClientFds :
        st # "REQUEST_READY" /\ rs.code # "NULL" /\ RunExecute(fd, st, rs, files)
  <2>1. CASE CgiRun(fd)
    BY <1>2, <1>4, <2>1 DEF CgiRun, Status, Codes
  <2>2. CASE CgiRefuse(fd)
    BY <1>1, <1>2, <2>2 DEF CgiRefuse, Status, Codes
  <2>3. CASE CgiAnswer(fd)
    BY <1>2, <1>4, <2>3 DEF CgiAnswer, Status, Codes
  <2>4. CASE CgiStatus(fd)
    BY <1>1, <1>2, <2>4 DEF CgiStatus, Status, Codes
  <2>5. CASE CgiFail(fd)
    BY <1>1, <1>2, <2>5 DEF CgiFail, Status, Codes
  <2> QED BY <2>1, <2>2, <2>3, <2>4, <2>5 DEF CgiStep
<1>6. /\ todo' \subseteq todo
      /\ mRequest[fd] \in {"NULL", "incoming", "COMPLETE"}
      /\ mRequest = [mRequest EXCEPT ![fd] = mRequest[fd]]
  BY <1>3, VisitFacts
<1>7. /\ mRequest[fd] # "NULL" /\ mWriteFds = mWriteFds \cup {fd}
      /\ mWriteCopyFds \subseteq mWriteFds
  BY <1>3, <1>4 DEF IInv, AnswerExists, WriteInterest, HasWork, Executing, NoStaleReadiness
<1> QED BY <1>4, <1>5, <1>6, <1>7, ConnStep DEF RunExecute, fdSetVars, kernelVars

(* runRecvAndSolve.                                                        *)
LEMMA RecvStepInv ==
  ASSUME IInv, NEW fd \in ClientFds, RecvStep(fd)
  PROVE  IInv'
<1>1. \A code \in Codes : NewResponse(code) \in Responses /\ NewResponse(code).code = code
  BY DEF NewResponse, Responses, Codes
<1>2. Visit(fd)
  BY DEF RecvStep, RecvEnd, RecvMore, RecvReject, SolveAnswer, SolveCgi, SolveSilent,
         SolveUnwritable, Solve, RecvComplete, RecvBytes, Recv
<1>3. /\ fd \in Accepted /\ todo' \subseteq todo
      /\ eStatus[fd] \in Status
      /\ mRequest[fd] \in {"NULL", "incoming", "COMPLETE"}
      /\ mResponse[fd] \in Responses
      /\ eStatus = [eStatus EXCEPT ![fd] = eStatus[fd]]
      /\ mRequest = [mRequest EXCEPT ![fd] = mRequest[fd]]
      /\ mResponse = [mResponse EXCEPT ![fd] = mResponse[fd]]
  BY <1>2, VisitFacts
<1>4. /\ mWriteFds \in SUBSET ClientFds /\ fromCGI \in SUBSET ClientFds
      /\ mWriteCopyFds \subseteq mWriteFds
  BY DEF IInv, TypeOK, NoStaleReadiness
<1>5. fd \in mWriteFds <=> eStatus[fd] # "REQUEST_READY" \/ mRequest[fd] = "COMPLETE"
  BY DEF IInv, WriteInterest, HasWork
<1>6. eStatus[fd] # "REQUEST_READY" => mRequest[fd] # "NULL" /\ mResponse[fd].code # "NULL"
  BY DEF IInv, AnswerExists
<1>7. CASE RecvEnd(fd)
  BY <1>2, <1>7, VisitCloseStep DEF RecvEnd
<1>8. CASE RecvMore(fd)
  <2>1. mWriteFds' = IF eStatus[fd] # "REQUEST_READY" \/ "incoming" = "COMPLETE"
                     THEN mWriteFds \cup {fd} ELSE mWriteFds \ {fd}
    BY <1>5, <1>8 DEF RecvMore
  <2>2. /\ eStatus' = [eStatus EXCEPT ![fd] = eStatus[fd]]
        /\ mResponse' = [mResponse EXCEPT ![fd] = mResponse[fd]]
    BY <1>3, <1>8 DEF RecvMore
  <2>3. /\ mRequest' = [mRequest EXCEPT ![fd] = "incoming"]
        /\ mWriteCopyFds' \subseteq mWriteFds'
        /\ pc' \in {pc, "crashed"} /\ todo' \subseteq todo
        /\ expired' \subseteq expired /\ inbox' \subseteq inbox /\ room' \subseteq room
        /\ fromCGI' \in SUBSET ClientFds
        /\ UNCHANGED <<srv, mReadFds, mReadCopyFds, poolVars, open, backlog, hungup, told>>
    BY <1>3, <1>4, <1>8 DEF RecvMore, RecvBytes
  <2>4. eStatus[fd] # "REQUEST_READY" => "incoming" # "NULL" /\ mResponse[fd].code # "NULL"
    BY <1>6
  <2>5. fd \in Accepted
    BY <1>3
  <2> QED BY <1>3, <2>1, <2>2, <2>3, <2>4, <2>5, ConnStep
<1>9. CASE RecvReject(fd)
  <2>1. "SEND_READY" \in Status /\ "error" \in Codes
    BY DEF Status, Codes
  <2> QED BY <1>1, <1>3, <1>4, <1>9, <2>1, ConnStep DEF RecvReject, RecvBytes
<1>10. ASSUME RecvComplete(fd)
       PROVE  /\ mWriteFds' = mWriteFds \cup {fd} /\ mWriteCopyFds' \subseteq mWriteFds'
              /\ mRequest' = [mRequest EXCEPT ![fd] = "COMPLETE"]
              /\ inbox' \subseteq inbox
              /\ UNCHANGED <<srv, mReadFds, mReadCopyFds, poolVars, fromCGI, expired,
                             open, backlog, hungup, room, told>>
  BY <1>4, <1>5, <1>10 DEF RecvComplete, RecvBytes
<1>11. CASE SolveAnswer(fd) \/ SolveCgi(fd)
  <2>1. PICK st \in {"SEND_READY", "CGI_READY"}, code \in Codes : Solve(fd, st, code)
    BY <1>11 DEF SolveAnswer, SolveCgi, Codes
  <2>2. st \in Status /\ st # "REQUEST_READY" /\ code # "NULL"
    BY DEF Status, Codes
  <2>3. RecvComplete(fd)
    BY <2>1 DEF Solve
  <2> QED BY <1>1, <1>3, <1>4, <1>10, <2>1, <2>2, <2>3, ConnStep DEF Solve
<1>12. CASE SolveSilent(fd)
  <2>1. /\ eStatus' = [eStatus EXCEPT ![fd] = eStatus[fd]]
        /\ mResponse' = [mResponse EXCEPT ![fd] = mResponse[fd]]
    BY <1>3, <1>12 DEF SolveSilent
  <2>2. RecvComplete(fd) /\ pc' = pc
    BY <1>12 DEF SolveSilent
  <2> QED BY <1>3, <1>4, <1>6, <1>10, <2>1, <2>2, ConnStep
<1>13. CASE SolveUnwritable(fd)
  <2>1. RecvComplete(fd) /\ pc' \in {pc, "crashed"}
    BY <1>13 DEF SolveUnwritable
  <2>2. mResponse' = [mResponse EXCEPT ![fd] = mResponse[fd]]
    BY <1>3, <1>13 DEF SolveUnwritable
  <2>3. PICK st \in Status :
          /\ eStatus' = [eStatus EXCEPT ![fd] = st]
          /\ st # "REQUEST_READY" => mResponse[fd].code # "NULL"
    BY <1>3, <1>6, <1>13 DEF SolveUnwritable, Status
  <2> QED BY <1>3, <1>4, <1>10, <2>1, <2>2, <2>3, ConnStep
<1> QED BY <1>7, <1>8, <1>9, <1>11, <1>12, <1>13 DEF RecvStep

(* The steps that leave the connections alone: the loop moves on.          *)
LEMMA IdleStep ==
  ASSUME IInv, UNCHANGED <<connVars, mConnections, mReadFds, mWriteFds, gTotalClients,
                           fromCGI, expired, kernelVars>>,
         mMaxFd' \in {mMaxFd, updateMaxFd},
         mReadCopyFds' \in SUBSET mReadFds, mWriteCopyFds' \in SUBSET mWriteFds,
         pc' \in {"select", "run", "crashed"}, srv' \in Servers,
         todo' \in SUBSET ClientFds, pc' = "run" => todo' \subseteq clients(srv')
  PROVE  IInv'
<1> USE DEF IInv, connVars, kernelVars
<1>1. \A s : clients(s)' = clients(s)
  BY DEF clients
<1>2. Accepted' = Accepted
  BY DEF Accepted
<1>3. mMaxFd' \in Nat
  BY NAssumption DEF TypeOK, updateMaxFd
<1>4. TypeOK'
  BY <1>2, <1>3 DEF TypeOK
<1>5. Ownership'
  BY <1>1 DEF Ownership
<1>6. NoStaleReadiness'
  BY DEF NoStaleReadiness, Ownership
<1>7. WriteInterest' /\ AnswerExists' /\ Blank'
  BY DEF WriteInterest, HasWork, AnswerExists, Blank
<1>8. Watched'
  BY <1>2 DEF Watched, updateMaxFd
<1>9. Scheduling'
  <2>1. clients(srv)' = mConnections[srv'] \ {ListenFd(srv')}
    BY DEF clients
  <2> QED BY <2>1 DEF Scheduling, clients
<1> QED BY <1>4, <1>5, <1>6, <1>7, <1>8, <1>9

(* NextServer leaves run() with the connections of the server it enters.   *)
LEMMA NextServerFacts ==
  ASSUME IInv, NextServer
  PROVE  /\ pc' \in {"select", "run"} /\ srv' \in Servers /\ todo' \in SUBSET ClientFds
         /\ pc' = "run" => srv < N /\ srv' = srv + 1 /\ todo' = clients(srv + 1)
<1>1. CASE srv < N
  <2>1. srv + 1 \in Servers
    BY <1>1, NAssumption DEF IInv, TypeOK, Servers
  <2>2. clients(srv + 1) \subseteq ClientFds
    BY <2>1 DEF IInv, Ownership
  <2> QED BY <1>1, <2>1, <2>2 DEF NextServer
<1>2. CASE ~(srv < N)
  BY <1>2, NAssumption DEF NextServer, Servers
<1> QED BY <1>1, <1>2

(* select(), its time-out and its failure preserve the invariant.          *)
LEMMA SelectInv ==
  ASSUME IInv, Select \/ SelectTimeout \/ SelectError
  PROVE  IInv'
<1>1. CASE Select
  <2>1. 1 \in Servers
    BY NAssumption DEF Servers
  <2>2. clients(1) \in SUBSET ClientFds
    BY <2>1 DEF IInv, Ownership
  <2>3. ReadyToRead \in SUBSET mReadFds /\ ReadyToWrite \in SUBSET mWriteFds
    BY DEF ReadyToRead, ReadyToWrite
  <2> QED BY <1>1, <2>1, <2>2, <2>3, IdleStep DEF Select
<1>2. CASE SelectTimeout
  <2> DEFINE old == {fd \in UNION {clients(s) : s \in Servers} : ~IsKeepConnection(fd)}
  <2>1. old \in SUBSET Accepted
    BY ClientsAccepted DEF IInv
  <2>2. /\ eraseConnections(old) /\ mReadCopyFds' = {} /\ mWriteCopyFds' = {}
        /\ mMaxFd' = updateMaxFd /\ pc = "select"
        /\ UNCHANGED <<loopVars, fromCGI, backlog>>
        /\ told' = told \cup {fd \in old : mRequest[fd] = "NULL"}
    BY <1>2 DEF SelectTimeout
  <2>3. told' \in SUBSET ClientFds
    BY <2>1, <2>2 DEF IInv, TypeOK, Accepted
  <2> HIDE DEF old
  <2> QED BY <2>1, <2>2, <2>3, Erase DEF loopVars
<1>3. CASE SelectError
  <2> DEFINE closed == UNION {clients(s) : s \in Servers}
             first == {fd \in closed : \E s \in Servers :
                         fd \in clients(s) /\ \A g \in clients(s) : fd <= g}
  <2>1. closed \in SUBSET Accepted
    BY ClientsAccepted DEF IInv
  <2>2. /\ eraseConnections(closed)
        /\ mReadCopyFds' = mReadFds \ closed /\ mWriteCopyFds' = mWriteFds \ closed
        /\ mMaxFd' = updateMaxFd /\ pc = "select"
        /\ pc' \in {"select", "crashed"}
        /\ UNCHANGED <<srv, todo, fromCGI, backlog>>
        /\ told' = told \cup (closed \ first)
    BY <1>3 DEF SelectError
  <2>3. told' \in SUBSET ClientFds
    BY <2>1, <2>2 DEF IInv, TypeOK, Accepted
  <2>4. mReadCopyFds' \subseteq mReadFds' /\ mWriteCopyFds' \subseteq mWriteFds'
    BY <2>2 DEF eraseConnections
  <2> HIDE DEF closed, first
  <2> QED BY <2>1, <2>2, <2>3, <2>4, Erase
<1> QED BY <1>1, <1>2, <1>3

(* A connection nobody works on, and the ends of run() without accept.     *)
LEMMA LoopInv ==
  ASSUME IInv, \/ \E fd \in ClientFds : VisitIdle(fd)
               \/ NoNewConnection \/ AcceptFull \/ AcceptFails
  PROVE  IInv'
<1>1. mReadCopyFds \in SUBSET mReadFds /\ mWriteCopyFds \in SUBSET mWriteFds
  BY DEF IInv, NoStaleReadiness, Ownership
<1>2. ASSUME NEW fd \in ClientFds, VisitIdle(fd) PROVE IInv'
  <2>1. todo' \subseteq todo /\ todo \subseteq clients(srv) /\ pc = "run"
    BY <1>2 DEF VisitIdle, Visit, IInv, Scheduling
  <2>2. srv \in Servers /\ todo' \in SUBSET ClientFds
    BY <2>1 DEF IInv, TypeOK
  <2> QED BY <1>1, <1>2, <2>1, <2>2, IdleStep DEF VisitIdle, fdSetVars, poolVars
<1>3. CASE NoNewConnection \/ AcceptFull \/ AcceptFails
  <2>1. NextServer /\ UNCHANGED <<connVars, fdSetVars, poolVars, fromCGI, expired, kernelVars>>
    BY <1>3 DEF NoNewConnection, AcceptFull, AcceptFails
  <2>2. /\ pc' \in {"select", "run"} /\ srv' \in Servers /\ todo' \in SUBSET ClientFds
        /\ pc' = "run" => srv < N /\ srv' = srv + 1 /\ todo' = clients(srv + 1)
    BY <2>1, NextServerFacts
  <2> QED BY <1>1, <2>1, <2>2, IdleStep DEF fdSetVars, poolVars
<1> QED BY <1>2, <1>3

(* getUnuseConnectionFd never finds a connection to give up.               *)
LEMMA NothingEvicted == \A s : getUnuseConnectionFd(s) = {}
BY DEF getUnuseConnectionFd, GetSocket

(* What AcceptNew does, nothing being evicted: the lowest free descriptor  *)
(* becomes a connection of the server, which was not full.                 *)
LEMMA AcceptNewFacts ==
  ASSUME IInv, AcceptNew
  PROVE  /\ ~isFull(srv) /\ NextServer /\ fromCGI' = fromCGI
         /\ backlog' = [backlog EXCEPT ![srv] = @ - 1]
         /\ \E fd \in ClientFds \ open :
              /\ \A g \in ClientFds \ open : fd <= g
              /\ open' = open \cup {fd}
              /\ mReadFds' = mReadFds \cup {fd} /\ mReadCopyFds' = mReadCopyFds \cup {fd}
              /\ mWriteFds' = mWriteFds /\ mWriteCopyFds' = mWriteCopyFds
              /\ mConnections' = [mConnections EXCEPT ![srv] = @ \cup {fd}]
              /\ gTotalClients' = gTotalClients + 1
              /\ mMaxFd' = IF mMaxFd < fd THEN fd ELSE mMaxFd
              /\ eStatus' = [eStatus EXCEPT ![fd] = "REQUEST_READY"]
              /\ mRequest' = [mRequest EXCEPT ![fd] = "NULL"]
              /\ mResponse' = [mResponse EXCEPT ![fd] = NoResponse]
              /\ expired' = expired \ {fd}
              /\ inbox' = inbox \ {fd} /\ hungup' = hungup \ {fd}
              /\ room' = room \cup {fd} /\ told' = told \ {fd}
<1> DEFINE evicted == IF isFull(srv) THEN getUnuseConnectionFd(srv) ELSE {}
           free == (ClientFds \ open) \cup evicted
<1>1. evicted = {}
  BY NothingEvicted
<1>2. ~isFull(srv) /\ NextServer /\ fromCGI' = fromCGI /\ backlog' = [backlog EXCEPT ![srv] = @ - 1]
  BY <1>1 DEF AcceptNew
<1>3. free = ClientFds \ open
  BY <1>1
<1>4. PICK fd \in free :
        /\ \A g \in free : fd <= g
        /\ open' = (open \ evicted) \cup {fd}
        /\ mReadFds' = (mReadFds \ evicted) \cup {fd} /\ mReadCopyFds' = (mReadCopyFds \ evicted) \cup {fd}
        /\ mWriteFds' = mWriteFds \ evicted
        /\ mWriteCopyFds' = mWriteCopyFds \ evicted
        /\ mConnections' = [mConnections EXCEPT ![srv] = (@ \ evicted) \cup {fd}]
        /\ gTotalClients' = gTotalClients - Cardinality(evicted) + 1
        /\ mMaxFd' = IF mMaxFd < fd THEN fd ELSE mMaxFd
        /\ eStatus' = [eStatus EXCEPT ![fd] = "REQUEST_READY"]
        /\ mRequest' = [mRequest EXCEPT ![fd] = "NULL"]
        /\ mResponse' = [mResponse EXCEPT ![fd] = NoResponse]
        /\ expired' = expired \ {fd}
        /\ inbox' = inbox \ {fd} /\ hungup' = hungup \ {fd}
        /\ room' = room \cup {fd} /\ told' = told \ {fd}
  BY DEF AcceptNew
<1>5. gTotalClients - Cardinality(evicted) + 1 = gTotalClients + 1
  BY <1>1, FS_EmptySet DEF IInv, TypeOK
<1>6. \A S : S \ evicted = S
  BY <1>1
<1> HIDE DEF evicted, free
<1> QED BY <1>2, <1>3, <1>4, <1>5, <1>6

(* Accepting a connection preserves the invariant.                         *)
LEMMA AcceptNewInv ==
  ASSUME IInv, AcceptNew
  PROVE  IInv'
<1> USE DEF IInv
<1>1. PICK fd \in ClientFds \ open :
        /\ open' = open \cup {fd}
        /\ mReadFds' = mReadFds \cup {fd} /\ mReadCopyFds' = mReadCopyFds \cup {fd}
        /\ mWriteFds' = mWriteFds /\ mWriteCopyFds' = mWriteCopyFds
        /\ mConnections' = [mConnections EXCEPT ![srv] = @ \cup {fd}]
        /\ gTotalClients' = gTotalClients + 1
        /\ mMaxFd' = IF mMaxFd < fd THEN fd ELSE mMaxFd
        /\ eStatus' = [eStatus EXCEPT ![fd] = "REQUEST_READY"]
        /\ mRequest' = [mRequest EXCEPT ![fd] = "NULL"]
        /\ mResponse' = [mResponse EXCEPT ![fd] = NoResponse]
        /\ expired' = expired \ {fd}
        /\ inbox' = inbox \ {fd} /\ hungup' = hungup \ {fd}
        /\ room' = room \cup {fd} /\ told' = told \ {fd}
        /\ backlog' = [backlog EXCEPT ![srv] = @ - 1]
        /\ NextServer /\ fromCGI' = fromCGI
  BY AcceptNewFacts
<1>2. /\ fd \in Nat /\ fd > 2 + N /\ fd \notin ListenFds /\ fd \notin Accepted
      /\ Accepted' = Accepted \cup {fd} /\ IsFiniteSet(Accepted) /\ fd \in ClientFds
  BY <1>1, Fds, FS_Subset DEF Accepted
<1>3. eStatus[fd] = "REQUEST_READY" /\ mRequest[fd] = "NULL" /\ mResponse[fd] = NoResponse
  BY <1>1 DEF Blank
<1>4. UNCHANGED <<eStatus, mRequest, mResponse>>
  BY <1>1, <1>3 DEF TypeOK
<1>5. Cardinality(Accepted') = Cardinality(Accepted) + 1 /\ Cardinality(Accepted) \in Nat
  BY <1>2, FS_AddElement, FS_CardinalityType
<1>6. srv \in Servers
  BY DEF TypeOK
<1>7. /\ pc' \in {"select", "run"} /\ srv' \in Servers /\ todo' \in SUBSET ClientFds
      /\ pc' = "run" => srv < N /\ srv' = srv + 1 /\ todo' = clients(srv + 1)
  BY <1>1, NextServerFacts
<1>8. TypeOK'
  <2>1. mConnections' \in [Servers -> SUBSET (ListenFds \cup ClientFds)]
    BY <1>1, <1>6 DEF TypeOK
  <2>2. mMaxFd' \in Nat /\ gTotalClients' \in Int /\ backlog' \in [Servers -> Int]
    BY <1>1, <1>2, <1>6 DEF TypeOK
  <2>3. /\ open' \in SUBSET (ListenFds \cup ClientFds)
        /\ mReadFds' \in SUBSET (ListenFds \cup ClientFds)
        /\ mReadCopyFds' \in SUBSET (ListenFds \cup ClientFds)
        /\ mWriteFds' \in SUBSET ClientFds /\ mWriteCopyFds' \in SUBSET ClientFds
        /\ told' \in SUBSET ClientFds /\ fromCGI' \in SUBSET ClientFds
    BY <1>1 DEF TypeOK
  <2>4. /\ expired' \in SUBSET Accepted' /\ inbox' \in SUBSET Accepted'
        /\ hungup' \in SUBSET Accepted' /\ room' \in SUBSET Accepted'
    BY <1>1, <1>2 DEF TypeOK
  <2>5. /\ eStatus' \in [ClientFds -> Status]
        /\ mRequest' \in [ClientFds -> {"NULL", "incoming", "COMPLETE"}]
        /\ mResponse' \in [ClientFds -> Responses]
    BY <1>4 DEF TypeOK
  <2> QED BY <1>7, <2>1, <2>2, <2>3, <2>4, <2>5 DEF TypeOK
<1>9. mConnections'[srv] = mConnections[srv] \cup {fd}
      /\ \A s \in Servers : s # srv => mConnections'[s] = mConnections[s]
  BY <1>1, <1>6 DEF TypeOK
<1>10. \A s \in Servers : fd \notin mConnections[s]
  BY <1>1 DEF Ownership
<1>11. Ownership'
  <2>1. \A s, t \in Servers : s # t => mConnections'[s] \cap mConnections'[t] = {}
    BY <1>9, <1>10 DEF Ownership
  <2>2. ASSUME NEW s \in Servers
        PROVE  ListenFd(s) \in mConnections'[s] /\ clients(s)' \subseteq ClientFds
    <3>1. clients(s)' = mConnections'[s] \ {ListenFd(s)}
      BY DEF clients
    <3> QED BY <1>2, <1>9, <3>1 DEF Ownership, clients
  <2>3. open' = UNION {mConnections'[s] : s \in Servers}
    <3>1. UNION {mConnections'[s] : s \in Servers}
            = (UNION {mConnections[s] : s \in Servers}) \cup {fd}
      BY <1>6, <1>9
    <3> QED BY <1>1, <3>1 DEF Ownership
  <2>4. mReadFds' = open'
    BY <1>1 DEF Ownership
  <2> QED BY <2>1, <2>2, <2>3, <2>4 DEF Ownership
<1>12. NoStaleReadiness'
  BY <1>1 DEF NoStaleReadiness
<1>13. WriteInterest' /\ AnswerExists'
  BY <1>1, <1>4 DEF WriteInterest, HasWork, AnswerExists
<1>14. Blank'
  BY <1>1, <1>4 DEF Blank
<1>15. Watched'
  <2>1. gTotalClients' = Cardinality(Accepted') /\ gTotalClients' # 0
    BY <1>1, <1>5 DEF Watched
  <2>2. updateMaxFd' = mMaxFd' /\ mMaxFd' >= fd /\ mMaxFd' >= mMaxFd
    BY <1>1, <1>2, <2>1 DEF updateMaxFd, TypeOK
  <2>3. \A g \in ListenFds : g <= mMaxFd'
    BY <1>2, <1>8, <2>2, Fds, NAssumption DEF TypeOK
  <2>4. ASSUME NEW g \in Accepted PROVE g <= mMaxFd'
    <3>1. Accepted # {} /\ g \in open /\ g \in Nat
      BY Fds DEF Accepted
    <3>2. gTotalClients # 0
      BY <1>2, <3>1, FS_EmptySet DEF Watched
    <3>3. g <= mMaxFd
      BY <3>1, <3>2 DEF Watched, updateMaxFd
    <3> QED BY <1>8, <2>2, <3>1, <3>3 DEF TypeOK
  <2>5. open' = ListenFds \cup Accepted \cup {fd}
    BY <1>1, ClientsAccepted
  <2> QED BY <2>1, <2>2, <2>3, <2>4, <2>5 DEF Watched
<1>16. Scheduling'
  <2>1. ASSUME pc' = "run" PROVE todo' \subseteq clients(srv)'
    <3>1. srv' # srv /\ srv' \in Servers
      BY <1>6, <1>7, <2>1 DEF Servers
    <3>2. clients(srv)' = mConnections'[srv'] \ {ListenFd(srv')}
      BY DEF clients
    <3> QED BY <1>7, <1>9, <2>1, <3>1, <3>2 DEF clients
  <2> QED BY <2>1 DEF Scheduling
<1> QED BY <1>8, <1>11, <1>12, <1>13, <1>14, <1>15, <1>16

(* The peers and the clock.                                                *)
LEMMA EnvironmentInv ==
  ASSUME IInv, Environment
  PROVE  IInv'
<1>1. /\ UNCHANGED <<systemVars, open, told>>
      /\ backlog' \in [Servers -> Int]
      /\ expired' \in SUBSET Accepted /\ inbox' \in SUBSET Accepted
      /\ hungup' \in SUBSET Accepted /\ room' \in SUBSET Accepted
  <2>1. CASE \E s \in Servers : Connect(s)
    BY <2>1 DEF Connect, IInv, TypeOK
  <2>2. CASE \E fd \in ClientFds : ClientSend(fd)
    BY <2>2 DEF ClientSend, IInv, TypeOK
  <2>3. CASE \E fd \in ClientFds : ClientClose(fd)
    BY <2>3 DEF ClientClose, IInv, TypeOK
  <2>4. CASE \E fd \in ClientFds : PeerReads(fd)
    BY <2>4 DEF PeerReads, IInv, TypeOK
  <2>5. CASE \E fd \in ClientFds : Expire(fd)
    BY <2>5 DEF Expire, IInv, TypeOK, kernelVars
  <2> QED BY <2>1, <2>2, <2>3, <2>4, <2>5 DEF Environment
<1> USE DEF systemVars, loopVars, connVars, fdSetVars, poolVars
<1>2. Accepted' = Accepted /\ \A s : clients(s)' = clients(s)
  BY <1>1 DEF Accepted, clients
<1>3. TypeOK'
  BY <1>1, <1>2 DEF IInv, TypeOK
<1>4. Ownership' /\ NoStaleReadiness'
  BY <1>1, <1>2 DEF IInv, Ownership, NoStaleReadiness
<1>5. WriteInterest' /\ AnswerExists' /\ Blank'
  BY <1>1 DEF IInv, WriteInterest, HasWork, AnswerExists, Blank
<1>6. Watched'
  BY <1>1, <1>2 DEF IInv, Watched, updateMaxFd
<1>7. Scheduling'
  BY <1>1 DEF IInv, Scheduling, clients
<1> QED BY <1>3, <1>4, <1>5, <1>6, <1>7 DEF IInv

(* Stuttering.                                                             *)
LEMMA StutterInv ==
  ASSUME IInv, UNCHANGED vars
  PROVE  IInv'
<1> USE DEF vars, loopVars, connVars, fdSetVars, poolVars, kernelVars
<1>1. Accepted' = Accepted /\ \A s : clients(s)' = clients(s)
  BY DEF Accepted, clients
<1>2. TypeOK'
  BY <1>1 DEF IInv, TypeOK
<1>3. Ownership' /\ NoStaleReadiness'
  BY <1>1 DEF IInv, Ownership, NoStaleReadiness
<1>4. WriteInterest' /\ AnswerExists' /\ Blank'
  BY DEF IInv, WriteInterest, HasWork, AnswerExists, Blank
<1>5. Watched' /\ Scheduling'
  BY <1>1 DEF IInv, Watched, updateMaxFd, Scheduling, clients
<1> QED BY <1>2, <1>3, <1>4, <1>5 DEF IInv

(* Every step preserves the invariant.                                     *)
LEMMA NextIInv == IInv /\ [Next]_vars => IInv'
<1> SUFFICES ASSUME IInv, [Next]_vars PROVE IInv'
  OBVIOUS
<1>1. CASE Select \/ SelectTimeout \/ SelectError
  BY <1>1, SelectInv
<1>2. ASSUME NEW fd \in ClientFds, VisitIdle(fd) \/ SendStep(fd) \/ CgiStep(fd) \/ RecvStep(fd)
      PROVE  IInv'
  BY <1>2, LoopInv, SendStepInv, CgiStepInv, RecvStepInv
<1>3. CASE AcceptStep
  BY <1>3, LoopInv, AcceptNewInv DEF AcceptStep
<1>4. CASE Environment
  BY <1>4, EnvironmentInv
<1>5. CASE UNCHANGED vars
  BY <1>5, StutterInv
<1> QED BY <1>1, <1>2, <1>3, <1>4, <1>5 DEF Next, System

(* IInv holds in every reachable state, for any number of servers and      *)
(* descriptors and under every combination of faults.                      *)
THEOREM InductiveInvariant == Spec => []IInv
BY InitIInv, NextIInv, PTL DEF Spec

(* Every variable keeps its type, under every combination of faults.       *)
THEOREM TypeCorrect == Spec => []TypeOK
BY InductiveInvariant, PTL DEF IInv

(* A descriptor belongs to one server, none is leaked, and the loop        *)
(* watches exactly the open ones.                                          *)
THEOREM OwnershipCorrect == Spec => []Ownership
BY InductiveInvariant, PTL DEF IInv

(* The copies select() filled in name open descriptors only.               *)
THEOREM NoStaleReadinessCorrect == Spec => []NoStaleReadiness
BY InductiveInvariant, PTL DEF IInv

(* The interest in writing is exactly the pending work.                    *)
THEOREM WriteInterestCorrect == Spec => []WriteInterest
BY InductiveInvariant, PTL DEF IInv

(* runSend and executeCGI never dereference a null request or response.    *)
THEOREM AnswerExistsCorrect == Spec => []AnswerExists
BY InductiveInvariant, PTL DEF IInv

(* The count of clients is exact, and select() is given a range that holds *)
(* every watched descriptor.                                               *)
THEOREM WatchedCorrect == Spec => []Watched
BY InductiveInvariant, PTL DEF IInv

-----------------------------------------------------------------------------
(* The reasons a connection can be closed for.                             *)
LEMMA WhyClosed ==
  ASSUME IInv, [Next]_vars, NEW fd \in Accepted, fd \notin open'
  PROVE  \/ SelectTimeout /\ fd \in expired
         \/ SelectError
         \/ fd \in hungup
         \/ mRequest[fd] # "NULL" /\ eStatus[fd] = "SEND_ING" /\ mResponse[fd].code = "error"
<1>0. fd \in open
  BY DEF Accepted
<1>1. CASE SelectTimeout
  BY <1>0, <1>1 DEF SelectTimeout, eraseConnections, IsKeepConnection
<1>2. ASSUME NEW g \in ClientFds, SendStep(g)
      PROVE  \/ fd \in hungup
             \/ mRequest[fd] # "NULL" /\ eStatus[fd] = "SEND_ING" /\ mResponse[fd].code = "error"
  <2>1. RunSendLast(g) \/ RunSendFail(g)
    BY <1>0, <1>2 DEF SendStep, RunSendReady, RunSendPart, kernelVars
  <2>2. VisitClose(g) /\ (mResponse[g].code = "error" \/ g \in hungup)
    BY <1>0, <2>1 DEF RunSendLast, RunSendFail, kernelVars
  <2>3. fd = g
    BY <1>0, <2>2 DEF VisitClose, closeConnection, eraseConnections
  <2> QED BY <2>1, <2>2, <2>3 DEF RunSendLast, RunSendFail, hasSendWork
<1>3. ASSUME NEW g \in ClientFds, RecvStep(g) PROVE fd \in hungup
  <2>1. RecvEnd(g)
    BY <1>0, <1>3 DEF RecvStep, RecvMore, RecvReject, SolveAnswer, SolveCgi, SolveSilent,
                      SolveUnwritable, Solve, RecvComplete, RecvBytes
  <2> QED BY <1>0, <2>1 DEF RecvEnd, VisitClose, closeConnection, eraseConnections
<1>4. ASSUME NEW g \in ClientFds, VisitIdle(g) \/ CgiStep(g) PROVE FALSE
  BY <1>0, <1>4 DEF VisitIdle, CgiStep, CgiRun, CgiRefuse, CgiAnswer, CgiStatus, CgiFail,
                    RunExecute, kernelVars
<1>5. CASE AcceptStep
  BY <1>0, <1>5, AcceptNewFacts
  DEF AcceptStep, NoNewConnection, AcceptFull, AcceptFails, kernelVars
<1>6. CASE Select
  BY <1>0, <1>6 DEF Select, kernelVars
<1>7. CASE Environment
  BY <1>0, <1>7 DEF Environment, Connect, ClientSend, ClientClose, PeerReads, Expire, kernelVars
<1>8. CASE UNCHANGED vars
  BY <1>0, <1>8 DEF vars, kernelVars
<1> QED BY <1>1, <1>2, <1>3, <1>4, <1>5, <1>6, <1>7, <1>8 DEF Next, System

(* While select() does not fail, an idle connection is closed only with a  *)
(* 408, whatever the capacity, the faults and the interleaving.            *)
THEOREM ClosedIdleIsToldCorrect ==
  ASSUME "select" \notin Faults
  PROVE  Spec => ClosedIdleIsTold
<1> DEFINE A(fd) == fd \notin open' /\ mRequest[fd] = "NULL" /\ fd \notin hungup => fd \in told'
<1>1. ASSUME IInv, [Next]_vars PROVE \A fd \in Accepted : A(fd)
  <2> SUFFICES ASSUME NEW fd \in Accepted, fd \notin open', mRequest[fd] = "NULL",
                      fd \notin hungup
               PROVE  fd \in told'
    OBVIOUS
  <2>1. SelectTimeout /\ fd \in expired
    BY <1>1, WhyClosed DEF SelectError
  <2>2. fd \in UNION {clients(s) : s \in Servers}
    BY <1>1, ClientsAccepted DEF IInv
  <2> QED BY <2>1, <2>2 DEF SelectTimeout, IsKeepConnection
<1>2. IInv /\ [Next]_vars => [\A fd \in Accepted : A(fd)]_vars
  BY <1>1
<1> QED BY <1>2, InductiveInvariant, PTL DEF Spec, ClosedIdleIsTold

(* While select() does not fail, a pending answer is given up only when    *)
(* its peer has left or does not read, or after an error answer.           *)
THEOREM PendingAnswerKeptCorrect ==
  ASSUME "select" \notin Faults
  PROVE  Spec => PendingAnswerKept
<1> DEFINE A(fd) == fd \notin open' /\ HasWork(fd) =>
                      \/ fd \in hungup \/ fd \notin room
                      \/ eStatus[fd] = "SEND_ING" /\ mResponse[fd].code = "error"
<1>1. ASSUME IInv, [Next]_vars PROVE \A fd \in Accepted : A(fd)
  <2> SUFFICES ASSUME NEW fd \in Accepted, fd \notin open', HasWork(fd),
                      fd \notin hungup, fd \in room,
                      ~(eStatus[fd] = "SEND_ING" /\ mResponse[fd].code = "error")
               PROVE  FALSE
    OBVIOUS
  <2>1. SelectTimeout
    BY <1>1, WhyClosed DEF SelectError
  <2>2. fd \in mWriteFds /\ fd <= updateMaxFd
    BY <1>1 DEF IInv, WriteInterest, Watched, Accepted
  <2>3. fd \in ReadyToWrite
    BY <2>2 DEF ReadyToWrite, Writable
  <2> QED BY <2>1, <2>3 DEF SelectTimeout
<1>2. IInv /\ [Next]_vars => [\A fd \in Accepted : A(fd)]_vars
  BY <1>1
<1> QED BY <1>2, InductiveInvariant, PTL DEF Spec, PendingAnswerKept

-----------------------------------------------------------------------------
(* The steps that change the connections of the servers.                   *)
LEMMA ConnectionsChange ==
  ASSUME IInv, [Next]_vars
  PROVE  \/ \A s \in Servers : mConnections'[s] \subseteq mConnections[s]
         \/ AcceptNew
<1>1. ASSUME NEW fds, eraseConnections(fds)
      PROVE  \A s \in Servers : mConnections'[s] \subseteq mConnections[s]
  BY <1>1 DEF eraseConnections
<1>2. CASE SelectTimeout \/ SelectError
  BY <1>1, <1>2 DEF SelectTimeout, SelectError
<1>3. ASSUME NEW fd \in ClientFds, SendStep(fd) \/ RecvStep(fd)
      PROVE  \A s \in Servers : mConnections'[s] \subseteq mConnections[s]
  <2>1. CASE VisitClose(fd)
    BY <1>1, <2>1 DEF VisitClose, closeConnection
  <2>2. CASE ~VisitClose(fd)
    BY <1>3, <2>2 DEF SendStep, RunSendReady, RunSendPart, RunSendLast, RunSendFail,
                      RecvStep, RecvEnd, RecvMore, RecvReject, SolveAnswer, SolveCgi, SolveSilent,
                      SolveUnwritable, Solve, RecvComplete, RecvBytes, poolVars
  <2> QED BY <2>1, <2>2
<1>4. ASSUME NEW fd \in ClientFds, VisitIdle(fd) \/ CgiStep(fd)
      PROVE  mConnections' = mConnections
  BY <1>4 DEF VisitIdle, CgiStep, CgiRun, CgiRefuse, CgiAnswer, CgiStatus, CgiFail,
              RunExecute, poolVars
<1>5. CASE NoNewConnection \/ AcceptFull \/ AcceptFails
  BY <1>5 DEF NoNewConnection, AcceptFull, AcceptFails, poolVars
<1>6. CASE Select
  BY <1>6 DEF Select
<1>7. CASE Environment
  BY <1>7 DEF Environment, Connect, ClientSend, ClientClose, PeerReads, Expire, systemVars, poolVars
<1>8. CASE UNCHANGED vars
  BY <1>8 DEF vars, poolVars
<1> QED BY <1>2, <1>3, <1>4, <1>5, <1>6, <1>7, <1>8 DEF Next, System, AcceptStep

(* A server never has more connections than its share of INIT_FD_MAX.      *)
THEOREM WithinShareCorrect == Spec => []WithinShare
<1>0. Share \in Nat /\ Share >= 1 /\ InitFdMax \div N \in Int /\ InitFdMax \div N <= Share
  BY NAssumption, InitFdMaxAssumption DEF Share
<1>1. Init => WithinShare
  <2> SUFFICES ASSUME Init, NEW s \in Servers PROVE Cardinality(mConnections[s]) <= Share
    BY DEF WithinShare
  <2>1. mConnections[s] = {ListenFd(s)}
    BY DEF Init
  <2> QED BY <1>0, <2>1, FS_Singleton
<1>2. IInv /\ WithinShare /\ [Next]_vars => WithinShare'
  <2> SUFFICES ASSUME IInv, WithinShare, [Next]_vars, NEW s \in Servers
               PROVE  Cardinality(mConnections'[s]) <= Share
    BY DEF WithinShare
  <2>1. IsFiniteSet(mConnections[s]) /\ Cardinality(mConnections[s]) \in Nat
    <3>1. mConnections[s] \subseteq {ListenFd(s)} \cup ClientFds
      BY DEF IInv, Ownership, clients
    <3>2. IsFiniteSet({ListenFd(s)} \cup ClientFds)
      BY Fds, FS_AddElement
    <3> QED BY <3>1, <3>2, FS_Subset, FS_CardinalityType
  <2>2. Cardinality(mConnections[s]) <= Share
    BY DEF WithinShare
  <2>3. CASE \A t \in Servers : mConnections'[t] \subseteq mConnections[t]
    <3>1. mConnections'[s] \in SUBSET mConnections[s]
      BY <2>3
    <3>2. Cardinality(mConnections'[s]) <= Cardinality(mConnections[s])
          /\ Cardinality(mConnections'[s]) \in Nat
      BY <2>1, <3>1, FS_Subset, FS_CardinalityType
    <3> QED BY <1>0, <2>1, <2>2, <3>2
  <2>4. CASE AcceptNew
    <3>1. PICK fd : mConnections' = [mConnections EXCEPT ![srv] = @ \cup {fd}]
      BY <2>4, AcceptNewFacts
    <3>2. CASE s # srv
      <4>1. mConnections'[s] = mConnections[s]
        BY <3>1, <3>2 DEF IInv, TypeOK
      <4> QED BY <2>2, <4>1
    <3>3. CASE s = srv
      <4>1. mConnections'[s] = mConnections[s] \cup {fd}
        BY <3>1, <3>3 DEF IInv, TypeOK
      <4> DEFINE S == mConnections[s]
      <4>2. Cardinality(S \cup {fd}) \in {Cardinality(S), Cardinality(S) + 1}
        <5> HIDE DEF S
        <5>1. IsFiniteSet(S)
          BY <2>1 DEF S
        <5> QED BY <5>1, FS_AddElement
      <4>3. Cardinality(mConnections[s]) < InitFdMax \div N
        BY <1>0, <2>1, <2>4, <3>3, AcceptNewFacts DEF isFull
      <4>4. Cardinality(mConnections'[s]) \in {Cardinality(S), Cardinality(S) + 1}
        BY <4>1, <4>2
      <4>5. Cardinality(S) + 1 <= Share /\ Cardinality(S) \in Nat
        BY <1>0, <2>1, <4>3
      <4> HIDE DEF S
      <4> QED BY <1>0, <4>4, <4>5
    <3> QED BY <3>2, <3>3
  <2> QED BY <2>3, <2>4, ConnectionsChange
<1> QED BY <1>1, <1>2, InductiveInvariant, PTL DEF Spec

(* No more descriptors are open than the servers have shares: they are     *)
(* numbered by the server they belong to and their place there.            *)
OpenFits == IsFiniteSet(open) /\ Cardinality(open) \in Nat /\ Cardinality(open) <= N * Share

LEMMA ShareIsNumber == Share \in Nat /\ Share >= 1 /\ N \in Nat
BY NAssumption, InitFdMaxAssumption DEF Share

LEMMA SharesBoundOpen == IInv /\ WithinShare => OpenFits
<1> SUFFICES ASSUME IInv, WithinShare PROVE OpenFits
  OBVIOUS
<1> DEFINE P == Servers \X (1..Share)
           of(x) == CHOOSE s \in Servers : x \in mConnections[s]
           place(s) == CHOOSE f \in [mConnections[s] -> 1..Share] :
                         \A x, y \in mConnections[s] : f[x] = f[y] => x = y
           number == [x \in open |-> <<of(x), place(of(x))[x]>>]
<1>1. ASSUME NEW x \in open PROVE of(x) \in Servers /\ x \in mConnections[of(x)]
  BY DEF IInv, Ownership
<1>2. ASSUME NEW s \in Servers
      PROVE  /\ place(s) \in [mConnections[s] -> 1..Share]
             /\ \A x, y \in mConnections[s] : place(s)[x] = place(s)[y] => x = y
  <2> DEFINE S == mConnections[s]
             c == Cardinality(S)
  <2>1. IsFiniteSet(S)
    <3>1. S \subseteq {ListenFd(s)} \cup ClientFds
      BY DEF IInv, Ownership, clients
    <3>2. IsFiniteSet({ListenFd(s)} \cup ClientFds)
      BY Fds, FS_AddElement
    <3> QED
      BY <3>1, <3>2, FS_Subset
  <2>2. c \in Nat /\ c <= Share /\ ExistsBijection(1..c, S)
    BY <2>1, FS_CardinalityType DEF WithinShare
  <2>3. PICK f : f \in Bijection(S, 1..c)
    BY <2>2, Fun_ExistsBijSymmetric DEF ExistsBijection
  <2>4. f \in [S -> 1..c] /\ \A x, y \in S : f[x] = f[y] => x = y
    BY <2>3 DEF Bijection, Injection, IsInjective
  <2>5. 1..c \subseteq 1..Share
    BY <2>2, ShareIsNumber
  <2>6. f \in [S -> 1..Share]
    BY <2>4, <2>5
  <2> QED
    BY <2>4, <2>6
<1> HIDE DEF of, place
<1>3. number \in [open -> P]
  <2> SUFFICES ASSUME NEW x \in open PROVE <<of(x), place(of(x))[x]>> \in P
    OBVIOUS
  <2>1. of(x) \in Servers /\ x \in mConnections[of(x)]
    BY <1>1
  <2>2. place(of(x))[x] \in 1..Share
    BY <1>2, <2>1
  <2> QED
    BY <2>1, <2>2
<1>4. ASSUME NEW x \in open, NEW y \in open, number[x] = number[y] PROVE x = y
  <2>1. of(x) = of(y) /\ place(of(x))[x] = place(of(y))[y]
    BY <1>4
  <2>2. of(x) \in Servers /\ x \in mConnections[of(x)] /\ y \in mConnections[of(x)]
    BY <1>1, <2>1
  <2> QED
    BY <1>2, <2>1, <2>2
<1> HIDE DEF number
<1>5. number \in Injection(open, P)
  BY <1>3, <1>4, Fun_IsInj
<1>6. IsFiniteSet(P) /\ Cardinality(P) = N * Share
  <2> DEFINE A == 1..N
             B == 1..Share
  <2>1. IsFiniteSet(A) /\ Cardinality(A) = N /\ IsFiniteSet(B) /\ Cardinality(B) = Share
    BY ShareIsNumber, FS_Interval
  <2> HIDE DEF A, B
  <2>2. IsFiniteSet(A \X B) /\ Cardinality(A \X B) = Cardinality(A) * Cardinality(B)
    BY <2>1, FS_Product, Zenon
  <2> QED
    BY <2>1, <2>2, Zenon DEF A, B, Servers
<1> HIDE DEF P
<1>7. IsFiniteSet(open) /\ Cardinality(open) <= N * Share
  BY <1>5, <1>6, FS_Injection
<1> QED
  BY <1>7, FS_CardinalityType DEF OpenFits

(* No descriptor is above the shares of all servers: accept() returns the  *)
(* lowest free one, all below it are open, and there are not that many.    *)
THEOREM LowDescriptorsCorrect == Spec => []LowDescriptors
<1> DEFINE M == N * Share
<1>1. Share \in Nat /\ Share >= 1 /\ N \in Nat /\ M \in Nat /\ N <= M
  <2>1. ASSUME NEW a \in Nat, NEW b \in Nat, b >= 1 PROVE a * b \in Nat /\ a <= a * b
    BY <2>1
  <2> QED
    BY <2>1, ShareIsNumber
<1> HIDE DEF M
<1>2. Init => LowDescriptors
  <2> SUFFICES ASSUME Init, NEW fd \in open PROVE fd <= 2 + M
    BY DEF LowDescriptors, M
  <2>1. fd \in Nat /\ fd <= 2 + N
    BY Fds DEF Init
  <2> QED
    BY <1>1, <2>1
<1>3. IInv /\ OpenFits' /\ LowDescriptors /\ [Next]_vars => LowDescriptors'
  <2> SUFFICES ASSUME IInv, OpenFits', LowDescriptors, [Next]_vars
               PROVE  LowDescriptors'
    OBVIOUS
  <2>1. CASE \A s \in Servers : mConnections'[s] \subseteq mConnections[s]
    <3>1. IInv'
      BY NextIInv
    <3>2. open' \subseteq open
      BY <2>1, <3>1 DEF IInv, Ownership
    <3> QED
      BY <3>2 DEF LowDescriptors
  <2>2. CASE AcceptNew
    <3>1. PICK fd \in ClientFds \ open :
             (\A g \in ClientFds \ open : fd <= g) /\ open' = open \cup {fd}
      BY <2>2, AcceptNewFacts
    <3>2. 3..fd \subseteq open'
      <4> SUFFICES ASSUME NEW x \in 3..fd, x # fd PROVE x \in open
        BY <3>1
      <4>1. CASE x <= 2 + N
        <5>1. x - 2 \in Servers /\ ListenFd(x - 2) = x
          BY <1>1, <4>1 DEF Servers, ListenFd
        <5> QED
          BY <5>1 DEF IInv, Ownership
      <4>2. CASE x > 2 + N
        <5>1. fd \in Nat /\ fd <= FdLimit /\ x < fd
          BY <3>1, NAssumption, FdLimitAssumption DEF ClientFds
        <5>2. x \in ClientFds
          BY <4>2, <5>1, NAssumption, FdLimitAssumption DEF ClientFds
        <5> QED
          BY <3>1, <5>1, <5>2
      <4> QED
        BY <1>1, <4>1, <4>2
    <3>3. IsFiniteSet(open') /\ Cardinality(open') \in Nat /\ Cardinality(open') <= M
      BY DEF OpenFits, Share, M
    <3>4. fd \in Nat /\ fd >= 3
      BY <3>1, NAssumption, FdLimitAssumption DEF ClientFds
    <3>5. Cardinality(3..fd) = fd - 2
      BY <3>4, FS_Interval
    <3>6. Cardinality(3..fd) <= Cardinality(open')
      BY <3>2, <3>3, FS_Subset
    <3>7. fd <= 2 + M
      BY <1>1, <3>3, <3>4, <3>5, <3>6
    <3> QED
      BY <3>1, <3>7 DEF LowDescriptors, Share, M
  <2> QED
    BY <2>1, <2>2, ConnectionsChange
<1>4. Spec => [](IInv /\ OpenFits)
  BY InductiveInvariant, WithinShareCorrect, SharesBoundOpen, PTL
<1> QED
  BY <1>2, <1>3, <1>4, PTL DEF Spec

-----------------------------------------------------------------------------
(* The message being sent.  WriteWindow is preserved as long as a PUT that *)
(* cannot be opened never meets an answer that is being sent: because such *)
(* a PUT does not happen, or because no client sends one at that moment.   *)
Window(fd) ==
  IF eStatus[fd] = "SEND_ING"
  THEN /\ mResponse[fd].mSeek + mResponse[fd].mHttpMessageLength = mResponse[fd].size
       /\ mResponse[fd].mHttpMessageLength > 0
  ELSE mResponse[fd].mSeek = 0
Polite(fd) == "talkative" \notin Faults => (HasWork(fd) => fd \notin inbox)
SInv == WriteWindow /\ PoliteClients

(* A step leaves the sending of fd as it is, or has one of these effects.  *)
Untouched(fd) ==
  eStatus'[fd] = eStatus[fd] /\ mRequest'[fd] = mRequest[fd] /\ mResponse'[fd] = mResponse[fd]
Closed(fd) ==
  /\ eStatus'[fd] = "REQUEST_READY" /\ mRequest'[fd] = "NULL" /\ mResponse'[fd] = NoResponse

(* Closing connections leaves the sending of the others as it is.          *)
LEMMA EraseSends ==
  ASSUME IInv, NEW fds, eraseConnections(fds), NEW fd \in ClientFds
  PROVE  /\ Untouched(fd) \/ (Closed(fd) /\ fd \notin open')
         /\ fd \in inbox' => fd \in inbox
BY DEF eraseConnections, Untouched, Closed

(* What a step can do to the sending of a connection.                      *)
LEMMA SendEffects ==
  ASSUME IInv, [Next]_vars, NEW fd \in ClientFds
  PROVE  \/ Untouched(fd) /\ (fd \in inbox' => fd \in inbox \/ ClientSend(fd))
         \/ Closed(fd) /\ fd \notin open \cap open' /\ (fd \in inbox' => fd \in inbox)
         \/ SendStep(fd) \/ CgiStep(fd) \/ RecvStep(fd)
<1>1. CASE SelectTimeout \/ SelectError
  BY <1>1, EraseSends DEF SelectTimeout, SelectError
<1>2. CASE Select \/ NoNewConnection \/ AcceptFull \/ AcceptFails \/ UNCHANGED vars
  BY <1>2 DEF Select, NoNewConnection, AcceptFull, AcceptFails, vars, connVars, kernelVars, Untouched
<1>3. CASE AcceptNew
  <2>1. PICK g \in ClientFds \ open :
          /\ eStatus' = [eStatus EXCEPT ![g] = "REQUEST_READY"]
          /\ mRequest' = [mRequest EXCEPT ![g] = "NULL"]
          /\ mResponse' = [mResponse EXCEPT ![g] = NoResponse]
          /\ inbox' = inbox \ {g}
    BY <1>3, AcceptNewFacts
  <2> QED BY <2>1 DEF IInv, TypeOK, Untouched, Closed
<1>4. CASE Environment
  <2>1. UNCHANGED <<eStatus, mRequest, mResponse>>
    BY <1>4 DEF Environment, Connect, ClientSend, ClientClose, PeerReads, Expire,
                systemVars, connVars
  <2>2. fd \in inbox' => fd \in inbox \/ ClientSend(fd)
    BY <1>4 DEF Environment, Connect, ClientSend, ClientClose, PeerReads, Expire, kernelVars
  <2> QED BY <2>1, <2>2 DEF Untouched
<1>5. ASSUME NEW g \in ClientFds, g # fd, SendStep(g) \/ CgiStep(g) \/ RecvStep(g)
      PROVE  Untouched(fd) /\ (fd \in inbox' => fd \in inbox)
  <2>1. CASE VisitClose(g)
    BY <1>5, <2>1 DEF VisitClose, closeConnection, eraseConnections, Untouched
  <2>2. CASE SendStep(g) /\ ~VisitClose(g)
    BY <1>5, <2>2 DEF SendStep, RunSendReady, RunSendPart, RunSendLast, RunSendFail, Untouched,
                      IInv, TypeOK, connVars, kernelVars
  <2>3. CASE CgiStep(g)
    BY <1>5, <2>3 DEF CgiStep, CgiRun, CgiRefuse, CgiAnswer, CgiStatus, CgiFail, RunExecute,
                      Untouched, IInv, TypeOK, kernelVars
  <2>4. CASE RecvStep(g) /\ ~VisitClose(g)
    BY <1>5, <2>4 DEF RecvStep, RecvEnd, RecvMore, RecvReject, SolveAnswer, SolveCgi, SolveSilent,
                      SolveUnwritable, Solve, RecvComplete, RecvBytes, Untouched, IInv, TypeOK
  <2> QED BY <1>5, <2>1, <2>2, <2>3, <2>4
<1>6. ASSUME NEW g \in ClientFds, VisitIdle(g) PROVE Untouched(fd) /\ inbox' = inbox
  BY <1>6 DEF VisitIdle, connVars, kernelVars, Untouched
<1> QED BY <1>1, <1>2, <1>3, <1>4, <1>5, <1>6 DEF Next, System, AcceptStep

(* The window of one connection after a step of its own.                   *)
LEMMA StepWindow ==
  ASSUME IInv, NEW fd \in ClientFds, Window(fd), Polite(fd),
         SendStep(fd) \/ CgiStep(fd) \/ RecvStep(fd),
         "talkative" \notin Faults \/ "unwritable" \notin Faults
  PROVE  Window(fd)' /\ Polite(fd)'
<1> USE DEF Window, Polite, HasWork
<1>1. /\ eStatus \in [ClientFds -> Status] /\ mResponse[fd] \in Responses
      /\ mResponse \in [ClientFds -> Responses]
      /\ mRequest \in [ClientFds -> {"NULL", "incoming", "COMPLETE"}]
  BY DEF IInv, TypeOK
<1>2. /\ mResponse[fd].size \in Nat /\ mResponse[fd].mSeek \in Nat
      /\ mResponse[fd].mHttpMessageLength \in Nat
  BY <1>1 DEF Responses
<1>3. CASE VisitClose(fd)
  <2>1. eStatus'[fd] = "REQUEST_READY" /\ mRequest'[fd] = "NULL" /\ mResponse'[fd] = NoResponse
    BY <1>3 DEF VisitClose, closeConnection, eraseConnections
  <2> QED BY <2>1 DEF NoResponse, NewResponse
<1>4. CASE RunSendReady(fd)
  <2>1. PICK n \in 1..MaxLen : mResponse'[fd] = makeHttpMessage(mResponse[fd], n)
    BY <1>1, <1>4 DEF RunSendReady
  <2>2. eStatus[fd] = "SEND_READY" /\ eStatus'[fd] = "SEND_ING" /\ inbox' = inbox
    BY <1>1, <1>4 DEF RunSendReady, kernelVars
  <2>3. n \in Nat /\ n > 0
    BY BoundsAssumption
  <2> QED BY <2>1, <2>2, <2>3 DEF makeHttpMessage
<1>5. CASE RunSendPart(fd)
  <2>1. PICK n \in 1..(mResponse[fd].mHttpMessageLength - 1) :
          mResponse'[fd] = written(mResponse[fd], n)
    BY <1>1, <1>5 DEF RunSendPart
  <2>2. eStatus[fd] = "SEND_ING" /\ eStatus'[fd] = "SEND_ING" /\ inbox' = inbox
    BY <1>5 DEF RunSendPart
  <2>3. n \in Nat /\ n > 0 /\ n < mResponse[fd].mHttpMessageLength
    BY <1>2
  <2> QED BY <1>2, <2>1, <2>2, <2>3 DEF written
<1>6. CASE RunSendLast(fd) /\ ~VisitClose(fd)
  <2>1. eStatus'[fd] = "REQUEST_READY" /\ mRequest'[fd] = "NULL" /\ mResponse'[fd] = NoResponse
    BY <1>1, <1>6 DEF RunSendLast
  <2> QED BY <2>1 DEF NoResponse, NewResponse
<1>7. CASE RunSendFail(fd) /\ ~VisitClose(fd)
  BY <1>7 DEF RunSendFail, connVars, kernelVars
<1>8. CASE CgiStep(fd)
  <2>1. eStatus[fd] \in Executing /\ inbox' = inbox
    BY <1>8 DEF CgiStep, CgiRun, CgiRefuse, CgiAnswer, CgiStatus, CgiFail, RunExecute,
                hasExecuteWork, kernelVars
  <2>2. mResponse[fd].mSeek = 0
    BY <2>1 DEF Executing
  <2>3. eStatus'[fd] \in {"CGI_ING", "SEND_READY"} /\ mResponse'[fd].mSeek = 0
    BY <1>1, <1>8, <2>2 DEF CgiStep, CgiRun, CgiRefuse, CgiAnswer, CgiStatus, CgiFail,
                            RunExecute, NewResponse
  <2> QED BY <2>1, <2>3 DEF Executing
<1>9. CASE RecvStep(fd) /\ ~VisitClose(fd)
  <2>1. inbox' = inbox \ {fd}
    BY <1>9 DEF RecvStep, RecvEnd, RecvMore, RecvReject, SolveAnswer, SolveCgi, SolveSilent,
                SolveUnwritable, Solve, RecvComplete, RecvBytes
  <2>2. CASE RecvMore(fd) \/ SolveSilent(fd)
    BY <2>1, <2>2 DEF RecvMore, SolveSilent
  <2>3. CASE RecvReject(fd)
    BY <1>1, <2>1, <2>3 DEF RecvReject, NewResponse
  <2>4. CASE SolveAnswer(fd) \/ SolveCgi(fd)
    <3>1. eStatus'[fd] \in {"SEND_READY", "CGI_READY"} /\ mResponse'[fd].mSeek = 0
      BY <1>1, <2>4 DEF SolveAnswer, SolveCgi, Solve, NewResponse
    <3> QED BY <2>1, <3>1
  <2>5. CASE SolveUnwritable(fd)
    <3>1. fd \in inbox /\ "unwritable" \in Faults
      BY <2>5 DEF SolveUnwritable, RecvComplete, RecvBytes
    <3>2. eStatus[fd] = "REQUEST_READY"
      BY <3>1
    <3>3. eStatus'[fd] \in {"REQUEST_READY", "SEND_READY"} /\ mResponse' = mResponse
      BY <1>1, <2>5, <3>2 DEF SolveUnwritable
    <3> QED BY <2>1, <3>2, <3>3
  <2> QED BY <1>9, <2>2, <2>3, <2>4, <2>5 DEF RecvStep, RecvEnd
<1> QED BY <1>3, <1>4, <1>5, <1>6, <1>7, <1>8, <1>9 DEF SendStep

(* The window of every connection after any step.                          *)
LEMMA NextSInv ==
  ASSUME "talkative" \notin Faults \/ "unwritable" \notin Faults,
         IInv, SInv, [Next]_vars
  PROVE  SInv'
<1>1. ASSUME NEW fd \in ClientFds PROVE Window(fd)' /\ Polite(fd)'
  <2>1. Window(fd) /\ Polite(fd)
    BY DEF SInv, WriteWindow, PoliteClients, Window, Polite
  <2>2. CASE Untouched(fd) /\ (fd \in inbox' => fd \in inbox \/ ClientSend(fd))
    <3>1. Window(fd)' /\ (HasWork(fd)' <=> HasWork(fd))
      BY <2>1, <2>2 DEF Untouched, Window, HasWork
    <3>2. ASSUME "talkative" \notin Faults, HasWork(fd), fd \notin inbox PROVE ~ClientSend(fd)
      BY <3>2 DEF ClientSend, HasWork
    <3> QED BY <2>1, <2>2, <3>1, <3>2 DEF Polite
  <2>3. CASE Closed(fd)
    BY <2>3 DEF Closed, Window, Polite, HasWork, NoResponse, NewResponse
  <2>4. CASE SendStep(fd) \/ CgiStep(fd) \/ RecvStep(fd)
    BY <2>1, <2>4, StepWindow
  <2> QED BY <2>2, <2>3, <2>4, SendEffects
<1>2. \A fd \in ClientFds : Window(fd)' /\ Polite(fd)'
  BY <1>1
<1> QED BY <1>2 DEF SInv, WriteWindow, PoliteClients, Window, Polite

(* Nothing is being sent at first.                                         *)
LEMMA InitSInv == Init => SInv
BY DEF Init, SInv, WriteWindow, PoliteClients, NoResponse, NewResponse

(* write() is always given exactly the unsent rest of the message.         *)
THEOREM WriteWindowCorrect ==
  ASSUME "talkative" \notin Faults \/ "unwritable" \notin Faults
  PROVE  Spec => []WriteWindow
<1>1. IInv /\ SInv /\ [Next]_vars => SInv'
  BY NextSInv
<1>2. SInv => WriteWindow
  BY DEF SInv
<1> QED BY <1>1, <1>2, InitSInv, InductiveInvariant, PTL DEF Spec

(* If clients wait for their answers, every message is sent whole: no      *)
(* interleaving of partial writes, time-outs, CGI programs and other       *)
(* connections replaces a message of which a part is on the wire.          *)
THEOREM MessageSentWholeCorrect ==
  ASSUME "talkative" \notin Faults
  PROVE  Spec => MessageSentWhole
<1> DEFINE A(fd) == mResponse[fd].mSeek > 0 /\ fd \in open' =>
                      \/ /\ mResponse'[fd].code = mResponse[fd].code
                         /\ mResponse'[fd].size = mResponse[fd].size
                         /\ mResponse'[fd].mSeek >= mResponse[fd].mSeek
                         /\ mResponse'[fd].mSeek + mResponse'[fd].mHttpMessageLength
                              = mResponse[fd].mSeek + mResponse[fd].mHttpMessageLength
                      \/ mRequest'[fd] = "NULL" /\ eStatus'[fd] = "REQUEST_READY"
<1>1. ASSUME IInv, SInv, [Next]_vars, NEW fd \in Accepted PROVE A(fd)
  <2> SUFFICES ASSUME mResponse[fd].mSeek > 0 PROVE A(fd)
    OBVIOUS
  <2>1. fd \in ClientFds
    BY DEF Accepted
  <2>2. /\ mResponse \in [ClientFds -> Responses] /\ mResponse[fd] \in Responses
        /\ eStatus \in [ClientFds -> Status]
        /\ mRequest \in [ClientFds -> {"NULL", "incoming", "COMPLETE"}]
    BY <1>1, <2>1 DEF IInv, TypeOK
  <2>3. mResponse[fd].mSeek \in Nat /\ mResponse[fd].mHttpMessageLength \in Nat
    BY <2>2 DEF Responses
  <2>4. eStatus[fd] = "SEND_ING"
    BY <1>1, <2>1, <2>3 DEF SInv, WriteWindow
  <2>5. fd \notin inbox
    BY <1>1, <2>1, <2>4 DEF SInv, PoliteClients, HasWork
  <2>6. CASE Untouched(fd)
    BY <2>3, <2>6 DEF Untouched
  <2>7. CASE Closed(fd)
    BY <2>7 DEF Closed
  <2>8. CASE CgiStep(fd)
    BY <2>4, <2>8 DEF CgiStep, CgiRun, CgiRefuse, CgiAnswer, CgiStatus, CgiFail, RunExecute,
                      hasExecuteWork, Executing
  <2>9. ASSUME VisitClose(fd) PROVE Closed(fd)
    BY <2>1, <2>9 DEF VisitClose, closeConnection, eraseConnections, Closed
  <2>10. CASE RecvStep(fd)
    <3>1. RecvEnd(fd)
      BY <2>5, <2>10 DEF RecvStep, RecvMore, RecvReject, SolveAnswer, SolveCgi, SolveSilent,
                         SolveUnwritable, Solve, RecvComplete, RecvBytes
    <3> QED BY <2>7, <2>9, <3>1 DEF RecvEnd
  <2>11. CASE SendStep(fd)
    <3>1. CASE RunSendReady(fd)
      BY <2>4, <3>1 DEF RunSendReady
    <3>2. CASE RunSendPart(fd)
      <4>1. PICK n \in 1..(mResponse[fd].mHttpMessageLength - 1) :
              mResponse'[fd] = written(mResponse[fd], n)
        BY <2>1, <2>2, <3>2 DEF RunSendPart
      <4> QED BY <2>3, <4>1 DEF written
    <3>3. CASE RunSendLast(fd)
      BY <2>1, <2>2, <2>7, <2>9, <3>3 DEF RunSendLast
    <3>4. CASE RunSendFail(fd)
      BY <2>6, <2>7, <2>9, <3>4 DEF RunSendFail, connVars, Untouched
    <3> QED BY <2>11, <3>1, <3>2, <3>3, <3>4 DEF SendStep
  <2> QED BY <1>1, <2>1, <2>6, <2>7, <2>8, <2>10, <2>11, SendEffects
<1>2. IInv /\ SInv /\ [Next]_vars => [\A fd \in Accepted : A(fd)]_vars
  BY <1>1
<1>3. IInv /\ SInv /\ [Next]_vars => SInv'
  BY NextSInv
<1> QED BY <1>2, <1>3, InitSInv, InductiveInvariant, PTL DEF Spec, MessageSentWhole

=============================================================================
