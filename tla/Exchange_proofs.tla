----------------------------- MODULE Exchange_proofs -----------------------------
(***************************************************************************)
(* EventLoop implements the safety part of Exchange: every step of the     *)
(* loop is, for each client, one that Exchange allows, or leaves the       *)
(* client as it was.  The inductive invariants are those of                *)
(* EventLoop_proofs.                                                       *)
(***************************************************************************)
EXTENDS EventLoop_proofs

(* What a client sees is its own status and nothing else.                  *)
LEMMA Phases ==
  ASSUME NEW fd \in ClientFds
  PROVE  /\ clientPhase[fd] = IF fd \notin open THEN "closed"
                              ELSE IF eStatus[fd] = "SEND_ING" THEN "answering"
                              ELSE IF HasWork(fd) THEN "asked"
                              ELSE IF mRequest[fd] = "incoming" THEN "asking" ELSE "idle"
         /\ stillToSend[fd] = IF sending(fd) THEN mResponse[fd].mHttpMessageLength ELSE 0
         /\ answerCode[fd] = IF sending(fd) THEN mResponse[fd].code ELSE "NULL"
         /\ clientPhase'[fd] = IF fd \notin open' THEN "closed"
                               ELSE IF eStatus'[fd] = "SEND_ING" THEN "answering"
                               ELSE IF HasWork(fd)' THEN "asked"
                               ELSE IF mRequest'[fd] = "incoming" THEN "asking" ELSE "idle"
         /\ stillToSend'[fd] = IF sending(fd)' THEN mResponse'[fd].mHttpMessageLength ELSE 0
         /\ answerCode'[fd] = IF sending(fd)' THEN mResponse'[fd].code ELSE "NULL"
BY DEF clientPhase, stillToSend, answerCode

(* A client is told only by the time-out, when it has asked for nothing,   *)
(* and loses its connection.                                               *)
LEMMA OnlyIdleTold ==
  ASSUME "select" \notin Faults, IInv, [Next]_vars, NEW fd \in ClientFds, fd \in told'
  PROVE  \/ fd \in told
         \/ /\ fd \in open /\ fd \notin open'
            /\ mRequest[fd] = "NULL" /\ eStatus[fd] = "REQUEST_READY"
<1>1. CASE SelectTimeout
  <2>1. SUFFICES ASSUME fd \notin told
                 PROVE  /\ fd \in open /\ fd \notin open'
                        /\ mRequest[fd] = "NULL" /\ eStatus[fd] = "REQUEST_READY"
    OBVIOUS
  <2>2. fd \in UNION {clients(s) : s \in Servers} /\ fd \notin open' /\ mRequest[fd] = "NULL"
    BY <1>1, <2>1 DEF SelectTimeout, eraseConnections
  <2>3. fd \in Accepted
    BY <2>2, ClientsAccepted DEF IInv
  <2> QED BY <2>2, <2>3 DEF Accepted, IInv, AnswerExists
<1>2. CASE AcceptNew
  BY <1>2, AcceptNewFacts
<1>3. ASSUME NEW g \in ClientFds, VisitClose(g) PROVE told' = told
  BY <1>3 DEF VisitClose
<1>4. ASSUME NEW g \in ClientFds, VisitIdle(g) \/ SendStep(g) \/ CgiStep(g) \/ RecvStep(g)
      PROVE  told' = told
  <2>1. CASE VisitIdle(g) \/ CgiStep(g)
    BY <2>1 DEF VisitIdle, CgiStep, CgiRun, CgiRefuse, CgiAnswer, CgiStatus, CgiFail,
                RunExecute, kernelVars
  <2>2. CASE SendStep(g)
    BY <1>3, <2>2 DEF SendStep, RunSendReady, RunSendPart, RunSendLast, RunSendFail, kernelVars
  <2>3. CASE RecvStep(g)
    BY <1>3, <2>3 DEF RecvStep, RecvEnd, RecvMore, RecvReject, SolveAnswer, SolveCgi, SolveSilent,
                      SolveUnwritable, Solve, RecvComplete, RecvBytes
  <2> QED BY <1>4, <2>1, <2>2, <2>3
<1>5. CASE Select \/ NoNewConnection \/ AcceptFull \/ AcceptFails \/ UNCHANGED vars
  BY <1>5 DEF Select, NoNewConnection, AcceptFull, AcceptFails, vars, kernelVars
<1>6. CASE Environment
  BY <1>6 DEF Environment, Connect, ClientSend, ClientClose, PeerReads, Expire, kernelVars
<1>7. ~SelectError
  BY DEF SelectError
<1> QED BY <1>1, <1>2, <1>4, <1>5, <1>6, <1>7 DEF Next, System, AcceptStep

(* A connection that is opened is one of a new client, without anything    *)
(* of the descriptor's last owner.                                         *)
LEMMA Opened ==
  ASSUME IInv, [Next]_vars, NEW fd \in ClientFds, fd \notin open, fd \in open'
  PROVE  /\ eStatus'[fd] = "REQUEST_READY" /\ mRequest'[fd] = "NULL"
         /\ fd \notin hungup' \cup told'
<1>1. AcceptNew
  <2>1. PICK s \in Servers : fd \in mConnections'[s]
    <3>1. IInv'
      BY NextIInv
    <3> QED BY <3>1 DEF IInv, Ownership
  <2>2. fd \notin mConnections[s]
    BY <2>1 DEF IInv, Ownership
  <2> QED BY <2>1, <2>2, ConnectionsChange
<1>2. PICK g \in ClientFds \ open :
        /\ open' = open \cup {g}
        /\ eStatus' = [eStatus EXCEPT ![g] = "REQUEST_READY"]
        /\ mRequest' = [mRequest EXCEPT ![g] = "NULL"]
        /\ hungup' = hungup \ {g} /\ told' = told \ {g}
  BY <1>1, AcceptNewFacts
<1>3. fd = g
  BY <1>2
<1> QED BY <1>2, <1>3 DEF IInv, TypeOK

(* A client that loses its connection has been answered, or may be dropped. *)
LEMMA Dropped ==
  ASSUME "select" \notin Faults, IInv, [Next]_vars, NEW fd \in ClientFds,
         fd \in open, fd \notin open'
  PROVE  Ex!AnswerEnds(fd) \/ Ex!Drops(fd)
<1>1. Ex!Becomes(fd, "closed")
  <2>1. eStatus'[fd] = "REQUEST_READY"
    BY NextIInv DEF IInv, Blank
  <2> QED BY <2>1, Phases DEF Ex!Becomes, sending
<1>2. fd \in Accepted /\ clientPhase[fd] # "closed"
  BY Phases DEF Accepted
<1>3. CASE fd \in hungup
  BY <1>1, <1>2, <1>3 DEF Ex!Drops
<1>4. CASE eStatus[fd] = "SEND_ING" /\ mResponse[fd].code = "error"
  <2>1. clientPhase[fd] = "answering" /\ answerCode[fd] = "error"
    BY <1>4, Phases DEF sending
  <2> QED BY <1>1, <2>1 DEF Ex!AnswerEnds
<1>5. CASE SelectTimeout /\ fd \in expired
  <2>1. CASE HasWork(fd)
    <3>1. fd \in mWriteFds /\ fd <= updateMaxFd
      BY <2>1 DEF IInv, WriteInterest, Watched
    <3>2. fd \notin ReadyToWrite
      BY <1>5 DEF SelectTimeout
    <3>3. fd \notin room
      BY <3>1, <3>2 DEF ReadyToWrite, Writable
    <3>4. clientPhase[fd] \in {"asked", "answering"}
      BY <2>1, Phases
    <3> QED BY <1>1, <1>2, <3>3, <3>4 DEF Ex!Drops
  <2>2. CASE ~HasWork(fd) /\ mRequest[fd] = "incoming"
    <3>1. clientPhase[fd] = "asking"
      BY <2>2, Phases DEF HasWork
    <3> QED BY <1>1, <1>2, <3>1 DEF Ex!Drops
  <2>3. CASE ~HasWork(fd) /\ mRequest[fd] # "incoming"
    <3>1. clientPhase[fd] = "idle" /\ mRequest[fd] = "NULL"
      BY <2>3, Phases DEF HasWork, IInv, TypeOK
    <3>2. fd \in UNION {clients(s) : s \in Servers}
      BY <1>2, ClientsAccepted DEF IInv
    <3>3. fd \in told'
      BY <1>5, <3>1, <3>2 DEF SelectTimeout, IsKeepConnection
    <3> QED BY <1>1, <1>2, <3>1, <3>3 DEF Ex!Drops
  <2> QED BY <2>1, <2>2, <2>3
<1> QED BY <1>2, <1>3, <1>4, <1>5, WhyClosed DEF SelectError

(* The work on a connection that is kept.                                  *)
LEMMA Sent ==
  ASSUME IInv, NEW fd \in ClientFds, Window(fd), SendStep(fd), fd \in open, fd \in open'
  PROVE  Ex!Step(fd)
<1>1. /\ mResponse \in [ClientFds -> Responses] /\ mResponse[fd] \in Responses
      /\ eStatus \in [ClientFds -> Status]
      /\ mRequest \in [ClientFds -> {"NULL", "incoming", "COMPLETE"}]
  BY DEF IInv, TypeOK
<1>2. ~VisitClose(fd)
  BY DEF VisitClose, closeConnection, eraseConnections
<1>3. CASE RunSendReady(fd)
  <2>1. PICK n \in 1..MaxLen : mResponse'[fd] = makeHttpMessage(mResponse[fd], n)
    BY <1>1, <1>3 DEF RunSendReady
  <2>2. eStatus[fd] = "SEND_READY" /\ eStatus'[fd] = "SEND_ING"
    BY <1>1, <1>3 DEF RunSendReady
  <2>3. mResponse[fd].code \in Codes
    BY <1>1, <2>2 DEF IInv, AnswerExists, Responses
  <2>4. n > 0 /\ mResponse'[fd].mHttpMessageLength = n /\ mResponse'[fd].code = mResponse[fd].code
    BY <2>1, BoundsAssumption DEF makeHttpMessage
  <2>5. clientPhase[fd] = "asked" /\ clientPhase'[fd] = "answering"
    BY <2>2, Phases DEF HasWork
  <2>6. stillToSend'[fd] > 0 /\ answerCode'[fd] \in {"ok", "error"}
    BY <2>2, <2>3, <2>4, Phases DEF sending, Codes
  <2> QED BY <2>5, <2>6 DEF Ex!Step, Ex!AnswerBegins
<1>4. CASE RunSendPart(fd)
  <2>1. PICK n \in 1..(mResponse[fd].mHttpMessageLength - 1) :
          mResponse'[fd] = written(mResponse[fd], n)
    BY <1>1, <1>4 DEF RunSendPart
  <2>2. eStatus[fd] = "SEND_ING" /\ eStatus'[fd] = "SEND_ING"
    BY <1>4 DEF RunSendPart
  <2>3. mResponse[fd].mHttpMessageLength \in Nat
    BY <1>1 DEF Responses
  <2>4. /\ mResponse'[fd].mHttpMessageLength = mResponse[fd].mHttpMessageLength - n
        /\ mResponse'[fd].code = mResponse[fd].code
    BY <2>1 DEF written
  <2>5. clientPhase[fd] = "answering" /\ clientPhase'[fd] = "answering"
    BY <2>2, Phases
  <2>6. stillToSend'[fd] > 0 /\ stillToSend'[fd] < stillToSend[fd] /\ answerCode'[fd] = answerCode[fd]
    BY <2>1, <2>2, <2>3, <2>4, Phases DEF sending
  <2> QED BY <2>5, <2>6 DEF Ex!Step, Ex!AnswerGoesOn
<1>5. CASE RunSendLast(fd)
  <2>1. eStatus'[fd] = "REQUEST_READY" /\ mRequest'[fd] = "NULL"
    BY <1>1, <1>2, <1>5 DEF RunSendLast
  <2>2. eStatus[fd] = "SEND_ING" /\ mResponse[fd].code = "ok"
    BY <1>2, <1>5 DEF RunSendLast
  <2>3. clientPhase[fd] = "answering" /\ answerCode[fd] = "ok"
    BY <2>2, Phases DEF sending
  <2>4. Ex!Becomes(fd, "idle")
    BY <2>1, Phases DEF Ex!Becomes, HasWork, sending
  <2> QED BY <2>3, <2>4 DEF Ex!Step, Ex!AnswerEnds
<1>6. CASE RunSendFail(fd)
  <2>1. eStatus' = eStatus /\ mRequest' = mRequest /\ mResponse' = mResponse
    BY <1>2, <1>6 DEF RunSendFail, connVars
  <2> QED BY <2>1, Phases DEF Ex!Step, Ex!Stays, HasWork, sending
<1> QED BY <1>3, <1>4, <1>5, <1>6 DEF SendStep

(* A step of its CGI program changes nothing for the client.               *)
LEMMA Executed ==
  ASSUME IInv, NEW fd \in ClientFds, CgiStep(fd), fd \in open, fd \in open'
  PROVE  Ex!Step(fd)
<1>1. eStatus[fd] \in Executing /\ eStatus'[fd] \in {"CGI_ING", "SEND_READY"}
  BY DEF CgiStep, CgiRun, CgiRefuse, CgiAnswer, CgiStatus, CgiFail, RunExecute,
         hasExecuteWork, IInv, TypeOK
<1>2. clientPhase[fd] = "asked" /\ clientPhase'[fd] = "asked"
  BY <1>1, Phases DEF Executing, HasWork
<1>3. ~sending(fd) /\ ~sending(fd)'
  BY <1>1 DEF Executing, sending
<1> QED BY <1>2, <1>3, Phases DEF Ex!Step, Ex!Stays

(* A client that waits for its answers is only read from when it asks.     *)
LEMMA Received ==
  ASSUME "talkative" \notin Faults, IInv, NEW fd \in ClientFds, Polite(fd), RecvStep(fd),
         fd \in open, fd \in open'
  PROVE  Ex!Step(fd)
<1>1. /\ eStatus \in [ClientFds -> Status] /\ eStatus[fd] \in Status
      /\ mRequest \in [ClientFds -> {"NULL", "incoming", "COMPLETE"}]
  BY DEF IInv, TypeOK
<1>2. ~RecvEnd(fd)
  BY DEF RecvEnd, VisitClose, closeConnection, eraseConnections
<1>3. fd \in inbox
  BY <1>2 DEF RecvStep, RecvMore, RecvReject, SolveAnswer, SolveCgi, SolveSilent,
              SolveUnwritable, Solve, RecvComplete, RecvBytes
<1>4. ~HasWork(fd)
  BY <1>3 DEF Polite
<1>5. clientPhase[fd] \in {"idle", "asking"}
  BY <1>4, Phases DEF HasWork
<1>6. CASE RecvMore(fd)
  <2>1. eStatus'[fd] = "REQUEST_READY" /\ mRequest'[fd] = "incoming"
    BY <1>1, <1>4, <1>6 DEF RecvMore, HasWork
  <2>2. Ex!Becomes(fd, "asking")
    BY <2>1, Phases DEF Ex!Becomes, HasWork, sending
  <2> QED BY <1>5, <2>2 DEF Ex!Step, Ex!Asks
<1>7. CASE ~RecvMore(fd)
  <2>1. /\ eStatus'[fd] \in {"REQUEST_READY", "SEND_READY", "CGI_READY"}
        /\ eStatus'[fd] = "REQUEST_READY" => mRequest'[fd] = "COMPLETE"
    <3>1. \/ RecvReject(fd) \/ SolveAnswer(fd) \/ SolveCgi(fd) \/ SolveSilent(fd)
          \/ SolveUnwritable(fd)
      BY <1>2, <1>7 DEF RecvStep
    <3>2. ASSUME RecvReject(fd) PROVE eStatus'[fd] = "SEND_READY"
      BY <1>1, <3>2 DEF RecvReject
    <3>3. ASSUME SolveAnswer(fd) \/ SolveCgi(fd) PROVE eStatus'[fd] \in {"SEND_READY", "CGI_READY"}
      BY <1>1, <3>3 DEF SolveAnswer, SolveCgi, Solve
    <3>4. ASSUME SolveSilent(fd) \/ SolveUnwritable(fd)
          PROVE  mRequest'[fd] = "COMPLETE" /\ eStatus'[fd] \in {"REQUEST_READY", "SEND_READY"}
      <4>1. mRequest'[fd] = "COMPLETE"
        BY <1>1, <3>4 DEF SolveSilent, SolveUnwritable, RecvComplete
      <4>2. eStatus'[fd] \in {"REQUEST_READY", "SEND_READY"}
        BY <1>1, <1>4, <3>4 DEF SolveSilent, SolveUnwritable, HasWork
      <4> QED BY <4>1, <4>2
    <3> QED BY <3>1, <3>2, <3>3, <3>4
  <2>2. Ex!Becomes(fd, "asked")
    BY <2>1, Phases DEF Ex!Becomes, HasWork, sending
  <2> QED BY <1>5, <2>2 DEF Ex!Step, Ex!Asks
<1> QED BY <1>6, <1>7

(* Every step of the loop is one of the exchange, for every client.        *)
LEMMA ExchangeStep ==
  ASSUME "talkative" \notin Faults, "select" \notin Faults, IInv, SInv, [Next]_vars,
         NEW fd \in ClientFds
  PROVE  Ex!Step(fd) /\ Ex!Telling(fd)
<1>1. Ex!Telling(fd)
  <2>1. ASSUME mRequest[fd] = "NULL", eStatus[fd] = "REQUEST_READY", fd \in open, fd \notin open'
        PROVE  clientPhase[fd] = "idle" /\ clientPhase'[fd] = "closed"
    BY <2>1, Phases DEF HasWork
  <2> QED BY <2>1, OnlyIdleTold DEF Ex!Telling
<1> SUFFICES Ex!Step(fd)
  BY <1>1
<1>2. CASE fd \notin open /\ fd \notin open'
  <2>1. eStatus[fd] = "REQUEST_READY" /\ eStatus'[fd] = "REQUEST_READY"
    BY <1>2, NextIInv DEF IInv, Blank
  <2> QED BY <1>2, <2>1, Phases DEF Ex!Step, Ex!Stays, sending
<1>3. CASE fd \notin open /\ fd \in open'
  <2>1. eStatus'[fd] = "REQUEST_READY" /\ mRequest'[fd] = "NULL" /\ fd \notin hungup' \cup told'
    BY <1>3, Opened
  <2>2. clientPhase[fd] = "closed" /\ Ex!Becomes(fd, "idle")
    BY <1>3, <2>1, Phases DEF Ex!Becomes, HasWork, sending
  <2> QED BY <2>1, <2>2 DEF Ex!Step, Ex!Connects
<1>4. CASE fd \in open /\ fd \notin open'
  BY <1>4, Dropped DEF Ex!Step
<1>5. CASE fd \in open /\ fd \in open'
  <2>1. Window(fd) /\ Polite(fd)
    BY DEF SInv, WriteWindow, PoliteClients, Window, Polite
  <2>2. CASE Untouched(fd)
    BY <1>5, <2>2, Phases DEF Untouched, Ex!Step, Ex!Stays, HasWork, sending
  <2>3. CASE SendStep(fd) \/ CgiStep(fd) \/ RecvStep(fd)
    BY <1>5, <2>1, <2>3, Sent, Executed, Received
  <2> QED BY <1>5, <2>2, <2>3, SendEffects
<1> QED BY <1>2, <1>3, <1>4, <1>5

(* At first nobody is connected.                                           *)
LEMMA ExchangeInit == Init => Ex!Init
<1> SUFFICES ASSUME Init PROVE Ex!Init
  OBVIOUS
<1>1. \A fd \in ClientFds : fd \notin open /\ eStatus[fd] = "REQUEST_READY"
  BY Fds DEF Init
<1> QED BY <1>1 DEF Ex!Init, clientPhase, stillToSend, answerCode, sending, Init

(* For every number of servers, connections and descriptors, and for every *)
(* length of the answers: if clients wait for their answers and select()   *)
(* does not fail, all that a client ever sees is an exchange.              *)
THEOREM ExchangeKeptCorrect ==
  ASSUME "talkative" \notin Faults, "select" \notin Faults
  PROVE  Spec => ExchangeKept
<1>1. IInv /\ SInv /\ [Next]_vars => Ex!Next
  BY ExchangeStep DEF Ex!Next
<1>2. IInv /\ SInv /\ [Next]_vars => SInv'
  BY NextSInv
<1> QED BY <1>1, <1>2, ExchangeInit, InitSInv, InductiveInvariant, PTL
    DEF Spec, ExchangeKept, Ex!SafeSpec
=============================================================================
