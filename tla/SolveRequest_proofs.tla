------------------------- MODULE SolveRequest_proofs -------------------------
(***************************************************************************)
(* Proofs about SolveRequest, for every set of connections, tree, location *)
(* and request.  The inductive invariant has two parts: the served tree is *)
(* a tree (TreeOK), and what the connections hold fits together (ConnOK).  *)
(***************************************************************************)
EXTENDS SolveRequest, TLAPS

TreeOK ==
  /\ tree = [p \in Paths |-> tree[p]]
  /\ \A p \in Paths :
       /\ tree[p].kind \in Kinds
       /\ tree[p].kind # "absent" => \A a \in Above[p] : tree[a].kind = "dir"

ConnOK ==
  /\ mErrorPage \in {""} \cup {Location[p].mErrorPage : p \in Paths}
  /\ eStatus \in [Conns -> {"REQUEST_READY", "CGI_READY", "CGI_ING", "SEND_READY"}]
  /\ mRequest \in [Conns -> Requests \cup {NoRequest}]
  /\ mCgiProgramPath \in [Conns -> {NoProgram} \cup {ProgramOf[p] : p \in Paths}]
  /\ fresh \in [Conns -> BOOLEAN] /\ failed \in [Conns -> BOOLEAN] /\ crashed \in BOOLEAN
  /\ \A c \in Conns : eStatus[c] # "REQUEST_READY" => mRequest[c] # NoRequest

IInv == TreeOK /\ ConnOK

-----------------------------------------------------------------------------
(* A request that clients send is not the absent one.                      *)
LEMMA RequestIsThere == \A r \in Requests : r # NoRequest
<1>1. NoRequest.method = "NULL"
  BY DEF NoRequest
<1>2. \A r \in Requests : r.method # "NULL"
  BY PathsAssumption DEF Methods
<1>3. QED
  BY <1>1, <1>2

(* What stat() calls by a kind is of that kind in the tree.                *)
LEMMA StatIsKind ==
  ASSUME NEW p, NEW slash, Stat(p, slash) \in {"absent", "dir", "file", "refused"}
  PROVE  tree[p].kind = Stat(p, slash)
  BY DEF Stat

(* A file written where one is, or where nothing is in directories that    *)
(* are there, leaves a tree.                                               *)
LEMMA WriteKeepsTree ==
  ASSUME TreeOK, NEW p \in Paths, NEW content,
         \/ tree[p].kind = "file"
         \/ tree[p].kind = "absent" /\ \A a \in Above[p] : tree[a].kind = "dir",
         tree' = [tree EXCEPT ![p] = File(content)]
  PROVE  TreeOK'
<1>1. tree' = [q \in Paths |-> IF q = p THEN File(content) ELSE tree[q]]
  BY DEF TreeOK
<1>2. tree' = [q \in Paths |-> tree'[q]]
  BY <1>1
<1>3. ASSUME NEW q \in Paths, tree[q].kind = "dir" PROVE tree'[q].kind = "dir"
  BY <1>1, <1>3
<1>4. \A a \in Above[p] : a \in Paths /\ tree[a].kind = "dir"
  BY PathsAssumption DEF TreeOK
<1>5. ASSUME NEW q \in Paths
      PROVE  /\ tree'[q].kind \in Kinds
             /\ tree'[q].kind # "absent" => \A a \in Above[q] : tree'[a].kind = "dir"
  <2>1. CASE q = p
    <3>1. tree'[q].kind = "file"
      BY <1>1, <2>1 DEF File
    <3>2. QED
      BY <3>1, <2>1, <1>3, <1>4 DEF Kinds
  <2>2. CASE q # p
    <3>1. tree'[q] = tree[q]
      BY <1>1, <2>2
    <3>2. \A a \in Above[q] : a \in Paths
      BY PathsAssumption
    <3>3. QED
      BY <3>1, <3>2, <1>3 DEF TreeOK
  <2>3. QED
    BY <2>1, <2>2
<1>6. QED
  BY <1>2, <1>5 DEF TreeOK

(* A file removed leaves a tree: nothing is below a file.                  *)
LEMMA RemoveKeepsTree ==
  ASSUME TreeOK, NEW p \in Paths, tree[p].kind = "file",
         tree' = [tree EXCEPT ![p] = Absent]
  PROVE  TreeOK'
<1>1. tree' = [q \in Paths |-> IF q = p THEN Absent ELSE tree[q]]
  BY DEF TreeOK
<1>2. tree' = [q \in Paths |-> tree'[q]]
  BY <1>1
<1>3. ASSUME NEW q \in Paths, tree[q].kind = "dir" PROVE tree'[q].kind = "dir"
  BY <1>1, <1>3
<1>4. ASSUME NEW q \in Paths
      PROVE  /\ tree'[q].kind \in Kinds
             /\ tree'[q].kind # "absent" => \A a \in Above[q] : tree'[a].kind = "dir"
  <2>1. CASE q = p
    <3>1. tree'[q].kind = "absent"
      BY <1>1, <2>1 DEF Absent
    <3>2. QED
      BY <3>1 DEF Kinds
  <2>2. CASE q # p
    <3>1. tree'[q] = tree[q]
      BY <1>1, <2>2
    <3>2. \A a \in Above[q] : a \in Paths
      BY PathsAssumption
    <3>3. QED
      BY <3>1, <3>2, <1>3 DEF TreeOK
  <2>3. QED
    BY <2>1, <2>2
<1>5. QED
  BY <1>2, <1>4 DEF TreeOK

(* executePut and executeDelete change at most the file they name.         *)
LEMMA PutKeepsTree ==
  ASSUME TreeOK, NEW c \in Conns, NEW r \in Requests, executePut(c, r)
  PROVE  TreeOK' /\ \A p \in Paths : p # r.path => tree'[p] = tree[p]
<1>1. r.path \in Paths
  BY PathsAssumption
<1>2. CASE tree' = tree
  BY <1>2 DEF TreeOK
<1>3. ASSUME Store(c, r),
             \/ Stat(r.path, r.slash) = "file"
             \/ Stat(r.path, r.slash) = "absent" /\ \A a \in Above[r.path] : tree[a].kind = "dir"
      PROVE  TreeOK' /\ \A p \in Paths : p # r.path => tree'[p] = tree[p]
  <2>1. PICK content : tree' = [tree EXCEPT ![r.path] = File(content)]
    BY <1>3 DEF Store
  <2>2. \/ tree[r.path].kind = "file"
        \/ tree[r.path].kind = "absent" /\ \A a \in Above[r.path] : tree[a].kind = "dir"
    BY <1>3, StatIsKind
  <2>3. TreeOK'
    BY <1>1, <2>1, <2>2, WriteKeepsTree
  <2>4. QED
    BY <2>1, <2>3 DEF TreeOK
<1>4. QED
  BY <1>2, <1>3 DEF executePut, Creates, Look

LEMMA DeleteKeepsTree ==
  ASSUME TreeOK, NEW c \in Conns, NEW r \in Requests, executeDelete(c, r)
  PROVE  TreeOK' /\ \A p \in Paths : p # r.path => tree'[p] = tree[p]
<1>1. r.path \in Paths
  BY PathsAssumption
<1>2. CASE tree' = tree
  BY <1>2 DEF TreeOK
<1>3. CASE /\ tree' = [tree EXCEPT ![r.path] = Absent]
           /\ Stat(r.path, r.slash) = "file"
  <2>1. tree[r.path].kind = "file"
    BY <1>3, StatIsKind
  <2>2. TreeOK'
    BY <1>1, <1>3, <2>1, RemoveKeepsTree
  <2>3. QED
    BY <1>3, <2>2 DEF TreeOK
<1>4. QED
  BY <1>2, <1>3 DEF executeDelete, Look

(* Every step of solveRequest but those of PUT and DELETE leaves the tree. *)
LEMMA OtherSolveKeepsTree ==
  ASSUME NEW c \in Conns, NEW r \in Requests,
         \/ SolveObjection(c, r) \/ SolveDirectory(c, r) \/ SolveCgi(c, r) \/ SolveFile(c, r)
  PROVE  tree' = tree
<1>1. CASE SolveObjection(c, r)
  BY <1>1 DEF SolveObjection, Throw, Look
<1>2. CASE SolveDirectory(c, r)
  BY <1>2 DEF SolveDirectory, Throw, Look, executeOptions
<1>3. CASE SolveCgi(c, r)
  BY <1>3 DEF SolveCgi, Throw, Look, executeOptions
<1>4. CASE SolveFile(c, r)
  BY <1>4 DEF SolveFile, Throw, Look, executeOptions
<1>5. QED
  BY <1>1, <1>2, <1>3, <1>4

(* So does a step of a CGI program, a sending and a close.                 *)
LEMMA RestKeepsTree ==
  ASSUME NEW c \in Conns, CgiStep(c) \/ Send(c) \/ closeConnection(c)
  PROVE  tree' = tree
  BY DEF CgiStep, CgiNothing, CgiRefuse, CgiRun, CgiAnswer, CgiStatus, CgiMalformed,
         CgiFail, Execute, Send, closeConnection

-----------------------------------------------------------------------------
(* What every step of solveRequest does to the connections.                *)
LEMMA SolveKeepsConns ==
  ASSUME ConnOK, NEW c \in Conns, NEW r \in Requests, Solve(c, r),
         fresh' \in [Conns -> BOOLEAN], failed' \in [Conns -> BOOLEAN], crashed' \in BOOLEAN,
         \/ UNCHANGED eStatus
         \/ \E s \in {"CGI_READY", "SEND_READY"} : eStatus' = [eStatus EXCEPT ![c] = s]
  PROVE  ConnOK'
<1>1. r # NoRequest /\ r.path \in Paths
  BY RequestIsThere, PathsAssumption
<1>2. mErrorPage' \in {""} \cup {Location[p].mErrorPage : p \in Paths}
  BY <1>1 DEF Solve, location
<1>3. eStatus' \in [Conns -> {"REQUEST_READY", "CGI_READY", "CGI_ING", "SEND_READY"}]
  BY DEF ConnOK
<1>4. mRequest' = [mRequest EXCEPT ![c] = r]
  BY DEF Solve
<1>5. mRequest' \in [Conns -> Requests \cup {NoRequest}]
  BY <1>4 DEF ConnOK
<1>6. mCgiProgramPath' \in [Conns -> {NoProgram} \cup {ProgramOf[p] : p \in Paths}]
  BY <1>1 DEF ConnOK, Solve
<1>7. ASSUME NEW d \in Conns, eStatus'[d] # "REQUEST_READY" PROVE mRequest'[d] # NoRequest
  <2>1. CASE d = c
    BY <1>1, <1>4, <2>1 DEF ConnOK
  <2>2. CASE d # c
    <3>1. eStatus'[d] = eStatus[d] /\ mRequest'[d] = mRequest[d]
      BY <1>4, <2>2 DEF ConnOK
    <3>2. QED
      BY <1>7, <3>1 DEF ConnOK
  <2>3. QED
    BY <2>1, <2>2
<1>8. QED
  BY <1>2, <1>3, <1>5, <1>6, <1>7 DEF ConnOK

(* The ghosts of who touched a path last, and of what failed then, keep    *)
(* their types.                                                            *)
Seen(c, r) ==
  (\E failure \in BOOLEAN : Touch(c, r, failure)) \/ Look(c) \/ UNCHANGED <<fresh, failed>>

LEMMA GhostsAreTyped ==
  ASSUME ConnOK, NEW c \in Conns, NEW r, Seen(c, r)
  PROVE  fresh' \in [Conns -> BOOLEAN] /\ failed' \in [Conns -> BOOLEAN]
<1>1. ASSUME NEW failure \in BOOLEAN, Touch(c, r, failure)
      PROVE  fresh' \in [Conns -> BOOLEAN] /\ failed' \in [Conns -> BOOLEAN]
  <2>1. fresh' \in [Conns -> BOOLEAN]
    BY <1>1, Zenon DEF Touch
  <2>2. failed' \in [Conns -> BOOLEAN]
    BY <1>1 DEF Touch, ConnOK
  <2>3. QED
    BY <2>1, <2>2
<1>2. CASE Look(c)
  BY <1>2 DEF Look, ConnOK
<1>3. CASE UNCHANGED <<fresh, failed>>
  BY <1>3 DEF ConnOK
<1>4. QED
  BY <1>1, <1>2, <1>3 DEF Seen

LEMMA SolveStepKeepsConns ==
  ASSUME ConnOK, NEW c \in Conns, NEW r \in Requests, SolveStep(c, r)
  PROVE  ConnOK'
<1> DEFINE Answered ==
      /\ Solve(c, r)
      /\ Seen(c, r)
      /\ crashed' \in BOOLEAN
      /\ \/ UNCHANGED eStatus
         \/ \E s \in {"CGI_READY", "SEND_READY"} : eStatus' = [eStatus EXCEPT ![c] = s]
<1> crashed \in BOOLEAN
  BY DEF ConnOK
<1>1. CASE SolveObjection(c, r)
  <2>1. Answered
    BY <1>1 DEF SolveObjection, Throw, Answer, Seen
  <2>2. QED
    BY <2>1, GhostsAreTyped, SolveKeepsConns
<1>2. CASE SolvePut(c, r)
  <2>1. Answered
    BY <1>2 DEF SolvePut, executePut, Store, Answer, Seen
  <2>2. QED
    BY <2>1, GhostsAreTyped, SolveKeepsConns
<1>3. CASE SolveDelete(c, r)
  <2>1. Answered
    BY <1>3 DEF SolveDelete, executeDelete, Answer, Seen
  <2>2. QED
    BY <2>1, GhostsAreTyped, SolveKeepsConns
<1>4. CASE SolveDirectory(c, r)
  <2>1. Answered
    BY <1>4 DEF SolveDirectory, Throw, Answer, executeOptions, Seen
  <2>2. QED
    BY <2>1, GhostsAreTyped, SolveKeepsConns
<1>5. CASE SolveCgi(c, r)
  <2>1. Answered
    BY <1>5 DEF SolveCgi, Throw, Answer, executeOptions, Seen
  <2>2. QED
    BY <2>1, GhostsAreTyped, SolveKeepsConns
<1>6. CASE SolveFile(c, r)
  <2>1. Answered
    BY <1>6 DEF SolveFile, Throw, Answer, executeOptions, Seen
  <2>2. QED
    BY <2>1, GhostsAreTyped, SolveKeepsConns
<1>7. QED
  BY <1>1, <1>2, <1>3, <1>4, <1>5, <1>6 DEF SolveStep

(* A step of a CGI program works for a connection that has a request.      *)
LEMMA CgiStepKeepsConns ==
  ASSUME ConnOK, NEW c \in Conns, CgiStep(c)
  PROVE  ConnOK'
<1>1. eStatus[c] \in {"CGI_READY", "CGI_ING"}
  BY DEF CgiStep, CgiNothing, CgiRefuse, CgiRun, CgiRead, CgiAnswer, CgiStatus,
         CgiMalformed, CgiFail
<1>2. \E s \in {"CGI_ING", "SEND_READY"} : \E response : Execute(c, s, response)
  BY DEF CgiStep, CgiNothing, CgiRefuse, CgiRun, CgiAnswer, CgiStatus, CgiMalformed, CgiFail
<1>3. PICK s \in {"CGI_ING", "SEND_READY"} : eStatus' = [eStatus EXCEPT ![c] = s]
  BY <1>2 DEF Execute
<1>4. UNCHANGED <<mErrorPage, mRequest, mCgiProgramPath, fresh, failed, crashed>>
  BY <1>2 DEF Execute
<1>5. QED
  BY <1>1, <1>3, <1>4 DEF ConnOK

(* A connection that is done, or closed, has neither request nor program.  *)
LEMMA DoneKeepsConns ==
  ASSUME ConnOK, NEW c \in Conns, Send(c) \/ closeConnection(c)
  PROVE  ConnOK'
<1>1. /\ UNCHANGED <<mErrorPage, crashed>>
      /\ eStatus' = [eStatus EXCEPT ![c] = "REQUEST_READY"]
      /\ mRequest' = [mRequest EXCEPT ![c] = NoRequest]
      /\ fresh' = [fresh EXCEPT ![c] = FALSE]
      /\ failed' = [failed EXCEPT ![c] = FALSE]
      /\ \/ mCgiProgramPath' = [mCgiProgramPath EXCEPT ![c] = NoProgram]
         \/ UNCHANGED mCgiProgramPath
  BY DEF Send, closeConnection
<1>2. QED
  BY <1>1 DEF ConnOK

-----------------------------------------------------------------------------
(* The invariant is inductive.                                             *)
LEMMA InitHolds == Init => IInv
<1> SUFFICES ASSUME Init PROVE IInv
  OBVIOUS
<1>1. TreeOK
  BY PathsAssumption DEF Init, TreeOK
<1>2. ConnOK
  BY DEF Init, ConnOK
<1>3. QED
  BY <1>1, <1>2 DEF IInv

LEMMA NextKeepsIInv == IInv /\ [Next]_vars => IInv'
<1> SUFFICES ASSUME IInv, [Next]_vars PROVE IInv'
  OBVIOUS
<1> USE DEF IInv
<1>1. ASSUME NEW c \in Conns, NEW r \in Requests, SolveStep(c, r) PROVE IInv'
  <2>1. ConnOK'
    BY <1>1, SolveStepKeepsConns
  <2>2. CASE SolvePut(c, r)
    BY <2>1, <2>2, PutKeepsTree DEF SolvePut
  <2>3. CASE SolveDelete(c, r)
    BY <2>1, <2>3, DeleteKeepsTree DEF SolveDelete
  <2>4. CASE SolveObjection(c, r) \/ SolveDirectory(c, r) \/ SolveCgi(c, r) \/ SolveFile(c, r)
    <3>1. tree' = tree
      BY <2>4, OtherSolveKeepsTree
    <3>2. QED
      BY <2>1, <3>1 DEF TreeOK
  <2>5. QED
    BY <1>1, <2>2, <2>3, <2>4 DEF SolveStep
<1>2. ASSUME NEW c \in Conns, CgiStep(c) \/ Send(c) \/ closeConnection(c) PROVE IInv'
  <2>1. ConnOK'
    BY <1>2, CgiStepKeepsConns, DoneKeepsConns
  <2>2. tree' = tree
    BY <1>2, RestKeepsTree
  <2>3. QED
    BY <2>1, <2>2 DEF TreeOK
<1>3. CASE UNCHANGED vars
  BY <1>3 DEF vars, connVars, TreeOK, ConnOK
<1>4. QED
  BY <1>1, <1>2, <1>3 DEF Next

THEOREM InductiveInvariant == Spec => []IInv
  BY InitHolds, NextKeepsIInv, PTL DEF Spec

(* Every variable keeps its type, the served tree stays a tree, and a      *)
(* connection that is busy has a request, whatever is requested.           *)
THEOREM TypeCorrect == Spec => []TypeOK
<1>1. IInv => TypeOK
  BY DEF IInv, TreeOK, ConnOK, TypeOK
<1>2. QED
  BY <1>1, InductiveInvariant, PTL

-----------------------------------------------------------------------------
(* A request that gets past the objections to execute a PUT or a DELETE is *)
(* one that may change the tree.                                           *)
LEMMA PutMayChange ==
  ASSUME NEW r \in Requests, Objection(r) = 0, URItype(r) = "FILE_TO_CREATE"
  PROVE  MayChange(r)
<1>1. r.method = "PUT"
  BY DEF URItype
<1>2. isValidMethod(r) /\ Unauthorized(r) = 0 /\ ~TooLarge(r)
  BY DEF Objection
<1>3. location(r).auth => r.credentials = "right"
  BY <1>2 DEF Unauthorized
<1>4. /\ Size[r.body] \in Nat
      /\ location(r).mClientMaxBodySize \in Nat
  BY PathsAssumption DEF location
<1>5. location(r).mClientMaxBodySize # 0 => Size[r.body] <= location(r).mClientMaxBodySize
  BY <1>2, <1>4 DEF TooLarge
<1>6. QED
  BY <1>1, <1>2, <1>3, <1>5 DEF MayChange

LEMMA DeleteMayChange ==
  ASSUME NEW r \in Requests, Objection(r) = 0, r.method = "DELETE"
  PROVE  MayChange(r)
<1>1. isValidMethod(r) /\ Unauthorized(r) = 0
  BY DEF Objection
<1>2. location(r).auth => r.credentials = "right"
  BY <1>1 DEF Unauthorized
<1>3. QED
  BY <1>1, <1>2 DEF MayChange

(* The served tree changes only where an allowed PUT or DELETE says, for   *)
(* every configuration of locations, credentials and limits.               *)
THEOREM TreeGuardedCorrect == Spec => TreeGuarded
<1> DEFINE Guarded(p) ==
      \E c \in Conns :
        /\ mRequest[c] = NoRequest /\ mRequest'[c] # NoRequest
        /\ mRequest'[c].path = p /\ MayChange(mRequest'[c])
<1>1. ASSUME IInv, [Next]_vars, NEW p \in Paths, tree'[p] # tree[p]
      PROVE  Guarded(p)
  <2>1. ASSUME NEW c \in Conns, NEW r \in Requests, Solve(c, r), MayChange(r), p = r.path
        PROVE  Guarded(p)
    <3>1. mRequest'[c] = r /\ mRequest[c] = NoRequest
      BY <1>1, <2>1 DEF Solve, IInv, ConnOK
    <3>2. r # NoRequest
      BY RequestIsThere
    <3>3. QED
      BY <2>1, <3>1, <3>2
  <2>2. ASSUME NEW c \in Conns, NEW r \in Requests, SolvePut(c, r) PROVE Guarded(p)
    <3>1. p = r.path
      BY <1>1, <2>2, PutKeepsTree DEF SolvePut, IInv
    <3>2. Solve(c, r) /\ MayChange(r)
      BY <2>2, PutMayChange DEF SolvePut
    <3>3. QED
      BY <2>1, <3>1, <3>2
  <2>3. ASSUME NEW c \in Conns, NEW r \in Requests, SolveDelete(c, r) PROVE Guarded(p)
    <3>1. p = r.path
      BY <1>1, <2>3, DeleteKeepsTree DEF SolveDelete, IInv
    <3>2. Solve(c, r) /\ MayChange(r)
      BY <2>3, DeleteMayChange DEF SolveDelete
    <3>3. QED
      BY <2>1, <3>1, <3>2
  <2>4. ASSUME NEW c \in Conns, NEW r \in Requests, SolveStep(c, r) PROVE Guarded(p)
    BY <1>1, <2>2, <2>3, <2>4, OtherSolveKeepsTree DEF SolveStep
  <2>5. ASSUME NEW c \in Conns, CgiStep(c) \/ Send(c) \/ closeConnection(c) PROVE FALSE
    BY <1>1, <2>5, RestKeepsTree
  <2>6. ~UNCHANGED vars
    BY <1>1 DEF vars
  <2>7. QED
    BY <1>1, <2>4, <2>5, <2>6 DEF Next
<1>2. IInv /\ [Next]_vars =>
        [\A p \in Paths : tree'[p] # tree[p] =>
           \E c \in Conns :
             /\ mRequest[c] = NoRequest /\ mRequest'[c] # NoRequest
             /\ mRequest'[c].path = p /\ MayChange(mRequest'[c])]_vars
  BY <1>1
<1>3. QED
  BY <1>2, InductiveInvariant, PTL DEF Spec, TreeGuarded

-----------------------------------------------------------------------------
(* A step works for one connection: it leaves what the others hold.        *)
Shape ==
  /\ mResponse = [c \in Conns |-> mResponse[c]]
  /\ fromCGI = [c \in Conns |-> fromCGI[c]]

Frame(c) ==
  \A d \in Conns : d # c =>
    /\ eStatus'[d] = eStatus[d] /\ mRequest'[d] = mRequest[d]
    /\ mResponse'[d] = mResponse[d] /\ fromCGI'[d] = fromCGI[d]
    /\ mCgiProgramPath'[d] = mCgiProgramPath[d]

(* What solveRequest makes of a request: nothing, or a status and an       *)
(* answer.                                                                 *)
Result(c, s, response) ==
  /\ eStatus' = [eStatus EXCEPT ![c] = s]
  /\ mResponse' = [mResponse EXCEPT ![c] = response]

LEMMA SolveFrame ==
  ASSUME ConnOK, Shape, NEW c \in Conns, NEW r \in Requests, Solve(c, r),
         \/ UNCHANGED <<eStatus, mResponse>>
         \/ \E s, response : Result(c, s, response)
  PROVE  Shape' /\ Frame(c) /\ mRequest'[c] = r /\ eStatus[c] = "REQUEST_READY"
  BY DEF ConnOK, Shape, Solve, Frame, Result

LEMMA ExecuteFrame ==
  ASSUME ConnOK, Shape, NEW c \in Conns, NEW s, NEW response, NEW file,
         Execute(c, s, response), fromCGI' = [fromCGI EXCEPT ![c] = file]
  PROVE  /\ Shape' /\ Frame(c)
         /\ eStatus'[c] = s /\ mResponse'[c] = response /\ fromCGI'[c] = file
         /\ mRequest'[c] = mRequest[c] /\ mCgiProgramPath'[c] = mCgiProgramPath[c]
  BY DEF ConnOK, Shape, Execute, Frame

LEMMA RunFrame ==
  ASSUME ConnOK, Shape, NEW c \in Conns, CgiRun(c)
  PROVE  /\ Shape' /\ Frame(c) /\ eStatus'[c] = "CGI_ING" /\ mResponse'[c] = mResponse[c]
         /\ mRequest'[c] = mRequest[c] /\ mCgiProgramPath'[c] = mCgiProgramPath[c]
  BY DEF ConnOK, Shape, Execute, Frame, CgiRun

LEMMA AnswerFrame ==
  ASSUME ConnOK, Shape, NEW c \in Conns, CgiAnswer(c)
  PROVE  /\ Shape' /\ Frame(c) /\ eStatus'[c] = "SEND_READY"
         /\ mResponse'[c] = Response(mResponse[c].code, fromCGI[c])
         /\ mRequest'[c] = mRequest[c] /\ mCgiProgramPath'[c] = mCgiProgramPath[c]
  BY DEF ConnOK, Shape, Execute, Frame, CgiAnswer, CgiRead

LEMMA DoneFrame ==
  ASSUME ConnOK, Shape, NEW c \in Conns, Send(c) \/ closeConnection(c)
  PROVE  Shape' /\ Frame(c) /\ eStatus'[c] = "REQUEST_READY"
  BY DEF ConnOK, Shape, Send, closeConnection, Frame

-----------------------------------------------------------------------------
(* What an answer may be when a request has been solved: a page of the     *)
(* parsers and methods, or a document.                                     *)
Thrown(c, r) ==
  \E code \in {301, 401, 403, 404, 405, 413, 500} :
    Result(c, "SEND_READY", createResponseStatusCode(code, location(r).mErrorPage))
Document(c, r) ==
  \E code \in {200, 201, 204} : \E body, length :
    /\ Result(c, "SEND_READY", Headed(code, body, length))
    /\ FitsMethod(r, Headed(code, body, length))
ForProgram(c, r) ==
  /\ IsCgi(r)
  /\ \E body, length :
       /\ Result(c, "CGI_READY", Headed(200, body, length))
       /\ FitsMethod(r, Headed(200, body, length))
       /\ r.method = "POST" => body = r.body
Silent == UNCHANGED <<eStatus, mResponse>>

LEMMA ThrowIsThrown ==
  ASSUME NEW c, NEW r, NEW code \in {301, 401, 403, 404, 405, 413, 500}, Throw(c, r, code)
  PROVE  Thrown(c, r)
<1>1. Result(c, "SEND_READY", createResponseStatusCode(code, location(r).mErrorPage))
  BY DEF Throw, Answer, Result
<1>2. QED
  BY <1>1 DEF Thrown

LEMMA AnswerIsDocument ==
  ASSUME NEW c, NEW r, NEW code \in {200, 201, 204}, NEW body,
         r.method # "HEAD" \/ URItype(r) = "DIRECTORY", code = 204 => body = Empty,
         Answer(c, "SEND_READY", Response(code, body))
  PROVE  Document(c, r)
<1>1. Result(c, "SEND_READY", Headed(code, body, body))
  BY DEF Answer, Result, Response
<1>2. FitsMethod(r, Headed(code, body, body))
  BY DEF FitsMethod, Headed
<1>3. QED
  BY <1>1, <1>2 DEF Document

LEMMA PreparedIsResponse ==
  ASSUME NEW r, r.method \in {"GET", "HEAD", "POST"}, URItype(r) # "DIRECTORY"
  PROVE  \E body, length :
           /\ Prepared(r) = Headed(200, body, length)
           /\ FitsMethod(r, Headed(200, body, length))
           /\ r.method = "POST" => body = r.body
<1>1. CASE r.method = "HEAD"
  <2>1. Prepared(r) = Headed(200, Empty, tree[r.path].content)
    BY <1>1 DEF Prepared, executeHead
  <2>2. FitsMethod(r, Headed(200, Empty, tree[r.path].content))
    BY <1>1 DEF FitsMethod, Headed
  <2>3. QED
    BY <1>1, <2>1, <2>2
<1>2. CASE r.method # "HEAD"
  <2>1. PICK body : /\ Prepared(r) = Headed(200, body, body)
                    /\ r.method = "POST" => body = r.body
    BY <1>2 DEF Prepared, createResponse200, Response
  <2>2. FitsMethod(r, Headed(200, body, body))
    BY <1>2 DEF FitsMethod, Headed
  <2>3. QED
    BY <2>1, <2>2
<1>3. QED
  BY <1>1, <1>2

LEMMA SolveResults ==
  ASSUME NEW c \in Conns, NEW r \in Requests, SolveStep(c, r)
  PROVE  /\ Solve(c, r)
         /\ Thrown(c, r) \/ (~IsCgi(r) /\ Document(c, r)) \/ ForProgram(c, r) \/ Silent
<1>1. CASE SolveObjection(c, r)
  <2>1. Objection(r) \in {301, 401, 403, 405, 413, 500}
    BY <1>1 DEF SolveObjection, Objection, Unauthorized
  <2>2. QED
    BY <1>1, <2>1, ThrowIsThrown DEF SolveObjection
<1>2. CASE SolvePut(c, r)
  <2>1. ~IsCgi(r)
    BY <1>2 DEF SolvePut, IsCgi
  <2>2. r.method = "PUT"
    BY <1>2 DEF SolvePut, URItype
  <2>3. ASSUME NEW code \in {200, 201, 204}, NEW body, code = 204 => body = Empty,
               Answer(c, "SEND_READY", Response(code, body))
        PROVE  Document(c, r)
    BY <2>2, <2>3, AnswerIsDocument
  <2>4. Document(c, r) \/ Silent
    <3>1. \/ Answer(c, "SEND_READY", Response(200, r.body))
          \/ Answer(c, "SEND_READY", Response(204, Empty))
          \/ Answer(c, "SEND_READY", Response(201, r.body))
          \/ Silent
      BY <1>2 DEF SolvePut, executePut, Silent
    <3>2. QED
      BY <2>3, <3>1
  <2>5. QED
    BY <1>2, <2>1, <2>4 DEF SolvePut
<1>3. CASE SolveDelete(c, r)
  <2>1. ~IsCgi(r)
    BY <1>3 DEF SolveDelete, IsCgi
  <2>2. r.method # "HEAD"
    BY <1>3 DEF SolveDelete
  <2>3. \/ Answer(c, "SEND_READY", Response(200, tree[r.path].content))
        \/ Answer(c, "SEND_READY", Response(204, Empty))
    BY <1>3 DEF SolveDelete, executeDelete, createResponse200
  <2>4. Document(c, r)
    <3>1. ASSUME NEW body, Answer(c, "SEND_READY", Response(200, body)) PROVE Document(c, r)
      BY <2>2, <3>1, AnswerIsDocument
    <3>2. CASE Answer(c, "SEND_READY", Response(204, Empty))
      BY <2>2, <3>2, AnswerIsDocument
    <3>3. QED
      BY <2>3, <3>1, <3>2
  <2>5. QED
    BY <1>3, <2>1, <2>4 DEF SolveDelete
<1>4. CASE SolveDirectory(c, r)
  <2>1. ~IsCgi(r)
    BY <1>4 DEF SolveDirectory, IsCgi
  <2>2. CASE Throw(c, r, 404)
    BY <1>4, <2>2, ThrowIsThrown DEF SolveDirectory
  <2>3. CASE \E body : Answer(c, "SEND_READY", Response(200, body))
    BY <1>4, <2>1, <2>3, AnswerIsDocument DEF SolveDirectory
  <2>4. Throw(c, r, 404) \/ \E body : Answer(c, "SEND_READY", Response(200, body))
    BY <1>4, Zenon DEF SolveDirectory, createResponse200, executeOptions
  <2>5. QED
    BY <2>2, <2>3, <2>4
<1>5. CASE SolveCgi(c, r)
  <2>1. CASE Answer(c, "CGI_READY", Prepared(r)) /\ r.method \in {"GET", "HEAD", "POST"}
    <3>1. IsCgi(r)
      BY <1>5, <2>1 DEF SolveCgi, IsCgi
    <3>2. PICK body, length :
            /\ Prepared(r) = Headed(200, body, length)
            /\ FitsMethod(r, Headed(200, body, length))
            /\ r.method = "POST" => body = r.body
      BY <1>5, <2>1, PreparedIsResponse DEF SolveCgi
    <3>3. Result(c, "CGI_READY", Headed(200, body, length))
      BY <2>1, <3>2 DEF Answer, Result
    <3>4. QED
      BY <1>5, <3>1, <3>2, <3>3 DEF SolveCgi, ForProgram
  <2>2. CASE r.method = "OPTIONS" /\ executeOptions(c)
    <3>1. ~IsCgi(r) /\ Document(c, r)
      BY <2>2, AnswerIsDocument DEF executeOptions, IsCgi
    <3>2. QED
      BY <1>5, <3>1 DEF SolveCgi
  <2>3. CASE Throw(c, r, 404) \/ Throw(c, r, 405)
    BY <1>5, <2>3, ThrowIsThrown DEF SolveCgi
  <2>4. QED
    BY <1>5, <2>1, <2>2, <2>3 DEF SolveCgi
<1>6. CASE SolveFile(c, r)
  <2>1. ~IsCgi(r)
    BY <1>6 DEF SolveFile, IsCgi
  <2>2. CASE Answer(c, "SEND_READY", Prepared(r)) /\ r.method \in {"GET", "HEAD", "POST"}
    <3>1. PICK body, length :
            /\ Prepared(r) = Headed(200, body, length)
            /\ FitsMethod(r, Headed(200, body, length))
      BY <1>6, <2>2, PreparedIsResponse DEF SolveFile
    <3>2. Result(c, "SEND_READY", Headed(200, body, length))
      BY <2>2, <3>1 DEF Answer, Result
    <3>3. Document(c, r)
      BY <3>1, <3>2 DEF Document
    <3>4. QED
      BY <1>6, <2>1, <3>3 DEF SolveFile
  <2>3. CASE r.method = "OPTIONS" /\ executeOptions(c)
    <3>1. Document(c, r)
      BY <2>3, AnswerIsDocument DEF executeOptions
    <3>2. QED
      BY <1>6, <2>1, <3>1 DEF SolveFile
  <2>4. CASE Throw(c, r, 404) \/ Throw(c, r, 405)
    BY <1>6, <2>4, ThrowIsThrown DEF SolveFile
  <2>5. CASE Silent
    BY <1>6, <2>5 DEF SolveFile
  <2>6. QED
    BY <1>6, <2>2, <2>3, <2>4, <2>5 DEF SolveFile, Silent
<1>7. QED
  BY <1>1, <1>2, <1>3, <1>4, <1>5, <1>6 DEF SolveStep

-----------------------------------------------------------------------------
(* The error page.  A page made in a CGI step is made with the mErrorPage  *)
(* of whoever was solved last, and it does no harm only because none of    *)
(* them is sent as a 404: until the output of its program has been read,   *)
(* the answer of a connection in a CGI step has status 200.                *)
PageFits(status, request, response, file) ==
  /\ status = "CGI_READY" => response.code = 200
  /\ status = "CGI_ING" /\ file # NoFile => response.code = 200
  /\ status = "SEND_READY" /\ response.code = 404 =>
       response = createResponseStatusCode(404, location(request).mErrorPage)
PageOK(c) == PageFits(eStatus[c], mRequest[c], mResponse[c], fromCGI[c])

PageInv == IInv /\ Shape /\ \A c \in Conns : PageOK(c)

LEMMA ResponseCode ==
  /\ \A code, body, length :
       /\ Headed(code, body, length).code = code /\ Headed(code, body, length).body = body
       /\ Response(code, body) = Headed(code, body, body)
  /\ \A code, errorPage : createResponseStatusCode(code, errorPage).code = code
  BY DEF Headed, Response, createResponseStatusCode

LEMMA FramePage ==
  ASSUME NEW c \in Conns, Frame(c), \A d \in Conns : PageOK(d), PageOK(c)'
  PROVE  \A d \in Conns : PageOK(d)'
<1> SUFFICES ASSUME NEW d \in Conns, d # c PROVE PageOK(d)'
  OBVIOUS
<1>1. PageOK(d)
  OBVIOUS
<1>2. /\ eStatus'[d] = eStatus[d] /\ mRequest'[d] = mRequest[d]
      /\ mResponse'[d] = mResponse[d] /\ fromCGI'[d] = fromCGI[d]
  BY DEF Frame
<1>3. QED
  BY <1>1, <1>2 DEF PageOK

LEMMA ResultHolds ==
  ASSUME ConnOK, Shape, NEW c \in Conns, NEW s, NEW response, Result(c, s, response)
  PROVE  eStatus'[c] = s /\ mResponse'[c] = response
  BY DEF ConnOK, Shape, Result

LEMMA SolveKeepsPage ==
  ASSUME PageInv, NEW c \in Conns, NEW r \in Requests, SolveStep(c, r)
  PROVE  Shape' /\ Frame(c) /\ PageOK(c)'
<1> USE DEF PageInv, IInv
<1>1. /\ Solve(c, r)
      /\ Thrown(c, r) \/ (~IsCgi(r) /\ Document(c, r)) \/ ForProgram(c, r) \/ Silent
  BY SolveResults
<1>2. Silent \/ \E s, response : Result(c, s, response)
  BY <1>1 DEF Thrown, Document, ForProgram
<1>3. Shape' /\ Frame(c) /\ mRequest'[c] = r /\ eStatus[c] = "REQUEST_READY"
  BY <1>1, <1>2, SolveFrame DEF Silent
<1>4. CASE Thrown(c, r)
  <2>1. PICK code \in {301, 401, 403, 404, 405, 413, 500} :
          Result(c, "SEND_READY", createResponseStatusCode(code, location(r).mErrorPage))
    BY <1>4 DEF Thrown
  <2>2. /\ eStatus'[c] = "SEND_READY"
        /\ mResponse'[c] = createResponseStatusCode(code, location(r).mErrorPage)
    BY <2>1, ResultHolds
  <2>3. mResponse'[c].code = code
    BY <2>2, ResponseCode
  <2>4. mResponse'[c].code = 404 =>
          mResponse'[c] = createResponseStatusCode(404, location(r).mErrorPage)
    BY <2>2, <2>3
  <2>5. QED
    BY <1>3, <2>2, <2>4 DEF PageOK, PageFits
<1>5. CASE Document(c, r)
  <2>1. PICK code \in {200, 201, 204} : \E body, length :
          Result(c, "SEND_READY", Headed(code, body, length))
    BY <1>5 DEF Document
  <2>2. eStatus'[c] = "SEND_READY" /\ mResponse'[c].code # 404
    BY <2>1, ResultHolds, ResponseCode
  <2>3. QED
    BY <1>3, <2>2 DEF PageOK, PageFits
<1>6. CASE ForProgram(c, r)
  <2>1. PICK body, length : Result(c, "CGI_READY", Headed(200, body, length))
    BY <1>6 DEF ForProgram
  <2>2. eStatus'[c] = "CGI_READY" /\ mResponse'[c].code = 200
    BY <2>1, ResultHolds, ResponseCode
  <2>3. QED
    BY <1>3, <2>2 DEF PageOK, PageFits
<1>7. CASE Silent
  BY <1>3, <1>7 DEF Silent, PageOK, PageFits
<1>8. QED
  BY <1>1, <1>3, <1>4, <1>5, <1>6, <1>7

LEMMA CgiKeepsPage ==
  ASSUME PageInv, NEW c \in Conns, CgiStep(c)
  PROVE  Shape' /\ Frame(c) /\ PageOK(c)'
<1> USE DEF PageInv, IInv
<1> DEFINE Done(code) ==
      \E file : /\ Execute(c, "SEND_READY", createResponseStatusCode(code, mErrorPage))
                /\ fromCGI' = [fromCGI EXCEPT ![c] = file]
<1>1. ASSUME NEW code, code # 404, Done(code) PROVE Shape' /\ Frame(c) /\ PageOK(c)'
  <2>1. PICK file : /\ Execute(c, "SEND_READY", createResponseStatusCode(code, mErrorPage))
                    /\ fromCGI' = [fromCGI EXCEPT ![c] = file]
    BY <1>1
  <2> HIDE DEF Done
  <2>2. /\ Shape' /\ Frame(c) /\ eStatus'[c] = "SEND_READY"
        /\ mResponse'[c] = createResponseStatusCode(code, mErrorPage)
    BY <2>1, ExecuteFrame
  <2>3. mResponse'[c].code # 404
    BY <1>1, <2>2, ResponseCode
  <2>4. QED
    BY <2>2, <2>3 DEF PageOK, PageFits
<1>2. CASE CgiNothing(c)
  <2>1. Done(205)
    BY <1>2 DEF CgiNothing
  <2> HIDE DEF Done
  <2>2. QED
    BY <1>1, <2>1
<1>3. CASE CgiRefuse(c) \/ CgiMalformed(c) \/ CgiFail(c)
  <2>1. Done(500)
    BY <1>3 DEF CgiRefuse, CgiMalformed, CgiFail, CgiRead
  <2> HIDE DEF Done
  <2>2. QED
    BY <1>1, <2>1
<1>4. CASE CgiRun(c)
  <2>1. /\ Shape' /\ Frame(c) /\ eStatus'[c] = "CGI_ING"
        /\ mResponse'[c] = mResponse[c]
    BY <1>4, RunFrame
  <2>2. mResponse[c].code = 200
    BY <1>4 DEF CgiRun, PageOK, PageFits
  <2>3. QED
    BY <2>1, <2>2 DEF PageOK, PageFits
<1>5. CASE CgiAnswer(c)
  <2>1. /\ Shape' /\ Frame(c) /\ eStatus'[c] = "SEND_READY"
        /\ mResponse'[c] = Response(mResponse[c].code, fromCGI[c])
    BY <1>5, AnswerFrame
  <2>2. mResponse[c].code = 200
    BY <1>5 DEF CgiAnswer, CgiRead, PageOK, PageFits
  <2>3. mResponse'[c].code # 404
    BY <2>1, <2>2, ResponseCode
  <2>4. QED
    BY <2>1, <2>3 DEF PageOK, PageFits
<1>6. CASE CgiStatus(c)
  <2>1. PICK code : Execute(c, "CGI_ING", createResponseStatusCode(code, mErrorPage))
    BY <1>6 DEF CgiStatus
  <2>2. Shape' /\ Frame(c) /\ eStatus'[c] = "CGI_ING" /\ fromCGI'[c] = NoFile
    <3>1. fromCGI' = [fromCGI EXCEPT ![c] = NoFile]
      BY <1>6 DEF CgiStatus, CgiRead
    <3>2. QED
      BY <2>1, <3>1, ExecuteFrame
  <2>3. QED
    BY <2>2 DEF PageOK, PageFits
<1>7. QED
  BY <1>2, <1>3, <1>4, <1>5, <1>6 DEF CgiStep

LEMMA PageInvHolds == Spec => []PageInv
<1>1. Init => PageInv
  <2> SUFFICES ASSUME Init PROVE PageInv
    OBVIOUS
  <2>1. IInv
    BY InitHolds
  <2>2. Shape /\ \A c \in Conns : PageOK(c)
    BY DEF Init, Shape, PageOK, PageFits, NoResponse
  <2>3. QED
    BY <2>1, <2>2 DEF PageInv
<1>2. PageInv /\ [Next]_vars => PageInv'
  <2> SUFFICES ASSUME PageInv, [Next]_vars PROVE PageInv'
    OBVIOUS
  <2>1. IInv'
    BY NextKeepsIInv DEF PageInv
  <2>2. ASSUME NEW c \in Conns, Shape', Frame(c), PageOK(c)' PROVE PageInv'
    BY <2>1, <2>2, FramePage DEF PageInv
  <2>3. ASSUME NEW c \in Conns, NEW r \in Requests, SolveStep(c, r) PROVE PageInv'
    BY <2>2, <2>3, SolveKeepsPage
  <2>4. ASSUME NEW c \in Conns, CgiStep(c) PROVE PageInv'
    BY <2>2, <2>4, CgiKeepsPage
  <2>5. ASSUME NEW c \in Conns, Send(c) \/ closeConnection(c) PROVE PageInv'
    <3>1. Shape' /\ Frame(c) /\ eStatus'[c] = "REQUEST_READY"
      BY <2>5, DoneFrame DEF PageInv, IInv
    <3>2. PageOK(c)'
      BY <3>1 DEF PageOK, PageFits
    <3>3. QED
      BY <2>2, <3>1, <3>2
  <2>6. CASE UNCHANGED vars
    <3>1. Shape' /\ \A c \in Conns : PageOK(c)'
      BY <2>6 DEF PageInv, Shape, PageOK, vars, connVars
    <3>2. QED
      BY <2>1, <3>1 DEF PageInv
  <2>7. QED
    BY <2>3, <2>4, <2>5, <2>6 DEF Next
<1>3. QED
  BY <1>1, <1>2, PTL DEF Spec

(* A 404 carries the error page of the location of its own request, for    *)
(* any number of connections and locations of the server.                  *)
THEOREM ErrorPageIsOwnCorrect == Spec => []ErrorPageIsOwn
<1>1. PageInv => ErrorPageIsOwn
  BY DEF PageInv, PageOK, PageFits, ErrorPageIsOwn
<1>2. QED
  BY <1>1, PageInvHolds, PTL

-----------------------------------------------------------------------------
(* The framing of the answers.  The output of a program replaces a body    *)
(* whose length has been stated; a HEAD never gets that far, because its   *)
(* prepared response has no body and a program with nothing to read is not *)
(* run.                                                                    *)
FramedFits(status, request, response) ==
  /\ status = "CGI_READY" /\ request.method = "HEAD" => response.body = Empty
  /\ status = "CGI_ING" => request.method # "HEAD"
  /\ status = "SEND_READY" /\ response.code < 300 => FitsMethod(request, response)
FramedOK(c) == FramedFits(eStatus[c], mRequest[c], mResponse[c])
FramedInv == \A c \in Conns : FramedOK(c)

LEMMA FrameFramed ==
  ASSUME NEW c \in Conns, Frame(c), FramedInv, FramedOK(c)'
  PROVE  FramedInv'
<1> SUFFICES ASSUME NEW d \in Conns, d # c PROVE FramedOK(d)'
  BY DEF FramedInv
<1>1. FramedOK(d)
  BY DEF FramedInv
<1>2. /\ eStatus'[d] = eStatus[d] /\ mRequest'[d] = mRequest[d]
      /\ mResponse'[d] = mResponse[d]
  BY DEF Frame
<1>3. QED
  BY <1>1, <1>2 DEF FramedOK

LEMMA SolveKeepsFramed ==
  ASSUME PageInv, NEW c \in Conns, NEW r \in Requests, SolveStep(c, r)
  PROVE  Frame(c) /\ FramedOK(c)'
<1> USE DEF PageInv, IInv
<1>1. /\ Solve(c, r)
      /\ Thrown(c, r) \/ (~IsCgi(r) /\ Document(c, r)) \/ ForProgram(c, r) \/ Silent
  BY SolveResults
<1>2. Silent \/ \E s, response : Result(c, s, response)
  BY <1>1 DEF Thrown, Document, ForProgram
<1>3. Frame(c) /\ mRequest'[c] = r /\ eStatus[c] = "REQUEST_READY"
  BY <1>1, <1>2, SolveFrame DEF Silent
<1>4. CASE Thrown(c, r)
  <2>1. PICK code \in {301, 401, 403, 404, 405, 413, 500} :
          Result(c, "SEND_READY", createResponseStatusCode(code, location(r).mErrorPage))
    BY <1>4 DEF Thrown
  <2>2. eStatus'[c] = "SEND_READY" /\ mResponse'[c].code = code
    BY <2>1, ResultHolds, ResponseCode
  <2>3. QED
    BY <1>3, <2>2 DEF FramedOK, FramedFits
<1>5. CASE Document(c, r)
  <2>1. PICK code \in {200, 201, 204} : \E body, length :
          /\ Result(c, "SEND_READY", Headed(code, body, length))
          /\ FitsMethod(r, Headed(code, body, length))
    BY <1>5 DEF Document
  <2>2. eStatus'[c] = "SEND_READY" /\ FitsMethod(r, mResponse'[c])
    BY <2>1, ResultHolds
  <2>3. QED
    BY <1>3, <2>2 DEF FramedOK, FramedFits
<1>6. CASE ForProgram(c, r)
  <2>1. PICK body, length :
          /\ Result(c, "CGI_READY", Headed(200, body, length))
          /\ FitsMethod(r, Headed(200, body, length))
    BY <1>6 DEF ForProgram
  <2>2. eStatus'[c] = "CGI_READY" /\ FitsMethod(r, mResponse'[c])
    BY <2>1, ResultHolds
  <2>3. URItype(r) # "DIRECTORY"
    BY <1>6 DEF ForProgram, IsCgi
  <2>4. QED
    BY <1>3, <2>2, <2>3 DEF FramedOK, FramedFits, FitsMethod
<1>7. CASE Silent
  BY <1>3, <1>7 DEF Silent, FramedOK, FramedFits
<1>8. QED
  BY <1>1, <1>3, <1>4, <1>5, <1>6, <1>7

LEMMA CgiKeepsFramed ==
  ASSUME PageInv, FramedInv, NEW c \in Conns, CgiStep(c)
  PROVE  Frame(c) /\ FramedOK(c)'
<1> USE DEF PageInv, IInv
<1>1. FramedOK(c)
  BY DEF FramedInv
<1>2. ConnOK /\ Shape
  BY DEF PageInv, IInv
<1>3. CASE CgiNothing(c)
  <2>1. createResponseStatusCode(205, mErrorPage) = Headed(205, Empty, Empty)
    BY DEF createResponseStatusCode, Response
  <2>2. FitsMethod(mRequest'[c], Headed(205, Empty, Empty))
    BY DEF FitsMethod, Headed
  <2>3. /\ Execute(c, "SEND_READY", createResponseStatusCode(205, mErrorPage))
        /\ fromCGI' = [fromCGI EXCEPT ![c] = Empty]
    BY <1>3 DEF CgiNothing
  <2>4. /\ Frame(c) /\ eStatus'[c] = "SEND_READY"
        /\ mResponse'[c] = createResponseStatusCode(205, mErrorPage)
    BY <1>2, <2>3 DEF ConnOK, Shape, Execute, Frame
  <2>5. FitsMethod(mRequest'[c], mResponse'[c])
    BY <2>1, <2>2, <2>4
  <2>6. QED
    BY <2>4, <2>5 DEF FramedOK, FramedFits
<1>4. CASE CgiRefuse(c) \/ CgiMalformed(c) \/ CgiFail(c)
  <2>1. PICK file : /\ Execute(c, "SEND_READY", createResponseStatusCode(500, mErrorPage))
                    /\ fromCGI' = [fromCGI EXCEPT ![c] = file]
    BY <1>4 DEF CgiRefuse, CgiMalformed, CgiFail, CgiRead
  <2>2. /\ Frame(c) /\ eStatus'[c] = "SEND_READY"
        /\ mResponse'[c] = createResponseStatusCode(500, mErrorPage)
    BY <1>2, <2>1 DEF ConnOK, Shape, Execute, Frame
  <2>3. mResponse'[c].code = 500
    BY <2>2, ResponseCode
  <2>4. QED
    BY <2>2, <2>3 DEF FramedOK, FramedFits
<1>5. CASE CgiRun(c)
  <2>1. mRequest[c].method # "HEAD"
    BY <1>1, <1>5 DEF CgiRun, FramedOK, FramedFits
  <2>2. Frame(c) /\ eStatus'[c] = "CGI_ING" /\ mRequest'[c] = mRequest[c]
    BY <1>5, RunFrame
  <2>3. QED
    BY <2>1, <2>2 DEF FramedOK, FramedFits
<1>6. CASE CgiAnswer(c)
  <2>1. /\ Frame(c) /\ eStatus'[c] = "SEND_READY" /\ mRequest'[c] = mRequest[c]
        /\ mResponse'[c] = Response(mResponse[c].code, fromCGI[c])
    BY <1>6, AnswerFrame
  <2>2. mResponse[c].code = 200 /\ mRequest[c].method # "HEAD"
    BY <1>1, <1>6 DEF CgiAnswer, CgiRead, PageOK, PageFits, FramedOK, FramedFits
  <2>3. mResponse'[c] = Headed(200, fromCGI[c], fromCGI[c])
    BY <2>1, <2>2, ResponseCode
  <2>4. FitsMethod(mRequest'[c], mResponse'[c])
    BY <2>1, <2>2, <2>3 DEF FitsMethod, Headed
  <2>5. QED
    BY <2>1, <2>4 DEF FramedOK, FramedFits
<1>7. CASE CgiStatus(c)
  <2>1. PICK code : Execute(c, "CGI_ING", createResponseStatusCode(code, mErrorPage))
    BY <1>7 DEF CgiStatus
  <2>2. Frame(c) /\ eStatus'[c] = "CGI_ING" /\ mRequest'[c] = mRequest[c]
    <3>1. fromCGI' = [fromCGI EXCEPT ![c] = NoFile]
      BY <1>7 DEF CgiStatus, CgiRead
    <3>2. QED
      BY <2>1, <3>1, ExecuteFrame
  <2>3. mRequest[c].method # "HEAD"
    BY <1>1, <1>7 DEF CgiStatus, CgiRead, FramedOK, FramedFits
  <2>4. QED
    BY <2>2, <2>3 DEF FramedOK, FramedFits
<1>8. QED
  BY <1>3, <1>4, <1>5, <1>6, <1>7 DEF CgiStep

(* A client that is kept finds the next answer where this one ends: the    *)
(* length that is stated is the length of what is sent, for any number of  *)
(* connections, programs and requests.                                     *)
THEOREM FramedCorrect == Spec => []Framed
<1>1. Init => FramedInv
  BY DEF Init, FramedInv, FramedOK, FramedFits
<1>2. PageInv /\ FramedInv /\ [Next]_vars => FramedInv'
  <2> SUFFICES ASSUME PageInv, FramedInv, [Next]_vars PROVE FramedInv'
    OBVIOUS
  <2>1. ASSUME NEW c \in Conns, NEW r \in Requests, SolveStep(c, r) PROVE FramedInv'
    BY <2>1, SolveKeepsFramed, FrameFramed
  <2>2. ASSUME NEW c \in Conns, CgiStep(c) PROVE FramedInv'
    BY <2>2, CgiKeepsFramed, FrameFramed
  <2>3. ASSUME NEW c \in Conns, Send(c) \/ closeConnection(c) PROVE FramedInv'
    <3>1. Frame(c) /\ eStatus'[c] = "REQUEST_READY"
      BY <2>3, DoneFrame DEF PageInv, IInv
    <3>2. FramedOK(c)'
      BY <3>1 DEF FramedOK, FramedFits
    <3>3. QED
      BY <3>1, <3>2, FrameFramed
  <2>4. CASE UNCHANGED vars
    BY <2>4 DEF FramedInv, FramedOK, vars, connVars
  <2>5. QED
    BY <2>1, <2>2, <2>3, <2>4 DEF Next
<1>3. FramedInv => Framed
  BY DEF FramedInv, FramedOK, FramedFits, Framed
<1>4. QED
  BY <1>1, <1>2, <1>3, PageInvHolds, PTL DEF Spec

-----------------------------------------------------------------------------
(* The output of a program.  While a connection is in a CGI step its       *)
(* program is the one of the path of its request, what the program reads   *)
(* is of the body of a POST, and what is in fromCGI once it has run is its *)
(* own, or nothing.  The program is that of the path only if the path has one: a CGI   *)
(* extension without a program leaves the connection the program of an     *)
(* earlier request.                                                        *)
CgiHasProgram == \A p \in CgiName : ProgramOf[p] # NoProgram

Own(request, content) ==
  \/ content = Empty
  \/ /\ content[1] = "output" /\ content[2] = ProgramOf[request.path]
     /\ content[3] = request.path
     /\ request.method = "POST" => content[4] \in Written(request.body) \ {Empty}
OwnFits(status, request, response, program, file) ==
  /\ status \in {"CGI_READY", "CGI_ING"} =>
       program = ProgramOf[request.path] /\ program # NoProgram
  /\ status = "CGI_READY" /\ request.method = "POST" => response.body = request.body
  /\ status = "CGI_ING" /\ file # NoFile => Own(request, file)
  /\ status = "SEND_READY" /\ IsCgi(request) /\ response.code = 200 =>
       Own(request, response.body)
OwnOK(c) == OwnFits(eStatus[c], mRequest[c], mResponse[c], mCgiProgramPath[c], fromCGI[c])

OwnInv == IInv /\ Shape /\ \A c \in Conns : OwnOK(c)

LEMMA OutputIsOwn ==
  ASSUME NEW request, NEW input, NEW form,
         request.method = "POST" => input \in Written(request.body) \ {Empty}
  PROVE  Own(request, output(ProgramOf[request.path], request.path, input, form))
  BY DEF Own, output

LEMMA FrameOwn ==
  ASSUME NEW c \in Conns, Frame(c), \A d \in Conns : OwnOK(d), OwnOK(c)'
  PROVE  \A d \in Conns : OwnOK(d)'
<1> SUFFICES ASSUME NEW d \in Conns, d # c PROVE OwnOK(d)'
  OBVIOUS
<1>1. OwnOK(d)
  OBVIOUS
<1>2. /\ eStatus'[d] = eStatus[d] /\ mRequest'[d] = mRequest[d]
      /\ mResponse'[d] = mResponse[d] /\ mCgiProgramPath'[d] = mCgiProgramPath[d]
      /\ fromCGI'[d] = fromCGI[d]
  BY DEF Frame
<1>3. QED
  BY <1>1, <1>2 DEF OwnOK

LEMMA SolveKeepsOwn ==
  ASSUME CgiHasProgram, OwnInv, NEW c \in Conns, NEW r \in Requests, SolveStep(c, r)
  PROVE  Shape' /\ Frame(c) /\ OwnOK(c)'
<1> USE DEF OwnInv, IInv
<1>1. /\ Solve(c, r)
      /\ Thrown(c, r) \/ (~IsCgi(r) /\ Document(c, r)) \/ ForProgram(c, r) \/ Silent
  BY SolveResults
<1>2. Silent \/ \E s, response : Result(c, s, response)
  BY <1>1 DEF Thrown, Document, ForProgram
<1>3. Shape' /\ Frame(c) /\ mRequest'[c] = r /\ eStatus[c] = "REQUEST_READY"
  BY <1>1, <1>2, SolveFrame DEF Silent
<1>4. CASE Thrown(c, r)
  <2>1. PICK code \in {301, 401, 403, 404, 405, 413, 500} :
          Result(c, "SEND_READY", createResponseStatusCode(code, location(r).mErrorPage))
    BY <1>4 DEF Thrown
  <2>2. eStatus'[c] = "SEND_READY" /\ mResponse'[c].code # 200
    BY <2>1, ResultHolds, ResponseCode
  <2>3. QED
    BY <1>3, <2>2 DEF OwnOK, OwnFits
<1>5. CASE ~IsCgi(r) /\ Document(c, r)
  <2>1. PICK code, body, length : Result(c, "SEND_READY", Headed(code, body, length))
    BY <1>5 DEF Document
  <2>2. eStatus'[c] = "SEND_READY"
    BY <2>1, ResultHolds
  <2>3. QED
    BY <1>3, <1>5, <2>2 DEF OwnOK, OwnFits
<1>6. CASE ForProgram(c, r)
  <2>1. PICK body, length : /\ Result(c, "CGI_READY", Headed(200, body, length))
                            /\ r.method = "POST" => body = r.body
    BY <1>6 DEF ForProgram
  <2>2. eStatus'[c] = "CGI_READY" /\ mResponse'[c] = Headed(200, body, length)
    BY <2>1, ResultHolds
  <2>3. r.method = "POST" => mResponse'[c].body = r.body
    BY <2>1, <2>2, ResponseCode
  <2>4. ~r.slash /\ ProgramOf[r.path] # NoProgram
    BY <1>6 DEF ForProgram, IsCgi, URItype, CgiHasProgram
  <2>5. mCgiProgramPath'[c] = ProgramOf[r.path]
    BY <1>1, <2>4 DEF Solve, ConnOK
  <2>6. QED
    BY <1>3, <2>2, <2>3, <2>4, <2>5 DEF OwnOK, OwnFits
<1>7. CASE Silent
  BY <1>3, <1>7 DEF Silent, OwnOK, OwnFits
<1>8. QED
  BY <1>1, <1>3, <1>4, <1>5, <1>6, <1>7

LEMMA CgiKeepsOwn ==
  ASSUME OwnInv, NEW c \in Conns, CgiStep(c)
  PROVE  Shape' /\ Frame(c) /\ OwnOK(c)'
<1> USE DEF OwnInv, IInv
<1> DEFINE Done(code) ==
      \E file : /\ Execute(c, "SEND_READY", createResponseStatusCode(code, mErrorPage))
                /\ fromCGI' = [fromCGI EXCEPT ![c] = file]
<1>1. ASSUME NEW code, code # 200, Done(code) PROVE Shape' /\ Frame(c) /\ OwnOK(c)'
  <2>1. PICK file : /\ Execute(c, "SEND_READY", createResponseStatusCode(code, mErrorPage))
                    /\ fromCGI' = [fromCGI EXCEPT ![c] = file]
    BY <1>1
  <2> HIDE DEF Done
  <2>2. /\ Shape' /\ Frame(c) /\ eStatus'[c] = "SEND_READY"
        /\ mResponse'[c] = createResponseStatusCode(code, mErrorPage)
    BY <2>1, ExecuteFrame
  <2>3. mResponse'[c].code # 200
    BY <1>1, <2>2, ResponseCode
  <2>4. QED
    BY <2>2, <2>3 DEF OwnOK, OwnFits
<1>2. CASE CgiNothing(c)
  <2>1. Done(205)
    BY <1>2 DEF CgiNothing
  <2> HIDE DEF Done
  <2>2. QED
    BY <1>1, <2>1
<1>3. CASE CgiRefuse(c) \/ CgiMalformed(c) \/ CgiFail(c)
  <2>1. Done(500)
    BY <1>3 DEF CgiRefuse, CgiMalformed, CgiFail, CgiRead
  <2> HIDE DEF Done
  <2>2. QED
    BY <1>1, <2>1
<1>4. CASE CgiRun(c)
  <2>1. /\ mCgiProgramPath[c] = ProgramOf[mRequest[c].path] /\ mCgiProgramPath[c] # NoProgram
        /\ mRequest[c].method = "POST" => mResponse[c].body = mRequest[c].body
    BY <1>4 DEF CgiRun, OwnOK, OwnFits
  <2>2. PICK file \in {Empty} \cup Outputs(c) : fromCGI' = [fromCGI EXCEPT ![c] = file]
    BY <1>4, <2>1 DEF CgiRun
  <2>3. /\ Shape' /\ Frame(c) /\ eStatus'[c] = "CGI_ING"
        /\ mRequest'[c] = mRequest[c] /\ mCgiProgramPath'[c] = mCgiProgramPath[c]
        /\ fromCGI'[c] = file
    BY <1>4, <2>2, RunFrame DEF Shape
  <2>4. Own(mRequest[c], file)
    <3>1. CASE file = Empty
      BY <3>1 DEF Own
    <3>2. CASE file \in Outputs(c)
      <4>1. PICK input \in Written(mResponse[c].body) \ {Empty}, form \in Forms \cup {"document"} :
              file = output(mCgiProgramPath[c], mRequest[c].path, input, form)
        BY <3>2 DEF Outputs
      <4>2. mRequest[c].method = "POST" => input \in Written(mRequest[c].body) \ {Empty}
        BY <2>1, <4>1
      <4>3. QED
        BY <2>1, <4>1, <4>2, OutputIsOwn
    <3>3. QED
      BY <2>2, <3>1, <3>2
  <2>5. QED
    BY <2>1, <2>3, <2>4 DEF OwnOK, OwnFits
<1>5. CASE CgiAnswer(c)
  <2>1. /\ Shape' /\ Frame(c) /\ eStatus'[c] = "SEND_READY" /\ mRequest'[c] = mRequest[c]
        /\ mResponse'[c] = Response(mResponse[c].code, fromCGI[c])
    BY <1>5, AnswerFrame
  <2>2. Own(mRequest[c], fromCGI[c])
    BY <1>5 DEF CgiAnswer, CgiRead, OwnOK, OwnFits
  <2>3. mResponse'[c].body = fromCGI[c]
    BY <2>1, ResponseCode
  <2>4. QED
    BY <2>1, <2>2, <2>3 DEF OwnOK, OwnFits
<1>6. CASE CgiStatus(c)
  <2>1. PICK code : Execute(c, "CGI_ING", createResponseStatusCode(code, mErrorPage))
    BY <1>6 DEF CgiStatus
  <2>2. /\ Shape' /\ Frame(c) /\ eStatus'[c] = "CGI_ING" /\ fromCGI'[c] = NoFile
        /\ mRequest'[c] = mRequest[c] /\ mCgiProgramPath'[c] = mCgiProgramPath[c]
    <3>1. fromCGI' = [fromCGI EXCEPT ![c] = NoFile]
      BY <1>6 DEF CgiStatus, CgiRead
    <3>2. QED
      BY <2>1, <3>1, ExecuteFrame
  <2>3. mCgiProgramPath[c] = ProgramOf[mRequest[c].path] /\ mCgiProgramPath[c] # NoProgram
    BY <1>6 DEF CgiStatus, CgiRead, OwnOK, OwnFits
  <2>4. QED
    BY <2>2, <2>3 DEF OwnOK, OwnFits
<1>7. QED
  BY <1>2, <1>3, <1>4, <1>5, <1>6 DEF CgiStep

(* An answer made by a CGI program was made by the program of its path,    *)
(* for its path and from its body, however the steps of the connections    *)
(* interleave and whatever is left in the fromCGI files, if every CGI      *)
(* extension has a program.                                                *)
THEOREM CgiAnswerIsOwnCorrect ==
  ASSUME CgiHasProgram
  PROVE  Spec => []CgiAnswerIsOwn
<1>1. Init => OwnInv
  <2> SUFFICES ASSUME Init PROVE OwnInv
    OBVIOUS
  <2>1. IInv
    BY InitHolds
  <2>2. Shape /\ \A c \in Conns : OwnOK(c)
    BY DEF Init, Shape, OwnOK, OwnFits
  <2>3. QED
    BY <2>1, <2>2 DEF OwnInv
<1>2. OwnInv /\ [Next]_vars => OwnInv'
  <2> SUFFICES ASSUME OwnInv, [Next]_vars PROVE OwnInv'
    OBVIOUS
  <2>1. IInv'
    BY NextKeepsIInv DEF OwnInv
  <2>2. ASSUME NEW c \in Conns, Shape', Frame(c), OwnOK(c)' PROVE OwnInv'
    BY <2>1, <2>2, FrameOwn DEF OwnInv
  <2>3. ASSUME NEW c \in Conns, NEW r \in Requests, SolveStep(c, r) PROVE OwnInv'
    BY <2>2, <2>3, SolveKeepsOwn
  <2>4. ASSUME NEW c \in Conns, CgiStep(c) PROVE OwnInv'
    BY <2>2, <2>4, CgiKeepsOwn
  <2>5. ASSUME NEW c \in Conns, Send(c) \/ closeConnection(c) PROVE OwnInv'
    <3>1. Shape' /\ Frame(c) /\ eStatus'[c] = "REQUEST_READY"
      BY <2>5, DoneFrame DEF OwnInv, IInv
    <3>2. OwnOK(c)'
      BY <3>1 DEF OwnOK, OwnFits
    <3>3. QED
      BY <2>2, <3>1, <3>2
  <2>6. CASE UNCHANGED vars
    <3>1. Shape' /\ \A c \in Conns : OwnOK(c)'
      BY <2>6 DEF OwnInv, Shape, OwnOK, vars, connVars
    <3>2. QED
      BY <2>1, <3>1 DEF OwnInv
  <2>7. QED
    BY <2>3, <2>4, <2>5, <2>6 DEF Next
<1>3. OwnInv => CgiAnswerIsOwn
  BY DEF OwnInv, OwnOK, OwnFits, Own, CgiAnswerIsOwn, OwnOutput
<1>4. QED
  BY <1>1, <1>2, <1>3, PTL DEF Spec

-----------------------------------------------------------------------------
(* What is stored.  The answer of a PUT or a DELETE goes on saying what    *)
(* the tree holds because a step that changes the tree ends the freshness  *)
(* of every answer about the same path, and because directories stay: a    *)
(* file that has been created is still one that could be.                  *)
StoredOK(c) ==
  LET r == mRequest[c]
  IN  /\ eStatus[c] \in {"CGI_READY", "CGI_ING"} => r.method \notin {"PUT", "DELETE"}
      /\ eStatus[c] = "SEND_READY" /\ fresh[c] =>
           /\ r.method = "PUT" /\ mResponse[c].code \in {200, 201} =>
                PutKept(c, r, mResponse[c].code)
           /\ r.method = "DELETE" /\ mResponse[c].code = 200 => DeleteKept(c, r, mResponse[c])

StoredInv == IInv /\ Shape /\ \A c \in Conns : StoredOK(c)

(* A step that touches r.path leaves the directories, leaves fresh only    *)
(* the answers about other paths, and what has failed for them.            *)
TreeFrame(c) ==
  /\ \A p \in Paths : tree[p].kind = "dir" => tree'[p].kind = "dir"
  /\ \A d \in Conns : d # c =>
       /\ failed'[d] = failed[d]
       /\ fresh'[d] /\ mRequest[d] # NoRequest =>
            fresh[d] /\ tree'[mRequest[d].path] = tree[mRequest[d].path]

LEMMA LookFrame ==
  ASSUME IInv, NEW c \in Conns, Look(c) \/ UNCHANGED <<tree, fresh, failed>>
  PROVE  TreeFrame(c)
  BY DEF IInv, ConnOK, Look, TreeFrame

LEMMA TouchFrame ==
  ASSUME IInv, NEW c \in Conns, NEW r \in Requests, NEW failure, Touch(c, r, failure),
         \/ tree' = tree
         \/ tree[r.path].kind # "dir" /\ \E content : tree' = [tree EXCEPT ![r.path] = content]
  PROVE  TreeFrame(c)
<1>1. \A p \in Paths : tree'[p] = tree[p] \/ (p = r.path /\ tree[p].kind # "dir")
  BY DEF IInv, TreeOK
<1>2. \A p \in Paths : tree[p].kind = "dir" => tree'[p].kind = "dir"
  BY <1>1
<1>3. \A d \in Conns : d # c => failed'[d] = failed[d]
  BY DEF Touch, IInv, ConnOK
<1>4. ASSUME NEW d \in Conns, d # c, fresh'[d], mRequest[d] # NoRequest
      PROVE  fresh[d] /\ tree'[mRequest[d].path] = tree[mRequest[d].path]
  <2>1. fresh[d] /\ mRequest[d].path # r.path
    BY <1>4, Zenon DEF Touch
  <2>2. mRequest[d].path \in Paths
    BY <1>4, PathsAssumption DEF IInv, ConnOK
  <2>3. QED
    BY <1>1, <2>1, <2>2
<1>5. QED
  BY <1>2, <1>3, <1>4 DEF TreeFrame

LEMMA SolveTreeFrame ==
  ASSUME IInv, NEW c \in Conns, NEW r \in Requests, SolveStep(c, r)
  PROVE  TreeFrame(c)
<1>1. CASE Look(c) \/ UNCHANGED <<tree, fresh, failed>>
  BY <1>1, LookFrame
<1>2. ASSUME NEW failure, Touch(c, r, failure), tree' = tree PROVE TreeFrame(c)
  BY <1>2, TouchFrame
<1>3. CASE SolvePut(c, r)
  <2>1. ASSUME Store(c, r), Stat(r.path, r.slash) \in {"file", "absent"} PROVE TreeFrame(c)
    <3>1. tree[r.path].kind # "dir"
      BY <2>1, StatIsKind
    <3>2. PICK content : /\ tree' = [tree EXCEPT ![r.path] = File(content)]
                         /\ Touch(c, r, content # r.body)
      BY <2>1 DEF Store
    <3>3. QED
      BY <3>1, <3>2, TouchFrame
  <2>2. QED
    BY <1>1, <1>2, <1>3, <2>1 DEF SolvePut, executePut
<1>4. CASE SolveDelete(c, r)
  <2>1. ASSUME Touch(c, r, FALSE), tree' = [tree EXCEPT ![r.path] = Absent],
               Stat(r.path, r.slash) = "file"
        PROVE  TreeFrame(c)
    <3>1. tree[r.path].kind # "dir"
      BY <2>1, StatIsKind
    <3>2. QED
      BY <2>1, <3>1, TouchFrame
  <2>2. QED
    BY <1>1, <1>2, <1>4, <2>1 DEF SolveDelete, executeDelete
<1>5. CASE SolveObjection(c, r)
  BY <1>1, <1>5 DEF SolveObjection, Throw
<1>6. CASE SolveDirectory(c, r)
  BY <1>1, <1>6 DEF SolveDirectory, Throw, executeOptions
<1>7. CASE SolveCgi(c, r)
  BY <1>1, <1>7 DEF SolveCgi, Throw, executeOptions
<1>8. CASE SolveFile(c, r)
  BY <1>1, <1>8 DEF SolveFile, Throw, executeOptions
<1>9. QED
  BY <1>3, <1>4, <1>5, <1>6, <1>7, <1>8 DEF SolveStep

(* The other steps leave the tree and make nothing fresh.                  *)
LEMMA RestTreeFrame ==
  ASSUME IInv, NEW c \in Conns, CgiStep(c) \/ Send(c) \/ closeConnection(c)
  PROVE  TreeFrame(c)
<1>1. tree' = tree
  BY RestKeepsTree
<1>2. \/ UNCHANGED <<fresh, failed>>
      \/ /\ fresh' = [fresh EXCEPT ![c] = FALSE]
         /\ failed' = [failed EXCEPT ![c] = FALSE]
  BY DEF CgiStep, CgiNothing, CgiRefuse, CgiRun, CgiAnswer, CgiStatus, CgiMalformed,
         CgiFail, Execute, Send, closeConnection
<1>3. \A d \in Conns : d # c => fresh'[d] = fresh[d] /\ failed'[d] = failed[d]
  BY <1>2 DEF IInv, ConnOK
<1>4. QED
  BY <1>1, <1>3 DEF TreeFrame

LEMMA FrameStored ==
  ASSUME StoredInv, NEW c \in Conns, Frame(c), TreeFrame(c), StoredOK(c)'
  PROVE  \A d \in Conns : StoredOK(d)'
<1> SUFFICES ASSUME NEW d \in Conns, d # c PROVE StoredOK(d)'
  OBVIOUS
<1>1. StoredOK(d)
  BY DEF StoredInv
<1>2. /\ eStatus'[d] = eStatus[d] /\ mRequest'[d] = mRequest[d]
      /\ mResponse'[d] = mResponse[d]
  BY DEF Frame
<1>3. CASE eStatus[d] # "SEND_READY"
  BY <1>1, <1>2, <1>3 DEF StoredOK
<1>4. CASE eStatus[d] = "SEND_READY"
  <2>1. mRequest[d] \in Requests /\ mRequest[d] # NoRequest
    BY <1>4 DEF StoredInv, IInv, ConnOK
  <2>2. /\ failed'[d] = failed[d]
        /\ fresh'[d] => fresh[d] /\ tree'[mRequest[d].path] = tree[mRequest[d].path]
    BY <2>1 DEF TreeFrame
  <2>3. \A a \in Above[mRequest[d].path] : a \in Paths
    BY <2>1, PathsAssumption
  <2>4. Creates(mRequest[d]) => Creates(mRequest[d])'
    <3>1. \A a \in Above[mRequest[d].path] : tree[a].kind = "dir" => tree'[a].kind = "dir"
      BY <2>3 DEF TreeFrame
    <3>2. QED
      <4> SUFFICES ASSUME Creates(mRequest[d]) PROVE Creates(mRequest[d])'
        OBVIOUS
      <4>1. ~mRequest'[d].slash /\ \A a \in Above[mRequest'[d].path] : tree'[a].kind = "dir"
        BY <1>2, <3>1 DEF Creates
      <4>2. QED
        BY <4>1 DEF Creates
  <2>5. LeftBy(d, mRequest[d])' = LeftBy(d, mRequest[d])
    BY <1>2, <2>2 DEF LeftBy
  <2>6. QED
    <3>1. CASE fresh'[d]
      <4>1. \A code : PutKept(d, mRequest[d], code) => PutKept(d, mRequest[d], code)'
        <5> SUFFICES ASSUME NEW code, PutKept(d, mRequest[d], code)
                     PROVE  PutKept(d, mRequest[d], code)'
          OBVIOUS
        <5>1. CASE Creates(mRequest[d]) /\ tree[mRequest[d].path] \in LeftBy(d, mRequest[d])
          <6>1. Creates(mRequest[d])'
            BY <2>4, <5>1
          <6>2. tree'[mRequest'[d].path] \in LeftBy(d, mRequest[d])'
            BY <1>2, <2>2, <2>5, <3>1, <5>1
          <6>3. QED
            BY <6>1, <6>2 DEF PutKept
        <5>2. CASE code = 201 /\ failed[d] /\ tree[mRequest[d].path].kind = "absent"
          BY <1>2, <2>2, <3>1, <5>2 DEF PutKept
        <5>3. QED
          BY <5>1, <5>2 DEF PutKept
      <4>2. DeleteKept(d, mRequest[d], mResponse[d]) => DeleteKept(d, mRequest[d], mResponse[d])'
        BY <1>2, <2>2, <3>1 DEF DeleteKept
      <4>3. QED
        BY <1>1, <1>2, <1>4, <2>2, <3>1, <4>1, <4>2 DEF StoredOK
    <3>2. CASE ~fresh'[d]
      BY <1>1, <1>2, <1>4, <3>2 DEF StoredOK
    <3>3. QED
      BY <3>1, <3>2
<1>5. QED
  BY <1>3, <1>4

(* What the calls on the tree leave behind, one at a time.                 *)
LEMMA Domains ==
  ASSUME IInv
  PROVE  DOMAIN tree = Paths /\ DOMAIN failed = Conns
<1>1. tree = [q \in Paths |-> tree[q]] /\ failed \in [Conns -> BOOLEAN]
  BY DEF IInv, TreeOK, ConnOK
<1>2. QED
  BY <1>1

LEMMA Answered ==
  ASSUME Shape, NEW c \in Conns, NEW s, NEW response, Answer(c, s, response)
  PROVE  mResponse'[c] = response
<1>1. mResponse' = [mResponse EXCEPT ![c] = response]
  BY DEF Answer
<1>2. mResponse = [d \in Conns |-> mResponse[d]]
  BY DEF Shape
<1>3. QED
  BY <1>1, <1>2

(* What a PUT or a DELETE leaves in the tree when it is answered.          *)
LEMMA PutStores ==
  ASSUME IInv, NEW c \in Conns, NEW r \in Requests, SolvePut(c, r), Shape,
         eStatus'[c] = "SEND_READY", mResponse'[c].code \in {200, 201}
  PROVE  PutKept(c, r, mResponse[c].code)'
<1>1. r.path \in Paths /\ \A a \in Above[r.path] : a \in Paths
  BY PathsAssumption
<1>2. eStatus[c] = "REQUEST_READY" /\ executePut(c, r)
  BY DEF SolvePut, Solve
<1>3. Creates(r) => Creates(r)'
  BY <1>1, SolveTreeFrame DEF TreeFrame, Creates, SolveStep
<1>4. ASSUME Store(c, r), Creates(r) PROVE PutKept(c, r, mResponse[c].code)'
  <2>1. PICK content \in Written(r.body) : /\ tree' = [tree EXCEPT ![r.path] = File(content)]
                                          /\ Touch(c, r, content # r.body)
    BY <1>4 DEF Store
  <2>2. tree'[r.path] = File(content)
    BY <1>1, <2>1, Domains
  <2>3. failed'[c] = (content # r.body)
    <3>1. failed' = [failed EXCEPT ![c] = (content # r.body)]
      BY <2>1 DEF Touch
    <3>2. QED
      BY <3>1, Domains
  <2>4. tree'[r.path] \in LeftBy(c, r)'
    <3>1. CASE content = r.body
      BY <2>2, <2>3, <3>1 DEF LeftBy
    <3>2. CASE content # r.body
      <4>1. content \in Written(r.body) \ {r.body} /\ failed'[c]
        BY <2>1, <2>3, <3>2
      <4>2. QED
        BY <2>2, <4>1 DEF LeftBy
    <3>3. QED
      BY <3>1, <3>2
  <2>5. QED
    BY <1>3, <1>4, <2>4 DEF PutKept
<1>5. CASE Stat(r.path, r.slash) = "file" /\ Store(c, r)
  <2>1. ~r.slash /\ tree[r.path].kind = "file"
    BY <1>5 DEF Stat
  <2>2. Creates(r)
    BY <1>1, <2>1 DEF Creates, IInv, TreeOK
  <2>3. QED
    BY <1>4, <1>5, <2>2
<1>6. CASE /\ Stat(r.path, r.slash) = "absent" /\ tree' = tree /\ Touch(c, r, TRUE)
           /\ Answer(c, "SEND_READY", Response(201, r.body))
  <2>1. tree'[r.path].kind = "absent"
    BY <1>6, StatIsKind
  <2>2. failed'[c] = TRUE
    <3>1. failed' = [failed EXCEPT ![c] = TRUE]
      BY <1>6 DEF Touch
    <3>2. QED
      BY <3>1, Domains
  <2>3. mResponse'[c].code = 201
    BY <1>6, Answered, ResponseCode
  <2>4. QED
    BY <2>1, <2>2, <2>3 DEF PutKept
<1>7. CASE Answer(c, "SEND_READY", Response(204, Empty))
  <2>1. mResponse'[c].code = 204
    BY <1>7, Answered, ResponseCode
  <2>2. QED
    BY <2>1
<1>8. CASE UNCHANGED eStatus
  BY <1>2, <1>8
<1>9. QED
  BY <1>2, <1>4, <1>5, <1>6, <1>7, <1>8 DEF executePut

LEMMA DeleteStores ==
  ASSUME IInv, NEW c \in Conns, NEW r \in Requests, SolveDelete(c, r),
         mResponse'[c].code = 200, Shape
  PROVE  DeleteKept(c, r, mResponse[c])'
<1>1. r.path \in Paths
  BY PathsAssumption
<1>2. CASE tree' = [tree EXCEPT ![r.path] = Absent] /\ Touch(c, r, FALSE)
  <2>1. tree'[r.path].kind = "absent"
    BY <1>1, <1>2, Domains DEF Absent
  <2>2. failed'[c] = FALSE
    <3>1. failed' = [failed EXCEPT ![c] = FALSE]
      BY <1>2 DEF Touch
    <3>2. QED
      BY <3>1, Domains
  <2>3. QED
    BY <2>1, <2>2 DEF DeleteKept
<1>3. CASE /\ tree' = tree /\ Touch(c, r, TRUE) /\ Stat(r.path, r.slash) = "file"
           /\ Answer(c, "SEND_READY", createResponse200(r.path))
  <2>1. tree'[r.path].kind = "file"
    BY <1>3, StatIsKind
  <2>2. failed'[c] = TRUE
    <3>1. failed' = [failed EXCEPT ![c] = TRUE]
      BY <1>3 DEF Touch
    <3>2. QED
      BY <3>1, Domains
  <2>3. mResponse'[c].body = tree'[r.path].content
    BY <1>3, Answered, ResponseCode DEF createResponse200
  <2>4. QED
    BY <2>1, <2>2, <2>3 DEF DeleteKept
<1>4. CASE Answer(c, "SEND_READY", Response(204, Empty))
  <2>1. mResponse'[c].code = 204
    BY <1>4, Answered, ResponseCode
  <2>2. QED
    BY <2>1
<1>5. QED
  BY <1>2, <1>3, <1>4 DEF SolveDelete, executeDelete

LEMMA SolveKeepsStored ==
  ASSUME StoredInv, NEW c \in Conns, NEW r \in Requests, SolveStep(c, r)
  PROVE  Shape' /\ Frame(c) /\ StoredOK(c)'
<1> USE DEF StoredInv
<1>1. /\ Solve(c, r)
      /\ Thrown(c, r) \/ (~IsCgi(r) /\ Document(c, r)) \/ ForProgram(c, r) \/ Silent
  BY SolveResults
<1>2. Silent \/ \E s, response : Result(c, s, response)
  BY <1>1 DEF Thrown, Document, ForProgram
<1>3. Shape' /\ Frame(c) /\ mRequest'[c] = r /\ eStatus[c] = "REQUEST_READY"
  BY <1>1, <1>2, SolveFrame DEF IInv, Silent
<1>4. CASE SolvePut(c, r)
  <2>1. r.method = "PUT"
    BY <1>4 DEF SolvePut, URItype
  <2>2. eStatus'[c] \notin {"CGI_READY", "CGI_ING"}
    <3>1. \/ UNCHANGED eStatus
          \/ eStatus' = [eStatus EXCEPT ![c] = "SEND_READY"]
      BY <1>4 DEF SolvePut, executePut, Answer
    <3>2. QED
      BY <1>3, <3>1 DEF IInv, ConnOK
  <2>3. QED
    BY <1>3, <1>4, <2>1, <2>2, PutStores DEF StoredOK
<1>5. CASE SolveDelete(c, r)
  <2>1. r.method = "DELETE"
    BY <1>5 DEF SolveDelete
  <2>2. eStatus'[c] = "SEND_READY"
    <3>1. eStatus' = [eStatus EXCEPT ![c] = "SEND_READY"]
      BY <1>5 DEF SolveDelete, executeDelete, Answer
    <3>2. QED
      BY <3>1 DEF IInv, ConnOK
  <2>3. QED
    BY <1>3, <1>5, <2>1, <2>2, DeleteStores DEF StoredOK
<1>6. CASE Thrown(c, r)
  <2>1. PICK code \in {301, 401, 403, 404, 405, 413, 500} :
          Result(c, "SEND_READY", createResponseStatusCode(code, location(r).mErrorPage))
    BY <1>6 DEF Thrown
  <2>2. eStatus'[c] = "SEND_READY" /\ mResponse'[c].code \notin {200, 201}
    BY <2>1, ResultHolds, ResponseCode DEF IInv
  <2>3. QED
    BY <1>3, <2>2 DEF StoredOK
<1>7. CASE r.method \notin {"PUT", "DELETE"}
  BY <1>3, <1>7 DEF StoredOK
<1>8. CASE Silent
  BY <1>3, <1>8 DEF Silent, StoredOK
<1>9. CASE SolveDirectory(c, r) \/ SolveFile(c, r)
  <2>1. r.method \notin {"PUT", "DELETE"}
    BY <1>9 DEF SolveDirectory, SolveFile, URItype
  <2>2. QED
    BY <1>7, <2>1
<1>10. CASE SolveCgi(c, r)
  <2>1. r.method # "DELETE" /\ (r.method = "PUT" => Throw(c, r, 405))
    BY <1>10 DEF SolveCgi
  <2>2. QED
    BY <1>6, <1>7, <2>1, ThrowIsThrown
<1>11. CASE SolveObjection(c, r)
  <2>1. Objection(r) \in {301, 401, 403, 405, 413, 500}
    BY <1>11 DEF SolveObjection, Objection, Unauthorized
  <2>2. QED
    BY <1>6, <1>11, <2>1, ThrowIsThrown DEF SolveObjection
<1>12. QED
  BY <1>4, <1>5, <1>9, <1>10, <1>11 DEF SolveStep

LEMMA CgiKeepsStored ==
  ASSUME StoredInv, NEW c \in Conns, CgiStep(c)
  PROVE  Shape' /\ Frame(c) /\ StoredOK(c)'
<1> USE DEF StoredInv
<1>1. eStatus[c] \in {"CGI_READY", "CGI_ING"}
  BY DEF CgiStep, CgiNothing, CgiRefuse, CgiRun, CgiRead, CgiAnswer, CgiStatus,
         CgiMalformed, CgiFail
<1>2. PICK s, response, file : Execute(c, s, response) /\ fromCGI' = [fromCGI EXCEPT ![c] = file]
  BY DEF CgiStep, CgiNothing, CgiRefuse, CgiRun, CgiRead, CgiAnswer, CgiStatus,
         CgiMalformed, CgiFail
<1>3. Shape' /\ Frame(c) /\ mRequest'[c] = mRequest[c]
  BY <1>2, ExecuteFrame DEF IInv
<1>4. mRequest[c].method \notin {"PUT", "DELETE"}
  BY <1>1 DEF StoredOK
<1>5. QED
  BY <1>3, <1>4 DEF StoredOK

(* As long as nobody else changed it since, a file whose PUT is answered   *)
(* 200 or 201 holds the body and one whose DELETE is answered 200 is gone, *)
(* unless a call failed that the code does not look at: then the file of a *)
(* PUT holds a part of the body or was not created, and the file of a      *)
(* DELETE is the one that was answered.  For any number of connections,    *)
(* every set of requests, with and without a final slash, and of paths.    *)
THEOREM StoredAsToldCorrect == Spec => []StoredAsTold
<1>1. Init => StoredInv
  <2> SUFFICES ASSUME Init PROVE StoredInv
    OBVIOUS
  <2>1. IInv
    BY InitHolds
  <2>2. Shape /\ \A c \in Conns : StoredOK(c)
    BY DEF Init, Shape, StoredOK
  <2>3. QED
    BY <2>1, <2>2 DEF StoredInv
<1>2. StoredInv /\ [Next]_vars => StoredInv'
  <2> SUFFICES ASSUME StoredInv, [Next]_vars PROVE StoredInv'
    OBVIOUS
  <2>1. IInv /\ IInv'
    BY NextKeepsIInv DEF StoredInv
  <2>2. ASSUME NEW c \in Conns, Shape', Frame(c), TreeFrame(c), StoredOK(c)' PROVE StoredInv'
    BY <2>1, <2>2, FrameStored DEF StoredInv
  <2>3. ASSUME NEW c \in Conns, NEW r \in Requests, SolveStep(c, r) PROVE StoredInv'
    BY <2>1, <2>2, <2>3, SolveKeepsStored, SolveTreeFrame
  <2>4. ASSUME NEW c \in Conns, CgiStep(c) PROVE StoredInv'
    BY <2>1, <2>2, <2>4, CgiKeepsStored, RestTreeFrame
  <2>5. ASSUME NEW c \in Conns, Send(c) \/ closeConnection(c) PROVE StoredInv'
    <3>1. Shape' /\ Frame(c) /\ eStatus'[c] = "REQUEST_READY"
      BY <2>5, DoneFrame DEF StoredInv, IInv
    <3>2. StoredOK(c)'
      BY <3>1 DEF StoredOK
    <3>3. QED
      BY <2>1, <2>2, <2>5, <3>1, <3>2, RestTreeFrame
  <2>6. CASE UNCHANGED vars
    <3>1. Shape' /\ \A c \in Conns : StoredOK(c)'
      BY <2>6 DEF StoredInv, Shape, StoredOK, PutKept, DeleteKept, LeftBy, Creates, vars, connVars
    <3>2. QED
      BY <2>1, <3>1 DEF StoredInv
  <2>7. QED
    BY <2>3, <2>4, <2>5, <2>6 DEF Next
<1>3. StoredInv => StoredAsTold
  BY DEF StoredInv, StoredOK, StoredAsTold
<1>4. QED
  BY <1>1, <1>2, <1>3, PTL DEF Spec
=============================================================================
