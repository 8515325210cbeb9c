----------------------------- MODULE SolveRequest -----------------------------
(***************************************************************************)
(* What one server does with complete requests: solveRequest, the methods, *)
(* the status pages and the two steps of a CGI program, over the served    *)
(* tree and the files toCGI and fromCGI<fd>.  The visits of the connections *)
(* interleave in any order (EventLoop says in which); between two requests *)
(* a connection keeps its CGI program path, between two connections a      *)
(* descriptor keeps its fromCGI file, and all of them share mErrorPage.    *)
(***************************************************************************)
EXTENDS Naturals

CONSTANTS
  Conns,        (* descriptors of the connections                           *)
  Paths,        (* what the URIs name in the served tree                    *)
  Above,        (* the directories a path is in, among Paths                *)
  Location,     (* the LocationPath that serves a path                      *)
  CgiName,      (* paths whose extension is in mCgiExtension                *)
  ProgramOf,    (* the entry of mCgiProgramPath that names the extension    *)
  Php,          (* the programs with "php" in their path                    *)
  IndexPages,   (* mIndexPages of a directory, in their order               *)
  Htpasswd,     (* .htpasswd can be opened                                  *)
  Size,         (* the length of a body                                     *)
  Requests,     (* BOUND: the requests that clients send                    *)
  InitTree      (* the served tree at the start                             *)

Methods == {"GET", "HEAD", "POST", "PUT", "DELETE", "OPTIONS", "TRACE"}
Kinds == {"absent", "dir", "file", "refused"}
NoProgram == "none"

(* Contents of files and bodies.                                           *)
Nothing == <<>>
Empty == <<"data", "">>
part(body) == <<"part", body>>
page(name) == <<"page", name>>
listing(p) == <<"listing", p>>
output(program, p, input, form) == <<"output", program, p, input, form>>
Forms == {"document", "status", "malformed"}

(* A path is a name; with a final slash the URI names a directory.         *)
ASSUME PathsAssumption ==
  /\ Above \in [Paths -> SUBSET Paths]
  /\ CgiName \subseteq Paths
  /\ \A p \in Paths : Location[p].mClientMaxBodySize \in Nat
  /\ \A r \in Requests :
       r.path \in Paths /\ r.method \in Methods /\ Size[r.body] \in Nat
  /\ InitTree = [p \in Paths |-> InitTree[p]]
  /\ \A p \in Paths :
       /\ InitTree[p].kind \in Kinds
       /\ InitTree[p].kind # "absent" => \A a \in Above[p] : InitTree[a].kind = "dir"

VARIABLES
  tree,            (* the served tree: kind and content of every path       *)
  mErrorPage,      (* Server::mErrorPage                                    *)
  eStatus,         (* Connection::eStatus                                   *)
  mRequest,        (* the request being answered                            *)
  mResponse,       (* Connection::mResponse: status code and body           *)
  mCgiProgramPath, (* Connection::mCgiProgramPath                           *)
  fromCGI,         (* the files fromCGI<fd>                                 *)
  fresh,           (* ghost: no later request changed what this one named   *)
  failed,          (* ghost: a call on the tree failed, and nobody looked   *)
  crashed          (* the process is gone                                   *)

connVars == <<eStatus, mRequest, mResponse, mCgiProgramPath>>
vars == <<tree, mErrorPage, connVars, fromCGI, fresh, failed, crashed>>

NoRequest ==
  [method |-> "NULL", path |-> "", slash |-> FALSE, body |-> Nothing, credentials |-> "none"]
(* A response: its status, its body, and its Content-Length, which is here *)
(* the content that it is the length of.                                   *)
Headed(code, body, length) == [code |-> code, body |-> body, length |-> length]
NoResponse == Headed(0, Nothing, Nothing)
NoFile == <<"no file">>

Init ==
  /\ tree = InitTree
  /\ mErrorPage = ""
  /\ eStatus = [c \in Conns |-> "REQUEST_READY"]
  /\ mRequest = [c \in Conns |-> NoRequest]
  /\ mResponse = [c \in Conns |-> NoResponse]
  /\ mCgiProgramPath = [c \in Conns |-> NoProgram]
  /\ fromCGI = [c \in Conns |-> NoFile]
  /\ fresh = [c \in Conns |-> FALSE]
  /\ failed = [c \in Conns |-> FALSE]
  /\ crashed = FALSE

-----------------------------------------------------------------------------
(* The served tree.                                                        *)
File(content) == [kind |-> "file", content |-> content]
Absent == [kind |-> "absent", content |-> Nothing]

(* What stat() says of a path written with or without a final slash.       *)
Stat(p, slash) ==
  CASE \/ \E a \in Above[p] : tree[a].kind \in {"file", "refused"}
       \/ slash /\ tree[p].kind \in {"file", "refused"}  -> "ENOTDIR"
    [] OTHER -> tree[p].kind

(* What write() may leave of a body when nobody looks at its result: all,  *)
(* nothing, or, of two bytes and more, a part.                             *)
Written(body) == {body, Empty} \cup (IF Size[body] > 1 THEN {part(body)} ELSE {})

(* ft::access: a directory, or a file that can be opened.                  *)
access(p, slash) == Stat(p, slash) \in {"dir", "file"}

-----------------------------------------------------------------------------
(* Responses.                                                              *)
Response(code, body) == Headed(code, body, body)

(* createResponseStatusCode, when mErrorPage has the value errorPage.      *)
createResponseStatusCode(code, errorPage) ==
  IF code = 404 /\ errorPage # ""
  THEN Response(code, page(errorPage))
  ELSE Response(code, IF code = 205 THEN Empty ELSE page("status"))

createResponse200(p) == Response(200, tree[p].content)

(* executeHead: the body is taken out, its length is still stated.         *)
executeHead(p) == Headed(200, Empty, tree[p].content)

-----------------------------------------------------------------------------
(* solveRequest: what is decided before the method is looked at.           *)
location(r) == Location[r.path]

(* ParseURI, and the CGI extension that overrides what it found.           *)
URItype(r) ==
  CASE ~r.slash /\ r.path \in CgiName -> "CGI_PROGRAM"
    [] OTHER ->
       CASE r.method = "PUT"    -> "FILE_TO_CREATE"
         [] r.method = "DELETE" -> "FILE_TO_DELETE"
         [] r.method \notin {"PUT", "DELETE"} /\ r.slash  -> "DIRECTORY"
         [] r.method \notin {"PUT", "DELETE"} /\ ~r.slash -> "FILE"

isValidMethod(r) == r.method \in location(r).mMethod

(* The status thrown for want of credentials, or 0; "right" are those that *)
(* isRightCredentials finds in .htpasswd.                                  *)
Unauthorized_AnyCredentials(r) ==   (* mutant: the credentials are not compared *)
  IF location(r).auth /\ r.credentials = "none" THEN 401 ELSE 0
Unauthorized(r) ==
  IF ~location(r).auth \/ (r.credentials = "right" /\ Htpasswd) THEN 0
  ELSE IF r.credentials = "none" THEN 401
  ELSE IF ~Htpasswd THEN 500
  ELSE 403

TooLarge(r) ==
  /\ URItype(r) # "FILE_TO_DELETE"
  /\ location(r).mClientMaxBodySize # 0
  /\ Size[r.body] > location(r).mClientMaxBodySize

(* A directory named without its slash.                                    *)
Moved(r) == URItype(r) \in {"FILE", "CGI_PROGRAM"} /\ Stat(r.path, FALSE) = "dir"

(* The checks in their order; 0 when the request may be executed.          *)
Objection(r) ==
  IF ~isValidMethod(r) THEN 405
  ELSE IF Unauthorized(r) # 0 THEN Unauthorized(r)
  ELSE IF TooLarge(r) THEN 413
  ELSE IF Moved(r) THEN 301
  ELSE 0

-----------------------------------------------------------------------------
(* solveRequest: a connection that is ready gets the complete request r.   *)
Solve(c, r) ==
  /\ ~crashed
  /\ eStatus[c] = "REQUEST_READY" /\ mRequest[c] = NoRequest
  /\ mRequest' = [mRequest EXCEPT ![c] = r]
  /\ mErrorPage' = location(r).mErrorPage
  /\ mCgiProgramPath' =
       IF ~r.slash /\ ProgramOf[r.path] # NoProgram
       THEN [mCgiProgramPath EXCEPT ![c] = ProgramOf[r.path]] ELSE mCgiProgramPath
  /\ UNCHANGED fromCGI

Answer(c, status, response) ==
  /\ eStatus' = [eStatus EXCEPT ![c] = status]
  /\ mResponse' = [mResponse EXCEPT ![c] = response]
  /\ UNCHANGED crashed

(* The request of c is the last one that touched what it names.            *)
Touch(c, r, failure) ==
  /\ failed' = [failed EXCEPT ![c] = failure]
  /\ fresh' = [d \in Conns |->
                d = c \/ (fresh[d] /\ (mRequest[d] = NoRequest \/ mRequest[d].path # r.path))]
Look(c) ==
  /\ fresh' = [fresh EXCEPT ![c] = TRUE]
  /\ failed' = [failed EXCEPT ![c] = FALSE]
  /\ UNCHANGED tree

(* A status is thrown: its page is the answer.                             *)
Throw(c, r, code) ==
  /\ Answer(c, "SEND_READY", createResponseStatusCode(code, location(r).mErrorPage))
  /\ Look(c)

SolveObjection(c, r) ==
  /\ Solve(c, r)
  /\ Objection(r) # 0
  /\ Throw(c, r, Objection(r))

(* executePut: open() without O_CREAT, and with it when that finds nothing. *)
(* The second open() needs the directories, and fails for a name that ends *)
(* in a slash: one slash is dropped, and such a URI was given another.     *)
Creates(r) == ~r.slash /\ \A a \in Above[r.path] : tree[a].kind = "dir"

(* The body is written; what write() returns is not looked at.             *)
Store(c, r) ==
  \E content \in Written(r.body) :
    /\ tree' = [tree EXCEPT ![r.path] = File(content)]
    /\ Touch(c, r, content # r.body)

executePut_NoCheck(c, r) ==   (* mutant: every failed open() is taken for a new file *)
  \/ /\ Stat(r.path, r.slash) = "file"
     /\ Store(c, r)
     /\ Answer(c, "SEND_READY", Response(200, r.body))
  \/ /\ Stat(r.path, r.slash) = "dir"
     /\ Answer(c, "SEND_READY", Response(204, Empty))
     /\ Look(c)
  \/ /\ Stat(r.path, r.slash) \notin {"dir", "file"}
     /\ Store(c, r)
     /\ Answer(c, "SEND_READY", Response(201, r.body))
executePut(c, r) ==
  \/ /\ Stat(r.path, r.slash) = "file"
     /\ Store(c, r)
     /\ Answer(c, "SEND_READY", Response(200, r.body))
  \/ /\ Stat(r.path, r.slash) = "dir"
     /\ Answer(c, "SEND_READY", Response(204, Empty))
     /\ Look(c)
  \/ /\ Stat(r.path, r.slash) = "absent"
     /\ \/ Creates(r) /\ Store(c, r)
        \/ UNCHANGED tree /\ Touch(c, r, TRUE)   (* the second open() fails *)
     /\ Answer(c, "SEND_READY", Response(201, r.body))
  \/ /\ Stat(r.path, r.slash) \in {"file", "refused", "ENOTDIR"}
     /\ crashed' = TRUE   (* not to be written: no response to add headers to *)
     /\ UNCHANGED <<tree, eStatus, mResponse, fresh, failed>>

SolvePut(c, r) ==
  /\ Solve(c, r)
  /\ Objection(r) = 0 /\ URItype(r) = "FILE_TO_CREATE"
  /\ executePut(c, r)

(* executeDelete: a file is read and removed, everything else is a 204.    *)
(* What unlink() returns is not looked at.                                 *)
executeDelete_NoUnlink(c, r) ==   (* mutant: unlink() is forgotten *)
  \/ /\ Stat(r.path, r.slash) = "file"
     /\ Answer(c, "SEND_READY", createResponse200(r.path))
     /\ UNCHANGED tree
     /\ Touch(c, r, FALSE)
  \/ /\ Stat(r.path, r.slash) # "file"
     /\ Answer(c, "SEND_READY", Response(204, Empty))
     /\ Look(c)
executeDelete(c, r) ==
  \/ /\ Stat(r.path, r.slash) = "file"
     /\ Answer(c, "SEND_READY", createResponse200(r.path))
     /\ \/ tree' = [tree EXCEPT ![r.path] = Absent] /\ Touch(c, r, FALSE)
        \/ UNCHANGED tree /\ Touch(c, r, TRUE)
  \/ /\ Stat(r.path, r.slash) # "file"
     /\ Answer(c, "SEND_READY", Response(204, Empty))
     /\ Look(c)

SolveDelete(c, r) ==
  /\ Solve(c, r)
  /\ Objection(r) = 0 /\ r.method = "DELETE"
  /\ executeDelete(c, r)

executeOptions(c) ==
  /\ Answer(c, "SEND_READY", Response(200, Empty))
  /\ Look(c)

(* A directory: the first index page that is there, a listing, or a 404.   *)
IndexOf(r) == {i \in DOMAIN IndexPages[r.path] : Stat(IndexPages[r.path][i], FALSE) = "file"}

SolveDirectory(c, r) ==
  /\ Solve(c, r)
  /\ Objection(r) = 0 /\ URItype(r) = "DIRECTORY"
  /\ \/ ~access(r.path, TRUE) /\ Throw(c, r, 404)
     \/ access(r.path, TRUE) /\ r.method = "OPTIONS" /\ executeOptions(c)
     \/ /\ access(r.path, TRUE) /\ r.method # "OPTIONS"
        /\ \E i \in IndexOf(r) :
             /\ \A j \in IndexOf(r) : i <= j
             /\ Answer(c, "SEND_READY", createResponse200(IndexPages[r.path][i]))
        /\ Look(c)
     \/ /\ access(r.path, TRUE) /\ r.method # "OPTIONS" /\ IndexOf(r) = {}
        /\ location(r).mAutoIndex
        /\ Answer(c, "SEND_READY", Response(200, listing(r.path)))
        /\ Look(c)
     \/ /\ access(r.path, TRUE) /\ r.method # "OPTIONS" /\ IndexOf(r) = {}
        /\ ~location(r).mAutoIndex
        /\ Throw(c, r, 404)

(* executeGet, executeHead and executePost prepare the response, which for *)
(* a CGI program is what the program is given to read.                     *)
Prepared(r) ==
  CASE r.method = "GET"  -> createResponse200(r.path)
    [] r.method = "HEAD" -> executeHead(r.path)
    [] r.method = "POST" -> Response(200, r.body)

SolveCgi(c, r) ==
  /\ Solve(c, r)
  /\ Objection(r) = 0 /\ URItype(r) = "CGI_PROGRAM" /\ r.method # "DELETE"
  /\ \/ /\ r.method = "POST" \/ (r.method \in {"GET", "HEAD"} /\ access(r.path, FALSE))
        /\ Answer(c, "CGI_READY", Prepared(r))
        /\ Look(c)
     \/ r.method \in {"GET", "HEAD"} /\ ~access(r.path, FALSE) /\ Throw(c, r, 404)
     \/ r.method = "OPTIONS" /\ executeOptions(c)
     \/ r.method \in {"PUT", "TRACE"} /\ Throw(c, r, 405)

SolveFile(c, r) ==
  /\ Solve(c, r)
  /\ Objection(r) = 0 /\ URItype(r) = "FILE"
  /\ \/ /\ access(r.path, FALSE) /\ r.method \in {"GET", "HEAD", "POST"}
        /\ Answer(c, "SEND_READY", Prepared(r))
        /\ Look(c)
     \/ access(r.path, FALSE) /\ r.method = "OPTIONS" /\ executeOptions(c)
     \/ access(r.path, FALSE) /\ r.method = "TRACE" /\ Throw(c, r, 405)
     \/ Stat(r.path, FALSE) = "absent" /\ Throw(c, r, 404)
     \/ /\ Stat(r.path, FALSE) \in {"refused", "ENOTDIR"}   (* errno is not ENOENT: nothing *)
        /\ UNCHANGED <<tree, eStatus, mResponse, fresh, failed, crashed>>

-----------------------------------------------------------------------------
(* executeCGI.                                                             *)
Execute(c, status, response) ==
  /\ ~crashed
  /\ eStatus' = [eStatus EXCEPT ![c] = status]
  /\ mResponse' = [mResponse EXCEPT ![c] = response]
  /\ UNCHANGED <<tree, mErrorPage, mRequest, mCgiProgramPath, fresh, failed, crashed>>

(* CGI_READY: fromCGI is truncated; without anything to write to toCGI the *)
(* answer is a 205.                                                        *)
CgiNothing(c) ==
  /\ eStatus[c] = "CGI_READY" /\ mResponse[c].body = Empty
  /\ fromCGI' = [fromCGI EXCEPT ![c] = Empty]
  /\ Execute(c, "SEND_READY", createResponseStatusCode(205, mErrorPage))

(* CGI_READY: a file, the memory or the process for the program is missing. *)
CgiRefuse(c) ==
  /\ eStatus[c] = "CGI_READY"
  /\ \E file \in {fromCGI[c], Empty} : fromCGI' = [fromCGI EXCEPT ![c] = file]
  /\ Execute(c, "SEND_READY", createResponseStatusCode(500, mErrorPage))

(* CGI_READY: the program reads what has been written of the body of the   *)
(* response and writes its output to fromCGI, which stays empty when there *)
(* is no program, when execve() cannot start it, or it prints nothing.     *)
(* (What a PHP program prints is not looked into: it has one form.)        *)
Outputs(c) ==
  {output(mCgiProgramPath[c], mRequest[c].path, input, form) :
     input \in Written(mResponse[c].body) \ {Empty},
     form \in IF mCgiProgramPath[c] \in Php THEN {"document"} ELSE Forms}

CgiRun_NoTruncate(c) ==   (* mutant: fromCGI is opened without O_TRUNC *)
  /\ eStatus[c] = "CGI_READY" /\ mResponse[c].body # Empty
  /\ \E file \in IF fromCGI[c] \notin {NoFile, Empty} THEN {fromCGI[c]} ELSE Outputs(c) :
       fromCGI' = [fromCGI EXCEPT ![c] = file]
  /\ Execute(c, "CGI_ING", mResponse[c])
CgiRun(c) ==
  /\ eStatus[c] = "CGI_READY" /\ mResponse[c].body # Empty
  /\ \E file \in {Empty} \cup (IF mCgiProgramPath[c] = NoProgram THEN {} ELSE Outputs(c)) :
       fromCGI' = [fromCGI EXCEPT ![c] = file]
  /\ Execute(c, "CGI_ING", mResponse[c])

(* CGI_ING: fromCGI is read and removed.  The output of a PHP program is   *)
(* the body; that of another one is a document, a status, or malformed.    *)
IsForm(c, form) == fromCGI[c] # Empty /\ fromCGI[c][5] = form
CgiRead(c) ==
  /\ eStatus[c] = "CGI_ING" /\ fromCGI[c] # NoFile
  /\ fromCGI' = [fromCGI EXCEPT ![c] = NoFile]

CgiAnswer_OldLength(c) ==   (* mutant: Content-Length stays that of the prepared response *)
  /\ CgiRead(c)
  /\ mCgiProgramPath[c] \in Php \/ IsForm(c, "document")
  /\ Execute(c, "SEND_READY", Headed(mResponse[c].code, fromCGI[c], mResponse[c].length))
CgiAnswer(c) ==
  /\ CgiRead(c)
  /\ mCgiProgramPath[c] \in Php \/ IsForm(c, "document")
  /\ Execute(c, "SEND_READY", Response(mResponse[c].code, fromCGI[c]))

(* The status of the program: the function returns without SetStatus.      *)
CgiStatus_SetStatus(c) ==   (* mutant: SetStatus is added, the error page is the server's *)
  /\ CgiRead(c)
  /\ mCgiProgramPath[c] \notin Php /\ IsForm(c, "status")
  /\ \E code \in {302, 404} :
       Execute(c, "SEND_READY", createResponseStatusCode(code, mErrorPage))
CgiStatus(c) ==
  /\ CgiRead(c)
  /\ mCgiProgramPath[c] \notin Php /\ IsForm(c, "status")
  /\ \E code \in {302, 404} :
       Execute(c, "CGI_ING", createResponseStatusCode(code, mErrorPage))

CgiMalformed(c) ==
  /\ CgiRead(c)
  /\ mCgiProgramPath[c] \notin Php /\ (fromCGI[c] = Empty \/ IsForm(c, "malformed"))
  /\ Execute(c, "SEND_READY", createResponseStatusCode(500, mErrorPage))

(* There is no output file, or it cannot be read.                          *)
CgiFail(c) ==
  /\ eStatus[c] = "CGI_ING"
  /\ \E file \in {fromCGI[c], NoFile} : fromCGI' = [fromCGI EXCEPT ![c] = file]
  /\ Execute(c, "SEND_READY", createResponseStatusCode(500, mErrorPage))

-----------------------------------------------------------------------------
(* The answer has been sent: the connection is kept for the next request,  *)
(* or closed and its descriptor handed out again.                          *)
Send(c) ==
  /\ ~crashed
  /\ eStatus[c] = "SEND_READY"
  /\ mCgiProgramPath' = IF mResponse[c].code >= 400
                        THEN [mCgiProgramPath EXCEPT ![c] = NoProgram] ELSE mCgiProgramPath
  /\ eStatus' = [eStatus EXCEPT ![c] = "REQUEST_READY"]
  /\ mRequest' = [mRequest EXCEPT ![c] = NoRequest]
  /\ mResponse' = [mResponse EXCEPT ![c] = NoResponse]
  /\ fresh' = [fresh EXCEPT ![c] = FALSE]
  /\ failed' = [failed EXCEPT ![c] = FALSE]
  /\ UNCHANGED <<tree, mErrorPage, fromCGI, crashed>>

(* The connection is closed, whatever it was doing; its fromCGI file stays. *)
closeConnection(c) ==
  /\ ~crashed
  /\ mCgiProgramPath' = [mCgiProgramPath EXCEPT ![c] = NoProgram]
  /\ eStatus' = [eStatus EXCEPT ![c] = "REQUEST_READY"]
  /\ mRequest' = [mRequest EXCEPT ![c] = NoRequest]
  /\ mResponse' = [mResponse EXCEPT ![c] = NoResponse]
  /\ fresh' = [fresh EXCEPT ![c] = FALSE]
  /\ failed' = [failed EXCEPT ![c] = FALSE]
  /\ UNCHANGED <<tree, mErrorPage, fromCGI, crashed>>

SolveStep(c, r) ==
  \/ SolveObjection(c, r) \/ SolvePut(c, r) \/ SolveDelete(c, r)
  \/ SolveDirectory(c, r) \/ SolveCgi(c, r) \/ SolveFile(c, r)
CgiStep(c) ==
  \/ CgiNothing(c) \/ CgiRefuse(c) \/ CgiRun(c)
  \/ CgiAnswer(c) \/ CgiStatus(c) \/ CgiMalformed(c) \/ CgiFail(c)

Next ==
  \E c \in Conns :
    \/ \E r \in Requests : SolveStep(c, r)
    \/ CgiStep(c) \/ Send(c) \/ closeConnection(c)

Spec == Init /\ [][Next]_vars

-----------------------------------------------------------------------------
(* Properties.                                                             *)

(* Every variable has its type, and the tree is one: what is there is in   *)
(* directories that are there.                                             *)
TypeOK ==
  /\ \A p \in Paths :
       /\ tree[p].kind \in Kinds
       /\ tree[p].kind # "absent" => \A a \in Above[p] : tree[a].kind = "dir"
  /\ mErrorPage \in {""} \cup {Location[p].mErrorPage : p \in Paths}
  /\ eStatus \in [Conns -> {"REQUEST_READY", "CGI_READY", "CGI_ING", "SEND_READY"}]
  /\ mRequest \in [Conns -> Requests \cup {NoRequest}]
  /\ mCgiProgramPath \in [Conns -> {NoProgram} \cup {ProgramOf[p] : p \in Paths}]
  /\ fresh \in [Conns -> BOOLEAN] /\ failed \in [Conns -> BOOLEAN] /\ crashed \in BOOLEAN
  /\ \A c \in Conns : eStatus[c] # "REQUEST_READY" => mRequest[c] # NoRequest

(* The served tree changes only where a request that may do so says: a PUT *)
(* or a DELETE that its location allows, with the credentials it asks for  *)
(* and a body within its limit.                                            *)
MayChange(r) ==
  /\ r.method \in {"PUT", "DELETE"} /\ isValidMethod(r)
  /\ location(r).auth => r.credentials = "right"
  /\ r.method = "PUT" /\ location(r).mClientMaxBodySize # 0 =>
       Size[r.body] <= location(r).mClientMaxBodySize
TreeGuarded ==
  [][\A p \in Paths : tree'[p] # tree[p] =>
       \E c \in Conns :
         /\ mRequest[c] = NoRequest /\ mRequest'[c] # NoRequest
         /\ mRequest'[c].path = p /\ MayChange(mRequest'[c])]_vars

(* As long as nobody else changed it since: a file whose PUT is answered   *)
(* 200 or 201 holds the body, a file whose DELETE is answered 200 is gone. *)
(* The answer is made before the calls, so it is the same when one fails:  *)
(* then the file of a PUT holds a part of the body or nothing, never what  *)
(* it held before, or, after a 201, is not there, as it never is when its  *)
(* directory is missing or its URI ends in a slash; and the file of a      *)
(* DELETE is still the one that the answer holds.                          *)
LeftBy(c, r) ==
  {File(content) : content \in
     IF failed[c] THEN Written(r.body) \ {r.body} ELSE {r.body}}
PutKept(c, r, code) ==
  \/ Creates(r) /\ tree[r.path] \in LeftBy(c, r)
  \/ code = 201 /\ failed[c] /\ tree[r.path].kind = "absent"
DeleteKept(c, r, response) ==
  IF failed[c]
  THEN tree[r.path].kind = "file" /\ tree[r.path].content = response.body
  ELSE tree[r.path].kind = "absent"
StoredAsTold ==
  \A c \in Conns :
    LET r == mRequest[c]
    IN  eStatus[c] = "SEND_READY" /\ fresh[c] =>
          /\ r.method = "PUT" /\ mResponse[c].code \in {200, 201} =>
               PutKept(c, r, mResponse[c].code)
          /\ r.method = "DELETE" /\ mResponse[c].code = 200 => DeleteKept(c, r, mResponse[c])

(* An answer made by a CGI program was made for this request: by the       *)
(* program of its path, for its path and from its body, whatever other     *)
(* connections, or earlier owners of the descriptor, left in the files.    *)
(* (It is empty when the program could not be started, and the program has *)
(* read a part of the body when no more of it could be written to toCGI.)  *)
IsCgi(r) == URItype(r) = "CGI_PROGRAM" /\ r.method \in {"GET", "HEAD", "POST"}
OwnOutput(c, content) ==
  /\ content[1] = "output" /\ content[2] = ProgramOf[mRequest[c].path]
  /\ content[3] = mRequest[c].path
  /\ mRequest[c].method = "POST" => content[4] \in Written(mRequest[c].body) \ {Empty}
CgiAnswerIsOwn ==
  \A c \in Conns :
    /\ eStatus[c] = "SEND_READY" /\ IsCgi(mRequest[c]) /\ mResponse[c].code = 200
    => mResponse[c].body = Empty \/ OwnOutput(c, mResponse[c].body)

(* A client that is kept finds the next answer behind this one: what is    *)
(* stated as the length of the body is sent, and nothing where a body is   *)
(* not looked for, also when the body is replaced after the response was   *)
(* prepared.  (A HEAD of a directory or with a redirect is answered with a *)
(* body: they are left out.)                                               *)
FitsMethod(r, response) ==
  /\ IF r.method = "HEAD" /\ URItype(r) # "DIRECTORY"
     THEN response.body = Empty
     ELSE response.length = response.body
  /\ response.code \in {204, 205} => response.body = Empty
Framed ==
  \A c \in Conns :
    eStatus[c] = "SEND_READY" /\ mResponse[c].code < 300 => FitsMethod(mRequest[c], mResponse[c])

(* A 404 carries the error page of the location of its own request, though *)
(* all the connections of the server share mErrorPage.                     *)
ErrorPageIsOwn ==
  \A c \in Conns :
    /\ eStatus[c] = "SEND_READY" /\ mResponse[c].code = 404
    => mResponse[c] = createResponseStatusCode(404, location(mRequest[c]).mErrorPage)
=============================================================================
