----------------------------- MODULE RequestParser -----------------------------
(***************************************************************************)
(* How recvRequest takes a request from the stream of one connection: the  *)
(* client sends a message, the kernel hands it over in pieces of any size, *)
(* and every piece is appended to mHttpMessage and parsed from mSeek on.   *)
(* A message is a sequence of tokens.  Delimiters and the characters of    *)
(* bodies and numbers are tokens of their own, a word is one token, and a  *)
(* piece may end between any two tokens, CR and LF included.  Positions    *)
(* count from 1, and npos is 0.                                            *)
(***************************************************************************)
EXTENDS Naturals, Sequences
LOCAL INSTANCE SequencesExt

CONSTANTS
  Messages,      (* BOUND: what clients send: the tokens and their meaning   *)
  Lower,         (* tolower, on the words that hold capital letters          *)
  MaxUri,        (* BOUND: the longest URI, 200 characters in ParseURI       *)
  Overtaken      (* messages whose rest may be read before their answer can  *)
                 (* be sent, because the socket is not writable              *)

npos == 0
SP == <<" ">>
EOL == <<"CR", "LF">>

(* A message has its tokens and, if it is malformed, the statuses that     *)
(* refuse it; otherwise it has a meaning.                                  *)
Codes == {400, 411, 413, 414, 505}
NoMessage == [tokens |-> <<>>, codes |-> {}]
ASSUME MessagesAssumption ==
  /\ \A m \in Messages : /\ m.tokens \in Seq({m.tokens[k] : k \in DOMAIN m.tokens})
                         /\ m.codes \subseteq Codes
  /\ NoMessage \notin Messages
  /\ MaxUri \in Nat /\ Overtaken \subseteq Messages

VARIABLES
  wire,      (* sent by the client and not read yet                          *)
  sent,      (* the message the client waits for an answer to                *)
  mRequest,  (* Connection::mRequest                                         *)
  answer     (* 0, the status thrown by a parser, or ToSolve              *)

vars == <<wire, sent, mRequest, answer>>

(* The answer is what solveRequest makes of the request.                  *)
ToSolve == 200

NewRequest ==
  [mPhase |-> "READY", mSeek |-> 1, mHttpMessage |-> <<>>,
   mMethod |-> <<>>, mURItype |-> "DIRECTORY", mDirectory |-> <<>>,
   mFileName |-> <<>>, mQuery |-> <<>>, mParameter |-> <<>>,
   mTransferType |-> "GENERAL", mHeaders |-> <<>>, mBody |-> <<>>,
   thrown |-> 0]

Init ==
  /\ wire = <<>>
  /\ sent = NoMessage
  /\ mRequest = NewRequest
  /\ answer = 0

-----------------------------------------------------------------------------
(* std::string.                                                            *)
Occurrences(s, pattern, from) ==
  {i \in from .. (Len(s) - Len(pattern) + 1) :
     SubSeq(s, i, i + Len(pattern) - 1) = pattern}

find(s, pattern, from) ==
  LET found == Occurrences(s, pattern, from)
  IN  IF found = {} THEN npos ELSE CHOOSE i \in found : \A j \in found : i <= j

find_last_of(s, token) ==
  LET found == Occurrences(s, <<token>>, 1)
  IN  IF found = {} THEN npos ELSE CHOOSE i \in found : \A j \in found : i >= j

(* substr(from, found - from): the rest of s when found is before from.    *)
Between(s, from, found) ==
  SubSeq(s, from, IF found < from THEN Len(s) ELSE found - 1)

tolower(s) == [i \in DOMAIN s |-> IF s[i] \in DOMAIN Lower THEN Lower[s[i]] ELSE s[i]]

(* stohex and atoi: the number in front of s; tokens spell digits.         *)
Digits == [zero |-> 0, one |-> 1, two |-> 2, three |-> 3, a |-> 10]
Number(s, base) ==
  LET digits == SelectInSeq(s, LAMBDA t : t \notin DOMAIN Digits)
      prefix == IF digits = 0 THEN s ELSE SubSeq(s, 1, digits - 1)
  IN  FoldLeft(LAMBDA n, d : base * n + Digits[d], 0, prefix)

-----------------------------------------------------------------------------
(* The parsers take a request to what it is after them; thrown is the      *)
(* status they throw.                                                      *)
Throw(q, code) == [q EXCEPT !.thrown = code]

(* The URI without what follows its last such delimiter.                   *)
Before(uri, token) ==
  IF find_last_of(uri, token) = npos THEN uri
  ELSE SubSeq(uri, 1, find_last_of(uri, token) - 1)
After(uri, token, default) ==
  IF find_last_of(uri, token) = npos THEN default
  ELSE SubSeq(uri, find_last_of(uri, token) + 1, Len(uri))

URItypeOf(q, named) ==
  CASE q.mMethod = <<"PUT">>    -> "FILE_TO_CREATE"
    [] q.mMethod = <<"DELETE">> -> "FILE_TO_DELETE"
    [] q.mMethod = <<"OPTIONS">> /\ named = <<"*">> -> "DIRECTORY"
    [] OTHER -> q.mURItype

Target(q, path) ==
  LET found  == find_last_of(path, "/")
      isFile == found # Len(path)
      named  == IF isFile THEN SubSeq(path, found + 1, Len(path)) ELSE q.mFileName
      typed  == IF isFile THEN [q EXCEPT !.mURItype = "FILE"] ELSE q
  IN  [typed EXCEPT
         !.mDirectory = IF isFile THEN SubSeq(path, 1, found - 1) ELSE path,
         !.mFileName  = IF q.mMethod = <<"OPTIONS">> /\ named = <<"*">> THEN <<>> ELSE named,
         !.mURItype   = URItypeOf(typed, named)]

ParseURI(q, uri) ==
  LET resource == Before(uri, "?")
      path     == Before(resource, ";")
      split    == [q EXCEPT !.mQuery     = After(uri, "?", q.mQuery),
                            !.mParameter = After(resource, ";", q.mParameter)]
  IN  IF Len(uri) > MaxUri THEN Throw(q, 414)
      ELSE IF find_last_of(path, "/") = npos THEN Throw(split, 400)
      ELSE Target(split, path)

(* HTTP/1.1 and below; what follows the number is not looked at.           *)
IsVersion(version) ==
  LET found  == find(version, <<"/">>, 1)
      number == SubSeq(version, found + 1, Len(version))
  IN  /\ Between(version, 1, found) = <<"HTTP">>
      /\ number # <<>> /\ Head(number) \in {"1.0", "1.1"}

Method(q) ==
  LET found == find(q.mHttpMessage, SP, 1)
  IN  IF found = npos THEN Throw(q, 400)
      ELSE [q EXCEPT !.mMethod = Between(q.mHttpMessage, q.mSeek, found),
                     !.mSeek   = found + 1]

URI(q) ==
  LET found  == find(q.mHttpMessage, SP, q.mSeek)
      parsed == ParseURI(q, Between(q.mHttpMessage, q.mSeek, found))
  IN  IF q.thrown # 0 THEN q
      ELSE IF found = npos THEN Throw(q, 414)
      ELSE IF parsed.thrown # 0 THEN parsed
      ELSE [parsed EXCEPT !.mSeek = found + 1]

Version(q) ==
  LET found == find(q.mHttpMessage, EOL, q.mSeek)
  IN  IF q.thrown # 0 THEN q
      ELSE IF found = npos \/ ~IsVersion(Between(q.mHttpMessage, q.mSeek, found))
      THEN Throw(q, 505)
      ELSE [q EXCEPT !.mSeek = found + 2, !.mPhase = "ON_HEADER"]

parseStartLine(q) ==
  IF q.mPhase = "READY" /\ find(q.mHttpMessage, EOL, 1) # npos
  THEN Version(URI(Method(q)))
  ELSE q

-----------------------------------------------------------------------------
(* A loop runs until it ends itself, after which another turn changes      *)
(* nothing; every other turn takes an EOL, so the turns are fewer than the *)
(* tokens.                                                                 *)
Loop(turn(_), q) ==
  LET after[n \in 0 .. Len(q.mHttpMessage)] ==
        IF n = 0 THEN q ELSE turn(after[n - 1])
  IN  after[Len(q.mHttpMessage)]

(* std::map::insert keeps the value that is there.                         *)
Insert_Last(headers, key, value) ==   (* mutant: the last value wins *)
  [k \in DOMAIN headers \cup {key} |-> IF k = key THEN value ELSE headers[k]]
Insert(headers, key, value) ==
  [k \in DOMAIN headers \cup {key} |-> IF k \in DOMAIN headers THEN headers[k] ELSE value]

AddHeader(q, line) ==
  LET found == find(line, <<":", " ">>, 1)
      key   == tolower(SubSeq(line, 1, found - 1))
      text  == SubSeq(line, found + 2, Len(line))
      port  == find(text, <<":">>, 1)
      value == IF key = <<"host">> /\ port # npos THEN SubSeq(text, 1, port - 1) ELSE text
  IN  IF found = npos THEN Throw(q, 400)
      ELSE [q EXCEPT
              !.mHeaders = Insert(@, key, value),
              !.mTransferType = IF key = <<"transfer-encoding">>
                                   /\ find(value, <<"chunked">>, 1) # npos
                                THEN "CHUNKED" ELSE @]

(* One turn of the loop over the header fields: the line up to the next    *)
(* EOL, which ends the header when it is empty.                            *)
HeaderTurn_SeekFirst(q) ==   (* mutant: mSeek is moved before the line is looked at *)
  LET found == find(q.mHttpMessage, EOL, q.mSeek)
      line  == SubSeq(q.mHttpMessage, q.mSeek, found - 1)
  IN  IF q.thrown # 0 \/ q.mPhase # "ON_HEADER" THEN q
      ELSE IF line = <<>> THEN [q EXCEPT !.mSeek = found + 2, !.mPhase = "ON_BODY"]
      ELSE [AddHeader(q, line) EXCEPT !.mSeek = found + 2]
HeaderTurn(q) ==
  LET found == find(q.mHttpMessage, EOL, q.mSeek)
      line  == SubSeq(q.mHttpMessage, q.mSeek, found - 1)
      added == AddHeader(q, line)
  IN  IF q.thrown # 0 \/ q.mPhase # "ON_HEADER" THEN q
      ELSE IF found = npos THEN Throw(q, 400)
      ELSE IF line = <<>> THEN [q EXCEPT !.mSeek = found + 2, !.mPhase = "ON_BODY"]
      ELSE IF added.thrown # 0 THEN added
      ELSE [added EXCEPT !.mSeek = found + 2]

parseHeader(q) ==
  IF \/ q.mPhase # "ON_HEADER" \/ q.thrown # 0
     \/ find(q.mHttpMessage, EOL \o EOL, q.mSeek) = npos
  THEN q
  ELSE Loop(HeaderTurn, q)

-----------------------------------------------------------------------------
isRequestHasBody(q) == q.mMethod \in {<<"POST">>, <<"PUT">>}

(* One turn of the loop over the chunks: the line of the size and the data *)
(* up to the next EOL, when both are there.                                *)
ChunkTurn_NoWait(q) ==   (* mutant: does not wait for the EOL of the data *)
  LET foundHex  == find(q.mHttpMessage, EOL, q.mSeek)
      foundBody == find(q.mHttpMessage, EOL, foundHex + 2)
      hexValue  == Number(SubSeq(q.mHttpMessage, q.mSeek, foundHex - 1), 16)
      body      == Between(q.mHttpMessage, foundHex + 2, foundBody)
  IN  IF q.thrown # 0 \/ q.mPhase = "COMPLETE" \/ foundHex = npos THEN q
      ELSE IF hexValue # Len(body) THEN Throw([q EXCEPT !.mSeek = foundHex + 2], 413)
      ELSE IF hexValue = 0 THEN [q EXCEPT !.mSeek = foundHex + 2, !.mPhase = "COMPLETE"]
      ELSE [q EXCEPT !.mSeek = foundHex + 2 + hexValue + 2, !.mBody = @ \o body]
ChunkTurn(q) ==
  LET foundHex  == find(q.mHttpMessage, EOL, q.mSeek)
      foundBody == find(q.mHttpMessage, EOL, foundHex + 2)
      hexValue  == Number(SubSeq(q.mHttpMessage, q.mSeek, foundHex - 1), 16)
      body      == SubSeq(q.mHttpMessage, foundHex + 2, foundBody - 1)
  IN  IF q.thrown # 0 \/ q.mPhase = "COMPLETE" \/ foundHex = npos \/ foundBody = npos THEN q
      ELSE IF hexValue # Len(body) THEN Throw([q EXCEPT !.mSeek = foundHex + 2], 413)
      ELSE IF hexValue = 0 THEN [q EXCEPT !.mSeek = foundHex + 2, !.mPhase = "COMPLETE"]
      ELSE [q EXCEPT !.mSeek = foundHex + 2 + hexValue + 2, !.mBody = @ \o body]

Chunked_Rescan(q) ==   (* mutant: mSeek is moved only while the loop runs *)
  [Loop(ChunkTurn, q) EXCEPT !.mSeek = q.mSeek]
Chunked(q) == Loop(ChunkTurn, q)

General_Waits(q) ==   (* mutant: >= for >, waits for a byte too many *)
  LET key    == <<"content-length">>
      length == Number(q.mHeaders[key], 10)
      body   == SubSeq(q.mHttpMessage, q.mSeek, Len(q.mHttpMessage))
  IN  IF key \notin DOMAIN q.mHeaders THEN Throw(q, 411)
      ELSE IF length >= Len(body) THEN q ELSE Throw(q, 413)
General(q) ==
  LET key    == <<"content-length">>
      length == Number(q.mHeaders[key], 10)
      body   == SubSeq(q.mHttpMessage, q.mSeek, Len(q.mHttpMessage))
  IN  IF key \notin DOMAIN q.mHeaders THEN Throw(q, 411)
      ELSE IF length > Len(body) THEN q
      ELSE IF length # Len(body) THEN Throw(q, 413)
      ELSE [q EXCEPT !.mBody = body, !.mPhase = "COMPLETE"]

parseBody(q) ==
  IF q.mPhase # "ON_BODY" \/ q.thrown # 0 THEN q
  ELSE IF ~isRequestHasBody(q) THEN [q EXCEPT !.mPhase = "COMPLETE"]
  ELSE IF q.mTransferType = "CHUNKED" THEN Chunked(q) ELSE General(q)

-----------------------------------------------------------------------------
(* What the parsers make of a request, and of bytes read in one piece.     *)
Parse(q) == parseBody(parseHeader(parseStartLine(q)))

More(q, piece) == [q EXCEPT !.mHttpMessage = @ \o piece]
Parsed(bytes) == Parse([NewRequest EXCEPT !.mHttpMessage = bytes])

-----------------------------------------------------------------------------
(* A client that has its answer sends its next message.                    *)
Send(m) ==
  /\ sent = NoMessage
  /\ sent' = m
  /\ wire' = wire \o m.tokens
  /\ UNCHANGED <<mRequest, answer>>

(* recvRequest reads n tokens.  Before the answer is sent it reads again   *)
(* only while the socket is not writable (hasSendWork comes first).        *)
recvRequest(n) ==
  LET q == Parse([More(mRequest, SubSeq(wire, 1, n)) EXCEPT !.thrown = 0])
  IN  /\ answer = 0 \/ sent \in Overtaken
      /\ n \in 1 .. Len(wire)
      /\ wire' = SubSeq(wire, n + 1, Len(wire))
      /\ mRequest' = q
      /\ answer' = IF q.thrown # 0 THEN q.thrown
                   ELSE IF q.mPhase = "COMPLETE" THEN ToSolve ELSE answer
      /\ UNCHANGED sent

(* runSend: the answer to a solved request leaves the connection open, with *)
(* what has not been read of it, unless its status is 400 or more.         *)
Kept ==
  /\ answer = ToSolve
  /\ UNCHANGED wire

Closed ==
  /\ answer # 0
  /\ wire' = <<>>

runSend ==
  /\ Kept \/ Closed
  /\ mRequest' = NewRequest
  /\ sent' = NoMessage
  /\ answer' = 0

(* The client gives up, and read() returns 0 once it has returned the rest. *)
EndOfFile ==
  /\ sent # NoMessage /\ wire = <<>>
  /\ mRequest' = NewRequest
  /\ sent' = NoMessage
  /\ answer' = 0
  /\ UNCHANGED wire

Next ==
  \/ \E m \in Messages : Send(m)
  \/ \E n \in 1 .. Len(wire) : recvRequest(n)
  \/ runSend
  \/ EndOfFile

Spec == Init /\ [][Next]_vars

-----------------------------------------------------------------------------
(* Properties.                                                             *)

(* Type invariant of the variables; mSeek stays in the message or at its   *)
(* end, so that no substr() of the parsers throws out_of_range, and the    *)
(* phase is COMPLETE exactly when the request is solved.                   *)
TypeOK ==
  /\ sent \in Messages \cup {NoMessage}
  /\ answer \in Codes \cup {0, ToSolve}
  /\ mRequest.mPhase \in {"READY", "ON_HEADER", "ON_BODY", "COMPLETE"}
  /\ mRequest.mSeek \in 1 .. Len(mRequest.mHttpMessage) + 1
  /\ (mRequest.mPhase = "COMPLETE") = (answer = ToSolve)

(* What a solved request says to solveRequest.                             *)
Meaning(q) ==
  [method |-> q.mMethod, directory |-> q.mDirectory, file |-> q.mFileName,
   query |-> q.mQuery, type |-> q.mURItype, headers |-> q.mHeaders, body |-> q.mBody]

(* recvRequest hands to solveRequest only what is well formed, with the    *)
(* meaning the client gave it, and when it has read all of it: whatever    *)
(* the pieces it came in, the next request starts at its own first byte.   *)
ParsedAsSent ==
  answer = ToSolve =>
    /\ sent.codes = {}
    /\ Meaning(mRequest) = sent.meaning
    /\ wire = <<>>

(* A request is answered with an error of the parsers only if it deserves  *)
(* one, with a status that fits: a well-formed request is never rejected   *)
(* because of where the pieces end.                                        *)
RejectedAsTold == answer \in Codes => answer \in sent.codes

(* recvRequest waits only for bytes that are still to come: once a request *)
(* with a header field is read to its end, it is solved or rejected.       *)
(* (Without a header field parseHeader waits for an EOL too many.)         *)
Drained == wire = <<>> /\ sent # NoMessage /\ sent.hasHeader => answer # 0

(* As long as a message is not rejected, what the parsers have made of its *)
(* pieces is what they make of the same bytes in one piece: whatever is    *)
(* kept between two reads (phase, mSeek, headers, body) is neither lost    *)
(* nor counted twice.                                                      *)
PiecesDoNotMatter ==
  answer \notin Codes => mRequest = Parsed(mRequest.mHttpMessage)

(* What ParsedAsSent, RejectedAsTold and Drained ask of a message that     *)
(* comes in pieces, asked of its beginnings, each read in one piece: the   *)
(* state after a first read is one of these.                               *)
ReadWhole(m) ==
  \A n \in 0 .. Len(m.tokens) :
    LET q == Parsed(SubSeq(m.tokens, 1, n))
    IN  /\ q.thrown # 0 => q.thrown \in m.codes
        /\ q.mPhase = "COMPLETE" =>
             n = Len(m.tokens) /\ m.codes = {} /\ Meaning(q) = m.meaning
        /\ n = Len(m.tokens) /\ m.hasHeader => q.thrown # 0 \/ q.mPhase = "COMPLETE"

(* A request that has been rejected is not solved after all when the rest  *)
(* of it is read before the answer is sent.                                *)
RejectedStays == [][(answer \in Codes) => (answer' # ToSolve)]_vars
=============================================================================
