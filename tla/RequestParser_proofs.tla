-------------------------- MODULE RequestParser_proofs --------------------------
(***************************************************************************)
(* What recvRequest and its parsers do for every set of messages, every    *)
(* way they may mean something, and every way to cut them into pieces.     *)
(*                                                                         *)
(* First each parser keeps mSeek in what has been read (WellPlaced), which *)
(* gives TypeOK.  Then each parser commutes with reading more (More): what *)
(* it took from the bytes so far it takes from the longer message too, and *)
(* where it waits it has changed nothing.  So to parse piece after piece   *)
(* is to parse the bytes so far in one piece (MoreParse), which gives      *)
(* PiecesDoNotMatter, and reduces what a request is read as to what it is  *)
(* read as in one piece (ReadWhole).                                       *)
(***************************************************************************)
EXTENDS RequestParser, SequenceTheorems, NatInduction

(***************************************************************************)
(* std::string::find.                                                      *)
(***************************************************************************)
LEMMA Found ==
  ASSUME NEW B, NEW s \in Seq(B), NEW P, NEW pattern \in Seq(P), NEW from \in Nat, from >= 1
  PROVE  \/ find(s, pattern, from) = npos /\ Occurrences(s, pattern, from) = {}
         \/ /\ find(s, pattern, from) \in Occurrences(s, pattern, from)
            /\ find(s, pattern, from) \in from .. (Len(s) - Len(pattern) + 1)
            /\ \A j \in Occurrences(s, pattern, from) : find(s, pattern, from) <= j
<1> DEFINE found == Occurrences(s, pattern, from)
<1>1. Len(s) \in Nat /\ Len(pattern) \in Nat
  BY LenProperties
<1>2. found \in SUBSET Nat /\ found \subseteq from .. (Len(s) - Len(pattern) + 1)
  BY <1>1 DEF Occurrences
<1>3. CASE found = {}
  BY <1>3 DEF find
<1>4. CASE found # {}
  <2> HIDE DEF found
  <2>1. \E i \in found : \A j \in found : i <= j
    BY <1>2, <1>4, LeastNumber
  <2>2. (CHOOSE i \in found : \A j \in found : i <= j) \in found
        /\ \A j \in found : (CHOOSE i \in found : \A k \in found : i <= k) <= j
    BY <2>1, Zenon
  <2>3. find(s, pattern, from) = CHOOSE i \in found : \A j \in found : i <= j
    BY <1>4 DEF find, found
  <2>4. find(s, pattern, from) \in found /\ \A j \in found : find(s, pattern, from) <= j
    BY <2>2, <2>3
  <2> QED
    BY <2>4, <1>2 DEF found
<1> QED
  BY <1>3, <1>4

(* What has been read does not change when more is read.                   *)
LEMMA SubSeqMore ==
  ASSUME NEW B, NEW s \in Seq(B), NEW t \in Seq(B),
         NEW i \in Nat, i >= 1, NEW j \in Nat, j <= Len(s)
  PROVE  SubSeq(s \o t, i, j) = SubSeq(s, i, j)
<1>1. /\ Len(s) \in Nat /\ Len(t) \in Nat /\ s \o t \in Seq(B)
      /\ Len(s \o t) = Len(s) + Len(t)
  BY LenProperties, ConcatProperties
<1>2. \A k \in i .. j : (s \o t)[k] = s[k]
  BY <1>1, ConcatProperties
<1> QED
  BY <1>1, <1>2, SMTT(30)

LEMMA FoundMore ==
  ASSUME NEW B, NEW s \in Seq(B), NEW t \in Seq(B), NEW P, NEW pattern \in Seq(P), pattern # <<>>,
         NEW from \in Nat, from >= 1, find(s, pattern, from) # npos
  PROVE  find(s \o t, pattern, from) = find(s, pattern, from)
<1> DEFINE i == find(s, pattern, from)
           j == find(s \o t, pattern, from)
<1>1. /\ Len(s) \in Nat /\ Len(t) \in Nat /\ Len(pattern) \in Nat /\ s \o t \in Seq(B)
      /\ Len(s \o t) = Len(s) + Len(t)
  BY LenProperties, ConcatProperties
<1>2. /\ i \in Occurrences(s, pattern, from)
      /\ i \in from .. (Len(s) - Len(pattern) + 1)
      /\ \A k \in Occurrences(s, pattern, from) : i <= k
  BY Found
<1>3. \A k \in from .. (Len(s) - Len(pattern) + 1) :
        SubSeq(s \o t, k, k + Len(pattern) - 1) = SubSeq(s, k, k + Len(pattern) - 1)
  BY <1>1, SubSeqMore
<1>4. i \in Occurrences(s \o t, pattern, from)
  BY <1>1, <1>2, <1>3 DEF Occurrences
<1>5. /\ j \in Occurrences(s \o t, pattern, from)
      /\ j \in from .. (Len(s \o t) - Len(pattern) + 1)
      /\ \A k \in Occurrences(s \o t, pattern, from) : j <= k
  BY <1>1, <1>4, Found
<1>6. j <= i
  BY <1>4, <1>5
<1>7. j \in Occurrences(s, pattern, from)
  BY <1>1, <1>2, <1>3, <1>5, <1>6 DEF Occurrences
<1> QED
  BY <1>2, <1>5, <1>6, <1>7

Delimiters == {" ", "CR", "LF"}
LEMMA Patterns ==
  /\ SP \in Seq(Delimiters) /\ Len(SP) = 1 /\ SP # <<>>
  /\ EOL \in Seq(Delimiters) /\ Len(EOL) = 2 /\ EOL # <<>>
  /\ EOL \o EOL \in Seq(Delimiters) /\ Len(EOL \o EOL) = 4 /\ EOL \o EOL # <<>>
<1>1. SP \in Seq(Delimiters) /\ Len(SP) = 1 /\ SP # <<>>
  BY DEF SP, Delimiters
<1>2. EOL \in Seq(Delimiters) /\ Len(EOL) = 2 /\ EOL # <<>>
  BY DEF EOL, Delimiters
<1>3. EOL \o EOL \in Seq(Delimiters) /\ Len(EOL \o EOL) = 4
  <2>1. EOL \in Seq(Delimiters) /\ Len(EOL) = 2
    BY <1>2
  <2>2. EOL \o EOL \in Seq(Delimiters) /\ Len(EOL \o EOL) = Len(EOL) + Len(EOL)
    BY <2>1, ConcatProperties, Zenon
  <2> QED
    BY <2>1, <2>2
<1>4. EOL \o EOL # <<>>
  BY <1>3, EmptySeq
<1> QED
  BY <1>1, <1>2, <1>3, <1>4

(***************************************************************************)
(* A request is well placed when mSeek is in what has been read or behind  *)
(* its end.  The parsers keep it so; they never take back COMPLETE, and    *)
(* they throw before it.                                                   *)
(***************************************************************************)
Phases == {"READY", "ON_HEADER", "ON_BODY", "COMPLETE"}
IsRequest(q) == DOMAIN q = DOMAIN NewRequest /\ q = [f \in DOMAIN NewRequest |-> q[f]]
WellPlaced(q, B) ==
  /\ IsRequest(q)
  /\ q.mHttpMessage \in Seq(B)
  /\ q.mSeek \in 1 .. Len(q.mHttpMessage) + 1
  /\ q.mPhase \in Phases
  /\ q.thrown \in Codes \cup {0}
  /\ q.thrown # 0 => q.mPhase # "COMPLETE"

Keeps(q, r, B) ==
  /\ WellPlaced(r, B)
  /\ r.mHttpMessage = q.mHttpMessage
  /\ q.mPhase = "COMPLETE" => r = q

LEMMA FoundPlace ==
  ASSUME NEW B, NEW q, WellPlaced(q, B), NEW P, NEW pattern \in Seq(P), pattern # <<>>,
         NEW from \in Nat, from >= 1
  PROVE  LET found == find(q.mHttpMessage, pattern, from)
         IN  found # npos => /\ found \in Nat /\ found >= from
                             /\ found + Len(pattern) \in 1 .. Len(q.mHttpMessage) + 1
<1>1. Len(q.mHttpMessage) \in Nat /\ Len(pattern) \in Nat
  BY LenProperties DEF WellPlaced
<1>2. q.mHttpMessage \in Seq(B)
  BY DEF WellPlaced
<1> QED
  BY <1>1, <1>2, Found DEF npos

LEMMA ThrowKeeps ==
  ASSUME NEW B, NEW q, WellPlaced(q, B), q.mPhase # "COMPLETE", NEW code \in Codes
  PROVE  /\ Keeps(q, Throw(q, code), B)
         /\ Throw(q, code).thrown = code /\ Throw(q, code).mPhase = q.mPhase
<1>1. Throw(q, code).thrown = code /\ Throw(q, code).mPhase = q.mPhase
  BY DEF WellPlaced, IsRequest, Throw, NewRequest
<1> QED
  BY <1>1 DEF Keeps, WellPlaced, IsRequest, Throw, NewRequest

LEMMA MethodKeeps ==
  ASSUME NEW B, NEW q, WellPlaced(q, B), q.mPhase = "READY"
  PROVE  Keeps(q, Method(q), B) /\ Method(q).mPhase = "READY"
<1> DEFINE found == find(q.mHttpMessage, SP, 1)
<1>1. CASE found = npos
  <2>1. Method(q) = Throw(q, 400) /\ 400 \in Codes
    BY <1>1 DEF Method, Codes
  <2> QED
    BY <2>1, ThrowKeeps
<1>2. CASE found # npos
  <2>1. found + 1 \in 1 .. Len(q.mHttpMessage) + 1
    BY <1>2, FoundPlace, Patterns
  <2> HIDE DEF found
  <2>2. Method(q) = [q EXCEPT !.mMethod = Between(q.mHttpMessage, q.mSeek, found),
                              !.mSeek   = found + 1]
    BY <1>2 DEF Method, found
  <2> QED
    BY <2>1, <2>2 DEF Keeps, WellPlaced, IsRequest, NewRequest
<1> QED
  BY <1>1, <1>2
(* A part of the start line leaves mSeek, the phase and the message alone  *)
(* unless it ends well, and then it is well placed.                        *)
Stays(q, r, B) ==
  /\ Keeps(q, r, B)
  /\ r.mSeek = q.mSeek /\ r.mPhase = q.mPhase

LEMMA TargetKeeps ==
  ASSUME NEW B, NEW q, WellPlaced(q, B), q.mPhase = "READY", NEW path
  PROVE  Stays(q, Target(q, path), B) /\ Target(q, path).thrown = q.thrown
<1> DEFINE found == find_last_of(path, "/")
           isFile == found # Len(path)
           named == IF isFile THEN SubSeq(path, found + 1, Len(path)) ELSE q.mFileName
           typed == IF isFile THEN [q EXCEPT !.mURItype = "FILE"] ELSE q
           directory == IF isFile THEN SubSeq(path, 1, found - 1) ELSE path
           file == IF q.mMethod = <<"OPTIONS">> /\ named = <<"*">> THEN <<>> ELSE named
           type == URItypeOf(typed, named)
<1>1. Target(q, path) = [typed EXCEPT !.mDirectory = directory, !.mFileName = file,
                                      !.mURItype = type]
  BY DEF Target
<1>2. Stays(q, typed, B) /\ typed.thrown = q.thrown
  <2> HIDE DEF isFile
  <2> QED
    BY DEF Stays, Keeps, WellPlaced, IsRequest, NewRequest
<1> HIDE DEF typed, directory, file, type
<1> QED
  BY <1>1, <1>2 DEF Stays, Keeps, WellPlaced, IsRequest, NewRequest

LEMMA ThrowStays ==
  ASSUME NEW B, NEW q, WellPlaced(q, B), q.mPhase # "COMPLETE", NEW code \in Codes
  PROVE  Stays(q, Throw(q, code), B)
<1>1. Throw(q, code).mSeek = q.mSeek
  BY DEF WellPlaced, IsRequest, NewRequest, Throw
<1> QED
  BY <1>1, ThrowKeeps DEF Stays

LEMMA ParseURIKeeps ==
  ASSUME NEW B, NEW q, WellPlaced(q, B), q.mPhase = "READY", NEW uri
  PROVE  Stays(q, ParseURI(q, uri), B)
<1> DEFINE resource == Before(uri, "?")
           path == Before(resource, ";")
           query == After(uri, "?", q.mQuery)
           parameter == After(resource, ";", q.mParameter)
           split == [q EXCEPT !.mQuery = query, !.mParameter = parameter]
<1>1. ParseURI(q, uri) = IF Len(uri) > MaxUri THEN Throw(q, 414)
                         ELSE IF find_last_of(path, "/") = npos THEN Throw(split, 400)
                         ELSE Target(split, path)
  BY DEF ParseURI
<1> HIDE DEF path, query, parameter
<1>2. Stays(q, split, B) /\ WellPlaced(split, B) /\ split.mPhase = "READY"
  BY DEF Stays, Keeps, WellPlaced, IsRequest, NewRequest
<1>3. \A code \in Codes : Stays(q, Throw(q, code), B) /\ Stays(split, Throw(split, code), B)
  BY <1>2, ThrowStays
<1>4. Stays(split, Target(split, path), B)
  BY <1>2, TargetKeeps
<1>5. \A r : Stays(split, r, B) => Stays(q, r, B)
  BY <1>2 DEF Stays, Keeps
<1>6. 400 \in Codes /\ 414 \in Codes
  BY DEF Codes
<1> HIDE DEF split
<1> QED
  BY <1>1, <1>3, <1>4, <1>5, <1>6

LEMMA URIKeeps ==
  ASSUME NEW B, NEW q, WellPlaced(q, B), q.mPhase = "READY"
  PROVE  Keeps(q, URI(q), B) /\ URI(q).mPhase = "READY"
<1> DEFINE found == find(q.mHttpMessage, SP, q.mSeek)
           parsed == ParseURI(q, Between(q.mHttpMessage, q.mSeek, found))
<1>1. URI(q) = IF q.thrown # 0 THEN q
               ELSE IF found = npos THEN Throw(q, 414)
               ELSE IF parsed.thrown # 0 THEN parsed
               ELSE [parsed EXCEPT !.mSeek = found + 1]
  BY DEF URI
<1>2. Stays(q, parsed, B)
  BY ParseURIKeeps
<1>3. q.mSeek \in Nat /\ q.mSeek >= 1
  BY LenProperties DEF WellPlaced
<1>4. found # npos => found + 1 \in 1 .. Len(q.mHttpMessage) + 1
  BY <1>3, FoundPlace, Patterns
<1>5. 414 \in Codes
  BY DEF Codes
<1> HIDE DEF found, parsed
<1>6. CASE q.thrown # 0
  BY <1>1, <1>6 DEF Keeps
<1>7. CASE q.thrown = 0 /\ found = npos
  BY <1>1, <1>5, <1>7, ThrowKeeps
<1>8. CASE q.thrown = 0 /\ found # npos /\ parsed.thrown # 0
  BY <1>1, <1>2, <1>8 DEF Stays
<1>9. CASE q.thrown = 0 /\ found # npos /\ parsed.thrown = 0
  <2>1. URI(q) = [parsed EXCEPT !.mSeek = found + 1]
    BY <1>1, <1>9
  <2> QED
    BY <2>1, <1>2, <1>4, <1>9 DEF Stays, Keeps, WellPlaced, IsRequest, NewRequest
<1> QED
  BY <1>6, <1>7, <1>8, <1>9

LEMMA VersionKeeps ==
  ASSUME NEW B, NEW q, WellPlaced(q, B), q.mPhase = "READY"
  PROVE  Keeps(q, Version(q), B)
<1> DEFINE found == find(q.mHttpMessage, EOL, q.mSeek)
           version == Between(q.mHttpMessage, q.mSeek, found)
<1>1. Version(q) = IF q.thrown # 0 THEN q
                   ELSE IF found = npos \/ ~IsVersion(version) THEN Throw(q, 505)
                   ELSE [q EXCEPT !.mSeek = found + 2, !.mPhase = "ON_HEADER"]
  BY DEF Version
<1>2. q.mSeek \in Nat /\ q.mSeek >= 1
  BY LenProperties DEF WellPlaced
<1>3. found # npos => found + 2 \in 1 .. Len(q.mHttpMessage) + 1
  BY <1>2, FoundPlace, Patterns
<1>4. 505 \in Codes
  BY DEF Codes
<1> HIDE DEF found, version
<1>5. CASE q.thrown # 0
  BY <1>1, <1>5 DEF Keeps
<1>6. CASE q.thrown = 0 /\ (found = npos \/ ~IsVersion(version))
  BY <1>1, <1>4, <1>6, ThrowKeeps
<1>7. CASE q.thrown = 0 /\ found # npos /\ IsVersion(version)
  <2>1. Version(q) = [q EXCEPT !.mSeek = found + 2, !.mPhase = "ON_HEADER"]
    BY <1>1, <1>7
  <2> QED
    BY <2>1, <1>3, <1>7 DEF Keeps, WellPlaced, IsRequest, NewRequest, Phases
<1> QED
  BY <1>5, <1>6, <1>7

LEMMA StartLineKeeps ==
  ASSUME NEW B, NEW q, WellPlaced(q, B)
  PROVE  Keeps(q, parseStartLine(q), B)
<1>1. CASE q.mPhase = "READY" /\ find(q.mHttpMessage, EOL, 1) # npos
  <2>1. Keeps(q, Method(q), B) /\ Method(q).mPhase = "READY"
    BY <1>1, MethodKeeps
  <2>2. Keeps(Method(q), URI(Method(q)), B) /\ URI(Method(q)).mPhase = "READY"
    BY <2>1, URIKeeps DEF Keeps
  <2>3. Keeps(URI(Method(q)), Version(URI(Method(q))), B)
    BY <2>2, VersionKeeps DEF Keeps
  <2>4. parseStartLine(q) = Version(URI(Method(q)))
    BY <1>1 DEF parseStartLine
  <2> QED
    BY <1>1, <2>1, <2>2, <2>3, <2>4 DEF Keeps
<1>2. CASE ~(q.mPhase = "READY" /\ find(q.mHttpMessage, EOL, 1) # npos)
  <2>1. parseStartLine(q) = q
    BY <1>2 DEF parseStartLine
  <2> QED
    BY <2>1 DEF Keeps
<1> QED
  BY <1>1, <1>2
(***************************************************************************)
(* The two loops, as one: their turns, and what one turn does.             *)
(***************************************************************************)
Turn(kind, q) == IF kind = "header" THEN HeaderTurn(q) ELSE ChunkTurn(q)
IsTurns(f, n, kind, q) == f = [i \in 0 .. n |-> IF i = 0 THEN q ELSE Turn(kind, f[i - 1])]

LEMMA TurnsExist ==
  ASSUME NEW kind, NEW q
  PROVE  \A n \in Nat : \E f : IsTurns(f, n, kind, q)
<1> DEFINE S == {n \in Nat : \E f : IsTurns(f, n, kind, q)}
<1>1. 0 \in S
  <2>1. IsTurns([i \in 0 .. 0 |-> q], 0, kind, q)
    BY DEF IsTurns
  <2> QED
    BY <2>1
<1>2. \A n \in Nat : n \in S => n + 1 \in S
  <2>1. SUFFICES ASSUME NEW n \in Nat, NEW f, IsTurns(f, n, kind, q)
                 PROVE  n + 1 \in S
    OBVIOUS
  <2> DEFINE g == [i \in 0 .. (n + 1) |-> IF i = n + 1 THEN Turn(kind, f[n]) ELSE f[i]]
  <2>2. DOMAIN f = 0 .. n
        /\ \A i \in 0 .. n : f[i] = IF i = 0 THEN q ELSE Turn(kind, f[i - 1])
    BY <2>1 DEF IsTurns
  <2>3. \A i \in 0 .. (n + 1) : g[i] = IF i = 0 THEN q ELSE Turn(kind, g[i - 1])
    BY <2>2
  <2>4. IsTurns(g, n + 1, kind, q)
    BY <2>3 DEF IsTurns
  <2> QED
    BY <2>4
<1> HIDE DEF S
<1>3. \A n \in Nat : n \in S
  BY <1>1, <1>2, NatSetInduction
<1> QED
  BY <1>3 DEF S

LEMMA HeaderLoop ==
  ASSUME NEW q, Len(q.mHttpMessage) \in Nat
  PROVE  \E f : /\ IsTurns(f, Len(q.mHttpMessage), "header", q)
                /\ Loop(HeaderTurn, q) = f[Len(q.mHttpMessage)]
<1> DEFINE n == Len(q.mHttpMessage)
           f == CHOOSE f : f = [i \in 0 .. n |-> IF i = 0 THEN q ELSE HeaderTurn(f[i - 1])]
<1>1. Loop(HeaderTurn, q) = f[n]
  BY DEF Loop
<1>2. PICK g : IsTurns(g, n, "header", q)
  BY TurnsExist
<1>3. g = [i \in 0 .. n |-> IF i = 0 THEN q ELSE HeaderTurn(g[i - 1])]
  BY <1>2, Zenon DEF IsTurns, Turn
<1>4. f = [i \in 0 .. n |-> IF i = 0 THEN q ELSE HeaderTurn(f[i - 1])]
  BY <1>3, Zenon
<1>5. IsTurns(f, n, "header", q)
  <2> HIDE DEF f, n
  <2> QED
    BY <1>4, Zenon DEF IsTurns, Turn
<1> QED
  BY <1>1, <1>5

LEMMA ChunkLoop ==
  ASSUME NEW q, Len(q.mHttpMessage) \in Nat
  PROVE  \E f : /\ IsTurns(f, Len(q.mHttpMessage), "chunk", q)
                /\ Loop(ChunkTurn, q) = f[Len(q.mHttpMessage)]
<1> DEFINE n == Len(q.mHttpMessage)
           f == CHOOSE f : f = [i \in 0 .. n |-> IF i = 0 THEN q ELSE ChunkTurn(f[i - 1])]
<1>1. Loop(ChunkTurn, q) = f[n]
  BY DEF Loop
<1>2. PICK g : IsTurns(g, n, "chunk", q)
  BY TurnsExist
<1>0. "chunk" # "header"
  OBVIOUS
<1>3. g = [i \in 0 .. n |-> IF i = 0 THEN q ELSE ChunkTurn(g[i - 1])]
  BY <1>0, <1>2, Zenon DEF IsTurns, Turn
<1>4. f = [i \in 0 .. n |-> IF i = 0 THEN q ELSE ChunkTurn(f[i - 1])]
  BY <1>3, Zenon
<1>5. IsTurns(f, n, "chunk", q)
  <2> HIDE DEF f, n
  <2> QED
    BY <1>0, <1>4, Zenon DEF IsTurns, Turn
<1> QED
  BY <1>1, <1>5

LEMMA AddHeaderKeeps ==
  ASSUME NEW B, NEW q, WellPlaced(q, B), q.mPhase = "ON_HEADER", NEW line
  PROVE  Stays(q, AddHeader(q, line), B)
<1> DEFINE found == find(line, <<":", " ">>, 1)
           key   == tolower(SubSeq(line, 1, found - 1))
           text  == SubSeq(line, found + 2, Len(line))
           port  == find(text, <<":">>, 1)
           value == IF key = <<"host">> /\ port # npos THEN SubSeq(text, 1, port - 1) ELSE text
           headers == Insert(q.mHeaders, key, value)
           type == IF key = <<"transfer-encoding">> /\ find(value, <<"chunked">>, 1) # npos
                   THEN "CHUNKED" ELSE q.mTransferType
<1>1. AddHeader(q, line) = IF found = npos THEN Throw(q, 400)
                           ELSE [q EXCEPT !.mHeaders = headers, !.mTransferType = type]
  BY DEF AddHeader
<1> HIDE DEF found, headers, type
<1>2. 400 \in Codes
  BY DEF Codes
<1>3. Stays(q, Throw(q, 400), B)
  BY <1>2 DEF Stays, Keeps, WellPlaced, IsRequest, NewRequest, Throw
<1>4. Stays(q, [q EXCEPT !.mHeaders = headers, !.mTransferType = type], B)
  BY DEF Stays, Keeps, WellPlaced, IsRequest, NewRequest
<1> QED
  BY <1>1, <1>3, <1>4

(* A turn either is the last, and then the next changes nothing, or moves  *)
(* mSeek behind an EOL.                                                    *)
Turned(q, r, B) ==
  /\ Keeps(q, r, B)
  /\ r = q \/ r.thrown # 0 \/ r.mSeek >= q.mSeek + 2

LEMMA HeaderTurnKeeps ==
  ASSUME NEW B, NEW q, WellPlaced(q, B)
  PROVE  Turned(q, HeaderTurn(q), B)
<1> DEFINE found == find(q.mHttpMessage, EOL, q.mSeek)
           line  == SubSeq(q.mHttpMessage, q.mSeek, found - 1)
           added == AddHeader(q, line)
<1>1. HeaderTurn(q) = IF q.thrown # 0 \/ q.mPhase # "ON_HEADER" THEN q
      ELSE IF found = npos THEN Throw(q, 400)
      ELSE IF line = <<>> THEN [q EXCEPT !.mSeek = found + 2, !.mPhase = "ON_BODY"]
      ELSE IF added.thrown # 0 THEN added
      ELSE [added EXCEPT !.mSeek = found + 2]
  BY DEF HeaderTurn
<1>2. q.mSeek \in Nat /\ q.mSeek >= 1
  BY LenProperties DEF WellPlaced
<1>3. found # npos => found + 2 \in 1 .. Len(q.mHttpMessage) + 1 /\ found + 2 >= q.mSeek + 2
  BY <1>2, FoundPlace, Patterns
<1>4. q.mPhase = "ON_HEADER" => Stays(q, added, B)
  BY AddHeaderKeeps
<1>5. 400 \in Codes
  BY DEF Codes
<1> HIDE DEF found, line, added
<1>6. CASE q.thrown # 0 \/ q.mPhase # "ON_HEADER"
  BY <1>1, <1>6 DEF Turned, Keeps
<1>7. CASE ~(q.thrown # 0 \/ q.mPhase # "ON_HEADER") /\ found = npos
  <2>1. HeaderTurn(q) = Throw(q, 400)
    BY <1>1, <1>7
  <2> QED
    BY <2>1, <1>5, <1>7, ThrowKeeps DEF Turned, Codes
<1>8. CASE ~(q.thrown # 0 \/ q.mPhase # "ON_HEADER") /\ found # npos /\ line = <<>>
  <2>1. HeaderTurn(q) = [q EXCEPT !.mSeek = found + 2, !.mPhase = "ON_BODY"]
    BY <1>1, <1>8
  <2> QED
    BY <2>1, <1>3, <1>8 DEF Turned, Keeps, WellPlaced, IsRequest, NewRequest, Phases
<1>9. CASE ~(q.thrown # 0 \/ q.mPhase # "ON_HEADER") /\ found # npos /\ line # <<>>
           /\ added.thrown # 0
  BY <1>1, <1>4, <1>9 DEF Turned, Stays
<1>10. CASE ~(q.thrown # 0 \/ q.mPhase # "ON_HEADER") /\ found # npos /\ line # <<>>
            /\ added.thrown = 0
  <2>1. HeaderTurn(q) = [added EXCEPT !.mSeek = found + 2]
    BY <1>1, <1>10
  <2> QED
    BY <2>1, <1>3, <1>4, <1>10 DEF Turned, Stays, Keeps, WellPlaced, IsRequest, NewRequest
<1> QED
  BY <1>6, <1>7, <1>8, <1>9, <1>10

LEMMA ChunkTurnKeeps ==
  ASSUME NEW B, NEW q, WellPlaced(q, B)
  PROVE  Turned(q, ChunkTurn(q), B)
<1> DEFINE foundHex  == find(q.mHttpMessage, EOL, q.mSeek)
           foundBody == find(q.mHttpMessage, EOL, foundHex + 2)
           hexValue  == Number(SubSeq(q.mHttpMessage, q.mSeek, foundHex - 1), 16)
           body      == SubSeq(q.mHttpMessage, foundHex + 2, foundBody - 1)
<1>1. ChunkTurn(q) =
        IF q.thrown # 0 \/ q.mPhase = "COMPLETE" \/ foundHex = npos \/ foundBody = npos THEN q
        ELSE IF hexValue # Len(body) THEN Throw([q EXCEPT !.mSeek = foundHex + 2], 413)
        ELSE IF hexValue = 0 THEN [q EXCEPT !.mSeek = foundHex + 2, !.mPhase = "COMPLETE"]
        ELSE [q EXCEPT !.mSeek = foundHex + 2 + hexValue + 2, !.mBody = @ \o body]
  BY DEF ChunkTurn
<1>2. q.mSeek \in Nat /\ q.mSeek >= 1
  BY LenProperties DEF WellPlaced
<1>3. foundHex # npos => foundHex \in Nat /\ foundHex + 2 \in 1 .. Len(q.mHttpMessage) + 1
                         /\ foundHex >= q.mSeek
  BY <1>2, FoundPlace, Patterns
<1>4. foundHex # npos /\ foundBody # npos =>
        /\ foundBody \in Nat /\ foundBody + 2 \in 1 .. Len(q.mHttpMessage) + 1
        /\ foundBody >= foundHex + 2
  BY <1>3, FoundPlace, Patterns
<1>5. foundHex # npos /\ foundBody # npos =>
        Len(body) = foundBody - (foundHex + 2)
  <2>1. SUFFICES ASSUME foundHex # npos, foundBody # npos
                 PROVE  Len(body) = foundBody - (foundHex + 2)
    OBVIOUS
  <2>2. q.mHttpMessage \in Seq(B) /\ Len(q.mHttpMessage) \in Nat
    BY LenProperties DEF WellPlaced
  <2> HIDE DEF foundHex, foundBody
  <2> QED
    BY <1>3, <1>4, <2>1, <2>2, SubSeqProperties
<1>6. 413 \in Codes
  BY DEF Codes
<1> DEFINE more == q.mBody \o body
<1> HIDE DEF foundHex, foundBody, hexValue, body, more
<1>7. CASE q.thrown # 0 \/ q.mPhase = "COMPLETE" \/ foundHex = npos \/ foundBody = npos
  BY <1>1, <1>7 DEF Turned, Keeps
<1>8. CASE /\ ~(q.thrown # 0 \/ q.mPhase = "COMPLETE" \/ foundHex = npos \/ foundBody = npos)
           /\ hexValue # Len(body)
  <2> DEFINE p == [q EXCEPT !.mSeek = foundHex + 2]
  <2>1. ChunkTurn(q) = Throw(p, 413)
    BY <1>1, <1>8
  <2>2. Keeps(q, p, B) /\ p.mPhase # "COMPLETE" /\ WellPlaced(p, B)
    BY <1>3, <1>8 DEF Keeps, WellPlaced, IsRequest, NewRequest
  <2> HIDE DEF p
  <2>3. Keeps(p, ChunkTurn(q), B) /\ ChunkTurn(q).thrown = 413
    BY <2>1, <2>2, <1>6, ThrowKeeps
  <2> QED
    BY <2>2, <2>3, <1>8 DEF Turned, Keeps
<1>9. CASE /\ ~(q.thrown # 0 \/ q.mPhase = "COMPLETE" \/ foundHex = npos \/ foundBody = npos)
           /\ hexValue = Len(body) /\ hexValue = 0
  <2>1. ChunkTurn(q) = [q EXCEPT !.mSeek = foundHex + 2, !.mPhase = "COMPLETE"]
    BY <1>1, <1>9
  <2>2. foundHex + 2 \in 1 .. Len(q.mHttpMessage) + 1 /\ foundHex + 2 >= q.mSeek + 2
    BY <1>2, <1>3, <1>9
  <2> QED
    BY <2>1, <2>2, <1>9 DEF Turned, Keeps, WellPlaced, IsRequest, NewRequest, Phases
<1>10. CASE /\ ~(q.thrown # 0 \/ q.mPhase = "COMPLETE" \/ foundHex = npos \/ foundBody = npos)
            /\ hexValue = Len(body) /\ hexValue # 0
  <2>1. ChunkTurn(q) = [q EXCEPT !.mSeek = foundHex + 2 + hexValue + 2, !.mBody = more]
    BY <1>1, <1>10 DEF more
  <2>2. /\ foundHex + 2 + hexValue + 2 \in 1 .. Len(q.mHttpMessage) + 1
        /\ foundHex + 2 + hexValue + 2 >= q.mSeek + 2
    BY <1>2, <1>3, <1>4, <1>5, <1>10
  <2> QED
    BY <2>1, <2>2, <1>10 DEF Turned, Keeps, WellPlaced, IsRequest, NewRequest
<1> QED
  BY <1>7, <1>8, <1>9, <1>10

LEMMA TurnKeeps ==
  ASSUME NEW B, NEW q, WellPlaced(q, B), NEW kind
  PROVE  /\ Turned(q, Turn(kind, q), B)
         /\ q.thrown # 0 => Turn(kind, q) = q
<1>1. q.thrown # 0 => HeaderTurn(q) = q /\ ChunkTurn(q) = q
  BY DEF HeaderTurn, ChunkTurn
<1> QED
  BY <1>1, HeaderTurnKeeps, ChunkTurnKeeps DEF Turn
(* After n turns, either the loop has ended or mSeek is behind n EOLs.     *)
LEMMA TurnsKeep ==
  ASSUME NEW B, NEW q, WellPlaced(q, B), NEW kind, NEW N \in Nat, NEW f, IsTurns(f, N, kind, q)
  PROVE  \A n \in 0 .. N :
           /\ Keeps(q, f[n], B)
           /\ Turn(kind, f[n]) = f[n] \/ f[n].mSeek >= q.mSeek + 2 * n
<1> DEFINE P(n) == /\ Keeps(q, f[n], B)
                   /\ Turn(kind, f[n]) = f[n] \/ f[n].mSeek >= q.mSeek + 2 * n
           S == {n \in Nat : n \in 0 .. N => P(n)}
<1>1. f[0] = q /\ \A n \in 0 .. N : n + 1 \in 0 .. N => f[n + 1] = Turn(kind, f[n])
  BY DEF IsTurns
<1>2. 0 \in S
  <2>1. Keeps(q, q, B) /\ q.mSeek \in Nat
    BY LenProperties DEF Keeps, WellPlaced
  <2> QED
    BY <1>1, <2>1
<1>3. \A n \in Nat : n \in S => n + 1 \in S
  <2>1. SUFFICES ASSUME NEW n \in Nat, n \in S, n + 1 \in 0 .. N
                 PROVE  P(n + 1)
    OBVIOUS
  <2>2. n \in 0 .. N /\ f[n + 1] = Turn(kind, f[n])
    BY <1>1, <2>1
  <2>3. P(n)
    BY <2>1, <2>2
  <2>4. WellPlaced(f[n], B)
    BY <2>3 DEF Keeps
  <2>5. Turned(f[n], f[n + 1], B)
    BY <2>2, <2>4, TurnKeeps
  <2>6. Keeps(q, f[n + 1], B)
    BY <2>3, <2>5 DEF Turned, Keeps
  <2>7. CASE Turn(kind, f[n]) = f[n]
    BY <2>2, <2>6, <2>7
  <2>8. CASE f[n + 1].thrown # 0
    <3>1. WellPlaced(f[n + 1], B)
      BY <2>6 DEF Keeps
    <3>2. Turn(kind, f[n + 1]) = f[n + 1]
      BY <2>8, <3>1, TurnKeeps
    <3> QED
      BY <2>6, <3>2
  <2>9. CASE f[n].mSeek >= q.mSeek + 2 * n /\ f[n + 1].mSeek >= f[n].mSeek + 2
    <3>1. q.mSeek \in Nat /\ f[n].mSeek \in Nat /\ f[n + 1].mSeek \in Nat
      BY LenProperties, <2>3, <2>6 DEF Keeps, WellPlaced
    <3>2. f[n + 1].mSeek >= q.mSeek + 2 * (n + 1)
      BY <3>1, <2>9
    <3> QED
      BY <2>6, <3>2
  <2>10. Turn(kind, f[n]) = f[n] \/ f[n].mSeek >= q.mSeek + 2 * n
    BY <2>3
  <2>11. f[n + 1] = f[n] \/ f[n + 1].thrown # 0 \/ f[n + 1].mSeek >= f[n].mSeek + 2
    BY <2>5 DEF Turned
  <2> HIDE DEF P
  <2> QED
    BY <2>2, <2>7, <2>8, <2>9, <2>10, <2>11
<1> HIDE DEF S
<1>4. \A n \in Nat : n \in S
  BY <1>2, <1>3, NatSetInduction
<1> QED
  BY <1>4 DEF S

(* Loop makes enough turns: the next one would change nothing.             *)
LEMMA TurnsEnd ==
  ASSUME NEW B, NEW q, WellPlaced(q, B), NEW kind,
         NEW f, IsTurns(f, Len(q.mHttpMessage), kind, q), q.mHttpMessage # <<>>
  PROVE  Turn(kind, f[Len(q.mHttpMessage)]) = f[Len(q.mHttpMessage)]
<1> DEFINE N == Len(q.mHttpMessage)
           r == f[N]
<1>1. N \in Nat /\ N # 0 /\ q.mSeek \in 1 .. N + 1
  BY LenProperties, EmptySeq DEF WellPlaced
<1>2. Keeps(q, r, B) /\ (Turn(kind, r) = r \/ r.mSeek >= q.mSeek + 2 * N)
  <2>1. N \in 0 .. N
    BY <1>1
  <2> QED
    BY <1>1, <2>1, TurnsKeep
<1>3. r.mSeek \in 1 .. N + 1
  BY <1>2 DEF Keeps, WellPlaced
<1> HIDE DEF N, r
<1>4. ~(r.mSeek >= q.mSeek + 2 * N)
  BY <1>1, <1>3
<1> QED
  BY <1>2, <1>4 DEF N, r

LEMMA LoopsKeep ==
  ASSUME NEW B, NEW q, WellPlaced(q, B)
  PROVE  Keeps(q, Loop(HeaderTurn, q), B) /\ Keeps(q, Loop(ChunkTurn, q), B)
<1> DEFINE N == Len(q.mHttpMessage)
<1>1. N \in Nat
  BY LenProperties DEF WellPlaced
<1>2. N \in 0 .. N
  BY <1>1
<1>3. PICK f : IsTurns(f, N, "header", q) /\ Loop(HeaderTurn, q) = f[N]
  BY <1>1, HeaderLoop
<1>4. PICK g : IsTurns(g, N, "chunk", q) /\ Loop(ChunkTurn, q) = g[N]
  BY <1>1, ChunkLoop
<1>5. Keeps(q, f[N], B)
  BY <1>1, <1>2, <1>3, TurnsKeep
<1>6. Keeps(q, g[N], B)
  BY <1>1, <1>2, <1>4, TurnsKeep
<1> QED
  BY <1>3, <1>4, <1>5, <1>6

LEMMA HeaderKeeps ==
  ASSUME NEW B, NEW q, WellPlaced(q, B)
  PROVE  Keeps(q, parseHeader(q), B)
BY LoopsKeep DEF parseHeader, Keeps

LEMMA GeneralKeeps ==
  ASSUME NEW B, NEW q, WellPlaced(q, B), q.mPhase = "ON_BODY", q.thrown = 0
  PROVE  Keeps(q, General(q), B)
<1> DEFINE key    == <<"content-length">>
           length == Number(q.mHeaders[key], 10)
           body == SubSeq(q.mHttpMessage, q.mSeek, Len(q.mHttpMessage))
<1>0. General(q) =
        IF key \notin DOMAIN q.mHeaders THEN Throw(q, 411)
        ELSE IF length > Len(body) THEN q
        ELSE IF length # Len(body) THEN Throw(q, 413)
        ELSE [q EXCEPT !.mBody = body, !.mPhase = "COMPLETE"]
  BY DEF General
<1> HIDE DEF key, length, body
<1>1. \/ General(q) = Throw(q, 411) \/ General(q) = Throw(q, 413) \/ General(q) = q
      \/ General(q) = [q EXCEPT !.mBody = body, !.mPhase = "COMPLETE"]
  BY <1>0
<1>2. 411 \in Codes /\ 413 \in Codes
  BY DEF Codes
<1>3. Keeps(q, Throw(q, 411), B) /\ Keeps(q, Throw(q, 413), B) /\ Keeps(q, q, B)
  BY <1>2, ThrowKeeps DEF Keeps
<1>4. Keeps(q, [q EXCEPT !.mBody = body, !.mPhase = "COMPLETE"], B)
  BY DEF Keeps, WellPlaced, IsRequest, NewRequest, Phases
<1> QED
  BY <1>1, <1>3, <1>4

LEMMA BodyKeeps ==
  ASSUME NEW B, NEW q, WellPlaced(q, B)
  PROVE  Keeps(q, parseBody(q), B)
<1>1. CASE q.mPhase # "ON_BODY" \/ q.thrown # 0
  BY <1>1 DEF parseBody, Keeps
<1>2. CASE q.mPhase = "ON_BODY" /\ q.thrown = 0
  <2>1. Keeps(q, [q EXCEPT !.mPhase = "COMPLETE"], B)
    BY <1>2 DEF Keeps, WellPlaced, IsRequest, NewRequest, Phases
  <2>2. Keeps(q, Chunked(q), B) /\ Keeps(q, General(q), B)
    BY <1>2, LoopsKeep, GeneralKeeps DEF Chunked
  <2> QED
    BY <1>2, <2>1, <2>2 DEF parseBody
<1> QED
  BY <1>1, <1>2

LEMMA ParseKeeps ==
  ASSUME NEW B, NEW q, WellPlaced(q, B)
  PROVE  Keeps(q, Parse(q), B)
<1>1. Keeps(q, parseStartLine(q), B)
  BY StartLineKeeps
<1>2. Keeps(parseStartLine(q), parseHeader(parseStartLine(q)), B)
  BY <1>1, HeaderKeeps DEF Keeps
<1>3. Keeps(parseHeader(parseStartLine(q)), Parse(q), B)
  BY <1>2, BodyKeeps DEF Keeps, Parse
<1> QED
  BY <1>1, <1>2, <1>3 DEF Keeps

(***************************************************************************)
(* The type invariant.  What has been read and what is on the wire are     *)
(* tokens of the messages.                                                 *)
(***************************************************************************)
Bytes == UNION {{m.tokens[k] : k \in DOMAIN m.tokens} : m \in Messages}

IInv ==
  /\ TypeOK
  /\ wire \in Seq(Bytes)
  /\ WellPlaced(mRequest, Bytes)

LEMMA TokensOK == \A m \in Messages : m.tokens \in Seq(Bytes)
<1> SUFFICES ASSUME NEW m \in Messages PROVE m.tokens \in Seq(Bytes)
  OBVIOUS
<1>1. m.tokens \in Seq({m.tokens[k] : k \in DOMAIN m.tokens})
  BY MessagesAssumption
<1>2. {m.tokens[k] : k \in DOMAIN m.tokens} \subseteq Bytes
  BY DEF Bytes
<1> HIDE DEF Bytes
<1> QED
  BY <1>1, <1>2, SeqMonotonic

LEMMA NewRequestPlaced == WellPlaced(NewRequest, Bytes)
<1>1. <<>> \in Seq(Bytes) /\ Len(<<>>) = 0
  BY EmptySeq
<1> QED
  BY <1>1 DEF WellPlaced, IsRequest, NewRequest, Phases, Codes

LEMMA InitIInv == Init => IInv
<1>1. wire = <<>> => wire \in Seq(Bytes)
  BY EmptySeq
<1>2. Init => WellPlaced(mRequest, Bytes)
  BY NewRequestPlaced DEF Init
<1> QED
  BY <1>1, <1>2 DEF Init, IInv, TypeOK, NewRequest, WellPlaced, ToSolve, Phases

LEMMA NewIInv ==
  ASSUME mRequest' = NewRequest, answer' = 0, wire' \in Seq(Bytes), sent' \in Messages \cup {NoMessage}
  PROVE  IInv'
<1>1. WellPlaced(mRequest', Bytes)
  BY NewRequestPlaced
<1>2. TypeOK'
  BY <1>1 DEF TypeOK, WellPlaced, NewRequest, ToSolve, Phases
<1> QED
  BY <1>1, <1>2 DEF IInv

LEMMA ReadIInv ==
  ASSUME IInv, NEW n \in 1 .. Len(wire), recvRequest(n)
  PROVE  IInv'
<1> DEFINE piece == SubSeq(wire, 1, n)
           p == [More(mRequest, piece) EXCEPT !.thrown = 0]
           q == Parse(p)
<1>1. Len(wire) \in Nat /\ n \in Nat /\ n >= 1 /\ n <= Len(wire)
  BY LenProperties DEF IInv
<1>2. \A k \in 1 .. Len(wire) : wire[k] \in Bytes
  BY ElementOfSeq DEF IInv
<1>3. piece \in Seq(Bytes) /\ wire' \in Seq(Bytes)
  <2>1. piece \in Seq(Bytes)
    BY <1>1, <1>2, SubSeqProperties
  <2>2. SubSeq(wire, n + 1, Len(wire)) \in Seq(Bytes)
    BY <1>1, <1>2, SubSeqProperties
  <2> QED
    BY <2>1, <2>2 DEF recvRequest
<1> HIDE DEF piece
<1>4. WellPlaced(p, Bytes) /\ p.mPhase = mRequest.mPhase
  <2> DEFINE message == mRequest.mHttpMessage \o piece
  <2>1. /\ message \in Seq(Bytes) /\ Len(message) \in Nat /\ Len(mRequest.mHttpMessage) \in Nat
        /\ Len(message) >= Len(mRequest.mHttpMessage)
    BY <1>3, ConcatProperties, LenProperties DEF IInv, WellPlaced
  <2>2. p = [mRequest EXCEPT !.mHttpMessage = message, !.thrown = 0]
    BY DEF More, IInv, WellPlaced, IsRequest, NewRequest
  <2>3. mRequest.mSeek \in 1 .. Len(message) + 1
    BY <2>1 DEF IInv, WellPlaced
  <2> HIDE DEF message, p
  <2>4. /\ p.mHttpMessage = message /\ p.thrown = 0 /\ p.mSeek = mRequest.mSeek
        /\ p.mPhase = mRequest.mPhase /\ IsRequest(p)
    BY <2>2 DEF IInv, WellPlaced, IsRequest, NewRequest
  <2> QED
    BY <2>1, <2>3, <2>4 DEF IInv, WellPlaced
<1>5. Keeps(p, q, Bytes)
  BY <1>4, ParseKeeps
<1>6. /\ mRequest' = q /\ sent' = sent
      /\ answer' = IF q.thrown # 0 THEN q.thrown
                   ELSE IF q.mPhase = "COMPLETE" THEN ToSolve ELSE answer
  BY DEF recvRequest, piece
<1>7. mRequest.mPhase = "COMPLETE" => q.mPhase = "COMPLETE"
  BY <1>4, <1>5 DEF Keeps
<1>8. WellPlaced(q, Bytes)
  BY <1>5 DEF Keeps
<1> HIDE DEF q
<1>9. TypeOK'
  BY <1>6, <1>7, <1>8 DEF IInv, TypeOK, WellPlaced, Phases, Codes, ToSolve
<1> QED
  BY <1>3, <1>6, <1>8, <1>9 DEF IInv

LEMMA StepIInv == IInv /\ [Next]_vars => IInv'
<1> SUFFICES ASSUME IInv, [Next]_vars PROVE IInv'
  OBVIOUS
<1>1. ASSUME NEW m \in Messages, Send(m) PROVE IInv'
  <2>1. wire' \in Seq(Bytes)
    BY <1>1, TokensOK, ConcatProperties DEF IInv, Send
  <2> QED
    BY <1>1, <2>1 DEF IInv, TypeOK, Send
<1>2. ASSUME NEW n \in 1 .. Len(wire), recvRequest(n) PROVE IInv'
  BY <1>2, ReadIInv
<1>3. CASE runSend
  <2>1. wire' \in Seq(Bytes)
    BY <1>3, EmptySeq DEF IInv, runSend, Kept, Closed
  <2> QED
    BY <1>3, <2>1, NewIInv DEF runSend
<1>4. CASE EndOfFile
  BY <1>4, NewIInv DEF IInv, EndOfFile
<1>5. CASE UNCHANGED vars
  BY <1>5 DEF IInv, TypeOK, WellPlaced, IsRequest, vars
<1> QED
  BY <1>1, <1>2, <1>3, <1>4, <1>5 DEF Next

(* mSeek never leaves what has been read, however the message is cut, and  *)
(* whatever is read after a parser has thrown: no substr() of recvRequest  *)
(* throws, and a request is solved exactly when it is COMPLETE.            *)
THEOREM TypeCorrect == Spec => []TypeOK
<1>1. IInv => TypeOK
  BY DEF IInv
<1> QED
  BY <1>1, InitIInv, StepIInv, PTL DEF Spec

(***************************************************************************)
(* What has been parsed stays parsed when more is read: a parser that      *)
(* found its delimiter takes the same from the longer message.             *)
(***************************************************************************)
LEMMA MoreIs ==
  ASSUME NEW B, NEW q, WellPlaced(q, B), NEW t \in Seq(B)
  PROVE  /\ WellPlaced(More(q, t), B)
         /\ More(q, t).mHttpMessage = q.mHttpMessage \o t
         /\ \A f \in DOMAIN NewRequest : f # "mHttpMessage" => More(q, t)[f] = q[f]
<1> DEFINE message == q.mHttpMessage \o t
<1>1. /\ message \in Seq(B) /\ Len(message) \in Nat /\ Len(q.mHttpMessage) \in Nat
      /\ Len(message) >= Len(q.mHttpMessage)
  BY ConcatProperties, LenProperties DEF WellPlaced
<1>2. q.mSeek \in 1 .. Len(message) + 1
  BY <1>1 DEF WellPlaced
<1>3. More(q, t) = [q EXCEPT !.mHttpMessage = message]
  BY DEF More
<1> HIDE DEF message
<1>4. /\ More(q, t).mHttpMessage = message /\ IsRequest(More(q, t))
      /\ \A f \in DOMAIN NewRequest : f # "mHttpMessage" => More(q, t)[f] = q[f]
  BY <1>3 DEF WellPlaced, IsRequest, NewRequest
<1>5. /\ More(q, t).mSeek = q.mSeek /\ More(q, t).mPhase = q.mPhase
      /\ More(q, t).thrown = q.thrown
  BY <1>4 DEF NewRequest
<1>6. WellPlaced(More(q, t), B)
  BY <1>1, <1>2, <1>4, <1>5 DEF WellPlaced
<1> QED
  BY <1>4, <1>6 DEF message

(* The fields by name.                                                     *)
LEMMA MoreFields ==
  ASSUME NEW B, NEW q, WellPlaced(q, B), NEW t \in Seq(B)
  PROVE  /\ More(q, t).mPhase = q.mPhase /\ More(q, t).mSeek = q.mSeek
         /\ More(q, t).thrown = q.thrown /\ More(q, t).mMethod = q.mMethod
         /\ More(q, t).mURItype = q.mURItype /\ More(q, t).mFileName = q.mFileName
         /\ More(q, t).mQuery = q.mQuery /\ More(q, t).mParameter = q.mParameter
         /\ More(q, t).mTransferType = q.mTransferType
         /\ More(q, t).mHeaders = q.mHeaders /\ More(q, t).mBody = q.mBody
BY MoreIs DEF NewRequest

LEMMA MoreMethod ==
  ASSUME NEW B, NEW q, WellPlaced(q, B), NEW t \in Seq(B),
         q.thrown = 0, q.mSeek = 1, Method(q).thrown = 0
  PROVE  Method(More(q, t)) = More(Method(q), t)
<1> DEFINE found == find(q.mHttpMessage, SP, 1)
           method == Between(q.mHttpMessage, 1, found)
           p == More(q, t)
<1>1. found # npos
  BY DEF Method, Throw, WellPlaced, IsRequest, NewRequest
<1>2. q.mHttpMessage \in Seq(B) /\ IsRequest(q)
  BY DEF WellPlaced
<1>3. p.mHttpMessage = q.mHttpMessage \o t /\ p.mSeek = 1
  BY MoreIs, MoreFields
<1>4. find(p.mHttpMessage, SP, 1) = found
  <2>1. find(q.mHttpMessage \o t, SP, 1) = find(q.mHttpMessage, SP, 1)
    BY <1>1, <1>2, FoundMore, Patterns
  <2> QED
    BY <1>3, <2>1
<1>5. found \in Nat /\ found >= 1 /\ found + 1 \in 1 .. Len(q.mHttpMessage) + 1
      /\ Len(q.mHttpMessage) \in Nat
  BY <1>1, <1>2, FoundPlace, Patterns, LenProperties
<1>6. Between(p.mHttpMessage, 1, found) = method
  BY <1>2, <1>3, <1>5, SubSeqMore DEF Between
<1> HIDE DEF found, method, p
<1>7. Method(q) = [q EXCEPT !.mMethod = method, !.mSeek = found + 1]
  BY <1>1 DEF Method, found, method
<1>8. Method(p) = [p EXCEPT !.mMethod = method, !.mSeek = found + 1]
  BY <1>1, <1>3, <1>4, <1>6 DEF Method
<1> QED
  BY <1>2, <1>7, <1>8 DEF p, More, IsRequest, NewRequest

LEMMA MoreTarget ==
  ASSUME NEW B, NEW q, WellPlaced(q, B), NEW t \in Seq(B), NEW path
  PROVE  Target(More(q, t), path) = More(Target(q, path), t)
<1> DEFINE found == find_last_of(path, "/")
           isFile == found # Len(path)
           named == IF isFile THEN SubSeq(path, found + 1, Len(path)) ELSE q.mFileName
           Typed(r) == IF isFile THEN [r EXCEPT !.mURItype = "FILE"] ELSE r
           directory == IF isFile THEN SubSeq(path, 1, found - 1) ELSE path
           file == IF q.mMethod = <<"OPTIONS">> /\ named = <<"*">> THEN <<>> ELSE named
           type == URItypeOf(Typed(q), named)
           p == More(q, t)
<1>1. p.mMethod = q.mMethod /\ p.mFileName = q.mFileName /\ p.mURItype = q.mURItype
      /\ WellPlaced(p, B)
  BY MoreFields, MoreIs
<1>2. Target(q, path) = [Typed(q) EXCEPT !.mDirectory = directory, !.mFileName = file,
                                         !.mURItype = type]
  BY DEF Target
<1> HIDE DEF p
<1>3. \A r : IsRequest(r) => Typed(r).mMethod = r.mMethod
               /\ Typed(r).mURItype = IF isFile THEN "FILE" ELSE r.mURItype
  <2> HIDE DEF isFile
  <2> QED
    BY DEF IsRequest, NewRequest
<1>4. URItypeOf(Typed(p), named) = type
  <2>1. Typed(p).mMethod = Typed(q).mMethod /\ Typed(p).mURItype = Typed(q).mURItype
    <3> HIDE DEF Typed
    <3> QED
      BY <1>1, <1>3 DEF WellPlaced
  <2> HIDE DEF Typed, named
  <2> QED
    BY <2>1 DEF URItypeOf
<1>5. Target(p, path) = [Typed(p) EXCEPT !.mDirectory = directory, !.mFileName = file,
                                         !.mURItype = type]
  BY <1>1, <1>4 DEF Target
<1> HIDE DEF directory, file, type, isFile
<1> QED
  BY <1>2, <1>5 DEF p, More, WellPlaced, IsRequest, NewRequest

LEMMA MoreThrow ==
  ASSUME NEW q, IsRequest(q), NEW t, NEW code
  PROVE  Throw(More(q, t), code) = More(Throw(q, code), t)
<1>1. Throw(q, code) = [q EXCEPT !.thrown = code]
  BY DEF Throw
<1>2. Throw(More(q, t), code) = [More(q, t) EXCEPT !.thrown = code]
  BY DEF Throw
<1> QED
  BY <1>1, <1>2 DEF More, IsRequest, NewRequest

LEMMA MoreParseURI ==
  ASSUME NEW B, NEW q, WellPlaced(q, B), q.mPhase = "READY", NEW t \in Seq(B), NEW uri
  PROVE  ParseURI(More(q, t), uri) = More(ParseURI(q, uri), t)
<1> DEFINE resource == Before(uri, "?")
           path == Before(resource, ";")
           query == After(uri, "?", q.mQuery)
           parameter == After(resource, ";", q.mParameter)
           Split(r) == [r EXCEPT !.mQuery = query, !.mParameter = parameter]
           p == More(q, t)
<1>1. p.mQuery = q.mQuery /\ p.mParameter = q.mParameter
  BY MoreFields
<1>2. ParseURI(q, uri) = IF Len(uri) > MaxUri THEN Throw(q, 414)
                         ELSE IF find_last_of(path, "/") = npos THEN Throw(Split(q), 400)
                         ELSE Target(Split(q), path)
  BY DEF ParseURI
<1> HIDE DEF p
<1>3. ParseURI(p, uri) = IF Len(uri) > MaxUri THEN Throw(p, 414)
                         ELSE IF find_last_of(path, "/") = npos THEN Throw(Split(p), 400)
                         ELSE Target(Split(p), path)
  BY <1>1 DEF ParseURI
<1> HIDE DEF path, query, parameter
<1>4. WellPlaced(Split(q), B) /\ IsRequest(q)
  BY DEF WellPlaced, IsRequest, NewRequest
<1>5. Split(p) = More(Split(q), t)
  BY <1>4 DEF p, More, IsRequest, NewRequest
<1>6. Throw(p, 414) = More(Throw(q, 414), t)
  BY <1>4, MoreThrow DEF p
<1> HIDE DEF Split
<1>7. Throw(More(Split(q), t), 400) = More(Throw(Split(q), 400), t)
  BY <1>4, MoreThrow DEF WellPlaced
<1>8. Target(More(Split(q), t), path) = More(Target(Split(q), path), t)
  BY <1>4, MoreTarget
<1> QED
  BY <1>2, <1>3, <1>5, <1>6, <1>7, <1>8 DEF p

(* What lies between mSeek and a delimiter that was found.                 *)
LEMMA MoreBetween ==
  ASSUME NEW B, NEW q, WellPlaced(q, B), NEW t \in Seq(B), NEW P, NEW pattern \in Seq(P),
         pattern # <<>>, NEW from \in Nat, from >= 1,
         find(q.mHttpMessage, pattern, from) # npos
  PROVE  LET p     == More(q, t)
             found == find(q.mHttpMessage, pattern, from)
         IN  /\ find(p.mHttpMessage, pattern, from) = found
             /\ SubSeq(p.mHttpMessage, from, found - 1) = SubSeq(q.mHttpMessage, from, found - 1)
             /\ Between(p.mHttpMessage, from, found) = Between(q.mHttpMessage, from, found)
<1> DEFINE found == find(q.mHttpMessage, pattern, from)
<1>1. More(q, t).mHttpMessage = q.mHttpMessage \o t
  BY MoreIs
<1>2. q.mHttpMessage \in Seq(B) /\ Len(q.mHttpMessage) \in Nat
  BY LenProperties DEF WellPlaced
<1>3. find(q.mHttpMessage \o t, pattern, from) = found
  BY <1>2, FoundMore
<1>4. /\ found \in Nat /\ found >= from
      /\ found + Len(pattern) \in 1 .. Len(q.mHttpMessage) + 1 /\ Len(pattern) \in Nat
  BY <1>2, FoundPlace, LenProperties
<1> HIDE DEF found
<1>5. found - 1 \in Nat /\ found - 1 <= Len(q.mHttpMessage)
  BY <1>2, <1>4
<1>6. SubSeq(q.mHttpMessage \o t, from, found - 1) = SubSeq(q.mHttpMessage, from, found - 1)
  BY <1>2, <1>5, SubSeqMore
<1>7. ~(found < from)
  BY <1>4
<1>8. Between(q.mHttpMessage \o t, from, found) = Between(q.mHttpMessage, from, found)
  BY <1>6, <1>7 DEF Between
<1> QED
  BY <1>1, <1>3, <1>6, <1>8 DEF found

LEMMA MoreLine ==
  ASSUME NEW B, NEW q, WellPlaced(q, B), NEW t \in Seq(B), NEW from \in Nat, from >= 1,
         find(q.mHttpMessage, EOL, from) # npos
  PROVE  LET found == find(q.mHttpMessage, EOL, from)
         IN  /\ find(More(q, t).mHttpMessage, EOL, from) = found
             /\ SubSeq(More(q, t).mHttpMessage, from, found - 1)
                  = SubSeq(q.mHttpMessage, from, found - 1)
BY MoreBetween, Patterns

LEMMA MoreURI ==
  ASSUME NEW B, NEW q, WellPlaced(q, B), q.mPhase = "READY", NEW t \in Seq(B),
         q.thrown = 0, URI(q).thrown = 0
  PROVE  URI(More(q, t)) = More(URI(q), t)
<1> DEFINE found == find(q.mHttpMessage, SP, q.mSeek)
           uri == Between(q.mHttpMessage, q.mSeek, found)
           parsed == ParseURI(q, uri)
           p == More(q, t)
<1>1. q.mSeek \in Nat /\ q.mSeek >= 1
  BY LenProperties DEF WellPlaced
<1>2. found # npos
  BY DEF URI, Throw, WellPlaced, IsRequest, NewRequest
<1>3. parsed.thrown = 0
  BY <1>2 DEF URI
<1>4. URI(q) = [parsed EXCEPT !.mSeek = found + 1]
  BY <1>2, <1>3 DEF URI
<1>5. p.mSeek = q.mSeek /\ p.thrown = 0 /\ p.mPhase = "READY"
  BY MoreFields
<1>6. find(p.mHttpMessage, SP, q.mSeek) = found /\ Between(p.mHttpMessage, q.mSeek, found) = uri
  BY <1>1, <1>2, MoreBetween, Patterns
<1>7. ParseURI(p, uri) = More(parsed, t)
  BY MoreParseURI
<1>8. WellPlaced(parsed, B)
  BY ParseURIKeeps DEF Stays, Keeps
<1>9. More(parsed, t).thrown = 0
  BY <1>3, <1>8, MoreFields
<1> HIDE DEF found, uri, parsed, p
<1>10. URI(p) = [More(parsed, t) EXCEPT !.mSeek = found + 1]
  BY <1>2, <1>5, <1>6, <1>7, <1>9 DEF URI
<1> QED
  BY <1>4, <1>8, <1>10 DEF p, More, WellPlaced, IsRequest, NewRequest

LEMMA MoreVersion ==
  ASSUME NEW B, NEW q, WellPlaced(q, B), NEW t \in Seq(B), q.thrown = 0, Version(q).thrown = 0
  PROVE  Version(More(q, t)) = More(Version(q), t) /\ Version(q).mPhase = "ON_HEADER"
<1> DEFINE found == find(q.mHttpMessage, EOL, q.mSeek)
           version == Between(q.mHttpMessage, q.mSeek, found)
           p == More(q, t)
<1>1. q.mSeek \in Nat /\ q.mSeek >= 1
  BY LenProperties DEF WellPlaced
<1>2. found # npos /\ IsVersion(version)
  <2> DEFINE bad == found = npos \/ ~IsVersion(version)
  <2>1. bad => Version(q) = Throw(q, 505)
    BY DEF Version
  <2>2. Throw(q, 505).thrown = 505
    BY DEF Throw, WellPlaced, IsRequest, NewRequest
  <2> HIDE DEF found, version
  <2> QED
    BY <2>1, <2>2
<1>3. Version(q) = [q EXCEPT !.mSeek = found + 2, !.mPhase = "ON_HEADER"]
  BY <1>2 DEF Version
<1>4. p.mSeek = q.mSeek /\ p.thrown = 0
  BY MoreFields
<1>5. find(p.mHttpMessage, EOL, q.mSeek) = found
      /\ Between(p.mHttpMessage, q.mSeek, found) = version
  BY <1>1, <1>2, MoreBetween, Patterns
<1> HIDE DEF found, version, p
<1>6. Version(p) = [p EXCEPT !.mSeek = found + 2, !.mPhase = "ON_HEADER"]
  BY <1>2, <1>4, <1>5 DEF Version
<1> QED
  BY <1>3, <1>6 DEF p, More, WellPlaced, IsRequest, NewRequest

LEMMA MoreStartLine ==
  ASSUME NEW B, NEW q, WellPlaced(q, B), NEW t \in Seq(B),
         q.thrown = 0, q.mSeek = 1, q.mPhase = "READY", parseStartLine(q).thrown = 0
  PROVE  \/ parseStartLine(q) = q
         \/ /\ parseStartLine(q).mPhase = "ON_HEADER"
            /\ parseStartLine(More(q, t)) = More(parseStartLine(q), t)
<1> DEFINE p == More(q, t)
<1>1. CASE find(q.mHttpMessage, EOL, 1) = npos
  BY <1>1 DEF parseStartLine
<1>2. CASE find(q.mHttpMessage, EOL, 1) # npos
  <2>1. parseStartLine(q) = Version(URI(Method(q)))
    BY <1>2 DEF parseStartLine
  <2>2. WellPlaced(Method(q), B) /\ Method(q).mPhase = "READY"
    BY MethodKeeps DEF Keeps
  <2>3. WellPlaced(URI(Method(q)), B)
    BY <2>2, URIKeeps DEF Keeps
  <2>4. URI(Method(q)).thrown = 0
    BY <2>1 DEF Version
  <2>5. Method(q).thrown = 0
    BY <2>4 DEF URI
  <2>6. Method(p) = More(Method(q), t)
    BY <2>5, MoreMethod
  <2>7. URI(Method(p)) = More(URI(Method(q)), t)
    BY <2>2, <2>4, <2>5, <2>6, MoreURI
  <2>8. Version(URI(Method(p))) = More(Version(URI(Method(q))), t)
        /\ Version(URI(Method(q))).mPhase = "ON_HEADER"
    BY <2>1, <2>3, <2>4, <2>7, MoreVersion
  <2>9. p.mPhase = "READY"
    BY MoreFields
  <2>10. find(p.mHttpMessage, EOL, 1) # npos
    BY <1>2, MoreBetween, Patterns
  <2>11. parseStartLine(p) = Version(URI(Method(p)))
    BY <2>9, <2>10 DEF parseStartLine
  <2> QED
    BY <2>1, <2>8, <2>11
<1> QED
  BY <1>1, <1>2

LEMMA MoreAddHeader ==
  ASSUME NEW B, NEW q, WellPlaced(q, B), NEW t \in Seq(B), NEW line
  PROVE  AddHeader(More(q, t), line) = More(AddHeader(q, line), t)
<1> DEFINE found == find(line, <<":", " ">>, 1)
           key   == tolower(SubSeq(line, 1, found - 1))
           text  == SubSeq(line, found + 2, Len(line))
           port  == find(text, <<":">>, 1)
           value == IF key = <<"host">> /\ port # npos THEN SubSeq(text, 1, port - 1) ELSE text
           headers == Insert(q.mHeaders, key, value)
           type == IF key = <<"transfer-encoding">> /\ find(value, <<"chunked">>, 1) # npos
                   THEN "CHUNKED" ELSE q.mTransferType
           p == More(q, t)
<1>1. p.mHeaders = q.mHeaders /\ p.mTransferType = q.mTransferType
  BY MoreFields
<1>2. AddHeader(q, line) = IF found = npos THEN Throw(q, 400)
                           ELSE [q EXCEPT !.mHeaders = headers, !.mTransferType = type]
  BY DEF AddHeader
<1> HIDE DEF p
<1>3. AddHeader(p, line) = IF found = npos THEN Throw(p, 400)
                           ELSE [p EXCEPT !.mHeaders = headers, !.mTransferType = type]
  BY <1>1 DEF AddHeader
<1> HIDE DEF found, headers, type
<1>4. Throw(p, 400) = More(Throw(q, 400), t)
  BY MoreThrow DEF p, WellPlaced
<1>5. [p EXCEPT !.mHeaders = headers, !.mTransferType = type]
        = More([q EXCEPT !.mHeaders = headers, !.mTransferType = type], t)
  BY DEF p, More, WellPlaced, IsRequest, NewRequest
<1> QED
  BY <1>2, <1>3, <1>4, <1>5 DEF p

LEMMA MoreHeaderTurn ==
  ASSUME NEW B, NEW q, WellPlaced(q, B), NEW t \in Seq(B), HeaderTurn(q).thrown = 0
  PROVE  HeaderTurn(More(q, t)) = More(HeaderTurn(q), t)
<1> DEFINE found == find(q.mHttpMessage, EOL, q.mSeek)
           line  == SubSeq(q.mHttpMessage, q.mSeek, found - 1)
           p == More(q, t)
<1>1. q.mSeek \in Nat /\ q.mSeek >= 1
  BY LenProperties DEF WellPlaced
<1>2. p.mSeek = q.mSeek /\ p.thrown = q.thrown /\ p.mPhase = q.mPhase
  BY MoreFields
<1>3. CASE q.thrown # 0 \/ q.mPhase # "ON_HEADER"
  BY <1>2, <1>3 DEF HeaderTurn
<1>4. CASE ~(q.thrown # 0 \/ q.mPhase # "ON_HEADER")
  <2>1. HeaderTurn(q) =
          IF found = npos THEN Throw(q, 400)
          ELSE IF line = <<>> THEN [q EXCEPT !.mSeek = found + 2, !.mPhase = "ON_BODY"]
          ELSE IF AddHeader(q, line).thrown # 0 THEN AddHeader(q, line)
          ELSE [AddHeader(q, line) EXCEPT !.mSeek = found + 2]
    BY <1>4 DEF HeaderTurn
  <2>2. Throw(q, 400).thrown = 400
    BY DEF Throw, WellPlaced, IsRequest, NewRequest
  <2>3. found # npos /\ (line # <<>> => AddHeader(q, line).thrown = 0)
    <3> HIDE DEF found, line
    <3> QED
      BY <2>1, <2>2
  <2>4. find(p.mHttpMessage, EOL, q.mSeek) = found
        /\ SubSeq(p.mHttpMessage, q.mSeek, found - 1) = line
    BY <1>1, <2>3, MoreLine
  <2>5. AddHeader(p, line) = More(AddHeader(q, line), t)
    BY MoreAddHeader
  <2>6. WellPlaced(AddHeader(q, line), B)
    BY <1>4, AddHeaderKeeps DEF Stays, Keeps
  <2>7. AddHeader(p, line).thrown = AddHeader(q, line).thrown
    BY <2>5, <2>6, MoreFields
  <2> HIDE DEF found, line, p
  <2>8. HeaderTurn(p) =
          IF line = <<>> THEN [p EXCEPT !.mSeek = found + 2, !.mPhase = "ON_BODY"]
          ELSE [AddHeader(p, line) EXCEPT !.mSeek = found + 2]
    BY <1>2, <1>4, <2>3, <2>4, <2>7 DEF HeaderTurn
  <2>9. [p EXCEPT !.mSeek = found + 2, !.mPhase = "ON_BODY"]
          = More([q EXCEPT !.mSeek = found + 2, !.mPhase = "ON_BODY"], t)
    BY DEF p, More, WellPlaced, IsRequest, NewRequest
  <2>10. [More(AddHeader(q, line), t) EXCEPT !.mSeek = found + 2]
          = More([AddHeader(q, line) EXCEPT !.mSeek = found + 2], t)
    BY <2>6 DEF More, WellPlaced, IsRequest, NewRequest
  <2> QED
    BY <2>1, <2>3, <2>5, <2>8, <2>9, <2>10 DEF p
<1> QED
  BY <1>3, <1>4

LEMMA MoreChunkTurn ==
  ASSUME NEW B, NEW q, WellPlaced(q, B), NEW t \in Seq(B), ChunkTurn(q) # q
  PROVE  ChunkTurn(More(q, t)) = More(ChunkTurn(q), t)
<1> DEFINE foundHex  == find(q.mHttpMessage, EOL, q.mSeek)
           foundBody == find(q.mHttpMessage, EOL, foundHex + 2)
           hexValue  == Number(SubSeq(q.mHttpMessage, q.mSeek, foundHex - 1), 16)
           body      == SubSeq(q.mHttpMessage, foundHex + 2, foundBody - 1)
           p == More(q, t)
           Result(r) ==
             IF hexValue # Len(body) THEN Throw([r EXCEPT !.mSeek = foundHex + 2], 413)
             ELSE IF hexValue = 0 THEN [r EXCEPT !.mSeek = foundHex + 2, !.mPhase = "COMPLETE"]
             ELSE [r EXCEPT !.mSeek = foundHex + 2 + hexValue + 2, !.mBody = q.mBody \o body]
<1>1. q.mSeek \in Nat /\ q.mSeek >= 1
  BY LenProperties DEF WellPlaced
<1>2. ~(q.thrown # 0 \/ q.mPhase = "COMPLETE" \/ foundHex = npos \/ foundBody = npos)
  BY DEF ChunkTurn
<1>3. ChunkTurn(q) = Result(q)
  BY <1>2 DEF ChunkTurn
<1>4. foundHex + 2 \in Nat /\ foundHex + 2 >= 1
  BY <1>1, <1>2, FoundPlace, Patterns
<1>5. p.mSeek = q.mSeek /\ p.thrown = q.thrown /\ p.mPhase = q.mPhase /\ p.mBody = q.mBody
  BY MoreFields
<1>6. find(p.mHttpMessage, EOL, q.mSeek) = foundHex
      /\ SubSeq(p.mHttpMessage, q.mSeek, foundHex - 1)
           = SubSeq(q.mHttpMessage, q.mSeek, foundHex - 1)
  BY <1>1, <1>2, MoreLine
<1> DEFINE from == foundHex + 2
<1>a. from \in Nat /\ from >= 1 /\ find(q.mHttpMessage, EOL, from) = foundBody /\ foundBody # npos
      /\ SubSeq(q.mHttpMessage, from, foundBody - 1) = body
  BY <1>2, <1>4
<1> HIDE DEF foundHex, foundBody, body, from
<1>b. /\ find(p.mHttpMessage, EOL, from) = find(q.mHttpMessage, EOL, from)
      /\ SubSeq(p.mHttpMessage, from, find(q.mHttpMessage, EOL, from) - 1)
           = SubSeq(q.mHttpMessage, from, find(q.mHttpMessage, EOL, from) - 1)
  BY <1>a, MoreLine
<1>7. find(p.mHttpMessage, EOL, from) = foundBody
      /\ SubSeq(p.mHttpMessage, from, foundBody - 1) = body
  BY <1>a, <1>b
<1> HIDE DEF p
<1>8. ChunkTurn(p) = Result(p)
  <2> DEFINE hex   == find(p.mHttpMessage, EOL, p.mSeek)
             end   == find(p.mHttpMessage, EOL, hex + 2)
             value == Number(SubSeq(p.mHttpMessage, p.mSeek, hex - 1), 16)
             data  == SubSeq(p.mHttpMessage, hex + 2, end - 1)
  <2>1. ChunkTurn(p) =
          IF p.thrown # 0 \/ p.mPhase = "COMPLETE" \/ hex = npos \/ end = npos THEN p
          ELSE IF value # Len(data) THEN Throw([p EXCEPT !.mSeek = hex + 2], 413)
          ELSE IF value = 0 THEN [p EXCEPT !.mSeek = hex + 2, !.mPhase = "COMPLETE"]
          ELSE [p EXCEPT !.mSeek = hex + 2 + value + 2, !.mBody = p.mBody \o data]
    BY DEF ChunkTurn
  <2>2. hex = foundHex
    BY <1>5, <1>6
  <2>3. value = hexValue
    BY <1>5, <1>6, <2>2
  <2>4. end = foundBody /\ data = body
    BY <1>7, <2>2 DEF from
  <2> HIDE DEF hex, end, value, data, hexValue
  <2> QED
    BY <1>2, <1>5, <2>1, <2>2, <2>3, <2>4
<1> DEFINE longer == q.mBody \o body
<1> HIDE DEF hexValue, body, longer
<1>9. IsRequest(q) /\ IsRequest([q EXCEPT !.mSeek = foundHex + 2])
  BY DEF WellPlaced, IsRequest, NewRequest
<1>10. [p EXCEPT !.mSeek = foundHex + 2] = More([q EXCEPT !.mSeek = foundHex + 2], t)
  BY <1>9 DEF p, More, IsRequest, NewRequest
<1>11. Throw([p EXCEPT !.mSeek = foundHex + 2], 413)
         = More(Throw([q EXCEPT !.mSeek = foundHex + 2], 413), t)
  BY <1>9, <1>10, MoreThrow
<1>12. [p EXCEPT !.mSeek = foundHex + 2, !.mPhase = "COMPLETE"]
         = More([q EXCEPT !.mSeek = foundHex + 2, !.mPhase = "COMPLETE"], t)
  BY <1>9 DEF p, More, IsRequest, NewRequest
<1>13. [p EXCEPT !.mSeek = foundHex + 2 + hexValue + 2, !.mBody = longer]
         = More([q EXCEPT !.mSeek = foundHex + 2 + hexValue + 2, !.mBody = longer], t)
  BY <1>9 DEF p, More, IsRequest, NewRequest
<1>14. Result(p) = More(Result(q), t)
  BY <1>11, <1>12, <1>13 DEF longer
<1> QED
  BY <1>3, <1>8, <1>14 DEF p

LEMMA TurnsStop ==
  ASSUME NEW kind, NEW q, NEW N \in Nat, NEW f, IsTurns(f, N, kind, q),
         NEW n \in 0 .. N, Turn(kind, f[n]) = f[n]
  PROVE  \A m \in n .. N : f[m] = f[n]
<1> DEFINE S == {k \in Nat : n + k \in 0 .. N => f[n + k] = f[n]}
<1>1. 0 \in S
  OBVIOUS
<1>2. \A k \in Nat : k \in S => k + 1 \in S
  <2>1. SUFFICES ASSUME NEW k \in Nat, k \in S, n + (k + 1) \in 0 .. N
                 PROVE  f[n + (k + 1)] = f[n]
    OBVIOUS
  <2>2. n + k \in 0 .. N /\ n + (k + 1) # 0 /\ n + (k + 1) - 1 = n + k
    BY <2>1
  <2>3. f[n + (k + 1)] = Turn(kind, f[n + k])
    BY <2>1, <2>2 DEF IsTurns
  <2> QED
    BY <2>1, <2>2, <2>3
<1> HIDE DEF S
<1>3. \A k \in Nat : k \in S
  BY <1>1, <1>2, NatSetInduction
<1>4. SUFFICES ASSUME NEW m \in n .. N PROVE f[m] = f[n]
  OBVIOUS
<1>5. m - n \in Nat /\ n + (m - n) = m /\ m \in 0 .. N
  OBVIOUS
<1> QED
  BY <1>3, <1>5 DEF S

LEMMA ChunksStop ==
  ASSUME NEW q, NEW N \in Nat, NEW f, IsTurns(f, N, "chunk", q),
         NEW n \in 0 .. N, ChunkTurn(f[n]) = f[n], NEW m \in n .. N
  PROVE  f[m] = f[n]
<1>1. Turn("chunk", f[n]) = f[n]
  BY "chunk" # "header" DEF Turn
<1> QED
  BY <1>1, TurnsStop

LEMMA HeaderTurnMoves ==
  ASSUME NEW B, NEW q, WellPlaced(q, B), q.mPhase = "ON_HEADER", q.thrown = 0
  PROVE  HeaderTurn(q) # q /\ HeaderTurn(q).mPhase \in {"ON_HEADER", "ON_BODY"}
<1> DEFINE found == find(q.mHttpMessage, EOL, q.mSeek)
           line  == SubSeq(q.mHttpMessage, q.mSeek, found - 1)
           added == AddHeader(q, line)
<1>1. HeaderTurn(q) =
        IF found = npos THEN Throw(q, 400)
        ELSE IF line = <<>> THEN [q EXCEPT !.mSeek = found + 2, !.mPhase = "ON_BODY"]
        ELSE IF added.thrown # 0 THEN added
        ELSE [added EXCEPT !.mSeek = found + 2]
  BY DEF HeaderTurn
<1>2. q.mSeek \in Nat /\ q.mSeek >= 1
  BY LenProperties DEF WellPlaced
<1>3. found # npos => found \in Nat /\ found + 2 # q.mSeek
  <2>1. found # npos => found \in Nat /\ found >= q.mSeek
    BY <1>2, FoundPlace, Patterns
  <2> QED
    BY <1>2, <2>1
<1>4. IsRequest(q) /\ IsRequest(added) /\ added.mPhase = "ON_HEADER"
  BY AddHeaderKeeps DEF Stays, Keeps, WellPlaced
<1>5. Throw(q, 400).thrown = 400 /\ Throw(q, 400).mPhase = "ON_HEADER"
  BY <1>4 DEF Throw, IsRequest, NewRequest
<1> HIDE DEF found, line, added
<1>6. /\ [q EXCEPT !.mSeek = found + 2, !.mPhase = "ON_BODY"].mPhase = "ON_BODY"
      /\ [added EXCEPT !.mSeek = found + 2].mSeek = found + 2
      /\ [added EXCEPT !.mSeek = found + 2].mPhase = "ON_HEADER"
  BY <1>4 DEF IsRequest, NewRequest
<1>7. CASE found = npos
  BY <1>1, <1>5, <1>7
<1>8. CASE found # npos /\ line = <<>>
  <2>1. HeaderTurn(q) = [q EXCEPT !.mSeek = found + 2, !.mPhase = "ON_BODY"]
    BY <1>1, <1>8
  <2> QED
    BY <2>1, <1>6
<1>9. CASE found # npos /\ line # <<>> /\ added.thrown # 0
  BY <1>1, <1>4, <1>9
<1>10. CASE found # npos /\ line # <<>> /\ added.thrown = 0
  <2>1. HeaderTurn(q) = [added EXCEPT !.mSeek = found + 2]
    BY <1>1, <1>10
  <2> QED
    BY <2>1, <1>3, <1>6, <1>10
<1> QED
  BY <1>7, <1>8, <1>9, <1>10

LEMMA MoreHeaderLoop ==
  ASSUME NEW B, NEW q, WellPlaced(q, B), NEW t \in Seq(B), q.mHttpMessage # <<>>,
         q.mPhase = "ON_HEADER", Loop(HeaderTurn, q).thrown = 0
  PROVE  /\ Loop(HeaderTurn, q).mPhase = "ON_BODY"
         /\ Loop(HeaderTurn, More(q, t)) = More(Loop(HeaderTurn, q), t)
<1> DEFINE N == Len(q.mHttpMessage)
           p == More(q, t)
           M == Len(p.mHttpMessage)
<1>1. N \in Nat /\ M \in Nat /\ N <= M
  <2>0. q.mHttpMessage \in Seq(B)
    BY DEF WellPlaced
  <2>1. p.mHttpMessage = q.mHttpMessage \o t /\ q.mHttpMessage \in Seq(B)
    BY <2>0, MoreIs
  <2>2. M = N + Len(t) /\ N \in Nat /\ Len(t) \in Nat
    BY <2>1, ConcatProperties, LenProperties
  <2> HIDE DEF N, M
  <2> QED
    BY <2>2
<1>2. PICK f : IsTurns(f, N, "header", q) /\ Loop(HeaderTurn, q) = f[N]
  BY <1>1, HeaderLoop
<1>3. PICK g : IsTurns(g, M, "header", p) /\ Loop(HeaderTurn, p) = g[M]
  BY <1>1, HeaderLoop
<1>a. f[0] = q /\ \A n \in Nat : n + 1 \in 0 .. N => f[n + 1] = HeaderTurn(f[n])
  BY <1>1, <1>2 DEF IsTurns, Turn
<1>b. g[0] = p /\ \A n \in Nat : n + 1 \in 0 .. M => g[n + 1] = HeaderTurn(g[n])
  BY <1>1, <1>3 DEF IsTurns, Turn
<1>4. Turn("header", f[N]) = f[N]
  BY <1>2, TurnsEnd
<1> HIDE DEF N, M, p
<1>5. \A n \in 0 .. N : WellPlaced(f[n], B)
  BY <1>1, <1>2, TurnsKeep DEF Keeps
<1>6. \A n \in 0 .. N : f[n].thrown = 0
  <2>1. SUFFICES ASSUME NEW n \in 0 .. N, f[n].thrown # 0 PROVE FALSE
    OBVIOUS
  <2>2. Turn("header", f[n]) = f[n]
    BY <1>5, <2>1, TurnKeeps
  <2>3. N \in n .. N
    BY <1>1
  <2>4. f[N] = f[n]
    BY <1>1, <1>2, <2>2, <2>3, TurnsStop
  <2> QED
    BY <1>2, <2>1, <2>4
<1> DEFINE S == {n \in Nat : n \in 0 .. N =>
                   f[n].mPhase \in {"ON_HEADER", "ON_BODY"} /\ g[n] = More(f[n], t)}
<1>7. 0 \in S
  BY <1>a, <1>b DEF p
<1>8. \A n \in Nat : n \in S => n + 1 \in S
  <2>1. SUFFICES ASSUME NEW n \in Nat, n \in S, n + 1 \in 0 .. N
                 PROVE  f[n + 1].mPhase \in {"ON_HEADER", "ON_BODY"} /\ g[n + 1] = More(f[n + 1], t)
    OBVIOUS
  <2>2. n \in 0 .. N /\ n + 1 \in 0 .. M /\ n + 1 # 0 /\ n + 1 - 1 = n
    BY <1>1, <2>1
  <2>3. f[n].mPhase \in {"ON_HEADER", "ON_BODY"} /\ g[n] = More(f[n], t)
    BY <2>1, <2>2
  <2>4. f[n + 1] = HeaderTurn(f[n])
    BY <1>a, <2>1
  <2>5. g[n + 1] = HeaderTurn(g[n])
    BY <1>b, <2>2
  <2>6. WellPlaced(f[n], B) /\ f[n].thrown = 0 /\ f[n + 1].thrown = 0
    BY <1>5, <1>6, <2>1, <2>2
  <2>7. g[n + 1] = More(f[n + 1], t)
    BY <2>3, <2>4, <2>5, <2>6, MoreHeaderTurn
  <2>8. f[n].mPhase = "ON_BODY" => HeaderTurn(f[n]) = f[n]
    BY DEF HeaderTurn
  <2>9. f[n + 1].mPhase \in {"ON_HEADER", "ON_BODY"}
    BY <2>3, <2>4, <2>6, <2>8, HeaderTurnMoves
  <2> QED
    BY <2>7, <2>9
<1> HIDE DEF S
<1>9. \A n \in Nat : n \in S
  BY <1>7, <1>8, NatSetInduction
<1>10. f[N].mPhase \in {"ON_HEADER", "ON_BODY"} /\ g[N] = More(f[N], t)
       /\ f[N].thrown = 0 /\ WellPlaced(f[N], B)
  <2>1. N \in 0 .. N /\ N \in S
    BY <1>1, <1>9
  <2>2. f[N].mPhase \in {"ON_HEADER", "ON_BODY"} /\ g[N] = More(f[N], t)
    BY <2>1 DEF S
  <2> QED
    BY <2>1, <2>2, <1>5, <1>6
<1>11. f[N].mPhase = "ON_BODY"
  BY <1>4, <1>10, HeaderTurnMoves DEF Turn
<1>12. g[N].mPhase = "ON_BODY"
  BY <1>10, <1>11, MoreFields
<1>13. Turn("header", g[N]) = g[N]
  BY <1>12 DEF Turn, HeaderTurn
<1>14. g[M] = g[N]
  <2>1. N \in 0 .. M /\ M \in N .. M
    BY <1>1
  <2> QED
    BY <1>1, <1>3, <1>13, <2>1, TurnsStop
<1> QED
  BY <1>2, <1>3, <1>10, <1>11, <1>14 DEF p

(* The loop over the chunks stops where no more chunk is complete, and     *)
(* from there it goes on as if it had never stopped.                       *)
LEMMA MoreChunkLoop ==
  ASSUME NEW B, NEW q, WellPlaced(q, B), NEW t \in Seq(B), q.mHttpMessage # <<>>
  PROVE  Loop(ChunkTurn, More(q, t)) = Loop(ChunkTurn, More(Loop(ChunkTurn, q), t))
<1> DEFINE N == Len(q.mHttpMessage)
           p == More(q, t)
           r == Loop(ChunkTurn, q)
           s == More(r, t)
           M == Len(p.mHttpMessage)
<1>0. "chunk" # "header"
  OBVIOUS
<1>1. WellPlaced(r, B) /\ r.mHttpMessage = q.mHttpMessage
  BY LoopsKeep DEF Keeps
<1>2. /\ WellPlaced(p, B) /\ p.mHttpMessage = q.mHttpMessage \o t
      /\ WellPlaced(s, B) /\ s.mHttpMessage = q.mHttpMessage \o t
  BY <1>1, MoreIs
<1>3. N \in Nat /\ M \in Nat /\ N <= M /\ M = Len(s.mHttpMessage) /\ p.mHttpMessage # <<>>
  <2>1. q.mHttpMessage \in Seq(B)
    BY DEF WellPlaced
  <2>2. M = N + Len(t) /\ N \in Nat /\ Len(t) \in Nat /\ N # 0
    BY <1>2, <2>1, ConcatProperties, LenProperties, EmptySeq
  <2>3. M = Len(s.mHttpMessage)
    BY <1>2
  <2>4. p.mHttpMessage = <<>> => M = 0
    BY EmptySeq
  <2> HIDE DEF N, M
  <2> QED
    BY <2>2, <2>3, <2>4
<1>4. PICK f : IsTurns(f, N, "chunk", q) /\ r = f[N]
  BY <1>3, ChunkLoop
<1>5. PICK g : IsTurns(g, M, "chunk", p) /\ Loop(ChunkTurn, p) = g[M]
  BY <1>3, ChunkLoop
<1>6. PICK h : IsTurns(h, M, "chunk", s) /\ Loop(ChunkTurn, s) = h[M]
  BY <1>3, ChunkLoop
<1>d. \A x : Turn("chunk", x) = ChunkTurn(x)
  BY <1>0 DEF Turn
<1>a. f[0] = q /\ \A n \in Nat : n + 1 \in 0 .. N => f[n + 1] = ChunkTurn(f[n])
  <2>1. f = [i \in 0 .. N |-> IF i = 0 THEN q ELSE Turn("chunk", f[i - 1])]
    BY <1>4 DEF IsTurns
  <2>2. N \in Nat
    BY <1>3
  <2> QED
    BY <1>d, <2>1, <2>2
<1>b. g[0] = p /\ \A n \in Nat : n + 1 \in 0 .. M => g[n + 1] = ChunkTurn(g[n])
  <2>1. g = [i \in 0 .. M |-> IF i = 0 THEN p ELSE Turn("chunk", g[i - 1])]
    BY <1>5 DEF IsTurns
  <2>2. M \in Nat
    BY <1>3
  <2> QED
    BY <1>d, <2>1, <2>2
<1>c. h[0] = s /\ \A n \in Nat : n + 1 \in 0 .. M => h[n + 1] = ChunkTurn(h[n])
  <2>1. h = [i \in 0 .. M |-> IF i = 0 THEN s ELSE Turn("chunk", h[i - 1])]
    BY <1>6 DEF IsTurns
  <2>2. M \in Nat
    BY <1>3
  <2> QED
    BY <1>d, <2>1, <2>2
<1>7. ChunkTurn(f[N]) = f[N] /\ ChunkTurn(g[M]) = g[M]
  <2>1. Turn("chunk", f[N]) = f[N]
    BY <1>4, TurnsEnd
  <2>2. Turn("chunk", g[M]) = g[M]
    BY <1>2, <1>3, <1>5, TurnsEnd
  <2> QED
    BY <1>0, <2>1, <2>2 DEF Turn
<1> HIDE DEF N, M, p, r, s
<1>8. \A n \in 0 .. N : WellPlaced(f[n], B)
  BY <1>3, <1>4, TurnsKeep DEF Keeps
(* The first k turns take a chunk each, the same ones with t behind them.  *)
<1>9. PICK k \in 0 .. N : ChunkTurn(f[k]) = f[k] /\ \A n \in 0 .. N : n < k => ChunkTurn(f[n]) # f[n]
  <2> DEFINE stops == {n \in 0 .. N : ChunkTurn(f[n]) = f[n]}
  <2>1. stops \in SUBSET Nat /\ stops # {}
    BY <1>3, <1>7
  <2>2. \E k \in stops : \A n \in stops : k <= n
    <3> HIDE DEF stops
    <3> QED
      BY <2>1, LeastNumber
  <2> QED
    BY <2>2
<1>10. f[k] = r
  <2>1. ChunkTurn(f[k]) = f[k] /\ N \in Nat /\ N \in k .. N
    BY <1>3, <1>9
  <2>2. f[N] = f[k]
    BY <1>4, <2>1, ChunksStop
  <2> QED
    BY <1>4, <2>2
<1> DEFINE S == {n \in Nat : n \in 0 .. k => g[n] = More(f[n], t)}
<1>11. 0 \in S
  BY <1>a, <1>b DEF p
<1>12. \A n \in Nat : n \in S => n + 1 \in S
  <2>1. SUFFICES ASSUME NEW n \in Nat, n \in S, n + 1 \in 0 .. k
                 PROVE  g[n + 1] = More(f[n + 1], t)
    OBVIOUS
  <2>2. n \in 0 .. k /\ n < k /\ n \in 0 .. N /\ n + 1 \in 0 .. N /\ n + 1 \in 0 .. M
    BY <1>3, <2>1
  <2>3. f[n + 1] = ChunkTurn(f[n])
    BY <1>a, <2>2
  <2>4. g[n + 1] = ChunkTurn(g[n])
    BY <1>b, <2>2
  <2>5. g[n] = More(f[n], t)
    BY <2>1, <2>2
  <2>6. WellPlaced(f[n], B) /\ ChunkTurn(f[n]) # f[n]
    BY <1>8, <1>9, <2>2
  <2> QED
    BY <2>3, <2>4, <2>5, <2>6, MoreChunkTurn
<1> HIDE DEF S
<1>13. g[k] = s
  <2>1. \A n \in Nat : n \in S
    BY <1>11, <1>12, NatSetInduction
  <2>2. k \in Nat /\ k \in 0 .. k
    BY <1>3
  <2> QED
    BY <1>10, <2>1, <2>2 DEF S, s
(* From there on the two loops make the same turns.                        *)
<1> DEFINE T == {n \in Nat : k + n \in 0 .. M => g[k + n] = h[n]}
<1>14. 0 \in T
  <2>1. k + 0 = k
    BY <1>3
  <2> QED
    BY <1>13, <1>c, <2>1
<1>15. \A n \in Nat : n \in T => n + 1 \in T
  <2>0. \A n \in Nat : n + 1 \in Nat
    OBVIOUS
  <2>1. SUFFICES ASSUME NEW n \in Nat, n \in T, k + (n + 1) \in 0 .. M
                 PROVE  g[k + (n + 1)] = h[n + 1]
    BY <2>0, Zenon
  <2>2. k + n \in Nat /\ k + n \in 0 .. M /\ k + (n + 1) = (k + n) + 1 /\ n + 1 \in 0 .. M
    BY <1>3, <2>1
  <2>3. g[(k + n) + 1] = ChunkTurn(g[k + n])
    BY <1>b, <2>1, <2>2
  <2>4. h[n + 1] = ChunkTurn(h[n])
    BY <1>c, <2>2
  <2>5. g[k + n] = h[n]
    BY <2>1, <2>2
  <2> QED
    BY <2>2, <2>3, <2>4, <2>5
<1> HIDE DEF T
<1>16. PICK i \in 0 .. M : k + i = M
  <2>1. M - k \in 0 .. M /\ k + (M - k) = M
    BY <1>3
  <2> QED
    BY <2>1
<1>17. g[M] = h[i]
  <2>1. \A n \in Nat : n \in T
    BY <1>14, <1>15, NatSetInduction
  <2>2. i \in Nat /\ k + i \in 0 .. M
    BY <1>3, <1>16
  <2> QED
    BY <1>16, <2>1, <2>2 DEF T
<1>18. h[M] = h[i]
  <2>1. ChunkTurn(h[i]) = h[i] /\ M \in Nat /\ M \in i .. M
    BY <1>3, <1>7, <1>17
  <2> QED
    BY <1>6, <2>1, ChunksStop
<1> QED
  BY <1>5, <1>6, <1>17, <1>18 DEF p, r, s

LEMMA ThrowFields ==
  ASSUME NEW q, IsRequest(q), NEW code
  PROVE  /\ IsRequest(Throw(q, code)) /\ Throw(q, code).mMethod = q.mMethod
         /\ Throw(q, code).mTransferType = q.mTransferType
         /\ Throw(q, code).mPhase = q.mPhase
BY DEF Throw, IsRequest, NewRequest

LEMMA ChunkTurnFields ==
  ASSUME NEW q, IsRequest(q)
  PROVE  LET r == ChunkTurn(q)
         IN  /\ IsRequest(r) /\ r.mMethod = q.mMethod /\ r.mTransferType = q.mTransferType
             /\ r.mPhase \in {q.mPhase, "COMPLETE"}
<1> DEFINE foundHex  == find(q.mHttpMessage, EOL, q.mSeek)
           foundBody == find(q.mHttpMessage, EOL, foundHex + 2)
           hexValue  == Number(SubSeq(q.mHttpMessage, q.mSeek, foundHex - 1), 16)
           body      == SubSeq(q.mHttpMessage, foundHex + 2, foundBody - 1)
           longer == q.mBody \o body
<1>1. \/ ChunkTurn(q) = q
      \/ ChunkTurn(q) = Throw([q EXCEPT !.mSeek = foundHex + 2], 413)
      \/ ChunkTurn(q) = [q EXCEPT !.mSeek = foundHex + 2, !.mPhase = "COMPLETE"]
      \/ ChunkTurn(q) = [q EXCEPT !.mSeek = foundHex + 2 + hexValue + 2, !.mBody = longer]
  BY DEF ChunkTurn
<1> DEFINE data == foundHex + 2
           behind == data + hexValue + 2
           moved == [q EXCEPT !.mSeek = data]
<1>3. \/ ChunkTurn(q) = q
      \/ ChunkTurn(q) = Throw(moved, 413)
      \/ ChunkTurn(q) = [q EXCEPT !.mSeek = data, !.mPhase = "COMPLETE"]
      \/ ChunkTurn(q) = [q EXCEPT !.mSeek = behind, !.mBody = longer]
  BY <1>1
<1> HIDE DEF data, behind, longer
<1>4. CASE ChunkTurn(q) = q
  BY <1>4
<1>5. CASE ChunkTurn(q) = Throw(moved, 413)
  <2>1. /\ IsRequest(moved) /\ moved.mMethod = q.mMethod
        /\ moved.mTransferType = q.mTransferType /\ moved.mPhase = q.mPhase
    BY DEF IsRequest, NewRequest
  <2> HIDE DEF moved
  <2> QED
    BY <1>5, <2>1, ThrowFields
<1>6. CASE ChunkTurn(q) = [q EXCEPT !.mSeek = data, !.mPhase = "COMPLETE"]
  BY <1>6 DEF IsRequest, NewRequest
<1>7. CASE ChunkTurn(q) = [q EXCEPT !.mSeek = behind, !.mBody = longer]
  BY <1>7 DEF IsRequest, NewRequest
<1> QED
  BY <1>3, <1>4, <1>5, <1>6, <1>7

LEMMA ChunkLoopFields ==
  ASSUME NEW q, IsRequest(q), Len(q.mHttpMessage) \in Nat
  PROVE  LET r == Loop(ChunkTurn, q)
         IN  /\ r.mMethod = q.mMethod /\ r.mTransferType = q.mTransferType
             /\ r.mPhase \in {q.mPhase, "COMPLETE"}
<1> DEFINE N == Len(q.mHttpMessage)
           Same(r) == /\ IsRequest(r)
                      /\ r.mMethod = q.mMethod /\ r.mTransferType = q.mTransferType
                      /\ r.mPhase \in {q.mPhase, "COMPLETE"}
<1>1. PICK f : IsTurns(f, N, "chunk", q) /\ Loop(ChunkTurn, q) = f[N]
  BY ChunkLoop
<1>2. N \in Nat /\ "chunk" # "header"
  OBVIOUS
<1> HIDE DEF N
<1>a. f[0] = q /\ \A n \in Nat : n + 1 \in 0 .. N => f[n + 1] = ChunkTurn(f[n])
  BY <1>1, <1>2 DEF IsTurns, Turn
<1> DEFINE S == {n \in Nat : n \in 0 .. N => Same(f[n])}
<1>3. 0 \in S
  BY <1>a
<1>4. \A n \in Nat : n \in S => n + 1 \in S
  <2>1. SUFFICES ASSUME NEW n \in Nat, n \in S, n + 1 \in 0 .. N
                 PROVE  Same(f[n + 1])
    OBVIOUS
  <2>2. n \in 0 .. N
    BY <1>2, <2>1
  <2>3. Same(f[n])
    BY <2>1, <2>2
  <2>4. f[n + 1] = ChunkTurn(f[n])
    BY <1>a, <2>1
  <2> QED
    BY <2>3, <2>4, ChunkTurnFields
<1> HIDE DEF S
<1>5. \A n \in Nat : n \in S
  BY <1>3, <1>4, NatSetInduction
<1>6. N \in 0 .. N
  BY <1>2
<1> QED
  BY <1>1, <1>2, <1>5, <1>6 DEF S

(***************************************************************************)
(* To read s, and then t, is to read both in one piece.                    *)
(***************************************************************************)
LEMMA MoreBody ==
  ASSUME NEW B, NEW q, WellPlaced(q, B), NEW t \in Seq(B), q.mHttpMessage # <<>>,
         q.mPhase = "ON_BODY", q.thrown = 0,
         parseBody(q).thrown = 0, parseBody(q).mPhase # "COMPLETE"
  PROVE  /\ parseBody(More(parseBody(q), t)) = parseBody(More(q, t))
         /\ parseBody(q).mPhase = "ON_BODY"
<1>1. isRequestHasBody(q)
  <2>1. [q EXCEPT !.mPhase = "COMPLETE"].mPhase = "COMPLETE"
    BY DEF WellPlaced, IsRequest, NewRequest
  <2> QED
    BY <2>1 DEF parseBody
<1>2. CASE q.mTransferType = "CHUNKED"
  <2> DEFINE r == Loop(ChunkTurn, q)
  <2>1. parseBody(q) = r
    BY <1>1, <1>2 DEF parseBody, Chunked
  <2>2. /\ WellPlaced(r, B) /\ r.mHttpMessage = q.mHttpMessage
    BY LoopsKeep DEF Keeps
  <2>3. Len(q.mHttpMessage) \in Nat
    BY LenProperties DEF WellPlaced
  <2>4. /\ r.mMethod = q.mMethod /\ r.mTransferType = q.mTransferType
        /\ r.mPhase \in {q.mPhase, "COMPLETE"}
    BY <2>3, ChunkLoopFields DEF WellPlaced
  <2>5. r.mPhase = "ON_BODY" /\ r.thrown = 0
    BY <2>1, <2>4
  <2>6. \A x : /\ WellPlaced(x, B) /\ x.mPhase = "ON_BODY" /\ x.thrown = 0
               /\ x.mMethod = q.mMethod /\ x.mTransferType = "CHUNKED"
               => parseBody(More(x, t)) = Loop(ChunkTurn, More(x, t))
    <3>1. TAKE x
    <3>2. HAVE /\ WellPlaced(x, B) /\ x.mPhase = "ON_BODY" /\ x.thrown = 0
               /\ x.mMethod = q.mMethod /\ x.mTransferType = "CHUNKED"
    <3> DEFINE y == More(x, t)
    <3>3. /\ y.mPhase = "ON_BODY" /\ y.thrown = 0 /\ y.mMethod = q.mMethod
          /\ y.mTransferType = "CHUNKED"
      BY <3>2, MoreFields
    <3> HIDE DEF y
    <3> QED
      BY <1>1, <3>3 DEF parseBody, isRequestHasBody, Chunked, y
  <2>7. parseBody(More(q, t)) = Loop(ChunkTurn, More(q, t))
    BY <1>2, <2>6
  <2>8. Loop(ChunkTurn, More(q, t)) = Loop(ChunkTurn, More(r, t))
    BY MoreChunkLoop
  <2> HIDE DEF r
  <2>9. parseBody(More(r, t)) = Loop(ChunkTurn, More(r, t))
    BY <1>2, <2>2, <2>4, <2>5, <2>6
  <2> QED
    BY <2>1, <2>5, <2>7, <2>8, <2>9
<1>3. CASE q.mTransferType # "CHUNKED"
  <2> DEFINE key    == <<"content-length">>
             length == Number(q.mHeaders[key], 10)
             body == SubSeq(q.mHttpMessage, q.mSeek, Len(q.mHttpMessage))
             done == [q EXCEPT !.mBody = body, !.mPhase = "COMPLETE"]
  <2>1. parseBody(q) = General(q)
    BY <1>1, <1>3 DEF parseBody
  <2>2. General(q) \in {Throw(q, 411), Throw(q, 413), done, q}
    <3>1. General(q) =
            IF key \notin DOMAIN q.mHeaders THEN Throw(q, 411)
            ELSE IF length > Len(body) THEN q
            ELSE IF length # Len(body) THEN Throw(q, 413)
            ELSE done
      BY DEF General
    <3> HIDE DEF key, length, body, done
    <3> QED
      BY <3>1
  <2>3. Throw(q, 411).thrown = 411 /\ Throw(q, 413).thrown = 413
    BY DEF Throw, WellPlaced, IsRequest, NewRequest
  <2>4. done.mPhase = "COMPLETE"
    <3> HIDE DEF body
    <3> QED
      BY DEF WellPlaced, IsRequest, NewRequest
  <2> HIDE DEF done
  <2>5. parseBody(q) = q
    BY <2>1, <2>2, <2>3, <2>4
  <2> QED
    BY <2>5
<1> QED
  BY <1>2, <1>3

Piece(s) == [NewRequest EXCEPT !.mHttpMessage = s]

LEMMA PieceIs ==
  ASSUME NEW B, NEW s \in Seq(B)
  PROVE  /\ WellPlaced(Piece(s), B) /\ Piece(s).mHttpMessage = s
         /\ Piece(s).mSeek = 1 /\ Piece(s).mPhase = "READY" /\ Piece(s).thrown = 0
<1>1. Len(s) \in Nat /\ 1 \in 1 .. Len(s) + 1
  BY LenProperties
<1>2. /\ Piece(s).mHttpMessage = s /\ Piece(s).mSeek = 1 /\ Piece(s).mPhase = "READY"
      /\ Piece(s).thrown = 0 /\ IsRequest(Piece(s))
  BY DEF Piece, NewRequest, IsRequest
<1> QED
  BY <1>1, <1>2 DEF WellPlaced, Phases

LEMMA MorePiece ==
  ASSUME NEW s, NEW t
  PROVE  More(Piece(s), t) = Piece(s \o t)
BY DEF More, Piece, NewRequest

LEMMA MoreParse ==
  ASSUME NEW B, NEW s \in Seq(B), NEW t \in Seq(B),
         Parsed(s).thrown = 0, Parsed(s).mPhase # "COMPLETE"
  PROVE  Parse(More(Parsed(s), t)) = Parsed(s \o t)
<1> DEFINE a == Piece(s)
           b == parseStartLine(a)
           c == parseHeader(b)
           d == parseBody(c)
<1>1. d = Parsed(s) /\ Parsed(s \o t) = Parse(More(a, t))
  BY MorePiece DEF Parsed, Parse, Piece
<1>2. /\ WellPlaced(a, B) /\ a.mHttpMessage = s
      /\ a.mSeek = 1 /\ a.mPhase = "READY" /\ a.thrown = 0
  BY PieceIs
<1>3. WellPlaced(b, B) /\ b.mHttpMessage = s
  BY <1>2, StartLineKeeps DEF Keeps
<1>4. WellPlaced(c, B) /\ c.mHttpMessage = s
  BY <1>3, HeaderKeeps DEF Keeps
<1>5. WellPlaced(d, B) /\ d.thrown = 0 /\ d.mPhase # "COMPLETE"
  BY <1>1, <1>4, BodyKeeps DEF Keeps
<1>6. c.thrown = 0
  BY <1>5 DEF parseBody
<1>7. b.thrown = 0
  BY <1>6 DEF parseHeader
<1> HIDE DEF a, d
<1>8. CASE b = a
  <2>1. c = a
    BY <1>2, <1>8 DEF parseHeader
  <2>2. d = a
    BY <1>2, <2>1 DEF parseBody, d
  <2> QED
    BY <1>1, <2>2
<1>9. CASE b.mPhase = "ON_HEADER" /\ parseStartLine(More(a, t)) = More(b, t)
  <2> HIDE DEF b
  <2>1. More(b, t).mPhase = "ON_HEADER"
    BY <1>3, <1>9, MoreFields
  <2>2. Parsed(s \o t) = parseBody(parseHeader(More(b, t)))
    BY <1>1, <1>9 DEF Parse
  <2>3. CASE find(b.mHttpMessage, EOL \o EOL, b.mSeek) = npos
    <3>1. c = b
      BY <2>3 DEF parseHeader
    <3>2. d = b
      BY <1>9, <3>1 DEF parseBody, d
    <3>3. parseStartLine(More(b, t)) = More(b, t)
      BY <2>1 DEF parseStartLine
    <3> QED
      BY <1>1, <2>2, <3>2, <3>3 DEF Parse
  <2>4. CASE find(b.mHttpMessage, EOL \o EOL, b.mSeek) # npos
    <3> DEFINE p == More(b, t)
    <3>1. c = Loop(HeaderTurn, b)
      BY <1>7, <1>9, <2>4 DEF parseHeader
    <3>2. b.mSeek \in Nat /\ b.mSeek >= 1
      BY <1>3, LenProperties DEF WellPlaced
    <3>3. find(p.mHttpMessage, EOL \o EOL, b.mSeek) # npos
      BY <1>3, <2>4, <3>2, MoreBetween, Patterns
    <3>4. p.mSeek = b.mSeek /\ p.thrown = 0
      BY <1>3, <1>7, MoreFields
    <3> HIDE DEF p
    <3>5. parseHeader(p) = Loop(HeaderTurn, p)
      BY <2>1, <3>3, <3>4 DEF parseHeader, p
    <3>6. b.mHttpMessage # <<>>
      <4>1. Len(b.mHttpMessage) # 0
        <5>1. b.mHttpMessage \in Seq(B) /\ Len(b.mHttpMessage) \in Nat
          BY <1>3, LenProperties DEF WellPlaced
        <5>2. find(b.mHttpMessage, EOL \o EOL, b.mSeek) + Len(EOL \o EOL)
                \in 1 .. Len(b.mHttpMessage) + 1
              /\ find(b.mHttpMessage, EOL \o EOL, b.mSeek) \in Nat
              /\ find(b.mHttpMessage, EOL \o EOL, b.mSeek) >= b.mSeek
          BY <1>3, <2>4, <3>2, FoundPlace, Patterns
        <5> QED
          BY <3>2, <5>1, <5>2, Patterns
      <4> QED
        BY <4>1, EmptySeq
    <3>7. c.mPhase = "ON_BODY" /\ parseHeader(p) = More(c, t)
      BY <1>3, <1>6, <1>9, <3>1, <3>5, <3>6, MoreHeaderLoop DEF p
    <3> HIDE DEF c
    <3>8. Parsed(s \o t) = parseBody(More(c, t))
      BY <2>2, <3>7 DEF p
    <3>9. parseBody(More(d, t)) = parseBody(More(c, t)) /\ d.mPhase = "ON_BODY"
      BY <1>3, <1>4, <1>5, <1>6, <3>6, <3>7, MoreBody DEF d
    <3>10. More(d, t).mPhase = "ON_BODY"
      BY <1>5, <3>9, MoreFields
    <3>11. Parse(More(d, t)) = parseBody(More(d, t))
      BY <3>10 DEF Parse, parseStartLine, parseHeader
    <3> QED
      BY <1>1, <3>8, <3>9, <3>11
  <2> QED
    BY <2>3, <2>4
<1> QED
  BY <1>2, <1>7, <1>8, <1>9, MoreStartLine

(***************************************************************************)
(* Whatever pieces a message comes in: while its answer is not due, or is  *)
(* due and nothing more is read, mRequest is what the bytes read so far    *)
(* make in one piece.                                                      *)
(***************************************************************************)
InPieces ==
  sent \notin Overtaken =>
    /\ mRequest = Parsed(mRequest.mHttpMessage)
    /\ answer = 0 => mRequest.thrown = 0
    /\ answer \in Codes => mRequest.thrown = answer

LEMMA NewInPieces == NewRequest = Parsed(NewRequest.mHttpMessage) /\ NewRequest.thrown = 0
<1> DEFINE B == {}
<1>1. <<>> \in Seq(B) /\ Len(<<>>) = 0
  BY EmptySeq
<1>2. NewRequest.mHttpMessage = <<>> /\ NewRequest.thrown = 0
  BY DEF NewRequest
<1>3. /\ Piece(<<>>).mHttpMessage = <<>> /\ Piece(<<>>).mPhase = "READY"
      /\ Piece(<<>>).thrown = 0 /\ WellPlaced(Piece(<<>>), B)
  BY <1>1, PieceIs
<1>4. Piece(<<>>) = NewRequest
  BY DEF Piece, NewRequest
<1>5. find(<<>>, EOL, 1) = npos
  <2>1. find(<<>>, EOL, 1) # npos => FALSE
    BY <1>1, <1>3, FoundPlace, Patterns
  <2> QED
    BY <2>1
<1>6. Parse(Piece(<<>>)) = Piece(<<>>)
  BY <1>3, <1>5 DEF Parse, parseStartLine, parseHeader, parseBody
<1>7. Parsed(<<>>) = Parse(Piece(<<>>))
  BY DEF Parsed, Piece
<1> QED
  BY <1>2, <1>4, <1>6, <1>7

LEMMA StepInPieces == IInv /\ InPieces /\ [Next]_vars => InPieces'
<1> SUFFICES ASSUME IInv, InPieces, [Next]_vars PROVE InPieces'
  OBVIOUS
<1>0. ASSUME mRequest' = NewRequest, answer' = 0 PROVE InPieces'
  BY <1>0, NewInPieces DEF InPieces, Codes
<1>1. ASSUME NEW m \in Messages, Send(m) PROVE InPieces'
  <2>1. sent = NoMessage /\ UNCHANGED <<mRequest, answer>>
    BY <1>1 DEF Send
  <2>2. NoMessage \notin Overtaken
    BY MessagesAssumption
  <2> QED
    BY <2>1, <2>2 DEF InPieces
<1>2. ASSUME NEW n \in 1 .. Len(wire), recvRequest(n) PROVE InPieces'
  <2> SUFFICES ASSUME sent' \notin Overtaken
               PROVE  /\ mRequest' = Parsed(mRequest'.mHttpMessage)
                      /\ answer' = 0 => mRequest'.thrown = 0
                      /\ answer' \in Codes => mRequest'.thrown = answer'
    BY DEF InPieces
  <2> DEFINE s == mRequest.mHttpMessage
             t == SubSeq(wire, 1, n)
             p == [More(mRequest, t) EXCEPT !.thrown = 0]
             q == Parse(p)
  <2>1. sent \notin Overtaken /\ answer = 0
    BY <1>2 DEF recvRequest
  <2>2. mRequest = Parsed(s) /\ mRequest.thrown = 0 /\ mRequest.mPhase # "COMPLETE"
    BY <2>1 DEF InPieces, IInv, TypeOK, ToSolve
  <2>3. s \in Seq(Bytes) /\ t \in Seq(Bytes)
    <3>1. Len(wire) \in Nat /\ \A k \in 1 .. Len(wire) : wire[k] \in Bytes
      BY LenProperties, ElementOfSeq DEF IInv
    <3>2. t \in Seq(Bytes)
      BY <3>1, SubSeqProperties
    <3> QED
      BY <3>2 DEF IInv, WellPlaced
  <2>4. /\ mRequest' = q
        /\ answer' = IF q.thrown # 0 THEN q.thrown
                     ELSE IF q.mPhase = "COMPLETE" THEN ToSolve ELSE answer
    BY <1>2 DEF recvRequest
  <2> HIDE DEF s, t
  <2>5. p = More(mRequest, t)
    <3>0. WellPlaced(mRequest, Bytes)
      BY DEF IInv
    <3>1. WellPlaced(More(mRequest, t), Bytes) /\ More(mRequest, t).thrown = 0
      BY <2>2, <2>3, <3>0, MoreIs, MoreFields
    <3> QED
      BY <3>1 DEF WellPlaced, IsRequest, NewRequest
  <2>6. q = Parsed(s \o t)
    <3>1. Parse(More(Parsed(s), t)) = Parsed(s \o t)
      BY <2>2, <2>3, MoreParse
    <3>2. q = Parse(More(Parsed(s), t))
      BY <2>2, <2>5, Zenon
    <3> QED
      BY <3>1, <3>2
  <2>7. q.mHttpMessage = s \o t
    <3>0. WellPlaced(mRequest, Bytes) /\ mRequest.mHttpMessage = s
      BY DEF IInv, s
    <3>1. WellPlaced(More(mRequest, t), Bytes) /\ More(mRequest, t).mHttpMessage = s \o t
      BY <2>3, <3>0, MoreIs
    <3>2. WellPlaced(p, Bytes) /\ p.mHttpMessage = s \o t
      BY <2>5, <3>1
    <3> HIDE DEF p
    <3> QED
      BY <3>2, ParseKeeps DEF Keeps
  <2> HIDE DEF p, q
  <2> QED
    BY <2>1, <2>4, <2>6, <2>7 DEF Codes, ToSolve
<1>3. CASE runSend
  BY <1>0, <1>3 DEF runSend
<1>4. CASE EndOfFile
  BY <1>0, <1>4 DEF EndOfFile
<1>5. CASE UNCHANGED vars
  BY <1>5 DEF InPieces, vars
<1> QED
  BY <1>1, <1>2, <1>3, <1>4, <1>5 DEF Next

LEMMA InitInPieces == Init => InPieces
BY NewInPieces DEF Init, InPieces, Codes

(* Nothing recvRequest keeps between two reads is lost or counted twice.   *)
(* A message that is overtaken is left out: what is read behind a complete *)
(* body, or behind what was rejected, makes a difference.                  *)
THEOREM PiecesDoNotMatterCorrect == Spec => [](sent \notin Overtaken => PiecesDoNotMatter)
<1>1. IInv /\ InPieces => (sent \notin Overtaken => PiecesDoNotMatter)
  BY DEF InPieces, PiecesDoNotMatter
<1> QED
  BY <1>1, InitIInv, InitInPieces, StepIInv, StepInPieces, PTL DEF Spec

(***************************************************************************)
(* So it is enough that every message is read as it should be in one piece *)
(* (ReadWhole): then it is in any pieces.  What has been read and what has *)
(* not are the message the client waits for an answer to.                  *)
(***************************************************************************)
InOrder ==
  IF sent = NoMessage THEN wire = <<>> /\ mRequest = NewRequest /\ answer = 0
  ELSE mRequest.mHttpMessage \o wire = sent.tokens

LEMMA ReadSoFar ==
  ASSUME IInv, InOrder, sent # NoMessage
  PROVE  LET n == Len(mRequest.mHttpMessage)
         IN  /\ n \in 0 .. Len(sent.tokens) /\ SubSeq(sent.tokens, 1, n) = mRequest.mHttpMessage
             /\ n = Len(sent.tokens) <=> wire = <<>>
<1> DEFINE s == mRequest.mHttpMessage
<1>1. s \in Seq(Bytes) /\ wire \in Seq(Bytes)
  BY DEF IInv, WellPlaced
<1>2. sent.tokens = s \o wire
  BY DEF InOrder
<1> HIDE DEF s
<1>3. Len(s) \in Nat /\ Len(wire) \in Nat /\ Len(s \o wire) = Len(s) + Len(wire)
  BY <1>1, ConcatProperties, LenProperties
<1>4. SubSeq(s \o wire, 1, Len(s)) = SubSeq(s, 1, Len(s))
  BY <1>1, <1>3, SubSeqMore
<1>5. SubSeq(s, 1, Len(s)) = s
  BY <1>1, <1>3
<1>6. wire = <<>> <=> Len(wire) = 0
  BY <1>1, EmptySeq
<1> QED
  BY <1>2, <1>3, <1>4, <1>5, <1>6 DEF s

(* What ReadWhole says of the request as it stands.                        *)
LEMMA ReadRight ==
  ASSUME IInv, InPieces, InOrder, sent # NoMessage, sent \notin Overtaken, ReadWhole(sent)
  PROVE  /\ answer \in Codes => answer \in sent.codes
         /\ answer = ToSolve => wire = <<>> /\ sent.codes = {} /\ Meaning(mRequest) = sent.meaning
         /\ wire = <<>> /\ sent.hasHeader => answer # 0
<1> DEFINE n == Len(mRequest.mHttpMessage)
<1>1. /\ n \in 0 .. Len(sent.tokens) /\ SubSeq(sent.tokens, 1, n) = mRequest.mHttpMessage
      /\ n = Len(sent.tokens) <=> wire = <<>>
  BY ReadSoFar
<1>2. mRequest = Parsed(mRequest.mHttpMessage) /\ (answer = 0 => mRequest.thrown = 0)
      /\ (answer \in Codes => mRequest.thrown = answer)
  BY DEF InPieces
<1> HIDE DEF n
<1>3. /\ mRequest.thrown # 0 => mRequest.thrown \in sent.codes
      /\ mRequest.mPhase = "COMPLETE" =>
           n = Len(sent.tokens) /\ sent.codes = {} /\ Meaning(mRequest) = sent.meaning
      /\ n = Len(sent.tokens) /\ sent.hasHeader =>
           mRequest.thrown # 0 \/ mRequest.mPhase = "COMPLETE"
  BY <1>1, <1>2 DEF ReadWhole
<1>4. (mRequest.mPhase = "COMPLETE") = (answer = ToSolve)
  BY DEF IInv, TypeOK
<1>5. 0 \notin Codes /\ ToSolve # 0
  BY DEF Codes, ToSolve
<1> QED
  BY <1>1, <1>2, <1>3, <1>4, <1>5

LEMMA ReadInTurn ==
  ASSUME NEW B, NEW s \in Seq(B), NEW t \in Seq(B), NEW u \in Seq(B), NEW w, w = t \o u
  PROVE  s \o w = (s \o t) \o u
BY ConcatAssociative, SMTT(30)

LEMMA StepInOrder ==
  ASSUME Overtaken = {}, \A m \in Messages : ReadWhole(m),
         IInv, InPieces, InOrder, [Next]_vars
  PROVE  InOrder'
<1>1. ASSUME NEW m \in Messages, Send(m) PROVE InOrder'
  <2>1. /\ wire = <<>> /\ mRequest' = NewRequest /\ sent' = m /\ m # NoMessage
        /\ wire' = wire \o m.tokens
    BY <1>1, MessagesAssumption DEF Send, InOrder
  <2>2. m.tokens \in Seq(Bytes)
    BY TokensOK
  <2>3. NewRequest.mHttpMessage = <<>>
    BY DEF NewRequest
  <2>4. <<>> \o m.tokens = m.tokens
    BY <2>2, ConcatEmptySeq
  <2> QED
    BY <2>1, <2>3, <2>4 DEF InOrder
<1>2. ASSUME NEW n \in 1 .. Len(wire), recvRequest(n) PROVE InOrder'
  <2> DEFINE s == mRequest.mHttpMessage
             t == SubSeq(wire, 1, n)
             u == SubSeq(wire, n + 1, Len(wire))
             p == [More(mRequest, t) EXCEPT !.thrown = 0]
  <2>1. /\ wire \in Seq(Bytes) /\ Len(wire) \in Nat /\ Len(wire) # 0
        /\ n \in Nat /\ n >= 1 /\ n <= Len(wire)
        /\ \A k \in 1 .. Len(wire) : wire[k] \in Bytes
    BY LenProperties, ElementOfSeq DEF IInv
  <2>2. t \in Seq(Bytes) /\ u \in Seq(Bytes)
    BY <2>1, SubSeqProperties
  <2>3. wire = t \o u
    BY <2>1
  <2>4. s \in Seq(Bytes) /\ WellPlaced(mRequest, Bytes)
    BY DEF IInv, WellPlaced
  <2>5. wire' = u /\ mRequest' = Parse(p) /\ sent' = sent
    BY <1>2 DEF recvRequest
  <2> HIDE DEF s, t, u
  <2>6. WellPlaced(More(mRequest, t), Bytes) /\ More(mRequest, t).mHttpMessage = s \o t
    BY <2>2, <2>4, MoreIs DEF s
  <2>7. WellPlaced(p, Bytes) /\ p.mHttpMessage = s \o t
    <3> DEFINE y == More(mRequest, t)
    <3> HIDE DEF y
    <3> QED
      BY <2>6 DEF WellPlaced, IsRequest, NewRequest, y
  <2>8. mRequest'.mHttpMessage = s \o t
    BY <2>5, <2>7, ParseKeeps DEF Keeps
  <2>9. s \o wire = (s \o t) \o u
    BY <2>2, <2>3, <2>4, ReadInTurn, SMTT(30)
  <2>10. wire # <<>>
    BY <2>1, EmptySeq
  <2> QED
    BY <2>5, <2>8, <2>9, <2>10 DEF InOrder, s
<1>3. CASE runSend
  <2>1. mRequest' = NewRequest /\ sent' = NoMessage /\ answer' = 0
    BY <1>3 DEF runSend
  <2>2. wire' = <<>>
    <3>1. CASE Kept
      <4>1. answer = ToSolve /\ wire' = wire /\ answer # 0
        BY <3>1 DEF Kept, ToSolve
      <4>2. sent # NoMessage
        BY <4>1 DEF InOrder
      <4>3. sent \in Messages
        BY <4>2 DEF IInv, TypeOK
      <4> QED
        BY <4>1, <4>2, <4>3, ReadRight
    <3>2. CASE Closed
      BY <3>2 DEF Closed
    <3> QED
      BY <1>3, <3>1, <3>2 DEF runSend
  <2> QED
    BY <2>1, <2>2 DEF InOrder
<1>4. CASE EndOfFile
  BY <1>4 DEF EndOfFile, InOrder
<1>5. CASE UNCHANGED vars
  BY <1>5 DEF InOrder, vars
<1> QED
  BY <1>1, <1>2, <1>3, <1>4, <1>5 DEF Next

LEMMA ReadWholeIsEnough ==
  ASSUME Overtaken = {}, \A m \in Messages : ReadWhole(m)
  PROVE  Spec => [](ParsedAsSent /\ RejectedAsTold /\ Drained)
<1>1. Init => InOrder
  BY DEF Init, InOrder
<1>2. IInv /\ InPieces /\ InOrder /\ [Next]_vars => InOrder'
  BY StepInOrder
<1>3. IInv /\ InPieces /\ InOrder => ParsedAsSent /\ RejectedAsTold /\ Drained
  <2> SUFFICES ASSUME IInv, InPieces, InOrder
               PROVE  ParsedAsSent /\ RejectedAsTold /\ Drained
    OBVIOUS
  <2>1. CASE sent = NoMessage
    BY <2>1 DEF InOrder, ParsedAsSent, RejectedAsTold, Drained, ToSolve, Codes
  <2>2. CASE sent # NoMessage
    <3>1. sent \in Messages
      BY <2>2 DEF IInv, TypeOK
    <3> QED
      BY <2>2, <3>1, ReadRight DEF ParsedAsSent, RejectedAsTold, Drained
  <2> QED
    BY <2>1, <2>2
<1> QED
  BY <1>1, <1>2, <1>3, InitIInv, InitInPieces, StepIInv, StepInPieces, PTL DEF Spec

(* A request is solved as it was sent, and when all of it has been read.   *)
THEOREM ParsedAsSentCorrect ==
  ASSUME Overtaken = {}, \A m \in Messages : ReadWhole(m)
  PROVE  Spec => []ParsedAsSent
BY ReadWholeIsEnough, PTL

(* The parsers reject a request only with a status it deserves.            *)
THEOREM RejectedAsToldCorrect ==
  ASSUME Overtaken = {}, \A m \in Messages : ReadWhole(m)
  PROVE  Spec => []RejectedAsTold
BY ReadWholeIsEnough, PTL

(* A request with a header field that has been read to its end is solved   *)
(* or rejected: recvRequest does not wait for bytes that never come.       *)
THEOREM DrainedCorrect ==
  ASSUME Overtaken = {}, \A m \in Messages : ReadWhole(m)
  PROVE  Spec => []Drained
BY ReadWholeIsEnough, PTL
=============================================================================
