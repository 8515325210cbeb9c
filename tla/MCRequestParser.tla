--------------------------- MODULE MCRequestParser ---------------------------
(***************************************************************************)
(* The messages of the runs of RequestParser: what a client that writes    *)
(* requests by RFC 7230 puts on the wire, and the malformed ones of        *)
(* src/ft_tester/statusCodeTester.cpp and their kin.  `one', `two', `a'    *)
(* are the digits of a number, k is a byte of a body.                      *)
(***************************************************************************)
EXTENDS RequestParser, SequencesExt

MCLower == [Host |-> "host", CONTENT |-> "content-length", Encoding |-> "transfer-encoding"]

(* Header fields as they are written, and as they are meant.               *)
Field(name, value) == [name |-> name, value |-> value]
host  == Field("Host", <<"h", ":", "two">>)
other == Field("host", <<"other">>)
note  == Field("note", <<>>)
size(digits) == Field("CONTENT", digits)
chunks == Field("Encoding", <<"gzip", "chunked">>)

WriteFields(fields) ==
  FlattenSeq([k \in DOMAIN fields |-> <<fields[k].name, ":", " ">> \o fields[k].value \o EOL])
(* The first of the fields of a name counts, the port of a host does not.  *)
MeantFields(fields) ==
  LET name(k)  == tolower(<<fields[k].name>>)
      first(n) == CHOOSE k \in DOMAIN fields :
                    name(k) = n /\ \A j \in DOMAIN fields : name(j) = n => k <= j
  IN  [n \in {name(k) : k \in DOMAIN fields} |->
         IF n = <<"host">> THEN <<Head(fields[first(n)].value)>> ELSE fields[first(n)].value]

Uri(directory, file, query, type) ==
  [text |-> directory \o (IF file = <<>> THEN <<>> ELSE <<"/">> \o file)
            \o (IF query = <<>> THEN <<>> ELSE <<"?">> \o query),
   directory |-> directory, file |-> file, query |-> query, type |-> type]

Message(method, uri, fields, text, body) ==
  [tokens |-> <<method>> \o SP \o uri.text \o SP \o <<"HTTP", "/", "1.1">> \o EOL
              \o WriteFields(fields) \o EOL \o text,
   codes |-> {}, hasHeader |-> fields # <<>>,
   meaning |-> [method |-> <<method>>, directory |-> uri.directory, file |-> uri.file,
                query |-> uri.query, type |-> uri.type, headers |-> MeantFields(fields),
                body |-> body]]

WellFormed ==
  {Message("GET", u, f, <<>>, <<>>) :
     u \in {Uri(<<"/">>, <<>>, <<>>, "DIRECTORY"), Uri(<<"/", "d">>, <<"f">>, <<"q">>, "FILE")},
     f \in {<<>>, <<host>>, <<note, host, other>>}}
  \cup {Message("OPTIONS", [Uri(<<>>, <<>>, <<>>, "DIRECTORY") EXCEPT !.text = <<"/", "*">>], <<host>>, <<>>, <<>>),
        Message("DELETE", Uri(<<>>, <<"f">>, <<>>, "FILE_TO_DELETE"), <<host>>, <<>>, <<>>)}
  \cup {Message("PUT", Uri(<<>>, <<"f">>, <<>>, "FILE_TO_CREATE"), <<host, size(b.size)>>, b.text, b.text) :
          b \in {[size |-> <<"zero">>, text |-> <<>>], [size |-> <<"two">>, text |-> <<"k", "k">>],
                 [size |-> <<"three">>, text |-> EOL \o <<"k">>],
                 [size |-> <<"one", "zero">>, text |-> EOL \o EOL \o <<"two">> \o EOL \o <<"k", "k", "k">>]}}
  \cup {Message("POST", Uri(<<>>, <<"f">>, <<>>, "FILE"), f, b.text \o <<"zero">> \o EOL \o EOL, b.body) :
          f \in {<<chunks>>, <<size(<<"one">>), chunks>>},
          b \in {[text |-> <<>>, body |-> <<>>],
                 [text |-> <<"two">> \o EOL \o <<"k", "k">> \o EOL \o <<"one">> \o EOL \o <<"zero">> \o EOL,
                  body |-> <<"k", "k", "zero">>],
                 [text |-> <<"a", ";", "x">> \o EOL \o [i \in 1 .. 10 |-> "k"] \o EOL,
                  body |-> [i \in 1 .. 10 |-> "k"]]}}

(* Malformed messages and the statuses that refuse them.                     *)
Broken(codes, tokens) == [tokens |-> tokens, codes |-> codes, hasHeader |-> TRUE]
StartLine(method, uri, version) == <<method>> \o SP \o uri \o SP \o version \o EOL
put == StartLine("PUT", <<"/", "f">>, <<"HTTP", "/", "1.1">>)
field == <<"note", ":", " ", "k">> \o EOL

BrokenHead ==
  {Broken({400, 414}, <<"GET">> \o EOL \o field \o EOL),
   Broken({414}, <<"GET">> \o SP \o <<"/">> \o EOL),
   Broken({414}, StartLine("GET", [i \in 1 .. MaxUri + 1 |-> "/"], <<"HTTP", "/", "1.1">>) \o field \o EOL),
   Broken({400}, StartLine("GET", <<"d", "?", "/">>, <<"HTTP", "/", "1.1">>) \o field \o EOL),
   Broken({505}, StartLine("GET", <<"/">>, <<"HTTP", "/", "1.2">>) \o field \o EOL),
   Broken({505}, StartLine("GET", <<"/">>, <<"k">>) \o field \o EOL),
   Broken({505}, <<"GET">> \o SP \o <<"/">> \o SP \o <<"HTTP">> \o EOL \o field \o EOL),
   Broken({400}, StartLine("GET", <<"/">>, <<"HTTP", "/", "1.1">>) \o field \o <<"k", ":", "k">> \o EOL \o EOL),
   Broken({400}, put \o <<"k", ":", "k">> \o EOL \o WriteFields(<<size(<<"two">>)>>) \o EOL \o <<"k", "k">>)}
BrokenBody ==
  {Broken({411}, put \o field \o EOL \o <<"k", "k">>)}
BrokenChunks ==
  {Broken({413}, put \o WriteFields(<<chunks>>) \o EOL \o body) :
     body \in {<<"two">> \o EOL \o <<"k", "k">> \o EOL \o <<"three">> \o EOL \o <<"k", "k", "k", "k">> \o EOL
               \o <<"zero">> \o EOL \o EOL,
               <<"three">> \o EOL \o <<"k">> \o EOL \o <<"zero">> \o EOL \o EOL}}
(* A body longer than its Content-Length.                                  *)
BrokenLength ==
  {Broken({413}, put \o WriteFields(<<size(<<"two">>)>>) \o EOL \o <<"k", "k", "k">>)}

MCPieces   == WellFormed \cup BrokenHead \cup BrokenBody \cup BrokenChunks
MCOvertaken == WellFormed \cup BrokenHead \cup BrokenBody

MCOverlong == BrokenLength
=============================================================================
