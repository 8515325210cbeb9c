--------------------------- MODULE MCSolveRequest ---------------------------
(***************************************************************************)
(* The served trees and the requests of the runs of SolveRequest.          *)
(***************************************************************************)
EXTENDS SolveRequest, Sequences, FiniteSets, TLC

x == <<"data", "x">>
big == <<"data", "big">>
script == <<"data", "script">>
MCSize == [b \in {Empty, script, x, big} |->
             CASE b = Empty -> 0 [] b = script -> 1 [] b = x -> 2 [] b = big -> 3]

(* A directory with an index page, a file to write, a CGI script of each   *)
(* kind, a script nobody may read, a path below a file, and one below a    *)
(* directory that is not there.                                            *)
MCPaths == {"/d", "/d/index", "/d/new", "/d/a.bla", "/b.php", "/no.bla", "/b.php/x",
            "/gone", "/gone/x"}
MCAbove == [p \in MCPaths |->
  CASE p \in {"/d/index", "/d/new", "/d/a.bla"} -> {"/d"}
    [] p = "/b.php/x" -> {"/b.php"}
    [] p = "/gone/x" -> {"/gone"}
    [] OTHER -> {}]
dir == [kind |-> "dir", content |-> Nothing]
MCTree == [p \in MCPaths |->
  CASE p = "/d" -> dir
    [] p \in {"/d/index", "/d/a.bla", "/b.php"} -> File(script)
    [] p = "/no.bla" -> [kind |-> "refused", content |-> Nothing]
    [] OTHER -> Absent]

LocationPath(methods, auth, max, auto, error) ==
  [mMethod |-> methods, auth |-> auth, mClientMaxBodySize |-> max,
   mAutoIndex |-> auto, mErrorPage |-> error]
MCLocation == [p \in MCPaths |->
  IF p \in {"/d", "/d/index", "/d/new", "/d/a.bla"}
  THEN LocationPath(Methods, TRUE, 2, FALSE, "d.html")
  ELSE LocationPath(Methods \ {"DELETE"}, FALSE, 0, TRUE, "other.html")]

MCCgiName == {"/d/a.bla", "/no.bla", "/b.php"}
MCProgramOf == [p \in MCPaths |->
  CASE p \in {"/d/a.bla", "/no.bla"} -> "bla" [] p = "/b.php" -> "php" [] OTHER -> NoProgram]
MCPhp == {"php"}
MCIndexPages == [p \in MCPaths |-> IF p = "/d" THEN <<"/d/new", "/d/index">> ELSE <<>>]

Request(m, p, s, b, a) == [method |-> m, path |-> p, slash |-> s, body |-> b, credentials |-> a]
(* Everything that is done to a file and a directory, with and without     *)
(* credentials.                                                            *)
TreeRequests ==
  {Request("PUT", "/d/new", FALSE, b, "right") : b \in {x, big}}
  \cup {Request("PUT", "/d/new", FALSE, x, "wrong"), Request("OPTIONS", "/d", TRUE, Empty, "right")}
  \cup {Request("DELETE", p, FALSE, Empty, "right") : p \in {"/d/new", "/d", "/b.php"}}
  \cup {Request("GET", "/d", s, Empty, "right") : s \in BOOLEAN}
  \cup {Request(m, "/d/new", FALSE, Empty, "right") : m \in {"GET", "HEAD", "TRACE"}}
  \cup {Request("PUT", p, TRUE, x, "right") : p \in {"/d/new", "/b.php/x", "/d"}}
  \cup {Request("PUT", "/gone/x", FALSE, x, "none")}
  \cup {Request("GET", "/b.php/x", FALSE, Empty, "none")}
(* CGI programs and the requests they share the server with.               *)
CgiRequests ==
  {Request("GET", "/d/a.bla", FALSE, Empty, "right")}
  \cup {Request("POST", "/d/a.bla", FALSE, b, "right") : b \in {x, Empty}}
  \cup {Request("GET", "/b.php", FALSE, Empty, "right"), Request("POST", "/b.php", FALSE, script, "right")}
  \cup {Request(m, "/d/a.bla", FALSE, Empty, "right") : m \in {"HEAD", "OPTIONS", "PUT"}}
  \cup {Request("GET", "/no.bla", FALSE, Empty, "none"), Request("GET", "/b.php", TRUE, Empty, "none")}
MCRequests == TreeRequests \cup CgiRequests

(* BOUND: one connection at a time is left with a file fromCGI<fd> that no *)
(* program of its own is about to write or has just written.               *)
executing(c) == eStatus[c] \in {"CGI_READY", "CGI_ING"}
OneLeftover == Cardinality({c \in Conns : ~executing(c) /\ fromCGI[c] # NoFile}) <= 1

(* A connection is only its name, until it is compared with itself.        *)
Symmetry == Permutations(Conns)
=============================================================================
