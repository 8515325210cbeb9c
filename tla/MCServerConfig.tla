---------------------------- MODULE MCServerConfig ----------------------------
(***************************************************************************)
(* The configuration files of the runs of ServerConfig.                    *)
(***************************************************************************)
EXTENDS ServerConfig

MCAtoi == [d \in {"1", "5", "8001", "65537"} |->
  CASE d = "1" -> 1 [] d = "5" -> 5 [] d = "8001" -> 8001 [] d = "65537" -> 65537]

Directive1(d, w) == [path |-> <<>>, words |-> << <<d>>, w >>, body |-> <<>>]
Directive2(d, v, w) == [path |-> <<>>, words |-> << <<d>>, v, w >>, body |-> <<>>]
Location(path, body) == [path |-> path, words |-> <<>>, body |-> body]

a == <<"a">>
b == <<"b">>
SlashX == <<"/", "x">>
SlashXY == <<"/", "x", "/", "y">>

(* Two names on one address; a server goes on behind its locations; lists  *)
(* in one, two and no lines; a location inside another one.                *)
TwoNames ==
  << <<Directive1("server_name", a), Directive2("method", <<"GET">>, <<"PUT">>),
       Directive1("root", <<"/">>),
       Location(SlashX, << << <<"root">>, SlashXY >>, << <<"method">>, <<"POST">> >>,
                           << <<"method">>, <<"GET">> >> >>),
       Location(SlashXY, << << <<"autoindex">>, <<"on">> >> >>),
       Directive1("index_pages", <<"i.html">>), Directive1("method", <<"HEAD">>)>>,
     <<Directive1("server_name", b), Directive1("error_page", <<"e.html">>),
       Directive1("timeout", <<"5">>),
       Location(SlashX, << << <<"client_max_body_size">>, <<"1">> >> >>)>> >>

(* Three addresses, one of them with a port of more than 16 bits; the last *)
(* server has no name and no location.                                     *)
ThreeAddresses ==
  << <<Directive1("host", <<"h">>), Directive1("port", <<"8001">>), Directive1("autoindex", <<"on">>)>>,
     <<Directive1("port", <<"65537">>), Directive1("auth_basic_user_file", <<"p">>),
       Directive2("cgi_extension", <<".py">>, <<".rb">>), Directive1("cgi_program_path", SlashX),
       Location(SlashXY, <<>>), Location(SlashX, << << <<"cgi_program_path">>, a >> >>)>>,
     <<Directive1("autoindex", <<"off">>)>> >>

(* The same server twice, and a location that has no segments.             *)
Overlap == << <<Directive1("port", <<"1">>)>>, <<Directive1("port", <<"65537">>)>> >>
RootLocation == << <<Directive1("root", SlashX), Location(<<"/">>, <<>>)>> >>

(* A location that moves to the name of another server, one that moves to  *)
(* another port, and one that is there twice.                              *)
Moving ==
  << <<Directive1("server_name", a), Location(SlashX, << << <<"server_name">>, b >> >>)>>,
     <<Directive1("server_name", b), Location(SlashXY, << << <<"port">>, <<"1">> >> >>)>> >>
Twice ==
  << <<Directive1("server_name", a)>>,
     <<Directive1("server_name", b), Location(SlashX, <<>>), Location(<<"/", "x", "/">>, <<>>)>> >>

(* The /x of a that is written under b is filed under b, where the /x of b *)
(* then looks repeated: the grouping ends before b is complete.            *)
Entangled ==
  << <<Directive1("server_name", b), Location(SlashX, <<>>),
       Location(SlashX, << << <<"server_name">>, a >> >>), Location(SlashXY, <<>>)>>,
     <<Directive1("server_name", a)>> >>

File(blocks, damaged, lines) ==
  [kind |-> "text", text |-> Text(lines), servers |-> blocks, damaged |-> damaged]
(* With and without a new line at the end.                                 *)
Whole(blocks) ==
  {File(blocks, 0, Lines(blocks)), File(blocks, 0, Append(Lines(blocks), <<>>))}

(* One line of a file is lost, doubled, followed by a blank line or        *)
(* indented by one tab more.                                               *)
LineBlock(blocks, k) ==
  CHOOSE n \in DOMAIN blocks :
    /\ Len(Lines(SubSeq(blocks, 1, n - 1))) < k
    /\ k <= Len(Lines(SubSeq(blocks, 1, n)))
Damages(lines, k) ==
  {RemoveAt(lines, k), InsertAt(lines, k, lines[k]), InsertAt(lines, k + 1, <<>>),
   [lines EXCEPT ![k] = <<Tab>> \o @]}
Damaged(blocks) ==
  LET lines == Lines(blocks)
  IN  UNION {{File(blocks, LineBlock(blocks, k), l) : l \in Damages(lines, k)} : k \in DOMAIN lines}

(* A word too many, a number too few, an autoindex that is neither.        *)
Wrong ==
  LET blocks == <<TwoNames[1], <<Directive2("root", a, b)>>, TwoNames[2]>>
      other  == <<TwoNames[1], <<Directive1("port", <<"2">>), Directive1("autoindex", a)>>, TwoNames[2]>>
      short  == <<TwoNames[1], <<Directive1("port", <<"1">>), Location(SlashX, << << <<"method">> >> >>)>>>>
  IN  {File(x, 2, Lines(x)) : x \in {blocks, other, short}}

NoText(kind) == [kind |-> kind, text |-> <<>>, servers |-> <<>>, damaged |-> 0]

MCFiles ==
  UNION {Whole(x) : x \in {TwoNames, ThreeAddresses, Overlap, RootLocation, Moving, Twice, Entangled}}
    \cup Damaged(TwoNames) \cup Damaged(ThreeAddresses) \cup Wrong
    \cup {NoText("missing"), NoText("unreadable")}
MCTwice == Whole(Twice)

MCNames == {a, b, <<"localhost">>, <<"c">>}
MCUris == {<<>>, << <<"x">> >>, << <<"x">>, <<"y">> >>, << <<"x">>, <<"y">>, <<"z">> >>, << <<"y">> >>}
=============================================================================
