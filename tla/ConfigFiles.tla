------------------------------ MODULE ConfigFiles ------------------------------
(***************************************************************************)
(* The reading of the configuration file: get_next_line cuts what read()   *)
(* returns into lines, ServerConfigIdx finds the server and location       *)
(* blocks by their brackets, and the directives of each block become a     *)
(* ConfigFile, a location starting from a copy of its server.              *)
(*                                                                         *)
(* A text is a sequence of tokens; a new line, a tab, a space and a slash  *)
(* are tokens of their own.  One action is one read(), one turn of a loop  *)
(* over the lines, or one block.                                           *)
(***************************************************************************)
EXTENDS Integers, SequencesExt

CONSTANTS
  Files,           (* BOUND: the configuration files (see below)            *)
  BUFFER_SIZE_GNL, (* BOUND: the tokens of one read()                       *)
  Atoi             (* external: the tokens std::atoi takes for a number     *)

ASSUME BufferAssumption == BUFFER_SIZE_GNL \in Nat \ {0}

(***************************************************************************)
(* A file is missing, unreadable (a directory), or a text.  A text is      *)
(* written from a list of server blocks, and then perhaps damaged in one   *)
(* of them: servers and damaged (0: in none) are for the properties only.  *)
(***************************************************************************)
EOL == "\n"
Tab == "\t"
Space == " "
Slash == "/"

(* A sequence of anything.                                                 *)
IsSeq(s) == s \in Seq({s[k] : k \in DOMAIN s})

ASSUME FilesAssumption ==
  \A f \in Files : /\ f.kind \in {"text", "missing", "unreadable"}
                   /\ IsSeq(f.text)
                   /\ IsSeq(f.servers) /\ \A k \in DOMAIN f.servers : IsSeq(f.servers[k])
ASSUME AtoiAssumption == \A word \in DOMAIN Atoi : Atoi[word] \in Int

VARIABLES
  pc,             (* the function being executed                            *)
  file,           (* the configuration file                                 *)
  unread,         (* what read() has not returned yet                       *)
  remain_string,  (* get_next_line: what follows the last line taken        *)
  open,           (* kernel: the descriptors of the process                 *)
  mConfigFd,      (* ConfigFiles::mConfigFd, -1 when the file is missing    *)
  mGnl,           (* ConfigFiles::mGnl: the lines                           *)
  mServerBracket, (* ServerConfigIdx::mServerBracket                        *)
  server, line,   (* the block and the line the loops are at                *)
  mConfigs        (* ConfigFiles::mConfigs                                  *)

readVars == <<file, unread, remain_string, open, mConfigFd>>
configVars == <<pc, readVars, mGnl, mServerBracket, server, line, mConfigs>>

-----------------------------------------------------------------------------
(* get_next_line and SetGnl.                                               *)

(* change_newline_to_zero and ft_strchr: the text up to the first new      *)
(* line, and what follows it.                                              *)
newline(s) == SelectInSeq(s, LAMBDA t : t = EOL)
before(s) == SubSeq(s, 1, newline(s) - 1)
after(s) == SubSeq(s, newline(s) + 1, Len(s))

(* The lowest free descriptor.                                             *)
NewFd == Min((0..Cardinality(open)) \ open)

(* main: a configuration file that is named but is not there ends the      *)
(* program; nobody looks for the one that is taken when none is named.     *)
main ==
  /\ pc = "main"
  /\ \E named \in BOOLEAN :
       pc' = IF named /\ file.kind = "missing" THEN "exited" ELSE "ReadConfigFile"
  /\ UNCHANGED <<readVars, mGnl, mServerBracket, server, line, mConfigs>>

ReadConfigFile ==
  /\ pc = "ReadConfigFile"
  /\ IF file.kind = "missing"
     THEN mConfigFd' = -1 /\ open' = open
     ELSE mConfigFd' = NewFd /\ open' = open \cup {NewFd}
  /\ pc' = "SetGnl"
  /\ UNCHANGED <<file, unread, remain_string, mGnl, mServerBracket, server, line, mConfigs>>

(* exist_newline_in_remain_string: the line is there already.              *)
NextLine ==
  /\ pc = "SetGnl"
  /\ newline(remain_string) # 0
  /\ mGnl' = Append(mGnl, before(remain_string))
  /\ remain_string' = after(remain_string)
  /\ UNCHANGED <<pc, file, unread, open, mConfigFd, mServerBracket, server, line, mConfigs>>

(* read() returns n tokens; read_until_newline takes the end of a line     *)
(* from them, or keeps them all for later.                                 *)
ReadPiece_DropRest(n) ==   (* mutant: what follows the new line is lost *)
  LET buffer == SubSeq(unread, 1, n)
  IN  /\ pc = "SetGnl" /\ file.kind = "text"
      /\ newline(remain_string) = 0
      /\ n <= Len(unread)
      /\ unread' = SubSeq(unread, n + 1, Len(unread))
      /\ IF newline(buffer) # 0
         THEN /\ mGnl' = Append(mGnl, remain_string \o before(buffer))
              /\ remain_string' = <<>>
         ELSE /\ remain_string' = remain_string \o buffer
              /\ mGnl' = mGnl
      /\ UNCHANGED <<pc, file, open, mConfigFd, mServerBracket, server, line, mConfigs>>
ReadPiece(n) ==
  LET buffer == SubSeq(unread, 1, n)
  IN  /\ pc = "SetGnl" /\ file.kind = "text"
      /\ newline(remain_string) = 0
      /\ n <= Len(unread)
      /\ unread' = SubSeq(unread, n + 1, Len(unread))
      /\ IF newline(buffer) # 0
         THEN /\ mGnl' = Append(mGnl, remain_string \o before(buffer))
              /\ remain_string' = after(buffer)
         ELSE /\ remain_string' = remain_string \o buffer
              /\ mGnl' = mGnl
      /\ UNCHANGED <<pc, file, open, mConfigFd, mServerBracket, server, line, mConfigs>>

(* The last line, with or without a new line behind it, or the empty line  *)
(* get_next_line makes for a file that is missing; the file is closed.     *)
ReadEnd_Open ==   (* mutant: the file is not closed *)
  /\ pc = "SetGnl" /\ file.kind # "unreadable"
  /\ unread = <<>> /\ newline(remain_string) = 0
  /\ mGnl' = Append(mGnl, remain_string)
  /\ remain_string' = <<>>
  /\ pc' = "Step1" /\ line' = 1
  /\ UNCHANGED <<open, file, unread, mConfigFd, mServerBracket, server, mConfigs>>
ReadEnd ==
  /\ pc = "SetGnl" /\ file.kind # "unreadable"
  /\ unread = <<>> /\ newline(remain_string) = 0
  /\ mGnl' = Append(mGnl, remain_string)
  /\ remain_string' = <<>>
  /\ open' = open \ {mConfigFd}
  /\ pc' = "Step1" /\ line' = 1
  /\ UNCHANGED <<file, unread, mConfigFd, mServerBracket, server, mConfigs>>

(* read() fails: SetGnl makes a line of the pointer get_next_line did not  *)
(* set, and frees it.  The process dies, or goes on with some line.        *)
ReadFails ==
  /\ pc = "SetGnl" /\ file.kind = "unreadable"
  /\ \/ pc' = "crashed" /\ UNCHANGED <<mGnl, open, line>>
     \/ /\ mGnl' = Append(mGnl, <<"?">>)
        /\ open' = open \ {mConfigFd}
        /\ pc' = "Step1" /\ line' = 1
  /\ UNCHANGED <<file, unread, remain_string, mConfigFd, mServerBracket, server, mConfigs>>

-----------------------------------------------------------------------------
(* Text.                                                                   *)

(* ft::splitVector: what is in front of each delimiter, and what follows   *)
(* the last one, unless it is empty.                                       *)
withRest(cut) == IF cut.rest = <<>> THEN cut.pieces ELSE Append(cut.pieces, cut.rest)
splitVector(s, delim) ==
  LET cut[k \in 0..Len(s)] ==
        IF k = 0 THEN [pieces |-> <<>>, rest |-> <<>>]
        ELSE LET last == cut[k - 1]
             IN  IF s[k] = delim THEN [pieces |-> withRest(last), rest |-> <<>>]
                 ELSE [pieces |-> last.pieces, rest |-> Append(last.rest, s[k])]
  IN  withRest(cut[Len(s)])

(* Path: the segments of a path.                                           *)
Path(s) == splitVector(s, Slash)

(* A word of no known number is 0.  mPort has 16 bits.                     *)
atoi(word) == IF Len(word) = 1 /\ word[1] \in DOMAIN Atoi THEN Atoi[word[1]] ELSE 0
portOf(word) == atoi(word) % 65536

outdentTab(s) == IF Len(s) >= 2 /\ s[1] = Tab THEN Tail(s) ELSE s

-----------------------------------------------------------------------------
(* ServerConfigIdx: where the blocks are.                                  *)
OpenBracket == <<"{">>
CloseBracket == <<"}">>

(* The first line from..to that closes a block, and those before it that   *)
(* open one; 0 and all of them when none closes it.                        *)
Close(from, to) == SelectInSubSeq(mGnl, from, to, LAMBDA l : l = CloseBracket)
Opens(from, to) ==
  {k \in from..to : mGnl[k] = OpenBracket /\ (Close(from, to) # 0 => k < Close(from, to))}

(* A block opens once before it closes.                                    *)
checkBracketSyntax_OpenTwice(from, to) ==   (* mutant: it may open more than once *)
  Close(from, to) # 0 /\ Opens(from, to) # {}
checkBracketSyntax(from, to) ==
  Close(from, to) # 0 /\ \E k \in Opens(from, to) : Opens(from, to) = {k}

(* With no bracket that decides, the search for the end of a server looks  *)
(* at the line after the last one.                                         *)
Overrun(from) ==
  Close(from, Len(mGnl)) = 0 /\ \A k, l \in Opens(from, Len(mGnl)) : k = l

Bracket(from, to) == [mStart |-> CHOOSE k \in Opens(from, to) : TRUE, mEnd |-> Close(from, to)]

(* Step1: one turn of the search for server blocks.                        *)
Step1 ==
  /\ pc = "Step1" /\ line <= Len(mGnl)
  /\ \/ /\ mGnl[line] # <<"server">>
        /\ line' = line + 1
        /\ UNCHANGED <<pc, mServerBracket>>
     \/ /\ mGnl[line] = <<"server">>
        /\ checkBracketSyntax(line + 1, Len(mGnl))
        /\ LET b == Bracket(line + 1, Len(mGnl))
           IN  /\ mServerBracket' =
                    Append(mServerBracket,
                           [mStart |-> b.mStart, mEnd |-> b.mEnd, mLocationBracket |-> <<>>])
               /\ line' = b.mEnd + 1
        /\ pc' = pc
     \/ /\ mGnl[line] = <<"server">>
        /\ ~checkBracketSyntax(line + 1, Len(mGnl))
        /\ pc' \in {"configured"} \cup IF Overrun(line + 1) THEN {"crashed"} ELSE {}
        /\ UNCHANGED <<mServerBracket, line>>
  /\ UNCHANGED <<readVars, mGnl, server, mConfigs>>

(* Step2: the lines of the next server block lose a tab; after the last    *)
(* one SetConfigs begins (line 0 is the server, line j its location j).    *)
outdented(from, to) == [k \in DOMAIN mGnl |-> IF k \in from..to THEN outdentTab(mGnl[k]) ELSE mGnl[k]]

Step2Server ==
  LET next == IF pc = "Step1" THEN 1 ELSE server + 1
      b    == mServerBracket[next]
  IN  /\ \/ pc = "Step1" /\ line > Len(mGnl)
         \/ pc = "Step2" /\ line >= mServerBracket[server].mEnd
      /\ IF next <= Len(mServerBracket)
         THEN /\ pc' = "Step2" /\ server' = next /\ line' = b.mStart + 1
              /\ mGnl' = outdented(b.mStart + 1, b.mEnd - 1)
         ELSE pc' = "SetConfigs" /\ server' = 1 /\ line' = 0 /\ UNCHANGED mGnl
      /\ UNCHANGED <<readVars, mServerBracket, mConfigs>>

(* Step2: one turn of the search for location blocks in a server block.    *)
(* The lines of a location lose another tab.                               *)
hasLocation(l) == \E k \in 1..(Len(l) - 1) : l[k] = "location" /\ l[k + 1] = Space

Step2 ==
  LET words == splitVector(mGnl[line], Space)
      end   == mServerBracket[server].mEnd - 1
  IN  /\ pc = "Step2" /\ line <= end
      /\ \/ /\ ~hasLocation(mGnl[line])
            /\ line' = line + 1
            /\ UNCHANGED <<pc, mGnl, mServerBracket>>
         \/ /\ hasLocation(mGnl[line])
            /\ Len(words) = 2 /\ checkBracketSyntax(line + 1, end)
            /\ LET b == Bracket(line + 1, end)
               IN  /\ mServerBracket' = [mServerBracket EXCEPT ![server].mLocationBracket =
                        Append(@, [mStart |-> b.mStart, mEnd |-> b.mEnd, mLocationPath |-> Path(words[2])])]
                   /\ mGnl' = outdented(line, b.mEnd - 1)
                   /\ line' = b.mEnd + 1
            /\ pc' = pc
         \/ /\ hasLocation(mGnl[line])
            /\ ~(Len(words) = 2 /\ checkBracketSyntax(line + 1, end))
            /\ pc' = "configured"
            /\ UNCHANGED <<line, mGnl, mServerBracket>>
      /\ UNCHANGED <<readVars, server, mConfigs>>

-----------------------------------------------------------------------------
(* SetConfigs: the directives of a block.                                  *)

(* The member of ConfigFile that a directive sets.                         *)
Member ==
  [server_name |-> "mServerName", root |-> "mRoot", port |-> "mPort", host |-> "mHost",
   client_max_body_size |-> "mClientMaxBodySize", index_pages |-> "mIndexPages",
   error_page |-> "mErrorPage", autoindex |-> "mAutoIndex", timeout |-> "mTimeOut",
   method |-> "mMethod", cgi_program_path |-> "mCgiProgramPath",
   cgi_extension |-> "mCgiExtension", auth_basic_user_file |-> "mAuthBasicUserFile"]
ServerDirectives == DOMAIN Member
LocationDirectives == ServerDirectives \ {"host", "timeout", "cgi_extension"}
Lists == {"index_pages", "method", "cgi_program_path", "cgi_extension"}

ConfigFile ==
  [mServerName |-> <<"localhost">>, mHost |-> <<"0.0.0.0">>, mPort |-> 8000, mTimeOut |-> 0,
   mLocationPath |-> <<>>, mAutoIndex |-> FALSE, mRoot |-> <<>>, mErrorPage |-> <<>>,
   mAuthBasicUserFile |-> <<>>, mClientMaxBodySize |-> 0,
   mMethod |-> << <<"GET">>, <<"HEAD">>, <<"PUT">>, <<"POST">>, <<"DELETE">>, <<"OPTIONS">> >>,
   mCgiProgramPath |-> << <<"/", "usr", "/", "bin", "/", "php">>, <<"ft_tester", "/", "bla_tester">> >>,
   mCgiExtension |-> << <<".bla">>, <<".php">> >>,
   mIndexPages |-> << << <<"index.html">> >> >>]

(* What a directive makes of its words.  An autoindex that is neither on   *)
(* nor off leaves the value as it was on the stack.                        *)
Value_WidePort(d, args, uninitialised) ==   (* mutant: mPort is an int *)
  IF d = "port" THEN atoi(args[1]) ELSE args[1]
Value(d, args, uninitialised) ==
  CASE d \in {"root", "error_page", "auth_basic_user_file"} -> Path(args[1])
    [] d = "port" -> portOf(args[1])
    [] d \in {"timeout", "client_max_body_size"} -> atoi(args[1])
    [] d = "autoindex" -> IF args[1] = <<"on">> THEN TRUE
                          ELSE IF args[1] = <<"off">> THEN FALSE
                          ELSE uninitialised
    [] d = "index_pages" -> [k \in DOMAIN args |-> Path(args[k])]
    [] d \in Lists \ {"index_pages"} -> args
    [] OTHER -> args[1]

(* The reading of a block: the configuration, the lists met so far, how it *)
(* goes on.                                                                *)
Reading(config) == [config |-> config, exist |-> {}, result |-> "ok"]

(* One line of a block: a scalar is set, a list is replaced the first time *)
(* and extended from then on, a wrong number of words is an error.         *)
Directive_Replace(reading, words, known, uninitialised) ==   (* mutant: lists are always replaced *)
  LET d == words[1][1]
      args == Tail(words)
  IN  IF reading.result # "ok" \/ Len(words[1]) # 1 \/ d \notin known THEN reading
      ELSE IF (d \in Lists \ {"index_pages"} /\ args = <<>>) \/ (d \notin Lists /\ Len(args) # 1)
      THEN [reading EXCEPT !.result = "error"]
      ELSE [reading EXCEPT
              !.config[Member[d]] = Value(d, args, uninitialised),
              !.exist = @ \cup {d}]
Directive(reading, words, known, uninitialised) ==
  LET d == words[1][1]
      args == Tail(words)
  IN  IF reading.result # "ok" \/ Len(words[1]) # 1 \/ d \notin known THEN reading
      ELSE IF (d \in Lists \ {"index_pages"} /\ args = <<>>) \/ (d \notin Lists /\ Len(args) # 1)
      THEN [reading EXCEPT !.result = "error"]
      ELSE [reading EXCEPT
              !.config[Member[d]] =
                IF d \in Lists \cap reading.exist THEN @ \o Value(d, args, uninitialised)
                ELSE Value(d, args, uninitialised),
              !.exist = @ \cup {d}]

isCorrespondedServerDirective_Always(k, b) == TRUE   (* mutant: locations are read as well *)
isCorrespondedServerDirective(k, b) ==
  \A l \in DOMAIN b.mLocationBracket :
    k \notin b.mLocationBracket[l].mStart..b.mLocationBracket[l].mEnd

Words(k) == splitVector(mGnl[k], Space)
(* The lines between the brackets.                                         *)
Inside(b) == [k \in 1..(b.mEnd - b.mStart - 1) |-> b.mStart + k]

(* Lines of one word are passed over.                                      *)
parsingserverBlock(b, uninitialised) ==
  FoldLeft(LAMBDA reading, k :
             IF ~isCorrespondedServerDirective(k, b) \/ Len(Words(k)) <= 1 THEN reading
             ELSE Directive(reading, Words(k), ServerDirectives, uninitialised),
           Reading(ConfigFile), Inside(b))

(* A blank line is looked at all the same: its first word is whatever is   *)
(* there.  The process dies, takes it for a directive without words, or    *)
(* for no directive.                                                       *)
parsingLocationBlock(config, b, blank, uninitialised) ==
  FoldLeft(LAMBDA reading, k :
             CASE reading.result # "ok" -> reading
               [] reading.result = "ok" /\ Words(k) = <<>> -> [reading EXCEPT !.result = blank]
               [] OTHER -> Directive(reading, Words(k), LocationDirectives, uninitialised),
           Reading([config EXCEPT !.mLocationPath = b.mLocationPath]), Inside(b))

(* SetConfigs: the configuration read is kept, or the rest of the file is  *)
(* given up (the constructor ignores the -1).                              *)
Keep(reading) ==
  CASE reading.result = "ok" ->
         /\ mConfigs' = Append(mConfigs, reading.config)
         /\ IF line < Len(mServerBracket[server].mLocationBracket)
            THEN server' = server /\ line' = line + 1
            ELSE server' = server + 1 /\ line' = 0
         /\ pc' = pc
    [] reading.result = "error" -> pc' = "configured" /\ UNCHANGED <<server, line, mConfigs>>
    [] OTHER -> pc' = "crashed" /\ UNCHANGED <<server, line, mConfigs>>

ParseServer ==
  /\ pc = "SetConfigs" /\ server <= Len(mServerBracket) /\ line = 0
  /\ \E uninitialised \in BOOLEAN :
       Keep(parsingserverBlock(mServerBracket[server], uninitialised))
  /\ UNCHANGED <<readVars, mGnl, mServerBracket>>

(* A location starts from a copy of its server, which is line entries back. *)
ParseLocation_FromLast ==   (* mutant: it starts from the location before *)
  /\ pc = "SetConfigs" /\ server <= Len(mServerBracket) /\ line > 0
  /\ \E blank \in {"ok", "error", "crashed"}, uninitialised \in BOOLEAN :
       Keep(parsingLocationBlock(mConfigs[Len(mConfigs)],
                                 mServerBracket[server].mLocationBracket[line], blank, uninitialised))
  /\ UNCHANGED <<readVars, mGnl, mServerBracket>>
ParseLocation ==
  /\ pc = "SetConfigs" /\ server <= Len(mServerBracket) /\ line > 0
  /\ \E blank \in {"ok", "error", "crashed"}, uninitialised \in BOOLEAN :
       Keep(parsingLocationBlock(mConfigs[Len(mConfigs) - line + 1],
                                 mServerBracket[server].mLocationBracket[line], blank, uninitialised))
  /\ UNCHANGED <<readVars, mGnl, mServerBracket>>

ParseEnd ==
  /\ pc = "SetConfigs" /\ server > Len(mServerBracket)
  /\ pc' = "configured"
  /\ UNCHANGED <<readVars, mGnl, mServerBracket, server, line, mConfigs>>

-----------------------------------------------------------------------------
Init ==
  /\ pc = "main"
  /\ file \in Files
  /\ unread = file.text
  /\ remain_string = <<>>
  /\ open = 0..2
  /\ mConfigFd = -1
  /\ mGnl = <<>> /\ mServerBracket = <<>> /\ mConfigs = <<>>
  /\ server = 1 /\ line = 1

Read ==
  \/ main \/ ReadConfigFile \/ NextLine \/ ReadEnd \/ ReadFails
  \/ \E n \in 1..BUFFER_SIZE_GNL : ReadPiece(n)
Parse == Step1 \/ Step2Server \/ Step2 \/ ParseServer \/ ParseLocation \/ ParseEnd
Next == Read \/ Parse

Spec == Init /\ [][Next]_configVars

-----------------------------------------------------------------------------
(* What a file says: the text of a list of server blocks, and the          *)
(* configurations they stand for.  An item of a block is a directive (its  *)
(* words) or a location (its path and the words of its directives).        *)
Join(parts, delim) ==
  FlattenSeq([k \in DOMAIN parts |-> IF k = 1 THEN parts[k] ELSE <<delim>> \o parts[k]])
Line(tabs, words) == [k \in 1..tabs |-> Tab] \o Join(words, Space)
Text(lines) == Join(lines, EOL)

isLocation(item) == item.path # <<>>
Ruled(tabs, words) == [tabs |-> tabs, words |-> words]
ItemLines(item) ==
  IF isLocation(item)
  THEN <<Ruled(1, << <<"location">>, item.path >>), Ruled(1, <<OpenBracket>>)>>
         \o [k \in DOMAIN item.body |-> Ruled(2, item.body[k])]
         \o <<Ruled(1, <<CloseBracket>>)>>
  ELSE <<Ruled(1, item.words)>>
ServerLines(block) ==
  <<Ruled(0, << <<"server">> >>), Ruled(0, <<OpenBracket>>)>>
    \o FlattenSeq([k \in DOMAIN block |-> ItemLines(block[k])])
    \o <<Ruled(0, <<CloseBracket>>)>>
RuledLines(blocks) == FlattenSeq([k \in DOMAIN blocks |-> ServerLines(blocks[k])])
Lines(blocks) ==
  [k \in DOMAIN RuledLines(blocks) |-> Line(RuledLines(blocks)[k].tabs, RuledLines(blocks)[k].words)]

(* A file that is not damaged is such a text, with or without a new line   *)
(* at its end: no word is empty or holds what separates words and lines,   *)
(* only lists have several values, and a directive is no location.         *)
IsWord(word) ==
  IsSeq(word) /\ word # <<>> /\ \A k \in DOMAIN word : word[k] \notin {EOL, Space}
IsDirective(words) ==
  /\ IsSeq(words) /\ \A k \in DOMAIN words : IsWord(words[k])
  /\ Len(words) >= 2 /\ Len(words[1]) = 1
  /\ words[1][1] \notin Lists => Len(words) = 2
  /\ words[1][1] = "autoindex" => words[2] \in {<<"on">>, <<"off">>}
IsItem(item) ==
  IF isLocation(item)
  THEN IsWord(item.path) /\ IsSeq(item.body) /\ \A k \in DOMAIN item.body : IsDirective(item.body[k])
  ELSE IsDirective(item.words) /\ \A k \in DOMAIN item.words :
                                    \A l \in DOMAIN item.words[k] : item.words[k][l] # "location"

ASSUME WrittenAssumption ==
  \A f \in Files : f.kind = "text" /\ f.damaged = 0 =>
    /\ \A k \in DOMAIN f.servers : \A l \in DOMAIN f.servers[k] : IsItem(f.servers[k][l])
    /\ f.text \in {Text(Lines(f.servers)), Text(Append(Lines(f.servers), <<>>))}

(* The last of the lines that set a scalar counts, and all of those that   *)
(* add to a list, over what was there before.                              *)
Effect(base, lines, known) ==
  [m \in DOMAIN base |->
     LET setting  == {k \in DOMAIN lines : lines[k][1][1] \in known /\ Member[lines[k][1][1]] = m}
         value(k) == Value(lines[k][1][1], Tail(lines[k]), FALSE)
     IN  IF setting = {} THEN base[m]
         ELSE IF lines[Max(setting)][1][1] \in Lists
         THEN FlattenSeq([k \in DOMAIN lines |-> IF k \in setting THEN value(k) ELSE <<>>])
         ELSE value(Max(setting))]

Written(block) ==
  LET own  == FlattenSeq([k \in DOMAIN block |->
                            IF isLocation(block[k]) THEN <<>> ELSE <<block[k].words>>])
      locs == FlattenSeq([k \in DOMAIN block |->
                            IF isLocation(block[k]) THEN <<block[k]>> ELSE <<>>])
      base == Effect(ConfigFile, own, ServerDirectives)
  IN  <<base>> \o [k \in DOMAIN locs |->
        Effect([base EXCEPT !.mLocationPath = Path(locs[k].path)], locs[k].body, LocationDirectives)]
WrittenAll(blocks) == FlattenSeq([k \in DOMAIN blocks |-> Written(blocks[k])])

-----------------------------------------------------------------------------
(* Properties.                                                             *)
(* The lines are those of the file, whatever the pieces read() returns it  *)
(* in, a last line without a new line behind it included.                  *)
LinesAsRead == pc = "Step1" /\ file.kind = "text" => Text(mGnl) = file.text

(* What is read is what is written, directive by directive, also when the  *)
(* directives of a server go on behind its locations.                      *)
ReadAsWritten ==
  pc = "configured" /\ file.kind = "text" /\ file.damaged = 0 =>
    mConfigs = WrittenAll(file.servers)

(* Damage in one server block (a line lost, doubled, blank or wrongly      *)
(* indented) changes nothing in another one: either no server is           *)
(* configured at all, or those before it are as written, and those behind  *)
(* it are as written or left out together.                                 *)
DamageContained ==
  pc = "configured" /\ file.kind = "text" /\ file.damaged # 0 =>
    \/ mConfigs = <<>>
    \/ /\ IsPrefix(WrittenAll(SubSeq(file.servers, 1, file.damaged - 1)), mConfigs)
       /\ \/ server <= Len(mServerBracket)   (* given up at an error *)
          \/ IsSuffix(WrittenAll(SubSeq(file.servers, file.damaged + 1, Len(file.servers))),
                      mConfigs)
=============================================================================
