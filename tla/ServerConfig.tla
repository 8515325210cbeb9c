------------------------------ MODULE ServerConfig ------------------------------
(***************************************************************************)
(* The start of the server: ServerManager::CreateServers reads the         *)
(* configurations (ConfigFiles), refuses two servers of the same name on   *)
(* one address, groups the configurations by address, server name and      *)
(* location, from the last to the first, and opens the listening sockets.  *)
(* The lookups by which a request finds its location are here as well.     *)
(***************************************************************************)
EXTENDS ConfigFiles

VARIABLES
  mServers   (* ServerManager::mServers                                     *)

vars == <<configVars, mServers>>
fileVars == <<readVars, mGnl, mServerBracket>>

-----------------------------------------------------------------------------
(* isOverlapedServer: two configurations without a location path, for the  *)
(* same host, port and name.                                               *)
sameServer(c, d) == c.mHost = d.mHost /\ c.mPort = d.mPort /\ c.mServerName = d.mServerName

isOverlapedServer_HostAndPort ==   (* mutant: only the address is compared *)
  \E k, l \in DOMAIN mConfigs :
    /\ k < l /\ mConfigs[k].mHost = mConfigs[l].mHost /\ mConfigs[k].mPort = mConfigs[l].mPort
    /\ mConfigs[k].mLocationPath = <<>> /\ mConfigs[l].mLocationPath = <<>>
isOverlapedServer ==
  \E k, l \in DOMAIN mConfigs :
    /\ k < l /\ sameServer(mConfigs[k], mConfigs[l])
    /\ mConfigs[k].mLocationPath = <<>> /\ mConfigs[l].mLocationPath = <<>>

CheckOverlap ==
  /\ pc = "configured"
  /\ pc' = IF isOverlapedServer THEN "exited" ELSE "setServersValue"
  /\ UNCHANGED <<fileVars, server, line, mConfigs, mServers>>

-----------------------------------------------------------------------------
(* setServersValue: one turn of the loop takes the last configuration.     *)
LocationMembers ==
  {"mLocationPath", "mRoot", "mIndexPages", "mErrorPage", "mAutoIndex", "mClientMaxBodySize",
   "mAuthBasicUserFile", "mCgiProgramPath", "mMethod"}
LocationPath(config) == [m \in LocationMembers |-> config[m]]

serverBlock(config) ==
  [mserverName |-> config.mServerName, mTimeOut |-> config.mTimeOut,
   mCgiExtension |-> config.mCgiExtension, mlocationPaths |-> <<LocationPath(config)>>]

Server(config) ==
  [mPort |-> config.mPort, mHost |-> config.mHost, mSocket |-> 0,
   mServerBlocks |-> <<serverBlock(config)>>]

(* The first entry that fits, 0 when there is none.                        *)
getIdxServer(port, host) ==
  SelectInSeq(mServers, LAMBDA s : s.mPort = port /\ s.mHost = host)
getIdxServerBlock(blocks, name) == SelectInSeq(blocks, LAMBDA b : b.mserverName = name)
getIdxLocationPath_Prefix(locations, path) ==   (* mutant: only the common segments count *)
  SelectInSeq(locations, LAMBDA l : IsPrefix(path, l.mLocationPath))
getIdxLocationPath(locations, path) ==
  SelectInSeq(locations, LAMBDA l : l.mLocationPath = path)

setServersValue ==
  LET config    == Last(mConfigs)
      s         == getIdxServer(config.mPort, config.mHost)
      blocks    == mServers[s].mServerBlocks
      b         == getIdxServerBlock(blocks, config.mServerName)
      locations == blocks[b].mlocationPaths
      known     == getIdxLocationPath(locations, config.mLocationPath) # 0
  IN  /\ pc = "setServersValue" /\ mConfigs # <<>>
      /\ mConfigs' = Front(mConfigs)
      /\ \/ /\ s = 0
            /\ mServers' = Append(mServers, Server(config))
            /\ pc' = pc
         \/ /\ s # 0 /\ b = 0
            /\ mServers' = [mServers EXCEPT ![s].mServerBlocks = Append(@, serverBlock(config))]
            /\ pc' = pc
         \/ (* the new location goes to the last block, whatever b is *)
            /\ s # 0 /\ b # 0 /\ ~known
            /\ mServers' = [mServers EXCEPT ![s].mServerBlocks[Len(blocks)].mlocationPaths =
                                              Append(@, LocationPath(config))]
            /\ pc' = pc
         \/ (* the loop is left: the configurations before this one are lost *)
            /\ s # 0 /\ b # 0 /\ known
            /\ pc' = "setServers" /\ UNCHANGED mServers
      /\ line' = IF pc' = "setServers" THEN 1 ELSE line
      /\ UNCHANGED <<fileVars, server>>

ServersSet ==
  /\ pc = "setServersValue" /\ mConfigs = <<>>
  /\ pc' = "setServers" /\ line' = 1
  /\ UNCHANGED <<fileVars, server, mConfigs, mServers>>

(* setServers: the listening socket of the next server (line counts them). *)
(* bind() or listen() may fail, which ends the program.                    *)
SetSocket ==
  /\ pc = "setServers" /\ line <= Len(mServers)
  /\ mServers' = [mServers EXCEPT ![line].mSocket = NewFd]
  /\ open' = open \cup {NewFd}
  /\ line' = line + 1
  /\ UNCHANGED <<pc, file, unread, remain_string, mConfigFd, mGnl, mServerBracket, server, mConfigs>>

(* socket() may fail: the server is left without one, and nobody looks.    *)
SetNoSocket ==
  /\ pc = "setServers" /\ line <= Len(mServers)
  /\ mServers' = [mServers EXCEPT ![line].mSocket = -1]
  /\ line' = line + 1
  /\ UNCHANGED <<pc, fileVars, server, mConfigs>>

SetSocketFails ==
  /\ pc = "setServers" /\ line <= Len(mServers)
  /\ pc' = "exited"
  /\ UNCHANGED <<fileVars, server, line, mConfigs, mServers>>

(* The sockets go into the fd set, the -1 of a server without one before   *)
(* its beginning: the process dies there, or goes on.                      *)
NoSocket == \E k \in DOMAIN mServers : mServers[k].mSocket = -1
RunServers ==
  /\ pc = "setServers" /\ line > Len(mServers)
  /\ pc' \in {"running"} \cup IF NoSocket THEN {"crashed"} ELSE {}
  /\ UNCHANGED <<fileVars, server, line, mConfigs, mServers>>

-----------------------------------------------------------------------------
(* How solveRequest finds the location of a request.                       *)

(* The first block of the name, the last one when there is none.           *)
returnIteratorServerBlock_First(blocks, name) ==   (* mutant: the default is at the front *)
  LET k == getIdxServerBlock(blocks, name)
  IN  IF k # 0 THEN blocks[k] ELSE Head(blocks)
returnIteratorServerBlock(blocks, name) ==
  LET k == getIdxServerBlock(blocks, name)
  IN  IF k # 0 THEN blocks[k] ELSE Last(blocks)

(* The first location whose segments begin the path, else the last one.    *)
returnIteratorLocationPath(locations, path) ==
  LET k == SelectInSeq(locations, LAMBDA l : IsPrefix(l.mLocationPath, path))
  IN  IF k # 0 THEN locations[k] ELSE Last(locations)

Lookup(s, name, path) ==
  returnIteratorLocationPath(returnIteratorServerBlock(s.mServerBlocks, name).mlocationPaths, path)

(* The start is over.                                                      *)
Over ==
  /\ pc \in {"running", "exited", "crashed"}
  /\ UNCHANGED vars

-----------------------------------------------------------------------------
StartInit == Init /\ mServers = <<>>

Start ==
  \/ Next /\ UNCHANGED mServers
  \/ CheckOverlap \/ setServersValue \/ ServersSet
  \/ SetSocket \/ SetNoSocket \/ SetSocketFails \/ RunServers \/ Over

StartSpec == StartInit /\ [][Start]_vars

-----------------------------------------------------------------------------
(* Properties.                                                             *)
CONSTANTS
  Names,     (* BOUND: the names asked for in a host header                 *)
  Uris       (* BOUND: the paths asked for, as segments                     *)
ASSUME UrisAssumption == \A path \in Uris : IsSeq(path)

TypeOK ==
  /\ pc \in {"main", "ReadConfigFile", "SetGnl", "Step1", "Step2", "SetConfigs", "configured",
             "setServersValue", "setServers", "running", "exited", "crashed"}
  /\ file.kind \in {"text", "missing", "unreadable"}
  /\ open \subseteq Nat /\ mConfigFd \in Nat \cup {-1}
  /\ \A k \in DOMAIN mServerBracket :
       LET b == mServerBracket[k]
       IN  /\ b.mStart \in 1..Len(mGnl) /\ b.mEnd \in (b.mStart + 1)..Len(mGnl)
           /\ \A l \in DOMAIN b.mLocationBracket :
                /\ b.mLocationBracket[l].mStart > b.mStart
                /\ b.mLocationBracket[l].mEnd < b.mEnd
  /\ \A k \in DOMAIN mConfigs : DOMAIN mConfigs[k] = DOMAIN ConfigFile /\ mConfigs[k].mPort < 65536

(* The file says what it is about: no location moves to another address or *)
(* server name, and no two locations of a server have the same path.       *)
Plain(blocks) ==
  \A k \in DOMAIN blocks :
    LET w == Written(blocks[k])
    IN  \A l, n \in DOMAIN w :
          sameServer(w[l], w[n]) /\ (l # n => w[l].mLocationPath # w[n].mLocationPath)

(* What the file says of a request: the server of its name on the address, *)
(* else the first one there; in it the last location that the path is in,  *)
(* else the server itself.                                                 *)
Asked(blocks, s, name, path) ==
  LET w == [k \in DOMAIN blocks |-> Written(blocks[k])]
      here == {k \in DOMAIN w : w[k][1].mHost = s.mHost /\ w[k][1].mPort = s.mPort}
      named == {k \in here : w[k][1].mServerName = name}
      k == Min(IF named # {} THEN named ELSE here)
      l == Max({n \in DOMAIN w[k] : IsPrefix(w[k][n].mLocationPath, path)})
  IN  LocationPath(w[k][l])

(* A running server answers every request by the location that the file    *)
(* has for it: reading, grouping and looking up, end to end.               *)
ServedAsWritten ==
  pc = "running" /\ file.kind = "text" /\ file.damaged = 0 /\ Plain(file.servers) =>
    \A k \in DOMAIN mServers, name \in Names, path \in Uris :
      Lookup(mServers[k], name, path) = Asked(file.servers, mServers[k], name, path)

(* The event loop finds what it takes for granted: one server per address, *)
(* one block per name, none of them empty, and, if socket() never fails,   *)
(* the listening sockets on 3, 4, ... in the order of mServers.            *)
TablesSound ==
  pc = "running" =>
    /\ \A k, l \in DOMAIN mServers :
         k # l => mServers[k].mHost # mServers[l].mHost \/ mServers[k].mPort # mServers[l].mPort
    /\ \A k \in DOMAIN mServers :
         LET blocks == mServers[k].mServerBlocks
         IN  /\ blocks # <<>>
             /\ \A b, c \in DOMAIN blocks : b # c => blocks[b].mserverName # blocks[c].mserverName
             /\ \A b \in DOMAIN blocks : blocks[b].mlocationPaths # <<>>
    /\ NoSocket \/ \A k \in DOMAIN mServers : mServers[k].mSocket = 2 + k
    /\ open = (0..2) \cup ({mServers[k].mSocket : k \in DOMAIN mServers} \ {-1})

(* Two servers of one name on one address are never run, and a file that   *)
(* has none of them, nor a location without segments, is never refused for *)
(* it: such a start ends only where a socket cannot be had.                *)
Overlapping(blocks) ==
  LET w == WrittenAll(blocks)
  IN  \E k, l \in DOMAIN w :
        k < l /\ sameServer(w[k], w[l]) /\ w[k].mLocationPath = <<>> /\ w[l].mLocationPath = <<>>
OverlapRefused ==
  file.kind = "text" /\ file.damaged = 0 =>
    /\ pc = "running" => ~Overlapping(file.servers)
    /\ pc = "exited" /\ mServers = <<>> => Overlapping(file.servers)

(* Every configuration of the file is in the tables under its own address  *)
(* and name, unless the file repeats a location or comes back to a server  *)
(* behind a configuration of another name on the address: a location goes  *)
(* to the last block, and one that went there wrongly can look repeated.   *)
sameAddress(c, d) == c.mHost = d.mHost /\ c.mPort = d.mPort
Repeated(configs) ==
  \E k, l \in DOMAIN configs :
    k < l /\ sameServer(configs[k], configs[l]) /\ configs[k].mLocationPath = configs[l].mLocationPath
Interleaved(configs) ==
  \E k, l, m \in DOMAIN configs :
    /\ k < l /\ l < m /\ sameServer(configs[k], configs[m])
    /\ sameAddress(configs[k], configs[l]) /\ ~sameServer(configs[k], configs[l])
Filed(config) ==
  \E k \in DOMAIN mServers :
    /\ sameAddress(mServers[k], config)
    /\ \E b \in DOMAIN mServers[k].mServerBlocks :
         LET block == mServers[k].mServerBlocks[b]
         IN  /\ block.mserverName = config.mServerName
             /\ \E l \in DOMAIN block.mlocationPaths : block.mlocationPaths[l] = LocationPath(config)
NoneLost ==
  LET w == WrittenAll(file.servers)
  IN  pc = "running" /\ file.kind = "text" /\ file.damaged = 0 /\ ~Repeated(w) /\ ~Interleaved(w) =>
        \A k \in DOMAIN w : Filed(w[k])

(* ServerManager.cpp: "all three the same is handled as an error".         *)
RepeatedRefused ==
  pc = "running" /\ file.kind = "text" /\ file.damaged = 0 => ~Repeated(WrittenAll(file.servers))
=============================================================================
