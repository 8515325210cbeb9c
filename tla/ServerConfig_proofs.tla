-------------------------- MODULE ServerConfig_proofs --------------------------
(***************************************************************************)
(* TablesSound, for every configuration file and size of a read().         *)
(*                                                                         *)
(* What the file says does not matter: whatever configurations come out of *)
(* it, setServersValue groups them by what it finds in the tables, and     *)
(* setServers gets the lowest free descriptors, the file being closed.     *)
(***************************************************************************)
EXTENDS ServerConfig, ConfigFiles_proofs

(***************************************************************************)
(* The first entry that fits.                                              *)
(***************************************************************************)
LEMMA FirstServer ==
  ASSUME NEW port, NEW host, IsSeq(mServers)
  PROVE  \/ /\ getIdxServer(port, host) = 0
            /\ \A k \in DOMAIN mServers : ~(mServers[k].mPort = port /\ mServers[k].mHost = host)
         \/ /\ getIdxServer(port, host) \in DOMAIN mServers
            /\ mServers[getIdxServer(port, host)].mPort = port
            /\ mServers[getIdxServer(port, host)].mHost = host
<1> DEFINE I == {k \in 1..Len(mServers) : mServers[k].mPort = port /\ mServers[k].mHost = host}
<1>1. Len(mServers) \in Nat /\ DOMAIN mServers = 1..Len(mServers)
  BY SeqDomain
<1>2. getIdxServer(port, host) = IF I # {} THEN Min(I) ELSE 0
  BY DEF getIdxServer, SelectInSeq
<1>3. I \in SUBSET Nat
  BY <1>1
<1>4. I # {} => Min(I) \in I
  BY <1>3, MinIn
<1> QED
  BY <1>1, <1>2, <1>4

LEMMA FirstServerBlock ==
  ASSUME NEW blocks, NEW name, IsSeq(blocks)
  PROVE  \/ /\ getIdxServerBlock(blocks, name) = 0
            /\ \A k \in DOMAIN blocks : blocks[k].mserverName # name
         \/ /\ getIdxServerBlock(blocks, name) \in DOMAIN blocks
            /\ blocks[getIdxServerBlock(blocks, name)].mserverName = name
<1> DEFINE I == {k \in 1..Len(blocks) : blocks[k].mserverName = name}
<1>1. Len(blocks) \in Nat /\ DOMAIN blocks = 1..Len(blocks)
  BY SeqDomain
<1>2. getIdxServerBlock(blocks, name) = IF I # {} THEN Min(I) ELSE 0
  BY DEF getIdxServerBlock, SelectInSeq
<1>3. I \in SUBSET Nat
  BY <1>1
<1>4. I # {} => Min(I) \in I
  BY <1>3, MinIn
<1> QED
  BY <1>1, <1>2, <1>4

(***************************************************************************)
(* The lowest free descriptor is free, and the next one when all below it  *)
(* are open.                                                               *)
(***************************************************************************)
LEMMA NewFdFree ==
  ASSUME open \subseteq Nat, IsFiniteSet(open)
  PROVE  NewFd \in Nat /\ NewFd \notin open
<1> DEFINE n == Cardinality(open)
<1>1. n \in Nat
  BY FS_CardinalityType
<1>2. IsFiniteSet(0..n) /\ Cardinality(0..n) = n + 1
  BY <1>1, FS_Interval
<1>3. (0..n) \ open # {}
  <2> SUFFICES ASSUME 0..n \subseteq open PROVE FALSE
    OBVIOUS
  <2>1. Cardinality(0..n) <= n
    BY FS_Subset
  <2> QED
    BY <1>1, <1>2, <2>1
<1>4. (0..n) \ open \in SUBSET Nat
  BY <1>1
<1> QED
  BY <1>3, <1>4, MinIn DEF NewFd

LEMMA NewFdNext ==
  ASSUME NEW n \in Nat, open = 0..n
  PROVE  NewFd = n + 1
<1>1. Cardinality(open) = n + 1
  BY FS_Interval
<1>2. (0..Cardinality(open)) \ open = {n + 1}
  BY <1>1
<1> QED
  BY <1>2 DEF NewFd, Min
-----------------------------------------------------------------------------
(***************************************************************************)
(* The invariant: the tables have their shape at every turn, and the       *)
(* descriptors that are open are known at every step of the start.         *)
(***************************************************************************)
ServerMembers == {"mPort", "mHost", "mSocket", "mServerBlocks"}
BlockMembers == {"mserverName", "mTimeOut", "mCgiExtension", "mlocationPaths"}

BlocksOK(blocks) ==
  /\ IsSeq(blocks) /\ blocks # <<>>
  /\ \A b \in DOMAIN blocks :
       /\ DOMAIN blocks[b] = BlockMembers
       /\ IsSeq(blocks[b].mlocationPaths) /\ blocks[b].mlocationPaths # <<>>
  /\ \A b, c \in DOMAIN blocks : b # c => blocks[b].mserverName # blocks[c].mserverName

Apart(s, t) == s.mHost # t.mHost \/ s.mPort # t.mPort

TablesOK ==
  /\ IsSeq(mServers)
  /\ \A k \in DOMAIN mServers :
       DOMAIN mServers[k] = ServerMembers /\ BlocksOK(mServers[k].mServerBlocks)
  /\ \A k, l \in DOMAIN mServers : k # l => Apart(mServers[k], mServers[l])

(* The first n servers have had their turn to get a socket.                *)
Sockets(n) == {mServers[k].mSocket : k \in 1..n}
SocketsSet(n) ==
  /\ open \subseteq Nat /\ IsFiniteSet(open)
  /\ open = (0..2) \cup (Sockets(n) \ {-1})
  /\ \/ -1 \in Sockets(n)
     \/ \A k \in 1..n : mServers[k].mSocket = 2 + k

ReadingFile == {"main", "ReadConfigFile", "Step1", "Step2", "SetConfigs", "configured"}

DescriptorsOK ==
  /\ pc \in ReadingFile \cup {"setServersValue"} => open = 0..2
  /\ pc = "SetGnl" => \/ mConfigFd = -1 /\ open = 0..2
                      \/ mConfigFd = 3 /\ open = 0..3
  /\ pc = "setServers" => line \in 1..(Len(mServers) + 1) /\ SocketsSet(line - 1)
  /\ pc = "running" => SocketsSet(Len(mServers))

IInv == TablesOK /\ DescriptorsOK
(* With the file closed, nothing but 0, 1 and 2 is open before the first   *)
(* server gets its socket.                                                 *)
LEMMA NoneSet ==
  ASSUME open = 0..2
  PROVE  SocketsSet(0)
<1>1. Sockets(0) = {}
  BY DEF Sockets
<1>2. IsFiniteSet(0..2)
  <2>1. 0 \in Int /\ 2 \in Int
    OBVIOUS
  <2> QED
    BY <2>1, FS_Interval, Zenon
<1> QED
  BY <1>1, <1>2 DEF SocketsSet

(* The step from the grouping to the sockets.                              *)
LEMMA SocketsBegin ==
  ASSUME TablesOK, open = 0..2, pc' = "setServers", line' = 1,
         open' = open, mServers' = mServers
  PROVE  IInv'
<1>1. SocketsSet(0)
  BY NoneSet
<1>2. SocketsSet(0)'
  BY <1>1 DEF SocketsSet, Sockets
<1>3. TablesOK'
  BY DEF TablesOK, Apart, BlocksOK
<1>4. line' \in 1..(Len(mServers') + 1)
  BY SeqDomain DEF TablesOK
<1>5. line' - 1 = 0
  OBVIOUS
<1>6. DescriptorsOK'
  BY <1>2, <1>4, <1>5 DEF DescriptorsOK, ReadingFile
<1> QED
  BY <1>3, <1>6 DEF IInv

LEMMA InitIInv ==
  StartInit => IInv
<1> SUFFICES ASSUME StartInit PROVE IInv
  OBVIOUS
<1>1. TablesOK
  BY NoneDomain DEF StartInit, TablesOK
<1>2. DescriptorsOK
  BY DEF StartInit, Init, DescriptorsOK, ReadingFile
<1> QED
  BY <1>1, <1>2 DEF IInv

(* The reading of the file leaves the tables alone, and opens and closes   *)
(* nothing but the file, which is descriptor 3.                            *)
LEMMA ReadingKeepsIInv ==
  ASSUME IInv, Next, UNCHANGED mServers
  PROVE  IInv'
<1>1. TablesOK'
  BY DEF IInv, TablesOK, Apart, BlocksOK
<1>2. DescriptorsOK
  BY DEF IInv
<1> SUFFICES DescriptorsOK'
  BY <1>1 DEF IInv
<1>3. CASE main
  BY <1>2, <1>3 DEF DescriptorsOK, ReadingFile, main, readVars
<1>4. CASE ReadConfigFile
  <2>1. open = 0..2
    BY <1>2, <1>4 DEF DescriptorsOK, ReadingFile, ReadConfigFile
  <2>2. NewFd = 3
    BY <2>1, NewFdNext
  <2> QED
    BY <1>4, <2>1, <2>2 DEF ReadConfigFile, DescriptorsOK, ReadingFile
<1>5. CASE NextLine
  BY <1>2, <1>5 DEF DescriptorsOK, ReadingFile, NextLine
<1>6. ASSUME NEW n \in 1..BUFFER_SIZE_GNL, ReadPiece(n)
      PROVE  DescriptorsOK'
  BY <1>2, <1>6 DEF DescriptorsOK, ReadingFile, ReadPiece
<1>7. CASE ReadEnd
  BY <1>2, <1>7 DEF DescriptorsOK, ReadingFile, ReadEnd
<1>8. CASE ReadFails
  BY <1>2, <1>8 DEF DescriptorsOK, ReadingFile, ReadFails
<1>9. CASE Step1
  BY <1>2, <1>9 DEF DescriptorsOK, ReadingFile, Step1, readVars
<1>10. CASE Step2Server
  BY <1>2, <1>10 DEF DescriptorsOK, ReadingFile, Step2Server, readVars
<1>11. CASE Step2
  BY <1>2, <1>11 DEF DescriptorsOK, ReadingFile, Step2, readVars
<1>12. ASSUME NEW reading, Keep(reading), pc = "SetConfigs", UNCHANGED readVars
       PROVE  DescriptorsOK'
  <2>1. pc' \in {"SetConfigs", "configured", "crashed"}
    BY <1>12 DEF Keep
  <2> QED
    BY <1>2, <1>12, <2>1 DEF DescriptorsOK, ReadingFile, readVars
<1>13. CASE ParseServer
  BY <1>12, <1>13 DEF ParseServer
<1>14. CASE ParseLocation
  BY <1>12, <1>14 DEF ParseLocation
<1>15. CASE ParseEnd
  BY <1>2, <1>15 DEF DescriptorsOK, ReadingFile, ParseEnd, readVars
<1> QED
  BY <1>3, <1>4, <1>5, <1>6, <1>7, <1>8, <1>9, <1>10, <1>11, <1>13, <1>14, <1>15
  DEF Next, Read, Parse

(* A configuration of a new address: a server of one block and location.   *)
LEMMA NewServer ==
  ASSUME TablesOK, NEW config,
         getIdxServer(config.mPort, config.mHost) = 0,
         mServers' = Append(mServers, Server(config))
  PROVE  TablesOK'
<1> DEFINE new == Server(config)
           n == Len(mServers)
<1>1. BlocksOK(<<serverBlock(config)>>)
  <2>1. DOMAIN serverBlock(config) = BlockMembers
    BY DEF serverBlock, BlockMembers
  <2>2. serverBlock(config).mlocationPaths = <<LocationPath(config)>>
    BY DEF serverBlock
  <2> QED
    BY <2>1, <2>2, OneSeq DEF BlocksOK
<1>2. /\ DOMAIN new = ServerMembers /\ new.mServerBlocks = <<serverBlock(config)>>
      /\ new.mPort = config.mPort /\ new.mHost = config.mHost
  BY DEF Server, ServerMembers
<1>3. \A k \in DOMAIN mServers : Apart(mServers[k], new) /\ Apart(new, mServers[k])
  <2>1. 0 \notin DOMAIN mServers
    BY SeqDomain DEF TablesOK
  <2> QED
    BY <1>2, <2>1, FirstServer DEF TablesOK, Apart
<1>4. /\ IsSeq(mServers') /\ DOMAIN mServers' = 1..(n + 1)
      /\ \A k \in DOMAIN mServers : mServers'[k] = mServers[k]
      /\ mServers'[n + 1] = new
  BY AppendSeq DEF TablesOK
<1>5. n \in Nat /\ DOMAIN mServers = 1..n
  BY SeqDomain DEF TablesOK
<1>6. \A k \in DOMAIN mServers' : k = n + 1 \/ k \in DOMAIN mServers
  BY <1>4, <1>5
<1> HIDE DEF new
<1>7. \A k \in DOMAIN mServers' :
        DOMAIN mServers'[k] = ServerMembers /\ BlocksOK(mServers'[k].mServerBlocks)
  BY <1>1, <1>2, <1>4, <1>6 DEF TablesOK
<1>8. \A k, l \in DOMAIN mServers' : k # l => Apart(mServers'[k], mServers'[l])
  BY <1>3, <1>4, <1>6 DEF TablesOK
<1> QED
  BY <1>4, <1>7, <1>8 DEF TablesOK

(* A server whose blocks change, and nothing else.                         *)
LEMMA NewBlocks ==
  ASSUME TablesOK, NEW s \in DOMAIN mServers, NEW blocks, BlocksOK(blocks),
         mServers' = [mServers EXCEPT ![s] = [mServers[s] EXCEPT !.mServerBlocks = blocks]]
  PROVE  TablesOK'
<1> DEFINE new == [mServers[s] EXCEPT !.mServerBlocks = blocks]
<1>1. /\ DOMAIN new = ServerMembers /\ new.mServerBlocks = blocks
      /\ new.mPort = mServers[s].mPort /\ new.mHost = mServers[s].mHost
  BY DEF TablesOK, ServerMembers
<1>2. /\ IsSeq(mServers') /\ DOMAIN mServers' = DOMAIN mServers
      /\ \A k \in DOMAIN mServers : mServers'[k] = IF k = s THEN new ELSE mServers[k]
  BY ReplaceSeq DEF TablesOK
<1> HIDE DEF new
<1>3. \A k \in DOMAIN mServers' :
        DOMAIN mServers'[k] = ServerMembers /\ BlocksOK(mServers'[k].mServerBlocks)
  BY <1>1, <1>2 DEF TablesOK
<1>4. \A k, l \in DOMAIN mServers' : k # l => Apart(mServers'[k], mServers'[l])
  BY <1>1, <1>2 DEF TablesOK, Apart
<1> QED
  BY <1>2, <1>3, <1>4 DEF TablesOK
(* A block of a new name, and a location more in the last block.           *)
LEMMA MoreBlocks ==
  ASSUME NEW blocks, NEW config, BlocksOK(blocks),
         getIdxServerBlock(blocks, config.mServerName) = 0
  PROVE  BlocksOK(Append(blocks, serverBlock(config)))
<1> DEFINE new == serverBlock(config)
           n == Len(blocks)
           more == Append(blocks, new)
<1>1. /\ DOMAIN new = BlockMembers /\ new.mserverName = config.mServerName
      /\ new.mlocationPaths = <<LocationPath(config)>>
  BY DEF serverBlock, BlockMembers
<1>2. /\ IsSeq(more) /\ more # <<>> /\ DOMAIN more = 1..(n + 1)
      /\ \A b \in DOMAIN blocks : more[b] = blocks[b]
      /\ more[n + 1] = new
  BY AppendSeq DEF BlocksOK
<1>3. n \in Nat /\ DOMAIN blocks = 1..n
  BY SeqDomain DEF BlocksOK
<1>4. \A b \in DOMAIN more : b = n + 1 \/ b \in DOMAIN blocks
  BY <1>2, <1>3
<1>5. \A b \in DOMAIN blocks : blocks[b].mserverName # new.mserverName
  BY <1>1, <1>3, FirstServerBlock DEF BlocksOK
<1>6. IsSeq(new.mlocationPaths) /\ new.mlocationPaths # <<>>
  BY <1>1, OneSeq
<1> HIDE DEF new, more
<1>7. \A b \in DOMAIN more :
        /\ DOMAIN more[b] = BlockMembers
        /\ IsSeq(more[b].mlocationPaths) /\ more[b].mlocationPaths # <<>>
  BY <1>1, <1>2, <1>4, <1>6 DEF BlocksOK
<1>8. \A b, c \in DOMAIN more : b # c => more[b].mserverName # more[c].mserverName
  BY <1>2, <1>4, <1>5 DEF BlocksOK
<1>9. BlocksOK(more)
  BY <1>2, <1>7, <1>8 DEF BlocksOK
<1> QED
  BY <1>9 DEF more, new

LEMMA MoreLocations ==
  ASSUME NEW blocks, NEW b \in DOMAIN blocks, NEW location, BlocksOK(blocks)
  PROVE  BlocksOK([blocks EXCEPT ![b] = [blocks[b] EXCEPT !.mlocationPaths =
                                           Append(blocks[b].mlocationPaths, location)]])
<1> DEFINE locations == Append(blocks[b].mlocationPaths, location)
           new == [blocks[b] EXCEPT !.mlocationPaths = locations]
           more == [blocks EXCEPT ![b] = new]
<1>1. IsSeq(locations) /\ locations # <<>>
  BY AppendSeq DEF BlocksOK
<1> HIDE DEF locations
<1>2. /\ DOMAIN new = BlockMembers /\ new.mserverName = blocks[b].mserverName
      /\ new.mlocationPaths = locations
  BY DEF BlocksOK, BlockMembers
<1>3. /\ IsSeq(more) /\ DOMAIN more = DOMAIN blocks
      /\ \A c \in DOMAIN blocks : more[c] = IF c = b THEN new ELSE blocks[c]
  BY ReplaceSeq DEF BlocksOK
<1> HIDE DEF new, more
<1>4. more # <<>>
  <2>1. DOMAIN <<>> = {}
    BY NoneDomain
  <2> QED
    BY <1>3, <2>1
<1>5. \A c \in DOMAIN more :
        /\ DOMAIN more[c] = BlockMembers
        /\ IsSeq(more[c].mlocationPaths) /\ more[c].mlocationPaths # <<>>
  BY <1>1, <1>2, <1>3 DEF BlocksOK
<1>6. \A c, d \in DOMAIN more : c # d => more[c].mserverName # more[d].mserverName
  BY <1>2, <1>3 DEF BlocksOK
<1>7. BlocksOK(more)
  BY <1>3, <1>4, <1>5, <1>6 DEF BlocksOK
<1> QED
  BY <1>7 DEF more, new, locations

(* One turn of setServersValue: a new server, a new block, a new location, *)
(* or the end of the loop.                                                 *)
LEMMA GroupingKeepsIInv ==
  ASSUME IInv, setServersValue
  PROVE  IInv'
<1> DEFINE config == Last(mConfigs)
           s == getIdxServer(config.mPort, config.mHost)
           blocks == mServers[s].mServerBlocks
           b == getIdxServerBlock(blocks, config.mServerName)
           known == getIdxLocationPath(blocks[b].mlocationPaths, config.mLocationPath) # 0
<1>1. TablesOK /\ pc = "setServersValue" /\ open = 0..2
  BY DEF IInv, DescriptorsOK, setServersValue
<1>2. open' = open
  BY DEF setServersValue, fileVars, readVars
<1>3. s # 0 => s \in DOMAIN mServers /\ BlocksOK(blocks)
  BY <1>1, FirstServer DEF TablesOK
<1>4. \/ s = 0 /\ mServers' = Append(mServers, Server(config)) /\ pc' = pc
      \/ /\ s # 0 /\ b = 0 /\ pc' = pc
         /\ mServers' = [mServers EXCEPT ![s].mServerBlocks = Append(@, serverBlock(config))]
      \/ /\ s # 0 /\ pc' = pc
         /\ mServers' = [mServers EXCEPT ![s].mServerBlocks[Len(blocks)].mlocationPaths =
                                            Append(@, LocationPath(config))]
      \/ pc' = "setServers" /\ mServers' = mServers /\ line' = 1
  BY DEF setServersValue
<1> HIDE DEF config, s, b, known
<1>5. CASE s = 0 /\ mServers' = Append(mServers, Server(config)) /\ pc' = pc
  <2>1. TablesOK'
    BY <1>1, <1>5, NewServer DEF s
  <2> QED
    BY <1>1, <1>2, <1>5, <2>1 DEF IInv, DescriptorsOK, ReadingFile
<1>6. CASE /\ s # 0 /\ b = 0 /\ pc' = pc
           /\ mServers' = [mServers EXCEPT ![s].mServerBlocks = Append(@, serverBlock(config))]
  <2>1. BlocksOK(Append(blocks, serverBlock(config)))
    BY <1>3, <1>6, MoreBlocks DEF b
  <2>2. mServers' = [mServers EXCEPT ![s] = [mServers[s] EXCEPT !.mServerBlocks =
                                               Append(blocks, serverBlock(config))]]
    BY <1>6
  <2>3. TablesOK'
    BY <1>1, <1>3, <1>6, <2>1, <2>2, NewBlocks
  <2> QED
    BY <1>1, <1>2, <1>6, <2>3 DEF IInv, DescriptorsOK, ReadingFile
<1>7. CASE /\ s # 0 /\ pc' = pc
           /\ mServers' = [mServers EXCEPT ![s].mServerBlocks[Len(blocks)].mlocationPaths =
                                              Append(@, LocationPath(config))]
  <2> DEFINE n == Len(blocks)
             more == [blocks EXCEPT ![n] = [blocks[n] EXCEPT !.mlocationPaths =
                                   Append(blocks[n].mlocationPaths, LocationPath(config))]]
  <2>1. n \in DOMAIN blocks
    BY <1>3, <1>7, LastIn DEF BlocksOK
  <2>2. BlocksOK(more)
    BY <1>3, <1>7, <2>1, MoreLocations
  <2>3. mServers' = [mServers EXCEPT ![s] = [mServers[s] EXCEPT !.mServerBlocks = more]]
    BY <1>7
  <2>4. TablesOK'
    BY <1>1, <1>3, <1>7, <2>2, <2>3, NewBlocks
  <2> QED
    BY <1>1, <1>2, <1>7, <2>4 DEF IInv, DescriptorsOK, ReadingFile
<1>8. CASE pc' = "setServers" /\ mServers' = mServers /\ line' = 1
  BY <1>1, <1>2, <1>8, SocketsBegin
<1> QED
  BY <1>4, <1>5, <1>6, <1>7, <1>8
(* The next server gets a socket, or none.                                 *)
LEMMA SocketKeepsTables ==
  ASSUME TablesOK, NEW k \in DOMAIN mServers, NEW fd,
         mServers' = [mServers EXCEPT ![k] = [mServers[k] EXCEPT !.mSocket = fd]]
  PROVE  /\ TablesOK' /\ DOMAIN mServers' = DOMAIN mServers
         /\ \A l \in DOMAIN mServers :
              mServers'[l].mSocket = IF l = k THEN fd ELSE mServers[l].mSocket
<1> DEFINE new == [mServers[k] EXCEPT !.mSocket = fd]
<1>1. /\ DOMAIN new = ServerMembers /\ new.mServerBlocks = mServers[k].mServerBlocks
      /\ new.mPort = mServers[k].mPort /\ new.mHost = mServers[k].mHost /\ new.mSocket = fd
  BY DEF TablesOK, ServerMembers
<1>2. /\ IsSeq(mServers') /\ DOMAIN mServers' = DOMAIN mServers
      /\ \A l \in DOMAIN mServers : mServers'[l] = IF l = k THEN new ELSE mServers[l]
  BY ReplaceSeq DEF TablesOK
<1> HIDE DEF new
<1>3. \A l \in DOMAIN mServers' :
        DOMAIN mServers'[l] = ServerMembers /\ BlocksOK(mServers'[l].mServerBlocks)
  BY <1>1, <1>2 DEF TablesOK
<1>4. \A l, m \in DOMAIN mServers' : l # m => Apart(mServers'[l], mServers'[m])
  BY <1>1, <1>2 DEF TablesOK, Apart
<1> QED
  BY <1>1, <1>2, <1>3, <1>4 DEF TablesOK

LEMMA SocketKeepsIInv ==
  ASSUME IInv, SetSocket \/ SetNoSocket
  PROVE  IInv'
<1> DEFINE n == line - 1
<1>1. /\ TablesOK /\ pc = "setServers" /\ pc' = pc /\ line' = line + 1
      /\ line \in 1..(Len(mServers) + 1) /\ line <= Len(mServers) /\ SocketsSet(n)
  BY DEF IInv, DescriptorsOK, SetSocket, SetNoSocket
<1>2. Len(mServers) \in Nat /\ DOMAIN mServers = 1..Len(mServers)
  BY <1>1, SeqDomain DEF TablesOK
<1>3. line \in DOMAIN mServers /\ n \in Nat /\ 1..line = (1..n) \cup {line}
  BY <1>1, <1>2
<1>4. PICK fd : /\ mServers' = [mServers EXCEPT ![line] = [mServers[line] EXCEPT !.mSocket = fd]]
                /\ \/ fd = NewFd /\ open' = open \cup {fd}
                   \/ fd = -1 /\ open' = open
  BY DEF SetSocket, SetNoSocket, fileVars, readVars
<1>5. /\ TablesOK' /\ DOMAIN mServers' = DOMAIN mServers
      /\ \A l \in DOMAIN mServers :
           mServers'[l].mSocket = IF l = line THEN fd ELSE mServers[l].mSocket
  BY <1>1, <1>3, <1>4, SocketKeepsTables
<1>6. /\ \A k \in 1..n : mServers'[k].mSocket = mServers[k].mSocket
      /\ mServers'[line].mSocket = fd
  BY <1>1, <1>2, <1>3, <1>5
<1>7. {mServers'[k].mSocket : k \in 1..line} = Sockets(n) \cup {fd}
  BY <1>3, <1>6 DEF Sockets
<1>8. /\ open \subseteq Nat /\ IsFiniteSet(open)
      /\ open = (0..2) \cup (Sockets(n) \ {-1})
      /\ \/ -1 \in Sockets(n)
         \/ \A k \in 1..n : mServers[k].mSocket = 2 + k
  BY <1>1 DEF SocketsSet
<1>9. NewFd \in Nat
  BY <1>8, NewFdFree
<1>10. fd = NewFd => fd # -1
  BY <1>9
<1>11. /\ open' \subseteq Nat /\ IsFiniteSet(open')
       /\ open' = (0..2) \cup ((Sockets(n) \cup {fd}) \ {-1})
  BY <1>4, <1>8, <1>9, <1>10, FS_AddElement
<1>12. \/ -1 \in Sockets(n) \cup {fd}
       \/ \A k \in 1..line : mServers'[k].mSocket = 2 + k
  <2> SUFFICES ASSUME fd = NewFd, \A k \in 1..n : mServers[k].mSocket = 2 + k
               PROVE  \A k \in 1..line : mServers'[k].mSocket = 2 + k
    BY <1>4, <1>8
  <2>1. Sockets(n) = 3..(n + 2)
    <3>1. \A x \in Sockets(n) : x \in 3..(n + 2)
      BY <1>3 DEF Sockets
    <3>2. ASSUME NEW x \in 3..(n + 2) PROVE x \in Sockets(n)
      <4>1. x - 2 \in 1..n /\ mServers[x - 2].mSocket = x
        BY <1>3
      <4> QED
        BY <4>1 DEF Sockets
    <3> QED
      BY <3>1, <3>2
  <2>2. open = 0..(n + 2)
    BY <1>3, <1>8, <2>1
  <2>3. fd = line + 2
    BY <1>1, <1>3, <2>2, NewFdNext
  <2> QED
    BY <1>3, <1>6, <2>3
<1>13. SocketsSet(line - 1)'
  <2>1. line' - 1 = line
    BY <1>1
  <2> QED
    BY <1>7, <1>11, <1>12, <2>1 DEF SocketsSet, Sockets
<1>14. line' \in 1..(Len(mServers') + 1)
  <2>1. Len(mServers') \in Nat /\ DOMAIN mServers' = 1..Len(mServers')
    BY <1>5, SeqDomain DEF TablesOK
  <2>2. Len(mServers') = Len(mServers)
    BY <1>2, <1>5, <2>1
  <2> QED
    BY <1>1, <1>2, <2>2
<1>15. DescriptorsOK'
  BY <1>1, <1>13, <1>14 DEF DescriptorsOK, ReadingFile
<1> QED
  BY <1>5, <1>15 DEF IInv

(* Every step of the start keeps the invariant.                            *)
LEMMA StepIInv ==
  IInv /\ [Start]_vars => IInv'
<1> SUFFICES ASSUME IInv, [Start]_vars PROVE IInv'
  OBVIOUS
<1>1. CASE Next /\ UNCHANGED mServers
  BY <1>1, ReadingKeepsIInv
<1>2. CASE CheckOverlap
  <2>1. TablesOK'
    BY <1>2 DEF CheckOverlap, IInv, TablesOK, Apart, BlocksOK
  <2>2. DescriptorsOK'
    BY <1>2 DEF CheckOverlap, IInv, DescriptorsOK, ReadingFile, fileVars, readVars
  <2> QED
    BY <2>1, <2>2 DEF IInv
<1>3. CASE setServersValue
  BY <1>3, GroupingKeepsIInv
<1>4. CASE ServersSet
  BY <1>4, SocketsBegin DEF ServersSet, IInv, DescriptorsOK, ReadingFile, fileVars, readVars
<1>5. CASE SetSocket \/ SetNoSocket
  BY <1>5, SocketKeepsIInv
<1>6. CASE SetSocketFails
  <2>1. TablesOK'
    BY <1>6 DEF SetSocketFails, IInv, TablesOK, Apart, BlocksOK
  <2>2. DescriptorsOK'
    BY <1>6 DEF SetSocketFails, DescriptorsOK, ReadingFile
  <2> QED
    BY <2>1, <2>2 DEF IInv
<1>7. CASE RunServers
  <2>1. TablesOK'
    BY <1>7 DEF RunServers, IInv, TablesOK, Apart, BlocksOK
  <2>2. line - 1 = Len(mServers)
    BY <1>7, SeqDomain DEF RunServers, IInv, TablesOK, DescriptorsOK
  <2>3. SocketsSet(Len(mServers))
    BY <1>7, <2>2 DEF RunServers, IInv, DescriptorsOK
  <2>4. SocketsSet(Len(mServers))'
    BY <1>7, <2>3 DEF RunServers, fileVars, readVars, SocketsSet, Sockets
  <2>5. pc' \in {"running", "crashed"}
    BY <1>7 DEF RunServers
  <2>6. DescriptorsOK'
    BY <2>4, <2>5 DEF DescriptorsOK, ReadingFile
  <2> QED
    BY <2>1, <2>6 DEF IInv
<1>8. CASE Over \/ UNCHANGED vars
  <2>1. UNCHANGED vars
    BY <1>8 DEF Over
  <2>2. TablesOK'
    BY <2>1 DEF vars, IInv, TablesOK, Apart, BlocksOK
  <2>3. DescriptorsOK'
    BY <2>1 DEF vars, configVars, readVars, IInv, DescriptorsOK, ReadingFile, SocketsSet, Sockets
  <2> QED
    BY <2>2, <2>3 DEF IInv
<1> QED
  BY <1>1, <1>2, <1>3, <1>4, <1>5, <1>6, <1>7, <1>8 DEF Start

(* A start keeps the invariant, from main to the event loop.               *)
THEOREM StartInvariant == StartSpec => []IInv
BY InitIInv, StepIInv, PTL DEF StartSpec

(* The event loop finds what it takes for granted: one server per address, *)
(* one block per name, none empty, and the listening sockets on 3, 4, ...  *)
(* unless socket() failed, for every configuration file.                   *)
THEOREM TablesSoundCorrect == StartSpec => []TablesSound
<1>1. IInv => TablesSound
  <2> SUFFICES ASSUME IInv, pc = "running" PROVE TablesSound
    BY DEF TablesSound
  <2>1. TablesOK /\ SocketsSet(Len(mServers))
    BY DEF IInv, DescriptorsOK
  <2>2. DOMAIN mServers = 1..Len(mServers)
    BY <2>1, SeqDomain DEF TablesOK
  <2>3. /\ NoSocket \/ \A k \in DOMAIN mServers : mServers[k].mSocket = 2 + k
        /\ open = (0..2) \cup ({mServers[k].mSocket : k \in DOMAIN mServers} \ {-1})
    BY <2>1, <2>2 DEF SocketsSet, Sockets, NoSocket
  <2> QED
    BY <2>1, <2>3 DEF TablesSound, TablesOK, BlocksOK, Apart
<1> QED
  BY <1>1, StartInvariant, PTL
(* The reading of the file is the beginning of the start, which does not   *)
(* come back to it.                                                        *)
LEMMA StartKeepsReading ==
  ReadingInv /\ [Start]_vars => ReadingInv'
<1> SUFFICES ASSUME ReadingInv, [Start]_vars PROVE ReadingInv'
  OBVIOUS
<1>1. CASE Next
  BY <1>1, StepReading
<1>2. CASE CheckOverlap \/ setServersValue \/ ServersSet \/ SetSocketFails \/ RunServers
  <2>1. /\ file' = file
        /\ pc' \in {"exited", "setServersValue", "setServers", "running", "crashed"}
    BY <1>2 DEF CheckOverlap, setServersValue, ServersSet, SetSocketFails, RunServers,
                fileVars, readVars
  <2> QED
    BY <2>1 DEF ReadingInv
<1>3. CASE SetSocket \/ SetNoSocket
  <2>1. file' = file /\ pc' = "setServers"
    BY <1>3 DEF SetSocket, SetNoSocket, fileVars, readVars
  <2> QED
    BY <2>1 DEF ReadingInv
<1>4. CASE Over \/ UNCHANGED vars
  BY <1>4, StepReading DEF Over, vars
<1> QED
  BY <1>1, <1>2, <1>3, <1>4 DEF Start

(* The lines are those of the file also where the reading is a part of the *)
(* whole start, whatever the pieces read() returns it in.                  *)
THEOREM StartLinesAsRead == StartSpec => []LinesAsRead
<1>1. StartInit => ReadingInv
  BY InitReading DEF StartInit
<1>2. ReadingInv => LinesAsRead
  BY DEF ReadingInv, LinesAsRead
<1> QED
  BY <1>1, <1>2, StartKeepsReading, PTL DEF StartSpec

-----------------------------------------------------------------------------
(***************************************************************************)
(* What the start makes of a file that is read as it is written: these     *)
(* theorems take ReadAsWritten for their hypothesis, which                 *)
(* ConfigWritten_proofs shows of every start.                              *)
(***************************************************************************)
Said == file.kind = "text" /\ file.damaged = 0
BeforeTables == ReadingFile \cup {"SetGnl"}

(* Whether two servers are the same is decided once, before the tables.    *)
OverlapInv ==
  /\ pc \in BeforeTables => mServers = <<>>
  /\ Said => /\ pc \in {"setServersValue", "setServers", "running"} => ~Overlapping(file.servers)
             /\ pc = "exited" /\ mServers = <<>> => Overlapping(file.servers)

(* What no step of the start changes, and where it can go.                 *)
LEMMA ReadingGoesOn ==
  ASSUME Next
  PROVE  /\ file' = file
         /\ pc' \in BeforeTables \cup {"exited", "crashed"}
         /\ pc' = "exited" => file.kind = "missing"
         /\ pc \in BeforeTables
<1> USE DEF BeforeTables, ReadingFile
<1>1. CASE main
  BY <1>1 DEF main, readVars
<1>2. CASE ReadConfigFile \/ NextLine \/ ReadEnd \/ ReadFails
  BY <1>2 DEF ReadConfigFile, NextLine, ReadEnd, ReadFails
<1>3. ASSUME NEW n \in 1..BUFFER_SIZE_GNL, ReadPiece(n)
      PROVE  /\ file' = file /\ pc' = "SetGnl" /\ pc = "SetGnl"
  BY <1>3 DEF ReadPiece
<1>4. CASE Step1
  BY <1>4 DEF Step1, readVars
<1>5. CASE Step2Server
  BY <1>5 DEF Step2Server, readVars
<1>6. CASE Step2
  BY <1>6 DEF Step2, readVars
<1>7. ASSUME NEW reading, Keep(reading), pc = "SetConfigs", UNCHANGED readVars
      PROVE  /\ file' = file /\ pc' \in {"SetConfigs", "configured", "crashed"}
  BY <1>7 DEF Keep, readVars
<1>8. CASE ParseServer \/ ParseLocation
  <2>1. PICK reading : Keep(reading) /\ pc = "SetConfigs" /\ UNCHANGED readVars
    BY <1>8 DEF ParseServer, ParseLocation
  <2> QED
    BY <1>7, <2>1
<1>9. CASE ParseEnd
  BY <1>9 DEF ParseEnd, readVars
<1> QED
  BY <1>1, <1>2, <1>3, <1>4, <1>5, <1>6, <1>8, <1>9 DEF Next, Read, Parse

LEMMA StepOverlap ==
  OverlapInv /\ IInv /\ ReadAsWritten /\ [Start]_vars => OverlapInv'
<1> SUFFICES ASSUME OverlapInv, IInv, ReadAsWritten, [Start]_vars PROVE OverlapInv'
  OBVIOUS
<1>1. CASE Next /\ UNCHANGED mServers
  <2>1. /\ file' = file /\ mServers' = <<>>
        /\ pc' \in BeforeTables \cup {"exited", "crashed"}
        /\ pc' = "exited" => file.kind = "missing"
    BY <1>1, ReadingGoesOn DEF OverlapInv
  <2> QED
    BY <2>1 DEF OverlapInv, Said, BeforeTables, ReadingFile
<1>2. CASE CheckOverlap
  <2>1. mServers = <<>> /\ mServers' = mServers /\ file' = file /\ pc = "configured"
    BY <1>2 DEF CheckOverlap, OverlapInv, BeforeTables, ReadingFile, fileVars, readVars
  <2>2. Said => mConfigs = WrittenAll(file.servers)
    BY <2>1 DEF Said, ReadAsWritten
  <2>3. Said => (isOverlapedServer <=> Overlapping(file.servers))
    BY <2>2 DEF isOverlapedServer, Overlapping
  <2>4. pc' = IF isOverlapedServer THEN "exited" ELSE "setServersValue"
    BY <1>2 DEF CheckOverlap
  <2> QED
    BY <2>1, <2>3, <2>4 DEF OverlapInv, Said, BeforeTables, ReadingFile
<1>3. CASE setServersValue \/ ServersSet
  <2>1. pc = "setServersValue" /\ pc' \in {"setServersValue", "setServers"} /\ file' = file
    BY <1>3 DEF setServersValue, ServersSet, fileVars, readVars
  <2> QED
    BY <2>1 DEF OverlapInv, Said, BeforeTables, ReadingFile
<1>4. CASE SetSocket \/ SetNoSocket
  <2>1. pc = "setServers" /\ pc' = pc /\ file' = file
    BY <1>4 DEF SetSocket, SetNoSocket, fileVars, readVars
  <2> QED
    BY <2>1 DEF OverlapInv, Said, BeforeTables, ReadingFile
<1>5. CASE SetSocketFails
  <2>1. /\ pc' = "exited" /\ mServers' = mServers /\ file' = file
        /\ line \in 1..(Len(mServers) + 1) /\ line <= Len(mServers)
    BY <1>5 DEF SetSocketFails, fileVars, readVars, IInv, DescriptorsOK
  <2>2. mServers # <<>>
    BY <2>1, EmptySeq, SeqDomain DEF IInv, TablesOK
  <2> QED
    BY <2>1, <2>2 DEF OverlapInv, BeforeTables, ReadingFile
<1>6. CASE RunServers
  <2>1. pc = "setServers" /\ pc' \in {"running", "crashed"} /\ file' = file
    BY <1>6 DEF RunServers, fileVars, readVars
  <2> QED
    BY <2>1 DEF OverlapInv, Said, BeforeTables, ReadingFile
<1>7. CASE Over \/ UNCHANGED vars
  BY <1>7 DEF Over, vars, configVars, readVars, OverlapInv, Said
<1> QED
  BY <1>1, <1>2, <1>3, <1>4, <1>5, <1>6, <1>7 DEF Start

(* Two servers of one name on one address are never run, and a file that   *)
(* has none of them is never refused for it, whatever else it says and     *)
(* however many servers and locations it has.                              *)
THEOREM OverlapRefusedCorrect == StartSpec /\ []ReadAsWritten => []OverlapRefused
<1>1. StartInit => OverlapInv
  BY DEF StartInit, Init, OverlapInv
<1>2. OverlapInv => OverlapRefused
  BY DEF OverlapInv, OverlapRefused, Said
<1> QED
  BY <1>1, <1>2, StartInvariant, StepOverlap, PTL DEF StartSpec
-----------------------------------------------------------------------------
(***************************************************************************)
(* Where a configuration is in tables t: in block b of server s as         *)
(* location l.  setServersValue makes the tables grow by one configuration *)
(* at a time, and each of its three ways to do that keeps what is there.   *)
(***************************************************************************)
IsBlock(t, s, b) == s \in DOMAIN t /\ b \in DOMAIN t[s].mServerBlocks
IsPlace(t, s, b, l) ==
  IsBlock(t, s, b) /\ l \in DOMAIN t[s].mServerBlocks[b].mlocationPaths
Named(t, s, b, config) ==
  sameAddress(t[s], config) /\ t[s].mServerBlocks[b].mserverName = config.mServerName
Holds(t, s, b, l, config) ==
  Named(t, s, b, config) /\ t[s].mServerBlocks[b].mlocationPaths[l] = LocationPath(config)

Grown(t, u, config) ==
  /\ \A s, b : IsBlock(t, s, b) =>
       IsBlock(u, s, b) /\ \A d : Named(u, s, b, d) <=> Named(t, s, b, d)
  /\ \A s, b, l : IsPlace(t, s, b, l) =>
       IsPlace(u, s, b, l) /\ \A d : Holds(u, s, b, l, d) <=> Holds(t, s, b, l, d)
  /\ \A s, b, l : IsPlace(u, s, b, l) => IsPlace(t, s, b, l) \/ Holds(u, s, b, l, config)
  /\ \E s, b, l : IsPlace(u, s, b, l) /\ Holds(u, s, b, l, config)
  /\ \A s, b, c : IsBlock(u, s, b) /\ IsBlock(u, s, c) /\ b < c =>
       IsBlock(t, s, b) /\ (IsBlock(t, s, c) \/ Named(u, s, c, config))
  /\ \A s, b, l, m : IsPlace(u, s, b, l) /\ IsPlace(u, s, b, m) /\ l < m =>
       IsPlace(t, s, b, l) /\ (IsPlace(t, s, b, m) \/ Holds(u, s, b, m, config))

LEMMA GrowServer ==
  ASSUME NEW t, IsSeq(t), NEW config
  PROVE  Grown(t, Append(t, Server(config)), config)
<1> DEFINE u == Append(t, Server(config))
           n == Len(t)
           new == Server(config)
           block == serverBlock(config)
<1>1. /\ DOMAIN u = 1..(n + 1) /\ n \in Nat /\ DOMAIN t = 1..n
      /\ \A k \in DOMAIN t : u[k] = t[k]
      /\ u[n + 1] = new
  BY AppendSeq, SeqDomain
<1>2. /\ new.mServerBlocks = <<block>> /\ new.mPort = config.mPort /\ new.mHost = config.mHost
      /\ block.mserverName = config.mServerName
      /\ block.mlocationPaths = <<LocationPath(config)>>
  BY DEF Server, serverBlock
<1>3. DOMAIN <<block>> = {1} /\ <<block>>[1] = block
  BY OneSeq
<1>4. DOMAIN block.mlocationPaths = {1} /\ block.mlocationPaths[1] = LocationPath(config)
  BY <1>2, OneSeq
<1>5. n + 1 \in DOMAIN u /\ \A k \in DOMAIN u : k \in DOMAIN t \/ k = n + 1
  BY <1>1
<1> HIDE DEF u, new, block
<1>6. \A s \in DOMAIN t : s \in DOMAIN u /\ u[s] = t[s]
  BY <1>1
<1>7. \A b : IsBlock(u, n + 1, b) <=> b = 1
  BY <1>1, <1>2, <1>3, <1>5 DEF IsBlock
<1>8. \A l : IsPlace(u, n + 1, 1, l) <=> l = 1
  BY <1>1, <1>2, <1>3, <1>4, <1>7 DEF IsPlace
<1>9. Holds(u, n + 1, 1, 1, config)
  BY <1>1, <1>2, <1>3, <1>4 DEF Holds, Named, sameAddress
<1>10. \A s, b : IsBlock(t, s, b) =>
         IsBlock(u, s, b) /\ \A d : Named(u, s, b, d) <=> Named(t, s, b, d)
  BY <1>6 DEF IsBlock, Named
<1>11. \A s, b, l : IsPlace(t, s, b, l) =>
         IsPlace(u, s, b, l) /\ \A d : Holds(u, s, b, l, d) <=> Holds(t, s, b, l, d)
  BY <1>6 DEF IsBlock, IsPlace, Named, Holds
<1>12. \A s, b, l : IsPlace(u, s, b, l) => IsPlace(t, s, b, l) \/ Holds(u, s, b, l, config)
  <2> SUFFICES ASSUME NEW s, NEW b, NEW l, IsPlace(u, s, b, l)
               PROVE  IsPlace(t, s, b, l) \/ Holds(u, s, b, l, config)
    OBVIOUS
  <2>1. CASE s \in DOMAIN t
    BY <1>6, <2>1 DEF IsPlace, IsBlock
  <2>2. CASE s = n + 1
    <3>1. b = 1 /\ l = 1
      BY <1>7, <1>8, <2>2 DEF IsPlace
    <3> QED
      BY <1>9, <2>2, <3>1
  <2> QED
    BY <1>5, <2>1, <2>2 DEF IsPlace, IsBlock
<1>13. IsPlace(u, n + 1, 1, 1)
  BY <1>8
<1>14. \A s, b, c : IsBlock(u, s, b) /\ IsBlock(u, s, c) /\ b < c =>
         IsBlock(t, s, b) /\ (IsBlock(t, s, c) \/ Named(u, s, c, config))
  <2> SUFFICES ASSUME NEW s, NEW b, NEW c, IsBlock(u, s, b), IsBlock(u, s, c), b < c
               PROVE  IsBlock(t, s, b) /\ IsBlock(t, s, c)
    OBVIOUS
  <2>1. s # n + 1
    BY <1>7
  <2> QED
    BY <1>5, <1>6, <2>1 DEF IsBlock
<1>15. \A s, b, l, m : IsPlace(u, s, b, l) /\ IsPlace(u, s, b, m) /\ l < m =>
         IsPlace(t, s, b, l) /\ (IsPlace(t, s, b, m) \/ Holds(u, s, b, m, config))
  <2> SUFFICES ASSUME NEW s, NEW b, NEW l, NEW m, IsPlace(u, s, b, l), IsPlace(u, s, b, m), l < m
               PROVE  IsPlace(t, s, b, l) /\ IsPlace(t, s, b, m)
    OBVIOUS
  <2>1. ASSUME s = n + 1 PROVE l = 1 /\ m = 1
    <3>1. b = 1
      BY <1>7, <2>1 DEF IsPlace
    <3> QED
      BY <1>8, <2>1, <3>1
  <2>2. s # n + 1
    BY <2>1
  <2>3. s \in DOMAIN t
    BY <1>5, <2>2 DEF IsPlace, IsBlock
  <2> QED
    BY <1>6, <2>3 DEF IsPlace, IsBlock
<1>16. Grown(t, u, config)
  BY <1>9, <1>10, <1>11, <1>12, <1>13, <1>14, <1>15 DEF Grown
<1> QED
  BY <1>16 DEF u, new

(* A server whose blocks grow.                                             *)
LEMMA Regrouped ==
  ASSUME NEW t, IsSeq(t), NEW s \in DOMAIN t, DOMAIN t[s] = ServerMembers, NEW blocks
  PROVE  LET u == [t EXCEPT ![s] = [t[s] EXCEPT !.mServerBlocks = blocks]]
         IN  /\ DOMAIN u = DOMAIN t
             /\ \A k \in DOMAIN t : k # s => u[k] = t[k]
             /\ u[s].mServerBlocks = blocks
             /\ u[s].mHost = t[s].mHost /\ u[s].mPort = t[s].mPort
BY DEF ServerMembers

LEMMA GrowBlock ==
  ASSUME NEW t, IsSeq(t), NEW s \in DOMAIN t, DOMAIN t[s] = ServerMembers,
         BlocksOK(t[s].mServerBlocks), NEW config, sameAddress(t[s], config)
  PROVE  Grown(t, [t EXCEPT ![s] = [t[s] EXCEPT !.mServerBlocks =
                     Append(t[s].mServerBlocks, serverBlock(config))]], config)
<1> DEFINE old == t[s].mServerBlocks
           block == serverBlock(config)
           blocks == Append(old, block)
           n == Len(old)
           u == [t EXCEPT ![s] = [t[s] EXCEPT !.mServerBlocks = blocks]]
<1>1. /\ DOMAIN blocks = 1..(n + 1) /\ n \in Nat /\ DOMAIN old = 1..n
      /\ \A k \in DOMAIN old : blocks[k] = old[k]
      /\ blocks[n + 1] = block
  BY AppendSeq, SeqDomain DEF BlocksOK
<1>2. /\ block.mserverName = config.mServerName
      /\ block.mlocationPaths = <<LocationPath(config)>>
  BY DEF serverBlock
<1>3. DOMAIN block.mlocationPaths = {1} /\ block.mlocationPaths[1] = LocationPath(config)
  BY <1>2, OneSeq
<1>4. /\ n + 1 \in DOMAIN blocks /\ \A k \in DOMAIN blocks : k \in DOMAIN old \/ k = n + 1
      /\ \A k \in DOMAIN old : k \in DOMAIN blocks
      /\ \A k \in DOMAIN blocks : k < n + 1 => k \in DOMAIN old
      /\ \A k \in DOMAIN blocks : ~(n + 1 < k)
  BY <1>1
<1> HIDE DEF blocks, block
<1>5. /\ DOMAIN u = DOMAIN t
      /\ \A k \in DOMAIN t : k # s => u[k] = t[k]
      /\ u[s].mServerBlocks = blocks
      /\ u[s].mHost = t[s].mHost /\ u[s].mPort = t[s].mPort
  BY Regrouped
<1> HIDE DEF u
<1>6. \A k, b : IsBlock(t, k, b) =>
        IsBlock(u, k, b) /\ \A d : Named(u, k, b, d) <=> Named(t, k, b, d)
  BY <1>1, <1>4, <1>5 DEF IsBlock, Named, sameAddress
<1>7. \A k, b, l : IsPlace(t, k, b, l) =>
        IsPlace(u, k, b, l) /\ \A d : Holds(u, k, b, l, d) <=> Holds(t, k, b, l, d)
  <2>1. \A k, b : IsBlock(t, k, b) => u[k].mServerBlocks[b] = t[k].mServerBlocks[b]
    BY <1>1, <1>5 DEF IsBlock
  <2> QED
    BY <1>6, <2>1 DEF IsPlace, Holds
<1>8. IsPlace(u, s, n + 1, 1) /\ Holds(u, s, n + 1, 1, config)
  BY <1>1, <1>2, <1>3, <1>4, <1>5 DEF IsPlace, IsBlock, Holds, Named, sameAddress
<1>9. \A k, b : IsBlock(u, k, b) => IsBlock(t, k, b) \/ (k = s /\ b = n + 1)
  BY <1>4, <1>5 DEF IsBlock
<1>10. \A k, b, l : IsPlace(u, k, b, l) => IsPlace(t, k, b, l) \/ Holds(u, k, b, l, config)
  <2> SUFFICES ASSUME NEW k, NEW b, NEW l, IsPlace(u, k, b, l)
               PROVE  IsPlace(t, k, b, l) \/ Holds(u, k, b, l, config)
    OBVIOUS
  <2>1. CASE IsBlock(t, k, b)
    <3>1. u[k].mServerBlocks[b] = t[k].mServerBlocks[b]
      BY <1>1, <1>5, <2>1 DEF IsBlock
    <3> QED
      BY <2>1, <3>1 DEF IsPlace
  <2>2. CASE k = s /\ b = n + 1
    <3>1. l = 1
      BY <1>1, <1>3, <1>5, <2>2 DEF IsPlace
    <3> QED
      BY <1>8, <2>2, <3>1
  <2> QED
    BY <1>9, <2>1, <2>2 DEF IsPlace
<1>11. \A k, b, c : IsBlock(u, k, b) /\ IsBlock(u, k, c) /\ b < c =>
         IsBlock(t, k, b) /\ (IsBlock(t, k, c) \/ Named(u, k, c, config))
  <2> SUFFICES ASSUME NEW k, NEW b, NEW c, IsBlock(u, k, b), IsBlock(u, k, c), b < c
               PROVE  IsBlock(t, k, b) /\ (IsBlock(t, k, c) \/ Named(u, k, c, config))
    OBVIOUS
  <2>1. ~(k = s /\ b = n + 1)
    BY <1>4, <1>5 DEF IsBlock
  <2> QED
    BY <1>8, <1>9, <2>1 DEF Holds
<1>12. \A k, b, l, m : IsPlace(u, k, b, l) /\ IsPlace(u, k, b, m) /\ l < m =>
         IsPlace(t, k, b, l) /\ (IsPlace(t, k, b, m) \/ Holds(u, k, b, m, config))
  <2> SUFFICES ASSUME NEW k, NEW b, NEW l, NEW m, IsPlace(u, k, b, l), IsPlace(u, k, b, m), l < m
               PROVE  IsPlace(t, k, b, l) /\ IsPlace(t, k, b, m)
    OBVIOUS
  <2>1. ~(k = s /\ b = n + 1)
    <3> SUFFICES ASSUME k = s, b = n + 1 PROVE l = 1 /\ m = 1
      OBVIOUS
    <3> QED
      BY <1>1, <1>3, <1>5 DEF IsPlace
  <2>2. IsBlock(t, k, b)
    BY <1>9, <2>1 DEF IsPlace
  <2>3. u[k].mServerBlocks[b] = t[k].mServerBlocks[b]
    BY <1>1, <1>5, <2>2 DEF IsBlock
  <2> QED
    BY <2>2, <2>3 DEF IsPlace
<1>13. Grown(t, u, config)
  BY <1>6, <1>7, <1>8, <1>10, <1>11, <1>12 DEF Grown
<1> QED
  BY <1>13 DEF u, blocks, block

LEMMA GrowLocation ==
  ASSUME NEW t, IsSeq(t), NEW s \in DOMAIN t, DOMAIN t[s] = ServerMembers,
         BlocksOK(t[s].mServerBlocks), NEW config, sameAddress(t[s], config),
         NEW b \in DOMAIN t[s].mServerBlocks,
         t[s].mServerBlocks[b].mserverName = config.mServerName
  PROVE  Grown(t, [t EXCEPT ![s] = [t[s] EXCEPT !.mServerBlocks =
                     [t[s].mServerBlocks EXCEPT ![b] = [t[s].mServerBlocks[b] EXCEPT !.mlocationPaths =
                        Append(t[s].mServerBlocks[b].mlocationPaths, LocationPath(config))]]]], config)
<1> DEFINE old == t[s].mServerBlocks
           locations == Append(old[b].mlocationPaths, LocationPath(config))
           block == [old[b] EXCEPT !.mlocationPaths = locations]
           blocks == [old EXCEPT ![b] = block]
           n == Len(old[b].mlocationPaths)
           u == [t EXCEPT ![s] = [t[s] EXCEPT !.mServerBlocks = blocks]]
<1>1. /\ DOMAIN locations = 1..(n + 1) /\ n \in Nat /\ DOMAIN old[b].mlocationPaths = 1..n
      /\ \A k \in DOMAIN old[b].mlocationPaths : locations[k] = old[b].mlocationPaths[k]
      /\ locations[n + 1] = LocationPath(config)
  BY AppendSeq, SeqDomain DEF BlocksOK
<1>2. /\ n + 1 \in DOMAIN locations
      /\ \A k \in DOMAIN locations : k \in DOMAIN old[b].mlocationPaths \/ k = n + 1
      /\ \A k \in DOMAIN old[b].mlocationPaths : k \in DOMAIN locations
  BY <1>1
<1>0. /\ \A k \in DOMAIN locations : ~(n + 1 < k)
      /\ \A k \in DOMAIN locations : k < n + 1 => k \in DOMAIN old[b].mlocationPaths
  BY <1>1
<1> HIDE DEF locations, n
<1>3. block.mserverName = old[b].mserverName /\ block.mlocationPaths = locations
  BY DEF BlocksOK, BlockMembers
<1> HIDE DEF block
<1>4. DOMAIN blocks = DOMAIN old /\ blocks[b] = block
      /\ \A c \in DOMAIN old : c # b => blocks[c] = old[c]
  OBVIOUS
<1> HIDE DEF blocks
<1>5. /\ DOMAIN u = DOMAIN t
      /\ \A k \in DOMAIN t : k # s => u[k] = t[k]
      /\ u[s].mServerBlocks = blocks
      /\ u[s].mHost = t[s].mHost /\ u[s].mPort = t[s].mPort
  BY Regrouped
<1> HIDE DEF u
<1>6. \A k, c : /\ IsBlock(t, k, c) <=> IsBlock(u, k, c)
                /\ IsBlock(t, k, c) => \A d : Named(u, k, c, d) <=> Named(t, k, c, d)
  <2>1. \A c \in DOMAIN old : blocks[c].mserverName = old[c].mserverName
    BY <1>3, <1>4
  <2> QED
    BY <1>4, <1>5, <2>1 DEF IsBlock, Named, sameAddress
<1>7. \A k, c : IsBlock(t, k, c) /\ ~(k = s /\ c = b) =>
        u[k].mServerBlocks[c] = t[k].mServerBlocks[c]
  BY <1>4, <1>5 DEF IsBlock
<1>8. u[s].mServerBlocks[b].mlocationPaths = locations
  BY <1>3, <1>4, <1>5
<1>9. ASSUME NEW k, NEW c, NEW l, IsPlace(t, k, c, l)
      PROVE  IsPlace(u, k, c, l) /\ \A d : Holds(u, k, c, l, d) <=> Holds(t, k, c, l, d)
  <2>1. CASE k = s /\ c = b
    BY <1>1, <1>2, <1>6, <1>8, <1>9, <2>1 DEF IsPlace, Holds
  <2>2. CASE ~(k = s /\ c = b)
    BY <1>6, <1>7, <1>9, <2>2 DEF IsPlace, Holds
  <2> QED
    BY <2>1, <2>2
<1>10. IsPlace(u, s, b, n + 1) /\ Holds(u, s, b, n + 1, config)
  <2>1. IsBlock(t, s, b) /\ Named(t, s, b, config)
    BY DEF IsBlock, Named
  <2> QED
    BY <1>1, <1>2, <1>6, <1>8, <2>1 DEF IsPlace, Holds
<1>11. ASSUME NEW k, NEW c, NEW l, IsPlace(u, k, c, l)
       PROVE  IsPlace(t, k, c, l) \/ Holds(u, k, c, l, config)
  <2>1. CASE k = s /\ c = b
    <3>1. l = n + 1 \/ IsPlace(t, k, c, l)
      BY <1>2, <1>6, <1>8, <1>11, <2>1 DEF IsPlace
    <3> QED
      BY <1>10, <2>1, <3>1
  <2>2. CASE ~(k = s /\ c = b)
    BY <1>6, <1>7, <1>11, <2>2 DEF IsPlace
  <2> QED
    BY <2>1, <2>2
<1>12. ASSUME NEW k, NEW c, NEW l, NEW m, IsPlace(u, k, c, l), IsPlace(u, k, c, m), l < m
       PROVE  IsPlace(t, k, c, l) /\ (IsPlace(t, k, c, m) \/ Holds(u, k, c, m, config))
  <2>1. CASE k = s /\ c = b
    <3>1. l \in DOMAIN locations /\ m \in DOMAIN locations /\ IsBlock(t, k, c)
      BY <1>6, <1>8, <1>12, <2>1 DEF IsPlace
    <3>2. m = n + 1 \/ IsPlace(t, k, c, m)
      BY <1>2, <2>1, <3>1 DEF IsPlace
    <3>3. l # n + 1
      BY <1>0, <1>12, <3>1
    <3>4. IsPlace(t, k, c, l)
      BY <1>2, <2>1, <3>1, <3>3 DEF IsPlace
    <3> QED
      BY <1>10, <2>1, <3>2, <3>4
  <2>2. CASE ~(k = s /\ c = b)
    BY <1>6, <1>7, <1>12, <2>2 DEF IsPlace
  <2> QED
    BY <2>1, <2>2
<1>13. Grown(t, u, config)
  BY <1>6, <1>9, <1>10, <1>11, <1>12 DEF Grown
<1> QED
  BY <1>13 DEF u, blocks, block, locations

(***************************************************************************)
(* With the configurations of W taken down to the nth: those behind it are *)
(* all in the tables, nothing else is, and a block or a location stands in *)
(* front of another one when a configuration of it was met first, which is *)
(* the later one of the file.                                              *)
(***************************************************************************)
Taken(n, W) == (n + 1)..Len(W)
Filing(t, n, W) ==
  /\ \A k \in Taken(n, W) : \E s, b, l : IsPlace(t, s, b, l) /\ Holds(t, s, b, l, W[k])
  /\ \A s, b, l : IsPlace(t, s, b, l) => \E k \in Taken(n, W) : Holds(t, s, b, l, W[k])
  /\ \A s, b, c : IsBlock(t, s, b) /\ IsBlock(t, s, c) /\ b < c =>
       \E i, j \in Taken(n, W) : i < j /\ Named(t, s, c, W[i]) /\ Named(t, s, b, W[j])
  /\ \A s, b, l, m : IsPlace(t, s, b, l) /\ IsPlace(t, s, b, m) /\ l < m =>
       \E i, j \in Taken(n, W) : i < j /\ Holds(t, s, b, m, W[i]) /\ Holds(t, s, b, l, W[j])

LEMMA FilingBegins ==
  ASSUME NEW W, Len(W) \in Nat
  PROVE  Filing(<<>>, Len(W), W)
<1>1. Taken(Len(W), W) = {}
  BY DEF Taken
<1>2. \A s, b, l : ~IsBlock(<<>>, s, b) /\ ~IsPlace(<<>>, s, b, l)
  BY NoneDomain DEF IsBlock, IsPlace
<1> QED
  BY <1>1, <1>2 DEF Filing

LEMMA FilingGoesOn ==
  ASSUME NEW t, NEW u, NEW W, Len(W) \in Nat, NEW n \in 1..Len(W), Filing(t, n, W),
         Grown(t, u, W[n]), \A s, b : IsBlock(t, s, b) => \E l : IsPlace(t, s, b, l)
  PROVE  Filing(u, n - 1, W)
<1>1. Taken(n - 1, W) = Taken(n, W) \cup {n} /\ \A k \in Taken(n, W) : n < k
  BY DEF Taken
<1>2. \A k \in Taken(n - 1, W) : \E s, b, l : IsPlace(u, s, b, l) /\ Holds(u, s, b, l, W[k])
  <2> TAKE k \in Taken(n - 1, W)
  <2>1. CASE k = n
    BY <2>1 DEF Grown
  <2>2. CASE k \in Taken(n, W)
    <3>1. PICK s, b, l : IsPlace(t, s, b, l) /\ Holds(t, s, b, l, W[k])
      BY <2>2 DEF Filing
    <3>2. IsPlace(u, s, b, l) /\ Holds(u, s, b, l, W[k])
      BY <3>1 DEF Grown
    <3> QED
      BY <3>2
  <2> QED
    BY <1>1, <2>1, <2>2
<1>3. \A s, b, l : IsPlace(u, s, b, l) => \E k \in Taken(n - 1, W) : Holds(u, s, b, l, W[k])
  <2> SUFFICES ASSUME NEW s, NEW b, NEW l, IsPlace(u, s, b, l)
               PROVE  \E k \in Taken(n - 1, W) : Holds(u, s, b, l, W[k])
    OBVIOUS
  <2>1. CASE Holds(u, s, b, l, W[n])
    BY <1>1, <2>1
  <2>2. CASE IsPlace(t, s, b, l)
    <3>1. PICK k \in Taken(n, W) : Holds(t, s, b, l, W[k])
      BY <2>2 DEF Filing
    <3>2. Holds(u, s, b, l, W[k])
      BY <2>2, <3>1 DEF Grown
    <3> QED
      BY <1>1, <3>2
  <2> QED
    BY <2>1, <2>2 DEF Grown
<1>4. \A s, b, c : IsBlock(u, s, b) /\ IsBlock(u, s, c) /\ b < c =>
        \E i, j \in Taken(n - 1, W) : i < j /\ Named(u, s, c, W[i]) /\ Named(u, s, b, W[j])
  <2> SUFFICES ASSUME NEW s, NEW b, NEW c, IsBlock(u, s, b), IsBlock(u, s, c), b < c
               PROVE  \E i, j \in Taken(n - 1, W) :
                        i < j /\ Named(u, s, c, W[i]) /\ Named(u, s, b, W[j])
    OBVIOUS
  <2>1. IsBlock(t, s, b) /\ (IsBlock(t, s, c) \/ Named(u, s, c, W[n]))
    BY DEF Grown
  <2>2. CASE IsBlock(t, s, c)
    <3>1. PICK i \in Taken(n, W), j \in Taken(n, W) :
            i < j /\ Named(t, s, c, W[i]) /\ Named(t, s, b, W[j])
      BY <2>1, <2>2 DEF Filing
    <3>2. Named(u, s, c, W[i]) /\ Named(u, s, b, W[j])
      BY <2>1, <2>2, <3>1 DEF Grown
    <3> QED
      BY <1>1, <3>1, <3>2
  <2>3. CASE Named(u, s, c, W[n])
    <3>1. PICK l : IsPlace(t, s, b, l)
      BY <2>1
    <3>2. PICK j \in Taken(n, W) : Holds(t, s, b, l, W[j])
      BY <3>1 DEF Filing
    <3>3. Named(t, s, b, W[j])
      BY <3>2 DEF Holds
    <3>4. Named(u, s, b, W[j])
      BY <2>1, <3>3 DEF Grown
    <3> QED
      BY <1>1, <2>3, <3>4
  <2> QED
    BY <2>1, <2>2, <2>3
<1>5. \A s, b, l, m : IsPlace(u, s, b, l) /\ IsPlace(u, s, b, m) /\ l < m =>
        \E i, j \in Taken(n - 1, W) : i < j /\ Holds(u, s, b, m, W[i]) /\ Holds(u, s, b, l, W[j])
  <2> SUFFICES ASSUME NEW s, NEW b, NEW l, NEW m, IsPlace(u, s, b, l), IsPlace(u, s, b, m), l < m
               PROVE  \E i, j \in Taken(n - 1, W) :
                        i < j /\ Holds(u, s, b, m, W[i]) /\ Holds(u, s, b, l, W[j])
    OBVIOUS
  <2>1. IsPlace(t, s, b, l) /\ (IsPlace(t, s, b, m) \/ Holds(u, s, b, m, W[n]))
    BY DEF Grown
  <2>2. CASE IsPlace(t, s, b, m)
    <3>1. PICK i \in Taken(n, W), j \in Taken(n, W) :
            i < j /\ Holds(t, s, b, m, W[i]) /\ Holds(t, s, b, l, W[j])
      BY <2>1, <2>2 DEF Filing
    <3>2. Holds(u, s, b, m, W[i]) /\ Holds(u, s, b, l, W[j])
      BY <2>1, <2>2, <3>1 DEF Grown
    <3> QED
      BY <1>1, <3>1, <3>2
  <2>3. CASE Holds(u, s, b, m, W[n])
    <3>1. PICK j \in Taken(n, W) : Holds(t, s, b, l, W[j])
      BY <2>1 DEF Filing
    <3>2. Holds(u, s, b, l, W[j])
      BY <2>1, <3>1 DEF Grown
    <3> QED
      BY <1>1, <2>3, <3>2
  <2> QED
    BY <2>1, <2>2, <2>3
<1> QED
  BY <1>2, <1>3, <1>4, <1>5 DEF Filing

(* The block that is found for a configuration is the last one, unless     *)
(* another name comes between two configurations of one server.            *)
LEMMA FoundLast ==
  ASSUME NEW t, NEW W, IsSeq(W), NEW n \in 1..Len(W), Filing(t, n, W), ~Interleaved(W),
         NEW s, NEW b, NEW c, IsBlock(t, s, b), IsBlock(t, s, c), b < c,
         Named(t, s, b, W[n]), t[s].mServerBlocks[b].mserverName # t[s].mServerBlocks[c].mserverName
  PROVE  FALSE
<1>1. PICK i \in Taken(n, W), j \in Taken(n, W) :
        i < j /\ Named(t, s, c, W[i]) /\ Named(t, s, b, W[j])
  BY DEF Filing
<1>2. n \in DOMAIN W /\ i \in DOMAIN W /\ j \in DOMAIN W /\ n < i
  BY SeqDomain DEF Taken
<1>3. sameServer(W[n], W[j]) /\ sameAddress(W[n], W[i]) /\ ~sameServer(W[n], W[i])
  BY <1>1 DEF Named, sameAddress, sameServer
<1> QED
  BY <1>1, <1>2, <1>3 DEF Interleaved

(* A location of its path is not there yet, unless one is repeated.        *)
LEMMA FoundNew ==
  ASSUME NEW t, NEW W, IsSeq(W), NEW n \in 1..Len(W), Filing(t, n, W), ~Repeated(W),
         NEW s, NEW b, NEW l, IsPlace(t, s, b, l), Named(t, s, b, W[n]),
         t[s].mServerBlocks[b].mlocationPaths[l].mLocationPath = W[n].mLocationPath
  PROVE  FALSE
<1>1. PICK k \in Taken(n, W) : Holds(t, s, b, l, W[k])
  BY DEF Filing
<1>2. n \in DOMAIN W /\ k \in DOMAIN W /\ n < k
  BY SeqDomain DEF Taken
<1>3. sameServer(W[n], W[k])
  BY <1>1 DEF Holds, Named, sameAddress, sameServer
<1>4. LocationPath(W[k]).mLocationPath = W[k].mLocationPath
  BY DEF LocationPath, LocationMembers
<1>5. W[n].mLocationPath = W[k].mLocationPath
  BY <1>1, <1>4 DEF Holds
<1> QED
  BY <1>2, <1>3, <1>5 DEF Repeated
-----------------------------------------------------------------------------
(***************************************************************************)
(* NoneLost: the invariant, for a file that says every configuration once  *)
(* and those of a server together.                                         *)
(***************************************************************************)
Clear(W) == ~Repeated(W) /\ ~Interleaved(W)
Grouping ==
  LET W == WrittenAll(file.servers)
  IN  /\ IsSeq(W) /\ Len(mConfigs) <= Len(W)
      /\ \A k \in 1..Len(mConfigs) : mConfigs[k] = W[k]
      /\ Filing(mServers, Len(mConfigs), W)

(* With none left to take.                                                 *)
AllFiled(W) == IsSeq(W) /\ Filing(mServers, 0, W)

FiledInv ==
  /\ IsSeq(mConfigs)
  /\ Said /\ Clear(WrittenAll(file.servers)) =>
       /\ pc = "setServersValue" => Grouping
       /\ pc \in {"setServers", "running"} => AllFiled(WrittenAll(file.servers))

LEMMA FirstLocation ==
  ASSUME NEW locations, NEW path, IsSeq(locations), getIdxLocationPath(locations, path) # 0
  PROVE  \E l \in DOMAIN locations : locations[l].mLocationPath = path
<1> DEFINE I == {k \in 1..Len(locations) : locations[k].mLocationPath = path}
<1>1. Len(locations) \in Nat /\ DOMAIN locations = 1..Len(locations)
  BY SeqDomain
<1>2. getIdxLocationPath(locations, path) = IF I # {} THEN Min(I) ELSE 0
  BY DEF getIdxLocationPath, SelectInSeq
<1> QED
  BY <1>1, <1>2

LEMMA FrontLast ==
  ASSUME NEW c, IsSeq(c), c # <<>>
  PROVE  /\ Len(c) \in Nat \ {0} /\ Last(c) = c[Len(c)]
         /\ IsSeq(Front(c)) /\ Len(Front(c)) = Len(c) - 1
         /\ \A k \in 1..(Len(c) - 1) : Front(c)[k] = c[k]
<1> DEFINE T == {c[k] : k \in DOMAIN c}
           n == Len(c)
<1>0. n \in Nat /\ n # 0
  BY SeqDomain, EmptySeq DEF IsSeq
<1>1. c \in Seq(T) /\ n \in Nat /\ n # 0
  BY <1>0 DEF IsSeq
<1>2. Front(c) = SubSeq(c, 1, n - 1)
  BY DEF Front
<1>3. SubSeq(c, 1, n - 1) \in Seq(T) /\ Len(SubSeq(c, 1, n - 1)) = n - 1
      /\ \A k \in 1..(n - 1) : SubSeq(c, 1, n - 1)[k] = c[k]
  <2> DEFINE m == n - 1
  <2>1. \A k \in 1..m : c[k] \in T
    BY <1>1, SeqDomain
  <2> HIDE DEF n
  <2>2. m \in Nat /\ m - 1 + 1 = m /\ (1 <= m \/ m = 0)
    BY <1>0
  <2> HIDE DEF T, m
  <2>3. /\ SubSeq(c, 1, m) \in Seq(T) /\ Len(SubSeq(c, 1, m)) = IF 1 <= m THEN m - 1 + 1 ELSE 0
        /\ \A k \in 1..(m - 1 + 1) : SubSeq(c, 1, m)[k] = c[1 + k - 1]
    BY <2>1, <2>2, SubSeqProperties
  <2>4. \A k \in 1..m : 1 + k - 1 = k
    BY <2>2
  <2>5. SubSeq(c, 1, m) \in Seq(T) /\ Len(SubSeq(c, 1, m)) = m
        /\ \A k \in 1..m : SubSeq(c, 1, m)[k] = c[k]
    BY <2>2, <2>3, <2>4
  <2> QED
    BY <2>5 DEF m
<1>4. IsSeq(Front(c))
  BY <1>2, <1>3, SeqIntro
<1> QED
  BY <1>1, <1>2, <1>3, <1>4 DEF Last

LEMMA PlacesThere ==
  ASSUME TablesOK
  PROVE  \A s, b : IsBlock(mServers, s, b) => \E l : IsPlace(mServers, s, b, l)
<1> SUFFICES ASSUME NEW s, NEW b, IsBlock(mServers, s, b)
             PROVE  \E l : IsPlace(mServers, s, b, l)
  OBVIOUS
<1> DEFINE locations == mServers[s].mServerBlocks[b].mlocationPaths
<1>1. IsSeq(locations) /\ locations # <<>>
  BY DEF TablesOK, BlocksOK, IsBlock
<1>2. Len(locations) \in DOMAIN locations
  BY <1>1, LastIn
<1> QED
  BY <1>2 DEF IsPlace

(* One turn of setServersValue files the configuration it takes.           *)
LEMMA GroupingFiles ==
  ASSUME TablesOK, IsSeq(mConfigs), Clear(WrittenAll(file.servers)), Grouping, setServersValue
  PROVE  /\ pc' = "setServersValue" /\ IsSeq(mConfigs') /\ Grouping'
<1> DEFINE W == WrittenAll(file.servers)
           n == Len(mConfigs)
           config == Last(mConfigs)
           s == getIdxServer(config.mPort, config.mHost)
           blocks == mServers[s].mServerBlocks
           b == getIdxServerBlock(blocks, config.mServerName)
           known == getIdxLocationPath(blocks[b].mlocationPaths, config.mLocationPath) # 0
<1>1. /\ n \in Nat \ {0} /\ config = mConfigs[n]
      /\ mConfigs' = Front(mConfigs) /\ IsSeq(mConfigs') /\ Len(mConfigs') = n - 1
      /\ \A k \in 1..(n - 1) : mConfigs'[k] = mConfigs[k]
      /\ pc = "setServersValue" /\ file' = file
  BY FrontLast DEF setServersValue, fileVars, readVars
<1>2. /\ IsSeq(W) /\ Len(W) \in Nat /\ n \in 1..Len(W) /\ config = W[n]
      /\ Filing(mServers, n, W)
      /\ \A k \in 1..n : mConfigs[k] = W[k]
  BY <1>1, SeqDomain DEF Grouping
<1>3. \/ s = 0 /\ mServers' = Append(mServers, Server(config)) /\ pc' = pc
      \/ /\ s # 0 /\ b = 0 /\ pc' = pc
         /\ mServers' = [mServers EXCEPT ![s].mServerBlocks = Append(@, serverBlock(config))]
      \/ /\ s # 0 /\ b # 0 /\ pc' = pc
         /\ mServers' = [mServers EXCEPT ![s].mServerBlocks[Len(blocks)].mlocationPaths =
                                            Append(@, LocationPath(config))]
      \/ s # 0 /\ b # 0 /\ known
  BY DEF setServersValue
<1>4. s # 0 => /\ s \in DOMAIN mServers /\ sameAddress(mServers[s], config)
               /\ BlocksOK(blocks) /\ DOMAIN mServers[s] = ServerMembers
  BY FirstServer DEF TablesOK, sameAddress
<1> HIDE DEF config, W, n, s
<1>5. s # 0 /\ b # 0 => b \in DOMAIN blocks /\ blocks[b].mserverName = config.mServerName
  BY <1>4, FirstServerBlock DEF BlocksOK
<1> HIDE DEF b
<1>6. s # 0 /\ b # 0 => IsBlock(mServers, s, b) /\ Named(mServers, s, b, config)
  BY <1>4, <1>5 DEF IsBlock, Named
<1>7. s # 0 /\ b # 0 => ~known
  <2> SUFFICES ASSUME s # 0, b # 0, known PROVE FALSE
    OBVIOUS
  <2>1. IsSeq(blocks[b].mlocationPaths)
    BY <1>4, <1>5 DEF BlocksOK
  <2>2. PICK l \in DOMAIN blocks[b].mlocationPaths :
          blocks[b].mlocationPaths[l].mLocationPath = config.mLocationPath
    BY <2>1, FirstLocation
  <2>3. IsPlace(mServers, s, b, l)
    BY <1>6 DEF IsPlace
  <2>4. ~Repeated(W)
    BY DEF Clear, W
  <2> QED
    BY <1>2, <1>6, <2>2, <2>3, <2>4, FoundNew
<1>8. s # 0 /\ b # 0 => b = Len(blocks)
  <2> SUFFICES ASSUME s # 0, b # 0, b # Len(blocks) PROVE FALSE
    OBVIOUS
  <2>1. Len(blocks) \in DOMAIN blocks /\ b < Len(blocks)
    BY <1>4, <1>5, SeqDomain, LastIn DEF BlocksOK
  <2>2. IsBlock(mServers, s, Len(blocks)) /\ blocks[b].mserverName # blocks[Len(blocks)].mserverName
    BY <1>4, <1>5, <2>1 DEF IsBlock, BlocksOK
  <2>3. ~Interleaved(W)
    BY DEF Clear, W
  <2> QED
    BY <1>2, <1>6, <2>1, <2>2, <2>3, FoundLast
<1>9. IsSeq(mServers)
  BY DEF TablesOK
<1> HIDE DEF known
<1>10. Grown(mServers, mServers', config) /\ pc' = pc
  <2>1. CASE s = 0 /\ mServers' = Append(mServers, Server(config)) /\ pc' = pc
    BY <1>9, <2>1, GrowServer
  <2>2. CASE /\ s # 0 /\ b = 0 /\ pc' = pc
             /\ mServers' = [mServers EXCEPT ![s].mServerBlocks = Append(@, serverBlock(config))]
    BY <1>4, <1>9, <2>2, GrowBlock
  <2>3. CASE /\ s # 0 /\ b # 0 /\ pc' = pc
             /\ mServers' = [mServers EXCEPT ![s].mServerBlocks[Len(blocks)].mlocationPaths =
                                                Append(@, LocationPath(config))]
    BY <1>4, <1>5, <1>8, <1>9, <2>3, GrowLocation
  <2> QED
    BY <1>3, <1>7, <2>1, <2>2, <2>3
<1>11. Filing(mServers', n - 1, W)
  BY <1>2, <1>10, PlacesThere, FilingGoesOn
<1>12. W' = W
  BY <1>1 DEF W
<1>13. Len(mConfigs') <= Len(W) /\ \A k \in 1..Len(mConfigs') : mConfigs'[k] = W[k]
  BY <1>1, <1>2
<1>14. Grouping'
  BY <1>1, <1>2, <1>11, <1>12, <1>13 DEF Grouping, W
<1> QED
  BY <1>1, <1>10, <1>14

(* A socket changes nothing of where the configurations are.               *)
LEMMA SocketKeepsFiled ==
  ASSUME TablesOK, SetSocket \/ SetNoSocket, NEW W, Filing(mServers, 0, W)
  PROVE  Filing(mServers', 0, W)
<1>1. PICK fd : mServers' = [mServers EXCEPT ![line] = [mServers[line] EXCEPT !.mSocket = fd]]
  BY DEF SetSocket, SetNoSocket
<1>2. /\ DOMAIN mServers' = DOMAIN mServers
      /\ \A k \in DOMAIN mServers :
           /\ mServers'[k].mHost = mServers[k].mHost /\ mServers'[k].mPort = mServers[k].mPort
           /\ mServers'[k].mServerBlocks = mServers[k].mServerBlocks
  BY <1>1 DEF TablesOK, ServerMembers
<1> DEFINE u == mServers'
<1>3. /\ DOMAIN u = DOMAIN mServers
      /\ \A k \in DOMAIN mServers :
           /\ u[k].mHost = mServers[k].mHost /\ u[k].mPort = mServers[k].mPort
           /\ u[k].mServerBlocks = mServers[k].mServerBlocks
  BY <1>2
<1> HIDE DEF u
<1>4. /\ \A s, b : IsBlock(mServers, s, b) <=> IsBlock(u, s, b)
      /\ \A s, b, l : IsPlace(mServers, s, b, l) <=> IsPlace(u, s, b, l)
  BY <1>3 DEF IsPlace, IsBlock
<1>5. \A s, b, d : IsBlock(mServers, s, b) => (Named(u, s, b, d) <=> Named(mServers, s, b, d))
  BY <1>3 DEF IsBlock, Named, sameAddress
<1>6. \A s, b, l, d : IsPlace(mServers, s, b, l) =>
        (Holds(u, s, b, l, d) <=> Holds(mServers, s, b, l, d))
  BY <1>3, <1>5 DEF IsPlace, IsBlock, Holds
<1>7. Filing(u, 0, W)
  BY <1>4, <1>5, <1>6 DEF Filing
<1> QED
  BY <1>7 DEF u

(* The reading of the file makes a sequence of configurations.             *)
LEMMA ConfigsSeq ==
  ASSUME IsSeq(mConfigs), Next
  PROVE  IsSeq(mConfigs')
<1>1. ASSUME NEW reading, Keep(reading) PROVE IsSeq(mConfigs')
  <2>1. mConfigs' = mConfigs \/ mConfigs' = Append(mConfigs, reading.config)
    BY <1>1 DEF Keep
  <2> QED
    BY <2>1, AppendSeq
<1>2. CASE ParseServer
  BY <1>1, <1>2 DEF ParseServer
<1>3. CASE ParseLocation
  BY <1>1, <1>3 DEF ParseLocation
<1>4. CASE main \/ ReadConfigFile \/ NextLine \/ ReadEnd \/ ReadFails
  BY <1>4 DEF main, ReadConfigFile, NextLine, ReadEnd, ReadFails
<1>5. CASE Step1 \/ Step2Server \/ Step2 \/ ParseEnd
  BY <1>5 DEF Step1, Step2Server, Step2, ParseEnd
<1>6. ASSUME NEW n \in 1..BUFFER_SIZE_GNL, ReadPiece(n) PROVE IsSeq(mConfigs')
  BY <1>6 DEF ReadPiece
<1> QED
  BY <1>2, <1>3, <1>4, <1>5, <1>6 DEF Next, Read, Parse

LEMMA StepFiled ==
  FiledInv /\ OverlapInv /\ IInv /\ ReadAsWritten /\ [Start]_vars => FiledInv'
<1> SUFFICES ASSUME FiledInv, OverlapInv, IInv, ReadAsWritten, [Start]_vars PROVE FiledInv'
  OBVIOUS
<1> DEFINE W == WrittenAll(file.servers)
<1>1. IsSeq(mConfigs) /\ TablesOK
  BY DEF FiledInv, IInv
<1>2. CASE Next /\ UNCHANGED mServers
  <2>1. pc' \in BeforeTables \cup {"exited", "crashed"}
    BY <1>2, ReadingGoesOn
  <2> QED
    BY <1>1, <1>2, <2>1, ConfigsSeq DEF FiledInv, BeforeTables, ReadingFile
<1>3. CASE CheckOverlap
  <2>1. /\ pc = "configured" /\ pc' \in {"exited", "setServersValue"}
        /\ file' = file /\ mConfigs' = mConfigs /\ mServers' = mServers /\ mServers = <<>>
    BY <1>3 DEF CheckOverlap, OverlapInv, BeforeTables, ReadingFile, fileVars, readVars
  <2>2. ASSUME Said PROVE Grouping'
    <3>1. mConfigs = W
      BY <2>1, <2>2 DEF Said, ReadAsWritten
    <3>2. Filing(<<>>, Len(W), W) /\ Len(W) \in Nat
      BY <1>1, <3>1, SeqDomain, FilingBegins
    <3>3. W' = W
      BY <2>1
    <3> HIDE DEF W
    <3>4. Grouping' = /\ IsSeq(W) /\ Len(W) <= Len(W)
                      /\ \A k \in 1..Len(W) : W[k] = W[k]
                      /\ Filing(<<>>, Len(W), W)
      BY <2>1, <3>1, <3>3 DEF Grouping, W
    <3> QED
      BY <1>1, <3>1, <3>2, <3>4
  <2>3. Said' = Said
    BY <2>1 DEF Said
  <2> QED
    BY <1>1, <2>1, <2>2, <2>3 DEF FiledInv
<1>4. CASE setServersValue
  <2>1. /\ pc = "setServersValue" /\ file' = file /\ mConfigs # <<>>
        /\ mConfigs' = Front(mConfigs)
    BY <1>4 DEF setServersValue, fileVars, readVars
  <2>2. IsSeq(mConfigs')
    BY <1>1, <2>1, FrontLast
  <2>3. ASSUME Said, Clear(W) PROVE pc' = "setServersValue" /\ Grouping'
    BY <1>1, <1>4, <2>1, <2>3, GroupingFiles DEF FiledInv
  <2>4. Said' = Said /\ W' = W
    BY <2>1 DEF Said
  <2> QED
    BY <2>2, <2>3, <2>4 DEF FiledInv
<1>5. CASE ServersSet
  <2>1. /\ pc = "setServersValue" /\ pc' = "setServers" /\ file' = file /\ mConfigs = <<>>
        /\ mConfigs' = mConfigs /\ mServers' = mServers
    BY <1>5 DEF ServersSet, fileVars, readVars
  <2>2. ASSUME Said, Clear(W) PROVE AllFiled(W)
    <3>1. Len(mConfigs) = 0
      BY <2>1, EmptySeq
    <3> QED
      BY <2>1, <2>2, <3>1 DEF FiledInv, Grouping, AllFiled
  <2>3. Said' = Said /\ W' = W
    BY <2>1 DEF Said
  <2> QED
    BY <1>1, <2>1, <2>2, <2>3 DEF FiledInv, AllFiled
<1>6. CASE SetSocket \/ SetNoSocket
  <2>1. pc = "setServers" /\ pc' = pc /\ file' = file /\ mConfigs' = mConfigs
    BY <1>6 DEF SetSocket, SetNoSocket, fileVars, readVars
  <2>2. ASSUME Said, Clear(W) PROVE IsSeq(W) /\ Filing(mServers', 0, W)
    <3>1. IsSeq(W) /\ Filing(mServers, 0, W)
      BY <2>1, <2>2 DEF FiledInv, AllFiled
    <3> HIDE DEF W
    <3> QED
      BY <1>1, <1>6, <3>1, SocketKeepsFiled
  <2>3. Said' = Said /\ W' = W
    BY <2>1 DEF Said
  <2> QED
    BY <1>1, <2>1, <2>2, <2>3 DEF FiledInv, AllFiled
<1>7. CASE SetSocketFails
  BY <1>1, <1>7 DEF SetSocketFails, FiledInv
<1>8. CASE RunServers
  <2>1. /\ pc = "setServers" /\ pc' \in {"running", "crashed"} /\ file' = file
        /\ mConfigs' = mConfigs /\ mServers' = mServers
    BY <1>8 DEF RunServers, fileVars, readVars
  <2> QED
    BY <2>1 DEF FiledInv, AllFiled, Said
<1>9. CASE Over \/ UNCHANGED vars
  BY <1>9 DEF Over, vars, configVars, readVars, FiledInv, AllFiled, Said, Grouping
<1> QED
  BY <1>2, <1>3, <1>4, <1>5, <1>6, <1>7, <1>8, <1>9 DEF Start

(* Every configuration of the file is in the tables of the running server  *)
(* under its own address and name, however many there are, when none is    *)
(* repeated and those of a server stand together.                          *)
THEOREM NoneLostCorrect == StartSpec /\ []ReadAsWritten => []NoneLost
<1>1. StartInit => OverlapInv /\ FiledInv
  BY NoneDomain DEF StartInit, Init, OverlapInv, FiledInv
<1>2. FiledInv => NoneLost
  <2> SUFFICES ASSUME FiledInv, pc = "running", Said, Clear(WrittenAll(file.servers)),
                      NEW k \in DOMAIN WrittenAll(file.servers)
               PROVE  Filed(WrittenAll(file.servers)[k])
    BY DEF NoneLost, Said, Clear
  <2> DEFINE W == WrittenAll(file.servers)
  <2>1. AllFiled(W) /\ k \in DOMAIN W
    BY DEF FiledInv
  <2> HIDE DEF W
  <2>2. k \in Taken(0, W)
    BY <2>1, SeqDomain DEF Taken, AllFiled
  <2>3. PICK s, b, l : IsPlace(mServers, s, b, l) /\ Holds(mServers, s, b, l, W[k])
    BY <2>1, <2>2 DEF AllFiled, Filing
  <2>4. Filed(W[k])
    BY <2>3 DEF Filed, IsPlace, IsBlock, Holds, Named
  <2> QED
    BY <2>4 DEF W
<1> QED
  BY <1>1, <1>2, StartInvariant, StepOverlap, StepFiled, PTL DEF StartSpec
-----------------------------------------------------------------------------
(***************************************************************************)
(* ServedAsWritten: the lookups of a running server.  The configurations   *)
(* w[i] of the ith server of the file make up one block, which stands the  *)
(* further behind the earlier i is, and so do the locations in it.         *)
(***************************************************************************)
LEMMA MapSeq ==
  ASSUME NEW s, IsSeq(s), NEW t, t = [k \in DOMAIN s |-> t[k]]
  PROVE  IsSeq(t) /\ DOMAIN t = DOMAIN s
<1> DEFINE T == {t[k] : k \in DOMAIN t}
<1>1. Len(s) \in Nat /\ DOMAIN t = 1..Len(s) /\ DOMAIN t = DOMAIN s
  BY SeqDomain
<1>2. t \in [1..Len(s) -> T]
  BY <1>1
<1>3. t \in Seq(T)
  BY <1>1, <1>2, SeqDef
<1> QED
  BY <1>1, <1>3 DEF IsSeq

LEMMA PathNotSet ==
  ASSUME NEW lines
  PROVE  Effect(ConfigFile, lines, ServerDirectives).mLocationPath = <<>>
<1> DEFINE setting == {k \in DOMAIN lines : /\ lines[k][1][1] \in ServerDirectives
                                            /\ Member[lines[k][1][1]] = "mLocationPath"}
<1>1. \A d \in ServerDirectives : Member[d] # "mLocationPath"
  BY DEF ServerDirectives, Member
<1>2. setting = {}
  BY <1>1
<1>3. "mLocationPath" \in DOMAIN ConfigFile /\ ConfigFile.mLocationPath = <<>>
  BY DEF ConfigFile
<1> QED
  BY <1>2, <1>3 DEF Effect

LEMMA WrittenSeq ==
  ASSUME NEW block, IsSeq(block)
  PROVE  /\ IsSeq(Written(block)) /\ 1 \in DOMAIN Written(block)
         /\ Written(block)[1].mLocationPath = <<>>
<1> DEFINE picked == [k \in DOMAIN block |-> IF isLocation(block[k]) THEN <<block[k]>> ELSE <<>>]
           own == FlattenSeq([k \in DOMAIN block |->
                    IF isLocation(block[k]) THEN <<>> ELSE <<block[k].words>>])
           locs == FlattenSeq(picked)
           base == Effect(ConfigFile, own, ServerDirectives)
           moved == [k \in DOMAIN locs |-> Effect([base EXCEPT !.mLocationPath = Path(locs[k].path)],
                                                  locs[k].body, LocationDirectives)]
<1>1. Written(block) = <<base>> \o moved
  BY DEF Written
<1>2. base.mLocationPath = <<>>
  BY PathNotSet
<1>3. IsSeq(picked) /\ \A k \in DOMAIN picked : IsSeq(picked[k])
  <2>1. picked = [k \in DOMAIN block |-> picked[k]]
    OBVIOUS
  <2>2. \A k \in DOMAIN picked : picked[k] = <<block[k]>> \/ picked[k] = <<>>
    OBVIOUS
  <2>3. \A x : IsSeq(<<x>>)
    BY OneSeq
  <2> HIDE DEF picked
  <2>4. \A k \in DOMAIN picked : IsSeq(picked[k])
    BY <2>2, <2>3, NoneDomain
  <2>5. IsSeq(picked)
    BY <2>1, MapSeq
  <2> QED
    BY <2>4, <2>5
<1>4. IsSeq(locs)
  <2> HIDE DEF picked
  <2> QED
    BY <1>3, FlattenPlaces DEF IsLayout
<1>5. moved = [k \in DOMAIN locs |-> moved[k]]
  OBVIOUS
<1> HIDE DEF base, locs, moved
<1>6. IsSeq(moved)
  BY <1>4, <1>5, MapSeq
<1> DEFINE U == {base} \cup {moved[k] : k \in DOMAIN moved}
<1>7. moved \in Seq(U) /\ <<base>> \in Seq(U) /\ Len(<<base>>) = 1 /\ <<base>>[1] = base
  <2>1. moved \in Seq({moved[k] : k \in DOMAIN moved})
    BY <1>6 DEF IsSeq
  <2>2. {moved[k] : k \in DOMAIN moved} \subseteq U
    OBVIOUS
  <2>3. base \in U
    OBVIOUS
  <2> HIDE DEF U
  <2> QED
    BY <2>1, <2>2, <2>3, SeqMonotonic
<1> HIDE DEF U
<1> DEFINE all == <<base>> \o moved
<1>8. Len(moved) \in Nat
  BY <1>6, SeqDomain
<1>9. all \in Seq(U) /\ Len(all) = 1 + Len(moved) /\ all[1] = base
  BY <1>7, <1>8, ConcatProperties
<1> HIDE DEF all
<1>10. IsSeq(all) /\ 1 \in DOMAIN all
  BY <1>8, <1>9, SeqIntro, SeqDomain
<1> QED
  BY <1>1, <1>2, <1>9, <1>10 DEF all

WrittenOf(blocks) == [k \in DOMAIN blocks |-> Written(blocks[k])]

(* What the file says: server by server, no server twice, no location of   *)
(* a server twice, each one of them under the name of its server.          *)
SaidPlainly(w, at) ==
  /\ IsLayout(at, w) /\ IsSeq(w)
  /\ \A i \in DOMAIN w : /\ IsSeq(w[i]) /\ 1 \in DOMAIN w[i] /\ w[i][1].mLocationPath = <<>>
                         /\ \A l, n \in DOMAIN w[i] :
                              /\ sameServer(w[i][l], w[i][n])
                              /\ l # n => w[i][l].mLocationPath # w[i][n].mLocationPath
  /\ \A i, j \in DOMAIN w : i # j => ~sameServer(w[i][1], w[j][1])

LEMMA SaysPlainly ==
  ASSUME NEW blocks, IsSeq(blocks), \A k \in DOMAIN blocks : IsSeq(blocks[k]),
         Plain(blocks), ~Overlapping(blocks)
  PROVE  \E at : SaidPlainly(WrittenOf(blocks), at)
<1> DEFINE w == WrittenOf(blocks)
           F == FlattenSeq(w)
<1>1. DOMAIN w = DOMAIN blocks /\ \A k \in DOMAIN blocks : w[k] = Written(blocks[k])
  BY DEF WrittenOf
<1>2. w = [k \in DOMAIN blocks |-> w[k]] /\ F = WrittenAll(blocks)
  BY DEF WrittenOf, WrittenAll
<1>3. \A i \in DOMAIN w : IsSeq(w[i]) /\ 1 \in DOMAIN w[i] /\ w[i][1].mLocationPath = <<>>
  BY <1>1, WrittenSeq
<1>4. \A i \in DOMAIN w : \A l, n \in DOMAIN w[i] :
        /\ sameServer(w[i][l], w[i][n])
        /\ l # n => w[i][l].mLocationPath # w[i][n].mLocationPath
  BY <1>1 DEF Plain
<1>5. IsSeq(w)
  <2> HIDE DEF w
  <2> QED
    BY <1>2, MapSeq
<1> HIDE DEF w
<1>6. PICK at : IsLayout(at, w)
  BY <1>3, <1>5, FlattenPlaces
<1>7. ASSUME NEW i \in DOMAIN w, NEW j \in DOMAIN w, i < j PROVE ~sameServer(w[i][1], w[j][1])
  <2> SUFFICES ASSUME sameServer(w[i][1], w[j][1]) PROVE Overlapping(blocks)
    OBVIOUS
  <2> DEFINE p == at[i][1]
             q == at[j][1]
  <2>1. p \in DOMAIN F /\ q \in DOMAIN F /\ p < q /\ F[p] = w[i][1] /\ F[q] = w[j][1]
    BY <1>3, <1>6, <1>7 DEF IsLayout
  <2>2. F[p].mLocationPath = <<>> /\ F[q].mLocationPath = <<>> /\ sameServer(F[p], F[q])
    BY <1>3, <2>1
  <2> HIDE DEF p, q, F
  <2> QED
    BY <1>2, <2>1, <2>2 DEF Overlapping
<1>8. ASSUME NEW i \in DOMAIN w, NEW j \in DOMAIN w, i # j PROVE ~sameServer(w[i][1], w[j][1])
  <2>1. i < j \/ j < i
    BY <1>5, <1>8, SeqDomain
  <2> QED
    BY <1>7, <2>1 DEF sameServer
<1>9. SaidPlainly(w, at)
  BY <1>3, <1>4, <1>5, <1>6, <1>8 DEF SaidPlainly
<1> QED
  BY <1>9 DEF w

LEMMA OneServer ==
  ASSUME NEW w, NEW at, SaidPlainly(w, at), NEW i \in DOMAIN w, NEW j \in DOMAIN w,
         NEW n \in DOMAIN w[i], NEW m \in DOMAIN w[j], sameServer(w[i][n], w[j][m])
  PROVE  i = j
<1>1. sameServer(w[i][1], w[i][n]) /\ sameServer(w[j][m], w[j][1])
  BY DEF SaidPlainly
<1>2. sameServer(w[i][1], w[j][1])
  BY <1>1 DEF sameServer
<1> QED
  BY <1>2 DEF SaidPlainly

(* Such a file repeats nothing and comes back to nothing.                  *)
LEMMA PlainlyClear ==
  ASSUME NEW w, NEW at, SaidPlainly(w, at)
  PROVE  Clear(FlattenSeq(w))
<1> DEFINE F == FlattenSeq(w)
<1>1. \A p \in DOMAIN F : \E i \in DOMAIN w : \E n \in DOMAIN w[i] : p = at[i][n] /\ F[p] = w[i][n]
  BY DEF SaidPlainly, IsLayout
<1>2. \A i, j \in DOMAIN w : \A n \in DOMAIN w[i], m \in DOMAIN w[j] :
        at[i][n] < at[j][m] <=> i < j \/ (i = j /\ n < m)
  BY DEF SaidPlainly, IsLayout
<1>3. /\ \A i \in DOMAIN w : i \in Nat /\ \A n \in DOMAIN w[i] : n \in Nat
      /\ \A i \in DOMAIN w : \A l, n \in DOMAIN w[i] :
           /\ sameServer(w[i][l], w[i][n])
           /\ l # n => w[i][l].mLocationPath # w[i][n].mLocationPath
  BY SeqDomain DEF SaidPlainly
<1> HIDE DEF F
<1>4. ~Repeated(F)
  <2> SUFFICES ASSUME NEW p \in DOMAIN F, NEW q \in DOMAIN F, p < q, sameServer(F[p], F[q]),
                      F[p].mLocationPath = F[q].mLocationPath
               PROVE  FALSE
    BY DEF Repeated
  <2>1. PICK i \in DOMAIN w : \E n \in DOMAIN w[i] : p = at[i][n] /\ F[p] = w[i][n]
    BY <1>1
  <2>2. PICK n \in DOMAIN w[i] : p = at[i][n] /\ F[p] = w[i][n]
    BY <2>1
  <2>3. PICK j \in DOMAIN w : \E m \in DOMAIN w[j] : q = at[j][m] /\ F[q] = w[j][m]
    BY <1>1
  <2>4. PICK m \in DOMAIN w[j] : q = at[j][m] /\ F[q] = w[j][m]
    BY <2>3
  <2>5. i = j
    BY <2>2, <2>4, OneServer
  <2>6. n # m
    BY <1>2, <1>3, <2>2, <2>4, <2>5
  <2> QED
    BY <1>3, <2>2, <2>4, <2>5, <2>6
<1>5. ~Interleaved(F)
  <2> SUFFICES ASSUME NEW p \in DOMAIN F, NEW q \in DOMAIN F, NEW r \in DOMAIN F, p < q, q < r,
                      sameServer(F[p], F[r]), ~sameServer(F[p], F[q])
               PROVE  FALSE
    BY DEF Interleaved
  <2>1. PICK i \in DOMAIN w : \E n \in DOMAIN w[i] : p = at[i][n] /\ F[p] = w[i][n]
    BY <1>1
  <2>2. PICK n \in DOMAIN w[i] : p = at[i][n] /\ F[p] = w[i][n]
    BY <2>1
  <2>3. PICK j \in DOMAIN w : \E m \in DOMAIN w[j] : q = at[j][m] /\ F[q] = w[j][m]
    BY <1>1
  <2>4. PICK m \in DOMAIN w[j] : q = at[j][m] /\ F[q] = w[j][m]
    BY <2>3
  <2>5. PICK k \in DOMAIN w : \E l \in DOMAIN w[k] : r = at[k][l] /\ F[r] = w[k][l]
    BY <1>1
  <2>6. PICK l \in DOMAIN w[k] : r = at[k][l] /\ F[r] = w[k][l]
    BY <2>5
  <2>7. i = k
    BY <2>2, <2>6, OneServer
  <2>8. i = j
    <3>1. (i < j \/ (i = j /\ n < m)) /\ (j < k \/ (j = k /\ m < l))
      BY <1>2, <2>2, <2>4, <2>6
    <3> QED
      BY <1>3, <2>7, <3>1
  <2> QED
    BY <1>3, <2>2, <2>4, <2>8
<1> QED
  BY <1>4, <1>5 DEF Clear, F

(* The block of server i on an address and its locations.                  *)
OfServer(w, s, b, i) == i \in DOMAIN w /\ IsBlock(mServers, s, b) /\ Named(mServers, s, b, w[i][1])

LEMMA TakenAll ==
  ASSUME NEW w, NEW at, SaidPlainly(w, at), NEW p
  PROVE  /\ p \in Taken(0, FlattenSeq(w)) <=> p \in DOMAIN FlattenSeq(w)
         /\ p \in DOMAIN FlattenSeq(w) =>
              \E i \in DOMAIN w : \E n \in DOMAIN w[i] : p = at[i][n] /\ FlattenSeq(w)[p] = w[i][n]
<1>1. IsSeq(FlattenSeq(w))
  BY DEF SaidPlainly, IsLayout
<1>2. DOMAIN FlattenSeq(w) = 1..Len(FlattenSeq(w)) /\ Len(FlattenSeq(w)) \in Nat
  BY <1>1, SeqDomain
<1>3. p \in DOMAIN FlattenSeq(w) =>
              \E i \in DOMAIN w : \E n \in DOMAIN w[i] : p = at[i][n] /\ FlattenSeq(w)[p] = w[i][n]
  BY DEF SaidPlainly, IsLayout
<1> QED
  BY <1>2, <1>3 DEF Taken

LEMMA PlaceOf ==
  ASSUME NEW w, NEW at, SaidPlainly(w, at), AllFiled(FlattenSeq(w)),
         NEW s, NEW b, NEW l, IsPlace(mServers, s, b, l)
  PROVE  \E i \in DOMAIN w : \E n \in DOMAIN w[i] : Holds(mServers, s, b, l, w[i][n])
<1>1. PICK p \in Taken(0, FlattenSeq(w)) : Holds(mServers, s, b, l, FlattenSeq(w)[p])
  BY DEF AllFiled, Filing
<1> QED
  BY <1>1, TakenAll

LEMMA NamedSame ==
  ASSUME NEW w, NEW at, SaidPlainly(w, at), NEW s, NEW b,
         NEW i \in DOMAIN w, NEW n \in DOMAIN w[i], NEW m \in DOMAIN w[i]
  PROVE  Named(mServers, s, b, w[i][n]) <=> Named(mServers, s, b, w[i][m])
<1>1. sameServer(w[i][n], w[i][m])
  BY DEF SaidPlainly
<1> QED
  BY <1>1 DEF sameServer, Named, sameAddress

LEMMA NamedOne ==
  ASSUME NEW w, NEW at, SaidPlainly(w, at), NEW s, NEW b,
         NEW i \in DOMAIN w, NEW n \in DOMAIN w[i], NEW j \in DOMAIN w, NEW m \in DOMAIN w[j],
         Named(mServers, s, b, w[i][n]), Named(mServers, s, b, w[j][m])
  PROVE  i = j
<1>1. sameServer(w[i][n], w[j][m])
  BY DEF sameServer, Named, sameAddress
<1> QED
  BY <1>1, OneServer

LEMMA BlockOf ==
  ASSUME NEW w, NEW at, SaidPlainly(w, at), AllFiled(FlattenSeq(w)), TablesOK,
         NEW s, NEW b, IsBlock(mServers, s, b)
  PROVE  \E i : OfServer(w, s, b, i)
<1>1. PICK l : IsPlace(mServers, s, b, l)
  BY PlacesThere
<1>2. PICK i \in DOMAIN w : \E n \in DOMAIN w[i] : Holds(mServers, s, b, l, w[i][n])
  BY <1>1, PlaceOf
<1>3. PICK n \in DOMAIN w[i] : Holds(mServers, s, b, l, w[i][n])
  BY <1>2
<1>4. 1 \in DOMAIN w[i]
  BY DEF SaidPlainly
<1>5. Named(mServers, s, b, w[i][1])
  BY <1>3, <1>4, NamedSame DEF Holds
<1> QED
  BY <1>5 DEF OfServer

(* All its locations are in it, in the reverse of their order.             *)
LEMMA LocationsOf ==
  ASSUME NEW w, NEW at, SaidPlainly(w, at), AllFiled(FlattenSeq(w)), TablesOK,
         NEW s, NEW b, NEW i, OfServer(w, s, b, i)
  PROVE  /\ \A n \in DOMAIN w[i] : \E l : /\ IsPlace(mServers, s, b, l)
                                          /\ Holds(mServers, s, b, l, w[i][n])
         /\ \A l : IsPlace(mServers, s, b, l) =>
              \E n \in DOMAIN w[i] : Holds(mServers, s, b, l, w[i][n])
         /\ \A l, m : IsPlace(mServers, s, b, l) /\ IsPlace(mServers, s, b, m) /\ l < m =>
              \E n, o \in DOMAIN w[i] : /\ n < o /\ Holds(mServers, s, b, m, w[i][n])
                                        /\ Holds(mServers, s, b, l, w[i][o])
<1> DEFINE F == FlattenSeq(w)
<1>1. i \in DOMAIN w /\ 1 \in DOMAIN w[i] /\ Named(mServers, s, b, w[i][1]) /\ IsBlock(mServers, s, b)
  BY DEF OfServer, SaidPlainly
<1>2. ASSUME NEW n \in DOMAIN w[i]
      PROVE  \E l : IsPlace(mServers, s, b, l) /\ Holds(mServers, s, b, l, w[i][n])
  <2>1. at[i][n] \in DOMAIN F /\ F[at[i][n]] = w[i][n]
    BY <1>1 DEF SaidPlainly, IsLayout
  <2>2. at[i][n] \in Taken(0, F)
    BY <2>1, TakenAll
  <2>3. PICK t, c, l : IsPlace(mServers, t, c, l) /\ Holds(mServers, t, c, l, w[i][n])
    BY <2>1, <2>2 DEF AllFiled, Filing
  <2>4. Named(mServers, t, c, w[i][n]) /\ Named(mServers, s, b, w[i][n])
    BY <1>1, <2>3, NamedSame DEF Holds
  <2>5. t = s
    BY <1>1, <2>3, <2>4 DEF TablesOK, Apart, Named, sameAddress, IsPlace, IsBlock
  <2>6. c = b
    BY <1>1, <2>3, <2>4, <2>5 DEF TablesOK, BlocksOK, Named, IsPlace, IsBlock
  <2> QED
    BY <2>3, <2>5, <2>6
<1>3. ASSUME NEW l, NEW j \in DOMAIN w, NEW n \in DOMAIN w[j], Holds(mServers, s, b, l, w[j][n])
      PROVE  j = i
  BY <1>1, <1>3, NamedOne DEF Holds
<1>4. ASSUME NEW l, IsPlace(mServers, s, b, l)
      PROVE  \E n \in DOMAIN w[i] : Holds(mServers, s, b, l, w[i][n])
  BY <1>3, <1>4, PlaceOf
<1>5. ASSUME NEW l, NEW m, IsPlace(mServers, s, b, l), IsPlace(mServers, s, b, m), l < m
      PROVE  \E n, o \in DOMAIN w[i] : /\ n < o /\ Holds(mServers, s, b, m, w[i][n])
                                       /\ Holds(mServers, s, b, l, w[i][o])
  <2>1. PICK p \in Taken(0, F), q \in Taken(0, F) :
          p < q /\ Holds(mServers, s, b, m, F[p]) /\ Holds(mServers, s, b, l, F[q])
    BY <1>5 DEF AllFiled, Filing
  <2>2. PICK j \in DOMAIN w : \E n \in DOMAIN w[j] : p = at[j][n] /\ F[p] = w[j][n]
    BY TakenAll
  <2>3. PICK n \in DOMAIN w[j] : p = at[j][n] /\ F[p] = w[j][n]
    BY <2>2
  <2>4. PICK k \in DOMAIN w : \E o \in DOMAIN w[k] : q = at[k][o] /\ F[q] = w[k][o]
    BY TakenAll
  <2>5. PICK o \in DOMAIN w[k] : q = at[k][o] /\ F[q] = w[k][o]
    BY <2>4
  <2>6. j = i /\ k = i
    BY <1>3, <2>1, <2>3, <2>5
  <2>7. n < o
    <3>1. at[i][n] < at[i][o] => i < i \/ n < o
      BY <1>1, <2>3, <2>5, <2>6 DEF SaidPlainly, IsLayout
    <3>2. i \in Nat
      BY <1>1, SeqDomain DEF SaidPlainly
    <3> QED
      BY <2>1, <2>3, <2>5, <2>6, <3>1, <3>2
  <2> QED
    BY <2>1, <2>3, <2>5, <2>6, <2>7
<1> QED
  BY <1>2, <1>4, <1>5

(***************************************************************************)
(* The lookups.                                                            *)
(***************************************************************************)
LEMMA FirstPrefix ==
  ASSUME NEW locations, NEW path, IsSeq(locations),
         NEW l \in DOMAIN locations, IsPrefix(locations[l].mLocationPath, path)
  PROVE  \E k \in DOMAIN locations :
           /\ returnIteratorLocationPath(locations, path) = locations[k]
           /\ IsPrefix(locations[k].mLocationPath, path) /\ k <= l
<1> DEFINE I == {k \in 1..Len(locations) : IsPrefix(locations[k].mLocationPath, path)}
           k == SelectInSeq(locations, LAMBDA m : IsPrefix(m.mLocationPath, path))
<1>1. Len(locations) \in Nat /\ DOMAIN locations = 1..Len(locations)
  BY SeqDomain
<1>2. k = IF I # {} THEN Min(I) ELSE 0
  BY DEF SelectInSeq
<1>3. l \in I /\ I \in SUBSET Nat
  BY <1>1
<1>4. Min(I) \in I /\ Min(I) <= l
  BY <1>3, MinIn
<1>5. k \in I /\ k <= l /\ k # 0
  BY <1>1, <1>2, <1>3, <1>4
<1>6. returnIteratorLocationPath(locations, path) = IF k # 0 THEN locations[k] ELSE Last(locations)
  BY DEF returnIteratorLocationPath
<1> HIDE DEF k
<1> QED
  BY <1>1, <1>5, <1>6

LEMMA BlockNamed ==
  ASSUME NEW blocks, NEW name, BlocksOK(blocks)
  PROVE  \E b \in DOMAIN blocks :
           /\ returnIteratorServerBlock(blocks, name) = blocks[b]
           /\ \/ blocks[b].mserverName = name
              \/ b = Len(blocks) /\ \A c \in DOMAIN blocks : blocks[c].mserverName # name
<1> DEFINE k == getIdxServerBlock(blocks, name)
<1>1. IsSeq(blocks) /\ Len(blocks) \in DOMAIN blocks /\ 0 \notin DOMAIN blocks
  BY LastIn, SeqDomain DEF BlocksOK
<1>2. \/ k = 0 /\ \A c \in DOMAIN blocks : blocks[c].mserverName # name
      \/ k \in DOMAIN blocks /\ blocks[k].mserverName = name
  BY <1>1, FirstServerBlock
<1>3. returnIteratorServerBlock(blocks, name) = IF k # 0 THEN blocks[k] ELSE blocks[Len(blocks)]
  BY DEF returnIteratorServerBlock, Last
<1> HIDE DEF k
<1> QED
  BY <1>1, <1>2, <1>3

LEMMA MaxThere ==
  ASSUME NEW n \in Nat, NEW S \in SUBSET (1..n), S # {}
  PROVE  Max(S) \in S /\ \A x \in S : x <= Max(S)
<1> DEFINE above == {n - x : x \in S}
<1>1. above \in SUBSET Nat /\ above # {}
  <2>1. \A x \in S : n - x \in Nat
    OBVIOUS
  <2>2. PICK x : x \in S
    OBVIOUS
  <2>3. n - x \in above
    BY <2>2
  <2> QED
    BY <2>1, <2>3
<1>2. PICK d \in above : \A e \in above : d <= e
  BY <1>1, LeastNumber
<1>3. PICK m \in S : d = n - m
  BY <1>2
<1>4. \A x \in S : m >= x
  BY <1>2, <1>3
<1>5. \E m2 \in S : \A x \in S : m2 >= x
  BY <1>4
<1>6. Max(S) \in S /\ \A x \in S : Max(S) >= x
  BY <1>5 DEF Max
<1> QED
  BY <1>6

LEMMA RootPrefix ==
  ASSUME NEW path, IsSeq(path)
  PROVE  IsPrefix(<<>>, path)
<1>1. Len(<<>>) = 0 /\ Len(path) \in Nat
  BY SeqDomain
<1>2. SubSeq(<<>>, 1, 0) = <<>> /\ SubSeq(path, 1, 0) = <<>>
  <2> DEFINE T == {path[k] : k \in DOMAIN path}
  <2>1. ASSUME NEW s \in Seq(T) PROVE SubSeq(s, 1, 0) \in Seq(T) /\ Len(SubSeq(s, 1, 0)) = 0
    <3>1. \A i \in 1..0 : s[i] \in T
      OBVIOUS
    <3> HIDE DEF T
    <3> QED
      BY <3>1, SubSeqProperties
  <2>2. path \in Seq(T) /\ <<>> \in Seq(T)
    BY EmptySeq DEF IsSeq
  <2> HIDE DEF T
  <2> QED
    BY <2>1, <2>2, EmptySeq
<1> QED
  BY <1>1, <1>2 DEF IsPrefix

(* The location of a server that the file has for a path: the last one     *)
(* that the path is in.                                                    *)
Deepest(w, i, path) ==
  LocationPath(w[i][Max({n \in DOMAIN w[i] : IsPrefix(w[i][n].mLocationPath, path)})])

(* In the block of a server: the first location there is the last one of   *)
(* the file.                                                               *)
LEMMA LocationFound ==
  ASSUME NEW w, NEW at, SaidPlainly(w, at), AllFiled(FlattenSeq(w)), TablesOK,
         NEW s, NEW b, NEW i, OfServer(w, s, b, i), NEW path, IsSeq(path)
  PROVE  returnIteratorLocationPath(mServers[s].mServerBlocks[b].mlocationPaths, path) =
           Deepest(w, i, path)
<1> DEFINE S == {n \in DOMAIN w[i] : IsPrefix(w[i][n].mLocationPath, path)}
           locations == mServers[s].mServerBlocks[b].mlocationPaths
           Loc(l) == locations[l]
<1>1. /\ i \in DOMAIN w /\ IsBlock(mServers, s, b)
      /\ IsSeq(w[i]) /\ 1 \in DOMAIN w[i] /\ w[i][1].mLocationPath = <<>>
      /\ \A n, o \in DOMAIN w[i] : n # o => w[i][n].mLocationPath # w[i][o].mLocationPath
  BY DEF OfServer, SaidPlainly
<1>2. IsSeq(locations)
  BY <1>1 DEF TablesOK, BlocksOK, IsBlock
<1>3. Max(S) \in S /\ \A n \in S : n <= Max(S)
  <2>1. 1 \in S
    BY <1>1, RootPrefix
  <2>2. Len(w[i]) \in Nat /\ S \in SUBSET (1..Len(w[i])) /\ S # {}
    BY <1>1, <2>1, SeqDomain
  <2> HIDE DEF S
  <2> QED
    BY <2>2, MaxThere
<1> DEFINE M == Max(S)
<1>4. M \in DOMAIN w[i] /\ IsPrefix(w[i][M].mLocationPath, path)
  BY <1>3
<1> HIDE DEF M
<1>5. \A l, n : Holds(mServers, s, b, l, w[i][n]) =>
        locations[l] = LocationPath(w[i][n]) /\ locations[l].mLocationPath = w[i][n].mLocationPath
  BY DEF Holds, LocationPath, LocationMembers
<1>6. \A l : IsPlace(mServers, s, b, l) <=> l \in DOMAIN locations
  BY <1>1 DEF IsPlace
<1>7. PICK l : IsPlace(mServers, s, b, l) /\ Holds(mServers, s, b, l, w[i][M])
  BY <1>4, LocationsOf
<1> HIDE DEF locations
<1>8. l \in DOMAIN locations /\ IsPrefix(locations[l].mLocationPath, path)
  BY <1>4, <1>5, <1>6, <1>7
<1>9. PICK k \in DOMAIN locations : /\ returnIteratorLocationPath(locations, path) = locations[k]
                                    /\ IsPrefix(locations[k].mLocationPath, path) /\ k <= l
  BY <1>2, <1>8, FirstPrefix
<1>10. k = l
  <2> SUFFICES ASSUME k # l PROVE FALSE
    OBVIOUS
  <2>1. k < l
    BY <1>2, <1>8, <1>9, SeqDomain
  <2>2. PICK n \in DOMAIN w[i], o \in DOMAIN w[i] :
          n < o /\ Holds(mServers, s, b, l, w[i][n]) /\ Holds(mServers, s, b, k, w[i][o])
    BY <1>6, <1>7, <2>1, LocationsOf
  <2>3. o \in S /\ n = M
    <3>1. locations[k].mLocationPath = w[i][o].mLocationPath
      BY <1>5, <2>2
    <3>2. locations[l].mLocationPath = w[i][n].mLocationPath
      BY <1>5, <2>2
    <3>3. locations[l].mLocationPath = w[i][M].mLocationPath
      BY <1>5, <1>7
    <3> QED
      BY <1>1, <1>4, <1>9, <2>2, <3>1, <3>2, <3>3
  <2>4. o <= M
    BY <1>3, <2>3 DEF M
  <2>5. o \in Int /\ n \in Int
    BY <1>1, SeqDomain
  <2> QED
    BY <2>2, <2>3, <2>4, <2>5
<1> QED
  BY <1>5, <1>7, <1>9, <1>10 DEF M, locations, Deepest

(* Two servers on one address have their blocks in reverse.                *)
LEMMA BlocksReversed ==
  ASSUME NEW w, NEW at, SaidPlainly(w, at), AllFiled(FlattenSeq(w)), TablesOK,
         NEW s, NEW b, NEW c, NEW i, NEW j, OfServer(w, s, b, i), OfServer(w, s, c, j), b < c
  PROVE  j < i
<1> DEFINE F == FlattenSeq(w)
<1>1. /\ i \in DOMAIN w /\ j \in DOMAIN w /\ 1 \in DOMAIN w[i] /\ 1 \in DOMAIN w[j]
      /\ Named(mServers, s, b, w[i][1]) /\ Named(mServers, s, c, w[j][1])
      /\ IsBlock(mServers, s, b) /\ IsBlock(mServers, s, c)
  BY DEF OfServer, SaidPlainly
<1>2. PICK p \in Taken(0, F), q \in Taken(0, F) :
        p < q /\ Named(mServers, s, c, F[p]) /\ Named(mServers, s, b, F[q])
  BY <1>1 DEF AllFiled, Filing
<1>3. PICK k \in DOMAIN w : \E n \in DOMAIN w[k] : p = at[k][n] /\ F[p] = w[k][n]
  BY TakenAll
<1>4. PICK n \in DOMAIN w[k] : p = at[k][n] /\ F[p] = w[k][n]
  BY <1>3
<1>5. PICK l \in DOMAIN w : \E m \in DOMAIN w[l] : q = at[l][m] /\ F[q] = w[l][m]
  BY TakenAll
<1>6. PICK m \in DOMAIN w[l] : q = at[l][m] /\ F[q] = w[l][m]
  BY <1>5
<1>7. k = j /\ l = i
  BY <1>1, <1>2, <1>4, <1>6, NamedOne
<1>8. at[j][n] < at[i][m] => j < i \/ j = i
  BY <1>1, <1>4, <1>6, <1>7 DEF SaidPlainly, IsLayout
<1>9. i # j
  <2>1. b \in Int /\ c \in Int
    BY <1>1, SeqDomain DEF IsBlock, TablesOK, BlocksOK
  <2>2. b # c
    BY <2>1
  <2>3. mServers[s].mServerBlocks[b].mserverName # mServers[s].mServerBlocks[c].mserverName
    BY <1>1, <2>2 DEF IsBlock, TablesOK, BlocksOK
  <2> QED
    BY <1>1, <2>3 DEF Named
<1> QED
  BY <1>2, <1>4, <1>6, <1>7, <1>8, <1>9

(* The servers of the file on the address of a listening socket, and the   *)
(* one that is asked for.                                                  *)
Here(w, s) == {k \in DOMAIN w : sameAddress(w[k][1], mServers[s])}
AskedFor(w, s, name) ==
  LET named == {k \in Here(w, s) : w[k][1].mServerName = name}
  IN  Min(IF named # {} THEN named ELSE Here(w, s))

LEMMA BlockFound ==
  ASSUME NEW w, NEW at, SaidPlainly(w, at), AllFiled(FlattenSeq(w)), TablesOK,
         NEW s \in DOMAIN mServers, NEW name
  PROVE  \E b : /\ OfServer(w, s, b, AskedFor(w, s, name))
                /\ returnIteratorServerBlock(mServers[s].mServerBlocks, name) =
                     mServers[s].mServerBlocks[b]
<1> DEFINE blocks == mServers[s].mServerBlocks
           here == Here(w, s)
           named == {k \in here : w[k][1].mServerName = name}
<1>1. BlocksOK(blocks)
  BY DEF TablesOK
<1>2. PICK b \in DOMAIN blocks :
        /\ returnIteratorServerBlock(blocks, name) = blocks[b]
        /\ \/ blocks[b].mserverName = name
           \/ b = Len(blocks) /\ \A c \in DOMAIN blocks : blocks[c].mserverName # name
  BY <1>1, BlockNamed
<1>3. PICK i : OfServer(w, s, b, i)
  <2>1. IsBlock(mServers, s, b)
    BY DEF IsBlock
  <2> QED
    BY <2>1, BlockOf
<1>4. i \in here /\ w[i][1].mServerName = blocks[b].mserverName
  BY <1>3 DEF OfServer, Named, Here, sameAddress
<1>5. here \in SUBSET Nat /\ here \subseteq DOMAIN w
  BY SeqDomain DEF Here, SaidPlainly
<1>6. \A k \in here : \E c : c \in DOMAIN blocks /\ OfServer(w, s, c, k)
  <2> SUFFICES ASSUME NEW k \in here PROVE \E c : c \in DOMAIN blocks /\ OfServer(w, s, c, k)
    OBVIOUS
  <2>1. k \in DOMAIN w /\ 1 \in DOMAIN w[k] /\ sameAddress(w[k][1], mServers[s])
    BY DEF Here, SaidPlainly
  <2>2. at[k][1] \in DOMAIN FlattenSeq(w) /\ FlattenSeq(w)[at[k][1]] = w[k][1]
    BY <2>1 DEF SaidPlainly, IsLayout
  <2>3. at[k][1] \in Taken(0, FlattenSeq(w))
    BY <2>2, TakenAll
  <2>4. PICK t, c, l : IsPlace(mServers, t, c, l) /\ Holds(mServers, t, c, l, w[k][1])
    BY <2>2, <2>3 DEF AllFiled, Filing
  <2>5. Named(mServers, t, c, w[k][1]) /\ IsBlock(mServers, t, c)
    BY <2>4 DEF Holds, IsPlace
  <2>6. t = s
    BY <2>1, <2>5 DEF TablesOK, Apart, Named, sameAddress, IsBlock
  <2> QED
    BY <2>1, <2>5, <2>6 DEF OfServer, IsBlock
<1>7. \A j \in here : w[j][1].mServerName = w[i][1].mServerName => j = i
  <2> SUFFICES ASSUME NEW j \in here, w[j][1].mServerName = w[i][1].mServerName PROVE j = i
    OBVIOUS
  <2>1. sameServer(w[j][1], w[i][1])
    BY <1>4 DEF Here, sameAddress, sameServer
  <2> QED
    BY <1>4, <1>5, <2>1 DEF SaidPlainly
<1>8. AskedFor(w, s, name) = Min(IF named # {} THEN named ELSE here)
  BY DEF AskedFor
<1>9. CASE blocks[b].mserverName = name
  <2>1. named = {i}
    BY <1>4, <1>7, <1>9
  <2>2. Min({i}) = i
    BY <1>4, <1>5 DEF Min
  <2>3. AskedFor(w, s, name) = i
    BY <1>8, <2>1, <2>2
  <2> QED
    BY <1>2, <1>3, <2>3
<1>10. CASE b = Len(blocks) /\ \A c \in DOMAIN blocks : blocks[c].mserverName # name
  <2>1. named = {}
    <3> SUFFICES ASSUME NEW k \in named PROVE FALSE
      OBVIOUS
    <3>1. PICK c : c \in DOMAIN blocks /\ OfServer(w, s, c, k)
      BY <1>6
    <3> QED
      BY <1>10, <3>1 DEF OfServer, Named
  <2>2. Min(here) \in here /\ Min(here) <= i
    <3> HIDE DEF here
    <3> QED
      BY <1>4, <1>5, MinIn
  <2>3. Min(here) = i
    <3> SUFFICES ASSUME Min(here) # i PROVE FALSE
      OBVIOUS
    <3>1. PICK c : c \in DOMAIN blocks /\ OfServer(w, s, c, Min(here))
      BY <1>6, <2>2
    <3>2. c # b
      <4>1. blocks[c].mserverName = w[Min(here)][1].mServerName
        BY <3>1 DEF OfServer, Named
      <4> QED
        BY <1>4, <1>7, <2>2, <4>1
    <3>3. c < b
      BY <1>1, <1>10, <3>1, <3>2, SeqDomain DEF BlocksOK
    <3>4. i < Min(here)
      BY <1>3, <3>1, <3>3, BlocksReversed
    <3>5. i \in Int /\ Min(here) \in Int
      BY <1>4, <1>5, <2>2
    <3> QED
      BY <2>2, <3>4, <3>5
  <2>4. AskedFor(w, s, name) = i
    BY <1>8, <2>1, <2>3
  <2> QED
    BY <1>2, <1>3, <2>4
<1> QED
  BY <1>2, <1>9, <1>10

(* A running server answers every request by the location that the file    *)
(* has for it, whatever the servers and the locations and however many     *)
(* there are, when no location moves and none is there twice.              *)
THEOREM ServedAsWrittenCorrect == StartSpec /\ []ReadAsWritten => []ServedAsWritten
<1>1. StartInit => OverlapInv /\ FiledInv /\ file \in Files
  BY NoneDomain DEF StartInit, Init, OverlapInv, FiledInv
<1>2. file \in Files /\ [Start]_vars => (file \in Files)'
  <2> SUFFICES ASSUME [Start]_vars PROVE file' = file
    OBVIOUS
  <2> QED
    BY ReadingGoesOn DEF Start, CheckOverlap, setServersValue, ServersSet, SetSocket, SetNoSocket,
       SetSocketFails, RunServers, Over, fileVars, readVars, vars, configVars
<1>3. FiledInv /\ OverlapInv /\ IInv /\ file \in Files => ServedAsWritten
  <2> SUFFICES ASSUME FiledInv, OverlapInv, IInv, file \in Files, pc = "running", Said,
                      Plain(file.servers), NEW k \in DOMAIN mServers, NEW name \in Names,
                      NEW path \in Uris
               PROVE  Lookup(mServers[k], name, path) =
                        Asked(file.servers, mServers[k], name, path)
    BY DEF ServedAsWritten, Said
  <2> DEFINE blocks == file.servers
             w == WrittenOf(blocks)
  <2>1. IsSeq(blocks) /\ (\A j \in DOMAIN blocks : IsSeq(blocks[j])) /\ IsSeq(path)
    BY FilesAssumption, UrisAssumption DEF IsSeq
  <2>2. ~Overlapping(blocks) /\ TablesOK
    BY DEF OverlapInv, IInv
  <2>3. PICK at : SaidPlainly(w, at)
    <3> HIDE DEF blocks
    <3> QED
      BY <2>1, <2>2, SaysPlainly DEF blocks
  <2>4. Clear(WrittenAll(blocks)) /\ WrittenAll(blocks) = FlattenSeq(w)
    <3>1. WrittenAll(blocks) = FlattenSeq(w)
      BY DEF WrittenAll, WrittenOf
    <3> HIDE DEF w
    <3> QED
      BY <2>3, <3>1, PlainlyClear
  <2>5. AllFiled(FlattenSeq(w))
    BY <2>4 DEF FiledInv
  <2> DEFINE i == AskedFor(w, k, name)
  <2>6. Asked(blocks, mServers[k], name, path) = Deepest(w, i, path)
    BY DEF Asked, AskedFor, Here, WrittenOf, sameAddress, Deepest
  <2> HIDE DEF w, blocks
  <2>7. PICK b : /\ OfServer(w, k, b, i)
                 /\ returnIteratorServerBlock(mServers[k].mServerBlocks, name) =
                      mServers[k].mServerBlocks[b]
    BY <2>2, <2>3, <2>5, BlockFound
  <2>8. OfServer(w, k, b, i)
    BY <2>7
  <2> HIDE DEF i
  <2>9. returnIteratorLocationPath(mServers[k].mServerBlocks[b].mlocationPaths, path) =
           Deepest(w, i, path)
    BY <2>1, <2>2, <2>3, <2>5, <2>8, LocationFound
  <2>10. Lookup(mServers[k], name, path) =
           returnIteratorLocationPath(mServers[k].mServerBlocks[b].mlocationPaths, path)
    BY <2>7 DEF Lookup
  <2> QED
    BY <2>6, <2>9, <2>10 DEF blocks
<1> QED
  BY <1>1, <1>2, <1>3, StartInvariant, StepOverlap, StepFiled, PTL DEF StartSpec
-----------------------------------------------------------------------------
(***************************************************************************)
(* TypeOK: the brackets and the configurations of the reading, the         *)
(* descriptors and the places of the start.                                *)
(***************************************************************************)
Places == BeforeTables \cup {"setServersValue", "setServers", "running", "exited", "crashed"}

OpenOK == open \subseteq Nat /\ IsFiniteSet(open) /\ mConfigFd \in Nat \cup {-1}

TypeInv == file \in Files /\ pc \in Places /\ OpenOK /\ BlocksInv

LEMMA OpenMore ==
  ASSUME OpenOK
  PROVE  NewFd \in Nat /\ IsFiniteSet(open \cup {NewFd})
BY NewFdFree, FS_AddElement DEF OpenOK

LEMMA OpenBegins ==
  Init => OpenOK
<1>1. IsFiniteSet(0..2)
  <2>1. 0 \in Int /\ 2 \in Int
    OBVIOUS
  <2> QED
    BY <2>1, FS_Interval, Zenon
<1> QED
  BY <1>1 DEF Init, OpenOK

LEMMA ReadingKeepsOpen ==
  ASSUME OpenOK, Next
  PROVE  OpenOK'
<1>1. CASE UNCHANGED <<open, mConfigFd>>
  BY <1>1 DEF OpenOK
<1>2. CASE ReadConfigFile
  BY <1>2, OpenMore DEF ReadConfigFile, OpenOK
<1>3. CASE mConfigFd' = mConfigFd /\ open' = open \ {mConfigFd}
  <2>1. IsFiniteSet(open')
    BY <1>3, FS_Subset DEF OpenOK
  <2> QED
    BY <1>3, <2>1 DEF OpenOK
<1>4. CASE main \/ NextLine \/ ReadEnd \/ ReadFails
  BY <1>1, <1>3, <1>4 DEF main, NextLine, ReadEnd, ReadFails, readVars
<1>5. ASSUME NEW n \in 1..BUFFER_SIZE_GNL, ReadPiece(n) PROVE UNCHANGED <<open, mConfigFd>>
  BY <1>5 DEF ReadPiece
<1>6. CASE Parse
  BY <1>1, <1>6 DEF Parse, Step1, Step2Server, Step2, ParseServer, ParseLocation, ParseEnd, readVars
<1> QED
  BY <1>1, <1>2, <1>4, <1>5, <1>6 DEF Next, Read

LEMMA FrontOK ==
  ASSUME NEW configs, ConfigsOK(configs), configs # <<>>
  PROVE  ConfigsOK(Front(configs))
<1>1. /\ Len(configs) \in Nat /\ DOMAIN configs = 1..Len(configs)
      /\ IsSeq(Front(configs)) /\ Len(Front(configs)) = Len(configs) - 1
      /\ \A k \in 1..(Len(configs) - 1) : Front(configs)[k] = configs[k]
  BY FrontLast, SeqDomain DEF ConfigsOK
<1>2. DOMAIN Front(configs) = 1..(Len(configs) - 1)
  BY <1>1, SeqDomain
<1>3. \A k \in 1..(Len(configs) - 1) : k \in DOMAIN configs
  BY <1>1
<1> QED
  BY <1>1, <1>2, <1>3 DEF ConfigsOK

(* Behind the reading the lines and the brackets stay as they are, and     *)
(* configurations are only taken away.                                     *)
LEMMA BlocksStay ==
  ASSUME BlocksInv, UNCHANGED <<mGnl, mServerBracket>>, ConfigsOK(mConfigs'),
         pc' \in {"setServersValue", "setServers", "running", "exited", "crashed"}
  PROVE  BlocksInv'
BY DEF BlocksInv, LoopsOK

LEMMA StepType ==
  TypeInv /\ [Start]_vars => TypeInv'
<1> SUFFICES ASSUME TypeInv, [Start]_vars PROVE TypeInv'
  OBVIOUS
<1>1. file \in Files /\ OpenOK /\ BlocksInv /\ ConfigsOK(mConfigs) /\ pc \in Places
  BY DEF TypeInv, BlocksInv
<1>2. CASE Next
  BY <1>1, <1>2, ReadingGoesOn, ReadingKeepsOpen, StepBlocks DEF TypeInv, Places
<1>3. CASE CheckOverlap \/ ServersSet \/ SetSocketFails \/ RunServers
  <2>1. /\ UNCHANGED <<file, open, mConfigFd, mGnl, mServerBracket, mConfigs>>
        /\ pc' \in {"setServersValue", "setServers", "running", "exited", "crashed"}
    BY <1>3 DEF CheckOverlap, ServersSet, SetSocketFails, RunServers, fileVars, readVars
  <2>2. BlocksInv'
    BY <1>1, <2>1, BlocksStay
  <2> QED
    BY <1>1, <2>1, <2>2 DEF TypeInv, Places, OpenOK
<1>4. CASE setServersValue
  <2>1. /\ UNCHANGED <<file, open, mConfigFd, mGnl, mServerBracket>>
        /\ pc' \in {"setServersValue", "setServers"}
        /\ mConfigs # <<>> /\ mConfigs' = Front(mConfigs)
    BY <1>4 DEF setServersValue, fileVars, readVars
  <2>2. ConfigsOK(mConfigs')
    BY <1>1, <2>1, FrontOK
  <2>3. BlocksInv'
    BY <1>1, <2>1, <2>2, BlocksStay
  <2> QED
    BY <1>1, <2>1, <2>3 DEF TypeInv, Places, OpenOK
<1>5. CASE SetSocket \/ SetNoSocket
  <2>1. /\ UNCHANGED <<file, mConfigFd, mGnl, mServerBracket, mConfigs>> /\ pc' = "setServers"
        /\ open' = open \/ open' = open \cup {NewFd}
    BY <1>5 DEF SetSocket, SetNoSocket, fileVars, readVars
  <2>2. OpenOK'
    BY <1>1, <2>1, OpenMore DEF OpenOK
  <2>3. BlocksInv'
    BY <1>1, <2>1, BlocksStay
  <2> QED
    BY <1>1, <2>1, <2>2, <2>3 DEF TypeInv, Places
<1>6. CASE Over \/ UNCHANGED vars
  <2>1. UNCHANGED configVars
    BY <1>6 DEF Over, vars
  <2>2. BlocksInv'
    BY <1>1, <2>1, StepBlocks
  <2>3. UNCHANGED <<pc, file, open, mConfigFd>>
    BY <2>1 DEF configVars, readVars
  <2>4. OpenOK'
    BY <1>1, <2>3 DEF OpenOK
  <2> QED
    BY <1>1, <2>2, <2>3, <2>4 DEF TypeInv
<1> QED
  BY <1>2, <1>3, <1>4, <1>5, <1>6 DEF Start

LEMMA PortBelow == \A p \in Ports : p < 65536
BY DEF Ports

(* Every bracket lies within the lines and within its server's, and every  *)
(* configuration has all its members and a port of 16 bits, at every step  *)
(* of the start and for every file.                                        *)
THEOREM TypeCorrect == StartSpec => []TypeOK
<1>1. StartInit => TypeInv
  <2>1. Init => file \in Files /\ pc \in Places
    BY DEF Init, Places, BeforeTables, ReadingFile
  <2> QED
    BY <2>1, OpenBegins, BlocksBegin DEF StartInit, TypeInv
<1>2. TypeInv => TypeOK
  <2> SUFFICES ASSUME TypeInv PROVE TypeOK
    OBVIOUS
  <2>1. /\ BracketsOK(mServerBracket, Len(mGnl)) /\ ConfigsOK(mConfigs)
        /\ file.kind \in {"text", "missing", "unreadable"}
    BY FilesAssumption DEF TypeInv, BlocksInv
  <2>2. ASSUME NEW k \in DOMAIN mServerBracket
        PROVE  LET b == mServerBracket[k]
               IN  /\ b.mStart \in 1..Len(mGnl) /\ b.mEnd \in (b.mStart + 1)..Len(mGnl)
                   /\ \A l \in DOMAIN b.mLocationBracket :
                        /\ b.mLocationBracket[l].mStart > b.mStart
                        /\ b.mLocationBracket[l].mEnd < b.mEnd
    <3> DEFINE b == mServerBracket[k]
               n == Len(mGnl)
    <3>1. BracketOK(b, n) /\ n \in Nat
      BY <2>1, SeqDomain DEF BracketsOK, TypeInv, BlocksInv
    <3> HIDE DEF b, n
    <3>2. b.mStart \in 1..n /\ b.mEnd \in (b.mStart + 1)..n
      BY <3>1 DEF BracketOK
    <3>3. \A l \in DOMAIN b.mLocationBracket :
            /\ b.mLocationBracket[l].mStart > b.mStart
            /\ b.mLocationBracket[l].mEnd < b.mEnd
      BY <3>1 DEF BracketOK, LocationIn
    <3> QED
      BY <3>2, <3>3 DEF b, n
  <2>3. ASSUME NEW k \in DOMAIN mConfigs
        PROVE  DOMAIN mConfigs[k] = DOMAIN ConfigFile /\ mConfigs[k].mPort < 65536
    BY <2>1, PortBelow DEF ConfigsOK, ConfigOK
  <2> QED
    BY <2>1, <2>2, <2>3
    DEF TypeOK, TypeInv, OpenOK, Places, BeforeTables, ReadingFile
<1> QED
  BY <1>1, <1>2, StepType, PTL DEF StartSpec
=============================================================================
