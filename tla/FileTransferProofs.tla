------------------------- MODULE FileTransferProofs -------------------------
(***************************************************************************)
(* For every set of names and sockets: the sampler of the Back key stays   *)
(* within its session, a tap shuts no socket but the upload's, and a half  *)
(* written file has one writer or was left behind, the ones included that  *)
(* the card would not remove (DiscardLeavesHalves).  The heart is that the *)
(* sampler holds the lock of the socket from its look at it to the         *)
(* shutdown (SocketInv), and that stop() waits for its last access         *)
(* (SessionInv).                                                           *)
(***************************************************************************)
EXTENDS FileTransfer, TLAPS

Requesting == {"headers", "reading", "cancel", "abort", "reply", "putting", "close"}
Busy == Requesting \cup {"client", "sockets", "taps"}

\* A session is the time of one task, which the join ends.
SessionInv ==
    /\ mpc = "off" => /\ generation = 0 /\ pending = 0 /\ sp = "none"
                      /\ ~armed /\ ~pressed
    /\ task => generation = 1 /\ session = 1 /\ server /\ mpc \notin {"off", "down"}
    /\ sp # "none" => task /\ ~finished

\* What the sampler has seen of the key happened in its session.
TapInv ==
    /\ armed /\ key => began
    /\ pressed => began
    /\ began /\ ~key => tapped
    /\ pending # 0 => tapped

\* The socket is noted while its upload is read, and the sampler's copy of it
\* is good as long as the lock is held.
SocketInv ==
    /\ conn # None <=> mpc \in Requesting
    /\ noted # None => mpc \in {"reading", "reply"}
    /\ sp = "shutting" => fd = noted /\ fd # None
    /\ shut \subseteq {conn} \ {None}
    /\ mpc = "headers" => conn \notin shut

\* A name has one writer and was not left behind before, or it was pulled away.
FilesInv ==
    /\ http # None => mpc \in {"reading", "cancel", "abort"}
    /\ {http, wsName} \cap orphans \subseteq pulled
    /\ PartsAreBeingWritten

IInv == TypeOK /\ SessionInv /\ TapInv /\ SocketInv /\ FilesInv

LEMMA InitIInv == Init => IInv
<1> SUFFICES ASSUME Init PROVE IInv
    OBVIOUS
<1>1. TypeOK
      <2>1. /\ task \in BOOLEAN /\ stopping \in BOOLEAN /\ finished \in BOOLEAN /\ armed \in BOOLEAN
            /\ pressed \in BOOLEAN /\ fired \in BOOLEAN /\ key \in BOOLEAN /\ began \in BOOLEAN
            /\ tapped \in BOOLEAN /\ server \in BOOLEAN /\ more \in BOOLEAN
            BY Zenon DEF Init
      <2> QED BY <2>1 DEF Init, TypeOK
<1>2. SessionInv /\ TapInv
      BY DEF Init, SessionInv, TapInv
<1>3. SocketInv
      BY DEF Init, SocketInv, Requesting
<1>4. FilesInv
      BY NoneAssumption DEF Init, FilesInv, PartsAreBeingWritten
<1> QED BY <1>1, <1>2, <1>3, <1>4 DEF IInv
-----------------------------------------------------------------------------
(* What the removal of incomplete files leaves.                            *)

\* Other names are untouched, and a half that stays is one that was left behind.
LEMMA DiscardLeavesHalves ==
    ASSUME IInv, NEW names \in SUBSET Names, names \subseteq {http, wsName}, Discard(names)
    PROVE  /\ file' \in [Names -> {"none", "part", "whole"}]
           /\ orphans \subseteq orphans' /\ orphans' \subseteq orphans \cup names
           /\ \A n \in Names \ names : file'[n] = file[n]
           /\ \A n \in names \ pulled : file'[n] = "part" <=> n \in orphans'
<1>1. PICK kept \in SUBSET names :
          /\ file' = [n \in Names |-> IF n \in names \ kept THEN "none" ELSE file[n]]
          /\ orphans' = orphans \cup {n \in kept : file[n] = "part"}
      BY DEF Discard
<1>2. names \cap orphans \subseteq pulled
      BY DEF IInv, FilesInv
<1>3. file' \in [Names -> {"none", "part", "whole"}]
      BY <1>1 DEF IInv, TypeOK
<1>4. \A n \in Names \ names : file'[n] = file[n]
      BY <1>1
<1>5. \A n \in names \ pulled : file'[n] = "part" <=> n \in orphans'
      BY <1>1, <1>2
<1> QED BY <1>1, <1>3, <1>4, <1>5
LEMMA AbortLeavesHalves ==
    ASSUME IInv, wsName # None, AbortWs
    PROVE  /\ wsName \in Names /\ wsName' = None /\ wsOwner' = None
           /\ file' \in [Names -> {"none", "part", "whole"}]
           /\ orphans \subseteq orphans' /\ orphans' \subseteq orphans \cup {wsName}
           /\ \A n \in Names \ {wsName} : file'[n] = file[n]
           /\ wsName \notin pulled => (file'[wsName] = "part" <=> wsName \in orphans')
<1>1. wsName \in Names
      BY DEF IInv, TypeOK
<1> QED BY <1>1, DiscardLeavesHalves DEF AbortWs
-----------------------------------------------------------------------------
(* The steps of handleClient() and of the WebSocket clients.               *)

Handling ==
    \/ WsTimeOut \/ NoRequest \/ Accept \/ OtherRequest
    \/ \E n \in Names : Remove(n) \/ BeginUpload(n) \/ EndPut(n)
    \/ \E n, m \in Names : Rename(n, m) \/ Move(n, m) \/ Copy(n, m)
    \/ BeginPut \/ PutBytes \/ AbortPut
    \/ Write \/ WriteCancelled \/ EndUpload \/ AbortUpload \/ DropUpload \/ Reply \/ Close
    \/ WsQuiet \/ WsBytes \/ \E c \in Sockets : WsConnected(c) \/ WsDisconnected(c)
    \/ \E c \in Sockets, n \in Names : WsStart(c, n)
    \/ Send

LEMMA HandlingIsLocal ==
    ASSUME Handling
    PROVE  UNCHANGED <<latch, sampler, person, server>> /\ mpc \in Busy /\ mpc' \in Busy
<1>1. CASE WsTimeOut
      BY <1>1 DEF WsTimeOut, Busy, Requesting, Retract, CloseConn
<1>2. CASE NoRequest
      BY <1>2 DEF NoRequest, Busy, Requesting, Retract, CloseConn
<1>3. CASE Accept
      BY <1>3 DEF Accept, Busy, Requesting, Retract, CloseConn
<1>4. CASE OtherRequest
      BY <1>4 DEF OtherRequest, Busy, Requesting, Retract, CloseConn
<1>5. CASE \E n \in Names : Remove(n)
      BY <1>5 DEF Remove, Busy, Requesting, Retract, CloseConn
<1>6. CASE \E n \in Names : BeginUpload(n)
      BY <1>6 DEF BeginUpload, Busy, Requesting, Retract, CloseConn
<1>7. CASE \E n \in Names : EndPut(n)
      BY <1>7 DEF EndPut, Busy, Requesting, Retract, CloseConn
<1>8. CASE \E n \in Names, m \in Names : Rename(n, m)
      BY <1>8 DEF Rename, Moved, Busy, Requesting, Retract, CloseConn
<1>9. CASE \E n \in Names, m \in Names : Move(n, m)
      BY <1>9 DEF Move, Moved, Busy, Requesting, Retract, CloseConn
<1>10. CASE \E n \in Names, m \in Names : Copy(n, m)
      BY <1>10 DEF Copy, Busy, Requesting, Retract, CloseConn
<1>11. CASE BeginPut
      BY <1>11 DEF BeginPut, Busy, Requesting, Retract, CloseConn
<1>12. CASE PutBytes
      BY <1>12 DEF PutBytes, Busy, Requesting, Retract, CloseConn
<1>13. CASE AbortPut
      BY <1>13 DEF AbortPut, Busy, Requesting, Retract, CloseConn
<1>14. CASE Write
      BY <1>14 DEF Write, Busy, Requesting, Retract, CloseConn
<1>15. CASE WriteCancelled
      BY <1>15 DEF WriteCancelled, Busy, Requesting, Retract, CloseConn
<1>16. CASE EndUpload
      BY <1>16 DEF EndUpload, Busy, Requesting, Retract, CloseConn
<1>17. CASE AbortUpload
      BY <1>17 DEF AbortUpload, Busy, Requesting, Retract, CloseConn
<1>18. CASE DropUpload
      BY <1>18 DEF DropUpload, Busy, Requesting, Retract, CloseConn
<1>19. CASE Reply
      BY <1>19 DEF Reply, Busy, Requesting, Retract, CloseConn
<1>20. CASE Close
      BY <1>20 DEF Close, Busy, Requesting, Retract, CloseConn
<1>21. CASE WsQuiet
      BY <1>21 DEF WsQuiet, Busy, Requesting, Retract, CloseConn
<1>22. CASE WsBytes
      BY <1>22 DEF WsBytes, Busy, Requesting, Retract, CloseConn
<1>23. CASE \E c \in Sockets : WsConnected(c)
      BY <1>23 DEF WsConnected, Busy, Requesting, Retract, CloseConn
<1>24. CASE \E c \in Sockets : WsDisconnected(c)
      BY <1>24 DEF WsDisconnected, Busy, Requesting, Retract, CloseConn
<1>25. CASE \E c \in Sockets, n \in Names : WsStart(c, n)
      BY <1>25 DEF WsStart, Busy, Requesting, Retract, CloseConn
<1>26. CASE Send
      BY <1>26 DEF Send, Busy, Requesting, Retract, CloseConn
<1> QED BY <1>1, <1>2, <1>3, <1>4, <1>5, <1>6, <1>7, <1>8, <1>9, <1>10,
           <1>11, <1>12, <1>13, <1>14, <1>15, <1>16, <1>17, <1>18, <1>19,
           <1>20, <1>21, <1>22, <1>23, <1>24, <1>25, <1>26 DEF Handling

LEMMA HandlingTypes == ASSUME IInv, Handling PROVE TypeOK'
<1> USE NoneAssumption
<1>1. CASE WsTimeOut
      <2>1. /\ file' \in [Names -> {"none", "part", "whole"}]
            /\ orphans' \subseteq Names /\ wsName' = None /\ wsOwner' = None
            BY <1>1, AbortLeavesHalves DEF WsTimeOut, IInv, TypeOK
      <2> QED BY <1>1, <2>1 DEF WsTimeOut, SocketInv, IInv, TypeOK, latch, sampler, person
<1>2. CASE NoRequest
      BY <1>2 DEF NoRequest, Retract, CloseConn, AbortWs, Abandon, FreeSockets, SocketInv,
         Requesting, IInv, TypeOK, latch, sampler, person, sockets, files
<1>3. CASE Accept
      BY <1>3 DEF Accept, Retract, CloseConn, AbortWs, Abandon, FreeSockets, SocketInv,
         Requesting, IInv, TypeOK, latch, sampler, person, sockets, files
<1>4. CASE OtherRequest
      BY <1>4 DEF OtherRequest, Retract, CloseConn, AbortWs, Abandon, FreeSockets,
         SocketInv, Requesting, IInv, TypeOK, latch, sampler, person, sockets, files
<1>5. CASE \E n \in Names : Remove(n)
      BY <1>5 DEF Remove, Retract, CloseConn, AbortWs, Abandon, FreeSockets, SocketInv,
         Requesting, IInv, TypeOK, latch, sampler, person, sockets, files
<1>6. CASE \E n \in Names : BeginUpload(n)
      BY <1>6 DEF BeginUpload, Retract, CloseConn, AbortWs, Abandon, FreeSockets, SocketInv,
         Requesting, IInv, TypeOK, latch, sampler, person, sockets, files
<1>7. CASE \E n \in Names : EndPut(n)
      BY <1>7 DEF EndPut, Retract, CloseConn, AbortWs, Abandon, FreeSockets, SocketInv,
         Requesting, IInv, TypeOK, latch, sampler, person, sockets, files
<1>8. CASE \E n \in Names, m \in Names : Rename(n, m)
      BY <1>8 DEF Rename, Moved, Retract, CloseConn, AbortWs, Abandon, FreeSockets,
         SocketInv, Requesting, IInv, TypeOK, latch, sampler, person, sockets, files
<1>9. CASE \E n \in Names, m \in Names : Move(n, m)
      BY <1>9 DEF Move, Moved, Retract, CloseConn, AbortWs, Abandon, FreeSockets, SocketInv,
         Requesting, IInv, TypeOK, latch, sampler, person, sockets, files
<1>10. CASE \E n \in Names, m \in Names : Copy(n, m)
      BY <1>10 DEF Copy, Retract, CloseConn, AbortWs, Abandon, FreeSockets, SocketInv,
         Requesting, IInv, TypeOK, latch, sampler, person, sockets, files
<1>11. CASE BeginPut
      BY <1>11 DEF BeginPut, Retract, CloseConn, AbortWs, Abandon, FreeSockets, SocketInv,
         Requesting, IInv, TypeOK, latch, sampler, person, sockets, files
<1>12. CASE PutBytes
      <2>1. more' \in BOOLEAN
            BY <1>12 DEF PutBytes
      <2> QED BY <1>12, <2>1 DEF PutBytes, IInv, TypeOK, latch, sampler, person, sockets,
                 files
<1>13. CASE AbortPut
      <2>1. noted = None /\ conn # None /\ conn' = None /\ shut' = {}
            BY <1>13 DEF AbortPut, CloseConn, IInv, SocketInv, Requesting
      <2>2. peers \subseteq Sockets \ {None}
            BY DEF IInv, TypeOK
      <2>3. more' \in BOOLEAN
            BY <1>13 DEF AbortPut, CloseConn
      <2> QED BY <1>13, <2>1, <2>2, <2>3 DEF AbortPut, CloseConn, IInv, TypeOK, latch,
                 sampler, person, sockets, files
<1>14. CASE Write
      <2>1. CASE Abandon
            <3>1. http \in Names /\ orphans' \subseteq Names
                  BY <2>1 DEF Abandon, IInv, TypeOK
            <3>2. more' \in BOOLEAN
                  BY <1>14 DEF Write
            <3> QED BY <1>14, <2>1, <3>1, <3>2 DEF Write, Abandon, IInv, TypeOK, latch,
                       sampler, person, sockets, files
      <2>2. CASE UNCHANGED files
            <3>1. more' \in BOOLEAN
                  BY <1>14 DEF Write
            <3> QED BY <1>14, <2>2, <3>1 DEF Write, IInv, TypeOK, latch, sampler, person,
                       sockets, files
      <2> QED BY <1>14, <2>1, <2>2 DEF Write
<1>15. CASE WriteCancelled
      BY <1>15 DEF WriteCancelled, Retract, CloseConn, AbortWs, Abandon, FreeSockets,
         SocketInv, Requesting, IInv, TypeOK, latch, sampler, person, sockets, files
<1>16. CASE EndUpload
      BY <1>16 DEF EndUpload, Retract, CloseConn, AbortWs, Abandon, FreeSockets, SocketInv,
         Requesting, IInv, TypeOK, latch, sampler, person, sockets, files
<1>17. CASE AbortUpload
      BY <1>17 DEF AbortUpload, Retract, CloseConn, AbortWs, Abandon, FreeSockets,
         SocketInv, Requesting, IInv, TypeOK, latch, sampler, person, sockets, files
<1>18. CASE DropUpload
      <2>1. /\ file' \in [Names -> {"none", "part", "whole"}]
            /\ orphans' \subseteq Names /\ http' = None
            BY <1>18, DiscardLeavesHalves DEF DropUpload, IInv, TypeOK
      <2>2. noted = None /\ conn # None /\ conn' = None /\ shut' = {}
            BY <1>18 DEF DropUpload, CloseConn, IInv, SocketInv, Requesting
      <2>3. peers \subseteq Sockets \ {None}
            BY DEF IInv, TypeOK
      <2>4. more' \in BOOLEAN
            BY <1>18 DEF DropUpload, CloseConn
      <2> QED BY <1>18, <2>1, <2>2, <2>3, <2>4 DEF DropUpload, IInv, TypeOK, latch,
                 sampler, person
<1>19. CASE Reply
      BY <1>19 DEF Reply, Retract, CloseConn, AbortWs, Abandon, FreeSockets, SocketInv,
         Requesting, IInv, TypeOK, latch, sampler, person, sockets, files
<1>20. CASE Close
      <2>1. noted = None /\ conn # None /\ conn' = None /\ shut' = {}
            BY <1>20 DEF Close, CloseConn, IInv, SocketInv, Requesting
      <2>2. peers \subseteq Sockets \ {None}
            BY DEF IInv, TypeOK
      <2>3. more' \in BOOLEAN
            BY <1>20 DEF Close, CloseConn
      <2> QED BY <1>20, <2>1, <2>2, <2>3 DEF Close, CloseConn, IInv, TypeOK, latch, sampler,
                 person, sockets, files
<1>21. CASE WsQuiet
      BY <1>21 DEF WsQuiet, Retract, CloseConn, AbortWs, Abandon, FreeSockets, SocketInv,
         Requesting, IInv, TypeOK, latch, sampler, person, sockets, files
<1>22. CASE WsBytes
      <2>1. /\ file' \in [Names -> {"none", "part", "whole"}]
            /\ orphans' \subseteq Names /\ wsName' = None /\ wsOwner' = None
            BY <1>22, AbortLeavesHalves DEF WsBytes, IInv, TypeOK
      <2> QED BY <1>22, <2>1 DEF WsBytes, IInv, TypeOK, latch, sampler, person, sockets
<1>23. CASE \E c \in Sockets : WsConnected(c)
      BY <1>23 DEF WsConnected, Retract, CloseConn, AbortWs, Abandon, FreeSockets,
         SocketInv, Requesting, IInv, TypeOK, latch, sampler, person, sockets, files
<1>24. CASE \E c \in Sockets : WsDisconnected(c)
      <2> PICK c \in Sockets : WsDisconnected(c)
          BY <1>24
      <2>1. CASE c = wsOwner
            <3>1. wsName # None /\ AbortWs
                  BY <2>1 DEF WsDisconnected, IInv, TypeOK
            <3>2. /\ file' \in [Names -> {"none", "part", "whole"}]
                  /\ orphans' \subseteq Names /\ wsName' = None /\ wsOwner' = None
                  BY <3>1, AbortLeavesHalves DEF IInv, TypeOK
            <3> QED BY <3>2 DEF WsDisconnected, SocketInv, IInv, TypeOK, latch, sampler,
                       person
      <2>2. CASE c # wsOwner
            BY <2>2 DEF WsDisconnected, SocketInv, IInv, TypeOK, latch, sampler, person
      <2> QED BY <2>1, <2>2
<1>25. CASE \E c \in Sockets, n \in Names : WsStart(c, n)
      BY <1>25 DEF WsStart, Retract, CloseConn, AbortWs, Abandon, FreeSockets, SocketInv,
         Requesting, IInv, TypeOK, latch, sampler, person, sockets, files
<1>26. CASE Send
      BY <1>26 DEF Send, Retract, CloseConn, AbortWs, Abandon, FreeSockets, SocketInv,
         Requesting, IInv, TypeOK, latch, sampler, person, sockets, files
<1> QED BY <1>1, <1>2, <1>3, <1>4, <1>5, <1>6, <1>7, <1>8, <1>9, <1>10,
           <1>11, <1>12, <1>13, <1>14, <1>15, <1>16, <1>17, <1>18, <1>19,
           <1>20, <1>21, <1>22, <1>23, <1>24, <1>25, <1>26 DEF Handling

LEMMA HandlingSockets == ASSUME IInv, Handling PROVE SocketInv'
<1> USE NoneAssumption
<1>1. CASE WsTimeOut
      BY <1>1 DEF WsTimeOut, Retract, CloseConn, FreeSockets, SocketInv, Requesting, IInv,
         TypeOK, latch, sampler, person, sockets, files
<1>2. CASE NoRequest
      BY <1>2 DEF NoRequest, Retract, CloseConn, FreeSockets, SocketInv, Requesting, IInv,
         TypeOK, latch, sampler, person, sockets, files
<1>3. CASE Accept
      BY <1>3 DEF Accept, Retract, CloseConn, FreeSockets, SocketInv, Requesting, IInv,
         TypeOK, latch, sampler, person, sockets, files
<1>4. CASE OtherRequest
      BY <1>4 DEF OtherRequest, Retract, CloseConn, FreeSockets, SocketInv, Requesting,
         IInv, TypeOK, latch, sampler, person, sockets, files
<1>5. CASE \E n \in Names : Remove(n)
      BY <1>5 DEF Remove, Retract, CloseConn, FreeSockets, SocketInv, Requesting, IInv,
         TypeOK, latch, sampler, person, sockets, files
<1>6. CASE \E n \in Names : BeginUpload(n)
      BY <1>6 DEF BeginUpload, Retract, CloseConn, FreeSockets, SocketInv, Requesting, IInv,
         TypeOK, latch, sampler, person, sockets, files
<1>7. CASE \E n \in Names : EndPut(n)
      BY <1>7 DEF EndPut, Retract, CloseConn, FreeSockets, SocketInv, Requesting, IInv,
         TypeOK, latch, sampler, person, sockets, files
<1>8. CASE \E n \in Names, m \in Names : Rename(n, m)
      BY <1>8 DEF Rename, Moved, Retract, CloseConn, FreeSockets, SocketInv, Requesting,
         IInv, TypeOK, latch, sampler, person, sockets, files
<1>9. CASE \E n \in Names, m \in Names : Move(n, m)
      BY <1>9 DEF Move, Moved, Retract, CloseConn, FreeSockets, SocketInv, Requesting, IInv,
         TypeOK, latch, sampler, person, sockets, files
<1>10. CASE \E n \in Names, m \in Names : Copy(n, m)
      BY <1>10 DEF Copy, Retract, CloseConn, FreeSockets, SocketInv, Requesting, IInv,
         TypeOK, latch, sampler, person, sockets, files
<1>11. CASE BeginPut
      BY <1>11 DEF BeginPut, Retract, CloseConn, FreeSockets, SocketInv, Requesting, IInv,
         TypeOK, latch, sampler, person, sockets, files
<1>12. CASE PutBytes
      BY <1>12 DEF PutBytes, Retract, CloseConn, FreeSockets, SocketInv, Requesting, IInv,
         TypeOK, latch, sampler, person, sockets, files
<1>13. CASE AbortPut
      BY <1>13 DEF AbortPut, Retract, CloseConn, FreeSockets, SocketInv, Requesting, IInv,
         TypeOK, latch, sampler, person, sockets, files
<1>14. CASE Write
      BY <1>14 DEF Write, Retract, CloseConn, FreeSockets, SocketInv, Requesting, IInv,
         TypeOK, latch, sampler, person, sockets, files
<1>15. CASE WriteCancelled
      BY <1>15 DEF WriteCancelled, Retract, CloseConn, FreeSockets, SocketInv, Requesting,
         IInv, TypeOK, latch, sampler, person, sockets, files
<1>16. CASE EndUpload
      BY <1>16 DEF EndUpload, Retract, CloseConn, FreeSockets, SocketInv, Requesting, IInv,
         TypeOK, latch, sampler, person, sockets, files
<1>17. CASE AbortUpload
      BY <1>17 DEF AbortUpload, Retract, CloseConn, FreeSockets, SocketInv, Requesting,
         IInv, TypeOK, latch, sampler, person, sockets, files
<1>18. CASE DropUpload
      BY <1>18 DEF DropUpload, Retract, CloseConn, FreeSockets, SocketInv, Requesting, IInv,
         TypeOK, latch, sampler, person, sockets, files
<1>19. CASE Reply
      BY <1>19 DEF Reply, Retract, CloseConn, FreeSockets, SocketInv, Requesting, IInv,
         TypeOK, latch, sampler, person, sockets, files
<1>20. CASE Close
      BY <1>20 DEF Close, Retract, CloseConn, FreeSockets, SocketInv, Requesting, IInv,
         TypeOK, latch, sampler, person, sockets, files
<1>21. CASE WsQuiet
      BY <1>21 DEF WsQuiet, Retract, CloseConn, FreeSockets, SocketInv, Requesting, IInv,
         TypeOK, latch, sampler, person, sockets, files
<1>22. CASE WsBytes
      BY <1>22 DEF WsBytes, Retract, CloseConn, FreeSockets, SocketInv, Requesting, IInv,
         TypeOK, latch, sampler, person, sockets, files
<1>23. CASE \E c \in Sockets : WsConnected(c)
      BY <1>23 DEF WsConnected, Retract, CloseConn, FreeSockets, SocketInv, Requesting,
         IInv, TypeOK, latch, sampler, person, sockets, files
<1>24. CASE \E c \in Sockets : WsDisconnected(c)
      BY <1>24 DEF WsDisconnected, Retract, CloseConn, FreeSockets, SocketInv, Requesting,
         IInv, TypeOK, latch, sampler, person, sockets, files
<1>25. CASE \E c \in Sockets, n \in Names : WsStart(c, n)
      BY <1>25 DEF WsStart, Retract, CloseConn, FreeSockets, SocketInv, Requesting, IInv,
         TypeOK, latch, sampler, person, sockets, files
<1>26. CASE Send
      BY <1>26 DEF Send, Retract, CloseConn, FreeSockets, SocketInv, Requesting, IInv,
         TypeOK, latch, sampler, person, sockets, files
<1> QED BY <1>1, <1>2, <1>3, <1>4, <1>5, <1>6, <1>7, <1>8, <1>9, <1>10,
           <1>11, <1>12, <1>13, <1>14, <1>15, <1>16, <1>17, <1>18, <1>19,
           <1>20, <1>21, <1>22, <1>23, <1>24, <1>25, <1>26 DEF Handling

LEMMA HandlingFiles == ASSUME IInv, Handling PROVE FilesInv'
<1> USE NoneAssumption
<1>1. CASE WsTimeOut
      BY <1>1, AbortLeavesHalves DEF WsTimeOut, FilesInv, PartsAreBeingWritten, IInv
<1>2. CASE NoRequest
      BY <1>2 DEF NoRequest, Retract, AbortWs, Abandon, FilesInv, PartsAreBeingWritten,
         IInv, TypeOK, latch, sampler, person, sockets, files
<1>3. CASE Accept
      BY <1>3 DEF Accept, Retract, AbortWs, Abandon, FilesInv, PartsAreBeingWritten, IInv,
         TypeOK, latch, sampler, person, sockets, files
<1>4. CASE OtherRequest
      BY <1>4 DEF OtherRequest, Retract, AbortWs, Abandon, FilesInv, PartsAreBeingWritten,
         IInv, TypeOK, latch, sampler, person, sockets, files
<1>5. CASE \E n \in Names : Remove(n)
      BY <1>5 DEF Remove, Retract, AbortWs, Abandon, FilesInv, PartsAreBeingWritten, IInv,
         TypeOK, latch, sampler, person, sockets, files
<1>6. CASE \E n \in Names : BeginUpload(n)
      BY <1>6 DEF BeginUpload, Retract, AbortWs, Abandon, FilesInv, PartsAreBeingWritten,
         IInv, TypeOK, latch, sampler, person, sockets, files
<1>7. CASE \E n \in Names : EndPut(n)
      BY <1>7 DEF EndPut, Retract, AbortWs, Abandon, FilesInv, PartsAreBeingWritten, IInv,
         TypeOK, latch, sampler, person, sockets, files
<1>8. CASE \E n \in Names, m \in Names : Rename(n, m)
      BY <1>8 DEF Rename, Moved, Retract, AbortWs, Abandon, FilesInv, PartsAreBeingWritten,
         IInv, TypeOK, latch, sampler, person, sockets, files
<1>9. CASE \E n \in Names, m \in Names : Move(n, m)
      BY <1>9 DEF Move, Moved, Retract, AbortWs, Abandon, FilesInv, PartsAreBeingWritten,
         IInv, TypeOK, latch, sampler, person, sockets, files
<1>10. CASE \E n \in Names, m \in Names : Copy(n, m)
      BY <1>10 DEF Copy, Retract, AbortWs, Abandon, FilesInv, PartsAreBeingWritten, IInv,
         TypeOK, latch, sampler, person, sockets, files
<1>11. CASE BeginPut
      BY <1>11 DEF BeginPut, Retract, AbortWs, Abandon, FilesInv, PartsAreBeingWritten,
         IInv, TypeOK, latch, sampler, person, sockets, files
<1>12. CASE PutBytes
      BY <1>12 DEF PutBytes, Retract, AbortWs, Abandon, FilesInv, PartsAreBeingWritten,
         IInv, TypeOK, latch, sampler, person, sockets, files
<1>13. CASE AbortPut
      BY <1>13 DEF AbortPut, Retract, AbortWs, Abandon, FilesInv, PartsAreBeingWritten,
         IInv, TypeOK, latch, sampler, person, sockets, files
<1>14. CASE Write
      BY <1>14 DEF Write, Retract, AbortWs, Abandon, FilesInv, PartsAreBeingWritten, IInv,
         TypeOK, latch, sampler, person, sockets, files
<1>15. CASE WriteCancelled
      BY <1>15 DEF WriteCancelled, Retract, AbortWs, Abandon, FilesInv,
         PartsAreBeingWritten, IInv, TypeOK, latch, sampler, person, sockets, files
<1>16. CASE EndUpload
      BY <1>16 DEF EndUpload, Retract, AbortWs, Abandon, FilesInv, PartsAreBeingWritten,
         IInv, TypeOK, latch, sampler, person, sockets, files
<1>17. CASE AbortUpload
      BY <1>17 DEF AbortUpload, Retract, AbortWs, Abandon, FilesInv, PartsAreBeingWritten,
         IInv, TypeOK, latch, sampler, person, sockets, files
<1>18. CASE DropUpload
      <2> DEFINE names == {http} \ {None}
      <2>1. names \in SUBSET Names /\ Discard(names)
            BY <1>18 DEF DropUpload, IInv, TypeOK
      <2>2. /\ orphans' \subseteq orphans \cup names /\ orphans \subseteq orphans'
            /\ \A n \in Names \ names : file'[n] = file[n]
            /\ \A n \in names \ pulled : file'[n] = "part" <=> n \in orphans'
            BY <2>1, DiscardLeavesHalves
      <2>3. http' = None /\ wsName' = wsName /\ pulled' = pulled
            BY <1>18 DEF DropUpload
      <2>4. PartsAreBeingWritten /\ {http, wsName} \cap orphans \subseteq pulled
            BY DEF IInv, FilesInv
      <2>5. {http', wsName'} \cap orphans' \subseteq pulled'
            <3>1. None \notin orphans'
                  BY <2>1, <2>2 DEF IInv, TypeOK
            <3> QED BY <2>2, <2>3, <2>4, <3>1 DEF PartsAreBeingWritten
      <2>6. ASSUME NEW n \in Names \ pulled
            PROVE  file'[n] = "part" <=> n \in {http', wsName'} \cup orphans'
            <3>1. CASE n = http
                  BY <2>2, <2>3, <2>4, <3>1 DEF PartsAreBeingWritten
            <3>2. CASE n # http
                  BY <2>2, <2>3, <2>4, <3>2 DEF PartsAreBeingWritten
            <3> QED BY <3>1, <3>2
      <2> QED BY <2>3, <2>5, <2>6 DEF FilesInv, PartsAreBeingWritten
<1>19. CASE Reply
      BY <1>19 DEF Reply, Retract, AbortWs, Abandon, FilesInv, PartsAreBeingWritten, IInv,
         TypeOK, latch, sampler, person, sockets, files
<1>20. CASE Close
      BY <1>20 DEF Close, Retract, AbortWs, Abandon, FilesInv, PartsAreBeingWritten, IInv,
         TypeOK, latch, sampler, person, sockets, files
<1>21. CASE WsQuiet
      BY <1>21 DEF WsQuiet, Retract, AbortWs, Abandon, FilesInv, PartsAreBeingWritten, IInv,
         TypeOK, latch, sampler, person, sockets, files
<1>22. CASE WsBytes
      <2>1. CASE AbortWs
            BY <1>22, <2>1, AbortLeavesHalves DEF WsBytes, FilesInv, PartsAreBeingWritten,
               IInv
      <2>2. CASE ~AbortWs
            BY <1>22, <2>2 DEF WsBytes, FilesInv, PartsAreBeingWritten, IInv, TypeOK
      <2> QED BY <2>1, <2>2
<1>23. CASE \E c \in Sockets : WsConnected(c)
      BY <1>23 DEF WsConnected, Retract, AbortWs, Abandon, FilesInv, PartsAreBeingWritten,
         IInv, TypeOK, latch, sampler, person, sockets, files
<1>24. CASE \E c \in Sockets : WsDisconnected(c)
      <2> PICK c \in Sockets : WsDisconnected(c)
          BY <1>24
      <2>1. CASE c = wsOwner
            <3>1. wsName # None /\ AbortWs
                  BY <2>1 DEF WsDisconnected, IInv, TypeOK
            <3> QED BY <3>1, AbortLeavesHalves DEF WsDisconnected, FilesInv,
                       PartsAreBeingWritten, IInv
      <2>2. CASE c # wsOwner
            BY <2>2 DEF WsDisconnected, FilesInv, PartsAreBeingWritten, IInv
      <2> QED BY <2>1, <2>2
<1>25. CASE \E c \in Sockets, n \in Names : WsStart(c, n)
      BY <1>25 DEF WsStart, Retract, AbortWs, Abandon, FilesInv, PartsAreBeingWritten, IInv,
         TypeOK, latch, sampler, person, sockets, files
<1>26. CASE Send
      BY <1>26 DEF Send, Retract, AbortWs, Abandon, FilesInv, PartsAreBeingWritten, IInv,
         TypeOK, latch, sampler, person, sockets, files
<1> QED BY <1>1, <1>2, <1>3, <1>4, <1>5, <1>6, <1>7, <1>8, <1>9, <1>10,
           <1>11, <1>12, <1>13, <1>14, <1>15, <1>16, <1>17, <1>18, <1>19,
           <1>20, <1>21, <1>22, <1>23, <1>24, <1>25, <1>26 DEF Handling

LEMMA HandlingIInv == ASSUME IInv, Handling PROVE IInv'
<1>1. SessionInv' /\ TapInv'
      BY HandlingIsLocal DEF IInv, SessionInv, TapInv, Busy, Requesting, latch, sampler,
         person
<1> QED BY <1>1, HandlingTypes, HandlingSockets, HandlingFiles DEF IInv
-----------------------------------------------------------------------------
(* The session, the sampler and the person.                                *)

LEMMA StepIInv == ASSUME IInv, [Next]_vars PROVE IInv'
<1> USE NoneAssumption
<1>1. CASE StartServer
      <2>1. TypeOK'
            <3>1. server' \in BOOLEAN /\ began' \in BOOLEAN /\ tapped' \in BOOLEAN
                  BY <1>1 DEF StartServer
            <3>2. CASE StartSampled
                  <4>1. task' \in BOOLEAN /\ finished' \in BOOLEAN
                        BY <3>2 DEF StartSampled, IInv, TypeOK
                  <4> QED BY <1>1, <3>1, <3>2, <4>1 DEF StartServer, StartSampled, IInv, TypeOK,
                             SessionInv, SocketInv, Requesting, latch, sampler, person, sockets,
                             files
            <3>3. CASE StartUnsampled
                  BY <1>1, <3>1, <3>3 DEF StartServer, StartUnsampled, IInv, TypeOK, SocketInv,
                     Requesting, latch, sampler, person, sockets, files
            <3> QED BY <1>1, <3>2, <3>3 DEF StartServer
      <2>2. SessionInv'
            BY <1>1 DEF StartServer, StartSampled, StartUnsampled, IInv, TypeOK, SessionInv,
                   latch, sampler, person, sockets, files
      <2>3. TapInv'
            BY <1>1 DEF StartServer, StartSampled, StartUnsampled, IInv, TypeOK, TapInv,
                   SessionInv,
                   latch, sampler, person, sockets, files
      <2>4. SocketInv'
            BY <1>1 DEF StartServer, StartSampled, StartUnsampled, IInv, TypeOK, SocketInv,
                   SessionInv, Requesting,
                   latch, sampler, person, sockets, files
      <2>5. FilesInv'
            BY <1>1 DEF StartServer, StartSampled, StartUnsampled, IInv, TypeOK, FilesInv,
               SocketInv,
               PartsAreBeingWritten,
                   latch, sampler, person, sockets, files
      <2> QED BY <2>1, <2>2, <2>3, <2>4, <2>5 DEF IInv
<1>2. CASE CloseScreen
      BY <1>2 DEF CloseScreen, Consume, Latched, IInv, TypeOK, SessionInv, TapInv,
         SocketInv, FilesInv, PartsAreBeingWritten, Requesting,
                   latch, sampler, person, sockets, files
<1>3. CASE Stop
      BY <1>3 DEF Stop, Consume, Latched, IInv, TypeOK, SessionInv, TapInv, SocketInv,
         FilesInv, PartsAreBeingWritten, Requesting,
                   latch, sampler, person, sockets, files
<1>4. CASE Join
      <2>1. TypeOK'
            <3>1. task' \in BOOLEAN
                  BY <1>4 DEF Join, IInv, TypeOK, person, sampler
            <3> QED BY <1>4, <3>1 DEF Join, IInv, TypeOK, SessionInv, SocketInv, Requesting,
                   latch, sampler, person, sockets, files
      <2>2. SessionInv'
            BY <1>4 DEF Join, IInv, TypeOK, SessionInv,
                   latch, sampler, person, sockets, files
      <2>3. TapInv'
            BY <1>4 DEF Join, IInv, TypeOK, TapInv, SessionInv,
                   latch, sampler, person, sockets, files
      <2>4. SocketInv'
            BY <1>4 DEF Join, IInv, TypeOK, SocketInv, SessionInv, Requesting,
                   latch, sampler, person, sockets, files
      <2>5. FilesInv'
            BY <1>4 DEF Join, IInv, TypeOK, FilesInv, SocketInv, PartsAreBeingWritten,
                   latch, sampler, person, sockets, files
      <2> QED BY <2>1, <2>2, <2>3, <2>4, <2>5 DEF IInv
<1>5. CASE Pass
      BY <1>5 DEF Pass, Consume, Latched, IInv, TypeOK, SessionInv, TapInv, SocketInv,
         FilesInv, PartsAreBeingWritten, Requesting,
                   latch, sampler, person, sockets, files
<1>6. CASE Taps
      BY <1>6 DEF Taps, Consume, Latched, IInv, TypeOK, SessionInv, TapInv, SocketInv,
         FilesInv, PartsAreBeingWritten, Requesting,
                   latch, sampler, person, sockets, files
<1>7. CASE ServerDown
      <2> DEFINE names == {http, wsName} \ {None}
      <2>1. names \in SUBSET Names /\ Discard(names)
            BY <1>7 DEF ServerDown, IInv, TypeOK
      <2>2. /\ file' \in [Names -> {"none", "part", "whole"}] /\ orphans' \subseteq Names
            /\ orphans' \subseteq orphans \cup names /\ orphans \subseteq orphans'
            /\ \A n \in Names \ names : file'[n] = file[n]
            /\ \A n \in names \ pulled : file'[n] = "part" <=> n \in orphans'
            BY <2>1, DiscardLeavesHalves DEF IInv, TypeOK
      <2>3. /\ http' = None /\ wsName' = None /\ wsOwner' = None /\ pulled' = pulled
            /\ mpc = "down" /\ mpc' = "exit"
            BY <1>7 DEF ServerDown
      <2>4. TypeOK'
            <3>1. server' \in BOOLEAN /\ more' \in BOOLEAN
                  BY <1>7 DEF ServerDown
            <3> QED BY <1>7, <2>2, <3>1 DEF ServerDown, IInv, TypeOK, latch, sampler, person
      <2>5. SessionInv' /\ TapInv' /\ SocketInv'
            BY <1>7 DEF ServerDown, IInv, SessionInv, TapInv, SocketInv, Requesting, latch,
               sampler, person
      <2>6. FilesInv'
            BY <2>2, <2>3 DEF FilesInv, PartsAreBeingWritten, IInv
      <2> QED BY <2>4, <2>5, <2>6 DEF IInv
<1>8. CASE Restart
      <2>1. TypeOK'
            <3>1. /\ task' \in BOOLEAN /\ stopping' \in BOOLEAN /\ finished' \in BOOLEAN
                  /\ armed' \in BOOLEAN /\ pressed' \in BOOLEAN /\ fired' \in BOOLEAN
                  /\ server' \in BOOLEAN /\ more' \in BOOLEAN
                  BY <1>8 DEF Restart, IInv, TypeOK, person, sampler
            <3> QED BY <1>8, <3>1 DEF Restart, IInv, TypeOK, SessionInv, SocketInv,
                       Requesting,
                   latch, sampler, person, sockets, files
      <2>2. SessionInv'
            BY <1>8 DEF Restart, IInv, TypeOK, SessionInv,
                   latch, sampler, person, sockets, files
      <2>3. TapInv'
            BY <1>8 DEF Restart, IInv, TypeOK, TapInv, SessionInv,
                   latch, sampler, person, sockets, files
      <2>4. SocketInv'
            BY <1>8 DEF Restart, IInv, TypeOK, SocketInv, SessionInv, Requesting,
                   latch, sampler, person, sockets, files
      <2>5. FilesInv'
            BY <1>8 DEF Restart, IInv, TypeOK, FilesInv, SocketInv, PartsAreBeingWritten,
                   latch, sampler, person, sockets, files
      <2> QED BY <2>1, <2>2, <2>3, <2>4, <2>5 DEF IInv
<1>9. CASE Sample
      <2>1. TypeOK'
            <3>1. armed' \in BOOLEAN /\ pressed' \in BOOLEAN /\ fired' \in BOOLEAN
                  BY <1>9 DEF Sample, IInv, TypeOK, person, sampler
            <3> QED BY <1>9, <3>1 DEF Sample, IInv, TypeOK, SessionInv, SocketInv,
                       Requesting,
                   latch, sampler, person, sockets, files
      <2>2. SessionInv'
            BY <1>9 DEF Sample, IInv, TypeOK, SessionInv,
                   latch, sampler, person, sockets, files
      <2>3. TapInv'
            BY <1>9 DEF Sample, IInv, TypeOK, TapInv, SessionInv,
                   latch, sampler, person, sockets, files
      <2>4. SocketInv'
            BY <1>9 DEF Sample, IInv, TypeOK, SocketInv, SessionInv, Requesting,
                   latch, sampler, person, sockets, files
      <2>5. FilesInv'
            BY <1>9 DEF Sample, IInv, TypeOK, FilesInv, SocketInv, PartsAreBeingWritten,
                   latch, sampler, person, sockets, files
      <2> QED BY <2>1, <2>2, <2>3, <2>4, <2>5 DEF IInv
<1>10. CASE TakeSocket
      BY <1>10 DEF TakeSocket, Consume, Latched, IInv, TypeOK, SessionInv, TapInv,
         SocketInv, FilesInv, PartsAreBeingWritten, Requesting,
                   latch, sampler, person, sockets, files
<1>11. CASE ShutSocket
      BY <1>11 DEF ShutSocket, Consume, Latched, IInv, TypeOK, SessionInv, TapInv,
         SocketInv, FilesInv, PartsAreBeingWritten, Requesting,
                   latch, sampler, person, sockets, files
<1>12. CASE Acknowledge
      BY <1>12 DEF Acknowledge, Consume, Latched, IInv, TypeOK, SessionInv, TapInv,
         SocketInv, FilesInv, PartsAreBeingWritten, Requesting,
                   latch, sampler, person, sockets, files
<1>13. CASE PressKey
      BY <1>13 DEF PressKey, Consume, Latched, IInv, TypeOK, SessionInv, TapInv, SocketInv,
         FilesInv, PartsAreBeingWritten, Requesting,
                   latch, sampler, person, sockets, files
<1>14. CASE ReleaseKey
      <2>1. TypeOK'
            <3>1. key' \in BOOLEAN /\ tapped' \in BOOLEAN
                  BY <1>14 DEF ReleaseKey, IInv, TypeOK, person, sampler
            <3> QED BY <1>14, <3>1 DEF ReleaseKey, IInv, TypeOK, SessionInv, SocketInv,
                       Requesting,
                   latch, sampler, person, sockets, files
      <2>2. SessionInv'
            BY <1>14 DEF ReleaseKey, IInv, TypeOK, SessionInv,
                   latch, sampler, person, sockets, files
      <2>3. TapInv'
            BY <1>14 DEF ReleaseKey, IInv, TypeOK, TapInv, SessionInv,
                   latch, sampler, person, sockets, files
      <2>4. SocketInv'
            BY <1>14 DEF ReleaseKey, IInv, TypeOK, SocketInv, SessionInv, Requesting,
                   latch, sampler, person, sockets, files
      <2>5. FilesInv'
            BY <1>14 DEF ReleaseKey, IInv, TypeOK, FilesInv, SocketInv,
               PartsAreBeingWritten,
                   latch, sampler, person, sockets, files
      <2> QED BY <2>1, <2>2, <2>3, <2>4, <2>5 DEF IInv
<1>15. CASE Handling
      BY <1>15, HandlingIInv
<1>16. CASE UNCHANGED vars
      BY <1>16 DEF vars, IInv, TypeOK, SessionInv, TapInv, SocketInv, FilesInv,
         PartsAreBeingWritten, Requesting,
                   latch, sampler, person, sockets, files
<1> QED BY <1>1, <1>2, <1>3, <1>4, <1>5, <1>6, <1>7, <1>8, <1>9, <1>10,
           <1>11, <1>12, <1>13, <1>14, <1>15, <1>16
           DEF Next, Main, Sampler, Handling
-----------------------------------------------------------------------------
(* The theorems.                                                           *)

\* The inductive invariant holds in every reachable state.
THEOREM Inductive == Spec => []IInv
BY InitIInv, StepIInv, PTL DEF Spec

\* Every variable keeps its type: a noted socket is the one of the request at
\* hand, a socket is of one connection, an upload's owner is connected.
THEOREM TypeCorrect == Spec => []TypeOK
<1>1. IInv => TypeOK
      BY DEF IInv
<1> QED BY <1>1, Inductive, PTL

\* stop() lets nothing be destroyed or restarted under the sampler, and a tap is
\* never one of an earlier session (FileTransferBackLatch.cpp:43-53, 98-108).
THEOREM SamplerHasItsSession == Spec => []SamplerStaysInItsSession
<1>1. IInv => SamplerStaysInItsSession
      BY DEF IInv, TypeOK, SessionInv, TapInv, SamplerStaysInItsSession, Latched
<1> QED BY <1>1, Inductive, PTL

\* A tap cuts the upload's socket and never one that got its number later
\* (UploadSocket.h:18-26).
THEOREM NobodyElseIsCut == Spec => []OnlyUploadsAreCut
<1>1. IInv => OnlyUploadsAreCut
      BY DEF IInv, TypeOK, SocketInv, OnlyUploadsAreCut
<1> QED BY <1>1, Inductive, PTL

\* A half written file has exactly one upload, or was left behind: by a full
\* card, a restart, a card that would not remove it (CrossPointWebServer.cpp:396-400,
\* 412, 936, 1013), or as a copy of a half; and no upload writes what was left behind.
THEOREM PartsHaveOneWriter == Spec => []PartsAreBeingWritten
<1>1. IInv => PartsAreBeingWritten
      BY DEF IInv, FilesInv
<1> QED BY <1>1, Inductive, PTL
=============================================================================
