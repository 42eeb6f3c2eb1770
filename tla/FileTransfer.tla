---------------------------- MODULE FileTransfer ----------------------------
(***************************************************************************)
(* A file transfer over Wi-Fi: the screen (CrossPointWebServerActivity),   *)
(* the uploads of CrossPointWebServer, and the task that samples the Back  *)
(* key meanwhile (FileTransferBackLatch), because the main task may sit in *)
(* a request for as long as its bytes trickle in.  A tap is latched for    *)
(* the main task and shuts the socket of the upload being read, so that a  *)
(* stalled one ends.  Each step of the main task (mpc) and of the sampler  *)
(* (sp) is the code between two points where the other can be seen.        *)
(*                                                                         *)
(* The server libraries are external: they read requests, call the upload  *)
(* handler and close sockets as src/ relies on.  A socket is its number,   *)
(* which the next connection may get.  Other requests, the font upload     *)
(* (which takes the same steps) and the idle policy are choices; a request *)
(* uploads one file.  WebDAV is served beside them: its PUT stages what it *)
(* reads under another name, and knows neither the noted socket nor taps.  *)
(* The device restarts when the screen closes, so each session has a new   *)
(* latch.                                                                  *)
(*                                                                         *)
(* "Slip" marks the definition after it as a plausible bug would have it.   *)
(***************************************************************************)
EXTENDS Naturals

CONSTANTS
    Names,    \* the names files are sent to
    Sockets,  \* the numbers the network stack hands out
    None      \* no name, no socket

ASSUME NoneAssumption == None \notin Names /\ None \notin Sockets

VARIABLES
    mpc,                                            \* where the main task is
    task, generation, pending, stopping, finished,  \* the latch
    sp, session, armed, pressed, fired, fd,         \* the sampler and its locals
    key, began, tapped,    \* the key is down; history: pressed, and let go, in this session
    server,                \* webServer exists
    conn, noted, more,     \* the request's socket; UploadSocket's fd_; bytes have come
    peers, shut,           \* sockets of WebSocket clients; sockets with a shut read side
    http, wsName, wsOwner, \* what each kind of upload writes, and whose the second is
    file,                  \* what the card holds under a name
    orphans,               \* history: names of halves that no upload writes any more
    pulled                 \* history: names taken away or replaced while they were being written

latch == <<task, generation, pending, stopping, finished>>
sampler == <<sp, session, armed, pressed, fired, fd>>
person == <<key, began, tapped>>
sockets == <<conn, noted, more, peers, shut>>
files == <<http, wsName, wsOwner, file, orphans, pulled>>
vars == <<mpc, latch, sampler, person, server, sockets, files>>

TypeOK ==
    /\ mpc \in {"off", "pass", "client", "headers", "reading", "cancel", "abort", "reply",
                "putting", "close", "sockets", "taps", "stop", "join", "down", "exit", "exitJoin"}
    /\ task \in BOOLEAN /\ stopping \in BOOLEAN /\ finished \in BOOLEAN
    /\ generation \in 0..2 /\ pending \in 0..1 /\ session \in 0..1
    /\ sp \in {"none", "poll", "latched", "shutting"}
    /\ armed \in BOOLEAN /\ pressed \in BOOLEAN /\ fired \in BOOLEAN
    /\ key \in BOOLEAN /\ began \in BOOLEAN /\ tapped \in BOOLEAN
    /\ server \in BOOLEAN /\ more \in BOOLEAN
    /\ conn \in Sockets \cup {None} /\ noted \in {conn, None} /\ fd \in Sockets \cup {None}
    /\ peers \subseteq Sockets \ {conn} /\ shut \subseteq peers \cup {conn}
    /\ http \in Names \cup {None} /\ wsName \in Names \cup {None}
    /\ wsOwner \in peers \cup {None} /\ (wsOwner = None <=> wsName = None)
    /\ file \in [Names -> {"none", "part", "whole"}] /\ orphans \subseteq Names
    /\ pulled \subseteq Names

Init ==
    /\ mpc = "off" /\ task = FALSE /\ generation = 0 /\ pending = 0
    /\ stopping = FALSE /\ finished = TRUE
    /\ sp = "none" /\ session = 0 /\ armed = FALSE /\ pressed = FALSE /\ fired = FALSE
    /\ fd = None /\ server = FALSE /\ conn = None /\ noted = None /\ more = FALSE
    /\ peers = {} /\ shut = {} /\ http = None /\ wsName = None /\ wsOwner = None
    /\ key \in BOOLEAN /\ began = FALSE /\ tapped = FALSE
    /\ file = [n \in Names |-> "none"] /\ orphans = {} /\ pulled = {}

-----------------------------------------------------------------------------
(* FileTransferBackLatch on the main task.                                  *)

\* latched(), and what consume() finds before it clears the tap.
Latched == task /\ pending = generation
Consume == pending' = IF task THEN 0 ELSE pending

\* Slip: a stop without a task moves the generation on as well.
StopAlways ==
    /\ mpc \in {"stop", "exit"} /\ mpc' = IF mpc = "stop" THEN "join" ELSE "exitJoin"
    /\ stopping' = TRUE
    /\ generation' = IF task THEN generation ELSE generation + 1
    /\ UNCHANGED <<task, pending, finished, sampler, person, server, sockets, files>>

\* stop(), called before the server is stopped and again by onExit().
Stop ==
    /\ mpc \in {"stop", "exit"} /\ mpc' = IF mpc = "stop" THEN "join" ELSE "exitJoin"
    /\ stopping' = (stopping \/ task)
    /\ UNCHANGED <<task, generation, pending, finished, sampler, person, server, sockets, files>>

\* Slip: the caller goes on without the worker's acknowledgement.
JoinAtOnce ==
    /\ mpc = "join" /\ mpc' = "down"
    /\ task' = FALSE /\ pending' = 0 /\ generation' = IF task THEN generation + 1 ELSE generation
    /\ UNCHANGED <<stopping, finished, sampler, person, server, sockets, files>>

Join ==
    /\ mpc = "join" /\ (task => finished) /\ mpc' = "down"
    /\ task' = FALSE /\ pending' = 0 /\ generation' = IF task THEN generation + 1 ELSE generation
    /\ UNCHANGED <<stopping, finished, sampler, person, server, sockets, files>>

-----------------------------------------------------------------------------
(* The sampler task.                                                        *)

\* A reading that was stable long enough; the others change nothing.
Sample ==
    /\ sp = "poll" /\ ~stopping
    /\ armed' = (armed \/ ~key) /\ pressed' = (pressed \/ (armed /\ key))
    /\ IF armed /\ ~key /\ pressed /\ ~fired
         THEN fired' = TRUE /\ pending' = session /\ sp' = "latched"
         ELSE UNCHANGED <<fired, pending, sp>>
    /\ UNCHANGED <<mpc, task, generation, stopping, finished, session, fd, person, server,
                   sockets, files>>

\* The tap hook: interruptUpload() takes the lock of the socket.
TakeSocket ==
    /\ sp = "latched" /\ fd' = noted
    /\ sp' = IF noted = None THEN "poll" ELSE "shutting"
    /\ UNCHANGED <<mpc, latch, session, armed, pressed, fired, person, server, sockets, files>>

ShutSocket ==
    /\ sp = "shutting" /\ sp' = "poll"
    /\ shut' = shut \cup ({fd} \cap (peers \cup {conn}))
    /\ UNCHANGED <<mpc, latch, session, armed, pressed, fired, fd, person, server, conn,
                   noted, more, peers, files>>

\* The acknowledgement is its last access.
Acknowledge ==
    /\ sp = "poll" /\ stopping /\ finished' = TRUE /\ sp' = "none"
    /\ UNCHANGED <<mpc, task, generation, pending, stopping, session, armed, pressed, fired,
                   fd, person, server, sockets, files>>

Sampler == Sample \/ TakeSocket \/ ShutSocket \/ Acknowledge

-----------------------------------------------------------------------------
(* The screen on the main task.                                             *)

\* startWebServer() with a running server, on a board whose Back is on the ladder:
\* the sampler starts or the screen leaves.
StartSampled ==
    /\ generation' = generation + 1 /\ session' = generation + 1 /\ pending' = 0
    /\ \/ mpc' = "pass" /\ task' = TRUE /\ finished' = FALSE /\ sp' = "poll"
       \/ mpc' = "exit" /\ UNCHANGED <<task, finished, sp>>
    /\ UNCHANGED <<stopping, armed, pressed, fired, fd>>

\* Any other board has no sampler: Pass takes its Back from the normal input.
StartUnsampled == mpc' = "pass" /\ UNCHANGED <<latch, sampler>>

StartServer ==
    /\ mpc = "off" /\ server' = TRUE /\ began' = FALSE /\ tapped' = FALSE
    /\ StartSampled \/ StartUnsampled
    /\ UNCHANGED <<key, sockets, files>>

\* loop() before the request: a tap, a Back that no sampler takes, the Home gesture
\* or a lost network leaves.
Pass ==
    /\ mpc = "pass" /\ Consume
    /\ mpc' \in IF Latched THEN {"stop"} ELSE {"stop", "client"}
    /\ UNCHANGED <<task, generation, stopping, finished, sampler, person, server, sockets, files>>

\* The manager closes the screen between two passes.
CloseScreen ==
    /\ mpc = "pass" /\ mpc' = "exit"
    /\ UNCHANGED <<latch, sampler, person, server, sockets, files>>

\* loop() after the request, with the idle policy.
Taps ==
    /\ mpc = "taps" /\ Consume
    /\ mpc' \in IF Latched THEN {"stop"} ELSE {"stop", "pass"}
    /\ UNCHANGED <<task, generation, stopping, finished, sampler, person, server, sockets, files>>

\* Incomplete files are removed, but for those a failing card keeps.
Discard(names) ==
    \E kept \in SUBSET names :
        /\ file' = [n \in Names |-> IF n \in names \ kept THEN "none" ELSE file[n]]
        /\ orphans' = orphans \cup {n \in kept : file[n] = "part"}

\* webServer->stop() and reset().
ServerDown ==
    /\ mpc = "down" /\ mpc' = "exit" /\ server' = FALSE
    /\ conn' = None /\ noted' = None /\ more' = FALSE /\ peers' = {} /\ shut' = {}
    /\ Discard({http, wsName} \ {None})
    /\ http' = None /\ wsName' = None /\ wsOwner' = None
    /\ UNCHANGED <<latch, sampler, person, pulled>>

\* onExit() ends in a restart; a screen closed from outside did not stop its server.
Restart ==
    /\ mpc = "exitJoin" /\ (task => finished) /\ mpc' = "off"
    /\ task' = FALSE /\ generation' = 0 /\ pending' = 0 /\ stopping' = FALSE /\ finished' = TRUE
    /\ sp' = "none" /\ session' = 0 /\ armed' = FALSE /\ pressed' = FALSE /\ fired' = FALSE
    /\ fd' = None /\ server' = FALSE /\ conn' = None /\ noted' = None /\ more' = FALSE
    /\ peers' = {} /\ shut' = {} /\ http' = None /\ wsName' = None /\ wsOwner' = None
    /\ orphans' = orphans \cup ({wsName} \ {None})
    /\ UNCHANGED <<person, file, pulled>>

-----------------------------------------------------------------------------
(* CrossPointWebServer::handleClient().                                     *)

FreeSockets == Sockets \ (peers \cup {conn})

\* Slip: the socket is retracted beside the lock.
RetractUnlocked == noted' = None

\* retract() waits for the lock that interrupt() holds.
Retract == sp # "shutting" /\ noted' = None

CloseConn == conn' = None /\ shut' = shut \ {conn} /\ more' = FALSE

\* abortWsUpload().
AbortWs == Discard({wsName}) /\ wsName' = None /\ wsOwner' = None

\* A WebSocket upload that stays silent is given up first, and its client let go.
WsTimeOut ==
    /\ mpc = "client" /\ wsName # None /\ AbortWs
    /\ peers' = peers \ {wsOwner} /\ shut' = shut \ {wsOwner}
    /\ UNCHANGED <<mpc, latch, sampler, person, server, conn, noted, more, http, pulled>>

NoRequest ==
    /\ mpc = "client" /\ mpc' = "sockets"
    /\ UNCHANGED <<latch, sampler, person, server, sockets, files>>

Accept ==
    /\ mpc = "client" /\ mpc' = "headers" /\ conn' \in FreeSockets
    /\ UNCHANGED <<latch, sampler, person, server, noted, more, peers, shut, files>>

\* Any other request, or one that is refused.
OtherRequest ==
    /\ mpc = "headers" /\ mpc' = "close"
    /\ UNCHANGED <<latch, sampler, person, server, sockets, files>>

\* A deletion, over HTTP or WebDAV, asks only whether the name exists.
Remove(n) ==
    /\ mpc = "headers" /\ file[n] # "none" /\ mpc' = "close"
    /\ file' = [file EXCEPT ![n] = "none"] /\ orphans' = orphans \ {n}
    /\ pulled' = IF n = wsName THEN pulled \cup {n} ELSE pulled
    /\ UNCHANGED <<latch, sampler, person, server, sockets, http, wsName, wsOwner>>

\* A file takes another name; the upload that writes either of them is not asked.
Moved(n, m) ==
    /\ mpc = "headers" /\ n # m /\ file[n] # "none" /\ mpc' = "close"
    /\ file' = [file EXCEPT ![n] = "none", ![m] = file[n]]
    /\ orphans' = (orphans \ {n, m}) \cup (IF file[n] = "part" THEN {m} ELSE {})
    /\ pulled' = IF n \in pulled \/ wsName \in {n, m} THEN pulled \cup {n, m} ELSE pulled
    /\ UNCHANGED <<latch, sampler, person, server, sockets, http, wsName, wsOwner>>

\* handleRename() and handleMove() of the web pages: only to a free name.
Rename(n, m) == file[m] = "none" /\ Moved(n, m)

\* WebDAV's MOVE replaces what has the name.
Move(n, m) == Moved(n, m)

\* WebDAV's COPY: staged, then it takes the name.
Copy(n, m) ==
    /\ mpc = "headers" /\ n # m /\ file[n] # "none" /\ mpc' = "close"
    /\ file' = [file EXCEPT ![m] = file[n]]
    /\ orphans' = IF file[n] = "part" THEN orphans \cup {m} ELSE orphans \ {m}
    /\ pulled' = IF n \in pulled \/ m = wsName THEN pulled \cup {m} ELSE pulled
    /\ UNCHANGED <<latch, sampler, person, server, sockets, http, wsName, wsOwner>>

\* RAW_START of a PUT: accepted or not, its bytes are read.
BeginPut ==
    /\ mpc = "headers" /\ mpc' = "putting"
    /\ UNCHANGED <<latch, sampler, person, server, sockets, files>>

\* RAW_WRITE, to the staged file.
PutBytes ==
    /\ mpc = "putting" /\ more /\ more' = FALSE
    /\ UNCHANGED <<mpc, latch, sampler, person, server, conn, noted, peers, shut, files>>

\* RAW_END: the staged file takes the name, or is removed.
EndPut(n) ==
    /\ mpc = "putting" /\ more /\ mpc' = "close"
    /\ \/ /\ file' = [file EXCEPT ![n] = "whole"] /\ orphans' = orphans \ {n}
          /\ pulled' = IF n = wsName THEN pulled \cup {n} ELSE pulled
          /\ UNCHANGED <<http, wsName, wsOwner>>
       \/ UNCHANGED files
    /\ UNCHANGED <<latch, sampler, person, server, sockets>>

\* RAW_ABORTED: the staged file is removed and the connection closed.
AbortPut ==
    /\ mpc = "putting" /\ ~more /\ mpc' = "sockets" /\ CloseConn
    /\ UNCHANGED <<latch, sampler, person, server, noted, peers, files>>

\* Slip: an upload opens its file without looking for one of that name.
BeginUploadOver(n) ==
    /\ mpc = "headers" /\ mpc' = "reading"
    /\ noted' = conn /\ http' = n /\ file' = [file EXCEPT ![n] = "part"]
    /\ UNCHANGED <<latch, sampler, person, server, conn, more, peers, shut, wsName, wsOwner,
                   orphans, pulled>>

\* UPLOAD_FILE_START: the socket is noted, and the file opened or refused.
BeginUpload(n) ==
    /\ mpc = "headers" /\ mpc' = "reading" /\ noted' = conn
    /\ \/ file[n] = "none" /\ http' = n /\ file' = [file EXCEPT ![n] = "part"]
       \/ UNCHANGED <<http, file>>
    /\ UNCHANGED <<latch, sampler, person, server, conn, more, peers, shut, wsName, wsOwner,
                   orphans, pulled>>

\* The client sends more, in its own time.
Send ==
    /\ mpc \in {"reading", "putting"} /\ ~more /\ more' = TRUE
    /\ UNCHANGED <<mpc, latch, sampler, person, server, conn, noted, peers, shut, files>>

\* A full card ends the writing; the half written file stays.
Abandon ==
    /\ http # None /\ http' = None /\ orphans' = orphans \cup {http}
    /\ UNCHANGED <<wsName, wsOwner, file, pulled>>

\* Slip: bytes that come in are written whatever was tapped.
ChunkRegardless ==
    /\ mpc = "reading" /\ more /\ more' = FALSE
    /\ Abandon \/ UNCHANGED files
    /\ UNCHANGED <<mpc, latch, sampler, person, server, conn, noted, peers, shut>>

\* UPLOAD_FILE_WRITE without a tap.
Write ==
    /\ mpc = "reading" /\ more /\ ~Latched /\ more' = FALSE
    /\ Abandon \/ UNCHANGED files
    /\ UNCHANGED <<mpc, latch, sampler, person, server, conn, noted, peers, shut>>

\* UPLOAD_FILE_WRITE after one: uploadCancelled() retracts and closes.
WriteCancelled ==
    /\ mpc = "reading" /\ more /\ Latched /\ Retract /\ mpc' = "cancel"
    /\ UNCHANGED <<latch, sampler, person, server, conn, more, peers, shut, files>>

\* UPLOAD_FILE_END.
EndUpload ==
    /\ mpc = "reading" /\ more /\ mpc' = "reply"
    /\ \/ Abandon
       \/ /\ file' = [n \in Names |-> IF n = http THEN "whole" ELSE file[n]]
          /\ http' = None /\ UNCHANGED <<wsName, wsOwner, orphans, pulled>>
    /\ UNCHANGED <<latch, sampler, person, server, sockets>>

\* UPLOAD_FILE_ABORTED: nothing came for too long, the client went, or the read
\* side was shut.
AbortUpload ==
    /\ mpc = "reading" /\ (~more \/ conn \in shut)
    /\ Retract /\ mpc' = "abort"
    /\ UNCHANGED <<latch, sampler, person, server, conn, more, peers, shut, files>>

\* The incomplete file is removed and the connection closed.
DropUpload ==
    /\ mpc \in {"cancel", "abort"} /\ mpc' = "sockets" /\ CloseConn
    /\ Discard({http} \ {None}) /\ http' = None
    /\ UNCHANGED <<latch, sampler, person, server, noted, peers, wsName, wsOwner, pulled>>

Reply ==
    /\ mpc = "reply" /\ Retract /\ mpc' = "close"
    /\ UNCHANGED <<latch, sampler, person, server, conn, more, peers, shut, files>>

Close ==
    /\ mpc = "close" /\ CloseConn /\ mpc' = "sockets"
    /\ UNCHANGED <<latch, sampler, person, server, noted, peers, files>>

-----------------------------------------------------------------------------
(* wsServer->loop(): one event of a client, or none.                        *)

WsQuiet ==
    /\ mpc = "sockets" /\ mpc' = "taps"
    /\ UNCHANGED <<latch, sampler, person, server, sockets, files>>

WsConnected(c) ==
    /\ mpc = "sockets" /\ mpc' = "taps" /\ c \in FreeSockets /\ peers' = peers \cup {c}
    /\ UNCHANGED <<latch, sampler, person, server, conn, noted, more, shut, files>>

\* Only the owner's disconnection ends the upload.
WsDisconnected(c) ==
    /\ mpc = "sockets" /\ mpc' = "taps" /\ c \in peers
    /\ peers' = peers \ {c} /\ shut' = shut \ {c}
    /\ IF c = wsOwner THEN AbortWs ELSE UNCHANGED <<file, wsName, wsOwner, orphans>>
    /\ UNCHANGED <<latch, sampler, person, server, conn, noted, more, http, pulled>>

\* START: an empty file is complete at once.
WsStart(c, n) ==
    /\ mpc = "sockets" /\ mpc' = "taps" /\ c \in peers /\ wsName = None /\ file[n] = "none"
    /\ \/ file' = [file EXCEPT ![n] = "whole"] /\ UNCHANGED <<wsName, wsOwner>>
       \/ file' = [file EXCEPT ![n] = "part"] /\ wsName' = n /\ wsOwner' = c
    /\ UNCHANGED <<latch, sampler, person, server, sockets, http, orphans, pulled>>

\* Bytes of the owner: the last ones, or more than announced, or a failed write.
WsBytes ==
    /\ mpc = "sockets" /\ mpc' = "taps" /\ wsName # None
    /\ \/ AbortWs
       \/ /\ file' = [file EXCEPT ![wsName] = "whole"] /\ wsName' = None /\ wsOwner' = None
          /\ UNCHANGED orphans
    /\ UNCHANGED <<latch, sampler, person, server, sockets, http, pulled>>

-----------------------------------------------------------------------------

\* History: whether the key was pressed, and then let go, in this session.
PressKey ==
    /\ ~key /\ key' = TRUE /\ began' = TRUE
    /\ UNCHANGED <<mpc, latch, sampler, tapped, server, sockets, files>>

ReleaseKey ==
    /\ key /\ key' = FALSE /\ tapped' = (tapped \/ began)
    /\ UNCHANGED <<mpc, latch, sampler, began, server, sockets, files>>

Main ==
    \/ Stop \/ Join \/ Pass \/ Taps \/ ServerDown \/ Restart
    \/ WsTimeOut \/ NoRequest \/ Accept \/ OtherRequest
    \/ \E n \in Names : Remove(n) \/ BeginUpload(n) \/ EndPut(n)
    \/ \E n, m \in Names : Rename(n, m) \/ Move(n, m) \/ Copy(n, m)
    \/ BeginPut \/ PutBytes \/ AbortPut
    \/ Write \/ WriteCancelled \/ EndUpload \/ AbortUpload \/ DropUpload \/ Reply \/ Close
    \/ WsQuiet \/ WsBytes \/ \E c \in Sockets : WsConnected(c) \/ WsDisconnected(c)
    \/ \E c \in Sockets, n \in Names : WsStart(c, n)

Next == StartServer \/ CloseScreen \/ Main \/ Sampler \/ Send \/ PressKey \/ ReleaseKey

\* Both tasks run on; the client, the person and the manager do as they like.
FairSpec == Init /\ [][Next]_vars /\ WF_vars(Main) /\ WF_vars(Sampler)

Spec == Init /\ [][Next]_vars

-----------------------------------------------------------------------------
(* Properties.                                                              *)

\* The sampler runs only while its latch and its server live, and the tap it
\* latches was pressed and let go in this session: a key held on entry leaves
\* nothing, and stop() lets nothing be destroyed or restarted under it.
SamplerStaysInItsSession ==
    /\ sp # "none" => task /\ server /\ mpc \notin {"off", "down"}
    /\ Latched => tapped

\* The read side that a tap shuts is the upload's, never the one of a later
\* connection that got the same number.
OnlyUploadsAreCut == shut \cap peers = {} /\ (mpc = "headers" => conn \notin shut)

\* A half written file is being written by one upload, or was left behind: by a
\* full card, a restart, a card that would not remove it, or as a copy of a half.
\* No upload writes what was left behind or what another one writes, unless a
\* request pulled the name away while it was written.  What a PUT or a
\* COPY replaces stays whole until the new one is (WebDAVHandler.cpp:86, 107, 695).
PartsAreBeingWritten ==
    /\ \A n \in Names \ pulled : file[n] = "part" <=> n \in {http, wsName} \cup orphans
    /\ http = wsName => http \in pulled \cup {None}

\* A latched tap ends the session, although the client may trickle on for ever,
\* unless it is a PUT that does.
TapEndsTheSession == []<>(mpc # "putting") => (Latched ~> mpc = "off")

\* CrossPointWebServerActivity.cpp:394: "A slow or stalled upload keeps
\* handleClient() busy for as long as bytes trickle in; a Back tap latched
\* meanwhile ends it instead of waiting behind it."  A PUT is not ended.
TapEndsAnyUpload == Latched ~> mpc = "off"

\* CrossPointWebServerActivity.cpp:396: "A stalled upload asks no cancel: the tap
\* itself cuts its socket."  So an upload that is read after the tap's hook has
\* run has its read side shut.
TapCutsTheUpload ==
    fired /\ sp = "poll" /\ mpc = "reading" /\ noted # None => noted \in shut
=============================================================================
