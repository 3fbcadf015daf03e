------------------------------- MODULE Login --------------------------------
(***************************************************************************)
(* How a client gets into the game: CServer's states of a client, the      *)
(* player of CGameContext, and CClient's way through the map.  All         *)
(* messages are vital, so each direction is a queue (see NetChannel).  The *)
(* server may load another map at any time, and the client may connect     *)
(* again from the same address before the server noticed that it was gone. *)
(***************************************************************************)
EXTENDS Integers, Sequences, SequencesExt

CONSTANTS
  Maps,         \* the maps there are, numbers
  FirstMap,     \* the map the server starts with
  OnDisk,       \* the maps the client has
  NumChunks,    \* the chunks of a map
  MapWindow,    \* sv_map_window: the chunks sent ahead
  MaxReloads,   \* bound: maps loaded while the server runs
  MaxRejoins    \* bound: times the client connects again

ASSUME LoginAssumption ==
  /\ Maps \subseteq Nat \ {0} /\ FirstMap \in Maps /\ OnDisk \subseteq Maps
  /\ {NumChunks, MapWindow} \subseteq Nat \ {0}
  /\ {MaxReloads, MaxRejoins} \subseteq Nat

VARIABLES
  srv,     \* the client's slot in CServer and its player in CGameContext
  cl,      \* CClient
  up,      \* vital messages to the server
  down,    \* vital messages to the client
  counts   \* history: reloads and rejoins so far; the login went wrong

loginVars == <<srv, cl, up, down, counts>>

Chunks == 0..(NumChunks - 1)
UpMessages ==
  {[kind |-> k] : k \in {"ver", "info", "ready", "startinfo", "entergame"}}
    \cup [kind : {"request"}, chunk : Chunks]
DownMessages ==
  {[kind |-> k] : k \in {"con_ready", "readytoenter"}}
    \cup [kind : {"map"}, map : Maps] \cup [kind : {"data"}, map : Maps, chunk : Chunks]

LoginTypeOK ==
  /\ srv \in [state : {"preauth", "auth", "connecting", "ready", "ingame"}, map : Maps,
              nextChunk : Nat, player : {"none", "new", "ready"}]
  /\ cl \in [state : {"loading", "online"}, map : Maps \cup {0}, target : Maps \cup {0},
             via : {"none", "http", "slow"}, chunk : Chunks, disk : SUBSET Maps,
             received : 0..3]
  /\ up \in Seq(UpMessages)
  /\ down \in Seq(DownMessages)

Connected ==
  [state |-> "loading", map |-> 0, target |-> 0, via |-> "none", chunk |-> 0,
   disk |-> OnDisk, received |-> 0]

\* the connection is up: the slot is taken, the client has sent its version and its info
LoginInit ==
  /\ srv = [state |-> "preauth", map |-> FirstMap, nextChunk |-> 0, player |-> "none"]
  /\ cl = Connected
  /\ up = <<[kind |-> "ver"], [kind |-> "info"]>>
  /\ down = <<>>
  /\ counts = [reloads |-> 0, rejoins |-> 0, crossed |-> FALSE]

Pending(q, kind) == \E i \in DOMAIN q : q[i].kind = kind

\* the client has yet to hear of a map or to fetch it
Waits == Pending(down, "map") \/ cl.target # 0

-----------------------------------------------------------------------------
(* CServer: what the client's messages do *)

Gets(kind) == up # <<>> /\ Head(up).kind = kind /\ up' = Tail(up)

SendMap(map) == <<[kind |-> "map", map |-> map]>>

\* OnNetMsgClientVer
ClientVer ==
  /\ Gets("ver")
  /\ srv' = [srv EXCEPT !.state = IF @ = "preauth" THEN "auth" ELSE @]
  /\ UNCHANGED <<cl, down, counts>>

\* NETMSG_INFO, of the right version and with the right password
Info ==
  /\ Gets("info")
  /\ IF srv.state \in {"preauth", "auth"}
       THEN /\ srv' = [srv EXCEPT !.state = "connecting", !.nextChunk = 0]
            /\ down' = down \o SendMap(srv.map)
       ELSE UNCHANGED <<srv, down>>
  /\ UNCHANGED <<cl, counts>>

\* a chunk the map does not have is not sent
SendMapData(chunk) ==
  IF chunk \in Chunks THEN <<[kind |-> "data", map |-> srv.map, chunk |-> chunk]>> ELSE <<>>

\* the first request is answered with the chunks of a window
SendWindow ==
  [i \in 1..(IF MapWindow < NumChunks THEN MapWindow ELSE NumChunks) |->
     [kind |-> "data", map |-> srv.map, chunk |-> i - 1]]

\* variant: the window is moved before its last chunk is sent
AnswerLate(chunk) ==
  IF chunk # srv.nextChunk
    THEN SendMapData(chunk)
    ELSE (IF chunk = 0 THEN SendWindow ELSE <<>>) \o SendMapData(MapWindow + chunk + 1)

\* the chunk that was asked for, or those of the window the client does not have yet
Answer(chunk) ==
  IF chunk # srv.nextChunk
    THEN SendMapData(chunk)
    ELSE (IF chunk = 0 THEN SendWindow ELSE <<>>) \o SendMapData(MapWindow + chunk)

RequestMapData ==
  /\ Gets("request")
  /\ LET chunk == Head(up).chunk
     IN  IF srv.state \in {"preauth", "auth"}
           THEN UNCHANGED <<srv, down>>
           ELSE /\ down' = down \o Answer(chunk)
                /\ srv' = [srv EXCEPT !.nextChunk = IF @ = chunk THEN @ + 1 ELSE @]
  /\ UNCHANGED <<cl, counts>>

\* OnNetMsgReady: the first one makes the player
Ready ==
  /\ Gets("ready")
  /\ IF srv.state = "connecting"
       THEN srv' = [srv EXCEPT !.state = "ready", !.player = "new"]
       ELSE UNCHANGED srv
  /\ down' = Append(down, [kind |-> "con_ready"])
  /\ UNCHANGED <<cl, counts>>

\* OnStartInfoNetMessage, once for a player
StartInfo ==
  /\ Gets("startinfo")
  /\ IF srv.state \in {"ready", "ingame"} /\ srv.player = "new"
       THEN /\ srv' = [srv EXCEPT !.player = "ready"]
            /\ down' = Append(down, [kind |-> "readytoenter"])
       ELSE UNCHANGED <<srv, down>>
  /\ UNCHANGED <<cl, counts>>

\* OnNetMsgEnterGame
EnterGame ==
  /\ Gets("entergame")
  /\ srv' = [srv EXCEPT !.state = IF @ = "ready" /\ srv.player = "ready" THEN "ingame" ELSE @]
  /\ UNCHANGED <<cl, down, counts>>

\* variant: the player of the old map stays
LoadMapKeeping(map) ==
  /\ counts.reloads < MaxReloads
  /\ counts' = [counts EXCEPT !.reloads = @ + 1]
  /\ srv' = IF srv.state \in {"preauth", "auth"}
              THEN [srv EXCEPT !.map = map]
              ELSE [srv EXCEPT !.map = map, !.state = "connecting", !.nextChunk = 0]
  /\ down' = IF srv.state \in {"preauth", "auth"} THEN down ELSE down \o SendMap(map)
  /\ UNCHANGED <<cl, up>>

\* the main loop loads a map: all players are gone, the clients begin again
LoadMap(map) ==
  /\ counts.reloads < MaxReloads
  /\ counts' = [counts EXCEPT !.reloads = @ + 1]
  /\ srv' = IF srv.state \in {"preauth", "auth"}
              THEN [srv EXCEPT !.map = map]
              ELSE [state |-> "connecting", map |-> map, nextChunk |-> 0, player |-> "none"]
  /\ down' = IF srv.state \in {"preauth", "auth"} THEN down ELSE down \o SendMap(map)
  /\ UNCHANGED <<cl, up>>

\* ClientRejoinCallback: the slot stays in its state, what was on its way is lost
Rejoin ==
  /\ counts.rejoins < MaxRejoins
  /\ counts' = [counts EXCEPT !.rejoins = @ + 1,
                              !.crossed = @ \/ (srv.state = "ready" /\ srv.player = "ready")]
  /\ srv' = [srv EXCEPT !.nextChunk = 0]
  /\ cl' = [Connected EXCEPT !.disk = cl.disk]
  /\ up' = <<[kind |-> "ver"], [kind |-> "info"]>>
  /\ down' = SendMap(srv.map)

-----------------------------------------------------------------------------
(* CClient: what the server's messages do *)

Hears(kind) == down # <<>> /\ Head(down).kind = kind /\ down' = Tail(down)
Says(message) == up' = Append(up, message)

\* the map is there: it is loaded and the server told so
Loaded(map) ==
  /\ cl' = [cl EXCEPT !.state = "loading", !.map = map, !.target = 0, !.via = "none",
                      !.chunk = 0, !.disk = @ \cup {map}]
  /\ Says([kind |-> "ready"])

\* it is not: it is fetched from the web if its hash is known, else from the server; the map
\* that was loaded stays until then
StartDownload(map) ==
  \/ /\ cl' = [cl EXCEPT !.state = "loading", !.target = map, !.via = "http", !.chunk = 0]
     /\ UNCHANGED up
  \/ /\ cl' = [cl EXCEPT !.state = "loading", !.target = map, !.via = "slow", !.chunk = 0]
     /\ Says([kind |-> "request", chunk |-> 0])

\* variant: a download is not disturbed
MapChangeBusy ==
  /\ Hears("map")
  /\ LET map == Head(down).map
     IN  IF cl.target # 0 THEN UNCHANGED <<cl, up>>
         ELSE IF map \in cl.disk THEN Loaded(map) ELSE StartDownload(map)
  /\ UNCHANGED <<srv, counts>>

MapChange ==
  /\ Hears("map")
  /\ LET map == Head(down).map
     IN  IF map \in cl.disk THEN Loaded(map) ELSE StartDownload(map)
  /\ UNCHANGED <<srv, counts>>

\* NETMSG_MAP_DATA: the chunk that comes next, of the map that is fetched
MapData ==
  /\ Hears("data")
  /\ LET d == Head(down)
     IN  /\ IF cl.via # "slow" \/ d.map # cl.target \/ d.chunk # cl.chunk
              THEN UNCHANGED <<cl, up>>
              ELSE IF d.chunk = NumChunks - 1
                THEN Loaded(cl.target)
                ELSE /\ cl' = [cl EXCEPT !.chunk = @ + 1]
                     /\ Says([kind |-> "request", chunk |-> d.chunk + 1])
         /\ counts' = [counts EXCEPT !.crossed = @ \/ (cl.via = "http" /\ d.map = cl.target)]
  /\ UNCHANGED srv

\* Update: the file came from the web
HttpDone ==
  /\ cl.via = "http"
  /\ Loaded(cl.target)
  /\ UNCHANGED <<srv, down, counts>>

\* it did not, or was not the right one
HttpFails ==
  /\ cl.via = "http"
  /\ cl' = [cl EXCEPT !.via = "slow"]
  /\ Says([kind |-> "request", chunk |-> cl.chunk])
  /\ UNCHANGED <<srv, down, counts>>

\* NETMSG_CON_READY: OnConnected
ConReady ==
  /\ Hears("con_ready")
  /\ Says([kind |-> "startinfo"])
  /\ UNCHANGED <<srv, cl, counts>>

\* variant: the snapshots of the map before count
ReadyToEnterCounting ==
  /\ Hears("readytoenter")
  /\ Says([kind |-> "entergame"])
  /\ UNCHANGED <<srv, cl, counts>>

\* NETMSGTYPE_SV_READYTOENTER: EnterGame, OnEnterGame
ReadyToEnter ==
  /\ Hears("readytoenter")
  /\ Says([kind |-> "entergame"])
  /\ cl' = [cl EXCEPT !.received = 0]
  /\ UNCHANGED <<srv, counts>>

\* a snapshot arrives; received counts no further than the code tells apart
Snapshot ==
  /\ srv.state = "ingame"
  /\ cl.received < 3
  /\ cl' = [cl EXCEPT !.received = @ + 1, !.state = IF cl.received = 1 THEN "online" ELSE @]
  /\ counts' = [counts EXCEPT !.crossed = @ \/ (cl.received = 1 /\ Waits)]
  /\ UNCHANGED <<srv, up, down>>

Serve == ClientVer \/ Info \/ RequestMapData \/ Ready \/ StartInfo \/ EnterGame
Follow == MapChange \/ MapData \/ ConReady \/ ReadyToEnter
Http == HttpDone \/ HttpFails

LoginNext ==
  \/ Serve \/ Follow \/ Http \/ Snapshot
  \/ \E map \in Maps : LoadMap(map)
  \/ Rejoin

LoginSpec == LoginInit /\ [][LoginNext]_loginVars

(* Vital messages arrive (NetChannel), requests of the web end (Http), and enough snapshots
   arrive.  No map need be loaded, and no client need connect again. *)
LoginFairness ==
  /\ WF_loginVars(Serve) /\ WF_loginVars(Follow) /\ WF_loginVars(Http) /\ WF_loginVars(Snapshot)
LoginFairSpec == LoginSpec /\ LoginFairness

-----------------------------------------------------------------------------
(* The game has a player for the slot exactly while CServer calls it ready or more, and a
   client that is in the game has a player that sent its info: OnMessage and OnClientDrop
   use the player without another look (server.cpp, gamecontext.cpp). *)
PlayerFollowsState ==
  /\ srv.player # "none" <=> srv.state \in {"ready", "ingame"}
  /\ srv.state = "ingame" => srv.player = "ready"

(* The states of the slot and of its player keep their types and agree. *)
LoginInv == LoginTypeOK /\ PlayerFollowsState

(* When no change of the map is on its way, a client the server waits for or plays with has
   loaded the server's map, or fetches just this map. *)
MapAgrees ==
  srv.state \notin {"preauth", "auth"} /\ ~Pending(down, "map") =>
    IF cl.target = 0 THEN cl.map = srv.map ELSE cl.target = srv.map

(* A download ends, whatever requests for the map before are still answered, unless the server
   sent its window of chunks while the client tried the web: it never sends them again. *)
DownloadEnds == cl.target # 0 ~> cl.target = 0 \/ counts.crossed

(* The client comes to play, after every change of the map, however the messages cross, unless
   it came again between its start info and the game, two snapshots reached it before its map
   did, or the download hung: then it waits in the loading screen for ever. *)
ComesOnline == [](counts.crossed = FALSE) => <>[](cl.state = "online")

=============================================================================
