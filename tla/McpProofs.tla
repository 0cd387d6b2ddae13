------------------------------ MODULE McpProofs ------------------------------
(***************************************************************************)
(* Theorems about McpServers, for any servers, calls and hot swaps, and    *)
(* about McpClient, for any callers, time limits and server.               *)
(***************************************************************************)
EXTENDS McpServers, McpClient, SequenceTheorems, TLAPS

-----------------------------------------------------------------------------
(* The servers: types.                                                     *)

LEMMA GensAre == Gens \subseteq Nat /\ 0 \in Gens /\ NoManager \notin Gens /\ 1..Swaps = Gens \ {0}
  BY McpAssumption DEF Gens

LEMMA CancelledIs ==
    ASSUME NEW t
    PROVE  /\ t \in Unfinished => Cancelled(t) \in {"closing", "done", "stuck"}
           /\ t \in {"none", "done"} => Cancelled(t) = t
  BY DEF Unfinished, Cancelled

StatusMaps == [Gens -> [Names -> {"none", "starting", "ready", "failed", "disconnected"}]]

LEMMA MarkedIs ==
    ASSUME NEW st \in StatusMaps,
           cur \in Gens, NEW g \in Gens, NEW n \in Names
    PROVE  /\ Held(g) \in Gens
           /\ Marked(st, g, n) \in StatusMaps
           /\ \A h \in Gens, m \in Names :
                 Marked(st, g, n)[h][m] = IF h = Held(g) /\ m = n /\ ~ Gone(st, g, n)
                                          THEN "disconnected" ELSE st[h][m]
<1>1. Held(g) \in Gens
  BY DEF Held
<1>2. CASE Gone(st, g, n)
  BY <1>1, <1>2 DEF Marked, StatusMaps
<1>3. CASE ~ Gone(st, g, n)
  <2>1. Marked(st, g, n) = [st EXCEPT ![Held(g)] = [@ EXCEPT ![n] = "disconnected"]]
    BY <1>3 DEF Marked
  <2>. QED BY <1>1, <1>3, <2>1 DEF StatusMaps
<1>. QED BY <1>1, <1>2, <1>3

LEMMA UnregisterTypes ==
    ASSUME tool \in [Names -> Gens \cup {NoManager}], NEW servers, UnregisterServers(servers)
    PROVE  /\ tool' \in [Names -> Gens \cup {NoManager}]
           /\ \A n \in Names : tool'[n] \in {tool[n], NoManager}
           /\ \A n \in Names \cap servers : tool'[n] = NoManager
  BY McpAssumption DEF UnregisterServers

LEMMA DisconnectedIs ==
    ASSUME ServersTypeOK, NEW g \in Gens, NEW n \in Names, Disconnected(status, g, n)
    PROVE  /\ status' \in StatusMaps
           /\ tool' \in [Names -> Gens \cup {NoManager}]
           /\ \A m \in Names : tool'[m] \in {tool[m], NoManager}
           /\ Held(g) \in Gens
           /\ \A h \in Gens, m \in Names :
                 \/ status'[h][m] = status[h][m]
                 \/ /\ h = Held(g) /\ m = n
                    /\ status[h][m] \notin {"none", "disconnected"}
                    /\ status'[h][m] = "disconnected" /\ tool'[m] = NoManager
           /\ status[Held(g)][n] \notin {"none", "disconnected"} => tool'[n] = NoManager
<1>1. status \in StatusMaps /\ cur \in Gens /\ tool \in [Names -> Gens \cup {NoManager}]
  BY DEF ServersTypeOK, StatusMaps
<1>2. /\ status' \in StatusMaps /\ Held(g) \in Gens
      /\ \A h \in Gens, m \in Names :
            status'[h][m] = IF h = Held(g) /\ m = n /\ ~ Gone(status, g, n)
                            THEN "disconnected" ELSE status[h][m]
  BY <1>1, MarkedIs DEF Disconnected
<1>3. CASE Gone(status, g, n)
  BY <1>1, <1>2, <1>3 DEF Disconnected, Gone
<1>4. CASE ~ Gone(status, g, n)
  <2>1. /\ tool' \in [Names -> Gens \cup {NoManager}]
        /\ \A m \in Names : tool'[m] \in {tool[m], NoManager}
        /\ tool'[n] = NoManager
    BY <1>1, <1>4, UnregisterTypes DEF Disconnected
  <2>. QED BY <1>2, <1>4, <2>1 DEF Gone
<1>. QED BY <1>3, <1>4

LEMMA StartTypes ==
    ASSUME ServersTypeOK, NEW g \in Gens, NEW n \in Names, StartStep(g, n) \/ ListingLost(g, n)
    PROVE  ServersTypeOK'
<1>1. CASE Connected(g, n)
  BY <1>1 DEF ServersTypeOK, Connected, Unfinished
<1>2. CASE ToolsListed(g, n)
  BY <1>2 DEF ServersTypeOK, ToolsListed, Unfinished
<1>3. CASE ServerReady(g, n)
  BY <1>3 DEF ServersTypeOK, ServerReady
<1>4. CASE StartFails(g, n)
  <2>1. /\ task' \in [Gens -> [Names -> Unfinished \cup {"none", "done"}]]
        /\ UNCHANGED <<row, cur, conn, swap, call, overtaken>>
    BY <1>4 DEF ServersTypeOK, StartFails, Unfinished
  <2>2. CASE EndOfOutput(g, n)
    <3>. DEFINE marked == Marked(status, g, n)
    <3>1. /\ status' = [marked EXCEPT ![g] = [@ EXCEPT ![n] = "failed"]]
          /\ callback' = [callback EXCEPT ![g] = @ \ {n}]
      BY <1>4, <2>2 DEF StartFails
    <3>3. marked \in StatusMaps
      BY MarkedIs DEF ServersTypeOK, StatusMaps
    <3>. HIDE DEF marked
    <3>4. status' \in StatusMaps /\ callback' \in [Gens -> SUBSET Names]
      BY <3>1, <3>3 DEF StatusMaps, ServersTypeOK
    <3>2. tool' \in [Names -> Gens \cup {NoManager}]
      BY <1>4, <2>2, UnregisterTypes DEF StartFails, ServersTypeOK
    <3>. QED BY <2>1, <3>2, <3>4 DEF ServersTypeOK, StatusMaps
  <2>3. CASE ~ EndOfOutput(g, n)
    <3>1. /\ status' = [status EXCEPT ![g] = [@ EXCEPT ![n] = "failed"]]
          /\ UNCHANGED <<tool, callback>>
      BY <1>4, <2>3 DEF StartFails
    <3>2. status' \in StatusMaps
      BY <3>1 DEF StatusMaps, ServersTypeOK
    <3>. QED BY <2>1, <3>1, <3>2 DEF ServersTypeOK, StatusMaps
  <2>. QED BY <2>2, <2>3
<1>5. CASE StartCloses(g, n)
  <2>1. /\ task' \in [Gens -> [Names -> Unfinished \cup {"none", "done"}]]
        /\ conn' \in [Gens -> [Names -> {"none", "open", "dead"}]]
        /\ callback' \in [Gens -> SUBSET Names]
        /\ UNCHANGED <<row, cur, swap, call, overtaken>>
    <3>1. PICK to \in {"stuck", "done"} : task' = [task EXCEPT ![g][n] = to]
      BY <1>5 DEF StartCloses
    <3>2. UNCHANGED conn \/ conn' = [conn EXCEPT ![g][n] = "none"]
      BY <1>5 DEF StartCloses
    <3>3. /\ callback' = [callback EXCEPT ![g] = @ \ {n}]
          /\ UNCHANGED <<row, cur, swap, call, overtaken>>
      BY <1>5 DEF StartCloses
    <3>4. task' \in [Gens -> [Names -> Unfinished \cup {"none", "done"}]]
      BY <3>1 DEF ServersTypeOK, Unfinished
    <3>5. conn' \in [Gens -> [Names -> {"none", "open", "dead"}]]
      <4>1. conn \in [Gens -> [Names -> {"none", "open", "dead"}]]
        BY DEF ServersTypeOK
      <4>. QED BY <3>2, <4>1
    <3>6. callback' \in [Gens -> SUBSET Names]
      BY <3>3 DEF ServersTypeOK
    <3>. QED BY <3>3, <3>4, <3>5, <3>6
  <2>2. status' \in StatusMaps /\ tool' \in [Names -> Gens \cup {NoManager}]
    BY <1>5, DisconnectedIs DEF StartCloses
  <2>. QED BY <2>1, <2>2 DEF ServersTypeOK, StatusMaps
<1>6. CASE ListingLost(g, n)
  <2>1. status' \in StatusMaps /\ tool' \in [Names -> Gens \cup {NoManager}]
    BY <1>6, DisconnectedIs DEF ListingLost
  <2>. QED BY <1>6, <2>1 DEF ServersTypeOK, ListingLost, StatusMaps
<1>. QED BY <1>1, <1>2, <1>3, <1>4, <1>5, <1>6 DEF StartStep

LEMMA PeerTypes ==
    ASSUME ServersTypeOK, NEW g \in Gens, NEW n \in Names, PeerDies(g, n)
    PROVE  ServersTypeOK'
<1>1. /\ conn' \in [Gens -> [Names -> {"none", "open", "dead"}]]
      /\ UNCHANGED <<row, cur, swap, call, overtaken>>
  BY DEF ServersTypeOK, PeerDies
<1>2. CASE Kind[n] = "sse" /\ n \in callback[g]
  <2>1. /\ task' \in [Gens -> [Names -> Unfinished \cup {"none", "done"}]]
        /\ callback' \in [Gens -> SUBSET Names]
    <3>1. UNCHANGED task \/ task' = [task EXCEPT ![g][n] = "stuck"]
      BY <1>2 DEF PeerDies
    <3>2. callback' = [callback EXCEPT ![g] = @ \ {n}]
      BY <1>2 DEF PeerDies
    <3>3. task' \in [Gens -> [Names -> Unfinished \cup {"none", "done"}]]
      <4>1. /\ task \in [Gens -> [Names -> Unfinished \cup {"none", "done"}]]
            /\ "stuck" \in Unfinished
        BY DEF ServersTypeOK, Unfinished
      <4>. QED BY <3>1, <4>1
    <3>4. callback' \in [Gens -> SUBSET Names]
      BY <3>2 DEF ServersTypeOK
    <3>. QED BY <3>3, <3>4
  <2>2. status' \in StatusMaps /\ tool' \in [Names -> Gens \cup {NoManager}]
    BY <1>2, DisconnectedIs DEF PeerDies
  <2>. QED BY <1>1, <2>1, <2>2 DEF ServersTypeOK, StatusMaps
<1>3. CASE ~ (Kind[n] = "sse" /\ n \in callback[g])
  BY <1>1, <1>3 DEF ServersTypeOK, PeerDies
<1>. QED BY <1>2, <1>3

LEMMA CallIs ==
    ASSUME ServersTypeOK, NEW c \in ToolCalls, call[c] # NoCall
    PROVE  call[c] \in [server : Names, wrapper : Gens, client : Gens]
  BY DEF ServersTypeOK, CallRecord

\* What the loss of a server under a call does to the statuses and tools.
LEMMA LostIs ==
    ASSUME ServersTypeOK, NEW c \in ToolCalls, CallLost(c)
    PROVE  LET n == call[c].server
               w == call[c].wrapper
               d == call[c].client
           IN  /\ n \in Names /\ w \in Gens /\ d \in Gens
               /\ Held(d) \in Gens /\ Held(w) \in Gens
               /\ status' \in StatusMaps
               /\ tool' \in [Names -> Gens \cup {NoManager}]
               /\ \A m \in Names : tool'[m] \in {tool[m], NoManager}
               /\ \A h \in Gens, m \in Names :
                     \/ status'[h][m] = status[h][m]
                     \/ /\ h \in {Held(d), Held(w)} /\ m = n
                        /\ status[h][m] \notin {"none", "disconnected"}
                        /\ status'[h][m] = "disconnected" /\ tool'[m] = NoManager
<1>. DEFINE n == call[c].server
            w == call[c].wrapper
            d == call[c].client
            seen == IF EndOfOutput(d, n) THEN Marked(status, d, n) ELSE status
<1>1. n \in Names /\ w \in Gens /\ d \in Gens
  BY CallIs DEF CallLost
<1>2. /\ status' = Marked(seen, w, n)
      /\ UnregisterServers(IF status' = status THEN {} ELSE {n})
  BY DEF CallLost
<1>3. status \in StatusMaps /\ tool \in [Names -> Gens \cup {NoManager}] /\ cur \in Gens
  BY DEF ServersTypeOK, StatusMaps
<1>. HIDE DEF n, w, d
<1>4. /\ seen \in StatusMaps /\ Held(d) \in Gens
      /\ \A h \in Gens, m \in Names :
            \/ seen[h][m] = status[h][m]
            \/ /\ h = Held(d) /\ m = n
               /\ status[h][m] \notin {"none", "disconnected"}
               /\ seen[h][m] = "disconnected"
  <2>1. Held(d) \in Gens
    BY <1>1, <1>3 DEF Held
  <2>2. CASE EndOfOutput(d, n)
    <3>1. seen = Marked(status, d, n)
      BY <2>2
    <3>. QED BY <1>1, <1>3, <2>1, <3>1, MarkedIs DEF Gone
  <2>. QED BY <1>3, <2>1, <2>2
<1>. HIDE DEF seen
<1>5. /\ status' \in StatusMaps /\ Held(w) \in Gens
      /\ \A h \in Gens, m \in Names :
            \/ status'[h][m] = seen[h][m]
            \/ /\ h = Held(w) /\ m = n
               /\ seen[h][m] \notin {"none", "disconnected"}
               /\ status'[h][m] = "disconnected"
  <2>1. /\ Held(w) \in Gens /\ Marked(seen, w, n) \in StatusMaps
        /\ \A h \in Gens, m \in Names :
              Marked(seen, w, n)[h][m] = IF h = Held(w) /\ m = n /\ ~ Gone(seen, w, n)
                                         THEN "disconnected" ELSE seen[h][m]
    BY <1>1, <1>3, <1>4, MarkedIs
  <2>. QED BY <1>2, <2>1 DEF Gone
<1>6. \A h \in Gens, m \in Names :
         \/ status'[h][m] = status[h][m]
         \/ /\ h \in {Held(d), Held(w)} /\ m = n
            /\ status[h][m] \notin {"none", "disconnected"}
            /\ status'[h][m] = "disconnected"
  BY <1>4, <1>5
<1>7. /\ tool' \in [Names -> Gens \cup {NoManager}]
      /\ \A m \in Names : tool'[m] \in {tool[m], NoManager}
      /\ status' # status => tool'[n] = NoManager
  BY <1>1, <1>2, <1>3, UnregisterTypes
<1>8. ASSUME NEW h \in Gens, NEW m \in Names, status'[h][m] # status[h][m]
      PROVE  tool'[m] = NoManager
  BY <1>6, <1>7, <1>8
<1>. QED BY <1>1, <1>4, <1>5, <1>6, <1>7, <1>8 DEF n, w, d

LEMMA CallTypes ==
    ASSUME ServersTypeOK, NEW c \in ToolCalls,
           CallEnds(c) \/ CallLost(c) \/ \E n \in Names : CallBegins(c, n)
    PROVE  ServersTypeOK'
<1>1. CASE CallEnds(c)
  BY <1>1 DEF ServersTypeOK, CallEnds, CallRecord
<1>2. CASE CallLost(c)
  <2>1. /\ call' \in [ToolCalls -> CallRecord] /\ UNCHANGED <<row, cur, task, conn, swap, overtaken>>
    BY <1>2 DEF ServersTypeOK, CallLost, CallRecord
  <2>2. callback' \in [Gens -> SUBSET Names]
    BY <1>2, LostIs DEF ServersTypeOK, CallLost
  <2>3. status' \in StatusMaps /\ tool' \in [Names -> Gens \cup {NoManager}]
    BY <1>2, LostIs
  <2>. QED BY <2>1, <2>2, <2>3 DEF ServersTypeOK, StatusMaps
<1>3. ASSUME NEW n \in Names, CallBegins(c, n) PROVE ServersTypeOK'
  <2>1. tool[n] \in Gens /\ Held(tool[n]) \in Gens
    BY <1>3, GensAre DEF CallBegins, Registered, ServersTypeOK, Held
  <2>. QED BY <1>3, <2>1 DEF ServersTypeOK, CallBegins, CallRecord
<1>. QED BY <1>1, <1>2, <1>3

LEMMA DisableTypes ==
    ASSUME ServersTypeOK, NEW servers \in SUBSET Names, Disable(servers)
    PROVE  /\ tool' \in [Names -> Gens \cup {NoManager}]
           /\ status' \in StatusMaps
           /\ task' \in [Gens -> [Names -> Unfinished \cup {"none", "done"}]]
<1>1. tool' \in [Names -> Gens \cup {NoManager}]
  BY UnregisterTypes DEF Disable, ServersTypeOK
<1>2. status' \in StatusMaps
  BY DEF Disable, ServersTypeOK, StatusMaps
<1>3. task' \in [Gens -> [Names -> Unfinished \cup {"none", "done"}]]
  BY CancelledIs DEF Disable, ServersTypeOK, Unfinished
<1>. QED BY <1>1, <1>2, <1>3

LEMMA RequestTypes == ASSUME ServersTypeOK, Requests PROVE ServersTypeOK'
<1>1. ASSUME NEW n \in Names, NEW as \in RowStates, CreateServer(n, as) PROVE ServersTypeOK'
  BY <1>1 DEF ServersTypeOK, CreateServer
<1>2. ASSUME NEW n \in Names, DeleteServer(n) PROVE ServersTypeOK'
  <2>1. /\ row' \in [Names -> RowStates] /\ UNCHANGED <<cur, conn, callback, swap, call, overtaken>>
    BY <1>2 DEF ServersTypeOK, DeleteServer, RowStates
  <2>2. CASE Disable({n})
    <3>1. {n} \in SUBSET Names
      OBVIOUS
    <3>. QED BY <2>1, <2>2, <3>1, DisableTypes DEF ServersTypeOK, StatusMaps
  <2>3. CASE UNCHANGED <<tool, status, task>>
    BY <2>1, <2>3 DEF ServersTypeOK
  <2>. QED BY <1>2, <2>2, <2>3 DEF DeleteServer
<1>3. ASSUME NEW n \in Names, NEW as \in RowStates, NEW stop \in SUBSET Names,
             RequestSwap(n, as, stop)
      PROVE  ServersTypeOK'
  <2>1. /\ row' \in [Names -> RowStates]
        /\ UNCHANGED <<tool, cur, status, task, conn, callback, call, overtaken>>
    BY <1>3 DEF ServersTypeOK, RequestSwap
  <2>2. swap' \in [1..Swaps -> SwapRecord]
    <3>1. CASE Wired
      <4>1. PICK g \in 1..Swaps :
                swap' = [swap EXCEPT ![g] = [@ EXCEPT !.pc = "written", !.stop = stop]]
        BY <1>3, <3>1 DEF RequestSwap
      <4>2. swap \in [1..Swaps -> SwapRecord] /\ swap[g] \in SwapRecord
        BY DEF ServersTypeOK
      <4>3. [swap[g] EXCEPT !.pc = "written", !.stop = stop] \in SwapRecord
        BY <4>2 DEF SwapRecord
      <4>. QED BY <4>1, <4>2, <4>3
    <3>2. CASE ~ Wired
      BY <1>3, <3>2 DEF ServersTypeOK, RequestSwap
    <3>. QED BY <3>1, <3>2
  <2>. QED BY <2>1, <2>2 DEF ServersTypeOK
<1>4. ASSUME NEW n \in Names, UpdateSwitchesOff(n) PROVE ServersTypeOK'
  BY <1>4 DEF ServersTypeOK, UpdateSwitchesOff, RowStates
<1>5. {"disabled", "enabled"} \subseteq RowStates /\ \A n \in Names : row[n] \in RowStates
  BY DEF RowStates, ServersTypeOK
<1>6. Edited \subseteq Names
  BY McpAssumption
<1>7. ASSUME \E n \in Names : \/ RequestSwap(n, "enabled", {}) \/ RequestSwap(n, "disabled", {n})
                               \/ RequestSwap(n, row[n], {n})
      PROVE  ServersTypeOK'
  <2>1. "enabled" \in RowStates /\ "disabled" \in RowStates
    BY DEF RowStates
  <2>2. \A n \in Names : {} \in SUBSET Names /\ {n} \in SUBSET Names
    OBVIOUS
  <2>. QED BY <1>3, <1>5, <1>7, <2>1, <2>2
<1>. QED BY <1>1, <1>2, <1>4, <1>5, <1>6, <1>7 DEF Requests

LEMMA SwapTypes ==
    ASSUME ServersTypeOK, NEW g \in 1..Swaps, SwapStep(g)
    PROVE  ServersTypeOK'
<1>1. /\ g \in Gens /\ swap[g] \in SwapRecord
  BY GensAre DEF ServersTypeOK
<1>2. CASE SwapReads(g)
  <2>1. status' \in StatusMaps
    BY <1>1, <1>2 DEF SwapReads, ServersTypeOK, StatusMaps
  <2>2. task' \in [Gens -> [Names -> Unfinished \cup {"none", "done"}]]
    BY <1>1, <1>2 DEF SwapReads, ServersTypeOK, Unfinished
  <2>3. swap' \in [1..Swaps -> SwapRecord] /\ overtaken' \subseteq Names
    BY <1>1, <1>2 DEF SwapReads, ServersTypeOK, SwapRecord
  <2>. QED BY <1>2, <2>1, <2>2, <2>3 DEF SwapReads, ServersTypeOK, StatusMaps
<1>3. CASE SwapInstalls(g)
  <2>1. tool' \in [Names -> Gens \cup {NoManager}]
    BY <1>3, UnregisterTypes DEF SwapInstalls, ServersTypeOK
  <2>2. status' \in StatusMaps
    BY <1>3 DEF SwapInstalls, ServersTypeOK, Dropped, StatusMaps
  <2>3. swap' \in [1..Swaps -> SwapRecord]
    <3>1. swap' = [swap EXCEPT ![g] = [@ EXCEPT !.pc = "closing", !.left = Clients(cur), !.old = cur]]
      BY <1>1, <1>3 DEF SwapInstalls, ServersTypeOK
    <3>2. Clients(cur) \subseteq Names /\ cur \in Gens /\ swap \in [1..Swaps -> SwapRecord]
      BY DEF Clients, ServersTypeOK
    <3>3. [swap[g] EXCEPT !.pc = "closing", !.left = Clients(cur), !.old = cur] \in SwapRecord
      BY <1>1, <3>2 DEF SwapRecord
    <3>. QED BY <3>1, <3>2, <3>3
  <2>. QED BY <1>1, <1>3, <2>1, <2>2, <2>3 DEF SwapInstalls, ServersTypeOK, StatusMaps
<1>4. ASSUME NEW n \in Names, SwapCloses(g, n) PROVE ServersTypeOK'
  <2>. DEFINE old == swap[g].old
  <2>1. old \in Gens
    BY <1>1 DEF SwapRecord
  <2>2. /\ swap' \in [1..Swaps -> SwapRecord] /\ UNCHANGED <<row, cur, task, call, overtaken>>
    <3>1. /\ swap' = [swap EXCEPT ![g].left = @ \ {n}]
          /\ UNCHANGED <<row, cur, task, call, overtaken>>
      BY <1>4 DEF SwapCloses
    <3>2. swap \in [1..Swaps -> SwapRecord]
      BY DEF ServersTypeOK
    <3>3. swap'[g] = [swap[g] EXCEPT !.left = swap[g].left \ {n}]
      BY <3>1, <3>2
    <3>4. swap'[g] \in SwapRecord
      BY <1>1, <3>3 DEF SwapRecord
    <3>5. \A h \in 1..Swaps \ {g} : swap'[h] = swap[h]
      BY <3>1, <3>2
    <3>6. swap' = [h \in 1..Swaps |-> swap'[h]]
      BY <3>1, <3>2
    <3>. QED BY <3>1, <3>2, <3>4, <3>5, <3>6
  <2>3. /\ conn' = [conn EXCEPT ![old][n] = "none"]
        /\ callback' = [callback EXCEPT ![old] = @ \ {n}]
        /\ Disconnected(status, old, n) \/ UNCHANGED <<tool, status>>
    BY <1>4 DEF SwapCloses
  <2>. HIDE DEF old
  <2>4. /\ conn' \in [Gens -> [Names -> {"none", "open", "dead"}]]
        /\ callback' \in [Gens -> SUBSET Names]
    BY <2>1, <2>3 DEF ServersTypeOK
  <2>5. status' \in StatusMaps /\ tool' \in [Names -> Gens \cup {NoManager}]
    BY <2>1, <2>3, DisconnectedIs DEF ServersTypeOK, StatusMaps
  <2>. QED BY <2>2, <2>4, <2>5 DEF ServersTypeOK, StatusMaps
<1>5. CASE SwapEnds(g)
  <2>1. swap' \in [1..Swaps -> SwapRecord] /\ swap[g].old \in Gens
    BY <1>1, <1>5 DEF SwapEnds, ServersTypeOK, SwapRecord
  <2>2. task' \in [Gens -> [Names -> Unfinished \cup {"none", "done"}]]
    <3>. DEFINE old == swap[g].old
                tasks == [n \in Names |-> Cancelled(task[old][n])]
    <3>1. \A n \in Names : task[old][n] \in Unfinished \cup {"none", "done"}
      BY <2>1 DEF ServersTypeOK
    <3>2. tasks \in [Names -> Unfinished \cup {"none", "done"}]
      BY <3>1, CancelledIs DEF Unfinished
    <3>3. task' = [task EXCEPT ![old] = tasks]
      BY <1>5, <2>1 DEF SwapEnds, ServersTypeOK
    <3>. HIDE DEF tasks, old
    <3>. QED BY <3>2, <3>3 DEF ServersTypeOK
  <2>. QED BY <1>5, <2>1, <2>2 DEF SwapEnds, ServersTypeOK
<1>6. CASE SwapStops(g)
  <2>1. swap[g].stop \subseteq Names
    BY <1>1 DEF SwapRecord
  <2>2. swap' \in [1..Swaps -> SwapRecord]
    <3>. DEFINE enabled == {n \in Names : row[n] = "enabled"}
    <3>1. swap' = [swap EXCEPT ![g] = [@ EXCEPT !.pc = "reading", !.stop = {}, !.configs = enabled]]
      BY <1>6 DEF SwapStops
    <3>2. enabled \subseteq Names
      OBVIOUS
    <3>. HIDE DEF enabled
    <3>3. [swap[g] EXCEPT !.pc = "reading", !.stop = {}, !.configs = enabled] \in SwapRecord
      BY <1>1, <3>2 DEF SwapRecord
    <3>. QED BY <3>1, <3>3 DEF ServersTypeOK
  <2>3. Disable(swap[g].stop) /\ UNCHANGED <<row, cur, conn, callback, call, overtaken>>
    BY <1>6 DEF SwapStops
  <2>4. /\ tool' \in [Names -> Gens \cup {NoManager}]
        /\ status' \in StatusMaps
        /\ task' \in [Gens -> [Names -> Unfinished \cup {"none", "done"}]]
    BY <2>1, <2>3, DisableTypes
  <2>. QED BY <2>2, <2>3, <2>4 DEF ServersTypeOK, StatusMaps
<1>. QED BY <1>2, <1>3, <1>4, <1>5, <1>6 DEF SwapStep

LEMMA ServersTypes == ASSUME ServersTypeOK, [ServersNext]_serversVars PROVE ServersTypeOK'
<1>1. CASE UNCHANGED serversVars
  BY <1>1 DEF serversVars, ServersTypeOK
<1>. QED BY <1>1, StartTypes, PeerTypes, CallTypes, RequestTypes, SwapTypes DEF ServersNext

-----------------------------------------------------------------------------
(* The servers: tools and transports.                                      *)

Begun(g) == swap[g].pc \notin {"idle", "written", "reading"}

Starting(g) == g # 0 /\ swap[g].pc = "starting"

Installed(g) == swap[g].pc \in {"closing", "done"}

\* A swap that has not begun has no manager yet; the manager that is used, and the
\* ones that were replaced, are the first one or were installed.
GensInv ==
    /\ \A g \in 1..Swaps : ~ Begun(g) =>
          \A n \in Names : tool[n] # g /\ status[g][n] = "none" /\ task[g][n] = "none"
                           /\ conn[g][n] = "none"
    /\ cur # 0 => Installed(cur)
    /\ \A g \in 1..Swaps : Installed(g) => swap[g].old = 0 \/ Installed(swap[g].old)

\* Once a swap has begun the first manager starts no server but the overtaken ones.
OvertakenInv ==
    \A n \in Names \ overtaken :
        task[0][n] \in Unfinished => \A g \in 1..Swaps : ~ Begun(g)

\* Where a server of a manager is.  One whose start is over no longer has a tool of
\* the first manager when the manager is installed.
StartInv(g, n) ==
    /\ status[g][n] = "ready" => task[g][n] = "done"
    /\ (g # 0 \/ cur = 0) /\ status[g][n] = "none" =>
          task[g][n] = "none" /\ conn[g][n] = "none"
    /\ g # 0 /\ task[g][n] = "none" => status[g][n] = "none"
    /\ Starting(g) /\ task[g][n] = "closing" => status[g][n] = "failed"
    /\ Starting(g) /\ task[g][n] = "done" /\ n \notin overtaken => tool[n] # 0
    /\ g # 0 /\ Installed(g) => task[g][n] \in {"none", "done"}

CallsInv ==
    \A c \in ToolCalls : call[c] # NoCall =>
        /\ task[call[c].client][call[c].server] = "done"
        /\ call[c].wrapper # 0 => call[c].client = call[c].wrapper

\* What is not left to be closed is closed.
ClosedInv ==
    \A g \in 1..Swaps :
        /\ swap[g].pc = "done" => swap[g].left = {}
        /\ Installed(g) => \A n \in Names \ (overtaken \cup swap[g].left) :
                               conn[swap[g].old][n] = "none"

ServersInv ==
    /\ ServersTypeOK
    /\ GensInv
    /\ OvertakenInv
    /\ \A g \in Gens, n \in Names : StartInv(g, n)
    /\ CallsInv
    /\ ClosedInv
    /\ ToolsHaveServer

\* What every step does that neither begins nor installs a swap.
ToolMoves ==
    \A n \in Names :
        \/ tool'[n] \in {tool[n], NoManager}
        \/ \E g \in Gens : tool'[n] = g /\ task[g][n] \in Unfinished /\ status'[g][n] = "ready"

StatusMoves ==
    \A g \in Gens, n \in Names :
        \/ status'[g][n] = status[g][n]
        \/ /\ status[g][n] # "none" /\ status'[g][n] = "disconnected"
           /\ tool'[n] = NoManager
           /\ Starting(g) => task'[g][n] # "closing"
        \/ status'[g][n] = "failed" /\ task[g][n] \in Unfinished
        \/ /\ status'[g][n] = "ready" /\ task[g][n] \in Unfinished
           /\ task'[g][n] = "done" /\ tool'[n] = g

TaskMoves ==
    \A g \in Gens, n \in Names :
        \/ task'[g][n] = task[g][n]
        \/ /\ task[g][n] \in Unfinished
           /\ task'[g][n] \in Unfinished \cup {"done"}
           /\ Starting(g) /\ task'[g][n] = "closing" => status'[g][n] = "failed"
           /\ Starting(g) /\ task'[g][n] = "done" => tool'[n] \in {g, NoManager}

ConnMoves ==
    \A g \in Gens, n \in Names :
        conn[g][n] = "none" /\ task[g][n] # "connect" => conn'[g][n] = "none"

CallMoves ==
    \A c \in ToolCalls :
        \/ call'[c] \in {call[c], NoCall}
        \/ /\ call'[c].client \in Gens /\ call'[c].server \in Names
           /\ task[call'[c].client][call'[c].server] = "done"
           /\ call'[c].wrapper # 0 => call'[c].client = call'[c].wrapper

SwapMoves ==
    \A g \in 1..Swaps :
        /\ swap'[g].pc # swap[g].pc =>
              {swap[g].pc, swap'[g].pc} \in {{"idle", "written"}, {"written", "reading"},
                                           {"closing", "done"}}
        /\ swap'[g].old = swap[g].old
        /\ \A n \in swap[g].left \ swap'[g].left : conn'[swap[g].old][n] = "none"
        /\ swap'[g].pc = "done" => swap'[g].left = {}

Moves ==
    /\ UNCHANGED <<cur, overtaken>>
    /\ ToolMoves /\ StatusMoves /\ TaskMoves /\ ConnMoves /\ CallMoves /\ SwapMoves

LEMMA PcStays ==
    ASSUME SwapMoves, NEW g \in 1..Swaps
    PROVE  /\ Begun(g)' <=> Begun(g)
           /\ Starting(g)' <=> Starting(g)
           /\ Installed(g)' <=> Installed(g)
<1>1. CASE swap'[g].pc = swap[g].pc
  BY <1>1 DEF Begun, Starting, Installed
<1>2. CASE {swap[g].pc, swap'[g].pc} \in {{"idle", "written"}, {"written", "reading"}}
  <2>1. /\ swap[g].pc \in {"idle", "written", "reading"}
        /\ swap'[g].pc \in {"idle", "written", "reading"}
    BY <1>2
  <2>. QED BY <2>1 DEF Begun, Starting, Installed
<1>3. CASE {swap[g].pc, swap'[g].pc} = {"closing", "done"}
  <2>1. swap[g].pc \in {"closing", "done"} /\ swap'[g].pc \in {"closing", "done"}
    BY <1>3
  <2>. QED BY <2>1 DEF Begun, Starting, Installed
<1>. QED BY <1>1, <1>2, <1>3 DEF SwapMoves

\* A generation and the swap that made it.
LEMMA GenIs ==
    ASSUME NEW g \in Gens
    PROVE  g = 0 \/ g \in 1..Swaps
  BY GensAre

LEMMA CurIs ==
    ASSUME ServersInv
    PROVE  /\ cur \in Gens /\ ~ Starting(cur)
           /\ cur # 0 => cur \in 1..Swaps /\ Installed(cur) /\ Begun(cur)
           /\ \A g \in Gens : Held(g) \in Gens /\ (Starting(Held(g)) => Held(g) = g /\ g # 0)
<1>1. cur \in Gens
  BY DEF ServersInv, ServersTypeOK
<1>2. cur # 0 => cur \in 1..Swaps /\ Installed(cur)
  BY <1>1, GenIs DEF ServersInv, GensInv
<1>3. ~ Starting(cur) /\ (cur # 0 => Begun(cur))
  BY <1>2 DEF Starting, Installed, Begun
<1>. QED BY <1>1, <1>2, <1>3 DEF Held

LEMMA OldIs ==
    ASSUME ServersInv, NEW g \in 1..Swaps, Installed(g)
    PROVE  /\ swap[g].old \in Gens /\ ~ Starting(swap[g].old)
           /\ \A n \in Names \ overtaken : task[swap[g].old][n] \notin Unfinished
<1>. DEFINE old == swap[g].old
<1>1. old \in Gens
  BY DEF ServersInv, ServersTypeOK, SwapRecord
<1>2. old = 0 \/ Installed(old)
  BY DEF ServersInv, GensInv
<1>3. ~ Starting(old)
  BY <1>2 DEF Starting, Installed
<1>4. ASSUME NEW n \in Names \ overtaken PROVE task[old][n] \notin Unfinished
  <2>1. CASE old = 0
    BY <2>1 DEF ServersInv, OvertakenInv, Begun, Installed
  <2>2. CASE old # 0
    <3>1. task[old][n] \in {"none", "done"}
      BY <1>1, <1>2, <2>2 DEF ServersInv, StartInv
    <3>. QED BY <3>1 DEF Unfinished
  <2>. QED BY <2>1, <2>2
<1>. QED BY <1>1, <1>3, <1>4

LEMMA MovesKeep == ASSUME ServersInv, ServersTypeOK', Moves PROVE ServersInv'
<1>1. \A g \in 1..Swaps : /\ Begun(g)' <=> Begun(g)
                          /\ Starting(g)' <=> Starting(g)
                          /\ Installed(g)' <=> Installed(g)
  BY PcStays DEF Moves
<1>. USE GensAre
<1>2. GensInv'
  <2>1. ASSUME NEW g \in 1..Swaps, ~ Begun(g), NEW n \in Names
        PROVE  tool'[n] # g /\ status'[g][n] = "none" /\ task'[g][n] = "none"
               /\ conn'[g][n] = "none"
    <3>1. tool[n] # g /\ status[g][n] = "none" /\ task[g][n] = "none" /\ conn[g][n] = "none"
      BY <2>1 DEF ServersInv, GensInv
    <3>2. g \in Gens /\ task[g][n] \notin Unfinished
      BY <3>1 DEF Unfinished
    <3>3. status'[g][n] = "none" /\ task'[g][n] = "none"
      BY <3>1, <3>2 DEF Moves, StatusMoves, TaskMoves
    <3>4. conn'[g][n] = "none"
      BY <3>1, <3>2 DEF Moves, ConnMoves
    <3>5. tool'[n] # g
      BY <3>1, <3>2 DEF Moves, ToolMoves
    <3>. QED BY <3>3, <3>4, <3>5
  <2>2. cur' # 0 => Installed(cur)'
    <3>1. cur' = cur
      BY DEF Moves
    <3>2. cur # 0 => cur \in 1..Swaps /\ Installed(cur)
      BY CurIs
    <3>. QED BY <1>1, <3>1, <3>2 DEF Installed
  <2>3. ASSUME NEW g \in 1..Swaps, Installed(g) PROVE swap'[g].old = 0 \/ Installed(swap[g].old)'
    <3>1. swap'[g].old = swap[g].old
      BY DEF Moves, SwapMoves
    <3>2. swap[g].old = 0 \/ (swap[g].old \in 1..Swaps /\ Installed(swap[g].old))
      BY <2>3, OldIs DEF ServersInv, GensInv
    <3>3. CASE swap[g].old \in 1..Swaps /\ Installed(swap[g].old)
      <4>1. PICK h \in 1..Swaps : h = swap[g].old /\ Installed(h)
        BY <3>3
      <4>. QED BY <1>1, <3>1, <4>1 DEF Installed
    <3>. QED BY <3>1, <3>2, <3>3
  <2>4. \A g \in 1..Swaps : Installed(g)' => swap'[g].old = 0 \/ Installed(swap[g].old)'
    BY <1>1, <2>3
  <2>5. \A g \in 1..Swaps : swap'[g].old = swap[g].old
    BY DEF Moves, SwapMoves
  <2>. QED BY <1>1, <2>1, <2>2, <2>4, <2>5 DEF GensInv, Installed
<1>3. OvertakenInv'
  <2>1. ASSUME NEW n \in Names \ overtaken, task'[0][n] \in Unfinished
        PROVE  task[0][n] \in Unfinished
    BY <2>1 DEF Moves, TaskMoves
  <2>. QED BY <1>1, <2>1 DEF ServersInv, OvertakenInv, Moves
<1>4. ASSUME NEW g \in Gens, NEW n \in Names PROVE StartInv(g, n)'
  <2>1. StartInv(g, n)
    BY DEF ServersInv
  <2>2. /\ Starting(g)' <=> Starting(g)
        /\ g # 0 => (Installed(g)' <=> Installed(g))
    BY <1>1 DEF Starting
  <2>3. UNCHANGED <<cur, overtaken>>
    BY DEF Moves
  <2>4. \/ status'[g][n] = status[g][n]
        \/ /\ status[g][n] # "none" /\ status'[g][n] = "disconnected"
           /\ Starting(g) => task'[g][n] # "closing"
        \/ status'[g][n] = "failed" /\ task[g][n] \in Unfinished
        \/ status'[g][n] = "ready" /\ task[g][n] \in Unfinished /\ task'[g][n] = "done"
    BY DEF Moves, StatusMoves
  <2>5. \/ task'[g][n] = task[g][n]
        \/ /\ task[g][n] \in Unfinished
           /\ task'[g][n] \in Unfinished \cup {"done"}
           /\ Starting(g) /\ task'[g][n] = "closing" => status'[g][n] = "failed"
           /\ Starting(g) /\ task'[g][n] = "done" => tool'[n] \in {g, NoManager}
    BY DEF Moves, TaskMoves
  <2>6. conn[g][n] = "none" /\ task[g][n] # "connect" => conn'[g][n] = "none"
    BY DEF Moves, ConnMoves
  <2>7. status'[g][n] = "ready" => task'[g][n] = "done"
    BY <2>1, <2>4, <2>5 DEF StartInv, Unfinished
  <2>8. (g # 0 \/ cur = 0) /\ status'[g][n] = "none" => task'[g][n] = "none" /\ conn'[g][n] = "none"
    BY <2>1, <2>4, <2>5, <2>6 DEF StartInv, Unfinished
  <2>9. g # 0 /\ task'[g][n] = "none" => status'[g][n] = "none"
    BY <2>1, <2>4, <2>5 DEF StartInv, Unfinished
  <2>10. Starting(g) /\ task'[g][n] = "closing" => status'[g][n] = "failed"
    BY <2>1, <2>4, <2>5 DEF StartInv
  <2>11. ASSUME Starting(g), task'[g][n] = "done", n \notin overtaken PROVE tool'[n] # 0
    <3>1. CASE task[g][n] = "done"
      <4>1. tool[n] # 0
        BY <2>1, <2>11, <3>1 DEF StartInv
      <4>2. g \in 1..Swaps /\ Begun(g)
        BY <2>11 DEF Starting, Begun
      <4>3. task[0][n] \notin Unfinished
        BY <2>11, <4>2 DEF ServersInv, OvertakenInv
      <4>. QED BY <4>1, <4>3 DEF Moves, ToolMoves
    <3>2. CASE task[g][n] # "done"
      BY <2>5, <2>11, <3>2 DEF Starting
    <3>. QED BY <3>1, <3>2
  <2>12. g # 0 /\ Installed(g) => task'[g][n] \in {"none", "done"}
    BY <2>1, <2>5 DEF StartInv, Unfinished
  <2>. QED BY <2>2, <2>3, <2>7, <2>8, <2>9, <2>10, <2>11, <2>12 DEF StartInv
<1>5. CallsInv'
  <2>1. \A g \in Gens, n \in Names : task[g][n] = "done" => task'[g][n] = "done"
    BY DEF Moves, TaskMoves, Unfinished
  <2>2. ASSUME NEW c \in ToolCalls, call'[c] # NoCall
        PROVE  /\ task'[call'[c].client][call'[c].server] = "done"
               /\ call'[c].wrapper # 0 => call'[c].client = call'[c].wrapper
    <3>1. CASE call'[c] = call[c]
      BY <2>1, <2>2, <3>1, CallIs DEF ServersInv, CallsInv
    <3>2. CASE call'[c] # call[c]
      BY <2>1, <2>2, <3>2 DEF Moves, CallMoves
    <3>. QED BY <3>1, <3>2
  <2>. QED BY <2>2 DEF CallsInv
<1>6. ClosedInv'
  <2>1. ASSUME NEW g \in 1..Swaps, Installed(g),
               NEW n \in Names \ (overtaken \cup swap'[g].left)
        PROVE  conn'[swap[g].old][n] = "none"
    <3>1. CASE n \in swap[g].left
      BY <2>1, <3>1 DEF Moves, SwapMoves
    <3>2. CASE n \notin swap[g].left
      <4>. DEFINE old == swap[g].old
      <4>1. old \in Gens /\ task[old][n] \notin Unfinished
        BY <2>1, OldIs
      <4>2. conn[old][n] = "none"
        BY <2>1, <3>2 DEF ServersInv, ClosedInv
      <4>. QED BY <4>1, <4>2 DEF Moves, ConnMoves, Unfinished
    <3>. QED BY <3>1, <3>2
  <2>. QED BY <1>1, <2>1 DEF ClosedInv, Moves, SwapMoves
<1>7. ToolsHaveServer'
  <2>1. SUFFICES ASSUME NEW n \in Names \ overtaken, tool'[n] # NoManager
                 PROVE  status'[Held(tool'[n])][n] = "ready"
    BY DEF ToolsHaveServer, Registered, Moves, Held
  <2>2. CASE tool'[n] = tool[n]
    <3>. DEFINE g == Held(tool[n])
    <3>1. tool[n] \in Gens /\ g \in Gens
      BY <2>1, <2>2, CurIs DEF ServersInv, ServersTypeOK
    <3>2. status[g][n] = "ready"
      BY <2>1, <2>2 DEF ServersInv, ToolsHaveServer, Registered
    <3>3. task[g][n] = "done"
      BY <3>1, <3>2 DEF ServersInv, StartInv
    <3>4. status'[g][n] = "ready"
      BY <2>1, <3>1, <3>2, <3>3 DEF Moves, StatusMoves, Unfinished
    <3>. QED BY <2>2, <3>4
  <2>3. CASE tool'[n] # tool[n]
    <3>1. PICK g \in Gens : tool'[n] = g /\ task[g][n] \in Unfinished /\ status'[g][n] = "ready"
      BY <2>1, <2>3 DEF Moves, ToolMoves
    <3>2. CASE g # 0 \/ cur = 0
      BY <3>1, <3>2 DEF Held
    <3>3. CASE g = 0 /\ cur # 0
      BY <3>1, <3>3, CurIs DEF ServersInv, OvertakenInv
    <3>. QED BY <3>1, <3>2, <3>3
  <2>. QED BY <2>2, <2>3
<1>. QED BY <1>2, <1>3, <1>4, <1>5, <1>6, <1>7 DEF ServersInv

\* A step of the start of a server.
LEMMA StartMoves ==
    ASSUME ServersInv, NEW g \in Gens, NEW n \in Names, StartStep(g, n) \/ ListingLost(g, n)
    PROVE  Moves
<1>. USE GensAre
<1>1. ServersTypeOK /\ StartInv(g, n) /\ Held(g) \in Gens /\ (Starting(Held(g)) => Held(g) = g /\ g # 0)
  BY CurIs DEF ServersInv
<1>2. UNCHANGED <<cur, overtaken, swap, call>>
  BY DEF StartStep, Connected, ToolsListed, ServerReady, StartFails, StartCloses, ListingLost
<1>3. CallMoves /\ SwapMoves
  BY <1>2 DEF CallMoves, SwapMoves, ServersInv, ClosedInv
<1>4. CASE Connected(g, n) \/ ToolsListed(g, n)
  <2>1. /\ UNCHANGED <<tool, status>>
        /\ \E to \in {"handshake", "extras"} : task' = [task EXCEPT ![g][n] = to]
        /\ task[g][n] \in {"connect", "handshake"}
    BY <1>4 DEF Connected, ToolsListed
  <2>2. UNCHANGED conn \/ (task[g][n] = "connect" /\ conn' = [conn EXCEPT ![g][n] = "open"])
    BY <1>4 DEF Connected, ToolsListed
  <2>3. ToolMoves /\ StatusMoves
    BY <2>1 DEF ToolMoves, StatusMoves
  <2>4. TaskMoves
    BY <1>1, <2>1 DEF TaskMoves, ServersTypeOK, Unfinished
  <2>5. ConnMoves
    BY <1>1, <2>2 DEF ConnMoves, ServersTypeOK
  <2>. QED BY <1>2, <1>3, <2>3, <2>4, <2>5 DEF Moves
<1>5. CASE ServerReady(g, n)
  <2>1. /\ tool' = [tool EXCEPT ![n] = g]
        /\ status' = [status EXCEPT ![g][n] = "ready"]
        /\ task' = [task EXCEPT ![g][n] = "done"]
        /\ task[g][n] \in {"extras", "handshake"} /\ UNCHANGED conn
    BY <1>5 DEF ServerReady
  <2>2. ToolMoves
    BY <1>1, <2>1 DEF ToolMoves, ServersTypeOK, Unfinished
  <2>3. StatusMoves
    BY <1>1, <2>1 DEF StatusMoves, ServersTypeOK, Unfinished
  <2>4. TaskMoves
    BY <1>1, <2>1 DEF TaskMoves, ServersTypeOK, Unfinished
  <2>5. ConnMoves
    BY <2>1 DEF ConnMoves
  <2>. QED BY <1>2, <1>3, <2>2, <2>3, <2>4, <2>5 DEF Moves
<1>6. CASE StartFails(g, n)
  <2>1. /\ task' = [task EXCEPT ![g][n] = "closing"] /\ task[g][n] \in {"connect", "handshake"}
        /\ UNCHANGED conn
    BY <1>6 DEF StartFails
  <2>2. PICK marked \in StatusMaps :
            /\ status' = [marked EXCEPT ![g][n] = "failed"]
            /\ \A h \in Gens, m \in Names :
                  \/ marked[h][m] = status[h][m]
                  \/ /\ h = Held(g) /\ m = n
                     /\ status[h][m] # "none" /\ marked[h][m] = "disconnected"
                     /\ tool'[m] = NoManager
    <3>1. CASE EndOfOutput(g, n)
      <4>1. status' = [Marked(status, g, n) EXCEPT ![g][n] = "failed"]
            /\ UnregisterServers(IF Gone(status, g, n) THEN {} ELSE {n})
        BY <1>6, <3>1 DEF StartFails
      <4>2. /\ Marked(status, g, n) \in StatusMaps
            /\ \A h \in Gens, m \in Names :
                  Marked(status, g, n)[h][m] = IF h = Held(g) /\ m = n /\ ~ Gone(status, g, n)
                                               THEN "disconnected" ELSE status[h][m]
        BY <1>1, MarkedIs DEF ServersTypeOK, StatusMaps
      <4>3. ~ Gone(status, g, n) => tool'[n] = NoManager
        BY <1>1, <4>1, UnregisterTypes DEF ServersTypeOK
      <4>. QED BY <4>1, <4>2, <4>3 DEF Gone
    <3>2. CASE ~ EndOfOutput(g, n)
      <4>1. status' = [status EXCEPT ![g][n] = "failed"] /\ status \in StatusMaps
        BY <1>1, <1>6, <3>2 DEF StartFails, ServersTypeOK, StatusMaps
      <4>. QED BY <4>1
    <3>. QED BY <3>1, <3>2
  <2>3. ToolMoves
    <3>1. \A m \in Names : tool'[m] \in {tool[m], NoManager}
      BY <1>1, <1>6, UnregisterTypes DEF StartFails, ServersTypeOK
    <3>. QED BY <3>1 DEF ToolMoves
  <2>4. StatusMoves
    <3>1. ASSUME NEW h \in Gens, NEW m \in Names, ~ (h = g /\ m = n)
          PROVE  \/ status'[h][m] = status[h][m]
                 \/ /\ status[h][m] # "none" /\ status'[h][m] = "disconnected"
                    /\ tool'[m] = NoManager /\ ~ Starting(h)
      <4>1. status'[h][m] = marked[h][m]
        BY <2>2, <3>1 DEF StatusMaps
      <4>2. h = Held(g) /\ m = n => ~ Starting(h)
        BY <1>1, <3>1
      <4>. QED BY <2>2, <4>1, <4>2
    <3>2. status'[g][n] = "failed" /\ task[g][n] \in Unfinished
      BY <2>1, <2>2 DEF StatusMaps, Unfinished
    <3>. QED BY <3>1, <3>2 DEF StatusMoves
  <2>5. TaskMoves
    <3>1. status'[g][n] = "failed"
      BY <2>2 DEF StatusMaps
    <3>. QED BY <1>1, <2>1, <3>1 DEF TaskMoves, ServersTypeOK, Unfinished
  <2>6. ConnMoves
    BY <2>1 DEF ConnMoves
  <2>. QED BY <1>2, <1>3, <2>3, <2>4, <2>5, <2>6 DEF Moves
<1>7. CASE StartCloses(g, n) \/ ListingLost(g, n)
  <2>1. Disconnected(status, g, n)
    BY <1>7 DEF StartCloses, ListingLost
  <2>2. /\ \A m \in Names : tool'[m] \in {tool[m], NoManager}
        /\ \A h \in Gens, m \in Names :
              \/ status'[h][m] = status[h][m]
              \/ /\ h = Held(g) /\ m = n
                 /\ status[h][m] \notin {"none", "disconnected"}
                 /\ status'[h][m] = "disconnected" /\ tool'[m] = NoManager
        /\ status[Held(g)][n] \notin {"none", "disconnected"} => tool'[n] = NoManager
    BY <1>1, <2>1, DisconnectedIs
  <2>3. \/ UNCHANGED task /\ task[g][n] = "extras"
        \/ /\ task[g][n] = "closing" /\ task'[g][n] \in {"stuck", "done"}
           /\ \A h \in Gens, m \in Names : ~ (h = g /\ m = n) => task'[h][m] = task[h][m]
    <3>1. \/ UNCHANGED task /\ task[g][n] = "extras"
          \/ /\ task[g][n] = "closing"
             /\ \E to \in {"stuck", "done"} : task' = [task EXCEPT ![g][n] = to]
      BY <1>7 DEF StartCloses, ListingLost
    <3>2. task \in [Gens -> [Names -> Unfinished \cup {"none", "done"}]]
      BY <1>1 DEF ServersTypeOK
    <3>. QED BY <3>1, <3>2
  <2>4. UNCHANGED conn \/ conn' = [conn EXCEPT ![g][n] = "none"]
    BY <1>7 DEF StartCloses, ListingLost
  <2>5. ToolMoves
    BY <2>2 DEF ToolMoves
  <2>6. task'[g][n] # "closing"
    BY <1>1, <2>3 DEF ServersTypeOK
  <2>7. StatusMoves
    BY <1>1, <2>2, <2>6 DEF StatusMoves
  <2>8. TaskMoves
    <3>1. CASE task[g][n] = "closing" /\ Starting(g)
      <4>1. status[g][n] = "failed" /\ Held(g) = g
        BY <1>1, <3>1 DEF StartInv, Starting, Held
      <4>2. tool'[n] = NoManager
        BY <2>2, <4>1
      <4>. QED BY <2>3, <3>1, <4>2 DEF TaskMoves, Unfinished
    <3>2. CASE ~ (task[g][n] = "closing" /\ Starting(g))
      BY <2>3, <3>2 DEF TaskMoves, Unfinished
    <3>. QED BY <3>1, <3>2
  <2>9. ConnMoves
    <3>1. conn \in [Gens -> [Names -> {"none", "open", "dead"}]]
      BY <1>1 DEF ServersTypeOK
    <3>. QED BY <2>4, <3>1 DEF ConnMoves
  <2>. QED BY <1>2, <1>3, <2>5, <2>7, <2>8, <2>9 DEF Moves
<1>. QED BY <1>4, <1>5, <1>6, <1>7 DEF StartStep

LEMMA PeerMoves ==
    ASSUME ServersInv, NEW g \in Gens, NEW n \in Names, PeerDies(g, n)
    PROVE  Moves
<1>1. ServersTypeOK /\ Held(g) \in Gens /\ (Starting(Held(g)) => Held(g) = g /\ g # 0)
  BY CurIs DEF ServersInv
<1>2. /\ UNCHANGED <<cur, overtaken, swap, call>>
      /\ conn' = [conn EXCEPT ![g][n] = "dead"] /\ conn[g][n] = "open"
      /\ task[g][n] \notin {"closing", "stuck"}
  BY DEF PeerDies
<1>3. CallMoves /\ SwapMoves
  BY <1>2 DEF CallMoves, SwapMoves, ServersInv, ClosedInv
<1>4. ConnMoves
  BY <1>1, <1>2 DEF ConnMoves, ServersTypeOK
<1>5. CASE Disconnected(status, g, n)
  <2>1. /\ \A m \in Names : tool'[m] \in {tool[m], NoManager}
        /\ \A h \in Gens, m \in Names :
              \/ status'[h][m] = status[h][m]
              \/ /\ h = Held(g) /\ m = n
                 /\ status[h][m] \notin {"none", "disconnected"}
                 /\ status'[h][m] = "disconnected" /\ tool'[m] = NoManager
    BY <1>1, <1>5, DisconnectedIs
  <2>2. \/ UNCHANGED task
        \/ /\ task[g][n] \in Unfinished /\ task'[g][n] = "stuck"
           /\ \A h \in Gens, m \in Names : ~ (h = g /\ m = n) => task'[h][m] = task[h][m]
    <3>1. \/ UNCHANGED task
          \/ task[g][n] \in Unfinished /\ task' = [task EXCEPT ![g][n] = "stuck"]
      BY DEF PeerDies, ReaderAwaitsStart
    <3>2. task \in [Gens -> [Names -> Unfinished \cup {"none", "done"}]]
      BY <1>1 DEF ServersTypeOK
    <3>. QED BY <3>1, <3>2
  <2>3. ToolMoves
    BY <2>1 DEF ToolMoves
  <2>4. task'[g][n] # "closing"
    BY <1>2, <2>2
  <2>5. StatusMoves
    BY <1>1, <2>1, <2>4 DEF StatusMoves
  <2>6. TaskMoves
    BY <2>2 DEF TaskMoves, Unfinished
  <2>. QED BY <1>2, <1>3, <1>4, <2>3, <2>5, <2>6 DEF Moves
<1>6. CASE UNCHANGED <<tool, status, task>>
  BY <1>2, <1>3, <1>4, <1>6 DEF Moves, ToolMoves, StatusMoves, TaskMoves
<1>. QED BY <1>5, <1>6 DEF PeerDies

LEMMA CallsMove ==
    ASSUME ServersInv, NEW c \in ToolCalls,
           CallEnds(c) \/ CallLost(c) \/ \E n \in Names : CallBegins(c, n)
    PROVE  Moves
<1>. USE GensAre
<1>1. ServersTypeOK
  BY DEF ServersInv
<1>2. UNCHANGED <<cur, overtaken, swap, task, conn>>
  BY DEF CallEnds, CallLost, CallBegins
<1>3. SwapMoves /\ TaskMoves /\ ConnMoves
  BY <1>2 DEF SwapMoves, TaskMoves, ConnMoves, ServersInv, ClosedInv
<1>4. CASE CallEnds(c)
  <2>1. CallMoves
    BY <1>1, <1>4 DEF CallEnds, CallMoves, ServersTypeOK
  <2>2. ToolMoves /\ StatusMoves
    BY <1>4 DEF CallEnds, ToolMoves, StatusMoves
  <2>. QED BY <1>2, <1>3, <2>1, <2>2 DEF Moves
<1>5. CASE CallLost(c)
  <2>. DEFINE n == call[c].server
              w == call[c].wrapper
              d == call[c].client
  <2>1. CallMoves
    BY <1>1, <1>5 DEF CallLost, CallMoves, ServersTypeOK
  <2>2. /\ n \in Names /\ w \in Gens /\ d \in Gens
        /\ \A m \in Names : tool'[m] \in {tool[m], NoManager}
        /\ \A h \in Gens, m \in Names :
              \/ status'[h][m] = status[h][m]
              \/ /\ h \in {Held(d), Held(w)} /\ m = n
                 /\ status[h][m] \notin {"none", "disconnected"}
                 /\ status'[h][m] = "disconnected" /\ tool'[m] = NoManager
    BY <1>1, <1>5, LostIs
  <2>3. task[d][n] = "done" /\ (w # 0 => d = w)
    BY <1>5 DEF ServersInv, CallsInv, CallLost
  <2>. HIDE DEF n, w, d
  <2>4. \A h \in {Held(d), Held(w)} : Starting(h) => task[h][n] = "done"
    BY <2>2, <2>3, CurIs
  <2>5. ToolMoves
    BY <2>2 DEF ToolMoves
  <2>6. StatusMoves
    BY <1>2, <2>2, <2>4 DEF StatusMoves
  <2>. QED BY <1>2, <1>3, <2>1, <2>5, <2>6 DEF Moves
<1>6. ASSUME NEW n \in Names, CallBegins(c, n) PROVE Moves
  <2>. DEFINE w == tool[n]
              begun == [server |-> n, wrapper |-> w, client |-> Held(w)]
  <2>1. w \in Gens /\ status[Held(w)][n] = "ready" /\ call' = [call EXCEPT ![c] = begun]
    BY <1>1, <1>6 DEF CallBegins, Registered, ServersTypeOK
  <2>2. Held(w) \in Gens /\ (w # 0 => Held(w) = w)
    BY <2>1, CurIs DEF Held
  <2>3. task[Held(w)][n] = "done"
    BY <2>1, <2>2 DEF ServersInv, StartInv
  <2>4. CallMoves
    BY <1>1, <2>1, <2>2, <2>3 DEF CallMoves, ServersTypeOK
  <2>5. ToolMoves /\ StatusMoves
    BY <1>6 DEF CallBegins, ToolMoves, StatusMoves
  <2>. QED BY <1>2, <1>3, <2>4, <2>5 DEF Moves
<1>. QED BY <1>4, <1>5, <1>6

LEMMA DisableMoves ==
    ASSUME ServersInv, NEW servers \in SUBSET Names, Disable(servers)
    PROVE  ToolMoves /\ StatusMoves /\ TaskMoves
<1>1. ServersTypeOK /\ cur \in Gens /\ ~ Starting(cur)
  BY CurIs DEF ServersInv
<1>2. /\ \A m \in Names : tool'[m] \in {tool[m], NoManager}
      /\ \A m \in servers : tool'[m] = NoManager
  BY <1>1, UnregisterTypes DEF Disable, ServersTypeOK
<1>3. \A h \in Gens, m \in Names :
         \/ status'[h][m] = status[h][m]
         \/ h = cur /\ m \in servers /\ status[h][m] # "none" /\ status'[h][m] = "disconnected"
  BY <1>1 DEF Disable, ServersTypeOK, Clients
<1>4. \A h \in Gens, m \in Names :
         task'[h][m] = task[h][m] \/ (h = cur /\ task'[h][m] = Cancelled(task[h][m]))
  BY <1>1 DEF Disable, ServersTypeOK
<1>5. TaskMoves
  <2>1. \A h \in Gens, m \in Names : task[h][m] \in Unfinished \cup {"none", "done"}
    BY <1>1 DEF ServersTypeOK
  <2>. QED BY <1>1, <1>4, <2>1, CancelledIs DEF TaskMoves, Unfinished
<1>6. ToolMoves /\ StatusMoves
  BY <1>1, <1>2, <1>3 DEF ToolMoves, StatusMoves
<1>. QED BY <1>5, <1>6

\* A request has a swap written.
SwapWritten(stop) ==
    \E g \in 1..Swaps :
        /\ swap[g].pc = "idle"
        /\ swap' = [swap EXCEPT ![g] = [@ EXCEPT !.pc = "written", !.stop = stop]]

LEMMA RequestMoves == ASSUME ServersInv, Requests PROVE Moves
<1>1. ServersTypeOK
  BY DEF ServersInv
<1>2. /\ UNCHANGED <<cur, overtaken, conn, call>>
      /\ \/ UNCHANGED <<tool, status, task, swap>>
         \/ UNCHANGED swap /\ \E n \in Names : Disable({n})
         \/ /\ UNCHANGED <<tool, status, task>>
            /\ \E stop \in SUBSET Names : SwapWritten(stop)
  <2>1. ASSUME NEW n \in Edited, \/ DeleteServer(n)
                                 \/ \E as \in {"disabled", "enabled"} : CreateServer(n, as)
        PROVE  /\ UNCHANGED <<cur, overtaken, conn, call, swap>>
               /\ UNCHANGED <<tool, status, task>> \/ Disable({n})
    BY <2>1 DEF CreateServer, DeleteServer
  <2>2. ASSUME NEW n \in Names, NEW as \in RowStates, NEW stop \in SUBSET Names, RequestSwap(n, as, stop)
        PROVE  /\ UNCHANGED <<cur, overtaken, conn, call, tool, status, task>>
               /\ UNCHANGED swap \/ SwapWritten(stop)
    BY <2>2 DEF RequestSwap, NextSwap, SwapWritten
  <2>3. ASSUME NEW n \in Names, UpdateSwitchesOff(n)
        PROVE  UNCHANGED <<cur, overtaken, conn, call, tool, status, task, swap>>
    BY <2>3 DEF UpdateSwitchesOff
  <2>4. Edited \subseteq Names
    BY McpAssumption
  <2>5. CASE \E n \in Edited : \/ DeleteServer(n)
                               \/ \E as \in {"disabled", "enabled"} : CreateServer(n, as)
    BY <2>1, <2>4, <2>5
  <2>6. CASE \E n \in Names : UpdateSwitchesOff(n)
    BY <2>3, <2>6
  <2>7. CASE \E n \in Names : \/ RequestSwap(n, "enabled", {})
                              \/ RequestSwap(n, "disabled", {n}) \/ RequestSwap(n, row[n], {n})
    <3>1. PICK n \in Names : \/ RequestSwap(n, "enabled", {})
                              \/ RequestSwap(n, "disabled", {n}) \/ RequestSwap(n, row[n], {n})
      BY <2>7
    <3>2. /\ {} \in SUBSET Names /\ {n} \in SUBSET Names
          /\ {"enabled", "disabled", row[n]} \subseteq RowStates
      BY <1>1 DEF ServersTypeOK, RowStates
    <3>3. CASE RequestSwap(n, "enabled", {})
      BY <2>2, <3>2, <3>3, Zenon
    <3>4. CASE RequestSwap(n, "disabled", {n})
      BY <2>2, <3>2, <3>4, Zenon
    <3>5. CASE RequestSwap(n, row[n], {n})
      BY <2>2, <3>2, <3>5, Zenon
    <3>. QED BY <3>1, <3>3, <3>4, <3>5
  <2>. QED BY <2>5, <2>6, <2>7 DEF Requests
<1>3. CallMoves /\ ConnMoves
  BY <1>2 DEF CallMoves, ConnMoves
<1>4. CASE UNCHANGED <<tool, status, task>>
  <2>1. ToolMoves /\ StatusMoves /\ TaskMoves
    BY <1>4 DEF ToolMoves, StatusMoves, TaskMoves
  <2>2. CASE UNCHANGED swap
    BY <1>2, <1>3, <2>1, <2>2 DEF Moves, SwapMoves, ServersInv, ClosedInv
  <2>3. ASSUME NEW g \in 1..Swaps, NEW stop \in SUBSET Names, swap[g].pc = "idle",
               swap' = [swap EXCEPT ![g] = [@ EXCEPT !.pc = "written", !.stop = stop]]
        PROVE  Moves
    <3>1. swap \in [1..Swaps -> SwapRecord]
      BY <1>1 DEF ServersTypeOK
    <3>2. /\ swap'[g].pc = "written" /\ swap'[g].old = swap[g].old /\ swap'[g].left = swap[g].left
          /\ \A h \in 1..Swaps \ {g} : swap'[h] = swap[h]
      BY <2>3, <3>1 DEF SwapRecord
    <3>3. SwapMoves
      BY <2>3, <3>2 DEF SwapMoves, ServersInv, ClosedInv
    <3>. QED BY <1>2, <1>3, <2>1, <3>3 DEF Moves
  <2>. QED BY <1>2, <1>4, <2>2, <2>3 DEF SwapWritten
<1>5. ASSUME NEW n \in Names, Disable({n}), UNCHANGED swap PROVE Moves
  <2>1. SwapMoves
    BY <1>5 DEF SwapMoves, ServersInv, ClosedInv
  <2>2. {n} \subseteq Names
    OBVIOUS
  <2>. QED BY <1>2, <1>3, <1>5, <2>1, <2>2, DisableMoves DEF Moves
<1>. QED BY <1>2, <1>4, <1>5

\* The generation a swap replaces, kept closed so that it can be named in the steps.
Replaces(g, old) == swap[g].old = old

LEMMA CloseMoves ==
    ASSUME ServersInv, NEW g \in 1..Swaps, NEW n \in Names, SwapCloses(g, n),
           NEW old \in Gens, Replaces(g, old)
    PROVE  Moves
<1>1. /\ ServersTypeOK /\ Installed(g)
      /\ swap \in [1..Swaps -> SwapRecord]
      /\ conn \in [Gens -> [Names -> {"none", "open", "dead"}]]
  BY DEF ServersInv, ServersTypeOK, SwapCloses, Installed
<1>2. Held(old) \in Gens /\ ~ Starting(Held(old))
  <2>1. ~ Starting(old)
    BY <1>1, OldIs DEF Replaces
  <2>. QED BY <2>1, CurIs
<1>3. /\ UNCHANGED <<cur, task, call, overtaken>>
      /\ conn' = [conn EXCEPT ![old][n] = "none"]
      /\ Disconnected(status, old, n) \/ UNCHANGED <<tool, status>>
  BY DEF SwapCloses, Replaces
<1>4. /\ swap'[g].pc = "closing" /\ swap'[g].old = old /\ swap'[g].left = swap[g].left \ {n}
      /\ swap[g].pc = "closing"
      /\ \A h \in 1..Swaps \ {g} : swap'[h] = swap[h]
  <2>1. swap' = [swap EXCEPT ![g].left = @ \ {n}] /\ swap[g].pc = "closing"
    BY DEF SwapCloses
  <2>2. swap[g] \in SwapRecord
    BY <1>1
  <2>3. swap'[g] = [swap[g] EXCEPT !.left = swap[g].left \ {n}]
        /\ \A h \in 1..Swaps \ {g} : swap'[h] = swap[h]
    BY <1>1, <2>1
  <2>. QED BY <2>1, <2>2, <2>3 DEF SwapRecord, Replaces
<1>5. CallMoves /\ TaskMoves
  BY <1>3 DEF CallMoves, TaskMoves
<1>6. ConnMoves
  BY <1>1, <1>3 DEF ConnMoves
<1>7. SwapMoves
  <2>1. conn'[old][n] = "none"
    BY <1>1, <1>3
  <2>2. ASSUME NEW h \in 1..Swaps
        PROVE  /\ swap'[h].pc = swap[h].pc /\ swap'[h].old = swap[h].old
               /\ \A m \in swap[h].left \ swap'[h].left : conn'[swap[h].old][m] = "none"
               /\ swap'[h].pc = "done" => swap'[h].left = {}
    <3>1. CASE h = g
      BY <1>4, <2>1, <3>1 DEF Replaces
    <3>2. CASE h # g
      BY <1>4, <3>2 DEF ServersInv, ClosedInv
    <3>. QED BY <3>1, <3>2
  <2>. QED BY <2>2 DEF SwapMoves
<1>8. ToolMoves /\ StatusMoves
  <2>1. CASE UNCHANGED <<tool, status>>
    BY <2>1 DEF ToolMoves, StatusMoves
  <2>2. CASE Disconnected(status, old, n)
    <3>. ServersTypeOK
      BY <1>1
    <3>1. /\ \A m \in Names : tool'[m] \in {tool[m], NoManager}
          /\ \A h \in Gens, m \in Names :
                \/ status'[h][m] = status[h][m]
                \/ /\ h = Held(old) /\ m = n
                   /\ status[h][m] \notin {"none", "disconnected"}
                   /\ status'[h][m] = "disconnected" /\ tool'[m] = NoManager
      BY <2>2, DisconnectedIs, Zenon
    <3>. QED BY <1>2, <3>1 DEF ToolMoves, StatusMoves
  <2>. QED BY <1>3, <2>1, <2>2
<1>. QED BY <1>3, <1>5, <1>6, <1>7, <1>8 DEF Moves

LEMMA EndMoves ==
    ASSUME ServersInv, NEW g \in 1..Swaps, SwapEnds(g)
    PROVE  Moves
<1>. DEFINE old == swap[g].old
<1>1. /\ ServersTypeOK /\ swap \in [1..Swaps -> SwapRecord] /\ Installed(g)
      /\ task \in [Gens -> [Names -> Unfinished \cup {"none", "done"}]]
  BY DEF ServersInv, ServersTypeOK, SwapEnds, Installed
<1>2. old \in Gens /\ ~ Starting(old)
  BY <1>1, OldIs
<1>3. /\ UNCHANGED <<tool, cur, status, conn, call, overtaken>>
      /\ swap[g].pc = "closing" /\ swap[g].left = {}
      /\ swap' = [swap EXCEPT ![g].pc = "done"]
      /\ \A h \in Gens \ {old} : task'[h] = task[h]
      /\ \A m \in Names : task'[old][m] = Cancelled(task[old][m])
  BY <1>1, <1>2 DEF SwapEnds
<1>. HIDE DEF old
<1>4. TaskMoves
  BY <1>1, <1>2, <1>3, CancelledIs DEF TaskMoves, Unfinished
<1>5. SwapMoves
  <2>1. /\ swap'[g].pc = "done" /\ swap'[g].old = swap[g].old /\ swap'[g].left = {}
        /\ \A h \in 1..Swaps \ {g} : swap'[h] = swap[h]
    BY <1>1, <1>3 DEF SwapRecord
  <2>. QED BY <1>3, <2>1 DEF SwapMoves, ServersInv, ClosedInv
<1>. QED BY <1>3, <1>4, <1>5 DEF Moves, ToolMoves, StatusMoves, ConnMoves, CallMoves

LEMMA StopMoves ==
    ASSUME ServersInv, NEW g \in 1..Swaps, SwapStops(g)
    PROVE  Moves
<1>1. /\ ServersTypeOK /\ swap \in [1..Swaps -> SwapRecord] /\ swap[g] \in SwapRecord
      /\ swap[g].stop \subseteq Names
  BY DEF ServersInv, ServersTypeOK, SwapRecord
<1>2. UNCHANGED <<row, cur, conn, callback, call, overtaken>> /\ Disable(swap[g].stop)
  BY DEF SwapStops
<1>3. SwapMoves
  <2>1. /\ swap[g].pc = "written" /\ swap'[g].pc = "reading"
        /\ swap'[g].old = swap[g].old /\ swap'[g].left = swap[g].left
        /\ \A h \in 1..Swaps \ {g} : swap'[h] = swap[h]
    BY <1>1 DEF SwapStops, SwapRecord
  <2>. QED BY <2>1 DEF SwapMoves, ServersInv, ClosedInv
<1>. QED BY <1>1, <1>2, <1>3, DisableMoves DEF Moves, ConnMoves, CallMoves

\* A swap begins.
LEMMA ReadsKeeps ==
    ASSUME ServersInv, ServersTypeOK', NEW g \in 1..Swaps, SwapReads(g)
    PROVE  ServersInv'
<1>. USE GensAre
<1>1. /\ ServersTypeOK /\ g \in Gens /\ g # 0 /\ swap[g].pc = "reading"
      /\ swap \in [1..Swaps -> SwapRecord]
      /\ ~ Begun(g) /\ ~ Installed(g) /\ ~ Starting(g)
  BY DEF ServersInv, ServersTypeOK, SwapReads, Begun, Installed, Starting
<1>2. /\ cur \in Gens /\ cur # g /\ ~ Starting(cur)
      /\ cur # 0 => cur \in 1..Swaps /\ Installed(cur) /\ Begun(cur)
      /\ \A h \in Gens : Held(h) \in Gens
  BY <1>1, CurIs
<1>3. UNCHANGED <<tool, row, cur, conn, callback, call>>
  BY DEF SwapReads
<1>4. \A n \in Names : tool[n] # g /\ status[g][n] = "none" /\ task[g][n] = "none"
                       /\ conn[g][n] = "none"
  BY <1>1 DEF ServersInv, GensInv
<1>5. /\ swap'[g].pc = "starting" /\ swap'[g].old = swap[g].old /\ swap'[g].left = swap[g].left
      /\ \A h \in 1..Swaps \ {g} : swap'[h] = swap[h]
  BY <1>1 DEF SwapReads, SwapRecord
<1>6. \A h \in 1..Swaps : /\ Begun(h)' <=> Begun(h) \/ h = g
                          /\ Starting(h)' <=> Starting(h) \/ h = g
                          /\ Installed(h)' <=> Installed(h)
                          /\ swap'[h].old = swap[h].old /\ swap'[h].left = swap[h].left
                          /\ swap'[h].pc = "done" => swap[h].pc = "done"
  BY <1>1, <1>5 DEF Begun, Starting, Installed
<1>7. \A n \in Names :
         \/ status'[g][n] = "starting" /\ task'[g][n] = "connect"
         \/ status'[g][n] = "none" /\ task'[g][n] = "none"
  BY <1>1 DEF SwapReads, ServersTypeOK
<1>8. \A h \in Gens \ {g} : status'[h] = status[h] /\ task'[h] = task[h]
  BY <1>1 DEF SwapReads, ServersTypeOK
<1>9. \A n \in Names : task[cur][n] \in Unfinished \cup {"none", "done"}
  BY <1>1, <1>2 DEF ServersTypeOK
<1>10. overtaken' = overtaken \cup {n \in Names : task[cur][n] \in Unfinished}
  BY DEF SwapReads
<1>11. GensInv'
  <2>1. ASSUME NEW h \in 1..Swaps, ~ Begun(h)', NEW n \in Names
        PROVE  tool'[n] # h /\ status'[h][n] = "none" /\ task'[h][n] = "none"
               /\ conn'[h][n] = "none"
    <3>1. ~ Begun(h) /\ h # g /\ h # cur /\ h \in Gens
      BY <1>2, <1>6, <2>1
    <3>2. tool[n] # h /\ status[h][n] = "none" /\ task[h][n] = "none" /\ conn[h][n] = "none"
      BY <3>1 DEF ServersInv, GensInv
    <3>. QED BY <1>3, <1>8, <3>1, <3>2
  <2>2. cur' # 0 => Installed(cur)'
    <3>1. ASSUME cur # 0 PROVE swap'[cur].pc \in {"closing", "done"}
      BY <1>2, <1>5, <3>1 DEF Installed
    <3>. QED BY <1>3, <3>1 DEF Installed
  <2>3. ASSUME NEW h \in 1..Swaps, Installed(h)' PROVE swap'[h].old = 0 \/ Installed(swap[h].old)'
    <3>1. Installed(h)
      BY <1>6, <2>3
    <3>2. swap[h].old = 0 \/ (swap[h].old \in 1..Swaps /\ Installed(swap[h].old))
      BY <3>1, OldIs DEF ServersInv, GensInv
    <3>3. CASE swap[h].old \in 1..Swaps /\ Installed(swap[h].old)
      <4>1. PICK o \in 1..Swaps : o = swap[h].old /\ Installed(o)
        BY <3>3
      <4>. QED BY <1>6, <4>1 DEF Installed
    <3>. QED BY <1>6, <3>2, <3>3
  <2>. QED BY <1>6, <2>1, <2>2, <2>3 DEF GensInv, Installed
<1>12. OvertakenInv'
  <2>1. ASSUME NEW n \in Names \ overtaken' PROVE task'[0][n] \notin Unfinished
    <3>1. n \notin overtaken /\ task[cur][n] \in {"none", "done"}
      BY <1>9, <1>10, <2>1
    <3>2. task[0][n] \notin Unfinished
      BY <1>2, <3>1 DEF ServersInv, OvertakenInv, Unfinished
    <3>. QED BY <1>1, <1>8, <3>2
  <2>. QED BY <2>1 DEF OvertakenInv
<1>13. ASSUME NEW h \in Gens, NEW n \in Names PROVE StartInv(h, n)'
  <2>1. StartInv(h, n)
    BY DEF ServersInv
  <2>2. /\ h # g => (Starting(h)' <=> Starting(h))
        /\ h # 0 => (Installed(h)' <=> Installed(h))
    BY <1>6 DEF Starting
  <2>3. CASE h = g
    <3>1. ~ Installed(g)' /\ conn'[g][n] = "none"
      BY <1>1, <1>3, <1>4, <1>6
    <3>2. StartInv(g, n)'
      BY <1>7, <3>1 DEF StartInv
    <3>. QED BY <2>3, <3>2 DEF StartInv, Starting, Installed
  <2>4. CASE h # g
    <3>1. status'[h][n] = status[h][n] /\ task'[h][n] = task[h][n]
      BY <1>8, <2>4
    <3>2. n \notin overtaken' => n \notin overtaken
      BY <1>10
    <3>. QED BY <1>3, <2>1, <2>2, <2>4, <3>1, <3>2 DEF StartInv
  <2>. QED BY <2>3, <2>4
<1>14. CallsInv'
  <2>1. ASSUME NEW h \in Gens, NEW n \in Names, task[h][n] = "done" PROVE task'[h][n] = "done"
    <3>1. h # g
      BY <1>4, <2>1
    <3>. QED BY <1>8, <2>1, <3>1
  <2>2. ASSUME NEW c \in ToolCalls, call[c] # NoCall
        PROVE  call[c].client \in Gens /\ call[c].server \in Names
    BY <1>1, <2>2, CallIs
  <2>. QED BY <1>3, <2>1, <2>2 DEF ServersInv, CallsInv
<1>15. ClosedInv'
  <2>1. \A n \in Names : n \notin overtaken' => n \notin overtaken
    BY <1>10
  <2>. QED BY <1>3, <1>6, <2>1 DEF ServersInv, ClosedInv
<1>16. ToolsHaveServer'
  <2>1. SUFFICES ASSUME NEW n \in Names \ overtaken', tool'[n] # NoManager
                 PROVE  status'[Held(tool'[n])][n] = "ready"
    BY <1>3 DEF ToolsHaveServer, Registered, Held
  <2>2. n \notin overtaken /\ tool[n] \in Gens /\ tool[n] # g /\ tool[n] # NoManager
    BY <1>1, <1>3, <1>4, <1>10, <2>1 DEF ServersTypeOK
  <2>3. Held(tool[n]) \in Gens /\ Held(tool[n]) # g
    BY <1>2, <2>2 DEF Held
  <2>4. status[Held(tool[n])][n] = "ready"
    BY <2>2 DEF ServersInv, ToolsHaveServer, Registered
  <2>. QED BY <1>3, <1>8, <2>3, <2>4
<1>. QED BY <1>11, <1>12, <1>13, <1>14, <1>15, <1>16 DEF ServersInv

\* A swap takes over the dictionaries of its manager.
LEMMA InstallsKeep ==
    ASSUME ServersInv, ServersTypeOK', NEW g \in 1..Swaps, SwapInstalls(g)
    PROVE  ServersInv'
<1>. USE GensAre
<1>1. /\ ServersTypeOK /\ g \in Gens /\ g # 0 /\ swap[g].pc = "starting"
      /\ swap \in [1..Swaps -> SwapRecord]
      /\ Begun(g) /\ ~ Installed(g) /\ Starting(g)
  BY DEF ServersInv, ServersTypeOK, SwapInstalls, Begun, Installed, Starting
<1>2. /\ cur \in Gens /\ cur # g
      /\ cur # 0 => cur \in 1..Swaps /\ Installed(cur)
  BY <1>1, CurIs
<1>3. /\ UNCHANGED <<row, task, conn, callback, call, overtaken>> /\ cur' = g
      /\ \A n \in Names : task[g][n] \in {"none", "done"}
  BY DEF SwapInstalls, Started
<1>4. /\ swap'[g].pc = "closing" /\ swap'[g].left = Clients(cur) /\ swap'[g].old = cur
      /\ \A h \in 1..Swaps \ {g} : swap'[h] = swap[h]
  <2>1. swap' = [swap EXCEPT ![g].pc = "closing", ![g].left = Clients(cur), ![g].old = cur]
    BY DEF SwapInstalls
  <2>. QED BY <1>1, <2>1 DEF SwapRecord
<1>5. \A h \in 1..Swaps : /\ Begun(h)' <=> Begun(h)
                          /\ Starting(h)' <=> Starting(h) /\ h # g
                          /\ Installed(h)' <=> Installed(h) \/ h = g
  BY <1>1, <1>4 DEF Begun, Starting, Installed
<1>6. /\ \A n \in Names : tool'[n] \in {tool[n], NoManager}
      /\ \A n \in Names : n \in Clients(cur) \ Clients(g) => tool'[n] = NoManager
  <2>1. UnregisterServers(Clients(cur) \ Clients(g))
    BY DEF SwapInstalls
  <2>. QED BY <1>1, <2>1, UnregisterTypes DEF ServersTypeOK
<1>7. /\ \A n \in Names : status'[0][n] = "none"
      /\ \A h \in Gens \ {0} : status'[h] = status[h]
  BY <1>1 DEF SwapInstalls, Dropped, ServersTypeOK
<1>8. GensInv'
  <2>1. ASSUME NEW h \in 1..Swaps, ~ Begun(h)', NEW n \in Names
        PROVE  tool'[n] # h /\ status'[h][n] = "none" /\ task'[h][n] = "none"
               /\ conn'[h][n] = "none"
    <3>1. ~ Begun(h) /\ h \in Gens \ {0}
      BY <1>5, <2>1
    <3>2. tool[n] # h /\ status[h][n] = "none" /\ task[h][n] = "none" /\ conn[h][n] = "none"
      BY <3>1 DEF ServersInv, GensInv
    <3>3. tool'[n] # h
      BY <1>6, <3>1, <3>2
    <3>. QED BY <1>3, <1>7, <3>1, <3>2, <3>3
  <2>2. cur' # 0 => Installed(cur)'
    BY <1>3, <1>4 DEF Installed
  <2>3. ASSUME NEW h \in 1..Swaps, Installed(h)' PROVE swap'[h].old = 0 \/ Installed(swap[h].old)'
    <3>1. CASE h = g
      <4>1. cur = 0 \/ swap'[cur].pc \in {"closing", "done"}
        BY <1>2, <1>4 DEF Installed
      <4>. QED BY <1>4, <3>1, <4>1 DEF Installed
    <3>2. CASE h # g
      <4>1. Installed(h) /\ swap'[h].old = swap[h].old
        BY <1>4, <1>5, <2>3, <3>2
      <4>2. swap[h].old = 0 \/ (swap[h].old \in 1..Swaps /\ Installed(swap[h].old))
        BY <4>1, OldIs DEF ServersInv, GensInv
      <4>3. CASE swap[h].old \in 1..Swaps /\ Installed(swap[h].old)
        <5>1. PICK o \in 1..Swaps : o = swap[h].old /\ Installed(o)
          BY <4>3
        <5>. QED BY <1>5, <4>1, <5>1 DEF Installed
      <4>. QED BY <4>1, <4>2, <4>3
    <3>. QED BY <3>1, <3>2
  <2>. QED BY <2>1, <2>2, <2>3 DEF GensInv, Installed
<1>9. OvertakenInv'
  BY <1>3, <1>5 DEF ServersInv, OvertakenInv
<1>10. ASSUME NEW h \in Gens, NEW n \in Names PROVE StartInv(h, n)'
  <2>1. StartInv(h, n)
    BY DEF ServersInv
  <2>2. CASE h = 0
    <3>1. status'[h][n] = "none" /\ ~ Starting(h)' /\ cur' # 0
      BY <1>1, <1>3, <1>7, <2>2 DEF Starting
    <3>. QED BY <2>2, <3>1 DEF StartInv
  <2>3. CASE h # 0
    <3>1. status'[h][n] = status[h][n]
      BY <1>7, <2>3
    <3>2. /\ Starting(h)' => Starting(h)
          /\ Installed(h)' => Installed(h) \/ h = g
      BY <1>5, <2>3
    <3>3. tool[n] # 0 => tool'[n] # 0
      BY <1>6
    <3>. QED BY <1>3, <2>1, <2>3, <3>1, <3>2, <3>3 DEF StartInv
  <2>. QED BY <2>2, <2>3
<1>11. CallsInv'
  BY <1>3 DEF ServersInv, CallsInv
<1>12. ClosedInv'
  <2>1. ASSUME NEW h \in 1..Swaps
        PROVE  /\ swap'[h].pc = "done" => swap'[h].left = {}
               /\ Installed(h)' => \A n \in Names \ (overtaken \cup swap'[h].left) :
                                       conn[swap'[h].old][n] = "none"
    <3>1. CASE h = g
      <4>1. ASSUME NEW n \in Names, n \notin Clients(cur) PROVE conn[cur][n] = "none"
        BY <1>2, <4>1 DEF ServersInv, StartInv, Clients
      <4>. QED BY <1>4, <3>1, <4>1
    <3>2. CASE h # g
      BY <1>4, <1>5, <3>2 DEF ServersInv, ClosedInv
    <3>. QED BY <3>1, <3>2
  <2>. QED BY <1>3, <2>1 DEF ClosedInv
<1>13. ToolsHaveServer'
  <2>1. SUFFICES ASSUME NEW n \in Names \ overtaken, tool'[n] # NoManager
                 PROVE  tool'[n] # 0 /\ status'[tool'[n]][n] = "ready"
    BY <1>3 DEF ToolsHaveServer, Registered, Held
  <2>2. tool'[n] = tool[n] /\ n \notin Clients(cur) \ Clients(g)
    BY <1>6, <2>1
  <2>3. tool[n] \in Gens /\ status[Held(tool[n])][n] = "ready"
    BY <1>1, <2>1, <2>2 DEF ServersInv, ServersTypeOK, ToolsHaveServer, Registered
  <2>4. tool[n] # 0
    <3>1. SUFFICES ASSUME tool[n] = 0 PROVE FALSE
      OBVIOUS
    <3>2. status[cur][n] = "ready"
      BY <2>3, <3>1 DEF Held
    <3>3. status[g][n] # "none"
      BY <2>2, <3>2 DEF Clients
    <3>4. task[g][n] = "done"
      BY <1>1, <1>3, <3>3 DEF ServersInv, StartInv
    <3>. QED BY <1>1, <2>1, <3>1, <3>4 DEF ServersInv, StartInv
  <2>. QED BY <1>7, <2>2, <2>3, <2>4 DEF Held
<1>. QED BY <1>8, <1>9, <1>10, <1>11, <1>12, <1>13 DEF ServersInv

LEMMA ServersStart == ServersInit => ServersInv
<1>. SUFFICES ASSUME ServersInit PROVE ServersInv
  OBVIOUS
<1>. USE GensAre
<1>1. ServersTypeOK
  BY McpAssumption DEF ServersInit, ServersTypeOK, SwapRecord, CallRecord, Unfinished
<1>2. \A g \in 1..Swaps : ~ Begun(g) /\ ~ Installed(g) /\ ~ Starting(g) /\ swap[g].pc = "idle"
  BY DEF ServersInit, Begun, Installed, Starting
<1>3. GensInv /\ OvertakenInv /\ ClosedInv
  BY <1>2 DEF ServersInit, GensInv, OvertakenInv, ClosedInv
<1>4. \A g \in Gens, n \in Names : StartInv(g, n)
  BY <1>2 DEF ServersInit, StartInv, Starting
<1>5. CallsInv /\ ToolsHaveServer
  BY DEF ServersInit, CallsInv, ToolsHaveServer, Registered
<1>. QED BY <1>1, <1>3, <1>4, <1>5 DEF ServersInv

LEMMA ServersKeep == ServersInv /\ [ServersNext]_serversVars => ServersInv'
<1>. SUFFICES ASSUME ServersInv, [ServersNext]_serversVars PROVE ServersInv'
  OBVIOUS
<1>1. ServersTypeOK'
  BY ServersTypes DEF ServersInv
<1>2. CASE UNCHANGED serversVars
  <2>1. Moves
    BY <1>2 DEF serversVars, Moves, ToolMoves, StatusMoves, TaskMoves, ConnMoves, CallMoves,
                SwapMoves, ServersInv, ClosedInv
  <2>. QED BY <1>1, <2>1, MovesKeep
<1>3. ASSUME NEW g \in Gens, NEW n \in Names,
             StartStep(g, n) \/ ListingLost(g, n) \/ PeerDies(g, n)
      PROVE  ServersInv'
  BY <1>1, <1>3, StartMoves, PeerMoves, MovesKeep
<1>4. ASSUME NEW c \in ToolCalls,
             CallEnds(c) \/ CallLost(c) \/ \E n \in Names : CallBegins(c, n)
      PROVE  ServersInv'
  BY <1>1, <1>4, CallsMove, MovesKeep
<1>5. ASSUME NEW g \in 1..Swaps, SwapStep(g) PROVE ServersInv'
  <2>1. ASSUME NEW n \in Names, SwapCloses(g, n) PROVE ServersInv'
    <3>1. Installed(g)
      BY <2>1 DEF SwapCloses, Installed
    <3>2. PICK old \in Gens : Replaces(g, old)
      BY <3>1, OldIs DEF Replaces
    <3>3. Moves
      BY <2>1, <3>2, CloseMoves
    <3>. QED BY <1>1, <3>3, MovesKeep
  <2>2. CASE SwapReads(g)
    BY <1>1, <2>2, ReadsKeeps
  <2>5. CASE SwapStops(g)
    <3>1. Moves
      BY <2>5, StopMoves
    <3>. QED BY <1>1, <3>1, MovesKeep
  <2>3. CASE SwapInstalls(g)
    BY <1>1, <2>3, InstallsKeep
  <2>4. CASE SwapEnds(g)
    <3>1. Moves
      BY <2>4, EndMoves
    <3>. QED BY <1>1, <3>1, MovesKeep
  <2>. QED BY <1>5, <2>1, <2>2, <2>3, <2>4, <2>5 DEF SwapStep
<1>6. CASE Requests
  <2>1. Moves
    BY <1>6, RequestMoves
  <2>. QED BY <1>1, <2>1, MovesKeep
<1>. QED BY <1>2, <1>3, <1>4, <1>5, <1>6 DEF ServersNext

(* A registered tool leads to a ready server, in whichever manager its clean-up *)
(* ran, except for the servers whose first start a swap overtook               *)
(* (manager.py:506).                                                           *)
THEOREM ToolsLeadToServers == ServersSpec => []ToolsHaveServer
<1>1. ServersInv => ToolsHaveServer
  BY DEF ServersInv
<1>. QED BY <1>1, ServersStart, ServersKeep, PTL DEF ServersSpec

(* When a hot swap is over, the transports it replaced are closed, with the     *)
(* same exception (manager.py:503).                                            *)
THEOREM ReplacedTransportsClose == ServersSpec => []ReplacedAreClosed
<1>1. ServersInv => ReplacedAreClosed
  BY DEF ServersInv, ClosedInv, ReplacedAreClosed, Installed
<1>. QED BY <1>1, ServersStart, ServersKeep, PTL DEF ServersSpec

-----------------------------------------------------------------------------
(* The client.                                                             *)

USE ClientAssumption

-----------------------------------------------------------------------------
(* Numbers                                                                 *)

\* A number belongs to one caller, for good: whoever has it is the one whose
\* request the message answers.
Belongs(id, caller) ==
    /\ id \in 1..lastId
    /\ caller \in Calls
    /\ \A c \in Calls : reqId[c] = id => c = caller

NumbersApart ==
    /\ lastId \in Nat
    /\ reqId \in [Calls -> Nat]
    /\ \A c \in Calls : reqId[c] <= lastId
    /\ \A c, d \in Calls : reqId[c] = reqId[d] /\ reqId[c] # 0 => c = d

InboxApart ==
    /\ inbox \in Seq(Message)
    /\ \A i \in 1..Len(inbox) : inbox[i].type = "request" => inbox[i].caller = Nobody
    /\ \A i \in 1..Len(inbox) :
          inbox[i].type = "answer" => Belongs(inbox[i].id, inbox[i].caller)

ClientInv ==
    /\ NumbersApart
    /\ pc \in [Calls -> {"idle", "queued", "sending", "receiving", "done"}]
    /\ outcome \in [Calls -> Calls \cup {Nobody, "none", "timeout", "lost", "garbled"}]
    /\ \A c \in Calls : pc[c] = "sending" => reqId[c] # 0
    /\ \A p \in pending : p \in Pending /\ Belongs(p.id, p.caller)
    /\ InboxApart
    /\ AnswerIsOwn

\* A call that gets the lock takes a number nobody has and no message carries.
LEMMA LockedNumbers ==
    ASSUME ClientInv, NEW c \in Calls, Locked(c)
    PROVE  /\ NumbersApart'
           /\ reqId'[c] # 0
           /\ \A id, caller : Belongs(id, caller) => Belongs(id, caller)'
<1>1. lastId' = lastId + 1 /\ reqId' = [reqId EXCEPT ![c] = lastId + 1]
  BY DEF Locked
<1>2. NumbersApart' /\ reqId'[c] # 0
  BY <1>1 DEF ClientInv, NumbersApart
<1>3. ASSUME NEW id, NEW caller, Belongs(id, caller) PROVE Belongs(id, caller)'
  BY <1>1, <1>3 DEF ClientInv, NumbersApart, Belongs
<1>. QED BY <1>2, <1>3

\* Messages that are added or taken keep the rest apart.
LEMMA InboxAppend ==
    ASSUME InboxApart, NEW m \in Message, m.type = "request" => m.caller = Nobody,
           m.type = "answer" => Belongs(m.id, m.caller),
           inbox' = Append(inbox, m), UNCHANGED <<lastId, reqId>>
    PROVE  InboxApart'
<1>1. inbox' \in Seq(Message) /\ Len(inbox') = Len(inbox) + 1
      /\ \A i \in 1..Len(inbox) : inbox'[i] = inbox[i]
      /\ inbox'[Len(inbox) + 1] = m /\ Len(inbox) \in Nat
  BY AppendProperties, LenProperties DEF InboxApart
<1>2. ASSUME NEW i \in 1..Len(inbox')
      PROVE  /\ inbox'[i].type = "request" => inbox'[i].caller = Nobody
             /\ inbox'[i].type = "answer" => Belongs(inbox'[i].id, inbox'[i].caller)
  <2>1. CASE i \in 1..Len(inbox)
    BY <1>1, <2>1 DEF InboxApart
  <2>2. CASE i = Len(inbox) + 1
    BY <1>1, <2>2
  <2>. QED BY <1>1, <2>1, <2>2
<1>. QED BY <1>1, <1>2 DEF InboxApart, Belongs

LEMMA InboxTail ==
    ASSUME InboxApart, inbox # <<>>, inbox' = Tail(inbox), UNCHANGED <<lastId, reqId>>
    PROVE  InboxApart'
<1>1. inbox' \in Seq(Message) /\ Len(inbox') = Len(inbox) - 1
      /\ \A i \in 1..Len(inbox') : inbox'[i] = inbox[i + 1]
  BY HeadTailProperties DEF InboxApart
<1>2. \A i \in 1..Len(inbox') : i + 1 \in 1..Len(inbox)
  BY <1>1, LenProperties DEF InboxApart
<1>. QED BY <1>1, <1>2 DEF InboxApart, Belongs

LEMMA ClientStep ==
    ASSUME ClientInv, [Next]_vars
    PROVE  ClientInv'
<1>. USE DEF ClientInv
<1>1. ASSUME NEW c \in Calls, Call(c) \/ LockAcquired(c) PROVE ClientInv'
  <2>1. CASE Locked(c)
    <3>1. UNCHANGED <<outcome, pending, inbox>> /\ pc' = [pc EXCEPT ![c] = "sending"]
      BY <1>1, <2>1 DEF Call, LockAcquired, Locked
    <3>2. InboxApart' /\ AnswerIsOwn'
      BY <2>1, <3>1, LockedNumbers DEF InboxApart, AnswerIsOwn
    <3>3. \A d \in Calls : d # c => reqId'[d] = reqId[d]
      BY <2>1 DEF Locked, NumbersApart
    <3>. QED BY <2>1, <3>1, <3>2, <3>3, LockedNumbers
  <2>2. CASE ~ Locked(c)
    <3>1. UNCHANGED <<outcome, pending, inbox, lastId, reqId>>
          /\ pc' = [pc EXCEPT ![c] = "queued"]
      BY <1>1, <2>2 DEF Call, LockAcquired
    <3>. QED BY <3>1 DEF InboxApart, NumbersApart, Belongs, AnswerIsOwn
  <2>. QED BY <2>1, <2>2
<1>2. ASSUME NEW c \in Calls, NEW how \in {"timeout", "lost", "garbled"}, Ends(c, how),
             UNCHANGED pending, InboxApart'
      PROVE  ClientInv'
  <2>1. UNCHANGED <<lastId, reqId>> /\ pc' = [pc EXCEPT ![c] = "done"]
        /\ outcome' = [outcome EXCEPT ![c] = how]
    BY <1>2 DEF Ends
  <2>2. AnswerIsOwn'
    BY <2>1 DEF AnswerIsOwn
  <2>. QED BY <1>2, <2>1, <2>2 DEF NumbersApart, Belongs
<1>3. ASSUME NEW c \in Calls, Posted(c) PROVE ClientInv'
  <2>1. reqId[c] \in 1..lastId /\ Belongs(reqId[c], c)
    BY <1>3 DEF Posted, NumbersApart, Belongs
  <2>2. UNCHANGED <<lastId, reqId, outcome>> /\ pc' = [pc EXCEPT ![c] = "receiving"]
    BY <1>3 DEF Posted
  <2>3. Asked(c) \in Pending /\ Belongs(Asked(c).id, Asked(c).caller)
        /\ AnswerTo(Asked(c)) \in Message /\ AnswerTo(Asked(c)).type = "answer"
        /\ Belongs(AnswerTo(Asked(c)).id, AnswerTo(Asked(c)).caller)
    BY <2>1 DEF Asked, AnswerTo, Pending, Message
  <2>4. InboxApart'
    <3>1. CASE UNCHANGED inbox
      BY <2>2, <3>1 DEF InboxApart, Belongs
    <3>2. CASE inbox' = Append(inbox, AnswerTo(Asked(c)))
      BY <2>2, <2>3, <3>2, InboxAppend
    <3>. QED BY <1>3, <3>1, <3>2 DEF Posted
  <2>5. \A p \in pending' : p \in pending \/ p = Asked(c)
    BY <1>3 DEF Posted
  <2>6. AnswerIsOwn'
    BY <2>2 DEF AnswerIsOwn
  <2>. QED BY <2>2, <2>3, <2>4, <2>5, <2>6 DEF NumbersApart, Belongs
<1>4. ASSUME NEW c \in Calls, Requested(c) PROVE ClientInv'
  <2>1. Asked(c) \in Pending /\ Belongs(Asked(c).id, Asked(c).caller)
    BY <1>4 DEF Requested, NumbersApart, Belongs, Asked, Pending
  <2>2. UNCHANGED <<lastId, reqId, outcome, pc, inbox>> /\ pending' = pending \cup {Asked(c)}
    BY <1>4 DEF Requested
  <2>. QED BY <2>1, <2>2 DEF NumbersApart, Belongs, InboxApart, AnswerIsOwn
<1>5. ASSUME NEW p \in pending, Responded(p) \/ Answers(p) PROVE ClientInv'
  <2>1. UNCHANGED <<lastId, reqId, outcome>> /\ pending' = pending \ {p}
    BY <1>5 DEF Responded, Answers
  <2>2. AnswerTo(p) \in Message /\ AnswerTo(p).type = "answer"
        /\ Belongs(AnswerTo(p).id, AnswerTo(p).caller)
    BY DEF AnswerTo, Pending, Message
  <2>3. InboxApart'
    <3>1. CASE UNCHANGED inbox
      BY <2>1, <3>1 DEF InboxApart, Belongs
    <3>2. CASE inbox' = Append(inbox, AnswerTo(p))
      BY <2>1, <2>2, <3>2, InboxAppend
    <3>. QED BY <1>5, <3>1, <3>2 DEF Responded, Answers
  <2>4. pc' = pc \/ pc' = [pc EXCEPT ![p.caller] = "receiving"]
    BY <1>5 DEF Responded, Answers
  <2>5. AnswerIsOwn'
    BY <2>1 DEF AnswerIsOwn
  <2>. QED BY <2>1, <2>3, <2>4, <2>5 DEF NumbersApart, Belongs, Pending
<1>6. ASSUME NEW c \in Calls, SendFails(c) \/ TimesOut(c) PROVE ClientInv'
  <2>1. InboxApart'
    BY <1>6 DEF SendFails, TimesOut, Ends, InboxApart, Belongs
  <2>. QED BY <1>2, <1>6, <2>1 DEF SendFails, TimesOut
<1>7. ASSUME NEW c \in Calls, Discards(c) PROVE ClientInv'
  <2>1. UNCHANGED <<lastId, reqId, outcome, pc, pending>> /\ inbox # <<>>
        /\ inbox' = Tail(inbox)
    BY <1>7 DEF Discards
  <2>2. InboxApart'
    BY <2>1, InboxTail
  <2>. QED BY <2>1, <2>2 DEF NumbersApart, Belongs, AnswerIsOwn
<1>8. ASSUME NEW c \in Calls, Receives(c) PROVE ClientInv'
  <2>. DEFINE m == Head(inbox)
  <2>1. inbox # <<>> /\ m = inbox[1] /\ 1 \in 1..Len(inbox)
    BY <1>8, HeadTailProperties DEF Receives, InboxApart
  <2>2. UNCHANGED <<lastId, reqId, pending>>
    BY <1>8 DEF Receives, Ends
  <2>3. InboxApart'
    <3>1. CASE inbox' = Tail(inbox)
      BY <2>1, <2>2, <3>1, InboxTail
    <3>2. CASE inbox' = inbox
      BY <2>2, <3>2 DEF InboxApart, Belongs
    <3>. QED BY <1>8, <3>1, <3>2 DEF Receives
  <2>4. CASE Matches(m, c) /\ Ends(c, m.caller)
    <3>1. m.type \in {"answer", "request"} /\ m.id = reqId[c]
      BY <2>4 DEF Matches
    <3>2. m.caller \in {c, Nobody}
      BY <2>1, <3>1 DEF InboxApart, Belongs
    <3>3. /\ pc' = [pc EXCEPT ![c] = "done"]
          /\ outcome' = [outcome EXCEPT ![c] = c] \/ outcome' = [outcome EXCEPT ![c] = Nobody]
      BY <2>4, <3>2 DEF Ends
    <3>4. AnswerIsOwn'
      BY <3>3 DEF AnswerIsOwn
    <3>. QED BY <2>2, <2>3, <3>3, <3>4 DEF NumbersApart, Belongs
  <2>5. CASE Ends(c, "garbled") \/ Ends(c, "lost")
    BY <1>2, <2>2, <2>3, <2>5
  <2>. QED BY <1>8, <2>4, <2>5 DEF Receives
<1>9. ASSUME NEW type \in Extras, NEW n \in 0..lastId, SendsExtra(type, n) PROVE ClientInv'
  <2>. DEFINE m == [type |-> IF type = "noise" /\ kind = "http" THEN "garbled" ELSE type,
                    id |-> n, caller |-> Nobody]
  <2>1. UNCHANGED <<lastId, reqId, outcome, pc, pending>> /\ inbox' = Append(inbox, m)
    BY <1>9 DEF SendsExtra
  <2>2. m \in Message /\ m.caller = Nobody /\ m.type # "answer"
    BY <1>9 DEF Message, NumbersApart
  <2>3. InboxApart'
    BY <2>1, <2>2, InboxAppend
  <2>. QED BY <2>1, <2>3 DEF NumbersApart, Belongs, AnswerIsOwn
<1>10. ASSUME StreamEnds PROVE ClientInv'
  <2>. DEFINE m == [type |-> "end", id |-> 0, caller |-> Nobody]
  <2>1. UNCHANGED <<lastId, reqId, outcome, pc, pending>> /\ inbox' = Append(inbox, m)
    BY <1>10 DEF StreamEnds
  <2>2. m \in Message /\ m.type # "request" /\ m.type # "answer"
    BY DEF Message
  <2>3. InboxApart'
    BY <2>1, <2>2, InboxAppend
  <2>. QED BY <2>1, <2>3 DEF NumbersApart, Belongs, AnswerIsOwn
<1>11. CASE UNCHANGED vars
  BY <1>11 DEF vars, NumbersApart, Belongs, InboxApart, AnswerIsOwn
<1>. QED
  BY <1>1, <1>3, <1>4, <1>5, <1>6, <1>7, <1>8, <1>9, <1>10, <1>11
  DEF Next, CallStep, Server

\* A call never returns the answer to another (client.py:67), whatever is late, lost or
\* abandoned, however many callers there are and whatever else the server sends.
THEOREM AnswersAreOwn == Spec => []AnswerIsOwn
<1>1. Init => ClientInv
  <2>1. ASSUME Init PROVE inbox = <<>> /\ Len(inbox) = 0 /\ inbox \in Seq(Message)
    BY <2>1, EmptySeq DEF Init
  <2>. QED BY <2>1 DEF Init, ClientInv, NumbersApart, InboxApart, AnswerIsOwn
<1>2. ClientInv /\ [Next]_vars => ClientInv'
  BY ClientStep
<1>3. ClientInv => AnswerIsOwn
  BY DEF ClientInv
<1>. QED BY <1>1, <1>2, <1>3, PTL DEF Spec
=============================================================================
