----------------------------- MODULE McpServers -----------------------------
(***************************************************************************)
(* McpServerManager (agent_runtime/tools/mcp/manager.py) with the calls of *)
(* the session manager that start, stop and replace servers.               *)
(*                                                                         *)
(* hot_swap builds a second manager, starts its servers and then takes     *)
(* over that manager's dictionaries.  Generation 0 is the manager the      *)
(* application keeps, generation g > 0 the manager built by swap g.  The   *)
(* disconnect callback of a transport and the tools wrapped by a manager   *)
(* go on referring to the manager that made them: the kept manager looks   *)
(* in the dictionary it holds now (cur), every other one in its own.       *)
(***************************************************************************)
EXTENDS Naturals

CONSTANTS Names,        \* names of MCP servers
          NoManager,    \* no manager: the tool is not registered
          Shares,       \* [Names -> SUBSET Names]: servers whose tool names start
                        \* with the prefix of a server, itself among them
          Kind,         \* [Names -> {"stdio", "sse", "http"}]
          Listing,      \* servers with the resources or prompts capability
          Swaps,        \* hot swaps that may be made, numbered from 1
          ToolCalls,    \* tool calls that may be under way
          Edited,       \* servers created and deleted
          StoredRows,   \* the configurations the process may start with
          Wired         \* was the session manager given the MCP manager?

RowStates == {"absent", "disabled", "enabled"}

ASSUME McpAssumption ==
    /\ Kind \in [Names -> {"stdio", "sse", "http"}]
    /\ Listing \subseteq Names
    /\ Edited \subseteq Names
    /\ StoredRows \subseteq [Names -> RowStates]
    /\ Swaps \in Nat
    /\ NoManager \notin 0..Swaps
    /\ Shares \in [Names -> SUBSET Names]
    /\ \A n \in Names : n \in Shares[n]
    /\ Wired \in BOOLEAN

Gens == 0..Swaps

VARIABLES tool,         \* [Names -> Gens or NoManager]: the registered tool of a
                        \* server and the manager that wrapped it
          row,          \* [Names -> ...]: the stored configuration
          cur,          \* the generation whose dictionaries the kept manager holds
          status,       \* [Gens -> [Names -> ...]]: client status, "none" if no client
          task,         \* [Gens -> [Names -> ...]]: where the start task is
          conn,         \* [Gens -> [Names -> ...]]: the transport of a client
          callback,     \* [Gens -> SUBSET Names]: on_disconnect still set
          swap,         \* [1..Swaps -> record]: the hot swaps
          call,         \* [ToolCalls -> record]: tool calls under way
          overtaken     \* servers whose first start was under way when a swap began

serversVars == <<tool, row, cur, status, task, conn, callback, swap, call, overtaken>>

Unfinished == {"connect", "handshake", "extras", "closing", "stuck"}
NoCall == [server |-> "none", wrapper |-> 0, client |-> 0]
CallRecord == [server : Names, wrapper : Gens, client : Gens] \cup {NoCall}
SwapRecord == [pc : {"idle", "written", "reading", "starting", "closing", "done"},
               stop : SUBSET Names, configs : SUBSET Names, left : SUBSET Names,
               old : Gens]

ServersTypeOK ==
    /\ tool \in [Names -> Gens \cup {NoManager}]
    /\ row \in [Names -> RowStates]
    /\ cur \in Gens
    /\ status \in [Gens -> [Names -> {"none", "starting", "ready",
                                      "failed", "disconnected"}]]
    /\ task \in [Gens -> [Names -> Unfinished \cup {"none", "done"}]]
    /\ conn \in [Gens -> [Names -> {"none", "open", "dead"}]]
    /\ callback \in [Gens -> SUBSET Names]
    /\ swap \in [1..Swaps -> SwapRecord]
    /\ call \in [ToolCalls -> CallRecord]
    /\ overtaken \subseteq Names

-----------------------------------------------------------------------------
(* The dictionary a manager looks in.                                      *)

Held(g) == IF g = 0 THEN cur ELSE g

Registered == {n \in Names : tool[n] # NoManager}

Clients(g) == {n \in Names : status[g][n] # "none"}

ServersInit ==
    /\ tool = [n \in Names |-> NoManager]
    /\ row \in StoredRows
    /\ cur = 0
    /\ status = [g \in Gens |-> [n \in Names |->
                    IF g = 0 /\ row[n] = "enabled" THEN "starting" ELSE "none"]]
    /\ task = [g \in Gens |-> [n \in Names |->
                    IF g = 0 /\ row[n] = "enabled" THEN "connect" ELSE "none"]]
    /\ conn = [g \in Gens |-> [n \in Names |-> "none"]]
    /\ callback = [g \in Gens |-> {}]
    /\ swap = [g \in 1..Swaps |->
                    [pc |-> "idle", stop |-> {}, configs |-> {}, left |-> {}, old |-> 0]]
    /\ call = [c \in ToolCalls |-> NoCall]
    /\ overtaken = {}

-----------------------------------------------------------------------------
(* _unregister_server_tools removes every tool whose name starts with the   *)
(* prefix of the server.                                                   *)

UnregisterServers(servers) ==
    tool' = [n \in Names |->
                IF n \in UNION {Shares[m] : m \in servers} THEN NoManager ELSE tool[n]]

(* _on_server_disconnected: nothing if the name is gone or disconnected in  *)
(* the dictionary looked in.                                               *)

Gone(st, g, n) == st[Held(g)][n] \in {"none", "disconnected"}

Marked(st, g, n) ==
    IF Gone(st, g, n) THEN st ELSE [st EXCEPT ![Held(g)][n] = "disconnected"]

Disconnected(st, g, n) ==
    /\ status' = Marked(st, g, n)
    /\ IF Gone(st, g, n) THEN UNCHANGED tool ELSE UnregisterServers({n})

\* The callback of an SSE transport runs in its reader and awaits the start
\* task it cancels, while that task awaits the reader it cancels.
ReaderAwaitsStart(g, n) ==
    /\ Kind[n] = "sse"
    /\ n \in callback[g]
    /\ Held(g) = g
    /\ ~ Gone(status, g, n)
    /\ task[g][n] \in Unfinished

\* A mistake: a cancelled start skips its finally block.
CancelledAtOnce(t) ==
    CASE t \in {"connect", "handshake", "extras"} -> "cancelled"
      [] t = "closing" -> "done"
      [] OTHER -> t

Cancelled(t) ==
    CASE t \in {"connect", "handshake", "extras"} -> "closing"
      [] t = "closing" -> "done"
      [] OTHER -> t

-----------------------------------------------------------------------------
(* _start_one of a server, from suspension to suspension.  The time limit  *)
(* of each call is one of the ways it fails.                               *)

Connected(g, n) ==
    /\ task[g][n] = "connect"
    /\ task' = [task EXCEPT ![g][n] = "handshake"]
    /\ conn' = [conn EXCEPT ![g][n] = "open"]
    /\ callback' = [callback EXCEPT ![g] = @ \cup {n}]
    /\ UNCHANGED <<tool, row, cur, status, swap, call, overtaken>>

ToolsListed(g, n) ==
    /\ task[g][n] = "handshake"
    /\ conn[g][n] = "open"
    /\ n \in Listing
    /\ task' = [task EXCEPT ![g][n] = "extras"]
    /\ UNCHANGED <<tool, row, cur, status, conn, callback, swap, call, overtaken>>

\* Whatever happens while resources and prompts are listed is logged and ignored.
ServerReady(g, n) ==
    /\ \/ task[g][n] = "extras"
       \/ task[g][n] = "handshake" /\ conn[g][n] = "open" /\ n \notin Listing
    /\ tool' = [tool EXCEPT ![n] = g]
    /\ status' = [status EXCEPT ![g][n] = "ready"]
    /\ task' = [task EXCEPT ![g][n] = "done"]
    /\ UNCHANGED <<row, cur, conn, callback, swap, call, overtaken>>

\* A process that closes its output is noticed by the start task, which runs
\* the callback before the error reaches it.
EndOfOutput(g, n) ==
    Kind[n] = "stdio" /\ conn[g][n] = "dead" /\ n \in callback[g]

StartFails(g, n) ==
    /\ task[g][n] \in {"connect", "handshake"}
    /\ task' = [task EXCEPT ![g][n] = "closing"]
    /\ IF EndOfOutput(g, n)
       THEN /\ status' = [Marked(status, g, n) EXCEPT ![g][n] = "failed"]
            /\ UnregisterServers(IF Gone(status, g, n) THEN {} ELSE {n})
            /\ callback' = [callback EXCEPT ![g] = @ \ {n}]
       ELSE /\ status' = [status EXCEPT ![g][n] = "failed"]
            /\ UNCHANGED <<tool, callback>>
    /\ UNCHANGED <<row, cur, conn, swap, call, overtaken>>

ListingLost(g, n) ==
    /\ task[g][n] = "extras"
    /\ EndOfOutput(g, n)
    /\ Disconnected(status, g, n)
    /\ callback' = [callback EXCEPT ![g] = @ \ {n}]
    /\ UNCHANGED <<row, cur, task, conn, swap, call, overtaken>>

\* A mistake: the tools of a server that failed to start stay.
CloseKeepsTools(g, n) ==
    /\ task[g][n] = "closing"
    /\ status' = Marked(status, g, n)
    /\ callback' = [callback EXCEPT ![g] = @ \ {n}]
    /\ task' = [task EXCEPT ![g][n] = "done"]
    /\ conn' = [conn EXCEPT ![g][n] = "none"]
    /\ UNCHANGED <<tool, row, cur, swap, call, overtaken>>

\* The finally block of _start_one: close the transport, whose callback runs,
\* then clean up.
StartCloses(g, n) ==
    /\ task[g][n] = "closing"
    /\ Disconnected(status, g, n)
    /\ callback' = [callback EXCEPT ![g] = @ \ {n}]
    /\ IF ReaderAwaitsStart(g, n)
       THEN task' = [task EXCEPT ![g][n] = "stuck"] /\ UNCHANGED conn
       ELSE /\ task' = [task EXCEPT ![g][n] = "done"]
            /\ conn' = [conn EXCEPT ![g][n] = "none"]
    /\ UNCHANGED <<row, cur, swap, call, overtaken>>

StartStep(g, n) ==
    \/ Connected(g, n)
    \/ ToolsListed(g, n)
    \/ ServerReady(g, n)
    \/ StartFails(g, n)
    \/ StartCloses(g, n)

-----------------------------------------------------------------------------
(* Servers go away.  Only an SSE transport has a reader that notices.       *)

PeerDies(g, n) ==
    /\ conn[g][n] = "open"
    /\ task[g][n] \notin {"closing", "stuck"}
    /\ conn' = [conn EXCEPT ![g][n] = "dead"]
    /\ IF Kind[n] = "sse" /\ n \in callback[g]
       THEN /\ Disconnected(status, g, n)
            /\ callback' = [callback EXCEPT ![g] = @ \ {n}]
            /\ task' = IF ReaderAwaitsStart(g, n)
                       THEN [task EXCEPT ![g][n] = "stuck"] ELSE task
       ELSE UNCHANGED <<tool, status, callback, task>>
    /\ UNCHANGED <<row, cur, swap, call, overtaken>>

-----------------------------------------------------------------------------
(* call_tool.  The client is looked up when the call begins; the clean-up   *)
(* after a transport error looks the name up again.                        *)

CallBegins(c, n) ==
    /\ call[c] = NoCall
    /\ n \in Registered
    /\ LET w == tool[n] IN
       /\ status[Held(w)][n] = "ready"
       /\ call' = [call EXCEPT ![c] = [server |-> n, wrapper |-> w, client |-> Held(w)]]
    /\ UNCHANGED <<tool, row, cur, status, task, conn, callback, swap, overtaken>>

\* Answered, refused by the server, or out of time.
CallEnds(c) ==
    /\ call[c] # NoCall
    /\ call' = [call EXCEPT ![c] = NoCall]
    /\ UNCHANGED <<tool, row, cur, status, task, conn, callback, swap, overtaken>>

CallLost(c) ==
    /\ call[c] # NoCall
    /\ LET n == call[c].server
           w == call[c].wrapper
           d == call[c].client
           seen == IF EndOfOutput(d, n) THEN Marked(status, d, n) ELSE status
       IN  /\ conn[d][n] # "open" \/ Kind[n] = "http"
           /\ status' = Marked(seen, w, n)
           /\ UnregisterServers(IF status' = status THEN {} ELSE {n})
           /\ callback' = IF EndOfOutput(d, n)
                          THEN [callback EXCEPT ![d] = @ \ {n}] ELSE callback
    /\ call' = [call EXCEPT ![c] = NoCall]
    /\ UNCHANGED <<row, cur, task, conn, swap, overtaken>>

-----------------------------------------------------------------------------
(* The calls of the session manager.                                       *)

\* disable_server of the kept manager, for the servers named.
Disable(servers) ==
    /\ UnregisterServers(servers)
    /\ status' = [status EXCEPT ![cur] = [n \in Names |->
                    IF n \in servers \cap Clients(cur) THEN "disconnected" ELSE @[n]]]
    /\ task' = [task EXCEPT ![cur] = [n \in Names |->
                    IF n \in servers THEN Cancelled(@[n]) ELSE @[n]]]

CreateServer(n, as) ==
    /\ row[n] = "absent"
    /\ row' = [row EXCEPT ![n] = as]
    /\ UNCHANGED <<tool, cur, status, task, conn, callback, swap, call, overtaken>>

DeleteServer(n) ==
    /\ row[n] # "absent"
    /\ IF row[n] = "enabled" /\ Wired
       THEN Disable({n})
       ELSE UNCHANGED <<tool, status, task>>
    /\ row' = [row EXCEPT ![n] = "absent"]
    /\ UNCHANGED <<cur, conn, callback, swap, call, overtaken>>

NextSwap(g) == swap[g].pc = "idle" /\ \A h \in 1..(g - 1) : swap[h].pc # "idle"

\* Enable and update write the row, disable and reconnect also stop the server;
\* a session manager without the MCP manager only writes.
RequestSwap(n, as, stop) ==
    /\ row[n] # "absent"
    /\ row' = [row EXCEPT ![n] = as]
    /\ IF Wired
       THEN \E g \in 1..Swaps :
                /\ NextSwap(g)
                /\ swap' = [swap EXCEPT ![g] = [@ EXCEPT !.pc = "written", !.stop = stop]]
       ELSE UNCHANGED swap
    /\ UNCHANGED <<tool, cur, status, task, conn, callback, call, overtaken>>

\* An update that switches the server off changes no running server.
UpdateSwitchesOff(n) ==
    /\ row[n] = "enabled"
    /\ row' = [row EXCEPT ![n] = "disabled"]
    /\ UNCHANGED <<tool, cur, status, task, conn, callback, swap, call, overtaken>>

\* The row is written: the server is stopped, and the configurations are asked
\* for as they are now.
SwapStops(g) ==
    /\ swap[g].pc = "written"
    /\ Disable(swap[g].stop)
    /\ swap' = [swap EXCEPT ![g] = [@ EXCEPT !.pc = "reading", !.stop = {},
                                    !.configs = {n \in Names : row[n] = "enabled"}]]
    /\ UNCHANGED <<row, cur, conn, callback, call, overtaken>>

\* A manager with the configurations starts.
SwapReads(g) ==
    /\ swap[g].pc = "reading"
    /\ status' = [status EXCEPT ![g] =
                    [n \in Names |-> IF n \in swap[g].configs THEN "starting" ELSE "none"]]
    /\ task' = [task EXCEPT ![g] =
                    [n \in Names |-> IF n \in swap[g].configs THEN "connect" ELSE "none"]]
    /\ swap' = [swap EXCEPT ![g].pc = "starting", ![g].configs = {}]
    /\ overtaken' = overtaken \cup {n \in Names : task[cur][n] \in Unfinished}
    /\ UNCHANGED <<tool, row, cur, conn, callback, call>>

\* A mistake: waits for every server, those without a start among them.
StartedEverywhere(g) == \A n \in Names : task[g][n] = "done"

Started(g) == \A n \in Names : task[g][n] \in {"none", "done"}

\* Nobody looks in the first dictionary once it is replaced: its statuses are
\* forgotten.
Dropped == [n \in Names |-> "none"]

SwapInstalls(g) ==
    /\ swap[g].pc = "starting"
    /\ Started(g)
    /\ UnregisterServers(Clients(cur) \ Clients(g))
    /\ swap' = [swap EXCEPT ![g].pc = "closing", ![g].left = Clients(cur), ![g].old = cur]
    /\ cur' = g
    /\ status' = [status EXCEPT ![0] = Dropped]
    /\ UNCHANGED <<row, task, conn, callback, call, overtaken>>

\* A mistake: the callback of the transport goes with it, so that it never runs.
SwapForgets(g, n) ==
    /\ swap[g].pc = "closing"
    /\ n \in swap[g].left
    /\ swap' = [swap EXCEPT ![g].left = @ \ {n}]
    /\ UNCHANGED <<tool, row, cur, status, task, conn, callback, call, overtaken>>

SwapCloses(g, n) ==
    /\ swap[g].pc = "closing"
    /\ n \in swap[g].left
    /\ LET old == swap[g].old IN
       /\ conn' = [conn EXCEPT ![old][n] = "none"]
       /\ callback' = [callback EXCEPT ![old] = @ \ {n}]
       /\ IF conn[old][n] # "none" /\ n \in callback[old]
          THEN Disconnected(status, old, n)
          ELSE UNCHANGED <<tool, status>>
    /\ swap' = [swap EXCEPT ![g].left = @ \ {n}]
    /\ UNCHANGED <<row, cur, task, call, overtaken>>

SwapEnds(g) ==
    /\ swap[g].pc = "closing"
    /\ swap[g].left = {}
    /\ task' = [task EXCEPT ![swap[g].old] = [n \in Names |-> Cancelled(@[n])]]
    /\ swap' = [swap EXCEPT ![g].pc = "done"]
    /\ UNCHANGED <<tool, row, cur, status, conn, callback, call, overtaken>>

SwapStep(g) ==
    \/ SwapStops(g)
    \/ SwapReads(g)
    \/ SwapInstalls(g)
    \/ \E n \in Names : SwapCloses(g, n)
    \/ SwapEnds(g)

Requests ==
    \/ \E n \in Edited, as \in {"disabled", "enabled"} : CreateServer(n, as)
    \/ \E n \in Edited : DeleteServer(n)
    \/ \E n \in Names : RequestSwap(n, "enabled", {})
    \/ \E n \in Names : RequestSwap(n, "disabled", {n})
    \/ \E n \in Names : RequestSwap(n, row[n], {n}) \/ UpdateSwitchesOff(n)

ServersNext ==
    \/ \E g \in Gens, n \in Names :
          StartStep(g, n) \/ ListingLost(g, n) \/ PeerDies(g, n)
    \/ \E c \in ToolCalls : CallEnds(c) \/ CallLost(c) \/ \E n \in Names : CallBegins(c, n)
    \/ \E g \in 1..Swaps : SwapStep(g)
    \/ Requests

\* Every await of a start is bounded by a time limit; a swap goes on when the
\* starts it gathered are over.
ServersFairness ==
    /\ \A g \in Gens, n \in Names : WF_serversVars(StartStep(g, n))
    /\ \A g \in 1..Swaps : WF_serversVars(SwapStep(g))

ServersSpec == ServersInit /\ [][ServersNext]_serversVars /\ ServersFairness

-----------------------------------------------------------------------------
(* A registered tool leads to a ready server: a server that failed, was     *)
(* stopped or lost its transport is cleaned out of the registry, whichever *)
(* manager the clean-up ran in.  The exception are servers whose first     *)
(* start was still under way when a swap began (manager.py:506).           *)
ToolsHaveServer ==
    \A n \in Registered \ overtaken : status[Held(tool[n])][n] = "ready"

(* What a hot swap replaces is closed: when it is over, no transport of an  *)
(* earlier generation stays open, with the same exception (manager.py:503). *)
ReplacedAreClosed ==
    \A g \in 1..Swaps, n \in Names \ overtaken :
        swap[g].pc = "done" => conn[swap[g].old][n] = "none"

(* A hot swap comes to its end, so that the request that caused it is       *)
(* answered, unless an SSE server it starts got stuck (manager.py:482).     *)
SwapEndsUnlessStuck ==
    \A g \in 1..Swaps :
        swap[g].pc = "written" ~>
            swap[g].pc = "done" \/ \E n \in Names : task[g][n] = "stuck"

(* McpServerManager.start: "Returns a dict of {server_name:                 *)
(* status_or_error}" (manager.py:137).  It returns when every start is over.*)
StartReturns == <>Started(0)

=============================================================================
