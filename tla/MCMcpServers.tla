---------------------------- MODULE MCMcpServers ----------------------------
EXTENDS McpServers

\* A process and an SSE server, named so that the prefix of the first is shared.
MCKind == [n \in Names |-> IF n = "a" THEN "stdio" ELSE "sse"]
MCShares == [n \in Names |-> IF n = "a" THEN Names ELSE {n}]
\* One of the two is running when the first swap comes.
MCStoredRows == {[n \in Names |-> IF n = first THEN "enabled" ELSE "disabled"] :
                    first \in Names}
=============================================================================
