----------------------------- MODULE MCUpdateEngine -----------------------------
(* Instances of UpdateEngine for TLC.                                      *)
EXTENDS UpdateEngine

CONSTANTS a, b,     \* containers, and identifiers when there is no prefix
          xa, xb,   \* their identifiers with the prefix x
          v1, v2

MCNames == {a, b}
MCValues == {v1, v2}
MCOneValue == {v1}

\* Names that are their own identifiers.
MCPlainTopics == MCNames
MCPlain == [n \in MCNames |-> n]

\* With --prefix=x, an identifier is never a name.
MCPrefixedTopics == {xa, xb}
MCPrefixed == [n \in MCNames |-> IF n = a THEN xa ELSE xb]

\* Containers come and go on a lasting connection and any read may fail; or Home
\* Assistant restarts while they come, or while they go.
MCContainers ==
  {{"create", "remove", "read"}, {"create", "restart"}, {"remove", "restart"}}

\* Connections, containers and the lists of scans are lost and states change; or
\* Home Assistant restarts.
MCReconnections ==
  {{"change", "remove", "list", "reconnect"}, {"change", "reconnect", "restart"}}

\* Containers only go.
MCRemoval == {{"remove"}}

================================================================================
