-------------------------- MODULE MCMcpConnections --------------------------
EXTENDS McpConnections, TLC

CONSTANTS c1, c2, s1, s2, w1

\* Two calls share a connection; the other server is only waited for.
MCHome == (c1 :> s1) @@ (c2 :> s1)
MCUnder == w1 :> {s1, s2}
=============================================================================
