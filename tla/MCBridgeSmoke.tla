---------------------------- MODULE MCBridgeSmoke ----------------------------
EXTENDS BridgeSmoke

\* One bridge round with one request, one with several, then the TLS round.
MCPlan == <<[server |-> "bridge", count |-> 1], [server |-> "bridge", count |-> 3],
            [server |-> "tls", count |-> 1]>>
=============================================================================
