-------------------------- MODULE MC_TunnelGateway --------------------------
EXTENDS TunnelGateway

\* Tunnel ids: zero, one with four distinct bytes (0x01020304), and the
\* largest TLC integer; payloads: empty and two distinct bytes.
MCMsgs == [tunnelId : {0, 16909060, 2147483647}, data : {<<>>, <<1, 2>>}]
=============================================================================
