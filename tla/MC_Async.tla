------------------------------ MODULE MC_Async ------------------------------
(* Small instances of Async for TLC.                                        *)
EXTENDS Async

\* The peer sends a packet, a PING and a second packet.
MCInbound == <<"user", "ping", "user">>
\* The user writes one packet with content.
MCOutbound == <<TRUE>>
\* The peer sends one packet (the instance for the liveness checks).
MCInboundOne == <<"user">>
\* The peer sends a packet and a PING (the instance with socket faults).
MCInboundTwo == <<"user", "ping">>
=============================================================================
