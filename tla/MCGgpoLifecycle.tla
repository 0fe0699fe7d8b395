-------------------------- MODULE MCGgpoLifecycle --------------------------
(* Instances of GgpoLifecycle for TLC. *)
EXTENDS GgpoLifecycle

\* Every way the traffic may travel: the VPS's UDP relay, a punched P2P path,
\* the session tunnel, and plain addresses on a LAN.
EveryTransport == {"udp", "p2p", "tunnel", "direct"}

\* The transport the sync watchdog looks after.
VpsRelay == {"udp"}
=============================================================================
