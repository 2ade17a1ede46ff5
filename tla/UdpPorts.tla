------------------------------ MODULE UdpPorts ------------------------------
(***************************************************************************)
(* How a session finds its three UDP ports (nextFreeUDPPort and            *)
(* bind_UDP_port in src/src/common.c, called by rtp_setup).  Other         *)
(* programs, and a session that is being torn down, take and free ports of *)
(* the range at any time.                                                  *)
(***************************************************************************)
EXTENDS Naturals, FiniteSets

CONSTANTS
  udp_port_base,
  udp_port_range,
  MaxSessions

\* shairport.c accepts a range of 3 and more.  (With udp_port_base 0 there is no search.)
ASSUME UdpPortsAssumption ==
  udp_port_base \in Nat \ {0} /\ udp_port_range \in Nat \ 0..2 /\ MaxSessions \in Nat

Ports == udp_port_base..(udp_port_base + udp_port_range - 1)

VARIABLES
  UDPPortIndex,
  in_use,         \* ports somebody else has
  bound,          \* ports of this session
  tryCount,
  port_pc,        \* "idle", "binding" or "died"
  sessions,
  refused         \* history: ports found in use, or bound, since the last ANNOUNCE

uvars == <<UDPPortIndex, in_use, bound, tryCount, port_pc, sessions, refused>>

PortsInit ==
  /\ UDPPortIndex = 0 /\ in_use = {} /\ bound = {} /\ tryCount = 0
  /\ port_pc = "idle" /\ sessions = 0 /\ refused = {}

\* The first three ports are skipped when the search comes round: ANNOUNCE hands
\* them out first.
nextFreeUDPPort(i) ==
  IF i = 0 THEN udp_port_base
  ELSE IF i = udp_port_base + udp_port_range - 1 THEN udp_port_base + 3
  ELSE i + 1

\* Mutant: the search goes on from where the last session left it.
AnnounceNoReset ==
  /\ port_pc = "idle" /\ bound = {} /\ sessions < MaxSessions
  /\ sessions' = sessions + 1 /\ refused' = {}
  /\ port_pc' = "binding" /\ tryCount' = 0
  /\ UNCHANGED <<UDPPortIndex, in_use, bound>>

\* ANNOUNCE resets the search; SETUP then binds control, timing and audio.
Announce ==
  /\ port_pc = "idle" /\ bound = {} /\ sessions < MaxSessions
  /\ UDPPortIndex' = 0 /\ refused' = {} /\ sessions' = sessions + 1
  /\ port_pc' = "binding" /\ tryCount' = 0
  /\ UNCHANGED <<in_use, bound>>

\* One round of the loop in bind_UDP_port; without a port the program dies.
bind_UDP_port ==
  LET port == nextFreeUDPPort(UDPPortIndex)
      free == port \notin in_use \cup bound
  IN  /\ port_pc = "binding" /\ UDPPortIndex' = port /\ refused' = refused \cup {port}
      /\ \/ /\ free
            /\ bound' = bound \cup {port} /\ tryCount' = 0
            /\ port_pc' = IF Cardinality(bound') = 3 THEN "idle" ELSE "binding"
         \/ /\ ~free
            /\ tryCount' = tryCount + 1 /\ bound' = bound
            /\ port_pc' = IF tryCount' < udp_port_range THEN "binding" ELSE "died"
      /\ UNCHANGED <<in_use, sessions>>

\* The cleanup of the conversation thread closes the sockets.
CloseSockets ==
  /\ port_pc = "idle" /\ bound # {} /\ bound' = {}
  /\ UNCHANGED <<UDPPortIndex, in_use, tryCount, port_pc, sessions, refused>>

OthersBind ==
  /\ \/ \E p \in Ports \ (in_use \cup bound) : in_use' = in_use \cup {p}
     \/ \E p \in in_use : in_use' = in_use \ {p}
  /\ UNCHANGED <<UDPPortIndex, bound, tryCount, port_pc, sessions, refused>>

PortsNext == Announce \/ bind_UDP_port \/ CloseSockets \/ OthersBind

PortsSpec == PortsInit /\ [][PortsNext]_uvars
-----------------------------------------------------------------------------
\* A session only ever binds ports of the configured range, however often the search
\* has come round (nextFreeUDPPort skips the first three then), and it gives up only
\* when it has met every port of the range in use since ANNOUNCE.
PortsAreSearched ==
  /\ bound \subseteq Ports
  /\ port_pc = "died" => Ports \subseteq refused
=============================================================================
