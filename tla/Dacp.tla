-------------------------------- MODULE Dacp --------------------------------
(***************************************************************************)
(* The DACP client (dacp.c) and the Avahi browser that finds its server    *)
(* (mdns_avahi.c).  A conversation that starts to play names the remote    *)
(* control of its client by a DACP identifier; the browser finds the port  *)
(* on which that remote listens; the monitor thread asks the remote for    *)
(* its volume at intervals and so learns whether it is there, and what it  *)
(* can do.                                                                 *)
(***************************************************************************)
EXTENDS Integers, FiniteSets

CONSTANTS Remotes,     \* DACP identifiers of the clients' remote controls
          Advanced,    \* those that answer the volume request with 200, not 400
          NoId,        \* a conversation without a DACP identifier
          scan_max_bad_response_count,
          MaxStarts,   \* bound: conversations that start to play
          MaxRestarts, \* bound: remotes that go or come back
          MaxLosses    \* bound: answers lost although the remote is there

ASSUME DacpAssumption ==
    /\ Advanced \subseteq Remotes
    /\ NoId \notin Remotes
    /\ scan_max_bad_response_count \in Nat \ {0}

VARIABLES
    server,     \* dacp_server: the record the conversations set
    dacp_monitor,    \* where the monitor thread is
    result,     \* its last HTTP code, abstracted
    bad_result_count,
    remote_active,     \* metadata_store.dacp_server_active
    remote_advanced,   \* metadata_store.advanced_dacp_server_active
    browsing,   \* private_dbs.dacp_id
    reported,   \* remote -> the port the present browser last reported
    up,         \* remote -> the port it advertises now
    deaf,       \* remotes that have stopped answering, though still advertised
    starts, restarts, losses

dacpvars == <<server, dacp_monitor, result, bad_result_count, remote_active,
              remote_advanced, browsing, reported, up, deaf, starts, restarts, losses>>

\* A port belongs to the remote that listens on it; its number changes when the
\* remote restarts.
NoPort == [of |-> NoId, number |-> 0]
PortOf(r, n) == [of |-> r, number |-> n]

\* dacp_server_information_lock: held by the monitor while it asks.
InfoUnlocked == dacp_monitor # "ask"

\* ------------------------------------------------ the conversations' side

\* The record after a conversation with identifier d: another remote has no
\* port yet; the same one keeps the port, and scanning starts again.  A
\* conversation without an identifier always clears the record.
SetServer(d) ==
    server' = IF d = NoId \/ d # server.id THEN [id |-> d, port |-> NoPort, scan |-> FALSE]
              ELSE [server EXCEPT !.scan = (@ \/ server.port # NoPort)]

\* set_dacp_server_information: for another remote the hub is told that there
\* is none for now.
set_dacp_server_information(d) ==
    /\ InfoUnlocked
    /\ starts < MaxStarts
    /\ starts' = starts + 1
    /\ SetServer(d)
    /\ remote_active' = IF d = NoId \/ d # server.id THEN FALSE ELSE remote_active
    /\ UNCHANGED <<dacp_monitor, result, bad_result_count, remote_advanced, browsing,
                   reported, up, deaf, restarts, losses>>

\* --------------------------------------------------- the browser's side

\* The record after a report; one about another remote is out of date.
dacp_monitor_port_update_callback(r, p) ==
    server' = IF server.id = NoId \/ r # server.id THEN server
              ELSE [server EXCEPT !.port = p, !.scan = (p # NoPort)]

\* browse_callback and resolve_callback: a service has gone, or has come and
\* been resolved; only the one looked for is passed on.
BrowserReports(r) ==
    /\ browsing # NoId
    /\ reported[r] # up[r]
    /\ reported' = [reported EXCEPT ![r] = up[r]]
    /\ IF r = browsing
       THEN InfoUnlocked /\ dacp_monitor_port_update_callback(r, up[r])
       ELSE UNCHANGED server
    /\ UNCHANGED <<dacp_monitor, result, bad_result_count, remote_active,
                   remote_advanced, browsing, up, deaf, starts, restarts, losses>>

\* avahi_dacp_monitor_set_id: a new browser, which will report afresh every
\* remote there is; no change when the identifier is the same.
avahi_dacp_monitor_set_id(d) ==
    IF d = browsing THEN UNCHANGED <<browsing, reported>>
    ELSE /\ browsing' = d
         /\ reported' = [r \in Remotes |-> NoPort]

\* ------------------------------------------------------- the monitor thread

\* The top of the loop: without scanning the hub is told that no remote is
\* active, and the thread waits.
MonitorTop ==
    /\ dacp_monitor = "top"
    /\ IF server.scan THEN /\ dacp_monitor' = "ask"
                           /\ UNCHANGED <<remote_active, remote_advanced>>
       ELSE /\ dacp_monitor' = "wait"
            /\ remote_active' = FALSE /\ remote_advanced' = FALSE
    /\ UNCHANGED <<server, result, bad_result_count, browsing, reported, up, deaf,
                   starts, restarts, losses>>

\* The wait ends when scanning has been enabled, or with the timeout.
MonitorWakes ==
    /\ dacp_monitor = "wait"
    /\ bad_result_count' = IF server.scan THEN 0 ELSE bad_result_count
    /\ dacp_monitor' = "ask"
    /\ UNCHANGED <<server, result, remote_active, remote_advanced, browsing, reported,
                   up, deaf, starts, restarts, losses>>

\* The remote is there; and it answers at the port that is known.
Reachable == server.id # NoId /\ up[server.id] # NoPort /\ server.id \notin deaf
Answering == Reachable /\ server.port = up[server.id]

\* A connection is made only to the port on which the remote listens now.
Connects == up[server.id] = server.port

\* The remote's answer, which can be lost or come too late.
Replies ==
    IF server.id \in deaf THEN {"bad"}
    ELSE {IF server.id \in Advanced THEN "200" ELSE "400"}
         \cup (IF losses < MaxLosses THEN {"bad"} ELSE {})

dacp_send_command ==
    IF server.port = NoPort THEN {"noport"}
    ELSE IF ~Connects THEN {"bad"}
    ELSE Replies

\* dacp_get_volume, with the lock held throughout.
dacp_get_volume ==
    /\ dacp_monitor = "ask"
    /\ result' \in dacp_send_command
    /\ losses' = IF result' = "bad" /\ Answering THEN losses + 1 ELSE losses
    /\ dacp_monitor' = "note"
    /\ UNCHANGED <<server, bad_result_count, remote_active, remote_advanced, browsing,
                   reported, up, deaf, starts, restarts>>

\* No port: let the browser look for the remote.  The record is read without
\* the lock here.
MonitorBrowses ==
    /\ dacp_monitor = "note" /\ result = "noport"
    /\ IF server.id = NoId THEN UNCHANGED <<browsing, reported>>
       ELSE avahi_dacp_monitor_set_id(server.id)
    /\ dacp_monitor' = "top"
    /\ UNCHANGED <<server, result, bad_result_count, remote_active, remote_advanced, up,
                   deaf, starts, restarts, losses>>

\* Mutant: the count stops one short of the limit.
BadAfter_short == IF result \in {"200", "400"} THEN 0
                  ELSE IF bad_result_count + 1 < scan_max_bad_response_count
                       THEN bad_result_count + 1 ELSE bad_result_count

BadAfter == IF result \in {"200", "400"} THEN 0
            ELSE IF bad_result_count < scan_max_bad_response_count
                 THEN bad_result_count + 1 ELSE bad_result_count

\* Debouncing: one good answer means the remote is there, a run of bad ones
\* that it has gone, and anything between changes nothing.
Debounced ==
    CASE BadAfter = 0 -> remote_active' = TRUE /\ remote_advanced' = (result = "200")
      [] BadAfter = scan_max_bad_response_count -> remote_active' = FALSE /\ remote_advanced' = FALSE
      [] OTHER -> UNCHANGED <<remote_active, remote_advanced>>

\* A result is noted, the hub is told, and the thread sleeps.  (The status
\* update that follows a 200 is in MetadataHub.)
MonitorNotes ==
    /\ dacp_monitor = "note" /\ result # "noport"
    /\ bad_result_count' = BadAfter
    /\ Debounced
    /\ dacp_monitor' = "top"
    /\ UNCHANGED <<server, result, browsing, reported, up, deaf, starts, restarts,
                   losses>>

\* ------------------------------------------------------------ environment

\* A remote goes, or comes back on another port.
RemoteChanges(r) ==
    /\ restarts < MaxRestarts
    /\ restarts' = restarts + 1
    /\ up' = [up EXCEPT ![r] = IF @ = NoPort THEN PortOf(r, restarts + 2) ELSE NoPort]
    /\ UNCHANGED <<server, dacp_monitor, result, bad_result_count, remote_active,
                   remote_advanced, browsing, reported, deaf, starts, losses>>

\* A remote hangs, or its network is gone: it is still advertised.
RemoteHangs(r) ==
    /\ restarts < MaxRestarts
    /\ restarts' = restarts + 1
    /\ deaf' = deaf \cup {r}
    /\ UNCHANGED <<server, dacp_monitor, result, bad_result_count, remote_active,
                   remote_advanced, browsing, reported, up, starts, losses>>

\* ---------------------------------------------------------- specification

\* dacp_monitor_start clears the record and starts the thread.
DacpInit ==
    /\ server = [id |-> NoId, port |-> NoPort, scan |-> FALSE]
    /\ dacp_monitor = "top" /\ result = "none" /\ bad_result_count = 0
    /\ remote_active = FALSE /\ remote_advanced = FALSE
    /\ browsing = NoId /\ reported = [r \in Remotes |-> NoPort]
    /\ up \in [Remotes -> {NoPort} \cup {PortOf(r, 1) : r \in Remotes}]
    /\ \A r \in Remotes : up[r] # NoPort => up[r].of = r
    /\ deaf = {}
    /\ starts = 0 /\ restarts = 0 /\ losses = 0

DacpMonitor ==
    MonitorTop \/ MonitorWakes \/ dacp_get_volume \/ MonitorBrowses \/ MonitorNotes

DacpNext ==
    \/ \E d \in Remotes \cup {NoId} : set_dacp_server_information(d)
    \/ \E r \in Remotes : BrowserReports(r) \/ RemoteChanges(r) \/ RemoteHangs(r)
    \/ DacpMonitor

\* The monitor thread and Avahi's thread keep running.
DacpFairness ==
    /\ WF_dacpvars(DacpMonitor)
    /\ \A r \in Remotes : SF_dacpvars(BrowserReports(r))

DacpSpec == DacpInit /\ [][DacpNext]_dacpvars /\ DacpFairness

\* -------------------------------------------------------------- properties

\* The port that commands are sent to was reported for the remote they are
\* meant for, however late a report of another remote comes.
PortIsOfTheRemote == server.port # NoPort => server.port.of = server.id

\* A remote that has gone for good is in the end not called active any more.
GoneIsNoticed == <>[]~Answering => <>[]~remote_active

\* "true if there's a reachable DACP server (assumed to be the Airplay client)":
\* a remote that stays there is in the end found and called active.
ReachableIsFound == <>[]Reachable => <>[]remote_active

\* The remote that commands go to is the one the player serves, at a port of its
\* own, and one that has gone is given up (set_dacp_server_information, dacp_monitor_thread_code).
RemoteIsCurrent == []PortIsOfTheRemote /\ GoneIsNoticed
=============================================================================
