------------------------------ MODULE Ap2Sessions ------------------------------
(****************************************************************************)
(* The sessions of a build with AirPlay 2 (rtsp.c: handle_setup_2,          *)
(* handle_teardown_2, cancel_all_RTSP_threads, the cleanup of a             *)
(* conversation thread).  A SETUP takes the player from whoever has it, by  *)
(* the play lock and then by cancelling and joining the other conversation  *)
(* threads while it holds conns_lock.  Such a build also serves classic     *)
(* clients, which start with an ANNOUNCE.                                   *)
(****************************************************************************)
EXTENDS Integers, FiniteSets

CONSTANTS Connections,  \* the connections that are made, once each
          Categories,   \* what the SETUPs of AirPlay 2 clients ask for
          Classic,      \* whether there are classic clients
          Overlap,      \* whether a SETUP may come while another is handled
          Recategorise, \* whether a connection may be set up again as something else
          LockTimesOut  \* whether the wait for the play lock may time out

ASSUME Ap2Assumption ==
  /\ Categories \subseteq {"ptp_stream", "remote_control_stream"}
  /\ {Classic, Overlap, Recategorise, LockTimesOut} \subseteq BOOLEAN

NoConnection == "nobody"
ASSUME NobodyAssumption == NoConnection \notin Connections

VARIABLES
  at_step,          \* where the conversation thread of a connection is
  category,         \* conn->airplay_stream_category
  airplay_type,     \* conn->airplay_type
  told_to_stop,     \* conn->stop
  thread_cancelled, \* pthread_cancel has been called for the thread
  has_player,       \* conn->player_thread
  event_sockets,    \* event sockets open, with their threads
  ready,            \* the client has had the answer to its SETUP
  playing_conn2, conns_lock,
  joining,          \* the connections cancel_all_RTSP_threads still has to join
  supports_relay    \* bit 11 of config.airplay_statusflags

cvars == <<at_step, category, airplay_type, told_to_stop, thread_cancelled, has_player,
           event_sockets, ready, playing_conn2, conns_lock, joining, supports_relay>>

Alive(c) == at_step[c] \notin {"new", "ended"}
InSetup(c) == at_step[c] \in {"locking", "locked", "cancelling", "joining"}

SessionsInit2 ==
  /\ at_step = [c \in Connections |-> "new"]
  /\ category = [c \in Connections |-> "unspecified_stream_category"]
  /\ airplay_type = [c \in Connections |-> "ap_2"]
  /\ told_to_stop = [c \in Connections |-> FALSE]
  /\ thread_cancelled = [c \in Connections |-> FALSE]
  /\ has_player = [c \in Connections |-> FALSE]
  /\ event_sockets = [c \in Connections |-> 0]
  /\ ready = [c \in Connections |-> FALSE]
  /\ playing_conn2 = NoConnection /\ conns_lock = NoConnection
  /\ joining = [c \in Connections |-> {}]
  /\ supports_relay = FALSE

(* The listen loop accepts a connection: cleanup_threads and track_thread   *)
(* both need conns_lock.                                                    *)
Accept2(c) ==
  /\ at_step[c] = "new" /\ conns_lock = NoConnection
  /\ at_step' = [at_step EXCEPT ![c] = "reading"]
  /\ UNCHANGED <<category, airplay_type, told_to_stop, thread_cancelled, has_player,
                 event_sockets, ready, playing_conn2, conns_lock, joining, supports_relay>>

-----------------------------------------------------------------------------
(* get_play_lock, with interruption allowed: take the player, or tell who   *)
(* has it to stop, cancel its thread and wait.                              *)
get_play_lock2(c) ==
  LET h == playing_conn2
  IN \/ /\ h \in {NoConnection, c}
        /\ playing_conn2' = c /\ at_step' = [at_step EXCEPT ![c] = "locked"]
        /\ UNCHANGED <<told_to_stop, thread_cancelled>>
     \/ /\ h \notin {NoConnection, c}
        /\ at_step' = [at_step EXCEPT ![c] = "locking"]
        /\ told_to_stop' = [told_to_stop EXCEPT ![h] = TRUE]
        /\ thread_cancelled' =
             [thread_cancelled EXCEPT ![h] = @ \/ (~told_to_stop[h] /\ Alive(h))]
        /\ UNCHANGED playing_conn2

Reading(c) == at_step[c] = "reading" /\ ~told_to_stop[c]
MayBegin == Overlap \/ \A d \in Connections : ~InSetup(d)

(* handle_setup_2 without "streams": a PTP stream asks for the play lock; a *)
(* remote control stream goes straight to its event port.                   *)
SetupConnection(c) ==
  /\ Reading(c) /\ ~ready[c] /\ airplay_type[c] = "ap_2" /\ MayBegin
  /\ \E cat \in Categories :
       /\ Recategorise \/ category[c] \in {"unspecified_stream_category", cat}
       /\ category' = [category EXCEPT ![c] = cat]
       /\ \/ cat = "ptp_stream" /\ get_play_lock2(c)
          \/ /\ cat = "remote_control_stream"
             /\ at_step' = [at_step EXCEPT ![c] = "locked"]
             /\ UNCHANGED <<told_to_stop, thread_cancelled, playing_conn2>>
  /\ UNCHANGED <<airplay_type, has_player, event_sockets, ready, conns_lock, joining,
                 supports_relay>>

(* handle_announce: a classic client, in the same build.                    *)
Announce2(c) ==
  /\ Classic /\ Reading(c) /\ ~ready[c] /\ category[c] = "unspecified_stream_category"
  /\ MayBegin
  /\ get_play_lock2(c)
  /\ airplay_type' = [airplay_type EXCEPT ![c] = "ap_1"]
  /\ UNCHANGED <<category, has_player, event_sockets, ready, conns_lock, joining,
                 supports_relay>>

(* The waiting thread looks again, every 100 ms for three seconds.          *)
PollLock(c) ==
  /\ at_step[c] = "locking" /\ playing_conn2 = NoConnection
  /\ playing_conn2' = c /\ at_step' = [at_step EXCEPT ![c] = "locked"]
  /\ UNCHANGED <<category, airplay_type, told_to_stop, thread_cancelled, has_player,
                 event_sockets, ready, conns_lock, joining, supports_relay>>

(* ... and gives up: handle_announce then refuses, handle_setup_2 does not  *)
(* look at the result.                                                      *)
LockTimeout(c) ==
  /\ LockTimesOut /\ at_step[c] = "locking"
  /\ at_step' = [at_step EXCEPT ![c] = IF airplay_type[c] = "ap_1" THEN "reading" ELSE "locked"]
  /\ airplay_type' = [airplay_type EXCEPT ![c] = "ap_2"]
  /\ UNCHANGED <<category, told_to_stop, thread_cancelled, has_player,
                 event_sockets, ready, playing_conn2, conns_lock, joining, supports_relay>>

(* handle_announce and handle_record of a classic client: it plays.         *)
ClassicPlays(c) ==
  /\ at_step[c] = "locked" /\ airplay_type[c] = "ap_1"
  /\ at_step' = [at_step EXCEPT ![c] = "reading"]
  /\ ready' = [ready EXCEPT ![c] = TRUE]
  /\ has_player' = [has_player EXCEPT ![c] = TRUE]
  /\ UNCHANGED <<category, airplay_type, told_to_stop, thread_cancelled, event_sockets,
                 playing_conn2, conns_lock, joining, supports_relay>>

(* The event port is opened and its thread made before the other threads    *)
(* are cancelled.                                                           *)
OpenEventPort(c) ==
  /\ at_step[c] = "locked" /\ airplay_type[c] = "ap_2"
  /\ event_sockets' = [event_sockets EXCEPT ![c] = @ + 1]
  /\ at_step' = [at_step EXCEPT ![c] = "cancelling"]
  /\ UNCHANGED <<category, airplay_type, told_to_stop, thread_cancelled, has_player, ready,
                 playing_conn2, conns_lock, joining, supports_relay>>

(* Which threads go: all of them for a PTP stream, the remote control ones  *)
(* for a remote control stream.                                             *)
(* Mutant: those already told to stop are left alone.                       *)
Eligible_told(c) ==
  {d \in Connections \ {c} :
     Alive(d) /\ ~told_to_stop[d] /\ (category[c] = "ptp_stream" \/ category[d] = category[c])}
Eligible(c) ==
  {d \in Connections \ {c} :
     Alive(d) /\ (category[c] = "ptp_stream" \/ category[d] = category[c])}

(* cancel_all_RTSP_threads: conns_lock is taken, all are cancelled ...      *)
cancel_all_RTSP_threads(c) ==
  /\ at_step[c] = "cancelling" /\ conns_lock = NoConnection
  /\ conns_lock' = c
  /\ at_step' = [at_step EXCEPT ![c] = "joining"]
  /\ joining' = [joining EXCEPT ![c] = Eligible(c)]
  /\ thread_cancelled' = [d \in Connections |-> thread_cancelled[d] \/ d \in Eligible(c)]
  /\ UNCHANGED <<category, airplay_type, told_to_stop, has_player, event_sockets, ready,
                 playing_conn2, supports_relay>>

(* ... and then joined, which ends the handling of the SETUP.               *)
JoinAll(c) ==
  /\ at_step[c] = "joining" /\ \A d \in joining[c] : at_step[d] = "ended"
  /\ conns_lock' = NoConnection
  /\ joining' = [joining EXCEPT ![c] = {}]
  /\ at_step' = [at_step EXCEPT ![c] = "reading"]
  /\ ready' = [ready EXCEPT ![c] = TRUE]
  /\ supports_relay' = (supports_relay \/ category[c] = "ptp_stream")
  /\ UNCHANGED <<category, airplay_type, told_to_stop, thread_cancelled, has_player,
                 event_sockets, playing_conn2>>

(* handle_setup_2 with "streams": the player is started.                    *)
SetupStream(c) ==
  /\ Reading(c) /\ ready[c] /\ category[c] = "ptp_stream" /\ ~has_player[c]
  /\ has_player' = [has_player EXCEPT ![c] = TRUE]
  /\ UNCHANGED <<at_step, category, airplay_type, told_to_stop, thread_cancelled,
                 event_sockets, ready, playing_conn2, conns_lock, joining, supports_relay>>

-----------------------------------------------------------------------------
(* handle_teardown_2 with "streams", and handle_teardown of a classic one.  *)
TeardownStream(c) ==
  /\ Reading(c) /\ ready[c] /\ airplay_type[c] = "ap_2"
  /\ has_player[c] /\ has_player' = [has_player EXCEPT ![c] = FALSE]
  /\ UNCHANGED <<at_step, category, airplay_type, told_to_stop, thread_cancelled,
                 event_sockets, ready, playing_conn2, conns_lock, joining, supports_relay>>

release_play_lock2(c) ==
  playing_conn2' = IF playing_conn2 = c THEN NoConnection ELSE playing_conn2

ClassicTeardown(c) ==
  /\ Reading(c) /\ airplay_type[c] = "ap_1" /\ playing_conn2 = c
  /\ has_player' = [has_player EXCEPT ![c] = FALSE]
  /\ release_play_lock2(c)
  /\ UNCHANGED <<at_step, category, airplay_type, told_to_stop, thread_cancelled,
                 event_sockets, ready, conns_lock, joining, supports_relay>>

(* teardown_phase_two: the event thread and socket go; a PTP stream also    *)
(* gives up the relay flag and the player.                                  *)
(* Mutant: a remote control stream keeps its event thread and socket.       *)
teardown_phase_two_ptp(c) ==
  /\ event_sockets' = [event_sockets EXCEPT
       ![c] = IF category[c] = "ptp_stream" THEN 0 ELSE @]
  /\ supports_relay' = (supports_relay /\ category[c] # "ptp_stream")
  /\ \/ category[c] = "ptp_stream" /\ release_play_lock2(c)
     \/ category[c] # "ptp_stream" /\ UNCHANGED playing_conn2
teardown_phase_two(c) ==
  /\ event_sockets' = [event_sockets EXCEPT ![c] = IF @ > 0 THEN @ - 1 ELSE 0]
  /\ supports_relay' = (supports_relay /\ category[c] # "ptp_stream")
  /\ \/ category[c] = "ptp_stream" /\ release_play_lock2(c)
     \/ category[c] # "ptp_stream" /\ UNCHANGED playing_conn2

(* handle_teardown_2 without "streams": both phases; the client may set up  *)
(* again on the same connection.                                            *)
TeardownConnection(c) ==
  /\ Reading(c) /\ ready[c] /\ airplay_type[c] = "ap_2"
  /\ has_player' = [has_player EXCEPT ![c] = FALSE]
  /\ teardown_phase_two(c)
  /\ ready' = [ready EXCEPT ![c] = FALSE]
  /\ UNCHANGED <<at_step, category, airplay_type, told_to_stop, thread_cancelled, conns_lock,
                 joining>>

(* The conversation ends: the client has gone, or a cancellation is acted   *)
(* on - in a read, in the sleep of get_play_lock or in the join of          *)
(* cancel_all_RTSP_threads, but not while waiting for a mutex.  conns_lock  *)
(* has no cleanup handler.  rtsp_conversation_thread_cleanup_function does  *)
(* both phases.                                                             *)
Ends(c) == \/ at_step[c] = "reading"
           \/ at_step[c] \in {"locking", "joining"} /\ thread_cancelled[c]
Cleanup2(c) ==
  /\ Ends(c)
  /\ told_to_stop' = [told_to_stop EXCEPT ![c] = TRUE]
  /\ has_player' = [has_player EXCEPT ![c] = FALSE]
  /\ teardown_phase_two(c)
  /\ joining' = [joining EXCEPT ![c] = {}]
  /\ at_step' = [at_step EXCEPT ![c] = "ended"]
  /\ UNCHANGED <<category, airplay_type, thread_cancelled, ready, conns_lock>>

ThreadStep(c) == \/ PollLock(c) \/ LockTimeout(c) \/ ClassicPlays(c) \/ OpenEventPort(c)
                 \/ cancel_all_RTSP_threads(c) \/ JoinAll(c)
                 \/ thread_cancelled[c] /\ Cleanup2(c)

SessionsNext2 ==
  \E c \in Connections :
    \/ Accept2(c) \/ SetupConnection(c) \/ Announce2(c) \/ SetupStream(c)
    \/ TeardownStream(c) \/ ClassicTeardown(c) \/ TeardownConnection(c)
    \/ Cleanup2(c) \/ ThreadStep(c)

Ap2Spec == SessionsInit2 /\ [][SessionsNext2]_cvars

-----------------------------------------------------------------------------
(* The type invariant: who holds conns_lock is in cancel_all_RTSP_threads   *)
(* or was cancelled there, and nobody else has anyone to join.              *)
Ap2TypeOK ==
  /\ {playing_conn2, conns_lock} \subseteq Connections \cup {NoConnection}
  /\ \A c \in Connections :
       /\ joining[c] # {} => conns_lock = c
       /\ at_step[c] = "joining" => conns_lock = c
       /\ conns_lock = c => at_step[c] = "joining" \/ thread_cancelled[c]

(* The play lock can be lost, and a SETUP goes on without it: it is the     *)
(* cancelling and joining of the others that keeps the output to one        *)
(* AirPlay 2 player thread.  (A classic client cancels nobody: after such a *)
(* SETUP it takes the lock, and plays beside the other.)                    *)
OnePlayer2 ==
  Cardinality({c \in Connections : has_player[c] /\ airplay_type[c] = "ap_2"}) <= 1

(* A connection that is over has nothing left open, whatever it was and     *)
(* however it ended.                                                        *)
NothingLeftOpen ==
  \A c \in Connections : at_step[c] = "ended" => event_sockets[c] = 0 /\ ~has_player[c]

(* A PTP session that has been set up is advertised as a relay, even though *)
(* the sessions it replaced have withdrawn the flag.  (With Recategorise it *)
(* may lose the flag, to a cancelled remote control connection that is set  *)
(* up again for a PTP stream and waits for the play lock meanwhile.)        *)
RelayIsAdvertised ==
  \A c \in Connections :
    (ready[c] /\ category[c] = "ptp_stream" /\ at_step[c] = "reading"
      /\ ~thread_cancelled[c]) => supports_relay

(* The connection of an AirPlay 2 source that has disappeared does not keep *)
(* the player: the server becomes available again.                          *)
PlayerIsAvailableAgain ==
  (playing_conn2 # NoConnection /\ airplay_type[playing_conn2] = "ap_2")
    => at_step[playing_conn2] # "ended"

\* A session that ends leaves nothing of its own behind and nothing of another's missing:
\* sockets, the relay flag, the player (teardown_phase_one, teardown_phase_two and the cleanup).
NothingLeftBehind ==
  Ap2TypeOK /\ NothingLeftOpen /\ RelayIsAdvertised /\ PlayerIsAvailableAgain
=============================================================================
