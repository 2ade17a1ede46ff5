------------------------------ MODULE Sessions ------------------------------
(***************************************************************************)
(* The RTSP connections of the classic AirPlay build, the play lock they   *)
(* compete for and the player thread each may run (src/src/rtsp.c and the  *)
(* start and stop of a player in src/src/player.c).                        *)
(*                                                                         *)
(* Each connection has a record, a conversation thread, a watchdog thread  *)
(* and at most one player thread.  The listen loop creates connections and *)
(* joins and frees the finished ones.  D-Bus may ask to drop the session.  *)
(* playing_conn is read and written under playing_conn_lock only; each of  *)
(* those critical sections is within one action.  NULL is Nobody.          *)
(***************************************************************************)
EXTENDS Naturals

CONSTANTS
  Conns, Nobody,
  AllowInterruption,  \* config.allow_session_interruption
  DbusInterface,      \* is the D-Bus interface compiled in?
  Orderly,            \* no client repeats ANNOUNCE or SETUP once it plays
  MaxPolls            \* polls of get_play_lock before it gives up (30)

ASSUME SessionsAssumption ==
  /\ Nobody \notin Conns
  /\ AllowInterruption \in BOOLEAN /\ DbusInterface \in BOOLEAN
  /\ Orderly \in BOOLEAN /\ MaxPolls \in Nat \ {0}

Callers == Conns \cup {Nobody}     \* Nobody calls get_play_lock for D-Bus

VARIABLES
  pc,             \* where each conversation thread is, and the D-Bus handler
  playing_conn,
  stop,           \* connections with conn->stop set
  cancelled,      \* connections whose thread has a cancellation pending
  running,        \* connections with conn->running set
  conns,          \* the tracked connections
  freed,          \* connections whose record has been freed
  accepting,      \* created by the listen loop and not tracked yet
  polls,          \* polls left in get_play_lock
  player,         \* the player thread of each connection
  player_cancelled,
  output_started, \* config.output->start without a corresponding stop
  active,         \* what activity_monitor_signify_activity was last told
  crashed         \* a null connection was dereferenced

lock    == <<playing_conn, polls>>
threads == <<stop, cancelled>>
records == <<running, conns, freed, accepting>>
players == <<player, player_cancelled, output_started, active>>
vars    == <<pc, lock, threads, records, players, crashed>>

\* Where a conversation thread lets a cancellation take effect: between requests
\* ("read"), polling for the lock, waiting for a hook or its player, or sending
\* metadata.
CancellationPoints == {"read", "poll", "parse", "prepare", "join", "release"}

\* Where a thread may hold playing_conn_lock for a moment.
LockTakers == {"announce", "poll", "parse", "setup", "record", "flush", "teardown",
               "release", "cleanup", "last_release", "drop"}

Goto(k, label) == pc' = [pc EXCEPT ![k] = label]

\* Mutant: any connection is taken to have the play lock once one has it.
have_play_lock_any(c) == playing_conn # Nobody

have_play_lock(c) == playing_conn = c

\* Mutant: the lock is taken from whoever has it.
release_any_play_lock(c) == playing_conn' = Nobody

\* Mutant: the lock is never given back.
release_no_play_lock(c) == playing_conn' = playing_conn

\* release_play_lock: nothing happens to somebody else's lock.
release_play_lock(c) ==
  playing_conn' = IF playing_conn = c THEN Nobody ELSE playing_conn
-----------------------------------------------------------------------------
(* The listen loop. *)

Accept(c) ==
  /\ accepting = Nobody /\ pc[c] = "none"
  /\ Goto(c, "read") /\ accepting' = c
  /\ UNCHANGED <<lock, threads, running, conns, freed, players, crashed>>

\* pthread_create has returned; only now is running set.
track_thread(c) ==
  /\ accepting = c /\ accepting' = Nobody
  /\ running' = running \cup {c} /\ conns' = conns \cup {c}
  /\ UNCHANGED <<pc, lock, threads, freed, players, crashed>>

cleanup_threads(c) ==
  /\ accepting = Nobody /\ c \in conns \ running /\ pc[c] = "done"
  /\ conns' = conns \ {c} /\ freed' = freed \cup {c}
  /\ UNCHANGED <<pc, lock, threads, running, accepting, players, crashed>>
-----------------------------------------------------------------------------
(* get_play_lock, called for an ANNOUNCE or, with no connection, by D-Bus. *)

\* Where a caller goes with the lock, and where without it.
Success(k) == IF k = Nobody THEN "idle" ELSE "parse"

\* Mutant: an ANNOUNCE goes on after get_play_lock has timed out.
FailureIgnored(k) == IF k = Nobody THEN "idle" ELSE "parse"

Failure(k) == IF k = Nobody THEN "idle" ELSE "read"

get_play_lock(k, interrupt) ==
  /\ pc[k] \in {"announce", "drop"}
  /\ \/ /\ playing_conn \in {Nobody, k}
        /\ playing_conn' = k /\ Goto(k, Success(k))
        /\ UNCHANGED <<polls, threads, crashed>>
     \/ /\ playing_conn \notin {Nobody, k} /\ playing_conn \in stop
        /\ Goto(k, "poll") /\ polls' = [polls EXCEPT ![k] = MaxPolls]
        /\ crashed' = (crashed \/ k = Nobody)   \* conn->connection_number
        /\ UNCHANGED <<playing_conn, threads>>
     \/ /\ playing_conn \notin {Nobody, k} /\ playing_conn \notin stop /\ interrupt
        /\ stop' = stop \cup {playing_conn}
        /\ cancelled' = cancelled \cup {playing_conn}
        /\ Goto(k, "poll") /\ polls' = [polls EXCEPT ![k] = MaxPolls]
        /\ UNCHANGED <<playing_conn, crashed>>
     \/ /\ playing_conn \notin {Nobody, k} /\ playing_conn \notin stop /\ ~interrupt
        /\ Goto(k, Success(k))        \* response is still 0
        /\ UNCHANGED <<lock, threads, crashed>>
  /\ UNCHANGED <<records, players>>

PollsOver(k) == polls[k] = 1

\* The last debug message of a failure names conn, which is null for D-Bus.
Poll(k) ==
  /\ pc[k] = "poll"
  /\ IF playing_conn = Nobody
       THEN playing_conn' = k /\ Goto(k, Success(k)) /\ UNCHANGED <<polls, crashed>>
       ELSE /\ polls' = [polls EXCEPT ![k] = @ - 1]
            /\ Goto(k, IF PollsOver(k) THEN Failure(k) ELSE "poll")
            /\ crashed' = (crashed \/ (k = Nobody /\ PollsOver(k)))
            /\ UNCHANGED playing_conn
  /\ UNCHANGED <<threads, records, players>>

on_handle_drop_session ==
  /\ DbusInterface /\ pc[Nobody] = "idle" /\ Goto(Nobody, "drop")
  /\ UNCHANGED <<lock, threads, records, players, crashed>>
-----------------------------------------------------------------------------
(* The conversation thread. *)

Requests == {"announce", "setup", "record", "flush", "teardown"}

Receive(c, request) ==
  /\ pc[c] = "read" /\ c \notin stop
  /\ (Orderly /\ request \in {"announce", "setup"}) => player[c] = "none"
  /\ Goto(c, request)
  /\ UNCHANGED <<lock, threads, records, players, crashed>>

\* The rest of handle_announce; a bad description gives the player back.
ParseAnnounce(c, good) ==
  /\ pc[c] = "parse" /\ Goto(c, "read")
  /\ IF good THEN UNCHANGED playing_conn ELSE release_play_lock(c)
  /\ UNCHANGED <<polls, threads, records, players, crashed>>

handle_setup(c, good) ==
  /\ pc[c] = "setup" /\ Goto(c, "read")
  /\ IF good THEN UNCHANGED playing_conn ELSE release_play_lock(c)
  /\ UNCHANGED <<polls, threads, records, players, crashed>>

handle_record(c) ==
  /\ pc[c] = "record"
  /\ IF have_play_lock(c) /\ player[c] = "none"
       THEN active' = TRUE /\ Goto(c, "prepare")
       ELSE UNCHANGED active /\ Goto(c, "read")
  /\ UNCHANGED <<lock, threads, records, player, player_cancelled, output_started,
                 crashed>>

\* player_prepare_to_play ran the start hook; player_play makes the thread.
player_play(c) ==
  /\ pc[c] = "prepare" /\ Goto(c, "read")
  /\ player' = [player EXCEPT ![c] = "starting"]
  /\ UNCHANGED <<lock, threads, records, player_cancelled, output_started, active,
                 crashed>>

\* player_flush touches the connection's packet buffer only (PlayerBuffer).
handle_flush(c) ==
  /\ pc[c] = "flush" /\ Goto(c, "read")
  /\ UNCHANGED <<lock, threads, records, players, crashed>>

\* Mutant: a player that is still starting is not cancelled.
StopStartedPlayer(c, next) ==
  /\ player_cancelled' = IF player[c] = "playing" THEN player_cancelled \cup {c}
                                                  ELSE player_cancelled
  /\ Goto(c, next)

\* player_stop: cancel the thread if there is one, then wait for it.
StopPlayer(c, next) ==
  /\ player_cancelled' = IF player[c] = "none" THEN player_cancelled
                                               ELSE player_cancelled \cup {c}
  /\ Goto(c, next)

handle_teardown(c) ==
  /\ pc[c] = "teardown"
  /\ IF have_play_lock(c) THEN StopPlayer(c, "join")
                          ELSE Goto(c, "read") /\ UNCHANGED player_cancelled
  /\ UNCHANGED <<lock, threads, records, player, output_started, active, crashed>>

\* The player is joined; teardown reports inactivity; then the lock may go.
JoinPlayer(c) ==
  /\ pc[c] \in {"join", "last_join"} /\ player[c] \in {"none", "ended"}
  /\ player' = [player EXCEPT ![c] = "none"]
  /\ player_cancelled' = player_cancelled \ {c}
  /\ active' = FALSE
  /\ Goto(c, IF pc[c] = "join" THEN "release" ELSE "last_release")
  /\ UNCHANGED <<lock, threads, records, output_started, crashed>>

Release(c) ==
  /\ pc[c] \in {"release", "last_release"}
  /\ release_play_lock(c)
  /\ Goto(c, IF pc[c] = "release" THEN "read" ELSE "closing")
  /\ UNCHANGED <<polls, threads, records, players, crashed>>

\* The channel closes, fails or times out; or the stop flag is seen.
LeaveLoop(c) ==
  /\ pc[c] = "read" /\ Goto(c, "cleanup")
  /\ stop' = stop \cup {c}
  /\ UNCHANGED <<lock, cancelled, records, players, crashed>>

Cancel(c) ==
  /\ c \in cancelled /\ pc[c] \in CancellationPoints /\ Goto(c, "cleanup")
  /\ UNCHANGED <<lock, threads, records, players, crashed>>

\* rtsp_conversation_thread_cleanup_function, with cancellation disabled.
Cleanup(c) ==
  /\ pc[c] = "cleanup"
  /\ IF have_play_lock(c) THEN StopPlayer(c, "last_join")
                          ELSE Goto(c, "closing") /\ UNCHANGED player_cancelled
  /\ UNCHANGED <<lock, threads, records, player, output_started, active, crashed>>

\* Sockets, mutexes and the watchdog are gone; clearing running comes last.
Finish(c) ==
  /\ pc[c] = "closing" /\ Goto(c, "done") /\ running' = running \ {c}
  /\ UNCHANGED <<lock, threads, conns, freed, accepting, players, crashed>>

\* The first bark of the watchdog: the client has been silent for too long.
Bark(c) ==
  /\ pc[c] \notin {"none", "done"} /\ c \notin cancelled
  /\ stop' = stop \cup {c} /\ cancelled' = cancelled \cup {c}
  /\ UNCHANGED <<pc, lock, records, players, crashed>>
-----------------------------------------------------------------------------
(* The player thread; it cannot be cancelled while it starts. *)

StartOutput(c) ==
  /\ player[c] = "starting" /\ player' = [player EXCEPT ![c] = "playing"]
  /\ output_started' = TRUE
  /\ UNCHANGED <<pc, lock, threads, records, player_cancelled, active, crashed>>

\* player_thread_cleanup_handler only tries the lock: when another thread has
\* it at that moment, the output is not stopped.
player_thread_cleanup(c) ==
  /\ player[c] = "playing" /\ c \in player_cancelled
  /\ player' = [player EXCEPT ![c] = "ended"]
  /\ \/ output_started' = (output_started /\ playing_conn # c)
     \/ /\ \E k \in Callers \ {c} : pc[k] \in LockTakers
        /\ UNCHANGED output_started
  /\ UNCHANGED <<pc, lock, threads, records, player_cancelled, active, crashed>>
-----------------------------------------------------------------------------
Init ==
  /\ pc = [k \in Callers |-> IF k = Nobody THEN "idle" ELSE "none"]
  /\ playing_conn = Nobody /\ polls = [k \in Callers |-> 0]
  /\ stop = {} /\ cancelled = {}
  /\ running = {} /\ conns = {} /\ freed = {} /\ accepting = Nobody
  /\ player = [c \in Conns |-> "none"] /\ player_cancelled = {}
  /\ output_started = FALSE /\ active = FALSE /\ crashed = FALSE

ListenLoop(c) == Accept(c) \/ track_thread(c) \/ cleanup_threads(c)

Handler(c) ==
  \/ get_play_lock(c, AllowInterruption) \/ Poll(c)
  \/ \E good \in BOOLEAN : ParseAnnounce(c, good) \/ handle_setup(c, good)
  \/ handle_record(c) \/ player_play(c) \/ handle_flush(c) \/ handle_teardown(c)
  \/ JoinPlayer(c) \/ Release(c) \/ Cancel(c) \/ Cleanup(c) \/ Finish(c)

Client(c) == LeaveLoop(c) \/ \E request \in Requests : Receive(c, request)

Player(c) == StartOutput(c) \/ player_thread_cleanup(c)

Dbus == on_handle_drop_session \/ get_play_lock(Nobody, TRUE) \/ Poll(Nobody)

Next ==
  \/ \E c \in Conns :
       ListenLoop(c) \/ Handler(c) \/ Client(c) \/ Bark(c) \/ Player(c)
  \/ Dbus

Spec == Init /\ [][Next]_vars

\* Every thread that can move does, in the end; clients owe nothing, but a
\* silent one is cancelled by its watchdog and a stopped thread leaves its loop.
Fairness ==
  /\ \A c \in Conns :
       /\ WF_vars(Handler(c)) /\ WF_vars(Player(c))
       /\ WF_vars(track_thread(c)) /\ WF_vars(cleanup_threads(c))
       /\ WF_vars(c \in stop /\ LeaveLoop(c))
  /\ WF_vars(Dbus)

FairSpec == Spec /\ Fairness
-----------------------------------------------------------------------------
Labels == {"none", "read", "announce", "setup", "record", "flush", "teardown",
           "poll", "parse", "prepare", "join", "release", "cleanup", "last_join",
           "last_release", "closing", "done"}

TypeOK ==
  /\ pc \in [Callers -> Labels \cup {"idle", "drop"}]
  /\ \A c \in Conns : pc[c] \in Labels
  /\ playing_conn \in Callers /\ accepting \in Callers
  /\ polls \in [Callers -> 0 .. MaxPolls]
  /\ \A k \in Callers : pc[k] = "poll" => polls[k] > 0
  /\ stop \subseteq Conns /\ cancelled \subseteq Conns
  /\ running \subseteq Conns /\ conns \subseteq Conns /\ freed \subseteq Conns
  /\ player \in [Conns -> {"none", "starting", "playing", "ended"}]
  /\ player_cancelled \subseteq Conns
  /\ output_started \in BOOLEAN /\ active \in BOOLEAN /\ crashed \in BOOLEAN

\* Only the connection that has the play lock has a player thread, so that no
\* two players ever feed the one output device.
PlayerHasPlayLock == \A c \in Conns : player[c] # "none" => playing_conn = c

\* playing_conn is read by other threads (its stop flag, its thread id): it is
\* never a connection that is over, whose record may be freed.
PlayingConnIsAlive ==
  playing_conn # Nobody => /\ playing_conn \notin freed
                           /\ pc[playing_conn] \notin {"none", "closing", "done"}

\* Why those two hold, where no client repeats an ANNOUNCE or a SETUP once it
\* plays: what each thread still knows of its player and of the lock, wherever
\* it is in rtsp.c.  This is inductive (Sessions_proofs).
LockDiscipline ==
  /\ PlayerHasPlayLock
  /\ \A c \in Conns :
       /\ pc[c] \in {"prepare", "join", "last_join", "release", "last_release"} =>
            playing_conn = c
       /\ pc[c] \in {"announce", "poll", "parse", "setup", "prepare", "release",
                    "last_release"} => player[c] = "none"
       /\ pc[c] \in {"none", "closing", "done"} => playing_conn # c
       /\ c \in freed => pc[c] = "done"

\* While a player plays, the activity monitor has been told so: the end of the
\* previous session never overtakes the start of the next.
ActiveWhilePlaying == (\E c \in Conns : player[c] \in {"starting", "playing"}) => active

\* The end of a session, which runs on in the player's cleanup after the next one may have
\* begun, takes neither the activity nor the output from it.
NextSessionUndisturbed ==
  [][/\ ActiveWhilePlaying'
     /\ (output_started /\ ~output_started') => \A c \in Conns : player'[c] # "playing"]_vars

\* A session told to stop lets the player go, whatever it was doing.
StoppedSessionReleases ==
  \A c \in Conns : (c \in stop /\ playing_conn = c) ~> (playing_conn # c)

\* An ANNOUNCE is accepted only for the connection that then has the player;
\* any other source gets a busy signal.
AcceptedMeansPlayer ==
  [][\A c \in Conns : (pc[c] \in {"announce", "poll"} /\ pc'[c] = "parse")
                        => playing_conn' = c]_vars

\* Dropping the session never dereferences a null connection.
NeverCrashed == ~crashed

PlayLockSpec == INSTANCE PlayLock WITH
                  owner <- playing_conn, users <- {c \in Conns : player[c] # "none"}
ImplementsPlayLock == PlayLockSpec!Spec
=============================================================================
