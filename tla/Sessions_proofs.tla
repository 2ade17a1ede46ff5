-------------------------- MODULE Sessions_proofs --------------------------
(***************************************************************************)
(* Proofs about Sessions, for any number of connections: its types, the    *)
(* lock discipline of its threads, and that it implements PlayLock.        *)
(***************************************************************************)
EXTENDS Sessions, TLAPS

\* The initial state and every step respect the types of the variables.
LEMMA TypeCorrectInit == Init => TypeOK
<1> SUFFICES ASSUME Init PROVE TypeOK
  OBVIOUS
<1>1. \A k \in Callers : pc[k] # "poll"
  BY DEF Init, Callers
<1>2. polls \in [Callers -> 0 .. MaxPolls]
  BY SessionsAssumption DEF SessionsAssumption, Init
<1>3. pc \in [Callers -> Labels \cup {"idle", "drop"}]
  BY DEF Init, Labels
<1>4. \A c \in Conns : pc[c] \in Labels
  BY SessionsAssumption DEF SessionsAssumption, Init, Labels, Callers
<1>5. QED
  BY <1>1, <1>2, <1>3, <1>4 DEF Init, TypeOK, Callers

\* No step takes a variable out of its type.
LEMMA TypeCorrectStep == TypeOK /\ [Next]_vars => TypeOK'
<1> SUFFICES ASSUME TypeOK, [Next]_vars PROVE TypeOK'
  OBVIOUS
<1> USE SessionsAssumption
    DEF SessionsAssumption, TypeOK, Callers, Labels, Goto, lock, threads, records, players
<1>1. CASE UNCHANGED vars
  BY <1>1 DEF vars
<1>2. ASSUME NEW c \in Conns, ListenLoop(c) PROVE TypeOK'
  BY <1>2 DEF ListenLoop, Accept, track_thread, cleanup_threads
<1>3. ASSUME NEW k \in Callers, NEW i \in BOOLEAN, get_play_lock(k, i) PROVE TypeOK'
  <2>1. playing_conn' \in Callers /\ stop' \subseteq Conns /\ cancelled' \subseteq Conns
    BY <1>3 DEF get_play_lock
  <2>2. pc' \in [Callers -> Labels \cup {"idle", "drop"}]
    BY <1>3 DEF get_play_lock, Success, Failure
  <2>3. polls' \in [Callers -> 0 .. MaxPolls]
    BY <1>3 DEF get_play_lock
  <2>4. ASSUME NEW j \in Callers, pc'[j] = "poll" PROVE polls'[j] > 0
    BY <1>3, <2>4 DEF get_play_lock, Success, Failure
  <2>5. crashed' \in BOOLEAN
    BY <1>3 DEF get_play_lock
  <2>6. ASSUME NEW c \in Conns PROVE pc'[c] \in Labels
    BY <1>3 DEF get_play_lock, Success, Failure
  <2>7. QED
    BY <1>3, <2>1, <2>2, <2>3, <2>4, <2>5, <2>6 DEF get_play_lock
<1>4. ASSUME NEW k \in Callers, Poll(k) PROVE TypeOK'
  <2>1. crashed' \in BOOLEAN
    BY <1>4, Zenon DEF Poll
  <2>2. pc' \in [Callers -> Labels \cup {"idle", "drop"}] /\ playing_conn' \in Callers
    BY <1>4 DEF Poll, Success, Failure
  <2>3. polls' \in [Callers -> 0 .. MaxPolls]
    BY <1>4 DEF Poll
  <2>4. \A j \in Callers : pc'[j] = "poll" => polls'[j] > 0
    BY <1>4 DEF Poll, PollsOver, Success, Failure
  <2>5. \A c \in Conns : pc'[c] \in Labels
    BY <1>4 DEF Poll, Success, Failure
  <2>6. QED
    BY <1>4, <2>1, <2>2, <2>3, <2>4, <2>5 DEF Poll
<1>5. ASSUME NEW c \in Conns, NEW good \in BOOLEAN,
             ParseAnnounce(c, good) \/ handle_setup(c, good)
      PROVE TypeOK'
  BY <1>5 DEF ParseAnnounce, handle_setup, release_play_lock
<1>6. ASSUME NEW c \in Conns,
             handle_record(c) \/ player_play(c) \/ handle_flush(c) \/ handle_teardown(c)
      PROVE TypeOK'
  <2>1. CASE handle_record(c)
    <3>1. \E l \in {"prepare", "read"} : pc' = [pc EXCEPT ![c] = l]
      BY <2>1, Zenon DEF handle_record
    <3>2. /\ active' \in BOOLEAN
          /\ UNCHANGED <<lock, threads, records, player, player_cancelled, output_started,
                         crashed>>
      BY <2>1, Zenon DEF handle_record
    <3> QED  BY <3>1, <3>2
  <2>2. CASE player_play(c)  BY <2>2 DEF player_play
  <2>3. CASE handle_flush(c)  BY <2>3 DEF handle_flush
  <2>4. CASE handle_teardown(c)  BY <2>4 DEF handle_teardown, StopPlayer
  <2> QED  BY <1>6, <2>1, <2>2, <2>3, <2>4, Zenon
<1>7. ASSUME NEW c \in Conns,
             JoinPlayer(c) \/ Release(c) \/ Cancel(c) \/ Cleanup(c) \/ Finish(c)
      PROVE TypeOK'
  <2>1. CASE JoinPlayer(c)
    BY <2>1 DEF JoinPlayer
  <2>2. CASE Release(c)
    BY <2>2 DEF Release, release_play_lock
  <2>3. CASE Cancel(c) \/ Cleanup(c) \/ Finish(c)
    BY <2>3 DEF Cancel, Cleanup, Finish, StopPlayer
  <2>4. QED
    BY <1>7, <2>1, <2>2, <2>3
<1>8. ASSUME NEW c \in Conns, Client(c) \/ Bark(c) PROVE TypeOK'
  BY <1>8 DEF Client, LeaveLoop, Receive, Requests, Bark
<1>9. ASSUME NEW c \in Conns, StartOutput(c) PROVE TypeOK'
  BY <1>9 DEF StartOutput
<1>10. ASSUME NEW c \in Conns, player_thread_cleanup(c) PROVE TypeOK'
  <2>1. output_started' \in BOOLEAN
    BY <1>10, Zenon DEF player_thread_cleanup
  <2>2. player' \in [Conns -> {"none", "starting", "playing", "ended"}]
    BY <1>10 DEF player_thread_cleanup
  <2>3. QED
    BY <1>10, <2>1, <2>2 DEF player_thread_cleanup
<1>11. ASSUME on_handle_drop_session PROVE TypeOK'
  BY <1>11 DEF on_handle_drop_session
<1>12. QED
  BY <1>1, <1>2, <1>3, <1>4, <1>5, <1>6, <1>7, <1>8, <1>9, <1>10, <1>11
     DEF Next, Handler, Player, Dbus

\* Every variable keeps its type, whatever the clients and the threads do.
THEOREM TypeCorrect == Spec => []TypeOK
BY TypeCorrectInit, TypeCorrectStep, PTL DEF Spec
-----------------------------------------------------------------------------
\* What makes the discipline inductive: the types, and clients that do not
\* repeat an ANNOUNCE or a SETUP once they play.
LockInv == TypeOK /\ LockDiscipline

\* At the start there is no connection, no player and no owner.
LEMMA LockInvInit == Init => LockInv
<1> SUFFICES ASSUME Init PROVE LockDiscipline
  BY TypeCorrectInit DEF LockInv
<1>1. \A c \in Conns : pc[c] = "none" /\ player[c] = "none"
  BY SessionsAssumption DEF SessionsAssumption, Init, Callers
<1>2. playing_conn = Nobody /\ freed = {}
  BY DEF Init
<1>3. QED
  BY <1>1, <1>2, SessionsAssumption
     DEF SessionsAssumption, LockDiscipline, PlayerHasPlayLock

\* No step of any thread breaks the discipline.
LEMMA LockInvStep ==
  ASSUME Orderly, LockInv, [Next]_vars
  PROVE  LockInv'
<1>1. TypeOK /\ TypeOK'
  BY TypeCorrectStep DEF LockInv
<1>2. LockDiscipline'
  <2> USE <1>1, SessionsAssumption
      DEF SessionsAssumption, LockInv, LockDiscipline, PlayerHasPlayLock, TypeOK,
          Callers, Goto, lock, threads, records, players
  <2>1. CASE UNCHANGED vars
    BY <2>1 DEF vars
  <2>2. ASSUME NEW c \in Conns, ListenLoop(c) PROVE LockDiscipline'
    BY <2>2 DEF ListenLoop, Accept, track_thread, cleanup_threads
  <2>3. ASSUME NEW c \in Conns, NEW i \in BOOLEAN, get_play_lock(c, i)
        PROVE  LockDiscipline'
    <3>1. pc' = [pc EXCEPT ![c] = pc'[c]] /\ pc'[c] \in {"parse", "poll"}
      BY <2>3 DEF get_play_lock, Success
    <3>2. player' = player /\ freed' = freed /\ player[c] = "none"
      BY <2>3 DEF get_play_lock, Labels
    <3>3. playing_conn' = playing_conn \/ (playing_conn = Nobody /\ playing_conn' = c)
      BY <2>3 DEF get_play_lock
    <3>4. c \notin freed
      BY <2>3 DEF get_play_lock
    <3>5. QED
      BY <3>1, <3>2, <3>3, <3>4
  <2>4. ASSUME NEW i \in BOOLEAN, get_play_lock(Nobody, i) PROVE LockDiscipline'
    BY <2>4 DEF get_play_lock, Success
  <2>5. ASSUME NEW k \in Callers, Poll(k) PROVE LockDiscipline'
    BY <2>5 DEF Poll, Success, Failure
  <2>6. ASSUME NEW c \in Conns, NEW good \in BOOLEAN, ParseAnnounce(c, good)
        PROVE  LockDiscipline'
    BY <2>6 DEF ParseAnnounce, release_play_lock
  <2>7. ASSUME NEW c \in Conns, NEW good \in BOOLEAN, handle_setup(c, good)
        PROVE  LockDiscipline'
    BY <2>7 DEF handle_setup, release_play_lock
  <2>8. ASSUME NEW c \in Conns, handle_record(c) \/ player_play(c) \/ handle_flush(c)
        PROVE  LockDiscipline'
    BY <2>8 DEF handle_record, player_play, handle_flush, have_play_lock
  <2>9. ASSUME NEW c \in Conns, handle_teardown(c) \/ Cleanup(c)
        PROVE  LockDiscipline'
    BY <2>9 DEF handle_teardown, Cleanup, StopPlayer, have_play_lock
  <2>10. ASSUME NEW c \in Conns, JoinPlayer(c) PROVE LockDiscipline'
    BY <2>10 DEF JoinPlayer
  <2>11. ASSUME NEW c \in Conns, Release(c) PROVE LockDiscipline'
    BY <2>11 DEF Release, release_play_lock
  <2>12. ASSUME NEW c \in Conns, Cancel(c) \/ Finish(c) PROVE LockDiscipline'
    BY <2>12 DEF Cancel, Finish, CancellationPoints
  <2>13. ASSUME NEW c \in Conns, LeaveLoop(c) \/ Bark(c) PROVE LockDiscipline'
    BY <2>13 DEF LeaveLoop, Bark
  <2>14. ASSUME NEW c \in Conns, NEW request \in Requests, Receive(c, request)
         PROVE  LockDiscipline'
    BY <2>14 DEF Receive, Requests
  <2>15. ASSUME NEW c \in Conns, Player(c) PROVE LockDiscipline'
    BY <2>15 DEF Player, StartOutput, player_thread_cleanup
  <2>16. ASSUME on_handle_drop_session PROVE LockDiscipline'
    BY <2>16 DEF on_handle_drop_session
  <2> HIDE DEF LockDiscipline, LockInv, PlayerHasPlayLock, TypeOK
  <2>17. QED
    BY <2>1, <2>2, <2>3, <2>4, <2>5, <2>6, <2>7, <2>8, <2>9, <2>10, <2>11, <2>12,
       <2>13, <2>14, <2>15, <2>16
       DEF Next, Handler, Client, Dbus
<1>3. QED
  BY <1>1, <1>2 DEF LockInv

\* The lock discipline of rtsp.c holds throughout.
THEOREM Discipline == Orderly => (Spec => []LockDiscipline)
<1> SUFFICES ASSUME Orderly PROVE Spec => []LockDiscipline
  OBVIOUS
<1>1. Init => LockInv
  BY LockInvInit
<1>2. LockInv /\ [Next]_vars => LockInv'
  BY LockInvStep
<1>3. LockInv => LockDiscipline
  BY DEF LockInv
<1>4. QED
  BY <1>1, <1>2, <1>3, PTL DEF Spec

\* Two players never feed the one output device: only the connection with the
\* play lock has a player thread.
THEOREM OnePlayer == Orderly => (Spec => []PlayerHasPlayLock)
<1>1. LockDiscipline => PlayerHasPlayLock
  BY DEF LockDiscipline
<1>2. QED
  BY <1>1, Discipline, PTL

\* The record that playing_conn points to has not been freed, and its thread
\* has not ended: get_play_lock may read its stop flag and cancel it.
THEOREM PlayingConnAlive == Orderly => (Spec => []PlayingConnIsAlive)
<1>1. TypeOK /\ LockDiscipline => PlayingConnIsAlive
  BY DEF TypeOK, Callers, LockDiscipline, PlayingConnIsAlive
<1>2. QED
  BY <1>1, Discipline, TypeCorrect, PTL
-----------------------------------------------------------------------------
\* Every step of Sessions is a step of the play lock or changes nothing of it.
LEMMA LockRefinementStep ==
  ASSUME LockInv, LockInv', [Next]_vars
  PROVE  [PlayLockSpec!Next]_(PlayLockSpec!vars)
<1> DEFINE Users == {c \in Conns : player[c] # "none"}
<1> USE SessionsAssumption
    DEF SessionsAssumption, LockInv, LockDiscipline, PlayerHasPlayLock, TypeOK, Callers,
        Goto, lock, threads, records, players
<1>1. CASE playing_conn' = playing_conn /\ Users' = Users
  BY <1>1 DEF PlayLockSpec!vars
<1>2. ASSUME NEW c \in Conns, playing_conn = Nobody, playing_conn' = c, Users' = Users
      PROVE  PlayLockSpec!Next
  BY <1>2 DEF PlayLockSpec!Next, PlayLockSpec!Acquire
<1>3. ASSUME NEW c \in Conns, playing_conn = c, playing_conn' = Nobody,
             c \notin Users, Users' = Users
      PROVE  PlayLockSpec!Next
  BY <1>3 DEF PlayLockSpec!Next, PlayLockSpec!Release
<1>4. ASSUME UNCHANGED player PROVE Users' = Users
  BY <1>4
<1>5. CASE UNCHANGED vars
  BY <1>1, <1>4, <1>5 DEF vars
<1>6. ASSUME NEW c \in Conns, ListenLoop(c) \/ Client(c) \/ Bark(c)
      PROVE  playing_conn' = playing_conn /\ Users' = Users
  BY <1>6 DEF ListenLoop, Accept, track_thread, cleanup_threads, Client, LeaveLoop,
              Receive, Bark
<1>7. ASSUME NEW k \in Callers, NEW i \in BOOLEAN, get_play_lock(k, i) \/ Poll(k)
      PROVE  /\ playing_conn' = playing_conn \/ (playing_conn = Nobody /\ playing_conn' = k)
             /\ Users' = Users
  BY <1>7 DEF get_play_lock, Poll
<1>8. ASSUME NEW c \in Conns, NEW good \in BOOLEAN,
             ParseAnnounce(c, good) \/ handle_setup(c, good) \/ Release(c)
      PROVE  /\ playing_conn' = playing_conn
                \/ (playing_conn = c /\ playing_conn' = Nobody /\ c \notin Users)
             /\ Users' = Users
  BY <1>8 DEF ParseAnnounce, handle_setup, Release, release_play_lock
<1>9. ASSUME NEW c \in Conns,
             \/ handle_record(c) \/ handle_flush(c) \/ handle_teardown(c)
             \/ Cancel(c) \/ Cleanup(c) \/ Finish(c)
      PROVE  playing_conn' = playing_conn /\ Users' = Users
  BY <1>9 DEF handle_record, handle_flush, handle_teardown, Cancel, Cleanup, Finish,
              StopPlayer
<1>10. ASSUME NEW c \in Conns, player_play(c) PROVE PlayLockSpec!Next
  <2>1. c \notin Users /\ Users' = Users \cup {c}
    BY <1>10 DEF player_play
  <2>2. QED
    BY <1>10, <2>1 DEF player_play, PlayLockSpec!Next, PlayLockSpec!StartPlayer
<1>11. ASSUME NEW c \in Conns, JoinPlayer(c)
       PROVE  [PlayLockSpec!Next]_(PlayLockSpec!vars)
  <2>1. playing_conn = c /\ playing_conn' = c /\ Users' = Users \ {c}
    BY <1>11 DEF JoinPlayer
  <2>2. CASE c \in Users
    BY <2>1, <2>2 DEF PlayLockSpec!Next, PlayLockSpec!StopPlayer
  <2>3. CASE c \notin Users
    BY <2>1, <2>3, <1>1
  <2>4. QED
    BY <2>2, <2>3
<1>12. ASSUME NEW c \in Conns, Player(c)
       PROVE  playing_conn' = playing_conn /\ Users' = Users
  BY <1>12 DEF Player, StartOutput, player_thread_cleanup
<1>13. CASE on_handle_drop_session
  BY <1>1, <1>4, <1>13 DEF on_handle_drop_session
<1>14. ASSUME NEW c \in Conns, Handler(c) PROVE [PlayLockSpec!Next]_(PlayLockSpec!vars)
  BY <1>1, <1>2, <1>3, <1>7, <1>8, <1>9, <1>10, <1>11, <1>14 DEF Handler
<1>15. CASE Dbus
  BY <1>1, <1>7, <1>13, <1>15 DEF Dbus
<1>16. QED
  BY <1>1, <1>5, <1>6, <1>12, <1>14, <1>15 DEF Next

\* The threads of rtsp.c and player.c together implement the play lock.
THEOREM Refinement == Orderly => (Spec => ImplementsPlayLock)
<1> SUFFICES ASSUME Orderly PROVE Spec => ImplementsPlayLock
  OBVIOUS
<1>1. Init => PlayLockSpec!Init
  BY SessionsAssumption DEF SessionsAssumption, Init, PlayLockSpec!Init
<1>2. LockInv /\ LockInv' /\ [Next]_vars => [PlayLockSpec!Next]_(PlayLockSpec!vars)
  BY LockRefinementStep
<1>3. Init => LockInv
  BY LockInvInit
<1>4. LockInv /\ [Next]_vars => LockInv'
  BY LockInvStep
<1>5. QED
  BY <1>1, <1>2, <1>3, <1>4, PTL
     DEF Spec, ImplementsPlayLock, PlayLockSpec!Spec
-----------------------------------------------------------------------------
\* What NextSessionUndisturbed needs of the states: the monitor has been told before the
\* start hook of a session runs, and is not told otherwise while its player is there.
ActiveInv ==
  (\E c \in Conns : pc[c] = "prepare" \/ player[c] \in {"starting", "playing"}) => active

LEMMA ActiveInvInit == Init => ActiveInv
<1>1. Init => \A c \in Conns : pc[c] = "none" /\ player[c] = "none"
  BY SessionsAssumption DEF SessionsAssumption, Init, Callers
<1> QED BY <1>1 DEF ActiveInv

\* Only the session that has the player reports inactivity, and then it has no player
\* thread any more (player_stop and the play lock).
LEMMA ActiveInvStep ==
  ASSUME LockInv, ActiveInv, [Next]_vars
  PROVE  ActiveInv'
<1> USE SessionsAssumption
    DEF SessionsAssumption, LockInv, LockDiscipline, PlayerHasPlayLock, TypeOK, Callers,
        Goto, lock, threads, records, players, ActiveInv
<1>1. CASE UNCHANGED vars
  BY <1>1 DEF vars
<1>2. ASSUME NEW c \in Conns, ListenLoop(c) \/ Client(c) \/ Bark(c) PROVE ActiveInv'
  BY <1>2 DEF ListenLoop, Accept, track_thread, cleanup_threads, Client, LeaveLoop,
              Receive, Requests, Bark
<1>3. ASSUME NEW k \in Callers, NEW i \in BOOLEAN, get_play_lock(k, i) \/ Poll(k)
      PROVE  ActiveInv'
  <2>1. pc' = [pc EXCEPT ![k] = pc'[k]] /\ pc'[k] # "prepare" /\ UNCHANGED <<player, active>>
    BY <1>3 DEF get_play_lock, Poll, Success, Failure
  <2> QED BY <2>1
<1>4. ASSUME NEW c \in Conns, NEW good \in BOOLEAN,
             \/ ParseAnnounce(c, good) \/ handle_setup(c, good) \/ Release(c)
             \/ Cancel(c) \/ Finish(c) \/ handle_flush(c)
      PROVE  ActiveInv'
  BY <1>4 DEF ParseAnnounce, handle_setup, Release, Cancel, Finish, handle_flush
<1>5. ASSUME NEW c \in Conns,
             handle_record(c) \/ player_play(c) \/ handle_teardown(c) \/ Cleanup(c)
      PROVE  ActiveInv'
  BY <1>5 DEF handle_record, player_play, handle_teardown, Cleanup, StopPlayer
<1>6. ASSUME NEW c \in Conns, JoinPlayer(c) PROVE ActiveInv'
  <2>1. \A d \in Conns \ {c} : player[d] = "none" /\ pc[d] # "prepare"
    BY <1>6 DEF JoinPlayer
  <2> QED BY <1>6, <2>1 DEF JoinPlayer
<1>7. ASSUME NEW c \in Conns, Player(c) PROVE ActiveInv'
  BY <1>7 DEF Player, StartOutput, player_thread_cleanup
<1>8. CASE on_handle_drop_session
  BY <1>8 DEF on_handle_drop_session
<1> HIDE DEF ActiveInv, LockInv, LockDiscipline, PlayerHasPlayLock, TypeOK
<1> QED
  BY <1>1, <1>2, <1>3, <1>4, <1>5, <1>6, <1>7, <1>8 DEF Next, Handler, Dbus

\* The end of a session, which runs on in the player's cleanup after the next one may
\* have begun, takes neither the activity nor the output from it.
THEOREM NextIsUndisturbed == Orderly => (Spec => NextSessionUndisturbed)
<1> SUFFICES ASSUME Orderly PROVE Spec => NextSessionUndisturbed
  OBVIOUS
<1>1. ASSUME LockInv, [Next]_vars, output_started, ~output_started'
      PROVE  \A c \in Conns : player'[c] # "playing"
  <2>1. PICK c \in Conns : player_thread_cleanup(c) /\ playing_conn = c
    BY <1>1 DEF Next, ListenLoop, Accept, track_thread, cleanup_threads, Handler,
       get_play_lock, Poll, ParseAnnounce, handle_setup, handle_record, player_play,
       handle_flush, handle_teardown, JoinPlayer, Release, Cancel, Cleanup, Finish, Client,
       LeaveLoop, Receive, Bark, Player, StartOutput, player_thread_cleanup, Dbus,
       on_handle_drop_session, vars, players
  <2> QED
    BY <1>1, <2>1 DEF LockInv, LockDiscipline, PlayerHasPlayLock, TypeOK, player_thread_cleanup
<1>2. LockInv /\ ActiveInv /\ [Next]_vars => LockInv' /\ ActiveInv'
  BY LockInvStep, ActiveInvStep
<1>3. ActiveInv' => ActiveWhilePlaying'
  BY DEF ActiveInv, ActiveWhilePlaying
<1>4. LockInv /\ ActiveInv /\ [Next]_vars =>
        [/\ ActiveWhilePlaying'
         /\ (output_started /\ ~output_started') =>
              \A c \in Conns : player'[c] # "playing"]_vars
  BY <1>1, <1>2, <1>3
<1> QED
  BY LockInvInit, ActiveInvInit, <1>2, <1>4, PTL DEF Spec, NextSessionUndisturbed

\* Where a session may be interrupted, an ANNOUNCE that is accepted has the player then
\* and there, taken at once or after a wait (get_play_lock; handle_announce).
THEOREM AcceptedHasPlayer == AllowInterruption => (Spec => AcceptedMeansPlayer)
<1> SUFFICES ASSUME AllowInterruption PROVE Spec => AcceptedMeansPlayer
  OBVIOUS
<1>1. ASSUME TypeOK, [Next]_vars, NEW c \in Conns, pc[c] \in {"announce", "poll"},
             pc'[c] = "parse"
      PROVE  playing_conn' = c
  <2> USE SessionsAssumption
      DEF SessionsAssumption, TypeOK, Callers, Goto
  <2>0. ASSUME NEW k \in Callers, NEW i \in BOOLEAN, k # c,
               \/ get_play_lock(k, i) \/ Poll(k) \/ (k = Nobody /\ on_handle_drop_session)
        PROVE  pc'[c] = pc[c]
    <3>1. \E label : Goto(k, label)
      BY <2>0, Zenon DEF get_play_lock, Poll, on_handle_drop_session
    <3> QED BY <2>0, <3>1
  <2>1. ASSUME NEW d \in Conns, d # c,
               ListenLoop(d) \/ Handler(d) \/ Client(d) \/ Bark(d) \/ Player(d)
        PROVE  pc'[c] = pc[c]
    <3>1. ASSUME \E label : Goto(d, label) PROVE pc'[c] = pc[c]
      BY <2>1, <3>1
    <3>2. CASE ListenLoop(d) \/ Client(d) \/ Bark(d) \/ Player(d)
      <4>1. UNCHANGED pc \/ \E label : Goto(d, label)
        BY <3>2, Zenon DEF ListenLoop, Accept, track_thread, cleanup_threads, Client,
           LeaveLoop, Receive, Bark, Player, StartOutput, player_thread_cleanup
      <4> QED BY <3>1, <4>1
    <3>3. CASE get_play_lock(d, AllowInterruption) \/ Poll(d)
      BY <2>0, <2>1, <3>3
    <3>4. ASSUME NEW good \in BOOLEAN, ParseAnnounce(d, good) \/ handle_setup(d, good)
          PROVE  pc'[c] = pc[c]
      BY <3>1, <3>4, Zenon DEF ParseAnnounce, handle_setup
    <3>5. CASE \/ handle_record(d) \/ player_play(d) \/ handle_flush(d)
               \/ handle_teardown(d) \/ JoinPlayer(d) \/ Release(d) \/ Cancel(d)
               \/ Cleanup(d) \/ Finish(d)
      <4>1. \E label : Goto(d, label)
        BY <3>5, Zenon DEF handle_record, player_play, handle_flush, handle_teardown,
           StopPlayer, JoinPlayer, Release, Cancel, Cleanup, Finish
      <4> QED BY <3>1, <4>1
    <3> QED BY <2>1, <3>2, <3>3, <3>4, <3>5 DEF Handler
  <2>2. Dbus => pc'[c] = pc[c]
    BY <2>0 DEF Dbus
  <2>3. CASE get_play_lock(c, AllowInterruption) \/ Poll(c)
    BY <1>1, <2>3 DEF get_play_lock, Poll, Success, Failure
  <2>4. ListenLoop(c) \/ Client(c) \/ Bark(c) \/ Player(c) => pc'[c] # "parse"
    BY <1>1 DEF ListenLoop, Accept, track_thread, cleanup_threads, Client, LeaveLoop,
       Receive, Requests, Bark, Player, StartOutput, player_thread_cleanup
  <2>5. Handler(c) => get_play_lock(c, AllowInterruption) \/ Poll(c)
    BY <1>1 DEF Handler, ParseAnnounce, handle_setup, handle_record, player_play,
       handle_flush, handle_teardown, StopPlayer, JoinPlayer, Release, Cancel,
       CancellationPoints, Cleanup, Finish
  <2> QED BY <1>1, <2>1, <2>2, <2>3, <2>4, <2>5 DEF Next, vars
<1>2. TypeOK /\ [Next]_vars =>
        [\A c \in Conns : (pc[c] \in {"announce", "poll"} /\ pc'[c] = "parse")
                            => playing_conn' = c]_vars
  BY <1>1
<1> QED
  BY TypeCorrectInit, TypeCorrectStep, <1>2, PTL DEF Spec, AcceptedMeansPlayer
=============================================================================
