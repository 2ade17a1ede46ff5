------------------------- MODULE Ap2Sessions_proofs -------------------------
(***************************************************************************)
(* Proofs about the sessions of a build with AirPlay 2, for any number of  *)
(* connections, and about the pairing that comes before one, for any PINs, *)
(* exponents and controllers.                                              *)
(***************************************************************************)
EXTENDS Ap2Sessions, Pairing, FiniteSetTheorems, SequenceTheorems, TLAPS

Steps == {"new", "reading", "locking", "locked", "cancelling", "joining", "ended"}

\* Where the fields of one connection can be, and how far a SETUP has come.
ConnectionInv(c) ==
  /\ at_step[c] = "new" =>
       /\ ~ready[c] /\ ~thread_cancelled[c]
       /\ category[c] = "unspecified_stream_category"
  /\ InSetup(c) => ~ready[c]
  /\ airplay_type[c] = "ap_1" => category[c] = "unspecified_stream_category"
  /\ at_step[c] \in {"locking", "locked"} /\ airplay_type[c] = "ap_2" =>
       category[c] \in {"ptp_stream", "remote_control_stream"}
  /\ at_step[c] = "locking" => category[c] # "remote_control_stream"
  /\ at_step[c] \in {"cancelling", "joining"} =>
       category[c] \in {"ptp_stream", "remote_control_stream"}
  /\ has_player[c] =>
       /\ ready[c] /\ at_step[c] = "reading"
       /\ airplay_type[c] = "ap_2" => category[c] = "ptp_stream"
  /\ event_sockets[c] = 1 => /\ ready[c] \/ at_step[c] \in {"cancelling", "joining"}
                             /\ at_step[c] # "ended"
  /\ playing_conn2 = c =>
       /\ airplay_type[c] = "ap_2" => category[c] = "ptp_stream"
       /\ \/ at_step[c] \in {"locked", "cancelling", "joining"}
          \/ at_step[c] = "reading" /\ ready[c]
          \/ at_step[c] = "ended" /\ airplay_type[c] = "ap_1"

\* A PTP session that has been set up and not been left.
SetUp(c) == Alive(c) /\ ready[c] /\ category[c] = "ptp_stream"

\* A SETUP of a PTP stream joins every thread that was there, and nobody is accepted
\* until it has: so there is only one such session at a time.
ExclusionInv ==
  /\ \A c \in Connections : at_step[c] = "joining" /\ category[c] = "ptp_stream" =>
       \A d \in Connections \ {c} :
         ~Alive(d) \/ (thread_cancelled[d] /\ d \in joining[c])
  /\ \A c, d \in Connections : SetUp(c) /\ SetUp(d) => c = d

\* The types.
FieldTypes ==
  /\ at_step \in [Connections -> Steps]
  /\ category \in [Connections -> {"unspecified_stream_category", "ptp_stream",
                                   "remote_control_stream"}]
  /\ airplay_type \in [Connections -> {"ap_1", "ap_2"}]
  /\ told_to_stop \in [Connections -> BOOLEAN]
  /\ thread_cancelled \in [Connections -> BOOLEAN]
  /\ has_player \in [Connections -> BOOLEAN] /\ ready \in [Connections -> BOOLEAN]
  /\ event_sockets \in [Connections -> {0, 1}]
  /\ joining \in [Connections -> SUBSET Connections]

\* What makes OnePlayer2 inductive.
PlayerInv ==
  FieldTypes /\ Ap2TypeOK /\ (\A c \in Connections : ConnectionInv(c)) /\ ExclusionInv

\* What makes RelayIsAdvertised inductive: beside a session that has been set up and
\* not cancelled, any other PTP connection is on its way to cancel it, and is not
\* cancelled itself before it has; a connection that is nothing yet and cancelled will
\* be nothing else.
RelayInv ==
  /\ RelayIsAdvertised
  /\ \A c \in Connections : SetUp(c) /\ at_step[c] = "reading" /\ ~thread_cancelled[c] =>
       \A d \in Connections \ {c} : Alive(d) =>
         /\ category[d] = "ptp_stream" =>
              \/ at_step[d] \in {"locked", "cancelling"}
              \/ at_step[d] = "locking" /\ ~thread_cancelled[d]
         /\ category[d] = "unspecified_stream_category" =>
              (thread_cancelled[d] => told_to_stop[d])

-----------------------------------------------------------------------------
\* No session has begun when the server starts.
LEMMA PlayerInvInit == SessionsInit2 => PlayerInv
BY NobodyAssumption
DEF SessionsInit2, PlayerInv, FieldTypes, Steps, Ap2TypeOK, ConnectionInv, ExclusionInv, InSetup,
    SetUp, Alive

\* Asking for the play lock leaves the fields of the connections what they were in kind.
LEMMA LockTypes ==
  ASSUME FieldTypes, NEW c \in Connections, get_play_lock2(c)
  PROVE  /\ at_step' \in [Connections -> Steps]
         /\ told_to_stop' \in [Connections -> BOOLEAN]
         /\ thread_cancelled' \in [Connections -> BOOLEAN]
<1>1. \E s \in {"locking", "locked"} : at_step' = [at_step EXCEPT ![c] = s]
  BY Zenon DEF get_play_lock2
<1>2. at_step' \in [Connections -> Steps]
  BY <1>1 DEF FieldTypes, Steps
<1>3. /\ told_to_stop' \in [Connections -> BOOLEAN]
      /\ thread_cancelled' \in [Connections -> BOOLEAN]
  BY Zenon DEF FieldTypes, get_play_lock2
<1> QED BY <1>2, <1>3

\* Every step of a conversation thread, of a client or of the listen loop keeps it.
LEMMA PlayerInvStep == PlayerInv /\ [SessionsNext2]_cvars => PlayerInv'
<1> SUFFICES ASSUME PlayerInv, [SessionsNext2]_cvars PROVE PlayerInv'
  OBVIOUS
<1> USE NobodyAssumption DEF PlayerInv, FieldTypes, Steps, Alive
<1>1. ASSUME NEW c \in Connections, Accept2(c) PROVE PlayerInv'
  <2>1. FieldTypes'
    BY <1>1 DEF Accept2
  <2>2. Ap2TypeOK'
    BY <1>1 DEF Accept2, Ap2TypeOK
  <2>3. ASSUME NEW d \in Connections PROVE ConnectionInv(d)'
    BY <1>1, ConnectionInv(c), ConnectionInv(d)
    DEF Accept2, ConnectionInv, InSetup
  <2>4. ExclusionInv'
    BY <1>1, ConnectionInv(c) DEF Accept2, ConnectionInv, ExclusionInv, SetUp, Ap2TypeOK
  <2> QED BY <2>1, <2>2, <2>3, <2>4
<1>2. ASSUME NEW c \in Connections, SetupConnection(c) PROVE PlayerInv'
  <2>1. FieldTypes'
    <3>1. \A cat \in Categories : cat \in {"ptp_stream", "remote_control_stream"}
      BY Ap2Assumption
    <3> QED BY <1>2, <3>1, LockTypes DEF SetupConnection
  <2>2. Ap2TypeOK'
    BY <1>2 DEF SetupConnection, get_play_lock2, Reading, Ap2TypeOK
  <2>3. ASSUME NEW d \in Connections PROVE ConnectionInv(d)'
    BY <1>2, ConnectionInv(c), ConnectionInv(d)
    DEF SetupConnection, get_play_lock2, Reading, ConnectionInv, InSetup
  <2>4. ExclusionInv'
    BY <1>2, ConnectionInv(c)
    DEF SetupConnection, get_play_lock2, Reading, ConnectionInv, ExclusionInv, SetUp, Ap2TypeOK
  <2> QED BY <2>1, <2>2, <2>3, <2>4
<1>3. ASSUME NEW c \in Connections, Announce2(c) PROVE PlayerInv'
  <2>1. FieldTypes'
    BY <1>3, LockTypes DEF Announce2
  <2>2. Ap2TypeOK'
    BY <1>3 DEF Announce2, get_play_lock2, Reading, Ap2TypeOK
  <2>3. ASSUME NEW d \in Connections PROVE ConnectionInv(d)'
    BY <1>3, ConnectionInv(c), ConnectionInv(d)
    DEF Announce2, get_play_lock2, Reading, ConnectionInv, InSetup
  <2>4. ExclusionInv'
    BY <1>3, ConnectionInv(c)
    DEF Announce2, get_play_lock2, Reading, ConnectionInv, ExclusionInv, SetUp, Ap2TypeOK
  <2> QED BY <2>1, <2>2, <2>3, <2>4
<1>4. ASSUME NEW c \in Connections, PollLock(c) PROVE PlayerInv'
  <2>1. FieldTypes'
    BY <1>4 DEF PollLock
  <2>2. Ap2TypeOK'
    BY <1>4 DEF PollLock, Ap2TypeOK
  <2>3. ASSUME NEW d \in Connections PROVE ConnectionInv(d)'
    BY <1>4, ConnectionInv(c), ConnectionInv(d)
    DEF PollLock, ConnectionInv, InSetup
  <2>4. ExclusionInv'
    BY <1>4, ConnectionInv(c) DEF PollLock, ConnectionInv, ExclusionInv, SetUp, Ap2TypeOK
  <2> QED BY <2>1, <2>2, <2>3, <2>4
<1>5. ASSUME NEW c \in Connections, LockTimeout(c) PROVE PlayerInv'
  <2>1. FieldTypes'
    BY <1>5 DEF LockTimeout
  <2>2. Ap2TypeOK'
    BY <1>5 DEF LockTimeout, Ap2TypeOK
  <2>3. ASSUME NEW d \in Connections PROVE ConnectionInv(d)'
    BY <1>5, ConnectionInv(c), ConnectionInv(d)
    DEF LockTimeout, ConnectionInv, InSetup
  <2>4. ExclusionInv'
    BY <1>5, ConnectionInv(c) DEF LockTimeout, ConnectionInv, ExclusionInv, SetUp, Ap2TypeOK
  <2> QED BY <2>1, <2>2, <2>3, <2>4
<1>6. ASSUME NEW c \in Connections, ClassicPlays(c) PROVE PlayerInv'
  <2>1. FieldTypes'
    BY <1>6 DEF ClassicPlays
  <2>2. Ap2TypeOK'
    BY <1>6 DEF ClassicPlays, Ap2TypeOK
  <2>3. ASSUME NEW d \in Connections PROVE ConnectionInv(d)'
    BY <1>6, ConnectionInv(c), ConnectionInv(d)
    DEF ClassicPlays, ConnectionInv, InSetup
  <2>4. ExclusionInv'
    BY <1>6, ConnectionInv(c) DEF ClassicPlays, ConnectionInv, ExclusionInv, SetUp, Ap2TypeOK
  <2> QED BY <2>1, <2>2, <2>3, <2>4
<1>7. ASSUME NEW c \in Connections, OpenEventPort(c) PROVE PlayerInv'
  <2>1. FieldTypes'
    BY <1>7, ConnectionInv(c) DEF OpenEventPort, ConnectionInv, InSetup
  <2>2. Ap2TypeOK'
    BY <1>7 DEF OpenEventPort, Ap2TypeOK
  <2>3. ASSUME NEW d \in Connections PROVE ConnectionInv(d)'
    BY <1>7, ConnectionInv(c), ConnectionInv(d)
    DEF OpenEventPort, ConnectionInv, InSetup
  <2>4. ExclusionInv'
    BY <1>7, ConnectionInv(c) DEF OpenEventPort, ConnectionInv, ExclusionInv, SetUp, Ap2TypeOK
  <2> QED BY <2>1, <2>2, <2>3, <2>4
<1>8. ASSUME NEW c \in Connections, cancel_all_RTSP_threads(c) PROVE PlayerInv'
  <2>1. FieldTypes'
    BY <1>8 DEF cancel_all_RTSP_threads, Eligible
  <2>2. Ap2TypeOK'
    BY <1>8 DEF cancel_all_RTSP_threads, Eligible, Ap2TypeOK
  <2>3. ASSUME NEW d \in Connections PROVE ConnectionInv(d)'
    BY <1>8, ConnectionInv(c), ConnectionInv(d)
    DEF cancel_all_RTSP_threads, Eligible, ConnectionInv, InSetup
  <2>4. ExclusionInv'
    <3>1. \A d \in Connections : at_step[d] # "joining"
      BY <1>8 DEF cancel_all_RTSP_threads, Ap2TypeOK
    <3>2. ASSUME NEW e \in Connections, (at_step[e] = "joining" /\ category[e] = "ptp_stream")',
                 NEW d \in Connections \ {e}
          PROVE  (~Alive(d) \/ (thread_cancelled[d] /\ d \in joining[e]))'
      <4>1. e = c
        BY <1>8, <3>1, <3>2 DEF cancel_all_RTSP_threads
      <4>2. Alive(d) => d \in Eligible(c)
        BY <1>8, <3>2, <4>1 DEF cancel_all_RTSP_threads, Eligible
      <4>3. joining'[c] = Eligible(c) /\ (d \in Eligible(c) => thread_cancelled'[d])
        BY <1>8, <3>2 DEF cancel_all_RTSP_threads
      <4> QED BY <1>8, <4>1, <4>2, <4>3 DEF cancel_all_RTSP_threads
    <3>3. \A d \in Connections : SetUp(d)' => SetUp(d)
      BY <1>8 DEF cancel_all_RTSP_threads, SetUp
    <3> QED BY <3>2, <3>3 DEF ExclusionInv
  <2> QED BY <2>1, <2>2, <2>3, <2>4
<1>9. ASSUME NEW c \in Connections, JoinAll(c) PROVE PlayerInv'
  <2>1. FieldTypes'
    BY <1>9 DEF JoinAll
  <2>2. Ap2TypeOK'
    BY <1>9 DEF JoinAll, Ap2TypeOK
  <2>3. ASSUME NEW d \in Connections PROVE ConnectionInv(d)'
    BY <1>9, ConnectionInv(c), ConnectionInv(d)
    DEF JoinAll, ConnectionInv, InSetup
  <2>4. ExclusionInv'
    BY <1>9, ConnectionInv(c) DEF JoinAll, ConnectionInv, ExclusionInv, SetUp, Ap2TypeOK
  <2> QED BY <2>1, <2>2, <2>3, <2>4
<1>10. ASSUME NEW c \in Connections, SetupStream(c) PROVE PlayerInv'
  <2>1. FieldTypes'
    BY <1>10 DEF SetupStream, Reading
  <2>2. Ap2TypeOK'
    BY <1>10 DEF SetupStream, Reading, Ap2TypeOK
  <2>3. ASSUME NEW d \in Connections PROVE ConnectionInv(d)'
    BY <1>10, ConnectionInv(c), ConnectionInv(d)
    DEF SetupStream, Reading, ConnectionInv, InSetup
  <2>4. ExclusionInv'
    BY <1>10, ConnectionInv(c)
    DEF SetupStream, Reading, ConnectionInv, ExclusionInv, SetUp, Ap2TypeOK
  <2> QED BY <2>1, <2>2, <2>3, <2>4
<1>11. ASSUME NEW c \in Connections, TeardownStream(c) PROVE PlayerInv'
  <2>1. FieldTypes'
    BY <1>11 DEF TeardownStream, Reading
  <2>2. Ap2TypeOK'
    BY <1>11 DEF TeardownStream, Reading, Ap2TypeOK
  <2>3. ASSUME NEW d \in Connections PROVE ConnectionInv(d)'
    BY <1>11, ConnectionInv(c), ConnectionInv(d)
    DEF TeardownStream, Reading, ConnectionInv, InSetup
  <2>4. ExclusionInv'
    BY <1>11, ConnectionInv(c)
    DEF TeardownStream, Reading, ConnectionInv, ExclusionInv, SetUp, Ap2TypeOK
  <2> QED BY <2>1, <2>2, <2>3, <2>4
<1>12. ASSUME NEW c \in Connections, ClassicTeardown(c) PROVE PlayerInv'
  <2>1. FieldTypes'
    BY <1>12 DEF ClassicTeardown, Reading, release_play_lock2
  <2>2. Ap2TypeOK'
    BY <1>12 DEF ClassicTeardown, Reading, release_play_lock2, Ap2TypeOK
  <2>3. ASSUME NEW d \in Connections PROVE ConnectionInv(d)'
    BY <1>12, ConnectionInv(c), ConnectionInv(d)
    DEF ClassicTeardown, Reading, release_play_lock2, ConnectionInv, InSetup
  <2>4. ExclusionInv'
    BY <1>12, ConnectionInv(c)
    DEF ClassicTeardown, Reading, release_play_lock2, ConnectionInv, ExclusionInv, SetUp,
        Ap2TypeOK
  <2> QED BY <2>1, <2>2, <2>3, <2>4
<1>13. ASSUME NEW c \in Connections, TeardownConnection(c) PROVE PlayerInv'
  <2>1. FieldTypes'
    BY <1>13 DEF TeardownConnection, Reading, teardown_phase_two, release_play_lock2
  <2>2. Ap2TypeOK'
    BY <1>13 DEF TeardownConnection, Reading, teardown_phase_two, release_play_lock2, Ap2TypeOK
  <2>3. ASSUME NEW d \in Connections PROVE ConnectionInv(d)'
    BY <1>13, ConnectionInv(c), ConnectionInv(d)
    DEF TeardownConnection, Reading, teardown_phase_two, release_play_lock2, ConnectionInv, InSetup
  <2>4. ExclusionInv'
    BY <1>13, ConnectionInv(c)
    DEF TeardownConnection, Reading, teardown_phase_two, release_play_lock2, ConnectionInv,
        ExclusionInv, SetUp, Ap2TypeOK
  <2> QED BY <2>1, <2>2, <2>3, <2>4
<1>14. ASSUME NEW c \in Connections, Cleanup2(c) PROVE PlayerInv'
  <2>1. FieldTypes'
    BY <1>14 DEF Cleanup2, Ends, teardown_phase_two, release_play_lock2
  <2>2. Ap2TypeOK'
    BY <1>14 DEF Cleanup2, Ends, teardown_phase_two, release_play_lock2, Ap2TypeOK
  <2>3. ASSUME NEW d \in Connections PROVE ConnectionInv(d)'
    BY <1>14, ConnectionInv(c), ConnectionInv(d)
    DEF Cleanup2, Ends, teardown_phase_two, release_play_lock2, ConnectionInv, InSetup
  <2>4. ExclusionInv'
    BY <1>14, ConnectionInv(c)
    DEF Cleanup2, Ends, teardown_phase_two, release_play_lock2, ConnectionInv, ExclusionInv,
        SetUp, Ap2TypeOK
  <2> QED BY <2>1, <2>2, <2>3, <2>4
<1>15. CASE UNCHANGED cvars
  BY <1>15 DEF cvars, Ap2TypeOK, ConnectionInv, ExclusionInv, InSetup, SetUp
<1> QED
  BY <1>1, <1>2, <1>3, <1>4, <1>5, <1>6, <1>7, <1>8, <1>9, <1>10, <1>11, <1>12, <1>13, <1>14,
     <1>15 DEF SessionsNext2, ThreadStep

\* At no time do two AirPlay 2 sessions have a player thread, whoever has the play lock
\* and however their SETUPs, their ends and the cancelling of one by another interleave
\* (handle_setup_2, cancel_all_RTSP_threads, the cleanup of a conversation thread).
THEOREM OnePlayer == Ap2Spec => []OnePlayer2
<1>1. PlayerInv => OnePlayer2
  <2> SUFFICES ASSUME PlayerInv PROVE OnePlayer2
    OBVIOUS
  <2> DEFINE P == {c \in Connections : has_player[c] /\ airplay_type[c] = "ap_2"}
  <2>1. \A c, d \in P : c = d
    BY DEF PlayerInv, FieldTypes, ConnectionInv, ExclusionInv, SetUp, Alive
  <2>2. P = {} \/ \E c \in P : P = {c}
    BY <2>1
  <2>3. Cardinality(P) \in {0, 1}
    BY <2>2, FS_EmptySet, FS_Singleton
  <2> QED BY <2>3 DEF OnePlayer2
<1> QED BY PlayerInvInit, PlayerInvStep, <1>1, PTL DEF Ap2Spec

\* Nothing of a session that has ended is left open, and it does not keep the player:
\* for any clients (teardown_phase_one, teardown_phase_two and the cleanup).
THEOREM EndedMeansClosed ==
  Ap2Spec => [](Ap2TypeOK /\ NothingLeftOpen /\ PlayerIsAvailableAgain)
<1>1. PlayerInv => Ap2TypeOK /\ NothingLeftOpen /\ PlayerIsAvailableAgain
  BY DEF PlayerInv, FieldTypes, Ap2TypeOK, ConnectionInv, NothingLeftOpen,
         PlayerIsAvailableAgain
<1> QED BY PlayerInvInit, PlayerInvStep, <1>1, PTL DEF Ap2Spec

LEMMA RelayInvInit == SessionsInit2 => RelayInv
BY DEF SessionsInit2, RelayInv, RelayIsAdvertised, SetUp

\* As long as a connection stays what it was first set up as, no step of another session
\* withdraws the relay flag of one that is set up.
LEMMA RelayInvStep ==
  ASSUME ~Recategorise, PlayerInv, RelayInv, [SessionsNext2]_cvars
  PROVE  RelayInv'
<1> USE NobodyAssumption DEF PlayerInv, FieldTypes, Steps, Alive, SetUp
<1>1. ASSUME NEW c \in Connections, Accept2(c) PROVE RelayInv'
  BY <1>1, ConnectionInv(c)
  DEF Accept2, RelayInv, RelayIsAdvertised, ConnectionInv, ExclusionInv, InSetup
<1>2. ASSUME NEW c \in Connections, SetupConnection(c) PROVE RelayInv'
  BY <1>2, ConnectionInv(c)
  DEF SetupConnection, get_play_lock2, Reading, RelayInv, RelayIsAdvertised, ConnectionInv,
      ExclusionInv, InSetup
<1>3. ASSUME NEW c \in Connections, Announce2(c) PROVE RelayInv'
  BY <1>3, ConnectionInv(c)
  DEF Announce2, get_play_lock2, Reading, RelayInv, RelayIsAdvertised, ConnectionInv,
      ExclusionInv, InSetup
<1>4. ASSUME NEW c \in Connections, PollLock(c) PROVE RelayInv'
  BY <1>4, ConnectionInv(c)
  DEF PollLock, RelayInv, RelayIsAdvertised, ConnectionInv, ExclusionInv, InSetup
<1>5. ASSUME NEW c \in Connections, LockTimeout(c) PROVE RelayInv'
  BY <1>5, ConnectionInv(c)
  DEF LockTimeout, RelayInv, RelayIsAdvertised, ConnectionInv, ExclusionInv, InSetup
<1>6. ASSUME NEW c \in Connections, ClassicPlays(c) PROVE RelayInv'
  BY <1>6, ConnectionInv(c)
  DEF ClassicPlays, RelayInv, RelayIsAdvertised, ConnectionInv, ExclusionInv, InSetup
<1>7. ASSUME NEW c \in Connections, OpenEventPort(c) PROVE RelayInv'
  BY <1>7, ConnectionInv(c)
  DEF OpenEventPort, RelayInv, RelayIsAdvertised, ConnectionInv, ExclusionInv, InSetup
<1>8. ASSUME NEW c \in Connections, cancel_all_RTSP_threads(c) PROVE RelayInv'
  BY <1>8, ConnectionInv(c)
  DEF cancel_all_RTSP_threads, Eligible, RelayInv, RelayIsAdvertised, ConnectionInv,
      ExclusionInv, InSetup
<1>9. ASSUME NEW c \in Connections, JoinAll(c) PROVE RelayInv'
  <2>1. supports_relay \/ category[c] = "ptp_stream" => supports_relay'
    BY <1>9, Zenon DEF JoinAll
  <2>2. category[c] = "ptp_stream" => \A d \in Connections \ {c} : ~Alive(d)
    BY <1>9 DEF JoinAll, ExclusionInv
  <2>3. /\ at_step' = [at_step EXCEPT ![c] = "reading"] /\ ready' = [ready EXCEPT ![c] = TRUE]
        /\ at_step[c] = "joining"
        /\ UNCHANGED <<category, told_to_stop, thread_cancelled>>
    BY <1>9 DEF JoinAll
  <2>4. RelayIsAdvertised'
    BY <2>1, <2>3 DEF RelayInv, RelayIsAdvertised
  <2> QED BY <2>2, <2>3, <2>4, ConnectionInv(c) DEF RelayInv, ConnectionInv, InSetup, ExclusionInv
<1>10. ASSUME NEW c \in Connections, SetupStream(c) PROVE RelayInv'
  BY <1>10, ConnectionInv(c)
  DEF SetupStream, Reading, RelayInv, RelayIsAdvertised, ConnectionInv, ExclusionInv, InSetup
<1>11. ASSUME NEW c \in Connections, TeardownStream(c) PROVE RelayInv'
  BY <1>11, ConnectionInv(c)
  DEF TeardownStream, Reading, RelayInv, RelayIsAdvertised, ConnectionInv, ExclusionInv, InSetup
<1>12. ASSUME NEW c \in Connections, ClassicTeardown(c) PROVE RelayInv'
  BY <1>12, ConnectionInv(c)
  DEF ClassicTeardown, Reading, release_play_lock2, RelayInv, RelayIsAdvertised, ConnectionInv,
      ExclusionInv, InSetup
<1>13. ASSUME NEW c \in Connections, TeardownConnection(c) PROVE RelayInv'
  BY <1>13, ConnectionInv(c)
  DEF TeardownConnection, Reading, teardown_phase_two, release_play_lock2, RelayInv,
      RelayIsAdvertised, ConnectionInv, ExclusionInv, InSetup
<1>14. ASSUME NEW c \in Connections, Cleanup2(c) PROVE RelayInv'
  BY <1>14, ConnectionInv(c)
  DEF Cleanup2, Ends, teardown_phase_two, release_play_lock2, RelayInv, RelayIsAdvertised,
      ConnectionInv, ExclusionInv, InSetup
<1>15. CASE UNCHANGED cvars
  BY <1>15 DEF cvars, RelayInv, RelayIsAdvertised
<1> QED
  BY <1>1, <1>2, <1>3, <1>4, <1>5, <1>6, <1>7, <1>8, <1>9, <1>10, <1>11, <1>12, <1>13, <1>14,
     <1>15 DEF SessionsNext2, ThreadStep

\* A session that ends leaves nothing of its own behind and nothing of another's missing,
\* if a connection is not set up again as something else: the relay flag of a PTP session
\* that has been set up outlives the sessions that it replaced.
THEOREM NothingIsLeft == ~Recategorise => (Ap2Spec => []NothingLeftBehind)
<1>1. ~Recategorise /\ PlayerInv /\ RelayInv /\ [SessionsNext2]_cvars
        => PlayerInv' /\ RelayInv'
  BY PlayerInvStep, RelayInvStep
<1>2. PlayerInv /\ RelayInv => NothingLeftBehind
  BY DEF PlayerInv, RelayInv, FieldTypes, Ap2TypeOK, ConnectionInv, NothingLeftOpen,
         PlayerIsAvailableAgain, NothingLeftBehind
<1>3. ASSUME ~Recategorise PROVE Ap2Spec => []NothingLeftBehind
  <2>1. PlayerInv /\ RelayInv /\ [SessionsNext2]_cvars => PlayerInv' /\ RelayInv'
    BY <1>1, <1>3
  <2> QED BY PlayerInvInit, RelayInvInit, <2>1, <1>2, PTL DEF Ap2Spec
<1> QED BY <1>3
-----------------------------------------------------------------------------
(***************************************************************************)
(* Pairing.                                                                *)
(***************************************************************************)
\* The records of pairing; their fields may hold anything.
IsClient(c) ==
  c \in [kind : ClientKinds, pc : {c.pc}, user : {c.user}, pin : {c.pin},
         server_key : {c.server_key}, shared_secret : {c.shared_secret},
         completed : {c.completed}, cipher : {c.cipher}]
IsCipher(c) ==
  c \in [out : {c.out}, in : {c.in}, encryption_counter : Nat, decryption_counter : Nat]
IsSetup(x) ==
  x \in [is_transient : {x.is_transient}, salt : {x.salt}, v : {x.v}, b : {x.b},
         pkB : {x.pkB}, M2 : {x.M2}, verifier : {x.verifier}, status : {x.status},
         shared_secret : {x.shared_secret}]
IsVerify(x) ==
  x \in [client_eph : {x.client_eph}, shared_secret : {x.shared_secret},
         status : {x.status}, result : {x.result}]

\* A message that is not ciphered.
Plain(to, url, body) == [to |-> to, url |-> url, body |-> body, ciphered |-> FALSE]

\* A pair-setup under way at the server, not yet with a secret for the channel.
UnderWay(x) ==
  /\ IsSetup(x) /\ x.status = "in_progress" /\ x.shared_secret = <<>>
  /\ x.is_transient <=> client.kind = "transient"

\* What pair-verify agrees on at both ends.
Secret == crypto_scalarmult("client_eph", "server_eph")

Verifying(x) == IsVerify(x) /\ x.status = "in_progress" /\ x.shared_secret = <<Secret>>

NotPaired == client.cipher = None /\ client.completed = FALSE

\* Where the two ends are, phase by phase of the client.
Starting == wire = None /\ control_cipher = None /\ setup_ctx = None /\ verify_ctx = None

Setup1 ==
  /\ control_cipher = None /\ verify_ctx = None
  /\ \/ /\ wire = Plain("server", "pair-setup", client_setup_request1(client.kind))
        /\ setup_ctx = None
     \/ /\ wire = Plain("client", "pair-setup", server_setup_response1(setup_ctx))
        /\ UnderWay(setup_ctx)

\* With a proof to send, the user's keys are those of its session.
Keyed(user) ==
  user.M # None => user.H_AMK = calculate_H_AMK(user.A, user.M, user.session_key)

\* The server's proof, and its cipher when that ends a transient pairing.
Proved(K) ==
  /\ client.user.M # None
  /\ wire = Plain("client", "pair-setup",
                  [State |-> 4, Proof |-> calculate_H_AMK(client.user.A, client.user.M, K)])
  /\ IF client.kind = "transient" THEN control_cipher = cipher_new(2, <<K>>)
     ELSE control_cipher = None /\ UnderWay(setup_ctx)

Setup2 ==
  /\ verify_ctx = None /\ Keyed(client.user)
  /\ \/ /\ wire = Plain("server", "pair-setup", client_setup_request2(client.user))
        /\ control_cipher = None /\ UnderWay(setup_ctx)
     \/ \E body : wire = Plain("client", "pair-setup", body) /\ PairingFailure(body)
     \/ \E K : Proved(K)

Setup3 ==
  /\ control_cipher = None /\ verify_ctx = None
  /\ \/ \E body : wire = Plain("client", "pair-setup", body)
     \/ /\ wire = Plain("server", "pair-setup",
                        client_setup_request3(client.user.session_key))
        /\ UnderWay(setup_ctx) /\ client.kind = "normal"

Verify1 ==
  /\ control_cipher = None
  /\ \/ /\ wire = Plain("server", "pair-verify", client_verify_request1)
        /\ verify_ctx = None
     \/ \E body : /\ wire = Plain("client", "pair-verify", body)
                  /\ body.PublicKey = "server_eph" /\ Verifying(verify_ctx)

Verify2 ==
  /\ client.shared_secret = <<Secret>>
  /\ \/ /\ wire = Plain("server", "pair-verify", client_verify_request2("server_eph", Secret))
        /\ control_cipher = None /\ Verifying(verify_ctx)
     \/ \E body : wire = Plain("client", "pair-verify", body) /\ PairingFailure(body)
     \/ \E body : /\ wire = Plain("client", "pair-verify", body)
                  /\ control_cipher = cipher_new(2, <<Secret>>)

\* Ciphers at two ends, with opposite keys.
Opposite(c, d) == IsCipher(c) /\ IsCipher(d) /\ c.out = d.in /\ c.in = d.out

\* On the channel each end counts what the other does, but for the message under way.
Ciphered(to, from, m, url) ==
  wire = [to |-> to, url |-> url,
          body |-> encrypt_chacha(from.out, from.encryption_counter - 1, m),
          ciphered |-> TRUE]

Channel ==
  LET c == client.cipher
      s == control_cipher
  IN  /\ Opposite(c, s)
      /\ \/ /\ wire = None
            /\ c.encryption_counter = s.decryption_counter
            /\ s.encryption_counter = c.decryption_counter
         \/ \E m \in ChannelRequests :
              /\ Ciphered("server", c, m, m.Method)
              /\ c.encryption_counter = s.decryption_counter + 1
              /\ s.encryption_counter = c.decryption_counter
         \/ \E m, url :
              /\ Ciphered("client", s, m, url)
              /\ c.encryption_counter = s.decryption_counter
              /\ s.encryption_counter = c.decryption_counter + 1

ChannelInv ==
  /\ IsClient(client)
  /\ client.pc \in {"start", "setup1", "setup2", "setup3", "verify1", "verify2", "failed",
                    "channel"}
  /\ client.pc = "start"   => NotPaired /\ Starting
  /\ client.pc = "setup1"  => NotPaired /\ Setup1
  /\ client.pc = "setup2"  => NotPaired /\ Setup2
  /\ client.pc = "setup3"  => NotPaired /\ Setup3
  /\ client.pc = "verify1" => NotPaired /\ Verify1
  /\ client.pc = "verify2" => NotPaired /\ Verify2
  /\ client.pc = "failed"  => NotPaired /\ wire = None
  /\ client.pc = "channel" => Channel

LEMMA ChannelInvInit == PairingInit => ChannelInv
<1> SUFFICES ASSUME PairingInit PROVE ChannelInv
  OBVIOUS
<1>1. PICK kind \in ClientKinds, pin \in Pins : client = client_setup_new(kind, pin)
  BY DEF PairingInit
<1>2. IsClient(client) /\ client.pc = "start" /\ NotPaired
  BY <1>1 DEF client_setup_new, IsClient, NotPaired
<1>3. Starting
  BY DEF PairingInit, Starting
<1> QED  BY <1>2, <1>3 DEF ChannelInv

\* What is sent without a cipher is plain.
LEMMA SentPlain ==
  ASSUME NEW to, NEW url, NEW body
  PROVE  Sent(to, url, body, None) = Plain(to, url, body)
BY DEF Sent, Plain

\* The keys of a new channel are opposite at its ends and nothing is counted yet.
LEMMA NewCiphers ==
  ASSUME NEW secret
  PROVE  /\ Opposite(cipher_new(0, secret), cipher_new(2, secret))
         /\ cipher_new(0, secret).encryption_counter = 0
         /\ cipher_new(0, secret).decryption_counter = 0
         /\ cipher_new(2, secret).encryption_counter = 0
         /\ cipher_new(2, secret).decryption_counter = 0
BY DEF cipher_new, Opposite, IsCipher

LEMMA CipherIsSomething ==
  ASSUME NEW c, IsCipher(c)
  PROVE  c # None
BY DEF IsCipher, None

\* What a change of the client leaves as it was, for the changes the steps make.
OnlyMoved(c, d, pc) ==
  /\ IsClient(d) /\ d.pc = pc /\ d.cipher = c.cipher /\ d.completed = c.completed
  /\ d.kind = c.kind

LEMMA MovedOnly ==
  ASSUME NEW c, IsClient(c), NEW pc, NEW d, d = [c EXCEPT !.pc = pc]
  PROVE  OnlyMoved(c, d, pc) /\ d.user = c.user
BY DEF IsClient, OnlyMoved

\* Giving up ends a pairing before there is a cipher.
LEMMA GivesUpStep ==
  ASSUME ChannelInv, NotPaired, GivesUp
  PROVE  ChannelInv'
<1>1. /\ client' = [client EXCEPT !.pc = "failed"] /\ wire' = None /\ IsClient(client)
  BY DEF GivesUp, ChannelInv
<1>2. OnlyMoved(client, client', "failed")
  BY <1>1, MovedOnly
<1> QED  BY <1>1, <1>2 DEF ChannelInv, NotPaired, OnlyMoved, IsClient

LEMMA Setup1RequestStep ==
  ASSUME ChannelInv, setup_step1_request
  PROVE  ChannelInv'
<1>1. /\ IsClient(client) /\ NotPaired /\ Starting
      /\ client' = [client EXCEPT !.pc = "setup1"]
      /\ wire' = Sent("server", "pair-setup", client_setup_request1(client.kind), client.cipher)
      /\ UNCHANGED serverContexts
  BY DEF ChannelInv, setup_step1_request, SendsRequest
<1>2. OnlyMoved(client, client', "setup1")
  BY <1>1, MovedOnly
<1>3. wire' = Plain("server", "pair-setup", client_setup_request1(client'.kind))
  BY <1>1, <1>2, SentPlain DEF NotPaired, OnlyMoved
<1>4. NotPaired' /\ Setup1'
  BY <1>1, <1>2, <1>3 DEF NotPaired, Setup1, Starting, serverContexts, client_setup_request1,
    Plain, OnlyMoved
<1> QED  BY <1>2, <1>4 DEF ChannelInv, OnlyMoved, IsClient

\* A user that has a proof has the keys of its session with it.
LEMMA UserIsKeyed ==
  ASSUME NEW a, NEW pin, NEW salt, NEW B
  PROVE  Keyed(srp_user_process_challenge(srp_user_start_authentication(a, pin), salt, B))
<1> DEFINE user == srp_user_start_authentication(a, pin)
           u == H_nn_pad(user.A, B)
           x == calculate_x(salt, user.pin)
           S == PowMod((B - k * PowMod(g, x)) % N, user.a + u * x)
           M == calculate_M(salt, user.A, B, S)
           H == calculate_H_AMK(user.A, M, S)
           done == [user EXCEPT !.session_key = S, !.M = M, !.H_AMK = H]
<1>1. srp_user_process_challenge(user, salt, B) = IF B = 0 \/ u = 0 THEN user ELSE done
  BY Zenon DEF srp_user_process_challenge
<1>2. Keyed(user)
  BY DEF Keyed, srp_user_start_authentication
<1>3. Keyed(done)
  <2>1. user \in [a : {user.a}, A : {user.A}, pin : {user.pin}, session_key : {None},
                  M : {None}, H_AMK : {None}]
    BY DEF srp_user_start_authentication
  <2> HIDE DEF user, S, M, H
  <2>2. /\ done.A = user.A /\ done.session_key = S /\ done.M = M /\ done.H_AMK = H
    BY <2>1
  <2>3. H = calculate_H_AMK(user.A, M, S)  BY DEF H
  <2> QED  BY <2>2, <2>3 DEF Keyed
<1> QED  BY <1>1, <1>2, <1>3

LEMMA Setup1ResponseStep ==
  ASSUME ChannelInv, setup_step1_response
  PROVE  ChannelInv'
<1>1. /\ IsClient(client) /\ NotPaired /\ Setup1 /\ UNCHANGED serverContexts
      /\ wire # None /\ wire.to = "client"
  BY DEF ChannelInv, setup_step1_response, Answered
<1>2. CASE GivesUp
  BY <1>1, <1>2, GivesUpStep
<1>3. CASE ~GivesUp
  <2>1. PICK m \in {wire.body}, a \in Exponents :
          LET user == srp_user_process_challenge(
                        srp_user_start_authentication(a, client.pin), m.Salt, m.PublicKey)
          IN  /\ client' = [client EXCEPT !.pc = "setup2", !.user = user]
              /\ wire' = Sent("server", "pair-setup", client_setup_request2(user),
                              client.cipher)
    BY <1>3, Zenon DEF setup_step1_response, SendsRequest
  <2> DEFINE user == srp_user_process_challenge(
                       srp_user_start_authentication(a, client.pin), m.Salt, m.PublicKey)
  <2>2. Keyed(user)  BY UserIsKeyed
  <2> HIDE DEF user
  <2>3. /\ client' = [client EXCEPT !.pc = "setup2", !.user = user]
        /\ wire' = Plain("server", "pair-setup", client_setup_request2(user))
    BY <1>1, <2>1, SentPlain DEF NotPaired, user
  <2>4. OnlyMoved(client, client', "setup2") /\ client'.user = user
    <3>1. IsClient(client)  BY <1>1
    <3>2. client' = [client EXCEPT !.pc = "setup2", !.user = user]  BY <2>3
    <3> QED  BY <3>1, <3>2 DEF IsClient, OnlyMoved
  <2>5. /\ control_cipher = None /\ verify_ctx = None /\ UnderWay(setup_ctx)
    BY <1>1 DEF Setup1, Plain
  <2>6. NotPaired' /\ Setup2'
    BY <1>1, <2>2, <2>3, <2>4, <2>5
    DEF NotPaired, Setup2, serverContexts, UnderWay, Keyed, IsSetup, Plain,
        client_setup_request2, OnlyMoved
  <2> QED  BY <2>4, <2>6 DEF ChannelInv, OnlyMoved, IsClient
<1> QED  BY <1>2, <1>3

LEMMA Setup2ResponseStep ==
  ASSUME ChannelInv, setup_step2_response
  PROVE  ChannelInv'
<1>1. /\ IsClient(client) /\ NotPaired /\ Setup2 /\ UNCHANGED serverContexts
      /\ wire # None /\ wire.to = "client"
  BY DEF ChannelInv, setup_step2_response, Answered
<1>2. CASE GivesUp
  BY <1>1, <1>2, GivesUpStep
<1>3. CASE ~GivesUp
  <2>1. client_setup_response2(wire.body)
    BY <1>3, Zenon DEF setup_step2_response
  <2>2. \A body : wire = Plain("client", "pair-setup", body) => wire.body = body
    BY DEF Plain
  <2>3. PICK K : Proved(K)
    <3>1. ~(\E body : wire = Plain("client", "pair-setup", body) /\ PairingFailure(body))
      BY <2>1, <2>2 DEF client_setup_response2
    <3>2. wire # Plain("server", "pair-setup", client_setup_request2(client.user))
      BY <1>1 DEF Plain
    <3> QED  BY <1>1, <3>1, <3>2 DEF Setup2
  <2>4. K = client.user.session_key
    <3>1. wire.body.Proof = calculate_H_AMK(client.user.A, client.user.M, K)
      BY <2>3 DEF Proved, Plain
    <3>2. client.user.H_AMK = calculate_H_AMK(client.user.A, client.user.M,
                                              client.user.session_key)
      BY <1>1, <2>3 DEF Setup2, Keyed, Proved
    <3>3. calculate_H_AMK(client.user.A, client.user.M, K)
            = calculate_H_AMK(client.user.A, client.user.M, client.user.session_key)
      BY <2>1, <3>1, <3>2 DEF client_setup_response2
    <3> QED  BY <3>3 DEF calculate_H_AMK
  <2>5. CASE client.kind = "transient"
    <3> DEFINE c == cipher_new(0, <<K>>)
    <3>1. /\ client' = [client EXCEPT !.pc = "channel", !.completed = TRUE,
                                      !.shared_secret = <<K>>, !.cipher = c]
          /\ wire' = None
      BY <1>3, <2>1, <2>4, <2>5, Zenon DEF setup_step2_response
    <3>2. IsClient(client') /\ client'.pc = "channel" /\ client'.cipher = c
      <4>1. IsClient(client)  BY <1>1
      <4> HIDE DEF c
      <4> QED  BY <4>1, <3>1 DEF IsClient
    <3>3. control_cipher' = cipher_new(2, <<K>>)
      BY <1>1, <2>3, <2>5 DEF Proved, serverContexts
    <3>4. Channel'
      BY <3>1, <3>2, <3>3, NewCiphers DEF Channel
    <3> QED  BY <3>2, <3>4 DEF ChannelInv, IsClient
  <2>6. CASE client.kind # "transient"
    <3>1. /\ client' = [client EXCEPT !.pc = "setup3"]
          /\ wire' = Sent("server", "pair-setup",
                          client_setup_request3(client.user.session_key), client.cipher)
      BY <1>3, <2>1, <2>6, Zenon DEF setup_step2_response, SendsRequest
    <3>2. OnlyMoved(client, client', "setup3") /\ client'.user = client.user
      <4>1. IsClient(client)  BY <1>1
      <4> QED  BY <4>1, <3>1, MovedOnly
    <3>3. client.kind = "normal"
      BY <1>1, <2>6 DEF IsClient, ClientKinds
    <3>4. wire' = Plain("server", "pair-setup",
                        client_setup_request3(client'.user.session_key))
      BY <1>1, <3>1, <3>2, SentPlain DEF NotPaired
    <3>5. control_cipher' = None /\ verify_ctx' = None /\ UnderWay(setup_ctx)'
      BY <1>1, <2>3, <2>6, <3>2
      DEF Proved, Setup2, UnderWay, IsSetup, serverContexts, OnlyMoved
    <3>6. NotPaired' /\ Setup3'
      BY <1>1, <3>2, <3>3, <3>4, <3>5 DEF NotPaired, Setup3, OnlyMoved
    <3> QED  BY <3>2, <3>6 DEF ChannelInv, OnlyMoved, IsClient
  <2> QED  BY <2>5, <2>6
<1> QED  BY <1>2, <1>3

LEMMA Setup3ResponseStep ==
  ASSUME ChannelInv, setup_step3_response
  PROVE  ChannelInv'
<1>1. /\ IsClient(client) /\ NotPaired /\ Setup3 /\ UNCHANGED serverContexts
  BY DEF ChannelInv, setup_step3_response
<1>2. CASE GivesUp
  BY <1>1, <1>2, GivesUpStep
<1>3. CASE ~GivesUp
  <2>1. PICK x :
          /\ client' = [client EXCEPT !.pc = "verify1", !.server_key = x]
          /\ wire' = Sent("server", "pair-verify", client_verify_request1, client.cipher)
    BY <1>3, Zenon DEF setup_step3_response, SendsRequest
  <2>2. OnlyMoved(client, client', "verify1")
    <3>1. IsClient(client)  BY <1>1
    <3> QED  BY <3>1, <2>1 DEF IsClient, OnlyMoved
  <2>3. wire' = Plain("server", "pair-verify", client_verify_request1)
    BY <1>1, <2>1, SentPlain DEF NotPaired
  <2>4. NotPaired' /\ Verify1'
    BY <1>1, <2>2, <2>3
    DEF NotPaired, Setup3, Verify1, serverContexts, OnlyMoved, Plain, client_verify_request1
  <2> QED  BY <2>2, <2>4 DEF ChannelInv, OnlyMoved, IsClient
<1> QED  BY <1>2, <1>3

LEMMA Verify1ResponseStep ==
  ASSUME ChannelInv, verify_step1_response
  PROVE  ChannelInv'
<1>1. /\ IsClient(client) /\ NotPaired /\ Verify1 /\ UNCHANGED serverContexts
      /\ wire # None /\ wire.to = "client"
  BY DEF ChannelInv, verify_step1_response, Answered
<1>2. CASE GivesUp
  BY <1>1, <1>2, GivesUpStep
<1>3. CASE ~GivesUp
  <2>1. Has(wire.body, "PublicKey")
    BY <1>3, Zenon DEF verify_step1_response, client_verify_response1
  <2>2. wire.body.PublicKey = "server_eph" /\ Verifying(verify_ctx)
    BY <1>1 DEF Verify1, Plain
  <2>3. /\ client' = [client EXCEPT !.pc = "verify2", !.shared_secret = <<Secret>>]
        /\ wire' = Sent("server", "pair-verify",
                        client_verify_request2("server_eph", Secret), client.cipher)
    BY <1>3, <2>1, <2>2, Zenon DEF verify_step1_response, SendsRequest, Secret
  <2>4. OnlyMoved(client, client', "verify2") /\ client'.shared_secret = <<Secret>>
    <3>1. IsClient(client)  BY <1>1
    <3> QED  BY <3>1, <2>3 DEF IsClient, OnlyMoved
  <2>5. wire' = Plain("server", "pair-verify", client_verify_request2("server_eph", Secret))
    BY <1>1, <2>3, SentPlain DEF NotPaired
  <2>6. control_cipher' = None /\ Verifying(verify_ctx)'
    BY <1>1, <2>2 DEF Verify1, Verifying, IsVerify, serverContexts
  <2>7. NotPaired' /\ Verify2'
    BY <1>1, <2>4, <2>5, <2>6 DEF NotPaired, Verify2, OnlyMoved
  <2> QED  BY <2>4, <2>7 DEF ChannelInv, OnlyMoved, IsClient
<1> QED  BY <1>2, <1>3

LEMMA Verify2ResponseStep ==
  ASSUME ChannelInv, verify_step2_response
  PROVE  ChannelInv'
<1>1. /\ IsClient(client) /\ NotPaired /\ Verify2 /\ UNCHANGED serverContexts
      /\ wire # None /\ wire.to = "client"
  BY DEF ChannelInv, verify_step2_response, Answered
<1>2. CASE GivesUp
  BY <1>1, <1>2, GivesUpStep
<1>3. CASE ~GivesUp
  <2>1. ~PairingFailure(wire.body)
    BY <1>3, Zenon DEF verify_step2_response, client_verify_response2
  <2>2. control_cipher = cipher_new(2, <<Secret>>) /\ client.shared_secret = <<Secret>>
    BY <1>1, <2>1 DEF Verify2, Plain
  <2> DEFINE c == cipher_new(0, <<Secret>>)
  <2>3. /\ client' = [client EXCEPT !.pc = "channel", !.completed = TRUE, !.cipher = c]
        /\ wire' = None
    BY <1>3, <2>1, <2>2, Zenon DEF verify_step2_response, client_verify_response2
  <2>4. IsClient(client') /\ client'.pc = "channel" /\ client'.cipher = c
    <3>1. IsClient(client)  BY <1>1
    <3> HIDE DEF c
    <3> QED  BY <3>1, <2>3 DEF IsClient
  <2>5. Channel'
    <3>1. control_cipher' = cipher_new(2, <<Secret>>)
      BY <1>1, <2>2 DEF serverContexts
    <3> QED  BY <2>3, <2>4, <3>1, NewCiphers DEF Channel
  <2> QED  BY <2>4, <2>5 DEF ChannelInv, IsClient
<1> QED  BY <1>2, <1>3

\* A message counted by the cipher it left under.
LEMMA CountedCipher ==
  ASSUME NEW c, IsCipher(c)
  PROVE  /\ IsCipher(Counted(c)) /\ Counted(c).out = c.out /\ Counted(c).in = c.in
         /\ Counted(c).encryption_counter = c.encryption_counter + 1
         /\ Counted(c).decryption_counter = c.decryption_counter
<1>1. c # None  BY CipherIsSomething
<1>2. Counted(c) = [c EXCEPT !.encryption_counter = c.encryption_counter + 1]
  BY <1>1 DEF Counted
<1> QED  BY <1>2 DEF IsCipher

LEMMA AskStep ==
  ASSUME ChannelInv, NEW m \in ChannelRequests, ClientAsks(m)
  PROVE  ChannelInv'
<1> DEFINE c == client.cipher
           s == control_cipher
<1>1. /\ IsClient(client) /\ client.pc = "channel" /\ wire = None /\ Channel
      /\ client' = [client EXCEPT !.cipher = Counted(c)]
      /\ wire' = Sent("server", m.Method, m, c) /\ control_cipher' = s
  BY DEF ChannelInv, ClientAsks, SendsRequest, serverContexts
<1>2. /\ Opposite(c, s)
      /\ c.encryption_counter = s.decryption_counter
      /\ s.encryption_counter = c.decryption_counter
  BY <1>1 DEF Channel, Ciphered, None
<1>3. IsCipher(c) /\ c # None /\ c.encryption_counter \in Nat
  BY <1>2, CipherIsSomething DEF Opposite, IsCipher
<1>4. IsClient(client') /\ client'.pc = "channel" /\ client'.cipher = Counted(c)
  <2>1. IsClient(client) /\ client.pc = "channel"  BY <1>1
  <2>2. client' = [client EXCEPT !.cipher = Counted(c)]  BY <1>1
  <2> QED  BY <2>1, <2>2 DEF IsClient
<1>5. /\ IsCipher(Counted(c)) /\ Counted(c).out = c.out /\ Counted(c).in = c.in
      /\ Counted(c).encryption_counter = c.encryption_counter + 1
      /\ Counted(c).decryption_counter = c.decryption_counter
  BY <1>3, CountedCipher
<1>6. Opposite(client'.cipher, control_cipher')
  BY <1>1, <1>2, <1>4, <1>5 DEF Opposite
<1>7. Ciphered("server", client.cipher, m, m.Method)'
  <2>1. wire' = [to |-> "server", url |-> m.Method,
                 body |-> encrypt_chacha(c.out, c.encryption_counter, m), ciphered |-> TRUE]
    BY <1>1, <1>3 DEF Sent
  <2>2. c.out = client'.cipher.out /\ c.encryption_counter = client'.cipher.encryption_counter - 1
    BY <1>3, <1>4, <1>5
  <2> QED  BY <2>1, <2>2 DEF Ciphered
<1>8. Channel'
  BY <1>1, <1>2, <1>4, <1>5, <1>6, <1>7 DEF Channel
<1> QED  BY <1>4, <1>8 DEF ChannelInv, IsClient

LEMMA HearStep ==
  ASSUME ChannelInv, ClientHears
  PROVE  ChannelInv'
<1> DEFINE c == client.cipher
           s == control_cipher
           d == [c EXCEPT !.decryption_counter = c.decryption_counter + 1]
<1>1. /\ IsClient(client) /\ client.pc = "channel" /\ wire # None /\ wire.to = "client"
      /\ Channel /\ wire' = None /\ control_cipher' = s
  BY DEF ChannelInv, ClientHears, serverContexts
<1>2. PICK m, url :
        /\ Ciphered("client", s, m, url)
        /\ Opposite(c, s)
        /\ c.encryption_counter = s.decryption_counter
        /\ s.encryption_counter = c.decryption_counter + 1
  <2>1. \A m \in ChannelRequests : ~Ciphered("server", c, m, m.Method)
    BY <1>1 DEF Ciphered
  <2> QED  BY <1>1, <2>1 DEF Channel
<1>3. wire.ciphered /\ Decrypts(wire.body, c.in, c.decryption_counter)
  <2>1. s.out = c.in /\ s.encryption_counter - 1 = c.decryption_counter
    BY <1>2 DEF Opposite, IsCipher
  <2> QED  BY <1>2, <2>1 DEF Ciphered, Decrypts, encrypt_chacha
<1>4. client' = [client EXCEPT !.cipher = d]
  BY <1>3 DEF ClientHears
<1>5. /\ IsCipher(d) /\ d.out = c.out /\ d.in = c.in
      /\ d.encryption_counter = c.encryption_counter
      /\ d.decryption_counter = c.decryption_counter + 1
  BY <1>2 DEF Opposite, IsCipher
<1>6. IsClient(client') /\ client'.pc = "channel" /\ client'.cipher = d
  <2>1. IsClient(client) /\ client.pc = "channel"  BY <1>1
  <2> HIDE DEF d
  <2> QED  BY <2>1, <1>4 DEF IsClient
<1> HIDE DEF d
<1>7. Channel'
  BY <1>1, <1>2, <1>5, <1>6 DEF Channel, Opposite
<1> QED  BY <1>6, <1>7 DEF ChannelInv, IsClient

\* What a request at the server tells of where the client is.
LEMMA AtServer ==
  ASSUME ChannelInv, wire # None, wire.to = "server"
  PROVE  \/ client.pc = "setup1" /\ NotPaired /\ control_cipher = None /\ setup_ctx = None
              /\ verify_ctx = None
              /\ wire = Plain("server", "pair-setup", client_setup_request1(client.kind))
         \/ client.pc = "setup2" /\ NotPaired /\ control_cipher = None /\ UnderWay(setup_ctx)
              /\ verify_ctx = None /\ Keyed(client.user)
              /\ wire = Plain("server", "pair-setup", client_setup_request2(client.user))
         \/ client.pc = "setup3" /\ NotPaired /\ control_cipher = None /\ UnderWay(setup_ctx)
              /\ verify_ctx = None /\ client.kind = "normal"
              /\ wire = Plain("server", "pair-setup",
                              client_setup_request3(client.user.session_key))
         \/ client.pc = "verify1" /\ NotPaired /\ control_cipher = None /\ verify_ctx = None
              /\ wire = Plain("server", "pair-verify", client_verify_request1)
         \/ client.pc = "verify2" /\ NotPaired /\ control_cipher = None
              /\ Verifying(verify_ctx) /\ client.shared_secret = <<Secret>>
              /\ wire = Plain("server", "pair-verify",
                              client_verify_request2("server_eph", Secret))
         \/ client.pc = "channel" /\ Opposite(client.cipher, control_cipher)
              /\ \E m \in ChannelRequests : Ciphered("server", client.cipher, m, m.Method)
              /\ client.cipher.encryption_counter = control_cipher.decryption_counter + 1
              /\ control_cipher.encryption_counter = client.cipher.decryption_counter
<1>1. \A url, body : wire # Plain("client", url, body)
  BY DEF Plain
<1>2. CASE client.pc = "start"    BY <1>2 DEF ChannelInv, Starting
<1>3. CASE client.pc = "setup1"   BY <1>1, <1>3 DEF ChannelInv, Setup1
<1>4. CASE client.pc = "setup2"   BY <1>1, <1>4 DEF ChannelInv, Setup2, Proved
<1>5. CASE client.pc = "setup3"   BY <1>1, <1>5 DEF ChannelInv, Setup3
<1>6. CASE client.pc = "verify1"  BY <1>1, <1>6 DEF ChannelInv, Verify1
<1>7. CASE client.pc = "verify2"  BY <1>1, <1>7 DEF ChannelInv, Verify2
<1>8. CASE client.pc = "failed"   BY <1>8 DEF ChannelInv
<1>9. CASE client.pc = "channel"
  <2>1. \A m, url : ~Ciphered("client", control_cipher, m, url)
    BY DEF Ciphered
  <2> QED  BY <1>9, <2>1 DEF ChannelInv, Channel
<1> QED
  BY <1>2, <1>3, <1>4, <1>5, <1>6, <1>7, <1>8, <1>9 DEF ChannelInv

\* Before there is a cipher, requests are read and answered in plain.
LEMMA PlainAnswer ==
  ASSUME control_cipher = None, Reads, NEW url, NEW m, NEW cipher, Responds(url, m, cipher)
  PROVE  /\ Request = wire.body /\ AfterRead = None
         /\ wire' = Plain("client", url, m) /\ control_cipher' = cipher
         /\ client' = client
BY SentPlain DEF Reads, Responds, msg_write_response, Request, AfterRead

\* pair-setup, request by request, as handle_pair_setup answers it.
SetupAnswer(url, read, done, m, cipher) ==
  /\ setup_ctx' = done /\ verify_ctx' = verify_ctx
  /\ done = SetupCompleted(read, m)
  /\ cipher = IF done.status = "completed" /\ done.shared_secret # <<>>
              THEN cipher_new(2, done.shared_secret) ELSE AfterRead
  /\ Responds(url, pair_setup(read, m), cipher)

LEMMA SetupFirst ==
  ASSUME ChannelInv, Reads, client.pc = "setup1", NotPaired, control_cipher = None,
         setup_ctx = None, verify_ctx = None,
         wire = Plain("server", "pair-setup", client_setup_request1(client.kind)),
         handle_pair_setup
  PROVE  ChannelInv'
<1> DEFINE m == client_setup_request1(client.kind)
<1>1. Request = m /\ AfterRead = None /\ IsClient(client)
  BY DEF Request, Plain, AfterRead, ChannelInv
<1>2. m.State = 1 /\ (Has(m, "Flags") <=> client.kind = "transient")
  BY DEF client_setup_request1, Has
<1> HIDE DEF m
<1>3. PICK read, done, cipher :
        /\ read \in SetupRequest(server_setup_new, m)
        /\ SetupAnswer("pair-setup", read, done, m, cipher)
  BY <1>1, Zenon DEF handle_pair_setup, SetupAnswer
<1>4. UnderWay(read)
  <2> DEFINE first(salt, b) ==
               [server_setup_new EXCEPT !.is_transient = Has(m, "Flags"), !.salt = salt,
                  !.v = srp_verification_key(salt, ServerPin), !.b = b,
                  !.pkB = srp_verifier_B(srp_verification_key(salt, ServerPin), b)]
  <2>1. read \in server_setup_request1(server_setup_new, m)
    BY <1>2, <1>3 DEF SetupRequest
  <2>2. PICK salt \in Salts, b \in Exponents : read = first(salt, b)
    <3>1. server_setup_request1(server_setup_new, m)
            = {first(salt, b) : salt \in Salts, b \in Exponents}
      BY SMT DEF server_setup_request1
    <3> HIDE DEF first
    <3> QED  BY <2>1, <3>1
  <2>3. IsSetup(server_setup_new) /\ server_setup_new.status = "in_progress"
        /\ server_setup_new.shared_secret = <<>>
    BY DEF server_setup_new, IsSetup
  <2>4. /\ IsSetup(read) /\ read.status = "in_progress" /\ read.shared_secret = <<>>
        /\ read.is_transient = Has(m, "Flags")
    BY <2>2, <2>3 DEF IsSetup
  <2> QED  BY <1>2, <2>4 DEF UnderWay
<1>5. done = read
  BY <1>2, <1>3, <1>4 DEF SetupAnswer, SetupCompleted, UnderWay
<1>6. cipher = None
  BY <1>1, <1>3, <1>4, <1>5 DEF SetupAnswer, UnderWay
<1>7. pair_setup(read, m) = server_setup_response1(read)
  BY <1>2, <1>4 DEF pair_setup, UnderWay
<1>8. /\ wire' = Plain("client", "pair-setup", server_setup_response1(read))
      /\ control_cipher' = None /\ client' = client
  BY <1>3, <1>6, <1>7, PlainAnswer DEF SetupAnswer
<1>9. setup_ctx' = read /\ verify_ctx' = None
  BY <1>3, <1>5 DEF SetupAnswer
<1>10. NotPaired' /\ Setup1'
  BY <1>4, <1>8, <1>9 DEF NotPaired, Setup1, UnderWay, server_setup_response1
<1> QED  BY <1>1, <1>8, <1>10 DEF ChannelInv, IsClient

LEMMA SetupSecond ==
  ASSUME ChannelInv, Reads, client.pc = "setup2", NotPaired, control_cipher = None,
         UnderWay(setup_ctx), verify_ctx = None, Keyed(client.user),
         wire = Plain("server", "pair-setup", client_setup_request2(client.user)),
         handle_pair_setup
  PROVE  ChannelInv'
<1> DEFINE m   == client_setup_request2(client.user)
           ver == srp_verifier_new(setup_ctx.salt, setup_ctx.v, m.PublicKey, setup_ctx.b,
                                   setup_ctx.pkB)
<1>1. Request = m /\ AfterRead = None /\ IsClient(client)
  BY DEF Request, Plain, AfterRead, ChannelInv
<1>2. m.State = 3 /\ m.PublicKey = client.user.A /\ m.Proof = client.user.M
  BY DEF client_setup_request2
<1>3. setup_ctx # None
  BY DEF UnderWay, IsSetup, None
<1>4. ver # None => /\ ver.M = ver.M
                    /\ ver.H_AMK = calculate_H_AMK(m.PublicKey, ver.M, ver.session_key)
  BY DEF srp_verifier_new
<1> HIDE DEF m, ver
<1>5. PICK read, done, cipher :
        /\ read \in SetupRequest(setup_ctx, m)
        /\ SetupAnswer("pair-setup", read, done, m, cipher)
  BY <1>1, <1>3, Zenon DEF handle_pair_setup, SetupAnswer
<1>6. read = IF m.Proof = None THEN [setup_ctx EXCEPT !.status = "invalid"]
             ELSE IF ver = None THEN [setup_ctx EXCEPT !.status = "auth_failed"]
             ELSE IF ver.M # m.Proof
             THEN [setup_ctx EXCEPT !.verifier = ver, !.status = "auth_failed"]
             ELSE [setup_ctx EXCEPT !.verifier = ver, !.M2 = ver.H_AMK]
  <2>1. read \in server_setup_request2(setup_ctx, m)
    BY <1>2, <1>5 DEF SetupRequest
  <2> QED  BY <2>1, Zenon DEF server_setup_request2, ver
<1>7. IsClient(client)' /\ client' = client /\ verify_ctx' = None
      /\ wire' = Plain("client", "pair-setup", pair_setup(read, m))
      /\ control_cipher' = cipher /\ setup_ctx' = done
  <2>1. verify_ctx' = None /\ setup_ctx' = done  BY <1>5 DEF SetupAnswer
  <2>2. /\ client' = client /\ control_cipher' = cipher
        /\ wire' = Plain("client", "pair-setup", pair_setup(read, m))
    BY <1>5, PlainAnswer DEF SetupAnswer
  <2> QED  BY <1>1, <2>1, <2>2 DEF IsClient
<1>8. CASE m.Proof # None /\ ver # None /\ ver.M = m.Proof
  <2>1. read = [setup_ctx EXCEPT !.verifier = ver, !.M2 = ver.H_AMK]
    BY <1>6, <1>8
  <2>2. /\ UnderWay(read) /\ read.verifier = ver /\ read.M2 = ver.H_AMK
    BY <2>1 DEF UnderWay, IsSetup
  <2>3. pair_setup(read, m) = [State |-> 4, Proof |-> ver.H_AMK]
    BY <1>2, <2>2 DEF pair_setup, server_setup_response2, UnderWay
  <2>4. ver.H_AMK = calculate_H_AMK(client.user.A, client.user.M, ver.session_key)
    BY <1>2, <1>4, <1>8
  <2>5. client.user.M # None
    BY <1>2, <1>8
  <2>6. PICK K : K = ver.session_key
    OBVIOUS
  <2>7. wire' = Plain("client", "pair-setup",
          [State |-> 4, Proof |-> calculate_H_AMK(client'.user.A, client'.user.M, K)])
    BY <1>7, <2>6, <2>3, <2>4
  <2>8. CASE client.kind = "transient"
    <3>1. done = [read EXCEPT !.status = "completed", !.shared_secret = <<K>>]
      BY <1>2, <1>5, <2>6, <2>2, <2>8 DEF SetupAnswer, SetupCompleted, UnderWay
    <3>2. done.status = "completed" /\ done.shared_secret = <<K>>
      BY <2>2, <3>1 DEF UnderWay, IsSetup
    <3>3. cipher = cipher_new(2, <<K>>)
      BY <1>5, <3>2 DEF SetupAnswer
    <3>4. Proved(K)'
      <4>1. client'.user.M # None /\ client'.kind = "transient"  BY <1>7, <2>5, <2>8
      <4>2. control_cipher' = cipher_new(2, <<K>>)  BY <1>7, <3>3
      <4> QED  BY <4>1, <4>2, <2>7 DEF Proved
    <3>5. Setup2'
      BY <1>7, <3>4 DEF Setup2, Keyed
    <3>6. NotPaired'  BY <1>7 DEF NotPaired
    <3> QED  BY <1>7, <3>5, <3>6 DEF ChannelInv
  <2>9. CASE client.kind # "transient"
    <3>1. done = read
      BY <1>2, <1>5, <2>2, <2>9 DEF SetupAnswer, SetupCompleted, UnderWay
    <3>2. cipher = None
      BY <1>1, <1>5, <2>2, <3>1 DEF SetupAnswer, UnderWay
    <3>3. UnderWay(setup_ctx)'
      BY <1>7, <2>2, <3>1 DEF UnderWay, IsSetup
    <3>4. Proved(K)'
      <4>1. client'.user.M # None /\ client'.kind # "transient"  BY <1>7, <2>5, <2>9
      <4>2. control_cipher' = None  BY <1>7, <3>2
      <4> QED  BY <4>1, <4>2, <2>7, <3>3 DEF Proved
    <3>5. Setup2'
      BY <1>7, <3>4 DEF Setup2, Keyed
    <3>6. NotPaired'  BY <1>7 DEF NotPaired
    <3> QED  BY <1>7, <3>5, <3>6 DEF ChannelInv
  <2> QED  BY <2>8, <2>9
<1>9. CASE ~(m.Proof # None /\ ver # None /\ ver.M = m.Proof)
  <2>1. read.status \in {"invalid", "auth_failed"}
    BY <1>6, <1>9 DEF UnderWay, IsSetup
  <2>2. PairingFailure(pair_setup(read, m))
    BY <2>1 DEF pair_setup, PairingFailure, Has, Refused, server_auth_failed_response
  <2>3. Setup2'
    BY <1>7, <2>2 DEF Setup2, Keyed
  <2>4. NotPaired'  BY <1>7 DEF NotPaired
  <2> QED  BY <1>7, <2>3, <2>4 DEF ChannelInv
<1> QED  BY <1>8, <1>9

LEMMA SetupThird ==
  ASSUME ChannelInv, Reads, client.pc = "setup3", NotPaired, control_cipher = None,
         UnderWay(setup_ctx), verify_ctx = None, client.kind = "normal",
         wire = Plain("server", "pair-setup", client_setup_request3(client.user.session_key)),
         handle_pair_setup
  PROVE  ChannelInv'
<1> DEFINE m == client_setup_request3(client.user.session_key)
<1>1. Request = m /\ AfterRead = None /\ IsClient(client)
  BY DEF Request, Plain, AfterRead, ChannelInv
<1>2. m.State = 5
  BY DEF client_setup_request3
<1>3. setup_ctx # None
  BY DEF UnderWay, IsSetup, None
<1> HIDE DEF m
<1>4. PICK read, done, cipher :
        /\ read \in SetupRequest(setup_ctx, m)
        /\ SetupAnswer("pair-setup", read, done, m, cipher)
  BY <1>1, <1>3, Zenon DEF handle_pair_setup, SetupAnswer
<1>5. \/ read = [setup_ctx EXCEPT !.status = "invalid"]
      \/ read = [setup_ctx EXCEPT !.status = "auth_failed"]
      \/ read = setup_ctx
  <2>1. read \in server_setup_request3(setup_ctx, m)
    BY <1>2, <1>4 DEF SetupRequest
  <2> QED  BY <2>1, Zenon DEF server_setup_request3
<1>6. IsSetup(read) /\ read.shared_secret = <<>>
  BY <1>5 DEF UnderWay, IsSetup
<1>7. done.shared_secret = <<>>
  BY <1>2, <1>4, <1>6 DEF SetupAnswer, SetupCompleted, IsSetup
<1>8. cipher = None
  BY <1>1, <1>4, <1>7 DEF SetupAnswer
<1>9. verify_ctx' = None  BY <1>4 DEF SetupAnswer
<1>10. /\ client' = client /\ control_cipher' = None
       /\ wire' = Plain("client", "pair-setup", pair_setup(read, m))
  BY <1>4, <1>8, PlainAnswer DEF SetupAnswer
<1>11. NotPaired' /\ Setup3'
  BY <1>9, <1>10 DEF NotPaired, Setup3
<1> QED  BY <1>1, <1>10, <1>11 DEF ChannelInv, IsClient

LEMMA PairSetupStep ==
  ASSUME ChannelInv, handle_pair_setup
  PROVE  ChannelInv'
<1>1. Reads /\ wire # None /\ wire.to = "server" /\ wire.url = "pair-setup"
  BY DEF handle_pair_setup, Reads
<1>2. wire # Plain("server", "pair-verify", client_verify_request1)
      /\ wire # Plain("server", "pair-verify", client_verify_request2("server_eph", Secret))
  BY <1>1 DEF Plain
<1>3. \A m \in ChannelRequests : ~Ciphered("server", client.cipher, m, m.Method)
  <2>1. \A m \in ChannelRequests : m.Method # "pair-setup"
    BY DEF ChannelRequests
  <2> QED  BY <1>1, <2>1 DEF Ciphered
<1> QED
  BY <1>1, <1>2, <1>3, AtServer, SetupFirst, SetupSecond, SetupThird

LEMMA PairVerifyStep ==
  ASSUME ChannelInv, handle_pair_verify
  PROVE  ChannelInv'
<1>1. Reads /\ wire # None /\ wire.to = "server" /\ wire.url = "pair-verify"
  BY DEF handle_pair_verify, Reads
<1>2. \A m \in ChannelRequests : ~Ciphered("server", client.cipher, m, m.Method)
  <2>1. \A m \in ChannelRequests : m.Method # "pair-verify"
    BY DEF ChannelRequests
  <2> QED  BY <1>1, <2>1 DEF Ciphered
<1>3. \A body : wire # Plain("server", "pair-setup", body)
  BY <1>1 DEF Plain
<1>4. control_cipher = None /\ NotPaired /\ IsClient(client)
  BY <1>1, <1>2, <1>3, AtServer DEF ChannelInv
<1>5. Request = wire.body /\ AfterRead = None
  BY <1>4 DEF Request, AfterRead
<1> DEFINE ctx == IF verify_ctx = None THEN server_verify_new ELSE verify_ctx
<1>6. PICK r, cipher :
        /\ r = pair_verify(ctx, wire.body)
        /\ cipher = IF r.ctx.status = "completed" THEN cipher_new(2, r.ctx.result)
                    ELSE AfterRead
        /\ verify_ctx' = r.ctx /\ Responds("pair-verify", r.out, cipher)
  BY <1>5, Zenon DEF handle_pair_verify
<1>7. /\ wire' = Plain("client", "pair-verify", r.out) /\ control_cipher' = cipher
      /\ client' = client
  BY <1>1, <1>4, <1>6, PlainAnswer
<1>8. NotPaired' /\ IsClient(client)'
  BY <1>4, <1>7 DEF NotPaired, IsClient
<1>9. CASE /\ client.pc = "verify1" /\ verify_ctx = None
           /\ wire = Plain("server", "pair-verify", client_verify_request1)
  <2>1. wire.body.State = 1 /\ wire.body.PublicKey = "client_eph"
    BY <1>9 DEF Plain, client_verify_request1
  <2> DEFINE read == server_verify_request1(ctx, wire.body)
  <2>2. IsVerify(read) /\ read.status = "in_progress" /\ read.client_eph = "client_eph"
    BY <1>9, <2>1 DEF server_verify_request1, server_verify_new, IsVerify
  <2>3. r = server_verify_response1(read)
    BY <1>6, <2>1 DEF pair_verify
  <2> HIDE DEF read
  <2>4. r.ctx = [read EXCEPT !.shared_secret = <<crypto_scalarmult("server_eph", "client_eph")>>]
        /\ r.out.PublicKey = "server_eph"
    BY <2>2, <2>3 DEF server_verify_response1, IsVerify
  <2>5. crypto_scalarmult("server_eph", "client_eph") = Secret
    BY DEF crypto_scalarmult, Secret
  <2>6. Verifying(r.ctx)
    BY <2>2, <2>4, <2>5 DEF Verifying, IsVerify
  <2>7. control_cipher' = None
    BY <1>5, <1>6, <1>7, <2>6 DEF Verifying
  <2>8. Verify1'
    BY <1>6, <1>7, <2>4, <2>6, <2>7 DEF Verify1, Verifying, IsVerify
  <2> QED  BY <1>7, <1>8, <1>9, <2>8 DEF ChannelInv
<1>10. CASE /\ client.pc = "verify2" /\ Verifying(verify_ctx)
            /\ client.shared_secret = <<Secret>>
            /\ wire = Plain("server", "pair-verify",
                            client_verify_request2("server_eph", Secret))
  <2>1. wire.body.State = 3
    BY <1>10 DEF Plain, client_verify_request2
  <2>2. ctx = verify_ctx
    BY <1>10 DEF Verifying, IsVerify, None
  <2> DEFINE read == server_verify_request2(ctx, wire.body)
  <2>3. read = ctx \/ read = [ctx EXCEPT !.status = "invalid"]
    BY DEF server_verify_request2
  <2>4. r = IF read.status = "invalid" THEN [ctx |-> read, out |-> Refused]
            ELSE server_verify_response2(read)
    BY <1>6, <2>1 DEF pair_verify
  <2> HIDE DEF read
  <2>5. CASE read.status = "invalid"
    <3>1. r.out = Refused  BY <2>4, <2>5
    <3>2. Verify2'
      BY <1>7, <1>10, <3>1 DEF Verify2, PairingFailure, Refused, Has
    <3> QED  BY <1>7, <1>8, <1>10, <3>2 DEF ChannelInv
  <2>6. CASE read.status # "invalid"
    <3>1. read = verify_ctx
      BY <1>10, <2>2, <2>3, <2>6 DEF Verifying, IsVerify
    <3>2. r.ctx = [verify_ctx EXCEPT !.status = "completed",
                                     !.result = verify_ctx.shared_secret]
      BY <2>4, <2>6, <3>1 DEF server_verify_response2
    <3>3. r.ctx.status = "completed" /\ r.ctx.result = <<Secret>>
      BY <1>10, <3>2 DEF Verifying, IsVerify
    <3>4. control_cipher' = cipher_new(2, <<Secret>>)
      BY <1>6, <1>7, <3>3
    <3>5. Verify2'
      BY <1>7, <1>10, <3>4 DEF Verify2
    <3> QED  BY <1>7, <1>8, <1>10, <3>5 DEF ChannelInv
  <2> QED  BY <2>5, <2>6
<1> QED  BY <1>1, <1>2, <1>3, <1>9, <1>10, AtServer

\* The handlers of the ciphered channel all count alike.
LEMMA AnswerOnChannel ==
  ASSUME ChannelInv, Reads,
         wire.url \notin {"pair-setup", "pair-verify"},
         NEW url, NEW m, Responds(url, m, AfterRead)
  PROVE  ChannelInv' /\ client.pc = "channel" /\ wire' # None /\ wire'.to = "client"
<1> DEFINE c == client.cipher
           s == control_cipher
<1>1. wire # None /\ wire.to = "server" /\ client' = client
  BY DEF Reads
<1>2. \A to, body : /\ wire # Plain(to, "pair-setup", body)
                    /\ wire # Plain(to, "pair-verify", body)
  BY DEF Plain
<1>3. /\ client.pc = "channel" /\ Opposite(c, s)
      /\ c.encryption_counter = s.decryption_counter + 1
      /\ s.encryption_counter = c.decryption_counter
  BY <1>1, <1>2, AtServer
<1>4. s # None /\ is_encrypted' = TRUE
  BY <1>3, CipherIsSomething DEF Opposite, Reads
<1> DEFINE d == [s EXCEPT !.decryption_counter = s.decryption_counter + 1]
<1>5. AfterRead = d
  BY <1>4 DEF AfterRead
<1>6. /\ IsCipher(d) /\ d.out = s.out /\ d.in = s.in
      /\ d.encryption_counter = s.encryption_counter
      /\ d.decryption_counter = s.decryption_counter + 1
  BY <1>3 DEF Opposite, IsCipher
<1> HIDE DEF d
<1>7. d # None  BY <1>6, CipherIsSomething
<1>8. /\ wire' = Sent("client", url, m, d) /\ control_cipher' = Counted(d)
  BY <1>4, <1>5 DEF Responds, msg_write_response
<1>9. /\ IsCipher(Counted(d)) /\ Counted(d).out = s.out /\ Counted(d).in = s.in
      /\ Counted(d).encryption_counter = s.encryption_counter + 1
      /\ Counted(d).decryption_counter = s.decryption_counter + 1
  BY <1>6, CountedCipher
<1>10. wire' = [to |-> "client", url |-> url,
                body |-> encrypt_chacha(d.out, d.encryption_counter, m), ciphered |-> TRUE]
  BY <1>7, <1>8 DEF Sent
<1>11. Ciphered("client", control_cipher, m, url)'
  <2>1. s.encryption_counter \in Nat  BY <1>3 DEF Opposite, IsCipher
  <2>2. d.out = control_cipher'.out
        /\ d.encryption_counter = control_cipher'.encryption_counter - 1
    BY <1>6, <1>8, <1>9, <2>1
  <2> QED  BY <1>10, <2>2 DEF Ciphered
<1>12. Channel'
  <2>1. Opposite(client'.cipher, control_cipher')
    BY <1>1, <1>3, <1>8, <1>9 DEF Opposite
  <2>2. /\ client'.cipher.encryption_counter = control_cipher'.decryption_counter
        /\ control_cipher'.encryption_counter = client'.cipher.decryption_counter + 1
    BY <1>1, <1>3, <1>8, <1>9
  <2> QED  BY <1>11, <2>1, <2>2 DEF Channel
<1>13. IsClient(client)'  BY <1>1 DEF ChannelInv, IsClient
<1> QED  BY <1>1, <1>3, <1>10, <1>12, <1>13 DEF ChannelInv, None

LEMMA ChannelInvStep == ChannelInv /\ [PairingNext]_hvars => ChannelInv'
<1> SUFFICES ASSUME ChannelInv, [PairingNext]_hvars
             PROVE  ChannelInv'
  OBVIOUS
<1>1. CASE setup_step1_request    BY <1>1, Setup1RequestStep
<1>2. CASE setup_step1_response   BY <1>2, Setup1ResponseStep
<1>3. CASE setup_step2_response   BY <1>3, Setup2ResponseStep
<1>4. CASE setup_step3_response   BY <1>4, Setup3ResponseStep
<1>5. CASE verify_step1_response  BY <1>5, Verify1ResponseStep
<1>6. CASE verify_step2_response  BY <1>6, Verify2ResponseStep
<1>7. CASE \E m \in ChannelRequests : ClientAsks(m)
  BY <1>7, AskStep
<1>8. CASE ClientHears            BY <1>8, HearStep
<1>9. CASE handle_pair_setup      BY <1>9, PairSetupStep
<1>10. CASE handle_pair_verify    BY <1>10, PairVerifyStep
<1>11. CASE handle_options        BY <1>11, AnswerOnChannel DEF handle_options
<1>12. CASE handle_pair_add       BY <1>12, AnswerOnChannel DEF handle_pair_add
<1>13. CASE handle_pair_remove    BY <1>13, AnswerOnChannel DEF handle_pair_remove
<1>14. CASE handle_pair_list      BY <1>14, AnswerOnChannel DEF handle_pair_list
<1>15. CASE UNCHANGED hvars
  BY <1>15 DEF hvars, ChannelInv, IsClient, NotPaired, Starting, Setup1, Setup2, Setup3,
    Verify1, Verify2, Channel, UnderWay, IsSetup, Keyed, Proved, Verifying, IsVerify,
    Opposite, IsCipher, Ciphered
<1> QED
  BY <1>1, <1>2, <1>3, <1>4, <1>5, <1>6, <1>7, <1>8, <1>9, <1>10, <1>11, <1>12, <1>13,
     <1>14, <1>15 DEF PairingNext

\* Once pairing is complete the server has the cipher that reads what the client sends.
SameSecret ==
  client.completed => control_cipher # None /\ control_cipher.in = client.cipher.out

LEMMA ChannelIsInStep == ChannelInv => ChannelInStep /\ SameSecret
<1> SUFFICES ASSUME ChannelInv PROVE ChannelInStep /\ SameSecret
  OBVIOUS
<1>1. SameSecret
  BY CipherIsSomething DEF SameSecret, ChannelInv, NotPaired, Channel, Opposite
<1>2. ASSUME wire # None, wire.to = "server" PROVE Readable
  <2>1. \A url, body : wire = Plain("server", url, body) => ~wire.ciphered
    BY DEF Plain
  <2>2. CASE client.pc = "channel"
    <3>1. \A to, url, body : wire = Plain(to, url, body) => ~wire.ciphered
      BY DEF Plain
    <3>2. /\ Opposite(client.cipher, control_cipher)
          /\ client.cipher.encryption_counter = control_cipher.decryption_counter + 1
          /\ \E m \in ChannelRequests : Ciphered("server", client.cipher, m, m.Method)
      BY <1>2, <2>2, AtServer
    <3>3. /\ control_cipher # None /\ client.cipher.out = control_cipher.in
          /\ client.cipher.encryption_counter - 1 = control_cipher.decryption_counter
      BY <3>2, CipherIsSomething DEF Opposite, IsCipher
    <3> QED  BY <3>2, <3>3 DEF Readable, Ciphered, Decrypts, encrypt_chacha
  <2>3. CASE client.pc # "channel"
    <3>1. control_cipher = None /\ ~wire.ciphered
      BY <1>2, <2>1, <2>3, AtServer
    <3> QED  BY <3>1 DEF Readable
  <2> QED  BY <2>2, <2>3
<1>3. ASSUME wire # None, wire.to # "server"
      PROVE  /\ wire.ciphered <=> client.cipher # None
             /\ wire.ciphered => Decrypts(wire.body, client.cipher.in,
                                          client.cipher.decryption_counter)
  <2>1. CASE client.pc = "channel"
    <3>1. PICK m, url :
            /\ Ciphered("client", control_cipher, m, url)
            /\ Opposite(client.cipher, control_cipher)
            /\ control_cipher.encryption_counter = client.cipher.decryption_counter + 1
      <4>1. \A m \in ChannelRequests : ~Ciphered("server", client.cipher, m, m.Method)
        BY <1>3 DEF Ciphered
      <4> QED  BY <1>3, <2>1, <4>1 DEF ChannelInv, Channel
    <3>2. /\ client.cipher # None /\ control_cipher.out = client.cipher.in
          /\ control_cipher.encryption_counter - 1 = client.cipher.decryption_counter
      BY <3>1, CipherIsSomething DEF Opposite, IsCipher
    <3> QED  BY <3>1, <3>2 DEF Ciphered, Decrypts, encrypt_chacha
  <2>2. CASE client.pc # "channel"
    <3>1. NotPaired /\ \E to, url, body : wire = Plain(to, url, body)
      BY <1>3, <2>2 DEF ChannelInv, Starting, Setup1, Setup2, Setup3, Verify1, Verify2, Proved
    <3> QED  BY <3>1 DEF NotPaired, Plain
  <2> QED  BY <2>1, <2>2
<1> QED  BY <1>1, <1>2, <1>3 DEF ChannelInStep

(* The list of pairings. *)

Entries == [device_id : Devices, public_key : SignKeys]

\* A list with one entry for each device, the ones expected with the keys expected.
Keeps(list, exp) ==
  /\ list \in Seq(Entries)
  /\ \A i, j \in 1..Len(list) : list[i].device_id = list[j].device_id => i = j
  /\ \A d : d \in DOMAIN exp <=> \E i \in 1..Len(list) : list[i].device_id = d
  /\ \A i \in 1..Len(list) : exp[list[i].device_id] = list[i].public_key

\* pairing_find gives the place of a device's entry.
LEMMA FoundInList ==
  ASSUME NEW list, NEW exp, Keeps(list, exp), NEW id
  PROVE  /\ pairing_find(list, id) = 0 => \A j \in 1..Len(list) : list[j].device_id # id
         /\ pairing_find(list, id) # 0 => /\ pairing_find(list, id) \in 1..Len(list)
                                          /\ list[pairing_find(list, id)].device_id = id
<1> DEFINE I == {i \in 1..Len(list) : list[i].device_id = id}
<1>1. pairing_find(list, id) = IF I # {} THEN Min(I) ELSE 0
  BY DEF pairing_find, SelectInSeq
<1>2. CASE I = {}
  BY <1>1, <1>2
<1>3. CASE I # {}
  <2>1. PICK i \in I : TRUE  BY <1>3
  <2>2. I = {i}  BY <2>1 DEF Keeps
  <2>3. i \in 1..Len(list) /\ list[i].device_id = id /\ i <= i /\ i # 0
    BY <2>1 DEF Keeps
  <2> HIDE DEF I
  <2>4. Min(I) = i  BY <2>2, <2>3 DEF Min
  <2> QED  BY <1>1, <1>3, <2>3, <2>4
<1> QED  BY <1>2, <1>3

\* pair-add: the device's entry gets the new key, or a new entry comes first.
LEMMA AddKeeps ==
  ASSUME NEW list, NEW exp, Keeps(list, exp), NEW id \in Devices, NEW key \in SignKeys
  PROVE  Keeps(pairing_add_cb(list, key, id),
               [d \in DOMAIN exp \cup {id} |-> IF d = id THEN key ELSE exp[d]])
<1> DEFINE n    == pairing_find(list, id)
           new  == pairing_add_cb(list, key, id)
           news == [d \in DOMAIN exp \cup {id} |-> IF d = id THEN key ELSE exp[d]]
<1>1. list \in Seq(Entries) /\ Len(list) \in Nat /\ DOMAIN list = 1..Len(list)
      /\ \A i \in 1..Len(list) : list[i] \in Entries
  BY DEF Keeps
<1>2. CASE n # 0
  <2>1. new = [list EXCEPT ![n].public_key = key]
    BY <1>2 DEF pairing_add_cb
  <2>2. n \in 1..Len(list) /\ list[n].device_id = id
    BY <1>2, FoundInList
  <2> HIDE DEF n
  <2>3. \A e \in Entries : /\ [e EXCEPT !.public_key = key] \in Entries
                           /\ [e EXCEPT !.public_key = key].device_id = e.device_id
                           /\ [e EXCEPT !.public_key = key].public_key = key
    BY DEF Entries
  <2>4. new = [list EXCEPT ![n] = [list[n] EXCEPT !.public_key = key]]
    BY <2>1
  <2> DEFINE e == [list[n] EXCEPT !.public_key = key]
  <2>5. e \in Entries /\ e.device_id = id /\ e.public_key = key
    BY <1>1, <2>2, <2>3
  <2> HIDE DEF e, new
  <2>6. new = [list EXCEPT ![n] = e]
    BY <2>4 DEF e
  <2>7. /\ new \in Seq(Entries) /\ Len(new) = Len(list) /\ new[n] = e
        /\ \A i \in 1..Len(list) : i # n => new[i] = list[i]
    BY <1>1, <2>2, <2>5, <2>6
  <2>8. \A i \in 1..Len(list) : new[i].device_id = list[i].device_id
    BY <2>2, <2>5, <2>7
  <2>9. \A i, j \in 1..Len(new) : new[i].device_id = new[j].device_id => i = j
    BY <2>7, <2>8 DEF Keeps
  <2>10. \A d : d \in DOMAIN news <=> \E i \in 1..Len(new) : new[i].device_id = d
    BY <2>2, <2>7, <2>8 DEF Keeps
  <2>11. \A i \in 1..Len(new) : news[new[i].device_id] = new[i].public_key
    <3> TAKE i \in 1..Len(new)
    <3>1. CASE i = n  BY <2>2, <2>5, <2>7, <3>1
    <3>2. CASE i # n
      <4>1. /\ i \in 1..Len(list) /\ new[i] = list[i] /\ list[i].device_id # id
            /\ list[i].device_id \in DOMAIN exp /\ exp[list[i].device_id] = list[i].public_key
        BY <2>2, <2>7, <3>2 DEF Keeps
      <4> QED  BY <4>1
    <3> QED  BY <3>1, <3>2
  <2> QED  BY <2>7, <2>9, <2>10, <2>11 DEF Keeps, new
<1>3. CASE n = 0
  <2> DEFINE e == [device_id |-> id, public_key |-> key]
  <2>1. new = <<e>> \o list
    BY <1>3 DEF pairing_add_cb
  <2>2. \A i \in 1..Len(list) : list[i].device_id # id
    BY <1>3, FoundInList
  <2>3. e \in Entries /\ e.device_id = id /\ e.public_key = key
    BY DEF Entries
  <2> HIDE DEF n, e, new
  <2>4. /\ new \in Seq(Entries) /\ Len(new) = Len(list) + 1 /\ new[1] = e
        /\ \A i \in 2..Len(new) : i - 1 \in 1..Len(list) /\ new[i] = list[i - 1]
        /\ \A i \in 1..Len(list) : i + 1 \in 2..Len(new) /\ new[i + 1] = list[i]
    BY <1>1, <2>1, <2>3
  <2>5. \A i \in 1..Len(new) : i = 1 \/ i \in 2..Len(new)
    BY <1>1, <2>4
  <2>6. \A i, j \in 1..Len(new) : new[i].device_id = new[j].device_id => i = j
    <3> SUFFICES ASSUME NEW i \in 1..Len(new), NEW j \in 1..Len(new),
                        new[i].device_id = new[j].device_id
                 PROVE  i = j
      OBVIOUS
    <3>1. CASE i = 1 \/ j = 1
      BY <2>2, <2>3, <2>4, <2>5, <3>1
    <3>2. CASE i # 1 /\ j # 1
      <4>1. /\ i - 1 \in 1..Len(list) /\ j - 1 \in 1..Len(list)
            /\ list[i - 1].device_id = list[j - 1].device_id
        BY <2>4, <2>5, <3>2
      <4>2. i - 1 = j - 1  BY <4>1 DEF Keeps
      <4> QED  BY <4>2
    <3> QED  BY <3>1, <3>2
  <2>7. \A d : d \in DOMAIN news <=> \E i \in 1..Len(new) : new[i].device_id = d
    <3> TAKE d
    <3>1. CASE d = id
      <4>1. 1 \in 1..Len(new)  BY <1>1, <2>4
      <4> QED  BY <2>3, <2>4, <3>1, <4>1
    <3>2. CASE d # id
      <4>1. d \in DOMAIN news <=> \E i \in 1..Len(list) : list[i].device_id = d
        BY <3>2 DEF Keeps
      <4>2. \A i \in 1..Len(list) : i + 1 \in 1..Len(new)
        BY <1>1, <2>4
      <4>3. (\E i \in 1..Len(list) : list[i].device_id = d)
              => \E i \in 1..Len(new) : new[i].device_id = d
        BY <2>4, <4>2
      <4>4. (\E i \in 1..Len(new) : new[i].device_id = d)
              => \E i \in 1..Len(list) : list[i].device_id = d
        BY <2>3, <2>4, <2>5, <3>2
      <4> QED  BY <4>1, <4>3, <4>4
    <3> QED  BY <3>1, <3>2
  <2>8. \A i \in 1..Len(new) : news[new[i].device_id] = new[i].public_key
    <3> TAKE i \in 1..Len(new)
    <3>1. CASE i = 1  BY <2>3, <2>4, <3>1
    <3>2. CASE i # 1
      <4>1. i - 1 \in 1..Len(list) /\ new[i] = list[i - 1]
        BY <2>4, <2>5, <3>2
      <4>2. /\ list[i - 1].device_id # id /\ list[i - 1].device_id \in DOMAIN exp
            /\ exp[list[i - 1].device_id] = list[i - 1].public_key
        BY <2>2, <4>1 DEF Keeps
      <4> QED  BY <4>1, <4>2
    <3> QED  BY <3>1, <3>2
  <2> QED  BY <2>4, <2>6, <2>7, <2>8 DEF Keeps, new
<1> QED  BY <1>2, <1>3

\* pair-remove: the device's entry goes, whatever its place.
LEMMA RemoveKeeps ==
  ASSUME NEW list, NEW exp, Keeps(list, exp), NEW id
  PROVE  Keeps(pairing_remove_cb(list, id), [d \in DOMAIN exp \ {id} |-> exp[d]])
<1> DEFINE n    == pairing_find(list, id)
           new  == pairing_remove_cb(list, id)
           news == [d \in DOMAIN exp \ {id} |-> exp[d]]
<1>1. list \in Seq(Entries) /\ Len(list) \in Nat
      /\ \A i \in 1..Len(list) : list[i] \in Entries
  BY DEF Keeps
<1>2. CASE n # 0
  <2>1. new = SubSeq(list, 1, n - 1) \o SubSeq(list, n + 1, Len(list))
    BY <1>2 DEF pairing_remove_cb, RemoveAt
  <2>2. n \in 1..Len(list) /\ list[n].device_id = id
    BY <1>2, FoundInList
  <2> HIDE DEF n
  <2> DEFINE a == SubSeq(list, 1, n - 1)
             b == SubSeq(list, n + 1, Len(list))
             old(i) == IF i < n THEN i ELSE i + 1
  <2>3. /\ a \in Seq(Entries) /\ b \in Seq(Entries)
        /\ Len(a) = n - 1 /\ Len(b) = Len(list) - n
        /\ \A i \in 1..(n - 1) : a[i] = list[i]
        /\ \A i \in 1..(Len(list) - n) : b[i] = list[n + i]
    BY <1>1, <2>2
  <2> HIDE DEF a, b
  <2>4. new \in Seq(Entries) /\ Len(new) = Len(list) - 1
    <3>1. new = a \o b  BY <2>1 DEF a, b
    <3>2. Len(a \o b) = Len(list) - 1
      <4>1. Len(a \o b) = Len(a) + Len(b)  BY <2>3
      <4> QED  BY <1>1, <2>2, <2>3, <4>1
    <3> HIDE DEF new
    <3> QED  BY <2>3, <3>1, <3>2
  <2>5. \A i \in 1..Len(new) : old(i) \in 1..Len(list) /\ old(i) # n /\ new[i] = list[old(i)]
    <3> SUFFICES ASSUME NEW i \in 1..Len(new)
                 PROVE  old(i) \in 1..Len(list) /\ old(i) # n /\ new[i] = list[old(i)]
      OBVIOUS
    <3>1. new = a \o b  BY <2>1 DEF a, b
    <3> HIDE DEF new
    <3>2. CASE i < n
      <4>1. i \in 1..(n - 1)  BY <1>1, <2>2, <2>4, <3>2
      <4>2. (a \o b)[i] = a[i]  BY <2>3, <4>1
      <4> QED  BY <1>1, <2>2, <2>3, <3>1, <3>2, <4>1, <4>2
    <3>3. CASE i >= n
      <4>1. i - (n - 1) \in 1..(Len(list) - n)  BY <1>1, <2>2, <2>4, <3>3
      <4>2. (a \o b)[i] = b[i - (n - 1)]
        <5>1. i \in 1..(Len(a) + Len(b)) /\ ~(i <= Len(a))
          BY <1>1, <2>2, <2>3, <2>4, <3>3
        <5>2. (a \o b)[i] = IF i <= Len(a) THEN a[i] ELSE b[i - Len(a)]
          BY <2>3, <5>1, ConcatProperties
        <5> QED  BY <2>3, <5>1, <5>2
      <4>3. n + (i - (n - 1)) = i + 1  BY <1>1, <2>2, <2>4
      <4> QED  BY <1>1, <2>2, <2>3, <2>4, <3>1, <3>3, <4>1, <4>2, <4>3
    <3> QED  BY <1>1, <2>2, <2>4, <3>2, <3>3
  <2> HIDE DEF new
  <2>6. \A i, j \in 1..Len(new) : old(i) = old(j) => i = j
    BY <2>2, <2>4
  <2>7. \A i \in 1..Len(list) : i # n => \E j \in 1..Len(new) : old(j) = i
    <3> SUFFICES ASSUME NEW i \in 1..Len(list), i # n
                 PROVE  \E j \in 1..Len(new) : old(j) = i
      OBVIOUS
    <3>1. CASE i < n
      <4>1. i \in 1..Len(new) /\ old(i) = i  BY <1>1, <2>2, <2>4, <3>1
      <4> QED  BY <4>1
    <3>2. CASE i > n
      <4>1. i - 1 \in 1..Len(new) /\ old(i - 1) = i  BY <1>1, <2>2, <2>4, <3>2
      <4> QED  BY <4>1
    <3> QED  BY <2>2, <3>1, <3>2
  <2> HIDE DEF old
  <2>8. \A i, j \in 1..Len(new) : new[i].device_id = new[j].device_id => i = j
    BY <2>5, <2>6 DEF Keeps
  <2>9. \A i \in 1..Len(list) : i # n => list[i].device_id # id
    BY <2>2 DEF Keeps
  <2>10. \A d : d \in DOMAIN news <=> \E i \in 1..Len(new) : new[i].device_id = d
    <3> TAKE d
    <3>1. d \in DOMAIN news <=> d # id /\ \E i \in 1..Len(list) : list[i].device_id = d
      BY DEF Keeps
    <3>2. (\E i \in 1..Len(new) : new[i].device_id = d) => d \in DOMAIN news
      BY <2>5, <2>9, <3>1
    <3>3. d \in DOMAIN news => \E i \in 1..Len(new) : new[i].device_id = d
      <4> SUFFICES ASSUME d \in DOMAIN news
                   PROVE  \E i \in 1..Len(new) : new[i].device_id = d
        OBVIOUS
      <4>1. PICK i \in 1..Len(list) : list[i].device_id = d /\ i # n
        BY <2>2, <3>1
      <4>2. PICK j \in 1..Len(new) : old(j) = i  BY <2>7, <4>1
      <4> QED  BY <2>5, <4>1, <4>2
    <3> QED  BY <3>2, <3>3
  <2>11. \A i \in 1..Len(new) : news[new[i].device_id] = new[i].public_key
    <3> TAKE i \in 1..Len(new)
    <3>1. /\ old(i) \in 1..Len(list) /\ new[i] = list[old(i)]
          /\ list[old(i)].device_id # id
      BY <2>5, <2>9
    <3>2. /\ list[old(i)].device_id \in DOMAIN exp
          /\ exp[list[old(i)].device_id] = list[old(i)].public_key
      BY <3>1 DEF Keeps
    <3> QED  BY <3>1, <3>2
  <2> QED  BY <2>4, <2>8, <2>10, <2>11 DEF Keeps, new
<1>3. CASE n = 0
  <2>1. new = list  BY <1>3 DEF pairing_remove_cb
  <2>2. \A i \in 1..Len(list) : list[i].device_id # id
    BY <1>3, FoundInList
  <2>3. \A d : d \in DOMAIN news <=> d \in DOMAIN exp
    BY <2>2 DEF Keeps
  <2>4. \A i \in 1..Len(list) : news[list[i].device_id] = list[i].public_key
    BY <2>2, <2>3 DEF Keeps
  <2> HIDE DEF new, news
  <2>5. Keeps(list, news)  BY <2>3, <2>4 DEF Keeps
  <2> QED  BY <2>1, <2>5 DEF new, news
<1> QED  BY <1>2, <1>3

\* A list that keeps what is expected has as many entries as devices are expected.
LEMMA KeepsIsCurrent ==
  ASSUME NEW list, NEW exp, Keeps(list, exp)
  PROVE  /\ Len(list) = Cardinality(DOMAIN exp)
         /\ \A i \in DOMAIN list : /\ list[i].device_id \in DOMAIN exp
                                   /\ exp[list[i].device_id] = list[i].public_key
<1>1. Len(list) \in Nat /\ DOMAIN list = 1..Len(list)
  BY DEF Keeps
<1> DEFINE ids == [i \in 1..Len(list) |-> list[i].device_id]
<1>2. ids \in Bijection(1..Len(list), DOMAIN exp)
  <2>1. ids \in Injection(1..Len(list), DOMAIN exp)
    BY DEF Keeps, Injection, IsInjective
  <2>2. ids \in Surjection(1..Len(list), DOMAIN exp)
    BY DEF Keeps, Surjection
  <2> QED  BY <2>1, <2>2 DEF Bijection
<1>3. /\ IsFiniteSet(1..Len(list)) /\ Cardinality(1..Len(list)) = Len(list)
  <2>1. 1 \in Int /\ Len(list) \in Int  BY <1>1
  <2>2. /\ IsFiniteSet(1..Len(list))
        /\ Cardinality(1..Len(list)) = IF 1 > Len(list) THEN 0 ELSE Len(list) - 1 + 1
    BY <2>1, FS_Interval
  <2> QED  BY <1>1, <2>2
<1>4. ExistsBijection(1..Len(list), DOMAIN exp)
  BY <1>2 DEF ExistsBijection
<1>5. Cardinality(DOMAIN exp) = Len(list)
  BY <1>3, <1>4, FS_Bijection
<1> QED  BY <1>1, <1>5 DEF Keeps

\* What the server's list is to be once it has handled the request m.
Applied(m, list) ==
  IF m.Method = "pair-add" THEN pairing_add_cb(list, m.PublicKey, m.Identifier)
  ELSE IF m.Method = "pair-remove" THEN pairing_remove_cb(list, m.Identifier)
  ELSE list

\* The request under way on the channel, if any, makes the list what is expected.
ListInv ==
  IF client.pc = "channel" /\ wire # None /\ wire.to = "server"
  THEN Keeps(Applied(wire.body.plain, pairings), expected)
  ELSE Keeps(pairings, expected)

LEMMA ListInvInit == PairingInit => ListInv
<1> SUFFICES ASSUME PairingInit PROVE ListInv
  OBVIOUS
<1>1. /\ wire = None /\ pairings = <<>> /\ expected = <<>>
  BY DEF PairingInit
<1>2. <<>> \in Seq(Entries) /\ Len(<<>>) = 0 /\ DOMAIN <<>> = {}
  BY EmptySeq
<1>3. Keeps(<<>>, <<>>)
  BY <1>2 DEF Keeps
<1> QED  BY <1>1, <1>3 DEF ListInv

\* While the ends pair, the list stands still.
LEMMA ListStands ==
  ASSUME ChannelInv, ChannelInv', ListInv, UNCHANGED <<pairings, expected>>,
         client.pc # "channel",
         wire' = None \/ \E to, url, body : wire' = Plain(to, url, body)
  PROVE  ListInv'
<1>1. ~(client'.pc = "channel" /\ wire' # None /\ wire'.to = "server")
  <2> SUFFICES ASSUME client'.pc = "channel", wire' # None, wire'.to = "server"
               PROVE  FALSE
    OBVIOUS
  <2>1. ~wire'.ciphered  BY DEF Plain
  <2>2. wire'.ciphered   BY DEF ChannelInv, Channel, Ciphered
  <2> QED  BY <2>1, <2>2
<1> QED  BY <1>1 DEF ListInv

LEMMA ListOnAsk ==
  ASSUME ChannelInv, ListInv, NEW m \in ChannelRequests, ClientAsks(m)
  PROVE  ListInv'
<1>1. /\ Keeps(pairings, expected) /\ pairings' = pairings
  BY DEF ListInv, ClientAsks, serverContexts
<1>2. wire'.body.plain = m
  <2>1. client.cipher # None
    BY CipherIsSomething DEF ClientAsks, ChannelInv, Channel, Opposite
  <2> QED  BY <2>1 DEF ClientAsks, SendsRequest, Sent, encrypt_chacha
<1>3. Keeps(Applied(m, pairings), expected')
  <2>1. CASE m.Method = "pair-add"
    <3>1. m.Identifier \in Devices /\ m.PublicKey \in SignKeys
      BY <2>1 DEF ChannelRequests
    <3>2. expected' = [d \in DOMAIN expected \cup {m.Identifier} |->
                         IF d = m.Identifier THEN m.PublicKey ELSE expected[d]]
      BY <2>1 DEF ClientAsks
    <3> QED  BY <1>1, <2>1, <3>1, <3>2, AddKeeps DEF Applied
  <2>2. CASE m.Method = "pair-remove"
    <3>1. expected' = [d \in DOMAIN expected \ {m.Identifier} |-> expected[d]]
      BY <2>2 DEF ClientAsks
    <3> QED  BY <1>1, <2>2, <3>1, RemoveKeeps DEF Applied
  <2>3. CASE m.Method \notin {"pair-add", "pair-remove"}
    <3>1. expected' = expected  BY <2>3 DEF ClientAsks
    <3> QED  BY <1>1, <2>3, <3>1 DEF Applied
  <2> QED  BY <2>1, <2>2, <2>3
<1>4. CASE client'.pc = "channel" /\ wire' # None /\ wire'.to = "server"
  BY <1>1, <1>2, <1>3, <1>4 DEF ListInv
<1>5. wire' # None /\ wire'.to = "server"
  BY DEF ClientAsks, SendsRequest, Sent, None
<1>6. client'.pc = "channel"
  <2>1. IsClient(client) /\ client.pc = "channel"
        /\ client' = [client EXCEPT !.cipher = Counted(client.cipher)]
    BY DEF ClientAsks, ChannelInv
  <2> QED  BY <2>1 DEF IsClient
<1> QED  BY <1>4, <1>5, <1>6

\* The server's handling of a request on the channel is what was expected of it.
LEMMA ListOnAnswer ==
  ASSUME ChannelInv, ListInv, Reads, wire.url \notin {"pair-setup", "pair-verify"},
         wire' # None /\ wire'.to = "client",
         wire.url = Request.Method /\ Request \in ChannelRequests =>
           pairings' = Applied(Request, pairings)
  PROVE  ListInv'
<1>1. wire # None /\ wire.to = "server" /\ UNCHANGED <<client, expected>>
  BY DEF Reads
<1>2. \A to, body : /\ wire # Plain(to, "pair-setup", body)
                    /\ wire # Plain(to, "pair-verify", body)
  BY DEF Plain
<1>3. PICK m \in ChannelRequests :
        /\ client.pc = "channel" /\ Opposite(client.cipher, control_cipher)
        /\ Ciphered("server", client.cipher, m, m.Method)
  BY <1>1, <1>2, AtServer
<1>4. Request = m /\ wire.body.plain = m /\ wire.url = m.Method
  BY <1>3, CipherIsSomething DEF Request, Ciphered, encrypt_chacha, Opposite
<1>5. pairings' = Applied(m, pairings)
  BY <1>4
<1>6. Keeps(Applied(m, pairings), expected)
  BY <1>1, <1>3, <1>4 DEF ListInv
<1> QED  BY <1>1, <1>5, <1>6 DEF ListInv

LEMMA ListInvStep == ChannelInv /\ ListInv /\ [PairingNext]_hvars => ListInv'
<1> SUFFICES ASSUME ChannelInv, ListInv, [PairingNext]_hvars
             PROVE  ListInv'
  OBVIOUS
<1>1. ChannelInv'  BY ChannelInvStep
<1>2. client.pc \in {"start", "setup1", "setup2", "setup3", "verify1", "verify2"} =>
        client.cipher = None
  BY DEF ChannelInv, NotPaired
<1> DEFINE Quiet == wire' = None \/ \E to, url, body : wire' = Plain(to, url, body)
<1>3. CASE setup_step1_request
  <2>1. Quiet
    BY <1>2, <1>3, SentPlain DEF setup_step1_request, SendsRequest
  <2> QED  BY <1>1, <1>3, <2>1, ListStands DEF setup_step1_request, serverContexts
<1>4. CASE setup_step1_response
  <2>1. wire' = None \/ \E url, body : wire' = Sent("server", url, body, client.cipher)
    BY <1>4, Zenon DEF setup_step1_response, SendsRequest, GivesUp
  <2>2. Quiet
    <3>1. client.cipher = None  BY <1>2, <1>4 DEF setup_step1_response
    <3> QED  BY <2>1, <3>1, SentPlain
  <2> QED  BY <1>1, <1>4, <2>2, ListStands DEF setup_step1_response, serverContexts
<1>5. CASE setup_step2_response
  <2>1. wire' = None \/ \E url, body : wire' = Sent("server", url, body, client.cipher)
    BY <1>5, Zenon DEF setup_step2_response, SendsRequest, GivesUp
  <2>2. Quiet  BY <1>2, <1>5, <2>1, SentPlain DEF setup_step2_response
  <2> QED  BY <1>1, <1>5, <2>2, ListStands DEF setup_step2_response, serverContexts
<1>6. CASE setup_step3_response
  <2>1. wire' = None \/ \E url, body : wire' = Sent("server", url, body, client.cipher)
    BY <1>6, Zenon DEF setup_step3_response, SendsRequest, GivesUp
  <2>2. Quiet  BY <1>2, <1>6, <2>1, SentPlain DEF setup_step3_response
  <2> QED  BY <1>1, <1>6, <2>2, ListStands DEF setup_step3_response, serverContexts
<1>7. CASE verify_step1_response
  <2>1. wire' = None \/ \E url, body : wire' = Sent("server", url, body, client.cipher)
    BY <1>7, Zenon DEF verify_step1_response, SendsRequest, GivesUp
  <2>2. Quiet  BY <1>2, <1>7, <2>1, SentPlain DEF verify_step1_response
  <2> QED  BY <1>1, <1>7, <2>2, ListStands DEF verify_step1_response, serverContexts
<1>8. CASE verify_step2_response
  <2>1. Quiet
    BY <1>8, Zenon DEF verify_step2_response, GivesUp
  <2> QED  BY <1>1, <1>8, <2>1, ListStands DEF verify_step2_response, serverContexts
<1>9. CASE \E m \in ChannelRequests : ClientAsks(m)
  BY <1>9, ListOnAsk
<1>10. CASE ClientHears
  <2>1. Keeps(pairings, expected)  BY <1>10 DEF ListInv, ClientHears
  <2> QED  BY <1>10, <2>1 DEF ClientHears, ListInv, serverContexts
<1>11. CASE handle_pair_setup
  <2>1. Reads /\ wire.url = "pair-setup" /\ UNCHANGED <<pairings, expected, client>>
    BY <1>11 DEF handle_pair_setup, Reads
  <2>2. client.pc # "channel"
    <3>1. \A m \in ChannelRequests : m.Method # "pair-setup"
      BY DEF ChannelRequests
    <3>2. \A m \in ChannelRequests : ~Ciphered("server", client.cipher, m, m.Method)
      BY <2>1, <3>1 DEF Ciphered
    <3> QED  BY <2>1, <3>2, AtServer DEF Reads
  <2> QED  BY <2>1, <2>2 DEF ListInv
<1>12. CASE handle_pair_verify
  <2>1. Reads /\ wire.url = "pair-verify" /\ UNCHANGED <<pairings, expected, client>>
    BY <1>12 DEF handle_pair_verify, Reads
  <2>2. client.pc # "channel"
    <3>1. \A m \in ChannelRequests : m.Method # "pair-verify"
      BY DEF ChannelRequests
    <3>2. \A m \in ChannelRequests : ~Ciphered("server", client.cipher, m, m.Method)
      BY <2>1, <3>1 DEF Ciphered
    <3> QED  BY <2>1, <3>2, AtServer DEF Reads
  <2> QED  BY <2>1, <2>2 DEF ListInv
<1>13. CASE handle_options
  <2>1. wire' # None /\ wire'.to = "client"
    BY <1>13, AnswerOnChannel DEF handle_options
  <2>2. wire.url = Request.Method => pairings' = Applied(Request, pairings)
    BY <1>13 DEF handle_options, Applied
  <2> QED  BY <1>13, <2>1, <2>2, ListOnAnswer DEF handle_options
<1>14. CASE handle_pair_add
  <2>1. wire' # None /\ wire'.to = "client"
    BY <1>14, AnswerOnChannel DEF handle_pair_add
  <2>2. wire.url = Request.Method => pairings' = Applied(Request, pairings)
    BY <1>14 DEF handle_pair_add, Applied
  <2> QED  BY <1>14, <2>1, <2>2, ListOnAnswer DEF handle_pair_add
<1>15. CASE handle_pair_remove
  <2>1. wire' # None /\ wire'.to = "client"
    BY <1>15, AnswerOnChannel DEF handle_pair_remove
  <2>2. wire.url = Request.Method => pairings' = Applied(Request, pairings)
    BY <1>15 DEF handle_pair_remove, Applied
  <2> QED  BY <1>15, <2>1, <2>2, ListOnAnswer DEF handle_pair_remove
<1>16. CASE handle_pair_list
  <2>1. wire' # None /\ wire'.to = "client"
    BY <1>16, AnswerOnChannel DEF handle_pair_list
  <2>2. wire.url = Request.Method => pairings' = Applied(Request, pairings)
    BY <1>16 DEF handle_pair_list, Applied
  <2> QED  BY <1>16, <2>1, <2>2, ListOnAnswer DEF handle_pair_list
<1>17. CASE UNCHANGED hvars
  BY <1>17 DEF hvars, ListInv
<1> QED
  BY <1>3, <1>4, <1>5, <1>6, <1>7, <1>8, <1>9, <1>10, <1>11, <1>12, <1>13, <1>14, <1>15,
     <1>16, <1>17 DEF PairingNext

\* What rests on the arithmetic of SRP: the client whose PIN is the server's gets in, but
\* for a zero hash, and no other does.
RightOneGetsIn ==
  /\ client.pc = "failed" => \/ client.pin # ServerPin
                              \/ (client.user # None /\ client.user.M = None)
  /\ client.completed => client.pin = ServerPin

\* For any PINs, salts, exponents and controllers, and however pairing goes: what is on
\* the wire can be read by the end it is sent to, the two ends of a completed pairing
\* have the same secret, and the server's list of pairings is what the controllers made
\* it (handle_pair_setup, handle_pair_verify, pairing_add, pairing_remove).  So pairing is
\* as both ends agree, as far as the arithmetic of SRP, which only the run checks, lets
\* the right client in.
THEOREM PairedEndsAgree ==
  PairingSpec =>
    [](ChannelInStep /\ SameSecret /\ PairingsAreCurrent
         /\ (RightOneGetsIn => PairedAsAgreed))
<1>1. ListInv => PairingsAreCurrent
  <2> SUFFICES ASSUME ListInv, wire = None \/ wire.to = "client"
               PROVE  /\ Len(pairings) = Cardinality(DOMAIN expected)
                      /\ \A i \in DOMAIN pairings :
                           /\ pairings[i].device_id \in DOMAIN expected
                           /\ expected[pairings[i].device_id] = pairings[i].public_key
    BY DEF PairingsAreCurrent
  <2>1. Keeps(pairings, expected)  BY DEF ListInv
  <2> QED  BY <2>1, KeepsIsCurrent
<1>2. ChannelInStep /\ SameSecret /\ PairingsAreCurrent /\ RightOneGetsIn => PairedAsAgreed
  BY DEF SameSecret, RightOneGetsIn, RightPinPairs, PairedAsAgreed
<1> QED
  BY <1>1, <1>2, ChannelInvInit, ChannelInvStep, ChannelIsInStep, ListInvInit, ListInvStep, PTL
  DEF PairingSpec
=============================================================================
