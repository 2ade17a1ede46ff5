--------------------------- MODULE ActivityMonitor ---------------------------
(***************************************************************************)
(* The activity monitor (src/src/activity_monitor.c): whether the program  *)
(* is "active", which outlasts play by active_state_timeout, and the hooks *)
(* run when that changes: the abeg and aend messages and the decision to   *)
(* keep the DAC busy (disable_standby_mode "auto").                        *)
(*                                                                         *)
(* Two threads meet: the monitor thread, and the conversation thread that  *)
(* has the play lock, which signifies activity when it records and the end *)
(* of it when it tears down.  The critical sections of the latter are each *)
(* one action; the monitor holds the mutex unless it is in a condition     *)
(* wait, asleep or woken, or in one of the steps Unlocked.                 *)
(***************************************************************************)
EXTENDS Naturals

CONSTANT CancelInHooks   \* may a conversation be cancelled inside a hook?

ASSUME ActivityMonitorAssumption == CancelInHooks \in BOOLEAN

VARIABLES zero_timeout,  \* config.active_state_timeout = 0.0, set once
          state,         \* the state machine
          playing,       \* player_state = ps_active
          monitor,       \* where the monitor thread is
          wait,          \* "asleep" or "woken" in pthread_cond_wait, or "no"
          caller,        \* where the conversation thread is
          closing,       \* it is in its cleanup, with cancellation disabled
          announced,     \* history: abeg was the last message sent, not aend
          keep_dac_busy

amvars == <<zero_timeout, state, playing, monitor, wait, caller, closing, announced,
            keep_dac_busy>>

States   == {"am_inactive", "am_active", "am_timing_out"}
Unlocked == {"lock", "aend", "standby"}
MutexFree == wait # "no" \/ monitor \in Unlocked
-----------------------------------------------------------------------------
(* The conversation thread. *)

\* Which hook a change of activity calls for, if any.
HookFor(active) ==
  CASE active /\ state = "am_inactive" -> "going_active"
    [] ~active /\ state = "am_active" /\ zero_timeout -> "going_inactive"
    [] OTHER -> "signal"

\* The first critical section.  RECORD signifies activity only without a player.
signify_activity(active) ==
  /\ MutexFree
  /\ \/ caller = "idle" /\ (active => ~playing)
     \/ caller = "cancelled" /\ ~active
  /\ closing' = (caller = "cancelled")
  /\ playing' = active /\ caller' = HookFor(active)
  /\ state' = CASE caller' = "going_active"   -> "am_active"
                [] caller' = "going_inactive" -> "am_inactive"
                [] OTHER                      -> state
  /\ UNCHANGED <<zero_timeout, monitor, wait, announced, keep_dac_busy>>

\* going_active or going_inactive: first the command and the message ...
Announce ==
  /\ caller \in {"going_active", "going_inactive"}
  /\ announced' = (caller = "going_active")
  /\ caller' = IF announced' THEN "busy" ELSE "not_busy"
  /\ UNCHANGED <<zero_timeout, state, playing, monitor, wait, closing, keep_dac_busy>>

\* ... then the DAC.
SetDac ==
  /\ caller \in {"busy", "not_busy"} /\ caller' = "signal"
  /\ keep_dac_busy' = (caller = "busy")
  /\ UNCHANGED <<zero_timeout, state, playing, monitor, wait, closing, announced>>

\* Mutant: the monitor thread is not signalled.
SignalNobody ==
  /\ caller = "signal" /\ MutexFree /\ caller' = "idle" /\ closing' = FALSE
  /\ UNCHANGED <<zero_timeout, state, playing, monitor, wait, announced, keep_dac_busy>>

\* The mutex is taken again to signal the monitor thread.
Signal ==
  /\ caller = "signal" /\ MutexFree /\ caller' = "idle"
  /\ wait' = (IF wait = "asleep" THEN "woken" ELSE wait) /\ closing' = FALSE
  /\ UNCHANGED <<zero_timeout, state, playing, monitor, announced, keep_dac_busy>>

\* "this could be pthread_cancelled": what is left of the call is skipped, and
\* the conversation's cleanup signifies the end of activity.
CancelCaller ==
  /\ CancelInHooks /\ ~closing
  /\ caller \in {"going_active", "going_inactive", "busy", "not_busy"}
  /\ caller' = "cancelled"
  /\ UNCHANGED <<zero_timeout, state, playing, monitor, wait, closing, announced,
                 keep_dac_busy>>
-----------------------------------------------------------------------------
(* The monitor thread: it waits in the case of its switch that it was in. *)

Stays == /\ wait' = "asleep" /\ UNCHANGED <<state, monitor>>
Moves(case, s) == monitor' = case /\ state' = s /\ wait' = "no"

\* Initialisation done, or the hook: the mutex is taken and the switch reached.
Switch ==
  /\ monitor = "lock" /\ Moves(state, state)
  /\ UNCHANGED <<zero_timeout, playing, caller, closing, announced, keep_dac_busy>>

am_inactive ==
  /\ monitor = "am_inactive" /\ wait # "asleep"
  /\ IF playing THEN Moves(state, state) ELSE Stays
  /\ UNCHANGED <<zero_timeout, playing, caller, closing, announced, keep_dac_busy>>

am_active ==
  /\ monitor = "am_active" /\ wait # "asleep"
  /\ \/ playing /\ Stays
     \/ ~playing /\ state = "am_inactive" /\ Moves("am_inactive", state)
     \/ ~playing /\ state # "am_inactive" /\ Moves("am_timing_out", "am_timing_out")
  /\ UNCHANGED <<zero_timeout, playing, caller, closing, announced, keep_dac_busy>>

am_timing_out ==
  /\ monitor = "am_timing_out" /\ wait # "asleep"
  /\ IF playing THEN Moves("am_active", "am_active") ELSE Stays
  /\ UNCHANGED <<zero_timeout, playing, caller, closing, announced, keep_dac_busy>>

\* Mutant: the timed wait ends without another look at the player's state.
TimeOutAnyway ==
  /\ monitor = "am_timing_out" /\ wait # "no" /\ wait' = "no"
  /\ monitor' = "aend" /\ state' = "am_inactive"
  /\ UNCHANGED <<zero_timeout, playing, caller, closing, announced, keep_dac_busy>>

\* The timed wait ends, perhaps after the player has become active again.
TimeOut ==
  /\ monitor = "am_timing_out" /\ wait # "no" /\ wait' = "no"
  /\ IF playing THEN monitor' = "am_active" /\ state' = "am_active"
                ELSE monitor' = "aend" /\ state' = "am_inactive"
  /\ UNCHANGED <<zero_timeout, playing, caller, closing, announced, keep_dac_busy>>

\* going_inactive(0), with the mutex released.
AnnounceEnd ==
  /\ monitor = "aend" /\ monitor' = "standby" /\ announced' = FALSE
  /\ UNCHANGED <<zero_timeout, state, playing, wait, caller, closing, keep_dac_busy>>

ReleaseDac ==
  /\ monitor = "standby" /\ monitor' = "lock" /\ keep_dac_busy' = FALSE
  /\ UNCHANGED <<zero_timeout, state, playing, wait, caller, closing, announced>>
-----------------------------------------------------------------------------
ActivityInit ==
  /\ zero_timeout \in BOOLEAN
  /\ state = "am_inactive" /\ playing = FALSE
  /\ monitor = "lock" /\ wait = "no"
  /\ caller = "idle" /\ closing = FALSE
  /\ announced = FALSE /\ keep_dac_busy = FALSE

Hooks == Announce \/ SetDac \/ Signal

Monitor == Switch \/ am_inactive \/ am_active \/ am_timing_out \/ TimeOut
             \/ AnnounceEnd \/ ReleaseDac

ActivityNext == (\E active \in BOOLEAN : signify_activity(active))
          \/ Hooks \/ CancelCaller \/ Monitor

ActivitySpec == ActivityInit /\ [][ActivityNext]_amvars

\* Both threads keep running, and a cancelled conversation cleans up.  A woken
\* monitor competes with the callers for the mutex; pthread_mutex_lock returns
\* in the end however often they take it.  The timed wait has an absolute
\* deadline, which early wakeups do not move.
ActivityFairSpec ==
  ActivitySpec /\ SF_amvars(Monitor) /\ SF_amvars(TimeOut) /\ SF_amvars(Hooks)
       /\ WF_amvars(caller = "cancelled" /\ signify_activity(FALSE))
-----------------------------------------------------------------------------
\* Without a timeout nothing ever times out.
ActivityTypeOK ==
  /\ zero_timeout => state # "am_timing_out"
  /\ state \in States /\ monitor \in States \cup Unlocked
  /\ caller \in {"idle", "going_active", "going_inactive", "busy", "not_busy",
                 "signal", "cancelled"}
  /\ wait \in {"asleep", "woken", "no"}
  /\ {zero_timeout, playing, closing, announced, keep_dac_busy} \subseteq BOOLEAN

\* Whenever nobody has the mutex, a playing session means an active state: a
\* timer that runs out just as play resumes does not end the new session.
ActiveWhilePlaying == (MutexFree /\ playing) => state # "am_inactive"

\* Without a timeout, when a session has signified that it plays, standby is
\* prevented and abeg was the last message, although earlier calls may have been
\* cancelled anywhere in their hooks.  (With a timeout the hooks of the monitor
\* thread race those of the next session.)
PlayKeepsDacBusy ==
  (zero_timeout /\ caller = "idle" /\ playing) => announced /\ keep_dac_busy

\* What the monitor says of play is so, in its state and in what its hooks did
\* (activity_monitor_signify_activity, activity_thread_code).
ActivityMatchesPlay == ActivityTypeOK /\ ActiveWhilePlaying /\ PlayKeepsDacBusy

\* When play ends, the active state ends, at once or after its timeout, unless
\* play resumes first; with a timeout, provided that the monitor thread noticed
\* the play before it ended.
NoticedStateEnds ==
  (~playing /\ (zero_timeout \/ monitor = "am_active"))
    ~> (state = "am_inactive" \/ playing)
=============================================================================
