----------------------------- MODULE AlsaOutput -----------------------------
(***************************************************************************)
(* The ALSA backend (src/src/audio_alsa.c): the output device as the       *)
(* player's calls and the buffer monitor thread, which keeps the DAC fed   *)
(* with silence while keep_dac_busy is set, open, fill, flush and close it.*)
(*                                                                         *)
(* Every call holds alsa_mutex to its end, so each is one step; the        *)
(* monitor looks at keep_dac_busy before it takes the mutex and again      *)
(* after, so it takes two.  The DAC (external) plays a frame at a time and *)
(* underruns when it has none.  A call that ends the process (die) is left *)
(* out, and so is the mixer: see VolumeControl.                            *)
(***************************************************************************)
EXTENDS Integers

CONSTANTS
  DacBuffer,          \* frames the DAC holds
  Packet,             \* frames in a packet of the player
  Silence,            \* frames of silence the monitor writes at once
  SilenceThreshold,   \* disable_standby_mode_silence_threshold in frames
  MaxErrors, Trials,  \* the monitor gives up: more than 40 errors in under 100 writes
  SetupCanFail,       \* may a step after snd_pcm_open fail without ending the process?
  MaxSent, MaxPlayed, MaxBreaks   \* bounds

ASSUME AlsaAssumption ==
  /\ {DacBuffer, Packet, Silence} \subseteq Nat \ {0}
  /\ {SilenceThreshold, MaxErrors, Trials, MaxSent, MaxPlayed, MaxBreaks} \subseteq Nat
  /\ SetupCanFail \in BOOLEAN

VARIABLES
  dev,      \* the device: alsa_handle, alsa_backend_state, the DAC's state, the frames
            \* in it, frames_sent_for_playing, frames_sent_break_occurred
  busy,     \* config.keep_dac_busy
  monitor,  \* the monitor's pc, okb, keep_dac_busy_has_just_gone_off and counts
  report,   \* the last answer of stats(): its return, the frames sent less the delay, and
            \* (history) the frames played since the answer before
  played,   \* history: frames the DAC has played since the last answer of stats()
  breaks    \* history: devices opened, for the bound

alsavars == <<dev, busy, monitor, report, played, breaks>>

AlsaInit ==
  /\ dev = [handle |-> "null", state |-> "disconnected", dac |-> "none", queued |-> 0,
            sent |-> 0, broke |-> FALSE]
  /\ busy \in BOOLEAN                      \* disable_standby_mode "always" or not
  /\ monitor = [pc |-> "look", okb |-> -1, gone_off |-> FALSE, errors |-> 0, writes |-> 0]
  /\ report = [ret |-> 1, net |-> 0, played |-> 0]
  /\ played = 0 /\ breaks = 0
-----------------------------------------------------------------------------
(* The device, as functions from a state of it to the states it may be in next. *)

\* snd_pcm_open fails (the device is busy or absent); or a later step of the set-up does,
\* which leaves the handle set; or the device is ready.  The first time, the test for
\* precision timing has written silence to it.
actual_open_alsa_device(d) ==
  {[d EXCEPT !.handle = "null", !.broke = TRUE]}
  \cup (IF SetupCanFail THEN {[d EXCEPT !.handle = "half"]} ELSE {})
  \cup {[d EXCEPT !.handle = "open", !.dac = IF q = 0 THEN "prepared" ELSE "running",
                  !.queued = q] : q \in {0, Silence} \cap 0..DacBuffer}

\* A handle that is already there is taken to be an open device.
do_open(d) ==
  IF d.handle # "null" THEN {d}
  ELSE {IF o.handle = "open" THEN [o EXCEPT !.broke = TRUE, !.sent = 0, !.state = "connected"]
        ELSE o : o \in actual_open_alsa_device(d)}

\* Did the open return 0?
Opened(d, o) == d.handle # "null" \/ o.handle = "open"

do_close(d) ==
  [d EXCEPT !.handle = "null", !.dac = "none", !.queued = 0, !.state = "disconnected"]

\* Mutant: a flush is not a break.
sub_flush_quiet(d) ==
  IF d.handle = "null" THEN d
  ELSE [d EXCEPT !.queued = 0, !.state = "connected",
                 !.dac = IF d.handle = "open" THEN "prepared" ELSE "none"]

\* The frames waiting to be played are dropped and the device is made ready again.
sub_flush(d) ==
  IF d.handle = "null" THEN d
  ELSE [d EXCEPT !.broke = TRUE, !.queued = 0, !.state = "connected",
                 !.dac = IF d.handle = "open" THEN "prepared" ELSE "none"]

delay_of(d) == IF d.dac = "running" THEN d.queued ELSE 0

\* What a write of n frames comes to: all are accepted, or some, or none because the DAC has
\* underrun (it is then recovered) or was suspended (and prepared again), or because of any
\* other error; or nothing is written because the status cannot be read or shows a stall.
do_play(d, n) ==
  {d}
  \cup (IF d.handle = "open" /\ d.dac \in {"prepared", "running"}
        THEN {[d EXCEPT !.sent = @ + m, !.queued = @ + m, !.dac = "running",
                        !.broke = @ \/ m < n] : m \in {m \in {1, n} : d.queued + m <= DacBuffer}}
             \cup {[d EXCEPT !.dac = "prepared", !.queued = 0, !.broke = TRUE]}
        ELSE {})
  \cup (IF d.dac = "xrun"
        THEN {[d EXCEPT !.dac = "prepared", !.broke = TRUE]} ELSE {})
  \cup {[d EXCEPT !.broke = TRUE]}
-----------------------------------------------------------------------------
(* The player's calls. *)

Bounded == dev'.sent <= MaxSent /\ breaks' = breaks + (IF dev'.handle # dev.handle THEN 1 ELSE 0)
           /\ breaks' <= MaxBreaks

prepare ==
  /\ IF dev.state = "disconnected" THEN dev' \in do_open(dev) ELSE dev' = dev
  /\ Bounded /\ UNCHANGED <<busy, monitor, report, played>>

\* The player's packet: the device is opened first if the backend is disconnected.
play ==
  /\ \E o \in IF dev.state = "disconnected" THEN do_open(dev) ELSE {dev} :
       IF Opened(dev, o)
       THEN dev' \in do_play([o EXCEPT !.state = "playing"], Packet)
       ELSE dev' = o
  /\ Bounded /\ UNCHANGED <<busy, monitor, report, played>>

\* A flush and a stop do nothing while the DAC is to be kept busy.
flush ==
  /\ dev' = IF dev.state # "disconnected" /\ ~busy THEN sub_flush(dev) ELSE dev
  /\ Bounded /\ UNCHANGED <<busy, monitor, report, played>>

stop ==
  /\ dev' = IF dev.state # "disconnected" /\ ~busy THEN do_close(dev) ELSE dev
  /\ Bounded /\ UNCHANGED <<busy, monitor, report, played>>

\* stats(): 0 only if nothing has come between this count of frames and the last one.
stats ==
  /\ \E failed \in BOOLEAN :       \* the status cannot be read, or shows a stall
       report' = [ret   |-> IF dev.handle = "null" \/ failed \/ dev.broke THEN 1 ELSE 0,
                  net   |-> dev.sent - delay_of(dev), played |-> played]
  /\ dev' = [dev EXCEPT !.broke = FALSE] /\ played' = 0
  /\ UNCHANGED <<busy, monitor, breaks>>
-----------------------------------------------------------------------------
(* The monitor thread. *)

MonitorLooks ==
  /\ monitor.pc = "look"
  /\ monitor' = [monitor EXCEPT !.pc = "act", !.okb = IF busy THEN 1 ELSE 0,
                   !.gone_off = monitor.okb # 0 /\ ~busy]
  /\ UNCHANGED <<dev, busy, report, played, breaks>>

\* Once the device is or has been opened or closed, it is fed if it is short of frames.
Transition(d) ==
  IF d.state = "disconnected" /\ busy THEN do_open(d)
  ELSE IF d.state # "disconnected" /\ monitor.gone_off THEN {do_close(d)}
  ELSE {d}

MonitorActs ==
  /\ monitor.pc = "act"
  /\ \E d \in Transition(dev) :
       IF d.state # "disconnected" /\ busy /\ delay_of(d) < SilenceThreshold
       THEN \E o \in do_play(d, Silence), failed \in BOOLEAN :
              LET errors == monitor.errors + (IF failed THEN 1 ELSE 0)
                  writes == monitor.writes + 1
              IN  /\ failed => o.sent = d.sent
                  /\ dev' = o
                  /\ monitor' = [monitor EXCEPT
                       !.pc = IF failed /\ errors > MaxErrors /\ writes < Trials
                              THEN "ended" ELSE "look",
                       !.errors = errors, !.writes = writes]
       ELSE dev' = d /\ monitor' = [monitor EXCEPT !.pc = "look"]
  /\ Bounded /\ monitor'.writes <= Trials
  /\ UNCHANGED <<busy, report, played>>

\* The activity monitor or the D-Bus service sets keep_dac_busy.
SetKeepDacBusy ==
  busy' = ~busy /\ UNCHANGED <<dev, monitor, report, played, breaks>>

\* The program ends: the device is closed and the monitor cancelled.
deinit ==
  /\ monitor.pc # "ended"
  /\ dev' = IF dev.state # "disconnected" /\ ~busy THEN do_close(dev) ELSE dev
  /\ monitor' = [monitor EXCEPT !.pc = "ended"]
  /\ Bounded /\ UNCHANGED <<busy, report, played>>

\* The DAC plays a frame, or finds none.
DacPlays ==
  /\ dev.dac = "running" /\ played < MaxPlayed
  /\ IF dev.queued > 0 THEN dev' = [dev EXCEPT !.queued = @ - 1] /\ played' = played + 1
     ELSE dev' = [dev EXCEPT !.dac = "xrun"] /\ played' = played
  /\ UNCHANGED <<busy, monitor, report, breaks>>

AlsaNext ==
  \/ prepare \/ play \/ flush \/ stop \/ stats
  \/ MonitorLooks \/ MonitorActs \/ SetKeepDacBusy \/ deinit \/ DacPlays

AlsaSpec == AlsaInit /\ [][AlsaNext]_alsavars
-----------------------------------------------------------------------------
(* Properties *)

\* The backend never counts itself connected, and so never writes, without a handle: whatever
\* order the player, the monitor and the exit open and close the device in (do_open, do_close,
\* sub_flush and their callers).
AlsaTypeOK ==
  /\ dev.handle \in {"null", "open", "half"} /\ dev.queued \in 0..DacBuffer
  /\ dev.state \in {"disconnected", "connected", "playing"}
  /\ dev.state # "disconnected" => dev.handle # "null"
  /\ dev.dac # "none" => dev.handle = "open"

\* When stats() answers 0, the frames sent less the delay have grown since its last answer by
\* exactly what the DAC has played since: a flush, a lost write, or a device that was closed and
\* opened again by the monitor or the player in between is always reported as a break.
StatsCountWhatIsPlayed ==
  [][stats /\ report'.ret = 0 => report'.net - report.net = report'.played]_alsavars
=============================================================================
