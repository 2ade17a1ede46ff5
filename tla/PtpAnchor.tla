----------------------------- MODULE PtpAnchor ------------------------------
(***************************************************************************)
(* The anchor of an AirPlay 2 stream (src/src/rtp.c, built with AirPlay    *)
(* 2): the client says at which time of which PTP clock a frame is to be   *)
(* played, and the player turns that into local time with the clock that   *)
(* NQPTP says is the master, which may change during play.                 *)
(*                                                                         *)
(* set_ptp_anchor_info runs in the RTSP thread or the control receiver,    *)
(* get_ptp_anchor_local_time_info in the player and in the processor of    *)
(* buffered audio, all without a lock.  The setter is split at its         *)
(* assignments; the getter is one step.  A frame lasts one tick.  Clocks   *)
(* have constant offsets, so that what an anchor means, its line, is the   *)
(* local time at which frame 0 would be played.  NQPTP is external.        *)
(***************************************************************************)
EXTENDS Integers

CONSTANTS
  Clocks, NoClock,
  ClockOffset(_), \* what to add to local time for the time of a clock
  Lines,          \* the client seeks by changing its line
  Settle,         \* ticks a new master is given (5 s)
  MaxTicks

ASSUME PtpAnchorAssumption ==
  /\ NoClock \notin Clocks /\ Settle \in Nat /\ MaxTicks \in Nat /\ Lines \subseteq Int
  /\ \A c \in Clocks : ClockOffset(c) \in Int

VARIABLES
  time_now,
  master, mastership,    \* NQPTP: the master clock and the start of its mastership
  anchor_clock, anchor_frame, anchor_at, remote_valid,
  last_valid, last_rtptime, last_local_time, last_update, last_start_time,
  setting,        \* the assignments set_ptp_anchor_info still has to make
  line,           \* history: the line of the client's latest anchor
  adopted,        \* history: the getter has used that anchor with its own clock
  orphaned        \* history: that anchor was given a new clock before it was used

remote == <<anchor_clock, anchor_frame, anchor_at, remote_valid>>
last   == <<last_valid, last_rtptime, last_local_time, last_update, last_start_time>>
nqptp  == <<master, mastership>>
pvars  == <<time_now, nqptp, remote, last, setting, line, adopted, orphaned>>

NoSetting == [step |-> "idle"]

PtpInit ==
  /\ time_now = 0 /\ master = NoClock /\ mastership = 0
  /\ anchor_clock = NoClock /\ anchor_frame = 0 /\ anchor_at = 0 /\ remote_valid = FALSE
  /\ last_valid = FALSE /\ last_rtptime = 0 /\ last_local_time = 0
  /\ last_update = 0 /\ last_start_time = 0
  /\ setting = NoSetting /\ line = 0 /\ adopted = FALSE /\ orphaned = FALSE

\* NQPTP elects a master, or loses it.
ElectMaster(c) ==
  /\ c # master /\ master' = c /\ mastership' = time_now
  /\ UNCHANGED <<time_now, remote, last, setting, line, adopted, orphaned>>

\* set_ptp_anchor_info: an anchor that changes soon after its clock became usable
\* throws away what is known of the old one.
set_ptp_anchor_info(c, f, l) ==
  LET at == f + l + ClockOffset(c) IN
  /\ setting = NoSetting
  /\ last_valid' = (last_valid /\ ~(/\ c = anchor_clock
                                    /\ anchor_frame # f \/ anchor_at # at
                                    /\ time_now - last_start_time < Settle))
  /\ remote_valid' = TRUE /\ anchor_frame' = f
  /\ setting' = [step |-> "time", at |-> at, clock |-> c]
  /\ line' = l /\ adopted' = FALSE /\ orphaned' = FALSE
  /\ UNCHANGED <<time_now, nqptp, anchor_clock, anchor_at, last_rtptime,
                 last_local_time, last_update, last_start_time>>

set_time ==
  /\ setting.step = "time" /\ setting' = [setting EXCEPT !.step = "clock"]
  /\ anchor_at' = setting.at
  /\ UNCHANGED <<time_now, nqptp, anchor_clock, anchor_frame, remote_valid, last, line,
                 adopted, orphaned>>

set_clock ==
  /\ setting.step = "clock" /\ setting' = NoSetting
  /\ anchor_clock' = setting.clock
  /\ UNCHANGED <<time_now, nqptp, anchor_frame, anchor_at, remote_valid, last, line,
                 adopted, orphaned>>

\* A pause, or a silence of seven seconds on the control port.
reset_ptp_anchor_info ==
  /\ setting = NoSetting /\ remote_valid
  /\ remote_valid' = FALSE /\ last_valid' = FALSE
  /\ UNCHANGED <<time_now, nqptp, anchor_clock, anchor_frame, anchor_at, last_rtptime,
                 last_local_time, last_update, last_start_time, setting, line, adopted,
                 orphaned>>

Rebased == last_local_time + ClockOffset(master)

\* Mutant: the offset of the clock has the wrong sign.
LocalAnchorWrong == anchor_at + ClockOffset(master)

LocalAnchor == anchor_at - ClockOffset(master)

\* The anchor is usable with its own clock.  With another one, and after a while, it
\* is expressed in the new clock, from the local time worked out for it before.
get_ptp_anchor_local_time_info ==
  /\ master # NoClock /\ remote_valid
  /\ \/ /\ master = anchor_clock
        /\ last_rtptime' = anchor_frame /\ last_local_time' = LocalAnchor
        /\ last_update' = time_now /\ last_valid' = TRUE
        /\ last_start_time' = IF last_valid THEN last_start_time ELSE mastership
        /\ adopted' = (adopted \/ setting = NoSetting)
        /\ UNCHANGED <<anchor_at, anchor_clock, orphaned>>
     \/ /\ master # anchor_clock /\ last_valid /\ time_now - last_update > Settle
        /\ anchor_at' = Rebased /\ anchor_clock' = master
        /\ orphaned' = (orphaned \/ ~adopted)
        /\ UNCHANGED <<last, adopted>>
  /\ UNCHANGED <<time_now, nqptp, anchor_frame, remote_valid, setting, line>>

PtpTick ==
  /\ time_now < MaxTicks /\ time_now' = time_now + 1
  /\ UNCHANGED <<nqptp, remote, last, setting, line, adopted, orphaned>>

PtpNext ==
  \/ \E c \in Clocks \cup {NoClock} : ElectMaster(c)
  \/ \E c \in Clocks, l \in Lines : set_ptp_anchor_info(c, time_now, l)
  \/ set_time \/ set_clock \/ reset_ptp_anchor_info
  \/ get_ptp_anchor_local_time_info \/ PtpTick

PtpSpec == PtpInit /\ [][PtpNext]_pvars
-----------------------------------------------------------------------------
frame_to_ptp_local_time(frame) == last_local_time + (frame - last_rtptime)

local_ptp_time_to_frame(time) == last_rtptime + (time - last_local_time)

\* A frame is played at the time the client's latest anchor gives it, and the player
\* finds that frame at that time, through every change of master clock and every
\* re-basing of the anchor, unless the anchor lost its clock before it was ever used
\* (get_ptp_anchor_local_time_info, frame_to_ptp_local_time).
PlaysByTheAnchor ==
  last_valid /\ adopted /\ ~orphaned =>
    \A frame \in 0..MaxTicks : /\ frame_to_ptp_local_time(frame) = frame + line
                               /\ local_ptp_time_to_frame(frame + line) = frame
=============================================================================
