--------------------------- MODULE VolumeControl ----------------------------
(***************************************************************************)
(* Volume and mute (src/src/player.c, src/src/common.c, the mixer of       *)
(* src/src/audio_alsa.c): the client's volume, 0 to -30 or -144 for mute,  *)
(* is turned into attenuations of the hardware mixer and of the software,  *)
(* within the ranges the mixer and the settings give.                      *)
(*                                                                         *)
(* Threads: the RTSP conversation, which calls player_volume, and the      *)
(* player (or the ALSA monitor), which opens and closes the device.  The   *)
(* mixer keeps its settings while the device is closed.  Attenuations are  *)
(* integers, in 1/100 dB; the samples' multiplier fix_volume is stood for  *)
(* by its exponent.                                                        *)
(***************************************************************************)
EXTENDS Integers

CONSTANTS
  Volumes,          \* the volumes a client may send, Mute among them
  Configs,          \* the settings and mixers considered
  MixerCanFail,     \* may open_mixer fail?
  MaxRequests, MaxOpens

Mute == -144
SwMin == -9630

\* A mixer with its range and its means to mute, and the settings: volume_max_db (1 if it is
\* not set), volume_range_db (0 if not), and the rest.
Settings == [hardware : BOOLEAN, hw_min : Int, hw_max : Int, mute : {"none", "switch", "volume"},
             max_db : Int, range : Nat, ignore : BOOLEAN, flat : BOOLEAN,
             hw_priority : BOOLEAN, use_hardware_mute : BOOLEAN]

ASSUME VolumeAssumption ==
  /\ Volumes \subseteq (-30..0) \cup {Mute}
  /\ Configs \subseteq {c \in Settings : c.hw_min <= c.hw_max}

VARIABLES
  vcfg,                 \* the settings and the mixer
  connected,            \* alsa_backend_state # abm_disconnected
  set_volume, volume_set_request, volume_based_mute_is_active, mute_requested_externally,
  mixer_volume, switched_off,      \* the mixer's own state
  software_mute_enabled, software_volume,
  asked,                \* the volume asked for last
  caller,               \* the RTSP thread in player_volume: pc and volume
  opener,               \* the player in do_open: pc and the argument of do_volume
  vrequests, vopens     \* bounds

mixer  == <<set_volume, volume_set_request, volume_based_mute_is_active,
            mute_requested_externally, mixer_volume, switched_off>>
vvars  == <<vcfg, connected, mixer, software_mute_enabled, software_volume, asked,
            caller, opener, vrequests, vopens>>
-----------------------------------------------------------------------------
(* What attenuation a volume means. *)

flat_vol2attn(vol, max_db, min_db) ==
  IF vol \in -30..0 THEN ((max_db - min_db) * (30 + vol)) \div 30 + min_db ELSE min_db

\* The lowest of three lines, each given by where it starts (at max_db) and how far below
\* max_db it is at -30.
VolumeLines(range) ==
  {<<0, -(range \div 2)>>, <<-5, -((3 * range) \div 4)>>, <<-17, -range>>}
Drop(l, vol) == IF vol > l[1] THEN 0 ELSE (l[2] * (l[1] - vol)) \div (30 + l[1])

vol2attn(vol, max_db, min_db) ==
  LET drops == {Drop(l, vol) : l \in VolumeLines(max_db - min_db)}
  IN  IF vol \in -30..0 THEN max_db + (CHOOSE d \in drops : \A e \in drops : d <= e) ELSE min_db

\* The ranges of the hardware and of the software: volume_max_db (or 1 if it is not set),
\* volume_range_db (0 if not set).  A setting that cannot be met is ignored.
Ranges(c) ==
  LET max_set == c.max_db # 1
      within(lo, hi) == max_set /\ c.max_db \in lo..hi
      hw_max == IF within(c.hw_min, c.hw_max) THEN c.max_db
                ELSE IF max_set /\ c.range # 0 THEN c.hw_min ELSE c.hw_max
      sw_top == IF max_set /\ ~within(c.hw_min, c.hw_max) /\ c.range # 0
                THEN c.max_db - c.hw_min ELSE 0
      hw_span == hw_max - c.hw_min
      sw_max == IF within(SwMin, 0) THEN c.max_db ELSE 0
      fits(span, top) == top - span >= SwMin
  IN  IF ~c.hardware
      THEN [mode |-> "sw_only", hw_max |-> 0, hw_min |-> 0, sw_max |-> sw_max,
            sw_min |-> IF c.range # 0 /\ fits(c.range, sw_max) THEN sw_max - c.range ELSE SwMin]
      ELSE IF c.range > hw_span
      THEN [mode |-> "both", hw_max |-> hw_max, hw_min |-> c.hw_min, sw_max |-> sw_top,
            sw_min |-> IF fits(c.range - hw_span, sw_top) THEN sw_top - (c.range - hw_span) ELSE SwMin]
      ELSE [mode |-> "hw_only", hw_max |-> hw_max,
            hw_min |-> IF c.range = 0 THEN c.hw_min ELSE hw_max - c.range,
            sw_max |-> 0, sw_min |-> SwMin]

Profile(c, vol, max_db, min_db) ==
  IF c.ignore THEN max_db
  ELSE IF c.flat THEN flat_vol2attn(vol, max_db, min_db) ELSE vol2attn(vol, max_db, min_db)

\* The attenuation is given to the hardware and the software, the one with priority first
\* when the volume is lowered.
Attenuations(c, vol) ==
  LET r  == Ranges(c)
      hw_span == r.hw_max - r.hw_min
      sw_span == r.sw_max - r.sw_min
      s  == Profile(c, vol, hw_span + sw_span, 0)
  IN  IF r.mode = "hw_only" THEN [hw |-> Profile(c, vol, r.hw_max, r.hw_min), sw |-> 0]
      ELSE IF r.mode = "sw_only" THEN [hw |-> 0, sw |-> Profile(c, vol, r.sw_max, r.sw_min)]
      ELSE IF c.hw_priority
      THEN IF sw_span > s THEN [sw |-> r.sw_min + s, hw |-> r.hw_min]
           ELSE [sw |-> r.sw_max, hw |-> r.hw_min + s - sw_span]
      ELSE IF hw_span > s THEN [hw |-> r.hw_min + s, sw |-> r.sw_min]
           ELSE [hw |-> r.hw_max, sw |-> r.sw_min + s - hw_span]
-----------------------------------------------------------------------------
VolumeInit ==
  /\ vcfg \in Configs /\ connected = FALSE
  /\ set_volume = 0 /\ volume_set_request = FALSE /\ volume_based_mute_is_active = FALSE
  /\ mute_requested_externally = FALSE /\ mixer_volume = 0 /\ switched_off = FALSE
  /\ software_mute_enabled = FALSE /\ software_volume = 0 /\ asked = 0
  /\ caller = [pc |-> "idle", vol |-> 0] /\ opener = [pc |-> "idle", vol |-> 0]
  /\ vrequests = 0 /\ vopens = 0

\* audio_alsa.mute is there: a playback switch that may be used, or a volume that mutes.
HasMute ==
  vcfg.hardware /\ ((vcfg.mute = "switch" /\ vcfg.use_hardware_mute) \/ vcfg.mute = "volume")

\* The part of do_volume under alsa_mixer_mutex: a pending request is met, except that a mute
\* made with the volume is left in place.
do_volume(vol, mixer_opens) ==
  IF volume_set_request /\ mixer_opens
  THEN /\ volume_set_request' = FALSE
       /\ mixer_volume' = IF volume_based_mute_is_active THEN mixer_volume ELSE vol
  ELSE UNCHANGED <<volume_set_request, mixer_volume>>

\* Does set_mute_state get to the mixer?
MuteApplies(mixer_opens) == connected /\ vcfg.use_hardware_mute /\ mixer_opens

set_mute_state(mixer_opens) ==
  IF ~MuteApplies(mixer_opens) THEN UNCHANGED <<volume_based_mute_is_active,
                                                mixer_volume, switched_off>>
  ELSE IF vcfg.mute = "switch"
  THEN /\ switched_off' = mute_requested_externally
       /\ UNCHANGED <<volume_based_mute_is_active, mixer_volume>>
  ELSE /\ volume_based_mute_is_active' = mute_requested_externally
       /\ mixer_volume' = IF mute_requested_externally THEN Mute ELSE set_volume
       /\ UNCHANGED switched_off

MixerOpens == IF MixerCanFail THEN BOOLEAN ELSE {TRUE}

\* Mutant: the mixer need not open for a mute to be taken as made.
HardwareMute_always(mixer_opens) == HasMute /\ connected

\* mute() answered 0: the hardware does it.
HardwareMute(mixer_opens) == HasMute /\ MuteApplies(mixer_opens)
-----------------------------------------------------------------------------
(* player_volume, by the RTSP thread; volume_control_mutex keeps out a second one. *)

player_volume(vol) ==
  /\ caller.pc = "idle" /\ vrequests < MaxRequests /\ vrequests' = vrequests + 1 /\ asked' = vol
  /\ LET a == Attenuations(vcfg, vol) mode == Ranges(vcfg).mode IN
     IF vol = Mute
     THEN /\ caller' = [pc |-> IF HasMute THEN "muting" ELSE "idle", vol |-> vol]
          /\ mute_requested_externally' = (mute_requested_externally \/ HasMute)
          /\ software_mute_enabled' = (software_mute_enabled \/ ~HasMute)
          /\ UNCHANGED <<volume_set_request, set_volume, software_volume>>
     ELSE /\ caller' = [pc |-> IF mode = "sw_only" THEN "unmute" ELSE "volume", vol |-> a.hw]
          /\ software_volume' = a.sw
          /\ volume_set_request' = (volume_set_request \/ mode # "sw_only")
          /\ set_volume' = IF mode # "sw_only" THEN a.hw ELSE set_volume
          /\ UNCHANGED <<mute_requested_externally, software_mute_enabled>>
  /\ UNCHANGED <<vcfg, connected, volume_based_mute_is_active, mixer_volume,
                 switched_off, opener, vopens>>

CallerSetsMixer ==
  /\ caller.pc = "volume" /\ caller' = [caller EXCEPT !.pc = "unmute"]
  /\ \E m \in MixerOpens : do_volume(caller.vol, m)
  /\ UNCHANGED <<vcfg, connected, set_volume, volume_based_mute_is_active,
                 mute_requested_externally, switched_off, software_mute_enabled,
                 software_volume, asked, opener, vrequests, vopens>>

\* mute(1): the software mutes if the hardware does not.
CallerMutes ==
  /\ caller.pc = "muting" /\ caller' = [caller EXCEPT !.pc = "idle"]
  /\ \E m \in MixerOpens :
       /\ set_mute_state(m)
       /\ software_mute_enabled' = (software_mute_enabled \/ ~HardwareMute(m))
  /\ UNCHANGED <<vcfg, connected, set_volume, volume_set_request,
                 mute_requested_externally, software_volume, asked, opener, vrequests,
                 vopens>>

\* mute(0) in two steps, the flag and the mixer.
CallerUnmutes ==
  /\ caller.pc = "unmute"
  /\ caller' = [caller EXCEPT !.pc = IF HasMute THEN "unmuting" ELSE "idle"]
  /\ mute_requested_externally' = (mute_requested_externally /\ ~HasMute)
  /\ software_mute_enabled' = (software_mute_enabled /\ HasMute)
  /\ UNCHANGED <<vcfg, connected, set_volume, volume_set_request,
                 volume_based_mute_is_active, mixer_volume, switched_off,
                 software_volume, asked, opener, vrequests, vopens>>

CallerUnmutesMixer ==
  /\ caller.pc = "unmuting" /\ caller' = [caller EXCEPT !.pc = "idle"]
  /\ \E m \in MixerOpens : set_mute_state(m)
  /\ software_mute_enabled' = FALSE
  /\ UNCHANGED <<vcfg, connected, set_volume, volume_set_request,
                 mute_requested_externally, software_volume, asked, opener, vrequests,
                 vopens>>
-----------------------------------------------------------------------------
(* do_open, which restores the volume and the mute: the argument of do_volume is read, *)
(* set_volume assigned, the mixer set and the mute renewed; then the backend is connected. *)

do_open_begins ==
  /\ ~connected /\ opener.pc = "idle" /\ vopens < MaxOpens /\ vopens' = vopens + 1
  /\ opener' = [pc |-> IF vcfg.hardware THEN "assign" ELSE "mute", vol |-> set_volume]
  /\ UNCHANGED <<vcfg, connected, mixer, software_mute_enabled, software_volume, asked,
                 caller, vrequests>>

do_open_assigns ==
  /\ opener.pc = "assign" /\ opener' = [opener EXCEPT !.pc = "mixer"] /\ set_volume' = opener.vol
  /\ UNCHANGED <<vcfg, connected, volume_set_request, volume_based_mute_is_active,
                 mute_requested_externally, mixer_volume, switched_off,
                 software_mute_enabled, software_volume, asked, caller, vrequests,
                 vopens>>

do_open_sets_mixer ==
  /\ opener.pc = "mixer" /\ opener' = [opener EXCEPT !.pc = "mute"]
  /\ \E m \in MixerOpens : do_volume(opener.vol, m)
  /\ UNCHANGED <<vcfg, connected, set_volume, volume_based_mute_is_active,
                 mute_requested_externally, switched_off, software_mute_enabled,
                 software_volume, asked, caller, vrequests, vopens>>

do_open_ends ==
  /\ opener.pc = "mute" /\ opener' = [opener EXCEPT !.pc = "idle"] /\ connected' = TRUE
  /\ \E m \in MixerOpens :
       IF HasMute THEN set_mute_state(m)
       ELSE UNCHANGED <<volume_based_mute_is_active, mixer_volume, switched_off>>
  /\ UNCHANGED <<vcfg, set_volume, volume_set_request, mute_requested_externally,
                 software_mute_enabled, software_volume, asked, caller, vrequests,
                 vopens>>

do_close_mixer ==
  /\ connected /\ opener.pc = "idle" /\ connected' = FALSE
  /\ UNCHANGED <<vcfg, mixer, software_mute_enabled, software_volume, asked, caller,
                 opener, vrequests, vopens>>

VolumeNext ==
  \/ \E v \in Volumes : player_volume(v)
  \/ CallerSetsMixer \/ CallerMutes \/ CallerUnmutes \/ CallerUnmutesMixer
  \/ do_open_begins \/ do_open_assigns \/ do_open_sets_mixer \/ do_open_ends \/ do_close_mixer

VolumeSpec == VolumeInit /\ [][VolumeNext]_vvars
-----------------------------------------------------------------------------
(* Properties *)

Silent == software_mute_enabled \/ switched_off \/ volume_based_mute_is_active

Total(c, v) == Attenuations(c, v).hw + Attenuations(c, v).sw

\* For every combination of settings and mixer, a higher volume is never quieter (vol2attn,
\* flat_vol2attn and their division between hardware and software), the hardware is never set
\* outside its own range, and the ends of the scale are the ends of the configured range.
AttenuationFollowsVolume ==
  vrequests = 1 /\ vopens = 0 =>      \* it is about the settings, not the state
  LET r == Ranges(vcfg) IN
  \A v \in Volumes \ {Mute} :
    /\ \A w \in Volumes \ {Mute} : v <= w => Total(vcfg, v) <= Total(vcfg, w)
    /\ vcfg.hardware => Attenuations(vcfg, v).hw \in r.hw_min..r.hw_max
    /\ r.mode = "both" => Attenuations(vcfg, v).sw \in r.sw_min..r.sw_max
    /\ v = 0 => Total(vcfg, v) = (CASE r.mode = "hw_only" -> r.hw_max
                                    [] r.mode = "sw_only" -> r.sw_max
                                    [] OTHER -> r.hw_max + r.sw_max)

\* Once player_volume has returned from a mute, the output is silent, whether the hardware or
\* the software does it, and it stays silent while the device is closed and opened again by
\* another thread, in any interleaving with do_open.
MuteIsSilent ==
  caller.pc = "idle" /\ asked = Mute => Silent

\* The output is as loud as it was asked to be, and silent when it was asked to be
\* (player_volume_without_notification, do_mute, volume, set_volume_range).
VolumeIsObeyed == AttenuationFollowsVolume /\ MuteIsSilent
=============================================================================
