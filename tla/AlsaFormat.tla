----------------------------- MODULE AlsaFormat -----------------------------
(***************************************************************************)
(* How the format and the rate of the output are settled                   *)
(* (src/src/audio_alsa.c, src/src/player.c): the settings, the automatic   *)
(* choice when the device is opened with it, and the player thread, which  *)
(* reads config.output_format and config.output_rate once, when it starts, *)
(* sizes its buffers by them and hands frames of that format to play().    *)
(*                                                                         *)
(* Another program may hold the device, which is then busy.  Byte orders   *)
(* of a format are not told apart.                                         *)
(***************************************************************************)
EXTENDS Integers, Sequences

CONSTANT MaxStarts   \* bound: player threads started

VARIABLES
  wanted,     \* the settings: an explicit format and rate, or "auto"
  keep_busy,  \* config.keep_dac_busy: the monitor thread opens the device too
  supported,  \* what the DAC can do: formats and rates
  config,     \* config.output_format, config.output_rate
  taken,      \* another program holds the device
  pcm,        \* the open device's format and rate, or NoFormat
  player,     \* the format and rate the running player thread works with, or NoFormat
  fstarts,
  ended       \* die() was called

fvars == <<wanted, keep_busy, supported, config, taken, pcm, player, fstarts, ended>>

NoFormat == [format |-> "none", rate |-> 0]

auto_format_check_sequence == <<"S32", "S24", "S24_3", "S16", "S8">>
auto_speed_output_rates    == <<1, 2>>       \* multiples of 44100

\* Bytes in a frame: the table fr[] of the backend, and what the player reckons.
frame_size == [S32 |-> 8, S24 |-> 8, S24_3 |-> 6, S16 |-> 4, S8 |-> 2]
output_bytes_per_frame == [frame_size EXCEPT !.S8 = 4]

\* The settings file names a format and a rate or asks for them to be found; until they
\* are, the defaults stand.
FormatInit ==
  /\ wanted \in [format : {"auto", "S16", "S24_3"}, rate : {0, 2}]     \* rate 0: "auto"
  /\ keep_busy \in BOOLEAN
  /\ supported \in [formats : {{"S16"}, {"S32", "S16"}, {"S24_3", "S8"}}, rates : {{1, 2}, {2}}]
  /\ config = [format |-> IF wanted.format = "auto" THEN "S16" ELSE wanted.format,
               rate   |-> IF wanted.rate = 0 THEN 1 ELSE wanted.rate]
  /\ taken \in BOOLEAN /\ pcm = NoFormat /\ player = NoFormat
  /\ fstarts = 0 /\ ended = FALSE

\* The first of seq that is in set, if there is one.
FirstOf(seq, set) ==
  {seq[i] : i \in {i \in DOMAIN seq : seq[i] \in set /\ \A j \in 1..i - 1 : seq[j] \notin set}}

\* The format and rate an open asks for; the automatic choice tries each in turn.
ChosenFormat(auto) ==
  IF ~auto \/ wanted.format # "auto" THEN {config.format} \cap supported.formats
  ELSE FirstOf(auto_format_check_sequence, supported.formats)

ChosenRate(auto) ==
  IF ~auto \/ wanted.rate # 0 THEN {config.rate} \cap supported.rates
  ELSE FirstOf(auto_speed_output_rates, supported.rates)

\* Opening the device: busy is an error; a format or rate it has not ends the program.
open_alsa_device(auto) ==
  /\ pcm = NoFormat
  /\ \/ taken /\ UNCHANGED <<config, pcm, ended>>
     \/ /\ ~taken
        /\ IF ChosenFormat(auto) = {} \/ ChosenRate(auto) = {}
           THEN ended' = TRUE /\ UNCHANGED <<config, pcm>>
           ELSE \E f \in ChosenFormat(auto), r \in ChosenRate(auto) :
                  /\ config' = [format |-> f, rate |-> r]
                  /\ pcm' = [format |-> f, rate |-> r] /\ ended' = FALSE
  /\ UNCHANGED <<wanted, keep_busy, supported, taken>>

\* player_prepare_to_play calls prepare(), which opens with the automatic choice.
player_prepare_to_play ==
  /\ ~ended /\ player = NoFormat /\ fstarts < MaxStarts /\ fstarts' = fstarts + 1
  /\ \/ open_alsa_device(TRUE)
     \/ pcm # NoFormat /\ UNCHANGED <<wanted, keep_busy, supported, config, taken, pcm, ended>>
  /\ UNCHANGED player

player_thread_starts ==
  /\ ~ended /\ player = NoFormat /\ fstarts > 0 /\ player' = config
  /\ UNCHANGED <<wanted, keep_busy, supported, config, taken, pcm, fstarts, ended>>

\* Mutant: the automatic choice is made again.
play_auto ==
  /\ ~ended /\ player # NoFormat /\ open_alsa_device(TRUE) /\ UNCHANGED <<player, fstarts>>

\* play() on a disconnected backend opens it, without the automatic choice.
play_opens ==
  /\ ~ended /\ player # NoFormat /\ open_alsa_device(FALSE) /\ UNCHANGED <<player, fstarts>>

monitor_opens ==
  /\ ~ended /\ keep_busy /\ open_alsa_device(TRUE) /\ UNCHANGED <<player, fstarts>>

\* stop(): by the player thread's cleanup, or by a pause.
stop_closes ==
  /\ ~ended /\ pcm # NoFormat /\ pcm' = NoFormat /\ player' \in {player, NoFormat}
  /\ UNCHANGED <<wanted, keep_busy, supported, config, taken, fstarts, ended>>

\* External: another program opens or closes the device.
OtherProgram ==
  /\ ~ended /\ pcm = NoFormat /\ taken' = ~taken
  /\ UNCHANGED <<wanted, keep_busy, supported, config, pcm, player, fstarts, ended>>

FormatNext ==
  \/ player_prepare_to_play \/ player_thread_starts \/ play_opens \/ monitor_opens
  \/ stop_closes \/ OtherProgram

FormatSpec == FormatInit /\ [][FormatNext]_fvars

FormatsAgree ==
  player # NoFormat /\ pcm # NoFormat =>
    pcm = player /\ frame_size[pcm.format] <= output_bytes_per_frame[player.format]

\* Unless the DAC is kept busy, the player hands the open device frames of the format, the rate
\* and so the size it was set up for, however often the device was busy, closed by a pause and
\* opened again under a running player thread.
PlayerFormatIsDeviceFormat == ~keep_busy => FormatsAgree
=============================================================================
