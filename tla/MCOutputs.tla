------------------------------ MODULE MCOutputs ------------------------------
(***************************************************************************)
(* What the player and the metadata drive, for TLC: the ALSA device, its   *)
(* format, the volume, the PulseAudio stream, the metadata hub with its    *)
(* watchers, and the volume set over DACP.  A behaviour is one of one of   *)
(* them, the part, while the others stand still.                           *)
(***************************************************************************)
EXTENDS AlsaOutput, AlsaFormat, VolumeControl, PulseOutput, MetadataHub, DacpVolume

VARIABLE part

Parts == {"alsa", "format", "volume", "pulse", "hub", "speakers"}

MCHubVolumes == {-10}
MCVolumes == {0, -7, -30, -144}

\* Mixers and settings that matter to the attenuation, and those that mute.
Attenuating ==
  {[hardware |-> h, hw_min |-> -5000, hw_max |-> 400, max_db |-> m, range |-> r,
    ignore |-> i, flat |-> f, hw_priority |-> p, mute |-> "none",
    use_hardware_mute |-> FALSE] :
      h \in BOOLEAN, m \in {1, -1000, 1000}, r \in {0, 3000, 7000, 30000},
      i \in BOOLEAN, f \in BOOLEAN, p \in BOOLEAN}
Muting ==
  {[hardware |-> TRUE, hw_min |-> -5000, hw_max |-> 400, max_db |-> 1, range |-> 0,
    ignore |-> FALSE, flat |-> TRUE, hw_priority |-> FALSE, mute |-> k,
    use_hardware_mute |-> u] : k \in {"switch", "volume"}, u \in BOOLEAN}
MCConfigs == Attenuating \cup Muting

\* The part that runs starts in any of its initial states, the others in one.
OutputsInit ==
  /\ part \in Parts
  /\ AlsaInit /\ (part # "alsa" => ~busy)
  /\ FormatInit
  /\ (part # "format" => /\ wanted = [format |-> "S16", rate |-> 0] /\ ~keep_busy
                         /\ supported = [formats |-> {"S16"}, rates |-> {2}] /\ ~taken)
  /\ VolumeInit /\ (part # "volume" => vcfg = CHOOSE c \in Muting : TRUE)
  /\ PaInit /\ (part # "pulse" => cores = 1)
  /\ HubInit /\ (part # "hub" => retain)
  /\ DacpVolumeInit
  /\ (part # "speakers" => overall = 100 /\ on = {Us} /\ \A s \in Speakers : relative[s] = 0)

OutputsNext ==
  \/ part = "alsa" /\ AlsaNext
     /\ UNCHANGED <<part, fvars, vvars, pavars, hubvars, volvars>>
  \/ part = "format" /\ FormatNext
     /\ UNCHANGED <<part, alsavars, vvars, pavars, hubvars, volvars>>
  \/ part = "volume" /\ VolumeNext
     /\ UNCHANGED <<part, alsavars, fvars, pavars, hubvars, volvars>>
  \/ part = "pulse" /\ PaNext
     /\ UNCHANGED <<part, alsavars, fvars, vvars, hubvars, volvars>>
  \/ part = "hub" /\ HubNext
     /\ UNCHANGED <<part, alsavars, fvars, vvars, pavars, volvars>>
  \/ part = "speakers" /\ DacpVolumeNext
     /\ UNCHANGED <<part, alsavars, fvars, vvars, pavars, hubvars>>

\* The device is in the state, and has the format, that the backend and the player
\* believe it has (do_open, do_close, actual_open_alsa_device, prepare of audio_alsa.c).
DeviceAsBelieved == AlsaTypeOK /\ PlayerFormatIsDeviceFormat
=============================================================================
