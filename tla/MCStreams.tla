------------------------------ MODULE MCStreams ------------------------------
(***************************************************************************)
(* The conversations with sources, for TLC: the sessions of the classic    *)
(* protocol and of AirPlay 2, the requests and their answers, pairing, the *)
(* encrypted channel and its TLV messages, the ports, the two kinds of     *)
(* timing, the resend requests and the buffered audio.  A behaviour is one *)
(* of one of them, the part, while the others stand still.                 *)
(***************************************************************************)
EXTENDS MCSessions, RtspReader, Pairing, Messages, Ap2Sessions, UdpPorts, RtpTiming,
        PtpAnchor, ResendRequest, BufferedAudio

VARIABLE part

Parts == {"classic", "reader", "pairing", "channel", "tlv", "sessions", "ports", "timing", 
          "ptp", "resend", "audio"}

MCClockOffset(c) == IF c = "a" THEN 20 ELSE 50

\* The part that runs starts in any of its initial states, the others in one.
StreamsInit ==
  /\ part \in Parts
  /\ Init
  /\ ReaderInit /\ (part # "reader" => ~password)
  /\ PairingInit
  /\ (part # "pairing" =>
        client = client_setup_new(CHOOSE kind \in ClientKinds : TRUE, ServerPin))
  /\ ChannelInit /\ TlvInit /\ SessionsInit2 /\ PortsInit /\ TimingInit /\ PtpInit
  /\ ResendInit /\ AudioInit

StreamsNext ==
  \/ part = "classic" /\ Next
     /\ UNCHANGED <<part, rdvars, hvars, chvars, tlvvars, cvars, uvars, tvars, pvars, rvars,
                    avars>>
  \/ part = "reader" /\ ReaderNext
     /\ UNCHANGED <<part, vars, hvars, chvars, tlvvars, cvars, uvars, tvars, pvars, rvars,
                    avars>>
  \/ part = "pairing" /\ PairingNext
     /\ UNCHANGED <<part, vars, rdvars, chvars, tlvvars, cvars, uvars, tvars, pvars, rvars,
                    avars>>
  \/ part = "channel" /\ ChannelNext
     /\ UNCHANGED <<part, vars, rdvars, hvars, tlvvars, cvars, uvars, tvars, pvars, rvars,
                    avars>>
  \/ part = "tlv" /\ TlvNext
     /\ UNCHANGED <<part, vars, rdvars, hvars, chvars, cvars, uvars, tvars, pvars, rvars,
                    avars>>
  \/ part = "sessions" /\ SessionsNext2
     /\ UNCHANGED <<part, vars, rdvars, hvars, chvars, tlvvars, uvars, tvars, pvars, rvars,
                    avars>>
  \/ part = "ports" /\ PortsNext
     /\ UNCHANGED <<part, vars, rdvars, hvars, chvars, tlvvars, cvars, tvars, pvars, rvars,
                    avars>>
  \/ part = "timing" /\ TimingNext
     /\ UNCHANGED <<part, vars, rdvars, hvars, chvars, tlvvars, cvars, uvars, pvars, rvars,
                    avars>>
  \/ part = "ptp" /\ PtpNext
     /\ UNCHANGED <<part, vars, rdvars, hvars, chvars, tlvvars, cvars, uvars, tvars, rvars,
                    avars>>
  \/ part = "resend" /\ ResendNext
     /\ UNCHANGED <<part, vars, rdvars, hvars, chvars, tlvvars, cvars, uvars, tvars, pvars,
                    avars>>
  \/ part = "audio" /\ AudioNext
     /\ UNCHANGED <<part, vars, rdvars, hvars, chvars, tlvvars, cvars, uvars, tvars, pvars,
                    rvars>>
=============================================================================
