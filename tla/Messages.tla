------------------------------ MODULE Messages ------------------------------
(***************************************************************************)
(* The messages of AirPlay 2: those of pairing, put together from typed    *)
(* values, and all that follow it, through the encrypted channel.          *)
(***************************************************************************)
EXTENDS CipherChannel, Tlv

MessagesInit == ChannelInit /\ TlvInit

MessagesNext ==
  \/ ChannelNext /\ UNCHANGED tlvvars
  \/ TlvNext /\ UNCHANGED chvars

MessagesSpec == MessagesInit /\ [][MessagesNext]_<<chvars, tlvvars>>

\* Through the cipher's blocks and the chunks of TLV, every message arrives whole
\* (pair_decrypt and read_encrypted of rtsp.c, pair_tlv_format and pair_tlv_parse).
MessagesArriveWhole == StreamIsWhole /\ RoundTrip
=============================================================================
