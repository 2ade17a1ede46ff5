--------------------------- MODULE Streams_proofs ---------------------------
(***************************************************************************)
(* Proofs about what serves a stream of audio: the search for its ports,   *)
(* the requests for packets it lost, its PTP anchor, the reading of its    *)
(* client's RTSP requests, the timing of classic AirPlay, and the ciphered *)
(* channel and the typed values of AirPlay 2.                              *)
(***************************************************************************)
EXTENDS UdpPorts, ResendRequest, PtpAnchor, RtspReader, RtpTiming, Messages,
        SequenceTheorems, WellFoundedInduction, TLAPS

\* The ports below the end of the range that have been met when the search is at i.
PortsUpTo(i) == {p \in Ports : p <= i}

\* What makes PortsAreSearched inductive: the search has met every port up to its
\* present place, and has moved at least as often as it has tried since it last found
\* one, so that it cannot give up before it has come to the end of the range.
PortsInv ==
  /\ UDPPortIndex \in Nat /\ tryCount \in Nat /\ port_pc \in {"idle", "binding", "died"}
  /\ UDPPortIndex = 0 => tryCount = 0
  /\ UDPPortIndex # 0 =>
       /\ UDPPortIndex >= udp_port_base
       /\ udp_port_range # 3 => UDPPortIndex \in Ports
       /\ PortsUpTo(UDPPortIndex) \subseteq refused
       /\ Ports \subseteq refused \/ tryCount <= UDPPortIndex - udp_port_base + 1
  /\ port_pc = "binding" => tryCount < udp_port_range
  /\ udp_port_range # 3 => bound \subseteq Ports
  /\ port_pc = "died" => Ports \subseteq refused

\* A session starts its search before the first port of the range.
LEMMA PortsInvInit == PortsInit => PortsInv
BY DEF PortsInit, PortsInv

\* Where the search goes next: the next port, or from the last one back to the fourth.
LEMMA NextPort ==
  ASSUME PortsInv
  PROVE  LET port == nextFreeUDPPort(UDPPortIndex) IN
         /\ port \in Nat /\ port >= udp_port_base
         /\ udp_port_range # 3 => port \in Ports
         /\ PortsUpTo(port) \subseteq refused \cup {port}
         /\ Ports \subseteq refused
              \/ (port = udp_port_base /\ UDPPortIndex = 0)
              \/ (port = UDPPortIndex + 1 /\ UDPPortIndex # 0)
<1> USE UdpPortsAssumption DEF UdpPortsAssumption, PortsInv
<1> DEFINE top == udp_port_base + udp_port_range - 1
<1>1. CASE UDPPortIndex = 0
  <2>1. nextFreeUDPPort(UDPPortIndex) = udp_port_base
    BY <1>1 DEF nextFreeUDPPort
  <2>2. PortsUpTo(udp_port_base) \subseteq {udp_port_base}
    BY DEF Ports, PortsUpTo
  <2>3. udp_port_base \in Ports
    BY DEF Ports
  <2>4. QED
    BY <1>1, <2>1, <2>2, <2>3
<1>2. CASE UDPPortIndex # 0 /\ UDPPortIndex = top
  <2>1. Ports \subseteq refused
    BY <1>2 DEF Ports, PortsUpTo
  <2>2. nextFreeUDPPort(UDPPortIndex) = udp_port_base + 3
    BY <1>2 DEF nextFreeUDPPort
  <2>3. udp_port_range # 3 => udp_port_base + 3 \in Ports
    BY DEF Ports
  <2>4. PortsUpTo(udp_port_base + 3) \subseteq Ports
    BY DEF PortsUpTo
  <2>5. QED
    BY <2>1, <2>2, <2>3, <2>4
<1>3. CASE UDPPortIndex # 0 /\ UDPPortIndex # top
  <2>1. nextFreeUDPPort(UDPPortIndex) = UDPPortIndex + 1
    BY <1>3 DEF nextFreeUDPPort
  <2>2. PortsUpTo(UDPPortIndex + 1) \subseteq PortsUpTo(UDPPortIndex) \cup {UDPPortIndex + 1}
    BY DEF Ports, PortsUpTo
  <2>3. QED
    BY <1>3, <2>1, <2>2 DEF Ports
<1>4. QED
  BY <1>1, <1>2, <1>3

\* No step of the session, nor of the other programs, breaks it.
LEMMA PortsInvStep == PortsInv /\ [PortsNext]_uvars => PortsInv'
<1> SUFFICES ASSUME PortsInv, [PortsNext]_uvars PROVE PortsInv'
  OBVIOUS
<1>1. CASE UNCHANGED uvars
  BY <1>1 DEF uvars, PortsInv, PortsUpTo
<1>2. CASE Announce
  BY <1>2, UdpPortsAssumption DEF UdpPortsAssumption, Announce, PortsInv, PortsUpTo
<1>3. CASE bind_UDP_port
  <2> DEFINE port == nextFreeUDPPort(UDPPortIndex)
  <2>1. /\ port \in Nat /\ port >= udp_port_base
        /\ udp_port_range # 3 => port \in Ports
        /\ PortsUpTo(port) \subseteq refused \cup {port}
        /\ Ports \subseteq refused
              \/ (port = udp_port_base /\ UDPPortIndex = 0)
              \/ (port = UDPPortIndex + 1 /\ UDPPortIndex # 0)
    BY NextPort
  <2>2. UDPPortIndex' = port /\ refused' = refused \cup {port} /\ port_pc = "binding"
    BY <1>3 DEF bind_UDP_port
  <2> HIDE DEF port
  <2>3. port # 0
    BY <2>1, UdpPortsAssumption DEF UdpPortsAssumption
  <2>4. PortsUpTo(UDPPortIndex') \subseteq refused'
    BY <2>1, <2>2
  <2>5. tryCount' \in Nat /\ tryCount' <= tryCount + 1 /\ tryCount < udp_port_range
    BY <1>3, <2>2 DEF bind_UDP_port, PortsInv
  <2>6. Ports \subseteq refused' \/ tryCount' <= UDPPortIndex' - udp_port_base + 1
    BY <2>1, <2>2, <2>5, UdpPortsAssumption DEF UdpPortsAssumption, PortsInv
  <2>7. /\ port_pc' \in {"idle", "binding", "died"}
        /\ port_pc' = "binding" => tryCount' < udp_port_range
        /\ port_pc' = "died" => tryCount' >= udp_port_range
    BY <1>3, <2>5, UdpPortsAssumption DEF UdpPortsAssumption, bind_UDP_port, PortsInv
  <2>8. port_pc' = "died" => Ports \subseteq refused'
    <3> SUFFICES ASSUME port_pc' = "died", tryCount' <= UDPPortIndex' - udp_port_base + 1
                 PROVE  Ports \subseteq refused'
      BY <2>6
    <3>1. UDPPortIndex' >= udp_port_base + udp_port_range - 1
      BY <2>1, <2>2, <2>5, <2>7, UdpPortsAssumption DEF UdpPortsAssumption
    <3>2. Ports \subseteq PortsUpTo(UDPPortIndex')
      BY <2>1, <2>2, <3>1, UdpPortsAssumption DEF UdpPortsAssumption, Ports, PortsUpTo
    <3>3. QED
      BY <2>4, <3>2
  <2>9. udp_port_range # 3 => bound' \subseteq Ports
    BY <1>3, <2>1 DEF bind_UDP_port, PortsInv, port
  <2>10. QED
    BY <2>1, <2>2, <2>3, <2>4, <2>5, <2>6, <2>7, <2>8, <2>9 DEF PortsInv
<1>4. CASE CloseSockets
  BY <1>4 DEF CloseSockets, PortsInv, PortsUpTo
<1>5. CASE OthersBind
  BY <1>5 DEF OthersBind, PortsInv, PortsUpTo
<1>6. QED
  BY <1>1, <1>2, <1>3, <1>4, <1>5 DEF PortsNext

\* For any range but three a session binds only ports of the range, and gives up only
\* when it has met all of them in use.  (With three, the search goes from the last port
\* to the fourth, which is outside; see the next theorem for what is left.)
THEOREM PortsSearched == udp_port_range # 3 => (PortsSpec => []PortsAreSearched)
<1> SUFFICES ASSUME udp_port_range # 3 PROVE PortsSpec => []PortsAreSearched
  OBVIOUS
<1>1. PortsInv => PortsAreSearched
  BY DEF PortsInv, PortsAreSearched
<1>2. QED
  BY PortsInvInit, PortsInvStep, <1>1, PTL DEF PortsSpec

\* Whatever the range, a session never gives up while a port of the range is untried.
THEOREM GivesUpOnlyAtTheEnd == PortsSpec => [](port_pc = "died" => Ports \subseteq refused)
<1>1. PortsInv => (port_pc = "died" => Ports \subseteq refused)
  BY DEF PortsInv
<1>2. QED
  BY PortsInvInit, PortsInvStep, <1>1, PTL DEF PortsSpec
-----------------------------------------------------------------------------
\* What makes RequestsBackOff inductive: a sendto lasts no longer than its timeout, and
\* while no request gets out, the time of the last error is at most that much before
\* the start of any attempt that has failed, and so is any attempt that may still fail
\* and date the error back.
ResendInv ==
  /\ ticks \in Nat \ {0} /\ rtp_time_of_last_resend_request_error \in Nat
  /\ sendto \in [Receivers -> Nat] /\ last_start \in [Receivers -> Nat]
  /\ \A r \in Receivers :
       /\ last_start[r] <= ticks
       /\ sendto[r] # 0 => /\ sendto[r] = last_start[r]
                           /\ ticks - sendto[r] <= SendTimeout
       /\ ~ever_sent /\ sendto[r] = 0 /\ last_start[r] # 0 =>
            /\ rtp_time_of_last_resend_request_error # 0
            /\ rtp_time_of_last_resend_request_error >= last_start[r] - SendTimeout
            /\ \A s \in Receivers :
                 sendto[s] # 0 => sendto[s] >= last_start[r] - SendTimeout

\* At the start no request has been tried.
LEMMA ResendInvInit == ResendInit => ResendInv
BY DEF ResendInit, ResendInv

\* No receiver's step, nor the passing of time, breaks it.
LEMMA ResendInvStep == ResendInv /\ [ResendNext]_rvars => ResendInv'
<1> SUFFICES ASSUME ResendInv, [ResendNext]_rvars PROVE ResendInv'
  OBVIOUS
<1> USE ResendRequestAssumption DEF ResendRequestAssumption, ResendInv
<1>1. CASE UNCHANGED rvars
  BY <1>1 DEF rvars
<1>2. ASSUME NEW r \in Receivers, rtp_request_resend(r) PROVE ResendInv'
  BY <1>2 DEF rtp_request_resend
<1>3. ASSUME NEW r \in Receivers, SendtoReturns(r, TRUE) PROVE ResendInv'
  BY <1>3 DEF SendtoReturns
<1>4. ASSUME NEW r \in Receivers, SendtoReturns(r, FALSE) PROVE ResendInv'
  BY <1>4 DEF SendtoReturns
<1>5. CASE StreamStops
  BY <1>5 DEF StreamStops
<1>6. CASE ResendTick
  BY <1>6 DEF ResendTick
<1>7. QED
  BY <1>1, <1>2, <1>3, <1>4, <1>5, <1>6 DEF ResendNext

\* While no request gets out, no receiver tries again within the pause, but for the time
\* a sendto may take, with any number of receivers that fail in any order
\* (rtp_request_resend).
THEOREM BacksOff == ResendSpec => RequestsBackOff
<1> DEFINE HeldBack == \A r \in Receivers :
             sendto[r] = 0 /\ sendto'[r] # 0 /\ ~ever_sent =>
               last_start[r] = 0 \/ ticks - last_start[r] > Backoff - SendTimeout
<1>1. ResendInv /\ [ResendNext]_rvars => [HeldBack]_rvars
  <2> SUFFICES ASSUME ResendInv, ResendNext, NEW r \in Receivers,
                      sendto[r] = 0, sendto'[r] # 0, ~ever_sent, last_start[r] # 0
               PROVE  ticks - last_start[r] > Backoff - SendTimeout
    OBVIOUS
  <2>1. rtp_request_resend(r)
    BY DEF ResendInv, ResendNext, rtp_request_resend, SendtoReturns, StreamStops,
           ResendTick
  <2>2. QED
    BY <2>1, ResendRequestAssumption
       DEF ResendRequestAssumption, ResendInv, rtp_request_resend, BackoffOver
<1>2. QED
  BY ResendInvInit, ResendInvStep, <1>1, PTL DEF ResendSpec, RequestsBackOff
-----------------------------------------------------------------------------
\* What makes PlaysByTheAnchor inductive: once set_ptp_anchor_info has made its
\* assignments, the anchor in the clock it is expressed in means the client's line, and
\* so does the local time that was worked out for it; a clock that is lost before
\* that orphans it.
PtpInv ==
  /\ time_now \in Nat /\ master \in Clocks \cup {NoClock}
  /\ anchor_clock \in Clocks \cup {NoClock}
  /\ {anchor_frame, anchor_at, last_rtptime, last_local_time, line} \subseteq Int
  /\ setting \in {NoSetting} \cup [step : {"time", "clock"}, at : Int, clock : Clocks]
  /\ setting # NoSetting =>
       /\ ~adopted /\ setting.at = anchor_frame + line + ClockOffset(setting.clock)
       /\ setting.step = "clock" /\ ~orphaned => anchor_at = setting.at
  /\ setting = NoSetting /\ remote_valid /\ ~orphaned =>
       anchor_clock \in Clocks /\ anchor_at = anchor_frame + line + ClockOffset(anchor_clock)
  /\ last_valid /\ adopted /\ ~orphaned =>
       last_rtptime = anchor_frame /\ last_local_time = last_rtptime + line

\* At the start there is neither an anchor nor a clock.
LEMMA PtpInvInit == PtpInit => PtpInv
BY DEF PtpInit, PtpInv

\* No step of the client, of NQPTP or of the getter breaks it.
LEMMA PtpInvStep == PtpInv /\ [PtpNext]_pvars => PtpInv'
<1> SUFFICES ASSUME PtpInv, [PtpNext]_pvars PROVE PtpInv'
  OBVIOUS
<1> USE PtpAnchorAssumption DEF PtpAnchorAssumption, PtpInv, NoSetting, remote, last, nqptp
<1>1. CASE UNCHANGED pvars
  BY <1>1 DEF pvars
<1>2. ASSUME NEW c \in Clocks \cup {NoClock}, ElectMaster(c) PROVE PtpInv'
  BY <1>2 DEF ElectMaster
<1>3. ASSUME NEW c \in Clocks, NEW l \in Lines, set_ptp_anchor_info(c, time_now, l)
      PROVE  PtpInv'
  BY <1>3 DEF set_ptp_anchor_info
<1>4. CASE set_time
  BY <1>4 DEF set_time
<1>5. CASE set_clock
  BY <1>5 DEF set_clock
<1>6. CASE reset_ptp_anchor_info
  BY <1>6 DEF reset_ptp_anchor_info
<1>7. CASE get_ptp_anchor_local_time_info
  <2> USE DEF get_ptp_anchor_local_time_info
  <2>1. CASE master = anchor_clock
    <3>1. adopted' => adopted \/ setting = NoSetting
      BY <1>7, <2>1, Zenon
    <3>2. /\ last_rtptime' = anchor_frame
          /\ last_local_time' = anchor_at - ClockOffset(anchor_clock)
      BY <1>7, <2>1 DEF LocalAnchor
    <3>3. setting # NoSetting => ~adopted'
      BY <3>1
    <3>4. QED
      BY <1>7, <2>1, <3>1, <3>2, <3>3
  <2>2. CASE master # anchor_clock
    <3>1. (orphaned \/ ~adopted) => orphaned'
      BY <1>7, <2>2, Zenon
    <3>2. anchor_at' = last_local_time + ClockOffset(master) /\ anchor_clock' = master
      BY <1>7, <2>2 DEF Rebased
    <3>3. QED
      BY <1>7, <2>2, <3>1, <3>2
  <2>3. QED
    BY <2>1, <2>2
<1>8. CASE PtpTick
  BY <1>8 DEF PtpTick
<1>9. QED
  BY <1>1, <1>2, <1>3, <1>4, <1>5, <1>6, <1>7, <1>8 DEF PtpNext

\* A frame is played when the client's latest anchor says, through any number of master
\* clocks with any offsets, unless the anchor lost its clock before it was used
\* (get_ptp_anchor_local_time_info, frame_to_ptp_local_time).
THEOREM PlaysWhenAnchored == PtpSpec => []PlaysByTheAnchor
<1>1. PtpInv => PlaysByTheAnchor
  BY PtpAnchorAssumption DEF PtpAnchorAssumption, PtpInv, PlaysByTheAnchor,
     frame_to_ptp_local_time, local_ptp_time_to_frame
<1>2. QED
  BY PtpInvInit, PtpInvStep, <1>1, PTL DEF PtpSpec
-----------------------------------------------------------------------------
(***************************************************************************)
(* The reading of requests.                                                *)
(***************************************************************************)
(* The stream and its reads, as sequences. *)

Elements == {CR, LF} \cup
  {RequestLine(what, n) : what \in {"request", "junk", "auth", "Content-Length", "byte"},
                          n \in Int}

LEMMA ElementIs ==
  /\ CR \in Elements /\ LF \in Elements /\ CR # LF /\ CR.is = "CR" /\ LF.is = "LF"
  /\ \A n \in Int : Byte(n) \in Elements /\ Byte(n).is = "byte"
  /\ \A n \in Int, what \in {"request", "junk", "auth", "Content-Length"} :
       /\ RequestLine(what, n) \in Elements
       /\ RequestLine(what, n).is = what /\ RequestLine(what, n).n = n
<1>1. CR \in Elements /\ LF \in Elements /\ CR.is = "CR" /\ LF.is = "LF"
  BY DEF Elements, CR, LF
<1>2. CR # LF
  BY <1>1
<1>3. \A n \in Int : Byte(n) = RequestLine("byte", n)
  BY DEF Byte, RequestLine
<1>4. \A n \in Int, what \in {"request", "junk", "auth", "Content-Length", "byte"} :
        /\ RequestLine(what, n) \in Elements
        /\ RequestLine(what, n).is = what /\ RequestLine(what, n).n = n
  <2> TAKE n \in Int, what \in {"request", "junk", "auth", "Content-Length", "byte"}
  <2>1. RequestLine(what, n) \in Elements
    BY DEF Elements
  <2>2. RequestLine(what, n).is = what /\ RequestLine(what, n).n = n
    BY DEF RequestLine
  <2> QED BY <2>1, <2>2
<1> QED BY <1>1, <1>2, <1>3, <1>4

\* A read moves elements from the stream t to the buffer s and loses none.
LosesNothing(s, t, k) ==
  /\ s \o SubSeq(t, 1, k) \in Seq(Elements)
  /\ SubSeq(t, k + 1, Len(t)) \in Seq(Elements)
  /\ (s \o SubSeq(t, 1, k)) \o SubSeq(t, k + 1, Len(t)) = s \o t
  /\ Len(s \o SubSeq(t, 1, k)) = Len(s) + k
  /\ (s \o SubSeq(t, 1, k))[Len(s) + k] = t[k]

LEMMA ReadLosesNothing ==
  ASSUME NEW s \in Seq(Elements), NEW t \in Seq(Elements), NEW k \in 1..Len(t)
  PROVE  LosesNothing(s, t, k)
<1> DEFINE S == Elements
<1> HIDE DEF S
<1>0. s \in Seq(S) /\ t \in Seq(S)
  BY DEF S
<1>1. /\ SubSeq(t, 1, k) \in Seq(S) /\ Len(SubSeq(t, 1, k)) = k
      /\ SubSeq(t, k + 1, Len(t)) \in Seq(S)
      /\ SubSeq(t, 1, k)[k] = t[k]
  <2>1. Len(t) \in Nat /\ k \in Int /\ 1 \in Int /\ k + 1 \in Int /\ 1 <= k
    BY <1>0, LenProperties
  <2>2. \A i \in 1..k : t[i] \in S
    BY <1>0, <2>1, ElementOfSeq
  <2>3. \A i \in k + 1..Len(t) : t[i] \in S
    BY <1>0, <2>1, ElementOfSeq
  <2>4. /\ SubSeq(t, 1, k) \in Seq(S)
        /\ Len(SubSeq(t, 1, k)) = IF 1 <= k THEN k - 1 + 1 ELSE 0
        /\ \A i \in 1..k - 1 + 1 : SubSeq(t, 1, k)[i] = t[1 + i - 1]
    BY <2>1, <2>2, SubSeqProperties
  <2>5. SubSeq(t, k + 1, Len(t)) \in Seq(S)
    BY <2>1, <2>3, SubSeqProperties
  <2> QED BY <2>1, <2>4, <2>5
<1>2. SubSeq(t, 1, k) \o SubSeq(t, k + 1, Len(t)) = t
  BY <1>0, ConcatAdjacentSubSeq, SubSeqFull, LenProperties
<1>3. (s \o SubSeq(t, 1, k)) \o SubSeq(t, k + 1, Len(t))
        = s \o (SubSeq(t, 1, k) \o SubSeq(t, k + 1, Len(t)))
  <2>1. \A f, g, h \in Seq(S) : (f \o g) \o h = f \o (g \o h)
    OBVIOUS
  <2> QED BY <1>0, <1>1, <2>1
<1>4. /\ s \o SubSeq(t, 1, k) \in Seq(S)
      /\ Len(s \o SubSeq(t, 1, k)) = Len(s) + k
      /\ \A i \in 1 .. Len(s) + k : (s \o SubSeq(t, 1, k))[i] =
            IF i <= Len(s) THEN s[i] ELSE SubSeq(t, 1, k)[i - Len(s)]
  BY <1>0, <1>1, ConcatProperties
<1>5. (s \o SubSeq(t, 1, k))[Len(s) + k] = t[k]
  BY <1>0, <1>1, <1>4, LenProperties
<1> QED BY <1>1, <1>2, <1>3, <1>4, <1>5 DEF S, LosesNothing

\* Taking what a buffer starts with leaves the rest of the stream.
Leaves(s, t, u, v) ==
  LET rest == SubSeq(s, Len(u) + 1, Len(s)) IN
  /\ rest \in Seq(Elements) /\ rest \o t = v
  /\ rest # <<>> => rest[Len(rest)] = s[Len(s)]

LEMMA WhatIsLeft ==
  ASSUME NEW s \in Seq(Elements), NEW t \in Seq(Elements),
         NEW u \in Seq(Elements), NEW v \in Seq(Elements),
         s \o t = u \o v, Len(u) <= Len(s)
  PROVE  Leaves(s, t, u, v)
<1> DEFINE S == Elements
           rest == SubSeq(s, Len(u) + 1, Len(s))
<1> HIDE DEF S
<1>0. s \in Seq(S) /\ t \in Seq(S) /\ u \in Seq(S) /\ v \in Seq(S)
  BY DEF S
<1>1. /\ Len(s) \in Nat /\ Len(t) \in Nat /\ Len(u) \in Nat /\ Len(v) \in Nat
  BY <1>0, LenProperties
<1>2. \A i \in Len(u) + 1..Len(s) : s[i] \in S
  BY <1>0, <1>1, ElementOfSeq
<1>3. /\ rest \in Seq(S)
      /\ Len(rest) = Len(s) - Len(u)
      /\ \A i \in 1..Len(s) - Len(u) : rest[i] = s[Len(u) + i]
  <2>1. /\ rest \in Seq(S)
        /\ Len(rest) = IF Len(u) + 1 <= Len(s) THEN Len(s) - (Len(u) + 1) + 1 ELSE 0
        /\ \A i \in 1..Len(s) - (Len(u) + 1) + 1 : rest[i] = s[Len(u) + 1 + i - 1]
    BY <1>1, <1>2, SubSeqProperties
  <2> QED BY <1>1, <2>1
<1> HIDE DEF rest
<1>4. /\ Len(s \o t) = Len(s) + Len(t)
      /\ \A i \in 1..Len(s) + Len(t) : (s \o t)[i] = IF i <= Len(s) THEN s[i] ELSE t[i - Len(s)]
  BY <1>0, ConcatProperties
<1>5. /\ Len(u \o v) = Len(u) + Len(v)
      /\ \A i \in 1..Len(u) + Len(v) : (u \o v)[i] = IF i <= Len(u) THEN u[i] ELSE v[i - Len(u)]
  BY <1>0, ConcatProperties
<1>6. /\ rest \o t \in Seq(S) /\ Len(rest \o t) = Len(rest) + Len(t)
      /\ \A i \in 1..Len(rest) + Len(t) :
           (rest \o t)[i] = IF i <= Len(rest) THEN rest[i] ELSE t[i - Len(rest)]
  BY <1>0, <1>3, ConcatProperties
<1>7. Len(rest \o t) = Len(v)
  BY <1>1, <1>3, <1>4, <1>5, <1>6
<1>8. \A i \in 1..Len(v) : (rest \o t)[i] = v[i]
  <2> TAKE i \in 1..Len(v)
  <2>1. v[i] = (u \o v)[Len(u) + i]
    BY <1>1, <1>5
  <2>2. (rest \o t)[i] = (s \o t)[Len(u) + i]
    <3>1. CASE i <= Len(rest)
      BY <1>1, <1>3, <1>4, <1>6, <1>7, <3>1
    <3>2. CASE i > Len(rest)
      <4>1. (rest \o t)[i] = t[i - Len(rest)]
        BY <1>1, <1>3, <1>6, <1>7, <3>2
      <4>2. Len(u) + i \in 1..Len(s) + Len(t) /\ ~(Len(u) + i <= Len(s))
        BY <1>1, <1>3, <1>6, <1>7, <3>2
      <4>3. (s \o t)[Len(u) + i] = t[Len(u) + i - Len(s)]
        BY <1>4, <4>2
      <4>4. i - Len(rest) = Len(u) + i - Len(s)
        BY <1>1, <1>3
      <4> QED BY <4>1, <4>3, <4>4
    <3> QED BY <1>1, <1>3, <3>1, <3>2
  <2> QED BY <2>1, <2>2
<1>9. rest \o t = v
  BY <1>6, <1>7, <1>8, <1>0, SeqEqual
<1>10. rest # <<>> => rest[Len(rest)] = s[Len(s)]
  <2>1. rest # <<>> => Len(rest) \in Nat \ {0}
    BY <1>3, EmptySeq
  <2> QED BY <1>1, <1>3, <2>1
<1> QED BY <1>3, <1>9, <1>10 DEF rest, S, Leaves

-----------------------------------------------------------------------------
(* Lines. *)

\* What nextline makes of the first line, when the buffer does not end within a CR LF:
\* the line is everything before them, and both are taken.
LEMMA LineIsWhole ==
  ASSUME inbuf \in Seq(Elements), wire_bytes \in Seq(Elements),
         NEW x \in Elements, x.is \notin {"CR", "LF"}, NEW T \in Seq(Elements),
         inbuf \o wire_bytes = <<x, CR, LF>> \o T,
         LineEnds # {}, inbuf[Len(inbuf)] # CR
  PROVE  /\ SubSeq(inbuf, 1, LineEnd - 1) = <<x>>
         /\ LET rest == SubSeq(inbuf, nextline, Len(inbuf)) IN
            /\ rest \in Seq(Elements) /\ rest \o wire_bytes = T
            /\ rest # <<>> => rest[Len(rest)] # CR
<1> DEFINE u == <<x, CR, LF>>
<1>1. /\ u \in Seq(Elements) /\ Len(u) = 3 /\ u[1] = x /\ u[2] = CR /\ u[3] = LF
  BY ElementIs
<1>2. x # CR /\ x # LF /\ CR # LF
  BY ElementIs
<1>3. Len(inbuf) \in Nat /\ Len(wire_bytes) \in Nat /\ Len(T) \in Nat
  BY LenProperties
<1> HIDE DEF u
<1>4. /\ Len(inbuf \o wire_bytes) = Len(inbuf) + Len(wire_bytes)
      /\ \A i \in 1..Len(inbuf) + Len(wire_bytes) :
           (inbuf \o wire_bytes)[i] = IF i <= Len(inbuf) THEN inbuf[i]
                                      ELSE wire_bytes[i - Len(inbuf)]
  BY ConcatProperties
<1>5. /\ Len(u \o T) = Len(u) + Len(T)
      /\ \A i \in 1..Len(u) + Len(T) :
           (u \o T)[i] = IF i <= Len(u) THEN u[i] ELSE T[i - Len(u)]
  BY <1>1, ConcatProperties, Zenon
<1>6. inbuf \o wire_bytes = u \o T
  BY DEF u
<1>7. \A i \in 1..Len(inbuf) : i <= 3 => inbuf[i] = u[i]
  <2> TAKE i \in 1..Len(inbuf)
  <2>1. (inbuf \o wire_bytes)[i] = inbuf[i]
    BY <1>3, <1>4
  <2>2. i <= 3 => (u \o T)[i] = u[i]
    <3>1. Len(u) = 3
      BY <1>1
    <3> QED BY <1>3, <1>5, <3>1
  <2> QED BY <1>6, <2>1, <2>2
<1>8. Len(inbuf) >= 3
  <2>1. PICK e \in 1..Len(inbuf) : inbuf[e] \in {CR, LF}
    BY DEF LineEnds
  <2>2. Len(inbuf) # 1
    BY <1>1, <1>2, <1>3, <1>7, <2>1
  <2>3. Len(inbuf) # 2
    <3> SUFFICES ASSUME Len(inbuf) = 2 PROVE FALSE
      OBVIOUS
    <3>1. inbuf[2] = u[2]
      BY <1>7
    <3>2. inbuf[Len(inbuf)] = inbuf[2]
      OBVIOUS
    <3> QED BY <1>1, <3>1, <3>2
  <2>4. 1 <= Len(inbuf)
    BY <1>3, <2>1
  <2>5. \A n \in Nat : n # 1 /\ n # 2 /\ 1 <= n => n >= 3
    OBVIOUS
  <2> QED BY <1>3, <2>2, <2>3, <2>4, <2>5
<1>9. inbuf[1] = x /\ inbuf[2] = CR /\ inbuf[3] = LF
  BY <1>1, <1>3, <1>7, <1>8
<1>10. LineEnd = 2
  <2>1. 2 \in LineEnds /\ 1 \notin LineEnds /\ LineEnds \subseteq 1..Len(inbuf)
    BY <1>2, <1>3, <1>8, <1>9 DEF LineEnds
  <2>2. \A j \in LineEnds : 2 <= j
    BY <1>3, <2>1
  <2>3. \A i \in LineEnds : (\A j \in LineEnds : i <= j) => i = 2
    BY <1>3, <2>1
  <2>4. \E i \in LineEnds : \A j \in LineEnds : i <= j
    BY <2>1, <2>2
  <2>5. LineEnd \in LineEnds /\ \A j \in LineEnds : LineEnd <= j
    BY <2>4, Zenon DEF LineEnd
  <2> QED BY <2>3, <2>5
<1>11. nextline = 4
  BY <1>3, <1>8, <1>9, <1>10 DEF nextline
<1>12. SubSeq(inbuf, 1, LineEnd - 1) = <<x>>
  <2>1. \A i \in 1..1 : inbuf[i] \in Elements
    BY <1>9
  <2>2. /\ SubSeq(inbuf, 1, 1) \in Seq(Elements) /\ Len(SubSeq(inbuf, 1, 1)) = 1
        /\ SubSeq(inbuf, 1, 1)[1] = x
    <3>1. /\ SubSeq(inbuf, 1, 1) \in Seq(Elements)
          /\ Len(SubSeq(inbuf, 1, 1)) = IF 1 <= 1 THEN 1 - 1 + 1 ELSE 0
          /\ \A i \in 1..1 - 1 + 1 : SubSeq(inbuf, 1, 1)[i] = inbuf[1 + i - 1]
      BY <2>1, SubSeqProperties
    <3> QED BY <1>9, <3>1
  <2>3. <<x>> \in Seq(Elements) /\ Len(<<x>>) = 1 /\ <<x>>[1] = x
    OBVIOUS
  <2>4. \A i \in 1..Len(SubSeq(inbuf, 1, 1)) : SubSeq(inbuf, 1, 1)[i] = <<x>>[i]
    BY <2>2, <2>3
  <2>5. SubSeq(inbuf, 1, 1) = <<x>>
    BY <2>2, <2>3, <2>4, SeqEqual
  <2> QED BY <1>10, <2>5
<1> DEFINE rest == SubSeq(inbuf, Len(u) + 1, Len(inbuf))
<1>13. /\ rest \in Seq(Elements) /\ rest \o wire_bytes = T
       /\ rest # <<>> => rest[Len(rest)] = inbuf[Len(inbuf)]
  <2>1. Len(u) <= Len(inbuf)
    BY <1>1, <1>8
  <2>2. Leaves(inbuf, wire_bytes, u, T)
    BY <1>1, <1>6, <2>1, WhatIsLeft
  <2> QED BY <2>2 DEF Leaves
<1>14. Len(u) + 1 = nextline
  BY <1>1, <1>11
<1> QED BY <1>12, <1>13, <1>14

\* The empty line at the end of the header.
LEMMA EmptyLineIsWhole ==
  ASSUME inbuf \in Seq(Elements), wire_bytes \in Seq(Elements), NEW T \in Seq(Elements),
         inbuf \o wire_bytes = <<CR, LF>> \o T,
         LineEnds # {}, inbuf[Len(inbuf)] # CR
  PROVE  /\ SubSeq(inbuf, 1, LineEnd - 1) = <<>>
         /\ LET rest == SubSeq(inbuf, nextline, Len(inbuf)) IN
            rest \in Seq(Elements) /\ rest \o wire_bytes = T
<1> DEFINE u == <<CR, LF>>
<1>1. /\ u \in Seq(Elements) /\ Len(u) = 2 /\ u[1] = CR /\ u[2] = LF
  BY ElementIs
<1>3. Len(inbuf) \in Nat /\ Len(wire_bytes) \in Nat /\ Len(T) \in Nat
  BY LenProperties
<1> HIDE DEF u
<1>4. /\ Len(inbuf \o wire_bytes) = Len(inbuf) + Len(wire_bytes)
      /\ \A i \in 1..Len(inbuf) + Len(wire_bytes) :
           (inbuf \o wire_bytes)[i] = IF i <= Len(inbuf) THEN inbuf[i]
                                      ELSE wire_bytes[i - Len(inbuf)]
  BY ConcatProperties
<1>5. /\ Len(u \o T) = Len(u) + Len(T)
      /\ \A i \in 1..Len(u) + Len(T) :
           (u \o T)[i] = IF i <= Len(u) THEN u[i] ELSE T[i - Len(u)]
  BY <1>1, ConcatProperties, Zenon
<1>6. inbuf \o wire_bytes = u \o T
  BY DEF u
<1>7. \A i \in 1..Len(inbuf) : i <= 2 => inbuf[i] = u[i]
  <2> TAKE i \in 1..Len(inbuf)
  <2>1. (inbuf \o wire_bytes)[i] = inbuf[i]
    BY <1>3, <1>4
  <2>2. i <= 2 => (u \o T)[i] = u[i]
    <3>1. Len(u) = 2
      BY <1>1
    <3> QED BY <1>3, <1>5, <3>1
  <2> QED BY <1>6, <2>1, <2>2
<1>8. Len(inbuf) >= 2
  <2>1. PICK e \in 1..Len(inbuf) : inbuf[e] \in {CR, LF}
    BY DEF LineEnds
  <2>2. Len(inbuf) # 1
    BY <1>1, <1>3, <1>7
  <2> QED BY <1>3, <2>1, <2>2
<1>9. inbuf[1] = CR /\ inbuf[2] = LF
  BY <1>1, <1>3, <1>7, <1>8
<1>10. LineEnd = 1
  <2>1. 1 \in LineEnds /\ LineEnds \subseteq 1..Len(inbuf)
    BY <1>3, <1>8, <1>9 DEF LineEnds
  <2>2. \A j \in LineEnds : 1 <= j
    BY <1>3, <2>1
  <2>3. \A i \in LineEnds : (\A j \in LineEnds : i <= j) => i = 1
    BY <1>3, <2>1
  <2>4. \E i \in LineEnds : \A j \in LineEnds : i <= j
    BY <2>1, <2>2
  <2>5. LineEnd \in LineEnds /\ \A j \in LineEnds : LineEnd <= j
    BY <2>4, Zenon DEF LineEnd
  <2> QED BY <2>3, <2>5
<1>11. nextline = 3
  BY <1>3, <1>8, <1>9, <1>10 DEF nextline
<1>12. SubSeq(inbuf, 1, LineEnd - 1) = <<>>
  <2>1. LineEnd - 1 = 0
    BY <1>10
  <2> QED BY <2>1, SubSeqEmpty
<1>13. /\ SubSeq(inbuf, Len(u) + 1, Len(inbuf)) \in Seq(Elements)
       /\ SubSeq(inbuf, Len(u) + 1, Len(inbuf)) \o wire_bytes = T
  <2>1. Len(u) <= Len(inbuf)
    BY <1>1, <1>8
  <2>2. Leaves(inbuf, wire_bytes, u, T)
    BY <1>1, <1>6, <2>1, WhatIsLeft
  <2> QED BY <2>2 DEF Leaves
<1>14. Len(u) + 1 = nextline
  BY <1>1, <1>11
<1> QED BY <1>12, <1>13, <1>14

-----------------------------------------------------------------------------
(* A request on its way: what is left of it after each of its lines. *)

Body(i, r) == [b \in 1..r.size |-> Byte(i)]

AfterHeaders(i, r) == <<CR, LF>> \o Body(i, r)

AfterAuth(i, r) ==
  IF r.size > 0 THEN Ended(RequestLine("Content-Length", r.size)) \o AfterHeaders(i, r)
                ELSE AfterHeaders(i, r)

AfterFirst(i, r) == Ended(RequestLine("auth", r.digest)) \o AfterAuth(i, r)

Requests == [good : BOOLEAN, size : BodySizes, digest : Int]

LEMMA PartsOfRequest ==
  ASSUME NEW i \in Nat, NEW r \in Requests
  PROVE  /\ r.good \in BOOLEAN /\ r.size \in Nat /\ r.digest \in Int
         /\ Body(i, r) \in Seq(Elements) /\ Len(Body(i, r)) = r.size
         /\ \A j \in 1..r.size : Body(i, r)[j].is = "byte"
         /\ AfterHeaders(i, r) \in Seq(Elements) /\ AfterAuth(i, r) \in Seq(Elements)
         /\ AfterFirst(i, r) \in Seq(Elements) /\ Wire(i, r) \in Seq(Elements)
         /\ Wire(i, r) = Ended(RequestLine(IF r.good THEN "request" ELSE "junk", i))
                           \o AfterFirst(i, r)
<1> DEFINE first == RequestLine(IF r.good THEN "request" ELSE "junk", i)
           auth  == RequestLine("auth", r.digest)
           size  == RequestLine("Content-Length", r.size)
           lines == IF r.size > 0 THEN Ended(size) ELSE <<>>
<1>1. r.good \in BOOLEAN /\ r.size \in Nat /\ r.digest \in Int /\ i \in Int
  <2>1. r.good \in BOOLEAN /\ r.size \in BodySizes /\ r.digest \in Int
    BY DEF Requests
  <2>2. r.size \in Nat
    BY <2>1, ReaderAssumption DEF ReaderAssumption
  <2> QED BY <2>1, <2>2
<1>2. Ended(first) \in Seq(Elements) /\ Ended(auth) \in Seq(Elements)
        /\ Ended(size) \in Seq(Elements) /\ <<CR, LF>> \in Seq(Elements)
  <2>1. first \in Elements /\ auth \in Elements /\ size \in Elements
    BY <1>1, ElementIs
  <2> HIDE DEF first, auth, size
  <2> QED BY <2>1, ElementIs DEF Ended
<1>3. /\ Body(i, r) \in Seq(Elements) /\ Len(Body(i, r)) = r.size
      /\ \A j \in 1..r.size : Body(i, r)[j].is = "byte"
  <2>1. Byte(i) \in Elements /\ Byte(i).is = "byte"
    BY <1>1, ElementIs
  <2>2. /\ [b \in 1..r.size |-> Byte(i)] \in Seq(Elements)
        /\ Len([b \in 1..r.size |-> Byte(i)]) = r.size
    BY <1>1, <2>1
  <2> QED BY <1>1, <2>1, <2>2 DEF Body
<1> HIDE DEF first, auth, size
<1>4. lines \in Seq(Elements)
  <2>1. <<>> \in Seq(Elements)
    BY EmptySeq
  <2> QED BY <1>2, <2>1
<1>5. AfterHeaders(i, r) \in Seq(Elements)
  BY <1>2, <1>3, ConcatProperties DEF AfterHeaders
<1>6. AfterAuth(i, r) = lines \o AfterHeaders(i, r)
  <2>1. <<>> \o AfterHeaders(i, r) = AfterHeaders(i, r)
    BY <1>5, ConcatEmptySeq
  <2> QED BY <2>1 DEF AfterAuth, size
<1>7. AfterAuth(i, r) \in Seq(Elements)
  BY <1>4, <1>5, <1>6, ConcatProperties
<1>8. AfterFirst(i, r) = Ended(auth) \o AfterAuth(i, r) /\ AfterFirst(i, r) \in Seq(Elements)
  BY <1>2, <1>7, ConcatProperties DEF AfterFirst, auth
<1>9. Wire(i, r) = (((Ended(first) \o Ended(auth)) \o lines) \o <<CR, LF>>) \o Body(i, r)
  BY DEF Wire, Body, first, auth, size
<1> HIDE DEF lines
<1>10. Ended(first) \o Ended(auth) \in Seq(Elements)
  BY <1>2, ConcatProperties
<1>11. (Ended(first) \o Ended(auth)) \o lines \in Seq(Elements)
  BY <1>4, <1>10, ConcatProperties
<1> DEFINE headers == (Ended(first) \o Ended(auth)) \o lines
<1>a. \A f, g, h \in Seq(Elements) : (f \o g) \o h = f \o (g \o h)
  OBVIOUS
<1>12. Wire(i, r) = headers \o AfterHeaders(i, r)
  <2> HIDE DEF headers
  <2>1. headers \in Seq(Elements) /\ Wire(i, r) = (headers \o <<CR, LF>>) \o Body(i, r)
    BY <1>9, <1>11 DEF headers
  <2> QED BY <1>2, <1>3, <1>a, <2>1 DEF AfterHeaders
<1>13. Wire(i, r) = (Ended(first) \o Ended(auth)) \o AfterAuth(i, r)
  <2> DEFINE lead == Ended(first) \o Ended(auth)
  <2>1. lead \in Seq(Elements) /\ Wire(i, r) = (lead \o lines) \o AfterHeaders(i, r)
    BY <1>10, <1>12
  <2> HIDE DEF lead
  <2>2. (lead \o lines) \o AfterHeaders(i, r) = lead \o (lines \o AfterHeaders(i, r))
    BY <1>4, <1>5, <1>a, <2>1
  <2>3. Wire(i, r) = lead \o AfterAuth(i, r)
    BY <1>6, <2>1, <2>2
  <2> QED BY <2>3 DEF lead
<1>14. Wire(i, r) = Ended(first) \o AfterFirst(i, r)
  <2>1. (Ended(first) \o Ended(auth)) \o AfterAuth(i, r)
          = Ended(first) \o (Ended(auth) \o AfterAuth(i, r))
    <3> DEFINE f == Ended(first)
               g == Ended(auth)
               h == AfterAuth(i, r)
    <3>1. f \in Seq(Elements) /\ g \in Seq(Elements) /\ h \in Seq(Elements)
      BY <1>2, <1>7, Zenon
    <3> HIDE DEF f, g, h
    <3>2. (f \o g) \o h = f \o (g \o h)  BY <1>a, <3>1, SMT
    <3> QED BY <3>2, Zenon DEF f, g, h
  <2> QED BY <1>8, <1>13, <2>1, Zenon
<1>15. Wire(i, r) \in Seq(Elements)
  BY <1>2, <1>8, <1>14, ConcatProperties
<1> QED BY <1>1, <1>3, <1>5, <1>7, <1>8, <1>14, <1>15 DEF first

\* Only the first line of a request is one that starts a request.
LEMMA OneFirstLine ==
  ASSUME NEW i \in Nat, NEW r \in Requests
  PROVE  /\ \A j \in 1..Len(AfterFirst(i, r)) : AfterFirst(i, r)[j].is # "request"
         /\ ~r.good => \A j \in 1..Len(Wire(i, r)) : Wire(i, r)[j].is # "request"
<1> DEFINE Plain(s) == \A j \in 1..Len(s) : s[j].is # "request"
<1>1. ASSUME NEW s \in Seq(Elements), NEW t \in Seq(Elements), Plain(s), Plain(t)
      PROVE  Plain(s \o t)
  <2>1. Len(s) \in Nat /\ Len(t) \in Nat
    BY LenProperties
  <2>2. /\ Len(s \o t) = Len(s) + Len(t)
        /\ \A j \in 1..Len(s) + Len(t) :
             (s \o t)[j] = IF j <= Len(s) THEN s[j] ELSE t[j - Len(s)]
    BY ConcatProperties
  <2> QED BY <1>1, <2>1, <2>2
<1>2. ASSUME NEW x \in Elements, x.is # "request"
      PROVE  Ended(x) \in Seq(Elements) /\ Plain(Ended(x))
  BY <1>2, ElementIs DEF Ended
<1>3. <<CR, LF>> \in Seq(Elements) /\ Plain(<<CR, LF>>)
  BY ElementIs
<1>4. Body(i, r) \in Seq(Elements) /\ Plain(Body(i, r))
  <2>1. /\ Body(i, r) \in Seq(Elements) /\ Len(Body(i, r)) = r.size
        /\ \A j \in 1..r.size : Body(i, r)[j].is = "byte"
    BY PartsOfRequest
  <2> QED BY <2>1
<1>5. /\ AfterHeaders(i, r) \in Seq(Elements) /\ AfterAuth(i, r) \in Seq(Elements)
      /\ AfterFirst(i, r) \in Seq(Elements)
      /\ r.good \in BOOLEAN /\ r.size \in Nat /\ r.digest \in Int
      /\ Wire(i, r) = Ended(RequestLine(IF r.good THEN "request" ELSE "junk", i))
                        \o AfterFirst(i, r)
  BY PartsOfRequest, Zenon
<1>6. /\ RequestLine("auth", r.digest) \in Elements
      /\ RequestLine("auth", r.digest).is # "request"
      /\ RequestLine("Content-Length", r.size) \in Elements
      /\ RequestLine("Content-Length", r.size).is # "request"
      /\ RequestLine("junk", i) \in Elements /\ RequestLine("junk", i).is # "request"
  BY <1>5, ElementIs
<1> HIDE DEF Plain
<1>7. Plain(AfterHeaders(i, r))
  BY <1>1, <1>3, <1>4 DEF AfterHeaders
<1>8. Plain(AfterAuth(i, r))
  BY <1>1, <1>2, <1>5, <1>6, <1>7 DEF AfterAuth
<1>9. Plain(AfterFirst(i, r))
  BY <1>1, <1>2, <1>5, <1>6, <1>8 DEF AfterFirst
<1>10. ~r.good => Plain(Wire(i, r))
  BY <1>1, <1>2, <1>5, <1>6, <1>9
<1> QED BY <1>9, <1>10 DEF Plain

\* The nonce the client knows is a number.
LEMMA LastNonceIsNumber ==
  ASSUME Len(answers) \in Nat, \A a \in 1..Len(answers) : answers[a].nonce \in Nat
  PROVE  LastNonce \in Nat
<1> DEFINE S == {a \in 1..Len(answers) : answers[a].code = 401}
           IsLast(a) == \A b \in S : b <= a
           T == {Len(answers) - a : a \in S}
           R == {p \in Nat \X Nat : p[1] < p[2]}
<1>1. CASE S = {}
  BY <1>1 DEF LastNonce
<1>2. CASE S # {}
  <2>1. T \subseteq Nat /\ T # {} /\ S \subseteq 1..Len(answers)
    BY <1>2
  <2>2. IsWellFoundedOn(R, Nat)
    BY NatLessThanWellFounded, Zenon DEF OpToRel
  <2>3. PICK k \in T : \A j \in T : ~(<<j, k>> \in R)
    <3> HIDE DEF R, T
    <3> QED BY <2>1, <2>2, WFMin, Zenon
  <2>4. \A j \in T : ~(j < k)
    <3> HIDE DEF T
    <3> QED BY <2>1, <2>3 DEF R
  <2>5. PICK x \in S : k = Len(answers) - x
    BY <2>3
  <2>6. \A b \in S : Len(answers) - b \in T
    OBVIOUS
  <2> HIDE DEF T
  <2>7. \A b \in S : ~(Len(answers) - b < Len(answers) - x)
    BY <2>4, <2>5, <2>6
  <2>8. \E a \in S : IsLast(a)
    <3>1. \A b \in S : b <= x
      <4> HIDE DEF S
      <4> QED BY <2>1, <2>5, <2>7
    <3> QED BY <2>5, <3>1
  <2>9. (CHOOSE a \in S : IsLast(a)) \in S
    <3> HIDE DEF S, IsLast
    <3> QED BY <2>8, Zenon
  <2>10. LastNonce = answers[CHOOSE a \in S : IsLast(a)].nonce
    BY <1>2 DEF LastNonce
  <2> QED BY <2>1, <2>9, <2>10
<1> QED BY <1>1, <1>2

-----------------------------------------------------------------------------
(* What makes RequestsAreServed inductive. *)

Packets == [method : {"request"}, cseq : Nat, digest : Int, length : Nat]

Packet(i, digest, length) ==
  [method |-> "request", cseq |-> i, digest |-> digest, length |-> length]

Responses == [code : {200, 400, 401, 501}, cseq : Nat, nonce : Nat]

ReaderTypes ==
  /\ password \in BOOLEAN /\ authorized \in BOOLEAN /\ conn_stop \in BOOLEAN
  /\ nonce \in Nat
  /\ to_send \in Seq(Requests) /\ answers \in Seq(Responses)
  /\ wire_bytes \in Seq(Elements) /\ inbuf \in Seq(Elements)
  /\ handled \in Seq(Packets \X Seq(Elements))

\* No request has been answered with a 400.
Accepted == \A a \in 1..Len(answers) : answers[a].code # 400

\* The client has all its answers.
Waiting ==
  /\ Accepted /\ Len(answers) = Len(to_send)
  /\ inbuf = <<>> /\ wire_bytes = <<>> /\ the_packet = NoPacket /\ msg_size = -1

\* The last request is on its way: what has been understood of it and what is left of it,
\* in the buffer and the stream together, are the whole of it.
Understood(i, r) ==
  LET left == inbuf \o wire_bytes IN
  \/ the_packet = NoPacket /\ msg_size = -1 /\ left = Wire(i, r)
  \/ /\ r.good /\ msg_size = -1
     /\ \/ the_packet = Packet(i, 0, 0) /\ left = AfterFirst(i, r)
        \/ the_packet = Packet(i, r.digest, 0) /\ left = AfterAuth(i, r)
        \/ the_packet = Packet(i, r.digest, r.size) /\ left = AfterHeaders(i, r)
  \/ r.good /\ msg_size = r.size /\ the_packet = Packet(i, r.digest, r.size) /\ left = Body(i, r)

Reading ==
  /\ Accepted /\ Len(to_send) = Len(answers) + 1
  /\ Understood(Len(to_send), to_send[Len(to_send)])
  /\ msg_size = -1 /\ inbuf # <<>> => inbuf[Len(inbuf)] # CR

\* After a 400 what is left of the bad request is never taken for the start of another.
Rejected ==
  /\ ~Accepted /\ the_packet = NoPacket /\ msg_size = -1
  /\ \A j \in 1..Len(inbuf) : inbuf[j].is # "request"
  /\ \A j \in 1..Len(wire_bytes) : wire_bytes[j].is # "request"

HandledInv ==
  /\ \A h \in 1..Len(handled) :
       LET p == handled[h][1] IN
       p.cseq \in 1..Len(to_send) /\ handled[h][2] = Body(p.cseq, to_send[p.cseq])
  /\ \A h \in 1..Len(handled) : \A g \in 1..(h - 1) : handled[g][1].cseq < handled[h][1].cseq
  /\ ~conn_stop => \A h \in 1..Len(handled) : handled[h][1].cseq <= Len(answers)

AnsweredInv ==
  /\ Accepted => \A a \in 1..Len(answers) : answers[a].cseq = a
  /\ ~Accepted => \E r \in 1..Len(to_send) : ~to_send[r].good

GuardInv ==
  /\ nonce # 0 => \E a \in 1..Len(answers) : answers[a].code = 401 /\ answers[a].nonce = nonce
  /\ authorized => handled # <<>>
  /\ PasswordGuards

ReaderInv ==
  /\ ReaderTypes /\ HandledInv /\ AnsweredInv /\ GuardInv
  /\ ~conn_stop => Waiting \/ Reading \/ Rejected

LEMMA ReaderInvInit == ReaderInit => ReaderInv
<1> SUFFICES ASSUME ReaderInit PROVE ReaderInv
  OBVIOUS
<1>1. /\ <<>> \in Seq(Requests) /\ <<>> \in Seq(Responses) /\ <<>> \in Seq(Elements)
      /\ <<>> \in Seq(Packets \X Seq(Elements)) /\ Len(<<>>) = 0
  BY EmptySeq
<1>2. ReaderTypes
  BY <1>1 DEF ReaderInit, ReaderTypes
<1>3. Accepted /\ Waiting
  BY <1>1 DEF ReaderInit, Accepted, Waiting
<1>4. HandledInv
  BY <1>1 DEF ReaderInit, HandledInv
<1>5. AnsweredInv
  BY <1>1, <1>3 DEF ReaderInit, AnsweredInv
<1>6. GuardInv
  BY DEF ReaderInit, GuardInv, PasswordGuards
<1> QED BY <1>2, <1>3, <1>4, <1>5, <1>6 DEF ReaderInv

\* The parts that only answers and handlers change.
LEMMA HistoryKept ==
  ASSUME ReaderInv, UNCHANGED <<password, to_send, nonce, authorized, handled, answers>>,
         conn_stop' = conn_stop \/ conn_stop'
  PROVE  HandledInv' /\ AnsweredInv' /\ GuardInv' /\ (Accepted' <=> Accepted)
<1>1. Accepted' <=> Accepted
  BY DEF Accepted
<1>2. HandledInv'
  BY DEF ReaderInv, HandledInv, Body
<1>3. AnsweredInv'
  BY <1>1 DEF ReaderInv, AnsweredInv
<1>4. GuardInv'
  BY DEF ReaderInv, GuardInv, PasswordGuards
<1> QED BY <1>1, <1>2, <1>3, <1>4

\* A request is sent only when the client has the answer to the one before.
LEMMA SendStep ==
  ASSUME ~Pipelining, ReaderInv, Send
  PROVE  ReaderInv'
<1>1. PICK good \in BOOLEAN, size \in BodySizes, digest \in {0, -1, LastNonce} :
        LET r == [good |-> good, size |-> size, digest |-> digest]
        IN to_send' = Append(to_send, r) /\ wire_bytes' = wire_bytes \o Wire(Len(to_send) + 1, r)
  BY Zenon DEF Send
<1> DEFINE r == [good |-> good, size |-> size, digest |-> digest]
<1>2. /\ UNCHANGED <<password, inbuf, the_packet, msg_size, nonce, authorized, handled,
                     answers, conn_stop>>
      /\ ~conn_stop /\ Len(answers) >= Len(to_send) /\ Accepted
  BY DEF Send, Accepted
<1>3. ReaderTypes /\ HandledInv /\ AnsweredInv /\ GuardInv
  BY DEF ReaderInv
<1>4. /\ Len(answers) \in Nat /\ Len(to_send) \in Nat /\ Len(handled) \in Nat
      /\ \A a \in 1..Len(answers) : answers[a].nonce \in Nat
  <2>1. /\ Len(answers) \in Nat /\ Len(to_send) \in Nat /\ Len(handled) \in Nat
    BY <1>3, LenProperties DEF ReaderTypes
  <2>2. \A a \in 1..Len(answers) : answers[a] \in Responses
    BY <1>3, ElementOfSeq DEF ReaderTypes
  <2> QED BY <2>1, <2>2 DEF Responses
<1>5. Waiting
  BY <1>2, <1>4 DEF ReaderInv, Reading, Rejected
<1>6. r \in Requests
  <2>1. digest \in Int
    BY <1>4, LastNonceIsNumber
  <2> QED BY <2>1 DEF Requests
<1> HIDE DEF r
<1>7. to_send' = Append(to_send, r) /\ wire_bytes' = wire_bytes \o Wire(Len(to_send) + 1, r)
  BY <1>1 DEF r
<1>8. /\ to_send' \in Seq(Requests) /\ Len(to_send') = Len(to_send) + 1
      /\ \A i \in 1..Len(to_send) : to_send'[i] = to_send[i]
      /\ to_send'[Len(to_send) + 1] = r
  BY <1>3, <1>6, <1>7, AppendProperties DEF ReaderTypes
<1>9. /\ Wire(Len(to_send) + 1, r) \in Seq(Elements)
      /\ wire_bytes' = Wire(Len(to_send) + 1, r)
      /\ inbuf' = <<>> /\ inbuf' \o wire_bytes' = Wire(Len(to_send) + 1, r)
  <2>1. Wire(Len(to_send) + 1, r) \in Seq(Elements)
    BY <1>4, <1>6, PartsOfRequest
  <2>2. <<>> \o Wire(Len(to_send) + 1, r) = Wire(Len(to_send) + 1, r)
    BY <2>1, ConcatEmptySeq
  <2> QED BY <1>2, <1>5, <1>7, <2>1, <2>2 DEF Waiting
<1>10. Accepted'
  BY <1>2 DEF Accepted
<1>11. ReaderTypes'
  BY <1>2, <1>3, <1>8, <1>9 DEF ReaderTypes
<1>12. HandledInv'
  <2>1. \A h \in 1..Len(handled) :
          LET p == handled[h][1] IN
          /\ p.cseq \in 1..Len(to_send) /\ p.cseq \in 1..Len(to_send')
          /\ handled[h][2] = Body(p.cseq, to_send[p.cseq])
          /\ to_send'[p.cseq] = to_send[p.cseq]
    BY <1>3, <1>4, <1>8 DEF HandledInv
  <2> QED BY <1>2, <1>3, <2>1 DEF HandledInv, Body
<1>13. AnsweredInv'
  BY <1>2, <1>3, <1>10 DEF AnsweredInv
<1>14. GuardInv'
  <2>1. PasswordGuards'
    <3> SUFFICES ASSUME password, handled # <<>> PROVE PasswordGuards'
      BY <1>2 DEF PasswordGuards
    <3>1. 1 \in 1..Len(handled)
      BY <1>3, <1>4, EmptySeq DEF ReaderTypes
    <3>2. handled[1][1].cseq \in 1..Len(to_send)
      BY <1>3, <3>1 DEF HandledInv
    <3> QED BY <1>2, <1>3, <1>8, <3>2 DEF GuardInv, PasswordGuards
  <2> QED BY <1>2, <1>3, <2>1 DEF GuardInv
<1>15. Reading'
  <2>1. Understood(Len(to_send), to_send[Len(to_send)])'
    <3>1. /\ the_packet' = NoPacket /\ msg_size' = -1
          /\ inbuf' \o wire_bytes' = Wire(Len(to_send'), to_send'[Len(to_send')])
      BY <1>2, <1>5, <1>8, <1>9 DEF Waiting
    <3> QED BY <3>1 DEF Understood
  <2> QED BY <1>2, <1>5, <1>8, <1>9, <1>10, <2>1 DEF Reading, Waiting
<1> QED BY <1>11, <1>12, <1>13, <1>14, <1>15 DEF ReaderInv

\* What is read is part of what was left: in the header and in the body.
LEMMA ReadStep ==
  ASSUME ~SplitsCRLF, ReaderInv, NEW count, NEW k \in ReadsConnection(count), ~conn_stop,
         TakeFromStream(k), UNCHANGED <<password, to_send, the_packet, msg_size, nonce,
                                        authorized, handled, answers, conn_stop>>
  PROVE  ReaderInv'
<1>1. ReaderTypes /\ ReaderTypes'
       /\ inbuf' \o wire_bytes' = inbuf \o wire_bytes
       /\ (inbuf' # <<>> => inbuf'[Len(inbuf')] # CR)
  <2>1. inbuf \in Seq(Elements) /\ wire_bytes \in Seq(Elements) /\ ReaderTypes
    BY DEF ReaderInv, ReaderTypes
  <2>2. k \in 1..Len(wire_bytes) /\ wire_bytes[k] # CR
    BY DEF ReadsConnection
  <2>3. /\ inbuf' \in Seq(Elements) /\ wire_bytes' \in Seq(Elements)
        /\ inbuf' \o wire_bytes' = inbuf \o wire_bytes
        /\ Len(inbuf') = Len(inbuf) + k /\ inbuf'[Len(inbuf) + k] = wire_bytes[k]
    <3> DEFINE s == inbuf \o SubSeq(wire_bytes, 1, k)
               t == SubSeq(wire_bytes, k + 1, Len(wire_bytes))
    <3>0. LosesNothing(inbuf, wire_bytes, k)
      BY <2>1, <2>2, ReadLosesNothing
    <3>1. /\ s \in Seq(Elements) /\ t \in Seq(Elements)
          /\ s \o t = inbuf \o wire_bytes
          /\ Len(s) = Len(inbuf) + k /\ s[Len(inbuf) + k] = wire_bytes[k]
      BY <3>0 DEF LosesNothing
    <3>2. /\ inbuf' = inbuf \o SubSeq(wire_bytes, 1, k)
          /\ wire_bytes' = SubSeq(wire_bytes, k + 1, Len(wire_bytes))
      BY DEF TakeFromStream
    <3> QED BY <3>1, <3>2, Zenon
  <2> QED BY <2>1, <2>2, <2>3 DEF ReaderTypes
<1>2. HandledInv' /\ AnsweredInv' /\ GuardInv' /\ (Accepted' <=> Accepted)
  BY HistoryKept
<1>3. CASE Waiting
  BY <1>3, LenProperties DEF Waiting, ReadsConnection
<1>4. CASE Reading
  <2>1. Understood(Len(to_send), to_send[Len(to_send)])'
    BY <1>1, <1>4 DEF Reading, Understood
  <2>2. Reading'
    BY <1>1, <1>2, <1>4, <2>1 DEF Reading
  <2> QED BY <1>1, <1>2, <2>2 DEF ReaderInv
<1>5. CASE Rejected
  <2>1. /\ inbuf \in Seq(Elements) /\ wire_bytes \in Seq(Elements)
        /\ inbuf' \in Seq(Elements) /\ wire_bytes' \in Seq(Elements)
    BY <1>1 DEF ReaderTypes
  <2>2. /\ Len(inbuf) \in Nat /\ Len(wire_bytes) \in Nat
        /\ Len(inbuf') \in Nat /\ Len(wire_bytes') \in Nat
    BY <2>1, LenProperties
  <2>3. /\ Len(inbuf \o wire_bytes) = Len(inbuf) + Len(wire_bytes)
        /\ \A i \in 1..Len(inbuf) + Len(wire_bytes) :
             (inbuf \o wire_bytes)[i] =
               IF i <= Len(inbuf) THEN inbuf[i] ELSE wire_bytes[i - Len(inbuf)]
    BY <2>1, ConcatProperties
  <2>4. /\ Len(inbuf' \o wire_bytes') = Len(inbuf') + Len(wire_bytes')
        /\ \A i \in 1..Len(inbuf') + Len(wire_bytes') :
             (inbuf' \o wire_bytes')[i] =
               IF i <= Len(inbuf') THEN inbuf'[i] ELSE wire_bytes'[i - Len(inbuf')]
    BY <2>1, ConcatProperties
  <2>5. \A i \in 1..Len(inbuf) + Len(wire_bytes) : (inbuf \o wire_bytes)[i].is # "request"
    BY <1>5, <2>2, <2>3 DEF Rejected
  <2>6. \A j \in 1..Len(inbuf') : inbuf'[j].is # "request"
    <3> TAKE j \in 1..Len(inbuf')
    <3>1. inbuf'[j] = (inbuf' \o wire_bytes')[j]
      BY <2>2, <2>4
    <3> QED BY <1>1, <2>2, <2>3, <2>4, <2>5, <3>1
  <2>7. \A j \in 1..Len(wire_bytes') : wire_bytes'[j].is # "request"
    <3> TAKE j \in 1..Len(wire_bytes')
    <3>1. wire_bytes'[j] = (inbuf' \o wire_bytes')[Len(inbuf') + j]
      BY <2>2, <2>4
    <3> QED BY <1>1, <2>2, <2>3, <2>4, <2>5, <3>1
  <2>8. Rejected'
    BY <1>2, <1>5, <2>6, <2>7 DEF Rejected
  <2> QED BY <1>1, <1>2, <2>8 DEF ReaderInv
<1> QED BY <1>3, <1>4, <1>5 DEF ReaderInv

\* A 400 is written: the buffer goes with what is in it.  It happens only to a bad request
\* or to what is left of one.
LEMMA RejectStep ==
  ASSUME ReaderInv, ~conn_stop,
         the_packet' = NoPacket, msg_size' = -1, inbuf' = <<>>,
         answers' = Append(answers, [code |-> 400, cseq |-> 0, nonce |-> 0]),
         UNCHANGED <<password, to_send, wire_bytes, nonce, authorized, handled, conn_stop>>,
         \A j \in 1..Len(wire_bytes) : wire_bytes[j].is # "request",
         \E r \in 1..Len(to_send) : ~to_send[r].good
  PROVE  ReaderInv'
<1>1. ReaderTypes /\ HandledInv /\ AnsweredInv /\ GuardInv
  BY DEF ReaderInv
<1>2. [code |-> 400, cseq |-> 0, nonce |-> 0] \in Responses
  BY DEF Responses
<1>3. /\ answers' \in Seq(Responses) /\ Len(answers') = Len(answers) + 1
      /\ \A a \in 1..Len(answers) : answers'[a] = answers[a]
      /\ answers'[Len(answers) + 1] = [code |-> 400, cseq |-> 0, nonce |-> 0]
  BY <1>1, <1>2, AppendProperties DEF ReaderTypes
<1>4. Len(answers) \in Nat /\ Len(handled) \in Nat
  BY <1>1, LenProperties DEF ReaderTypes
<1>5. inbuf' \in Seq(Elements) /\ Len(inbuf') = 0
  BY EmptySeq
<1>6. ~Accepted'
  BY <1>3, <1>4 DEF Accepted
<1>7. ReaderTypes'
  BY <1>1, <1>3, <1>5 DEF ReaderTypes
<1>8. HandledInv'
  <2>1. \A h \in 1..Len(handled) : handled[h][1].cseq \in Nat
    <3> TAKE h \in 1..Len(handled)
    <3>1. handled[h] \in Packets \X Seq(Elements)
      BY <1>1, ElementOfSeq DEF ReaderTypes
    <3> QED BY <3>1 DEF Packets
  <2> QED BY <1>1, <1>3, <1>4, <2>1 DEF HandledInv, Body
<1>9. AnsweredInv'
  BY <1>6 DEF AnsweredInv
<1>10. GuardInv'
  <2>1. ASSUME NEW a \in 1..Len(answers)
        PROVE  a \in 1..Len(answers') /\ answers'[a] = answers[a]
    BY <1>3, <1>4
  <2>2. nonce # 0 => \E a \in 1..Len(answers') : answers'[a].code = 401 /\ answers'[a].nonce = nonce
    BY <1>1, <2>1 DEF GuardInv
  <2>3. PasswordGuards'
    BY <1>1, <2>1 DEF GuardInv, PasswordGuards
  <2> QED BY <1>1, <2>2, <2>3 DEF GuardInv
<1>11. Rejected'
  BY <1>5, <1>6 DEF Rejected
<1> QED BY <1>7, <1>8, <1>9, <1>10, <1>11 DEF ReaderInv

\* A line that is understood.
LEMMA GoodLineStep ==
  ASSUME ReaderInv, Reading, ~conn_stop, inbuf' \in Seq(Elements),
         UNCHANGED <<password, to_send, wire_bytes, nonce, authorized, handled, answers,
                     conn_stop>>,
         msg_size' = -1 /\ inbuf' # <<>> => inbuf'[Len(inbuf')] # CR,
         Understood(Len(to_send), to_send[Len(to_send)])'
  PROVE  ReaderInv'
<1>1. HandledInv' /\ AnsweredInv' /\ GuardInv' /\ (Accepted' <=> Accepted)
  BY HistoryKept
<1>2. ReaderTypes'
  BY DEF ReaderInv, ReaderTypes
<1>3. Reading'
  BY <1>1 DEF Reading
<1> QED BY <1>1, <1>2, <1>3 DEF ReaderInv

LEMMA HandleLineStep ==
  ASSUME ReaderInv, HandleLine
  PROVE  ReaderInv'
<1> DEFINE got == SubSeq(inbuf, 1, LineEnd - 1)
           m    == msg_handle_line(got)
           rest == SubSeq(inbuf, nextline, Len(inbuf))
           i    == Len(to_send)
           r    == to_send[i]
<1>1. /\ ~conn_stop /\ msg_size = -1 /\ LineEnds # {}
      /\ \/ /\ m[1] # NoPacket /\ the_packet' = m[1] /\ msg_size' = m[2]
            /\ inbuf' = rest /\ UNCHANGED answers
         \/ /\ m[1] = NoPacket /\ the_packet' = NoPacket /\ msg_size' = -1 /\ inbuf' = <<>>
            /\ answers' = Append(answers, [code |-> 400, cseq |-> 0, nonce |-> 0])
      /\ UNCHANGED <<password, to_send, wire_bytes, nonce, authorized, handled, conn_stop>>
  BY DEF HandleLine
<1>2. /\ ReaderTypes /\ inbuf \in Seq(Elements) /\ wire_bytes \in Seq(Elements)
      /\ Len(inbuf) \in Nat /\ Len(wire_bytes) \in Nat /\ i \in Nat
  BY LenProperties DEF ReaderInv, ReaderTypes
<1>3. Len(inbuf) >= 1 /\ inbuf # <<>>
  <2>1. PICK e \in 1..Len(inbuf) : e \in LineEnds
    BY <1>1 DEF LineEnds
  <2>2. 1 <= Len(inbuf)
    BY <1>2, <2>1
  <2> QED BY <1>2, <2>2, EmptySeq
<1> HIDE DEF m, got, rest
<1>4. CASE Waiting
  BY <1>3, <1>4 DEF Waiting
<1>5. CASE Rejected
  <2>1. the_packet = NoPacket
    BY <1>5 DEF Rejected
  <2>2. LineEnds \subseteq 1..Len(inbuf)
    BY DEF LineEnds
  <2>3. got # <<>> => got[1].is # "request"
    <3>1. CASE LineEnd - 1 \in 1..Len(inbuf)
      <4>1. got[1] = inbuf[1]
        <5>1. LineEnd - 1 \in Int /\ 1 \in 1..LineEnd - 1
          BY <1>2, <3>1
        <5>2. \A j \in 1..LineEnd - 1 : inbuf[j] \in Elements
          BY <1>2, <3>1, ElementOfSeq
        <5>3. \A j \in 1..LineEnd - 1 - 1 + 1 : got[j] = inbuf[1 + j - 1]
          BY <5>1, <5>2, SubSeqProperties DEF got
        <5> QED BY <5>1, <5>3
      <4> QED BY <1>2, <1>3, <1>5, <4>1 DEF Rejected
    <3>2. CASE LineEnd - 1 \notin 1..Len(inbuf)
      <4>1. LineEnd \in 1..Len(inbuf)
        <5>1. \E a \in LineEnds : \A b \in LineEnds : a <= b
          <6> DEFINE R == {p \in Nat \X Nat : p[1] < p[2]}
          <6>1. LineEnds \subseteq Nat
            BY <1>2, <2>2
          <6>2. IsWellFoundedOn(R, Nat)
            BY NatLessThanWellFounded, Zenon DEF OpToRel
          <6> HIDE DEF R
          <6>3. PICK a \in LineEnds : \A b \in LineEnds : ~(<<b, a>> \in R)
            BY <1>1, <6>1, <6>2, WFMin, Zenon
          <6>4. \A b \in LineEnds : ~(b < a)
            BY <6>1, <6>3 DEF R
          <6> QED BY <6>1, <6>4
        <5>2. LineEnd \in LineEnds
          BY <5>1, Zenon DEF LineEnd
        <5> QED BY <2>2, <5>2
      <4>2. LineEnd - 1 \in Int /\ LineEnd - 1 < 1
        BY <1>2, <3>2, <4>1
      <4> QED BY <4>2, SubSeqEmpty DEF got
    <3> QED BY <3>1, <3>2
  <2>4. m = <<NoPacket, 0>>
    BY <2>1, <2>3 DEF m, msg_handle_line
  <2>5. \E q \in 1..Len(to_send) : ~to_send[q].good
    BY <1>5 DEF Rejected, ReaderInv, AnsweredInv
  <2>6. \A j \in 1..Len(wire_bytes) : wire_bytes[j].is # "request"
    BY <1>5 DEF Rejected
  <2>7. m[1] = NoPacket
    BY <2>4
  <2> QED BY <1>1, <2>5, <2>6, <2>7, RejectStep
<1>6. CASE Reading
  <2>1. /\ Accepted /\ Len(to_send) = Len(answers) + 1 /\ Understood(i, r)
        /\ inbuf[Len(inbuf)] # CR
    BY <1>1, <1>3, <1>6 DEF Reading
  <2>2. i \in Nat /\ i \in 1..Len(to_send) /\ r \in Requests
    <3>1. Len(answers) \in Nat
      BY <1>2, LenProperties DEF ReaderTypes
    <3>2. i \in 1..Len(to_send)
      BY <1>2, <2>1, <3>1
    <3> QED BY <1>2, <3>2, ElementOfSeq DEF ReaderTypes
  <2>3. /\ r.good \in BOOLEAN /\ r.size \in Nat /\ r.digest \in Int
        /\ Body(i, r) \in Seq(Elements)
        /\ AfterHeaders(i, r) \in Seq(Elements) /\ AfterAuth(i, r) \in Seq(Elements)
        /\ AfterFirst(i, r) \in Seq(Elements)
        /\ Wire(i, r) = Ended(RequestLine(IF r.good THEN "request" ELSE "junk", i))
                          \o AfterFirst(i, r)
    BY <2>2, PartsOfRequest
  <2> HIDE DEF i, r
  <2>4. ASSUME NEW x \in Elements, x.is \notin {"CR", "LF"}, NEW T \in Seq(Elements),
               inbuf \o wire_bytes = Ended(x) \o T
        PROVE  /\ got = <<x>> /\ rest \in Seq(Elements) /\ rest \o wire_bytes = T
               /\ rest # <<>> => rest[Len(rest)] # CR
    BY <1>1, <1>2, <2>1, <2>4, LineIsWhole DEF Ended, got, rest
  <2>5. ASSUME NEW T \in Seq(Elements), inbuf \o wire_bytes = <<CR, LF>> \o T
        PROVE  got = <<>> /\ rest \in Seq(Elements) /\ rest \o wire_bytes = T
    BY <1>1, <1>2, <2>1, <2>5, EmptyLineIsWhole DEF got, rest
  <2>6. ASSUME m[1] # NoPacket, rest \in Seq(Elements),
               m[2] = -1 /\ rest # <<>> => rest[Len(rest)] # CR,
               the_packet' = m[1] /\ msg_size' = m[2] /\ inbuf' = rest /\ UNCHANGED answers
                 => Understood(i, r)'
        PROVE  ReaderInv'
    <3>1. the_packet' = m[1] /\ msg_size' = m[2] /\ inbuf' = rest /\ UNCHANGED answers
      BY <1>1, <2>6
    <3>2. Understood(Len(to_send), to_send[Len(to_send)])'
      BY <2>6, <3>1 DEF i, r
    <3> QED BY <1>1, <1>6, <2>6, <3>1, <3>2, GoodLineStep
  <2>7. \A d, l : Packet(i, d, l) # NoPacket
    <3>1. \A d, l : Packet(i, d, l).method = "request"
      BY DEF Packet
    <3>2. NoPacket.method = "none"
      BY DEF NoPacket
    <3> QED BY <3>1, <3>2
  <2>8. i' = i /\ r' = r /\ wire_bytes' = wire_bytes
    BY <1>1 DEF i, r
  <2>9. CASE the_packet = NoPacket /\ inbuf \o wire_bytes = Wire(i, r)
    <3> DEFINE x == RequestLine(IF r.good THEN "request" ELSE "junk", i)
    <3>1. x \in Elements /\ x.is = (IF r.good THEN "request" ELSE "junk") /\ x.n = i
      BY <2>2, <2>3, ElementIs
    <3> HIDE DEF x
    <3>2. inbuf \o wire_bytes = Ended(x) \o AfterFirst(i, r)
      BY <2>3, <2>9 DEF x
    <3>3. x.is \notin {"CR", "LF"}
      BY <2>3, <3>1
    <3>4. /\ got = <<x>> /\ rest \in Seq(Elements) /\ rest \o wire_bytes = AfterFirst(i, r)
          /\ rest # <<>> => rest[Len(rest)] # CR
      BY <2>3, <2>4, <3>1, <3>2, <3>3
    <3>5. got # <<>> /\ got[1] = x
      BY <3>4
    <3>6. CASE r.good
      <4>1. m = <<Packet(i, 0, 0), -1>>
        BY <2>9, <3>1, <3>5, <3>6 DEF m, msg_handle_line, Packet
      <4>2. m[1] = Packet(i, 0, 0) /\ m[2] = -1
        BY <4>1
      <4>3. the_packet' = m[1] /\ msg_size' = m[2] /\ inbuf' = rest => Understood(i, r)'
        BY <2>8, <3>4, <3>6, <4>2 DEF Understood, Packet, AfterFirst, AfterAuth, AfterHeaders,
           Body
      <4> QED BY <2>6, <2>7, <3>4, <4>2, <4>3
    <3>7. CASE ~r.good
      <4>1. m = <<NoPacket, 0>>
        BY <2>9, <3>1, <3>5, <3>7 DEF m, msg_handle_line
      <4>2. \A j \in 1..Len(Wire(i, r)) : Wire(i, r)[j].is # "request"
        BY <2>2, <3>7, OneFirstLine
      <4>3. \A j \in 1..Len(wire_bytes) : wire_bytes[j].is # "request"
        <5> TAKE j \in 1..Len(wire_bytes)
        <5>1. /\ Len(inbuf \o wire_bytes) = Len(inbuf) + Len(wire_bytes)
              /\ \A k \in 1..Len(inbuf) + Len(wire_bytes) :
                   (inbuf \o wire_bytes)[k] =
                     IF k <= Len(inbuf) THEN inbuf[k] ELSE wire_bytes[k - Len(inbuf)]
          BY <1>2, ConcatProperties
        <5>2. wire_bytes[j] = (inbuf \o wire_bytes)[Len(inbuf) + j]
          BY <1>2, <5>1
        <5>3. Len(inbuf) + j \in 1..Len(Wire(i, r))
          BY <1>2, <2>9, <5>1
        <5> QED BY <2>9, <4>2, <5>2, <5>3
      <4>4. m[1] = NoPacket
        BY <4>1
      <4>5. \E q \in 1..Len(to_send) : ~to_send[q].good
        BY <2>2, <3>7 DEF r
      <4> QED BY <1>1, <4>3, <4>4, <4>5, RejectStep
    <3> QED BY <3>6, <3>7
  <2>10. CASE r.good /\ the_packet = Packet(i, 0, 0) /\ inbuf \o wire_bytes = AfterFirst(i, r)
    <3> DEFINE x == RequestLine("auth", r.digest)
    <3>1. x \in Elements /\ x.is = "auth" /\ x.n = r.digest
      BY <2>3, ElementIs
    <3> HIDE DEF x
    <3>2. inbuf \o wire_bytes = Ended(x) \o AfterAuth(i, r)
      BY <2>10 DEF x, AfterFirst
    <3>3. /\ got = <<x>> /\ rest \in Seq(Elements) /\ rest \o wire_bytes = AfterAuth(i, r)
          /\ rest # <<>> => rest[Len(rest)] # CR
      BY <2>3, <2>4, <3>1, <3>2
    <3>4. got # <<>> /\ got[1] = x
      BY <3>3
    <3>5. m = <<[the_packet EXCEPT !.digest = x.n], -1>>
      BY <2>7, <2>10, <3>1, <3>4 DEF m, msg_handle_line
    <3>6. m[1] = Packet(i, r.digest, 0) /\ m[2] = -1
      BY <2>10, <3>1, <3>5 DEF Packet
    <3>7. the_packet' = m[1] /\ msg_size' = m[2] /\ inbuf' = rest => Understood(i, r)'
      BY <2>8, <2>10, <3>3, <3>6 DEF Understood, Packet, AfterAuth, AfterHeaders, Body
    <3> QED BY <2>6, <2>7, <3>3, <3>6, <3>7
  <2>11. CASE /\ r.good /\ r.size > 0 /\ the_packet = Packet(i, r.digest, 0)
              /\ inbuf \o wire_bytes = AfterAuth(i, r)
    <3> DEFINE x == RequestLine("Content-Length", r.size)
    <3>1. x \in Elements /\ x.is = "Content-Length" /\ x.n = r.size
      BY <2>3, ElementIs
    <3> HIDE DEF x
    <3>2. inbuf \o wire_bytes = Ended(x) \o AfterHeaders(i, r)
      BY <2>11 DEF x, AfterAuth
    <3>3. /\ got = <<x>> /\ rest \in Seq(Elements) /\ rest \o wire_bytes = AfterHeaders(i, r)
          /\ rest # <<>> => rest[Len(rest)] # CR
      BY <2>3, <2>4, <3>1, <3>2
    <3>4. got # <<>> /\ got[1] = x
      BY <3>3
    <3>5. m = <<[the_packet EXCEPT !.length = x.n], -1>>
      BY <2>7, <2>11, <3>1, <3>4 DEF m, msg_handle_line
    <3>6. m[1] = Packet(i, r.digest, r.size) /\ m[2] = -1
      BY <2>11, <3>1, <3>5 DEF Packet
    <3>7. the_packet' = m[1] /\ msg_size' = m[2] /\ inbuf' = rest => Understood(i, r)'
      BY <2>8, <2>11, <3>3, <3>6 DEF Understood, Packet, AfterHeaders, Body
    <3> QED BY <2>6, <2>7, <3>3, <3>6, <3>7
  <2>12. CASE /\ r.good /\ the_packet = Packet(i, r.digest, r.size)
              /\ inbuf \o wire_bytes = AfterHeaders(i, r)
    <3>1. got = <<>> /\ rest \in Seq(Elements) /\ rest \o wire_bytes = Body(i, r)
      BY <2>3, <2>5, <2>12 DEF AfterHeaders
    <3>2. m = <<the_packet, the_packet.length>>
      BY <2>7, <2>12, <3>1 DEF m, msg_handle_line
    <3>3. m[1] = Packet(i, r.digest, r.size) /\ m[2] = r.size
      BY <2>12, <3>2 DEF Packet
    <3>4. the_packet' = m[1] /\ msg_size' = m[2] /\ inbuf' = rest => Understood(i, r)'
      BY <2>8, <2>12, <3>1, <3>3 DEF Understood, Packet, Body
    <3>5. m[2] # -1
      BY <2>3, <3>3
    <3> QED BY <2>6, <2>7, <3>1, <3>3, <3>4, <3>5
  <2>13. r.size = 0 => AfterAuth(i, r) = AfterHeaders(i, r)
    BY DEF AfterAuth
  <2>14. msg_size # r.size
    BY <1>1, <2>3
  <2>15. \/ the_packet = NoPacket /\ inbuf \o wire_bytes = Wire(i, r)
         \/ r.good /\ the_packet = Packet(i, 0, 0) /\ inbuf \o wire_bytes = AfterFirst(i, r)
         \/ /\ r.good /\ the_packet = Packet(i, r.digest, 0)
            /\ inbuf \o wire_bytes = AfterAuth(i, r)
         \/ /\ r.good /\ the_packet = Packet(i, r.digest, r.size)
            /\ inbuf \o wire_bytes = AfterHeaders(i, r)
    BY <2>1, <2>14, Zenon DEF Understood
  <2>16. r.size = 0 \/ r.size > 0
    BY <2>3
  <2>17. CASE /\ r.good /\ r.size = 0 /\ the_packet = Packet(i, r.digest, 0)
              /\ inbuf \o wire_bytes = AfterAuth(i, r)
    <3>1. /\ r.good /\ the_packet = Packet(i, r.digest, r.size)
          /\ inbuf \o wire_bytes = AfterHeaders(i, r)
      BY <2>13, <2>17
    <3> QED BY <2>12, <3>1
  <2> QED
    BY <2>9, <2>10, <2>11, <2>12, <2>15, <2>16, <2>17, Zenon
<1> QED BY <1>1, <1>4, <1>5, <1>6 DEF ReaderInv

\* The request is whole: its body is all that is left of it.  It is handled if the client
\* has shown that it knows the password, now or before.
LEMMA AnswerStep ==
  ASSUME ReaderInv, Answer
  PROVE  ReaderInv'
<1> DEFINE i == Len(to_send)
           r == to_send[i]
           A == Len(answers)
           H == Len(handled)
<1>1. /\ ~conn_stop /\ msg_size >= 0 /\ msg_size # -1 /\ BodyMissing <= 0
      /\ the_packet' = NoPacket /\ msg_size' = -1 /\ inbuf' = <<>>
      /\ UNCHANGED <<password, to_send, wire_bytes>>
  BY DEF Answer
<1>2. Reading
  BY <1>1 DEF ReaderInv, Waiting, Rejected
<1>3. ReaderTypes /\ HandledInv /\ AnsweredInv /\ GuardInv
  BY DEF ReaderInv
<1>4. /\ inbuf \in Seq(Elements) /\ wire_bytes \in Seq(Elements) /\ A \in Nat /\ H \in Nat
      /\ i = A + 1 /\ i \in Nat /\ i \in 1..Len(to_send) /\ r \in Requests
  <2>1. /\ inbuf \in Seq(Elements) /\ wire_bytes \in Seq(Elements) /\ A \in Nat /\ H \in Nat
    BY <1>3, LenProperties DEF ReaderTypes
  <2>2. i = A + 1
    BY <1>2 DEF Reading
  <2>3. i \in 1..Len(to_send)
    BY <2>1, <2>2
  <2> QED BY <1>3, <2>1, <2>2, <2>3, ElementOfSeq DEF ReaderTypes
<1>5. /\ r.good /\ msg_size = r.size /\ the_packet = Packet(i, r.digest, r.size)
      /\ inbuf \o wire_bytes = Body(i, r)
  BY <1>1, <1>2 DEF Reading, Understood
<1>6. /\ r.size \in Nat /\ r.digest \in Int
      /\ Body(i, r) \in Seq(Elements) /\ Len(Body(i, r)) = r.size
  BY <1>4, PartsOfRequest
<1>7. inbuf = Body(i, r) /\ wire_bytes = <<>>
  <2>1. Len(inbuf) + Len(wire_bytes) = r.size /\ Len(inbuf) \in Nat /\ Len(wire_bytes) \in Nat
    BY <1>4, <1>5, <1>6, ConcatProperties, LenProperties
  <2>2. r.size - Len(inbuf) <= 0
    BY <1>1, <1>5 DEF BodyMissing
  <2>3. Len(wire_bytes) = 0
    BY <1>6, <2>1, <2>2
  <2>4. wire_bytes = <<>>
    BY <1>4, <2>3, EmptySeq
  <2>5. inbuf \o <<>> = inbuf
    BY <1>4, ConcatEmptySeq
  <2> QED BY <1>5, <2>4, <2>5
<1>8. PICK code \in {200, 501}, size \in ReplySizes :
        LET served == authorized \/ Passes
            fits == ~served \/ size <= pktfree
        IN /\ authorized' = served
           /\ nonce' = IF authorized THEN nonce ELSE make_nonce
           /\ handled' = IF served THEN Append(handled, <<the_packet, inbuf>>) ELSE handled
           /\ answers' = IF fits
                         THEN Append(answers, [code |-> IF served THEN code ELSE 401,
                                               cseq |-> the_packet.cseq, nonce |-> nonce'])
                         ELSE answers
           /\ conn_stop' = ~fits
  BY Zenon DEF Answer
<1> DEFINE served == authorized \/ Passes
           fits   == ~served \/ size <= pktfree
           reply  == [code |-> IF served THEN code ELSE 401, cseq |-> i, nonce |-> nonce']
           entry  == <<the_packet, inbuf>>
<1>9. /\ authorized' = served /\ conn_stop' = ~fits
      /\ nonce' = IF authorized THEN nonce ELSE make_nonce
      /\ handled' = IF served THEN Append(handled, entry) ELSE handled
      /\ answers' = IF fits THEN Append(answers, reply) ELSE answers
  <2>1. the_packet.cseq = i
    BY <1>5 DEF Packet
  <2> QED BY <1>8, <2>1, SMT
<1>10. served \in BOOLEAN /\ fits \in BOOLEAN
  <2>1. authorized \in BOOLEAN
    BY <1>3 DEF ReaderTypes
  <2>2. Passes \in BOOLEAN
    BY Zenon DEF Passes
  <2> QED BY <2>1, <2>2, Zenon
<1>11. nonce' \in Nat
  BY <1>3, <1>4, <1>9 DEF ReaderTypes, make_nonce
<1>12. reply \in Responses /\ reply.cseq = i /\ reply.nonce = nonce'
       /\ reply.code = (IF served THEN code ELSE 401) /\ reply.code # 400
  <2> HIDE DEF served
  <2> QED BY <1>4, <1>11 DEF Responses
<1>13. entry \in Packets \X Seq(Elements) /\ entry[1] = Packet(i, r.digest, r.size)
       /\ entry[1].cseq = i /\ entry[2] = Body(i, r)
  <2>1. Packet(i, r.digest, r.size) \in Packets /\ Packet(i, r.digest, r.size).cseq = i
    BY <1>4, <1>6 DEF Packet, Packets
  <2> QED BY <1>4, <1>5, <1>7, <2>1
<1> HIDE DEF i, r, A, H, reply, entry, fits
<1>14. /\ handled' \in Seq(Packets \X Seq(Elements))
       /\ \A h \in 1..H : handled'[h] = handled[h] /\ h \in 1..Len(handled')
       /\ served => Len(handled') = H + 1 /\ handled'[H + 1] = entry /\ handled' # <<>>
       /\ ~served => handled' = handled
  <2> HIDE DEF served
  <2>1. handled \in Seq(Packets \X Seq(Elements))
    BY <1>3 DEF ReaderTypes
  <2>2. /\ Append(handled, entry) \in Seq(Packets \X Seq(Elements))
        /\ Append(handled, entry) # <<>> /\ Len(Append(handled, entry)) = H + 1
        /\ \A h \in 1..H : Append(handled, entry)[h] = handled[h]
        /\ Append(handled, entry)[H + 1] = entry
    <3> DEFINE S == Packets \X Seq(Elements)
    <3>1. handled \in Seq(S) /\ entry \in S
      BY <1>13, <2>1
    <3> HIDE DEF S
    <3>2. /\ Append(handled, entry) \in Seq(S)
          /\ Append(handled, entry) # <<>> /\ Len(Append(handled, entry)) = Len(handled) + 1
          /\ \A h \in 1..Len(handled) : Append(handled, entry)[h] = handled[h]
          /\ Append(handled, entry)[Len(handled) + 1] = entry
      BY <3>1, AppendProperties
    <3> QED BY <3>2 DEF S, H
  <2>3. CASE served
    BY <1>4, <1>9, <2>2, <2>3
  <2>4. CASE ~served
    BY <1>4, <1>9, <2>1, <2>4 DEF H
  <2> QED BY <2>3, <2>4
<1>15. /\ answers' \in Seq(Responses)
       /\ \A a \in 1..A : answers'[a] = answers[a] /\ a \in 1..Len(answers')
       /\ fits => Len(answers') = A + 1 /\ answers'[A + 1] = reply
       /\ ~fits => answers' = answers
  <2>1. answers \in Seq(Responses)
    BY <1>3 DEF ReaderTypes
  <2>2. /\ Append(answers, reply) \in Seq(Responses) /\ Len(Append(answers, reply)) = A + 1
        /\ \A a \in 1..A : Append(answers, reply)[a] = answers[a]
        /\ Append(answers, reply)[A + 1] = reply
    BY <1>12, <2>1, AppendProperties DEF A
  <2>3. CASE fits
    BY <1>4, <1>9, <2>2, <2>3
  <2>4. CASE ~fits
    BY <1>4, <1>9, <2>1, <2>4 DEF A
  <2> QED BY <2>3, <2>4
<1>16. ReaderTypes'
  <2>1. inbuf' \in Seq(Elements)
    BY <1>1, EmptySeq
  <2>2. authorized' \in BOOLEAN /\ conn_stop' \in BOOLEAN
    BY <1>9, <1>10, Zenon
  <2>3. password' \in BOOLEAN /\ to_send' \in Seq(Requests) /\ wire_bytes' \in Seq(Elements)
    BY <1>1, <1>3 DEF ReaderTypes
  <2> QED BY <1>11, <1>14, <1>15, <2>1, <2>2, <2>3, Zenon DEF ReaderTypes
<1>17. Accepted /\ Accepted'
  <2>1. Accepted
    BY <1>2 DEF Reading
  <2>2. Accepted'
    BY <1>4, <1>12, <1>15, <2>1 DEF Accepted, A
  <2> QED BY <2>1, <2>2
<1>18. HandledInv'
  <2>1. \A h \in 1..H : /\ handled[h][1].cseq \in 1..i /\ handled[h][1].cseq <= A
                        /\ handled[h][2] = Body(handled[h][1].cseq, to_send[handled[h][1].cseq])
                        /\ \A g \in 1..h - 1 : handled[g][1].cseq < handled[h][1].cseq
    BY <1>1, <1>3 DEF HandledInv, A, H, i
  <2>2. ASSUME NEW h \in 1..Len(handled')
        PROVE  /\ handled'[h][1].cseq \in 1..i
               /\ handled'[h][2] = Body(handled'[h][1].cseq, to_send[handled'[h][1].cseq])
               /\ \A g \in 1..h - 1 : handled'[g][1].cseq < handled'[h][1].cseq
    <3>1. CASE h \in 1..H
      <4>1. \A g \in 1..h - 1 : g \in 1..H
        BY <1>4, <3>1
      <4>2. handled'[h] = handled[h] /\ \A g \in 1..h - 1 : handled'[g] = handled[g]
        BY <1>14, <3>1, <4>1
      <4> QED BY <2>1, <3>1, <4>2
    <3>2. CASE h \notin 1..H
      <4>1. served /\ h = H + 1
        BY <1>4, <1>14, <3>2 DEF H
      <4>2. handled'[h][1].cseq = i /\ handled'[h][2] = Body(i, r)
        BY <1>13, <1>14, <4>1
      <4>3. \A g \in 1..H : handled'[g][1].cseq < i
        <5> TAKE g \in 1..H
        <5>1. handled'[g] = handled[g]
          BY <1>14
        <5>2. handled[g][1].cseq \in 1..i /\ handled[g][1].cseq <= A
          BY <2>1
        <5> QED BY <1>4, <5>1, <5>2
      <4>4. h - 1 = H
        BY <1>4, <4>1
      <4>5. to_send[i] = r /\ i \in 1..i
        BY <1>4 DEF r, i
      <4> QED BY <4>2, <4>3, <4>4, <4>5
    <3> QED BY <3>1, <3>2
  <2>3. ~conn_stop' => \A h \in 1..Len(handled') : handled'[h][1].cseq <= Len(answers')
    <3>1. ~conn_stop' => Len(answers') = i
      BY <1>4, <1>9, <1>15
    <3> QED BY <1>4, <2>2, <3>1
  <2>4. Len(to_send') = i /\ to_send' = to_send
    BY <1>1 DEF i
  <2>5. ASSUME NEW h \in 1..Len(handled')
        PROVE  LET p == handled'[h][1] IN
               p.cseq \in 1..Len(to_send') /\ handled'[h][2] = Body(p.cseq, to_send'[p.cseq])
    <3> DEFINE c == handled'[h][1].cseq
    <3>1. c \in 1..i /\ handled'[h][2] = Body(c, to_send[c])
      <4> HIDE DEF i
      <4> QED BY <2>2
    <3>2. 1..Len(to_send') = 1..i /\ to_send'[c] = to_send[c]  BY <2>4, Zenon
    <3> HIDE DEF c, i
    <3>3. c \in 1..Len(to_send') /\ handled'[h][2] = Body(c, to_send'[c])
      BY <3>1, <3>2, Zenon
    <3> QED BY <3>3, Zenon DEF c
  <2>6. \A h \in 1..Len(handled') : \A g \in 1..(h - 1) :
          handled'[g][1].cseq < handled'[h][1].cseq
    BY <2>2, Zenon
  <2> QED BY <2>3, <2>5, <2>6, Zenon DEF HandledInv, Body
<1>19. AnsweredInv'
  <2>1. \A a \in 1..A : answers[a].cseq = a
    BY <1>3, <1>17 DEF AnsweredInv, A
  <2>2. \A a \in 1..Len(answers') : answers'[a].cseq = a
    <3>1. CASE fits
      BY <1>4, <1>12, <1>15, <2>1, <3>1
    <3>2. CASE ~fits
      BY <1>15, <2>1, <3>2 DEF A
    <3> QED BY <3>1, <3>2
  <2> QED BY <1>17, <2>2 DEF AnsweredInv
<1>20. GuardInv'
  <2>1. nonce' # 0 => \E a \in 1..Len(answers') :
                        answers'[a].code = 401 /\ answers'[a].nonce = nonce'
    <3>1. CASE nonce' = nonce
      BY <1>3, <1>15, <3>1 DEF GuardInv, A
    <3>2. CASE nonce' # nonce
      <4>1. ~authorized /\ password /\ nonce = 0
        BY <1>9, <3>2 DEF make_nonce
      <4>2. ~served
        BY <4>1 DEF Passes
      <4>3. fits
        BY <4>2 DEF fits
      <4> QED BY <1>4, <1>12, <1>15, <4>2, <4>3
    <3> QED BY <3>1, <3>2
  <2>2. authorized' => handled' # <<>>
    BY <1>9, <1>14
  <2>3. PasswordGuards'
    <3> SUFFICES ASSUME password, handled' # <<>>
                 PROVE  \E a \in 1..Len(answers') :
                          /\ answers'[a].code = 401 /\ answers'[a].cseq < handled'[1][1].cseq
                          /\ to_send[handled'[1][1].cseq].digest = answers'[a].nonce
      BY <1>1 DEF PasswordGuards
    <3>1. CASE handled # <<>>
      <4>1. 1 \in 1..H
        BY <1>3, <1>4, <3>1, EmptySeq DEF ReaderTypes, H
      <4>2. handled'[1] = handled[1]
        BY <1>14, <4>1
      <4>3. \E a \in 1..A : /\ answers[a].code = 401 /\ answers[a].cseq < handled[1][1].cseq
                            /\ to_send[handled[1][1].cseq].digest = answers[a].nonce
        BY <1>3, <3>1 DEF GuardInv, PasswordGuards, A
      <4> QED BY <1>15, <4>2, <4>3
    <3>2. CASE handled = <<>>
      <4>1. served /\ H = 0 /\ ~authorized
        BY <1>3, <1>14, <3>2, EmptySeq DEF GuardInv, H
      <4>2. nonce # 0 /\ the_packet.digest = nonce
        BY <4>1 DEF Passes
      <4>3. handled'[1][1].cseq = i
        BY <1>13, <1>14, <4>1
      <4>4. to_send[i].digest = nonce
        BY <1>5, <4>2 DEF Packet, r
      <4>5. PICK a \in 1..A : answers[a].code = 401 /\ answers[a].nonce = nonce
        BY <1>3, <4>2 DEF GuardInv, A
      <4>6. answers[a].cseq = a
        BY <1>3, <1>17 DEF AnsweredInv, A
      <4>7. a < i
        BY <1>4
      <4> QED BY <1>15, <4>3, <4>4, <4>5, <4>6, <4>7
    <3> QED BY <3>1, <3>2
  <2> QED BY <2>1, <2>2, <2>3 DEF GuardInv
<1>21. ~conn_stop' => Waiting'
  <2>1. ~conn_stop' => Len(answers') = Len(to_send')
    BY <1>1, <1>4, <1>9, <1>15 DEF i
  <2> QED BY <1>1, <1>7, <1>17, <2>1 DEF Waiting
<1> QED BY <1>16, <1>18, <1>19, <1>20, <1>21 DEF ReaderInv

LEMMA ReaderInvStep ==
  ASSUME ~Pipelining, ~SplitsCRLF, ReaderInv, [ReaderNext]_rdvars
  PROVE  ReaderInv'
<1>1. CASE Send
  BY <1>1, SendStep
<1>2. CASE ReadHeader
  <2>1. PICK k \in ReadsConnection(buflen - Len(inbuf)) : TakeFromStream(k)
    BY <1>2 DEF ReadHeader
  <2>2. ~conn_stop /\ UNCHANGED <<password, to_send, the_packet, msg_size, nonce, authorized,
                                  handled, answers, conn_stop>>
    BY <1>2 DEF ReadHeader
  <2> QED BY <2>1, <2>2, ReadStep
<1>3. CASE HandleLine
  BY <1>3, HandleLineStep
<1>4. CASE ReadBody
  <2>1. PICK k \in ReadsConnection(BodyMissing) : TakeFromStream(k)
    BY <1>4 DEF ReadBody
  <2>2. ~conn_stop /\ UNCHANGED <<password, to_send, the_packet, msg_size, nonce, authorized,
                                  handled, answers, conn_stop>>
    BY <1>4 DEF ReadBody
  <2> QED BY <2>1, <2>2, ReadStep
<1>5. CASE Answer
  BY <1>5, AnswerStep
<1>6. CASE ChannelClosed
  <2>1. /\ conn_stop' = TRUE
        /\ UNCHANGED <<password, to_send, wire_bytes, inbuf, msg_size, nonce, authorized,
                       handled, answers>>
    BY <1>6 DEF ChannelClosed
  <2>2. HandledInv' /\ AnsweredInv' /\ GuardInv'
    BY <2>1, HistoryKept
  <2>3. ReaderTypes'
    BY <2>1 DEF ReaderInv, ReaderTypes
  <2> QED BY <2>1, <2>2, <2>3 DEF ReaderInv
<1>7. CASE UNCHANGED rdvars
  <2>1. /\ UNCHANGED <<password, to_send, wire_bytes, inbuf, the_packet>>
        /\ UNCHANGED <<msg_size, nonce, authorized, handled, answers, conn_stop>>
    BY <1>7 DEF rdvars
  <2>2. HandledInv' /\ AnsweredInv' /\ GuardInv' /\ (Accepted' <=> Accepted)
    BY <2>1, HistoryKept
  <2>3. ReaderTypes'
    BY <2>1 DEF ReaderInv, ReaderTypes
  <2>4. (Waiting => Waiting') /\ (Reading => Reading') /\ (Rejected => Rejected')
    BY <2>1, <2>2 DEF Waiting, Reading, Rejected, Understood
  <2> QED BY <2>1, <2>2, <2>3, <2>4 DEF ReaderInv
<1> QED BY <1>1, <1>2, <1>3, <1>4, <1>5, <1>6, <1>7 DEF ReaderNext

\* However its requests are cut into reads, a client that waits for its answers has them
\* handled whole and answered in order, and not before it has shown that it knows the
\* password; a read that ends between a CR and its LF is excepted (rtsp_read_request,
\* nextline, rtsp_auth, rtsp_conversation_thread_func).
THEOREM ServedAsSent ==
  ~Pipelining /\ ~SplitsCRLF => (ReaderSpec => []RequestsAreServed)
<1> SUFFICES ASSUME ~Pipelining, ~SplitsCRLF PROVE ReaderSpec => []RequestsAreServed
  OBVIOUS
<1>1. ReaderInv => RequestsAreServed
  <2> SUFFICES ASSUME ReaderInv PROVE RequestsAreServed
    OBVIOUS
  <2>1. HandledAsSent
    BY DEF ReaderInv, HandledInv, HandledAsSent, Body
  <2>2. AnswersInStep
    BY DEF ReaderInv, AnsweredInv, Accepted, AnswersInStep
  <2>3. PasswordGuards
    BY DEF ReaderInv, GuardInv
  <2> QED BY <2>1, <2>2, <2>3 DEF RequestsAreServed
<1>2. ReaderInv /\ [ReaderNext]_rdvars => ReaderInv'
  BY ReaderInvStep
<1> QED BY ReaderInvInit, <1>1, <1>2, PTL DEF ReaderSpec
-----------------------------------------------------------------------------
(***************************************************************************)
(* Timing in classic AirPlay.                                              *)
(***************************************************************************)
LEMMA Division ==
  ASSUME NEW m \in Nat \ {0}, NEW x \in Int
  PROVE  \E q \in Int : \E r \in 0 .. m - 1 : x % m = r /\ x = m * q + r
<1> DEFINE q == x \div m
           r == x % m
<1>1. r = x - m * q  BY SMT
<1>2. q \in Int  BY SMT
<1>3. r \in 0 .. m - 1  BY SMT
<1> HIDE DEF q, r
<1>4. x = m * q + r  BY <1>1, <1>2, <1>3, SMT
<1> QED  BY <1>2, <1>3, <1>4 DEF r

LEMMA Remainder ==
  ASSUME NEW m \in Nat \ {0}, NEW q \in Int, NEW r \in 0 .. m - 1
  PROVE  (m * q + r) % m = r
<1> DEFINE x == m * q + r
<1>1. x \in Int  BY SMT
<1>2. PICK p \in Int, e \in 0 .. m - 1 : x % m = e /\ x = m * p + e
  <2> HIDE DEF x
  <2> QED  BY <1>1, Division
<1>3. m * q + r = m * p + e  BY <1>2
<1>4. m * (q - p) = e - r  BY <1>3, SMT
<1>5. q - p >= 1 => m * (q - p) >= m  BY SMT
<1>6. q - p <= -1 => m * (q - p) <= -m  BY SMT
<1>7. q - p = 0  BY <1>4, <1>5, <1>6, SMT
<1>8. m * (q - p) = 0  BY <1>7, SMT
<1>9. e = r  BY <1>4, <1>8, SMT
<1> QED  BY <1>2, <1>9

LEMMA RemainderType ==
  ASSUME NEW m \in Nat \ {0}, NEW x \in Int
  PROVE  x % m \in 0 .. m - 1
BY Division

\* A number at most one turn away is brought back by one turn.
LEMMA OneTurn ==
  ASSUME NEW m \in Nat \ {0}, NEW x \in Int
  PROVE  /\ x \in 0 .. m - 1 => x % m = x
         /\ x \in m .. 2 * m - 1 => x % m = x - m
         /\ x \in -m .. -1 => x % m = x + m
<1>1. ASSUME x \in 0 .. m - 1  PROVE x % m = x
  <2>1. (m * 0 + x) % m = x  BY <1>1, Remainder
  <2> QED  BY <2>1, SMT
<1>2. ASSUME x \in m .. 2 * m - 1  PROVE x % m = x - m
  <2>1. x - m \in 0 .. m - 1  BY <1>2
  <2>2. (m * 1 + (x - m)) % m = x - m  BY <2>1, Remainder
  <2>3. m * 1 + (x - m) = x  BY SMT
  <2> QED  BY <2>2, <2>3
<1>3. ASSUME x \in -m .. -1  PROVE x % m = x + m
  <2>1. x + m \in 0 .. m - 1  BY <1>3
  <2>2. (m * (-1) + (x + m)) % m = x + m  BY <2>1, Remainder
  <2>3. m * (-1) + (x + m) = x  BY SMT
  <2> QED  BY <2>2, <2>3
<1> QED  BY <1>1, <1>2, <1>3

\* Turns taken before do not change a remainder.
LEMMA Turns ==
  ASSUME NEW m \in Nat \ {0}, NEW x \in Int, NEW q \in Int
  PROVE  (m * q + x) % m = x % m
<1>1. PICK p \in Int, r \in 0 .. m - 1 : x % m = r /\ x = m * p + r  BY Division
<1>2. m * q + x = m * (q + p) + r
  <2>1. m * q + (m * p + r) = m * (q + p) + r  BY SMT
  <2> QED  BY <2>1, <1>1
<1>3. q + p \in Int  OBVIOUS
<1>4. (m * (q + p) + r) % m = r  BY <1>3, Remainder
<1> QED  BY <1>1, <1>2, <1>4

\* Numbers that differ by a whole number of turns have the same remainder.
LEMMA SameRemainder ==
  ASSUME NEW m \in Nat \ {0}, NEW x \in Int, NEW y \in Int, NEW q \in Int, x = m * q + y
  PROVE  x % m = y % m
BY Turns

\* The division by which local_ntp_time_to_frame undoes the product of
\* frame_to_ntp_local_time is exact, for times before the anchor too.
LEMMA QuotientOfProduct ==
  ASSUME NEW u \in Nat \ {0}, NEW k \in Int
  PROVE  Quotient(k * u, u) = k
<1>1. ASSUME NEW n \in Nat  PROVE (n * u) \div u = n
  <2> DEFINE q == (n * u) \div u
             r == (n * u) % u
  <2>1. n * u \in Int /\ q \in Int /\ r \in 0 .. u - 1 /\ n * u = u * q + r
    BY SMT
  <2>2. (u * n + 0) % u = 0  BY Remainder
  <2>3. r = 0  BY <2>2, SMT
  <2> HIDE DEF q, r
  <2>4. u * (n - q) = 0  BY <2>1, <2>3, SMT
  <2>5. n - q >= 1 => u * (n - q) >= u  BY <2>1, SMT
  <2>6. n - q <= -1 => u * (n - q) <= -u  BY <2>1, SMT
  <2>7. n = q  BY <2>1, <2>4, <2>5, <2>6, SMT
  <2> QED  BY <2>7 DEF q
<1>2. CASE k >= 0
  <2>1. k * u >= 0  BY <1>2, SMT
  <2> QED  BY <1>1, <1>2, <2>1 DEF Quotient
<1>3. CASE k < 0
  <2>1. k * u < 0 /\ -(k * u) = (-k) * u  BY <1>3, SMT
  <2>2. ((-k) * u) \div u = -k  BY <1>1, <1>3
  <2>3. Quotient(k * u, u) = -((-(k * u)) \div u)
    BY <2>1, SMT DEF Quotient
  <2> QED  BY <2>1, <2>2, <2>3
<1> QED  BY <1>2, <1>3

\* The signed difference of two timestamps is a whole number of turns from the
\* difference of any two numbers they stand for, and is that difference when it is less
\* than half a turn.
LEMMA SignedDifference ==
  ASSUME NEW x \in Int, NEW y \in Int
  PROVE  /\ \E q \in Int : Signed(x % TsMod, y % TsMod) = (x - y) + TsMod * q
         /\ 2 * (x - y) < TsMod /\ 2 * (x - y) >= -TsMod =>
              Signed(x % TsMod, y % TsMod) = x - y
<1> DEFINE m == TsMod
           s == Signed(x % m, y % m)
<1>m. m \in Nat \ {0}  BY RtpTimingAssumption
<1> HIDE DEF m
<1>1. PICK a \in Int, r \in 0 .. m - 1 : x % m = r /\ x = m * a + r  BY <1>m, Division
<1>2. PICK b \in Int, e \in 0 .. m - 1 : y % m = e /\ y = m * b + e  BY <1>m, Division
<1>3. PICK c \in Int, d \in 0 .. m - 1 : (r - e) % m = d /\ r - e = m * c + d
  <2>1. r - e \in Int  BY <1>m, <1>1, <1>2
  <2> QED  BY <1>m, <2>1, Division
<1>4. s = IF 2 * d >= m THEN d - m ELSE d
  BY <1>1, <1>2, <1>3 DEF Signed, m
<1> HIDE DEF s
<1>5. /\ x - y = m * (a - b) + (r - e)
      /\ r - e = m * c + d
  BY <1>m, <1>1, <1>2, <1>3, SMT
<1>6. x - y = m * (a - b + c) + d
  <2>1. m * (a - b + c) = m * (a - b) + m * c  BY <1>m, SMT
  <2> QED  BY <1>m, <1>5, <2>1, SMT
<1> DEFINE k == a - b + c
<1>7. k \in Int /\ x - y = m * k + d  BY <1>6
<1> HIDE DEF k
<1>8. \E q \in Int : s = (x - y) + m * q
  <2>1. d = (x - y) + m * (-k)
    <3>1. m * (-k) = -(m * k)  BY <1>m, <1>7, SMT
    <3> QED  BY <1>m, <1>7, <3>1, SMT
  <2>2. d - m = (x - y) + m * (-k - 1)
    <3>1. m * (-k - 1) = -(m * k) - m  BY <1>m, <1>7, SMT
    <3> QED  BY <1>m, <1>7, <3>1, SMT
  <2>3. -k \in Int /\ -k - 1 \in Int  BY <1>7
  <2> QED  BY <1>4, <2>1, <2>2, <2>3
<1>9. ASSUME 2 * (x - y) < m, 2 * (x - y) >= -m
      PROVE  s = x - y
  <2>1. k >= 1 => m * k >= m  BY <1>m, <1>7, SMT
  <2>2. k <= -2 => m * k <= -2 * m  BY <1>m, <1>7, SMT
  <2>3. k = 0 \/ k = -1  BY <1>m, <1>7, <1>9, <2>1, <2>2, SMT
  <2>4. CASE k = 0
    <3>1. m * k = 0  BY <1>m, <2>4, SMT
    <3> QED  BY <1>m, <1>4, <1>7, <1>9, <3>1, SMT
  <2>5. CASE k = -1
    <3>1. m * k = -m  BY <1>m, <2>5, SMT
    <3> QED  BY <1>m, <1>4, <1>7, <1>9, <3>1, SMT
  <2> QED  BY <2>3, <2>4, <2>5
<1> QED  BY <1>8, <1>9 DEF s, m

\* The constants these proofs use, one by one.
LEMMA TimingConstants ==
  /\ Unit \in Nat \ {0} /\ Offset \in Int /\ History \in Nat \ {0}
  /\ AgeNum \in Nat /\ AgeDen \in Nat \ {0} /\ TsMod \in Nat \ {0}
  /\ FirstFrame \in Nat /\ SourceLatency \in Nat /\ FixedLatencyOffset \in Nat
  /\ MinimumLatency \in Nat /\ MaximumLatency \in Nat /\ UserSuppliedLatency \in Nat
  /\ MaxFrames \in Nat /\ MaxNow \in Nat /\ MaxStreams \in Nat /\ BackendOffset \in Int
BY RtpTimingAssumption, Zenon

\* A ping as the history keeps it, and a datagram in the network.
Pings == [local_time : Int, remote_time : Int, sequence_number : Int, chosen : BOOLEAN,
          dispersion : Int]

Datagram(m) ==
  /\ m.sent \in Int /\ m.at \in Int
  /\ m.kind = "reply" => m.received \in Int

TimingTypes ==
  /\ now \in 0..MaxNow /\ streams \in 0..MaxStreams /\ playing \in BOOLEAN
  /\ departure_time \in Int /\ sequence_number \in Int
  /\ \A m \in network : Datagram(m)
  /\ time_pings \in Seq(Pings) /\ Len(time_pings) <= History
  /\ anchor_rtptime \in 0..(TsMod - 1) /\ anchor_time \in Int
  /\ latency \in 0..MaxFrames \cup {UserSuppliedLatency}
  /\ anchor_stream \in 0..streams
  /\ ports_up \in BOOLEAN /\ (ports_up /\ ~playing => streams < MaxStreams)

\* The anchor of a stream names the frame that is to be played at some past time of the
\* client's clock; both halves come from one sync packet, the latency with them.
AnchoredAt(t) ==
  /\ anchor_time = RemoteTime(t)
  /\ anchor_rtptime = (FirstFrame + t - latency) % TsMod

TimingInv ==
  /\ TimingTypes
  /\ playing /\ anchor_remote_info_is_valid /\ anchor_stream = streams =>
       \E t \in 0..now : AnchoredAt(t)

LEMMA TimingInvInit == TimingInit => TimingInv
<1>1. <<>> \in Seq(Pings) /\ Len(<<>>) = 0  BY EmptySeq
<1>2. /\ 0 \in Int /\ FALSE \in BOOLEAN /\ 0 \in 0..MaxFrames \cup {UserSuppliedLatency}
      /\ 0 \in 0..MaxNow /\ 0 \in 0..MaxStreams /\ 0 \in 0..(TsMod - 1) /\ 0 \in 0..0
      /\ 0 <= History
  BY TimingConstants
<1>3. \A m \in {} : Datagram(m)  OBVIOUS
<1>4. SUFFICES ASSUME TimingInit PROVE TimingInv
  OBVIOUS
<1>5. TimingTypes
  <2>1. /\ now \in 0..MaxNow /\ streams \in 0..MaxStreams /\ playing \in BOOLEAN
        /\ departure_time \in Int /\ sequence_number \in Int
        /\ anchor_rtptime \in 0..(TsMod - 1) /\ anchor_time \in Int
        /\ latency \in 0..MaxFrames \cup {UserSuppliedLatency}
        /\ anchor_stream \in 0..streams /\ ports_up = FALSE
    BY <1>2, <1>4, Zenon DEF TimingInit
  <2>2. /\ \A m \in network : Datagram(m)
        /\ time_pings \in Seq(Pings) /\ Len(time_pings) <= History
    BY <1>1, <1>2, <1>3, <1>4, Zenon DEF TimingInit
  <2> QED  BY <2>1, <2>2 DEF TimingTypes
<1> QED  BY <1>4, <1>5 DEF TimingInit, TimingInv

\* What rtp_timing_receiver remembers is a history again, no longer than it may be.
LEMMA HistoryIsKept ==
  ASSUME NEW p \in Pings, NEW h \in Seq(Pings)
  PROVE  /\ Remembered(p, h) \in Seq(Pings)
         /\ Len(Remembered(p, h)) <= History
<1> DEFINE old     == [i \in 1..Len(h) |-> Aged(h[i])]
           shifted == <<p>> \o old
           n       == IF Len(shifted) > History THEN History ELSE Len(shifted)
<1>1. \A q \in Pings : Aged(q) \in Pings
  <2> TAKE q \in Pings
  <2>1. (q.dispersion * AgeNum) \div AgeDen \in Int
    <3>1. q.dispersion * AgeNum \in Int /\ AgeDen \in Nat \ {0}
      BY TimingConstants DEF Pings
    <3> QED  BY <3>1
  <2> QED  BY <2>1 DEF Aged, Pings
<1>2. old \in Seq(Pings)
  <2>1. Len(h) \in Nat /\ \A i \in 1..Len(h) : Aged(h[i]) \in Pings
    BY <1>1
  <2> QED  BY <2>1
<1>3. shifted \in Seq(Pings)
  BY <1>2
<1> HIDE DEF shifted
<1>4. n \in 0..Len(shifted) /\ n <= History
  BY <1>3, TimingConstants
<1> HIDE DEF n
<1>5. SubSeq(shifted, 1, n) \in Seq(Pings) /\ Len(SubSeq(shifted, 1, n)) = n
  BY <1>3, <1>4
<1>6. Remembered(p, h) = SubSeq(shifted, 1, n)
  BY DEF Remembered, shifted, n
<1> QED  BY <1>4, <1>5, <1>6

LEMMA ReplyStep ==
  ASSUME TimingInv, rtp_timing_receiver
  PROVE  TimingInv'
<1>1. PICK m \in network :
        LET return_time == LocalTime(now) - departure_time
            processing  == RemoteTime(m.at) - RemoteTime(m.received)
            net         == IF processing < return_time THEN return_time - processing
                           ELSE return_time
            h           == Remembered(Ping(m, net), time_pings)
            used        == [h EXCEPT ![Chosen(h)].chosen = TRUE]
        IN  /\ m.kind = "reply"
            /\ network' = network \ {m}
            /\ \/ /\ time_pings' = used /\ sequence_number' = sequence_number + 1
               \/ UNCHANGED <<time_pings, sequence_number>>
            /\ UNCHANGED <<now, departure_time, anchor, stream>>
  BY DEF rtp_timing_receiver
<1> DEFINE return_time == LocalTime(now) - departure_time
           processing  == RemoteTime(m.at) - RemoteTime(m.received)
           net  == IF processing < return_time THEN return_time - processing
                   ELSE return_time
           h    == Remembered(Ping(m, net), time_pings)
           used == [h EXCEPT ![Chosen(h)].chosen = TRUE]
<1>2. /\ now \in Int /\ departure_time \in Int /\ sequence_number \in Int
      /\ m.at \in Int /\ m.received \in Int /\ Unit \in Int /\ Offset \in Int
      /\ time_pings \in Seq(Pings)
  <2>1. m.kind = "reply"  BY <1>1
  <2>2. \A d \in network : Datagram(d)  BY DEF TimingInv, TimingTypes
  <2>3. m.at \in Int /\ m.received \in Int  BY <2>1, <2>2 DEF Datagram
  <2> QED  BY <2>3, TimingConstants DEF TimingInv, TimingTypes
<1>3. net \in Int
  <2>1. /\ LocalTime(now) \in Int /\ RemoteTime(m.at) \in Int /\ RemoteTime(m.received) \in Int
    BY <1>2 DEF LocalTime, RemoteTime
  <2> QED  BY <1>2, <2>1
<1> HIDE DEF net
<1>4. Ping(m, net) \in Pings
  <2>1. LocalTime(now) \in Int /\ RemoteTime(m.at) + net \div 2 \in Int
    BY <1>2, <1>3 DEF LocalTime, RemoteTime
  <2> QED  BY <1>2, <1>3, <2>1 DEF Ping, Pings
<1>5. h \in Seq(Pings) /\ Len(h) <= History
  BY <1>2, <1>4, HistoryIsKept
<1> HIDE DEF h
<1>6. used \in Seq(Pings) /\ Len(used) <= History
  <2>1. CASE Chosen(h) \in DOMAIN h
    <3>1. h[Chosen(h)] \in Pings  BY <1>5, <2>1
    <3>2. \A q \in Pings : [q EXCEPT !.chosen = TRUE] \in Pings  BY DEF Pings
    <3>3. [h[Chosen(h)] EXCEPT !.chosen = TRUE] \in Pings  BY <3>1, <3>2
    <3> QED  BY <1>5, <2>1, <3>3
  <2>2. CASE Chosen(h) \notin DOMAIN h
    <3>1. used = h  BY <1>5, <2>2
    <3> QED  BY <1>5, <3>1
  <2> QED  BY <2>1, <2>2
<1> HIDE DEF used
<1>7. time_pings' \in Seq(Pings) /\ Len(time_pings') <= History /\ sequence_number' \in Int
  <2>1. \/ time_pings' = used /\ sequence_number' = sequence_number + 1
        \/ UNCHANGED <<time_pings, sequence_number>>
    BY <1>1 DEF used, h, net
  <2> QED  BY <1>2, <1>6, <2>1 DEF TimingInv, TimingTypes
<1>8. TimingTypes'
  BY <1>1, <1>7 DEF TimingInv, TimingTypes, anchor, stream, Datagram
<1> QED  BY <1>1, <1>8 DEF TimingInv, anchor, stream, AnchoredAt, RemoteTime

\* A timestamp that is counted from where the anchor was, without the latency.
LEMMA SyncStep ==
  ASSUME TimingInv, rtp_control_receiver
  PROVE  TimingInv'
<1>1. PICK t \in 0..now, flags \in {4, 7} :
        LET rtp == (FirstFrame + t) % TsMod
            la  == SourceLatency + (IF NeedsFixedOffset(flags) THEN FixedLatencyOffset ELSE 0)
            lat == NewLatency(latency, Clamped(la % TsMod))
        IN  /\ latency' = lat
            /\ anchor_time' = RemoteTime(t)
            /\ anchor_rtptime' = WithoutLatency(rtp, lat)
            /\ anchor_stream' = streams
            /\ UNCHANGED <<now, clock, stream>>
  BY DEF rtp_control_receiver
<1> DEFINE la == SourceLatency + (IF NeedsFixedOffset(flags) THEN FixedLatencyOffset ELSE 0)
<1>2. /\ t \in Nat /\ now \in 0..MaxNow /\ streams \in 0..MaxStreams
      /\ latency \in 0..MaxFrames \cup {UserSuppliedLatency}
  BY <1>1, TimingConstants DEF TimingInv, TimingTypes
<1>3. Clamped(la % TsMod) \in Nat
  <2>1. la \in Int  BY TimingConstants
  <2> HIDE DEF la
  <2>2. la % TsMod \in 0 .. TsMod - 1  BY <2>1, TimingConstants, RemainderType
  <2> QED  BY <2>2, TimingConstants DEF Clamped
<1>4. latency' \in 0..MaxFrames \cup {UserSuppliedLatency}
  <2>1. latency' = NewLatency(latency, Clamped(la % TsMod))  BY <1>1
  <2> QED  BY <1>2, <1>3, <2>1, TimingConstants DEF NewLatency
<1>5. latency' \in Int /\ TsMod \in Nat \ {0} /\ FirstFrame \in Int
  BY <1>4, TimingConstants
<1>6. anchor_rtptime' = (((FirstFrame + t) % TsMod) - latency') % TsMod
  BY <1>1 DEF WithoutLatency
<1>7. anchor_rtptime' = (FirstFrame + t - latency') % TsMod
  <2>1. PICK q \in Int, r \in 0 .. TsMod - 1 :
          (FirstFrame + t) % TsMod = r /\ FirstFrame + t = TsMod * q + r
    <3>1. FirstFrame + t \in Int  BY <1>2, <1>5
    <3> QED  BY <3>1, <1>5, Division
  <2>2. FirstFrame + t - latency' = TsMod * q + (r - latency')
    BY <1>5, <1>2, <2>1, SMT
  <2>3. r - latency' \in Int /\ FirstFrame + t - latency' \in Int
    BY <1>2, <1>5, <2>1
  <2>4. (FirstFrame + t - latency') % TsMod = (r - latency') % TsMod
    BY <1>5, <2>2, <2>3, SameRemainder
  <2> QED  BY <1>6, <2>1, <2>4
<1>8. anchor_rtptime' \in 0 .. TsMod - 1
  <2>1. FirstFrame + t - latency' \in Int  BY <1>2, <1>5
  <2> QED  BY <1>5, <1>7, <2>1, RemainderType
<1>9. anchor_time' \in Int
  <2>1. RemoteTime(t) \in Int  BY <1>2, TimingConstants DEF RemoteTime
  <2> QED  BY <1>1, <2>1
<1>10. TimingTypes'
  <2>1. UNCHANGED <<now, departure_time, sequence_number, network, time_pings, streams,
                    playing, ports_up>> /\ anchor_stream' = streams
    BY <1>1 DEF clock, stream
  <2> QED  BY <1>2, <1>4, <1>8, <1>9, <2>1 DEF TimingInv, TimingTypes
<1>11. t \in 0..now' /\ AnchoredAt(t)'
  BY <1>1, <1>7 DEF AnchoredAt, RemoteTime
<1> QED  BY <1>10, <1>11 DEF TimingInv

LEMMA TimingInvStep == TimingInv /\ [TimingNext]_tvars => TimingInv'
<1> SUFFICES ASSUME TimingInv, [TimingNext]_tvars
             PROVE  TimingInv'
  OBVIOUS
<1> USE DEF TimingInv, TimingTypes, clock, anchor, stream
<1>1. CASE rtp_setup
  <2>1. 0 \in 0..(TsMod - 1)  BY TimingConstants
  <2> QED  BY <1>1, <2>1 DEF rtp_setup
<1>2. CASE start_receivers
  <2>1. 0 \in 0..(TsMod - 1) /\ 0 \in Int /\ History \in Nat  BY TimingConstants
  <2>2. <<>> \in Seq(Pings) /\ Len(<<>>) = 0  BY EmptySeq
  <2>3. streams + 1 \in 0..MaxStreams /\ anchor_stream # streams + 1
    BY <1>2, TimingConstants DEF start_receivers
  <2> QED  BY <1>2, <2>1, <2>2, <2>3 DEF start_receivers
<1>3. CASE cancel_receivers
  BY <1>3 DEF cancel_receivers
<1>4. CASE rtp_timing_sender
  <2>1. LocalTime(now) \in Int  BY TimingConstants DEF LocalTime
  <2>2. \A m \in network' : Datagram(m)
    <3>1. Datagram([kind |-> "request", sent |-> now, at |-> now])
      BY DEF Datagram
    <3> QED  BY <1>4, <3>1 DEF rtp_timing_sender
  <2>3. departure_time' = LocalTime(now) /\ UNCHANGED <<now, time_pings, sequence_number, anchor, stream>>
    BY <1>4 DEF rtp_timing_sender
  <2> QED  BY <2>1, <2>2, <2>3 DEF AnchoredAt, RemoteTime
<1>5. CASE ClientReplies
  <2>1. PICK m \in network :
          /\ \/ \E r \in {r \in (now - 1)..now : r >= m.at} :
                  network' = (network \ {m}) \cup
                    {[kind |-> "reply", sent |-> m.sent, at |-> now, received |-> r]}
             \/ network' = network \ {m}
          /\ UNCHANGED <<now, departure_time, time_pings, sequence_number, anchor, stream>>
    BY <1>5 DEF ClientReplies
  <2>2. Datagram(m)  OBVIOUS
  <2>3. \A r \in (now - 1)..now :
          Datagram([kind |-> "reply", sent |-> m.sent, at |-> now, received |-> r])
    BY <2>2 DEF Datagram
  <2>4. \A d \in network' : Datagram(d)
    BY <2>1, <2>3
  <2> QED  BY <2>1, <2>4 DEF AnchoredAt, RemoteTime
<1>6. CASE rtp_timing_receiver
  <2> USE DEF TimingInv
  <2> QED  BY <1>6, ReplyStep
<1>7. CASE rtp_control_receiver
  BY <1>7, SyncStep
<1>8. CASE Tick
  <2>1. now' \in 0..MaxNow /\ now \in 0..MaxNow /\ now' = now + 1
    BY <1>8, TimingConstants DEF Tick
  <2>2. 0..now \subseteq 0..now'  BY <2>1
  <2> QED  BY <1>8, <2>1, <2>2 DEF Tick, AnchoredAt, RemoteTime
<1>9. CASE UNCHANGED tvars
  BY <1>9 DEF tvars, AnchoredAt, RemoteTime
<1> QED  BY <1>1, <1>2, <1>3, <1>4, <1>5, <1>6, <1>7, <1>8, <1>9 DEF TimingNext

\* A frame's time by the anchor, for any frame less than half the range of timestamps
\* from it, is off by exactly as much as the estimate of the client's clock.
LEMMA FrameIsTimed ==
  ASSUME TimingTypes, difference \in Int,
         NEW t0 \in Int, AnchoredAt(t0),
         NEW t \in Int, 2 * (t - t0) < TsMod, 2 * (t - t0) >= -TsMod
  PROVE  frame_to_ntp_local_time((FirstFrame + t - latency) % TsMod) - LocalTime(t)
           = Offset - difference
<1> DEFINE f == (FirstFrame + t - latency) % TsMod
           x == FirstFrame + t - latency
           y == FirstFrame + t0 - latency
<1>1. /\ Unit \in Int /\ Offset \in Int /\ latency \in Int /\ FirstFrame \in Int
      /\ TsMod \in Nat \ {0}
  BY TimingConstants DEF TimingTypes
<1>2. x \in Int /\ y \in Int /\ x - y = t - t0  BY <1>1
<1>3. f = x % TsMod /\ anchor_rtptime = y % TsMod  BY DEF AnchoredAt
<1> HIDE DEF f, x, y
<1>4. Signed(f, anchor_rtptime) = t - t0  BY <1>1, <1>2, <1>3, SignedDifference
<1>5. frame_to_ntp_local_time(f) = t0 * Unit + Offset + (t - t0) * Unit - difference
  BY <1>4 DEF frame_to_ntp_local_time, AnchoredAt, RemoteTime
<1>6. t0 * Unit + (t - t0) * Unit = t * Unit
  BY <1>1, SMT
<1>7. t0 * Unit \in Int /\ (t - t0) * Unit \in Int /\ t * Unit \in Int
  BY <1>1
<1>8. frame_to_ntp_local_time(f) - LocalTime(t) = Offset - difference
  BY <1>1, <1>5, <1>6, <1>7 DEF LocalTime
<1> QED  BY <1>8 DEF f

\* The conversions undo each other, wherever the anchor is and however good the
\* estimate.
LEMMA ConversionsAreInverse ==
  ASSUME TimingTypes, difference \in Int, NEW x \in Int
  PROVE  local_ntp_time_to_frame(frame_to_ntp_local_time(x % TsMod)) = x % TsMod
<1> DEFINE f == x % TsMod
           s == Signed(f, anchor_rtptime)
<1>1. /\ Unit \in Nat \ {0} /\ TsMod \in Nat \ {0} /\ anchor_time \in Int
      /\ anchor_rtptime \in 0 .. TsMod - 1
  BY TimingConstants DEF TimingTypes
<1>2. anchor_rtptime % TsMod = anchor_rtptime  BY <1>1, OneTurn
<1>3. PICK q \in Int : s = (x - anchor_rtptime) + TsMod * q
  <2>1. anchor_rtptime \in Int  BY <1>1
  <2>2. \E q \in Int : Signed(x % TsMod, anchor_rtptime % TsMod)
                        = (x - anchor_rtptime) + TsMod * q
    BY <2>1, SignedDifference
  <2> QED  BY <1>2, <2>2
<1> HIDE DEF s
<1>4. s \in Int /\ anchor_rtptime + s = TsMod * q + x
  BY <1>1, <1>3, SMT
<1>5. (anchor_rtptime + s) % TsMod = f
  <2>1. anchor_rtptime + s \in Int  BY <1>1, <1>4
  <2> QED  BY <1>1, <1>4, <2>1, SameRemainder
<1>6. frame_to_ntp_local_time(f) + difference - anchor_time = s * Unit
  <2>1. frame_to_ntp_local_time(f) = anchor_time + s * Unit - difference
    BY DEF frame_to_ntp_local_time, s
  <2>2. s * Unit \in Int  BY <1>1, <1>4
  <2> QED  BY <1>1, <2>1, <2>2
<1>7. Quotient(s * Unit, Unit) = s  BY <1>1, <1>4, QuotientOfProduct
<1> QED  BY <1>5, <1>6, <1>7 DEF local_ntp_time_to_frame

\* What the anchor alone gives: with an anchor of the running stream there is a past
\* time of the client such that every frame less than half the range of timestamps from
\* the one it was playing then is played, by rtp_control_receiver's anchor and
\* frame_to_ntp_local_time, at the right time but for the error of the estimated
\* difference of the clocks, whatever sync packets were lost, late or out of order and
\* however often the latency changed.
THEOREM FramesFollowTheAnchor ==
  TimingSpec =>
    [](playing /\ anchor_remote_info_is_valid /\ anchor_stream = streams
         /\ difference \in Int =>
         \E t0 \in 0..now : \A t \in Int :
           2 * (t - t0) < TsMod /\ 2 * (t - t0) >= -TsMod =>
             frame_to_ntp_local_time((FirstFrame + t - latency) % TsMod) - LocalTime(t)
               = Offset - difference)
<1>1. TimingInv =>
        (playing /\ anchor_remote_info_is_valid /\ anchor_stream = streams
           /\ difference \in Int =>
           \E t0 \in 0..now : \A t \in Int :
             2 * (t - t0) < TsMod /\ 2 * (t - t0) >= -TsMod =>
               frame_to_ntp_local_time((FirstFrame + t - latency) % TsMod) - LocalTime(t)
                 = Offset - difference)
  <2> SUFFICES ASSUME TimingInv, playing, anchor_remote_info_is_valid,
                      anchor_stream = streams, difference \in Int
               PROVE  \E t0 \in 0..now : \A t \in Int :
                        2 * (t - t0) < TsMod /\ 2 * (t - t0) >= -TsMod =>
                          frame_to_ntp_local_time((FirstFrame + t - latency) % TsMod)
                            - LocalTime(t) = Offset - difference
    OBVIOUS
  <2>1. PICK t0 \in 0..now : AnchoredAt(t0)  BY DEF TimingInv
  <2>2. t0 \in Int /\ TimingTypes  BY TimingConstants DEF TimingInv, TimingTypes
  <2>3. \A t \in Int : 2 * (t - t0) < TsMod /\ 2 * (t - t0) >= -TsMod =>
          frame_to_ntp_local_time((FirstFrame + t - latency) % TsMod) - LocalTime(t)
            = Offset - difference
    BY <2>1, <2>2, FrameIsTimed
  <2> QED  BY <2>1, <2>3
<1> QED  BY <1>1, TimingInvInit, TimingInvStep, PTL DEF TimingSpec

\* The timing of frames is as exact as the estimate of the client's clock: when no frame
\* is half the range of timestamps or more from another, everything that FramesPlayOnTime
\* says follows from its part about the estimate (rtp_timing_receiver), so that the anchor,
\* the latency and the two conversions add no error of their own, over the wrap of
\* timestamps and over new streams on the same connection.
THEOREM AsGoodAsTheEstimate ==
  2 * MaxNow < TsMod =>
    (TimingSpec => [](difference \in Int /\ DifferenceIsClose => FramesPlayOnTime))
<1> SUFFICES ASSUME 2 * MaxNow < TsMod
             PROVE  TimingSpec =>
                      [](difference \in Int /\ DifferenceIsClose => FramesPlayOnTime)
  OBVIOUS
<1>1. ASSUME TimingInv, difference \in Int, DifferenceIsClose
      PROVE  FramesPlayOnTime
  <2>1. TimingTypes /\ FirstFrame \in Int /\ MaxNow \in Nat /\ Offset \in Int
    BY <1>1, TimingConstants DEF TimingInv
  <2>2. TimingTypeOK
    BY <2>1 DEF TimingTypes, TimingTypeOK
  <2>3. ConversionsAgree
    <3>1. \A t \in 0..MaxNow : FirstFrame + t \in Int  BY <2>1
    <3> QED  BY <1>1, <2>1, <3>1, ConversionsAreInverse DEF ConversionsAgree
  <2>4. FramesAreOnTime
    <3> SUFFICES ASSUME playing, anchor_remote_info_is_valid, anchor_stream = streams,
                        time_pings # <<>>, ~crossed, NEW t \in 0..MaxNow
                 PROVE  Abs(frame_to_ntp_local_time((FirstFrame + t - latency) % TsMod)
                              - LocalTime(t)) <= MaxError
      BY DEF FramesAreOnTime
    <3>1. PICK t0 \in 0..now : AnchoredAt(t0)  BY <1>1 DEF TimingInv
    <3>2. /\ t0 \in Int /\ t \in Int
          /\ 2 * (t - t0) < TsMod /\ 2 * (t - t0) >= -TsMod
      BY <2>1, TimingConstants DEF TimingTypes
    <3>3. frame_to_ntp_local_time((FirstFrame + t - latency) % TsMod) - LocalTime(t)
            = Offset - difference
      BY <1>1, <2>1, <3>1, <3>2, FrameIsTimed
    <3>4. Abs(Offset - difference) = Abs(difference - Offset)
      BY <1>1, <2>1 DEF Abs
    <3>5. Abs(difference - Offset) <= MaxError  BY <1>1 DEF DifferenceIsClose
    <3> QED  BY <3>3, <3>4, <3>5
  <2> QED  BY <1>1, <2>2, <2>3, <2>4 DEF FramesPlayOnTime
<1> QED  BY <1>1, TimingInvInit, TimingInvStep, PTL DEF TimingSpec

------------------------------------------------------------------------------
(* Sequences put together from pieces. *)

\* Induction up to a bound, over a set: what holds of 0 and, with a number, of the next.
LEMMA Upwards ==
  ASSUME NEW N \in Nat, NEW G, 0 \in G, \A i \in 1..N : i - 1 \in G => i \in G
  PROVE  \A i \in 0..N : i \in G
<1> DEFINE T == {i \in 0..N : i \notin G}
           R == OpToRel(<, Nat)
<1> SUFFICES ASSUME T # {}  PROVE FALSE
  OBVIOUS
<1>1. IsWellFoundedOn(R, Nat)  BY NatLessThanWellFounded, Zenon DEF OpToRel
<1>2. T \subseteq Nat  OBVIOUS
<1> HIDE DEF T
<1>3. PICK k \in T : \A j \in T : ~(<<j, k>> \in R)  BY <1>1, <1>2, WFMin, Zenon
<1>4. \A j \in T : ~(j < k)  BY <1>2, <1>3 DEF OpToRel
<1>5. k \in 0..N /\ k \notin G  BY <1>3 DEF T
<1>6. k \in 1..N  BY <1>5
<1>7. k - 1 \in T  BY <1>5, <1>6 DEF T
<1> QED  BY <1>4, <1>5, <1>7

\* Where the pieces of a sequence of sequences begin in FlattenSeq.
Begins(s, O) ==
  /\ O \in [0..Len(s) -> Nat] /\ O[0] = 0
  /\ \A i \in 1..Len(s) : O[i] = O[i - 1] + Len(s[i])

LEMMA FlattenExists ==
  ASSUME NEW S, NEW s \in Seq(Seq(S)), s # <<>>
  PROVE  \E f : /\ f = [i \in 1..Len(s) |-> IF i = 1 THEN s[i] ELSE f[i - 1] \o s[i]]
                /\ FlattenSeq(s) = f[Len(s)]
<1> DEFINE N == Len(s)
           Is(f, m) == f = [i \in 1..m |-> IF i = 1 THEN s[i] ELSE f[i - 1] \o s[i]]
           G == {m \in 0..N : \E f : Is(f, m)}
<1>1. N \in Nat \ {0}  BY LenProperties, EmptySeq
<1>2. 0 \in G
  <2>1. Is([i \in 1..0 |-> 0], 0)  OBVIOUS
  <2>2. 0 \in 0..N  BY <1>1
  <2> HIDE DEF Is, N
  <2> QED  BY <2>1, <2>2
<1>3. ASSUME NEW m \in 1..N, m - 1 \in G
      PROVE  m \in G
  <2>1. PICK f : Is(f, m - 1)  BY <1>3
  <2> DEFINE g == [i \in 1..m |-> IF i = 1 THEN s[i] ELSE f[i - 1] \o s[i]]
  <2>2. \A i \in 1..(m - 1) : g[i] = f[i]
    <3> TAKE i \in 1..(m - 1)
    <3>1. i \in 1..m  BY <1>1
    <3>2. f[i] = IF i = 1 THEN s[i] ELSE f[i - 1] \o s[i]  BY <2>1
    <3> QED  BY <3>1, <3>2
  <2>3. \A i \in 1..m : g[i] = IF i = 1 THEN s[i] ELSE g[i - 1] \o s[i]
    <3> TAKE i \in 1..m
    <3>1. g[i] = IF i = 1 THEN s[i] ELSE f[i - 1] \o s[i]  OBVIOUS
    <3>2. i # 1 => g[i - 1] = f[i - 1]
      <4>1. i # 1 => i - 1 \in 1..(m - 1)  BY <1>1
      <4> HIDE DEF g
      <4> QED  BY <2>2, <4>1
    <3> HIDE DEF g
    <3> QED  BY <3>1, <3>2
  <2>4. Is(g, m)
    <3>1. g = [i \in 1..m |-> g[i]]  OBVIOUS
    <3> HIDE DEF g
    <3> QED  BY <2>3, <3>1
  <2>5. m \in 0..N  BY <1>1
  <2> HIDE DEF g, Is, N
  <2> QED  BY <2>4, <2>5
<1>4. N \in G
  <2>1. \A m \in 1..N : m - 1 \in G => m \in G  BY <1>3
  <2>2. N \in Nat /\ N \in 0..N  BY <1>1
  <2> HIDE DEF G, N
  <2> QED  BY <1>2, <2>1, <2>2, Upwards
<1>5. \E f : Is(f, N)  BY <1>4
<1> DEFINE flatten == CHOOSE f : Is(f, N)
<1>6. Is(flatten, N)  BY <1>5, Zenon
<1>7. FlattenSeq(s) = flatten[N]  BY <1>1, Zenon DEF FlattenSeq
<1> HIDE DEF flatten
<1> QED  BY <1>6, <1>7

LEMMA FlattenIs ==
  ASSUME NEW S, NEW s \in Seq(Seq(S)), s # <<>>
  PROVE  /\ FlattenSeq(s) \in Seq(S)
         /\ \E O : /\ Begins(s, O)
                   /\ Len(FlattenSeq(s)) = O[Len(s)]
                   /\ \A i \in 1..Len(s) : \A k \in 1..Len(s[i]) :
                        FlattenSeq(s)[O[i - 1] + k] = s[i][k]
<1> DEFINE N == Len(s)
<1>1. N \in Nat \ {0} /\ \A i \in 1..N : s[i] \in Seq(S) /\ Len(s[i]) \in Nat
  BY LenProperties, EmptySeq, ElementOfSeq
<1>2. PICK f : /\ f = [i \in 1..N |-> IF i = 1 THEN s[i] ELSE f[i - 1] \o s[i]]
               /\ FlattenSeq(s) = f[N]
  BY FlattenExists
<1> DEFINE Good(i) ==
             /\ f[i] \in Seq(S)
             /\ \A j \in 1..i : \A k \in 1..Len(s[j]) :
                  LET o == IF j = 1 THEN 0 ELSE Len(f[j - 1]) IN
                  /\ o + k \in 1..Len(f[i])
                  /\ f[i][o + k] = s[j][k]
           G == {i \in 0..N : i = 0 \/ Good(i)}
<1>3. f[1] = s[1] /\ \A i \in 2..N : f[i] = f[i - 1] \o s[i]
  <2>1. \A i \in 1..N : f[i] = IF i = 1 THEN s[i] ELSE f[i - 1] \o s[i]  BY <1>2
  <2>2. 1 \in 1..N /\ \A i \in 2..N : i \in 1..N /\ i # 1  BY <1>1
  <2> HIDE DEF N
  <2> QED  BY <2>1, <2>2
<1>4. 1 \in G
  <2>1. Good(1)
    <3>1. f[1] \in Seq(S) /\ Len(f[1]) \in Nat  BY <1>1, <1>3
    <3>2. \A j \in 1..1 : j = 1  OBVIOUS
    <3>3. \A k \in 1..Len(s[1]) : 0 + k \in 1..Len(f[1]) /\ f[1][0 + k] = s[1][k]
      BY <1>3, <3>1
    <3> QED  BY <3>1, <3>2, <3>3
  <2>2. 1 \in 0..N  BY <1>1
  <2> HIDE DEF Good, N
  <2> QED  BY <2>1, <2>2
<1>5. ASSUME NEW i \in 2..N, Good(i - 1)
      PROVE  Good(i)
  <2> DEFINE e == f[i - 1]
             t == s[i]
             O(j) == IF j = 1 THEN 0 ELSE Len(f[j - 1])
  <2>1. e \in Seq(S) /\ t \in Seq(S) /\ f[i] = e \o t /\ Len(e) \in Nat /\ Len(t) \in Nat
    <3>1. i \in 1..N  BY <1>1
    <3>2. e \in Seq(S)  BY <1>5
    <3>3. t \in Seq(S)  BY <1>1, <3>1
    <3>4. f[i] = e \o t  BY <1>3
    <3> HIDE DEF e, t
    <3> QED  BY <3>2, <3>3, <3>4, LenProperties
  <2>2. /\ e \o t \in Seq(S) /\ Len(e \o t) = Len(e) + Len(t)
        /\ \A k \in 1..Len(e) + Len(t) :
             (e \o t)[k] = IF k <= Len(e) THEN e[k] ELSE t[k - Len(e)]
    <3> HIDE DEF e, t
    <3> QED  BY <2>1, ConcatProperties
  <2>3. ASSUME NEW j \in 1..i, NEW k \in 1..Len(s[j])
        PROVE  O(j) + k \in 1..Len(f[i]) /\ f[i][O(j) + k] = s[j][k]
    <3>1. CASE j = i
      <4>1. O(j) = Len(e) /\ s[j] = t  BY <1>5, <3>1
      <4>2. k \in 1..Len(t)  BY <3>1
      <4> HIDE DEF e, t, O
      <4>3. Len(e) + k \in 1..Len(e) + Len(t) /\ ~(Len(e) + k <= Len(e)) /\ Len(e) + k - Len(e) = k
        BY <2>1, <4>2
      <4> QED  BY <2>1, <2>2, <4>1, <4>3
    <3>2. CASE j # i
      <4>1. j \in 1..(i - 1)  BY <1>1, <3>2
      <4>2. O(j) + k \in 1..Len(e) /\ e[O(j) + k] = s[j][k]  BY <1>5, <4>1
      <4> HIDE DEF e, t, O
      <4>3. O(j) + k \in 1..Len(e) + Len(t) /\ O(j) + k <= Len(e)  BY <2>1, <4>2
      <4> QED  BY <2>1, <2>2, <4>2, <4>3
    <3> QED  BY <3>1, <3>2
  <2>5. f[i] \in Seq(S)  BY <2>1, <2>2
  <2> QED  BY <2>3, <2>5
<1>6. \A i \in 1..N : Good(i)
  <2>1. 0 \in G  BY <1>1
  <2>2. \A i \in 1..N : i - 1 \in G => i \in G
    <3> TAKE i \in 1..N
    <3>1. CASE i = 1  BY <1>4, <3>1
    <3>2. CASE i # 1
      <4>1. i \in 2..N /\ i - 1 # 0 /\ i \in 0..N  BY <1>1, <3>2
      <4> HIDE DEF Good, N
      <4> QED  BY <1>5, <4>1
    <3> QED  BY <3>1, <3>2
  <2>3. \A i \in 0..N : i \in G
    <3>1. N \in Nat  BY <1>1
    <3> HIDE DEF G, N
    <3> QED  BY <2>1, <2>2, <3>1, Upwards
  <2>4. \A i \in 1..N : i \in 0..N /\ i # 0  BY <1>1
  <2> HIDE DEF Good, N
  <2> QED  BY <2>3, <2>4
<1> DEFINE O == [i \in 0..N |-> IF i = 0 THEN 0 ELSE Len(f[i])]
<1>7. \A i \in 1..N : f[i] \in Seq(S) /\ Len(f[i]) \in Nat
  BY <1>6, LenProperties
<1>8. Begins(s, O)
  <2>1. O \in [0..N -> Nat] /\ O[0] = 0  BY <1>1, <1>7
  <2>2. ASSUME NEW i \in 1..N  PROVE O[i] = O[i - 1] + Len(s[i])
    <3>1. i \in 0..N /\ i - 1 \in 0..N  BY <1>1
    <3>2. CASE i = 1
      <4>1. O[1] = Len(f[1]) /\ O[0] = 0  BY <3>1, <3>2
      <4> HIDE DEF O
      <4> QED  BY <1>1, <1>3, <3>2, <4>1
    <3>3. CASE i # 1
      <4>1. i \in 2..N /\ i - 1 \in 1..N  BY <1>1, <3>3
      <4>2. O[i] = Len(f[i]) /\ O[i - 1] = Len(f[i - 1])  BY <3>1, <4>1
      <4>3. Len(f[i]) = Len(f[i - 1]) + Len(s[i])
        <5>1. f[i] = f[i - 1] \o s[i]  BY <1>3, <4>1, Zenon
        <5>2. f[i - 1] \in Seq(S) /\ s[i] \in Seq(S)  BY <1>1, <1>7, <4>1, Zenon
        <5> DEFINE u == f[i - 1]
                   v == s[i]
        <5>3. u \in Seq(S) /\ v \in Seq(S)  BY <5>2, Zenon
        <5> HIDE DEF u, v
        <5>4. Len(u \o v) = Len(u) + Len(v)  BY <5>3, SMT
        <5> QED  BY <5>1, <5>4, Zenon DEF u, v
      <4> HIDE DEF O
      <4> QED  BY <4>2, <4>3
    <3> QED  BY <3>2, <3>3
  <2> HIDE DEF O
  <2> QED  BY <2>1, <2>2 DEF Begins
<1>9. \A i \in 1..N : i - 1 \in 0..N /\ O[i - 1] = IF i = 1 THEN 0 ELSE Len(f[i - 1])
  BY <1>1
<1>10. O[N] = Len(f[N]) /\ N \in 1..N  BY <1>1
<1> HIDE DEF O
<1>11. \A i \in 1..N : \A k \in 1..Len(s[i]) : f[N][O[i - 1] + k] = s[i][k]
  <2>1. Good(N)  BY <1>6, <1>10
  <2> TAKE i \in 1..N
  <2> TAKE k \in 1..Len(s[i])
  <2>2. f[N][(IF i = 1 THEN 0 ELSE Len(f[i - 1])) + k] = s[i][k]  BY <2>1
  <2> HIDE DEF N
  <2> QED  BY <1>9, <2>2
<1>12. /\ FlattenSeq(s) \in Seq(S) /\ Begins(s, O) /\ Len(FlattenSeq(s)) = O[N]
       /\ \A i \in 1..N : \A k \in 1..Len(s[i]) : FlattenSeq(s)[O[i - 1] + k] = s[i][k]
  <2> HIDE DEF N
  <2> QED  BY <1>2, <1>7, <1>8, <1>10, <1>11
<1> QED  BY <1>12

\* A piece lies before the next ones.
LEMMA BeginsInOrder ==
  ASSUME NEW S, NEW s \in Seq(Seq(S)), NEW O, Begins(s, O),
         NEW m \in 0..Len(s), NEW n \in 0..Len(s), m <= n
  PROVE  O[m] <= O[n] /\ (m < n => O[m] + Len(s[m + 1]) <= O[n])
<1> DEFINE N == Len(s)
           Good(i) == m <= i => O[m] <= O[i] /\ (m < i => O[m] + Len(s[m + 1]) <= O[i])
           G == {i \in 0..N : Good(i)}
<1>1. N \in Nat /\ \A i \in 1..N : Len(s[i]) \in Nat  BY LenProperties, ElementOfSeq
<1>2. \A i \in 0..N : O[i] \in Nat  BY DEF Begins
<1>3. 0 \in G  BY <1>1, <1>2
<1>4. ASSUME NEW i \in 1..N, i - 1 \in G
      PROVE  i \in G
  <2>1. O[i] = O[i - 1] + Len(s[i])  BY DEF Begins
  <2>2. O[i] \in Nat /\ O[i - 1] \in Nat /\ Len(s[i]) \in Nat /\ O[m] \in Nat
    BY <1>1, <1>2
  <2>3. m \in Nat /\ i \in 0..N /\ i \in Nat  BY <1>1
  <2>4. CASE m <= i - 1
    <3>1. Good(i - 1)  BY <1>4
    <3>2. CASE m = i - 1
      BY <2>1, <2>2, <2>3, <3>2
    <3>3. CASE m < i - 1
      <4>1. Len(s[m + 1]) \in Nat  BY <1>1, <2>3, <3>3
      <4>2. O[m] <= O[i - 1] /\ O[m] + Len(s[m + 1]) <= O[i - 1]
        BY <2>4, <3>1, <3>3
      <4>3. Good(i)
        <5> DEFINE a == O[m]
                   b == O[i - 1]
                   c == O[i]
                   d == Len(s[m + 1])
                   e == Len(s[i])
        <5>1. a \in Nat /\ b \in Nat /\ c = b + e /\ d \in Nat /\ e \in Nat /\ a <= b /\ a + d <= b
          BY <2>1, <2>2, <4>1, <4>2
        <5> HIDE DEF a, b, c, d, e
        <5>2. a <= c /\ a + d <= c  BY <5>1
        <5> QED  BY <5>2 DEF a, c, d
      <4> QED  BY <2>3, <4>3
    <3> QED  BY <2>3, <2>4, <3>2, <3>3
  <2>5. CASE ~(m <= i - 1)
    BY <2>2, <2>3, <2>5
  <2> QED  BY <2>4, <2>5
<1>5. \A i \in 0..N : i \in G
  <2>1. \A i \in 1..N : i - 1 \in G => i \in G  BY <1>4
  <2> HIDE DEF G, N
  <2> QED  BY <1>1, <1>3, <2>1, Upwards
<1>6. Good(n)  BY <1>5
<1> QED  BY <1>6

\* Pieces that are all of one size, but for the last, are found by multiplication.
LEMMA PiecesInLine ==
  ASSUME NEW S, NEW s \in Seq(Seq(S)), s # <<>>, NEW size \in Nat,
         \A i \in 1..(Len(s) - 1) : Len(s[i]) = size
  PROVE  /\ FlattenSeq(s) \in Seq(S)
         /\ Len(FlattenSeq(s)) = (Len(s) - 1) * size + Len(s[Len(s)])
         /\ \A i \in 1..Len(s) : \A k \in 1..Len(s[i]) :
              FlattenSeq(s)[(i - 1) * size + k] = s[i][k]
<1> DEFINE N == Len(s)
<1>1. N \in Nat \ {0} /\ \A i \in 1..N : Len(s[i]) \in Nat
  BY LenProperties, EmptySeq, ElementOfSeq
<1>2. PICK O : /\ Begins(s, O)
               /\ Len(FlattenSeq(s)) = O[N]
               /\ \A i \in 1..N : \A k \in 1..Len(s[i]) : FlattenSeq(s)[O[i - 1] + k] = s[i][k]
  BY FlattenIs
<1> DEFINE G == {i \in 0..(N - 1) : O[i] = i * size}
<1>3. 0 \in G
  <2>1. O[0] = 0 /\ 0 * size = 0  BY <1>2, SMT DEF Begins
  <2> QED  BY <1>1, <2>1
<1>4. ASSUME NEW i \in 1..(N - 1), i - 1 \in G
      PROVE  i \in G
  <2>1. O[i] = O[i - 1] + size /\ i \in 1..N
    <3>1. i \in 1..N  BY <1>1
    <3>2. O[i] = O[i - 1] + Len(s[i])  BY <1>2, <3>1, Zenon DEF Begins
    <3>3. Len(s[i]) = size  BY Zenon
    <3> QED  BY <3>1, <3>2, <3>3, Zenon
  <2>2. O[i - 1] = (i - 1) * size  BY <1>4
  <2>3. (i - 1) * size + size = i * size  BY <1>1, SMT
  <2>4. i \in 0..(N - 1)  BY <1>1
  <2> HIDE DEF N
  <2> QED  BY <2>1, <2>2, <2>3, <2>4
<1>5. \A i \in 0..(N - 1) : O[i] = i * size
  <2>1. \A i \in 1..(N - 1) : i - 1 \in G => i \in G  BY <1>4
  <2>2. N - 1 \in Nat  BY <1>1
  <2> DEFINE M == N - 1
  <2>3. M \in Nat /\ 0 \in G /\ \A i \in 1..M : i - 1 \in G => i \in G  BY <1>3, <2>1, <2>2
  <2>4. \A i \in 0..M : i \in G
    <3> HIDE DEF M, G
    <3> QED  BY <2>3, Upwards
  <2> QED  BY <2>4
<1>6. O[N] = (N - 1) * size + Len(s[N])
  <2>1. O[N] = O[N - 1] + Len(s[N]) /\ N - 1 \in 0..(N - 1)  BY <1>1, <1>2 DEF Begins
  <2> HIDE DEF N
  <2> QED  BY <1>5, <2>1
<1>7. \A i \in 1..N : i - 1 \in 0..(N - 1)  BY <1>1
<1>8. FlattenSeq(s) \in Seq(S)  BY FlattenIs
<1> QED  BY <1>2, <1>5, <1>6, <1>7, <1>8

------------------------------------------------------------------------------
(* The encrypted channel. *)

\* The ciphered bytes.
Bytes == [counter : Nat, is : {"length1", "length2", "data", "tag"}, of : Nat]

\* The data of block c when P[c] plain bytes come before it, and the block.
DataOf(P, c) == [i \in 1..(P[c + 1] - P[c]) |-> P[c] + i]
BlockOf(P, c) == Block(c, DataOf(P, c))
\* Where block c begins among the ciphered bytes.
PlaceOf(P, c) == 3 * c + P[c]

\* P[c] plain bytes come before block c.
Cuts(P) == P \in [Nat -> Nat] /\ \A c \in Nat, d \in Nat : c <= d => P[c] <= P[d]

\* The bytes w are the blocks from a up to b.
Carries(w, P, a, b) ==
  /\ w \in Seq(Bytes) /\ Len(w) = PlaceOf(P, b) - PlaceOf(P, a)
  /\ \A c \in a..(b - 1) : \A j \in 1..(PlaceOf(P, c + 1) - PlaceOf(P, c)) :
       w[PlaceOf(P, c) - PlaceOf(P, a) + j] = BlockOf(P, c)[j]

\* What a block is made of.
LEMMA BlockIs ==
  ASSUME NEW c \in Nat, NEW data \in Seq(Nat)
  PROVE  /\ Block(c, data) \in Seq(Bytes) /\ Len(Block(c, data)) = Len(data) + 3
         /\ \A j \in 1..(Len(data) + 3) :
              /\ Block(c, data)[j].counter = c
              /\ j \in 3..(Len(data) + 2) => Block(c, data)[j].of = data[j - 2]
         /\ Block(c, data)[1].of = Len(data)
<1> DEFINE n == Len(data)
           h == <<[counter |-> c, is |-> "length1", of |-> n],
                  [counter |-> c, is |-> "length2", of |-> n]>>
           d == [i \in 1..n |-> [counter |-> c, is |-> "data", of |-> data[i]]]
           t == <<[counter |-> c, is |-> "tag", of |-> n]>>
<1>1. n \in Nat /\ \A i \in 1..n : data[i] \in Nat  BY LenProperties, ElementOfSeq
<1>2. /\ h \in Seq(Bytes) /\ Len(h) = 2 /\ h[1].counter = c /\ h[2].counter = c /\ h[1].of = n
  <2>1. /\ [counter |-> c, is |-> "length1", of |-> n] \in Bytes
        /\ [counter |-> c, is |-> "length2", of |-> n] \in Bytes
    BY <1>1 DEF Bytes
  <2> HIDE DEF n
  <2> QED  BY <2>1
<1>3. /\ d \in Seq(Bytes) /\ Len(d) = n
      /\ \A i \in 1..n : d[i].counter = c /\ d[i].of = data[i]
  <2>1. \A i \in 1..n : [counter |-> c, is |-> "data", of |-> data[i]] \in Bytes
    BY <1>1 DEF Bytes
  <2>2. d \in [1..n -> Bytes]  BY <2>1
  <2>3. \A i \in 1..n : d[i] = [counter |-> c, is |-> "data", of |-> data[i]]  OBVIOUS
  <2> HIDE DEF n, d
  <2> QED  BY <1>1, <2>2, <2>3
<1>4. t \in Seq(Bytes) /\ Len(t) = 1 /\ t[1].counter = c
  <2>1. [counter |-> c, is |-> "tag", of |-> n] \in Bytes  BY <1>1 DEF Bytes
  <2> HIDE DEF n
  <2> QED  BY <2>1
<1>5. Block(c, data) = (h \o d) \o t  BY DEF Block
<1> HIDE DEF h, d, t, n
<1>6. /\ h \o d \in Seq(Bytes) /\ Len(h \o d) = 2 + n
      /\ \A j \in 1..(2 + n) : (h \o d)[j] = IF j <= 2 THEN h[j] ELSE d[j - 2]
  <2>1. /\ h \o d \in Seq(Bytes) /\ Len(h \o d) = Len(h) + Len(d)
        /\ \A j \in 1..(Len(h) + Len(d)) : (h \o d)[j] = IF j <= Len(h) THEN h[j] ELSE d[j - Len(h)]
    BY <1>2, <1>3, ConcatProperties
  <2> QED  BY <1>2, <1>3, <2>1
<1>7. /\ (h \o d) \o t \in Seq(Bytes) /\ Len((h \o d) \o t) = n + 3
      /\ \A j \in 1..(n + 3) : ((h \o d) \o t)[j] = IF j <= 2 + n THEN (h \o d)[j] ELSE t[1]
  <2> DEFINE hd == h \o d
  <2>1. hd \in Seq(Bytes) /\ Len(hd) = 2 + n  BY <1>6
  <2> HIDE DEF hd
  <2>2. /\ hd \o t \in Seq(Bytes) /\ Len(hd \o t) = Len(hd) + Len(t)
        /\ \A j \in 1..(Len(hd) + Len(t)) :
             (hd \o t)[j] = IF j <= Len(hd) THEN hd[j] ELSE t[j - Len(hd)]
    BY <1>4, <2>1, ConcatProperties
  <2>3. \A j \in 1..(n + 3) : j <= 2 + n \/ j - (2 + n) = 1  BY <1>1
  <2>4. /\ hd \o t \in Seq(Bytes) /\ Len(hd \o t) = n + 3
        /\ \A j \in 1..(n + 3) : (hd \o t)[j] = IF j <= 2 + n THEN hd[j] ELSE t[1]
    BY <1>1, <1>4, <2>1, <2>2, <2>3
  <2> QED  BY <2>4 DEF hd
<1>8. \A j \in 1..(n + 3) : /\ ((h \o d) \o t)[j].counter = c
                            /\ j \in 3..(n + 2) => ((h \o d) \o t)[j].of = data[j - 2]
  <2> TAKE j \in 1..(n + 3)
  <2>1. CASE j <= 2
    <3>1. j \in 1..(2 + n) /\ j <= 2 + n /\ (j = 1 \/ j = 2)  BY <1>1, <2>1
    <3>2. ((h \o d) \o t)[j] = (h \o d)[j]  BY <1>7, <3>1
    <3>3. (h \o d)[j] = h[j]  BY <1>6, <2>1, <3>1
    <3>4. j \notin 3..(n + 2)  BY <2>1
    <3> QED  BY <1>2, <3>1, <3>2, <3>3, <3>4
  <2>2. CASE j \in 3..(n + 2)
    <3>1. ((h \o d) \o t)[j] = d[j - 2] /\ j - 2 \in 1..n  BY <1>1, <1>6, <1>7, <2>2
    <3> QED  BY <1>3, <3>1
  <2>3. CASE j = n + 3
    <3>1. ((h \o d) \o t)[j] = t[1] /\ j \notin 3..(n + 2)  BY <1>1, <1>7, <2>3
    <3> QED  BY <1>4, <3>1
  <2>4. j <= 2 \/ j \in 3..(n + 2) \/ j = n + 3  BY <1>1
  <2> QED  BY <2>1, <2>2, <2>3, <2>4
<1>9. ((h \o d) \o t)[1] = h[1]  BY <1>1, <1>6, <1>7
<1> QED  BY <1>2, <1>5, <1>7, <1>8, <1>9 DEF n

\* decrypt's loop, turn by turn.
LEMMA DecryptExists ==
  ASSUME NEW buf \in Seq(Bytes), NEW counter
  PROVE  \E f : /\ f = [b \in 0..Len(buf) |->
                          IF b = 0 THEN [at |-> 1, blocks |-> 0, ok |-> Len(buf) >= 2,
                                         plain |-> <<>>]
                          ELSE DecryptBlock(buf, counter, f[b - 1])]
                /\ decrypt(buf, counter) = f[Len(buf)]
<1> DEFINE N == Len(buf)
           v == [at |-> 1, blocks |-> 0, ok |-> Len(buf) >= 2, plain |-> <<>>]
           Is(f, m) == f = [b \in 0..m |-> IF b = 0 THEN v
                                           ELSE DecryptBlock(buf, counter, f[b - 1])]
           G == {m \in 0..N : \E f : Is(f, m)}
<1>1. N \in Nat  BY LenProperties
<1>2. 0 \in G
  <2>1. Is([b \in 0..0 |-> v], 0)
    <3>1. \A b \in 0..0 : b = 0  OBVIOUS
    <3> HIDE DEF v
    <3> QED  BY <3>1
  <2>2. 0 \in 0..N  BY <1>1
  <2> HIDE DEF Is, N, v
  <2> QED  BY <2>1, <2>2
<1>3. ASSUME NEW m \in 1..N, m - 1 \in G
      PROVE  m \in G
  <2>1. PICK f : Is(f, m - 1)  BY <1>3
  <2> HIDE DEF v
  <2> DEFINE g == [b \in 0..m |-> IF b = 0 THEN v ELSE DecryptBlock(buf, counter, f[b - 1])]
  <2>2. \A b \in 0..(m - 1) : g[b] = f[b]
    <3> TAKE b \in 0..(m - 1)
    <3>1. b \in 0..m  BY <1>1
    <3>2. f[b] = IF b = 0 THEN v ELSE DecryptBlock(buf, counter, f[b - 1])  BY <2>1
    <3> QED  BY <3>1, <3>2
  <2>3. \A b \in 0..m : g[b] = IF b = 0 THEN v ELSE DecryptBlock(buf, counter, g[b - 1])
    <3> TAKE b \in 0..m
    <3>1. g[b] = IF b = 0 THEN v ELSE DecryptBlock(buf, counter, f[b - 1])  OBVIOUS
    <3>2. b # 0 => g[b - 1] = f[b - 1]
      <4>1. b # 0 => b - 1 \in 0..(m - 1)  BY <1>1
      <4> HIDE DEF g
      <4> QED  BY <2>2, <4>1
    <3> HIDE DEF g
    <3> QED  BY <3>1, <3>2
  <2>4. Is(g, m)
    <3>1. g = [b \in 0..m |-> g[b]]  OBVIOUS
    <3> HIDE DEF g
    <3> QED  BY <2>3, <3>1
  <2>5. m \in 0..N  BY <1>1
  <2> HIDE DEF g, Is, N
  <2> QED  BY <2>4, <2>5
<1>4. N \in G
  <2>1. \A m \in 1..N : m - 1 \in G => m \in G  BY <1>3
  <2>2. N \in Nat /\ N \in 0..N  BY <1>1
  <2> HIDE DEF G, N
  <2> QED  BY <1>2, <2>1, <2>2, Upwards
<1>5. \E f : Is(f, N)  BY <1>4
<1> DEFINE upto == CHOOSE f : Is(f, N)
<1>6. Is(upto, N)  BY <1>5, Zenon
<1>7. decrypt(buf, counter) = upto[N]  BY Zenon DEF decrypt
<1> HIDE DEF upto
<1> QED  BY <1>6, <1>7

\* The plain bytes after x up to y.
Plain(x, y) == [i \in 1..(y - x) |-> x + i]

\* What they are, and that they go on where others end.
LEMMA PlainIs ==
  ASSUME NEW x \in Nat, NEW y \in Nat, x <= y
  PROVE  /\ Plain(x, y) \in Seq(Nat) /\ Len(Plain(x, y)) = y - x
         /\ \A i \in 1..(y - x) : Plain(x, y)[i] = x + i
<1>1. y - x \in Nat /\ \A i \in 1..(y - x) : x + i \in Nat  OBVIOUS
<1> DEFINE m == y - x
<1>2. m \in Nat /\ \A i \in 1..m : x + i \in Nat  BY <1>1
<1> HIDE DEF m
<1>3. [i \in 1..m |-> x + i] \in Seq(Nat) /\ Len([i \in 1..m |-> x + i]) = m  BY <1>2
<1> QED  BY <1>3 DEF Plain, m

LEMMA PlainGoesOn ==
  ASSUME NEW x \in Nat, NEW y \in Nat, NEW z \in Nat, x <= y, y <= z
  PROVE  Plain(x, y) \o Plain(y, z) = Plain(x, z)
<1> DEFINE s == Plain(x, y)
           t == Plain(y, z)
           r == Plain(x, z)
<1>1. /\ s \in Seq(Nat) /\ Len(s) = y - x /\ \A i \in 1..(y - x) : s[i] = x + i
  BY PlainIs
<1>2. /\ t \in Seq(Nat) /\ Len(t) = z - y /\ \A i \in 1..(z - y) : t[i] = y + i
  BY PlainIs
<1>3. x <= z  OBVIOUS
<1>4. /\ r \in Seq(Nat) /\ Len(r) = z - x /\ \A i \in 1..(z - x) : r[i] = x + i
  BY <1>3, PlainIs
<1> HIDE DEF s, t, r
<1>5. /\ s \o t \in Seq(Nat) /\ Len(s \o t) = Len(s) + Len(t)
      /\ \A i \in 1..(Len(s) + Len(t)) : (s \o t)[i] = IF i <= Len(s) THEN s[i] ELSE t[i - Len(s)]
  BY <1>1, <1>2, ConcatProperties
<1>6. Len(s \o t) = Len(r) /\ Len(s \o t) = z - x  BY <1>1, <1>2, <1>4, <1>5
<1>7. \A i \in 1..(z - x) : (s \o t)[i] = r[i]
  <2> TAKE i \in 1..(z - x)
  <2>1. (s \o t)[i] = IF i <= y - x THEN s[i] ELSE t[i - (y - x)]  BY <1>1, <1>2, <1>5
  <2>2. CASE i <= y - x
    <3>1. i \in 1..(y - x)  BY <2>2
    <3> QED  BY <1>1, <1>4, <2>1, <2>2, <3>1
  <2>3. CASE ~(i <= y - x)
    <3>1. i - (y - x) \in 1..(z - y) /\ y + (i - (y - x)) = x + i  BY <2>3
    <3> QED  BY <1>2, <1>4, <2>1, <2>3, <3>1
  <2> QED  BY <2>2, <2>3
<1>8. s \o t = r  BY <1>4, <1>5, <1>6, <1>7, SeqEqual
<1> QED  BY <1>8 DEF s, t, r

\* What has come of block c, whose data are the bytes after y up to z, follows o in buf.
BlockAt(buf, o, c, y, z) ==
  /\ buf \in Seq(Bytes) /\ o \in Nat /\ c \in Nat /\ y \in Nat /\ z \in Nat /\ y <= z
  /\ \A j \in 1..(z - y + 3) : o + j <= Len(buf) => buf[o + j] = Block(c, Plain(y, z))[j]

\* Where decrypt's loop is after k blocks, o bytes of buf, whose plain bytes are x to y.
After(o, k, x, y) == [at |-> o + 1, blocks |-> k, ok |-> TRUE, plain |-> Plain(x, y)]

\* The block there is deciphered, or the turn changes nothing.
Turned(buf, a, o, k, x, y, z) ==
  \/ DecryptBlock(buf, a, After(o, k, x, y)) = After(o, k, x, y)
  \/ /\ o + (z - y + 3) <= Len(buf)
     /\ DecryptBlock(buf, a, After(o, k, x, y)) = After(o + (z - y + 3), k + 1, x, z)

\* A turn of decrypt's loop at a place where block c begins: the block is deciphered if
\* all of it is there.
LEMMA DecryptTurn ==
  ASSUME NEW buf, NEW o, NEW c, NEW y, NEW z, BlockAt(buf, o, c, y, z),
         NEW a \in Nat, NEW k \in Nat, a + k = c, NEW x \in Nat, x <= y
  PROVE  Turned(buf, a, o, k, x, y, z)
<1> DEFINE s == After(o, k, x, y)
           q == z - y
           B == Block(c, Plain(y, z))
<1>12. /\ buf \in Seq(Bytes) /\ o \in Nat /\ c \in Nat /\ y \in Nat /\ z \in Nat /\ y <= z
       /\ \A j \in 1..(z - y + 3) : o + j <= Len(buf) => buf[o + j] = Block(c, Plain(y, z))[j]
  BY Zenon DEF BlockAt
<1>0. q \in Nat /\ Len(buf) \in Nat /\ Plain(y, z) \in Seq(Nat) /\ Len(Plain(y, z)) = q
      /\ \A i \in 1..q : Plain(y, z)[i] = y + i
  <2>1. /\ Plain(y, z) \in Seq(Nat) /\ Len(Plain(y, z)) = z - y
        /\ \A i \in 1..(z - y) : Plain(y, z)[i] = y + i
    BY <1>12, PlainIs
  <2>2. z - y \in Nat /\ Len(buf) \in Nat  BY <1>12, LenProperties
  <2> QED  BY <2>1, <2>2
<1> HIDE DEF q
<1>13. o \in Int /\ q \in Int /\ Len(buf) \in Int
  <2>1. q \in Nat /\ Len(buf) \in Nat /\ o \in Nat  BY Zenon, <1>0, <1>12
  <2> QED  BY <2>1
<1>1. /\ \A j \in 1..(q + 3) : B[j].counter = c /\ (j \in 3..(q + 2) => B[j].of = Plain(y, z)[j - 2])
      /\ B[1].of = q
  <2> DEFINE data == Plain(y, z)
  <2>1. data \in Seq(Nat) /\ Len(data) = q  BY <1>0, Zenon
  <2> HIDE DEF data
  <2>2. /\ \A j \in 1..(Len(data) + 3) :
             /\ Block(c, data)[j].counter = c
             /\ j \in 3..(Len(data) + 2) => Block(c, data)[j].of = data[j - 2]
        /\ Block(c, data)[1].of = Len(data)
    BY <1>12, <2>1, BlockIs, Zenon
  <2> QED  BY <2>1, <2>2, Zenon DEF data
<1>2. \A j \in 1..(q + 3) : o + j <= Len(buf) => buf[o + j] = B[j]  BY <1>12 DEF q
<1> HIDE DEF B
<1>3. s.at = o + 1 /\ s.ok = TRUE /\ s.blocks = k /\ s.plain = Plain(x, y)  BY DEF After
<1> HIDE DEF s
<1> SUFFICES ASSUME DecryptBlock(buf, a, s) # s
             PROVE  /\ o + (q + 3) <= Len(buf)
                    /\ DecryptBlock(buf, a, s) = After(o + (q + 3), k + 1, x, z)
  BY DEF q, s, Turned
<1>4. ~(~s.ok \/ s.at > Len(buf) \/ ~Whole(buf, s.at))  BY Zenon DEF DecryptBlock
<1>5. o + 1 <= Len(buf) /\ Whole(buf, o + 1)  BY <1>0, <1>12, <1>3, <1>4
<1>6. buf[o + 1].of = q
  <2>1. 1 \in 1..(q + 3)  BY <1>0, <1>12
  <2> QED  BY <1>1, <1>2, <1>5, <2>1
<1>7. BlockSize(buf, o + 1) = q + 3 /\ o + (q + 3) <= Len(buf)
  <2>1. BlockSize(buf, o + 1) = q + 3  BY <1>0, <1>12, <1>6 DEF BlockSize
  <2>2. o + 1 + (q + 3) - 1 <= Len(buf)  BY <1>5, <2>1 DEF Whole
  <2> QED  BY <1>0, <1>12, <2>1, <2>2
<1>8. Authentic(buf, o + 1, c)
  <2> SUFFICES ASSUME NEW j \in (o + 1)..(o + 1 + (q + 3) - 1)
               PROVE  buf[j].counter = c
    BY <1>7, Zenon DEF Authentic
  <2> DEFINE i == j - o
  <2>1. i \in 1..(q + 3) /\ o + i = j /\ j <= Len(buf)  BY <1>0, <1>12, <1>7
  <2> HIDE DEF i
  <2>2. buf[j] = B[i]  BY <1>2, <2>1
  <2> QED  BY <1>1, <2>1, <2>2
<1>9. s.plain \o [i \in 1..buf[s.at].of |-> buf[s.at + 1 + i].of] = Plain(x, z)
  <2>1. \A i \in 1..q : buf[o + 1 + 1 + i].of = y + i
    <3> TAKE i \in 1..q
    <3> DEFINE j == i + 2
    <3>0. i \in Int /\ 1 <= i /\ i <= q  BY <1>13
    <3>1. /\ j \in 1..(q + 3)
          /\ j \in 3..(q + 2)
          /\ o + j <= Len(buf)
          /\ o + 1 + 1 + i = o + j
          /\ j - 2 = i
      <4>1. j \in Int /\ j = i + 2 /\ 3 <= j /\ j <= q + 2  BY <3>0, <1>13
      <4> HIDE DEF j
      <4>2. j \in 1..(q + 3) /\ j \in 3..(q + 2)  BY <4>1, <1>13
      <4>3. o + j <= Len(buf)  BY <4>1, <1>7, <1>13
      <4>4. o + 1 + 1 + i = o + j /\ j - 2 = i  BY <3>0, <4>1, <1>13
      <4> QED  BY <4>2, <4>3, <4>4
    <3> HIDE DEF j
    <3>2. buf[o + j] = B[j] /\ B[j].of = Plain(y, z)[j - 2]  BY <1>1, <1>2, <3>1
    <3>3. B[j].of = y + i  BY <1>0, <1>12, <3>1, <3>2
    <3> QED  BY <3>1, <3>2, <3>3
  <2>2. [i \in 1..buf[s.at].of |-> buf[s.at + 1 + i].of] = [i \in 1..q |-> y + i]
    <3>1. [i \in 1..buf[s.at].of |-> buf[s.at + 1 + i].of] = [i \in 1..q |-> buf[o + 1 + 1 + i].of]
      BY <1>3, <1>6
    <3> QED  BY <2>1, <3>1
  <2>3. Plain(y, z) = [i \in 1..q |-> y + i]  BY DEF Plain, q
  <2>4. Plain(x, y) \o Plain(y, z) = Plain(x, z)  BY <1>12, PlainGoesOn
  <2>5. s.plain \o [i \in 1..buf[s.at].of |-> buf[s.at + 1 + i].of] = Plain(x, y) \o Plain(y, z)
    BY <1>3, <2>2, <2>3, Zenon
  <2> QED  BY <2>4, <2>5
<1>10. DecryptBlock(buf, a, s) = [at |-> s.at + BlockSize(buf, s.at), blocks |-> s.blocks + 1,
                                  ok |-> TRUE,
                                  plain |-> s.plain \o [i \in 1..buf[s.at].of |-> buf[s.at + 1 + i].of]]
  <2>1. Authentic(buf, s.at, a + s.blocks)  BY <1>3, <1>8
  <2> QED  BY <1>4, <2>1, Zenon DEF DecryptBlock
<1>11. s.at + BlockSize(buf, s.at) = o + (q + 3) + 1 /\ s.blocks + 1 = k + 1
  BY <1>0, <1>12, <1>3, <1>7
<1> QED  BY <1>7, <1>9, <1>10, <1>11 DEF After

Reads(P, a, k) == After(PlaceOf(P, a + k) - PlaceOf(P, a), k, P[a], P[a + k])

\* The numbers of a block, its beginning and its end.
LEMMA PlacesOf ==
  ASSUME NEW P, Cuts(P), NEW a \in Nat, NEW b \in Nat, a <= b
  PROVE  /\ P[a] \in Nat /\ P[b] \in Nat /\ P[a] <= P[b]
         /\ PlaceOf(P, a) = 3 * a + P[a] /\ PlaceOf(P, b) = 3 * b + P[b]
         /\ PlaceOf(P, b) - PlaceOf(P, a) \in Nat
         /\ a < b => PlaceOf(P, a) < PlaceOf(P, b)
<1>1. P[a] \in Nat /\ P[b] \in Nat  BY DEF Cuts
<1>2. P[a] <= P[b]  BY DEF Cuts
<1> DEFINE x == P[a]
           y == P[b]
<1>3. x \in Nat /\ y \in Nat /\ x <= y  BY <1>1, <1>2
<1> HIDE DEF x, y
<1>4. 3 * b + y - (3 * a + x) \in Nat /\ (a < b => 3 * a + x < 3 * b + y)  BY <1>3
<1> QED  BY <1>1, <1>2, <1>4 DEF x, y, PlaceOf

\* The bytes buf are what has come of the blocks w.
Starts(buf, w) ==
  buf \in Seq(Bytes) /\ Len(buf) <= Len(w) /\ \A i \in 1..Len(buf) : buf[i] = w[i]

\* Of the blocks from a up to b, the first k lie wholly in buf.
HasCome(P, a, b, buf, k) ==
  k \in Nat /\ a + k <= b /\ PlaceOf(P, a + k) - PlaceOf(P, a) <= Len(buf)

\* A turn of decrypt's loop after k blocks: it deciphers the next one, or changes nothing.
LEMMA ReadsOn ==
  ASSUME NEW P, Cuts(P), NEW a \in Nat, NEW b \in Nat, NEW w, Carries(w, P, a, b),
         NEW buf, Starts(buf, w),
         NEW k \in Nat, a + k <= b, PlaceOf(P, a + k) - PlaceOf(P, a) <= Len(buf)
  PROVE  \/ DecryptBlock(buf, a, Reads(P, a, k)) = Reads(P, a, k)
         \/ /\ a + (k + 1) <= b /\ PlaceOf(P, a + (k + 1)) - PlaceOf(P, a) <= Len(buf)
            /\ DecryptBlock(buf, a, Reads(P, a, k)) = Reads(P, a, k + 1)
<1>0. PICK c \in Nat, d \in Nat : c = a + k /\ d = c + 1 /\ d = a + (k + 1)
  OBVIOUS
<1>1. a <= c /\ c <= d /\ c <= b /\ c < d /\ a <= d /\ a <= b  BY <1>0
<1>2. PICK x \in Nat, y \in Nat, z \in Nat : x = P[a] /\ y = P[c] /\ z = P[d] /\ x <= y /\ y <= z
  <2>1. P[a] \in Nat /\ P[c] \in Nat /\ P[a] <= P[c]  BY <1>1, PlacesOf
  <2>2. P[d] \in Nat /\ P[c] <= P[d]  BY <1>1, PlacesOf
  <2> QED  BY <2>1, <2>2
<1>3. /\ PlaceOf(P, a) = 3 * a + x /\ PlaceOf(P, c) = 3 * c + y /\ PlaceOf(P, d) = 3 * d + z
  BY <1>2 DEF PlaceOf
<1>4. PICK o \in Nat : o = PlaceOf(P, c) - PlaceOf(P, a)
  BY <1>1, PlacesOf
<1>5. PlaceOf(P, d) - PlaceOf(P, a) = o + (z - y + 3) /\ PlaceOf(P, d) - PlaceOf(P, c) = z - y + 3
  <2> DEFINE u == PlaceOf(P, a)
             v == PlaceOf(P, c)
             t == PlaceOf(P, d)
  <2>1. u = 3 * a + x /\ v = 3 * c + y /\ t = 3 * d + z /\ o = v - u  BY <1>3, <1>4
  <2> HIDE DEF u, v, t
  <2>2. t - u = o + (z - y + 3) /\ t - v = z - y + 3  BY <1>0, <2>1
  <2> QED  BY <2>2 DEF u, v, t
<1>6. Reads(P, a, k) = After(o, k, x, y)
  BY <1>0, <1>2, <1>4 DEF Reads
<1>7. Reads(P, a, k + 1) = After(o + (z - y + 3), k + 1, x, z)
  BY <1>0, <1>2, <1>5 DEF Reads
<1>8. buf \in Seq(Bytes) /\ Len(buf) \in Nat  BY LenProperties DEF Starts
<1>9. ASSUME c < b  PROVE BlockAt(buf, o, c, y, z)
  <2>1. BlockOf(P, c) = Block(c, Plain(y, z))
    <3>1. c + 1 = d  BY <1>0
    <3> QED  BY <1>2, <3>1 DEF BlockOf, DataOf, Plain
  <2>2. c \in a..(b - 1) /\ c + 1 = d  BY <1>0, <1>1, <1>9
  <2>3. \A j \in 1..(z - y + 3) : w[o + j] = BlockOf(P, c)[j]
    BY <1>4, <1>5, <2>2 DEF Carries
  <2>4. \A j \in 1..(z - y + 3) : o + j <= Len(buf) => o + j \in 1..Len(buf)
    BY <1>8
  <2>5. \A j \in 1..(z - y + 3) : o + j <= Len(buf) => buf[o + j] = Block(c, Plain(y, z))[j]
    BY <2>1, <2>3, <2>4 DEF Starts
  <2> QED  BY <1>2, <1>8, <2>5, Zenon DEF BlockAt
<1>10. CASE c < b
  <2>1. BlockAt(buf, o, c, y, z)  BY <1>9, <1>10
  <2>2. x <= y /\ y <= z /\ a + k = c  BY <1>0, <1>2
  <2>3. Turned(buf, a, o, k, x, y, z)  BY <2>1, <2>2, DecryptTurn
  <2>5. d <= b  BY <1>0, <1>10
  <2> QED  BY <1>0, <1>5, <1>6, <1>7, <2>3, <2>5 DEF Turned
<1>11. CASE c = b
  <2>1. Len(w) = o  BY <1>4, <1>11 DEF Carries
  <2>2. Len(buf) <= o  BY <2>1 DEF Starts
  <2>3. Reads(P, a, k).at = o + 1  BY <1>6 DEF After
  <2>4. Reads(P, a, k).at > Len(buf)  BY <1>8, <2>2, <2>3
  <2> QED  BY <2>4, Zenon DEF DecryptBlock
<1> QED  BY <1>1, <1>10, <1>11

\* decrypt deciphers the first blocks of what has come, as many as are whole.
LEMMA DecryptReads ==
  ASSUME NEW P, Cuts(P), NEW a \in Nat, NEW b \in Nat, a <= b, NEW w, Carries(w, P, a, b),
         NEW buf, Starts(buf, w), Len(buf) >= 2
  PROVE  \E k : HasCome(P, a, b, buf, k) /\ decrypt(buf, a) = Reads(P, a, k)
<1>1. buf \in Seq(Bytes) /\ Len(buf) \in Nat  BY LenProperties DEF Starts
<1> DEFINE N == Len(buf)
           v == [at |-> 1, blocks |-> 0, ok |-> N >= 2, plain |-> <<>>]
<1>2. PICK f : /\ f = [i \in 0..N |-> IF i = 0 THEN v ELSE DecryptBlock(buf, a, f[i - 1])]
               /\ decrypt(buf, a) = f[N]
  BY <1>1, DecryptExists
<1>3. f[0] = v /\ \A i \in 1..N : f[i] = DecryptBlock(buf, a, f[i - 1])
  <2>1. \A i \in 0..N : f[i] = IF i = 0 THEN v ELSE DecryptBlock(buf, a, f[i - 1])
    BY <1>2
  <2>2. 0 \in 0..N /\ \A i \in 1..N : i \in 0..N /\ i # 0  BY <1>1
  <2> HIDE DEF v, N
  <2> QED  BY <2>1, <2>2
<1>4. v = Reads(P, a, 0) /\ HasCome(P, a, b, buf, 0)
  <2>1. a + 0 = a /\ PlaceOf(P, a) - PlaceOf(P, a) = 0 /\ P[a] \in Nat
    <3>1. a <= a  OBVIOUS
    <3>2. P[a] \in Nat /\ PlaceOf(P, a) = 3 * a + P[a]  BY <3>1, PlacesOf
    <3>3. PlaceOf(P, a) \in Int  BY <3>2
    <3> QED  BY <3>2, <3>3
  <2>2. Plain(P[a], P[a]) = <<>>
    <3>1. Plain(P[a], P[a]) \in Seq(Nat) /\ Len(Plain(P[a], P[a])) = P[a] - P[a]
      <4> DEFINE x == P[a]
      <4>1. x \in Nat /\ x <= x  BY <2>1
      <4> HIDE DEF x
      <4>2. Plain(x, x) \in Seq(Nat) /\ Len(Plain(x, x)) = x - x  BY <4>1, PlainIs
      <4> QED  BY <4>2 DEF x
    <3>2. Len(Plain(P[a], P[a])) = 0  BY <2>1, <3>1
    <3> QED  BY <3>1, <3>2, EmptySeq
  <2>3. Reads(P, a, 0) = [at |-> 1, blocks |-> 0, ok |-> TRUE, plain |-> <<>>]
    <3>1. Reads(P, a, 0) = [at |-> 0 + 1, blocks |-> 0, ok |-> TRUE, plain |-> <<>>]
      BY <2>1, <2>2, Zenon DEF Reads, After
    <3>2. 0 + 1 = 1  OBVIOUS
    <3> QED  BY <3>1, <3>2
  <2>4. v = [at |-> 1, blocks |-> 0, ok |-> TRUE, plain |-> <<>>]  OBVIOUS
  <2>5. HasCome(P, a, b, buf, 0)  BY <1>1, <2>1 DEF HasCome
  <2>6. v = Reads(P, a, 0)  BY <2>3, <2>4, Zenon
  <2> QED  BY <2>5, <2>6
<1> HIDE DEF v, N
<1> DEFINE Good(x) == \E k : HasCome(P, a, b, buf, k) /\ x = Reads(P, a, k)
           G == {i \in 0..N : Good(f[i])}
<1>5. 0 \in G
  <2>1. 0 \in 0..N  BY <1>1 DEF N
  <2>2. Good(f[0])  BY <1>3, <1>4
  <2> HIDE DEF Good
  <2> QED  BY <2>1, <2>2
<1>6. ASSUME NEW i \in 1..N, i - 1 \in G
      PROVE  i \in G
  <2>1. PICK k : HasCome(P, a, b, buf, k) /\ f[i - 1] = Reads(P, a, k)  BY <1>6
  <2>2. \/ DecryptBlock(buf, a, Reads(P, a, k)) = Reads(P, a, k)
        \/ /\ a + (k + 1) <= b /\ PlaceOf(P, a + (k + 1)) - PlaceOf(P, a) <= Len(buf)
           /\ DecryptBlock(buf, a, Reads(P, a, k)) = Reads(P, a, k + 1)
    <3>1. k \in Nat /\ a + k <= b /\ PlaceOf(P, a + k) - PlaceOf(P, a) <= Len(buf)
      BY <2>1 DEF HasCome
    <3> QED  BY <3>1, ReadsOn
  <2>3. k + 1 \in Nat  BY <2>1 DEF HasCome
  <2>4. f[i] = DecryptBlock(buf, a, Reads(P, a, k))  BY <1>3, <2>1
  <2>5. CASE f[i] = Reads(P, a, k)
    BY <2>1, <2>5
  <2>6. CASE f[i] # Reads(P, a, k)
    <3>1. HasCome(P, a, b, buf, k + 1) /\ f[i] = Reads(P, a, k + 1)
      BY <2>2, <2>3, <2>4, <2>6 DEF HasCome
    <3> QED  BY <3>1
  <2> QED  BY <2>5, <2>6
<1>7. N \in G
  <2>1. \A i \in 1..N : i - 1 \in G => i \in G  BY <1>6
  <2>2. N \in Nat /\ N \in 0..N  BY <1>1 DEF N
  <2> HIDE DEF G
  <2> QED  BY <1>5, <2>1, <2>2, Upwards
<1> QED  BY <1>2, <1>7 DEF N

\* Where the bytes of block c lie among those of the blocks from a up to b.
LEMMA BlockWithin ==
  ASSUME NEW P, Cuts(P), NEW a \in Nat, NEW b \in Nat, NEW c \in a..(b - 1)
  PROVE  \E o \in Nat, q \in Nat :
           /\ o = PlaceOf(P, c) - PlaceOf(P, a) /\ q = PlaceOf(P, c + 1) - PlaceOf(P, c)
           /\ o + q <= PlaceOf(P, b) - PlaceOf(P, a)
           /\ PlaceOf(P, b) - PlaceOf(P, a) \in Nat /\ c \in Nat
<1>1. PICK d \in Nat : d = c + 1 /\ c \in Nat /\ a <= c /\ c <= d /\ d <= b /\ a <= b  OBVIOUS
<1>2. PlaceOf(P, c) - PlaceOf(P, a) \in Nat /\ PlaceOf(P, d) - PlaceOf(P, c) \in Nat
  BY <1>1, PlacesOf
<1>3. PlaceOf(P, b) - PlaceOf(P, d) \in Nat /\ PlaceOf(P, b) - PlaceOf(P, a) \in Nat
  BY <1>1, PlacesOf
<1> DEFINE u == PlaceOf(P, a)
           v == PlaceOf(P, c)
           w == PlaceOf(P, d)
           x == PlaceOf(P, b)
<1>4. u \in Int /\ v \in Int /\ w \in Int /\ x \in Int
  <2>1. P[a] \in Nat /\ P[b] \in Nat /\ P[c] \in Nat /\ P[d] \in Nat  BY <1>1 DEF Cuts
  <2> QED  BY <1>1, <2>1 DEF PlaceOf
<1>5. v - u \in Nat /\ w - v \in Nat /\ x - w \in Nat /\ x - u \in Nat  BY <1>2, <1>3
<1> HIDE DEF u, v, w, x
<1>6. (v - u) + (w - v) <= x - u  BY <1>4, <1>5
<1> QED  BY <1>1, <1>5, <1>6 DEF u, v, w, x

\* What is left when the first blocks have been taken.
LEMMA CarriesRest ==
  ASSUME NEW P, Cuts(P), NEW a \in Nat, NEW b \in Nat, NEW w, Carries(w, P, a, b),
         NEW c \in Nat, a <= c, c <= b
  PROVE  Carries(SubSeq(w, PlaceOf(P, c) - PlaceOf(P, a) + 1, Len(w)), P, c, b)
<1>1. PICK o \in Nat, m \in Nat, n \in Nat :
        /\ o = PlaceOf(P, c) - PlaceOf(P, a) /\ m = PlaceOf(P, b) - PlaceOf(P, c)
        /\ n = PlaceOf(P, b) - PlaceOf(P, a) /\ n = o + m
  <2>1. PlaceOf(P, c) - PlaceOf(P, a) \in Nat /\ PlaceOf(P, a) = 3 * a + P[a] /\ P[a] \in Nat
    BY PlacesOf
  <2>2. PlaceOf(P, b) - PlaceOf(P, c) \in Nat /\ PlaceOf(P, b) = 3 * b + P[b] /\ P[b] \in Nat
        /\ PlaceOf(P, c) = 3 * c + P[c] /\ P[c] \in Nat
    BY PlacesOf
  <2> QED  BY <2>1, <2>2
<1>2. w \in Seq(Bytes) /\ Len(w) = n  BY <1>1 DEF Carries
<1> DEFINE r == SubSeq(w, o + 1, Len(w))
<1>3. r \in Seq(Bytes) /\ Len(r) = m /\ \A i \in 1..m : r[i] = w[o + i]
  <2>1. \A i \in (o + 1)..n : w[i] \in Bytes  BY <1>1, <1>2, ElementOfSeq
  <2>2. /\ SubSeq(w, o + 1, n) \in Seq(Bytes)
        /\ Len(SubSeq(w, o + 1, n)) = IF o + 1 <= n THEN n - (o + 1) + 1 ELSE 0
        /\ \A i \in 1..(n - (o + 1) + 1) : SubSeq(w, o + 1, n)[i] = w[o + 1 + i - 1]
    BY <1>1, <2>1, SubSeqProperties
  <2>3. n - (o + 1) + 1 = m /\ (IF o + 1 <= n THEN n - (o + 1) + 1 ELSE 0) = m
    BY <1>1
  <2>4. \A i \in 1..m : o + 1 + i - 1 = o + i  BY <1>1
  <2> QED  BY <1>2, <2>2, <2>3, <2>4
<1> HIDE DEF r
<1>4. ASSUME NEW d \in c..(b - 1), NEW j \in 1..(PlaceOf(P, d + 1) - PlaceOf(P, d))
      PROVE  r[PlaceOf(P, d) - PlaceOf(P, c) + j] = BlockOf(P, d)[j]
  <2>1. PICK e \in Nat, q \in Nat : /\ e = PlaceOf(P, d) - PlaceOf(P, c)
                                    /\ q = PlaceOf(P, d + 1) - PlaceOf(P, d)
                                    /\ e + q <= m /\ d \in Nat
    BY <1>1, BlockWithin
  <2>2. e + j \in 1..m  BY <1>1, <2>1
  <2>3. PlaceOf(P, d) - PlaceOf(P, a) = o + e
    <3>1. PlaceOf(P, a) \in Int /\ PlaceOf(P, c) \in Int /\ PlaceOf(P, d) \in Int
      <4>1. P[a] \in Nat /\ P[c] \in Nat /\ P[d] \in Nat  BY <2>1 DEF Cuts
      <4> QED  BY <2>1, <4>1 DEF PlaceOf
    <3> QED  BY <1>1, <2>1, <3>1
  <2>4. d \in a..(b - 1)  OBVIOUS
  <2>5. w[(o + e) + j] = BlockOf(P, d)[j]  BY <2>3, <2>4 DEF Carries
  <2>6. o + (e + j) = (o + e) + j  BY <2>1
  <2>7. r[e + j] = w[o + (e + j)]  BY <1>3, <2>2
  <2> QED  BY <2>1, <2>5, <2>6, <2>7
<1>5. Carries(r, P, c, b)  BY <1>1, <1>3, <1>4, Zenon DEF Carries
<1> QED  BY <1>1, <1>5 DEF r

\* Blocks put behind blocks.
LEMMA CarriesOn ==
  ASSUME NEW P, Cuts(P), NEW a \in Nat, NEW b \in Nat, NEW c \in Nat, a <= b, b <= c,
         NEW u, Carries(u, P, a, b), NEW v, Carries(v, P, b, c)
  PROVE  Carries(u \o v, P, a, c)
<1>1. PICK m \in Nat, n \in Nat :
        /\ m = PlaceOf(P, b) - PlaceOf(P, a) /\ n = PlaceOf(P, c) - PlaceOf(P, b)
        /\ PlaceOf(P, c) - PlaceOf(P, a) = m + n
  <2>1. PlaceOf(P, b) - PlaceOf(P, a) \in Nat /\ PlaceOf(P, a) = 3 * a + P[a] /\ P[a] \in Nat
    BY PlacesOf
  <2>2. PlaceOf(P, c) - PlaceOf(P, b) \in Nat /\ PlaceOf(P, b) = 3 * b + P[b] /\ P[b] \in Nat
        /\ PlaceOf(P, c) = 3 * c + P[c] /\ P[c] \in Nat
    BY PlacesOf
  <2> QED  BY <2>1, <2>2
<1>2. u \in Seq(Bytes) /\ Len(u) = m /\ v \in Seq(Bytes) /\ Len(v) = n
  BY <1>1 DEF Carries
<1>3. /\ u \o v \in Seq(Bytes) /\ Len(u \o v) = m + n
      /\ \A i \in 1..(m + n) : (u \o v)[i] = IF i <= m THEN u[i] ELSE v[i - m]
  <2>1. /\ u \o v \in Seq(Bytes) /\ Len(u \o v) = Len(u) + Len(v)
        /\ \A i \in 1..(Len(u) + Len(v)) : (u \o v)[i] = IF i <= Len(u) THEN u[i] ELSE v[i - Len(u)]
    BY <1>2, ConcatProperties
  <2> QED  BY <1>2, <2>1
<1>4. ASSUME NEW d \in a..(c - 1), NEW j \in 1..(PlaceOf(P, d + 1) - PlaceOf(P, d))
      PROVE  (u \o v)[PlaceOf(P, d) - PlaceOf(P, a) + j] = BlockOf(P, d)[j]
  <2>1. CASE d < b
    <3>1. d \in a..(b - 1)  BY <2>1
    <3>2. PICK e \in Nat, q \in Nat : /\ e = PlaceOf(P, d) - PlaceOf(P, a)
                                      /\ q = PlaceOf(P, d + 1) - PlaceOf(P, d) /\ e + q <= m
      BY <1>1, <3>1, BlockWithin
    <3>3. e + j \in 1..(m + n) /\ e + j <= m  BY <1>1, <3>2
    <3>4. u[e + j] = BlockOf(P, d)[j]  BY <3>1, <3>2 DEF Carries
    <3>5. (u \o v)[e + j] = u[e + j]  BY <1>3, <3>3
    <3> QED  BY <3>2, <3>4, <3>5
  <2>2. CASE ~(d < b)
    <3>1. d \in b..(c - 1)  BY <2>2
    <3>2. PICK e \in Nat, q \in Nat : /\ e = PlaceOf(P, d) - PlaceOf(P, b)
                                      /\ q = PlaceOf(P, d + 1) - PlaceOf(P, d) /\ e + q <= n
                                      /\ d \in Nat
      BY <1>1, <3>1, BlockWithin
    <3>3. PlaceOf(P, d) - PlaceOf(P, a) = m + e
      <4>1. PlaceOf(P, a) \in Int /\ PlaceOf(P, b) \in Int /\ PlaceOf(P, d) \in Int
        <5>1. P[a] \in Nat /\ P[b] \in Nat /\ P[d] \in Nat  BY <3>2 DEF Cuts
        <5> QED  BY <3>2, <5>1 DEF PlaceOf
      <4> QED  BY <1>1, <3>2, <4>1
    <3>4. (m + e) + j \in 1..(m + n) /\ ~((m + e) + j <= m) /\ (m + e) + j - m = e + j
      BY <1>1, <3>2
    <3>5. v[e + j] = BlockOf(P, d)[j]  BY <3>1, <3>2 DEF Carries
    <3>6. (u \o v)[(m + e) + j] = v[e + j]
      <4> DEFINE i == (m + e) + j
      <4>1. i \in 1..(m + n) /\ ~(i <= m) /\ i - m = e + j  BY <3>4
      <4> HIDE DEF i
      <4>2. (u \o v)[i] = v[i - m]  BY <1>3, <4>1
      <4> QED  BY <4>1, <4>2 DEF i
    <3> QED  BY <3>3, <3>5, <3>6
  <2> QED  BY <2>1, <2>2
<1> QED  BY <1>1, <1>3, <1>4, Zenon DEF Carries

\* Only the plain bytes before the blocks and their ends matter.
LEMMA CarriesSame ==
  ASSUME NEW P, NEW Q, NEW a \in Nat, NEW b \in Nat, a <= b,
         \A c \in Nat : c <= b => Q[c] = P[c], NEW w, Carries(w, P, a, b)
  PROVE  Carries(w, Q, a, b)
<1>1. \A c \in Nat : c <= b => PlaceOf(Q, c) = PlaceOf(P, c)  BY DEF PlaceOf
<1>2. ASSUME NEW c \in a..(b - 1)
      PROVE  /\ PlaceOf(Q, c) = PlaceOf(P, c) /\ PlaceOf(Q, c + 1) = PlaceOf(P, c + 1)
             /\ BlockOf(Q, c) = BlockOf(P, c)
  <2>1. PICK d \in Nat : d = c + 1 /\ d <= b /\ c \in Nat /\ c <= b  OBVIOUS
  <2>2. Q[c] = P[c] /\ Q[d] = P[d] /\ PlaceOf(Q, c) = PlaceOf(P, c) /\ PlaceOf(Q, d) = PlaceOf(P, d)
    BY <1>1, <2>1
  <2>3. BlockOf(Q, c) = BlockOf(P, c)  BY <2>1, <2>2 DEF BlockOf, DataOf
  <2> QED  BY <2>1, <2>2, <2>3
<1>3. PlaceOf(Q, a) = PlaceOf(P, a) /\ PlaceOf(Q, b) = PlaceOf(P, b)  BY <1>1
<1> QED  BY <1>2, <1>3 DEF Carries

\* Both results of a division.
LEMMA DivisionIs ==
  ASSUME NEW m \in Nat \ {0}, NEW x \in Int
  PROVE  \E q \in Int : \E r \in 0 .. m - 1 : x \div m = q /\ x % m = r /\ x = m * q + r
<1> DEFINE q == x \div m
           r == x % m
<1>1. r = x - m * q  BY SMT
<1>2. q \in Int  BY SMT
<1>3. r \in 0 .. m - 1  BY SMT
<1>5. x \div m = q /\ x % m = r  OBVIOUS
<1> HIDE DEF q, r
<1>4. x = m * q + r  BY <1>1, <1>2, <1>3, SMT
<1> QED  BY <1>2, <1>3, <1>4, <1>5, Zenon

\* nblocks(n) is the number of blocks that n plain bytes fill.
LEMMA BlocksNeeded ==
  ASSUME NEW n \in Nat \ {0}
  PROVE  /\ nblocks(n) \in Nat \ {0}
         /\ (nblocks(n) - 1) * ENCRYPTED_LEN_MAX < n /\ n <= nblocks(n) * ENCRYPTED_LEN_MAX
<1>0. PICK m \in Nat \ {0} : m = ENCRYPTED_LEN_MAX  BY ChannelAssumption DEF ChannelAssumption
<1>1. n - 1 \in Int /\ m \in Nat \ {0}  OBVIOUS
<1>2. PICK q \in Int, r \in 0 .. m - 1 : (n - 1) \div m = q /\ n - 1 = m * q + r
  BY <1>1, DivisionIs, Zenon
<1>3. r \in 0 .. m - 1 /\ n - 1 = m * q + r  BY <1>2
<1>4. nblocks(n) = 1 + q  BY <1>0, <1>2, Zenon DEF nblocks
<1>5. q >= 0
  <2> SUFFICES ASSUME q <= -1  PROVE FALSE
    BY <1>2
  <2>1. m * q <= -m  BY <1>1, <1>2, SMT
  <2> DEFINE t == m * q
  <2>2. t \in Int  BY <1>1, <1>2, SMT
  <2> HIDE DEF t
  <2>3. t <= -m /\ n - 1 = t + r  BY <1>3, <2>1 DEF t
  <2> QED  BY <1>1, <1>3, <2>2, <2>3
<1>6. q * m < n /\ n <= (q + 1) * m
  <2>1. q * m = m * q /\ (q + 1) * m = m * q + m /\ m * q \in Int  BY <1>1, <1>2, SMT
  <2> DEFINE t == m * q
  <2>2. t \in Int /\ n - 1 = t + r  BY <1>3, <2>1
  <2> HIDE DEF t
  <2>3. t < n /\ n <= t + m  BY <1>1, <1>3, <2>2
  <2> QED  BY <2>1, <2>3 DEF t
<1>7. 1 + q \in Nat \ {0} /\ 1 + q - 1 = q /\ 1 + q = q + 1  BY <1>2, <1>5
<1>8. nblocks(n) = q + 1 /\ nblocks(n) \in Nat \ {0} /\ nblocks(n) - 1 = q
  <2> DEFINE k == nblocks(n)
  <2>1. k = 1 + q  BY <1>4
  <2> HIDE DEF k
  <2>2. k = q + 1 /\ k \in Nat \ {0} /\ k - 1 = q  BY <1>2, <1>5, <2>1
  <2> QED  BY <2>2 DEF k
<1> QED  BY <1>0, <1>6, <1>8

\* The cuts after write_encrypted has put n plain bytes behind block a.
SentOn(P, a, n) ==
  [c \in Nat |-> IF c <= a THEN P[c] ELSE P[a] + LeastOf(n, (c - a) * ENCRYPTED_LEN_MAX)]

\* They are cuts, and the same as before up to block a.
LEMMA SentOnIs ==
  ASSUME NEW P, Cuts(P), NEW a \in Nat, NEW n \in Nat \ {0}
  PROVE  /\ Cuts(SentOn(P, a, n))
         /\ \A c \in Nat : c <= a => SentOn(P, a, n)[c] = P[c]
         /\ \A b \in Nat : SentOn(P, a, n)[a + b] = P[a] + LeastOf(n, b * ENCRYPTED_LEN_MAX)
<1> DEFINE R == SentOn(P, a, n)
<1>0. PICK m \in Nat \ {0} : m = ENCRYPTED_LEN_MAX  BY ChannelAssumption DEF ChannelAssumption
<1>1. PICK p \in Nat : p = P[a]  BY DEF Cuts
<1>2. \A c \in Nat : R[c] = IF c <= a THEN P[c] ELSE p + LeastOf(n, (c - a) * m)
  BY <1>0, <1>1 DEF SentOn
<1>3. \A c \in Nat : c <= a => P[c] \in Nat /\ P[c] <= p
  BY <1>1 DEF Cuts
<1>4. \A b \in Nat : b * m \in Nat /\ LeastOf(n, b * m) \in Nat
  <2> TAKE b \in Nat
  <2>1. b * m \in Nat  BY SMT
  <2> DEFINE x == b * m
  <2> HIDE DEF x
  <2>2. x \in Nat => LeastOf(n, x) \in Nat  BY DEF LeastOf
  <2> QED  BY <2>1, <2>2 DEF x
<1>5. \A c \in Nat : ~(c <= a) => c - a \in Nat
  OBVIOUS
<1>6. R \in [Nat -> Nat]
  <2>1. ASSUME NEW c \in Nat  PROVE (IF c <= a THEN P[c] ELSE p + LeastOf(n, (c - a) * m)) \in Nat
    <3>1. CASE c <= a  BY <1>3, <3>1
    <3>2. CASE ~(c <= a)
      <4>1. PICK b \in Nat : b = c - a  BY <1>5, <3>2
      <4> DEFINE x == LeastOf(n, b * m)
      <4>2. x \in Nat /\ LeastOf(n, (c - a) * m) = x  BY <1>4, <4>1
      <4> HIDE DEF x
      <4>3. p + x \in Nat  BY <4>2
      <4> QED  BY <3>2, <4>2, <4>3
    <3> QED  BY <3>1, <3>2
  <2>2. R = [c \in Nat |-> IF c <= a THEN P[c] ELSE p + LeastOf(n, (c - a) * m)]
    BY <1>0, <1>1 DEF SentOn
  <2> HIDE DEF R
  <2> QED  BY <2>1, <2>2
<1> HIDE DEF R
<1>7. ASSUME NEW c \in Nat, NEW d \in Nat, c <= d
      PROVE  R[c] <= R[d]
  <2>1. CASE d <= a
    <3>1. c <= a  BY <1>7, <2>1
    <3>2. P[c] <= P[d]  BY <1>7 DEF Cuts
    <3> QED  BY <1>2, <2>1, <3>1, <3>2
  <2>2. CASE ~(d <= a)
    <3>1. R[d] = p + LeastOf(n, (d - a) * m) /\ d - a \in Nat  BY <1>2, <1>5, <2>2
    <3> DEFINE e == LeastOf(n, (d - a) * m)
    <3>2. e \in Nat  BY <1>4, <3>1
    <3>3. CASE c <= a
      <4>1. R[c] = P[c] /\ P[c] \in Nat /\ P[c] <= p  BY <1>2, <1>3, <3>3
      <4> HIDE DEF e
      <4>2. R[d] = p + e  BY <3>1 DEF e
      <4> QED  BY <3>2, <4>1, <4>2
    <3>4. CASE ~(c <= a)
      <4>1. R[c] = p + LeastOf(n, (c - a) * m) /\ c - a \in Nat  BY <1>2, <1>5, <3>4
      <4>2. (c - a) * m <= (d - a) * m
        <5>1. PICK g \in Nat, h \in Nat : g = c - a /\ h = d - a /\ g <= h
          BY <1>7, <3>1, <4>1
        <5>2. g * m <= h * m  BY <5>1, SMT
        <5> QED  BY <5>1, <5>2
      <4>3. (c - a) * m \in Nat /\ (d - a) * m \in Nat  BY <1>4, <3>1, <4>1
      <4> DEFINE x == (c - a) * m
                 y == (d - a) * m
      <4>4. R[c] = p + LeastOf(n, x) /\ R[d] = p + LeastOf(n, y)  BY <3>1, <4>1
      <4>5. x \in Nat /\ y \in Nat /\ x <= y  BY <4>2, <4>3
      <4> HIDE DEF x, y
      <4> QED  BY <4>4, <4>5 DEF LeastOf
    <3> QED  BY <3>3, <3>4
  <2> QED  BY <2>1, <2>2
<1>8. Cuts(R)  BY <1>6, <1>7 DEF Cuts
<1>9. ASSUME NEW b \in Nat  PROVE R[a + b] = p + LeastOf(n, b * m)
  <2>1. CASE b = 0
    <3>1. a + b = a /\ b * m = 0  BY <2>1, SMT
    <3>2. R[a] = p  BY <1>1, <1>2
    <3>3. p + 0 = p /\ LeastOf(n, 0) = 0  BY DEF LeastOf
    <3> QED  BY <3>1, <3>2, <3>3
  <2>2. CASE b # 0
    <3>1. PICK c \in Nat : c = a + b /\ ~(c <= a) /\ c - a = b  BY <2>2
    <3>2. R[c] = p + LeastOf(n, (c - a) * m)  BY <1>2, <3>1
    <3> QED  BY <3>1, <3>2
  <2> QED  BY <2>1, <2>2
<1> QED  BY <1>0, <1>1, <1>2, <1>8, <1>9 DEF R

\* What encrypt writes are the next blocks.
LEMMA EncryptCarries ==
  ASSUME NEW P, Cuts(P), NEW a \in Nat, NEW n \in Nat \ {0}
  PROVE  /\ Carries(encrypt(n, P[a], a), SentOn(P, a, n), a, a + nblocks(n))
         /\ SentOn(P, a, n)[a + nblocks(n)] = P[a] + n
<1>0. PICK m \in Nat \ {0} : m = ENCRYPTED_LEN_MAX  BY ChannelAssumption DEF ChannelAssumption
<1>1. PICK p \in Nat : p = P[a]  BY DEF Cuts
<1>2. PICK nb \in Nat \ {0} : nb = nblocks(n) /\ (nb - 1) * m < n /\ n <= nb * m
  BY <1>0, BlocksNeeded
<1> DEFINE S == SentOn(P, a, n)
<1>3. PICK R : R = S  OBVIOUS
<1>4. Cuts(R) /\ \A b \in Nat : R[a + b] = p + LeastOf(n, b * m)
  <2>1. Cuts(S) /\ \A b \in Nat : S[a + b] = P[a] + LeastOf(n, b * ENCRYPTED_LEN_MAX)
    BY SentOnIs
  <2> HIDE DEF S
  <2> QED  BY <1>0, <1>1, <1>3, <2>1
<1>5. \A b \in 0..(nb - 1) : b \in Nat /\ b * m \in Nat /\ b * m < n
  <2> TAKE b \in 0..(nb - 1)
  <2>1. b \in Nat /\ b <= nb - 1 /\ nb - 1 \in Nat  BY <1>2
  <2>2. b * m <= (nb - 1) * m /\ b * m \in Nat /\ (nb - 1) * m \in Nat
    <3>1. PICK h \in Nat : h = nb - 1 /\ b <= h  BY <2>1
    <3>2. b * m <= h * m /\ b * m \in Nat /\ h * m \in Nat  BY <2>1, <3>1, SMT
    <3> QED  BY <3>1, <3>2
  <2> DEFINE x == b * m
             y == (nb - 1) * m
  <2>3. x \in Nat /\ y \in Nat /\ x <= y /\ y < n  BY <1>2, <2>2
  <2> HIDE DEF x, y
  <2>4. x < n  BY <2>3
  <2> QED  BY <2>1, <2>2, <2>4 DEF x
<1>6. \A b \in 0..(nb - 1) : /\ R[a + b] = p + b * m
                             /\ PlaceOf(R, a + b) - PlaceOf(R, a) = b * (m + 3)
  <2> TAKE b \in 0..(nb - 1)
  <2>1. b \in Nat /\ b * m \in Nat /\ b * m < n /\ R[a + b] = p + LeastOf(n, b * m)
    BY <1>4, <1>5
  <2>2. R[a + b] = p + b * m
    <3> DEFINE x == b * m
    <3>1. x \in Nat /\ x < n /\ R[a + b] = p + LeastOf(n, x)  BY <2>1
    <3> HIDE DEF x
    <3>2. R[a + b] = p + x  BY <3>1 DEF LeastOf
    <3> QED  BY <3>2 DEF x
  <2>3. R[a] = p
    <3>1. 0 \in Nat /\ a + 0 = a /\ 0 * m = 0 /\ LeastOf(n, 0) = 0 /\ p + 0 = p  BY SMT DEF LeastOf
    <3> QED  BY <1>4, <3>1
  <2>4. PlaceOf(R, a + b) = 3 * (a + b) + (p + b * m) /\ PlaceOf(R, a) = 3 * a + p
    BY <2>2, <2>3, Zenon DEF PlaceOf
  <2>5. (3 * (a + b) + (p + b * m)) - (3 * a + p) = b * (m + 3)  BY <2>1, SMT
  <2> QED  BY <2>2, <2>4, <2>5
<1>7. R[a + nb] = p + n
  <2> DEFINE x == nb * m
  <2>1. R[a + nb] = p + LeastOf(n, x) /\ n <= x  BY <1>2, <1>4
  <2>2. x \in Nat  BY SMT
  <2> HIDE DEF x
  <2> QED  BY <2>1, <2>2 DEF LeastOf
<1> DEFINE data(b) == [i \in 1..LeastOf(m, n - b * m) |-> p + b * m + i]
           s == [b \in 1..nb |-> Block(a + b - 1, data(b - 1))]
<1>8. encrypt(n, p, a) = FlattenSeq(s)  BY <1>0, <1>2, Zenon DEF encrypt
<1>9. ASSUME NEW b \in 0..(nb - 1)
      PROVE  /\ data(b) = DataOf(R, a + b)
             /\ R[a + b + 1] - R[a + b] = IF b = nb - 1 THEN n - b * m ELSE m
  <2>1. R[a + b] = p + b * m /\ b \in Nat /\ b * m \in Nat /\ b * m < n  BY <1>5, <1>6
  <2>2. R[a + b + 1] = p + LeastOf(n, b * m + m)
    <3>1. PICK c \in Nat : c = b + 1 /\ a + b + 1 = a + c  BY <2>1
    <3>2. R[a + c] = p + LeastOf(n, c * m)  BY <1>4
    <3>3. c * m = b * m + m  BY <2>1, <3>1, SMT
    <3> QED  BY <3>1, <3>2, <3>3
  <2> DEFINE x == b * m
  <2>3. x \in Nat /\ x < n /\ R[a + b] = p + x /\ R[a + b + 1] = p + LeastOf(n, x + m)
    BY <2>1, <2>2
  <2>4. b = nb - 1 => n <= x + m
    <3>1. ASSUME b = nb - 1  PROVE nb * m = x + m
      <4>1. nb = b + 1  BY <1>2, <3>1
      <4> QED  BY <2>1, <4>1, SMT
    <3> QED  BY <1>2, <3>1
  <2>5. b # nb - 1 => x + m < n
    <3>1. ASSUME b # nb - 1  PROVE x + m < n
      <4>1. PICK c \in Nat : c = b + 1 /\ c \in 0..(nb - 1)  BY <1>2, <2>1, <3>1
      <4>2. c * m < n  BY <1>5, <4>1
      <4>3. c * m = x + m  BY <2>1, <4>1, SMT
      <4> QED  BY <4>2, <4>3
    <3> QED  BY <3>1
  <2>6. data(b) = [i \in 1..LeastOf(m, n - x) |-> p + x + i]  OBVIOUS
  <2>7. DataOf(R, a + b) = [i \in 1..(R[a + b + 1] - R[a + b]) |-> R[a + b] + i]
    BY DEF DataOf
  <2> HIDE DEF data, x
  <2>8. R[a + b + 1] - R[a + b] = LeastOf(m, n - x)  BY <2>3 DEF LeastOf
  <2>9. LeastOf(m, n - x) = IF b = nb - 1 THEN n - x ELSE m  BY <2>3, <2>4, <2>5 DEF LeastOf
  <2>10. data(b) = DataOf(R, a + b)
    <3>1. DataOf(R, a + b) = [i \in 1..LeastOf(m, n - x) |-> p + x + i]
      BY <2>3, <2>7, <2>8, Zenon
    <3> QED  BY <2>6, <3>1, Zenon
  <2> QED  BY <2>8, <2>9, <2>10 DEF x
<1> HIDE DEF data
<1>10. \A b \in 1..nb : b - 1 \in 0..(nb - 1) /\ a + b - 1 = a + (b - 1) /\ a + b - 1 \in Nat
                        /\ a + (b - 1) + 1 = a + b
  BY <1>2
<1>11. ASSUME NEW b \in 1..nb
       PROVE  /\ s[b] = BlockOf(R, a + b - 1) /\ s[b] \in Seq(Bytes)
              /\ Len(s[b]) = R[a + b] - R[a + b - 1] + 3
              /\ Len(s[b]) = 3 + IF b = nb THEN n - (nb - 1) * m ELSE m
  <2>1. PICK e \in Nat : e = b - 1 /\ e \in 0..(nb - 1) /\ a + b - 1 = a + e /\ a + e \in Nat
                         /\ a + e + 1 = a + b
    BY <1>10
  <2>2. /\ data(e) = DataOf(R, a + e)
        /\ R[a + e + 1] - R[a + e] = IF e = nb - 1 THEN n - e * m ELSE m
    BY <1>9, <2>1
  <2>3. s[b] = Block(a + e, data(e))  BY <2>1
  <2> HIDE DEF s
  <2>4. R[a + e] \in Nat /\ R[a + b] \in Nat /\ R[a + e] <= R[a + b]
    <3>1. PICK c \in Nat, d \in Nat : c = a + e /\ d = a + b /\ c <= d  BY <2>1
    <3>2. R[c] \in Nat /\ R[d] \in Nat /\ R[c] <= R[d]  BY <1>4, <3>1, PlacesOf
    <3> QED  BY <3>1, <3>2
  <2>5. PICK x \in Nat, y \in Nat : x = R[a + e] /\ y = R[a + b] /\ x <= y  BY <2>4
  <2>6. DataOf(R, a + e) = Plain(x, y)  BY <2>1, <2>5 DEF DataOf, Plain
  <2>7. Plain(x, y) \in Seq(Nat) /\ Len(Plain(x, y)) = y - x  BY <2>5, PlainIs
  <2>8. s[b] \in Seq(Bytes) /\ Len(s[b]) = y - x + 3
    BY <2>1, <2>2, <2>3, <2>6, <2>7, BlockIs
  <2>9. s[b] = BlockOf(R, a + e)  BY <2>2, <2>3 DEF BlockOf
  <2>10. y - x = IF e = nb - 1 THEN n - e * m ELSE m  BY <2>1, <2>2, <2>5
  <2>11. e = nb - 1 <=> b = nb  BY <1>2, <2>1
  <2>12. Len(s[b]) = 3 + IF b = nb THEN n - (nb - 1) * m ELSE m
    <3>1. CASE b = nb
      <4>1. e = nb - 1 /\ y - x = n - (nb - 1) * m  BY <2>10, <2>11, <3>1, Zenon
      <4> DEFINE t == n - (nb - 1) * m
      <4>2. y - x = t  BY <4>1
      <4> HIDE DEF t
      <4>3. Len(s[b]) = 3 + t  BY <2>5, <2>8, <4>2
      <4> QED  BY <3>1, <4>3 DEF t
    <3>2. CASE b # nb
      <4>1. y - x = m  BY <2>10, <2>11, <3>2, Zenon
      <4>2. Len(s[b]) = 3 + m  BY <2>5, <2>8, <4>1
      <4> QED  BY <3>2, <4>2
    <3> QED  BY <3>1, <3>2
  <2> QED  BY <2>1, <2>5, <2>8, <2>9, <2>12
<1>12. Len(s) = nb /\ s \in Seq(Seq(Bytes)) /\ s # <<>>
  <2>1. DOMAIN s = 1..nb /\ s \in [1..nb -> Seq(Bytes)]
    <3>1. s = [b \in 1..nb |-> s[b]]  OBVIOUS
    <3> HIDE DEF s
    <3> QED  BY <1>11, <3>1
  <2> HIDE DEF s
  <2>2. s \in Seq(Seq(Bytes)) /\ Len(s) = nb  BY <2>1
  <2> QED  BY <1>2, <2>2, EmptySeq
<1> HIDE DEF s
<1>13. /\ FlattenSeq(s) \in Seq(Bytes)
       /\ Len(FlattenSeq(s)) = (nb - 1) * (m + 3) + Len(s[nb])
       /\ \A i \in 1..nb : \A k \in 1..Len(s[i]) :
            FlattenSeq(s)[(i - 1) * (m + 3) + k] = s[i][k]
  <2>1. \A i \in 1..(nb - 1) : Len(s[i]) = m + 3
    <3> TAKE i \in 1..(nb - 1)
    <3>1. i \in 1..nb /\ i # nb  BY <1>2
    <3>2. Len(s[i]) = 3 + m  BY <1>11, <3>1
    <3> QED  BY <3>2
  <2>2. m + 3 \in Nat  OBVIOUS
  <2> DEFINE size == m + 3
  <2>3. size \in Nat /\ \A i \in 1..(Len(s) - 1) : Len(s[i]) = size  BY <1>12, <2>1, <2>2
  <2> HIDE DEF size
  <2>4. /\ FlattenSeq(s) \in Seq(Bytes)
        /\ Len(FlattenSeq(s)) = (nb - 1) * size + Len(s[nb])
        /\ \A i \in 1..nb : \A k \in 1..Len(s[i]) :
            FlattenSeq(s)[(i - 1) * size + k] = s[i][k]
    <3>1. /\ FlattenSeq(s) \in Seq(Bytes)
          /\ Len(FlattenSeq(s)) = (Len(s) - 1) * size + Len(s[Len(s)])
          /\ \A i \in 1..Len(s) : \A k \in 1..Len(s[i]) :
               FlattenSeq(s)[(i - 1) * size + k] = s[i][k]
      BY <1>12, <2>3, PiecesInLine, Zenon
    <3>2. Len(s) = nb  BY <1>12, Zenon
    <3> QED  BY <3>1, <3>2, Zenon
  <2> QED  BY <2>4 DEF size
<1>14. Len(FlattenSeq(s)) = PlaceOf(R, a + nb) - PlaceOf(R, a)
  <2>1. Len(s[nb]) = 3 + (n - (nb - 1) * m)
    <3>1. nb \in 1..nb  BY <1>2
    <3> QED  BY <1>11, <3>1
  <2>2. R[a] = p
    <3>1. 0 \in Nat /\ a + 0 = a /\ 0 * m = 0 /\ LeastOf(n, 0) = 0 /\ p + 0 = p  BY SMT DEF LeastOf
    <3> QED  BY <1>4, <3>1
  <2>3. PlaceOf(R, a + nb) = 3 * (a + nb) + (p + n) /\ PlaceOf(R, a) = 3 * a + p
    BY <1>7, <2>2, Zenon DEF PlaceOf
  <2>4. (nb - 1) * (m + 3) + (3 + (n - (nb - 1) * m)) = (3 * (a + nb) + (p + n)) - (3 * a + p)
    BY SMT
  <2>5. Len(FlattenSeq(s)) = (nb - 1) * (m + 3) + (3 + (n - (nb - 1) * m))
    BY <1>13, <2>1
  <2> QED  BY <2>3, <2>4, <2>5
<1>15. ASSUME NEW c \in a..(a + nb - 1), NEW j \in 1..(PlaceOf(R, c + 1) - PlaceOf(R, c))
       PROVE  FlattenSeq(s)[PlaceOf(R, c) - PlaceOf(R, a) + j] = BlockOf(R, c)[j]
  <2>1. PICK e \in Nat, b \in Nat : e = c - a /\ b = e + 1 /\ b \in 1..nb /\ e \in 0..(nb - 1)
                            /\ e = b - 1 /\ a + b - 1 = c /\ c = a + e /\ a + b = c + 1 /\ c \in Nat
    BY <1>2
  <2>2. PlaceOf(R, c) - PlaceOf(R, a) = e * (m + 3)  BY <1>6, <2>1
  <2>3. s[b] = BlockOf(R, c) /\ Len(s[b]) = R[c + 1] - R[c] + 3
    <3>1. s[b] = BlockOf(R, a + b - 1) /\ Len(s[b]) = R[a + b] - R[a + b - 1] + 3  BY <1>11, <2>1
    <3> QED  BY <2>1, <3>1
  <2>4. PlaceOf(R, c + 1) - PlaceOf(R, c) = R[c + 1] - R[c] + 3
    <3>1. PICK d \in Nat : d = c + 1 /\ c <= d  BY <2>1
    <3>2. PICK x \in Nat, y \in Nat : x = R[c] /\ y = R[d]  BY <1>4, <2>1, <3>1, PlacesOf
    <3>3. PlaceOf(R, c) = 3 * c + x /\ PlaceOf(R, d) = 3 * d + y  BY <3>2, Zenon DEF PlaceOf
    <3>4. (3 * d + y) - (3 * c + x) = y - x + 3  BY <2>1, <3>1
    <3> QED  BY <3>1, <3>2, <3>3, <3>4
  <2>5. j \in 1..Len(s[b])  BY <2>3, <2>4
  <2>6. FlattenSeq(s)[(b - 1) * (m + 3) + j] = s[b][j]  BY <1>13, <2>1, <2>5
  <2> QED  BY <2>1, <2>2, <2>3, <2>6
<1>16. Carries(FlattenSeq(s), R, a, a + nb)
  <2> DEFINE w == FlattenSeq(s)
             b == a + nb
  <2>1. w \in Seq(Bytes) /\ Len(w) = PlaceOf(R, b) - PlaceOf(R, a)  BY <1>13, <1>14
  <2>2. \A c \in a..(b - 1) : \A j \in 1..(PlaceOf(R, c + 1) - PlaceOf(R, c)) :
          w[PlaceOf(R, c) - PlaceOf(R, a) + j] = BlockOf(R, c)[j]
    BY <1>15
  <2> HIDE DEF w, b
  <2>3. Carries(w, R, a, b)  BY <2>1, <2>2 DEF Carries
  <2> QED  BY <2>3 DEF w, b
<1> QED  BY <1>1, <1>2, <1>3, <1>7, <1>8, <1>16

\* A piece of a sequence.
LEMMA PieceIs ==
  ASSUME NEW S, NEW s \in Seq(S), NEW m \in Nat, NEW n \in Nat, m <= n, n <= Len(s)
  PROVE  /\ SubSeq(s, m + 1, n) \in Seq(S) /\ Len(SubSeq(s, m + 1, n)) = n - m
         /\ \A i \in 1..(n - m) : SubSeq(s, m + 1, n)[i] = s[m + i]
<1>1. Len(s) \in Nat  BY LenProperties
<1>2. \A i \in (m + 1)..n : s[i] \in S
  <2> TAKE i \in (m + 1)..n
  <2>1. i \in 1..Len(s)  BY <1>1
  <2> QED  BY <2>1, ElementOfSeq
<1>3. /\ SubSeq(s, m + 1, n) \in Seq(S)
      /\ Len(SubSeq(s, m + 1, n)) = IF m + 1 <= n THEN n - (m + 1) + 1 ELSE 0
      /\ \A i \in 1..(n - (m + 1) + 1) : SubSeq(s, m + 1, n)[i] = s[m + 1 + i - 1]
  BY <1>2, SubSeqProperties
<1>4. n - (m + 1) + 1 = n - m /\ (IF m + 1 <= n THEN n - (m + 1) + 1 ELSE 0) = n - m
  OBVIOUS
<1>5. \A i \in 1..(n - m) : m + 1 + i - 1 = m + i  OBVIOUS
<1> QED  BY <1>3, <1>4, <1>5

\* A sequence cut in two.
LEMMA CutInTwo ==
  ASSUME NEW S, NEW s \in Seq(S), NEW n \in Nat, n <= Len(s)
  PROVE  /\ SubSeq(s, 1, n) \in Seq(S) /\ SubSeq(s, n + 1, Len(s)) \in Seq(S)
         /\ Len(SubSeq(s, 1, n)) = n
         /\ SubSeq(s, 1, n) \o SubSeq(s, n + 1, Len(s)) = s
<1>1. Len(s) \in Nat  BY LenProperties
<1>2. SubSeq(s, 0 + 1, n) \in Seq(S) /\ Len(SubSeq(s, 0 + 1, n)) = n - 0
  BY PieceIs
<1>3. SubSeq(s, n + 1, Len(s)) \in Seq(S)
  <2>1. Len(s) <= Len(s)  BY <1>1
  <2> QED  BY <1>1, <2>1, PieceIs
<1>4. 1 \in 1..Len(s) + 1 /\ n \in 1 - 1..Len(s) /\ Len(s) \in n..Len(s)  BY <1>1
<1>5. SubSeq(s, 1, n) \o SubSeq(s, n + 1, Len(s)) = SubSeq(s, 1, Len(s))
  BY <1>4, ConcatAdjacentSubSeq
<1>6. 0 + 1 = 1 /\ n - 0 = n  OBVIOUS
<1> QED  BY <1>2, <1>3, <1>5, <1>6, SubSeqFull

\* What is taken from the beginning of a sequence is taken from it and all that follows.
LEMMA RestOfBoth ==
  ASSUME NEW S, NEW s \in Seq(S), NEW t \in Seq(S), NEW n \in Nat, n <= Len(s)
  PROVE  SubSeq(s, n + 1, Len(s)) \o t = SubSeq(s \o t, n + 1, Len(s \o t))
<1>1. PICK k \in Nat, l \in Nat : k = Len(s) /\ l = Len(t)  BY LenProperties
<1>2. /\ s \o t \in Seq(S) /\ Len(s \o t) = k + l
      /\ \A i \in 1..(k + l) : (s \o t)[i] = IF i <= k THEN s[i] ELSE t[i - k]
  <2>1. /\ s \o t \in Seq(S) /\ Len(s \o t) = Len(s) + Len(t)
        /\ \A i \in 1..(Len(s) + Len(t)) : (s \o t)[i] = IF i <= Len(s) THEN s[i] ELSE t[i - Len(s)]
    BY ConcatProperties
  <2> QED  BY <1>1, <2>1
<1> DEFINE r == SubSeq(s, n + 1, k)
           w == s \o t
           u == SubSeq(w, n + 1, k + l)
<1>3. r \in Seq(S) /\ Len(r) = k - n /\ \A i \in 1..(k - n) : r[i] = s[n + i]
  <2>1. k <= Len(s) /\ n <= k  BY <1>1
  <2> QED  BY <2>1, PieceIs
<1>4. u \in Seq(S) /\ Len(u) = k + l - n /\ \A i \in 1..(k + l - n) : u[i] = w[n + i]
  <2> HIDE DEF w
  <2>1. w \in Seq(S) /\ Len(w) = k + l /\ n <= k + l /\ k + l <= k + l /\ k + l \in Nat
    BY <1>1, <1>2 DEF w
  <2>2. n <= Len(w) /\ k + l <= Len(w)  BY <2>1
  <2> QED  BY <2>1, <2>2, PieceIs
<1> HIDE DEF r, u
<1>5. /\ r \o t \in Seq(S) /\ Len(r \o t) = k - n + l
      /\ \A i \in 1..(k - n + l) : (r \o t)[i] = IF i <= k - n THEN r[i] ELSE t[i - (k - n)]
  <2>1. /\ r \o t \in Seq(S) /\ Len(r \o t) = Len(r) + Len(t)
        /\ \A i \in 1..(Len(r) + Len(t)) : (r \o t)[i] = IF i <= Len(r) THEN r[i] ELSE t[i - Len(r)]
    BY <1>3, ConcatProperties
  <2> QED  BY <1>1, <1>3, <2>1
<1>6. \A i \in 1..(k - n + l) : (r \o t)[i] = u[i]
  <2> TAKE i \in 1..(k - n + l)
  <2>1. i \in 1..(k + l - n) /\ n + i \in 1..(k + l)  BY <1>1
  <2>2. u[i] = IF n + i <= k THEN s[n + i] ELSE t[n + i - k]
    <3>1. PICK j : j = n + i  OBVIOUS
    <3>2. u[i] = w[j] /\ j \in 1..(k + l)  BY <1>4, <2>1, <3>1
    <3>3. w[j] = IF j <= k THEN s[j] ELSE t[j - k]  BY <1>2, <3>2
    <3> QED  BY <3>1, <3>2, <3>3
  <2>3. CASE n + i <= k
    <3>1. i \in 1..(k - n) /\ i <= k - n  BY <1>1, <2>3
    <3> QED  BY <1>3, <1>5, <2>2, <2>3, <3>1
  <2>4. CASE ~(n + i <= k)
    <3>1. ~(i <= k - n) /\ i - (k - n) = n + i - k  BY <1>1, <2>4
    <3> QED  BY <1>5, <2>2, <2>4, <3>1
  <2> QED  BY <2>3, <2>4
<1>7. r \o t = u
  <2>1. Len(r \o t) = Len(u) /\ Len(r \o t) = k - n + l  BY <1>1, <1>4, <1>5
  <2> QED  BY <1>4, <1>5, <1>6, <2>1, SeqEqual
<1> QED  BY <1>1, <1>2, <1>7 DEF r, u

\* The plain bytes from x to y are cut into the first b of them and the others.
CutAfter(x, y, b) ==
  /\ SubSeq(Plain(x, y), 1, b) = Plain(x, x + b)
  /\ SubSeq(Plain(x, y), b + 1, Len(Plain(x, y))) = Plain(x + b, y)

\* Plain bytes cut in two.
LEMMA PlainInTwo ==
  ASSUME NEW x \in Nat, NEW y \in Nat, NEW b \in Nat, x + b <= y
  PROVE  CutAfter(x, y, b)
<1> DEFINE s == Plain(x, y)
           t == Plain(x, x + b)
           u == Plain(x + b, y)
<1>1. /\ s \in Seq(Nat) /\ Len(s) = y - x /\ \A i \in 1..(y - x) : s[i] = x + i
  <2>1. x <= y  OBVIOUS
  <2> QED  BY <2>1, PlainIs
<1>2. /\ t \in Seq(Nat) /\ Len(t) = b /\ \A i \in 1..b : t[i] = x + i
  <2>1. PICK z \in Nat : z = x + b /\ x <= z /\ z - x = b  OBVIOUS
  <2>2. /\ Plain(x, z) \in Seq(Nat) /\ Len(Plain(x, z)) = z - x
        /\ \A i \in 1..(z - x) : Plain(x, z)[i] = x + i
    BY <2>1, PlainIs
  <2> QED  BY <2>1, <2>2
<1>3. /\ u \in Seq(Nat) /\ Len(u) = y - x - b /\ \A i \in 1..(y - x - b) : u[i] = x + b + i
  <2>1. PICK z \in Nat : z = x + b /\ z <= y /\ y - x - b = y - z  OBVIOUS
  <2>2. /\ Plain(z, y) \in Seq(Nat) /\ Len(Plain(z, y)) = y - z
        /\ \A i \in 1..(y - z) : Plain(z, y)[i] = z + i
    BY <2>1, PlainIs
  <2> QED  BY <2>1, <2>2
<1>4. Len(s) \in Nat /\ 0 <= b /\ b <= Len(s) /\ Len(s) <= Len(s)  BY <1>1
<1> HIDE DEF s, t, u
<1>5. SubSeq(s, 1, b) = t
  <2>1. /\ SubSeq(s, 0 + 1, b) \in Seq(Nat) /\ Len(SubSeq(s, 0 + 1, b)) = b - 0
        /\ \A i \in 1..(b - 0) : SubSeq(s, 0 + 1, b)[i] = s[0 + i]
    BY <1>1, <1>4, PieceIs
  <2>2. 0 + 1 = 1 /\ b - 0 = b /\ \A i \in 1..b : 0 + i = i  OBVIOUS
  <2> DEFINE r == SubSeq(s, 1, b)
  <2>3. r \in Seq(Nat) /\ Len(r) = b /\ \A i \in 1..b : r[i] = s[i]  BY <2>1, <2>2
  <2> HIDE DEF r
  <2>4. \A i \in 1..b : i \in 1..(y - x)  OBVIOUS
  <2>5. \A i \in 1..b : r[i] = t[i]  BY <1>1, <1>2, <2>3, <2>4
  <2>6. r = t  BY <1>2, <2>3, <2>5, SeqEqual
  <2> QED  BY <2>6 DEF r
<1>6. SubSeq(s, b + 1, Len(s)) = u
  <2> DEFINE r == SubSeq(s, b + 1, Len(s))
  <2>1. r \in Seq(Nat) /\ Len(r) = Len(s) - b /\ \A i \in 1..(Len(s) - b) : r[i] = s[b + i]
    BY <1>1, <1>4, PieceIs
  <2> HIDE DEF r
  <2>2. \A i \in 1..(y - x - b) : b + i \in 1..(y - x) /\ x + (b + i) = x + b + i  OBVIOUS
  <2>3. Len(s) - b = y - x - b  BY <1>1
  <2>4. \A i \in 1..(y - x - b) : r[i] = u[i]
    <3> TAKE i \in 1..(y - x - b)
    <3>1. r[i] = s[b + i]  BY <2>1, <2>3
    <3>2. s[b + i] = x + (b + i)  BY <1>1, <2>2
    <3>3. u[i] = x + b + i  BY <1>3
    <3> QED  BY <2>2, <3>1, <3>2, <3>3
  <2>5. r = u  BY <1>3, <2>1, <2>3, <2>4, SeqEqual
  <2> QED  BY <2>5 DEF r
<1> QED  BY <1>5, <1>6, Zenon DEF CutAfter, s, t, u

\* The plain bytes h have been handed out and g deciphered; the ciphered ones under way are
\* the blocks from the reader's counter to the writer's, cut at P.
InStep(P, h, g) ==
  /\ Cuts(P) /\ h \in Nat /\ g \in Nat /\ h <= g
  /\ received = Plain(0, h) /\ plaintext_read_buffer = Plain(h, g)
  /\ P[decryption_counter] = g /\ P[encryption_counter] = sentPlain
  /\ Carries((encrypted_read_buffer \o socket) \o unsent, P, decryption_counter,
             encryption_counter)

\* The state of the channel, by its types.
ChannelType ==
  /\ sentPlain \in Nat /\ encryption_counter \in Nat /\ decryption_counter \in Nat
  /\ reading \in Nat /\ decryption_counter <= encryption_counter
  /\ unsent \in Seq(Bytes) /\ socket \in Seq(Bytes) /\ encrypted_read_buffer \in Seq(Bytes)

\* What makes StreamIsWhole inductive: no read has been refused, and the two ends are in step.
ChannelInv == ChannelType /\ ~read_refused /\ \E P, h, g : InStep(P, h, g)

\* It holds at first, and every action of the channel keeps it.
LEMMA ChannelInvInit ==
  ASSUME ChannelInit
  PROVE  ChannelInv
<1>1. /\ sentPlain = 0 /\ encryption_counter = 0 /\ decryption_counter = 0 /\ reading = 0
      /\ unsent = <<>> /\ socket = <<>> /\ encrypted_read_buffer = <<>>
      /\ plaintext_read_buffer = <<>> /\ received = <<>> /\ read_refused = FALSE
  BY DEF ChannelInit
<1>2. <<>> \in Seq(Bytes)  BY EmptySeq
<1>3. ChannelType  BY <1>1, <1>2 DEF ChannelType
<1> DEFINE P == [c \in Nat |-> 0]
<1>4. Cuts(P)  BY DEF Cuts
<1>5. P[0] = 0  OBVIOUS
<1> HIDE DEF P
<1>6. Plain(0, 0) = <<>>
  <2>1. Plain(0, 0) \in Seq(Nat) /\ Len(Plain(0, 0)) = 0 - 0  BY PlainIs
  <2> QED  BY <2>1, EmptySeq
<1>7. Carries(<<>>, P, 0, 0)
  <2>1. PlaceOf(P, 0) - PlaceOf(P, 0) = 0
    <3>1. PlaceOf(P, 0) = 3 * 0 + 0  BY <1>5 DEF PlaceOf
    <3> QED  BY <3>1
  <2>2. 0..(0 - 1) = {}  OBVIOUS
  <2> QED  BY <1>2, <2>1, <2>2, EmptySeq DEF Carries
<1>8. (encrypted_read_buffer \o socket) \o unsent = <<>>
  BY <1>1, <1>2, ConcatEmptySeq, Zenon
<1>9. InStep(P, 0, 0)  BY <1>1, <1>4, <1>5, <1>6, <1>7, <1>8 DEF InStep
<1> QED  BY <1>1, <1>3, <1>9 DEF ChannelInv

LEMMA WriteStep ==
  ASSUME ChannelInv, NEW n \in MessageSizes, write_encrypted(n)
  PROVE  ChannelInv'
<1>0. n \in Nat \ {0}  BY ChannelAssumption DEF ChannelAssumption
<1> DEFINE d == decryption_counter
           e == encryption_counter
           w == (encrypted_read_buffer \o socket)
           k == nblocks(n)
<1>1. /\ unsent = <<>> /\ unsent' = encrypt(n, sentPlain, e) /\ e' = e + k
      /\ sentPlain' = sentPlain + n /\ socket' = socket
      /\ encrypted_read_buffer' = encrypted_read_buffer /\ d' = d /\ reading' = reading
      /\ plaintext_read_buffer' = plaintext_read_buffer
      /\ received' = received /\ read_refused' = read_refused
  BY DEF write_encrypted, reader
<1>2. ChannelType /\ ~read_refused  BY DEF ChannelInv
<1>3. PICK P, h, g : InStep(P, h, g)  BY DEF ChannelInv
<1>4. PICK R : R = SentOn(P, e, n)  OBVIOUS
<1>5. Cuts(P) /\ e \in Nat /\ d \in Nat /\ d <= e /\ P[e] = sentPlain
  BY <1>2, <1>3 DEF InStep, ChannelType
<1>6. k \in Nat \ {0}  BY <1>0, BlocksNeeded
<1>7. Cuts(R) /\ \A c \in Nat : c <= e => R[c] = P[c]
  <2>1. Cuts(SentOn(P, e, n)) /\ \A c \in Nat : c <= e => SentOn(P, e, n)[c] = P[c]
    <3> HIDE DEF e
    <3> QED  BY <1>0, <1>5, SentOnIs, Zenon
  <2> QED  BY <1>4, <2>1, Zenon
<1>8. Carries(unsent', R, e, e + k) /\ R[e + k] = sentPlain + n
  BY <1>0, <1>1, <1>4, <1>5, EncryptCarries
<1>9. w \in Seq(Bytes) /\ w \o unsent = w
  <2>1. socket \in Seq(Bytes) /\ encrypted_read_buffer \in Seq(Bytes)  BY <1>2 DEF ChannelType
  <2>2. w \in Seq(Bytes)  BY <2>1, ConcatProperties
  <2> QED  BY <1>1, <2>2, ConcatEmptySeq
<1>10. Carries(w, P, d, e)  BY <1>3, <1>9 DEF InStep
<1>11. Carries(w, R, d, e)
  <2> HIDE DEF w, d, e
  <2> QED  BY <1>5, <1>7, <1>10, CarriesSame
<1>12. PICK f \in Nat : f = e + k /\ e <= f  BY <1>5, <1>6
<1>13. Carries(w \o unsent', R, d, f)
  <2>1. Carries(unsent', R, e, f)  BY <1>8, <1>12
  <2> HIDE DEF w, d, e
  <2> QED  BY <1>5, <1>7, <1>11, <1>12, <2>1, CarriesOn
<1>14. InStep(R, h, g)'
  <2>1. /\ h \in Nat /\ g \in Nat /\ h <= g /\ received = Plain(0, h)
        /\ plaintext_read_buffer = Plain(h, g) /\ P[d] = g
    BY <1>3 DEF InStep
  <2>2. R[d'] = g  BY <1>1, <1>5, <1>7, <2>1
  <2>3. R[e'] = sentPlain'  BY <1>1, <1>8
  <2>4. (encrypted_read_buffer' \o socket') \o unsent' = w \o unsent'  BY <1>1
  <2>5. Carries((encrypted_read_buffer' \o socket') \o unsent', R, d', e')
    BY <1>1, <1>12, <1>13, <2>4
  <2> QED  BY <1>1, <1>7, <2>1, <2>2, <2>3, <2>5 DEF InStep
<1>15. ChannelType'
  <2>1. unsent' \in Seq(Bytes)  BY <1>8 DEF Carries
  <2>2. sentPlain' \in Nat /\ e' \in Nat /\ d' <= e'
    BY <1>0, <1>1, <1>2, <1>5, <1>6 DEF ChannelType
  <2> QED  BY <1>1, <1>2, <2>1, <2>2 DEF ChannelType
<1> QED  BY <1>1, <1>2, <1>14, <1>15 DEF ChannelInv

\* Where a sequence is cut does not matter to what it is.
Cat(s, t) == s \o t

LEMMA CatIs ==
  ASSUME NEW S, NEW s \in Seq(S), NEW t \in Seq(S), NEW u \in Seq(S)
  PROVE  Cat(s, t) \in Seq(S) /\ Cat(Cat(s, t), u) = Cat(s, Cat(t, u))
<1>1. s \o t \in Seq(S)  OBVIOUS
<1>2. (s \o t) \o u = s \o (t \o u)  OBVIOUS
<1> QED  BY <1>1, <1>2, Zenon DEF Cat

LEMMA WriteSomeStep ==
  ASSUME ChannelInv, NEW n \in 1..Len(unsent), WriteSome(n)
  PROVE  ChannelInv'
<1> DEFINE p == SubSeq(unsent, 1, n)
           r == SubSeq(unsent, n + 1, Len(unsent))
           b == encrypted_read_buffer
<1>1. /\ socket' = socket \o p /\ unsent' = r /\ b' = b
      /\ sentPlain' = sentPlain /\ encryption_counter' = encryption_counter
      /\ decryption_counter' = decryption_counter /\ reading' = reading
      /\ plaintext_read_buffer' = plaintext_read_buffer
      /\ received' = received /\ read_refused' = read_refused
  BY DEF WriteSome, reader
<1>2. ChannelType /\ ~read_refused  BY DEF ChannelInv
<1>3. unsent \in Seq(Bytes) /\ socket \in Seq(Bytes) /\ b \in Seq(Bytes)
  BY <1>2 DEF ChannelType
<1>4. p \in Seq(Bytes) /\ r \in Seq(Bytes) /\ p \o r = unsent
  <2>1. Len(unsent) \in Nat  BY <1>3, LenProperties
  <2>2. n \in Nat /\ n <= Len(unsent)  BY <2>1
  <2> QED  BY <1>3, <2>2, CutInTwo
<1> HIDE DEF p, r, b
<1>5. Cat(Cat(b, Cat(socket, p)), r) = Cat(Cat(b, socket), unsent)
  <2>1. Cat(p, r) = unsent  BY <1>4 DEF Cat
  <2>2. Cat(b, Cat(socket, p)) = Cat(Cat(b, socket), p)  BY <1>3, <1>4, CatIs
  <2>3. Cat(b, socket) \in Seq(Bytes)  BY <1>3, CatIs
  <2>4. Cat(Cat(Cat(b, socket), p), r) = Cat(Cat(b, socket), Cat(p, r))
    BY <1>4, <2>3, CatIs
  <2> QED  BY <2>1, <2>2, <2>4
<1>6. socket \o p \in Seq(Bytes)  BY <1>3, <1>4, ConcatProperties
<1>7. (b' \o socket') \o unsent' = (b \o socket) \o unsent
  BY <1>1, <1>5, Zenon DEF Cat
<1>8. PICK P, h, g : InStep(P, h, g)  BY DEF ChannelInv
<1>9. InStep(P, h, g)'  BY <1>1, <1>7, <1>8 DEF InStep, b
<1>10. ChannelType'  BY <1>1, <1>2, <1>4, <1>6 DEF ChannelType, b
<1> QED  BY <1>1, <1>2, <1>9, <1>10 DEF ChannelInv

LEMMA BeginReadStep ==
  ASSUME ChannelInv, NEW count \in Counts, BeginRead(count)
  PROVE  ChannelInv'
<1>1. /\ reading' = count /\ sentPlain' = sentPlain /\ encryption_counter' = encryption_counter
      /\ unsent' = unsent /\ socket' = socket /\ encrypted_read_buffer' = encrypted_read_buffer
      /\ decryption_counter' = decryption_counter
      /\ plaintext_read_buffer' = plaintext_read_buffer
      /\ received' = received /\ read_refused' = read_refused
  BY DEF BeginRead
<1>2. count \in Nat  BY ChannelAssumption DEF ChannelAssumption
<1>3. ChannelType /\ ~read_refused  BY DEF ChannelInv
<1>4. PICK P, h, g : InStep(P, h, g)  BY DEF ChannelInv
<1>5. InStep(P, h, g)'  BY <1>1, <1>4 DEF InStep
<1>6. ChannelType'  BY <1>1, <1>2, <1>3 DEF ChannelType
<1> QED  BY <1>1, <1>3, <1>5, <1>6 DEF ChannelInv

\* HandOut takes the first plain bytes and keeps the others.
LEMMA HandOutKeeps ==
  ASSUME NEW h \in Nat, NEW g \in Nat, h <= g, received = Plain(0, h), reading \in Nat,
         HandOut(Plain(h, g))
  PROVE  \E i \in Nat : /\ i <= g /\ received' = Plain(0, i)
                        /\ plaintext_read_buffer' = Plain(i, g) /\ reading' = 0
<1> DEFINE b == LeastOf(Len(Plain(h, g)), reading)
<1>1. Plain(h, g) \in Seq(Nat) /\ Len(Plain(h, g)) = g - h  BY PlainIs
<1>2. b \in Nat /\ h + b <= g
  <2>1. b = LeastOf(g - h, reading)  BY <1>1
  <2> HIDE DEF b
  <2> QED  BY <2>1 DEF LeastOf
<1>3. /\ received' = Plain(0, h) \o SubSeq(Plain(h, g), 1, b)
      /\ plaintext_read_buffer' = SubSeq(Plain(h, g), b + 1, Len(Plain(h, g)))
      /\ reading' = 0
  BY DEF HandOut
<1> HIDE DEF b
<1>4. PICK i \in Nat : i = h + b /\ i <= g /\ h <= i  BY <1>2
<1>5. /\ SubSeq(Plain(h, g), 1, b) = Plain(h, i)
      /\ SubSeq(Plain(h, g), b + 1, Len(Plain(h, g))) = Plain(i, g)
  <2>1. /\ SubSeq(Plain(h, g), 1, b) = Plain(h, h + b)
        /\ SubSeq(Plain(h, g), b + 1, Len(Plain(h, g))) = Plain(h + b, g)
    <3>1. CutAfter(h, g, b)  BY <1>2, PlainInTwo, Zenon
    <3> QED  BY <3>1, Zenon DEF CutAfter
  <2> QED  BY <1>4, <2>1
<1>6. Plain(0, h) \o Plain(h, i) = Plain(0, i)
  <2>1. 0 <= h  OBVIOUS
  <2> QED  BY <1>4, <2>1, PlainGoesOn
<1> QED  BY <1>3, <1>4, <1>5, <1>6

LEMMA LeftoverStep ==
  ASSUME ChannelInv, ReadLeftover
  PROVE  ChannelInv'
<1>1. /\ sentPlain' = sentPlain /\ encryption_counter' = encryption_counter
      /\ unsent' = unsent /\ socket' = socket /\ encrypted_read_buffer' = encrypted_read_buffer
      /\ decryption_counter' = decryption_counter /\ read_refused' = read_refused
      /\ HandOut(plaintext_read_buffer)
  BY DEF ReadLeftover
<1>2. ChannelType /\ ~read_refused  BY DEF ChannelInv
<1>3. PICK P, h, g : InStep(P, h, g)  BY DEF ChannelInv
<1>4. /\ h \in Nat /\ g \in Nat /\ h <= g /\ received = Plain(0, h)
      /\ plaintext_read_buffer = Plain(h, g) /\ reading \in Nat
  BY <1>2, <1>3 DEF InStep, ChannelType
<1>5. PICK i \in Nat : /\ i <= g /\ received' = Plain(0, i)
                       /\ plaintext_read_buffer' = Plain(i, g) /\ reading' = 0
  BY <1>1, <1>4, HandOutKeeps
<1>6. InStep(P, i, g)'  BY <1>1, <1>3, <1>5 DEF InStep
<1>7. ChannelType'  BY <1>1, <1>2, <1>5 DEF ChannelType
<1> QED  BY <1>1, <1>2, <1>6, <1>7 DEF ChannelInv

\* A sequence is what it starts with.
LEMMA StartsBoth ==
  ASSUME NEW s \in Seq(Bytes), NEW t \in Seq(Bytes)
  PROVE  Starts(s, s \o t) /\ Len(s) <= Len(s \o t) /\ Len(s \o t) \in Nat
<1>1. Len(s) \in Nat /\ Len(t) \in Nat  BY LenProperties
<1>2. /\ s \o t \in Seq(Bytes) /\ Len(s \o t) = Len(s) + Len(t)
      /\ \A i \in 1..(Len(s) + Len(t)) : (s \o t)[i] = IF i <= Len(s) THEN s[i] ELSE t[i - Len(s)]
  BY ConcatProperties
<1>3. \A i \in 1..Len(s) : i \in 1..(Len(s) + Len(t)) /\ i <= Len(s)  BY <1>1
<1>4. \A i \in 1..Len(s) : s[i] = (s \o t)[i]  BY <1>2, <1>3
<1> QED  BY <1>1, <1>2, <1>4 DEF Starts

LEMMA ReadEncryptedStep ==
  ASSUME ~SingleBytes, ChannelInv, NEW n \in 1..InSize, read_encrypted(n)
  PROVE  ChannelInv'
<1> DEFINE a == SubSeq(socket, 1, n)
           b == SubSeq(socket, n + 1, Len(socket))
           buf == encrypted_read_buffer \o a
           d == decrypt(buf, decryption_counter)
<1>1. /\ plaintext_read_buffer = <<>> /\ n \in 1..LeastOf(InSize, Len(socket))
      /\ n > 1 \/ encrypted_read_buffer # <<>>
      /\ socket' = b /\ sentPlain' = sentPlain /\ encryption_counter' = encryption_counter
      /\ unsent' = unsent
  BY DEF read_encrypted
<1>2. IF ~d.ok THEN TRUE
      ELSE /\ encrypted_read_buffer' = SubSeq(buf, d.at - 1 + 1, Len(buf))
           /\ decryption_counter' = decryption_counter + d.blocks
           /\ IF d.plain = <<>> THEN UNCHANGED <<plaintext_read_buffer, received, reading>>
              ELSE HandOut(d.plain)
           /\ UNCHANGED read_refused
  BY DEF read_encrypted, buf_drain
<1>3. ChannelType /\ ~read_refused  BY DEF ChannelInv
<1>4. PICK P, h, g : InStep(P, h, g)  BY DEF ChannelInv
<1>5. PICK x \in Nat, z \in Nat : x = decryption_counter /\ z = encryption_counter /\ x <= z
  BY <1>3 DEF ChannelType
<1>6. /\ unsent \in Seq(Bytes) /\ socket \in Seq(Bytes) /\ encrypted_read_buffer \in Seq(Bytes)
      /\ reading \in Nat
  BY <1>3 DEF ChannelType
<1>7. /\ a \in Seq(Bytes) /\ b \in Seq(Bytes) /\ Len(a) = n /\ a \o b = socket /\ n \in Nat
  <2>1. Len(socket) \in Nat /\ InSize \in Nat
    BY <1>6, LenProperties, ChannelAssumption DEF ChannelAssumption
  <2>2. n \in Nat /\ n <= Len(socket)  BY <1>1, <2>1 DEF LeastOf
  <2> QED  BY <1>6, <2>2, CutInTwo
<1> HIDE DEF a, b
<1>8. buf \in Seq(Bytes) /\ Len(buf) \in Nat /\ Len(buf) >= 2
  <2>1. buf \in Seq(Bytes) /\ Len(buf) = Len(encrypted_read_buffer) + n
    BY <1>6, <1>7, ConcatProperties
  <2>2. Len(encrypted_read_buffer) \in Nat  BY <1>6, LenProperties
  <2>3. encrypted_read_buffer # <<>> => Len(encrypted_read_buffer) >= 1  BY <1>6, EmptySeq
  <2>4. n >= 1  OBVIOUS
  <2> QED  BY <1>1, <1>7, <2>1, <2>2, <2>3, <2>4
<1> DEFINE t == b \o unsent
           w == buf \o t
<1>9. t \in Seq(Bytes)  BY <1>6, <1>7, ConcatProperties
<1>10. (encrypted_read_buffer \o socket) \o unsent = w
  <2> DEFINE e == encrypted_read_buffer
  <2>1. e \in Seq(Bytes)  BY <1>6
  <2> HIDE DEF e
  <2>2. Cat(a, b) = socket  BY <1>7 DEF Cat
  <2>3. Cat(e, Cat(a, b)) = Cat(Cat(e, a), b)  BY <1>7, <2>1, CatIs
  <2>4. Cat(e, a) \in Seq(Bytes)  BY <1>7, <2>1, CatIs
  <2>5. Cat(Cat(Cat(e, a), b), unsent) = Cat(Cat(e, a), Cat(b, unsent))
    BY <1>6, <1>7, <2>4, CatIs
  <2>6. Cat(Cat(e, socket), unsent) = Cat(Cat(e, a), Cat(b, unsent))
    BY <2>2, <2>3, <2>5
  <2> QED  BY <2>6, Zenon DEF Cat, e
<1>11. Starts(buf, w) /\ Len(buf) <= Len(w) /\ Len(w) \in Nat
  <2> HIDE DEF t, buf
  <2> QED  BY <1>8, <1>9, StartsBoth
<1>12. /\ Cuts(P) /\ h \in Nat /\ g \in Nat /\ h <= g /\ received = Plain(0, h)
       /\ plaintext_read_buffer = Plain(h, g) /\ P[x] = g /\ P[z] = sentPlain
       /\ Carries(w, P, x, z)
  BY <1>4, <1>5, <1>10 DEF InStep
<1>13. h = g
  <2>1. Plain(h, g) = <<>> /\ Len(Plain(h, g)) = g - h  BY <1>1, <1>12, PlainIs
  <2> QED  BY <1>12, <2>1, EmptySeq
<1>14. d = decrypt(buf, x)  BY <1>5
<1> HIDE DEF buf, t, w, d
<1>15. PICK k : HasCome(P, x, z, buf, k) /\ d = Reads(P, x, k)
  BY <1>5, <1>8, <1>11, <1>12, <1>14, DecryptReads
<1>16. PICK y \in Nat : y = x + k /\ k \in Nat /\ x <= y /\ y <= z
  BY <1>5, <1>15 DEF HasCome
<1>17. PICK f \in Nat, c \in Nat :
         f = P[y] /\ g <= f /\ c = PlaceOf(P, y) - PlaceOf(P, x) /\ c <= Len(buf)
  <2>1. P[y] \in Nat /\ P[x] <= P[y] /\ PlaceOf(P, y) - PlaceOf(P, x) \in Nat
    BY <1>12, <1>16, PlacesOf
  <2>2. PlaceOf(P, y) - PlaceOf(P, x) <= Len(buf)  BY <1>15, <1>16 DEF HasCome
  <2> QED  BY <1>12, <2>1, <2>2
<1>18. d.ok = TRUE /\ d.at = c + 1 /\ d.blocks = k /\ d.plain = Plain(g, f)
  <2>1. d = After(c, k, g, f)  BY <1>12, <1>15, <1>16, <1>17, Zenon DEF Reads
  <2> QED  BY <2>1 DEF After
<1>19. /\ encrypted_read_buffer' = SubSeq(buf, c + 1, Len(buf))
       /\ decryption_counter' = y /\ read_refused' = read_refused
       /\ IF d.plain = <<>> THEN UNCHANGED <<plaintext_read_buffer, received, reading>>
          ELSE HandOut(Plain(g, f))
  <2>1. d.at - 1 + 1 = c + 1
    <3>1. c + 1 - 1 + 1 = c + 1  BY <1>17
    <3> QED  BY <1>18, <3>1
  <2>2. decryption_counter + d.blocks = y  BY <1>5, <1>16, <1>18
  <2>3. /\ encrypted_read_buffer' = SubSeq(buf, d.at - 1 + 1, Len(buf))
        /\ decryption_counter' = decryption_counter + d.blocks
        /\ d.plain = <<>> => UNCHANGED <<plaintext_read_buffer, received, reading>>
        /\ d.plain # <<>> => HandOut(d.plain)
        /\ UNCHANGED read_refused
    BY <1>2, <1>18
  <2>4. encrypted_read_buffer' = SubSeq(buf, c + 1, Len(buf))  BY <2>1, <2>3, Zenon
  <2>5. decryption_counter' = y  BY <2>2, <2>3, Zenon
  <2>6. HandOut(d.plain) <=> HandOut(Plain(g, f))  BY <1>18, Zenon
  <2> QED  BY <2>3, <2>4, <2>5, <2>6
<1>20. PICK i \in Nat : /\ i <= f /\ received' = Plain(0, i)
                        /\ plaintext_read_buffer' = Plain(i, f) /\ reading' \in Nat
  <2>1. CASE d.plain = <<>>
    <3>1. Len(Plain(g, f)) = f - g  BY <1>12, <1>17, PlainIs
    <3>2. f = g  BY <1>12, <1>17, <1>18, <2>1, <3>1, EmptySeq
    <3>3. received' = received /\ plaintext_read_buffer' = plaintext_read_buffer
          /\ reading' = reading
      BY <1>19, <2>1
    <3> QED  BY <1>6, <1>12, <3>2, <3>3
  <2>2. CASE d.plain # <<>>
    <3>1. HandOut(Plain(g, f)) /\ received = Plain(0, g)  BY <1>12, <1>13, <1>19, <2>2
    <3>2. \E i \in Nat : /\ i <= f /\ received' = Plain(0, i)
                         /\ plaintext_read_buffer' = Plain(i, f) /\ reading' = 0
      BY <1>6, <1>12, <1>17, <3>1, HandOutKeeps
    <3> QED  BY <3>2
  <2> QED  BY <2>1, <2>2
<1>21. Carries((encrypted_read_buffer' \o socket') \o unsent', P, y, z)
  <2> DEFINE r == SubSeq(buf, c + 1, Len(buf))
  <2>1. r \o t = SubSeq(w, c + 1, Len(w))
    BY <1>8, <1>9, <1>17, RestOfBoth DEF w
  <2>2. r \in Seq(Bytes)
    <3>1. Len(buf) <= Len(buf)  BY <1>8
    <3> QED  BY <1>8, <1>17, <3>1, PieceIs
  <2>3. Carries(SubSeq(w, c + 1, Len(w)), P, y, z)
    <3>1. Carries(SubSeq(w, PlaceOf(P, y) - PlaceOf(P, x) + 1, Len(w)), P, y, z)
      BY <1>12, <1>16, CarriesRest
    <3> QED  BY <1>17, <3>1
  <2> HIDE DEF r
  <2>4. Cat(Cat(r, b), unsent) = Cat(r, Cat(b, unsent))
    BY <1>6, <1>7, <2>2, CatIs
  <2>5. (r \o b) \o unsent = r \o t  BY <2>4, Zenon DEF Cat, t
  <2>6. encrypted_read_buffer' = r /\ socket' = b /\ unsent' = unsent
    BY <1>1, <1>19 DEF r
  <2> QED  BY <2>1, <2>3, <2>5, <2>6, Zenon
<1>22. InStep(P, i, f)'
  BY <1>1, <1>5, <1>12, <1>17, <1>19, <1>20, <1>21 DEF InStep
<1>23. ChannelType'
  <2>1. encrypted_read_buffer' \in Seq(Bytes)
    <3>1. Len(buf) <= Len(buf)  BY <1>8
    <3> QED  BY <1>8, <1>17, <1>19, <3>1, PieceIs
  <2>2. socket' \in Seq(Bytes) /\ unsent' \in Seq(Bytes)  BY <1>1, <1>6, <1>7
  <2>3. decryption_counter' \in Nat /\ decryption_counter' <= encryption_counter'
    BY <1>1, <1>5, <1>16, <1>19
  <2> QED  BY <1>1, <1>3, <1>20, <2>1, <2>2, <2>3 DEF ChannelType
<1> QED  BY <1>3, <1>19, <1>22, <1>23 DEF ChannelInv

\* Every step keeps it.
LEMMA ChannelInvStep ==
  ASSUME ~SingleBytes, ChannelInv, ChannelNext \/ UNCHANGED chvars
  PROVE  ChannelInv'
<1>1. CASE ChannelNext
  BY <1>1, WriteStep, WriteSomeStep, BeginReadStep, LeftoverStep, ReadEncryptedStep DEF ChannelNext
<1>2. CASE UNCHANGED chvars
  <2>1. ChannelType /\ ~read_refused  BY DEF ChannelInv
  <2>2. PICK P, h, g : InStep(P, h, g)  BY DEF ChannelInv
  <2>3. InStep(P, h, g)'  BY <1>2, <2>2 DEF InStep, chvars
  <2>4. ChannelType' /\ ~read_refused'  BY <1>2, <2>1 DEF ChannelType, chvars
  <2> QED  BY <2>3, <2>4 DEF ChannelInv
<1> QED  BY <1>1, <1>2

\* It says that the stream is whole.
LEMMA ChannelInvWhole ==
  ASSUME ChannelInv
  PROVE  StreamIsWhole
<1>1. PICK h \in Nat : received = Plain(0, h)  BY DEF ChannelInv, InStep
<1>2. Len(received) = h
  <2>1. Len(Plain(0, h)) = h - 0  BY PlainIs
  <2> QED  BY <1>1, <2>1
<1>3. Plain(0, h) = [i \in 1..h |-> i]
  <2>1. h - 0 = h /\ \A i \in 1..h : 0 + i = i  OBVIOUS
  <2> QED  BY <2>1 DEF Plain
<1> QED  BY <1>1, <1>2, <1>3 DEF StreamIsWhole, ChannelInv

------------------------------------------------------------------------------
(* The messages of typed values, and both. *)

\* The bytes of formatted messages, and the values they are made of.
TlvBytes == TlvTypes \cup Nat \cup (Nat \X Nat)
TlvValues == [type : TlvTypes, size : Nat \ {0}, number : Nat]

\* The chunks of a value of n bytes, and the bytes of chunk c, counted from 0.
ChunksFor(n) == (n + ChunkMax - 1) \div ChunkMax
ChunkLen(n, c) == LeastOf(ChunkMax, n - c * ChunkMax)

\* A value's chunks hold it, and one fewer would not.
LEMMA ChunksForIs ==
  ASSUME NEW n \in Nat \ {0}
  PROVE  /\ ChunkMax \in Nat \ {0} /\ ChunksFor(n) \in Nat \ {0}
         /\ (ChunksFor(n) - 1) * ChunkMax < n /\ n <= ChunksFor(n) * ChunkMax
<1>0. PICK m \in Nat \ {0} : m = ChunkMax  BY TlvAssumption DEF TlvAssumption
<1>1. n + m - 1 \in Int  OBVIOUS
<1>2. PICK q \in Int, r \in 0 .. m - 1 : (n + m - 1) \div m = q /\ n + m - 1 = m * q + r
  <2> DEFINE x == n + m - 1
  <2>1. x \in Int  BY <1>1
  <2> HIDE DEF x
  <2>2. \E q \in Int : \E r \in 0 .. m - 1 : x \div m = q /\ x % m = r /\ x = m * q + r
    BY <2>1, DivisionIs
  <2> QED  BY <2>2, Zenon DEF x
<1>3. ChunksFor(n) = q  BY <1>0, <1>2, Zenon DEF ChunksFor
<1>4. m * q \in Int  BY <1>2, SMT
<1>5. m * q - m < n /\ n <= m * q /\ m * q > 0
  <2> DEFINE t == m * q
  <2>1. t \in Int /\ n + m - 1 = t + r  BY <1>2, <1>4
  <2> HIDE DEF t
  <2>2. t - m < n /\ n <= t /\ t > 0  BY <1>2, <2>1
  <2> QED  BY <2>2 DEF t
<1>6. q >= 1
  <2> SUFFICES ASSUME q <= 0  PROVE FALSE
    BY <1>2
  <2>1. m * q <= 0  BY <1>2, SMT
  <2> QED  BY <1>4, <1>5, <2>1
<1>7. (q - 1) * m = m * q - m /\ q * m = m * q  BY <1>2, SMT
<1> QED  BY <1>0, <1>2, <1>3, <1>5, <1>6, <1>7

\* A chunk before the last is full; the last has the rest.
LEMMA ChunkLenIs ==
  ASSUME NEW n \in Nat \ {0}, NEW c \in 0..(ChunksFor(n) - 1)
  PROVE  /\ c \in Nat /\ c * ChunkMax \in Nat /\ c * ChunkMax < n
         /\ ChunkLen(n, c) \in 1..ChunkMax
         /\ c < ChunksFor(n) - 1 => ChunkLen(n, c) = ChunkMax
         /\ c = ChunksFor(n) - 1 => ChunkLen(n, c) = n - c * ChunkMax
         /\ ChunkLen(n, c) = IF (c + 1) * ChunkMax <= n THEN ChunkMax ELSE n % ChunkMax
<1>0. PICK m \in Nat \ {0} : m = ChunkMax  BY TlvAssumption DEF TlvAssumption
<1>1. PICK k \in Nat \ {0} : k = ChunksFor(n) /\ (k - 1) * m < n /\ n <= k * m
  BY <1>0, ChunksForIs
<1>2. c \in Nat /\ c <= k - 1 /\ k - 1 \in Nat  BY <1>1
<1>3. PICK x \in Nat : x = c * m
  <2>1. c * m \in Nat  BY <1>2, SMT
  <2> QED  BY <2>1
<1>4. x < n
  <2>1. c * m <= (k - 1) * m /\ (k - 1) * m \in Nat
    <3>1. PICK h \in Nat : h = k - 1 /\ c <= h  BY <1>2
    <3>2. c * m <= h * m /\ h * m \in Nat  BY <1>2, <3>1, SMT
    <3> QED  BY <3>1, <3>2
  <2> DEFINE y == (k - 1) * m
  <2>2. x <= y /\ y \in Nat /\ y < n  BY <1>1, <1>3, <2>1
  <2> HIDE DEF y
  <2> QED  BY <2>2
<1>5. ChunkLen(n, c) = LeastOf(m, n - x)  BY <1>0, <1>3, Zenon DEF ChunkLen
<1>6. (c + 1) * m = x + m  BY <1>2, <1>3, SMT
<1>7. c < k - 1 => x + m < n
  <2> HAVE c < k - 1
  <2>1. (c + 1) * m <= (k - 1) * m /\ (k - 1) * m \in Nat
    <3>1. PICK h \in Nat, e \in Nat : h = k - 1 /\ e = c + 1 /\ e <= h  BY <1>2
    <3>2. e * m <= h * m /\ h * m \in Nat  BY <3>1, SMT
    <3> QED  BY <3>1, <3>2
  <2> DEFINE y == (k - 1) * m
  <2>2. x + m <= y /\ y \in Nat /\ y < n  BY <1>1, <1>6, <2>1
  <2> HIDE DEF y
  <2> QED  BY <2>2
<1>8. c = k - 1 => n <= x + m
  <2> HAVE c = k - 1
  <2>1. k = c + 1  BY <1>1
  <2>2. k * m = x + m  BY <1>6, <2>1
  <2> QED  BY <1>1, <2>2
<1>9. LeastOf(m, n - x) \in 1..m /\ (c < k - 1 => LeastOf(m, n - x) = m)
      /\ (c = k - 1 => LeastOf(m, n - x) = n - x)
  BY <1>4, <1>7, <1>8 DEF LeastOf
<1>10. LeastOf(m, n - x) = IF x + m <= n THEN m ELSE n % m
  <2>1. CASE x + m <= n  BY <2>1 DEF LeastOf
  <2>2. CASE ~(x + m <= n)
    <3>1. n - x \in 0..(m - 1)  BY <1>4, <2>2
    <3>2. PICK r \in 0..(m - 1) : r = n - x  BY <3>1
    <3>3. (m * c + r) % m = r  BY <1>2, Remainder
    <3>4. m * c + r = n
      <4>1. m * c = x  BY <1>2, <1>3, SMT
      <4> QED  BY <3>2, <4>1
    <3>5. n % m = n - x  BY <3>2, <3>3, <3>4
    <3>6. LeastOf(m, n - x) = n - x  BY <2>2 DEF LeastOf
    <3> QED  BY <2>2, <3>5, <3>6
  <2> QED  BY <2>1, <2>2
<1> QED  BY <1>0, <1>1, <1>2, <1>3, <1>4, <1>5, <1>6, <1>9, <1>10

\* What a value takes in the buffer.
SizeOf(t) == t.size + 2 * ChunksFor(t.size)

\* Byte k of chunk c: the type, the chunk's size, and as many bytes of the value.
InChunk(t, c, k) ==
  IF k = 1 THEN t.type
  ELSE IF k = 2 THEN ChunkLen(t.size, c) ELSE <<t.number, c * ChunkMax + (k - 2)>>

\* The bytes of one chunk.
LEMMA OneChunk ==
  ASSUME NEW t \in TlvValues, NEW c \in Nat, NEW l \in Nat, l = ChunkLen(t.size, c),
         c * ChunkMax \in Nat
  PROVE  LET s == <<t.type, l>> \o [i \in 1..l |-> <<t.number, c * ChunkMax + i>>] IN
         /\ s \in Seq(TlvBytes) /\ Len(s) = l + 2
         /\ \A k \in 1..(l + 2) : s[k] = InChunk(t, c, k)
<1>1. PICK x \in Nat : x = c * ChunkMax  OBVIOUS
<1>2. PICK y \in TlvTypes, z \in Nat : y = t.type /\ z = t.number  BY DEF TlvValues
<1> DEFINE h == <<y, l>>
           d == [i \in 1..l |-> <<z, x + i>>]
           s == <<t.type, l>> \o [i \in 1..l |-> <<t.number, c * ChunkMax + i>>]
<1>3. s = h \o d  BY <1>1, <1>2
<1>4. h \in Seq(TlvBytes) /\ Len(h) = 2 /\ h[1] = y /\ h[2] = l
  <2>1. y \in TlvBytes /\ l \in TlvBytes  BY DEF TlvBytes
  <2> QED  BY <2>1
<1>5. d \in Seq(TlvBytes) /\ Len(d) = l /\ \A i \in 1..l : d[i] = <<z, x + i>>
  <2>1. \A i \in 1..l : <<z, x + i>> \in TlvBytes  BY DEF TlvBytes
  <2>2. d \in [1..l -> TlvBytes]  BY <2>1
  <2>3. \A i \in 1..l : d[i] = <<z, x + i>>  OBVIOUS
  <2> HIDE DEF d
  <2>4. d \in Seq(TlvBytes)  BY <2>2
  <2>5. Len(d) = l
    <3>1. DOMAIN d = 1..l  BY <2>2, Zenon
    <3> QED  BY <2>4, <3>1
  <2> QED  BY <2>3, <2>4, <2>5, Zenon
<1> HIDE DEF h, d, s
<1>6. /\ h \o d \in Seq(TlvBytes) /\ Len(h \o d) = l + 2
      /\ \A k \in 1..(l + 2) : (h \o d)[k] = IF k <= 2 THEN h[k] ELSE d[k - 2]
  <2>1. /\ h \o d \in Seq(TlvBytes) /\ Len(h \o d) = Len(h) + Len(d)
        /\ \A k \in 1..(Len(h) + Len(d)) : (h \o d)[k] = IF k <= Len(h) THEN h[k] ELSE d[k - Len(h)]
    BY <1>4, <1>5, ConcatProperties
  <2> QED  BY <1>4, <1>5, <2>1
<1>7. ASSUME NEW k \in 1..(l + 2)  PROVE (h \o d)[k] = InChunk(t, c, k)
  <2>1. (h \o d)[k] = IF k <= 2 THEN h[k] ELSE d[k - 2]  BY <1>6
  <2>2. InChunk(t, c, k) = IF k = 1 THEN y ELSE IF k = 2 THEN l ELSE <<z, x + (k - 2)>>
    BY <1>1, <1>2, Zenon DEF InChunk
  <2>3. CASE k = 1  BY <1>4, <2>1, <2>2, <2>3
  <2>4. CASE k = 2  BY <1>4, <2>1, <2>2, <2>4
  <2>5. CASE k > 2
    <3>1. k - 2 \in 1..l /\ ~(k <= 2) /\ k # 1 /\ k # 2  BY <2>5
    <3> QED  BY <1>5, <2>1, <2>2, <3>1
  <2>6. k = 1 \/ k = 2 \/ k > 2  OBVIOUS
  <2> QED  BY <2>3, <2>4, <2>5, <2>6, Zenon
<1> QED  BY <1>3, <1>6, <1>7, Zenon DEF s

\* The bytes of a value's chunks.
LEMMA ChunksIs ==
  ASSUME NEW t \in TlvValues
  PROVE  /\ Chunks(t) \in Seq(TlvBytes) /\ Len(Chunks(t)) = SizeOf(t)
         /\ \A c \in 0..(ChunksFor(t.size) - 1) : \A k \in 1..(ChunkLen(t.size, c) + 2) :
              Chunks(t)[c * (ChunkMax + 2) + k] = InChunk(t, c, k)
<1>0. PICK m \in Nat \ {0} : m = ChunkMax  BY TlvAssumption DEF TlvAssumption
<1>1. PICK n \in Nat \ {0} : n = t.size  BY DEF TlvValues
<1>2. PICK N \in Nat \ {0} : N = ChunksFor(n)  BY ChunksForIs
<1> DEFINE chunk_size(c) == IF c * ChunkMax <= t.size THEN ChunkMax ELSE t.size % ChunkMax
           chunk(c) == <<t.type, chunk_size(c)>>
                       \o [i \in 1..chunk_size(c) |-> <<t.number, (c - 1) * ChunkMax + i>>]
           s == [c \in 1..N |-> chunk(c)]
<1>3. Chunks(t) = FlattenSeq(s)  BY <1>1, <1>2, Zenon DEF Chunks, ChunksFor
<1>4. ASSUME NEW c \in 1..N
      PROVE  /\ s[c] \in Seq(TlvBytes) /\ Len(s[c]) = ChunkLen(n, c - 1) + 2
             /\ \A k \in 1..Len(s[c]) : s[c][k] = InChunk(t, c - 1, k)
             /\ c < N => Len(s[c]) = m + 2
             /\ c = N => Len(s[c]) = n - (N - 1) * m + 2
  <2>1. PICK e \in Nat : e = c - 1 /\ e \in 0..(N - 1) /\ c = e + 1  BY <1>2
  <2>2. PICK l \in Nat : l = ChunkLen(n, e)
    <3>1. ChunkLen(n, e) \in 1..ChunkMax  BY <1>2, <2>1, ChunkLenIs
    <3> QED  BY <1>0, <3>1
  <2>3. /\ e * ChunkMax \in Nat
        /\ l = IF (e + 1) * ChunkMax <= n THEN ChunkMax ELSE n % ChunkMax
        /\ e < N - 1 => l = m
        /\ e = N - 1 => l = n - e * m
    BY <1>0, <1>2, <2>1, <2>2, ChunkLenIs
  <2>4. chunk_size(c) = l  BY <1>1, <2>1, <2>3
  <2>5. s[c] = chunk(c)  OBVIOUS
  <2>6. chunk(c) = <<t.type, l>> \o [i \in 1..l |-> <<t.number, e * ChunkMax + i>>]
    <3> HIDE DEF chunk_size
    <3> QED  BY <2>1, <2>4, Zenon
  <2> HIDE DEF s, chunk, chunk_size
  <2>7. s[c] \in Seq(TlvBytes) /\ Len(s[c]) = l + 2 /\ \A k \in 1..(l + 2) : s[c][k] = InChunk(t, e, k)
    <3> DEFINE x == <<t.type, l>> \o [i \in 1..l |-> <<t.number, e * ChunkMax + i>>]
    <3>1. l = ChunkLen(t.size, e) /\ e \in Nat  BY <1>1, <2>1, <2>2
    <3>2. e * ChunkMax \in Nat  BY <2>3
    <3>3. /\ x \in Seq(TlvBytes) /\ Len(x) = l + 2
          /\ \A k \in 1..(l + 2) : x[k] = InChunk(t, e, k)
      BY <3>1, <3>2, OneChunk, Zenon
    <3>4. s[c] = x  BY <2>5, <2>6
    <3> HIDE DEF x
    <3> QED  BY <3>3, <3>4
  <2>8. c < N => Len(s[c]) = m + 2
    <3>1. c < N => e < N - 1  BY <2>1
    <3> QED  BY <2>3, <2>7, <3>1
  <2>9. c = N => Len(s[c]) = n - (N - 1) * m + 2
    <3>1. c = N => e = N - 1  BY <2>1
    <3> QED  BY <2>3, <2>7, <3>1
  <2> QED  BY <2>1, <2>2, <2>7, <2>8, <2>9
<1>5. Len(s) = N /\ s \in Seq(Seq(TlvBytes)) /\ s # <<>>
  <2>1. DOMAIN s = 1..N /\ s \in [1..N -> Seq(TlvBytes)]
    <3>1. s = [c \in 1..N |-> s[c]]  OBVIOUS
    <3> HIDE DEF s
    <3> QED  BY <1>4, <3>1
  <2> HIDE DEF s
  <2>2. s \in Seq(Seq(TlvBytes)) /\ Len(s) = N  BY <2>1
  <2> QED  BY <2>2, EmptySeq
<1> HIDE DEF s, chunk, chunk_size
<1>6. /\ FlattenSeq(s) \in Seq(TlvBytes)
      /\ Len(FlattenSeq(s)) = (N - 1) * (m + 2) + Len(s[N])
      /\ \A i \in 1..N : \A k \in 1..Len(s[i]) : FlattenSeq(s)[(i - 1) * (m + 2) + k] = s[i][k]
  <2> DEFINE size == m + 2
  <2>1. size \in Nat /\ \A i \in 1..(N - 1) : Len(s[i]) = size
    <3>1. \A i \in 1..(N - 1) : i \in 1..N /\ i < N  OBVIOUS
    <3>2. \A i \in 1..N : i < N => Len(s[i]) = m + 2  BY <1>4, Zenon
    <3> QED  BY <3>1, <3>2
  <2> HIDE DEF size
  <2>2. /\ FlattenSeq(s) \in Seq(TlvBytes)
        /\ Len(FlattenSeq(s)) = (N - 1) * size + Len(s[N])
        /\ \A i \in 1..N : \A k \in 1..Len(s[i]) : FlattenSeq(s)[(i - 1) * size + k] = s[i][k]
    <3>1. \A i \in 1..(Len(s) - 1) : Len(s[i]) = size  BY <1>5, <2>1, Zenon
    <3>2. /\ FlattenSeq(s) \in Seq(TlvBytes)
          /\ Len(FlattenSeq(s)) = (Len(s) - 1) * size + Len(s[Len(s)])
          /\ \A i \in 1..Len(s) : \A k \in 1..Len(s[i]) :
               FlattenSeq(s)[(i - 1) * size + k] = s[i][k]
      BY <1>5, <2>1, <3>1, PiecesInLine, Zenon
    <3> QED  BY <1>5, <3>2, Zenon
  <2> QED  BY <2>2 DEF size
<1>7. Len(FlattenSeq(s)) = SizeOf(t)
  <2>1. Len(s[N]) = n - (N - 1) * m + 2
    <3>1. N \in 1..N  OBVIOUS
    <3> QED  BY <1>4, <3>1, Zenon
  <2>2. (N - 1) * (m + 2) + (n - (N - 1) * m + 2) = n + 2 * N  BY SMT
  <2>3. SizeOf(t) = n + 2 * N  BY <1>1, <1>2 DEF SizeOf
  <2>4. Len(FlattenSeq(s)) = (N - 1) * (m + 2) + (n - (N - 1) * m + 2)  BY <1>6, <2>1
  <2> QED  BY <2>2, <2>3, <2>4
<1>8. ASSUME NEW c \in 0..(N - 1), NEW k \in 1..(ChunkLen(n, c) + 2)
      PROVE  FlattenSeq(s)[c * (m + 2) + k] = InChunk(t, c, k)
  <2>1. PICK i \in 1..N : i = c + 1 /\ i - 1 = c  OBVIOUS
  <2>2. k \in 1..Len(s[i])  BY <1>4, <2>1
  <2>3. FlattenSeq(s)[(i - 1) * (m + 2) + k] = s[i][k]  BY <1>6, <2>2
  <2>4. s[i][k] = InChunk(t, i - 1, k)  BY <1>4, <2>2
  <2> QED  BY <2>1, <2>3, <2>4
<1> QED  BY <1>0, <1>1, <1>2, <1>3, <1>6, <1>7, <1>8

\* The values are numbered, and no two of one type follow each other.
InTurn ==
  /\ values \in Seq(TlvValues)
  /\ \A i \in 1..Len(values) : values[i].number = i
  /\ \A i, j \in 1..Len(values) : j = i + 1 => values[i].type # values[j].type

\* The formatted values, one by one.
Texts == [i \in 1..Len(values) |-> Chunks(values[i])]

\* The bytes b are the chunks of the values, those of value i up to O[i].
Laid(b, O) ==
  /\ Begins(Texts, O) /\ Len(b) = O[Len(values)]
  /\ \A i \in 1..Len(values) : \A k \in 1..SizeOf(values[i]) :
       b[O[i - 1] + k] = Chunks(values[i])[k]

\* Their sizes.
LEMMA TextsIs ==
  ASSUME InTurn
  PROVE  /\ Len(values) \in Nat /\ Texts \in Seq(Seq(TlvBytes)) /\ Len(Texts) = Len(values)
         /\ \A i \in 1..Len(values) : /\ values[i] \in TlvValues /\ Texts[i] = Chunks(values[i])
                                      /\ Len(Texts[i]) = SizeOf(values[i])
<1>1. Len(values) \in Nat /\ \A i \in 1..Len(values) : values[i] \in TlvValues
  BY LenProperties, ElementOfSeq DEF InTurn
<1>2. \A i \in 1..Len(values) : /\ Chunks(values[i]) \in Seq(TlvBytes)
                                /\ Len(Chunks(values[i])) = SizeOf(values[i])
  BY <1>1, ChunksIs
<1> DEFINE N == Len(values)
           T == [i \in 1..N |-> Chunks(values[i])]
<1>3. T \in [1..N -> Seq(TlvBytes)] /\ \A i \in 1..N : T[i] = Chunks(values[i])
  BY <1>2
<1> HIDE DEF T
<1>4. T \in Seq(Seq(TlvBytes)) /\ Len(T) = N
  <2> HIDE DEF N
  <2> QED  BY <1>1, <1>3 DEF N
<1>5. Texts = T  BY DEF Texts, T
<1> QED  BY <1>1, <1>2, <1>3, <1>4, <1>5

\* pair_tlv_format lays them out one behind the other.
LEMMA LaidOut ==
  ASSUME InTurn
  PROVE  \E O : Laid(FlattenSeq(Texts), O)
<1>1. /\ Len(values) \in Nat /\ Texts \in Seq(Seq(TlvBytes)) /\ Len(Texts) = Len(values)
      /\ \A i \in 1..Len(values) : /\ Texts[i] = Chunks(values[i])
                                   /\ Len(Texts[i]) = SizeOf(values[i])
  BY TextsIs
<1>2. CASE Texts # <<>>
  <2>1. PICK O : /\ Begins(Texts, O)
                 /\ Len(FlattenSeq(Texts)) = O[Len(Texts)]
                 /\ \A i \in 1..Len(Texts) : \A k \in 1..Len(Texts[i]) :
                      FlattenSeq(Texts)[O[i - 1] + k] = Texts[i][k]
    BY <1>1, <1>2, FlattenIs
  <2>2. \A i \in 1..Len(values) : \A k \in 1..SizeOf(values[i]) :
          FlattenSeq(Texts)[O[i - 1] + k] = Chunks(values[i])[k]
    <3> TAKE i \in 1..Len(values)
    <3>1. Texts[i] = Chunks(values[i]) /\ Len(Texts[i]) = SizeOf(values[i]) /\ i \in 1..Len(Texts)
      BY <1>1
    <3>2. \A k \in 1..Len(Texts[i]) : FlattenSeq(Texts)[O[i - 1] + k] = Texts[i][k]
      BY <2>1, <3>1
    <3> QED  BY <3>1, <3>2, Zenon
  <2>3. Laid(FlattenSeq(Texts), O)  BY <1>1, <2>1, <2>2, Zenon DEF Laid
  <2> QED  BY <2>3
<1>3. CASE Texts = <<>>
  <2>1. Len(values) = 0  BY <1>1, <1>3, EmptySeq
  <2>2. FlattenSeq(Texts) = Texts  BY <1>1, <2>1 DEF FlattenSeq
  <2> DEFINE O == [i \in 0..0 |-> 0]
  <2>3. O \in [0..0 -> Nat] /\ O[0] = 0  OBVIOUS
  <2> HIDE DEF O
  <2>4. Begins(Texts, O)  BY <1>1, <2>1, <2>3 DEF Begins
  <2>5. Laid(FlattenSeq(Texts), O)  BY <1>1, <2>1, <2>2, <2>3, <2>4 DEF Laid
  <2> QED  BY <2>5
<1> QED  BY <1>2, <1>3

\* Where the values lie.
LEMMA LaidIs ==
  ASSUME InTurn, NEW b, NEW O, Laid(b, O), NEW i \in 1..Len(values)
  PROVE  /\ O[i - 1] \in Nat /\ O[i] \in Nat /\ O[i] = O[i - 1] + SizeOf(values[i])
         /\ O[i] <= Len(b) /\ Len(b) \in Nat
         /\ i < Len(values) => O[i] + SizeOf(values[i + 1]) <= Len(b)
<1>1. /\ Len(values) \in Nat /\ Texts \in Seq(Seq(TlvBytes)) /\ Len(Texts) = Len(values)
      /\ \A j \in 1..Len(values) : Len(Texts[j]) = SizeOf(values[j])
  BY TextsIs
<1>2. Begins(Texts, O) /\ Len(b) = O[Len(values)]  BY DEF Laid
<1>3. \A j \in 0..Len(values) : O[j] \in Nat  BY <1>1, <1>2 DEF Begins
<1>4. O[i] = O[i - 1] + SizeOf(values[i])  BY <1>1, <1>2 DEF Begins
<1>5. i - 1 \in 0..Len(values) /\ i \in 0..Len(values) /\ Len(values) \in 0..Len(values)
      /\ i <= Len(values)
  BY <1>1
<1>6. O[i] <= O[Len(values)] /\ (i < Len(values) => O[i] + Len(Texts[i + 1]) <= O[Len(values)])
  BY <1>1, <1>2, <1>5, BeginsInOrder
<1>7. i < Len(values) => Len(Texts[i + 1]) = SizeOf(values[i + 1])
  <2>1. i < Len(values) => i + 1 \in 1..Len(values)  BY <1>1
  <2> QED  BY <1>1, <2>1
<1> QED  BY <1>2, <1>3, <1>4, <1>5, <1>6, <1>7

\* The values that parsing gives back.
Given(i) == [type |-> values[i].type, data |-> [b \in 1..values[i].size |-> <<i, b>>]]

\* From o on the buffer has the chunks of t up to e, then no chunk of its type.
HasItem(t, o, e) ==
  /\ t \in TlvValues /\ o \in Nat /\ e = o + SizeOf(t) /\ e <= Len(buffer) /\ Len(buffer) \in Nat
  /\ \A k \in 1..SizeOf(t) : buffer[o + k] = Chunks(t)[k]
  /\ e + 1 <= Len(buffer) => buffer[e + 1] # t.type

\* Chunk c of t lies x bytes behind o, and has l bytes of the value.
HasChunk(t, o, c, x, l) ==
  /\ x \in Nat /\ l \in Nat
  /\ x = c * (ChunkMax + 2) /\ l = ChunkLen(t.size, c) /\ o + 1 + x <= Len(buffer)
  /\ buffer[o + 1 + x] = t.type /\ buffer[o + 1 + x + 1] = l
  /\ \A i \in 1..l : buffer[o + 1 + x + 1 + i] = <<t.number, c * ChunkMax + i>>

\* Every chunk of an item is where the last one's size puts it.
LEMMA ItemBytes ==
  ASSUME NEW t, NEW o, NEW e, HasItem(t, o, e), NEW c \in 0..(ChunksFor(t.size) - 1)
  PROVE  \E x, l : HasChunk(t, o, c, x, l)
<1>0. PICK m \in Nat \ {0} : m = ChunkMax  BY TlvAssumption DEF TlvAssumption
<1>1. t \in TlvValues /\ o \in Nat /\ e = o + SizeOf(t) /\ e <= Len(buffer) /\ Len(buffer) \in Nat
      /\ \A k \in 1..SizeOf(t) : buffer[o + k] = Chunks(t)[k]
  BY DEF HasItem
<1>2. PICK n \in Nat \ {0} : n = t.size  BY <1>1 DEF TlvValues
<1>3. PICK K \in Nat \ {0} : K = ChunksFor(n) /\ SizeOf(t) = n + 2 * K
  BY <1>2, ChunksForIs DEF SizeOf
<1>4. PICK l \in Nat : l = ChunkLen(n, c)
  <2>1. ChunkLen(n, c) \in 1..ChunkMax  BY <1>2, ChunkLenIs
  <2> QED  BY <1>0, <2>1
<1>5. /\ c \in Nat /\ c * m \in Nat /\ c * m < n /\ l \in 1..m /\ (c < K - 1 => l = m)
      /\ (c = K - 1 => l = n - c * m)
  BY <1>0, <1>2, <1>3, <1>4, ChunkLenIs
<1>6. PICK x \in Nat, y \in Nat : x = c * (m + 2) /\ y = c * m /\ x = y + 2 * c
  <2>1. c * (m + 2) \in Nat /\ c * (m + 2) = c * m + 2 * c  BY <1>5, SMT
  <2> QED  BY <1>5, <2>1
<1>7. y + l <= n
  <2>1. CASE c = K - 1  BY <1>5, <1>6, <2>1
  <2>2. CASE c # K - 1
    <3>1. c < K - 1 /\ c + 1 \in 0..(K - 1)  BY <1>2, <1>3, <2>2
    <3>2. (c + 1) * m < n
      <4>1. PICK d \in 0..(K - 1) : d = c + 1  BY <3>1
      <4>2. d * m < n  BY <1>0, <1>2, <1>3, <4>1, ChunkLenIs
      <4> QED  BY <4>1, <4>2
    <3>3. (c + 1) * m = y + m  BY <1>5, <1>6, SMT
    <3> QED  BY <1>5, <1>6, <3>1, <3>2, <3>3
  <2> QED  BY <2>1, <2>2
<1>8. c <= K - 1  BY <1>2, <1>3
<1>9. x + l + 2 <= SizeOf(t)  BY <1>3, <1>5, <1>6, <1>7, <1>8
<1>10. PICK z \in Nat : z = SizeOf(t)  BY <1>3
<1>11. \A k \in 1..(l + 2) : buffer[o + (x + k)] = InChunk(t, c, k)
  <2> TAKE k \in 1..(l + 2)
  <2>1. x + k \in 1..z  BY <1>9, <1>10
  <2>2. Chunks(t)[c * (ChunkMax + 2) + k] = InChunk(t, c, k)
    BY <1>1, <1>2, <1>4, ChunksIs
  <2>3. buffer[o + (x + k)] = Chunks(t)[x + k]
    <3>1. PICK j : j = x + k  OBVIOUS
    <3>2. buffer[o + j] = Chunks(t)[j]  BY <1>1, <1>10, <2>1, <3>1
    <3> QED  BY <3>1, <3>2
  <2> QED  BY <1>0, <1>6, <2>2, <2>3
<1>12. o + 1 + x <= Len(buffer)  BY <1>1, <1>9, <1>10
<1>13. buffer[o + 1 + x] = t.type /\ buffer[o + 1 + x + 1] = l
  <2>1. 1 \in 1..(l + 2) /\ 2 \in 1..(l + 2) /\ o + (x + 1) = o + 1 + x
        /\ o + (x + 2) = o + 1 + x + 1
    BY <1>1
  <2>2. InChunk(t, c, 1) = t.type /\ InChunk(t, c, 2) = l  BY <1>2, <1>4 DEF InChunk
  <2> QED  BY <1>11, <2>1, <2>2
<1>14. ASSUME NEW i \in 1..l  PROVE buffer[o + 1 + x + 1 + i] = <<t.number, c * ChunkMax + i>>
  <2>1. PICK k \in 1..(l + 2) : k = i + 2 /\ k # 1 /\ k # 2 /\ k - 2 = i  OBVIOUS
  <2>2. InChunk(t, c, k) = <<t.number, c * ChunkMax + i>>  BY <2>1, Zenon DEF InChunk
  <2>3. o + (x + k) = o + 1 + x + 1 + i  BY <1>1, <2>1
  <2> QED  BY <1>11, <2>1, <2>2, <2>3
<1>15. HasChunk(t, o, c, x, l)
  BY <1>0, <1>2, <1>4, <1>6, <1>12, <1>13, <1>14 DEF HasChunk
<1> QED  BY <1>15

\* pair_tlv_parse's item is the whole value.
LEMMA ItemIs ==
  ASSUME NEW t, NEW o, NEW e, HasItem(t, o, e)
  PROVE  Item(o + 1) = [end |-> e + 1, data |-> [b \in 1..t.size |-> <<t.number, b>>]]
<1>0. PICK m \in Nat \ {0} : m = ChunkMax  BY TlvAssumption DEF TlvAssumption
<1>1. t \in TlvValues /\ o \in Nat /\ e = o + SizeOf(t) /\ e <= Len(buffer) /\ Len(buffer) \in Nat
      /\ (e + 1 <= Len(buffer) => buffer[e + 1] # t.type)
  BY DEF HasItem
<1>2. PICK n \in Nat \ {0} : n = t.size  BY <1>1 DEF TlvValues
<1>3. PICK K \in Nat \ {0} : K = ChunksFor(n) /\ SizeOf(t) = n + 2 * K
  BY <1>2, ChunksForIs DEF SizeOf
<1>4. PICK i \in Nat : i = o + 1  BY <1>1
<1> DEFINE chunk(c) == i + c * (ChunkMax + 2)
           Same(c) == chunk(c) <= Len(buffer) /\ buffer[chunk(c)] = buffer[i]
           Full(c) == Same(c) /\ buffer[chunk(c) + 1] = ChunkMax
           full == CHOOSE c \in 0..Len(buffer) : ~Full(c) /\ \A d \in 0..(c - 1) : Full(d)
           rest == IF Same(full) THEN buffer[chunk(full) + 1] ELSE 0
           data(f, r) == [b \in 1..(f * ChunkMax + r) |->
                            buffer[chunk((b - 1) \div ChunkMax) + 2 + ((b - 1) % ChunkMax)]]
<1>5. Item(i) = [end  |-> chunk(full) + IF rest > 0 THEN rest + 2 ELSE 0, data |-> data(full, rest)]
  BY DEF Item
<1>6. buffer[i] = t.type
  <2>1. 0 \in 0..(K - 1)  OBVIOUS
  <2>2. PICK x, l : HasChunk(t, o, 0, x, l)  BY <1>2, <1>3, <2>1, ItemBytes
  <2>3. 0 * (ChunkMax + 2) = 0
    <3>1. 0 * (m + 2) = 0  BY SMT
    <3> QED  BY <1>0, <3>1
  <2>4. o + 1 + x = i  BY <1>1, <1>4, <2>2, <2>3 DEF HasChunk
  <2> QED  BY <2>2, <2>4 DEF HasChunk
<1>7. ASSUME NEW c \in 0..(K - 1)
      PROVE  /\ chunk(c) \in Nat /\ Same(c) /\ buffer[chunk(c) + 1] = ChunkLen(n, c)
             /\ \A b \in 1..ChunkLen(n, c) :
                  buffer[chunk(c) + 1 + b] = <<t.number, c * ChunkMax + b>>
  <2>0. c \in 0..(ChunksFor(t.size) - 1)  BY <1>2, <1>3
  <2>1. PICK x, l : HasChunk(t, o, c, x, l)  BY <2>0, ItemBytes
  <2>2. chunk(c) = o + 1 + x  BY <1>4, <2>1 DEF HasChunk
  <2> HIDE DEF chunk
  <2>3. chunk(c) \in Nat
    <3>1. o + 1 + x \in Nat  BY <1>1, <2>1 DEF HasChunk
    <3> QED  BY <2>2, <3>1
  <2> QED  BY <1>2, <1>6, <2>1, <2>2, <2>3 DEF HasChunk
<1>8. PICK h \in 0..(K - 1) : h = K - 1 /\ h \in Nat /\ K = h + 1  OBVIOUS
<1>9. PICK y \in Nat, l \in Nat : /\ y = h * m /\ l = ChunkLen(n, h) /\ l \in 1..m /\ n = y + l
  <2>1. /\ h * m \in Nat /\ h * m < n /\ ChunkLen(n, h) \in 1..m /\ ChunkLen(n, h) = n - h * m
    BY <1>0, <1>2, <1>3, <1>8, ChunkLenIs
  <2>2. PICK y \in Nat : y = h * m  BY <2>1
  <2>3. ChunkLen(n, h) \in Nat /\ n = y + ChunkLen(n, h)  BY <2>1, <2>2
  <2> QED  BY <2>1, <2>2, <2>3
<1>10. chunk(h) = i + y + 2 * h /\ chunk(K) = i + (y + m) + 2 * K
  <2>1. h * (m + 2) = y + 2 * h /\ K * (m + 2) = (y + m) + 2 * K
    <3>1. h * (m + 2) = h * m + 2 * h  BY <1>8, SMT
    <3>2. (h + 1) * (m + 2) = (h * m + m) + 2 * (h + 1)  BY <1>8, SMT
    <3> QED  BY <1>8, <1>9, <3>1, <3>2
  <2>2. chunk(h) = i + h * (m + 2) /\ chunk(K) = i + K * (m + 2)  BY <1>0
  <2> HIDE DEF chunk
  <2> QED  BY <1>8, <1>9, <2>1, <2>2
<1>11. e = o + (y + l + 2 * K)  BY <1>1, <1>3, <1>9
<1>12. ASSUME l = m  PROVE chunk(K) = e + 1 /\ ~Same(K)
  <2>0. i + (y + m) + 2 * K = e + 1
    <3>1. o \in Nat /\ i = o + 1 /\ l = m  BY <1>1, <1>4, <1>12
    <3> QED  BY <1>11, <3>1
  <2>1. chunk(K) = e + 1  BY <1>10, <2>0
  <2> HIDE DEF chunk
  <2> QED  BY <1>1, <1>6, <2>1
<1>13. ASSUME NEW c \in 0..(K - 1)  PROVE Full(c) <=> c < K - 1 \/ l = m
  <2>1. Same(c) /\ buffer[chunk(c) + 1] = ChunkLen(n, c)  BY <1>7
  <2>2. c < K - 1 => ChunkLen(n, c) = m  BY <1>0, <1>2, <1>3, ChunkLenIs
  <2>3. c < K - 1 \/ c = h  BY <1>8
  <2> HIDE DEF chunk, Same
  <2> QED  BY <1>0, <1>8, <1>9, <2>1, <2>2, <2>3
<1>14. PICK F \in Nat : F = IF l = m THEN K ELSE h
  BY <1>8
<1>15. F \in 0..Len(buffer) /\ ~Full(F) /\ \A d \in 0..(F - 1) : Full(d)
  <2>1. F \in 0..Len(buffer)
    <3> HIDE DEF chunk, Same, Full, full, rest, data
    <3>1. y \in Nat /\ l \in Nat /\ o \in Nat /\ e <= Len(buffer) /\ Len(buffer) \in Nat
      BY <1>1, <1>9, Zenon
    <3>2. h \in Nat /\ K = h + 1  BY <1>8, Zenon
    <3>3. h <= Len(buffer) /\ K <= Len(buffer)  BY <1>11, <3>1, <3>2
    <3> QED  BY <1>14, <3>1, <3>2, <3>3
  <2>2. ~Full(F)
    <3>1. CASE l = m  BY <1>12, <1>14, <3>1
    <3>2. CASE l # m
      <4>1. F = h /\ ~(h < K - 1)  BY <1>8, <1>14, <3>2
      <4>2. ~Full(h)  BY <1>13, <3>2, <4>1
      <4> HIDE DEF Full
      <4> QED  BY <4>1, <4>2
    <3> QED  BY <3>1, <3>2
  <2>3. ASSUME NEW d \in 0..(F - 1)  PROVE Full(d)
    <3>1. d \in 0..(K - 1) /\ (d < K - 1 \/ l = m)  BY <1>8, <1>14
    <3> HIDE DEF Full
    <3> QED  BY <1>13, <3>1
  <2> HIDE DEF Full
  <2> QED  BY <2>1, <2>2, <2>3
<1>16. full = F
  <2> DEFINE Is(c) == ~Full(c) /\ \A d \in 0..(c - 1) : Full(d)
  <2>1. \E c \in 0..Len(buffer) : Is(c)  BY <1>15
  <2>2. full = CHOOSE c \in 0..Len(buffer) : Is(c)  OBVIOUS
  <2> HIDE DEF full, Is, Full
  <2>3. full \in 0..Len(buffer) /\ Is(full)  BY <2>1, <2>2
  <2>4. ~(full < F)
    <3> SUFFICES ASSUME full < F  PROVE FALSE
      OBVIOUS
    <3>1. full \in 0..(F - 1)  BY <1>1, <2>3
    <3>2. Full(full)  BY <1>15, <3>1
    <3> QED  BY <2>3, <3>2 DEF Is
  <2>5. ~(F < full)
    <3> SUFFICES ASSUME F < full  PROVE FALSE
      OBVIOUS
    <3>1. F \in 0..(full - 1)  BY <1>1, <2>3
    <3>2. Full(F)  BY <2>3, <3>1 DEF Is
    <3> QED  BY <1>15, <3>2
  <2> QED  BY <1>1, <2>3, <2>4, <2>5
<1>17. rest = IF l = m THEN 0 ELSE l
  <2>1. rest = IF Same(F) THEN buffer[chunk(F) + 1] ELSE 0
    <3> HIDE DEF full, Same, chunk
    <3> QED  BY <1>16, Zenon
  <2>2. Same(h) /\ buffer[chunk(h) + 1] = l  BY <1>7, <1>9
  <2>3. l = m => ~Same(K)  BY <1>12
  <2> HIDE DEF Same, chunk, rest
  <2> QED  BY <1>14, <2>1, <2>2, <2>3
<1>18. chunk(full) + (IF rest > 0 THEN rest + 2 ELSE 0) = e + 1
  <2>1. CASE l = m
    <3>1. full = K /\ rest = 0  BY <1>14, <1>16, <1>17, <2>1
    <3>2. chunk(K) = e + 1  BY <1>12, <2>1
    <3> HIDE DEF full, rest, chunk
    <3> QED  BY <1>1, <1>11, <3>1, <3>2
  <2>2. CASE l # m
    <3>1. full = h /\ rest = l  BY <1>14, <1>16, <1>17, <2>2
    <3>2. i + y + 2 * h + (l + 2) = e + 1 /\ l > 0
      <4>1. o \in Nat /\ i = o + 1 /\ h \in Nat /\ K = h + 1 /\ l > 0  BY <1>1, <1>4, <1>8, <1>9
      <4> QED  BY <1>11, <4>1
    <3> HIDE DEF full, rest, chunk
    <3> QED  BY <1>10, <3>1, <3>2
  <2> QED  BY <2>1, <2>2
<1>19. full * ChunkMax + rest = n
  <2>1. CASE l = m
    <3>1. full = K /\ rest = 0  BY <1>14, <1>16, <1>17, <2>1
    <3>2. (h + 1) * m = h * m + m  BY <1>8, SMT
    <3> HIDE DEF full, rest
    <3> QED  BY <1>0, <1>8, <1>9, <2>1, <3>1, <3>2
  <2>2. CASE l # m
    <3>1. full = h /\ rest = l  BY <1>14, <1>16, <1>17, <2>2
    <3> HIDE DEF full, rest
    <3> QED  BY <1>0, <1>9, <3>1
  <2> QED  BY <2>1, <2>2
<1>20. ASSUME NEW b \in 1..n
       PROVE  buffer[chunk((b - 1) \div ChunkMax) + 2 + ((b - 1) % ChunkMax)] = <<t.number, b>>
  <2>1. b - 1 \in Int  OBVIOUS
  <2>2. PICK q \in Int, r \in 0 .. m - 1 : (b - 1) \div m = q /\ (b - 1) % m = r /\ b - 1 = m * q + r
    <3> DEFINE z == b - 1
    <3>1. z \in Int  BY <2>1
    <3> HIDE DEF z
    <3>2. \E q \in Int : \E r \in 0 .. m - 1 : z \div m = q /\ z % m = r /\ z = m * q + r
      BY <3>1, DivisionIs
    <3> QED  BY <3>2, Zenon DEF z
  <2>3. PICK x \in Int : x = m * q /\ b - 1 = x + r
    <3>1. m * q \in Int  BY <2>2, SMT
    <3> QED  BY <2>2, <3>1
  <2>4. q >= 0
    <3> SUFFICES ASSUME q <= -1  PROVE FALSE
      BY <2>2
    <3>1. m * q <= -m  BY <2>2, SMT
    <3> QED  BY <2>2, <2>3, <3>1
  <2>5. q <= h
    <3> SUFFICES ASSUME q >= h + 1  PROVE FALSE
      BY <1>8, <2>2
    <3>1. m * q >= m * (h + 1) /\ m * (h + 1) = h * m + m  BY <1>8, <2>2, SMT
    <3> QED  BY <1>8, <1>9, <2>2, <2>3, <3>1
  <2>6. q \in 0..(K - 1) /\ q \in Nat  BY <1>8, <2>2, <2>4, <2>5
  <2>7. r + 1 \in 1..ChunkLen(n, q)
    <3>1. CASE q = h
      <4>1. m * h = h * m  BY <1>8, SMT
      <4>2. b - 1 = y + r  BY <1>9, <2>3, <3>1, <4>1
      <4> QED  BY <1>9, <2>2, <3>1, <4>2
    <3>2. CASE q # h
      <4>1. q < K - 1  BY <1>8, <2>2, <2>5, <3>2
      <4>2. ChunkLen(n, q) = m  BY <1>0, <1>2, <1>3, <2>6, <4>1, ChunkLenIs
      <4> QED  BY <2>2, <4>2
    <3> QED  BY <3>1, <3>2
  <2>8. chunk(q) \in Nat /\ buffer[chunk(q) + 1 + (r + 1)] = <<t.number, q * ChunkMax + (r + 1)>>
    BY <1>7, <2>6, <2>7
  <2>9. q * ChunkMax + (r + 1) = b
    <3>1. q * m = m * q  BY <2>2, SMT
    <3> QED  BY <1>0, <2>2, <2>3, <3>1
  <2>10. (b - 1) \div ChunkMax = q /\ (b - 1) % ChunkMax = r  BY <1>0, <2>2, Zenon
  <2> HIDE DEF chunk
  <2>11. chunk(q) + 1 + (r + 1) = chunk(q) + 2 + r  BY <2>2, <2>8
  <2>12. buffer[chunk(q) + 2 + r] = <<t.number, b>>  BY <2>8, <2>9, <2>11
  <2> QED  BY <2>10, <2>12, Zenon
<1>21. data(full, rest) = [b \in 1..t.size |-> <<t.number, b>>]
  <2>1. data(full, rest) = [b \in 1..n |->
                              buffer[chunk((b - 1) \div ChunkMax) + 2 + ((b - 1) % ChunkMax)]]
    <3> HIDE DEF full, rest, chunk
    <3> QED  BY <1>19, Zenon
  <2>2. [b \in 1..n |-> buffer[chunk((b - 1) \div ChunkMax) + 2 + ((b - 1) % ChunkMax)]]
          = [b \in 1..n |-> <<t.number, b>>]
    <3> HIDE DEF chunk
    <3> QED  BY <1>20, Zenon
  <2> HIDE DEF full, rest, chunk, data
  <2> QED  BY <1>2, <2>1, <2>2, Zenon
<1> HIDE DEF full, rest, chunk, data
<1> QED  BY <1>4, <1>5, <1>18, <1>21

\* The value that is parsed next.
LEMMA NextItem ==
  ASSUME InTurn, NEW O, Laid(buffer, O), NEW i \in 1..Len(values)
  PROVE  /\ O[i - 1] + 1 <= Len(buffer)
         /\ buffer[O[i - 1] + 1] = values[i].type
         /\ Item(O[i - 1] + 1) = [end |-> O[i] + 1, data |-> Given(i).data]
<1>1. /\ O[i - 1] \in Nat /\ O[i] \in Nat /\ O[i] = O[i - 1] + SizeOf(values[i])
      /\ O[i] <= Len(buffer) /\ Len(buffer) \in Nat
      /\ i < Len(values) => O[i] + SizeOf(values[i + 1]) <= Len(buffer)
  BY LaidIs
<1>2. \A j \in 1..Len(values) : values[j] \in TlvValues  BY TextsIs
<1>3. Len(values) \in Nat  BY TextsIs
<1>4. \A j \in 1..Len(values) : \A k \in 1..SizeOf(values[j]) :
        buffer[O[j - 1] + k] = Chunks(values[j])[k]
  BY DEF Laid
<1>5. PICK t, o, e : t = values[i] /\ o = O[i - 1] /\ e = O[i]  OBVIOUS
\* A value starts with its type.
<1>6. ASSUME NEW j \in 1..Len(values)
      PROVE  SizeOf(values[j]) >= 3 /\ buffer[O[j - 1] + 1] = values[j].type
  <2>1. PICK m \in Nat \ {0} : m = ChunkMax  BY TlvAssumption DEF TlvAssumption
  <2>2. PICK n \in Nat \ {0} : n = values[j].size  BY <1>2 DEF TlvValues
  <2>3. PICK K \in Nat \ {0} : K = ChunksFor(n) /\ SizeOf(values[j]) = n + 2 * K
    BY <2>2, ChunksForIs DEF SizeOf
  <2>4. SizeOf(values[j]) >= 3 /\ 1 \in 1..SizeOf(values[j])  BY <2>3
  <2>5. 0 \in 0..(K - 1)  OBVIOUS
  <2>6. ChunkLen(n, 0) \in 1..ChunkMax  BY <2>3, <2>5, ChunkLenIs
  <2>7. 1 \in 1..(ChunkLen(n, 0) + 2)  BY <2>1, <2>6
  <2>8. Chunks(values[j])[0 * (ChunkMax + 2) + 1] = InChunk(values[j], 0, 1)
    BY <1>2, <2>2, <2>3, <2>5, <2>7, ChunksIs
  <2>9. 0 * (ChunkMax + 2) + 1 = 1
    <3>1. 0 * (m + 2) + 1 = 1  BY SMT
    <3> QED  BY <2>1, <3>1
  <2>10. InChunk(values[j], 0, 1) = values[j].type  BY DEF InChunk
  <2> QED  BY <1>4, <2>4, <2>8, <2>9, <2>10
<1>7. e + 1 <= Len(buffer) => buffer[e + 1] # t.type
  <2>1. CASE i = Len(values)
    <3>1. Len(buffer) = O[i]  BY <2>1 DEF Laid
    <3> QED  BY <1>1, <1>5, <3>1
  <2>2. CASE i # Len(values)
    <3>1. PICK j \in 1..Len(values) : j = i + 1 /\ j - 1 = i  BY <1>3, <2>2
    <3>2. buffer[e + 1] = values[j].type  BY <1>5, <1>6, <3>1
    <3>3. values[i].type # values[j].type  BY <3>1 DEF InTurn
    <3> QED  BY <1>5, <3>2, <3>3
  <2> QED  BY <2>1, <2>2
<1>8. HasItem(t, o, e)
  BY <1>1, <1>2, <1>4, <1>5, <1>7 DEF HasItem
<1>9. Item(o + 1) = [end |-> e + 1, data |-> [b \in 1..t.size |-> <<t.number, b>>]]
  BY <1>8, ItemIs
<1>10. [b \in 1..t.size |-> <<t.number, b>>] = Given(i).data
  <2>1. t.number = i  BY <1>5 DEF InTurn
  <2> QED  BY <1>5, <2>1 DEF Given
<1>11. o + 1 <= Len(buffer)
  <2>1. SizeOf(values[i]) >= 3  BY <1>6
  <2>2. PICK z \in Int : z = SizeOf(values[i])
    <3>1. SizeOf(values[i]) = O[i] - O[i - 1]
      <4>1. PICK n \in Nat \ {0} : n = values[i].size  BY <1>2 DEF TlvValues
      <4>2. PICK K \in Nat : K = ChunksFor(n)  BY <4>1, ChunksForIs
      <4>3. SizeOf(values[i]) = n + 2 * K  BY <4>1, <4>2 DEF SizeOf
      <4> QED  BY <1>1, <4>3
    <3> QED  BY <1>1, <3>1
  <2> QED  BY <1>1, <1>5, <2>1, <2>2
<1>12. buffer[o + 1] = values[i].type  BY <1>5, <1>6
<1> QED  BY <1>5, <1>9, <1>10, <1>11, <1>12

\* pair_tlv_format's required size is where the last value ends.
LEMMA RequiredIs ==
  ASSUME InTurn, NEW O, Begins(Texts, O)
  PROVE  required_size = O[Len(values)]
<1>1. PICK N \in Nat : N = Len(values)  BY TextsIs
<1> DEFINE Is(f) == f = [i \in 0..N |->
                           IF i = 0 THEN 0
                           ELSE f[i - 1] + values[i].size
                                  + 2 * ((values[i].size + ChunkMax - 1) \div ChunkMax)]
<1>2. \A i \in 1..N : /\ Len(Texts[i]) = SizeOf(values[i]) /\ values[i].size \in Nat
                      /\ ChunksFor(values[i].size) \in Nat
  <2> TAKE i \in 1..N
  <2>1. values[i] \in TlvValues /\ Len(Texts[i]) = SizeOf(values[i])  BY <1>1, TextsIs
  <2>2. values[i].size \in Nat \ {0}  BY <2>1 DEF TlvValues
  <2> QED  BY <2>1, <2>2, ChunksForIs
<1>3. O \in [0..N -> Nat] /\ O[0] = 0 /\ \A i \in 1..N : O[i] = O[i - 1] + SizeOf(values[i])
  <2>1. Len(Texts) = N  BY <1>1, TextsIs
  <2> QED  BY <1>2, <2>1 DEF Begins
<1>4. ASSUME NEW i \in 1..N, NEW x \in Nat
      PROVE  x + values[i].size + 2 * ((values[i].size + ChunkMax - 1) \div ChunkMax)
               = x + SizeOf(values[i])
  <2>1. PICK n \in Nat, k \in Nat : n = values[i].size /\ k = ChunksFor(values[i].size)
    BY <1>2
  <2>2. SizeOf(values[i]) = n + 2 * k  BY <2>1 DEF SizeOf
  <2>3. k = (values[i].size + ChunkMax - 1) \div ChunkMax  BY <2>1 DEF ChunksFor
  <2>4. x + n + 2 * k = x + (n + 2 * k)  OBVIOUS
  <2> QED  BY <2>1, <2>2, <2>3, <2>4
<1>5. Is(O)
  <2>1. ASSUME NEW i \in 0..N
        PROVE  O[i] = IF i = 0 THEN 0
                      ELSE O[i - 1] + values[i].size
                             + 2 * ((values[i].size + ChunkMax - 1) \div ChunkMax)
    <3>1. CASE i = 0  BY <1>3, <3>1
    <3>2. CASE i # 0
      <4>1. i \in 1..N /\ i - 1 \in 0..N  BY <3>2
      <4>2. O[i - 1] \in Nat  BY <1>3, <4>1
      <4>3. O[i] = O[i - 1] + SizeOf(values[i])  BY <1>3, <4>1
      <4> QED  BY <1>4, <3>2, <4>1, <4>2, <4>3
    <3> QED  BY <3>1, <3>2
  <2>2. O = [i \in 0..N |-> O[i]]  BY <1>3
  <2> QED  BY <2>1, <2>2
<1> DEFINE upto == CHOOSE f : Is(f)
<1>6. Is(upto)
  <2> HIDE DEF Is
  <2> QED  BY <1>5
<1>7. required_size = upto[N]  BY <1>1, Zenon DEF required_size
<1>8. \A i \in 0..N : upto[i] = IF i = 0 THEN 0
                                ELSE upto[i - 1] + values[i].size
                                       + 2 * ((values[i].size + ChunkMax - 1) \div ChunkMax)
  <2> HIDE DEF upto
  <2> QED  BY <1>6
<1> HIDE DEF upto, Is
<1> DEFINE G == {i \in 0..N : upto[i] = O[i]}
<1>9. 0 \in G  BY <1>3, <1>8
<1>10. ASSUME NEW i \in 1..N, i - 1 \in G  PROVE i \in G
  <2>1. i \in 0..N /\ i # 0 /\ i - 1 \in 0..N  OBVIOUS
  <2>2. upto[i - 1] = O[i - 1] /\ O[i - 1] \in Nat  BY <1>3, <1>10, <2>1
  <2>3. upto[i] = O[i - 1] + values[i].size
                    + 2 * ((values[i].size + ChunkMax - 1) \div ChunkMax)
    BY <1>8, <2>1, <2>2
  <2>4. upto[i] = O[i - 1] + SizeOf(values[i])  BY <1>4, <2>2, <2>3
  <2> QED  BY <1>3, <2>1, <2>4
<1>11. \A i \in 0..N : i \in G
  <2>1. \A i \in 1..N : i - 1 \in G => i \in G  BY <1>10
  <2> HIDE DEF G
  <2> QED  BY <1>9, <2>1, Upwards
<1>12. upto[N] = O[N]  BY <1>11
<1> QED  BY <1>1, <1>7, <1>12

\* The first j values have been parsed.
Parsed(O, j) ==
  /\ Laid(buffer, O) /\ j \in 0..Len(values) /\ at = O[j] + 1
  /\ parsed = [i \in 1..j |-> Given(i)]
  /\ step = "done" => j = Len(values)

\* What makes RoundTrip inductive: the values parsed so far are the first ones, and the
\* parser is where the last of them ends.
TlvInv ==
  /\ InTurn
  /\ step \in {"build", "parse", "done", "too long"}
  /\ step = "build" => parsed = <<>> /\ at = 1
  /\ step \in {"parse", "done"} => \E O, j : Parsed(O, j)

\* It holds at first, and every action of a message keeps it.
LEMMA TlvInvInit ==
  ASSUME TlvInit
  PROVE  TlvInv
<1>1. values = <<>> /\ parsed = <<>> /\ at = 1 /\ step = "build"  BY DEF TlvInit
<1>2. InTurn
  <2>1. values \in Seq(TlvValues) /\ Len(values) = 0  BY <1>1, EmptySeq
  <2> QED  BY <2>1 DEF InTurn
<1> QED  BY <1>1, <1>2 DEF TlvInv

LEMMA AddStep ==
  ASSUME TlvInv, NEW type \in TlvTypes, NEW size \in TlvSizes, pair_tlv_add_value(type, size)
  PROVE  TlvInv'
<1> DEFINE t == [type |-> type, size |-> size, number |-> Len(values) + 1]
           N == Len(values)
<1>1. /\ step = "build" /\ values' = Append(values, t) /\ parsed' = parsed /\ at' = at
      /\ step' = step /\ (values # <<>> => values[N].type # type)
  BY DEF pair_tlv_add_value, Last
<1>2. InTurn /\ parsed = <<>> /\ at = 1  BY <1>1 DEF TlvInv
<1>3. values \in Seq(TlvValues) /\ N \in Nat /\ (N # 0 => values # <<>>)
  <2>1. values \in Seq(TlvValues)  BY <1>2 DEF InTurn
  <2> QED  BY <2>1, LenProperties, EmptySeq
<1>4. t \in TlvValues /\ t.type = type /\ t.number = N + 1
  BY <1>3, TlvAssumption DEF TlvAssumption, TlvValues
<1> HIDE DEF t
<1>5. /\ values' \in Seq(TlvValues) /\ Len(values') = N + 1
      /\ \A i \in 1..N : values'[i] = values[i]
      /\ values'[N + 1] = t
  BY <1>1, <1>3, <1>4, AppendProperties
<1>6. \A i \in 1..(N + 1) : i \in 1..N \/ i = N + 1  BY <1>3
<1>7. \A i \in 1..N : values[i].number = i  BY <1>2 DEF InTurn
<1>8. ASSUME NEW i \in 1..(N + 1), NEW j \in 1..(N + 1), j = i + 1
      PROVE  values'[i].type # values'[j].type
  <2>1. i \in 1..N  BY <1>3, <1>8
  <2>2. CASE j \in 1..N
    <3>1. values[i].type # values[j].type  BY <1>2, <1>8, <2>1, <2>2 DEF InTurn
    <3> QED  BY <1>5, <2>1, <2>2, <3>1
  <2>3. CASE j = N + 1
    <3>1. i = N /\ N # 0  BY <1>3, <1>8, <2>3
    <3>2. values[N].type # type  BY <1>1, <1>3, <3>1
    <3> QED  BY <1>4, <1>5, <2>1, <2>3, <3>1, <3>2
  <2> QED  BY <1>6, <2>2, <2>3
<1>9. InTurn'
  <2>1. \A i \in 1..(N + 1) : values'[i].number = i  BY <1>4, <1>5, <1>6, <1>7
  <2> QED  BY <1>5, <1>8, <2>1 DEF InTurn
<1> QED  BY <1>1, <1>2, <1>9 DEF TlvInv

LEMMA FormatStep ==
  ASSUME TlvInv, pair_tlv_format
  PROVE  TlvInv'
<1>1. step = "build" /\ values' = values /\ parsed' = parsed /\ at' = at
  BY DEF pair_tlv_format
<1>2. InTurn /\ parsed = <<>> /\ at = 1  BY <1>1 DEF TlvInv
<1>3. InTurn'  BY <1>1, <1>2 DEF InTurn
<1>4. CASE BufSize < required_size
  <2>1. step' = "too long"  BY <1>4 DEF pair_tlv_format
  <2> QED  BY <1>3, <2>1 DEF TlvInv
<1>5. CASE ~(BufSize < required_size)
  <2>1. step' = "parse" /\ buffer' = FlattenSeq(Texts)
    BY <1>5 DEF pair_tlv_format, Texts
  <2>2. PICK O : Laid(FlattenSeq(Texts), O)  BY <1>2, LaidOut
  <2>3. Laid(buffer, O)'  BY <1>1, <2>1, <2>2 DEF Laid, Texts
  <2>4. 0 \in 0..Len(values') /\ O[0] = 0
    <3>1. Len(values) \in Nat  BY <1>2, TextsIs
    <3>2. O[0] = 0  BY <2>2 DEF Laid, Begins
    <3> QED  BY <1>1, <3>1, <3>2
  <2>5. parsed' = [i \in 1..0 |-> Given(i)']
    <3>1. [i \in 1..0 |-> Given(i)'] = <<>>  OBVIOUS
    <3> QED  BY <1>1, <1>2, <3>1
  <2>6. Parsed(O, 0)'
    <3>1. at' = O[0] + 1  BY <1>1, <1>2, <2>4
    <3> QED  BY <2>1, <2>3, <2>4, <2>5, <3>1 DEF Parsed
  <2> QED  BY <1>3, <2>1, <2>6 DEF TlvInv
<1> QED  BY <1>4, <1>5

LEMMA ParseStep ==
  ASSUME TlvInv, pair_tlv_parse
  PROVE  TlvInv'
<1>1. step = "parse" /\ values' = values /\ buffer' = buffer  BY DEF pair_tlv_parse
<1>2. InTurn  BY DEF TlvInv
<1>3. PICK O, j : Parsed(O, j)  BY <1>1 DEF TlvInv
<1>4. PICK N \in Nat : N = Len(values)  BY <1>2, TextsIs
<1>5. j \in 0..N /\ at = O[j] + 1 /\ parsed = [i \in 1..j |-> Given(i)] /\ Laid(buffer, O)
  BY <1>3, <1>4 DEF Parsed
<1>6. InTurn' /\ Laid(buffer, O)'  BY <1>1, <1>2, <1>5 DEF InTurn, Laid, Texts
<1>7. \A i : Given(i)' = Given(i)  BY <1>1 DEF Given
<1>8. CASE at > Len(buffer)
  <2>1. step' = "done" /\ parsed' = parsed /\ at' = at  BY <1>8 DEF pair_tlv_parse
  <2>2. j = N
    <3> SUFFICES ASSUME j # N  PROVE FALSE
      OBVIOUS
    <3>1. PICK i \in 1..N : i = j + 1 /\ i - 1 = j  BY <1>4, <1>5
    <3>2. O[i - 1] + 1 <= Len(buffer)  BY <1>2, <1>4, <1>5, <3>1, NextItem
    <3>3. O[i - 1] \in Nat /\ Len(buffer) \in Nat  BY <1>2, <1>4, <1>5, <3>1, LaidIs
    <3> QED  BY <1>5, <1>8, <3>1, <3>2, <3>3
  <2>3. Parsed(O, j)'
    <3>1. parsed' = [i \in 1..j |-> Given(i)']  BY <1>5, <1>7, <2>1, Zenon
    <3> QED  BY <1>1, <1>4, <1>5, <1>6, <2>1, <2>2, <3>1 DEF Parsed
  <2> QED  BY <1>6, <2>1, <2>3 DEF TlvInv
<1>9. CASE ~(at > Len(buffer))
  <2>1. /\ at' = Item(at).end /\ step' = step
        /\ parsed' = Append(parsed, [type |-> buffer[at], data |-> Item(at).data])
    BY <1>9 DEF pair_tlv_parse
  <2>2. j # N
    <3> SUFFICES ASSUME j = N  PROVE FALSE
      OBVIOUS
    <3>1. Len(buffer) = O[N]  BY <1>4, <1>5 DEF Laid
    <3>2. O[N] \in Nat
      <4>1. Len(Texts) = N  BY <1>2, <1>4, TextsIs
      <4>2. O \in [0..N -> Nat]  BY <1>5, <4>1 DEF Laid, Begins
      <4> QED  BY <4>2
    <3> QED  BY <1>5, <1>9, <3>1, <3>2
  <2>3. PICK i \in 1..N : i = j + 1 /\ i - 1 = j  BY <1>4, <1>5, <2>2
  <2>4. /\ buffer[at] = values[i].type
        /\ Item(at) = [end |-> O[i] + 1, data |-> Given(i).data]
    BY <1>2, <1>4, <1>5, <2>3, NextItem
  <2>5. at' = O[i] + 1 /\ [type |-> buffer[at], data |-> Item(at).data] = Given(i)
    <3>1. Item(at).end = O[i] + 1 /\ Item(at).data = Given(i).data  BY <2>4
    <3>2. Given(i) = [type |-> values[i].type, data |-> Given(i).data]  BY DEF Given
    <3> QED  BY <2>1, <2>4, <3>1, <3>2
  <2>6. parsed' = [k \in 1..i |-> Given(k)']
    <3>1. parsed' = Append([k \in 1..j |-> Given(k)], Given(i))  BY <1>5, <2>1, <2>5
    <3>2. Append([k \in 1..j |-> Given(k)], Given(j + 1)) = [k \in 1..(j + 1) |-> Given(k)]
      <4>1. j \in Nat  BY <1>4, <1>5
      <4> QED  BY <4>1
    <3>3. [k \in 1..i |-> Given(k)'] = [k \in 1..i |-> Given(k)]  BY <1>7, Zenon
    <3> QED  BY <2>3, <3>1, <3>2, <3>3
  <2>7. Parsed(O, i)'
    <3>1. i \in 0..N  BY <1>4
    <3> QED  BY <1>1, <1>4, <1>6, <2>1, <2>5, <2>6, <3>1 DEF Parsed
  <2> QED  BY <1>1, <1>6, <2>1, <2>7 DEF TlvInv
<1> QED  BY <1>8, <1>9

\* Every step keeps it.
LEMMA TlvInvStep ==
  ASSUME TlvInv, TlvNext \/ UNCHANGED tlvvars
  PROVE  TlvInv'
<1>1. CASE TlvNext
  BY <1>1, AddStep, FormatStep, ParseStep DEF TlvNext
<1>2. CASE UNCHANGED tlvvars
  <2>1. /\ values' = values /\ buffer' = buffer /\ parsed' = parsed
        /\ at' = at /\ step' = step
    BY <1>2 DEF tlvvars
  <2>2. InTurn'  BY <2>1, Zenon DEF TlvInv, InTurn
  <2>3. ASSUME NEW O, NEW j, Parsed(O, j)  PROVE Parsed(O, j)'
    <3>1. Laid(buffer, O)'  BY <2>1, <2>3, Zenon DEF Parsed, Laid, Begins, Texts
    <3>2. [i \in 1..j |-> Given(i)'] = [i \in 1..j |-> Given(i)]  BY <2>1 DEF Given
    <3> QED  BY <2>1, <2>3, <3>1, <3>2, Zenon DEF Parsed
  <2> QED  BY <2>1, <2>2, <2>3, Zenon DEF TlvInv
<1> QED  BY <1>1, <1>2

\* It says that parsing gives back what was formatted.
LEMMA TlvInvTrip ==
  ASSUME TlvInv
  PROVE  RoundTrip
<1>1. InTurn  BY DEF TlvInv
<1>2. ASSUME step = "parse"  PROVE Len(buffer) = required_size
  <2>1. PICK O : Laid(buffer, O)  BY <1>2 DEF TlvInv, Parsed
  <2> QED  BY <1>1, <2>1, RequiredIs DEF Laid
<1>3. ASSUME step = "done"  PROVE parsed = [i \in 1..Len(values) |-> Given(i)]
  BY <1>3 DEF TlvInv, Parsed
<1> QED  BY <1>2, <1>3 DEF RoundTrip, Given

\* Every message arrives whole, whatever the sizes of its values, of a chunk and of a block,
\* and wherever TCP cuts the stream (pair_tlv_format, pair_tlv_parse, encrypt, decrypt,
\* read_encrypted).  It is assumed that no read of the socket returns one single byte when
\* the buffer is empty: read_encrypted refuses that.
THEOREM MessagesWhole == ~SingleBytes => (MessagesSpec => []MessagesArriveWhole)
<1> SUFFICES ASSUME ~SingleBytes  PROVE MessagesSpec => []MessagesArriveWhole
  OBVIOUS
<1>1. MessagesInit => ChannelInv /\ TlvInv
  BY ChannelInvInit, TlvInvInit DEF MessagesInit
<1>2. (ChannelInv /\ TlvInv) /\ [MessagesNext]_<<chvars, tlvvars>> => (ChannelInv /\ TlvInv)'
  BY ChannelInvStep, TlvInvStep DEF MessagesNext
<1>3. ChannelInv /\ TlvInv => MessagesArriveWhole
  BY ChannelInvWhole, TlvInvTrip DEF MessagesArriveWhole
<1> QED  BY <1>1, <1>2, <1>3, PTL DEF MessagesSpec
=============================================================================
