----------------------------- MODULE RtpTiming ------------------------------
(***************************************************************************)
(* Timing in classic AirPlay (src/src/rtp.c): the exchange of timing       *)
(* requests and replies that estimates how far the client's clock is from  *)
(* ours, the sync packets that tie a frame to a time of the client's clock *)
(* (the anchor), and the conversions the player makes with both.           *)
(*                                                                         *)
(* Threads: rtp_timing_sender, rtp_timing_receiver, rtp_control_receiver,  *)
(* and the player, which starts and cancels them.  The network delays,     *)
(* loses and reorders.  Clocks run at the same rate, Offset apart, so that *)
(* the error of an estimate is known; Unit is the time of one tick, which  *)
(* is also the time of one frame, in the units of the code's integers.     *)
(* remote_frame_rate and the drift (gradient), which are statistics in     *)
(* floating point, are left out.  The read of the RTSP connection has no   *)
(* timeout, so rtsp_link_is_idle stays 0.                                  *)
(***************************************************************************)
EXTENDS Integers, Sequences, SequencesExt

CONSTANTS
  Unit, Offset,
  PingGap,         \* ticks between timing requests (0.3 s)
  MaxReturn,       \* ticks within which a reply must be back (0.2 s)
  MaxDelay,        \* ticks a datagram may spend in the network
  History,         \* time_ping_history
  HistoryShift,    \* time_ping_history_power_of_two
  AgeNum, AgeDen,  \* dispersion_factor / 100
  Settling, SampleMinimum,   \* settling_time / 3, sample_point_minimum
  TsMod,           \* timestamps are numbers modulo TsMod (2^32)
  FirstFrame,      \* the client's timestamp at tick 0
  SourceLatency, FixedLatencyOffset, MinimumLatency, MaximumLatency,
  UserSuppliedLatency, AirPlayVersion,
  MaxFrames,       \* the largest latency accepted
  BackendOffset,   \* audio_backend_latency_offset in frames
  MaxNow, MaxPings, MaxStreams

ASSUME RtpTimingAssumption ==
  /\ Unit \in Nat \ {0} /\ Offset \in Int \ {0} /\ History \in Nat \ {0}
  /\ {PingGap, MaxReturn, MaxDelay, HistoryShift, AgeNum, Settling, SampleMinimum,
      FirstFrame, SourceLatency, FixedLatencyOffset, MinimumLatency, MaximumLatency,
      UserSuppliedLatency, AirPlayVersion, MaxFrames, MaxNow, MaxPings, MaxStreams} \subseteq Nat
  /\ AgeDen \in Nat \ {0} /\ TsMod \in Nat \ {0} /\ BackendOffset \in Int

VARIABLES
  now,              \* the local clock, in ticks
  streams,          \* player threads started on this connection so far
  playing,          \* is one running, and with it the receivers?
  ports_up,         \* rtp_running: the sockets are open and the addresses known
  next_ping,        \* when the sender's usleep ends
  pings_sent,
  departure_time,
  network,          \* timing requests and replies on their way
  time_pings,       \* the history, most recent first
  sequence_number,
  difference,       \* local_to_remote_time_difference, 0 before the first reply
  latency,
  anchor_time, anchor_rtptime,
  anchor_remote_info_is_valid,
  anchor_stream,    \* history: the stream whose sync packet set the anchor
  crossed           \* history: a reply arrived after a later request had left

clock   == <<next_ping, pings_sent, departure_time, network, time_pings,
             sequence_number, difference, crossed>>
anchor  == <<latency, anchor_time, anchor_rtptime, anchor_remote_info_is_valid,
             anchor_stream>>
stream  == <<streams, playing, ports_up>>
tvars   == <<now, clock, anchor, stream>>

LocalTime(t)  == t * Unit
RemoteTime(t) == t * Unit + Offset

\* The signed difference of two timestamps, an int32_t in the code.
Signed(a, b) ==
  LET d == (a - b) % TsMod IN IF 2 * d >= TsMod THEN d - TsMod ELSE d

\* Division as C does it, towards zero.
Quotient(a, b) == IF a >= 0 THEN a \div b ELSE -((-a) \div b)
-----------------------------------------------------------------------------
(* The session. *)

TimingInit ==
  /\ now = 0 /\ streams = 0 /\ playing = FALSE /\ ports_up = FALSE
  /\ next_ping = 0 /\ pings_sent = 0 /\ departure_time = 0 /\ network = {}
  /\ time_pings = <<>> /\ sequence_number = 0 /\ difference = 0 /\ crossed = FALSE
  /\ latency = 0 /\ anchor_time = 0 /\ anchor_rtptime = 0
  /\ anchor_remote_info_is_valid = FALSE /\ anchor_stream = 0

\* SETUP: nothing happens when the stream is already set up.
rtp_setup ==
  /\ ~ports_up /\ ~playing /\ streams < MaxStreams
  /\ ports_up' = TRUE /\ anchor_rtptime' = 0
  /\ UNCHANGED <<now, clock, latency, anchor_time, anchor_remote_info_is_valid,
                 anchor_stream, streams, playing>>

\* The player thread starts the receivers; the timing receiver starts the sender.
\* network is emptied because the sockets are new.
start_receivers ==
  /\ ports_up /\ ~playing
  /\ playing' = TRUE /\ streams' = streams + 1
  /\ anchor_rtptime' = 0                     \* rtp_control_receiver
  /\ time_pings' = <<>>                      \* time_ping_count = 0
  /\ sequence_number' = 0 /\ next_ping' = now /\ network' = {} /\ crossed' = FALSE
  /\ UNCHANGED <<now, pings_sent, departure_time, difference, latency, anchor_time,
                 anchor_remote_info_is_valid, anchor_stream, ports_up>>

\* The player thread's cleanup: the receivers are cancelled and joined, and the
\* timing receiver's own cleanup cancels the sender.
cancel_receivers ==
  /\ playing /\ playing' = FALSE /\ ports_up' = FALSE
  /\ UNCHANGED <<now, clock, anchor, streams>>
-----------------------------------------------------------------------------
(* The clock exchange. *)

\* rtp_timing_sender: departure_time is overwritten whether or not the last request
\* has been answered.  The datagram may be lost.
rtp_timing_sender ==
  /\ playing /\ now >= next_ping /\ pings_sent < MaxPings
  /\ departure_time' = LocalTime(now) /\ next_ping' = now + PingGap
  /\ pings_sent' = pings_sent + 1
  /\ \/ network' = network \cup {[kind |-> "request", sent |-> now, at |-> now]}
     \/ network' = network
  /\ UNCHANGED <<now, time_pings, sequence_number, difference, crossed, anchor, stream>>

\* The client stamps the request when it comes and the reply when it leaves.
ClientReplies ==
  \E m \in network :
    /\ m.kind = "request"
    /\ \/ \E r \in {r \in (now - 1)..now : r >= m.at} :
            network' = (network \ {m}) \cup
              {[kind |-> "reply", sent |-> m.sent, at |-> now, received |-> r]}
       \/ network' = network \ {m}
    /\ UNCHANGED <<now, next_ping, pings_sent, departure_time, time_pings,
                   sequence_number, difference, crossed, anchor, stream>>

\* Every shift of the history makes its dispersions grow.
Aged(p) == [p EXCEPT !.dispersion = (@ * AgeNum) \div AgeDen]

Remembered(p, h) ==
  LET shifted == <<p>> \o [i \in 1..Len(h) |-> Aged(h[i])]
  IN  SubSeq(shifted, 1, IF Len(shifted) > History THEN History ELSE Len(shifted))

\* The most recent of the pings with the least dispersion.
Chosen(h) ==
  CHOOSE i \in DOMAIN h :
    /\ \A j \in DOMAIN h : h[i].dispersion <= h[j].dispersion
    /\ \A j \in 1..(i - 1) : h[j].dispersion > h[i].dispersion

Samples(h) == SelectSeq(h, LAMBDA p : p.chosen /\ p.sequence_number > Settling)

\* The mean of a field of the samples, each shifted down before they are added.
Mean(h, field) ==
  LET total == FoldLeft(LAMBDA acc, p : acc + (p[field] \div 2^HistoryShift), 0, h)
  IN  (total \div Len(h)) * 2^HistoryShift

\* With enough samples past the settling time the means replace the chosen ping.
Estimate(h, chosen) ==
  IF Len(Samples(h)) > SampleMinimum
  THEN Mean(Samples(h), "remote_time") - Mean(Samples(h), "local_time")
  ELSE h[chosen].remote_time - h[chosen].local_time

Ping(m, return_time) ==
  [local_time |-> LocalTime(now), remote_time |-> RemoteTime(m.at) + return_time \div 2,
   sequence_number |-> sequence_number, chosen |-> FALSE, dispersion |-> return_time]

\* The reply is timed against departure_time, whichever request that belongs to.
rtp_timing_receiver ==
  \E m \in network :
    LET return_time == LocalTime(now) - departure_time
        processing  == RemoteTime(m.at) - RemoteTime(m.received)
        net         == IF processing < return_time THEN return_time - processing
                       ELSE return_time
        h           == Remembered(Ping(m, net), time_pings)
        chosen      == Chosen(h)
        used        == [h EXCEPT ![chosen].chosen = TRUE]
    IN  /\ playing /\ m.kind = "reply"
        /\ network' = network \ {m}
        /\ crossed' = (crossed \/ departure_time # LocalTime(m.sent))
        /\ \/ /\ return_time < LocalTime(MaxReturn)
              /\ time_pings' = used /\ sequence_number' = sequence_number + 1
              /\ difference' = Estimate(used, chosen)
           \/ /\ return_time >= LocalTime(MaxReturn)
              /\ UNCHANGED <<time_pings, sequence_number, difference>>
        /\ UNCHANGED <<now, next_ping, pings_sent, departure_time, anchor, stream>>
-----------------------------------------------------------------------------
(* Sync packets. *)

Clamped(la) ==
  LET below == IF MaximumLatency # 0 /\ MaximumLatency < la THEN MaximumLatency ELSE la
  IN  IF MinimumLatency # 0 /\ MinimumLatency > below THEN MinimumLatency ELSE below

\* An out-of-range latency leaves the old one; an out-of-range offset of the backend
\* leaves the latency without the offset.
NewLatency(old, la) ==
  IF UserSuppliedLatency # 0 THEN UserSuppliedLatency
  ELSE IF la > MaxFrames THEN old
  ELSE IF la + BackendOffset < 0 \/ la + BackendOffset > MaxFrames THEN la
       ELSE la + BackendOffset

\* iTunes sets the flags to 7; some versions of AirPlay want the offset too.
NeedsFixedOffset(flags) ==
  flags = 7 \/ AirPlayVersion \in 1..353 \/ AirPlayVersion >= 371

\* Mutant: the anchor is moved by the latency of the last packet.
WithoutLatencyOld(rtp, lat) == (rtp - latency) % TsMod

\* The frame to be played at the time the packet names.
WithoutLatency(rtp, lat) == (rtp - lat) % TsMod

\* A sync packet that left the client at tick t: frame rtp is what a device without
\* latency would play at that time.
rtp_control_receiver ==
  \E t \in 0..now, flags \in {4, 7} :
    LET rtp == (FirstFrame + t) % TsMod
        la  == SourceLatency + (IF NeedsFixedOffset(flags) THEN FixedLatencyOffset ELSE 0)
        lat == NewLatency(latency, Clamped(la % TsMod))
    IN  /\ playing /\ now - t <= MaxDelay
        /\ difference # 0               \* a time packet must be interchanged first
        /\ latency' = lat
        /\ anchor_time' = RemoteTime(t)
        /\ anchor_rtptime' = WithoutLatency(rtp, lat)
        /\ anchor_remote_info_is_valid' = TRUE
        /\ anchor_stream' = streams
        /\ UNCHANGED <<now, clock, stream>>
-----------------------------------------------------------------------------
(* What the player computes with the anchor. *)

frame_to_ntp_local_time(f) ==
  anchor_time + Signed(f, anchor_rtptime) * Unit - difference

local_ntp_time_to_frame(t) ==
  (anchor_rtptime + Quotient(t + difference - anchor_time, Unit)) % TsMod

Tick ==
  /\ now < MaxNow /\ now' = now + 1
  /\ \A m \in network : now - m.at < MaxDelay
  /\ playing /\ pings_sent < MaxPings => now < next_ping
  /\ UNCHANGED <<clock, anchor, stream>>

TimingNext ==
  \/ rtp_setup \/ start_receivers \/ cancel_receivers
  \/ rtp_timing_sender \/ ClientReplies \/ rtp_timing_receiver
  \/ rtp_control_receiver \/ Tick

TimingSpec == TimingInit /\ [][TimingNext]_tvars
-----------------------------------------------------------------------------
Abs(n) == IF n < 0 THEN -n ELSE n

\* Half the longest return that is accepted, and the rounding of the means.
MaxError == LocalTime(MaxReturn - 1) \div 2 + 2 * History * 2^HistoryShift

\* The types of the timing state; the anchor is a timestamp, and the latency in range or
\* the user's own, which rtp_control_receiver does not check.
TimingTypeOK ==
  /\ now \in 0..MaxNow /\ streams \in 0..MaxStreams /\ playing \in BOOLEAN
  /\ anchor_rtptime \in 0..(TsMod - 1)
  /\ latency \in 0..MaxFrames \cup {UserSuppliedLatency}
  /\ Len(time_pings) <= History /\ anchor_stream \in 0..streams

\* As long as no reply comes in after a later request has left, the estimate of the
\* client's clock is off by no more than half the longest return accepted, whatever
\* was lost or delayed.  departure_time is shared by all requests: its comment in
\* player.h says "dangerous -- this assumes that there will never be two timing
\* request in flight at the same time".
DifferenceIsClose ==
  time_pings # <<>> /\ ~crossed => Abs(difference - Offset) <= MaxError

\* With an anchor of this stream, the frame the client plays at a time is given that
\* time on the local clock, to the same accuracy, even when timestamps wrap: the
\* latency, the anchor's two halves and the difference of the clocks fit together.
FramesAreOnTime ==
  playing /\ anchor_remote_info_is_valid /\ anchor_stream = streams
    /\ time_pings # <<>> /\ ~crossed =>
    \A t \in 0..MaxNow :
      LET f == (FirstFrame + t - latency) % TsMod
      IN  Abs(frame_to_ntp_local_time(f) - LocalTime(t)) <= MaxError

\* The two conversions are inverse to each other across the wrap of timestamps:
\* buffer_get_frame uses one to find the frame due now and the other to find when it
\* is due.
ConversionsAgree ==
  anchor_remote_info_is_valid =>
    \A t \in 0..MaxNow :
      LET f == (FirstFrame + t) % TsMod
      IN  local_ntp_time_to_frame(frame_to_ntp_local_time(f)) = f

\* The whole chain is exact: the difference of the clocks, the anchor and the conversions
\* (rtp_timing_receiver, rtp_control_receiver, frame_to_ntp_local_time).
FramesPlayOnTime == TimingTypeOK /\ DifferenceIsClose /\ FramesAreOnTime /\ ConversionsAgree
=============================================================================
