---------------------------- MODULE PlayerBuffer ----------------------------
(***************************************************************************)
(* The packet buffer of one playing connection (src/src/player.c): a ring  *)
(* of BUFFER_FRAMES slots indexed by a 16-bit sequence number.             *)
(*                                                                         *)
(* Threads that meet here:                                                 *)
(*   - the receivers (rtp_audio_receiver and rtp_control_receiver), which  *)
(*     both call player_put_packet;                                        *)
(*   - the player thread, which calls buffer_get_frame;                    *)
(*   - the RTSP thread, which calls do_flush.                              *)
(*                                                                         *)
(* ab_mutex is not a variable: a critical section without a release inside *)
(* is one action, and the player holds ab_mutex exactly while pc is        *)
(* "flush" or "frame".  Time is counted in audio frames: `now' is the      *)
(* frame that should be leaving the loudspeaker.                           *)
(***************************************************************************)
EXTENDS Integers, FiniteSets

CONSTANTS
  Receivers,       \* threads that call player_put_packet
  SeqMod,          \* number of sequence numbers (2^16 in the code)
  BufferFrames,    \* BUFFER_FRAMES, the number of slots
  TsMod,           \* number of RTP timestamps (2^32 in the code)
  NumPackets,      \* packets the source sends
  FirstSeq,        \* sequence number of the first of them
  PacketLength,    \* frames in a packet
  BadPackets,      \* may the decoder reject a packet?
  Latency,         \* frames between the sending and the playing of a packet
  LeadTime,        \* desired_lead_time
  BufferDesired,   \* config.audio_backend_buffer_desired_length
  CrazyInterval,   \* interval after which a frame is released regardless
  MinimumWait,     \* config.resend_control_first_check_time
  RepeatInterval,  \* config.resend_control_check_interval_time
  LastCheck,       \* config.resend_control_last_check_time
  MaxAhead,        \* packets the source may be ahead of the player
  MaxLate,         \* packets a late one may be behind the player
  StartTime, MaxTime,                  \* bounds of the clock
  MaxArrivals, MaxFlushes, MaxToggles  \* bounds of the environment

ASSUME PlayerBufferAssumption ==
  /\ BufferFrames \in Nat \ {0} /\ SeqMod \in Nat \ 0 .. 1 /\ TsMod \in Nat \ {0}
  /\ SeqMod % BufferFrames = 0   \* "needs to be a power of 2"
  /\ FirstSeq \in 0 .. SeqMod - 1 /\ NumPackets \in Nat \ {0}
  /\ PacketLength \in Nat \ {0} /\ PacketLength <= TsMod
  /\ MaxAhead \in Nat /\ MaxLate \in Nat /\ BadPackets \in BOOLEAN
  /\ Latency \in Nat /\ StartTime \in Nat /\ MaxTime \in Nat
  /\ RepeatInterval > 0 /\ StartTime > Latency /\ MaxTime >= StartTime
  /\ MaxArrivals \in Nat /\ MaxFlushes \in Nat /\ MaxToggles \in Nat

VARIABLES
  slots,           \* conn->audio_buffer
  ab_read, ab_write, ab_synced, ab_buffering, first_packet_timestamp,
  flush_requested, flush_rtp_timestamp, flush_output_flushed,
  packet_seen,     \* conn->packet_count # 0
  connection_state_to_output,
  requested_state, \* requested_connection_state_to_output
  first_possibly_missing_frame,
  timing,          \* have_timestamp_timing_information(conn)
  rx,              \* where each receiver is in player_put_packet
  pc,              \* the player thread
  playing,         \* the slot buffer_get_frame returned, read without the lock
  now,             \* the clock, in frames
  last_given,      \* history: timestamp last given since the last resync
  arrivals, flushes, toggles

input  == <<slots, ab_read, ab_write, ab_synced, ab_buffering,
            first_packet_timestamp, first_possibly_missing_frame>>
flush  == <<flush_requested, flush_rtp_timestamp, flush_output_flushed>>
output == <<connection_state_to_output, timing, requested_state>>
player == <<pc, playing, last_given>>
env    == <<now, arrivals, flushes, toggles>>
vars   == <<input, flush, output, player, env, rx, packet_seen>>

Seqs    == 0 .. SeqMod - 1
Stamps  == 0 .. TsMod - 1
Packets == 0 .. NumPackets - 1

-----------------------------------------------------------------------------
(* Arithmetic on sequence numbers and timestamps. *)

BUFIDX(s)  == s % BufferFrames
Plus(s, k) == (s + k) % SeqMod
Dist(a, b) == (b - a) % SeqMod                  \* steps from a forward to b
is_after(a, b) == Dist(a, b) \in 1 .. (SeqMod \div 2) - 1

\* a - b as the signed 32-bit difference of two unsigned timestamps
SignedDiff(a, b) == LET d == (a - b) % TsMod
                    IN  IF 2 * d >= TsMod THEN d - TsMod ELSE d

SeqOf(p) == (FirstSeq + p) % SeqMod
\* Packet p is sent at StartTime + p * PacketLength, to be played Latency later.
TsOf(p)  == (StartTime + Latency + p * PacketLength) % TsMod

\* How long until the frame with timestamp t is due (frame_to_local_time).
TimeUntil(t) == SignedDiff(t, now % TsMod)

Window == IF ab_synced
            THEN {Plus(ab_read, k) : k \in 0 .. Dist(ab_read, ab_write) - 1}
            ELSE {}
LastFrame(slot) == (slot.ts + slot.len - 1) % TsMod

\* The occupancy test of buffer_get_frame.  C promotes both 16-bit numbers to
\* int, so the difference is negative once ab_write has wrapped and ab_read not.
BufferNotEmpty == ab_synced /\ ab_write - ab_read > 0

Least(S) == CHOOSE k \in S : \A j \in S : k <= j

-----------------------------------------------------------------------------
(* player_put_packet: where a packet goes. *)

BlankSlot == [ready |-> FALSE, seq |-> 0, ts |-> 0, len |-> 0,
              init |-> 0, asked |-> 0]

\* A frame noticed to be missing, or received and rejected by the decoder.
MissingSlot(slot)   == [slot EXCEPT !.ready = FALSE, !.seq = 0, !.ts = 0,
                                    !.init = now, !.asked = 0]
GoodSlot(seq, ts)   == [ready |-> TRUE, seq |-> seq, ts |-> ts,
                        len |-> PacketLength, init |-> now, asked |-> 0]

\* Mutant: a packet that comes too late is stored all the same.
WantedAlways(rd, wr, s) == TRUE

\* Is the packet stored?  Late ones are, if their turn is still to come.
Wanted(rd, wr, s)   == s = wr \/ is_after(wr, s) \/ is_after(rd, s)

\* Reading and write positions and the frames skipped, once the packet with
\* sequence number s is placed; keep says whether it is stored at all.
Placed(s) ==
  LET rd == IF ab_synced THEN ab_read ELSE s
      wr == IF ab_synced THEN ab_write ELSE s
      newer == is_after(wr, s)
  IN  [rd   |-> rd,
       wr   |-> IF s = wr \/ newer THEN Plus(s, 1) ELSE wr,
       gap  |-> IF newer THEN {Plus(wr, k) : k \in 0 .. Dist(wr, s) - 1} ELSE {},
       keep |-> Wanted(rd, wr, s)]

Stored(place, p, ok) ==
  LET skipped == {BUFIDX(s) : s \in place.gap}
      old == [i \in DOMAIN slots |->
                IF i \in skipped THEN MissingSlot(slots[i]) ELSE slots[i]]
      i == BUFIDX(SeqOf(p))
  IN  IF place.keep
        THEN [old EXCEPT ![i] = IF ok THEN GoodSlot(SeqOf(p), TsOf(p))
                                      ELSE MissingSlot(@)]
        ELSE old
-----------------------------------------------------------------------------
(* player_put_packet: the resend check, from x up to wr.  It stops at the   *)
(* end of the first run of frames worth asking for, because ab_mutex is     *)
(* released there while the request is sent.                                *)

Worth(slot) ==
  /\ ~slot.ready
  /\ slot.init - (now - Latency) >= LastCheck + BufferDesired  \* not too_late
  /\ now - slot.init >= MinimumWait                            \* not too_early
  /\ slot.asked = 0 \/ now - slot.asked >= RepeatInterval      \* not too soon

\* Mutant: one request is sent for all the runs together.
EndOfCheck(k, asked, slot, n) == asked # {} /\ k = n - 1

\* Is step k of a check of n the end of a run that holds the steps asked?
EndOfRun(k, asked, slot, n) ==
  (\E e \in asked : e <= k) /\ (slot.ready \/ k = n - 1)

Scan(sl, x, wr) ==
  LET Steps  == 0 .. Dist(x, wr) - 1
      At(k)  == sl[BUFIDX(x + k)]
      \* A slot met a second time was marked the first time, so it is too soon.
      Asked  == {k \in Steps : k < BufferFrames /\ Worth(At(k))}
      Stops  == {k \in Steps : EndOfRun(k, Asked, At(k), Dist(x, wr))}
      last   == IF Stops = {} THEN Dist(x, wr) - 1 ELSE Least(Stops)
      absent == {k \in 0 .. last : ~At(k).ready}
  IN  [send    |-> Stops # {},
       marked  |-> {Plus(x, k) : k \in {e \in Asked : e <= last}},
       start   |-> IF Stops = {} THEN 0 ELSE Plus(x, Least(Asked)),
       next    |-> Plus(x, last + 1),
       absent  |-> absent # {},
       first   |-> IF absent = {} THEN -1 ELSE Plus(x, Least(absent))]

Idle == [at |-> "idle", packet |-> 0, x |-> 0, absent |-> FALSE,
         start |-> 0, marked |-> {}]

\* Mutant: a resumed check forgets the frames it had found missing before.
NoneMissingNow(absent, scan) == ~scan.absent

\* No frame missing, neither now nor in the stretches before.
NoneMissing(absent, scan) == ~absent /\ ~scan.absent

\* One stretch of the check, made by receiver r on slots sl from x, with the
\* global hint fpm and the number of missing frames met before (absent or not).
CheckFrom(r, sl, x, wr, fpm, absent) ==
  LET scan == Scan(sl, x, wr)
      hint == IF fpm = -1 THEN scan.first ELSE fpm
      none == NoneMissing(absent, scan)
  IN  /\ slots' = [i \in DOMAIN sl |->
                     IF \E s \in scan.marked : BUFIDX(s) = i
                       THEN [sl[i] EXCEPT !.asked = now] ELSE sl[i]]
      /\ first_possibly_missing_frame' = IF none THEN wr ELSE hint
      /\ rx' = [rx EXCEPT ![r] =
                  IF scan.send
                    THEN [at |-> "sending", packet |-> 0, x |-> scan.next,
                          absent |-> ~none, start |-> scan.start,
                          marked |-> scan.marked]
                    ELSE Idle]

\* Where the check starts: at the hint if it lies in the buffer.
CheckStart(rd, wr) ==
  IF /\ first_possibly_missing_frame # -1
     /\ Dist(rd, wr) < SeqMod \div 2
     /\ Dist(rd, first_possibly_missing_frame) < Dist(rd, wr)
    THEN first_possibly_missing_frame ELSE rd

-----------------------------------------------------------------------------
(* The receivers.  The player holds ab_mutex while in "flush" or "frame".   *)

ABMutexFree == pc \notin {"flush", "frame"}

\* Packet p arrives, for the first time or again; others may never arrive.
Arriving(p) ==
  /\ pc # "init" /\ arrivals < MaxArrivals
  /\ now >= StartTime + p * PacketLength     \* it has been sent
  /\ ab_synced => Dist(ab_read, SeqOf(p)) <= MaxAhead \/ Dist(SeqOf(p), ab_read) <= MaxLate
  /\ \A r \in Receivers : rx[r].at = "put" => p - rx[r].packet \in -MaxAhead .. MaxAhead
  /\ arrivals' = arrivals + 1

\* Before the first packet, any request to flush is dropped; only flush_mutex
\* is held, so the rest of the call is a step of its own.
ClearEarlyFlush(r, p) ==
  /\ rx[r].at = "idle" /\ ~packet_seen /\ Arriving(p)
  /\ flush_requested' = FALSE /\ flush_rtp_timestamp' = 0
  /\ rx' = [rx EXCEPT ![r] = [Idle EXCEPT !.at = "put", !.packet = p]]
  /\ UNCHANGED <<input, output, player, packet_seen, flush_output_flushed,
                 now, flushes, toggles>>

player_put_packet(r, p, ok) ==
  /\ ABMutexFree
  /\ packet_seen' = TRUE
  /\ IF connection_state_to_output
       THEN LET place == Placed(SeqOf(p))
                sl    == Stored(place, p, ok)
            IN  /\ ab_read' = place.rd /\ ab_write' = place.wr
                /\ ab_synced' = TRUE
                /\ first_packet_timestamp' =
                     IF ab_synced THEN first_packet_timestamp ELSE 0
                /\ CheckFrom(r, sl, CheckStart(place.rd, place.wr), place.wr,
                             -1, FALSE)
                /\ UNCHANGED ab_buffering
       ELSE rx' = [rx EXCEPT ![r] = Idle] /\ UNCHANGED input
  /\ UNCHANGED <<flush, output, player, now, flushes, toggles>>

PutFirst(r, ok) ==
  /\ rx[r].at = "put" /\ player_put_packet(r, rx[r].packet, ok)
  /\ UNCHANGED arrivals

Put(r, p, ok) ==
  /\ rx[r].at = "idle" /\ packet_seen /\ Arriving(p)
  /\ player_put_packet(r, p, ok)

\* rtp_request_resend has returned: ab_mutex is taken again and the check goes
\* on from where it was, over a buffer that may have changed meanwhile.
ResumeCheck(r) ==
  /\ rx[r].at = "sending" /\ ABMutexFree
  /\ CheckFrom(r, slots, rx[r].x, ab_write, first_possibly_missing_frame,
               rx[r].absent)
  /\ UNCHANGED <<ab_read, ab_write, ab_synced, ab_buffering,
                 first_packet_timestamp, flush, output, player, env, packet_seen>>
-----------------------------------------------------------------------------
(* The RTSP thread and the environment. *)

\* The request asks to drop every frame before f; 0 asks to drop everything.
do_flush(f) ==
  /\ flushes < MaxFlushes /\ flushes' = flushes + 1
  /\ flush_requested' = TRUE /\ flush_rtp_timestamp' = f
  /\ UNCHANGED <<input, output, player, rx, packet_seen, flush_output_flushed,
                 now, arrivals, toggles>>

FlushPoints == {0} \cup {(TsOf(p) + o) % TsMod : p \in 0 .. NumPackets,
                                                o \in 0 .. PacketLength - 1}

TimingArrives ==
  /\ ~timing /\ timing' = TRUE
  /\ UNCHANGED <<input, flush, connection_state_to_output, requested_state,
                 player, env, rx, packet_seen>>

set_requested_connection_state_to_output ==
  /\ toggles < MaxToggles /\ toggles' = toggles + 1
  /\ requested_state' = ~requested_state
  /\ UNCHANGED <<input, flush, connection_state_to_output, timing, player, rx,
                 packet_seen, now, arrivals, flushes>>

\* A critical section takes no time worth counting.
Tick ==
  /\ ABMutexFree /\ now + PacketLength <= MaxTime /\ now' = now + PacketLength
  /\ UNCHANGED <<input, flush, output, player, rx, packet_seen, arrivals,
                 flushes, toggles>>

-----------------------------------------------------------------------------
(* The player thread: player_thread_func's initialisation, then             *)
(* buffer_get_frame, whose loop body is top, flush, frame.                  *)

player_thread_start ==
  /\ pc = "init" /\ pc' = "top"
  /\ ab_buffering' = TRUE /\ ab_synced' = FALSE /\ first_packet_timestamp' = 0
  /\ flush_requested' = FALSE /\ flush_rtp_timestamp' = 0
  /\ flush_output_flushed' = FALSE /\ packet_seen' = FALSE
  /\ connection_state_to_output' = requested_state
  /\ slots' = [i \in DOMAIN slots |-> BlankSlot]
  /\ UNCHANGED <<ab_read, ab_write, first_possibly_missing_frame, timing,
                 requested_state, playing, last_given, rx, env>>

\* Without timing information the loop only waits: no change, no action.
\* Turning the output off asks for everything to be flushed.
LoopTop ==
  /\ pc = "top" /\ timing /\ pc' = "flush"
  /\ connection_state_to_output' = requested_state
  /\ IF connection_state_to_output /\ ~requested_state
       THEN flush_requested' = TRUE /\ flush_rtp_timestamp' = 0
       ELSE UNCHANGED <<flush_requested, flush_rtp_timestamp>>
  /\ UNCHANGED <<input, flush_output_flushed, timing, requested_state,
                 playing, last_given, rx, packet_seen, env>>

First == slots[BUFIDX(ab_read)]
Last  == slots[BUFIDX(Plus(ab_write, -1))]

\* What the request, if there is one, calls for.
FlushVerdict ==
  LET f == flush_rtp_timestamp IN
  CASE f = 0 -> "all"
    [] f # 0 /\ ~BufferNotEmpty -> "forget"
    [] f # 0 /\ BufferNotEmpty ->
         IF ~First.ready \/ ~Last.ready THEN "keep"
         ELSE IF SignedDiff(f, First.ts) <= 0 THEN "expired"
         ELSE IF SignedDiff(LastFrame(Last), f) >= 0 THEN "part"
         ELSE IF f = (LastFrame(Last) + 1) % TsMod THEN "all"
         ELSE "all but keep"

\* Mutant: a packet that ends one frame before the flush point is kept.
FlushedTooFew(f) ==
  Least({k \in 0 .. Dist(ab_read, ab_write) - 1 :
           SignedDiff(f, LastFrame(slots[BUFIDX(ab_read + k)])) <= 1})

\* Packets passed over by a partial flush: up to the one that holds frame f.
\* A packet that is missing counts with the timestamp 0 it was given.
FlushedPackets(f) ==
  Least({k \in 0 .. Dist(ab_read, ab_write) - 1 :
           SignedDiff(f, LastFrame(slots[BUFIDX(ab_read + k)])) <= 0})

Trimmed(slot, f) == IF SignedDiff(f, slot.ts) > 0
                      THEN [slot EXCEPT !.ts = f,
                                        !.len = @ - SignedDiff(f, slot.ts)]
                      ELSE slot

ab_resync ==
  /\ slots' = [i \in DOMAIN slots |-> [slots[i] EXCEPT
                 !.ready = FALSE, !.seq = 0, !.init = 0, !.asked = 0]]
  /\ ab_synced' = FALSE /\ ab_buffering' = TRUE
  /\ first_packet_timestamp' = 0 /\ last_given' = -1
  /\ UNCHANGED ab_read

FlushPart(f) ==
  LET rd == Plus(ab_read, FlushedPackets(f))
  IN  /\ ab_read' = rd
      /\ slots' = [slots EXCEPT ![BUFIDX(rd)] = Trimmed(@, f)]
      /\ UNCHANGED <<ab_synced, ab_buffering, first_packet_timestamp, last_given>>

NoFlush == /\ pc = "flush" /\ ~flush_requested /\ pc' = "frame"
           /\ UNCHANGED <<input, flush, output, playing, last_given, rx,
                          packet_seen, env>>

HandleFlush ==
  /\ pc = "flush" /\ flush_requested /\ pc' = "frame"
  /\ CASE FlushVerdict \in {"all", "all but keep"} -> ab_resync
       [] FlushVerdict = "part" -> FlushPart(flush_rtp_timestamp)
       [] OTHER -> UNCHANGED <<slots, ab_read, ab_synced, ab_buffering,
                               first_packet_timestamp, last_given>>
  /\ IF FlushVerdict \in {"all", "part", "expired"}
       THEN /\ flush_requested' = FALSE /\ flush_rtp_timestamp' = 0
            /\ flush_output_flushed' = FALSE
       ELSE /\ flush_requested' = (FlushVerdict # "forget")
            /\ flush_output_flushed' = TRUE
            /\ UNCHANGED flush_rtp_timestamp
  /\ UNCHANGED <<ab_write, first_possibly_missing_frame, output, playing, rx,
                 packet_seen, env>>
-----------------------------------------------------------------------------
(* The rest of the loop: skip what is too late, then release a frame or wait. *)

\* Mutant: a missing packet is not passed over.
InDateOrMissing(slot, aim) == slot.ready => TimeUntil(slot.ts) >= aim

InDate(slot, aim) == slot.ready /\ TimeUntil(slot.ts) >= aim

\* Frames skipped: those out of date, and those not there when their turn comes.
Skipped ==
  LET aim == IF first_packet_timestamp = 0 THEN LeadTime ELSE 0
      n   == Dist(ab_read, ab_write)
  IN  IF BufferNotEmpty
        THEN Least({k \in 0 .. n : k = n \/ InDate(slots[BUFIDX(ab_read + k)], aim)})
        ELSE 0

\* Mutant: the sequence number of the packet in the slot is not looked at.
UnaliasedNever(rd) == rd

\* A full lap makes the slot at rd hold a newer packet: jump to it.
Unaliased(rd) ==
  LET slot == slots[BUFIDX(rd)]
  IN  IF rd # ab_write /\ slot.ready /\ BUFIDX(slot.seq) = BUFIDX(rd)
        THEN slot.seq ELSE rd

\* Does buffering go on, fpt being the first frame to play?  Not once that frame
\* is late; before, it depends on how much lead-in silence the output holds and
\* on whether the output can tell.
StillBuffering(fpt) == IF TimeUntil(fpt) < 0 THEN {FALSE} ELSE BOOLEAN

\* Must a ready frame still wait for its time?  Timestamp 0 never waits.
Early(slot) == LET until == SignedDiff(slot.ts - BufferDesired, now % TsMod)
               IN  slot.ready /\ slot.ts # 0 /\ until > 0 /\ until <= CrazyInterval

\* A frame that is not there is given as silence, which timestamp 0 marks.
Release(rd) ==
  /\ pc' = "out" /\ playing' = BUFIDX(rd) /\ ab_read' = Plus(rd, 1)
  /\ slots' = [slots EXCEPT ![BUFIDX(rd)].ready = FALSE,
                            ![BUFIDX(rd)].ts = IF slots[BUFIDX(rd)].ready
                                                 THEN @ ELSE 0]

GetFrame ==
  /\ pc = "frame"
  /\ LET rd1 == Plus(ab_read, Skipped)
         cur == slots[BUFIDX(rd1)]
         rd  == Unaliased(rd1)
         starting == ab_buffering /\ cur.ready
         fpt == IF starting /\ first_packet_timestamp = 0 THEN cur.ts
                                                          ELSE first_packet_timestamp
         empty == ~Early(cur) /\ rd = ab_write
     IN  \/ /\ ~ab_synced /\ pc' = "top"
            /\ UNCHANGED <<slots, ab_read, ab_buffering, first_packet_timestamp,
                           playing>>
         \/ /\ ab_synced
            /\ ab_buffering' \in IF starting THEN StillBuffering(fpt)
                                            ELSE {ab_buffering}
            /\ first_packet_timestamp' = IF empty THEN 0 ELSE fpt
            /\ IF ab_buffering' \/ Early(cur) \/ rd = ab_write
                 THEN pc' = "top" /\ ab_read' = rd /\ UNCHANGED <<slots, playing>>
                 ELSE Release(rd)
  /\ UNCHANGED <<ab_write, ab_synced, first_possibly_missing_frame, flush, output,
                 last_given, rx, packet_seen, env>>

\* player_thread_func plays the frame it was given, reading the slot without
\* the lock.
PlayFrame ==
  /\ pc = "out" /\ pc' = "top"
  /\ last_given' = IF slots[playing].ts = 0 THEN last_given ELSE slots[playing].ts
  /\ UNCHANGED <<input, flush, output, playing, rx, packet_seen, env>>
-----------------------------------------------------------------------------
Init ==
  /\ slots = [i \in 0 .. BufferFrames - 1 |-> BlankSlot]
  /\ ab_read = 0 /\ ab_write = 0 /\ ab_synced = FALSE /\ ab_buffering = FALSE
  /\ first_packet_timestamp = 0 /\ first_possibly_missing_frame = -1
  /\ flush_requested = FALSE /\ flush_rtp_timestamp = 0
  /\ flush_output_flushed = FALSE /\ packet_seen = FALSE
  /\ connection_state_to_output = FALSE /\ requested_state = TRUE
  /\ timing = FALSE /\ rx = [r \in Receivers |-> Idle]
  /\ pc = "init" /\ playing = 0 /\ last_given = -1
  /\ now = StartTime /\ arrivals = 0 /\ flushes = 0 /\ toggles = 0

buffer_get_frame == LoopTop \/ NoFlush \/ HandleFlush \/ GetFrame

Verdicts == IF BadPackets THEN BOOLEAN ELSE {TRUE}

Receiver(r) ==
  \/ \E p \in Packets : ClearEarlyFlush(r, p)
  \/ \E ok \in Verdicts : PutFirst(r, ok)
  \/ \E p \in Packets, ok \in Verdicts : Put(r, p, ok)
  \/ ResumeCheck(r)

Next ==
  \/ \E r \in Receivers : Receiver(r)
  \/ \E f \in FlushPoints : do_flush(f)
  \/ player_thread_start \/ buffer_get_frame \/ PlayFrame
  \/ TimingArrives \/ set_requested_connection_state_to_output \/ Tick

Spec == Init /\ [][Next]_vars

\* The player's wait is a timed one, sendto has a time limit, and the source
\* keeps sending the sync packets that carry the timing information.
Fairness ==
  /\ WF_vars(player_thread_start) /\ WF_vars(buffer_get_frame) /\ WF_vars(PlayFrame)
  /\ SF_vars(Tick) /\ WF_vars(TimingArrives)
  /\ \A r \in Receivers : WF_vars(ResumeCheck(r) \/ \E ok \in Verdicts : PutFirst(r, ok))

FairSpec == Spec /\ Fairness
-----------------------------------------------------------------------------
\* The length of a frame that is not there means nothing.
SlotType == [ready : BOOLEAN, seq : Seqs, ts : Stamps, len : Int,
             init : 0 .. MaxTime, asked : 0 .. MaxTime]

TypeOK ==
  /\ slots \in [0 .. BufferFrames - 1 -> SlotType]
  /\ \A i \in DOMAIN slots : slots[i].ready => slots[i].len \in 1 .. PacketLength
  /\ ab_read \in Seqs /\ ab_write \in Seqs
  /\ ab_synced \in BOOLEAN /\ ab_buffering \in BOOLEAN
  /\ first_packet_timestamp \in Stamps
  /\ first_possibly_missing_frame \in Seqs \cup {-1}
  /\ flush_requested \in BOOLEAN /\ flush_rtp_timestamp \in Stamps
  /\ flush_output_flushed \in BOOLEAN /\ packet_seen \in BOOLEAN
  /\ connection_state_to_output \in BOOLEAN /\ requested_state \in BOOLEAN
  /\ timing \in BOOLEAN
  /\ rx \in [Receivers -> [at : {"idle", "put", "sending"}, packet : Packets,
                           x : Seqs, absent : BOOLEAN, start : Seqs,
                           marked : SUBSET Seqs]]
  /\ pc \in {"init", "top", "flush", "frame", "out"}
  /\ playing \in 0 .. BufferFrames - 1
  /\ last_given \in Stamps \cup {-1}
  /\ now \in StartTime .. MaxTime
  /\ arrivals \in 0 .. MaxArrivals /\ flushes \in 0 .. MaxFlushes
  /\ toggles \in 0 .. MaxToggles

-----------------------------------------------------------------------------
(* Safety. *)

\* A slot inside the buffer that is ready holds the packet of its own sequence
\* number, never one left behind by a skip, a flush or a late arrival.
SlotHoldsItsPacket ==
  /\ TypeOK
  /\ Cardinality(Window) <= BufferFrames =>
       \A s \in Window : slots[BUFIDX(s)].ready => slots[BUFIDX(s)].seq = s

\* The hint that lets the resend check skip the head of the buffer never skips
\* a missing frame: whatever the two receivers and the player did in between,
\* every frame before it is there.
HintSkipsNothingMissing ==
  (ABMutexFree /\ first_possibly_missing_frame \in Window \cup {ab_write}) =>
    \A s \in Window :
      Dist(ab_read, s) < Dist(ab_read, first_possibly_missing_frame)
        => slots[BUFIDX(s)].ready

\* The frames noted as asked for are the frames of the request, which names only the first
\* of them and how many ("we are definitely going to take action"), and they are all still
\* to be played: for a request made when a packet arrives, and for one made by a check that
\* goes on from a position still in the buffer.  After a request a check goes on from where
\* it was (player.c:617); if the player has passed that position, it walks over frames
\* played long ago and its runs may have holes.  If a flush has emptied the buffer meanwhile
\* and a new one has grown over that position, it may note one part of a run and not the
\* other.  And the slot of a rejected packet (BadPackets) may lie in a run, too early to be
\* asked for: it is then neither counted nor the end of the run (player.c:588-616).
RequestsAreExact ==
  [][\A r \in Receivers :
       (/\ rx'[r].at = "sending" /\ rx'[r] # rx[r]
        /\ rx[r].at = "sending" => rx[r].x \in Window \cup {ab_write}) =>
          /\ rx'[r].marked =
               {Plus(rx'[r].start, k) : k \in 0 .. Cardinality(rx'[r].marked) - 1}
          /\ rx'[r].marked \subseteq Window']_vars

\* The player reads the frame it was given without the lock: no receiver may
\* write into that slot before the player is done with it.
PlayingSlotIsStable ==
  [][pc = "out" => \A field \in {"seq", "ts", "len"} :
                   slots'[playing][field] = slots[playing][field]]_vars

\* The packet released is the one whose turn it is, even after the source has
\* lapped the ring and the slots hold packets of the next round.
ReleasesTheRightPacket ==
  [][(pc = "frame" /\ pc' = "out" /\ slots[playing'].ready) =>
       ab_read' = Plus(slots[playing'].seq, 1)]_vars

\* Between two flushes of the buffer no frame is played twice or out of order.
PlaysForward ==
  [][(pc = "out" /\ last_given # -1 /\ slots[playing].ts # 0) =>
       (pc' = "out" \/ SignedDiff(slots[playing].ts, last_given) > 0)]_vars

\* The receivers, which fill the ring under the mutex, never disturb the player,
\* which plays without it: not the frame it has, nor the order of the frames.
PlayerIsUndisturbed == PlayingSlotIsStable /\ PlaysForward

\* The step that ends a request to flush up to a certain frame.
FlushEnds == /\ pc = "flush" /\ flush_requested /\ pc' = "frame"
             /\ ~flush_requested' /\ flush_rtp_timestamp # 0

\* Does a packet wholly before frame f stay in the buffer?
LeftBefore(f) ==
  \E s \in Window' : /\ slots'[BUFIDX(s)].ready
                     /\ SignedDiff(LastFrame(slots'[BUFIDX(s)]), f) < 0

\* A request to flush is over only when no packet wholly before the flush point
\* is left in the buffer.
FlushLeavesNothingBefore == [][FlushEnds => ~LeftBefore(flush_rtp_timestamp)]_vars

\* The same, unless the write position has wrapped round and the read position
\* has not: then the buffer is taken for empty.  (While the stream's timestamps
\* are in the lower half of their range; in the upper half the timestamp 0 of a
\* missing packet seems to lie after the flush point and ends the flush there.)
FlushCompleteUnlessWrapped ==
  [][(FlushEnds /\ ab_read <= ab_write) => ~LeftBefore(flush_rtp_timestamp)]_vars

\* Whatever is lost, late or flushed, the buffer empties in the end: no packet
\* and no gap can keep the player waiting for ever.
BufferDrains == (Window # {}) ~> (Window = {})
=============================================================================
