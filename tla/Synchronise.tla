------------------------------ MODULE Synchronise ------------------------------
(****************************************************************************)
(* How the player keeps in step with its source (player.c:                  *)
(* player_thread_func from the frame it gets to the frames it gives to the  *)
(* output, stuff_buffer_basic_32, the running statistics).                  *)
(*                                                                          *)
(* "late" is the true error of the packet the player now has: the frame     *)
(* that should be heard less the frame that will be heard, in output        *)
(* frames.  The player computes it from the frame the source would be at,   *)
(* the timestamp of the packet, which both wrap at twice HalfModulus (2^31  *)
(* in the code), and the delay of the output.                               *)
(****************************************************************************)
EXTENDS Integers, Sequences, FiniteSets, FiniteSetsExt

CONSTANTS HalfModulus,        \* half of the timestamps there are
          Ratios,             \* output_sample_ratio: output frames per input frame
          PacketFrames,       \* output frames of a packet
          ResyncThreshold,    \* resync_threshold * output_rate
          Tolerance,          \* tolerance * output_rate
          EarlyBias,          \* first_frame_early_bias
          SilentAfterFlush,   \* packets played as silence after a flush, 10 in the code
          trend_interval,     \* the length of the running statistics
          Jolts,              \* by how much the source or the output may jump
          MaxJolts, MaxLate   \* bounds

ASSUME SyncAssumption ==
  /\ HalfModulus \in Nat /\ Ratios \subseteq {1, 2, 4, 8}
  /\ PacketFrames \in Nat /\ PacketFrames >= 3
  /\ ResyncThreshold \in Nat \ {0} /\ Tolerance \in Nat /\ EarlyBias \in Nat
  /\ SilentAfterFlush \in Nat /\ trend_interval \in Nat \ {0} /\ Jolts \subseteq Int
  /\ MaxJolts \in Nat /\ MaxLate \in Nat /\ EarlyBias <= MaxLate
  /\ MaxLate + PacketFrames < HalfModulus

VARIABLES
  output_sample_ratio,
  given_timestamp,      \* of the packet the player now has
  late,
  sync_error,           \* what the player last computed, and
  late_then,            \* history: what it should have been
  frame_seen,           \* at_least_one_frame_seen_this_session
  out_of_bounds,        \* sync_error_out_of_bounds
  after_flush,          \* conn->play_number_after_flush
  settled,              \* five seconds have passed since the first packet
  outbuf,               \* the frames last given to the output
  amountStuffed,
  statistics, oldest_statistic, newest_statistic, number_of_statistics,
  tsum_of_sync_errors, tsum_of_corrections, tsum_of_insertions_and_deletions,
  jolts                 \* jumps so far

windowvars == <<statistics, oldest_statistic, newest_statistic, number_of_statistics,
                tsum_of_sync_errors, tsum_of_corrections, tsum_of_insertions_and_deletions>>
svars == <<output_sample_ratio, given_timestamp, late, sync_error, late_then, frame_seen,
           out_of_bounds, after_flush, settled, outbuf, amountStuffed, windowvars, jolts>>

Magnitude(x) == IF x < 0 THEN -x ELSE x
Lesser(x, y) == IF x < y THEN x ELSE y
Modulus == 2 * HalfModulus

-----------------------------------------------------------------------------
(* The sync error: differences are made modulo the timestamps there are     *)
(* times the ratio, and sign-extended from the bit chosen for the ratio.    *)
(* Mutant: the widest, whatever the ratio.                                  *)
SignBit_widest == 8 * HalfModulus
SignBit == CASE output_sample_ratio = 1 -> HalfModulus
             [] output_sample_ratio = 2 -> 2 * HalfModulus
             [] output_sample_ratio = 4 -> 4 * HalfModulus
             [] output_sample_ratio = 8 -> 8 * HalfModulus

SignExtend(x) == LET m == x % (2 * SignBit) IN IF m >= SignBit THEN m - 2 * SignBit ELSE m

\* should_be_frame_32 counts input frames, so the delay takes up the rest.
Delays == LET d == late % output_sample_ratio IN {d, d + output_sample_ratio}
ShouldBe(delay) == (given_timestamp + (late - delay) \div output_sample_ratio) % Modulus

SyncError(delay) ==
  LET should_be_frame == ShouldBe(delay) * output_sample_ratio
      will_be_frame == (given_timestamp * output_sample_ratio - delay) % (2 * SignBit)
  IN SignExtend(should_be_frame - will_be_frame)

-----------------------------------------------------------------------------
(* stuff_buffer_basic_32: one frame is put in between two others, or one is *)
(* left out, at a random place that is neither the first nor the last.  An  *)
(* interpolated frame is the pair it is the mean of.                        *)
Packet == [i \in 1..PacketFrames |-> <<i, i>>]
Places == 1..(PacketFrames - 2)
stuff_buffer_basic_32(stuff, place) ==
  IF stuff = 0 THEN Packet
  ELSE SubSeq(Packet, 1, place)
         \o (IF stuff = 1 THEN <<<<place, place + 1>>>> ELSE <<>>)
         \o SubSeq(Packet, place + (IF stuff = 1 THEN 1 ELSE 2), PacketFrames)

(* The "V"-shaped decision: more surely the larger the error, never in the  *)
(* first five seconds.                                                      *)
(* Mutant: what is early is not corrected.                                  *)
AmountToStuff_late(e, s) == IF ~settled THEN 0 ELSE IF e > 0 /\ e > s THEN -1 ELSE 0
AmountToStuff(e, s) ==
  IF ~settled THEN 0 ELSE IF e > 0 /\ e > s THEN -1 ELSE IF e < 0 /\ e < -s THEN 1 ELSE 0

-----------------------------------------------------------------------------
(* The running statistics: a ring of the last trend_interval packets and    *)
(* the sums over it.                                                        *)
InWindow == {(oldest_statistic + k) % trend_interval : k \in 0..(number_of_statistics - 1)}
Full == number_of_statistics = trend_interval
Old == statistics[oldest_statistic]
Dropped ==
  IF Full THEN [error |-> Old.error, correction |-> Old.correction, both |-> Magnitude(Old.correction)]
  ELSE [error |-> 0, correction |-> 0, both |-> 0]

Record(e, c) ==
  /\ statistics' = [statistics EXCEPT ![newest_statistic] = [error |-> e, correction |-> c]]
  /\ newest_statistic' = (newest_statistic + 1) % trend_interval
  /\ oldest_statistic' = IF Full THEN (oldest_statistic + 1) % trend_interval ELSE oldest_statistic
  /\ number_of_statistics' = IF Full THEN number_of_statistics ELSE number_of_statistics + 1
  /\ tsum_of_sync_errors' = tsum_of_sync_errors - Dropped.error + e
  /\ tsum_of_corrections' = tsum_of_corrections - Dropped.correction + c
  /\ tsum_of_insertions_and_deletions' =
       tsum_of_insertions_and_deletions - Dropped.both + Magnitude(c)

NextTimestamp == given_timestamp' = (given_timestamp + PacketFrames) % Modulus

-----------------------------------------------------------------------------
(* A packet is missing, which is a timestamp of 0, or it is one of the      *)
(* first after a flush: silence is played in its place and nothing is       *)
(* measured.  A packet whose own timestamp is 0 counts as missing.          *)
PlaySilence ==
  /\ after_flush' = IF after_flush < SilentAfterFlush THEN after_flush + 1 ELSE after_flush
  /\ outbuf' = <<>> /\ NextTimestamp
  /\ UNCHANGED <<output_sample_ratio, late, sync_error, late_then, frame_seen, out_of_bounds,
                 settled, amountStuffed, windowvars, jolts>>

Timed == after_flush = SilentAfterFlush /\ given_timestamp # 0

(* The output cannot say what its delay is: the packet is played as it is.  *)
PlayUnsynced ==
  /\ Timed
  /\ outbuf' = stuff_buffer_basic_32(0, 1) /\ amountStuffed' = 0
  /\ frame_seen' = TRUE /\ sync_error' = 0 /\ late_then' = 0
  /\ Record(0, 0) /\ NextTimestamp
  /\ UNCHANGED <<output_sample_ratio, late, out_of_bounds, after_flush, settled, jolts>>

(* The first packet of the session: what it is early by is made up with     *)
(* silence.                                                                 *)
FirstError(e) == IF ~frame_seen /\ e < 0 THEN 0 ELSE e

OutOfBounds(e) == Magnitude(e) > ResyncThreshold

(* The packet is played, a frame longer or shorter if need be.              *)
PlaySynced ==
  /\ Timed
  /\ \E delay \in Delays, s \in 0..Tolerance, place \in Places :
       LET raw == SyncError(delay)
           e == FirstError(raw)
           stuff == AmountToStuff(e, s)
       IN /\ OutOfBounds(e) => out_of_bounds < 3
          /\ out_of_bounds' = IF OutOfBounds(e) THEN out_of_bounds + 1 ELSE 0
          /\ sync_error' = raw /\ late_then' = late
          /\ outbuf' = stuff_buffer_basic_32(stuff, place) /\ amountStuffed' = stuff
          /\ late' = late + (e - raw) + (Len(outbuf') - PacketFrames)
          /\ Record(e, stuff)
  /\ frame_seen' = TRUE /\ NextTimestamp
  /\ UNCHANGED <<output_sample_ratio, after_flush, settled, jolts>>

(* Four packets in a row were out of bounds.  If they were late the buffer  *)
(* is flushed up to where the source will be; the buffering that follows    *)
(* fills up with silence, to within the bias or the place it can still      *)
(* reach.  If they were early a silence is played, at most five thresholds  *)
(* long.  This packet itself is not played.                                 *)
SilenceLength(e) == Lesser(-e, 5 * ResyncThreshold)

Resync ==
  /\ Timed
  /\ \E delay \in Delays :
       LET e == FirstError(SyncError(delay))
       IN /\ OutOfBounds(e) /\ out_of_bounds = 3
          /\ sync_error' = SyncError(delay) /\ late_then' = late
          /\ \/ /\ e > 0
                /\ \E l \in {-EarlyBias, 0} : late' = l
                /\ after_flush' = 0
             \/ /\ e < 0
                /\ late' = late + SilenceLength(e) - PacketFrames
                /\ UNCHANGED after_flush
          /\ Record(e, amountStuffed)
  /\ out_of_bounds' = 0 /\ frame_seen' = TRUE /\ outbuf' = <<>> /\ NextTimestamp
  /\ UNCHANGED <<output_sample_ratio, settled, amountStuffed, jolts>>

(* The clock of the source is corrected, the output underruns or drifts.    *)
Jolt ==
  /\ jolts < MaxJolts /\ jolts' = jolts + 1
  /\ \E j \in Jolts : Magnitude(late + j) <= MaxLate /\ late' = late + j
  /\ UNCHANGED <<output_sample_ratio, given_timestamp, sync_error, late_then, frame_seen,
                 out_of_bounds, after_flush, settled, outbuf, amountStuffed, windowvars>>

Settle ==
  /\ ~settled /\ settled' = TRUE
  /\ UNCHANGED <<output_sample_ratio, given_timestamp, late, sync_error, late_then, frame_seen,
                 out_of_bounds, after_flush, outbuf, amountStuffed, windowvars, jolts>>

SyncInit ==
  /\ output_sample_ratio \in Ratios
  /\ given_timestamp = 0 /\ late \in {-EarlyBias, 0, 1}
  /\ sync_error = 0 /\ late_then = 0 /\ frame_seen = FALSE /\ out_of_bounds = 0
  /\ after_flush = 0 /\ settled = FALSE /\ outbuf = <<>> /\ amountStuffed = 0
  /\ statistics = [i \in 0..(trend_interval - 1) |-> [error |-> 0, correction |-> 0]]
  /\ oldest_statistic = 0 /\ newest_statistic = 0 /\ number_of_statistics = 0
  /\ tsum_of_sync_errors = 0 /\ tsum_of_corrections = 0
  /\ tsum_of_insertions_and_deletions = 0 /\ jolts = 0

SyncNext == PlaySilence \/ PlayUnsynced \/ PlaySynced \/ Resync \/ Jolt \/ Settle

(* The player thread takes packet after packet; the delay is available and  *)
(* packets are there as often as it takes, and time passes.                 *)
SyncFairness == SF_svars(PlaySynced) /\ SF_svars(Resync) /\ WF_svars(Settle)
                  /\ WF_svars(PlaySilence /\ ~Timed)
SyncSpec == SyncInit /\ [][SyncNext]_svars /\ SyncFairness

-----------------------------------------------------------------------------
(* The type invariant.                                                      *)
SyncTypeOK ==
  /\ given_timestamp \in 0..(Modulus - 1) /\ Magnitude(late) <= MaxLate + PacketFrames
  /\ out_of_bounds \in 0..3 /\ amountStuffed \in {-1, 0, 1}
  /\ number_of_statistics \in 0..trend_interval

(* The error computed from numbers that wrap is the true error, whatever    *)
(* the ratio of the rates and wherever the timestamps are.                  *)
ErrorIsTrue == sync_error = late_then

(* A packet is given to the output whole and in order, but for the one      *)
(* frame that is left out or put between its neighbours.                    *)
PacketIsWhole ==
  outbuf # <<>> =>
    /\ Len(outbuf) = PacketFrames + amountStuffed
    /\ outbuf[1] = <<1, 1>> /\ outbuf[Len(outbuf)] = <<PacketFrames, PacketFrames>>
    /\ \A i \in 1..(Len(outbuf) - 1) :
         LET step == (outbuf[i + 1][1] + outbuf[i + 1][2]) - (outbuf[i][1] + outbuf[i][2])
         IN step \in 1..4

(* The sums the statistics are made of are the sums over the packets in the *)
(* window, however often the ring has turned.                               *)
SumsMatchWindow ==
  /\ tsum_of_sync_errors = MapThenSumSet(LAMBDA i : statistics[i].error, InWindow)
  /\ tsum_of_corrections = MapThenSumSet(LAMBDA i : statistics[i].correction, InWindow)
  /\ tsum_of_insertions_and_deletions =
       MapThenSumSet(LAMBDA i : Magnitude(statistics[i].correction), InWindow)

(* Once the clocks and the output behave, the player gets back in step with *)
(* its source and stays there, within the tolerance.                        *)
BackInStep == <>[](Magnitude(late) <= Tolerance)

\* The player knows how late it is, corrects it by whole frames without touching the ends of
\* the packet, and reports just what it did (player_thread_func, stuff_buffer_basic_32).
SyncIsExact == SyncTypeOK /\ ErrorIsTrue /\ PacketIsWhole /\ SumsMatchWindow
=============================================================================
