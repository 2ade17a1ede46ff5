----------------------------- MODULE PulseOutput ----------------------------
(***************************************************************************)
(* The PulseAudio backend (src/src/audio_pa.c): a circular buffer that the *)
(* player fills in play() and PulseAudio's thread empties in               *)
(* stream_write_cb, which runs, as flush() and stop() do, under the lock   *)
(* of the main loop; play() does not take it.                              *)
(*                                                                         *)
(* Frames are numbered as they are played, and the buffer holds one number *)
(* a place.  On one core the addition to audio_occupancy in play() is a    *)
(* single instruction; on two it is a read and a write, and the lock in    *)
(* that branch guards audio_eoq instead.  The player never has more frames *)
(* waiting than the buffer holds (it keeps to the desired length, far      *)
(* below audio_size): that bound is in play's guard.                       *)
(***************************************************************************)
EXTENDS Integers, Sequences

CONSTANTS
  AudioSize,        \* audio_size, in frames
  UncorkAt,         \* occupancy at which the stream is uncorked
  PaPackets,        \* sizes of packets played
  PaRequests,       \* frames PulseAudio may ask for
  MaxGiven, MaxPaFlushes

ASSUME PulseAssumption ==
  /\ AudioSize \in Nat \ {0} /\ PaPackets \subseteq 1..AudioSize /\ PaRequests \subseteq Nat
  /\ {UncorkAt, MaxGiven, MaxPaFlushes} \subseteq Nat

VARIABLES
  cores,                  \* 1 or 2
  ring,                   \* the buffer
  toq, eoq, occupancy,    \* audio_toq, audio_eoq, audio_occupancy
  corked,
  playing_pc,             \* play(): its place, the frames, and the value it read
  cb,                     \* stream_write_cb: its place, the frames left and those taken
  given,                  \* frames handed to play() so far
  heard,                  \* history: the frames PulseAudio has been given, in order
  flushed_to, pa_flushes  \* history: frames given by the last flush; flushes so far

pavars == <<cores, ring, toq, eoq, occupancy, corked, playing_pc, cb, given, heard,
            flushed_to, pa_flushes>>

PaIdle == [pc |-> "idle", n |-> 0, old |-> 0]
CbIdle == [pc |-> "idle", n |-> 0, take |-> 0]

PaInit ==
  /\ cores \in {1, 2} /\ ring = [i \in 0..AudioSize - 1 |-> 0]
  /\ toq = 0 /\ eoq = 0 /\ occupancy = 0 /\ corked = TRUE
  /\ playing_pc = PaIdle /\ cb = CbIdle
  /\ given = 0 /\ heard = <<>> /\ flushed_to = 0 /\ pa_flushes = 0

\* play(): the frames are copied to the end of the queue, in two pieces if they wrap.
pa_play(n) ==
  /\ playing_pc.pc = "idle" /\ given + n <= MaxGiven /\ occupancy + n <= AudioSize
  /\ ring' = [i \in DOMAIN ring |->
                LET k == (i - eoq) % AudioSize IN IF k < n THEN given + 1 + k ELSE ring[i]]
  /\ playing_pc' = [pc |-> "count", n |-> n, old |-> occupancy]
  /\ given' = given + n
  /\ UNCHANGED <<cores, toq, eoq, occupancy, corked, cb, heard, flushed_to, pa_flushes>>

\* Do the frames fit before the end of the buffer?  AudioSize stands for audio_umb there.
Contiguous == AudioSize - eoq >= playing_pc.n

\* The frames are counted: under the lock if they wrap, else without it.
pa_play_counts ==
  /\ playing_pc.pc = "count"
  /\ \/ /\ cores = 1 \/ ~Contiguous
        /\ occupancy' = occupancy + playing_pc.n
        /\ playing_pc' = [playing_pc EXCEPT !.pc = "end"]
     \/ /\ cores = 2 /\ Contiguous
        /\ playing_pc' = [playing_pc EXCEPT !.pc = "write", !.old = occupancy]
        /\ UNCHANGED occupancy
  /\ UNCHANGED <<cores, ring, toq, eoq, corked, cb, given, heard, flushed_to, pa_flushes>>

pa_play_writes ==
  /\ playing_pc.pc = "write" /\ playing_pc' = [playing_pc EXCEPT !.pc = "end"]
  /\ occupancy' = playing_pc.old + playing_pc.n
  /\ UNCHANGED <<cores, ring, toq, eoq, corked, cb, given, heard, flushed_to, pa_flushes>>

\* Mutant: the frames at the end of the buffer are not taken off when the queue wraps.
pa_play_ends_whole ==
  /\ playing_pc.pc = "end" /\ playing_pc' = PaIdle
  /\ eoq' = IF Contiguous THEN eoq + playing_pc.n ELSE playing_pc.n
  /\ corked' = (corked /\ occupancy < UncorkAt)
  /\ UNCHANGED <<cores, ring, toq, occupancy, cb, given, heard, flushed_to, pa_flushes>>

\* The end of the queue moves; with enough frames waiting, the stream is started.
pa_play_ends ==
  /\ playing_pc.pc = "end" /\ playing_pc' = PaIdle
  /\ eoq' = IF Contiguous THEN eoq + playing_pc.n ELSE eoq + playing_pc.n - AudioSize
  /\ corked' = (corked /\ occupancy < UncorkAt)
  /\ UNCHANGED <<cores, ring, toq, occupancy, cb, given, heard, flushed_to, pa_flushes>>

\* stream_write_cb: as many frames as there are, up to the number asked for; if there are
\* fewer the stream is corked.  begin_write may offer less room than asked for.
stream_write_cb(n) ==
  /\ ~corked /\ cb.pc = "idle" /\ occupancy > 0
  /\ cb' = [pc |-> "copy", n |-> n, take |-> 0]
  /\ UNCHANGED <<cores, ring, toq, eoq, occupancy, corked, playing_pc, given, heard, flushed_to,
                 pa_flushes>>

cb_copies ==
  /\ cb.pc = "copy" /\ cb.n > 0 /\ occupancy > 0
  /\ corked' = (corked \/ occupancy < cb.n)
  /\ \E take \in 1..(IF occupancy < cb.n THEN occupancy ELSE cb.n) :
       /\ heard' = heard \o [k \in 1..take |-> ring[(toq + k - 1) % AudioSize]]
       /\ toq' = IF take <= AudioSize - toq THEN toq + take ELSE toq + take - AudioSize
       /\ cb' = [cb EXCEPT !.pc = "count", !.take = take]
  /\ UNCHANGED <<cores, ring, eoq, occupancy, playing_pc, given, flushed_to, pa_flushes>>

cb_counts ==
  /\ cb.pc = "count" /\ occupancy' = occupancy - cb.take
  /\ cb' = [cb EXCEPT !.pc = "copy", !.n = @ - cb.take]
  /\ UNCHANGED <<cores, ring, toq, eoq, corked, playing_pc, given, heard, flushed_to, pa_flushes>>

cb_ends ==
  /\ cb.pc = "copy" /\ (cb.n = 0 \/ occupancy = 0) /\ cb' = CbIdle
  /\ UNCHANGED <<cores, ring, toq, eoq, occupancy, corked, playing_pc, given, heard, flushed_to,
                 pa_flushes>>

\* flush() and stop(), by the player between packets, not during the callback.
pa_flush ==
  /\ playing_pc.pc = "idle" /\ cb.pc = "idle" /\ pa_flushes < MaxPaFlushes
  /\ pa_flushes' = pa_flushes + 1 /\ flushed_to' = given
  /\ toq' = 0 /\ eoq' = 0 /\ occupancy' = 0 /\ corked' = TRUE
  /\ UNCHANGED <<cores, ring, playing_pc, cb, given, heard>>

PaNext ==
  \/ \E n \in PaPackets : pa_play(n)
  \/ pa_play_counts \/ pa_play_writes \/ pa_play_ends
  \/ \E n \in PaRequests : stream_write_cb(n)
  \/ cb_copies \/ cb_counts \/ cb_ends \/ pa_flush

PaSpec == PaInit /\ [][PaNext]_pavars
-----------------------------------------------------------------------------
(* Properties *)

\* The frames in heard are in the order they were played in, each once, with gaps only at a flush.
InOrder ==
  /\ \A i \in 1..Len(heard) - 1 : heard[i] < heard[i + 1]
  /\ \A i \in 1..Len(heard) : heard[i] \in 1..given

\* On one core, PulseAudio is given the player's frames in order, none twice and none that was
\* not played yet, wherever the buffer wraps and however play() and the callback interleave;
\* and a frame given before a flush is not handed to it after the flush, wherever in the ring
\* the flush finds the two ends (play, flush, stop, stream_write_cb).
PulseIsHeardInOrder ==
  [][cores = 1 =>
       /\ InOrder'
       /\ \A i \in Len(heard) + 1..Len(heard') : heard'[i] > flushed_to]_pavars
=============================================================================
