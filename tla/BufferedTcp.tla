---------------------------- MODULE BufferedTcp -----------------------------
(***************************************************************************)
(* The ring between the TCP port of AirPlay 2 buffered audio and its       *)
(* processor (src/src/rtp.c): buffered_tcp_reader receives into the ring,  *)
(* lread_sized_block and buffered_read take blocks out of it.  Both hold   *)
(* the mutex while they change the occupancy; the reader receives straight *)
(* into the ring, and works out how much to ask for, without it.           *)
(*                                                                         *)
(* The bytes of the source are numbered 1, 2, ...; a block is a length of  *)
(* HeadSize bytes and a body of BodySize bytes.                            *)
(***************************************************************************)
EXTENDS Integers, FiniteSets

CONSTANTS
  buffer_max_size, StandardPacket, HeadSize, BodySize,
  MaxBytes        \* how much the source sends

ASSUME BufferedTcpAssumption ==
  /\ {buffer_max_size, StandardPacket, HeadSize, BodySize} \subseteq Nat \ {0}
  /\ MaxBytes \in Nat

VARIABLES
  ring, buffer_toq, buffer_eoq, buffer_occupancy, tcp_closed, error_code,
  reader, asked, nread,   \* the reader's place, request and result
  processor, wanted,      \* the processor's place and the bytes it still wants
  asleep,                 \* who waits on a condition variable
  bytes_sent, consumed          \* bytes received from the source, bytes taken out

ringvars == <<ring, buffer_toq, buffer_eoq, buffer_occupancy, tcp_closed, error_code>>
bvars == <<ringvars, reader, asked, nread, processor, wanted, asleep, bytes_sent,
           consumed>>

Smallest(S) == CHOOSE x \in S : \A y \in S : x <= y

TcpInit ==
  /\ ring = [i \in 0..buffer_max_size - 1 |-> 0]
  /\ buffer_toq = 0 /\ buffer_eoq = 0 /\ buffer_occupancy = 0
  /\ tcp_closed = FALSE /\ error_code = FALSE
  /\ reader = "test" /\ asked = 0 /\ nread = 0
  /\ processor = "idle" /\ wanted = 0 /\ asleep = {} /\ bytes_sent = 0 /\ consumed = 0
-----------------------------------------------------------------------------
\* The reader waits while there is no room, and for ever after the end.
AwaitRoom ==
  /\ reader = "test" /\ "reader" \notin asleep
  /\ IF buffer_occupancy = buffer_max_size \/ error_code \/ tcp_closed
     THEN asleep' = asleep \cup {"reader"} /\ UNCHANGED reader
     ELSE reader' = "request" /\ UNCHANGED asleep
  /\ UNCHANGED <<ringvars, asked, nread, processor, wanted, bytes_sent, consumed>>

\* Mutant: the reader asks for a whole packet.
BytesToRequestWhole(from) == Smallest({StandardPacket, buffer_max_size - from})

BytesToRequest(from) ==
  Smallest({StandardPacket, buffer_max_size - buffer_occupancy, buffer_max_size - from})

Request ==
  /\ reader = "request" /\ reader' = "recv"
  /\ buffer_eoq' = IF buffer_eoq = buffer_max_size THEN 0 ELSE buffer_eoq
  /\ asked' = BytesToRequest(buffer_eoq')
  /\ UNCHANGED <<ring, buffer_toq, buffer_occupancy, tcp_closed, error_code, nread,
                 processor, wanted, asleep, bytes_sent, consumed>>

\* recv writes into the ring before the mutex is taken; it may also report the end of
\* the stream or an error.
Recv(n) ==
  /\ reader = "recv" /\ reader' = "store" /\ nread' = n
  /\ n \in -1..Smallest({asked, MaxBytes - bytes_sent})
  /\ ring' = [i \in DOMAIN ring |->
                IF i >= buffer_eoq /\ i < buffer_eoq + n
                THEN bytes_sent + 1 + (i - buffer_eoq) ELSE ring[i]]
  /\ bytes_sent' = IF n > 0 THEN bytes_sent + n ELSE bytes_sent
  /\ UNCHANGED <<buffer_toq, buffer_eoq, buffer_occupancy, tcp_closed, error_code,
                 asked, processor, wanted, asleep, consumed>>

\* Mutant: the processor is woken only when the ring held data already.
WakenedForMore == IF buffer_occupancy > 0 THEN asleep \ {"processor"} ELSE asleep

Wakened == asleep \ {"processor"}

Store ==
  /\ reader = "store" /\ reader' = "test"
  /\ error_code' = (error_code \/ nread < 0) /\ tcp_closed' = (tcp_closed \/ nread = 0)
  /\ buffer_eoq' = IF nread > 0 THEN buffer_eoq + nread ELSE buffer_eoq
  /\ buffer_occupancy' = IF nread > 0 THEN buffer_occupancy + nread ELSE buffer_occupancy
  /\ asleep' = Wakened
  /\ UNCHANGED <<ring, buffer_toq, asked, nread, processor, wanted, bytes_sent,
                 consumed>>
-----------------------------------------------------------------------------
\* The processor needs a block: its length, then its body.
lread_sized_block ==
  /\ processor = "idle" /\ processor' = "head" /\ wanted' = HeadSize
  /\ UNCHANGED <<ringvars, reader, asked, nread, asleep, bytes_sent, consumed>>

\* buffered_read waits for data; the end of the stream is tested only before the wait.
WaitForData ==
  /\ processor \in {"head", "body"} /\ ~tcp_closed
  /\ buffer_occupancy = 0 /\ ~error_code
  /\ processor' = IF processor = "head" THEN "head waiting" ELSE "body waiting"
  /\ asleep' = asleep \cup {"processor"}
  /\ UNCHANGED <<ringvars, reader, asked, nread, wanted, bytes_sent, consumed>>

WaitAgain ==
  /\ processor \in {"head waiting", "body waiting"} /\ "processor" \notin asleep
  /\ buffer_occupancy = 0 /\ ~error_code
  /\ asleep' = asleep \cup {"processor"}
  /\ UNCHANGED <<ringvars, reader, asked, nread, processor, wanted, bytes_sent,
                 consumed>>

BytesToMove == Smallest({wanted, buffer_occupancy, buffer_max_size - buffer_toq})

\* What is there, up to the top of the ring, is taken; the rest of the block is read
\* in the next turn of lread_sized_block.
buffered_read ==
  /\ processor # "idle" /\ processor # "finished" /\ "processor" \notin asleep
  /\ buffer_occupancy # 0
  /\ buffer_toq' = (buffer_toq + BytesToMove) % buffer_max_size
  /\ buffer_occupancy' = buffer_occupancy - BytesToMove
  /\ consumed' = consumed + BytesToMove
  /\ asleep' = asleep \ {"reader"}
  /\ LET head == processor \in {"head", "head waiting"} IN
     IF BytesToMove < wanted
     THEN processor' = (IF head THEN "head" ELSE "body") /\ wanted' = wanted - BytesToMove
     ELSE /\ processor' = IF head THEN "body" ELSE "idle"
          /\ wanted' = IF head THEN BodySize ELSE 0
  /\ UNCHANGED <<ring, buffer_eoq, tcp_closed, error_code, reader, asked, nread,
                 bytes_sent>>

\* The end of the stream: the processor takes whatever it has for a length and reads
\* again, and ends.  (After an error lread_sized_block tries again and again, which
\* changes nothing.)
EndOfStream ==
  /\ processor \in {"head", "body"} /\ buffer_occupancy = 0 /\ ~error_code /\ tcp_closed
  /\ processor' = IF processor = "head" THEN "body" ELSE "finished"
  /\ wanted' = BodySize
  /\ UNCHANGED <<ringvars, reader, asked, nread, asleep, bytes_sent, consumed>>
-----------------------------------------------------------------------------
ReaderStep == AwaitRoom \/ Request \/ (\E n \in -1..StandardPacket : Recv(n)) \/ Store

ReadStep == WaitForData \/ WaitAgain \/ buffered_read \/ EndOfStream

TcpNext == ReaderStep \/ lread_sized_block \/ ReadStep

\* Threads are scheduled; recv may block for ever, and whether the processor asks for
\* another block depends on the player.
TcpFairness ==
  /\ WF_bvars(AwaitRoom) /\ WF_bvars(Request) /\ WF_bvars(Store) /\ WF_bvars(ReadStep)
TcpSpec == TcpInit /\ [][TcpNext]_bvars /\ TcpFairness
-----------------------------------------------------------------------------
\* The bytes in the ring are, from toq on, the ones that come after those consumed, and
\* those being received are kept apart from them: the bytes of the source reach the
\* processor once each and in order, wherever the ring folds
\* (buffered_tcp_reader, buffered_read).
RingKeepsTheStream ==
  /\ buffer_occupancy \in 0..buffer_max_size
  /\ \A i \in 0..buffer_occupancy - 1 :
       ring[(buffer_toq + i) % buffer_max_size] = consumed + 1 + i

\* While the processor asks, everything received reaches it: again and again it has all
\* of it, or does not ask (Store, buffered_read).
ReceivedIsRead == []<>(consumed = bytes_sent \/ processor = "idle")
=============================================================================
