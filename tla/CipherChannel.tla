--------------------------- MODULE CipherChannel ----------------------------
(***************************************************************************)
(* The ciphered RTSP connection of AirPlay 2 (encrypt and decrypt of       *)
(* src/src/pair_ap/pair_homekit.c; buf_add, buf_drain, buf_remove,         *)
(* read_encrypted and write_encrypted of src/src/rtsp.c).  A message is    *)
(* cut into blocks: a length of two bytes, the data, a tag.  TCP delivers  *)
(* the bytes in any pieces; the reader deciphers whole blocks, each under  *)
(* the next counter, and hands out what its caller asks for.               *)
(*                                                                         *)
(* A plain byte is its position in everything sent; a ciphered byte is its *)
(* block's counter and what it is.  One direction is modelled: both ends   *)
(* use the same functions.                                                 *)
(***************************************************************************)
EXTENDS Integers, Sequences, SequencesExt

CONSTANTS
  ENCRYPTED_LEN_MAX,  \* the most data in a block
  MessageSizes,       \* the sizes of messages
  InSize,             \* the most one read of the socket returns
  Counts,             \* what callers of read_encrypted ask for
  SingleBytes,        \* can a read return one single byte?
  MaxPlain            \* bound: plain bytes sent

ASSUME ChannelAssumption == /\ ENCRYPTED_LEN_MAX \in Nat \ {0}
                            /\ MessageSizes \cup Counts \subseteq Nat \ {0}
                            /\ InSize \in Nat \ {0}

VARIABLES
  sentPlain,            \* plain bytes given to write_encrypted so far
  encryption_counter, unsent,    \* the writer: its counter, ciphered bytes not yet written
  socket,               \* bytes TCP holds
  encrypted_read_buffer, decryption_counter, plaintext_read_buffer,   \* the reader
  reading,              \* the count of the read under way, 0 for none
  received,             \* plain bytes handed out
  read_refused               \* read_encrypted has returned an error

chvars == <<sentPlain, encryption_counter, unsent, socket, encrypted_read_buffer,
            decryption_counter, plaintext_read_buffer, reading, received, read_refused>>
reader == <<encrypted_read_buffer, decryption_counter, plaintext_read_buffer, reading, received,
            read_refused>>

ChannelInit ==
  /\ sentPlain = 0 /\ encryption_counter = 0 /\ unsent = <<>>
  /\ socket = <<>>
  /\ encrypted_read_buffer = <<>> /\ decryption_counter = 0 /\ plaintext_read_buffer = <<>>
  /\ reading = 0 /\ received = <<>> /\ read_refused = FALSE

LeastOf(a, b) == IF a < b THEN a ELSE b

\* One block: length (two bytes), data, tag.
Block(counter, data) ==
  <<[counter |-> counter, is |-> "length1", of |-> Len(data)],
    [counter |-> counter, is |-> "length2", of |-> Len(data)]>>
  \o [i \in 1..Len(data) |-> [counter |-> counter, is |-> "data", of |-> data[i]]]
  \o <<[counter |-> counter, is |-> "tag", of |-> Len(data)]>>

\* The blocks of n plain bytes, the ceiling of n / ENCRYPTED_LEN_MAX of them.
nblocks(n) == 1 + ((n - 1) \div ENCRYPTED_LEN_MAX)
encrypt(n, first, counter) ==
  LET data(b) == [i \in 1..LeastOf(ENCRYPTED_LEN_MAX, n - b * ENCRYPTED_LEN_MAX)
                    |-> first + b * ENCRYPTED_LEN_MAX + i]
  IN  FlattenSeq([b \in 1..nblocks(n) |-> Block(counter + b - 1, data(b - 1))])

\* pair_encrypt in write_encrypted.
write_encrypted(n) ==
  /\ unsent = <<>>
  /\ sentPlain + n <= MaxPlain
  /\ unsent' = encrypt(n, sentPlain, encryption_counter)
  /\ encryption_counter' = encryption_counter + nblocks(n)
  /\ sentPlain' = sentPlain + n
  /\ UNCHANGED <<socket, reader>>

\* write may take less than it is given; write_encrypted goes on with the rest.
WriteSome(n) ==
  /\ n \in 1..Len(unsent)
  /\ socket' = socket \o SubSeq(unsent, 1, n)
  /\ unsent' = SubSeq(unsent, n + 1, Len(unsent))
  /\ UNCHANGED <<sentPlain, encryption_counter, reader>>

------------------------------------------------------------------------------
\* The tag and the counter of a block that starts at i must fit.
BlockSize(buf, i) == 3 + buf[i].of
Whole(buf, i) == i + BlockSize(buf, i) - 1 <= Len(buf)
Authentic(buf, i, counter) ==
  \A j \in i..(i + BlockSize(buf, i) - 1) : buf[j].counter = counter

\* A turn of the loop: the block at s.at, if it is whole, is checked and deciphered.
DecryptBlock(buf, counter, s) ==
  IF ~s.ok \/ s.at > Len(buf) \/ ~Whole(buf, s.at) THEN s
  ELSE IF ~Authentic(buf, s.at, counter + s.blocks) THEN [s EXCEPT !.ok = FALSE]
  ELSE [at |-> s.at + BlockSize(buf, s.at), blocks |-> s.blocks + 1, ok |-> TRUE,
        plain |-> s.plain \o [i \in 1..buf[s.at].of |-> buf[s.at + 1 + i].of]]

\* The loop over the whole blocks of buf; every one takes some of it.
decrypt(buf, counter) ==
  LET upto[b \in 0..Len(buf)] ==
        IF b = 0 THEN [at |-> 1, blocks |-> 0, ok |-> Len(buf) >= 2, plain |-> <<>>]
        ELSE DecryptBlock(buf, counter, upto[b - 1])
  IN  upto[Len(buf)]

BeginRead(count) ==
  /\ reading = 0 /\ ~read_refused
  /\ reading' = count
  /\ UNCHANGED <<sentPlain, encryption_counter, unsent, socket, encrypted_read_buffer,
                 decryption_counter, plaintext_read_buffer, received, read_refused>>

\* Mutant: what does not fit the caller's buffer is dropped.
HandOutAll(plain) ==
  LET bytes == LeastOf(Len(plain), reading) IN
  /\ received' = received \o SubSeq(plain, 1, bytes)
  /\ plaintext_read_buffer' = <<>>
  /\ reading' = 0

\* buf_remove: hand out leftover plain bytes first.
HandOut(plain) ==
  LET bytes == LeastOf(Len(plain), reading) IN
  /\ received' = received \o SubSeq(plain, 1, bytes)
  /\ plaintext_read_buffer' = SubSeq(plain, bytes + 1, Len(plain))
  /\ reading' = 0

ReadLeftover ==
  /\ reading > 0 /\ plaintext_read_buffer # <<>>
  /\ HandOut(plaintext_read_buffer)
  /\ UNCHANGED <<sentPlain, encryption_counter, unsent, socket, encrypted_read_buffer,
                 decryption_counter, read_refused>>

\* What stays in the buffer after decrypt has consumed some of it.
buf_drain(buf, n) == SubSeq(buf, n + 1, Len(buf))

\* One turn of the loop: read, buf_add, pair_decrypt, buf_drain.
read_encrypted(n) ==
  /\ reading > 0 /\ plaintext_read_buffer = <<>>
  /\ n \in 1..LeastOf(InSize, Len(socket))
  /\ SingleBytes \/ n > 1 \/ encrypted_read_buffer # <<>>
  /\ socket' = SubSeq(socket, n + 1, Len(socket))
  /\ LET buf == encrypted_read_buffer \o SubSeq(socket, 1, n)
         d == decrypt(buf, decryption_counter)
     IN  IF ~d.ok THEN /\ read_refused' = TRUE /\ reading' = 0
                       /\ encrypted_read_buffer' = buf
                       /\ UNCHANGED <<decryption_counter, plaintext_read_buffer, received>>
         ELSE /\ encrypted_read_buffer' = buf_drain(buf, d.at - 1)
              /\ decryption_counter' = decryption_counter + d.blocks
              /\ IF d.plain = <<>> THEN UNCHANGED <<plaintext_read_buffer, received, reading>>
                 ELSE HandOut(d.plain)
              /\ UNCHANGED read_refused
  /\ UNCHANGED <<sentPlain, encryption_counter, unsent>>

ChannelNext ==
  \/ \E n \in MessageSizes : write_encrypted(n)
  \/ \E n \in 1..Len(unsent) : WriteSome(n)
  \/ \E count \in Counts : BeginRead(count)
  \/ ReadLeftover
  \/ \E n \in 1..InSize : read_encrypted(n)

------------------------------------------------------------------------------
(* Properties. *)

\* What the reader has handed out is what was sent, in order and without a
\* gap, however the blocks were cut on their way, and no block is refused:
\* the counters of the two ends stay in step (decrypt's handling of partial
\* blocks, read_encrypted's two buffers).
StreamIsWhole ==
  /\ received = [i \in 1..Len(received) |-> i]
  /\ ~read_refused
=============================================================================
