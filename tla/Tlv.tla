-------------------------------- MODULE Tlv ---------------------------------
(***************************************************************************)
(* The type-length-value encoding of the pairing messages                  *)
(* (src/src/pair_ap/pair-tlv.c): a value longer than a chunk is cut into   *)
(* chunks of its type, and consecutive chunks of one type are put together *)
(* again while they are full.                                              *)
(*                                                                         *)
(* A message is built, formatted into a buffer and parsed, one item of the *)
(* buffer at a time.  A byte of a value is the value's number and the      *)
(* byte's place in it.                                                     *)
(***************************************************************************)
EXTENDS Integers, Sequences, SequencesExt

CONSTANTS
  ChunkMax,     \* the most bytes in a chunk (255 in the code)
  BufSize,      \* REQUEST_BUFSIZE
  TlvTypes, TlvSizes,   \* the types and the sizes of values
  MaxValues     \* bound: values in a message

ASSUME TlvAssumption == ChunkMax \in Nat \ {0} /\ TlvSizes \subseteq Nat \ {0}

VARIABLES
  values,     \* the message: its values in order, each a type and a size
  buffer,     \* the formatted bytes
  parsed,     \* the values read back
  at,         \* where pair_tlv_parse is
  step        \* "build", "parse", "done" or "too long"

tlvvars == <<values, buffer, parsed, at, step>>

TlvInit == values = <<>> /\ buffer = <<>> /\ parsed = <<>> /\ at = 1 /\ step = "build"

\* pair_tlv_add_value appends; no message has two values of one type in a row.
pair_tlv_add_value(type, size) ==
  /\ step = "build" /\ Len(values) < MaxValues
  /\ values # <<>> => Last(values).type # type
  /\ values' = Append(values, [type |-> type, size |-> size, number |-> Len(values) + 1])
  /\ UNCHANGED <<buffer, parsed, at, step>>

\* The chunks of one value: type, size, and as many bytes.
Chunks(t) ==
  LET count == (t.size + ChunkMax - 1) \div ChunkMax
      chunk_size(c) == IF c * ChunkMax <= t.size THEN ChunkMax ELSE t.size % ChunkMax
      chunk(c) == <<t.type, chunk_size(c)>>
                  \o [i \in 1..chunk_size(c) |-> <<t.number, (c - 1) * ChunkMax + i>>]
  IN  FlattenSeq([c \in 1..count |-> chunk(c)])

required_size ==
  LET upto[i \in 0..Len(values)] ==
        IF i = 0 THEN 0
        ELSE upto[i - 1] + values[i].size
               + 2 * ((values[i].size + ChunkMax - 1) \div ChunkMax)
  IN  upto[Len(values)]

pair_tlv_format ==
  /\ step = "build"
  /\ IF BufSize < required_size THEN step' = "too long" /\ UNCHANGED buffer
     ELSE /\ step' = "parse"
          /\ buffer' = FlattenSeq([i \in 1..Len(values) |-> Chunks(values[i])])
  /\ UNCHANGED <<values, parsed, at>>

\* The item at i: the full chunks of its type that follow each other there, and the
\* chunk of its type, not full, that may come next.
Item(i) ==
  LET chunk(c) == i + c * (ChunkMax + 2)
      Same(c) == chunk(c) <= Len(buffer) /\ buffer[chunk(c)] = buffer[i]
      Full(c) == Same(c) /\ buffer[chunk(c) + 1] = ChunkMax
      full == CHOOSE c \in 0..Len(buffer) : ~Full(c) /\ \A d \in 0..(c - 1) : Full(d)
      rest == IF Same(full) THEN buffer[chunk(full) + 1] ELSE 0
  IN  [end  |-> chunk(full) + IF rest > 0 THEN rest + 2 ELSE 0,
       data |-> [b \in 1..(full * ChunkMax + rest) |->
                   buffer[chunk((b - 1) \div ChunkMax) + 2 + ((b - 1) % ChunkMax)]]]

pair_tlv_parse ==
  /\ step = "parse"
  /\ IF at > Len(buffer) THEN step' = "done" /\ UNCHANGED <<parsed, at>>
     ELSE /\ at' = Item(at).end
          /\ parsed' = Append(parsed, [type |-> buffer[at], data |-> Item(at).data])
          /\ UNCHANGED step
  /\ UNCHANGED <<values, buffer>>

TlvNext ==
  \/ \E type \in TlvTypes, size \in TlvSizes : pair_tlv_add_value(type, size)
  \/ pair_tlv_format
  \/ pair_tlv_parse

------------------------------------------------------------------------------
\* Parsing gives back the values that were formatted, each whole and with its
\* type: the sizes at and around a multiple of the chunk, where the code only
\* knows from the next item's type that the value is over.  The buffer never
\* overflows: it holds exactly required_size bytes.
RoundTrip ==
  /\ step = "parse" => Len(buffer) = required_size
  /\ step = "done" =>
       parsed = [i \in 1..Len(values) |->
                   [type |-> values[i].type, data |-> [b \in 1..values[i].size |-> <<i, b>>]]]
=============================================================================
