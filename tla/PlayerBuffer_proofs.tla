------------------------ MODULE PlayerBuffer_proofs ------------------------
(* Theorems about the packet buffer, for every size of the ring, every range *)
(* of sequence numbers and timestamps and every set of receivers.            *)
EXTENDS PlayerBuffer, FiniteSetTheorems, WellFoundedInduction, TLAPS

-----------------------------------------------------------------------------
(* Remainders.  The provers know x % m only as x - m * (x \div m).            *)

LEMMA Division ==
  ASSUME NEW m \in Nat \ {0}, NEW x \in Int
  PROVE  \E q \in Int : \E r \in 0 .. m - 1 : x % m = r /\ x = m * q + r
<1> DEFINE q == x \div m
           r == x % m
<1>1. r = x - m * q  BY SMT
<1>2. q \in Int  BY SMT
<1>3. r \in 0 .. m - 1  BY SMT
<1> HIDE DEF q, r
<1>4. x = m * q + r  BY <1>1, <1>2, <1>3, SMT
<1> QED  BY <1>2, <1>3, <1>4 DEF r

LEMMA Remainder ==
  ASSUME NEW m \in Nat \ {0}, NEW q \in Int, NEW r \in 0 .. m - 1
  PROVE  (m * q + r) % m = r
<1> DEFINE x == m * q + r
<1>1. x \in Int  BY SMT
<1>2. PICK p \in Int, e \in 0 .. m - 1 : x % m = e /\ x = m * p + e
  <2> HIDE DEF x
  <2> QED  BY <1>1, Division
<1>3. m * q + r = m * p + e  BY <1>2
<1>4. m * (q - p) = e - r  BY <1>3, SMT
<1>5. q - p >= 1 => m * (q - p) >= m  BY SMT
<1>6. q - p <= -1 => m * (q - p) <= -m  BY SMT
<1>7. q - p = 0  BY <1>4, <1>5, <1>6, SMT
<1>8. m * (q - p) = 0  BY <1>7, SMT
<1>9. e = r  BY <1>4, <1>8, SMT
<1> QED  BY <1>2, <1>9

LEMMA RemainderType ==
  ASSUME NEW m \in Nat \ {0}, NEW x \in Int
  PROVE  x % m \in 0 .. m - 1
BY Division

\* A number at most one turn away is brought back by one turn.
LEMMA OneTurn ==
  ASSUME NEW m \in Nat \ {0}, NEW x \in Int
  PROVE  /\ x \in 0 .. m - 1 => x % m = x
         /\ x \in m .. 2 * m - 1 => x % m = x - m
         /\ x \in -m .. -1 => x % m = x + m
<1>1. ASSUME x \in 0 .. m - 1  PROVE x % m = x
  <2>1. (m * 0 + x) % m = x  BY <1>1, Remainder
  <2> QED  BY <2>1, SMT
<1>2. ASSUME x \in m .. 2 * m - 1  PROVE x % m = x - m
  <2>1. x - m \in 0 .. m - 1  BY <1>2
  <2>2. (m * 1 + (x - m)) % m = x - m  BY <2>1, Remainder
  <2>3. m * 1 + (x - m) = x  BY SMT
  <2> QED  BY <2>2, <2>3
<1>3. ASSUME x \in -m .. -1  PROVE x % m = x + m
  <2>1. x + m \in 0 .. m - 1  BY <1>3
  <2>2. (m * (-1) + (x + m)) % m = x + m  BY <2>1, Remainder
  <2>3. m * (-1) + (x + m) = x  BY SMT
  <2> QED  BY <2>2, <2>3
<1> QED  BY <1>1, <1>2, <1>3

\* Turns taken before do not change a remainder.
LEMMA Turns ==
  ASSUME NEW m \in Nat \ {0}, NEW x \in Int, NEW q \in Int
  PROVE  (m * q + x) % m = x % m
<1>1. PICK p \in Int, r \in 0 .. m - 1 : x % m = r /\ x = m * p + r  BY Division
<1>2. m * q + x = m * (q + p) + r
  <2>1. m * q + (m * p + r) = m * (q + p) + r  BY SMT
  <2> QED  BY <2>1, <1>1
<1>3. q + p \in Int  OBVIOUS
<1>4. (m * (q + p) + r) % m = r  BY <1>3, Remainder
<1> QED  BY <1>1, <1>2, <1>4

\* The ring is a whole number of times in the range of the sequence numbers.
LEMMA RemainderOfRemainder ==
  ASSUME NEW m \in Nat \ {0}, NEW b \in Nat \ {0}, m % b = 0, NEW x \in Int
  PROVE  (x % m) % b = x % b
<1>1. PICK c \in Int : m = b * c
  <2>1. PICK c \in Int, e \in 0 .. b - 1 : m % b = e /\ m = b * c + e  BY Division
  <2>2. e = 0  BY <2>1
  <2>3. m = b * c  BY <2>1, <2>2, SMT
  <2> QED  BY <2>3
<1>2. PICK q \in Int, r \in 0 .. m - 1 : x % m = r /\ x = m * q + r  BY Division
<1>3. x = b * (c * q) + r
  <2>1. (b * c) * q + r = b * (c * q) + r  BY SMT
  <2> QED  BY <2>1, <1>1, <1>2
<1>4. c * q \in Int /\ r \in Int  BY SMT
<1>5. (b * (c * q) + r) % b = r % b
  <2> DEFINE k == c * q
  <2>1. k \in Int  BY <1>4
  <2> HIDE DEF k
  <2>2. (b * k + r) % b = r % b  BY <2>1, <1>4, Turns
  <2> QED  BY <2>2 DEF k
<1> QED  BY <1>2, <1>3, <1>5

\* Two numbers with the same remainder are a whole number of turns apart.
LEMMA SameRemainder ==
  ASSUME NEW m \in Nat \ {0}, NEW x \in Int, NEW y \in Int,
         x % m = y % m, x <= y, y < x + m
  PROVE  x = y
<1>1. PICK p \in Int, d \in 0 .. m - 1 : x % m = d /\ x = m * p + d  BY Division
<1>2. PICK q \in Int, e \in 0 .. m - 1 : y % m = e /\ y = m * q + e  BY Division
<1>3. d = e  BY <1>1, <1>2
<1>4. y - x = m * (q - p)
  <2>1. (m * q + d) - (m * p + d) = m * (q - p)  BY SMT
  <2> QED  BY <2>1, <1>1, <1>2, <1>3
<1>5. q - p >= 1 => m * (q - p) >= m  BY SMT
<1>6. q - p <= -1 => m * (q - p) <= -m  BY SMT
<1>7. q - p = 0
  <2> DEFINE d1 == y - x
             k == m * (q - p)
  <2>1. d1 \in 0 .. m - 1 /\ k = d1  BY <1>4, SMT
  <2> HIDE DEF d1
  <2>2. q - p >= 1 => d1 >= m  BY <1>5, <2>1
  <2>3. q - p <= -1 => d1 <= -m  BY <1>6, <2>1
  <2> HIDE DEF k
  <2> QED  BY <2>1, <2>2, <2>3, SMT
<1>8. m * (q - p) = 0  BY <1>7, SMT
<1> QED  BY <1>4, <1>8, SMT

\* A set of natural numbers that is not empty has a least member.
LEMMA LeastExists ==
  ASSUME NEW T, T \subseteq Nat, T # {}
  PROVE  Least(T) \in T /\ \A k \in T : Least(T) <= k
<1> DEFINE R == {p \in Nat \X Nat : p[1] < p[2]}
<1>1. IsWellFoundedOn(R, Nat)  BY NatLessThanWellFounded, Zenon DEF OpToRel
<1> HIDE DEF R
<1>2. PICK k \in T : \A j \in T : ~(<<j, k>> \in R)  BY <1>1, WFMin, Zenon
<1>3. \A j \in T : ~(j < k)  BY <1>2 DEF R
<1>4. \A j \in T : k <= j  BY <1>3
<1> QED  BY <1>4, Zenon DEF Least

-----------------------------------------------------------------------------
(* Sequence numbers, indices of slots and timestamps. *)

LEMMA Sizes ==
  /\ SeqMod \in Nat \ {0} /\ BufferFrames \in Nat \ {0} /\ TsMod \in Nat \ {0}
  /\ SeqMod % BufferFrames = 0 /\ FirstSeq \in Seqs /\ Seqs \subseteq Int
BY PlayerBufferAssumption DEF Seqs

LEMMA DistIs ==
  ASSUME NEW a \in Seqs, NEW b \in Seqs
  PROVE  /\ Dist(a, b) = IF a <= b THEN b - a ELSE b - a + SeqMod
         /\ Dist(a, b) \in Seqs
<1>1. b - a \in Int  BY PlayerBufferAssumption DEF Seqs
<1>2. b - a \in 0 .. SeqMod - 1 \/ b - a \in -SeqMod .. -1
  BY PlayerBufferAssumption DEF Seqs
<1>3. (b - a) % SeqMod = IF a <= b THEN b - a ELSE b - a + SeqMod
  <2> DEFINE x == b - a
  <2>1. x \in Int  BY <1>1
  <2>2. /\ x \in 0 .. SeqMod - 1 => x % SeqMod = x
        /\ x \in -SeqMod .. -1 => x % SeqMod = x + SeqMod
    <3> HIDE DEF x
    <3> QED  BY <2>1, OneTurn, PlayerBufferAssumption
  <2> QED  BY <2>2, <1>2, PlayerBufferAssumption DEF Seqs
<1> QED  BY <1>2, <1>3, PlayerBufferAssumption DEF Dist, Seqs

LEMMA PlusIs ==
  ASSUME NEW a \in Seqs, NEW k \in -1 .. SeqMod
  PROVE  Plus(a, k) = IF a + k >= SeqMod THEN a + k - SeqMod
                      ELSE IF a + k < 0 THEN a + k + SeqMod ELSE a + k
<1> DEFINE x == a + k
<1>1. x \in Int  BY PlayerBufferAssumption DEF Seqs
<1>2. /\ x \in 0 .. SeqMod - 1 => x % SeqMod = x
      /\ x \in SeqMod .. 2 * SeqMod - 1 => x % SeqMod = x - SeqMod
      /\ x \in -SeqMod .. -1 => x % SeqMod = x + SeqMod
  <2> HIDE DEF x
  <2> QED  BY <1>1, OneTurn, PlayerBufferAssumption
<1> QED  BY <1>2, PlayerBufferAssumption DEF Plus, Seqs

LEMMA PlusType ==
  ASSUME NEW a \in Int, NEW k \in Int
  PROVE  Plus(a, k) \in Seqs
<1>1. a + k \in Int  OBVIOUS
<1> QED  BY <1>1, RemainderType, PlayerBufferAssumption DEF Plus, Seqs

LEMMA IndexType ==
  ASSUME NEW a \in Int
  PROVE  BUFIDX(a) \in 0 .. BufferFrames - 1
BY RemainderType, PlayerBufferAssumption DEF BUFIDX

LEMMA IndexOfPlus ==
  ASSUME NEW a \in Int, NEW k \in Int
  PROVE  BUFIDX(Plus(a, k)) = BUFIDX(a + k)
<1>1. a + k \in Int  OBVIOUS
<1>2. ((a + k) % SeqMod) % BufferFrames = (a + k) % BufferFrames
  BY <1>1, RemainderOfRemainder, Sizes, Zenon
<1> QED  BY <1>2 DEF Plus, BUFIDX

\* Fewer than BufferFrames steps apart, two packets share no slot.
LEMMA SameIndex ==
  ASSUME NEW a \in Seqs, NEW b \in Seqs,
         BUFIDX(a) = BUFIDX(b), Dist(a, b) < BufferFrames
  PROVE  a = b
<1> DEFINE k == Dist(a, b)
<1>1. k \in 0 .. SeqMod - 1 /\ k < BufferFrames  BY DistIs DEF Seqs
<1>2. Plus(a, k) = b
  <2>1. k = IF a <= b THEN b - a ELSE b - a + SeqMod  BY DistIs
  <2>2. k \in -1 .. SeqMod  BY <1>1, PlayerBufferAssumption
  <2> HIDE DEF k
  <2> QED  BY <2>1, <2>2, PlusIs, PlayerBufferAssumption DEF Seqs
<1>3. a \in Int /\ a + k \in Int  BY <1>1, PlayerBufferAssumption DEF Seqs
<1>4. BUFIDX(a + k) = BUFIDX(a)
  <2> HIDE DEF k
  <2> QED  BY <1>1, <1>2, <1>3, IndexOfPlus
<1> HIDE DEF k
<1>5. a = a + k
  <2> DEFINE x == a + k
  <2>1. x \in Int /\ a \in Int /\ a <= x /\ x < a + BufferFrames
    BY <1>1, <1>3, Sizes
  <2>2. a % BufferFrames = x % BufferFrames  BY <1>4 DEF BUFIDX
  <2> HIDE DEF x
  <2>3. a = x  BY <2>1, <2>2, SameRemainder, Sizes, Zenon
  <2> QED  BY <2>3 DEF x
<1>6. k = 0  BY <1>1, <1>3, <1>5
<1>7. IF a <= b THEN b - a = 0 ELSE b - a + SeqMod = 0
  BY <1>6, DistIs DEF k
<1> QED  BY <1>7, PlayerBufferAssumption DEF Seqs

LEMMA SeqOfType ==
  ASSUME NEW p \in Int
  PROVE  SeqOf(p) \in Seqs
<1>1. FirstSeq + p \in Int  BY PlayerBufferAssumption
<1> QED  BY <1>1, RemainderType, PlayerBufferAssumption DEF SeqOf, Seqs

\* Packets fewer than SeqMod apart are as far apart in sequence numbers.
LEMMA DistOfPackets ==
  ASSUME NEW p \in Int, NEW q \in Int, q - p \in 0 .. SeqMod - 1
  PROVE  Dist(SeqOf(p), SeqOf(q)) = q - p
<1>1. SeqOf(p) \in Seqs /\ SeqOf(q) \in Seqs  BY SeqOfType
<1>2. FirstSeq + p \in Int /\ FirstSeq + q \in Int  BY PlayerBufferAssumption
<1>3. PICK a \in Int, d \in 0 .. SeqMod - 1 :
        (FirstSeq + p) % SeqMod = d /\ FirstSeq + p = SeqMod * a + d
  <2> DEFINE x == FirstSeq + p
  <2>1. x \in Int /\ SeqMod \in Nat \ {0}  BY <1>2, Sizes
  <2> HIDE DEF x
  <2>2. \E a \in Int, d \in 0 .. SeqMod - 1 : x % SeqMod = d /\ x = SeqMod * a + d
    BY <2>1, Division
  <2> QED  BY <2>2 DEF x
<1>4. FirstSeq + q = SeqMod * a + (d + (q - p))
  <2>1. (SeqMod * a + d) + (q - p) = SeqMod * a + (d + (q - p))
    BY PlayerBufferAssumption, SMT
  <2>2. FirstSeq + q = (FirstSeq + p) + (q - p)  BY PlayerBufferAssumption
  <2> QED  BY <1>3, <2>1, <2>2
<1>5. SeqOf(q) = (d + (q - p)) % SeqMod
  <2> DEFINE x == d + (q - p)
  <2>1. x \in Int  OBVIOUS
  <2> HIDE DEF x
  <2>2. (SeqMod * a + x) % SeqMod = x % SeqMod  BY <2>1, Turns, Sizes, Zenon
  <2> QED  BY <2>2, <1>4 DEF SeqOf, x
<1>6. SeqOf(p) = d  BY <1>3 DEF SeqOf
<1>7. SeqOf(q) = Plus(d, q - p)  BY <1>5 DEF Plus
<1>8. d \in Seqs /\ q - p \in -1 .. SeqMod  BY PlayerBufferAssumption DEF Seqs
<1>9. SeqOf(q) = IF d + (q - p) >= SeqMod THEN d + (q - p) - SeqMod ELSE d + (q - p)
  BY <1>7, <1>8, PlusIs, PlayerBufferAssumption DEF Seqs
<1> DEFINE e == SeqOf(q)
<1>10. e \in Seqs /\ Dist(d, e) = IF d <= e THEN e - d ELSE e - d + SeqMod
  BY <1>1, <1>8, DistIs
<1>11. e = IF d + (q - p) >= SeqMod THEN d + (q - p) - SeqMod ELSE d + (q - p)
  BY <1>9
<1> HIDE DEF e
<1>12. Dist(d, e) = q - p  BY <1>8, <1>10, <1>11, Sizes DEF Seqs
<1> QED  BY <1>6, <1>12 DEF e

LEMMA StampType ==
  ASSUME NEW x \in Int
  PROVE  x % TsMod \in Stamps
BY RemainderType, PlayerBufferAssumption DEF Stamps

LEMMA TsOfType ==
  ASSUME NEW p \in Int
  PROVE  TsOf(p) \in Stamps
<1>1. p * PacketLength \in Int  BY PlayerBufferAssumption, SMT
<1>2. StartTime + Latency + p * PacketLength \in Int  BY <1>1, PlayerBufferAssumption
<1> QED  BY <1>2, StampType DEF TsOf

LEMMA SignedDiffIs ==
  ASSUME NEW a \in Stamps, NEW b \in Stamps
  PROVE  SignedDiff(a, b) = LET d == IF b <= a THEN a - b ELSE a - b + TsMod
                            IN  IF 2 * d >= TsMod THEN d - TsMod ELSE d
<1> DEFINE x == a - b
<1>1. x \in Int  BY PlayerBufferAssumption DEF Stamps
<1>2. /\ x \in 0 .. TsMod - 1 => x % TsMod = x
      /\ x \in -TsMod .. -1 => x % TsMod = x + TsMod
  <2> HIDE DEF x
  <2> QED  BY <1>1, OneTurn, PlayerBufferAssumption
<1>3. x % TsMod = IF b <= a THEN a - b ELSE a - b + TsMod
  BY <1>2, PlayerBufferAssumption DEF Stamps
<1> QED  BY <1>3 DEF SignedDiff

-----------------------------------------------------------------------------
(* What the parts of player_put_packet return. *)

\* Every slot is well formed; one that is ready has some frames and a packet
\* that belongs there.
SlotsOK(sl) ==
  /\ sl \in [0 .. BufferFrames - 1 -> SlotType]
  /\ \A i \in 0 .. BufferFrames - 1 :
       sl[i].ready => sl[i].len \in 1 .. PacketLength /\ BUFIDX(sl[i].seq) = i

LEMMA StoredOK ==
  ASSUME SlotsOK(slots), now \in 0 .. MaxTime,
         NEW place, NEW p \in Packets, NEW ok
  PROVE  SlotsOK(Stored(place, p, ok))
<1> DEFINE I   == 0 .. BufferFrames - 1
           j   == BUFIDX(SeqOf(p))
           old == [i \in DOMAIN slots |->
                     IF i \in {BUFIDX(s) : s \in place.gap} THEN MissingSlot(slots[i])
                                                            ELSE slots[i]]
           filled == IF ok THEN GoodSlot(SeqOf(p), TsOf(p)) ELSE MissingSlot(old[j])
<1>1. p \in Int  BY DEF Packets
<1>2. j \in I  BY <1>1, SeqOfType, IndexType, Sizes
<1>3. DOMAIN slots = I  BY DEF SlotsOK
<1>4. \A slot \in SlotType : MissingSlot(slot) \in SlotType /\ ~MissingSlot(slot).ready
  <2> SUFFICES ASSUME NEW slot \in SlotType
               PROVE  MissingSlot(slot) \in SlotType /\ ~MissingSlot(slot).ready
    OBVIOUS
  <2>1. 0 \in Seqs /\ 0 \in Stamps /\ 0 \in 0 .. MaxTime
    BY PlayerBufferAssumption DEF Seqs, Stamps
  <2>2. MissingSlot(slot) \in SlotType  BY <2>1 DEF SlotType, MissingSlot
  <2>3. ~MissingSlot(slot).ready  BY DEF SlotType, MissingSlot
  <2> QED  BY <2>2, <2>3
<1>5. SlotsOK(old)
  <2>1. \A i \in I : old[i] = IF i \in {BUFIDX(s) : s \in place.gap}
                                THEN MissingSlot(slots[i]) ELSE slots[i]
    BY <1>3
  <2>2. old = [i \in I |-> old[i]]  BY <1>3
  <2>3. \A i \in I : slots[i] \in SlotType  BY DEF SlotsOK
  <2>4. \A i \in I : old[i] \in SlotType  BY <2>1, <2>3, <1>4
  <2>5. \A i \in I : old[i].ready => old[i] = slots[i]  BY <2>1, <2>3, <1>4
  <2> HIDE DEF old
  <2> QED  BY <2>2, <2>4, <2>5 DEF SlotsOK
<1>6. GoodSlot(SeqOf(p), TsOf(p)) \in SlotType
  BY <1>1, SeqOfType, TsOfType, PlayerBufferAssumption DEF GoodSlot, SlotType
<1>7. /\ GoodSlot(SeqOf(p), TsOf(p)).len = PacketLength
      /\ GoodSlot(SeqOf(p), TsOf(p)).seq = SeqOf(p)
  BY DEF GoodSlot
<1> HIDE DEF old
<1>8. old[j] \in SlotType  BY <1>2, <1>5 DEF SlotsOK
<1>9. /\ filled \in SlotType
      /\ filled.ready => filled.len \in 1 .. PacketLength /\ BUFIDX(filled.seq) = j
  BY <1>4, <1>6, <1>7, <1>8, PlayerBufferAssumption
<1> HIDE DEF filled
<1>10. SlotsOK([old EXCEPT ![j] = filled])
  <2> HIDE DEF j
  <2> QED  BY <1>2, <1>5, <1>9 DEF SlotsOK
<1>11. Stored(place, p, ok) = IF place.keep THEN [old EXCEPT ![j] = filled] ELSE old
  BY DEF Stored, old, filled
<1> QED  BY <1>5, <1>10, <1>11

\* A check that meets no missing frame has looked at all of them; one that
\* does notes the first, and one that stops to ask has met one.
LEMMA ScanFacts ==
  ASSUME NEW sl, NEW x \in Seqs, NEW wr \in Seqs
  PROVE  LET scan  == Scan(sl, x, wr)
             At(k) == sl[BUFIDX(x + k)]
         IN  /\ scan.send \in BOOLEAN /\ scan.absent \in BOOLEAN
             /\ scan.marked \subseteq Seqs /\ scan.start \in Seqs
             /\ scan.next \in Seqs /\ scan.first \in Seqs \cup {-1}
             /\ scan.send => scan.absent
             /\ ~scan.absent => /\ scan.first = -1
                                /\ \A k \in 0 .. Dist(x, wr) - 1 : At(k).ready
             /\ scan.absent =>
                  \E k \in 0 .. Dist(x, wr) - 1 :
                    /\ scan.first = Plus(x, k) /\ ~At(k).ready
                    /\ \A j \in 0 .. k - 1 : At(j).ready
<1> DEFINE n      == Dist(x, wr)
           Steps  == 0 .. n - 1
           At(k)  == sl[BUFIDX(x + k)]
           Asked  == {k \in Steps : k < BufferFrames /\ Worth(At(k))}
           Stops  == {k \in Steps : EndOfRun(k, Asked, At(k), n)}
           last   == IF Stops = {} THEN n - 1 ELSE Least(Stops)
           absent == {k \in 0 .. last : ~At(k).ready}
           scan   == Scan(sl, x, wr)
<1>1. x \in Int /\ n \in Nat  BY DistIs, Sizes DEF Seqs
<1>2. /\ scan.send = (Stops # {})
      /\ scan.marked = {Plus(x, k) : k \in {e \in Asked : e <= last}}
      /\ scan.start = IF Stops = {} THEN 0 ELSE Plus(x, Least(Asked))
      /\ scan.next = Plus(x, last + 1)
      /\ scan.absent = (absent # {})
      /\ scan.first = IF absent = {} THEN -1 ELSE Plus(x, Least(absent))
  BY DEF Scan
<1> HIDE DEF n, scan
<1>3. Asked \subseteq Nat /\ Stops \subseteq Nat  BY <1>1
<1>4. Stops # {} => Least(Stops) \in Stops /\ \A k \in Stops : Least(Stops) <= k
  BY <1>3, LeastExists
<1>5. last \in Int /\ last <= n - 1 /\ (Stops # {} => last \in Stops)
  <2>1. CASE Stops = {}
    <3>1. last = n - 1  BY <2>1
    <3> HIDE DEF last, Stops
    <3> QED  BY <3>1, <2>1, <1>1
  <2>2. CASE Stops # {}
    <3>1. last = Least(Stops)  BY <2>2
    <3>2. \A k \in Stops : k \in 0 .. n - 1  OBVIOUS
    <3> HIDE DEF last, Stops
    <3> QED  BY <3>1, <3>2, <2>2, <1>1, <1>4
  <2> QED  BY <2>1, <2>2
<1>6. Stops # {} => \E e \in Asked : e <= last  BY <1>5 DEF EndOfRun
<1>7. \A e \in Asked : e <= last => e \in absent  BY <1>1, <1>5 DEF Worth
<1> HIDE DEF Asked, Stops, last
<1>8. absent \subseteq Nat  BY <1>5
<1>9. absent # {} => Least(absent) \in absent /\ \A k \in absent : Least(absent) <= k
  BY <1>8, LeastExists
<1>10. Asked # {} => Least(Asked) \in Nat  BY <1>3, LeastExists
<1>11. scan.marked \subseteq Seqs /\ scan.start \in Seqs /\ scan.next \in Seqs
  <2>1. scan.marked \subseteq Seqs  BY <1>1, <1>2, <1>3, PlusType
  <2>2. scan.start \in Seqs
    <3>1. Stops # {} => Plus(x, Least(Asked)) \in Seqs
      BY <1>1, <1>6, <1>10, PlusType
    <3>2. 0 \in Seqs  BY PlayerBufferAssumption DEF Seqs
    <3> QED  BY <1>2, <3>1, <3>2
  <2>3. last + 1 \in Int  BY <1>5
  <2> QED  BY <1>1, <1>2, <2>1, <2>2, <2>3, PlusType
<1>12. scan.send \in BOOLEAN /\ scan.absent \in BOOLEAN  BY <1>2
<1>13. scan.send => scan.absent  BY <1>2, <1>6, <1>7
<1>14. ~scan.absent => /\ scan.first = -1 /\ \A k \in Steps : At(k).ready
  <2> SUFFICES ASSUME ~scan.absent
               PROVE  scan.first = -1 /\ \A k \in Steps : At(k).ready
    OBVIOUS
  <2>1. absent = {} /\ scan.first = -1  BY <1>2
  <2>2. Stops = {}  BY <2>1, <1>6, <1>7
  <2>3. last = n - 1  BY <2>2 DEF last
  <2> QED  BY <2>1, <2>3
<1>15. scan.absent => \E k \in Steps : /\ scan.first = Plus(x, k) /\ ~At(k).ready
                                       /\ \A j \in 0 .. k - 1 : At(j).ready
  <2> SUFFICES ASSUME scan.absent
               PROVE  \E k \in Steps : /\ scan.first = Plus(x, k) /\ ~At(k).ready
                                       /\ \A j \in 0 .. k - 1 : At(j).ready
    OBVIOUS
  <2> DEFINE k == Least(absent)
  <2>1. k \in absent /\ (\A j \in absent : k <= j) /\ scan.first = Plus(x, k)
    BY <1>2, <1>9
  <2> HIDE DEF k
  <2>2. k \in 0 .. last /\ ~At(k).ready /\ k \in Steps  BY <2>1, <1>1, <1>5
  <2>3. \A j \in 0 .. k - 1 : At(j).ready
    <3> SUFFICES ASSUME NEW j \in 0 .. k - 1, ~At(j).ready  PROVE FALSE
      OBVIOUS
    <3>1. j \in absent  BY <2>2, <1>5
    <3> QED  BY <2>1, <2>2, <3>1
  <2> QED  BY <2>1, <2>2, <2>3
<1>16. scan.first \in Seqs \cup {-1}  BY <1>1, <1>14, <1>15, PlusType
<1> QED  BY <1>11, <1>12, <1>13, <1>14, <1>15, <1>16 DEF n, scan

\* The check writes nothing but the time of asking.
LEMMA CheckChangesAsked ==
  ASSUME NEW sl, SlotsOK(sl), NEW r, NEW x, NEW wr, NEW fpm, NEW absent,
         CheckFrom(r, sl, x, wr, fpm, absent)
  PROVE  \A i \in 0 .. BufferFrames - 1 :
           /\ slots'[i].ready = sl[i].ready /\ slots'[i].seq = sl[i].seq
           /\ slots'[i].ts = sl[i].ts /\ slots'[i].len = sl[i].len
<1> SUFFICES ASSUME NEW i \in 0 .. BufferFrames - 1
             PROVE  /\ slots'[i].ready = sl[i].ready /\ slots'[i].seq = sl[i].seq
                    /\ slots'[i].ts = sl[i].ts /\ slots'[i].len = sl[i].len
  OBVIOUS
<1>1. i \in DOMAIN sl /\ sl[i] \in SlotType  BY DEF SlotsOK
<1>2. slots'[i] = sl[i] \/ slots'[i] = [sl[i] EXCEPT !.asked = now]
  BY <1>1, Zenon DEF CheckFrom
<1> QED  BY <1>1, <1>2 DEF SlotType

ReceiverState == [at : {"idle", "put", "sending"}, packet : Packets, x : Seqs,
                  absent : BOOLEAN, start : Seqs, marked : SUBSET Seqs]

LEMMA IdleType == Idle \in ReceiverState
BY PlayerBufferAssumption DEF Idle, ReceiverState, Packets, Seqs

LEMMA CheckFromOK ==
  ASSUME NEW sl, SlotsOK(sl), now \in 0 .. MaxTime,
         rx \in [Receivers -> ReceiverState], NEW r \in Receivers,
         NEW x \in Seqs, NEW wr \in Seqs, NEW fpm \in Seqs \cup {-1}, NEW absent \in BOOLEAN,
         CheckFrom(r, sl, x, wr, fpm, absent)
  PROVE  /\ SlotsOK(slots')
         /\ first_possibly_missing_frame' \in Seqs \cup {-1}
         /\ rx' \in [Receivers -> ReceiverState]
<1> DEFINE scan == Scan(sl, x, wr)
           sent == [at |-> "sending", packet |-> 0, x |-> scan.next,
                    absent |-> ~NoneMissing(absent, scan), start |-> scan.start,
                    marked |-> scan.marked]
<1>1. /\ scan.send \in BOOLEAN /\ scan.marked \subseteq Seqs /\ scan.start \in Seqs
      /\ scan.next \in Seqs /\ scan.first \in Seqs \cup {-1}
  BY ScanFacts
<1>2. SlotsOK(slots')
  <2>1. slots' = [i \in DOMAIN sl |-> slots'[i]]  BY Zenon DEF CheckFrom
  <2>2. DOMAIN sl = 0 .. BufferFrames - 1  BY DEF SlotsOK
  <2>3. \A i \in 0 .. BufferFrames - 1 : slots'[i] \in SlotType
    <3> SUFFICES ASSUME NEW i \in 0 .. BufferFrames - 1  PROVE slots'[i] \in SlotType
      OBVIOUS
    <3>1. sl[i] \in SlotType  BY DEF SlotsOK
    <3>2. slots'[i] = sl[i] \/ slots'[i] = [sl[i] EXCEPT !.asked = now]
      BY <2>2, Zenon DEF CheckFrom
    <3> QED  BY <3>1, <3>2 DEF SlotType
  <2> QED  BY <2>1, <2>2, <2>3, CheckChangesAsked DEF SlotsOK
<1>3. first_possibly_missing_frame' \in Seqs \cup {-1}
  <2> HIDE DEF scan
  <2>1. first_possibly_missing_frame' \in {wr, fpm, scan.first}
    BY DEF CheckFrom, scan
  <2> QED  BY <1>1, <2>1
<1>4. sent \in ReceiverState
  <2>1. 0 \in Packets  BY PlayerBufferAssumption DEF Packets
  <2>2. (~NoneMissing(absent, scan)) \in BOOLEAN  OBVIOUS
  <2> HIDE DEF scan
  <2> QED  BY <1>1, <2>1, <2>2 DEF ReceiverState
<1>5. rx' = [rx EXCEPT ![r] = IF scan.send THEN sent ELSE Idle]  BY DEF CheckFrom
<1>6. rx' \in [Receivers -> ReceiverState]
  <2> HIDE DEF sent, scan
  <2> QED  BY <1>4, <1>5, IdleType
<1> QED  BY <1>2, <1>3, <1>6

-----------------------------------------------------------------------------
(* What the parts of buffer_get_frame return. *)

LEMMA SignedDiffBack ==
  ASSUME NEW a \in Stamps, NEW b \in Stamps, SignedDiff(a, b) >= 0
  PROVE  SignedDiff(b, a) <= 0
BY SignedDiffIs, PlayerBufferAssumption DEF Stamps

\* A frame cut off at f, which it contains, keeps at least one sample.
LEMMA TrimmedOK ==
  ASSUME NEW slot \in SlotType, slot.ready => slot.len \in 1 .. PacketLength,
         NEW f \in Stamps, SignedDiff(f, LastFrame(slot)) <= 0
  PROVE  /\ Trimmed(slot, f) \in SlotType
         /\ Trimmed(slot, f).ready = slot.ready /\ Trimmed(slot, f).seq = slot.seq
         /\ slot.ready => Trimmed(slot, f).len \in 1 .. PacketLength
<1> DEFINE d == SignedDiff(f, slot.ts)
<1>1. slot.ts \in Stamps /\ slot.len \in Int  BY DEF SlotType
<1>2. d \in Int  BY <1>1, SignedDiffIs, PlayerBufferAssumption DEF Stamps
<1>3. ASSUME slot.ready, d > 0  PROVE slot.len - d \in 1 .. PacketLength
  <2> DEFINE e == slot.ts + slot.len - 1
             l == LastFrame(slot)
  <2>1. slot.len \in 1 .. PacketLength  BY <1>3
  <2>2. e \in 0 .. 2 * TsMod - 1  BY <1>1, <2>1, PlayerBufferAssumption DEF Stamps
  <2>3. l = IF e < TsMod THEN e ELSE e - TsMod
    <3>1. l = e % TsMod  BY DEF LastFrame
    <3> HIDE DEF e
    <3> QED  BY <2>2, <3>1, OneTurn, Sizes
  <2>4. l \in Stamps  BY <2>2, <2>3, Sizes DEF Stamps
  <2>5. SignedDiff(f, l) <= 0  OBVIOUS
  <2> HIDE DEF l
  <2>6. LET g == IF l <= f THEN f - l ELSE f - l + TsMod
        IN  (IF 2 * g >= TsMod THEN g - TsMod ELSE g) <= 0
    BY <2>4, <2>5, SignedDiffIs
  <2>7. LET g == IF slot.ts <= f THEN f - slot.ts ELSE f - slot.ts + TsMod
        IN  d = IF 2 * g >= TsMod THEN g - TsMod ELSE g
    BY <1>1, SignedDiffIs
  <2> HIDE DEF d
  <2> QED
    BY <1>1, <1>3, <2>1, <2>3, <2>4, <2>6, <2>7, PlayerBufferAssumption DEF Stamps
<1>4. ASSUME d > 0
      PROVE  LET new == [slot EXCEPT !.ts = f, !.len = @ - d]
             IN  /\ new \in SlotType /\ new.ready = slot.ready /\ new.seq = slot.seq
                 /\ new.len = slot.len - d
  <2>1. slot.len - d \in Int  BY <1>1, <1>2
  <2> HIDE DEF d
  <2> QED  BY <2>1 DEF SlotType
<1>5. Trimmed(slot, f) = IF d > 0 THEN [slot EXCEPT !.ts = f, !.len = @ - d] ELSE slot
  BY DEF Trimmed
<1> HIDE DEF d
<1> QED  BY <1>3, <1>4, <1>5

\* The packets passed over by a flush up to f stop at one that is not before f.
LEMMA FlushedIs ==
  ASSUME TypeOK, FlushVerdict = "part"
  PROVE  LET f == flush_rtp_timestamp
             k == FlushedPackets(f)
         IN  /\ f \in Stamps /\ ab_synced /\ k \in 0 .. Dist(ab_read, ab_write) - 1
             /\ SignedDiff(f, LastFrame(slots[BUFIDX(ab_read + k)])) <= 0
<1> DEFINE f == flush_rtp_timestamp
           n == Dist(ab_read, ab_write)
           T == {k \in 0 .. n - 1 : SignedDiff(f, LastFrame(slots[BUFIDX(ab_read + k)])) <= 0}
<1>1. /\ ab_read \in Seqs /\ ab_write \in Seqs /\ f \in Stamps
      /\ slots \in [0 .. BufferFrames - 1 -> SlotType]
  BY DEF TypeOK
<1>2. BufferNotEmpty /\ SignedDiff(LastFrame(Last), f) >= 0
  BY DEF FlushVerdict
<1>3. ab_synced /\ ab_read < ab_write /\ n = ab_write - ab_read
  <2>1. ab_synced /\ ab_write - ab_read > 0  BY <1>2 DEF BufferNotEmpty
  <2>2. n = IF ab_read <= ab_write THEN ab_write - ab_read ELSE ab_write - ab_read + SeqMod
    BY <1>1, DistIs
  <2> HIDE DEF n
  <2> QED  BY <1>1, <2>1, <2>2, Sizes DEF Seqs
<1>4. Last = slots[BUFIDX(ab_read + (n - 1))]
  <2>1. ab_write \in Int /\ ab_write + -1 = ab_read + (n - 1)
    BY <1>1, <1>3, Sizes DEF Seqs
  <2> HIDE DEF n
  <2>2. BUFIDX(Plus(ab_write, -1)) = BUFIDX(ab_write + -1)
    BY <2>1, IndexOfPlus
  <2> QED  BY <2>1, <2>2 DEF Last
<1>5. LastFrame(Last) \in Stamps
  <2>1. BUFIDX(Plus(ab_write, -1)) \in 0 .. BufferFrames - 1
    <3>1. ab_write \in Int /\ -1 \in Int  BY <1>1, Sizes
    <3>2. Plus(ab_write, -1) \in Seqs  BY <3>1, PlusType
    <3>3. Plus(ab_write, -1) \in Int  BY <3>2, Sizes
    <3> QED  BY <3>3, IndexType
  <2>2. Last \in SlotType  BY <1>1, <2>1 DEF Last
  <2>3. Last.ts + Last.len - 1 \in Int  BY <2>2, Sizes DEF SlotType, Stamps
  <2> QED  BY <2>3, StampType DEF LastFrame
<1>6. SignedDiff(f, LastFrame(Last)) <= 0  BY <1>1, <1>2, <1>5, SignedDiffBack
<1>7. n - 1 \in T /\ T \subseteq Nat
  <2>1. n - 1 \in 0 .. n - 1  BY <1>1, <1>3, Sizes DEF Seqs
  <2> HIDE DEF n
  <2> QED  BY <1>4, <1>6, <2>1
<1>8. Least(T) \in T  BY <1>7, LeastExists
<1> QED  BY <1>1, <1>3, <1>8 DEF FlushedPackets

LEMMA FlushOK ==
  ASSUME TypeOK, SlotsOK(slots), HandleFlush
  PROVE  /\ SlotsOK(slots') /\ ab_read' \in Seqs /\ ab_synced' \in BOOLEAN
         /\ ab_buffering' \in BOOLEAN /\ first_packet_timestamp' \in Stamps
         /\ last_given' \in Stamps \cup {-1}
<1>1. CASE FlushVerdict \in {"all", "all but keep"}
  <2>1. ab_resync  BY <1>1, Zenon DEF HandleFlush
  <2>2. SlotsOK(slots')
    <3>1. DOMAIN slots = 0 .. BufferFrames - 1  BY DEF TypeOK
    <3>2. \A i \in 0 .. BufferFrames - 1 :
            slots'[i] = [slots[i] EXCEPT !.ready = FALSE, !.seq = 0, !.init = 0, !.asked = 0]
      BY <2>1, <3>1 DEF ab_resync
    <3>3. \A i \in 0 .. BufferFrames - 1 : slots'[i] \in SlotType /\ ~slots'[i].ready
      <4> SUFFICES ASSUME NEW i \in 0 .. BufferFrames - 1
                   PROVE  slots'[i] \in SlotType /\ ~slots'[i].ready
        OBVIOUS
      <4>1. 0 \in Seqs /\ 0 \in 0 .. MaxTime  BY PlayerBufferAssumption DEF Seqs
      <4>2. slots[i] \in SlotType  BY DEF SlotsOK
      <4> QED  BY <3>2, <4>1, <4>2 DEF SlotType
    <3>4. slots' = [i \in 0 .. BufferFrames - 1 |-> slots'[i]]
      BY <2>1, <3>1 DEF ab_resync
    <3> QED  BY <3>3, <3>4 DEF SlotsOK
  <2>3. /\ ab_read' \in Seqs /\ ab_synced' = FALSE /\ ab_buffering' = TRUE
        /\ first_packet_timestamp' = 0 /\ last_given' = -1
    BY <2>1 DEF ab_resync, TypeOK
  <2>4. 0 \in Stamps  BY PlayerBufferAssumption DEF Stamps
  <2> QED  BY <2>2, <2>3, <2>4
<1>2. CASE FlushVerdict = "part"
  <2> DEFINE f  == flush_rtp_timestamp
             k  == FlushedPackets(f)
             rd == Plus(ab_read, k)
             i  == BUFIDX(rd)
  <2>1. FlushPart(f)  BY <1>2, Zenon DEF HandleFlush
  <2>2. /\ f \in Stamps /\ k \in Int
        /\ SignedDiff(f, LastFrame(slots[BUFIDX(ab_read + k)])) <= 0
    BY <1>2, FlushedIs
  <2>3. ab_read \in Int  BY Sizes DEF TypeOK
  <2> HIDE DEF f, k
  <2>4. rd \in Seqs /\ i = BUFIDX(ab_read + k) /\ i \in 0 .. BufferFrames - 1
    BY <2>2, <2>3, PlusType, IndexOfPlus, IndexType, Sizes
  <2>5. ab_read' = rd /\ slots' = [slots EXCEPT ![i] = Trimmed(slots[i], f)]
        /\ UNCHANGED <<ab_synced, ab_buffering, first_packet_timestamp, last_given>>
    BY <2>1 DEF FlushPart, k
  <2> HIDE DEF i, rd
  <2>6. /\ Trimmed(slots[i], f) \in SlotType
        /\ Trimmed(slots[i], f).ready = slots[i].ready
        /\ Trimmed(slots[i], f).seq = slots[i].seq
        /\ slots[i].ready => Trimmed(slots[i], f).len \in 1 .. PacketLength
    <3>1. slots[i] \in SlotType /\ (slots[i].ready => slots[i].len \in 1 .. PacketLength)
      BY <2>4 DEF SlotsOK
    <3> QED  BY <2>2, <2>4, <3>1, TrimmedOK
  <2>7. SlotsOK(slots')  BY <2>4, <2>5, <2>6 DEF SlotsOK
  <2> QED  BY <2>4, <2>5, <2>7 DEF TypeOK
<1>3. CASE FlushVerdict \notin {"all", "all but keep", "part"}
  <2>1. UNCHANGED <<slots, ab_read, ab_synced, ab_buffering,
                    first_packet_timestamp, last_given>>
    BY <1>3, Zenon DEF HandleFlush
  <2> QED  BY <2>1 DEF TypeOK
<1> QED  BY <1>1, <1>2, <1>3

\* Frames are skipped up to the end of the buffer at most.
LEMMA SkippedType ==
  ASSUME ab_read \in Seqs, ab_write \in Seqs
  PROVE  Skipped \in 0 .. Dist(ab_read, ab_write)
<1> DEFINE n   == Dist(ab_read, ab_write)
           aim == IF first_packet_timestamp = 0 THEN LeadTime ELSE 0
           T   == {k \in 0 .. n : k = n \/ InDate(slots[BUFIDX(ab_read + k)], aim)}
<1>1. n \in Nat  BY DistIs, Sizes DEF Seqs
<1> HIDE DEF n
<1>2. n \in T /\ T \subseteq Nat  BY <1>1
<1>3. Least(T) \in T  BY <1>2, LeastExists
<1>4. Skipped = IF BufferNotEmpty THEN Least(T) ELSE 0  BY DEF Skipped, n
<1> QED  BY <1>1, <1>3, <1>4 DEF n

\* A released frame leaves its slot; a frame is released only from a buffer that
\* is not empty, and the frame looked at is the one at the read position unless
\* the slot says that it holds a later one.
LEMMA GetFrameOK ==
  ASSUME TypeOK, SlotsOK(slots), GetFrame
  PROVE  LET rd1 == Plus(ab_read, Skipped)
             rd  == Unaliased(rd1)
             i   == BUFIDX(rd)
         IN  /\ rd1 \in Seqs /\ rd \in Seqs /\ BUFIDX(rd1) = i
             /\ SlotsOK(slots') /\ ab_buffering' \in BOOLEAN
             /\ first_packet_timestamp' \in Stamps /\ ab_read' \in Seqs
             /\ playing' \in 0 .. BufferFrames - 1
             /\ \/ UNCHANGED <<slots, playing, ab_read>> /\ pc' = "top"
                \/ UNCHANGED <<slots, playing>> /\ pc' = "top" /\ ab_read' = rd /\ ab_synced
                \/ /\ rd # ab_write /\ ab_synced /\ Release(rd)
                   /\ \A j \in 0 .. BufferFrames - 1 :
                        /\ slots'[j].seq = slots[j].seq /\ slots'[j].len = slots[j].len
                        /\ j # i => slots'[j] = slots[j]
                        /\ j = i => ~slots'[j].ready
<1> DEFINE rd1 == Plus(ab_read, Skipped)
           rd  == Unaliased(rd1)
           i   == BUFIDX(rd)
           cur == slots[BUFIDX(rd1)]
           fpt == IF ab_buffering /\ cur.ready /\ first_packet_timestamp = 0
                    THEN cur.ts ELSE first_packet_timestamp
<1>1. ab_read \in Seqs /\ ab_write \in Seqs /\ ab_buffering \in BOOLEAN
      /\ first_packet_timestamp \in Stamps /\ playing \in 0 .. BufferFrames - 1
  BY DEF TypeOK
<1>2. Skipped \in Int /\ rd1 \in Seqs /\ BUFIDX(rd1) \in 0 .. BufferFrames - 1
  <2>1. Skipped \in Int  BY <1>1, SkippedType, DistIs, Sizes DEF Seqs
  <2>2. ab_read \in Int  BY <1>1 DEF Seqs
  <2>3. rd1 \in Seqs  BY <2>1, <2>2, PlusType, Sizes
  <2>4. rd1 \in Int  BY <2>3 DEF Seqs
  <2> QED  BY <2>1, <2>3, <2>4, IndexType, Sizes
<1>3. cur \in SlotType  BY <1>2 DEF SlotsOK
<1>4. rd \in Seqs /\ i = BUFIDX(rd1)  BY <1>2, <1>3 DEF Unaliased, SlotType
<1>5. i \in 0 .. BufferFrames - 1  BY <1>2, <1>4
<1>6. fpt \in Stamps /\ 0 \in Stamps
  BY <1>1, <1>3, PlayerBufferAssumption DEF SlotType, Stamps
<1>7. ab_buffering' \in BOOLEAN
  BY <1>1 DEF GetFrame, StillBuffering
<1>8. first_packet_timestamp' \in {first_packet_timestamp, 0, fpt}
  BY Zenon DEF GetFrame
<1>9. \/ UNCHANGED <<slots, playing, ab_read>> /\ pc' = "top"
      \/ UNCHANGED <<slots, playing>> /\ pc' = "top" /\ ab_read' = rd /\ ab_synced
      \/ rd # ab_write /\ ab_synced /\ Release(rd)
  BY Zenon DEF GetFrame
<1>10. ASSUME Release(rd)
       PROVE  /\ SlotsOK(slots') /\ ab_read' \in Seqs /\ playing' = i
              /\ \A j \in 0 .. BufferFrames - 1 :
                   /\ slots'[j].seq = slots[j].seq /\ slots'[j].len = slots[j].len
                   /\ j # i => slots'[j] = slots[j]
                   /\ j = i => ~slots'[j].ready
  <2> DEFINE ts == IF slots[i].ready THEN slots[i].ts ELSE 0
  <2> HIDE DEF i, rd
  <2>1. ts \in Stamps  BY <1>5, <1>6 DEF SlotsOK, SlotType
  <2>2. slots' = [slots EXCEPT ![i].ready = FALSE, ![i].ts = ts]
    BY <1>10 DEF Release, i
  <2> HIDE DEF ts
  <2>3. \A j \in 0 .. BufferFrames - 1 : j # i => slots'[j] = slots[j]
    BY <2>2, <1>5 DEF SlotsOK
  <2>4. /\ slots'[i] \in SlotType /\ ~slots'[i].ready
        /\ slots'[i].seq = slots[i].seq /\ slots'[i].len = slots[i].len
    BY <2>1, <2>2, <1>5 DEF SlotsOK, SlotType
  <2>5. slots' = [j \in 0 .. BufferFrames - 1 |-> slots'[j]]
    BY <2>2 DEF SlotsOK
  <2>6. SlotsOK(slots')  BY <2>3, <2>4, <2>5 DEF SlotsOK
  <2>7. ab_read' \in Seqs /\ playing' = i
    BY <1>10, <1>4, PlusType, Sizes DEF Release, i
  <2> QED  BY <2>3, <2>4, <2>6, <2>7
<1> HIDE DEF rd1, rd, i, cur, fpt
<1>11. SlotsOK(slots') /\ ab_read' \in Seqs /\ playing' \in 0 .. BufferFrames - 1
  BY <1>1, <1>4, <1>5, <1>9, <1>10
<1>12. first_packet_timestamp' \in Stamps  BY <1>1, <1>6, <1>8
<1> QED  BY <1>2, <1>4, <1>7, <1>9, <1>10, <1>11, <1>12 DEF rd1, rd, i

-----------------------------------------------------------------------------
(* Type correctness, together with what every slot holds. *)

TypeInv == TypeOK /\ SlotsOK(slots)

LEMMA PlacedType ==
  ASSUME ab_read \in Seqs, ab_write \in Seqs, NEW s \in Seqs
  PROVE  Placed(s).rd \in Seqs /\ Placed(s).wr \in Seqs
<1>1. s \in Int /\ 1 \in Int  BY Sizes
<1>2. Plus(s, 1) \in Seqs  BY <1>1, PlusType
<1> QED  BY <1>2 DEF Placed

LEMMA CheckStartType ==
  ASSUME TypeOK, NEW rd \in Seqs, NEW wr
  PROVE  CheckStart(rd, wr) \in Seqs
BY DEF CheckStart, TypeOK

LEMMA PutTyped ==
  ASSUME TypeInv, NEW r \in Receivers, NEW p \in Packets, NEW ok,
         player_put_packet(r, p, ok), arrivals' \in 0 .. MaxArrivals
  PROVE  TypeInv'
<1> USE DEF TypeInv
<1> DEFINE place == Placed(SeqOf(p))
           sl    == Stored(place, p, ok)
           x     == CheckStart(place.rd, place.wr)
<1>1. UNCHANGED <<flush, output, player, now, flushes, toggles>> /\ packet_seen' = TRUE
  BY DEF player_put_packet
<1>2. CASE connection_state_to_output
  <2>1. /\ ab_read' = place.rd /\ ab_write' = place.wr /\ ab_synced' = TRUE
        /\ first_packet_timestamp' = IF ab_synced THEN first_packet_timestamp ELSE 0
        /\ CheckFrom(r, sl, x, place.wr, -1, FALSE)
        /\ UNCHANGED ab_buffering
    BY <1>2, Zenon DEF player_put_packet
  <2>2. SeqOf(p) \in Seqs  BY SeqOfType DEF Packets
  <2>3. place.rd \in Seqs /\ place.wr \in Seqs  BY <2>2, PlacedType DEF TypeOK
  <2>4. SlotsOK(sl) /\ x \in Seqs
    <3>1. now \in 0 .. MaxTime  BY PlayerBufferAssumption DEF TypeOK
    <3>2. SlotsOK(sl)  BY <3>1, StoredOK
    <3> QED  BY <2>3, <3>2, CheckStartType
  <2> HIDE DEF sl, x, place
  <2>5. /\ SlotsOK(slots') /\ first_possibly_missing_frame' \in Seqs \cup {-1}
        /\ rx' \in [Receivers -> ReceiverState]
    <3>1. now \in 0 .. MaxTime  BY PlayerBufferAssumption DEF TypeOK
    <3>2. rx \in [Receivers -> ReceiverState]  BY DEF TypeOK, ReceiverState
    <3> QED  BY <2>1, <2>3, <2>4, <3>1, <3>2, CheckFromOK
  <2>6. first_packet_timestamp' \in Stamps
    BY <2>1, PlayerBufferAssumption DEF TypeOK, Stamps
  <2> QED
    BY <1>1, <2>1, <2>3, <2>5, <2>6
    DEF TypeOK, SlotsOK, ReceiverState, flush, output, player
<1>3. CASE ~connection_state_to_output
  <2>1. rx' = [rx EXCEPT ![r] = Idle] /\ UNCHANGED input
    BY <1>3, Zenon DEF player_put_packet
  <2>2. rx' \in [Receivers -> ReceiverState]
    BY <2>1, IdleType DEF TypeOK, ReceiverState
  <2> QED
    BY <1>1, <2>1, <2>2 DEF TypeOK, ReceiverState, input, flush, output, player
<1> QED  BY <1>2, <1>3

LEMMA TypeInit == Init => TypeInv
<1> SUFFICES ASSUME Init  PROVE TypeInv
  OBVIOUS
<1>1. 0 \in Seqs /\ 0 \in Stamps /\ 0 \in 0 .. MaxTime /\ StartTime \in StartTime .. MaxTime
      /\ 0 \in 0 .. BufferFrames - 1 /\ 0 \in 0 .. MaxArrivals
      /\ 0 \in 0 .. MaxFlushes /\ 0 \in 0 .. MaxToggles
  BY PlayerBufferAssumption DEF Seqs, Stamps
<1>2. BlankSlot \in SlotType /\ ~BlankSlot.ready  BY <1>1 DEF BlankSlot, SlotType
<1>3. SlotsOK(slots)  BY <1>2 DEF Init, SlotsOK
<1>4. rx \in [Receivers -> ReceiverState]  BY IdleType DEF Init
<1> QED  BY <1>1, <1>3, <1>4 DEF Init, TypeInv, TypeOK, SlotsOK, ReceiverState

LEMMA TypeStep == TypeInv /\ [Next]_vars => TypeInv'
<1> SUFFICES ASSUME TypeInv, [Next]_vars  PROVE TypeInv'
  OBVIOUS
<1> USE DEF TypeInv
<1>0. rx \in [Receivers -> ReceiverState] /\ DOMAIN slots = 0 .. BufferFrames - 1
  BY DEF TypeOK, ReceiverState
<1>1. ASSUME NEW r \in Receivers, NEW p \in Packets, ClearEarlyFlush(r, p)
      PROVE  TypeInv'
  <2>1. rx' \in [Receivers -> ReceiverState]
    <3>1. [Idle EXCEPT !.at = "put", !.packet = p] \in ReceiverState
      BY IdleType DEF ReceiverState
    <3>2. rx' = [rx EXCEPT ![r] = [Idle EXCEPT !.at = "put", !.packet = p]]
      BY <1>1 DEF ClearEarlyFlush
    <3> QED  BY <1>0, <3>1, <3>2
  <2>2. arrivals' \in 0 .. MaxArrivals
    <3>1. arrivals < MaxArrivals /\ arrivals' = arrivals + 1
      BY <1>1, Zenon DEF ClearEarlyFlush, Arriving
    <3> QED  BY <3>1, PlayerBufferAssumption DEF TypeOK
  <2>3. 0 \in Stamps  BY PlayerBufferAssumption DEF Stamps
  <2>4. /\ flush_requested' = FALSE /\ flush_rtp_timestamp' = 0
        /\ UNCHANGED <<input, output, player, packet_seen, flush_output_flushed,
                       now, flushes, toggles>>
    BY <1>1 DEF ClearEarlyFlush
  <2>5. /\ slots' \in [0 .. BufferFrames - 1 -> SlotType]
        /\ \A i \in DOMAIN slots' : slots'[i].ready => slots'[i].len \in 1 .. PacketLength
        /\ SlotsOK(slots')
    <3>1. slots' = slots  BY <2>4, Zenon DEF input
    <3> QED  BY <3>1, Zenon DEF TypeOK
  <2>6. /\ ab_read' \in Seqs /\ ab_write' \in Seqs
        /\ ab_synced' \in BOOLEAN /\ ab_buffering' \in BOOLEAN
        /\ first_packet_timestamp' \in Stamps
        /\ first_possibly_missing_frame' \in Seqs \cup {-1}
    BY <2>4, Zenon DEF TypeOK, input
  <2>7. /\ flush_requested' \in BOOLEAN /\ flush_rtp_timestamp' \in Stamps
        /\ flush_output_flushed' \in BOOLEAN /\ packet_seen' \in BOOLEAN
        /\ connection_state_to_output' \in BOOLEAN /\ requested_state' \in BOOLEAN
        /\ timing' \in BOOLEAN
    BY <2>3, <2>4, Zenon DEF TypeOK, output
  <2>8. /\ pc' \in {"init", "top", "flush", "frame", "out"}
        /\ playing' \in 0 .. BufferFrames - 1 /\ last_given' \in Stamps \cup {-1}
    BY <2>4, Zenon DEF TypeOK, player
  <2>9. now' \in StartTime .. MaxTime /\ flushes' \in 0 .. MaxFlushes
        /\ toggles' \in 0 .. MaxToggles
    BY <2>4, Zenon DEF TypeOK
  <2> QED
    BY <2>1, <2>2, <2>5, <2>6, <2>7, <2>8, <2>9, Zenon DEF TypeOK, ReceiverState
<1>2. ASSUME NEW r \in Receivers, NEW ok, PutFirst(r, ok)
      PROVE  TypeInv'
  <2>1. rx[r].packet \in Packets  BY <1>0 DEF ReceiverState
  <2> QED  BY <1>2, <2>1, PutTyped DEF PutFirst, TypeOK
<1>3. ASSUME NEW r \in Receivers, NEW p \in Packets, NEW ok, Put(r, p, ok)
      PROVE  TypeInv'
  <2>1. arrivals' \in 0 .. MaxArrivals
    BY <1>3, PlayerBufferAssumption DEF Put, Arriving, TypeOK
  <2> QED  BY <1>3, <2>1, PutTyped DEF Put
<1>4. ASSUME NEW r \in Receivers, ResumeCheck(r)
      PROVE  TypeInv'
  <2>1. /\ CheckFrom(r, slots, rx[r].x, ab_write, first_possibly_missing_frame, rx[r].absent)
        /\ UNCHANGED <<ab_read, ab_write, ab_synced, ab_buffering,
                       first_packet_timestamp, flush, output, player, env, packet_seen>>
    BY <1>4 DEF ResumeCheck
  <2>2. rx[r].x \in Seqs /\ rx[r].absent \in BOOLEAN  BY <1>0 DEF ReceiverState
  <2>3. /\ now \in 0 .. MaxTime /\ ab_write \in Seqs
        /\ first_possibly_missing_frame \in Seqs \cup {-1}
    BY PlayerBufferAssumption DEF TypeOK
  <2>4. /\ SlotsOK(slots') /\ first_possibly_missing_frame' \in Seqs \cup {-1}
        /\ rx' \in [Receivers -> ReceiverState]
    BY <1>0, <2>1, <2>2, <2>3, CheckFromOK
  <2> QED
    BY <2>1, <2>4 DEF TypeOK, SlotsOK, ReceiverState, flush, output, player, env
<1>5. ASSUME NEW f \in FlushPoints, do_flush(f)
      PROVE  TypeInv'
  <2>1. f \in Stamps
    <3>1. ASSUME NEW p \in 0 .. NumPackets, NEW o \in 0 .. PacketLength - 1
          PROVE  (TsOf(p) + o) % TsMod \in Stamps
      <4>1. TsOf(p) \in Stamps  BY TsOfType
      <4>2. TsOf(p) + o \in Int  BY <4>1, Sizes DEF Stamps
      <4> QED  BY <4>2, StampType
    <3>2. 0 \in Stamps  BY PlayerBufferAssumption DEF Stamps
    <3> QED  BY <3>1, <3>2 DEF FlushPoints
  <2>2. /\ flushes' \in 0 .. MaxFlushes /\ flush_requested' = TRUE
        /\ flush_rtp_timestamp' = f
        /\ UNCHANGED <<input, output, player, rx, packet_seen, flush_output_flushed,
                       now, arrivals, toggles>>
    BY <1>5, PlayerBufferAssumption DEF do_flush, TypeOK
  <2> QED  BY <2>1, <2>2 DEF TypeOK, input, output, player
<1>6. CASE player_thread_start
  <2>1. 0 \in Stamps  BY PlayerBufferAssumption DEF Stamps
  <2>2. SlotsOK(slots')
    <3>1. BlankSlot \in SlotType /\ ~BlankSlot.ready
      BY PlayerBufferAssumption DEF BlankSlot, SlotType, Seqs, Stamps
    <3> QED  BY <1>0, <1>6, <3>1 DEF player_thread_start, SlotsOK
  <2> QED  BY <1>6, <2>1, <2>2 DEF player_thread_start, TypeOK, SlotsOK, env
<1>7. CASE LoopTop
  <2>1. 0 \in Stamps  BY PlayerBufferAssumption DEF Stamps
  <2>2. /\ pc' = "flush" /\ connection_state_to_output' = requested_state
        /\ flush_requested' \in BOOLEAN /\ flush_rtp_timestamp' \in Stamps
        /\ UNCHANGED <<input, flush_output_flushed, timing, requested_state,
                       playing, last_given, rx, packet_seen, env>>
    BY <1>7, <2>1 DEF LoopTop, TypeOK
  <2> QED  BY <2>2 DEF TypeOK, input, env
<1>8. CASE NoFlush
  BY <1>8 DEF NoFlush, TypeOK, input, flush, output, env
<1>9. CASE HandleFlush
  <2>1. /\ SlotsOK(slots') /\ ab_read' \in Seqs /\ ab_synced' \in BOOLEAN
        /\ ab_buffering' \in BOOLEAN /\ first_packet_timestamp' \in Stamps
        /\ last_given' \in Stamps \cup {-1}
    BY <1>9, FlushOK
  <2>2. /\ pc' = "frame"
        /\ UNCHANGED <<ab_write, first_possibly_missing_frame, output, playing, rx,
                       packet_seen, env>>
    BY <1>9 DEF HandleFlush
  <2>3. /\ flush_requested' \in BOOLEAN /\ flush_rtp_timestamp' \in Stamps
        /\ flush_output_flushed' \in BOOLEAN
    <3>1. 0 \in Stamps  BY PlayerBufferAssumption DEF Stamps
    <3>2. CASE FlushVerdict \in {"all", "part", "expired"}
      BY <1>9, <3>1, <3>2 DEF HandleFlush, TypeOK
    <3>3. CASE FlushVerdict \notin {"all", "part", "expired"}
      BY <1>9, <3>3 DEF HandleFlush, TypeOK
    <3> QED  BY <3>2, <3>3
  <2> QED  BY <2>1, <2>2, <2>3 DEF TypeOK, SlotsOK, output, env
<1>10. CASE GetFrame
  <2>1. /\ SlotsOK(slots') /\ ab_buffering' \in BOOLEAN /\ first_packet_timestamp' \in Stamps
        /\ ab_read' \in Seqs /\ playing' \in 0 .. BufferFrames - 1
        /\ pc' \in {"top", "out"}
    BY <1>10, GetFrameOK DEF Release
  <2>2. UNCHANGED <<ab_write, ab_synced, first_possibly_missing_frame, flush, output,
                    last_given, rx, packet_seen, env>>
    BY <1>10 DEF GetFrame
  <2> QED  BY <2>1, <2>2 DEF TypeOK, SlotsOK, flush, output, env
<1>11. CASE PlayFrame
  <2>1. slots[playing].ts \in Stamps  BY DEF TypeOK, SlotType
  <2>2. last_given' \in Stamps \cup {-1}  BY <1>11, <2>1 DEF PlayFrame, TypeOK
  <2> QED  BY <1>11, <2>2 DEF PlayFrame, TypeOK, input, flush, output, env
<1>12. CASE TimingArrives
  BY <1>12 DEF TimingArrives, TypeOK, input, flush, player, env
<1>13. CASE set_requested_connection_state_to_output
  BY <1>13, PlayerBufferAssumption
  DEF set_requested_connection_state_to_output, TypeOK, input, flush, player
<1>14. CASE Tick
  <2>1. now' \in StartTime .. MaxTime
    BY <1>14, PlayerBufferAssumption DEF Tick, TypeOK
  <2> QED  BY <1>14, <2>1 DEF Tick, TypeOK, input, flush, output, player
<1>15. CASE UNCHANGED vars
  BY <1>15 DEF vars, TypeOK, input, flush, output, player, env
<1> QED
  BY <1>1, <1>2, <1>3, <1>4, <1>5, <1>6, <1>7, <1>8, <1>9, <1>10, <1>11, <1>12,
     <1>13, <1>14, <1>15
  DEF Next, Receiver, buffer_get_frame

LEMMA TypeInvariance == Spec => []TypeInv
BY TypeInit, TypeStep, PTL DEF Spec

\* Whatever arrives, is lost, rejected, flushed or laps the ring, the packet
\* buffer_get_frame releases is the one whose turn it is: the test it makes of
\* the sequence number in the slot is enough, for a ring of any size.
THEOREM RightPacket == Spec => ReleasesTheRightPacket
<1>1. TypeInv /\ [Next]_vars =>
        [(pc = "frame" /\ pc' = "out" /\ slots[playing'].ready) =>
            ab_read' = Plus(slots[playing'].seq, 1)]_vars
  <2> SUFFICES ASSUME TypeInv, Next, pc = "frame", pc' = "out", slots[playing'].ready
               PROVE  ab_read' = Plus(slots[playing'].seq, 1)
    OBVIOUS
  <2>1. GetFrame
    BY DEF Next, Receiver, buffer_get_frame, ClearEarlyFlush, PutFirst, Put, ResumeCheck,
           player_put_packet, ABMutexFree, do_flush, player_thread_start, LoopTop,
           NoFlush, HandleFlush, PlayFrame, TimingArrives, Tick, player, output,
           set_requested_connection_state_to_output
  <2> DEFINE rd1 == Plus(ab_read, Skipped)
             rd  == Unaliased(rd1)
  <2>2. rd1 \in Seqs /\ rd \in Seqs /\ BUFIDX(rd1) = BUFIDX(rd)
        /\ rd # ab_write /\ Release(rd)
    BY <2>1, GetFrameOK DEF TypeInv
  <2>3. playing' = BUFIDX(rd) /\ ab_read' = Plus(rd, 1)  BY <2>2 DEF Release
  <2>4. rd = IF /\ rd1 # ab_write /\ slots[BUFIDX(rd1)].ready
                /\ BUFIDX(slots[BUFIDX(rd1)].seq) = BUFIDX(rd1)
               THEN slots[BUFIDX(rd1)].seq ELSE rd1
    BY DEF Unaliased
  <2> HIDE DEF rd1, rd
  <2>5. BUFIDX(rd1) \in 0 .. BufferFrames - 1  BY <2>2, IndexType, Sizes
  <2>6. rd = slots[BUFIDX(rd1)].seq
    BY <2>2, <2>3, <2>4, <2>5 DEF TypeInv, SlotsOK
  <2> QED  BY <2>2, <2>3, <2>6
<1> QED  BY <1>1, TypeInvariance, PTL DEF Spec, ReleasesTheRightPacket

-----------------------------------------------------------------------------
(* A ring that is not lapped.  Everything is measured from the read position. *)

\* The source is never a whole ring ahead of the player, and early and late
\* packets together span less than half the range of sequence numbers, beyond
\* which is_after takes the one for the other.
NeverLapped == /\ MaxAhead < BufferFrames
               /\ MaxAhead + MaxLate + 1 <= SeqMod - SeqMod \div 2
               /\ 3 * MaxAhead + 1 < SeqMod

LEMMA HalfOfSeqMod ==
  /\ SeqMod \div 2 \in Nat /\ SeqMod \div 2 >= 1
  /\ 2 * (SeqMod \div 2) <= SeqMod /\ SeqMod <= 2 * (SeqMod \div 2) + 1
BY PlayerBufferAssumption

LEMMA DistFrom ==
  ASSUME NEW a \in Seqs, NEW b \in Seqs, NEW c \in Seqs
  PROVE  /\ Dist(b, c) = IF Dist(a, b) <= Dist(a, c) THEN Dist(a, c) - Dist(a, b)
                         ELSE Dist(a, c) - Dist(a, b) + SeqMod
         /\ Dist(a, b) = Dist(a, c) <=> b = c
         /\ Dist(a, b) \in 0 .. SeqMod - 1 /\ Dist(a, c) \in 0 .. SeqMod - 1
         /\ Dist(a, a) = 0
<1>1. /\ Dist(b, c) = IF b <= c THEN c - b ELSE c - b + SeqMod
      /\ Dist(a, b) = IF a <= b THEN b - a ELSE b - a + SeqMod
      /\ Dist(a, c) = IF a <= c THEN c - a ELSE c - a + SeqMod
      /\ Dist(a, a) = IF a <= a THEN a - a ELSE a - a + SeqMod
  BY DistIs
<1>2. /\ SeqMod \in Nat /\ a \in 0 .. SeqMod - 1 /\ b \in 0 .. SeqMod - 1
      /\ c \in 0 .. SeqMod - 1
  BY Sizes DEF Seqs
<1> QED  BY <1>1, <1>2

LEMMA DistPlus ==
  ASSUME NEW a \in Seqs, NEW b \in Seqs, NEW k \in 0 .. SeqMod - 1
  PROVE  /\ Plus(b, k) \in Seqs
         /\ Dist(a, Plus(b, k)) = IF Dist(a, b) + k < SeqMod THEN Dist(a, b) + k
                                  ELSE Dist(a, b) + k - SeqMod
<1> DEFINE e == Plus(b, k)
<1>1. /\ k \in Int /\ k \in -1 .. SeqMod /\ a \in Int /\ b \in Int
      /\ a \in 0 .. SeqMod - 1 /\ b \in 0 .. SeqMod - 1 /\ SeqMod \in Nat
  BY Sizes DEF Seqs
<1>2. e \in Seqs  BY <1>1, PlusType
<1>3. e = IF b + k >= SeqMod THEN b + k - SeqMod ELSE b + k
  BY <1>1, PlusIs
<1>4. Dist(a, e) = IF a <= e THEN e - a ELSE e - a + SeqMod
  BY <1>2, DistIs
<1>5. Dist(a, b) = IF a <= b THEN b - a ELSE b - a + SeqMod
  BY DistIs
<1> HIDE DEF e
<1> QED  BY <1>1, <1>2, <1>3, <1>4, <1>5 DEF e

\* What may be put into the buffer.
CanBePlaced(s) ==
  \/ Dist(ab_read, s) <= MaxAhead
  \/ Dist(s, ab_read) + Dist(ab_read, ab_write) <= MaxAhead + MaxLate + 1

BufferIsBounded == ab_synced => Dist(ab_read, ab_write) <= MaxAhead + 1

LEMMA PlacedFacts ==
  ASSUME NeverLapped, BufferIsBounded, ab_read \in Seqs, ab_write \in Seqs,
         NEW s \in Seqs, ab_synced => CanBePlaced(s)
  PROVE  LET place == Placed(s)
             w     == Dist(place.rd, place.wr)
         IN  /\ place.rd = IF ab_synced THEN ab_read ELSE s
             /\ w <= MaxAhead + 1 /\ (ab_synced => Dist(ab_read, ab_write) <= w)
             /\ place.keep => Dist(place.rd, s) < w
             /\ ~ab_synced => w = 1 /\ place.gap = {} /\ place.keep
             /\ \A t \in place.gap :
                  /\ t \in Seqs /\ Dist(place.rd, t) < w /\ t # s /\ place.keep
                  /\ Dist(ab_read, ab_write) <= Dist(ab_read, t)
             /\ \A t \in Seqs : Dist(place.rd, t) < w =>
                  (t = s /\ place.keep) \/ t \in place.gap
                    \/ (ab_synced /\ Dist(ab_read, t) < Dist(ab_read, ab_write))
             /\ \/ ab_synced /\ w = Dist(ab_read, ab_write)
                \/ w = Dist(place.rd, s) + 1 /\ Dist(place.rd, s) <= MaxAhead
<1> DEFINE place == Placed(s)
           h     == SeqMod \div 2
           next  == Plus(s, 1)
<1>1. /\ h \in Nat /\ h >= 1 /\ 2 * h <= SeqMod /\ SeqMod <= 2 * h + 1
      /\ SeqMod \in Nat /\ SeqMod > 1 /\ MaxAhead \in Nat /\ MaxLate \in Nat
      /\ MaxAhead + MaxLate + 1 <= SeqMod - h
  BY HalfOfSeqMod, PlayerBufferAssumption DEF NeverLapped
<1>2. next \in Seqs /\ 1 \in 0 .. SeqMod - 1  BY <1>1, DistPlus
<1>3. CASE ~ab_synced
  <2>1. Dist(s, s) = 0  BY DistFrom
  <2>2. ~is_after(s, s)  BY <1>1, <2>1 DEF is_after
  <2>3. Dist(s, next) = 1  BY <1>1, <1>2, <2>1, DistPlus
  <2>4. place.rd = s /\ place.wr = next /\ place.gap = {} /\ place.keep
    BY <1>3, <2>2 DEF Placed, Wanted
  <2>5. \A t \in Seqs : Dist(s, t) < 1 => t = s
    BY <2>1, DistFrom
  <2> HIDE DEF place, next
  <2> QED  BY <1>1, <1>3, <2>1, <2>3, <2>4, <2>5 DEF place
<1>4. CASE ab_synced
  <2> DEFINE u == Dist(ab_read, s)
             w == Dist(ab_read, ab_write)
  <2>1. /\ u \in 0 .. SeqMod - 1 /\ w \in 0 .. SeqMod - 1
        /\ Dist(ab_write, s) = IF w <= u THEN u - w ELSE u - w + SeqMod
        /\ u = w <=> s = ab_write
        /\ Dist(s, ab_read) = IF u = 0 THEN 0 ELSE SeqMod - u
    <3>1. Dist(ab_read, ab_read) = 0  BY DistFrom
    <3>2. /\ u \in 0 .. SeqMod - 1 /\ w \in 0 .. SeqMod - 1
          /\ Dist(ab_write, s) = IF w <= u THEN u - w ELSE u - w + SeqMod
          /\ u = w <=> ab_write = s
      BY DistFrom
    <3>3. Dist(s, ab_read) = IF u <= 0 THEN 0 - u ELSE 0 - u + SeqMod
      BY <3>1, DistFrom
    <3> HIDE DEF u, w
    <3> QED  BY <1>1, <3>2, <3>3
  <2>2. w <= MaxAhead + 1  BY <1>4 DEF BufferIsBounded
  <2>3. u <= MaxAhead \/ Dist(s, ab_read) + w <= MaxAhead + MaxLate + 1
    BY <1>4 DEF CanBePlaced
  <2>4. Dist(ab_read, next) = IF u + 1 < SeqMod THEN u + 1 ELSE u + 1 - SeqMod
    BY <1>1, DistPlus
  <2>5. /\ is_after(ab_write, s) <=> Dist(ab_write, s) \in 1 .. h - 1
        /\ is_after(ab_read, s) <=> u \in 1 .. h - 1
    BY DEF is_after
  <2>6. /\ place.rd = ab_read
        /\ place.wr = IF s = ab_write \/ is_after(ab_write, s) THEN next ELSE ab_write
        /\ place.gap = IF is_after(ab_write, s)
                         THEN {Plus(ab_write, k) : k \in 0 .. Dist(ab_write, s) - 1} ELSE {}
        /\ place.keep <=> (s = ab_write \/ is_after(ab_write, s) \/ is_after(ab_read, s))
    BY <1>4, Zenon DEF Placed, Wanted
  <2> HIDE DEF u, w, h, next, place
  <2>7. is_after(ab_write, s) => w < u /\ u - w < h /\ Dist(ab_write, s) = u - w
                                 /\ u <= MaxAhead
    BY <1>1, <2>1, <2>2, <2>3, <2>5
  <2>8. \A t : t \in place.gap =>
          t \in Seqs /\ w <= Dist(ab_read, t) /\ Dist(ab_read, t) < u
          /\ is_after(ab_write, s)
    <3> SUFFICES ASSUME NEW t \in place.gap
                 PROVE  t \in Seqs /\ w <= Dist(ab_read, t) /\ Dist(ab_read, t) < u
                        /\ is_after(ab_write, s)
      OBVIOUS
    <3>1. is_after(ab_write, s)  BY <2>6
    <3>2. PICK k \in 0 .. Dist(ab_write, s) - 1 : t = Plus(ab_write, k)  BY <2>6, <3>1
    <3>3. k \in 0 .. SeqMod - 1 /\ w + k < u  BY <1>1, <2>1, <2>7, <3>1, <3>2
    <3>4. t \in Seqs /\ Dist(ab_read, t) = IF w + k < SeqMod THEN w + k ELSE w + k - SeqMod
      BY <3>2, <3>3, DistPlus DEF w
    <3> QED  BY <1>1, <2>1, <3>1, <3>3, <3>4
  <2>9. \A t \in Seqs : is_after(ab_write, s) /\ w <= Dist(ab_read, t) /\ Dist(ab_read, t) < u
          => t \in place.gap
    <3> SUFFICES ASSUME NEW t \in Seqs, is_after(ab_write, s),
                        w <= Dist(ab_read, t), Dist(ab_read, t) < u
                 PROVE  t \in place.gap
      OBVIOUS
    <3> DEFINE k == Dist(ab_read, t) - w
    <3>1. Dist(ab_read, t) \in 0 .. SeqMod - 1  BY DistFrom
    <3>2. k \in 0 .. Dist(ab_write, s) - 1 /\ k \in 0 .. SeqMod - 1
      BY <1>1, <2>1, <2>7, <3>1
    <3>3. w + k = Dist(ab_read, t)  BY <2>1, <3>1
    <3> HIDE DEF k
    <3>4. Plus(ab_write, k) \in Seqs /\ Dist(ab_read, Plus(ab_write, k)) = Dist(ab_read, t)
      BY <1>1, <2>1, <3>1, <3>2, <3>3, DistPlus DEF w
    <3>5. Plus(ab_write, k) = t  BY <3>4, DistFrom
    <3> QED  BY <2>6, <3>2, <3>5
  <2>10. /\ Dist(place.rd, place.wr) = IF u = w \/ is_after(ab_write, s) THEN u + 1 ELSE w
         /\ u = w \/ is_after(ab_write, s) => u <= MaxAhead
    <3>1. CASE u = w \/ is_after(ab_write, s)
      <4>1. u <= MaxAhead  BY <1>1, <2>1, <2>3, <2>7, <3>1
      <4>2. Dist(ab_read, next) = u + 1  BY <1>1, <2>1, <2>4, <4>1
      <4>3. place.wr = next  BY <2>1, <2>6, <3>1
      <4> QED  BY <2>6, <3>1, <4>1, <4>2, <4>3
    <3>2. CASE ~(u = w \/ is_after(ab_write, s))
      BY <2>1, <2>6, <3>2 DEF w
    <3> QED  BY <3>1, <3>2
  <2>11. place.keep => u < Dist(place.rd, place.wr)
    BY <1>1, <2>1, <2>2, <2>3, <2>5, <2>6, <2>7, <2>10
  <2>12. Dist(place.rd, place.wr) <= MaxAhead + 1 /\ w <= Dist(place.rd, place.wr)
    BY <1>1, <2>1, <2>2, <2>7, <2>10
  <2>13. \A t \in Seqs : Dist(ab_read, t) < Dist(place.rd, place.wr) =>
           (t = s /\ place.keep) \/ t \in place.gap \/ Dist(ab_read, t) < w
    <3> SUFFICES ASSUME NEW t \in Seqs, Dist(ab_read, t) < Dist(place.rd, place.wr),
                        ~(Dist(ab_read, t) < w), t # s
                 PROVE  t \in place.gap
      BY <1>1, <2>1, <2>6, <2>10
    <3>1. Dist(ab_read, t) \in 0 .. SeqMod - 1 /\ Dist(ab_read, t) # u
      BY DistFrom DEF u
    <3> QED  BY <2>1, <2>7, <2>9, <2>10, <3>1
  <2>14. \A t \in place.gap : Dist(place.rd, t) < Dist(place.rd, place.wr) /\ t # s /\ place.keep
    <3> SUFFICES ASSUME NEW t \in place.gap
                 PROVE  Dist(place.rd, t) < Dist(place.rd, place.wr) /\ t # s /\ place.keep
      OBVIOUS
    <3>1. t \in Seqs /\ Dist(ab_read, t) < u /\ is_after(ab_write, s)  BY <2>8
    <3>2. Dist(ab_read, t) \in 0 .. SeqMod - 1  BY <3>1, DistFrom
    <3>3. t # s  BY <2>1, <3>1, <3>2 DEF u
    <3> QED  BY <1>1, <2>1, <2>6, <2>10, <3>1, <3>2, <3>3
  <2>15. \/ Dist(place.rd, place.wr) = w
         \/ Dist(place.rd, place.wr) = u + 1 /\ u <= MaxAhead
    BY <2>10
  <2> QED
    BY <1>4, <2>6, <2>8, <2>11, <2>12, <2>13, <2>14, <2>15 DEF u, w, place
<1> QED  BY <1>3, <1>4

LEMMA StoredAt ==
  ASSUME TypeInv, NEW place, NEW p \in Packets, NEW ok,
         NEW i \in 0 .. BufferFrames - 1
  PROVE  LET j    == BUFIDX(SeqOf(p))
             skip == {BUFIDX(s) : s \in place.gap}
             new  == Stored(place, p, ok)[i]
         IN  /\ i = j /\ place.keep => /\ ok => new = GoodSlot(SeqOf(p), TsOf(p))
                                       /\ ~ok => ~new.ready
             /\ ~(i = j /\ place.keep) => /\ i \in skip => ~new.ready
                                          /\ i \notin skip => new = slots[i]
<1> DEFINE j    == BUFIDX(SeqOf(p))
           skip == {BUFIDX(s) : s \in place.gap}
           old  == [k \in DOMAIN slots |->
                      IF k \in skip THEN MissingSlot(slots[k]) ELSE slots[k]]
<1>1. i \in DOMAIN slots /\ slots[i] \in SlotType
  BY DEF TypeInv, SlotsOK
<1>2. old[i] = IF i \in skip THEN MissingSlot(slots[i]) ELSE slots[i]
  BY <1>1
<1>3. ~MissingSlot(slots[i]).ready  BY <1>1 DEF SlotType, MissingSlot
<1>4. ~MissingSlot(old[i]).ready
  <2>1. MissingSlot(slots[i]) = [slots[i] EXCEPT !.ready = FALSE, !.seq = 0, !.ts = 0,
                                                 !.init = now, !.asked = 0]
    BY DEF MissingSlot
  <2>2. "ready" \in DOMAIN slots[i]  BY <1>1 DEF SlotType
  <2>3. "ready" \in DOMAIN old[i]
    <3> HIDE DEF old, skip
    <3> QED  BY <1>2, <2>1, <2>2
  <2> HIDE DEF old
  <2> QED  BY <2>3 DEF MissingSlot
<1>5. Stored(place, p, ok) =
        IF place.keep
          THEN [old EXCEPT ![j] = IF ok THEN GoodSlot(SeqOf(p), TsOf(p)) ELSE MissingSlot(@)]
          ELSE old
  BY DEF Stored
<1>6. i \in DOMAIN old  BY <1>1
<1> HIDE DEF old, skip, j
<1> QED  BY <1>2, <1>3, <1>4, <1>5, <1>6 DEF skip, j

\* In a buffer no larger than the ring two packets share no slot.
LEMMA NoSharing ==
  ASSUME NEW rd \in Seqs, NEW a \in Seqs, NEW b \in Seqs, BUFIDX(a) = BUFIDX(b),
         NEW n \in Nat, n <= BufferFrames, Dist(rd, a) < n, Dist(rd, b) < n
  PROVE  a = b
<1>1. CASE Dist(rd, a) <= Dist(rd, b)
  <2>1. Dist(a, b) < BufferFrames  BY <1>1, DistFrom, Sizes
  <2> QED  BY <2>1, SameIndex
<1>2. CASE Dist(rd, b) <= Dist(rd, a)
  <2>1. Dist(b, a) < BufferFrames  BY <1>2, DistFrom, Sizes
  <2> QED  BY <2>1, SameIndex
<1> QED  BY <1>1, <1>2, DistFrom

\* What the slots hold for the packets in the buffer after one more is placed.
LEMMA StoredFacts ==
  ASSUME NeverLapped, TypeInv, BufferIsBounded, NEW p \in Packets, NEW ok,
         ab_synced => CanBePlaced(SeqOf(p))
  PROVE  LET place == Placed(SeqOf(p))
             sl    == Stored(place, p, ok)
         IN  \A t \in Seqs : Dist(place.rd, t) < Dist(place.rd, place.wr) =>
               \/ /\ t = SeqOf(p) /\ place.keep
                  /\ ok => sl[BUFIDX(t)] = GoodSlot(t, TsOf(p))
                  /\ ~ok => ~sl[BUFIDX(t)].ready
               \/ /\ t \in place.gap /\ ~sl[BUFIDX(t)].ready
               \/ /\ ab_synced /\ Dist(ab_read, t) < Dist(ab_read, ab_write)
                  /\ sl[BUFIDX(t)] = slots[BUFIDX(t)]
                  /\ place.rd = ab_read /\ t \notin place.gap
<1> DEFINE s     == SeqOf(p)
           place == Placed(s)
           sl    == Stored(place, p, ok)
           n     == Dist(place.rd, place.wr)
<1>1. s \in Seqs  BY SeqOfType DEF Packets
<1>2. ab_read \in Seqs /\ ab_write \in Seqs  BY DEF TypeInv, TypeOK
<1>3. /\ place.rd = IF ab_synced THEN ab_read ELSE s
      /\ n <= MaxAhead + 1
      /\ place.keep => Dist(place.rd, s) < n
      /\ \A t \in place.gap : /\ t \in Seqs /\ Dist(place.rd, t) < n /\ t # s /\ place.keep
                              /\ Dist(ab_read, ab_write) <= Dist(ab_read, t)
      /\ \A t \in Seqs : Dist(place.rd, t) < n =>
           (t = s /\ place.keep) \/ t \in place.gap
             \/ (ab_synced /\ Dist(ab_read, t) < Dist(ab_read, ab_write))
  BY <1>1, <1>2, PlacedFacts
<1>4. place.rd \in Seqs /\ place.wr \in Seqs  BY <1>1, <1>2, PlacedType
<1>5. n \in Nat /\ n <= BufferFrames
  <2>1. n \in Seqs  BY <1>4, DistIs
  <2> HIDE DEF n
  <2>2. n \in Nat  BY <2>1, Sizes DEF Seqs
  <2> QED  BY <2>2, <1>3, PlayerBufferAssumption DEF NeverLapped
<1>6. \A a \in Seqs : \A b \in Seqs :
        Dist(place.rd, a) < n /\ Dist(place.rd, b) < n /\ BUFIDX(a) = BUFIDX(b) => a = b
  <2> HIDE DEF n, place
  <2> QED  BY <1>4, <1>5, NoSharing
<1> SUFFICES ASSUME NEW t \in Seqs, Dist(place.rd, t) < n
             PROVE  \/ /\ t = s /\ place.keep
                       /\ ok => sl[BUFIDX(t)] = GoodSlot(t, TsOf(p))
                       /\ ~ok => ~sl[BUFIDX(t)].ready
                    \/ /\ t \in place.gap /\ ~sl[BUFIDX(t)].ready
                    \/ /\ ab_synced /\ Dist(ab_read, t) < Dist(ab_read, ab_write)
                       /\ sl[BUFIDX(t)] = slots[BUFIDX(t)]
                       /\ place.rd = ab_read /\ t \notin place.gap
  OBVIOUS
<1> DEFINE i == BUFIDX(t)
<1>7. i \in 0 .. BufferFrames - 1  BY IndexType, Sizes
<1>8. /\ i = BUFIDX(s) /\ place.keep => /\ ok => sl[i] = GoodSlot(s, TsOf(p))
                                        /\ ~ok => ~sl[i].ready
      /\ ~(i = BUFIDX(s) /\ place.keep) =>
           /\ i \in {BUFIDX(q) : q \in place.gap} => ~sl[i].ready
           /\ i \notin {BUFIDX(q) : q \in place.gap} => sl[i] = slots[i]
  <2> HIDE DEF i, place
  <2> QED  BY <1>7, StoredAt
<1>9. i = BUFIDX(s) /\ place.keep => t = s
  BY <1>1, <1>3, <1>6
<1>10. i \in {BUFIDX(q) : q \in place.gap} => t \in place.gap
  <2> SUFFICES ASSUME NEW q \in place.gap, i = BUFIDX(q)  PROVE t \in place.gap
    OBVIOUS
  <2>1. q \in Seqs /\ Dist(place.rd, q) < n  BY <1>3
  <2> QED  BY <1>6, <2>1
<1>11. t \in place.gap => i \in {BUFIDX(q) : q \in place.gap}  OBVIOUS
<1> HIDE DEF sl, place, n, s
<1> QED  BY <1>3, <1>8, <1>9, <1>10, <1>11 DEF s

-----------------------------------------------------------------------------
(* The buffer of a player that is never lapped. *)

\* In the buffer or next to it, or passed not long ago.
StillNear(s) ==
  \/ Dist(ab_read, s) <= Dist(ab_read, ab_write)
  \/ Dist(s, ab_read) + Dist(ab_read, ab_write) <= MaxAhead + 1

InBuffer(s) == ab_synced /\ Dist(ab_read, s) < Dist(ab_read, ab_write)

NothingBefore == ~packet_seen => ~ab_synced

\* A packet a receiver holds, before its first look at the buffer, is near.
CanStillCome(s) ==
  \/ Dist(ab_read, s) <= MaxAhead
  \/ Dist(s, ab_read) + Dist(ab_read, ab_write) <= MaxAhead + 1

PutsAreNear ==
  /\ \A r \in Receivers :
       rx[r].at = "put" /\ ab_synced => CanStillCome(SeqOf(rx[r].packet))
  /\ \A q \in Receivers : \A r \in Receivers :
       rx[q].at = "put" /\ rx[r].at = "put" =>
         rx[q].packet - rx[r].packet \in -MaxAhead .. MaxAhead

HoldsItsOwn ==
  \A s \in Seqs : InBuffer(s) /\ slots[BUFIDX(s)].ready => slots[BUFIDX(s)].seq = s

\* The slot being played, without the lock, is the one just behind the buffer.
PlaysWhatWasRead ==
  pc = "out" => ab_synced /\ playing = BUFIDX(Plus(ab_read, -1))

BufferInv == /\ TypeInv /\ BufferIsBounded /\ NothingBefore /\ PutsAreNear
             /\ HoldsItsOwn /\ PlaysWhatWasRead

\* A packet near one that is put into the buffer stays near.
LEMMA NearStaysNear ==
  ASSUME NeverLapped, TypeInv, BufferIsBounded, NEW s \in Seqs, NEW q \in Seqs,
         ab_synced => CanBePlaced(s) /\ CanStillCome(q),
         Dist(q, s) <= MaxAhead \/ Dist(s, q) <= MaxAhead
  PROVE  LET rd == Placed(s).rd
             wr == Placed(s).wr
         IN  Dist(rd, q) <= MaxAhead \/ Dist(q, rd) + Dist(rd, wr) <= MaxAhead + 1
<1> DEFINE place == Placed(s)
           rd    == place.rd
           w     == Dist(rd, place.wr)
           u     == Dist(rd, s)
           b     == Dist(q, rd)
<1>1. ab_read \in Seqs /\ ab_write \in Seqs  BY DEF TypeInv, TypeOK
<1>2. /\ rd = IF ab_synced THEN ab_read ELSE s
      /\ ~ab_synced => w = 1
      /\ \/ ab_synced /\ w = Dist(ab_read, ab_write)
         \/ w = u + 1 /\ u <= MaxAhead
  BY <1>1, PlacedFacts
<1>3. rd \in Seqs /\ SeqMod \in Nat /\ MaxAhead \in Nat /\ 3 * MaxAhead + 1 < SeqMod
  BY <1>1, PlacedType, PlayerBufferAssumption DEF NeverLapped
<1> HIDE DEF rd, place
<1>4. CASE ~ab_synced
  BY <1>2, <1>3, <1>4, DistFrom DEF b, w, place, rd
<1>5. CASE ab_synced
  <2>1. CASE Dist(rd, q) <= MaxAhead
    BY <2>1 DEF rd, place
  <2>2. CASE Dist(rd, q) > MaxAhead
    <3>1. b + Dist(ab_read, ab_write) <= MaxAhead + 1
      BY <1>2, <1>5, <2>2, <1>3, DistIs DEF CanStillCome, Seqs
    <3>2. /\ u = IF b <= Dist(q, s) THEN Dist(q, s) - b ELSE Dist(q, s) - b + SeqMod
          /\ b \in 0 .. SeqMod - 1 /\ Dist(q, s) \in 0 .. SeqMod - 1
          /\ Dist(s, q) = IF Dist(q, s) <= 0 THEN 0 - Dist(q, s) ELSE 0 - Dist(q, s) + SeqMod
      <4>1. Dist(q, q) = 0  BY DistFrom
      <4>2. Dist(s, q) = IF Dist(q, s) <= Dist(q, q) THEN Dist(q, q) - Dist(q, s)
                         ELSE Dist(q, q) - Dist(q, s) + SeqMod
        BY DistFrom
      <4>3. /\ u = IF b <= Dist(q, s) THEN Dist(q, s) - b ELSE Dist(q, s) - b + SeqMod
            /\ b \in 0 .. SeqMod - 1 /\ Dist(q, s) \in 0 .. SeqMod - 1
        BY <1>3, DistFrom
      <4> QED  BY <4>1, <4>2, <4>3
    <3>3. Dist(ab_read, ab_write) \in 0 .. SeqMod - 1  BY <1>1, DistFrom
    <3>4. b + w <= MaxAhead + 1
      <4> DEFINE c == Dist(q, s)
                 d == Dist(s, q)
                 v == Dist(ab_read, ab_write)
      <4> HIDE DEF b, w, u, c, d, v
      <4> QED  BY <1>2, <1>3, <3>1, <3>2, <3>3 DEF c, d, v
    <3> QED  BY <3>4 DEF b, w, rd, place
  <2>3. Dist(rd, q) <= MaxAhead \/ Dist(rd, q) > MaxAhead
    BY <1>3, DistFrom
  <2> QED  BY <2>1, <2>2, <2>3
<1> QED  BY <1>4, <1>5

\* A packet put into the buffer leaves it in order: every slot still holds the
\* packet of its own number.
LEMMA PutKeepsBuffer ==
  ASSUME NeverLapped, BufferInv, NEW r \in Receivers, NEW p \in Packets, NEW ok,
         player_put_packet(r, p, ok), ab_synced => CanBePlaced(SeqOf(p)),
         \A q \in Receivers \ {r} :
           rx[q].at = "put" => rx[q].packet - p \in -MaxAhead .. MaxAhead
  PROVE  /\ BufferIsBounded' /\ NothingBefore' /\ PutsAreNear'
         /\ HoldsItsOwn' /\ PlaysWhatWasRead'
<1> USE DEF BufferInv
<1> DEFINE s     == SeqOf(p)
           place == Placed(s)
           sl    == Stored(place, p, ok)
           x     == CheckStart(place.rd, place.wr)
<1>1. packet_seen' = TRUE /\ pc' = pc /\ playing' = playing
  BY DEF player_put_packet, player
<1>2. rx \in [Receivers -> ReceiverState] /\ ab_read \in Seqs /\ ab_write \in Seqs
  BY DEF TypeInv, TypeOK, ReceiverState
<1>3. rx'[r].at # "put" /\ \A q \in Receivers \ {r} : rx'[q] = rx[q]
  <2>1. \/ rx' = [rx EXCEPT ![r] = Idle]
        \/ \E scan, none : rx' = [rx EXCEPT ![r] =
             IF scan.send THEN [at |-> "sending", packet |-> 0, x |-> scan.next,
                                absent |-> none, start |-> scan.start,
                                marked |-> scan.marked]
                          ELSE Idle]
    BY Zenon DEF player_put_packet, CheckFrom
  <2> QED  BY <1>2, <2>1 DEF Idle
<1>4. CASE ~connection_state_to_output
  <2>1. UNCHANGED input  BY <1>4, Zenon DEF player_put_packet
  <2>2. PutsAreNear'
    BY <1>2, <1>3, <2>1 DEF PutsAreNear, CanStillCome, input
  <2> QED
    BY <1>1, <2>1, <2>2
    DEF BufferIsBounded, NothingBefore, HoldsItsOwn, InBuffer, PlaysWhatWasRead, input
<1>5. CASE connection_state_to_output
  <2>1. /\ ab_read' = place.rd /\ ab_write' = place.wr /\ ab_synced' = TRUE
        /\ CheckFrom(r, sl, x, place.wr, -1, FALSE)
    BY <1>5, Zenon DEF player_put_packet
  <2>2. s \in Seqs  BY SeqOfType DEF Packets
  <2>3. /\ place.rd = IF ab_synced THEN ab_read ELSE s
        /\ Dist(place.rd, place.wr) <= MaxAhead + 1
    BY <1>2, <2>2, PlacedFacts
  <2>4. BufferIsBounded' /\ NothingBefore' /\ PlaysWhatWasRead'
    <3> HIDE DEF place, s
    <3> QED
      BY <1>1, <2>1, <2>3 DEF BufferIsBounded, NothingBefore, PlaysWhatWasRead
  <2>5. PutsAreNear'
    <3>1. ASSUME NEW q \in Receivers, rx'[q].at = "put"
          PROVE  CanStillCome(SeqOf(rx[q].packet))' /\ q # r /\ rx'[q] = rx[q]
      <4>1. q # r /\ rx'[q] = rx[q] /\ rx[q].at = "put"  BY <1>3, <3>1
      <4> DEFINE e == rx[q].packet
      <4>2. e \in Packets /\ e - p \in -MaxAhead .. MaxAhead
        BY <1>2, <4>1 DEF ReceiverState
      <4>3. e \in Int /\ p \in Int /\ MaxAhead < SeqMod /\ MaxAhead \in Nat /\ SeqMod \in Nat
        BY <4>2, PlayerBufferAssumption DEF Packets, NeverLapped
      <4>4. Dist(SeqOf(e), s) <= MaxAhead \/ Dist(s, SeqOf(e)) <= MaxAhead
        <5>1. CASE e <= p
          <6>1. p - e \in 0 .. SeqMod - 1 /\ p - e <= MaxAhead  BY <4>2, <4>3, <5>1
          <6>2. Dist(SeqOf(e), SeqOf(p)) = p - e  BY <4>3, <6>1, DistOfPackets
          <6> QED  BY <6>1, <6>2
        <5>2. CASE p <= e
          <6>1. e - p \in 0 .. SeqMod - 1 /\ e - p <= MaxAhead  BY <4>2, <4>3, <5>2
          <6>2. Dist(SeqOf(p), SeqOf(e)) = e - p  BY <4>3, <6>1, DistOfPackets
          <6> QED  BY <6>1, <6>2
        <5> QED  BY <4>3, <5>1, <5>2
      <4>5. SeqOf(e) \in Seqs  BY <4>3, SeqOfType
      <4>6. ab_synced => CanStillCome(SeqOf(e))  BY <4>1 DEF PutsAreNear
      <4>7. \/ Dist(place.rd, SeqOf(e)) <= MaxAhead
            \/ Dist(SeqOf(e), place.rd) + Dist(place.rd, place.wr) <= MaxAhead + 1
        BY <2>2, <4>4, <4>5, <4>6, NearStaysNear
      <4>8. CanStillCome(SeqOf(rx[q].packet))' <=>
              \/ Dist(ab_read', SeqOf(rx'[q].packet)) <= MaxAhead
              \/ Dist(SeqOf(rx'[q].packet), ab_read') + Dist(ab_read', ab_write')
                   <= MaxAhead + 1
        BY DEF CanStillCome, SeqOf, Dist
      <4> QED  BY <2>1, <4>1, <4>7, <4>8
    <3>2. \A q \in Receivers : rx'[q].at = "put" =>
            CanStillCome(SeqOf(rx[q].packet))' /\ rx'[q] = rx[q]
      BY <3>1
    <3>3. PutsAreNear' <=>
            /\ \A q \in Receivers : rx'[q].at = "put" /\ ab_synced' =>
                 CanStillCome(SeqOf(rx[q].packet))'
            /\ \A q \in Receivers : \A e \in Receivers :
                 rx'[q].at = "put" /\ rx'[e].at = "put" =>
                   rx'[q].packet - rx'[e].packet \in -MaxAhead .. MaxAhead
      BY DEF PutsAreNear
    <3>4. \A q \in Receivers : \A e \in Receivers :
            rx[q].at = "put" /\ rx[e].at = "put" =>
               rx[q].packet - rx[e].packet \in -MaxAhead .. MaxAhead
      BY DEF PutsAreNear
    <3> QED  BY <3>2, <3>3, <3>4
  <2>6. HoldsItsOwn'
    <3> SUFFICES ASSUME NEW t \in Seqs, Dist(ab_read', t) < Dist(ab_read', ab_write'),
                        slots'[BUFIDX(t)].ready
                 PROVE  slots'[BUFIDX(t)].seq = t
      BY DEF HoldsItsOwn, InBuffer, BUFIDX, Dist
    <3>1. Dist(place.rd, t) < Dist(place.rd, place.wr)  BY <2>1
    <3>2. \/ sl[BUFIDX(t)] = GoodSlot(t, TsOf(p)) \/ ~sl[BUFIDX(t)].ready
          \/ /\ ab_synced /\ Dist(ab_read, t) < Dist(ab_read, ab_write)
             /\ sl[BUFIDX(t)] = slots[BUFIDX(t)]
      BY <3>1, StoredFacts
    <3>3. SlotsOK(sl)
      <4>1. now \in 0 .. MaxTime  BY PlayerBufferAssumption DEF TypeInv, TypeOK
      <4> QED  BY <4>1, StoredOK DEF TypeInv
    <3>4. BUFIDX(t) \in 0 .. BufferFrames - 1  BY IndexType, Sizes
    <3> HIDE DEF sl, place, x
    <3>5. slots'[BUFIDX(t)].ready = sl[BUFIDX(t)].ready
          /\ slots'[BUFIDX(t)].seq = sl[BUFIDX(t)].seq
      BY <2>1, <3>3, <3>4, CheckChangesAsked
    <3>6. GoodSlot(t, TsOf(p)).seq = t  BY DEF GoodSlot
    <3>7. InBuffer(t) /\ slots[BUFIDX(t)].ready => slots[BUFIDX(t)].seq = t
      BY DEF HoldsItsOwn
    <3> QED  BY <3>2, <3>5, <3>6, <3>7 DEF InBuffer
  <2> QED  BY <2>4, <2>5, <2>6
<1> QED  BY <1>4, <1>5

\* The read position moves on inside the buffer: what is left was there before.
LEMMA ReadingOn ==
  ASSUME NeverLapped, TypeInv, BufferIsBounded, ab_synced,
         NEW k \in 0 .. Dist(ab_read, ab_write),
         ab_read' = Plus(ab_read, k), UNCHANGED <<ab_write, ab_synced>>
  PROVE  /\ BufferIsBounded' /\ ab_read' \in Seqs
         /\ Dist(ab_read', ab_write') = Dist(ab_read, ab_write) - k
         /\ \A t \in Seqs : /\ CanStillCome(t) => CanStillCome(t)'
                            /\ StillNear(t) => StillNear(t)'
                            /\ Dist(ab_read', t) <= Dist(ab_read', ab_write') =>
                                 /\ Dist(ab_read, t) >= k
                                 /\ Dist(ab_read, t) <= Dist(ab_read, ab_write)
                            /\ InBuffer(t)' => InBuffer(t)
                            /\ InBuffer(t)' => Dist(ab_read, t) >= k
                            /\ Dist(ab_read, t) >= k => Dist(ab_read', t) = Dist(ab_read, t) - k
<1> DEFINE R == Plus(ab_read, k)
           w == Dist(ab_read, ab_write)
<1>1. /\ ab_read \in Seqs /\ ab_write \in Seqs /\ MaxAhead \in Nat /\ SeqMod \in Nat
      /\ 3 * MaxAhead + 1 < SeqMod /\ w <= MaxAhead + 1
  BY PlayerBufferAssumption DEF TypeInv, TypeOK, NeverLapped, BufferIsBounded
<1>2. w \in 0 .. SeqMod - 1  BY <1>1, DistFrom
<1> HIDE DEF w
<1>3. k \in 0 .. w  BY DEF w
<1>4. k \in 0 .. SeqMod - 1  BY <1>1, <1>2, <1>3
<1>5. Dist(ab_read, ab_read) = 0  BY <1>1, DistFrom
<1>6. R \in Seqs /\ Dist(ab_read, R) = k
  <2>1. R \in Seqs /\ Dist(ab_read, R) = IF 0 + k < SeqMod THEN 0 + k ELSE 0 + k - SeqMod
    BY <1>1, <1>4, <1>5, DistPlus
  <2> QED  BY <1>1, <1>4, <2>1
<1> HIDE DEF R
<1>7. ab_read' = R  BY DEF R
<1>8. Dist(R, ab_write) = w - k
  <2>1. Dist(R, ab_write) = IF k <= w THEN w - k ELSE w - k + SeqMod
    BY <1>1, <1>6, DistFrom DEF w
  <2> QED  BY <1>2, <1>3, <2>1
<1>9. ASSUME NEW t \in Seqs
      PROVE  /\ CanStillCome(t) => CanStillCome(t)'
             /\ StillNear(t) => StillNear(t)'
             /\ Dist(ab_read', t) <= Dist(ab_read', ab_write') =>
                  Dist(ab_read, t) >= k /\ Dist(ab_read, t) <= w
             /\ InBuffer(t)' => InBuffer(t)
             /\ InBuffer(t)' => Dist(ab_read, t) >= k
             /\ Dist(ab_read, t) >= k => Dist(ab_read', t) = Dist(ab_read, t) - k
  <2> DEFINE a == Dist(ab_read, t)
             b == Dist(t, ab_read)
  <2>1. /\ Dist(R, t) = IF k <= a THEN a - k ELSE a - k + SeqMod
        /\ a \in 0 .. SeqMod - 1
    BY <1>1, <1>6, DistFrom
  <2>2. b \in 0 .. SeqMod - 1  BY <1>1, DistFrom
  <2>3. Dist(t, R) = IF b + k < SeqMod THEN b + k ELSE b + k - SeqMod
    BY <1>1, <1>4, DistPlus DEF R
  <2>4. b = IF a <= 0 THEN 0 - a ELSE 0 - a + SeqMod
    BY <1>1, <1>5, DistFrom
  <2>5. /\ CanStillCome(t)' <=> (Dist(R, t) <= MaxAhead \/ Dist(t, R) + (w - k) <= MaxAhead + 1)
        /\ StillNear(t)' <=> (Dist(R, t) <= w - k \/ Dist(t, R) + (w - k) <= MaxAhead + 1)
        /\ InBuffer(t)' <=> Dist(R, t) < w - k
        /\ Dist(ab_read', t) = Dist(R, t) /\ Dist(ab_read', ab_write') = w - k
    BY <1>7, <1>8 DEF CanStillCome, StillNear, InBuffer, Dist
  <2>6. /\ CanStillCome(t) <=> (a <= MaxAhead \/ b + w <= MaxAhead + 1)
        /\ StillNear(t) <=> (a <= w \/ b + w <= MaxAhead + 1)
        /\ InBuffer(t) <=> a < w
    BY DEF CanStillCome, StillNear, InBuffer, w
  <2> HIDE DEF a, b
  <2>7. CanStillCome(t) => CanStillCome(t)'
    BY <1>1, <1>2, <1>3, <2>1, <2>2, <2>3, <2>4, <2>5, <2>6
  <2>8. (InBuffer(t)' => InBuffer(t) /\ a >= k) /\ (a >= k => Dist(R, t) = a - k)
    BY <1>1, <1>2, <1>3, <2>1, <2>5, <2>6
  <2>9. StillNear(t) => StillNear(t)'
    BY <1>1, <1>2, <1>3, <2>1, <2>2, <2>3, <2>4, <2>5, <2>6
  <2>10. Dist(R, t) <= w - k => a >= k /\ a <= w
    BY <1>1, <1>2, <1>3, <2>1
  <2> QED  BY <1>7, <2>5, <2>7, <2>8, <2>9, <2>10 DEF a
<1>10. BufferIsBounded'
  BY <1>1, <1>2, <1>3, <1>7, <1>8 DEF BufferIsBounded
<1> QED  BY <1>6, <1>7, <1>8, <1>9, <1>10 DEF w

\* Reading on keeps the buffer in order, if no slot gets a packet.
LEMMA ReadingOnKeepsBuffer ==
  ASSUME NeverLapped, BufferInv, ab_synced, NEW k \in 0 .. Dist(ab_read, ab_write),
         ab_read' = Plus(ab_read, k), UNCHANGED <<ab_write, ab_synced, rx, packet_seen>>,
         \A i \in 0 .. BufferFrames - 1 :
           /\ slots'[i].seq = slots[i].seq
           /\ slots'[i].ready => slots[i].ready
  PROVE  BufferIsBounded' /\ NothingBefore' /\ PutsAreNear' /\ HoldsItsOwn'
<1> USE DEF BufferInv
<1>1. /\ BufferIsBounded'
      /\ \A t \in Seqs : (CanStillCome(t) => CanStillCome(t)') /\ (InBuffer(t)' => InBuffer(t))
  BY ReadingOn
<1>2. NothingBefore'  BY DEF NothingBefore
<1>3. PutsAreNear'
  <2>1. rx \in [Receivers -> ReceiverState]  BY DEF TypeInv, TypeOK, ReceiverState
  <2>2. \A r \in Receivers : SeqOf(rx[r].packet) \in Seqs
    <3> SUFFICES ASSUME NEW r \in Receivers  PROVE SeqOf(rx[r].packet) \in Seqs
      OBVIOUS
    <3>1. rx[r].packet \in Int  BY <2>1 DEF ReceiverState, Packets
    <3> QED  BY <3>1, SeqOfType
  <2>3. \A r \in Receivers : rx[r].at = "put" => CanStillCome(SeqOf(rx[r].packet))'
    BY <1>1, <2>2 DEF PutsAreNear
  <2>4. PutsAreNear' <=>
          /\ \A r \in Receivers : rx'[r].at = "put" /\ ab_synced' =>
               CanStillCome(SeqOf(rx[r].packet))'
          /\ \A q \in Receivers : \A r \in Receivers :
               rx'[q].at = "put" /\ rx'[r].at = "put" =>
                 rx'[q].packet - rx'[r].packet \in -MaxAhead .. MaxAhead
    BY DEF PutsAreNear
  <2> QED  BY <2>3, <2>4 DEF PutsAreNear
<1>4. HoldsItsOwn'
  <2> SUFFICES ASSUME NEW t \in Seqs, InBuffer(t)', slots'[BUFIDX(t)].ready
               PROVE  slots'[BUFIDX(t)].seq = t
    BY DEF HoldsItsOwn, BUFIDX
  <2>1. BUFIDX(t) \in 0 .. BufferFrames - 1  BY IndexType, Sizes
  <2> QED  BY <1>1, <2>1 DEF HoldsItsOwn
<1> QED  BY <1>1, <1>2, <1>3, <1>4

\* The player looks at the packet whose turn it is, never at a later one.
LEMMA NoJump ==
  ASSUME NeverLapped, BufferInv, ab_synced
  PROVE  LET rd1 == Plus(ab_read, Skipped)
         IN  /\ Unaliased(rd1) = rd1 /\ rd1 \in Seqs
             /\ Dist(ab_read, rd1) = Skipped
             /\ Skipped \in 0 .. Dist(ab_read, ab_write)
<1> USE DEF BufferInv
<1> DEFINE k   == Skipped
           rd1 == Plus(ab_read, k)
           w   == Dist(ab_read, ab_write)
<1>1. ab_read \in Seqs /\ ab_write \in Seqs  BY DEF TypeInv, TypeOK
<1>2. w \in 0 .. SeqMod - 1 /\ Dist(ab_read, ab_read) = 0 /\ SeqMod \in Nat
  BY <1>1, DistFrom, Sizes
<1>3. k \in 0 .. w  BY <1>1, SkippedType
<1> HIDE DEF k
<1>4. k \in 0 .. SeqMod - 1
  <2> HIDE DEF w
  <2> QED  BY <1>2, <1>3
<1>5. rd1 \in Seqs /\ Dist(ab_read, rd1) = k
  <2>1. rd1 \in Seqs /\ Dist(ab_read, rd1) = IF 0 + k < SeqMod THEN 0 + k ELSE 0 + k - SeqMod
    BY <1>1, <1>2, <1>4, DistPlus
  <2> QED  BY <1>2, <1>4, <2>1
<1> HIDE DEF rd1
<1>6. ASSUME rd1 # ab_write, slots[BUFIDX(rd1)].ready
      PROVE  slots[BUFIDX(rd1)].seq = rd1
  <2>1. k # w  BY <1>1, <1>5, <1>6, DistFrom
  <2>2. InBuffer(rd1)
    <3>1. k < w
      <4> HIDE DEF w
      <4> QED  BY <1>2, <1>3, <2>1
    <3> QED  BY <1>5, <3>1 DEF InBuffer
  <2> QED  BY <1>5, <1>6, <2>2 DEF HoldsItsOwn
<1>7. Unaliased(rd1) = rd1  BY <1>6 DEF Unaliased
<1> QED  BY <1>3, <1>5, <1>7 DEF k, rd1

\* A flush ends the buffer, moves its read position on, or leaves it alone.
LEMMA FlushReads ==
  ASSUME TypeInv, HandleFlush
  PROVE  \/ ab_synced' = FALSE
         \/ UNCHANGED <<slots, ab_read, ab_synced>>
         \/ /\ ab_synced /\ UNCHANGED ab_synced
            /\ \E k \in 0 .. Dist(ab_read, ab_write) - 1 : ab_read' = Plus(ab_read, k)
            /\ \A j \in 0 .. BufferFrames - 1 :
                 slots'[j].seq = slots[j].seq /\ slots'[j].ready = slots[j].ready
<1>0. ab_read \in Seqs /\ ab_write \in Seqs  BY DEF TypeInv, TypeOK
<1>2. CASE FlushVerdict \in {"all", "all but keep"}
  BY <1>2, Zenon DEF HandleFlush, ab_resync
<1>3. CASE FlushVerdict = "part"
  <2> DEFINE f == flush_rtp_timestamp
             k == FlushedPackets(f)
             i == BUFIDX(Plus(ab_read, k))
  <2>1. FlushPart(f)  BY <1>3, Zenon DEF HandleFlush
  <2>2. /\ f \in Stamps /\ ab_synced /\ k \in 0 .. Dist(ab_read, ab_write) - 1
        /\ SignedDiff(f, LastFrame(slots[BUFIDX(ab_read + k)])) <= 0
    BY <1>3, FlushedIs DEF TypeInv
  <2> HIDE DEF f, k
  <2>3. /\ ab_read' = Plus(ab_read, k) /\ UNCHANGED ab_synced
        /\ slots' = [slots EXCEPT ![i] = Trimmed(slots[i], f)]
    BY <2>1 DEF FlushPart, k
  <2>4. k \in 0 .. Dist(ab_read, ab_write) /\ k \in Int  BY <1>0, <2>2, DistFrom
  <2>5. i = BUFIDX(ab_read + k) /\ i \in 0 .. BufferFrames - 1
    <3>1. ab_read \in Int  BY <1>0, Sizes
    <3>2. Plus(ab_read, k) \in Seqs  BY <3>1, <2>4, PlusType
    <3> QED  BY <3>1, <3>2, <2>4, IndexOfPlus, IndexType, Sizes
  <2> HIDE DEF i
  <2>6. Trimmed(slots[i], f).ready = slots[i].ready /\ Trimmed(slots[i], f).seq = slots[i].seq
    <3>1. slots[i] \in SlotType /\ (slots[i].ready => slots[i].len \in 1 .. PacketLength)
      BY <2>5 DEF TypeInv, SlotsOK
    <3> QED  BY <2>2, <2>5, <3>1, TrimmedOK
  <2>7. \A j \in 0 .. BufferFrames - 1 :
          slots'[j].seq = slots[j].seq /\ slots'[j].ready = slots[j].ready
    BY <2>3, <2>5, <2>6 DEF TypeInv, SlotsOK
  <2> QED  BY <2>2, <2>3, <2>7
<1>4. CASE FlushVerdict \notin {"all", "all but keep", "part"}
  BY <1>4, Zenon DEF HandleFlush
<1> QED  BY <1>2, <1>3, <1>4

\* buffer_get_frame waits, moves the read position on, or releases the frame it
\* has moved on to.
LEMMA GetFrameReads ==
  ASSUME NeverLapped, BufferInv, TypeInv', GetFrame
  PROVE  \/ UNCHANGED <<slots, playing, ab_read>> /\ pc' = "top"
         \/ /\ UNCHANGED <<slots, playing>> /\ pc' = "top" /\ ab_synced
            /\ \E k \in 0 .. Dist(ab_read, ab_write) : ab_read' = Plus(ab_read, k)
         \/ /\ ab_synced
            /\ \E k \in 0 .. Dist(ab_read, ab_write) - 1 :
                 /\ ab_read' = Plus(ab_read, k + 1) /\ Plus(ab_read', -1) = Plus(ab_read, k)
                 /\ playing' = BUFIDX(Plus(ab_read, k))
            /\ \A j \in 0 .. BufferFrames - 1 :
                 /\ slots'[j].seq = slots[j].seq /\ (slots'[j].ready => slots[j].ready)
                 /\ j # playing' => slots'[j] = slots[j]
<1>b. ab_read \in Seqs /\ ab_write \in Seqs  BY DEF BufferInv, TypeInv, TypeOK
<1>0. TypeInv /\ TypeInv'  BY DEF BufferInv
<1> DEFINE k   == Skipped
           rd1 == Plus(ab_read, k)
           w   == Dist(ab_read, ab_write)
<1>2. ab_synced => Unaliased(rd1) = rd1 /\ rd1 \in Seqs /\ Dist(ab_read, rd1) = k
                   /\ k \in 0 .. w
  BY NoJump
<1>3. \/ UNCHANGED <<slots, playing, ab_read>> /\ pc' = "top"
      \/ UNCHANGED <<slots, playing>> /\ pc' = "top" /\ ab_read' = Unaliased(rd1) /\ ab_synced
      \/ /\ Unaliased(rd1) # ab_write /\ ab_synced /\ Release(Unaliased(rd1))
         /\ \A j \in 0 .. BufferFrames - 1 :
              /\ slots'[j].seq = slots[j].seq
              /\ j # BUFIDX(Unaliased(rd1)) => slots'[j] = slots[j]
              /\ j = BUFIDX(Unaliased(rd1)) => ~slots'[j].ready
  BY <1>0, GetFrameOK DEF TypeInv
<1>4. w \in 0 .. SeqMod - 1 /\ SeqMod \in Nat /\ ab_read \in Int
  BY <1>b, DistFrom, Sizes
<1> HIDE DEF k, w
<1>5. CASE UNCHANGED <<slots, playing, ab_read>> /\ pc' = "top"
  BY <1>5
<1>6. CASE UNCHANGED <<slots, playing>> /\ pc' = "top" /\ ab_read' = rd1 /\ ab_synced
  BY <1>2, <1>6 DEF w
<1>7. CASE /\ rd1 # ab_write /\ ab_synced /\ Release(rd1)
           /\ \A j \in 0 .. BufferFrames - 1 :
                /\ slots'[j].seq = slots[j].seq
                /\ j # BUFIDX(rd1) => slots'[j] = slots[j]
                /\ j = BUFIDX(rd1) => ~slots'[j].ready
  <2>1. playing' = BUFIDX(rd1) /\ ab_read' = Plus(rd1, 1)
    BY <1>7 DEF Release
  <2>2. k # w
    <3> HIDE DEF rd1
    <3> QED  BY <1>b, <1>2, <1>7, DistFrom DEF w
  <2>3. k + 1 \in 0 .. w  BY <1>2, <1>4, <1>7, <2>2
  <2>4. ab_read' = Plus(ab_read, k + 1) /\ Plus(ab_read', -1) = rd1
    <3>1. rd1 = IF ab_read + k >= SeqMod THEN ab_read + k - SeqMod ELSE ab_read + k
      <4>1. k \in -1 .. SeqMod  BY <1>2, <1>4, <1>7
      <4> QED  BY <1>b, <1>2, <1>4, <1>7, <4>1, PlusIs DEF Seqs
    <3>2. Plus(ab_read, k + 1) = IF ab_read + (k + 1) >= SeqMod
                                   THEN ab_read + (k + 1) - SeqMod ELSE ab_read + (k + 1)
      <4>1. k + 1 \in -1 .. SeqMod  BY <1>4, <2>3
      <4> QED  BY <1>b, <1>2, <1>4, <1>7, <2>3, <4>1, PlusIs DEF Seqs
    <3>3. Plus(rd1, 1) = IF rd1 + 1 >= SeqMod THEN rd1 + 1 - SeqMod ELSE rd1 + 1
      <4>1. 1 \in -1 .. SeqMod /\ rd1 \in Seqs  BY <1>2, <1>7, PlayerBufferAssumption
      <4> HIDE DEF rd1
      <4> QED  BY <4>1, PlusIs, Sizes DEF Seqs
    <3>4. rd1 \in 0 .. SeqMod - 1 /\ ab_read \in 0 .. SeqMod - 1
      BY <1>b, <1>2, <1>7 DEF Seqs
    <3> HIDE DEF rd1
    <3>5. ab_read' = Plus(ab_read, k + 1)
      BY <1>2, <1>4, <1>7, <2>1, <2>3, <3>1, <3>2, <3>3, <3>4
    <3>6. Plus(ab_read', -1) = rd1
      <4> DEFINE e == ab_read'
      <4>1. e \in Seqs  BY <1>0 DEF TypeInv, TypeOK
      <4>2. e = IF rd1 + 1 >= SeqMod THEN rd1 + 1 - SeqMod ELSE rd1 + 1  BY <2>1, <3>3
      <4> HIDE DEF e
      <4>3. -1 \in -1 .. SeqMod  BY <1>4
      <4>4. Plus(e, -1) = IF e + -1 >= SeqMod THEN e + -1 - SeqMod
                          ELSE IF e + -1 < 0 THEN e + -1 + SeqMod ELSE e + -1
        BY <4>1, <4>3, PlusIs
      <4>5. Plus(e, -1) = rd1  BY <1>4, <3>4, <4>1, <4>2, <4>4 DEF Seqs
      <4> QED  BY <4>5 DEF e
    <3> QED  BY <3>5, <3>6
  <2>5. \A j \in 0 .. BufferFrames - 1 :
          slots'[j].seq = slots[j].seq /\ (slots'[j].ready => slots[j].ready)
    BY <1>7
  <2>6. k \in 0 .. w - 1  BY <1>2, <1>4, <1>7, <2>2
  <2> QED  BY <1>7, <2>1, <2>4, <2>5, <2>6 DEF w
<1> QED  BY <1>2, <1>3, <1>5, <1>6, <1>7

LEMMA BufferInit == Init => BufferInv
BY TypeInit DEF Init, BufferInv, BufferIsBounded, NothingBefore, PutsAreNear, HoldsItsOwn,
                InBuffer, PlaysWhatWasRead, Idle

LEMMA BufferStep == NeverLapped /\ BufferInv /\ [Next]_vars => BufferInv'
<1> SUFFICES ASSUME NeverLapped, BufferInv, [Next]_vars  PROVE BufferInv'
  OBVIOUS
<1>0. TypeInv /\ TypeInv'  BY TypeStep DEF BufferInv
<1> DEFINE Rest == /\ BufferIsBounded /\ NothingBefore /\ PutsAreNear
                   /\ HoldsItsOwn /\ PlaysWhatWasRead
<1> SUFFICES Rest'  BY <1>0 DEF BufferInv
<1>a. Rest  BY DEF BufferInv
<1>b. /\ rx \in [Receivers -> ReceiverState] /\ ab_read \in Seqs /\ ab_write \in Seqs
      /\ MaxAhead \in Nat /\ MaxLate \in Nat
  BY <1>0, PlayerBufferAssumption DEF TypeInv, TypeOK, ReceiverState
<1>c. ASSUME UNCHANGED <<slots, ab_read, ab_write, ab_synced, packet_seen, rx>>,
             pc' = "out" => pc = "out" /\ playing' = playing
      PROVE  Rest'
  BY <1>a, <1>c DEF BufferIsBounded, NothingBefore, PutsAreNear, HoldsItsOwn,
                    InBuffer, CanStillCome, PlaysWhatWasRead
<1>1. ASSUME NEW r \in Receivers, NEW p \in Packets, ClearEarlyFlush(r, p)
      PROVE  Rest'
  <2>1. ~ab_synced /\ UNCHANGED <<slots, ab_read, ab_write, ab_synced, packet_seen, pc, playing>>
    BY <1>1, <1>a DEF ClearEarlyFlush, NothingBefore, input, player
  <2>2. BufferIsBounded' /\ NothingBefore' /\ HoldsItsOwn' /\ PlaysWhatWasRead'
    BY <2>1, <1>a DEF BufferIsBounded, NothingBefore, HoldsItsOwn, InBuffer, PlaysWhatWasRead
  <2>3. /\ \A q \in Receivers : rx[q].at = "put" => p - rx[q].packet \in -MaxAhead .. MaxAhead
        /\ rx' = [rx EXCEPT ![r] = [Idle EXCEPT !.at = "put", !.packet = p]]
    BY <1>1, Zenon DEF ClearEarlyFlush, Arriving
  <2>4. /\ rx'[r].packet = p
        /\ \A q \in Receivers \ {r} : rx'[q] = rx[q]
    BY <1>b, <2>3 DEF Idle
  <2>5. \A q \in Receivers : rx[q].packet \in Int  BY <1>b DEF ReceiverState, Packets
  <2>6. ASSUME NEW q \in Receivers, NEW e \in Receivers, rx'[q].at = "put", rx'[e].at = "put"
        PROVE  rx'[q].packet - rx'[e].packet \in -MaxAhead .. MaxAhead
    <3>1. p \in Int  BY DEF Packets
    <3>2. CASE q = r /\ e = r  BY <1>b, <2>4, <3>1, <3>2
    <3>3. CASE q = r /\ e # r  BY <1>b, <2>3, <2>4, <2>6, <3>3
    <3>4. CASE q # r /\ e = r  BY <1>b, <2>3, <2>4, <2>5, <2>6, <3>1, <3>4
    <3>5. CASE q # r /\ e # r  BY <1>a, <2>4, <2>6, <3>5 DEF PutsAreNear
    <3> QED  BY <3>2, <3>3, <3>4, <3>5
  <2>7. PutsAreNear'  BY <2>1, <2>6 DEF PutsAreNear
  <2> QED  BY <2>2, <2>7
<1>2. ASSUME NEW r \in Receivers, NEW ok, PutFirst(r, ok)
      PROVE  Rest'
  <2> DEFINE p == rx[r].packet
  <2>1. p \in Packets /\ player_put_packet(r, p, ok) /\ rx[r].at = "put"
    BY <1>2, <1>b DEF PutFirst, ReceiverState
  <2>2. SeqOf(p) \in Seqs  BY <2>1, SeqOfType DEF Packets
  <2>3. ab_synced => CanBePlaced(SeqOf(p))
    <3>1. Dist(SeqOf(p), ab_read) \in Int /\ Dist(ab_read, ab_write) \in Int
      BY <1>b, <2>2, DistIs, Sizes DEF Seqs
    <3> QED  BY <1>a, <1>b, <2>1, <3>1 DEF PutsAreNear, CanStillCome, CanBePlaced
  <2>4. \A q \in Receivers \ {r} :
          rx[q].at = "put" => rx[q].packet - p \in -MaxAhead .. MaxAhead
    BY <1>a, <2>1 DEF PutsAreNear
  <2> HIDE DEF p
  <2> QED  BY <2>1, <2>3, <2>4, PutKeepsBuffer
<1>3. ASSUME NEW r \in Receivers, NEW p \in Packets, NEW ok, Put(r, p, ok)
      PROVE  Rest'
  <2>1. /\ ab_synced => \/ Dist(ab_read, SeqOf(p)) <= MaxAhead
                        \/ Dist(SeqOf(p), ab_read) <= MaxLate
        /\ \A q \in Receivers : rx[q].at = "put" => p - rx[q].packet \in -MaxAhead .. MaxAhead
        /\ player_put_packet(r, p, ok)
    BY <1>3, Zenon DEF Put, Arriving
  <2>2. SeqOf(p) \in Seqs  BY SeqOfType DEF Packets
  <2>3. ab_synced => CanBePlaced(SeqOf(p))
    <3>1. Dist(SeqOf(p), ab_read) \in Int /\ Dist(ab_read, ab_write) \in Int
      BY <1>b, <2>2, DistIs, Sizes DEF Seqs
    <3> QED  BY <1>a, <1>b, <2>1, <3>1 DEF BufferIsBounded, CanBePlaced
  <2>4. \A q \in Receivers \ {r} :
          rx[q].at = "put" => rx[q].packet - p \in -MaxAhead .. MaxAhead
    <3>1. p \in Int /\ \A q \in Receivers : rx[q].packet \in Int
      BY <1>b DEF ReceiverState, Packets
    <3> QED  BY <1>b, <2>1, <3>1
  <2> QED  BY <2>1, <2>3, <2>4, PutKeepsBuffer
<1>4. ASSUME NEW r \in Receivers, ResumeCheck(r)
      PROVE  Rest'
  <2>1. /\ CheckFrom(r, slots, rx[r].x, ab_write, first_possibly_missing_frame, rx[r].absent)
        /\ UNCHANGED <<ab_read, ab_write, ab_synced, packet_seen, pc, playing>>
    BY <1>4 DEF ResumeCheck, player
  <2>2. rx'[r].at # "put" /\ \A q \in Receivers \ {r} : rx'[q] = rx[q]
    <3>1. \E scan, none : rx' = [rx EXCEPT ![r] =
             IF scan.send THEN [at |-> "sending", packet |-> 0, x |-> scan.next,
                                absent |-> none, start |-> scan.start,
                                marked |-> scan.marked]
                          ELSE Idle]
      BY <2>1, Zenon DEF CheckFrom
    <3> QED  BY <1>b, <3>1 DEF Idle
  <2>3. \A i \in 0 .. BufferFrames - 1 :
          slots'[i].ready = slots[i].ready /\ slots'[i].seq = slots[i].seq
    BY <1>0, <2>1, CheckChangesAsked DEF TypeInv
  <2>4. PutsAreNear'  BY <1>a, <2>1, <2>2 DEF PutsAreNear, CanStillCome
  <2>5. \A t \in Seqs : BUFIDX(t) \in 0 .. BufferFrames - 1  BY IndexType, Sizes
  <2>6. HoldsItsOwn'  BY <1>a, <2>1, <2>3, <2>5 DEF HoldsItsOwn, InBuffer
  <2>7. BufferIsBounded' /\ NothingBefore' /\ PlaysWhatWasRead'
    BY <1>a, <2>1 DEF BufferIsBounded, NothingBefore, PlaysWhatWasRead
  <2> QED  BY <2>4, <2>6, <2>7
<1>5. ASSUME NEW f \in FlushPoints, do_flush(f)
      PROVE  Rest'
  BY <1>5, <1>c DEF do_flush, input, player
<1>6. CASE player_thread_start
  <2>1. /\ UNCHANGED rx /\ ab_synced' = FALSE /\ pc' = "top"
    BY <1>6 DEF player_thread_start
  <2> QED
    BY <1>a, <2>1 DEF BufferIsBounded, NothingBefore, PutsAreNear, HoldsItsOwn, InBuffer,
                      PlaysWhatWasRead
<1>7. CASE LoopTop
  BY <1>7, <1>c DEF LoopTop, input
<1>8. CASE NoFlush
  BY <1>8, <1>c DEF NoFlush, input
<1>9. CASE HandleFlush
  <2>1. pc' = "frame" /\ UNCHANGED <<ab_write, rx, packet_seen>>
    BY <1>9 DEF HandleFlush
  <2>2. CASE ab_synced' = FALSE
    BY <1>a, <2>1, <2>2 DEF BufferIsBounded, NothingBefore, PutsAreNear, HoldsItsOwn,
                            InBuffer, PlaysWhatWasRead
  <2>3. CASE UNCHANGED <<slots, ab_read, ab_synced>>
    BY <1>c, <2>1, <2>3
  <2>4. CASE /\ ab_synced /\ UNCHANGED ab_synced
             /\ \E k \in 0 .. Dist(ab_read, ab_write) - 1 : ab_read' = Plus(ab_read, k)
             /\ \A j \in 0 .. BufferFrames - 1 :
                  slots'[j].seq = slots[j].seq /\ slots'[j].ready = slots[j].ready
    <3>1. PICK k \in 0 .. Dist(ab_read, ab_write) - 1 : ab_read' = Plus(ab_read, k)
      BY <2>4
    <3>2. k \in 0 .. Dist(ab_read, ab_write)  BY <1>b, DistFrom
    <3>3. BufferIsBounded' /\ NothingBefore' /\ PutsAreNear' /\ HoldsItsOwn'
      BY <2>1, <2>4, <3>1, <3>2, ReadingOnKeepsBuffer
    <3> QED  BY <2>1, <3>3 DEF PlaysWhatWasRead
  <2> QED  BY <1>0, <1>9, <2>2, <2>3, <2>4, FlushReads
<1>10. CASE GetFrame
  <2>1. UNCHANGED <<ab_write, ab_synced, rx, packet_seen>>  BY <1>10 DEF GetFrame
  <2>2. Dist(ab_read, ab_write) \in 0 .. SeqMod - 1 /\ SeqMod \in Nat
    BY <1>b, DistFrom, Sizes
  <2>3. CASE UNCHANGED <<slots, playing, ab_read>> /\ pc' = "top"
    BY <1>c, <2>1, <2>3
  <2>4. CASE /\ UNCHANGED <<slots, playing>> /\ pc' = "top" /\ ab_synced
             /\ \E k \in 0 .. Dist(ab_read, ab_write) : ab_read' = Plus(ab_read, k)
    <3>1. BufferIsBounded' /\ NothingBefore' /\ PutsAreNear' /\ HoldsItsOwn'
      BY <2>1, <2>4, ReadingOnKeepsBuffer
    <3> QED  BY <2>4, <3>1 DEF PlaysWhatWasRead
  <2>5. CASE /\ ab_synced
             /\ \E k \in 0 .. Dist(ab_read, ab_write) - 1 :
                  /\ ab_read' = Plus(ab_read, k + 1) /\ Plus(ab_read', -1) = Plus(ab_read, k)
                  /\ playing' = BUFIDX(Plus(ab_read, k))
             /\ \A j \in 0 .. BufferFrames - 1 :
                  /\ slots'[j].seq = slots[j].seq /\ (slots'[j].ready => slots[j].ready)
                  /\ j # playing' => slots'[j] = slots[j]
    <3>1. PICK k \in 0 .. Dist(ab_read, ab_write) - 1 :
            /\ ab_read' = Plus(ab_read, k + 1) /\ Plus(ab_read', -1) = Plus(ab_read, k)
            /\ playing' = BUFIDX(Plus(ab_read, k))
      BY <2>5
    <3>2. k + 1 \in 0 .. Dist(ab_read, ab_write)  BY <2>2
    <3>3. BufferIsBounded' /\ NothingBefore' /\ PutsAreNear' /\ HoldsItsOwn'
      BY <2>1, <2>5, <3>1, <3>2, ReadingOnKeepsBuffer
    <3>4. PlaysWhatWasRead'
      BY <2>1, <2>5, <3>1 DEF PlaysWhatWasRead, BUFIDX, Plus
    <3> QED  BY <3>3, <3>4
  <2> QED  BY <1>0, <1>10, <2>3, <2>4, <2>5, GetFrameReads
<1>11. CASE PlayFrame
  BY <1>11, <1>c DEF PlayFrame, input
<1>12. CASE TimingArrives
  BY <1>12, <1>c DEF TimingArrives, input, player
<1>13. CASE set_requested_connection_state_to_output
  BY <1>13, <1>c DEF set_requested_connection_state_to_output, input, player
<1>14. CASE Tick
  BY <1>14, <1>c DEF Tick, input, player
<1>15. CASE UNCHANGED vars
  BY <1>15, <1>c DEF vars, input, player
<1> HIDE DEF Rest
<1> QED
  BY <1>1, <1>2, <1>3, <1>4, <1>5, <1>6, <1>7, <1>8, <1>9, <1>10, <1>11, <1>12,
     <1>13, <1>14, <1>15
  DEF Next, Receiver, buffer_get_frame

LEMMA BufferInvariance == NeverLapped => (Spec => []BufferInv)
<1> SUFFICES ASSUME NeverLapped  PROVE Spec => []BufferInv
  OBVIOUS
<1>1. BufferInv /\ [Next]_vars => BufferInv'  BY BufferStep
<1> QED  BY BufferInit, <1>1, PTL DEF Spec

LEMMA WindowIs ==
  ASSUME ab_read \in Seqs, ab_write \in Seqs
  PROVE  \A s \in Window : s \in Seqs /\ InBuffer(s)
<1> SUFFICES ASSUME NEW s \in Window  PROVE s \in Seqs /\ InBuffer(s)
  OBVIOUS
<1>1. PICK k \in 0 .. Dist(ab_read, ab_write) - 1 : ab_synced /\ s = Plus(ab_read, k)
  BY Zenon DEF Window
<1>2. Dist(ab_read, ab_write) \in 0 .. SeqMod - 1 /\ Dist(ab_read, ab_read) = 0
      /\ SeqMod \in Nat
  BY DistFrom, Sizes
<1>3. k \in 0 .. SeqMod - 1  BY <1>2
<1>4. s \in Seqs /\ Dist(ab_read, s) = IF 0 + k < SeqMod THEN 0 + k ELSE 0 + k - SeqMod
  BY <1>1, <1>2, <1>3, DistPlus
<1> QED  BY <1>1, <1>2, <1>3, <1>4 DEF InBuffer

\* Whatever is lost, late, repeated, reordered or flushed, and wherever the sequence
\* numbers wrap, a ready slot inside the buffer of player_put_packet holds the
\* packet of its own number.
THEOREM EachSlotItsPacket == NeverLapped => (Spec => []SlotHoldsItsPacket)
<1> SUFFICES ASSUME NeverLapped  PROVE Spec => []SlotHoldsItsPacket
  OBVIOUS
<1>1. BufferInv => SlotHoldsItsPacket
  <2> SUFFICES ASSUME BufferInv  PROVE SlotHoldsItsPacket
    OBVIOUS
  <2>1. TypeOK /\ ab_read \in Seqs /\ ab_write \in Seqs
    BY DEF BufferInv, TypeInv, TypeOK
  <2>2. \A s \in Window : slots[BUFIDX(s)].ready => slots[BUFIDX(s)].seq = s
    BY <2>1, WindowIs DEF BufferInv, HoldsItsOwn
  <2> QED  BY <2>1, <2>2 DEF SlotHoldsItsPacket
<1> QED  BY <1>1, BufferInvariance, PTL

\* Behind the buffer there is room for one more slot: no packet goes there.
LEMMA SlotBehindIsFree ==
  ASSUME NeverLapped, MaxAhead + 1 < BufferFrames, BufferInv, ab_synced,
         NEW p \in Packets, NEW ok, CanBePlaced(SeqOf(p))
  PROVE  LET i == BUFIDX(Plus(ab_read, -1))
         IN  Stored(Placed(SeqOf(p)), p, ok)[i] = slots[i]
<1> DEFINE s     == SeqOf(p)
           place == Placed(s)
           e     == Plus(ab_read, -1)
           i     == BUFIDX(e)
<1>1. /\ ab_read \in Seqs /\ ab_write \in Seqs /\ s \in Seqs
      /\ MaxAhead \in Nat /\ SeqMod \in Nat /\ BufferFrames \in Nat /\ 3 * MaxAhead + 1 < SeqMod
  BY SeqOfType, PlayerBufferAssumption DEF BufferInv, TypeInv, TypeOK, Packets, NeverLapped
<1>2. /\ place.rd = ab_read
      /\ Dist(place.rd, place.wr) <= MaxAhead + 1
      /\ place.keep => Dist(ab_read, s) < Dist(place.rd, place.wr)
      /\ \A t \in place.gap : t \in Seqs /\ Dist(ab_read, t) < Dist(place.rd, place.wr)
  BY <1>1, PlacedFacts DEF BufferInv
<1>3. e \in Seqs /\ e = IF ab_read = 0 THEN SeqMod - 1 ELSE ab_read - 1
  <2>1. -1 \in -1 .. SeqMod /\ -1 \in Int /\ ab_read \in Int  BY <1>1, Sizes
  <2>2. e = IF ab_read + -1 >= SeqMod THEN ab_read + -1 - SeqMod
            ELSE IF ab_read + -1 < 0 THEN ab_read + -1 + SeqMod ELSE ab_read + -1
    BY <1>1, <2>1, PlusIs
  <2>3. e \in Seqs  BY <2>1, PlusType
  <2> HIDE DEF e
  <2> QED  BY <1>1, <2>2, <2>3 DEF Seqs
<1>4. Dist(e, ab_read) = 1
  <2> HIDE DEF e
  <2>1. Dist(e, ab_read) = IF e <= ab_read THEN ab_read - e ELSE ab_read - e + SeqMod
    BY <1>1, <1>3, DistIs
  <2> QED  BY <1>1, <1>3, <2>1 DEF Seqs
<1> HIDE DEF e, place
<1>5. ASSUME NEW t \in Seqs, Dist(ab_read, t) < Dist(place.rd, place.wr)
      PROVE  BUFIDX(t) # i
  <2>1. Dist(ab_read, t) \in 0 .. SeqMod - 1 /\ Dist(ab_read, t) <= MaxAhead
    <3>1. Dist(ab_read, t) \in 0 .. SeqMod - 1  BY <1>1, DistFrom
    <3>2. place.rd \in Seqs /\ place.wr \in Seqs  BY <1>1, PlacedType DEF place
    <3>3. Dist(place.rd, place.wr) \in 0 .. SeqMod - 1  BY <3>2, DistFrom
    <3> QED  BY <1>1, <1>2, <1>5, <3>1, <3>3
  <2>2. /\ Dist(ab_read, t) = IF 1 <= Dist(e, t) THEN Dist(e, t) - 1 ELSE Dist(e, t) - 1 + SeqMod
        /\ Dist(e, t) \in 0 .. SeqMod - 1
    <3>1. /\ Dist(ab_read, t) = IF Dist(e, ab_read) <= Dist(e, t)
                                  THEN Dist(e, t) - Dist(e, ab_read)
                                  ELSE Dist(e, t) - Dist(e, ab_read) + SeqMod
          /\ Dist(e, t) \in 0 .. SeqMod - 1
      BY <1>1, <1>3, DistFrom
    <3> QED  BY <1>4, <3>1
  <2>3. Dist(e, t) < BufferFrames /\ Dist(e, t) # 0
    BY <1>1, <2>1, <2>2
  <2>4. e # t  BY <1>3, <2>3, DistFrom
  <2> QED  BY <1>3, <2>3, <2>4, SameIndex
<1>6. i \in 0 .. BufferFrames - 1  BY <1>3, IndexType, Sizes
<1>7. ~(i = BUFIDX(s) /\ place.keep) /\ i \notin {BUFIDX(t) : t \in place.gap}
  BY <1>1, <1>2, <1>5
<1> HIDE DEF i
<1>8. Stored(place, p, ok)[i] = slots[i]
  BY <1>6, <1>7, StoredAt DEF BufferInv
<1> QED  BY <1>8 DEF i, e, place

\* While the player plays a frame, without the lock, no step writes into its slot.
LEMMA PlayingStays ==
  ASSUME NeverLapped, MaxAhead + 1 < BufferFrames, BufferInv, Next, pc = "out"
  PROVE  \A field \in {"seq", "ts", "len"} : slots'[playing][field] = slots[playing][field]
<1>0. /\ TypeInv /\ ab_synced /\ playing = BUFIDX(Plus(ab_read, -1))
      /\ playing \in 0 .. BufferFrames - 1
      /\ rx \in [Receivers -> ReceiverState] /\ now \in 0 .. MaxTime
      /\ ab_read \in Seqs /\ ab_write \in Seqs
      /\ MaxAhead \in Nat /\ MaxLate \in Nat
  BY PlayerBufferAssumption
  DEF BufferInv, PlaysWhatWasRead, TypeInv, TypeOK, ReceiverState
<1>1. ASSUME NEW r \in Receivers, NEW p \in Packets, NEW ok,
             player_put_packet(r, p, ok), CanBePlaced(SeqOf(p))
      PROVE  \A field \in {"seq", "ts", "len"} :
               slots'[playing][field] = slots[playing][field]
  <2>1. CASE ~connection_state_to_output
    BY <1>1, <2>1, Zenon DEF player_put_packet, input
  <2>2. CASE connection_state_to_output
    <3> DEFINE place == Placed(SeqOf(p))
               sl    == Stored(place, p, ok)
    <3>1. CheckFrom(r, sl, CheckStart(place.rd, place.wr), place.wr, -1, FALSE)
      BY <1>1, <2>2, Zenon DEF player_put_packet
    <3>2. sl[playing] = slots[playing]  BY <1>0, <1>1, SlotBehindIsFree
    <3>3. SlotsOK(sl)  BY <1>0, StoredOK DEF TypeInv
    <3> DEFINE x  == CheckStart(place.rd, place.wr)
               wr == place.wr
    <3>4. CheckFrom(r, sl, x, wr, -1, FALSE)  BY <3>1
    <3> HIDE DEF sl, place, x, wr
    <3>5. \A i \in 0 .. BufferFrames - 1 :
            /\ slots'[i].ready = sl[i].ready /\ slots'[i].seq = sl[i].seq
            /\ slots'[i].ts = sl[i].ts /\ slots'[i].len = sl[i].len
      BY <3>3, <3>4, CheckChangesAsked, Zenon
    <3>6. playing \in 0 .. BufferFrames - 1  BY <1>0
    <3>7. /\ slots'[playing].seq = sl[playing].seq /\ slots'[playing].ts = sl[playing].ts
          /\ slots'[playing].len = sl[playing].len
      BY <3>5, <3>6, Zenon
    <3> QED  BY <3>2, <3>7, Zenon
  <2> QED  BY <2>1, <2>2
<1>2. ASSUME NEW r \in Receivers, NEW ok, PutFirst(r, ok)
      PROVE  \A field \in {"seq", "ts", "len"} :
               slots'[playing][field] = slots[playing][field]
  <2> DEFINE p == rx[r].packet
  <2>1. p \in Packets /\ player_put_packet(r, p, ok) /\ rx[r].at = "put"
    BY <1>0, <1>2 DEF PutFirst, ReceiverState
  <2>2. SeqOf(p) \in Seqs  BY <2>1, SeqOfType DEF Packets
  <2>3. Dist(SeqOf(p), ab_read) \in Int /\ Dist(ab_read, ab_write) \in Int
    BY <1>0, <2>2, DistIs, Sizes DEF Seqs
  <2>4. CanBePlaced(SeqOf(p))
    BY <1>0, <2>1, <2>3 DEF BufferInv, PutsAreNear, CanStillCome, CanBePlaced
  <2> QED  BY <1>1, <2>1, <2>4
<1>3. ASSUME NEW r \in Receivers, NEW p \in Packets, NEW ok, Put(r, p, ok)
      PROVE  \A field \in {"seq", "ts", "len"} :
               slots'[playing][field] = slots[playing][field]
  <2>1. /\ ab_synced => \/ Dist(ab_read, SeqOf(p)) <= MaxAhead
                        \/ Dist(SeqOf(p), ab_read) <= MaxLate
        /\ player_put_packet(r, p, ok)
    BY <1>3, Zenon DEF Put, Arriving
  <2>2. SeqOf(p) \in Seqs  BY SeqOfType DEF Packets
  <2>3. Dist(SeqOf(p), ab_read) \in Int /\ Dist(ab_read, ab_write) \in Int
    BY <1>0, <2>2, DistIs, Sizes DEF Seqs
  <2>4. CanBePlaced(SeqOf(p))
    BY <1>0, <2>1, <2>3 DEF BufferInv, BufferIsBounded, CanBePlaced
  <2> QED  BY <1>1, <2>1, <2>4
<1>4. ASSUME NEW r \in Receivers, ResumeCheck(r)
      PROVE  \A field \in {"seq", "ts", "len"} :
               slots'[playing][field] = slots[playing][field]
  BY <1>0, <1>4, CheckChangesAsked DEF ResumeCheck, TypeInv
<1>5. CASE UNCHANGED slots
  BY <1>5
<1> QED
  BY <1>2, <1>3, <1>4, <1>5
  DEF Next, Receiver, buffer_get_frame, ClearEarlyFlush, do_flush, player_thread_start,
      LoopTop, NoFlush, HandleFlush, GetFrame, PlayFrame, TimingArrives, Tick, input,
      set_requested_connection_state_to_output

\* player_thread_func reads the frame it was given after ab_mutex is released; if
\* the ring has one slot to spare, no receiver writes into that slot meanwhile.
THEOREM PlayingSlot ==
  NeverLapped /\ MaxAhead + 1 < BufferFrames => (Spec => PlayingSlotIsStable)
<1> SUFFICES ASSUME NeverLapped, MaxAhead + 1 < BufferFrames
             PROVE  Spec => PlayingSlotIsStable
  OBVIOUS
<1>1. BufferInv /\ [Next]_vars =>
        [pc = "out" => \A field \in {"seq", "ts", "len"} :
                         slots'[playing][field] = slots[playing][field]]_vars
  BY PlayingStays
<1> QED  BY <1>1, BufferInvariance, PTL DEF Spec, PlayingSlotIsStable

-----------------------------------------------------------------------------
(* The hint of where the first missing frame may be. *)

\* A check that sent a request had met a missing frame, so a hint was left.
RunsLeaveAHint ==
  \A r \in Receivers :
    rx[r].at = "sending" => rx[r].absent /\ first_possibly_missing_frame # -1

HintIsNear ==
  ab_synced => first_possibly_missing_frame # -1 /\ StillNear(first_possibly_missing_frame)

\* Every frame before the hint, if the hint is in the buffer, is there.
HintIsGood ==
  LET hint == first_possibly_missing_frame
  IN  ab_synced /\ Dist(ab_read, hint) <= Dist(ab_read, ab_write) =>
        \A s \in Seqs : Dist(ab_read, s) < Dist(ab_read, hint) => slots[BUFIDX(s)].ready

HintInv == BufferInv /\ RunsLeaveAHint /\ HintIsNear /\ HintIsGood

\* The check made when a packet arrives goes over the buffer from the read
\* position or, if it can, from the hint left by an earlier check.
LEMMA CheckFindsTheFirst ==
  ASSUME NEW sl, NEW R \in Seqs, NEW W \in Seqs, NEW x \in Seqs,
         Dist(R, x) <= Dist(R, W),
         \A s \in Seqs : Dist(R, s) < Dist(R, x) => sl[BUFIDX(s)].ready
  PROVE  LET scan == Scan(sl, x, W)
             hint == IF scan.absent THEN scan.first ELSE W
         IN  /\ hint \in Seqs /\ Dist(R, hint) <= Dist(R, W)
             /\ \A s \in Seqs : Dist(R, s) < Dist(R, hint) => sl[BUFIDX(s)].ready
<1> DEFINE scan  == Scan(sl, x, W)
           hint  == IF scan.absent THEN scan.first ELSE W
           At(k) == sl[BUFIDX(x + k)]
           n     == Dist(x, W)
           d     == Dist(R, x)
<1>1. /\ n = Dist(R, W) - d /\ n \in 0 .. SeqMod - 1 /\ d \in 0 .. SeqMod - 1
      /\ Dist(R, W) \in 0 .. SeqMod - 1 /\ SeqMod \in Nat
  BY DistFrom, Sizes
<1>2. /\ ~scan.absent => \A k \in 0 .. n - 1 : At(k).ready
      /\ scan.absent => \E k \in 0 .. n - 1 : /\ scan.first = Plus(x, k) /\ ~At(k).ready
                                              /\ \A j \in 0 .. k - 1 : At(j).ready
  BY ScanFacts
<1> HIDE DEF scan
<1>3. PICK m \in 0 .. n : /\ hint \in Seqs /\ Dist(R, hint) = d + m
                          /\ \A j \in 0 .. m - 1 : At(j).ready
  <2>1. CASE ~scan.absent
    <3>1. hint = W /\ Dist(R, hint) = d + n /\ n \in 0 .. n
      <4> HIDE DEF n, d
      <4> QED  BY <1>1, <2>1
    <3>2. \A j \in 0 .. n - 1 : At(j).ready  BY <1>2, <2>1
    <3> HIDE DEF n, d, hint
    <3> QED  BY <3>1, <3>2
  <2>2. CASE scan.absent
    <3>1. PICK k \in 0 .. n - 1 : /\ scan.first = Plus(x, k)
                                  /\ \A j \in 0 .. k - 1 : At(j).ready
      BY <1>2, <2>2
    <3>2. k \in 0 .. n /\ k \in 0 .. SeqMod - 1 /\ d + k < SeqMod
      <4> HIDE DEF n, d
      <4> QED  BY <1>1, <3>1
    <3>3. Plus(x, k) \in Seqs /\ Dist(R, Plus(x, k)) = d + k
      BY <3>2, DistPlus
    <3> HIDE DEF n, d
    <3> QED  BY <2>2, <3>1, <3>2, <3>3
  <2> QED  BY <2>1, <2>2
<1>4. ASSUME NEW s \in Seqs, Dist(R, s) < Dist(R, hint), Dist(R, s) >= d
      PROVE  sl[BUFIDX(s)].ready
  <2> DEFINE k == Dist(R, s) - d
  <2>1. Dist(R, s) \in 0 .. SeqMod - 1  BY DistFrom
  <2>2. k \in 0 .. m - 1 /\ k \in 0 .. SeqMod - 1 /\ d + k = Dist(R, s)
    <3> HIDE DEF n, d
    <3> QED  BY <1>1, <1>3, <1>4, <2>1
  <2> HIDE DEF k
  <2>3. Plus(x, k) \in Seqs /\ Dist(R, Plus(x, k)) = Dist(R, s)
    BY <1>1, <2>1, <2>2, DistPlus
  <2>4. Plus(x, k) = s  BY <2>3, DistFrom
  <2>5. BUFIDX(x + k) = BUFIDX(s)  BY <2>2, <2>4, IndexOfPlus, Sizes
  <2> QED  BY <1>3, <2>2, <2>5
<1>5. \A s \in Seqs : Dist(R, s) \in 0 .. SeqMod - 1  BY DistFrom
<1>6. Dist(R, hint) <= Dist(R, W)
  <2> HIDE DEF n, d, hint
  <2> QED  BY <1>1, <1>3
<1>7. \A s \in Seqs : Dist(R, s) < Dist(R, hint) => sl[BUFIDX(s)].ready
  <2> HIDE DEF hint
  <2> QED  BY <1>1, <1>4, <1>5
<1> QED  BY <1>3, <1>6, <1>7 DEF scan

\* The check made when a packet arrives starts at the read position or at the
\* hint, and every frame before that is there.
LEMMA CheckStartsWell ==
  ASSUME NeverLapped, HintInv, NEW p \in Packets, ab_synced => CanBePlaced(SeqOf(p))
  PROVE  LET place == Placed(SeqOf(p))
             sl    == Stored(place, p, TRUE)
             x     == CheckStart(place.rd, place.wr)
         IN  /\ x \in Seqs /\ Dist(place.rd, x) <= Dist(place.rd, place.wr)
             /\ \A t \in Seqs : Dist(place.rd, t) < Dist(place.rd, x) => sl[BUFIDX(t)].ready
<1> USE DEF HintInv
<1> DEFINE s     == SeqOf(p)
           place == Placed(s)
           R     == place.rd
           W     == place.wr
           sl    == Stored(place, p, TRUE)
           x     == CheckStart(R, W)
           old   == first_possibly_missing_frame
           w     == Dist(ab_read, ab_write)
<1>1. /\ TypeInv /\ ab_read \in Seqs /\ ab_write \in Seqs
      /\ old \in Seqs \cup {-1} /\ s \in Seqs
      /\ MaxAhead \in Nat /\ SeqMod \in Nat /\ 3 * MaxAhead + 1 < SeqMod
  BY SeqOfType, PlayerBufferAssumption
  DEF BufferInv, TypeInv, TypeOK, Packets, NeverLapped
<1>2. /\ R = IF ab_synced THEN ab_read ELSE s
      /\ ~ab_synced => Dist(R, W) = 1
      /\ Dist(R, W) <= MaxAhead + 1 /\ (ab_synced => w <= Dist(R, W))
      /\ \A t \in place.gap : w <= Dist(ab_read, t)
  BY <1>1, PlacedFacts DEF BufferInv
<1>3. R \in Seqs /\ W \in Seqs  BY <1>1, PlacedType
<1>4. Dist(R, R) = 0 /\ Dist(R, W) \in 0 .. SeqMod - 1 /\ w \in 0 .. SeqMod - 1
  BY <1>1, <1>3, DistFrom
<1>5. \A t \in Seqs : Dist(R, t) < Dist(R, W) =>
        \/ t = s /\ sl[BUFIDX(t)].ready
        \/ t \in place.gap
        \/ ab_synced /\ sl[BUFIDX(t)] = slots[BUFIDX(t)]
  <2>1. \A t \in Seqs : Dist(R, t) < Dist(R, W) =>
          \/ t = s /\ sl[BUFIDX(t)] = GoodSlot(t, TsOf(p))
          \/ t \in place.gap
          \/ ab_synced /\ sl[BUFIDX(t)] = slots[BUFIDX(t)]
    BY <1>1, StoredFacts DEF BufferInv
  <2>2. \A t : GoodSlot(t, TsOf(p)).ready  BY DEF GoodSlot
  <2> HIDE DEF sl, place
  <2> QED  BY <2>1, <2>2
<1> HIDE DEF w, sl, place, R, W
<1>6. x \in Seqs /\ (x = R \/ (x = old /\ old # -1 /\ Dist(R, old) < Dist(R, W)))
  BY <1>1, <1>3, CheckStartType DEF CheckStart
<1> DEFINE Before == /\ Dist(R, x) <= Dist(R, W)
                     /\ \A t \in Seqs : Dist(R, t) < Dist(R, x) => sl[BUFIDX(t)].ready
<1>7. ASSUME x = R
      PROVE  Before
  <2>1. \A t \in Seqs : Dist(R, t) \in 0 .. SeqMod - 1  BY <1>3, DistFrom
  <2> HIDE DEF x
  <2> QED  BY <1>4, <1>7, <2>1
<1>8. ASSUME x = old, old # -1, Dist(R, old) < Dist(R, W)
      PROVE  Before
  <2>1. old \in Seqs /\ Dist(R, old) \in 0 .. SeqMod - 1  BY <1>1, <1>3, <1>8, DistFrom
  <2>2. Dist(R, x) <= Dist(R, W)
    <3> HIDE DEF x, old
    <3> QED  BY <1>4, <1>8, <2>1
  <2>3. ASSUME NEW t \in Seqs, Dist(R, t) < Dist(R, old)  PROVE sl[BUFIDX(t)].ready
    <3>1. Dist(R, t) \in 0 .. SeqMod - 1  BY <1>3, DistFrom
    <3>2. ab_synced /\ R = ab_read
      <4> HIDE DEF old
      <4> QED  BY <1>2, <1>4, <1>8, <2>1, <2>3, <3>1
    <3>3. Dist(ab_read, old) <= w
      <4>1. Dist(ab_read, old) <= w \/ Dist(old, ab_read) + w <= MaxAhead + 1
        BY <3>2 DEF HintIsNear, StillNear, w
      <4>2. /\ Dist(old, ab_read) = IF Dist(ab_read, old) <= Dist(ab_read, ab_read)
                                      THEN Dist(ab_read, ab_read) - Dist(ab_read, old)
                                      ELSE Dist(ab_read, ab_read) - Dist(ab_read, old) + SeqMod
            /\ Dist(ab_read, ab_read) = 0
        BY <1>1, <2>1, DistFrom
      <4> HIDE DEF old
      <4> QED  BY <1>1, <1>2, <1>4, <1>8, <2>1, <3>2, <4>1, <4>2
    <3>4. slots[BUFIDX(t)].ready
      BY <2>3, <3>2, <3>3 DEF HintIsGood, w
    <3>5. t \notin place.gap
      <4> HIDE DEF old
      <4> QED  BY <1>2, <1>4, <2>1, <2>3, <3>1, <3>2, <3>3
    <3>6. Dist(R, t) < Dist(R, W)
      <4> HIDE DEF old
      <4> QED  BY <1>4, <1>8, <2>1, <2>3, <3>1
    <3> QED  BY <1>5, <3>4, <3>5, <3>6
  <2> HIDE DEF x, old
  <2> QED  BY <1>8, <2>2, <2>3
<1> QED  BY <1>6, <1>7, <1>8 DEF R, W, sl, place

LEMMA PutLeavesAHint ==
  ASSUME NeverLapped, HintInv, NEW r \in Receivers, NEW p \in Packets,
         player_put_packet(r, p, TRUE), ab_synced => CanBePlaced(SeqOf(p))
  PROVE  RunsLeaveAHint' /\ HintIsNear' /\ HintIsGood'
<1> USE DEF HintInv
<1> DEFINE s     == SeqOf(p)
           place == Placed(s)
           R     == place.rd
           W     == place.wr
           sl    == Stored(place, p, TRUE)
           x     == CheckStart(R, W)
           old   == first_possibly_missing_frame
           w     == Dist(ab_read, ab_write)
<1>1. /\ TypeInv /\ rx \in [Receivers -> ReceiverState] /\ ab_read \in Seqs /\ ab_write \in Seqs
      /\ old \in Seqs \cup {-1} /\ s \in Seqs /\ TypeOK
      /\ MaxAhead \in Nat /\ SeqMod \in Nat /\ 3 * MaxAhead + 1 < SeqMod
  BY SeqOfType, PlayerBufferAssumption
  DEF BufferInv, TypeInv, TypeOK, ReceiverState, Packets, NeverLapped
<1>2. CASE ~connection_state_to_output
  <2>1. rx' = [rx EXCEPT ![r] = Idle] /\ UNCHANGED input
    BY <1>2, Zenon DEF player_put_packet
  <2>2. RunsLeaveAHint'
    BY <1>1, <2>1 DEF RunsLeaveAHint, Idle, input
  <2> QED  BY <2>1, <2>2 DEF HintIsNear, StillNear, HintIsGood, input
<1>3. CASE connection_state_to_output
  <2>1. /\ ab_read' = R /\ ab_write' = W /\ ab_synced' = TRUE
        /\ CheckFrom(r, sl, x, W, -1, FALSE)
    BY <1>3, Zenon DEF player_put_packet
  <2>2. /\ R = IF ab_synced THEN ab_read ELSE s
        /\ ~ab_synced => Dist(R, W) = 1
        /\ Dist(R, W) <= MaxAhead + 1 /\ (ab_synced => w <= Dist(R, W))
        /\ \A t \in place.gap : w <= Dist(ab_read, t)
    BY <1>1, PlacedFacts DEF BufferInv
  <2>3. R \in Seqs /\ W \in Seqs  BY <1>1, PlacedType
  <2>4. Dist(R, R) = 0 /\ Dist(R, W) \in 0 .. SeqMod - 1 /\ w \in 0 .. SeqMod - 1
    BY <1>1, <2>3, DistFrom
  <2>5. \A t \in Seqs : Dist(R, t) < Dist(R, W) =>
          \/ t = s /\ sl[BUFIDX(t)].ready
          \/ t \in place.gap
          \/ ab_synced /\ sl[BUFIDX(t)] = slots[BUFIDX(t)]
    <3>1. \A t \in Seqs : Dist(R, t) < Dist(R, W) =>
            \/ t = s /\ sl[BUFIDX(t)] = GoodSlot(t, TsOf(p))
            \/ t \in place.gap
            \/ ab_synced /\ sl[BUFIDX(t)] = slots[BUFIDX(t)]
      BY <1>1, StoredFacts DEF BufferInv
    <3>2. \A t : GoodSlot(t, TsOf(p)).ready  BY DEF GoodSlot
    <3> HIDE DEF sl, place
    <3> QED  BY <3>1, <3>2
  <2>6. x \in Seqs  BY CheckStartsWell
  <2>7. Dist(R, x) <= Dist(R, W) /\ \A t \in Seqs : Dist(R, t) < Dist(R, x) => sl[BUFIDX(t)].ready
    BY CheckStartsWell
  <2> HIDE DEF w, sl, place, R, W
  <2> HIDE DEF x, old
  <2> DEFINE scan == Scan(sl, x, W)
             hint == IF scan.absent THEN scan.first ELSE W
  <2>8. /\ hint \in Seqs /\ Dist(R, hint) <= Dist(R, W)
        /\ \A t \in Seqs : Dist(R, t) < Dist(R, hint) => sl[BUFIDX(t)].ready
    BY <2>3, <2>6, <2>7, CheckFindsTheFirst
  <2>9. first_possibly_missing_frame' = hint
    BY <2>1, Zenon DEF CheckFrom, NoneMissing
  <2>10. scan.send => scan.absent  BY <2>3, <2>6, ScanFacts
  <2>11. /\ rx'[r].at = "sending" => rx'[r].absent
         /\ \A q \in Receivers \ {r} : rx'[q] = rx[q]
    <3>1. rx' = [rx EXCEPT ![r] =
             IF scan.send THEN [at |-> "sending", packet |-> 0, x |-> scan.next,
                                absent |-> ~NoneMissing(FALSE, scan), start |-> scan.start,
                                marked |-> scan.marked]
                          ELSE Idle]
      BY <2>1, Zenon DEF CheckFrom
    <3>2. scan.absent => ~NoneMissing(FALSE, scan)  BY DEF NoneMissing
    <3> HIDE DEF scan
    <3> QED  BY <1>1, <2>10, <3>1, <3>2 DEF Idle
  <2> HIDE DEF hint
  <2>12. hint # -1  BY <2>8 DEF Seqs
  <2>13. RunsLeaveAHint'  BY <2>9, <2>11, <2>12 DEF RunsLeaveAHint
  <2>14. HintIsNear'
    BY <2>1, <2>8, <2>9, <2>12 DEF HintIsNear, StillNear, Dist
  <2>15. HintIsGood'
    <3> SUFFICES ASSUME NEW t \in Seqs, Dist(R, t) < Dist(R, hint)
                 PROVE  slots'[BUFIDX(t)].ready
      BY <2>1, <2>9 DEF HintIsGood, Dist, BUFIDX
    <3>1. SlotsOK(sl)
      <4>1. now \in 0 .. MaxTime  BY <1>1, PlayerBufferAssumption DEF TypeOK
      <4> QED  BY <1>1, <4>1, StoredOK DEF TypeInv, sl
    <3>2. BUFIDX(t) \in 0 .. BufferFrames - 1  BY IndexType, Sizes
    <3>3. slots'[BUFIDX(t)].ready = sl[BUFIDX(t)].ready
      BY <2>1, <3>1, <3>2, CheckChangesAsked
    <3> QED  BY <2>8, <3>3
  <2> QED  BY <2>13, <2>14, <2>15
<1> QED  BY <1>2, <1>3

\* The hint stays good while the player reads on and nothing ahead of it is lost.
LEMMA ReadingOnKeepsHint ==
  ASSUME NeverLapped, HintInv, ab_synced, NEW k \in 0 .. Dist(ab_read, ab_write),
         ab_read' = Plus(ab_read, k),
         UNCHANGED <<ab_write, ab_synced, rx, first_possibly_missing_frame>>,
         \A s \in Seqs : InBuffer(s) /\ Dist(ab_read, s) >= k =>
           slots'[BUFIDX(s)].ready = slots[BUFIDX(s)].ready
  PROVE  RunsLeaveAHint' /\ HintIsNear' /\ HintIsGood'
<1> DEFINE hint == first_possibly_missing_frame
<1>1. /\ TypeInv /\ BufferIsBounded /\ hint # -1 /\ StillNear(hint) /\ hint \in Seqs
      /\ ab_read \in Seqs /\ ab_write \in Seqs
  BY DEF HintInv, HintIsNear, BufferInv, TypeInv, TypeOK
<1>2. /\ ab_read' \in Seqs
      /\ \A t \in Seqs : /\ StillNear(t) => StillNear(t)'
                         /\ Dist(ab_read', t) <= Dist(ab_read', ab_write') =>
                              /\ Dist(ab_read, t) >= k
                              /\ Dist(ab_read, t) <= Dist(ab_read, ab_write)
                         /\ InBuffer(t)' => InBuffer(t)
                         /\ InBuffer(t)' => Dist(ab_read, t) >= k
                         /\ Dist(ab_read, t) >= k => Dist(ab_read', t) = Dist(ab_read, t) - k
  BY <1>1, ReadingOn
<1>3. RunsLeaveAHint'  BY DEF HintInv, RunsLeaveAHint
<1>4. HintIsNear'
  <2>1. StillNear(hint)'  BY <1>1, <1>2
  <2> QED  BY <1>1, <2>1 DEF HintIsNear, StillNear, Dist
<1>5. HintIsGood'
  <2> SUFFICES ASSUME Dist(ab_read', hint) <= Dist(ab_read', ab_write'),
                      NEW s \in Seqs, Dist(ab_read', s) < Dist(ab_read', hint)
               PROVE  slots'[BUFIDX(s)].ready
    BY DEF HintIsGood, BUFIDX, Dist
  <2>1. /\ Dist(ab_read', s) \in Int /\ Dist(ab_read', hint) \in Int
        /\ Dist(ab_read', ab_write) \in Int /\ Dist(ab_read, s) \in Int
        /\ Dist(ab_read, hint) \in Int /\ k \in Int
    BY <1>1, <1>2, DistFrom
  <2>2. InBuffer(s)'
    BY <2>1 DEF InBuffer, Dist
  <2>3. /\ InBuffer(s) /\ Dist(ab_read, s) >= k
        /\ Dist(ab_read', s) = Dist(ab_read, s) - k
        /\ Dist(ab_read, hint) >= k /\ Dist(ab_read, hint) <= Dist(ab_read, ab_write)
        /\ Dist(ab_read', hint) = Dist(ab_read, hint) - k
    BY <1>1, <1>2, <2>2
  <2>4. Dist(ab_read, s) < Dist(ab_read, hint)  BY <2>1, <2>3
  <2> QED  BY <2>3, <2>4 DEF HintInv, HintIsGood
<1> QED  BY <1>3, <1>4, <1>5

LEMMA HintInit == Init => HintInv
BY BufferInit DEF Init, HintInv, RunsLeaveAHint, HintIsNear, HintIsGood, Idle

LEMMA HintStep == NeverLapped /\ ~BadPackets /\ HintInv /\ [Next]_vars => HintInv'
<1> SUFFICES ASSUME NeverLapped, ~BadPackets, HintInv, [Next]_vars  PROVE HintInv'
  OBVIOUS
<1> DEFINE Rest == RunsLeaveAHint /\ HintIsNear /\ HintIsGood
<1>0. BufferInv /\ BufferInv' /\ TypeInv /\ TypeInv'
  BY BufferStep DEF HintInv, BufferInv
<1> SUFFICES Rest'  BY <1>0 DEF HintInv
<1>a. Rest  BY DEF HintInv
<1>b. /\ rx \in [Receivers -> ReceiverState] /\ ab_read \in Seqs /\ ab_write \in Seqs
      /\ MaxAhead \in Nat /\ MaxLate \in Nat
  BY <1>0, PlayerBufferAssumption DEF TypeInv, TypeOK, ReceiverState
<1>v. \A ok \in Verdicts : ok = TRUE  BY DEF Verdicts
<1>c. ASSUME UNCHANGED <<slots, ab_read, ab_write, ab_synced,
                         first_possibly_missing_frame, rx>>
      PROVE  Rest'
  BY <1>a, <1>c DEF RunsLeaveAHint, HintIsNear, StillNear, HintIsGood
<1>d. ASSUME ab_synced' = FALSE, UNCHANGED <<first_possibly_missing_frame, rx>>
      PROVE  Rest'
  BY <1>a, <1>d DEF RunsLeaveAHint, HintIsNear, HintIsGood
<1>1. ASSUME NEW r \in Receivers, NEW p \in Packets, ClearEarlyFlush(r, p)
      PROVE  Rest'
  <2>1. /\ UNCHANGED <<slots, ab_read, ab_write, ab_synced, first_possibly_missing_frame>>
        /\ rx' = [rx EXCEPT ![r] = [Idle EXCEPT !.at = "put", !.packet = p]]
    BY <1>1 DEF ClearEarlyFlush, input
  <2>2. rx'[r].at = "put" /\ \A q \in Receivers \ {r} : rx'[q] = rx[q]
    BY <1>b, <2>1 DEF Idle
  <2>3. RunsLeaveAHint'  BY <1>a, <2>1, <2>2 DEF RunsLeaveAHint
  <2> QED  BY <1>a, <2>1, <2>3 DEF HintIsNear, StillNear, HintIsGood
<1>2. ASSUME NEW r \in Receivers, NEW ok \in Verdicts, PutFirst(r, ok)
      PROVE  Rest'
  <2> DEFINE p == rx[r].packet
  <2>1. p \in Packets /\ player_put_packet(r, p, TRUE) /\ rx[r].at = "put"
    BY <1>2, <1>b, <1>v DEF PutFirst, ReceiverState
  <2>2. SeqOf(p) \in Seqs  BY <2>1, SeqOfType DEF Packets
  <2>3. ab_synced => CanBePlaced(SeqOf(p))
    <3>1. Dist(SeqOf(p), ab_read) \in Int /\ Dist(ab_read, ab_write) \in Int
      BY <1>b, <2>2, DistIs, Sizes DEF Seqs
    <3> QED
      BY <1>0, <1>b, <2>1, <3>1 DEF BufferInv, PutsAreNear, CanStillCome, CanBePlaced
  <2> HIDE DEF p
  <2> QED  BY <2>1, <2>3, PutLeavesAHint
<1>3. ASSUME NEW r \in Receivers, NEW p \in Packets, NEW ok \in Verdicts, Put(r, p, ok)
      PROVE  Rest'
  <2>1. /\ ab_synced => \/ Dist(ab_read, SeqOf(p)) <= MaxAhead
                        \/ Dist(SeqOf(p), ab_read) <= MaxLate
        /\ player_put_packet(r, p, ok)
    BY <1>3, Zenon DEF Put, Arriving
  <2>2. SeqOf(p) \in Seqs  BY SeqOfType DEF Packets
  <2>3. ab_synced => CanBePlaced(SeqOf(p))
    <3>1. Dist(SeqOf(p), ab_read) \in Int /\ Dist(ab_read, ab_write) \in Int
      BY <1>b, <2>2, DistIs, Sizes DEF Seqs
    <3> QED  BY <1>0, <1>b, <2>1, <3>1 DEF BufferInv, BufferIsBounded, CanBePlaced
  <2>4. player_put_packet(r, p, TRUE)  BY <1>v, <2>1
  <2> QED  BY <2>3, <2>4, PutLeavesAHint
<1>4. ASSUME NEW r \in Receivers, ResumeCheck(r)
      PROVE  Rest'
  <2>1. /\ CheckFrom(r, slots, rx[r].x, ab_write, first_possibly_missing_frame, rx[r].absent)
        /\ UNCHANGED <<ab_read, ab_write, ab_synced>>
        /\ rx[r].absent /\ first_possibly_missing_frame # -1
    BY <1>4, <1>a DEF ResumeCheck, RunsLeaveAHint
  <2> DEFINE scan == Scan(slots, rx[r].x, ab_write)
  <2>2. ~NoneMissing(rx[r].absent, scan)  BY <2>1 DEF NoneMissing
  <2>3. UNCHANGED first_possibly_missing_frame
    <3> HIDE DEF scan
    <3>1. first_possibly_missing_frame' =
            IF NoneMissing(rx[r].absent, scan) THEN ab_write ELSE first_possibly_missing_frame
      BY <2>1, Zenon DEF CheckFrom, scan
    <3> QED  BY <2>2, <3>1
  <2>4. /\ rx'[r].at = "sending" => rx'[r].absent
        /\ \A q \in Receivers \ {r} : rx'[q] = rx[q]
    <3>1. rx' = [rx EXCEPT ![r] =
             IF scan.send THEN [at |-> "sending", packet |-> 0, x |-> scan.next,
                                absent |-> ~NoneMissing(rx[r].absent, scan),
                                start |-> scan.start, marked |-> scan.marked]
                          ELSE Idle]
      BY <2>1, Zenon DEF CheckFrom
    <3> HIDE DEF scan
    <3> QED  BY <1>b, <2>2, <3>1 DEF Idle
  <2>5. \A i \in 0 .. BufferFrames - 1 : slots'[i].ready = slots[i].ready
    BY <1>0, <2>1, CheckChangesAsked DEF TypeInv
  <2>6. \A t \in Seqs : BUFIDX(t) \in 0 .. BufferFrames - 1  BY IndexType, Sizes
  <2>7. RunsLeaveAHint'  BY <1>a, <2>1, <2>3, <2>4 DEF RunsLeaveAHint
  <2>8. HintIsNear'  BY <1>a, <2>1, <2>3 DEF HintIsNear, StillNear
  <2>9. HintIsGood'  BY <1>a, <2>1, <2>3, <2>5, <2>6 DEF HintIsGood
  <2> QED  BY <2>7, <2>8, <2>9
<1>5. ASSUME NEW f \in FlushPoints, do_flush(f)
      PROVE  Rest'
  BY <1>5, <1>c DEF do_flush, input
<1>6. CASE player_thread_start
  BY <1>6, <1>d DEF player_thread_start
<1>7. CASE LoopTop
  BY <1>7, <1>c DEF LoopTop, input
<1>8. CASE NoFlush
  BY <1>8, <1>c DEF NoFlush, input
<1>9. CASE HandleFlush
  <2>1. UNCHANGED <<ab_write, rx, first_possibly_missing_frame>>
    BY <1>9 DEF HandleFlush
  <2>2. CASE ab_synced' = FALSE
    BY <1>d, <2>1, <2>2
  <2>3. CASE UNCHANGED <<slots, ab_read, ab_synced>>
    BY <1>c, <2>1, <2>3
  <2>4. CASE /\ ab_synced /\ UNCHANGED ab_synced
             /\ \E k \in 0 .. Dist(ab_read, ab_write) - 1 : ab_read' = Plus(ab_read, k)
             /\ \A j \in 0 .. BufferFrames - 1 :
                  slots'[j].seq = slots[j].seq /\ slots'[j].ready = slots[j].ready
    <3>1. PICK k \in 0 .. Dist(ab_read, ab_write) - 1 : ab_read' = Plus(ab_read, k)
      BY <2>4
    <3>2. k \in 0 .. Dist(ab_read, ab_write)  BY <1>b, DistFrom
    <3>3. \A t \in Seqs : slots'[BUFIDX(t)].ready = slots[BUFIDX(t)].ready
      <4>1. \A t \in Seqs : BUFIDX(t) \in 0 .. BufferFrames - 1  BY IndexType, Sizes
      <4> QED  BY <2>4, <4>1
    <3> QED  BY <2>1, <2>4, <3>1, <3>2, <3>3, ReadingOnKeepsHint
  <2> QED  BY <1>0, <1>9, <2>2, <2>3, <2>4, FlushReads
<1>10. CASE GetFrame
  <2>1. UNCHANGED <<ab_write, ab_synced, rx, first_possibly_missing_frame>>
    BY <1>10 DEF GetFrame
  <2>2. Dist(ab_read, ab_write) \in 0 .. SeqMod - 1 /\ SeqMod \in Nat
    BY <1>b, DistFrom, Sizes
  <2>3. CASE UNCHANGED <<slots, playing, ab_read>> /\ pc' = "top"
    BY <1>c, <2>1, <2>3
  <2>4. CASE /\ UNCHANGED <<slots, playing>> /\ pc' = "top" /\ ab_synced
             /\ \E k \in 0 .. Dist(ab_read, ab_write) : ab_read' = Plus(ab_read, k)
    BY <2>1, <2>4, ReadingOnKeepsHint
  <2>5. CASE /\ ab_synced
             /\ \E k \in 0 .. Dist(ab_read, ab_write) - 1 :
                  /\ ab_read' = Plus(ab_read, k + 1) /\ Plus(ab_read', -1) = Plus(ab_read, k)
                  /\ playing' = BUFIDX(Plus(ab_read, k))
             /\ \A j \in 0 .. BufferFrames - 1 :
                  /\ slots'[j].seq = slots[j].seq /\ (slots'[j].ready => slots[j].ready)
                  /\ j # playing' => slots'[j] = slots[j]
    <3>1. PICK k \in 0 .. Dist(ab_read, ab_write) - 1 :
            /\ ab_read' = Plus(ab_read, k + 1)
            /\ playing' = BUFIDX(Plus(ab_read, k))
      BY <2>5
    <3>2. /\ k + 1 \in 0 .. Dist(ab_read, ab_write) /\ k \in 0 .. SeqMod - 1
          /\ k < Dist(ab_read, ab_write)
      BY <2>2
    <3> DEFINE e == Plus(ab_read, k)
               n == Dist(ab_read, ab_write)
    <3>3. e \in Seqs /\ Dist(ab_read, e) = k
      <4>1. Dist(ab_read, ab_read) = 0  BY <1>b, DistFrom
      <4>2. e \in Seqs /\ Dist(ab_read, e) = IF 0 + k < SeqMod THEN 0 + k ELSE 0 + k - SeqMod
        BY <1>b, <3>2, <4>1, DistPlus
      <4> QED  BY <2>2, <3>2, <4>2
    <3>4. n \in Nat /\ n <= BufferFrames
      <4>1. n <= MaxAhead + 1  BY <1>0, <2>5 DEF BufferInv, BufferIsBounded
      <4>2. MaxAhead < BufferFrames /\ BufferFrames \in Nat
        BY PlayerBufferAssumption DEF NeverLapped
      <4> HIDE DEF n
      <4>3. n \in Nat  BY <2>2 DEF n
      <4> QED  BY <1>b, <4>1, <4>2, <4>3
    <3>5. ASSUME NEW t \in Seqs, InBuffer(t), Dist(ab_read, t) >= k + 1
          PROVE  slots'[BUFIDX(t)].ready = slots[BUFIDX(t)].ready
      <4>1. BUFIDX(t) # BUFIDX(e)
        <5>1. Dist(ab_read, t) < n /\ Dist(ab_read, e) < n
          BY <3>2, <3>3, <3>5 DEF InBuffer
        <5>2. t # e
          <6> HIDE DEF e
          <6> QED  BY <3>2, <3>3, <3>5
        <5> HIDE DEF e, n
        <5> QED  BY <1>b, <3>3, <3>4, <5>1, <5>2, NoSharing
      <4>2. BUFIDX(t) \in 0 .. BufferFrames - 1  BY IndexType, Sizes
      <4> QED  BY <2>5, <3>1, <4>1, <4>2
    <3> HIDE DEF n
    <3> QED  BY <2>1, <2>5, <3>1, <3>2, <3>5, ReadingOnKeepsHint DEF n
  <2> QED  BY <1>0, <1>10, <2>3, <2>4, <2>5, GetFrameReads
<1>11. CASE PlayFrame
  BY <1>11, <1>c DEF PlayFrame, input
<1>12. CASE TimingArrives
  BY <1>12, <1>c DEF TimingArrives, input
<1>13. CASE set_requested_connection_state_to_output
  BY <1>13, <1>c DEF set_requested_connection_state_to_output, input
<1>14. CASE Tick
  BY <1>14, <1>c DEF Tick, input
<1>15. CASE UNCHANGED vars
  BY <1>15, <1>c DEF vars, input
<1> HIDE DEF Rest
<1> QED
  BY <1>1, <1>2, <1>3, <1>4, <1>5, <1>6, <1>7, <1>8, <1>9, <1>10, <1>11, <1>12,
     <1>13, <1>14, <1>15
  DEF Next, Receiver, buffer_get_frame

\* first_possibly_missing_frame lets the check of player_put_packet skip the head of the
\* buffer.  If no packet is rejected by the decoder, it never skips a missing frame, whatever
\* the two receivers, a flush and the player did between the stretches of a check.
THEOREM HintIsSafe == NeverLapped /\ ~BadPackets => (Spec => []HintSkipsNothingMissing)
<1> SUFFICES ASSUME NeverLapped, ~BadPackets  PROVE Spec => []HintSkipsNothingMissing
  OBVIOUS
<1>1. HintInv /\ [Next]_vars => HintInv'  BY HintStep
<1>2. HintInv => HintSkipsNothingMissing
  <2> SUFFICES ASSUME HintInv, first_possibly_missing_frame \in Window \cup {ab_write},
                      NEW s \in Window,
                      Dist(ab_read, s) < Dist(ab_read, first_possibly_missing_frame)
               PROVE  slots[BUFIDX(s)].ready
    BY DEF HintSkipsNothingMissing
  <2>1. ab_read \in Seqs /\ ab_write \in Seqs
    BY DEF HintInv, BufferInv, TypeInv, TypeOK
  <2>2. s \in Seqs /\ InBuffer(s)  BY <2>1, WindowIs
  <2>3. Dist(ab_read, first_possibly_missing_frame) <= Dist(ab_read, ab_write)
    <3>1. CASE first_possibly_missing_frame = ab_write
      BY <2>1, <3>1, DistFrom
    <3>2. CASE first_possibly_missing_frame \in Window
      <4>1. InBuffer(first_possibly_missing_frame) /\ first_possibly_missing_frame \in Seqs
        BY <2>1, <3>2, WindowIs
      <4>2. /\ Dist(ab_read, first_possibly_missing_frame) \in Int
            /\ Dist(ab_read, ab_write) \in Int
        BY <2>1, <4>1, DistFrom
      <4> QED  BY <4>1, <4>2 DEF InBuffer
    <3> QED  BY <3>1, <3>2
  <2> QED  BY <2>2, <2>3 DEF HintInv, HintIsGood, InBuffer
<1> QED  BY HintInit, <1>1, <1>2, PTL DEF Spec

-----------------------------------------------------------------------------
(* The order of the stream: frames are counted from the first one sent.       *)

PacketOf(s) == Dist(FirstSeq, s)                 \* the packet with sequence number s
Begin(n)    == n * PacketLength                  \* its first frame
StampAt(g)  == (StartTime + Latency + g) % TsMod \* the timestamp of frame g
Frames      == 0 .. Begin(NumPackets + 1) - 1

\* No sequence number is used twice, so that no late packet can be taken for one of
\* the next round, and the stream spans less than half the range of timestamps.
OneRound == NumPackets + MaxAhead < SeqMod /\ 2 * Begin(NumPackets + 1) < TsMod

LEMMA BeginsInTurn ==
  ASSUME NEW m \in Int, NEW n \in Int, m <= n
  PROVE  /\ Begin(m) \in Int /\ Begin(n) \in Int /\ Begin(m) <= Begin(n)
         /\ Begin(m + 1) = Begin(m) + PacketLength /\ Begin(0) = 0
         /\ (m < n => Begin(m) + PacketLength <= Begin(n))
<1>1. PacketLength \in Nat \ {0}  BY PlayerBufferAssumption
<1>2. m * PacketLength \in Int /\ n * PacketLength \in Int /\ (n - m) * PacketLength \in Int
  BY <1>1, SMT
<1>3. n * PacketLength = m * PacketLength + (n - m) * PacketLength
  BY <1>1, SMT
<1>4. (n - m) * PacketLength >= 0 /\ (m < n => (n - m) * PacketLength >= PacketLength)
  BY <1>1, SMT
<1>5. (m + 1) * PacketLength = m * PacketLength + PacketLength /\ 0 * PacketLength = 0
  BY <1>1, SMT
<1> DEFINE a == m * PacketLength
           b == n * PacketLength
           c == (n - m) * PacketLength
<1>6. a \in Int /\ b \in Int /\ c \in Int /\ b = a + c /\ c >= 0 /\ (m < n => c >= PacketLength)
  BY <1>2, <1>3, <1>4
<1>7. Begin(m) = a /\ Begin(n) = b /\ Begin(m + 1) = a + PacketLength /\ Begin(0) = 0
  BY <1>5 DEF Begin
<1> HIDE DEF a, b, c
<1> QED  BY <1>1, <1>6, <1>7

LEMMA StampIsStamp ==
  ASSUME NEW g \in Int
  PROVE  StampAt(g) \in Stamps
<1>1. StartTime + Latency + g \in Int  BY PlayerBufferAssumption
<1> QED  BY <1>1, StampType DEF StampAt

\* Frames counted on from a timestamp.
LEMMA StampPlus ==
  ASSUME NEW g \in Int, NEW k \in Int
  PROVE  (StampAt(g) + k) % TsMod = StampAt(g + k)
<1> DEFINE x == StartTime + Latency + g
<1>1. x \in Int  BY PlayerBufferAssumption
<1>2. StartTime + Latency + (g + k) = x + k  BY PlayerBufferAssumption
<1> HIDE DEF x
<1>0. TsMod \in Nat \ {0}  BY Sizes
<1>3. PICK q \in Int, r \in 0 .. TsMod - 1 : x % TsMod = r /\ x = TsMod * q + r
  BY <1>0, <1>1, Division, Zenon
<1> DEFINE t == TsMod * q
<1>4. t \in Int /\ x = t + r /\ r \in Int  BY <1>3, Sizes
<1>5. r + k \in Int /\ x + k = t + (r + k)
  <2> HIDE DEF t
  <2> QED  BY <1>4
<1>6. (TsMod * q + (r + k)) % TsMod = (r + k) % TsMod
  <2> DEFINE e == r + k
  <2>1. e \in Int  BY <1>5
  <2> HIDE DEF e
  <2>2. (TsMod * q + e) % TsMod = e % TsMod  BY <2>1, Turns, Sizes
  <2> QED  BY <2>2 DEF e
<1> QED  BY <1>2, <1>3, <1>5, <1>6 DEF StampAt, x

\* Within half the range of timestamps, their signed difference is that of the frames.
LEMMA StampsApart ==
  ASSUME NEW a \in Int, NEW b \in Int, 2 * (a - b) < TsMod, 2 * (b - a) < TsMod
  PROVE  SignedDiff(StampAt(a), StampAt(b)) = a - b
<1> DEFINE x == StartTime + Latency + a
           y == StartTime + Latency + b
           e == a - b
<1>0. TsMod \in Nat \ {0} /\ TsMod \in Int  BY Sizes
<1>1. x \in Int /\ y \in Int /\ x - y = e /\ e \in Int  BY PlayerBufferAssumption
<1> HIDE DEF x, y
<1>2. PICK p \in Int, r \in 0 .. TsMod - 1 : x % TsMod = r /\ x = TsMod * p + r
  BY <1>0, <1>1, Division, Zenon
<1>3. PICK q \in Int, t \in 0 .. TsMod - 1 : y % TsMod = t /\ y = TsMod * q + t
  BY <1>0, <1>1, Division, Zenon
<1>4. r - t = TsMod * (q - p) + e
  <2>1. TsMod * (q - p) = TsMod * q - TsMod * p  BY <1>0, SMT
  <2> DEFINE c == TsMod * p
             d == TsMod * q
  <2>2. c \in Int /\ d \in Int  BY <1>0, SMT
  <2>3. x = c + r /\ y = d + t /\ TsMod * (q - p) = d - c  BY <1>2, <1>3, <2>1
  <2> HIDE DEF c, d, e
  <2> QED  BY <1>0, <1>1, <2>2, <2>3
<1> HIDE DEF e
<1>5. (TsMod * (q - p) + e) % TsMod = e % TsMod
  <2> DEFINE k == q - p
  <2>1. k \in Int  OBVIOUS
  <2> HIDE DEF k
  <2>2. (TsMod * k + e) % TsMod = e % TsMod  BY <1>1, <2>1, Turns, Sizes
  <2> QED  BY <2>2 DEF k
<1>6. (StampAt(a) - StampAt(b)) % TsMod = e % TsMod
  BY <1>2, <1>3, <1>4, <1>5 DEF StampAt, x, y
<1>7. 2 * e < TsMod /\ -(2 * e) < TsMod  BY <1>0 DEF e
<1>8. e % TsMod = IF e >= 0 THEN e ELSE e + TsMod
  <2>1. e \in 0 .. TsMod - 1 \/ e \in -TsMod .. -1  BY <1>0, <1>1, <1>7
  <2>2. /\ e \in 0 .. TsMod - 1 => e % TsMod = e
        /\ e \in -TsMod .. -1 => e % TsMod = e + TsMod
    BY <1>0, <1>1, OneTurn
  <2> QED  BY <1>0, <1>1, <2>1, <2>2
<1>9. SignedDiff(StampAt(a), StampAt(b)) = e
  BY <1>0, <1>1, <1>6, <1>7, <1>8 DEF SignedDiff
<1> QED  BY <1>9 DEF e

LEMMA FramesApart ==
  ASSUME OneRound, NEW a \in Frames, NEW b \in Frames
  PROVE  SignedDiff(StampAt(a), StampAt(b)) = a - b /\ a \in Int /\ b \in Int
<1>1. NumPackets + 1 \in Int  BY PlayerBufferAssumption
<1>2. Begin(NumPackets + 1) \in Int  BY <1>1, BeginsInTurn
<1>3. a \in Int /\ b \in Int /\ 2 * (a - b) < TsMod /\ 2 * (b - a) < TsMod
  BY <1>2, Sizes DEF Frames, OneRound
<1> QED  BY <1>3, StampsApart

\* The packets of a stream that uses no sequence number twice.
LEMMA PacketsInTurn ==
  ASSUME OneRound, NEW s \in Seqs
  PROVE  /\ PacketOf(s) \in 0 .. SeqMod - 1
         /\ \A t \in Seqs : PacketOf(s) + Dist(s, t) < SeqMod
                              => PacketOf(t) = PacketOf(s) + Dist(s, t)
         /\ \A k \in 0 .. SeqMod - 1 : PacketOf(s) + k < SeqMod
                              => PacketOf(Plus(s, k)) = PacketOf(s) + k
<1>1. FirstSeq \in Seqs /\ SeqMod \in Nat  BY Sizes
<1>2. PacketOf(s) \in 0 .. SeqMod - 1  BY <1>1, DistFrom DEF PacketOf
<1>3. ASSUME NEW t \in Seqs, PacketOf(s) + Dist(s, t) < SeqMod
      PROVE  PacketOf(t) = PacketOf(s) + Dist(s, t)
  <2> DEFINE a == PacketOf(s)
             b == PacketOf(t)
             d == Dist(s, t)
  <2>1. /\ d = IF a <= b THEN b - a ELSE b - a + SeqMod
        /\ a \in 0 .. SeqMod - 1 /\ b \in 0 .. SeqMod - 1
    BY <1>1, DistFrom DEF PacketOf
  <2>2. a + d < SeqMod  BY <1>3
  <2> HIDE DEF a, b, d
  <2>3. b = a + d  BY <1>1, <2>1, <2>2
  <2> QED  BY <2>3 DEF a, b, d
<1>4. ASSUME NEW k \in 0 .. SeqMod - 1, PacketOf(s) + k < SeqMod
      PROVE  PacketOf(Plus(s, k)) = PacketOf(s) + k
  BY <1>1, <1>4, DistPlus DEF PacketOf
<1> QED  BY <1>2, <1>3, <1>4

LEMMA PacketOfSeqOf ==
  ASSUME OneRound, NEW p \in Packets
  PROVE  PacketOf(SeqOf(p)) = p /\ TsOf(p) = StampAt(Begin(p)) /\ SeqOf(p) \in Seqs
<1>1. p \in Int /\ p - 0 \in 0 .. SeqMod - 1 /\ SeqMod \in Nat
  BY PlayerBufferAssumption DEF Packets, OneRound
<1>2. Dist(SeqOf(0), SeqOf(p)) = p - 0  BY <1>1, DistOfPackets
<1>3. SeqOf(0) = FirstSeq
  <2>1. FirstSeq \in Int /\ FirstSeq \in 0 .. SeqMod - 1 /\ FirstSeq + 0 = FirstSeq
    BY PlayerBufferAssumption
  <2> QED  BY <2>1, OneTurn, Sizes DEF SeqOf
<1>4. SeqOf(p) \in Seqs  BY <1>1, SeqOfType
<1> QED  BY <1>1, <1>2, <1>3, <1>4 DEF PacketOf, TsOf, StampAt, Begin

-----------------------------------------------------------------------------
\* The packet at the read position, or the one being played.
Current == PacketOf(ab_read) - IF pc = "out" THEN 1 ELSE 0

\* The buffer holds packets of the stream only.
WithinStream == ab_synced => PacketOf(ab_read) + Dist(ab_read, ab_write) <= NumPackets

\* A packet holds its own frames, less those a flush has cut off its beginning.
HoldsOwnFrames(slot) ==
  slot.ready => /\ PacketOf(slot.seq) < NumPackets
                /\ \E o \in 0 .. PacketLength - 1 :
                     /\ slot.ts = StampAt(Begin(PacketOf(slot.seq)) + o)
                     /\ slot.len = PacketLength - o

\* What was played lies before the packet whose turn it is.
GivenBefore ==
  /\ pc = "init" \/ ~ab_synced => last_given = -1
  /\ pc = "out" => PacketOf(ab_read) >= 1
  /\ last_given # -1 => \E g \in 0 .. Begin(Current) - 1 : last_given = StampAt(g)

\* What is being played is part of that packet, or silence.
PlaysCurrent ==
  pc = "out" /\ slots[playing].ts # 0 =>
    \E g \in Begin(Current) .. Begin(Current + 1) - 1 : slots[playing].ts = StampAt(g)

OrderInv ==
  /\ BufferInv /\ WithinStream /\ flush_rtp_timestamp \in FlushPoints
  /\ \A i \in 0 .. BufferFrames - 1 : HoldsOwnFrames(slots[i])
  /\ GivenBefore /\ PlaysCurrent

LEMMA OrderInit == Init => OrderInv
<1> SUFFICES ASSUME Init  PROVE OrderInv
  OBVIOUS
<1>1. BufferInv  BY BufferInit
<1>2. \A i \in 0 .. BufferFrames - 1 : HoldsOwnFrames(slots[i])
  BY DEF Init, HoldsOwnFrames, BlankSlot
<1>3. flush_rtp_timestamp \in FlushPoints  BY DEF Init, FlushPoints
<1> QED  BY <1>1, <1>2, <1>3 DEF Init, OrderInv, WithinStream, GivenBefore, PlaysCurrent

\* A packet put into the buffer keeps the stream in order.
LEMMA PutKeepsOrder ==
  ASSUME NeverLapped, OneRound, OrderInv, NEW r \in Receivers, NEW p \in Packets, NEW ok,
         player_put_packet(r, p, ok), ab_synced => CanBePlaced(SeqOf(p))
  PROVE  /\ WithinStream' /\ \A i \in 0 .. BufferFrames - 1 : HoldsOwnFrames(slots'[i])
         /\ ab_synced => ab_synced' /\ UNCHANGED ab_read
<1> USE DEF OrderInv, BufferInv
<1> DEFINE s     == SeqOf(p)
           place == Placed(s)
           sl    == Stored(place, p, ok)
           x     == CheckStart(place.rd, place.wr)
<1>1. CASE ~connection_state_to_output
  <2>1. UNCHANGED input  BY <1>1, Zenon DEF player_put_packet
  <2> QED  BY <2>1 DEF input, WithinStream, PacketOf, Dist
<1>2. CASE connection_state_to_output
  <2>1. /\ ab_read' = place.rd /\ ab_write' = place.wr /\ ab_synced' = TRUE
        /\ CheckFrom(r, sl, x, place.wr, -1, FALSE)
    BY <1>2, Zenon DEF player_put_packet
  <2>2. s \in Seqs /\ PacketOf(s) = p /\ TsOf(p) = StampAt(Begin(p))  BY PacketOfSeqOf
  <2>3. /\ ab_read \in Seqs /\ ab_write \in Seqs /\ SeqMod \in Nat /\ MaxAhead \in Nat
        /\ p \in Int /\ 0 <= p /\ p < NumPackets /\ NumPackets \in Int
    BY PlayerBufferAssumption DEF TypeInv, TypeOK, Packets
  <2> DEFINE w == Dist(place.rd, place.wr)
             u == Dist(place.rd, s)
  <2>4. /\ place.rd = IF ab_synced THEN ab_read ELSE s
        /\ ~ab_synced => w = 1
        /\ \/ ab_synced /\ w = Dist(ab_read, ab_write)
           \/ w = u + 1 /\ u <= MaxAhead
    BY <2>2, <2>3, PlacedFacts
  <2>5. place.rd \in Seqs  BY <2>2, <2>3, <2>4
  <2> HIDE DEF place, s
  <2>6. PacketOf(place.rd) + w <= NumPackets
    <3>1. CASE ~ab_synced
      BY <2>2, <2>3, <2>4, <3>1
    <3>2. CASE ab_synced /\ w = Dist(ab_read, ab_write)
      BY <2>4, <3>2 DEF WithinStream
    <3>3. CASE ab_synced /\ w = u + 1 /\ u <= MaxAhead
      <4> DEFINE a == PacketOf(place.rd)
                 v == Dist(ab_read, ab_write)
      <4>1. a + v <= NumPackets  BY <2>4, <3>3 DEF WithinStream
      <4>2. a \in 0 .. SeqMod - 1 /\ v \in 0 .. SeqMod - 1 /\ u \in 0 .. SeqMod - 1
        BY <2>2, <2>3, <2>5, PacketsInTurn, DistFrom
      <4>3. a + u < SeqMod => PacketOf(s) = a + u
        BY <2>2, <2>5, PacketsInTurn
      <4>4. NumPackets + MaxAhead < SeqMod  BY DEF OneRound
      <4>5. w = u + 1 /\ u <= MaxAhead  BY <3>3
      <4> HIDE DEF a, u, w, v
      <4>6. PacketOf(s) = a + u  BY <2>3, <4>1, <4>2, <4>3, <4>4, <4>5
      <4>7. a + w <= NumPackets  BY <2>2, <2>3, <4>2, <4>5, <4>6
      <4> QED  BY <4>7 DEF a
    <3> QED  BY <2>4, <3>1, <3>2, <3>3
  <2>7. WithinStream'
    BY <2>1, <2>6 DEF WithinStream, PacketOf, Dist
  <2>8. SlotsOK(sl)
    <3>1. now \in 0 .. MaxTime  BY PlayerBufferAssumption DEF TypeInv, TypeOK
    <3> QED  BY <3>1, StoredOK DEF TypeInv
  <2>9. ASSUME NEW i \in 0 .. BufferFrames - 1  PROVE HoldsOwnFrames(slots'[i])
    <3>1. sl[i] = GoodSlot(s, TsOf(p)) \/ ~sl[i].ready \/ sl[i] = slots[i]
      BY StoredAt DEF s
    <3>2. HoldsOwnFrames(GoodSlot(s, TsOf(p)))
      <4>1. 0 \in 0 .. PacketLength - 1 /\ PacketLength - 0 = PacketLength
            /\ Begin(p) + 0 = Begin(p)
        BY <2>3, BeginsInTurn, PlayerBufferAssumption
      <4> QED  BY <2>2, <2>3, <4>1 DEF GoodSlot, HoldsOwnFrames
    <3>3. HoldsOwnFrames(sl[i])  BY <3>1, <3>2 DEF HoldsOwnFrames
    <3> HIDE DEF sl
    <3>4. /\ slots'[i].ready = sl[i].ready /\ slots'[i].seq = sl[i].seq
          /\ slots'[i].ts = sl[i].ts /\ slots'[i].len = sl[i].len
      BY <2>1, <2>8, CheckChangesAsked
    <3> QED  BY <3>3, <3>4 DEF HoldsOwnFrames
  <2> QED  BY <2>1, <2>4, <2>7, <2>9
<1> QED  BY <1>1, <1>2

LEMMA FlushPointIs ==
  ASSUME NEW f \in FlushPoints, f # 0
  PROVE  \E g \in Frames : f = StampAt(g)
<1>1. PICK p \in 0 .. NumPackets, o \in 0 .. PacketLength - 1 : f = (TsOf(p) + o) % TsMod
  BY DEF FlushPoints
<1>2. p \in Int /\ o \in Int /\ NumPackets \in Int /\ PacketLength \in Int
      /\ 0 <= p /\ p < NumPackets + 1
  BY <1>1, PlayerBufferAssumption
<1>3. /\ Begin(p) \in Int /\ Begin(NumPackets + 1) \in Int
      /\ Begin(p) + PacketLength <= Begin(NumPackets + 1) /\ 0 <= Begin(p)
  <2>1. 0 <= Begin(p)  BY <1>2, BeginsInTurn
  <2>2. /\ Begin(p) \in Int /\ Begin(NumPackets + 1) \in Int
        /\ (p < NumPackets + 1 => Begin(p) + PacketLength <= Begin(NumPackets + 1))
    <3>1. NumPackets + 1 \in Int /\ p <= NumPackets + 1  BY <1>2
    <3> QED  BY <1>2, <3>1, BeginsInTurn
  <2> QED  BY <1>2, <2>1, <2>2
<1>4. f = StampAt(Begin(p) + o)
  <2>1. TsOf(p) = StampAt(Begin(p))  BY DEF TsOf, StampAt, Begin
  <2> QED  BY <1>1, <1>2, <1>3, <2>1, StampPlus
<1>5. Begin(p) + o \in Frames  BY <1>1, <1>2, <1>3 DEF Frames
<1> QED  BY <1>4, <1>5

\* Where in the stream a packet in a slot begins and ends.
LEMMA FramesOfSlot ==
  ASSUME OneRound, NEW slot \in SlotType, slot.ready, HoldsOwnFrames(slot)
  PROVE  LET n == PacketOf(slot.seq)
         IN  /\ n \in 0 .. NumPackets - 1
             /\ \E o \in 0 .. PacketLength - 1 :
                  /\ slot.ts = StampAt(Begin(n) + o) /\ slot.len = PacketLength - o
                  /\ Begin(n) + o \in Frames
             /\ LastFrame(slot) = StampAt(Begin(n) + PacketLength - 1)
             /\ Begin(n) + PacketLength - 1 \in Frames
<1> DEFINE n == PacketOf(slot.seq)
<1>1. slot.seq \in Seqs  BY DEF SlotType
<1>2. n \in 0 .. SeqMod - 1 /\ SeqMod \in Nat  BY <1>1, PacketsInTurn, Sizes
<1>3. PICK o \in 0 .. PacketLength - 1 :
        slot.ts = StampAt(Begin(n) + o) /\ slot.len = PacketLength - o
  BY DEF HoldsOwnFrames
<1>4. n < NumPackets  BY DEF HoldsOwnFrames
<1> HIDE DEF n
<1>5. n \in Int /\ 0 <= n /\ n < NumPackets + 1 /\ NumPackets + 1 \in Int
      /\ PacketLength \in Nat \ {0} /\ o \in Int /\ n \in 0 .. NumPackets - 1
  BY <1>2, <1>3, <1>4, PlayerBufferAssumption
<1>6. /\ Begin(n) \in Int /\ Begin(NumPackets + 1) \in Int
      /\ Begin(n) + PacketLength <= Begin(NumPackets + 1) /\ 0 <= Begin(n)
  BY <1>5, BeginsInTurn
<1>7. Begin(n) + o \in Frames /\ Begin(n) + PacketLength - 1 \in Frames
  BY <1>3, <1>5, <1>6 DEF Frames
<1>8. LastFrame(slot) = StampAt(Begin(n) + PacketLength - 1)
  <2> DEFINE g == Begin(n) + o
             k == PacketLength - o - 1
  <2>1. g \in Int /\ k \in Int /\ g + k = Begin(n) + PacketLength - 1  BY <1>5, <1>6
  <2>2. StampAt(g) \in Int
    <3>1. StampAt(g) \in Stamps  BY <2>1, StampIsStamp
    <3> QED  BY <3>1, Sizes DEF Stamps
  <2>3. slot.ts + slot.len - 1 = StampAt(g) + k  BY <1>3, <1>5, <2>1, <2>2
  <2> HIDE DEF g, k
  <2>4. (StampAt(g) + k) % TsMod = StampAt(g + k)  BY <2>1, StampPlus
  <2> QED  BY <2>1, <2>3, <2>4 DEF LastFrame
<1> QED  BY <1>3, <1>5, <1>7, <1>8 DEF n

\* A packet cut off at a flush point inside it holds the rest of its own frames.
LEMMA TrimKeepsFrames ==
  ASSUME OneRound, NEW slot \in SlotType, HoldsOwnFrames(slot),
         NEW f \in FlushPoints, f # 0, f \in Stamps,
         SignedDiff(f, LastFrame(slot)) <= 0, slot.ready => slot.len \in 1 .. PacketLength
  PROVE  HoldsOwnFrames(Trimmed(slot, f))
<1>1. Trimmed(slot, f).ready = slot.ready /\ Trimmed(slot, f).seq = slot.seq
  BY TrimmedOK
<1>2. CASE ~slot.ready
  BY <1>1, <1>2 DEF HoldsOwnFrames
<1>3. CASE slot.ready
  <2> DEFINE n == PacketOf(slot.seq)
  <2>1. /\ n \in 0 .. NumPackets - 1
        /\ LastFrame(slot) = StampAt(Begin(n) + PacketLength - 1)
        /\ Begin(n) + PacketLength - 1 \in Frames
    BY <1>3, FramesOfSlot
  <2>2. PICK o \in 0 .. PacketLength - 1 :
          /\ slot.ts = StampAt(Begin(n) + o) /\ slot.len = PacketLength - o
          /\ Begin(n) + o \in Frames
    BY <1>3, FramesOfSlot
  <2> HIDE DEF n
  <2>3. PICK g \in Frames : f = StampAt(g)  BY FlushPointIs
  <2>4. /\ g \in Int /\ SignedDiff(f, slot.ts) = g - (Begin(n) + o)
        /\ SignedDiff(f, LastFrame(slot)) = g - (Begin(n) + PacketLength - 1)
    BY <2>1, <2>2, <2>3, FramesApart
  <2>5. Begin(n) \in Int /\ PacketLength \in Nat \ {0} /\ o \in Int /\ NumPackets \in Int
    BY <2>1, BeginsInTurn, PlayerBufferAssumption
  <2> DEFINE d == SignedDiff(f, slot.ts)
  <2>6. CASE d > 0
    <3> DEFINE new == [slot EXCEPT !.ts = f, !.len = @ - d]
    <3>1. Trimmed(slot, f) = new  BY <2>6 DEF Trimmed
    <3> HIDE DEF d
    <3>2. new.ts = f /\ new.len = slot.len - d  BY DEF SlotType
    <3>3. o + d \in 0 .. PacketLength - 1 /\ Begin(n) + (o + d) = g
          /\ slot.len - d = PacketLength - (o + d)
      BY <2>2, <2>4, <2>5, <2>6 DEF d
    <3>4. new.seq = slot.seq  BY <1>1, <3>1
    <3> HIDE DEF new
    <3>5. PacketOf(Trimmed(slot, f).seq) = n  BY <3>1, <3>4 DEF n
    <3>6. /\ Trimmed(slot, f).ts = StampAt(Begin(n) + (o + d))
          /\ Trimmed(slot, f).len = PacketLength - (o + d)
      BY <2>3, <3>1, <3>2, <3>3
    <3> QED  BY <2>1, <2>5, <3>3, <3>5, <3>6 DEF HoldsOwnFrames
  <2>7. CASE ~(d > 0)
    <3>1. Trimmed(slot, f) = slot  BY <2>7 DEF Trimmed
    <3> QED  BY <3>1
  <2> QED  BY <2>6, <2>7
<1> QED  BY <1>2, <1>3

\* A flush keeps the stream in order, and forgets what was played when it drops all.
LEMMA FlushKeepsOrder ==
  ASSUME NeverLapped, OneRound, OrderInv, HandleFlush
  PROVE  /\ WithinStream' /\ \A i \in 0 .. BufferFrames - 1 : HoldsOwnFrames(slots'[i])
         /\ GivenBefore'
<1> USE DEF OrderInv, BufferInv
<1>0. /\ ab_read \in Seqs /\ ab_write \in Seqs /\ pc = "flush" /\ pc' = "frame"
      /\ ab_write' = ab_write /\ ab_synced \in BOOLEAN /\ flush_rtp_timestamp \in Stamps
      /\ slots \in [0 .. BufferFrames - 1 -> SlotType]
  BY DEF TypeInv, TypeOK, HandleFlush
<1>1. CASE FlushVerdict \in {"all", "all but keep"}
  <2>1. ab_resync  BY <1>1, Zenon DEF HandleFlush
  <2>2. /\ ab_synced' = FALSE /\ last_given' = -1
        /\ \A i \in 0 .. BufferFrames - 1 :
             slots'[i] = [slots[i] EXCEPT !.ready = FALSE, !.seq = 0, !.init = 0, !.asked = 0]
    BY <1>0, <2>1 DEF ab_resync
  <2>3. \A i \in 0 .. BufferFrames - 1 : ~slots'[i].ready
    BY <1>0, <2>2 DEF SlotType
  <2> QED  BY <1>0, <2>2, <2>3 DEF WithinStream, HoldsOwnFrames, GivenBefore
<1>2. CASE FlushVerdict = "part"
  <2> DEFINE f == flush_rtp_timestamp
             k == FlushedPackets(f)
             i == BUFIDX(Plus(ab_read, k))
             w == Dist(ab_read, ab_write)
  <2>1. FlushPart(f)  BY <1>2, Zenon DEF HandleFlush
  <2>2. /\ f \in Stamps /\ ab_synced /\ k \in 0 .. w - 1
        /\ SignedDiff(f, LastFrame(slots[BUFIDX(ab_read + k)])) <= 0
    BY <1>2, FlushedIs DEF TypeInv
  <2>3. f # 0  BY <1>2 DEF FlushVerdict
  <2>4. f \in FlushPoints  OBVIOUS
  <2> HIDE DEF f, k
  <2>5. /\ ab_read' = Plus(ab_read, k) /\ UNCHANGED <<ab_synced, last_given>>
        /\ slots' = [slots EXCEPT ![i] = Trimmed(slots[i], f)]
    BY <2>1 DEF FlushPart, k
  <2>6. w \in 0 .. SeqMod - 1 /\ SeqMod \in Nat  BY <1>0, DistFrom, Sizes
  <2>7. /\ PacketOf(ab_read) + w <= NumPackets /\ PacketOf(ab_read) \in 0 .. SeqMod - 1
        /\ NumPackets + MaxAhead < SeqMod /\ NumPackets \in Nat /\ MaxAhead \in Nat
    BY <1>0, <2>2, PacketsInTurn, PlayerBufferAssumption DEF WithinStream, OneRound
  <2>8. k \in 0 .. w /\ Dist(ab_read', ab_write') = w - k
    <3>1. k \in 0 .. w
      <4> HIDE DEF w
      <4> QED  BY <2>2, <2>6
    <3> QED  BY <1>0, <2>2, <2>5, <3>1, ReadingOn
  <2> HIDE DEF w
  <2>9. k \in 0 .. SeqMod - 1 /\ PacketOf(ab_read) + k < SeqMod  BY <2>6, <2>7, <2>8
  <2>10. PacketOf(ab_read') = PacketOf(ab_read) + k
    BY <1>0, <2>5, <2>9, PacketsInTurn
  <2>11. WithinStream'
    <3>1. PacketOf(ab_read') + Dist(ab_read', ab_write') <= NumPackets
      BY <2>6, <2>7, <2>8, <2>10
    <3> QED  BY <3>1 DEF WithinStream, PacketOf, Dist
  <2>12. i = BUFIDX(ab_read + k) /\ i \in 0 .. BufferFrames - 1
    <3>1. ab_read \in Int /\ k \in Int  BY <1>0, <2>9, Sizes
    <3>2. Plus(ab_read, k) \in Seqs  BY <3>1, PlusType
    <3> QED  BY <3>1, <3>2, IndexOfPlus, IndexType, Sizes
  <2> HIDE DEF i
  <2>13. \A j \in 0 .. BufferFrames - 1 : HoldsOwnFrames(slots'[j])
    <3>1. slots[i].ready => slots[i].len \in 1 .. PacketLength
      BY <2>12 DEF TypeInv, SlotsOK
    <3>2. slots[i] \in SlotType /\ HoldsOwnFrames(slots[i])
      BY <1>0, <2>12
    <3>3. HoldsOwnFrames(Trimmed(slots[i], f))
      BY <2>2, <2>3, <2>4, <2>12, <3>1, <3>2, TrimKeepsFrames
    <3> QED  BY <1>0, <2>5, <2>12, <3>3
  <2>14. GivenBefore'
    <3> DEFINE a == PacketOf(ab_read)
               b == PacketOf(ab_read')
    <3>1. Current = a - 0 /\ Current' = b - 0  BY <1>0 DEF Current, PacketOf, Dist
    <3>2. a \in Int /\ b \in Int /\ a <= b  BY <2>7, <2>9, <2>10
    <3> HIDE DEF a, b
    <3>3. Begin(a) \in Int /\ Begin(b) \in Int /\ Begin(a) <= Begin(b)
      BY <3>2, BeginsInTurn
    <3>4. Current = a /\ Current' = b  BY <3>1, <3>2
    <3>5. last_given # -1 => \E g \in 0 .. Begin(b) - 1 : last_given = StampAt(g)
      <4>1. last_given # -1 => \E g \in 0 .. Begin(a) - 1 : last_given = StampAt(g)
        BY <3>4 DEF GivenBefore
      <4> QED  BY <3>3, <4>1
    <3> QED  BY <1>0, <2>2, <2>5, <3>4, <3>5 DEF GivenBefore, Begin, StampAt
  <2> QED  BY <2>11, <2>13, <2>14
<1>3. CASE FlushVerdict \notin {"all", "all but keep", "part"}
  <2>1. UNCHANGED <<slots, ab_read, ab_synced, last_given>>
    BY <1>3, Zenon DEF HandleFlush
  <2>2. Current' = Current  BY <1>0, <2>1 DEF Current, PacketOf, Dist
  <2> QED
    BY <1>0, <2>1, <2>2 DEF WithinStream, PacketOf, Dist, HoldsOwnFrames, GivenBefore,
                            Begin, StampAt
<1> QED  BY <1>1, <1>2, <1>3

\* buffer_get_frame keeps the stream in order: what it releases comes after what was
\* played before.
LEMMA GetFrameKeepsOrder ==
  ASSUME NeverLapped, OneRound, OrderInv, TypeInv', GetFrame
  PROVE  /\ WithinStream' /\ \A i \in 0 .. BufferFrames - 1 : HoldsOwnFrames(slots'[i])
         /\ GivenBefore' /\ PlaysCurrent'
<1> USE DEF OrderInv, BufferInv
<1> DEFINE k   == Skipped
           rd1 == Plus(ab_read, k)
           i   == BUFIDX(rd1)
           w   == Dist(ab_read, ab_write)
<1>0. /\ ab_read \in Seqs /\ ab_write \in Seqs /\ pc = "frame" /\ SeqMod \in Nat
      /\ slots \in [0 .. BufferFrames - 1 -> SlotType]
      /\ w \in 0 .. SeqMod - 1 /\ NumPackets \in Nat /\ MaxAhead \in Nat
      /\ NumPackets + MaxAhead < SeqMod /\ PacketOf(ab_read) \in 0 .. SeqMod - 1
  <2>1. ab_read \in Seqs /\ ab_write \in Seqs  BY DEF TypeInv, TypeOK
  <2>2. w \in 0 .. SeqMod - 1 /\ PacketOf(ab_read) \in 0 .. SeqMod - 1
    BY <2>1, DistFrom, PacketsInTurn
  <2> QED
    BY <2>1, <2>2, PlayerBufferAssumption DEF TypeInv, TypeOK, GetFrame, OneRound
<1>1. UNCHANGED <<ab_write, ab_synced, last_given>>  BY DEF GetFrame
<1>2. ab_synced => Unaliased(rd1) = rd1 /\ rd1 \in Seqs /\ Dist(ab_read, rd1) = k
                   /\ k \in 0 .. w
  BY NoJump
<1>3. \/ UNCHANGED <<slots, playing, ab_read>> /\ pc' = "top"
      \/ UNCHANGED <<slots, playing>> /\ pc' = "top" /\ ab_read' = Unaliased(rd1) /\ ab_synced
      \/ Unaliased(rd1) # ab_write /\ ab_synced /\ Release(Unaliased(rd1))
  BY GetFrameOK DEF TypeInv
<1> HIDE DEF k, w
<1> DEFINE a == PacketOf(ab_read)
           b == PacketOf(ab_read')
<1>4. ASSUME b = a, ab_read' = ab_read, pc' = "top"
      PROVE  WithinStream' /\ GivenBefore' /\ PlaysCurrent'
  <2>1. Current' = Current  BY <1>0, <1>4 DEF Current, PacketOf, Dist
  <2> QED
    BY <1>0, <1>1, <1>4, <2>1 DEF WithinStream, GivenBefore, PlaysCurrent, PacketOf, Dist,
                                  Begin, StampAt
\* The read position moves on by n packets, of which the last may be released.
<1>5. ASSUME NEW n \in 0 .. w, NEW c \in {0, 1}, ab_synced, ab_read' = Plus(ab_read, n),
             c <= n, pc' = IF c = 1 THEN "out" ELSE "top"
      PROVE  /\ WithinStream' /\ GivenBefore' /\ b = a + n
             /\ Current' = a + (n - c) /\ a \in Int
  <2>1. PacketOf(ab_read) + w <= NumPackets  BY <1>5 DEF WithinStream, w
  <2>2. Dist(ab_read', ab_write') = w - n  BY <1>0, <1>1, <1>5, ReadingOn DEF w
  <2>3. n \in 0 .. SeqMod - 1 /\ PacketOf(ab_read) + n < SeqMod
    BY <1>0, <1>5, <2>1
  <2>4. b = a + n  BY <1>0, <1>5, <2>3, PacketsInTurn
  <2>5. a \in Int /\ b \in Int /\ n \in Int /\ a >= 0  BY <1>0, <2>3, <2>4
  <2>6. Current' = b - c /\ Current = a
    <3>1. Current' = b - IF pc' = "out" THEN 1 ELSE 0  BY DEF Current, PacketOf, Dist
    <3>2. Current = a - 0  BY <1>0 DEF Current
    <3> HIDE DEF a, b
    <3> QED  BY <1>5, <2>5, <3>1, <3>2
  <2>7. WithinStream'
    <3>1. PacketOf(ab_read') + Dist(ab_read', ab_write') <= NumPackets
      BY <1>0, <1>5, <2>1, <2>2, <2>4
    <3> QED  BY <3>1 DEF WithinStream, PacketOf, Dist
  <2> HIDE DEF a, b
  <2>8. Current' = a + (n - c) /\ a <= Current' /\ Current' \in Int
    BY <1>5, <2>4, <2>5, <2>6
  <2>9. GivenBefore'
    <3> DEFINE e == Current'
    <3>1. e \in Int /\ a <= e  BY <2>8
    <3> HIDE DEF e
    <3>2. Begin(a) \in Int /\ Begin(e) \in Int /\ Begin(a) <= Begin(e)
      BY <2>5, <3>1, BeginsInTurn
    <3>3. last_given # -1 => \E g \in 0 .. Begin(a) - 1 : last_given = StampAt(g)
      BY <2>6 DEF GivenBefore
    <3>4. last_given # -1 => \E g \in 0 .. Begin(e) - 1 : last_given = StampAt(g)
      BY <3>2, <3>3
    <3>5. pc' = "out" => b >= 1  BY <1>5, <2>4, <2>5
    <3>6. pc' = "out" => PacketOf(ab_read') >= 1  BY <3>5 DEF b
    <3>7. GivenBefore' <=>
            /\ pc' = "init" \/ ~ab_synced' => last_given' = -1
            /\ pc' = "out" => PacketOf(ab_read') >= 1
            /\ last_given' # -1 => \E g \in 0 .. Begin(Current') - 1 : last_given' = StampAt(g)
      BY DEF GivenBefore, PacketOf, Dist, Begin, StampAt
    <3> QED  BY <1>1, <1>5, <3>4, <3>6, <3>7 DEF e
  <2> QED  BY <2>4, <2>5, <2>7, <2>8, <2>9
<1>6. CASE UNCHANGED <<slots, playing, ab_read>> /\ pc' = "top"
  BY <1>4, <1>6
<1>7. CASE UNCHANGED <<slots, playing>> /\ pc' = "top" /\ ab_read' = rd1 /\ ab_synced
  <2>1. k \in 0 .. w /\ 0 \in {0, 1} /\ 0 <= k  BY <1>0, <1>2, <1>7
  <2>2. WithinStream' /\ GivenBefore'  BY <1>5, <1>7, <2>1
  <2> QED  BY <1>7, <2>2 DEF PlaysCurrent
<1>8. CASE rd1 # ab_write /\ ab_synced /\ Release(rd1)
  <2>1. /\ pc' = "out" /\ playing' = i /\ ab_read' = Plus(rd1, 1)
        /\ slots' = [slots EXCEPT ![i].ready = FALSE,
                                  ![i].ts = IF slots[i].ready THEN @ ELSE 0]
    BY <1>8 DEF Release
  <2>2. i \in 0 .. BufferFrames - 1  BY <1>2, <1>8, IndexType, Sizes
  <2>3. k # w
    <3> HIDE DEF rd1
    <3> QED  BY <1>0, <1>2, <1>8, DistFrom DEF w
  <2>4. k + 1 \in 0 .. w /\ k \in Int  BY <1>0, <1>2, <1>8, <2>3
  <2>5. Plus(rd1, 1) = Plus(ab_read, k + 1)
    <3> DEFINE c == FirstSeq
    <3>0. 1 \in 0 .. SeqMod - 1 /\ k \in 0 .. SeqMod - 1 /\ k + 1 \in 0 .. SeqMod - 1
      BY <1>0, <1>2, <1>8, <2>4, PlayerBufferAssumption
    <3>1. /\ Plus(ab_read, k + 1) \in Seqs
          /\ Dist(ab_read, Plus(ab_read, k + 1)) = IF Dist(ab_read, ab_read) + (k + 1) < SeqMod
                THEN Dist(ab_read, ab_read) + (k + 1)
                ELSE Dist(ab_read, ab_read) + (k + 1) - SeqMod
      <4> DEFINE n == k + 1
      <4>1. ab_read \in Seqs /\ n \in 0 .. SeqMod - 1  BY <1>0, <3>0
      <4> HIDE DEF n
      <4>2. /\ Plus(ab_read, n) \in Seqs
            /\ Dist(ab_read, Plus(ab_read, n)) = IF Dist(ab_read, ab_read) + n < SeqMod
                  THEN Dist(ab_read, ab_read) + n ELSE Dist(ab_read, ab_read) + n - SeqMod
        BY <4>1, DistPlus, Zenon
      <4> QED  BY <4>2, Zenon DEF n
    <3>2. /\ Plus(rd1, 1) \in Seqs
          /\ Dist(ab_read, Plus(rd1, 1)) = IF Dist(ab_read, rd1) + 1 < SeqMod
                THEN Dist(ab_read, rd1) + 1 ELSE Dist(ab_read, rd1) + 1 - SeqMod
      <4>1. ab_read \in Seqs /\ rd1 \in Seqs  BY <1>0, <1>2, <1>8
      <4> HIDE DEF rd1
      <4> QED  BY <4>1, <3>0, DistPlus, Zenon
    <3>3. Dist(ab_read, ab_read) = 0  BY <1>0, DistFrom
    <3>4. Dist(ab_read, Plus(rd1, 1)) = Dist(ab_read, Plus(ab_read, k + 1))
      <4> HIDE DEF rd1
      <4> QED  BY <1>0, <1>2, <1>8, <3>0, <3>1, <3>2, <3>3
    <3> HIDE DEF rd1
    <3> QED  BY <1>0, <3>1, <3>2, <3>4, DistFrom
  <2>6. /\ WithinStream' /\ GivenBefore' /\ Current' = a + ((k + 1) - 1) /\ a \in Int
    <3>1. 1 \in {0, 1} /\ 1 <= k + 1  BY <1>0, <1>2, <1>8
    <3> HIDE DEF a
    <3> QED  BY <1>5, <1>8, <2>1, <2>4, <2>5, <3>1 DEF a
  <2> HIDE DEF a, b
  <2>7. Current' = a + k  BY <2>4, <2>6
  <2>8. /\ slots'[i].ts = (IF slots[i].ready THEN slots[i].ts ELSE 0)
        /\ ~slots'[i].ready /\ \A j \in 0 .. BufferFrames - 1 : j # i => slots'[j] = slots[j]
    <3> HIDE DEF i
    <3>1. slots[i] \in SlotType  BY <1>0, <2>2
    <3> QED  BY <1>0, <2>1, <2>2, <3>1 DEF SlotType
  <2>9. \A j \in 0 .. BufferFrames - 1 : HoldsOwnFrames(slots'[j])
    BY <2>8 DEF HoldsOwnFrames
  <2>10. PlaysCurrent'
    <3>1. CASE ~slots[i].ready
      BY <2>1, <2>8, <3>1 DEF PlaysCurrent
    <3>2. CASE slots[i].ready
      <4>1. k < w  BY <1>0, <1>2, <1>8, <2>3
      <4>2. InBuffer(rd1)  BY <1>2, <1>8, <4>1 DEF InBuffer, w
      <4>3. slots[i].seq = rd1  BY <1>2, <1>8, <3>2, <4>2 DEF HoldsItsOwn
      <4>4. PacketOf(rd1) = a + k
        <5>1. PacketOf(ab_read) + w <= NumPackets  BY <1>8 DEF WithinStream, w
        <5>2. k \in 0 .. SeqMod - 1 /\ PacketOf(ab_read) + k < SeqMod
          BY <1>0, <1>2, <1>8, <5>1
        <5> QED  BY <1>0, <5>2, PacketsInTurn DEF a
      <4>5. PICK o \in 0 .. PacketLength - 1 : slots[i].ts = StampAt(Begin(a + k) + o)
        BY <2>2, <3>2, <4>3, <4>4 DEF HoldsOwnFrames
      <4> DEFINE e == a + k
                 g == Begin(e) + o
      <4>6. e \in Int  BY <2>4, <2>6
      <4> HIDE DEF e
      <4>7. /\ Begin(e) \in Int /\ Begin(e + 1) = Begin(e) + PacketLength
            /\ PacketLength \in Nat \ {0}
        <5>1. e <= e  BY <4>6
        <5> QED  BY <4>6, <5>1, BeginsInTurn, PlayerBufferAssumption
      <4>8. g \in Begin(e) .. Begin(e + 1) - 1  BY <4>5, <4>7
      <4>9. slots'[i].ts = StampAt(g)  BY <2>8, <3>2, <4>5 DEF e
      <4>10. PlaysCurrent' <=>
               (pc' = "out" /\ slots'[playing'].ts # 0 =>
                  \E h \in Begin(Current') .. Begin(Current' + 1) - 1 :
                     slots'[playing'].ts = StampAt(h))
        BY DEF PlaysCurrent, Begin, StampAt
      <4>11. Current' = e  BY <2>7 DEF e
      <4> HIDE DEF g, i
      <4> QED  BY <2>1, <4>8, <4>9, <4>10, <4>11
    <3> QED  BY <3>1, <3>2
  <2> QED  BY <2>6, <2>9, <2>10
<1> QED  BY <1>2, <1>3, <1>6, <1>7, <1>8

LEMMA OrderStep ==
  NeverLapped /\ MaxAhead + 1 < BufferFrames /\ OneRound /\ OrderInv /\ [Next]_vars => OrderInv'
<1> SUFFICES ASSUME NeverLapped, MaxAhead + 1 < BufferFrames, OneRound, OrderInv, [Next]_vars
             PROVE  OrderInv'
  OBVIOUS
<1> DEFINE Held == \A i \in 0 .. BufferFrames - 1 : HoldsOwnFrames(slots[i])
<1>0. BufferInv /\ BufferInv' /\ TypeInv /\ TypeInv'  BY BufferStep DEF OrderInv, BufferInv
<1>a. /\ WithinStream /\ flush_rtp_timestamp \in FlushPoints /\ Held
      /\ GivenBefore /\ PlaysCurrent /\ 0 \in FlushPoints
  BY DEF OrderInv, FlushPoints
<1>b. /\ rx \in [Receivers -> ReceiverState] /\ ab_read \in Seqs /\ ab_write \in Seqs
      /\ MaxAhead \in Nat /\ MaxLate \in Nat
  BY <1>0, PlayerBufferAssumption DEF TypeInv, TypeOK, ReceiverState
<1> SUFFICES WithinStream' /\ flush_rtp_timestamp' \in FlushPoints /\ Held'
             /\ GivenBefore' /\ PlaysCurrent'
  BY <1>0 DEF OrderInv, FlushPoints, TsOf
\* Steps that leave the buffer and the player's place alone.
<1>c. ASSUME UNCHANGED <<slots, ab_read, ab_write, ab_synced, playing, last_given>>,
             pc' = pc \/ (pc \in {"top", "flush"} /\ pc' \in {"flush", "frame"})
      PROVE  WithinStream' /\ Held' /\ GivenBefore' /\ PlaysCurrent'
  <2>1. Current' = Current  BY <1>c DEF Current, PacketOf, Dist
  <2> QED
    BY <1>a, <1>c, <2>1 DEF WithinStream, GivenBefore, PlaysCurrent, HoldsOwnFrames,
                            PacketOf, Dist, Begin, StampAt
\* Steps that put a packet into the buffer.
<1>d. ASSUME NEW r \in Receivers, NEW p \in Packets, NEW ok, player_put_packet(r, p, ok),
             ab_synced => CanBePlaced(SeqOf(p)), Next
      PROVE  /\ WithinStream' /\ flush_rtp_timestamp' \in FlushPoints /\ Held'
             /\ GivenBefore' /\ PlaysCurrent'
  <2>1. UNCHANGED <<pc, playing, last_given, flush_rtp_timestamp>>
    BY <1>d DEF player_put_packet, player, flush
  <2>2. WithinStream' /\ Held' /\ (ab_synced => ab_synced' /\ UNCHANGED ab_read)
    <3>1. /\ WithinStream' /\ \A i \in 0 .. BufferFrames - 1 : HoldsOwnFrames(slots'[i])
          /\ ab_synced => ab_synced' /\ UNCHANGED ab_read
      BY <1>d, PutKeepsOrder
    <3> QED  BY <3>1 DEF HoldsOwnFrames, PacketOf, Dist, StampAt, Begin
  <2>3. CASE ~ab_synced \/ pc = "init"
    <3>1. pc # "out" /\ last_given = -1
      BY <1>0, <1>a, <2>3 DEF BufferInv, PlaysWhatWasRead, GivenBefore
    <3> QED  BY <1>a, <2>1, <2>2, <3>1 DEF GivenBefore, PlaysCurrent
  <2>4. CASE ab_synced /\ pc # "init"
    <3>1. Current' = Current  BY <2>1, <2>2, <2>4 DEF Current, PacketOf, Dist
    <3>2. GivenBefore'
      BY <1>a, <2>1, <2>2, <2>4, <3>1 DEF GivenBefore, Begin, StampAt, PacketOf, Dist
    <3>3. PlaysCurrent'
      <4>1. CASE pc = "out"
        <5>1. slots'[playing]["ts"] = slots[playing]["ts"]
          BY <1>0, <1>d, <4>1, PlayingStays
        <5> QED  BY <1>a, <2>1, <3>1, <4>1, <5>1 DEF PlaysCurrent, Begin, StampAt
      <4>2. CASE pc # "out"
        BY <2>1, <4>2 DEF PlaysCurrent
      <4> QED  BY <4>1, <4>2
    <3> QED  BY <1>a, <2>1, <2>2, <3>2, <3>3
  <2> QED  BY <2>3, <2>4
<1>1. ASSUME NEW r \in Receivers, NEW p \in Packets, ClearEarlyFlush(r, p)
      PROVE  /\ WithinStream' /\ flush_rtp_timestamp' \in FlushPoints /\ Held'
             /\ GivenBefore' /\ PlaysCurrent'
  <2>1. /\ flush_rtp_timestamp' = 0
        /\ UNCHANGED <<slots, ab_read, ab_write, ab_synced, playing, last_given, pc>>
    BY <1>1 DEF ClearEarlyFlush, input, player
  <2> QED  BY <1>a, <1>c, <2>1
<1>2. ASSUME NEW r \in Receivers, NEW ok \in Verdicts, PutFirst(r, ok), Next
      PROVE  /\ WithinStream' /\ flush_rtp_timestamp' \in FlushPoints /\ Held'
             /\ GivenBefore' /\ PlaysCurrent'
  <2> DEFINE p == rx[r].packet
  <2>1. p \in Packets /\ player_put_packet(r, p, ok) /\ rx[r].at = "put"
    BY <1>2, <1>b DEF PutFirst, ReceiverState
  <2>2. SeqOf(p) \in Seqs  BY <2>1, SeqOfType DEF Packets
  <2>3. ab_synced => CanBePlaced(SeqOf(p))
    <3>1. Dist(SeqOf(p), ab_read) \in Int /\ Dist(ab_read, ab_write) \in Int
      BY <1>b, <2>2, DistIs, Sizes DEF Seqs
    <3> QED  BY <1>0, <1>b, <2>1, <3>1 DEF BufferInv, PutsAreNear, CanStillCome, CanBePlaced
  <2> HIDE DEF p, Held
  <2> QED  BY <1>2, <1>d, <2>1, <2>3
<1>3. ASSUME NEW r \in Receivers, NEW p \in Packets, NEW ok \in Verdicts, Put(r, p, ok), Next
      PROVE  /\ WithinStream' /\ flush_rtp_timestamp' \in FlushPoints /\ Held'
             /\ GivenBefore' /\ PlaysCurrent'
  <2>1. /\ ab_synced => \/ Dist(ab_read, SeqOf(p)) <= MaxAhead
                        \/ Dist(SeqOf(p), ab_read) <= MaxLate
        /\ player_put_packet(r, p, ok)
    BY <1>3, Zenon DEF Put, Arriving
  <2>2. SeqOf(p) \in Seqs  BY SeqOfType DEF Packets
  <2>3. ab_synced => CanBePlaced(SeqOf(p))
    <3>1. Dist(SeqOf(p), ab_read) \in Int /\ Dist(ab_read, ab_write) \in Int
      BY <1>b, <2>2, DistIs, Sizes DEF Seqs
    <3> QED  BY <1>0, <1>b, <2>1, <3>1 DEF BufferInv, BufferIsBounded, CanBePlaced
  <2> HIDE DEF Held
  <2> QED  BY <1>3, <1>d, <2>1, <2>3
<1>4. ASSUME NEW r \in Receivers, ResumeCheck(r)
      PROVE  /\ WithinStream' /\ flush_rtp_timestamp' \in FlushPoints /\ Held'
             /\ GivenBefore' /\ PlaysCurrent'
  <2>1. /\ CheckFrom(r, slots, rx[r].x, ab_write, first_possibly_missing_frame, rx[r].absent)
        /\ UNCHANGED <<ab_read, ab_write, ab_synced, pc, playing, last_given,
                       flush_rtp_timestamp>>
    BY <1>4 DEF ResumeCheck, player, flush
  <2>2. \A i \in 0 .. BufferFrames - 1 :
          /\ slots'[i].ready = slots[i].ready /\ slots'[i].seq = slots[i].seq
          /\ slots'[i].ts = slots[i].ts /\ slots'[i].len = slots[i].len
    BY <1>0, <2>1, CheckChangesAsked DEF TypeInv
  <2>3. Current' = Current  BY <2>1 DEF Current, PacketOf, Dist
  <2>4. playing \in 0 .. BufferFrames - 1  BY <1>0 DEF TypeInv, TypeOK
  <2>5. slots'[playing].ts = slots[playing].ts  BY <2>2, <2>4
  <2>6. PlaysCurrent'  BY <1>a, <2>1, <2>3, <2>5 DEF PlaysCurrent, Begin, StampAt
  <2>7. Held'  BY <1>a, <2>2 DEF HoldsOwnFrames, PacketOf, Dist, Begin, StampAt
  <2> QED
    BY <1>a, <2>1, <2>3, <2>6, <2>7 DEF WithinStream, GivenBefore, PacketOf, Dist, Begin, StampAt
<1>5. ASSUME NEW f \in FlushPoints, do_flush(f)
      PROVE  /\ WithinStream' /\ flush_rtp_timestamp' \in FlushPoints /\ Held'
             /\ GivenBefore' /\ PlaysCurrent'
  <2>1. /\ flush_rtp_timestamp' = f
        /\ UNCHANGED <<slots, ab_read, ab_write, ab_synced, playing, last_given, pc>>
    BY <1>5 DEF do_flush, input, player
  <2> QED  BY <1>c, <2>1
<1>6. CASE player_thread_start
  <2>1. /\ pc = "init" /\ pc' = "top" /\ flush_rtp_timestamp' = 0 /\ ab_synced' = FALSE
        /\ last_given' = last_given
    BY <1>6 DEF player_thread_start
  <2>2. \A i \in 0 .. BufferFrames - 1 : slots'[i] = BlankSlot
    BY <1>0, <1>6 DEF player_thread_start, TypeInv, TypeOK
  <2>3. Held'  BY <2>2 DEF HoldsOwnFrames, BlankSlot
  <2> QED  BY <1>a, <2>1, <2>3 DEF WithinStream, GivenBefore, PlaysCurrent
<1>7. CASE LoopTop
  <2>1. /\ flush_rtp_timestamp' \in {flush_rtp_timestamp, 0} /\ pc = "top" /\ pc' = "flush"
        /\ UNCHANGED <<slots, ab_read, ab_write, ab_synced, playing, last_given>>
    BY <1>7 DEF LoopTop, input
  <2> QED  BY <1>a, <1>c, <2>1
<1>8. CASE NoFlush
  <2>1. /\ pc = "flush" /\ pc' = "frame"
        /\ UNCHANGED <<slots, ab_read, ab_write, ab_synced, playing, last_given,
                       flush_rtp_timestamp>>
    BY <1>8 DEF NoFlush, input, flush
  <2> QED  BY <1>a, <1>c, <2>1
<1>9. CASE HandleFlush
  <2>1. WithinStream' /\ GivenBefore' /\ \A i \in 0 .. BufferFrames - 1 : HoldsOwnFrames(slots'[i])
    BY <1>9, FlushKeepsOrder
  <2>2. pc' = "frame" /\ flush_rtp_timestamp' \in {flush_rtp_timestamp, 0}
    BY <1>9 DEF HandleFlush
  <2> QED
    BY <1>a, <2>1, <2>2 DEF PlaysCurrent, HoldsOwnFrames, PacketOf, Dist, Begin, StampAt
<1>10. CASE GetFrame
  <2>1. WithinStream' /\ GivenBefore' /\ PlaysCurrent'
        /\ \A i \in 0 .. BufferFrames - 1 : HoldsOwnFrames(slots'[i])
    BY <1>0, <1>10, GetFrameKeepsOrder
  <2>2. flush_rtp_timestamp' = flush_rtp_timestamp  BY <1>10 DEF GetFrame, flush
  <2> QED  BY <1>a, <2>1, <2>2 DEF HoldsOwnFrames, PacketOf, Dist, Begin, StampAt
<1>11. CASE PlayFrame
  <2>1. /\ pc = "out" /\ pc' = "top" /\ UNCHANGED flush_rtp_timestamp
        /\ UNCHANGED <<slots, ab_read, ab_write, ab_synced>>
        /\ last_given' = IF slots[playing].ts = 0 THEN last_given ELSE slots[playing].ts
    BY <1>11 DEF PlayFrame, input, flush
  <2>2. ab_synced  BY <1>0, <2>1 DEF BufferInv, PlaysWhatWasRead
  <2> DEFINE a == PacketOf(ab_read)
  <2>3. a \in Int /\ a >= 1
    BY <1>a, <1>b, <2>1, PacketsInTurn, Sizes DEF GivenBefore
  <2>4. Current = a - 1 /\ Current' = a - 0
    BY <2>1 DEF Current, PacketOf, Dist
  <2> HIDE DEF a
  <2>5. /\ Begin(Current) \in Int /\ Begin(a) \in Int /\ Begin(Current) <= Begin(a)
        /\ Current + 1 = a /\ Current' = a /\ 0 <= Begin(Current)
    <3>1. a - 1 \in Int /\ a - 1 <= a /\ 0 <= a - 1  BY <2>3
    <3>2. /\ Begin(a - 1) \in Int /\ Begin(a) \in Int /\ Begin(a - 1) <= Begin(a)
      BY <2>3, <3>1, BeginsInTurn
    <3>3. 0 <= Begin(a - 1)  BY <3>1, BeginsInTurn
    <3> QED  BY <2>3, <2>4, <3>1, <3>2, <3>3
  <2>6. last_given' # -1 => \E g \in 0 .. Begin(a) - 1 : last_given' = StampAt(g)
    <3>1. CASE slots[playing].ts = 0
      BY <1>a, <2>1, <2>5, <3>1 DEF GivenBefore
    <3>2. CASE slots[playing].ts # 0
      BY <1>a, <2>1, <2>5, <3>2 DEF PlaysCurrent
    <3> QED  BY <3>1, <3>2
  <2>7. GivenBefore'
    BY <2>1, <2>2, <2>5, <2>6 DEF GivenBefore, Begin, StampAt
  <2> QED
    BY <1>a, <2>1, <2>7 DEF PlaysCurrent, WithinStream, HoldsOwnFrames, PacketOf, Dist,
                            Begin, StampAt
<1>12. CASE TimingArrives \/ set_requested_connection_state_to_output \/ Tick \/ UNCHANGED vars
  <2>1. UNCHANGED <<slots, ab_read, ab_write, ab_synced, playing, last_given, pc,
                    flush_rtp_timestamp>>
    BY <1>12 DEF TimingArrives, set_requested_connection_state_to_output, Tick, vars,
                 input, player, flush
  <2> QED  BY <1>a, <1>c, <2>1
<1> HIDE DEF Held
<1> QED
  BY <1>1, <1>2, <1>3, <1>4, <1>5, <1>6, <1>7, <1>8, <1>9, <1>10, <1>11, <1>12
  DEF Next, Receiver, buffer_get_frame

LEMMA OrderInvariance ==
  NeverLapped /\ MaxAhead + 1 < BufferFrames /\ OneRound => (Spec => []OrderInv)
<1> SUFFICES ASSUME NeverLapped, MaxAhead + 1 < BufferFrames, OneRound
             PROVE  Spec => []OrderInv
  OBVIOUS
<1>1. OrderInv /\ [Next]_vars => OrderInv'  BY OrderStep
<1> QED  BY OrderInit, <1>1, PTL DEF Spec

\* Whatever is lost, late, repeated or flushed, player_thread_func never goes back in the
\* stream between two flushes of everything: no receiver writes into the frame it plays
\* without the lock, and that frame lies after the one it played before.
THEOREM Undisturbed ==
  NeverLapped /\ MaxAhead + 1 < BufferFrames /\ OneRound => (Spec => PlayerIsUndisturbed)
<1> SUFFICES ASSUME NeverLapped, MaxAhead + 1 < BufferFrames, OneRound
             PROVE  Spec => PlayerIsUndisturbed
  OBVIOUS
<1>1. OrderInv /\ [Next]_vars =>
        [(pc = "out" /\ last_given # -1 /\ slots[playing].ts # 0) =>
            (pc' = "out" \/ SignedDiff(slots[playing].ts, last_given) > 0)]_vars
  <2> SUFFICES ASSUME OrderInv, Next, pc = "out", last_given # -1, slots[playing].ts # 0
               PROVE  SignedDiff(slots[playing].ts, last_given) > 0
    OBVIOUS
  <2> DEFINE a == PacketOf(ab_read)
             c == Current
  <2>0. BufferInv /\ WithinStream /\ GivenBefore /\ PlaysCurrent  BY DEF OrderInv
  <2>1. ab_synced /\ ab_read \in Seqs /\ ab_write \in Seqs
    BY <2>0 DEF BufferInv, PlaysWhatWasRead, TypeInv, TypeOK
  <2>2. a >= 1 /\ a + Dist(ab_read, ab_write) <= NumPackets
    BY <2>0, <2>1 DEF GivenBefore, WithinStream
  <2>3. a \in Int /\ Dist(ab_read, ab_write) \in Nat /\ NumPackets \in Int
    BY <2>1, PacketsInTurn, DistFrom, Sizes, PlayerBufferAssumption
  <2>4. c = a - 1  BY DEF Current
  <2> HIDE DEF a, c
  <2>5. c \in Int /\ c + 1 \in Int /\ 0 <= c /\ c + 1 <= NumPackets + 1 /\ NumPackets + 1 \in Int
    BY <2>2, <2>3, <2>4
  <2>6. 0 <= Begin(c) /\ Begin(c) \in Int  BY <2>5, BeginsInTurn
  <2>7. Begin(c) <= Begin(c + 1) /\ Begin(c + 1) \in Int
    <3>1. c <= c + 1  BY <2>5
    <3> QED  BY <2>5, <3>1, BeginsInTurn
  <2>8. Begin(c + 1) <= Begin(NumPackets + 1) /\ Begin(NumPackets + 1) \in Int
    BY <2>5, BeginsInTurn
  <2>9. PICK g \in 0 .. Begin(c) - 1 : last_given = StampAt(g)  BY <2>0 DEF GivenBefore, c
  <2>10. PICK h \in Begin(c) .. Begin(c + 1) - 1 : slots[playing].ts = StampAt(h)
    BY <2>0 DEF PlaysCurrent, c
  <2>11. g \in Frames /\ h \in Frames /\ g < h  BY <2>6, <2>7, <2>8, <2>9, <2>10 DEF Frames
  <2>12. SignedDiff(slots[playing].ts, last_given) = h - g /\ g \in Int /\ h \in Int
    BY <2>9, <2>10, <2>11, FramesApart
  <2> QED  BY <2>11, <2>12
<1>2. Spec => PlaysForward
  BY <1>1, OrderInvariance, PTL DEF Spec, PlaysForward
<1>3. Spec => PlayingSlotIsStable  BY PlayingSlot
<1> QED  BY <1>2, <1>3 DEF PlayerIsUndisturbed
-----------------------------------------------------------------------------
(* What a flush leaves behind.                                                *)

\* The stream's timestamps lie in the lower half of their range, and not at its very
\* beginning, so that the timestamp 0 of a missing packet lies before all of them.
LowerHalf == /\ PacketLength <= StartTime + Latency
             /\ 2 * (StartTime + Latency + Begin(NumPackets + 1)) < TsMod

LengthsOK == \A i \in 0 .. BufferFrames - 1 : slots[i].len \in 0 .. PacketLength

MissingIsBlank ==
  \A s \in Seqs : InBuffer(s) /\ ~slots[BUFIDX(s)].ready => slots[BUFIDX(s)].ts = 0

BlankInv == OrderInv /\ LengthsOK /\ MissingIsBlank

\* A missing packet seems to lie before every flush point.
LEMMA BlankIsBefore ==
  ASSUME LowerHalf, NEW slot \in SlotType, slot.ts = 0, slot.len \in 0 .. PacketLength,
         NEW f \in FlushPoints, f # 0
  PROVE  SignedDiff(f, LastFrame(slot)) > 0
<1> DEFINE c == StartTime + Latency
           n == Begin(NumPackets + 1)
           e == slot.len - 1
           l == LastFrame(slot)
<1>1. PICK g \in Frames : f = StampAt(g)  BY FlushPointIs
<1>2. /\ TsMod \in Nat \ {0} /\ PacketLength \in Nat \ {0} /\ c \in Nat /\ PacketLength <= TsMod
      /\ NumPackets + 1 \in Int
  BY PlayerBufferAssumption
<1>3. n \in Int  BY <1>2, BeginsInTurn
<1>4. g \in 0 .. n - 1  BY <1>1 DEF Frames
<1>5. PacketLength <= c /\ 2 * (c + n) < TsMod  BY DEF LowerHalf
<1>6. f = (c + g) % TsMod  BY <1>1 DEF StampAt
<1> HIDE DEF c, n
<1>7. f = c + g
  <2> DEFINE x == c + g
  <2>1. x \in Int /\ x \in 0 .. TsMod - 1  BY <1>2, <1>3, <1>4, <1>5
  <2> HIDE DEF x
  <2>2. x % TsMod = x  BY <1>2, <2>1, OneTurn
  <2> QED  BY <1>6, <2>2 DEF x
<1>8. e \in Int /\ -1 <= e /\ e < PacketLength  BY <1>2
<1>9. l = IF e < 0 THEN e + TsMod ELSE e
  <2>1. slot.ts + slot.len - 1 = e  BY <1>2
  <2>2. l = e % TsMod  BY <2>1 DEF LastFrame
  <2> HIDE DEF e
  <2>3. /\ e \in 0 .. TsMod - 1 => e % TsMod = e
        /\ e \in -TsMod .. -1 => e % TsMod = e + TsMod
    BY <1>2, <1>8, OneTurn
  <2> QED  BY <1>2, <1>8, <2>2, <2>3
<1> HIDE DEF e, l
<1>10. f \in 0 .. TsMod - 1 /\ l \in 0 .. TsMod - 1
  BY <1>2, <1>3, <1>4, <1>5, <1>7, <1>8, <1>9
<1>11. SignedDiff(f, l) = LET d == IF l <= f THEN f - l ELSE f - l + TsMod
                          IN  IF 2 * d >= TsMod THEN d - TsMod ELSE d
  BY <1>10, SignedDiffIs DEF Stamps
<1>12. SignedDiff(f, l) = f - e
  BY <1>2, <1>3, <1>4, <1>5, <1>7, <1>8, <1>9, <1>11
<1>13. f - e > 0  BY <1>2, <1>3, <1>4, <1>5, <1>7, <1>8
<1> QED  BY <1>12, <1>13 DEF l

\* The packet at which a flush up to a certain frame stops is there.
LEMMA StopsAtAPacket ==
  ASSUME NeverLapped, LowerHalf, BlankInv, FlushVerdict = "part"
  PROVE  slots[BUFIDX(ab_read + FlushedPackets(flush_rtp_timestamp))].ready
<1> USE DEF BlankInv, OrderInv, BufferInv
<1> DEFINE f == flush_rtp_timestamp
           k == FlushedPackets(f)
           s == Plus(ab_read, k)
           w == Dist(ab_read, ab_write)
<1>1. /\ f \in Stamps /\ ab_synced /\ k \in 0 .. w - 1
      /\ SignedDiff(f, LastFrame(slots[BUFIDX(ab_read + k)])) <= 0
  BY FlushedIs DEF TypeInv
<1>2. f # 0 /\ f \in FlushPoints  BY DEF FlushVerdict
<1>3. ab_read \in Seqs /\ ab_write \in Seqs  BY DEF TypeInv, TypeOK
<1>4. w \in 0 .. SeqMod - 1 /\ Dist(ab_read, ab_read) = 0 /\ SeqMod \in Nat /\ ab_read \in Int
  BY <1>3, DistFrom, Sizes
<1> HIDE DEF f, k, w
<1>5. k \in 0 .. SeqMod - 1 /\ k < w /\ k \in Int  BY <1>1, <1>4
<1>6. s \in Seqs /\ Dist(ab_read, s) = k
  <2>1. s \in Seqs /\ Dist(ab_read, s) = IF 0 + k < SeqMod THEN 0 + k ELSE 0 + k - SeqMod
    BY <1>3, <1>4, <1>5, DistPlus
  <2> QED  BY <1>4, <1>5, <2>1
<1>7. BUFIDX(s) = BUFIDX(ab_read + k)  BY <1>4, <1>5, IndexOfPlus
<1>8. BUFIDX(s) \in 0 .. BufferFrames - 1  BY <1>6, IndexType, Sizes
<1> HIDE DEF s
<1>9. InBuffer(s)  BY <1>1, <1>5, <1>6 DEF InBuffer, w
<1> DEFINE slot == slots[BUFIDX(s)]
<1>10. slot \in SlotType /\ slot.len \in 0 .. PacketLength
  BY <1>8 DEF TypeInv, TypeOK, LengthsOK
<1>11. ~slot.ready => slot.ts = 0  BY <1>6, <1>9 DEF MissingIsBlank
<1>12. SignedDiff(f, LastFrame(slot)) \in Int
  <2>1. LastFrame(slot) \in Stamps
    <3>1. slot.ts + slot.len - 1 \in Int  BY <1>10, Sizes DEF SlotType, Stamps
    <3> QED  BY <3>1, StampType DEF LastFrame
  <2> QED  BY <1>1, <2>1, SignedDiffIs, Sizes DEF Stamps
<1>13. ~slot.ready => SignedDiff(f, LastFrame(slot)) > 0
  BY <1>2, <1>10, <1>11, BlankIsBefore
<1> QED  BY <1>1, <1>7, <1>12, <1>13 DEF k, f

\* What the slots hold for what is not there.
LEMMA StoredBlank ==
  ASSUME TypeInv, NEW place, NEW p \in Packets, NEW ok,
         NEW i \in 0 .. BufferFrames - 1
  PROVE  LET j    == BUFIDX(SeqOf(p))
             skip == {BUFIDX(s) : s \in place.gap}
             new  == Stored(place, p, ok)[i]
         IN  /\ \/ new = GoodSlot(SeqOf(p), TsOf(p))
                \/ new.ts = 0
                \/ ~(i = j /\ place.keep) /\ i \notin skip /\ new = slots[i]
             /\ new.len \in {slots[i].len, PacketLength}
<1> DEFINE j    == BUFIDX(SeqOf(p))
           skip == {BUFIDX(s) : s \in place.gap}
           old  == [k \in DOMAIN slots |->
                      IF k \in skip THEN MissingSlot(slots[k]) ELSE slots[k]]
<1>1. i \in DOMAIN slots /\ slots[i] \in SlotType
  BY DEF TypeInv, SlotsOK
<1>2. old[i] = IF i \in skip THEN MissingSlot(slots[i]) ELSE slots[i]
  BY <1>1
<1>3. /\ MissingSlot(slots[i]).ts = 0 /\ MissingSlot(slots[i]).len = slots[i].len
      /\ DOMAIN MissingSlot(slots[i]) = DOMAIN slots[i]
      /\ {"ts", "len"} \subseteq DOMAIN slots[i]
  BY <1>1 DEF SlotType, MissingSlot
<1>4. old[i].len = slots[i].len /\ {"ts", "len"} \subseteq DOMAIN old[i]
  <2> HIDE DEF old, skip
  <2> QED  BY <1>2, <1>3
<1>5. MissingSlot(old[i]).ts = 0 /\ MissingSlot(old[i]).len = old[i].len
  <2> HIDE DEF old
  <2> QED  BY <1>4 DEF MissingSlot
<1>6. Stored(place, p, ok) =
        IF place.keep
          THEN [old EXCEPT ![j] = IF ok THEN GoodSlot(SeqOf(p), TsOf(p)) ELSE MissingSlot(@)]
          ELSE old
  BY DEF Stored
<1>7. i \in DOMAIN old  BY <1>1
<1>8. GoodSlot(SeqOf(p), TsOf(p)).len = PacketLength  BY DEF GoodSlot
<1> HIDE DEF old, skip, j
<1> QED  BY <1>2, <1>3, <1>4, <1>5, <1>6, <1>7, <1>8 DEF skip, j

\* A packet put into the buffer leaves the missing ones blank.
LEMMA PutKeepsBlank ==
  ASSUME NeverLapped, BlankInv, NEW r \in Receivers, NEW p \in Packets, NEW ok,
         player_put_packet(r, p, ok), ab_synced => CanBePlaced(SeqOf(p))
  PROVE  LengthsOK' /\ MissingIsBlank'
<1> USE DEF BlankInv, OrderInv, BufferInv
<1> DEFINE s     == SeqOf(p)
           place == Placed(s)
           sl    == Stored(place, p, ok)
           x     == CheckStart(place.rd, place.wr)
<1>1. CASE ~connection_state_to_output
  <2>1. UNCHANGED input  BY <1>1, Zenon DEF player_put_packet
  <2> QED  BY <2>1 DEF input, LengthsOK, MissingIsBlank, InBuffer
<1>2. CASE connection_state_to_output
  <2>1. /\ ab_read' = place.rd /\ ab_write' = place.wr /\ ab_synced' = TRUE
        /\ CheckFrom(r, sl, x, place.wr, -1, FALSE)
    BY <1>2, Zenon DEF player_put_packet
  <2>2. SlotsOK(sl)
    <3>1. now \in 0 .. MaxTime  BY PlayerBufferAssumption DEF TypeInv, TypeOK
    <3> QED  BY <3>1, StoredOK DEF TypeInv
  <2>3. \A i \in 0 .. BufferFrames - 1 :
          /\ slots'[i].ready = sl[i].ready /\ slots'[i].ts = sl[i].ts
          /\ slots'[i].len = sl[i].len
    <3> HIDE DEF sl, x, place
    <3> QED  BY <2>1, <2>2, CheckChangesAsked
  <2>4. LengthsOK'
    <3> SUFFICES ASSUME NEW i \in 0 .. BufferFrames - 1  PROVE sl[i].len \in 0 .. PacketLength
      BY <2>3 DEF LengthsOK
    <3>1. sl[i].len \in {slots[i].len, PacketLength}  BY StoredBlank
    <3> HIDE DEF sl
    <3> QED  BY <3>1, PlayerBufferAssumption DEF LengthsOK
  <2>5. MissingIsBlank'
    <3> SUFFICES ASSUME NEW t \in Seqs, Dist(ab_read', t) < Dist(ab_read', ab_write'),
                        ~slots'[BUFIDX(t)].ready
                 PROVE  slots'[BUFIDX(t)].ts = 0
      BY DEF MissingIsBlank, InBuffer, BUFIDX, Dist
    <3> DEFINE i == BUFIDX(t)
    <3>1. i \in 0 .. BufferFrames - 1  BY IndexType, Sizes
    <3>2. ~sl[i].ready /\ slots'[i].ts = sl[i].ts  BY <2>3, <3>1
    <3>3. Dist(place.rd, t) < Dist(place.rd, place.wr)  BY <2>1
    <3>4. \/ t = s /\ place.keep
          \/ t \in place.gap
          \/ ab_synced /\ Dist(ab_read, t) < Dist(ab_read, ab_write)
      BY <3>3, StoredFacts
    <3>5. \/ sl[i] = GoodSlot(s, TsOf(p))
          \/ sl[i].ts = 0
          \/ ~(i = BUFIDX(s) /\ place.keep) /\ i \notin {BUFIDX(q) : q \in place.gap}
             /\ sl[i] = slots[i]
      BY <3>1, StoredBlank
    <3>6. sl[i] # GoodSlot(s, TsOf(p))  BY <3>2 DEF GoodSlot
    <3>7. InBuffer(t) /\ ~slots[i].ready => slots[i].ts = 0  BY DEF MissingIsBlank
    <3> HIDE DEF sl, place, s
    <3> QED  BY <3>2, <3>4, <3>5, <3>6, <3>7 DEF InBuffer
  <2> QED  BY <2>4, <2>5
<1> QED  BY <1>1, <1>2

\* Reading on leaves the missing packets blank, if nothing changes in what is left.
LEMMA ReadingOnKeepsBlank ==
  ASSUME NeverLapped, BlankInv, ab_synced, NEW k \in 0 .. Dist(ab_read, ab_write),
         ab_read' = Plus(ab_read, k), UNCHANGED <<ab_write, ab_synced>>,
         \A t \in Seqs : InBuffer(t) /\ Dist(ab_read, t) >= k =>
           \/ slots'[BUFIDX(t)].ready
           \/ slots'[BUFIDX(t)] = slots[BUFIDX(t)]
  PROVE  MissingIsBlank'
<1> USE DEF BlankInv, OrderInv, BufferInv
<1>1. \A t \in Seqs : InBuffer(t)' => InBuffer(t) /\ Dist(ab_read, t) >= k
  BY ReadingOn
<1> SUFFICES ASSUME NEW t \in Seqs, InBuffer(t)', ~slots'[BUFIDX(t)].ready
             PROVE  slots'[BUFIDX(t)].ts = 0
  BY DEF MissingIsBlank, BUFIDX
<1> QED  BY <1>1 DEF MissingIsBlank

\* A flush leaves them blank: it cuts no packet off that is not there.
LEMMA FlushKeepsBlank ==
  ASSUME NeverLapped, LowerHalf, BlankInv, HandleFlush
  PROVE  LengthsOK' /\ MissingIsBlank'
<1> USE DEF BlankInv, OrderInv, BufferInv
<1>0. /\ ab_read \in Seqs /\ ab_write \in Seqs /\ ab_write' = ab_write
      /\ slots \in [0 .. BufferFrames - 1 -> SlotType]
  BY DEF TypeInv, TypeOK, HandleFlush
<1>1. CASE FlushVerdict \in {"all", "all but keep"}
  <2>1. ab_resync  BY <1>1, Zenon DEF HandleFlush
  <2>2. /\ ab_synced' = FALSE
        /\ \A i \in 0 .. BufferFrames - 1 :
             slots'[i] = [slots[i] EXCEPT !.ready = FALSE, !.seq = 0, !.init = 0, !.asked = 0]
    BY <1>0, <2>1 DEF ab_resync
  <2>3. \A i \in 0 .. BufferFrames - 1 : slots'[i].len = slots[i].len
    <3> SUFFICES ASSUME NEW i \in 0 .. BufferFrames - 1  PROVE slots'[i].len = slots[i].len
      OBVIOUS
    <3> DEFINE e == slots[i]
    <3>1. e \in SlotType  BY <1>0, Zenon
    <3>2. slots'[i] = [e EXCEPT !.ready = FALSE, !.seq = 0, !.init = 0, !.asked = 0]
      BY <2>2, Zenon
    <3> HIDE DEF e
    <3>3. slots'[i].len = e.len  BY <3>1, <3>2 DEF SlotType
    <3> QED  BY <3>3 DEF e
  <2> QED  BY <2>2, <2>3 DEF LengthsOK, MissingIsBlank, InBuffer
<1>2. CASE FlushVerdict = "part"
  <2> DEFINE f == flush_rtp_timestamp
             k == FlushedPackets(f)
             i == BUFIDX(Plus(ab_read, k))
             w == Dist(ab_read, ab_write)
  <2>1. FlushPart(f)  BY <1>2, Zenon DEF HandleFlush
  <2>2. /\ f \in Stamps /\ ab_synced /\ k \in 0 .. w - 1
        /\ SignedDiff(f, LastFrame(slots[BUFIDX(ab_read + k)])) <= 0
    BY <1>2, FlushedIs DEF TypeInv
  <2>3. slots[BUFIDX(ab_read + k)].ready  BY <1>2, StopsAtAPacket
  <2> HIDE DEF f, k
  <2>4. /\ ab_read' = Plus(ab_read, k) /\ UNCHANGED ab_synced
        /\ slots' = [slots EXCEPT ![i] = Trimmed(slots[i], f)]
    BY <2>1 DEF FlushPart, k
  <2>5. k \in 0 .. w /\ k \in Int  BY <1>0, <2>2, DistFrom
  <2>6. i = BUFIDX(ab_read + k) /\ i \in 0 .. BufferFrames - 1
    <3>1. ab_read \in Int  BY <1>0, Sizes
    <3>2. Plus(ab_read, k) \in Seqs  BY <3>1, <2>5, PlusType
    <3> QED  BY <3>1, <3>2, <2>5, IndexOfPlus, IndexType, Sizes
  <2> HIDE DEF i
  <2>7. Trimmed(slots[i], f).ready /\ Trimmed(slots[i], f).len \in 1 .. PacketLength
    <3>1. slots[i] \in SlotType /\ (slots[i].ready => slots[i].len \in 1 .. PacketLength)
      BY <2>6 DEF TypeInv, SlotsOK
    <3> QED  BY <2>2, <2>3, <2>6, <3>1, TrimmedOK
  <2>8. /\ slots'[i] = Trimmed(slots[i], f)
        /\ \A j \in 0 .. BufferFrames - 1 : j # i => slots'[j] = slots[j]
    BY <1>0, <2>4, <2>6
  <2>9. LengthsOK'
    <3> SUFFICES ASSUME NEW j \in 0 .. BufferFrames - 1  PROVE slots'[j].len \in 0 .. PacketLength
      BY DEF LengthsOK
    <3>1. CASE j = i  BY <2>7, <2>8, <3>1
    <3>2. CASE j # i  BY <2>8, <3>2 DEF LengthsOK
    <3> QED  BY <3>1, <3>2
  <2>10. \A t \in Seqs : slots'[BUFIDX(t)].ready \/ slots'[BUFIDX(t)] = slots[BUFIDX(t)]
    <3> SUFFICES ASSUME NEW t \in Seqs
                 PROVE  slots'[BUFIDX(t)].ready \/ slots'[BUFIDX(t)] = slots[BUFIDX(t)]
      OBVIOUS
    <3>1. BUFIDX(t) \in 0 .. BufferFrames - 1  BY IndexType, Sizes
    <3> QED  BY <2>7, <2>8, <3>1
  <2>11. MissingIsBlank'
    BY <1>0, <2>2, <2>4, <2>5, <2>10, ReadingOnKeepsBlank
  <2> QED  BY <2>9, <2>11
<1>3. CASE FlushVerdict \notin {"all", "all but keep", "part"}
  <2>1. UNCHANGED <<slots, ab_read, ab_synced>>
    BY <1>3, Zenon DEF HandleFlush
  <2> QED  BY <1>0, <2>1 DEF LengthsOK, MissingIsBlank, InBuffer
<1> QED  BY <1>1, <1>2, <1>3

\* buffer_get_frame leaves them blank: the packet it releases is in the buffer no more.
LEMMA GetFrameKeepsBlank ==
  ASSUME NeverLapped, BlankInv, TypeInv', GetFrame
  PROVE  LengthsOK' /\ MissingIsBlank'
<1> USE DEF BlankInv, OrderInv, BufferInv
<1>0. /\ ab_read \in Seqs /\ ab_write \in Seqs /\ UNCHANGED <<ab_write, ab_synced>>
      /\ slots \in [0 .. BufferFrames - 1 -> SlotType]
  BY DEF TypeInv, TypeOK, GetFrame
<1>1. LengthsOK'
  <2>1. UNCHANGED slots \/ \E rd : Release(rd)  BY Zenon DEF GetFrame
  <2>2. ASSUME NEW rd, Release(rd), NEW i \in 0 .. BufferFrames - 1
        PROVE  slots'[i].len = slots[i].len
    <3> DEFINE j == BUFIDX(rd)
               t == IF slots[j].ready THEN slots[j].ts ELSE 0
    <3>1. slots' = [slots EXCEPT ![j].ready = FALSE, ![j].ts = t]  BY <2>2 DEF Release
    <3> HIDE DEF j, t
    <3>2. slots'[i] = IF i = j THEN [slots[i] EXCEPT !.ready = FALSE, !.ts = t] ELSE slots[i]
      BY <1>0, <3>1
    <3> QED  BY <1>0, <3>2 DEF SlotType
  <2> QED  BY <2>1, <2>2 DEF LengthsOK
<1> DEFINE w == Dist(ab_read, ab_write)
<1>2. w \in 0 .. SeqMod - 1 /\ SeqMod \in Nat /\ Dist(ab_read, ab_read) = 0
  BY <1>0, DistFrom, Sizes
<1>3. CASE UNCHANGED <<slots, ab_read>>
  BY <1>0, <1>1, <1>3 DEF MissingIsBlank, InBuffer
<1>4. CASE /\ UNCHANGED slots /\ ab_synced
           /\ \E k \in 0 .. w : ab_read' = Plus(ab_read, k)
  <2>1. PICK k \in 0 .. w : ab_read' = Plus(ab_read, k)  BY <1>4
  <2>2. MissingIsBlank'
    BY <1>0, <1>4, <2>1, ReadingOnKeepsBlank
  <2> QED  BY <1>1, <2>2
<1>5. CASE /\ ab_synced
           /\ \E k \in 0 .. w - 1 :
                /\ ab_read' = Plus(ab_read, k + 1) /\ Plus(ab_read', -1) = Plus(ab_read, k)
                /\ playing' = BUFIDX(Plus(ab_read, k))
           /\ \A j \in 0 .. BufferFrames - 1 :
                /\ slots'[j].seq = slots[j].seq /\ (slots'[j].ready => slots[j].ready)
                /\ j # playing' => slots'[j] = slots[j]
  <2>1. PICK k \in 0 .. w - 1 : /\ ab_read' = Plus(ab_read, k + 1)
                                /\ playing' = BUFIDX(Plus(ab_read, k))
    BY <1>5
  <2> DEFINE s == Plus(ab_read, k)
  <2>2. k \in 0 .. SeqMod - 1 /\ k < w /\ k + 1 \in 0 .. w /\ k \in Int
    <3> HIDE DEF w
    <3> QED  BY <1>2
  <2>3. s \in Seqs /\ Dist(ab_read, s) = k
    <3>1. s \in Seqs /\ Dist(ab_read, s) = IF 0 + k < SeqMod THEN 0 + k ELSE 0 + k - SeqMod
      BY <1>0, <1>2, <2>2, DistPlus
    <3> QED  BY <1>2, <2>2, <3>1
  <2> HIDE DEF s
  <2>4. ASSUME NEW t \in Seqs, InBuffer(t), Dist(ab_read, t) >= k + 1
        PROVE  slots'[BUFIDX(t)] = slots[BUFIDX(t)]
    <3>1. BUFIDX(t) \in 0 .. BufferFrames - 1  BY IndexType, Sizes
    <3>2. w \in Nat /\ w <= BufferFrames
      <4>1. w <= MaxAhead + 1  BY <1>5 DEF BufferIsBounded
      <4> HIDE DEF w
      <4> QED  BY <1>2, <4>1, PlayerBufferAssumption DEF NeverLapped
    <3>3. Dist(ab_read, t) < w /\ Dist(ab_read, s) < w
      BY <2>2, <2>3, <2>4 DEF InBuffer
    <3>4. s # t  BY <2>2, <2>3, <2>4
    <3> HIDE DEF w
    <3>5. BUFIDX(t) # BUFIDX(s)  BY <1>0, <2>3, <3>2, <3>3, <3>4, NoSharing
    <3> QED  BY <1>5, <2>1, <3>1, <3>5 DEF s
  <2>5. MissingIsBlank'
    BY <1>0, <1>5, <2>1, <2>2, <2>4, ReadingOnKeepsBlank
  <2> QED  BY <1>1, <2>5
<1>6. \/ UNCHANGED <<slots, ab_read>>
      \/ /\ UNCHANGED slots /\ ab_synced
         /\ \E k \in 0 .. w : ab_read' = Plus(ab_read, k)
      \/ /\ ab_synced
         /\ \E k \in 0 .. w - 1 :
              /\ ab_read' = Plus(ab_read, k + 1) /\ Plus(ab_read', -1) = Plus(ab_read, k)
              /\ playing' = BUFIDX(Plus(ab_read, k))
         /\ \A j \in 0 .. BufferFrames - 1 :
              /\ slots'[j].seq = slots[j].seq /\ (slots'[j].ready => slots[j].ready)
              /\ j # playing' => slots'[j] = slots[j]
  BY GetFrameReads, Zenon
<1> QED  BY <1>1, <1>3, <1>4, <1>5, <1>6

LEMMA BlankInit == Init => BlankInv
<1> SUFFICES ASSUME Init  PROVE BlankInv
  OBVIOUS
<1>1. LengthsOK  BY PlayerBufferAssumption DEF Init, LengthsOK, BlankSlot
<1> QED  BY <1>1, OrderInit DEF BlankInv, Init, MissingIsBlank, InBuffer

LEMMA BlankStep ==
  NeverLapped /\ MaxAhead + 1 < BufferFrames /\ OneRound /\ LowerHalf /\ BlankInv /\ [Next]_vars
    => BlankInv'
<1> SUFFICES ASSUME NeverLapped, MaxAhead + 1 < BufferFrames, OneRound, LowerHalf, BlankInv,
                    [Next]_vars
             PROVE  BlankInv'
  OBVIOUS
<1>0. OrderInv /\ OrderInv'  BY OrderStep DEF BlankInv
<1>a. BufferInv /\ TypeInv /\ TypeInv' /\ LengthsOK /\ MissingIsBlank
  BY <1>0 DEF OrderInv, BufferInv, BlankInv
<1>b. rx \in [Receivers -> ReceiverState] /\ ab_read \in Seqs /\ ab_write \in Seqs
  BY <1>a DEF TypeInv, TypeOK, ReceiverState
<1> SUFFICES LengthsOK' /\ MissingIsBlank'  BY <1>0 DEF BlankInv
\* Steps that leave the buffer alone.
<1>c. ASSUME UNCHANGED <<slots, ab_read, ab_write, ab_synced>>
      PROVE  LengthsOK' /\ MissingIsBlank'
  BY <1>a, <1>c DEF LengthsOK, MissingIsBlank, InBuffer
<1>1. ASSUME NEW r \in Receivers, NEW ok, PutFirst(r, ok)
      PROVE  LengthsOK' /\ MissingIsBlank'
  <2> DEFINE p == rx[r].packet
  <2>1. p \in Packets /\ player_put_packet(r, p, ok) /\ rx[r].at = "put"
    BY <1>1, <1>b DEF PutFirst, ReceiverState
  <2>2. SeqOf(p) \in Seqs  BY <2>1, SeqOfType DEF Packets
  <2>3. ab_synced => CanBePlaced(SeqOf(p))
    <3>1. Dist(SeqOf(p), ab_read) \in Int /\ Dist(ab_read, ab_write) \in Int
      BY <1>b, <2>2, DistIs, Sizes DEF Seqs
    <3>2. MaxAhead \in Nat /\ MaxLate \in Nat  BY PlayerBufferAssumption
    <3> QED  BY <1>a, <2>1, <3>1, <3>2 DEF BufferInv, PutsAreNear, CanStillCome, CanBePlaced
  <2> HIDE DEF p
  <2> QED  BY <2>1, <2>3, PutKeepsBlank
<1>2. ASSUME NEW r \in Receivers, NEW p \in Packets, NEW ok, Put(r, p, ok)
      PROVE  LengthsOK' /\ MissingIsBlank'
  <2>1. /\ ab_synced => \/ Dist(ab_read, SeqOf(p)) <= MaxAhead
                        \/ Dist(SeqOf(p), ab_read) <= MaxLate
        /\ player_put_packet(r, p, ok)
    BY <1>2, Zenon DEF Put, Arriving
  <2>2. SeqOf(p) \in Seqs  BY SeqOfType DEF Packets
  <2>3. ab_synced => CanBePlaced(SeqOf(p))
    <3>1. Dist(SeqOf(p), ab_read) \in Int /\ Dist(ab_read, ab_write) \in Int
      BY <1>b, <2>2, DistIs, Sizes DEF Seqs
    <3>2. MaxAhead \in Nat /\ MaxLate \in Nat  BY PlayerBufferAssumption
    <3> QED  BY <1>a, <2>1, <3>1, <3>2 DEF BufferInv, BufferIsBounded, CanBePlaced
  <2> QED  BY <2>1, <2>3, PutKeepsBlank
<1>3. ASSUME NEW r \in Receivers, ResumeCheck(r)
      PROVE  LengthsOK' /\ MissingIsBlank'
  <2>1. /\ CheckFrom(r, slots, rx[r].x, ab_write, first_possibly_missing_frame, rx[r].absent)
        /\ UNCHANGED <<ab_read, ab_write, ab_synced>>
    BY <1>3 DEF ResumeCheck
  <2>2. \A i \in 0 .. BufferFrames - 1 :
          /\ slots'[i].ready = slots[i].ready /\ slots'[i].ts = slots[i].ts
          /\ slots'[i].len = slots[i].len
    BY <1>a, <2>1, CheckChangesAsked DEF TypeInv
  <2>3. \A t \in Seqs : BUFIDX(t) \in 0 .. BufferFrames - 1  BY IndexType, Sizes
  <2> QED  BY <1>a, <2>1, <2>2, <2>3 DEF LengthsOK, MissingIsBlank, InBuffer
<1>4. CASE player_thread_start
  <2>1. ab_synced' = FALSE  BY <1>4 DEF player_thread_start
  <2>2. \A i \in 0 .. BufferFrames - 1 : slots'[i] = BlankSlot
    BY <1>a, <1>4 DEF player_thread_start, TypeInv, TypeOK
  <2>3. LengthsOK'  BY <2>2, PlayerBufferAssumption DEF LengthsOK, BlankSlot
  <2> QED  BY <2>1, <2>3 DEF MissingIsBlank, InBuffer
<1>5. CASE HandleFlush
  BY <1>5, FlushKeepsBlank
<1>6. CASE GetFrame
  BY <1>a, <1>6, GetFrameKeepsBlank
<1>7. CASE \/ \E r \in Receivers, p \in Packets : ClearEarlyFlush(r, p)
           \/ \E f \in FlushPoints : do_flush(f)
           \/ LoopTop \/ NoFlush \/ PlayFrame \/ TimingArrives
           \/ set_requested_connection_state_to_output \/ Tick \/ UNCHANGED vars
  <2>1. UNCHANGED <<slots, ab_read, ab_write, ab_synced>>
    BY <1>7 DEF ClearEarlyFlush, do_flush, LoopTop, NoFlush, PlayFrame, TimingArrives,
                set_requested_connection_state_to_output, Tick, vars, input
  <2> QED  BY <1>c, <2>1
<1> QED
  BY <1>1, <1>2, <1>3, <1>4, <1>5, <1>6, <1>7 DEF Next, Receiver, buffer_get_frame

LEMMA BlankInvariance ==
  NeverLapped /\ MaxAhead + 1 < BufferFrames /\ OneRound /\ LowerHalf => (Spec => []BlankInv)
<1> SUFFICES ASSUME NeverLapped, MaxAhead + 1 < BufferFrames, OneRound, LowerHalf
             PROVE  Spec => []BlankInv
  OBVIOUS
<1>1. BlankInv /\ [Next]_vars => BlankInv'  BY BlankStep
<1> QED  BY BlankInit, <1>1, PTL DEF Spec

\* From a packet whose last frame is not before f on, none is wholly before f.
LEMMA NoneBefore ==
  ASSUME OneRound, NEW f \in FlushPoints, f # 0, NEW first \in SlotType, NEW slot \in SlotType,
         first.ready, slot.ready, HoldsOwnFrames(first), HoldsOwnFrames(slot),
         PacketOf(first.seq) <= PacketOf(slot.seq),
         SignedDiff(f, LastFrame(first)) <= 0
  PROVE  SignedDiff(LastFrame(slot), f) >= 0
<1> DEFINE m == PacketOf(first.seq)
           n == PacketOf(slot.seq)
<1>1. /\ m \in 0 .. NumPackets - 1 /\ LastFrame(first) = StampAt(Begin(m) + PacketLength - 1)
      /\ Begin(m) + PacketLength - 1 \in Frames
  BY FramesOfSlot
<1>2. /\ n \in 0 .. NumPackets - 1 /\ LastFrame(slot) = StampAt(Begin(n) + PacketLength - 1)
      /\ Begin(n) + PacketLength - 1 \in Frames
  BY FramesOfSlot
<1>3. m <= n  OBVIOUS
<1> HIDE DEF m, n
<1>4. PICK g \in Frames : f = StampAt(g)  BY FlushPointIs
<1>5. /\ SignedDiff(f, LastFrame(first)) = g - (Begin(m) + PacketLength - 1)
      /\ SignedDiff(LastFrame(slot), f) = (Begin(n) + PacketLength - 1) - g /\ g \in Int
  <2> DEFINE a == Begin(m) + PacketLength - 1
             b == Begin(n) + PacketLength - 1
  <2>1. a \in Frames /\ b \in Frames /\ LastFrame(first) = StampAt(a)
        /\ LastFrame(slot) = StampAt(b)
    BY <1>1, <1>2
  <2> HIDE DEF a, b
  <2>2. SignedDiff(StampAt(g), StampAt(a)) = g - a /\ g \in Int  BY <2>1, FramesApart
  <2>3. SignedDiff(StampAt(b), StampAt(g)) = b - g  BY <2>1, FramesApart
  <2>4. SignedDiff(f, LastFrame(first)) = g - a /\ SignedDiff(LastFrame(slot), f) = b - g
        /\ g \in Int
    BY <1>4, <2>1, <2>2, <2>3, Zenon
  <2> QED  BY <2>4 DEF a, b
<1>6. m \in Int /\ n \in Int /\ PacketLength \in Int  BY <1>1, <1>2, PlayerBufferAssumption
<1>7. Begin(m) \in Int /\ Begin(n) \in Int /\ Begin(m) <= Begin(n)  BY <1>3, <1>6, BeginsInTurn
<1> QED  BY <1>5, <1>6, <1>7

\* The packets of the buffer come after the first of them.
LEMMA LaterInBuffer ==
  ASSUME OneRound, NEW rd \in Seqs, NEW wr \in Seqs, NEW k \in 0 .. Dist(rd, wr) - 1,
         PacketOf(rd) + Dist(rd, wr) <= NumPackets
  PROVE  /\ Plus(rd, k) \in Seqs /\ Dist(rd, Plus(rd, k)) = k /\ 0 < Dist(rd, wr)
         /\ k < Dist(rd, wr) /\ Dist(rd, rd) = 0 /\ PacketOf(rd) <= PacketOf(Plus(rd, k))
<1> DEFINE w == Dist(rd, wr)
           a == PacketOf(rd)
<1>1. w \in 0 .. SeqMod - 1 /\ Dist(rd, rd) = 0 /\ SeqMod \in Nat  BY DistFrom, Sizes
<1>2. a \in 0 .. SeqMod - 1  BY PacketsInTurn
<1>3. a + w <= NumPackets /\ NumPackets + MaxAhead < SeqMod /\ MaxAhead \in Nat
      /\ NumPackets \in Nat
  BY PlayerBufferAssumption DEF OneRound
<1>4. k \in 0 .. w - 1  OBVIOUS
<1> HIDE DEF w
<1>5. k \in 0 .. SeqMod - 1 /\ k < w /\ 0 < w /\ k \in Int  BY <1>1, <1>4
<1>6. Plus(rd, k) \in Seqs
      /\ Dist(rd, Plus(rd, k)) = IF 0 + k < SeqMod THEN 0 + k ELSE 0 + k - SeqMod
  BY <1>1, <1>5, DistPlus
<1>7. a + k < SeqMod
  <2> HIDE DEF a
  <2> QED  BY <1>1, <1>2, <1>3, <1>5
<1>8. PacketOf(Plus(rd, k)) = a + k  BY <1>5, <1>7, PacketsInTurn
<1> HIDE DEF a
<1>9. a <= PacketOf(Plus(rd, k))  BY <1>2, <1>5, <1>8
<1> QED  BY <1>1, <1>5, <1>6, <1>9 DEF a, w

\* Once the buffer is not taken for empty, a request to flush up to a certain frame is
\* over only when no packet wholly before that frame is left (buffer_get_frame's handling
\* of flush_requested).
THEOREM FlushesComplete ==
  NeverLapped /\ MaxAhead + 1 < BufferFrames /\ OneRound /\ LowerHalf
    => (Spec => FlushCompleteUnlessWrapped)
<1> SUFFICES ASSUME NeverLapped, MaxAhead + 1 < BufferFrames, OneRound, LowerHalf
             PROVE  Spec => FlushCompleteUnlessWrapped
  OBVIOUS
<1>1. BlankInv /\ BlankInv' /\ [Next]_vars =>
        [(FlushEnds /\ ab_read <= ab_write) => ~LeftBefore(flush_rtp_timestamp)]_vars
  <2> SUFFICES ASSUME BlankInv, BlankInv', Next, FlushEnds, ab_read <= ab_write
               PROVE  ~LeftBefore(flush_rtp_timestamp)
    OBVIOUS
  <2> DEFINE f == flush_rtp_timestamp
             w == Dist(ab_read, ab_write)
  <2>0. /\ OrderInv /\ OrderInv' /\ BufferInv /\ BufferInv' /\ TypeInv /\ TypeInv'
        /\ ab_read \in Seqs /\ ab_write \in Seqs /\ ab_read' \in Seqs /\ ab_write' \in Seqs
    BY DEF BlankInv, OrderInv, BufferInv, TypeInv, TypeOK
  <2>1. f \in FlushPoints /\ f # 0 /\ f \in Stamps
    BY <2>0 DEF OrderInv, TypeInv, TypeOK, FlushEnds
  <2>2. HandleFlush
    <3>1. pc = "flush" /\ pc' = "frame" /\ flush_requested  BY DEF FlushEnds
    <3> QED
      BY <3>1, Zenon
      DEF Next, Receiver, ClearEarlyFlush, PutFirst, Put, player_put_packet, ResumeCheck,
          do_flush, player_thread_start, buffer_get_frame, LoopTop, NoFlush, GetFrame,
          PlayFrame, TimingArrives, set_requested_connection_state_to_output, Tick, player,
          ABMutexFree
  <2>3. FlushVerdict \in {"all", "part", "expired", "forget"}
    BY <2>2 DEF HandleFlush, FlushEnds
  <2> SUFFICES ASSUME NEW s \in Window', slots'[BUFIDX(s)].ready
               PROVE  ~(SignedDiff(LastFrame(slots'[BUFIDX(s)]), f) < 0)
    BY DEF LeftBefore, SignedDiff, LastFrame, BUFIDX
  <2>4. ab_synced' /\ \E k \in 0 .. Dist(ab_read', ab_write') - 1 : s = Plus(ab_read', k)
    BY Zenon DEF Window, Dist, Plus
  <2> DEFINE rd == ab_read'
             wr == ab_write'
             slot == slots'[BUFIDX(s)]
             head == slots'[BUFIDX(rd)]
  <2>5. PICK k \in 0 .. Dist(rd, wr) - 1 : s = Plus(rd, k)  BY <2>4
  <2>6. PacketOf(rd) + Dist(rd, wr) <= NumPackets
    BY <2>0, <2>4 DEF OrderInv, WithinStream, PacketOf, Dist
  <2>7. /\ s \in Seqs /\ Dist(rd, s) = k /\ 0 < Dist(rd, wr) /\ k < Dist(rd, wr)
        /\ Dist(rd, rd) = 0 /\ PacketOf(rd) <= PacketOf(s)
    BY <2>0, <2>5, <2>6, LaterInBuffer
  <2>8. \A t \in Seqs : Dist(rd, t) < Dist(rd, wr) /\ slots'[BUFIDX(t)].ready
                           => slots'[BUFIDX(t)].seq = t
    BY <2>0, <2>4 DEF BufferInv, HoldsItsOwn, InBuffer, BUFIDX, Dist
  <2>9. slot.seq = s /\ (head.ready => head.seq = rd)
    BY <2>0, <2>7, <2>8
  <2>10. /\ BUFIDX(s) \in 0 .. BufferFrames - 1 /\ BUFIDX(rd) \in 0 .. BufferFrames - 1
         /\ slots \in [0 .. BufferFrames - 1 -> SlotType]
         /\ slots' \in [0 .. BufferFrames - 1 -> SlotType]
    <3>1. s \in Int /\ rd \in Int  BY <2>0, <2>7, Sizes
    <3>2. slots' \in [0 .. BufferFrames - 1 -> SlotType]
      BY <2>0 DEF TypeInv, TypeOK, SlotType, Seqs, Stamps
    <3> QED  BY <2>0, <3>1, <3>2, IndexType DEF TypeInv, TypeOK
  <2>11. /\ slot \in SlotType /\ HoldsOwnFrames(slot)
         /\ \A i \in 0 .. BufferFrames - 1 : slots[i] \in SlotType /\ HoldsOwnFrames(slots[i])
    <3>1. \A i \in 0 .. BufferFrames - 1 : HoldsOwnFrames(slots'[i])
      BY <2>0 DEF OrderInv, HoldsOwnFrames, PacketOf, Dist, Begin, StampAt
    <3> QED  BY <2>0, <2>10, <3>1 DEF OrderInv
  <2> SUFFICES ASSUME TRUE
               PROVE  \E first \in SlotType :
                        /\ first.ready /\ HoldsOwnFrames(first) /\ first.seq = rd
                        /\ SignedDiff(f, LastFrame(first)) <= 0
    <3>1. PICK first \in SlotType : /\ first.ready /\ HoldsOwnFrames(first) /\ first.seq = rd
                                    /\ SignedDiff(f, LastFrame(first)) <= 0
      OBVIOUS
    <3>2. PacketOf(first.seq) <= PacketOf(slot.seq) /\ slot.ready  BY <2>7, <2>9, <3>1
    <3> HIDE DEF f, rd, slot
    <3>3. SignedDiff(LastFrame(slot), f) >= 0  BY <2>1, <2>11, <3>1, <3>2, NoneBefore
    <3>4. SignedDiff(LastFrame(slot), f) \in Int
      <4>1. LastFrame(slot) \in Stamps
        <5>1. slot.ts + slot.len - 1 \in Int  BY <2>11, Sizes DEF SlotType, Stamps
        <5> QED  BY <5>1, StampType DEF LastFrame
      <4> QED  BY <2>1, <4>1, SignedDiffIs, Sizes DEF Stamps
    <3>5. ~(SignedDiff(LastFrame(slot), f) < 0)  BY <3>3, <3>4
    <3> QED  BY <3>5 DEF f, slot
  <2>12. CASE FlushVerdict = "all"
    <3>1. ab_resync  BY <2>2, <2>12, Zenon DEF HandleFlush
    <3> QED  BY <2>4, <3>1 DEF ab_resync
  <2>13. CASE FlushVerdict = "forget"
    <3>1. UNCHANGED <<ab_read, ab_write, ab_synced>>
      BY <2>2, <2>13 DEF HandleFlush
    <3>2. ~BufferNotEmpty
      BY <2>1, <2>13 DEF FlushVerdict
    <3>3. ab_write - ab_read <= 0
      BY <2>0, <2>4, <3>1, <3>2, Sizes DEF BufferNotEmpty
    <3>4. ab_read = ab_write  BY <2>0, <3>3, Sizes
    <3> QED  BY <2>7, <3>1, <3>4
  <2>14. CASE FlushVerdict = "expired"
    <3>1. UNCHANGED <<slots, ab_read>>
      BY <2>2, <2>14 DEF HandleFlush
    <3>2. First.ready /\ SignedDiff(f, First.ts) <= 0
      BY <2>14 DEF FlushVerdict
    <3>3. First = head  BY <3>1 DEF First, BUFIDX
    <3>4. First \in SlotType /\ HoldsOwnFrames(First)  BY <2>10, <2>11, <3>1 DEF First
    <3> DEFINE n == PacketOf(First.seq)
    <3>5. /\ n \in 0 .. NumPackets - 1
          /\ LastFrame(First) = StampAt(Begin(n) + PacketLength - 1)
          /\ Begin(n) + PacketLength - 1 \in Frames
      BY <3>2, <3>4, FramesOfSlot
    <3>6. PICK o \in 0 .. PacketLength - 1 :
            First.ts = StampAt(Begin(n) + o) /\ Begin(n) + o \in Frames
      BY <3>2, <3>4, FramesOfSlot
    <3>7. PICK g \in Frames : f = StampAt(g)  BY <2>1, FlushPointIs
    <3> HIDE DEF n
    <3>8. SignedDiff(StampAt(g), StampAt(Begin(n) + o)) = g - (Begin(n) + o)
      BY <3>6, FramesApart
    <3>9. /\ SignedDiff(StampAt(g), StampAt(Begin(n) + PacketLength - 1))
              = g - (Begin(n) + PacketLength - 1)
          /\ g \in Int
      BY <3>5, FramesApart
    <3>10. n \in Int /\ PacketLength \in Int  BY <3>5, PlayerBufferAssumption
    <3>11. Begin(n) \in Int  BY <3>10, BeginsInTurn
    <3>12. g - (Begin(n) + o) <= 0  BY <3>2, <3>6, <3>7, <3>8
    <3>13. g - (Begin(n) + PacketLength - 1) <= 0  BY <3>9, <3>10, <3>11, <3>12
    <3>14. SignedDiff(f, LastFrame(First)) <= 0  BY <3>5, <3>7, <3>9, <3>13
    <3> QED  BY <2>9, <3>2, <3>3, <3>4, <3>14
  <2>15. CASE FlushVerdict = "part"
    <3> DEFINE m == FlushedPackets(f)
               i == BUFIDX(rd)
               first == slots[i]
    <3>1. FlushPart(f)  BY <2>2, <2>15, Zenon DEF HandleFlush
    <3>2. /\ m \in 0 .. Dist(ab_read, ab_write) - 1
          /\ SignedDiff(f, LastFrame(slots[BUFIDX(ab_read + m)])) <= 0
      BY <2>0, <2>15, FlushedIs DEF TypeInv
    <3>3. slots[BUFIDX(ab_read + m)].ready  BY <2>15, StopsAtAPacket
    <3>4. rd = Plus(ab_read, m) /\ slots' = [slots EXCEPT ![i] = Trimmed(slots[i], f)]
      BY <3>1 DEF FlushPart
    <3> HIDE DEF m
    <3>5. BUFIDX(rd) = BUFIDX(ab_read + m)
      <4>1. ab_read \in Int /\ m \in Int  BY <2>0, <3>2, DistFrom, Sizes
      <4> QED  BY <3>4, <4>1, IndexOfPlus
    <3>6. first.ready /\ SignedDiff(f, LastFrame(first)) <= 0  BY <3>2, <3>3, <3>5
    <3>7. first \in SlotType /\ HoldsOwnFrames(first)
          /\ (first.ready => first.len \in 1 .. PacketLength)
      BY <2>0, <2>10, <2>11 DEF TypeInv, SlotsOK
    <3>8. Trimmed(first, f).ready = first.ready /\ Trimmed(first, f).seq = first.seq
      BY <2>1, <3>6, <3>7, TrimmedOK
    <3>9. head = Trimmed(first, f)  BY <2>10, <3>4
    <3>10. first.seq = rd  BY <2>9, <3>6, <3>8, <3>9
    <3> QED  BY <3>6, <3>7, <3>10
  <2> QED  BY <2>3, <2>12, <2>13, <2>14, <2>15
<1> QED  BY BlankInvariance, <1>1, PTL DEF Spec, FlushCompleteUnlessWrapped
-----------------------------------------------------------------------------
(* What the frames of one request have in common.                             *)

\* Step n + 1 after step n steps.
LEMMA PlusPlus ==
  ASSUME NEW x \in Seqs, NEW j \in Nat, NEW k \in Nat, j + k < SeqMod
  PROVE  /\ Plus(x, j) \in Seqs /\ Dist(x, Plus(x, j)) = j
         /\ Plus(Plus(x, j), k) = Plus(x, j + k)
<1>1. /\ SeqMod \in Nat /\ Dist(x, x) = 0 /\ j \in 0 .. SeqMod - 1 /\ k \in 0 .. SeqMod - 1
      /\ j + k \in 0 .. SeqMod - 1
  BY DistFrom, Sizes
<1> DEFINE y == Plus(x, j)
           m == j + k
<1>2. y \in Seqs /\ Dist(x, y) = IF 0 + j < SeqMod THEN 0 + j ELSE 0 + j - SeqMod
  BY <1>1, DistPlus
<1>3. Dist(x, y) = j  BY <1>1, <1>2
<1> HIDE DEF y
<1>4. Plus(y, k) \in Seqs /\ Dist(x, Plus(y, k)) = IF j + k < SeqMod THEN j + k ELSE j + k - SeqMod
  BY <1>1, <1>2, <1>3, DistPlus
<1>5. m \in 0 .. SeqMod - 1  BY <1>1
<1> HIDE DEF m
<1>6. Plus(x, m) \in Seqs /\ Dist(x, Plus(x, m)) = IF 0 + m < SeqMod THEN 0 + m ELSE 0 + m - SeqMod
  BY <1>1, <1>5, DistPlus
<1>7. Dist(x, Plus(x, m)) = m  BY <1>1, <1>5, <1>6
<1>8. Dist(x, Plus(y, k)) = m  BY <1>4 DEF m
<1>9. Plus(y, k) = Plus(x, m)  BY <1>4, <1>6, <1>7, <1>8, DistFrom
<1> QED  BY <1>2, <1>3, <1>9 DEF y, m

\* The sequence number k steps from x on is that of the slot the check looks at in step k.
LEMMA StepOf ==
  ASSUME NEW x \in Seqs, NEW s \in Seqs
  PROVE  /\ Plus(x, Dist(x, s)) = s /\ BUFIDX(x + Dist(x, s)) = BUFIDX(s)
         /\ Dist(x, s) \in 0 .. SeqMod - 1
<1> DEFINE k == Dist(x, s)
<1>1. k \in 0 .. SeqMod - 1 /\ SeqMod \in Nat /\ x \in Int  BY DistFrom, Sizes
<1> HIDE DEF k
<1>2. k \in Nat /\ 0 \in Nat /\ k + 0 < SeqMod  BY <1>1
<1>3. Plus(x, k) \in Seqs /\ Dist(x, Plus(x, k)) = k  BY <1>2, PlusPlus
<1>4. Plus(x, k) = s  BY <1>3, DistFrom DEF k
<1>5. BUFIDX(Plus(x, k)) = BUFIDX(x + k)  BY <1>1, IndexOfPlus
<1> QED  BY <1>1, <1>4, <1>5 DEF k

\* Two neighbours of which neither is there were noticed to be missing, and
\* last asked for, at the same time.
AlikeIn(sl, rd, n) ==
  \A s \in Seqs :
    Dist(rd, s) + 1 < n /\ ~sl[BUFIDX(s)].ready /\ ~sl[BUFIDX(Plus(s, 1))].ready =>
      /\ sl[BUFIDX(s)].init = sl[BUFIDX(Plus(s, 1))].init
      /\ sl[BUFIDX(s)].asked = sl[BUFIDX(Plus(s, 1))].asked

\* The same, counted in steps of a check from x.
AlikeFrom(sl, x, n) ==
  \A k \in 0 .. n - 2 :
    ~sl[BUFIDX(x + k)].ready /\ ~sl[BUFIDX(x + (k + 1))].ready =>
      /\ sl[BUFIDX(x + k)].init = sl[BUFIDX(x + (k + 1))].init
      /\ sl[BUFIDX(x + k)].asked = sl[BUFIDX(x + (k + 1))].asked

\* A check that stops to ask marks the steps from the first worth asking for up to the
\* end of its run, without a hole.
LEMMA ScanRun ==
  ASSUME NEW sl, NEW x \in Seqs, NEW wr \in Seqs, Dist(x, wr) <= BufferFrames,
         AlikeFrom(sl, x, Dist(x, wr)), Scan(sl, x, wr).send
  PROVE  \E f, l \in 0 .. Dist(x, wr) - 1 :
           /\ f <= l /\ Scan(sl, x, wr).start = Plus(x, f)
           /\ Scan(sl, x, wr).marked = {Plus(x, k) : k \in f .. l}
<1> DEFINE n      == Dist(x, wr)
           Steps  == 0 .. n - 1
           At(k)  == sl[BUFIDX(x + k)]
           Asked  == {k \in Steps : k < BufferFrames /\ Worth(At(k))}
           Stops  == {k \in Steps : EndOfRun(k, Asked, At(k), n)}
           last   == IF Stops = {} THEN n - 1 ELSE Least(Stops)
           scan   == Scan(sl, x, wr)
<1>1. x \in Int /\ n \in Nat /\ n <= BufferFrames /\ BufferFrames \in Nat
  BY DistIs, Sizes DEF Seqs
<1>2. /\ scan.send = (Stops # {})
      /\ scan.marked = {Plus(x, k) : k \in {e \in Asked : e <= last}}
      /\ scan.start = IF Stops = {} THEN 0 ELSE Plus(x, Least(Asked))
  BY DEF Scan
<1>a. \A k \in 0 .. n - 2 : ~At(k).ready /\ ~At(k + 1).ready =>
         At(k).init = At(k + 1).init /\ At(k).asked = At(k + 1).asked
  BY DEF AlikeFrom
<1> HIDE DEF n, scan
<1>3. Asked \subseteq Nat /\ Stops \subseteq Nat /\ Stops # {}
  <2>1. Asked \subseteq Nat /\ Stops \subseteq Nat  BY <1>1
  <2>2. Stops # {}  BY <1>2 DEF scan
  <2> QED  BY <2>1, <2>2
<1>4. Least(Stops) \in Stops /\ \A k \in Stops : Least(Stops) <= k
  <2> HIDE DEF Stops
  <2> QED  BY <1>3, LeastExists
<1>5. last = Least(Stops)  BY <1>3
<1>6. last \in Stops /\ \A k \in Stops : last <= k
  <2> HIDE DEF Stops, last
  <2> QED  BY <1>4, <1>5
<1>7. last \in Steps /\ (\E e \in Asked : e <= last) /\ (At(last).ready \/ last = n - 1)
  <2> HIDE DEF last, Asked
  <2> QED  BY <1>6 DEF EndOfRun
<1>8. \A k \in Steps : k < last => ~((\E e \in Asked : e <= k) /\ (At(k).ready \/ k = n - 1))
  <2> SUFFICES ASSUME NEW k \in Steps, k < last, (\E e \in Asked : e <= k),
                      At(k).ready \/ k = n - 1
               PROVE  FALSE
    OBVIOUS
  <2>1. k \in Stops
    <3> HIDE DEF Asked, last
    <3> QED  BY DEF EndOfRun
  <2> HIDE DEF Stops, last, Asked
  <2> QED  BY <1>1, <1>6, <1>7, <2>1
<1>9. \A k \in Steps : k \in Asked <=> Worth(At(k))  BY <1>1
<1>10. Asked \subseteq Steps  OBVIOUS
<1>11. \A k \in Steps : Worth(At(k)) => ~At(k).ready  BY DEF Worth
<1> HIDE DEF Stops, last, Asked
<1> DEFINE f == Least(Asked)
           l == IF At(last).ready THEN last - 1 ELSE last
<1>12. f \in Asked /\ \A k \in Asked : f <= k
  <2>1. Asked # {}  BY <1>7
  <2> QED  BY <1>3, <2>1, LeastExists
<1> HIDE DEF f
<1>13. f \in Steps /\ f <= last /\ last \in Int /\ f \in Int  BY <1>1, <1>7, <1>10, <1>12
<1>14. \A k \in f .. last - 1 : ~At(k).ready
  <2> SUFFICES ASSUME NEW k \in f .. last - 1  PROVE ~At(k).ready
    OBVIOUS
  <2>1. k \in Steps /\ k < last /\ f <= k  BY <1>1, <1>7, <1>13
  <2> QED  BY <1>8, <1>12, <2>1
<1>15. ~At(f).ready  BY <1>9, <1>11, <1>12, <1>13
<1>16. l \in Steps /\ f <= l /\ l <= last /\ (l = last \/ (l = last - 1 /\ At(last).ready))
  <2>1. CASE At(last).ready
    <3>1. f # last  BY <1>15, <2>1
    <3> QED  BY <1>1, <1>7, <1>13, <2>1, <3>1
  <2>2. CASE ~At(last).ready
    BY <1>1, <1>7, <1>13, <2>2
  <2> QED  BY <2>1, <2>2
<1>17. \A k \in f .. l : ~At(k).ready
  <2> SUFFICES ASSUME NEW k \in f .. l  PROVE ~At(k).ready
    OBVIOUS
  <2>1. CASE k = last
    <3>1. l = last /\ ~At(last).ready  BY <1>13, <1>16, <2>1
    <3> QED  BY <2>1, <3>1
  <2>2. CASE k # last
    <3>1. k \in f .. last - 1
      <4> HIDE DEF l
      <4> QED  BY <1>13, <1>16, <2>2
    <3> QED  BY <1>14, <3>1
  <2> QED  BY <2>1, <2>2
<1> HIDE DEF l
<1>18. \A k \in f .. l : k \in Asked
  <2> DEFINE B == {k \in f .. l : k \notin Asked}
             b == Least(B)
  <2> SUFFICES ASSUME B # {}  PROVE FALSE
    OBVIOUS
  <2>1. B \subseteq Nat  BY <1>1, <1>13
  <2>2. b \in B /\ \A k \in B : b <= k
    <3> HIDE DEF B
    <3> QED  BY <2>1, LeastExists
  <2> HIDE DEF b
  <2>3. b \in f .. l /\ b \notin Asked  BY <2>2
  <2>4. b # f  BY <1>12, <2>3
  <2> DEFINE a == b - 1
  <2>5. a \in f .. l /\ a \in 0 .. n - 2 /\ a + 1 = b /\ a < b /\ b \in Steps
    BY <1>1, <1>13, <1>16, <2>3, <2>4
  <2> HIDE DEF a
  <2>6. a \in Asked
    <3>1. a \notin B  BY <2>2, <2>5, <1>13
    <3> QED  BY <2>5, <3>1
  <2>7. ~At(a).ready /\ ~At(b).ready  BY <1>17, <2>3, <2>5
  <2>8. At(a).init = At(b).init /\ At(a).asked = At(b).asked  BY <1>a, <2>5, <2>7
  <2>9. Worth(At(a))  BY <1>9, <1>10, <2>6
  <2>10. Worth(At(b))
    <3> HIDE DEF At
    <3> QED  BY <2>7, <2>8, <2>9 DEF Worth
  <2> QED  BY <1>9, <2>3, <2>5, <2>10
<1>19. {e \in Asked : e <= last} = f .. l
  <2>1. ASSUME NEW e \in Asked, e <= last  PROVE e \in f .. l
    <3>1. e \in Steps /\ f <= e /\ Worth(At(e))  BY <1>9, <1>10, <1>12, <2>1
    <3>2. ~At(e).ready  BY <1>11, <3>1
    <3>3. e = last => l = last  BY <1>16, <3>2
    <3> QED  BY <1>1, <1>13, <1>16, <2>1, <3>1, <3>3
  <2>2. ASSUME NEW k \in f .. l  PROVE k <= last
    BY <1>13, <1>16
  <2> QED  BY <1>18, <2>1, <2>2
<1>20. scan.marked = {Plus(x, k) : k \in f .. l}  BY <1>2, <1>19
<1>21. scan.start = Plus(x, f)  BY <1>2, <1>3 DEF f
<1> QED
  <2>1. f \in 0 .. n - 1 /\ l \in 0 .. n - 1 /\ f <= l  BY <1>13, <1>16
  <2> QED  BY <2>1, <1>20, <1>21 DEF n, scan

\* A request names the first of the frames and how many.
LEMMA RunIsCounted ==
  ASSUME NEW x \in Seqs, NEW f \in Nat, NEW l \in Nat, f <= l, l < SeqMod
  PROVE  {Plus(x, k) : k \in f .. l} =
           {Plus(Plus(x, f), j) : j \in 0 .. Cardinality({Plus(x, k) : k \in f .. l}) - 1}
<1> DEFINE M == {Plus(x, k) : k \in f .. l}
           I == f .. l
           g == [k \in I |-> Plus(x, k)]
<1>1. \A k \in I : k \in Nat /\ 0 \in Nat /\ k + 0 < SeqMod
  BY Sizes
<1>2. \A k \in I : Dist(x, Plus(x, k)) = k  BY <1>1, PlusPlus
<1>3. g \in Bijection(I, M)
  <2>1. g \in Surjection(I, M)
    <3>1. g \in [I -> M]  OBVIOUS
    <3>2. \A y \in M : \E k \in I : g[k] = y  OBVIOUS
    <3> QED  BY <3>1, <3>2 DEF Surjection
  <2>2. g \in Injection(I, M)
    <3>1. \A j, k \in I : g[j] = g[k] => j = k  BY <1>2
    <3> QED  BY <3>1 DEF Injection, IsInjective
  <2> QED  BY <2>1, <2>2 DEF Bijection
<1>4. ExistsBijection(I, M)  BY <1>3 DEF ExistsBijection
<1>5. IsFiniteSet(I) /\ Cardinality(I) = l - f + 1
  <2>1. f \in Int /\ l \in Int  OBVIOUS
  <2>2. IsFiniteSet(I) /\ Cardinality(I) = IF f > l THEN 0 ELSE l - f + 1
    BY <2>1, FS_Interval
  <2> QED  BY <2>2
<1>6. Cardinality(M) = Cardinality(I)
  <2> HIDE DEF I, M
  <2> QED  BY <1>4, <1>5, FS_Bijection
<1>7. \A j \in 0 .. l - f : Plus(Plus(x, f), j) = Plus(x, f + j)
  <2> SUFFICES ASSUME NEW j \in 0 .. l - f  PROVE Plus(Plus(x, f), j) = Plus(x, f + j)
    OBVIOUS
  <2>1. j \in Nat /\ f + j < SeqMod  BY Sizes
  <2> QED  BY <2>1, PlusPlus
<1>8. M = {Plus(Plus(x, f), j) : j \in 0 .. l - f}
  <2>1. ASSUME NEW k \in I  PROVE \E j \in 0 .. l - f : Plus(x, k) = Plus(Plus(x, f), j)
    <3> DEFINE j == k - f
    <3>1. j \in 0 .. l - f /\ f + j = k  OBVIOUS
    <3> HIDE DEF j
    <3>2. Plus(Plus(x, f), j) = Plus(x, k)  BY <1>7, <3>1
    <3> QED  BY <3>1, <3>2
  <2>2. ASSUME NEW j \in 0 .. l - f  PROVE \E k \in I : Plus(Plus(x, f), j) = Plus(x, k)
    <3>1. f + j \in I  OBVIOUS
    <3> QED  BY <1>7, <3>1
  <2> QED  BY <2>1, <2>2
<1>9. Cardinality(M) - 1 = l - f  BY <1>5, <1>6
<1> HIDE DEF M
<1> QED  BY <1>8, <1>9 DEF M

\* The part of a buffer from x on.
LEMMA AlikeFromThere ==
  ASSUME NEW sl, NEW rd \in Seqs, NEW wr \in Seqs, NEW x \in Seqs,
         AlikeIn(sl, rd, Dist(rd, wr)), Dist(rd, x) <= Dist(rd, wr)
  PROVE  AlikeFrom(sl, x, Dist(x, wr))
<1> DEFINE n == Dist(x, wr)
           d == Dist(rd, x)
           w == Dist(rd, wr)
<1>1. /\ d \in 0 .. SeqMod - 1 /\ w \in 0 .. SeqMod - 1 /\ n = w - d /\ SeqMod \in Nat
      /\ n \in 0 .. SeqMod - 1 /\ x \in Int
  BY DistFrom, Sizes
<1> HIDE DEF d, w, n
<1> SUFFICES ASSUME NEW k \in 0 .. n - 2, ~sl[BUFIDX(x + k)].ready,
                    ~sl[BUFIDX(x + (k + 1))].ready
             PROVE  /\ sl[BUFIDX(x + k)].init = sl[BUFIDX(x + (k + 1))].init
                    /\ sl[BUFIDX(x + k)].asked = sl[BUFIDX(x + (k + 1))].asked
  BY DEF AlikeFrom, n
<1> DEFINE s == Plus(x, k)
<1>2. k \in Nat /\ 1 \in Nat /\ k + 1 < SeqMod /\ k + 1 \in Int /\ d + k + 1 < w
      /\ k \in 0 .. SeqMod - 1 /\ d + k < SeqMod
  BY <1>1
<1>3. s \in Seqs /\ Plus(s, 1) = Plus(x, k + 1)  BY <1>2, PlusPlus
<1>4. Dist(rd, s) = d + k  BY <1>1, <1>2, DistPlus DEF d
<1>5. BUFIDX(s) = BUFIDX(x + k)  BY <1>1, <1>2, IndexOfPlus
<1>6. BUFIDX(Plus(s, 1)) = BUFIDX(x + (k + 1))  BY <1>1, <1>2, <1>3, IndexOfPlus
<1> HIDE DEF s
<1>7. Dist(rd, s) + 1 < w  BY <1>1, <1>2, <1>4
<1> QED  BY <1>3, <1>5, <1>6, <1>7 DEF AlikeIn, w

\* Of two neighbours that are not there and alike, a check marks both or none.
LEMMA NeighboursMarked ==
  ASSUME NEW sl, NEW x \in Seqs, NEW wr \in Seqs, Dist(x, wr) <= BufferFrames
  PROVE  LET M == Scan(sl, x, wr).marked
             n == Dist(x, wr)
         IN  /\ \A t \in M : t \in Seqs /\ Dist(x, t) < n
             /\ \A s \in Seqs :
                  /\ Dist(x, s) + 1 < n
                  /\ ~sl[BUFIDX(s)].ready /\ ~sl[BUFIDX(Plus(s, 1))].ready
                  /\ sl[BUFIDX(s)].init = sl[BUFIDX(Plus(s, 1))].init
                  /\ sl[BUFIDX(s)].asked = sl[BUFIDX(Plus(s, 1))].asked
                  => (s \in M <=> Plus(s, 1) \in M)
<1> DEFINE n      == Dist(x, wr)
           Steps  == 0 .. n - 1
           At(k)  == sl[BUFIDX(x + k)]
           Asked  == {k \in Steps : k < BufferFrames /\ Worth(At(k))}
           Stops  == {k \in Steps : EndOfRun(k, Asked, At(k), n)}
           last   == IF Stops = {} THEN n - 1 ELSE Least(Stops)
           M      == Scan(sl, x, wr).marked
<1>1. x \in Int /\ n \in Nat /\ n <= BufferFrames /\ BufferFrames \in Nat /\ n < SeqMod
      /\ SeqMod \in Nat
  <2>1. n \in 0 .. SeqMod - 1 /\ SeqMod \in Nat  BY DistFrom, Sizes
  <2>2. x \in Int /\ BufferFrames \in Nat /\ n <= BufferFrames  BY Sizes
  <2> HIDE DEF n
  <2> QED  BY <2>1, <2>2
<1>2. M = {Plus(x, k) : k \in {e \in Asked : e <= last}}
  BY DEF Scan
<1> HIDE DEF n, M
<1>3. Stops \subseteq Nat  BY <1>1
<1>4. Stops # {} => Least(Stops) \in Stops
  <2> HIDE DEF Stops
  <2> QED  BY <1>3, LeastExists
<1>5. \A k \in Steps : (\E e \in Asked : e <= k) /\ (At(k).ready \/ k = n - 1) => k \in Stops
  <2> HIDE DEF Asked
  <2> QED  BY DEF EndOfRun
<1>6. last \in Int /\ last <= n - 1 /\ (At(last).ready \/ last = n - 1)
  <2>1. CASE Stops = {}
    <3>1. last = n - 1  BY <2>1
    <3> HIDE DEF last, Stops
    <3> QED  BY <3>1, <2>1, <1>1
  <2>2. CASE Stops # {}
    <3>1. last \in Stops  BY <1>4, <2>2
    <3>2. \A k \in Stops : k \in 0 .. n - 1 /\ (At(k).ready \/ k = n - 1)
      BY DEF EndOfRun
    <3> HIDE DEF last, Stops
    <3> QED  BY <3>1, <3>2, <1>1
  <2> QED  BY <2>1, <2>2
<1>7. \A k \in Steps : k \in Asked <=> Worth(At(k))  BY <1>1
<1>8. Asked \subseteq Steps  OBVIOUS
<1> HIDE DEF Stops, last, Asked
<1>9. \A k \in Nat : k < SeqMod => Dist(x, Plus(x, k)) = k /\ Plus(x, k) \in Seqs
  <2> SUFFICES ASSUME NEW k \in Nat, k < SeqMod
               PROVE  Dist(x, Plus(x, k)) = k /\ Plus(x, k) \in Seqs
    OBVIOUS
  <2>1. 0 \in Nat /\ k + 0 < SeqMod  BY <1>1
  <2> QED  BY <2>1, PlusPlus
<1>10. \A k \in Steps : Plus(x, k) \in M <=> k \in Asked /\ k <= last
  <2> SUFFICES ASSUME NEW k \in Steps, Plus(x, k) \in M  PROVE k \in Asked /\ k <= last
    BY <1>2
  <2>1. PICK e \in Asked : e <= last /\ Plus(x, k) = Plus(x, e)  BY <1>2
  <2>2. e \in Nat /\ e < SeqMod /\ k \in Nat /\ k < SeqMod  BY <1>1, <1>8
  <2>3. e = k  BY <1>9, <2>1, <2>2
  <2> QED  BY <2>1, <2>3
<1>11. \A t \in M : t \in Seqs /\ Dist(x, t) < n
  <2> SUFFICES ASSUME NEW t \in M  PROVE t \in Seqs /\ Dist(x, t) < n
    OBVIOUS
  <2>1. PICK e \in Asked : t = Plus(x, e)  BY <1>2
  <2>2. e \in Nat /\ e < n /\ e < SeqMod  BY <1>1, <1>8
  <2> QED  BY <1>9, <2>1, <2>2
<1>12. ASSUME NEW s \in Seqs, Dist(x, s) + 1 < n,
              ~sl[BUFIDX(s)].ready, ~sl[BUFIDX(Plus(s, 1))].ready,
              sl[BUFIDX(s)].init = sl[BUFIDX(Plus(s, 1))].init,
              sl[BUFIDX(s)].asked = sl[BUFIDX(Plus(s, 1))].asked
       PROVE  s \in M <=> Plus(s, 1) \in M
  <2> DEFINE k == Dist(x, s)
             j == k + 1
  <2>1. Plus(x, k) = s /\ BUFIDX(x + k) = BUFIDX(s) /\ k \in 0 .. SeqMod - 1
    BY StepOf
  <2>2. k \in Nat /\ 1 \in Nat /\ k + 1 < SeqMod /\ k \in Steps /\ j \in Steps /\ k # n - 1
        /\ j \in Int
    <3>1. k + 1 < n  BY <1>12
    <3> HIDE DEF k
    <3> QED  BY <1>1, <2>1, <3>1
  <2> HIDE DEF k
  <2>3. Plus(s, 1) = Plus(x, j)  BY <2>1, <2>2, PlusPlus
  <2>4. BUFIDX(Plus(s, 1)) = BUFIDX(x + j)  BY <1>1, <2>2, <2>3, IndexOfPlus
  <2>5. ~At(k).ready /\ ~At(j).ready /\ At(k).init = At(j).init /\ At(k).asked = At(j).asked
    BY <1>12, <2>1, <2>4
  <2>6. Worth(At(k)) <=> Worth(At(j))
    <3> HIDE DEF At
    <3> QED  BY <2>5 DEF Worth
  <2>7. k \in Asked <=> j \in Asked  BY <1>7, <2>2, <2>6
  <2>8. k <= last <=> j <= last
    <3>1. k # last  BY <1>6, <2>2, <2>5
    <3> QED  BY <1>6, <2>2, <3>1
  <2> QED  BY <1>10, <2>1, <2>2, <2>3, <2>7, <2>8
<1> QED  BY <1>11, <1>12 DEF n, M

\* What is noted on neighbours that are not there stays the same when a check goes over
\* the buffer from x, if x lies between two runs of the buffer, or not in it.
LEMMA MarkKeepsAlike ==
  ASSUME NEW sl, SlotsOK(sl), NEW r, NEW R \in Seqs, NEW W \in Seqs, NEW x \in Seqs,
         NEW fpm, NEW absent, CheckFrom(r, sl, x, W, fpm, absent),
         Dist(R, W) <= BufferFrames, Dist(x, W) <= BufferFrames,
         AlikeIn(sl, R, Dist(R, W)),
         Dist(R, x) < Dist(R, W) /\ x # R => sl[BUFIDX(Plus(x, -1))].ready
  PROVE  AlikeIn(slots', R, Dist(R, W))
<1> DEFINE M == Scan(sl, x, W).marked
           n == Dist(x, W)
           w == Dist(R, W)
           d == Dist(R, x)
<1>1. /\ \A t \in M : t \in Seqs /\ Dist(x, t) < n
      /\ \A s \in Seqs :
           /\ Dist(x, s) + 1 < n
           /\ ~sl[BUFIDX(s)].ready /\ ~sl[BUFIDX(Plus(s, 1))].ready
           /\ sl[BUFIDX(s)].init = sl[BUFIDX(Plus(s, 1))].init
           /\ sl[BUFIDX(s)].asked = sl[BUFIDX(Plus(s, 1))].asked
           => (s \in M <=> Plus(s, 1) \in M)
  BY NeighboursMarked
<1>2. /\ n \in 0 .. SeqMod - 1 /\ w \in 0 .. SeqMod - 1 /\ d \in 0 .. SeqMod - 1
      /\ n = IF d <= w THEN w - d ELSE w - d + SeqMod
      /\ SeqMod \in Nat /\ 1 < SeqMod /\ n <= BufferFrames /\ w <= BufferFrames
      /\ BufferFrames \in Nat
  BY DistFrom, Sizes, PlayerBufferAssumption
<1>3. slots' = [i \in DOMAIN sl |-> IF \E m \in M : BUFIDX(m) = i
                                      THEN [sl[i] EXCEPT !.asked = now] ELSE sl[i]]
  BY DEF CheckFrom
<1>a. AlikeIn(sl, R, w) /\ (d < w /\ x # R => sl[BUFIDX(Plus(x, -1))].ready)
  OBVIOUS
<1>b. \A t \in Seqs : Dist(R, t) \in 0 .. SeqMod - 1 /\ Dist(x, t) \in 0 .. SeqMod - 1
                      /\ Dist(x, t) = IF d <= Dist(R, t) THEN Dist(R, t) - d
                                      ELSE Dist(R, t) - d + SeqMod
  BY DistFrom
<1> HIDE DEF M, n, w, d
<1>4. ASSUME NEW i \in 0 .. BufferFrames - 1
      PROVE  /\ slots'[i].ready = sl[i].ready /\ slots'[i].init = sl[i].init
             /\ slots'[i].asked = IF \E m \in M : BUFIDX(m) = i THEN now ELSE sl[i].asked
  <2>1. i \in DOMAIN sl /\ sl[i] \in SlotType  BY DEF SlotsOK
  <2>2. slots'[i] = IF \E m \in M : BUFIDX(m) = i THEN [sl[i] EXCEPT !.asked = now]
                                                  ELSE sl[i]
    BY <1>3, <2>1
  <2> QED  BY <2>1, <2>2 DEF SlotType
\* The slot of a number in the buffer is marked only for that number.
<1>5. ASSUME NEW t \in Seqs, Dist(R, t) < w, NEW m \in M, BUFIDX(m) = BUFIDX(t)
      PROVE  m = t
  <2>1. m \in Seqs /\ Dist(x, m) < n  BY <1>1
  <2>2. CASE Dist(x, t) < n
    <3>1. n \in Nat  BY <1>2
    <3> QED  BY <1>2, <1>5, <2>1, <2>2, <3>1, NoSharing
  <2>3. CASE ~(Dist(x, t) < n)
    <3>1. Dist(R, m) < w  BY <1>2, <1>5, <1>b, <2>1, <2>3
    <3>2. w \in Nat  BY <1>2
    <3> QED  BY <1>2, <1>5, <2>1, <3>1, <3>2, NoSharing
  <2> QED  BY <2>2, <2>3
<1>6. ASSUME NEW t \in Seqs, Dist(R, t) < w
      PROVE  /\ slots'[BUFIDX(t)].ready = sl[BUFIDX(t)].ready
             /\ slots'[BUFIDX(t)].init = sl[BUFIDX(t)].init
             /\ slots'[BUFIDX(t)].asked = IF t \in M THEN now ELSE sl[BUFIDX(t)].asked
  <2>1. BUFIDX(t) \in 0 .. BufferFrames - 1  BY IndexType, Sizes
  <2>2. (\E m \in M : BUFIDX(m) = BUFIDX(t)) <=> t \in M  BY <1>5, <1>6
  <2> QED  BY <1>4, <2>1, <2>2
<1> SUFFICES ASSUME NEW s \in Seqs, Dist(R, s) + 1 < w,
                    ~slots'[BUFIDX(s)].ready, ~slots'[BUFIDX(Plus(s, 1))].ready
             PROVE  /\ slots'[BUFIDX(s)].init = slots'[BUFIDX(Plus(s, 1))].init
                    /\ slots'[BUFIDX(s)].asked = slots'[BUFIDX(Plus(s, 1))].asked
  BY DEF AlikeIn, w
<1> DEFINE t == Plus(s, 1)
<1>7. t \in Seqs /\ Dist(R, t) = Dist(R, s) + 1
  <2>1. 1 \in 0 .. SeqMod - 1  BY <1>2
  <2>2. t \in Seqs /\ Dist(R, t) = IF Dist(R, s) + 1 < SeqMod THEN Dist(R, s) + 1
                                   ELSE Dist(R, s) + 1 - SeqMod
    BY <2>1, DistPlus
  <2> QED  BY <1>2, <1>b, <2>2
<1>8. Plus(t, -1) = s
  <2>1. s \in 0 .. SeqMod - 1 /\ t \in 0 .. SeqMod - 1  BY <1>7 DEF Seqs
  <2>2. t = IF s + 1 >= SeqMod THEN s + 1 - SeqMod ELSE s + 1
    <3>1. 1 \in -1 .. SeqMod  BY <1>2
    <3>2. t = IF s + 1 >= SeqMod THEN s + 1 - SeqMod
              ELSE IF s + 1 < 0 THEN s + 1 + SeqMod ELSE s + 1
      BY <3>1, PlusIs
    <3> HIDE DEF t
    <3> QED  BY <1>2, <2>1, <3>2
  <2> HIDE DEF t
  <2>3. -1 \in -1 .. SeqMod  BY <1>2
  <2>4. Plus(t, -1) = IF t + (-1) >= SeqMod THEN t + (-1) - SeqMod
                      ELSE IF t + (-1) < 0 THEN t + (-1) + SeqMod ELSE t + (-1)
    BY <1>7, <2>3, PlusIs
  <2> QED  BY <1>2, <2>1, <2>2, <2>4
<1> HIDE DEF t
<1>9. /\ Dist(R, s) < w /\ Dist(R, t) < w
      /\ Dist(R, s) \in Int /\ Dist(R, t) \in Int
  BY <1>2, <1>7, <1>b
<1>10. ~sl[BUFIDX(s)].ready /\ ~sl[BUFIDX(t)].ready
  BY <1>6, <1>7, <1>9 DEF t
<1>11. /\ sl[BUFIDX(s)].init = sl[BUFIDX(t)].init
       /\ sl[BUFIDX(s)].asked = sl[BUFIDX(t)].asked
  BY <1>10, <1>a DEF AlikeIn, t
<1>12. s \in M <=> t \in M
  <2>1. CASE Dist(x, s) + 1 < n
    BY <1>1, <1>10, <1>11, <2>1 DEF t
  <2>2. CASE ~(Dist(x, s) + 1 < n)
    <3>1. s \in M => Dist(x, s) < n  BY <1>1
    <3>2. t \in M => Dist(x, t) < n  BY <1>1
    <3>3. t # x \/ ~(d < w) \/ x = R  BY <1>8, <1>10, <1>a
    <3>4. t = x <=> Dist(R, t) = d
      <4>0. t \in Seqs  BY <1>7
      <4>1. Dist(R, t) = Dist(R, x) <=> t = x  BY <4>0, DistFrom
      <4> QED  BY <4>1 DEF d
    <3>5. x = R <=> d = 0
      <4>1. Dist(R, R) = 0 /\ (Dist(R, R) = Dist(R, x) <=> R = x)  BY DistFrom
      <4> QED  BY <4>1 DEF d
    <3>6. /\ Dist(x, s) = IF d <= Dist(R, s) THEN Dist(R, s) - d ELSE Dist(R, s) - d + SeqMod
          /\ Dist(x, t) = IF d <= Dist(R, t) THEN Dist(R, t) - d ELSE Dist(R, t) - d + SeqMod
          /\ Dist(R, s) \in 0 .. SeqMod - 1
      BY <1>7, <1>b
    <3>7. Dist(R, t) # d \/ ~(d < w) \/ d = 0  BY <3>3, <3>4, <3>5
    <3>8. ~(Dist(x, s) < n) /\ ~(Dist(x, t) < n)
      BY <1>2, <1>7, <1>9, <2>2, <3>6, <3>7
    <3> QED  BY <3>1, <3>2, <3>8
  <2> QED  BY <2>1, <2>2
<1>13. Dist(R, s) < w /\ Dist(R, t) < w  BY <1>9
<1> QED  BY <1>6, <1>7, <1>11, <1>12, <1>13 DEF t

\* The frames skipped are noted as missing from now on, and not yet asked for.
LEMMA GapIsNew ==
  ASSUME TypeInv, NEW place, NEW p \in Packets, NEW ok,
         NEW i \in {BUFIDX(s) : s \in place.gap}, i \in 0 .. BufferFrames - 1,
         ~(i = BUFIDX(SeqOf(p)) /\ place.keep)
  PROVE  LET new == Stored(place, p, ok)[i]
         IN  new.init = now /\ new.asked = 0
<1> DEFINE j    == BUFIDX(SeqOf(p))
           skip == {BUFIDX(s) : s \in place.gap}
           old  == [k \in DOMAIN slots |->
                      IF k \in skip THEN MissingSlot(slots[k]) ELSE slots[k]]
<1>1. i \in DOMAIN slots /\ slots[i] \in SlotType  BY DEF TypeInv, SlotsOK
<1>2. i \in DOMAIN old /\ old[i] = MissingSlot(slots[i])  BY <1>1
<1>3. MissingSlot(slots[i]).init = now /\ MissingSlot(slots[i]).asked = 0
  BY <1>1 DEF SlotType, MissingSlot
<1>4. Stored(place, p, ok) =
        IF place.keep
          THEN [old EXCEPT ![j] = IF ok THEN GoodSlot(SeqOf(p), TsOf(p)) ELSE MissingSlot(@)]
          ELSE old
  BY DEF Stored
<1> HIDE DEF old, j
<1> QED  BY <1>2, <1>3, <1>4 DEF j

-----------------------------------------------------------------------------
(* Runs of missing frames stay alike.                                         *)

MissingAlike == ab_synced => AlikeIn(slots, ab_read, Dist(ab_read, ab_write))

\* The write position follows a packet that was put there.
LastIsThere ==
  ab_synced /\ Dist(ab_read, ab_write) > 0 => slots[BUFIDX(Plus(ab_write, -1))].ready

RunInv == HintInv /\ MissingAlike /\ LastIsThere

\* The slot before a position.
LEMMA OneBefore ==
  ASSUME NEW a \in Seqs, NEW b \in Seqs, Dist(a, b) > 0
  PROVE  Plus(b, -1) \in Seqs /\ Dist(a, Plus(b, -1)) = Dist(a, b) - 1
<1> DEFINE e == Plus(b, -1)
<1>1. /\ SeqMod \in Nat /\ SeqMod > 1 /\ a \in 0 .. SeqMod - 1 /\ b \in 0 .. SeqMod - 1
      /\ b \in Int /\ -1 \in Int /\ -1 \in -1 .. SeqMod
  BY PlayerBufferAssumption DEF Seqs
<1>2. e = IF b + (-1) >= SeqMod THEN b + (-1) - SeqMod
          ELSE IF b + (-1) < 0 THEN b + (-1) + SeqMod ELSE b + (-1)
  BY <1>1, PlusIs
<1>3. e \in Seqs  BY <1>1, PlusType
<1>4. /\ Dist(a, b) = IF a <= b THEN b - a ELSE b - a + SeqMod
      /\ Dist(a, e) = IF a <= e THEN e - a ELSE e - a + SeqMod
  BY <1>3, DistIs
<1> HIDE DEF e
<1>5. e \in 0 .. SeqMod - 1  BY <1>3 DEF Seqs
<1>6. Dist(a, b) > 0  OBVIOUS
<1>7. Dist(a, e) = Dist(a, b) - 1  BY <1>1, <1>2, <1>4, <1>5, <1>6
<1> QED  BY <1>3, <1>7 DEF e

\* With one more packet in the buffer, before the check.
LEMMA StoredAlike ==
  ASSUME NeverLapped, RunInv, NEW p \in Packets, ab_synced => CanBePlaced(SeqOf(p))
  PROVE  LET place == Placed(SeqOf(p))
             sl    == Stored(place, p, TRUE)
         IN  /\ AlikeIn(sl, place.rd, Dist(place.rd, place.wr))
             /\ Dist(place.rd, place.wr) > 0 => sl[BUFIDX(Plus(place.wr, -1))].ready
             /\ Dist(place.rd, place.wr) <= BufferFrames
<1> USE DEF RunInv, HintInv, BufferInv
<1> DEFINE s     == SeqOf(p)
           place == Placed(s)
           R     == place.rd
           W     == place.wr
           sl    == Stored(place, p, TRUE)
           w     == Dist(ab_read, ab_write)
<1>1. /\ TypeInv /\ ab_read \in Seqs /\ ab_write \in Seqs /\ s \in Seqs
      /\ MaxAhead \in Nat /\ SeqMod \in Nat /\ SeqMod > 1 /\ BufferFrames \in Nat
      /\ MaxAhead < BufferFrames
  BY SeqOfType, PlayerBufferAssumption
  DEF TypeInv, TypeOK, Packets, NeverLapped
<1>2. /\ R = IF ab_synced THEN ab_read ELSE s
      /\ Dist(R, W) <= MaxAhead + 1
      /\ ~ab_synced => Dist(R, W) = 1
      /\ \A t \in place.gap : t # s /\ place.keep /\ t \in Seqs /\ w <= Dist(ab_read, t)
                              /\ Dist(R, t) < Dist(R, W)
      /\ (ab_synced /\ Dist(R, W) = w) \/ Dist(R, W) = Dist(R, s) + 1
      /\ ab_synced => w <= Dist(R, W)
  BY <1>1, PlacedFacts
<1>3. R \in Seqs /\ W \in Seqs  BY <1>1, PlacedType
<1>4. Dist(R, W) \in 0 .. SeqMod - 1 /\ w \in 0 .. SeqMod - 1
  BY <1>1, <1>3, DistFrom
<1>5. \A t \in Seqs : Dist(R, t) < Dist(R, W) =>
        \/ t = s /\ sl[BUFIDX(t)].ready
        \/ t \in place.gap
        \/ ab_synced /\ sl[BUFIDX(t)] = slots[BUFIDX(t)] /\ Dist(ab_read, t) < w /\ R = ab_read
  <2>1. \A t \in Seqs : Dist(R, t) < Dist(R, W) =>
          \/ t = s /\ sl[BUFIDX(t)] = GoodSlot(t, TsOf(p))
          \/ t \in place.gap
          \/ ab_synced /\ sl[BUFIDX(t)] = slots[BUFIDX(t)] /\ Dist(ab_read, t) < w
             /\ R = ab_read
    BY <1>1, StoredFacts
  <2>2. \A t : GoodSlot(t, TsOf(p)).ready  BY DEF GoodSlot
  <2> HIDE DEF sl, place
  <2> QED  BY <2>1, <2>2
<1>6. ASSUME NEW t \in place.gap
      PROVE  sl[BUFIDX(t)].init = now /\ sl[BUFIDX(t)].asked = 0
  <2>1. t \in Seqs /\ t # s /\ Dist(R, t) < Dist(R, W)  BY <1>2
  <2>2. BUFIDX(t) \in 0 .. BufferFrames - 1  BY <2>1, IndexType, Sizes
  <2>3. BUFIDX(t) \in {BUFIDX(q) : q \in place.gap}  OBVIOUS
  <2>4. BUFIDX(t) # BUFIDX(s) \/ ~place.keep
    <3> SUFFICES ASSUME BUFIDX(t) = BUFIDX(s), place.keep  PROVE FALSE
      OBVIOUS
    <3>1. place.keep => Dist(R, s) < Dist(R, W)  BY <1>1, PlacedFacts
    <3>2. Dist(R, W) \in Nat /\ Dist(R, W) <= BufferFrames  BY <1>1, <1>2, <1>4
    <3> HIDE DEF place, s, R, W
    <3> QED  BY <1>1, <1>3, <2>1, <3>1, <3>2, NoSharing
  <2> HIDE DEF place, s, R, W
  <2> QED  BY <1>1, <2>2, <2>3, <2>4, GapIsNew DEF sl, s, place
<1>7. Dist(R, W) <= BufferFrames  BY <1>1, <1>2, <1>4
<1>a. ab_synced => AlikeIn(slots, ab_read, w)  BY DEF MissingAlike
<1>b. ab_synced /\ w > 0 => slots[BUFIDX(Plus(ab_write, -1))].ready  BY DEF LastIsThere
<1> HIDE DEF s, place, R, W, sl, w
\* The slot before the old write position, if it is in the buffer, is there.
<1>8. ASSUME NEW t \in Seqs, ab_synced, Dist(ab_read, t) + 1 = w
      PROVE  slots[BUFIDX(t)].ready
  <2>1. Dist(ab_read, t) \in 0 .. SeqMod - 1  BY <1>1, DistFrom
  <2>2. w > 0  BY <1>4, <1>8, <2>1
  <2>3. Plus(ab_write, -1) \in Seqs /\ Dist(ab_read, Plus(ab_write, -1)) = w - 1
    BY <1>1, <2>2, OneBefore DEF w
  <2>4. Dist(ab_read, Plus(ab_write, -1)) = Dist(ab_read, t)  BY <1>4, <1>8, <2>1, <2>3
  <2>5. Plus(ab_write, -1) = t  BY <1>1, <2>3, <2>4, DistFrom
  <2> QED  BY <1>8, <1>b, <2>2, <2>5
<1>9. AlikeIn(sl, R, Dist(R, W))
  <2> SUFFICES ASSUME NEW a \in Seqs, Dist(R, a) + 1 < Dist(R, W),
                      ~sl[BUFIDX(a)].ready, ~sl[BUFIDX(Plus(a, 1))].ready
               PROVE  /\ sl[BUFIDX(a)].init = sl[BUFIDX(Plus(a, 1))].init
                      /\ sl[BUFIDX(a)].asked = sl[BUFIDX(Plus(a, 1))].asked
    BY DEF AlikeIn
  <2> DEFINE b == Plus(a, 1)
  <2>1. Dist(R, a) \in 0 .. SeqMod - 1  BY <1>3, DistFrom
  <2>2. b \in Seqs /\ Dist(R, b) = Dist(R, a) + 1
    <3>1. 1 \in 0 .. SeqMod - 1  BY <1>1
    <3>2. b \in Seqs /\ Dist(R, b) = IF Dist(R, a) + 1 < SeqMod THEN Dist(R, a) + 1
                                     ELSE Dist(R, a) + 1 - SeqMod
      BY <1>3, <3>1, DistPlus
    <3> QED  BY <1>1, <1>4, <2>1, <3>2
  <2> HIDE DEF b
  <2>3. Dist(R, a) < Dist(R, W) /\ Dist(R, b) < Dist(R, W)  BY <1>4, <2>1, <2>2
  <2>4. \/ a \in place.gap
        \/ ab_synced /\ sl[BUFIDX(a)] = slots[BUFIDX(a)] /\ Dist(ab_read, a) < w /\ R = ab_read
    BY <1>5, <2>3
  <2>5. \/ b \in place.gap
        \/ ab_synced /\ sl[BUFIDX(b)] = slots[BUFIDX(b)] /\ Dist(ab_read, b) < w /\ R = ab_read
    BY <1>5, <2>2, <2>3 DEF b
  <2>6. CASE a \in place.gap /\ b \in place.gap
    BY <1>6, <2>6 DEF b
  <2>7. CASE a \in place.gap /\ b \notin place.gap
    <3>1. w <= Dist(ab_read, a) /\ Dist(ab_read, b) < w /\ R = ab_read
      BY <1>2, <2>5, <2>7
    <3> QED  BY <1>4, <2>1, <2>2, <3>1
  <2>8. CASE a \notin place.gap /\ b \in place.gap
    <3>1. /\ w <= Dist(ab_read, b) /\ Dist(ab_read, a) < w /\ R = ab_read /\ ab_synced
          /\ sl[BUFIDX(a)] = slots[BUFIDX(a)]
      BY <1>2, <2>4, <2>8
    <3>2. Dist(ab_read, a) + 1 = w  BY <1>4, <2>1, <2>2, <3>1
    <3> QED  BY <1>8, <3>1, <3>2
  <2>9. CASE a \notin place.gap /\ b \notin place.gap
    <3>1. /\ Dist(ab_read, b) < w /\ R = ab_read /\ ab_synced
          /\ sl[BUFIDX(a)] = slots[BUFIDX(a)] /\ sl[BUFIDX(b)] = slots[BUFIDX(b)]
      BY <2>4, <2>5, <2>9
    <3>2. Dist(ab_read, a) + 1 < w  BY <2>2, <3>1
    <3> QED  BY <1>a, <3>1, <3>2 DEF AlikeIn, b
  <2> QED  BY <2>6, <2>7, <2>8, <2>9 DEF b
<1>10. Dist(R, W) > 0 => sl[BUFIDX(Plus(W, -1))].ready
  <2> SUFFICES ASSUME Dist(R, W) > 0  PROVE sl[BUFIDX(Plus(W, -1))].ready
    OBVIOUS
  <2> DEFINE e == Plus(W, -1)
  <2>1. e \in Seqs /\ Dist(R, e) = Dist(R, W) - 1  BY <1>3, OneBefore
  <2> HIDE DEF e
  <2>2. Dist(R, e) < Dist(R, W)  BY <1>4, <2>1
  <2>3. CASE e = s /\ sl[BUFIDX(e)].ready
    BY <2>3 DEF e
  <2>4. CASE e \in place.gap
    <3>1. e # s /\ w <= Dist(ab_read, e)  BY <1>2, <2>4
    <3>2. ~(ab_synced /\ Dist(R, W) = w)
      <4> SUFFICES ASSUME ab_synced, Dist(R, W) = w  PROVE FALSE
        OBVIOUS
      <4>1. R = ab_read  BY <1>2
      <4> QED  BY <1>4, <2>1, <3>1, <4>1
    <3>3. Dist(R, e) = Dist(R, s)
      <4>1. Dist(R, s) \in 0 .. SeqMod - 1  BY <1>1, <1>3, DistFrom
      <4> QED  BY <1>2, <1>4, <2>1, <3>2, <4>1
    <3>4. e = s  BY <1>1, <1>3, <2>1, <3>3, DistFrom
    <3> QED  BY <3>1, <3>4
  <2>5. CASE ab_synced /\ sl[BUFIDX(e)] = slots[BUFIDX(e)] /\ Dist(ab_read, e) < w /\ R = ab_read
    <3>1. Dist(ab_read, e) + 1 = w  BY <1>2, <1>4, <2>1, <2>5
    <3> QED  BY <1>8, <2>1, <2>5, <3>1 DEF e
  <2> QED  BY <1>5, <2>1, <2>2, <2>3, <2>4, <2>5 DEF e
<1> QED  BY <1>7, <1>9, <1>10 DEF s, place, R, W, sl

\* The runs stay alike when a packet is put into the buffer and the check made.
LEMMA PutKeepsRuns ==
  ASSUME NeverLapped, RunInv, NEW r \in Receivers, NEW p \in Packets,
         player_put_packet(r, p, TRUE), ab_synced => CanBePlaced(SeqOf(p))
  PROVE  MissingAlike' /\ LastIsThere'
<1> USE DEF RunInv, HintInv, BufferInv
<1> DEFINE s     == SeqOf(p)
           place == Placed(s)
           R     == place.rd
           W     == place.wr
           sl    == Stored(place, p, TRUE)
           x     == CheckStart(R, W)
<1>1. CASE ~connection_state_to_output
  <2>1. UNCHANGED input  BY <1>1, Zenon DEF player_put_packet
  <2> QED  BY <2>1 DEF input, MissingAlike, LastIsThere
<1>2. CASE connection_state_to_output
  <2>1. /\ ab_read' = R /\ ab_write' = W /\ ab_synced' = TRUE
        /\ CheckFrom(r, sl, x, W, -1, FALSE)
    BY <1>2, Zenon DEF player_put_packet
  <2>2. /\ AlikeIn(sl, R, Dist(R, W)) /\ Dist(R, W) <= BufferFrames
        /\ Dist(R, W) > 0 => sl[BUFIDX(Plus(W, -1))].ready
    BY StoredAlike
  <2>3. /\ x \in Seqs /\ Dist(R, x) <= Dist(R, W)
        /\ \A t \in Seqs : Dist(R, t) < Dist(R, x) => sl[BUFIDX(t)].ready
    BY CheckStartsWell
  <2>4. R \in Seqs /\ W \in Seqs
    <3>1. s \in Seqs /\ ab_read \in Seqs /\ ab_write \in Seqs
      BY SeqOfType DEF Packets, TypeInv, TypeOK
    <3> QED  BY <3>1, PlacedType
  <2>5. SlotsOK(sl)
    <3>1. now \in 0 .. MaxTime  BY PlayerBufferAssumption DEF TypeInv, TypeOK
    <3> QED  BY <3>1, StoredOK DEF TypeInv
  <2> HIDE DEF R, W, sl, x, s, place
  <2>6. x # R => sl[BUFIDX(Plus(x, -1))].ready
    <3> SUFFICES ASSUME x # R  PROVE sl[BUFIDX(Plus(x, -1))].ready
      OBVIOUS
    <3>1. Dist(R, x) > 0
      <4>1. Dist(R, R) = 0 /\ (Dist(R, R) = Dist(R, x) <=> R = x)
            /\ Dist(R, x) \in 0 .. SeqMod - 1
        BY <2>3, <2>4, DistFrom
      <4> QED  BY <4>1
    <3>2. Plus(x, -1) \in Seqs /\ Dist(R, Plus(x, -1)) = Dist(R, x) - 1
      BY <2>3, <2>4, <3>1, OneBefore
    <3>3. Dist(R, x) \in Int  BY <2>3, <2>4, DistFrom
    <3>4. Dist(R, Plus(x, -1)) < Dist(R, x)  BY <3>2, <3>3
    <3> QED  BY <2>3, <3>2, <3>4
  <2>7. Dist(x, W) <= BufferFrames
    <3>1. /\ Dist(x, W) = Dist(R, W) - Dist(R, x)
          /\ Dist(R, x) \in 0 .. SeqMod - 1 /\ Dist(R, W) \in 0 .. SeqMod - 1
      BY <2>3, <2>4, DistFrom
    <3> QED  BY <2>2, <3>1, Sizes
  <2>8. AlikeIn(slots', R, Dist(R, W))
    BY <2>1, <2>2, <2>3, <2>4, <2>5, <2>6, <2>7, MarkKeepsAlike
  <2>9. \A i \in 0 .. BufferFrames - 1 : slots'[i].ready = sl[i].ready
    BY <2>1, <2>5, CheckChangesAsked
  <2>10. MissingAlike'
    <3>1. MissingAlike' <=> (ab_synced' => AlikeIn(slots', ab_read', Dist(ab_read', ab_write')))
      BY DEF MissingAlike, AlikeIn, Dist, BUFIDX, Plus
    <3> QED  BY <2>1, <2>8, <3>1
  <2>11. LastIsThere'
    <3>1. LastIsThere' <=>
            (ab_synced' /\ Dist(ab_read', ab_write') > 0 =>
               slots'[BUFIDX(Plus(ab_write', -1))].ready)
      BY DEF LastIsThere, Dist, BUFIDX, Plus
    <3>2. BUFIDX(Plus(W, -1)) \in 0 .. BufferFrames - 1
      <4>1. W \in Int /\ -1 \in Int  BY <2>4, Sizes
      <4>2. Plus(W, -1) \in Int  BY <4>1, PlusType, Sizes
      <4> QED  BY <4>2, IndexType
    <3> QED  BY <2>1, <2>2, <2>9, <3>1, <3>2
  <2> QED  BY <2>10, <2>11
<1> QED  BY <1>1, <1>2

\* The runs stay alike while the read position moves on and nothing ahead of it changes.
LEMMA ReadingOnKeepsRuns ==
  ASSUME NeverLapped, RunInv, ab_synced, NEW k \in 0 .. Dist(ab_read, ab_write),
         ab_read' = Plus(ab_read, k), UNCHANGED <<ab_write, ab_synced>>,
         \A t \in Seqs : InBuffer(t) /\ Dist(ab_read, t) >= k =>
           /\ slots'[BUFIDX(t)].ready = slots[BUFIDX(t)].ready
           /\ slots'[BUFIDX(t)].init = slots[BUFIDX(t)].init
           /\ slots'[BUFIDX(t)].asked = slots[BUFIDX(t)].asked
  PROVE  MissingAlike' /\ LastIsThere'
<1> USE DEF RunInv, HintInv, BufferInv
<1> DEFINE w == Dist(ab_read, ab_write)
           R == ab_read'
           n == Dist(R, ab_write')
<1>1. /\ ab_read \in Seqs /\ ab_write \in Seqs /\ SeqMod \in Nat /\ SeqMod > 1
      /\ w \in 0 .. SeqMod - 1
  BY DistFrom, PlayerBufferAssumption DEF TypeInv, TypeOK
<1>2. /\ R \in Seqs /\ n = w - k
      /\ \A t \in Seqs : /\ Dist(R, t) < n => InBuffer(t)
                         /\ Dist(R, t) < n => Dist(ab_read, t) >= k
                         /\ Dist(ab_read, t) >= k => Dist(R, t) = Dist(ab_read, t) - k
  <2>1. /\ ab_read' \in Seqs /\ Dist(ab_read', ab_write') = Dist(ab_read, ab_write) - k
        /\ \A t \in Seqs :
             /\ InBuffer(t)' => InBuffer(t)
             /\ InBuffer(t)' => Dist(ab_read, t) >= k
             /\ Dist(ab_read, t) >= k => Dist(ab_read', t) = Dist(ab_read, t) - k
    BY ReadingOn
  <2>2. \A t \in Seqs : InBuffer(t)' <=> Dist(ab_read', t) < Dist(ab_read', ab_write')
    BY DEF InBuffer, Dist
  <2> QED  BY <2>1, <2>2
<1>3. \A t \in Seqs : Dist(ab_read, t) \in 0 .. SeqMod - 1 /\ Dist(R, t) \in 0 .. SeqMod - 1
  BY <1>1, <1>2, DistFrom
<1>4. k \in 0 .. w  OBVIOUS
<1>a. AlikeIn(slots, ab_read, w) /\ (w > 0 => slots[BUFIDX(Plus(ab_write, -1))].ready)
  BY DEF MissingAlike, LastIsThere
<1> HIDE DEF w, R, n
<1>5. ASSUME NEW t \in Seqs, Dist(R, t) < n
      PROVE  /\ slots'[BUFIDX(t)].ready = slots[BUFIDX(t)].ready
             /\ slots'[BUFIDX(t)].init = slots[BUFIDX(t)].init
             /\ slots'[BUFIDX(t)].asked = slots[BUFIDX(t)].asked
  BY <1>2, <1>5
<1>6. AlikeIn(slots', R, n)
  <2> SUFFICES ASSUME NEW a \in Seqs, Dist(R, a) + 1 < n,
                      ~slots'[BUFIDX(a)].ready, ~slots'[BUFIDX(Plus(a, 1))].ready
               PROVE  /\ slots'[BUFIDX(a)].init = slots'[BUFIDX(Plus(a, 1))].init
                      /\ slots'[BUFIDX(a)].asked = slots'[BUFIDX(Plus(a, 1))].asked
    BY DEF AlikeIn
  <2> DEFINE b == Plus(a, 1)
  <2>1. b \in Seqs /\ Dist(R, b) = Dist(R, a) + 1
    <3>1. 1 \in 0 .. SeqMod - 1  BY <1>1
    <3>2. b \in Seqs /\ Dist(R, b) = IF Dist(R, a) + 1 < SeqMod THEN Dist(R, a) + 1
                                     ELSE Dist(R, a) + 1 - SeqMod
      BY <1>2, <3>1, DistPlus
    <3> QED  BY <1>1, <1>2, <1>3, <1>4, <3>2
  <2> HIDE DEF b
  <2>2. Dist(R, a) < n /\ Dist(R, b) < n  BY <1>1, <1>2, <1>3, <1>4, <2>1
  <2>3. Dist(ab_read, a) + 1 < w  BY <1>1, <1>2, <1>3, <1>4, <2>2
  <2>4. ~slots[BUFIDX(a)].ready /\ ~slots[BUFIDX(b)].ready  BY <1>5, <2>1, <2>2 DEF b
  <2>5. /\ slots[BUFIDX(a)].init = slots[BUFIDX(b)].init
        /\ slots[BUFIDX(a)].asked = slots[BUFIDX(b)].asked
    BY <1>a, <2>3, <2>4 DEF AlikeIn, b
  <2> QED  BY <1>5, <2>1, <2>2, <2>5 DEF b
<1>7. n > 0 => slots'[BUFIDX(Plus(ab_write, -1))].ready
  <2> SUFFICES ASSUME n > 0  PROVE slots'[BUFIDX(Plus(ab_write, -1))].ready
    OBVIOUS
  <2>1. Plus(ab_write, -1) \in Seqs /\ Dist(R, Plus(ab_write, -1)) = n - 1
    BY <1>1, <1>2, OneBefore DEF n
  <2>2. n \in Int /\ w > 0  BY <1>1, <1>2, <1>4
  <2>3. Dist(R, Plus(ab_write, -1)) < n  BY <2>1, <2>2
  <2> QED  BY <1>5, <1>a, <2>1, <2>2, <2>3
<1> QED  BY <1>6, <1>7 DEF MissingAlike, LastIsThere, AlikeIn, Dist, BUFIDX, Plus, R, n

\* A flush changes nothing a request goes by, in what it leaves.
LEMMA FlushKeepsNotes ==
  ASSUME TypeInv, HandleFlush, ab_synced'
  PROVE  \A i \in 0 .. BufferFrames - 1 :
           /\ slots'[i].init = slots[i].init /\ slots'[i].asked = slots[i].asked
<1> SUFFICES ASSUME NEW i \in 0 .. BufferFrames - 1
             PROVE  slots'[i].init = slots[i].init /\ slots'[i].asked = slots[i].asked
  OBVIOUS
<1>1. i \in DOMAIN slots /\ slots[i] \in SlotType  BY DEF TypeInv, SlotsOK
<1>2. CASE FlushVerdict \in {"all", "all but keep"}
  BY <1>2, Zenon DEF HandleFlush, ab_resync
<1>3. CASE FlushVerdict = "part"
  <2> DEFINE f == flush_rtp_timestamp
             j == BUFIDX(Plus(ab_read, FlushedPackets(f)))
  <2>1. slots' = [slots EXCEPT ![j] = Trimmed(slots[j], f)]
    BY <1>3, Zenon DEF HandleFlush, FlushPart
  <2> HIDE DEF j, f
  <2>2. slots'[i] = slots[i] \/ slots'[i] = Trimmed(slots[i], f)  BY <1>1, <2>1
  <2> QED  BY <1>1, <2>2 DEF Trimmed, SlotType
<1>4. CASE FlushVerdict \notin {"all", "all but keep", "part"}
  BY <1>4, Zenon DEF HandleFlush
<1> QED  BY <1>2, <1>3, <1>4

LEMMA RunInit == Init => RunInv
BY HintInit DEF Init, RunInv, MissingAlike, LastIsThere

\* A check goes on before the source has gone a ring further.
RequestsAreQuick ==
  \A r \in Receivers :
    rx[r].at = "sending" /\ ab_synced => Dist(rx[r].x, ab_write) <= BufferFrames

\* A check goes on from between two runs, or from a position that the player has passed.
ChecksGoOnInTurn ==
  \A r \in Receivers :
    LET x == rx[r].x
    IN  rx[r].at = "sending" =>
          /\ ab_synced
          /\ InBuffer(x) /\ x # ab_read => slots[BUFIDX(Plus(x, -1))].ready

\* A packet that arrives is good, and lies where it can be placed.
LEMMA PutsAreGood ==
  ASSUME ~BadPackets, BufferInv, NEW r \in Receivers,
         \/ \E ok \in Verdicts : PutFirst(r, ok)
         \/ \E p \in Packets, ok \in Verdicts : Put(r, p, ok)
  PROVE  \E p \in Packets : /\ player_put_packet(r, p, TRUE)
                            /\ ab_synced => CanBePlaced(SeqOf(p))
                            /\ rx[r].at # "sending"
<1>1. /\ rx \in [Receivers -> ReceiverState] /\ ab_read \in Seqs /\ ab_write \in Seqs
      /\ MaxAhead \in Nat /\ MaxLate \in Nat
  BY PlayerBufferAssumption DEF BufferInv, TypeInv, TypeOK, ReceiverState
<1>2. \A ok \in Verdicts : ok = TRUE  BY DEF Verdicts
<1>3. \A p \in Packets : /\ SeqOf(p) \in Seqs
                         /\ Dist(SeqOf(p), ab_read) \in Int /\ Dist(ab_read, ab_write) \in Int
                         /\ Dist(ab_read, SeqOf(p)) \in Int
  <2> SUFFICES ASSUME NEW p \in Packets
               PROVE  /\ SeqOf(p) \in Seqs
                      /\ Dist(SeqOf(p), ab_read) \in Int /\ Dist(ab_read, ab_write) \in Int
                      /\ Dist(ab_read, SeqOf(p)) \in Int
    OBVIOUS
  <2>1. SeqOf(p) \in Seqs  BY SeqOfType DEF Packets
  <2> QED  BY <1>1, <2>1, DistIs, Sizes DEF Seqs
<1>4. ASSUME NEW ok \in Verdicts, PutFirst(r, ok)
      PROVE  \E p \in Packets : /\ player_put_packet(r, p, TRUE)
                                /\ ab_synced => CanBePlaced(SeqOf(p))
                                /\ rx[r].at # "sending"
  <2>1. rx[r].packet \in Packets /\ player_put_packet(r, rx[r].packet, TRUE) /\ rx[r].at = "put"
    BY <1>1, <1>2, <1>4 DEF PutFirst, ReceiverState
  <2>2. ab_synced => CanBePlaced(SeqOf(rx[r].packet))
    BY <1>1, <1>3, <2>1 DEF BufferInv, PutsAreNear, CanStillCome, CanBePlaced
  <2> QED  BY <2>1, <2>2
<1>5. ASSUME NEW p \in Packets, NEW ok \in Verdicts, Put(r, p, ok)
      PROVE  \E q \in Packets : /\ player_put_packet(r, q, TRUE)
                                /\ ab_synced => CanBePlaced(SeqOf(q))
                                /\ rx[r].at # "sending"
  <2>1. /\ ab_synced => \/ Dist(ab_read, SeqOf(p)) <= MaxAhead
                        \/ Dist(SeqOf(p), ab_read) <= MaxLate
        /\ player_put_packet(r, p, ok) /\ rx[r].at = "idle"
    BY <1>5, Zenon DEF Put, Arriving
  <2>2. ab_synced => CanBePlaced(SeqOf(p))
    BY <1>1, <1>3, <2>1 DEF BufferInv, BufferIsBounded, CanBePlaced
  <2>3. player_put_packet(r, p, TRUE)  BY <1>2, <2>1
  <2> QED  BY <2>1, <2>2, <2>3
<1> QED  BY <1>4, <1>5

\* buffer_get_frame changes nothing ahead of the new read position.
LEMMA GetFrameReadsOn ==
  ASSUME NeverLapped, BufferInv, TypeInv', GetFrame
  PROVE  \/ UNCHANGED <<slots, ab_read>>
         \/ /\ ab_synced
            /\ \E k \in 0 .. Dist(ab_read, ab_write) :
                 /\ ab_read' = Plus(ab_read, k)
                 /\ \A t \in Seqs : InBuffer(t) /\ Dist(ab_read, t) >= k =>
                      slots'[BUFIDX(t)] = slots[BUFIDX(t)]
<1>1. ab_read \in Seqs /\ ab_write \in Seqs  BY DEF BufferInv, TypeInv, TypeOK
<1>2. Dist(ab_read, ab_write) \in 0 .. SeqMod - 1 /\ SeqMod \in Nat
  BY <1>1, DistFrom, Sizes
<1>3. CASE /\ UNCHANGED <<slots, playing>> /\ pc' = "top" /\ ab_synced
           /\ \E k \in 0 .. Dist(ab_read, ab_write) : ab_read' = Plus(ab_read, k)
  BY <1>3
<1>4. CASE /\ ab_synced
           /\ \E k \in 0 .. Dist(ab_read, ab_write) - 1 :
                /\ ab_read' = Plus(ab_read, k + 1) /\ Plus(ab_read', -1) = Plus(ab_read, k)
                /\ playing' = BUFIDX(Plus(ab_read, k))
           /\ \A j \in 0 .. BufferFrames - 1 :
                /\ slots'[j].seq = slots[j].seq /\ (slots'[j].ready => slots[j].ready)
                /\ j # playing' => slots'[j] = slots[j]
  <2>1. PICK k \in 0 .. Dist(ab_read, ab_write) - 1 :
          /\ ab_read' = Plus(ab_read, k + 1)
          /\ playing' = BUFIDX(Plus(ab_read, k))
    BY <1>4
  <2>2. /\ k + 1 \in 0 .. Dist(ab_read, ab_write) /\ k \in 0 .. SeqMod - 1
        /\ k < Dist(ab_read, ab_write)
    BY <1>2
  <2> DEFINE e == Plus(ab_read, k)
             n == Dist(ab_read, ab_write)
  <2>3. e \in Seqs /\ Dist(ab_read, e) = k
    <3>1. Dist(ab_read, ab_read) = 0  BY <1>1, DistFrom
    <3>2. e \in Seqs /\ Dist(ab_read, e) = IF 0 + k < SeqMod THEN 0 + k ELSE 0 + k - SeqMod
      BY <1>1, <2>2, <3>1, DistPlus
    <3> QED  BY <1>2, <2>2, <3>2
  <2>4. n \in Nat /\ n <= BufferFrames
    <3>1. n <= MaxAhead + 1  BY <1>4 DEF BufferInv, BufferIsBounded
    <3>2. MaxAhead < BufferFrames /\ BufferFrames \in Nat /\ MaxAhead \in Nat
      BY PlayerBufferAssumption DEF NeverLapped
    <3> HIDE DEF n
    <3>3. n \in Nat  BY <1>2 DEF n
    <3> QED  BY <3>1, <3>2, <3>3
  <2>5. ASSUME NEW t \in Seqs, InBuffer(t), Dist(ab_read, t) >= k + 1
        PROVE  slots'[BUFIDX(t)] = slots[BUFIDX(t)]
    <3>1. BUFIDX(t) # BUFIDX(e)
      <4>1. Dist(ab_read, t) < n /\ Dist(ab_read, e) < n
        BY <2>2, <2>3, <2>5 DEF InBuffer
      <4>2. t # e
        <5> HIDE DEF e
        <5> QED  BY <2>2, <2>3, <2>5
      <4> HIDE DEF e, n
      <4> QED  BY <1>1, <2>3, <2>4, <4>1, <4>2, NoSharing
    <3>2. BUFIDX(t) \in 0 .. BufferFrames - 1  BY IndexType, Sizes
    <3> QED  BY <1>4, <2>1, <3>1, <3>2
  <2> HIDE DEF n
  <2> QED  BY <1>4, <2>1, <2>2, <2>5 DEF n
<1> QED  BY <1>3, <1>4, GetFrameReads

LEMMA RunStep ==
  NeverLapped /\ ~BadPackets /\ RunInv /\ RequestsAreQuick /\ ChecksGoOnInTurn /\ [Next]_vars
    => RunInv'
<1> SUFFICES ASSUME NeverLapped, ~BadPackets, RunInv, RequestsAreQuick, ChecksGoOnInTurn,
                    [Next]_vars
             PROVE  RunInv'
  OBVIOUS
<1> DEFINE Rest == MissingAlike /\ LastIsThere
<1>0. HintInv /\ HintInv' /\ BufferInv /\ BufferInv' /\ TypeInv /\ TypeInv'
  BY HintStep DEF RunInv, HintInv, BufferInv
<1> SUFFICES Rest'  BY <1>0 DEF RunInv
<1>a. Rest  BY DEF RunInv
<1>b. /\ rx \in [Receivers -> ReceiverState] /\ ab_read \in Seqs /\ ab_write \in Seqs
      /\ MaxAhead \in Nat /\ MaxLate \in Nat
  BY <1>0, PlayerBufferAssumption DEF TypeInv, TypeOK, ReceiverState
<1>c. ASSUME UNCHANGED <<slots, ab_read, ab_write, ab_synced>>
      PROVE  Rest'
  BY <1>a, <1>c DEF MissingAlike, LastIsThere
<1>d. ASSUME ab_synced' = FALSE
      PROVE  Rest'
  BY <1>d DEF MissingAlike, LastIsThere
<1>1. ASSUME NEW r \in Receivers, NEW p \in Packets, ClearEarlyFlush(r, p)
      PROVE  Rest'
  BY <1>1, <1>c DEF ClearEarlyFlush, input
<1>2. ASSUME NEW r \in Receivers,
             \/ \E ok \in Verdicts : PutFirst(r, ok)
             \/ \E p \in Packets, ok \in Verdicts : Put(r, p, ok)
      PROVE  Rest'
  <2>1. PICK p \in Packets : /\ player_put_packet(r, p, TRUE)
                             /\ ab_synced => CanBePlaced(SeqOf(p))
    BY <1>0, <1>2, PutsAreGood
  <2> QED  BY <2>1, PutKeepsRuns
<1>4. ASSUME NEW r \in Receivers, ResumeCheck(r)
      PROVE  Rest'
  <2>1. /\ CheckFrom(r, slots, rx[r].x, ab_write, first_possibly_missing_frame, rx[r].absent)
        /\ UNCHANGED <<ab_read, ab_write, ab_synced>> /\ rx[r].at = "sending"
    BY <1>4 DEF ResumeCheck
  <2>2. CASE ~ab_synced  BY <1>d, <2>1, <2>2 DEF MissingAlike, LastIsThere
  <2>3. CASE ab_synced
    <3>1. /\ rx[r].x \in Seqs /\ SlotsOK(slots)
          /\ Dist(rx[r].x, ab_write) <= BufferFrames
          /\ InBuffer(rx[r].x) /\ rx[r].x # ab_read => slots[BUFIDX(Plus(rx[r].x, -1))].ready
      BY <1>0, <1>b, <2>1, <2>3
      DEF TypeInv, ReceiverState, ChecksGoOnInTurn, RequestsAreQuick
    <3>2. Dist(ab_read, ab_write) <= BufferFrames
      <4>1. Dist(ab_read, ab_write) \in 0 .. SeqMod - 1 /\ SeqMod \in Nat
        BY <1>b, DistFrom, Sizes
      <4>2. Dist(ab_read, ab_write) <= MaxAhead + 1
        BY <1>0, <2>3 DEF BufferInv, BufferIsBounded
      <4>3. MaxAhead < BufferFrames /\ BufferFrames \in Nat
        BY Sizes DEF NeverLapped
      <4> QED  BY <1>b, <4>1, <4>2, <4>3
    <3>3. AlikeIn(slots, ab_read, Dist(ab_read, ab_write))  BY <1>a, <2>3 DEF MissingAlike
    <3>4. AlikeIn(slots', ab_read, Dist(ab_read, ab_write))
      BY <1>b, <2>1, <2>3, <3>1, <3>2, <3>3, MarkKeepsAlike DEF InBuffer
    <3>5. MissingAlike'  BY <2>1, <3>4 DEF MissingAlike, AlikeIn, Dist, BUFIDX, Plus
    <3>6. \A i \in 0 .. BufferFrames - 1 : slots'[i].ready = slots[i].ready
      BY <2>1, <3>1, CheckChangesAsked
    <3>7. BUFIDX(Plus(ab_write, -1)) \in 0 .. BufferFrames - 1
      <4>1. ab_write \in Int /\ -1 \in Int  BY <1>b, Sizes
      <4>2. Plus(ab_write, -1) \in Int  BY <4>1, PlusType, Sizes
      <4> QED  BY <4>2, IndexType
    <3>8. LastIsThere'  BY <1>a, <2>1, <3>6, <3>7 DEF LastIsThere
    <3> QED  BY <3>5, <3>8
  <2> QED  BY <2>2, <2>3
<1>5. ASSUME NEW f \in FlushPoints, do_flush(f)
      PROVE  Rest'
  BY <1>5, <1>c DEF do_flush, input
<1>6. CASE player_thread_start
  BY <1>6, <1>d DEF player_thread_start
<1>7. CASE LoopTop
  BY <1>7, <1>c DEF LoopTop, input
<1>8. CASE NoFlush
  BY <1>8, <1>c DEF NoFlush, input
<1>9. CASE HandleFlush
  <2>1. UNCHANGED ab_write  BY <1>9 DEF HandleFlush
  <2>2. CASE ab_synced' = FALSE
    BY <1>d, <2>2
  <2>3. CASE UNCHANGED <<slots, ab_read, ab_synced>>
    BY <1>c, <2>1, <2>3
  <2>4. CASE /\ ab_synced /\ UNCHANGED ab_synced
             /\ \E k \in 0 .. Dist(ab_read, ab_write) - 1 : ab_read' = Plus(ab_read, k)
             /\ \A j \in 0 .. BufferFrames - 1 :
                  slots'[j].seq = slots[j].seq /\ slots'[j].ready = slots[j].ready
    <3>1. PICK k \in 0 .. Dist(ab_read, ab_write) - 1 : ab_read' = Plus(ab_read, k)
      BY <2>4
    <3>2. k \in 0 .. Dist(ab_read, ab_write)  BY <1>b, DistFrom
    <3>3. \A i \in 0 .. BufferFrames - 1 :
            slots'[i].init = slots[i].init /\ slots'[i].asked = slots[i].asked
      BY <1>0, <1>9, <2>4, FlushKeepsNotes
    <3>4. \A t \in Seqs : /\ slots'[BUFIDX(t)].ready = slots[BUFIDX(t)].ready
                          /\ slots'[BUFIDX(t)].init = slots[BUFIDX(t)].init
                          /\ slots'[BUFIDX(t)].asked = slots[BUFIDX(t)].asked
      <4>1. \A t \in Seqs : BUFIDX(t) \in 0 .. BufferFrames - 1  BY IndexType, Sizes
      <4> QED  BY <2>4, <3>3, <4>1
    <3> QED  BY <2>1, <2>4, <3>1, <3>2, <3>4, ReadingOnKeepsRuns
  <2> QED  BY <1>0, <1>9, <2>2, <2>3, <2>4, FlushReads
<1>10. CASE GetFrame
  <2>1. UNCHANGED <<ab_write, ab_synced>>  BY <1>10 DEF GetFrame
  <2>2. ASSUME ab_synced, NEW k \in 0 .. Dist(ab_read, ab_write), ab_read' = Plus(ab_read, k),
               \A t \in Seqs : InBuffer(t) /\ Dist(ab_read, t) >= k =>
                 slots'[BUFIDX(t)] = slots[BUFIDX(t)]
        PROVE  Rest'
    BY <2>1, <2>2, ReadingOnKeepsRuns
  <2> QED  BY <1>0, <1>10, <1>c, <2>1, <2>2, GetFrameReadsOn
<1>11. CASE PlayFrame
  BY <1>11, <1>c DEF PlayFrame, input
<1>12. CASE TimingArrives
  BY <1>12, <1>c DEF TimingArrives, input
<1>13. CASE set_requested_connection_state_to_output
  BY <1>13, <1>c DEF set_requested_connection_state_to_output, input
<1>14. CASE Tick
  BY <1>14, <1>c DEF Tick, input
<1>15. CASE UNCHANGED vars
  BY <1>15, <1>c DEF vars, input
<1> HIDE DEF Rest
<1> QED
  BY <1>1, <1>2, <1>4, <1>5, <1>6, <1>7, <1>8, <1>9, <1>10, <1>11, <1>12,
     <1>13, <1>14, <1>15
  DEF Next, Receiver, buffer_get_frame

-----------------------------------------------------------------------------
(* Where a check goes on, and what it asks for.                               *)

\* The ring is at most half the range of sequence numbers (1,024 of 65,536).
RingIsSmall == 2 * BufferFrames <= SeqMod

\* A check that stops to ask is to go on behind a packet that is there, or at the end.
LEMMA StopsBehindAPacket ==
  ASSUME NEW sl, NEW x \in Seqs, NEW wr \in Seqs, Scan(sl, x, wr).send
  PROVE  LET next == Scan(sl, x, wr).next
         IN  next = wr \/ sl[BUFIDX(Plus(next, -1))].ready
<1> DEFINE n      == Dist(x, wr)
           Steps  == 0 .. n - 1
           At(k)  == sl[BUFIDX(x + k)]
           Asked  == {k \in Steps : k < BufferFrames /\ Worth(At(k))}
           Stops  == {k \in Steps : EndOfRun(k, Asked, At(k), n)}
           last   == Least(Stops)
           scan   == Scan(sl, x, wr)
<1>1. /\ x \in Int /\ n \in 0 .. SeqMod - 1 /\ SeqMod \in Nat
      /\ Plus(x, n) = wr
  BY DistFrom, StepOf, Sizes
<1>2. scan.send = (Stops # {}) /\ (Stops # {} => scan.next = Plus(x, last + 1))
  BY DEF Scan
<1>3. Stops # {}  BY <1>2
<1>4. scan.next = Plus(x, last + 1)  BY <1>2, <1>3
<1> HIDE DEF n, scan
<1>5. Stops \subseteq Nat  BY <1>1
<1>6. last \in Stops
  <2> HIDE DEF Stops
  <2> QED  BY <1>3, <1>5, LeastExists
<1>7. \A k \in Stops : k \in 0 .. n - 1 /\ (At(k).ready \/ k = n - 1)
  BY DEF EndOfRun
<1> HIDE DEF Stops, last
<1>8. last \in 0 .. n - 1 /\ (At(last).ready \/ last = n - 1)  BY <1>6, <1>7
<1>9. CASE last = n - 1
  <2>1. last + 1 = n  BY <1>1, <1>9
  <2> QED  BY <1>1, <1>4, <2>1 DEF scan
<1>10. CASE At(last).ready
  <2> DEFINE e == Plus(x, last)
  <2>1. last \in Nat /\ 1 \in Nat /\ last + 1 < SeqMod /\ last + 1 \in Nat /\ 0 \in Nat
        /\ (last + 1) + 0 < SeqMod
    BY <1>1, <1>8
  <2>2. e \in Seqs /\ Dist(x, e) = last  BY <2>1, PlusPlus
  <2>3. scan.next \in Seqs /\ Dist(x, scan.next) = last + 1
    <3> DEFINE m == last + 1
    <3>1. m \in Nat /\ 0 \in Nat /\ m + 0 < SeqMod  BY <1>1, <2>1
    <3> HIDE DEF m
    <3>2. Plus(x, m) \in Seqs /\ Dist(x, Plus(x, m)) = m  BY <3>1, PlusPlus
    <3> QED  BY <1>4, <3>2 DEF m
  <2> HIDE DEF e
  <2>4. Dist(x, scan.next) > 0  BY <2>1, <2>3
  <2>5. Plus(scan.next, -1) \in Seqs /\ Dist(x, Plus(scan.next, -1)) = Dist(x, scan.next) - 1
    BY <2>3, <2>4, OneBefore
  <2>6. Dist(x, Plus(scan.next, -1)) = Dist(x, e)  BY <2>1, <2>2, <2>3, <2>5
  <2>7. Plus(scan.next, -1) = e  BY <2>2, <2>5, <2>6, DistFrom
  <2>8. BUFIDX(e) = BUFIDX(x + last)  BY <1>1, <2>1, IndexOfPlus DEF e
  <2>9. sl[BUFIDX(Plus(scan.next, -1))].ready  BY <1>10, <2>7, <2>8
  <2> QED  BY <2>9 DEF scan
<1> QED  BY <1>8, <1>9, <1>10

LEMMA PutKeepsTurns ==
  ASSUME NeverLapped, RingIsSmall, RunInv, RequestsAreQuick, ChecksGoOnInTurn,
         NEW r \in Receivers, NEW p \in Packets,
         player_put_packet(r, p, TRUE), ab_synced => CanBePlaced(SeqOf(p))
  PROVE  ChecksGoOnInTurn'
<1> USE DEF RunInv, HintInv, BufferInv
<1> DEFINE s     == SeqOf(p)
           place == Placed(s)
           R     == place.rd
           W     == place.wr
           sl    == Stored(place, p, TRUE)
           x     == CheckStart(R, W)
           w     == Dist(ab_read, ab_write)
<1>1. /\ TypeInv /\ ab_read \in Seqs /\ ab_write \in Seqs /\ s \in Seqs
      /\ rx \in [Receivers -> ReceiverState]
      /\ MaxAhead \in Nat /\ SeqMod \in Nat /\ SeqMod > 1 /\ BufferFrames \in Nat
      /\ MaxAhead < BufferFrames /\ 2 * BufferFrames <= SeqMod
  BY SeqOfType, PlayerBufferAssumption
  DEF TypeInv, TypeOK, ReceiverState, Packets, NeverLapped, RingIsSmall
<1>2. CASE ~connection_state_to_output
  <2>1. UNCHANGED input /\ rx' = [rx EXCEPT ![r] = Idle]
    BY <1>2, Zenon DEF player_put_packet
  <2>2. \A q \in Receivers : rx'[q].at = "sending" => rx'[q] = rx[q]
    BY <1>1, <2>1 DEF Idle
  <2> QED  BY <2>1, <2>2 DEF input, ChecksGoOnInTurn, InBuffer
<1>3. CASE connection_state_to_output
  <2>1. /\ ab_read' = R /\ ab_write' = W /\ ab_synced' = TRUE
        /\ CheckFrom(r, sl, x, W, -1, FALSE)
    BY <1>3, Zenon DEF player_put_packet
  <2>2. R \in Seqs /\ W \in Seqs  BY <1>1, PlacedType
  <2>3. /\ R = IF ab_synced THEN ab_read ELSE s
        /\ Dist(R, W) <= MaxAhead + 1
        /\ \A t \in place.gap : w <= Dist(ab_read, t)
        /\ ab_synced => w <= Dist(R, W)
    BY <1>1, PlacedFacts
  <2>4. x \in Seqs  BY CheckStartsWell
  <2>5. SlotsOK(sl)
    <3>1. now \in 0 .. MaxTime  BY PlayerBufferAssumption DEF TypeInv, TypeOK
    <3> QED  BY <3>1, StoredOK DEF TypeInv
  <2>6. \A t \in Seqs : Dist(R, t) < Dist(R, W) =>
          \/ t = s /\ sl[BUFIDX(t)].ready
          \/ t \in place.gap
          \/ ab_synced /\ sl[BUFIDX(t)] = slots[BUFIDX(t)]
    <3>1. \A t \in Seqs : Dist(R, t) < Dist(R, W) =>
            \/ t = s /\ sl[BUFIDX(t)] = GoodSlot(t, TsOf(p))
            \/ t \in place.gap
            \/ ab_synced /\ sl[BUFIDX(t)] = slots[BUFIDX(t)]
      BY <1>1, StoredFacts
    <3>2. \A t : GoodSlot(t, TsOf(p)).ready  BY DEF GoodSlot
    <3> HIDE DEF sl, place
    <3> QED  BY <3>1, <3>2
  <2>a. /\ \A q \in Receivers : rx[q].at = "sending" =>
             /\ ab_synced /\ rx[q].x \in Seqs /\ Dist(rx[q].x, ab_write) <= BufferFrames
             /\ Dist(ab_read, rx[q].x) < w /\ rx[q].x # ab_read
                  => slots[BUFIDX(Plus(rx[q].x, -1))].ready
        /\ ab_synced /\ w > 0 => slots[BUFIDX(Plus(ab_write, -1))].ready
    BY <1>1 DEF ReceiverState, ChecksGoOnInTurn, RequestsAreQuick, InBuffer, LastIsThere
  <2> HIDE DEF R, W, sl, x, s, place, w
  <2>7. /\ rx'[r].at = "sending" => /\ Scan(sl, x, W).send /\ rx'[r].x = Scan(sl, x, W).next
        /\ \A q \in Receivers \ {r} : rx'[q] = rx[q]
    <3> DEFINE scan == Scan(sl, x, W)
    <3>1. rx' = [rx EXCEPT ![r] =
             IF scan.send THEN [at |-> "sending", packet |-> 0, x |-> scan.next,
                                absent |-> ~NoneMissing(FALSE, scan),
                                start |-> scan.start, marked |-> scan.marked]
                          ELSE Idle]
      BY <2>1, Zenon DEF CheckFrom
    <3> HIDE DEF scan
    <3>2. /\ rx'[r].at = "sending" => scan.send /\ rx'[r].x = scan.next
          /\ \A q \in Receivers \ {r} : rx'[q] = rx[q]
      BY <1>1, <3>1 DEF Idle
    <3> QED  BY <3>2 DEF scan
  <2>8. \A i \in 0 .. BufferFrames - 1 : slots'[i].ready = sl[i].ready
    BY <2>1, <2>5, CheckChangesAsked
  <2>9. \A t \in Int : BUFIDX(Plus(t, -1)) \in 0 .. BufferFrames - 1
    <3> SUFFICES ASSUME NEW t \in Int  PROVE BUFIDX(Plus(t, -1)) \in 0 .. BufferFrames - 1
      OBVIOUS
    <3>1. -1 \in Int /\ t \in Int  OBVIOUS
    <3>2. Plus(t, -1) \in Int  BY <3>1, PlusType, Sizes
    <3> QED  BY <3>2, IndexType
  <2> SUFFICES ASSUME NEW q \in Receivers, rx'[q].at = "sending",
                      Dist(R, rx'[q].x) < Dist(R, W), rx'[q].x # R
               PROVE  slots'[BUFIDX(Plus(rx'[q].x, -1))].ready
    BY <2>1 DEF ChecksGoOnInTurn, InBuffer, Dist, BUFIDX, Plus
  <2>10. CASE q = r
    <3> DEFINE y == Scan(sl, x, W).next
    <3>1. rx'[q].x = y /\ y \in Seqs /\ y # W
      <4>1. Scan(sl, x, W).next \in Seqs  BY <2>2, <2>4, ScanFacts
      <4>2. Dist(R, W) \in Int  BY <2>2, DistFrom
      <4> QED  BY <2>7, <2>10, <4>1, <4>2
    <3>2. sl[BUFIDX(Plus(y, -1))].ready
      BY <2>2, <2>4, <2>7, <2>10, <3>1, StopsBehindAPacket
    <3> HIDE DEF y
    <3> QED  BY <2>8, <2>9, <3>1, <3>2, Sizes
  <2>11. CASE q # r
    <3> DEFINE y == rx[q].x
               d == Dist(R, y)
               e == Plus(y, -1)
    <3>1. /\ rx'[q] = rx[q] /\ rx[q].at = "sending" /\ ab_synced /\ y \in Seqs /\ R = ab_read
          /\ Dist(y, ab_write) <= BufferFrames
          /\ Dist(ab_read, y) < w /\ y # ab_read => slots[BUFIDX(e)].ready
      BY <2>3, <2>7, <2>11, <2>a
    <3>2. d < Dist(R, W) /\ y # R  BY <3>1
    <3>3. /\ d \in 0 .. SeqMod - 1 /\ w \in 0 .. SeqMod - 1 /\ Dist(R, W) \in 0 .. SeqMod - 1
          /\ Dist(y, ab_write) = IF d <= w THEN w - d ELSE w - d + SeqMod
          /\ (d = w => y = ab_write)
      <4>1. /\ Dist(R, y) \in 0 .. SeqMod - 1 /\ Dist(R, ab_write) \in 0 .. SeqMod - 1
            /\ Dist(R, W) \in 0 .. SeqMod - 1
            /\ Dist(y, ab_write) = IF Dist(R, y) <= Dist(R, ab_write)
                                     THEN Dist(R, ab_write) - Dist(R, y)
                                     ELSE Dist(R, ab_write) - Dist(R, y) + SeqMod
            /\ (Dist(R, y) = Dist(R, ab_write) <=> y = ab_write)
        <5> HIDE DEF y
        <5> QED  BY <1>1, <2>2, <3>1, DistFrom
      <4> QED  BY <3>1, <4>1 DEF w
    <3>4. d # 0
      <4>1. Dist(R, R) = 0 /\ (Dist(R, R) = Dist(R, y) <=> R = y)
        BY <2>2, <3>1, DistFrom
      <4> QED  BY <3>2, <4>1
    <3>5. e \in Seqs /\ Dist(R, e) = d - 1  BY <2>2, <3>1, <3>3, <3>4, OneBefore
    <3>6. d <= w
      <4> HIDE DEF d, y, e
      <4> QED  BY <1>1, <2>3, <3>1, <3>2, <3>3
    <3>7. slots[BUFIDX(e)].ready
      <4>1. CASE d < w
        BY <3>1, <3>2, <4>1
      <4>2. CASE d = w
        <5>1. y = ab_write /\ w > 0  BY <3>3, <3>4, <4>2
        <5> QED  BY <2>a, <3>1, <5>1
      <4> HIDE DEF d, y, e
      <4> QED  BY <3>3, <3>6, <4>1, <4>2
    <3>8. e \notin place.gap
      <4>1. Dist(ab_read, e) < w
        <5> HIDE DEF d, y, e
        <5> QED  BY <3>1, <3>3, <3>4, <3>5, <3>6
      <4>2. Dist(ab_read, e) \in Int  BY <1>1, <3>5, DistFrom
      <4> QED  BY <2>3, <3>3, <4>1, <4>2
    <3>9. Dist(R, e) < Dist(R, W)
      <4> HIDE DEF d, y, e
      <4> QED  BY <3>2, <3>3, <3>5
    <3>10. sl[BUFIDX(e)].ready  BY <2>6, <3>5, <3>7, <3>8, <3>9
    <3> QED  BY <2>8, <2>9, <3>1, <3>10, Sizes
  <2> QED  BY <2>10, <2>11
<1> QED  BY <1>2, <1>3

LEMMA ReadingOnKeepsTurns ==
  ASSUME NeverLapped, RunInv, ChecksGoOnInTurn, ab_synced,
         NEW k \in 0 .. Dist(ab_read, ab_write), ab_read' = Plus(ab_read, k),
         UNCHANGED <<ab_write, ab_synced, rx>>,
         \A t \in Seqs : InBuffer(t) /\ Dist(ab_read, t) >= k =>
           slots'[BUFIDX(t)].ready = slots[BUFIDX(t)].ready
  PROVE  ChecksGoOnInTurn'
<1> USE DEF RunInv, HintInv, BufferInv
<1> DEFINE w == Dist(ab_read, ab_write)
           R == ab_read'
<1>1. /\ ab_read \in Seqs /\ ab_write \in Seqs /\ SeqMod \in Nat
      /\ w \in 0 .. SeqMod - 1 /\ rx \in [Receivers -> ReceiverState]
      /\ Dist(ab_read, ab_read) = 0
  BY DistFrom, Sizes DEF TypeInv, TypeOK, ReceiverState
<1>2. /\ R \in Seqs /\ Dist(ab_read, R) = k
  <2>1. k \in 0 .. SeqMod - 1 /\ 0 + k < SeqMod /\ 0 + k = k  BY <1>1
  <2>2. R \in Seqs /\ Dist(ab_read, R) = IF 0 + k < SeqMod THEN 0 + k ELSE 0 + k - SeqMod
    BY <1>1, <2>1, DistPlus
  <2> QED  BY <2>1, <2>2
<1> SUFFICES ASSUME NEW q \in Receivers, rx[q].at = "sending",
                    Dist(R, rx[q].x) < Dist(R, ab_write), rx[q].x # R
             PROVE  slots'[BUFIDX(Plus(rx[q].x, -1))].ready
  BY DEF ChecksGoOnInTurn, InBuffer, Dist, BUFIDX, Plus
<1> DEFINE y == rx[q].x
           d == Dist(ab_read, y)
           e == Plus(y, -1)
<1>3. y \in Seqs  BY <1>1 DEF ReceiverState
<1> HIDE DEF R
<1>4. /\ Dist(R, y) = IF k <= d THEN d - k ELSE d - k + SeqMod
      /\ Dist(R, ab_write) = IF k <= w THEN w - k ELSE w - k + SeqMod
      /\ d \in 0 .. SeqMod - 1
      /\ (k = d <=> R = y)
  <2> HIDE DEF y
  <2>a. ab_read \in Seqs /\ R \in Seqs /\ y \in Seqs  BY <1>1, <1>2, <1>3
  <2>1. /\ Dist(R, y) = IF Dist(ab_read, R) <= Dist(ab_read, y)
                          THEN Dist(ab_read, y) - Dist(ab_read, R)
                          ELSE Dist(ab_read, y) - Dist(ab_read, R) + SeqMod
        /\ Dist(ab_read, R) = Dist(ab_read, y) <=> R = y
        /\ Dist(ab_read, y) \in 0 .. SeqMod - 1
    <3>1. Dist(R, y) = IF Dist(ab_read, R) <= Dist(ab_read, y)
                         THEN Dist(ab_read, y) - Dist(ab_read, R)
                         ELSE Dist(ab_read, y) - Dist(ab_read, R) + SeqMod
      BY <2>a, DistFrom
    <3>2. Dist(ab_read, R) = Dist(ab_read, y) <=> R = y
      BY <2>a, DistFrom
    <3>3. Dist(ab_read, y) \in 0 .. SeqMod - 1
      BY <2>a, DistFrom
    <3> QED  BY <3>1, <3>2, <3>3
  <2>2. Dist(R, ab_write) = IF Dist(ab_read, R) <= Dist(ab_read, ab_write)
                              THEN Dist(ab_read, ab_write) - Dist(ab_read, R)
                              ELSE Dist(ab_read, ab_write) - Dist(ab_read, R) + SeqMod
    BY <1>1, <1>2, DistFrom
  <2> QED  BY <1>2, <2>1, <2>2
<1>5. Dist(R, y) < Dist(R, ab_write) /\ y # R  OBVIOUS
<1>6. k < d /\ d < w
  <2>1. k \in 0 .. w  OBVIOUS
  <2> HIDE DEF y, d, w
  <2> QED  BY <1>1, <1>4, <1>5, <2>1
<1>7. y # ab_read /\ InBuffer(y)
  <2>1. d # 0  BY <1>1, <1>4, <1>6
  <2> QED  BY <1>1, <1>6, <2>1 DEF InBuffer
<1>8. slots[BUFIDX(e)].ready  BY <1>7 DEF ChecksGoOnInTurn
<1>9. e \in Seqs /\ Dist(ab_read, e) = d - 1
  <2> HIDE DEF y
  <2> QED  BY <1>1, <1>3, <1>4, <1>6, OneBefore
<1>10. InBuffer(e) /\ Dist(ab_read, e) >= k
  <2>1. d - 1 < w /\ d - 1 >= k  BY <1>1, <1>4, <1>6
  <2> QED  BY <1>9, <2>1 DEF InBuffer
<1> HIDE DEF e
<1> QED  BY <1>8, <1>9, <1>10 DEF e

\* A check that goes on and stops again.
LEMMA ResumeKeepsTurns ==
  ASSUME RunInv, ChecksGoOnInTurn, NEW r \in Receivers, ResumeCheck(r)
  PROVE  ChecksGoOnInTurn'
<1> USE DEF RunInv, HintInv, BufferInv
<1> DEFINE scan == Scan(slots, rx[r].x, ab_write)
<1>1. /\ rx \in [Receivers -> ReceiverState] /\ rx[r].x \in Seqs
      /\ ab_read \in Seqs /\ ab_write \in Seqs /\ SlotsOK(slots)
  BY DEF TypeInv, TypeOK, ReceiverState
<1>2. /\ CheckFrom(r, slots, rx[r].x, ab_write, first_possibly_missing_frame, rx[r].absent)
      /\ UNCHANGED <<ab_read, ab_write, ab_synced>> /\ ab_synced
  BY DEF ResumeCheck, ChecksGoOnInTurn
<1>3. rx' = [rx EXCEPT ![r] =
         IF scan.send THEN [at |-> "sending", packet |-> 0, x |-> scan.next,
                            absent |-> ~NoneMissing(rx[r].absent, scan),
                            start |-> scan.start, marked |-> scan.marked]
                      ELSE Idle]
  BY <1>2, Zenon DEF CheckFrom
<1>4. /\ rx'[r].at = "sending" => scan.send /\ rx'[r].x = scan.next
      /\ \A q \in Receivers \ {r} : rx'[q] = rx[q]
  <2> HIDE DEF scan
  <2> QED  BY <1>1, <1>3 DEF Idle
<1>5. \A i \in 0 .. BufferFrames - 1 : slots'[i].ready = slots[i].ready
  BY <1>1, <1>2, CheckChangesAsked
<1>6. \A t \in Seqs : BUFIDX(Plus(t, -1)) \in 0 .. BufferFrames - 1
  <2> SUFFICES ASSUME NEW t \in Seqs  PROVE BUFIDX(Plus(t, -1)) \in 0 .. BufferFrames - 1
    OBVIOUS
  <2>1. -1 \in Int /\ t \in Int  BY Sizes
  <2>2. Plus(t, -1) \in Int  BY <2>1, PlusType, Sizes
  <2> QED  BY <2>2, IndexType
<1>7. scan.next \in Seqs  BY <1>1, ScanFacts
<1>8. scan.send => scan.next = ab_write \/ slots[BUFIDX(Plus(scan.next, -1))].ready
  BY <1>1, StopsBehindAPacket
<1> HIDE DEF scan
<1> SUFFICES ASSUME NEW q \in Receivers, rx'[q].at = "sending",
                    Dist(ab_read, rx'[q].x) < Dist(ab_read, ab_write), rx'[q].x # ab_read
             PROVE  slots'[BUFIDX(Plus(rx'[q].x, -1))].ready
  BY <1>2 DEF ChecksGoOnInTurn, InBuffer, Dist, BUFIDX, Plus
<1>9. CASE q = r
  <2>1. Dist(ab_read, ab_write) \in Int  BY <1>1, DistFrom
  <2>2. scan.next # ab_write  BY <1>4, <1>9, <2>1
  <2> QED  BY <1>4, <1>5, <1>6, <1>7, <1>8, <1>9, <2>2
<1>10. CASE q # r
  <2>1. rx'[q] = rx[q] /\ rx[q].at = "sending" /\ rx[q].x \in Seqs
    BY <1>1, <1>4, <1>10 DEF ReceiverState
  <2>2. slots[BUFIDX(Plus(rx[q].x, -1))].ready
    BY <1>2, <2>1 DEF ChecksGoOnInTurn, InBuffer
  <2> QED  BY <1>5, <1>6, <2>1, <2>2
<1> QED  BY <1>9, <1>10

LEMMA TurnStep ==
  ASSUME NeverLapped, ~BadPackets, RingIsSmall, RunInv, RequestsAreQuick, ChecksGoOnInTurn,
         [Next]_vars, ab_synced /\ ~ab_synced' => \A r \in Receivers : rx[r].at # "sending"
  PROVE  ChecksGoOnInTurn'
<1>0. BufferInv /\ TypeInv /\ TypeInv'  BY HintStep DEF RunInv, HintInv, BufferInv
<1>b. ab_read \in Seqs /\ ab_write \in Seqs /\ rx \in [Receivers -> ReceiverState]
  BY <1>0 DEF TypeInv, TypeOK, ReceiverState
<1>c. ASSUME UNCHANGED <<slots, ab_read, ab_write, ab_synced>>,
             \A q \in Receivers : rx'[q].at = "sending" => rx'[q] = rx[q]
      PROVE  ChecksGoOnInTurn'
  BY <1>c DEF ChecksGoOnInTurn, InBuffer
<1>d. ASSUME ab_synced' = FALSE, UNCHANGED rx
      PROVE  ChecksGoOnInTurn'
  BY <1>d DEF ChecksGoOnInTurn
<1>1. ASSUME NEW r \in Receivers, NEW p \in Packets, ClearEarlyFlush(r, p)
      PROVE  ChecksGoOnInTurn'
  <2>1. /\ UNCHANGED <<slots, ab_read, ab_write, ab_synced>>
        /\ rx' = [rx EXCEPT ![r] = [Idle EXCEPT !.at = "put", !.packet = p]]
    BY <1>1 DEF ClearEarlyFlush, input
  <2>2. \A q \in Receivers : rx'[q].at = "sending" => rx'[q] = rx[q]
    BY <1>b, <2>1 DEF Idle
  <2> QED  BY <1>c, <2>1, <2>2
<1>2. ASSUME NEW r \in Receivers,
             \/ \E ok \in Verdicts : PutFirst(r, ok)
             \/ \E p \in Packets, ok \in Verdicts : Put(r, p, ok)
      PROVE  ChecksGoOnInTurn'
  <2>1. PICK p \in Packets : /\ player_put_packet(r, p, TRUE)
                             /\ ab_synced => CanBePlaced(SeqOf(p))
    BY <1>0, <1>2, PutsAreGood
  <2> QED  BY <2>1, PutKeepsTurns
<1>4. ASSUME NEW r \in Receivers, ResumeCheck(r)
      PROVE  ChecksGoOnInTurn'
  BY <1>4, ResumeKeepsTurns
<1>5. ASSUME NEW f \in FlushPoints, do_flush(f)
      PROVE  ChecksGoOnInTurn'
  BY <1>5, <1>c DEF do_flush, input
<1>6. CASE player_thread_start
  BY <1>6, <1>d DEF player_thread_start
<1>7. CASE LoopTop
  BY <1>7, <1>c DEF LoopTop, input
<1>8. CASE NoFlush
  BY <1>8, <1>c DEF NoFlush, input
<1>9. CASE HandleFlush
  <2>1. UNCHANGED <<ab_write, rx>>  BY <1>9 DEF HandleFlush
  <2>2. CASE ab_synced' = FALSE
    BY <1>d, <2>1, <2>2
  <2>3. CASE UNCHANGED <<slots, ab_read, ab_synced>>
    BY <1>c, <2>1, <2>3
  <2>4. CASE /\ ab_synced /\ UNCHANGED ab_synced
             /\ \E k \in 0 .. Dist(ab_read, ab_write) - 1 : ab_read' = Plus(ab_read, k)
             /\ \A j \in 0 .. BufferFrames - 1 :
                  slots'[j].seq = slots[j].seq /\ slots'[j].ready = slots[j].ready
    <3>1. PICK k \in 0 .. Dist(ab_read, ab_write) - 1 : ab_read' = Plus(ab_read, k)
      BY <2>4
    <3>2. k \in 0 .. Dist(ab_read, ab_write)  BY <1>b, DistFrom
    <3>3. \A t \in Seqs : slots'[BUFIDX(t)].ready = slots[BUFIDX(t)].ready
      <4>1. \A t \in Seqs : BUFIDX(t) \in 0 .. BufferFrames - 1  BY IndexType, Sizes
      <4> QED  BY <2>4, <4>1
    <3> QED  BY <2>1, <2>4, <3>1, <3>2, <3>3, ReadingOnKeepsTurns
  <2> QED  BY <1>0, <1>9, <2>2, <2>3, <2>4, FlushReads
<1>10. CASE GetFrame
  <2>1. UNCHANGED <<ab_write, ab_synced, rx>>  BY <1>10 DEF GetFrame
  <2>2. ASSUME ab_synced, NEW k \in 0 .. Dist(ab_read, ab_write), ab_read' = Plus(ab_read, k),
               \A t \in Seqs : InBuffer(t) /\ Dist(ab_read, t) >= k =>
                 slots'[BUFIDX(t)] = slots[BUFIDX(t)]
        PROVE  ChecksGoOnInTurn'
    BY <2>1, <2>2, ReadingOnKeepsTurns
  <2> QED  BY <1>0, <1>b, <1>10, <1>c, <2>1, <2>2, GetFrameReadsOn
<1>11. CASE PlayFrame
  BY <1>11, <1>c DEF PlayFrame, input
<1>12. CASE TimingArrives
  BY <1>12, <1>c DEF TimingArrives, input
<1>13. CASE set_requested_connection_state_to_output
  BY <1>13, <1>c DEF set_requested_connection_state_to_output, input
<1>14. CASE Tick
  BY <1>14, <1>c DEF Tick, input
<1>15. CASE UNCHANGED vars
  BY <1>15, <1>c DEF vars, input
<1> QED
  BY <1>1, <1>2, <1>4, <1>5, <1>6, <1>7, <1>8, <1>9, <1>10, <1>11, <1>12,
     <1>13, <1>14, <1>15
  DEF Next, Receiver, buffer_get_frame

\* The frames a check from x asks for are those of one request, and in the buffer.
LEMMA ExactCheck ==
  ASSUME NEW sl, NEW rd \in Seqs, NEW wr \in Seqs, NEW x \in Seqs,
         Dist(rd, wr) <= BufferFrames, Dist(rd, x) <= Dist(rd, wr),
         AlikeIn(sl, rd, Dist(rd, wr)), Scan(sl, x, wr).send
  PROVE  LET M     == Scan(sl, x, wr).marked
             start == Scan(sl, x, wr).start
         IN  /\ M = {Plus(start, k) : k \in 0 .. Cardinality(M) - 1}
             /\ M \subseteq {Plus(rd, k) : k \in 0 .. Dist(rd, wr) - 1}
<1> DEFINE n     == Dist(x, wr)
           d     == Dist(rd, x)
           w     == Dist(rd, wr)
           M     == Scan(sl, x, wr).marked
           start == Scan(sl, x, wr).start
<1>1. /\ d \in 0 .. SeqMod - 1 /\ w \in 0 .. SeqMod - 1 /\ n = w - d /\ n \in 0 .. SeqMod - 1
      /\ SeqMod \in Nat /\ BufferFrames \in Nat
  BY DistFrom, Sizes
<1>2. Dist(x, wr) <= BufferFrames  BY <1>1
<1>3. AlikeFrom(sl, x, Dist(x, wr))  BY AlikeFromThere
<1>4. PICK f \in 0 .. n - 1, l \in 0 .. n - 1 :
        f <= l /\ start = Plus(x, f) /\ M = {Plus(x, k) : k \in f .. l}
  BY <1>2, <1>3, ScanRun
<1>5. \A t \in M : t \in Seqs /\ Dist(x, t) < n
  BY <1>2, NeighboursMarked
<1> HIDE DEF M, start, n, d, w
<1>6. f \in Nat /\ l \in Nat /\ l < SeqMod  BY <1>1
<1>7. M = {Plus(start, k) : k \in 0 .. Cardinality(M) - 1}
  <2> DEFINE run == {Plus(x, k) : k \in f .. l}
             m   == Cardinality(run)
  <2>1. run = {Plus(Plus(x, f), j) : j \in 0 .. m - 1}
    BY <1>4, <1>6, RunIsCounted
  <2>2. M = run /\ start = Plus(x, f)  BY <1>4
  <2> HIDE DEF run
  <2> QED  BY <2>1, <2>2
<1>8. ASSUME NEW t \in M  PROVE \E k \in 0 .. w - 1 : t = Plus(rd, k)
  <2> DEFINE e == Dist(rd, t)
  <2>1. t \in Seqs /\ Dist(x, t) < n  BY <1>5
  <2>2. /\ e \in 0 .. SeqMod - 1
        /\ Dist(x, t) = IF d <= e THEN e - d ELSE e - d + SeqMod
    BY <2>1, DistFrom DEF d
  <2>3. Plus(rd, e) = t  BY <2>1, StepOf
  <2> HIDE DEF e
  <2>4. e \in 0 .. w - 1  BY <1>1, <2>1, <2>2
  <2> QED  BY <2>3, <2>4
<1> QED  BY <1>7, <1>8 DEF M, start, w

\* What RequestsAreExact says of one step.
RequestsMadeAreExact ==
  \A r \in Receivers :
    (/\ rx'[r].at = "sending" /\ rx'[r] # rx[r]
     /\ rx[r].at = "sending" => rx[r].x \in Window \cup {ab_write}) =>
       /\ rx'[r].marked =
            {Plus(rx'[r].start, k) : k \in 0 .. Cardinality(rx'[r].marked) - 1}
       /\ rx'[r].marked \subseteq Window'

\* A request made when a packet arrives.
LEMMA PutIsExact ==
  ASSUME NeverLapped, RunInv, NEW r \in Receivers, NEW p \in Packets,
         player_put_packet(r, p, TRUE), ab_synced => CanBePlaced(SeqOf(p))
  PROVE  RequestsMadeAreExact
<1> USE DEF RunInv, HintInv, BufferInv
<1> DEFINE s     == SeqOf(p)
           place == Placed(s)
           R     == place.rd
           W     == place.wr
           sl    == Stored(place, p, TRUE)
           x     == CheckStart(R, W)
           scan  == Scan(sl, x, W)
<1>1. rx \in [Receivers -> ReceiverState]  BY DEF TypeInv, TypeOK, ReceiverState
<1>2. CASE ~connection_state_to_output
  <2>1. rx' = [rx EXCEPT ![r] = Idle]  BY <1>2, Zenon DEF player_put_packet
  <2>2. \A q \in Receivers : rx'[q].at = "sending" => rx'[q] = rx[q]
    BY <1>1, <2>1 DEF Idle
  <2> QED  BY <2>2 DEF RequestsMadeAreExact
<1>3. CASE connection_state_to_output
  <2>1. /\ ab_read' = R /\ ab_write' = W /\ ab_synced' = TRUE
        /\ CheckFrom(r, sl, x, W, -1, FALSE)
    BY <1>3, Zenon DEF player_put_packet
  <2>2. AlikeIn(sl, R, Dist(R, W)) /\ Dist(R, W) <= BufferFrames  BY StoredAlike
  <2>3. x \in Seqs /\ Dist(R, x) <= Dist(R, W)  BY CheckStartsWell
  <2>4. R \in Seqs /\ W \in Seqs
    <3>1. s \in Seqs /\ ab_read \in Seqs /\ ab_write \in Seqs
      BY SeqOfType DEF Packets, TypeInv, TypeOK
    <3> QED  BY <3>1, PlacedType
  <2>5. rx' = [rx EXCEPT ![r] =
           IF scan.send THEN [at |-> "sending", packet |-> 0, x |-> scan.next,
                              absent |-> ~NoneMissing(FALSE, scan),
                              start |-> scan.start, marked |-> scan.marked]
                        ELSE Idle]
    BY <2>1, Zenon DEF CheckFrom
  <2> HIDE DEF R, W, sl, x, s, place
  <2>6. scan.send =>
          /\ scan.marked = {Plus(scan.start, k) : k \in 0 .. Cardinality(scan.marked) - 1}
          /\ scan.marked \subseteq {Plus(R, k) : k \in 0 .. Dist(R, W) - 1}
    BY <2>2, <2>3, <2>4, ExactCheck
  <2> HIDE DEF scan
  <2>7. Window' = {Plus(R, k) : k \in 0 .. Dist(R, W) - 1}
    BY <2>1 DEF Window, Plus, Dist
  <2>8. /\ rx'[r].at = "sending" => scan.send
        /\ scan.send => rx'[r].start = scan.start /\ rx'[r].marked = scan.marked
        /\ \A q \in Receivers \ {r} : rx'[q] = rx[q]
    BY <1>1, <2>5 DEF Idle
  <2> SUFFICES ASSUME NEW q \in Receivers, rx'[q].at = "sending", rx'[q] # rx[q]
               PROVE  /\ rx'[q].marked =
                           {Plus(rx'[q].start, k) : k \in 0 .. Cardinality(rx'[q].marked) - 1}
                      /\ rx'[q].marked \subseteq Window'
    BY DEF RequestsMadeAreExact
  <2>9. q = r  BY <2>8
  <2>10. rx'[q].start = scan.start /\ rx'[q].marked = scan.marked /\ scan.send
    BY <2>8, <2>9
  <2> QED  BY <2>6, <2>7, <2>10
<1> QED  BY <1>2, <1>3

\* A request made by a check that goes on.
LEMMA ResumeIsExact ==
  ASSUME NeverLapped, RunInv, ChecksGoOnInTurn, NEW r \in Receivers, ResumeCheck(r)
  PROVE  RequestsMadeAreExact
<1> USE DEF RunInv, HintInv, BufferInv
<1> DEFINE x    == rx[r].x
           scan == Scan(slots, x, ab_write)
           w    == Dist(ab_read, ab_write)
<1>1. /\ rx \in [Receivers -> ReceiverState] /\ x \in Seqs
      /\ ab_read \in Seqs /\ ab_write \in Seqs
  BY DEF TypeInv, TypeOK, ReceiverState
<1>2. /\ CheckFrom(r, slots, x, ab_write, first_possibly_missing_frame, rx[r].absent)
      /\ UNCHANGED <<ab_read, ab_write, ab_synced>> /\ ab_synced /\ rx[r].at = "sending"
  BY DEF ResumeCheck, ChecksGoOnInTurn
<1>3. rx' = [rx EXCEPT ![r] =
         IF scan.send THEN [at |-> "sending", packet |-> 0, x |-> scan.next,
                            absent |-> ~NoneMissing(rx[r].absent, scan),
                            start |-> scan.start, marked |-> scan.marked]
                      ELSE Idle]
  BY <1>2, Zenon DEF CheckFrom
<1>4. /\ rx'[r].at = "sending" => scan.send
      /\ scan.send => rx'[r].start = scan.start /\ rx'[r].marked = scan.marked
      /\ \A q \in Receivers \ {r} : rx'[q] = rx[q]
  <2> HIDE DEF scan, x
  <2> QED  BY <1>1, <1>3 DEF Idle
<1>5. w \in 0 .. SeqMod - 1 /\ SeqMod \in Nat /\ w <= BufferFrames
  <2>1. w \in 0 .. SeqMod - 1 /\ SeqMod \in Nat  BY <1>1, DistFrom, Sizes
  <2>2. w <= MaxAhead + 1  BY <1>2 DEF BufferIsBounded
  <2>3. MaxAhead < BufferFrames /\ BufferFrames \in Nat /\ MaxAhead \in Nat
    BY PlayerBufferAssumption DEF NeverLapped
  <2> HIDE DEF w
  <2> QED  BY <2>1, <2>2, <2>3
<1>6. Window = {Plus(ab_read, k) : k \in 0 .. w - 1}
  BY <1>2, Zenon DEF Window
<1>7. Window' = Window
  BY <1>2 DEF Window, Plus, Dist
<1>8. x \in Window => Dist(ab_read, x) <= w
  <2> SUFFICES ASSUME NEW k \in 0 .. w - 1, x = Plus(ab_read, k)
               PROVE  Dist(ab_read, x) <= w
    BY <1>6
  <2>1. k \in Nat /\ 0 \in Nat /\ k + 0 < SeqMod /\ k <= w
    <3> HIDE DEF w
    <3> QED  BY <1>5
  <2>2. Dist(ab_read, Plus(ab_read, k)) = k  BY <1>1, <2>1, PlusPlus
  <2> QED  BY <2>1, <2>2
<1>9. AlikeIn(slots, ab_read, w)  BY <1>2 DEF MissingAlike
<1>10. scan.send /\ Dist(ab_read, x) <= w =>
         /\ scan.marked = {Plus(scan.start, k) : k \in 0 .. Cardinality(scan.marked) - 1}
         /\ scan.marked \subseteq {Plus(ab_read, k) : k \in 0 .. w - 1}
  <2> HIDE DEF x
  <2> QED  BY <1>1, <1>5, <1>9, ExactCheck
<1> HIDE DEF scan
<1> SUFFICES ASSUME NEW q \in Receivers, rx'[q].at = "sending", rx'[q] # rx[q],
                    rx[q].at = "sending" => rx[q].x \in Window \cup {ab_write}
             PROVE  /\ rx'[q].marked =
                         {Plus(rx'[q].start, k) : k \in 0 .. Cardinality(rx'[q].marked) - 1}
                    /\ rx'[q].marked \subseteq Window'
  BY DEF RequestsMadeAreExact
<1>11. q = r  BY <1>4
<1>12. rx'[q].start = scan.start /\ rx'[q].marked = scan.marked /\ scan.send
  BY <1>4, <1>11
<1>13. Dist(ab_read, x) <= w
  <2>1. x \in Window \/ x = ab_write  BY <1>2, <1>11
  <2> QED  BY <1>5, <1>8, <2>1
<1> QED  BY <1>6, <1>7, <1>10, <1>12, <1>13

\* No flush empties the buffer while a request to resend is being sent.
NoRestartWhileAsking ==
  [][ab_synced /\ ~ab_synced' => \A r \in Receivers : rx[r].at # "sending"]_vars

\* The frames a receiver notes as asked for are those its request names, and they are all
\* still to be played (player_put_packet's resend check): as long as the source stays
\* within the ring, every packet can be decoded, and a request is sent before the source
\* has gone a ring further and before a flush empties the buffer.
THEOREM RequestsExact ==
  NeverLapped /\ ~BadPackets /\ RingIsSmall =>
    (Spec /\ []RequestsAreQuick /\ NoRestartWhileAsking => RequestsAreExact)
<1> SUFFICES ASSUME NeverLapped, ~BadPackets, RingIsSmall
             PROVE  Spec /\ []RequestsAreQuick /\ NoRestartWhileAsking => RequestsAreExact
  OBVIOUS
<1> DEFINE Inv == RunInv /\ ChecksGoOnInTurn
           Stays == ab_synced /\ ~ab_synced' => \A r \in Receivers : rx[r].at # "sending"
<1>1. Init => Inv
  <2>1. Init => ChecksGoOnInTurn  BY DEF Init, ChecksGoOnInTurn, Idle
  <2> QED  BY <2>1, RunInit
<1>2. Inv /\ RequestsAreQuick /\ [Next]_vars /\ [Stays]_vars => Inv'
  <2> SUFFICES ASSUME Inv, RequestsAreQuick, [Next]_vars, [Stays]_vars  PROVE Inv'
    OBVIOUS
  <2>1. Stays  BY DEF vars, input
  <2> QED  BY <2>1, RunStep, TurnStep
<1>3. Inv /\ [Next]_vars => [RequestsMadeAreExact]_vars
  <2> SUFFICES ASSUME Inv, Next  PROVE RequestsMadeAreExact
    OBVIOUS
  <2>0. BufferInv /\ rx \in [Receivers -> ReceiverState]
    BY DEF RunInv, HintInv, BufferInv, TypeInv, TypeOK, ReceiverState
  <2>a. ASSUME \A q \in Receivers : rx'[q].at = "sending" => rx'[q] = rx[q]
        PROVE  RequestsMadeAreExact
    BY <2>a DEF RequestsMadeAreExact
  <2>1. ASSUME NEW r \in Receivers, NEW p \in Packets, ClearEarlyFlush(r, p)
        PROVE  RequestsMadeAreExact
    <3>1. rx' = [rx EXCEPT ![r] = [Idle EXCEPT !.at = "put", !.packet = p]]
      BY <2>1 DEF ClearEarlyFlush
    <3>2. \A q \in Receivers : rx'[q].at = "sending" => rx'[q] = rx[q]
      BY <2>0, <3>1 DEF Idle
    <3> QED  BY <2>a, <3>2
  <2>2. ASSUME NEW r \in Receivers,
               \/ \E ok \in Verdicts : PutFirst(r, ok)
               \/ \E p \in Packets, ok \in Verdicts : Put(r, p, ok)
        PROVE  RequestsMadeAreExact
    <3>1. PICK p \in Packets : /\ player_put_packet(r, p, TRUE)
                               /\ ab_synced => CanBePlaced(SeqOf(p))
      BY <2>0, <2>2, PutsAreGood
    <3> QED  BY <3>1, PutIsExact
  <2>3. ASSUME NEW r \in Receivers, ResumeCheck(r)
        PROVE  RequestsMadeAreExact
    BY <2>3, ResumeIsExact
  <2>4. CASE UNCHANGED rx
    BY <2>4 DEF RequestsMadeAreExact
  <2>5. CASE \/ \E f \in FlushPoints : do_flush(f)
             \/ player_thread_start \/ buffer_get_frame \/ PlayFrame
             \/ TimingArrives \/ set_requested_connection_state_to_output \/ Tick
    BY <2>4, <2>5
    DEF do_flush, player_thread_start, buffer_get_frame, LoopTop, NoFlush, HandleFlush,
        GetFrame, PlayFrame, TimingArrives, set_requested_connection_state_to_output, Tick
  <2> QED  BY <2>1, <2>2, <2>3, <2>5 DEF Next, Receiver
<1>4. RequestsAreExact <=> [][RequestsMadeAreExact]_vars
  BY PTL DEF RequestsAreExact, RequestsMadeAreExact
<1> QED  BY <1>1, <1>2, <1>3, <1>4, PTL DEF Spec, NoRestartWhileAsking
=============================================================================
