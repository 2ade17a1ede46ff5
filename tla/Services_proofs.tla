-------------------------- MODULE Services_proofs --------------------------
(***************************************************************************)
(* Proofs about what serves the player: the activity monitor, the client's *)
(* remote control, and the synchronisation with the source.                *)
(***************************************************************************)
EXTENDS ActivityMonitor, Dacp, Synchronise, SequenceTheorems, TLAPS

\* What makes ActivityMatchesPlay inductive.  The state follows the player at once
\* when it becomes active, and without a timeout also when it stops, so that the
\* monitor thread has nothing to end; and where the hooks of the conversation are
\* says how far the messages and the DAC have followed.
ActivityInv ==
  /\ ActivityTypeOK
  /\ playing => state # "am_inactive"
  /\ zero_timeout =>
       /\ ~playing => state = "am_inactive"
       /\ monitor \in {"lock", "am_inactive", "am_active"}
       /\ playing => caller \notin {"going_inactive", "not_busy"}
       /\ playing /\ caller \in {"busy", "signal", "idle"} => announced
       /\ playing /\ caller \in {"signal", "idle"} => keep_dac_busy

\* The program starts inactive, with nothing playing.
LEMMA ActivityInvInit == ActivityInit => ActivityInv
BY DEF ActivityInit, ActivityInv, ActivityTypeOK, States, Unlocked

\* No step of either thread, nor a cancellation inside a hook, breaks it.
LEMMA ActivityInvStep == ActivityInv /\ [ActivityNext]_amvars => ActivityInv'
<1> SUFFICES ASSUME ActivityInv, [ActivityNext]_amvars PROVE ActivityInv'
  OBVIOUS
<1> USE DEF ActivityInv, ActivityTypeOK, States, Unlocked
<1>1. CASE UNCHANGED amvars
  BY <1>1 DEF amvars
<1>2. ASSUME NEW active \in BOOLEAN, signify_activity(active) PROVE ActivityInv'
  BY <1>2 DEF signify_activity, HookFor
<1>3. CASE Hooks
  <2>1. CASE Announce
    <3>1. announced' \in BOOLEAN /\ (announced' <=> caller = "going_active")
      BY <2>1, Zenon DEF Announce
    <3>2. QED
      BY <2>1, <3>1 DEF Announce
  <2>2. CASE SetDac
    <3>1. keep_dac_busy' \in BOOLEAN /\ (keep_dac_busy' <=> caller = "busy")
      BY <2>2, Zenon DEF SetDac
    <3>2. QED
      BY <2>2, <3>1 DEF SetDac
  <2>3. CASE Signal
    BY <2>3 DEF Signal
  <2>4. QED
    BY <1>3, <2>1, <2>2, <2>3 DEF Hooks
<1>4. CASE CancelCaller
  BY <1>4 DEF CancelCaller
<1>5. CASE Switch \/ am_inactive \/ am_active
  BY <1>5 DEF Switch, am_inactive, am_active, Stays, Moves
<1>6. CASE am_timing_out
  BY <1>6 DEF am_timing_out, Stays, Moves
<1>7. CASE TimeOut
  BY <1>7 DEF TimeOut
<1>8. CASE AnnounceEnd
  BY <1>8 DEF AnnounceEnd
<1>9. CASE ReleaseDac
  BY <1>9 DEF ReleaseDac
<1>10. QED
  BY <1>1, <1>2, <1>3, <1>4, <1>5, <1>6, <1>7, <1>8, <1>9 DEF ActivityNext, Monitor

\* A playing session means an active state, whichever thread comes first, and
\* without a timeout also a DAC kept busy and abeg as the last message, although
\* calls may be cancelled anywhere in their hooks (activity_monitor_signify_activity,
\* activity_thread_code).
THEOREM ActivityFollowsPlay == ActivitySpec => []ActivityMatchesPlay
<1>1. ActivityInv => ActivityMatchesPlay
  BY DEF ActivityInv, ActivityMatchesPlay, ActiveWhilePlaying, PlayKeepsDacBusy
<1>2. QED
  BY ActivityInvInit, ActivityInvStep, <1>1, PTL DEF ActivitySpec

-----------------------------------------------------------------------------
(* The remote control of the client that plays. *)

\* Every remote listens on a port of its own, and the port that is known is a port of
\* the remote that the player was last given to serve.
RemoteInv ==
  /\ server.id \in Remotes \cup {NoId}
  /\ server.port # NoPort => server.port.of = server.id
  /\ server = [id |-> server.id, port |-> server.port, scan |-> server.scan]
  /\ DOMAIN up = Remotes
  /\ \A r \in Remotes : up[r] # NoPort => up[r].of = r

LEMMA RemoteInvStep == RemoteInv /\ [DacpNext]_dacpvars => RemoteInv'
<1> SUFFICES ASSUME RemoteInv, [DacpNext]_dacpvars PROVE RemoteInv'
  OBVIOUS
<1> USE DEF RemoteInv
<1>a. ASSUME UNCHANGED <<server, up>>  PROVE RemoteInv'
  BY <1>a
<1>1. ASSUME NEW d \in Remotes \cup {NoId}, set_dacp_server_information(d)
      PROVE  RemoteInv'
  <2>1. UNCHANGED up /\ SetServer(d)  BY <1>1 DEF set_dacp_server_information
  <2>2. CASE d = NoId \/ d # server.id
    <3>1. server' = [id |-> d, port |-> NoPort, scan |-> FALSE]
      BY <2>1, <2>2, Zenon DEF SetServer
    <3> QED  BY <2>1, <3>1
  <2>3. CASE ~(d = NoId \/ d # server.id)
    <3>1. server' = [server EXCEPT !.scan = (@ \/ server.port # NoPort)]
      BY <2>1, <2>3, Zenon DEF SetServer
    <3>2. /\ server'.id = server.id /\ server'.port = server.port
          /\ server' = [id |-> server'.id, port |-> server'.port, scan |-> server'.scan]
      <4> DEFINE b == server.scan \/ server.port # NoPort
      <4>1. server' = [[id |-> server.id, port |-> server.port, scan |-> server.scan]
                         EXCEPT !.scan = b]
        BY <3>1
      <4> HIDE DEF b
      <4> QED  BY <4>1
    <3> QED  BY <2>1, <3>2
  <2> QED  BY <2>2, <2>3
<1>2. ASSUME NEW r \in Remotes, BrowserReports(r)
      PROVE  RemoteInv'
  <2>1. UNCHANGED up /\ (server' = server \/ dacp_monitor_port_update_callback(r, up[r]))
    BY <1>2 DEF BrowserReports
  <2>2. ASSUME server.id = r, server' = [server EXCEPT !.port = up[r], !.scan = (up[r] # NoPort)]
        PROVE  RemoteInv'
    <3> DEFINE b == up[r] # NoPort
               u == up[r]
    <3>1. server' = [[id |-> server.id, port |-> server.port, scan |-> server.scan]
                       EXCEPT !.port = u, !.scan = b]
      BY <2>2
    <3>2. u # NoPort => u.of = r  OBVIOUS
    <3> HIDE DEF b, u
    <3>3. server' = [id |-> server.id, port |-> u, scan |-> b]  BY <3>1
    <3> QED  BY <2>1, <2>2, <3>2, <3>3
  <2> QED  BY <1>a, <2>1, <2>2 DEF dacp_monitor_port_update_callback
<1>3. ASSUME NEW r \in Remotes, RemoteChanges(r)
      PROVE  RemoteInv'
  <2>1. /\ UNCHANGED server
        /\ up' = [up EXCEPT ![r] = IF up[r] = NoPort THEN PortOf(r, restarts + 2) ELSE NoPort]
    BY <1>3 DEF RemoteChanges
  <2>2. PortOf(r, restarts + 2).of = r  BY DEF PortOf
  <2> QED  BY <2>1, <2>2
<1>4. ASSUME NEW r \in Remotes, RemoteHangs(r)
      PROVE  RemoteInv'
  BY <1>4, <1>a DEF RemoteHangs
<1>5. CASE MonitorTop
  BY <1>5, <1>a DEF MonitorTop
<1>6. CASE MonitorWakes
  BY <1>6, <1>a DEF MonitorWakes
<1>7. CASE dacp_get_volume
  BY <1>7, <1>a DEF dacp_get_volume
<1>8. CASE MonitorBrowses
  BY <1>8, <1>a DEF MonitorBrowses
<1>9. CASE MonitorNotes
  BY <1>9, <1>a DEF MonitorNotes
<1>10. CASE UNCHANGED dacpvars
  BY <1>10, <1>a DEF dacpvars
<1> QED
  BY <1>1, <1>2, <1>3, <1>4, <1>5, <1>6, <1>7, <1>8, <1>9, <1>10 DEF DacpNext, DacpMonitor

\* Commands go to the remote they are meant for: the port that is known was reported
\* for the remote that the player serves (set_dacp_server_information,
\* dacp_monitor_port_update_callback), whatever the browser reports late, and however
\* the remotes come and go.
THEOREM PortOfTheRemote == DacpSpec => []PortIsOfTheRemote
<1>1. DacpInit => RemoteInv
  BY DEF DacpInit, RemoteInv
<1>2. RemoteInv => PortIsOfTheRemote
  BY DEF RemoteInv, PortIsOfTheRemote
<1> QED  BY <1>1, <1>2, RemoteInvStep, PTL DEF DacpSpec

-----------------------------------------------------------------------------
(***************************************************************************)
(* Synchronisation.                                                        *)
(***************************************************************************)
LEMMA Division ==
  ASSUME NEW m \in Nat \ {0}, NEW x \in Int
  PROVE  \E q \in Int : \E r \in 0 .. m - 1 : x % m = r /\ x = m * q + r
<1> DEFINE q == x \div m
           r == x % m
<1>1. r = x - m * q  BY SMT
<1>2. q \in Int  BY SMT
<1>3. r \in 0 .. m - 1  BY SMT
<1> HIDE DEF q, r
<1>4. x = m * q + r  BY <1>1, <1>2, <1>3, SMT
<1> QED  BY <1>2, <1>3, <1>4 DEF r

LEMMA Remainder ==
  ASSUME NEW m \in Nat \ {0}, NEW q \in Int, NEW r \in 0 .. m - 1
  PROVE  (m * q + r) % m = r
<1> DEFINE x == m * q + r
<1>1. x \in Int  BY SMT
<1>2. PICK p \in Int, e \in 0 .. m - 1 : x % m = e /\ x = m * p + e
  <2> HIDE DEF x
  <2> QED  BY <1>1, Division
<1>3. m * (q - p) = e - r  BY <1>2, SMT
<1>4. q - p >= 1 => m * (q - p) >= m  BY SMT
<1>5. q - p <= -1 => m * (q - p) <= -m  BY SMT
<1>6. q - p = 0  BY <1>3, <1>4, <1>5, SMT
<1>7. m * (q - p) = 0  BY <1>6, SMT
<1> QED  BY <1>2, <1>3, <1>7, SMT

\* The error is computed modulo sixteen times, or less, of what a timestamp's sign is worth;
\* that much comes to the same for every whole number of turns.
LEMMA SignExtendTurns ==
  ASSUME NEW b \in Nat, SignBit = b, NEW e \in Int, -b < e, e < b, NEW n \in Int
  PROVE  SignExtend(2 * b * n + e) = e
<1>1. 2 * b \in Nat \ {0}  OBVIOUS
<1>2. CASE e >= 0
  <2>1. (2 * b * n + e) % (2 * b) = e  BY <1>1, <1>2, Remainder
  <2> QED  BY <2>1 DEF SignExtend
<1>3. CASE e < 0
  <2>1. (2 * b * (n - 1) + (e + 2 * b)) % (2 * b) = e + 2 * b
    <3>1. e + 2 * b \in 0 .. 2 * b - 1 /\ n - 1 \in Int  BY <1>3
    <3> QED  BY <1>1, <3>1, Remainder
  <2>2. 2 * b * (n - 1) + (e + 2 * b) = 2 * b * n + e  BY SMT
  <2>3. ~(e + 2 * b < b) /\ (e + 2 * b) - 2 * b = e  BY SMT
  <2> QED  BY <2>1, <2>2, <2>3 DEF SignExtend
<1> QED  BY <1>2, <1>3

\* How late a packet may be, with the jolts that the bound allows and one correction.
Bound == MaxLate + PacketFrames

\* Wherever the timestamps have wrapped and however the lateness is shared between the
\* delay of the output and the time of the source, the error computed is the true one.
LEMMA SyncErrorIsLate ==
  ASSUME output_sample_ratio \in {1, 2, 4, 8}, given_timestamp \in 0 .. Modulus - 1,
         late \in -Bound .. Bound, NEW delay \in Delays
  PROVE  SyncError(delay) = late
<1> DEFINE r == output_sample_ratio
<1>1. /\ HalfModulus \in Nat \ {0} /\ Bound \in Nat /\ Bound < HalfModulus
      /\ Modulus = 2 * HalfModulus /\ Modulus \in Nat \ {0}
  BY SyncAssumption DEF SyncAssumption, Bound, Modulus
<1>2. given_timestamp \in Nat /\ late \in Int  BY <1>1
<1>3. r \in Nat \ {0} /\ SignBit = r * HalfModulus /\ r * HalfModulus \in Nat \ {0}
      /\ HalfModulus <= r * HalfModulus
  BY <1>1 DEF SignBit
<1>4. PICK q \in Int : delay \in Int /\ late - delay = r * q /\ (late - delay) \div r = q
  <2>1. late % r \in 0 .. r - 1 /\ late % r = late - r * (late \div r) /\ late \div r \in Int
    BY <1>2, SMT
  <2>2. delay \in {late % r, (late % r) + r}  BY DEF Delays
  <2>3. delay \in Int /\ late - delay \in {r * (late \div r), r * ((late \div r) - 1)}
    BY <2>1, <2>2, SMT
  <2>4. \A k \in Int : (r * k) \div r = k  BY SMT
  <2>5. PICK k \in Int : late - delay = r * k
    <3>1. (late \div r) - 1 \in Int  BY <2>1
    <3> QED  BY <2>1, <2>3, <3>1, Zenon
  <2>6. (late - delay) \div r = k  BY <2>4, <2>5
  <2> QED  BY <2>3, <2>5, <2>6
<1>5. PICK k \in Int : ShouldBe(delay) = given_timestamp + q - Modulus * k
  <2>1. PICK k \in Int, d \in 0 .. Modulus - 1 :
          (given_timestamp + q) % Modulus = d /\ given_timestamp + q = Modulus * k + d
    BY <1>1, <1>2, Division
  <2>2. d = given_timestamp + q - Modulus * k  BY <1>1, <1>2, <2>1, SMT
  <2> QED  BY <1>4, <2>1, <2>2 DEF ShouldBe
<1>6. PICK j \in Int : (given_timestamp * r - delay) % (2 * SignBit)
                         = given_timestamp * r - delay - (2 * SignBit) * j
  <2>1. given_timestamp * r - delay \in Int /\ 2 * SignBit \in Nat \ {0}
    BY <1>2, <1>3, <1>4
  <2>2. PICK j \in Int, d \in 0 .. 2 * SignBit - 1 :
          /\ (given_timestamp * r - delay) % (2 * SignBit) = d
          /\ given_timestamp * r - delay = (2 * SignBit) * j + d
    BY <2>1, Division
  <2>3. (2 * SignBit) * j \in Int  BY <2>1
  <2>4. d = given_timestamp * r - delay - (2 * SignBit) * j
    BY <2>1, <2>2, <2>3
  <2> QED  BY <2>2, <2>4
<1>7. ShouldBe(delay) * r - (given_timestamp * r - delay - (2 * SignBit) * j)
        = 2 * SignBit * (j - k) + late
  <2>1. SignBit \in Nat /\ 2 * SignBit = Modulus * r  BY <1>1, <1>3, SMT
  <2>2. (given_timestamp + q - Modulus * k) * r = given_timestamp * r + q * r - (2 * SignBit) * k
    BY <1>1, <1>2, <1>3, <2>1, SMT
  <2>3. (2 * SignBit) * (j - k) = (2 * SignBit) * j - (2 * SignBit) * k
    BY <2>1, SMT
  <2>4. q * r = late - delay  BY <1>3, <1>4, SMT
  <2> DEFINE a == given_timestamp * r
             b == (2 * SignBit) * j
             c == (2 * SignBit) * k
  <2>5. a \in Int /\ b \in Int /\ c \in Int  BY <1>2, <1>3, <2>1
  <2> HIDE DEF a, b, c
  <2>6. ShouldBe(delay) * r = a + (late - delay) - c  BY <1>5, <2>2, <2>4 DEF a, c
  <2>7. 2 * SignBit * (j - k) = b - c  BY <2>3 DEF b, c
  <2>8. ShouldBe(delay) * r - (a - delay - b) = (b - c) + late
    BY <1>2, <1>4, <2>5, <2>6
  <2>9. ShouldBe(delay) * r - (a - delay - b) = 2 * SignBit * (j - k) + late
    BY <2>7, <2>8
  <2> QED  BY <2>9 DEF a, b
<1>8. SignExtend(2 * SignBit * (j - k) + late) = late
  <2>1. SignBit \in Nat /\ -SignBit < late /\ late < SignBit /\ j - k \in Int
    BY <1>1, <1>2, <1>3
  <2> QED  BY <1>2, <2>1, SignExtendTurns
<1> QED  BY <1>6, <1>7, <1>8 DEF SyncError
\* A packet with its frame left out or put in, place by place.
LEMMA StuffedPlaces ==
  ASSUME NEW stuff \in {-1, 0, 1}, NEW place \in Places
  PROVE  LET o == stuff_buffer_basic_32(stuff, place) IN
           /\ Len(o) = PacketFrames + stuff
           /\ \A i \in 1 .. PacketFrames + stuff :
                o[i] = IF stuff = 0 \/ i <= place THEN <<i, i>>
                       ELSE IF stuff = 1 /\ i = place + 1 THEN <<place, place + 1>>
                       ELSE <<i - stuff, i - stuff>>
<1> DEFINE S == Int \X Int
           n == PacketFrames
           next == place + (IF stuff = 1 THEN 1 ELSE 2)
           head == SubSeq(Packet, 1, place)
           middle == IF stuff = 1 THEN <<<<place, place + 1>>>> ELSE <<>>
           tail == SubSeq(Packet, next, n)
<1>1. n \in Nat /\ n >= 3 /\ place \in 1 .. n - 2 /\ next \in 2 .. n
  BY SyncAssumption DEF SyncAssumption, Places
<1>2. Packet \in Seq(S) /\ Len(Packet) = n /\ \A i \in 1 .. n : Packet[i] = <<i, i>>
  BY <1>1 DEF Packet
<1>3. CASE stuff = 0
  BY <1>1, <1>2, <1>3 DEF stuff_buffer_basic_32
<1>4. CASE stuff # 0
  <2>1. /\ head \in Seq(S) /\ Len(head) = place
        /\ \A i \in 1 .. place : head[i] = <<i, i>>
    <3>1. \A i \in 1 .. place : Packet[i] \in S  BY <1>1, <1>2
    <3>2. /\ SubSeq(Packet, 1, place) \in Seq(S)
          /\ Len(SubSeq(Packet, 1, place)) = IF 1 <= place THEN place - 1 + 1 ELSE 0
          /\ \A i \in 1 .. place - 1 + 1 : SubSeq(Packet, 1, place)[i] = Packet[1 + i - 1]
      <4> HIDE DEF S
      <4>1. place \in Int  BY <1>1
      <4> QED  BY <3>1, <4>1, SubSeqProperties
    <3> QED  BY <1>1, <1>2, <3>2
  <2>2. /\ tail \in Seq(S) /\ Len(tail) = n - next + 1
        /\ \A i \in 1 .. n - next + 1 : tail[i] = <<next + i - 1, next + i - 1>>
    <3> HIDE DEF next
    <3>1. \A i \in next .. n : Packet[i] \in S  BY <1>1, <1>2
    <3>2. /\ SubSeq(Packet, next, n) \in Seq(S)
          /\ Len(SubSeq(Packet, next, n)) = IF next <= n THEN n - next + 1 ELSE 0
          /\ \A i \in 1 .. n - next + 1 : SubSeq(Packet, next, n)[i] = Packet[next + i - 1]
      <4> HIDE DEF S
      <4>1. next \in Int /\ n \in Int  BY <1>1
      <4> QED  BY <3>1, <4>1, SubSeqProperties
    <3> QED  BY <1>1, <1>2, <3>2
  <2>3. /\ middle \in Seq(S) /\ Len(middle) = (IF stuff = 1 THEN 1 ELSE 0)
        /\ stuff = 1 => middle[1] = <<place, place + 1>>
    BY <1>1
  <2>4. stuff_buffer_basic_32(stuff, place) = (head \o middle) \o tail
    BY <1>4 DEF stuff_buffer_basic_32
  <2> HIDE DEF head, middle, tail, S
  <2>5. /\ head \o middle \in Seq(S)
        /\ Len(head \o middle) = Len(head) + Len(middle)
        /\ \A i \in 1 .. Len(head) + Len(middle) :
             (head \o middle)[i] = IF i <= Len(head) THEN head[i] ELSE middle[i - Len(head)]
    BY <2>1, <2>3, ConcatProperties
  <2>6. PICK o : o = (head \o middle) \o tail  OBVIOUS
  <2>7. /\ Len(o) = Len(head \o middle) + Len(tail)
        /\ \A i \in 1 .. Len(head \o middle) + Len(tail) :
             o[i] = IF i <= Len(head \o middle) THEN (head \o middle)[i]
                    ELSE tail[i - Len(head \o middle)]
    BY <2>2, <2>5, <2>6, ConcatProperties
  <2>8. Len(o) = n + stuff  BY <1>1, <1>4, <2>1, <2>2, <2>3, <2>5, <2>7
  <2>9. ASSUME NEW i \in 1 .. n + stuff
        PROVE  o[i] = IF i <= place THEN <<i, i>>
                      ELSE IF stuff = 1 /\ i = place + 1 THEN <<place, place + 1>>
                      ELSE <<i - stuff, i - stuff>>
    <3>1. CASE i <= place
      BY <1>1, <1>4, <2>1, <2>2, <2>3, <2>5, <2>7, <3>1
    <3>2. CASE stuff = 1 /\ i = place + 1
      <4>1. i \in 1 .. Len(head \o middle) /\ i - Len(head) = 1 /\ ~(i <= Len(head))
        BY <1>1, <2>1, <2>3, <2>5, <3>2
      <4>2. o[i] = (head \o middle)[i]  BY <2>2, <2>5, <2>7, <1>1, <4>1
      <4>3. (head \o middle)[i] = middle[1]  BY <2>5, <4>1
      <4>4. o[i] = <<place, place + 1>>  BY <2>3, <3>2, <4>2, <4>3
      <4>5. ~(i <= place)  BY <1>1, <3>2
      <4> QED  BY <3>2, <4>4, <4>5
    <3>3. CASE i > place /\ ~(stuff = 1 /\ i = place + 1)
      <4>1. PICK l \in Nat : l = Len(head \o middle)  BY <1>1, <2>1, <2>3, <2>5
      <4>2. l = IF stuff = 1 THEN place + 1 ELSE place  BY <1>1, <1>4, <2>1, <2>3, <2>5, <4>1
      <4>3. i > l /\ i - l \in 1 .. n - next + 1 /\ next + (i - l) - 1 = i - stuff
        BY <1>1, <1>4, <3>3, <4>2
      <4>4. i \in 1 .. l + Len(tail)  BY <1>1, <2>2, <4>3
      <4>5. o[i] = tail[i - l]  BY <2>7, <4>1, <4>3, <4>4
      <4>6. tail[i - l] = <<i - stuff, i - stuff>>  BY <2>2, <4>3
      <4> QED  BY <1>1, <3>3, <4>5, <4>6
    <3> QED  BY <1>1, <3>1, <3>2, <3>3
  <2> QED  BY <1>4, <2>4, <2>6, <2>8, <2>9
<1> QED  BY <1>3, <1>4

\* A packet in the buffer for the output is whole, as PacketIsWhole says it.
Whole(o, stuff) ==
  /\ Len(o) = PacketFrames + stuff
  /\ o[1] = <<1, 1>> /\ o[Len(o)] = <<PacketFrames, PacketFrames>>
  /\ \A i \in 1 .. Len(o) - 1 :
       (o[i + 1][1] + o[i + 1][2]) - (o[i][1] + o[i][2]) \in 1 .. 4

LEMMA StuffedIsWhole ==
  ASSUME NEW stuff \in {-1, 0, 1}, NEW place \in Places
  PROVE  Whole(stuff_buffer_basic_32(stuff, place), stuff)
<1>1. PacketFrames \in Nat /\ PacketFrames >= 3 /\ place \in 1 .. PacketFrames - 2
  BY SyncAssumption DEF SyncAssumption, Places
<1>2. PICK o : o = stuff_buffer_basic_32(stuff, place)  OBVIOUS
<1>3. /\ Len(o) = PacketFrames + stuff
      /\ \A i \in 1 .. PacketFrames + stuff :
           o[i] = IF stuff = 0 \/ i <= place THEN <<i, i>>
                  ELSE IF stuff = 1 /\ i = place + 1 THEN <<place, place + 1>>
                  ELSE <<i - stuff, i - stuff>>
  BY <1>2, StuffedPlaces
<1>4. o[1] = <<1, 1>> /\ o[Len(o)] = <<PacketFrames, PacketFrames>>
  <2>1. 1 \in 1 .. PacketFrames + stuff /\ 1 <= place  BY <1>1
  <2>2. o[1] = <<1, 1>>  BY <1>3, <2>1
  <2>3. PICK l \in 1 .. PacketFrames + stuff : l = PacketFrames + stuff  BY <1>1
  <2>4. l - stuff = PacketFrames /\ ~(l <= place) /\ ~(stuff = 1 /\ l = place + 1)
    BY <1>1, <2>3
  <2>5. o[l] = IF stuff = 0 THEN <<l, l>> ELSE <<l - stuff, l - stuff>>  BY <1>3, <2>4
  <2>6. o[l] = <<PacketFrames, PacketFrames>>  BY <1>1, <2>3, <2>4, <2>5
  <2> QED  BY <1>3, <2>2, <2>3, <2>6
<1>5. ASSUME NEW i \in 1 .. Len(o) - 1
      PROVE  (o[i + 1][1] + o[i + 1][2]) - (o[i][1] + o[i][2]) \in 1 .. 4
  <2>1. i \in 1 .. PacketFrames + stuff /\ i + 1 \in 1 .. PacketFrames + stuff  BY <1>1, <1>3
  <2>2. CASE stuff = 0
    BY <1>1, <1>3, <2>1, <2>2
  <2>3. CASE stuff = 1
    <3>1. /\ o[i] = IF i <= place THEN <<i, i>> ELSE IF i = place + 1 THEN <<place, place + 1>>
                    ELSE <<i - 1, i - 1>>
          /\ o[i + 1] = IF i + 1 <= place THEN <<i + 1, i + 1>>
                        ELSE IF i = place THEN <<place, place + 1>> ELSE <<i, i>>
      BY <1>1, <1>3, <2>1, <2>3
    <3> QED  BY <1>1, <2>1, <2>3, <3>1
  <2>4. CASE stuff = -1
    <3>1. /\ o[i] = IF i <= place THEN <<i, i>> ELSE <<i + 1, i + 1>>
          /\ o[i + 1] = IF i + 1 <= place THEN <<i + 1, i + 1>> ELSE <<i + 2, i + 2>>
      BY <1>1, <1>3, <2>1, <2>4
    <3> QED  BY <1>1, <2>1, <2>4, <3>1
  <2> QED  BY <2>2, <2>3, <2>4
<1> QED  BY <1>2, <1>3, <1>4, <1>5 DEF Whole
\* What makes the error true and the packet whole, in every step: the lateness stays within
\* the bound, and the packet is the one amountStuffed speaks of.
SyncInv ==
  /\ output_sample_ratio \in {1, 2, 4, 8} /\ given_timestamp \in 0 .. Modulus - 1
  /\ late \in -Bound .. Bound /\ out_of_bounds \in 0 .. 3
  /\ amountStuffed \in {-1, 0, 1} /\ number_of_statistics \in 0 .. trend_interval
  /\ ErrorIsTrue
  /\ outbuf # <<>> => Whole(outbuf, amountStuffed)

LEMMA SyncInvInit == SyncInit => SyncInv
<1> SUFFICES ASSUME SyncInit PROVE SyncInv
  OBVIOUS
<1>1. Bound \in Nat /\ EarlyBias \in 0 .. Bound /\ 1 \in 0 .. Bound /\ Modulus \in Nat \ {0}
  BY SyncAssumption DEF SyncAssumption, Bound, Modulus
<1>2. output_sample_ratio \in {1, 2, 4, 8} /\ trend_interval \in Nat
  BY SyncAssumption DEF SyncAssumption, SyncInit
<1> QED  BY <1>1, <1>2 DEF SyncInit, SyncInv, ErrorIsTrue

LEMMA NextTimestampType ==
  ASSUME SyncInv, NextTimestamp PROVE given_timestamp' \in 0 .. Modulus - 1
<1>1. Modulus \in Nat \ {0} /\ given_timestamp + PacketFrames \in Int
  BY SyncAssumption DEF SyncAssumption, Modulus, SyncInv
<1> QED  BY <1>1, Division DEF NextTimestamp

LEMMA RecordCounts ==
  ASSUME SyncInv, NEW e, NEW c, Record(e, c)
  PROVE  number_of_statistics' \in 0 .. trend_interval
BY SyncAssumption DEF SyncAssumption, SyncInv, Record, Full

\* The silence that makes up for an early packet must be longer than that packet, which is
\* left out for it.
SilenceIsLongEnough == PacketFrames <= 5 * ResyncThreshold

LEMMA PlaySyncedStep == SyncInv /\ PlaySynced => SyncInv'
<1> SUFFICES ASSUME SyncInv, PlaySynced PROVE SyncInv'
  OBVIOUS
<1>1. PICK delay \in Delays, s \in 0 .. Tolerance, place \in Places :
        LET raw == SyncError(delay)
            e == FirstError(raw)
            stuff == AmountToStuff(e, s)
        IN /\ OutOfBounds(e) => out_of_bounds < 3
           /\ out_of_bounds' = IF OutOfBounds(e) THEN out_of_bounds + 1 ELSE 0
           /\ sync_error' = raw /\ late_then' = late
           /\ outbuf' = stuff_buffer_basic_32(stuff, place) /\ amountStuffed' = stuff
           /\ late' = late + (e - raw) + (Len(outbuf') - PacketFrames)
           /\ Record(e, stuff)
  BY DEF PlaySynced
<1>2. SyncError(delay) = late  BY SyncErrorIsLate DEF SyncInv
<1>3. PICK e : e = FirstError(late)  OBVIOUS
<1>4. PICK stuff : stuff = AmountToStuff(e, s)  OBVIOUS
<1>5. /\ OutOfBounds(e) => out_of_bounds < 3
      /\ out_of_bounds' = IF OutOfBounds(e) THEN out_of_bounds + 1 ELSE 0
      /\ sync_error' = late /\ late_then' = late
      /\ outbuf' = stuff_buffer_basic_32(stuff, place) /\ amountStuffed' = stuff
      /\ late' = late + (e - late) + (Len(outbuf') - PacketFrames)
      /\ Record(e, stuff)
  BY <1>1, <1>2, <1>3, <1>4
<1>6. Bound \in Nat /\ PacketFrames \in Nat /\ Tolerance \in Nat
  BY SyncAssumption DEF SyncAssumption, Bound
<1>7. e \in Int /\ -Bound <= e /\ e <= Bound
  BY <1>3, <1>6 DEF FirstError, SyncInv
<1>8. stuff \in {-1, 0, 1} /\ (stuff = -1 => e > 0) /\ (stuff = 1 => e < 0)
  BY <1>4, <1>6, <1>7 DEF AmountToStuff
<1>9. Whole(outbuf', stuff)  BY <1>5, <1>8, StuffedIsWhole
<1>10. late' = e + stuff
  <2>1. late \in Int /\ stuff \in Int  BY <1>6, <1>8 DEF SyncInv
  <2>2. Len(outbuf') = PacketFrames + stuff  BY <1>9, Zenon DEF Whole
  <2>3. late' = late + (e - late) + (Len(outbuf') - PacketFrames)  BY <1>5, Zenon
  <2> QED  BY <1>6, <1>7, <2>1, <2>2, <2>3
<1>11. late' \in -Bound .. Bound  BY <1>6, <1>7, <1>8, <1>10
<1>12. out_of_bounds' \in 0 .. 3  BY <1>5 DEF SyncInv
<1>13. number_of_statistics' \in 0 .. trend_interval  BY <1>5, RecordCounts
<1>14. given_timestamp' \in 0 .. Modulus - 1 /\ output_sample_ratio' = output_sample_ratio
  BY NextTimestampType DEF PlaySynced
<1>15. Whole(outbuf, amountStuffed)'  BY <1>5, <1>9 DEF Whole
<1> QED
  BY <1>5, <1>8, <1>11, <1>12, <1>13, <1>14, <1>15 DEF SyncInv, ErrorIsTrue, Modulus, Bound

LEMMA ResyncStep == SilenceIsLongEnough /\ SyncInv /\ Resync => SyncInv'
<1> SUFFICES ASSUME SilenceIsLongEnough, SyncInv, Resync PROVE SyncInv'
  OBVIOUS
<1>1. PICK delay \in Delays :
        LET e == FirstError(SyncError(delay))
        IN /\ OutOfBounds(e) /\ out_of_bounds = 3
           /\ sync_error' = SyncError(delay) /\ late_then' = late
           /\ \/ /\ e > 0
                 /\ \E l \in {-EarlyBias, 0} : late' = l
                 /\ after_flush' = 0
              \/ /\ e < 0
                 /\ late' = late + SilenceLength(e) - PacketFrames
                 /\ UNCHANGED after_flush
           /\ Record(e, amountStuffed)
  BY DEF Resync
<1>2. SyncError(delay) = late  BY SyncErrorIsLate DEF SyncInv
<1>3. /\ Bound \in Nat /\ PacketFrames \in 0 .. Bound /\ EarlyBias \in 0 .. Bound
      /\ PacketFrames <= 5 * ResyncThreshold /\ ResyncThreshold \in Nat
  BY SyncAssumption DEF SyncAssumption, Bound, SilenceIsLongEnough
<1>4. late' \in -Bound .. Bound
  <2>1. late \in Int /\ -Bound <= late  BY <1>3 DEF SyncInv
  <2>2. CASE \E l \in {-EarlyBias, 0} : late' = l
    BY <1>3, <2>2
  <2>3. CASE FirstError(late) < 0 /\ late' = late + SilenceLength(FirstError(late)) - PacketFrames
    <3>1. FirstError(late) = late /\ late < 0  BY <2>1, <2>3 DEF FirstError
    <3>2. late' = IF -late < 5 * ResyncThreshold THEN -PacketFrames
                  ELSE late + 5 * ResyncThreshold - PacketFrames
      BY <1>3, <2>1, <2>3, <3>1 DEF SilenceLength, Lesser
    <3> QED  BY <1>3, <2>1, <3>1, <3>2
  <2> QED  BY <1>1, <1>2, <2>2, <2>3
<1>5. number_of_statistics' \in 0 .. trend_interval  BY <1>1, RecordCounts
<1>6. given_timestamp' \in 0 .. Modulus - 1  BY NextTimestampType DEF Resync
<1>7. sync_error' = late /\ late_then' = late  BY <1>1, <1>2
<1> QED
  BY <1>4, <1>5, <1>6, <1>7 DEF Resync, SyncInv, ErrorIsTrue, Modulus, Bound

LEMMA SyncInvStep == SilenceIsLongEnough /\ SyncInv /\ [SyncNext]_svars => SyncInv'
<1> SUFFICES ASSUME SilenceIsLongEnough, SyncInv, [SyncNext]_svars PROVE SyncInv'
  OBVIOUS
<1> USE DEF SyncInv, ErrorIsTrue, Modulus, Bound, Whole
<1>1. CASE UNCHANGED svars
  BY <1>1 DEF svars, windowvars
<1>2. CASE PlaySilence
  BY <1>2, NextTimestampType DEF PlaySilence, windowvars
<1>3. CASE PlayUnsynced
  <2>1. 1 \in Places  BY SyncAssumption DEF SyncAssumption, Places
  <2>2. Whole(stuff_buffer_basic_32(0, 1), 0)  BY <2>1, StuffedIsWhole
  <2>3. number_of_statistics' \in 0 .. trend_interval
    BY <1>3, RecordCounts DEF PlayUnsynced
  <2>4. given_timestamp' \in 0 .. Modulus - 1  BY <1>3, NextTimestampType DEF PlayUnsynced
  <2> QED  BY <1>3, <2>2, <2>3, <2>4 DEF PlayUnsynced
<1>4. CASE PlaySynced
  BY <1>4, PlaySyncedStep
<1>5. CASE Resync
  BY <1>5, ResyncStep
<1>6. CASE Jolt
  <2>1. PICK j \in Jolts : Magnitude(late + j) <= MaxLate /\ late' = late + j
    BY <1>6 DEF Jolt
  <2>2. late' \in -Bound .. Bound
    BY <2>1, SyncAssumption DEF SyncAssumption, Magnitude
  <2> QED  BY <1>6, <2>2 DEF Jolt, windowvars
<1>7. CASE Settle
  BY <1>7 DEF Settle, windowvars
<1> QED  BY <1>1, <1>2, <1>3, <1>4, <1>5, <1>6, <1>7 DEF SyncNext

\* The player knows exactly how late it is, wherever the timestamps have wrapped, and every
\* packet is given to the output whole; with the sums, which the run checks, that is
\* SyncIsExact (player_thread_func, stuff_buffer_basic_32).  resync_threshold must be a
\* fifth of a packet at least: below that, every silence that is played for an early packet
\* is shorter than the packet left out for it, and the stream gets earlier and earlier.
THEOREM ErrorIsExact ==
  SilenceIsLongEnough => (SyncSpec => [](SumsMatchWindow => SyncIsExact))
<1> SUFFICES ASSUME SilenceIsLongEnough
             PROVE  SyncSpec => [](SumsMatchWindow => SyncIsExact)
  OBVIOUS
<1>1. SyncInv => (SumsMatchWindow => SyncIsExact)
  <2> SUFFICES ASSUME SyncInv, SumsMatchWindow PROVE SyncIsExact
    OBVIOUS
  <2>1. SyncTypeOK
    <3>1. MaxLate + PacketFrames \in Nat  BY SyncAssumption DEF SyncAssumption
    <3> QED  BY <3>1 DEF SyncInv, SyncTypeOK, Magnitude, Bound
  <2>2. PacketIsWhole  BY DEF SyncInv, PacketIsWhole, Whole
  <2> QED  BY <2>1, <2>2 DEF SyncInv, SyncIsExact
<1>2. SyncInv /\ [SyncNext]_svars => SyncInv'  BY SyncInvStep
<1> QED  BY <1>1, <1>2, SyncInvInit, PTL DEF SyncSpec
=============================================================================
