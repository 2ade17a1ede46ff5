--------------------------- MODULE Outputs_proofs ---------------------------
(***************************************************************************)
(* Proofs about what the player and the metadata drive: the metadata hub   *)
(* and its watchers, the ALSA device, volume and mute, the volume set over *)
(* DACP, and the ring of the PulseAudio backend.                           *)
(***************************************************************************)
EXTENDS MCOutputs, SequenceTheorems, FiniteSetTheorems, WellFoundedInduction, TLAPS

(* The metadata hub. *)

PacketMessages == [code : {"mdst", "mden"}] \cup ItemMessages

\* What is left of a packet ends with 'mden' and has 'mdst' at most in front.
PacketInv ==
  /\ packet \in Seq(PacketMessages)
  /\ packet # <<>> => packet[Len(packet)].code = "mden"
  /\ \A i \in 2 .. Len(packet) : packet[i].code # "mdst"

Told == /\ mpris = mpris_metadata_watcher(store, status)
        /\ dbus = dbus_metadata_watcher(store, status, dbus.sticky)

\* Before a packet and at its start the watchers know everything; within it, what they
\* do not know is noted.
TellingInv ==
  /\ packet = <<>> \/ packet[1].code = "mdst" => Told
  /\ ~Told => packet_item_changed

StoreInv == store = [i \in Fields |-> store[i]]

ArtInv ==
  /\ \A p \in DOMAIN artDir : artDir[p] = "whole"
  /\ store["PICT"] \in Pictures => store["PICT"] \in DOMAIN artDir

LEMMA StickyTwice ==
  ASSUME NEW s, NEW old PROVE StickyText(s, StickyText(s, old)) = StickyText(s, old)
BY DEF StickyText

\* The end of a change tells the watchers, unless the change is not for them.
LEMMA EpilogTells ==
  ASSUME NEW modified, NEW s, NEW st, metadata_hub_modify_epilog(modified, s, st),
         modified \in BOOLEAN,
         Told /\ ~modified => /\ mpris = mpris_metadata_watcher(s, st)
                              /\ dbus = dbus_metadata_watcher(s, st, dbus.sticky)
  PROVE  Told \/ modified => Told'
<1>1. store' = s /\ status' = st  BY DEF metadata_hub_modify_epilog
<1>2. Told' <=> /\ mpris' = mpris_metadata_watcher(s, st)
                /\ dbus' = dbus_metadata_watcher(s, st, dbus'.sticky)
  BY <1>1 DEF Told, mpris_metadata_watcher, dbus_metadata_watcher, StickyText
<1>3. CASE modified
  <2>1. /\ mpris' = mpris_metadata_watcher(s, st)
        /\ dbus' = dbus_metadata_watcher(s, st, dbus.sticky)
    BY <1>3 DEF metadata_hub_modify_epilog, run_metadata_watchers
  <2>2. dbus'.sticky = StickyText(s, dbus.sticky)
    BY <2>1 DEF dbus_metadata_watcher
  <2>3. dbus_metadata_watcher(s, st, dbus'.sticky) = dbus_metadata_watcher(s, st, dbus.sticky)
    BY <2>2, StickyTwice DEF dbus_metadata_watcher
  <2> QED  BY <1>2, <2>1, <2>3
<1>4. CASE ~modified
  <2>1. UNCHANGED <<mpris, dbus>>
    BY <1>4 DEF metadata_hub_modify_epilog
  <2> QED  BY <1>2, <1>4, <2>1
<1> QED  BY <1>3, <1>4

LEMMA UpdatedStore ==
  ASSUME StoreInv, NEW i \in Items, NEW v
  PROVE  /\ Updated(store, i, v) = [j \in Fields |-> Updated(store, i, v)[j]]
         /\ \A j \in Fields \ {i} : Updated(store, i, v)[j] = store[j]
         /\ i # "PICT"
BY HubAssumption
DEF StoreInv, Updated, AllItems, CoreItems, TextCore, NumberCore, QuietCore, TextAlone, Fields

\* The song description is published by no watcher.
LEMMA QuietItemsAreNotShown ==
  ASSUME StoreInv, NEW i \in Items \cap QuietCore, NEW v, NEW st, NEW old
  PROVE  LET s == Updated(store, i, v)
         IN  /\ mpris_metadata_watcher(s, st) = mpris_metadata_watcher(store, st)
             /\ dbus_metadata_watcher(s, st, old) = dbus_metadata_watcher(store, st, old)
<1> DEFINE s == Updated(store, i, v)
<1>1. \A j \in Fields \ {i} : s[j] = store[j]  BY UpdatedStore
<1>2. i \notin MprisItems /\ MprisItems \subseteq Fields
  BY DEF QuietCore, MprisItems, Fields
<1>3. i \notin DbusItems /\ DbusItems \subseteq Fields
  BY DEF QuietCore, DbusItems, Fields
<1>4. i \notin StickyItems /\ StickyItems \subseteq Fields
  BY DEF QuietCore, StickyItems, Fields
<1> HIDE DEF s
<1>5. [j \in MprisItems |-> s[j]] = [j \in MprisItems |-> store[j]]  BY <1>1, <1>2
<1>6. [j \in DbusItems |-> s[j]] = [j \in DbusItems |-> store[j]]  BY <1>1, <1>3
<1>7. StickyText(s, old) = StickyText(store, old)  BY <1>1, <1>4 DEF StickyText
<1> QED
  BY <1>5, <1>6, <1>7 DEF mpris_metadata_watcher, dbus_metadata_watcher, s

HubInv == StoreInv /\ PacketInv /\ TellingInv

\* A message has been taken from the front of the packet.
LEMMA PacketGoesOn ==
  ASSUME PacketInv, packet # <<>>, packet' = Tail(packet)
  PROVE  /\ PacketInv'
         /\ packet' # <<>> => packet'[1].code # "mdst"
         /\ packet[1].code # "mden" => packet' # <<>>
         /\ Head(packet) = packet[1] /\ packet[1] \in PacketMessages
<1>1. /\ packet \in Seq(PacketMessages) /\ Len(packet) \in Nat /\ Len(packet) >= 1
      /\ packet[Len(packet)].code = "mden"
      /\ \A i \in 2 .. Len(packet) : packet[i].code # "mdst"
  BY DEF PacketInv
<1>2. /\ packet' \in Seq(PacketMessages) /\ Len(packet') = Len(packet) - 1
      /\ \A i \in 1 .. Len(packet') : packet'[i] = packet[i + 1]
      /\ Head(packet) = packet[1] /\ packet[1] \in PacketMessages
  BY <1>1, HeadTailProperties
<1>3. packet' # <<>> => /\ Len(packet') \in 1 .. Len(packet') /\ 1 \in 1 .. Len(packet')
  BY <1>1, <1>2
<1>4. packet' # <<>> => packet'[Len(packet')] = packet[Len(packet)] /\ packet'[1] = packet[2]
                        /\ 2 \in 2 .. Len(packet)
  BY <1>1, <1>2, <1>3
<1>5. \A i \in 2 .. Len(packet') : packet'[i].code # "mdst"
  <2> SUFFICES ASSUME NEW i \in 2 .. Len(packet')  PROVE packet'[i].code # "mdst"
    OBVIOUS
  <2>1. i + 1 \in 2 .. Len(packet) /\ i \in 1 .. Len(packet')  BY <1>1, <1>2
  <2> QED  BY <1>1, <1>2, <2>1
<1>6. Len(packet) = 1 => packet[1].code = "mden"  BY <1>1
<1>7. packet' = <<>> => Len(packet) = 1
  <2>1. packet' = <<>> => Len(packet') = 0  OBVIOUS
  <2> QED  BY <1>1, <1>2, <2>1
<1> QED  BY <1>1, <1>2, <1>4, <1>5, <1>6, <1>7 DEF PacketInv

\* handle_set_parameter has queued a packet.
LEMMA PacketBegins ==
  ASSUME PacketInv, SendPacket
  PROVE  PacketInv' /\ packet' # <<>> /\ packet'[1].code = "mdst"
<1>1. PICK n \in 1 .. PacketItems : \E ms \in [1 .. n -> ItemMessages] :
        packet' = <<[code |-> "mdst"]>> \o ms \o <<[code |-> "mden"]>>
  BY DEF SendPacket
<1>2. PICK ms \in [1 .. n -> ItemMessages] :
        packet' = <<[code |-> "mdst"]>> \o ms \o <<[code |-> "mden"]>>
  BY <1>1
<1>3. ms \in Seq(ItemMessages) /\ Len(ms) = n /\ n \in Nat
  BY <1>2
<1> DEFINE first == [code |-> "mdst"]
           last  == [code |-> "mden"]
<1>4. first \in PacketMessages /\ last \in PacketMessages /\ ItemMessages \subseteq PacketMessages
      /\ \A m \in ItemMessages : m.code = "item"
  BY DEF PacketMessages, ItemMessages
<1> HIDE DEF first, last
<1>5. ms \in Seq(PacketMessages)  BY <1>3, <1>4
<1>6. packet' \in Seq(PacketMessages) /\ Len(packet') = n + 2
  BY <1>2, <1>3, <1>4, <1>5 DEF first, last
<1>7. packet'[1] = first /\ packet'[n + 2] = last
      /\ \A i \in 2 .. n + 1 : packet'[i] = ms[i - 1]
  BY <1>2, <1>3, <1>4, <1>5 DEF first, last
<1>8. first.code = "mdst" /\ last.code = "mden"  BY DEF first, last
<1>9. \A i \in 2 .. Len(packet') : packet'[i].code # "mdst"
  <2> SUFFICES ASSUME NEW i \in 2 .. n + 2  PROVE packet'[i].code # "mdst"
    BY <1>6
  <2>1. CASE i = n + 2  BY <2>1, <1>7, <1>8
  <2>2. CASE i # n + 2
    <3>1. i \in 2 .. n + 1 /\ i - 1 \in 1 .. n  BY <1>3, <2>2
    <3> QED  BY <1>2, <1>4, <1>7, <3>1
  <2> QED  BY <2>1, <2>2
<1> QED  BY <1>3, <1>6, <1>7, <1>8, <1>9 DEF PacketInv

LEMMA HubInvInit == HubInit => HubInv
<1> SUFFICES ASSUME HubInit PROVE HubInv
  OBVIOUS
<1>1. StoreInv /\ PacketInv  BY DEF HubInit, StoreInv, PacketInv
<1>2. dbus.sticky = StickyText(store, store)
  BY DEF HubInit, dbus_metadata_watcher
<1>3. dbus_metadata_watcher(store, status, dbus.sticky) = dbus_metadata_watcher(store, status, store)
  BY <1>2, StickyTwice DEF dbus_metadata_watcher
<1>4. Told  BY <1>3 DEF HubInit, Told
<1> QED  BY <1>1, <1>4 DEF HubInv, TellingInv

LEMMA HubInvStep == HubInv /\ [HubNext]_hubvars => HubInv'
<1> SUFFICES ASSUME HubInv, [HubNext]_hubvars PROVE HubInv'
  OBVIOUS
<1> USE DEF HubInv
<1>u. ASSUME UNCHANGED <<store, status, mpris, dbus>>
      PROVE  (Told' <=> Told) /\ StoreInv'
  BY <1>u DEF Told, mpris_metadata_watcher, dbus_metadata_watcher, StickyText, StoreInv
\* Changes that are shown at once, or are none.
<1>a. ASSUME NEW modified \in BOOLEAN, NEW s, NEW st,
             metadata_hub_modify_epilog(modified, s, st), UNCHANGED <<packet, packet_item_changed>>,
             s = [i \in Fields |-> s[i]], modified \/ (s = store /\ st = status)
      PROVE  HubInv'
  <2>1. Told \/ modified => Told'
    BY <1>a, EpilogTells DEF Told
  <2>2. StoreInv'  BY <1>a DEF StoreInv, metadata_hub_modify_epilog
  <2>3. PacketInv'  BY <1>a DEF PacketInv
  <2>4. ~modified => (~Told => packet_item_changed)  BY DEF TellingInv
  <2>5. TellingInv'  BY <1>a, <2>1 DEF TellingInv
  <2> QED  BY <2>2, <2>3, <2>5
<1>1. CASE SendPacket
  <2>1. PacketInv' /\ packet = <<>>  BY <1>1, PacketBegins DEF SendPacket
  <2>2. UNCHANGED <<store, status, mpris, dbus, packet_item_changed>>  BY <1>1 DEF SendPacket
  <2>3. Told /\ Told' /\ StoreInv'  BY <1>u, <2>1, <2>2 DEF TellingInv
  <2> QED  BY <2>1, <2>3 DEF TellingInv
<1>2. CASE mdst
  <2>1. /\ packet # <<>> /\ packet' = Tail(packet) /\ Head(packet).code = "mdst"
        /\ packet_item_changed' = FALSE
        /\ metadata_hub_modify_epilog(FALSE, store, status)
    BY <1>2 DEF mdst
  <2>2. PacketInv' /\ packet[1].code = "mdst"  BY <2>1, PacketGoesOn
  <2>3. UNCHANGED <<store, status, mpris, dbus>>  BY <2>1 DEF metadata_hub_modify_epilog
  <2>4. Told' /\ StoreInv'  BY <1>u, <2>2, <2>3 DEF TellingInv
  <2> QED  BY <2>2, <2>4 DEF TellingInv
<1>3. CASE CoreItem
  <2> DEFINE m == Head(packet)
             s == Updated(store, m.item, m.value)
  <2>1. /\ packet # <<>> /\ packet' = Tail(packet) /\ m.code = "item"
        /\ packet_item_changed' = (packet_item_changed \/ (s # store /\ m.item \notin QuietCore))
        /\ metadata_hub_modify_epilog(FALSE, s, status)
    BY <1>3, Zenon DEF CoreItem
  <2>2. PacketInv' /\ m \in PacketMessages /\ packet' # <<>> /\ packet'[1].code # "mdst"
    <3>1. m = packet[1]  BY <2>1, PacketGoesOn
    <3> HIDE DEF m
    <3>2. packet[1].code # "mden"  BY <2>1, <3>1
    <3> QED  BY <2>1, <3>1, <3>2, PacketGoesOn
  <2> HIDE DEF m
  <2>3. m.item \in Items  BY <2>1, <2>2 DEF PacketMessages, ItemMessages
  <2>4. StoreInv'
    <3>1. s = [j \in Fields |-> s[j]]  BY <2>3, UpdatedStore
    <3> HIDE DEF s
    <3> QED  BY <2>1, <3>1 DEF StoreInv, metadata_hub_modify_epilog
  <2>5. s = store \/ m.item \in QuietCore =>
          /\ mpris_metadata_watcher(s, status) = mpris_metadata_watcher(store, status)
          /\ dbus_metadata_watcher(s, status, dbus.sticky)
               = dbus_metadata_watcher(store, status, dbus.sticky)
    BY <2>3, QuietItemsAreNotShown
  <2> HIDE DEF s
  <2>6. Told /\ (s = store \/ m.item \in QuietCore) => Told'
    BY <2>1, <2>5, EpilogTells DEF Told
  <2>7. ~Told' => packet_item_changed'
    BY <2>1, <2>6 DEF TellingInv
  <2> QED  BY <2>2, <2>4, <2>7 DEF TellingInv
<1>4. CASE mden
  <2>1. /\ packet # <<>> /\ packet' = Tail(packet) /\ UNCHANGED packet_item_changed
        /\ metadata_hub_modify_epilog(packet_item_changed, store, status)
    BY <1>4 DEF mden
  <2>2. PacketInv'  BY <2>1, PacketGoesOn
  <2>3. CASE packet_item_changed = TRUE
    <3>1. metadata_hub_modify_epilog(TRUE, store, status)  BY <2>1, <2>3
    <3>2. Told'  BY <3>1, EpilogTells
    <3>3. store' = store  BY <2>1 DEF metadata_hub_modify_epilog
    <3> QED  BY <2>2, <3>2, <3>3 DEF TellingInv, StoreInv
  <2>4. CASE ~packet_item_changed
    <3>1. Told  BY <2>4 DEF TellingInv
    <3>2. UNCHANGED <<store, status, mpris, dbus>>
      BY <2>1, <2>4 DEF metadata_hub_modify_epilog
    <3>3. Told' /\ StoreInv'  BY <1>u, <3>1, <3>2
    <3> QED  BY <2>2, <3>3 DEF TellingInv
  <2> QED  BY <2>3, <2>4
<1>5. ASSUME NEW i \in Items \cap TextAlone, NEW v, AloneItem(i, v)
      PROVE  HubInv'
  <2> DEFINE s == Updated(store, i, v)
  <2>1. /\ metadata_hub_modify_epilog(s # store, s, status)
        /\ UNCHANGED <<packet, packet_item_changed>>
    BY <1>5, Zenon DEF AloneItem
  <2>2. s = [j \in Fields |-> s[j]]  BY UpdatedStore
  <2> HIDE DEF s
  <2>3. (s # store) \in BOOLEAN  OBVIOUS
  <2> QED  BY <1>a, <2>1, <2>2, <2>3
<1>6. ASSUME NEW c, PlayerMessage(c)
      PROVE  HubInv'
  <2> DEFINE st == StatusAfter(c)
  <2>1. /\ metadata_hub_modify_epilog(st # status, store, st)
        /\ UNCHANGED <<packet, packet_item_changed>>
    BY <1>6, Zenon DEF PlayerMessage
  <2> HIDE DEF st
  <2>2. (st # status) \in BOOLEAN  OBVIOUS
  <2> QED  BY <1>a, <2>1, <2>2 DEF StoreInv
<1>7. ASSUME NEW p, Picture(p)
      PROVE  HubInv'
  <2>1. PICK w : /\ metadata_hub_modify_epilog([store EXCEPT !["PICT"] = w[1]] # store,
                                               [store EXCEPT !["PICT"] = w[1]], status)
                 /\ UNCHANGED <<packet, packet_item_changed>>
    BY <1>7, Zenon DEF Picture
  <2> DEFINE s == [store EXCEPT !["PICT"] = w[1]]
  <2>2. s = [j \in Fields |-> s[j]]  BY DEF StoreInv
  <2> HIDE DEF s
  <2>3. (s # store) \in BOOLEAN  OBVIOUS
  <2>4. metadata_hub_modify_epilog(s # store, s, status)  BY <2>1 DEF s
  <2> QED  BY <1>a, <2>1, <2>2, <2>3, <2>4
<1>8. CASE pvol
  <2> DEFINE st == [status EXCEPT !.airplay_volume = airplay_volume]
  <2>1. /\ metadata_hub_modify_epilog(st # status, store, st)
        /\ UNCHANGED <<packet, packet_item_changed>>
    BY <1>8, Zenon DEF pvol
  <2> HIDE DEF st
  <2>2. (st # status) \in BOOLEAN  OBVIOUS
  <2> QED  BY <1>a, <2>1, <2>2 DEF StoreInv
<1>9. CASE PlayStatusUpdate
  <2>1. PICK st : /\ metadata_hub_modify_epilog(TRUE, store, st)
                  /\ UNCHANGED <<packet, packet_item_changed>>
    BY <1>9, Zenon DEF PlayStatusUpdate
  <2> QED  BY <1>a, <2>1 DEF StoreInv
<1>10. CASE PlayTrackUpdate
  <2>1. \E i \in Items : \E v :
             /\ metadata_hub_modify_epilog(TRUE, DacpItem(store, i, v), status)
             /\ UNCHANGED <<packet, packet_item_changed>>
    BY <1>10, Zenon DEF PlayTrackUpdate
  <2>2. PICK i \in Items : \E v :
             /\ metadata_hub_modify_epilog(TRUE, DacpItem(store, i, v), status)
             /\ UNCHANGED <<packet, packet_item_changed>>
    BY <2>1, Zenon
  <2>3. PICK v : /\ metadata_hub_modify_epilog(TRUE, DacpItem(store, i, v), status)
                 /\ UNCHANGED <<packet, packet_item_changed>>
    BY <2>2, Zenon
  <2> DEFINE s == DacpItem(store, i, v)
  <2>4. s = [j \in Fields |-> s[j]]  BY UpdatedStore DEF DacpItem, StoreInv
  <2> HIDE DEF s
  <2>5. metadata_hub_modify_epilog(TRUE, s, status)  BY <2>3 DEF s
  <2> QED  BY <1>a, <2>3, <2>4, <2>5
<1>11. ASSUME UNCHANGED <<store, status, mpris, dbus, packet, packet_item_changed>>
       PROVE  HubInv'
  BY <1>u, <1>11 DEF TellingInv, PacketInv
<1>12. CASE StoreVolume \/ StoreMute \/ (\E v \in HubVolumes : SendPvol(v)) \/ UNCHANGED hubvars
  BY <1>11, <1>12 DEF StoreVolume, StoreMute, SendPvol, hubvars
<1> QED
  BY <1>1, <1>2, <1>3, <1>4, <1>5, <1>6, <1>7, <1>8, <1>9, <1>10, <1>12 DEF HubNext

\* What 'mdst' and the track items stored, the messages sent alone, the picture and the DACP
\* monitor's updates: whenever no packet is open, both watchers have published all of it.
LEMMA WatchersAreCurrent == HubSpec => []WatchersAreTold
<1>1. HubInv => WatchersAreTold
  BY DEF HubInv, TellingInv, Told, WatchersAreTold
<1> QED  BY <1>1, HubInvInit, HubInvStep, PTL DEF HubSpec

\* Only a picture changes the path, and then the directory holds that picture.
LEMMA ArtInvStep == ~WritesCanFail /\ HubInv /\ ArtInv /\ [HubNext]_hubvars => ArtInv'
<1> SUFFICES ASSUME ~WritesCanFail, HubInv, ArtInv, [HubNext]_hubvars  PROVE ArtInv'
  OBVIOUS
<1>0. StoreInv /\ "PICT" \in Fields /\ NoText \notin Pictures
  BY HubAssumption DEF HubInv, Fields
<1>a. ASSUME UNCHANGED artDir, store'["PICT"] = store["PICT"]
      PROVE  ArtInv'
  BY <1>a DEF ArtInv
<1>1. CASE SendPacket \/ StoreVolume \/ StoreMute \/ (\E v \in HubVolumes : SendPvol(v))
           \/ UNCHANGED hubvars
  BY <1>1, <1>a DEF SendPacket, StoreVolume, StoreMute, SendPvol, hubvars
<1>2. CASE mdst \/ mden \/ pvol \/ PlayStatusUpdate \/ (\E c : PlayerMessage(c))
  <2>1. store' = store /\ UNCHANGED artDir
    BY <1>2, Zenon
    DEF mdst, mden, pvol, PlayStatusUpdate, PlayerMessage, metadata_hub_modify_epilog
  <2> QED  BY <1>a, <2>1
<1>3. CASE CoreItem
  <2> DEFINE m == Head(packet)
             s == Updated(store, m.item, m.value)
  <2>1. /\ packet # <<>> /\ packet' = Tail(packet) /\ m.code = "item" /\ UNCHANGED artDir
        /\ metadata_hub_modify_epilog(FALSE, s, status)
    BY <1>3, Zenon DEF CoreItem
  <2>2. m \in PacketMessages  BY <2>1, PacketGoesOn DEF HubInv
  <2> HIDE DEF m
  <2>3. m.item \in Items  BY <2>1, <2>2 DEF PacketMessages, ItemMessages
  <2>4. s["PICT"] = store["PICT"]  BY <1>0, <2>3, UpdatedStore
  <2> QED  BY <1>a, <2>1, <2>4 DEF metadata_hub_modify_epilog
<1>4. ASSUME NEW i \in Items, NEW v, AloneItem(i, v)
      PROVE  ArtInv'
  <2>1. store' = Updated(store, i, v) /\ UNCHANGED artDir
    BY <1>4, Zenon DEF AloneItem, metadata_hub_modify_epilog
  <2> QED  BY <1>0, <1>a, <2>1, UpdatedStore
<1>5. CASE PlayTrackUpdate
  <2>1. \E i \in Items : \E v : store' = DacpItem(store, i, v) /\ UNCHANGED artDir
    BY <1>5, Zenon DEF PlayTrackUpdate, metadata_hub_modify_epilog
  <2>2. PICK i \in Items : \E v : store' = DacpItem(store, i, v) /\ UNCHANGED artDir
    BY <2>1, Zenon
  <2>3. PICK v : store' = DacpItem(store, i, v) /\ UNCHANGED artDir
    BY <2>2, Zenon
  <2>4. store'["PICT"] = store["PICT"]
    BY <1>0, <2>3, UpdatedStore DEF DacpItem
  <2> QED  BY <1>a, <2>3, <2>4
<1>6. ASSUME NEW p, Picture(p)
      PROVE  ArtInv'
  <2>1. PICK w \in (IF p = Empty THEN {<<NoText, artDir>>} ELSE metadata_write_image_file(p)) :
          artDir' = w[2] /\ store' = [store EXCEPT !["PICT"] = w[1]]
    BY <1>6, Zenon DEF Picture, metadata_hub_modify_epilog
  <2>2. store'["PICT"] = w[1]  BY <1>0, <2>1 DEF StoreInv
  <2>3. CASE w = <<NoText, artDir>>
    BY <1>0, <2>1, <2>2, <2>3 DEF ArtInv
  <2>4. CASE w = <<p, artDir>> /\ p \in DOMAIN artDir
    BY <2>1, <2>2, <2>4 DEF ArtInv
  <2>5. CASE w = <<p, AfterWriting(p, "whole")>>
    <3>1. artDir' = AfterWriting(p, "whole") /\ w[1] = p  BY <2>1, <2>5
    <3>2. CASE retain
      BY <2>2, <3>1, <3>2 DEF ArtInv, AfterWriting
    <3>3. CASE ~retain
      BY <2>2, <3>1, <3>3 DEF ArtInv, AfterWriting
    <3> QED  BY <3>2, <3>3
  <2>6. w \in {<<NoText, artDir>>} \/ (w = <<p, artDir>> /\ p \in DOMAIN artDir)
        \/ w = <<p, AfterWriting(p, "whole")>>
    BY <2>1 DEF metadata_write_image_file
  <2> QED  BY <2>3, <2>4, <2>5, <2>6
<1> QED  BY <1>1, <1>2, <1>3, <1>4, <1>5, <1>6 DEF HubNext

\* Unless writing a file can fail: what the watchers of metadata_hub.c have published is
\* what the store holds, whenever no packet is open, and the cover art path in it names a
\* file that metadata_write_image_file has written to its end and that is still there.
THEOREM HubStaysCurrent == ~WritesCanFail => (HubSpec => []HubIsCurrent)
<1> SUFFICES ASSUME ~WritesCanFail  PROVE HubSpec => []HubIsCurrent
  OBVIOUS
<1>1. HubInit => ArtInv
  <2> SUFFICES ASSUME HubInit PROVE ArtInv
    OBVIOUS
  <2>1. store["PICT"] = NoText /\ artDir = [p \in {} |-> "whole"]  BY DEF HubInit, Fields
  <2> QED  BY <2>1, HubAssumption DEF ArtInv
<1>2. HubInv /\ ArtInv /\ [HubNext]_hubvars => ArtInv'  BY ArtInvStep
<1>3. ArtInv => CoverArtExists  BY DEF ArtInv, CoverArtExists
<1> QED
  BY <1>1, <1>2, <1>3, HubInvInit, HubInvStep, WatchersAreCurrent, PTL DEF HubSpec, HubIsCurrent

-----------------------------------------------------------------------------
(* The ALSA device. *)

DeviceStates == [handle : {"null", "open", "half"},
                 state : {"disconnected", "connected", "playing"},
                 dac : {"none", "prepared", "running", "xrun"}, queued : 0..DacBuffer,
                 sent : Nat, broke : BOOLEAN]

\* A device that is connected has a handle, and only an open one plays or has frames.
Sane(d) == /\ d \in DeviceStates
           /\ d.state # "disconnected" => d.handle # "null"
           /\ d.dac # "none" => d.handle = "open"
           /\ d.dac # "running" => d.queued = 0

DeviceInv == Sane(dev) /\ played \in Nat /\ report.net \in Int

LEMMA OpenIsSane ==
  ASSUME NEW d, Sane(d), NEW o \in do_open(d)
  PROVE  /\ Sane(o)
         /\ Opened(d, o) => o.handle # "null"
         /\ ~SetupCanFail /\ o # d => o.broke
<1>1. d \in DeviceStates /\ DacBuffer \in Nat /\ Silence \in Nat \ {0}
  BY AlsaAssumption DEF Sane
<1>2. CASE d.handle # "null"
  BY <1>2 DEF do_open
<1>3. CASE d.handle = "null"
  <2>1. PICK a \in actual_open_alsa_device(d) :
          o = IF a.handle = "open"
                THEN [a EXCEPT !.broke = TRUE, !.sent = 0, !.state = "connected"] ELSE a
    BY <1>3 DEF do_open
  <2>2. CASE a = [d EXCEPT !.handle = "null", !.broke = TRUE]
    BY <1>1, <1>3, <2>1, <2>2 DEF Sane, DeviceStates, Opened
  <2>3. CASE SetupCanFail /\ a = [d EXCEPT !.handle = "half"]
    BY <1>1, <1>3, <2>1, <2>3 DEF Sane, DeviceStates, Opened
  <2>4. ASSUME NEW q \in {0, Silence} \cap 0..DacBuffer,
               a = [d EXCEPT !.handle = "open", !.dac = IF q = 0 THEN "prepared" ELSE "running",
                             !.queued = q]
        PROVE  Sane(o) /\ o.handle # "null" /\ o.broke
    BY <1>1, <1>3, <2>1, <2>4 DEF Sane, DeviceStates
  <2> QED  BY <2>1, <2>2, <2>3, <2>4 DEF actual_open_alsa_device
<1> QED  BY <1>2, <1>3

LEMMA CloseIsSane ==
  ASSUME NEW d, Sane(d)  PROVE Sane(do_close(d)) /\ do_close(d).handle = "null"
<1>1. 0 \in 0..DacBuffer  BY AlsaAssumption
<1> QED  BY <1>1 DEF Sane, DeviceStates, do_close

LEMMA FlushIsSane ==
  ASSUME NEW d, Sane(d)
  PROVE  /\ Sane(sub_flush(d))
         /\ sub_flush(d).handle = "null" \/ sub_flush(d).broke
<1>1. 0 \in 0..DacBuffer  BY AlsaAssumption
<1>2. CASE d.handle = "null"  BY <1>2 DEF sub_flush
<1>3. CASE d.handle = "open"
  <2>1. sub_flush(d) = [d EXCEPT !.broke = TRUE, !.queued = 0, !.state = "connected",
                                 !.dac = "prepared"]
    BY <1>3 DEF sub_flush
  <2> QED  BY <1>1, <1>3, <2>1 DEF Sane, DeviceStates
<1>4. CASE d.handle = "half"
  <2>1. sub_flush(d) = [d EXCEPT !.broke = TRUE, !.queued = 0, !.state = "connected",
                                 !.dac = "none"]
    BY <1>4 DEF sub_flush
  <2> QED  BY <1>1, <1>4, <2>1 DEF Sane, DeviceStates
<1> QED  BY <1>2, <1>3, <1>4 DEF Sane, DeviceStates

\* A write is counted whole, or it is a break.
LEMMA WriteIsSane ==
  ASSUME NEW d, Sane(d), NEW n \in Nat \ {0}, NEW o \in do_play(d, n)
  PROVE  /\ Sane(o) /\ o.handle = d.handle /\ o.state = d.state
         /\ o.broke \/ (o.broke = d.broke /\ o.sent - delay_of(o) = d.sent - delay_of(d))
<1>1. d \in DeviceStates /\ DacBuffer \in Nat  BY AlsaAssumption DEF Sane
<1>2. CASE o = d  BY <1>1, <1>2
<1>3. CASE o = [d EXCEPT !.broke = TRUE]
  BY <1>1, <1>3 DEF Sane, DeviceStates
<1>4. CASE d.dac = "xrun" /\ o = [d EXCEPT !.dac = "prepared", !.broke = TRUE]
  BY <1>1, <1>4 DEF Sane, DeviceStates
<1>5. CASE /\ d.handle = "open" /\ d.dac \in {"prepared", "running"}
           /\ o = [d EXCEPT !.dac = "prepared", !.queued = 0, !.broke = TRUE]
  <2>1. 0 \in 0..DacBuffer  BY <1>1
  <2> QED  BY <1>1, <1>5, <2>1 DEF Sane, DeviceStates
<1>6. ASSUME d.handle = "open", d.dac \in {"prepared", "running"},
             NEW m \in {1, n}, d.queued + m <= DacBuffer,
             o = [d EXCEPT !.sent = @ + m, !.queued = @ + m, !.dac = "running",
                           !.broke = @ \/ m < n]
      PROVE  /\ Sane(o) /\ o.handle = d.handle /\ o.state = d.state
             /\ o.broke \/ (o.broke = d.broke /\ o.sent - delay_of(o) = d.sent - delay_of(d))
  <2>1. (d.broke \/ m < n) \in BOOLEAN  BY <1>1 DEF DeviceStates
  <2>2. /\ o.sent = d.sent + m /\ o.queued = d.queued + m /\ o.dac = "running"
        /\ o.broke = (d.broke \/ m < n) /\ o.handle = d.handle /\ o.state = d.state
    BY <1>1, <1>6 DEF DeviceStates
  <2>3. o \in DeviceStates
    <3>1. o.sent \in Nat /\ o.queued \in 0..DacBuffer
      BY <1>1, <1>6, <2>2 DEF DeviceStates
    <3>2. o = [handle |-> o.handle, state |-> o.state, dac |-> o.dac, queued |-> o.queued,
               sent |-> o.sent, broke |-> o.broke]
      BY <1>1, <1>6 DEF DeviceStates
    <3> QED  BY <1>1, <2>1, <2>2, <3>1, <3>2, Zenon DEF DeviceStates
  <2>4. d.dac = "prepared" => d.queued = 0  BY DEF Sane
  <2>5. o.sent - delay_of(o) = d.sent - delay_of(d)
    BY <1>1, <1>6, <2>2, <2>4 DEF delay_of, DeviceStates
  <2>6. ~o.broke => o.broke = d.broke
    BY <2>1, <2>2, <1>1, Zenon DEF DeviceStates
  <2> QED  BY <1>6, <2>2, <2>3, <2>5, <2>6 DEF Sane
<1> QED  BY <1>2, <1>3, <1>4, <1>5, <1>6 DEF do_play

LEMMA DeviceInvInit == AlsaInit => DeviceInv
BY AlsaAssumption DEF AlsaInit, DeviceInv, Sane, DeviceStates

\* While nothing has been reported as a break, what was sent less what waits is what was
\* reported and played since.
CountInv ==
  dev.handle # "null" /\ ~dev.broke => dev.sent - delay_of(dev) = report.net + played

LEMMA DeviceInvStep ==
  DeviceInv /\ [AlsaNext]_alsavars =>
    DeviceInv' /\ (~SetupCanFail /\ CountInv => CountInv')
<1> SUFFICES ASSUME DeviceInv, [AlsaNext]_alsavars
             PROVE  DeviceInv' /\ (~SetupCanFail /\ CountInv => CountInv')
  OBVIOUS
<1>0. Sane(dev) /\ dev \in DeviceStates /\ played \in Nat /\ report.net \in Int
      /\ Packet \in Nat \ {0} /\ Silence \in Nat \ {0}
  BY AlsaAssumption DEF DeviceInv, Sane
\* The device is written to, flushed, opened or closed; nothing is reported or played.
<1>a. ASSUME UNCHANGED <<report, played>>, Sane(dev'),
             ~SetupCanFail => \/ dev'.handle = "null" \/ dev'.broke
                              \/ /\ dev.handle # "null" /\ dev'.broke = dev.broke
                                 /\ dev'.sent - delay_of(dev') = dev.sent - delay_of(dev)
      PROVE  DeviceInv' /\ (~SetupCanFail /\ CountInv => CountInv')
  BY <1>0, <1>a DEF DeviceInv, Sane, CountInv, delay_of
<1>1. CASE prepare
  <2>1. dev' = dev \/ dev' \in do_open(dev)  BY <1>1 DEF prepare
  <2>2. CASE dev' = dev  BY <1>0, <1>1, <1>a, <2>2 DEF prepare
  <2>3. CASE dev' \in do_open(dev) /\ dev' # dev
    BY <1>0, <1>1, <1>a, <2>3, OpenIsSane DEF prepare
  <2> QED  BY <2>1, <2>2, <2>3
<1>2. CASE play
  <2>0. UNCHANGED <<report, played>>  BY <1>2 DEF play
  <2>1. PICK o \in IF dev.state = "disconnected" THEN do_open(dev) ELSE {dev} :
          IF Opened(dev, o)
            THEN dev' \in do_play([o EXCEPT !.state = "playing"], Packet) ELSE dev' = o
    BY <1>2, Zenon DEF play
  <2>2. /\ Sane(o) /\ (Opened(dev, o) => o.handle # "null")
        /\ ~SetupCanFail /\ o # dev => o.broke
    <3>1. CASE o \in do_open(dev)  BY <1>0, <3>1, OpenIsSane
    <3>2. CASE o = dev  BY <1>0, <3>2 DEF Opened
    <3> QED  BY <2>1, <3>1, <3>2
  <2>3. CASE ~Opened(dev, o)
    <3>1. dev' = o  BY <2>1, <2>3
    <3> QED  BY <1>0, <1>a, <2>0, <2>2, <3>1
  <2>4. CASE Opened(dev, o)
    <3> DEFINE p == [o EXCEPT !.state = "playing"]
    <3>1. dev' \in do_play(p, Packet)  BY <2>1, <2>4
    <3>2. /\ Sane(p) /\ p.handle = o.handle /\ p.broke = o.broke
          /\ p.sent = o.sent /\ delay_of(p) = delay_of(o)
      BY <2>2, <2>4 DEF Sane, DeviceStates, delay_of
    <3> HIDE DEF p
    <3>3. /\ Sane(dev')
          /\ dev'.broke \/ (dev'.broke = o.broke /\ dev'.sent - delay_of(dev')
                                                     = o.sent - delay_of(o))
      BY <1>0, <3>1, <3>2, WriteIsSane
    <3>4. o = dev => dev.handle # "null"  BY <2>2, <2>4
    <3> QED  BY <1>a, <2>0, <2>2, <3>3, <3>4
  <2> QED  BY <2>3, <2>4
<1>3. CASE flush
  <2>1. dev' = dev \/ dev' = sub_flush(dev)  BY <1>3 DEF flush
  <2> QED  BY <1>0, <1>3, <1>a, <2>1, FlushIsSane DEF flush
<1>4. CASE stop
  <2>1. dev' = dev \/ dev' = do_close(dev)  BY <1>4 DEF stop
  <2> QED  BY <1>0, <1>4, <1>a, <2>1, CloseIsSane DEF stop
<1>5. CASE stats
  <2>1. /\ dev' = [dev EXCEPT !.broke = FALSE] /\ played' = 0
        /\ report'.net = dev.sent - delay_of(dev)
    BY <1>5 DEF stats
  <2>2. Sane(dev') /\ dev'.sent = dev.sent /\ delay_of(dev') = delay_of(dev)
        /\ delay_of(dev) \in Int
    <3>1. dev.queued \in Int  BY <1>0, AlsaAssumption DEF DeviceStates
    <3>2. /\ dev'.sent = dev.sent /\ dev'.queued = dev.queued /\ dev'.dac = dev.dac
          /\ dev' \in DeviceStates /\ dev'.state = dev.state /\ dev'.handle = dev.handle
      BY <1>0, <2>1 DEF DeviceStates
    <3> QED  BY <1>0, <3>1, <3>2 DEF Sane, delay_of
  <2>3. dev.sent \in Nat  BY <1>0 DEF DeviceStates
  <2>4. delay_of(dev') = delay_of(dev)'  BY DEF delay_of
  <2>5. DeviceInv'  BY <2>1, <2>2, <2>3 DEF DeviceInv, Sane
  <2>6. CountInv'
    <3>1. dev'.sent - delay_of(dev)' = report'.net + played'
      BY <2>1, <2>2, <2>3, <2>4
    <3> QED  BY <3>1 DEF CountInv
  <2> QED  BY <2>5, <2>6
<1>6. CASE MonitorActs
  <2>0. UNCHANGED <<report, played>>  BY <1>6 DEF MonitorActs
  <2>1. PICK d \in Transition(dev) : dev' \in do_play(d, Silence) \/ dev' = d
    BY <1>6, Zenon DEF MonitorActs
  <2>2. /\ Sane(d)
        /\ ~SetupCanFail => d.handle = "null" \/ d = dev \/ d.broke
    <3>1. CASE d \in do_open(dev)  BY <1>0, <3>1, OpenIsSane
    <3>2. CASE d = do_close(dev)  BY <1>0, <3>2, CloseIsSane
    <3>3. CASE d = dev  BY <1>0, <3>3
    <3> QED  BY <3>1, <3>2, <3>3 DEF Transition
  <2>3. CASE dev' = d  BY <1>a, <2>0, <2>2, <2>3
  <2>4. CASE dev' \in do_play(d, Silence)
    <3>1. /\ Sane(dev') /\ dev'.handle = d.handle
          /\ dev'.broke \/ (dev'.broke = d.broke /\ dev'.sent - delay_of(dev')
                                                     = d.sent - delay_of(d))
      BY <1>0, <2>2, <2>4, WriteIsSane
    <3> QED  BY <1>a, <2>0, <2>2, <3>1
  <2> QED  BY <2>1, <2>3, <2>4
<1>7. CASE deinit
  <2>1. dev' = dev \/ dev' = do_close(dev)  BY <1>7 DEF deinit
  <2> QED  BY <1>0, <1>7, <1>a, <2>1, CloseIsSane DEF deinit
<1>8. CASE DacPlays
  <2>1. CASE dev.queued > 0
    <3>1. /\ dev' = [dev EXCEPT !.queued = @ - 1] /\ played' = played + 1
          /\ dev.dac = "running" /\ UNCHANGED report
      BY <1>8, <2>1 DEF DacPlays
    <3>2. dev.queued \in 0..DacBuffer /\ DacBuffer \in Nat
      BY <1>0, AlsaAssumption DEF DeviceStates
    <3>3. dev.queued - 1 \in 0..DacBuffer  BY <2>1, <3>2
    <3>4. Sane(dev')  BY <1>0, <3>1, <3>3 DEF Sane, DeviceStates
    <3>5. /\ dev'.handle = dev.handle /\ dev'.broke = dev.broke /\ dev'.sent = dev.sent
          /\ delay_of(dev)' = dev.queued - 1 /\ delay_of(dev) = dev.queued
      BY <1>0, <3>1 DEF DeviceStates, delay_of
    <3>6. dev.sent \in Nat  BY <1>0 DEF DeviceStates
    <3>7. CountInv => CountInv'
      BY <1>0, <3>1, <3>2, <3>5, <3>6 DEF CountInv
    <3>8. DeviceInv'  BY <1>0, <3>1, <3>4 DEF DeviceInv, Sane
    <3> QED  BY <3>7, <3>8
  <2>2. CASE ~(dev.queued > 0)
    <3>1. /\ dev' = [dev EXCEPT !.dac = "xrun"] /\ played' = played /\ UNCHANGED report
          /\ dev.dac = "running"
      BY <1>8, <2>2 DEF DacPlays
    <3>2. dev.queued = 0  BY <1>0, <2>2, AlsaAssumption DEF DeviceStates
    <3>3. Sane(dev')  BY <1>0, <3>1, <3>2 DEF Sane, DeviceStates
    <3>4. /\ dev'.handle = dev.handle /\ dev'.broke = dev.broke
          /\ dev'.sent - delay_of(dev') = dev.sent - delay_of(dev)
      BY <1>0, <3>1, <3>2 DEF DeviceStates, delay_of
    <3>5. dev.handle # "null"  BY <1>0, <3>1 DEF Sane
    <3> QED  BY <1>a, <3>1, <3>3, <3>4, <3>5
  <2> QED  BY <2>1, <2>2
<1>9. CASE MonitorLooks \/ SetKeepDacBusy \/ UNCHANGED alsavars
  <2>1. UNCHANGED <<dev, report, played>>
    BY <1>9 DEF MonitorLooks, SetKeepDacBusy, alsavars
  <2> QED  BY <1>0, <1>a, <2>1
<1> QED
  BY <1>1, <1>2, <1>3, <1>4, <1>5, <1>6, <1>7, <1>8, <1>9 DEF AlsaNext

\* stats() answers 0 only when the frames it counts, less those waiting, have grown since its
\* last answer by what the DAC has played since, in whatever order the player and the
\* monitor open, fill, flush and close the device; provided no step after snd_pcm_open fails.
THEOREM StatsAreExact == ~SetupCanFail => (AlsaSpec => StatsCountWhatIsPlayed)
<1> SUFFICES ASSUME ~SetupCanFail  PROVE AlsaSpec => StatsCountWhatIsPlayed
  OBVIOUS
<1> DEFINE Inv == DeviceInv /\ CountInv
<1>1. AlsaInit => Inv
  <2>1. AlsaInit => CountInv  BY DEF AlsaInit, CountInv
  <2> QED  BY <2>1, DeviceInvInit
<1>2. Inv /\ [AlsaNext]_alsavars => Inv'  BY DeviceInvStep
<1>3. Inv => [stats /\ report'.ret = 0 => report'.net - report.net = report'.played]_alsavars
  <2> SUFFICES ASSUME Inv, stats, report'.ret = 0
               PROVE  report'.net - report.net = report'.played
    OBVIOUS
  <2>1. /\ report'.net = dev.sent - delay_of(dev) /\ report'.played = played
        /\ dev.handle # "null" /\ ~dev.broke
    BY DEF stats
  <2>2. dev.sent - delay_of(dev) = report.net + played  BY <2>1 DEF CountInv
  <2>3. report.net \in Int /\ played \in Int  BY DEF DeviceInv
  <2> HIDE DEF Inv
  <2> QED  BY <2>1, <2>2, <2>3
<1> HIDE DEF Inv
<1> QED  BY <1>1, <1>2, <1>3, PTL DEF AlsaSpec, StatsCountWhatIsPlayed

-----------------------------------------------------------------------------
(* The format and the rate. *)

FormatRecord == [format : DOMAIN frame_size, rate : {1, 2}]

\* Only before the player thread starts can a choice change the configuration.
FormatInv ==
  /\ config \in FormatRecord
  /\ supported.formats \subseteq DOMAIN frame_size /\ supported.rates \subseteq {1, 2}
  /\ ~keep_busy => pcm \in {NoFormat, config} /\ player \in {NoFormat, config}

LEMMA OpenKeepsFormat ==
  ASSUME FormatInv, NEW auto \in BOOLEAN, open_alsa_device(auto), UNCHANGED player,
         auto => player = NoFormat \/ keep_busy
  PROVE  FormatInv'
<1>1. UNCHANGED <<keep_busy, supported>>  BY DEF open_alsa_device
<1>2. CASE UNCHANGED <<config, pcm>>
  BY <1>1, <1>2 DEF FormatInv
<1>3. ASSUME NEW f \in ChosenFormat(auto), NEW r \in ChosenRate(auto),
             config' = [format |-> f, rate |-> r], pcm' = [format |-> f, rate |-> r]
      PROVE  FormatInv'
  <2>1. f \in DOMAIN frame_size /\ r \in {1, 2}
    BY <1>3 DEF FormatInv, ChosenFormat, ChosenRate, FirstOf
  <2>2. ~auto => f = config.format /\ r = config.rate
    BY <1>3 DEF ChosenFormat, ChosenRate
  <2>3. ~auto => config' = config
    BY <1>3, <2>2 DEF FormatInv, FormatRecord
  <2> QED  BY <1>1, <1>3, <2>1, <2>3 DEF FormatInv, FormatRecord
<1> QED  BY <1>2, <1>3, Zenon DEF open_alsa_device

LEMMA FormatInvStep == FormatInv /\ [FormatNext]_fvars => FormatInv'
<1> SUFFICES ASSUME FormatInv, [FormatNext]_fvars  PROVE FormatInv'
  OBVIOUS
<1>1. CASE player_prepare_to_play
  <2>1. player = NoFormat /\ UNCHANGED player  BY <1>1 DEF player_prepare_to_play
  <2>2. CASE open_alsa_device(TRUE)  BY <2>1, <2>2, OpenKeepsFormat
  <2>3. CASE UNCHANGED <<keep_busy, supported, config, pcm>>
    BY <2>1, <2>3 DEF FormatInv
  <2> QED  BY <1>1, <2>2, <2>3 DEF player_prepare_to_play
<1>2. CASE player_thread_starts  BY <1>2 DEF player_thread_starts, FormatInv
<1>3. CASE play_opens  BY <1>3, OpenKeepsFormat DEF play_opens
<1>4. CASE monitor_opens  BY <1>4, OpenKeepsFormat DEF monitor_opens
<1>5. CASE stop_closes  BY <1>5 DEF stop_closes, FormatInv
<1>6. CASE OtherProgram \/ UNCHANGED fvars  BY <1>6 DEF OtherProgram, fvars, FormatInv
<1> QED  BY <1>1, <1>2, <1>3, <1>4, <1>5, <1>6 DEF FormatNext

\* Whatever order the player, the monitor thread and the exit open and close the ALSA device
\* in, the backend counts itself connected only with a handle; and unless the DAC is kept busy
\* the open device has the format and the rate the player thread was started with.
THEOREM DeviceIsAsBelieved == AlsaSpec /\ FormatSpec => []DeviceAsBelieved
<1>1. DeviceInv => AlsaTypeOK  BY DEF DeviceInv, Sane, DeviceStates, AlsaTypeOK
<1>2. DeviceInv /\ [AlsaNext]_alsavars => DeviceInv'  BY DeviceInvStep
<1>3. FormatInit => FormatInv
  BY DEF FormatInit, FormatInv, FormatRecord, frame_size
<1>4. FormatInv => PlayerFormatIsDeviceFormat
  <2> SUFFICES ASSUME FormatInv, ~keep_busy, player # NoFormat, pcm # NoFormat
               PROVE  /\ pcm = player
                      /\ frame_size[pcm.format] <= output_bytes_per_frame[player.format]
    BY DEF PlayerFormatIsDeviceFormat, FormatsAgree
  <2>1. pcm = config /\ player = config /\ config.format \in DOMAIN frame_size
    BY DEF FormatInv, FormatRecord
  <2>2. \A f \in DOMAIN frame_size : frame_size[f] <= output_bytes_per_frame[f]
    BY DEF frame_size, output_bytes_per_frame
  <2> QED  BY <2>1, <2>2
<1> QED
  BY <1>1, <1>2, <1>3, <1>4, DeviceInvInit, FormatInvStep, PTL
  DEF AlsaSpec, FormatSpec, DeviceAsBelieved

-----------------------------------------------------------------------------
(* Volume and mute. *)

\* Between the requests the hardware is asked for a mute exactly if the volume asked for is
\* Mute and it can mute; where it did not, the software does.
MuteInv ==
  /\ vcfg \in Configs
  /\ caller.pc \in {"idle", "volume", "muting", "unmute", "unmuting"}
  /\ caller.pc = "muting" => HasMute
  /\ asked = Mute => /\ caller.pc \in {"idle", "muting"}
                     /\ HasMute => mute_requested_externally
                     /\ caller.pc = "idle" => Silent

LEMMA MuteInit == VolumeInit => MuteInv
  BY DEF VolumeInit, MuteInv, Mute

\* Making the hardware's mute anew, while it is asked for, does not undo it; and where it
\* gets to the mixer it mutes.
LEMMA MuteRenewed ==
  ASSUME MuteInv, NEW m \in BOOLEAN, set_mute_state(m), HasMute, mute_requested_externally
  PROVE  /\ switched_off => switched_off'
         /\ volume_based_mute_is_active => volume_based_mute_is_active'
         /\ HardwareMute(m) => switched_off' \/ volume_based_mute_is_active'
<1>1. CASE ~MuteApplies(m)
  BY <1>1, Zenon DEF set_mute_state, HardwareMute
<1>2. CASE MuteApplies(m) /\ vcfg.mute = "switch"
  BY <1>2, Zenon DEF set_mute_state
<1>3. CASE MuteApplies(m) /\ vcfg.mute # "switch"
  BY <1>3, Zenon DEF set_mute_state
<1>4. QED BY <1>1, <1>2, <1>3

LEMMA MuteStep == MuteInv /\ [VolumeNext]_vvars => MuteInv'
<1> SUFFICES ASSUME MuteInv, [VolumeNext]_vvars PROVE MuteInv'  OBVIOUS
<1>m. \A m \in MixerOpens : m \in BOOLEAN
  BY DEF MixerOpens
<1>1. CASE \E v \in Volumes : player_volume(v)
  <2> PICK v \in Volumes : player_volume(v)  BY <1>1
  <2>1. /\ caller.pc = "idle" /\ asked' = v /\ vcfg' = vcfg
        /\ UNCHANGED <<volume_based_mute_is_active, switched_off>>
    BY DEF player_volume
  <2>2. HasMute' <=> HasMute
    BY <2>1 DEF HasMute
  <2>3. CASE v = Mute
    <3>1. /\ caller' = [pc |-> IF HasMute THEN "muting" ELSE "idle", vol |-> v]
          /\ mute_requested_externally' = (mute_requested_externally \/ HasMute)
          /\ software_mute_enabled' = (software_mute_enabled \/ ~HasMute)
      BY <2>3, Zenon DEF player_volume
    <3>2. /\ HasMute => caller'.pc = "muting" /\ mute_requested_externally'
          /\ ~HasMute => caller'.pc = "idle" /\ software_mute_enabled'
      BY <3>1, Zenon
    <3>3. QED BY <2>1, <2>2, <3>2 DEF MuteInv, Silent
  <2>4. CASE v # Mute
    <3>1. \E mode, h : caller' = [pc |-> IF mode = "sw_only" THEN "unmute" ELSE "volume", vol |-> h]
      BY <2>4, Zenon DEF player_volume
    <3>2. caller'.pc \in {"unmute", "volume"}
      BY <3>1
    <3>3. QED BY <2>1, <2>4, <3>2 DEF MuteInv
  <2>5. QED BY <2>3, <2>4
<1>2. CASE CallerSetsMixer
  BY <1>2 DEF CallerSetsMixer, MuteInv, HasMute, Silent
<1>3. CASE CallerMutes
  <2>1. /\ caller.pc = "muting" /\ caller' = [caller EXCEPT !.pc = "idle"]
        /\ UNCHANGED <<vcfg, asked, mute_requested_externally>>
    BY <1>3, Zenon DEF CallerMutes
  <2>2. PICK m \in MixerOpens :
          /\ set_mute_state(m)
          /\ software_mute_enabled' = (software_mute_enabled \/ ~HardwareMute(m))
    BY <1>3, Zenon DEF CallerMutes
  <2>3. HasMute /\ (HasMute' <=> HasMute)
    BY <2>1 DEF MuteInv, HasMute
  <2>4. caller'.pc \in {"idle", caller.pc}
    BY <2>1
  <2>5. ASSUME asked = Mute PROVE Silent'
    <3>1. mute_requested_externally
      BY <2>3, <2>5 DEF MuteInv
    <3>2. HardwareMute(m) => switched_off' \/ volume_based_mute_is_active'
      BY <1>m, <2>2, <2>3, <3>1, MuteRenewed, Zenon
    <3>3. ~HardwareMute(m) => software_mute_enabled'
      BY <2>2, Zenon
    <3>4. QED BY <3>2, <3>3 DEF Silent
  <2>6. caller'.pc \in {"idle", "muting"}
    BY <2>1, <2>4
  <2>7. QED BY <2>1, <2>3, <2>5, <2>6 DEF MuteInv
<1>4. CASE CallerUnmutes
  <2>1. /\ caller.pc = "unmute" /\ UNCHANGED <<vcfg, asked>>
        /\ caller' = [caller EXCEPT !.pc = IF HasMute THEN "unmuting" ELSE "idle"]
    BY <1>4 DEF CallerUnmutes
  <2>2. asked # Mute
    BY <2>1 DEF MuteInv
  <2>3. caller'.pc \in {"unmuting", "idle", caller.pc}
    BY <2>1
  <2>4. caller'.pc \in {"unmuting", "idle", "unmute"}
    BY <2>1, <2>3
  <2>5. QED BY <2>1, <2>2, <2>4 DEF MuteInv
<1>5. CASE CallerUnmutesMixer
  <2>1. /\ caller.pc = "unmuting" /\ UNCHANGED <<vcfg, asked>>
        /\ caller' = [caller EXCEPT !.pc = "idle"]
    BY <1>5, Zenon DEF CallerUnmutesMixer
  <2>2. asked # Mute
    BY <2>1 DEF MuteInv
  <2>3. caller'.pc \in {"idle", "unmuting"}
    BY <2>1
  <2>4. QED BY <2>1, <2>2, <2>3 DEF MuteInv
<1>6. CASE do_open_begins
  BY <1>6 DEF do_open_begins, mixer, MuteInv, HasMute, Silent
<1>7. CASE do_open_assigns
  BY <1>7 DEF do_open_assigns, MuteInv, HasMute, Silent
<1>8. CASE do_open_sets_mixer
  BY <1>8 DEF do_open_sets_mixer, MuteInv, HasMute, Silent
<1>9. CASE do_open_ends
  <2>1. UNCHANGED <<vcfg, caller, asked, mute_requested_externally, software_mute_enabled>>
    BY <1>9, Zenon DEF do_open_ends
  <2>2. HasMute' <=> HasMute
    BY <2>1 DEF HasMute
  <2>3. ASSUME asked = Mute, Silent PROVE Silent'
    <3>1. CASE HasMute
      <4>1. PICK m \in MixerOpens : set_mute_state(m)
        BY <1>9, <3>1, Zenon DEF do_open_ends
      <4>2. mute_requested_externally
        BY <2>3, <3>1 DEF MuteInv
      <4>3. /\ switched_off => switched_off'
            /\ volume_based_mute_is_active => volume_based_mute_is_active'
        BY <1>m, <3>1, <4>1, <4>2, MuteRenewed, Zenon
      <4>4. QED BY <2>1, <2>3, <4>3 DEF Silent
    <3>2. CASE ~HasMute
      <4>1. UNCHANGED <<switched_off, volume_based_mute_is_active>>
        BY <1>9, <3>2, Zenon DEF do_open_ends
      <4>2. QED BY <2>1, <2>3, <4>1 DEF Silent
    <3>3. QED BY <3>1, <3>2
  <2>4. QED BY <2>1, <2>2, <2>3 DEF MuteInv
<1>10. CASE do_close_mixer
  BY <1>10 DEF do_close_mixer, mixer, MuteInv, HasMute, Silent
<1>11. CASE UNCHANGED vvars
  BY <1>11 DEF vvars, mixer, MuteInv, HasMute, Silent
<1>12. QED
  BY <1>1, <1>2, <1>3, <1>4, <1>5, <1>6, <1>7, <1>8, <1>9, <1>10, <1>11 DEF VolumeNext

(* What the transfer functions do. *)

\* At or below a line's start, less volume is more of a drop, of at most the whole line.
LEMMA LineIsMonotone ==
  ASSUME NEW h \in Nat, NEW a \in Nat, NEW b \in Nat, a <= b
  PROVE  /\ h * a \in Nat /\ h * b \in Nat /\ h * a <= h * b /\ (-h) * a = -(h * a)
<1>1. h * b = h * a + h * (b - a) /\ b - a \in Nat  OBVIOUS
<1>2. h * (b - a) \in Nat  BY <1>1
<1> QED  BY <1>1, <1>2

LEMMA Floors ==
  ASSUME NEW x \in Int, NEW y \in Int, NEW h \in Int, NEW n \in {13, 25, 30},
         -(h * n) <= x, x <= y, y <= 0
  PROVE  /\ x \div n \in Int /\ y \div n \in Int
         /\ -h <= x \div n /\ x \div n <= y \div n /\ y \div n <= 0
<1>1. CASE n = 13  BY <1>1
<1>2. CASE n = 25  BY <1>2
<1>3. CASE n = 30  BY <1>3
<1> QED  BY <1>1, <1>2, <1>3

LEMMA LineDrops ==
  ASSUME NEW R \in Nat, NEW l \in VolumeLines(R), NEW v \in -30 .. 0, NEW w \in -30 .. 0, v <= w
  PROVE  /\ Drop(l, v) \in Int /\ Drop(l, w) \in Int
         /\ -R <= Drop(l, v) /\ Drop(l, v) <= Drop(l, w) /\ Drop(l, w) <= 0
<1>1. PICK s \in {0, -5, -17}, h \in 0 .. R : l = <<s, -h>>
  <2>1. R \div 2 \in 0 .. R /\ (3 * R) \div 4 \in 0 .. R  OBVIOUS
  <2> QED  BY <2>1 DEF VolumeLines
<1>2. l[1] = s /\ l[2] = -h /\ 30 + s \in {13, 25, 30}  BY <1>1
<1>3. CASE v > s
  BY <1>2, <1>3 DEF Drop
<1> DEFINE n == 30 + s
           D(u) == ((-h) * (s - u)) \div n
<1>4. ASSUME NEW u \in {v, w}, u <= s
      PROVE  /\ -(h * n) <= (-h) * (s - u) /\ (-h) * (s - u) <= 0 /\ (-h) * (s - u) \in Int
  <2>1. s - u \in Nat /\ n \in Nat /\ s - u <= n  BY <1>4
  <2>2. h * (s - u) \in Nat /\ h * (s - u) <= h * n /\ (-h) * (s - u) = -(h * (s - u))
        /\ h * n \in Nat
    <3> HIDE DEF n
    <3> QED  BY <2>1, LineIsMonotone
  <2> QED  BY <2>2
<1>5. CASE v <= s /\ s < w
  <2>1. Drop(l, w) = 0 /\ Drop(l, v) = D(v)  BY <1>2, <1>5 DEF Drop
  <2>2. D(v) \in Int /\ -h <= D(v) /\ D(v) <= 0
    <3> DEFINE x == (-h) * (s - v)
    <3>1. x \in Int /\ -(h * n) <= x /\ x <= x /\ x <= 0 /\ n \in {13, 25, 30} /\ h \in Int
      BY <1>2, <1>4, <1>5
    <3>2. D(v) = x \div n  OBVIOUS
    <3> HIDE DEF x, n, D
    <3> QED  BY <3>1, <3>2, Floors
  <2> HIDE DEF D
  <2> QED  BY <2>1, <2>2
<1>6. CASE w <= s
  <2>1. Drop(l, w) = D(w) /\ Drop(l, v) = D(v)  BY <1>2, <1>6 DEF Drop
  <2>2. s - w \in Nat /\ s - v \in Nat /\ s - w <= s - v  BY <1>6
  <2>3. (-h) * (s - v) <= (-h) * (s - w)
    <3>1. h * (s - w) <= h * (s - v) /\ h * (s - v) \in Nat /\ h * (s - w) \in Nat
          /\ (-h) * (s - w) = -(h * (s - w))
      BY <2>2, LineIsMonotone
    <3>2. (-h) * (s - v) = -(h * (s - v))
      BY <2>2, LineIsMonotone
    <3> QED  BY <3>1, <3>2
  <2>4. D(v) \in Int /\ D(w) \in Int /\ -h <= D(v) /\ D(v) <= D(w) /\ D(w) <= 0
    <3> DEFINE x == (-h) * (s - v)
               y == (-h) * (s - w)
    <3>1. /\ x \in Int /\ y \in Int /\ -(h * n) <= x /\ x <= y /\ y <= 0
          /\ n \in {13, 25, 30} /\ h \in Int
      BY <1>2, <1>4, <1>6, <2>3
    <3>2. D(v) = x \div n /\ D(w) = y \div n  OBVIOUS
    <3> HIDE DEF x, y, n, D
    <3> QED  BY <3>1, <3>2, Floors
  <2> HIDE DEF D
  <2> QED  BY <2>1, <2>4
<1> QED  BY <1>3, <1>5, <1>6

LEMMA StandardProfile ==
  ASSUME NEW hi \in Int, NEW lo \in Int, lo <= hi,
         NEW v \in -30 .. 0, NEW w \in -30 .. 0, v <= w
  PROVE  /\ vol2attn(v, hi, lo) \in lo .. hi /\ vol2attn(w, hi, lo) \in lo .. hi
         /\ vol2attn(v, hi, lo) <= vol2attn(w, hi, lo)
         /\ vol2attn(0, hi, lo) = hi
<1> DEFINE R == hi - lo
           drops(u) == {Drop(l, u) : l \in VolumeLines(R)}
           least(u) == CHOOSE d \in drops(u) : \A e \in drops(u) : d <= e
           l0 == <<0, -(R \div 2)>>
           l5 == <<-5, -((3 * R) \div 4)>>
           l17 == <<-17, -R>>
<1>1. R \in Nat /\ VolumeLines(R) = {l0, l5, l17}  BY DEF VolumeLines
<1>2. ASSUME NEW u \in -30 .. 0
      PROVE  /\ vol2attn(u, hi, lo) = hi + least(u)
             /\ least(u) \in drops(u) /\ \A e \in drops(u) : least(u) <= e
             /\ \A e \in drops(u) : e \in Int /\ -R <= e /\ e <= 0
  <2>1. \A e \in drops(u) : e \in Int /\ -R <= e /\ e <= 0
    BY <1>1, LineDrops
  <2>2. drops(u) = {Drop(l0, u), Drop(l5, u), Drop(l17, u)}
    BY <1>1
  <2>3. \E d \in drops(u) : \A e \in drops(u) : d <= e
    <3> HIDE DEF drops
    <3>1. Drop(l0, u) \in Int /\ Drop(l5, u) \in Int /\ Drop(l17, u) \in Int
      BY <2>1, <2>2
    <3> DEFINE x == Drop(l0, u)
               y == Drop(l5, u)
               z == Drop(l17, u)
    <3>2. drops(u) = {x, y, z} /\ x \in Int /\ y \in Int /\ z \in Int  BY <2>2, <3>1
    <3> HIDE DEF x, y, z
    <3>3. \E d \in {x, y, z} : d <= x /\ d <= y /\ d <= z
      BY <3>2
    <3> QED  BY <3>2, <3>3
  <2>4. vol2attn(u, hi, lo) = hi + least(u)  BY DEF vol2attn
  <2>5. least(u) \in drops(u) /\ \A e \in drops(u) : least(u) <= e
    <3> HIDE DEF drops
    <3> QED  BY <2>3
  <2> QED  BY <2>1, <2>4, <2>5
<1>3. least(v) <= least(w)
  <2>1. PICK l \in VolumeLines(R) : least(w) = Drop(l, w)
    <3> HIDE DEF least
    <3> QED  BY <1>2
  <2>2. Drop(l, v) \in drops(v) /\ Drop(l, v) <= Drop(l, w) /\ Drop(l, v) \in Int
    BY <1>1, LineDrops
  <2>3. least(v) <= Drop(l, v) /\ least(v) \in Int
    BY <1>2, <2>2
  <2>4. Drop(l, w) \in Int
    BY <1>1, LineDrops
  <2> HIDE DEF least
  <2> QED  BY <2>1, <2>2, <2>3, <2>4
<1>4. least(0) = 0
  <2>1. Drop(l0, 0) = 0 /\ Drop(l5, 0) = 0 /\ Drop(l17, 0) = 0
    <3>1. l0[1] = 0 /\ l0[2] \in Int /\ l5[1] = -5 /\ l17[1] = -17  BY <1>1
    <3>2. Drop(l5, 0) = 0 /\ Drop(l17, 0) = 0  BY <3>1 DEF Drop
    <3>3. Drop(l0, 0) = (l0[2] * (0 - 0)) \div (30 + 0)
      <4> HIDE DEF l0
      <4> QED  BY <3>1 DEF Drop
    <3>4. l0[2] * (0 - 0) = 0  BY <3>1
    <3> HIDE DEF l0
    <3> QED  BY <3>2, <3>3, <3>4
  <2>2. \A d \in drops(0) : d = 0
    BY <1>1, <2>1
  <2> HIDE DEF drops
  <2> QED  BY <1>2, <2>2
<1>5. vol2attn(v, hi, lo) = hi + least(v) /\ vol2attn(w, hi, lo) = hi + least(w)
      /\ vol2attn(0, hi, lo) = hi + least(0)
  <2>1. 0 \in -30 .. 0  OBVIOUS
  <2> HIDE DEF least, drops
  <2> QED  BY <1>2, <2>1
<1>6. least(v) \in -R .. 0 /\ least(w) \in -R .. 0
  <2> HIDE DEF least, drops
  <2> QED  BY <1>1, <1>2
<1> HIDE DEF least
<1> QED  BY <1>3, <1>4, <1>5, <1>6

LEMMA FlatProfile ==
  ASSUME NEW hi \in Int, NEW lo \in Int, lo <= hi,
         NEW v \in -30 .. 0, NEW w \in -30 .. 0, v <= w
  PROVE  /\ flat_vol2attn(v, hi, lo) \in lo .. hi /\ flat_vol2attn(w, hi, lo) \in lo .. hi
         /\ flat_vol2attn(v, hi, lo) <= flat_vol2attn(w, hi, lo)
         /\ flat_vol2attn(0, hi, lo) = hi
<1> DEFINE R == hi - lo
           x == R * (30 + v)
           y == R * (30 + w)
<1>1. /\ flat_vol2attn(v, hi, lo) = x \div 30 + lo
      /\ flat_vol2attn(w, hi, lo) = y \div 30 + lo
      /\ flat_vol2attn(0, hi, lo) = (R * (30 + 0)) \div 30 + lo
  BY DEF flat_vol2attn
<1>2. x \in Nat /\ y \in Nat /\ x <= y /\ y <= R * 30
  <2>1. R \in Nat /\ 30 + v \in Nat /\ 30 + w \in Nat /\ 30 + v <= 30 + w /\ 30 + w <= 30
    OBVIOUS
  <2>2. x \in Nat /\ y \in Nat /\ x <= y
    <3> HIDE DEF R
    <3> QED  BY <2>1, LineIsMonotone
  <2>3. y <= R * 30
    <3> HIDE DEF R
    <3> QED  BY <2>1, LineIsMonotone
  <2> QED  BY <2>2, <2>3
<1>3. R \in Nat  OBVIOUS
<1> HIDE DEF x, y
<1>4. x \div 30 \in 0 .. R /\ y \div 30 \in 0 .. R /\ x \div 30 <= y \div 30
  BY <1>2, <1>3
<1>5. (R * (30 + 0)) \div 30 = R  BY <1>3
<1> QED  BY <1>1, <1>4, <1>5

LEMMA ProfileFollows ==
  ASSUME NEW c \in Settings, NEW hi \in Int, NEW lo \in Int, lo <= hi,
         NEW v \in -30 .. 0, NEW w \in -30 .. 0, v <= w
  PROVE  /\ Profile(c, v, hi, lo) \in lo .. hi /\ Profile(c, w, hi, lo) \in lo .. hi
         /\ Profile(c, v, hi, lo) <= Profile(c, w, hi, lo)
         /\ Profile(c, 0, hi, lo) = hi
<1>1. CASE c.ignore  BY <1>1 DEF Profile
<1>2. CASE ~c.ignore /\ c.flat  BY <1>2, FlatProfile DEF Profile
<1>3. CASE ~c.ignore /\ ~c.flat  BY <1>3, StandardProfile DEF Profile
<1> QED  BY <1>1, <1>2, <1>3

\* A maximum below the mixer's range is to be made by the software, which can take away no
\* more than 96.3 dB.
MaxIsInReach == \A c \in Configs : c.hardware => c.max_db - c.hw_min >= SwMin

LEMMA RangesAreOrdered ==
  ASSUME MaxIsInReach, NEW c \in Configs
  PROVE  LET r == Ranges(c) IN
           /\ r.hw_min \in Int /\ r.hw_max \in Int /\ r.hw_min <= r.hw_max
           /\ r.sw_min \in Int /\ r.sw_max \in Int /\ r.sw_min <= r.sw_max
           /\ r.mode \in {"sw_only", "hw_only", "both"}
           /\ r.mode = "sw_only" <=> ~c.hardware
<1>1. /\ c.hw_min \in Int /\ c.hw_max \in Int /\ c.hw_min <= c.hw_max /\ c.max_db \in Int
      /\ c.range \in Nat /\ c.hardware \in BOOLEAN
      /\ c.hardware => c.max_db - c.hw_min >= SwMin
  BY VolumeAssumption DEF Settings, MaxIsInReach
<1>2. CASE ~c.hardware
  <2> DEFINE m == IF c.max_db # 1 /\ c.max_db \in SwMin .. 0 THEN c.max_db ELSE 0
  <2>1. Ranges(c) =
          [mode |-> "sw_only", hw_max |-> 0, hw_min |-> 0, sw_max |-> m,
           sw_min |-> IF c.range # 0 /\ m - c.range >= SwMin THEN m - c.range ELSE SwMin]
    BY <1>2, Zenon DEF Ranges
  <2>2. m \in SwMin .. 0 /\ SwMin \in Int
    <3>1. SwMin \in Int /\ SwMin <= 0  BY DEF SwMin
    <3>2. 0 \in SwMin .. 0  BY <3>1
    <3>3. m = 0 \/ m \in SwMin .. 0  BY Zenon
    <3> QED  BY <3>1, <3>2, <3>3, Zenon
  <2> HIDE DEF m
  <2>3. /\ Ranges(c).mode = "sw_only" /\ Ranges(c).hw_max = 0 /\ Ranges(c).hw_min = 0
        /\ Ranges(c).sw_max = m
        /\ Ranges(c).sw_min = IF c.range # 0 /\ m - c.range >= SwMin THEN m - c.range ELSE SwMin
    BY <2>1
  <2> QED  BY <1>1, <1>2, <2>2, <2>3
<1>3. CASE c.hardware
  <2> DEFINE top == Ranges(c).hw_max
  <2>1. SwMin \in Int /\ SwMin <= 0  BY DEF SwMin
  <2>2. CASE c.range > top - c.hw_min  BY <1>1, <1>3, <2>1, <2>2 DEF Ranges
  <2>3. CASE ~(c.range > top - c.hw_min)  BY <1>1, <1>3, <2>1, <2>3 DEF Ranges
  <2> QED  BY <2>2, <2>3
<1> QED  BY <1>2, <1>3

LEMMA AttenuationFollows ==
  ASSUME MaxIsInReach, NEW c \in Configs,
         NEW v \in -30 .. 0, NEW w \in -30 .. 0, v <= w
  PROVE  LET r == Ranges(c) IN
           /\ Total(c, v) <= Total(c, w)
           /\ c.hardware => Attenuations(c, v).hw \in r.hw_min .. r.hw_max
           /\ r.mode = "both" => Attenuations(c, v).sw \in r.sw_min .. r.sw_max
           /\ Total(c, 0) = (CASE r.mode = "hw_only" -> r.hw_max
                               [] r.mode = "sw_only" -> r.sw_max
                               [] OTHER -> r.hw_max + r.sw_max)
<1> DEFINE r == Ranges(c)
<1>1. /\ r.hw_min \in Int /\ r.hw_max \in Int /\ r.hw_min <= r.hw_max
      /\ r.sw_min \in Int /\ r.sw_max \in Int /\ r.sw_min <= r.sw_max
      /\ r.mode \in {"sw_only", "hw_only", "both"}
      /\ r.mode = "sw_only" <=> ~c.hardware
  BY RangesAreOrdered
<1>2. c \in Settings  BY VolumeAssumption
<1> HIDE DEF r
<1>3. CASE r.mode = "hw_only"
  <2>1. \A u : Attenuations(c, u) = [hw |-> Profile(c, u, r.hw_max, r.hw_min), sw |-> 0]
    BY <1>3 DEF Attenuations, r
  <2>2. \A u : Attenuations(c, u).hw = Profile(c, u, r.hw_max, r.hw_min)
               /\ Attenuations(c, u).sw = 0
    BY <2>1
  <2> QED  BY <1>1, <1>2, <1>3, <2>2, ProfileFollows DEF Total, r
<1>4. CASE r.mode = "sw_only"
  <2>1. \A u : Attenuations(c, u) = [hw |-> 0, sw |-> Profile(c, u, r.sw_max, r.sw_min)]
    BY <1>4 DEF Attenuations, r
  <2>2. \A u : Attenuations(c, u).sw = Profile(c, u, r.sw_max, r.sw_min)
               /\ Attenuations(c, u).hw = 0
    BY <2>1
  <2> QED  BY <1>1, <1>2, <1>4, <2>2, ProfileFollows DEF Total, r
<1>5. CASE r.mode = "both"
  <2> DEFINE hw_span == r.hw_max - r.hw_min
             sw_span == r.sw_max - r.sw_min
             s(u) == Profile(c, u, hw_span + sw_span, 0)
  <2>1. \A u : Attenuations(c, u) =
          IF c.hw_priority
          THEN IF sw_span > s(u) THEN [sw |-> r.sw_min + s(u), hw |-> r.hw_min]
               ELSE [sw |-> r.sw_max, hw |-> r.hw_min + s(u) - sw_span]
          ELSE IF hw_span > s(u) THEN [hw |-> r.hw_min + s(u), sw |-> r.sw_min]
               ELSE [hw |-> r.hw_max, sw |-> r.sw_min + s(u) - hw_span]
    BY <1>5 DEF Attenuations, r
  <2>2. hw_span \in Nat /\ sw_span \in Nat  BY <1>1
  <2>3. /\ s(v) \in 0 .. hw_span + sw_span /\ s(w) \in 0 .. hw_span + sw_span
        /\ s(v) <= s(w) /\ s(0) = hw_span + sw_span
    <3> HIDE DEF hw_span, sw_span
    <3> QED  BY <1>2, <2>2, ProfileFollows
  <2> HIDE DEF s
  <2>4. ASSUME NEW u, s(u) \in 0 .. hw_span + sw_span
        PROVE  /\ Attenuations(c, u).hw \in r.hw_min .. r.hw_max
               /\ Attenuations(c, u).sw \in r.sw_min .. r.sw_max
               /\ Total(c, u) = r.hw_min + r.sw_min + s(u)
    <3>1. CASE c.hw_priority /\ sw_span > s(u)
      BY <1>1, <2>1, <2>2, <2>4, <3>1 DEF Total
    <3>2. CASE c.hw_priority /\ ~(sw_span > s(u))
      BY <1>1, <2>1, <2>2, <2>4, <3>2 DEF Total
    <3>3. CASE ~c.hw_priority /\ hw_span > s(u)
      BY <1>1, <2>1, <2>2, <2>4, <3>3 DEF Total
    <3>4. CASE ~c.hw_priority /\ ~(hw_span > s(u))
      BY <1>1, <2>1, <2>2, <2>4, <3>4 DEF Total
    <3> QED  BY <3>1, <3>2, <3>3, <3>4
  <2>5. Total(c, 0) = r.hw_max + r.sw_max
    <3>1. s(0) \in 0 .. hw_span + sw_span  BY <2>2, <2>3
    <3> QED  BY <1>1, <2>3, <2>4, <3>1
  <2>6. Total(c, v) <= Total(c, w)
    BY <1>1, <2>2, <2>3, <2>4
  <2> QED  BY <1>5, <2>3, <2>4, <2>5, <2>6 DEF r
<1> QED  BY <1>1, <1>3, <1>4, <1>5

\* Whatever the settings, the mixer and the order of the RTSP thread and the player: the
\* output is never louder for a lower volume, the attenuations stay in the ranges that were
\* set, and a mute that has been answered keeps the output silent while the device is closed
\* and opened (player_volume_without_notification, do_mute, do_open).
THEOREM VolumesAreObeyed == MaxIsInReach => (VolumeSpec => []VolumeIsObeyed)
<1> SUFFICES ASSUME MaxIsInReach  PROVE VolumeSpec => []VolumeIsObeyed
  OBVIOUS
<1>1. MuteInv => MuteIsSilent
  BY DEF MuteInv, MuteIsSilent
<1>2. MuteInv => AttenuationFollowsVolume
  <2> SUFFICES ASSUME MuteInv  PROVE AttenuationFollowsVolume
    OBVIOUS
  <2>1. vcfg \in Configs /\ \A v \in Volumes \ {Mute} : v \in -30 .. 0
    BY VolumeAssumption DEF MuteInv
  <2>2. ASSUME NEW v \in Volumes \ {Mute}, NEW w \in Volumes \ {Mute}, v <= w
        PROVE  Total(vcfg, v) <= Total(vcfg, w)
    BY <2>1, <2>2, AttenuationFollows, Zenon
  <2>3. ASSUME NEW v \in Volumes \ {Mute}
        PROVE  LET r == Ranges(vcfg) IN
               /\ vcfg.hardware => Attenuations(vcfg, v).hw \in r.hw_min .. r.hw_max
               /\ r.mode = "both" => Attenuations(vcfg, v).sw \in r.sw_min .. r.sw_max
               /\ Total(vcfg, 0) = (CASE r.mode = "hw_only" -> r.hw_max
                                      [] r.mode = "sw_only" -> r.sw_max
                                      [] OTHER -> r.hw_max + r.sw_max)
    <3>1. v \in -30 .. 0  BY <2>1, Zenon
    <3>2. 0 \in -30 .. 0 /\ v <= 0  BY <3>1
    <3> QED  BY <2>1, <3>1, <3>2, AttenuationFollows, Zenon
  <2> QED  BY <2>2, <2>3, Zenon DEF AttenuationFollowsVolume
<1> QED
  BY <1>1, <1>2, MuteInit, MuteStep, PTL DEF VolumeSpec, VolumeIsObeyed

-----------------------------------------------------------------------------
(* The volume of one speaker, set over DACP. *)

LEMMA GreatestExists ==
  ASSUME NEW S, S \subseteq 0 .. 100, S # {}
  PROVE  Greatest(S) \in S /\ \A y \in S : y <= Greatest(S)
<1> DEFINE T == {100 - x : x \in S}
           R == {p \in Nat \X Nat : p[1] < p[2]}
<1>1. IsWellFoundedOn(R, Nat)  BY NatLessThanWellFounded, Zenon DEF OpToRel
<1>2. T \subseteq Nat /\ T # {}
  <2>1. PICK x : x \in S  OBVIOUS
  <2>2. 100 - x \in T  BY <2>1
  <2>3. T \subseteq Nat  OBVIOUS
  <2> HIDE DEF T
  <2> QED  BY <2>2, <2>3
<1>3. PICK k \in T : \A j \in T : ~(<<j, k>> \in R)
  <2> HIDE DEF R, T
  <2> QED  BY <1>1, <1>2, WFMin, Zenon
<1>4. \A j \in T : k <= j
  <2>1. \A j \in T : ~(j < k)
    <3> HIDE DEF T
    <3> QED  BY <1>2, <1>3 DEF R
  <2> HIDE DEF T
  <2> QED  BY <1>2, <2>1
<1>5. PICK x \in S : k = 100 - x  BY <1>3
<1>6. \A y \in S : y <= x
  <2> TAKE y \in S
  <2>1. 100 - y \in T  OBVIOUS
  <2>2. k <= 100 - y  BY <1>4, <2>1
  <2> QED  BY <1>5, <2>2
<1> QED  BY <1>6, Zenon DEF Greatest

LEMMA Quotient ==
  ASSUME NEW n \in Nat, NEW v \in Nat \ {0}
  PROVE  n \div v \in Nat /\ v * (n \div v) <= n /\ n < v * (n \div v) + v
  OBVIOUS

\* A loudness brought to a relative volume and back is itself, but for rounding.
LEMMA RoundTrip ==
  ASSUME NEW v \in 1 .. 100, NEW L \in 0 .. v
  PROVE  LET q == (L * 100 + v \div 2) \div v IN
         q \in 0 .. 100 /\ Near(Loudness(v, q), L)
<1> DEFINE n == L * 100 + v \div 2
           q == n \div v
<1>1. n \in Nat /\ v \div 2 \in Nat /\ 2 * (v \div 2) <= v /\ v <= 2 * (v \div 2) + 1
  OBVIOUS
<1>2. q \in Nat /\ v * q <= n /\ n < v * q + v
  <2> HIDE DEF n
  <2> QED  BY <1>1, Quotient
<1>3. v * q \in Nat
  <2> HIDE DEF q
  <2> QED  BY <1>2
<1> HIDE DEF q
<1>4. q <= 100
  <2> SUFFICES ASSUME 101 <= q  PROVE FALSE
    BY <1>2
  <2>1. v * 101 <= v * q  BY <1>2, LineIsMonotone
  <2> QED  BY <1>1, <1>2, <1>3, <2>1
<1>5. Near(Loudness(v, q), L)
  <2> DEFINE p == v * q
  <2>1. p \in Nat /\ p <= n /\ n < p + v  BY <1>2, <1>3
  <2>2. Loudness(v, q) = (p + 50) \div 100  BY DEF Loudness, Rounded
  <2> HIDE DEF p
  <2>3. (p + 50) \div 100 - L \in -1 .. 1  BY <1>1, <2>1
  <2> QED  BY <2>2, <2>3 DEF Near
<1> QED  BY <1>2, <1>4, <1>5 DEF q

LEMMA LoudnessIsBounded ==
  ASSUME NEW o \in 0 .. 100, NEW r \in 0 .. 100, NEW g \in r .. 100
  PROVE  /\ Loudness(o, r) \in 0 .. o /\ Loudness(o, r) <= Loudness(o, g)
         /\ Loudness(o, 100) = o /\ Loudness(0, r) = 0
<1> DEFINE x == o * r
           y == o * g
<1>1. x \in Nat /\ y \in Nat /\ x <= y
  BY LineIsMonotone
<1>2. x <= o * 100  BY LineIsMonotone
<1>3. /\ Loudness(o, r) = (x + 50) \div 100 /\ Loudness(o, g) = (y + 50) \div 100
      /\ Loudness(o, 100) = (o * 100 + 50) \div 100 /\ Loudness(0, r) = (0 * r + 50) \div 100
  BY DEF Loudness, Rounded
<1>4. 0 * r = 0  OBVIOUS
<1> HIDE DEF x, y
<1>5. (x + 50) \div 100 \in 0 .. o /\ (x + 50) \div 100 <= (y + 50) \div 100
  BY <1>1, <1>2
<1>6. (o * 100 + 50) \div 100 = o /\ (0 + 50) \div 100 = 0  OBVIOUS
<1> QED  BY <1>3, <1>4, <1>5, <1>6

DacpTypes ==
  /\ overall \in 0 .. 100 /\ relative \in [Speakers -> 0 .. 100]
  /\ on \subseteq Speakers /\ Us \in on

\* While nothing has failed and the user has moved nothing: what has been answered is so, and
\* until a command is sent the speakers are as loud as they were.
DacpInv ==
  /\ stage \in {"idle", "volume", "speakers", "lower", "set", "relative", "done"}
  /\ touches \in Nat
  /\ DOMAIN seen = {"overall", "highest"} /\ seen = [i \in DOMAIN seen |-> seen[i]]
  /\ stage = "idle" => DacpTypes
  /\ ~failed /\ touches = 0 =>
       /\ DacpTypes
       /\ stage \in {"volume", "speakers", "lower", "set", "relative"} =>
            vo \in 0 .. 100
       /\ stage \in {"volume", "speakers"} => before = [s \in Speakers |-> Loud(s)]
       /\ stage = "speakers" => seen.overall = overall
       /\ stage = "set" => \A s \in on \ {Us} : Loud(s) = before[s] /\ Loud(s) <= vo
       /\ stage = "lower" =>
            /\ seen.highest \in 0 .. 100 /\ vo < seen.highest
            /\ \A s \in on \ {Us} : Loud(s) = before[s] /\ Loud(s) <= seen.highest
       /\ stage = "relative" =>
            /\ seen.highest = overall /\ vo < overall
            /\ \A s \in on \ {Us} : Near(Loud(s), before[s])
       /\ stage = "done" => VolumeAsAsked

\* Loud(s) is a percentage, and no more than the overall volume.
LEMMA LoudIsAPercentage ==
  ASSUME DacpTypes, NEW s \in Speakers
  PROVE  Loud(s) \in 0 .. overall /\ Loud(s) \in 0 .. 100
<1>1. relative[s] \in 0 .. 100 /\ overall \in 0 .. 100  BY DEF DacpTypes
<1>2. Loudness(overall, relative[s]) \in 0 .. overall
  <2>1. 100 \in relative[s] .. 100  BY <1>1
  <2> QED  BY <1>1, <2>1, LoudnessIsBounded
<1> QED  BY <1>1, <1>2 DEF Loud

\* A command that sets the overall volume, to no less than the others' loudness, leaves the
\* others as loud as they were.
LEMMA IncludeKeepsOthers ==
  ASSUME DacpTypes, NEW v \in 0 .. 100, IncludeSpeaker(Us, v),
         \A s \in on \ {Us} : Loud(s) <= v
  PROVE  /\ overall' = v /\ on' = on /\ DacpTypes' /\ relative'[Us] = 100 /\ Loud(Us)' = v
         /\ \A s \in on \ {Us} : Near(Loud(s)', Loud(s))
<1>1. overall' = v /\ on' = on  BY DEF IncludeSpeaker, DacpTypes
<1> DEFINE q(t) == (Loud(t) * 100 + v \div 2) \div v
<1>2. relative' = [t \in Speakers |->
          IF t = Us THEN 100 ELSE IF v = 0 THEN relative[t]
          ELSE IF q(t) > 100 THEN 100 ELSE q(t)]
  BY DEF IncludeSpeaker
<1>3. Us \in Speakers /\ relative'[Us] = 100
  BY <1>2 DEF DacpTypes
<1>4. ASSUME NEW t \in Speakers, v # 0  PROVE q(t) \in Nat
  <2>1. Loud(t) * 100 + v \div 2 \in Nat  BY LoudIsAPercentage
  <2> HIDE DEF q
  <2> DEFINE n == Loud(t) * 100 + v \div 2
  <2>2. q(t) = n \div v /\ n \in Nat  BY <2>1 DEF q
  <2> HIDE DEF n
  <2> QED  BY <1>4, <2>2, Quotient
<1>5. relative' \in [Speakers -> 0 .. 100]
  <2> HIDE DEF q
  <2>1. \A t \in Speakers : relative[t] \in 0 .. 100  BY DEF DacpTypes
  <2>2. ASSUME NEW t \in Speakers
        PROVE  (IF t = Us THEN 100 ELSE IF v = 0 THEN relative[t]
                ELSE IF q(t) > 100 THEN 100 ELSE q(t)) \in 0 .. 100
    BY <1>4, <2>1
  <2> QED  BY <1>2, <2>2
<1>6. DacpTypes'  BY <1>1, <1>5 DEF DacpTypes
<1>7. Loud(Us)' = v
  <2>1. Loud(Us)' = Loudness(v, 100)  BY <1>1, <1>3 DEF Loud
  <2>2. 100 \in 0 .. 100 /\ 100 \in 100 .. 100  OBVIOUS
  <2> QED  BY <2>1, <2>2, LoudnessIsBounded
<1>8. ASSUME NEW s \in on \ {Us}  PROVE Near(Loud(s)', Loud(s))
  <2>1. s \in Speakers /\ s # Us  BY DEF DacpTypes
  <2>2. Loud(s)' = Loudness(v, relative'[s])  BY <1>1 DEF Loud
  <2>3. Loud(s) \in 0 .. v
    BY <2>1, LoudIsAPercentage
  <2>4. CASE v = 0
    <3>1. Loudness(0, relative'[s]) = 0
      <4>1. relative'[s] \in 0 .. 100 /\ 0 \in 0 .. 100  BY <1>5, <2>1
      <4>2. 100 \in relative'[s] .. 100  BY <4>1
      <4> QED  BY <4>1, <4>2, LoudnessIsBounded
    <3> QED  BY <2>2, <2>3, <2>4, <3>1 DEF Near
  <2>5. CASE v # 0
    <3>1. q(s) \in 0 .. 100 /\ Near(Loudness(v, q(s)), Loud(s))
      <4> DEFINE L == Loud(s)
      <4>1. v \in 1 .. 100 /\ L \in 0 .. v  BY <2>3, <2>5
      <4>2. q(s) = (L * 100 + v \div 2) \div v  OBVIOUS
      <4> HIDE DEF q, L
      <4>3. q(s) \in 0 .. 100 /\ Near(Loudness(v, q(s)), L)
        BY <4>1, <4>2, RoundTrip
      <4> QED  BY <4>3 DEF L
    <3>2. relative'[s] = q(s)
      <4> HIDE DEF q
      <4> QED  BY <1>2, <2>1, <2>5, <3>1
    <3> HIDE DEF q
    <3> QED  BY <2>2, <3>1, <3>2
  <2> QED  BY <2>4, <2>5
<1> QED  BY <1>1, <1>3, <1>6, <1>7, <1>8

\* What is planned, from what was answered.
LEMMA PlanIsGood ==
  ASSUME DacpTypes, vo \in 0 .. 100, NEW h, h = HighestOther(relative, on, overall)
  PROVE  /\ Plan(relative, on, overall) \in {"done", "set", "lower", "relative"}
         /\ h \in 0 .. overall
         /\ \A s \in on \ {Us} : Loud(s) <= h
         /\ Plan(relative, on, overall) = "set" => \A s \in on \ {Us} : Loud(s) <= vo
         /\ Plan(relative, on, overall) \in {"lower", "relative"} => vo < h
         /\ Plan(relative, on, overall) = "relative" => h = overall
<1> DEFINE S == {0} \cup {relative[s] : s \in on \ {Us}}
           g == Greatest(S)
<1>1. S \subseteq 0 .. 100 /\ S # {}  BY DEF DacpTypes
<1>2. g \in S /\ \A y \in S : y <= g
  <2> HIDE DEF S
  <2> QED  BY <1>1, GreatestExists
<1>3. g \in 0 .. 100 /\ overall \in 0 .. 100
  <2> HIDE DEF S, g
  <2> QED  BY <1>1, <1>2 DEF DacpTypes
<1>4. h = Loudness(overall, g)  BY DEF HighestOther, Loudness
<1>5. h \in 0 .. overall
  <2> HIDE DEF g
  <2>1. 100 \in g .. 100  BY <1>3
  <2>2. Loudness(overall, g) \in 0 .. overall
    BY <1>3, <2>1, LoudnessIsBounded, Zenon
  <2> QED  BY <1>4, <2>2, Zenon
<1>6. ASSUME NEW s \in on \ {Us}  PROVE Loud(s) \in 0 .. overall /\ Loud(s) <= h
  <2>1. relative[s] \in 0 .. 100  BY DEF DacpTypes
  <2>2. g \in relative[s] .. 100
    <3>1. relative[s] \in S  OBVIOUS
    <3> HIDE DEF S, g
    <3> QED  BY <1>2, <1>3, <2>1, <3>1
  <2> HIDE DEF g
  <2>3. Loudness(overall, relative[s]) \in 0 .. overall /\ Loudness(overall, relative[s]) <= h
    <3> DEFINE r == relative[s]
    <3> HIDE DEF r
    <3>1. r \in 0 .. 100 /\ g \in r .. 100 /\ overall \in 0 .. 100
      BY <1>3, <2>1, <2>2 DEF r
    <3>2. Loudness(overall, r) \in 0 .. overall /\ Loudness(overall, r) <= Loudness(overall, g)
      BY <3>1, LoudnessIsBounded
    <3> QED  BY <1>4, <3>2 DEF r
  <2> QED  BY <2>3 DEF Loud
<1>7. Cardinality(on) = 1 => on \ {Us} = {}
  <2>1. IsFiniteSet(on)  BY VolumesAssumption, FS_Subset DEF DacpTypes
  <2>2. Cardinality(on) = 1 => \E x : on = {x}  BY <2>1, FS_Singleton
  <2> QED  BY <2>2 DEF DacpTypes
<1> HIDE DEF g, S
<1>8. CASE Cardinality(on) = 0
  <2>1. Plan(relative, on, overall) = "done"  BY <1>8 DEF Plan
  <2> QED  BY <1>5, <1>6, <2>1
<1>9. CASE Cardinality(on) # 0 /\ (Cardinality(on) = 1 \/ vo >= overall \/ h <= vo)
  <2>1. Plan(relative, on, overall) = "set"  BY <1>9 DEF Plan
  <2>2. ASSUME NEW s \in on \ {Us}  PROVE Loud(s) <= vo
    BY <1>3, <1>5, <1>6, <1>7, <1>9
  <2> QED  BY <1>5, <1>6, <2>1, <2>2
<1>10. CASE Cardinality(on) # 0 /\ ~(Cardinality(on) = 1 \/ vo >= overall \/ h <= vo)
  <2>1. Plan(relative, on, overall) = IF overall > h THEN "lower" ELSE "relative"
    BY <1>10 DEF Plan
  <2>2. vo < h  BY <1>5, <1>10
  <2> QED  BY <1>3, <1>5, <1>6, <2>1, <2>2
<1> QED  BY <1>8, <1>9, <1>10

LEMMA DacpInvInit == DacpVolumeInit => DacpInv
<1> SUFFICES ASSUME DacpVolumeInit  PROVE DacpInv
  OBVIOUS
<1>1. DacpTypes  BY VolumesAssumption DEF DacpVolumeInit, DacpTypes
<1>2. DOMAIN seen = {"overall", "highest"} /\ seen = [i \in DOMAIN seen |-> seen[i]]
  BY DEF DacpVolumeInit
<1>3. stage = "idle" /\ touches = 0  BY DEF DacpVolumeInit
<1> QED  BY <1>1, <1>2, <1>3 DEF DacpInv

LEMMA DacpInvStep == DacpInv /\ [DacpVolumeNext]_volvars => DacpInv'
<1> SUFFICES ASSUME DacpInv, [DacpVolumeNext]_volvars  PROVE DacpInv'
  OBVIOUS
<1>1. CASE \E v \in Wanted : SetVolumeBegins(v)
  <2> PICK v \in Wanted : SetVolumeBegins(v)  BY <1>1
  <2>1. DacpTypes /\ UNCHANGED <<overall, relative, on, seen>>
    BY DEF SetVolumeBegins, DacpInv
  <2>2. DacpTypes'  BY <2>1 DEF DacpTypes
  <2>3. /\ vo' = v /\ touches' = 0 /\ before' = [s \in Speakers |-> Loud(s)]
        /\ \/ v \in 0 .. 100 /\ stage' = "volume"
           \/ stage' = "done" /\ code' = 492
    BY Zenon DEF SetVolumeBegins
  <2>4. \A s : Loud(s)' = Loud(s)  BY <2>1 DEF Loud
  <2>5. before' = [s \in Speakers |-> Loud(s)']  BY <2>3, <2>4
  <2>6. CASE v \in 0 .. 100 /\ stage' = "volume"
    BY <2>1, <2>2, <2>3, <2>5, <2>6 DEF DacpInv
  <2>7. CASE stage' = "done" /\ code' = 492
    BY <2>1, <2>2, <2>3, <2>7 DEF DacpInv, VolumeAsAsked
  <2> QED  BY <2>3, <2>6, <2>7
<1>2. CASE \E o \in Overalls : stage # "idle" /\ Touch(o)
  BY <1>2 DEF Touch, DacpInv
<1>3. CASE dacp_get_client_volume
  <2>1. /\ stage = "volume" /\ stage' = "speakers"
        /\ UNCHANGED <<overall, relative, on, vo, before, failed, touches>>
        /\ seen' = [seen EXCEPT !.overall = overall]
    BY <1>3 DEF dacp_get_client_volume
  <2>2. /\ seen'.overall = overall /\ DOMAIN seen' = {"overall", "highest"}
        /\ seen' = [i \in DOMAIN seen' |-> seen'[i]]
    BY <2>1 DEF DacpInv
  <2>3. \A s : Loud(s)' = Loud(s)  BY <2>1 DEF Loud
  <2>4. ~failed /\ touches = 0 => DacpTypes' /\ before' = [s \in Speakers |-> Loud(s)']
    BY <2>1, <2>3 DEF DacpInv, DacpTypes
  <2> QED  BY <2>1, <2>2, <2>4 DEF DacpInv
<1>4. CASE dacp_get_speaker_list
  <2>1. /\ stage = "speakers"
        /\ UNCHANGED <<overall, relative, on, vo, before, failed, touches>>
        /\ \/ stage' = "done" /\ code' = 413 /\ seen' = seen
           \/ /\ stage' = Plan(relative, on, seen.overall) /\ code' = 200
              /\ seen' = [seen EXCEPT !.highest = HighestOther(relative, on, seen.overall)]
    BY <1>4, Zenon DEF dacp_get_speaker_list
  <2>2. /\ stage' = "done" \/ stage' = Plan(relative, on, seen.overall)
        /\ stage' = "done" => code' # 204
    BY <2>1
  <2>3. DOMAIN seen' = {"overall", "highest"} /\ seen' = [i \in DOMAIN seen' |-> seen'[i]]
    BY <2>1 DEF DacpInv
  <2>4. \A s : Loud(s)' = Loud(s)  BY <2>1 DEF Loud
  <2>5. stage' \in {"volume", "speakers", "lower", "set", "relative", "done"}
    BY <2>1 DEF Plan
  <2>6. CASE ~(~failed /\ touches = 0)
    BY <2>1, <2>3, <2>5, <2>6 DEF DacpInv
  <2>7. CASE ~failed /\ touches = 0 /\ stage' = "done"
    <3>1. DacpTypes'  BY <2>1, <2>7 DEF DacpInv, DacpTypes
    <3> QED  BY <2>1, <2>2, <2>3, <2>7, <3>1 DEF DacpInv, VolumeAsAsked
  <2>8. CASE ~failed /\ touches = 0 /\ stage' # "done"
    <3> DEFINE h == HighestOther(relative, on, overall)
    <3>1. /\ DacpTypes /\ vo \in 0 .. 100 /\ seen.overall = overall
          /\ before = [s \in Speakers |-> Loud(s)]
      BY <2>1, <2>8 DEF DacpInv
    <3>2. DacpTypes'  BY <2>1, <3>1 DEF DacpTypes
    <3>3. /\ stage' = Plan(relative, on, overall) /\ seen'.highest = h
      BY <2>1, <2>8, <3>1 DEF DacpInv
    <3>4. /\ stage' \in {"set", "lower", "relative"} /\ h \in 0 .. overall
          /\ \A s \in on \ {Us} : Loud(s) <= h
          /\ stage' = "set" => \A s \in on \ {Us} : Loud(s) <= vo
          /\ stage' \in {"lower", "relative"} => vo < h
          /\ stage' = "relative" => h = overall
      <4> HIDE DEF h
      <4>1. h = HighestOther(relative, on, overall)  BY DEF h
      <4> QED  BY <2>8, <3>1, <3>3, <4>1, PlanIsGood
    <3>5. \A s \in on \ {Us} : /\ Loud(s)' = before'[s] /\ Loud(s)' = Loud(s)
                               /\ Loud(s) \in 0 .. 100 /\ Near(Loud(s)', before'[s])
      <4> TAKE s \in on \ {Us}
      <4>1. s \in Speakers  BY <3>1 DEF DacpTypes
      <4>2. Loud(s)' = Loud(s) /\ before'[s] = Loud(s)  BY <2>1, <2>4, <3>1, <4>1
      <4>3. Loud(s) \in 0 .. 100  BY <3>1, <4>1, LoudIsAPercentage
      <4> QED  BY <4>2, <4>3 DEF Near
    <3>6. overall \in 0 .. 100  BY <3>1 DEF DacpTypes
    <3> HIDE DEF h
    <3> QED
      BY <2>1, <2>3, <2>8, <3>1, <3>2, <3>3, <3>4, <3>5, <3>6 DEF DacpInv
  <2> QED  BY <2>6, <2>7, <2>8
<1>5. CASE dacp_set_include_speaker_volume
  <2> DEFINE v == IF stage = "set" THEN vo ELSE seen.highest
  <2>1. /\ stage \in {"set", "lower"} /\ IncludeSpeaker(Us, v) /\ code' = 204
        /\ stage' = IF stage = "set" THEN "done" ELSE "relative"
        /\ UNCHANGED <<vo, seen, before, failed, touches>>
    BY <1>5 DEF dacp_set_include_speaker_volume
  <2>2. CASE ~(~failed /\ touches = 0)
    BY <2>1, <2>2 DEF DacpInv
  <2>3. CASE ~failed /\ touches = 0
    <3>1. /\ DacpTypes /\ v \in 0 .. 100 /\ vo \in 0 .. 100
          /\ \A s \in on \ {Us} : Loud(s) = before[s] /\ Loud(s) <= v
      BY <2>1, <2>3 DEF DacpInv
    <3>2. /\ overall' = v /\ on' = on /\ DacpTypes' /\ relative'[Us] = 100 /\ Loud(Us)' = v
          /\ \A s \in on \ {Us} : Near(Loud(s)', Loud(s))
      <4> HIDE DEF v
      <4> QED  BY <2>1, <3>1, IncludeKeepsOthers
    <3>3. \A s \in on' \ {Us} : Near(Loud(s)', before'[s])
      BY <2>1, <3>1, <3>2
    <3>4. CASE stage = "set"
      <4>1. stage' = "done" /\ v = vo  BY <2>1, <3>4
      <4>2. Near(Loud(Us)', vo')  BY <2>1, <3>1, <3>2, <4>1 DEF Near
      <4>3. VolumeAsAsked'  BY <3>3, <4>2 DEF VolumeAsAsked
      <4> QED  BY <2>1, <2>3, <3>2, <4>1, <4>3 DEF DacpInv
    <3>5. CASE stage = "lower"
      <4>1. stage' = "relative" /\ v = seen.highest  BY <2>1, <3>5
      <4>2. vo < seen.highest  BY <2>3, <3>5 DEF DacpInv
      <4> QED  BY <2>1, <2>3, <3>1, <3>2, <3>3, <4>1, <4>2 DEF DacpInv
    <3> QED  BY <2>1, <3>4, <3>5
  <2> QED  BY <2>2, <2>3
<1>6. CASE dacp_set_speaker_volume
  <2>1. /\ stage = "relative" /\ code' = 204 /\ stage' = "done"
        /\ SpeakerVolume(Us, (vo * 100 + seen.highest \div 2) \div seen.highest)
        /\ UNCHANGED <<vo, seen, before, failed, touches>>
    BY <1>6 DEF dacp_set_speaker_volume
  <2>2. CASE ~(~failed /\ touches = 0)
    BY <2>1, <2>2 DEF DacpInv
  <2>3. CASE ~failed /\ touches = 0
    <3>1. /\ DacpTypes /\ vo \in 0 .. 100 /\ seen.highest = overall /\ vo < overall
          /\ \A s \in on \ {Us} : Near(Loud(s), before[s])
      BY <2>1, <2>3 DEF DacpInv
    <3>2. overall \in 1 .. 100 /\ vo \in 0 .. overall  BY <3>1 DEF DacpTypes
    <3> DEFINE q == (vo * 100 + overall \div 2) \div overall
    <3>3. q \in 0 .. 100 /\ Near(Loudness(overall, q), vo)
      BY <3>2, RoundTrip
    <3>4. relative' = [relative EXCEPT ![Us] = q] /\ UNCHANGED <<overall, on>>
      BY <2>1, <3>1 DEF SpeakerVolume
    <3> HIDE DEF q
    <3>5. DacpTypes' /\ relative'[Us] = q
      BY <3>1, <3>3, <3>4 DEF DacpTypes
    <3>6. Near(Loud(Us)', vo')  BY <2>1, <3>3, <3>4, <3>5 DEF Loud
    <3>7. \A s \in on' \ {Us} : Near(Loud(s)', before'[s])
      <4> TAKE s \in on' \ {Us}
      <4>1. s \in Speakers /\ s # Us /\ s \in on  BY <3>1, <3>4 DEF DacpTypes
      <4>2. relative'[s] = relative[s]  BY <3>1, <3>4, <4>1 DEF DacpTypes
      <4>3. Loud(s)' = Loud(s)  BY <3>4, <4>2 DEF Loud
      <4> QED  BY <2>1, <3>1, <4>1, <4>3
    <3>8. VolumeAsAsked'  BY <3>6, <3>7 DEF VolumeAsAsked
    <3> QED  BY <2>1, <2>3, <3>5, <3>8 DEF DacpInv
  <2> QED  BY <2>2, <2>3
<1>7. CASE Fails
  BY <1>7 DEF Fails, DacpInv
<1>8. CASE UNCHANGED volvars
  <2>1. DacpTypes => DacpTypes'  BY <1>8 DEF volvars, DacpTypes
  <2>2. \A s : Loud(s)' = Loud(s)  BY <1>8 DEF volvars, Loud
  <2>3. VolumeAsAsked => VolumeAsAsked'
    BY <1>8, <2>2 DEF volvars, VolumeAsAsked
  <2> QED  BY <1>8, <2>1, <2>2, <2>3 DEF volvars, DacpInv
<1> QED  BY <1>1, <1>2, <1>3, <1>4, <1>5, <1>6, <1>7, <1>8 DEF DacpVolumeNext

\* For any number of speakers at any volumes: when every request of dacp_set_volume has been
\* answered and the user has moved nothing meanwhile, this speaker is as loud as asked for and
\* every other active one as loud as it was, both within one per cent.
THEOREM VolumesAreAsAsked == DacpVolumeSpec => []VolumeAsAsked
<1>1. DacpInv => VolumeAsAsked
  BY DEF DacpInv, VolumeAsAsked
<1> QED
  BY <1>1, DacpInvInit, DacpInvStep, PTL DEF DacpVolumeSpec

-----------------------------------------------------------------------------
(* The ring of the PulseAudio backend. *)

LEMMA Fold ==
  /\ \A x \in 0 .. AudioSize - 1 : x % AudioSize = x
  /\ \A x \in AudioSize .. 2 * AudioSize - 1 : x % AudioSize = x - AudioSize
  /\ \A x \in -AudioSize .. -1 : x % AudioSize = x + AudioSize
<1> DEFINE m == AudioSize
<1>1. m \in Nat \ {0}  BY PulseAssumption
<1> HIDE DEF m
<1>2. ASSUME NEW x \in 0 .. m - 1  PROVE x % m = x  BY <1>1
<1>3. ASSUME NEW x \in m .. 2 * m - 1  PROVE x % m = x - m  BY <1>1
<1>4. ASSUME NEW x \in -m .. -1  PROVE x % m = x + m  BY <1>1
<1> QED  BY <1>2, <1>3, <1>4 DEF m

\* The frames in the ring not handed over yet, counted or not, and those of the packet whose
\* end of queue has not been set.
Waiting == occupancy + (IF playing_pc.pc = "count" THEN playing_pc.n ELSE 0)
                     - (IF cb.pc = "count" THEN cb.take ELSE 0)
Unended == IF playing_pc.pc \in {"count", "end"} THEN playing_pc.n ELSE 0

WholeTurns == {-(2 * AudioSize), -AudioSize, 0, AudioSize, 2 * AudioSize}

PaTypes ==
  /\ ring \in [0 .. AudioSize - 1 -> Int]
  /\ toq \in 0 .. AudioSize /\ eoq \in 0 .. AudioSize /\ occupancy \in 0 .. AudioSize
  /\ playing_pc \in [pc : {"idle", "count", "end"}, n : 0 .. AudioSize, old : Int]
  /\ cb \in [pc : {"idle", "copy", "count"}, n : Nat, take : Nat]
  /\ given \in Nat /\ flushed_to \in Nat /\ heard \in Seq(Int)

\* The two ends agree with what waits, the ring holds the last frames given in their order
\* from its head on, and all that was heard or flushed came before them.
RingInv ==
  /\ PaTypes
  /\ playing_pc.pc = "count" => occupancy + playing_pc.n <= AudioSize
  /\ cb.pc = "count" => cb.take <= occupancy /\ cb.take <= cb.n
  /\ toq + Waiting - eoq - Unended \in WholeTurns
  /\ \A j \in 0 .. Waiting - 1 :
       ring[(toq + j) % AudioSize] = given - Waiting + 1 + j
  /\ flushed_to <= given - Waiting
  /\ \A i \in 1 .. Len(heard) : heard[i] \in 1 .. given - Waiting
  /\ \A i \in 1 .. Len(heard) - 1 : heard[i] < heard[i + 1]

PulseInv == cores \in {1, 2} /\ (cores = 1 => RingInv)

LEMMA PulseInit == PaInit => PulseInv
<1> SUFFICES ASSUME PaInit  PROVE RingInv
  BY DEF PaInit, PulseInv
<1>1. /\ ring = [i \in 0..AudioSize - 1 |-> 0]
      /\ toq = 0 /\ eoq = 0 /\ occupancy = 0
      /\ playing_pc = [pc |-> "idle", n |-> 0, old |-> 0]
      /\ cb = [pc |-> "idle", n |-> 0, take |-> 0]
      /\ given = 0 /\ heard = <<>> /\ flushed_to = 0
  BY DEF PaInit, PaIdle, CbIdle
<1>2. PaTypes
  BY <1>1, PulseAssumption DEF PaTypes
<1>3. Waiting = 0 /\ Unended = 0 /\ Len(heard) = 0
  BY <1>1 DEF Waiting, Unended
<1>4. 0 \in WholeTurns
  BY DEF WholeTurns
<1>5. playing_pc.pc = "idle" /\ cb.pc = "idle"
  BY <1>1
<1>6. toq + Waiting - eoq - Unended = 0
  BY <1>1, <1>3
<1> QED  BY <1>1, <1>2, <1>3, <1>4, <1>5, <1>6 DEF RingInv

\* What waits fits in the ring.
LEMMA WaitingFits ==
  ASSUME RingInv
  PROVE  Waiting \in 0 .. AudioSize /\ Unended \in 0 .. AudioSize
<1>1. /\ AudioSize \in Nat /\ occupancy \in 0 .. AudioSize
      /\ playing_pc.n \in 0 .. AudioSize /\ cb.take \in Nat
      /\ playing_pc.pc = "count" => occupancy + playing_pc.n <= AudioSize
      /\ cb.pc = "count" => cb.take <= occupancy
  BY PulseAssumption DEF RingInv, PaTypes
<1> QED  BY <1>1 DEF Waiting, Unended

\* The ends agree as long as they change by the same, but for whole turns.
LEMMA EndsAgree ==
  ASSUME NEW d \in WholeTurns, NEW q \in 0 .. AudioSize, NEW w \in 0 .. AudioSize,
         NEW p \in 0 .. AudioSize, NEW u \in 0 .. AudioSize,
         NEW t \in {-AudioSize, 0, AudioSize}, q + w - p - u = d + t
  PROVE  q + w - p - u \in WholeTurns
  BY PulseAssumption DEF WholeTurns

\* The frames a step leaves in the ring are where they were.
LEMMA RingStays ==
  ASSUME RingInv, UNCHANGED <<ring, toq, eoq, given, heard, flushed_to>>, PaTypes',
         Waiting' = Waiting, Unended' = Unended,
         playing_pc'.pc = "count" => occupancy' + playing_pc'.n <= AudioSize,
         cb'.pc = "count" => cb'.take <= occupancy' /\ cb'.take <= cb'.n
  PROVE  RingInv'
  BY DEF RingInv

\* play() puts its frames behind those that wait, and over none of them.
LEMMA PlayFills ==
  ASSUME RingInv, cores = 1, NEW n \in PaPackets, pa_play(n)
  PROVE  RingInv'
<1> DEFINE A == AudioSize
           W == Waiting
<1>1. /\ A \in Nat \ {0} /\ n \in 1 .. A  BY PulseAssumption
<1>2. W \in 0 .. A /\ Unended \in 0 .. A  BY WaitingFits
<1>3. /\ toq \in 0 .. A /\ eoq \in 0 .. A /\ occupancy \in 0 .. A /\ given \in Nat
      /\ ring \in [0 .. A - 1 -> Int] /\ cb \in [pc : {"idle", "copy", "count"}, n : Nat, take : Nat]
      /\ cb.pc = "count" => cb.take <= occupancy /\ cb.take <= cb.n
      /\ flushed_to \in Nat /\ heard \in Seq(Int)
  BY DEF RingInv, PaTypes
<1>4. /\ playing_pc.pc = "idle" /\ occupancy + n <= A
      /\ ring' = [i \in 0 .. A - 1 |->
                    IF (i - eoq) % A < n THEN given + 1 + ((i - eoq) % A) ELSE ring[i]]
      /\ playing_pc' = [pc |-> "count", n |-> n, old |-> occupancy]
      /\ given' = given + n
      /\ UNCHANGED <<cores, toq, eoq, occupancy, corked, cb, heard, flushed_to>>
  <2>1. ring' = [i \in DOMAIN ring |->
                   IF (i - eoq) % AudioSize < n THEN given + 1 + ((i - eoq) % AudioSize)
                   ELSE ring[i]]
    BY DEF pa_play
  <2>2. DOMAIN ring = 0 .. A - 1  BY <1>3
  <2> QED  BY <2>1, <2>2 DEF pa_play
<1>5. playing_pc'.pc = "count" /\ playing_pc'.n = n /\ playing_pc'.old = occupancy
  BY <1>4
<1>6. Waiting' = W + n /\ Unended = 0 /\ Unended' = n
  <2>1. Waiting' = occupancy + n - (IF cb.pc = "count" THEN cb.take ELSE 0)
    BY <1>4, <1>5 DEF Waiting
  <2>2. W = occupancy + 0 - (IF cb.pc = "count" THEN cb.take ELSE 0)
    BY <1>4 DEF Waiting
  <2>3. Unended = 0  BY <1>4 DEF Unended
  <2>4. Unended' = n  BY <1>5 DEF Unended
  <2>5. (IF cb.pc = "count" THEN cb.take ELSE 0) \in Nat  BY <1>3
  <2> HIDE DEF W
  <2> QED  BY <1>1, <1>3, <2>1, <2>2, <2>3, <2>4, <2>5
<1>7. W + n <= A
  <2>1. W <= occupancy
    <3>1. W = occupancy + 0 - (IF cb.pc = "count" THEN cb.take ELSE 0)
      BY <1>4 DEF Waiting
    <3>2. (IF cb.pc = "count" THEN cb.take ELSE 0) \in Nat  BY <1>3
    <3> HIDE DEF W
    <3> QED  BY <1>3, <3>1, <3>2
  <2> HIDE DEF W
  <2> QED  BY <1>1, <1>2, <1>3, <1>4, <2>1
<1>8. toq + W - eoq \in WholeTurns
  <2>1. toq + W - eoq - Unended \in WholeTurns  BY DEF RingInv
  <2> HIDE DEF W
  <2> QED  BY <1>2, <1>3, <1>6, <2>1
<1>9. toq' + Waiting' - eoq' - Unended' \in WholeTurns
  <2>1. toq' + Waiting' - eoq' - Unended' = toq + W - eoq
    <3> HIDE DEF W
    <3> QED  BY <1>1, <1>2, <1>3, <1>4, <1>6
  <2> QED  BY <1>8, <2>1
<1>10. \A j \in 0 .. W - 1 : ring[(toq + j) % A] = given - W + 1 + j
  BY DEF RingInv
<1> HIDE DEF W
<1>11. ASSUME NEW j \in 0 .. W + n - 1
       PROVE  /\ (toq + j) % A \in 0 .. A - 1
              /\ (((toq + j) % A) - eoq) % A = IF j < W THEN A + j - W ELSE j - W
  <2>1. toq + j \in 0 .. 2 * A - 1 /\ j \in Nat  BY <1>1, <1>2, <1>3, <1>7
  <2> DEFINE p == (toq + j) % A
  <2>2. p \in 0 .. A - 1 /\ (p = toq + j \/ p = toq + j - A)
    <3>1. CASE toq + j \in 0 .. A - 1  BY <3>1, Fold
    <3>2. CASE toq + j \in A .. 2 * A - 1
      <4>1. p = toq + j - A
        <5> DEFINE y == toq + j
        <5>1. y \in AudioSize .. 2 * AudioSize - 1  BY <3>2
        <5>2. p = y % AudioSize  OBVIOUS
        <5> HIDE DEF y, p
        <5>3. p = y - AudioSize  BY <5>1, <5>2, Fold
        <5> QED  BY <1>1, <1>3, <2>1, <5>3 DEF y
      <4> HIDE DEF p
      <4> QED  BY <1>1, <1>3, <2>1, <3>2, <4>1
    <3> QED  BY <1>1, <2>1, <3>1, <3>2
  <2> DEFINE x == p - eoq
             y == IF j < W THEN A + j - W ELSE j - W
  <2> HIDE DEF p
  <2>3. x \in -A .. A - 1  BY <1>1, <1>3, <2>2
  <2>4. y \in 0 .. A - 1  BY <1>1, <1>2, <1>7
  <2>5. x \in {y - 4 * A, y - 3 * A, y - 2 * A, y - A, y, y + A, y + 2 * A, y + 3 * A}
    BY <1>1, <1>2, <1>3, <1>8, <2>1, <2>2 DEF WholeTurns
  <2> HIDE DEF x, y
  <2>6. x = y \/ x = y - A
    BY <1>1, <2>3, <2>4, <2>5
  <2>7. x % A = y
    <3>1. CASE x = y  BY <2>4, <3>1, Fold
    <3>2. CASE x = y - A
      <4>1. x \in -A .. -1  BY <1>1, <2>4, <3>2
      <4>2. x % A = x + A  BY <4>1, Fold
      <4> QED  BY <1>1, <2>4, <3>2, <4>2
    <3> QED  BY <2>6, <3>1, <3>2
  <2> QED  BY <2>2, <2>7 DEF p, x, y
<1>12. ASSUME NEW j \in 0 .. Waiting' - 1
       PROVE  ring'[(toq' + j) % A] = given' - Waiting' + 1 + j
  <2> DEFINE p == (toq + j) % A
  <2>1. j \in 0 .. W + n - 1  BY <1>1, <1>2, <1>6, <1>12
  <2>2. /\ p \in 0 .. A - 1
        /\ (p - eoq) % A = IF j < W THEN A + j - W ELSE j - W
    BY <1>11, <2>1
  <2>3. ring'[p] = IF (p - eoq) % A < n THEN given + 1 + ((p - eoq) % A) ELSE ring[p]
    <3> HIDE DEF p
    <3> QED  BY <1>4, <2>2
  <2>4. j < W => ring[p] = given - W + 1 + j  BY <1>1, <1>2, <1>10, <2>1
  <2> HIDE DEF p
  <2>5. ring'[p] = given - W + 1 + j
    <3>1. CASE j < W
      BY <1>1, <1>2, <1>7, <2>1, <2>2, <2>3, <2>4, <3>1
    <3>2. CASE ~(j < W)
      <4>1. (p - eoq) % A = j - W  BY <2>2, <3>2
      <4>2. j - W < n  BY <1>1, <1>2, <2>1
      <4>3. ring'[p] = given + 1 + (j - W)  BY <2>3, <4>1, <4>2, Zenon
      <4> QED  BY <1>2, <1>3, <2>1, <4>3
    <3> QED  BY <3>1, <3>2
  <2>6. given' - Waiting' + 1 + j = given - W + 1 + j
    BY <1>1, <1>2, <1>3, <1>4, <1>6, <2>1
  <2> QED  BY <1>4, <2>5, <2>6 DEF p
<1>13. ring' \in [0 .. A - 1 -> Int]
  <2>1. \A i \in 0 .. A - 1 : (i - eoq) % A \in Int
    BY <1>1, <1>3
  <2> DEFINE k(i) == (i - eoq) % A
  <2>2. /\ \A i \in 0 .. A - 1 : k(i) \in Int
        /\ ring' = [i \in 0 .. A - 1 |-> IF k(i) < n THEN given + 1 + k(i) ELSE ring[i]]
    BY <1>4, <2>1, Zenon
  <2> HIDE DEF k
  <2> QED  BY <1>3, <2>2
<1>14. PaTypes'
  BY <1>1, <1>3, <1>4, <1>13 DEF PaTypes
<1>15. given' - Waiting' = given - W
  BY <1>1, <1>2, <1>3, <1>4, <1>6
<1>16. /\ flushed_to <= given - W
       /\ \A i \in 1 .. Len(heard) : heard[i] \in 1 .. given - W
       /\ \A i \in 1 .. Len(heard) - 1 : heard[i] < heard[i + 1]
  BY DEF RingInv, W
<1>17. /\ flushed_to' <= given' - Waiting'
       /\ \A i \in 1 .. Len(heard') : heard'[i] \in 1 .. given' - Waiting'
       /\ \A i \in 1 .. Len(heard') - 1 : heard'[i] < heard'[i + 1]
  BY <1>4, <1>15, <1>16
<1>18. /\ playing_pc'.pc = "count" => occupancy' + playing_pc'.n <= A
       /\ cb'.pc = "count" => cb'.take <= occupancy' /\ cb'.take <= cb'.n
  BY <1>3, <1>4, <1>5
<1> QED  BY <1>9, <1>12, <1>14, <1>17, <1>18 DEF RingInv

\* The callback takes frames from the head, which are the ones that follow what was heard.
LEMMA CallbackTakes ==
  ASSUME RingInv, cores = 1, cb_copies
  PROVE  /\ RingInv'
         /\ \A i \in Len(heard) + 1 .. Len(heard') : heard'[i] > flushed_to
<1> DEFINE A == AudioSize
           W == Waiting
<1>1. A \in Nat \ {0}  BY PulseAssumption
<1>2. W \in 0 .. A /\ Unended \in 0 .. A  BY WaitingFits
<1>3. /\ toq \in 0 .. A /\ eoq \in 0 .. A /\ occupancy \in 0 .. A /\ given \in Nat
      /\ ring \in [0 .. A - 1 -> Int] /\ cb \in [pc : {"idle", "copy", "count"}, n : Nat, take : Nat]
      /\ playing_pc \in [pc : {"idle", "count", "end"}, n : 0 .. A, old : Int]
      /\ playing_pc.pc = "count" => occupancy + playing_pc.n <= A
      /\ flushed_to \in Nat /\ heard \in Seq(Int)
  BY DEF RingInv, PaTypes
<1>4. PICK take \in Nat \ {0} :
       /\ take <= occupancy /\ take <= cb.n
       /\ heard' = heard \o [k \in 1..take |-> ring[(toq + k - 1) % AudioSize]]
       /\ toq' = IF take <= AudioSize - toq THEN toq + take ELSE toq + take - AudioSize
       /\ cb' = [cb EXCEPT !.pc = "count", !.take = take]
  <2>1. PICK take \in 1..(IF occupancy < cb.n THEN occupancy ELSE cb.n) :
         /\ heard' = heard \o [k \in 1..take |-> ring[(toq + k - 1) % AudioSize]]
         /\ toq' = IF take <= AudioSize - toq THEN toq + take ELSE toq + take - AudioSize
         /\ cb' = [cb EXCEPT !.pc = "count", !.take = take]
    BY Zenon DEF cb_copies
  <2>2. take \in Nat \ {0} /\ take <= occupancy /\ take <= cb.n  BY <1>3, <2>1
  <2> QED  BY <2>1, <2>2, Zenon
<1>5. /\ cb.pc = "copy"
      /\ UNCHANGED <<cores, ring, eoq, occupancy, playing_pc, given, flushed_to>>
  BY DEF cb_copies
<1>6. take \in Nat \ {0} /\ take <= occupancy /\ take <= cb.n
  BY <1>3, <1>4
<1>7. cb'.pc = "count" /\ cb'.take = take /\ cb'.n = cb.n
      /\ cb' \in [pc : {"idle", "copy", "count"}, n : Nat, take : Nat]
  BY <1>3, <1>4, <1>6
<1>8. Waiting' = W - take /\ Unended' = Unended /\ occupancy <= W
  <2>1. (IF playing_pc.pc = "count" THEN playing_pc.n ELSE 0) \in Nat  BY <1>3
  <2>2. W = occupancy + (IF playing_pc.pc = "count" THEN playing_pc.n ELSE 0) - 0
    BY <1>5 DEF Waiting
  <2>3. Waiting' = occupancy + (IF playing_pc.pc = "count" THEN playing_pc.n ELSE 0) - take
    BY <1>5, <1>7 DEF Waiting
  <2>4. Unended' = Unended  BY <1>5 DEF Unended
  <2> HIDE DEF W
  <2> QED  BY <1>3, <1>6, <2>1, <2>2, <2>3, <2>4
<1>9. \A j \in 0 .. W - 1 : ring[(toq + j) % A] = given - W + 1 + j
  BY DEF RingInv
<1>10. /\ toq + W - eoq - Unended \in WholeTurns
       /\ flushed_to <= given - W
       /\ \A i \in 1 .. Len(heard) : heard[i] \in 1 .. given - W
       /\ \A i \in 1 .. Len(heard) - 1 : heard[i] < heard[i + 1]
  BY DEF RingInv, W
<1> HIDE DEF W
<1>11. /\ toq' \in 0 .. A
       /\ \/ toq' = toq + take
          \/ toq' = toq + take - A /\ toq + take > A
  <2>1. CASE take <= A - toq  BY <1>1, <1>3, <1>4, <1>6, <2>1
  <2>2. CASE ~(take <= A - toq)
    <3>1. toq' = toq + take - A  BY <1>4, <2>2
    <3> QED  BY <1>1, <1>3, <1>6, <2>2, <3>1
  <2> QED  BY <2>1, <2>2
<1>12. toq' + Waiting' - eoq' - Unended' \in WholeTurns
  <2>1. CASE toq' = toq + take
    <3>1. toq' + Waiting' - eoq' - Unended' = toq + W - eoq - Unended
      BY <1>1, <1>2, <1>3, <1>5, <1>6, <1>8, <2>1
    <3> QED  BY <1>10, <3>1
  <2>2. CASE toq' = toq + take - A
    <3>1. toq' + Waiting' - eoq' - Unended' = (toq + W - eoq - Unended) + (-A)
      BY <1>1, <1>2, <1>3, <1>5, <1>6, <1>8, <2>2
    <3>2. toq' \in 0 .. A /\ Waiting' \in 0 .. A /\ eoq' \in 0 .. A /\ Unended' \in 0 .. A
      BY <1>1, <1>2, <1>3, <1>5, <1>6, <1>8, <1>11
    <3> QED  BY <1>10, <3>1, <3>2, EndsAgree
  <2> QED  BY <1>11, <2>1, <2>2
<1>13. ASSUME NEW j \in 0 .. Waiting' - 1
       PROVE  ring'[(toq' + j) % A] = given' - Waiting' + 1 + j
  <2>1. /\ take + j \in 0 .. W - 1 /\ toq + (take + j) \in 0 .. 2 * A - 1
        /\ toq' + j \in Nat /\ j \in Nat
    <3>1. j \in Nat /\ j <= W - take - 1  BY <1>2, <1>6, <1>8, <1>13
    <3>2. take + j \in 0 .. W - 1 /\ take + j <= A - 1  BY <1>1, <1>2, <1>6, <3>1
    <3>3. toq + (take + j) \in 0 .. 2 * A - 1  BY <1>1, <1>2, <1>3, <1>6, <3>1, <3>2
    <3>4. toq' \in Nat  BY <1>1, <1>11
    <3>5. \A a, b \in Nat : a + b \in Nat  OBVIOUS
    <3>6. toq' + j \in Nat  BY <3>1, <3>4, <3>5, Zenon
    <3> QED  BY <3>1, <3>2, <3>3, <3>6
  <2>2. ring[(toq + (take + j)) % A] = given - W + 1 + (take + j)
    BY <1>9, <2>1
  <2>3. (toq' + j) % A = (toq + (take + j)) % A
    <3>1. CASE toq' = toq + take
      <4>1. toq' + j = toq + (take + j)  BY <1>3, <1>6, <2>1, <3>1
      <4> QED  BY <4>1
    <3>2. CASE toq' = toq + take - A /\ toq + take > A
      <4> DEFINE x == toq + (take + j)
      <4>1. x \in A .. 2 * A - 1 /\ toq' + j = x - A /\ x - A \in 0 .. A - 1
        BY <1>1, <1>3, <1>6, <2>1, <3>2
      <4> HIDE DEF x
      <4>2. x % A = x - A /\ (x - A) % A = x - A
        BY <4>1, Fold
      <4> QED  BY <4>1, <4>2 DEF x
    <3> QED  BY <1>11, <3>1, <3>2
  <2>4. given - W + 1 + (take + j) = given' - Waiting' + 1 + j
    BY <1>2, <1>3, <1>5, <1>6, <1>8, <2>1
  <2> QED  BY <1>5, <2>2, <2>3, <2>4
<1> DEFINE new == [k \in 1..take |-> ring[(toq + k - 1) % A]]
<1>14. \A k \in 1 .. take : new[k] = given - W + k
  <2> TAKE k \in 1 .. take
  <2>1. k - 1 \in 0 .. W - 1 /\ toq + (k - 1) = toq + k - 1
    BY <1>2, <1>3, <1>6, <1>8
  <2>2. ring[(toq + (k - 1)) % A] = given - W + 1 + (k - 1)
    BY <1>9, <2>1
  <2>3. given - W + 1 + (k - 1) = given - W + k
    BY <1>2, <1>3, <1>6
  <2> QED  BY <2>1, <2>2, <2>3
<1>15. new \in Seq(Int) /\ Len(new) = take
  <2>1. new = [k \in 1 .. take |-> given - W + k]
    BY <1>14
  <2>2. \A k \in 1 .. take : given - W + k \in Int  BY <1>2, <1>3, <1>6
  <2>3. [k \in 1 .. take |-> given - W + k] \in Seq(Int)  BY <1>6, <2>2
  <2>4. Len([k \in 1 .. take |-> given - W + k]) = take  BY <1>6
  <2> HIDE DEF new
  <2> QED  BY <2>1, <2>3, <2>4
<1>16. heard' = heard \o new  BY <1>4
<1> HIDE DEF new
<1>17. /\ heard' \in Seq(Int) /\ Len(heard') = Len(heard) + take /\ Len(heard) \in Nat
       /\ \A i \in 1 .. Len(heard) : heard'[i] = heard[i]
       /\ \A i \in Len(heard) + 1 .. Len(heard) + take : heard'[i] = given - W + (i - Len(heard))
  <2>0. /\ heard \o new \in Seq(Int) /\ Len(heard \o new) = Len(heard) + Len(new)
        /\ \A i \in 1 .. Len(heard) + Len(new) :
              (heard \o new)[i] = IF i <= Len(heard) THEN heard[i] ELSE new[i - Len(heard)]
    <3>1. heard \in Seq(Int) /\ new \in Seq(Int)  BY <1>3, <1>15
    <3> QED  BY <3>1, ConcatProperties, Zenon
  <2>1. heard' \in Seq(Int) /\ Len(heard') = Len(heard) + take /\ Len(heard) \in Nat
    BY <1>3, <1>15, <1>16, <2>0
  <2>2. \A i \in 1 .. Len(heard) : heard'[i] = heard[i]
    BY <1>6, <1>15, <1>16, <2>0, <2>1
  <2>3. ASSUME NEW i \in Len(heard) + 1 .. Len(heard) + take
        PROVE  heard'[i] = given - W + (i - Len(heard))
    <3>1. i - Len(heard) \in 1 .. take  BY <1>6, <2>1
    <3>2. heard'[i] = new[i - Len(heard)]  BY <1>6, <1>15, <1>16, <2>0, <2>1
    <3> QED  BY <1>14, <3>1, <3>2
  <2> QED  BY <2>1, <2>2, <2>3
<1>18. \A i \in Len(heard) + 1 .. Len(heard') : heard'[i] > flushed_to
  <2> TAKE i \in Len(heard) + 1 .. Len(heard')
  <2>1. i \in Len(heard) + 1 .. Len(heard) + take  BY <1>17, Zenon
  <2>2. heard'[i] = given - W + (i - Len(heard))  BY <1>17, <2>1, Zenon
  <2>3. i - Len(heard) \in Int /\ i - Len(heard) >= 1  BY <1>6, <1>17, <2>1
  <2>4. given - W \in Int /\ flushed_to \in Int /\ flushed_to <= given - W
    BY <1>2, <1>3, <1>10
  <2> QED  BY <2>2, <2>3, <2>4
<1>19. given' - Waiting' = given - W + take
  BY <1>2, <1>3, <1>5, <1>6, <1>8
<1>20. ASSUME NEW i \in 1 .. Len(heard')
       PROVE  heard'[i] \in 1 .. given' - Waiting'
  <2>1. CASE i \in 1 .. Len(heard)
    <3>1. heard'[i] \in 1 .. given - W  BY <1>10, <1>17, <2>1
    <3>2. \A x \in 1 .. given - W : x \in 1 .. given - W + take  BY <1>2, <1>3, <1>6
    <3> QED  BY <1>19, <3>1, <3>2
  <2>2. CASE i \in Len(heard) + 1 .. Len(heard) + take
    <3>1. heard'[i] = given - W + (i - Len(heard)) /\ i - Len(heard) \in 1 .. take
      BY <1>6, <1>17, <2>2
    <3>2. \A x \in 1 .. take : given - W + x \in 1 .. given - W + take
      BY <1>2, <1>3, <1>6, <1>10
    <3> QED  BY <1>19, <3>1, <3>2, Zenon
  <2> QED  BY <1>6, <1>17, <2>1, <2>2
<1>21. ASSUME NEW i \in 1 .. Len(heard') - 1
       PROVE  heard'[i] < heard'[i + 1]
  <2>1. CASE i \in 1 .. Len(heard) - 1
    <3>1. i \in 1 .. Len(heard) /\ i + 1 \in 1 .. Len(heard)  BY <1>17, <2>1
    <3> QED  BY <1>10, <1>17, <2>1, <3>1
  <2>2. CASE i = Len(heard)
    <3>1. i \in 1 .. Len(heard) /\ i + 1 \in Len(heard) + 1 .. Len(heard) + take
      BY <1>6, <1>17, <2>2
    <3>2. heard'[i] = heard[i] /\ heard[i] \in 1 .. given - W
      BY <1>10, <1>17, <3>1
    <3>3. heard'[i + 1] = given - W + ((i + 1) - Len(heard))  BY <1>17, <3>1
    <3> QED  BY <1>2, <1>3, <1>17, <2>2, <3>2, <3>3
  <2>3. CASE i \in Len(heard) + 1 .. Len(heard) + take - 1
    <3>1. /\ i \in Len(heard) + 1 .. Len(heard) + take
          /\ i + 1 \in Len(heard) + 1 .. Len(heard) + take
      BY <1>6, <1>17, <2>3
    <3>2. /\ heard'[i] = given - W + (i - Len(heard))
          /\ heard'[i + 1] = given - W + ((i + 1) - Len(heard))
      BY <1>17, <3>1
    <3> QED  BY <1>2, <1>3, <1>17, <3>1, <3>2
  <2> QED  BY <1>6, <1>17, <2>1, <2>2, <2>3
<1>22. PaTypes'
  BY <1>3, <1>5, <1>7, <1>11, <1>17 DEF PaTypes
<1>23. /\ playing_pc'.pc = "count" => occupancy' + playing_pc'.n <= A
       /\ cb'.pc = "count" => cb'.take <= occupancy' /\ cb'.take <= cb'.n
       /\ flushed_to' <= given' - Waiting'
  BY <1>2, <1>3, <1>5, <1>6, <1>7, <1>10, <1>19
<1> QED  BY <1>12, <1>13, <1>18, <1>20, <1>21, <1>22, <1>23 DEF RingInv

LEMMA PulseStep ==
  PulseInv /\ [PaNext]_pavars =>
    /\ PulseInv'
    /\ cores = 1 => \A i \in Len(heard) + 1 .. Len(heard') : heard'[i] > flushed_to
<1> SUFFICES ASSUME RingInv, cores = 1, [PaNext]_pavars
             PROVE  /\ RingInv'
                    /\ \A i \in Len(heard) + 1 .. Len(heard') : heard'[i] > flushed_to
  <2>1. [PaNext]_pavars => cores' = cores
    BY DEF PaNext, pavars, pa_play, pa_play_counts, pa_play_writes, pa_play_ends,
           stream_write_cb, cb_copies, cb_counts, cb_ends, pa_flush
  <2> QED  BY <2>1 DEF PulseInv
<1> DEFINE A == AudioSize
           Same == heard' = heard
<1>0. Same => \A i \in Len(heard) + 1 .. Len(heard') : heard'[i] > flushed_to
  <2>1. Len(heard) \in Nat  BY DEF RingInv, PaTypes
  <2> QED  BY <2>1
<1>t. /\ A \in Nat \ {0} /\ PaTypes
      /\ toq \in 0 .. A /\ eoq \in 0 .. A /\ occupancy \in 0 .. A /\ given \in Nat
      /\ cb \in [pc : {"idle", "copy", "count"}, n : Nat, take : Nat]
      /\ playing_pc \in [pc : {"idle", "count", "end"}, n : 0 .. A, old : Int]
      /\ playing_pc.pc = "count" => occupancy + playing_pc.n <= A
      /\ cb.pc = "count" => cb.take <= occupancy /\ cb.take <= cb.n
  BY PulseAssumption DEF RingInv, PaTypes
<1>w. Waiting \in 0 .. A /\ Unended \in 0 .. A  BY WaitingFits
<1>1. CASE \E n \in PaPackets : pa_play(n)
  BY <1>0, <1>1, PlayFills DEF pa_play
<1>2. CASE pa_play_counts
  <2>1. /\ playing_pc.pc = "count" /\ occupancy' = occupancy + playing_pc.n
        /\ playing_pc' = [playing_pc EXCEPT !.pc = "end"]
        /\ UNCHANGED <<ring, toq, eoq, cb, given, heard, flushed_to>>
    BY <1>2 DEF pa_play_counts
  <2>2. /\ playing_pc'.pc = "end" /\ playing_pc'.n = playing_pc.n
        /\ playing_pc' \in [pc : {"idle", "count", "end"}, n : 0 .. A, old : Int]
    BY <1>t, <2>1
  <2>3. occupancy' \in 0 .. A  BY <1>t, <2>1
  <2>4. PaTypes'  BY <2>1, <2>2, <2>3 DEF PaTypes, RingInv
  <2>5. Unended' = Unended  BY <2>1, <2>2 DEF Unended
  <2>6. Waiting' = Waiting
    <3>1. (IF cb.pc = "count" THEN cb.take ELSE 0) \in Nat  BY <1>t
    <3>2. Waiting = occupancy + playing_pc.n - (IF cb.pc = "count" THEN cb.take ELSE 0)
      BY <2>1 DEF Waiting
    <3>3. Waiting' = occupancy' + 0 - (IF cb.pc = "count" THEN cb.take ELSE 0)
      BY <2>1, <2>2 DEF Waiting
    <3> QED  BY <1>t, <2>1, <2>3, <3>1, <3>2, <3>3
  <2>7. cb'.pc = "count" => cb'.take <= occupancy' /\ cb'.take <= cb'.n
    BY <1>t, <2>1
  <2> QED  BY <1>0, <2>1, <2>2, <2>4, <2>5, <2>6, <2>7, RingStays
<1>3. CASE pa_play_writes
  BY <1>3, <1>t DEF pa_play_writes
<1>4. CASE pa_play_ends
  <2>1. /\ playing_pc.pc = "end" /\ playing_pc' = [pc |-> "idle", n |-> 0, old |-> 0]
        /\ \/ eoq' = eoq + playing_pc.n /\ AudioSize - eoq >= playing_pc.n
           \/ eoq' = eoq + playing_pc.n - AudioSize /\ ~(AudioSize - eoq >= playing_pc.n)
        /\ UNCHANGED <<ring, toq, occupancy, cb, given, heard, flushed_to>>
    BY <1>4 DEF pa_play_ends, Contiguous, PaIdle
  <2>2. playing_pc'.pc = "idle"
        /\ playing_pc' \in [pc : {"idle", "count", "end"}, n : 0 .. A, old : Int]
    BY <1>t, <2>1
  <2>3. eoq' \in 0 .. A  BY <1>t, <2>1
  <2>4. PaTypes'  BY <2>1, <2>2, <2>3 DEF PaTypes, RingInv
  <2>5. Waiting' = Waiting  BY <2>1, <2>2 DEF Waiting
  <2>6. Unended = playing_pc.n /\ Unended' = 0  BY <2>1, <2>2 DEF Unended
  <2>7. toq + Waiting - eoq - Unended \in WholeTurns  BY DEF RingInv
  <2>8. toq' + Waiting' - eoq' - Unended' \in WholeTurns
    <3>1. PICK t \in {-A, 0, A} :
             toq' + Waiting' - eoq' - Unended' = (toq + Waiting - eoq - Unended) + t
      <4>1. CASE eoq' = eoq + playing_pc.n
        <5>1. toq' + Waiting' - eoq' - Unended' = (toq + Waiting - eoq - Unended) + 0
          BY <1>t, <1>w, <2>1, <2>5, <2>6, <4>1
        <5> QED  BY <5>1
      <4>2. CASE eoq' = eoq + playing_pc.n - AudioSize
        <5>1. toq' + Waiting' - eoq' - Unended' = (toq + Waiting - eoq - Unended) + A
          BY <1>t, <1>w, <2>1, <2>5, <2>6, <4>2
        <5> QED  BY <5>1
      <4> QED  BY <2>1, <4>1, <4>2
    <3>2. toq' \in 0 .. A /\ Waiting' \in 0 .. A /\ Unended' \in 0 .. A
      BY <1>t, <1>w, <2>1, <2>5, <2>6
    <3> QED  BY <2>3, <2>7, <3>1, <3>2, EndsAgree
  <2> QED  BY <1>0, <2>1, <2>2, <2>4, <2>5, <2>8 DEF RingInv
<1>5. CASE \E n \in PaRequests : stream_write_cb(n)
  <2>1. PICK n \in PaRequests : stream_write_cb(n)  BY <1>5
  <2>2. /\ cb.pc = "idle" /\ cb' = [pc |-> "copy", n |-> n, take |-> 0] /\ n \in Nat
        /\ UNCHANGED <<ring, toq, eoq, occupancy, playing_pc, given, heard, flushed_to>>
    BY <2>1, PulseAssumption DEF stream_write_cb
  <2>3. cb'.pc = "copy" /\ cb' \in [pc : {"idle", "copy", "count"}, n : Nat, take : Nat]
    BY <2>2
  <2>4. PaTypes'  BY <2>2, <2>3 DEF PaTypes, RingInv
  <2>5. Waiting' = Waiting /\ Unended' = Unended  BY <2>2, <2>3 DEF Waiting, Unended
  <2> QED  BY <1>0, <1>t, <2>2, <2>3, <2>4, <2>5, RingStays
<1>6. CASE cb_copies
  BY <1>6, CallbackTakes
<1>7. CASE cb_counts
  <2>1. /\ cb.pc = "count" /\ occupancy' = occupancy - cb.take
        /\ cb' = [cb EXCEPT !.pc = "copy", !.n = @ - cb.take]
        /\ UNCHANGED <<ring, toq, eoq, playing_pc, given, heard, flushed_to>>
    BY <1>7 DEF cb_counts
  <2>2. cb.take \in Nat /\ cb.n - cb.take \in Nat /\ occupancy' \in 0 .. A
    BY <1>t, <2>1
  <2>3. cb'.pc = "copy" /\ cb' \in [pc : {"idle", "copy", "count"}, n : Nat, take : Nat]
    BY <1>t, <2>1, <2>2
  <2>4. PaTypes'  BY <2>1, <2>2, <2>3 DEF PaTypes, RingInv
  <2>5. Unended' = Unended  BY <2>1 DEF Unended
  <2>6. Waiting' = Waiting
    <3>1. (IF playing_pc.pc = "count" THEN playing_pc.n ELSE 0) \in Nat  BY <1>t
    <3>2. Waiting = occupancy + (IF playing_pc.pc = "count" THEN playing_pc.n ELSE 0) - cb.take
      BY <2>1 DEF Waiting
    <3>3. Waiting' = occupancy' + (IF playing_pc.pc = "count" THEN playing_pc.n ELSE 0) - 0
      BY <2>1, <2>3 DEF Waiting
    <3> QED  BY <1>t, <2>1, <2>2, <3>1, <3>2, <3>3
  <2>7. playing_pc'.pc = "count" => occupancy' + playing_pc'.n <= A
    BY <1>t, <2>1, <2>2
  <2> QED  BY <1>0, <2>1, <2>3, <2>4, <2>5, <2>6, <2>7, RingStays
<1>8. CASE cb_ends
  <2>1. /\ cb.pc = "copy" /\ cb' = [pc |-> "idle", n |-> 0, take |-> 0]
        /\ UNCHANGED <<ring, toq, eoq, occupancy, playing_pc, given, heard, flushed_to>>
    BY <1>8 DEF cb_ends, CbIdle
  <2>2. cb'.pc = "idle" /\ cb' \in [pc : {"idle", "copy", "count"}, n : Nat, take : Nat]
    BY <2>1
  <2>3. PaTypes'  BY <2>1, <2>2 DEF PaTypes, RingInv
  <2>4. Waiting' = Waiting /\ Unended' = Unended  BY <2>1, <2>2 DEF Waiting, Unended
  <2> QED  BY <1>0, <1>t, <2>1, <2>2, <2>3, <2>4, RingStays
<1>9. CASE pa_flush
  <2>1. /\ playing_pc.pc = "idle" /\ cb.pc = "idle"
        /\ flushed_to' = given /\ toq' = 0 /\ eoq' = 0 /\ occupancy' = 0
        /\ UNCHANGED <<ring, playing_pc, cb, given, heard>>
    BY <1>9 DEF pa_flush
  <2>2. PaTypes'  BY <1>t, <2>1 DEF PaTypes, RingInv
  <2>3. Waiting' = 0 /\ Unended' = 0  BY <2>1 DEF Waiting, Unended
  <2>4. toq' + Waiting' - eoq' - Unended' \in WholeTurns
    BY <2>1, <2>3 DEF WholeTurns
  <2>5. /\ \A i \in 1 .. Len(heard) : heard[i] \in 1 .. given - Waiting
        /\ \A i \in 1 .. Len(heard) - 1 : heard[i] < heard[i + 1]
    BY DEF RingInv
  <2>6. \A i \in 1 .. Len(heard') : heard'[i] \in 1 .. given' - Waiting'
    BY <1>t, <1>w, <2>1, <2>3, <2>5
  <2>7. flushed_to' <= given' - Waiting'  BY <1>t, <2>1, <2>3
  <2> QED  BY <1>0, <2>1, <2>2, <2>3, <2>4, <2>5, <2>6, <2>7 DEF RingInv
<1>10. CASE UNCHANGED pavars
  <2>1. UNCHANGED <<ring, toq, eoq, occupancy, playing_pc, cb, given, heard, flushed_to>>
    BY <1>10 DEF pavars
  <2>2. PaTypes'  BY <2>1 DEF PaTypes, RingInv
  <2>3. Waiting' = Waiting /\ Unended' = Unended  BY <2>1 DEF Waiting, Unended
  <2> QED  BY <1>0, <1>t, <2>1, <2>2, <2>3, RingStays
<1> QED
  BY <1>1, <1>2, <1>3, <1>4, <1>5, <1>6, <1>7, <1>8, <1>9, <1>10 DEF PaNext

\* For every size of ring, of packets and of requests: on one core PulseAudio is given the
\* frames that play() was given, in their order and none twice, and after a flush none from
\* before it.  (On two cores the count of frames is read and written apart, and it can fail.)
THEOREM HeardInOrder == PaSpec => PulseIsHeardInOrder
<1>1. RingInv => InOrder
  <2> SUFFICES ASSUME RingInv  PROVE \A i \in 1 .. Len(heard) : heard[i] \in 1 .. given
    BY DEF RingInv, InOrder
  <2>1. Waiting \in 0 .. AudioSize /\ given \in Nat /\ AudioSize \in Nat
    BY WaitingFits, PulseAssumption DEF RingInv, PaTypes
  <2> QED  BY <2>1 DEF RingInv
<1>2. PulseInv => (cores = 1 => InOrder)  BY <1>1 DEF PulseInv
<1>3. PulseInv /\ [PaNext]_pavars => PulseInv'
  BY PulseStep
<1>4. PulseInv /\ PulseInv' /\ [PaNext]_pavars =>
        [cores = 1 =>
           /\ InOrder'
           /\ \A i \in Len(heard) + 1..Len(heard') : heard'[i] > flushed_to]_pavars
  <2> SUFFICES ASSUME PulseInv, PulseInv', PaNext, cores = 1
               PROVE  /\ InOrder'
                      /\ \A i \in Len(heard) + 1..Len(heard') : heard'[i] > flushed_to
    OBVIOUS
  <2>1. cores' = 1
    BY DEF PaNext, pa_play, pa_play_counts, pa_play_writes, pa_play_ends,
           stream_write_cb, cb_copies, cb_counts, cb_ends, pa_flush
  <2>2. RingInv'  BY <2>1 DEF PulseInv
  <2>3. InOrder'  BY <1>1, <2>2, PTL
  <2> QED  BY <2>3, PulseStep
<1> QED
  BY <1>3, <1>4, PulseInit, PTL DEF PaSpec, PulseIsHeardInOrder
=============================================================================
