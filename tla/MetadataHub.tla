---------------------------- MODULE MetadataHub ----------------------------
(***************************************************************************)
(* The metadata hub (metadata_hub.c): one store, written under one lock by *)
(* the thread that takes metadata messages from the hub's queue and by the *)
(* DACP monitor, and shown to the watchers (MPRIS and native D-Bus) by the *)
(* epilog of a change.  A conversation sends a packet of track items       *)
(* between 'mdst' and 'mden'; other threads send messages of their own at  *)
(* any time.  Values are model values: the text of an item matters only in *)
(* whether it differs from the text before.                                *)
(***************************************************************************)
EXTENDS Integers, Sequences, FiniteSets

CONSTANTS Items,          \* the codes this instance uses, a subset of AllItems
          Texts,          \* texts an item can have
          Pictures,       \* cover pictures, named by their MD5 sum
          HubVolumes,     \* airplay volumes, -30 (quietest) .. 0 (loudest)
          WritesCanFail,  \* whether writing a cover art file can fail
          PacketItems,    \* bound: items of a packet
          MaxMessages,    \* bound: packets sent and other messages handled
          NoText          \* the null pointer of a text that is not there

\* Items of a track, sent within a packet, and items sent alone.
TextCore   == {"asal", "asar", "assl", "ascm", "asgn", "minm", "ascp", "asaa",
               "assn", "assa", "assu", "assc"}
NumberCore == {"asdk", "mper", "astm"}
QuietCore  == {"asdt"}
TextAlone  == {"clip", "snam", "prgr", "phbt", "phb0", "styp", "svip"}
AllItems   == TextCore \cup NumberCore \cup QuietCore \cup TextAlone
CoreItems  == TextCore \cup NumberCore \cup QuietCore

\* An empty text is sent as Empty; a number is Zero or another one.
Empty == "empty"
Zero == "zero"
Numbers == {Zero, "some"}
Sendable(i) == IF i \in NumberCore THEN Numbers ELSE Texts \cup {Empty}

ASSUME HubAssumption == /\ Items \subseteq AllItems
                        /\ HubVolumes \subseteq -30 .. 0
                        /\ WritesCanFail \in BOOLEAN /\ NoText \notin Pictures

VARIABLES
    store,        \* metadata_store: item -> value
    status,       \* its other fields: what the player and the remote are doing
    packet_item_changed,  \* metadata_packet_item_changed
    packet,       \* messages of the conversation's packet not yet handled
    mpris, dbus,  \* the properties last published by the two watchers
    artDir,       \* cover art directory: picture -> "whole" or "part"
    retain,       \* config.retain_coverart
    airplay_volume,  \* config.airplay_volume
    setting,      \* volume being set by player_volume_without_notification
    pvols,        \* 'pvol' messages in the queue, each with its volume
    handled       \* packets sent and other messages handled so far

hubvars == <<store, status, packet_item_changed, packet, mpris, dbus, artDir, retain,
             airplay_volume, setting, pvols, handled>>

Fields == Items \cup {"PICT"}
NoVolume == 1
Muted == -144
DefaultVolume == -24  \* default_airplay_volume, -24 dB

\* ------------------------------------------------------------- watchers

\* airplay_volume_to_mpris_volume: a fraction of the range; here in thirtieths.
airplay_volume_to_mpris_volume(v) == IF v < -30 THEN 0 ELSE IF v > 0 THEN 30 ELSE v + 30

\* What the MPRIS watcher publishes: a dictionary entry for each text there.
MprisItems == (Items \cap {"minm", "asal", "asar", "asgn", "mper", "astm"}) \cup {"PICT"}
mpris_metadata_watcher(s, st) ==
    [entries |-> [i \in MprisItems |-> s[i]],
     volume |-> airplay_volume_to_mpris_volume(st.airplay_volume),
     state |-> st.player_state, loop |-> st.repeat_status,
     shuffle |-> st.shuffle_status = "on"]

\* The native watcher: some text properties keep their old text when the hub
\* has none, the rest is published as it is.
StickyItems == Items \cap {"prgr", "phbt", "phb0", "styp"}
DbusItems == (Items \cap {"minm", "asal", "asar", "assl", "ascp", "asgn", "mper",
                          "asdk", "astm", "clip", "snam"}) \cup {"PICT"}
StickyText(s, old) ==
    [i \in StickyItems |-> IF s[i] = NoText THEN old[i] ELSE s[i]]
dbus_metadata_watcher(s, st, old) ==
    [sticky |-> StickyText(s, old),
     entries |-> [i \in DbusItems |-> s[i]],
     volume |-> st.airplay_volume, state |-> st.player_state,
     playback |-> st.play_status, loop |-> st.repeat_status,
     shuffle |-> st.shuffle_status = "on"]

\* run_metadata_watchers: every watcher sees the store.  (The per-item changed
\* flags it turns off are read by no watcher.)
run_metadata_watchers(s, st) ==
    /\ mpris' = mpris_metadata_watcher(s, st)
    /\ dbus' = dbus_metadata_watcher(s, st, dbus.sticky)

\* The end of a change: the lock is held from the prolog to here.
metadata_hub_modify_epilog(modified, s, st) ==
    /\ store' = s
    /\ status' = st
    /\ IF modified THEN run_metadata_watchers(s, st) ELSE UNCHANGED <<mpris, dbus>>

\* --------------------------------------------------------------- updates

\* string_update: an empty text frees the old one.
string_update(v) == IF v = Empty THEN NoText ELSE v

\* A track item takes its new value; a number is new also when none was valid.
Updated(s, i, v) == [s EXCEPT ![i] = IF i \in NumberCore THEN v ELSE string_update(v)]

Count == /\ handled < MaxMessages
         /\ handled' = handled + 1

\* Mutant: a packet keeps only what its last item did.
CoreItem_last ==
    /\ packet # <<>> /\ Head(packet).code = "item"
    /\ LET m == Head(packet)
           s == Updated(store, m.item, m.value)
       IN /\ packet_item_changed' = (s # store /\ m.item \notin QuietCore)
          /\ metadata_hub_modify_epilog(FALSE, s, status)
    /\ packet' = Tail(packet)
    /\ UNCHANGED <<artDir, retain, airplay_volume, setting, pvols, handled>>

\* 'core' message: noted in metadata_packet_item_changed, except that the song
\* description is stored without being noted.
CoreItem ==
    /\ packet # <<>> /\ Head(packet).code = "item"
    /\ LET m == Head(packet)
           s == Updated(store, m.item, m.value)
       IN /\ packet_item_changed' =
                 (packet_item_changed \/ (s # store /\ m.item \notin QuietCore))
          /\ metadata_hub_modify_epilog(FALSE, s, status)
    /\ packet' = Tail(packet)
    /\ UNCHANGED <<artDir, retain, airplay_volume, setting, pvols, handled>>

mdst ==
    /\ packet # <<>> /\ Head(packet).code = "mdst"
    /\ packet_item_changed' = FALSE
    /\ packet' = Tail(packet)
    /\ metadata_hub_modify_epilog(FALSE, store, status)
    /\ UNCHANGED <<artDir, retain, airplay_volume, setting, pvols, handled>>

mden ==
    /\ packet # <<>> /\ Head(packet).code = "mden"
    /\ packet' = Tail(packet)
    /\ metadata_hub_modify_epilog(packet_item_changed, store, status)
    /\ UNCHANGED <<packet_item_changed, artDir, retain, airplay_volume, setting, pvols,
                   handled>>

\* handle_set_parameter sends a packet: the start, the items, the end.
ItemMessages == {m \in [code : {"item"}, item : Items \cap CoreItems,
                         value : Texts \cup {Empty} \cup Numbers] :
                    m.value \in Sendable(m.item)}
SendPacket ==
    /\ packet = <<>> /\ Count
    /\ \E n \in 1 .. PacketItems : \E ms \in [1 .. n -> ItemMessages] :
          packet' = <<[code |-> "mdst"]>> \o ms \o <<[code |-> "mden"]>>
    /\ UNCHANGED <<store, status, packet_item_changed, mpris, dbus, artDir, retain,
                   airplay_volume, setting, pvols>>

\* 'ssnc' text items: each shown at once when it differs.
AloneItem(i, v) ==
    /\ Count
    /\ LET s == Updated(store, i, v)
       IN metadata_hub_modify_epilog(s # store, s, status)
    /\ UNCHANGED <<packet_item_changed, packet, artDir, retain, airplay_volume, setting,
                   pvols>>

\* 'abeg' and 'aend', 'pbeg', 'pres', 'pend' and 'paus': the new status is shown when
\* it differs from the old one.
StatusAfter(code) ==
    CASE code = "abeg" -> [status EXCEPT !.active_state = "active"]
      [] code = "aend" -> [status EXCEPT !.active_state = "inactive"]
      [] code \in {"pres", "pbeg"} ->
            [status EXCEPT !.player_state = "playing", !.player_thread_active = TRUE]
      [] code = "pend" ->
            [status EXCEPT !.player_state = "stopped", !.player_thread_active = FALSE]
      [] code = "paus" -> [status EXCEPT !.player_state = "paused"]

PlayerMessage(code) ==
    /\ Count
    /\ metadata_hub_modify_epilog(StatusAfter(code) # status, store, StatusAfter(code))
    /\ UNCHANGED <<packet_item_changed, packet, artDir, retain, airplay_volume, setting,
                   pvols>>

\* -------------------------------------------------------------- cover art

\* The directory after p has been written: the others go unless they are kept.
AfterWriting(p, how) ==
    IF retain THEN [q \in DOMAIN artDir \cup {p} |-> IF q = p THEN how ELSE artDir[q]]
    ELSE [q \in {p} |-> how]

\* metadata_write_image_file: the outcomes as <<path, directory>>.  A file that
\* is there already is taken as it is; a file that could not be opened or
\* written gives no path.
NoFile == "nofile"
metadata_write_image_file(p) ==
    IF p \in DOMAIN artDir THEN {<<p, artDir>>}
    ELSE {<<p, AfterWriting(p, "whole")>>}
         \cup (IF WritesCanFail THEN {<<NoFile, AfterWriting(p, "part")>>, <<NoFile, artDir>>}
               ELSE {})

\* 'PICT': a tiny picture clears the path.
Picture(p) ==
    /\ Count
    /\ \E w \in (IF p = Empty THEN {<<NoText, artDir>>} ELSE metadata_write_image_file(p)) :
         LET s == [store EXCEPT !["PICT"] = w[1]]
         IN /\ artDir' = w[2]
            /\ metadata_hub_modify_epilog(s # store, s, status)
    /\ UNCHANGED <<packet_item_changed, packet, retain, airplay_volume, setting, pvols>>

\* ---------------------------------------------------------------- volume

\* player_volume_without_notification sends 'pvol' ...
SendPvol(v) ==
    /\ setting = NoVolume /\ Len(pvols) < 2 /\ handled < MaxMessages
    /\ setting' = v
    /\ pvols' = Append(pvols, v)
    /\ UNCHANGED <<store, status, packet_item_changed, packet, mpris, dbus, artDir,
                   retain, airplay_volume, handled>>

\* ... and stores the volume afterwards.  Muting is stored without a message.
StoreVolume ==
    /\ setting # NoVolume
    /\ airplay_volume' = setting
    /\ setting' = NoVolume
    /\ UNCHANGED <<store, status, packet_item_changed, packet, mpris, dbus, artDir,
                   retain, pvols, handled>>

StoreMute ==
    /\ setting = NoVolume
    /\ airplay_volume' = Muted
    /\ UNCHANGED <<store, status, packet_item_changed, packet, mpris, dbus, artDir,
                   retain, setting, pvols, handled>>

pvol ==
    /\ pvols # <<>> /\ Count
    /\ pvols' = Tail(pvols)
    /\ LET st == [status EXCEPT !.airplay_volume = airplay_volume]
       IN metadata_hub_modify_epilog(st # status, store, st)
    /\ UNCHANGED <<packet_item_changed, packet, artDir, retain, airplay_volume,
                   setting>>

\* ------------------------------------------------- the DACP monitor's writes

\* Items of a status update: play, shuffle and repeat states ...
StatusItems == [play_status : {"stopped", "paused", "playing"},
                shuffle_status : {"off", "on"},
                repeat_status : {"off", "one", "all"}]
\* ... and track items; a song time is taken only when it differs, so a first
\* time of zero is not.
DacpItem(s, i, v) ==
    IF i = "astm" /\ v = (IF s[i] = NoText THEN Zero ELSE s[i]) THEN s ELSE Updated(s, i, v)

\* A status update: whatever it holds, the watchers are run.
PlayStatusUpdate ==
    /\ Count
    /\ \E f \in {"play_status", "shuffle_status", "repeat_status"} :
         \E u \in StatusItems :
            metadata_hub_modify_epilog(TRUE, store, [status EXCEPT ![f] = u[f]])
    /\ UNCHANGED <<packet_item_changed, packet, artDir, retain, airplay_volume, setting,
                   pvols>>

PlayTrackUpdate ==
    /\ Count
    /\ \E i \in Items \cap {"minm", "asar", "asal", "asgn", "astm"} :
         \E v \in Sendable(i) : metadata_hub_modify_epilog(TRUE, DacpItem(store, i, v), status)
    /\ UNCHANGED <<packet_item_changed, packet, artDir, retain, airplay_volume, setting,
                   pvols>>

\* ---------------------------------------------------------- specification

\* metadata_hub_init clears the store; the watchers publish it when they start.
Cleared == [player_state |-> "none", player_thread_active |-> FALSE, active_state |-> "inactive",
            airplay_volume |-> 0, play_status |-> "none", shuffle_status |-> "none",
            repeat_status |-> "none"]

HubInit ==
    /\ store = [i \in Fields |-> NoText]
    /\ status = Cleared
    /\ packet_item_changed = FALSE
    /\ packet = <<>>
    /\ mpris = mpris_metadata_watcher(store, status)
    /\ dbus = dbus_metadata_watcher(store, status, store)
    /\ artDir = [p \in {} |-> "whole"]
    /\ retain \in BOOLEAN
    /\ airplay_volume = DefaultVolume
    /\ setting = NoVolume /\ pvols = <<>>
    /\ handled = 0

HubNext ==
    \/ SendPacket \/ mdst \/ CoreItem \/ mden
    \/ \E i \in Items \cap TextAlone : \E v \in Sendable(i) : AloneItem(i, v)
    \/ \E c \in {"abeg", "aend", "pbeg", "pres", "pend", "paus"} : PlayerMessage(c)
    \/ \E p \in Pictures \cup {Empty} : Picture(p)
    \/ \E v \in HubVolumes : SendPvol(v)
    \/ StoreVolume \/ StoreMute \/ pvol
    \/ PlayStatusUpdate \/ PlayTrackUpdate

HubSpec == HubInit /\ [][HubNext]_hubvars

\* -------------------------------------------------------------- properties

\* What the watchers have published is what the store holds whenever no packet
\* is open: nobody keeps showing the track or the state before.
WatchersAreTold ==
    packet = <<>> =>
        /\ mpris = mpris_metadata_watcher(store, status)
        /\ dbus = dbus_metadata_watcher(store, status, dbus.sticky)

\* The cover art path that is published names a file that is there and whole,
\* whichever pictures came before and were deleted.
CoverArtExists ==
    store["PICT"] \in Pictures =>
        /\ store["PICT"] \in DOMAIN artDir
        /\ artDir[store["PICT"]] = "whole"

\* What is published is current and there: the text, and the file its path names
\* (metadata_hub_process_metadata, metadata_write_image_file, the watchers).
HubIsCurrent == WatchersAreTold /\ CoverArtExists
=============================================================================
