----------------------------- MODULE DacpVolume -----------------------------
(***************************************************************************)
(* Setting this speaker's volume through the remote control of the client  *)
(* (dacp_set_volume in dacp.c).  The client plays to several speakers: it  *)
(* has an overall volume, and each speaker a volume relative to it.  The   *)
(* overall volume and the list of speakers are asked for, and then one or  *)
(* two commands are sent, each of which can fail.  Volumes are percentages.*)
(* One call is followed from any state of the client.                      *)
(***************************************************************************)
EXTENDS Integers, FiniteSets

CONSTANTS Speakers,        \* the client's speakers
          Us,              \* this one
          Overalls,        \* overall volumes at the start
          Relatives,       \* relative volumes at the start
          Wanted,          \* volumes asked for
          MaxSpeakers,     \* places in speaker_info
          MaxTouches       \* bound: changes the client's user makes

ASSUME VolumesAssumption ==
    /\ IsFiniteSet(Speakers) /\ Us \in Speakers
    /\ Overalls \subseteq 0 .. 100 /\ Relatives \subseteq 0 .. 100
    /\ Wanted \subseteq Int /\ MaxSpeakers \in Nat

VARIABLES
    overall,     \* the client's overall volume
    relative,    \* speaker -> its relative volume
    on,          \* the speakers that are active
    stage,       \* where dacp_set_volume is
    vo,          \* its argument
    seen,        \* what the client has answered so far
    code,        \* its return value
    before,      \* speaker -> how loud it was when the call began
    failed,      \* whether a request of this call has failed
    touches      \* changes the client's user has made since

volvars == <<overall, relative, on, stage, vo, seen, code, before, failed, touches>>

Rounded(x) == (x + 50) \div 100
Greatest(S) == CHOOSE x \in S : \A y \in S : y <= x

\* dacp_get_volume computes the same for this speaker.
Loudness(o, r) == Rounded(o * r)
Loud(s) == Loudness(overall, relative[s])

\* ----------------------------------------------- the client (external)

\* "setproperty?include-speaker-id": the speaker is to have volume v.  The
\* overall volume becomes v with the speaker at 100; the others stay as loud
\* as they were.
IncludeSpeaker(s, v) ==
    /\ overall' = v
    /\ on' = on \cup {s}
    /\ relative' = [t \in Speakers |->
          IF t = s THEN 100
          ELSE IF v = 0 THEN relative[t]
          ELSE LET q == (Loud(t) * 100 + v \div 2) \div v IN IF q > 100 THEN 100 ELSE q]

\* "setproperty?speaker-id": the volume of the speaker relative to the overall.
SpeakerVolume(s, v) ==
    /\ relative' = [relative EXCEPT ![s] = v]
    /\ UNCHANGED <<overall, on>>

\* The user of the client moves its overall volume.
Touch(o) ==
    /\ touches < MaxTouches /\ o # overall
    /\ touches' = touches + 1
    /\ overall' = o
    /\ UNCHANGED <<relative, on, stage, vo, seen, code, before, failed>>

\* --------------------------------------------------------- dacp_set_volume

SetVolumeBegins(v) ==
    /\ stage = "idle"
    /\ vo' = v
    /\ before' = [s \in Speakers |-> Loud(s)]
    /\ touches' = 0 /\ failed' = FALSE
    /\ IF v \in 0 .. 100 THEN stage' = "volume" /\ UNCHANGED code
       ELSE stage' = "done" /\ code' = 492
    /\ UNCHANGED <<overall, relative, on, seen>>

\* A request that fails ends the call with its code; but the second command is
\* sent also when the first has failed.
Fails ==
    /\ stage \in {"volume", "speakers", "lower", "set", "relative"}
    /\ code' = 495 /\ failed' = TRUE
    /\ stage' = IF stage = "lower" THEN "relative" ELSE "done"
    /\ UNCHANGED <<overall, relative, on, vo, seen, before, touches>>

\* dacp_get_client_volume
dacp_get_client_volume ==
    /\ stage = "volume"
    /\ seen' = [seen EXCEPT !.overall = overall]
    /\ stage' = "speakers"
    /\ UNCHANGED <<overall, relative, on, vo, code, before, failed, touches>>

\* The loudest other active speaker, as it was listed.
HighestOther(list, active, o) ==
    Rounded(o * Greatest({0} \cup {list[s] : s \in active \ {Us}}))

\* Mutant: the volume of the other speakers is not taken into account.
Plan_simple(list, active, o) == "set"

\* What is to be sent: nothing; the volume itself; or, when another speaker is
\* louder than the volume wanted, the volume relative to that speaker's, after
\* the overall volume has been brought down to it.
Plan(list, active, o) ==
    LET h == HighestOther(list, active, o)
    IN  IF Cardinality(active) = 0 THEN "done"
        ELSE IF Cardinality(active) = 1 \/ vo >= o \/ h <= vo THEN "set"
        ELSE IF o > h THEN "lower" ELSE "relative"

\* dacp_get_speaker_list; too long a list ends the call.
dacp_get_speaker_list ==
    /\ stage = "speakers"
    /\ IF Cardinality(Speakers) > MaxSpeakers
       THEN stage' = "done" /\ code' = 413 /\ UNCHANGED seen
       ELSE /\ stage' = Plan(relative, on, seen.overall)
            /\ code' = 200
            /\ seen' = [seen EXCEPT !.highest = HighestOther(relative, on, seen.overall)]
    /\ UNCHANGED <<overall, relative, on, vo, before, failed, touches>>

dacp_set_include_speaker_volume ==
    /\ stage \in {"set", "lower"}
    /\ IncludeSpeaker(Us, IF stage = "set" THEN vo ELSE seen.highest)
    /\ code' = 204
    /\ stage' = IF stage = "set" THEN "done" ELSE "relative"
    /\ UNCHANGED <<vo, seen, before, failed, touches>>

dacp_set_speaker_volume ==
    /\ stage = "relative"
    /\ SpeakerVolume(Us, (vo * 100 + seen.highest \div 2) \div seen.highest)
    /\ code' = 204
    /\ stage' = "done"
    /\ UNCHANGED <<vo, seen, before, failed, touches>>

\* ---------------------------------------------------------- specification

DacpVolumeInit ==
    /\ overall \in Overalls
    /\ relative \in [Speakers -> Relatives]
    /\ on \in {S \in SUBSET Speakers : Us \in S}
    /\ stage = "idle" /\ vo = 0 /\ code = 0
    /\ seen = [overall |-> 0, highest |-> 0]
    /\ before = [s \in Speakers |-> 0]
    /\ failed = FALSE /\ touches = 0

DacpVolumeNext ==
    \/ \E v \in Wanted : SetVolumeBegins(v)
    \/ \E o \in Overalls : stage # "idle" /\ Touch(o)
    \/ dacp_get_client_volume \/ dacp_get_speaker_list
    \/ dacp_set_include_speaker_volume \/ dacp_set_speaker_volume
    \/ Fails

DacpVolumeSpec == DacpVolumeInit /\ [][DacpVolumeNext]_volvars

\* -------------------------------------------------------------- properties

Near(a, b) == a - b \in -1 .. 1

\* When every request of dacp_set_volume has been answered and the client's
\* user has not moved anything meanwhile, this speaker has the volume asked
\* for and the other active speakers are as loud as they were, but for
\* rounding.
VolumeAsAsked ==
    (stage = "done" /\ code = 204 /\ ~failed /\ touches = 0) =>
        /\ Near(Loud(Us), vo)
        /\ \A s \in on \ {Us} : Near(Loud(s), before[s])
=============================================================================
