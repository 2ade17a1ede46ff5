------------------------------ MODULE MCServices ------------------------------
(***************************************************************************)
(* The threads that serve the player, for TLC: the activity monitor, the   *)
(* DACP monitor, the reader of buffered audio and the synchronisation of   *)
(* the player thread.  They share no state, so that a behaviour is one of  *)
(* one of them, the part, while the others stand still; fairness is that   *)
(* of the part that runs.                                                  *)
(***************************************************************************)
EXTENDS ActivityMonitor, Dacp, Synchronise, BufferedTcp

VARIABLE part
allvars == <<part, amvars, dacpvars, svars, bvars>>

Parts == {"activity", "dacp", "synchronise", "tcp"}

\* Step A of one part, while the others stand still.
Activity(A) == part = "activity" /\ A /\ UNCHANGED <<part, dacpvars, svars, bvars>>
DacpStep(A) == part = "dacp" /\ A /\ UNCHANGED <<part, amvars, svars, bvars>>
SyncStep(A) == part = "synchronise" /\ A /\ UNCHANGED <<part, amvars, dacpvars, bvars>>
Tcp(A)      == part = "tcp" /\ A /\ UNCHANGED <<part, amvars, dacpvars, svars>>

MCJolts == {-15, -2, 9}

\* The part that runs starts in any of its initial states, the others in one.
ServicesInit ==
  /\ part \in Parts
  /\ TcpInit
  /\ ActivityInit /\ (part # "activity" => ~zero_timeout)
  /\ DacpInit /\ (part # "dacp" => \A r \in Remotes : up[r] = NoPort)
  /\ SyncInit /\ (part # "synchronise" => late = 0 /\ output_sample_ratio = 1)

ServicesNext == Activity(ActivityNext) \/ DacpStep(DacpNext)
                  \/ SyncStep(SyncNext) \/ Tcp(TcpNext)

\* The fairness of ActivityFairSpec, DacpSpec, SyncSpec and TcpSpec.
\* Only one part runs, so one condition over the parts' actions stands for one
\* on each.
ServicesFairness ==
  /\ WF_allvars(\/ DacpStep(DacpMonitor)
                \/ SyncStep(Settle)
                \/ Tcp(AwaitRoom))
  /\ WF_allvars(\/ Activity(caller = "cancelled" /\ signify_activity(FALSE))
                \/ SyncStep(PlaySilence /\ ~Timed)
                \/ Tcp(Request))
  /\ WF_allvars(Tcp(Store)) /\ WF_allvars(Tcp(ReadStep))
  /\ SF_allvars(\/ Activity(Monitor)
                \/ DacpStep(BrowserReports("r1"))
                \/ SyncStep(PlaySynced))
  /\ SF_allvars(\/ Activity(TimeOut)
                \/ DacpStep(BrowserReports("r2"))
                \/ SyncStep(Resync))
  /\ SF_allvars(Activity(Hooks))

ServicesSpec == ServicesInit /\ [][ServicesNext]_allvars /\ ServicesFairness
=============================================================================
