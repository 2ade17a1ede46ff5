--------------------------- MODULE ResendRequest ----------------------------
(***************************************************************************)
(* rtp_request_resend (src/src/rtp.c): requests for missing packets and    *)
(* the pause after a request that could not be sent.  The audio receiver   *)
(* and the control receiver call it without a lock, so one may fail while  *)
(* the other is inside sendto.                                             *)
(***************************************************************************)
EXTENDS Naturals

CONSTANTS
  Receivers,
  Backoff,       \* resend_error_backoff_time, in ticks (0.3 s)
  SendTimeout,   \* SO_SNDTIMEO, in ticks (0.1 s)
  MaxTime

ASSUME ResendRequestAssumption == {Backoff, SendTimeout, MaxTime} \subseteq Nat

VARIABLES
  ticks,
  sendto,        \* when the request each receiver is sending was started, or 0
  rtp_time_of_last_resend_request_error,
  rtp_running,
  last_start,    \* history: when each receiver last started to send
  ever_sent      \* history: some request has been sent successfully

rvars == <<ticks, sendto, rtp_time_of_last_resend_request_error, rtp_running,
           last_start, ever_sent>>

ResendInit ==
  /\ ticks = 1 /\ sendto = [r \in Receivers |-> 0] /\ rtp_running = TRUE
  /\ rtp_time_of_last_resend_request_error = 0
  /\ last_start = [r \in Receivers |-> 0] /\ ever_sent = FALSE

\* Mutant: the comparison is the wrong way round.
BackoffOverEarly ==
  \/ rtp_time_of_last_resend_request_error = 0
  \/ ticks - rtp_time_of_last_resend_request_error < Backoff

BackoffOver ==
  \/ rtp_time_of_last_resend_request_error = 0
  \/ ticks - rtp_time_of_last_resend_request_error > Backoff

\* A request that is held back changes nothing.
rtp_request_resend(r) ==
  /\ rtp_running /\ sendto[r] = 0 /\ BackoffOver
  /\ sendto' = [sendto EXCEPT ![r] = ticks]
  /\ last_start' = [last_start EXCEPT ![r] = ticks]
  /\ UNCHANGED <<ticks, rtp_time_of_last_resend_request_error, rtp_running, ever_sent>>

\* sendto returns: the error is dated from before the call, success clears it.
SendtoReturns(r, ok) ==
  /\ sendto[r] # 0 /\ sendto' = [sendto EXCEPT ![r] = 0]
  /\ rtp_time_of_last_resend_request_error' = IF ok THEN 0 ELSE sendto[r]
  /\ ever_sent' = (ever_sent \/ ok)
  /\ UNCHANGED <<ticks, rtp_running, last_start>>

\* The player's cleanup marks the stream as stopped.
StreamStops ==
  /\ rtp_running /\ rtp_running' = FALSE
  /\ UNCHANGED <<ticks, sendto, rtp_time_of_last_resend_request_error, last_start, ever_sent>>

ResendTick ==
  /\ ticks < MaxTime /\ ticks' = ticks + 1
  /\ \A r \in Receivers : sendto[r] # 0 => ticks - sendto[r] < SendTimeout
  /\ UNCHANGED <<sendto, rtp_time_of_last_resend_request_error, rtp_running, last_start,
                 ever_sent>>

ResendNext ==
  \/ \E r \in Receivers : rtp_request_resend(r) \/ \E ok \in BOOLEAN : SendtoReturns(r, ok)
  \/ StreamStops \/ ResendTick

ResendSpec == ResendInit /\ [][ResendNext]_rvars
-----------------------------------------------------------------------------
\* While no request gets out, a receiver does not try again within the pause, but for
\* the time a sendto of the other receiver may take: that one may date the failure
\* back to its own start (both write the time of the last error without a lock).
RequestsBackOff ==
  [][\A r \in Receivers :
       sendto[r] = 0 /\ sendto'[r] # 0 /\ ~ever_sent =>
         last_start[r] = 0 \/ ticks - last_start[r] > Backoff - SendTimeout]_rvars
=============================================================================
