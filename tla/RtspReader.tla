------------------------------ MODULE RtspReader ------------------------------
(****************************************************************************)
(* How a conversation thread reads the requests of its client from the TCP  *)
(* stream, checks the password and answers (rtsp.c: nextline,               *)
(* msg_handle_line, rtsp_read_request, rtsp_auth, msg_write_response and    *)
(* the loop of rtsp_conversation_thread_func).                              *)
(*                                                                          *)
(* The stream is a sequence of elements: the text of a line is one element, *)
(* CR and LF are one each, and a body is a number of bytes.  A read returns *)
(* any part of what has arrived, so a request comes in any number of pieces.*)
(****************************************************************************)
EXTENDS Integers, Sequences, SequencesExt, FiniteSets

CONSTANTS buflen,      \* the size of the buffer of rtsp_read_request
          BodySizes,   \* sizes of the bodies of requests
          ReplySizes,  \* sizes of the contents of responses
          pktfree,     \* the room msg_write_response has for contents
          Pipelining,  \* whether a client may send before it has its answer
          SplitsCRLF,  \* whether a read may end between a CR and its LF
          MaxRequestsSent

ASSUME ReaderAssumption ==
  /\ buflen \in Nat \ {0, 1} /\ pktfree \in Nat /\ MaxRequestsSent \in Nat
  /\ BodySizes \subseteq Nat /\ ReplySizes \subseteq Nat
  /\ Pipelining \in BOOLEAN /\ SplitsCRLF \in BOOLEAN

VARIABLES
  password,    \* config.password is set
  to_send,    \* the requests the client has sent, in order
  wire_bytes,      \* what has arrived and has not been read
  inbuf,       \* buf[0..inbuf-1]
  the_packet,  \* the message under construction, or NoPacket
  msg_size,    \* -1 until the empty line is found
  nonce,       \* conn->auth_nonce: a number, 0 when there is none
  authorized,  \* conn->authorized
  handled,     \* <<request, content>> of every request given to a handler
  answers,     \* the responses written, in order
  conn_stop    \* conn->stop

rdvars == <<password, to_send, wire_bytes, inbuf, the_packet, msg_size, nonce,
            authorized, handled, answers, conn_stop>>

CR == [is |-> "CR"]
LF == [is |-> "LF"]
RequestLine(what, n) == [is |-> what, n |-> n]
Byte(n) == [is |-> "byte", n |-> n]
NoPacket == [method |-> "none"]

-----------------------------------------------------------------------------
(* What the client sends.  "digest" is what its Authorization header was    *)
(* made with: no header, the password and a nonce it was given, or a wrong  *)
(* password.  Only its first line, "RTSP/1.0" and the ": " of its headers   *)
(* make a request good or bad.                                              *)

Ended(line) == <<line, CR, LF>>

Wire(i, r) ==
  Ended(RequestLine(IF r.good THEN "request" ELSE "junk", i))
    \o Ended(RequestLine("auth", r.digest))
    \o (IF r.size > 0 THEN Ended(RequestLine("Content-Length", r.size)) ELSE <<>>)
    \o <<CR, LF>> \o [b \in 1..r.size |-> Byte(i)]

LastNonce == LET S == {a \in 1..Len(answers) : answers[a].code = 401}
             IN IF S = {} THEN 0 ELSE answers[CHOOSE a \in S : \A b \in S : b <= a].nonce

Send ==
  /\ Len(to_send) < MaxRequestsSent /\ ~conn_stop
  /\ Pipelining \/ Len(answers) >= Len(to_send)
  /\ \A a \in 1..Len(answers) : answers[a].code # 400
  /\ \E good \in BOOLEAN, size \in BodySizes, digest \in {0, -1, LastNonce} :
       LET r == [good |-> good, size |-> size, digest |-> digest]
       IN /\ to_send' = Append(to_send, r)
          /\ wire_bytes' = wire_bytes \o Wire(Len(to_send) + 1, r)
  /\ UNCHANGED <<password, inbuf, the_packet, msg_size, nonce, authorized, handled,
                 answers, conn_stop>>

-----------------------------------------------------------------------------
(* read_from_rtsp_connection: a blocking read of at most count elements.    *)
ReadsConnection(count) ==
  {k \in 1..Len(wire_bytes) : k <= count /\ (SplitsCRLF \/ wire_bytes[k] # CR)}

TakeFromStream(k) ==
  /\ inbuf' = inbuf \o SubSeq(wire_bytes, 1, k)
  /\ wire_bytes' = SubSeq(wire_bytes, k + 1, Len(wire_bytes))

(* nextline: the line ends at the first CR or LF; a LF after a CR goes with *)
(* it, if it is in the buffer.                                              *)
LineEnds == {i \in 1..Len(inbuf) : inbuf[i] \in {CR, LF}}
LineEnd == CHOOSE i \in LineEnds : \A j \in LineEnds : i <= j
(* Mutant: the LF that follows a CR is left in the buffer.                  *)
nextline_cr == LineEnd + 1
nextline ==
  IF inbuf[LineEnd] = CR /\ LineEnd < Len(inbuf) /\ inbuf[LineEnd + 1] = LF
  THEN LineEnd + 2 ELSE LineEnd + 1

ReadHeader ==
  /\ ~conn_stop /\ msg_size = -1 /\ LineEnds = {}
  /\ \E k \in ReadsConnection(buflen - Len(inbuf)) : TakeFromStream(k)
  /\ UNCHANGED <<password, to_send, the_packet, msg_size, nonce, authorized, handled,
                 answers, conn_stop>>

(* msg_handle_line: the new message and the size it returns, -1 for "more   *)
(* lines to come".  A line that cannot be understood leaves no message.     *)
msg_handle_line(line) ==
  IF the_packet = NoPacket
  THEN IF line # <<>> /\ line[1].is = "request"
       THEN <<[method |-> "request", cseq |-> line[1].n, digest |-> 0, length |-> 0], -1>>
       ELSE <<NoPacket, 0>>
  ELSE IF line = <<>> THEN <<the_packet, the_packet.length>>
       ELSE CASE line[1].is = "auth" -> <<[the_packet EXCEPT !.digest = line[1].n], -1>>
              [] line[1].is = "Content-Length" -> <<[the_packet EXCEPT !.length = line[1].n], -1>>
              [] OTHER -> <<NoPacket, 0>>

(* A line of the buffer is handled.  When it is bad the buffer is released  *)
(* with what is in it and a 400 is written.                                 *)
HandleLine ==
  /\ ~conn_stop /\ msg_size = -1 /\ LineEnds # {}
  /\ LET m == msg_handle_line(SubSeq(inbuf, 1, LineEnd - 1))
     IN \/ /\ m[1] # NoPacket
           /\ the_packet' = m[1] /\ msg_size' = m[2]
           /\ inbuf' = SubSeq(inbuf, nextline, Len(inbuf))
           /\ UNCHANGED answers
        \/ /\ m[1] = NoPacket
           /\ the_packet' = NoPacket /\ msg_size' = -1 /\ inbuf' = <<>>
           /\ answers' = Append(answers, [code |-> 400, cseq |-> 0, nonce |-> 0])
  /\ UNCHANGED <<password, to_send, wire_bytes, nonce, authorized, handled, conn_stop>>

(* The body is read up to its size: the buffer grows when it has to.        *)
BodyMissing == msg_size - Len(inbuf)
ReadBody ==
  /\ ~conn_stop /\ msg_size >= 0 /\ BodyMissing > 0
  /\ \E k \in ReadsConnection(BodyMissing) : TakeFromStream(k)
  /\ UNCHANGED <<password, to_send, the_packet, msg_size, nonce, authorized, handled,
                 answers, conn_stop>>

-----------------------------------------------------------------------------
(* rtsp_auth: the digest must have been made with the password and with the *)
(* nonce of this connection; the first request only gets the nonce.         *)
Passes == ~password \/ (nonce # 0 /\ the_packet.digest = nonce)

make_nonce == IF password /\ nonce = 0 THEN Len(answers) + 1 ELSE nonce

(* The request is complete: it is given to its handler if the client is, or *)
(* now becomes, authorized, and is answered; msg_write_response refuses an  *)
(* overlong response and the connection is then given up.                   *)
Answer ==
  /\ ~conn_stop /\ msg_size >= 0 /\ BodyMissing <= 0
  /\ \E code \in {200, 501}, size \in ReplySizes :
       LET served == authorized \/ Passes
           fits == ~served \/ size <= pktfree
       IN /\ authorized' = served
          /\ nonce' = IF authorized THEN nonce ELSE make_nonce
          /\ handled' = IF served THEN Append(handled, <<the_packet, inbuf>>) ELSE handled
          /\ answers' = IF fits
                        THEN Append(answers, [code |-> IF served THEN code ELSE 401,
                                              cseq |-> the_packet.cseq, nonce |-> nonce'])
                        ELSE answers
          /\ conn_stop' = ~fits
  /\ the_packet' = NoPacket /\ msg_size' = -1 /\ inbuf' = <<>>
  /\ UNCHANGED <<password, to_send, wire_bytes>>

(* The client closes the connection, or a line fills the buffer: the read   *)
(* returns zero or an error, and the conversation is over.                  *)
ChannelClosed ==
  /\ ~conn_stop
  /\ \/ msg_size = -1 /\ LineEnds = {} /\ (wire_bytes = <<>> \/ Len(inbuf) = buflen)
     \/ msg_size >= 0 /\ BodyMissing > 0 /\ wire_bytes = <<>>
  /\ conn_stop' = TRUE /\ the_packet' = NoPacket
  /\ UNCHANGED <<password, to_send, wire_bytes, inbuf, msg_size, nonce, authorized,
                 handled, answers>>

ReaderInit ==
  /\ password \in BOOLEAN
  /\ to_send = <<>> /\ wire_bytes = <<>> /\ inbuf = <<>> /\ the_packet = NoPacket
  /\ msg_size = -1 /\ nonce = 0 /\ authorized = FALSE /\ handled = <<>>
  /\ answers = <<>> /\ conn_stop = FALSE

ReaderNext == Send \/ ReadHeader \/ HandleLine \/ ReadBody \/ Answer \/ ChannelClosed

ReaderSpec == ReaderInit /\ [][ReaderNext]_rdvars

-----------------------------------------------------------------------------
(* However the stream is cut into reads, the requests given to handlers are *)
(* requests the client sent, in the order it sent them, each with its own   *)
(* body and nothing of another one's.                                       *)
HandledAsSent ==
  \A h \in 1..Len(handled) :
    LET p == handled[h][1]
        r == to_send[p.cseq]
    IN /\ handled[h][2] = [b \in 1..r.size |-> Byte(p.cseq)]
       /\ \A g \in 1..(h - 1) : handled[g][1].cseq < p.cseq

(* A client that waits for its answers and sends good requests gets one     *)
(* answer for each, with the number of that request, and is never told that *)
(* a request was bad.                                                       *)
AnswersInStep ==
  (\A r \in 1..Len(to_send) : to_send[r].good) =>
    \A a \in 1..Len(answers) : answers[a].code # 400 /\ answers[a].cseq = a

(* With a password, nothing is handled until a request has come that was    *)
(* made with the nonce of an earlier answer.                                *)
PasswordGuards ==
  (password /\ handled # <<>>) =>
    LET p == handled[1][1]
    IN \E a \in 1..Len(answers) :
         /\ answers[a].code = 401 /\ answers[a].cseq < p.cseq
         /\ to_send[p.cseq].digest = answers[a].nonce

\* What the client sends in pieces is handled whole, answered in its order and only for a
\* client that knows the password (rtsp_read_request, rtsp_conversation_thread_func).
RequestsAreServed == HandledAsSent /\ AnswersInStep /\ PasswordGuards
=============================================================================
