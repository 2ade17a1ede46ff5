------------------------------ MODULE Pairing -------------------------------
(***************************************************************************)
(* HomeKit pairing of AirPlay 2 (src/src/pair_ap/pair_homekit.c, pair.c,   *)
(* the handlers of src/src/rtsp.c and the client of                        *)
(* pair_ap/client-example.c): pair-setup proves knowledge of the PIN with  *)
(* SRP, a transient pairing ends there with the SRP key as the shared      *)
(* secret; a normal one exchanges signing keys and goes on with            *)
(* pair-verify, a Diffie-Hellman exchange.  Either way both ends then put  *)
(* a cipher on the RTSP connection.                                        *)
(*                                                                         *)
(* SRP is computed in a small group; hashes, signatures and encryption are *)
(* symbolic: a hash is the tuple of what is hashed, a signature names its  *)
(* signer and text, a ciphertext its key, nonce and plain text.  A message *)
(* is a function from TLV types to values (Tlv shows that the encoding     *)
(* gives back what it was given).                                          *)
(***************************************************************************)
EXTENDS Integers, Sequences, FiniteSets, SequencesExt

CONSTANTS
  Pins, ServerPin,    \* the PINs a user may type; the server's own
  Salts,              \* the salts bnum_random may yield
  Exponents,          \* the private exponents of SRP
  Devices, SignKeys,  \* what the controllers add to the list of pairings
  MaxAsked            \* bound on the requests sent on the ciphered channel

ASSUME PairingAssumption == /\ ServerPin \in Pins
                            /\ Pins \cup Salts \cup Exponents \subseteq Nat

VARIABLES
  client,        \* the client's contexts and what it waits for
  setup_ctx, verify_ctx, control_cipher, is_encrypted,   \* of the connection
  pairings,      \* the server's list of paired devices, newest first
  wire,          \* the message under way, if any
  asked, expected   \* the requests on the channel, and the pairings they should leave

hvars == <<client, setup_ctx, verify_ctx, control_cipher, is_encrypted, pairings, wire, asked,
           expected>>
serverContexts == <<setup_ctx, verify_ctx, control_cipher, is_encrypted, pairings>>

None == [none |-> TRUE]
Has(m, type) == type \in DOMAIN m

------------------------------------------------------------------------------
(* SRP: group, hashes and the two computations of the session key. *)
N == 1019
g == 2
k == 3
PowMod(base, e) ==
  LET p[n \in 0..e] == IF n = 0 THEN 1
                       ELSE LET h == p[n \div 2]
                            IN  (h * h * (IF n % 2 = 1 THEN base % N ELSE 1)) % N
  IN  p[e]

\* Any hash would do; these only have to tell apart what the runs use.
H_nn_pad(A, B) == (A + 3 * B) % (N - 1)
calculate_x(salt, pin) == (5 * pin + salt) % (N - 1)
calculate_M(salt, A, B, K) == <<"M", salt, A, B, K>>
calculate_H_AMK(A, M, K) == <<"H_AMK", A, M, K>>

\* The bytes of a 128-bit random number, leading zeros dropped.
SaltBytes(salt) == IF salt >= 8 THEN 16 ELSE 15

srp_verification_key(salt, pin) == PowMod(g, calculate_x(salt, pin))
srp_verifier_B(v, b) == (k * v + PowMod(g, b)) % N

\* What the user derives from the challenge; no proof when B or u is zero.
srp_user_process_challenge(user, salt, B) ==
  LET u == H_nn_pad(user.A, B)
      x == calculate_x(salt, user.pin)
      S == PowMod((B - k * PowMod(g, x)) % N, user.a + u * x)
      M == calculate_M(salt, user.A, B, S)
  IN  IF B = 0 \/ u = 0 THEN user
      ELSE [user EXCEPT !.session_key = S, !.M = M, !.H_AMK = calculate_H_AMK(user.A, M, S)]

\* Mutant: a key exchanged without the base blinded by the PIN.
srp_verifier_new_plain(salt, v, A, b, B) ==
  LET S == PowMod(A, b)
      M == calculate_M(salt, A, B, S)
  IN  IF A % N = 0 THEN None ELSE [session_key |-> S, M |-> M, H_AMK |-> calculate_H_AMK(A, M, S)]

srp_verifier_new(salt, v, A, b, B) ==
  LET S == PowMod(A * PowMod(v, H_nn_pad(A, B)), b)
      M == calculate_M(salt, A, B, S)
  IN  IF A % N = 0 THEN None ELSE [session_key |-> S, M |-> M, H_AMK |-> calculate_H_AMK(A, M, S)]

------------------------------------------------------------------------------
(* Symbolic primitives. *)
hkdf_extract_expand(secret, label) == <<label, secret>>
encrypt_chacha(key, nonce, plain) == [key |-> key, nonce |-> nonce, plain |-> plain]
Decrypts(c, key, nonce) == c.key = key /\ c.nonce = nonce
SignedBy(who, text) == [by |-> who, text |-> text]
verify_info(signature, who, text) == signature = SignedBy(who, text)
crypto_scalarmult(mine, theirs) == {mine, theirs}
server_keypair == "server_key"                 \* seeded from the device id: always the same
device_info(id, x, pk, who) == [Identifier |-> id, Signature |-> SignedBy(who, <<x, id, pk>>)]
PairingFailure(m) == Has(m, "Error")                  \* message_process refuses it

\* The keys of a channel: the server uses the client's in the other direction.
cipher_new(channel, secret) ==
  [out |-> hkdf_extract_expand(secret, IF channel = 0 THEN "Control-Write" ELSE "Control-Read"),
   in  |-> hkdf_extract_expand(secret, IF channel = 0 THEN "Control-Read" ELSE "Control-Write"),
   encryption_counter |-> 0, decryption_counter |-> 0]

------------------------------------------------------------------------------
ClientKinds == {"normal", "transient"}

\* pair_setup_new of the client, and its key pair.
client_setup_new(kind, pin) ==
  [kind |-> kind, pc |-> "start", user |-> None, pin |-> pin,
   server_key |-> "", shared_secret |-> <<>>, completed |-> FALSE, cipher |-> None]

PairingInit ==
  /\ \E kind \in ClientKinds, pin \in Pins : client = client_setup_new(kind, pin)
  /\ setup_ctx = None /\ verify_ctx = None
  /\ control_cipher = None /\ is_encrypted = FALSE
  /\ pairings = <<>>
  /\ wire = None
  /\ asked = 0
  /\ expected = << >>

\* A message leaves for `to', under the cipher if there is one.
Sent(to, url, body, cipher) ==
  [to |-> to, url |-> url,
   body |-> IF cipher = None THEN body
            ELSE encrypt_chacha(cipher.out, cipher.encryption_counter, body),
   ciphered |-> cipher # None]
Counted(cipher) == IF cipher = None THEN None
                   ELSE [cipher EXCEPT !.encryption_counter = @ + 1]

SendsRequest(url, body) == wire' = Sent("server", url, body, client.cipher)
Answered(m) == wire # None /\ wire.to = "client" /\ m = wire.body

------------------------------------------------------------------------------
(* The client.  What it accepts and what it asks next, step by step; the   *)
(* handler of each response in client-example.c puts the two together, or  *)
(* gives up.                                                               *)
GivesUp == client' = [client EXCEPT !.pc = "failed"] /\ wire' = None

client_setup_request1(kind) ==
  IF kind = "transient" THEN [State |-> 1, Method |-> 0, Flags |-> "transient"]
  ELSE [State |-> 1, Method |-> 0]

client_setup_response1(m) == /\ ~PairingFailure(m)
                             /\ Has(m, "PublicKey") /\ SaltBytes(m.Salt) = 16

srp_user_start_authentication(a, pin) ==
  [a |-> a, A |-> PowMod(g, a), pin |-> pin, session_key |-> None, M |-> None, H_AMK |-> None]
client_setup_request2(user) == [State |-> 3, PublicKey |-> user.A, Proof |-> user.M]

client_setup_response2(m) == /\ ~PairingFailure(m) /\ Has(m, "Proof")
                             /\ m.Proof = client.user.H_AMK

\* Who we are, signed, under the SRP key.
client_setup_request3(key) ==
  LET info == device_info("client", hkdf_extract_expand(key, "Controller-Sign"), "client_key",
                          "client_key")
  IN  [State |-> 5,
       EncryptedData |-> encrypt_chacha(hkdf_extract_expand(key, "Setup"), "PS-Msg05",
         [Identifier |-> info.Identifier, Signature |-> info.Signature,
          PublicKey |-> "client_key"])]

client_setup_response3(m) ==
  LET key == client.user.session_key IN
  /\ ~PairingFailure(m) /\ Has(m, "EncryptedData")
  /\ Decrypts(m.EncryptedData, hkdf_extract_expand(key, "Setup"), "PS-Msg06")
  /\ LET p == m.EncryptedData.plain IN
     verify_info(p.Signature, p.PublicKey,
                 <<hkdf_extract_expand(key, "Accessory-Sign"), p.Identifier, p.PublicKey>>)

client_verify_request1 == [State |-> 1, PublicKey |-> "client_eph"]

\* The answer is deciphered with the new secret and signed by the server's key.
client_verify_response1(m, secret) ==
  /\ ~PairingFailure(m) /\ Has(m, "EncryptedData") /\ Has(m, "PublicKey")
  /\ Decrypts(m.EncryptedData, hkdf_extract_expand(secret, "Verify"), "PV-Msg02")
  /\ LET p == m.EncryptedData.plain IN
     verify_info(p.Signature, client.server_key, <<m.PublicKey, p.Identifier, "client_eph">>)

\* The device signs both ephemeral keys.
client_verify_request2(server_eph, secret) ==
  [State |-> 3,
   EncryptedData |-> encrypt_chacha(hkdf_extract_expand(secret, "Verify"), "PV-Msg03",
     device_info("client", "client_eph", server_eph, "client_key"))]

client_verify_response2(m) == ~PairingFailure(m)

setup_step1_request ==
  /\ client.pc = "start"
  /\ client' = [client EXCEPT !.pc = "setup1"]
  /\ SendsRequest("pair-setup", client_setup_request1(client.kind))
  /\ UNCHANGED <<serverContexts, asked, expected>>

setup_step1_response ==
  /\ client.pc = "setup1"
  /\ \E m \in {wire.body} : Answered(m) /\
       IF ~client_setup_response1(m) THEN GivesUp
       ELSE \E a \in Exponents :
              LET user == srp_user_process_challenge(
                            srp_user_start_authentication(a, client.pin), m.Salt, m.PublicKey)
              IN  /\ client' = [client EXCEPT !.pc = "setup2", !.user = user]
                  /\ SendsRequest("pair-setup", client_setup_request2(user))
  /\ UNCHANGED <<serverContexts, asked, expected>>

\* A transient pairing is complete: cipher the channel.
setup_step2_response ==
  /\ client.pc = "setup2"
  /\ \E m \in {wire.body} : Answered(m) /\
       IF ~client_setup_response2(m) THEN GivesUp
       ELSE IF client.kind = "transient" THEN
         /\ client' = [client EXCEPT !.pc = "channel", !.completed = TRUE,
                         !.shared_secret = <<client.user.session_key>>,
                         !.cipher = cipher_new(0, <<client.user.session_key>>)]
         /\ wire' = None
       ELSE /\ client' = [client EXCEPT !.pc = "setup3"]
            /\ SendsRequest("pair-setup", client_setup_request3(client.user.session_key))
  /\ UNCHANGED <<serverContexts, asked, expected>>

setup_step3_response ==
  /\ client.pc = "setup3"
  /\ \E m \in {wire.body} : Answered(m) /\
       IF ~client_setup_response3(m) THEN GivesUp
       ELSE /\ client' = [client EXCEPT !.pc = "verify1",
                            !.server_key = m.EncryptedData.plain.PublicKey]
            /\ SendsRequest("pair-verify", client_verify_request1)
  /\ UNCHANGED <<serverContexts, asked, expected>>

verify_step1_response ==
  /\ client.pc = "verify1"
  /\ \E m \in {wire.body} : Answered(m) /\
       LET secret == IF Has(m, "PublicKey") THEN crypto_scalarmult("client_eph", m.PublicKey)
                     ELSE {}
       IN  IF ~client_verify_response1(m, secret) THEN GivesUp
           ELSE /\ client' = [client EXCEPT !.pc = "verify2", !.shared_secret = <<secret>>]
                /\ SendsRequest("pair-verify", client_verify_request2(m.PublicKey, secret))
  /\ UNCHANGED <<serverContexts, asked, expected>>

verify_step2_response ==
  /\ client.pc = "verify2"
  /\ \E m \in {wire.body} : Answered(m) /\
       IF ~client_verify_response2(m) THEN GivesUp
       ELSE /\ client' = [client EXCEPT !.pc = "channel", !.completed = TRUE,
                                        !.cipher = cipher_new(0, client.shared_secret)]
            /\ wire' = None
  /\ UNCHANGED <<serverContexts, asked, expected>>

\* options_request of the example; a controller also administers the pairings.
ChannelRequests ==
  {[Method |-> "options"], [Method |-> "pair-list"]}
  \cup [Method : {"pair-add"}, Identifier : Devices, PublicKey : SignKeys]
  \cup [Method : {"pair-remove"}, Identifier : Devices]

ClientAsks(m) ==
  /\ client.pc = "channel" /\ wire = None
  /\ asked < MaxAsked
  /\ asked' = asked + 1
  /\ SendsRequest(m.Method, m)
  /\ client' = [client EXCEPT !.cipher = Counted(@)]
  /\ expected' = CASE m.Method = "pair-add" ->
                        [d \in DOMAIN expected \cup {m.Identifier} |->
                           IF d = m.Identifier THEN m.PublicKey ELSE expected[d]]
                   [] m.Method = "pair-remove" ->
                        [d \in DOMAIN expected \ {m.Identifier} |-> expected[d]]
                   [] OTHER -> expected
  /\ UNCHANGED serverContexts

\* The answer comes through rtsp_cipher, which deciphers it.
ClientHears ==
  /\ client.pc = "channel" /\ wire # None /\ wire.to = "client"
  /\ wire' = None
  /\ client' = IF wire.ciphered /\ Decrypts(wire.body, client.cipher.in,
                                            client.cipher.decryption_counter)
               THEN [client EXCEPT !.cipher.decryption_counter = @ + 1]
               ELSE [client EXCEPT !.pc = "garbled"]
  /\ UNCHANGED <<serverContexts, asked, expected>>

------------------------------------------------------------------------------
(* The server.  Each step of pair-setup and pair-verify reads a request    *)
(* into the context and then writes the response from it.  A request that  *)
(* cannot be processed is answered with RTSP status 470 and no body.       *)
Refused == [Error |-> 470]
server_auth_failed_response(state) == [State |-> state, Error |-> "Authentication"]

server_setup_new == [is_transient |-> FALSE, salt |-> 0, v |-> 0, b |-> 0, pkB |-> 0, M2 |-> None,
                     verifier |-> None, status |-> "in_progress", shared_secret |-> <<>>]
server_verify_new == [client_eph |-> "", shared_secret |-> <<>>, status |-> "in_progress",
                      result |-> <<>>]

server_setup_request1(ctx, m) ==
  {[ctx EXCEPT !.is_transient = Has(m, "Flags"), !.salt = salt,
               !.v = srp_verification_key(salt, ServerPin), !.b = b,
               !.pkB = srp_verifier_B(srp_verification_key(salt, ServerPin), b)]
     : salt \in Salts, b \in Exponents}

server_setup_request2(ctx, m) ==
  LET ver == srp_verifier_new(ctx.salt, ctx.v, m.PublicKey, ctx.b, ctx.pkB)
  IN  {IF m.Proof = None THEN [ctx EXCEPT !.status = "invalid"]
       ELSE IF ver = None THEN [ctx EXCEPT !.status = "auth_failed"]
       ELSE IF ver.M # m.Proof THEN [ctx EXCEPT !.verifier = ver, !.status = "auth_failed"]
       ELSE [ctx EXCEPT !.verifier = ver, !.M2 = ver.H_AMK]}

server_setup_request3(ctx, m) ==
  LET key == ctx.verifier.session_key
      p == m.EncryptedData.plain
      x == hkdf_extract_expand(key, "Controller-Sign")
  IN  {IF ~Decrypts(m.EncryptedData, hkdf_extract_expand(key, "Setup"), "PS-Msg05")
       THEN [ctx EXCEPT !.status = "invalid"]
       ELSE IF ~verify_info(p.Signature, p.PublicKey, <<x, p.Identifier, p.PublicKey>>)
       THEN [ctx EXCEPT !.status = "auth_failed"]
       ELSE ctx}

server_setup_response1(ctx) == [State |-> 2, Salt |-> ctx.salt, PublicKey |-> ctx.pkB]
server_setup_response2(ctx) == [State |-> 4, Proof |-> ctx.M2]
server_setup_response3(ctx) ==
  LET key == ctx.verifier.session_key
      info == device_info("server", hkdf_extract_expand(key, "Accessory-Sign"), server_keypair,
                          server_keypair)
  IN  [State |-> 6,
       EncryptedData |-> encrypt_chacha(hkdf_extract_expand(key, "Setup"), "PS-Msg06",
         [Identifier |-> info.Identifier, Signature |-> info.Signature,
          PublicKey |-> server_keypair])]

\* pair_setup: the request's state selects what reads it and what answers.
SetupRequest(ctx, m) == CASE m.State = 1 -> server_setup_request1(ctx, m)
                          [] m.State = 3 -> server_setup_request2(ctx, m)
                          [] m.State = 5 -> server_setup_request3(ctx, m)
pair_setup(ctx, m) ==
  IF ctx.status = "invalid" THEN Refused
  ELSE IF ctx.status = "auth_failed" THEN server_auth_failed_response(m.State + 1)
  ELSE CASE m.State = 1 -> server_setup_response1(ctx)
         [] m.State = 3 -> server_setup_response2(ctx)
         [] m.State = 5 -> server_setup_response3(ctx)

\* The response that ends the pairing also completes the context.
SetupCompleted(ctx, m) ==
  IF ctx.status # "in_progress" THEN ctx
  ELSE IF m.State = 3 /\ ctx.is_transient
       THEN [ctx EXCEPT !.status = "completed", !.shared_secret = <<ctx.verifier.session_key>>]
  ELSE IF m.State = 5 THEN [ctx EXCEPT !.status = "completed"]
  ELSE ctx

server_verify_request1(ctx, m) == [ctx EXCEPT !.client_eph = m.PublicKey]
\* Without get_cb (rtsp.c gives none) the client's signature is not checked.
server_verify_request2(ctx, m) ==
  IF Decrypts(m.EncryptedData, hkdf_extract_expand(ctx.shared_secret[1], "Verify"), "PV-Msg03")
  THEN ctx ELSE [ctx EXCEPT !.status = "invalid"]

server_verify_response1(ctx) ==
  LET secret == crypto_scalarmult("server_eph", ctx.client_eph) IN
  [ctx |-> [ctx EXCEPT !.shared_secret = <<secret>>],
   out |-> [State |-> 2, PublicKey |-> "server_eph",
            EncryptedData |-> encrypt_chacha(hkdf_extract_expand(secret, "Verify"), "PV-Msg02",
              device_info("server", "server_eph", ctx.client_eph, server_keypair))]]
server_verify_response2(ctx) ==
  [ctx |-> [ctx EXCEPT !.status = "completed", !.result = ctx.shared_secret],
   out |-> [State |-> 4]]

pair_verify(ctx, m) ==
  IF m.State = 1 THEN server_verify_response1(server_verify_request1(ctx, m))
  ELSE LET read == server_verify_request2(ctx, m) IN
       IF read.status = "invalid" THEN [ctx |-> read, out |-> Refused]
       ELSE server_verify_response2(read)

------------------------------------------------------------------------------
(* The list of pairings. *)
pairing_find(list, id) == SelectInSeq(list, LAMBDA p : p.device_id = id)
pairing_add_cb(list, key, id) ==
  LET i == pairing_find(list, id) IN
  IF i # 0 THEN [list EXCEPT ![i].public_key = key]
  ELSE <<[device_id |-> id, public_key |-> key]>> \o list

pairing_remove_cb(list, id) ==
  LET i == pairing_find(list, id) IN IF i # 0 THEN RemoveAt(list, i) ELSE list

------------------------------------------------------------------------------
(* The RTSP connection: read (which turns ciphering on once there is a     *)
(* cipher), handle, respond.                                               *)
Readable == IF control_cipher = None THEN ~wire.ciphered
            ELSE wire.ciphered /\ Decrypts(wire.body, control_cipher.in,
                                           control_cipher.decryption_counter)
AfterRead == IF control_cipher = None THEN None
             ELSE [control_cipher EXCEPT !.decryption_counter = @ + 1]
Request == IF control_cipher = None THEN wire.body ELSE wire.body.plain

\* The response goes out under the cipher only if the request came in under it.
msg_write_response(url, m, cipher) ==
  LET c == IF is_encrypted' THEN cipher ELSE None IN wire' = Sent("client", url, m, c)

Reads == /\ wire # None /\ wire.to = "server" /\ Readable
         /\ is_encrypted' = (control_cipher # None)
         /\ UNCHANGED <<client, asked, expected>>
Responds(url, m, cipher) == /\ msg_write_response(url, m, cipher)
                            /\ control_cipher' = IF is_encrypted' THEN Counted(cipher) ELSE cipher

handle_pair_setup ==
  /\ Reads
  /\ wire.url = "pair-setup"
  /\ LET ctx == IF setup_ctx = None THEN server_setup_new ELSE setup_ctx IN
     \E read \in SetupRequest(ctx, Request) :
       LET done == SetupCompleted(read, Request)
           cipher == IF done.status = "completed" /\ done.shared_secret # <<>>
                     THEN cipher_new(2, done.shared_secret) ELSE AfterRead
       IN  setup_ctx' = done /\ Responds("pair-setup", pair_setup(read, Request), cipher)
  /\ UNCHANGED <<verify_ctx, pairings>>

handle_pair_verify ==
  /\ Reads
  /\ wire.url = "pair-verify"
  /\ LET r == pair_verify(IF verify_ctx = None THEN server_verify_new ELSE verify_ctx, Request)
         cipher == IF r.ctx.status = "completed" THEN cipher_new(2, r.ctx.result) ELSE AfterRead
     IN  verify_ctx' = r.ctx /\ Responds("pair-verify", r.out, cipher)
  /\ UNCHANGED <<setup_ctx, pairings>>

handle_options ==
  /\ Reads
  /\ wire.url = "options"
  /\ Responds("options", [State |-> 0], AfterRead)
  /\ UNCHANGED <<setup_ctx, verify_ctx, pairings>>

handle_pair_add ==
  /\ Reads
  /\ wire.url = "pair-add"
  /\ pairings' = pairing_add_cb(pairings, Request.PublicKey, Request.Identifier)
  /\ Responds("pair-add", [State |-> 2], AfterRead)
  /\ UNCHANGED <<setup_ctx, verify_ctx>>

handle_pair_remove ==
  /\ Reads
  /\ wire.url = "pair-remove"
  /\ pairings' = pairing_remove_cb(pairings, Request.Identifier)
  /\ Responds("pair-remove", [State |-> 2], AfterRead)
  /\ UNCHANGED <<setup_ctx, verify_ctx>>

handle_pair_list ==
  /\ Reads
  /\ wire.url = "pair-list"
  /\ Responds("pair-list", [State |-> 2, Items |-> pairings], AfterRead)
  /\ UNCHANGED <<setup_ctx, verify_ctx, pairings>>

PairingNext ==
  \/ setup_step1_request \/ setup_step1_response
  \/ setup_step2_response \/ setup_step3_response
  \/ verify_step1_response \/ verify_step2_response
  \/ \E m \in ChannelRequests : ClientAsks(m)
  \/ ClientHears
  \/ handle_pair_setup \/ handle_pair_verify \/ handle_options
  \/ handle_pair_add \/ handle_pair_remove \/ handle_pair_list

PairingSpec == PairingInit /\ [][PairingNext]_hvars

------------------------------------------------------------------------------
(* Properties. *)

\* What is on the wire can always be read by the end it is sent to: it is
\* ciphered exactly when that end deciphers, with the key and the counter that
\* end is about to use.  This is about the answer to the request that creates
\* the server's cipher (handle_pair_setup: "the response to this request is
\* still plaintext") and about cipher_new giving the ends opposite keys.
ChannelInStep ==
  wire # None =>
    IF wire.to = "server" THEN Readable
    ELSE /\ wire.ciphered <=> client.cipher # None
         /\ wire.ciphered => Decrypts(wire.body, client.cipher.in,
                                      client.cipher.decryption_counter)

\* A client is let in exactly if its PIN is the server's (or SRP's safety check
\* met a zero hash, which the group's real size makes negligible), and then
\* both ends hold the same secret: the two computations of the SRP key, the
\* checks of the proofs M1 and M2, pair-verify's Diffie-Hellman.
RightPinPairs ==
  /\ client.pc = "failed" => \/ client.pin # ServerPin
                              \/ (client.user # None /\ client.user.M = None)
  /\ client.completed => /\ client.pin = ServerPin
                         /\ control_cipher # None
                         /\ control_cipher.in = client.cipher.out

\* The list the server keeps and answers pair-list with is what the adds and
\* removes of the controllers left: one entry for each device, with the key
\* given last (the linked list of pairing_add, pairing_find, pairing_remove).
PairingsAreCurrent ==
  (wire = None \/ wire.to = "client") =>
    /\ Len(pairings) = Cardinality(DOMAIN expected)
    /\ \A i \in DOMAIN pairings : /\ pairings[i].device_id \in DOMAIN expected
                                  /\ expected[pairings[i].device_id] = pairings[i].public_key

\* Pairing does what both ends agree it does: the right client gets in and the other does
\* not, the cipher begins at the same message at both ends, and the list of pairings is
\* the one the controllers made (pair_homekit.c and the handlers of rtsp.c).
PairedAsAgreed == ChannelInStep /\ RightPinPairs /\ PairingsAreCurrent
=============================================================================
