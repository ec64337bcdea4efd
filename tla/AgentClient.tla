---------------------------- MODULE AgentClient ----------------------------
(***************************************************************************)
(* AgentClient::post_encrypted (components/executor/agent): seal a         *)
(* document with AES-EAX, post it, collect the response in the callbacks   *)
(* of the HTTP client, check it and open it.  Every call of the crypto and *)
(* HTTP libraries may fail.  Ciphers are symbolic: a tag fits one key,     *)
(* nonce and ciphertext, and a ciphertext has two pieces.                  *)
(***************************************************************************)
EXTENDS Naturals, Sequences

CONSTANTS
  Keys, Nonces, Documents,
  Replies,        \* what the peer may say
  KeySlots,       \* key slots of the crypto library
  MaxResponses    \* bound: responses during one perform (redirections)

ASSUME ClientAssumption == "" \notin Keys \cup Nonces \cup Documents

ASSUME BoundsAssumption == KeySlots \in Nat /\ MaxResponses \in Nat

VARIABLES
  key,      \* key_
  pc,       \* the call that comes next; "idle" outside post_encrypted
  mode,     \* in aes_eax_encrypt or in aes_eax_decrypt
  text,     \* plaintext_json
  enc,      \* the AesEaxResult
  resp,     \* the HttpResponse the callbacks fill, and its status
  plain,    \* the output of the decryption
  returned, \* what the last call returned
  slots,    \* key slots in use
  handle,   \* an HTTP client exists
  wire,     \* history: what this call posted
  coming,   \* the response being received, and how much of its body arrived
  heard     \* history: the responses of this perform

clientState == <<key, pc, mode, text, enc, resp, plain, returned, slots, handle>>
netState == <<wire, coming, heard>>
agentVars == <<clientState, netState>>
-----------------------------------------------------------------------------
\* CTR_N(text), and what is in the buffer when the cipher stops half way.
Piece(k, n, t, i) == [key |-> k, nonce |-> n, text |-> t, part |-> i]
Ctr(k, n, t) == IF t = "" THEN <<>> ELSE <<Piece(k, n, t, 1), Piece(k, n, t, 2)>>
Noise == Piece("", "", "", 0)

\* N XOR H XOR M.
Tag(k, n, body) == [key |-> k, nonce |-> n, body |-> body]

Seal(k, n, t) == [nonce |-> n, tag |-> Tag(k, n, Ctr(k, n, t)), body |-> Ctr(k, n, t)]

\* What deciphering a body gives.
Opened(k, n, body) ==
  IF \E t \in Replies : body = Ctr(k, n, t)
  THEN CHOOSE t \in Replies : body = Ctr(k, n, t)
  ELSE "garbage"

Unsealed == [nonce |-> "", tag |-> Tag("", "", <<>>), body |-> <<>>]

\* A header: its length, and the bytes it decodes to if it is all hex digits.
Hex(bytes)   == [size |-> 32, bytes |-> {bytes}]
Missing      == [size |-> 0, bytes |-> {}]
NotHex       == [size |-> 32, bytes |-> {}]

NoResponse == [nonce |-> Missing, tag |-> Missing, body |-> <<>>, ok |-> FALSE]

AgentInit ==
  /\ key \in Keys /\ pc = "idle" /\ mode = "encrypt" /\ text = ""
  /\ enc = Unsealed /\ resp = NoResponse /\ plain = "" /\ returned = ""
  /\ slots = 0 /\ handle = FALSE
  /\ wire = {} /\ coming = {} /\ heard = <<>>

\* Mutant: the result of the encryption outlives the call.
PostKeepingResult ==
  /\ pc = "idle" /\ key' \in Keys /\ text' \in Documents
  /\ pc' = "random" /\ mode' = "encrypt"
  /\ resp' = NoResponse /\ plain' = "" /\ returned' = ""
  /\ wire' = {} /\ coming' = {} /\ heard' = <<>>
  /\ UNCHANGED <<enc, slots, handle>>

\* set_key, then send_network_message or send_control_form; all but key is
\* local to the call.
Post ==
  /\ pc = "idle" /\ key' \in Keys /\ text' \in Documents
  /\ pc' = "random" /\ mode' = "encrypt"
  /\ enc' = Unsealed /\ resp' = NoResponse /\ plain' = "" /\ returned' = ""
  /\ wire' = {} /\ coming' = {} /\ heard' = <<>>
  /\ UNCHANGED <<slots, handle>>

\* post_encrypted returns v.
Return(v) == pc' = "idle" /\ returned' = v

\* ---- aes_eax_encrypt and aes_eax_decrypt ----------------------------------

\* Encryption gives back what it has, decryption nullopt.
LeaveCipher ==
  IF mode = "encrypt" THEN pc' = "post" /\ UNCHANGED returned ELSE Return("")

GenerateNonce ==
  /\ pc = "random"
  /\ \/ (\E n \in Nonces : enc' = [enc EXCEPT !.nonce = n])
        /\ pc' = "import" /\ UNCHANGED returned
     \/ UNCHANGED enc /\ LeaveCipher
  /\ UNCHANGED <<key, mode, text, resp, plain, slots, handle, netState>>

ImportMacKey ==
  /\ pc = "import"
  /\ \/ slots < KeySlots /\ slots' = slots + 1 /\ pc' = "omacs" /\ UNCHANGED returned
     \/ UNCHANGED slots /\ LeaveCipher
  /\ UNCHANGED <<key, mode, text, enc, resp, plain, handle, netState>>

\* N and H.
Omacs ==
  /\ pc = "omacs"
  /\ \/ pc' = "ctrKey" /\ UNCHANGED <<slots, returned>>
     \/ slots' = slots - 1 /\ LeaveCipher
  /\ UNCHANGED <<key, mode, text, enc, resp, plain, handle, netState>>

ImportCtrKey ==
  /\ pc = "ctrKey"
  /\ \/ slots < KeySlots /\ slots' = slots + 1 /\ pc' = "ctr" /\ UNCHANGED returned
     \/ slots' = slots - 1 /\ LeaveCipher
  /\ UNCHANGED <<key, mode, text, enc, resp, plain, handle, netState>>

\* The bytes that a 16-byte header stands for.
BytesOf(header) == CHOOSE b \in header.bytes : TRUE

\* ctr_crypt with its key imported.  When it fails its output stays at the
\* size of the buffer, and the caller also destroys the MAC key.
CtrCrypt ==
  /\ pc = "ctr"
  /\ \/ /\ IF mode = "encrypt"
           THEN enc' = [enc EXCEPT !.body = Ctr(key, enc.nonce, text)] /\ UNCHANGED plain
           ELSE plain' = Opened(key, BytesOf(resp.nonce), resp.body) /\ UNCHANGED enc
        /\ slots' = slots - 1 /\ pc' = "mac" /\ UNCHANGED returned
     \/ /\ enc' = IF mode = "encrypt" THEN [enc EXCEPT !.body = <<Noise>>] ELSE enc
        /\ slots' = slots - 2 /\ LeaveCipher /\ UNCHANGED plain
  /\ UNCHANGED <<key, mode, text, resp, handle, netState>>

\* Mutant: the MAC key is not destroyed when M cannot be computed.
LeakingMacBody ==
  /\ pc = "mac"
  /\ \/ /\ enc' = IF mode = "encrypt" THEN [enc EXCEPT !.tag = Tag(key, enc.nonce, enc.body)]
                  ELSE enc
        /\ pc' = IF mode = "encrypt" THEN "post" ELSE "verify"
        /\ slots' = slots - 1 /\ UNCHANGED returned
     \/ /\ enc' = IF mode = "encrypt" THEN [enc EXCEPT !.body = <<>>] ELSE enc
        /\ LeaveCipher /\ UNCHANGED slots
  /\ UNCHANGED <<key, mode, text, resp, plain, handle, netState>>

\* M, after which the MAC key is destroyed, and the tag.
MacBody ==
  /\ pc = "mac"
  /\ \/ /\ enc' = IF mode = "encrypt" THEN [enc EXCEPT !.tag = Tag(key, enc.nonce, enc.body)]
                  ELSE enc
        /\ pc' = IF mode = "encrypt" THEN "post" ELSE "verify"
        /\ UNCHANGED returned
     \/ /\ enc' = IF mode = "encrypt" THEN [enc EXCEPT !.body = <<>>] ELSE enc
        /\ LeaveCipher
  /\ slots' = slots - 1
  /\ UNCHANGED <<key, mode, text, resp, plain, handle, netState>>

\* Mutant: the tag is not compared.
VerifyNothing ==
  /\ pc = "verify"
  /\ Return(plain)
  /\ UNCHANGED <<key, mode, text, enc, resp, plain, slots, handle, netState>>

Verify ==
  /\ pc = "verify"
  /\ Return(IF Tag(key, BytesOf(resp.nonce), resp.body) = BytesOf(resp.tag)
            THEN plain ELSE "")
  /\ UNCHANGED <<key, mode, text, enc, resp, plain, slots, handle, netState>>

\* ---- the exchange ---------------------------------------------------------

\* An empty ciphertext is taken for a failed encryption; esp_http_client_init
\* may fail as well.
NotPosted ==
  /\ pc = "post" /\ Return("")
  /\ UNCHANGED <<key, mode, text, enc, resp, plain, slots, handle, netState>>

PostRequest ==
  /\ pc = "post" /\ enc.body /= <<>>
  /\ handle' = TRUE /\ wire' = {enc}
  /\ pc' = "perform"
  /\ UNCHANGED <<key, mode, text, enc, resp, plain, returned, slots, coming, heard>>

Performing == pc = "perform" /\ handle

\* A response starts: the peer's, or after a redirection another one's.
Respond ==
  /\ Performing /\ Len(heard) < MaxResponses
  /\ \E k \in Keys, n \in Nonces, t \in Replies :
       /\ coming' = {[msg |-> Seal(k, n, t), at |-> 0]}
       /\ heard' = Append(heard, Seal(k, n, t))
  /\ UNCHANGED <<clientState, wire>>

\* HTTP_EVENT_ON_HEADER: the last value of a header is kept.
OnHeader ==
  /\ Performing
  /\ \E c \in coming :
       \/ \E h \in {Hex(c.msg.nonce), NotHex} : resp' = [resp EXCEPT !.nonce = h]
       \/ \E h \in {Hex(c.msg.tag), NotHex} : resp' = [resp EXCEPT !.tag = h]
  /\ UNCHANGED <<key, pc, mode, text, enc, plain, returned, slots, handle, netState>>

\* HTTP_EVENT_ON_DATA: the next piece arrives and is added to what came before,
\* also to what an earlier response left.
OnData ==
  /\ Performing
  /\ \E c \in coming :
       /\ c.at < Len(c.msg.body)
       /\ resp' = [resp EXCEPT !.body = Append(@, c.msg.body[c.at + 1])]
       /\ coming' = {[c EXCEPT !.at = @ + 1]}
  /\ UNCHANGED <<key, pc, mode, text, enc, plain, returned, slots, handle, wire, heard>>

\* Mutant: no timeout, the client waits until a response is complete.
EndWithoutTimeout ==
  /\ Performing
  /\ \E c \in coming : c.at = Len(c.msg.body)
  /\ \E ok \in BOOLEAN : resp' = [resp EXCEPT !.ok = ok]
  /\ handle' = FALSE /\ pc' = "check"
  /\ UNCHANGED <<key, mode, text, enc, plain, returned, slots, netState>>

\* esp_http_client_perform returns at any point, also when a socket operation
\* has waited 30 s; ok stands for ESP_OK, a 2xx status and no HTTP_EVENT_ERROR.
\* The client is cleaned up.
EndPerform ==
  /\ Performing
  /\ \E ok \in BOOLEAN : resp' = [resp EXCEPT !.ok = ok]
  /\ handle' = FALSE /\ pc' = "check"
  /\ UNCHANGED <<key, mode, text, enc, plain, returned, slots, netState>>

\* Mutant: only the length of the hex strings is checked.
LongEnough == resp.ok /\ resp.nonce.size = 32 /\ resp.tag.size = 32

Acceptable ==
  /\ resp.ok
  /\ resp.nonce.size = 32 /\ resp.tag.size = 32
  /\ resp.nonce.bytes /= {} /\ resp.tag.bytes /= {}

CheckResponse ==
  /\ pc = "check"
  /\ IF Acceptable THEN pc' = "import" /\ mode' = "decrypt" /\ UNCHANGED returned
                   ELSE Return("") /\ UNCHANGED mode
  /\ UNCHANGED <<key, text, enc, resp, plain, slots, handle, netState>>
-----------------------------------------------------------------------------
Cipher == GenerateNonce \/ ImportMacKey \/ Omacs \/ ImportCtrKey \/ CtrCrypt \/ MacBody

ClientStep == Cipher \/ Verify \/ NotPosted \/ PostRequest \/ EndPerform \/ CheckResponse

AgentNext ==
  \/ Post \/ ClientStep
  \/ Respond \/ OnHeader \/ OnData

AgentSpec == AgentInit /\ [][AgentNext]_agentVars

\* The task runs, the crypto calls return, and perform ends: each of its socket
\* operations times out.  A peer that sends a little before every timeout, and
\* for ever, is excluded by this.
AgentFairSpec == AgentSpec /\ WF_agentVars(ClientStep)
-----------------------------------------------------------------------------
(* Properties *)

Bodies == Seq([key : Keys \cup {""}, nonce : Nonces \cup {""},
               text : Documents \cup Replies \cup {""}, part : 0..2])
Tags == [key : Keys \cup {""}, nonce : Nonces \cup {""}, body : Bodies]
Results == [nonce : Nonces \cup {""}, tag : Tags, body : Bodies]
Headers(B) == [size : {0, 32}, bytes : SUBSET B]
Seals == {Seal(k, n, t) : k \in Keys, n \in Nonces, t \in Replies}

\* Every variable keeps its type, and decryption gets all 16 bytes of a nonce
\* and of a tag: headers of 32 characters that are not hex never reach it.
AgentTypeOK ==
  /\ key \in Keys /\ text \in Documents \cup {""}
  /\ pc \in {"idle", "random", "import", "omacs", "ctrKey", "ctr", "mac", "verify",
             "post", "perform", "check"}
  /\ mode \in {"encrypt", "decrypt"}
  /\ enc \in Results /\ wire \in SUBSET Results
  /\ resp \in [nonce : Headers(Nonces), tag : Headers(Tags), body : Bodies, ok : BOOLEAN]
  /\ coming \in SUBSET [msg : Seals, at : 0..2] /\ heard \in Seq(Seals)
  /\ {plain, returned} \subseteq Replies \cup {"", "garbage"}
  /\ slots \in 0..KeySlots /\ handle \in BOOLEAN
  /\ mode = "decrypt" /\ pc /= "idle" =>
       resp.nonce.bytes /= {} /\ resp.tag.bytes /= {}

\* Whatever fails along the way, a call gives back its key slots and its HTTP
\* client: no sequence of failed exchanges runs the device out of either.
Released == pc = "idle" => slots = 0 /\ ~handle

\* What a call returns was said by a holder of its key in one of the responses
\* to this call, complete and unaltered: neither a body cut short, nor headers of
\* one response with the body of another, get through.
AnswerAuthentic ==
  pc = "idle" /\ returned /= "" =>
    \E i \in DOMAIN heard : \E n \in Nonces : heard[i] = Seal(key, n, returned)

\* Whoever has the key and accepts what was posted reads the document of this
\* call, not noise and not an earlier document.
OpensToDocument ==
  \A w \in wire : w.tag = Tag(key, w.nonce, w.body) =>
    w = Seal(key, w.nonce, text)

\* Every call returns, also when the peer says nothing, or stops in the middle.
CallReturns == (pc /= "idle") ~> (pc = "idle")

\* What was said under the key of this call, in some response to it.
Said == {t \in Replies : \E i \in DOMAIN heard : \E n \in Nonces : heard[i] = Seal(key, n, t)}

Abstract == INSTANCE Exchange WITH calling <- pc /= "idle", said <- Said

\* The dozen calls of the two libraries that make up post_encrypted, with their
\* failures, are to the caller one exchange, which returns at most once, and
\* nothing that was not said to it.
ImplementsExchange == Abstract!ExchangeSpec

\* agent.hpp:34: "on failure ciphertext will be empty", on which post_encrypted
\* relies to send nothing that is not sealed.
OnlySealedIsPosted == \A w \in wire : w.tag = Tag(w.tag.key, w.nonce, w.body)
=============================================================================
