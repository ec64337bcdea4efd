------------------------- MODULE AgentClientProofs -------------------------
(***************************************************************************)
(* For any keys, nonces, documents, replies, number of key slots and       *)
(* number of responses: the types, Released, AnswerAuthentic and           *)
(* OpensToDocument of AgentClient, and that AgentClient implements         *)
(* Exchange.                                                               *)
(***************************************************************************)
EXTENDS AgentClient, SequenceTheorems, TLAPS

-----------------------------------------------------------------------------
(* The inductive invariant *)

\* Which call holds what: the MAC key during the cipher, the CTR key during
\* ctr_crypt, the HTTP client during perform.
Held ==
  /\ slots = IF pc \in {"omacs", "ctrKey", "mac"} THEN 1
             ELSE IF pc = "ctr" THEN 2 ELSE 0
  /\ handle = (pc = "perform")
  /\ pc = "verify" => mode = "decrypt"
  /\ pc \in {"random", "post", "perform", "check"} => mode = "encrypt"

\* What was sealed in this call is sealed under this call's key, and what could
\* not be sealed bears no tag.
SealedOrBare(w) == w.tag.key = "" \/ w = Seal(key, w.nonce, text)

Sealing ==
  /\ pc /= "idle" => text \in Documents
  /\ SealedOrBare(enc)
  /\ \A w \in wire : SealedOrBare(w)
  /\ mode = "encrypt" /\ pc \in {"random", "import", "omacs", "ctrKey", "ctr", "mac"} =>
       enc.tag.key = ""
  /\ mode = "encrypt" /\ pc = "mac" => enc.body = Ctr(key, enc.nonce, text)

\* The peer's words: a tag that the callbacks kept is one that was heard, and
\* what the decryption gave is what the body opens to.
Hearing ==
  /\ \A c \in coming : \E i \in DOMAIN heard : heard[i] = c.msg
  /\ \A b \in resp.tag.bytes : \E i \in DOMAIN heard : heard[i].tag = b
  /\ pc /= "idle" => returned = ""
  /\ pc = "verify" \/ (pc = "mac" /\ mode = "decrypt") =>
       plain = Opened(key, BytesOf(resp.nonce), resp.body)
  /\ AnswerAuthentic

AgentInv == AgentTypeOK /\ Held /\ Sealing /\ Hearing
-----------------------------------------------------------------------------
(* Ciphertexts *)

Piecemeal == [key : Keys \cup {""}, nonce : Nonces \cup {""},
              text : Documents \cup Replies \cup {""}, part : 0..2]

\* A pair is a sequence.
LEMMA PairIsSeq ==
  ASSUME NEW S, NEW a \in S, NEW b \in S
  PROVE  <<a, b>> \in Seq(S)
<1>1. <<a, b>> = Append(Append(<<>>, a), b)
  OBVIOUS
<1> QED
  BY <1>1, EmptySeq, AppendProperties

\* And so is a single element.
LEMMA SingletonIsSeq ==
  ASSUME NEW S, NEW a \in S
  PROVE  <<a>> \in Seq(S)
<1>1. <<a>> = Append(<<>>, a)
  OBVIOUS
<1> QED
  BY <1>1, EmptySeq, AppendProperties

\* The pieces of a ciphertext are numbered as in Piecemeal.
LEMMA Parts == 0 \in 0..2 /\ 1 \in 0..2 /\ 2 \in 0..2
OBVIOUS

\* A ciphertext has the type of a body.
LEMMA CtrType ==
  ASSUME NEW k \in Keys, NEW n \in Nonces \cup {""},
         NEW t \in Documents \cup Replies \cup {""}
  PROVE  Ctr(k, n, t) \in Bodies
<1>1. \A i \in 0..2 : Piece(k, n, t, i) \in Piecemeal
  BY DEF Piece, Piecemeal
<1>2. Piece(k, n, t, 1) \in Piecemeal /\ Piece(k, n, t, 2) \in Piecemeal
  BY ONLY <1>1, Parts
<1>3. <<Piece(k, n, t, 1), Piece(k, n, t, 2)>> \in Seq(Piecemeal)
  BY ONLY <1>2, PairIsSeq
<1> QED
  BY <1>3, EmptySeq DEF Ctr, Bodies, Piecemeal

\* A ciphertext has one plaintext: opening it gives what was sealed.
LEMMA OpenedCtr ==
  ASSUME NEW k, NEW n, NEW t \in Replies
  PROVE  Opened(k, n, Ctr(k, n, t)) = t
<1>1. ASSUME NEW u \in Replies, Ctr(k, n, t) = Ctr(k, n, u)
      PROVE  u = t
  <2>1. CASE t = "" /\ u = ""
    BY <2>1
  <2>2. CASE t = "" /\ u /= ""
    BY <1>1, <2>2 DEF Ctr
  <2>3. CASE t /= "" /\ u = ""
    BY <1>1, <2>3 DEF Ctr
  <2>4. CASE t /= "" /\ u /= ""
    <3>1. Ctr(k, n, t)[1] = Piece(k, n, t, 1) /\ Ctr(k, n, u)[1] = Piece(k, n, u, 1)
      BY <2>4 DEF Ctr
    <3>2. Piece(k, n, t, 1) = Piece(k, n, u, 1)
      BY <1>1, <3>1
    <3> QED
      BY <3>2 DEF Piece
  <2> QED
    BY <2>1, <2>2, <2>3, <2>4
<1> QED
  BY <1>1 DEF Opened

\* The bytes of a header that is all hex digits are among those it stands for.
LEMMA BytesOfHeader ==
  ASSUME NEW h, h.bytes /= {}
  PROVE  BytesOf(h) \in h.bytes
BY DEF BytesOf

\* What a body opens to is a reply or garbage.
LEMMA OpenedType ==
  ASSUME NEW k, NEW n, NEW b
  PROVE  Opened(k, n, b) \in Replies \cup {"", "garbage"}
BY DEF Opened

\* What the peer seals has the type of a result.
LEMMA SealType ==
  ASSUME NEW s \in Seals
  PROVE  s \in Results /\ s.nonce \in Nonces /\ s.tag \in Tags /\ s.body \in Bodies
<1>1. PICK k \in Keys, n \in Nonces, t \in Replies : s = Seal(k, n, t)
  BY DEF Seals
<1>2. Ctr(k, n, t) \in Bodies
  BY CtrType
<1>3. Tag(k, n, Ctr(k, n, t)) \in Tags
  BY <1>2 DEF Tag, Tags
<1> QED
  BY <1>1, <1>2, <1>3 DEF Seal, Results

\* Whoever seals a reply makes one of Seals.
LEMMA SealIn ==
  ASSUME NEW k \in Keys, NEW n \in Nonces, NEW t \in Replies
  PROVE  Seal(k, n, t) \in Seals
BY DEF Seals

\* What was heard was sealed by someone.
LEMMA HeardSeal ==
  ASSUME NEW h \in Seq(Seals), NEW i \in DOMAIN h
  PROVE  \E k \in Keys, n \in Nonces, t \in Replies : h[i] = Seal(k, n, t)
<1>1. h[i] \in Seals
  OBVIOUS
<1> QED
  BY <1>1 DEF Seals

\* A tag fits one key, nonce and ciphertext.
LEMMA TagFits ==
  ASSUME NEW k, NEW n, NEW b, NEW kk, NEW nn, NEW t \in Replies,
         Tag(k, n, b) = Seal(kk, nn, t).tag
  PROVE  k = kk /\ n = nn /\ b = Ctr(kk, nn, t) /\ Opened(k, n, b) = t
<1>1. Tag(k, n, b) = Tag(kk, nn, Ctr(kk, nn, t))
  BY DEF Seal
<1>2. k = kk /\ n = nn /\ b = Ctr(kk, nn, t)
  BY <1>1 DEF Tag
<1> QED
  BY <1>2, OpenedCtr

\* Hearing one more response forgets none.
LEMMA HearMore ==
  ASSUME NEW S, NEW h \in Seq(S), NEW s \in S
  PROVE  /\ \A i \in DOMAIN h : i \in DOMAIN Append(h, s) /\ Append(h, s)[i] = h[i]
         /\ \E i \in DOMAIN Append(h, s) : Append(h, s)[i] = s
<1>1. DOMAIN h = 1..Len(h) /\ Len(h) \in Nat
  BY LenProperties
<1>2. DOMAIN Append(h, s) = 1..(Len(h) + 1)
  BY AppendProperties, LenProperties
<1>3. Len(h) + 1 \in 1..(Len(h) + 1) /\ \A i \in 1..Len(h) : i \in 1..(Len(h) + 1)
  BY <1>1
<1> QED
  BY <1>1, <1>2, <1>3, AppendProperties

\* A header changes the tag at most, and then to the one it bears.
LEMMA HeaderKept ==
  ASSUME NEW m, NEW r \in [nonce : Headers(Nonces), tag : Headers(Tags), body : Bodies,
                           ok : BOOLEAN],
         NEW q,
         \/ \E x \in {Hex(m.nonce), NotHex} : q = [r EXCEPT !.nonce = x]
         \/ \E x \in {Hex(m.tag), NotHex} : q = [r EXCEPT !.tag = x]
  PROVE  q.tag.bytes \subseteq r.tag.bytes \cup {m.tag}
<1>1. Hex(m.tag).bytes = {m.tag} /\ NotHex.bytes = {}
  BY DEF Hex, NotHex
<1>2. q.tag = r.tag \/ q.tag \in {Hex(m.tag), NotHex}
  OBVIOUS
<1> QED
  BY <1>1, <1>2
-----------------------------------------------------------------------------
(* Each part of the invariant is kept by every action *)

\* Every call that takes a key slot or a client gives it back by the time the
\* function returns.
LEMMA HeldKept ==
  ASSUME AgentTypeOK, Held, AgentNext
  PROVE  Held' /\ slots' \in 0..KeySlots
<1> USE DEF Held, Return, clientState, netState
<1>0. slots \in 0..KeySlots /\ KeySlots \in Nat
  <2>1. slots \in 0..KeySlots
    BY DEF AgentTypeOK
  <2> QED
    BY <2>1, BoundsAssumption DEF BoundsAssumption
<1>a. ASSUME LeaveCipher
      PROVE  (pc' = "post" /\ mode = "encrypt") \/ pc' = "idle"
  BY <1>a DEF LeaveCipher
<1>1. CASE Post
  BY <1>0, <1>1 DEF Post
<1>2. CASE GenerateNonce
  BY <1>0, <1>a, <1>2 DEF GenerateNonce
<1>3. CASE ImportMacKey
  BY <1>0, <1>a, <1>3 DEF ImportMacKey
<1>4. CASE Omacs
  BY <1>0, <1>a, <1>4 DEF Omacs
<1>5. CASE ImportCtrKey
  BY <1>0, <1>a, <1>5 DEF ImportCtrKey
<1>6. CASE CtrCrypt
  BY <1>0, <1>a, <1>6 DEF CtrCrypt
<1>7. CASE MacBody
  <2>1. /\ pc = "mac" /\ slots' = slots - 1 /\ mode' = mode /\ handle' = handle
        /\ \/ pc' = "post" /\ mode = "encrypt"
           \/ pc' = "verify" /\ mode = "decrypt"
           \/ pc' = "idle"
    <3>1. mode \in {"encrypt", "decrypt"}
      BY DEF AgentTypeOK
    <3> QED
      BY <1>a, <1>7, <3>1 DEF MacBody
  <2> QED
    BY <1>0, <2>1
<1>8. CASE Verify
  BY <1>0, <1>8 DEF Verify
<1>9. CASE NotPosted
  BY <1>0, <1>9 DEF NotPosted
<1>10. CASE PostRequest
  BY <1>0, <1>10 DEF PostRequest
<1>11. CASE EndPerform
  BY <1>0, <1>11 DEF EndPerform, Performing
<1>12. CASE CheckResponse
  BY <1>0, <1>12 DEF CheckResponse
<1>13. CASE Respond \/ OnHeader \/ OnData
  BY <1>0, <1>13 DEF Respond, OnHeader, OnData
<1> QED
  BY <1>1, <1>2, <1>3, <1>4, <1>5, <1>6, <1>7, <1>8, <1>9, <1>10, <1>11, <1>12, <1>13
     DEF AgentNext, ClientStep, Cipher

\* What is posted is sealed under the key of this call or bears no tag of it.
LEMMA SealingKept ==
  ASSUME AgentTypeOK, Held, Sealing, AgentNext
  PROVE  Sealing'
<1> USE DEF Held, Sealing, SealedOrBare, Return, LeaveCipher, clientState, netState
<1>0. enc \in Results /\ key \in Keys
  BY DEF AgentTypeOK
<1>1. CASE Post
  BY <1>0, <1>1 DEF Post, Unsealed, Tag
<1>2. CASE GenerateNonce
  BY <1>0, <1>2 DEF GenerateNonce, Results
<1>3. CASE ImportMacKey
  BY <1>0, <1>3 DEF ImportMacKey
<1>4. CASE Omacs
  BY <1>0, <1>4 DEF Omacs
<1>5. CASE ImportCtrKey
  BY <1>0, <1>5 DEF ImportCtrKey
<1>6. CASE CtrCrypt
  BY <1>0, <1>6 DEF CtrCrypt, Results
<1>7. CASE MacBody
  BY <1>0, <1>7 DEF MacBody, Results, Seal
<1>8. CASE Verify
  BY <1>0, <1>8 DEF Verify
<1>9. CASE NotPosted
  BY <1>0, <1>9 DEF NotPosted
<1>10. CASE PostRequest
  BY <1>0, <1>10 DEF PostRequest
<1>11. CASE EndPerform
  BY <1>0, <1>11 DEF EndPerform, Performing
<1>12. CASE CheckResponse
  BY <1>0, <1>12 DEF CheckResponse
<1>13. CASE Respond \/ OnHeader \/ OnData
  BY <1>0, <1>13 DEF Respond, OnHeader, OnData, Performing
<1> QED
  BY <1>1, <1>2, <1>3, <1>4, <1>5, <1>6, <1>7, <1>8, <1>9, <1>10, <1>11, <1>12, <1>13
     DEF AgentNext, ClientStep, Cipher
\* What the callbacks keep of the responses was heard, and only a body that fits
\* a tag that was heard is returned.
LEMMA HearingKept ==
  ASSUME AgentTypeOK, Held, Hearing, AgentNext
  PROVE  Hearing'
<1> USE DEF Held, Hearing, AnswerAuthentic, Return, LeaveCipher, clientState, netState
<1>a. /\ resp \in [nonce : Headers(Nonces), tag : Headers(Tags), body : Bodies, ok : BOOLEAN]
      /\ mode \in {"encrypt", "decrypt"} /\ heard \in Seq(Seals)
  BY DEF AgentTypeOK
<1>1. CASE Post
  BY <1>1 DEF Post, NoResponse, Missing
<1>2. CASE GenerateNonce
  BY <1>2 DEF GenerateNonce
<1>3. CASE ImportMacKey
  BY <1>3 DEF ImportMacKey
<1>4. CASE Omacs
  BY <1>4 DEF Omacs
<1>5. CASE ImportCtrKey
  BY <1>5 DEF ImportCtrKey
<1>6. CASE CtrCrypt
  BY <1>6 DEF CtrCrypt
<1>7. CASE MacBody
  <2>1. UNCHANGED <<key, mode, resp, plain, netState>> /\ pc = "mac"
    BY <1>7 DEF MacBody
  <2>2. CASE pc' = "post" /\ mode = "encrypt" /\ returned' = returned
    BY <2>1, <2>2
  <2>3. CASE pc' = "verify" /\ mode = "decrypt" /\ returned' = returned
    BY <2>1, <2>3
  <2>4. CASE pc' = "idle" /\ returned' = ""
    BY <2>1, <2>4
  <2> QED
    BY <1>a, <1>7, <2>1, <2>2, <2>3, <2>4 DEF MacBody
<1>8. CASE Verify
  <2>1. /\ UNCHANGED <<key, resp, plain, coming, heard>> /\ pc = "verify" /\ pc' = "idle"
        /\ mode = "decrypt" /\ plain = Opened(key, BytesOf(resp.nonce), resp.body)
    BY <1>8 DEF Verify
  <2>2. CASE Tag(key, BytesOf(resp.nonce), resp.body) = BytesOf(resp.tag)
    <3>1. BytesOf(resp.tag) \in resp.tag.bytes
      BY <2>1, BytesOfHeader DEF AgentTypeOK
    <3>2. PICK i \in DOMAIN heard : heard[i].tag = BytesOf(resp.tag)
      BY <3>1
    <3>3. PICK k \in Keys, n \in Nonces, t \in Replies : heard[i] = Seal(k, n, t)
      BY <1>a, HeardSeal
    <3>5. Tag(key, BytesOf(resp.nonce), resp.body) = Seal(k, n, t).tag
      BY <2>2, <3>2, <3>3
    <3>6. key = k /\ plain = t
      BY ONLY <2>1, <3>5, TagFits
    <3>7. returned' = plain
      BY <1>8, <2>2 DEF Verify
    <3>8. AnswerAuthentic'
      BY <2>1, <3>3, <3>6, <3>7
    <3> QED
      BY <2>1, <3>8
  <2>3. CASE Tag(key, BytesOf(resp.nonce), resp.body) /= BytesOf(resp.tag)
    BY <1>8, <2>1, <2>3 DEF Verify
  <2> QED
    BY <2>2, <2>3
<1>9. CASE NotPosted
  BY <1>9 DEF NotPosted
<1>10. CASE PostRequest
  BY <1>10 DEF PostRequest
<1>11. CASE EndPerform
  BY <1>a, <1>11 DEF EndPerform, Performing
<1>12. CASE CheckResponse
  BY <1>12 DEF CheckResponse
<1>13. CASE Respond
  <2>1. PICK k \in Keys, n \in Nonces, t \in Replies :
          coming' = {[msg |-> Seal(k, n, t), at |-> 0]} /\ heard' = Append(heard, Seal(k, n, t))
    BY <1>13 DEF Respond
  <2>2. Seal(k, n, t) \in Seals
    BY ONLY SealIn
  <2>3. /\ \A i \in DOMAIN heard : i \in DOMAIN heard' /\ heard'[i] = heard[i]
        /\ \E i \in DOMAIN heard' : heard'[i] = Seal(k, n, t)
    BY ONLY <1>a, <2>1, <2>2, HearMore
  <2>4. \A c \in coming' : c.msg = Seal(k, n, t)
    BY ONLY <2>1
  <2>5. /\ UNCHANGED <<key, pc, mode, resp, plain, returned>>
        /\ pc = "perform"
    BY <1>13 DEF Respond, Performing
  <2> QED
    BY <2>3, <2>4, <2>5
<1>14. CASE OnHeader
  <2>1. PICK c \in coming :
          \/ \E x \in {Hex(c.msg.nonce), NotHex} : resp' = [resp EXCEPT !.nonce = x]
          \/ \E x \in {Hex(c.msg.tag), NotHex} : resp' = [resp EXCEPT !.tag = x]
    BY <1>14 DEF OnHeader
  <2>2. resp'.tag.bytes \subseteq resp.tag.bytes \cup {c.msg.tag}
    BY <1>a, <2>1, HeaderKept
  <2>3. \E i \in DOMAIN heard : heard[i].tag = c.msg.tag
    BY <2>1
  <2> QED
    BY <1>14, <2>2, <2>3 DEF OnHeader, Performing
<1>15. CASE OnData
  <2>1. PICK c \in coming :
          resp' = [resp EXCEPT !.body = Append(@, c.msg.body[c.at + 1])]
          /\ coming' = {[c EXCEPT !.at = @ + 1]}
    BY <1>15 DEF OnData
  <2>2. \A d \in coming' : d.msg = c.msg
    BY <2>1 DEF AgentTypeOK
  <2>3. resp'.tag = resp.tag
    BY <1>a, <2>1
  <2>4. UNCHANGED <<key, pc, mode, plain, returned, heard>> /\ pc = "perform"
    BY <1>15 DEF OnData, Performing
  <2> QED
    BY <2>2, <2>3, <2>4
<1> QED
  BY <1>1, <1>2, <1>3, <1>4, <1>5, <1>6, <1>7, <1>8, <1>9, <1>10, <1>11, <1>12, <1>13,
     <1>14, <1>15 DEF AgentNext, ClientStep, Cipher
-----------------------------------------------------------------------------
(* Types *)

\* The parts of AgentTypeOK, without the arithmetic of the slots.
SealerTypes ==
  /\ key \in Keys /\ text \in Documents \cup {""}
  /\ pc \in {"idle", "random", "import", "omacs", "ctrKey", "ctr", "mac", "verify",
             "post", "perform", "check"}
  /\ mode \in {"encrypt", "decrypt"}
  /\ enc \in Results /\ wire \in SUBSET Results

OpenerTypes ==
  /\ resp \in [nonce : Headers(Nonces), tag : Headers(Tags), body : Bodies, ok : BOOLEAN]
  /\ coming \in SUBSET [msg : Seals, at : 0..2] /\ heard \in Seq(Seals)
  /\ {plain, returned} \subseteq Replies \cup {"", "garbage"}
  /\ mode = "decrypt" /\ pc /= "idle" =>
       resp.nonce.bytes /= {} /\ resp.tag.bytes /= {}

\* An empty result has the type of a result.
LEMMA UnsealedType == Unsealed \in Results
<1>1. <<>> \in Bodies
  BY EmptySeq DEF Bodies
<1>2. Tag("", "", <<>>) \in Tags
  BY <1>1 DEF Tag, Tags
<1> QED
  BY <1>1, <1>2 DEF Unsealed, Results

\* A result in all its stages: nothing, noise, a ciphertext, a tag.
LEMMA ResultTypes ==
  ASSUME NEW r \in Results, NEW k \in Keys
  PROVE  /\ Unsealed \in Results
         /\ <<Noise>> \in Bodies /\ <<>> \in Bodies
         /\ Tag(k, r.nonce, r.body) \in Tags
         /\ \A b \in Bodies : [r EXCEPT !.body = b] \in Results
         /\ \A t \in Tags : [r EXCEPT !.tag = t] \in Results
<1>2. Noise \in Piecemeal
  BY Parts DEF Noise, Piece, Piecemeal
<1>3. <<Noise>> \in Seq(Piecemeal)
  BY ONLY <1>2, SingletonIsSeq
<1>4. <<Noise>> \in Bodies /\ <<>> \in Bodies
  BY <1>3, EmptySeq DEF Bodies, Piecemeal
<1>7. Tag(k, r.nonce, r.body) \in Tags
  BY DEF Tag, Tags, Results
<1> QED
  BY <1>4, <1>7, UnsealedType DEF Results

\* The record of the result keeps its type.
LEMMA SealerKept ==
  ASSUME SealerTypes, AgentNext
  PROVE  SealerTypes'
<1> USE DEF SealerTypes, Return, LeaveCipher, clientState, netState
<1>1. CASE Post
  BY <1>1, ResultTypes DEF Post
<1>2. CASE GenerateNonce
  BY <1>2 DEF GenerateNonce, Results
<1>3. CASE ImportMacKey \/ Omacs \/ ImportCtrKey
  BY <1>3 DEF ImportMacKey, Omacs, ImportCtrKey
<1>6. CASE CtrCrypt
  <2>1. Ctr(key, enc.nonce, text) \in Bodies
    BY CtrType DEF Results
  <2>2. enc' \in {enc, [enc EXCEPT !.body = Ctr(key, enc.nonce, text)],
                  [enc EXCEPT !.body = <<Noise>>]}
    BY <1>6 DEF CtrCrypt
  <2>3. enc' \in Results
    BY ONLY <2>1, <2>2, ResultTypes, SealerTypes DEF SealerTypes
  <2>4. key' = key /\ text' = text /\ mode' = mode /\ wire' = wire
        /\ pc' \in {"mac", "post", "idle"}
    BY <1>6 DEF CtrCrypt
  <2> QED
    BY <2>3, <2>4
<1>7. CASE MacBody
  <2>2. enc' \in {enc, [enc EXCEPT !.tag = Tag(key, enc.nonce, enc.body)],
                  [enc EXCEPT !.body = <<>>]}
    BY <1>7 DEF MacBody
  <2>3. enc' \in Results
    BY ONLY <2>2, ResultTypes, SealerTypes DEF SealerTypes
  <2>4. key' = key /\ text' = text /\ mode' = mode /\ wire' = wire
        /\ pc' \in {"verify", "post", "idle"}
    BY <1>7 DEF MacBody
  <2> QED
    BY <2>3, <2>4
<1>8. CASE Verify \/ NotPosted
  BY <1>8 DEF Verify, NotPosted
<1>10. CASE PostRequest
  BY <1>10 DEF PostRequest
<1>11. CASE EndPerform \/ CheckResponse
  BY <1>11 DEF EndPerform, CheckResponse
<1>13. CASE Respond \/ OnHeader \/ OnData
  BY <1>13 DEF Respond, OnHeader, OnData
<1> QED
  BY <1>1, <1>2, <1>3, <1>6, <1>7, <1>8, <1>10, <1>11, <1>13
     DEF AgentNext, ClientStep, Cipher

\* The headers of a response, intact or not hex.
LEMMA HeaderTypes ==
  ASSUME NEW s \in Seals
  PROVE  /\ {Hex(s.nonce), NotHex} \subseteq Headers(Nonces)
         /\ {Hex(s.tag), NotHex} \subseteq Headers(Tags)
<1>1. s.nonce \in Nonces /\ s.tag \in Tags
  BY SealType
<1> QED
  BY <1>1 DEF Headers, Hex, NotHex

\* A piece that is left is numbered.
LEMMA NextPart ==
  ASSUME NEW len \in {0, 2}, NEW i \in 0..2, i < len
  PROVE  i + 1 \in 1..len /\ i + 1 \in 0..2
OBVIOUS

\* What is left of a response is a piece of it.
LEMMA PieceOfSeal ==
  ASSUME NEW s \in Seals, NEW i \in 0..2, i < Len(s.body)
  PROVE  s.body[i + 1] \in Piecemeal /\ i + 1 \in 0..2
<1>1. PICK k \in Keys, n \in Nonces, t \in Replies : s = Seal(k, n, t)
  BY DEF Seals
<1>2. s.body \in Seq(Piecemeal)
  BY SealType DEF Bodies, Piecemeal
<1>3. Len(Ctr(k, n, t)) \in {0, 2}
  BY DEF Ctr
<1>4. Len(s.body) \in {0, 2}
  BY <1>1, <1>3 DEF Seal
<1>5. i + 1 \in 1..Len(s.body) /\ i + 1 \in 0..2
  <2>1. i < Len(s.body)
    OBVIOUS
  <2> QED
    BY ONLY <1>4, <2>1, NextPart
<1> QED
  BY <1>2, <1>5, ElementOfSeq

\* The record of the response keeps its type.
LEMMA OpenerKept ==
  ASSUME OpenerTypes, Held, Hearing, AgentNext
  PROVE  OpenerTypes'
<1> USE DEF OpenerTypes, Return, LeaveCipher, clientState, netState
<1>1. CASE Post
  BY <1>1, EmptySeq DEF Post, NoResponse, Missing, Headers, Bodies
<1>2. CASE GenerateNonce \/ ImportMacKey \/ Omacs \/ ImportCtrKey
  BY <1>2 DEF GenerateNonce, ImportMacKey, Omacs, ImportCtrKey
<1>6. CASE CtrCrypt
  <2>1. plain' = plain \/ plain' = Opened(key, BytesOf(resp.nonce), resp.body)
    BY <1>6 DEF CtrCrypt
  <2>2. plain' \in Replies \cup {"", "garbage"}
    BY <2>1, OpenedType
  <2>3. UNCHANGED <<mode, resp, netState>> /\ returned' \in {"", returned} /\ pc /= "idle"
    BY <1>6 DEF CtrCrypt
  <2> QED
    BY <2>2, <2>3
<1>7. CASE MacBody
  BY <1>7 DEF MacBody
<1>8. CASE Verify \/ NotPosted \/ PostRequest
  BY <1>8 DEF Verify, NotPosted, PostRequest
<1>11. CASE EndPerform
  BY <1>11 DEF EndPerform, Performing, Held
<1>12. CASE CheckResponse
  BY <1>12 DEF CheckResponse, Acceptable
<1>13. CASE Respond
  <2>1. PICK k \in Keys, n \in Nonces, t \in Replies :
          coming' = {[msg |-> Seal(k, n, t), at |-> 0]} /\ heard' = Append(heard, Seal(k, n, t))
    BY <1>13 DEF Respond
  <2>2. Seal(k, n, t) \in Seals
    BY ONLY SealIn
  <2>3. heard' \in Seq(Seals)
    BY ONLY <2>1, <2>2, AppendProperties, OpenerTypes DEF OpenerTypes
  <2>4. coming' \subseteq [msg : Seals, at : 0..2]
    BY ONLY <2>1, <2>2, Parts
  <2>5. UNCHANGED <<pc, mode, resp, plain, returned>>
    BY <1>13 DEF Respond
  <2> QED
    BY <2>3, <2>4, <2>5
<1>14. CASE OnHeader
  <2>1. PICK c \in coming :
          \/ \E x \in {Hex(c.msg.nonce), NotHex} : resp' = [resp EXCEPT !.nonce = x]
          \/ \E x \in {Hex(c.msg.tag), NotHex} : resp' = [resp EXCEPT !.tag = x]
    BY <1>14 DEF OnHeader
  <2>2. c.msg \in Seals
    BY <2>1
  <2>3. /\ {Hex(c.msg.nonce), NotHex} \subseteq Headers(Nonces)
        /\ {Hex(c.msg.tag), NotHex} \subseteq Headers(Tags)
    BY ONLY <2>2, HeaderTypes
  <2>4. resp' \in [nonce : Headers(Nonces), tag : Headers(Tags), body : Bodies, ok : BOOLEAN]
    BY <2>1, <2>3
  <2>5. UNCHANGED <<pc, mode, plain, returned, coming, heard>> /\ mode = "encrypt"
    BY <1>14 DEF OnHeader, Performing, Held
  <2> QED
    BY <2>4, <2>5
<1>15. CASE OnData
  <2>1. PICK c \in coming :
          /\ c.at < Len(c.msg.body)
          /\ resp' = [resp EXCEPT !.body = Append(@, c.msg.body[c.at + 1])]
          /\ coming' = {[c EXCEPT !.at = @ + 1]}
    BY <1>15 DEF OnData
  <2>2. c.msg \in Seals /\ c.at \in 0..2
    BY <2>1
  <2>3. /\ c.msg.body[c.at + 1] \in Piecemeal
        /\ c.at + 1 \in 0..2
    BY ONLY <2>1, <2>2, PieceOfSeal
  <2>4. resp' \in [nonce : Headers(Nonces), tag : Headers(Tags), body : Bodies, ok : BOOLEAN]
    BY <2>1, <2>3, AppendProperties DEF Bodies, Piecemeal
  <2>5. coming' \subseteq [msg : Seals, at : 0..2]
    BY <2>1, <2>2, <2>3
  <2>6. UNCHANGED <<pc, mode, plain, returned, heard>> /\ mode = "encrypt"
    BY <1>15 DEF OnData, Performing, Held
  <2> QED
    BY <2>4, <2>5, <2>6
<1> QED
  BY <1>1, <1>2, <1>6, <1>7, <1>8, <1>11, <1>12, <1>13, <1>14, <1>15
     DEF AgentNext, ClientStep, Cipher
-----------------------------------------------------------------------------
(* Theorems *)

\* The halves of AgentTypeOK.
LEMMA TypesSplit ==
  ASSUME AgentTypeOK
  PROVE  SealerTypes /\ OpenerTypes
BY DEF AgentTypeOK, SealerTypes, OpenerTypes

\* The invariant holds initially.
LEMMA AgentInvStarts == ASSUME AgentInit PROVE AgentInv
<1>1. Held /\ slots \in 0..KeySlots
  <2>1. 0 \in 0..KeySlots
    BY BoundsAssumption DEF BoundsAssumption
  <2> QED
    BY <2>1 DEF AgentInit, Held
<1>2. Sealing
  BY DEF AgentInit, Sealing, SealedOrBare, Unsealed, Tag
<1>3. Hearing
  BY DEF AgentInit, Hearing, AnswerAuthentic, NoResponse, Missing
<1>4. SealerTypes
  <2>1. enc = Unsealed /\ key \in Keys
    BY DEF AgentInit
  <2>2. Unsealed \in Results
    BY UnsealedType
  <2> QED
    BY <2>1, <2>2 DEF AgentInit, SealerTypes
<1>5. OpenerTypes
  BY EmptySeq DEF AgentInit, OpenerTypes, NoResponse, Missing, Headers, Bodies
<1> QED
  BY <1>1, <1>2, <1>3, <1>4, <1>5
     DEF AgentInit, AgentInv, AgentTypeOK, SealerTypes, OpenerTypes

\* Every step keeps the invariant.
LEMMA AgentInvKept ==
  ASSUME AgentInv, [AgentNext]_agentVars
  PROVE  AgentInv'
<1>1. CASE AgentNext
  <2>1. AgentTypeOK /\ Held /\ Sealing /\ Hearing /\ SealerTypes /\ OpenerTypes
    BY TypesSplit DEF AgentInv
  <2>2. Held' /\ slots' \in 0..KeySlots
    BY ONLY <1>1, <2>1, HeldKept
  <2>3. Sealing' /\ Hearing'
    BY ONLY <1>1, <2>1, SealingKept, HearingKept
  <2>4. SealerTypes' /\ OpenerTypes'
    BY ONLY <1>1, <2>1, SealerKept, OpenerKept
  <2>5. AgentTypeOK'
    <3>1. handle' \in BOOLEAN
      BY <2>2 DEF Held
    <3> QED
      BY <2>2, <2>4, <3>1 DEF AgentTypeOK, SealerTypes, OpenerTypes
  <2> QED
    BY <2>2, <2>3, <2>5 DEF AgentInv
<1>2. CASE UNCHANGED agentVars
  <2> USE <1>2 DEF agentVars, clientState, netState
  <2>1. AgentTypeOK'
    BY DEF AgentInv, AgentTypeOK
  <2>2. Held'
    BY DEF AgentInv, Held
  <2>3. Sealing'
    BY DEF AgentInv, Sealing, SealedOrBare
  <2>4. Hearing'
    BY DEF AgentInv, Hearing, AnswerAuthentic
  <2> QED
    BY <2>1, <2>2, <2>3, <2>4 DEF AgentInv
<1> QED
  BY <1>1, <1>2

\* Everything below rests on this: AgentInv is inductive.
THEOREM AgentInvHolds == AgentSpec => []AgentInv
BY AgentInvStarts, AgentInvKept, PTL DEF AgentSpec

\* Every variable keeps its type, and decryption gets whole nonces and tags.
THEOREM AgentTypeCorrect == AgentSpec => []AgentTypeOK
<1>1. AgentInv => AgentTypeOK
  BY DEF AgentInv
<1> QED
  BY AgentInvHolds, <1>1, PTL

\* Whatever fails along the way, a call gives back its key slots and its client.
THEOREM CallReleases == AgentSpec => []Released
<1>1. AgentInv => Released
  BY DEF AgentInv, Held, Released
<1> QED
  BY AgentInvHolds, <1>1, PTL

\* A call returns what a holder of its key said in one response to this call,
\* whatever was cut short or mixed with another response.
THEOREM AnswersAreAuthentic == AgentSpec => []AnswerAuthentic
<1>1. AgentInv => AnswerAuthentic
  BY DEF AgentInv, Hearing
<1> QED
  BY AgentInvHolds, <1>1, PTL

\* Whoever has the key and accepts what was posted reads this call's document.
THEOREM PostsOpenToDocument == AgentSpec => []OpensToDocument
<1>1. AgentInv => OpensToDocument
  <2>1. ASSUME AgentInv, NEW w \in wire, w.tag = Tag(key, w.nonce, w.body)
        PROVE  w = Seal(key, w.nonce, text)
    <3>1. key /= ""
      BY <2>1, ClientAssumption DEF AgentInv, AgentTypeOK, ClientAssumption
    <3>2. w.tag.key = key
      BY <2>1 DEF Tag
    <3> QED
      BY <2>1, <3>1, <3>2 DEF AgentInv, Sealing, SealedOrBare
  <2> QED
    BY <2>1 DEF OpensToDocument
<1> QED
  BY AgentInvHolds, <1>1, PTL
-----------------------------------------------------------------------------
(* The refinement of Exchange *)

\* Two sealed texts that look alike are one text.
LEMMA SealsApart ==
  ASSUME NEW k, NEW n, NEW t, NEW kk, NEW nn, NEW u, u /= "",
         Seal(k, n, t) = Seal(kk, nn, u)
  PROVE  t = u
<1>1. Ctr(k, n, t) = Ctr(kk, nn, u)
  BY DEF Seal
<1>2. Ctr(kk, nn, u) = <<Piece(kk, nn, u, 1), Piece(kk, nn, u, 2)>>
  BY DEF Ctr
<1>3. t /= ""
  BY <1>1, <1>2 DEF Ctr
<1>4. Piece(k, n, t, 1) = Piece(kk, nn, u, 1)
  BY <1>1, <1>2, <1>3 DEF Ctr
<1> QED
  BY <1>4 DEF Piece

\* What is returned and was heard is a reply.
LEMMA AnswerIsReply ==
  ASSUME NEW h \in Seq(Seals), NEW i \in DOMAIN h, NEW k, NEW n, NEW u, u /= "",
         h[i] = Seal(k, n, u)
  PROVE  u \in Replies
<1>1. PICK kk \in Keys, m \in Nonces, t \in Replies : h[i] = Seal(kk, m, t)
  BY HeardSeal
<1>2. t = u
  BY ONLY <1>1, u /= "", h[i] = Seal(k, n, u), SealsApart
<1> QED
  BY <1>2

\* A response adds at most one text to what was said.
LEMMA SaidGrows ==
  ASSUME NEW k \in Keys, NEW n \in Nonces, NEW t \in Replies, heard \in Seq(Seals),
         heard' = Append(heard, Seal(k, n, t)), key' = key
  PROVE  Said' = Said \/ \E u \in Replies : Said' = Said \cup {u}
<1>1. Seal(k, n, t) \in Seals
  BY ONLY SealIn
<1>2. /\ \A i \in DOMAIN heard : i \in DOMAIN heard' /\ heard'[i] = heard[i]
      /\ \A i \in DOMAIN heard' : heard'[i] = Seal(k, n, t)
                                  \/ (i \in DOMAIN heard /\ heard'[i] = heard[i])
  <2>1. DOMAIN heard = 1..Len(heard) /\ Len(heard) \in Nat
    BY LenProperties
  <2>2. DOMAIN heard' = 1..(Len(heard) + 1)
    BY <1>1, AppendProperties, LenProperties
  <2>3. \A i \in 1..(Len(heard) + 1) : i \in 1..Len(heard) \/ i = Len(heard) + 1
    BY <2>1
  <2>4. \A i \in 1..Len(heard) : i \in 1..(Len(heard) + 1)
    BY <2>1
  <2> QED
    BY <1>1, <2>1, <2>2, <2>3, <2>4, AppendProperties
<1>3. Said \subseteq Said'
  BY <1>2 DEF Said
<1>4. \A u \in Said' \ Said : u \in Replies /\ \E m \in Nonces : Seal(k, n, t) = Seal(key, m, u)
  BY <1>2 DEF Said
<1>5. \A u \in Said' \ Said, v \in Said' \ Said : u = v
  <2>1. SUFFICES ASSUME NEW u \in Said' \ Said, NEW v \in Said' \ Said PROVE u = v
    OBVIOUS
  <2>2. PICK m \in Nonces : Seal(k, n, t) = Seal(key, m, u)
    BY <1>4
  <2>3. PICK l \in Nonces : Seal(k, n, t) = Seal(key, l, v)
    BY <1>4
  <2>a. Seal(key, m, u) = Seal(key, l, v)
    BY ONLY <2>2, <2>3
  <2>4. CASE v /= ""
    BY ONLY <2>a, <2>4, SealsApart
  <2>5. CASE u /= ""
    BY ONLY <2>a, <2>5, SealsApart
  <2> QED
    BY <2>4, <2>5
<1>6. CASE Said' \ Said = {}
  BY <1>3, <1>6
<1>7. CASE Said' \ Said /= {}
  <2>1. PICK u \in Said' \ Said : TRUE
    BY <1>7
  <2>2. u \in Replies
    BY <1>4
  <2>3. Said' = Said \cup {u}
    BY <1>3, <1>5, <2>1
  <2> QED
    BY <2>2, <2>3
<1> QED
  BY <1>6, <1>7

\* Most steps are inside a call, or end it with what was said or nothing.
LEMMA CallGoesOn ==
  ASSUME key' = key, heard' = heard, pc /= "idle",
         \/ pc' /= "idle" /\ returned' = returned
         \/ pc' = "idle" /\ returned' \in Said \cup {""}
  PROVE  [Abstract!ExchangeNext]_(Abstract!exchangeVars)
<1>1. Said' = Said
  BY DEF Said
<1>2. CASE pc' /= "idle" /\ returned' = returned
  BY <1>1, <1>2 DEF Abstract!exchangeVars
<1>3. CASE pc' = "idle" /\ returned' \in Said \cup {""}
  BY <1>1, <1>3 DEF Abstract!ExchangeNext, Abstract!Finish
<1> QED
  BY <1>2, <1>3

\* Every step of a call is a step of Exchange, or none.
LEMMA StepImplements ==
  ASSUME AgentInv, AgentInv', [AgentNext]_agentVars
  PROVE  [Abstract!ExchangeNext]_(Abstract!exchangeVars)
<1>a. AgentTypeOK /\ Held /\ Hearing /\ AgentTypeOK' /\ AnswerAuthentic'
  BY DEF AgentInv, Hearing
<1>1. CASE Post
  <2>1. Said' = {}
    <3>1. heard' = <<>>
      BY <1>1 DEF Post
    <3>2. DOMAIN heard' = {}
      BY ONLY <3>1
    <3> QED
      BY <3>2 DEF Said
  <2>2. pc = "idle" /\ pc' /= "idle" /\ key' \in Keys /\ returned' = ""
    BY <1>1 DEF Post
  <2> QED
    BY <2>1, <2>2 DEF Abstract!ExchangeNext, Abstract!Call
<1>2. CASE Cipher \/ Verify \/ NotPosted \/ PostRequest \/ EndPerform \/ CheckResponse
  <2>1. key' = key /\ heard' = heard /\ pc /= "idle"
    BY <1>2 DEF Cipher, GenerateNonce, ImportMacKey, Omacs, ImportCtrKey, CtrCrypt, MacBody,
       Verify, NotPosted, PostRequest, EndPerform, Performing, CheckResponse, netState
  <2>2. pc' /= "idle" => returned' = returned
    BY <1>2 DEF Cipher, GenerateNonce, ImportMacKey, Omacs, ImportCtrKey, CtrCrypt, MacBody,
       Verify, NotPosted, PostRequest, EndPerform, CheckResponse, Return, LeaveCipher
  <2>3. pc' = "idle" => returned' \in Said \cup {""}
    <3>1. SUFFICES ASSUME pc' = "idle", returned' /= "" PROVE returned' \in Said
      OBVIOUS
    <3>2. PICK i \in DOMAIN heard : \E n \in Nonces : heard[i] = Seal(key, n, returned')
      BY <1>a, <2>1, <3>1 DEF AnswerAuthentic
    <3>3. PICK n \in Nonces : heard[i] = Seal(key, n, returned')
      BY <3>2
    <3>4. heard \in Seq(Seals)
      BY <1>a DEF AgentTypeOK
    <3>5. returned' \in Replies
      BY ONLY <3>1, <3>3, <3>4, AnswerIsReply
    <3> QED
      BY <3>3, <3>5 DEF Said
  <2> QED
    BY ONLY <2>1, <2>2, <2>3, CallGoesOn
<1>3. CASE Respond
  <2>1. PICK k \in Keys, n \in Nonces, t \in Replies : heard' = Append(heard, Seal(k, n, t))
    BY <1>3 DEF Respond
  <2>2. pc' = pc /\ key' = key /\ returned' = returned /\ pc /= "idle"
    BY <1>3 DEF Respond, Performing, clientState
  <2>3. Said' = Said \/ \E u \in Replies : Said' = Said \cup {u}
    BY ONLY <1>a, <2>1, <2>2, SaidGrows DEF AgentTypeOK
  <2>4. CASE Said' = Said
    BY <2>2, <2>4 DEF Abstract!exchangeVars
  <2>5. CASE \E u \in Replies : Said' = Said \cup {u}
    BY <2>2, <2>5 DEF Abstract!ExchangeNext, Abstract!Say
  <2> QED
    BY <2>3, <2>4, <2>5
<1>4. CASE OnHeader \/ OnData
  <2>1. key' = key /\ heard' = heard /\ pc' = pc /\ returned' = returned /\ pc /= "idle"
    BY <1>4 DEF OnHeader, OnData, Performing, netState
  <2> QED
    BY ONLY <2>1, CallGoesOn
<1>5. CASE UNCHANGED agentVars
  <2>1. key' = key /\ heard' = heard /\ pc' = pc /\ returned' = returned
    BY <1>5 DEF agentVars, clientState, netState
  <2>2. Said' = Said
    BY <2>1 DEF Said
  <2> QED
    BY <2>1, <2>2 DEF Abstract!exchangeVars
<1> QED
  BY <1>1, <1>2, <1>3, <1>4, <1>5 DEF AgentNext, ClientStep

\* Sealing, posting, collecting, checking and opening with all their failures
\* are to the caller one exchange that returns nothing but what was said to it.
THEOREM ClientIsExchange == AgentSpec => ImplementsExchange
<1>1. AgentInit => Abstract!ExchangeInit
  <2>1. ASSUME AgentInit PROVE Said = {}
    <3>1. heard = <<>>
      BY <2>1 DEF AgentInit
    <3>2. DOMAIN heard = {}
      BY ONLY <3>1
    <3> QED
      BY <3>2 DEF Said
  <2> QED
    BY <2>1 DEF AgentInit, Abstract!ExchangeInit
<1>2. AgentInv /\ AgentInv' /\ [AgentNext]_agentVars
        => [Abstract!ExchangeNext]_(Abstract!exchangeVars)
  BY StepImplements
<1> QED
  BY AgentInvHolds, <1>1, <1>2, PTL
     DEF AgentSpec, ImplementsExchange, Abstract!ExchangeSpec
=============================================================================
