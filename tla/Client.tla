------------------------------- MODULE Client -------------------------------
(***************************************************************************)
(* The credential protocol operations of ykhsmauth.c: every call that     *)
(* sends one command frame and interprets one reply.  A call takes two    *)
(* steps, split at SCardTransmit: the send step is argument validation    *)
(* and the whole add_tag sequence; the reply step is send_data's status   *)
(* word split, translate_error and the writes to the caller's outputs.    *)
(* The card is the environment: its reply is any element of Replies.  The *)
(* library keeps no state between calls, so the variables describe the   *)
(* latest call, and Return hands its result back to the caller.           *)
(***************************************************************************)
EXTENDS Integers, Sequences, Tlv, Transport

CONSTANTS
    PW_LEN, MIN_LABEL_LEN, MAX_LABEL_LEN, SESSION_KEY_LEN, CARD_CRYPTO_LEN,
    ECP256_PUBKEY_LEN, ECP256_PRIVKEY_LEN,   \* protocol constants of ykhsmauth.h
    AES128_ALGO, ECP256_ALGO,
    TAG_MGMKEY, TAG_LABEL, TAG_ALGO, TAG_KEY_ENC, TAG_KEY_MAC, TAG_PRIVKEY,
    TAG_PW, TAG_TOUCH, TAG_CONTEXT, TAG_PUBKEY, TAG_RESPONSE,
    RecvCap,          \* sizeof(data) of the reply buffer: 256
    \* Small input domains the caller draws from:
    LabelLens, MgmkeyLens, KeyLens, PwLens, Algos, Touches,
    ContextLens, PubkeyLens, CryptoLens, CapLens, VersionLens,
    RawLens,          \* total reply lengths, status word included
    StatusWords       \* status words the card may answer with

NULL == -1            \* a NULL pointer argument, for optional buffers

VARIABLES
    op,       \* the latest call, or "none"
    phase,    \* "idle", "sent" (frame handed to send_data) or "done"
    args,     \* its arguments
    apdu,     \* the command frame it built, while it is being sent
    reply,    \* the card's reply to it
    rc,       \* the ykhsmauth_rc it returned
    out       \* what it wrote to the caller's output parameters

vars == <<op, phase, args, apdu, reply, rc, out>>

(* Argument contents: one byte pattern per buffer, so that fields can be  *)
(* told apart on the wire; the key counts up so its halves differ.        *)
Mgmkey(n)    == Fill(n, 77)
NewMgmkey(n) == Fill(n, 78)
Label(n)     == Fill(n, 97)
Key(n)       == [i \in 1..n |-> i % 256]
Pw(n)        == Fill(n, 119)
Context(n)   == Fill(n, 99)
Pubkey(n)    == Fill(n, 112)
Crypto(n)    == Fill(n, 114)

(* The card's reply: SCardTransmit fails (ok = FALSE), or returns `raw'    *)
(* bytes, the last two of which are the status word.  No handler reads   *)
(* the payload of a reply whose status word is not 9000, so such replies *)
(* are drawn with an empty payload only.                                 *)
Replies ==
    {[ok |-> FALSE, raw |-> 0, sw |-> 0]}
    \cup {[ok |-> TRUE, raw |-> r, sw |-> 0] : r \in RawLens \cap {0, 1}}
    \cup {[ok |-> TRUE, raw |-> 2, sw |-> s] : s \in StatusWords \ {SW_SUCCESS}}
    \cup {[ok |-> TRUE, raw |-> r, sw |-> SW_SUCCESS] : r \in RawLens \ {0, 1}}

\* The reply payload: byte i of data[] is i mod 256.
Payload(n) == [i \in 1..n |-> i % 256]

\* data[]: SCardTransmit writes the payload and then the status word bytes.
RecvData(r) == Payload(r.raw - 2) \o <<r.sw \div 256, r.sw % 256>>

NoOut == [retries |-> NoWrite, keys |-> <<>>, buf |-> <<>>, bufLen |-> NoWrite]

LabelOk(n) == n >= MIN_LABEL_LEN /\ n <= MAX_LABEL_LEN

(* A call is two steps, split where it hands its frame to SCardTransmit: *)
(* Send validates and encodes; the reply step, the only one enabled next, *)
(* interprets the card's answer and writes the outputs.                  *)

\* A call rejected by its argument checks: nothing is sent.
Rejected(name, a) ==
    /\ phase = "idle"
    /\ op' = name /\ args' = a /\ phase' = "done" /\ apdu' = EmptyApdu
    /\ reply' = NoReply /\ rc' = "INVALID_PARAMS" /\ out' = NoOut

\* A call that passed its checks hands frame f to send_data.
Send(name, a, f) ==
    /\ phase = "idle"
    /\ op' = name /\ args' = a /\ phase' = "sent" /\ apdu' = f
    /\ UNCHANGED <<reply, rc, out>>

\* The reply step of call `name' for reply r.
Answer(name, r, result, o) ==
    /\ phase = "sent" /\ op = name
    /\ phase' = "done" /\ apdu' = EmptyApdu
    /\ reply' = r /\ rc' = result /\ out' = o
    /\ UNCHANGED <<op, args>>

Init ==
    /\ op = "none" /\ phase = "idle" /\ args = [nul |-> FALSE]
    /\ apdu = EmptyApdu /\ reply = NoReply /\ rc = "SUCCESS" /\ out = NoOut

-----------------------------------------------------------------------------
(* ykhsmauth_put *)
PutArgs == [mgmkeyLen : MgmkeyLens, labelLen : LabelLens, algo : Algos,
            keyLen : KeyLens, cpwLen : PwLens, touch : Touches, nul : BOOLEAN]

PutValid(a) ==
    /\ ~a.nul /\ a.mgmkeyLen = PW_LEN /\ LabelOk(a.labelLen)
    /\ a.keyLen <= ECP256_PRIVKEY_LEN /\ a.cpwLen <= PW_LEN

\* The key field(s): two halves of key_len / 2 bytes for AES, the whole key
\* for EC P-256, none for any other algorithm byte.
PutKeyTags(f, a) ==
    LET h == a.keyLen \div 2
    IN  CASE a.algo = AES128_ALGO ->
               AddTag(AddTag(f, TAG_KEY_ENC, SubSeq(Key(a.keyLen), 1, h), 0),
                      TAG_KEY_MAC, SubSeq(Key(a.keyLen), h + 1, h + h), 0)
          [] a.algo = ECP256_ALGO -> AddTag(f, TAG_PRIVKEY, Key(a.keyLen), 0)
          [] OTHER -> f

PutApdu(a) ==
    LET f == AddTag(AddTag(AddTag(EmptyApdu,
                 TAG_MGMKEY, Mgmkey(a.mgmkeyLen), 0),
                 TAG_LABEL, Label(a.labelLen), 0),
                 TAG_ALGO, <<a.algo>>, 0)
    IN  AddTag(AddTag(PutKeyTags(f, a),
            TAG_PW, Pw(a.cpwLen), PW_LEN - a.cpwLen),
            TAG_TOUCH, <<a.touch>>, 0)

Put ==
    /\ phase = "idle"
    /\ \E a \in PutArgs :
        \/ ~PutValid(a) /\ Rejected("put", a)
        \/ PutValid(a) /\ Send("put", a, PutApdu(a))

\* The tail put, delete and put_mgmkey share, for reply r: rc and *retries.
TailAnswer(name, r) ==
    Answer(name, r, Outcome(SendData(r)),
           [NoOut EXCEPT !.retries = RetriesOut(SendData(r))])

TailReply(name) ==
    /\ phase = "sent" /\ op = name
    /\ \E r \in Replies : TailAnswer(name, r)

PutReply == TailReply("put")

(* ykhsmauth_delete *)
DeleteArgs == [mgmkeyLen : MgmkeyLens, labelLen : LabelLens, nul : BOOLEAN]

\* Mutation variant of DeleteValid: mgmkey_len left unchecked.
DeleteValidAnyMgmkey(a) == ~a.nul /\ LabelOk(a.labelLen)

DeleteValid(a) == ~a.nul /\ a.mgmkeyLen = PW_LEN /\ LabelOk(a.labelLen)

DeleteApdu(a) ==
    AddTag(AddTag(EmptyApdu, TAG_MGMKEY, Mgmkey(a.mgmkeyLen), 0),
           TAG_LABEL, Label(a.labelLen), 0)

Delete ==
    /\ phase = "idle"
    /\ \E a \in DeleteArgs :
        \/ ~DeleteValid(a) /\ Rejected("delete", a)
        \/ DeleteValid(a) /\ Send("delete", a, DeleteApdu(a))

DeleteReply == TailReply("delete")

(* ykhsmauth_put_mgmkey *)
PutMgmkeyArgs == [mgmkeyLen : MgmkeyLens, newLen : MgmkeyLens, nul : BOOLEAN]

PutMgmkeyValid(a) == ~a.nul /\ a.mgmkeyLen = PW_LEN /\ a.newLen = PW_LEN

PutMgmkeyApdu(a) ==
    AddTag(AddTag(EmptyApdu, TAG_MGMKEY, Mgmkey(a.mgmkeyLen), 0),
           TAG_MGMKEY, NewMgmkey(a.newLen), 0)

PutMgmkey ==
    /\ phase = "idle"
    /\ \E a \in PutMgmkeyArgs :
        \/ ~PutMgmkeyValid(a) /\ Rejected("put_mgmkey", a)
        \/ PutMgmkeyValid(a) /\ Send("put_mgmkey", a, PutMgmkeyApdu(a))

PutMgmkeyReply == TailReply("put_mgmkey")

(* ykhsmauth_calculate *)
CalcArgs == [labelLen : LabelLens, contextLen : ContextLens,
             pubkeyPtr : BOOLEAN, pubkeyLen : PubkeyLens,
             cryptoPtr : BOOLEAN, cryptoLen : CryptoLens,
             pwLen : PwLens, keyLensOk : BOOLEAN, nul : BOOLEAN]

\* keyLensOk: key_s_enc_len, key_s_mac_len and key_s_rmac_len all equal
\* YKHSMAUTH_SESSION_KEY_LEN; nul: label, context, pw or a key buffer NULL.
CalcValid(a) ==
    /\ ~a.nul /\ LabelOk(a.labelLen)
    /\ a.contextLen <= 2 * ECP256_PUBKEY_LEN
    /\ a.pubkeyLen <= ECP256_PUBKEY_LEN
    /\ a.cryptoLen <= SESSION_KEY_LEN
    /\ a.pwLen <= PW_LEN
    /\ a.keyLensOk

CalcApdu(a) ==
    LET f2 == AddTag(AddTag(EmptyApdu, TAG_LABEL, Label(a.labelLen), 0),
                     TAG_CONTEXT, Context(a.contextLen), 0)
        f3 == IF a.pubkeyPtr /\ a.pubkeyLen > 0
              THEN AddTag(f2, TAG_PUBKEY, Pubkey(a.pubkeyLen), 0) ELSE f2
        f4 == IF a.cryptoPtr /\ a.cryptoLen > CARD_CRYPTO_LEN
              THEN AddTag(f3, TAG_RESPONSE, Crypto(a.cryptoLen), 0) ELSE f3
    IN  AddTag(f4, TAG_PW, Pw(a.pwLen), PW_LEN - a.pwLen)

\* Mutation variant of SessionKeys: ptr advanced one byte short.
SessionKeysShortStep(d) ==
    <<SubSeq(d, 1, SESSION_KEY_LEN),
      SubSeq(d, SESSION_KEY_LEN, 2 * SESSION_KEY_LEN - 1),
      SubSeq(d, 2 * SESSION_KEY_LEN - 1, 3 * SESSION_KEY_LEN - 2)>>

\* The three session keys copied out of data[], in order enc, mac, rmac.
SessionKeys(d) ==
    <<SubSeq(d, 1, SESSION_KEY_LEN),
      SubSeq(d, SESSION_KEY_LEN + 1, 2 * SESSION_KEY_LEN),
      SubSeq(d, 2 * SESSION_KEY_LEN + 1, 3 * SESSION_KEY_LEN)>>

Calculate ==
    /\ phase = "idle"
    /\ \E a \in CalcArgs :
        \/ ~CalcValid(a) /\ Rejected("calculate", a)
        \/ CalcValid(a) /\ Send("calculate", a, CalcApdu(a))

\* Any reply but exactly three session keys is a GENERIC_ERROR; the host
\* cryptogram a longer reply might carry is ignored.
CalcAnswer(r) ==
    LET sd  == SendData(r)
        res == IF Outcome(sd) # "SUCCESS" THEN Outcome(sd)
               ELSE IF sd.len # 3 * SESSION_KEY_LEN
               THEN "GENERIC_ERROR" ELSE "SUCCESS"
    IN  Answer("calculate", r, res,
               [NoOut EXCEPT !.retries = RetriesOut(sd),
                             !.keys = IF res = "SUCCESS"
                                      THEN SessionKeys(RecvData(r)) ELSE <<>>])

CalculateReply ==
    /\ phase = "sent" /\ op = "calculate"
    /\ \E r \in Replies : CalcAnswer(r)

(* ykhsmauth_reset: the result is chosen on sw alone, which send_data     *)
(* leaves 0 when SCardTransmit fails.                                     *)
Reset == Send("reset", [nul |-> FALSE], EmptyApdu)

ResetAnswer(r) ==
    LET sd == SendData(r)
    IN  Answer("reset", r,
               IF sd.sw # SW_SUCCESS THEN TranslateError(sd.sw) ELSE sd.rc,
               NoOut)

ResetReply ==
    /\ phase = "sent" /\ op = "reset"
    /\ \E r \in Replies : ResetAnswer(r)

(* ykhsmauth_get_version *)
RECURSIVE Decimal(_)
\* "%d" of a byte, as ASCII digit codes.
Decimal(n) == IF n < 10 THEN <<48 + n>> ELSE Decimal(n \div 10) \o <<48 + (n % 10)>>

\* snprintf(version, len, "%d.%d.%d", ...): at most len - 1 characters and
\* a NUL; its return value is never negative for this format, so the
\* "Version buffer too small" branch cannot be taken.
VersionString(d) == Decimal(d[1]) \o <<46>> \o Decimal(d[2]) \o <<46>> \o Decimal(d[3])
Snprintf(s, len) ==
    IF len = 0 THEN <<>>
    ELSE SubSeq(s, 1, IF len - 1 < Len(s) THEN len - 1 ELSE Len(s))

VersionArgs == [len : VersionLens, nul : BOOLEAN]

GetVersion ==
    /\ phase = "idle"
    /\ \E a \in VersionArgs :
        \/ a.nul /\ Rejected("get_version", a)
        \/ ~a.nul /\ Send("get_version", a, EmptyApdu)

GetVersionReply ==
    /\ phase = "sent" /\ op = "get_version"
    /\ \E r \in Replies :
        LET sd == SendData(r)
            ok == sd.rc = "SUCCESS" /\ sd.sw = SW_SUCCESS /\ sd.len = 3
        IN  Answer("get_version", r,
                   IF sd.rc # "SUCCESS" THEN sd.rc
                   ELSE IF ok THEN "SUCCESS" ELSE TranslateError(sd.sw),
                   IF ok THEN [NoOut EXCEPT !.buf = Snprintf(VersionString(RecvData(r)), args.len)]
                   ELSE NoOut)

(* ykhsmauth_get_challenge and ykhsmauth_get_pubkey: the same handler    *)
(* with a different instruction; `cap' is the caller's *len on entry.     *)
BlobArgs == [labelLen : LabelLens, cap : CapLens, nul : BOOLEAN]

BlobValid(a) == ~a.nul /\ LabelOk(a.labelLen) /\ a.cap >= ECP256_PUBKEY_LEN

GetBlob(name) ==
    /\ phase = "idle"
    /\ \E a \in BlobArgs :
        \/ ~BlobValid(a) /\ Rejected(name, a)
        \/ BlobValid(a) /\ Send(name, a, AddTag(EmptyApdu, TAG_LABEL, Label(a.labelLen), 0))

\* *len = recv_len; memcpy(buf, data, recv_len).
GetBlobReply(name) ==
    /\ phase = "sent" /\ op = name
    /\ \E r \in Replies :
        LET sd == SendData(r)
        IN  Answer(name, r, Outcome(sd),
                   IF Outcome(sd) = "SUCCESS"
                   THEN [NoOut EXCEPT !.buf = Payload(sd.len), !.bufLen = sd.len]
                   ELSE NoOut)

GetChallenge      == GetBlob("get_challenge")
GetChallengeReply == GetBlobReply("get_challenge")
GetPubkey         == GetBlob("get_pubkey")
GetPubkeyReply    == GetBlobReply("get_pubkey")

(* ykhsmauth_get_mgmkey_retries: *retries = data[0], whatever recv_len is *)
GetMgmkeyRetries ==
    /\ phase = "idle"
    /\ \E nul \in BOOLEAN :
        \/ nul /\ Rejected("get_mgmkey_retries", [nul |-> nul])
        \/ ~nul /\ Send("get_mgmkey_retries", [nul |-> nul], EmptyApdu)

GetMgmkeyRetriesReply ==
    /\ phase = "sent" /\ op = "get_mgmkey_retries"
    /\ \E r \in Replies :
        Answer("get_mgmkey_retries", r, Outcome(SendData(r)),
               IF Outcome(SendData(r)) = "SUCCESS"
               THEN [NoOut EXCEPT !.retries = RecvData(r)[1]] ELSE NoOut)

\* The call has returned and its caller has taken the results; the
\* library keeps nothing of it (each handler's APDU, data[] and sw are
\* locals).
Return ==
    /\ phase = "done"
    /\ op' = "none" /\ phase' = "idle" /\ args' = [nul |-> FALSE]
    /\ apdu' = EmptyApdu /\ reply' = NoReply /\ rc' = "SUCCESS" /\ out' = NoOut

-----------------------------------------------------------------------------
Next ==
    \/ Return
    \/ Put \/ Delete \/ PutMgmkey \/ Calculate \/ Reset
    \/ GetVersion \/ GetChallenge \/ GetPubkey \/ GetMgmkeyRetries
    \/ PutReply \/ DeleteReply \/ PutMgmkeyReply \/ CalculateReply
    \/ ResetReply \/ GetVersionReply \/ GetChallengeReply
    \/ GetPubkeyReply \/ GetMgmkeyRetriesReply

Spec == Init /\ [][Next]_vars

-----------------------------------------------------------------------------
(***************************************************************************)
(* Properties.                                                             *)
(***************************************************************************)
LOCAL INSTANCE SequencesExt

TypeOK ==
    /\ op \in {"none", "put", "delete", "put_mgmkey", "calculate", "reset",
               "get_version", "get_challenge", "get_pubkey", "get_mgmkey_retries"}
    /\ apdu \in [lc : Byte, data : Seq(Byte)]
    /\ phase \in {"idle", "sent", "done"}
    /\ reply \in Replies \cup {NoReply}
    /\ rc \in RetCodes
    /\ out \in [retries : {NoWrite} \cup Byte, keys : Seq(Seq(Byte)),
                buf : Seq(Byte), bufLen : {NoWrite} \cup Nat]

\* The fields spec section 4.3 lists for each command, in order, each as
\* <<tag, value>> with the password zero-padded to PW_LEN.
PwField(n) == Pw(n) \o Fill(PW_LEN - n, 0)

IntendedFields ==
    LET a == args
        h == IF op = "put" THEN a.keyLen \div 2 ELSE 0
        keyFields ==
            IF op # "put" THEN <<>>
            ELSE IF a.algo = AES128_ALGO
                 THEN <<<<TAG_KEY_ENC, [i \in 1..h |-> i]>>,
                        <<TAG_KEY_MAC, [i \in 1..h |-> h + i]>>>>
            ELSE IF a.algo = ECP256_ALGO THEN <<<<TAG_PRIVKEY, Key(a.keyLen)>>>>
            ELSE <<>>
    IN CASE op = "put" ->
              <<<<TAG_MGMKEY, Mgmkey(a.mgmkeyLen)>>, <<TAG_LABEL, Label(a.labelLen)>>,
                <<TAG_ALGO, <<a.algo>>>>>> \o keyFields
              \o <<<<TAG_PW, PwField(a.cpwLen)>>, <<TAG_TOUCH, <<a.touch>>>>>>
         [] op = "delete" ->
              <<<<TAG_MGMKEY, Mgmkey(a.mgmkeyLen)>>, <<TAG_LABEL, Label(a.labelLen)>>>>
         [] op = "put_mgmkey" ->
              <<<<TAG_MGMKEY, Mgmkey(a.mgmkeyLen)>>, <<TAG_MGMKEY, NewMgmkey(a.newLen)>>>>
         [] op = "calculate" ->
              <<<<TAG_LABEL, Label(a.labelLen)>>, <<TAG_CONTEXT, Context(a.contextLen)>>>>
              \o (IF a.pubkeyPtr /\ a.pubkeyLen > 0
                  THEN <<<<TAG_PUBKEY, Pubkey(a.pubkeyLen)>>>> ELSE <<>>)
              \o (IF a.cryptoPtr /\ a.cryptoLen > CARD_CRYPTO_LEN
                  THEN <<<<TAG_RESPONSE, Crypto(a.cryptoLen)>>>> ELSE <<>>)
              \o <<<<TAG_PW, PwField(a.pwLen)>>>>
         [] op \in {"get_challenge", "get_pubkey"} -> <<<<TAG_LABEL, Label(a.labelLen)>>>>
         [] OTHER -> <<>>

\* Bytes a field takes on the wire per spec section 6: tag, 1/2/3-byte
\* length, value.
FieldSize(f) == 1 + (IF Len(f[2]) <= 127 THEN 1 ELSE IF Len(f[2]) <= 255 THEN 2 ELSE 3)
                  + Len(f[2])
IntendedSize == FoldLeft(LAMBDA acc, f : acc + FieldSize(f), 0, IntendedFields)

(* Codec correctness (encode_len, add_tag, the uint8_t st.lc cursor, the  *)
(* lc + 5 bytes send_data transmits): whenever the fields of a call fit   *)
(* in st.data, the bytes the card receives decode, by the reference TLV   *)
(* decoder, to exactly those fields in order, multi-byte lengths included.*)
WireFrameDecodes ==
    phase = "sent" /\ IntendedSize <= DataCap => DecodeRecords(WireData(apdu)) = IntendedFields

(* The validation of every command keeps the fixed-size fields fixed on   *)
(* the wire: each management key field carries exactly PW_LEN bytes, each *)
(* password field PW_LEN bytes after padding, each label a length in      *)
(* [MIN_LABEL_LEN, MAX_LABEL_LEN], and a private key at most 32 bytes.    *)
FixedFieldsOnWire ==
    phase = "sent" =>
      LET recs == DecodeRecords(WireData(apdu))
      IN  recs # DecodeError =>
            \A i \in DOMAIN recs :
              /\ recs[i][1] \in {TAG_MGMKEY, TAG_PW} => Len(recs[i][2]) = PW_LEN
              /\ recs[i][1] = TAG_LABEL => LabelOk(Len(recs[i][2]))
              /\ recs[i][1] = TAG_PRIVKEY => Len(recs[i][2]) <= ECP256_PRIVKEY_LEN

(* A wrong-credential answer is any status word 63c0..63cf that reached  *)
(* the host whole (two bytes or more): put, delete, calculate and         *)
(* put_mgmkey then report WRONG_PW with *retries = the low nibble, and    *)
(* every other answer (63bf, 63d0, a short read, a transport error)       *)
(* leaves *retries unwritten and is not WRONG_PW (translate_error,        *)
(* ykhsmauth.c 65-69, after send_data's split at 175-180).  Stated over   *)
(* the raw reply, independently of the mask translate_error applies.     *)
RetriesOps == {"put", "delete", "calculate", "put_mgmkey"}
AuthFailedWords == SW_AUTHENTICATION_FAILED .. SW_AUTHENTICATION_FAILED + 15
RetriesReported ==
    phase = "done" /\ op \in RetriesOps =>
        LET wrongPw == reply.ok /\ reply.raw >= 2 /\ reply.sw \in AuthFailedWords
        IN  /\ (rc = "WRONG_PW") <=> wrongPw
            /\ out.retries = IF wrongPw THEN reply.sw - SW_AUTHENTICATION_FAILED
                                        ELSE NoWrite

(* calculate succeeds only on a reply of exactly three session keys, and  *)
(* then the enc, mac and rmac keys are the three consecutive slices of    *)
(* it, each SESSION_KEY_LEN bytes; a failed calculate hands out no keys.  *)
SessionKeysExact ==
    phase = "done" /\ op = "calculate" =>
        IF rc = "SUCCESS"
        THEN /\ reply.raw - 2 = 3 * SESSION_KEY_LEN
             /\ \A k \in 1..3 : Len(out.keys[k]) = SESSION_KEY_LEN
             /\ FlattenSeq(out.keys) = Payload(3 * SESSION_KEY_LEN)
        ELSE out.keys = <<>>

(***************************************************************************)
(* Properties the code is checked against and does not meet (violation    *)
(* runs; see README).                                                     *)
(***************************************************************************)

(* Spec section 3: the encoded data of a command frame never exceeds the  *)
(* frame's 255-byte data buffer, since every operation validates its      *)
(* arguments before encoding.  About ykhsmauth_calculate's checks         *)
(* (ykhsmauth.c 448-457) and its unchecked add_tag calls.                 *)
FrameFitsBuffer ==
    phase = "sent" => ~Overflowed(apdu)

(* Spec section 7: a failure of the transport is reported as a transport  *)
(* error (PCSC_ERROR), distinct from any status-word kind.  About the     *)
(* result of ykhsmauth_reset (ykhsmauth.c 520-529).                       *)
TransportErrorReported ==
    phase = "done" /\ reply # NoReply /\ ~reply.ok => rc = "PCSC_ERROR"

(* get_challenge and get_pubkey never write more bytes to the caller's    *)
(* buffer than the capacity the caller passed in *len (ykhsmauth.c        *)
(* 635-636 and 670-671).                                                  *)
BlobFitsCaller ==
    phase = "done" /\ op \in {"get_challenge", "get_pubkey"} =>
        Len(out.buf) <= args.cap

(* A successful get_mgmkey_retries reports a retry count the card sent:   *)
(* the first byte of a non-empty reply payload (ykhsmauth.c 688-699).     *)
MgmkeyRetriesFromCard ==
    phase = "done" /\ op = "get_mgmkey_retries" /\ rc = "SUCCESS" =>
        reply.raw - 2 >= 1 /\ out.retries = Payload(reply.raw - 2)[1]

(* A successful get_version leaves the whole "major.minor.patch" string   *)
(* in the caller's buffer; a buffer too small is an error, as the         *)
(* "Version buffer too small" branch (ykhsmauth.c 341-347) intends.       *)
VersionComplete ==
    phase = "done" /\ op = "get_version" /\ rc = "SUCCESS" =>
        out.buf = VersionString(RecvData(reply))
=============================================================================
