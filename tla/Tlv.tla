-------------------------------- MODULE Tlv --------------------------------
(***************************************************************************)
(* The TLV codec and command-frame encoder of ykhsmauth.c.                 *)
(*                                                                         *)
(* A command frame (the APDU union of internal.h) is modelled by what its  *)
(* bytes are: `lc' is the one-byte length field st.lc, `data' the bytes    *)
(* written from st.data[0] on.  The C array st.data holds DataCap bytes;   *)
(* add_tag never checks it, so `data' may grow past DataCap: those bytes   *)
(* land on whatever follows the APDU on the stack.  The frame the card     *)
(* receives is the first lc bytes of data (send_data sends lc + 5 bytes).  *)
(***************************************************************************)
EXTENDS Integers, Sequences

CONSTANT DataCap      \* sizeof(apdu.st.data) = 0xff

Byte == 0..255

\* A run of n copies of byte b (memset / a caller's buffer of one value).
Fill(n, b) == [i \in 1..n |-> b]

\* Mutation variant of EncodeLen: the one-byte form also taken for 0x80.
EncodeLenBoundary(len) ==
    IF len > 255 THEN <<130, (len \div 256) % 256, len % 256>>
    ELSE IF len > 128 THEN <<129, len>>
    ELSE <<len>>

\* encode_len: one byte up to 0x7f, 0x81 n up to 0xff, else 0x82 hi lo.
\* The parameter is a uint16_t, so the length arrives reduced mod 2^16.
EncodeLen(len) ==
    IF len > 255 THEN <<130, (len \div 256) % 256, len % 256>>
    ELSE IF len > 127 THEN <<129, len>>
    ELSE <<len>>

\* Overwrite `mem' from offset `pos' (0-based, as a C pointer offset) with
\* `bytes', growing it when the write runs past its end.
WriteAt(mem, pos, bytes) ==
    LET n == IF pos + Len(bytes) > Len(mem) THEN pos + Len(bytes) ELSE Len(mem)
    IN  [i \in 1..n |-> IF i > pos /\ i <= pos + Len(bytes)
                          THEN bytes[i - pos] ELSE mem[i]]

\* The empty frame of a fresh `APDU apdu = {{0, ins, p1, p2, 0, {0}}}'.
EmptyApdu == [lc |-> 0, data |-> <<>>]

\* Mutation variant of AddTag: a cursor wider than st.lc's uint8_t.
AddTagWideLc(apdu, tag, value, pad) ==
    LET field == <<tag>> \o EncodeLen((Len(value) + pad) % 65536)
                         \o value \o Fill(pad, 0)
    IN  [lc   |-> apdu.lc + Len(field),
         data |-> WriteAt(apdu.data, apdu.lc, field)]

\* add_tag: tag byte, encode_len(len + pad), the value, pad zero bytes,
\* written at st.data + st.lc; st.lc is then set to the new cursor, which
\* the uint8_t field keeps mod 2^8.
AddTag(apdu, tag, value, pad) ==
    LET field == <<tag>> \o EncodeLen((Len(value) + pad) % 65536)
                         \o value \o Fill(pad, 0)
    IN  [lc   |-> (apdu.lc + Len(field)) % 256,
         data |-> WriteAt(apdu.data, apdu.lc, field)]

\* The bytes send_data hands to SCardTransmit after the 5-byte header.
WireData(apdu) == SubSeq(apdu.data, 1, apdu.lc)

\* add_tag wrote past the end of st.data.
Overflowed(apdu) == Len(apdu.data) > DataCap

(***************************************************************************)
(* Reference decoder (spec section 4.1, decode_records): the sequence of   *)
(* <<tag, value>> records a buffer holds, or the marker   *)
(* <<"error">> when a length prefix runs past the buffer or is malformed.   *)
(***************************************************************************)
DecodeError == <<"error">>

\* Length header at the front of s: <<length, header size>>, or <<-1, 0>>.
LenHeader(s) ==
    IF s = <<>> THEN <<-1, 0>>
    ELSE IF s[1] < 128 THEN <<s[1], 1>>
    ELSE IF s[1] = 129 /\ Len(s) >= 2 THEN <<s[2], 2>>
    ELSE IF s[1] = 130 /\ Len(s) >= 3 THEN <<s[2] * 256 + s[3], 3>>
    ELSE <<-1, 0>>

RECURSIVE DecodeRecords(_)
DecodeRecords(s) ==
    IF s = <<>> THEN <<>>
    ELSE LET rest == Tail(s)
             h    == LenHeader(rest)
             body == SubSeq(rest, h[2] + 1, Len(rest))
         IN  IF h[1] < 0 \/ h[1] > Len(body) THEN DecodeError
             ELSE LET more == DecodeRecords(SubSeq(body, h[1] + 1, Len(body)))
                  IN  IF more = DecodeError THEN DecodeError
                      ELSE <<<<s[1], SubSeq(body, 1, h[1])>>>> \o more
=============================================================================
