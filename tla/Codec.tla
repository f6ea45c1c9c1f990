-------------------------------- MODULE Codec --------------------------------
(****************************************************************************)
(* A message on its way from one application to another: its options are    *)
(* pushed, it is encoded (coap_encode of libraries/Casan/msg.c), and the    *)
(* receiver decodes it (coap_decode), one option at a time.                 *)
(*                                                                          *)
(* A byte is a number.  Of the four bytes of the header only the length of  *)
(* the token is kept; type, code and id are copied.                         *)
(****************************************************************************)
EXTENDS Integers, SequencesExt

CONSTANTS
    Tokens,      \* byte sequences
    Options,     \* the options with an opaque value an application pushes
    Ages,        \* Max-Age values an application sets
    Payloads,    \* byte sequences
    MaxOptions,  \* bound on the number of options of a message
    Space,       \* maxpayload of the L2 network
    Foreign,     \* encoded messages of other programs: toklen, bytes
    Beyond       \* bytes that may follow a frame in its buffer

MO_Max_Age == 14
Byte == 0..255
Code == 0..65535
Option == [code: Code, val: Seq(Byte)]

ASSUME CodecAssumption ==
    /\ Tokens \cup Payloads \subseteq Seq(Byte) /\ Options \subseteq Option
    /\ Foreign \subseteq [toklen: 0..7, bytes: Seq(Byte)]
    /\ Ages \subseteq Nat /\ MaxOptions \in Nat /\ Space \in Nat
    /\ Beyond \subseteq Byte /\ Beyond # {}

VARIABLES
    phase,   \* "build", "decode", "done", or "toolarge", "rejected"
    token, opts, payload,  \* the message to send
    pushed,  \* history: the options in the order of their push_option, with the
             \* values they have now
    wire,    \* the encoded message: toklen of the header, and what follows it
    i,       \* coap_decode: index of the next byte
    opt_nb,  \* coap_decode: code of the last option
    got      \* the decoded message

message == <<token, opts, payload, pushed>>
vars == <<phase, message, wire, i, opt_nb, got>>

NoMessage == [token |-> <<>>, opts |-> <<>>, payload |-> <<>>]

----------------------------------------------------------------------------
(* Options.                                                                 *)

\* Faulty: before the first option whose code is not smaller.
FaultyPushOption(list, o) ==
    LET place == SelectInSeq(list, LAMBDA p : p.code >= o.code)
    IN  IF place = 0 THEN Append(list, o) ELSE InsertAt(list, place, o)

\* push_option: before the first option with a greater code.
PushOption(list, o) ==
    LET place == SelectInSeq(list, LAMBDA p : p.code > o.code)
    IN  IF place = 0 THEN Append(list, o) ELSE InsertAt(list, place, o)

\* uint_to_byte advances the pointer to the length, *len++, instead of the length,
\* which stays 0: the callers copy nothing.  (The following iterations index stbin
\* with what lies after the length; that they hit nothing else is assumed.)
UintToByte(n) == <<>>

\* The place of the first option with a code, or 0.
First(list, code) == SelectInSeq(list, LAMBDA p : p.code = code)

\* set_max_age: an option which is there is changed only if reset is set.
SetMaxAge(list, reset, dur) ==
    LET k == First(list, MO_Max_Age)
    IN  IF k = 0
        THEN PushOption(list, [code |-> MO_Max_Age, val |-> UintToByte(dur)])
        ELSE IF reset THEN [list EXCEPT ![k].val = UintToByte(dur)] ELSE list

----------------------------------------------------------------------------
(* Encoding.                                                                *)

\* The four bits for a delta or a length, and the bytes they announce.
Nibble(n) == IF n >= 269 THEN 14 ELSE IF n >= 13 THEN 13 ELSE n
FaultyExtended(n) ==  \* the low byte first
    IF n >= 269 THEN <<(n - 269) % 256, ((n - 269) \div 256) % 256>>
    ELSE IF n >= 13 THEN <<n - 13>> ELSE <<>>
Extended(n) ==
    IF n >= 269 THEN <<((n - 269) \div 256) % 256, (n - 269) % 256>>
    ELSE IF n >= 13 THEN <<n - 13>> ELSE <<>>

Delta(list, k) == list[k].code - (IF k = 1 THEN 0 ELSE list[k - 1].code)

EncodedOption(list, k) ==
    <<16 * Nibble(Delta(list, k)) + Nibble(Len(list[k].val))>>
        \o Extended(Delta(list, k)) \o Extended(Len(list[k].val)) \o list[k].val

\* FORMAT_BYTE0 keeps three bits of the length of the token.
Encoded(tok, list, pay) ==
    [toklen |-> Len(tok) % 8,
     bytes  |-> tok \o FlattenSeq([k \in DOMAIN list |-> EncodedOption(list, k)])
                    \o (IF pay = <<>> THEN <<>> ELSE <<255>> \o pay)]

\* Faulty: 269 bytes are not taken for a long option.
FaultyCoapSize(tok, list, paylen, emulpayload) ==
    LET more(n) == IF n > 269 THEN 2 ELSE IF n >= 13 THEN 1 ELSE 0
        size(k) == 1 + more(Delta(list, k)) + more(Len(list[k].val)) + Len(list[k].val)
        sum[k \in 0..Len(list)] == IF k = 0 THEN 4 + Len(tok) ELSE sum[k - 1] + size(k)
    IN  sum[Len(list)] + (IF paylen > 0 \/ emulpayload THEN 1 + paylen ELSE 0)

\* coap_size, which coap_encode uses to know whether there is room.
CoapSize(tok, list, paylen, emulpayload) ==
    LET more(n) == IF n >= 269 THEN 2 ELSE IF n >= 13 THEN 1 ELSE 0
        size(k) == 1 + more(Delta(list, k)) + more(Len(list[k].val)) + Len(list[k].val)
        sum[k \in 0..Len(list)] == IF k = 0 THEN 4 + Len(tok) ELSE sum[k - 1] + size(k)
    IN  sum[Len(list)] + (IF paylen > 0 \/ emulpayload THEN 1 + paylen ELSE 0)

\* Faulty: the marker of the payload is not counted.
FaultyAvailSpace(tok, list, paylen) ==
    LET size == CoapSize(tok, list, paylen, FALSE)
    IN  IF size <= Space THEN Space - size ELSE 0

AvailSpace(tok, list, paylen) ==
    LET size == CoapSize(tok, list, paylen, TRUE)
    IN  IF size <= Space THEN Space - size ELSE 0

----------------------------------------------------------------------------

Init ==
    /\ phase = "build"
    /\ token \in Tokens /\ payload \in Payloads
    /\ opts = <<>> /\ pushed = <<>>
    /\ wire = [toklen |-> 0, bytes |-> <<>>]
    /\ i = 1 /\ opt_nb = 0 /\ got = NoMessage

\* The application makes an option and pushes it.
Push(o) ==
    /\ phase = "build" /\ Len(opts) < MaxOptions
    /\ opts' = PushOption(opts, o) /\ pushed' = Append(pushed, o)
    /\ UNCHANGED <<phase, token, payload, wire, i, opt_nb, got>>

\* The application calls set_max_age.
MaxAge(reset, dur) ==
    /\ phase = "build" /\ Len(opts) < MaxOptions
    /\ opts' = SetMaxAge(opts, reset, dur)
    /\ pushed' = IF First(opts, MO_Max_Age) = 0
                 THEN Append(pushed, [code |-> MO_Max_Age, val |-> UintToByte(dur)])
                 ELSE IF reset
                 THEN [pushed EXCEPT ![First(pushed, MO_Max_Age)].val = UintToByte(dur)]
                 ELSE pushed
    /\ UNCHANGED <<phase, token, payload, wire, i, opt_nb, got>>

\* The first part of coap_decode: header and token.
Decode(enc) ==
    /\ phase = "build" /\ phase' = "decode"
    /\ wire' = enc
    /\ i' = enc.toklen + 1
    /\ got' = [NoMessage EXCEPT !.token = SubSeq(enc.bytes, 1, enc.toklen)]
    /\ UNCHANGED <<message, opt_nb>>

\* coap_encode, for a receiver that runs this code.
Encode ==
    /\ CoapSize(token, opts, Len(payload), FALSE) <= Space
    /\ Decode(Encoded(token, opts, payload))

EncodeFails ==
    /\ phase = "build"
    /\ CoapSize(token, opts, Len(payload), FALSE) > Space
    /\ phase' = "toolarge"
    /\ UNCHANGED <<message, wire, i, opt_nb, got>>

\* What the bytes at k stand for, given the four bits, and how many they are.
Value(nibble, k) ==
    CASE nibble = 13 -> wire.bytes[k] + 13
      [] nibble = 14 -> 256 * wire.bytes[k] + wire.bytes[k + 1] + 269
      [] OTHER -> nibble
Width(nibble) == IF nibble \in {13, 14} THEN nibble - 12 ELSE 0

\* The loop of coap_decode over the options.
MoreOptions == i <= Len(wire.bytes) /\ wire.bytes[i] # 255

DecodeOption ==
    LET delta == wire.bytes[i] \div 16
        len   == wire.bytes[i] % 16
        k     == i + 1 + Width(delta)
        start == k + Width(len)
        code  == opt_nb + Value(delta, i + 1)
        end   == start + Value(len, k)
        o     == [code |-> code, val |-> SubSeq(wire.bytes, start, end - 1)]
    IN  /\ phase = "decode" /\ MoreOptions
        /\ delta # 15 /\ len # 15
        /\ opt_nb' = code /\ i' = end
        /\ got' = [got EXCEPT !.opts = PushOption(@, o)]
        /\ UNCHANGED <<phase, message, wire>>

DecodeFails ==
    /\ phase = "decode" /\ MoreOptions
    /\ 15 \in {wire.bytes[i] \div 16, wire.bytes[i] % 16}
    /\ phase' = "rejected"
    /\ UNCHANGED <<message, wire, i, opt_nb, got>>

\* The length of the payload is computed before the marker is skipped: the
\* byte that follows the frame is taken too.
DecodePayload ==
    /\ phase = "decode" /\ ~MoreOptions /\ phase' = "done"
    /\ \E b \in Beyond :
          got' = IF i > Len(wire.bytes) THEN got
                 ELSE [got EXCEPT !.payload =
                         SubSeq(wire.bytes, i + 1, Len(wire.bytes)) \o <<b>>]
    /\ UNCHANGED <<message, wire, i, opt_nb>>

Next ==
    \/ \E o \in Options : Push(o)
    \/ \E dur \in Ages, reset \in BOOLEAN : MaxAge(reset, dur)
    \/ Encode \/ EncodeFails \/ \E enc \in Foreign : Decode(enc)
    \/ DecodeOption \/ DecodeFails \/ DecodePayload

Spec == Init /\ [][Next]_vars

----------------------------------------------------------------------------
(* Properties.                                                              *)

TypeOK ==
    /\ phase \in {"build", "decode", "done", "toolarge", "rejected"}
    /\ opts \in Seq(Option) /\ pushed \in Seq(Option)
    /\ wire.bytes \in Seq(Byte) /\ wire.toklen \in 0..7
    /\ wire \notin Foreign =>
          /\ i \in 1..(Len(wire.bytes) + 1) /\ opt_nb \in Code
          /\ got.opts \in Seq(Option) /\ got.payload \in Seq(Byte)

\* The list of options is sorted by codes, as the encoding by deltas needs, and
\* options with the same code, such as the segments of a path, keep the order
\* in which they were pushed; none is lost or doubled.
OptionsInOrder ==
    \E place \in Bijection(DOMAIN opts, DOMAIN pushed) :
        /\ \A k \in DOMAIN opts : opts[k] = pushed[place[k]]
        /\ \A j, k \in DOMAIN opts :
              j < k => \/ opts[j].code < opts[k].code
                       \/ opts[j].code = opts[k].code /\ place[j] < place[k]

\* coap_encode fills exactly the bytes that coap_size counted: it never writes
\* beyond the buffer whose size it compared with that count.
Sent == phase \notin {"build", "toolarge"} /\ wire \notin Foreign
SizeIsExact ==
    Sent =>
        4 + Len(wire.bytes) = CoapSize(token, opts, Len(payload), FALSE)

\* avail_space is what it says to the code that fills a payload: so many bytes
\* can be encoded, and not one more.
SpaceIsUsable ==
    LET avail == AvailSpace(token, opts, 0)
    IN  avail > 0 => /\ CoapSize(token, opts, avail, FALSE) <= Space
                     /\ CoapSize(token, opts, avail + 1, FALSE) > Space

\* What has been encoded is decoded: no message is rejected, its token and
\* options, in their order, are those that were sent, and to its payload one byte
\* has been added.
RoundTrip ==
    Sent =>
    /\ phase # "rejected"
    /\ phase = "done" =>
          /\ got.token = token /\ got.opts = opts
          /\ IF payload = <<>> THEN got.payload = <<>>
             ELSE Len(got.payload) = Len(payload) + 1 /\ IsPrefix(payload, got.payload)

=============================================================================
