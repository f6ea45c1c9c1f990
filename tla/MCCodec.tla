------------------------------ MODULE MCCodec --------------------------------
(****************************************************************************)
(* Messages around the limits of the encoding: deltas and lengths of 12,    *)
(* 13, 268 and 269, and messages that just fit.                             *)
(****************************************************************************)
EXTENDS Codec

Bytes(n, b) == [k \in 1..n |-> b]

\* Two segments of a path (MO_Uri_Path), MO_Content_Format, MO_Max_Age, a query
\* (MO_Uri_Query) and codes that are far from the others.
SomeOptions ==
    {[code |-> 11, val |-> <<97>>], [code |-> 11, val |-> <<98>>],
     [code |-> 12, val |-> <<>>], [code |-> 14, val |-> <<60>>],
     [code |-> 15, val |-> Bytes(12, 98)], [code |-> 28, val |-> Bytes(13, 255)],
     [code |-> 280, val |-> Bytes(268, 1)], [code |-> 297, val |-> Bytes(269, 255)]}

ShortTokens == {<<>>, <<7>>, Bytes(7, 255)}
SomePayloads == {<<>>, <<255>>, Bytes(20, 65)}
SomeAges == {60}
\* A path whose second segment, or whose code, has a reserved length.
Reserved == {[toklen |-> 0, bytes |-> <<177, 97, b, 98>>] : b \in {15, 241}}
AnyByte  == {0, 255}
=============================================================================
