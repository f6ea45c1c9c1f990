------------------------------- MODULE Options -------------------------------
(****************************************************************************)
(* Who owns the value of an option: libraries/Casan/option.c, and the       *)
(* option list of a message, libraries/Casan/msg.c.                         *)
(*                                                                          *)
(* A short value is kept in the option, a long one in a block of its own.   *)
(* Options are copied when they are pushed on a message, moved when they    *)
(* are popped, and freed by hand.  A value is a length and a name for its   *)
(* bytes; the table of the option codes only says what a zero length is     *)
(* good for, as that is all an integer is given (see UintToByte in Codec).  *)
(****************************************************************************)
EXTENDS Integers, SequencesExt

CONSTANTS
    Handles,     \* variables which hold a pointer to an option
    Blocks,      \* addresses of allocated values
    Codes,       \* option codes, in the order of their numbers
    NonEmpty,    \* those whose minimal length is not 0
    Values,      \* [len, data]: values an application gives
    MaxOptions   \* bound on the length of the list of a message

StaticLen == 9   \* sizeof staticval_
MO_Content_Format == 12
NoBlock == "null"

ASSUME OptionsAssumption ==
    /\ Codes \subseteq Nat \ {0} /\ NonEmpty \subseteq Codes
    /\ NoBlock \notin Blocks
    /\ \A v \in Values : v.len \in Nat
    /\ MaxOptions \in Nat

Empty == [len |-> 0, data |-> "empty"]
MO_None == 0
Free == [len |-> -1, data |-> "free"]
NoOption == [code |-> MO_None - 1]

VARIABLES
    heap,  \* the value in each block, or Free
    var,   \* the option each handle points to, or NoOption
    list,  \* the options of optlist_; an option has the fields code, len,
           \* optval, staticval and, as history, wanted: the value it was given
    lost   \* history: the blocks nobody can free any more

vars == <<heap, var, list, lost>>

----------------------------------------------------------------------------

\* getOptval, and the null byte that is to follow the value: only a value which
\* leaves room for it is intact in staticval_.
Intact(o) ==
    IF o.optval = NoBlock
    THEN o.staticval = o.wanted /\ o.wanted.len + 1 <= StaticLen
    ELSE heap[o.optval] = o.wanted

\* RESET: the option before it is given a value.
Blank(code) == [code |-> code, len |-> 0, optval |-> NoBlock,
                staticval |-> Empty, wanted |-> Empty]

FaultyNeedsBlock(v) == v.len > StaticLen  \* without the null byte
NeedsBlock(v) == v.len + 1 > StaticLen

\* COPY_VAL: the block before is forgotten.
CopyVal(o, v, b) ==
    IF NeedsBlock(v)
    THEN [o EXCEPT !.len = v.len, !.optval = b, !.wanted = v]
    ELSE [o EXCEPT !.len = v.len, !.optval = NoBlock, !.staticval = v, !.wanted = v]

\* The heap when v has been copied to the block b, if it needs one.
Stored(h, v, b) == IF NeedsBlock(v) THEN [h EXCEPT ![b] = v] ELSE h
Freed(h, b) == IF b = NoBlock THEN h ELSE [h EXCEPT ![b] = Free]
Held(o) == IF o = NoOption \/ o.optval = NoBlock THEN {} ELSE {o.optval}

\* malloc.
Available == {b \in Blocks : heap[b] = Free}

\* initOptionOption: a value in a block is copied to another.
FaultyCopyOf(o, b) == o  \* the block is shared
CopyOf(o, b) == IF o.optval = NoBlock THEN o ELSE [o EXCEPT !.optval = b]
CopyStored(h, o, b) == IF o.optval = NoBlock THEN h ELSE [h EXCEPT ![b] = h[o.optval]]

\* push_option: before the first option with a greater code.
Inserted(l, o) ==
    LET place == SelectInSeq(l, LAMBDA p : p.code > o.code)
    IN  IF place = 0 THEN Append(l, o) ELSE InsertAt(l, place, o)

----------------------------------------------------------------------------
(* Constructors, mutators and destructor.                                   *)

Init ==
    /\ heap = [b \in Blocks |-> Free]
    /\ var = [h \in Handles |-> NoOption]
    /\ list = <<>> /\ lost = {}

\* initOption and initOptionEmpty.
New(h, code) ==
    /\ var[h] = NoOption
    /\ var' = [var EXCEPT ![h] = Blank(code)]
    /\ UNCHANGED <<heap, list, lost>>

\* initOptionOpaque; a code or a length that is not allowed is reported, and used.
InitOpaque(h, code, v, b) ==
    /\ var[h] = NoOption
    /\ var' = [var EXCEPT ![h] = CopyVal(Blank(code), v, b)]
    /\ heap' = Stored(heap, v, b)
    /\ UNCHANGED <<list, lost>>

\* setOptcode.
SetCode(h, code) ==
    /\ var[h] # NoOption
    /\ var' = [var EXCEPT ![h].code = code]
    /\ UNCHANGED <<heap, list, lost>>

\* setOptvalOpaque: the block of the value before is lost.
SetOpaque(h, v, b) ==
    /\ var[h] # NoOption
    /\ var' = [var EXCEPT ![h] = CopyVal(@, v, b)]
    /\ heap' = Stored(heap, v, b)
    /\ lost' = lost \cup Held(var[h])
    /\ UNCHANGED list

\* setOptvalInteger: nothing when the length 0 is not allowed for the code.
Reset(o) == IF o.code \in NonEmpty \cup {MO_None} THEN o ELSE CopyVal(o, Empty, NoBlock)

SetInteger(h) ==
    /\ var[h] # NoOption
    /\ var' = [var EXCEPT ![h] = Reset(@)]
    /\ lost' = lost \cup (Held(var[h]) \ Held(Reset(var[h])))
    /\ UNCHANGED <<heap, list>>

\* copyOption copies nothing when the codes are equal.
Copy(h, g, b) ==
    /\ NoOption \notin {var[h], var[g]} /\ var[h].code # var[g].code
    /\ var' = [var EXCEPT ![h] = CopyOf(var[g], b)]
    /\ heap' = CopyStored(Freed(heap, var[h].optval), var[g], b)
    /\ UNCHANGED <<list, lost>>

\* freeOption, after which the variable is not used.
FreeOption(h) ==
    /\ var[h] # NoOption
    /\ var' = [var EXCEPT ![h] = NoOption]
    /\ heap' = Freed(heap, var[h].optval)
    /\ UNCHANGED <<list, lost>>

----------------------------------------------------------------------------
(* The option list of a message.                                            *)

\* push_option: a copy is pushed.
Push(h, b) ==
    /\ var[h] # NoOption /\ Len(list) < MaxOptions
    /\ list' = Inserted(list, CopyOf(var[h], b))
    /\ heap' = CopyStored(heap, var[h], b)
    /\ UNCHANGED <<var, lost>>

Pop(h) ==
    /\ var[h] = NoOption /\ list # <<>>
    /\ var' = [var EXCEPT ![h] = Head(list)] /\ list' = Tail(list)
    /\ UNCHANGED <<heap, lost>>

\* The body of coap_decode for one option: the option it makes is lost once it
\* has been pushed.
DecodeOption(code, v, b, c) ==
    /\ Len(list) < MaxOptions
    /\ LET o == CopyVal(Blank(code), v, b)
       IN  /\ list' = Inserted(list, CopyOf(o, c))
           /\ heap' = CopyStored(Stored(heap, v, b), o, c)
           /\ lost' = lost \cup Held(o)
    /\ UNCHANGED var

\* set_content_format; the option it makes is short, and freed.
SetContentFormat(reset) ==
    LET k == SelectInSeq(list, LAMBDA o : o.code = MO_Content_Format)
    IN  /\ IF k = 0
           THEN /\ Len(list) < MaxOptions
                /\ list' = Inserted(list, Blank(MO_Content_Format))
                /\ UNCHANGED lost
           ELSE /\ reset /\ list' = [list EXCEPT ![k] = Reset(@)]
                /\ lost' = lost \cup Held(list[k])
        /\ UNCHANGED <<heap, var>>

FaultyResetMsg ==  \* the nodes of the list are freed, the options are not
    /\ list' = <<>>
    /\ UNCHANGED <<heap, var, lost>>

\* resetMsg pops and frees all options.
ResetMsg ==
    /\ list' = <<>>
    /\ heap' = [b \in Blocks |-> IF \E k \in DOMAIN list : list[k].optval = b
                                 THEN Free ELSE heap[b]]
    /\ UNCHANGED <<var, lost>>

\* freeMsg frees no option.
FreeMsg ==
    /\ list' = <<>>
    /\ lost' = lost \cup UNION {Held(list[k]) : k \in DOMAIN list}
    /\ UNCHANGED <<heap, var>>

Next ==
    \/ \E h \in Handles :
          \/ \E code \in Codes \cup {MO_None} : New(h, code)
          \/ \E code \in Codes : SetCode(h, code)
          \/ SetInteger(h) \/ FreeOption(h) \/ Pop(h)
    \/ \E h \in Handles, b \in Available :
          \/ \E v \in Values : SetOpaque(h, v, b) \/ \E code \in Codes : InitOpaque(h, code, v, b)
          \/ \E g \in Handles \ {h} : Copy(h, g, b)
          \/ Push(h, b)
    \/ \E code \in Codes, v \in Values, b \in Available, c \in Available :
          b # c /\ DecodeOption(code, v, b, c)
    \/ \E reset \in BOOLEAN : SetContentFormat(reset)
    \/ ResetMsg \/ FreeMsg

Spec == Init /\ [][Next]_vars

----------------------------------------------------------------------------
(* Properties.                                                              *)

\* The options in use: those of the variables, and of the message.
Used == {<<"var", h>> : h \in {g \in Handles : var[g] # NoOption}}
            \cup {<<"list", k>> : k \in DOMAIN list}
At(place) == IF place[1] = "var" THEN var[place[2]] ELSE list[place[2]]

\* No two options have the same block, so that freeing or changing one leaves
\* the others alone and nothing is freed twice.
BlocksAreOwned ==
    \A p, q \in Used : p # q => Held(At(p)) \cap Held(At(q)) = {}

\* Whatever has been copied, moved or freed since, an option has the value it
\* was given, with the null byte get_resource counts on.
ValuesAreIntact == \A p \in Used : Intact(At(p))

\* An allocated block belongs to an option, unless its option was given another
\* value, was decoded from a message, or was in a message given to freeMsg.
NothingElseIsLost ==
    \A b \in Blocks : heap[b] # Free => b \in lost \/ \E p \in Used : b \in Held(At(p))

=============================================================================
