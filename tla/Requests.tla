------------------------------ MODULE Requests -------------------------------
(****************************************************************************)
(* The resources of a slave and the requests for them: process_request and  *)
(* its neighbours in libraries/Casan/casan.c, and resource.c.               *)
(*                                                                          *)
(* The application sets up its resources and registers them; an associated  *)
(* slave lists them to its master, calls their handlers for its requests,   *)
(* keeps one observer of each, and asks their triggers at the end of each   *)
(* call of loop().                                                          *)
(*                                                                          *)
(* The text of a list is a sequence of places in reslist_, with 0 for a     *)
(* separator; of the text of one resource only the length is kept.          *)
(****************************************************************************)
EXTENDS Integers, SequencesExt

CONSTANTS
    Resource,      \* [name, size]: resources of the application
    Names,         \* names a request may ask for
    Methods,       \* codes of requests, which index handler_
    Tokens,        \* tokens of requests
    Avails,        \* values of avail_space
    MaxResources,  \* bound on the length of the list
    MaxSerial      \* bound on the serial numbers of a registration

\* A text has at least the fixed part <>;title="";rt="" of 17 characters.
ASSUME RequestsAssumption ==
    /\ \A r \in Resource : r.size \in Nat /\ r.size >= 17
    /\ Methods \subseteq 0..4 /\ Avails \subseteq Nat
    /\ MaxResources \in Nat /\ MaxSerial \in Nat

NoToken == "none"       \* obs_token_ before the first observer
NoObserve == -1         \* an answer without an Observe option
NoAnswer == [code |-> "none", observe |-> NoObserve]

VARIABLES
    reslist,  \* the list of the engine
    res,      \* the attributes of each resource: the entries of handler_ which
              \* are set; whether there is a trigger and whether there are hooks
              \* (obs_reg_ and obs_dereg_); observed_, obs_serial_, obs_token_;
              \* history: held, the calls of obs_reg_ less those of obs_dereg_
    answer    \* the last answer to a request since resetCasan

vars == <<reslist, res, answer>>

----------------------------------------------------------------------------
(* The list, and its text.                                                  *)

Item(list, k) == IF k = 0 THEN 1 ELSE list[k].size
Size(list, items) ==
    LET sum[j \in 0..Len(items)] == IF j = 0 THEN 0 ELSE sum[j - 1] + Item(list, items[j])
    IN  sum[Len(items)]

\* register_resource: in last position.
FaultyRegistered(list, r) == <<r>> \o list  \* in first position
Registered(list, r) == Append(list, r)

\* get_resource: the first with the name, or 0.
GetResource(list, name) == SelectInSeq(list, LAMBDA r : r.name = name)

Nothing == [text |-> <<>>, size |-> 0, left |-> FALSE]

\* well_known: the text has to fit with its final '\0'.
FaultyFits(r, room) == r.size <= room  \* without the '\0'
Fits(r, room) == r.size + 1 <= room

\* Faulty: a resource that does not fit is left out, the next ones are not.
FaultyListed(list, room, t, k) ==
    LET with == IF t.size > 0 THEN Append(t.text, 0) ELSE t.text
        size == IF t.size > 0 THEN t.size + 1 ELSE t.size
    IN  IF t.left \/ (t.size > 0 /\ t.size + 2 >= room) THEN [t EXCEPT !.left = TRUE]
        ELSE IF ~Fits(list[k], room - size) THEN t
             ELSE [text |-> Append(with, k), size |-> size + list[k].size,
                   left |-> FALSE]

\* The iteration of get_well_known for the k-th resource; "left" says that the
\* loop has been left.  The separator stays when its resource does not fit.
Listed(list, room, t, k) ==
    LET with == IF t.size > 0 THEN Append(t.text, 0) ELSE t.text
        size == IF t.size > 0 THEN t.size + 1 ELSE t.size
    IN  IF t.left \/ (t.size > 0 /\ t.size + 2 >= room) THEN [t EXCEPT !.left = TRUE]
        ELSE IF ~Fits(list[k], room - size)
             THEN [text |-> with, size |-> size, left |-> TRUE]
             ELSE [text |-> Append(with, k), size |-> size + list[k].size,
                   left |-> FALSE]

GetWellKnown(list, room) ==
    LET after[k \in 0..Len(list)] ==
            IF k = 0 THEN Nothing ELSE Listed(list, room, after[k - 1], k)
    IN  after[Len(list)]

----------------------------------------------------------------------------
(* Observation.                                                             *)

Watch(a) == IF a.hooks THEN a.held + 1 ELSE a.held
Unwatch(a) == IF a.hooks /\ a.observed THEN a.held - 1 ELSE a.held

FaultyObservedOnce(a, onoff, token) ==  \* the observer before is kept
    IF ~a.trig THEN a
    ELSE IF ~onoff THEN [a EXCEPT !.observed = FALSE, !.held = Unwatch(a)]
    ELSE IF a.observed THEN a
    ELSE [a EXCEPT !.observed = TRUE, !.held = Watch(a), !.serial = 2, !.token = token]

FaultyObserved(a, onoff, token) ==  \* the observer before is not dismissed
    IF ~a.trig THEN a
    ELSE IF ~onoff THEN [a EXCEPT !.observed = FALSE, !.held = Unwatch(a)]
    ELSE [a EXCEPT !.observed = TRUE, !.held = Watch(a), !.serial = 2, !.token = token]

\* observedResource: a resource without a trigger has no observer.  A new
\* observer takes the place of the one before, which is dismissed.
Observed(a, onoff, token) ==
    LET dismissed == [a EXCEPT !.observed = FALSE, !.held = Unwatch(a)]
    IN  IF ~a.trig THEN a
        ELSE IF ~onoff THEN dismissed
        ELSE [dismissed EXCEPT !.observed = TRUE, !.held = Watch(dismissed),
                               !.serial = 2, !.token = token]

NextSerial(a) == [a EXCEPT !.serial = @ + 1]

\* check_observed_resources: the serial number of each resource whose trigger
\* fires moves on, observed or not.  A message is built from it in out, with the
\* handler of get_code (NULL), and never sent.
CheckObserved(attributes, fired) ==
    [r \in Resource |-> IF r \in fired THEN NextSerial(attributes[r]) ELSE attributes[r]]

\* Triggers which may fire; nothing is registered twice under them here.
Firing == SUBSET {r \in ToSet(reslist) : res[r].trig /\ res[r].serial < MaxSerial}

----------------------------------------------------------------------------
(* The application.                                                         *)

\* initResource leaves the serial number and the token as malloc found them;
\* 0 stands for any number.
Init ==
    /\ reslist = <<>>
    /\ res = [r \in Resource |->
                [handlers |-> {}, trig |-> FALSE, hooks |-> FALSE,
                 observed |-> FALSE, serial |-> 0, token |-> NoToken, held |-> 0]]
    /\ answer = NoAnswer

\* setHandlerResource and ohandlerResource, while the resource is set up.
SetHandler(r, method) ==
    /\ r \notin ToSet(reslist)
    /\ res' = [res EXCEPT ![r].handlers = @ \cup {method}]
    /\ UNCHANGED <<reslist, answer>>

OHandler(r, hooks) ==
    /\ r \notin ToSet(reslist) /\ ~res[r].trig
    /\ res' = [res EXCEPT ![r].trig = TRUE, ![r].hooks = hooks,
                          ![r].observed = FALSE, ![r].serial = 0]
    /\ UNCHANGED <<reslist, answer>>

RegisterResource(r) ==
    /\ Len(reslist) < MaxResources
    /\ reslist' = Registered(reslist, r)
    /\ UNCHANGED <<res, answer>>

\* resetCasan frees the list; the resources are the application's.
Reset ==
    /\ reslist' = <<>> /\ answer' = NoAnswer
    /\ UNCHANGED res

----------------------------------------------------------------------------
(* Calls of loop().                                                         *)

\* No request is received; an Assoc may be, and is answered with the list.
NoRequest(fired) ==
    /\ res' = CheckObserved(res, fired)
    /\ UNCHANGED <<reslist, answer>>

\* process_request for CASAN_RESOURCES_ALL.  The text is that of GetWellKnown
\* for the room in the message, as in the answer to an Assoc.
ListResources(fired) ==
    /\ answer' = [code |-> "OK", observe |-> NoObserve]
    /\ res' = CheckObserved(res, fired)
    /\ UNCHANGED reslist

\* process_request when the first Uri-Path is no resource, or there is none.
NotFound(name, fired) ==
    /\ GetResource(reslist, name) = 0
    /\ answer' = [code |-> "NOT_FOUND", observe |-> NoObserve]
    /\ res' = CheckObserved(res, fired)
    /\ UNCHANGED reslist

\* process_request and request_resource for a resource.  Whatever its Observe
\* option says, getOptvalInteger reads 0 from it: it asks for an observation.
ProcessRequest(name, method, token, observe, fired) ==
    LET r    == reslist[GetResource(reslist, name)]
        seen == Observed(res[r], observe, token)
        next == IF observe THEN NextSerial(seen) ELSE seen
    IN  /\ GetResource(reslist, name) # 0 /\ next.serial <= MaxSerial
        /\ answer' = [code |-> IF method \in res[r].handlers THEN "HANDLED" ELSE "BAD_REQUEST",
                      from |-> r, token |-> token,
                      observe |-> IF observe THEN next.serial ELSE NoObserve]
        /\ res' = CheckObserved([res EXCEPT ![r] = next], fired)
        /\ UNCHANGED reslist

Loop(fired) ==
    \/ NoRequest(fired) \/ ListResources(fired)
    \/ \E name \in Names :
          \/ NotFound(name, fired)
          \/ \E method \in Methods, token \in Tokens, observe \in BOOLEAN :
                ProcessRequest(name, method, token, observe, fired)

Next ==
    \/ \E r \in Resource :
          \/ RegisterResource(r)
          \/ \E method \in Methods : SetHandler(r, method)
          \/ \E hooks \in BOOLEAN : OHandler(r, hooks)
    \/ \E fired \in Firing : Loop(fired)
    \/ Reset

Spec == Init /\ [][Next]_vars

----------------------------------------------------------------------------
(* Properties.                                                              *)

\* In a message of any size, the text of the list and the '\0' sprintf adds are
\* within the buffer of avail_space bytes, and the text lists the resources in
\* the order of registration, none skipped and separated from each other.
WellKnownInOrder ==
    \A room \in Avails :
        LET text == GetWellKnown(reslist, room).text
        IN  /\ text = <<>> \/ Size(reslist, text) < room
            /\ \A j \in DOMAIN text : text[j] = IF j % 2 = 1 THEN (j + 1) \div 2 ELSE 0

\* The list is cut only where the next resource, with its separator and its '\0',
\* does not fit, and get_well_known tells its caller.
CutOnlyWhenFull ==
    \A room \in Avails :
        LET t == GetWellKnown(reslist, room)
            n == (Len(t.text) + 1) \div 2  \* resources listed, separated by zeros
        IN  /\ t.left = (n # Len(reslist))
            /\ t.left => (IF n = 0 THEN 0 ELSE Size(reslist, SubSeq(t.text, 1, 2 * n - 1)) + 1)
                           + reslist[n + 1].size + 1 > room

\* A name goes on designating the same resource while others are registered,
\* under the same name even.
NamesAreStable ==
    [][\A name \in Names :
          LET k == GetResource(reslist, name)
          IN  k # 0 /\ reslist' # <<>> =>
                 reslist'[GetResource(reslist', name)] = reslist[k]]_vars

\* obs_reg_ and obs_dereg_ are called in turns, whatever the requests and the
\* registrations of the resource: the application starts watching once per
\* observer and stops when the observer leaves or another takes its place.
RegistrationsBalanced ==
    \A r \in Resource :
        res[r].hooks => res[r].held = (IF res[r].observed THEN 1 ELSE 0)

\* Whom an answer with an Observe option is for is the observer of the resource,
\* as long as no other request has come, and the numbers that follow are greater.
ObserverIsAnswered ==
    answer.observe # NoObserve /\ res[answer.from].trig =>
        LET a == res[answer.from]
        IN  a.observed /\ a.token = answer.token /\ a.serial >= answer.observe

=============================================================================
