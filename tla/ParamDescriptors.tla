---------------------------- MODULE ParamDescriptors ----------------------------
(* The generic parameter editor (internal/params/introspect.go): how the layout  *)
(* of a parameter is learnt, asked of one device and kept for its manufacturer,  *)
(* and what the conversions of GetParam and SetParam make of a value.            *)
(* Requests run at the same time; each step between two locks is one action.     *)
EXTENDS Integers, FiniteSets

CONSTANTS
  Uids,             \* devices, all of one manufacturer
  Editors,          \* requests that may run at the same time
  ManufacturerPids, \* the manufacturer's own parameters
  SpecKnownPids,    \* standard parameters with a layout in specKnownPIDs
  OpaquePids,       \* standard parameters with a row in the editor and no layout
  FieldPids,        \* parameters with a field of their own, or hidden: no row
  none,             \* nothing stored
  ByteSize          \* how many values a byte has: 256

ASSUME EditorAssumption ==
  /\ IsFiniteSet(Editors) /\ Editors # {} /\ Uids # {} /\ ManufacturerPids # {}
  /\ ManufacturerPids \cap (SpecKnownPids \cup OpaquePids \cup FieldPids) = {}
  /\ SpecKnownPids \cap (OpaquePids \cup FieldPids) = {}
  /\ none \notin {"described", "standard", "opaque"}
  /\ ByteSize \in Nat \ {0} /\ ByteSize = 2 * (ByteSize \div 2)

Pids == ManufacturerPids \cup SpecKnownPids \cup OpaquePids \cup FieldPids

\* A layout comes from the device, from the standard, or from nobody.
Sources == {"described", "standard", "opaque"}

IsDescribable(pid) == pid \in ManufacturerPids
IsEditorTarget(pid) == pid \notin FieldPids

VARIABLES
  descCache,   \* per PID, the source of the manufacturer's descriptor
  learnt,      \* per device, its record in uidStates: descriptors, paramDescUnsupported
  editor,      \* per request, where it is
  asks         \* history: PARAMETER_DESCRIPTIONs sent since the cache was cleared

editorVars == <<descCache, learnt, editor, asks>>

Blank == [descriptors |-> [p \in Pids |-> none], unsupported |-> FALSE]

\* "kept", "asked": the record the request holds is still the one in the table.
AtRest == [at |-> "idle", for |-> "get", uid |-> CHOOSE u \in Uids : TRUE,
           pid |-> CHOOSE p \in ManufacturerPids : TRUE, todo |-> {}, kept |-> TRUE, asked |-> TRUE,
           desc |-> none]

EditorInit ==
  /\ descCache = [p \in Pids |-> none]
  /\ learnt = [u \in Uids |-> Blank]
  /\ editor = [c \in Editors |-> AtRest]
  /\ asks = [p \in ManufacturerPids |-> 0]

Turns(c, R) == editor' = [editor EXCEPT ![c] = R]
DescCacheSet(pid, source) == descCache' = [descCache EXCEPT ![pid] = source]
-------------------------------------------------------------------------------
(* Requests.  The walk of Introspect goes over the rows of what the device lists; *)
(* a value is read or set through DescribeParam, which the handler that sets one  *)
(* calls to make out what was typed, before SetParam calls it again.              *)
Introspect(c) ==
  /\ editor[c].at = "idle"
  /\ \E u \in Uids, listed \in SUBSET Pids :
       LET targets == {p \in listed : IsEditorTarget(p)}
       IN /\ targets # {}
          /\ Turns(c, [AtRest EXCEPT !.at = "walk", !.for = "introspect", !.uid = u, !.todo = targets])
  /\ UNCHANGED <<descCache, learnt, asks>>

WalksOn(c) ==
  /\ editor[c].at = "walk"
  /\ \/ \E p \in editor[c].todo :
          Turns(c, [editor[c] EXCEPT !.at = "lookup", !.pid = p, !.todo = @ \ {p}])
     \/ Turns(c, AtRest)                              \* done, or the context is
  /\ UNCHANGED <<descCache, learnt, asks>>

Opens(c, purpose) ==
  /\ editor[c].at = "idle"
  /\ \E u \in Uids, p \in Pids :
       Turns(c, [AtRest EXCEPT !.at = "describe", !.for = purpose, !.uid = u, !.pid = p])
  /\ UNCHANGED <<descCache, learnt, asks>>

GetParam(c) == Opens(c, "get")
HandleSetDeviceParam(c) == Opens(c, "parse")

\* Where a request goes with the descriptor it has got.
WithDescriptor(R) ==
  CASE R.for = "introspect" -> [R EXCEPT !.at = "walk", !.desc = none, !.asked = TRUE]
    [] R.for = "parse" -> [AtRest EXCEPT !.at = "describe", !.uid = R.uid, !.pid = R.pid]
    [] R.for = "get" -> AtRest

DescribeParam(c) ==
  /\ editor[c].at = "describe"
  /\ LET known == learnt[editor[c].uid].descriptors[editor[c].pid]
     IN IF known # none THEN Turns(c, WithDescriptor(editor[c]))
        ELSE Turns(c, [editor[c] EXCEPT !.at = "lookup"])
  /\ UNCHANGED <<descCache, learnt, asks>>
-------------------------------------------------------------------------------
(* resolveDescriptor: the cache, the standard, what the device has said of        *)
(* PARAMETER_DESCRIPTION itself, and only then the wire.                          *)
Resolved(c, source) == Turns(c, [editor[c] EXCEPT !.at = "keep", !.desc = source])

\* What is known of a parameter without a question.
WithoutAsking(pid) ==
  IF descCache[pid] # none THEN descCache[pid]
  ELSE IF pid \in SpecKnownPids THEN "standard"
  ELSE IF ~IsDescribable(pid) THEN "opaque" ELSE none

LooksUp(c) ==
  /\ editor[c].at = "lookup"
  /\ LET pid == editor[c].pid
         source == WithoutAsking(pid)
     IN IF source = none
        THEN Turns(c, [editor[c] EXCEPT !.at = "gate"]) /\ UNCHANGED descCache
        ELSE Resolved(c, source) /\ DescCacheSet(pid, source)
  /\ UNCHANGED <<learnt, asks>>

\* History: bounded where the property is already broken.
Sends(pid) ==
  asks' = [asks EXCEPT ![pid] = IF @ > Cardinality(Editors) THEN @ ELSE @ + 1]

Asks(c) ==
  /\ editor[c].at = "gate"
  /\ LET pid == editor[c].pid
     IN \/ /\ learnt[editor[c].uid].unsupported
           /\ Resolved(c, "opaque") /\ DescCacheSet(pid, "opaque")
           /\ UNCHANGED asks
        \/ /\ ~learnt[editor[c].uid].unsupported
           /\ Turns(c, [editor[c] EXCEPT !.at = "asking", !.asked = TRUE])
           /\ Sends(pid)
           /\ UNCHANGED descCache
  /\ UNCHANGED learnt

\* An answer is a description; anything else leaves the parameter opaque: bytes that do
\* not decode, a refusal, silence, or a request that was cancelled.
Hears(c) ==
  /\ editor[c].at = "asking"
  /\ \E answer \in {"description", "unknown PID", "no description"} :
       LET source == IF answer = "description" THEN "described" ELSE "opaque"
       IN /\ Resolved(c, source)
          /\ DescCacheSet(editor[c].pid, source)
          /\ learnt' = IF answer = "unknown PID" /\ editor[c].asked
                       THEN [learnt EXCEPT ![editor[c].uid].unsupported = TRUE] ELSE learnt
  /\ UNCHANGED asks

\* Introspect and DescribeParam keep the descriptor in the record they hold.
Keeps(c) ==
  /\ editor[c].at = "keep"
  /\ LET R == editor[c]
     IN /\ learnt' = IF R.kept THEN [learnt EXCEPT ![R.uid].descriptors[R.pid] = R.desc] ELSE learnt
        /\ Turns(c, WithDescriptor(R))
  /\ UNCHANGED <<descCache, asks>>

-------------------------------------------------------------------------------
(* A reset of a device forgets its record, the full reset all of them and, in a  *)
(* step before, the manufacturers' descriptors.                                  *)
Dropped(R) == [R EXCEPT !.kept = FALSE, !.asked = R.at # "asking" /\ R.asked]

ForgetRecords(us) ==
  /\ learnt' = [u \in Uids |-> IF u \in us THEN Blank ELSE learnt[u]]
  /\ editor' = [c \in Editors |->
       IF editor[c].uid \in us /\ editor[c].at \in {"walk", "lookup", "gate", "asking", "keep"}
       THEN Dropped(editor[c]) ELSE editor[c]]
  /\ UNCHANGED <<descCache, asks>>

ForgetDescriptors == (\E u \in Uids : ForgetRecords({u})) \/ ForgetRecords(Uids)

ClearDescriptorCache ==
  /\ descCache' = [p \in Pids |-> none]
  /\ asks' = [p \in ManufacturerPids |-> 0]
  /\ UNCHANGED <<learnt, editor>>

EditorStep(c) ==
  \/ Introspect(c) \/ WalksOn(c) \/ GetParam(c) \/ HandleSetDeviceParam(c)
  \/ DescribeParam(c) \/ LooksUp(c) \/ Asks(c) \/ Hears(c) \/ Keeps(c)

EditorNext == (\E c \in Editors : EditorStep(c)) \/ ForgetDescriptors \/ ClearDescriptorCache

EditorSpec == EditorInit /\ [][EditorNext]_editorVars
-------------------------------------------------------------------------------
(* The values.  A descriptor is [typed, settable, type, pdl, min, max]; what was *)
(* typed is [form, hex, n], a number or the length of a text; what goes into a   *)
(* message is its length and the number its first bytes make.                    *)
TypeWidth == [UnsignedByte |-> 1, SignedByte |-> 1, Boolean |-> 1, UnsignedWord |-> 2,
          SignedWord |-> 2, UnsignedDWord |-> 4, SignedDWord |-> 4]
Numeric == DOMAIN TypeWidth
Signed == {"SignedByte", "SignedWord", "SignedDWord"}
MaxText == 32

Span(type) ==
  IF TypeWidth[type] = 1 THEN ByteSize
  ELSE IF TypeWidth[type] = 2 THEN ByteSize * ByteSize
  ELSE (ByteSize * ByteSize) * (ByteSize * ByteSize)

Nothing == [kind |-> "nothing", n |-> 0]
Value(kind, n) == [kind |-> kind, n |-> n]

\* decodeSetValue, with decodeHexOrByteArray.
DecodeSetValue(typed, d) ==
  IF d.typed /\ d.type = "ASCII"
  THEN IF typed.form = "text" THEN Value("text", typed.n) ELSE Nothing
  ELSE IF d.typed /\ d.type \in Numeric
  THEN IF typed.form = "number" THEN Value("number", typed.n) ELSE Nothing
  ELSE IF typed.form = "array" THEN Value("bytes", typed.n)
  ELSE IF typed.form = "text" /\ typed.hex THEN Value("bytes", typed.n \div 2)
  ELSE Nothing

\* A range of nought to nought is none.
ValidateRange(n, d) == (d.min = 0 /\ d.max = 0) \/ (d.min =< n /\ n =< d.max)

Takes(d) ==
  IF ~d.typed THEN "bytes" ELSE IF d.type = "ASCII" THEN "text"
  ELSE IF d.type \in Numeric THEN "number" ELSE "bytes"

SetParam(v, d) ==
  /\ v.kind = Takes(d)
  /\ d.typed => d.settable /\ (d.type \in Numeric => ValidateRange(v.n, d))

EncodeByDataType(v, d) ==
  IF Takes(d) = "number" THEN [length |-> TypeWidth[d.type], number |-> v.n % Span(d.type)]
  ELSE IF Takes(d) = "bytes" THEN [length |-> v.n, number |-> 0]
  ELSE IF d.pdl > 0 /\ v.n > d.pdl THEN [length |-> d.pdl, number |-> 0]
  ELSE [length |-> IF v.n > MaxText THEN MaxText ELSE v.n, number |-> 0]

\* An answer shorter than its type is an error.
DecodeByDataType(data, d) ==
  IF Takes(d) # "number" THEN Value(Takes(d), data.length)
  ELSE IF data.length < TypeWidth[d.type] THEN Nothing
  ELSE IF d.type = "Boolean" THEN Value("number", IF data.number = 0 THEN 0 ELSE 1)
  ELSE IF d.type \in Signed /\ 2 * data.number >= Span(d.type)
       THEN Value("number", data.number - Span(d.type))
  ELSE Value("number", data.number)
-------------------------------------------------------------------------------
(* A value is typed, read under one descriptor and sent under another when the   *)
(* device has been described anew between the two look-ups; the device answers   *)
(* with what it was sent, or with less.                                          *)
CONSTANTS
  Descriptors,      \* what the second look-up may find
  FirstSeen,        \* and the first
  Inputs            \* what may be typed

ASSUME ExchangeAssumption ==
  /\ \A d \in Descriptors \cup FirstSeen :
       d.typed \in BOOLEAN /\ d.pdl \in Nat /\ d.min \in Int /\ d.max \in Int
  /\ \A t \in Inputs : t.n \in Int /\ (t.form # "number" => t.n \in Nat)

VARIABLE exchange   \* [typed, read, sent: the descriptors, lost: bytes missing of the answer]

ExchangeInit ==
  \E t \in Inputs, d \in FirstSeen : exchange = [typed |-> t, read |-> d, sent |-> d, lost |-> 0]

DescribedAnew ==
  /\ exchange.read = exchange.sent /\ exchange.lost = 0
  /\ \E d \in Descriptors : exchange' = [exchange EXCEPT !.sent = d]

Transmitted(x) == EncodeByDataType(DecodeSetValue(x.typed, x.read), x.sent)
IsSent(x) == SetParam(DecodeSetValue(x.typed, x.read), x.sent)

AnswerShortened ==
  /\ IsSent(exchange) /\ exchange.lost < Transmitted(exchange).length
  /\ exchange' = [exchange EXCEPT !.lost = @ + 1]

ExchangeNext == DescribedAnew \/ AnswerShortened
ExchangeSpec == ExchangeInit /\ [][ExchangeNext]_exchange

Answered(x) ==
  DecodeByDataType([length |-> Transmitted(x).length - x.lost, number |-> Transmitted(x).number], x.sent)

\* The descriptor states a range, and its type can hold it.
Lowest(type) == IF type \in Signed THEN 0 - (Span(type) \div 2) ELSE 0
Highest(type) ==
  IF type = "Boolean" THEN 1
  ELSE IF type \in Signed THEN (Span(type) \div 2) - 1 ELSE Span(type) - 1
Bounded(d) ==
  /\ ~(d.min = 0 /\ d.max = 0)
  /\ Lowest(d.type) =< d.min /\ d.max =< Highest(d.type)
-------------------------------------------------------------------------------
\* Who may have described a parameter: the standard its own, the device only what is the
\* manufacturer's, and nobody the rest; no layout is ever taken for another's.
SourceOf(pid) ==
  IF pid \in SpecKnownPids THEN {"standard"}
  ELSE IF pid \in ManufacturerPids THEN {"described", "opaque"} ELSE {"opaque"}

EditorTypeOK ==
  /\ \A p \in Pids : descCache[p] \in SourceOf(p) \cup {none}
  /\ \A u \in Uids, p \in Pids : learnt[u].descriptors[p] \in SourceOf(p) \cup {none}
  /\ \A u \in Uids : learnt[u].unsupported \in BOOLEAN
  /\ \A c \in Editors : editor[c].at = "keep" => editor[c].desc \in SourceOf(editor[c].pid)

\* "cached and shared across every discovered device": whatever the devices answer, and
\* however requests and resets cross, a parameter is asked of all the devices of its
\* manufacturer together no more often than there are requests at one time.
AsksAreShared == \A p \in ManufacturerPids : asks[p] =< Cardinality(Editors)

\* PARAMETER_DESCRIPTION goes out for the manufacturer's parameters only, from the walk
\* and from the look-up of one parameter alike.
AsksOwnOnly == \A c \in Editors : editor[c].at \in {"gate", "asking"} => editor[c].pid \in ManufacturerPids

EditorInvariant == EditorTypeOK /\ AsksAreShared /\ AsksOwnOnly

\* What is accepted within a range that its type can hold is read back from a whole answer
\* as it was typed, whichever descriptor it was typed under; an answer cut short is an error.
SetReadsBack ==
  IsSent(exchange) /\ Takes(exchange.sent) = "number" =>
    IF exchange.lost > 0 THEN Answered(exchange) = Nothing
    ELSE Bounded(exchange.sent) => Answered(exchange) = Value("number", exchange.typed.n)

\* A text is cut to the declared size, or to what a label may have, and never padded.
TextFits ==
  IsSent(exchange) /\ Takes(exchange.sent) = "text" =>
    /\ Transmitted(exchange).length =< exchange.typed.n
    /\ exchange.sent.pdl > 0 => Transmitted(exchange).length =< exchange.sent.pdl

ExchangeInvariant == SetReadsBack /\ TextFits
===============================================================================
