------------------------------ MODULE ByteFields ------------------------------
(* Byte readers and writers, and the field tables that every codec is made of.  *)
(* A byte is the name of the value it carries and which byte of it, the highest *)
(* first: what a decoder returns tells where each byte of it came from, for     *)
(* every value the field can have.  A field is <<name, width, order>>.          *)
EXTENDS Integers, Sequences, SequencesExt

U8(name) == <<name, 1, "be">>
BE(name, width) == <<name, width, "be">>
LE(name, width) == <<name, width, "le">>
Raw(name, width) == <<name, width, "be">>      \* bytes and fixed strings
Pad(width) == <<"padding", width, "zero">>     \* written as zeros, skipped when read
Count(width) == <<"count", width, "count">>    \* how many items follow

ValueOf(name, width) == [i \in 1 .. width |-> <<name, i>>]
Zeros(width) == [i \in 1 .. width |-> <<"zero", 1>>]
CountOf(n, width) == [i \in 1 .. width |-> <<"count", n, i>>]

\* WriteU8, WriteU16BE, WriteU16LE, WriteBytes, WriteFixedString.
Written(f, n) ==
  CASE f[3] = "be"    -> ValueOf(f[1], f[2])
    [] f[3] = "le"    -> Reverse(ValueOf(f[1], f[2]))
    [] f[3] = "zero"  -> Zeros(f[2])
    [] f[3] = "count" -> CountOf(n, f[2])

Write(layout, n) == FlattenSeq([i \in DOMAIN layout |-> Written(layout[i], n)])

Width(layout) == FoldLeft(LAMBDA w, f : w + f[2], 0, layout)

\* Reader: what has been read, and the offset of the next byte.
ReaderAt(offset) == [at |-> offset, ok |-> TRUE, got |-> <<>>]
Remaining(b, r) == Len(b) - r.at

\* ReadU8, ReadU16BE, ReadU16LE, ReadBytes: a read that does not fit leaves the offset.
Taken(b, r, f) == SubSeq(b, r.at + 1, r.at + f[2])
InOrder(f, bytes) == IF f[3] = "le" THEN Reverse(bytes) ELSE bytes

Got(r, f, bytes) == IF f[3] = "zero" THEN r.got ELSE Append(r.got, <<f[1], bytes>>)

ReadField(b, r, f) ==
  IF Remaining(b, r) < f[2] THEN [r EXCEPT !.ok = FALSE]
  ELSE [r EXCEPT !.at = @ + f[2], !.got = Got(r, f, InOrder(f, Taken(b, r, f)))]

\* The closures u16OrZero, bytesOrZero, u8OrZero of the lenient decoders.
ReadFieldOrZero(b, r, f) ==
  IF Remaining(b, r) < f[2] THEN [r EXCEPT !.got = Got(r, f, Zeros(f[2]))]
  ELSE ReadField(b, r, f)

Read(b, r, must, may) ==
  LET required == FoldLeft(LAMBDA s, f : IF s.ok THEN ReadField(b, s, f) ELSE s, r, must)
  IN IF ~required.ok THEN required
     ELSE FoldLeft(LAMBDA s, f : ReadFieldOrZero(b, s, f), required, may)

\* What a message whose fields are all there is read as.
Whole(layout, n) ==
  LET fields == SelectSeq(layout, LAMBDA f : f[3] # "zero")
  IN [i \in DOMAIN fields |->
        <<fields[i][1], IF fields[i][3] = "count" THEN CountOf(n, fields[i][2])
                        ELSE ValueOf(fields[i][1], fields[i][2])>>]

\* A run of items, each width bytes, the last item last, and the items in a run of bytes.
Run(name, n, width) ==
  [i \in 1 .. n * width |-> <<name, ((i - 1) \div width) + 1, ((i - 1) % width) + 1>>]
ItemBytes(n, width) == Run("item", n, width)
Items(b, n, width) == [k \in 1 .. n |-> SubSeq(b, (k - 1) * width + 1, k * width)]
BytesOf(items, width) ==
  [i \in 1 .. Len(items) * width |-> items[((i - 1) \div width) + 1][((i - 1) % width) + 1]]
===============================================================================
