------------------------------- MODULE Codec -------------------------------
(***************************************************************************)
(* The protobuf code generated into .pb.go files, byte by byte.  A message *)
(* is the tuple of its fields, which are numbered 1, 2, 3, ... in all; a   *)
(* pointer is a sequence of at most one message.                           *)
(*                                                                         *)
(* Marshal asks Size for the length of a buffer and fills it from the end; *)
(* a marshalled message is written here as the sequence of the chunks it   *)
(* puts into the buffer, one per field.  Unmarshal reads a table that      *)
(* gives for every field number what the case of its switch does.          *)
(***************************************************************************)
EXTENDS Integers, Sequences, SequencesExt

CONSTANTS WordBits,       \* of a uint64 and an int
          HashLength, AddressLength

Word == 2 ^ WordBits

Zeros(n) == [i \in 1 .. n |-> 0]

Error == [ok |-> FALSE]
-----------------------------------------------------------------------------
\* What Marshal writes.

\* encodeVarintTx
VarintBytes[v \in Nat] ==
  IF v < 128 THEN <<v>> ELSE <<(v % 128) + 128>> \o VarintBytes[v \div 128]

\* sovTx: seven bits a byte
sov(x) == IF x < 128 THEN 1 ELSE 1 + Len(VarintBytes[x \div 128])

Tag(field, wireType) == VarintBytes[field * 8 + wireType]

Delimited(field, bytes) == Tag(field, 2) \o VarintBytes[Len(bytes)] \o bytes

\* A scalar or a byte string is left out when it is zero or empty; what the
\* Go struct holds by value is always written.
PutVarint(field, v) == IF v = 0 THEN <<>> ELSE <<Tag(field, 0) \o VarintBytes[v]>>
PutBytes(field, b)  == IF b = <<>> THEN <<>> ELSE <<Delimited(field, b)>>
PutValue(field, b)  == <<Delimited(field, b)>>
PutEach(field, bs)  == [i \in 1 .. Len(bs) |-> Delimited(field, bs[i])]

PutMessage(field, chunks) == PutValue(field, FlattenSeq(chunks))
PutMessages(field, M(_), ms) ==
  PutEach(field, [i \in 1 .. Len(ms) |-> FlattenSeq(M(ms[i]))])

\* What Size counts for it; tagLen is the length of the tag.
SizeVarint(tagLen, v) == IF v = 0 THEN 0 ELSE tagLen + sov(v)
SizeLength(tagLen, n) == tagLen + n + sov(n)
SizeBytes(tagLen, b)  == IF b = <<>> THEN 0 ELSE SizeLength(tagLen, Len(b))
SizeEach(tagLen, S(_), es) ==
  FoldLeft(LAMBDA sum, e : sum + SizeLength(tagLen, S(e)), 0, es)

\* Marshal: the chunks end up at the end of the buffer, and the first n bytes
\* of it are returned, n being the number of bytes written.  A buffer that is
\* too short is an index out of range.
MarshalBuffer(chunks, size) ==
  LET bytes == FlattenSeq(chunks)
      n     == Len(bytes)
  IN  IF n > size THEN Error
      ELSE [ok |-> TRUE, bytes |-> SubSeq(Zeros(size - n) \o bytes, 1, n)]
-----------------------------------------------------------------------------
\* What the case of a field number does.
Varint        == [kind |-> "varint"]
Bytes         == [kind |-> "bytes"]      \* string, []byte
Dec           == [kind |-> "dec"]        \* math.LegacyDec (external): its digits
Fixed(n)      == [kind |-> "fixed", length |-> n]
Message(t)    == [kind |-> "message", table |-> t]
Pointer(t)    == [kind |-> "pointer", table |-> t]
Repeated(f)   == [kind |-> "repeated", of |-> f]

Hash    == Fixed(HashLength)
Address == Fixed(AddressLength)

\* The zero value of the Go struct.
RECURSIVE Zero(_)
Zero(table) ==
  [i \in 1 .. Len(table) |->
     CASE table[i].kind = "varint"  -> 0
       [] table[i].kind = "fixed"   -> Zeros(table[i].length)
       [] table[i].kind = "message" -> Zero(table[i].table)
       [] OTHER                     -> <<>>]

\* The varint at index i: its value modulo the word, and the index after it.
RECURSIVE VarintAt(_, _, _)
VarintAt(b, i, shift) ==
  IF shift >= WordBits \/ i > Len(b) THEN Error
  ELSE LET bits == ((b[i] % 128) * 2 ^ shift) % Word
       IN  IF b[i] < 128 THEN [ok |-> TRUE, value |-> bits, next |-> i + 1]
           ELSE LET rest == VarintAt(b, i + 1, shift + 7)
                IN  IF rest.ok THEN [rest EXCEPT !.value = @ + bits] ELSE Error

\* The length-delimited bytes at index i; a length is an int.
DelimitedAt(b, i) ==
  LET len == VarintAt(b, i, 0)
  IN  IF ~len.ok \/ len.value >= Word \div 2 THEN Error
      ELSE IF len.next + len.value - 1 > Len(b) THEN Error
      ELSE [ok |-> TRUE, value |-> SubSeq(b, len.next, len.next + len.value - 1),
            next |-> len.next + len.value]

\* skipTx: the index after the field at index i, groups included.
RECURSIVE SkipFrom(_, _, _)
SkipFrom(b, i, depth) ==
  LET wire == VarintAt(b, i, 0)
      type == wire.value % 8
      body == CASE type = 0 -> VarintAt(b, wire.next, 0)
                [] type = 1 -> [ok |-> TRUE, next |-> wire.next + 8]
                [] type = 2 -> LET len == VarintAt(b, wire.next, 0)
                               IN  IF ~len.ok \/ len.value >= Word \div 2 THEN Error
                                   ELSE [ok |-> TRUE, next |-> len.next + len.value]
                [] type \in {3, 4} -> [ok |-> TRUE, next |-> wire.next]
                [] type = 5 -> [ok |-> TRUE, next |-> wire.next + 4]
                [] OTHER -> Error
      inner == IF type = 3 THEN depth + 1 ELSE IF type = 4 THEN depth - 1 ELSE depth
  IN  IF ~wire.ok \/ ~body.ok \/ inner < 0 THEN Error
      ELSE IF inner = 0 THEN [ok |-> TRUE, next |-> body.next]
      ELSE SkipFrom(b, body.next, inner)

SkipAtVarints(b, i) ==   \* mutant: every unknown field is taken for a number
  VarintAt(b, VarintAt(b, i, 0).next, 0)

SkipAt(b, i) ==
  LET s == SkipFrom(b, i, 0)
  IN  IF s.ok /\ s.next <= Len(b) + 1 THEN s ELSE Error

WireType(f) == IF f.kind = "varint" THEN 0 ELSE 2

\* The value of field f at index i, where the message holds old.  A pointer
\* or an embedded message is merged into what is there, a repeated field
\* grows, everything else is overwritten.
RECURSIVE ValueAt(_, _, _, _), UnmarshalFrom(_, _, _, _)
ValueAt(f, b, i, old) ==
  IF f.kind = "varint" THEN VarintAt(b, i, 0)
  ELSE LET d == DelimitedAt(b, i)
           Into(table, m, Wrap(_)) ==
             LET u == UnmarshalFrom(table, d.value, 1, m)
             IN  IF u.ok THEN [d EXCEPT !.value = Wrap(u.message)] ELSE Error
           Itself(m) == m
           AsPointer(m) == <<m>>
       IN  IF ~d.ok THEN Error
           ELSE CASE f.kind \in {"bytes", "dec"} -> d
                  [] f.kind = "fixed"   -> IF Len(d.value) = f.length THEN d ELSE Error
                  [] f.kind = "message" -> Into(f.table, old, Itself)
                  [] f.kind = "pointer" ->
                       Into(f.table, IF old = <<>> THEN Zero(f.table) ELSE old[1], AsPointer)
                  [] f.kind = "repeated" ->
                       LET e == ValueAt(f.of, b, i, IF f.of.kind = "message"
                                                    THEN Zero(f.of.table) ELSE <<>>)
                       IN  IF e.ok THEN [e EXCEPT !.value = Append(old, @)] ELSE Error

\* Unmarshal: fields in any order until the input ends; a number that the
\* table does not have is skipped.
UnmarshalFrom(table, b, i, m) ==
  IF i > Len(b) THEN [ok |-> TRUE, message |-> m]
  ELSE LET wire     == VarintAt(b, i, 0)
           fieldNum == wire.value \div 8
           wireType == wire.value % 8
       IN  IF ~wire.ok THEN Error
           ELSE IF wireType = 4 \/ fieldNum = 0 THEN Error
           ELSE IF fieldNum > Len(table)
           THEN LET s == SkipAt(b, i)
                IN  IF s.ok THEN UnmarshalFrom(table, b, s.next, m) ELSE Error
           ELSE IF wireType # WireType(table[fieldNum]) THEN Error
           ELSE LET v == ValueAt(table[fieldNum], b, wire.next, m[fieldNum])
                IN  IF v.ok THEN UnmarshalFrom(table, b, v.next, [m EXCEPT ![fieldNum] = v.value])
                    ELSE Error

Unmarshal(table, b) == UnmarshalFrom(table, b, 1, Zero(table))
=============================================================================
