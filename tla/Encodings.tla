----------------------------- MODULE Encodings -----------------------------
(***************************************************************************)
(* The conversions of identifiers: the text of snowflake IDs in an         *)
(* alphabet (extend/snowflake), byte slices in base 58 (extend/base58),    *)
(* and the four fields of a node ID (facade/uid.go).  A character is the   *)
(* number of its place in the alphabet.                                    *)
(***************************************************************************)
EXTENDS Numbers, SequencesExt

CONSTANTS Alphabet,      \* the number of characters: 32 and 58 in the code
          BlockDigits,   \* the characters base58 converts at a time: 10
          ByteValues,    \* the number of values of a byte: 256
          Radixes,       \* of strconv's texts: 10, 2 and 36
          IntWidth,      \* the bytes of an int64: 8
          BigWorldBits,  \* width of the first field of a node ID: 10
          CommonBits     \* width of the other three: 18

ASSUME EncodingsAssumption ==
    /\ {Alphabet, ByteValues} \cup Radixes \subseteq Nat \ {0, 1}
    /\ {IntWidth, BlockDigits, BigWorldBits, CommonBits} \subseteq Nat \ {0}
-----------------------------------------------------------------------------
\* The loop of Base32 and Base58 appends the last digit first and reverses the result.
LastFirst(base) ==
    LET text[f \in Nat] == IF f < base THEN <<f>> ELSE <<f % base>> \o text[f \div base]
    IN  text
BaseText(f) == Reverse(LastFirst(Alphabet)[f])
ParseBaseText(text) == Number(text, Alphabet)

\* String, Base2 and Base36, by strconv.FormatInt, and ParseInt.
InRadix(f, radix) == Reverse(LastFirst(radix)[f])
ParseInRadix(text, radix) == Number(text, radix)

\* IntBytes: big-endian, of a fixed width.
IntBytes(f) == FixedDigits(f, ByteValues, IntWidth)
ParseIntBytes(bytes) == Number(bytes, ByteValues)

\* A JSON string: UnmarshalJSON wants the two quotes and something between them.
Quote == ByteValues
MarshalJSON(f, radix) == <<Quote>> \o InRadix(f, radix) \o <<Quote>>
UnmarshalJSON(b, radix) ==
    IF Len(b) < 3 \/ b[1] # Quote \/ b[Len(b)] # Quote THEN {}
    ELSE {ParseInRadix(SubSeq(b, 2, Len(b) - 1), radix)}
-----------------------------------------------------------------------------
\* Encode of base58, the inner loop, for a part p of the number: it takes digits while
\* more parts are to come or this one has some left, and at most BlockDigits.
EncodeBlock(p, more) ==
    LET left(i) == p \div Power(Alphabet)[i]
        turns == CHOOSE n \in 0..BlockDigits :
                    /\ \A i \in 0..n - 1 : more \/ left(i) > 0
                    /\ n < BlockDigits => ~more /\ left(n) = 0
    IN  [i \in 1..turns |-> left(i - 1) % Alphabet]

intermediateRadix == Power(Alphabet)[BlockDigits]
EncodeNumber[num \in Nat] ==
    IF num = 0 THEN <<>>
    ELSE LET rest == num \div intermediateRadix
         IN  EncodeBlock(num % intermediateRadix, rest > 0) \o EncodeNumber[rest]

\* The zeros a slice begins with, kept as they are.
Zeros(s) == SubSeq(s, 1, Max({n \in 0..Len(s) : \A i \in 1..n : s[i] = 0}))

Encode(input) == Reverse(EncodeNumber[Number(input, ByteValues)] \o Zeros(input))

\* Decode, the result after i characters: a block begins at every multiple of BlockDigits.
DecodeNumber(text) ==
    LET result[i \in 0..Len(text)] ==
            LET begin == BlockDigits * ((i - 1) \div BlockDigits)
            IN  IF i = 0 THEN 0
                ELSE result[begin] * Power(Alphabet)[i - begin]
                     + Number(SubSeq(text, begin + 1, i), Alphabet)
    IN  result[Len(text)]

\* big.Int.Bytes: no byte for zero.
BigBytes[n \in Nat] == IF n = 0 THEN <<>> ELSE Append(BigBytes[n \div ByteValues], n % ByteValues)

Decode(text) == Zeros(text) \o BigBytes[DecodeNumber(text)]
-----------------------------------------------------------------------------
\* A node ID: <<bigworldId, worldId, NodeType, NodeInst>>, each cut to its width.
Shift(bits) == Power(2)[bits]
GenNodeId(fields) ==
    LET common(i) == fields[i] % Shift(CommonBits)
    IN  (fields[1] % Shift(BigWorldBits)) * Shift(3 * CommonBits)
        + common(2) * Shift(2 * CommonBits) + common(3) * Shift(CommonBits) + common(4)

\* GetBigWorldId, GetWorldId, GetNodeType and GetNodeInst, as ToNodeIdStr lists them.
ToNodeIdStr(nodeId) ==
    <<(nodeId \div Shift(3 * CommonBits)) % Shift(BigWorldBits),
      (nodeId \div Shift(2 * CommonBits)) % Shift(CommonBits),
      (nodeId \div Shift(CommonBits)) % Shift(CommonBits), nodeId % Shift(CommonBits)>>

\* GenNodeIdByStr: fewer than four numbers are an error, and what follows is ignored.
GenNodeIdByStr(numbers) == IF Len(numbers) < 4 THEN {} ELSE {GenNodeId(numbers)}
-----------------------------------------------------------------------------
\* A number comes back from each of its texts: as an ID in every radix, as the bytes of
\* an int and of a slice, also behind zeros, and as the fields of a node.
ComesBack(n) ==
    /\ ParseBaseText(BaseText(n)) = n
    /\ n < Power(ByteValues)[IntWidth] => ParseIntBytes(IntBytes(n)) = n
    /\ \A r \in Radixes : /\ ParseInRadix(InRadix(n, r), r) = n
                          /\ UnmarshalJSON(MarshalJSON(n, r), r) = {n}
    /\ \A zeros \in 0..2 : LET input == [i \in 1..zeros |-> 0] \o BigBytes[n]
                            IN  Decode(Encode(input)) = input
    /\ n < Shift(BigWorldBits + 3 * CommonBits) => GenNodeIdByStr(ToNodeIdStr(n)) = {n}
=============================================================================
