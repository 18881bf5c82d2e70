------------------------------- MODULE Codec -------------------------------
(***************************************************************************)
(* The built-in compression codecs (src/codec.cpp) as pure operators:      *)
(* none, TFDB PackBits v1 and TFDB LZ4 block v1, encoder and decoder.      *)
(*                                                                         *)
(* Every number of the two formats is a constant or follows from one, so   *)
(* that short inputs reach every boundary: a nibble holds Nibble values    *)
(* (16 in the code) and a byte Nibble^2 (256).  The bytes of the data are  *)
(* only ever compared with one another; they may be any symbols.           *)
(* Positions are 1-based.  A decoder returns [ok, bytes].                  *)
(***************************************************************************)
EXTENDS Integers, Sequences, SequencesExt

CONSTANTS
    Nibble,           \* 16
    MinMatch,         \* kLz4MinMatch 4
    LastLiterals,     \* kLz4LastLiterals 5
    MatchFindLimit,   \* kLz4MatchFindLimit 12
    MaxDistance,      \* kLz4MaxDistance 65535
    HashSlots,        \* 2^kLz4HashLog
    LengthSlack       \* 16, the constant of Lz4BlockCodec::max_compressed_size

Byte == Nibble * Nibble

\* MatchFindLimit leaves room for a match in front of the last literals, and
\* a distance fits its two bytes.
ASSUME CodecAssumption ==
    /\ {Nibble, MinMatch, LastLiterals, HashSlots, MaxDistance} \subseteq Nat \ {0}
    /\ Nibble > 1 /\ Nibble % 2 = 0
    /\ MatchFindLimit >= LastLiterals + MinMatch - 1
    /\ MaxDistance < Byte * Byte
    /\ LengthSlack \in Nat

Decoded(bytes) == [ok |-> TRUE, bytes |-> bytes]
Refused == [ok |-> FALSE, bytes |-> <<>>]

-----------------------------------------------------------------------------
(* PackBits: a token below Byte/2 announces token+1 literals, the others a *)
(* run of (token - Byte/2) + 3 copies of one byte.                         *)

MinRun == 3
MaxLiterals == Byte \div 2
MaxRun == Byte \div 2 - 1 + MinRun

\* repeated(): how often the byte at p is repeated, at most MaxRun.
Repeated(input, p) ==
    Max({n \in 1 .. Min({MaxRun, Len(input) - p + 1}) :
            \A i \in 1 .. n - 1 : input[p + i] = input[p]})

\* Where the group of literals that begins at `begin` and already reaches
\* to p ends: at MaxLiterals, or before the next run.
RECURSIVE LiteralEnd(_, _, _)
LiteralEnd(input, begin, p) ==
    IF p > Len(input) \/ p - begin >= MaxLiterals THEN p
    ELSE LET run == Repeated(input, p)
         IN  IF run >= MinRun THEN p
             ELSE LiteralEnd(input, begin,
                             p + Min({run, MaxLiterals - (p - begin)}))

RECURSIVE PackBitsCompress(_, _)
PackBitsCompress(input, p) ==
    LET Run(run) == <<MaxLiterals + (run - MinRun), input[p]>>
                        \o PackBitsCompress(input, p + run)
        Literals(end) == <<end - p - 1>> \o SubSeq(input, p, end - 1)
                             \o PackBitsCompress(input, end)
    IN  IF p > Len(input) THEN <<>>
        ELSE IF Repeated(input, p) >= MinRun THEN Run(Repeated(input, p))
        ELSE Literals(LiteralEnd(input, p, p + Repeated(input, p)))

\* The loop of PackBitsCodec::decompress from position p, with `out` decoded.
RECURSIVE PackBitsDecompress(_, _, _, _)
PackBitsDecompress(stored, expected, p, out) ==
    IF p > Len(stored)
    THEN IF Len(out) = expected THEN Decoded(out) ELSE Refused
    ELSE LET literal == stored[p] < MaxLiterals
             count == IF literal THEN stored[p] + 1
                                 ELSE stored[p] - MaxLiterals + MinRun
             taken == IF literal THEN count ELSE 1
         IN  IF taken > Len(stored) - p \/ count > expected - Len(out)
             THEN Refused
             ELSE PackBitsDecompress(stored, expected, p + 1 + taken,
                      out \o IF literal THEN SubSeq(stored, p + 1, p + count)
                             ELSE [i \in 1 .. count |-> stored[p + 1]])

-----------------------------------------------------------------------------
(* LZ4 block: sequences of a token, literals, a distance and a match.      *)

\* lz4_hash() of the MinMatch bytes at p; the code scatters better.
Hash(input, p) == FoldLeft(+, 0, SubSeq(input, p, p + MinMatch - 1)) % HashSlots

\* What follows a nibble for a length: nothing below the escape value, else
\* bytes that add up to the rest, the last of them below Byte - 1.
LengthBytes(length) ==
    IF length < Nibble - 1 THEN <<>>
    ELSE LET rest == length - (Nibble - 1)
         IN  [i \in 1 .. rest \div (Byte - 1) |-> Byte - 1]
                 \o <<rest % (Byte - 1)>>

Token(literals, match) ==
    Nibble * Min({literals, Nibble - 1}) + Min({match, Nibble - 1})

\* lz4_emit_sequence()
Sequence(literals, distance, length) ==
    <<Token(Len(literals), length - MinMatch)>>
        \o LengthBytes(Len(literals)) \o literals
        \o <<distance % Byte, distance \div Byte>>
        \o LengthBytes(length - MinMatch)

\* lz4_emit_last_literals()
FinalLiterals(literals) ==
    <<Token(Len(literals), 0)>> \o LengthBytes(Len(literals)) \o literals

SameBytes(input, p, q, n) ==
    SubSeq(input, p, p + n - 1) = SubSeq(input, q, q + n - 1)

\* A bug for the model checker to find: the match runs to the end.
MatchLength_ToTheEnd(input, match, p) ==
    Max({n \in MinMatch .. Len(input) - p + 1 : SameBytes(input, match, p, n)})

\* The longest match of p with an earlier position that leaves the last
\* literals alone.
MatchLength(input, match, p) ==
    Max({n \in MinMatch .. Len(input) - LastLiterals - p + 1 :
            SameBytes(input, match, p, n)})

\* The search from position p: `table` holds for each hash the last position
\* that had it (0: none), `anchor` is where the pending literals begin.
RECURSIVE Lz4Search(_, _, _, _)
Lz4Search(input, p, anchor, table) ==
    IF p > Len(input) - MatchFindLimit
    THEN FinalLiterals(SubSeq(input, anchor, Len(input)))
    ELSE LET slot == Hash(input, p)
             match == table[slot]
             seen == [table EXCEPT ![slot] = p]
         IN  IF \/ match = 0
                \/ p - match > MaxDistance
                \/ ~SameBytes(input, match, p, MinMatch)
             THEN Lz4Search(input, p + 1, anchor, seen)
             ELSE LET next == p + MatchLength(input, match, p)
                  IN  Sequence(SubSeq(input, anchor, p - 1), p - match, next - p)
                          \o Lz4Search(input, next, next, seen)

Lz4Compress(input) == Lz4Search(input, 1, 1, [h \in 0 .. HashSlots - 1 |-> 0])

\* lz4_read_length(): continues a saturated nibble at position p, with no
\* more than `limit` in total.  Next is the position behind it.
RECURSIVE ReadLength(_, _, _, _)
ReadLength(stored, limit, p, length) ==
    IF p > Len(stored) \/ length > limit \/ stored[p] > limit - length
    THEN [ok |-> FALSE, length |-> 0, next |-> p]
    ELSE IF stored[p] = Byte - 1
         THEN ReadLength(stored, limit, p + 1, length + stored[p])
         ELSE [ok |-> TRUE, length |-> length + stored[p], next |-> p + 1]

Length(stored, limit, p, nibble) ==
    IF nibble = Nibble - 1 THEN ReadLength(stored, limit, p, nibble)
    ELSE [ok |-> TRUE, length |-> nibble, next |-> p]

\* The byte-wise copy of a match: what lies `distance` back, repeated where
\* the match overlaps itself.
Repeat(out, distance, length) ==
    out \o [i \in 1 .. length |-> out[Len(out) - distance + 1 + ((i - 1) % distance)]]

\* A bug for the model checker to find: what was decoded is returned.
Finish_AnySize(out, expected, begin, end) == Decoded(out)

\* What is checked once the stream has ended; `begin` and `end` delimit the
\* last match in the output (both 0: there was none).
Finish(out, expected, begin, end) ==
    IF \/ Len(out) # expected
       \/ end # 0 /\ \/ expected - end < LastLiterals
                     \/ expected - begin < MatchFindLimit
    THEN Refused ELSE Decoded(out)

\* The loop of Lz4BlockCodec::decompress from position p: a token, its
\* literals, and the match behind them unless the stream ends there.
RECURSIVE Lz4Decompress(_, _, _, _, _, _)
Lz4Decompress(stored, expected, p, out, begin, end) ==
    LET Match(copied, distance, more) ==
            IF \/ distance = 0 \/ distance > Len(copied)
               \/ ~more.ok
               \/ more.length + MinMatch > expected - Len(copied)
            THEN Refused
            ELSE Lz4Decompress(stored, expected, more.next,
                               Repeat(copied, distance, more.length + MinMatch),
                               Len(copied), Len(copied) + more.length + MinMatch)
        Sequel(copied, after) ==
            IF after > Len(stored)
            THEN IF stored[p] % Nibble # 0 THEN Refused
                 ELSE Finish(copied, expected, begin, end)
            ELSE IF Len(stored) - (after - 1) < 2 THEN Refused
            ELSE Match(copied, stored[after] + Byte * stored[after + 1],
                       Length(stored, expected, after + 2, stored[p] % Nibble))
        Literals(lit) ==
            IF \/ ~lit.ok
               \/ lit.length > Len(stored) - (lit.next - 1)
               \/ lit.length > expected - Len(out)
            THEN Refused
            ELSE Sequel(out \o SubSeq(stored, lit.next, lit.next + lit.length - 1),
                        lit.next + lit.length)
    IN  IF p > Len(stored) THEN Finish(out, expected, begin, end)
        ELSE Literals(Length(stored, expected, p + 1, stored[p] \div Nibble))

-----------------------------------------------------------------------------
(* built_in_codec(): the three codecs by their name.                       *)

Compress(codec, input) ==
    CASE codec = "none"      -> input
      [] codec = "packbits"  -> PackBitsCompress(input, 1)
      [] codec = "lz4_block" -> Lz4Compress(input)

MaxCompressedSize(codec, size) ==
    CASE codec = "none"      -> size
      [] codec = "packbits"  -> size + (size + MaxLiterals - 1) \div MaxLiterals
      [] codec = "lz4_block" -> size + size \div (Byte - 1) + LengthSlack

Decompress(codec, stored, expected) ==
    CASE codec = "none"      -> IF Len(stored) = expected THEN Decoded(stored)
                                                          ELSE Refused
      [] codec = "packbits"  -> PackBitsDecompress(stored, expected, 1, <<>>)
      [] codec = "lz4_block" -> Lz4Decompress(stored, expected, 1, <<>>, 0, 0)
=============================================================================
