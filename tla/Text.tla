-------------------------------- MODULE Text --------------------------------
(***************************************************************************)
(* The helpers of common/split.cpp, common.cpp and web/server.cpp that     *)
(* take texts apart.  A text is a sequence of character codes.             *)
(***************************************************************************)
EXTENDS Integers, Sequences, SequencesExt

CONSTANTS
    IntBits,          \* width of int and unsigned
    LongBits          \* width of long and unsigned long

ASSUME WidthAssumption == IntBits \in Nat \ {0} /\ LongBits \in Nat /\ IntBits < LongBits

SPACE == 32
PERCENT == 37
AMP == 38
OPEN == 40
CLOSE == 41
PLUS == 43
COMMA == 44
MINUS == 45
EQ == 61
QUERY == 63

\* No character: the stream could not read one.
Unread == -1
-----------------------------------------------------------------------------
(* split_any *)

\* The end of the text ends only a part that has begun.
LastPart(part) == IF part = <<>> THEN <<>> ELSE <<part>>

\* allow_blank
split_any(src, separators) ==
    LET Step(acc, c) == IF c \in separators
                        THEN [parts |-> Append(acc.parts, acc.part), part |-> <<>>]
                        ELSE [acc EXCEPT !.part = Append(@, c)]
        r == FoldLeft(Step, [parts |-> <<>>, part |-> <<>>], src)
    IN  r.parts \o LastPart(r.part)

\* skip_blank
split_skip_blank(src, separators) ==
    SelectSeq(split_any(src, separators), LAMBDA part : part # <<>>)

\* From both ends; of the white space there are only blanks here.
trim(s) ==
    LET kept == {i \in DOMAIN s : s[i] # SPACE}
    IN  IF kept = {} THEN <<>> ELSE SubSeq(s, Min(kept), Max(kept))

\* Of the pair, the second is empty when there is no separator.
split_by(url, separator) ==
    LET p == SelectInSeq(url, LAMBDA c : c = separator)
    IN  IF p = 0 THEN <<url, <<>>>> ELSE <<SubSeq(url, 1, p - 1), SubSeq(url, p + 1, Len(url))>>

\* Quotes, question marks and backslashes are left out.
escape_string(str) == SelectSeq(str, LAMBDA c : c \notin {34, 39, QUERY, 92})
-----------------------------------------------------------------------------
(* url_decode, parse_url *)

IsDigit(c) == c \in 48..57
IsHex(c) == IsDigit(c) \/ c \in 65..70 \/ c \in 97..102
Hex(c) == IF IsDigit(c) THEN c - 48 ELSE IF c < 97 THEN c - 55 ELSE c - 87

\* What a stream reads from two characters as a hexadecimal int, as a char:
\* one digit is enough, blanks and a sign may lead.
HexPair(a, b) ==
    CASE IsHex(a) /\ IsHex(b) -> 16 * Hex(a) + Hex(b)
      [] IsHex(a) /\ ~IsHex(b) -> IF a = 48 /\ b \in {88, 120} THEN Unread ELSE Hex(a)
      [] a \in {SPACE, PLUS} /\ IsHex(b) -> Hex(b)
      [] a = MINUS /\ IsHex(b) -> (256 - Hex(b)) % 256
      [] OTHER -> Unread

\* Mutant: a plus is not a blank.
Plain_KeepsPlus(c) == c

Plain(c) == IF c = PLUS THEN SPACE ELSE c

\* A broken escape ends the decoding; callers use what there is by then.
url_decode(in) ==
    LET Step(acc, i) ==
            IF acc.failed \/ i < acc.next THEN acc
            ELSE IF in[i] # PERCENT THEN [acc EXCEPT !.out = Append(@, Plain(in[i]))]
            ELSE IF i + 2 > Len(in) \/ HexPair(in[i + 1], in[i + 2]) = Unread
                 THEN [acc EXCEPT !.failed = TRUE]
                 ELSE [acc EXCEPT !.out = Append(@, HexPair(in[i + 1], in[i + 2])), !.next = i + 3]
    IN  FoldLeft(Step, [out |-> <<>>, next |-> 1, failed |-> FALSE], [i \in DOMAIN in |-> i]).out

\* Taken apart first, decoded then; of two values of a key the last counts.
parse_url(url) ==
    LET target == split_by(url, QUERY)
        Set(params, kv) ==
            LET key == url_decode(split_by(kv, EQ)[1])
                value == url_decode(split_by(kv, EQ)[2])
            IN  [k \in DOMAIN params \cup {key} |-> IF k = key THEN value ELSE params[k]]
    IN  [path |-> target[1],
         params |-> FoldLeft(Set, [k \in {} |-> <<>>], split_any(target[2], {AMP}))]
-----------------------------------------------------------------------------
(* Base64: the alphabet by its indices 0..63, "=" by Pad. *)

Pad == 64
Pads(s) == [i \in 1..((4 - (Len(s) % 4)) % 4) |-> Pad]

LastGroup(val, valb) ==
    IF valb > -6 THEN <<((val * 256) \div 2^(valb + 8)) % 64>> ELSE <<>>

\* val keeps what the masks can still reach, 16 of its 32 bits.  A byte
\* completes one group of six bits, or two.
encode_base64(in) ==
    LET Byte(acc, c) ==
            LET val == (acc.val * 256 + c) % 65536
                valb == acc.valb + 8
                Group(b) == (val \div 2^b) % 64
            IN  IF valb >= 6
                THEN [val |-> val, valb |-> valb - 12, out |-> acc.out \o <<Group(valb), Group(valb - 6)>>]
                ELSE [val |-> val, valb |-> valb - 6, out |-> Append(acc.out, Group(valb))]
        r == FoldLeft(Byte, [val |-> 0, valb |-> -6, out |-> <<>>], in)
        groups == r.out \o LastGroup(r.val, r.valb)
    IN  groups \o Pads(groups)

\* Padded to a multiple of four; "=" is read as "A", which is zero; four
\* groups make three bytes; as many bytes go as there were "=".
decode_base64(input) ==
    LET in == input \o Pads(input)
        Six(i) == IF in[i] = Pad THEN 0 ELSE in[i]
        Word(k) == ((Six(4*k + 1) * 64 + Six(4*k + 2)) * 64 + Six(4*k + 3)) * 64 + Six(4*k + 4)
        out == [j \in 1..(3 * (Len(in) \div 4)) |-> (Word((j - 1) \div 3) \div 256^(2 - ((j - 1) % 3))) % 256]
    IN  SubSeq(out, 1, Len(out) - Len(SelectSeq(in, LAMBDA c : c = Pad)))
-----------------------------------------------------------------------------
(* to<T>: strtol or strtoul, numeric_cast, and nothing left of the text. *)

Number(digits) == FoldLeft(LAMBDA n, c : 10 * n + c - 48, 0, digits)

LongMax == 2^(LongBits - 1) - 1
ULongMax == 2^LongBits - 1

\* The value and how much of the text it took: blanks, a sign, digits; none
\* of it without a digit.  Both clamp, and strtoul negates what is in range.
strto(unsigned, s) ==
    LET first == CHOOSE i \in 1..(Len(s) + 1) : /\ \A j \in 1..(i - 1) : s[j] = SPACE
                                                /\ i <= Len(s) => s[i] # SPACE
        neg == first <= Len(s) /\ s[first] = MINUS
        from == IF first <= Len(s) /\ s[first] \in {MINUS, PLUS} THEN first + 1 ELSE first
        end == CHOOSE j \in (from - 1)..Len(s) : /\ \A i \in from..j : IsDigit(s[i])
                                                 /\ j < Len(s) => ~IsDigit(s[j + 1])
        n == Number(SubSeq(s, from, end))
    IN  [end |-> IF end < from THEN 0 ELSE end,
         value |-> CASE unsigned -> IF n > ULongMax THEN ULongMax
                                    ELSE IF neg THEN (2^LongBits - n) % 2^LongBits ELSE n
                     [] ~unsigned /\ neg -> IF n > LongMax + 1 THEN -LongMax - 1 ELSE -n
                     [] OTHER -> IF n > LongMax THEN LongMax ELSE n]

\* static_cast keeps the low bits.
static_cast(unsigned, v) ==
    LET low == v % 2^IntBits
    IN  IF unsigned \/ low < 2^(IntBits - 1) THEN low ELSE low - 2^IntBits

\* Mutant: nobody looks at what the cast has cut off.
numeric_cast_Cuts(unsigned, v) == <<static_cast(unsigned, v)>>

\* As a sequence of one number, or none when it throws.
numeric_cast(unsigned, v) == IF static_cast(unsigned, v) = v THEN <<v>> ELSE <<>>

\* to<int> and to<unsigned>
to_number(unsigned, s) ==
    LET r == strto(unsigned, s)
    IN  IF r.end # Len(s) THEN <<>> ELSE numeric_cast(unsigned, r.value)

\* extractIntegralValues: the runs of digits and minus signs, without those
\* that are no numbers; extractIntegralValuesToSet is its range.
extractIntegralValues(str) ==
    LET runs == split_skip_blank(str, {c \in Range(str) : ~IsDigit(c) /\ c # MINUS})
    IN  FoldLeft(LAMBDA out, run : out \o to_number(FALSE, run), <<>>, runs)
=============================================================================
