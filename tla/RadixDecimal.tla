---------------------------- MODULE RadixDecimal ----------------------------
(***************************************************************************)
(* Exact integers of the OKF frontmatter reader                            *)
(* (src/crates/okf-core/src/parser.rs): a hexadecimal or octal literal of  *)
(* any length is rewritten in decimal, so that two members of a set that   *)
(* are the same integer are found equal.  The work is done on vectors of   *)
(* limbs (base 100 in the code), long products go through a number         *)
(* theoretic transform, and one conversion is remembered per thread and    *)
(* patched when the next literal differs from it in a short suffix only.   *)
(*                                                                         *)
(* A literal is a record of a sign, a prefix and its digits as numbers; a  *)
(* number that is no digit of the radix stands for any other character.    *)
(* The sizes the code fixes (radix of the output, modulus, thresholds) are *)
(* constants here, small enough for every branch to be taken.              *)
(***************************************************************************)
EXTENDS Integers, Sequences, FiniteSetsExt, SequencesExt

CONSTANTS
    Decimal,         \* radix of the text produced: 10 in the code
    Modulus,         \* NTT_MODULUS, a prime
    PrimitiveRoot,   \* NTT_PRIMITIVE_ROOT
    MaxTransform,    \* NTT_MAX_LENGTH, a power of two dividing Modulus - 1
    ShortLimbs,      \* BASE_100_SCHOOLBOOK_THRESHOLD
    ShortChunks,     \* RADIX_CHUNK_SCHOOLBOOK_THRESHOLD
    Radixes,        \* radix of each prefix of a literal
    ChunkDigits,     \* digits of one chunk, for each radix
    MaxSuffix,       \* longest suffix that may differ, for each radix
    CachedDigits,    \* length from which a conversion is remembered
    MaxCached,       \* MAX_RADIX_DECIMAL_CACHE_BYTES
    Literals         \* the literals that may be asked about

ASSUME RadixAssumption ==
    /\ Decimal \in Nat \ {0, 1}
    /\ Modulus \in Nat \ {0, 1}
    /\ (Modulus - 1) % MaxTransform = 0
    /\ \A prefix \in DOMAIN Radixes : Radixes[prefix] \in Nat \ {0, 1}

VARIABLES
    last,      \* the remembered conversion (RADIX_DECIMAL_CACHE)
    asked,     \* the literal asked about last
    integer    \* what canonical_set_integer said of it

radixVars == <<last, asked, integer>>

(* No text: what the code returns as None. *)
NoText == <<-1>>

(* No remembered conversion, and no question yet. *)
NoEntry == [radix |-> 0, digits |-> <<>>, decimal |-> NoText]
NoLiteral == [sign |-> "", prefix |-> "", digits |-> <<>>]

LimbBase == Decimal * Decimal

-----------------------------------------------------------------------------
(* The transform *)

RECURSIVE ModularPower(_, _)
ModularPower(value, exponent) ==
    IF exponent = 0 THEN 1
    ELSE LET rest == ModularPower((value * value) % Modulus, exponent \div 2)
         IN  IF exponent % 2 = 1 THEN (rest * value) % Modulus ELSE rest

RECURSIVE Reversed(_, _)
Reversed(index, length) ==
    IF length = 1 THEN 0
    ELSE (index % 2) * (length \div 2) + Reversed(index \div 2, length \div 2)

(* One round of butterflies over blocks of the given width. *)
Butterflies(values, width, root) ==
    LET half == width \div 2
        factor(offset) == ModularPower(root, offset)
        turned(i) == (values[i] * factor((i % width) % half)) % Modulus
    IN  [i \in DOMAIN values |->
            IF i % width < half
            THEN (values[i] + turned(i + half)) % Modulus
            ELSE (values[i - half] + Modulus - turned(i)) % Modulus]

RECURSIVE Rounds(_, _, _)
Rounds(values, width, inverse) ==
    IF width > Cardinality(DOMAIN values) THEN values
    ELSE LET forward == ModularPower(PrimitiveRoot, (Modulus - 1) \div width)
             root == IF inverse THEN ModularPower(forward, Modulus - 2)
                     ELSE forward
         IN  Rounds(Butterflies(values, width, root), 2 * width, inverse)

Transform(values, inverse) ==
    LET length == Cardinality(DOMAIN values)
        shuffled == [i \in DOMAIN values |-> values[Reversed(i, length)]]
        turned == Rounds(shuffled, 2, inverse)
        scale == IF inverse THEN ModularPower(length, Modulus - 2) ELSE 1
    IN  [i \in DOMAIN values |-> (turned[i] * scale) % Modulus]

-----------------------------------------------------------------------------
(* Limbs, the least significant first *)

Trimmed(limbs) ==
    LET used == {i \in DOMAIN limbs : limbs[i] # 0}
    IN  SubSeq(limbs, 1, IF used = {} THEN 1 ELSE Max(used))

RECURSIVE Carried(_, _)
Carried(coefficients, carry) ==
    IF coefficients = <<>>
    THEN IF carry = 0 THEN <<>>
         ELSE <<carry % LimbBase>> \o Carried(<<>>, carry \div LimbBase)
    ELSE LET value == Head(coefficients) + carry
         IN  <<value % LimbBase>>
             \o Carried(Tail(coefficients), value \div LimbBase)

SchoolbookProduct(left, right) ==
    LET pairs(k) == {i \in DOMAIN left : k + 1 - i \in DOMAIN right}
        coefficient(k) ==
            MapThenSumSet(LAMBDA i : left[i] * right[k + 1 - i], pairs(k))
    IN  Trimmed(Carried([k \in 1..(Len(left) + Len(right)) |-> coefficient(k)], 0))

RECURSIVE NextPowerOfTwo(_, _)
NextPowerOfTwo(least, candidate) ==
    IF candidate >= least THEN candidate
    ELSE NextPowerOfTwo(least, 2 * candidate)

Shorter(left, right) == IF Len(left) < Len(right) THEN Len(left) ELSE Len(right)

TransformedProduct(left, right, length) ==
    LET padded(limbs) == [i \in 0..(length - 1) |->
                             IF i < Len(limbs) THEN limbs[i + 1] ELSE 0]
        lefts == Transform(padded(left), FALSE)
        rights == Transform(padded(right), FALSE)
        product == Transform([i \in 0..(length - 1) |->
                                 (lefts[i] * rights[i]) % Modulus], TRUE)
    IN  Trimmed(Carried([i \in 1..(Len(left) + Len(right) - 1) |->
                            product[i - 1]], 0))

(* The transform is only used where no coefficient can reach the modulus.  *)
Product(left, right) ==
    LET length == NextPowerOfTwo(Len(left) + Len(right) - 1, 1)
        bound == Shorter(left, right) * (LimbBase - 1) * (LimbBase - 1)
    IN  IF left = <<0>> \/ right = <<0>> THEN <<0>>
        ELSE IF \/ Shorter(left, right) <= ShortLimbs
                \/ bound >= Modulus
                \/ length > MaxTransform
        THEN SchoolbookProduct(left, right)
        ELSE TransformedProduct(left, right, length)

Total(left, right) ==
    LET longest == IF Len(left) < Len(right) THEN Len(right) ELSE Len(left)
        limb(limbs, i) == IF i \in DOMAIN limbs THEN limbs[i] ELSE 0
    IN  Carried([i \in 1..longest |-> limb(left, i) + limb(right, i)], 0)

LimbsOf(number) == IF number = 0 THEN <<0>> ELSE Carried(<<>>, number)

-----------------------------------------------------------------------------
(* From digits of a radix to decimal text *)

RECURSIVE LimbPower(_, _)
LimbPower(base, exponent) ==
    IF exponent = 0 THEN <<1>>
    ELSE IF exponent = 1 THEN base
    ELSE LET half == LimbPower(base, exponent \div 2)
             square == Product(half, half)
         IN  IF exponent % 2 = 0 THEN square ELSE Product(square, base)

AddedChunk(base, limbs, chunk) ==
    Carried([i \in DOMAIN limbs |-> limbs[i] * base], chunk)

RECURSIVE LimbsOfChunks(_, _)
LimbsOfChunks(chunks, base) ==
    IF Len(chunks) <= ShortChunks
    THEN Trimmed(FoldLeft(LAMBDA limbs, chunk : AddedChunk(base, limbs, chunk),
                          <<0>>, chunks))
    ELSE LET middle == Len(chunks) \div 2
             high == LimbsOfChunks(SubSeq(chunks, 1, middle), base)
             low == LimbsOfChunks(SubSeq(chunks, middle + 1, Len(chunks)), base)
             power == LimbPower(LimbsOf(base), Len(chunks) - middle)
         IN  Total(Product(high, power), low)

Valid(digits, radix) == \A i \in DOMAIN digits : digits[i] \in 0..(radix - 1)

NumberOf(digits, radix) ==
    FoldLeft(LAMBDA value, digit : value * radix + digit, 0, digits)

(* The digits cut into chunks from the right; the first may be shorter.    *)
ChunksOf(digits, radix) ==
    LET size == ChunkDigits[radix]
        count == (Len(digits) + size - 1) \div size
        end(k) == Len(digits) - (count - k) * size
        start(k) == IF k = 1 THEN 1 ELSE end(k - 1) + 1
    IN  [k \in 1..count |-> NumberOf(SubSeq(digits, start(k), end(k)), radix)]

DecimalText(limbs) ==
    LET whole(limb) == <<limb \div Decimal, limb % Decimal>>
        lead(limb) == IF limb < Decimal THEN <<limb>> ELSE whole(limb)
    IN  lead(limbs[Len(limbs)])
        \o FlattenSeq([i \in 1..(Len(limbs) - 1) |-> whole(limbs[Len(limbs) - i])])

Converted(digits, radix) ==
    LET size == ChunkDigits[radix]
    IN  IF ~Valid(digits, radix) THEN NoText
        ELSE DecimalText(LimbsOfChunks(ChunksOf(digits, radix), radix ^ size))

-----------------------------------------------------------------------------
(* Patching the remembered conversion *)

RECURSIVE Raised(_, _)
Raised(digits, carry) ==
    IF digits = <<>>
    THEN IF carry = 0 THEN <<>>
         ELSE Append(Raised(<<>>, carry \div Decimal), carry % Decimal)
    ELSE LET sum == Last(digits) + (carry % Decimal)
         IN  Append(Raised(Front(digits), (carry \div Decimal) + (sum \div Decimal)),
                    sum % Decimal)

RECURSIVE Lowered(_, _, _)
Lowered(digits, remaining, borrow) ==
    IF digits = <<>>
    THEN IF remaining > 0 \/ borrow > 0 THEN NoText ELSE <<>>
    ELSE LET taken == (remaining % Decimal) + borrow
             short == Last(digits) < taken
             rest == Lowered(Front(digits), remaining \div Decimal,
                             IF short THEN 1 ELSE 0)
         IN  IF rest = NoText THEN NoText
             ELSE Append(rest, Last(digits) - taken + (IF short THEN Decimal ELSE 0))

WithoutLeadingZeros(digits) ==
    LET used == {i \in DOMAIN digits : digits[i] # 0}
    IN  SubSeq(digits, IF used = {} THEN Len(digits) ELSE Min(used), Len(digits))

WithDelta(decimal, delta) ==
    IF delta = 0 THEN decimal
    ELSE IF delta > 0 THEN Raised(decimal, delta)
    ELSE LET lowered == Lowered(decimal, -delta, 0)
         IN  IF lowered = NoText THEN NoText ELSE WithoutLeadingZeros(lowered)

(* What the entry says of these digits in the radix it was made in: its    *)
(* text as it is, or with the difference of the suffixes added.            *)
PatchedAnyRadix(entry, digits, radix) ==
    LET differ == {i \in DOMAIN digits : digits[i] # entry.digits[i]}
        suffix(text) == SubSeq(text, Min(differ), Len(text))
        delta == NumberOf(suffix(digits), radix)
                 - NumberOf(suffix(entry.digits), radix)
    IN  IF Len(entry.digits) # Len(digits) THEN NoText
        ELSE IF differ = {} THEN entry.decimal
        ELSE IF \/ Len(suffix(digits)) > MaxSuffix[radix]
                \/ ~Valid(suffix(digits), radix)
        THEN NoText
        ELSE WithDelta(entry.decimal, delta)

(* The remembered conversion answers for its own radix only.               *)
Patched(entry, digits, radix) ==
    IF entry.radix # radix THEN NoText ELSE PatchedAnyRadix(entry, digits, radix)

Reused(entry, digits, radix) ==
    IF Len(digits) < CachedDigits THEN NoText ELSE Patched(entry, digits, radix)

DecimalOf(entry, digits, radix) ==
    LET reused == Reused(entry, digits, radix)
    IN  IF reused # NoText THEN reused ELSE Converted(digits, radix)

(* A long conversion that worked is remembered unless it is too large.     *)
Remembered(entry, digits, radix) ==
    LET decimal == DecimalOf(entry, digits, radix)
    IN  IF \/ Len(digits) < CachedDigits
           \/ decimal = NoText
           \/ Len(digits) + Len(decimal) > MaxCached
        THEN entry
        ELSE [radix |-> radix, digits |-> digits, decimal |-> decimal]

-----------------------------------------------------------------------------
(* canonical_set_integer *)

(* A plain decimal literal only loses its leading zeros; a prefixed one    *)
(* takes no sign; and there is no negative zero.                           *)
Canonical(entry, literal) ==
    LET prefixed == literal.prefix # ""
        digits == IF prefixed
                  THEN DecimalOf(entry, literal.digits, Radixes[literal.prefix])
                  ELSE WithoutLeadingZeros(literal.digits)
        refused == IF prefixed THEN literal.sign # "" \/ digits = NoText
                   ELSE literal.digits = <<>> \/ ~Valid(literal.digits, Decimal)
    IN  IF refused THEN [negative |-> FALSE, digits |-> NoText]
        ELSE [negative |-> literal.sign = "-" /\ digits # <<0>>,
              digits |-> digits]

RadixInit ==
    /\ last = NoEntry
    /\ asked = NoLiteral
    /\ integer = [negative |-> FALSE, digits |-> NoText]

CanonicalSetInteger ==
    \E literal \in Literals :
        /\ asked' = literal
        /\ integer' = Canonical(last, literal)
        /\ last' = IF literal.prefix = "" \/ literal.sign # "" THEN last
                   ELSE Remembered(last, literal.digits, Radixes[literal.prefix])

RadixNext == CanonicalSetInteger

-----------------------------------------------------------------------------
(* Reference: the text of a number, read off the number itself. *)

RECURSIVE TextOf(_)
TextOf(number) ==
    IF number < Decimal THEN <<number>>
    ELSE Append(TextOf(number \div Decimal), number % Decimal)

(* Whatever literals were read before, the decimal text of a literal is    *)
(* that of the number it denotes: neither the transform, nor the splitting *)
(* into chunks, nor the remembered conversion and its patching changes it. *)
IntegersExact ==
    LET radix == IF asked.prefix = "" THEN Decimal ELSE Radixes[asked.prefix]
        denotes == /\ asked # NoLiteral
                   /\ Valid(asked.digits, radix)
                   /\ asked.prefix # "" => asked.sign = ""
                   /\ asked.prefix = "" => asked.digits # <<>>
        number == NumberOf(asked.digits, radix)
    IN  integer = IF denotes
                  THEN [negative |-> asked.sign = "-" /\ number # 0,
                        digits |-> TextOf(number)]
                  ELSE [negative |-> FALSE, digits |-> NoText]
=============================================================================
