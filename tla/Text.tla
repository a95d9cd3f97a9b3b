-------------------------------- MODULE Text --------------------------------
(***************************************************************************)
(* What log and VBE_putf print.  A format is a sequence of records: a      *)
(* character ("text"), a directive that takes an argument, or a % before   *)
(* any other letter ("odd").  A printed character is a record too: a digit *)
(* or a character.  No format of the kernel ends in a %.                   *)
(***************************************************************************)
EXTENDS Integers, Sequences, SequencesExt

CONSTANTS
    UintMax,        \* the largest unsigned int (2^32 - 1)
    BufferSize      \* of string_convert's static buffer (50)

Char(c) == [is |-> "char", value |-> c]
Digit(d) == [is |-> "digit", value |-> d]

Percent == Char("%")
LineFeed == Char("newline")

\* The loop tested before its first round.
string_convertEmpty(num, base) ==
    LET digits[m \in 0..num] ==
            IF m = 0 THEN <<>> ELSE Append(digits[m \div base], Digit(m % base))
    IN  digits[num]

\* string_convert: the digits from the last to the first, at least one.
string_convert(num, base) ==
    LET digits[m \in 0..num] ==
            IF m < base THEN <<Digit(m)>>
            ELSE Append(digits[m \div base], Digit(m % base))
    IN  digits[num]

\* The longest number has room in the buffer, and the 0 behind it.
ASSUME TextAssumption ==
    UintMax \in Nat /\ BufferSize \in Nat /\ Len(string_convert(UintMax, 8)) < BufferSize

Base == [d |-> 10, o |-> 8, x |-> 16]

Takes(piece) == piece.is \in {"c", "d", "o", "s", "x"}

\* The argument the k-th piece of a format takes.
Argument(format, args, k) == args[Len(SelectSeq(SubSeq(format, 1, k), Takes))]

\* i = va_arg(arg, int): what fits an unsigned int.
AsInt(arg) == arg % (UintMax + 1)

\* What a piece prints.  The sign test of %d compares an unsigned number with
\* 0, so it never prints a minus; the letter after an odd % is dropped.
Printed(piece, arg) ==
    IF piece.is = "text" THEN <<piece.char>>
    ELSE IF piece.is = "odd" THEN <<Percent>>
    ELSE IF piece.is = "c" THEN <<arg>>
    ELSE IF piece.is = "s" THEN arg
    ELSE string_convert(AsInt(arg), Base[piece.is])

printf(format, args) ==
    FlattenSeq([k \in DOMAIN format |->
        Printed(format[k], IF Takes(format[k]) THEN Argument(format, args, k) ELSE 0)])

VBE_putf(format, args) == Append(printf(format, args), LineFeed)

VBE_cputf(format, args) == Append(printf(format, args), LineFeed)

Statuses == {"INFO", "DEBUG", "WARNING", "ERROR", "PANIC"}

Lit(c) == [is |-> "text", char |-> Char(c)]
Directive(letter) == [is |-> letter]

\* The format of the line's head: time, status with its colour, module.
LineHead(status) ==
    IF status \notin Statuses THEN <<Lit(" string")>>
    ELSE <<Directive("d"), Lit(":"), Directive("d"), Lit(":"), Directive("d"),
           Lit(status), Directive("s"), Lit(":"), Directive("s")>>

\* log: the head, the message, a line feed.
log(status, time, module, format, args) ==
    printf(LineHead(status), time \o <<module, <<Char(" ")>>>>)
        \o printf(format, args) \o <<LineFeed>>

\* The number a sequence of digits stands for.
Reads(digits, base) ==
    LET number[k \in 0..Len(digits)] ==
            IF k = 0 THEN 0 ELSE number[k - 1] * base + digits[k].value
    IN  number[Len(digits)]
=============================================================================
