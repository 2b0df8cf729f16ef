------------------------------ MODULE VSprintf ------------------------------
(***************************************************************************)
(* klib/vsprintf.c: a format, a sequence of characters, and arguments to   *)
(* the characters written.  A character is a string of length one.         *)
(* A number is a long: the bit pattern 0..LONG-1; short and char are       *)
(* SHORT and CHAR values wide, int is as wide as long.  A string argument  *)
(* is a memory that holds it, or NoString for a null pointer.              *)
(***************************************************************************)
EXTENDS Integers, Sequences, FiniteSetsExt

CONSTANTS LONG, SHORT, CHAR, \* the values of the types: 2^32, 2^16, 2^8
          PtrDigits          \* sizeof(void*) * 2

NUL == "NUL"
Blank == " "
NoString == <<>>

S == INSTANCE KString

lower_digit == <<"0", "1", "2", "3", "4", "5", "6", "7", "8", "9", "a", "b", "c", "d", "e", "f">>
upper_digit == <<"0", "1", "2", "3", "4", "5", "6", "7", "8", "9", "A", "B", "C", "D", "E", "F">>
Digit == {lower_digit[k] : k \in 1..10}

null_str == <<"(", "n", "u", "l", "l", ")", NUL>>

Times(n, c) == [k \in 1..(IF n > 0 THEN n ELSE 0) |-> c]
AtLeast(n, m) == IF n >= m THEN n ELSE m

\* The digits of a number, the last first in tmp; 0 has one.
Digits(value, base, digit) ==
  LET tmp[n \in 0..value] ==
        IF n < base THEN <<digit[n + 1]>> ELSE Append(tmp[n \div base], digit[(n % base) + 1])
  IN  tmp[value]

-----------------------------------------------------------------------------
(* number(): padding, sign, prefix, digits.  The sign is not counted in the *)
(* width; '0' pads after the sign, also beside a precision.                 *)

Negative(num, flags) == num >= LONG \div 2 /\ "SIGN" \in flags

sign(num, base, flags) ==
  IF base # 10 THEN <<>>
  ELSE IF Negative(num, flags) THEN <<"-">>
  ELSE IF "+" \in flags THEN <<"+">>
  ELSE IF Blank \in flags THEN <<Blank>> ELSE <<>>

hash_str(base, flags) == IF "#" \in flags /\ base = 16 THEN <<"0", "x">> ELSE <<>>

\* A mutant: the magnitude of a negative number is its complement.
Magnitude_complement(num, flags) == IF Negative(num, flags) THEN LONG - 1 - num ELSE num
\* ~num + 1
Magnitude(num, flags) == IF Negative(num, flags) THEN LONG - num ELSE num

\* The characters to pad with.
Room(width, precision, prefix, digits) == width - Len(prefix) - AtLeast(precision, Len(digits))

\* The number with its digits, a field of at least width.
Field(num, base, width, precision, flags, digits) ==
  LET room == Room(width, precision, hash_str(base, flags), digits)
      left == "-" \in flags
      zero == "0" \in flags /\ ~left
  IN  (IF ~left /\ ~zero THEN Times(room, Blank) ELSE <<>>)
      \o sign(num, base, flags) \o hash_str(base, flags)
      \o (IF zero THEN Times(room, "0") ELSE <<>>)
      \o Times(precision - Len(digits), "0") \o digits
      \o (IF left THEN Times(room, Blank) ELSE <<>>)

number(num, base, width, precision, flags) ==
  Field(num, base, width, precision, flags,
        Digits(Magnitude(num, flags), base,
               IF "UPPER" \in flags THEN upper_digit ELSE lower_digit))

-----------------------------------------------------------------------------
(* A directive: flags, width, '.' precision, length, conversion.            *)

At(fmt, k) == IF k <= Len(fmt) THEN fmt[k] ELSE NUL

\* The first position from i on where no character of chars is.
Skip(fmt, i, chars) == Min({k \in i..(Len(fmt) + 1) : At(fmt, k) \notin chars})

\* skip_atoi from i up to j.
atoi(fmt, i, j) ==
  LET n[k \in (i - 1)..(j - 1)] ==
        IF k < i THEN 0
        ELSE n[k - 1] * 10 + ((CHOOSE d \in 1..10 : lower_digit[d] = fmt[k]) - 1)
  IN  n[j - 1]

\* The directive whose '%' is at i, from the ends of its flags, width and precision.
DirectiveUpTo(fmt, i, a, b, c) ==
  LET qual == IF At(fmt, c) = "h" /\ At(fmt, c + 1) = "h" THEN "c"
              ELSE IF At(fmt, c) \in {"l", "h"} THEN At(fmt, c) ELSE "none"
      conv == c + (IF qual = "none" THEN 0 ELSE IF qual = "c" THEN 2 ELSE 1)
  IN  [flags |-> {fmt[k] : k \in (i + 1)..(a - 1)}, width |-> atoi(fmt, a, b),
       precision |-> IF c = b THEN 0 ELSE atoi(fmt, b + 1, c),
       qualifier |-> qual, conv |-> At(fmt, conv), start |-> i, next |-> conv + 1]

EndOfWidth(fmt, a) == Skip(fmt, a, Digit)
EndOfPrecision(fmt, b) == IF At(fmt, b) = "." THEN Skip(fmt, b + 1, Digit) ELSE b

Directive(fmt, i) ==
  LET a == Skip(fmt, i + 1, {"+", "-", "0", Blank, "#"})
      b == EndOfWidth(fmt, a)
  IN  DirectiveUpTo(fmt, i, a, b, EndOfPrecision(fmt, b))

\* The argument, cut to the length's type and widened to a long again.
Widened(num, size, signed) ==
  LET cut == num % size
  IN  IF signed /\ cut >= size \div 2 THEN cut + (LONG - size) ELSE cut

SizeOf(qualifier) == IF qualifier = "h" THEN SHORT ELSE IF qualifier = "c" THEN CHAR ELSE LONG

Signed == {"i", "l", "d"}

Converted(d, arg) ==
  LET flags == d.flags \cup (IF d.conv \in Signed THEN {"SIGN"} ELSE {})
                       \cup (IF d.conv = "X" THEN {"UPPER"} ELSE {})
  IN  number(Widened(arg, SizeOf(d.qualifier), d.conv \in Signed),
             IF d.conv \in {"x", "X"} THEN 16 ELSE 10, d.width, d.precision, flags)

\* What a directive writes.  A '%' and an unknown conversion go on to number too,
\* and take an argument that was not meant for them.
Written(d, arg) ==
  CASE d.conv = "p" -> number(arg, 16, 0, PtrDigits, d.flags \cup {"#"})
    [] d.conv = "s" /\ arg # NoString ->
         SubSeq(arg, 1, S!strlen(arg, 1) - 1) \o Times(d.width, Blank)
    [] d.conv = "s" /\ arg = NoString ->
         SubSeq(null_str, 1, S!strlen(null_str, 1)) \o Times(d.width, Blank)
    [] d.conv = "c" -> (IF "-" \in d.flags THEN <<>> ELSE Times(d.width, Blank)) \o <<arg>>
                       \o (IF "-" \in d.flags THEN Times(d.width, Blank) ELSE <<>>)
    [] d.conv \in Signed \cup {"u", "x", "X"} -> Converted(d, arg)
    [] OTHER -> <<"%">> \o Converted(d, arg)

Known == Signed \cup {"u", "x", "X", "p", "s", "c", "%"}

(* One turn of the loop: a character that is copied, or a directive, after   *)
(* an unknown one the characters behind its '%'.                             *)
Convert(st, d, args) ==
  [text |-> st.text \o Written(d, args[st.used + 1]), used |-> st.used + 1,
   at |-> IF d.conv \in Known THEN d.next ELSE d.start + 1]

Copy(st, c) == [text |-> Append(st.text, c), used |-> st.used, at |-> st.at + 1]

Turn(st, fmt, args) ==
  IF st.at > Len(fmt) THEN st
  ELSE IF fmt[st.at] # "%" THEN Copy(st, fmt[st.at])
  ELSE Convert(st, Directive(fmt, st.at), args)

\* What is in the buffer in the end, without the final NUL, and the arguments used.
vsprintf(fmt, args) ==
  LET after[n \in 0..Len(fmt)] ==
        IF n = 0 THEN [text |-> <<>>, used |-> 0, at |-> 1] ELSE Turn(after[n - 1], fmt, args)
  IN  after[Len(fmt)]
=============================================================================
