-------------------------------- MODULE Klib --------------------------------
(***************************************************************************)
(* The parts of klib/ and the console on top of it, in use: the list, the  *)
(* string functions, vsprintf, dbg_printf.  They share no state, so each   *)
(* behaviour is about one of them, `part'.  A call of a string function or *)
(* of vsprintf is one step, for every small memory, format and argument.   *)
(***************************************************************************)
EXTENDS KListUse, Integers

CONSTANTS MemSize, \* cells of memory a string function works on
          Char,    \* what a cell holds, bytes, 0 ends a string
          Passed,  \* the ints to pass for a character, with either sign
          LONG, SHORT, CHAR, PtrDigits, \* of VSprintf, CHAR of KString too
          Width, Precision, Number, \* what directives and arguments to try
          Worker, MaxLen

ASSUME KlibAssumption ==
  /\ MemSize \in Nat /\ Char \subseteq 0..(CHAR - 1) /\ 0 \in Char /\ Passed \subseteq Nat
  /\ {LONG, PtrDigits} \subseteq Nat
  /\ \A size \in {LONG, SHORT, CHAR} : size \in 2..LONG /\ size % 2 = 0
  /\ Width \cup Precision \subseteq 0..9 /\ Number \subseteq 0..(LONG - 1)
  /\ MaxLen \in Nat \ {0} /\ "irq" \notin Worker

Str == INSTANCE KString WITH NUL <- 0
Fmt == INSTANCE VSprintf

VARIABLES part,
          call, \* the function called and its arguments
          done, \* what it returned
          buf, task, out, mixed

Console == INSTANCE Console

cvars == <<buf, task, out, mixed>>
vars == <<lvars, part, call, done, cvars>>

NoCall == [fn |-> "none"]

Init ==
  /\ LInit /\ Console!CInit
  /\ part \in {"list", "string", "format", "console"}
  /\ call = NoCall
  /\ done = NoCall

-----------------------------------------------------------------------------
(* The string functions. *)

Mem == [1..MemSize -> Char]
Address == 1..MemSize

IsString(mem, a) == \E k \in a..MemSize : mem[k] = 0

\* n characters from a on lie in memory, and apart from m characters from b on.
Fits(a, n) == a + n - 1 <= MemSize
Apart(a, n, b, m) == a + n <= b \/ b + m <= a

\* What a function may be called with: strings that end, room for the result,
\* no overlap but for memmove.
May(fn, mem, a, b, n) ==
  LET len(s) == Str!LengthOf(mem, s)
      all(m) == Fits(a, m) /\ Fits(b, m)
  IN CASE fn = "strlen" -> IsString(mem, a) /\ b = 1 /\ n = 0
       [] fn \in {"strchr", "strrchr"} -> IsString(mem, a) /\ b = 1
       [] fn = "strcmp" -> IsString(mem, a) /\ IsString(mem, b) /\ n = 0
       [] fn = "strncmp" -> IsString(mem, a) /\ IsString(mem, b) /\ all(n + 1)
       [] fn = "strcpy" -> /\ n = 0 /\ IsString(mem, b)
                           /\ all(len(b) + 1) /\ Apart(a, len(b) + 1, b, len(b) + 1)
       [] fn = "strncpy" -> /\ IsString(mem, b) /\ Fits(a, n)
                            /\ Apart(a, n, b, len(b) + 1)
       [] fn = "strcat" -> /\ n = 0 /\ IsString(mem, a) /\ IsString(mem, b)
                           /\ Fits(a, len(a) + len(b) + 1)
                           /\ Apart(a, len(a) + len(b) + 1, b, len(b) + 1)
       [] fn = "strncat" -> /\ IsString(mem, a) /\ IsString(mem, b)
                            /\ Fits(a, len(a) + Str!AtMost(len(b), n) + 1)
                            /\ Apart(a, len(a) + len(b) + 1, b, len(b) + 1)
       [] fn = "memset" -> Fits(a, n)
       [] fn = "memcpy" -> all(n) /\ Apart(a, n, b, n)
       [] fn = "memmove" -> all(n)

Returned(fn, mem, a, b, n) ==
  CASE fn = "strlen"  -> Str!strlen(mem, a)
    [] fn = "strchr"  -> Str!strchr(mem, a, n)
    [] fn = "strrchr" -> Str!strrchr(mem, a, n)
    [] fn = "strcmp"  -> Str!Sign(Str!strcmp(mem, a, b))
    [] fn = "strncmp" -> Str!Sign(Str!strncmp(mem, a, b, n))
    [] fn = "strcpy"  -> Str!strcpy(mem, a, b)
    [] fn = "strncpy" -> Str!strncpy(mem, a, b, n)
    [] fn = "strcat"  -> Str!strcat(mem, a, b)
    [] fn = "strncat" -> Str!strncat(mem, a, b, n)
    [] fn = "memset"  -> Str!memset(mem, a, b, n)
    [] fn = "memcpy"  -> Str!memcpy(mem, a, b, n)
    [] fn = "memmove" -> Str!memmove(mem, a, b, n)

StringFn == {"strlen", "strchr", "strrchr", "strcmp", "strncmp", "strcpy", "strncpy",
             "strcat", "strncat", "memset", "memcpy", "memmove"}

\* What is passed second and third: memset takes a character and a length, strchr
\* and strrchr a character last, the others an address and a length.
Passing == Passed \cup {-c : c \in Passed}
Second(fn) == IF fn = "memset" THEN Passing ELSE Address
Third(fn) == IF fn \in {"strchr", "strrchr"} THEN Passing ELSE 0..MemSize

string_call ==
  /\ part = "string" /\ call = NoCall
  /\ \E fn \in StringFn : \E mem \in Mem, a \in Address, b \in Second(fn), n \in Third(fn) :
       /\ May(fn, mem, a, b, n)
       /\ call' = [fn |-> fn, mem |-> mem, a |-> a, b |-> b, n |-> n]
       /\ done' = [value |-> Returned(fn, mem, a, b, n)]
  /\ UNCHANGED <<lvars, part, cvars>>

-----------------------------------------------------------------------------
(* vsprintf of one directive between two other characters. *)

Spelled(n) == IF n = 0 THEN <<>> ELSE <<Fmt!lower_digit[n + 1]>>

Qualifier(q) == IF q = "none" THEN <<>> ELSE IF q = "c" THEN <<"h", "h">> ELSE <<q>>

Format(d) ==
  <<"(", "%">> \o d.flags \o Spelled(d.width)
  \o (IF d.precision = 0 THEN <<>> ELSE <<".">> \o Spelled(d.precision))
  \o Qualifier(d.qualifier) \o <<d.conv, ")">>

Flags == {<<>>, <<"-">>, <<"0">>, <<"+">>, <<"#">>, <<Fmt!Blank>>, <<"-", "0">>, <<"0", "+">>,
          <<"#", "0">>, <<"-", "#">>}

Directives(flags, precisions, qualifiers, convs) ==
  [flags : flags, width : Width, precision : precisions, qualifier : qualifiers, conv : convs]

NumberConv == {"d", "u", "x", "X"}
Strings == {<<"NUL">>, <<"a", "NUL">>, <<"a", "b", "NUL", "c">>, Fmt!NoString}

format_call ==
  /\ part = "format" /\ call = NoCall
  /\ \E d \in Directives(Flags, Precision, {"none", "l", "h", "c"}, NumberConv)
             \cup Directives(Flags, {0}, {"none"}, {"p", "%", "?", "s", "c"}) :
       \E arg \in (IF d.conv = "s" THEN Strings ELSE IF d.conv = "c" THEN {"a"} ELSE Number) :
         /\ call' = [fn |-> "vsprintf", d |-> d, arg |-> arg]
         /\ done' = Fmt!vsprintf(Format(d), <<arg>>)
  /\ UNCHANGED <<lvars, part, cvars>>

-----------------------------------------------------------------------------
return ==
  /\ call # NoCall
  /\ call' = NoCall /\ done' = NoCall
  /\ UNCHANGED <<lvars, part, cvars>>

Next ==
  \/ part = "list" /\ LNext /\ UNCHANGED <<part, call, done, cvars>>
  \/ string_call \/ format_call \/ return
  \/ part = "console" /\ Console!CNext /\ UNCHANGED <<lvars, part, call, done>>

Spec == Init /\ [][Next]_vars

-----------------------------------------------------------------------------
(* The links of a list are the sequence of what was added and not removed, from *)
(* the front and from the back, whatever order of calls left which pointers.    *)
ListIsOrder == WalkIsOrder /\ BothWays

S(mem, a) == Str!Str(mem, a)

\* What C says a function returns, or leaves in memory: characters are compared as
\* bytes, an int passed for one is converted, the end belongs to the string.
InC(fn, mem, a, b, n) ==
  CASE fn = "strlen"  -> Len(S(mem, a))
    [] fn = "strchr"  -> IF \E k \in a..(a + Len(S(mem, a))) : mem[k] = n % CHAR
                         THEN CHOOSE k \in Address : /\ k >= a /\ mem[k] = n % CHAR
                                                     /\ \A j \in a..(k - 1) : mem[j] # n % CHAR
                         ELSE 0
    [] fn = "strrchr" -> IF \E k \in a..(a + Len(S(mem, a))) : mem[k] = n % CHAR
                         THEN CHOOSE k \in a..(a + Len(S(mem, a))) :
                                /\ mem[k] = n % CHAR
                                /\ \A j \in (k + 1)..(a + Len(S(mem, a))) : mem[j] # n % CHAR
                         ELSE 0
    [] fn = "strcmp"  -> Str!Order(S(mem, a), S(mem, b))
    [] fn = "strncmp" -> Str!Order(Str!Prefix(S(mem, a), n), Str!Prefix(S(mem, b), n))
    [] fn = "strcpy"  -> Str!Put(mem, a, Append(S(mem, b), 0))
    [] fn = "strncpy" -> Str!Put(mem, a, [k \in 1..n |-> IF k <= Len(S(mem, b)) THEN S(mem, b)[k] ELSE 0])
    [] fn = "strcat"  -> Str!Put(mem, a + Len(S(mem, a)), Append(S(mem, b), 0))
    [] fn = "strncat" -> Str!Put(mem, a + Len(S(mem, a)), Append(Str!Prefix(S(mem, b), n), 0))
    [] fn = "memset"  -> Str!Put(mem, a, [k \in 1..n |-> b % CHAR])
    [] fn \in {"memcpy", "memmove"} -> Str!Put(mem, a, SubSeq(mem, b, b + n - 1))

\* Of two strings equal so far, the next bytes are one below 128 and one not.
High(c) == c >= CHAR \div 2
SignsDiffer(mem, a, b, m) ==
  \E i \in 0..m : /\ \A k \in 0..(i - 1) : mem[a + k] = mem[b + k]
                  /\ High(mem[a + i]) # High(mem[b + i])

\* Where the functions of string.c differ: strlen counts the end; strncpy does not
\* fill up; strcat does not end its result, which shows unless there is a 0 already;
\* strcmp and strncmp order bytes from 128 on before the others; strncmp goes on
\* behind the end of the strings and to the character after n; strchr and strrchr
\* do not find the end, nor a character passed other than a char of its value is.
Differs(fn, mem, a, b, n) ==
  \/ fn = "strlen"
  \/ fn = "strncpy" /\ \E k \in (a + Len(S(mem, b)))..(a + n - 1) : mem[k] # 0
  \/ fn = "strcat" /\ mem[a + Len(S(mem, a)) + Len(S(mem, b))] # 0
  \/ fn = "strcmp" /\ SignsDiffer(mem, a, b, Str!AtMost(Len(S(mem, a)), Len(S(mem, b))))
  \/ fn = "strncmp" /\ SignsDiffer(mem, a, b, n)
  \/ fn = "strncmp" /\ InC(fn, mem, a, b, n) = 0 /\ \E k \in 0..n : mem[a + k] # mem[b + k]
  \/ /\ fn \in {"strchr", "strrchr"} /\ InC(fn, mem, a, b, n) # 0
     /\ n % CHAR = 0 \/ Str!Plain(n % CHAR) # n

(* The string functions do what C says, for bytes below 128 and above and ints  *)
(* of any sign, overlapping memmoves included, but for the seven that string.c  *)
(* writes otherwise, and for those exactly in the cases Differs names.          *)
AsInC ==
  call.fn \in StringFn =>
    ((done.value = InC(call.fn, call.mem, call.a, call.b, call.n))
       <=> ~Differs(call.fn, call.mem, call.a, call.b, call.n))

\* What stands between the two other characters of the format.
Field == SubSeq(done.text, 2, Len(done.text) - 1)
IsCall(convs) == call.fn = "vsprintf" /\ call.d.conv \in convs

Digit(c) == CHOOSE v \in 0..15 : c \in {Fmt!lower_digit[v + 1], Fmt!upper_digit[v + 1]}

\* The number a reader sees in a text: the digits, and whether there is a minus.
NoDigit == {Fmt!Blank, "+", "-", "x"}
Read(text, base) ==
  LET value[k \in 0..Len(text)] ==
        IF k = 0 THEN 0
        ELSE IF text[k] \in NoDigit THEN value[k - 1]
        ELSE value[k - 1] * base + Digit(text[k])
  IN  IF \E k \in 1..Len(text) : text[k] = "-" THEN -value[Len(text)] ELSE value[Len(text)]

\* The argument as its type has it: of the length's width, with a sign or without.
Meant(num, qualifier, signed) ==
  LET size == IF qualifier = "h" THEN SHORT ELSE IF qualifier = "c" THEN CHAR ELSE LONG
  IN  IF signed /\ num % size >= size \div 2 THEN (num % size) - size ELSE num % size

(* Whatever the flags, width and precision, what a number directive writes      *)
(* reads back as the argument of its type.                                       *)
ReadsBack ==
  IsCall(NumberConv) =>
    Read(Field, IF call.d.conv \in {"x", "X"} THEN 16 ELSE 10)
      = Meant(call.arg, call.d.qualifier, call.d.conv = "d")

(* A field is never narrower than its width nor has fewer digits than its        *)
(* precision asks; the spaces stand before it, or behind it if it is put left.   *)
FillsWidth ==
  IsCall(NumberConv) =>
    /\ Len(Field) >= call.d.width
    /\ Cardinality({k \in 1..Len(Field) : Field[k] \notin NoDigit}) >= call.d.precision
    /\ \A k \in 1..(Len(Field) - 1) :
         Field[k + 1] = Fmt!Blank => k = 1 \/ Field[k] = Fmt!Blank \/ call.d.flags[1] = "-"

(* %s writes all of the string and nothing of what lies behind it, though strlen *)
(* is one more than its length.                                                  *)
StringWhole ==
  (IsCall({"s"}) /\ call.arg # Fmt!NoString) =>
    LET end == CHOOSE k \in 1..Len(call.arg) :
                 call.arg[k] = "NUL" /\ \A j \in 1..(k - 1) : call.arg[j] # "NUL"
    IN  Field = SubSeq(call.arg, 1, end - 1) \o [k \in 1..call.d.width |-> Fmt!Blank]

(* vsprintf writes each argument so that it reads back, in a field as wide as    *)
(* asked, and strings whole.                                                      *)
FormatsAsMeant == ReadsBack /\ FillsWidth /\ StringWhole

(* Tasks and a handler may print at once: puts always finds an end in the buffer,  *)
(* and a call that no other came into, as well as any of a handler, sends exactly  *)
(* its line.                                                                       *)
PrintsItsLine == Console!PrintsItsLine
=============================================================================
