------------------------------ MODULE KString ------------------------------
(***************************************************************************)
(* klib/string.c as operators on a memory: a sequence of bytes, with       *)
(* addresses 1..Len(mem).  A function that writes returns the memory it    *)
(* leaves, one that only reads what it returns.  A `char' of i386 has a    *)
(* sign: Plain is what the code reads where C compares the bytes.          *)
(***************************************************************************)
EXTENDS Integers, Sequences, FiniteSetsExt

CONSTANTS NUL,
          CHAR \* how many values a byte has, 2^8

NULL == 0

\* The int a byte is when it is read through a `char *'.
Plain(c) == IF c >= CHAR \div 2 THEN c - CHAR ELSE c

AtMost(n, m) == IF n <= m THEN n ELSE m

\* Where the string at s ends.
EndOf(mem, s) == Min({k \in s..Len(mem) : mem[k] = NUL})
LengthOf(mem, s) == EndOf(mem, s) - s

\* The loops that copy n characters, upwards or downwards, one at a time.
CopyUp(mem, dest, src, n) ==
  LET after[k \in 0..n] == IF k = 0 THEN mem
                           ELSE [after[k - 1] EXCEPT ![dest + k - 1] = after[k - 1][src + k - 1]]
  IN  after[n]

CopyDown(mem, dest, src, n) ==
  LET after[k \in 0..n] == IF k = 0 THEN mem
                           ELSE [after[k - 1] EXCEPT ![dest + n - k] = after[k - 1][src + n - k]]
  IN  after[n]

strcpy(mem, dest, src) ==
  [CopyUp(mem, dest, src, LengthOf(mem, src)) EXCEPT ![dest + LengthOf(mem, src)] = NUL]

\* Neither ends the copy nor fills it up.
strncpy(mem, dest, src, n) == CopyUp(mem, dest, src, AtMost(LengthOf(mem, src), n))

\* Does not end the result.
strcat(mem, dest, src) == CopyUp(mem, EndOf(mem, dest), src, LengthOf(mem, src))

strncat(mem, dest, src, n) ==
  LET copied == AtMost(LengthOf(mem, src), n)
  IN  [CopyUp(mem, EndOf(mem, dest), src, copied) EXCEPT ![EndOf(mem, dest) + copied] = NUL]

\* Compares up to the first difference or the end of both.
strcmp(mem, s1, s2) ==
  LET i == Min({k \in 0..AtMost(LengthOf(mem, s1), LengthOf(mem, s2)) :
                  mem[s1 + k] # mem[s2 + k] \/ mem[s1 + k] = NUL})
  IN  Plain(mem[s1 + i]) - Plain(mem[s2 + i])

\* Compares up to the first difference or the character behind the n-th; it does
\* not stop at the end of the strings.
strncmp(mem, s1, s2, n) ==
  LET i == Min({k \in 0..n : mem[s1 + k] # mem[s2 + k] \/ k = n})
  IN  Plain(mem[s1 + i]) - Plain(mem[s2 + i])

\* The pointer has passed the end when the loop stops.
strlen(mem, s) == EndOf(mem, s) + 1 - s

\* The int c is not converted, and the end is not looked at.
Found(mem, s, c) == {k \in s..(EndOf(mem, s) - 1) : Plain(mem[k]) = c}
strchr(mem, s, c) == IF Found(mem, s, c) = {} THEN NULL ELSE Min(Found(mem, s, c))
strrchr(mem, s, c) == IF Found(mem, s, c) = {} THEN NULL ELSE Max(Found(mem, s, c))

memset(mem, s, c, n) == [k \in DOMAIN mem |-> IF k \in s..(s + n - 1) THEN c % CHAR ELSE mem[k]]
memcpy(mem, dest, src, n) == CopyUp(mem, dest, src, n)

\* A mutant: the direction that suits the other overlap.
memmove_up(mem, dest, src, n) ==
  IF dest <= src /\ dest + n > src THEN CopyDown(mem, dest, src, n) ELSE CopyUp(mem, dest, src, n)
memmove(mem, dest, src, n) ==
  IF src <= dest /\ src + n > dest THEN CopyDown(mem, dest, src, n) ELSE CopyUp(mem, dest, src, n)

-----------------------------------------------------------------------------
(* What the functions of these names do in C, said without loops.           *)

Str(mem, s) == SubSeq(mem, s, EndOf(mem, s) - 1)

\* Memory mem with the characters of q from address a on.
Put(mem, a, q) == [k \in DOMAIN mem |-> IF k \in a..(a + Len(q) - 1) THEN q[k - a + 1] ELSE mem[k]]

Prefix(q, n) == SubSeq(q, 1, AtMost(Len(q), n))

Sign(n) == IF n > 0 THEN 1 ELSE IF n < 0 THEN -1 ELSE 0

\* Dictionary order of two strings of bytes.
Order(q, r) ==
  LET less(a, b) == \E i \in 1..Len(b) :
                      /\ Len(a) >= i - 1 /\ SubSeq(a, 1, i - 1) = SubSeq(b, 1, i - 1)
                      /\ Len(a) >= i => a[i] < b[i]
  IN  IF less(q, r) THEN -1 ELSE IF less(r, q) THEN 1 ELSE 0
=============================================================================
