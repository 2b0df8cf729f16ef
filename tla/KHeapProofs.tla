---------------------------- MODULE KHeapProofs ----------------------------
(***************************************************************************)
(* KHeap for any size of a page, any number of pages and any requests: as  *)
(* long as no caller frees a block above one in use, the chunks tile the   *)
(* heap, the callers' blocks are apart, the free ones merged, and kmalloc  *)
(* grows the heap only when it must.  The lemmas say what each way of      *)
(* rewriting tags does to a tiling, whatever the tiling.                   *)
(***************************************************************************)
EXTENDS KHeap, TLAPS

Top == MaxPages * PAGE

Tag == [size : Nat, alloc : BOOLEAN]
FreeTag(n) == [size |-> n, alloc |-> FALSE]
TakenTag(n) == [size |-> n, alloc |-> TRUE]

LEMMA FreeTagIsTag ==
  ASSUME NEW n \in Nat
  PROVE  FreeTag(n) \in Tag /\ FreeTag(n).size = n /\ FreeTag(n).alloc = FALSE
BY DEF FreeTag, Tag

LEMMA TakenTagIsTag ==
  ASSUME NEW n \in Nat
  PROVE  TakenTag(n) \in Tag /\ TakenTag(n).size = n /\ TakenTag(n).alloc = TRUE
BY DEF TakenTag, Tag

\* The chunks C lie one after the other from 0 to e, and each has its tag in t
\* at both ends.
Tiled(t, C, e) ==
  /\ e \in 0..Top /\ C \subseteq Addr /\ DOMAIN t = Addr
  /\ \A c \in C : t[c] \in Tag
  /\ e > 0 => 0 \in C
  /\ \A c \in C :
       /\ next_chunk(t, c) \in C \cup {e}
       /\ next_chunk(t, c) <= e
       /\ t[next_chunk(t, c) - 1] = t[c]
       /\ \A d \in C : c < d => next_chunk(t, c) <= d
  /\ \A c \in C \cup {e} : c # 0 => \E d \in C : next_chunk(t, d) = c

-----------------------------------------------------------------------------
(* Tilings *)

LEMMA Memory == Top \in Nat /\ Addr = 0 .. (Top - 1)
BY KHeapAssumption DEF Top, Addr, KHeapAssumption

\* Where a chunk begins and ends.
LEMMA Extent ==
  ASSUME NEW t, NEW C, NEW e, Tiled(t, C, e), NEW c \in C
  PROVE  /\ c \in Nat /\ c < Top /\ e \in Nat /\ e <= Top
         /\ t[c] \in Tag /\ t[c].size \in Nat /\ t[c].alloc \in BOOLEAN
         /\ next_chunk(t, c) = c + t[c].size + 2
         /\ next_chunk(t, c) \in Nat /\ c + 2 <= next_chunk(t, c) /\ next_chunk(t, c) <= e
         /\ c < e
BY Memory DEF Tiled, Tag, next_chunk, HEADER_FULL_SIZE

LEMMA After ==
  ASSUME NEW t, NEW C, NEW e, Tiled(t, C, e), NEW c \in C, NEW d \in C, c < d
  PROVE  next_chunk(t, c) <= d
BY DEF Tiled

\* Without a heap there are no chunks.
LEMMA NoHeap ==
  ASSUME NEW t, NEW C, Tiled(t, C, 0)
  PROVE  C = {}
<1> SUFFICES ASSUME NEW c \in C PROVE FALSE
  OBVIOUS
<1> QED
  BY Extent

\* What chunk_set_size leaves at both ends of the chunk, and everywhere else.
LEMMA SetSizeEnds ==
  ASSUME NEW t, NEW c \in Nat, NEW n \in Nat, c + n + 2 <= Top
  PROVE  /\ DOMAIN chunk_set_size(t, c, n) = Addr
         /\ chunk_set_size(t, c, n)[c] = FreeTag(n)
         /\ chunk_set_size(t, c, n)[c + n + 1] = FreeTag(n)
         /\ next_chunk(chunk_set_size(t, c, n), c) = c + n + 2
BY Memory DEF chunk_set_size, next_chunk, HEADER_FULL_SIZE, FreeTag

LEMMA SetSizeElsewhere ==
  ASSUME NEW t, NEW c \in Nat, NEW n \in Nat, c + n + 2 <= Top,
         NEW a \in Addr, a < c \/ a >= c + n + 2
  PROVE  chunk_set_size(t, c, n)[a] = t[a]
BY Memory DEF chunk_set_size

\* A chunk grows over its neighbours up to hi: those in between are no longer.
Outside(C, lo, hi) == { d \in C : d <= lo \/ d >= hi }

Joined(t, C, e, lo, hi, u) ==
  /\ Tiled(u, Outside(C, lo, hi), e)
  /\ u[lo] = FreeTag(hi - lo - 2) /\ next_chunk(u, lo) = hi
  /\ \A d \in Outside(C, lo, hi) \ {lo} : u[d] = t[d] /\ next_chunk(u, d) = next_chunk(t, d)

LEMMA Join ==
  ASSUME NEW t, NEW C, NEW e, Tiled(t, C, e), NEW lo \in C, NEW hi \in C \cup {e}, lo < hi
  PROVE  hi - lo - 2 \in Nat /\ Joined(t, C, e, lo, hi, chunk_set_size(t, lo, hi - lo - 2))
<1> DEFINE n == hi - lo - 2
           u == chunk_set_size(t, lo, n)
           D == { d \in C : d <= lo \/ d >= hi }
<1>1. lo \in Nat /\ e \in Nat /\ e <= Top /\ lo < e /\ hi \in Nat /\ hi <= e
  BY Extent
<1>2. next_chunk(t, lo) <= hi
  BY Extent DEF Tiled
<1>3. n \in Nat
  BY <1>1, <1>2, Extent
<1>4. /\ DOMAIN u = Addr /\ u[lo] = FreeTag(n)
      /\ u[hi - 1] = FreeTag(n) /\ next_chunk(u, lo) = hi
      /\ \A a \in Addr : a < lo \/ a >= hi => u[a] = t[a]
  <2>1. lo + n + 2 = hi /\ lo + n + 1 = hi - 1 /\ lo + n + 2 <= Top
    BY <1>1, Memory
  <2> HIDE DEF n
  <2>2. /\ DOMAIN u = Addr /\ u[lo] = FreeTag(n)
        /\ u[lo + n + 1] = FreeTag(n) /\ next_chunk(u, lo) = lo + n + 2
        /\ \A a \in Addr : a < lo \/ a >= lo + n + 2 => u[a] = t[a]
    <3>1. /\ DOMAIN u = Addr /\ u[lo] = FreeTag(n)
          /\ u[lo + n + 1] = FreeTag(n) /\ next_chunk(u, lo) = lo + n + 2
      BY <1>1, <1>3, <2>1, SetSizeEnds
    <3>2. \A a \in Addr : a < lo \/ a >= lo + n + 2 => u[a] = t[a]
      BY <1>1, <1>3, <2>1, SetSizeElsewhere
    <3> QED
      BY <3>1, <3>2
  <2> HIDE DEF u
  <2> QED
    BY <2>1, <2>2
<1> HIDE DEF u, n
<1>5. ASSUME NEW d \in D, d # lo
      PROVE  /\ d \in C /\ d \in Nat /\ u[d] = t[d] /\ next_chunk(u, d) = next_chunk(t, d)
             /\ next_chunk(t, d) <= lo \/ d >= hi
             /\ u[next_chunk(t, d) - 1] = t[next_chunk(t, d) - 1]
  <2>1. d \in C /\ d \in Nat /\ d \in Addr /\ (d < lo \/ d >= hi)
    <3>1. d \in C /\ d \in Addr /\ (d <= lo \/ d >= hi)
      BY DEF Tiled
    <3> QED
      BY <1>1, <1>5, <3>1, Memory
  <2>2. u[d] = t[d]
    BY <1>4, <2>1
  <2>3. next_chunk(t, d) <= lo \/ d >= hi
    BY <2>1 DEF Tiled
  <2>4. next_chunk(t, d) \in Nat /\ d + 2 <= next_chunk(t, d) /\ next_chunk(t, d) <= e
    BY <2>1, Extent
  <2>5. next_chunk(t, d) - 1 \in Addr
    BY <1>1, <2>1, <2>4, Memory
  <2>6. u[next_chunk(t, d) - 1] = t[next_chunk(t, d) - 1]
    BY <1>1, <1>4, <2>1, <2>3, <2>4, <2>5
  <2> QED
    BY <2>1, <2>2, <2>3, <2>6 DEF next_chunk
<1>6. lo \in D /\ D \subseteq C /\ (hi \in D \/ hi = e)
  BY <1>1
<1>7. ASSUME NEW d \in D PROVE u[d] \in Tag
  <2>1. FreeTag(n) \in Tag
    BY <1>3, FreeTagIsTag
  <2>2. d # lo => t[d] \in Tag
    BY <1>5 DEF Tiled
  <2> QED
    BY <1>4, <1>5, <2>1, <2>2
<1>8. ASSUME NEW c \in D
      PROVE  /\ next_chunk(u, c) \in D \cup {e} /\ next_chunk(u, c) <= e
             /\ u[next_chunk(u, c) - 1] = u[c]
             /\ \A d \in D : c < d => next_chunk(u, c) <= d
  <2>1. CASE c = lo
    BY <1>1, <1>4, <1>6, <2>1, Extent
  <2>2. CASE c # lo
    <3>1. /\ next_chunk(t, c) \in C \cup {e} /\ next_chunk(t, c) <= e
          /\ t[next_chunk(t, c) - 1] = t[c]
          /\ \A d \in C : c < d => next_chunk(t, c) <= d
      BY <1>5, <2>2 DEF Tiled
    <3>2. next_chunk(t, c) \in D \cup {e}
      BY <1>1, <1>5, <2>2, <3>1, Extent
    <3> QED
      BY <1>5, <1>6, <2>2, <3>1, <3>2
  <2> QED
    BY <2>1, <2>2
<1>9. ASSUME NEW c \in D \cup {e}, c # 0
      PROVE  \E d \in D : next_chunk(u, d) = c
  <2>1. PICK d \in C : next_chunk(t, d) = c
    BY <1>6, <1>9 DEF Tiled
  <2>2. d \in Nat /\ d < c /\ c \in Nat
    BY <2>1, Extent
  <2>3. CASE c = hi
    BY <1>4, <1>6, <2>3
  <2>4. CASE c <= lo
    <3>1. d \in D /\ d # lo
      BY <1>1, <2>2, <2>4
    <3> QED
      BY <1>5, <2>1, <3>1
  <2>5. CASE c > hi
    <3>1. hi \in C
      BY <1>1, <1>9, <2>5, Extent
    <3>2. d >= hi
      BY <1>1, <2>1, <2>2, <2>5, <3>1 DEF Tiled
    <3> QED
      BY <1>1, <1>5, <2>1, <2>2, <3>2
  <2> QED
    BY <1>1, <1>6, <2>2, <2>3, <2>4, <2>5, <1>9
<1>10. e > 0 => 0 \in D
  BY <1>1 DEF Tiled
<1>11. Tiled(u, D, e)
  BY <1>4, <1>6, <1>7, <1>8, <1>9, <1>10 DEF Tiled
<1> QED
  BY <1>3, <1>4, <1>5, <1>11 DEF u, n, Joined, Outside

\* A chunk that lies apart from the words that change stays as it is.
LEMMA Apart ==
  ASSUME NEW t, NEW C, NEW e, Tiled(t, C, e), NEW d \in C, NEW u,
         NEW lo \in Nat, NEW hi \in Nat, next_chunk(t, d) <= lo \/ d >= hi,
         \A a \in Addr : a < lo \/ a >= hi => u[a] = t[a]
  PROVE  /\ u[d] = t[d] /\ next_chunk(u, d) = next_chunk(t, d)
         /\ u[next_chunk(t, d) - 1] = t[next_chunk(t, d) - 1]
<1>1. /\ d \in Nat /\ next_chunk(t, d) \in Nat /\ d + 2 <= next_chunk(t, d)
      /\ next_chunk(t, d) <= e /\ e \in Nat /\ e <= Top
  BY Extent
<1>2. d \in Addr /\ next_chunk(t, d) - 1 \in Addr
  BY <1>1, Memory
<1>3. u[d] = t[d] /\ u[next_chunk(t, d) - 1] = t[next_chunk(t, d) - 1]
  BY <1>1, <1>2
<1> QED
  BY <1>3 DEF next_chunk

\* A chunk is cut in two.
LEMMA Split ==
  ASSUME NEW t, NEW C, NEW e, Tiled(t, C, e), NEW c \in C, NEW n \in Nat, n + 2 <= t[c].size,
         NEW f, f = c + n + 2, NEW m, m = t[c].size - n - 2
  PROVE  LET u == chunk_set_size(chunk_set_size(t, c, n), f, m)
         IN  /\ Tiled(u, C \cup {f}, e) /\ m \in Nat /\ f \notin C /\ f \in Addr
             /\ u[c] = FreeTag(n) /\ u[f] = FreeTag(m)
             /\ next_chunk(u, c) = f /\ next_chunk(u, f) = next_chunk(t, c)
             /\ \A d \in C \ {c} : u[d] = t[d] /\ next_chunk(u, d) = next_chunk(t, d)
<1> DEFINE v == chunk_set_size(t, c, n)
           u == chunk_set_size(v, f, m)
           hi == next_chunk(t, c)
<1>1. /\ c \in Nat /\ f \in Nat /\ m \in Nat /\ hi \in Nat /\ hi <= e /\ e \in Nat /\ e <= Top
      /\ f + m + 2 = hi /\ f < hi /\ c < f /\ f - 1 = c + n + 1 /\ t[c].size \in Nat
  BY Extent
<1>2. c + n + 2 <= Top /\ f + m + 2 <= Top /\ c \in Addr /\ f \in Addr /\ f - 1 \in Addr
  BY <1>1, Memory
<1>3. v[c] = FreeTag(n) /\ v[f - 1] = FreeTag(n)
  BY <1>1, <1>2, SetSizeEnds
<1>4. \A a \in Addr : a < c \/ a >= f => v[a] = t[a]
  BY <1>1, <1>2, SetSizeElsewhere
<1> HIDE DEF v
<1>5. /\ DOMAIN u = Addr /\ u[f] = FreeTag(m) /\ u[hi - 1] = FreeTag(m)
      /\ next_chunk(u, f) = hi
  <2>1. /\ DOMAIN u = Addr /\ u[f] = FreeTag(m) /\ u[f + m + 1] = FreeTag(m)
        /\ next_chunk(u, f) = f + m + 2
    BY <1>1, <1>2, SetSizeEnds
  <2>2. hi - 1 = f + m + 1
    BY <1>1
  <2> HIDE DEF u, hi
  <2> QED
    BY <1>1, <2>1, <2>2
<1>6. \A a \in Addr : a < f \/ a >= hi => u[a] = v[a]
  BY <1>1, <1>2, SetSizeElsewhere
<1> HIDE DEF u
<1>7. ASSUME NEW a \in Addr, a < c \/ a >= hi PROVE u[a] = t[a]
  <2>1. a \in Int
    BY Memory
  <2> QED
    BY <1>1, <1>4, <1>6, <1>7, <2>1
<1>8. u[c] = FreeTag(n) /\ u[f - 1] = FreeTag(n) /\ next_chunk(u, c) = f
  <2>1. u[c] = FreeTag(n) /\ u[f - 1] = FreeTag(n)
    BY <1>1, <1>2, <1>3, <1>6
  <2> QED
    BY <1>1, <2>1, FreeTagIsTag DEF next_chunk, HEADER_FULL_SIZE
<1>9. \A d \in C : d <= c \/ d >= hi
  BY <1>1, Extent DEF Tiled
<1>10. ASSUME NEW d \in C \ {c}
       PROVE  /\ u[d] = t[d] /\ next_chunk(u, d) = next_chunk(t, d)
              /\ u[next_chunk(t, d) - 1] = t[next_chunk(t, d) - 1]
              /\ next_chunk(t, d) <= c \/ d >= hi
  <2>1. next_chunk(t, d) <= c \/ d >= hi
    BY <1>1, Extent DEF Tiled
  <2> QED
    BY <1>1, <1>7, <2>1, Apart
<1>11. f \notin C
  BY <1>1, <1>9
<1> DEFINE D == C \cup {f}
<1>12. ASSUME NEW d \in D PROVE u[d] \in Tag
  <2>1. FreeTag(n) \in Tag /\ FreeTag(m) \in Tag
    BY <1>1, FreeTagIsTag
  <2>2. \A b \in C : t[b] \in Tag
    BY DEF Tiled
  <2> QED
    BY <1>5, <1>8, <1>10, <2>1, <2>2
<1>13. ASSUME NEW d \in D
       PROVE  /\ next_chunk(u, d) \in D \cup {e} /\ next_chunk(u, d) <= e
              /\ u[next_chunk(u, d) - 1] = u[d]
              /\ \A b \in D : d < b => next_chunk(u, d) <= b
  <2>1. CASE d = c
    BY <1>1, <1>8, <1>9, <2>1, Extent
  <2>2. CASE d = f
    BY <1>1, <1>5, <1>9, <2>2, Extent DEF Tiled
  <2>3. CASE d \in C \ {c}
    <3>1. /\ next_chunk(t, d) \in C \cup {e} /\ next_chunk(t, d) <= e
          /\ t[next_chunk(t, d) - 1] = t[d]
          /\ \A b \in C : d < b => next_chunk(t, d) <= b
      BY <2>3 DEF Tiled
    <3>2. d < f => next_chunk(t, d) <= f
      BY <1>1, <1>10, <2>3, <3>1, Extent
    <3> QED
      BY <1>10, <2>3, <3>1, <3>2
  <2> QED
    BY <2>1, <2>2, <2>3
<1>14. ASSUME NEW b \in D \cup {e}, b # 0
       PROVE  \E d \in D : next_chunk(u, d) = b
  <2>1. CASE b = f
    BY <1>8, <2>1
  <2>2. CASE b # f
    <3>1. PICK d \in C : next_chunk(t, d) = b
      BY <1>14, <2>2 DEF Tiled
    <3> QED
      BY <1>5, <1>10, <3>1
  <2> QED
    BY <2>1, <2>2
<1>15. Tiled(u, D, e)
  BY <1>1, <1>2, <1>5, <1>12, <1>13, <1>14 DEF Tiled
<1> QED
  BY <1>1, <1>2, <1>5, <1>8, <1>10, <1>11, <1>15 DEF u, v

\* A chunk is marked in both places.
LEMMA Mark ==
  ASSUME NEW t, NEW C, NEW e, Tiled(t, C, e), NEW c \in C
  PROVE  LET u == chunk_set_allocated(t, c)
         IN  /\ Tiled(u, C, e)
             /\ u[c] = TakenTag(t[c].size)
             /\ \A d \in C : next_chunk(u, d) = next_chunk(t, d)
             /\ \A d \in C \ {c} : u[d] = t[d]
<1> DEFINE u == chunk_set_allocated(t, c)
           new == TakenTag(t[c].size)
           hi == next_chunk(t, c)
<1>1. /\ c \in Nat /\ t[c].size \in Nat /\ hi \in Nat /\ hi = c + t[c].size + 2
      /\ hi <= Top /\ c + 2 <= hi
  BY Extent, Memory
<1>2. new \in Tag /\ new.size = t[c].size
  BY <1>1, TakenTagIsTag
<1>3. c \in Addr /\ hi - 1 \in Addr /\ hi - 1 = c + t[c].size + 1 /\ DOMAIN t = Addr
  BY <1>1, Memory DEF Tiled
<1>4. /\ DOMAIN u = Addr /\ u[c] = new /\ u[hi - 1] = new
      /\ \A a \in Addr : a # c /\ a # hi - 1 => u[a] = t[a]
  BY <1>1, <1>3 DEF chunk_set_allocated, TakenTag
<1> HIDE DEF u, new
<1>5. ASSUME NEW d \in C \ {c}
      PROVE  /\ u[d] = t[d] /\ next_chunk(u, d) = next_chunk(t, d)
             /\ u[next_chunk(t, d) - 1] = t[next_chunk(t, d) - 1]
  <2>1. next_chunk(t, d) <= c \/ d >= hi
    BY <1>1, Extent DEF Tiled
  <2>2. ASSUME NEW a \in Addr, a < c \/ a >= hi PROVE u[a] = t[a]
    <3>1. a \in Int
      BY Memory
    <3> QED
      BY <1>1, <1>4, <2>2, <3>1
  <2> QED
    BY <1>1, <2>1, <2>2, Apart
<1>6. next_chunk(u, c) = hi
  BY <1>1, <1>2, <1>4 DEF next_chunk
<1>7. \A d \in C : u[d] \in Tag /\ next_chunk(u, d) = next_chunk(t, d)
  BY <1>2, <1>4, <1>5, <1>6 DEF Tiled
<1>8. \A d \in C : u[next_chunk(t, d) - 1] = u[d]
  BY <1>4, <1>5 DEF Tiled
<1>9. Tiled(u, C, e)
  BY <1>4, <1>7, <1>8 DEF Tiled
<1> QED
  BY <1>2, <1>4, <1>5, <1>7, <1>9 DEF u, new

\* A chunk is added at the end, up to f.
Longer(t, C, e, u, f, n) ==
  /\ Tiled(u, C \cup {e}, f) /\ e \notin C /\ e \in Addr
  /\ u[e] = FreeTag(n) /\ next_chunk(u, e) = f
  /\ \A d \in C : u[d] = t[d] /\ next_chunk(u, d) = next_chunk(t, d)

LEMMA Extend ==
  ASSUME NEW t, NEW C, NEW e, Tiled(t, C, e), NEW n \in Nat, NEW f, f = e + n + 2, f <= Top
  PROVE  Longer(t, C, e, chunk_set_size(t, e, n), f, n)
<1> DEFINE u == chunk_set_size(t, e, n)
           D == C \cup {e}
<1>1. e \in Nat /\ f \in Nat /\ e < f /\ e \in Addr /\ f \in 0..Top
  BY Memory DEF Tiled
<1>2. /\ DOMAIN u = Addr /\ u[e] = FreeTag(n) /\ u[f - 1] = FreeTag(n) /\ next_chunk(u, e) = f
  <2>1. DOMAIN u = Addr /\ u[e] = FreeTag(n) /\ u[e + n + 1] = FreeTag(n) /\ next_chunk(u, e) = f
    BY <1>1, SetSizeEnds
  <2>2. f - 1 = e + n + 1
    BY <1>1
  <2> HIDE DEF u
  <2> QED
    BY <2>1, <2>2
<1>3. \A a \in Addr : a < e \/ a >= f => u[a] = t[a]
  BY <1>1, SetSizeElsewhere
<1> HIDE DEF u
<1>4. ASSUME NEW d \in C
      PROVE  /\ u[d] = t[d] /\ next_chunk(u, d) = next_chunk(t, d)
             /\ u[next_chunk(t, d) - 1] = t[next_chunk(t, d) - 1]
             /\ d < e /\ next_chunk(t, d) <= e
  BY <1>1, <1>3, Apart, Extent
<1>5. \A d \in D : u[d] \in Tag
  <2>1. FreeTag(n) \in Tag /\ \A d \in C : t[d] \in Tag
    BY FreeTagIsTag DEF Tiled
  <2> QED
    BY <1>2, <1>4, <2>1
<1>6. ASSUME NEW d \in D
      PROVE  /\ next_chunk(u, d) \in D \cup {f} /\ next_chunk(u, d) <= f
             /\ u[next_chunk(u, d) - 1] = u[d]
             /\ \A b \in D : d < b => next_chunk(u, d) <= b
  <2>1. CASE d = e
    BY <1>1, <1>2, <1>4, <2>1, Extent
  <2>2. CASE d \in C
    <3>1. /\ next_chunk(t, d) \in D /\ t[next_chunk(t, d) - 1] = t[d]
          /\ \A b \in C : d < b => next_chunk(t, d) <= b
      BY <2>2 DEF Tiled
    <3>2. next_chunk(t, d) \in Nat
      BY <2>2, Extent
    <3> QED
      BY <1>1, <1>4, <2>2, <3>1, <3>2
  <2> QED
    BY <2>1, <2>2
<1>7. ASSUME NEW b \in D \cup {f}, b # 0
      PROVE  \E d \in D : next_chunk(u, d) = b
  BY <1>2, <1>4, <1>7 DEF Tiled
<1>8. 0 \in D
  BY <1>1 DEF Tiled
<1>9. e \notin C
  BY <1>4, <1>1
<1>10. D \subseteq Addr
  BY <1>1 DEF Tiled
<1>11. Tiled(u, D, f)
  BY <1>1, <1>2, <1>5, <1>6, <1>7, <1>8, <1>10 DEF Tiled
<1> QED
  BY <1>1, <1>2, <1>4, <1>9, <1>11 DEF u, Longer

\* What is written over is as if it had never been written.
LEMMA Overwrite ==
  ASSUME NEW t, NEW c \in Nat, NEW n \in Nat, NEW lo \in Nat, NEW m \in Nat,
         lo <= c, c + n <= lo + m
  PROVE  chunk_set_size(chunk_set_size(t, c, n), lo, m) = chunk_set_size(t, lo, m)
<1> SUFFICES ASSUME NEW a \in Addr
             PROVE  chunk_set_size(chunk_set_size(t, c, n), lo, m)[a] = chunk_set_size(t, lo, m)[a]
  BY DEF chunk_set_size
<1>1. a \in Int
  BY Memory
<1> QED
  BY <1>1 DEF chunk_set_size

-----------------------------------------------------------------------------
(* The heap is such a tiling *)

LEMMA HeapTiled == ASSUME IInv PROVE Tiled(tag, chunks, heap_end)
BY Memory DEF IInv, TypeOK, Tiling, Linked, Tiled, Tag, Top

\* What is left to show of a step once the tiling is known.
LEMMA Enough ==
  ASSUME Tiled(tag', chunks', heap_end'), pc' \in {"idle", "fit", "fault", "panic"},
         p' \in Nat, size' \in Nat, live' \subseteq [addr : Addr, size : Nat],
         SearchInv', LiveInv', Coalesced', FaultsAtPageEdge'
  PROVE  IInv'
<1>1. TypeOK'
  BY Memory DEF TypeOK, Tiled, Tag, Top
<1>2. Tiling' /\ Linked' /\ DOMAIN tag' = Addr
  BY DEF Tiling, Linked, Tiled, next_chunk, HEADER_FULL_SIZE
<1> QED
  BY <1>1, <1>2 DEF IInv

LEMMA InitIInv == Init => IInv
<1> SUFFICES ASSUME Init PROVE IInv
  OBVIOUS
<1>1. heap_end \in 0 .. (MaxPages * PAGE)
  BY Memory DEF Init, Top
<1>2. TypeOK
  BY <1>1 DEF Init, TypeOK
<1> QED
  BY <1>2 DEF Init, IInv, Tiling, Linked, SearchInv, LiveInv, Coalesced, FaultsAtPageEdge

-----------------------------------------------------------------------------
(* kmalloc *)

\* The first call makes the heap one chunk of one page.
LEMMA KmallocKeeps ==
  ASSUME IInv, NEW nbytes \in Requests, kmalloc(nbytes)
  PROVE  IInv'
<1>1. pc' = "fit" /\ p' = 0 /\ size' = align8(nbytes) /\ UNCHANGED live /\ pc = "idle"
  BY DEF kmalloc
<1>2. size' \in Nat
  <2>1. nbytes \in Nat
    BY KHeapAssumption DEF KHeapAssumption
  <2> QED
    BY <1>1, <2>1 DEF align8
<1>3. live \subseteq [addr : Addr, size : Nat] /\ FaultsAtPageEdge'
  BY <1>1 DEF IInv, TypeOK, FaultsAtPageEdge
<1>4. CASE heap_end = 0
  <2>1. chunks = {} /\ Tiled(tag, {}, 0)
    BY <1>4, HeapTiled, NoHeap
  <2>2. live = {}
    BY <2>1 DEF IInv, LiveInv
  <2>3. /\ PAGE \in Nat /\ PAGE > 3 /\ PAGE <= Top
    <3>1. PAGE \in Nat /\ PAGE > 3 /\ MaxPages \in Nat /\ MaxPages >= 1
      BY KHeapAssumption DEF KHeapAssumption
    <3> QED
      BY <3>1 DEF Top
  <2>4. /\ tag' = chunk_set_size(tag, 0, PAGE - 2) /\ heap_end' = PAGE /\ chunks' = {0}
    BY <1>4 DEF kmalloc, HEADER_FULL_SIZE
  <2> DEFINE n == PAGE - 2
  <2>5. n \in Nat /\ heap_end + n + 2 = PAGE
    BY <1>4, <2>3
  <2>6. tag' = chunk_set_size(tag, heap_end, n) /\ chunks' = chunks \cup {heap_end}
    BY <1>4, <2>1, <2>4
  <2> HIDE DEF n
  <2>7. /\ Tiled(tag', chunks', heap_end')
        /\ tag'[0] = FreeTag(n) /\ next_chunk(tag', 0) = PAGE
    <3>1. Tiled(tag, chunks, heap_end) /\ PAGE <= Top
      BY <2>3, <2>5, HeapTiled
    <3>2. /\ Tiled(tag', chunks', PAGE)
          /\ tag'[heap_end] = FreeTag(n) /\ next_chunk(tag', heap_end) = PAGE
      <4>1. Longer(tag, chunks, heap_end, tag', PAGE, n)
        BY <2>5, <2>6, <3>1, Extend
      <4> QED
        BY <2>6, <4>1 DEF Longer
    <3> QED
      BY <1>4, <2>4, <2>5, <3>2
  <2>8. tag'[0].alloc = FALSE /\ next_chunk(tag', 0) = PAGE
    BY <2>5, <2>7, FreeTagIsTag
  <2>9. LiveInv'
    BY <1>1, <2>2, <2>4, <2>8 DEF LiveInv
  <2>10. Coalesced'
    BY <2>3, <2>4, <2>8 DEF Coalesced, next_chunk, HEADER_FULL_SIZE
  <2>11. SearchInv'
    BY <1>1, <2>3, <2>4 DEF SearchInv
  <2> QED
    BY <1>1, <1>2, <1>3, <2>7, <2>9, <2>10, <2>11, Enough
<1>5. CASE heap_end # 0
  <2>1. UNCHANGED <<tag, heap_end, chunks>>
    BY <1>5 DEF kmalloc
  <2>2. Tiled(tag', chunks', heap_end')
    BY <2>1, HeapTiled
  <2>3. heap_end > 0 /\ 0 \in chunks
    BY <1>5, HeapTiled DEF Tiled
  <2>4. SearchInv'
    <3>1. \A c \in chunks : ~ (c < 0)
      BY HeapTiled, Extent
    <3> QED
      BY <1>1, <2>1, <2>3, <3>1 DEF SearchInv
  <2>5. LiveInv' /\ Coalesced'
    BY <1>1, <2>1 DEF IInv, LiveInv, Coalesced, next_chunk
  <2> QED
    BY <1>1, <1>2, <1>3, <2>2, <2>4, <2>5, Enough
<1> QED
  BY <1>4, <1>5

\* The search goes to the next chunk, having passed one that does not fit.
LEMMA SearchKeeps ==
  ASSUME IInv, find_first_fit
  PROVE  IInv'
<1>1. /\ pc = "fit" /\ p < heap_end /\ ~Fits(p) /\ p' = next_chunk(tag, p)
      /\ UNCHANGED <<tag, heap_end, pc, size, live, chunks>>
  BY DEF find_first_fit
<1>2. p \in chunks /\ heap_end > 0 /\ heap_end \in Nat
  <2>1. heap_end \in Nat
    BY HeapTiled DEF Tiled
  <2> QED
    BY <1>1, <2>1 DEF IInv, SearchInv
<1>3. Tiled(tag', chunks', heap_end')
  BY <1>1, HeapTiled
<1>4. p' \in Nat /\ p' \in chunks \cup {heap_end}
  BY <1>1, <1>2, HeapTiled, Extent DEF Tiled
<1>5. ASSUME NEW c \in chunks, c < p' PROVE ~Fits(c)
  <2>1. c <= p
    <3>1. p < c => next_chunk(tag, p) <= c
      BY <1>2, HeapTiled DEF Tiled
    <3>2. p \in Nat /\ c \in Nat /\ next_chunk(tag, p) \in Nat
      BY <1>2, HeapTiled, Extent
    <3> QED
      BY <1>1, <1>5, <3>1, <3>2
  <2>2. c = p \/ c < p
    BY <1>2, <2>1, HeapTiled, Extent
  <2> QED
    BY <1>1, <2>2 DEF IInv, SearchInv
<1>6. SearchInv'
  BY <1>1, <1>2, <1>4, <1>5 DEF SearchInv, Fits
<1>7. LiveInv' /\ Coalesced' /\ FaultsAtPageEdge'
  BY <1>1 DEF IInv, LiveInv, Coalesced, next_chunk, FaultsAtPageEdge
<1> QED
  BY <1>1, <1>3, <1>4, <1>6, <1>7, Enough DEF IInv, TypeOK


\* What Carve does to a free chunk c, the last or one of the heap: the request
\* has it, and what is left is free, below a chunk in use or the end.
LEMMA CarveKeeps ==
  ASSUME IInv, pc = "fit", NEW t, NEW c, NEW C, C = chunks \cup {c},
         Tiled(t, C, heap_end'), t[c].alloc = FALSE, t[c].size >= size,
         \A d \in chunks \ {c} : t[d] = tag[d] /\ next_chunk(t, d) = next_chunk(tag, d),
         c \in chunks => tag[c].alloc = FALSE,
         next_chunk(t, c) \in C => t[next_chunk(t, c)].alloc = TRUE,
         Carve(t, c), UNCHANGED call
  PROVE  IInv'
<1> DEFINE e == heap_end'
           diff == t[c].size - size
           f == c + size + HEADER_FULL_SIZE
           split == diff > RESIZE_THRESHOLD
           cut == IF split
                  THEN chunk_set_size(chunk_set_size(t, c, size), f, diff - HEADER_FULL_SIZE)
                  ELSE t
           D == chunks'
           b == [addr |-> c, size |-> size]
<1>1. /\ tag' = chunk_set_allocated(cut, c) /\ D = C \cup (IF split THEN {f} ELSE {})
      /\ live' = live \cup {b} /\ pc' = "idle"
  BY DEF Carve
<1>2. c \in C /\ c \in Nat /\ c \in Addr /\ t[c].size \in Nat /\ size \in Nat /\ p \in Nat
  BY Extent DEF IInv, TypeOK, Tiled
<1>3. c \notin { a.addr : a \in live } /\ live \subseteq [addr : Addr, size : Nat]
  BY DEF IInv, LiveInv, TypeOK
<1>4. /\ Tiled(cut, D, e) /\ c \in D /\ cut[c].size >= size
      /\ \A d \in C \ {c} : cut[d] = t[d] /\ next_chunk(cut, d) = next_chunk(t, d)
      /\ \/ D = C
         \/ /\ D = C \cup {f} /\ f \notin C /\ f # e /\ cut[f].alloc = FALSE
            /\ next_chunk(cut, f) = next_chunk(t, c)
  <2>1. CASE ~split
    BY <1>1, <1>2, <2>1
  <2>2. CASE split
    <3> DEFINE m == diff - HEADER_FULL_SIZE
    <3>1. /\ size + 2 <= t[c].size /\ f = c + size + 2 /\ m = t[c].size - size - 2
      BY <1>2, <2>2 DEF HEADER_FULL_SIZE, RESIZE_THRESHOLD
    <3>2. cut = chunk_set_size(chunk_set_size(t, c, size), f, m) /\ D = C \cup {f}
      BY <1>1, <2>2
    <3> HIDE DEF cut, f, m, D, e, split
    <3>3. /\ Tiled(cut, C \cup {f}, heap_end') /\ m \in Nat /\ f \notin C /\ f \in Addr
          /\ cut[c] = FreeTag(size) /\ cut[f] = FreeTag(m)
          /\ next_chunk(cut, c) = f /\ next_chunk(cut, f) = next_chunk(t, c)
          /\ \A d \in C \ {c} : cut[d] = t[d] /\ next_chunk(cut, d) = next_chunk(t, d)
      BY <1>2, <3>1, <3>2, Split
    <3>4. cut[c].size = size /\ cut[f].alloc = FALSE
      BY <1>2, <3>3, FreeTagIsTag
    <3>5. f < heap_end' /\ f \in Nat
      BY <3>3, Extent
    <3> QED
      BY <1>2, <3>2, <3>3, <3>4, <3>5 DEF e
  <2> QED
    BY <2>1, <2>2
<1> HIDE DEF cut, f, D, e, split, diff
<1>5. /\ Tiled(tag', D, e)
      /\ tag'[c].alloc = TRUE /\ tag'[c].size = cut[c].size
      /\ \A d \in D : next_chunk(tag', d) = next_chunk(cut, d)
      /\ \A d \in D \ {c} : tag'[d] = cut[d]
  <2> DEFINE u == chunk_set_allocated(cut, c)
  <2>1. Tiled(u, D, e)
    BY <1>4, Mark
  <2>2. u[c].alloc = TRUE /\ u[c].size = cut[c].size
    <3>1. u[c] = TakenTag(cut[c].size)
      BY <1>4, Mark
    <3>2. cut[c].size \in Nat
      BY <1>4, Extent
    <3> HIDE DEF u
    <3> QED
      BY <3>1, <3>2, TakenTagIsTag
  <2>3. \A d \in D : next_chunk(u, d) = next_chunk(cut, d)
    BY <1>4, Mark
  <2>4. \A d \in D \ {c} : u[d] = cut[d]
    BY <1>4, Mark
  <2>5. tag' = u
    BY <1>1
  <2> HIDE DEF u
  <2> QED
    BY <2>1, <2>2, <2>3, <2>4, <2>5
<1>6. \A d \in C \ {c} : tag'[d] = tag[d] /\ next_chunk(tag', d) = next_chunk(tag, d) /\ d \in D
  BY <1>4, <1>5
<1>7. \A d \in D \ C : tag'[d].alloc = FALSE
  BY <1>2, <1>4, <1>5
<1>8. LiveInv'
  <2>1. ASSUME NEW a \in live PROVE a.addr \in C \ {c} /\ tag[a.addr].size >= a.size
    BY <1>3, <2>1 DEF IInv, LiveInv
  <2>2. ASSUME NEW a \in live' PROVE a.addr \in D /\ tag'[a.addr].size >= a.size
    <3>1. CASE a \in live
      BY <1>6, <2>1, <3>1
    <3>2. CASE a = b
      BY <1>4, <1>5, <3>2
    <3> QED
      BY <1>1, <3>1, <3>2
  <2>3. \A a1, a2 \in live' : a1 # a2 => a1.addr # a2.addr
    BY <1>1, <1>3 DEF IInv, LiveInv
  <2>4. ASSUME NEW d \in D PROVE d \in { a.addr : a \in live' } <=> tag'[d].alloc = TRUE
    <3>1. CASE d = c
      <4>1. b \in live' /\ b.addr = c
        BY <1>1
      <4> HIDE DEF b
      <4> QED
        BY <1>5, <3>1, <4>1
    <3>2. CASE d \in C \ {c}
      <4>1. d \in { a.addr : a \in live } <=> tag[d].alloc = TRUE
        <5>1. /\ d \in chunks
              /\ chunks \cap { a.addr : a \in live } = { x \in chunks : tag[x].alloc }
          BY <3>2 DEF IInv, LiveInv
        <5>2. tag[d].alloc \in BOOLEAN
          BY <5>1, HeapTiled, Extent
        <5> QED
          BY <5>1, <5>2
      <4>2. d \in { a.addr : a \in live' } <=> d \in { a.addr : a \in live }
        BY <1>1, <3>2
      <4> QED
        BY <1>6, <3>2, <4>1, <4>2
    <3>3. CASE d \in D \ C
      BY <1>1, <1>2, <1>7, <2>1, <3>3
    <3> QED
      BY <3>1, <3>2, <3>3
  <2>5. D \cap { a.addr : a \in live' } = { d \in D : tag'[d].alloc }
    BY <2>4, <1>5, Extent
  <2> QED
    BY <2>2, <2>3, <2>5 DEF LiveInv, D
<1>9. Coalesced'
  <2> SUFFICES ASSUME NEW d \in D, next_chunk(tag', d) \in D
               PROVE  tag'[d].alloc \/ tag'[next_chunk(tag', d)].alloc
    BY DEF Coalesced, D, next_chunk
  <2>1. CASE d = c \/ next_chunk(tag', d) = c
    BY <1>5, <2>1
  <2>2. CASE d \in D \ C
    <3>1. next_chunk(tag', d) = next_chunk(t, c) /\ next_chunk(t, c) \in C \cup {e}
      BY <1>2, <1>4, <1>5, <2>2 DEF Tiled, e
    <3>2. next_chunk(t, c) # c
      BY <1>2, Extent
    <3>3. next_chunk(t, c) # e
      <4>1. next_chunk(tag', d) < e
        BY <1>5, Extent
      <4> QED
        BY <3>1, <4>1, <1>2, Extent
    <3> QED
      BY <1>4, <1>5, <3>1, <3>2, <3>3
  <2>3. CASE d \in C \ {c} /\ next_chunk(tag', d) # c
    <3>1. next_chunk(tag', d) = next_chunk(tag, d) /\ next_chunk(tag', d) = next_chunk(t, d)
      BY <1>6, <2>3
    <3>2. next_chunk(t, d) \in C
      <4>1. next_chunk(t, d) \in C \cup {e}
        BY <2>3 DEF Tiled, e
      <4>2. next_chunk(tag', d) < e
        BY <1>5, Extent
      <4>3. next_chunk(t, d) \in Nat
        BY <2>3, Extent
      <4> QED
        BY <3>1, <4>1, <4>2, <4>3
    <3>3. d \in chunks /\ next_chunk(tag, d) \in chunks
      BY <2>3, <3>1, <3>2
    <3>4. tag[d].alloc \/ tag[next_chunk(tag, d)].alloc
      BY <3>3 DEF IInv, Coalesced
    <3> QED
      BY <1>6, <2>3, <3>1, <3>2, <3>4
  <2> QED
    BY <2>1, <2>2, <2>3
<1>10. SearchInv' /\ FaultsAtPageEdge'
  BY <1>1 DEF SearchInv, FaultsAtPageEdge
<1>11. live' \subseteq [addr : Addr, size : Nat] /\ p' \in Nat /\ size' \in Nat
  BY <1>1, <1>2, <1>3 DEF call
<1> QED
  BY <1>1, <1>5, <1>8, <1>9, <1>10, <1>11, Enough DEF D, e

LEMMA FoundKeeps == ASSUME IInv, kmalloc_found PROVE IInv'
<1>1. /\ pc = "fit" /\ p < heap_end /\ Fits(p) /\ Carve(tag, p) /\ UNCHANGED <<heap_end, call>>
  BY DEF kmalloc_found
<1>2. p \in chunks /\ heap_end \in Nat
  BY <1>1, HeapTiled DEF Tiled, IInv, SearchInv
<1>3. tag[p].alloc = FALSE /\ tag[p].size >= size
  BY <1>1, <1>2, HeapTiled, Extent DEF Fits
<1>4. next_chunk(tag, p) \in chunks => tag[next_chunk(tag, p)].alloc = TRUE
  <2>1. pc # "fault"
    BY <1>1
  <2>2. next_chunk(tag, p) \in chunks => tag[next_chunk(tag, p)].alloc \in BOOLEAN
    BY HeapTiled, Extent
  <2> QED
    BY <1>2, <1>3, <2>1, <2>2 DEF IInv, Coalesced
<1>5. chunks = chunks \cup {p} /\ Tiled(tag, chunks, heap_end')
  BY <1>1, <1>2, HeapTiled
<1> QED
  BY <1>1, <1>2, <1>3, <1>4, <1>5, CarveKeeps

\* The pages that alloc_new_memory asks for hold the request and one more tag;
\* unless the request is a word less than whole pages, both.
LEMMA NewPages ==
  ASSUME size \in Nat
  PROVE  /\ new_pages \in Nat /\ new_pages * PAGE \in Nat /\ new_pages * PAGE > 2
         /\ new_pages * PAGE - 2 < size => size % PAGE = PAGE - 1
<1> DEFINE q == size \div PAGE
           r == size % PAGE
<1>1. PAGE \in Nat /\ PAGE > 3
  BY KHeapAssumption DEF KHeapAssumption
<1>2. q \in Nat /\ r \in 0 .. (PAGE - 1) /\ size = q * PAGE + r
  BY <1>1
<1> HIDE DEF q, r
<1>3. (q + 1) * PAGE = q * PAGE + PAGE /\ (q + 2) * PAGE = q * PAGE + 2 * PAGE
      /\ q * PAGE \in Nat
  BY <1>1, <1>2
<1>4. new_pages = IF r < 2 THEN q + 2 ELSE q + 1
  BY <1>2 DEF new_pages, HEADER_FULL_SIZE, q, r
<1>5. CASE r < 2
  <2>1. new_pages = q + 2
    BY <1>4, <1>5
  <2> HIDE DEF new_pages
  <2> QED
    BY <1>1, <1>2, <1>3, <1>5, <2>1
<1>6. CASE ~ (r < 2)
  <2>1. new_pages = q + 1
    BY <1>4, <1>6
  <2>2. r = PAGE - 1 => size % PAGE = PAGE - 1
    BY DEF r
  <2> HIDE DEF new_pages
  <2> QED
    BY <1>1, <1>2, <1>3, <1>6, <2>1, <2>2
<1> QED
  BY <1>5, <1>6

\* The heap with the new chunk.
LEMMA Grown ==
  ASSUME IInv, new_end <= MaxPages * PAGE
  PROVE  /\ Tiled(grown, chunks \cup {heap_end}, new_end) /\ heap_end \notin chunks
         /\ grown[heap_end].alloc = FALSE /\ grown[heap_end].size = new_pages * PAGE - 2
         /\ next_chunk(grown, heap_end) = new_end /\ new_end > heap_end
         /\ \A d \in chunks : grown[d] = tag[d] /\ next_chunk(grown, d) = next_chunk(tag, d)
<1> DEFINE n == new_pages * PAGE - 2
<1>1. heap_end \in Nat /\ size \in Nat
  BY HeapTiled DEF Tiled, IInv, TypeOK
<1>2. new_pages * PAGE \in Nat /\ new_pages * PAGE > 2
  BY <1>1, NewPages
<1>3. n \in Nat /\ new_end = heap_end + n + 2
  <2> DEFINE k == new_pages * PAGE
  <2> HIDE DEF k
  <2>1. k \in Nat /\ k > 2 /\ new_end = heap_end + k /\ n = k - 2
    BY <1>2 DEF new_end, k
  <2> HIDE DEF n
  <2> QED
    BY <1>1, <2>1
<1>4. grown = chunk_set_size(tag, heap_end, n) /\ heap_end + n + 2 <= Top
  BY <1>3 DEF grown, HEADER_FULL_SIZE, Top
<1> HIDE DEF n
<1>5. /\ Tiled(grown, chunks \cup {heap_end}, new_end) /\ heap_end \notin chunks
      /\ grown[heap_end] = FreeTag(n) /\ next_chunk(grown, heap_end) = new_end
      /\ \A d \in chunks : grown[d] = tag[d] /\ next_chunk(grown, d) = next_chunk(tag, d)
  <2> DEFINE u == chunk_set_size(tag, heap_end, n)
  <2>1. /\ n \in Nat /\ new_end = heap_end + n + 2 /\ new_end <= Top
        /\ Tiled(tag, chunks, heap_end)
    BY <1>3, <1>4, HeapTiled
  <2> HIDE DEF new_end
  <2>2. Longer(tag, chunks, heap_end, u, new_end, n)
    BY <2>1, Extend
  <2> HIDE DEF u
  <2>3. grown = u
    BY <1>4 DEF u
  <2> QED
    BY <2>2, <2>3 DEF Longer
<1>6. grown[heap_end].alloc = FALSE /\ grown[heap_end].size = n
  BY <1>3, <1>5, FreeTagIsTag
<1> QED
  BY <1>1, <1>3, <1>5, <1>6 DEF n

LEMMA GrowKeeps == ASSUME IInv, kmalloc_grow PROVE IInv'
<1>1. /\ pc = "fit" /\ new_end <= MaxPages * PAGE /\ new_pages * PAGE - 2 >= size
      /\ heap_end' = new_end /\ Carve(grown, heap_end) /\ UNCHANGED call
  BY DEF kmalloc_grow, Grow, HEADER_FULL_SIZE
<1>2. /\ Tiled(grown, chunks \cup {heap_end}, heap_end') /\ heap_end \notin chunks
      /\ grown[heap_end].alloc = FALSE /\ grown[heap_end].size >= size
      /\ next_chunk(grown, heap_end) = heap_end' /\ heap_end' > heap_end
      /\ \A d \in chunks : grown[d] = tag[d] /\ next_chunk(grown, d) = next_chunk(tag, d)
  BY <1>1, Grown
<1>3. next_chunk(grown, heap_end) \notin chunks \cup {heap_end}
  BY <1>2, Extent
<1> QED
  BY <1>1, <1>2, <1>3, CarveKeeps

\* The new chunk, free and unmerged, is the only thing that an overrun leaves.
LEMMA OverrunKeeps == ASSUME IInv, kmalloc_overrun PROVE IInv'
<1>1. /\ new_end <= MaxPages * PAGE /\ new_pages * PAGE - 2 < size
      /\ heap_end' = new_end /\ tag' = grown /\ chunks' = chunks \cup {heap_end}
      /\ pc' = "fault" /\ UNCHANGED <<p, size, live>>
  BY DEF kmalloc_overrun, call, HEADER_FULL_SIZE
<1>2. /\ Tiled(tag', chunks', heap_end') /\ heap_end \notin chunks
      /\ tag'[heap_end].alloc = FALSE
      /\ \A d \in chunks : tag'[d] = tag[d]
  BY <1>1, Grown
<1>3. size \in Nat /\ p \in Nat /\ live \subseteq [addr : Addr, size : Nat]
  BY DEF IInv, TypeOK
<1>4. FaultsAtPageEdge'
  BY <1>1, <1>3, NewPages DEF FaultsAtPageEdge
<1>5. SearchInv' /\ Coalesced'
  BY <1>1 DEF SearchInv, Coalesced
<1>6. LiveInv'
  <2>1. \A b \in live : b.addr \in chunks /\ tag[b.addr].size >= b.size
    BY DEF IInv, LiveInv
  <2>2. chunks \cap { b.addr : b \in live } = { c \in chunks : tag[c].alloc }
    BY DEF IInv, LiveInv
  <2>3. heap_end \notin { b.addr : b \in live }
    BY <1>2, <2>1
  <2>4. { c \in chunks' : tag'[c].alloc } = { c \in chunks : tag[c].alloc }
    BY <1>1, <1>2
  <2>5. chunks' \cap { b.addr : b \in live } = chunks \cap { b.addr : b \in live }
    BY <1>1, <2>3
  <2>6. \A b \in live : b.addr \in chunks' /\ tag'[b.addr].size >= b.size
    BY <1>1, <1>2, <2>1
  <2>7. \A a, b \in live : a # b => a.addr # b.addr
    BY DEF IInv, LiveInv
  <2> QED
    BY <1>1, <2>2, <2>4, <2>5, <2>6, <2>7 DEF LiveInv
<1> QED
  BY <1>1, <1>2, <1>3, <1>4, <1>5, <1>6, Enough

\* Steps that change no tag.
LEMMA StopKeeps ==
  ASSUME IInv, kmalloc_panic \/ UNCHANGED vars
  PROVE  IInv'
<1>1. CASE UNCHANGED vars
  BY <1>1 DEF IInv, vars, call, TypeOK, Tiling, Linked, SearchInv, LiveInv, Coalesced,
              FaultsAtPageEdge, next_chunk, Fits
<1>2. CASE kmalloc_panic
  <2>1. UNCHANGED <<tag, heap_end, p, size, live, chunks>> /\ pc' = "panic" /\ pc = "fit"
    BY <1>2 DEF kmalloc_panic, call, Grow
  <2>2. Tiled(tag', chunks', heap_end')
    BY <2>1, HeapTiled
  <2>3. LiveInv' /\ Coalesced' /\ SearchInv' /\ FaultsAtPageEdge'
    BY <2>1 DEF IInv, LiveInv, Coalesced, SearchInv, FaultsAtPageEdge, next_chunk
  <2> QED
    BY <2>1, <2>2, <2>3, Enough DEF IInv, TypeOK
<1> QED
  BY <1>1, <1>2

-----------------------------------------------------------------------------
(* kfree *)

\* What kfree comes to: the block's chunk and the free ones next to it become
\* one free chunk, between two in use.
LEMMA JoinKeeps ==
  ASSUME IInv, pc = "idle", NEW b \in live, NEW lo \in chunks, NEW hi \in chunks \cup {heap_end},
         lo <= b.addr, b.addr < hi,
         \A d \in chunks : lo <= d /\ d < hi /\ d # b.addr => tag[d].alloc = FALSE,
         hi \in chunks => tag[hi].alloc = TRUE,
         \A d \in chunks : next_chunk(tag, d) = lo => tag[d].alloc = TRUE,
         tag' = chunk_set_size(tag, lo, hi - lo - 2), chunks' = Outside(chunks, lo, hi),
         live' = live \ {b}, UNCHANGED <<heap_end, pc, call>>
  PROVE  IInv'
<1> DEFINE c == b.addr
           D == chunks'
<1>1. /\ p \in Nat /\ size \in Nat /\ live \subseteq [addr : Addr, size : Nat]
      /\ UNCHANGED <<p, size, pc, heap_end>> /\ pc # "fault"
  BY DEF IInv, TypeOK, call
<1>2. lo \in Nat /\ hi \in Nat /\ lo < hi /\ c \in chunks /\ c \in Nat
  BY HeapTiled, Extent DEF IInv, LiveInv
<1>3. hi - lo - 2 \in Nat /\ Joined(tag, chunks, heap_end, lo, hi, tag')
  BY <1>2, HeapTiled, Join
<1>4. /\ Tiled(tag', D, heap_end') /\ tag'[lo] = FreeTag(hi - lo - 2)
      /\ next_chunk(tag', lo) = hi
      /\ \A d \in D \ {lo} : tag'[d] = tag[d] /\ next_chunk(tag', d) = next_chunk(tag, d)
  BY <1>1, <1>3 DEF Joined
<1>5. D \subseteq chunks /\ \A d \in chunks : d \in D \/ (lo <= d /\ d < hi)
  <2>1. \A d \in chunks : d \in Nat
    BY HeapTiled, Extent
  <2> QED
    BY <1>2, <2>1 DEF Outside
<1>6. \A d \in D : d # lo => d < lo \/ d >= hi
  <2>1. \A d \in chunks : d \in Nat
    BY HeapTiled, Extent
  <2> QED
    BY <1>2, <2>1 DEF Outside
<1>7. tag'[lo].alloc = FALSE
  <2> DEFINE n == hi - lo - 2
  <2>1. n \in Nat /\ tag'[lo] = FreeTag(n)
    BY <1>3, <1>4
  <2> HIDE DEF n
  <2> QED
    BY <2>1, FreeTagIsTag
<1> DEFINE Held == { a.addr : a \in live }
<1>8. chunks \cap Held = { d \in chunks : tag[d].alloc }
  BY DEF IInv, LiveInv
<1>9. \A d \in chunks : tag[d].alloc \in BOOLEAN
  BY HeapTiled, Extent
<1>10. ASSUME NEW a \in live' PROVE a.addr \in D /\ a.addr # lo
  <2>1. a \in live /\ a # b
    OBVIOUS
  <2>2. a.addr \in chunks /\ a.addr # c
    BY <2>1 DEF IInv, LiveInv
  <2>3. tag[a.addr].alloc = TRUE
    BY <1>8, <1>9, <2>1, <2>2
  <2>4. ~ (lo <= a.addr /\ a.addr < hi)
    BY <2>2, <2>3
  <2>5. a.addr \in D
    BY <1>5, <2>2, <2>4
  <2> QED
    BY <1>2, <2>4, <2>5
<1>11. { a.addr : a \in live' } = Held \ {c}
  BY DEF IInv, LiveInv
<1> HIDE DEF Held, D
<1>12. LiveInv'
  <2>1. ASSUME NEW a \in live' PROVE a.addr \in D /\ tag'[a.addr].size >= a.size
    <3>1. tag[a.addr].size >= a.size
      BY DEF IInv, LiveInv
    <3> QED
      BY <1>4, <1>10, <3>1
  <2>2. \A x, y \in live' : x # y => x.addr # y.addr
    BY DEF IInv, LiveInv
  <2>3. ASSUME NEW d \in D PROVE d \in Held \ {c} <=> tag'[d].alloc
    <3>1. CASE d = lo
      BY <1>7, <1>10, <1>11, <3>1
    <3>2. CASE d # lo
      <4>1. d # c
        BY <1>2, <1>6, <3>2
      <4>2. d \in chunks /\ tag'[d] = tag[d]
        BY <1>4, <1>5, <3>2
      <4>3. d \in Held <=> tag[d].alloc
        BY <1>8, <4>2
      <4> QED
        BY <4>1, <4>2, <4>3
    <3> QED
      BY <3>1, <3>2
  <2>4. D \cap (Held \ {c}) = { d \in D : tag'[d].alloc }
    BY <2>3
  <2> QED
    BY <1>11, <2>1, <2>2, <2>4 DEF LiveInv, D
<1>13. Coalesced'
  <2> SUFFICES ASSUME NEW d \in D, next_chunk(tag', d) \in D
               PROVE  tag'[d].alloc \/ tag'[next_chunk(tag', d)].alloc
    BY DEF Coalesced, D, next_chunk
  <2> DEFINE a == next_chunk(tag', d)
  <2>1. CASE d = lo
    <3>1. a = hi /\ hi \in chunks /\ hi # lo
      BY <1>2, <1>4, <1>5, <2>1
    <3>2. tag'[hi] = tag[hi]
      BY <1>4, <3>1
    <3> QED
      BY <3>1, <3>2
  <2>2. CASE d # lo
    <3>1. a = next_chunk(tag, d) /\ tag'[d] = tag[d] /\ d \in chunks /\ a \in chunks
      BY <1>4, <1>5, <2>2
    <3>2. CASE a = lo
      BY <3>1, <3>2
    <3>3. CASE a # lo
      <4>1. tag'[a] = tag[a]
        BY <1>4, <3>3
      <4>2. tag[d].alloc \/ tag[a].alloc
        BY <1>1, <3>1 DEF IInv, Coalesced
      <4> QED
        BY <3>1, <4>1, <4>2
    <3> QED
      BY <3>2, <3>3
  <2> QED
    BY <2>1, <2>2
<1>14. SearchInv' /\ FaultsAtPageEdge'
  BY <1>1 DEF SearchInv, FaultsAtPageEdge
<1>15. live' \subseteq [addr : Addr, size : Nat]
  BY <1>1
<1> QED
  BY <1>1, <1>4, <1>12, <1>13, <1>14, <1>15, Enough DEF D

\* Under OrderedFree the chunk below the block is free, or there is none: the
\* two ends between which kfree joins, and what it writes there.
LEMMA FreeKeeps ==
  ASSUME OrderedFree = TRUE, IInv, NEW b \in live, kfree(b)
  PROVE  IInv'
<1> DEFINE c == b.addr
           above == next_chunk(tag, c)
           join == free_above(c)
           hi == IF join THEN next_chunk(tag, above) ELSE above
           n == tag[c].size + (IF join THEN tag[above].size + HEADER_FULL_SIZE ELSE 0)
           alone == chunk_set_size(tag, c, n)
           below == prev_chunk(c)
<1>1. /\ pc = "idle" /\ ~ (c > 1 /\ tag[c - 1].alloc)
      /\ IF c - 1 > 0
         THEN /\ tag' = chunk_set_size(alone, below, n + tag[below].size + HEADER_FULL_SIZE)
              /\ chunks' = chunks \ (IF join THEN {above, c} ELSE {c})
         ELSE /\ tag' = alone
              /\ chunks' = chunks \ (IF join THEN {above} ELSE {})
      /\ live' = live \ {b} /\ UNCHANGED <<heap_end, pc, call>>
  BY DEF kfree
<1>2. /\ c \in chunks /\ c \in Nat /\ tag[c].size \in Nat /\ above \in Nat
      /\ above = c + tag[c].size + 2 /\ above \in chunks \cup {heap_end} /\ heap_end \in Nat
      /\ above <= heap_end
  <2>1. c \in chunks
    BY DEF IInv, LiveInv
  <2> HIDE DEF c
  <2> QED
    BY <2>1, HeapTiled, Extent DEF Tiled
<1>3. join => /\ above \in chunks /\ tag[above].alloc = FALSE /\ tag[above].size \in Nat
              /\ next_chunk(tag, above) = above + tag[above].size + 2
              /\ next_chunk(tag, above) \in Nat
              /\ next_chunk(tag, above) \in chunks \cup {heap_end}
  <2> SUFFICES ASSUME join
               PROVE  /\ above \in chunks /\ tag[above].alloc = FALSE /\ tag[above].size \in Nat
                      /\ next_chunk(tag, above) = above + tag[above].size + 2
                      /\ next_chunk(tag, above) \in Nat
                      /\ next_chunk(tag, above) \in chunks \cup {heap_end}
    OBVIOUS
  <2>1. above \in chunks /\ ~ tag[above].alloc
    BY <1>2 DEF free_above
  <2> HIDE DEF above
  <2>2. tag[above].alloc = FALSE
    BY <2>1, HeapTiled, Extent
  <2> QED
    BY <2>1, <2>2, HeapTiled, Extent DEF Tiled
<1>4. ~join => (above \in chunks => tag[above].alloc = TRUE)
  <2>1. above \in chunks => above < heap_end /\ tag[above].alloc \in BOOLEAN
    <3> HIDE DEF above
    <3> QED
      BY HeapTiled, Extent
  <2> QED
    BY <2>1 DEF free_above
<1> HIDE DEF join, above
<1>5. /\ hi \in chunks \cup {heap_end} /\ hi \in Nat /\ hi = c + n + 2 /\ n \in Nat /\ c < hi
  BY <1>2, <1>3 DEF HEADER_FULL_SIZE
<1>6. hi \in chunks => tag[hi].alloc = TRUE
  <2>1. CASE join
    <3>1. next_chunk(tag, above) \in chunks => tag[next_chunk(tag, above)].alloc \in BOOLEAN
      BY HeapTiled, Extent
    <3> QED
      BY <1>1, <1>3, <2>1, <3>1 DEF IInv, Coalesced
  <2>2. CASE ~join
    BY <1>4, <2>2
  <2> QED
    BY <2>1, <2>2
<1>7. \A d \in chunks : c <= d /\ d < hi /\ d # c => tag[d].alloc = FALSE
  <2> SUFFICES ASSUME NEW d \in chunks, c <= d, d < hi, d # c
               PROVE  tag[d].alloc = FALSE
    OBVIOUS
  <2>1. d \in Nat /\ above <= d
    <3> HIDE DEF c
    <3>1. d \in Nat
      BY HeapTiled, Extent
    <3>2. c < d
      BY <1>2, <3>1
    <3> QED
      BY <1>2, <3>1, <3>2, HeapTiled, After DEF above
  <2>2. join /\ d = above
    <3>1. join
      BY <1>2, <2>1
    <3>2. above < d => next_chunk(tag, above) <= d
      BY <1>3, <3>1, HeapTiled, After
    <3> QED
      BY <1>2, <1>3, <2>1, <3>1, <3>2
  <2> QED
    BY <1>3, <2>2
<1>8. \A d \in chunks : d # c /\ ~ (join /\ d = above) => d < c \/ d >= hi
  <2> SUFFICES ASSUME NEW d \in chunks, d # c, ~ (join /\ d = above)
               PROVE  d < c \/ d >= hi
    OBVIOUS
  <2>1. d \in Nat /\ (c < d => above <= d)
    <3> HIDE DEF c
    <3>1. d \in Nat
      BY HeapTiled, Extent
    <3> QED
      BY <1>2, <3>1, HeapTiled, After DEF above
  <2>2. join /\ above < d => next_chunk(tag, above) <= d
    BY <1>3, HeapTiled, After
  <2> QED
    BY <1>2, <1>3, <2>1, <2>2
<1>9. /\ c < above /\ (join => c < above /\ above < hi)
  BY <1>2, <1>3
<1> HIDE DEF hi, n, alone, below, c
<1>10. CASE c = 0
  <2>1. tag' = chunk_set_size(tag, c, hi - c - 2)
    <3>1. hi - c - 2 = n
      BY <1>2, <1>5
    <3> QED
      BY <1>1, <1>10, <3>1 DEF alone
  <2>2. chunks' = Outside(chunks, c, hi)
    <3>1. chunks' = chunks \ (IF join THEN {above} ELSE {})
      BY <1>1, <1>10
    <3>2. ASSUME NEW d \in chunks
          PROVE  d \in chunks' <=> d <= c \/ d >= hi
      <4>1. d \in Nat
        BY HeapTiled, Extent
      <4>2. d \in chunks' <=> ~ (join /\ d = above)
        BY <3>1
      <4> QED
        BY <1>2, <1>5, <1>8, <1>9, <4>1, <4>2
    <3>3. chunks' \subseteq chunks
      BY <3>1
    <3> QED
      BY <3>2, <3>3 DEF Outside
  <2>3. \A d \in chunks : next_chunk(tag, d) = c => tag[d].alloc = TRUE
    BY <1>10, HeapTiled, Extent
  <2>4. c = b.addr /\ c <= b.addr /\ b.addr < hi
    BY <1>2, <1>5 DEF c
  <2>5. \A d \in chunks : c <= d /\ d < hi /\ d # b.addr => tag[d].alloc = FALSE
    BY <1>7, <2>4
  <2> QED
    BY <1>1, <1>2, <1>5, <1>6, <2>1, <2>2, <2>3, <2>4, <2>5, JoinKeeps
<1>11. CASE c # 0
  <2>1. PICK d \in chunks : next_chunk(tag, d) = c
    BY <1>2, <1>11, HeapTiled DEF Tiled
  <2>2. /\ d \in Nat /\ tag[d].size \in Nat /\ c = d + tag[d].size + 2
        /\ tag[c - 1] = tag[d] /\ tag[d].alloc \in BOOLEAN /\ d < c
    BY <2>1, HeapTiled, Extent DEF Tiled
  <2>3. c - 1 > 0 /\ c > 1
    BY <1>2, <2>2
  <2>4. tag[d].alloc = FALSE
    BY <1>1, <2>2, <2>3 DEF c
  <2>5. below = d
    BY <1>2, <2>2 DEF below, prev_chunk, HEADER_FULL_SIZE
  <2>6. tag' = chunk_set_size(tag, d, hi - d - 2)
    <3> DEFINE m == n + tag[d].size + 2
    <3>1. m \in Nat /\ m = hi - d - 2 /\ c + n <= d + m /\ d <= c
      BY <1>2, <1>5, <2>2
    <3>2. tag' = chunk_set_size(chunk_set_size(tag, c, n), d, m)
      BY <1>1, <2>3, <2>5 DEF alone, HEADER_FULL_SIZE, c
    <3> HIDE DEF m
    <3>3. chunk_set_size(chunk_set_size(tag, c, n), d, m) = chunk_set_size(tag, d, m)
      <4>1. c \in Nat /\ n \in Nat /\ d \in Nat /\ m \in Nat /\ d <= c /\ c + n <= d + m
        BY <1>2, <1>5, <2>2, <3>1
      <4> QED
        BY <4>1, Overwrite
    <3> QED
      BY <3>1, <3>2, <3>3
  <2>7. chunks' = Outside(chunks, d, hi)
    <3>1. chunks' = chunks \ (IF join THEN {above, c} ELSE {c})
      BY <1>1, <2>3 DEF c
    <3>2. ASSUME NEW x \in chunks
          PROVE  x \in chunks' <=> x <= d \/ x >= hi
      <4>1. x \in Nat /\ (d < x => c <= x)
        BY <2>1, HeapTiled, Extent, After
      <4>2. x \in chunks' <=> x # c /\ ~ (join /\ x = above)
        BY <3>1
      <4>3. x = c \/ (join /\ x = above) => d < x /\ x < hi
        BY <1>2, <1>5, <1>9, <2>2
      <4> QED
        BY <1>2, <1>5, <1>8, <2>2, <4>1, <4>2, <4>3
    <3>3. chunks' \subseteq chunks
      BY <3>1
    <3> QED
      BY <3>2, <3>3 DEF Outside
  <2>8. \A x \in chunks : next_chunk(tag, x) = d => tag[x].alloc = TRUE
    <3>1. \A x \in chunks : tag[x].alloc \in BOOLEAN
      BY HeapTiled, Extent
    <3> QED
      BY <1>1, <2>4, <3>1 DEF IInv, Coalesced
  <2>9. \A x \in chunks : d <= x /\ x < hi /\ x # c => tag[x].alloc = FALSE
    <3> SUFFICES ASSUME NEW x \in chunks, d <= x, x < hi, x # c
                 PROVE  tag[x].alloc = FALSE
      OBVIOUS
    <3>1. x \in Nat /\ (d < x => c <= x)
      BY <2>1, HeapTiled, Extent, After
    <3> QED
      BY <1>2, <1>7, <2>2, <2>4, <3>1
  <2>10. d <= c /\ c < hi
    BY <1>2, <1>5, <2>2
  <2> QED
    BY <1>1, <1>2, <1>5, <1>6, <2>6, <2>7, <2>8, <2>9, <2>10, JoinKeeps DEF c
<1> QED
  BY <1>10, <1>11

-----------------------------------------------------------------------------
(* What holds as long as frees are ordered *)

LEMMA StepKeeps == ASSUME OrderedFree = TRUE, IInv, [Next]_vars PROVE IInv'
<1>1. CASE \E nbytes \in Requests : kmalloc(nbytes)
  BY <1>1, KmallocKeeps
<1>2. CASE find_first_fit
  BY <1>2, SearchKeeps
<1>3. CASE kmalloc_found
  BY <1>3, FoundKeeps
<1>4. CASE kmalloc_grow
  BY <1>4, GrowKeeps
<1>5. CASE kmalloc_overrun
  BY <1>5, OverrunKeeps
<1>6. CASE kmalloc_panic
  BY <1>6, StopKeeps
<1>7. CASE \E b \in live : kfree(b)
  BY <1>7, FreeKeeps
<1>8. CASE halted \/ UNCHANGED vars
  BY <1>8, StopKeeps DEF halted
<1> QED
  BY <1>1, <1>2, <1>3, <1>4, <1>5, <1>6, <1>7, <1>8 DEF Next, search

\* The inductive invariant of the heap: one tiling by chunks tagged alike at
\* both ends, every chunk reached from below, a search that passed nothing
\* that fits, blocks that are the allocated chunks, no two free neighbours.
THEOREM HeapInvariant ==
  ASSUME OrderedFree = TRUE
  PROVE  Spec => []IInv
<1>1. Init => IInv
  BY InitIInv
<1>2. IInv /\ [Next]_vars => IInv'
  BY StepKeeps
<1> QED
  BY <1>1, <1>2, PTL DEF Spec

\* find_first_fit, which adds up headers, and kfree, which goes back by a
\* footer, always land on a chunk (mm/kheap.c:22-45).
THEOREM TagsAgree ==
  ASSUME OrderedFree = TRUE
  PROVE  Spec => []ChunksInv
<1>1. IInv => ChunksInv
  BY DEF IInv, ChunksInv
<1> QED
  BY <1>1, HeapInvariant, PTL

\* No two callers are given the same block, each block is as large as was
\* asked for, and a chunk is marked allocated exactly while it is held.
THEOREM BlocksAreTheCallers ==
  ASSUME OrderedFree = TRUE
  PROVE  Spec => []LiveInv
<1>1. IInv => LiveInv
  BY DEF IInv
<1> QED
  BY <1>1, HeapInvariant, PTL

\* Merging, splitting and growth never leave two free chunks side by side.
THEOREM FreeIsMerged ==
  ASSUME OrderedFree = TRUE
  PROVE  Spec => []Coalesced
<1>1. IInv => Coalesced
  BY DEF IInv
<1> QED
  BY <1>1, HeapInvariant, PTL

\* The one size in every page for which alloc_new_memory gets too little is
\* a word less than whole pages: its test for an extra page is wrong there
\* and nowhere else (mm/kheap.c:98).
THEOREM FaultsOnlyAtPageEdge ==
  ASSUME OrderedFree = TRUE
  PROVE  Spec => []FaultsAtPageEdge
<1>1. IInv => FaultsAtPageEdge
  BY DEF IInv
<1> QED
  BY <1>1, HeapInvariant, PTL

\* kmalloc asks for pages only when no free chunk would have done: the search
\* that gives up has passed them all.
THEOREM GrowsOnlyWhenFull ==
  ASSUME OrderedFree = TRUE
  PROVE  Spec => GrowsWhenFull
<1>1. ASSUME IInv, [Next]_vars
      PROVE  [pc = "fit" /\ heap_end' > heap_end
                => \A c \in chunks : tag[c].alloc \/ tag[c].size < size]_vars
  <2> SUFFICES ASSUME Next, pc = "fit", heap_end' > heap_end, NEW c \in chunks
               PROVE  tag[c].alloc \/ tag[c].size < size
    BY <1>1
  <2>1. heap_end \in Nat
    BY <1>1, HeapTiled DEF Tiled
  <2>2. p >= heap_end
    BY <2>1 DEF Next, search, kmalloc, find_first_fit, kmalloc_found, kmalloc_grow,
                kmalloc_overrun, kmalloc_panic, Grow, kfree, halted, vars
  <2>3. c < heap_end /\ c \in Nat /\ tag[c].size \in Nat
    BY <1>1, HeapTiled, Extent
  <2>4. p \in Nat /\ size \in Nat
    BY <1>1 DEF IInv, TypeOK
  <2>5. ~ Fits(c)
    <3>1. c < p
      BY <2>1, <2>2, <2>3, <2>4
    <3> QED
      BY <1>1, <3>1 DEF IInv, SearchInv
  <2> QED
    BY <2>3, <2>4, <2>5 DEF Fits
<1> QED
  BY <1>1, HeapInvariant, PTL DEF Spec, GrowsWhenFull
=============================================================================
