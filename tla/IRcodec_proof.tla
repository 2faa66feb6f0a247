--------------------------- MODULE IRcodec_proof ---------------------------
(***************************************************************************)
(* Proofs about the matchers, for words of any number of bits, and that of *)
(* the protocols whose bits are told by the lengths of their marks and     *)
(* spaces what is sent is read.                                            *)
(***************************************************************************)
EXTENDS IRcodec, Induction, SequenceTheorems

-----------------------------------------------------------------------------
(* A match, whatever its data are.                                         *)
IsMatch(r) ==
    r \in [ok : BOOLEAN, next : Nat, data : {r.data},
           bank : {r.bank}, nr : {r.nr}, bit : {r.bit}]

(* upto[i] is the match behind the first i bits.                           *)
BitByBit(upto, b, r, p, nbits, spaced) ==
    /\ matchBits(b, r, p, nbits, spaced) = upto[nbits]
    /\ upto[0] = [r EXCEPT !.data = <<>>]
    /\ \A i \in 1 .. nbits :
         upto[i] = matchBit(b, upto[i - 1], p, spaced \/ i < nbits)

LEMMA BitsSteps ==
    ASSUME NEW b, NEW r, NEW p, NEW nbits \in Nat, NEW spaced
    PROVE  \E upto : BitByBit(upto, b, r, p, nbits, spaced)
<1> DEFINE Value(f, i) == IF i = 0 THEN [r EXCEPT !.data = <<>>]
                          ELSE matchBit(b, f[i - 1], p, spaced \/ i < nbits)
           Upto(f, k) == f = [i \in 0 .. k |-> Value(f, i)]
           T == {k \in 0 .. nbits : \E f : Upto(f, k)}
<1>1. 0 \in T
  <2> DEFINE f == [i \in 0 .. 0 |-> [r EXCEPT !.data = <<>>]]
  <2>1. Upto(f, 0)
      OBVIOUS
  <2> HIDE DEF Upto, f
  <2> QED
      BY <2>1
<1>2. ASSUME NEW k \in 0 .. nbits - 1, k \in T PROVE k + 1 \in T
  <2>1. PICK f : Upto(f, k)
      BY <1>2
  <2> DEFINE g == [i \in 0 .. k + 1 |-> IF i = k + 1 THEN Value(f, i) ELSE f[i]]
  <2>2. \A i \in 0 .. k + 1 : i # 0 => g[i - 1] = f[i - 1]
      OBVIOUS
  <2>3. \A i \in 0 .. k + 1 : Value(g, i) = Value(f, i)
      BY <2>2
  <2> HIDE DEF Value
  <2>4. \A i \in 0 .. k + 1 : g[i] = Value(g, i)
      BY <2>1, <2>3
  <2>5. Upto(g, k + 1)
      BY <2>4
  <2> HIDE DEF Upto, g
  <2> QED
      BY <2>5
<1>3. nbits \in T
  <2> HIDE DEF T
  <2>1. 0 .. nbits \subseteq T
      BY <1>1, <1>2, UpTo
  <2> QED
      BY <2>1
<1> DEFINE upto == CHOOSE f : Upto(f, nbits)
<1>4. Upto(upto, nbits)
  <2> HIDE DEF Upto
  <2> QED
      BY <1>3
<1>5. matchBits(b, r, p, nbits, spaced) = upto[nbits]
    BY DEF matchBits
<1> HIDE DEF upto
<1>6. \A i \in 0 .. nbits : upto[i] = Value(upto, i)
  <2> HIDE DEF Value
  <2> QED
      BY <1>4
<1>7. upto[0] = [r EXCEPT !.data = <<>>]
    BY <1>6
<1>8. ASSUME NEW i \in 1 .. nbits
      PROVE  upto[i] = matchBit(b, upto[i - 1], p, spaced \/ i < nbits)
  <2>1. i \in 0 .. nbits /\ i # 0
      OBVIOUS
  <2> QED
      BY <1>6, <2>1
<1> QED
    BY <1>5, <1>7, <1>8 DEF BitByBit

(* The interval at k and the one behind it are those of a one, of a zero.  *)
Told(b, k, p, spaced, themark, thespace) ==
    /\ matchMark(b[k], themark, p)
    /\ spaced => matchSpace(b[k + 1], thespace, p)
ToldOne(b, k, p, spaced) == Told(b, k, p, spaced, p.onemark, p.onespace)
ToldZero(b, k, p, spaced) == Told(b, k, p, spaced, p.zeromark, p.zerospace)

(* All that matchBits() does: what it accepts, where it leads, and what it *)
(* reads.                                                                  *)
LEMMA BitType ==
    ASSUME NEW b, NEW p, NEW r, IsMatch(r), r.data \in Seq(Bit), NEW spaced
    PROVE  LET m == matchBit(b, r, p, spaced) IN IsMatch(m) /\ m.data \in Seq(Bit)
<1>1. r.next + 1 \in Nat /\ r.next + 2 \in Nat
    BY DEF IsMatch
<1>2. Append(r.data, 0) \in Seq(Bit) /\ Append(r.data, 1) \in Seq(Bit)
    BY DEF Bit
<1> QED
    BY <1>1, <1>2 DEF matchBit, IsMatch, Failed

LEMMA BitsRead ==
    ASSUME NEW b, NEW p, NEW r, IsMatch(r), r.ok,
           NEW nbits \in Nat, NEW spaced
    PROVE  LET m == matchBits(b, r, p, nbits, spaced)
               at(i) == r.next + 2 * (i - 1)
               one(i) == ToldOne(b, at(i), p, spaced \/ i < nbits)
               zero(i) == ToldZero(b, at(i), p, spaced \/ i < nbits)
           IN  /\ IsMatch(m) /\ m.data \in Seq(Bit)
               /\ m.ok <=> \A i \in 1 .. nbits : one(i) \/ zero(i)
               /\ m.ok => /\ m.next = r.next + 2 * nbits
                                      - IF spaced \/ nbits = 0 THEN 0 ELSE 1
                          /\ m.data = [i \in 1 .. nbits |-> IF one(i) THEN 1 ELSE 0]
<1> DEFINE at(i) == r.next + 2 * (i - 1)
           one(i) == ToldOne(b, at(i), p, spaced \/ i < nbits)
           zero(i) == ToldZero(b, at(i), p, spaced \/ i < nbits)
           behind(i) == r.next + 2 * i - IF spaced \/ i < nbits \/ i = 0 THEN 0 ELSE 1
           Read(m, i) == /\ IsMatch(m) /\ m.data \in Seq(Bit)
                         /\ m.ok <=> \A j \in 1 .. i : one(j) \/ zero(j)
                         /\ m.ok => /\ m.next = behind(i)
                                    /\ Len(m.data) = i
                                    /\ \A j \in 1 .. i : m.data[j] = IF one(j) THEN 1 ELSE 0
<1>1. PICK upto : BitByBit(upto, b, r, p, nbits, spaced)
    BY BitsSteps, Zenon
<1> DEFINE T == {i \in 0 .. nbits : Read(upto[i], i)}
<1>2. r.next \in Nat /\ r.ok = TRUE /\ r.ok \in BOOLEAN
    BY DEF IsMatch
<1>3. 0 \in T
  <2>1. upto[0] = [r EXCEPT !.data = <<>>] /\ 0 \in 0 .. nbits
      BY <1>1 DEF BitByBit
  <2>2. upto[0].ok = TRUE /\ upto[0].next = r.next /\ upto[0].data = <<>>
      BY <1>2, <2>1 DEF IsMatch
  <2>3. IsMatch(upto[0])
      BY <2>1 DEF IsMatch
  <2>4. upto[0].data \in Seq(Bit) /\ Len(upto[0].data) = 0
      BY <2>2
  <2>5. behind(0) = r.next
      BY <1>2
  <2> HIDE DEF one, zero, behind
  <2>6. Read(upto[0], 0)
      BY <2>2, <2>3, <2>4, <2>5
  <2> QED
      BY <2>1, <2>6
<1>4. ASSUME NEW i \in 0 .. nbits - 1, i \in T PROVE i + 1 \in T
  <2>1. i + 1 \in 1 .. nbits /\ i + 1 \in 0 .. nbits /\ (i + 1) - 1 = i
      OBVIOUS
  <2> DEFINE s == upto[i]
             m == upto[i + 1]
             last == spaced \/ i + 1 < nbits
  <2>2. m = matchBit(b, s, p, last)
      BY <1>1, <2>1 DEF BitByBit
  <2>3. Read(s, i)
      BY <1>4
  <2> HIDE DEF s, m
  <2>4. CASE ~s.ok
    <3>1. m = s
        BY <2>2, <2>4 DEF matchBit
    <3>2. ~(\A j \in 1 .. i : one(j) \/ zero(j))
        BY <2>3, <2>4
    <3>3. ~(\A j \in 1 .. i + 1 : one(j) \/ zero(j))
        BY <3>2
    <3> QED
        BY <2>1, <2>3, <2>4, <3>1, <3>3 DEF m
  <2>5. CASE s.ok
    <3>1. s.next = at(i + 1) /\ s.next \in Nat /\ s.data \in Seq(Bit) /\ Len(s.data) = i
      <4>1. s.next = behind(i) /\ Len(s.data) = i
          BY <2>3, <2>5
      <4>2. behind(i) = at(i + 1)
          BY <1>2, <2>1
      <4> QED
          BY <2>3, <4>1, <4>2 DEF IsMatch
    <3>2. m = IF one(i + 1) THEN [s EXCEPT !.next = @ + IF last THEN 2 ELSE 1,
                                           !.data = Append(@, 1)]
              ELSE IF zero(i + 1) THEN [s EXCEPT !.next = @ + IF last THEN 2 ELSE 1,
                                                 !.data = Append(@, 0)]
              ELSE [s EXCEPT !.ok = FALSE]
        BY <2>2, <2>5, <3>1 DEF matchBit, Failed, ToldOne, ToldZero, Told
    <3> HIDE DEF one, zero
    <3>3. \A j \in 1 .. i : one(j) \/ zero(j)
        BY <2>3, <2>5
    <3>4. m.ok <=> one(i + 1) \/ zero(i + 1)
        BY <2>3, <2>5, <3>2 DEF IsMatch
    <3>5. m.ok <=> \A j \in 1 .. i + 1 : one(j) \/ zero(j)
        BY <2>1, <3>3, <3>4
    <3>6. ASSUME m.ok PROVE m.next = behind(i + 1)
      <4>1. m.next = s.next + IF last THEN 2 ELSE 1
          BY <2>3, <3>1, <3>2, <3>4, <3>6 DEF IsMatch
      <4>2. behind(i + 1) = at(i + 1) + IF last THEN 2 ELSE 1
          BY <1>2, <2>1
      <4> QED
          BY <3>1, <4>1, <4>2
    <3>7. ASSUME m.ok PROVE m.data = Append(s.data, IF one(i + 1) THEN 1 ELSE 0)
        BY <2>3, <2>5, <3>2, <3>4, <3>7 DEF IsMatch
    <3>8. ASSUME m.ok
          PROVE  /\ Len(m.data) = i + 1
                 /\ \A j \in 1 .. i + 1 : m.data[j] = IF one(j) THEN 1 ELSE 0
      <4> DEFINE bit == IF one(i + 1) THEN 1 ELSE 0
      <4>1. m.data = Append(s.data, bit)
          BY <3>7, <3>8
      <4>2. \A j \in 1 .. i : s.data[j] = IF one(j) THEN 1 ELSE 0
          BY <2>3, <2>5
      <4> HIDE DEF bit
      <4>3. /\ Len(m.data) = i + 1 /\ m.data[i + 1] = bit
            /\ \A j \in 1 .. i : m.data[j] = s.data[j]
          BY <3>1, <4>1
      <4>4. \A j \in 1 .. i + 1 : j = i + 1 \/ j \in 1 .. i
          BY <2>1
      <4> QED
          BY <4>2, <4>3, <4>4 DEF bit
    <3>9. IsMatch(m) /\ m.data \in Seq(Bit)
        BY <2>2, <2>3, BitType
    <3>10. Read(m, i + 1)
        BY <3>5, <3>6, <3>8, <3>9
    <3> QED
        BY <2>1, <3>10 DEF m
  <2> QED
      BY <2>4, <2>5
<1>5. nbits \in T
  <2> HIDE DEF T
  <2>1. 0 .. nbits \subseteq T
      BY <1>3, <1>4, UpTo
  <2> QED
      BY <2>1
<1> DEFINE m == matchBits(b, r, p, nbits, spaced)
<1>6. Read(m, nbits)
  <2>1. m = upto[nbits] /\ nbits \in 0 .. nbits
      BY <1>1 DEF BitByBit
  <2> QED
      BY <1>1, <1>5, <2>1
<1> HIDE DEF m, one
<1>7. ASSUME m.ok PROVE m.data = [i \in 1 .. nbits |-> IF one(i) THEN 1 ELSE 0]
  <2>1. m.data \in Seq(Bit) /\ Len(m.data) = nbits
      BY <1>6, <1>7 DEF IsMatch
  <2>2. m.data = [i \in 1 .. nbits |-> m.data[i]]
      BY <2>1
  <2>3. \A i \in 1 .. nbits : m.data[i] = IF one(i) THEN 1 ELSE 0
      BY <1>6, <1>7
  <2> QED
      BY <2>2, <2>3
<1> QED
    BY <1>2, <1>6, <1>7 DEF m, one

(* Of a match that has failed nothing more is read.                        *)
LEMMA BitsFailed ==
    ASSUME NEW b, NEW p, NEW r, IsMatch(r), ~r.ok, NEW nbits \in Nat, NEW spaced
    PROVE  matchBits(b, r, p, nbits, spaced) = [r EXCEPT !.data = <<>>]
<1>1. PICK upto : BitByBit(upto, b, r, p, nbits, spaced)
    BY BitsSteps, Zenon
<1> DEFINE start == [r EXCEPT !.data = <<>>]
           T == {i \in 0 .. nbits : upto[i] = start}
<1>2. ~start.ok
    BY DEF IsMatch
<1>3. upto[0] = start /\ matchBits(b, r, p, nbits, spaced) = upto[nbits]
    BY <1>1 DEF BitByBit
<1> HIDE DEF start
<1>4. ASSUME NEW i \in 0 .. nbits - 1, i \in T PROVE i + 1 \in T
  <2>1. i + 1 \in 1 .. nbits /\ i + 1 \in 0 .. nbits /\ (i + 1) - 1 = i
      OBVIOUS
  <2>2. upto[i + 1] = matchBit(b, upto[i], p, spaced \/ i + 1 < nbits)
      BY <1>1, <2>1 DEF BitByBit
  <2> QED
      BY <1>2, <1>4, <2>1, <2>2 DEF matchBit
<1>5. nbits \in T
  <2>1. 0 \in T
      BY <1>3
  <2> HIDE DEF T
  <2>2. 0 .. nbits \subseteq T
      BY <2>1, <1>4, UpTo
  <2> QED
      BY <2>2
<1> QED
    BY <1>3, <1>5 DEF start

-----------------------------------------------------------------------------
(* Two buffers with the same capture, and what not behind it.              *)
Same(b, c, end) == \A k \in Nat : k < end => b[k] = c[k]

(* A match that, if it has not failed, has come to k at most.              *)
Reaches(r, k) == IsMatch(r) /\ (r.ok => r.next <= k)

LEMMA BitAgrees ==
    ASSUME NEW b, NEW c, NEW end \in Nat, Same(b, c, end), NEW p, NEW spaced,
           NEW r, NEW k \in Nat, Reaches(r, k),
           k + (IF spaced THEN 2 ELSE 1) <= end
    PROVE  /\ matchBit(b, r, p, spaced) = matchBit(c, r, p, spaced)
           /\ Reaches(matchBit(b, r, p, spaced), k + IF spaced THEN 2 ELSE 1)
<1>1. r.next \in Nat /\ r.next + 1 \in Nat /\ r.next + 2 \in Nat /\ IsMatch(r)
    BY DEF Reaches, IsMatch
<1>2. r.ok => b[r.next] = c[r.next] /\ (spaced => b[r.next + 1] = c[r.next + 1])
    BY <1>1 DEF Same, Reaches
<1>3. matchBit(b, r, p, spaced) = matchBit(c, r, p, spaced)
    BY <1>2 DEF matchBit
<1> DEFINE m == matchBit(b, r, p, spaced)
<1>4. IsMatch(m)
    BY <1>1 DEF matchBit, IsMatch, Failed
<1>5. m.ok => r.ok /\ m.next = r.next + IF spaced THEN 2 ELSE 1
    BY <1>1 DEF matchBit, IsMatch, Failed
<1> HIDE DEF m
<1>6. Reaches(m, k + IF spaced THEN 2 ELSE 1)
    BY <1>1, <1>4, <1>5 DEF Reaches
<1> QED
    BY <1>3, <1>6 DEF m

(* matchBits() looks at the intervals of its bits alone.                   *)
LEMMA BitsAgree ==
    ASSUME NEW b, NEW c, NEW end \in Nat, Same(b, c, end), NEW p, NEW spaced,
           NEW r, NEW k \in Nat, Reaches(r, k), NEW nbits \in Nat \ {0},
           k + 2 * nbits - (IF spaced THEN 0 ELSE 1) <= end
    PROVE  /\ matchBits(b, r, p, nbits, spaced) = matchBits(c, r, p, nbits, spaced)
           /\ Reaches(matchBits(b, r, p, nbits, spaced),
                      k + 2 * nbits - IF spaced THEN 0 ELSE 1)
<1>1. PICK u : BitByBit(u, b, r, p, nbits, spaced)
    BY BitsSteps, Zenon
<1>2. PICK v : BitByBit(v, c, r, p, nbits, spaced)
    BY BitsSteps, Zenon
<1> DEFINE behind(i) == k + 2 * i - IF spaced \/ i < nbits THEN 0 ELSE 1
           T == {i \in 0 .. nbits : u[i] = v[i] /\ Reaches(u[i], behind(i))}
<1>3. 0 \in T
  <2>1. u[0] = [r EXCEPT !.data = <<>>] /\ v[0] = [r EXCEPT !.data = <<>>]
      BY <1>1, <1>2 DEF BitByBit
  <2>2. IsMatch(u[0]) /\ u[0].next = r.next /\ u[0].ok = r.ok
      BY <2>1 DEF IsMatch, Reaches
  <2>3. behind(0) = k /\ 0 \in 0 .. nbits
      OBVIOUS
  <2>4. Reaches(u[0], behind(0))
      BY <2>2, <2>3 DEF Reaches
  <2> QED
      BY <2>1, <2>3, <2>4
<1>4. ASSUME NEW i \in 0 .. nbits - 1, i \in T PROVE i + 1 \in T
  <2>1. i + 1 \in 1 .. nbits /\ i + 1 \in 0 .. nbits /\ (i + 1) - 1 = i
      OBVIOUS
  <2> DEFINE last == spaced \/ i + 1 < nbits
             s == u[i]
  <2>2. u[i + 1] = matchBit(b, s, p, last) /\ v[i + 1] = matchBit(c, s, p, last)
      BY <1>1, <1>2, <1>4, <2>1 DEF BitByBit
  <2>3. Reaches(s, k + 2 * i) /\ k + 2 * i \in Nat
      BY <1>4, <2>1
  <2>4. k + 2 * i + (IF last THEN 2 ELSE 1) <= end
      BY <2>1
  <2>5. behind(i + 1) = k + 2 * i + IF last THEN 2 ELSE 1
      BY <2>1
  <2> HIDE DEF s, last, behind
  <2>6. /\ matchBit(b, s, p, last) = matchBit(c, s, p, last)
        /\ Reaches(matchBit(b, s, p, last), k + 2 * i + IF last THEN 2 ELSE 1)
      BY <2>3, <2>4, BitAgrees, Zenon
  <2> QED
      BY <2>1, <2>2, <2>5, <2>6
<1>5. nbits \in T
  <2> HIDE DEF T
  <2>1. 0 .. nbits \subseteq T
      BY <1>3, <1>4, UpTo
  <2> QED
      BY <2>1
<1> QED
    BY <1>1, <1>2, <1>5 DEF BitByBit

LEMMA TakesAgree ==
    ASSUME NEW b, NEW c, NEW end \in Nat, Same(b, c, end), NEW p, NEW usec,
           NEW r, NEW k \in Nat, Reaches(r, k), k + Entry(usec) <= end
    PROVE  /\ TakeMark(b, r, usec, p) = TakeMark(c, r, usec, p)
           /\ TakeSpace(b, r, usec, p) = TakeSpace(c, r, usec, p)
           /\ Reaches(TakeMark(b, r, usec, p), k + Entry(usec))
           /\ Reaches(TakeSpace(b, r, usec, p), k + Entry(usec))
<1>1. r.next \in Nat /\ r.next + 1 \in Nat /\ IsMatch(r)
    BY DEF Reaches, IsMatch
<1>2. CASE usec = 0
    BY <1>1, <1>2 DEF TakeMark, TakeSpace, Entry, Reaches
<1>3. CASE usec # 0 /\ ~r.ok
  <2>1. TakeMark(b, r, usec, p) = r /\ TakeSpace(b, r, usec, p) = r
        /\ TakeMark(c, r, usec, p) = r /\ TakeSpace(c, r, usec, p) = r
      BY <1>3 DEF TakeMark, TakeSpace
  <2> QED
      BY <1>1, <1>3, <2>1 DEF Reaches
<1>4. CASE usec # 0 /\ r.ok
  <2>1. b[r.next] = c[r.next] /\ r.next + 1 <= k + 1 /\ Entry(usec) = 1
      BY <1>1, <1>4 DEF Same, Reaches, Entry
  <2> DEFINE good(ok) == [r EXCEPT !.next = @ + 1, !.ok = ok]
  <2>2. ASSUME NEW ok \in BOOLEAN PROVE Reaches(good(ok), k + 1)
      BY <1>1, <2>1 DEF Reaches, IsMatch
  <2>3. /\ TakeMark(b, r, usec, p) = good(matchMark(b[r.next], usec, p))
        /\ TakeSpace(b, r, usec, p) = good(matchSpace(b[r.next], usec, p))
        /\ TakeMark(c, r, usec, p) = good(matchMark(c[r.next], usec, p))
        /\ TakeSpace(c, r, usec, p) = good(matchSpace(c[r.next], usec, p))
      BY <1>4 DEF TakeMark, TakeSpace
  <2>4. /\ matchMark(b[r.next], usec, p) \in BOOLEAN
        /\ matchSpace(b[r.next], usec, p) \in BOOLEAN
      BY DEF matchMark, matchSpace, match
  <2>5. /\ Reaches(TakeMark(b, r, usec, p), k + 1)
        /\ Reaches(TakeSpace(b, r, usec, p), k + 1)
    <3> HIDE DEF good
    <3> QED
        BY <2>2, <2>3, <2>4
  <2> QED
      BY <2>1, <2>3, <2>5
<1> QED
    BY <1>2, <1>3, <1>4

LEMMA MarkAgrees ==
    ASSUME NEW b, NEW c, NEW end \in Nat, Same(b, c, end), NEW p, NEW usec,
           NEW r, NEW k \in Nat, Reaches(r, k), k + Entry(usec) <= end
    PROVE  /\ TakeMark(b, r, usec, p) = TakeMark(c, r, usec, p)
           /\ Reaches(TakeMark(b, r, usec, p), k + Entry(usec))
BY TakesAgree

LEMMA SpaceAgrees ==
    ASSUME NEW b, NEW c, NEW end \in Nat, Same(b, c, end), NEW p, NEW usec,
           NEW r, NEW k \in Nat, Reaches(r, k), k + Entry(usec) <= end
    PROVE  /\ TakeSpace(b, r, usec, p) = TakeSpace(c, r, usec, p)
           /\ Reaches(TakeSpace(b, r, usec, p), k + Entry(usec))
BY TakesAgree

LEMMA GapAgrees ==
    ASSUME NEW b, NEW c, NEW end \in Nat, Same(b, c, end), NEW p, NEW usec,
           NEW exact, NEW r, IsMatch(r)
    PROVE  /\ TakeGap(b, r, end, usec, p, exact) = TakeGap(c, r, end, usec, p, exact)
           /\ IsMatch(TakeGap(b, r, end, usec, p, exact))
<1>1. r.next \in Nat /\ r.next + 1 \in Nat
    BY DEF IsMatch
<1>2. r.next < end => b[r.next] = c[r.next]
    BY <1>1 DEF Same
<1>3. TakeGap(b, r, end, usec, p, exact) = TakeGap(c, r, end, usec, p, exact)
  <2>1. CASE r.next < end
      BY <1>2, <2>1, Zenon DEF TakeGap
  <2>2. CASE ~(r.next < end)
    <3>1. r.next >= end
        BY <1>1, <2>2
    <3> QED
        BY <3>1, Zenon DEF TakeGap
  <2> QED
      BY <2>1, <2>2
<1> DEFINE ok == IF exact THEN matchSpace(b[r.next], usec, p)
                          ELSE matchAtLeast(b[r.next], usec, p)
<1>4. ok \in BOOLEAN
    BY DEF matchSpace, match, matchAtLeast
<1> HIDE DEF ok
<1>5. \/ TakeGap(b, r, end, usec, p, exact) = r
      \/ TakeGap(b, r, end, usec, p, exact) = [r EXCEPT !.next = @ + 1, !.ok = ok]
    BY DEF TakeGap, ok
<1>6. IsMatch([r EXCEPT !.next = @ + 1, !.ok = ok])
    BY <1>1, <1>4 DEF IsMatch
<1> QED
    BY <1>3, <1>5, <1>6

(* What has failed has come nowhere; what is done to data moves nothing.   *)
LEMMA FailedReaches ==
    ASSUME NEW r, IsMatch(r), NEW k
    PROVE  IsMatch(Failed(r)) /\ Reaches(Failed(r), k)
BY DEF Failed, IsMatch, Reaches

LEMMA DataStays ==
    ASSUME NEW r, NEW k, Reaches(r, k), NEW p, NEW q, IsMatch(q)
    PROVE  Reaches(Ordered(r, p), k) /\ Reaches(Joined(q, r), k)
<1>1. Reaches(Ordered(r, p), k)
    BY DEF Ordered, Reaches, IsMatch
<1>2. IsMatch(Failed(q)) /\ ~Failed(q).ok
    BY DEF Failed, IsMatch
<1>3. Reaches([r EXCEPT !.data = Append(q.data, @)], k)
    BY DEF Reaches, IsMatch
<1>4. Reaches(Joined(q, r), k)
    BY <1>2, <1>3 DEF Joined, Reaches
<1> QED
    BY <1>1, <1>2, <1>4 DEF Reaches

LEMMA DataAgrees ==
    ASSUME NEW b, NEW c, NEW end \in Nat, Same(b, c, end), NEW p, NEW spaced,
           NEW r, NEW k \in Nat, Reaches(r, k), NEW nbits \in Nat \ {0},
           k + 2 * nbits - (IF spaced THEN 0 ELSE 1) <= end
    PROVE  /\ matchData(b, r, p, nbits, spaced) = matchData(c, r, p, nbits, spaced)
           /\ Reaches(matchData(b, r, p, nbits, spaced),
                      k + 2 * nbits - IF spaced THEN 0 ELSE 1)
<1> DEFINE m == matchBits(b, r, p, nbits, spaced)
           last == k + 2 * nbits - IF spaced THEN 0 ELSE 1
<1>1. /\ m = matchBits(c, r, p, nbits, spaced) /\ Reaches(m, last)
    BY BitsAgree, Zenon
<1>2. /\ matchData(b, r, p, nbits, spaced) = Ordered(m, p)
      /\ matchData(c, r, p, nbits, spaced) = Ordered(m, p)
    BY <1>1 DEF matchData
<1> HIDE DEF m, last
<1>3. IsMatch(m) /\ Reaches(Ordered(m, p), last)
  <2>1. IsMatch(m)
      BY <1>1 DEF Reaches
  <2> QED
      BY <1>1, <2>1, DataStays, Zenon
<1> QED
    BY <1>2, <1>3 DEF last

(* upto[i] is the match behind the first i bytes.                          *)
ByteByByte(upto, b, r, end, p, nbytes, spaced) ==
    /\ matchBytes(b, r, end, p, nbytes, spaced) = upto[nbytes]
    /\ upto[0] = r
    /\ \A i \in 1 .. nbytes :
         upto[i] = Joined(upto[i - 1], matchData(b, upto[i - 1], p, p.width,
                                               spaced \/ i < nbytes))

LEMMA BytesSteps ==
    ASSUME NEW b, NEW r, NEW end, NEW p, NEW nbytes \in Nat, NEW spaced,
           Enough(r, end, nbytes * p.width * 2 + IF spaced THEN 0 ELSE 1)
    PROVE  \E upto : ByteByByte(upto, b, r, end, p, nbytes, spaced)
<1> DEFINE Value(f, i) == IF i = 0 THEN r
                          ELSE Joined(f[i - 1], matchData(b, f[i - 1], p, p.width,
                                               spaced \/ i < nbytes))
           Upto(f, k) == f = [i \in 0 .. k |-> Value(f, i)]
           T == {k \in 0 .. nbytes : \E f : Upto(f, k)}
<1>1. 0 \in T
  <2> DEFINE f == [i \in 0 .. 0 |-> r]
  <2>1. Upto(f, 0)
      OBVIOUS
  <2> HIDE DEF Upto, f
  <2> QED
      BY <2>1
<1>2. ASSUME NEW k \in 0 .. nbytes - 1, k \in T PROVE k + 1 \in T
  <2>1. PICK f : Upto(f, k)
      BY <1>2
  <2> DEFINE g == [i \in 0 .. k + 1 |-> IF i = k + 1 THEN Value(f, i) ELSE f[i]]
  <2>2. \A i \in 0 .. k + 1 : i # 0 => g[i - 1] = f[i - 1]
      OBVIOUS
  <2>3. \A i \in 0 .. k + 1 : Value(g, i) = Value(f, i)
      BY <2>2
  <2> HIDE DEF Value
  <2>4. \A i \in 0 .. k + 1 : g[i] = Value(g, i)
      BY <2>1, <2>3
  <2>5. Upto(g, k + 1)
      BY <2>4
  <2> HIDE DEF Upto, g
  <2> QED
      BY <2>5
<1>3. nbytes \in T
  <2> HIDE DEF T
  <2>1. 0 .. nbytes \subseteq T
      BY <1>1, <1>2, UpTo
  <2> QED
      BY <2>1
<1> DEFINE upto == CHOOSE f : Upto(f, nbytes)
<1>4. Upto(upto, nbytes)
  <2> HIDE DEF Upto
  <2> QED
      BY <1>3
<1>5. matchBytes(b, r, end, p, nbytes, spaced) = upto[nbytes]
    BY DEF matchBytes
<1> HIDE DEF upto
<1>6. \A i \in 0 .. nbytes : upto[i] = Value(upto, i)
  <2> HIDE DEF Value
  <2> QED
      BY <1>4
<1>7. upto[0] = r
    BY <1>6
<1>8. ASSUME NEW i \in 1 .. nbytes
      PROVE  upto[i] = Joined(upto[i - 1], matchData(b, upto[i - 1], p, p.width,
                                               spaced \/ i < nbytes))
  <2>1. i \in 0 .. nbytes /\ i # 0
      OBVIOUS
  <2> QED
      BY <1>6, <2>1
<1> QED
    BY <1>5, <1>7, <1>8 DEF ByteByByte

LEMMA BytesAgree ==
    ASSUME NEW b, NEW c, NEW end \in Nat, Same(b, c, end), NEW p,
           p.width \in Nat \ {0}, NEW spaced,
           NEW r, NEW k \in Nat, Reaches(r, k), NEW nbytes \in Nat \ {0},
           k + 2 * (nbytes * p.width) - (IF spaced THEN 0 ELSE 1) <= end
    PROVE  /\ matchBytes(b, r, end, p, nbytes, spaced) = matchBytes(c, r, end, p, nbytes, spaced)
           /\ Reaches(matchBytes(b, r, end, p, nbytes, spaced),
                      k + 2 * (nbytes * p.width) - IF spaced THEN 0 ELSE 1)
<1> DEFINE needed == nbytes * p.width * 2 + IF spaced THEN 0 ELSE 1
           far == k + 2 * (nbytes * p.width) - IF spaced THEN 0 ELSE 1
<1>1. CASE ~Enough(r, end, needed)
  <2>1. IsMatch(r)
      BY DEF Reaches
  <2>2. Reaches(Failed(r), far)
    <3> HIDE DEF far
    <3> QED
        BY <2>1, FailedReaches, Zenon
  <2> QED
      BY <1>1, <2>2 DEF matchBytes
<1>2. CASE Enough(r, end, needed)
  <2>1. PICK u : ByteByByte(u, b, r, end, p, nbytes, spaced)
      BY <1>2, BytesSteps, Zenon
  <2>2. PICK v : ByteByByte(v, c, r, end, p, nbytes, spaced)
      BY <1>2, BytesSteps, Zenon
  <2> DEFINE behind(i) == k + 2 * (i * p.width) - IF spaced \/ i < nbytes THEN 0 ELSE 1
             T == {i \in 0 .. nbytes : u[i] = v[i] /\ Reaches(u[i], behind(i))}
  <2>3. 0 \in T
    <3>1. behind(0) = k /\ 0 \in 0 .. nbytes
        OBVIOUS
    <3> HIDE DEF behind
    <3> QED
        BY <2>1, <2>2, <3>1 DEF ByteByByte
  <2>4. ASSUME NEW i \in 0 .. nbytes - 1, i \in T PROVE i + 1 \in T
    <3>1. i + 1 \in 1 .. nbytes /\ i + 1 \in 0 .. nbytes /\ (i + 1) - 1 = i /\ i \in Nat
        OBVIOUS
    <3> DEFINE last == spaced \/ i + 1 < nbytes
               s == u[i]
               w == p.width
    <3>2. /\ u[i + 1] = Joined(s, matchData(b, s, p, w, last))
          /\ v[i + 1] = Joined(s, matchData(c, s, p, w, last))
        BY <2>1, <2>2, <2>4, <3>1 DEF ByteByByte
    <3>3. k + 2 * (i * w) \in Nat /\ Reaches(s, k + 2 * (i * w))
      <4>1. i * w \in Nat
          BY <3>1
      <4>2. behind(i) = k + 2 * (i * w)
          BY <4>1
      <4> QED
          BY <2>4, <4>1, <4>2
    <3>4. (i + 1) * w = i * w + w /\ i * w \in Nat /\ nbytes * w \in Nat
        BY <3>1
    <3>5. behind(i + 1) = k + 2 * (i * w) + 2 * w - IF last THEN 0 ELSE 1
        BY <3>1, <3>4
    <3>6. behind(i + 1) <= end
      <4>1. CASE i + 1 = nbytes
          BY <3>4, <4>1
      <4>2. CASE i + 1 < nbytes
        <5>1. (i + 1) * w + w <= nbytes * w
            BY <3>1, <4>2
        <5> QED
            BY <3>4, <4>2, <5>1
      <4> QED
          BY <4>1, <4>2
    <3> HIDE DEF s, last, behind
    <3>7. k + 2 * (i * w) + 2 * w - (IF last THEN 0 ELSE 1) <= end
        BY <3>5, <3>6
    <3> HIDE DEF w
    <3>8. w \in Nat \ {0}
        BY DEF w
    <3>9. /\ matchData(b, s, p, w, last) = matchData(c, s, p, w, last)
          /\ Reaches(matchData(b, s, p, w, last),
                     k + 2 * (i * w) + 2 * w - IF last THEN 0 ELSE 1)
        BY <3>3, <3>7, <3>8, DataAgrees, Zenon
    <3>10. IsMatch(s)
        BY <3>3 DEF Reaches
    <3>11. Reaches(Joined(s, matchData(b, s, p, w, last)), behind(i + 1))
        BY <3>5, <3>9, <3>10, DataStays, Zenon
    <3> QED
        BY <3>1, <3>2, <3>9, <3>11
  <2>5. nbytes \in T
    <3> HIDE DEF T
    <3>1. 0 .. nbytes \subseteq T
        BY <2>3, <2>4, UpTo
    <3> QED
        BY <3>1
  <2> QED
      BY <2>1, <2>2, <2>5 DEF ByteByByte
<1> QED
    BY <1>1, <1>2

-----------------------------------------------------------------------------
(* The functions for one section: they look at the capture alone, as they  *)
(* have asked first whether it is long enough.                             *)

LEMMA WordsAgree ==
    ASSUME NEW b, NEW c, NEW end \in Nat, Same(b, c, end), NEW p, NEW spaced,
           NEW r, NEW k \in Nat, Reaches(r, k),
           NEW nwords \in Nat \ {0}, NEW nbits \in Nat \ {0},
           p.coding = "bytes" => p.width = nbits,
           k + 2 * (nwords * nbits) - (IF spaced THEN 0 ELSE 1) <= end
    PROVE  /\ matchWords(b, r, end, p, nwords, nbits, spaced)
                = matchWords(c, r, end, p, nwords, nbits, spaced)
           /\ Reaches(matchWords(b, r, end, p, nwords, nbits, spaced),
                      k + 2 * (nwords * nbits) - IF spaced THEN 0 ELSE 1)
<1> DEFINE far == k + 2 * (nwords * nbits) - IF spaced THEN 0 ELSE 1
<1>1. CASE ~r.ok
  <2>1. Reaches(r, far)
      BY <1>1 DEF Reaches
  <2> QED
      BY <1>1, <2>1 DEF matchWords
<1>2. CASE r.ok /\ p.coding = "bytes"
  <2>1. p.width = nbits
      BY <1>2
  <2> DEFINE w == p.width
  <2>2. /\ w \in Nat \ {0} /\ far = k + 2 * (nwords * w) - IF spaced THEN 0 ELSE 1
        /\ k + 2 * (nwords * w) - (IF spaced THEN 0 ELSE 1) <= end
      BY <2>1
  <2>3. /\ matchBytes(b, r, end, p, nwords, spaced) = matchBytes(c, r, end, p, nwords, spaced)
        /\ Reaches(matchBytes(b, r, end, p, nwords, spaced), far)
    <3>1. /\ matchBytes(b, r, end, p, nwords, spaced) = matchBytes(c, r, end, p, nwords, spaced)
          /\ Reaches(matchBytes(b, r, end, p, nwords, spaced),
                     k + 2 * (nwords * w) - IF spaced THEN 0 ELSE 1)
        BY <2>2, BytesAgree, Zenon
    <3> HIDE DEF far, w
    <3> QED
        BY <2>2, <3>1
  <2> QED
      BY <1>2, <2>3 DEF matchWords
<1>3. CASE r.ok /\ p.coding # "bytes"
  <2> DEFINE near == k + 2 * nbits - IF spaced THEN 0 ELSE 1
             m == matchData(b, r, p, nbits, spaced)
  <2>1. nbits <= nwords * nbits /\ nwords * nbits \in Nat
      OBVIOUS
  <2>2. near <= far /\ near <= end /\ near \in Int /\ far \in Int
      BY <2>1
  <2>3. m = matchData(c, r, p, nbits, spaced) /\ Reaches(m, near)
    <3>1. near <= end
        BY <2>2
    <3> QED
        BY <3>1, DataAgrees, Zenon
  <2> HIDE DEF m, near, far
  <2>4. Reaches(m, far) /\ IsMatch(r)
      BY <2>2, <2>3 DEF Reaches, IsMatch
  <2>5. Reaches(Joined(r, m), far)
      BY <2>4, DataStays, Zenon
  <2>6. /\ matchWords(b, r, end, p, nwords, nbits, spaced) = Joined(r, m)
        /\ matchWords(c, r, end, p, nwords, nbits, spaced) = Joined(r, m)
      BY <1>3, <2>3 DEF matchWords, m
  <2> QED
      BY <2>5, <2>6 DEF far
<1> QED
    BY <1>1, <1>2, <1>3

LEMMA GenericAgrees ==
    ASSUME NEW b, NEW c, NEW end \in Nat, Same(b, c, end), NEW p,
           NEW r, IsMatch(r), NEW nwords \in Nat \ {0}, NEW nbits \in Nat \ {0},
           p.coding = "bytes" => p.width = nbits,
           NEW footermark, NEW gap, NEW exact
    PROVE  /\ matchGeneric(b, r, end, p, nwords, nbits, footermark, gap, exact)
                = matchGeneric(c, r, end, p, nwords, nbits, footermark, gap, exact)
           /\ IsMatch(matchGeneric(b, r, end, p, nwords, nbits, footermark, gap, exact))
<1> DEFINE spaced == footermark # 0 \/ p.onespace # p.zerospace
           needed == nwords * nbits * 2 - (IF spaced THEN 0 ELSE 1)
                       + Entry(p.hdrmark) + Entry(p.hdrspace) + Entry(footermark)
<1>1. CASE ~Enough(r, end, needed)
  <2>1. IsMatch(Failed(r))
      BY FailedReaches, Zenon
  <2> QED
      BY <1>1, <2>1 DEF matchGeneric
<1>2. CASE Enough(r, end, needed)
  <2> DEFINE k == r.next
             k1 == k + Entry(p.hdrmark)
             k2 == k1 + Entry(p.hdrspace)
             k3 == k2 + 2 * (nwords * nbits) - IF spaced THEN 0 ELSE 1
             k4 == k3 + Entry(footermark)
             top(x) == TakeMark(x, r, p.hdrmark, p)
             header(x) == TakeSpace(x, top(x), p.hdrspace, p)
             words(x) == matchWords(x, header(x), end, p, nwords, nbits, spaced)
             foot(x) == TakeMark(x, words(x), footermark, p)
             all(x) == TakeGap(x, foot(x), end, gap, p, exact)
  <2>1. matchGeneric(b, r, end, p, nwords, nbits, footermark, gap, exact) = all(b)
      BY <1>2 DEF matchGeneric
  <2>2. matchGeneric(c, r, end, p, nwords, nbits, footermark, gap, exact) = all(c)
      BY <1>2 DEF matchGeneric
  <2>3. k \in Nat /\ Reaches(r, k)
      BY DEF IsMatch, Reaches
  <2>4. nwords * nbits \in Nat /\ nwords * nbits >= 1
      OBVIOUS
  <2>5. /\ Entry(p.hdrmark) \in 0 .. 1 /\ Entry(p.hdrspace) \in 0 .. 1
        /\ Entry(footermark) \in 0 .. 1
      BY DEF Entry
  <2>6. end - k >= needed /\ needed = 2 * (nwords * nbits) - (IF spaced THEN 0 ELSE 1)
                       + Entry(p.hdrmark) + Entry(p.hdrspace) + Entry(footermark)
      BY <1>2, <2>3, <2>4, <2>5 DEF Enough
  <2> HIDE DEF k, needed, spaced
  <2>7. k1 \in Nat /\ k2 \in Nat /\ k3 \in Nat /\ k4 \in Nat
      BY <2>3, <2>4, <2>5
  <2>8. k4 <= end
      BY <2>3, <2>4, <2>5, <2>6
  <2>9. k1 <= end /\ k2 <= end /\ k3 <= end
      BY <2>3, <2>4, <2>5, <2>8
  <2> HIDE DEF k1, k2, k3, k4
  <2>10. top(b) = top(c) /\ Reaches(top(b), k1)
    <3>1. k + Entry(p.hdrmark) <= end /\ k1 = k + Entry(p.hdrmark)
        BY <2>9 DEF k1
    <3>2. /\ TakeMark(b, r, p.hdrmark, p) = TakeMark(c, r, p.hdrmark, p)
          /\ Reaches(TakeMark(b, r, p.hdrmark, p), k + Entry(p.hdrmark))
        BY <2>3, <3>1, MarkAgrees, Zenon
    <3> QED
        BY <3>1, <3>2
  <2> HIDE DEF top
  <2>11. header(b) = header(c) /\ Reaches(header(b), k2)
    <3>1. k1 + Entry(p.hdrspace) <= end /\ k2 = k1 + Entry(p.hdrspace)
        BY <2>9 DEF k2
    <3>2. /\ TakeSpace(b, top(b), p.hdrspace, p) = TakeSpace(c, top(b), p.hdrspace, p)
          /\ Reaches(TakeSpace(b, top(b), p.hdrspace, p), k1 + Entry(p.hdrspace))
        BY <2>7, <2>10, <3>1, SpaceAgrees, Zenon
    <3> QED
        BY <2>10, <3>1, <3>2
  <2> HIDE DEF header
  <2>12. words(b) = words(c) /\ Reaches(words(b), k3)
    <3>1. /\ k2 + 2 * (nwords * nbits) - (IF spaced THEN 0 ELSE 1) <= end
          /\ k3 = k2 + 2 * (nwords * nbits) - IF spaced THEN 0 ELSE 1
        BY <2>9 DEF k3
    <3>2. /\ matchWords(b, header(b), end, p, nwords, nbits, spaced)
               = matchWords(c, header(b), end, p, nwords, nbits, spaced)
          /\ Reaches(matchWords(b, header(b), end, p, nwords, nbits, spaced),
                     k2 + 2 * (nwords * nbits) - IF spaced THEN 0 ELSE 1)
        BY <2>7, <2>11, <3>1, WordsAgree, Zenon
    <3> QED
        BY <2>11, <3>1, <3>2
  <2> HIDE DEF words
  <2>13. foot(b) = foot(c) /\ Reaches(foot(b), k4)
    <3>1. k3 + Entry(footermark) <= end /\ k4 = k3 + Entry(footermark)
        BY <2>8 DEF k4
    <3>2. /\ TakeMark(b, words(b), footermark, p) = TakeMark(c, words(b), footermark, p)
          /\ Reaches(TakeMark(b, words(b), footermark, p), k3 + Entry(footermark))
        BY <2>7, <2>12, <3>1, MarkAgrees, Zenon
    <3> QED
        BY <2>12, <3>1, <3>2
  <2> HIDE DEF foot
  <2>14. all(b) = all(c) /\ IsMatch(all(b))
    <3>1. IsMatch(foot(b))
        BY <2>13 DEF Reaches
    <3>2. /\ TakeGap(b, foot(b), end, gap, p, exact) = TakeGap(c, foot(b), end, gap, p, exact)
          /\ IsMatch(TakeGap(b, foot(b), end, gap, p, exact))
        BY <3>1, GapAgrees, Zenon
    <3> QED
        BY <2>13, <3>2
  <2> HIDE DEF all
  <2> QED
      BY <2>1, <2>2, <2>14
<1> QED
    BY <1>1, <1>2

LEMMA ConstBitTimeAgrees ==
    ASSUME NEW b, NEW c, NEW end \in Nat, Same(b, c, end), NEW p,
           [p EXCEPT !.msb = TRUE].coding # "bytes", p.width \in Nat \ {0, 1},
           NEW r, IsMatch(r), NEW gap, NEW exact
    PROVE  /\ matchGenericConstBitTime(b, r, end, p, gap, exact)
                = matchGenericConstBitTime(c, r, end, p, gap, exact)
           /\ IsMatch(matchGenericConstBitTime(b, r, end, p, gap, exact))
<1> DEFINE q == [p EXCEPT !.msb = TRUE]
           n == p.width - 1
           front(x) == matchGeneric(x, r, end, q, 1, n, 0, 0, FALSE)
<1>1. n \in Nat \ {0} /\ 1 \in Nat \ {0}
    BY DEF IsMatch
<1>2. front(b) = front(c) /\ IsMatch(front(b))
  <2>1. q.coding = "bytes" => q.width = n
      OBVIOUS
  <2> HIDE DEF q, n
  <2> QED
      BY <1>1, <2>1, GenericAgrees, Zenon
<1> DEFINE f == front(b)
           last(x) == LastBit(x, f, r.next, end, p)
<1>3. /\ matchGenericConstBitTime(b, r, end, p, gap, exact)
           = Joined(r, Ordered(LastGap(b, last(b), end, p, gap, exact), p))
      /\ matchGenericConstBitTime(c, r, end, p, gap, exact)
           = Joined(r, Ordered(LastGap(c, last(c), end, p, gap, exact), p))
    BY <1>2 DEF matchGenericConstBitTime
<1>4. IsMatch(f)
    BY <1>2
<1> HIDE DEF f
<1>5. last(b) = last(c) /\ IsMatch(last(b))
  <2>1. CASE ~f.ok \/ f.next = r.next \/ end <= f.next
    <3>1. IsMatch(Failed(f))
        BY <1>4, FailedReaches, Zenon
    <3> QED
        BY <2>1, <3>1 DEF LastBit
  <2>2. CASE ~(~f.ok \/ f.next = r.next \/ end <= f.next)
    <3> DEFINE g == [f EXCEPT !.data = Last(@)]
               m(x) == matchBit(x, g, p, FALSE)
               k == f.next
    <3>1. last(b) = m(b) /\ last(c) = m(c)
        BY <2>2 DEF LastBit
    <3>2. Reaches(g, k) /\ k \in Nat /\ k + 1 <= end
        BY <1>4, <2>2 DEF Reaches, IsMatch
    <3>3. k + (IF FALSE THEN 2 ELSE 1) <= end
        BY <3>2
    <3> HIDE DEF g, k
    <3>4. m(b) = m(c) /\ Reaches(m(b), k + IF FALSE THEN 2 ELSE 1)
        BY <3>2, <3>3, BitAgrees, Zenon
    <3> HIDE DEF m
    <3> QED
        BY <3>1, <3>4 DEF Reaches
  <2> QED
      BY <2>1, <2>2
<1> DEFINE l == last(b)
           behind(x) == LastGap(x, l, end, p, gap, exact)
<1>6. last(b) = l /\ last(c) = l /\ IsMatch(l)
    BY <1>5
<1> HIDE DEF l, last
<1>7. behind(b) = behind(c) /\ IsMatch(behind(b))
  <2>1. CASE ~l.ok
      BY <1>6, <2>1 DEF LastGap
  <2>2. CASE l.ok
    <3> DEFINE usec == gap + IF Last(l.data) = 1 THEN p.onespace ELSE p.zerospace
    <3>1. /\ behind(b) = TakeGap(b, l, end, usec, p, exact)
          /\ behind(c) = TakeGap(c, l, end, usec, p, exact)
        BY <2>2 DEF LastGap
    <3> HIDE DEF usec, behind
    <3>2. /\ TakeGap(b, l, end, usec, p, exact) = TakeGap(c, l, end, usec, p, exact)
          /\ IsMatch(TakeGap(b, l, end, usec, p, exact))
        BY <1>6, GapAgrees, Zenon
    <3> QED
        BY <3>1, <3>2
  <2> QED
      BY <2>1, <2>2
<1> DEFINE m == behind(b)
<1>8. Reaches(m, m.next)
    BY <1>7 DEF Reaches, IsMatch
<1> HIDE DEF behind
<1>9. IsMatch(Joined(r, Ordered(m, p)))
  <2>1. Reaches(Ordered(m, p), m.next)
      BY <1>7, <1>8, DataStays, Zenon
  <2>2. Reaches(Joined(r, Ordered(m, p)), m.next)
      BY <2>1, DataStays, Zenon
  <2> QED
      BY <2>2 DEF Reaches
<1> QED
    BY <1>3, <1>6, <1>7, <1>9 DEF behind

-----------------------------------------------------------------------------
(* Manchester: the same, but for the footer, which is looked for behind    *)
(* the data even where the capture ends there.                             *)

LEMMA HalvesAgree ==
    ASSUME NEW b, NEW c, NEW end \in Nat \ {0}, Same(b, c, end), NEW p, NEW nbits,
           NEW r, Reaches(r, end)
    PROVE  /\ matchManchesterBit(b, r, end, p, nbits) = matchManchesterBit(c, r, end, p, nbits)
           /\ Reaches(matchManchesterBit(b, r, end, p, nbits), end)
<1>1. CASE ~r.ok \/ (r.next >= end /\ r.bank = 0)
    BY <1>1 DEF matchManchesterBit
<1>2. CASE ~(~r.ok \/ (r.next >= end /\ r.bank = 0))
  <2>1. r.next \in Nat /\ r.next <= end /\ IsMatch(r) /\ r.next + 1 \in Nat
      BY <1>2 DEF Reaches, IsMatch
  <2> DEFINE f(x) == FirstHalf(x, r, p)
             h == f(b)
  <2>2. f(b) = f(c) /\ IsMatch(h) /\ h.next <= end
    <3>1. CASE r.bank # 0
      <4>1. f(b) = [r EXCEPT !.ok = Half(r.bank, p)] /\ f(c) = f(b)
          BY <3>1 DEF FirstHalf
      <4>2. Half(r.bank, p) \in BOOLEAN
          BY DEF Half, match
      <4> QED
          BY <2>1, <4>1, <4>2 DEF IsMatch
    <3>2. CASE r.bank = 0
      <4>1. r.next < end
          BY <1>2, <2>1, <3>2
      <4>2. b[r.next] = c[r.next] /\ r.next + 1 <= end
          BY <2>1, <4>1 DEF Same
      <4> DEFINE g == [r EXCEPT !.bank = b[r.next], !.next = @ + 1, !.ok = Half(b[r.next], p)]
      <4>3. f(b) = g /\ f(c) = g
          BY <3>2, <4>2 DEF FirstHalf
      <4>4. Half(b[r.next], p) \in BOOLEAN
          BY DEF Half, match
      <4>5. IsMatch(g) /\ g.next = r.next + 1
          BY <2>1, <4>4 DEF IsMatch
      <4> QED
          BY <4>2, <4>3, <4>5
    <3> QED
        BY <3>1, <3>2
  <2> DEFINE g(x) == Refilled(x, h, end, p)
             k == g(b)
  <2>3. matchManchesterBit(b, r, end, p, nbits) = SecondHalf(g(b), p, nbits)
      BY <1>2 DEF matchManchesterBit
  <2>4. matchManchesterBit(c, r, end, p, nbits) = SecondHalf(g(c), p, nbits)
      BY <1>2, <2>2 DEF matchManchesterBit
  <2>5. IsMatch(h) /\ h.next <= end
      BY <2>2
  <2> HIDE DEF h
  <2>6. g(b) = g(c) /\ IsMatch(k) /\ k.next <= end /\ k.next >= 1
    <3>1. h.next \in Nat /\ h.next + 1 \in Nat /\ h.ok \in BOOLEAN
        BY <2>5 DEF IsMatch
    <3>2. CASE h.next < end
      <4>1. b[h.next] = c[h.next]
          BY <3>1, <3>2 DEF Same
      <4> DEFINE l == [h EXCEPT !.bank = b[h.next], !.next = @ + 1]
      <4>2. g(b) = l /\ g(c) = l
          BY <3>2, <4>1 DEF Refilled
      <4>3. IsMatch(l) /\ l.next = h.next + 1
          BY <2>5, <3>1 DEF IsMatch
      <4> QED
          BY <3>1, <3>2, <4>2, <4>3
    <3>3. CASE ~(h.next < end)
      <4>1. h.next = end
          BY <2>5, <3>1, <3>3
      <4> DEFINE l == [h EXCEPT !.bank = p.half \div kRawTick, !.ok = @ /\ h.next = end]
      <4>2. g(b) = l /\ g(c) = l
          BY <3>3 DEF Refilled
      <4>3. (h.ok /\ h.next = end) \in BOOLEAN
          BY <3>1
      <4>4. IsMatch(l) /\ l.next = h.next
          BY <2>5, <4>3 DEF IsMatch
      <4> QED
          BY <4>1, <4>2, <4>4
    <3> QED
        BY <3>2, <3>3
  <2>7. IsMatch(k) /\ k.next <= end /\ k.next >= 1
      BY <2>6
  <2> HIDE DEF k
  <2>8. Reaches(SecondHalf(k, p, nbits), end)
    <3>1. k.next \in Nat /\ k.next - 1 \in Nat /\ k.next - 1 <= end
        BY <2>7 DEF IsMatch
    <3> DEFINE found == [k EXCEPT !.bank = 0, !.nr = @ + 2, !.data = Append(@, k.bit)]
    <3>2. Reaches(found, end) /\ found.next = k.next
        BY <2>7 DEF Reaches, IsMatch
    <3>3. Reaches([found EXCEPT !.bank = k.bank - p.half \div kRawTick, !.bit = 1 - @], end)
        BY <2>7 DEF Reaches, IsMatch
    <3>4. Reaches([found EXCEPT !.next = @ - 1], end)
        BY <2>7, <3>1 DEF Reaches, IsMatch
    <3>5. Reaches(k, end) /\ Reaches(Failed(k), end)
        BY <2>7, FailedReaches DEF Reaches
    <3> QED
        BY <3>2, <3>3, <3>4, <3>5 DEF SecondHalf
  <2> QED
      BY <2>3, <2>4, <2>6, <2>8 DEF k
<1> QED
    BY <1>1, <1>2

(* upto[i] is the match behind the first i bits of a Manchester word.      *)
HalfByHalf(upto, b, r, end, p, nbits) ==
    /\ matchManchesterData(b, r, end, p, nbits)
         = Ordered([upto[nbits] EXCEPT !.data = Widened(@, nbits)], p)
    /\ upto[0] = ManchesterStart(r, p)
    /\ \A i \in 1 .. nbits :
         upto[i] = matchManchesterBit(b, upto[i - 1], end, p, nbits)

LEMMA ManchesterSteps ==
    ASSUME NEW b, NEW r, NEW end, NEW p, NEW nbits \in Nat, r.ok, Enough(r, end, nbits)
    PROVE  \E upto : HalfByHalf(upto, b, r, end, p, nbits)
<1> DEFINE Value(f, i) == IF i = 0 THEN ManchesterStart(r, p)
                          ELSE matchManchesterBit(b, f[i - 1], end, p, nbits)
           Upto(f, k) == f = [i \in 0 .. k |-> Value(f, i)]
           T == {k \in 0 .. nbits : \E f : Upto(f, k)}
<1>1. 0 \in T
  <2> DEFINE f == [i \in 0 .. 0 |-> ManchesterStart(r, p)]
  <2>1. Upto(f, 0)
      OBVIOUS
  <2> HIDE DEF Upto, f
  <2> QED
      BY <2>1
<1>2. ASSUME NEW k \in 0 .. nbits - 1, k \in T PROVE k + 1 \in T
  <2>1. PICK f : Upto(f, k)
      BY <1>2
  <2> DEFINE g == [i \in 0 .. k + 1 |-> IF i = k + 1 THEN Value(f, i) ELSE f[i]]
  <2>2. \A i \in 0 .. k + 1 : i # 0 => g[i - 1] = f[i - 1]
      OBVIOUS
  <2>3. \A i \in 0 .. k + 1 : Value(g, i) = Value(f, i)
      BY <2>2
  <2> HIDE DEF Value
  <2>4. \A i \in 0 .. k + 1 : g[i] = Value(g, i)
      BY <2>1, <2>3
  <2>5. Upto(g, k + 1)
      BY <2>4
  <2> HIDE DEF Upto, g
  <2> QED
      BY <2>5
<1>3. nbits \in T
  <2> HIDE DEF T
  <2>1. 0 .. nbits \subseteq T
      BY <1>1, <1>2, UpTo
  <2> QED
      BY <2>1
<1> DEFINE upto == CHOOSE f : Upto(f, nbits)
<1>4. Upto(upto, nbits)
  <2> HIDE DEF Upto
  <2> QED
      BY <1>3
<1>5. matchManchesterData(b, r, end, p, nbits)
         = Ordered([upto[nbits] EXCEPT !.data = Widened(@, nbits)], p)
    BY DEF matchManchesterData
<1> HIDE DEF upto
<1>6. \A i \in 0 .. nbits : upto[i] = Value(upto, i)
  <2> HIDE DEF Value
  <2> QED
      BY <1>4
<1>7. upto[0] = ManchesterStart(r, p)
    BY <1>6
<1>8. ASSUME NEW i \in 1 .. nbits
      PROVE  upto[i] = matchManchesterBit(b, upto[i - 1], end, p, nbits)
  <2>1. i \in 0 .. nbits /\ i # 0
      OBVIOUS
  <2> QED
      BY <1>6, <2>1
<1> QED
    BY <1>5, <1>7, <1>8 DEF HalfByHalf

LEMMA ManchesterDataAgrees ==
    ASSUME NEW b, NEW c, NEW end \in Nat, Same(b, c, end), NEW p,
           NEW nbits \in Nat \ {0}, NEW r, IsMatch(r)
    PROVE  /\ matchManchesterData(b, r, end, p, nbits) = matchManchesterData(c, r, end, p, nbits)
           /\ Reaches(matchManchesterData(b, r, end, p, nbits), end)
<1>1. CASE ~r.ok \/ ~Enough(r, end, nbits)
  <2>1. Reaches(Failed(r), end)
      BY FailedReaches, Zenon
  <2> QED
      BY <1>1, <2>1 DEF matchManchesterData
<1>2. CASE r.ok /\ Enough(r, end, nbits)
  <2>1. PICK u : HalfByHalf(u, b, r, end, p, nbits)
      BY <1>2, ManchesterSteps, Zenon
  <2>2. PICK v : HalfByHalf(v, c, r, end, p, nbits)
      BY <1>2, ManchesterSteps, Zenon
  <2>3. end \in Nat \ {0} /\ r.next <= end
      BY <1>2 DEF Enough, IsMatch
  <2> DEFINE T == {i \in 0 .. nbits : u[i] = v[i] /\ Reaches(u[i], end)}
  <2>4. 0 \in T
    <3>1. u[0] = ManchesterStart(r, p) /\ v[0] = ManchesterStart(r, p) /\ 0 \in 0 .. nbits
        BY <2>1, <2>2 DEF HalfByHalf
    <3>2. Reaches(ManchesterStart(r, p), end)
        BY <2>3 DEF ManchesterStart, Reaches, IsMatch
    <3> QED
        BY <3>1, <3>2
  <2>5. ASSUME NEW i \in 0 .. nbits - 1, i \in T PROVE i + 1 \in T
    <3>1. i + 1 \in 1 .. nbits /\ i + 1 \in 0 .. nbits /\ (i + 1) - 1 = i
        OBVIOUS
    <3> DEFINE s == u[i]
    <3>2. /\ u[i + 1] = matchManchesterBit(b, s, end, p, nbits)
          /\ v[i + 1] = matchManchesterBit(c, s, end, p, nbits)
        BY <2>1, <2>2, <2>5, <3>1 DEF HalfByHalf
    <3>3. Reaches(s, end)
        BY <2>5
    <3> HIDE DEF s
    <3>4. /\ matchManchesterBit(b, s, end, p, nbits) = matchManchesterBit(c, s, end, p, nbits)
          /\ Reaches(matchManchesterBit(b, s, end, p, nbits), end)
        BY <2>3, <3>3, HalvesAgree, Zenon
    <3> QED
        BY <3>1, <3>2, <3>4
  <2>6. nbits \in T
    <3> HIDE DEF T
    <3>1. 0 .. nbits \subseteq T
        BY <2>4, <2>5, UpTo
    <3> QED
        BY <3>1
  <2> DEFINE s == u[nbits]
             wide == [s EXCEPT !.data = Widened(@, nbits)]
  <2>7. /\ matchManchesterData(b, r, end, p, nbits) = Ordered(wide, p)
        /\ matchManchesterData(c, r, end, p, nbits) = Ordered(wide, p)
      BY <2>1, <2>2, <2>6 DEF HalfByHalf
  <2>8. Reaches(s, end)
      BY <2>6
  <2> HIDE DEF s
  <2>9. Reaches(wide, end) /\ IsMatch(wide)
      BY <2>8 DEF Reaches, IsMatch
  <2> HIDE DEF wide
  <2>10. Reaches(Ordered(wide, p), end)
      BY <2>9, DataStays, Zenon
  <2> QED
      BY <2>7, <2>10
<1> QED
    BY <1>1, <1>2

LEMMA Banked ==
    ASSUME NEW r, IsMatch(r), NEW rest
    PROVE  LET m == [r EXCEPT !.next = @ + 1, !.bank = rest]
           IN  IsMatch(m) /\ m.next = r.next + 1
<1> DEFINE m == [r EXCEPT !.next = @ + 1, !.bank = rest]
<1>1. r.next + 1 \in Nat
    BY DEF IsMatch
<1>2. /\ m \in [ok : BOOLEAN, next : Nat, data : {r.data}, bank : {rest},
                nr : {r.nr}, bit : {r.bit}]
    BY <1>1 DEF IsMatch
<1>3. m.next = r.next + 1
    BY DEF IsMatch
<1> HIDE DEF m
<1>4. IsMatch(m)
    BY <1>2 DEF IsMatch
<1> QED
    BY <1>3, <1>4 DEF m

LEMMA ManchesterAgrees ==
    ASSUME NEW b, NEW c, NEW end \in Nat, Same(b, c, end + 1), NEW p,
           NEW nbits \in Nat \ {0}, NEW r, IsMatch(r),
           NEW footermark, NEW gap, NEW exact
    PROVE  /\ matchManchester(b, r, end, p, nbits, footermark, gap, exact)
                = matchManchester(c, r, end, p, nbits, footermark, gap, exact)
           /\ IsMatch(matchManchester(b, r, end, p, nbits, footermark, gap, exact))
<1> DEFINE needed == nbits + Entry(p.hdrmark) + Entry(p.hdrspace) + Entry(footermark)
<1>1. CASE ~Enough(r, end, needed)
  <2>1. IsMatch(Failed(r))
      BY FailedReaches, Zenon
  <2> QED
      BY <1>1, <2>1 DEF matchManchester
<1>2. CASE Enough(r, end, needed)
  <2> DEFINE start == [r EXCEPT !.data = <<>>, !.bank = 0, !.nr = 0, !.bit = 0]
             top(x) == HeaderMark(x, start, p)
             header(x) == HeaderSpace(x, top(x), p)
             even(x) == Balanced(header(x), p)
             word(x) == matchManchesterData(x, even(x), end, p, nbits)
             foot(x) == ManchesterFooter(x, word(x), p, footermark)
             all(x) == ManchesterGap(x, foot(x), end, p, gap, exact)
             k == r.next
             k1 == k + Entry(p.hdrmark)
             k2 == k1 + Entry(p.hdrspace)
  <2>1. matchManchester(b, r, end, p, nbits, footermark, gap, exact) = Joined(r, all(b))
      BY <1>2 DEF matchManchester
  <2>2. matchManchester(c, r, end, p, nbits, footermark, gap, exact) = Joined(r, all(c))
      BY <1>2 DEF matchManchester
  <2>3. k \in Nat /\ Reaches(start, k)
    <3>1. k \in Nat /\ start.next = k /\ start.ok = r.ok
        BY DEF IsMatch
    <3>2. IsMatch(start)
        BY DEF IsMatch
    <3> QED
        BY <3>1, <3>2 DEF Reaches
  <2>4. /\ Entry(p.hdrmark) \in 0 .. 1 /\ Entry(p.hdrspace) \in 0 .. 1
        /\ Entry(footermark) \in 0 .. 1
      BY DEF Entry
  <2>5. k1 \in Nat /\ k2 \in Nat /\ k1 <= end /\ k2 <= end
      BY <1>2, <2>3, <2>4 DEF Enough
  <2>6. Same(b, c, end)
      BY DEF Same
  <2> HIDE DEF start, k, k1, k2
  <2>7. top(b) = top(c) /\ Reaches(top(b), k1)
    <3>1. /\ TakeMark(b, start, p.hdrmark, p) = TakeMark(c, start, p.hdrmark, p)
          /\ Reaches(TakeMark(b, start, p.hdrmark, p), k1)
      <4>1. k + Entry(p.hdrmark) <= end /\ k1 = k + Entry(p.hdrmark)
          BY <2>5 DEF k1
      <4>2. /\ TakeMark(b, start, p.hdrmark, p) = TakeMark(c, start, p.hdrmark, p)
            /\ Reaches(TakeMark(b, start, p.hdrmark, p), k + Entry(p.hdrmark))
          BY <2>3, <2>6, <4>1, MarkAgrees, Zenon
      <4> QED
          BY <4>1, <4>2
    <3>2. CASE p.hdrmark = 0
      <4>1. TakeMark(b, start, p.hdrmark, p) = start
          BY <3>2 DEF TakeMark
      <4> QED
          BY <3>1, <3>2, <4>1 DEF HeaderMark
    <3>3. CASE p.hdrmark # 0
      <4>1. start.ok = r.ok /\ start.next = k /\ IsMatch(start)
          BY <2>3 DEF start, k, IsMatch, Reaches
      <4>2. k1 = k + 1
          BY <3>3 DEF k1, Entry
      <4>3. b[start.next] = c[start.next]
          BY <2>3, <2>5, <2>6, <4>1, <4>2 DEF Same
      <4> DEFINE over == [start EXCEPT !.next = @ + 1, !.bank = Over(b[start.next], p.hdrmark)]
      <4>4. Reaches(over, k1)
        <5> DEFINE rest == Over(b[start.next], p.hdrmark)
        <5> HIDE DEF rest
        <5>1. IsMatch(start)
            BY <2>3, <4>1
        <5>2. /\ IsMatch([start EXCEPT !.next = @ + 1, !.bank = rest])
              /\ [start EXCEPT !.next = @ + 1, !.bank = rest].next = start.next + 1
            BY <5>1, Banked, Zenon
        <5>3. Reaches([start EXCEPT !.next = @ + 1, !.bank = rest], k1)
            BY <2>3, <4>1, <4>2, <5>2 DEF Reaches
        <5> QED
            BY <5>3 DEF rest
      <4>5. CASE p.hdrspace = 0 /\ matchMark(b[start.next], p.hdrmark + p.half, p)
        <5>1. top(b) = over /\ top(c) = over
            BY <3>3, <4>3, <4>5 DEF HeaderMark
        <5> QED
            BY <4>4, <5>1
      <4>6. CASE ~(p.hdrspace = 0 /\ matchMark(b[start.next], p.hdrmark + p.half, p))
        <5>1. /\ top(b) = TakeMark(b, start, p.hdrmark, p)
              /\ top(c) = TakeMark(c, start, p.hdrmark, p)
            BY <3>3, <4>3, <4>6 DEF HeaderMark
        <5> QED
            BY <3>1, <5>1
      <4> QED
          BY <4>5, <4>6
    <3> QED
        BY <3>2, <3>3
  <2> DEFINE t == top(b)
  <2>8. top(b) = t /\ top(c) = t /\ Reaches(t, k1)
      BY <2>7
  <2> HIDE DEF t, top
  <2>9. header(b) = header(c) /\ Reaches(header(b), k2)
    <3>1. /\ TakeSpace(b, t, p.hdrspace, p) = TakeSpace(c, t, p.hdrspace, p)
          /\ Reaches(TakeSpace(b, t, p.hdrspace, p), k2)
      <4>1. k1 + Entry(p.hdrspace) <= end /\ k2 = k1 + Entry(p.hdrspace)
          BY <2>5 DEF k2
      <4>2. /\ TakeSpace(b, t, p.hdrspace, p) = TakeSpace(c, t, p.hdrspace, p)
            /\ Reaches(TakeSpace(b, t, p.hdrspace, p), k1 + Entry(p.hdrspace))
          BY <2>5, <2>6, <2>8, <4>1, SpaceAgrees, Zenon
      <4> QED
          BY <4>1, <4>2
    <3>2. CASE p.hdrspace = 0 \/ ~t.ok
      <4>1. header(b) = t /\ header(c) = t
          BY <2>8, <3>2 DEF HeaderSpace
      <4>2. TakeSpace(b, t, p.hdrspace, p) = t
          BY <3>2 DEF TakeSpace
      <4> QED
          BY <3>1, <4>1, <4>2
    <3>3. CASE ~(p.hdrspace = 0 \/ ~t.ok)
      <4>1. t.next \in Nat /\ t.next <= k1 /\ IsMatch(t)
          BY <2>8, <3>3 DEF IsMatch, Reaches
      <4>2. k2 = k1 + 1
          BY <3>3 DEF k2, Entry
      <4>3. b[t.next] = c[t.next]
          BY <2>5, <2>6, <4>1, <4>2 DEF Same
      <4> DEFINE over == [t EXCEPT !.next = @ + 1, !.bank = Over(b[t.next], p.hdrspace)]
      <4>4. Reaches(over, k2)
        <5> DEFINE rest == Over(b[t.next], p.hdrspace)
        <5> HIDE DEF rest
        <5>1. IsMatch(t)
            BY <4>1
        <5>2. /\ IsMatch([t EXCEPT !.next = @ + 1, !.bank = rest])
              /\ [t EXCEPT !.next = @ + 1, !.bank = rest].next = t.next + 1
            BY <5>1, Banked, Zenon
        <5>3. Reaches([t EXCEPT !.next = @ + 1, !.bank = rest], k2)
            BY <2>5, <4>1, <4>2, <5>2 DEF Reaches
        <5> QED
            BY <5>3 DEF rest
      <4>5. CASE matchSpace(b[t.next], p.hdrspace + p.half, p)
        <5>1. header(b) = over /\ header(c) = over
            BY <2>8, <3>3, <4>3, <4>5 DEF HeaderSpace
        <5> QED
            BY <4>4, <5>1
      <4>6. CASE ~matchSpace(b[t.next], p.hdrspace + p.half, p)
        <5>1. /\ header(b) = TakeSpace(b, t, p.hdrspace, p)
              /\ header(c) = TakeSpace(c, t, p.hdrspace, p)
            BY <2>8, <3>3, <4>3, <4>6 DEF HeaderSpace
        <5> QED
            BY <3>1, <5>1
      <4> QED
          BY <4>5, <4>6
    <3> QED
        BY <3>2, <3>3
  <2> DEFINE e == even(b)
  <2>10. even(b) = e /\ even(c) = e /\ IsMatch(e)
    <3>1. IsMatch(header(b))
        BY <2>9 DEF Reaches
    <3> HIDE DEF header
    <3>2. IsMatch(Balanced(header(b), p))
        BY <3>1 DEF Balanced, IsMatch
    <3> QED
        BY <2>9, <3>2
  <2> HIDE DEF e, even
  <2>11. word(b) = word(c) /\ Reaches(word(b), end)
    <3>1. /\ matchManchesterData(b, e, end, p, nbits) = matchManchesterData(c, e, end, p, nbits)
          /\ Reaches(matchManchesterData(b, e, end, p, nbits), end)
        BY <2>6, <2>10, ManchesterDataAgrees, Zenon
    <3> QED
        BY <2>10, <3>1
  <2> DEFINE w == word(b)
  <2>12. word(b) = w /\ word(c) = w /\ Reaches(w, end)
      BY <2>11
  <2> HIDE DEF w, word
  <2>13. foot(b) = foot(c) /\ IsMatch(foot(b))
    <3>1. CASE ~w.ok
        BY <2>12, <3>1 DEF ManchesterFooter, Reaches
    <3>2. CASE w.ok
      <4>1. IsMatch(w) /\ w.next \in Nat /\ w.next <= end /\ w.next + 1 \in Nat
          BY <2>12, <3>2 DEF Reaches, IsMatch
      <4>2. b[w.next] = c[w.next]
          BY <4>1 DEF Same
      <4> DEFINE ok == \/ footermark = 0
                       \/ matchMark(b[w.next], footermark + p.half, p)
                       \/ matchMark(b[w.next], footermark, p)
                 m == [w EXCEPT !.next = @ + 1, !.ok = ok]
      <4>3. foot(b) = m /\ foot(c) = m
          BY <2>12, <3>2, <4>2 DEF ManchesterFooter
      <4>4. IsMatch(m)
        <5>1. ok \in BOOLEAN
            OBVIOUS
        <5> HIDE DEF ok
        <5> QED
            BY <4>1, <5>1 DEF IsMatch
      <4> QED
          BY <4>3, <4>4
    <3> QED
        BY <3>1, <3>2
  <2> DEFINE f == foot(b)
  <2>14. foot(b) = f /\ foot(c) = f /\ IsMatch(f)
      BY <2>13
  <2> HIDE DEF f, foot
  <2>15. all(b) = all(c) /\ IsMatch(all(b))
    <3>1. f.next \in Nat /\ f.next + 1 \in Nat /\ (f.next < end => b[f.next] = c[f.next])
        BY <2>6, <2>14 DEF IsMatch, Same
    <3> DEFINE merged(x) == exact /\ gap # 0 /\ f.ok /\ f.next < end
                              /\ matchSpace(x[f.next], gap + p.half, p)
               m == [f EXCEPT !.next = @ + 1]
    <3>2. merged(b) <=> merged(c)
      <4>1. CASE f.next < end
        <5>1. b[f.next] = c[f.next]
            BY <3>1, <4>1
        <5> QED
            BY <5>1
      <4>2. CASE ~(f.next < end)
          BY <4>2
      <4> QED
          BY <4>1, <4>2
    <3>3. CASE merged(b)
      <4>1. all(b) = m /\ all(c) = m
          BY <2>14, <3>2, <3>3 DEF ManchesterGap
      <4>2. IsMatch(m)
          BY <2>14, <3>1 DEF IsMatch
      <4> QED
          BY <4>1, <4>2
    <3>4. CASE ~merged(b)
      <4>1. /\ all(b) = TakeGap(b, f, end, gap, p, exact)
            /\ all(c) = TakeGap(c, f, end, gap, p, exact)
          BY <2>14, <3>2, <3>4 DEF ManchesterGap
      <4>2. /\ TakeGap(b, f, end, gap, p, exact) = TakeGap(c, f, end, gap, p, exact)
            /\ IsMatch(TakeGap(b, f, end, gap, p, exact))
          BY <2>6, <2>14, GapAgrees, Zenon
      <4> QED
          BY <4>1, <4>2
    <3> QED
        BY <3>3, <3>4
  <2> DEFINE a == all(b)
  <2>16. IsMatch(a) /\ Reaches(a, a.next)
      BY <2>15 DEF Reaches, IsMatch
  <2> HIDE DEF all
  <2>17. IsMatch(Joined(r, a))
    <3>1. Reaches(Joined(r, a), a.next)
        BY <2>16, DataStays, Zenon
    <3> QED
        BY <3>1 DEF Reaches
  <2> QED
      BY <2>1, <2>2, <2>15, <2>17
<1> QED
    BY <1>1, <1>2

-----------------------------------------------------------------------------
(* What of a protocol these proofs need: every section has a word, and     *)
(* what is read before the length is asked for is there.                   *)
Fits(p) ==
    /\ p.coding \in {"bits", "bytes", "constbit", "manchester"}
    /\ p.coding = "constbit" => [p EXCEPT !.msb = TRUE].coding = p.coding
    /\ Len(p.words) \in Nat
    /\ \A s \in 1 .. Len(p.words) : p.words[s] \in Nat \ {0}
    /\ p.width \in Nat \ {0} /\ (p.coding = "constbit" => p.width # 1)
    /\ p.lead # <<>> => p.shortest \in Nat \ {0, 1}

LEMMA SectionAgrees ==
    ASSUME NEW b, NEW c, NEW end \in Nat, Same(b, c, end), NEW p, Fits(p),
           p.coding = "manchester" => b[end] = c[end],
           NEW r, IsMatch(r), NEW s \in 1 .. Len(p.words)
    PROVE  /\ matchSection(b, r, end, p, s) = matchSection(c, r, end, p, s)
           /\ IsMatch(matchSection(b, r, end, p, s))
<1> DEFINE n == p.words[s]
           w == p.width
           gap == p.gaps[s]
           exact == p.exactgap[s]
<1>1. n \in Nat \ {0} /\ w \in Nat \ {0}
    BY DEF Fits
<1>2. CASE ~r.ok
    BY <1>2 DEF matchSection
<1>3. CASE r.ok /\ p.coding = "manchester"
  <2>1. Same(b, c, end + 1)
      BY <1>3 DEF Same
  <2> DEFINE mark1 == p.rfootermark
             gap1 == p.rgap
  <2>2. /\ matchManchester(b, r, end, p, w, mark1, gap1, exact)
             = matchManchester(c, r, end, p, w, mark1, gap1, exact)
        /\ IsMatch(matchManchester(b, r, end, p, w, mark1, gap1, exact))
      BY <1>1, <2>1, ManchesterAgrees, Zenon
  <2> QED
      BY <1>3, <2>2 DEF matchSection
<1>4. CASE r.ok /\ p.coding = "constbit"
  <2>1. [p EXCEPT !.msb = TRUE].coding # "bytes" /\ p.width \in Nat \ {0, 1}
      BY <1>1, <1>4 DEF Fits
  <2>2. /\ matchGenericConstBitTime(b, r, end, p, gap, exact)
             = matchGenericConstBitTime(c, r, end, p, gap, exact)
        /\ IsMatch(matchGenericConstBitTime(b, r, end, p, gap, exact))
      BY <2>1, ConstBitTimeAgrees, Zenon
  <2> QED
      BY <1>4, <2>2 DEF matchSection
<1>5. CASE r.ok /\ p.coding \in {"bits", "bytes"}
  <2> DEFINE foot == p.footermark
  <2>1. p.coding = "bytes" => p.width = w
      OBVIOUS
  <2>2. /\ matchGeneric(b, r, end, p, n, w, foot, gap, exact)
             = matchGeneric(c, r, end, p, n, w, foot, gap, exact)
        /\ IsMatch(matchGeneric(b, r, end, p, n, w, foot, gap, exact))
    <3> HIDE DEF n, w, foot, gap, exact
    <3> QED
        BY <1>1, <2>1, GenericAgrees, Zenon
  <2> QED
      BY <1>5, <2>2 DEF matchSection
<1> QED
    BY <1>2, <1>3, <1>4, <1>5 DEF Fits, IsMatch

LEMMA LeadAgrees ==
    ASSUME NEW b, NEW c, NEW end \in Nat, Same(b, c, end), NEW p, Fits(p),
           ~(end < p.shortest)
    PROVE  matchLead(b, p) = matchLead(c, p) /\ IsMatch(matchLead(b, p))
<1> DEFINE r == From(0)
<1>1. IsMatch(r) /\ Reaches(r, 0)
    BY DEF From, IsMatch, Reaches
<1>2. CASE p.lead = <<>>
    BY <1>1, <1>2 DEF matchLead
<1>3. CASE p.lead # <<>>
  <2>1. end >= 2
      BY <1>3 DEF Fits
  <2> DEFINE one == p.lead[1]
             two == p.lead[2]
             k1 == 0 + Entry(one)
             k2 == k1 + Entry(two)
             top(x) == TakeMark(x, r, one, p)
  <2>2. k1 \in Nat /\ k1 <= end /\ k2 <= end
      BY <2>1 DEF Entry
  <2>3. matchLead(b, p) = TakeSpace(b, top(b), two, p)
      BY <1>3 DEF matchLead
  <2>4. matchLead(c, p) = TakeSpace(c, top(c), two, p)
      BY <1>3 DEF matchLead
  <2> HIDE DEF one, two, r
  <2>5. top(b) = top(c) /\ Reaches(top(b), k1)
    <3>1. 0 \in Nat /\ 0 + Entry(one) <= end
        BY <2>2
    <3>2. /\ TakeMark(b, r, one, p) = TakeMark(c, r, one, p)
          /\ Reaches(TakeMark(b, r, one, p), 0 + Entry(one))
        BY <1>1, <3>1, MarkAgrees, Zenon
    <3> QED
        BY <3>2
  <2> DEFINE t == top(b)
  <2>6. top(b) = t /\ top(c) = t /\ Reaches(t, k1)
      BY <2>5
  <2> HIDE DEF t, top
  <2>7. /\ TakeSpace(b, t, two, p) = TakeSpace(c, t, two, p)
        /\ Reaches(TakeSpace(b, t, two, p), k1 + Entry(two))
    <3>1. k1 + Entry(two) <= end
        BY <2>2
    <3> HIDE DEF k1
    <3> QED
        BY <2>2, <2>6, <3>1, SpaceAgrees, Zenon
  <2> QED
      BY <2>3, <2>4, <2>6, <2>7 DEF Reaches
<1> QED
    BY <1>2, <1>3

(* upto[s] is the match behind the first s sections.                       *)
SectionBySection(upto, b, end, p) ==
    /\ matchMessage(b, end, p) = upto[Len(p.words)]
    /\ upto[0] = matchLead(b, p)
    /\ \A s \in 1 .. Len(p.words) :
         upto[s] = SectionAfter(b, upto[s - 1], end, p, s)

LEMMA MessageSteps ==
    ASSUME NEW b, NEW end, NEW p, Len(p.words) \in Nat, ~(end < p.shortest)
    PROVE  \E upto : SectionBySection(upto, b, end, p)
<1> DEFINE Value(f, s) == IF s = 0 THEN matchLead(b, p)
                          ELSE SectionAfter(b, f[s - 1], end, p, s)
           Upto(f, k) == f = [s \in 0 .. k |-> Value(f, s)]
           T == {k \in 0 .. Len(p.words) : \E f : Upto(f, k)}
<1>1. 0 \in T
  <2> DEFINE f == [s \in 0 .. 0 |-> matchLead(b, p)]
  <2>1. Upto(f, 0)
      OBVIOUS
  <2> HIDE DEF Upto, f
  <2> QED
      BY <2>1
<1>2. ASSUME NEW k \in 0 .. Len(p.words) - 1, k \in T PROVE k + 1 \in T
  <2>1. PICK f : Upto(f, k)
      BY <1>2
  <2> DEFINE g == [s \in 0 .. k + 1 |-> IF s = k + 1 THEN Value(f, s) ELSE f[s]]
  <2>2. \A s \in 0 .. k + 1 : s # 0 => g[s - 1] = f[s - 1]
      OBVIOUS
  <2>3. \A s \in 0 .. k + 1 : Value(g, s) = Value(f, s)
      BY <2>2
  <2> HIDE DEF Value
  <2>4. \A s \in 0 .. k + 1 : g[s] = Value(g, s)
      BY <2>1, <2>3
  <2>5. Upto(g, k + 1)
      BY <2>4
  <2> HIDE DEF Upto, g
  <2> QED
      BY <2>5
<1>3. Len(p.words) \in T
  <2> HIDE DEF T
  <2>1. 0 .. Len(p.words) \subseteq T
      BY <1>1, <1>2, UpTo
  <2> QED
      BY <2>1
<1> DEFINE upto == CHOOSE f : Upto(f, Len(p.words))
<1>4. Upto(upto, Len(p.words))
  <2> HIDE DEF Upto
  <2> QED
      BY <1>3
<1>5. matchMessage(b, end, p) = upto[Len(p.words)]
    BY DEF matchMessage
<1> HIDE DEF upto
<1>6. \A s \in 0 .. Len(p.words) : upto[s] = Value(upto, s)
  <2> HIDE DEF Value
  <2> QED
      BY <1>4
<1>7. upto[0] = matchLead(b, p)
  <2>1. 0 \in 0 .. Len(p.words)
      OBVIOUS
  <2> QED
      BY <1>6, <2>1
<1>8. ASSUME NEW s \in 1 .. Len(p.words)
      PROVE  upto[s] = SectionAfter(b, upto[s - 1], end, p, s)
  <2>1. s \in 0 .. Len(p.words) /\ s # 0
      OBVIOUS
  <2> QED
      BY <1>6, <2>1
<1> QED
    BY <1>5, <1>7, <1>8 DEF SectionBySection

(* A decode function looks at the capture alone; a Manchester one, at the  *)
(* entry behind it too.                                                    *)
LEMMA MessageAgrees ==
    ASSUME NEW b, NEW c, NEW end \in Nat, Same(b, c, end), NEW p, Fits(p),
           p.coding = "manchester" => b[end] = c[end]
    PROVE  /\ matchMessage(b, end, p) = matchMessage(c, end, p)
           /\ IsMatch(matchMessage(b, end, p))
<1>1. CASE end < p.shortest
  <2>1. IsMatch(From(0))
      BY DEF From, IsMatch
  <2>2. IsMatch(Failed(From(0)))
      BY <2>1, FailedReaches, Zenon
  <2> QED
      BY <1>1, <2>2 DEF matchMessage
<1>2. CASE ~(end < p.shortest)
  <2> DEFINE n == Len(p.words)
  <2>1. n \in Nat
      BY DEF Fits
  <2>2. PICK u : SectionBySection(u, b, end, p)
      BY <1>2, <2>1, MessageSteps, Zenon
  <2>3. PICK v : SectionBySection(v, c, end, p)
      BY <1>2, <2>1, MessageSteps, Zenon
  <2> DEFINE T == {s \in 0 .. n : u[s] = v[s] /\ IsMatch(u[s])}
  <2>4. 0 \in T
    <3>1. u[0] = matchLead(b, p) /\ v[0] = matchLead(c, p)
        BY <2>2, <2>3 DEF SectionBySection
    <3>2. matchLead(b, p) = matchLead(c, p) /\ IsMatch(matchLead(b, p))
        BY <1>2, LeadAgrees, Zenon
    <3>3. 0 \in 0 .. n
        BY <2>1
    <3> QED
        BY <3>1, <3>2, <3>3
  <2>5. ASSUME NEW i \in 0 .. n - 1, i \in T PROVE i + 1 \in T
    <3> DEFINE s == i + 1
               r == u[i]
               bare == [r EXCEPT !.data = <<>>]
    <3>1. s \in 1 .. n /\ s \in 0 .. n /\ s - 1 = i
        BY <2>1
    <3>2. /\ u[s] = Joined(r, matchSection(b, bare, end, p, s))
          /\ v[s] = Joined(r, matchSection(c, bare, end, p, s))
        BY <2>2, <2>3, <2>5, <3>1 DEF SectionBySection, SectionAfter
    <3>3. IsMatch(r)
        BY <2>5
    <3> HIDE DEF r, s
    <3>4. IsMatch(bare)
        BY <3>3 DEF IsMatch
    <3> HIDE DEF bare
    <3> DEFINE m == matchSection(b, bare, end, p, s)
    <3>5. m = matchSection(c, bare, end, p, s) /\ IsMatch(m)
        BY <3>1, <3>4, SectionAgrees, Zenon
    <3>6. Reaches(m, m.next)
        BY <3>5 DEF Reaches, IsMatch
    <3> HIDE DEF m
    <3>7. Reaches(Joined(r, m), m.next)
        BY <3>3, <3>6, DataStays, Zenon
    <3>8. IsMatch(Joined(r, m))
        BY <3>7 DEF Reaches
    <3>9. u[s] = v[s] /\ IsMatch(u[s])
        BY <3>2, <3>5, <3>8 DEF m
    <3> QED
        BY <3>1, <3>9 DEF s
  <2>6. n \in T
    <3> HIDE DEF T, n
    <3>1. 0 .. n \subseteq T
        BY <2>1, <2>4, <2>5, UpTo
    <3> QED
        BY <2>1, <3>1
  <2> QED
      BY <2>2, <2>3, <2>6 DEF SectionBySection
<1> QED
    BY <1>1, <1>2

-----------------------------------------------------------------------------
(* What is on the air: intervals, none shorter than the shortest one sent. *)
Times == {t \in Nat : t >= 320}
Part == [on : BOOLEAN, usec : Times]

LEMMA Joining ==
    ASSUME NEW S, NEW s \in Seq(S), NEW t \in Seq(S) PROVE s \o t \in Seq(S)
OBVIOUS

(* f[i] is the first i of the sequences, one behind the other.             *)
LEMMA FlattenSteps ==
    ASSUME NEW S, NEW seqs \in Seq(Seq(S))
    PROVE  \E f \in [0 .. Len(seqs) -> Seq(S)] :
             /\ f[0] = <<>> /\ f[Len(seqs)] = FlattenSeq(seqs)
             /\ \A i \in 1 .. Len(seqs) : f[i] = f[i - 1] \o seqs[i]
<1> DEFINE n == Len(seqs)
           step == [x \in (1 .. n) \X Seq(S) |-> x[2] \o seqs[x[1]]]
<1>1. n \in Nat /\ <<>> \in Seq(S) /\ \A i \in 1 .. n : seqs[i] \in Seq(S)
    OBVIOUS
<1>2. step \in [(1 .. n) \X Seq(S) -> Seq(S)]
    BY <1>1, Joining
<1>3. \A i \in 1 .. n, q \in Seq(S) : step[<<i, q>>] = q \o seqs[i]
    OBVIOUS
<1> HIDE DEF step
<1>4. PICK f : Stepwise(f, n, <<>>, step)
  <2> HIDE DEF n
  <2> QED
      BY <1>1, <1>2, StepByStep, Zenon
<1>5. f \in [0 .. n -> Seq(S)]
  <2> HIDE DEF n
  <2> QED
      BY <1>1, <1>2, <1>4, StepByStepType, Zenon
<1>6. f[0] = <<>> /\ \A i \in 1 .. n : f[i] = f[i - 1] \o seqs[i]
  <2>1. f[0] = <<>>
      BY <1>4 DEF Stepwise
  <2>2. ASSUME NEW i \in 1 .. n PROVE f[i] = f[i - 1] \o seqs[i]
    <3>1. i - 1 \in 0 .. n
        BY <1>1
    <3>2. f[i - 1] \in Seq(S)
        BY <1>5, <3>1
    <3> HIDE DEF n
    <3> QED
        BY <1>3, <1>4, <3>2 DEF Stepwise
  <2> QED
      BY <2>1, <2>2
<1>7. f[n] = FlattenSeq(seqs)
  <2>1. CASE n = 0
      BY <1>6, <2>1 DEF FlattenSeq
  <2>2. CASE n # 0
    <3> DEFINE Value(g, i) == IF i = 1 THEN seqs[i] ELSE g[i - 1] \o seqs[i]
               whole == [i \in 1 .. n |-> f[i]]
    <3>1. \A i \in 1 .. n : whole[i] = Value(whole, i)
      <4> SUFFICES ASSUME NEW i \in 1 .. n PROVE whole[i] = Value(whole, i)
          OBVIOUS
      <4>1. whole[i] = f[i - 1] \o seqs[i]
          BY <1>6
      <4>2. CASE i = 1
        <5>1. f[i - 1] = <<>> /\ <<>> \o seqs[i] = seqs[i]
            BY <1>1, <1>6, <4>2
        <5> QED
            BY <4>1, <4>2, <5>1
      <4>3. CASE i # 1
        <5>1. i - 1 \in 1 .. n
            BY <1>1, <4>3
        <5> QED
            BY <4>1, <4>3, <5>1
      <4> QED
          BY <4>2, <4>3
    <3> HIDE DEF n
    <3>2. whole = [i \in 1 .. n |-> Value(whole, i)]
      <4> HIDE DEF Value
      <4> QED
          BY <3>1
    <3> HIDE DEF whole
    <3> DEFINE flatten == CHOOSE g : g = [i \in 1 .. n |-> Value(g, i)]
    <3>3. flatten = [i \in 1 .. n |-> Value(flatten, i)]
      <4> HIDE DEF Value
      <4> QED
          BY <3>2
    <3>4. FlattenSeq(seqs) = flatten[n]
        BY <2>2 DEF FlattenSeq, n
    <3> HIDE DEF flatten
    <3>5. \A i \in 1 .. n : flatten[i] = Value(flatten, i)
      <4> HIDE DEF Value
      <4> QED
          BY <3>3
    <3> DEFINE T == {i \in 0 .. n : i # 0 => flatten[i] = f[i]}
    <3>6. 0 \in T
        BY <1>1
    <3>7. ASSUME NEW i \in 0 .. n - 1, i \in T PROVE i + 1 \in T
      <4>1. i + 1 \in 1 .. n /\ i + 1 \in 0 .. n /\ (i + 1) - 1 = i
          BY <1>1
      <4>2. flatten[i + 1] = IF i + 1 = 1 THEN seqs[i + 1] ELSE flatten[i] \o seqs[i + 1]
          BY <3>5, <4>1
      <4>3. f[i + 1] = f[i] \o seqs[i + 1]
          BY <1>6, <4>1
      <4>4. seqs[i + 1] \in Seq(S) /\ <<>> \o seqs[i + 1] = seqs[i + 1]
        <5>1. seqs[i + 1] \in Seq(S)
            BY <1>1, <4>1
        <5> QED
            BY <5>1
      <4>5. flatten[i + 1] = f[i + 1]
        <5>1. CASE i = 0
          <6>1. i + 1 = 1 /\ f[i] = <<>>
              BY <1>6, <5>1
          <6>2. f[i + 1] = <<>> \o seqs[i + 1]
              BY <4>3, <6>1
          <6> QED
              BY <4>2, <4>4, <6>1, <6>2
        <5>2. CASE i # 0
          <6>1. flatten[i] = f[i] /\ i + 1 # 1
              BY <3>7, <5>2
          <6> QED
              BY <4>2, <4>3, <6>1
        <5> QED
            BY <5>1, <5>2
      <4> QED
          BY <4>1, <4>5
    <3>8. n \in T
      <4> HIDE DEF T
      <4>1. 0 .. n \subseteq T
          BY <1>1, <3>6, <3>7, UpTo
      <4> QED
          BY <1>1, <4>1
    <3> QED
        BY <1>1, <2>2, <3>4, <3>8
  <2> QED
      BY <2>1, <2>2
<1> QED
    BY <1>5, <1>6, <1>7

LEMMA FlattenType ==
    ASSUME NEW S, NEW seqs \in Seq(Seq(S))
    PROVE  FlattenSeq(seqs) \in Seq(S)
<1>1. PICK f \in [0 .. Len(seqs) -> Seq(S)] : f[Len(seqs)] = FlattenSeq(seqs)
    BY FlattenSteps
<1>2. Len(seqs) \in 0 .. Len(seqs)
    OBVIOUS
<1> QED
    BY <1>1, <1>2

LEMMA ElapsedType ==
    ASSUME NEW light \in Seq(Part) PROVE Elapsed(light) \in Nat
<1> DEFINE n == Len(light)
           Value(f, i) == IF i = 0 THEN 0 ELSE f[i - 1] + light[i].usec
           step == [x \in (1 .. n) \X Nat |-> x[2] + light[x[1]].usec]
<1>1. n \in Nat /\ \A i \in 1 .. n : light[i] \in Part /\ light[i].usec \in Nat
  <2>1. \A x \in Part : x.usec \in Nat
      BY DEF Part, Times
  <2> QED
      BY <2>1
<1>2. step \in [(1 .. n) \X Nat -> Nat] /\ 0 \in Nat
    BY <1>1
<1>3. \A i \in 1 .. n, q \in Nat : step[<<i, q>>] = q + light[i].usec
    OBVIOUS
<1> HIDE DEF step, n
<1>4. PICK f : Stepwise(f, n, 0, step)
    BY <1>1, <1>2, StepByStep, Zenon
<1>5. f \in [0 .. n -> Nat]
    BY <1>1, <1>2, <1>4, StepByStepType, Zenon
<1>6. \A i \in 0 .. n : f[i] = Value(f, i)
  <2> SUFFICES ASSUME NEW i \in 0 .. n PROVE f[i] = Value(f, i)
      OBVIOUS
  <2>1. CASE i = 0
      BY <1>4, <2>1 DEF Stepwise
  <2>2. CASE i # 0
    <3>1. i \in 1 .. n /\ i - 1 \in 0 .. n
        BY <1>1, <2>2
    <3>2. f[i] = step[<<i, f[i - 1]>>] /\ f[i - 1] \in Nat
        BY <1>4, <1>5, <3>1 DEF Stepwise
    <3> QED
        BY <1>3, <2>2, <3>1, <3>2
  <2> QED
      BY <2>1, <2>2
<1>7. f = [i \in 0 .. n |-> Value(f, i)]
  <2> HIDE DEF Value
  <2> QED
      BY <1>5, <1>6
<1> DEFINE upto == CHOOSE g : g = [i \in 0 .. n |-> Value(g, i)]
<1>8. upto = [i \in 0 .. n |-> Value(upto, i)]
  <2> HIDE DEF Value
  <2> QED
      BY <1>7
<1>9. Elapsed(light) = upto[n]
    BY DEF Elapsed, n
<1> HIDE DEF upto
<1>10. \A i \in 0 .. n : upto[i] = Value(upto, i)
  <2> HIDE DEF Value
  <2> QED
      BY <1>8
<1> DEFINE T == {i \in 0 .. n : upto[i] \in Nat}
<1>11. 0 \in T
    BY <1>1, <1>10
<1>12. ASSUME NEW i \in 0 .. n - 1, i \in T PROVE i + 1 \in T
  <2>1. i + 1 \in 1 .. n /\ i + 1 \in 0 .. n /\ (i + 1) - 1 = i /\ i + 1 # 0
      BY <1>1
  <2>2. upto[i + 1] = upto[i] + light[i + 1].usec
      BY <1>10, <2>1
  <2> QED
      BY <1>1, <1>12, <2>1, <2>2
<1>13. n \in T
  <2> HIDE DEF T
  <2>1. 0 .. n \subseteq T
      BY <1>1, <1>11, <1>12, UpTo
  <2> QED
      BY <1>1, <2>1
<1> QED
    BY <1>9, <1>13

LEMMA HeardType ==
    ASSUME NEW seen \in Seq(Part), NEW part \in Part
    PROVE  Heard(seen, part) \in Seq(Part)
<1>1. CASE seen = <<>>
  <2>1. <<part>> \in Seq(Part) /\ <<>> \in Seq(Part)
      OBVIOUS
  <2> QED
      BY <1>1, <2>1 DEF Heard
<1>2. CASE seen # <<>> /\ Last(seen).on = part.on
  <2> DEFINE n == Len(seen)
             long == [seen[n] EXCEPT !.usec = @ + part.usec]
  <2>1. n \in 1 .. Len(seen) /\ seen[n] \in Part
      BY <1>2
  <2>2. long \in Part
      BY <2>1 DEF Part, Times
  <2> HIDE DEF long, n
  <2>3. [seen EXCEPT ![n] = long] \in Seq(Part)
      BY <2>1, <2>2
  <2>4. Heard(seen, part) = [seen EXCEPT ![n] = long]
      BY <1>2 DEF Heard, n, long
  <2> QED
      BY <2>3, <2>4
<1>3. CASE seen # <<>> /\ Last(seen).on # part.on
    BY <1>3 DEF Heard
<1> QED
    BY <1>1, <1>2, <1>3

(* f[i] is what is heard of the first i parts of the light.                *)
LEMMA IntervalsSteps ==
    ASSUME NEW light \in Seq(Part)
    PROVE  \E f \in [0 .. Len(light) -> Seq(Part)] :
             /\ f[0] = <<>> /\ f[Len(light)] = Intervals(light)
             /\ \A i \in 1 .. Len(light) : f[i] = Heard(f[i - 1], light[i])
<1> DEFINE n == Len(light)
           Value(f, i) == IF i = 0 THEN <<>> ELSE Heard(f[i - 1], light[i])
           step == [x \in (1 .. n) \X Seq(Part) |-> Heard(x[2], light[x[1]])]
<1>1. n \in Nat /\ \A i \in 1 .. n : light[i] \in Part
    OBVIOUS
<1>2. step \in [(1 .. n) \X Seq(Part) -> Seq(Part)] /\ <<>> \in Seq(Part)
  <2>1. \A i \in 1 .. n, q \in Seq(Part) : Heard(q, light[i]) \in Seq(Part)
      BY <1>1, HeardType
  <2> QED
      BY <2>1
<1>3. \A i \in 1 .. n, q \in Seq(Part) : step[<<i, q>>] = Heard(q, light[i])
    OBVIOUS
<1> HIDE DEF step, n
<1>4. PICK f : Stepwise(f, n, <<>>, step)
    BY <1>1, <1>2, StepByStep, Zenon
<1>5. f \in [0 .. n -> Seq(Part)]
    BY <1>1, <1>2, <1>4, StepByStepType, Zenon
<1>6. f[0] = <<>> /\ \A i \in 1 .. n : f[i] = Heard(f[i - 1], light[i])
  <2>1. f[0] = <<>>
      BY <1>4 DEF Stepwise
  <2>2. ASSUME NEW i \in 1 .. n PROVE f[i] = Heard(f[i - 1], light[i])
    <3>1. i - 1 \in 0 .. n /\ f[i - 1] \in Seq(Part)
        BY <1>1, <1>5
    <3> QED
        BY <1>3, <1>4, <3>1 DEF Stepwise
  <2> QED
      BY <2>1, <2>2
<1>7. \A i \in 0 .. n : f[i] = Value(f, i)
  <2> SUFFICES ASSUME NEW i \in 0 .. n PROVE f[i] = Value(f, i)
      OBVIOUS
  <2>1. i # 0 => i \in 1 .. n
      BY <1>1
  <2> QED
      BY <1>6, <2>1
<1>8. f = [i \in 0 .. n |-> Value(f, i)]
  <2> HIDE DEF Value
  <2> QED
      BY <1>5, <1>7
<1> DEFINE upto == CHOOSE g : g = [i \in 0 .. n |-> Value(g, i)]
<1>9. upto = [i \in 0 .. n |-> Value(upto, i)]
  <2> HIDE DEF Value
  <2> QED
      BY <1>8
<1>10. Intervals(light) = upto[n]
    BY DEF Intervals, n
<1> HIDE DEF upto
<1>11. \A i \in 0 .. n : upto[i] = Value(upto, i)
  <2> HIDE DEF Value
  <2> QED
      BY <1>9
<1> DEFINE T == {i \in 0 .. n : upto[i] = f[i]}
<1>12. 0 \in T
  <2>1. 0 \in 0 .. n
      BY <1>1
  <2> QED
      BY <1>6, <1>11, <2>1
<1>13. ASSUME NEW i \in 0 .. n - 1, i \in T PROVE i + 1 \in T
  <2>1. i + 1 \in 1 .. n /\ i + 1 \in 0 .. n /\ (i + 1) - 1 = i /\ i + 1 # 0
      BY <1>1
  <2>2. upto[i + 1] = Heard(upto[i], light[i + 1])
      BY <1>11, <2>1
  <2>3. f[i + 1] = Heard(f[i], light[i + 1])
      BY <1>6, <2>1
  <2> QED
      BY <1>13, <2>1, <2>2, <2>3
<1>14. n \in T
  <2> HIDE DEF T
  <2>1. 0 .. n \subseteq T
      BY <1>1, <1>12, <1>13, UpTo
  <2> QED
      BY <1>1, <2>1
<1> QED
    BY <1>5, <1>6, <1>10, <1>14 DEF n

LEMMA IntervalsType ==
    ASSUME NEW light \in Seq(Part) PROVE Intervals(light) \in Seq(Part)
BY IntervalsSteps

-----------------------------------------------------------------------------
(* What of a protocol the sender needs: whatever lasts at all, lasts as    *)
(* long as the shortest interval.                                          *)
Timed(p) ==
    /\ p.coding # "manchester" =>
         {p.onemark, p.onespace, p.zeromark, p.zerospace} \subseteq Times
    /\ p.coding = "manchester" => p.half \in Times
    /\ {p.hdrmark, p.hdrspace, p.footermark} \subseteq Times \cup {0}
    /\ \A s \in 1 .. Len(p.words) : p.gaps[s] \in Times \cup {0}
    /\ p.mesgtime \in Nat
    /\ p.mesgtime # 0 => \A s \in 1 .. Len(p.words) : p.gaps[s] \in Times
    /\ p.lead = <<>> \/ (p.lead[1] \in Times /\ p.lead[2] \in Times)
    /\ p.trail = <<>> \/ (p.trail[1] \in Times /\ p.trail[2] \in Times)
    /\ p.repeat \in Nat

LEMMA LightType ==
    /\ \A t \in Times : mark(t) \in Seq(Part)
    /\ \A t \in Times \cup {0} : space(t) \in Seq(Part) /\ optmark(t) \in Seq(Part)
<1>1. ASSUME NEW t \in Times, NEW on \in BOOLEAN
      PROVE  <<[on |-> on, usec |-> t]>> \in Seq(Part)
  <2>1. [on |-> on, usec |-> t] \in Part
      BY DEF Part
  <2> QED
      BY <2>1
<1>2. <<>> \in Seq(Part)
    OBVIOUS
<1> QED
    BY <1>1, <1>2 DEF mark, space, optmark

LEMMA PairType ==
    ASSUME NEW pair, pair = <<>> \/ (pair[1] \in Times /\ pair[2] \in Times)
    PROVE  Pair(pair) \in Seq(Part)
<1>1. CASE pair = <<>>
    BY <1>1 DEF Pair
<1>2. CASE pair # <<>>
  <2>1. mark(pair[1]) \in Seq(Part) /\ space(pair[2]) \in Seq(Part)
      BY <1>2, LightType
  <2> QED
      BY <1>2, <2>1, Joining DEF Pair
<1> QED
    BY <1>1, <1>2

LEMMA DataType ==
    ASSUME NEW p, Timed(p), NEW word, Len(word) \in Nat
    PROVE  /\ p.coding # "manchester" => sendData(p, word) \in Seq(Part)
           /\ p.coding = "manchester" => sendManchesterData(p, word) \in Seq(Part)
<1> DEFINE one(i) == InOrder(p, word)[i] = 1
<1>1. ASSUME p.coding # "manchester"
      PROVE  sendData(p, word) \in Seq(Part)
  <2> DEFINE long == mark(p.onemark) \o space(p.onespace)
             short == mark(p.zeromark) \o space(p.zerospace)
             seqs == [i \in 1 .. Len(word) |-> IF one(i) THEN long ELSE short]
  <2>1. {p.onemark, p.onespace, p.zeromark, p.zerospace} \subseteq Times
      BY <1>1 DEF Timed
  <2>2. /\ mark(p.onemark) \in Seq(Part) /\ space(p.onespace) \in Seq(Part)
        /\ mark(p.zeromark) \in Seq(Part) /\ space(p.zerospace) \in Seq(Part)
      BY <2>1, LightType
  <2>3. long \in Seq(Part) /\ short \in Seq(Part)
      BY <2>2, Joining
  <2>4. sendData(p, word) = FlattenSeq(seqs)
      BY DEF sendData
  <2> HIDE DEF long, short, one
  <2>5. seqs \in Seq(Seq(Part))
      BY <2>3
  <2> HIDE DEF seqs
  <2> QED
      BY <2>4, <2>5, FlattenType
<1>2. ASSUME p.coding = "manchester"
      PROVE  sendManchesterData(p, word) \in Seq(Part)
  <2> DEFINE down == mark(p.half) \o space(p.half)
             up == space(p.half) \o mark(p.half)
             seqs == [i \in 1 .. Len(word) |-> IF one(i) = p.thomas THEN down ELSE up]
  <2>1. p.half \in Times
      BY <1>2 DEF Timed
  <2>2. mark(p.half) \in Seq(Part) /\ space(p.half) \in Seq(Part)
      BY <2>1, LightType
  <2>3. down \in Seq(Part) /\ up \in Seq(Part)
      BY <2>2, Joining
  <2>4. sendManchesterData(p, word) = FlattenSeq(seqs)
      BY DEF sendManchesterData
  <2> HIDE DEF down, up, one
  <2>5. seqs \in Seq(Seq(Part))
      BY <2>3
  <2> HIDE DEF seqs
  <2> QED
      BY <2>4, <2>5, FlattenType
<1> QED
    BY <1>1, <1>2

LEMMA PaddingType ==
    ASSUME NEW p, Timed(p), NEW s \in 1 .. Len(p.words), NEW elapsed \in Nat
    PROVE  Padding(p, p.gaps[s], elapsed) \in Times \cup {0}
<1> DEFINE gap == p.gaps[s]
           rest == p.mesgtime - elapsed
           most == Max({gap, rest})
<1>1. gap \in Times \cup {0} /\ p.mesgtime \in Nat /\ (p.mesgtime # 0 => gap \in Times)
    BY DEF Timed
<1>2. CASE elapsed >= p.mesgtime
    BY <1>1, <1>2 DEF Padding
<1>3. CASE ~(elapsed >= p.mesgtime)
  <2>1. gap \in Times /\ rest \in Int
      BY <1>1, <1>3
  <2> HIDE DEF gap, rest
  <2>2. \E x \in {gap, rest} : \A y \in {gap, rest} : x >= y
      BY <2>1 DEF Times
  <2>3. most \in {gap, rest} /\ most >= gap
      BY <2>2 DEF Max
  <2> HIDE DEF most
  <2>4. most \in Times
      BY <2>1, <2>3 DEF Times
  <2> QED
      BY <1>3, <2>4 DEF Padding, most, gap, rest
<1> QED
    BY <1>2, <1>3

LEMMA SectionType ==
    ASSUME NEW p, Timed(p), NEW s \in 1 .. Len(p.words),
           NEW words, Len(words) \in Nat,
           \A i \in 1 .. Len(words) : Len(words[i]) \in Nat
    PROVE  sendSection(p, words, p.gaps[s]) \in Seq(Part)
<1> DEFINE send(w) == IF p.coding = "manchester" THEN sendManchesterData(p, w)
                                                 ELSE sendData(p, w)
           seqs == [i \in 1 .. Len(words) |-> send(words[i])]
           head == optmark(p.hdrmark) \o space(p.hdrspace)
           foot == optmark(p.footermark)
           body == (head \o FlattenSeq(seqs)) \o foot
           gap == p.gaps[s]
           behind == space(Padding(p, gap, Elapsed(body)))
<1>1. sendSection(p, words, gap) = body \o behind
    BY DEF sendSection
<1>2. head \in Seq(Part) /\ foot \in Seq(Part)
  <2>1. /\ optmark(p.hdrmark) \in Seq(Part) /\ space(p.hdrspace) \in Seq(Part)
        /\ optmark(p.footermark) \in Seq(Part)
      BY LightType DEF Timed
  <2> QED
      BY <2>1, Joining
<1>3. seqs \in Seq(Seq(Part))
  <2>1. \A i \in 1 .. Len(words) : send(words[i]) \in Seq(Part)
      BY DataType
  <2> HIDE DEF send
  <2> QED
      BY <2>1
<1> HIDE DEF seqs, head, foot
<1>4. FlattenSeq(seqs) \in Seq(Part)
    BY <1>3, FlattenType
<1>5. body \in Seq(Part)
    BY <1>2, <1>4, Joining
<1> HIDE DEF body
<1>6. Padding(p, gap, Elapsed(body)) \in Times \cup {0}
    BY <1>5, ElapsedType, PaddingType
<1>7. behind \in Seq(Part)
    BY <1>6, LightType
<1> HIDE DEF behind
<1> QED
    BY <1>1, <1>5, <1>7, Joining

LEMMA GenericType ==
    ASSUME NEW p, Timed(p), NEW m, Len(m) = Len(p.words), Len(p.words) \in Nat,
           \A s \in 1 .. Len(m) : /\ Len(m[s]) \in Nat
                                  /\ \A i \in 1 .. Len(m[s]) : Len(m[s][i]) \in Nat
    PROVE  sendGeneric(p, m) \in Seq(Part)
<1> DEFINE one(s) == sendSection(p, m[s], p.gaps[s])
           seqs == [s \in 1 .. Len(m) |-> one(s)]
           once == sendMessage(p, m)
           rep == [r \in 1 .. (p.repeat + 1) |-> once]
<1>1. once = Pair(p.lead) \o FlattenSeq(seqs)
    BY DEF sendMessage
<1>2. \A s \in 1 .. Len(m) : one(s) \in Seq(Part)
    BY SectionType
<1>3. seqs \in Seq(Seq(Part))
  <2> HIDE DEF one
  <2> QED
      BY <1>2
<1>4. Pair(p.lead) \in Seq(Part) /\ Pair(p.trail) \in Seq(Part)
    BY PairType DEF Timed
<1> HIDE DEF seqs
<1>5. once \in Seq(Part)
    BY <1>1, <1>3, <1>4, FlattenType, Joining
<1>6. sendGeneric(p, m) = FlattenSeq(rep) \o Pair(p.trail)
    BY DEF sendGeneric
<1> HIDE DEF once
<1>7. rep \in Seq(Seq(Part))
    BY <1>5 DEF Timed
<1> HIDE DEF rep
<1> QED
    BY <1>4, <1>6, <1>7, FlattenType, Joining

-----------------------------------------------------------------------------
(* p is q to the receiver of a timeout, and suits both directions.         *)
Suits(p, q) == Fits(p) /\ Timed(p) /\ p.words = q.words /\ p.width = q.width

LEMMA SamsungSuits ==
    ASSUME NEW limit PROVE Suits([Samsung EXCEPT !.timeout = limit], Samsung)
<1> DEFINE p == [Samsung EXCEPT !.timeout = limit]
<1>1. /\ p.coding = "bits" /\ p.lead = <<>> /\ p.hdrmark = 4480
      /\ p.hdrspace = 4480 /\ p.onemark = 560 /\ p.onespace = 1680
      /\ p.zeromark = 560 /\ p.zerospace = 560 /\ p.footermark = 560
      /\ p.gaps = <<26880>> /\ p.mesgtime = 108080 /\ p.words = <<1>>
      /\ p.width = Bits /\ p.shortest = 0 /\ p.half = 0
      /\ p.trail = <<>> /\ p.repeat = 0
    BY DEF Samsung, Usual, kDefaultMessageGap
<1>2. p.words = Samsung.words /\ p.width = Samsung.width
    BY <1>1 DEF Samsung, Usual
<1> HIDE DEF p
<1>3. Len(p.words) = 1 /\ \A s \in 1 .. Len(p.words) : p.words[s] \in Nat \ {0}
    BY <1>1
<1>4. \A s \in 1 .. Len(p.words) : p.gaps[s] \in Times \cup {0} /\ p.gaps[s] \in Times
    BY <1>1, <1>3 DEF Times
<1>5. Fits(p)
    BY <1>1, <1>3, CodecAssumption DEF Fits
<1>6. p.lead = <<>> \/ (p.lead[1] \in Times /\ p.lead[2] \in Times)
    BY <1>1 DEF Times
<1>7. p.trail = <<>> \/ (p.trail[1] \in Times /\ p.trail[2] \in Times)
    BY <1>1 DEF Times
<1>8. Timed(p)
  <2>1. /\ p.coding # "manchester" =>
             {p.onemark, p.onespace, p.zeromark, p.zerospace} \subseteq Times
        /\ p.coding = "manchester" => p.half \in Times
        /\ {p.hdrmark, p.hdrspace, p.footermark} \subseteq Times \cup {0}
        /\ p.mesgtime \in Nat /\ p.repeat \in Nat
      BY <1>1 DEF Times
  <2> QED
      BY <1>1, <1>4, <1>6, <1>7, <2>1 DEF Timed
<1> QED
    BY <1>2, <1>5, <1>8 DEF Suits, p

LEMMA PanasonicAcSuits ==
    ASSUME NEW limit PROVE Suits([PanasonicAc EXCEPT !.timeout = limit], PanasonicAc)
<1> DEFINE p == [PanasonicAc EXCEPT !.timeout = limit]
<1>1. /\ p.coding = "bytes" /\ p.lead = <<>> /\ p.hdrmark = 3456
      /\ p.hdrspace = 1728 /\ p.onemark = 432 /\ p.onespace = 1296
      /\ p.zeromark = 432 /\ p.zerospace = 432 /\ p.footermark = 432
      /\ p.gaps = <<10000, 100000>> /\ p.mesgtime = 0 /\ p.words = <<1, 2>>
      /\ p.width = ByteBits /\ p.shortest = 6 * ByteBits + 4 /\ p.half = 0
      /\ p.trail = <<>> /\ p.repeat = 0
    BY DEF PanasonicAc, Usual, kDefaultMessageGap
<1>2. p.words = PanasonicAc.words /\ p.width = PanasonicAc.width
    BY <1>1 DEF PanasonicAc, Usual
<1> HIDE DEF p
<1>3. Len(p.words) = 2 /\ \A s \in 1 .. Len(p.words) : p.words[s] \in Nat \ {0}
    BY <1>1
<1>4. \A s \in 1 .. Len(p.words) : p.gaps[s] \in Times \cup {0}
    BY <1>1, <1>3 DEF Times
<1>5. Fits(p)
    BY <1>1, <1>3, CodecAssumption DEF Fits
<1>6. p.lead = <<>> \/ (p.lead[1] \in Times /\ p.lead[2] \in Times)
    BY <1>1 DEF Times
<1>7. p.trail = <<>> \/ (p.trail[1] \in Times /\ p.trail[2] \in Times)
    BY <1>1 DEF Times
<1>8. Timed(p)
  <2>1. /\ p.coding # "manchester" =>
             {p.onemark, p.onespace, p.zeromark, p.zerospace} \subseteq Times
        /\ p.coding = "manchester" => p.half \in Times
        /\ {p.hdrmark, p.hdrspace, p.footermark} \subseteq Times \cup {0}
        /\ p.mesgtime \in Nat /\ p.repeat \in Nat
      BY <1>1 DEF Times
  <2> QED
      BY <1>1, <1>4, <1>6, <1>7, <2>1 DEF Timed
<1> QED
    BY <1>2, <1>5, <1>8 DEF Suits, p

LEMMA SymphonySuits ==
    ASSUME NEW limit PROVE Suits([Symphony EXCEPT !.timeout = limit], Symphony)
<1> DEFINE p == [Symphony EXCEPT !.timeout = limit]
<1>1. /\ p.coding = "constbit" /\ p.lead = <<>> /\ p.hdrmark = 0
      /\ p.hdrspace = 0 /\ p.onemark = 1250 /\ p.onespace = 400
      /\ p.zeromark = 400 /\ p.zerospace = 1250 /\ p.footermark = 0
      /\ p.gaps = <<6600>> /\ p.mesgtime = 0 /\ p.words = <<1>>
      /\ p.width = Bits /\ p.shortest = 2 * Bits - 1 /\ p.half = 0
      /\ p.trail = <<>> /\ p.repeat = 3 /\ [p EXCEPT !.msb = TRUE].coding = "constbit"
    BY DEF Symphony, Usual, kDefaultMessageGap
<1>2. p.words = Symphony.words /\ p.width = Symphony.width
    BY <1>1 DEF Symphony, Usual
<1> HIDE DEF p
<1>3. Len(p.words) = 1 /\ \A s \in 1 .. Len(p.words) : p.words[s] \in Nat \ {0}
    BY <1>1
<1>4. \A s \in 1 .. Len(p.words) : p.gaps[s] \in Times \cup {0}
    BY <1>1, <1>3 DEF Times
<1>5. Fits(p)
    BY <1>1, <1>3, CodecAssumption DEF Fits
<1>6. p.lead = <<>> \/ (p.lead[1] \in Times /\ p.lead[2] \in Times)
    BY <1>1 DEF Times
<1>7. p.trail = <<>> \/ (p.trail[1] \in Times /\ p.trail[2] \in Times)
    BY <1>1 DEF Times
<1>8. Timed(p)
  <2>1. /\ p.coding # "manchester" =>
             {p.onemark, p.onespace, p.zeromark, p.zerospace} \subseteq Times
        /\ p.coding = "manchester" => p.half \in Times
        /\ {p.hdrmark, p.hdrspace, p.footermark} \subseteq Times \cup {0}
        /\ p.mesgtime \in Nat /\ p.repeat \in Nat
      BY <1>1 DEF Times
  <2> QED
      BY <1>1, <1>4, <1>6, <1>7, <2>1 DEF Timed
<1> QED
    BY <1>2, <1>5, <1>8 DEF Suits, p

LEMMA EliteScreensSuits ==
    ASSUME NEW limit PROVE Suits([EliteScreens EXCEPT !.timeout = limit], EliteScreens)
<1> DEFINE p == [EliteScreens EXCEPT !.timeout = limit]
<1>1. /\ p.coding = "constbit" /\ p.lead = <<>> /\ p.hdrmark = 0
      /\ p.hdrspace = 0 /\ p.onemark = 470 /\ p.onespace = 1214
      /\ p.zeromark = 1214 /\ p.zerospace = 470 /\ p.footermark = 0
      /\ p.gaps = <<29200>> /\ p.mesgtime = 0 /\ p.words = <<1>>
      /\ p.width = Bits /\ p.shortest = 0 /\ p.half = 0
      /\ p.trail = <<>> /\ p.repeat = 1 /\ [p EXCEPT !.msb = TRUE].coding = "constbit"
    BY DEF EliteScreens, Usual, kDefaultMessageGap
<1>2. p.words = EliteScreens.words /\ p.width = EliteScreens.width
    BY <1>1 DEF EliteScreens, Usual
<1> HIDE DEF p
<1>3. Len(p.words) = 1 /\ \A s \in 1 .. Len(p.words) : p.words[s] \in Nat \ {0}
    BY <1>1
<1>4. \A s \in 1 .. Len(p.words) : p.gaps[s] \in Times \cup {0}
    BY <1>1, <1>3 DEF Times
<1>5. Fits(p)
    BY <1>1, <1>3, CodecAssumption DEF Fits
<1>6. p.lead = <<>> \/ (p.lead[1] \in Times /\ p.lead[2] \in Times)
    BY <1>1 DEF Times
<1>7. p.trail = <<>> \/ (p.trail[1] \in Times /\ p.trail[2] \in Times)
    BY <1>1 DEF Times
<1>8. Timed(p)
  <2>1. /\ p.coding # "manchester" =>
             {p.onemark, p.onespace, p.zeromark, p.zerospace} \subseteq Times
        /\ p.coding = "manchester" => p.half \in Times
        /\ {p.hdrmark, p.hdrspace, p.footermark} \subseteq Times \cup {0}
        /\ p.mesgtime \in Nat /\ p.repeat \in Nat
      BY <1>1 DEF Times
  <2> QED
      BY <1>1, <1>4, <1>6, <1>7, <2>1 DEF Timed
<1> QED
    BY <1>2, <1>5, <1>8 DEF Suits, p

LEMMA MilesTag2Suits ==
    ASSUME NEW limit PROVE Suits([MilesTag2 EXCEPT !.timeout = limit], MilesTag2)
<1> DEFINE p == [MilesTag2 EXCEPT !.timeout = limit]
<1>1. /\ p.coding = "bits" /\ p.lead = <<>> /\ p.hdrmark = 2400
      /\ p.hdrspace = 600 /\ p.onemark = 1200 /\ p.onespace = 600
      /\ p.zeromark = 600 /\ p.zerospace = 600 /\ p.footermark = 0
      /\ p.gaps = <<32000>> /\ p.mesgtime = 0 /\ p.words = <<1>>
      /\ p.width = Bits /\ p.shortest = 0 /\ p.half = 0
      /\ p.trail = <<>> /\ p.repeat = 0
    BY DEF MilesTag2, Usual, kDefaultMessageGap
<1>2. p.words = MilesTag2.words /\ p.width = MilesTag2.width
    BY <1>1 DEF MilesTag2, Usual
<1> HIDE DEF p
<1>3. Len(p.words) = 1 /\ \A s \in 1 .. Len(p.words) : p.words[s] \in Nat \ {0}
    BY <1>1
<1>4. \A s \in 1 .. Len(p.words) : p.gaps[s] \in Times \cup {0}
    BY <1>1, <1>3 DEF Times
<1>5. Fits(p)
    BY <1>1, <1>3, CodecAssumption DEF Fits
<1>6. p.lead = <<>> \/ (p.lead[1] \in Times /\ p.lead[2] \in Times)
    BY <1>1 DEF Times
<1>7. p.trail = <<>> \/ (p.trail[1] \in Times /\ p.trail[2] \in Times)
    BY <1>1 DEF Times
<1>8. Timed(p)
  <2>1. /\ p.coding # "manchester" =>
             {p.onemark, p.onespace, p.zeromark, p.zerospace} \subseteq Times
        /\ p.coding = "manchester" => p.half \in Times
        /\ {p.hdrmark, p.hdrspace, p.footermark} \subseteq Times \cup {0}
        /\ p.mesgtime \in Nat /\ p.repeat \in Nat
      BY <1>1 DEF Times
  <2> QED
      BY <1>1, <1>4, <1>6, <1>7, <2>1 DEF Timed
<1> QED
    BY <1>2, <1>5, <1>8 DEF Suits, p

LEMMA TrumaSuits ==
    ASSUME NEW limit PROVE Suits([Truma EXCEPT !.timeout = limit], Truma)
<1> DEFINE p == [Truma EXCEPT !.timeout = limit]
<1>1. /\ p.coding = "bits" /\ p.lead = <<20200, 1000>> /\ p.hdrmark = 1800
      /\ p.hdrspace = 630 /\ p.onemark = 600 /\ p.onespace = 630
      /\ p.zeromark = 1200 /\ p.zerospace = 630 /\ p.footermark = 600
      /\ p.gaps = <<100000>> /\ p.mesgtime = 0 /\ p.words = <<1>>
      /\ p.width = Bits /\ p.shortest = 2 * Bits + 1 /\ p.half = 0
      /\ p.trail = <<>> /\ p.repeat = 0
    BY DEF Truma, Usual, kDefaultMessageGap
<1>2. p.words = Truma.words /\ p.width = Truma.width
    BY <1>1 DEF Truma, Usual
<1> HIDE DEF p
<1>3. Len(p.words) = 1 /\ \A s \in 1 .. Len(p.words) : p.words[s] \in Nat \ {0}
    BY <1>1
<1>4. \A s \in 1 .. Len(p.words) : p.gaps[s] \in Times \cup {0}
    BY <1>1, <1>3 DEF Times
<1>5. Fits(p)
    BY <1>1, <1>3, CodecAssumption DEF Fits
<1>6. p.lead = <<>> \/ (p.lead[1] \in Times /\ p.lead[2] \in Times)
    BY <1>1 DEF Times
<1>7. p.trail = <<>> \/ (p.trail[1] \in Times /\ p.trail[2] \in Times)
    BY <1>1 DEF Times
<1>8. Timed(p)
  <2>1. /\ p.coding # "manchester" =>
             {p.onemark, p.onespace, p.zeromark, p.zerospace} \subseteq Times
        /\ p.coding = "manchester" => p.half \in Times
        /\ {p.hdrmark, p.hdrspace, p.footermark} \subseteq Times \cup {0}
        /\ p.mesgtime \in Nat /\ p.repeat \in Nat
      BY <1>1 DEF Times
  <2> QED
      BY <1>1, <1>4, <1>6, <1>7, <2>1 DEF Timed
<1> QED
    BY <1>2, <1>5, <1>8 DEF Suits, p

LEMMA AirwellSuits ==
    ASSUME NEW limit PROVE Suits([Airwell EXCEPT !.timeout = limit], Airwell)
<1> DEFINE p == [Airwell EXCEPT !.timeout = limit]
<1>1. /\ p.coding = "manchester" /\ p.lead = <<>> /\ p.hdrmark = 2850
      /\ p.hdrspace = 2850 /\ p.onemark = 0 /\ p.onespace = 0
      /\ p.zeromark = 0 /\ p.zerospace = 0 /\ p.footermark = 0
      /\ p.gaps = <<0>> /\ p.mesgtime = 0 /\ p.words = <<1>>
      /\ p.width = Bits /\ p.shortest = Bits + 2 /\ p.half = 950
      /\ p.trail = <<3800, 100000>> /\ p.repeat = 2
    BY DEF Airwell, Usual, kDefaultMessageGap
<1>2. p.words = Airwell.words /\ p.width = Airwell.width
    BY <1>1 DEF Airwell, Usual
<1> HIDE DEF p
<1>3. Len(p.words) = 1 /\ \A s \in 1 .. Len(p.words) : p.words[s] \in Nat \ {0}
    BY <1>1
<1>4. \A s \in 1 .. Len(p.words) : p.gaps[s] \in Times \cup {0}
    BY <1>1, <1>3 DEF Times
<1>5. Fits(p)
    BY <1>1, <1>3, CodecAssumption DEF Fits
<1>6. p.lead = <<>> \/ (p.lead[1] \in Times /\ p.lead[2] \in Times)
    BY <1>1 DEF Times
<1>7. p.trail = <<>> \/ (p.trail[1] \in Times /\ p.trail[2] \in Times)
    BY <1>1 DEF Times
<1>8. Timed(p)
  <2>1. /\ p.coding # "manchester" =>
             {p.onemark, p.onespace, p.zeromark, p.zerospace} \subseteq Times
        /\ p.coding = "manchester" => p.half \in Times
        /\ {p.hdrmark, p.hdrspace, p.footermark} \subseteq Times \cup {0}
        /\ p.mesgtime \in Nat /\ p.repeat \in Nat
      BY <1>1 DEF Times
  <2> QED
      BY <1>1, <1>4, <1>6, <1>7, <2>1 DEF Timed
<1> QED
    BY <1>2, <1>5, <1>8 DEF Suits, p

LEMMA ArrisSuits ==
    ASSUME NEW limit PROVE Suits([Arris EXCEPT !.timeout = limit], Arris)
<1> DEFINE p == [Arris EXCEPT !.timeout = limit]
<1>1. /\ p.coding = "manchester" /\ p.lead = <<2560, 1920>> /\ p.hdrmark = 640
      /\ p.hdrspace = 0 /\ p.onemark = 0 /\ p.onespace = 0
      /\ p.zeromark = 0 /\ p.zerospace = 0 /\ p.footermark = 0
      /\ p.gaps = <<77184>> /\ p.mesgtime = 0 /\ p.words = <<1>>
      /\ p.width = Bits /\ p.shortest = Bits /\ p.half = 320
      /\ p.trail = <<>> /\ p.repeat = 0
    BY DEF Arris, Usual, kDefaultMessageGap
<1>2. p.words = Arris.words /\ p.width = Arris.width
    BY <1>1 DEF Arris, Usual
<1> HIDE DEF p
<1>3. Len(p.words) = 1 /\ \A s \in 1 .. Len(p.words) : p.words[s] \in Nat \ {0}
    BY <1>1
<1>4. \A s \in 1 .. Len(p.words) : p.gaps[s] \in Times \cup {0}
    BY <1>1, <1>3 DEF Times
<1>5. Fits(p)
    BY <1>1, <1>3, CodecAssumption DEF Fits
<1>6. p.lead = <<>> \/ (p.lead[1] \in Times /\ p.lead[2] \in Times)
    BY <1>1 DEF Times
<1>7. p.trail = <<>> \/ (p.trail[1] \in Times /\ p.trail[2] \in Times)
    BY <1>1 DEF Times
<1>8. Timed(p)
  <2>1. /\ p.coding # "manchester" =>
             {p.onemark, p.onespace, p.zeromark, p.zerospace} \subseteq Times
        /\ p.coding = "manchester" => p.half \in Times
        /\ {p.hdrmark, p.hdrspace, p.footermark} \subseteq Times \cup {0}
        /\ p.mesgtime \in Nat /\ p.repeat \in Nat
      BY <1>1 DEF Times
  <2> QED
      BY <1>1, <1>4, <1>6, <1>7, <2>1 DEF Timed
<1> QED
    BY <1>2, <1>5, <1>8 DEF Suits, p

(* All eight protocols are such.                                           *)
LEMMA ProtocolsFit ==
    ASSUME NEW n \in ProtocolNames, NEW limit
    PROVE  Suits([Protocol(n) EXCEPT !.timeout = limit], Protocol(n))
<1>1. CASE n = "SAMSUNG"
  <2>1. Protocol(n) = Samsung
      BY <1>1 DEF Protocol
  <2> QED
      BY <2>1, SamsungSuits
<1>2. CASE n = "PANASONIC_AC"
  <2>1. Protocol(n) = PanasonicAc
      BY <1>2 DEF Protocol
  <2> QED
      BY <2>1, PanasonicAcSuits
<1>3. CASE n = "SYMPHONY"
  <2>1. Protocol(n) = Symphony
      BY <1>3 DEF Protocol
  <2> QED
      BY <2>1, SymphonySuits
<1>4. CASE n = "ELITESCREENS"
  <2>1. Protocol(n) = EliteScreens
      BY <1>4 DEF Protocol
  <2> QED
      BY <2>1, EliteScreensSuits
<1>5. CASE n = "MILESTAG2"
  <2>1. Protocol(n) = MilesTag2
      BY <1>5 DEF Protocol
  <2> QED
      BY <2>1, MilesTag2Suits
<1>6. CASE n = "TRUMA"
  <2>1. Protocol(n) = Truma
      BY <1>6 DEF Protocol
  <2> QED
      BY <2>1, TrumaSuits
<1>7. CASE n = "AIRWELL"
  <2>1. Protocol(n) = Airwell
      BY <1>7 DEF Protocol
  <2> QED
      BY <2>1, AirwellSuits
<1>8. CASE n = "ARRIS"
  <2>1. Protocol(n) = Arris
      BY <1>8 DEF Protocol
  <2> QED
      BY <2>1, ArrisSuits
<1> QED
    BY <1>1, <1>2, <1>3, <1>4, <1>5, <1>6, <1>7, <1>8 DEF ProtocolNames

-----------------------------------------------------------------------------
(* The invariant: what TypeOK says, and that what is on the air and what   *)
(* is recorded are sequences.                                              *)
Recorded ==
    /\ air \in Seq(Part) /\ buf \in Seq(Nat)
    /\ pc = "send" => buf = <<>>
Inv == TypeOK /\ Recorded

LEMMA ProtoSuits ==
    ASSUME name \in Names PROVE Suits(proto, Protocol(name))
<1>1. name \in ProtocolNames
    BY CodecAssumption
<1> QED
    BY <1>1, ProtocolsFit DEF proto

(* A message of the protocol, as the sender wants it.                      *)
LEMMA MessageType ==
    ASSUME name \in Names, message \in Messages(Protocol(name))
    PROVE  /\ Len(message) = Len(proto.words)
           /\ \A s \in 1 .. Len(message) :
                /\ Len(message[s]) \in Nat
                /\ \A i \in 1 .. Len(message[s]) : Len(message[s][i]) \in Nat
<1> DEFINE q == Protocol(name)
           n == Len(q.words)
<1>1. Len(proto.words) = n /\ n \in Nat /\ q.width \in Nat
    BY ProtoSuits DEF Suits, Fits
<1>2. message \in [1 .. n -> UNION {[1 .. k -> Word(q)] : k \in 1 .. 2}]
    BY DEF Messages
<1>3. Word(q) = [1 .. q.width -> Bit]
    BY DEF Word
<1> HIDE DEF q, n
<1>4. DOMAIN message = 1 .. n /\ Len(message) = n
    BY <1>1, <1>2
<1>5. ASSUME NEW s \in 1 .. n
      PROVE  /\ Len(message[s]) \in Nat
             /\ \A i \in 1 .. Len(message[s]) : Len(message[s][i]) \in Nat
  <2>1. PICK k \in 1 .. 2 : message[s] \in [1 .. k -> Word(q)]
      BY <1>2
  <2>2. Len(message[s]) = k
      BY <2>1
  <2>3. ASSUME NEW i \in 1 .. k PROVE Len(message[s][i]) \in Nat
    <3>1. message[s][i] \in [1 .. q.width -> Bit]
        BY <1>3, <2>1
    <3> QED
        BY <1>1, <3>1
  <2> QED
      BY <2>2, <2>3
<1> QED
    BY <1>1, <1>4, <1>5

LEMMA ResultType ==
    ASSUME Inv, NEW older PROVE Decoded(older).ok \in BOOLEAN
<1> DEFINE b == Cells(older)
           end == Len(buf)
           p == proto
<1>1. end \in Nat /\ Same(b, b, end) /\ (p.coding = "manchester" => b[end] = b[end])
    BY DEF Inv, Recorded, Same
<1>2. Fits(p)
    BY ProtoSuits DEF Inv, TypeOK, Suits
<1> HIDE DEF b, end, p
<1>3. IsMatch(matchMessage(b, end, p))
    BY <1>1, <1>2, MessageAgrees, Zenon
<1> QED
    BY <1>3 DEF IsMatch, Decoded, b, end, p

LEMMA TicksBounds ==
    ASSUME NEW t \in Int, NEW last \in Int, t >= 2, t < last, last <= 130300
    PROVE  /\ t \div 2 \in Nat /\ 1 <= t \div 2 /\ t \div 2 <= 65535
           /\ 2 * (t \div 2) < last
OBVIOUS

LEMMA InvInit == Init => Inv
<1> SUFFICES ASSUME Init PROVE Inv
    OBVIOUS
<1>1. Len(buf) <= Len(air) /\ DOMAIN buf = {} /\ Recorded
  <2>1. buf = <<>> /\ air = <<>> /\ <<>> \in Seq(Part) /\ <<>> \in Seq(Nat)
      BY DEF Init
  <2> QED
      BY <2>1 DEF Recorded
<1>2. result.ok \in BOOLEAN
    BY DEF Init, Failed, From
<1>3. noisy \in 0 .. MaxNoisy
    BY CodecAssumption DEF Init
<1> QED
    BY <1>1, <1>2, <1>3 DEF Init, Inv, TypeOK

LEMMA InvStep == Inv /\ [Next]_vars => Inv'
<1> SUFFICES ASSUME Inv, [Next]_vars PROVE Inv'
    OBVIOUS
<1>1. CASE Send
  <2> DEFINE light == sendGeneric(proto, message)
  <2>1. name \in Names /\ message \in Messages(Protocol(name))
      BY DEF Inv, TypeOK
  <2>2. Timed(proto) /\ Len(proto.words) \in Nat
      BY <2>1, ProtoSuits DEF Suits, Fits
  <2>3. light \in Seq(Part)
      BY <2>1, <2>2, MessageType, GenericType
  <2>4. Intervals(light) \in Seq(Part)
      BY <2>3, IntervalsType
  <2>5. air' \in Seq(Part) /\ buf' = buf /\ pc' = "capture" /\ buf = <<>>
      BY <1>1, <2>4 DEF Send, Inv, Recorded
  <2>6. Len(buf') = 0 /\ Len(air') \in Nat /\ DOMAIN buf' = {}
      BY <2>5
  <2>7. UNCHANGED <<name, timeout, message, slow, noisy, cut, overflow, old, result>>
      BY <1>1 DEF Send
  <2>8. TypeOK'
      BY <2>5, <2>6, <2>7 DEF Inv, TypeOK
  <2>9. Recorded'
      BY <2>5 DEF Inv, Recorded
  <2> QED
      BY <2>8, <2>9 DEF Inv
<1>2. CASE Capture
  <2> DEFINE n == Len(buf)
             part == air[n + 1]
  <2>1. PICK disturbed \in BOOLEAN :
             /\ IF slow THEN disturbed ELSE disturbed => noisy < MaxNoisy
             /\ noisy' = noisy + IF disturbed /\ ~slow THEN 1 ELSE 0
             /\ buf' = Append(buf, Seen(part, disturbed))
      BY <1>2 DEF Capture
  <2> DEFINE seen == Seen(part, disturbed)
  <2>2. n \in Nat /\ Len(air) \in Nat /\ n < Len(air) /\ part.usec < timeout
      BY <1>2 DEF Capture, Arriving, Inv, Recorded
  <2>3. n + 1 \in 1 .. Len(air)
      BY <2>2
  <2>4. part \in Part
      BY <2>3 DEF Inv, Recorded
  <2>5. /\ timeout \in Nat /\ timeout <= 130000
        /\ Jitter \in Nat /\ Jitter <= 300
    <3>1. 1000 * kMaxTimeoutMs = 130000
        BY DEF kMaxTimeoutMs, kRawTick, UINT16_MAX
    <3>2. timeout \in Timeouts
        BY DEF Inv, TypeOK
    <3>3. timeout \in 0 .. (1000 * kMaxTimeoutMs)
        BY <3>2, CodecAssumption
    <3>4. \A limit : timeout \in 0 .. limit => timeout \in Nat /\ timeout <= limit
        OBVIOUS
    <3>5. timeout \in Nat /\ timeout <= 1000 * kMaxTimeoutMs
        BY <3>3, <3>4
    <3> QED
        BY <3>1, <3>5, CodecAssumption
  <2>6. seen \in 1 .. UINT16_MAX /\ kRawTick * seen < timeout + Jitter
    <3>1. part.usec \in Nat /\ part.usec >= 320
        BY <2>4 DEF Part, Times
    <3> DEFINE t == IF ~disturbed THEN part.usec
                    ELSE IF part.on THEN part.usec + Jitter ELSE part.usec - Jitter
    <3>2. t \in Int /\ t >= 2 /\ t < timeout + Jitter
        BY <2>2, <2>5, <3>1
    <3>3. seen = t \div 2
        BY DEF Seen, kRawTick
    <3> DEFINE last == timeout + Jitter
    <3>4. last \in Int /\ last <= 130300
        BY <2>5
    <3> HIDE DEF t, seen, last
    <3>5. t \in Int /\ t >= 2 /\ t < last
        BY <3>2 DEF last
    <3>6. seen \in Nat /\ 1 <= seen /\ seen <= 65535 /\ 2 * seen < last
        BY <3>3, <3>4, <3>5, TicksBounds
    <3>7. UINT16_MAX = 65535 /\ kRawTick = 2
        BY DEF UINT16_MAX, kRawTick
    <3>8. seen \in 1 .. UINT16_MAX
      <4>1. \A limit \in Int : seen <= limit => seen \in 1 .. limit
          BY <3>6
      <4>2. UINT16_MAX \in Int /\ seen <= UINT16_MAX
          BY <3>6, <3>7
      <4> QED
          BY <4>1, <4>2
    <3>9. kRawTick * seen < last
        BY <3>6, <3>7, SMTT(20)
    <3> QED
        BY <3>8, <3>9, Zenon DEF last
  <2> HIDE DEF seen, part
  <2>7. buf \in Seq(Nat) /\ seen \in Nat /\ buf' = Append(buf, seen)
    <3>1. seen \in Nat
        BY <2>6
    <3>2. buf' = Append(buf, seen)
        BY <2>1 DEF seen, part
    <3> QED
        BY <3>1, <3>2 DEF Inv, Recorded
  <2>8. buf' \in Seq(Nat) /\ Len(buf') = n + 1 /\ DOMAIN buf' = 1 .. n + 1
      BY <2>7
  <2>9. \A k \in DOMAIN buf' :
             buf'[k] \in 1 .. UINT16_MAX /\ kRawTick * buf'[k] < timeout + Jitter
    <3> SUFFICES ASSUME NEW k \in 1 .. n + 1
                 PROVE  buf'[k] \in 1 .. UINT16_MAX /\ kRawTick * buf'[k] < timeout + Jitter
        BY <2>8
    <3>1. CASE k = n + 1
      <4>1. buf'[k] = seen
          BY <2>7, <3>1
      <4> QED
          BY <2>6, <4>1
    <3>2. CASE k # n + 1
      <4>1. k \in 1 .. n /\ k \in DOMAIN buf
          BY <2>2, <2>7, <3>2
      <4>2. buf'[k] = buf[k]
          BY <2>7, <4>1
      <4> QED
          BY <4>1, <4>2 DEF Inv, TypeOK
    <3> QED
        BY <3>1, <3>2
  <2>10. noisy' \in 0 .. MaxNoisy
      BY <2>1, CodecAssumption DEF Inv, TypeOK
  <2>11. Len(buf') <= Len(air')
      BY <1>2, <2>2, <2>8 DEF Capture
  <2>12. TypeOK'
    <3>1. UNCHANGED <<name, timeout, message, air, slow, cut, overflow, old, result, pc>>
        BY <1>2 DEF Capture
    <3> QED
        BY <2>9, <2>10, <2>11, <3>1 DEF Inv, TypeOK
  <2>13. Recorded'
      BY <1>2, <2>8 DEF Capture, Inv, Recorded
  <2> QED
      BY <2>12, <2>13 DEF Inv
<1>3. CASE Silence
  <2>1. TypeOK'
      BY <1>3 DEF Silence, Inv, TypeOK
  <2>2. Recorded'
      BY <1>3 DEF Silence, Inv, Recorded
  <2> QED
      BY <2>1, <2>2 DEF Inv
<1>4. CASE Fade
  <2>1. TypeOK'
      BY <1>4 DEF Fade, Inv, TypeOK
  <2>2. Recorded'
      BY <1>4 DEF Fade, Inv, Recorded
  <2> QED
      BY <2>1, <2>2 DEF Inv
<1>5. CASE Full
  <2>1. TypeOK'
      BY <1>5 DEF Full, Inv, TypeOK
  <2>2. Recorded'
      BY <1>5 DEF Full, Inv, Recorded
  <2> QED
      BY <2>1, <2>2 DEF Inv
<1>6. CASE Decode
  <2>1. result'.ok \in BOOLEAN
      BY <1>6, ResultType DEF Decode
  <2>2. TypeOK'
    <3>1. /\ name' = name /\ timeout' = timeout /\ message' = message
          /\ air' = air /\ buf' = buf /\ slow' = slow /\ noisy' = noisy
          /\ cut' = cut /\ overflow' = overflow /\ old' = old /\ pc' = "done"
        BY <1>6 DEF Decode
    <3>2. {slow, cut, overflow, old, result.ok} \subseteq BOOLEAN
        BY Zenon DEF Inv, TypeOK
    <3>3. slow \in BOOLEAN /\ cut \in BOOLEAN /\ overflow \in BOOLEAN /\ old \in BOOLEAN
        BY <3>2, Zenon
    <3>4. {slow', cut', overflow', old', result'.ok} \subseteq BOOLEAN
        BY <2>1, <3>1, <3>3, Zenon
    <3>5. /\ name' \in Names /\ timeout' \in Timeouts
          /\ message' \in Messages(Protocol(name'))
          /\ Len(buf') <= Len(air') /\ noisy' \in 0 .. MaxNoisy
          /\ overflow' => cut'
        BY <3>1, Zenon DEF Inv, TypeOK
    <3>6. \A k \in DOMAIN buf' :
             buf'[k] \in 1 .. UINT16_MAX /\ kRawTick * buf'[k] < timeout' + Jitter
        BY <3>1 DEF Inv, TypeOK
    <3> QED
        BY <3>1, <3>4, <3>5, <3>6 DEF TypeOK
  <2>3. Recorded'
      BY <1>6 DEF Decode, Inv, Recorded
  <2> QED
      BY <2>2, <2>3 DEF Inv
<1>7. CASE UNCHANGED vars
    BY <1>7 DEF vars, Inv, TypeOK, Recorded
<1> QED
    BY <1>1, <1>2, <1>3, <1>4, <1>5, <1>6, <1>7 DEF Next

(* For all protocols, widths of a word, timeouts a receiver can have and   *)
(* errors of its sensor: nothing is recorded that is longer than the       *)
(* timeout or does not fit an entry of rawbuf, and no more intervals than  *)
(* were sent.                                                              *)
THEOREM TypeCorrect == Spec => []TypeOK
<1>1. Inv => TypeOK
    BY DEF Inv
<1> QED
    BY <1>1, InvInit, InvStep, PTL DEF Spec

(* What the last capture has left in rawbuf behind the present one is not  *)
(* looked at, whatever the message, the error, and the interval with which *)
(* the capture has ended: the lengths that the match functions ask for     *)
(* cover all that they read.  Only the footer of a Manchester message may  *)
(* lie behind a capture that has filled rawbuf.                            *)
LEMMA StaleStep == Inv => StaleUnread
<1> SUFFICES ASSUME Inv, ~(Manchester /\ overflow) PROVE Decoded(TRUE) = Decoded(FALSE)
    BY DEF StaleUnread
<1> DEFINE b == Cells(TRUE)
           c == Cells(FALSE)
           end == Len(buf)
           p == proto
<1>1. end \in Nat /\ end <= Len(air) /\ Len(air) \in Nat
    BY DEF Inv, Recorded, TypeOK
<1>2. Same(b, c, end)
    BY <1>1 DEF Same, Cells
<1>3. p.coding = "manchester" => b[end] = c[end]
  <2> SUFFICES ASSUME p.coding = "manchester" PROVE b[end] = c[end]
      OBVIOUS
  <2>1. ~overflow
      BY DEF Manchester
  <2> QED
      BY <1>1, <2>1 DEF Cells
<1>4. Fits(p)
    BY ProtoSuits DEF Inv, TypeOK, Suits
<1> HIDE DEF b, c, end, p
<1>5. matchMessage(b, end, p) = matchMessage(c, end, p) /\ IsMatch(matchMessage(b, end, p))
    BY <1>1, <1>2, <1>3, <1>4, MessageAgrees, Zenon
<1> QED
    BY <1>5 DEF Decoded, b, c, end, p

THEOREM StaleNeverRead == Spec => []StaleUnread
BY InvInit, InvStep, StaleStep, PTL DEF Spec

-----------------------------------------------------------------------------
(* What a protocol sends whose bits are told by the lengths of their marks *)
(* and spaces, its decode function reads.                                  *)

-----------------------------------------------------------------------------
(* Sequences of equal length, one behind the other.                        *)
LEMMA Multiples ==
    ASSUME NEW w \in Nat
    PROVE  /\ 0 * w = 0
           /\ \A i \in Nat : i * w \in Nat /\ (i + 1) * w = i * w + w
           /\ \A i, j \in Nat : j <= i => j * w <= i * w
OBVIOUS

Behind(u, s, t) ==
    /\ Len(u) = Len(s) + Len(t)
    /\ \A k \in 1 .. Len(s) : u[k] = s[k]
    /\ \A k \in 1 .. Len(t) : u[Len(s) + k] = t[k]

LEMMA Parts ==
    ASSUME NEW S, NEW s \in Seq(S), NEW t \in Seq(S)
    PROVE  s \o t \in Seq(S) /\ Behind(s \o t, s, t)
BY DEF Behind

LEMMA TwoParts ==
    ASSUME NEW S, NEW a \in S, NEW b \in S PROVE <<a>> \o <<b>> = <<a, b>>
<1> DEFINE s == <<a>>
           t == <<b>>
           both == <<a, b>>
<1>1. /\ s \in Seq(S) /\ Len(s) = 1 /\ s[1] = a
      /\ t \in Seq(S) /\ Len(t) = 1 /\ t[1] = b
      /\ both \in Seq(S) /\ Len(both) = 2 /\ both[1] = a /\ both[2] = b
    OBVIOUS
<1> HIDE DEF s, t, both
<1>2. s \o t \in Seq(S) /\ Len(s \o t) = 2 /\ (s \o t)[1] = a /\ (s \o t)[2] = b
  <2>0. s \in Seq(S) /\ t \in Seq(S)
      BY <1>1
  <2>1. s \o t \in Seq(S) /\ Behind(s \o t, s, t)
      BY <2>0, Parts, Zenon
  <2>2. 1 \in 1 .. Len(s) /\ 1 \in 1 .. Len(t) /\ Len(s) + 1 = 2
      BY <1>1
  <2> QED
      BY <1>1, <2>1, <2>2 DEF Behind
<1> DEFINE u == s \o t
<1>3. u = both
  <2> HIDE DEF u
  <2>1. \A k \in 1 .. 2 : u[k] = both[k]
      BY <1>1, <1>2 DEF u
  <2> QED
      BY <1>1, <1>2, <2>1 DEF u
<1> QED
    BY <1>3 DEF s, t, both

LEMMA Parity ==
    ASSUME NEW i \in Nat
    PROVE  /\ i % 2 \in {0, 1} /\ (i % 2 = 1 <=> ~((i + 1) % 2 = 1))
           /\ (2 * i) % 2 = 0 /\ (2 * i + 1) % 2 = 1
OBVIOUS

Equal(seqs, w) == \A i \in 1 .. Len(seqs) : Len(seqs[i]) = w
InBlocks(flat, seqs, w) ==
    /\ Len(flat) = Len(seqs) * w
    /\ \A i \in 1 .. Len(seqs), k \in 1 .. w : flat[(i - 1) * w + k] = seqs[i][k]

LEMMA FlattenBlocks ==
    ASSUME NEW S, NEW w \in Nat, NEW seqs \in Seq(Seq(S)), Equal(seqs, w)
    PROVE  FlattenSeq(seqs) \in Seq(S) /\ InBlocks(FlattenSeq(seqs), seqs, w)
<1> DEFINE n == Len(seqs)
           at(i) == i * w
<1>0. /\ at(0) = 0
      /\ \A i \in Nat : at(i) \in Nat /\ at(i + 1) = at(i) + w
      /\ \A i, j \in Nat : j <= i => at(j) <= at(i)
    BY Multiples
<1>1. n \in Nat /\ \A i \in 1 .. n : seqs[i] \in Seq(S) /\ Len(seqs[i]) = w
    BY DEF Equal
<1>2. PICK f \in [0 .. n -> Seq(S)] :
         /\ f[0] = <<>> /\ f[n] = FlattenSeq(seqs)
         /\ \A i \in 1 .. n : f[i] = f[i - 1] \o seqs[i]
    BY FlattenSteps
<1> HIDE DEF n, at
<1> DEFINE Blocks(i) == /\ Len(f[i]) = at(i)
                        /\ \A j \in 1 .. i, k \in 1 .. w : f[i][at(j - 1) + k] = seqs[j][k]
           T == {i \in 0 .. n : Blocks(i)}
<1>3. 0 \in T
    BY <1>0, <1>1, <1>2
<1>4. ASSUME NEW i \in 0 .. n - 1, i \in T PROVE i + 1 \in T
  <2>1. i \in Nat /\ i \in 0 .. n /\ i + 1 \in 1 .. n /\ i + 1 \in 0 .. n /\ (i + 1) - 1 = i
      BY <1>1
  <2>2. f[i] \in Seq(S) /\ seqs[i + 1] \in Seq(S) /\ Len(seqs[i + 1]) = w
      BY <1>1, <1>2, <2>1
  <2>3. f[i + 1] = f[i] \o seqs[i + 1]
      BY <1>2, <2>1
  <2>4. Blocks(i)
      BY <1>4
  <2>5. at(i + 1) = at(i) + w /\ at(i) \in Nat
      BY <1>0, <2>1
  <2> HIDE DEF T
  <2>6. /\ Len(f[i + 1]) = at(i) + w
        /\ \A k \in 1 .. at(i) : f[i + 1][k] = f[i][k]
        /\ \A k \in 1 .. w : f[i + 1][at(i) + k] = seqs[i + 1][k]
    <3>1. Len(f[i]) = at(i)
        BY <2>4
    <3> DEFINE u == f[i]
               v == seqs[i + 1]
    <3>2. u \in Seq(S) /\ v \in Seq(S)
        BY <2>2
    <3> HIDE DEF Blocks, u, v
    <3>3. u \o v \in Seq(S) /\ Behind(u \o v, u, v)
        BY <3>2, Parts, Zenon
    <3> QED
        BY <2>2, <2>3, <3>1, <3>3 DEF u, v, Behind
  <2>7. Len(f[i + 1]) = at(i + 1)
      BY <2>5, <2>6
  <2>8. ASSUME NEW j \in 1 .. i + 1, NEW k \in 1 .. w
        PROVE  f[i + 1][at(j - 1) + k] = seqs[j][k]
    <3>1. CASE j \in 1 .. i
      <4>1. j - 1 \in Nat /\ j \in Nat /\ j <= i /\ (j - 1) + 1 = j
          BY <2>1, <3>1
      <4>2. at(j) = at(j - 1) + w /\ at(j - 1) \in Nat
          BY <1>0, <4>1
      <4>3. at(j) <= at(i) /\ at(j) \in Nat
          BY <2>1, <1>0, <4>1
      <4>4. at(j - 1) + k \in 1 .. at(i)
          BY <2>5, <4>2, <4>3
      <4>5. f[i + 1][at(j - 1) + k] = f[i][at(j - 1) + k]
          BY <2>6, <4>4
      <4> QED
          BY <2>4, <3>1, <4>5
    <3>2. CASE j = i + 1
      <4>1. at(j - 1) + k = at(i) + k
          BY <2>1, <3>2
      <4>2. f[i + 1][at(i) + k] = seqs[i + 1][k]
          BY <2>6
      <4> QED
          BY <3>2, <4>1, <4>2
    <3> QED
        BY <2>1, <3>1, <3>2
  <2>9. Blocks(i + 1)
      BY <2>7, <2>8
  <2> HIDE DEF Blocks
  <2> QED
      BY <2>1, <2>9 DEF T
<1>5. n \in T
  <2> HIDE DEF T
  <2>1. 0 .. n \subseteq T
      BY <1>1, <1>3, <1>4, UpTo
  <2> QED
      BY <1>1, <2>1
<1>6. f[n] \in Seq(S) /\ Blocks(n)
  <2>1. n \in 0 .. n
      BY <1>1
  <2> QED
      BY <1>2, <1>5, <2>1
<1> QED
    BY <1>2, <1>6 DEF n, at, InBlocks

-----------------------------------------------------------------------------
(* Light and dark in turn are the intervals themselves.                    *)
Alternates(s) == \A k \in 1 .. Len(s) : s[k].on <=> k % 2 = 1

Whole(s) == Alternates(s) /\ Len(s) % 2 = 0

LEMMA WholeEmpty == <<>> \in Seq(Part) /\ Len(<<>>) = 0 /\ Whole(<<>>)
<1>1. <<>> \in Seq(Part) /\ Len(<<>>) = 0
    OBVIOUS
<1> QED
    BY <1>1 DEF Whole, Alternates

LEMMA AlternatesJoined ==
    ASSUME NEW s \in Seq(Part), NEW t \in Seq(Part), Whole(s), Alternates(t)
    PROVE  Alternates(s \o t)
<1> SUFFICES ASSUME NEW k \in 1 .. Len(s \o t) PROVE (s \o t)[k].on <=> k % 2 = 1
    BY DEF Alternates
<1>1. Len(s \o t) = Len(s) + Len(t) /\ Len(s) \in Nat /\ Len(t) \in Nat
    OBVIOUS
<1>2. CASE k \in 1 .. Len(s)
    BY <1>2 DEF Alternates, Whole
<1>3. CASE k \notin 1 .. Len(s)
  <2> DEFINE j == k - Len(s)
  <2>1. j \in 1 .. Len(t) /\ j % 2 = k % 2 /\ (s \o t)[k] = t[j]
      BY <1>1, <1>3 DEF Whole
  <2> QED
      BY <2>1 DEF Alternates
<1> QED
    BY <1>2, <1>3

LEMMA WholeJoined ==
    ASSUME NEW s \in Seq(Part), NEW t \in Seq(Part), Whole(s), Whole(t)
    PROVE  Whole(s \o t)
<1>1. Alternates(s \o t)
    BY AlternatesJoined DEF Whole
<1>2. Len(s \o t) = Len(s) + Len(t) /\ Len(s) \in Nat /\ Len(t) \in Nat
    OBVIOUS
<1>3. Len(s) % 2 = 0 /\ Len(t) % 2 = 0
    BY DEF Whole
<1>4. Len(s \o t) % 2 = 0
    BY <1>2, <1>3
<1> QED
    BY <1>1, <1>4 DEF Whole

LEMMA IntervalsAlternate ==
    ASSUME NEW light \in Seq(Part), Alternates(light)
    PROVE  Intervals(light) = light
<1> DEFINE n == Len(light)
<1>1. n \in Nat /\ \A i \in 1 .. n : light[i] \in Part
    OBVIOUS
<1>2. PICK f \in [0 .. n -> Seq(Part)] :
         /\ f[0] = <<>> /\ f[n] = Intervals(light)
         /\ \A i \in 1 .. n : f[i] = Heard(f[i - 1], light[i])
    BY IntervalsSteps
<1> DEFINE T == {i \in 0 .. n : Len(f[i]) = i /\ \A k \in 1 .. i : f[i][k] = light[k]}
<1>3. 0 \in T
    BY <1>1, <1>2
<1>4. ASSUME NEW i \in 0 .. n - 1, i \in T PROVE i + 1 \in T
  <2>1. i \in 0 .. n /\ i + 1 \in 1 .. n /\ (i + 1) - 1 = i
      BY <1>1
  <2>2. f[i] \in Seq(Part) /\ Len(f[i]) = i /\ \A k \in 1 .. i : f[i][k] = light[k]
      BY <1>2, <1>4, <2>1
  <2>3. f[i + 1] = Heard(f[i], light[i + 1])
      BY <1>2, <2>1
  <2>4. f[i + 1] = Append(f[i], light[i + 1])
    <3>1. CASE i = 0
      <4>1. light[i + 1].on
          BY <2>1, <3>1 DEF Alternates
      <4>2. f[i] = <<>>
          BY <2>2, <3>1
      <4>3. Append(<<>>, light[i + 1]) = <<light[i + 1]>>
          OBVIOUS
      <4> QED
          BY <2>3, <4>1, <4>2, <4>3 DEF Heard
    <3>2. CASE i # 0
      <4>1. Last(f[i]) = light[i] /\ f[i] # <<>>
          BY <2>1, <2>2, <3>2 DEF Last
      <4>2. light[i].on # light[i + 1].on
        <5>1. /\ light[i].on <=> i % 2 = 1
              /\ light[i + 1].on <=> (i + 1) % 2 = 1
            BY <2>1, <3>2 DEF Alternates
        <5>2. i % 2 = 1 <=> ~((i + 1) % 2 = 1)
            BY <2>1, Parity
        <5> QED
            BY <5>1, <5>2
      <4> QED
          BY <2>3, <4>1, <4>2 DEF Heard
    <3> QED
        BY <3>1, <3>2
  <2>5. light[i + 1] \in Part
      BY <1>1, <2>1
  <2>6. Len(f[i + 1]) = i + 1 /\ f[i + 1][i + 1] = light[i + 1]
        /\ \A k \in 1 .. i : f[i + 1][k] = f[i][k]
      BY <2>2, <2>4, <2>5
  <2>7. ASSUME NEW k \in 1 .. i + 1 PROVE f[i + 1][k] = light[k]
    <3>1. k \in 1 .. i \/ k = i + 1
        BY <2>1
    <3> QED
        BY <2>2, <2>6, <3>1
  <2>8. i + 1 \in 0 .. n
      BY <2>1
  <2> QED
      BY <2>6, <2>7, <2>8
<1>5. n \in T
  <2> HIDE DEF T
  <2>1. 0 .. n \subseteq T
      BY <1>1, <1>3, <1>4, UpTo
  <2> QED
      BY <1>1, <2>1
<1> QED
    BY <1>1, <1>2, <1>5

(* What follows does not change what has been heard before.                *)
LEMMA IntervalsPrefix ==
    ASSUME NEW s \in Seq(Part), NEW t \in Seq(Part)
    PROVE  \E f \in [0 .. Len(t) -> Seq(Part)] :
             /\ f[0] = Intervals(s) /\ f[Len(t)] = Intervals(s \o t)
             /\ \A i \in 1 .. Len(t) : f[i] = Heard(f[i - 1], t[i])
<1> DEFINE m == Len(s)
           n == Len(t)
           st == s \o t
<1>1. /\ m \in Nat /\ n \in Nat /\ st \in Seq(Part) /\ Len(st) = m + n
      /\ \A i \in 1 .. m : st[i] = s[i]
      /\ \A i \in 1 .. n : st[m + i] = t[i]
    OBVIOUS
<1>2. PICK g \in [0 .. m -> Seq(Part)] :
         /\ g[0] = <<>> /\ g[m] = Intervals(s)
         /\ \A i \in 1 .. m : g[i] = Heard(g[i - 1], s[i])
    BY IntervalsSteps
<1> HIDE DEF m, n, st
<1>3. PICK h \in [0 .. Len(st) -> Seq(Part)] :
         /\ h[0] = <<>> /\ h[Len(st)] = Intervals(st)
         /\ \A i \in 1 .. Len(st) : h[i] = Heard(h[i - 1], st[i])
    BY <1>1, IntervalsSteps
<1> DEFINE T == {i \in 0 .. m : h[i] = g[i]}
<1>4. 0 \in T
    BY <1>1, <1>2, <1>3
<1>5. ASSUME NEW i \in 0 .. m - 1, i \in T PROVE i + 1 \in T
  <2>1. i + 1 \in 1 .. m /\ i + 1 \in 0 .. m /\ i + 1 \in 1 .. Len(st) /\ (i + 1) - 1 = i
    <3>1. m \in Nat /\ n \in Nat /\ Len(st) = m + n
        BY <1>1
    <3> QED
        BY <3>1
  <2>2. h[i + 1] = Heard(h[i], s[i + 1]) /\ g[i + 1] = Heard(g[i], s[i + 1])
      BY <1>1, <1>2, <1>3, <2>1
  <2> QED
      BY <1>5, <2>1, <2>2
<1>6. h[m] = Intervals(s)
  <2> HIDE DEF T
  <2>1. 0 .. m \subseteq T
      BY <1>1, <1>4, <1>5, UpTo
  <2>2. m \in T
      BY <1>1, <2>1
  <2> QED
      BY <1>2, <2>2 DEF T
<1> DEFINE f == [i \in 0 .. n |-> h[m + i]]
<1>7. f \in [0 .. n -> Seq(Part)]
    BY <1>1, <1>3
<1>8. f[0] = Intervals(s) /\ f[n] = Intervals(st)
    BY <1>1, <1>3, <1>6
<1>9. ASSUME NEW i \in 1 .. n PROVE f[i] = Heard(f[i - 1], t[i])
  <2>1. m + i \in 1 .. Len(st) /\ i - 1 \in 0 .. n /\ i \in 0 .. n /\ (m + i) - 1 = m + (i - 1)
      BY <1>1
  <2>2. h[m + i] = Heard(h[m + (i - 1)], st[m + i])
      BY <1>3, <2>1
  <2> QED
      BY <1>1, <2>1, <2>2
<1> HIDE DEF f
<1> QED
    BY <1>7, <1>8, <1>9 DEF n, st

LEMMA IntervalsBehind ==
    ASSUME NEW s \in Seq(Part), NEW x \in Part
    PROVE  Intervals(s \o <<x>>) = Heard(Intervals(s), x)
<1>1. <<x>> \in Seq(Part) /\ Len(<<x>>) = 1 /\ <<x>>[1] = x
    OBVIOUS
<1>2. PICK f \in [0 .. Len(<<x>>) -> Seq(Part)] :
         /\ f[0] = Intervals(s) /\ f[Len(<<x>>)] = Intervals(s \o <<x>>)
         /\ \A i \in 1 .. Len(<<x>>) : f[i] = Heard(f[i - 1], <<x>>[i])
    BY <1>1, IntervalsPrefix
<1> QED
    BY <1>1, <1>2

LEMMA IntervalsContinue ==
    ASSUME NEW s \in Seq(Part), NEW t \in Seq(Part),
           t # <<>> => t[1].on,
           Intervals(s) # <<>>, ~Last(Intervals(s)).on
    PROVE  /\ Len(Intervals(s \o t)) >= Len(Intervals(s))
           /\ \A k \in 1 .. Len(Intervals(s)) : Intervals(s \o t)[k] = Intervals(s)[k]
<1> DEFINE n == Len(t)
           r == Intervals(s)
           m == Len(r)
<1>1. n \in Nat /\ (\A i \in 1 .. n : t[i] \in Part) /\ (n # 0 => t[1].on)
    OBVIOUS
<1>2. PICK f \in [0 .. n -> Seq(Part)] :
         /\ f[0] = r /\ f[n] = Intervals(s \o t)
         /\ \A i \in 1 .. n : f[i] = Heard(f[i - 1], t[i])
    BY IntervalsPrefix
<1>3. r \in Seq(Part) /\ r # <<>> /\ ~Last(r).on /\ m \in Nat
    BY IntervalsType
<1> HIDE DEF n, r
<1> DEFINE Kept(i) == /\ Len(f[i]) >= m /\ (i # 0 => Len(f[i]) > m)
                      /\ \A k \in 1 .. m : f[i][k] = r[k]
           T == {i \in 0 .. n : Kept(i)}
<1>4. 0 \in T
    BY <1>1, <1>2, <1>3
<1>5. ASSUME NEW i \in 0 .. n - 1, i \in T PROVE i + 1 \in T
  <2>1. i \in 0 .. n /\ i + 1 \in 1 .. n /\ i + 1 \in 0 .. n /\ (i + 1) - 1 = i
      BY <1>1
  <2> DEFINE q == f[i]
             x == t[i + 1]
  <2>2. q \in Seq(Part) /\ x \in Part /\ f[i + 1] = Heard(q, x)
      BY <1>1, <1>2, <2>1
  <2>3. Kept(i)
      BY <1>5
  <2>4. CASE i = 0
    <3>1. q = r /\ x.on
        BY <1>1, <1>2, <2>1, <2>4
    <3>2. f[i + 1] = Append(r, x)
        BY <1>3, <2>2, <3>1 DEF Heard
    <3>3. Len(f[i + 1]) = m + 1 /\ \A k \in 1 .. m : f[i + 1][k] = r[k]
        BY <1>3, <3>2
    <3>4. Kept(i + 1)
        BY <1>3, <3>3
    <3> HIDE DEF Kept
    <3> QED
        BY <2>1, <3>4
  <2>5. CASE i # 0
    <3>1. Len(q) > m /\ \A k \in 1 .. m : q[k] = r[k]
        BY <2>3, <2>5
    <3>2. Len(q) \in Nat /\ q # <<>>
        BY <1>3, <2>2, <3>1
    <3> HIDE DEF q, x
    <3>3. CASE Last(q).on = x.on
      <4> DEFINE e == [q[Len(q)] EXCEPT !.usec = @ + x.usec]
      <4>1. f[i + 1] = [q EXCEPT ![Len(q)] = e]
          BY <2>2, <3>2, <3>3 DEF Heard
      <4> HIDE DEF e
      <4>2. Len(f[i + 1]) = Len(q) /\ \A k \in 1 .. m : f[i + 1][k] = q[k]
          BY <1>3, <2>2, <3>1, <3>2, <4>1
      <4> QED
          BY <1>3, <2>1, <3>1, <4>2
    <3>4. CASE Last(q).on # x.on
      <4>1. f[i + 1] = Append(q, x)
          BY <2>2, <3>2, <3>4 DEF Heard
      <4>2. Len(f[i + 1]) = Len(q) + 1 /\ \A k \in 1 .. m : f[i + 1][k] = q[k]
          BY <1>3, <2>2, <3>1, <3>2, <4>1
      <4> QED
          BY <1>3, <2>1, <3>1, <3>2, <4>2
    <3> QED
        BY <3>3, <3>4
  <2> QED
      BY <2>4, <2>5
<1>6. n \in T
  <2> HIDE DEF T
  <2>1. 0 .. n \subseteq T
      BY <1>1, <1>4, <1>5, UpTo
  <2> QED
      BY <1>1, <2>1
<1> QED
    BY <1>2, <1>6 DEF r

-----------------------------------------------------------------------------
(* A word on the air.                                                      *)
MarkOf(p, bit) == IF bit = 1 THEN p.onemark ELSE p.zeromark
SpaceOf(p, bit) == IF bit = 1 THEN p.onespace ELSE p.zerospace
Lit(t) == [on |-> TRUE, usec |-> t]
Dark(t) == [on |-> FALSE, usec |-> t]

LEMMA OrderType ==
    ASSUME NEW p, NEW n \in Nat, NEW word \in [1 .. n -> Bit]
    PROVE  /\ InOrder(p, word) \in [1 .. n -> Bit] /\ Len(word) = n
           /\ p.msb => InOrder(p, word) = word
           /\ ~p.msb => InOrder(p, word) = [i \in 1 .. n |-> word[n + 1 - i]]
<1>1. Len(word) = n
    OBVIOUS
<1>2. Reverse(word) = [i \in 1 .. n |-> word[(n - i) + 1]]
    BY <1>1 DEF Reverse
<1>3. Reverse(word) = [i \in 1 .. n |-> word[n + 1 - i]]
    BY <1>2
<1>4. Reverse(word) \in [1 .. n -> Bit]
    BY <1>3
<1> QED
    BY <1>1, <1>3, <1>4 DEF InOrder

LEMMA PartType ==
    ASSUME NEW t \in Times
    PROVE  /\ Lit(t) \in Part /\ Dark(t) \in Part
           /\ mark(t) = <<Lit(t)>> /\ space(t) = <<Dark(t)>> /\ optmark(t) = <<Lit(t)>>
           /\ mark(t) \in Seq(Part) /\ space(t) \in Seq(Part)
<1>1. t # 0
    BY DEF Times
<1>2. Lit(t) \in Part /\ Dark(t) \in Part
    BY DEF Lit, Dark, Part
<1>3. mark(t) \in Seq(Part) /\ space(t) \in Seq(Part)
    BY LightType
<1>4. mark(t) = <<Lit(t)>> /\ space(t) = <<Dark(t)>> /\ optmark(t) = <<Lit(t)>>
    BY <1>1 DEF mark, space, optmark, Lit, Dark
<1> QED
    BY <1>2, <1>3, <1>4

LEMMA WordOnAir ==
    ASSUME NEW p, Timed(p), p.coding # "manchester",
           NEW n \in Nat, NEW word \in [1 .. n -> Bit]
    PROVE  LET light == sendData(p, word)
               bit == InOrder(p, word)
           IN  /\ light \in Seq(Part) /\ Len(light) = 2 * n
               /\ \A i \in 1 .. n : /\ light[2 * i - 1] = Lit(MarkOf(p, bit[i]))
                                    /\ light[2 * i] = Dark(SpaceOf(p, bit[i]))
<1> DEFINE bit == InOrder(p, word)
           pair(i) == <<Lit(MarkOf(p, bit[i])), Dark(SpaceOf(p, bit[i]))>>
           seqs == [i \in 1 .. n |-> pair(i)]
<1>1. bit \in [1 .. n -> Bit] /\ Len(word) = n
    BY OrderType
<1>2. {p.onemark, p.onespace, p.zeromark, p.zerospace} \subseteq Times
    BY DEF Timed
<1>3. ASSUME NEW i \in 1 .. n
      PROVE  /\ pair(i) = IF bit[i] = 1 THEN mark(p.onemark) \o space(p.onespace)
                                        ELSE mark(p.zeromark) \o space(p.zerospace)
             /\ pair(i) \in Seq(Part) /\ Len(pair(i)) = 2
  <2>1. \A a, b \in Part : <<a>> \o <<b>> = <<a, b>>
      BY TwoParts
  <2>7. /\ Lit(p.onemark) \in Part /\ Dark(p.onespace) \in Part
        /\ Lit(p.zeromark) \in Part /\ Dark(p.zerospace) \in Part
      BY <1>2, PartType
  <2>2. /\ mark(p.onemark) = <<Lit(p.onemark)>> /\ space(p.onespace) = <<Dark(p.onespace)>>
        /\ mark(p.zeromark) = <<Lit(p.zeromark)>> /\ space(p.zerospace) = <<Dark(p.zerospace)>>
      BY <1>2, PartType
  <2>3. MarkOf(p, bit[i]) \in Times /\ SpaceOf(p, bit[i]) \in Times
      BY <1>2 DEF MarkOf, SpaceOf
  <2>4. Lit(MarkOf(p, bit[i])) \in Part /\ Dark(SpaceOf(p, bit[i])) \in Part
      BY <2>3, PartType
  <2>5. pair(i) \in Seq(Part) /\ Len(pair(i)) = 2
      BY <2>4
  <2>6. pair(i) = IF bit[i] = 1 THEN mark(p.onemark) \o space(p.onespace)
                                ELSE mark(p.zeromark) \o space(p.zerospace)
      BY <2>1, <2>2, <2>7 DEF MarkOf, SpaceOf
  <2> QED
      BY <2>5, <2>6
<1>4. sendData(p, word) = FlattenSeq(seqs)
  <2>1. [i \in 1 .. n |-> IF bit[i] = 1 THEN mark(p.onemark) \o space(p.onespace)
                                        ELSE mark(p.zeromark) \o space(p.zerospace)] = seqs
    <3> HIDE DEF pair, bit
    <3> QED
        BY <1>3
  <2> QED
      BY <1>1, <2>1 DEF sendData
<1> HIDE DEF pair, bit
<1>5. seqs \in Seq(Seq(Part)) /\ Len(seqs) = n /\ \A i \in 1 .. n : seqs[i] = pair(i)
    BY <1>3
<1> HIDE DEF seqs
<1> DEFINE light == FlattenSeq(seqs)
<1> DEFINE w == 2
<1>6. w \in Nat /\ Equal(seqs, w)
    BY <1>3, <1>5 DEF Equal
<1> HIDE DEF w
<1>7. light \in Seq(Part) /\ InBlocks(light, seqs, w)
    BY <1>5, <1>6, FlattenBlocks, Zenon DEF light
<1> HIDE DEF light
<1>8. ASSUME NEW i \in 1 .. n
      PROVE  /\ light[2 * i - 1] = Lit(MarkOf(p, bit[i]))
             /\ light[2 * i] = Dark(SpaceOf(p, bit[i]))
  <2>1. (i - 1) * w + 1 = 2 * i - 1 /\ (i - 1) * w + 2 = 2 * i /\ 1 \in 1 .. w /\ 2 \in 1 .. w
      BY DEF w
  <2>2. /\ light[(i - 1) * w + 1] = seqs[i][1]
        /\ light[(i - 1) * w + 2] = seqs[i][2]
      BY <1>5, <1>7, <2>1 DEF InBlocks
  <2>3. seqs[i] = pair(i)
      BY <1>5
  <2> QED
      BY <2>1, <2>2, <2>3 DEF pair
<1>9. Len(light) = 2 * n
    BY <1>5, <1>7 DEF w, InBlocks
<1> QED
    BY <1>4, <1>7, <1>8, <1>9 DEF light, bit

LEMMA HalfOf ==
    ASSUME NEW n \in Nat, NEW k \in 1 .. 2 * n
    PROVE  \E i \in 1 .. n : \/ k = 2 * i - 1 /\ k % 2 = 1
                             \/ k = 2 * i /\ k % 2 = 0
<1>1. CASE k % 2 = 1
  <2>1. (k + 1) \div 2 \in 1 .. n /\ k = 2 * ((k + 1) \div 2) - 1
      BY <1>1
  <2> QED
      BY <1>1, <2>1
<1>2. CASE k % 2 # 1
  <2>1. k \div 2 \in 1 .. n /\ k = 2 * (k \div 2) /\ k % 2 = 0
      BY <1>2
  <2> QED
      BY <2>1
<1> QED
    BY <1>1, <1>2

LEMMA WordWhole ==
    ASSUME NEW p, Timed(p), p.coding # "manchester",
           NEW n \in Nat, NEW word \in [1 .. n -> Bit]
    PROVE  Whole(sendData(p, word))
<1> DEFINE light == sendData(p, word)
           bit == InOrder(p, word)
<1>1. /\ light \in Seq(Part) /\ Len(light) = 2 * n
      /\ \A i \in 1 .. n : /\ light[2 * i - 1] = Lit(MarkOf(p, bit[i]))
                           /\ light[2 * i] = Dark(SpaceOf(p, bit[i]))
    BY WordOnAir
<1> HIDE DEF light, bit
<1>2. ASSUME NEW k \in 1 .. Len(light) PROVE light[k].on <=> k % 2 = 1
  <2>1. k \in 1 .. 2 * n
      BY <1>1
  <2>2. PICK i \in 1 .. n : \/ k = 2 * i - 1 /\ k % 2 = 1
                            \/ k = 2 * i /\ k % 2 = 0
      BY <2>1, HalfOf
  <2>3. CASE k = 2 * i - 1 /\ k % 2 = 1
    <3>1. light[k] = Lit(MarkOf(p, bit[i]))
        BY <1>1, <2>3
    <3> QED
        BY <2>3, <3>1 DEF Lit
  <2>4. CASE k = 2 * i /\ k % 2 = 0
    <3>1. light[k] = Dark(SpaceOf(p, bit[i]))
        BY <1>1, <2>4
    <3> QED
        BY <2>4, <3>1 DEF Dark
  <2> QED
      BY <2>2, <2>3, <2>4
<1>3. Len(light) % 2 = 0
    BY <1>1, Parity
<1> QED
    BY <1>2, <1>3 DEF Alternates, Whole, light

LEMMA FlattenWhole ==
    ASSUME NEW seqs \in Seq(Seq(Part)), \A i \in 1 .. Len(seqs) : Whole(seqs[i])
    PROVE  Whole(FlattenSeq(seqs))
<1> DEFINE n == Len(seqs)
<1>1. n \in Nat /\ \A i \in 1 .. n : seqs[i] \in Seq(Part) /\ Whole(seqs[i])
    OBVIOUS
<1>2. PICK f \in [0 .. n -> Seq(Part)] :
         /\ f[0] = <<>> /\ f[n] = FlattenSeq(seqs)
         /\ \A i \in 1 .. n : f[i] = f[i - 1] \o seqs[i]
    BY FlattenSteps
<1> HIDE DEF n
<1> DEFINE T == {i \in 0 .. n : Whole(f[i])}
<1>3. 0 \in T
    BY <1>1, <1>2, WholeEmpty
<1>4. ASSUME NEW i \in 0 .. n - 1, i \in T PROVE i + 1 \in T
  <2>1. i \in 0 .. n /\ i + 1 \in 1 .. n /\ i + 1 \in 0 .. n /\ (i + 1) - 1 = i
      BY <1>1
  <2> DEFINE u == f[i]
             v == seqs[i + 1]
  <2>2. /\ u \in Seq(Part) /\ v \in Seq(Part) /\ f[i + 1] = u \o v
        /\ Whole(u) /\ Whole(v)
      BY <1>1, <1>2, <1>4, <2>1
  <2> HIDE DEF u, v
  <2> QED
      BY <2>1, <2>2, WholeJoined
<1>5. n \in T
  <2> HIDE DEF T
  <2>1. 0 .. n \subseteq T
      BY <1>1, <1>3, <1>4, UpTo
  <2> QED
      BY <1>1, <2>1
<1> QED
    BY <1>2, <1>5

-----------------------------------------------------------------------------
(* A section on the air: what precedes its gap.                            *)
HeaderLen(p) == IF p.hdrmark = 0 THEN 0 ELSE 2
WordAt(p, i) == HeaderLen(p) + (i - 1) * (2 * p.width)
OnAir(light, k, p, bit) == light[k] = Lit(MarkOf(p, bit)) /\ light[k + 1] = Dark(SpaceOf(p, bit))

IsBody(body, p, words) ==
    /\ body \in Seq(Part) /\ Alternates(body)
    /\ Len(body) = WordAt(p, Len(words) + 1) + Entry(p.footermark)
    /\ p.hdrmark # 0 => body[1] = Lit(p.hdrmark) /\ body[2] = Dark(p.hdrspace)
    /\ \A i \in 1 .. Len(words), j \in 1 .. p.width :
         OnAir(body, WordAt(p, i) + 2 * j - 1, p, InOrder(p, words[i])[j])
    /\ p.footermark # 0 => body[Len(body)] = Lit(p.footermark)

(* A protocol whose bits are told by the lengths of their marks and spaces. *)
Pulsed(p) ==
    /\ Timed(p) /\ p.coding # "manchester" /\ p.width \in Nat
    /\ p.hdrmark = 0 <=> p.hdrspace = 0

LEMMA HeaderOnAir ==
    ASSUME NEW p, Pulsed(p)
    PROVE  LET head == optmark(p.hdrmark) \o space(p.hdrspace) IN
           /\ head \in Seq(Part) /\ Whole(head) /\ Len(head) = HeaderLen(p)
           /\ p.hdrmark # 0 => head[1] = Lit(p.hdrmark) /\ head[2] = Dark(p.hdrspace)
<1>1. p.hdrmark \in Times \cup {0} /\ p.hdrspace \in Times \cup {0} /\ (p.hdrmark = 0 <=> p.hdrspace = 0)
    BY DEF Pulsed, Timed
<1>2. CASE p.hdrmark = 0
  <2>1. optmark(p.hdrmark) = <<>> /\ space(p.hdrspace) = <<>>
      BY <1>1, <1>2 DEF optmark, space
  <2>2. <<>> \o <<>> = <<>>
      OBVIOUS
  <2>3. optmark(p.hdrmark) \o space(p.hdrspace) = <<>>
      BY <2>1, <2>2
  <2> QED
      BY <1>2, <2>3, WholeEmpty DEF HeaderLen
<1>3. CASE p.hdrmark # 0
  <2> DEFINE a == Lit(p.hdrmark)
             c == Dark(p.hdrspace)
             head == <<a, c>>
  <2>1. p.hdrmark \in Times /\ p.hdrspace \in Times
      BY <1>1, <1>3
  <2>2. a \in Part /\ c \in Part /\ optmark(p.hdrmark) = <<a>> /\ space(p.hdrspace) = <<c>>
      BY <2>1, PartType
  <2>3. a.on /\ ~c.on
      BY DEF Lit, Dark
  <2> HIDE DEF a, c
  <2>4. optmark(p.hdrmark) \o space(p.hdrspace) = head
      BY <2>2, TwoParts
  <2>5. head \in Seq(Part) /\ Len(head) = 2 /\ head[1] = a /\ head[2] = c
      BY <2>2
  <2> HIDE DEF head
  <2>6. Whole(head)
    <3>1. \A k \in 1 .. 2 : head[k].on <=> k % 2 = 1
        BY <2>3, <2>5
    <3> QED
        BY <2>5, <3>1 DEF Whole, Alternates
  <2> QED
      BY <1>3, <2>4, <2>5, <2>6 DEF HeaderLen, a, c
<1> QED
    BY <1>2, <1>3

LEMMA WordsOnAir ==
    ASSUME NEW p, Pulsed(p), NEW m \in Nat, NEW words \in [1 .. m -> [1 .. p.width -> Bit]]
    PROVE  LET flat == FlattenSeq([i \in 1 .. m |-> sendData(p, words[i])]) IN
           /\ flat \in Seq(Part) /\ Whole(flat) /\ Len(flat) = m * (2 * p.width)
           /\ \A i \in 1 .. m, j \in 1 .. p.width :
                OnAir(flat, (i - 1) * (2 * p.width) + 2 * j - 1, p, InOrder(p, words[i])[j])
<1> DEFINE n == p.width
           w == 2 * n
           seqs == [i \in 1 .. m |-> sendData(p, words[i])]
           flat == FlattenSeq(seqs)
<1>1. n \in Nat /\ w \in Nat /\ Timed(p) /\ p.coding # "manchester"
    BY DEF Pulsed
<1>2. ASSUME NEW i \in 1 .. m
      PROVE  /\ sendData(p, words[i]) \in Seq(Part) /\ Len(sendData(p, words[i])) = 2 * n
             /\ Whole(sendData(p, words[i]))
             /\ \A j \in 1 .. n :
                  /\ sendData(p, words[i])[2 * j - 1] = Lit(MarkOf(p, InOrder(p, words[i])[j]))
                  /\ sendData(p, words[i])[2 * j] = Dark(SpaceOf(p, InOrder(p, words[i])[j]))
  <2>1. words[i] \in [1 .. n -> Bit]
      OBVIOUS
  <2> HIDE DEF n
  <2> QED
      BY <1>1, <2>1, WordOnAir, WordWhole
<1>3. seqs \in Seq(Seq(Part)) /\ Len(seqs) = m
    BY <1>2
<1>4. Equal(seqs, w) /\ \A i \in 1 .. Len(seqs) : Whole(seqs[i])
    BY <1>2, <1>3 DEF Equal
<1>5. \A i \in 1 .. m : seqs[i] = sendData(p, words[i])
    OBVIOUS
<1> HIDE DEF seqs, n, w
<1>6. Whole(flat)
    BY <1>3, <1>4, FlattenWhole
<1>7. flat \in Seq(Part) /\ InBlocks(flat, seqs, w)
    BY <1>1, <1>3, <1>4, FlattenBlocks
<1>8. Len(flat) = m * w
    BY <1>3, <1>7 DEF InBlocks
<1> HIDE DEF flat
<1>9. ASSUME NEW i \in 1 .. m, NEW j \in 1 .. n
      PROVE  OnAir(flat, (i - 1) * w + 2 * j - 1, p, InOrder(p, words[i])[j])
  <2> DEFINE at == (i - 1) * w
  <2>1. at \in Nat /\ 2 * j - 1 \in 1 .. w /\ 2 * j \in 1 .. w
    <3>1. i - 1 \in Nat
        OBVIOUS
    <3> QED
        BY <1>1, <3>1, Multiples DEF w
  <2>2. \A k \in 1 .. w : flat[at + k] = seqs[i][k]
      BY <1>3, <1>7 DEF InBlocks
  <2> HIDE DEF at
  <2>3. flat[at + (2 * j - 1)] = seqs[i][2 * j - 1] /\ flat[at + 2 * j] = seqs[i][2 * j]
      BY <2>1, <2>2
  <2>4. at + (2 * j - 1) = at + 2 * j - 1 /\ at + 2 * j - 1 + 1 = at + 2 * j
      BY <2>1
  <2>5. OnAir(flat, at + 2 * j - 1, p, InOrder(p, words[i])[j])
      BY <1>2, <1>5, <2>3, <2>4 DEF OnAir
  <2> QED
      BY <2>5 DEF at
<1> QED
    BY <1>6, <1>7, <1>8, <1>9 DEF flat, seqs, n, w

LEMMA PaddingBounds ==
    ASSUME NEW p, p.mesgtime \in Nat, NEW gap \in Times, NEW elapsed \in Nat
    PROVE  LET pad == Padding(p, gap, elapsed) IN
           pad \in Times /\ pad >= gap /\ (p.mesgtime = 0 => pad = gap)
<1> DEFINE rest == p.mesgtime - elapsed
           most == Max({gap, rest})
<1>1. CASE elapsed >= p.mesgtime
    BY <1>1 DEF Padding, Times
<1>2. CASE ~(elapsed >= p.mesgtime)
  <2>1. rest \in Int /\ p.mesgtime # 0
      BY <1>2
  <2> HIDE DEF rest
  <2>2. \E x \in {gap, rest} : \A y \in {gap, rest} : x >= y
      BY <2>1 DEF Times
  <2>3. most \in {gap, rest} /\ most >= gap
      BY <2>2 DEF Max
  <2> HIDE DEF most
  <2>4. most \in Times
      BY <2>1, <2>3 DEF Times
  <2> QED
      BY <1>2, <2>1, <2>3, <2>4 DEF Padding, most, rest
<1> QED
    BY <1>1, <1>2

LEMMA SectionOnAir ==
    ASSUME NEW p, Pulsed(p), NEW m \in Nat, NEW words \in [1 .. m -> [1 .. p.width -> Bit]],
           NEW gap \in Times
    PROVE  \E body : \E t \in Times :
             /\ IsBody(body, p, words) /\ sendSection(p, words, gap) = body \o <<Dark(t)>>
             /\ t >= gap /\ (p.mesgtime = 0 => t = gap)
<1> DEFINE w == 2 * p.width
           h == HeaderLen(p)
           head == optmark(p.hdrmark) \o space(p.hdrspace)
           flat == FlattenSeq([i \in 1 .. m |-> sendData(p, words[i])])
           front == head \o flat
           foot == optmark(p.footermark)
           body == front \o foot
           pad == Padding(p, gap, Elapsed(body))
<1>1. Timed(p) /\ p.coding # "manchester" /\ p.width \in Nat /\ w \in Nat /\ m * w \in Nat
  <2>1. w \in Nat /\ p.width \in Nat
      BY DEF Pulsed
  <2> HIDE DEF w
  <2> QED
      BY <2>1, Multiples DEF Pulsed
<1>2. /\ head \in Seq(Part) /\ Whole(head) /\ Len(head) = h
      /\ p.hdrmark # 0 => head[1] = Lit(p.hdrmark) /\ head[2] = Dark(p.hdrspace)
    BY HeaderOnAir
<1>3. /\ flat \in Seq(Part) /\ Whole(flat) /\ Len(flat) = m * w
      /\ \A i \in 1 .. m, j \in 1 .. p.width :
           OnAir(flat, (i - 1) * w + 2 * j - 1, p, InOrder(p, words[i])[j])
    BY WordsOnAir
<1>4. h \in {0, 2} /\ (p.hdrmark # 0 => h = 2)
    BY DEF HeaderLen
<1>5. Len(words) = m
    OBVIOUS
<1>6. /\ foot \in Seq(Part) /\ Alternates(foot) /\ Len(foot) = Entry(p.footermark)
      /\ p.footermark # 0 => foot[1] = Lit(p.footermark) /\ Len(foot) = 1
  <2>1. p.footermark \in Times \cup {0}
      BY <1>1 DEF Timed
  <2>2. CASE p.footermark = 0
      BY <2>2, WholeEmpty DEF optmark, Entry, Whole
  <2>3. CASE p.footermark # 0
    <3> DEFINE x == Lit(p.footermark)
    <3>1. foot = <<x>> /\ x \in Part
        BY <2>1, <2>3, PartType
    <3>2. x.on
        BY DEF Lit
    <3> HIDE DEF x, foot
    <3>3. foot \in Seq(Part) /\ Len(foot) = 1 /\ foot[1] = x
        BY <3>1
    <3>4. Alternates(foot)
        BY <3>2, <3>3 DEF Alternates
    <3> QED
        BY <2>3, <3>3, <3>4 DEF x, Entry
  <2> QED
      BY <2>2, <2>3
<1>7. sendSection(p, words, gap) = body \o space(pad)
  <2>1. [i \in 1 .. Len(words) |-> IF p.coding = "manchester" THEN sendManchesterData(p, words[i])
                                   ELSE sendData(p, words[i])]
          = [i \in 1 .. m |-> sendData(p, words[i])]
      BY <1>1, <1>5
  <2> QED
      BY <2>1 DEF sendSection
<1> HIDE DEF head, flat, foot
<1>8. /\ front \in Seq(Part) /\ Whole(front) /\ Len(front) = h + m * w
      /\ \A k \in 1 .. h : front[k] = head[k]
      /\ \A k \in 1 .. m * w : front[h + k] = flat[k]
  <2>1. Whole(front)
      BY <1>2, <1>3, WholeJoined
  <2>2. front \in Seq(Part) /\ Behind(front, head, flat)
      BY <1>2, <1>3, Parts, Zenon
  <2> HIDE DEF front
  <2> QED
      BY <1>2, <1>3, <2>1, <2>2 DEF Behind
<1> HIDE DEF front
<1>9. /\ body \in Seq(Part) /\ Alternates(body) /\ Len(body) = h + m * w + Entry(p.footermark)
      /\ \A k \in 1 .. h + m * w : body[k] = front[k]
      /\ p.footermark # 0 => body[Len(body)] = Lit(p.footermark)
  <2>1. Alternates(body)
      BY <1>6, <1>8, AlternatesJoined
  <2>2. body \in Seq(Part) /\ Behind(body, front, foot)
      BY <1>6, <1>8, Parts, Zenon
  <2>3. Entry(p.footermark) \in {0, 1} /\ (p.footermark # 0 => Len(foot) = 1)
      BY <1>6 DEF Entry
  <2> HIDE DEF body, w, h
  <2> QED
      BY <1>1, <1>4, <1>6, <1>8, <2>1, <2>2, <2>3 DEF Behind
<1> HIDE DEF body
<1>10. ASSUME NEW i \in 1 .. m, NEW j \in 1 .. p.width
       PROVE  OnAir(body, WordAt(p, i) + 2 * j - 1, p, InOrder(p, words[i])[j])
  <2> DEFINE k == (i - 1) * w + 2 * j - 1
  <2>1. k \in 1 .. m * w /\ k + 1 \in 1 .. m * w
    <3> DEFINE at(q) == q * w
    <3>1. /\ i - 1 \in Nat /\ i \in Nat /\ m \in Nat /\ i <= m /\ (i - 1) + 1 = i
          /\ 2 * j - 1 \in 1 .. w /\ 2 * j \in 1 .. w
        BY <1>1
    <3> HIDE DEF w
    <3>2. /\ at(i - 1) \in Nat /\ at(i) \in Nat /\ at(m) \in Nat /\ at(i) <= at(m)
          /\ at(i) = at(i - 1) + w
        BY <1>1, <3>1, Multiples
    <3> DEFINE x == at(i - 1)
               y == at(m)
               a == 2 * j - 1
    <3>3. /\ w \in Nat /\ x \in Nat /\ y \in Nat /\ x + w <= y
          /\ a \in 1 .. w /\ a + 1 \in 1 .. w
        BY <1>1, <3>1, <3>2
    <3>4. k = x + a /\ k + 1 = x + (a + 1)
        BY <3>1, <3>3
    <3> HIDE DEF x, y, a, k
    <3>5. x + a \in 1 .. y /\ x + (a + 1) \in 1 .. y
        BY <3>3
    <3> QED
        BY <3>4, <3>5 DEF y
  <2>2. WordAt(p, i) + 2 * j - 1 = h + k /\ (h + k) + 1 = h + (k + 1)
    <3>1. (i - 1) * w \in Nat
      <4> HIDE DEF w
      <4>1. i - 1 \in Nat
          OBVIOUS
      <4> QED
          BY <1>1, <4>1, Multiples
    <3>2. WordAt(p, i) = h + (i - 1) * w
        BY DEF WordAt
    <3> DEFINE at == (i - 1) * w
    <3>3. at \in Nat /\ h \in Nat /\ j \in Nat /\ WordAt(p, i) = h + at
        BY <1>4, <3>1, <3>2
    <3>4. k = at + 2 * j - 1
        OBVIOUS
    <3> HIDE DEF at, w, h, k
    <3> QED
        BY <3>3, <3>4
  <2>3. flat[k] = Lit(MarkOf(p, InOrder(p, words[i])[j])) /\ flat[k + 1] = Dark(SpaceOf(p, InOrder(p, words[i])[j]))
      BY <1>3 DEF OnAir
  <2> HIDE DEF k, w, h
  <2> DEFINE q == m * w
  <2>4. ASSUME NEW l \in 1 .. q PROVE body[h + l] = flat[l]
    <3>1. q \in Nat /\ h \in Nat
        BY <1>1, <1>4
    <3>2. h + l \in 1 .. h + q
      <4> HIDE DEF q
      <4> QED
          BY <3>1
    <3> QED
        BY <1>8, <1>9, <3>2
  <2>5. body[h + k] = flat[k] /\ body[h + (k + 1)] = flat[k + 1]
      BY <2>1, <2>4
  <2> QED
      BY <2>2, <2>3, <2>5 DEF OnAir
<1>11. p.hdrmark # 0 => body[1] = Lit(p.hdrmark) /\ body[2] = Dark(p.hdrspace)
  <2> HIDE DEF w, h
  <2> QED
      BY <1>1, <1>2, <1>4, <1>8, <1>9
<1>12. IsBody(body, p, words)
  <2>1. WordAt(p, Len(words) + 1) = h + m * w
      BY <1>5 DEF WordAt
  <2> HIDE DEF w, h
  <2> QED
      BY <1>5, <1>9, <1>10, <1>11, <2>1 DEF IsBody
<1>13. pad \in Times /\ pad >= gap /\ (p.mesgtime = 0 => pad = gap)
  <2>1. Elapsed(body) \in Nat /\ p.mesgtime \in Nat
      BY <1>1, <1>9, ElapsedType DEF Timed
  <2> QED
      BY <2>1, PaddingBounds
<1> HIDE DEF pad
<1>14. space(pad) = <<Dark(pad)>>
    BY <1>13, PartType
<1>15. sendSection(p, words, gap) = body \o <<Dark(pad)>>
    BY <1>7, <1>14
<1> QED
    BY <1>12, <1>13, <1>15
-----------------------------------------------------------------------------
(* A message on the air: its lead and its sections.                        *)
LEMMA FlattenOne ==
    ASSUME NEW seqs \in Seq(Seq(Part)), Len(seqs) = 1
    PROVE  FlattenSeq(seqs) = seqs[1]
<1>1. PICK f \in [0 .. Len(seqs) -> Seq(Part)] :
         /\ f[0] = <<>> /\ f[Len(seqs)] = FlattenSeq(seqs)
         /\ \A i \in 1 .. Len(seqs) : f[i] = f[i - 1] \o seqs[i]
    BY FlattenSteps
<1>2. 1 \in 1 .. Len(seqs) /\ 1 - 1 = 0
    OBVIOUS
<1>3. seqs[1] \in Seq(Part) /\ f[1] = <<>> \o seqs[1]
  <2>1. f[1] = f[0] \o seqs[1]
      BY <1>1, <1>2
  <2> QED
      BY <1>1, <1>2, <2>1
<1> QED
    BY <1>1, <1>3, ConcatEmptySeq

LEMMA FlattenTwo ==
    ASSUME NEW seqs \in Seq(Seq(Part)), Len(seqs) = 2
    PROVE  FlattenSeq(seqs) = seqs[1] \o seqs[2]
<1>1. PICK f \in [0 .. Len(seqs) -> Seq(Part)] :
         /\ f[0] = <<>> /\ f[Len(seqs)] = FlattenSeq(seqs)
         /\ \A i \in 1 .. Len(seqs) : f[i] = f[i - 1] \o seqs[i]
    BY FlattenSteps
<1>2. 1 \in 1 .. Len(seqs) /\ 2 \in 1 .. Len(seqs) /\ 1 - 1 = 0 /\ 2 - 1 = 1
    OBVIOUS
<1>3. seqs[1] \in Seq(Part) /\ f[1] = <<>> \o seqs[1] /\ f[2] = f[1] \o seqs[2]
  <2>1. f[1] = f[0] \o seqs[1] /\ f[2] = f[1] \o seqs[2]
      BY <1>1, <1>2
  <2> QED
      BY <1>1, <1>2, <2>1
<1>4. <<>> \o seqs[1] = seqs[1]
    BY <1>3, ConcatEmptySeq
<1> QED
    BY <1>1, <1>3, <1>4

LeadLen(p) == IF p.lead = <<>> THEN 0 ELSE 2

LEMMA LeadOnAir ==
    ASSUME NEW p, Timed(p)
    PROVE  /\ Pair(p.lead) \in Seq(Part) /\ Whole(Pair(p.lead))
           /\ Len(Pair(p.lead)) = LeadLen(p)
           /\ p.lead # <<>> => /\ Pair(p.lead)[1] = Lit(p.lead[1])
                               /\ Pair(p.lead)[2] = Dark(p.lead[2])
<1>1. CASE p.lead = <<>>
    BY <1>1, WholeEmpty DEF Pair, LeadLen
<1>2. CASE p.lead # <<>>
  <2> DEFINE a == Lit(p.lead[1])
             c == Dark(p.lead[2])
             lead == <<a, c>>
  <2>1. p.lead[1] \in Times /\ p.lead[2] \in Times
      BY <1>2 DEF Timed
  <2>2. a \in Part /\ c \in Part /\ mark(p.lead[1]) = <<a>> /\ space(p.lead[2]) = <<c>>
      BY <2>1, PartType
  <2>3. a.on /\ ~c.on
      BY DEF Lit, Dark
  <2> HIDE DEF a, c
  <2>4. Pair(p.lead) = lead
      BY <1>2, <2>2, TwoParts DEF Pair
  <2>5. lead \in Seq(Part) /\ Len(lead) = 2 /\ lead[1] = a /\ lead[2] = c
      BY <2>2
  <2> HIDE DEF lead
  <2>6. Whole(lead)
    <3>1. \A k \in 1 .. 2 : lead[k].on <=> k % 2 = 1
        BY <2>3, <2>5
    <3> QED
        BY <2>5, <3>1 DEF Whole, Alternates
  <2> QED
      BY <1>2, <2>4, <2>5, <2>6 DEF LeadLen, a, c
<1> QED
    BY <1>1, <1>2

(* What is heard of light and dark in turn and a space behind: the last    *)
(* interval is dark, and is longer if it was dark already.                 *)
Heards(first, light, t) ==
    /\ first \in Seq(Part)
    /\ Len(light) % 2 = 1 =>
         /\ Len(first) = Len(light) + 1 /\ first[Len(light) + 1] = Dark(t)
         /\ \A k \in 1 .. Len(light) : first[k] = light[k]
    /\ Len(light) % 2 = 0 =>
         /\ Len(first) = Len(light) /\ first[Len(light)] = Dark(light[Len(light)].usec + t)
         /\ \A k \in 1 .. Len(light) - 1 : first[k] = light[k]

LEMMA SpaceHeard ==
    ASSUME NEW light \in Seq(Part), Alternates(light), light # <<>>, NEW t \in Times
    PROVE  Heards(Intervals(light \o <<Dark(t)>>), light, t)
<1> DEFINE n == Len(light)
           x == Dark(t)
           first == Intervals(light \o <<x>>)
<1>1. n \in Nat \ {0} /\ Last(light) = light[n] /\ light[n] \in Part
    BY DEF Last
<1>2. x \in Part /\ x.on = FALSE /\ x.usec = t
    BY PartType DEF Dark
<1>3. first = Heard(light, x)
    BY <1>2, IntervalsAlternate, IntervalsBehind
<1>4. light[n].on <=> n % 2 = 1
    BY <1>1 DEF Alternates
<1>5. first \in Seq(Part)
    BY <1>2, <1>3, HeardType
<1>6. n % 2 \in {0, 1} /\ light[n].on \in BOOLEAN
    BY <1>1, Parity DEF Part
<1> HIDE DEF first
<1>7. CASE n % 2 = 1
  <2>1. first = Append(light, x)
      BY <1>1, <1>2, <1>3, <1>4, <1>6, <1>7 DEF Heard
  <2>2. Len(first) = n + 1 /\ first[n + 1] = x /\ \A k \in 1 .. n : first[k] = light[k]
      BY <1>1, <1>2, <2>1
  <2> QED
      BY <1>5, <1>7, <2>2 DEF Heards, first
<1>8. CASE n % 2 = 0
  <2> DEFINE y == light[n]
             e == [y EXCEPT !.usec = @ + x.usec]
  <2>1. y \in Part /\ y.on = FALSE
      BY <1>1, <1>4, <1>6, <1>8
  <2>2. first = [light EXCEPT ![n] = e]
    <3> HIDE DEF x
    <3>1. Last(light).on = x.on /\ light # <<>>
        BY <1>1, <1>2, <2>1
    <3> QED
        BY <1>3, <3>1 DEF Heard
  <2>3. e = Dark(y.usec + t)
    <3> HIDE DEF x, y
    <3>1. e = [on |-> y.on, usec |-> y.usec + x.usec]
        BY <2>1 DEF Part
    <3> QED
        BY <1>2, <2>1, <3>1 DEF Dark
  <2> HIDE DEF e
  <2>4. Len(first) = n /\ first[n] = e /\ \A k \in 1 .. n - 1 : first[k] = light[k]
      BY <1>1, <1>5, <2>2
  <2> QED
      BY <1>5, <1>8, <2>3, <2>4 DEF Heards, first
<1> QED
    BY <1>6, <1>7, <1>8

(* A message of one section with one word.                                 *)
IsSingle(m, p) == m \in [1 .. 1 -> [1 .. 1 -> [1 .. p.width -> Bit]]]

Laid(light, body, t, p, words) ==
    /\ IsBody(body, p, words) /\ t \in Times /\ t >= p.gaps[1]
    /\ light \in Seq(Part) /\ Alternates(light) /\ Behind(light, Pair(p.lead), body)

LEMMA SingleOnAir ==
    ASSUME NEW p, Pulsed(p), p.gaps[1] \in Times, NEW m, IsSingle(m, p)
    PROVE  \E light, body, t : Laid(light, body, t, p, m[1])
                               /\ sendMessage(p, m) = light \o <<Dark(t)>>
<1> DEFINE words == m[1]
           seqs == [s \in 1 .. Len(m) |-> sendSection(p, m[s], p.gaps[s])]
           lead == Pair(p.lead)
<1>1. words \in [1 .. 1 -> [1 .. p.width -> Bit]] /\ Len(m) = 1
    BY DEF IsSingle
<1>2. PICK body : \E t \in Times :
         /\ IsBody(body, p, words) /\ sendSection(p, words, p.gaps[1]) = body \o <<Dark(t)>>
         /\ t >= p.gaps[1] /\ (p.mesgtime = 0 => t = p.gaps[1])
  <2> HIDE DEF words
  <2>1. 1 \in Nat
      OBVIOUS
  <2> QED
      BY <1>1, <2>1, SectionOnAir
<1>3. PICK t \in Times :
         /\ IsBody(body, p, words) /\ sendSection(p, words, p.gaps[1]) = body \o <<Dark(t)>>
         /\ t >= p.gaps[1]
    BY <1>2
<1> DEFINE light == lead \o body
           x == Dark(t)
<1>4. lead \in Seq(Part) /\ Whole(lead)
    BY LeadOnAir DEF Pulsed
<1>5. body \in Seq(Part) /\ Alternates(body) /\ <<x>> \in Seq(Part)
  <2>1. x \in Part
      BY PartType
  <2> HIDE DEF x
  <2> QED
      BY <1>3, <2>1 DEF IsBody
<1>6. sendMessage(p, m) = lead \o (body \o <<x>>)
  <2>1. seqs[1] = body \o <<x>> /\ Len(seqs) = 1
      BY <1>1, <1>3
  <2>2. body \o <<x>> \in Seq(Part)
      BY <1>5, ConcatProperties
  <2>3. seqs = [s \in 1 .. 1 |-> sendSection(p, m[s], p.gaps[s])]
      BY <1>1
  <2>4. seqs \in Seq(Seq(Part))
    <3>1. seqs = [s \in 1 .. 1 |-> seqs[1]]
        BY <2>3
    <3> HIDE DEF seqs, x
    <3>2. seqs[1] \in Seq(Part)
        BY <2>1, <2>2
    <3> DEFINE y == seqs[1]
    <3> HIDE DEF y
    <3>3. [s \in 1 .. 1 |-> y] \in Seq(Seq(Part))
        BY <3>2 DEF y
    <3> QED
        BY <3>1, <3>3 DEF y
  <2>5. sendMessage(p, m) = lead \o FlattenSeq(seqs)
      BY DEF sendMessage
  <2> HIDE DEF seqs
  <2>6. FlattenSeq(seqs) = seqs[1]
      BY <2>1, <2>4, FlattenOne
  <2> QED
      BY <2>1, <2>5, <2>6
<1>7. lead \o (body \o <<x>>) = light \o <<x>>
    BY <1>4, <1>5, ConcatAssociative
<1>8. light \in Seq(Part) /\ Behind(light, lead, body)
    BY <1>4, <1>5, Parts, Zenon
<1>9. Alternates(light)
    BY <1>4, <1>5, AlternatesJoined
<1>10. Laid(light, body, t, p, words)
  <2> HIDE DEF light, words
  <2> QED
      BY <1>3, <1>8, <1>9 DEF Laid
<1>11. sendMessage(p, m) = light \o <<Dark(t)>>
    BY <1>6, <1>7
<1> HIDE DEF light
<1> QED
    BY <1>10, <1>11

Begins(u, s) == Len(u) >= Len(s) /\ \A k \in 1 .. Len(s) : u[k] = s[k]

LEMMA BeginsWith ==
    ASSUME NEW u \in Seq(Part), NEW s \in Seq(Part), Begins(u, s)
    PROVE  \E t \in Seq(Part) : u = s \o t
<1> DEFINE n == Len(s)
           rest == Len(u) - n
           t == [k \in 1 .. rest |-> u[n + k]]
<1>1. n \in Nat /\ rest \in Nat /\ Len(u) = n + rest
    BY DEF Begins
<1>2. t \in Seq(Part) /\ Len(t) = rest
  <2>1. \A k \in 1 .. rest : u[n + k] \in Part
      BY <1>1
  <2> HIDE DEF rest
  <2> QED
      BY <1>1, <2>1
<1>3. \A k \in 1 .. rest : t[k] = u[n + k]
    OBVIOUS
<1> HIDE DEF t
<1>4. s \o t \in Seq(Part) /\ Behind(s \o t, s, t)
    BY <1>2, Parts, Zenon
<1> DEFINE v == s \o t
<1>5. v = u
  <2> HIDE DEF v
  <2>1. v \in Seq(Part) /\ Len(v) = Len(u)
      BY <1>1, <1>2, <1>4 DEF v, Behind
  <2>2. ASSUME NEW k \in 1 .. Len(u) PROVE v[k] = u[k]
    <3>1. CASE k \in 1 .. n
        BY <1>4, <3>1 DEF v, Behind, Begins
    <3>2. CASE k \notin 1 .. n
      <4> DEFINE j == k - n
      <4>1. j \in 1 .. rest /\ n + j = k
          BY <1>1, <3>2
      <4>2. v[n + j] = t[j]
          BY <1>2, <1>4, <4>1 DEF v, Behind
      <4> QED
          BY <1>3, <4>1, <4>2
    <3> QED
        BY <3>1, <3>2
  <2> QED
      BY <2>1, <2>2
<1> QED
    BY <1>2, <1>5

(* Of a message that is sent again and again the first time is heard as if *)
(* it were the only one.                                                   *)
LEMMA Repeats ==
    ASSUME NEW once \in Seq(Part), once # <<>>, once[1].on,
           Intervals(once) # <<>>, ~Last(Intervals(once)).on, NEW n \in Nat \ {0}
    PROVE  Begins(Intervals(FlattenSeq([r \in 1 .. n |-> once])), Intervals(once))
<1> DEFINE seqs == [r \in 1 .. n |-> once]
           m == Len(once)
<1>1. seqs \in Seq(Seq(Part)) /\ Len(seqs) = n /\ \A i \in 1 .. n : seqs[i] = once
    OBVIOUS
<1> HIDE DEF seqs
<1>2. PICK f \in [0 .. n -> Seq(Part)] :
         /\ f[0] = <<>> /\ f[n] = FlattenSeq(seqs)
         /\ \A i \in 1 .. n : f[i] = f[i - 1] \o seqs[i]
  <2>1. \E f \in [0 .. Len(seqs) -> Seq(Part)] :
         /\ f[0] = <<>> /\ f[Len(seqs)] = FlattenSeq(seqs)
         /\ \A i \in 1 .. Len(seqs) : f[i] = f[i - 1] \o seqs[i]
      BY <1>1, FlattenSteps
  <2> QED
      BY <1>1, <2>1
<1>3. m \in Nat \ {0}
    OBVIOUS
<1> DEFINE Kept(i) == /\ i # 0 => Begins(f[i], once)
                      /\ Len(f[i]) > m => f[i][m + 1].on
                      /\ Len(f[i]) >= m \/ Len(f[i]) = 0
           T == {i \in 0 .. n : Kept(i)}
<1>4. 0 \in T
    BY <1>2, <1>3
<1>5. ASSUME NEW i \in 0 .. n - 1, i \in T PROVE i + 1 \in T
  <2>1. i \in 0 .. n /\ i + 1 \in 1 .. n /\ i + 1 \in 0 .. n /\ (i + 1) - 1 = i
      OBVIOUS
  <2> DEFINE u == f[i]
             v == f[i + 1]
  <2>2. u \in Seq(Part) /\ v = u \o once
    <3>1. f[i + 1] = f[(i + 1) - 1] \o seqs[i + 1] /\ seqs[i + 1] = once
        BY <1>1, <1>2, <2>1
    <3> QED
        BY <1>2, <2>1, <3>1
  <2>3. Kept(i)
      BY <1>5
  <2>4. v \in Seq(Part) /\ Behind(v, u, once)
    <3> HIDE DEF u, v
    <3> QED
        BY <2>2, Parts, Zenon
  <2>5. i = 0 => u = <<>> /\ Len(u) = 0
      BY <1>2
  <2>6. Len(u) \in Nat /\ Len(v) = Len(u) + m
      BY <2>2, <2>4 DEF Behind
  <2>7. Begins(v, once)
    <3> HIDE DEF u, v
    <3>1. CASE i = 0
        BY <2>4, <2>5, <2>6, <3>1 DEF Begins, Behind
    <3>2. CASE i # 0
      <4>1. Begins(u, once)
          BY <2>3, <3>2 DEF u
      <4> QED
          BY <1>3, <2>4, <2>6, <4>1 DEF Begins, Behind
    <3> QED
        BY <3>1, <3>2
  <2>8. ASSUME Len(v) > m PROVE v[m + 1].on
    <3> HIDE DEF u, v
    <3>1. Len(u) >= m /\ (Len(u) > m => u[m + 1].on)
        BY <1>3, <2>3, <2>6, <2>8 DEF u
    <3>2. CASE Len(u) = m
      <4>1. v[m + 1] = once[1]
          BY <1>3, <2>4, <3>2 DEF Behind
      <4> QED
          BY <4>1
    <3>3. CASE Len(u) > m
      <4>1. m + 1 \in 1 .. Len(u)
          BY <1>3, <2>6, <3>3
      <4>2. v[m + 1] = u[m + 1]
          BY <2>4, <4>1 DEF Behind
      <4> QED
          BY <3>1, <3>3, <4>2
    <3> QED
        BY <1>3, <2>6, <3>1, <3>2, <3>3
  <2>9. Len(v) >= m
      BY <1>3, <2>6
  <2>10. Kept(i + 1)
      BY <2>7, <2>8, <2>9
  <2> HIDE DEF Kept
  <2> QED
      BY <2>1, <2>10
<1>6. n \in T
  <2> HIDE DEF T
  <2>1. 0 .. n \subseteq T
      BY <1>4, <1>5, UpTo
  <2> QED
      BY <2>1
<1> DEFINE u == FlattenSeq(seqs)
<1>7. u \in Seq(Part) /\ Begins(u, once) /\ (Len(u) > m => u[m + 1].on)
    BY <1>2, <1>6
<1> HIDE DEF u
<1>8. PICK t \in Seq(Part) : u = once \o t
    BY <1>7, BeginsWith
<1>9. t # <<>> => t[1].on
  <2> SUFFICES ASSUME t # <<>> PROVE t[1].on
      OBVIOUS
  <2>1. Len(t) \in Nat /\ Len(t) > 0
      OBVIOUS
  <2>2. Behind(once \o t, once, t)
      BY Parts, Zenon
  <2>3. Len(u) > m /\ u[m + 1] = t[1]
      BY <1>3, <1>8, <2>1, <2>2 DEF Behind
  <2> QED
      BY <1>7, <2>3
<1>10. /\ Len(Intervals(once \o t)) >= Len(Intervals(once))
       /\ \A k \in 1 .. Len(Intervals(once)) : Intervals(once \o t)[k] = Intervals(once)[k]
    BY <1>9, IntervalsContinue
<1> QED
    BY <1>8, <1>10 DEF Begins, u, seqs

(* The first time that a message of one word is heard.                     *)
LEMMA LaidLong ==
    ASSUME NEW p, Pulsed(p), p.width # 0, NEW light, NEW body, NEW t,
           NEW words \in [1 .. 1 -> [1 .. p.width -> Bit]], Laid(light, body, t, p, words)
    PROVE  /\ Len(light) = LeadLen(p) + HeaderLen(p) + 2 * p.width + Entry(p.footermark)
           /\ Len(light) \in Nat /\ Len(light) >= 2 /\ light[1].on
<1>1. Len(Pair(p.lead)) = LeadLen(p) /\ LeadLen(p) \in Nat
    BY LeadOnAir DEF Pulsed, LeadLen
<1>2. Len(words) = 1 /\ p.width \in Nat
    BY DEF Pulsed
<1>3. Len(body) = HeaderLen(p) + 2 * p.width + Entry(p.footermark)
    BY <1>2 DEF Laid, IsBody, WordAt, HeaderLen
<1>4. HeaderLen(p) \in Nat /\ Entry(p.footermark) \in Nat
    BY DEF HeaderLen, Entry
<1>5. Len(light) = LeadLen(p) + HeaderLen(p) + 2 * p.width + Entry(p.footermark)
    BY <1>1, <1>2, <1>3, <1>4 DEF Laid, Behind
<1>6. Len(light) \in Nat /\ Len(light) >= 2
    BY <1>1, <1>2, <1>4, <1>5
<1>7. light[1].on
    BY <1>6 DEF Laid, Alternates
<1> QED
    BY <1>5, <1>6, <1>7

LEMMA DarkLast ==
    ASSUME NEW first, NEW light \in Seq(Part), light # <<>>, NEW t \in Times,
           Heards(first, light, t)
    PROVE  first # <<>> /\ ~Last(first).on
<1>1. Len(light) \in Nat \ {0} /\ Len(light) % 2 \in {0, 1}
    BY Parity
<1>2. first \in Seq(Part) /\ Last(first) = first[Len(first)]
    BY DEF Heards, Last
<1>3. CASE Len(light) % 2 = 1
  <2>1. Len(first) # 0 /\ first[Len(first)] = Dark(t)
      BY <1>1, <1>3 DEF Heards
  <2> QED
      BY <1>2, <2>1 DEF Dark
<1>4. CASE Len(light) % 2 = 0
  <2>1. Len(first) # 0 /\ first[Len(first)] = Dark(light[Len(light)].usec + t)
      BY <1>1, <1>4 DEF Heards
  <2> QED
      BY <1>2, <2>1 DEF Dark
<1> QED
    BY <1>1, <1>3, <1>4

LEMMA GenericHeard ==
    ASSUME NEW p, p.repeat \in Nat, p.trail = <<>>, NEW m,
           NEW light \in Seq(Part), light # <<>>, Alternates(light), NEW t \in Times,
           sendMessage(p, m) = light \o <<Dark(t)>>
    PROVE  LET first == Intervals(sendMessage(p, m))
           IN  /\ Heards(first, light, t)
               /\ Intervals(sendGeneric(p, m)) \in Seq(Part)
               /\ Begins(Intervals(sendGeneric(p, m)), first)
<1> DEFINE once == sendMessage(p, m)
           first == Intervals(once)
           n == p.repeat + 1
           all == FlattenSeq([r \in 1 .. n |-> once])
           x == Dark(t)
<1>1. x \in Part
    BY PartType
<1>2. once = light \o <<x>>
    OBVIOUS
<1>3. Heards(first, light, t)
    BY SpaceHeard
<1>4. first # <<>> /\ ~Last(first).on
  <2> HIDE DEF first
  <2> QED
      BY <1>3, DarkLast
<1>5. once \in Seq(Part) /\ once # <<>> /\ once[1].on
  <2> HIDE DEF once, x
  <2>1. <<x>> \in Seq(Part) /\ Len(<<x>>) = 1
      BY <1>1
  <2> DEFINE y == <<x>>
  <2> HIDE DEF y
  <2>2. light \o y \in Seq(Part) /\ Behind(light \o y, light, y)
      BY <2>1, Parts, Zenon DEF y
  <2>3. Len(light) \in Nat /\ 1 \in 1 .. Len(light)
      OBVIOUS
  <2>4. once[1] = light[1] /\ Len(once) # 0
      BY <1>2, <2>1, <2>2, <2>3 DEF Behind, y
  <2>5. light[1].on
      BY <2>3 DEF Alternates
  <2> QED
      BY <1>2, <2>2, <2>4, <2>5 DEF y
<1>6. n \in Nat \ {0}
    OBVIOUS
<1>7. Begins(Intervals(all), first)
  <2> HIDE DEF once, n
  <2> QED
      BY <1>4, <1>5, <1>6, Repeats
<1>8. all \in Seq(Part)
  <2> DEFINE seqs == [r \in 1 .. n |-> once]
  <2>1. seqs \in Seq(Seq(Part))
    <3> HIDE DEF once, n
    <3> QED
        BY <1>5, <1>6
  <2> HIDE DEF seqs
  <2>2. FlattenSeq(seqs) \in Seq(Part)
      BY <2>1, FlattenType
  <2> QED
      BY <2>2 DEF seqs
<1>9. sendGeneric(p, m) = all
  <2>1. sendGeneric(p, m) = all \o <<>>
      BY DEF sendGeneric, Pair
  <2> HIDE DEF all
  <2> QED
      BY <1>8, <2>1, ConcatEmptySeq
<1> HIDE DEF all, first
<1>10. Intervals(sendGeneric(p, m)) \in Seq(Part)
    BY <1>8, <1>9, IntervalsType
<1> QED
    BY <1>3, <1>7, <1>9, <1>10 DEF first

-----------------------------------------------------------------------------
(* What the sensor makes of an interval, and what the matchers accept.     *)
Sees(x, part) ==
    /\ x \in Nat
    /\ part.on => part.usec - 1 <= 2 * x /\ 2 * x <= part.usec + Jitter
    /\ ~part.on => part.usec - Jitter - 1 <= 2 * x /\ 2 * x <= part.usec

LEMMA SeenSees ==
    ASSUME NEW part \in Part, NEW disturbed \in BOOLEAN
    PROVE  Sees(Seen(part, disturbed), part)
<1>1. part.usec \in Nat /\ part.usec >= 320 /\ part.on \in BOOLEAN
    BY DEF Part, Times
<1>2. Jitter \in Nat /\ Jitter <= 300
    BY CodecAssumption
<1> DEFINE t == IF ~disturbed THEN part.usec
                ELSE IF part.on THEN part.usec + Jitter ELSE part.usec - Jitter
<1>3. t \in Nat /\ Seen(part, disturbed) = t \div 2
    BY <1>1, <1>2 DEF Seen, kRawTick
<1>4. t \div 2 \in Nat /\ 2 * (t \div 2) <= t /\ t - 1 <= 2 * (t \div 2)
  <2> HIDE DEF t
  <2> QED
      BY <1>3
<1> QED
    BY <1>1, <1>2, <1>3, <1>4 DEF Sees

LEMMA MaxOf ==
    ASSUME NEW x \in Int, NEW y \in Int
    PROVE  Max({x, y}) = IF x >= y THEN x ELSE y
<1> DEFINE most == Max({x, y})
<1>1. \E z \in {x, y} : \A w \in {x, y} : z >= w
    OBVIOUS
<1>2. most \in {x, y} /\ \A w \in {x, y} : most >= w
    BY <1>1 DEF Max
<1> HIDE DEF most
<1>3. most = IF x >= y THEN x ELSE y
    BY <1>2
<1> QED
    BY <1>3 DEF most

LEMMA MinOf ==
    ASSUME NEW x \in Int, NEW y \in Int
    PROVE  Min({x, y}) = IF x <= y THEN x ELSE y
<1> DEFINE least == Min({x, y})
<1>1. \E z \in {x, y} : \A w \in {x, y} : z <= w
    OBVIOUS
<1>2. least \in {x, y} /\ \A w \in {x, y} : least <= w
    BY <1>1 DEF Min
<1> HIDE DEF least
<1>3. least = IF x <= y THEN x ELSE y
    BY <1>2
<1> QED
    BY <1>3 DEF least

(* The matchers' settings in these protocols.                              *)
Tuned(p) == p.tolerance \in {25, 40} /\ p.excess \in {0, 50} /\ p.timeout \in Nat

LEMMA MarkSeen ==
    ASSUME Jitter <= 100, NEW p, Tuned(p), NEW t \in Nat, t >= 400,
           NEW x, Sees(x, Lit(t))
    PROVE  matchMark(x, t, p)
<1> DEFINE u == t + p.excess
           low == (u * (100 - p.tolerance)) \div 100 - 0
<1>1. x \in Nat /\ t - 1 <= 2 * x /\ 2 * x <= t + Jitter /\ Jitter \in Nat
    BY CodecAssumption DEF Sees, Lit
<1>2. low \in Int /\ low >= 0 /\ 2 * x >= low
    BY <1>1 DEF Tuned
<1>3. ticksLow(u, p.tolerance, 0) = low
  <2>1. ticksLow(u, p.tolerance, 0) = Max({0, low})
      BY DEF ticksLow
  <2> HIDE DEF low, u
  <2> QED
      BY <1>2, <2>1, MaxOf
<1>4. 2 * x <= ticksHigh(u, p.tolerance, 0)
    BY <1>1 DEF Tuned, ticksHigh
<1> QED
    BY <1>2, <1>3, <1>4 DEF matchMark, match, kRawTick

LEMMA SpaceSeen ==
    ASSUME Jitter <= 100, NEW p, Tuned(p), NEW t \in Nat, t >= 400,
           NEW x, Sees(x, Dark(t))
    PROVE  matchSpace(x, t, p)
<1> DEFINE u == t - p.excess
           low == (u * (100 - p.tolerance)) \div 100 - 0
<1>1. x \in Nat /\ t - Jitter - 1 <= 2 * x /\ 2 * x <= t /\ Jitter \in Nat
    BY CodecAssumption DEF Sees, Dark
<1>2. low \in Int /\ low >= 0 /\ 2 * x >= low
    BY <1>1 DEF Tuned
<1>3. ticksLow(u, p.tolerance, 0) = low
  <2>1. ticksLow(u, p.tolerance, 0) = Max({0, low})
      BY DEF ticksLow
  <2> HIDE DEF low, u
  <2> QED
      BY <1>2, <2>1, MaxOf
<1>4. 2 * x <= ticksHigh(u, p.tolerance, 0)
    BY <1>1 DEF Tuned, ticksHigh
<1> QED
    BY <1>2, <1>3, <1>4 DEF matchSpace, match, kRawTick

LEMMA GapSeen ==
    ASSUME Jitter <= 100, NEW p, Tuned(p), NEW t \in Nat, NEW gap \in Nat,
           t >= gap, gap >= 1000, NEW x, Sees(x, Dark(t))
    PROVE  matchAtLeast(x, gap, p)
<1> DEFINE u == Min({gap, p.timeout})
           low == (u * (100 - p.tolerance)) \div 100 - p.excess
<1>1. x \in Nat /\ t - Jitter - 1 <= 2 * x /\ Jitter \in Nat
    BY CodecAssumption DEF Sees, Dark
<1>2. u \in Nat /\ u <= gap
    BY MinOf DEF Tuned
<1> HIDE DEF u
<1>3. low \in Int /\ 2 * x >= low /\ 2 * x >= 0
    BY <1>1, <1>2 DEF Tuned
<1>4. ticksLow(u, p.tolerance, p.excess) = Max({0, low})
    BY DEF ticksLow
<1> HIDE DEF low
<1>5. Max({0, low}) = IF 0 >= low THEN 0 ELSE low
    BY <1>3, MaxOf
<1>6. 2 * x >= ticksLow(u, p.tolerance, p.excess)
    BY <1>3, <1>4, <1>5
<1> QED
    BY <1>6 DEF matchAtLeast, kRawTick, u

(* The marks, or else the spaces, of a zero are not those of a one.        *)
MarksTell(p) == \A x : Sees(x, Lit(p.zeromark)) => ~matchMark(x, p.onemark, p)
SpacesTell(p) == \A x : Sees(x, Dark(p.zerospace)) => ~matchSpace(x, p.onespace, p)
Readable(p) ==
    /\ Tuned(p) /\ (MarksTell(p) \/ SpacesTell(p))
    /\ \A t \in {p.onemark, p.onespace, p.zeromark, p.zerospace} : t \in Nat /\ t >= 400

(* So many bits are seen from k on, the space of the last one if `spaced`. *)
SeesBits(b, k, p, bits, nbits, spaced) ==
    \A i \in 1 .. nbits :
        /\ Sees(b[k + 2 * (i - 1)], Lit(MarkOf(p, bits[i])))
        /\ spaced \/ i < nbits => Sees(b[k + 2 * (i - 1) + 1], Dark(SpaceOf(p, bits[i])))

IsRead(m, data, last) ==
    m.ok /\ IsMatch(m) /\ m.data = data /\ m.next = last

LEMMA BitToldBack ==
    ASSUME Jitter <= 100, NEW p, Readable(p), NEW spaced, spaced \/ MarksTell(p),
           NEW b, NEW k, NEW bit \in Bit, Sees(b[k], Lit(MarkOf(p, bit))),
           spaced => Sees(b[k + 1], Dark(SpaceOf(p, bit)))
    PROVE  /\ ToldOne(b, k, p, spaced) <=> bit = 1
           /\ ToldOne(b, k, p, spaced) \/ ToldZero(b, k, p, spaced)
<1>1. Tuned(p) /\ \A t \in {p.onemark, p.onespace, p.zeromark, p.zerospace} : t \in Nat /\ t >= 400
    BY DEF Readable
<1>2. CASE bit = 1
  <2>1. MarkOf(p, bit) = p.onemark /\ SpaceOf(p, bit) = p.onespace
      BY <1>2 DEF MarkOf, SpaceOf
  <2>2. matchMark(b[k], p.onemark, p)
      BY <1>1, <2>1, MarkSeen
  <2>3. spaced => matchSpace(b[k + 1], p.onespace, p)
      BY <1>1, <2>1, SpaceSeen
  <2> QED
      BY <1>2, <2>2, <2>3 DEF ToldOne, Told
<1>3. CASE bit = 0
  <2>1. MarkOf(p, bit) = p.zeromark /\ SpaceOf(p, bit) = p.zerospace
      BY <1>3 DEF MarkOf, SpaceOf
  <2>2. matchMark(b[k], p.zeromark, p)
      BY <1>1, <2>1, MarkSeen
  <2>3. spaced => matchSpace(b[k + 1], p.zerospace, p)
      BY <1>1, <2>1, SpaceSeen
  <2>4. ToldZero(b, k, p, spaced)
      BY <2>2, <2>3 DEF ToldZero, Told
  <2>5. ~ToldOne(b, k, p, spaced)
    <3>1. CASE MarksTell(p)
        BY <2>1, <3>1 DEF MarksTell, ToldOne, Told
    <3>2. CASE ~MarksTell(p)
      <4>1. SpacesTell(p) /\ spaced
          BY <3>2 DEF Readable
      <4> QED
          BY <2>1, <4>1 DEF SpacesTell, ToldOne, Told
    <3> QED
        BY <3>1, <3>2
  <2> QED
      BY <1>3, <2>4, <2>5
<1> QED
    BY <1>2, <1>3 DEF Bit

LEMMA WordRead ==
    ASSUME Jitter <= 100, NEW p, Readable(p), NEW spaced, spaced \/ MarksTell(p),
           NEW nbits \in Nat, NEW bits \in [1 .. nbits -> Bit],
           NEW b, NEW r, IsMatch(r), r.ok,
           SeesBits(b, r.next, p, bits, nbits, spaced)
    PROVE  IsRead(matchBits(b, r, p, nbits, spaced), bits,
                   r.next + 2 * nbits - IF spaced \/ nbits = 0 THEN 0 ELSE 1)
<1> DEFINE m == matchBits(b, r, p, nbits, spaced)
           at(i) == r.next + 2 * (i - 1)
           one(i) == ToldOne(b, at(i), p, spaced \/ i < nbits)
           zero(i) == ToldZero(b, at(i), p, spaced \/ i < nbits)
<1>1. /\ IsMatch(m) /\ m.data \in Seq(Bit)
      /\ m.ok <=> \A i \in 1 .. nbits : one(i) \/ zero(i)
      /\ m.ok => /\ m.next = r.next + 2 * nbits - IF spaced \/ nbits = 0 THEN 0 ELSE 1
                 /\ m.data = [i \in 1 .. nbits |-> IF one(i) THEN 1 ELSE 0]
    BY BitsRead, SMTT(20)
<1>2. ASSUME NEW i \in 1 .. nbits PROVE (one(i) <=> bits[i] = 1) /\ (one(i) \/ zero(i))
  <2> DEFINE s == spaced \/ i < nbits
  <2>1. bits[i] \in Bit /\ (s \/ MarksTell(p))
      OBVIOUS
  <2>2. /\ Sees(b[at(i)], Lit(MarkOf(p, bits[i])))
        /\ s => Sees(b[at(i) + 1], Dark(SpaceOf(p, bits[i])))
      BY DEF SeesBits
  <2> HIDE DEF s, at
  <2>3. /\ ToldOne(b, at(i), p, s) <=> bits[i] = 1
        /\ ToldOne(b, at(i), p, s) \/ ToldZero(b, at(i), p, s)
      BY <2>1, <2>2, BitToldBack
  <2> QED
      BY <2>3 DEF s
<1> HIDE DEF m, one, zero
<1>3. m.ok
    BY <1>1, <1>2
<1>4. m.data = bits
  <2>1. [i \in 1 .. nbits |-> IF one(i) THEN 1 ELSE 0] = bits
    <3>1. \A i \in 1 .. nbits : (IF one(i) THEN 1 ELSE 0) = bits[i]
      <4> SUFFICES ASSUME NEW i \in 1 .. nbits PROVE (IF one(i) THEN 1 ELSE 0) = bits[i]
          OBVIOUS
      <4>1. bits[i] \in {0, 1}
          BY DEF Bit
      <4> QED
          BY <1>2, <4>1
    <3> QED
        BY <3>1
  <2> QED
      BY <1>1, <1>3, <2>1
<1> QED
    BY <1>1, <1>3, <1>4 DEF IsRead, m

(* The word is read as it was, in whichever order its bits were sent.      *)
LEMMA OrderedBack ==
    ASSUME NEW p, p.msb \in BOOLEAN, NEW n \in Nat, NEW word \in [1 .. n -> Bit],
           NEW m, NEW last, IsRead(m, InOrder(p, word), last)
    PROVE  IsRead(Ordered(m, p), word, last)
<1> DEFINE bits == InOrder(p, word)
<1>1. bits \in [1 .. n -> Bit] /\ (p.msb => bits = word)
      /\ (~p.msb => bits = [i \in 1 .. n |-> word[n + 1 - i]])
    BY OrderType
<1> HIDE DEF bits
<1>2. CASE p.msb
    BY <1>1, <1>2 DEF Ordered, IsRead, bits
<1>3. CASE ~p.msb
  <2>1. Len(bits) = n
      BY <1>1
  <2>2. Reverse(bits) = [i \in 1 .. n |-> bits[(n - i) + 1]]
      BY <2>1 DEF Reverse
  <2>3. \A i \in 1 .. n : (n - i) + 1 \in 1 .. n /\ n + 1 - ((n - i) + 1) = i
      OBVIOUS
  <2>4. \A i \in 1 .. n : bits[(n - i) + 1] = word[i]
      BY <1>1, <1>3, <2>3
  <2>5. Reverse(bits) = word
      BY <2>2, <2>4
  <2>6. Ordered(m, p) = [m EXCEPT !.data = Reverse(m.data)]
      BY <1>3 DEF Ordered
  <2>7. IsMatch(m) /\ m.ok /\ m.data = bits /\ m.next = last
      BY DEF IsRead, bits
  <2> DEFINE o == [m EXCEPT !.data = word]
  <2>8. Ordered(m, p) = o
      BY <2>5, <2>6, <2>7
  <2>9. o.ok = m.ok /\ o.data = word /\ o.next = last /\ IsMatch(o)
      BY <2>7 DEF IsMatch
  <2> QED
      BY <2>7, <2>8, <2>9 DEF IsRead
<1> QED
    BY <1>2, <1>3

-----------------------------------------------------------------------------
(* A section as it is read: the intervals that are looked at, which are    *)
(* all but the space of the last bit if that runs into the gap.            *)
Need(p, n) == WordAt(p, n + 1) + IF p.footermark = 0 THEN -1 ELSE 1
ShowsBody(b, k, body, need) == \A j \in 1 .. need : Sees(b[k + j - 1], body[j])

(* A protocol of one word, or of sections of one or two bytes.             *)
Sectioned(p) ==
    /\ Pulsed(p) /\ Readable(p) /\ p.msb \in BOOLEAN /\ p.width # 0
    /\ p.hdrmark # 0 => p.hdrmark >= 400 /\ p.hdrspace >= 400
    /\ p.footermark # 0 => p.footermark >= 400
    /\ p.footermark = 0 => MarksTell(p) /\ p.onespace = p.zerospace
    /\ p.coding \in {"bits", "bytes"} /\ (p.coding = "bytes" => p.footermark # 0)

LEMMA WordPlaces ==
    ASSUME NEW p, Pulsed(p)
    PROVE  /\ HeaderLen(p) \in {0, 2} /\ p.width \in Nat
           /\ WordAt(p, 1) = HeaderLen(p)
           /\ WordAt(p, 2) = HeaderLen(p) + 2 * p.width
           /\ WordAt(p, 3) = HeaderLen(p) + 4 * p.width
<1>1. p.width \in Nat /\ HeaderLen(p) \in {0, 2}
    BY DEF Pulsed, HeaderLen
<1>2. /\ (1 - 1) * (2 * p.width) = 0 /\ (2 - 1) * (2 * p.width) = 2 * p.width
      /\ (3 - 1) * (2 * p.width) = 4 * p.width
    BY <1>1
<1> QED
    BY <1>1, <1>2 DEF WordAt

LEMMA BodyWords ==
    ASSUME NEW p, Sectioned(p), NEW m \in {1, 2},
           NEW words \in [1 .. m -> [1 .. p.width -> Bit]],
           NEW body, IsBody(body, p, words),
           NEW b, NEW k \in Nat, ShowsBody(b, k, body, Need(p, m)), NEW i \in 1 .. m
    PROVE  SeesBits(b, k + WordAt(p, i), p, InOrder(p, words[i]), p.width,
                    p.footermark # 0 \/ i < m)
<1> DEFINE at == WordAt(p, i)
           need == Need(p, m)
           w == p.width
           last == p.footermark # 0 \/ i < m
<1>1. w \in Nat \ {0} /\ Len(words) = m /\ i \in {1, 2} /\ i <= m
    BY DEF Sectioned, Pulsed
<1>2. at \in Nat /\ need \in Int /\ at + 2 * w - (IF last THEN 0 ELSE 1) <= need
  <2>1. /\ HeaderLen(p) \in {0, 2} /\ WordAt(p, 1) = HeaderLen(p)
        /\ WordAt(p, 2) = HeaderLen(p) + 2 * w /\ WordAt(p, 3) = HeaderLen(p) + 4 * w
      BY WordPlaces DEF Sectioned
  <2> DEFINE h == HeaderLen(p)
             foot == IF p.footermark = 0 THEN -1 ELSE 1
             more == IF last THEN 0 ELSE 1
  <2>2. need = h + m * (2 * w) + foot /\ at = h + (i - 1) * (2 * w)
    <3>1. 1 + 1 = 2 /\ 2 + 1 = 3
        OBVIOUS
    <3>2. m = 1 => WordAt(p, m + 1) = h + 2 * w
        BY <2>1, <3>1
    <3>3. m = 2 => WordAt(p, m + 1) = h + 4 * w
        BY <2>1, <3>1
    <3>4. WordAt(p, m + 1) = h + m * (2 * w)
        BY <1>1, <3>2, <3>3
    <3> QED
        BY <3>4 DEF Need, WordAt
  <2>3. /\ foot \in {-1, 1} /\ more \in {0, 1} /\ (foot = -1 /\ m = i => more = 1)
        /\ (m = i => more + foot = 0 \/ more + foot = 1)
      BY <1>1
  <2>4. h \in {0, 2}
      BY <2>1
  <2> HIDE DEF h, foot, more, w, at, need
  <2>5. at \in Nat /\ need \in Int /\ at + 2 * w - more <= need
    <3>1. CASE i = 1 /\ m = 1
        BY <1>1, <2>2, <2>3, <2>4, <3>1
    <3>2. CASE i = 2 /\ m = 2
        BY <1>1, <2>2, <2>3, <2>4, <3>2
    <3>3. CASE i = 1 /\ m = 2
      <4>1. need = h + 2 * (2 * w) + foot /\ at = h
          BY <1>1, <2>2, <2>4, <3>3
      <4> QED
          BY <1>1, <2>3, <2>4, <4>1
    <3> QED
        BY <1>1, <3>1, <3>2, <3>3
  <2> QED
      BY <2>5 DEF more
<1> HIDE DEF at, need
<1>3. ASSUME NEW j \in 1 .. w
      PROVE  /\ Sees(b[k + at + 2 * (j - 1)], Lit(MarkOf(p, InOrder(p, words[i])[j])))
             /\ last \/ j < w =>
                  Sees(b[k + at + 2 * (j - 1) + 1], Dark(SpaceOf(p, InOrder(p, words[i])[j])))
  <2> DEFINE x == at + 2 * j - 1
             bit == InOrder(p, words[i])[j]
  <2>1. body[x] = Lit(MarkOf(p, bit)) /\ body[x + 1] = Dark(SpaceOf(p, bit))
      BY <1>1 DEF IsBody, OnAir, at
  <2> HIDE DEF bit
  <2>2. x \in 1 .. need /\ k + x - 1 = k + at + 2 * (j - 1)
    <3> HIDE DEF last, w
    <3> QED
        BY <1>1, <1>2
  <2>3. k + (x + 1) - 1 = k + at + 2 * (j - 1) + 1
      BY <1>2, <1>1
  <2>4. last \/ j < w => x + 1 \in 1 .. need
      BY <1>1, <1>2
  <2> HIDE DEF x, last
  <2>5. Sees(b[k + x - 1], body[x])
      BY <2>2 DEF ShowsBody, need
  <2>6. last \/ j < w => Sees(b[k + (x + 1) - 1], body[x + 1])
      BY <2>4 DEF ShowsBody, need
  <2> QED
      BY <2>1, <2>2, <2>3, <2>5, <2>6 DEF bit
<1> QED
    BY <1>3 DEF SeesBits, at

(* One interval further, with the same data.                               *)
Passed(r) == [r EXCEPT !.next = @ + 1, !.ok = TRUE]

LEMMA PassedRead ==
    ASSUME NEW r, NEW data, NEW k \in Nat, IsRead(r, data, k)
    PROVE  IsRead(Passed(r), data, k + 1)
<1>1. IsMatch(r) /\ r.data = data /\ r.next = k
    BY DEF IsRead
<1>2. r = [ok |-> r.ok, next |-> r.next, data |-> r.data, bank |-> r.bank,
           nr |-> r.nr, bit |-> r.bit]
    BY <1>1 DEF IsMatch
<1>3. Passed(r) = [ok |-> TRUE, next |-> k + 1, data |-> data, bank |-> r.bank,
                   nr |-> r.nr, bit |-> r.bit]
  <2> DEFINE q == [ok |-> r.ok, next |-> k + 1, data |-> data, bank |-> r.bank,
                   nr |-> r.nr, bit |-> r.bit]
  <2>1. [r EXCEPT !.next = @ + 1] = q
      BY <1>1, <1>2
  <2>2. Passed(r) = [q EXCEPT !.ok = TRUE]
    <3> HIDE DEF q
    <3> QED
        BY <2>1 DEF Passed
  <2> QED
      BY <2>2
<1> QED
    BY <1>3 DEF IsRead, IsMatch

LEMMA MarkTaken ==
    ASSUME Jitter <= 100, NEW p, Tuned(p), NEW usec \in Nat, usec # 0 => usec >= 400,
           NEW b, NEW r, NEW data, NEW k \in Nat, IsRead(r, data, k),
           usec # 0 => Sees(b[k], Lit(usec))
    PROVE  IsRead(TakeMark(b, r, usec, p), data, k + Entry(usec))
<1>1. CASE usec = 0
    BY <1>1 DEF TakeMark, Entry, IsRead
<1>2. CASE usec # 0
  <2>1. matchMark(b[k], usec, p)
      BY <1>2, MarkSeen
  <2>2. r.ok /\ r.next = k /\ IsMatch(r) /\ r.data = data
      BY DEF IsRead
  <2>3. TakeMark(b, r, usec, p) = Passed(r)
      BY <1>2, <2>1, <2>2 DEF TakeMark, Passed
  <2> QED
      BY <1>2, <2>2, <2>3, PassedRead DEF Entry
<1> QED
    BY <1>1, <1>2

LEMMA SpaceTaken ==
    ASSUME Jitter <= 100, NEW p, Tuned(p), NEW usec \in Nat, usec # 0 => usec >= 400,
           NEW b, NEW r, NEW data, NEW k \in Nat, IsRead(r, data, k),
           usec # 0 => Sees(b[k], Dark(usec))
    PROVE  IsRead(TakeSpace(b, r, usec, p), data, k + Entry(usec))
<1>1. CASE usec = 0
    BY <1>1 DEF TakeSpace, Entry, IsRead
<1>2. CASE usec # 0
  <2>1. matchSpace(b[k], usec, p)
      BY <1>2, SpaceSeen
  <2>2. r.ok /\ r.next = k /\ IsMatch(r) /\ r.data = data
      BY DEF IsRead
  <2>3. TakeSpace(b, r, usec, p) = Passed(r)
      BY <1>2, <2>1, <2>2 DEF TakeSpace, Passed
  <2> QED
      BY <1>2, <2>2, <2>3, PassedRead DEF Entry
<1> QED
    BY <1>1, <1>2

LEMMA JoinedRead ==
    ASSUME NEW r, NEW data, NEW k, IsRead(r, data, k),
           NEW m, NEW word, NEW last, IsRead(m, word, last)
    PROVE  IsRead(Joined(r, m), Append(data, word), last)
<1> DEFINE j == [m EXCEPT !.data = Append(r.data, @)]
<1>1. Joined(r, m) = j
    BY DEF Joined, IsRead
<1>2. j.ok /\ j.data = Append(data, word) /\ j.next = last /\ IsMatch(j)
    BY DEF IsRead, IsMatch
<1> QED
    BY <1>1, <1>2 DEF IsRead

(* matchData() reads the word that a body has there.                       *)
LEMMA DataRead ==
    ASSUME Jitter <= 100, NEW p, Readable(p), p.msb \in BOOLEAN,
           NEW spaced, spaced \/ MarksTell(p),
           NEW nbits \in Nat \ {0}, NEW word \in [1 .. nbits -> Bit],
           NEW b, NEW r, NEW data, NEW k, IsRead(r, data, k),
           SeesBits(b, k, p, InOrder(p, word), nbits, spaced)
    PROVE  IsRead(matchData(b, r, p, nbits, spaced), word,
                  k + 2 * nbits - IF spaced THEN 0 ELSE 1)
<1> DEFINE m == matchBits(b, r, p, nbits, spaced)
           bits == InOrder(p, word)
           last == k + 2 * nbits - IF spaced THEN 0 ELSE 1
<1>1. IsMatch(r) /\ r.ok /\ r.next = k
    BY DEF IsRead
<1>2. bits \in [1 .. nbits -> Bit]
    BY OrderType
<1>3. SeesBits(b, r.next, p, bits, nbits, spaced)
    BY <1>1
<1>4. nbits \in Nat /\ nbits # 0
    OBVIOUS
<1> HIDE DEF bits
<1>5. IsRead(m, bits, r.next + 2 * nbits - IF spaced \/ nbits = 0 THEN 0 ELSE 1)
    BY <1>1, <1>2, <1>3, <1>4, WordRead
<1>6. IsRead(m, bits, last)
    BY <1>1, <1>4, <1>5
<1> HIDE DEF m, last
<1>7. IsRead(Ordered(m, p), word, last)
    BY <1>4, <1>6, OrderedBack DEF bits
<1> QED
    BY <1>7 DEF m, last, matchData

LEMMA AppendedTwo ==
    ASSUME NEW S, NEW x \in S, NEW y \in S
    PROVE  Append(Append(<<>>, x), y) = <<x, y>>
<1>1. Append(<<>>, x) = <<x>> /\ <<x>> \in Seq(S)
    OBVIOUS
<1> DEFINE s == <<x>>
<1> HIDE DEF s
<1>2. Append(s, y) = s \o <<y>>
    BY <1>1, AppendIsConcat DEF s
<1>3. <<x>> \o <<y>> = <<x, y>>
    BY TwoParts
<1> QED
    BY <1>1, <1>2, <1>3 DEF s

LEMMA WordsRead ==
    ASSUME Jitter <= 100, NEW p, Sectioned(p), NEW m \in {1, 2}, p.coding = "bits" => m = 1,
           NEW words \in [1 .. m -> [1 .. p.width -> Bit]],
           NEW body, IsBody(body, p, words),
           NEW b, NEW k \in Nat, ShowsBody(b, k, body, Need(p, m)),
           NEW end \in Nat, end - k >= Need(p, m),
           NEW r, IsRead(r, <<>>, k + HeaderLen(p))
    PROVE  IsRead(matchWords(b, r, end, p, m, p.width, p.footermark # 0), words,
                  k + Need(p, m) - Entry(p.footermark))
<1> DEFINE w == p.width
           h == HeaderLen(p)
           spaced == p.footermark # 0
<1>1. /\ w \in Nat \ {0} /\ Readable(p) /\ p.msb \in BOOLEAN /\ (spaced \/ MarksTell(p))
      /\ h \in {0, 2} /\ p.coding \in {"bits", "bytes"} /\ (p.coding = "bytes" => spaced)
      /\ r.ok /\ r.next = k + h
    BY WordPlaces DEF Sectioned, IsRead
<1>2. /\ WordAt(p, 1) = h /\ WordAt(p, 2) = h + 2 * w /\ WordAt(p, 3) = h + 4 * w
    BY WordPlaces DEF Sectioned
<1>3. /\ words[1] \in [1 .. w -> Bit]
      /\ SeesBits(b, k + h, p, InOrder(p, words[1]), w, spaced \/ 1 < m)
  <2>1. 1 \in 1 .. m
      OBVIOUS
  <2>2. SeesBits(b, k + WordAt(p, 1), p, InOrder(p, words[1]), w, spaced \/ 1 < m)
      BY <2>1, BodyWords
  <2> QED
      BY <1>2, <2>1, <2>2
<1>4. /\ Need(p, 1) \in Int /\ Entry(p.footermark) \in {0, 1} /\ (spaced => Need(p, 1) >= h + 2 * w)
      /\ Need(p, 1) - Entry(p.footermark) = h + 2 * w - IF spaced THEN 0 ELSE 1
  <2>1. 1 + 1 = 2
      OBVIOUS
  <2>2. Need(p, 1) = h + 2 * w + IF p.footermark = 0 THEN -1 ELSE 1
      BY <1>2, <2>1 DEF Need
  <2> HIDE DEF h, w
  <2> QED
      BY <1>1, <2>2 DEF Entry
<1>5. CASE m = 1
  <2> DEFINE word == matchData(b, r, p, w, spaced)
             last == k + h + 2 * w - IF spaced THEN 0 ELSE 1
  <2>1. SeesBits(b, k + h, p, InOrder(p, words[1]), w, spaced)
      BY <1>3, <1>5
  <2>2. IsRead(word, words[1], last)
    <3> HIDE DEF w, h, spaced
    <3> QED
        BY <1>1, <1>3, <2>1, DataRead DEF w, h, spaced
  <2>3. IsRead(Joined(r, word), Append(<<>>, words[1]), last)
    <3> HIDE DEF word, last
    <3> QED
        BY <2>2, JoinedRead
  <2>4. Append(<<>>, words[1]) = words
    <3>1. Append(<<>>, words[1]) = <<words[1]>>
        OBVIOUS
    <3> QED
        BY <1>5, <3>1
  <2>5. matchWords(b, r, end, p, m, w, spaced) = Joined(r, word)
    <3>1. CASE p.coding = "bits"
        BY <1>1, <1>5, <3>1 DEF matchWords
    <3>2. CASE p.coding = "bytes"
      <4>1. matchWords(b, r, end, p, m, w, spaced) = matchBytes(b, r, end, p, 1, spaced)
          BY <1>1, <1>5, <3>2 DEF matchWords
      <4>2. Enough(r, end, 1 * w * 2 + IF spaced THEN 0 ELSE 1)
        <5>1. end - k >= h + 2 * w /\ spaced
          <6> HIDE DEF w, h
          <6> QED
              BY <1>1, <1>4, <1>5, <3>2
        <5>2. 1 * w * 2 + (IF spaced THEN 0 ELSE 1) = 2 * w
            BY <1>1, <5>1
        <5> HIDE DEF w, h, spaced
        <5>3. end - r.next >= 2 * w
            BY <1>1, <5>1
        <5> QED
            BY <5>2, <5>3 DEF Enough
      <4>3. PICK upto : ByteByByte(upto, b, r, end, p, 1, spaced)
        <5>1. 1 \in Nat
            OBVIOUS
        <5> HIDE DEF spaced
        <5> QED
            BY <4>2, <5>1, BytesSteps
      <4>4. matchBytes(b, r, end, p, 1, spaced) = upto[1] /\ upto[0] = r
            /\ upto[1] = Joined(upto[1 - 1], matchData(b, upto[1 - 1], p, w, spaced \/ 1 < 1))
          BY <4>3 DEF ByteByByte
      <4>5. 1 - 1 = 0 /\ ((spaced \/ 1 < 1) = spaced)
          OBVIOUS
      <4> QED
          BY <4>1, <4>4, <4>5
    <3> QED
        BY <1>1, <3>1, <3>2
  <2>6. last = k + Need(p, m) - Entry(p.footermark)
    <3> HIDE DEF h, w, spaced
    <3> QED
        BY <1>1, <1>4, <1>5
  <2> QED
      BY <2>3, <2>4, <2>5, <2>6
<1>6. CASE m = 2
  <2>1. spaced /\ p.coding = "bytes"
      BY <1>1, <1>6
  <2>2. SeesBits(b, k + h + 2 * w, p, InOrder(p, words[2]), w, spaced) /\ words[2] \in [1 .. w -> Bit]
    <3>1. 2 \in 1 .. m
        BY <1>6
    <3>2. SeesBits(b, k + WordAt(p, 2), p, InOrder(p, words[2]), w, spaced \/ 2 < m)
        BY <3>1, BodyWords
    <3>3. k + WordAt(p, 2) = k + h + 2 * w /\ ((spaced \/ 2 < m) = spaced)
        BY <1>1, <1>2, <1>6
    <3> QED
        BY <3>1, <3>2, <3>3
  <2>3. Need(p, 2) = h + 4 * w + 1 /\ Entry(p.footermark) = 1
    <3>1. 2 + 1 = 3
        OBVIOUS
    <3> QED
        BY <1>2, <2>1, <3>1 DEF Need, Entry
  <2>4. Enough(r, end, 2 * w * 2 + IF spaced THEN 0 ELSE 1)
    <3> HIDE DEF h, w, spaced
    <3> QED
        BY <1>1, <1>6, <2>1, <2>3 DEF Enough
  <2>5. PICK upto : ByteByByte(upto, b, r, end, p, 2, spaced)
    <3>1. 2 \in Nat
        OBVIOUS
    <3> HIDE DEF spaced
    <3> QED
        BY <2>4, <3>1, BytesSteps
  <2> DEFINE one == upto[1]
             two == upto[2]
             word1 == matchData(b, r, p, w, TRUE)
             word2 == matchData(b, one, p, w, TRUE)
  <2>6. /\ matchBytes(b, r, end, p, 2, spaced) = two
        /\ one = Joined(r, word1) /\ two = Joined(one, word2)
    <3>1. /\ upto[0] = r
          /\ upto[1] = Joined(upto[1 - 1], matchData(b, upto[1 - 1], p, w, spaced \/ 1 < 2))
          /\ upto[2] = Joined(upto[2 - 1], matchData(b, upto[2 - 1], p, w, spaced \/ 2 < 2))
          /\ matchBytes(b, r, end, p, 2, spaced) = upto[2]
        BY <2>5 DEF ByteByByte
    <3>2. 1 - 1 = 0 /\ 2 - 1 = 1 /\ ((spaced \/ 1 < 2) = TRUE) /\ ((spaced \/ 2 < 2) = TRUE)
        BY <2>1
    <3> QED
        BY <3>1, <3>2
  <2> HIDE DEF one, two
  <2>7. IsRead(word1, words[1], k + h + 2 * w)
    <3>1. SeesBits(b, k + h, p, InOrder(p, words[1]), w, TRUE)
      <4>1. (spaced \/ 1 < m) = TRUE
          BY <2>1
      <4> QED
          BY <1>3, <4>1
    <3>2. TRUE \/ MarksTell(p)
        OBVIOUS
    <3>3. IsRead(word1, words[1], k + h + 2 * w - IF TRUE THEN 0 ELSE 1)
      <4> HIDE DEF w, h
      <4> QED
          BY <1>1, <1>3, <3>1, <3>2, DataRead DEF w, h
    <3>4. k + h + 2 * w - (IF TRUE THEN 0 ELSE 1) = k + h + 2 * w
        BY <1>1
    <3> QED
        BY <3>3, <3>4
  <2>8. IsRead(one, Append(<<>>, words[1]), k + h + 2 * w)
    <3> HIDE DEF word1
    <3> QED
        BY <2>6, <2>7, JoinedRead
  <2>9. IsRead(word2, words[2], k + h + 4 * w)
    <3>1. SeesBits(b, k + h + 2 * w, p, InOrder(p, words[2]), w, TRUE)
      <4>1. spaced = TRUE
          BY <2>1
      <4> QED
          BY <2>2, <4>1
    <3>2. TRUE \/ MarksTell(p)
        OBVIOUS
    <3> DEFINE at == k + h + 2 * w
    <3>3. IsRead(word2, words[2], at + 2 * w - IF TRUE THEN 0 ELSE 1)
      <4>1. IsRead(one, Append(<<>>, words[1]), at) /\ SeesBits(b, at, p, InOrder(p, words[2]), w, TRUE)
          BY <2>8, <3>1
      <4> HIDE DEF w, h, at
      <4> QED
          BY <1>1, <2>2, <3>2, <4>1, DataRead DEF w
    <3>4. at + 2 * w - (IF TRUE THEN 0 ELSE 1) = k + h + 4 * w
        BY <1>1
    <3> QED
        BY <3>3, <3>4
  <2>10. IsRead(two, Append(Append(<<>>, words[1]), words[2]), k + h + 4 * w)
    <3> HIDE DEF word2
    <3> QED
        BY <2>6, <2>8, <2>9, JoinedRead
  <2>11. Append(Append(<<>>, words[1]), words[2]) = words
    <3> DEFINE x == words[1]
               y == words[2]
    <3>1. x \in [1 .. w -> Bit] /\ y \in [1 .. w -> Bit]
        BY <1>6
    <3>2. <<words[1], words[2]>> = words
        BY <1>6
    <3> HIDE DEF x, y
    <3>3. Append(Append(<<>>, x), y) = <<x, y>>
        BY <3>1, AppendedTwo
    <3> QED
        BY <3>2, <3>3 DEF x, y
  <2>12. matchWords(b, r, end, p, m, w, spaced) = two
      BY <1>1, <1>6, <2>1, <2>6 DEF matchWords
  <2>13. k + Need(p, m) - Entry(p.footermark) = k + h + 4 * w
    <3> HIDE DEF h, w
    <3> QED
        BY <1>1, <1>6, <2>3
  <2> QED
      BY <2>10, <2>11, <2>12, <2>13
<1> QED
    BY <1>5, <1>6

(* A section: refused if it is not all there, else read, up to its gap.    *)
SectionMatch(b, r, end, p, m, gap, exact) ==
    matchGeneric(b, r, end, p, m, p.width, p.footermark, gap, exact)

LEMMA SectionNeeds ==
    ASSUME NEW p, Sectioned(p), NEW m \in {1, 2}
    PROVE  LET kexpectspace == p.footermark # 0 \/ p.onespace # p.zerospace
           IN  /\ kexpectspace = (p.footermark # 0)
               /\ m * p.width * 2 - (IF kexpectspace THEN 0 ELSE 1)
                    + Entry(p.hdrmark) + Entry(p.hdrspace) + Entry(p.footermark) = Need(p, m)
               /\ Need(p, m) \in Nat /\ Need(p, m) >= HeaderLen(p) + Entry(p.footermark)
<1> DEFINE w == p.width
           h == HeaderLen(p)
           f == Entry(p.footermark)
<1>1. /\ w \in Nat \ {0} /\ h \in {0, 2} /\ h = Entry(p.hdrmark) + Entry(p.hdrspace)
      /\ WordAt(p, 2) = h + 2 * w /\ WordAt(p, 3) = h + 4 * w
      /\ f = IF p.footermark = 0 THEN 0 ELSE 1
    BY WordPlaces DEF Sectioned, Pulsed, HeaderLen, Entry
<1>2. (p.footermark # 0 \/ p.onespace # p.zerospace) = (p.footermark # 0)
    BY DEF Sectioned
<1>3. Need(p, m) = h + m * (2 * w) + IF p.footermark = 0 THEN -1 ELSE 1
  <2>1. 1 + 1 = 2 /\ 2 + 1 = 3
      OBVIOUS
  <2>2. CASE m = 1
    <3>1. Need(p, m) = h + 2 * w + IF p.footermark = 0 THEN -1 ELSE 1
        BY <1>1, <2>1, <2>2 DEF Need
    <3> QED
        BY <1>1, <2>2, <3>1
  <2>3. CASE m = 2
    <3>1. Need(p, m) = h + 4 * w + IF p.footermark = 0 THEN -1 ELSE 1
        BY <1>1, <2>1, <2>3 DEF Need
    <3>2. 2 * (2 * w) = 4 * w
        BY <1>1
    <3> QED
        BY <2>3, <3>1, <3>2
  <2> QED
      BY <2>2, <2>3
<1>4. Entry(p.hdrmark) \in {0, 1} /\ Entry(p.hdrspace) \in {0, 1}
    BY DEF Entry
<1> HIDE DEF w, h, f
<1>5. m * w * 2 = m * (2 * w) /\ m * (2 * w) \in Nat /\ m * (2 * w) >= 2
    BY <1>1
<1>6. m * w * 2 - (IF p.footermark # 0 THEN 0 ELSE 1)
         + Entry(p.hdrmark) + Entry(p.hdrspace) + f = Need(p, m)
    BY <1>1, <1>3, <1>4, <1>5
<1>7. Need(p, m) \in Nat /\ Need(p, m) >= h + f
    BY <1>1, <1>3, <1>5
<1> QED
    BY <1>2, <1>6, <1>7 DEF w, h, f

LEMMA HeaderRead ==
    ASSUME Jitter <= 100, NEW p, Sectioned(p), NEW words, NEW body, IsBody(body, p, words),
           NEW b, NEW k \in Nat, NEW need \in Nat, need >= HeaderLen(p),
           ShowsBody(b, k, body, need), NEW r, NEW data, IsRead(r, data, k)
    PROVE  IsRead(TakeSpace(b, TakeMark(b, r, p.hdrmark, p), p.hdrspace, p), data,
                  k + HeaderLen(p))
<1> DEFINE lit == TakeMark(b, r, p.hdrmark, p)
<1>1. /\ p.hdrmark \in Nat /\ p.hdrspace \in Nat /\ Tuned(p)
      /\ p.hdrmark # 0 => p.hdrmark >= 400
      /\ p.hdrspace # 0 => p.hdrspace >= 400
      /\ p.hdrmark = 0 <=> p.hdrspace = 0
  <2>1. Timed(p) /\ Readable(p) /\ (p.hdrmark = 0 <=> p.hdrspace = 0)
        /\ (p.hdrmark # 0 => p.hdrmark >= 400 /\ p.hdrspace >= 400)
      BY DEF Sectioned, Pulsed
  <2>2. p.hdrmark \in Times \cup {0} /\ p.hdrspace \in Times \cup {0}
      BY <2>1 DEF Timed
  <2> QED
      BY <2>1, <2>2 DEF Readable, Times
<1>2. p.hdrmark # 0 => Sees(b[k], Lit(p.hdrmark)) /\ Sees(b[k + 1], Dark(p.hdrspace))
  <2> SUFFICES ASSUME p.hdrmark # 0
               PROVE  Sees(b[k], Lit(p.hdrmark)) /\ Sees(b[k + 1], Dark(p.hdrspace))
      OBVIOUS
  <2>1. 1 \in 1 .. need /\ 2 \in 1 .. need /\ k + 1 - 1 = k /\ k + 2 - 1 = k + 1
      BY DEF HeaderLen
  <2>2. Sees(b[k + 1 - 1], body[1]) /\ Sees(b[k + 2 - 1], body[2])
      BY <2>1 DEF ShowsBody
  <2> QED
      BY <2>1, <2>2 DEF IsBody
<1>3. IsRead(lit, data, k + Entry(p.hdrmark))
    BY <1>1, <1>2, MarkTaken
<1>4. k + Entry(p.hdrmark) \in Nat /\ (p.hdrspace # 0 => k + Entry(p.hdrmark) = k + 1)
    BY <1>1 DEF Entry
<1> HIDE DEF lit
<1> DEFINE at == k + Entry(p.hdrmark)
<1>5. IsRead(TakeSpace(b, lit, p.hdrspace, p), data, at + Entry(p.hdrspace))
  <2>1. p.hdrspace # 0 => Sees(b[at], Dark(p.hdrspace))
      BY <1>1, <1>2, <1>4
  <2>2. at \in Nat /\ IsRead(lit, data, at)
      BY <1>3, <1>4
  <2> HIDE DEF at
  <2> QED
      BY <1>1, <2>1, <2>2, SpaceTaken
<1>6. at + Entry(p.hdrspace) = k + HeaderLen(p)
    BY <1>1 DEF Entry, HeaderLen
<1> QED
    BY <1>5, <1>6 DEF lit

SectionReads(b, r, k, end, p, m, words, gap, exact) ==
    /\ ~(end - k >= Need(p, m)) => SectionMatch(b, r, end, p, m, gap, exact) = Failed(r)
    /\ end - k >= Need(p, m) =>
          \E foot : /\ IsRead(foot, words, k + Need(p, m))
                    /\ SectionMatch(b, r, end, p, m, gap, exact) = TakeGap(b, foot, end, gap, p, exact)

LEMMA SectionRead ==
    ASSUME Jitter <= 100, NEW p, Sectioned(p), NEW m \in {1, 2}, p.coding = "bits" => m = 1,
           NEW words \in [1 .. m -> [1 .. p.width -> Bit]],
           NEW body, IsBody(body, p, words),
           NEW b, NEW k \in Nat, NEW end \in Nat,
           end - k >= Need(p, m) => ShowsBody(b, k, body, Need(p, m)),
           NEW r, IsRead(r, <<>>, k), NEW gap, NEW exact
    PROVE  SectionReads(b, r, k, end, p, m, words, gap, exact)
<1> DEFINE header == TakeSpace(b, TakeMark(b, r, p.hdrmark, p), p.hdrspace, p)
           spaced == p.footermark # 0
           read == matchWords(b, header, end, p, m, p.width, spaced)
           foot == TakeMark(b, read, p.footermark, p)
           need == Need(p, m)
<1>1. SectionMatch(b, r, end, p, m, gap, exact)
        = IF ~Enough(r, end, need) THEN Failed(r) ELSE TakeGap(b, foot, end, gap, p, exact)
    BY SectionNeeds DEF SectionMatch, matchGeneric
<1>2. need \in Nat /\ need >= HeaderLen(p) + Entry(p.footermark)
      /\ HeaderLen(p) \in Nat /\ Entry(p.footermark) \in {0, 1}
    BY SectionNeeds DEF HeaderLen, Entry
<1>3. Enough(r, end, need) <=> end - k >= need
    BY DEF Enough, IsRead
<1>4. ASSUME end - k >= need PROVE IsRead(foot, words, k + need)
  <2>1. ShowsBody(b, k, body, need)
      BY <1>4
  <2>2. IsRead(header, <<>>, k + HeaderLen(p))
    <3> HIDE DEF need
    <3> QED
        BY <1>2, <2>1, HeaderRead
  <2> HIDE DEF header
  <2>3. IsRead(read, words, k + need - Entry(p.footermark))
      BY <1>4, <2>1, <2>2, WordsRead
  <2> HIDE DEF read
  <2> DEFINE at == k + need - Entry(p.footermark)
  <2>4. p.footermark \in Nat /\ (p.footermark # 0 => p.footermark >= 400) /\ Tuned(p)
      BY DEF Sectioned, Pulsed, Timed, Readable, Times
  <2>5. at \in Nat
    <3> HIDE DEF need
    <3> QED
        BY <1>2
  <2>6. p.footermark # 0 => Sees(b[at], Lit(p.footermark))
    <3> SUFFICES ASSUME p.footermark # 0 PROVE Sees(b[at], Lit(p.footermark))
        OBVIOUS
    <3>1. Len(words) = m /\ WordAt(p, m + 1) \in Int
      <4>1. WordAt(p, 2) \in Int /\ WordAt(p, 3) \in Int
          BY WordPlaces DEF Sectioned
      <4>2. 1 + 1 = 2 /\ 2 + 1 = 3
          OBVIOUS
      <4>3. Len(words) = m
          OBVIOUS
      <4>4. m = 1 => WordAt(p, m + 1) \in Int
          BY <4>1, <4>2
      <4>5. m = 2 => WordAt(p, m + 1) \in Int
          BY <4>1, <4>2
      <4> QED
          BY <4>3, <4>4, <4>5
    <3>2. need = WordAt(p, m + 1) + 1 /\ Entry(p.footermark) = 1
        BY <3>1 DEF Need, Entry
    <3>3. Len(body) = need /\ body[Len(body)] = Lit(p.footermark)
        BY <3>1, <3>2 DEF IsBody
    <3>4. need \in 1 .. need /\ k + need - 1 = at
        BY <1>2, <3>2
    <3> HIDE DEF need, at
    <3>5. Sees(b[k + need - 1], body[need])
        BY <2>1, <3>4 DEF ShowsBody
    <3> QED
        BY <3>3, <3>4, <3>5
  <2>7. IsRead(read, words, at)
      BY <2>3
  <2> HIDE DEF at
  <2>8. IsRead(foot, words, at + Entry(p.footermark))
      BY <2>4, <2>5, <2>6, <2>7, MarkTaken
  <2>9. at + Entry(p.footermark) = k + need
    <3> HIDE DEF need
    <3> QED
        BY <1>2 DEF at
  <2> QED
      BY <2>8, <2>9
<1> HIDE DEF foot
<1> QED
    BY <1>1, <1>3, <1>4 DEF SectionReads

GapReads(b, r, k, data, end, p, gap, exact) ==
    /\ TakeGap(b, r, end, gap, p, exact).data = data
    /\ k >= end => IsRead(TakeGap(b, r, end, gap, p, exact), data, k)
    /\ k < end => \A t \in Nat : t >= gap /\ (exact => t = gap) /\ Sees(b[k], Dark(t))
                                 => IsRead(TakeGap(b, r, end, gap, p, exact), data, k + 1)

LEMMA GapRead ==
    ASSUME Jitter <= 100, NEW p, Tuned(p), NEW b, NEW r, NEW data, NEW k \in Nat,
           IsRead(r, data, k), NEW end \in Nat, NEW gap \in Nat, gap >= 1000, NEW exact
    PROVE  GapReads(b, r, k, data, end, p, gap, exact)
<1>1. r.ok /\ r.next = k /\ r.data = data /\ IsMatch(r)
    BY DEF IsRead
<1>2. TakeGap(b, r, end, gap, p, exact).data = data
  <2>1. CASE k >= end
      BY <1>1, <2>1 DEF TakeGap
  <2>2. CASE ~(k >= end)
    <3> DEFINE good == IF exact THEN matchSpace(b[r.next], gap, p)
                                ELSE matchAtLeast(b[r.next], gap, p)
               next == [r EXCEPT !.next = @ + 1]
    <3>1. next.data = data /\ next \in [ok : {r.ok}, next : {r.next + 1}, data : {data},
                                        bank : {r.bank}, nr : {r.nr}, bit : {r.bit}]
      <4>1. r = [ok |-> r.ok, next |-> r.next, data |-> data, bank |-> r.bank,
                 nr |-> r.nr, bit |-> r.bit]
          BY <1>1 DEF IsMatch
      <4>2. next = [ok |-> r.ok, next |-> r.next + 1, data |-> data, bank |-> r.bank,
                    nr |-> r.nr, bit |-> r.bit]
          BY <4>1
      <4> HIDE DEF next
      <4> QED
          BY <4>2
    <3>2. TakeGap(b, r, end, gap, p, exact) = [next EXCEPT !.ok = good]
        BY <1>1, <2>2 DEF TakeGap
    <3> HIDE DEF next, good
    <3>3. [next EXCEPT !.ok = good].data = data
        BY <3>1
    <3> QED
        BY <3>2, <3>3
  <2> QED
      BY <2>1, <2>2
<1>3. ASSUME k >= end PROVE IsRead(TakeGap(b, r, end, gap, p, exact), data, k)
  <2>1. TakeGap(b, r, end, gap, p, exact) = r
      BY <1>1, <1>3 DEF TakeGap
  <2> QED
      BY <2>1
<1>4. ASSUME k < end, NEW t \in Nat, t >= gap, exact => t = gap, Sees(b[k], Dark(t))
      PROVE  IsRead(TakeGap(b, r, end, gap, p, exact), data, k + 1)
  <2>1. exact => matchSpace(b[k], gap, p)
      BY <1>4, SpaceSeen
  <2>2. matchAtLeast(b[k], gap, p)
      BY <1>4, GapSeen
  <2>3. TakeGap(b, r, end, gap, p, exact) = Passed(r)
    <3> DEFINE good == IF exact THEN matchSpace(b[r.next], gap, p)
                                ELSE matchAtLeast(b[r.next], gap, p)
    <3>1. good = TRUE
        BY <1>1, <2>1, <2>2 DEF matchSpace, matchAtLeast, match
    <3>2. ~(gap = 0 \/ ~r.ok \/ r.next >= end)
        BY <1>1, <1>4
    <3>3. TakeGap(b, r, end, gap, p, exact) = [r EXCEPT !.next = @ + 1, !.ok = good]
        BY <3>2, Zenon DEF TakeGap
    <3> HIDE DEF good
    <3> QED
        BY <3>1, <3>3 DEF Passed
  <2> QED
      BY <2>3, PassedRead
<1> QED
    BY <1>2, <1>3, <1>4 DEF GapReads

-----------------------------------------------------------------------------
(* A message as it is read.                                                *)
SeesAll(b, end, first) == \A j \in 1 .. Len(first) : j <= end => Sees(b[j - 1], first[j])

Leads(p) ==
    p.lead # <<>> => /\ p.lead[1] \in Nat /\ p.lead[1] >= 400
                     /\ p.lead[2] \in Nat /\ p.lead[2] >= 400

LEMMA LeadRead ==
    ASSUME Jitter <= 100, NEW p, Tuned(p), Leads(p), NEW b,
           p.lead # <<>> => Sees(b[0], Lit(p.lead[1])) /\ Sees(b[1], Dark(p.lead[2]))
    PROVE  IsRead(matchLead(b, p), <<>>, LeadLen(p))
<1>1. IsRead(From(0), <<>>, 0)
    BY DEF IsRead, From, IsMatch
<1>2. CASE p.lead = <<>>
    BY <1>1, <1>2 DEF matchLead, LeadLen
<1>3. CASE p.lead # <<>>
  <2> DEFINE lit == TakeMark(b, From(0), p.lead[1], p)
             t == p.lead[1]
             u == p.lead[2]
  <2>1. t \in Nat /\ t >= 400 /\ u \in Nat /\ u >= 400
        /\ Sees(b[0], Lit(t)) /\ Sees(b[1], Dark(u))
      BY <1>3 DEF Leads
  <2>2. Entry(t) = 1 /\ Entry(u) = 1
      BY <2>1 DEF Entry
  <2>3. IsRead(lit, <<>>, 0 + Entry(t))
    <3>1. 0 \in Nat
        OBVIOUS
    <3> HIDE DEF t
    <3> QED
        BY <1>1, <2>1, <3>1, MarkTaken DEF t
  <2>4. 0 + Entry(t) = 1 /\ 1 + Entry(u) = 2 /\ 1 \in Nat
      BY <2>2
  <2> DEFINE all == TakeSpace(b, lit, u, p)
  <2>5. IsRead(all, <<>>, 1 + Entry(u))
    <3>1. IsRead(lit, <<>>, 1)
        BY <2>3, <2>4
    <3> HIDE DEF lit, u
    <3> QED
        BY <2>1, <2>4, <3>1, SpaceTaken
  <2>6. matchLead(b, p) = all
      BY <1>3 DEF matchLead
  <2> HIDE DEF all
  <2> QED
      BY <1>3, <2>4, <2>5, <2>6 DEF LeadLen
<1> QED
    BY <1>2, <1>3

(* What is decoded of a message: itself or nothing, and itself if only the *)
(* gap behind it may be missing.                                           *)
ReadsBack(d, end, first, m) ==
    /\ end + 1 >= Len(first) => d.ok
    /\ d.ok => d.data = m

Shortest(p, least) ==
    p.shortest \in Nat /\ p.shortest <= least /\ (p.lead # <<>> => p.shortest >= 2)

(* A protocol of one word, whose bits are read by matchData().             *)
OneWord(p) ==
    /\ Sectioned(p) /\ p.coding = "bits" /\ p.words = <<1>> /\ p.trail = <<>> /\ Leads(p)
    /\ p.gaps[1] \in Times /\ p.gaps[1] >= 1000 /\ ~p.exactgap[1]
    /\ Shortest(p, LeadLen(p) + Need(p, 1))

(* The first time that it is heard: so many intervals that are looked at,  *)
(* and the gap.                                                            *)
WordHeard(first, light, p) ==
    /\ Len(first) = LeadLen(p) + Need(p, 1) + 1
    /\ \A j \in 1 .. LeadLen(p) + Need(p, 1) : first[j] = light[j]
    /\ \E u \in Nat : u >= p.gaps[1] /\ first[Len(first)] = Dark(u)

LEMMA OneWordHeard ==
    ASSUME NEW p, OneWord(p), NEW m, IsSingle(m, p), NEW light, NEW body, NEW t,
           Laid(light, body, t, p, m[1]), NEW first, Heards(first, light, t)
    PROVE  WordHeard(first, light, p)
<1> DEFINE w == p.width
           h == HeaderLen(p)
           l == LeadLen(p)
           need == Need(p, 1)
           n == Len(light)
<1>1. w \in Nat \ {0} /\ h \in {0, 2} /\ l \in {0, 2} /\ Pulsed(p)
    BY WordPlaces DEF OneWord, Sectioned, LeadLen
<1>2. m[1] \in [1 .. 1 -> [1 .. w -> Bit]]
    BY DEF IsSingle
<1>3. n = l + h + 2 * w + Entry(p.footermark) /\ n \in Nat
    BY <1>1, <1>2, LaidLong
<1>4. need = h + 2 * w + IF p.footermark = 0 THEN -1 ELSE 1
  <2>1. 1 + 1 = 2
      OBVIOUS
  <2> QED
      BY <1>1, <2>1, WordPlaces DEF Need
<1>5. t \in Nat /\ t >= p.gaps[1] /\ p.gaps[1] \in Nat
    BY DEF Laid, OneWord, Times
<1>6. CASE p.footermark = 0
  <2>1. n = l + h + 2 * w /\ need = h + 2 * w - 1
    <3>1. Entry(p.footermark) = 0
        BY <1>6 DEF Entry
    <3> HIDE DEF l, h, w, n, need
    <3> QED
        BY <1>1, <1>3, <1>4, <1>6, <3>1
  <2>2. n % 2 = 0
    <3> DEFINE half == (IF l = 0 THEN 0 ELSE 1) + (IF h = 0 THEN 0 ELSE 1) + w
    <3>1. half \in Nat /\ n = 2 * half
      <4> HIDE DEF l, h, w, n
      <4> QED
          BY <1>1, <2>1
    <3> HIDE DEF half, n
    <3> QED
        BY <3>1, Parity
  <2>3. Len(first) = n /\ first[n] = Dark(light[n].usec + t)
        /\ \A k \in 1 .. n - 1 : first[k] = light[k]
      BY <2>2 DEF Heards
  <2>4. light[n].usec \in Nat
    <3>1. n \in 1 .. Len(light)
      <4> HIDE DEF l, h, w
      <4> QED
          BY <1>1, <1>3, <2>1
    <3>2. light[n] \in Part
        BY <3>1 DEF Laid
    <3> QED
        BY <3>2 DEF Part, Times
  <2>5. n = l + need + 1 /\ n - 1 = l + need
    <3> HIDE DEF l, h, w, n, need
    <3> QED
        BY <1>1, <2>1
  <2>6. light[n].usec + t \in Nat /\ light[n].usec + t >= p.gaps[1]
      BY <1>5, <2>4
  <2> HIDE DEF l, n, need
  <2> QED
      BY <2>3, <2>5, <2>6 DEF l, need, WordHeard
<1>7. CASE p.footermark # 0
  <2>1. n = l + h + 2 * w + 1 /\ need = h + 2 * w + 1
    <3>1. Entry(p.footermark) = 1
        BY <1>7 DEF Entry
    <3> HIDE DEF l, h, w, n, need
    <3> QED
        BY <1>1, <1>3, <1>4, <1>7, <3>1
  <2>2. n % 2 = 1
    <3> DEFINE half == (IF l = 0 THEN 0 ELSE 1) + (IF h = 0 THEN 0 ELSE 1) + w
    <3>1. half \in Nat /\ n = 2 * half + 1
      <4> HIDE DEF l, h, w, n
      <4> QED
          BY <1>1, <2>1
    <3> HIDE DEF half, n
    <3> QED
        BY <3>1, Parity
  <2>3. Len(first) = n + 1 /\ first[n + 1] = Dark(t)
        /\ \A k \in 1 .. n : first[k] = light[k]
      BY <2>2 DEF Heards
  <2>4. n + 1 = l + need + 1 /\ n = l + need
    <3> HIDE DEF l, h, w, n, need
    <3> QED
        BY <1>1, <2>1
  <2> HIDE DEF l, n, need
  <2> QED
      BY <1>5, <2>3, <2>4 DEF l, need, WordHeard
<1> QED
    BY <1>6, <1>7

LEMMA OneWordRead ==
    ASSUME Jitter <= 100, NEW p, OneWord(p), NEW m, IsSingle(m, p),
           NEW light, NEW body, NEW t, Laid(light, body, t, p, m[1]),
           NEW first, Heards(first, light, t),
           NEW b, NEW end \in Nat, SeesAll(b, end, first)
    PROVE  ReadsBack(matchMessage(b, end, p), end, first, m)
<1> DEFINE l == LeadLen(p)
           need == Need(p, 1)
           d == matchMessage(b, end, p)
<1>1. /\ Len(first) = l + need + 1 /\ (\A j \in 1 .. l + need : first[j] = light[j])
      /\ l \in {0, 2} /\ need \in Nat \ {0}
  <2>1. Need(p, 1) \in Nat /\ Need(p, 1) # 0
    <3>1. 1 + 1 = 2
        OBVIOUS
    <3>2. p.width \in Nat \ {0} /\ HeaderLen(p) \in {0, 2}
          /\ Need(p, 1) = HeaderLen(p) + 2 * p.width + IF p.footermark = 0 THEN -1 ELSE 1
        BY <3>1, WordPlaces DEF Need, OneWord, Sectioned
    <3> QED
        BY <3>2
  <2>2. WordHeard(first, light, p)
      BY OneWordHeard
  <2>3. LeadLen(p) \in {0, 2}
      BY DEF LeadLen
  <2> QED
      BY <2>1, <2>2, <2>3 DEF WordHeard
<1>2. PICK u \in Nat : u >= p.gaps[1] /\ first[l + need + 1] = Dark(u)
  <2>1. WordHeard(first, light, p)
      BY OneWordHeard
  <2> QED
      BY <1>1, <2>1 DEF WordHeard
<1>3. /\ p.shortest \in Nat /\ p.shortest <= l + need /\ (p.lead # <<>> => p.shortest >= 2)
      /\ p.words = <<1>> /\ Len(p.words) = 1 /\ p.words[1] = 1 /\ p.coding = "bits"
      /\ Sectioned(p) /\ Tuned(p) /\ Leads(p) /\ p.gaps[1] \in Nat /\ p.gaps[1] >= 1000
      /\ ~p.exactgap[1] /\ Timed(p) /\ Pulsed(p)
    BY DEF OneWord, Shortest, Sectioned, Readable, Pulsed, Times
<1>4. CASE end < p.shortest
  <2>1. d = Failed(From(0))
      BY <1>4 DEF matchMessage
  <2>2. ~d.ok
    <3> HIDE DEF d
    <3> QED
        BY <2>1 DEF Failed, From
  <2>3. ~(end + 1 >= Len(first))
    <3> HIDE DEF l, need
    <3> QED
        BY <1>1, <1>3, <1>4
  <2> HIDE DEF d
  <2> QED
      BY <2>2, <2>3 DEF ReadsBack, d
<1>5. CASE ~(end < p.shortest)
  <2> DEFINE lead == matchLead(b, p)
             bare == [lead EXCEPT !.data = <<>>]
             s == SectionMatch(b, bare, end, p, 1, p.gaps[1], p.exactgap[1])
  <2>1. IsRead(lead, <<>>, l)
    <3>1. p.lead # <<>> => Sees(b[0], Lit(p.lead[1])) /\ Sees(b[1], Dark(p.lead[2]))
      <4> SUFFICES ASSUME p.lead # <<>>
                   PROVE  Sees(b[0], Lit(p.lead[1])) /\ Sees(b[1], Dark(p.lead[2]))
          OBVIOUS
      <4>1. l = 2 /\ end >= 2
          BY <1>3, <1>5 DEF LeadLen
      <4>2. 1 \in 1 .. Len(first) /\ 2 \in 1 .. Len(first) /\ 1 \in 1 .. l + need /\ 2 \in 1 .. l + need
        <5> HIDE DEF l, need
        <5> QED
            BY <1>1, <4>1
      <4>3. Sees(b[1 - 1], first[1]) /\ Sees(b[2 - 1], first[2])
          BY <4>1, <4>2 DEF SeesAll
      <4>4. first[1] = light[1] /\ first[2] = light[2]
          BY <1>1, <4>2
      <4>5. light[1] = Lit(p.lead[1]) /\ light[2] = Dark(p.lead[2])
        <5>1. Len(Pair(p.lead)) = 2 /\ Pair(p.lead)[1] = Lit(p.lead[1])
              /\ Pair(p.lead)[2] = Dark(p.lead[2])
          <6>1. Timed(p)
              BY <1>3
          <6>2. p.lead # <<>> /\ LeadLen(p) = 2
              BY <4>1
          <6> HIDE DEF l
          <6> QED
              BY <6>1, <6>2, LeadOnAir
        <5>2. Behind(light, Pair(p.lead), body)
            BY DEF Laid
        <5> QED
            BY <5>1, <5>2 DEF Behind
      <4> QED
          BY <4>3, <4>4, <4>5
    <3> HIDE DEF lead
    <3> QED
        BY <1>3, <3>1, LeadRead DEF lead
  <2>2. IsRead(bare, <<>>, l)
    <3> HIDE DEF lead
    <3> QED
        BY <2>1 DEF IsRead, IsMatch
  <2>3. d = Joined(lead, s)
    <3>1. PICK upto : SectionBySection(upto, b, end, p)
      <4>1. Len(p.words) \in Nat
          BY <1>3
      <4> QED
          BY <1>5, <4>1, MessageSteps
    <3>2. d = upto[1] /\ upto[0] = lead /\ upto[1] = SectionAfter(b, upto[1 - 1], end, p, 1)
        BY <1>3, <3>1 DEF SectionBySection
    <3>3. 1 - 1 = 0
        OBVIOUS
    <3>4. SectionAfter(b, lead, end, p, 1) = Joined(lead, matchSection(b, bare, end, p, 1))
        BY DEF SectionAfter
    <3>5. bare.ok
        BY <2>2 DEF IsRead
    <3> HIDE DEF bare
    <3>6. matchSection(b, bare, end, p, 1) = s
        BY <1>3, <3>5 DEF matchSection, SectionMatch
    <3> QED
        BY <3>2, <3>3, <3>4, <3>6
  <2> HIDE DEF d, lead, bare
  <2>4. end - l >= need => ShowsBody(b, l, body, need)
    <3> SUFFICES ASSUME end - l >= need, NEW j \in 1 .. need PROVE Sees(b[l + j - 1], body[j])
        BY DEF ShowsBody
    <3> DEFINE i == l + j
    <3>1. i \in 1 .. l + need /\ i <= end /\ i \in 1 .. Len(first)
      <4> HIDE DEF l, need
      <4> QED
          BY <1>1
    <3>2. Sees(b[i - 1], light[i]) /\ i - 1 = l + j - 1
      <4>1. first[i] = light[i]
          BY <1>1, <3>1
      <4>2. i - 1 = l + j - 1
        <5> HIDE DEF l
        <5> QED
            BY <1>1
      <4> HIDE DEF i, l
      <4> QED
          BY <3>1, <4>1, <4>2 DEF SeesAll
    <3>3. light[i] = body[j]
      <4>1. Len(Pair(p.lead)) = l
          BY <1>3, LeadOnAir
      <4>2. j \in 1 .. Len(body)
        <5>1. Len(body) = Len(light) - l /\ Len(light) \in Nat /\ Len(body) \in Nat
            BY <1>1, <4>1 DEF Laid, Behind, IsBody
        <5>2. l + need <= Len(light)
          <6>1. Len(light) % 2 \in {0, 1}
              BY <5>1, Parity
          <6>2. Len(first) <= Len(light) + 1
              BY <5>1, <6>1 DEF Heards
          <6> HIDE DEF l, need
          <6> QED
              BY <1>1, <5>1, <6>2
        <5> HIDE DEF l, need
        <5> QED
            BY <1>1, <5>1, <5>2
      <4> HIDE DEF l
      <4> QED
          BY <4>1, <4>2 DEF Laid, Behind
    <3> HIDE DEF i, l
    <3> QED
        BY <3>2, <3>3
  <2>5. m[1] \in [1 .. 1 -> [1 .. p.width -> Bit]] /\ Append(<<>>, m[1]) = m
    <3>1. m = <<m[1]>> /\ m[1] \in [1 .. 1 -> [1 .. p.width -> Bit]]
        BY DEF IsSingle
    <3> QED
        BY <3>1
  <2>6. /\ ~(end - l >= need) => s = Failed(bare)
        /\ end - l >= need => \E foot : /\ IsRead(foot, m[1], l + need)
                                        /\ s = TakeGap(b, foot, end, p.gaps[1], p, p.exactgap[1])
    <3> DEFINE words == m[1]
               n == 1
               gap == p.gaps[1]
               exact == p.exactgap[1]
    <3>1. IsBody(body, p, words) /\ l \in Nat /\ n \in {1, 2} /\ Sectioned(p)
          /\ words \in [1 .. n -> [1 .. p.width -> Bit]] /\ IsRead(bare, <<>>, l)
          /\ (p.coding = "bits" => n = 1)
          /\ (end - l >= Need(p, n) => ShowsBody(b, l, body, Need(p, n)))
        BY <1>1, <1>3, <2>2, <2>4, <2>5 DEF Laid
    <3> HIDE DEF l, words, n, gap, exact
    <3>2. SectionReads(b, bare, l, end, p, n, words, gap, exact)
        BY <3>1, SectionRead
    <3> QED
        BY <3>2 DEF words, n, gap, exact, SectionReads
  <2> HIDE DEF s
  <2>7. CASE end - l >= need
    <3>1. PICK foot : /\ IsRead(foot, m[1], l + need)
                      /\ s = TakeGap(b, foot, end, p.gaps[1], p, p.exactgap[1])
        BY <2>6, <2>7
    <3> DEFINE at == l + need
               exact == p.exactgap[1]
    <3>2. at \in Nat /\ IsRead(foot, m[1], at) /\ ~exact
        BY <1>1, <1>3, <3>1
    <3>3. at < end => Sees(b[at], Dark(u))
      <4>1. at + 1 \in 1 .. Len(first) /\ (at + 1) - 1 = at
        <5> HIDE DEF l, need
        <5> QED
            BY <1>1
      <4>2. at < end => at + 1 <= end
          BY <3>2
      <4> QED
          BY <1>2, <4>1, <4>2 DEF SeesAll
    <3> HIDE DEF at, exact
    <3>4. /\ at >= end => IsRead(TakeGap(b, foot, end, p.gaps[1], p, exact), m[1], at)
          /\ at < end => IsRead(TakeGap(b, foot, end, p.gaps[1], p, exact), m[1], at + 1)
      <4> DEFINE gap == p.gaps[1]
                 data == m[1]
      <4>1. gap \in Nat /\ gap >= 1000 /\ IsRead(foot, data, at) /\ Tuned(p) /\ u >= gap
          BY <1>2, <1>3, <3>2
      <4> HIDE DEF gap, data
      <4>2. GapReads(b, foot, at, data, end, p, gap, exact)
          BY <3>2, <4>1, GapRead
      <4> QED
          BY <3>2, <3>3, <4>1, <4>2 DEF gap, data, GapReads
    <3>5. \E k : IsRead(s, m[1], k)
        BY <3>1, <3>2, <3>4 DEF exact
    <3>6. PICK k : IsRead(s, m[1], k)
        BY <3>5
    <3>7. IsRead(Joined(lead, s), Append(<<>>, m[1]), k)
        BY <2>1, <3>6, JoinedRead
    <3> QED
        BY <2>3, <2>5, <3>7 DEF IsRead, ReadsBack, d
  <2>8. CASE ~(end - l >= need)
    <3>1. ~s.ok
        BY <2>2, <2>6, <2>8 DEF Failed, IsRead, IsMatch
    <3>2. ~d.ok
        BY <2>1, <2>3, <3>1 DEF Joined, Failed, IsRead, IsMatch
    <3>3. ~(end + 1 >= Len(first))
      <4> HIDE DEF l, need
      <4> QED
          BY <1>1, <2>8
    <3> QED
        BY <3>2, <3>3 DEF ReadsBack, d
  <2> QED
      BY <2>7, <2>8
<1> QED
    BY <1>4, <1>5

-----------------------------------------------------------------------------
(* A message is understood: the intervals heard of it begin with those of  *)
(* its first sending, and whoever sees those reads it back.                *)
Understood(p, m) ==
    LET once == Intervals(sendMessage(p, m))
    IN  /\ once \in Seq(Part) /\ Intervals(sendGeneric(p, m)) \in Seq(Part)
        /\ Begins(Intervals(sendGeneric(p, m)), once)
        /\ \A b : \A end \in Nat :
             SeesAll(b, end, once) => ReadsBack(matchMessage(b, end, p), end, once, m)

LEMMA OneWordUnderstood ==
    ASSUME Jitter <= 100, NEW p, OneWord(p), p.repeat \in Nat, NEW m, IsSingle(m, p)
    PROVE  Understood(p, m)
<1> DEFINE once == Intervals(sendMessage(p, m))
<1>1. Pulsed(p) /\ p.width # 0 /\ p.gaps[1] \in Times /\ p.trail = <<>> /\ p.repeat \in Nat
    BY DEF OneWord, Sectioned
<1>2. PICK light, body, t : /\ Laid(light, body, t, p, m[1])
                            /\ sendMessage(p, m) = light \o <<Dark(t)>>
    BY <1>1, SingleOnAir
<1>3. m[1] \in [1 .. 1 -> [1 .. p.width -> Bit]]
    BY DEF IsSingle
<1>4. light \in Seq(Part) /\ Alternates(light) /\ light # <<>> /\ t \in Times
  <2>1. Len(light) >= 2
      BY <1>1, <1>2, <1>3, LaidLong
  <2> QED
      BY <1>2, <2>1 DEF Laid
<1>5. /\ Heards(once, light, t) /\ Intervals(sendGeneric(p, m)) \in Seq(Part)
      /\ Begins(Intervals(sendGeneric(p, m)), once)
    BY <1>1, <1>2, <1>4, GenericHeard
<1> HIDE DEF once
<1>6. ASSUME NEW b, NEW end \in Nat, SeesAll(b, end, once)
      PROVE  ReadsBack(matchMessage(b, end, p), end, once, m)
    BY <1>2, <1>5, <1>6, OneWordRead
<1> QED
    BY <1>5, <1>6 DEF Understood, once, Heards

-----------------------------------------------------------------------------
(* A protocol whose bits last equally long: all but the last are read by   *)
(* matchGeneric(), the last by its mark alone, for its space is one with   *)
(* the gap.                                                                *)
ConstBit(p) ==
    /\ Pulsed(p) /\ Readable(p) /\ MarksTell(p) /\ p.coding = "constbit" /\ p.words = <<1>>
    /\ p.lead = <<>> /\ p.trail = <<>> /\ p.hdrmark = 0 /\ p.hdrspace = 0 /\ p.footermark = 0
    /\ p.msb = TRUE /\ [p EXCEPT !.msb = TRUE] = p /\ p.onespace # p.zerospace
    /\ p.width \in Nat \ {0, 1} /\ p.gaps[1] \in Times /\ p.gaps[1] >= 1000 /\ ~p.exactgap[1]
    /\ p.shortest \in Nat /\ p.shortest <= 2 * p.width - 1

ConstHeard(first, bits, p) ==
    /\ Len(first) = 2 * p.width
    /\ \A j \in 1 .. p.width :
         /\ first[2 * j - 1] = Lit(MarkOf(p, bits[j]))
         /\ j < p.width => first[2 * j] = Dark(SpaceOf(p, bits[j]))
    /\ \E u \in Nat : /\ u >= p.gaps[1] + SpaceOf(p, bits[p.width])
                      /\ first[2 * p.width] = Dark(u)

LEMMA ConstBitHeard ==
    ASSUME NEW p, ConstBit(p), NEW words \in [1 .. 1 -> [1 .. p.width -> Bit]],
           NEW light, NEW body, NEW t, Laid(light, body, t, p, words),
           NEW first, Heards(first, light, t)
    PROVE  ConstHeard(first, words[1], p)
<1> DEFINE w == p.width
           bits == words[1]
           n == 2 * w
<1>1. w \in Nat \ {0, 1} /\ Pulsed(p) /\ Timed(p) /\ bits \in [1 .. w -> Bit] /\ Len(words) = 1
    BY DEF ConstBit, Pulsed
<1>2. WordAt(p, 1) = 0 /\ WordAt(p, 2) = n
    BY <1>1, WordPlaces DEF HeaderLen, ConstBit
<1>3. Len(body) = n
  <2>1. Len(words) + 1 = 2
      BY <1>1
  <2>2. Entry(p.footermark) = 0
      BY DEF ConstBit, Entry
  <2>3. n + 0 = n
      BY <1>1
  <2> HIDE DEF n
  <2> QED
      BY <1>2, <2>1, <2>2, <2>3 DEF Laid, IsBody
<1>4. \A j \in 1 .. w : /\ body[2 * j - 1] = Lit(MarkOf(p, bits[j]))
                        /\ body[2 * j] = Dark(SpaceOf(p, bits[j]))
  <2>1. SUFFICES ASSUME NEW j \in 1 .. w
                 PROVE  /\ body[2 * j - 1] = Lit(MarkOf(p, bits[j]))
                        /\ body[2 * j] = Dark(SpaceOf(p, bits[j]))
      OBVIOUS
  <2>2. InOrder(p, bits) = bits
      BY <1>1, OrderType DEF ConstBit
  <2>3. 1 \in 1 .. Len(words)
      BY <1>1
  <2>4. OnAir(body, WordAt(p, 1) + 2 * j - 1, p, InOrder(p, bits)[j])
      BY <2>3 DEF Laid, IsBody
  <2>5. WordAt(p, 1) + 2 * j - 1 = 2 * j - 1 /\ (2 * j - 1) + 1 = 2 * j
      BY <1>1, <1>2
  <2> HIDE DEF bits
  <2> QED
      BY <2>2, <2>4, <2>5 DEF OnAir
<1>5. Len(light) = n /\ \A k \in 1 .. n : light[k] = body[k]
  <2>1. Pair(p.lead) = <<>> /\ Len(Pair(p.lead)) = 0
      BY DEF ConstBit, Pair
  <2>2. Behind(light, Pair(p.lead), body)
      BY DEF Laid
  <2>3. 0 + n = n /\ \A k \in 1 .. n : 0 + k = k
      BY <1>1
  <2> HIDE DEF n
  <2> QED
      BY <1>3, <2>1, <2>2, <2>3 DEF Behind
<1>6. n \in Nat /\ n % 2 = 0 /\ n \in 1 .. n
    BY <1>1, Parity
<1>7. /\ Len(first) = n /\ first[n] = Dark(light[n].usec + t)
      /\ \A k \in 1 .. n - 1 : first[k] = light[k]
  <2> HIDE DEF n
  <2> QED
      BY <1>5, <1>6 DEF Heards
<1>8. \A j \in 1 .. w : /\ first[2 * j - 1] = Lit(MarkOf(p, bits[j]))
                        /\ j < w => first[2 * j] = Dark(SpaceOf(p, bits[j]))
  <2>1. SUFFICES ASSUME NEW j \in 1 .. w
                 PROVE  /\ first[2 * j - 1] = Lit(MarkOf(p, bits[j]))
                        /\ j < w => first[2 * j] = Dark(SpaceOf(p, bits[j]))
      OBVIOUS
  <2>2. 2 * j - 1 \in 1 .. n - 1 /\ 2 * j - 1 \in 1 .. n
        /\ (j < w => 2 * j \in 1 .. n - 1 /\ 2 * j \in 1 .. n)
      BY <1>1
  <2> HIDE DEF n, bits
  <2> QED
      BY <1>4, <1>5, <1>7, <2>2
<1>9. \E u \in Nat : u >= p.gaps[1] + SpaceOf(p, bits[w]) /\ first[n] = Dark(u)
  <2> DEFINE s == SpaceOf(p, bits[w])
  <2>1. body[n] = Dark(s) /\ light[n] = body[n]
    <3>1. w \in 1 .. w
        BY <1>1
    <3> QED
        BY <1>4, <1>5, <1>6, <3>1
  <2>2. s \in Nat
      BY DEF SpaceOf, ConstBit, Readable
  <2>3. t \in Nat /\ t >= p.gaps[1] /\ p.gaps[1] \in Nat
      BY DEF Laid, ConstBit, Times
  <2>4. light[n].usec = s
    <3> HIDE DEF s, n
    <3> QED
        BY <2>1 DEF Dark
  <2> HIDE DEF s, n
  <2>5. s + t \in Nat /\ s + t >= p.gaps[1] + s
      BY <2>2, <2>3
  <2>6. \E u \in Nat : u >= p.gaps[1] + s /\ first[n] = Dark(u)
      BY <1>7, <2>4, <2>5
  <2> QED
      BY <2>6 DEF s
<1> QED
    BY <1>7, <1>8, <1>9 DEF ConstHeard

LEMMA MarkTellsBit ==
    ASSUME Jitter <= 100, NEW p, Readable(p), MarksTell(p),
           NEW b, NEW r, NEW data, NEW k \in Nat, IsRead(r, data, k),
           NEW bit \in Bit, Sees(b[k], Lit(MarkOf(p, bit)))
    PROVE  IsRead(matchBit(b, r, p, FALSE), Append(data, bit), k + 1)
<1>1. r.ok /\ r.next = k /\ r.data = data /\ IsMatch(r)
    BY DEF IsRead
<1>2. /\ ToldOne(b, k, p, FALSE) <=> bit = 1
      /\ ToldOne(b, k, p, FALSE) \/ ToldZero(b, k, p, FALSE)
    BY BitToldBack
<1> DEFINE found == [r EXCEPT !.next = @ + 1, !.data = Append(@, bit)]
<1>3. matchBit(b, r, p, FALSE) = found
    BY <1>1, <1>2 DEF matchBit, ToldOne, ToldZero, Told, Bit
<1>4. found = [ok |-> r.ok, next |-> k + 1, data |-> Append(data, bit), bank |-> r.bank,
               nr |-> r.nr, bit |-> r.bit]
  <2> DEFINE moved == [r EXCEPT !.next = @ + 1]
  <2>1. r = [ok |-> r.ok, next |-> k, data |-> data, bank |-> r.bank, nr |-> r.nr, bit |-> r.bit]
      BY <1>1 DEF IsMatch
  <2>2. moved = [ok |-> r.ok, next |-> k + 1, data |-> data, bank |-> r.bank,
                 nr |-> r.nr, bit |-> r.bit]
      BY <2>1
  <2>3. found = [moved EXCEPT !.data = Append(@, bit)]
      OBVIOUS
  <2> HIDE DEF moved
  <2> QED
      BY <2>2, <2>3, SMTT(20)
<1> HIDE DEF found
<1>5. IsRead(found, Append(data, bit), k + 1)
    BY <1>1, <1>4 DEF IsRead, IsMatch
<1> QED
    BY <1>3, <1>5

LEMMA FrontRead ==
    ASSUME Jitter <= 100, NEW p, ConstBit(p), NEW bits \in [1 .. p.width -> Bit],
           NEW b, NEW end \in Nat,
           end >= 2 * (p.width - 1) => SeesBits(b, 0, p, bits, p.width - 1, TRUE),
           NEW r, IsRead(r, <<>>, 0)
    PROVE  LET front == matchGeneric(b, r, end, p, 1, p.width - 1, 0, 0, FALSE)
           IN  /\ ~(end >= 2 * (p.width - 1)) => front = Failed(r)
               /\ end >= 2 * (p.width - 1) =>
                    IsRead(front, <<[i \in 1 .. p.width - 1 |-> bits[i]]>>, 2 * (p.width - 1))
<1> DEFINE n == p.width - 1
           word == [i \in 1 .. n |-> bits[i]]
           data == matchData(b, r, p, n, TRUE)
           read == Joined(r, data)
<1>1. n \in Nat \ {0} /\ word \in [1 .. n -> Bit] /\ InOrder(p, word) = word
  <2>1. n \in Nat \ {0} /\ \A i \in 1 .. n : bits[i] \in Bit
      BY DEF ConstBit
  <2> HIDE DEF n
  <2>2. word \in [1 .. n -> Bit]
      BY <2>1
  <2> HIDE DEF word
  <2> QED
      BY <2>1, <2>2, OrderType DEF ConstBit
<1>2. /\ p.hdrmark = 0 /\ p.hdrspace = 0 /\ p.onespace # p.zerospace /\ p.coding # "bytes"
      /\ Entry(0) = 0 /\ p.msb \in BOOLEAN /\ MarksTell(p) /\ Readable(p)
  <2>1. /\ p.hdrmark = 0 /\ p.hdrspace = 0 /\ p.onespace # p.zerospace /\ p.coding = "constbit"
        /\ p.msb = TRUE /\ MarksTell(p) /\ Readable(p)
      BY DEF ConstBit
  <2>2. Entry(0) = 0
      BY DEF Entry
  <2> QED
      BY <2>1, <2>2
<1>3. matchWords(b, r, end, p, 1, n, TRUE) = read
    BY <1>2 DEF matchWords, IsRead
<1>4. matchGeneric(b, r, end, p, 1, n, 0, 0, FALSE)
        = IF ~Enough(r, end, n * 2) THEN Failed(r) ELSE read
  <2>1. 1 * n * 2 - 0 + 0 + 0 + 0 = n * 2
    <3> HIDE DEF n
    <3> QED
        BY <1>1
  <2>2. TakeMark(b, r, 0, p) = r /\ TakeSpace(b, r, 0, p) = r /\ TakeMark(b, read, 0, p) = read
      BY DEF TakeMark, TakeSpace
  <2>3. TakeGap(b, read, end, 0, p, FALSE) = read
      BY DEF TakeGap
  <2> HIDE DEF n, read
  <2> QED
      BY <1>2, <1>3, <2>1, <2>2, <2>3 DEF matchGeneric
<1>5. Enough(r, end, n * 2) <=> end >= 2 * n
  <2> HIDE DEF n
  <2> QED
      BY <1>1 DEF Enough, IsRead
<1>6. ASSUME end >= 2 * n PROVE IsRead(read, <<word>>, 2 * n)
  <2>1. SeesBits(b, 0, p, word, n, TRUE)
    <3>1. SeesBits(b, 0, p, bits, n, TRUE)
        BY <1>6
    <3>2. \A i \in 1 .. n : word[i] = bits[i]
        OBVIOUS
    <3> HIDE DEF n, word
    <3> QED
        BY <3>1, <3>2 DEF SeesBits
  <2>2. 0 + 2 * n - (IF TRUE THEN 0 ELSE 1) = 2 * n
    <3> HIDE DEF n
    <3> QED
        BY <1>1
  <2>3. SeesBits(b, 0, p, InOrder(p, word), n, TRUE)
      BY <1>1, <2>1
  <2>4. IsRead(data, word, 0 + 2 * n - IF TRUE THEN 0 ELSE 1)
    <3> HIDE DEF n, word, data
    <3>1. n \in Nat \ {0} /\ word \in [1 .. n -> Bit]
        BY <1>1
    <3> QED
        BY <1>2, <2>3, <3>1, DataRead DEF data
  <2>5. IsRead(data, word, 2 * n)
      BY <2>2, <2>4
  <2> HIDE DEF n, word, data
  <2>6. IsRead(read, Append(<<>>, word), 2 * n)
      BY <2>5, JoinedRead
  <2>7. Append(<<>>, word) = <<word>>
      OBVIOUS
  <2> QED
      BY <2>6, <2>7
<1> HIDE DEF n, word, read
<1> QED
    BY <1>4, <1>5, <1>6 DEF n, word

LEMMA LastTaken ==
    ASSUME Jitter <= 100, NEW p, Readable(p), MarksTell(p), p.width \in Nat \ {0, 1},
           NEW bits \in [1 .. p.width -> Bit],
           NEW b, NEW end \in Nat, NEW k \in Nat, k # 0, NEW front,
           IsRead(front, <<[i \in 1 .. p.width - 1 |-> bits[i]]>>, k),
           k < end => Sees(b[k], Lit(MarkOf(p, bits[p.width])))
    PROVE  LET last == LastBit(b, front, 0, end, p)
           IN  /\ end <= k => last = Failed(front)
               /\ k < end => IsRead(last, bits, k + 1)
<1> DEFINE n == p.width - 1
           word == [i \in 1 .. n |-> bits[i]]
           bit == bits[p.width]
           start == [front EXCEPT !.data = Last(@)]
<1>1. front.ok /\ front.next = k /\ front.data = <<word>> /\ IsMatch(front)
    BY DEF IsRead
<1>2. end <= k => LastBit(b, front, 0, end, p) = Failed(front)
    BY <1>1 DEF LastBit
<1>3. ASSUME k < end PROVE IsRead(LastBit(b, front, 0, end, p), bits, k + 1)
  <2>1. LastBit(b, front, 0, end, p) = matchBit(b, start, p, FALSE)
    <3>1. ~(~front.ok \/ front.next = 0 \/ end <= front.next)
        BY <1>1, <1>3
    <3> QED
        BY <3>1, Zenon DEF LastBit
  <2>2. IsRead(start, word, k)
    <3>1. Last(<<word>>) = word
        BY DEF Last
    <3> HIDE DEF word
    <3> QED
        BY <1>1, <3>1 DEF IsRead, IsMatch
  <2>3. Append(word, bit) = bits
    <3>1. n \in Nat /\ p.width = n + 1
        OBVIOUS
    <3>2. \A i \in 1 .. n : word[i] = bits[i] /\ word[i] \in Bit
        OBVIOUS
    <3> HIDE DEF n
    <3>3. word \in [1 .. n -> Bit]
        BY <3>2
    <3> HIDE DEF word
    <3>4. word \in Seq(Bit) /\ Len(word) = n
        BY <3>1, <3>3
    <3>5. bits \in [1 .. n + 1 -> Bit] /\ bit = bits[n + 1] /\ bit \in Bit
        BY <3>1
    <3> HIDE DEF bit
    <3> DEFINE all == Append(word, bit)
    <3>6. all \in Seq(Bit) /\ Len(all) = n + 1 /\ all[n + 1] = bit
          /\ \A i \in 1 .. n : all[i] = word[i]
        BY <3>1, <3>4, <3>5
    <3> HIDE DEF all
    <3>7. \A i \in 1 .. n + 1 : all[i] = bits[i]
      <4>1. \A i \in 1 .. n + 1 : i \in 1 .. n \/ i = n + 1
          BY <3>1
      <4> QED
          BY <3>2, <3>5, <3>6, <4>1
    <3>8. all \in [1 .. n + 1 -> Bit]
        BY <3>6
    <3>9. all = bits
      <4> DEFINE m == n + 1
      <4>1. all \in [1 .. m -> Bit] /\ bits \in [1 .. m -> Bit] /\ \A i \in 1 .. m : all[i] = bits[i]
          BY <3>5, <3>7, <3>8
      <4> HIDE DEF m
      <4>2. all = [i \in 1 .. m |-> all[i]]
          BY <4>1
      <4>3. bits = [i \in 1 .. m |-> bits[i]]
          BY <4>1
      <4>4. [i \in 1 .. m |-> all[i]] = [i \in 1 .. m |-> bits[i]]
          BY <4>1
      <4> QED
          BY <4>2, <4>3, <4>4
    <3> QED
        BY <3>9 DEF all
  <2>4. bit \in Bit
      OBVIOUS
  <2> HIDE DEF start, word, bit
  <2>5. IsRead(matchBit(b, start, p, FALSE), Append(word, bit), k + 1)
    <3>1. Sees(b[k], Lit(MarkOf(p, bit)))
        BY <1>3 DEF bit
    <3> QED
        BY <2>2, <2>4, <3>1, MarkTellsBit
  <2> QED
      BY <2>1, <2>3, <2>5
<1> QED
    BY <1>2, <1>3

(* What is seen of its first sending: the bits, the last one by its mark,  *)
(* and the gap.                                                            *)
LEMMA ConstBitSeen ==
    ASSUME NEW p, ConstBit(p), NEW bits \in [1 .. p.width -> Bit],
           NEW first, ConstHeard(first, bits, p),
           NEW b, NEW end \in Nat, SeesAll(b, end, first)
    PROVE  LET k == 2 * (p.width - 1)
           IN  /\ k \in Nat /\ k # 0 /\ Len(first) = k + 2
               /\ end >= k => SeesBits(b, 0, p, bits, p.width - 1, TRUE)
               /\ k < end => Sees(b[k], Lit(MarkOf(p, bits[p.width])))
               /\ k + 1 < end => \E u \in Nat : u >= p.gaps[1] + SpaceOf(p, bits[p.width])
                                                /\ Sees(b[k + 1], Dark(u))
<1> DEFINE w == p.width
           k == 2 * (w - 1)
<1>1. w \in Nat \ {0, 1} /\ k \in Nat /\ k # 0 /\ k + 2 = 2 * w /\ w \in 1 .. w
    BY DEF ConstBit
<1>2. Len(first) = k + 2 /\ k + 1 \in 1 .. Len(first) /\ k + 2 \in 1 .. Len(first)
  <2>1. Len(first) = 2 * w
      BY DEF ConstHeard
  <2> HIDE DEF w
  <2> QED
      BY <1>1, <2>1
<1>3. ASSUME end >= k PROVE SeesBits(b, 0, p, bits, w - 1, TRUE)
  <2>1. SUFFICES ASSUME NEW i \in 1 .. w - 1
                 PROVE  /\ Sees(b[0 + 2 * (i - 1)], Lit(MarkOf(p, bits[i])))
                        /\ Sees(b[0 + 2 * (i - 1) + 1], Dark(SpaceOf(p, bits[i])))
      BY DEF SeesBits
  <2> DEFINE odd == 2 * i - 1
             even == 2 * i
  <2>2. /\ odd \in 1 .. k + 2 /\ even \in 1 .. k + 2 /\ odd <= end /\ even <= end
        /\ i \in 1 .. w /\ i < w /\ odd - 1 = 0 + 2 * (i - 1) /\ even - 1 = 0 + 2 * (i - 1) + 1
    <3> HIDE DEF w
    <3> QED
        BY <1>1, <1>3
  <2>3. first[odd] = Lit(MarkOf(p, bits[i])) /\ first[even] = Dark(SpaceOf(p, bits[i]))
      BY <2>2 DEF ConstHeard
  <2> HIDE DEF odd, even, k
  <2>4. Sees(b[odd - 1], first[odd]) /\ Sees(b[even - 1], first[even])
      BY <1>2, <2>2 DEF SeesAll
  <2> QED
      BY <2>2, <2>3, <2>4
<1>4. ASSUME k < end PROVE Sees(b[k], Lit(MarkOf(p, bits[w])))
  <2> DEFINE odd == 2 * w - 1
  <2>1. odd = k + 1 /\ odd - 1 = k /\ odd <= end
    <3> HIDE DEF w
    <3> QED
        BY <1>1, <1>4
  <2>2. first[odd] = Lit(MarkOf(p, bits[w]))
      BY <1>1 DEF ConstHeard
  <2> HIDE DEF odd, k, w
  <2>3. Sees(b[odd - 1], first[odd])
      BY <1>2, <2>1 DEF SeesAll
  <2> QED
      BY <2>1, <2>2, <2>3
<1>5. ASSUME k + 1 < end
      PROVE  \E u \in Nat : u >= p.gaps[1] + SpaceOf(p, bits[w]) /\ Sees(b[k + 1], Dark(u))
  <2> DEFINE even == 2 * w
  <2>1. even = k + 2 /\ even - 1 = k + 1 /\ even <= end
    <3> HIDE DEF w
    <3> QED
        BY <1>1, <1>5
  <2>2. PICK u \in Nat : u >= p.gaps[1] + SpaceOf(p, bits[w]) /\ first[even] = Dark(u)
      BY DEF ConstHeard
  <2> HIDE DEF even, k, w
  <2>3. Sees(b[even - 1], first[even])
      BY <1>2, <2>1 DEF SeesAll
  <2> QED
      BY <2>1, <2>2, <2>3
<1> QED
    BY <1>1, <1>2, <1>3, <1>4, <1>5

(* matchGenericConstBitTime(): refused if the last mark is not there, else *)
(* read.                                                                   *)
LEMMA ConstBitTimeRead ==
    ASSUME Jitter <= 100, NEW p, ConstBit(p), NEW bits \in [1 .. p.width -> Bit],
           NEW first, ConstHeard(first, bits, p),
           NEW b, NEW end \in Nat, SeesAll(b, end, first), NEW r, IsRead(r, <<>>, 0)
    PROVE  LET s == matchGenericConstBitTime(b, r, end, p, p.gaps[1], p.exactgap[1])
           IN  /\ end + 1 >= Len(first) => s.ok
               /\ s.ok => \E next : IsRead(s, <<bits>>, next)
<1> DEFINE w == p.width
           k == 2 * (w - 1)
           front == matchGeneric(b, r, end, p, 1, w - 1, 0, 0, FALSE)
           last == LastBit(b, front, 0, end, p)
           gapped == LastGap(b, last, end, p, p.gaps[1], p.exactgap[1])
           s == matchGenericConstBitTime(b, r, end, p, p.gaps[1], p.exactgap[1])
<1>1. /\ p.msb = TRUE /\ [p EXCEPT !.msb = TRUE] = p /\ w \in Nat \ {0, 1}
      /\ Readable(p) /\ Tuned(p) /\ MarksTell(p) /\ ~p.exactgap[1]
      /\ p.gaps[1] \in Nat /\ p.gaps[1] >= 1000
    BY DEF ConstBit, Readable, Times
<1>2. k \in Nat /\ k # 0 /\ Len(first) = k + 2
    BY ConstBitSeen
<1>3. s = Joined(r, gapped)
  <2>1. r.next = 0
      BY DEF IsRead
  <2>2. s = Joined(r, Ordered(gapped, p))
    <3> DEFINE q == [p EXCEPT !.msb = TRUE]
               zero == r.next
    <3>1. s = Joined(r, Ordered(LastGap(b, LastBit(b, matchGeneric(b, r, end, q, 1, w - 1, 0, 0, FALSE),
                                                   zero, end, p),
                                        end, p, p.gaps[1], p.exactgap[1]), p))
        BY DEF matchGenericConstBitTime
    <3>2. q = p /\ zero = 0
        BY <1>1, <2>1
    <3> HIDE DEF q, zero, s
    <3> QED
        BY <3>1, <3>2
  <2> HIDE DEF gapped, s
  <2>3. Ordered(gapped, p) = gapped
      BY <1>1 DEF Ordered
  <2> QED
      BY <2>2, <2>3
<1>4. /\ ~(end >= k) => front = Failed(r)
      /\ end >= k => IsRead(front, <<[i \in 1 .. w - 1 |-> bits[i]]>>, k)
  <2>1. end >= 2 * (p.width - 1) => SeesBits(b, 0, p, bits, p.width - 1, TRUE)
      BY ConstBitSeen
  <2> QED
      BY <2>1, FrontRead
<1> HIDE DEF front, s
<1>5. CASE ~(end > k)
  <2>1. ~last.ok
    <3>1. CASE ~(end >= k)
      <4>1. ~front.ok
          BY <1>4, <3>1 DEF Failed, IsRead, IsMatch
      <4>2. last = Failed(front)
          BY <4>1 DEF LastBit
      <4>3. front \in [ok : {front.ok}, next : {front.next}, data : {front.data}, bank : {front.bank},
                       nr : {front.nr}, bit : {front.bit}]
          BY <1>4, <3>1 DEF Failed, IsRead, IsMatch
      <4> QED
          BY <4>2, <4>3 DEF Failed
    <3>2. CASE end >= k
      <4>1. last = Failed(front)
        <5>1. front.next = k
            BY <1>4, <3>2 DEF IsRead
        <5>2. end <= front.next
          <6> HIDE DEF k
          <6> QED
              BY <1>2, <1>5, <3>2, <5>1
        <5> QED
            BY <5>2 DEF LastBit
      <4>2. IsMatch(front)
          BY <1>4, <3>2 DEF IsRead
      <4> QED
          BY <4>1, <4>2 DEF Failed, IsMatch
    <3> QED
        BY <3>1, <3>2
  <2>2. gapped = last
      BY <2>1 DEF LastGap
  <2>3. ~s.ok
    <3> HIDE DEF gapped
    <3> QED
        BY <1>3, <2>1, <2>2 DEF Joined, Failed, IsRead, IsMatch
  <2>4. ~(end + 1 >= Len(first))
    <3> HIDE DEF k
    <3> QED
        BY <1>2, <1>5
  <2> QED
      BY <2>3, <2>4 DEF s
<1>6. CASE end > k
  <2>1. IsRead(front, <<[i \in 1 .. w - 1 |-> bits[i]]>>, k) /\ k < end
      BY <1>2, <1>4, <1>6
  <2>2. IsRead(last, bits, k + 1)
    <3>1. k < end => Sees(b[k], Lit(MarkOf(p, bits[p.width])))
        BY ConstBitSeen
    <3> HIDE DEF k
    <3>2. /\ end <= k => LastBit(b, front, 0, end, p) = Failed(front)
          /\ k < end => IsRead(LastBit(b, front, 0, end, p), bits, k + 1)
      <4>1. p.width \in Nat \ {0, 1} /\ k \in Nat /\ k # 0 /\ Readable(p) /\ MarksTell(p)
            /\ IsRead(front, <<[i \in 1 .. p.width - 1 |-> bits[i]]>>, k)
          BY <1>1, <1>2, <2>1
      <4> QED
          BY <3>1, <4>1, LastTaken
    <3> QED
        BY <2>1, <3>2
  <2> DEFINE space1 == SpaceOf(p, bits[w])
             gap == p.gaps[1] + space1
             exact == p.exactgap[1]
             at == k + 1
  <2>3. gap \in Nat /\ gap >= 1000
    <3>1. space1 \in Nat
        BY <1>1 DEF SpaceOf, Readable
    <3> HIDE DEF space1
    <3> QED
        BY <1>1, <3>1
  <2>4. gapped = TakeGap(b, last, end, gap, p, exact)
    <3>1. bits \in Seq(Bit) /\ Len(bits) = w
        BY <1>1
    <3>2. last.ok /\ last.data = bits
        BY <2>2 DEF IsRead
    <3>3. Last(bits) = bits[w]
        BY <3>1 DEF Last
    <3> HIDE DEF last
    <3> QED
        BY <3>2, <3>3 DEF LastGap, SpaceOf
  <2>5. at < end => \E u \in Nat : u >= gap /\ Sees(b[at], Dark(u))
      BY ConstBitSeen
  <2>6. at \in Nat /\ IsRead(last, bits, at) /\ ~exact
      BY <1>1, <1>2, <2>2
  <2> HIDE DEF gap, exact, at, last, gapped
  <2>7. GapReads(b, last, at, bits, end, p, gap, exact)
      BY <1>1, <2>3, <2>6, GapRead
  <2>8. \E next : IsRead(gapped, bits, next)
      BY <2>4, <2>5, <2>6, <2>7 DEF GapReads
  <2>9. PICK next : IsRead(gapped, bits, next)
      BY <2>8
  <2>10. IsRead(s, Append(<<>>, bits), next)
      BY <1>3, <2>9, JoinedRead
  <2>11. Append(<<>>, bits) = <<bits>>
      OBVIOUS
  <2> QED
      BY <2>10, <2>11 DEF IsRead, s
<1> QED
    BY <1>5, <1>6

LEMMA ConstBitUnderstood ==
    ASSUME Jitter <= 100, NEW p, ConstBit(p), p.repeat \in Nat, NEW m, IsSingle(m, p)
    PROVE  Understood(p, m)
<1> DEFINE once == Intervals(sendMessage(p, m))
           words == m[1]
           bits == words[1]
<1>1. /\ Pulsed(p) /\ p.width # 0 /\ p.gaps[1] \in Times /\ p.trail = <<>> /\ p.lead = <<>>
      /\ p.words = <<1>> /\ p.coding = "constbit" /\ p.shortest \in Nat
      /\ p.shortest <= 2 * p.width - 1 /\ p.width \in Nat \ {0, 1}
    BY DEF ConstBit
<1>2. /\ words \in [1 .. 1 -> [1 .. p.width -> Bit]] /\ bits \in [1 .. p.width -> Bit]
      /\ words = <<bits>> /\ m = <<words>>
  <2>1. words \in [1 .. 1 -> [1 .. p.width -> Bit]] /\ m = <<words>>
      BY DEF IsSingle
  <2> HIDE DEF words
  <2> QED
      BY <2>1
<1>3. PICK light, body, t : /\ Laid(light, body, t, p, words)
                            /\ sendMessage(p, m) = light \o <<Dark(t)>>
    BY <1>1, SingleOnAir
<1>4. light \in Seq(Part) /\ Alternates(light) /\ light # <<>> /\ t \in Times
  <2>1. Len(light) >= 2
    <3> HIDE DEF words
    <3> QED
        BY <1>1, <1>2, <1>3, LaidLong
  <2> QED
      BY <1>3, <2>1 DEF Laid
<1>5. /\ Heards(once, light, t) /\ Intervals(sendGeneric(p, m)) \in Seq(Part)
      /\ Begins(Intervals(sendGeneric(p, m)), once)
    BY <1>1, <1>3, <1>4, GenericHeard
<1> HIDE DEF once, words
<1>6. ConstHeard(once, bits, p)
    BY <1>2, <1>3, <1>5, ConstBitHeard
<1> HIDE DEF bits
<1>7. ASSUME NEW b, NEW end \in Nat, SeesAll(b, end, once)
      PROVE  ReadsBack(matchMessage(b, end, p), end, once, m)
  <2> DEFINE d == matchMessage(b, end, p)
             start == From(0)
             bare == [start EXCEPT !.data = <<>>]
             s == matchGenericConstBitTime(b, bare, end, p, p.gaps[1], p.exactgap[1])
  <2>1. IsRead(start, <<>>, 0) /\ IsRead(bare, <<>>, 0)
      BY DEF IsRead, From, IsMatch
  <2>2. Len(once) = 2 * p.width
      BY <1>6 DEF ConstHeard
  <2>3. CASE end < p.shortest
    <3>1. d = Failed(From(0))
        BY <2>3 DEF matchMessage
    <3>2. ~d.ok
      <4> HIDE DEF d
      <4> QED
          BY <3>1 DEF Failed, From
    <3>3. ~(end + 1 >= Len(once))
        BY <1>1, <2>2, <2>3
    <3> HIDE DEF d
    <3> QED
        BY <3>2, <3>3 DEF ReadsBack, d
  <2>4. CASE ~(end < p.shortest)
    <3>1. d = Joined(start, s)
      <4>1. Len(p.words) = 1
          BY <1>1
      <4>2. PICK upto : SectionBySection(upto, b, end, p)
        <5>1. Len(p.words) \in Nat
            BY <4>1
        <5> QED
            BY <2>4, <5>1, MessageSteps
      <4>3. d = upto[1] /\ upto[0] = matchLead(b, p)
            /\ upto[1] = SectionAfter(b, upto[1 - 1], end, p, 1)
          BY <4>1, <4>2 DEF SectionBySection
      <4>4. matchLead(b, p) = start /\ 1 - 1 = 0
          BY <1>1 DEF matchLead
      <4>5. SectionAfter(b, start, end, p, 1) = Joined(start, matchSection(b, bare, end, p, 1))
          BY DEF SectionAfter
      <4>6. bare.ok /\ p.coding # "manchester"
          BY <1>1, <2>1 DEF IsRead
      <4> HIDE DEF bare, start, d
      <4>7. matchSection(b, bare, end, p, 1) = s
          BY <1>1, <4>6 DEF matchSection
      <4> QED
          BY <4>3, <4>4, <4>5, <4>7
    <3> HIDE DEF bare, start, d
    <3>2. /\ end + 1 >= Len(once) => s.ok
          /\ s.ok => \E next : IsRead(s, <<bits>>, next)
        BY <1>2, <1>6, <1>7, <2>1, ConstBitTimeRead
    <3> HIDE DEF s
    <3>3. CASE s.ok
      <4>1. PICK next : IsRead(s, <<bits>>, next)
          BY <3>2, <3>3
      <4>2. IsRead(Joined(start, s), Append(<<>>, words), next)
          BY <1>2, <2>1, <4>1, JoinedRead
      <4>3. Append(<<>>, words) = m
          BY <1>2
      <4> QED
          BY <3>1, <4>2, <4>3 DEF IsRead, ReadsBack, d
    <3>4. CASE ~s.ok
      <4>1. ~d.ok
          BY <2>1, <3>1, <3>4 DEF Joined, Failed, IsRead, IsMatch
      <4> QED
          BY <3>2, <3>4, <4>1 DEF ReadsBack, d
    <3> QED
        BY <3>3, <3>4
  <2> QED
      BY <2>3, <2>4
<1> QED
    BY <1>5, <1>7 DEF Understood, once, Heards

-----------------------------------------------------------------------------
(* A protocol of two sections, of one byte and of two, the gap between     *)
(* them as exact as a space.                                               *)
TwoSections(p) ==
    /\ Sectioned(p) /\ p.coding = "bytes" /\ p.words = <<1, 2>> /\ p.lead = <<>> /\ p.trail = <<>>
    /\ p.mesgtime = 0 /\ p.gaps[1] \in Times /\ p.gaps[1] >= 1000
    /\ p.gaps[2] \in Times /\ p.gaps[2] >= 1000 /\ ~p.exactgap[2]
    /\ p.shortest \in Nat /\ p.shortest <= Need(p, 1) + 1 + Need(p, 2)

IsPair(m, p) ==
    /\ m = <<m[1], m[2]>>
    /\ m[1] \in [1 .. 1 -> [1 .. p.width -> Bit]] /\ m[2] \in [1 .. 2 -> [1 .. p.width -> Bit]]

Paired(light, one, two, p, m) ==
    /\ IsBody(one, p, m[1]) /\ IsBody(two, p, m[2])
    /\ Len(one) = Need(p, 1) /\ Len(two) = Need(p, 2)
    /\ light \in Seq(Part) /\ Alternates(light) /\ Len(light) = Len(one) + 1 + Len(two)
    /\ \A j \in 1 .. Len(one) : light[j] = one[j]
    /\ light[Len(one) + 1] = Dark(p.gaps[1])
    /\ \A j \in 1 .. Len(two) : light[Len(one) + 1 + j] = two[j]

LEMMA DarkBehind ==
    ASSUME NEW s \in Seq(Part), Alternates(s), Len(s) % 2 = 1, NEW x \in Part, ~x.on
    PROVE  /\ s \o <<x>> \in Seq(Part) /\ Whole(s \o <<x>>) /\ Len(s \o <<x>>) = Len(s) + 1
           /\ (s \o <<x>>)[Len(s) + 1] = x /\ \A k \in 1 .. Len(s) : (s \o <<x>>)[k] = s[k]
<1> DEFINE t == <<x>>
           u == s \o t
           n == Len(s)
<1>1. t \in Seq(Part) /\ Len(t) = 1 /\ t[1] = x /\ n \in Nat
    OBVIOUS
<1> HIDE DEF t
<1>2. u \in Seq(Part) /\ Behind(u, s, t)
    BY <1>1, Parts, Zenon
<1> HIDE DEF u
<1>3. Len(u) = n + 1 /\ u[n + 1] = x /\ \A k \in 1 .. n : u[k] = s[k]
  <2>1. 1 \in 1 .. Len(t)
      BY <1>1
  <2> QED
      BY <1>1, <1>2, <2>1 DEF Behind
<1> HIDE DEF n
<1>4. (n + 1) % 2 = 0
    BY <1>1, Parity DEF n
<1>5. Alternates(u)
  <2> SUFFICES ASSUME NEW k \in 1 .. n + 1 PROVE u[k].on <=> k % 2 = 1
      BY <1>3 DEF Alternates
  <2>1. k \in 1 .. n \/ k = n + 1
      BY <1>1
  <2>2. CASE k \in 1 .. n
      BY <1>3, <2>2 DEF Alternates, n
  <2>3. CASE k = n + 1
      BY <1>3, <1>4, <2>3
  <2> QED
      BY <2>1, <2>2, <2>3
<1> QED
    BY <1>2, <1>3, <1>4, <1>5 DEF Whole, u, t, n

(* A section ends with its footer: so many intervals, one that is lit last. *)
LEMMA SectionLong ==
    ASSUME NEW p, TwoSections(p), NEW n \in {1, 2}, NEW words \in [1 .. n -> [1 .. p.width -> Bit]],
           NEW body, IsBody(body, p, words)
    PROVE  Len(body) = Need(p, n) /\ Need(p, n) \in Nat \ {0} /\ Need(p, n) % 2 = 1
<1>1. p.footermark # 0 /\ Pulsed(p) /\ p.width \in Nat
    BY DEF TwoSections, Sectioned, Pulsed
<1>2. Len(words) = n
    OBVIOUS
<1>3. Len(body) = Need(p, n)
    BY <1>1, <1>2 DEF IsBody, Need, Entry
<1> DEFINE h == HeaderLen(p)
           w == p.width
<1>4. h \in {0, 2} /\ WordAt(p, 2) = h + 2 * w /\ WordAt(p, 3) = h + 4 * w
    BY <1>1, WordPlaces
<1>5. Need(p, 1) = h + 2 * w + 1 /\ Need(p, 2) = h + 4 * w + 1
  <2>1. 1 + 1 = 2 /\ 2 + 1 = 3
      OBVIOUS
  <2>2. Need(p, 1) = WordAt(p, 2) + 1 /\ Need(p, 2) = WordAt(p, 3) + 1
      BY <1>1, <2>1 DEF Need
  <2> HIDE DEF h, w
  <2> QED
      BY <1>4, <2>2
<1> DEFINE half == (IF h = 0 THEN 0 ELSE 1) + n * w
<1>6. half \in Nat /\ Need(p, n) = 2 * half + 1
  <2> HIDE DEF h, w
  <2>1. w \in Nat
      BY <1>1 DEF w
  <2>2. CASE n = 1
      BY <1>4, <1>5, <2>1, <2>2
  <2>3. CASE n = 2
      BY <1>4, <1>5, <2>1, <2>3
  <2> QED
      BY <2>2, <2>3
<1> HIDE DEF half
<1>7. Need(p, n) % 2 = 1
    BY <1>6, Parity
<1> QED
    BY <1>3, <1>6, <1>7

LEMMA PairOnAir ==
    ASSUME NEW p, TwoSections(p), NEW m, IsPair(m, p)
    PROVE  \E light, one, two : Paired(light, one, two, p, m)
                                /\ sendMessage(p, m) = light \o <<Dark(p.gaps[2])>>
<1> DEFINE first == m[1]
           second == m[2]
           x == Dark(p.gaps[1])
           y == Dark(p.gaps[2])
           seqs == [s \in 1 .. Len(m) |-> sendSection(p, m[s], p.gaps[s])]
<1>1. /\ Pulsed(p) /\ p.lead = <<>> /\ p.mesgtime = 0 /\ p.gaps[1] \in Times /\ p.gaps[2] \in Times
    BY DEF TwoSections, Sectioned
<1>2. /\ first \in [1 .. 1 -> [1 .. p.width -> Bit]] /\ second \in [1 .. 2 -> [1 .. p.width -> Bit]]
      /\ Len(m) = 2 /\ 1 \in {1, 2} /\ 2 \in {1, 2} /\ 1 \in Nat /\ 2 \in Nat
  <2>1. m = <<m[1], m[2]>>
      BY DEF IsPair
  <2>2. Len(<<m[1], m[2]>>) = 2
      OBVIOUS
  <2>3. Len(m) = 2
      BY <2>1, <2>2
  <2> QED
      BY <2>3 DEF IsPair
<1>3. PICK one : IsBody(one, p, first) /\ sendSection(p, first, p.gaps[1]) = one \o <<x>>
  <2>1. \E body : \E t \in Times :
          /\ IsBody(body, p, first) /\ sendSection(p, first, p.gaps[1]) = body \o <<Dark(t)>>
          /\ t >= p.gaps[1] /\ (p.mesgtime = 0 => t = p.gaps[1])
    <3> HIDE DEF first
    <3> QED
        BY <1>1, <1>2, SectionOnAir
  <2> QED
      BY <1>1, <2>1
<1>4. PICK two : IsBody(two, p, second) /\ sendSection(p, second, p.gaps[2]) = two \o <<y>>
  <2>1. \E body : \E t \in Times :
          /\ IsBody(body, p, second) /\ sendSection(p, second, p.gaps[2]) = body \o <<Dark(t)>>
          /\ t >= p.gaps[2] /\ (p.mesgtime = 0 => t = p.gaps[2])
    <3> HIDE DEF second
    <3> QED
        BY <1>1, <1>2, SectionOnAir
  <2> QED
      BY <1>1, <2>1
<1>5. x \in Part /\ y \in Part /\ ~x.on
  <2>1. x \in Part /\ y \in Part
      BY <1>1, PartType
  <2> QED
      BY <2>1 DEF Dark
<1> HIDE DEF x, y
<1>6. /\ Len(one) = Need(p, 1) /\ Need(p, 1) \in Nat \ {0} /\ Need(p, 1) % 2 = 1
      /\ Len(two) = Need(p, 2) /\ Need(p, 2) \in Nat \ {0}
  <2> HIDE DEF first, second
  <2>1. Len(one) = Need(p, 1) /\ Need(p, 1) \in Nat \ {0} /\ Need(p, 1) % 2 = 1
      BY <1>2, <1>3, SectionLong
  <2>2. Len(two) = Need(p, 2) /\ Need(p, 2) \in Nat \ {0}
      BY <1>2, <1>4, SectionLong
  <2> QED
      BY <2>1, <2>2
<1>7. one \in Seq(Part) /\ Alternates(one) /\ two \in Seq(Part) /\ Alternates(two)
    BY <1>3, <1>4 DEF IsBody
<1> DEFINE a == one \o <<x>>
           c == two \o <<y>>
           light == a \o two
<1>8. /\ a \in Seq(Part) /\ Whole(a) /\ Len(a) = Len(one) + 1
      /\ a[Len(one) + 1] = x /\ \A k \in 1 .. Len(one) : a[k] = one[k]
    BY <1>5, <1>6, <1>7, DarkBehind
<1>9. <<y>> \in Seq(Part) /\ c \in Seq(Part)
  <2>1. <<y>> \in Seq(Part)
      BY <1>5
  <2> QED
      BY <1>7, <2>1, ConcatProperties
<1>10. sendMessage(p, m) = a \o c
  <2>1. seqs = [s \in 1 .. 2 |-> sendSection(p, m[s], p.gaps[s])]
      BY <1>2
  <2>2. seqs[1] = a /\ seqs[2] = c /\ Len(seqs) = 2
    <3>1. seqs[1] = sendSection(p, first, p.gaps[1]) /\ seqs[2] = sendSection(p, second, p.gaps[2])
        BY <2>1
    <3>2. Len(seqs) = 2
        BY <2>1
    <3> HIDE DEF seqs, first, second
    <3> QED
        BY <1>3, <1>4, <3>1, <3>2
  <2>3. seqs \in Seq(Seq(Part))
    <3> HIDE DEF a, c
    <3>1. DOMAIN seqs = 1 .. 2
        BY <2>1
    <3>2. seqs = [s \in 1 .. 2 |-> seqs[s]]
        BY <2>1
    <3>3. \A s \in 1 .. 2 : seqs[s] \in Seq(Part)
      <4>1. \A s \in 1 .. 2 : s = 1 \/ s = 2
          OBVIOUS
      <4> HIDE DEF seqs
      <4> QED
          BY <1>8, <1>9, <2>2, <4>1
    <3> HIDE DEF seqs
    <3> QED
        BY <3>2, <3>3
  <2>4. sendMessage(p, m) = Pair(p.lead) \o FlattenSeq(seqs)
      BY DEF sendMessage
  <2>5. Pair(p.lead) = <<>>
      BY <1>1 DEF Pair
  <2> HIDE DEF seqs, a, c
  <2>6. FlattenSeq(seqs) = a \o c
      BY <2>2, <2>3, FlattenTwo
  <2>7. a \o c \in Seq(Part)
      BY <1>8, <1>9, ConcatProperties
  <2>8. <<>> \o (a \o c) = a \o c
      BY <2>7, ConcatEmptySeq
  <2> QED
      BY <2>4, <2>5, <2>6, <2>8
<1> HIDE DEF a
<1>11. a \o c = light \o <<y>>
    BY <1>7, <1>8, <1>9, ConcatAssociative
<1>12. light \in Seq(Part) /\ Behind(light, a, two)
    BY <1>7, <1>8, Parts, Zenon
<1>13. Alternates(light)
    BY <1>7, <1>8, AlternatesJoined
<1> HIDE DEF light, c
<1>14. Paired(light, one, two, p, m)
  <2>1. Len(light) = Len(one) + 1 + Len(two)
      BY <1>8, <1>12 DEF Behind
  <2>2. \A j \in 1 .. Len(one) : light[j] = one[j]
    <3>1. \A j \in 1 .. Len(one) : j \in 1 .. Len(a)
        BY <1>6, <1>8
    <3> QED
        BY <1>8, <1>12, <3>1 DEF Behind
  <2>3. light[Len(one) + 1] = x
    <3>1. Len(one) + 1 \in 1 .. Len(a)
        BY <1>6, <1>8
    <3> QED
        BY <1>8, <1>12, <3>1 DEF Behind
  <2>4. \A j \in 1 .. Len(two) : light[Len(one) + 1 + j] = two[j]
      BY <1>8, <1>12 DEF Behind
  <2> QED
      BY <1>3, <1>4, <1>6, <1>12, <1>13, <2>1, <2>2, <2>3, <2>4 DEF Paired, x
<1>15. sendMessage(p, m) = light \o <<Dark(p.gaps[2])>>
    BY <1>10, <1>11 DEF y
<1> QED
    BY <1>14, <1>15

(* The section at k, read behind a message that was read up to there: all  *)
(* that it needs is seen, and its gap if there is one.                     *)
Section(p, i, n) ==
    /\ Sectioned(p) /\ p.coding = "bytes" /\ n \in {1, 2} /\ p.words[i] = n
    /\ p.gaps[i] \in Nat /\ p.gaps[i] >= 1000 /\ Need(p, n) \in Nat

SectionSeen(b, k, end, p, i, n, body) ==
    /\ end - k >= Need(p, n) => ShowsBody(b, k, body, Need(p, n))
    /\ k + Need(p, n) < end => \E u \in Nat : /\ u >= p.gaps[i]
                                              /\ p.exactgap[i] => u = p.gaps[i]
                                              /\ Sees(b[k + Need(p, n)], Dark(u))

SectionTakes(b, r, end, p, i, n, data, words, k) ==
    LET j == SectionAfter(b, r, end, p, i)
    IN  /\ ~(end - k >= Need(p, n)) => j = Failed(r)
        /\ end - k >= Need(p, n) =>
             IsRead(j, Append(data, words), k + Need(p, n)
                                              + IF k + Need(p, n) < end THEN 1 ELSE 0)

LEMMA SectionTaken ==
    ASSUME Jitter <= 100, NEW p, NEW i, NEW n, Section(p, i, n),
           NEW words \in [1 .. n -> [1 .. p.width -> Bit]], NEW body, IsBody(body, p, words),
           NEW b, NEW k \in Nat, NEW end \in Nat, SectionSeen(b, k, end, p, i, n, body),
           NEW r, NEW data, IsRead(r, data, k)
    PROVE  SectionTakes(b, r, end, p, i, n, data, words, k)
<1> DEFINE need == Need(p, n)
           bare == [r EXCEPT !.data = <<>>]
           gap == p.gaps[i]
           exact == p.exactgap[i]
           s == SectionMatch(b, bare, end, p, n, gap, exact)
           j == SectionAfter(b, r, end, p, i)
           at == k + need
<1>1. IsRead(bare, <<>>, k) /\ r.ok
    BY DEF IsRead, IsMatch
<1>0. /\ Sectioned(p) /\ p.coding = "bytes" /\ n \in {1, 2} /\ p.words[i] = n
      /\ p.gaps[i] \in Nat /\ p.gaps[i] >= 1000 /\ Need(p, n) \in Nat
    BY DEF Section
<1>2. j = Joined(r, s)
  <2>1. j = Joined(r, matchSection(b, bare, end, p, i))
      BY DEF SectionAfter
  <2>2. bare.ok
      BY <1>1 DEF IsRead
  <2> HIDE DEF bare, j
  <2>3. matchSection(b, bare, end, p, i) = s
      BY <1>0, <2>2 DEF matchSection, SectionMatch
  <2> QED
      BY <2>1, <2>3
<1> HIDE DEF bare, gap, exact, j
<1>3. SectionReads(b, bare, k, end, p, n, words, gap, exact)
  <2>1. (p.coding = "bits" => n = 1) /\ Sectioned(p) /\ n \in {1, 2}
      BY <1>0
  <2>2. IsRead(bare, <<>>, k) /\ (end - k >= Need(p, n) => ShowsBody(b, k, body, Need(p, n)))
      BY <1>1 DEF SectionSeen
  <2> QED
      BY <2>1, <2>2, SectionRead, Zenon
<1> HIDE DEF s
<1>4. ASSUME ~(end - k >= need) PROVE j = Failed(r)
  <2>1. s = Failed(bare)
      BY <1>3, <1>4 DEF SectionReads, s
  <2>2. ~s.ok
      BY <1>1, <2>1 DEF Failed, IsRead, IsMatch
  <2> QED
      BY <1>2, <2>2 DEF Joined
<1>5. ASSUME end - k >= need
      PROVE  IsRead(j, Append(data, words), at + IF at < end THEN 1 ELSE 0)
  <2>1. PICK foot : IsRead(foot, words, at) /\ s = TakeGap(b, foot, end, gap, p, exact)
      BY <1>3, <1>5 DEF SectionReads, s
  <2>2. at \in Nat /\ gap \in Nat /\ gap >= 1000 /\ Tuned(p)
      BY <1>0 DEF gap, Sectioned, Readable
  <2>3. at < end => \E u \in Nat : u >= gap /\ (exact => u = gap) /\ Sees(b[at], Dark(u))
    <3>1. k + Need(p, n) < end => \E u \in Nat : /\ u >= p.gaps[i]
                                                 /\ p.exactgap[i] => u = p.gaps[i]
                                                 /\ Sees(b[k + Need(p, n)], Dark(u))
        BY DEF SectionSeen
    <3> QED
        BY <3>1 DEF gap, exact
  <2> HIDE DEF at
  <2>4. GapReads(b, foot, at, words, end, p, gap, exact)
      BY <2>1, <2>2, GapRead
  <2>5. IsRead(s, words, at + IF at < end THEN 1 ELSE 0)
    <3>1. CASE at < end
      <4>1. IsRead(s, words, at + 1)
          BY <2>1, <2>3, <2>4, <3>1 DEF GapReads
      <4> QED
          BY <3>1, <4>1
    <3>2. CASE ~(at < end)
      <4>1. IsRead(s, words, at)
          BY <2>1, <2>2, <2>4, <3>2 DEF GapReads
      <4>2. at + 0 = at
          BY <2>2
      <4> QED
          BY <3>2, <4>1, <4>2
    <3> QED
        BY <3>1, <3>2
  <2> QED
      BY <1>2, <2>5, JoinedRead
<1> QED
    BY <1>4, <1>5 DEF j, SectionTakes

LEMMA PairSeen ==
    ASSUME NEW p, TwoSections(p), NEW m, NEW light, NEW one, NEW two,
           Paired(light, one, two, p, m), Need(p, 1) \in Nat \ {0}, Need(p, 2) \in Nat \ {0},
           NEW first, Heards(first, light, p.gaps[2]), Len(light) % 2 = 1,
           NEW b, NEW end \in Nat, SeesAll(b, end, first)
    PROVE  LET back == Need(p, 1) + 1
               last == back + Need(p, 2)
           IN  /\ Len(first) = last + 1
               /\ end >= Need(p, 1) => ShowsBody(b, 0, one, Need(p, 1))
               /\ Need(p, 1) < end => Sees(b[Need(p, 1)], Dark(p.gaps[1]))
               /\ end - back >= Need(p, 2) => ShowsBody(b, back, two, Need(p, 2))
               /\ last < end => Sees(b[last], Dark(p.gaps[2]))
<1> DEFINE n1 == Need(p, 1)
           n2 == Need(p, 2)
           back == n1 + 1
           last == back + n2
<1> HIDE DEF n1, n2
<1>1. /\ n1 \in Nat \ {0} /\ n2 \in Nat \ {0} /\ Len(one) = n1 /\ Len(two) = n2
      /\ Len(light) = last
    BY DEF Paired, n1, n2
<1>2. /\ Len(first) = last + 1 /\ first[last + 1] = Dark(p.gaps[2])
      /\ \A k \in 1 .. last : first[k] = light[k]
    BY <1>1 DEF Heards
<1>3. /\ \A j \in 1 .. n1 : first[j] = one[j]
      /\ first[back] = Dark(p.gaps[1])
      /\ \A j \in 1 .. n2 : first[back + j] = two[j]
  <2>1. /\ \A j \in 1 .. n1 : light[j] = one[j]
        /\ light[n1 + 1] = Dark(p.gaps[1])
        /\ \A j \in 1 .. n2 : light[n1 + 1 + j] = two[j]
      BY <1>1 DEF Paired
  <2>2. /\ \A j \in 1 .. n1 : j \in 1 .. last
        /\ n1 + 1 \in 1 .. last
        /\ \A j \in 1 .. n2 : n1 + 1 + j \in 1 .. last
      BY <1>1
  <2> QED
      BY <1>2, <2>1, <2>2
<1>4. \A k \in 1 .. last + 1 : k <= end => Sees(b[k - 1], first[k])
    BY <1>2 DEF SeesAll
<1>5. ASSUME end >= n1 PROVE ShowsBody(b, 0, one, n1)
  <2> SUFFICES ASSUME NEW j \in 1 .. n1 PROVE Sees(b[0 + j - 1], one[j])
      BY DEF ShowsBody
  <2>1. j \in 1 .. last + 1 /\ j <= end /\ 0 + j - 1 = j - 1
      BY <1>1, <1>5
  <2>2. Sees(b[j - 1], first[j])
      BY <1>4, <2>1
  <2> QED
      BY <1>3, <2>1, <2>2
<1>6. ASSUME n1 < end PROVE Sees(b[n1], Dark(p.gaps[1]))
  <2>1. back \in 1 .. last + 1 /\ back <= end /\ back - 1 = n1
      BY <1>1, <1>6
  <2> HIDE DEF back, last
  <2>2. Sees(b[back - 1], first[back])
      BY <1>4, <2>1
  <2> QED
      BY <1>3, <2>1, <2>2
<1>7. ASSUME end - back >= n2 PROVE ShowsBody(b, back, two, n2)
  <2> SUFFICES ASSUME NEW j \in 1 .. n2 PROVE Sees(b[back + j - 1], two[j])
      BY DEF ShowsBody
  <2> DEFINE k == back + j
  <2>1. k \in 1 .. last + 1 /\ k <= end /\ k - 1 = back + j - 1
      BY <1>1, <1>7
  <2>2. first[k] = two[j]
      BY <1>3
  <2> HIDE DEF k, back, last
  <2>3. Sees(b[k - 1], first[k])
      BY <1>4, <2>1
  <2> QED
      BY <2>1, <2>2, <2>3
<1>8. ASSUME last < end PROVE Sees(b[last], Dark(p.gaps[2]))
  <2> DEFINE k == last + 1
  <2>1. k \in 1 .. last + 1 /\ k <= end /\ k - 1 = last
      BY <1>1, <1>8
  <2>2. first[k] = Dark(p.gaps[2])
      BY <1>2
  <2> HIDE DEF k, back, last
  <2>3. Sees(b[k - 1], first[k])
      BY <1>4, <2>1
  <2> QED
      BY <2>1, <2>2, <2>3
<1> QED
    BY <1>2, <1>5, <1>6, <1>7, <1>8 DEF n1, n2

LEMMA PairRead ==
    ASSUME Jitter <= 100, NEW p, TwoSections(p), NEW m, IsPair(m, p),
           NEW light, NEW one, NEW two, Paired(light, one, two, p, m),
           NEW first, Heards(first, light, p.gaps[2]), Len(light) % 2 = 1,
           NEW b, NEW end \in Nat, SeesAll(b, end, first)
    PROVE  ReadsBack(matchMessage(b, end, p), end, first, m)
<1> DEFINE n1 == Need(p, 1)
           n2 == Need(p, 2)
           back == n1 + 1
           last == back + n2
           w1 == m[1]
           w2 == m[2]
           d == matchMessage(b, end, p)
           u0 == From(0)
           u1 == SectionAfter(b, u0, end, p, 1)
           u2 == SectionAfter(b, u1, end, p, 2)
<1>1. /\ Sectioned(p) /\ p.coding = "bytes" /\ p.words = <<1, 2>> /\ p.lead = <<>>
      /\ p.words[1] = 1 /\ p.words[2] = 2 /\ Len(p.words) = 2
      /\ p.gaps[1] \in Nat /\ p.gaps[1] >= 1000 /\ p.gaps[2] \in Nat /\ p.gaps[2] >= 1000
      /\ p.shortest \in Nat /\ p.shortest <= last
    BY DEF TwoSections, Times
<1>2. /\ w1 \in [1 .. 1 -> [1 .. p.width -> Bit]] /\ w2 \in [1 .. 2 -> [1 .. p.width -> Bit]]
      /\ m = <<w1, w2>> /\ IsBody(one, p, w1) /\ IsBody(two, p, w2) /\ 1 \in {1, 2} /\ 2 \in {1, 2}
    BY DEF IsPair, Paired
<1> HIDE DEF w1, w2
<1>3. n1 \in Nat \ {0} /\ n2 \in Nat \ {0}
  <2>1. n1 \in Nat \ {0}
      BY <1>2, SectionLong
  <2>2. n2 \in Nat \ {0}
      BY <1>2, SectionLong
  <2> QED
      BY <2>1, <2>2
<1>4. /\ Len(first) = last + 1
      /\ end >= n1 => ShowsBody(b, 0, one, n1)
      /\ n1 < end => Sees(b[n1], Dark(p.gaps[1]))
      /\ end - back >= n2 => ShowsBody(b, back, two, n2)
      /\ last < end => Sees(b[last], Dark(p.gaps[2]))
    BY <1>3, PairSeen
<1>5. CASE end < p.shortest
  <2>1. d = Failed(From(0))
      BY <1>5 DEF matchMessage
  <2>2. ~d.ok
    <3> HIDE DEF d
    <3> QED
        BY <2>1 DEF Failed, From
  <2>3. ~(end + 1 >= Len(first))
    <3> HIDE DEF last
    <3>1. last \in Nat
        BY <1>3 DEF last
    <3> QED
        BY <1>1, <1>4, <1>5, <3>1
  <2> HIDE DEF d
  <2> QED
      BY <2>2, <2>3 DEF ReadsBack, d
<1>6. CASE ~(end < p.shortest)
  <2>1. d = u2
    <3>1. PICK upto : SectionBySection(upto, b, end, p)
      <4>1. Len(p.words) \in Nat
          BY <1>1
      <4> QED
          BY <1>6, <4>1, MessageSteps
    <3>2. d = upto[2] /\ upto[0] = matchLead(b, p)
          /\ upto[1] = SectionAfter(b, upto[1 - 1], end, p, 1)
          /\ upto[2] = SectionAfter(b, upto[2 - 1], end, p, 2)
        BY <1>1, <3>1 DEF SectionBySection
    <3>3. matchLead(b, p) = u0 /\ 1 - 1 = 0 /\ 2 - 1 = 1
        BY <1>1 DEF matchLead
    <3> HIDE DEF u0, d
    <3> QED
        BY <3>2, <3>3
  <2>2. IsRead(u0, <<>>, 0)
      BY DEF IsRead, From, IsMatch
  <2> HIDE DEF u0, d
  <2>3. /\ ~(end - 0 >= n1) => u1 = Failed(u0)
        /\ end - 0 >= n1 => IsRead(u1, Append(<<>>, w1), 0 + n1 + IF 0 + n1 < end THEN 1 ELSE 0)
    <3> DEFINE i == 1
               n == 1
               k == 0
               data == <<>>
    <3>1. /\ Section(p, i, n) /\ k \in Nat /\ w1 \in [1 .. n -> [1 .. p.width -> Bit]]
          /\ IsBody(one, p, w1) /\ IsRead(u0, data, k)
        BY <1>1, <1>2, <1>3, <2>2 DEF Section
    <3>2. SectionSeen(b, k, end, p, i, n, one)
      <4>1. end - k >= Need(p, n) => ShowsBody(b, k, one, Need(p, n))
          BY <1>3, <1>4
      <4>2. k + Need(p, n) = n1
          BY <1>3
      <4>3. k + Need(p, n) < end => \E u \in Nat : /\ u >= p.gaps[i]
                                                   /\ p.exactgap[i] => u = p.gaps[i]
                                                   /\ Sees(b[k + Need(p, n)], Dark(u))
          BY <1>1, <1>4, <4>2
      <4> QED
          BY <4>1, <4>3 DEF SectionSeen
    <3> HIDE DEF i, n, k, data
    <3>3. SectionTakes(b, u0, end, p, i, n, data, w1, k)
        BY <3>1, <3>2, SectionTaken
    <3> QED
        BY <3>3 DEF i, n, k, data, SectionTakes
  <2>4. CASE ~(end >= n1)
    <3> HIDE DEF n1, n2, u1
    <3>1. u1 = Failed(u0)
        BY <1>3, <2>3, <2>4
    <3>2. ~u1.ok
        BY <2>2, <3>1 DEF Failed, IsRead, IsMatch
    <3>3. ~u2.ok
      <4> DEFINE s == matchSection(b, [u1 EXCEPT !.data = <<>>], end, p, 2)
      <4>1. u2 = Joined(u1, s)
          BY DEF SectionAfter
      <4> HIDE DEF s
      <4>2. IsMatch(u1)
          BY <2>2, <3>1 DEF Failed, IsRead, IsMatch
      <4>3. Joined(u1, s) = Failed(u1)
          BY <3>2 DEF Joined
      <4> HIDE DEF u2
      <4> QED
          BY <4>1, <4>2, <4>3 DEF Failed, IsMatch
    <3>4. ~(end + 1 >= Len(first))
        BY <1>3, <1>4, <2>4
    <3> HIDE DEF u2
    <3> QED
        BY <2>1, <3>3, <3>4 DEF ReadsBack, d
  <2>5. CASE end >= n1
    <3> DEFINE k == n1 + IF n1 < end THEN 1 ELSE 0
               data == Append(<<>>, w1)
    <3>1. IsRead(u1, data, k)
      <4>1. 0 + n1 = n1 /\ end - 0 >= n1
          BY <1>3, <2>5
      <4> HIDE DEF u1, n1
      <4> QED
          BY <2>3, <4>1
    <3>2. k \in Nat /\ (n1 < end => k = back) /\ (~(n1 < end) => ~(end - k >= n2))
      <4> HIDE DEF n1, n2
      <4> QED
          BY <1>3, <2>5
    <3>3. end - k >= n2 => ShowsBody(b, k, two, n2)
        BY <1>4, <3>2
    <3>4. k + n2 < end => Sees(b[k + n2], Dark(p.gaps[2]))
      <4>1. CASE n1 < end
        <5>1. k + n2 = last
            BY <3>2, <4>1
        <5> QED
            BY <1>4, <5>1
      <4>2. CASE ~(n1 < end)
        <5> HIDE DEF n1, n2, k
        <5> QED
            BY <1>3, <3>2, <4>2
      <4> QED
          BY <4>1, <4>2
    <3> HIDE DEF k, data, u1
    <3>5. /\ ~(end - k >= n2) => u2 = Failed(u1)
          /\ end - k >= n2 => IsRead(u2, Append(data, w2), k + n2 + IF k + n2 < end THEN 1 ELSE 0)
      <4> DEFINE i == 2
                 n == 2
      <4>1. /\ Section(p, i, n) /\ w2 \in [1 .. n -> [1 .. p.width -> Bit]]
            /\ IsBody(two, p, w2)
          BY <1>1, <1>2, <1>3 DEF Section
      <4>2. SectionSeen(b, k, end, p, i, n, two)
          BY <1>1, <3>3, <3>4 DEF SectionSeen
      <4> HIDE DEF i, n
      <4>3. SectionTakes(b, u1, end, p, i, n, data, w2, k)
          BY <3>1, <3>2, <4>1, <4>2, SectionTaken
      <4> QED
          BY <4>3 DEF i, n, SectionTakes
    <3>6. CASE end - k >= n2
      <4>1. Append(data, w2) = m
        <5>1. w1 \in {w1, w2} /\ w2 \in {w1, w2}
            OBVIOUS
        <5>2. Append(Append(<<>>, w1), w2) = <<w1, w2>>
            BY <5>1, AppendedTwo
        <5> QED
            BY <1>2, <5>2 DEF data
      <4>2. u2.ok /\ u2.data = m
          BY <3>5, <3>6, <4>1 DEF IsRead
      <4> HIDE DEF u2
      <4> QED
          BY <2>1, <4>2 DEF ReadsBack, d
    <3>7. CASE ~(end - k >= n2)
      <4>1. ~u2.ok
        <5>1. u2 = Failed(u1)
            BY <3>5, <3>7
        <5> HIDE DEF u2
        <5> QED
            BY <3>1, <5>1 DEF Failed, IsRead, IsMatch
      <4>2. ~(end + 1 >= Len(first))
        <5>1. k <= back
            BY <1>3 DEF k
        <5> HIDE DEF n1, n2
        <5> QED
            BY <1>3, <1>4, <3>2, <3>7, <5>1
      <4> HIDE DEF u2
      <4> QED
          BY <2>1, <4>1, <4>2 DEF ReadsBack, d
    <3> QED
        BY <3>6, <3>7
  <2> QED
      BY <2>4, <2>5
<1> QED
    BY <1>5, <1>6

LEMMA TwoSectionsUnderstood ==
    ASSUME Jitter <= 100, NEW p, TwoSections(p), p.repeat \in Nat, NEW m, IsPair(m, p)
    PROVE  Understood(p, m)
<1> DEFINE once == Intervals(sendMessage(p, m))
           t == p.gaps[2]
<1>1. PICK light, one, two : Paired(light, one, two, p, m)
                             /\ sendMessage(p, m) = light \o <<Dark(t)>>
    BY PairOnAir
<1>2. Len(light) \in Nat \ {0} /\ Len(light) % 2 = 1
  <2> DEFINE n1 == Need(p, 1)
             n2 == Need(p, 2)
  <2>1. n1 \in Nat \ {0} /\ n1 % 2 = 1
    <3>1. m[1] \in [1 .. 1 -> [1 .. p.width -> Bit]] /\ IsBody(one, p, m[1]) /\ 1 \in {1, 2}
        BY <1>1 DEF IsPair, Paired
    <3> QED
        BY <3>1, SectionLong
  <2>2. n2 \in Nat \ {0} /\ n2 % 2 = 1
    <3>1. m[2] \in [1 .. 2 -> [1 .. p.width -> Bit]] /\ IsBody(two, p, m[2]) /\ 2 \in {1, 2}
        BY <1>1 DEF IsPair, Paired
    <3> QED
        BY <3>1, SectionLong
  <2>3. Len(light) = n1 + 1 + n2
      BY <1>1 DEF Paired
  <2> HIDE DEF n1, n2
  <2> QED
      BY <2>1, <2>2, <2>3
<1>3. light \in Seq(Part) /\ Alternates(light) /\ light # <<>> /\ t \in Times /\ p.trail = <<>>
    BY <1>1, <1>2 DEF Paired, TwoSections
<1>4. /\ Heards(once, light, t) /\ Intervals(sendGeneric(p, m)) \in Seq(Part)
      /\ Begins(Intervals(sendGeneric(p, m)), once)
    BY <1>1, <1>3, GenericHeard
<1> HIDE DEF once
<1>5. ASSUME NEW b, NEW end \in Nat, SeesAll(b, end, once)
      PROVE  ReadsBack(matchMessage(b, end, p), end, once, m)
    BY <1>1, <1>2, <1>4, <1>5, PairRead
<1> QED
    BY <1>4, <1>5 DEF Understood, once, Heards

-----------------------------------------------------------------------------
(* The numbers: the one and the zero of each protocol are so far apart that *)
(* the sensor does not make one out of the other.                          *)
LEMMA MarksApart ==
    ASSUME Jitter <= 100, NEW p, Tuned(p), p.onemark \in Nat, p.onemark >= 400, p.zeromark \in Nat,
           LET u == p.onemark + p.excess
           IN  \/ p.zeromark + 100 < (u * (100 - p.tolerance)) \div 100
               \/ p.zeromark - 1 > (u * (100 + p.tolerance)) \div 100 + 1
    PROVE  MarksTell(p)
<1> SUFFICES ASSUME NEW x, Sees(x, Lit(p.zeromark)) PROVE ~matchMark(x, p.onemark, p)
    BY DEF MarksTell
<1> DEFINE u == p.onemark + p.excess
           low == (u * (100 - p.tolerance)) \div 100 - 0
           high == (u * (100 + p.tolerance)) \div 100 + 1 + 0
<1>1. x \in Nat /\ p.zeromark - 1 <= 2 * x /\ 2 * x <= p.zeromark + 100
    BY CodecAssumption DEF Sees, Lit
<1>2. low \in Int /\ low >= 0 /\ high \in Int
    BY DEF Tuned
<1>3. ticksLow(u, p.tolerance, 0) = low
  <2>1. ticksLow(u, p.tolerance, 0) = Max({0, low})
      BY DEF ticksLow
  <2> HIDE DEF low, u
  <2> QED
      BY <1>2, <2>1, MaxOf
<1>4. ticksHigh(u, p.tolerance, 0) = high
    BY DEF ticksHigh
<1>5. p.zeromark + 100 < low \/ p.zeromark - 1 > high
    BY DEF Tuned
<1>6. matchMark(x, p.onemark, p) => 2 * x >= low /\ 2 * x <= high
    BY <1>3, <1>4 DEF matchMark, match, kRawTick
<1> HIDE DEF low, high
<1> QED
    BY <1>1, <1>2, <1>5, <1>6

LEMMA SpacesApart ==
    ASSUME NEW p, Tuned(p), p.onespace \in Nat, p.onespace >= 400, p.zerospace \in Nat,
           p.zerospace < ((p.onespace - p.excess) * (100 - p.tolerance)) \div 100
    PROVE  SpacesTell(p)
<1> SUFFICES ASSUME NEW x, Sees(x, Dark(p.zerospace)) PROVE ~matchSpace(x, p.onespace, p)
    BY DEF SpacesTell
<1> DEFINE u == p.onespace - p.excess
           low == (u * (100 - p.tolerance)) \div 100 - 0
<1>1. x \in Nat /\ 2 * x <= p.zerospace
    BY DEF Sees, Dark
<1>2. low \in Int /\ low >= 0 /\ p.zerospace < low
    BY DEF Tuned
<1>3. ticksLow(u, p.tolerance, 0) = low
  <2>1. ticksLow(u, p.tolerance, 0) = Max({0, low})
      BY DEF ticksLow
  <2> HIDE DEF low, u
  <2> QED
      BY <1>2, <2>1, MaxOf
<1>4. matchSpace(x, p.onespace, p) => 2 * x >= low
    BY <1>3 DEF matchSpace, match, kRawTick
<1> HIDE DEF low
<1> QED
    BY <1>1, <1>2, <1>4

LEMMA SamsungOneWord ==
    ASSUME Jitter <= 100, NEW limit \in Nat
    PROVE  LET p == [Samsung EXCEPT !.timeout = limit] IN OneWord(p) /\ p.repeat \in Nat
<1> DEFINE p == [Samsung EXCEPT !.timeout = limit]
<1>1. /\ p.coding = "bits" /\ p.lead = <<>> /\ p.hdrmark = 4480 /\ p.hdrspace = 4480
      /\ p.onemark = 560 /\ p.onespace = 1680 /\ p.zeromark = 560 /\ p.zerospace = 560
      /\ p.footermark = 560 /\ p.gaps = <<26880>> /\ p.mesgtime = 108080 /\ p.words = <<1>>
      /\ p.width = Bits /\ p.repeat = 0 /\ p.trail = <<>>
      /\ p.shortest = 0
    BY DEF Samsung, Usual, kDefaultMessageGap
<1>2. p.tolerance = 25 /\ p.excess = 50 /\ p.timeout = limit
    BY DEF Samsung, Usual
<1>3. p.msb = TRUE /\ p.msb \in BOOLEAN /\ ~p.exactgap[1]
    BY DEF Samsung, Usual
<1>4. Timed(p)
    BY SamsungSuits DEF Suits
<1> HIDE DEF p
<1>5. Bits \in Nat \ {0, 1} /\ ByteBits \in Nat \ {0}
    BY CodecAssumption
<1>6. Tuned(p) /\ Pulsed(p)
  <2>1. Tuned(p)
      BY <1>2 DEF Tuned
  <2>2. p.coding # "manchester" /\ p.width \in Nat /\ (p.hdrmark = 0 <=> p.hdrspace = 0)
      BY <1>1, <1>5
  <2> QED
      BY <1>4, <2>1, <2>2 DEF Pulsed
<1>7. SpacesTell(p)
  <2>1. p.zerospace < ((p.onespace - p.excess) * (100 - p.tolerance)) \div 100
      BY <1>1, <1>2
  <2>2. p.onespace \in Nat /\ p.onespace >= 400 /\ p.zerospace \in Nat
      BY <1>1
  <2> QED
      BY <1>6, <2>1, <2>2, SpacesApart
<1>8. Readable(p)
  <2>1. \A t \in {p.onemark, p.onespace, p.zeromark, p.zerospace} : t \in Nat /\ t >= 400
      BY <1>1
  <2> QED
      BY <1>6, <1>7, <2>1 DEF Readable
<1>9. Sectioned(p)
  <2>1. /\ p.msb \in BOOLEAN /\ p.width # 0
        /\ p.hdrmark # 0 => p.hdrmark >= 400 /\ p.hdrspace >= 400
        /\ p.footermark # 0 => p.footermark >= 400
        /\ p.coding \in {"bits", "bytes"} /\ (p.coding = "bytes" => p.footermark # 0)
      BY <1>1, <1>5, <1>3
  <2>2. p.footermark = 0 => MarksTell(p) /\ p.onespace = p.zerospace
      BY <1>1, <1>7
  <2> QED
      BY <1>6, <1>8, <2>1, <2>2 DEF Sectioned
<1>10. /\ HeaderLen(p) = 2 /\ WordAt(p, 2) = 2 + 2 * p.width /\ WordAt(p, 3) = 2 + 4 * p.width
       /\ 1 + 1 = 2 /\ 2 + 1 = 3
  <2>1. HeaderLen(p) = 2
      BY <1>1 DEF HeaderLen
  <2> QED
      BY <1>6, <2>1, WordPlaces
<1>11. Need(p, 1) = 2 + 2 * p.width + 1
    BY <1>1, <1>10 DEF Need
<1>12. Shortest(p, LeadLen(p) + Need(p, 1)) /\ Leads(p)
  <2>1. LeadLen(p) = 0
      BY <1>1 DEF LeadLen
  <2>2. p.shortest \in Nat /\ p.shortest <= LeadLen(p) + Need(p, 1) /\ (p.lead # <<>> => p.shortest >= 2)
      BY <1>1, <1>5, <1>11, <2>1
  <2>3. Leads(p)
      BY <1>1 DEF Leads
  <2> QED
      BY <2>2, <2>3 DEF Shortest
<1>13. p.gaps[1] \in Times /\ p.gaps[1] >= 1000 /\ p.repeat \in Nat
    BY <1>1 DEF Times
<1> QED
    BY <1>1, <1>9, <1>3, <1>12, <1>13 DEF OneWord, p

LEMMA MilesTag2OneWord ==
    ASSUME Jitter <= 100, NEW limit \in Nat
    PROVE  LET p == [MilesTag2 EXCEPT !.timeout = limit] IN OneWord(p) /\ p.repeat \in Nat
<1> DEFINE p == [MilesTag2 EXCEPT !.timeout = limit]
<1>1. /\ p.coding = "bits" /\ p.lead = <<>> /\ p.hdrmark = 2400 /\ p.hdrspace = 600
      /\ p.onemark = 1200 /\ p.onespace = 600 /\ p.zeromark = 600 /\ p.zerospace = 600
      /\ p.footermark = 0 /\ p.gaps = <<32000>> /\ p.mesgtime = 0 /\ p.words = <<1>>
      /\ p.width = Bits /\ p.repeat = 0 /\ p.trail = <<>>
      /\ p.shortest = 0
    BY DEF MilesTag2, Usual, kDefaultMessageGap
<1>2. p.tolerance = 25 /\ p.excess = 50 /\ p.timeout = limit
    BY DEF MilesTag2, Usual
<1>3. p.msb = TRUE /\ p.msb \in BOOLEAN /\ ~p.exactgap[1]
    BY DEF MilesTag2, Usual
<1>4. Timed(p)
    BY MilesTag2Suits DEF Suits
<1> HIDE DEF p
<1>5. Bits \in Nat \ {0, 1} /\ ByteBits \in Nat \ {0}
    BY CodecAssumption
<1>6. Tuned(p) /\ Pulsed(p)
  <2>1. Tuned(p)
      BY <1>2 DEF Tuned
  <2>2. p.coding # "manchester" /\ p.width \in Nat /\ (p.hdrmark = 0 <=> p.hdrspace = 0)
      BY <1>1, <1>5
  <2> QED
      BY <1>4, <2>1, <2>2 DEF Pulsed
<1>7. MarksTell(p)
  <2>1. p.zeromark + 100 < ((p.onemark + p.excess) * (100 - p.tolerance)) \div 100
      BY <1>1, <1>2
  <2>2. p.onemark \in Nat /\ p.onemark >= 400 /\ p.zeromark \in Nat
      BY <1>1
  <2> QED
      BY <1>6, <2>1, <2>2, MarksApart
<1>8. Readable(p)
  <2>1. \A t \in {p.onemark, p.onespace, p.zeromark, p.zerospace} : t \in Nat /\ t >= 400
      BY <1>1
  <2> QED
      BY <1>6, <1>7, <2>1 DEF Readable
<1>9. Sectioned(p)
  <2>1. /\ p.msb \in BOOLEAN /\ p.width # 0
        /\ p.hdrmark # 0 => p.hdrmark >= 400 /\ p.hdrspace >= 400
        /\ p.footermark # 0 => p.footermark >= 400
        /\ p.coding \in {"bits", "bytes"} /\ (p.coding = "bytes" => p.footermark # 0)
      BY <1>1, <1>5, <1>3
  <2>2. p.footermark = 0 => MarksTell(p) /\ p.onespace = p.zerospace
      BY <1>1, <1>7
  <2> QED
      BY <1>6, <1>8, <2>1, <2>2 DEF Sectioned
<1>10. /\ HeaderLen(p) = 2 /\ WordAt(p, 2) = 2 + 2 * p.width /\ WordAt(p, 3) = 2 + 4 * p.width
       /\ 1 + 1 = 2 /\ 2 + 1 = 3
  <2>1. HeaderLen(p) = 2
      BY <1>1 DEF HeaderLen
  <2> QED
      BY <1>6, <2>1, WordPlaces
<1>11. Need(p, 1) = 2 + 2 * p.width + -1
    BY <1>1, <1>10 DEF Need
<1>12. Shortest(p, LeadLen(p) + Need(p, 1)) /\ Leads(p)
  <2>1. LeadLen(p) = 0
      BY <1>1 DEF LeadLen
  <2>2. p.shortest \in Nat /\ p.shortest <= LeadLen(p) + Need(p, 1) /\ (p.lead # <<>> => p.shortest >= 2)
      BY <1>1, <1>5, <1>11, <2>1
  <2>3. Leads(p)
      BY <1>1 DEF Leads
  <2> QED
      BY <2>2, <2>3 DEF Shortest
<1>13. p.gaps[1] \in Times /\ p.gaps[1] >= 1000 /\ p.repeat \in Nat
    BY <1>1 DEF Times
<1> QED
    BY <1>1, <1>9, <1>3, <1>12, <1>13 DEF OneWord, p

LEMMA TrumaOneWord ==
    ASSUME Jitter <= 100, NEW limit \in Nat
    PROVE  LET p == [Truma EXCEPT !.timeout = limit] IN OneWord(p) /\ p.repeat \in Nat
<1> DEFINE p == [Truma EXCEPT !.timeout = limit]
<1>1. /\ p.coding = "bits" /\ p.lead = <<20200, 1000>> /\ p.hdrmark = 1800 /\ p.hdrspace = 630
      /\ p.onemark = 600 /\ p.onespace = 630 /\ p.zeromark = 1200 /\ p.zerospace = 630
      /\ p.footermark = 600 /\ p.gaps = <<100000>> /\ p.mesgtime = 0 /\ p.words = <<1>>
      /\ p.width = Bits /\ p.repeat = 0 /\ p.trail = <<>>
      /\ p.shortest = 2 * Bits + 1
    BY DEF Truma, Usual, kDefaultMessageGap
<1>2. p.tolerance = 25 /\ p.excess = 50 /\ p.timeout = limit
    BY DEF Truma, Usual
<1>3. p.msb = FALSE /\ p.msb \in BOOLEAN /\ ~p.exactgap[1]
    BY DEF Truma, Usual
<1>4. Timed(p)
    BY TrumaSuits DEF Suits
<1> HIDE DEF p
<1>5. Bits \in Nat \ {0, 1} /\ ByteBits \in Nat \ {0}
    BY CodecAssumption
<1>6. Tuned(p) /\ Pulsed(p)
  <2>1. Tuned(p)
      BY <1>2 DEF Tuned
  <2>2. p.coding # "manchester" /\ p.width \in Nat /\ (p.hdrmark = 0 <=> p.hdrspace = 0)
      BY <1>1, <1>5
  <2> QED
      BY <1>4, <2>1, <2>2 DEF Pulsed
<1>7. MarksTell(p)
  <2>1. p.zeromark - 1 > ((p.onemark + p.excess) * (100 + p.tolerance)) \div 100 + 1
      BY <1>1, <1>2
  <2>2. p.onemark \in Nat /\ p.onemark >= 400 /\ p.zeromark \in Nat
      BY <1>1
  <2> QED
      BY <1>6, <2>1, <2>2, MarksApart
<1>8. Readable(p)
  <2>1. \A t \in {p.onemark, p.onespace, p.zeromark, p.zerospace} : t \in Nat /\ t >= 400
      BY <1>1
  <2> QED
      BY <1>6, <1>7, <2>1 DEF Readable
<1>9. Sectioned(p)
  <2>1. /\ p.msb \in BOOLEAN /\ p.width # 0
        /\ p.hdrmark # 0 => p.hdrmark >= 400 /\ p.hdrspace >= 400
        /\ p.footermark # 0 => p.footermark >= 400
        /\ p.coding \in {"bits", "bytes"} /\ (p.coding = "bytes" => p.footermark # 0)
      BY <1>1, <1>5, <1>3
  <2>2. p.footermark = 0 => MarksTell(p) /\ p.onespace = p.zerospace
      BY <1>1, <1>7
  <2> QED
      BY <1>6, <1>8, <2>1, <2>2 DEF Sectioned
<1>10. /\ HeaderLen(p) = 2 /\ WordAt(p, 2) = 2 + 2 * p.width /\ WordAt(p, 3) = 2 + 4 * p.width
       /\ 1 + 1 = 2 /\ 2 + 1 = 3
  <2>1. HeaderLen(p) = 2
      BY <1>1 DEF HeaderLen
  <2> QED
      BY <1>6, <2>1, WordPlaces
<1>11. Need(p, 1) = 2 + 2 * p.width + 1
    BY <1>1, <1>10 DEF Need
<1>12. Shortest(p, LeadLen(p) + Need(p, 1)) /\ Leads(p)
  <2>1. LeadLen(p) = 2
      BY <1>1 DEF LeadLen
  <2>2. p.shortest \in Nat /\ p.shortest <= LeadLen(p) + Need(p, 1) /\ (p.lead # <<>> => p.shortest >= 2)
      BY <1>1, <1>5, <1>11, <2>1
  <2>3. Leads(p)
      BY <1>1 DEF Leads
  <2> QED
      BY <2>2, <2>3 DEF Shortest
<1>13. p.gaps[1] \in Times /\ p.gaps[1] >= 1000 /\ p.repeat \in Nat
    BY <1>1 DEF Times
<1> QED
    BY <1>1, <1>9, <1>3, <1>12, <1>13 DEF OneWord, p

LEMMA SymphonyConstBit ==
    ASSUME Jitter <= 100, NEW limit \in Nat
    PROVE  LET p == [Symphony EXCEPT !.timeout = limit] IN ConstBit(p) /\ p.repeat \in Nat
<1> DEFINE p == [Symphony EXCEPT !.timeout = limit]
<1>1. /\ p.coding = "constbit" /\ p.lead = <<>> /\ p.hdrmark = 0 /\ p.hdrspace = 0
      /\ p.onemark = 1250 /\ p.onespace = 400 /\ p.zeromark = 400 /\ p.zerospace = 1250
      /\ p.footermark = 0 /\ p.gaps = <<6600>> /\ p.mesgtime = 0 /\ p.words = <<1>>
      /\ p.width = Bits /\ p.repeat = 3 /\ p.trail = <<>>
      /\ p.shortest = 2 * Bits - 1
    BY DEF Symphony, Usual, kDefaultMessageGap
<1>2. p.tolerance = 25 /\ p.excess = 0 /\ p.timeout = limit
    BY DEF Symphony, Usual
<1>3. p.msb = TRUE /\ p.msb \in BOOLEAN /\ ~p.exactgap[1]
    BY DEF Symphony, Usual
<1>4. [p EXCEPT !.msb = TRUE] = p
  <2> DEFINE q == Symphony
  <2>1. q.msb = TRUE
      BY DEF Symphony, Usual
  <2> HIDE DEF q
  <2>2. [[q EXCEPT !.timeout = limit] EXCEPT !.msb = TRUE] = [q EXCEPT !.timeout = limit]
      BY <2>1
  <2> QED
      BY <2>2 DEF q
<1>5. Timed(p)
    BY SymphonySuits DEF Suits
<1> HIDE DEF p
<1>6. Bits \in Nat \ {0, 1} /\ ByteBits \in Nat \ {0}
    BY CodecAssumption
<1>7. Tuned(p) /\ Pulsed(p)
  <2>1. Tuned(p)
      BY <1>2 DEF Tuned
  <2>2. p.coding # "manchester" /\ p.width \in Nat /\ (p.hdrmark = 0 <=> p.hdrspace = 0)
      BY <1>1, <1>6
  <2> QED
      BY <1>5, <2>1, <2>2 DEF Pulsed
<1>8. MarksTell(p)
  <2>1. p.zeromark + 100 < ((p.onemark + p.excess) * (100 - p.tolerance)) \div 100
      BY <1>1, <1>2
  <2>2. p.onemark \in Nat /\ p.onemark >= 400 /\ p.zeromark \in Nat
      BY <1>1
  <2> QED
      BY <1>7, <2>1, <2>2, MarksApart
<1>9. Readable(p)
  <2>1. \A t \in {p.onemark, p.onespace, p.zeromark, p.zerospace} : t \in Nat /\ t >= 400
      BY <1>1
  <2> QED
      BY <1>7, <1>8, <2>1 DEF Readable
<1>10. /\ p.gaps[1] \in Times /\ p.gaps[1] >= 1000 /\ p.repeat \in Nat
       /\ p.width \in Nat \ {0, 1} /\ p.shortest \in Nat /\ p.shortest <= 2 * p.width - 1
       /\ p.onespace # p.zerospace
    BY <1>1, <1>6 DEF Times
<1> QED
    BY <1>1, <1>7, <1>8, <1>9, <1>10, <1>3, <1>4 DEF ConstBit, p

LEMMA EliteScreensConstBit ==
    ASSUME Jitter <= 100, NEW limit \in Nat
    PROVE  LET p == [EliteScreens EXCEPT !.timeout = limit] IN ConstBit(p) /\ p.repeat \in Nat
<1> DEFINE p == [EliteScreens EXCEPT !.timeout = limit]
<1>1. /\ p.coding = "constbit" /\ p.lead = <<>> /\ p.hdrmark = 0 /\ p.hdrspace = 0
      /\ p.onemark = 470 /\ p.onespace = 1214 /\ p.zeromark = 1214 /\ p.zerospace = 470
      /\ p.footermark = 0 /\ p.gaps = <<29200>> /\ p.mesgtime = 0 /\ p.words = <<1>>
      /\ p.width = Bits /\ p.repeat = 1 /\ p.trail = <<>>
      /\ p.shortest = 0
    BY DEF EliteScreens, Usual, kDefaultMessageGap
<1>2. p.tolerance = 25 /\ p.excess = 50 /\ p.timeout = limit
    BY DEF EliteScreens, Usual
<1>3. p.msb = TRUE /\ p.msb \in BOOLEAN /\ ~p.exactgap[1]
    BY DEF EliteScreens, Usual
<1>4. [p EXCEPT !.msb = TRUE] = p
  <2> DEFINE q == EliteScreens
  <2>1. q.msb = TRUE
      BY DEF EliteScreens, Usual
  <2> HIDE DEF q
  <2>2. [[q EXCEPT !.timeout = limit] EXCEPT !.msb = TRUE] = [q EXCEPT !.timeout = limit]
      BY <2>1
  <2> QED
      BY <2>2 DEF q
<1>5. Timed(p)
    BY EliteScreensSuits DEF Suits
<1> HIDE DEF p
<1>6. Bits \in Nat \ {0, 1} /\ ByteBits \in Nat \ {0}
    BY CodecAssumption
<1>7. Tuned(p) /\ Pulsed(p)
  <2>1. Tuned(p)
      BY <1>2 DEF Tuned
  <2>2. p.coding # "manchester" /\ p.width \in Nat /\ (p.hdrmark = 0 <=> p.hdrspace = 0)
      BY <1>1, <1>6
  <2> QED
      BY <1>5, <2>1, <2>2 DEF Pulsed
<1>8. MarksTell(p)
  <2>1. p.zeromark - 1 > ((p.onemark + p.excess) * (100 + p.tolerance)) \div 100 + 1
      BY <1>1, <1>2
  <2>2. p.onemark \in Nat /\ p.onemark >= 400 /\ p.zeromark \in Nat
      BY <1>1
  <2> QED
      BY <1>7, <2>1, <2>2, MarksApart
<1>9. Readable(p)
  <2>1. \A t \in {p.onemark, p.onespace, p.zeromark, p.zerospace} : t \in Nat /\ t >= 400
      BY <1>1
  <2> QED
      BY <1>7, <1>8, <2>1 DEF Readable
<1>10. /\ p.gaps[1] \in Times /\ p.gaps[1] >= 1000 /\ p.repeat \in Nat
       /\ p.width \in Nat \ {0, 1} /\ p.shortest \in Nat /\ p.shortest <= 2 * p.width - 1
       /\ p.onespace # p.zerospace
    BY <1>1, <1>6 DEF Times
<1> QED
    BY <1>1, <1>7, <1>8, <1>9, <1>10, <1>3, <1>4 DEF ConstBit, p

LEMMA PanasonicAcTwoSections ==
    ASSUME Jitter <= 100, NEW limit \in Nat
    PROVE  LET p == [PanasonicAc EXCEPT !.timeout = limit] IN TwoSections(p) /\ p.repeat \in Nat
<1> DEFINE p == [PanasonicAc EXCEPT !.timeout = limit]
<1>1. /\ p.coding = "bytes" /\ p.lead = <<>> /\ p.hdrmark = 3456 /\ p.hdrspace = 1728
      /\ p.onemark = 432 /\ p.onespace = 1296 /\ p.zeromark = 432 /\ p.zerospace = 432
      /\ p.footermark = 432 /\ p.gaps = <<10000, 100000>> /\ p.mesgtime = 0 /\ p.words = <<1, 2>>
      /\ p.width = ByteBits /\ p.repeat = 0 /\ p.trail = <<>>
      /\ p.shortest = 6 * ByteBits + 4
    BY DEF PanasonicAc, Usual, kDefaultMessageGap
<1>2. p.tolerance = 40 /\ p.excess = 0 /\ p.timeout = limit
    BY DEF PanasonicAc, Usual
<1>3. p.msb = FALSE /\ p.msb \in BOOLEAN /\ ~p.exactgap[2]
    BY DEF PanasonicAc, Usual
<1>4. Timed(p)
    BY PanasonicAcSuits DEF Suits
<1> HIDE DEF p
<1>5. Bits \in Nat \ {0, 1} /\ ByteBits \in Nat \ {0}
    BY CodecAssumption
<1>6. Tuned(p) /\ Pulsed(p)
  <2>1. Tuned(p)
      BY <1>2 DEF Tuned
  <2>2. p.coding # "manchester" /\ p.width \in Nat /\ (p.hdrmark = 0 <=> p.hdrspace = 0)
      BY <1>1, <1>5
  <2> QED
      BY <1>4, <2>1, <2>2 DEF Pulsed
<1>7. SpacesTell(p)
  <2>1. p.zerospace < ((p.onespace - p.excess) * (100 - p.tolerance)) \div 100
      BY <1>1, <1>2
  <2>2. p.onespace \in Nat /\ p.onespace >= 400 /\ p.zerospace \in Nat
      BY <1>1
  <2> QED
      BY <1>6, <2>1, <2>2, SpacesApart
<1>8. Readable(p)
  <2>1. \A t \in {p.onemark, p.onespace, p.zeromark, p.zerospace} : t \in Nat /\ t >= 400
      BY <1>1
  <2> QED
      BY <1>6, <1>7, <2>1 DEF Readable
<1>9. Sectioned(p)
  <2>1. /\ p.msb \in BOOLEAN /\ p.width # 0
        /\ p.hdrmark # 0 => p.hdrmark >= 400 /\ p.hdrspace >= 400
        /\ p.footermark # 0 => p.footermark >= 400
        /\ p.coding \in {"bits", "bytes"} /\ (p.coding = "bytes" => p.footermark # 0)
      BY <1>1, <1>5, <1>3
  <2>2. p.footermark = 0 => MarksTell(p) /\ p.onespace = p.zerospace
      BY <1>1, <1>7
  <2> QED
      BY <1>6, <1>8, <2>1, <2>2 DEF Sectioned
<1>10. /\ HeaderLen(p) = 2 /\ WordAt(p, 2) = 2 + 2 * p.width /\ WordAt(p, 3) = 2 + 4 * p.width
       /\ 1 + 1 = 2 /\ 2 + 1 = 3
  <2>1. HeaderLen(p) = 2
      BY <1>1 DEF HeaderLen
  <2> QED
      BY <1>6, <2>1, WordPlaces
<1>11. Need(p, 1) = 2 + 2 * p.width + 1 /\ Need(p, 2) = 2 + 4 * p.width + 1
    BY <1>1, <1>10 DEF Need
<1>12. p.shortest \in Nat /\ p.shortest <= Need(p, 1) + 1 + Need(p, 2)
    BY <1>1, <1>5, <1>11
<1>13. /\ p.gaps[1] \in Times /\ p.gaps[1] >= 1000 /\ p.gaps[2] \in Times /\ p.gaps[2] >= 1000
       /\ p.repeat \in Nat
    BY <1>1 DEF Times
<1> QED
    BY <1>1, <1>9, <1>3, <1>12, <1>13 DEF TwoSections, p

-----------------------------------------------------------------------------
(* The messages of the six.                                                *)
LEMMA MessageShape ==
    ASSUME NEW q, NEW n \in Nat, Len(q.words) = n, NEW m \in Messages(q)
    PROVE  /\ m \in [1 .. n -> UNION {[1 .. k -> Word(q)] : k \in 1 .. 2}]
           /\ \A s \in 1 .. n : m[s] \in [1 .. q.words[s] -> [1 .. q.width -> Bit]]
<1>1. /\ m \in [1 .. n -> UNION {[1 .. k -> Word(q)] : k \in 1 .. 2}]
      /\ \A s \in DOMAIN m : Len(m[s]) = q.words[s]
    BY DEF Messages
<1>2. ASSUME NEW s \in 1 .. n PROVE m[s] \in [1 .. q.words[s] -> [1 .. q.width -> Bit]]
  <2>1. PICK k \in 1 .. 2 : m[s] \in [1 .. k -> Word(q)]
      BY <1>1
  <2>2. Len(m[s]) = k /\ Len(m[s]) = q.words[s]
      BY <1>1, <2>1
  <2> QED
      BY <2>1, <2>2 DEF Word
<1> QED
    BY <1>1, <1>2

LEMMA SingleMessage ==
    ASSUME NEW q, Len(q.words) = 1, q.words[1] = 1, NEW m \in Messages(q), NEW limit
    PROVE  IsSingle(m, [q EXCEPT !.timeout = limit])
<1> DEFINE p == [q EXCEPT !.timeout = limit]
           W == [1 .. q.width -> Bit]
<1>1. p.width = q.width
    OBVIOUS
<1>2. 1 \in Nat
    OBVIOUS
<1>3. /\ m \in [1 .. 1 -> UNION {[1 .. k -> Word(q)] : k \in 1 .. 2}]
      /\ \A s \in 1 .. 1 : m[s] \in [1 .. q.words[s] -> W]
    BY <1>2, MessageShape
<1> HIDE DEF W
<1>4. \A s \in 1 .. 1 : m[s] \in [1 .. 1 -> W]
    BY <1>2, <1>3
<1>5. m \in [1 .. 1 -> [1 .. 1 -> W]]
    BY <1>3, <1>4
<1> QED
    BY <1>1, <1>5 DEF IsSingle, W

LEMMA PairMessage ==
    ASSUME NEW q, q.words = <<1, 2>>, NEW m \in Messages(q), NEW limit
    PROVE  IsPair(m, [q EXCEPT !.timeout = limit])
<1> DEFINE p == [q EXCEPT !.timeout = limit]
           W == [1 .. q.width -> Bit]
<1>1. p.width = q.width
    OBVIOUS
<1>2. Len(q.words) = 2 /\ q.words[1] = 1 /\ q.words[2] = 2 /\ 2 \in Nat
    OBVIOUS
<1>3. /\ m \in [1 .. 2 -> UNION {[1 .. k -> Word(q)] : k \in 1 .. 2}]
      /\ \A s \in 1 .. 2 : m[s] \in [1 .. q.words[s] -> W]
    BY <1>2, MessageShape
<1> HIDE DEF W
<1>4. m[1] \in [1 .. 1 -> W] /\ m[2] \in [1 .. 2 -> W]
    BY <1>2, <1>3
<1>5. m = <<m[1], m[2]>>
    BY <1>3
<1> QED
    BY <1>1, <1>4, <1>5 DEF IsPair, W

(* Every message of a protocol that is told by pulse lengths is            *)
(* understood, however long the receiver waits.                            *)
LEMMA AllUnderstood ==
    ASSUME Jitter <= 100, NEW n \in ProtocolNames, NEW limit \in Nat,
           NEW m \in Messages(Protocol(n)), Protocol(n).coding # "manchester"
    PROVE  Understood([Protocol(n) EXCEPT !.timeout = limit], m)
<1> DEFINE p == [Protocol(n) EXCEPT !.timeout = limit]
<1>1. CASE n = "SAMSUNG"
  <2>1. Protocol(n) = Samsung
      BY <1>1 DEF Protocol
  <2>2. Len(Samsung.words) = 1 /\ Samsung.words[1] = 1
      BY DEF Samsung, Usual
  <2>3. OneWord(p) /\ p.repeat \in Nat
      BY <2>1, SamsungOneWord
  <2>4. IsSingle(m, p)
      BY <2>1, <2>2, SingleMessage
  <2> HIDE DEF p
  <2>5. Understood(p, m)
      BY <2>3, <2>4, OneWordUnderstood
  <2> QED
      BY <2>5 DEF p
<1>2. CASE n = "PANASONIC_AC"
  <2>1. Protocol(n) = PanasonicAc
      BY <1>2 DEF Protocol
  <2>2. PanasonicAc.words = <<1, 2>>
      BY DEF PanasonicAc, Usual
  <2>3. TwoSections(p) /\ p.repeat \in Nat
      BY <2>1, PanasonicAcTwoSections
  <2>4. IsPair(m, p)
      BY <2>1, <2>2, PairMessage
  <2> HIDE DEF p
  <2>5. Understood(p, m)
      BY <2>3, <2>4, TwoSectionsUnderstood
  <2> QED
      BY <2>5 DEF p
<1>3. CASE n = "SYMPHONY"
  <2>1. Protocol(n) = Symphony
      BY <1>3 DEF Protocol
  <2>2. Len(Symphony.words) = 1 /\ Symphony.words[1] = 1
      BY DEF Symphony, Usual
  <2>3. ConstBit(p) /\ p.repeat \in Nat
      BY <2>1, SymphonyConstBit
  <2>4. IsSingle(m, p)
      BY <2>1, <2>2, SingleMessage
  <2> HIDE DEF p
  <2>5. Understood(p, m)
      BY <2>3, <2>4, ConstBitUnderstood
  <2> QED
      BY <2>5 DEF p
<1>4. CASE n = "ELITESCREENS"
  <2>1. Protocol(n) = EliteScreens
      BY <1>4 DEF Protocol
  <2>2. Len(EliteScreens.words) = 1 /\ EliteScreens.words[1] = 1
      BY DEF EliteScreens, Usual
  <2>3. ConstBit(p) /\ p.repeat \in Nat
      BY <2>1, EliteScreensConstBit
  <2>4. IsSingle(m, p)
      BY <2>1, <2>2, SingleMessage
  <2> HIDE DEF p
  <2>5. Understood(p, m)
      BY <2>3, <2>4, ConstBitUnderstood
  <2> QED
      BY <2>5 DEF p
<1>5. CASE n = "MILESTAG2"
  <2>1. Protocol(n) = MilesTag2
      BY <1>5 DEF Protocol
  <2>2. Len(MilesTag2.words) = 1 /\ MilesTag2.words[1] = 1
      BY DEF MilesTag2, Usual
  <2>3. OneWord(p) /\ p.repeat \in Nat
      BY <2>1, MilesTag2OneWord
  <2>4. IsSingle(m, p)
      BY <2>1, <2>2, SingleMessage
  <2> HIDE DEF p
  <2>5. Understood(p, m)
      BY <2>3, <2>4, OneWordUnderstood
  <2> QED
      BY <2>5 DEF p
<1>6. CASE n = "TRUMA"
  <2>1. Protocol(n) = Truma
      BY <1>6 DEF Protocol
  <2>2. Len(Truma.words) = 1 /\ Truma.words[1] = 1
      BY DEF Truma, Usual
  <2>3. OneWord(p) /\ p.repeat \in Nat
      BY <2>1, TrumaOneWord
  <2>4. IsSingle(m, p)
      BY <2>1, <2>2, SingleMessage
  <2> HIDE DEF p
  <2>5. Understood(p, m)
      BY <2>3, <2>4, OneWordUnderstood
  <2> QED
      BY <2>5 DEF p
<1>7. n # "AIRWELL"
    BY DEF Protocol, Airwell, Usual
<1>8. n # "ARRIS"
    BY DEF Protocol, Arris, Usual
<1> QED
    BY <1>1, <1>2, <1>3, <1>4, <1>5, <1>6, <1>7, <1>8 DEF ProtocolNames

-----------------------------------------------------------------------------
(* What the recorder keeps: every interval as the sensor sees it, to the   *)
(* timeout if the capture is not cut short; and what is decoded of it.     *)
Kept ==
    /\ pc # "send" => air = Intervals(sendGeneric(proto, message))
    /\ \A k \in 1 .. Len(buf) : Sees(buf[k], air[k])
    /\ pc \in {"decode", "done"} /\ ~cut => ~Arriving
    /\ pc = "done" => result = Decoded(old)

LEMMA KeptInit == Init => Kept
<1> SUFFICES ASSUME Init PROVE Kept
    OBVIOUS
<1>1. pc = "send" /\ 1 .. Len(buf) = {}
    BY DEF Init
<1> QED
    BY <1>1 DEF Kept

LEMMA KeptStep == Inv /\ Kept /\ [Next]_vars => Kept'
<1> SUFFICES ASSUME Inv, Kept, [Next]_vars PROVE Kept'
    OBVIOUS
<1>1. CASE Send
  <2>1. buf' = <<>> /\ pc' = "capture" /\ UNCHANGED <<name, timeout, message>>
      BY <1>1 DEF Send, Inv, Recorded
  <2>2. proto' = proto /\ 1 .. Len(buf') = {}
      BY <2>1 DEF proto
  <2>3. air' = Intervals(sendGeneric(proto', message'))
      BY <1>1, <2>1, <2>2 DEF Send
  <2> QED
      BY <2>1, <2>2, <2>3 DEF Kept
<1>2. CASE Capture
  <2> DEFINE n == Len(buf)
             part == air[n + 1]
  <2>1. PICK disturbed \in BOOLEAN : buf' = Append(buf, Seen(part, disturbed))
      BY <1>2 DEF Capture
  <2>2. UNCHANGED <<name, timeout, message, air>> /\ pc = "capture" /\ pc' = "capture"
      BY <1>2 DEF Capture
  <2>3. n \in Nat /\ n + 1 \in 1 .. Len(air)
      BY <1>2 DEF Capture, Arriving, Inv, Recorded
  <2>4. Sees(Seen(part, disturbed), part)
    <3>1. part \in Part
        BY <2>3 DEF Inv, Recorded
    <3> QED
        BY <3>1, SeenSees
  <2> DEFINE seen == Seen(part, disturbed)
  <2>5. buf \in Seq(Nat) /\ seen \in Nat /\ buf' = Append(buf, seen)
      BY <2>1, <2>4 DEF Inv, Recorded, Sees
  <2> HIDE DEF seen
  <2>6. Len(buf') = n + 1 /\ buf'[n + 1] = seen /\ \A k \in 1 .. n : buf'[k] = buf[k]
      BY <2>5
  <2>7. ASSUME NEW k \in 1 .. n + 1 PROVE Sees(buf'[k], air[k])
    <3>1. k \in 1 .. n \/ k = n + 1
        BY <2>3
    <3>2. CASE k \in 1 .. n
        BY <2>6, <3>2 DEF Kept
    <3>3. CASE k = n + 1
        BY <2>4, <2>6, <3>3 DEF seen
    <3> QED
        BY <3>1, <3>2, <3>3
  <2>8. \A k \in 1 .. Len(buf') : Sees(buf'[k], air'[k])
      BY <2>2, <2>6, <2>7
  <2>9. proto' = proto
      BY <2>2 DEF proto
  <2>10. air' = Intervals(sendGeneric(proto', message'))
      BY <2>2, <2>9 DEF Kept
  <2> QED
      BY <2>2, <2>8, <2>10 DEF Kept
<1>3. CASE Silence
  <2>1. UNCHANGED <<name, timeout, message, air, buf, cut>> /\ ~Arriving
        /\ pc = "capture" /\ pc' = "decode"
      BY <1>3 DEF Silence
  <2>2. proto' = proto /\ ~Arriving'
      BY <2>1 DEF proto, Arriving
  <2> QED
      BY <2>1, <2>2 DEF Kept
<1>4. CASE Fade \/ Full
  <2>1. UNCHANGED <<name, timeout, message, air, buf>> /\ cut' = TRUE
        /\ pc = "capture" /\ pc' = "decode"
      BY <1>4 DEF Fade, Full
  <2>2. proto' = proto
      BY <2>1 DEF proto
  <2> QED
      BY <2>1, <2>2 DEF Kept
<1>5. CASE Decode
  <2>1. UNCHANGED <<name, timeout, message, air, buf, cut, overflow, old>>
        /\ pc = "decode" /\ pc' = "done" /\ result' = Decoded(old)
      BY <1>5 DEF Decode
  <2>2. proto' = proto
      BY <2>1 DEF proto
  <2>3. Cells(old)' = Cells(old)
      BY <2>1 DEF Cells
  <2>4. Decoded(old)' = Decoded(old)
      BY <2>1, <2>2, <2>3 DEF Decoded
  <2>5. Arriving' <=> Arriving
      BY <2>1 DEF Arriving
  <2> QED
      BY <2>1, <2>2, <2>4, <2>5 DEF Kept
<1>6. CASE UNCHANGED vars
  <2>1. UNCHANGED <<name, timeout, message, air, buf, cut, overflow, old, pc, result>>
      BY <1>6 DEF vars
  <2>2. proto' = proto
      BY <2>1 DEF proto
  <2>3. Cells(old)' = Cells(old)
      BY <2>1 DEF Cells
  <2>4. Decoded(old)' = Decoded(old)
      BY <2>1, <2>2, <2>3 DEF Decoded
  <2>5. Arriving' <=> Arriving
      BY <2>1 DEF Arriving
  <2> QED
      BY <2>1, <2>2, <2>4, <2>5 DEF Kept
<1> QED
    BY <1>1, <1>2, <1>3, <1>4, <1>5, <1>6 DEF Next

(* Of a message that is understood, the recorder has kept enough.          *)
LEMMA KeptRead ==
    ASSUME Jitter <= 100, Inv, Kept, ~Manchester, pc = "done"
    PROVE  /\ result.ok => result.data = message
           /\ ~cut /\ Recordable => result.ok
<1> DEFINE once == Intervals(sendMessage(proto, message))
           b == Cells(old)
           end == Len(buf)
<1>1. Understood(proto, message)
  <2>1. name \in ProtocolNames /\ message \in Messages(Protocol(name)) /\ timeout \in Timeouts
      BY CodecAssumption DEF Inv, TypeOK
  <2>2. timeout \in 0 .. (1000 * kMaxTimeoutMs)
      BY <2>1, CodecAssumption
  <2>3. timeout \in Nat
      BY <2>2
  <2>4. Protocol(name).coding # "manchester"
    <3>1. \A q, limit : [q EXCEPT !.timeout = limit].coding = q.coding
        OBVIOUS
    <3> QED
        BY <3>1 DEF Manchester, proto
  <2> QED
      BY <2>1, <2>3, <2>4, AllUnderstood DEF proto
<1>2. /\ once \in Seq(Part) /\ air \in Seq(Part) /\ Begins(air, once)
      /\ \A x : \A stop \in Nat :
           SeesAll(x, stop, once) => ReadsBack(matchMessage(x, stop, proto), stop, once, message)
    BY <1>1 DEF Understood, Kept
<1> HIDE DEF once
<1>3. end \in Nat /\ Len(air) \in Nat /\ Len(once) \in Nat /\ Len(air) >= Len(once)
      /\ end <= Len(air) /\ \A j \in 1 .. Len(once) : air[j] = once[j]
    BY <1>2 DEF Begins, Inv, Recorded, TypeOK
<1>4. SeesAll(b, end, once)
  <2> SUFFICES ASSUME NEW j \in 1 .. Len(once), j <= end PROVE Sees(b[j - 1], once[j])
      BY DEF SeesAll
  <2>1. j \in 1 .. Len(buf) /\ air[j] = once[j]
      BY <1>3
  <2>2. j - 1 \in 0 .. (Len(air) + 2) /\ j - 1 < Len(buf) /\ (j - 1) + 1 = j
      BY <1>3
  <2>3. b[j - 1] = buf[j]
      BY <2>2 DEF Cells
  <2> QED
      BY <2>1, <2>3 DEF Kept
<1>5. ReadsBack(result, end, once, message)
  <2>1. result = matchMessage(b, end, proto)
      BY DEF Kept, Decoded
  <2> HIDE DEF b
  <2> QED
      BY <1>2, <1>3, <1>4, <2>1
<1>6. ASSUME ~cut, Recordable PROVE end + 1 >= Len(once)
  <2> SUFFICES ASSUME end + 1 < Len(once) PROVE FALSE
      BY <1>3
  <2>1. end + 1 \in 1 .. (Len(once) - 1) /\ end + 1 \in 1 .. Len(once) /\ end < Len(air)
      BY <1>3
  <2>2. proto.rfootermark = 0 \/ proto.rfootermark # 0
      OBVIOUS
  <2>3. \/ \A k \in 1 .. (Len(once) - 1) : air[k].usec < timeout
        \/ \A k \in 1 .. (Len(once) - 0) : air[k].usec < timeout
      BY <1>6, <2>2 DEF Recordable, once
  <2>4. air[end + 1].usec < timeout
      BY <1>3, <2>1, <2>3
  <2> QED
      BY <1>6, <2>1, <2>4 DEF Kept, Arriving
<1> QED
    BY <1>5, <1>6 DEF ReadsBack
=============================================================================
