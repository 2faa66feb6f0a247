------------------------- MODULE IRmanchester_proof -------------------------
(***************************************************************************)
(* What a protocol in Manchester code sends, its decode function reads.    *)
(* Every bit is two half periods, light and dark in one order or the       *)
(* other, and a half period is heard together with the one before it when  *)
(* the light does not change between them.                                 *)
(***************************************************************************)
EXTENDS IRcodec_proof

-----------------------------------------------------------------------------
(* What is heard of light, and what of it stays when more light follows.   *)
Lasting(on, t) == [on |-> on, usec |-> t]

HeardAs(g, s, x) ==
    /\ g \in Seq(Part) /\ \A k \in 1 .. Len(s) - 1 : g[k] = s[k]
    /\ s[Len(s)].on = x.on =>
         Len(g) = Len(s) /\ g[Len(s)] = Lasting(x.on, s[Len(s)].usec + x.usec)
    /\ s[Len(s)].on # x.on =>
         Len(g) = Len(s) + 1 /\ g[Len(s)] = s[Len(s)] /\ g[Len(s) + 1] = x

LEMMA HeardTwoWays ==
    ASSUME NEW s \in Seq(Part), s # <<>>, NEW x \in Part
    PROVE  HeardAs(Heard(s, x), s, x) /\ Len(s) \in Nat \ {0} /\ s[Len(s)] \in Part
<1> DEFINE n == Len(s)
           g == Heard(s, x)
<1>1. n \in Nat \ {0} /\ n \in 1 .. n /\ s[n] \in Part /\ Last(s) = s[n]
    BY DEF Last
<1>2. g \in Seq(Part)
    BY HeardType
<1>3. CASE s[n].on = x.on
  <2> DEFINE e == [s[n] EXCEPT !.usec = @ + x.usec]
  <2>1. g = [s EXCEPT ![n] = e]
      BY <1>1, <1>3 DEF Heard
  <2>2. e = Lasting(x.on, s[n].usec + x.usec)
      BY <1>1, <1>3 DEF Part, Lasting
  <2> HIDE DEF e, n
  <2>3. Len(g) = Len(s) /\ g[n] = e /\ \A k \in 1 .. n - 1 : g[k] = s[k]
      BY <1>1, <2>1 DEF n
  <2> HIDE DEF g
  <2> QED
      BY <1>1, <1>2, <1>3, <2>2, <2>3 DEF HeardAs, n, g
<1>4. CASE s[n].on # x.on
  <2>1. g = Append(s, x)
      BY <1>1, <1>4 DEF Heard
  <2>2. Len(g) = n + 1 /\ g[n + 1] = x /\ \A k \in 1 .. n : g[k] = s[k]
      BY <1>1, <2>1
  <2> HIDE DEF g
  <2> QED
      BY <1>1, <1>2, <1>4, <2>2 DEF HeardAs, g
<1> QED
    BY <1>1, <1>3, <1>4

Grown(g, s) ==
    /\ Len(g) >= Len(s) /\ \A k \in 1 .. Len(s) - 1 : g[k] = s[k]
    /\ g[Len(s)].on = s[Len(s)].on

LEMMA HeardGrows ==
    ASSUME NEW s \in Seq(Part), s # <<>>, NEW x \in Part
    PROVE  Heard(s, x) # <<>> /\ Grown(Heard(s, x), s)
<1> DEFINE g == Heard(s, x)
<1>1. HeardAs(g, s, x) /\ Len(s) \in Nat \ {0} /\ x.on \in BOOLEAN
    BY HeardTwoWays DEF Part
<1> HIDE DEF g
<1>2. Len(g) >= Len(s) /\ Len(g) \in Nat
    BY <1>1 DEF HeardAs
<1>3. g[Len(s)].on = s[Len(s)].on
    BY <1>1 DEF HeardAs, Lasting
<1>4. g # <<>>
    BY <1>1, <1>2
<1> QED
    BY <1>1, <1>2, <1>3, <1>4 DEF Grown, HeardAs, g

LEMMA GrownTwice ==
    ASSUME NEW s \in Seq(Part), s # <<>>, NEW g \in Seq(Part), NEW h \in Seq(Part),
           Grown(g, s), Grown(h, g)
    PROVE  Grown(h, s)
<1>1. Len(s) \in Nat \ {0} /\ Len(g) \in Nat /\ Len(h) \in Nat
    OBVIOUS
<1>2. CASE Len(g) = Len(s)
    BY <1>1, <1>2 DEF Grown
<1>3. CASE Len(g) # Len(s)
  <2>1. Len(s) \in 1 .. Len(g) - 1
      BY <1>1, <1>3 DEF Grown
  <2> QED
      BY <1>1, <2>1 DEF Grown
<1> QED
    BY <1>2, <1>3

LEMMA IntervalsGrow ==
    ASSUME NEW s \in Seq(Part), NEW t \in Seq(Part), Intervals(s) # <<>>
    PROVE  Grown(Intervals(s \o t), Intervals(s)) /\ Intervals(s \o t) \in Seq(Part)
<1> DEFINE n == Len(t)
           r == Intervals(s)
<1>1. n \in Nat /\ (\A i \in 1 .. n : t[i] \in Part) /\ r \in Seq(Part) /\ r # <<>>
    BY IntervalsType
<1>2. PICK f \in [0 .. n -> Seq(Part)] :
         /\ f[0] = r /\ f[n] = Intervals(s \o t)
         /\ \A i \in 1 .. n : f[i] = Heard(f[i - 1], t[i])
    BY IntervalsPrefix
<1> HIDE DEF n, r
<1> DEFINE T == {i \in 0 .. n : f[i] # <<>> /\ Grown(f[i], r)}
<1>3. 0 \in T
  <2>1. Grown(r, r)
      BY <1>1 DEF Grown
  <2> QED
      BY <1>1, <1>2, <2>1
<1>4. ASSUME NEW i \in 0 .. n - 1, i \in T PROVE i + 1 \in T
  <2>1. i \in 0 .. n /\ i + 1 \in 1 .. n /\ i + 1 \in 0 .. n /\ (i + 1) - 1 = i
      BY <1>1
  <2> DEFINE q == f[i]
             g == f[i + 1]
             x == t[i + 1]
  <2>2. q \in Seq(Part) /\ g \in Seq(Part) /\ x \in Part /\ g = Heard(q, x)
      BY <1>1, <1>2, <2>1
  <2>3. q # <<>> /\ Grown(q, r)
      BY <1>4
  <2> HIDE DEF q, g, x
  <2>4. g # <<>> /\ Grown(g, q)
      BY <2>2, <2>3, HeardGrows
  <2>5. Grown(g, r)
      BY <1>1, <2>2, <2>3, <2>4, GrownTwice
  <2> QED
      BY <2>1, <2>4, <2>5 DEF g
<1>5. n \in T
  <2> HIDE DEF T
  <2>1. 0 .. n \subseteq T
      BY <1>1, <1>3, <1>4, UpTo
  <2> QED
      BY <1>1, <2>1
<1>6. n \in 0 .. n
    BY <1>1
<1> QED
    BY <1>2, <1>5, <1>6 DEF r

-----------------------------------------------------------------------------
(* A word on the air: two half periods for each bit.                       *)
LEMMA LastingType ==
    ASSUME NEW on \in BOOLEAN, NEW t \in Times PROVE Lasting(on, t) \in Part
BY DEF Lasting, Part

LEMMA LastingIs ==
    ASSUME NEW t PROVE Lasting(TRUE, t) = Lit(t) /\ Lasting(FALSE, t) = Dark(t)
BY DEF Lasting, Lit, Dark

Begun(p, bit) == (bit = 1) = p.thomas
Halves(light, i, p, bit) ==
    /\ light[2 * i - 1] = Lasting(Begun(p, bit), p.half)
    /\ light[2 * i] = Lasting(~Begun(p, bit), p.half)

(* What the Manchester protocols have in common.                           *)
Halved(p) ==
    /\ p.half \in Times /\ p.thomas \in BOOLEAN /\ p.msb = TRUE
    /\ p.coding = "manchester" /\ p.width \in Nat \ {0, 1}

LEMMA HalvesOnAir ==
    ASSUME NEW p, Halved(p), NEW n \in Nat, NEW word \in [1 .. n -> Bit]
    PROVE  LET light == sendManchesterData(p, word)
           IN  /\ light \in Seq(Part) /\ Len(light) = 2 * n
               /\ \A i \in 1 .. n : Halves(light, i, p, word[i])
<1> DEFINE pair(i) == <<Lasting(Begun(p, word[i]), p.half), Lasting(~Begun(p, word[i]), p.half)>>
           sent(i) == IF (word[i] = 1) = p.thomas THEN mark(p.half) \o space(p.half)
                                                  ELSE space(p.half) \o mark(p.half)
           seqs == [i \in 1 .. n |-> pair(i)]
<1>1. InOrder(p, word) = word /\ Len(word) = n
    BY OrderType DEF Halved
<1>2. p.half \in Times
    BY DEF Halved
<1>3. ASSUME NEW i \in 1 .. n
      PROVE  pair(i) = sent(i) /\ pair(i) \in Seq(Part) /\ Len(pair(i)) = 2
  <2>1. \A a, b \in Part : <<a>> \o <<b>> = <<a, b>>
      BY TwoParts
  <2>2. /\ Lit(p.half) \in Part /\ Dark(p.half) \in Part
        /\ mark(p.half) = <<Lit(p.half)>> /\ space(p.half) = <<Dark(p.half)>>
      BY <1>2, PartType
  <2>3. Begun(p, word[i]) \in BOOLEAN
      BY DEF Begun
  <2>4. Lasting(Begun(p, word[i]), p.half) \in Part /\ Lasting(~Begun(p, word[i]), p.half) \in Part
      BY <1>2, <2>3, LastingType
  <2>5. pair(i) \in Seq(Part) /\ Len(pair(i)) = 2
      BY <2>4
  <2>6. Lasting(TRUE, p.half) = Lit(p.half) /\ Lasting(FALSE, p.half) = Dark(p.half)
      BY LastingIs
  <2>7. CASE Begun(p, word[i])
    <3>1. pair(i) = <<Lit(p.half), Dark(p.half)>>
        BY <2>6, <2>7
    <3>2. sent(i) = mark(p.half) \o space(p.half)
        BY <2>7 DEF Begun
    <3> QED
        BY <2>1, <2>2, <2>5, <3>1, <3>2
  <2>8. CASE ~Begun(p, word[i])
    <3>1. Begun(p, word[i]) = FALSE /\ (~Begun(p, word[i])) = TRUE
        BY <2>3, <2>8
    <3>2. pair(i) = <<Dark(p.half), Lit(p.half)>>
        BY <2>6, <3>1
    <3>3. sent(i) = space(p.half) \o mark(p.half)
        BY <2>8 DEF Begun
    <3> QED
        BY <2>1, <2>2, <2>5, <3>2, <3>3
  <2> QED
      BY <2>7, <2>8
<1>4. sendManchesterData(p, word) = FlattenSeq(seqs)
  <2>1. [i \in 1 .. n |-> sent(i)] = seqs
    <3> HIDE DEF pair, sent
    <3> QED
        BY <1>3
  <2>2. sendManchesterData(p, word)
          = FlattenSeq([i \in 1 .. Len(word) |->
              IF (InOrder(p, word)[i] = 1) = p.thomas THEN mark(p.half) \o space(p.half)
                                                      ELSE space(p.half) \o mark(p.half)])
      BY DEF sendManchesterData
  <2> HIDE DEF seqs
  <2> QED
      BY <1>1, <2>1, <2>2, Zenon
<1> HIDE DEF pair, sent
<1>5. seqs \in Seq(Seq(Part)) /\ Len(seqs) = n /\ \A i \in 1 .. n : seqs[i] = pair(i)
    BY <1>3
<1> HIDE DEF seqs
<1> DEFINE light == FlattenSeq(seqs)
           w == 2
<1>6. w \in Nat /\ Equal(seqs, w)
    BY <1>3, <1>5 DEF Equal
<1> HIDE DEF w
<1>7. light \in Seq(Part) /\ InBlocks(light, seqs, w)
    BY <1>5, <1>6, FlattenBlocks, Zenon DEF light
<1> HIDE DEF light
<1>8. ASSUME NEW i \in 1 .. n PROVE Halves(light, i, p, word[i])
  <2>1. (i - 1) * w + 1 = 2 * i - 1 /\ (i - 1) * w + 2 = 2 * i /\ 1 \in 1 .. w /\ 2 \in 1 .. w
      BY DEF w
  <2>2. /\ light[(i - 1) * w + 1] = seqs[i][1]
        /\ light[(i - 1) * w + 2] = seqs[i][2]
      BY <1>5, <1>7, <2>1 DEF InBlocks
  <2>3. seqs[i] = pair(i)
      BY <1>5
  <2> QED
      BY <2>1, <2>2, <2>3 DEF pair, Halves
<1>9. Len(light) = 2 * n
    BY <1>5, <1>7 DEF w, InBlocks
<1> QED
    BY <1>4, <1>7, <1>8, <1>9 DEF light

(* One bit more: its first half is heard by itself or with what came       *)
(* before.                                                                 *)
BitHeard(g, s, on, t) ==
    /\ Len(g) = Len(s) + IF s[Len(s)].on = on THEN 1 ELSE 2
    /\ \A k \in 1 .. Len(s) - 1 : g[k] = s[k]
    /\ g[Len(s)] = Lasting(s[Len(s)].on, s[Len(s)].usec + IF s[Len(s)].on = on THEN t ELSE 0)
    /\ s[Len(s)].on # on => g[Len(s) + 1] = Lasting(on, t)
    /\ g[Len(g)] = Lasting(~on, t)

LEMMA HalvesHeard ==
    ASSUME NEW s \in Seq(Part), s # <<>>, NEW on \in BOOLEAN, NEW t \in Times
    PROVE  LET g == Heard(Heard(s, Lasting(on, t)), Lasting(~on, t))
           IN  g \in Seq(Part) /\ BitHeard(g, s, on, t)
<1> DEFINE n == Len(s)
           x == Lasting(on, t)
           y == Lasting(~on, t)
           h == Heard(s, x)
           g == Heard(h, y)
<1>1. x \in Part /\ y \in Part /\ x.on = on /\ y.on = ~on /\ x.usec = t
  <2>1. x \in Part /\ y \in Part
      BY LastingType
  <2> QED
      BY <2>1 DEF Lasting
<1> HIDE DEF n, x, y
<1>2. HeardAs(h, s, x) /\ Len(s) \in Nat \ {0} /\ s[Len(s)] \in Part /\ h # <<>> /\ h \in Seq(Part)
    BY <1>1, HeardTwoWays, HeardGrows, HeardType
<1> HIDE DEF h
<1>3. HeardAs(g, h, y) /\ g \in Seq(Part)
    BY <1>1, <1>2, HeardTwoWays, HeardType
<1> HIDE DEF g
<1>4. n \in Nat \ {0} /\ n = Len(s) /\ s[n] \in Part /\ s[n].usec + 0 = s[n].usec
      /\ s[n] = Lasting(s[n].on, s[n].usec)
    BY <1>2 DEF n, Part, Times, Lasting
<1>5. CASE s[n].on = on
  <2>1. /\ Len(h) = n /\ h[n] = Lasting(on, s[n].usec + t)
        /\ \A k \in 1 .. n - 1 : h[k] = s[k]
      BY <1>1, <1>2, <1>4, <1>5 DEF HeardAs
  <2>2. h[n].on # y.on
      BY <1>1, <2>1 DEF Lasting
  <2>3. Len(g) = n + 1 /\ g[n] = h[n] /\ g[n + 1] = y /\ \A k \in 1 .. n - 1 : g[k] = h[k]
      BY <1>3, <2>1, <2>2 DEF HeardAs
  <2>4. BitHeard(g, s, on, t)
      BY <1>4, <1>5, <2>1, <2>3 DEF BitHeard, y
  <2> QED
      BY <1>3, <2>4 DEF g, h, x, y
<1>6. CASE s[n].on # on
  <2>1. /\ Len(h) = n + 1 /\ h[n] = s[n] /\ h[n + 1] = x
        /\ \A k \in 1 .. n - 1 : h[k] = s[k]
      BY <1>1, <1>2, <1>4, <1>6 DEF HeardAs
  <2>2. h[n + 1].on # y.on
      BY <1>1, <2>1
  <2>3. /\ Len(g) = (n + 1) + 1 /\ g[n + 1] = h[n + 1] /\ g[(n + 1) + 1] = y
        /\ \A k \in 1 .. (n + 1) - 1 : g[k] = h[k]
      BY <1>3, <2>1, <2>2 DEF HeardAs
  <2>4. (n + 1) + 1 = n + 2 /\ n \in 1 .. (n + 1) - 1 /\ \A k \in 1 .. n - 1 : k \in 1 .. (n + 1) - 1
      BY <1>4
  <2>5. Len(g) = n + 2 /\ g[n + 2] = y /\ g[n + 1] = x /\ g[n] = s[n] /\ \A k \in 1 .. n - 1 : g[k] = s[k]
      BY <2>1, <2>3, <2>4
  <2>6. BitHeard(g, s, on, t)
      BY <1>4, <1>6, <2>5 DEF BitHeard, x, y
  <2> QED
      BY <1>3, <2>6 DEF g, h, x, y
<1> QED
    BY <1>5, <1>6, <1>4 DEF Part

-----------------------------------------------------------------------------
(* The first half of bit i continues what was there before it: the second  *)
(* half of another bit, or of the header that looks like a zero.           *)
Together(word, i) == IF i = 1 THEN word[1] = 1 ELSE word[i] # word[i - 1]

(* The second half of bit i is in interval at[i] of s; `base` is how long  *)
(* the last interval of the header lasts by itself.                        *)
Alone(i, t, base) == IF i = 0 THEN base ELSE t
LiesAt(s, at, word, t, base, i) ==
    at[i] \in 1 .. Len(s) - 1
      /\ s[at[i]].usec = Alone(i, t, base) + IF Together(word, i + 1) THEN t ELSE 0
StandsAlone(s, at, word, t, i) ==
    ~Together(word, i) => at[i - 1] + 1 \in 1 .. Len(s) - 1 /\ s[at[i - 1] + 1].usec = t

Lies(s, at, word, t, base, n) ==
    /\ \A i \in 0 .. n - 1 : LiesAt(s, at, word, t, base, i)
    /\ \A i \in 1 .. n : /\ StandsAlone(s, at, word, t, i)
                         /\ at[i] = at[i - 1] + IF Together(word, i) THEN 1 ELSE 2
    /\ Len(s) = at[n] /\ at[n] \in Nat \ {0} /\ s[at[n]].usec = Alone(n, t, base)

LEMMA LiesFurther ==
    ASSUME NEW q \in Seq(Part), NEW g \in Seq(Part), NEW at, NEW word, NEW t \in Times, NEW base \in Times,
           NEW i \in Nat, Lies(q, at, word, t, base, i), NEW on \in BOOLEAN,
           BitHeard(g, q, on, t), Len(g) = at[i + 1],
           Together(word, i + 1) <=> q[Len(q)].on = on
    PROVE  Lies(g, at, word, t, base, i + 1)
<1> DEFINE a == at[i]
           c == at[i + 1]
           met == Together(word, i + 1)
<1>1. Len(q) = a /\ a \in Nat \ {0} /\ q[a].usec = Alone(i, t, base)
    BY DEF Lies
<1>2. /\ c = a + IF met THEN 1 ELSE 2
      /\ \A k \in 1 .. a - 1 : g[k] = q[k]
      /\ g[a].usec = q[a].usec + IF met THEN t ELSE 0
      /\ ~met => g[a + 1].usec = t
      /\ Len(g) = c /\ g[c].usec = t
    BY <1>1 DEF BitHeard, Lasting
<1>3. c \in Nat \ {0} /\ a < c /\ (~met => a + 1 < c)
    BY <1>1, <1>2
<1>4. ASSUME NEW j \in 0 .. i PROVE LiesAt(g, at, word, t, base, j)
  <2>1. CASE j = i
    <3>1. at[j] = a /\ Together(word, j + 1) = met
        BY <2>1
    <3>2. a \in 1 .. c - 1
        BY <1>1, <1>3
    <3> HIDE DEF a, c, met
    <3> QED
        BY <1>1, <1>2, <2>1, <3>1, <3>2 DEF LiesAt
  <2>2. CASE j # i
    <3>1. j \in 0 .. i - 1
        BY <2>2
    <3>2. LiesAt(q, at, word, t, base, j)
        BY <3>1 DEF Lies
    <3>3. at[j] \in 1 .. a - 1 /\ at[j] \in 1 .. c - 1
      <4>1. at[j] \in 1 .. a - 1
          BY <1>1, <3>2 DEF LiesAt
      <4> HIDE DEF a, c
      <4> QED
          BY <1>1, <1>3, <4>1
    <3> HIDE DEF a, c
    <3> QED
        BY <1>2, <3>2, <3>3 DEF LiesAt
  <2> QED
      BY <2>1, <2>2
<1>5. ASSUME NEW j \in 1 .. i + 1
      PROVE  /\ StandsAlone(g, at, word, t, j)
             /\ at[j] = at[j - 1] + IF Together(word, j) THEN 1 ELSE 2
  <2>1. CASE j = i + 1
    <3>1. at[j] = c /\ at[j - 1] = a /\ Together(word, j) = met
        BY <2>1
    <3>2. ~met => a + 1 \in 1 .. c - 1
        BY <1>1, <1>3
    <3> HIDE DEF a, c, met
    <3> QED
        BY <1>2, <3>1, <3>2 DEF StandsAlone
  <2>2. CASE j # i + 1
    <3>1. j \in 1 .. i
        BY <2>2
    <3>2. StandsAlone(q, at, word, t, j)
        BY <3>1 DEF Lies
    <3>3. at[j] = at[j - 1] + IF Together(word, j) THEN 1 ELSE 2
        BY <3>1 DEF Lies
    <3>4. ~Together(word, j) => at[j - 1] + 1 \in 1 .. a - 1
        BY <1>1, <3>2 DEF StandsAlone
    <3>5. \A k \in 1 .. a - 1 : k \in 1 .. c - 1
      <4> HIDE DEF a, c
      <4> QED
          BY <1>1, <1>3
    <3> HIDE DEF a, c
    <3> QED
        BY <1>2, <3>2, <3>3, <3>4, <3>5 DEF StandsAlone
  <2> QED
      BY <2>1, <2>2
<1>6. (i + 1) - 1 = i /\ i + 1 # 0 /\ Alone(i + 1, t, base) = t
    BY DEF Alone
<1> HIDE DEF met
<1> QED
    BY <1>2, <1>3, <1>4, <1>5, <1>6 DEF Lies

(* The word behind a header whose last interval is like the first half of  *)
(* a one.                                                                  *)
LEMMA WordHeardAs ==
    ASSUME NEW p, Halved(p), NEW n \in Nat \ {0}, NEW word \in [1 .. n -> Bit],
           NEW s \in Seq(Part), Intervals(s) # <<>>,
           Intervals(s)[Len(Intervals(s))].on = p.thomas
    PROVE  LET g == Intervals(s \o sendManchesterData(p, word))
               r == Intervals(s)
           IN  /\ g \in Seq(Part) /\ Grown(g, r)
               /\ \E at \in [0 .. n -> Nat] :
                    at[0] = Len(r) /\ Lies(g, at, word, p.half, r[Len(r)].usec, n)
               /\ g[Len(g)] = Lasting(~Begun(p, word[n]), p.half)
<1> DEFINE light == sendManchesterData(p, word)
           r == Intervals(s)
           t == p.half
           base == r[Len(r)].usec
           on(i) == Begun(p, word[i])
<1>1. light \in Seq(Part) /\ Len(light) = 2 * n /\ \A i \in 1 .. n : Halves(light, i, p, word[i])
    BY HalvesOnAir
<1> HIDE DEF light
<1>2. PICK f \in [0 .. Len(light) -> Seq(Part)] :
         /\ f[0] = r /\ f[Len(light)] = Intervals(s \o light)
         /\ \A i \in 1 .. Len(light) : f[i] = Heard(f[i - 1], light[i])
    BY <1>1, IntervalsPrefix
<1>3. r \in Seq(Part) /\ r # <<>> /\ base \in Times /\ t \in Times /\ Len(r) \in Nat \ {0}
      /\ r[Len(r)].on = p.thomas
  <2>1. r \in Seq(Part) /\ r # <<>>
      BY IntervalsType
  <2>2. r[Len(r)] \in Part
      BY <2>1
  <2> QED
      BY <2>1, <2>2 DEF Part, Halved
<1>4. ASSUME NEW i \in 1 .. n
      PROVE  /\ 2 * i \in 1 .. Len(light) /\ 2 * i - 1 \in 1 .. Len(light)
             /\ 2 * (i - 1) \in 0 .. Len(light) /\ 2 * i \in 0 .. Len(light)
             /\ (2 * i - 1) - 1 = 2 * (i - 1)
    BY <1>1
<1> HIDE DEF r, t
<1> DEFINE q(i) == f[2 * i]
           at == [i \in 0 .. n |-> Len(q(i))]
           T == {i \in 0 .. n : /\ q(i) # <<>> /\ Lies(q(i), at, word, t, base, i)
                                /\ i # 0 => q(i)[Len(q(i))] = Lasting(~on(i), t)}
<1>5. \A i \in 0 .. n : q(i) \in Seq(Part) /\ at[i] = Len(q(i))
  <2>1. \A i \in 0 .. n : 2 * i \in 0 .. Len(light)
      BY <1>1
  <2> QED
      BY <1>2, <2>1
<1> HIDE DEF at, base
<1>6. 0 \in T
  <2>1. q(0) = r /\ 0 \in 0 .. n /\ at[0] = Len(r)
      BY <1>2, <1>5
  <2>2. Lies(r, at, word, t, base, 0)
    <3>1. 0 .. 0 - 1 = {} /\ 1 .. 0 = {}
        OBVIOUS
    <3>2. r[Len(r)].usec = Alone(0, t, base)
        BY DEF Alone, base
    <3> QED
        BY <1>3, <2>1, <3>1, <3>2 DEF Lies
  <2> QED
      BY <1>3, <2>1, <2>2
<1>7. ASSUME NEW i \in 0 .. n - 1, i \in T PROVE i + 1 \in T
  <2>1. i + 1 \in 1 .. n /\ i \in 0 .. n /\ i + 1 \in 0 .. n /\ (i + 1) - 1 = i /\ i \in Nat
      OBVIOUS
  <2> DEFINE a == q(i)
             g == q(i + 1)
             m == 2 * (i + 1)
             up == on(i + 1)
  <2>2. up \in BOOLEAN
      BY DEF Begun
  <2>3. g = Heard(Heard(a, Lasting(up, t)), Lasting(~up, t))
    <3>1. m \in 1 .. Len(light) /\ m - 1 \in 1 .. Len(light) /\ (m - 1) - 1 = 2 * i
        BY <1>4, <2>1
    <3>2. light[m - 1] = Lasting(up, t) /\ light[m] = Lasting(~up, t)
        BY <1>1, <2>1 DEF Halves, t
    <3>3. f[m] = Heard(f[m - 1], light[m]) /\ f[m - 1] = Heard(f[(m - 1) - 1], light[m - 1])
      <4> HIDE DEF m
      <4> QED
          BY <1>2, <3>1
    <3> HIDE DEF m, up
    <3> QED
        BY <3>1, <3>2, <3>3 DEF m
  <2>4. /\ a \in Seq(Part) /\ a # <<>> /\ Lies(a, at, word, t, base, i)
        /\ i # 0 => a[Len(a)] = Lasting(~on(i), t)
        /\ Len(g) = at[i + 1]
      BY <1>5, <1>7, <2>1
  <2>5. a[Len(a)].on = IF i = 0 THEN p.thomas ELSE ~on(i)
    <3>1. i = 0 => a = r
        BY <1>2
    <3> HIDE DEF a, on
    <3> QED
        BY <1>3, <2>4, <3>1 DEF Lasting
  <2>6. Together(word, i + 1) <=> a[Len(a)].on = up
    <3>1. CASE i = 0
      <4>1. Together(word, i + 1) <=> word[i + 1] = 1
          BY <3>1 DEF Together
      <4>2. a[Len(a)].on = p.thomas /\ p.thomas \in BOOLEAN
          BY <2>5, <3>1 DEF Halved
      <4> HIDE DEF a
      <4> QED
          BY <4>1, <4>2, Zenon DEF Begun
    <3>2. CASE i # 0
      <4>1. Together(word, i + 1) <=> word[i + 1] # word[i]
          BY <2>1, <3>2 DEF Together
      <4>2. word[i] \in {0, 1} /\ word[i + 1] \in {0, 1}
          BY <2>1, <3>2 DEF Bit
      <4>3. a[Len(a)].on = ~on(i)
          BY <2>5, <3>2
      <4>4. p.thomas \in BOOLEAN
          BY DEF Halved
      <4>5. word[i + 1] # word[i] <=> ((word[i] = 1) # (word[i + 1] = 1))
          BY <4>2
      <4> HIDE DEF a
      <4> QED
          BY <4>1, <4>3, <4>4, <4>5, Zenon DEF Begun
    <3> QED
        BY <3>1, <3>2
  <2> HIDE DEF a, g, up, m
  <2>7. g \in Seq(Part) /\ BitHeard(g, a, up, t)
      BY <1>3, <2>2, <2>3, <2>4, HalvesHeard
  <2>8. Lies(g, at, word, t, base, i + 1)
      BY <1>3, <2>1, <2>2, <2>4, <2>6, <2>7, LiesFurther
  <2>9. g # <<>> /\ g[Len(g)] = Lasting(~up, t)
    <3>1. Len(g) \in Nat \ {0}
        BY <2>4, <2>8 DEF Lies
    <3> QED
        BY <2>7, <3>1 DEF BitHeard
  <2> QED
      BY <2>1, <2>8, <2>9 DEF g, up
<1>8. n \in T
  <2> HIDE DEF T
  <2>1. 0 .. n \subseteq T
      BY <1>6, <1>7, UpTo
  <2> QED
      BY <2>1
<1>9. q(n) = Intervals(s \o light) /\ at \in [0 .. n -> Nat] /\ at[0] = Len(r)
  <2>1. \A i \in 0 .. n : q(i) \in Seq(Part)
      BY <1>5
  <2>2. at \in [0 .. n -> Nat]
    <3> HIDE DEF q
    <3> QED
        BY <2>1 DEF at
  <2> QED
      BY <1>1, <1>2, <1>5, <2>2
<1>10. Grown(Intervals(s \o light), r)
    BY <1>1, IntervalsGrow DEF r
<1> HIDE DEF q
<1>11. q(n) \in Seq(Part) /\ Lies(q(n), at, word, t, base, n) /\ q(n)[Len(q(n))] = Lasting(~on(n), t)
    BY <1>5, <1>8
<1> QED
    BY <1>9, <1>10, <1>11 DEF light, r, t, base

-----------------------------------------------------------------------------
(* A message on the air: what comes in front of its word, the word, and a  *)
(* gap.                                                                    *)
Preamble(p) == Pair(p.lead) \o (optmark(p.hdrmark) \o space(p.hdrspace))

(* One section, with nothing behind it but a gap, and a header that ends   *)
(* like the first half of a one.                                           *)
OneHalved(p) ==
    /\ Halved(p) /\ Timed(p) /\ p.footermark = 0 /\ p.mesgtime = 0 /\ p.words = <<1>>
    /\ p.hdrmark # 0 /\ (p.thomas <=> p.hdrspace = 0)

LEMMA OneHalvedGap ==
    ASSUME NEW p, OneHalved(p)
    PROVE  /\ p.gaps[1] \in Times \cup {0} /\ space(p.gaps[1]) \in Seq(Part)
           /\ \A e \in Nat : Padding(p, p.gaps[1], e) = p.gaps[1]
<1>1. p.gaps[1] \in Times \cup {0}
  <2>1. Len(p.words) = 1
      BY DEF OneHalved
  <2>2. 1 \in 1 .. Len(p.words)
      BY <2>1
  <2> QED
      BY <2>2 DEF OneHalved, Timed
<1>2. \A e \in Nat : Padding(p, p.gaps[1], e) = p.gaps[1]
  <2>1. p.mesgtime = 0
      BY DEF OneHalved
  <2>2. \A e \in Nat : e >= 0
      OBVIOUS
  <2> QED
      BY <2>1, <2>2 DEF Padding
<1> QED
    BY <1>1, <1>2, LightType

(* Four parts are joined from either end.                                  *)
SameJoined(lead, header, light, gap) ==
    lead \o ((header \o light) \o gap) = ((lead \o header) \o light) \o gap

LEMMA Regrouped ==
    ASSUME NEW lead \in Seq(Part), NEW header \in Seq(Part), NEW light \in Seq(Part),
           NEW gap \in Seq(Part)
    PROVE  SameJoined(lead, header, light, gap)
<1> DEFINE body == header \o light
<1>1. body \in Seq(Part)
    BY Joining
<1>2. lead \o body = (lead \o header) \o light
    BY ConcatAssociative
<1> HIDE DEF body
<1>3. lead \o (body \o gap) = (lead \o body) \o gap
    BY <1>1, ConcatAssociative
<1> QED
    BY <1>2, <1>3 DEF body, SameJoined

LEMMA MessageCoded ==
    ASSUME NEW p, OneHalved(p), NEW m, IsSingle(m, p)
    PROVE  LET light == sendManchesterData(p, m[1][1])
           IN  /\ Preamble(p) \in Seq(Part) /\ light \in Seq(Part)
               /\ sendMessage(p, m) = (Preamble(p) \o light) \o space(p.gaps[1])
<1> DEFINE word == m[1][1]
           light == sendManchesterData(p, word)
           lead == Pair(p.lead)
           header == optmark(p.hdrmark) \o space(p.hdrspace)
           gap == space(p.gaps[1])
           words == [i \in 1 .. 1 |-> light]
           sections == [s \in 1 .. 1 |-> (header \o light) \o gap]
<1>1. /\ Len(m) = 1 /\ Len(m[1]) = 1 /\ word \in [1 .. p.width -> Bit] /\ p.width \in Nat
      /\ p.coding = "manchester" /\ Halved(p) /\ Timed(p)
    BY DEF IsSingle, OneHalved, Halved
<1>2. light \in Seq(Part)
  <2> HIDE DEF word
  <2> QED
      BY <1>1, HalvesOnAir
<1>3. lead \in Seq(Part) /\ header \in Seq(Part) /\ gap \in Seq(Part)
  <2>1. optmark(p.hdrmark) \in Seq(Part) /\ space(p.hdrspace) \in Seq(Part)
      BY <1>1, LightType DEF Timed
  <2>2. header \in Seq(Part)
      BY <2>1, Joining
  <2> QED
      BY <1>1, <2>2, LeadOnAir, OneHalvedGap
<1> HIDE DEF word, light, lead, header, gap
<1>4. words \in Seq(Seq(Part)) /\ Len(words) = 1 /\ words[1] = light
    BY <1>2
<1>5. FlattenSeq(words) = light
  <2> HIDE DEF words
  <2> QED
      BY <1>4, FlattenOne
<1>6. header \o light \in Seq(Part) /\ (header \o light) \o gap \in Seq(Part)
    BY <1>2, <1>3, Joining
<1>7. sendSection(p, m[1], p.gaps[1]) = (header \o light) \o gap
  <2> DEFINE send(w) == IF p.coding = "manchester" THEN sendManchesterData(p, w)
                                                   ELSE sendData(p, w)
             flat == FlattenSeq([i \in 1 .. Len(m[1]) |-> send(m[1][i])])
             body == optmark(p.hdrmark) \o space(p.hdrspace) \o flat \o optmark(p.footermark)
  <2>1. [i \in 1 .. Len(m[1]) |-> send(m[1][i])] = words
      BY <1>1 DEF light, word
  <2>2. flat = light
      BY <1>5, <2>1
  <2>3. optmark(p.footermark) = <<>>
      BY DEF OneHalved, optmark
  <2> HIDE DEF flat
  <2>4. body = header \o light
      BY <1>6, <2>2, <2>3, ConcatEmptySeq DEF header
  <2>5. sendSection(p, m[1], p.gaps[1]) = body \o space(Padding(p, p.gaps[1], Elapsed(body)))
      BY DEF sendSection, flat
  <2> HIDE DEF body
  <2>6. Elapsed(body) \in Nat
      BY <1>6, <2>4, ElapsedType
  <2>7. Padding(p, p.gaps[1], Elapsed(body)) = p.gaps[1]
      BY <2>6, OneHalvedGap
  <2> QED
      BY <2>4, <2>5, <2>7 DEF gap
<1>8. sections \in Seq(Seq(Part)) /\ Len(sections) = 1 /\ sections[1] = (header \o light) \o gap
    BY <1>6
<1>9. sendMessage(p, m) = lead \o ((header \o light) \o gap)
  <2>1. [s \in 1 .. Len(m) |-> sendSection(p, m[s], p.gaps[s])] = sections
      BY <1>1, <1>7
  <2>2. sendMessage(p, m) = lead \o FlattenSeq(sections)
      BY <2>1 DEF sendMessage, lead
  <2> HIDE DEF sections
  <2>3. FlattenSeq(sections) = sections[1]
      BY <1>8, FlattenOne
  <2> QED
      BY <1>8, <2>2, <2>3
<1> HIDE DEF words, sections
<1>10. lead \o ((header \o light) \o gap) = ((lead \o header) \o light) \o gap
  <2>1. /\ lead \in Seq(Part) /\ header \in Seq(Part) /\ light \in Seq(Part)
        /\ gap \in Seq(Part)
      BY <1>2, <1>3
  <2>2. SameJoined(lead, header, light, gap)
      BY <2>1, Regrouped
  <2> QED
      BY <2>2 DEF SameJoined
<1>11. lead \o header \in Seq(Part)
    BY <1>3, Joining
<1>12. Preamble(p) = lead \o header
    BY DEF Preamble, lead, header
<1> QED
    BY <1>2, <1>9, <1>10, <1>11, <1>12 DEF light, word, gap

-----------------------------------------------------------------------------
(* What is heard of the header, and of the word behind it.                 *)
FrontLen(p) == LeadLen(p) + 1 + Entry(p.hdrspace)
HeaderEnd(p) == IF p.hdrspace = 0 THEN p.hdrmark ELSE p.hdrspace

FrontHeard(s, p) ==
    /\ s \in Seq(Part) /\ Len(s) = FrontLen(p)
    /\ p.lead # <<>> => s[1] = Lit(p.lead[1]) /\ s[2] = Dark(p.lead[2])
    /\ s[LeadLen(p) + 1] = Lit(p.hdrmark)
    /\ s[Len(s)] = Lasting(p.thomas, HeaderEnd(p))

LEMMA FrontOnAir ==
    ASSUME NEW p, OneHalved(p)
    PROVE  Intervals(Preamble(p)) = Preamble(p) /\ FrontHeard(Preamble(p), p)
<1> DEFINE lead == Pair(p.lead)
           mk == Lit(p.hdrmark)
           sp == Dark(p.hdrspace)
           header == optmark(p.hdrmark) \o space(p.hdrspace)
           s == Preamble(p)
           n == LeadLen(p)
<1>1. /\ p.hdrmark \in Times /\ p.hdrspace \in Times \cup {0} /\ Timed(p)
      /\ p.thomas \in BOOLEAN /\ (p.thomas <=> p.hdrspace = 0)
    BY DEF OneHalved, Halved, Timed
<1>2. /\ lead \in Seq(Part) /\ Len(lead) = n /\ n \in {0, 2} /\ Whole(lead)
      /\ p.lead # <<>> => n = 2 /\ lead[1] = Lit(p.lead[1]) /\ lead[2] = Dark(p.lead[2])
  <2>1. n \in {0, 2} /\ (p.lead # <<>> => n = 2)
      BY DEF LeadLen
  <2> QED
      BY <1>1, <2>1, LeadOnAir
<1>3. mk \in Part /\ mk.on = TRUE /\ sp.on = FALSE /\ optmark(p.hdrmark) = <<mk>>
  <2>1. mk.on = TRUE /\ sp.on = FALSE
      BY DEF Lit, Dark
  <2> QED
      BY <1>1, <2>1, PartType
<1>4. CASE p.hdrspace = 0
  <2>1. space(p.hdrspace) = <<>> /\ Entry(p.hdrspace) = 0 /\ HeaderEnd(p) = p.hdrmark /\ p.thomas = TRUE
      BY <1>1, <1>4 DEF space, Entry, HeaderEnd
  <2> HIDE DEF mk
  <2>2. <<mk>> \in Seq(Part) /\ Len(<<mk>>) = 1 /\ <<mk>>[1] = mk
      BY <1>3
  <2>3. header = <<mk>>
      BY <1>3, <2>1, <2>2, ConcatEmptySeq
  <2> HIDE DEF header, lead, n
  <2>4. header \in Seq(Part) /\ Len(header) = 1 /\ header[1] = mk
      BY <2>2, <2>3
  <2>5. s \in Seq(Part) /\ Behind(s, lead, header)
      BY <1>2, <2>4, Parts, Zenon DEF Preamble, lead, header
  <2>6. Alternates(header)
    <3>1. \A k \in 1 .. 1 : header[k].on <=> k % 2 = 1
        BY <1>3, <2>4
    <3> QED
        BY <2>4, <3>1 DEF Alternates
  <2>7. Alternates(s)
      BY <1>2, <2>4, <2>6, AlternatesJoined DEF Preamble, lead, header
  <2> HIDE DEF s
  <2>8. /\ Len(s) = n + 1 /\ s[n + 1] = mk /\ \A k \in 1 .. n : s[k] = lead[k]
    <3>1. 1 \in 1 .. Len(header)
        BY <2>4
    <3> QED
        BY <1>2, <2>4, <2>5, <3>1 DEF Behind
  <2>9. FrontLen(p) = n + 1
      BY <1>2, <2>1 DEF FrontLen, n
  <2>10. mk = Lasting(p.thomas, HeaderEnd(p))
      BY <2>1, LastingIs DEF mk
  <2>11. p.lead # <<>> => s[1] = Lit(p.lead[1]) /\ s[2] = Dark(p.lead[2])
      BY <1>2, <2>8
  <2>12. FrontHeard(s, p)
      BY <2>5, <2>8, <2>9, <2>10, <2>11 DEF FrontHeard, n, mk
  <2> QED
      BY <2>5, <2>7, <2>12, IntervalsAlternate DEF s
<1>5. CASE p.hdrspace # 0
  <2>1. p.hdrspace \in Times /\ Entry(p.hdrspace) = 1 /\ HeaderEnd(p) = p.hdrspace /\ p.thomas = FALSE
      BY <1>1, <1>5 DEF Entry, HeaderEnd
  <2>2. sp \in Part /\ space(p.hdrspace) = <<sp>>
      BY <2>1, PartType
  <2> HIDE DEF mk, sp
  <2>3. header = <<mk, sp>>
      BY <1>3, <2>2, TwoParts
  <2> HIDE DEF header, lead, n
  <2>4. header \in Seq(Part) /\ Len(header) = 2 /\ header[1] = mk /\ header[2] = sp
      BY <1>3, <2>2, <2>3
  <2>5. s \in Seq(Part) /\ Behind(s, lead, header)
      BY <1>2, <2>4, Parts, Zenon DEF Preamble, lead, header
  <2>6. Alternates(header)
    <3>1. \A k \in 1 .. 2 : header[k].on <=> k % 2 = 1
        BY <1>3, <2>4
    <3> QED
        BY <2>4, <3>1 DEF Alternates
  <2>7. Alternates(s)
      BY <1>2, <2>4, <2>6, AlternatesJoined DEF Preamble, lead, header
  <2> HIDE DEF s
  <2>8. /\ Len(s) = n + 2 /\ s[n + 1] = mk /\ s[n + 2] = sp /\ \A k \in 1 .. n : s[k] = lead[k]
    <3>1. 1 \in 1 .. Len(header) /\ 2 \in 1 .. Len(header)
        BY <2>4
    <3> QED
        BY <1>2, <2>4, <2>5, <3>1 DEF Behind
  <2>9. FrontLen(p) = n + 2
      BY <1>2, <2>1 DEF FrontLen, n
  <2>10. sp = Lasting(p.thomas, HeaderEnd(p))
      BY <2>1, LastingIs DEF sp
  <2>11. p.lead # <<>> => s[1] = Lit(p.lead[1]) /\ s[2] = Dark(p.lead[2])
      BY <1>2, <2>8
  <2>12. FrontHeard(s, p)
      BY <2>5, <2>8, <2>9, <2>10, <2>11 DEF FrontHeard, n, mk
  <2> QED
      BY <2>5, <2>7, <2>12, IntervalsAlternate DEF s
<1> QED
    BY <1>4, <1>5

(* f is what is heard of a message without its gap.                        *)
Placed(at, word, f, p) ==
    /\ at \in [0 .. p.width -> Nat] /\ at[0] = FrontLen(p)
    /\ Lies(f, at, word, p.half, HeaderEnd(p), p.width)

LEMMA BodyHeard ==
    ASSUME NEW p, OneHalved(p), NEW m, IsSingle(m, p)
    PROVE  LET word == m[1][1]
               body == Preamble(p) \o sendManchesterData(p, word)
               f == Intervals(body)
           IN  /\ sendMessage(p, m) = body \o space(p.gaps[1])
               /\ body \in Seq(Part) /\ f \in Seq(Part) /\ f # <<>>
               /\ Grown(f, Preamble(p)) /\ FrontHeard(Preamble(p), p)
               /\ \E at : Placed(at, word, f, p)
               /\ f[Len(f)] = Lasting(~Begun(p, word[p.width]), p.half)
<1> DEFINE n == p.width
           word == m[1][1]
           s == Preamble(p)
           light == sendManchesterData(p, word)
           f == Intervals(s \o light)
<1>1. Halved(p) /\ n \in Nat \ {0} /\ word \in [1 .. n -> Bit] /\ p.thomas \in BOOLEAN
    BY DEF OneHalved, Halved, IsSingle
<1>2. Intervals(s) = s /\ FrontHeard(s, p) /\ s \in Seq(Part) /\ Len(s) = FrontLen(p)
    BY FrontOnAir DEF FrontHeard
<1>3. s # <<>> /\ s[Len(s)].on = p.thomas /\ s[Len(s)].usec = HeaderEnd(p)
  <2>1. FrontLen(p) >= 1
      BY DEF FrontLen, LeadLen, Entry
  <2>2. s # <<>>
      BY <1>2, <2>1
  <2> HIDE DEF s
  <2>3. s[Len(s)] = Lasting(p.thomas, HeaderEnd(p))
      BY <1>2 DEF FrontHeard
  <2> QED
      BY <2>2, <2>3 DEF Lasting
<1>4. light \in Seq(Part) /\ sendMessage(p, m) = (s \o light) \o space(p.gaps[1])
    BY MessageCoded
<1>5. s \o light \in Seq(Part)
  <2> HIDE DEF s, light
  <2> QED
      BY <1>2, <1>4, Joining
<1> HIDE DEF n, word, s
<1>6. /\ f \in Seq(Part) /\ Grown(f, s)
      /\ \E at \in [0 .. n -> Nat] : at[0] = Len(s) /\ Lies(f, at, word, p.half, s[Len(s)].usec, n)
      /\ f[Len(f)] = Lasting(~Begun(p, word[n]), p.half)
  <2>1. Intervals(s) # <<>> /\ Intervals(s)[Len(Intervals(s))].on = p.thomas
      BY <1>2, <1>3
  <2>2. /\ f \in Seq(Part) /\ Grown(f, Intervals(s))
        /\ \E at \in [0 .. n -> Nat] :
             at[0] = Len(Intervals(s))
               /\ Lies(f, at, word, p.half, Intervals(s)[Len(Intervals(s))].usec, n)
        /\ f[Len(f)] = Lasting(~Begun(p, word[n]), p.half)
      BY <1>1, <1>2, <2>1, WordHeardAs
  <2> HIDE DEF f
  <2> QED
      BY <1>2, <2>2
<1> HIDE DEF f, light
<1>7. \E at : Placed(at, word, f, p)
  <2>1. PICK at \in [0 .. n -> Nat] :
           at[0] = Len(s) /\ Lies(f, at, word, p.half, s[Len(s)].usec, n)
      BY <1>6
  <2>2. Placed(at, word, f, p)
      BY <1>2, <1>3, <2>1 DEF Placed, n
  <2> QED
      BY <2>2
<1>8. f # <<>>
  <2>1. Len(f) \in Nat \ {0}
      BY <1>7 DEF Placed, Lies
  <2> QED
      BY <2>1
<1> QED
    BY <1>2, <1>4, <1>5, <1>6, <1>7, <1>8 DEF f, light, s, word, n

-----------------------------------------------------------------------------
(* A message that is sent once and ends in a gap: the second half of a one *)
(* is heard together with it.                                              *)
Gapped(p) ==
    /\ OneHalved(p) /\ p.thomas = TRUE /\ p.gaps[1] \in Times
    /\ p.repeat = 0 /\ p.trail = <<>>

EndsInGap(a, f, last, bit, p) ==
    /\ a \in Seq(Part) /\ \A k \in 1 .. last - 1 : a[k] = f[k]
    /\ bit = 1 => Len(a) = last /\ a[last] = Dark(p.half + p.gaps[1])
    /\ bit # 1 => Len(a) = last + 1 /\ a[last] = Lit(p.half)

LEMMA GapHeard ==
    ASSUME NEW p, Gapped(p), NEW f \in Seq(Part), f # <<>>, NEW bit,
           f[Len(f)] = Lasting(~Begun(p, bit), p.half)
    PROVE  EndsInGap(Heard(f, Dark(p.gaps[1])), f, Len(f), bit, p)
<1> DEFINE x == Dark(p.gaps[1])
           a == Heard(f, x)
           last == Len(f)
<1>1. x \in Part /\ x.on = FALSE /\ x.usec = p.gaps[1]
  <2>1. x \in Part
      BY PartType DEF Gapped
  <2> QED
      BY <2>1 DEF Dark
<1>2. Begun(p, bit) <=> bit = 1
    BY DEF Begun, Gapped
<1> HIDE DEF x, a, last
<1>3. HeardAs(a, f, x) /\ last \in Nat \ {0} /\ last = Len(f)
    BY <1>1, HeardTwoWays DEF a, last
<1>4. a \in Seq(Part) /\ \A k \in 1 .. last - 1 : a[k] = f[k]
    BY <1>3 DEF HeardAs
<1>5. CASE bit = 1
  <2>1. f[last] = Lasting(FALSE, p.half)
    <3>1. Begun(p, bit) = TRUE
        BY <1>2, <1>5 DEF Begun
    <3> QED
        BY <1>3, <3>1
  <2>2. f[last].on = FALSE /\ f[last].usec = p.half
      BY <2>1 DEF Lasting
  <2>3. Len(a) = last /\ a[last] = Lasting(x.on, f[last].usec + x.usec)
      BY <1>1, <1>3, <2>2 DEF HeardAs
  <2>4. a[last] = Dark(p.half + p.gaps[1])
      BY <1>1, <2>2, <2>3, LastingIs
  <2> QED
      BY <1>4, <1>5, <2>3, <2>4 DEF EndsInGap, a, last, x
<1>6. CASE bit # 1
  <2>1. f[last] = Lasting(TRUE, p.half)
    <3>1. Begun(p, bit) = FALSE
        BY <1>2, <1>6 DEF Begun
    <3> QED
        BY <1>3, <3>1
  <2>2. f[last].on = TRUE /\ f[last].usec = p.half
      BY <2>1 DEF Lasting
  <2>3. Len(a) = last + 1 /\ a[last] = f[last]
      BY <1>1, <1>3, <2>2 DEF HeardAs
  <2>4. a[last] = Lit(p.half)
      BY <2>1, <2>3, LastingIs
  <2> QED
      BY <1>4, <1>6, <2>3, <2>4 DEF EndsInGap, a, last, x
<1> QED
    BY <1>5, <1>6

LEMMA GappedOnAir ==
    ASSUME NEW p, Gapped(p), NEW m, IsSingle(m, p)
    PROVE  LET a == Intervals(sendGeneric(p, m))
               f == Intervals(Preamble(p) \o sendManchesterData(p, m[1][1]))
           IN  /\ sendGeneric(p, m) = sendMessage(p, m)
               /\ EndsInGap(a, f, Len(f), m[1][1][p.width], p)
<1> DEFINE word == m[1][1]
           body == Preamble(p) \o sendManchesterData(p, word)
           f == Intervals(body)
           once == sendMessage(p, m)
           x == Dark(p.gaps[1])
<1>1. OneHalved(p) /\ p.gaps[1] \in Times /\ p.repeat + 1 = 1 /\ Pair(p.trail) = <<>>
    BY DEF Gapped, Pair
<1>2. /\ once = body \o space(p.gaps[1]) /\ body \in Seq(Part)
      /\ f \in Seq(Part) /\ f # <<>>
      /\ f[Len(f)] = Lasting(~Begun(p, word[p.width]), p.half)
    BY <1>1, BodyHeard
<1>3. x \in Part /\ space(p.gaps[1]) = <<x>>
    BY <1>1, PartType
<1> HIDE DEF word, body, x, once
<1>4. once = body \o <<x>> /\ once \in Seq(Part)
  <2>1. <<x>> \in Seq(Part)
      BY <1>3
  <2> QED
      BY <1>2, <1>3, <2>1, Joining
<1>5. sendGeneric(p, m) = once
  <2> DEFINE seqs == [r \in 1 .. 1 |-> once]
  <2>1. sendGeneric(p, m) = FlattenSeq(seqs) \o <<>>
      BY <1>1 DEF sendGeneric, once
  <2>2. seqs \in Seq(Seq(Part)) /\ Len(seqs) = 1 /\ seqs[1] = once
      BY <1>4
  <2> HIDE DEF seqs
  <2>3. FlattenSeq(seqs) = once
      BY <2>2, FlattenOne
  <2> QED
      BY <1>4, <2>1, <2>3, ConcatEmptySeq
<1>6. Intervals(once) = Heard(f, x)
  <2> HIDE DEF f
  <2> QED
      BY <1>2, <1>3, <1>4, IntervalsBehind DEF f
<1> HIDE DEF f
<1>7. EndsInGap(Heard(f, x), f, Len(f), word[p.width], p)
    BY <1>2, GapHeard DEF x
<1> QED
    BY <1>5, <1>6, <1>7 DEF f, body, word, once

-----------------------------------------------------------------------------
(* A message behind which its header is sent again: the second half of a   *)
(* one is heard together with the header's mark, which is the footer, and  *)
(* the first half of a one with its space.                                 *)
Repeated(p) ==
    /\ OneHalved(p) /\ p.thomas = FALSE /\ p.lead = <<>> /\ p.gaps[1] = 0 /\ p.repeat = 2

EndsInHeader(a, f, last, word, p) ==
    LET foot == last + IF word[p.width] = 1 THEN 0 ELSE 1
    IN  /\ a \in Seq(Part) /\ \A k \in 1 .. last - 1 : a[k] = f[k]
        /\ Len(a) >= foot + 1
        /\ word[p.width] # 1 => a[last] = Dark(p.half)
        /\ a[foot] = Lit(p.hdrmark + IF word[p.width] = 1 THEN p.half ELSE 0)
        /\ a[foot + 1] = Dark(p.hdrspace + IF word[1] = 1 THEN p.half ELSE 0)

(* What is heard of the mark and space of a header and of the first bit.   *)
HeardAgain(f, word, p) ==
    LET dark == Heard(Heard(f, Lit(p.hdrmark)), Dark(p.hdrspace))
    IN  Heard(Heard(dark, Lasting(Begun(p, word[1]), p.half)), Lasting(~Begun(p, word[1]), p.half))

(* The header is heard up to the first half of the bit behind it.          *)
BehindFoot(a, last, word, p) == Len(a) >= 2 + last + IF word[p.width] = 1 THEN 0 ELSE 1

LEMMA HeaderHeard ==
    ASSUME NEW p, Repeated(p), NEW f \in Seq(Part), f # <<>>, NEW word,
           f[Len(f)] = Lasting(~Begun(p, word[p.width]), p.half)
    PROVE  /\ EndsInHeader(HeardAgain(f, word, p), f, Len(f), word, p)
           /\ BehindFoot(HeardAgain(f, word, p), Len(f), word, p)
           /\ HeardAgain(f, word, p) # <<>>
<1> DEFINE x == Lit(p.hdrmark)
           y == Dark(p.hdrspace)
           g == Heard(f, x)
           h == Heard(g, y)
           on == Begun(p, word[1])
           a == Heard(Heard(h, Lasting(on, p.half)), Lasting(~on, p.half))
           last == Len(f)
           one == word[p.width] = 1
           foot == last + IF one THEN 0 ELSE 1
<1>1. /\ p.half \in Times /\ p.hdrmark \in Times /\ p.hdrspace \in Times
      /\ x \in Part /\ x.on = TRUE /\ x.usec = p.hdrmark
      /\ y \in Part /\ y.on = FALSE /\ y.usec = p.hdrspace
  <2>1. p.hdrmark \in Times /\ p.hdrspace \in Times /\ p.half \in Times
      BY DEF Repeated, OneHalved, Timed, Halved
  <2>2. x \in Part /\ y \in Part
      BY <2>1, PartType
  <2> QED
      BY <2>1, <2>2 DEF Lit, Dark
<1>2. /\ (~Begun(p, word[p.width])) = one
      /\ on \in BOOLEAN /\ (on <=> word[1] # 1)
    BY DEF Begun, Repeated
<1>3. f[last] = Lasting(one, p.half) /\ f[last].on = one /\ f[last].usec = p.half
  <2>1. f[last] = Lasting(one, p.half)
      BY <1>2
  <2> HIDE DEF last, one
  <2> QED
      BY <2>1 DEF Lasting
<1> HIDE DEF x, y, g, on, one
<1>4. HeardAs(g, f, x) /\ last \in Nat \ {0} /\ g \in Seq(Part) /\ g # <<>>
    BY <1>1, HeardTwoWays, HeardType, HeardGrows DEF g
<1> HIDE DEF last
<1>5. /\ Len(g) = foot /\ foot \in Nat \ {0} /\ \A k \in 1 .. last - 1 : g[k] = f[k]
      /\ g[foot] = Lit(p.hdrmark + IF one THEN p.half ELSE 0)
      /\ ~one => g[last] = Dark(p.half)
  <2>1. CASE one
    <3>1. Len(g) = last /\ g[last] = Lasting(TRUE, p.half + p.hdrmark)
        BY <1>1, <1>3, <1>4, <2>1 DEF HeardAs, last
    <3>2. foot = last /\ p.half + p.hdrmark = p.hdrmark + p.half
        BY <1>1, <1>4, <2>1 DEF Times
    <3> HIDE DEF foot
    <3> QED
        BY <1>4, <2>1, <3>1, <3>2, LastingIs DEF HeardAs, last
  <2>2. CASE ~one
    <3>1. Len(g) = last + 1 /\ g[last] = f[last] /\ g[last + 1] = x
        BY <1>1, <1>3, <1>4, <2>2 DEF HeardAs, last
    <3>2. foot = last + 1 /\ p.hdrmark + 0 = p.hdrmark
        BY <1>1, <1>4, <2>2 DEF Times
    <3>3. f[last] = Lasting(FALSE, p.half)
      <4>1. one = FALSE
          BY <2>2 DEF one
      <4> QED
          BY <1>3, <4>1
    <3>4. \A k \in 1 .. last - 1 : g[k] = f[k]
        BY <1>4 DEF HeardAs, last
    <3>5. g[last] = Dark(p.half)
        BY <3>1, <3>3, LastingIs
    <3> HIDE DEF foot
    <3>6. g[foot] = Lit(p.hdrmark)
        BY <3>1, <3>2 DEF x
    <3>7. p.hdrmark + (IF one THEN p.half ELSE 0) = p.hdrmark
        BY <2>2, <3>2
    <3> QED
        BY <1>4, <2>2, <3>1, <3>2, <3>4, <3>5, <3>6, <3>7
  <2> QED
      BY <2>1, <2>2
<1> HIDE DEF foot, h
<1>6. g[Len(g)].on = TRUE
    BY <1>5 DEF Lit
<1>7. HeardAs(h, g, y) /\ h \in Seq(Part) /\ h # <<>>
    BY <1>1, <1>4, HeardTwoWays, HeardType, HeardGrows DEF h
<1>8. /\ Len(h) = foot + 1 /\ h[foot] = g[foot] /\ h[foot + 1] = y
      /\ \A k \in 1 .. foot - 1 : h[k] = g[k]
    BY <1>1, <1>5, <1>6, <1>7 DEF HeardAs
<1>9. a \in Seq(Part) /\ BitHeard(a, h, on, p.half)
    BY <1>1, <1>2, <1>7, HalvesHeard
<1> HIDE DEF a
<1>10. /\ Len(a) >= foot + 1 /\ Len(a) >= foot + 2 /\ \A k \in 1 .. foot : a[k] = h[k]
       /\ a[foot + 1] = Lasting(y.on, p.hdrspace + IF y.on = on THEN p.half ELSE 0)
  <2>1. Len(h) = foot + 1 /\ foot \in Nat /\ h[foot + 1] = y /\ (foot + 1) - 1 = foot
      BY <1>5, <1>8
  <2> QED
      BY <1>1, <1>9, <2>1 DEF BitHeard
<1>11. a[foot + 1] = Dark(p.hdrspace + IF word[1] = 1 THEN p.half ELSE 0)
  <2>1. y.on = on <=> word[1] = 1
      BY <1>1, <1>2
  <2> QED
      BY <1>1, <1>10, <2>1, LastingIs
<1>12. /\ a[foot] = g[foot] /\ (~one => a[last] = Dark(p.half))
       /\ \A k \in 1 .. last - 1 : a[k] = f[k]
  <2>1. foot \in 1 .. foot /\ last <= foot /\ (~one => last \in 1 .. foot - 1)
        /\ \A k \in 1 .. last - 1 : k \in 1 .. foot - 1 /\ k \in 1 .. foot
      BY <1>4, <1>5 DEF foot
  <2>2. a[foot] = g[foot] /\ \A k \in 1 .. foot - 1 : a[k] = g[k]
    <3>1. \A k \in 1 .. foot - 1 : k \in 1 .. foot
        BY <1>5
    <3> QED
        BY <1>8, <1>10, <2>1, <3>1
  <2> QED
      BY <1>5, <2>1, <2>2
<1>13. EndsInHeader(a, f, last, word, p)
    BY <1>5, <1>9, <1>10, <1>11, <1>12 DEF EndsInHeader, foot, one
<1>14. a # <<>>
  <2>1. Len(a) \in Nat \ {0}
      BY <1>5, <1>9, <1>10
  <2> QED
      BY <2>1
<1>15. BehindFoot(a, last, word, p)
    BY <1>4, <1>5, <1>10 DEF BehindFoot, foot, one
<1> QED
    BY <1>13, <1>14, <1>15 DEF HeardAgain, a, h, g, x, y, on, last

LEMMA EndsFurther ==
    ASSUME NEW p, NEW f, NEW last \in Nat \ {0}, NEW word, NEW h \in Seq(Part), NEW a \in Seq(Part),
           EndsInHeader(h, f, last, word, p), BehindFoot(h, last, word, p), Grown(a, h)
    PROVE  EndsInHeader(a, f, last, word, p)
<1> DEFINE foot == last + IF word[p.width] = 1 THEN 0 ELSE 1
<1>1. /\ Len(h) >= foot + 2 /\ Len(h) \in Nat /\ Len(a) \in Nat /\ foot \in Nat /\ foot >= last
      /\ Len(a) >= foot + 1
  <2>1. Len(h) \in Nat /\ Len(a) \in Nat /\ Len(a) >= Len(h)
      BY DEF Grown
  <2>2. foot \in Nat /\ foot >= last
      OBVIOUS
  <2>3. Len(h) >= foot + 2
      BY <2>1, <2>2 DEF BehindFoot
  <2> HIDE DEF foot
  <2> QED
      BY <2>1, <2>2, <2>3
<1>2. /\ \A k \in 1 .. last - 1 : h[k] = f[k]
      /\ word[p.width] # 1 => h[last] = Dark(p.half)
      /\ h[foot] = Lit(p.hdrmark + IF word[p.width] = 1 THEN p.half ELSE 0)
      /\ h[foot + 1] = Dark(p.hdrspace + IF word[1] = 1 THEN p.half ELSE 0)
    BY DEF EndsInHeader
<1> HIDE DEF foot
<1>3. \A k \in 1 .. foot + 1 : a[k] = h[k]
  <2>1. \A k \in 1 .. foot + 1 : k \in 1 .. Len(h) - 1
      BY <1>1
  <2> QED
      BY <2>1 DEF Grown
<1>4. /\ a[foot] = h[foot] /\ a[foot + 1] = h[foot + 1] /\ a[last] = h[last]
      /\ \A k \in 1 .. last - 1 : a[k] = h[k]
  <2>1. /\ foot \in 1 .. foot + 1 /\ foot + 1 \in 1 .. foot + 1 /\ last \in 1 .. foot + 1
        /\ \A k \in 1 .. last - 1 : k \in 1 .. foot + 1
      BY <1>1
  <2> QED
      BY <1>3, <2>1
<1> QED
    BY <1>1, <1>2, <1>4 DEF EndsInHeader, foot

(* What comes first on the air: the header's mark and space, and the halves *)
(* of the first bit.                                                       *)
First(word, p) ==
    <<Lit(p.hdrmark), Dark(p.hdrspace),
      Lasting(Begun(p, word[1]), p.half), Lasting(~Begun(p, word[1]), p.half)>>

LEMMA BodyBegins ==
    ASSUME NEW p, Repeated(p), NEW word \in [1 .. p.width -> Bit]
    PROVE  LET body == Preamble(p) \o sendManchesterData(p, word)
           IN  /\ body \in Seq(Part) /\ First(word, p) \in Seq(Part)
               /\ Begins(body, First(word, p))
<1> DEFINE s == Preamble(p)
           light == sendManchesterData(p, word)
           q == First(word, p)
<1>1. /\ OneHalved(p) /\ Halved(p) /\ p.width \in Nat \ {0, 1} /\ p.lead = <<>> /\ p.thomas = FALSE
      /\ p.hdrspace # 0
    BY DEF Repeated, OneHalved, Halved
<1>2. FrontHeard(s, p)
    BY <1>1, FrontOnAir
<1>3. s \in Seq(Part) /\ Len(s) = 2 /\ s[1] = Lit(p.hdrmark) /\ s[2] = Dark(p.hdrspace)
  <2>1. LeadLen(p) + 1 = 1 /\ FrontLen(p) = 2 /\ HeaderEnd(p) = p.hdrspace
      BY <1>1 DEF LeadLen, FrontLen, Entry, HeaderEnd
  <2>2. s[2] = Lasting(FALSE, p.hdrspace)
      BY <1>1, <1>2, <2>1 DEF FrontHeard
  <2> QED
      BY <1>2, <2>1, <2>2, LastingIs DEF FrontHeard
<1> HIDE DEF s
<1>4. /\ light \in Seq(Part) /\ Len(light) = 2 * p.width
      /\ \A i \in 1 .. p.width : Halves(light, i, p, word[i])
  <2>1. p.width \in Nat
      BY <1>1
  <2> QED
      BY <1>1, <2>1, HalvesOnAir
<1> HIDE DEF light
<1>5. light[1] = q[3] /\ light[2] = q[4] /\ Len(light) >= 2
  <2>1. 1 \in 1 .. p.width /\ 2 * 1 - 1 = 1 /\ 2 * 1 = 2
      BY <1>1
  <2>2. Halves(light, 1, p, word[1])
      BY <1>4, <2>1
  <2>3. light[1] = Lasting(Begun(p, word[1]), p.half) /\ light[2] = Lasting(~Begun(p, word[1]), p.half)
      BY <2>1, <2>2 DEF Halves
  <2> QED
      BY <1>1, <1>4, <2>3 DEF First
<1>6. q \in Seq(Part) /\ Len(q) = 4 /\ q[1] = s[1] /\ q[2] = s[2]
  <2>1. /\ Lasting(Begun(p, word[1]), p.half) \in Part /\ Lasting(~Begun(p, word[1]), p.half) \in Part
    <3>1. Begun(p, word[1]) \in BOOLEAN /\ (~Begun(p, word[1])) \in BOOLEAN /\ p.half \in Times
        BY <1>1 DEF Begun, Halved
    <3> QED
        BY <3>1, LastingType
  <2>2. Lit(p.hdrmark) \in Part /\ Dark(p.hdrspace) \in Part
    <3>1. p.hdrmark \in Times /\ p.hdrspace \in Times
        BY <1>1 DEF OneHalved, Timed
    <3> QED
        BY <3>1, PartType
  <2> QED
      BY <1>3, <2>1, <2>2 DEF First
<1> HIDE DEF q
<1> DEFINE body == s \o light
<1>7. body \in Seq(Part) /\ Behind(body, s, light)
    BY <1>3, <1>4, Parts, Zenon
<1> HIDE DEF body
<1>8. Begins(body, q)
  <2>1. Len(body) >= 4
      BY <1>3, <1>4, <1>5, <1>7 DEF Behind
  <2>2. body[1] = s[1] /\ body[2] = s[2]
      BY <1>3, <1>7 DEF Behind
  <2>3. body[3] = light[1] /\ body[4] = light[2]
    <3>1. 1 \in 1 .. Len(light) /\ 2 \in 1 .. Len(light) /\ 2 + 1 = 3 /\ 2 + 2 = 4
        BY <1>4, <1>5
    <3> QED
        BY <1>3, <1>7, <3>1 DEF Behind
  <2>4. 1 .. 4 = {1, 2, 3, 4}
      OBVIOUS
  <2> QED
      BY <1>5, <1>6, <2>1, <2>2, <2>3, <2>4 DEF Begins
<1> QED
    BY <1>6, <1>7, <1>8 DEF s, light, q, body

LEMMA FirstHeard ==
    ASSUME NEW p, Repeated(p), NEW word, NEW s \in Seq(Part), First(word, p) \in Seq(Part)
    PROVE  Intervals(s \o First(word, p)) = HeardAgain(Intervals(s), word, p)
<1> DEFINE q == First(word, p)
<1>1. PICK f \in [0 .. Len(q) -> Seq(Part)] :
        /\ f[0] = Intervals(s) /\ f[Len(q)] = Intervals(s \o q)
        /\ \A i \in 1 .. Len(q) : f[i] = Heard(f[i - 1], q[i])
    BY IntervalsPrefix
<1>2. /\ Len(q) = 4 /\ q[1] = Lit(p.hdrmark) /\ q[2] = Dark(p.hdrspace)
      /\ q[3] = Lasting(Begun(p, word[1]), p.half)
      /\ q[4] = Lasting(~Begun(p, word[1]), p.half)
    BY DEF First
<1> HIDE DEF q
<1>3. /\ f[1] = Heard(f[0], q[1]) /\ f[2] = Heard(f[1], q[2])
      /\ f[3] = Heard(f[2], q[3]) /\ f[4] = Heard(f[3], q[4])
  <2>1. /\ 1 \in 1 .. Len(q) /\ 2 \in 1 .. Len(q) /\ 3 \in 1 .. Len(q) /\ 4 \in 1 .. Len(q)
        /\ 1 - 1 = 0 /\ 2 - 1 = 1 /\ 3 - 1 = 2 /\ 4 - 1 = 3
      BY <1>2
  <2> QED
      BY <1>1, <2>1
<1> QED
    BY <1>1, <1>2, <1>3 DEF HeardAgain, q

LEMMA Thrice ==
    ASSUME NEW p, Repeated(p), Timed(p), NEW m, sendMessage(p, m) \in Seq(Part)
    PROVE  \E u \in Seq(Part) : sendGeneric(p, m) = sendMessage(p, m) \o (sendMessage(p, m) \o u)
<1> DEFINE body == sendMessage(p, m)
           seqs == [r \in 1 .. 3 |-> body]
           trail == Pair(p.trail)
<1>1. sendGeneric(p, m) = FlattenSeq(seqs) \o trail
  <2>1. p.repeat + 1 = 3
      BY DEF Repeated
  <2> QED
      BY <2>1 DEF sendGeneric
<1>2. trail \in Seq(Part)
    BY PairType DEF Timed
<1> HIDE DEF trail, body
<1>3. body \in Seq(Part)
    BY DEF body
<1>4. seqs \in Seq(Seq(Part)) /\ Len(seqs) = 3 /\ \A i \in 1 .. 3 : seqs[i] = body
    BY <1>3
<1> HIDE DEF seqs
<1>5. PICK f \in [0 .. Len(seqs) -> Seq(Part)] :
        /\ f[0] = <<>> /\ f[Len(seqs)] = FlattenSeq(seqs)
        /\ \A i \in 1 .. Len(seqs) : f[i] = f[i - 1] \o seqs[i]
    BY <1>4, FlattenSteps
<1>6. f[1] = <<>> \o body /\ f[2] = f[1] \o body /\ f[3] = f[2] \o body
  <2>1. 1 \in 1 .. 3 /\ 2 \in 1 .. 3 /\ 3 \in 1 .. 3 /\ 1 - 1 = 0 /\ 2 - 1 = 1 /\ 3 - 1 = 2
      OBVIOUS
  <2> QED
      BY <1>4, <1>5, <2>1
<1>7. f[1] = body
    BY <1>6, <1>3, ConcatEmptySeq
<1> DEFINE u == body \o trail
<1>8. u \in Seq(Part) /\ body \o body \in Seq(Part)
    BY <1>2, <1>3, Joining
<1>9. ((body \o body) \o body) \o trail = body \o (body \o u)
  <2>1. ((body \o body) \o body) \o trail = (body \o body) \o u
      BY <1>2, <1>8, <1>3, ConcatAssociative
  <2>2. (body \o body) \o u = body \o (body \o u)
      BY <1>8, <1>3, ConcatAssociative
  <2> QED
      BY <2>1, <2>2
<1>10. sendGeneric(p, m) = body \o (body \o u)
    BY <1>1, <1>4, <1>5, <1>6, <1>7, <1>9
<1> QED
    BY <1>8, <1>10 DEF body

LEMMA RepeatedOnAir ==
    ASSUME NEW p, Repeated(p), NEW m, IsSingle(m, p)
    PROVE  LET a == Intervals(sendGeneric(p, m))
               f == Intervals(Preamble(p) \o sendManchesterData(p, m[1][1]))
           IN  EndsInHeader(a, f, Len(f), m[1][1], p)
<1> DEFINE word == m[1][1]
           body == Preamble(p) \o sendManchesterData(p, word)
           f == Intervals(body)
           q == First(word, p)
<1>1. OneHalved(p) /\ Timed(p) /\ p.gaps[1] = 0
    BY DEF Repeated, OneHalved
<1>2. word \in [1 .. p.width -> Bit]
    BY DEF IsSingle
<1>3. /\ sendMessage(p, m) = body \o space(p.gaps[1]) /\ body \in Seq(Part)
      /\ f \in Seq(Part) /\ f # <<>>
      /\ f[Len(f)] = Lasting(~Begun(p, word[p.width]), p.half)
    BY <1>1, BodyHeard
<1>4. q \in Seq(Part) /\ Begins(body, q)
    BY <1>2, BodyBegins
<1> HIDE DEF word, body, q
<1>5. sendMessage(p, m) = body
    BY <1>1, <1>3, ConcatEmptySeq DEF space
<1>6. PICK u \in Seq(Part) : sendGeneric(p, m) = body \o (body \o u)
  <2>1. sendMessage(p, m) \in Seq(Part) /\ Timed(p)
      BY <1>1, <1>3, <1>5
  <2>2. \E u \in Seq(Part) : sendGeneric(p, m) = sendMessage(p, m) \o (sendMessage(p, m) \o u)
      BY <2>1, Thrice
  <2> QED
      BY <1>5, <2>2
<1>7. PICK rest \in Seq(Part) : body = q \o rest
    BY <1>3, <1>4, BeginsWith
<1> DEFINE more == rest \o u
           s == body \o q
<1>8. more \in Seq(Part) /\ s \in Seq(Part)
    BY <1>3, <1>4, Joining
<1>9. sendGeneric(p, m) = s \o more
  <2>1. body \o u = q \o more
      BY <1>4, <1>7, ConcatAssociative
  <2>2. body \in Seq(Part)
      BY <1>3
  <2> HIDE DEF more
  <2>3. (body \o q) \o more = body \o (q \o more)
      BY <1>4, <1>8, <2>2, ConcatAssociative
  <2> QED
      BY <1>6, <2>1, <2>3
<1> DEFINE h == HeardAgain(f, word, p)
           a == Intervals(sendGeneric(p, m))
<1> HIDE DEF more
<1>10. Intervals(s) = h
    BY <1>3, <1>4, FirstHeard DEF q
<1> HIDE DEF f
<1>11. /\ EndsInHeader(h, f, Len(f), word, p) /\ BehindFoot(h, Len(f), word, p) /\ h # <<>>
    BY <1>3, HeaderHeard
<1> HIDE DEF s, h
<1>12. Grown(a, h) /\ a \in Seq(Part)
    BY <1>8, <1>9, <1>10, <1>11, IntervalsGrow
<1>13. Len(f) \in Nat \ {0} /\ h \in Seq(Part)
  <2>1. h \in Seq(Part)
      BY <1>8, <1>10, IntervalsType
  <2> QED
      BY <1>3, <2>1
<1> HIDE DEF a
<1>14. EndsInHeader(a, f, Len(f), word, p)
    BY <1>11, <1>12, <1>13, EndsFurther
<1> QED
    BY <1>14 DEF a, f, word, body

-----------------------------------------------------------------------------
(* What the sensor makes of half a period, of two of them together, and of *)
(* the last one with the gap behind it.                                    *)
Clocked(p) ==
    p.half \in {320, 950} /\ p.tolerance = 25 /\ p.excess = 50 /\ p.timeout \in Nat

Near(x, t) == x \in Nat /\ t - 101 <= 2 * x /\ 2 * x <= t + 100
Far(x, p) == x \in Nat /\ 2 * x >= 3 * p.half

LEMMA SeesNear ==
    ASSUME Jitter <= 100, NEW on \in BOOLEAN, NEW t \in Nat, NEW x, Sees(x, Lasting(on, t))
    PROVE  Near(x, t)
<1>1. Lasting(on, t).on = on /\ Lasting(on, t).usec = t
    BY DEF Lasting
<1>2. Jitter \in Nat
    BY CodecAssumption
<1> QED
    BY <1>1, <1>2 DEF Sees, Near

LEMMA LowOf ==
    ASSUME NEW low \in Int, low >= 0 PROVE Max({0, low}) = low
BY MaxOf

LEMMA HalfTells ==
    ASSUME NEW p, Clocked(p), NEW x \in Nat
    PROVE  /\ Near(x, p.half) => Half(x, p) /\ ~Long(x, p) /\ x # 0
           /\ Near(x, 2 * p.half) => Long(x, p) /\ Near(x - p.half \div kRawTick, p.half)
           /\ Far(x, p) => ~Half(x, p) /\ ~Long(x, p) /\ matchAtLeast(x, p.half, p)
           /\ Near(p.half \div kRawTick, p.half)
           /\ 2 * x >= 32000 \/ x = 0 => ~Half(x, p)
<1> DEFINE t == p.half
           low(u) == (u * 75) \div 100 - 50
           high(u) == (u * 125) \div 100 + 1 + 50
<1>1. t \in {320, 950} /\ p.timeout \in Nat
    BY DEF Clocked
<1>2. \A u \in Nat : u >= 320 => low(u) \in Int /\ low(u) >= 0 /\ ticksLow(u, p.tolerance, p.excess) = low(u)
  <2> SUFFICES ASSUME NEW u \in Nat, u >= 320
               PROVE  low(u) \in Int /\ low(u) >= 0 /\ ticksLow(u, p.tolerance, p.excess) = low(u)
      OBVIOUS
  <2>1. ticksLow(u, p.tolerance, p.excess) = Max({0, low(u)})
      BY DEF ticksLow, Clocked
  <2>2. low(u) \in Int /\ low(u) >= 0
      OBVIOUS
  <2> HIDE DEF low
  <2> QED
      BY <2>1, <2>2, LowOf
<1>3. \A u \in Nat : ticksHigh(u, p.tolerance, p.excess) = high(u)
    BY DEF ticksHigh, Clocked
<1>4. Half(x, p) <=> 2 * x >= low(t) /\ 2 * x <= high(t)
  <2>1. t \in Nat /\ t >= 320
      BY <1>1
  <2> HIDE DEF low, high
  <2> QED
      BY <1>2, <1>3, <2>1 DEF Half, match, kRawTick
<1>5. Long(x, p) <=> 2 * x >= low(t * 2) /\ 2 * x <= high(t * 2)
  <2>1. t * 2 \in Nat /\ t * 2 >= 320
      BY <1>1
  <2> HIDE DEF low, high
  <2> QED
      BY <1>2, <1>3, <2>1 DEF Long, match, kRawTick
<1>6. Far(x, p) => matchAtLeast(x, t, p)
  <2> SUFFICES ASSUME Far(x, p) PROVE matchAtLeast(x, t, p)
      OBVIOUS
  <2> DEFINE u == Min({t, p.timeout})
  <2>1. u \in Nat /\ u <= t
      BY <1>1, MinOf
  <2> HIDE DEF u
  <2>2. low(u) \in Int /\ 2 * x >= low(u) /\ 2 * x >= 0
      BY <1>1, <2>1 DEF Far
  <2>3. ticksLow(u, p.tolerance, p.excess) = Max({0, low(u)})
      BY DEF ticksLow, Clocked
  <2> HIDE DEF low
  <2>4. Max({0, low(u)}) = IF 0 >= low(u) THEN 0 ELSE low(u)
      BY <2>2, MaxOf
  <2>5. 2 * x >= ticksLow(u, p.tolerance, p.excess)
      BY <2>2, <2>3, <2>4
  <2> QED
      BY <2>5 DEF matchAtLeast, kRawTick, u
<1>7. /\ Near(x, t) => Half(x, p) /\ ~Long(x, p) /\ x # 0
      /\ 2 * x >= 32000 \/ x = 0 => ~Half(x, p)
    BY <1>1, <1>4, <1>5 DEF Near
<1>8. Near(x, 2 * t) => Long(x, p) /\ Near(x - t \div kRawTick, t)
    BY <1>1, <1>5 DEF Near, kRawTick
<1>9. Far(x, p) => ~Half(x, p) /\ ~Long(x, p)
    BY <1>1, <1>4, <1>5 DEF Far
<1>10. Near(t \div kRawTick, t)
    BY <1>1 DEF Near, kRawTick
<1> QED
    BY <1>6, <1>7, <1>8, <1>9, <1>10

-----------------------------------------------------------------------------
(* One bit is read: its first half from the bank or from an interval of    *)
(* its own, its second half from the next one.                             *)
Fields(r, next, data, bank, nr, bit) ==
    /\ IsMatch(r) /\ r.ok = TRUE /\ r.next = next /\ r.data = data
    /\ r.bank = bank /\ r.nr = nr /\ r.bit = bit

LEMMA FieldsExcept ==
    ASSUME NEW m, NEW next, NEW data, NEW bank, NEW nr, NEW bit,
           Fields(m, next, data, bank, nr, bit), NEW x
    PROVE  /\ x = TRUE => Fields([m EXCEPT !.ok = x], next, data, bank, nr, bit)
           /\ x \in Nat => Fields([m EXCEPT !.next = x], x, data, bank, nr, bit)
           /\ Fields([m EXCEPT !.data = x], next, x, bank, nr, bit)
           /\ Fields([m EXCEPT !.bank = x], next, data, x, nr, bit)
           /\ Fields([m EXCEPT !.nr = x], next, data, bank, x, bit)
           /\ Fields([m EXCEPT !.bit = x], next, data, bank, nr, x)
<1>1. x = TRUE => Fields([m EXCEPT !.ok = x], next, data, bank, nr, bit)
    BY DEF Fields, IsMatch
<1>2. x \in Nat => Fields([m EXCEPT !.next = x], x, data, bank, nr, bit)
    BY DEF Fields, IsMatch
<1>3. Fields([m EXCEPT !.data = x], next, x, bank, nr, bit)
    BY DEF Fields, IsMatch
<1>4. Fields([m EXCEPT !.bank = x], next, data, x, nr, bit)
    BY DEF Fields, IsMatch
<1>5. Fields([m EXCEPT !.nr = x], next, data, bank, x, bit)
    BY DEF Fields, IsMatch
<1>6. Fields([m EXCEPT !.bit = x], next, data, bank, nr, x)
    BY DEF Fields, IsMatch
<1> QED
    BY <1>1, <1>2, <1>3, <1>4, <1>5, <1>6

LEMMA FirstRead ==
    ASSUME NEW p, Clocked(p), NEW b, NEW m, NEW next \in Nat, NEW data, NEW bank, NEW nr, NEW bit,
           Fields(m, next, data, bank, nr, bit),
           Near(IF bank # 0 THEN bank ELSE b[next], p.half)
    PROVE  \E rest : Fields(FirstHalf(b, m, p), next + IF bank # 0 THEN 0 ELSE 1, data, rest, nr, bit)
<1>1. CASE bank # 0
  <2>1. Half(bank, p)
      BY <1>1, HalfTells DEF Near
  <2>2. FirstHalf(b, m, p) = [m EXCEPT !.ok = TRUE]
      BY <1>1, <2>1 DEF FirstHalf, Fields
  <2>3. Fields([m EXCEPT !.ok = TRUE], next, data, bank, nr, bit)
      BY FieldsExcept
  <2> QED
      BY <1>1, <2>2, <2>3
<1>2. CASE bank = 0
  <2>1. Half(b[next], p)
      BY <1>2, HalfTells DEF Near
  <2> DEFINE x == b[next]
             banked == [m EXCEPT !.bank = x]
             moved == [banked EXCEPT !.next = next + 1]
             g == [moved EXCEPT !.ok = TRUE]
  <2>2. FirstHalf(b, m, p) = g
    <3>1. m.bank = 0 /\ m.next = next
        BY <1>2 DEF Fields
    <3>2. FirstHalf(b, m, p) = [m EXCEPT !.bank = b[m.next], !.next = m.next + 1, !.ok = Half(b[m.next], p)]
        BY <3>1 DEF FirstHalf
    <3> QED
        BY <2>1, <3>1, <3>2
  <2> HIDE DEF x
  <2>3. Fields(banked, next, data, x, nr, bit)
      BY FieldsExcept
  <2> HIDE DEF banked
  <2>4. Fields(moved, next + 1, data, x, nr, bit)
    <3> DEFINE k == next + 1
    <3>1. k \in Nat
        OBVIOUS
    <3> HIDE DEF k
    <3> QED
        BY <2>3, <3>1, FieldsExcept DEF k
  <2> HIDE DEF moved
  <2>5. Fields(g, next + 1, data, x, nr, bit)
      BY <2>4, FieldsExcept
  <2> HIDE DEF g
  <2> QED
      BY <1>2, <2>2, <2>5
<1> QED
    BY <1>1, <1>2

LEMMA RefilledRead ==
    ASSUME NEW p, NEW b, NEW end \in Nat, NEW m, NEW next \in Nat, NEW data, NEW bank, NEW nr, NEW bit,
           Fields(m, next, data, bank, nr, bit), next <= end
    PROVE  Fields(Refilled(b, m, end, p), IF next < end THEN next + 1 ELSE next, data,
                  IF next < end THEN b[next] ELSE p.half \div kRawTick, nr, bit)
<1>0. m.next = next /\ m.ok = TRUE
    BY DEF Fields
<1>1. CASE next < end
  <2> DEFINE x == b[next]
             banked == [m EXCEPT !.bank = x]
             g == [banked EXCEPT !.next = next + 1]
  <2>1. Refilled(b, m, end, p) = g
      BY <1>0, <1>1 DEF Refilled
  <2> HIDE DEF x
  <2>2. Fields(banked, next, data, x, nr, bit)
      BY FieldsExcept
  <2> HIDE DEF banked
  <2>3. Fields(g, next + 1, data, x, nr, bit)
    <3> DEFINE k == next + 1
    <3>1. k \in Nat
        OBVIOUS
    <3> HIDE DEF k
    <3> QED
        BY <2>2, <3>1, FieldsExcept DEF k
  <2> HIDE DEF g
  <2> QED
      BY <1>1, <2>1, <2>3 DEF x
<1>2. CASE ~(next < end)
  <2> DEFINE x == p.half \div kRawTick
             banked == [m EXCEPT !.bank = x]
             g == [banked EXCEPT !.ok = TRUE]
  <2>1. Refilled(b, m, end, p) = g
    <3>1. (m.ok /\ m.next = end) = TRUE
        BY <1>0, <1>2
    <3>2. Refilled(b, m, end, p) = [m EXCEPT !.bank = x, !.ok = m.ok /\ m.next = end]
        BY <1>0, <1>2 DEF Refilled
    <3> QED
        BY <3>1, <3>2
  <2> HIDE DEF x
  <2>2. Fields(banked, next, data, x, nr, bit)
      BY FieldsExcept
  <2> HIDE DEF banked
  <2>3. Fields(g, next, data, x, nr, bit)
      BY <2>2, FieldsExcept
  <2> HIDE DEF g
  <2> QED
      BY <1>2, <2>1, <2>3 DEF x
<1> QED
    BY <1>1, <1>2

LEMMA SecondRead ==
    ASSUME NEW p, Clocked(p), NEW nbits \in Nat, NEW m, NEW next \in Nat, NEW data, NEW x \in Nat,
           NEW nr \in Nat, NEW bit \in Bit, Fields(m, next, data, x, nr, bit)
    PROVE  LET g == SecondHalf(m, p, nbits)
               rest == x - p.half \div kRawTick
           IN  /\ Near(x, 2 * p.half) => Fields(g, next, Append(data, bit), rest, nr + 2, 1 - bit)
               /\ Near(x, p.half) => Fields(g, next, Append(data, bit), 0, nr + 2, bit)
               /\ Far(x, p) /\ nr = 2 * (nbits - 1) /\ next # 0 =>
                    Fields(g, next - 1, Append(data, bit), 0, nr + 2, bit)
<1> DEFINE g == SecondHalf(m, p, nbits)
           rest == x - p.half \div kRawTick
           found == [m EXCEPT !.bank = 0, !.nr = @ + 2, !.data = Append(@, m.bit)]
           word == Append(data, bit)
<1>1. m.ok = TRUE /\ m.bank = x /\ m.nr = nr /\ m.bit = bit
    BY DEF Fields
<1>2. g = IF Long(x, p) THEN [found EXCEPT !.bank = rest, !.bit = 1 - @]
          ELSE IF Half(x, p) THEN found
          ELSE IF nr + 1 = 2 * nbits - 1 /\ matchAtLeast(x, p.half, p)
            THEN [found EXCEPT !.next = @ - 1]
          ELSE Failed(m)
    BY <1>1 DEF SecondHalf
<1>3. Fields(found, next, word, 0, nr + 2, bit)
    BY DEF Fields, IsMatch
<1> HIDE DEF found, g, rest, word
<1>4. Fields([found EXCEPT !.bank = rest, !.bit = 1 - @], next, word, rest, nr + 2, 1 - bit)
    BY <1>3 DEF Fields, IsMatch
<1>5. next # 0 => Fields([found EXCEPT !.next = @ - 1], next - 1, word, 0, nr + 2, bit)
    BY <1>3 DEF Fields, IsMatch
<1>6. Near(x, 2 * p.half) => Fields(g, next, word, rest, nr + 2, 1 - bit)
    BY <1>2, <1>4, HalfTells
<1>7. Near(x, p.half) => Fields(g, next, word, 0, nr + 2, bit)
    BY <1>2, <1>3, HalfTells
<1>8. Far(x, p) /\ nr = 2 * (nbits - 1) /\ next # 0 => Fields(g, next - 1, word, 0, nr + 2, bit)
  <2>1. nr = 2 * (nbits - 1) => nr + 1 = 2 * nbits - 1
      OBVIOUS
  <2> QED
      BY <1>2, <1>5, <2>1, HalfTells
<1> QED
    BY <1>6, <1>7, <1>8 DEF g, rest, word

LEMMA HalvesTaken ==
    ASSUME NEW p, Clocked(p), NEW b, NEW end \in Nat, NEW nbits, NEW m,
           NEW next \in Nat, NEW data, NEW bank, NEW nr, NEW bit,
           Fields(m, next, data, bank, nr, bit), bank # 0 \/ next < end,
           Near(IF bank # 0 THEN bank ELSE b[next], p.half),
           NEW k \in Nat, k = next + (IF bank # 0 THEN 0 ELSE 1), k <= end
    PROVE  \E r : /\ matchManchesterBit(b, m, end, p, nbits) = SecondHalf(r, p, nbits)
                  /\ Fields(r, IF k < end THEN k + 1 ELSE k, data,
                            IF k < end THEN b[k] ELSE p.half \div kRawTick, nr, bit)
<1> DEFINE first == FirstHalf(b, m, p)
           r == Refilled(b, first, end, p)
<1>1. m.ok = TRUE /\ ~(m.next >= end /\ m.bank = 0)
    BY DEF Fields
<1>2. matchManchesterBit(b, m, end, p, nbits) = SecondHalf(r, p, nbits)
    BY <1>1 DEF matchManchesterBit
<1>3. \E rest : Fields(first, k, data, rest, nr, bit)
    BY FirstRead
<1> HIDE DEF first
<1>4. Fields(r, IF k < end THEN k + 1 ELSE k, data,
             IF k < end THEN b[k] ELSE p.half \div kRawTick, nr, bit)
    BY <1>3, RefilledRead
<1> HIDE DEF r
<1> QED
    BY <1>2, <1>4

(* What a buffer shows of a word whose bits lie there.                     *)
Laying(at, word, n) ==
    /\ at \in [0 .. n -> Nat]
    /\ \A i \in 1 .. n : at[i] = at[i - 1] + IF Together(word, i) THEN 1 ELSE 2

Shown(b, end, at, word, p) ==
    /\ \A i \in 1 .. p.width - 1 :
         at[i] <= end => Near(b[at[i] - 1], IF Together(word, i + 1) THEN 2 * p.half ELSE p.half)
    /\ \A i \in 1 .. p.width :
         ~Together(word, i) /\ at[i - 1] < end => Near(b[at[i - 1]], p.half)
    /\ at[p.width] <= end =>
         Near(b[at[p.width] - 1], p.half) \/ Far(b[at[p.width] - 1], p)

(* The match behind the first i bits, with more to come; or one that has   *)
(* come to the end before.                                                 *)
Taken(word, i) == [k \in 1 .. i |-> word[k]]

Ran(m, i, at, word, p) ==
    \E bank : /\ Fields(m, at[i], Taken(word, i), bank, 2 * i, word[i + 1])
              /\ IF Together(word, i + 1) THEN Near(bank, p.half) ELSE bank = 0

Ended(m, end) == IsMatch(m) /\ (m.ok => m.next = end /\ m.bank = 0)

LEMMA EndedStays ==
    ASSUME NEW m, NEW end \in Nat, Ended(m, end), NEW b, NEW p, NEW nbits
    PROVE  matchManchesterBit(b, m, end, p, nbits) = m
BY DEF Ended, matchManchesterBit

LEMMA TakenMore ==
    ASSUME NEW n \in Nat, NEW word \in [1 .. n -> Bit], NEW i \in 0 .. n - 1
    PROVE  Append(Taken(word, i), word[i + 1]) = Taken(word, i + 1)
<1> DEFINE s == Taken(word, i)
           t == Taken(word, i + 1)
           e == word[i + 1]
           g == Append(s, e)
<1>1. s \in Seq(Bit) /\ Len(s) = i /\ \A k \in 1 .. i : s[k] = word[k]
    BY DEF Taken
<1>2. t \in Seq(Bit) /\ Len(t) = i + 1 /\ \A k \in 1 .. i + 1 : t[k] = word[k]
    BY DEF Taken
<1>3. e \in Bit
    OBVIOUS
<1> HIDE DEF s, t
<1>4. g \in Seq(Bit) /\ Len(g) = i + 1 /\ g[i + 1] = e /\ \A k \in 1 .. i : g[k] = s[k]
    BY <1>1, <1>3
<1> HIDE DEF g
<1>5. \A k \in 1 .. i + 1 : g[k] = t[k]
  <2>1. \A k \in 1 .. i + 1 : k = i + 1 \/ k \in 1 .. i
      OBVIOUS
  <2> QED
      BY <1>1, <1>2, <1>4, <2>1
<1>6. g = t
    BY <1>2, <1>4, <1>5
<1> QED
    BY <1>6 DEF g, s, t, e

LEMMA RanOn ==
    ASSUME NEW p, Clocked(p), p.width \in Nat \ {0}, NEW word \in [1 .. p.width -> Bit],
           NEW at, Laying(at, word, p.width), NEW b, NEW end \in Nat, Shown(b, end, at, word, p),
           NEW i \in 0 .. p.width - 1, NEW m, Ran(m, i, at, word, p), at[i] <= end,
           Together(word, i + 1) \/ at[i] < end
    PROVE  /\ at[i + 1] <= end + 1
           /\ \E r : /\ matchManchesterBit(b, m, end, p, p.width) = SecondHalf(r, p, p.width)
                     /\ Fields(r, IF at[i + 1] <= end THEN at[i + 1] ELSE end, Taken(word, i),
                               IF at[i + 1] <= end THEN b[at[i + 1] - 1] ELSE p.half \div kRawTick,
                               2 * i, word[i + 1])
<1> DEFINE n == p.width
           met == Together(word, i + 1)
           next == at[i]
           k == at[i + 1] - 1
<1>1. i + 1 \in 1 .. n /\ i \in 0 .. n /\ i + 1 \in 0 .. n /\ (i + 1) - 1 = i
    OBVIOUS
<1>2. next \in Nat /\ at[i + 1] = next + IF met THEN 1 ELSE 2
    BY <1>1 DEF Laying
<1>3. k \in Nat /\ k = next + (IF met THEN 0 ELSE 1) /\ k + 1 = at[i + 1]
    BY <1>2
<1>4. PICK bank : /\ Fields(m, next, Taken(word, i), bank, 2 * i, word[i + 1])
                  /\ IF met THEN Near(bank, p.half) ELSE bank = 0
    BY DEF Ran
<1>5. bank # 0 <=> met
    BY <1>4, HalfTells DEF Near
<1>6. Near(IF bank # 0 THEN bank ELSE b[next], p.half)
  <2>1. ~met => Near(b[next], p.half)
    <3>1. ~met => next < end
        OBVIOUS
    <3> QED
        BY <1>1, <3>1 DEF Shown
  <2> QED
      BY <1>4, <1>5, <2>1
<1>7. k <= end /\ (bank # 0 \/ next < end) /\ k = next + (IF bank # 0 THEN 0 ELSE 1)
    BY <1>2, <1>3, <1>5
<1> HIDE DEF met, next, k
<1>8. \E r : /\ matchManchesterBit(b, m, end, p, p.width) = SecondHalf(r, p, p.width)
             /\ Fields(r, IF k < end THEN k + 1 ELSE k, Taken(word, i),
                       IF k < end THEN b[k] ELSE p.half \div kRawTick, 2 * i, word[i + 1])
  <2> DEFINE data == Taken(word, i)
             nr == 2 * i
             bit == word[i + 1]
             nbits == p.width
  <2>1. Fields(m, next, data, bank, nr, bit)
      BY <1>4
  <2> HIDE DEF data, nr, bit, nbits
  <2>2. \E r : /\ matchManchesterBit(b, m, end, p, nbits) = SecondHalf(r, p, nbits)
               /\ Fields(r, IF k < end THEN k + 1 ELSE k, data,
                         IF k < end THEN b[k] ELSE p.half \div kRawTick, nr, bit)
      BY <1>2, <1>3, <1>6, <1>7, <2>1, HalvesTaken
  <2> QED
      BY <2>2 DEF data, nr, bit, nbits
<1>9. at[i + 1] <= end <=> k < end
    BY <1>3
<1>10. k < end \/ k = end
    BY <1>3, <1>7
<1>11. (IF k < end THEN k + 1 ELSE k) = IF at[i + 1] <= end THEN at[i + 1] ELSE end
    BY <1>3, <1>9, <1>10
<1>12. (IF k < end THEN b[k] ELSE p.half \div kRawTick)
         = IF at[i + 1] <= end THEN b[at[i + 1] - 1] ELSE p.half \div kRawTick
    BY <1>9 DEF k
<1> QED
    BY <1>3, <1>7, <1>8, <1>11, <1>12

(* A bit that is not the last.                                             *)
LEMMA BitRan ==
    ASSUME NEW p, Clocked(p), p.width \in Nat \ {0}, NEW word \in [1 .. p.width -> Bit],
           NEW at, Laying(at, word, p.width), NEW b, NEW end \in Nat, Shown(b, end, at, word, p),
           NEW i \in 0 .. p.width - 2, NEW m, Ran(m, i, at, word, p), at[i] <= end
    PROVE  LET g == matchManchesterBit(b, m, end, p, p.width)
           IN  IF at[i + 1] <= end THEN Ran(g, i + 1, at, word, p) ELSE Ended(g, end)
<1> DEFINE n == p.width
           g == matchManchesterBit(b, m, end, p, n)
           met == Together(word, i + 1)
           next == at[i + 1]
           data == Taken(word, i)
           bit == word[i + 1]
           nr == 2 * i
<1>1. /\ i \in 0 .. n - 1 /\ i + 1 \in 1 .. n - 1 /\ i + 1 \in 1 .. n /\ i + 2 \in 1 .. n
      /\ (i + 1) - 1 = i /\ (i + 1) + 1 = i + 2 /\ i \in 0 .. n /\ i + 1 \in 0 .. n
    OBVIOUS
<1>2. next \in Nat /\ at[i] \in Nat /\ next = at[i] + (IF met THEN 1 ELSE 2)
    BY <1>1 DEF Laying
<1>3. bit \in Bit /\ nr \in Nat /\ nr + 2 = 2 * (i + 1) /\ Append(data, bit) = Taken(word, i + 1)
  <2>1. bit \in Bit
      BY <1>1
  <2>2. nr \in Nat /\ nr + 2 = 2 * (i + 1)
      OBVIOUS
  <2>3. n \in Nat /\ word \in [1 .. n -> Bit]
      OBVIOUS
  <2> HIDE DEF n
  <2>4. Append(data, bit) = Taken(word, i + 1)
      BY <1>1, <2>3, TakenMore
  <2> QED
      BY <2>1, <2>2, <2>4
<1>4. CASE ~met /\ at[i] = end
  <2>1. next > end
      BY <1>2, <1>4
  <2>2. Ended(m, end)
    <3>1. PICK bank : Fields(m, at[i], data, bank, nr, bit) /\ IF met THEN Near(bank, p.half) ELSE bank = 0
        BY DEF Ran
    <3> QED
        BY <1>4, <3>1 DEF Ended, Fields
  <2>3. g = m
      BY <2>2, EndedStays
  <2> QED
      BY <1>2, <2>1, <2>2, <2>3
<1>5. CASE met \/ at[i] < end
  <2> DEFINE x == IF next <= end THEN b[next - 1] ELSE p.half \div kRawTick
             k == IF next <= end THEN next ELSE end
             far == Together(word, i + 2)
  <2>1. \E r : g = SecondHalf(r, p, n) /\ Fields(r, k, data, x, nr, bit)
      BY <1>1, <1>5, RanOn
  <2>2. PICK r : g = SecondHalf(r, p, n) /\ Fields(r, k, data, x, nr, bit)
      BY <2>1
  <2>3. k \in Nat
      BY <1>2
  <2>4. IF next <= end /\ far THEN Near(x, 2 * p.half) ELSE Near(x, p.half)
    <3>1. next <= end => Near(b[next - 1], IF far THEN 2 * p.half ELSE p.half)
        BY <1>1 DEF Shown
    <3>2. Near(p.half \div kRawTick, p.half)
        BY HalfTells
    <3> QED
        BY <3>1, <3>2
  <2>5. x \in Nat
      BY <2>4 DEF Near
  <2>6. n \in Nat
      OBVIOUS
  <2> DEFINE rest == x - p.half \div kRawTick
  <2> HIDE DEF n, g, met, next, data, bit, nr, x, k, rest
  <2>7. /\ Near(x, 2 * p.half) => Fields(g, k, Append(data, bit), rest, nr + 2, 1 - bit)
        /\ Near(x, p.half) => Fields(g, k, Append(data, bit), 0, nr + 2, bit)
      BY <1>3, <2>2, <2>3, <2>5, <2>6, SecondRead DEF rest
  <2>8. CASE next <= end
    <3>1. k = next
        BY <2>8 DEF k
    <3>2. CASE far
      <4>1. Near(x, 2 * p.half) /\ Near(rest, p.half)
          BY <2>4, <2>5, <2>8, <3>2, HalfTells DEF rest
      <4>2. word[i + 2] = 1 - bit
        <5>1. word[i + 2] # word[i + 1] /\ word[i + 2] \in {0, 1} /\ word[i + 1] \in {0, 1}
            BY <1>1, <3>2 DEF Together, Bit, n
        <5> QED
            BY <5>1 DEF bit
      <4>3. Fields(g, next, Taken(word, i + 1), rest, 2 * (i + 1), word[i + 2])
          BY <1>3, <2>7, <3>1, <4>1, <4>2
      <4> QED
          BY <1>1, <2>8, <3>2, <4>1, <4>3 DEF Ran, next, g, n
    <3>3. CASE ~far
      <4>1. Near(x, p.half)
          BY <2>4, <2>8, <3>3
      <4>2. word[i + 2] = bit
          BY <1>1, <3>3 DEF Together, bit
      <4>3. Fields(g, next, Taken(word, i + 1), 0, 2 * (i + 1), word[i + 2])
          BY <1>3, <2>7, <3>1, <4>1, <4>2
      <4> QED
          BY <1>1, <2>8, <3>3, <4>1, <4>3 DEF Ran, next, g, n
    <3> QED
        BY <3>2, <3>3
  <2>9. CASE ~(next <= end)
    <3>1. k = end /\ Near(x, p.half)
        BY <2>4, <2>9 DEF k
    <3>2. Ended(g, end)
        BY <2>7, <3>1 DEF Ended, Fields
    <3> QED
        BY <2>9, <3>2 DEF next, g, n
  <2> QED
      BY <2>8, <2>9
<1>6. at[i] = end \/ at[i] < end
    BY <1>2
<1> QED
    BY <1>4, <1>5, <1>6

(* The last bit: the interval its second half is in is left to the footer  *)
(* when it lasts longer, or has not been recorded.                         *)
LEMMA LastRan ==
    ASSUME NEW p, Clocked(p), p.width \in Nat \ {0}, NEW word \in [1 .. p.width -> Bit],
           NEW at, Laying(at, word, p.width), NEW b, NEW end \in Nat, Shown(b, end, at, word, p),
           NEW i, i = p.width - 1, NEW m, Ran(m, i, at, word, p), at[i] <= end
    PROVE  LET g == matchManchesterBit(b, m, end, p, p.width)
               next == at[p.width]
           IN  /\ next > end + 1 => Ended(g, end)
               /\ next <= end + 1 =>
                    Fields(g, IF next <= end /\ Near(b[next - 1], p.half) THEN next ELSE next - 1,
                           Taken(word, p.width), 0, 2 * p.width, word[p.width])
<1> DEFINE n == p.width
           g == matchManchesterBit(b, m, end, p, n)
           met == Together(word, n)
           next == at[n]
           data == Taken(word, i)
           bit == word[n]
           nr == 2 * i
<1>1. i \in 0 .. n - 1 /\ i \in 0 .. n /\ n \in 0 .. n /\ i + 1 = n /\ n \in 1 .. n /\ n - 1 = i
    OBVIOUS
<1>2. next \in Nat /\ at[i] \in Nat /\ next = at[i] + (IF met THEN 1 ELSE 2)
    BY <1>1 DEF Laying
<1>3. bit \in Bit /\ nr \in Nat /\ nr + 2 = 2 * n /\ nr = 2 * (n - 1) /\ Append(data, bit) = Taken(word, n)
  <2>1. bit \in Bit
      BY <1>1
  <2>2. nr \in Nat /\ nr + 2 = 2 * n /\ nr = 2 * (n - 1)
      OBVIOUS
  <2>3. n \in Nat /\ word \in [1 .. n -> Bit]
      OBVIOUS
  <2> HIDE DEF n
  <2>4. Append(data, bit) = Taken(word, n)
      BY <1>1, <2>3, TakenMore
  <2> QED
      BY <2>1, <2>2, <2>4
<1>4. CASE ~met /\ at[i] = end
  <2>1. next > end + 1
      BY <1>2, <1>4
  <2>2. Ended(m, end)
    <3>1. PICK bank : Fields(m, at[i], data, bank, nr, word[i + 1])
                        /\ IF Together(word, i + 1) THEN Near(bank, p.half) ELSE bank = 0
        BY DEF Ran
    <3> QED
        BY <1>1, <1>4, <3>1 DEF Ended, Fields
  <2>3. g = m
      BY <2>2, EndedStays
  <2> QED
      BY <1>2, <2>1, <2>2, <2>3
<1>5. CASE met \/ at[i] < end
  <2> DEFINE x == IF next <= end THEN b[next - 1] ELSE p.half \div kRawTick
             k == IF next <= end THEN next ELSE end
  <2>1. next <= end + 1 /\ \E r : g = SecondHalf(r, p, n) /\ Fields(r, k, data, x, nr, bit)
      BY <1>1, <1>5, RanOn
  <2>2. PICK r : g = SecondHalf(r, p, n) /\ Fields(r, k, data, x, nr, bit)
      BY <2>1
  <2>3. k \in Nat
      BY <1>2
  <2>4. Near(x, p.half) \/ (next <= end /\ Far(x, p))
    <3>1. next <= end => Near(b[next - 1], p.half) \/ Far(b[next - 1], p)
        BY <1>1 DEF Shown
    <3>2. Near(p.half \div kRawTick, p.half)
        BY HalfTells
    <3> QED
        BY <3>1, <3>2
  <2>5. x \in Nat
      BY <2>4 DEF Near, Far
  <2>6. n \in Nat
      OBVIOUS
  <2>7. Near(x, p.half) => ~Far(x, p)
      BY <2>5, HalfTells
  <2>8. next <= end => x = b[next - 1]
      OBVIOUS
  <2>9. ~(next <= end) => Near(x, p.half)
      BY <2>4
  <2>10. next # 0
      BY <1>2
  <2> DEFINE to == IF next <= end /\ Near(b[next - 1], p.half) THEN next ELSE next - 1
  <2>11. Fields(g, to, Taken(word, n), 0, 2 * n, bit)
    <3>1. next <= end => k = next
        OBVIOUS
    <3>2. ~(next <= end) => k = end /\ next - 1 = end
      <4>1. next \in Nat /\ next <= end + 1
          BY <1>2, <2>1
      <4> HIDE DEF next
      <4> QED
          BY <4>1
    <3> HIDE DEF n, g, met, next, data, bit, nr, x, k
    <3>3. /\ Near(x, p.half) => Fields(g, k, Append(data, bit), 0, nr + 2, bit)
          /\ Far(x, p) /\ nr = 2 * (n - 1) /\ k # 0 => Fields(g, k - 1, Append(data, bit), 0, nr + 2, bit)
        BY <1>3, <2>2, <2>3, <2>5, <2>6, SecondRead
    <3>4. CASE Near(x, p.half)
      <4>1. to = k
          BY <2>8, <3>1, <3>2, <3>4
      <4> QED
          BY <1>3, <3>3, <3>4, <4>1
    <3>5. CASE ~Near(x, p.half)
      <4>1. next <= end /\ Far(x, p)
          BY <2>4, <3>5
      <4>2. to = k - 1 /\ k # 0
          BY <2>8, <2>10, <3>1, <3>5, <4>1
      <4> QED
          BY <1>3, <3>3, <4>1, <4>2
    <3> QED
        BY <3>4, <3>5
  <2> HIDE DEF to, g, next
  <2>12. ~(next > end + 1)
      BY <1>2, <2>1
  <2> QED
      BY <2>11, <2>12 DEF to, g, next
<1>6. at[i] = end \/ at[i] < end
    BY <1>2
<1> QED
    BY <1>4, <1>5, <1>6

LEMMA LaysOn ==
    ASSUME NEW n \in Nat, NEW at, NEW word, Laying(at, word, n), NEW i \in 0 .. n - 1
    PROVE  /\ at[i] \in Nat /\ at[i + 1] \in Nat
           /\ at[i] + 1 <= at[i + 1] /\ at[i + 1] <= at[i] + 2
<1>1. i + 1 \in 1 .. n /\ (i + 1) - 1 = i /\ i \in 0 .. n /\ i + 1 \in 0 .. n
    OBVIOUS
<1>2. at[i] \in Nat /\ at[i + 1] \in Nat
    BY <1>1 DEF Laying
<1>3. at[i + 1] = at[i] + IF Together(word, i + 1) THEN 1 ELSE 2
    BY <1>1 DEF Laying
<1> QED
    BY <1>2, <1>3

(* The match behind the first i bits of a word, whether the capture goes   *)
(* on that far or not.                                                     *)
RanOrEnded(m, i, end, at, word, p) ==
    IF at[i] <= end THEN Ran(m, i, at, word, p) ELSE Ended(m, end)

LEMMA RanAll ==
    ASSUME NEW p, Clocked(p), p.width \in Nat \ {0}, NEW word \in [1 .. p.width -> Bit],
           NEW at, Laying(at, word, p.width), NEW b, NEW end \in Nat, Shown(b, end, at, word, p),
           NEW upto, RanOrEnded(upto[0], 0, end, at, word, p),
           \A i \in 1 .. p.width : upto[i] = matchManchesterBit(b, upto[i - 1], end, p, p.width)
    PROVE  RanOrEnded(upto[p.width - 1], p.width - 1, end, at, word, p)
<1> DEFINE n == p.width
           T == {i \in 0 .. n - 1 : RanOrEnded(upto[i], i, end, at, word, p)}
<1>1. 0 \in T
    OBVIOUS
<1>2. ASSUME NEW i \in 0 .. n - 2, i \in T PROVE i + 1 \in T
  <2>1. /\ i + 1 \in 0 .. n - 1 /\ i + 1 \in 1 .. n /\ (i + 1) - 1 = i
        /\ i \in 0 .. n /\ i + 1 \in 0 .. n
      OBVIOUS
  <2>2. at[i] \in Nat /\ at[i + 1] \in Nat /\ at[i] <= at[i + 1]
    <3>1. n \in Nat /\ i \in 0 .. n - 1
        BY <2>1
    <3> HIDE DEF n
    <3>2. at[i] \in Nat /\ at[i + 1] \in Nat /\ at[i] + 1 <= at[i + 1]
        BY <3>1, LaysOn DEF n
    <3> QED
        BY <3>2
  <2>3. RanOrEnded(upto[i], i, end, at, word, p)
      BY <1>2
  <2> DEFINE q == upto[i]
             g == upto[i + 1]
  <2>4. g = matchManchesterBit(b, q, end, p, p.width)
      BY <2>1
  <2> HIDE DEF q, g
  <2>5. RanOrEnded(g, i + 1, end, at, word, p)
    <3>1. CASE at[i] <= end
      <4>1. Ran(q, i, at, word, p)
          BY <2>3, <3>1 DEF RanOrEnded, q
      <4>2. IF at[i + 1] <= end THEN Ran(g, i + 1, at, word, p) ELSE Ended(g, end)
          BY <2>4, <3>1, <4>1, BitRan
      <4> QED
          BY <4>2 DEF RanOrEnded
    <3>2. CASE ~(at[i] <= end)
      <4>1. Ended(q, end)
          BY <2>3, <3>2 DEF RanOrEnded, q
      <4>2. g = q
          BY <2>4, <4>1, EndedStays
      <4>3. ~(at[i + 1] <= end)
          BY <2>2, <3>2
      <4> QED
          BY <4>1, <4>2, <4>3 DEF RanOrEnded
    <3> QED
        BY <3>1, <3>2
  <2> QED
      BY <2>1, <2>5 DEF g
<1>3. n - 1 \in T
  <2>1. n - 1 \in Nat /\ \A i \in 0 .. (n - 1) - 1 : i \in 0 .. n - 2
      OBVIOUS
  <2> DEFINE last == n - 1
  <2>2. 0 .. last \subseteq T
    <3>1. \A i \in 0 .. last - 1 : i \in T => i + 1 \in T
        BY <1>2, <2>1
    <3>2. last \in Nat
        BY <2>1
    <3> HIDE DEF T, last
    <3> QED
        BY <1>1, <3>1, <3>2, UpTo
  <2>3. last \in 0 .. last
      BY <2>1
  <2> HIDE DEF T
  <2> QED
      BY <2>2, <2>3
<1> QED
    BY <1>3

(* A word whose bits have all been found is not widened.                   *)
LEMMA TakenWhole ==
    ASSUME NEW n \in Nat \ {0}, NEW word \in [1 .. n -> Bit]
    PROVE  Widened(Taken(word, n), n) = word /\ Taken(word, n) = word
<1>1. Taken(word, n) = word
    BY DEF Taken
<1>2. word \in Seq(Bit) /\ Len(word) = n
    OBVIOUS
<1> DEFINE zeros == [i \in 1 .. (n - Len(word)) |-> 0]
<1>3. zeros = <<>>
    BY <1>2
<1>4. Widened(word, n) = zeros \o word
    BY DEF Widened
<1> HIDE DEF zeros
<1>5. <<>> \o word = word
    BY <1>2
<1> QED
    BY <1>1, <1>3, <1>4, <1>5

(* What is read of a word: all of it, or too little of the capture.        *)
WordFound(g, b, end, last, word, p) ==
    /\ last > end + 1 => Ended(g, end)
    /\ last <= end + 1 =>
         Fields(g, IF last <= end /\ Near(b[last - 1], p.half) THEN last ELSE last - 1,
                word, 0, 2 * p.width, word[p.width])

LEMMA WordRan ==
    ASSUME NEW p, Clocked(p), p.msb = TRUE, p.width \in Nat \ {0}, NEW word \in [1 .. p.width -> Bit],
           NEW at, Laying(at, word, p.width), NEW b, NEW end \in Nat, Shown(b, end, at, word, p),
           NEW m, m.ok = TRUE, Enough(m, end, p.width),
           RanOrEnded(ManchesterStart(m, p), 0, end, at, word, p)
    PROVE  WordFound(matchManchesterData(b, m, end, p, p.width), b, end, at[p.width], word, p)
<1> DEFINE n == p.width
           last == at[n]
           g == matchManchesterData(b, m, end, p, n)
           to == IF last <= end /\ Near(b[last - 1], p.half) THEN last ELSE last - 1
<1>1. PICK upto : HalfByHalf(upto, b, m, end, p, n)
  <2>1. n \in Nat /\ m.ok /\ Enough(m, end, n)
      OBVIOUS
  <2> HIDE DEF n
  <2> QED
      BY <2>1, ManchesterSteps, Zenon
<1> DEFINE q == upto[n - 1]
           h == upto[n]
<1>2. upto[0] = ManchesterStart(m, p) /\ \A i \in 1 .. n : upto[i] = matchManchesterBit(b, upto[i - 1], end, p, n)
    BY <1>1 DEF HalfByHalf
<1>3. g = [h EXCEPT !.data = Widened(@, n)]
    BY <1>1 DEF HalfByHalf, Ordered
<1>4. RanOrEnded(q, n - 1, end, at, word, p)
    BY <1>2, RanAll
<1>5. h = matchManchesterBit(b, q, end, p, n)
    BY <1>2
<1>6. /\ n - 1 \in 0 .. n /\ n \in 0 .. n /\ n \in 1 .. n
      /\ at[n - 1] \in Nat /\ last \in Nat /\ at[n - 1] + 1 <= last
  <2>1. n - 1 \in 0 .. n /\ n \in 0 .. n /\ n \in 1 .. n
      OBVIOUS
  <2> DEFINE i == n - 1
  <2>2. n \in Nat /\ i \in 0 .. n - 1 /\ i + 1 = n /\ Laying(at, word, n)
      OBVIOUS
  <2> HIDE DEF i, n
  <2>3. at[i] \in Nat /\ at[i + 1] \in Nat /\ at[i] + 1 <= at[i + 1]
      BY <2>2, LaysOn
  <2> QED
      BY <2>1, <2>2, <2>3 DEF i
<1> HIDE DEF q, h, g
<1>7. CASE at[n - 1] <= end
  <2>1. Ran(q, n - 1, at, word, p)
      BY <1>4, <1>7 DEF RanOrEnded
  <2>2. /\ last > end + 1 => Ended(h, end)
        /\ last <= end + 1 => Fields(h, to, Taken(word, n), 0, 2 * n, word[n])
    <3> DEFINE i == n - 1
    <3>1. i = p.width - 1 /\ Ran(q, i, at, word, p) /\ at[i] <= end
        BY <1>7, <2>1
    <3> HIDE DEF i
    <3> QED
        BY <1>5, <3>1, LastRan
  <2>3. last > end + 1 => Ended(g, end)
      BY <1>3, <2>2 DEF Ended, IsMatch
  <2>4. ASSUME last <= end + 1 PROVE Fields(g, to, word, 0, 2 * n, word[n])
    <3> DEFINE taken == Taken(word, n)
               nr == 2 * n
               bit == word[n]
    <3>1. Fields(h, to, taken, 0, nr, bit)
        BY <2>2, <2>4
    <3>2. Widened(taken, n) = word
      <4>1. n \in Nat \ {0} /\ word \in [1 .. n -> Bit]
          OBVIOUS
      <4> HIDE DEF n
      <4> QED
          BY <4>1, TakenWhole
    <3> HIDE DEF taken, nr, bit, to
    <3>3. h.data = taken
        BY <3>1 DEF Fields
    <3>4. g = [h EXCEPT !.data = word]
        BY <1>3, <3>2, <3>3
    <3>5. Fields(g, to, word, 0, nr, bit)
        BY <3>1, <3>4, FieldsExcept
    <3> QED
        BY <3>5 DEF nr, bit
  <2> HIDE DEF last, to
  <2>5. WordFound(g, b, end, last, word, p)
      BY <2>3, <2>4 DEF WordFound, to
  <2> QED
      BY <2>5 DEF last, g
<1>8. CASE ~(at[n - 1] <= end)
  <2>1. Ended(q, end)
      BY <1>4, <1>8 DEF RanOrEnded
  <2>2. h = q
      BY <1>5, <2>1, EndedStays
  <2>3. Ended(g, end)
      BY <1>3, <2>1, <2>2 DEF Ended, IsMatch
  <2>4. ~(last <= end + 1)
      BY <1>6, <1>8
  <2> HIDE DEF last
  <2>5. WordFound(g, b, end, last, word, p)
      BY <2>3, <2>4 DEF WordFound
  <2> QED
      BY <2>5 DEF last, g
<1> QED
    BY <1>7, <1>8

-----------------------------------------------------------------------------
(* The header.  What a first half period adds to its last interval goes to *)
(* the bank; what is left of an interval that only looks longer does not   *)
(* stay there.                                                             *)
LEMMA ClockedTuned ==
    ASSUME NEW p, Clocked(p)
    PROVE  Tuned(p)
BY DEF Clocked, Tuned

LEMMA OverTells ==
    ASSUME NEW p, Clocked(p), NEW d \in {640, 2850}, NEW x \in Nat
    PROVE  /\ Near(x, d + p.half) => Over(x, d) # 0 /\ Near(Over(x, d) \div kRawTick, p.half)
           /\ 2 * x <= d /\ d - 101 <= 2 * x =>
                Over(x, d) \in Nat /\ ~Half(Over(x, d) \div kRawTick, p)
<1> DEFINE o == (2 * x - d) % 65536
<1>1. Over(x, d) = o
    BY DEF Over, kRawTick
<1>2. p.half \in {320, 950}
    BY DEF Clocked
<1>3. Near(x, d + p.half) => o = 2 * x - d
    BY <1>2 DEF Near
<1>4. o \in Nat /\ o \div 2 \in Nat
    OBVIOUS
<1>5. 2 * x <= d /\ d - 101 <= 2 * x => o \div 2 = 0 \/ 2 * (o \div 2) >= 32000
    OBVIOUS
<1>6. ASSUME Near(x, d + p.half) PROVE o # 0 /\ Near(o \div 2, p.half)
  <2>1. o = 2 * (x - d \div 2) /\ o \div 2 = x - d \div 2
      BY <1>3, <1>6
  <2> QED
      BY <1>2, <1>4, <1>6, <2>1 DEF Near
<1> HIDE DEF o
<1>7. o \div 2 = 0 \/ 2 * (o \div 2) >= 32000 => ~Half(o \div 2, p)
  <2> DEFINE y == o \div 2
  <2>1. y \in Nat
      BY <1>4
  <2> HIDE DEF y
  <2>2. 2 * y >= 32000 \/ y = 0 => ~Half(y, p)
      BY <2>1, HalfTells
  <2> QED
      BY <2>2 DEF y
<1>8. kRawTick = 2
    BY DEF kRawTick
<1>9. Over(x, d) \div kRawTick = o \div 2
    BY <1>1, <1>8
<1> QED
    BY <1>1, <1>4, <1>5, <1>6, <1>7, <1>9

LEMMA NextPassed ==
    ASSUME NEW m, NEW k \in Nat, NEW data, NEW bank, NEW nr, NEW bit,
           Fields(m, k, data, bank, nr, bit), NEW n, n = k + 1
    PROVE  Fields(Passed(m), n, data, bank, nr, bit)
<1> DEFINE moved == [m EXCEPT !.next = n]
<1>1. n \in Nat /\ m.next = k
    BY DEF Fields
<1>2. Passed(m) = [moved EXCEPT !.ok = TRUE]
    BY <1>1 DEF Passed
<1>3. Fields(moved, n, data, bank, nr, bit)
    BY <1>1, FieldsExcept
<1> HIDE DEF moved
<1>4. Fields([moved EXCEPT !.ok = TRUE], n, data, bank, nr, bit)
    BY <1>3, FieldsExcept
<1> QED
    BY <1>2, <1>4

PassedInto(m, rest) == [m EXCEPT !.next = @ + 1, !.bank = rest]

LEMMA NextBanked ==
    ASSUME NEW m, NEW k \in Nat, NEW data, NEW bank, NEW nr, NEW bit,
           Fields(m, k, data, bank, nr, bit), NEW rest, NEW n, n = k + 1
    PROVE  Fields(PassedInto(m, rest), n, data, rest, nr, bit)
<1> DEFINE moved == [m EXCEPT !.next = n]
<1>1. n \in Nat /\ m.next = k
    BY DEF Fields
<1>2. PassedInto(m, rest) = [moved EXCEPT !.bank = rest]
    BY <1>1 DEF PassedInto
<1>3. Fields(moved, n, data, bank, nr, bit)
    BY <1>1, FieldsExcept
<1> HIDE DEF moved
<1>4. Fields([moved EXCEPT !.bank = rest], n, data, rest, nr, bit)
    BY <1>3, FieldsExcept
<1> QED
    BY <1>2, <1>4

LEMMA MarkPassed ==
    ASSUME Jitter <= 100, NEW p, Tuned(p), NEW t \in Nat, t >= 400, NEW b,
           NEW m, NEW k \in Nat, NEW data, NEW bank, NEW nr, NEW bit,
           Fields(m, k, data, bank, nr, bit), Sees(b[k], Lit(t)), NEW n, n = k + 1
    PROVE  Fields(TakeMark(b, m, t, p), n, data, bank, nr, bit)
<1>1. matchMark(b[k], t, p)
    BY MarkSeen
<1>2. TakeMark(b, m, t, p) = Passed(m)
    BY <1>1 DEF TakeMark, Passed, Fields
<1> QED
    BY <1>2, NextPassed

LEMMA SpacePassed ==
    ASSUME Jitter <= 100, NEW p, Tuned(p), NEW t \in Nat, t >= 400, NEW b,
           NEW m, NEW k \in Nat, NEW data, NEW bank, NEW nr, NEW bit,
           Fields(m, k, data, bank, nr, bit), Sees(b[k], Dark(t)), NEW n, n = k + 1
    PROVE  Fields(TakeSpace(b, m, t, p), n, data, bank, nr, bit)
<1>1. matchSpace(b[k], t, p)
    BY SpaceSeen
<1>2. TakeSpace(b, m, t, p) = Passed(m)
    BY <1>1 DEF TakeSpace, Passed, Fields
<1> QED
    BY <1>2, NextPassed

LEMMA PartNear ==
    ASSUME Jitter <= 100, NEW t \in Nat, NEW x, Sees(x, Lit(t)) \/ Sees(x, Dark(t))
    PROVE  Near(x, t)
<1>1. Jitter \in Nat
    BY CodecAssumption
<1>2. CASE Sees(x, Lit(t))
    BY <1>1, <1>2 DEF Sees, Lit, Near
<1>3. CASE Sees(x, Dark(t))
    BY <1>1, <1>3 DEF Sees, Dark, Near
<1> QED
    BY <1>2, <1>3

(* The bank behind the header: the first half period, or nothing.          *)
InBank(bank, bit, p) ==
    IF bit = 1 THEN bank # 0 /\ Near(bank \div kRawTick, p.half) ELSE bank = 0
HeaderFound(h, next, bit, p) ==
    \E bank : Fields(h, next, <<>>, bank, 0, 0) /\ InBank(bank, bit, p)

LEMMA BankBalanced ==
    ASSUME NEW p, Clocked(p), NEW h, NEW k \in Nat, NEW bank, NEW bit,
           Fields(h, k, <<>>, bank, 0, 0),
           \/ InBank(bank, bit, p)
           \/ bit # 1 /\ ~Half(bank \div kRawTick, p)
    PROVE  HeaderFound(Balanced(h, p), k, bit, p)
<1> DEFINE left == IF Half(bank \div kRawTick, p) THEN bank ELSE 0
<1>1. Balanced(h, p) = [h EXCEPT !.bank = left]
    BY DEF Balanced, Fields
<1>2. InBank(left, bit, p)
  <2>1. CASE InBank(bank, bit, p) /\ bit = 1
    <3> DEFINE y == bank \div kRawTick
    <3>1. Near(y, p.half)
        BY <2>1 DEF InBank
    <3>2. y \in Nat
        BY <3>1 DEF Near
    <3> HIDE DEF y
    <3>3. Half(y, p)
        BY <3>1, <3>2, HalfTells
    <3> QED
        BY <2>1, <3>3 DEF y
  <2>2. CASE InBank(bank, bit, p) /\ bit # 1
      BY <2>2 DEF InBank
  <2>3. CASE bit # 1 /\ ~Half(bank \div kRawTick, p)
      BY <2>3 DEF InBank
  <2> QED
      BY <2>1, <2>2, <2>3
<1> HIDE DEF left
<1> DEFINE none == <<>>
           zero == 0
<1>3. Fields(h, k, none, bank, zero, zero)
    OBVIOUS
<1> HIDE DEF none, zero
<1>4. Fields([h EXCEPT !.bank = left], k, none, left, zero, zero)
    BY <1>3, FieldsExcept
<1> QED
    BY <1>1, <1>2, <1>4 DEF HeaderFound, none, zero

Fresh(m, k) == Fields(m, k, <<>>, 0, 0, 0)
FarTimes(p) == Clocked(p) /\ p.half = 950 /\ p.hdrmark = 2850 /\ p.hdrspace = 2850
CloseTimes(p) == Clocked(p) /\ p.half = 320 /\ p.hdrmark = 640 /\ p.hdrspace = 0

(* AIRWELL's header is a mark and a space, the space the longer one.       *)
LEMMA FarHeader ==
    ASSUME Jitter <= 100, NEW p, FarTimes(p), NEW bit,
           NEW b, Sees(b[0], Lit(p.hdrmark)),
           Sees(b[1], Dark(p.hdrspace + IF bit = 1 THEN p.half ELSE 0)),
           NEW m, Fresh(m, 0)
    PROVE  HeaderFound(Balanced(HeaderSpace(b, HeaderMark(b, m, p), p), p), 2, bit, p)
<1> DEFINE t == p.hdrspace
           u == t + p.half
           x == b[1]
           lit == HeaderMark(b, m, p)
           h == HeaderSpace(b, lit, p)
           none == <<>>
           zero == 0
           one == 1
           two == 2
<1>1. Tuned(p)
    BY ClockedTuned DEF FarTimes
<1>2. /\ t \in Nat /\ t >= 400 /\ t # 0 /\ t \in {640, 2850} /\ p.hdrmark = t
      /\ u \in Nat /\ u >= 400 /\ Clocked(p)
    BY DEF FarTimes, Clocked
<1>3. one = zero + 1 /\ two = one + 1 /\ zero \in Nat /\ one \in Nat /\ two \in Nat
    OBVIOUS
<1>4. Fields(m, zero, none, zero, zero, zero) /\ Sees(b[zero], Lit(t))
    BY <1>2 DEF Fresh
<1>5. lit = TakeMark(b, m, t, p)
    BY <1>2 DEF HeaderMark
<1>6. x \in Nat /\ (bit = 1 => Sees(x, Dark(u))) /\ (bit # 1 => Sees(x, Dark(t)))
  <2>1. bit = 1 => Sees(x, Dark(u))
      OBVIOUS
  <2>2. bit # 1 => Sees(x, Dark(t + 0))
      OBVIOUS
  <2>3. t + 0 = t
      BY <1>2
  <2> QED
      BY <2>1, <2>2, <2>3 DEF Sees
<1>7. Fields(lit, one, none, zero, zero, zero)
  <2> HIDE DEF t, lit, none, zero, one
  <2> QED
      BY <1>1, <1>2, <1>3, <1>4, <1>5, MarkPassed
<1>8. h = IF matchSpace(x, u, p) THEN PassedInto(lit, Over(x, t)) ELSE TakeSpace(b, lit, t, p)
  <2>1. lit.ok = TRUE /\ lit.next = 1
      BY <1>7 DEF Fields
  <2> HIDE DEF lit
  <2> QED
      BY <1>2, <2>1 DEF HeaderSpace, PassedInto
<1> HIDE DEF t, u, x, lit, none, zero, one, two
<1>9. CASE bit = 1
  <2>1. matchSpace(x, u, p)
      BY <1>1, <1>2, <1>6, <1>9, SpaceSeen
  <2>2. Near(x, u)
      BY <1>2, <1>6, <1>9, PartNear
  <2> DEFINE o == Over(x, t)
  <2>3. InBank(o, bit, p)
    <3>1. o # 0 /\ Near(o \div kRawTick, p.half)
        BY <1>2, <1>6, <2>2, OverTells DEF u
    <3> HIDE DEF o
    <3> QED
        BY <1>9, <3>1 DEF InBank
  <2>4. h = PassedInto(lit, o)
      BY <1>8, <2>1
  <2> HIDE DEF o, h
  <2>5. Fields(h, two, none, o, zero, zero)
      BY <1>3, <1>7, <2>4, NextBanked
  <2>6. HeaderFound(Balanced(h, p), two, bit, p)
      BY <1>2, <1>3, <2>3, <2>5, BankBalanced DEF none, zero
  <2> QED
      BY <2>6 DEF h, two, lit
<1>10. CASE bit # 1 /\ matchSpace(x, u, p)
  <2> DEFINE o == Over(x, t)
  <2>1. 2 * x <= t /\ t - 101 <= 2 * x
    <3>1. Near(x, t)
        BY <1>2, <1>6, <1>10, PartNear
    <3>2. 2 * x <= t
        BY <1>6, <1>10 DEF Sees, Dark
    <3> QED
        BY <1>2, <3>1, <3>2 DEF Near
  <2>2. ~Half(o \div kRawTick, p)
      BY <1>2, <1>6, <2>1, OverTells
  <2>3. h = PassedInto(lit, o)
      BY <1>8, <1>10
  <2> HIDE DEF o, h
  <2>4. Fields(h, two, none, o, zero, zero)
      BY <1>3, <1>7, <2>3, NextBanked
  <2>5. HeaderFound(Balanced(h, p), two, bit, p)
    <3>1. Fields(h, two, <<>>, o, 0, 0)
        BY <2>4 DEF none, zero
    <3>2. InBank(o, bit, p) \/ (bit # 1 /\ ~Half(o \div kRawTick, p))
        BY <1>10, <2>2
    <3>3. Clocked(p) /\ two \in Nat
        BY <1>2, <1>3
    <3> QED
        BY <3>1, <3>2, <3>3, BankBalanced
  <2> QED
      BY <2>5 DEF h, two, lit
<1>11. CASE bit # 1 /\ ~matchSpace(x, u, p)
  <2>1. h = TakeSpace(b, lit, t, p)
      BY <1>8, <1>11
  <2>2. Sees(b[one], Dark(t))
      BY <1>6, <1>11 DEF x, one
  <2> HIDE DEF h
  <2>3. Fields(h, two, none, zero, zero, zero)
      BY <1>1, <1>2, <1>3, <1>7, <2>1, <2>2, SpacePassed
  <2>4. InBank(zero, bit, p)
      BY <1>11 DEF InBank, zero
  <2>5. HeaderFound(Balanced(h, p), two, bit, p)
      BY <1>2, <1>3, <2>3, <2>4, BankBalanced DEF none, zero
  <2> QED
      BY <2>5 DEF h, two, lit
<1> QED
    BY <1>9, <1>10, <1>11

(* ARRIS's header is a mark, behind a lead.                                *)
LEMMA CloseHeader ==
    ASSUME Jitter <= 100, NEW p, CloseTimes(p), NEW bit,
           NEW b, Sees(b[2], Lit(p.hdrmark + IF bit = 1 THEN p.half ELSE 0)),
           NEW m, Fresh(m, 2)
    PROVE  HeaderFound(Balanced(HeaderSpace(b, HeaderMark(b, m, p), p), p), 3, bit, p)
<1> DEFINE t == p.hdrmark
           u == t + p.half
           x == b[2]
           h == HeaderMark(b, m, p)
           none == <<>>
           zero == 0
           two == 2
           three == 3
<1>1. Tuned(p) /\ Clocked(p)
    BY ClockedTuned DEF CloseTimes
<1>2. /\ t \in Nat /\ t >= 400 /\ t # 0 /\ t \in {640, 2850} /\ p.hdrspace = 0
      /\ u \in Nat /\ u >= 400 /\ t = 640 /\ u = 960
    BY DEF CloseTimes
<1>3. three = two + 1 /\ two \in Nat /\ three \in Nat
    OBVIOUS
<1>4. Fields(m, two, none, zero, zero, zero)
    BY DEF Fresh
<1>5. x \in Nat /\ (bit = 1 => Sees(x, Lit(u))) /\ (bit # 1 => Sees(x, Lit(t)))
  <2>1. bit = 1 => Sees(x, Lit(u))
      OBVIOUS
  <2>2. bit # 1 => Sees(x, Lit(t + 0))
      OBVIOUS
  <2>3. t + 0 = t
      BY <1>2
  <2> QED
      BY <2>1, <2>2, <2>3 DEF Sees
<1>6. HeaderSpace(b, h, p) = h
    BY <1>2 DEF HeaderSpace
<1>7. h = IF matchMark(x, u, p) THEN PassedInto(m, Over(x, t)) ELSE TakeMark(b, m, t, p)
  <2>1. m.ok = TRUE /\ m.next = 2
      BY DEF Fresh, Fields
  <2> QED
      BY <1>2, <2>1 DEF HeaderMark, PassedInto
<1>8. Near(x, t) => ~matchMark(x, u, p)
  <2>1. ticksLow(1010, 25, 0) = Max({0, (1010 * (100 - 25)) \div 100 - 0})
      BY DEF ticksLow
  <2>2. (1010 * (100 - 25)) \div 100 - 0 = 757
      OBVIOUS
  <2>3. ticksLow(1010, 25, 0) = 757
    <3>1. 757 \in Int /\ 757 >= 0
        OBVIOUS
    <3> QED
        BY <2>1, <2>2, <3>1, LowOf
  <2>4. matchMark(x, u, p) => 2 * x >= 757
    <3>1. u + p.excess = 1010 /\ p.tolerance = 25
        BY <1>1, <1>2 DEF Clocked
    <3> QED
        BY <2>3, <3>1 DEF matchMark, match, kRawTick
  <2> QED
      BY <1>2, <2>4 DEF Near
<1> HIDE DEF t, u, x, none, zero, two, three
<1>9. CASE bit = 1
  <2>1. matchMark(x, u, p)
      BY <1>1, <1>2, <1>5, <1>9, MarkSeen
  <2>2. Near(x, u)
      BY <1>2, <1>5, <1>9, PartNear
  <2> DEFINE o == Over(x, t)
  <2>3. InBank(o, bit, p)
    <3>1. o # 0 /\ Near(o \div kRawTick, p.half)
        BY <1>1, <1>2, <1>5, <2>2, OverTells DEF u
    <3> HIDE DEF o
    <3> QED
        BY <1>9, <3>1 DEF InBank
  <2>4. h = PassedInto(m, o)
      BY <1>7, <2>1
  <2> HIDE DEF o, h
  <2>5. Fields(h, three, none, o, zero, zero)
      BY <1>3, <1>4, <2>4, NextBanked
  <2>6. Fields(h, three, <<>>, o, 0, 0)
      BY <2>5 DEF none, zero
  <2>7. HeaderFound(Balanced(h, p), three, bit, p)
      BY <1>1, <1>3, <2>3, <2>6, BankBalanced
  <2> QED
      BY <1>6, <2>7 DEF h, three
<1>10. CASE bit # 1
  <2>1. Near(x, t)
      BY <1>2, <1>5, <1>10, PartNear
  <2>2. h = TakeMark(b, m, t, p)
      BY <1>7, <1>8, <2>1
  <2>3. Sees(b[two], Lit(t))
      BY <1>5, <1>10 DEF x, two
  <2> HIDE DEF h
  <2>4. Fields(h, three, none, zero, zero, zero)
      BY <1>1, <1>2, <1>3, <1>4, <2>2, <2>3, MarkPassed
  <2>5. InBank(0, bit, p)
      BY <1>10 DEF InBank
  <2>6. Fields(h, three, <<>>, 0, 0, 0)
      BY <2>4 DEF none, zero
  <2>7. HeaderFound(Balanced(h, p), three, bit, p)
      BY <1>1, <1>3, <2>5, <2>6, BankBalanced
  <2> QED
      BY <1>6, <2>7 DEF h, three
<1> QED
    BY <1>9, <1>10

(* Behind the header the word begins.                                      *)
LEMMA StartRan ==
    ASSUME NEW p, p.rthomas = FALSE, NEW word, word[1] \in Bit, NEW at, at[0] \in Nat,
           NEW h, HeaderFound(h, at[0], word[1], p)
    PROVE  /\ Ran(ManchesterStart(h, p), 0, at, word, p)
           /\ h.ok = TRUE /\ h.next = at[0]
<1> DEFINE k == at[0]
           bit == word[1]
           none == <<>>
           zero == 0
<1>1. PICK bank : Fields(h, k, none, bank, zero, zero) /\ InBank(bank, bit, p)
    BY DEF HeaderFound
<1>2. h.bank = bank /\ h.ok = TRUE /\ h.next = k
    BY <1>1 DEF Fields
<1> DEFINE half == bank \div kRawTick
           first == [h EXCEPT !.bank = half]
           g == [first EXCEPT !.bit = bit]
<1>3. ManchesterStart(h, p) = g
  <2>1. (IF h.bank # 0 THEN 1 - 0 ELSE 0) = bit
    <3>1. bit \in {0, 1}
        BY DEF Bit
    <3> HIDE DEF bit
    <3> QED
        BY <1>1, <1>2, <3>1 DEF InBank
  <2>2. ManchesterStart(h, p) = [h EXCEPT !.bank = half, !.bit = IF h.bank # 0 THEN 1 - 0 ELSE 0]
      BY <1>2 DEF ManchesterStart
  <2> HIDE DEF half, bit
  <2> QED
      BY <2>1, <2>2
<1>4. IF bit = 1 THEN Near(half, p.half) ELSE half = 0
  <2>1. 0 \div kRawTick = 0
      BY DEF kRawTick
  <2> QED
      BY <1>1, <2>1 DEF InBank
<1> HIDE DEF half, bit, none, zero, k
<1>5. Fields(first, k, none, half, zero, zero)
    BY <1>1, FieldsExcept
<1> HIDE DEF first
<1>6. Fields(g, k, none, half, zero, bit)
    BY <1>5, FieldsExcept
<1> HIDE DEF g
<1>7. Taken(word, 0) = <<>> /\ 2 * 0 = 0 /\ 0 + 1 = 1
    BY DEF Taken
<1>8. Together(word, 0 + 1) <=> bit = 1
    BY <1>7 DEF Together, bit
<1>9. Fields(g, at[0], Taken(word, 0), half, 2 * 0, word[0 + 1])
    BY <1>6, <1>7 DEF none, zero, bit, k
<1>10. Ran(g, 0, at, word, p)
    BY <1>4, <1>8, <1>9 DEF Ran
<1> QED
    BY <1>2, <1>3, <1>10 DEF k

-----------------------------------------------------------------------------
(* The match of a message that is one word in Manchester code.             *)
FrontMatch(b, start, p) == Balanced(HeaderSpace(b, HeaderMark(b, start, p), p), p)
WordMatch(b, start, end, p) == matchManchesterData(b, FrontMatch(b, start, p), end, p, p.width)
SignalMatch(b, start, end, p) ==
    ManchesterGap(b, ManchesterFooter(b, WordMatch(b, start, end, p), p, p.rfootermark),
                  end, p, p.rgap, p.exactgap[1])
Least(p) == p.width + Entry(p.hdrmark) + Entry(p.hdrspace) + Entry(p.rfootermark)

OneSignal(d, r, end, k, p) ==
    /\ end - k >= Least(p) /\ r.ok => d.ok /\ d.data = <<<<r.data>>>>
    /\ d.ok => end - k >= Least(p) /\ r.ok

LEMMA OneSignalMatched ==
    ASSUME NEW p, p.words = << 1 >>, p.coding = "manchester", p.width \in Nat, NEW b, NEW end \in Nat,
           ~(end < p.shortest), NEW k \in Nat, IsRead(matchLead(b, p), <<>>, k)
    PROVE  \E start : /\ Fresh(start, k)
                      /\ IsMatch(SignalMatch(b, start, end, p)) =>
                           OneSignal(matchMessage(b, end, p), SignalMatch(b, start, end, p), end, k, p)
<1> DEFINE d == matchMessage(b, end, p)
           lead == matchLead(b, p)
           bare == [lead EXCEPT !.data = <<>>]
           start == [bare EXCEPT !.data = <<>>, !.bank = 0, !.nr = 0, !.bit = 0]
           r == SignalMatch(b, start, end, p)
           s == matchManchester(b, bare, end, p, p.width, p.rfootermark, p.rgap, p.exactgap[1])
<1>1. d = Joined(lead, matchSection(b, bare, end, p, 1))
  <2>1. PICK upto : SectionBySection(upto, b, end, p)
    <3>1. Len(p.words) \in Nat
        OBVIOUS
    <3> QED
        BY <3>1, MessageSteps
  <2>2. d = upto[1] /\ upto[0] = lead /\ upto[1] = SectionAfter(b, upto[1 - 1], end, p, 1)
      BY <2>1 DEF SectionBySection
  <2>3. 1 - 1 = 0
      OBVIOUS
  <2> HIDE DEF d
  <2> QED
      BY <2>2, <2>3 DEF SectionAfter
<1>2. lead.ok = TRUE /\ IsMatch(lead) /\ lead.data = <<>> /\ lead.next = k
    BY DEF IsRead, IsMatch
<1> HIDE DEF lead, d
<1>3. bare = lead /\ bare.ok = TRUE /\ bare.next = k /\ bare.data = <<>> /\ IsMatch(bare)
    BY <1>2 DEF IsMatch
<1> HIDE DEF bare
<1>4. matchSection(b, bare, end, p, 1) = s
    BY <1>3 DEF matchSection
<1>5. Fresh(start, k)
    BY <1>3 DEF Fresh, Fields, IsMatch
<1> DEFINE need == p.width + Entry(p.hdrmark) + Entry(p.hdrspace) + Entry(p.rfootermark)
<1>6. s = IF ~Enough(bare, end, need) THEN Failed(bare) ELSE Joined(bare, r)
    BY DEF matchManchester, SignalMatch, WordMatch, FrontMatch
<1>7. Enough(bare, end, need) <=> end - k >= Least(p)
    BY <1>3 DEF Enough, Least
<1> HIDE DEF s, r, need
<1>8. ASSUME IsMatch(r) PROVE OneSignal(d, r, end, k, p)
  <2> DEFINE more == end - k >= Least(p)
             once == [r EXCEPT !.data = Append(<<>>, @)]
             twice == [once EXCEPT !.data = Append(<<>>, @)]
  <2>1. more /\ r.ok => s = once /\ once.ok /\ once.data = <<r.data>>
      BY <1>3, <1>6, <1>7, <1>8 DEF Joined, IsMatch
  <2>2. ~(more /\ r.ok) => ~s.ok
      BY <1>3, <1>6, <1>7 DEF Joined, Failed, IsMatch
  <2>4. ~s.ok => ~d.ok
      BY <1>1, <1>2, <1>4 DEF Joined, Failed, IsMatch
  <2>3. IsMatch(once) /\ once.data = <<r.data>>
      BY <1>8 DEF IsMatch
  <2> HIDE DEF once
  <2>7. twice.ok = once.ok /\ twice.data = <<once.data>>
      BY <2>3 DEF IsMatch
  <2>8. s.ok /\ s = once => d = twice
      BY <1>1, <1>2, <1>4 DEF Joined
  <2> HIDE DEF twice, more
  <2>5. more /\ r.ok => d.ok /\ d.data = <<<<r.data>>>>
      BY <2>1, <2>3, <2>7, <2>8
  <2>6. d.ok => more /\ r.ok
      BY <2>2, <2>4
  <2> QED
      BY <2>5, <2>6 DEF OneSignal, more
<1> HIDE DEF start
<1> QED
    BY <1>5, <1>8 DEF d, r

-----------------------------------------------------------------------------
(* A receiver that sees the intervals of a message, as many as there are,  *)
(* sees its word.                                                          *)
LEMMA PartSeen ==
    ASSUME Jitter <= 100, NEW part \in Part, NEW x, Sees(x, part)
    PROVE  Near(x, part.usec)
<1>1. Jitter \in Nat /\ part.usec \in Nat /\ part.on \in BOOLEAN
    BY CodecAssumption DEF Part, Times
<1> QED
    BY <1>1 DEF Sees, Near

LastLasts(part, p) == part.usec = p.half \/ part.usec >= 4 * p.half

Follows(a, f, p) ==
    /\ a \in Seq(Part) /\ Len(a) >= Len(f) /\ \A k \in 1 .. Len(f) - 1 : a[k] = f[k]
    /\ LastLasts(a[Len(f)], p)
WordShown(b, end, at, word, a, last, p) ==
    /\ Laying(at, word, p.width) /\ Shown(b, end, at, word, p) /\ at[p.width] = last
    /\ last <= end => (Near(b[last - 1], p.half) <=> a[last].usec = p.half)

LEMMA ShownWord ==
    ASSUME Jitter <= 100, NEW p, Clocked(p), p.width \in Nat \ {0}, NEW word, NEW at,
           NEW f \in Seq(Part), Placed(at, word, f, p), NEW a, Follows(a, f, p),
           NEW b, NEW end \in Nat, SeesAll(b, end, a)
    PROVE  WordShown(b, end, at, word, a, Len(f), p)
<1> USE DEF Follows, WordShown
<1> DEFINE n == p.width
           t == p.half
           base == HeaderEnd(p)
           last == Len(f)
<1>1. /\ at \in [0 .. n -> Nat] /\ at[n] = last /\ last \in Nat /\ last # 0
      /\ (\A i \in 0 .. n - 1 : LiesAt(f, at, word, t, base, i))
      /\ (\A i \in 1 .. n : StandsAlone(f, at, word, t, i))
      /\ (\A i \in 1 .. n : at[i] = at[i - 1] + IF Together(word, i) THEN 1 ELSE 2)
    BY DEF Placed, Lies
<1>2. t \in {320, 950}
    BY DEF Clocked
<1>3. Len(a) \in Nat /\ (\A j \in 1 .. Len(a) : a[j] \in Part) /\ n \in Nat \ {0}
    OBVIOUS
<1> HIDE DEF n, t, base, last
<1>4. ASSUME NEW j \in 1 .. last, j <= end
      PROVE  Near(b[j - 1], a[j].usec)
  <2>1. j \in 1 .. Len(a)
      BY <1>1, <1>3 DEF last
  <2>2. Sees(b[j - 1], a[j])
      BY <1>4, <2>1 DEF SeesAll
  <2> QED
      BY <1>3, <2>1, <2>2, PartSeen
<1>5. ASSUME NEW i \in 1 .. n - 1, at[i] <= end
      PROVE  Near(b[at[i] - 1], IF Together(word, i + 1) THEN 2 * t ELSE t)
  <2> DEFINE j == at[i]
             u == IF Together(word, i + 1) THEN 2 * t ELSE t
  <2>1. i \in 0 .. n - 1 /\ i # 0
      BY <1>3
  <2>2. LiesAt(f, at, word, t, base, i)
      BY <1>1, <2>1
  <2>3. j \in 1 .. last - 1 /\ f[j].usec = Alone(i, t, base) + IF Together(word, i + 1) THEN t ELSE 0
      BY <2>2 DEF LiesAt, last
  <2>4. f[j].usec = u
      BY <1>2, <2>1, <2>3 DEF Alone
  <2>5. a[j] = f[j]
      BY <2>3 DEF last
  <2>6. j \in 1 .. last
      BY <1>1, <2>3
  <2> HIDE DEF j, u
  <2>7. Near(b[j - 1], u)
      BY <1>4, <1>5, <2>4, <2>5, <2>6 DEF j
  <2> QED
      BY <2>7 DEF j, u
<1>6. ASSUME NEW i \in 1 .. n, ~Together(word, i), at[i - 1] < end
      PROVE  Near(b[at[i - 1]], t)
  <2> DEFINE j == at[i - 1] + 1
  <2>1. StandsAlone(f, at, word, t, i)
      BY <1>1
  <2>2. j \in 1 .. last - 1 /\ f[j].usec = t
      BY <1>6, <2>1 DEF StandsAlone, last
  <2>3. i - 1 \in 0 .. n
      BY <1>3
  <2>4. at[i - 1] \in Nat
      BY <1>1, <2>3
  <2>5. j <= end /\ j - 1 = at[i - 1]
      BY <1>6, <2>4
  <2> HIDE DEF j
  <2>6. j \in 1 .. last /\ a[j] = f[j]
    <3>1. j \in 1 .. last
        BY <1>1, <2>2
    <3>2. a[j] = f[j]
        BY <2>2 DEF last
    <3> QED
        BY <3>1, <3>2
  <2>7. Near(b[j - 1], t)
      BY <1>4, <2>2, <2>5, <2>6
  <2> QED
      BY <2>5, <2>7
<1>7. ASSUME last <= end
      PROVE  /\ Near(b[last - 1], t) \/ Far(b[last - 1], p)
             /\ Near(b[last - 1], t) <=> a[last].usec = t
  <2> DEFINE x == b[last - 1]
             u == a[last].usec
  <2>1. last \in 1 .. last /\ last \in 1 .. Len(a)
      BY <1>1, <1>3 DEF last
  <2>2. Near(x, u)
      BY <1>4, <1>7, <2>1
  <2>3. u = t \/ u >= 4 * t
      BY DEF LastLasts, last, t
  <2>4. u \in Nat
      BY <1>3, <2>1 DEF Part, Times
  <2>5. t = p.half
      BY DEF t
  <2> HIDE DEF x, u
  <2>6. u >= 4 * t => Far(x, p) /\ ~Near(x, t) /\ u # t
      BY <1>2, <2>2, <2>4, <2>5 DEF Near, Far
  <2> QED
      BY <2>2, <2>3, <2>6 DEF x, u
<1>8. Laying(at, word, n)
    BY <1>1 DEF Laying
<1>9. Shown(b, end, at, word, p)
    BY <1>1, <1>5, <1>6, <1>7 DEF Shown, n, t
<1> QED
    BY <1>1, <1>7, <1>8, <1>9 DEF n, t, last

(* The header as it is heard, with the first half of a one in its last     *)
(* interval.                                                               *)
LEMMA HeaderPlaced ==
    ASSUME NEW p, OneHalved(p), NEW word, NEW at, NEW f \in Seq(Part), Placed(at, word, f, p),
           Grown(f, Preamble(p)), FrontHeard(Preamble(p), p)
    PROVE  LET k == FrontLen(p)
           IN  /\ k \in 1 .. Len(f) - 1 /\ at[0] = k
               /\ \A j \in 1 .. k - 1 : f[j] = Preamble(p)[j]
               /\ f[k] = Lasting(p.thomas, HeaderEnd(p) + IF word[1] = 1 THEN p.half ELSE 0)
<1> DEFINE k == FrontLen(p)
           s == Preamble(p)
           base == HeaderEnd(p)
           usec == base + IF word[1] = 1 THEN p.half ELSE 0
<1>1. 0 \in 0 .. p.width - 1 /\ 0 + 1 = 1
    BY DEF OneHalved, Halved
<1>2. LiesAt(f, at, word, p.half, base, 0)
    BY <1>1 DEF Placed, Lies
<1>3. at[0] = k /\ k \in 1 .. Len(f) - 1 /\ f[k].usec = usec
    BY <1>1, <1>2 DEF Placed, LiesAt, Alone, Together
<1>4. /\ Len(s) = k /\ s[k] = Lasting(p.thomas, base) /\ (\A j \in 1 .. k - 1 : f[j] = s[j])
      /\ f[k].on = s[k].on
    BY DEF FrontHeard, Grown
<1>5. f[k] \in Part /\ s[k].on = p.thomas
    BY <1>3, <1>4 DEF Lasting
<1> HIDE DEF k, s, usec
<1>6. f[k] = Lasting(p.thomas, usec)
    BY <1>3, <1>4, <1>5 DEF Part, Lasting
<1> QED
    BY <1>3, <1>4, <1>6 DEF k, s, usec

-----------------------------------------------------------------------------
(* The footer, and the gap behind it.                                      *)
LEMMA NoMarkInNothing ==
    ASSUME NEW p, Clocked(p), NEW t \in Nat, t >= 1000
    PROVE  ~matchMark(0, t, p)
<1> DEFINE u == t + p.excess
           low == (u * (100 - p.tolerance)) \div 100 - 0
<1>1. low \in Int /\ low > 0
    BY DEF Clocked
<1>2. ticksLow(u, p.tolerance, 0) = low
  <2>1. ticksLow(u, p.tolerance, 0) = Max({0, low})
      BY DEF ticksLow
  <2>2. low >= 0
      BY <1>1
  <2> HIDE DEF low, u
  <2> QED
      BY <1>1, <2>1, <2>2, LowOf
<1>3. kRawTick * 0 = 0
    BY DEF kRawTick
<1> HIDE DEF low, u
<1> QED
    BY <1>1, <1>2, <1>3 DEF matchMark, match, u

Stepped(m, like) == [m EXCEPT !.next = @ + 1, !.ok = like]

LEMMA StepKeeps ==
    ASSUME NEW m, IsMatch(m), NEW like \in BOOLEAN
    PROVE  LET g == Stepped(m, like)
           IN  IsMatch(g) /\ g.data = m.data /\ g.next = m.next + 1 /\ (g.ok <=> like)
<1>1. m.next \in Nat /\ m.next + 1 \in Nat
    BY DEF IsMatch
<1> QED
    BY <1>1 DEF IsMatch, Stepped

LEMMA GapKeeps ==
    ASSUME NEW m, IsMatch(m), NEW b, NEW end, NEW gap, NEW p, NEW exact
    PROVE  LET r == TakeGap(b, m, end, gap, p, exact)
           IN  IsMatch(r) /\ r.data = m.data /\ (r.ok => m.ok)
<1> DEFINE like == IF exact THEN matchSpace(b[m.next], gap, p) ELSE matchAtLeast(b[m.next], gap, p)
           r == TakeGap(b, m, end, gap, p, exact)
<1>1. like \in BOOLEAN
    BY DEF matchSpace, matchAtLeast, match
<1>2. m.next \in Nat /\ m.next + 1 \in Nat
    BY DEF IsMatch
<1>3. r = IF gap = 0 \/ ~m.ok \/ m.next >= end THEN m
          ELSE [m EXCEPT !.next = @ + 1, !.ok = like]
    BY DEF TakeGap
<1> HIDE DEF like, r
<1>4. CASE gap = 0 \/ ~m.ok \/ m.next >= end
    BY <1>3, <1>4 DEF r
<1>5. CASE ~(gap = 0 \/ ~m.ok \/ m.next >= end)
  <2>1. r = [m EXCEPT !.next = @ + 1, !.ok = like]
      BY <1>3, <1>5
  <2>2. IsMatch(r) /\ r.data = m.data
      BY <1>1, <1>2, <2>1 DEF IsMatch
  <2> QED
      BY <1>5, <2>2 DEF r
<1> QED
    BY <1>4, <1>5

FooterFound(r, b, end, foot, word) ==
    /\ IsMatch(r)
    /\ r.ok /\ b[end] = 0 => r.data = word
    /\ foot <= end => r.ok /\ r.data = word

LEMMA FooterRead ==
    ASSUME Jitter <= 100, NEW p, Clocked(p), p.exactgap[1] = FALSE,
           p.rfootermark \in Nat, p.rfootermark >= 1000, p.rgap \in Nat, p.rgap >= 1000,
           NEW b, NEW end \in Nat, NEW word, NEW last \in Nat \ {0}, NEW g,
           WordFound(g, b, end, last, word, p),
           NEW foot, foot = last + (IF word[p.width] = 1 THEN 0 ELSE 1),
           last <= end => (Near(b[last - 1], p.half) <=> word[p.width] # 1),
           foot <= end =>
             Sees(b[foot - 1], Lit(p.rfootermark + IF word[p.width] = 1 THEN p.half ELSE 0)),
           foot < end => \E t \in Nat : t >= p.rgap /\ Sees(b[foot], Dark(t))
    PROVE  FooterFound(ManchesterGap(b, ManchesterFooter(b, g, p, p.rfootermark), end, p,
                                     p.rgap, p.exactgap[1]), b, end, foot, word)
<1> USE DEF FooterFound
<1> DEFINE mk == p.rfootermark
           long == mk + p.half
           gap == p.rgap
           exact == p.exactgap[1]
           x == b[g.next]
           like == \/ mk = 0
                   \/ matchMark(x, long, p)
                   \/ matchMark(x, mk, p)
           m == ManchesterFooter(b, g, p, mk)
           r == TakeGap(b, m, end, gap, p, exact)
           all == ManchesterGap(b, m, end, p, gap, exact)
<1>1. m = IF ~g.ok THEN g ELSE [g EXCEPT !.next = @ + 1, !.ok = like]
    BY DEF ManchesterFooter
<1>2. mk \in Nat /\ mk >= 1000 /\ mk # 0 /\ gap \in Nat /\ gap >= 1000 /\ gap # 0
      /\ long \in Nat /\ long >= 1000 /\ Tuned(p) /\ ~exact
    BY ClockedTuned DEF Clocked
<1>3. IsMatch(g)
    BY DEF WordFound, Ended, Fields
<1>4. like \in BOOLEAN /\ (like <=> matchMark(x, long, p) \/ matchMark(x, mk, p))
    BY <1>2 DEF matchMark, match
<1> HIDE DEF mk, long, gap, m, x, like, exact
<1>5. all = r
    BY <1>2 DEF ManchesterGap
<1>6. IsMatch(m) /\ m.data = g.data /\ (m.ok => g.ok /\ like) /\ (g.ok => m.next = g.next + 1 /\ (m.ok <=> like))
  <2>1. g.next \in Nat /\ g.next + 1 \in Nat
      BY <1>3 DEF IsMatch
  <2>2. CASE g.ok
    <3>1. m = Stepped(g, like)
        BY <1>1, <2>2 DEF Stepped
    <3>2. IsMatch(m) /\ m.data = g.data /\ m.next = g.next + 1 /\ (m.ok <=> like)
        BY <1>3, <1>4, <3>1, StepKeeps
    <3> QED
        BY <2>2, <3>2
  <2>3. CASE ~g.ok
    <3>1. m = g
        BY <1>1, <2>3
    <3> QED
        BY <1>3, <2>3, <3>1
  <2> QED
      BY <2>2, <2>3
<1>7. IsMatch(r) /\ r.data = m.data /\ (r.ok => m.ok)
    BY <1>6, GapKeeps
<1>8. CASE last > end + 1
  <2>1. Ended(g, end)
      BY <1>8 DEF WordFound
  <2>2. ~(foot <= end)
      BY <1>8
  <2>3. ~(r.ok /\ b[end] = 0)
    <3> SUFFICES ASSUME r.ok, b[end] = 0 PROVE FALSE
        OBVIOUS
    <3>1. like /\ g.ok
        BY <1>6, <1>7
    <3>2. x = 0
        BY <2>1, <3>1 DEF Ended, x
    <3>3. ~matchMark(0, long, p) /\ ~matchMark(0, mk, p)
        BY <1>2, NoMarkInNothing
    <3> QED
        BY <1>4, <3>1, <3>2, <3>3
  <2> HIDE DEF r, all
  <2> QED
      BY <1>5, <1>7, <2>2, <2>3 DEF all, m, mk, gap, exact
<1>9. CASE last <= end + 1
  <2> DEFINE to == IF last <= end /\ Near(b[last - 1], p.half) THEN last ELSE last - 1
  <2>1. g.ok = TRUE /\ g.next = to /\ g.data = word
      BY <1>9 DEF WordFound, Fields
  <2>2. r.data = word
      BY <1>6, <1>7, <2>1
  <2>3. ASSUME foot <= end PROVE r.ok
    <3>1. to = foot - 1 /\ foot \in Nat /\ foot - 1 \in Nat
      <4>1. CASE word[p.width] = 1
          BY <2>3, <4>1
      <4>2. CASE word[p.width] # 1
          BY <2>3, <4>2
      <4> QED
          BY <4>1, <4>2
    <3> HIDE DEF to
    <3>2. like
      <4>1. x = b[foot - 1]
          BY <2>1, <3>1 DEF x
      <4>2. CASE word[p.width] = 1
        <5>1. Sees(x, Lit(long))
            BY <2>3, <4>1, <4>2 DEF long, mk
        <5>2. matchMark(x, long, p)
            BY <1>2, <5>1, MarkSeen
        <5> QED
            BY <1>4, <5>2
      <4>3. CASE word[p.width] # 1
        <5>1. Sees(x, Lit(mk))
          <6>1. Sees(x, Lit(mk + 0))
              BY <2>3, <4>1, <4>3 DEF mk
          <6>2. mk + 0 = mk
              BY <1>2
          <6> QED
              BY <6>1, <6>2
        <5>2. matchMark(x, mk, p)
            BY <1>2, <5>1, MarkSeen
        <5> QED
            BY <1>4, <5>2
      <4> QED
          BY <4>2, <4>3
    <3>3. m.ok /\ m.next = foot
      <4>1. m.ok /\ m.next = to + 1
          BY <1>6, <2>1, <3>2
      <4> QED
          BY <3>1, <4>1
    <3>4. CASE foot >= end
      <4>1. r = m
          BY <3>3, <3>4 DEF TakeGap
      <4> QED
          BY <3>3, <4>1
    <3>5. CASE ~(foot >= end)
      <4>1. foot < end
          BY <3>1, <3>5
      <4>2. PICK t \in Nat : t >= gap /\ Sees(b[foot], Dark(t))
          BY <4>1 DEF gap
      <4>3. matchAtLeast(b[foot], gap, p)
          BY <1>2, <4>2, GapSeen
      <4> DEFINE good == IF exact THEN matchSpace(b[m.next], gap, p)
                                  ELSE matchAtLeast(b[m.next], gap, p)
      <4>4. r = Stepped(m, good)
          BY <1>2, <3>3, <3>5 DEF TakeGap, Stepped
      <4>5. good /\ good \in BOOLEAN
          BY <1>2, <3>3, <4>3 DEF matchSpace, matchAtLeast, match
      <4> HIDE DEF good, r
      <4>6. good \in BOOLEAN /\ IsMatch(m)
          BY <1>6, <4>5
      <4>7. Stepped(m, good).ok <=> good
          BY <4>6, StepKeeps
      <4> QED
          BY <4>4, <4>5, <4>7
    <3> QED
        BY <3>4, <3>5
  <2> HIDE DEF r, all
  <2> QED
      BY <1>5, <1>7, <2>2, <2>3 DEF all, m, mk, gap, exact
<1>10. last > end + 1 \/ last <= end + 1
    OBVIOUS
<1> QED
    BY <1>8, <1>9, <1>10

-----------------------------------------------------------------------------
(* AIRWELL: a message is read from its first sending and the header of the *)
(* second.                                                                 *)
Hailed(p) ==
    /\ Repeated(p) /\ FarTimes(p) /\ p.rthomas = FALSE /\ p.exactgap[1] = FALSE
    /\ p.rfootermark = p.hdrmark /\ p.rgap = p.hdrspace /\ p.shortest = p.width + 2

LEMMA HailedFacts ==
    ASSUME NEW p, Hailed(p)
    PROVE  /\ OneHalved(p) /\ Clocked(p) /\ p.width \in Nat \ {0, 1} /\ p.words = <<1>>
           /\ p.coding = "manchester" /\ p.msb = TRUE /\ p.lead = <<>>
           /\ FrontLen(p) = 2 /\ Least(p) = p.width + 3
           /\ p.half \in Nat /\ p.hdrmark \in Nat /\ p.hdrspace \in Nat
           /\ p.hdrmark >= 1000 /\ p.hdrspace >= 1000 /\ p.hdrmark + p.half >= 4 * p.half
           /\ p.half # p.hdrmark + p.half
<1>1. OneHalved(p) /\ Clocked(p) /\ p.lead = <<>>
    BY DEF Hailed, Repeated, FarTimes
<1>2. /\ p.width \in Nat \ {0, 1} /\ p.words = <<1>> /\ p.coding = "manchester" /\ p.msb = TRUE
    BY <1>1 DEF OneHalved, Halved
<1>3. p.half = 950 /\ p.hdrmark = 2850 /\ p.hdrspace = 2850
    BY DEF Hailed, FarTimes
<1>4. /\ p.half \in Nat /\ p.hdrmark \in Nat /\ p.hdrspace \in Nat
      /\ p.hdrmark >= 1000 /\ p.hdrspace >= 1000 /\ p.hdrmark + p.half >= 4 * p.half
      /\ p.half # p.hdrmark + p.half /\ p.hdrmark # 0 /\ p.hdrspace # 0 /\ p.rfootermark # 0
    BY <1>3 DEF Hailed
<1>5. Entry(p.hdrmark) = 1 /\ Entry(p.hdrspace) = 1 /\ Entry(p.rfootermark) = 1
    BY <1>4 DEF Entry
<1>6. LeadLen(p) = 0
    BY <1>1 DEF LeadLen
<1>7. FrontLen(p) = 2 /\ Least(p) = p.width + 3
    BY <1>2, <1>5, <1>6 DEF FrontLen, Least
<1> QED
    BY <1>1, <1>2, <1>4, <1>7

(* Every bit takes an interval at least, and no more only as long as each  *)
(* differs from the one before it.                                         *)
LEMMA LaysBehind ==
    ASSUME NEW n \in Nat, NEW word \in [1 .. n -> Bit], NEW at, Laying(at, word, n)
    PROVE  at[n] >= at[0] + n /\ (n # 0 /\ at[n] = at[0] + n => word[n] = n % 2)
<1> DEFINE OK(j) == at[j] >= at[0] + j /\ (j # 0 /\ at[j] = at[0] + j => word[j] = j % 2)
           T == {j \in 0 .. n : OK(j)}
<1>1. at[0] \in Nat /\ \A j \in 0 .. n : at[j] \in Nat
  <2>1. 0 \in 0 .. n
      OBVIOUS
  <2> QED
      BY <2>1 DEF Laying
<1>2. 0 \in T
  <2>1. OK(0)
      BY <1>1
  <2> QED
      BY <2>1
<1>3. ASSUME NEW i \in 0 .. n - 1, OK(i) PROVE OK(i + 1)
  <2> DEFINE j == i + 1
  <2>1. j \in 1 .. n /\ i \in 0 .. n /\ j \in 0 .. n /\ j - 1 = i /\ j # 0
      OBVIOUS
  <2>2. at[j] = at[i] + IF Together(word, j) THEN 1 ELSE 2
      BY <2>1 DEF Laying
  <2>3. at[0] \in Nat /\ at[i] \in Nat /\ at[j] \in Nat /\ word[j] \in Bit
      BY <1>1, <2>1
  <2>4. Together(word, j) => word[j] = IF i = 0 THEN 1 ELSE 1 - word[i]
    <3>1. i # 0 => i \in 1 .. n /\ j # 1
        BY <2>1
    <3>2. i = 0 <=> j = 1
        BY <2>1
    <3>3. i # 0 => word[i] \in Bit
        BY <3>1
    <3> HIDE DEF j
    <3> QED
        BY <2>1, <2>3, <3>2, <3>3 DEF Together, Bit
  <2>5. at[j] >= at[0] + j
      BY <1>3, <2>2, <2>3
  <2>6. ASSUME at[j] = at[0] + j PROVE word[j] = j % 2
    <3>1. Together(word, j) /\ at[i] = at[0] + i
        BY <1>3, <2>2, <2>3, <2>6
    <3>2. CASE i = 0
        BY <2>4, <3>1, <3>2
    <3>3. CASE i # 0
      <4>1. word[i] = i % 2 /\ word[j] = 1 - word[i]
          BY <1>3, <2>4, <3>1, <3>3
      <4>2. (i + 1) % 2 = 1 - (i % 2)
          OBVIOUS
      <4> QED
          BY <4>1, <4>2
    <3> QED
        BY <3>2, <3>3
  <2> QED
      BY <2>5, <2>6
<1> HIDE DEF OK
<1>4. \A i \in 0 .. n - 1 : i \in T => i + 1 \in T
  <2> SUFFICES ASSUME NEW i \in 0 .. n - 1, i \in T PROVE i + 1 \in T
      OBVIOUS
  <2>1. OK(i) /\ i + 1 \in 0 .. n
      OBVIOUS
  <2> QED
      BY <1>3, <2>1
<1>5. 0 .. n \subseteq T
  <2> HIDE DEF T
  <2> QED
      BY <1>2, <1>4, UpTo
<1>6. n \in 0 .. n
    OBVIOUS
<1> QED
    BY <1>5, <1>6 DEF OK

LEMMA FarRead ==
    ASSUME Jitter <= 100, NEW p, Hailed(p), NEW word \in [1 .. p.width -> Bit],
           NEW f \in Seq(Part), NEW at, Placed(at, word, f, p),
           Grown(f, Preamble(p)), FrontHeard(Preamble(p), p),
           NEW a, EndsInHeader(a, f, Len(f), word, p),
           NEW b, NEW end \in Nat, SeesAll(b, end, a)
    PROVE  LET d == matchMessage(b, end, p)
           IN  /\ d.ok /\ b[end] = 0 => d.data = <<<<word>>>>
               /\ end >= Len(f) + 1 => d.ok /\ d.data = <<<<word>>>>
<1> DEFINE n == p.width
           last == Len(f)
           foot == last + IF word[p.width] = 1 THEN 0 ELSE 1
           d == matchMessage(b, end, p)
<1>1. /\ OneHalved(p) /\ Clocked(p) /\ n \in Nat \ {0, 1} /\ p.words = <<1>>
      /\ p.coding = "manchester" /\ p.msb = TRUE /\ p.lead = <<>>
      /\ FrontLen(p) = 2 /\ Least(p) = n + 3
      /\ p.half \in Nat /\ p.hdrmark \in Nat /\ p.hdrspace \in Nat
      /\ p.hdrmark >= 1000 /\ p.hdrspace >= 1000 /\ p.hdrmark + p.half >= 4 * p.half
      /\ p.half # p.hdrmark + p.half
    BY HailedFacts
<1>2. /\ FarTimes(p) /\ p.rthomas = FALSE /\ p.exactgap[1] = FALSE
      /\ p.rfootermark = p.hdrmark /\ p.rgap = p.hdrspace /\ p.shortest = n + 2
      /\ p.thomas = FALSE
    BY DEF Hailed, Repeated
<1>3. /\ 2 \in 1 .. last - 1 /\ at[0] = 2
      /\ f[1] = Preamble(p)[1]
      /\ f[2] = Lasting(p.thomas, HeaderEnd(p) + IF word[1] = 1 THEN p.half ELSE 0)
  <2>1. LET k == FrontLen(p)
        IN  /\ k \in 1 .. last - 1 /\ at[0] = k
            /\ \A j \in 1 .. k - 1 : f[j] = Preamble(p)[j]
            /\ f[k] = Lasting(p.thomas, HeaderEnd(p) + IF word[1] = 1 THEN p.half ELSE 0)
    <3> HIDE DEF last
    <3> QED
        BY <1>1, HeaderPlaced DEF last
  <2>2. FrontLen(p) = 2 /\ 1 \in 1 .. 2 - 1
      BY <1>1
  <2> HIDE DEF last
  <2> QED
      BY <2>1, <2>2
<1>4. f[1] = Lit(p.hdrmark) /\ f[2] = Dark(p.hdrspace + IF word[1] = 1 THEN p.half ELSE 0)
  <2>1. f[1] = Lit(p.hdrmark)
    <3>1. LeadLen(p) + 1 = 1
        BY <1>1 DEF LeadLen
    <3> QED
        BY <1>3, <3>1 DEF FrontHeard
  <2>2. HeaderEnd(p) = p.hdrspace
      BY <1>1 DEF HeaderEnd
  <2> QED
      BY <1>2, <1>3, <2>1, <2>2 DEF Lasting, Dark
<1>5. /\ a \in Seq(Part) /\ Len(a) >= foot + 1 /\ \A k \in 1 .. last - 1 : a[k] = f[k]
      /\ word[n] # 1 => a[last] = Dark(p.half)
      /\ a[foot] = Lit(p.hdrmark + IF word[n] = 1 THEN p.half ELSE 0)
      /\ a[foot + 1] = Dark(p.hdrspace + IF word[1] = 1 THEN p.half ELSE 0)
    BY DEF EndsInHeader
<1>6. last \in Nat /\ foot \in Nat /\ Len(a) \in Nat /\ foot >= last /\ foot <= last + 1
      /\ last >= 3 /\ word[1] \in Bit /\ word[n] \in Bit
  <2>1. last \in Nat /\ Len(a) \in Nat /\ last >= 3
    <3>1. Len(f) \in Nat /\ Len(a) \in Nat
        BY <1>5
    <3> QED
        BY <1>3, <3>1
  <2>2. 1 \in 1 .. n /\ n \in 1 .. n
      BY <1>1
  <2>3. word[1] \in Bit /\ word[n] \in Bit
      BY <2>2
  <2> HIDE DEF last
  <2> QED
      BY <2>1, <2>3
<1>7. /\ Laying(at, word, n) /\ Shown(b, end, at, word, p) /\ at[n] = last
      /\ last <= end => (Near(b[last - 1], p.half) <=> word[n] # 1)
  <2>1. LastLasts(a[last], p) /\ (a[last].usec = p.half <=> word[n] # 1)
    <3>1. CASE word[n] = 1
      <4>1. a[last] = Lit(p.hdrmark + p.half)
          BY <1>5, <1>6, <3>1
      <4>2. a[last].usec = p.hdrmark + p.half
          BY <4>1 DEF Lit
      <4> QED
          BY <1>1, <3>1, <4>2 DEF LastLasts
    <3>2. CASE word[n] # 1
      <4>1. a[last].usec = p.half
          BY <1>5, <3>2 DEF Dark
      <4> QED
          BY <3>2, <4>1 DEF LastLasts
    <3> QED
        BY <3>1, <3>2
  <2>2. Follows(a, f, p) /\ n \in Nat \ {0}
      BY <1>1, <1>5, <1>6, <2>1 DEF Follows
  <2>3. WordShown(b, end, at, word, a, last, p)
      BY <1>1, <2>2, ShownWord
  <2> HIDE DEF last
  <2> QED
      BY <2>1, <2>3 DEF WordShown
<1>8. ASSUME end < p.shortest PROVE ~d.ok /\ ~(end >= last + 1)
  <2>1. d = Failed(From(0))
      BY <1>8 DEF matchMessage
  <2> HIDE DEF d
  <2>2. ~d.ok
      BY <2>1 DEF Failed, From
  <2>3. last >= n + 2
    <3>1. at[n] >= at[0] + n
      <4>1. n \in Nat
          BY <1>1
      <4> QED
          BY <1>7, <4>1, LaysBehind
    <3> QED
        BY <1>1, <1>3, <1>6, <1>7, <3>1
  <2> HIDE DEF last
  <2> QED
      BY <1>1, <1>2, <1>6, <1>8, <2>2, <2>3
<1>9. ASSUME ~(end < p.shortest)
      PROVE  /\ d.ok /\ b[end] = 0 => d.data = <<<<word>>>>
             /\ end >= last + 1 => d.ok /\ d.data = <<<<word>>>>
  <2>1. end >= n + 2
      BY <1>1, <1>2, <1>9
  <2>2. Sees(b[0], a[1]) /\ Sees(b[1], a[2])
    <3>1. 1 \in 1 .. Len(a) /\ 2 \in 1 .. Len(a) /\ 1 <= end /\ 2 <= end
      <4> HIDE DEF foot, last
      <4>1. Len(a) >= foot + 1
          BY <1>5
      <4>2. Len(a) \in Nat /\ foot \in Nat /\ foot >= 3
          BY <1>6
      <4>3. n >= 2 /\ n \in Nat
          BY <1>1
      <4> HIDE DEF n
      <4> QED
          BY <2>1, <4>1, <4>2, <4>3
    <3>2. 1 - 1 = 0 /\ 2 - 1 = 1
        OBVIOUS
    <3> QED
        BY <3>1, <3>2 DEF SeesAll
  <2>3. /\ Sees(b[0], Lit(p.hdrmark))
        /\ Sees(b[1], Dark(p.hdrspace + IF word[1] = 1 THEN p.half ELSE 0))
    <3>1. 1 \in 1 .. last - 1 /\ 2 \in 1 .. last - 1
        BY <1>6
    <3>2. a[1] = f[1] /\ a[2] = f[2]
        BY <1>5, <3>1
    <3> QED
        BY <1>4, <2>2, <3>2
  <2>4. IsRead(matchLead(b, p), <<>>, 0)
      BY <1>1 DEF matchLead, From, IsRead, IsMatch
  <2>5. PICK start : /\ Fresh(start, 0)
                     /\ IsMatch(SignalMatch(b, start, end, p)) =>
                          OneSignal(d, SignalMatch(b, start, end, p), end, 0, p)
    <3>1. p.width \in Nat /\ 0 \in Nat
        BY <1>1
    <3> QED
        BY <1>1, <1>9, <2>4, <3>1, OneSignalMatched
  <2> DEFINE h == FrontMatch(b, start, p)
             g == WordMatch(b, start, end, p)
             r == SignalMatch(b, start, end, p)
  <2>6. HeaderFound(h, 2, word[1], p)
      BY <1>2, <2>3, <2>5, FarHeader DEF FrontMatch
  <2> HIDE DEF h, d
  <2>7. Ran(ManchesterStart(h, p), 0, at, word, p) /\ h.ok = TRUE /\ h.next = 2
    <3>1. at[0] \in Nat /\ p.rthomas = FALSE /\ word[1] \in Bit
        BY <1>2, <1>3, <1>6
    <3>2. HeaderFound(h, at[0], word[1], p)
        BY <1>3, <2>6
    <3>3. Ran(ManchesterStart(h, p), 0, at, word, p) /\ h.ok = TRUE /\ h.next = at[0]
        BY <3>1, <3>2, StartRan
    <3> QED
        BY <1>3, <3>3
  <2>8. WordFound(g, b, end, last, word, p)
    <3>1. RanOrEnded(ManchesterStart(h, p), 0, end, at, word, p)
        BY <1>1, <1>3, <2>1, <2>7 DEF RanOrEnded
    <3>2. Enough(h, end, n)
        BY <1>1, <2>1, <2>7 DEF Enough
    <3>3. n \in Nat \ {0}
        BY <1>1
    <3>4. WordFound(matchManchesterData(b, h, end, p, n), b, end, at[n], word, p)
        BY <1>1, <1>7, <2>7, <3>1, <3>2, <3>3, WordRan
    <3> QED
        BY <1>7, <3>4 DEF WordMatch, h
  <2>9. /\ IsMatch(r)
        /\ r.ok /\ b[end] = 0 => r.data = word
        /\ foot <= end => r.ok /\ r.data = word
    <3>1. foot <= end =>
            Sees(b[foot - 1], Lit(p.rfootermark + IF word[n] = 1 THEN p.half ELSE 0))
      <4>1. foot \in 1 .. Len(a)
          BY <1>5, <1>6
      <4> HIDE DEF foot
      <4> QED
          BY <1>2, <1>5, <4>1 DEF SeesAll
    <3>2. foot < end => \E t \in Nat : t >= p.rgap /\ Sees(b[foot], Dark(t))
      <4> DEFINE t == p.hdrspace + IF word[1] = 1 THEN p.half ELSE 0
                 next == foot + 1
      <4>1. next \in 1 .. Len(a) /\ next - 1 = foot /\ (foot < end => next <= end)
          BY <1>5, <1>6
      <4>2. t \in Nat /\ t >= p.rgap
          BY <1>1, <1>2
      <4>3. a[next] = Dark(t)
          BY <1>5
      <4> HIDE DEF foot, next, t
      <4>4. foot < end => Sees(b[foot], Dark(t))
          BY <4>1, <4>3 DEF SeesAll
      <4> QED
          BY <4>2, <4>4
    <3>3. /\ p.rfootermark \in Nat /\ p.rfootermark >= 1000 /\ p.rgap \in Nat /\ p.rgap >= 1000
          /\ last \in Nat \ {0} /\ Clocked(p) /\ p.exactgap[1] = FALSE
        BY <1>1, <1>2, <1>6
    <3>4. foot = last + (IF word[n] = 1 THEN 0 ELSE 1)
        OBVIOUS
    <3> HIDE DEF g, last, foot
    <3>5. FooterFound(ManchesterGap(b, ManchesterFooter(b, g, p, p.rfootermark), end, p,
                                    p.rgap, p.exactgap[1]), b, end, foot, word)
        BY <1>7, <2>8, <3>1, <3>2, <3>3, <3>4, FooterRead
    <3> QED
        BY <3>5 DEF g, SignalMatch, FooterFound
  <2> HIDE DEF r
  <2>10. /\ end - 0 >= Least(p) /\ r.ok => d.ok /\ d.data = <<<<r.data>>>>
         /\ d.ok => end - 0 >= Least(p) /\ r.ok
      BY <2>5, <2>9 DEF OneSignal, r
  <2>11. d.ok => d.data = <<<<r.data>>>> /\ r.ok
      BY <2>10
  <2>12. ASSUME end >= last + 1 PROVE d.ok /\ d.data = <<<<word>>>>
    <3>1. last >= n + 2
      <4>1. n \in Nat
          BY <1>1
      <4>2. at[n] >= at[0] + n
          BY <1>7, <4>1, LaysBehind
      <4> HIDE DEF last
      <4> QED
          BY <1>1, <1>3, <1>7, <4>2
    <3>2. end - 0 >= Least(p) /\ foot <= end
      <4> HIDE DEF last, foot
      <4> QED
          BY <1>1, <1>6, <2>12, <3>1
    <3> HIDE DEF foot, last
    <3> QED
        BY <2>9, <2>10, <3>2
  <2> QED
      BY <2>9, <2>11, <2>12
<1> HIDE DEF d, last
<1> QED
    BY <1>8, <1>9 DEF d, last

-----------------------------------------------------------------------------
(* ARRIS: a message is sent once, behind a lead, and read without its gap. *)
Led(p) ==
    /\ Gapped(p) /\ CloseTimes(p) /\ p.rthomas = FALSE /\ p.exactgap[1] \in BOOLEAN
    /\ p.rfootermark = 0 /\ p.rgap = 0 /\ p.shortest = p.width
    /\ p.lead # <<>> /\ Leads(p) /\ p.gaps[1] >= 4 * p.half

LEMMA LedFacts ==
    ASSUME NEW p, Led(p)
    PROVE  /\ OneHalved(p) /\ Clocked(p) /\ p.width \in Nat \ {0, 1} /\ p.words = <<1>>
           /\ p.coding = "manchester" /\ p.msb = TRUE
           /\ LeadLen(p) = 2 /\ FrontLen(p) = 3 /\ Least(p) = p.width + 1
           /\ p.half \in Nat /\ p.hdrmark \in Nat /\ p.gaps[1] \in Nat
           /\ p.half # 0 /\ HeaderEnd(p) = p.hdrmark
<1>1. OneHalved(p) /\ Clocked(p) /\ p.lead # <<>>
    BY DEF Led, Gapped, CloseTimes
<1>2. /\ p.width \in Nat \ {0, 1} /\ p.words = <<1>> /\ p.coding = "manchester" /\ p.msb = TRUE
    BY <1>1 DEF OneHalved, Halved
<1>3. p.half = 320 /\ p.hdrmark = 640 /\ p.hdrspace = 0
    BY DEF Led, CloseTimes
<1>4. p.half \in Nat /\ p.hdrmark \in Nat /\ p.half # 0 /\ p.hdrmark # 0
    BY <1>3
<1>5. Entry(p.hdrmark) = 1 /\ Entry(p.hdrspace) = 0 /\ Entry(p.rfootermark) = 0
    BY <1>3, <1>4 DEF Entry, Led
<1>6. LeadLen(p) = 2 /\ HeaderEnd(p) = p.hdrmark
    BY <1>1, <1>3 DEF LeadLen, HeaderEnd
<1>7. FrontLen(p) = 3 /\ Least(p) = p.width + 1
    BY <1>2, <1>5, <1>6 DEF FrontLen, Least
<1>8. p.gaps[1] \in Nat
    BY DEF Led, Gapped, Times
<1> QED
    BY <1>1, <1>2, <1>4, <1>6, <1>7, <1>8

(* No footer is asked for, and no gap.                                     *)
StaysRead(r, g) == IsMatch(r) /\ r.ok /\ r.data = g.data
LEMMA NoFooterRead ==
    ASSUME NEW p, NEW b, NEW end, NEW g, IsMatch(g), g.ok = TRUE, NEW exact
    PROVE  StaysRead(ManchesterGap(b, ManchesterFooter(b, g, p, 0), end, p, 0, exact), g)
<1> DEFINE foot == ManchesterFooter(b, g, p, 0)
           r == ManchesterGap(b, foot, end, p, 0, exact)
<1>1. foot = Stepped(g, TRUE)
    BY DEF ManchesterFooter, Stepped
<1>2. IsMatch(foot) /\ foot.data = g.data /\ foot.ok
    BY <1>1, StepKeeps
<1> HIDE DEF foot
<1>3. r = foot
    BY DEF ManchesterGap, TakeGap
<1> HIDE DEF r
<1> QED
    BY <1>2, <1>3 DEF foot, r, StaysRead

LEMMA CloseRead ==
    ASSUME Jitter <= 100, NEW p, Led(p), p.width % 2 = 0, NEW word \in [1 .. p.width -> Bit],
           NEW f \in Seq(Part), NEW at, Placed(at, word, f, p),
           Grown(f, Preamble(p)), FrontHeard(Preamble(p), p),
           NEW a, EndsInGap(a, f, Len(f), word[p.width], p),
           NEW b, NEW end \in Nat, SeesAll(b, end, a), end + 1 >= Len(a)
    PROVE  LET d == matchMessage(b, end, p) IN d.ok /\ d.data = <<<<word>>>>
<1> DEFINE n == p.width
           last == Len(f)
           d == matchMessage(b, end, p)
<1>1. /\ OneHalved(p) /\ Clocked(p) /\ n \in Nat \ {0, 1} /\ p.words = <<1>>
      /\ p.coding = "manchester" /\ p.msb = TRUE
      /\ LeadLen(p) = 2 /\ FrontLen(p) = 3 /\ Least(p) = n + 1
      /\ p.half \in Nat /\ p.hdrmark \in Nat /\ p.gaps[1] \in Nat
      /\ p.half # 0 /\ HeaderEnd(p) = p.hdrmark
    BY LedFacts
<1>2. /\ CloseTimes(p) /\ p.rthomas = FALSE /\ p.rfootermark = 0 /\ p.rgap = 0 /\ p.shortest = n
      /\ p.lead # <<>> /\ Leads(p) /\ p.gaps[1] >= 4 * p.half /\ p.thomas = TRUE
    BY DEF Led, Gapped
<1>3. /\ 3 \in 1 .. last - 1 /\ at[0] = 3
      /\ f[1] = Preamble(p)[1] /\ f[2] = Preamble(p)[2]
      /\ f[3] = Lasting(p.thomas, p.hdrmark + IF word[1] = 1 THEN p.half ELSE 0)
  <2>1. LET k == FrontLen(p)
        IN  /\ k \in 1 .. last - 1 /\ at[0] = k
            /\ \A j \in 1 .. k - 1 : f[j] = Preamble(p)[j]
            /\ f[k] = Lasting(p.thomas, HeaderEnd(p) + IF word[1] = 1 THEN p.half ELSE 0)
    <3> HIDE DEF last
    <3> QED
        BY <1>1, HeaderPlaced DEF last
  <2>2. FrontLen(p) = 3 /\ 1 \in 1 .. 3 - 1 /\ 2 \in 1 .. 3 - 1
      BY <1>1
  <2> HIDE DEF last
  <2> QED
      BY <1>1, <2>1, <2>2
<1>4. /\ f[1] = Lit(p.lead[1]) /\ f[2] = Dark(p.lead[2])
      /\ f[3] = Lit(p.hdrmark + IF word[1] = 1 THEN p.half ELSE 0)
  <2>1. f[1] = Lit(p.lead[1]) /\ f[2] = Dark(p.lead[2])
      BY <1>2, <1>3 DEF FrontHeard
  <2> QED
      BY <1>2, <1>3, <2>1 DEF Lasting, Lit
<1>5. /\ a \in Seq(Part) /\ \A k \in 1 .. last - 1 : a[k] = f[k]
      /\ word[n] = 1 => Len(a) = last /\ a[last] = Dark(p.half + p.gaps[1])
      /\ word[n] # 1 => Len(a) = last + 1 /\ a[last] = Lit(p.half)
    BY DEF EndsInGap
<1>6. last \in Nat /\ Len(a) \in Nat /\ Len(a) >= last /\ last >= 4 /\ word[1] \in Bit /\ word[n] \in Bit
  <2>1. last \in Nat /\ Len(a) \in Nat
      BY <1>5
  <2>2. 1 \in 1 .. n /\ n \in 1 .. n
      BY <1>1
  <2>3. word[1] \in Bit /\ word[n] \in Bit
      BY <2>2
  <2>4. Len(a) >= last
      BY <1>5, <2>1
  <2>5. last >= 4
      BY <1>3, <2>1
  <2> QED
      BY <2>1, <2>3, <2>4, <2>5
<1>7. /\ Laying(at, word, n) /\ Shown(b, end, at, word, p) /\ at[n] = last
  <2>1. LastLasts(a[last], p)
    <3>1. CASE word[n] = 1
      <4>1. a[last].usec = p.half + p.gaps[1]
          BY <1>5, <3>1 DEF Dark
      <4>2. p.half + p.gaps[1] >= 4 * p.half
        <5>1. p.half \in Nat /\ p.gaps[1] \in Nat
            BY <1>1
        <5>2. p.gaps[1] >= 4 * p.half
            BY <1>2
        <5> QED
            BY <5>1, <5>2
      <4> QED
          BY <4>1, <4>2 DEF LastLasts
    <3>2. CASE word[n] # 1
      <4>1. a[last].usec = p.half
          BY <1>5, <3>2 DEF Lit
      <4> QED
          BY <4>1 DEF LastLasts
    <3> QED
        BY <3>1, <3>2
  <2>2. Follows(a, f, p) /\ n \in Nat \ {0}
      BY <1>1, <1>5, <1>6, <2>1 DEF Follows
  <2>3. WordShown(b, end, at, word, a, last, p)
      BY <1>1, <2>2, ShownWord
  <2> HIDE DEF last
  <2> QED
      BY <2>3 DEF WordShown
<1> HIDE DEF last
<1>8. end >= n + 3 /\ end >= last - 1
  <2>1. n \in Nat
      BY <1>1
  <2>2. at[n] >= at[0] + n /\ (n # 0 /\ at[n] = at[0] + n => word[n] = n % 2)
      BY <1>7, <2>1, LaysBehind
  <2>3. last >= n + 3 /\ (last = n + 3 => word[n] = 0)
      BY <1>1, <1>3, <1>6, <1>7, <2>2
  <2> QED
      BY <1>1, <1>5, <1>6, <2>3 DEF Bit
<1>9. Sees(b[0], a[1]) /\ Sees(b[1], a[2]) /\ Sees(b[2], a[3])
  <2>1. /\ 1 \in 1 .. Len(a) /\ 2 \in 1 .. Len(a) /\ 3 \in 1 .. Len(a)
        /\ 1 <= end /\ 2 <= end /\ 3 <= end
      BY <1>1, <1>6, <1>8
  <2>2. 1 - 1 = 0 /\ 2 - 1 = 1 /\ 3 - 1 = 2
      OBVIOUS
  <2> QED
      BY <2>1, <2>2 DEF SeesAll
<1>10. /\ Sees(b[0], Lit(p.lead[1])) /\ Sees(b[1], Dark(p.lead[2]))
       /\ Sees(b[2], Lit(p.hdrmark + IF word[1] = 1 THEN p.half ELSE 0))
  <2>1. 1 \in 1 .. last - 1 /\ 2 \in 1 .. last - 1 /\ 3 \in 1 .. last - 1
      BY <1>6
  <2>2. a[1] = f[1] /\ a[2] = f[2] /\ a[3] = f[3]
      BY <1>5, <2>1
  <2> QED
      BY <1>4, <1>9, <2>2
<1>11. IsRead(matchLead(b, p), <<>>, 2)
  <2>1. Tuned(p) /\ Leads(p)
      BY <1>1, <1>2, ClockedTuned
  <2>2. IsRead(matchLead(b, p), <<>>, LeadLen(p))
      BY <1>10, <2>1, LeadRead
  <2> QED
      BY <1>1, <2>2
<1>12. PICK start : /\ Fresh(start, 2)
                    /\ IsMatch(SignalMatch(b, start, end, p)) =>
                         OneSignal(d, SignalMatch(b, start, end, p), end, 2, p)
  <2>1. n \in Nat /\ 2 \in Nat /\ ~(end < p.shortest)
      BY <1>1, <1>2, <1>8
  <2> QED
      BY <1>1, <1>11, <2>1, OneSignalMatched
<1> DEFINE h == FrontMatch(b, start, p)
           g == WordMatch(b, start, end, p)
           r == SignalMatch(b, start, end, p)
<1> HIDE DEF d
<1>13. HeaderFound(h, 3, word[1], p)
    BY <1>2, <1>10, <1>12, CloseHeader DEF FrontMatch
<1> HIDE DEF h
<1>14. Ran(ManchesterStart(h, p), 0, at, word, p) /\ h.ok = TRUE /\ h.next = 3
  <2>1. at[0] \in Nat /\ p.rthomas = FALSE /\ word[1] \in Bit
      BY <1>2, <1>3, <1>6
  <2>2. HeaderFound(h, at[0], word[1], p)
      BY <1>3, <1>13
  <2>3. Ran(ManchesterStart(h, p), 0, at, word, p) /\ h.ok = TRUE /\ h.next = at[0]
      BY <2>1, <2>2, StartRan
  <2> QED
      BY <1>3, <2>3
<1>15. WordFound(g, b, end, last, word, p)
  <2>1. RanOrEnded(ManchesterStart(h, p), 0, end, at, word, p)
      BY <1>1, <1>3, <1>8, <1>14 DEF RanOrEnded
  <2>2. Enough(h, end, n)
      BY <1>1, <1>8, <1>14 DEF Enough
  <2>3. n \in Nat \ {0}
      BY <1>1
  <2>4. WordFound(matchManchesterData(b, h, end, p, n), b, end, at[n], word, p)
      BY <1>1, <1>7, <1>14, <2>1, <2>2, <2>3, WordRan
  <2> QED
      BY <1>7, <2>4 DEF WordMatch, h
<1>16. IsMatch(g) /\ g.ok = TRUE /\ g.data = word
  <2>1. last <= end + 1
      BY <1>6, <1>8
  <2> HIDE DEF g
  <2> QED
      BY <1>15, <2>1 DEF WordFound, Fields
<1>17. IsMatch(r) /\ r.ok /\ r.data = word
  <2> HIDE DEF g
  <2>1. StaysRead(ManchesterGap(b, ManchesterFooter(b, g, p, 0), end, p, 0, p.exactgap[1]), g)
      BY <1>16, NoFooterRead
  <2>2. r = ManchesterGap(b, ManchesterFooter(b, g, p, 0), end, p, 0, p.exactgap[1])
      BY <1>2 DEF SignalMatch, g
  <2> HIDE DEF r
  <2> QED
      BY <1>16, <2>1, <2>2 DEF StaysRead
<1> HIDE DEF r
<1>18. end - 2 >= Least(p) /\ r.ok => d.ok /\ d.data = <<<<r.data>>>>
    BY <1>12, <1>17 DEF OneSignal, r
<1>19. end - 2 >= Least(p)
    BY <1>1, <1>8
<1> QED
    BY <1>17, <1>18, <1>19 DEF d

-----------------------------------------------------------------------------
(* The two protocols.                                                      *)
LEMMA AirwellHailed ==
    ASSUME NEW limit \in Nat
    PROVE  Hailed([Airwell EXCEPT !.timeout = limit])
<1> DEFINE p == [Airwell EXCEPT !.timeout = limit]
<1>1. /\ p.coding = "manchester" /\ p.lead = <<>> /\ p.hdrmark = 2850 /\ p.hdrspace = 2850
      /\ p.half = 950 /\ p.footermark = 0 /\ p.gaps = <<0>> /\ p.mesgtime = 0 /\ p.words = <<1>>
      /\ p.width = Bits /\ p.repeat = 2 /\ p.shortest = Bits + 2
    BY DEF Airwell, Usual
<1>2. /\ p.tolerance = 25 /\ p.excess = 50 /\ p.timeout = limit /\ p.msb = TRUE
      /\ p.thomas = FALSE /\ p.thomas \in BOOLEAN /\ p.rthomas = FALSE /\ p.exactgap[1] = FALSE
      /\ p.rfootermark = 2850 /\ p.rgap = 2850
    BY DEF Airwell, Usual
<1>3. Timed(p)
    BY AirwellSuits DEF Suits
<1> HIDE DEF p
<1>4. Bits \in Nat \ {0, 1}
    BY CodecAssumption
<1>5. Clocked(p) /\ FarTimes(p)
    BY <1>1, <1>2 DEF Clocked, FarTimes
<1>6. Halved(p)
  <2>1. p.half \in Times
      BY <1>1 DEF Times
  <2>2. p.width \in Nat \ {0, 1} /\ p.coding = "manchester"
      BY <1>1, <1>4
  <2>3. p.thomas \in BOOLEAN /\ p.msb = TRUE
      BY <1>2
  <2> QED
      BY <2>1, <2>2, <2>3, Zenon DEF Halved
<1>7. OneHalved(p)
    BY <1>1, <1>2, <1>3, <1>6 DEF OneHalved
<1>8. Repeated(p)
    BY <1>1, <1>2, <1>7 DEF Repeated
<1>9. Hailed(p)
    BY <1>1, <1>2, <1>5, <1>8 DEF Hailed
<1> QED
    BY <1>9 DEF p

LEMMA ArrisLed ==
    ASSUME NEW limit \in Nat
    PROVE  Led([Arris EXCEPT !.timeout = limit])
<1> DEFINE p == [Arris EXCEPT !.timeout = limit]
<1>1. /\ p.coding = "manchester" /\ p.lead = <<2560, 1920>> /\ p.hdrmark = 640 /\ p.hdrspace = 0
      /\ p.half = 320 /\ p.footermark = 0 /\ p.gaps = <<77184>> /\ p.mesgtime = 0 /\ p.words = <<1>>
      /\ p.width = Bits /\ p.repeat = 0 /\ p.trail = <<>> /\ p.shortest = Bits
    BY DEF Arris, Usual
<1>2. /\ p.tolerance = 25 /\ p.excess = 50 /\ p.timeout = limit /\ p.msb = TRUE
      /\ p.thomas = TRUE /\ p.thomas \in BOOLEAN /\ p.rthomas = FALSE /\ p.exactgap[1] \in BOOLEAN
      /\ p.rfootermark = 0 /\ p.rgap = 0
    BY DEF Arris, Usual
<1>3. Timed(p)
    BY ArrisSuits DEF Suits
<1> HIDE DEF p
<1>4. Bits \in Nat \ {0, 1}
    BY CodecAssumption
<1>5. Clocked(p) /\ CloseTimes(p)
    BY <1>1, <1>2 DEF Clocked, CloseTimes
<1>6. Halved(p)
  <2>1. p.half \in Times
      BY <1>1 DEF Times
  <2>2. p.width \in Nat \ {0, 1} /\ p.coding = "manchester"
      BY <1>1, <1>4
  <2>3. p.thomas \in BOOLEAN /\ p.msb = TRUE
      BY <1>2
  <2> QED
      BY <2>1, <2>2, <2>3, Zenon DEF Halved
<1>7. OneHalved(p)
    BY <1>1, <1>2, <1>3, <1>6 DEF OneHalved
<1>8. p.gaps[1] = 77184 /\ p.lead[1] = 2560 /\ p.lead[2] = 1920 /\ p.lead # <<>>
    BY <1>1
<1>9. Gapped(p)
    BY <1>1, <1>2, <1>7, <1>8 DEF Gapped, Times
<1>10. Leads(p) /\ p.gaps[1] >= 4 * p.half
    BY <1>1, <1>8 DEF Leads
<1>11. Led(p)
    BY <1>1, <1>2, <1>5, <1>8, <1>9, <1>10 DEF Led
<1> QED
    BY <1>11 DEF p

LEMMA ManchesterNames ==
    ASSUME NEW n \in ProtocolNames, Protocol(n).coding = "manchester"
    PROVE  \/ n = "AIRWELL" /\ Protocol(n) = Airwell
           \/ n = "ARRIS" /\ Protocol(n) = Arris
<1>1. n # "SAMSUNG"
    BY DEF Protocol, Samsung, Usual
<1>2. n # "PANASONIC_AC"
    BY DEF Protocol, PanasonicAc, Usual
<1>3. n # "SYMPHONY"
    BY DEF Protocol, Symphony, Usual
<1>4. n # "ELITESCREENS"
    BY DEF Protocol, EliteScreens, Usual
<1>5. n # "MILESTAG2"
    BY DEF Protocol, MilesTag2, Usual
<1>6. n # "TRUMA"
    BY DEF Protocol, Truma, Usual
<1>7. n = "AIRWELL" => Protocol(n) = Airwell
    BY DEF Protocol
<1>8. n = "ARRIS" => Protocol(n) = Arris
    BY DEF Protocol
<1> QED
    BY <1>1, <1>2, <1>3, <1>4, <1>5, <1>6, <1>7, <1>8 DEF ProtocolNames

LEMMA SingleIs ==
    ASSUME NEW p, NEW m, IsSingle(m, p)
    PROVE  m[1][1] \in [1 .. p.width -> Bit] /\ m = <<<<m[1][1]>>>>
<1> DEFINE W == [1 .. p.width -> Bit]
           x == m[1][1]
<1>1. m \in [1 .. 1 -> [1 .. 1 -> W]]
    BY DEF IsSingle
<1> HIDE DEF W
<1>2. m[1] \in [1 .. 1 -> W] /\ x \in W
    BY <1>1
<1>3. m[1] = <<x>>
    BY <1>2
<1> HIDE DEF x
<1>4. m = <<m[1]>>
    BY <1>1
<1> QED
    BY <1>2, <1>3, <1>4 DEF W, x

(* What of a message and the header behind it lasts no longer than the     *)
(* message's own intervals.                                                *)
LEMMA HeaderAsLong ==
    ASSUME NEW p, Hailed(p), NEW word, NEW f \in Seq(Part), NEW at, Placed(at, word, f, p),
           Grown(f, Preamble(p)), FrontHeard(Preamble(p), p),
           NEW a, EndsInHeader(a, f, Len(f), word, p),
           NEW limit \in Nat, \A k \in 1 .. Len(f) : a[k].usec < limit
    PROVE  /\ Len(f) \in Nat /\ Len(a) \in Nat /\ Len(a) >= Len(f) + 1
           /\ a[Len(f) + 1].usec < limit
<1> DEFINE last == Len(f)
           foot == last + IF word[p.width] = 1 THEN 0 ELSE 1
<1>1. /\ OneHalved(p) /\ Clocked(p) /\ p.width \in Nat \ {0, 1} /\ p.words = <<1>>
      /\ p.coding = "manchester" /\ p.msb = TRUE /\ p.lead = <<>>
      /\ FrontLen(p) = 2 /\ Least(p) = p.width + 3
      /\ p.half \in Nat /\ p.hdrmark \in Nat /\ p.hdrspace \in Nat
      /\ p.hdrmark >= 1000 /\ p.hdrspace >= 1000 /\ p.hdrmark + p.half >= 4 * p.half
      /\ p.half # p.hdrmark + p.half
    BY HailedFacts
<1>2. p.hdrspace = p.hdrmark
    BY DEF Hailed, FarTimes
<1>3. f[1] = Lit(p.hdrmark) /\ 1 \in 1 .. last - 1 /\ last \in Nat
  <2>1. LET k == FrontLen(p)
        IN  /\ k \in 1 .. last - 1 /\ at[0] = k
            /\ \A j \in 1 .. k - 1 : f[j] = Preamble(p)[j]
            /\ f[k] = Lasting(p.thomas, HeaderEnd(p) + IF word[1] = 1 THEN p.half ELSE 0)
    <3> HIDE DEF last
    <3> QED
        BY <1>1, HeaderPlaced DEF last
  <2>2. last \in Nat
      OBVIOUS
  <2> HIDE DEF last
  <2>3. 2 \in 1 .. last - 1 /\ f[1] = Preamble(p)[1]
    <3>1. FrontLen(p) = 2 /\ 1 \in 1 .. 2 - 1
        BY <1>1
    <3> QED
        BY <2>1, <3>1
  <2>4. LeadLen(p) + 1 = 1
      BY <1>1 DEF LeadLen
  <2>5. f[1] = Lit(p.hdrmark)
      BY <2>3, <2>4 DEF FrontHeard
  <2> QED
      BY <2>2, <2>3, <2>5
<1>4. /\ a \in Seq(Part) /\ Len(a) >= foot + 1 /\ \A k \in 1 .. last - 1 : a[k] = f[k]
      /\ a[foot] = Lit(p.hdrmark + IF word[p.width] = 1 THEN p.half ELSE 0)
      /\ a[foot + 1] = Dark(p.hdrspace + IF word[1] = 1 THEN p.half ELSE 0)
    BY DEF EndsInHeader
<1>5. /\ last \in 1 .. last /\ 1 \in 1 .. last /\ Len(a) \in Nat
    BY <1>3, <1>4
<1>6. Len(a) >= last + 1
    BY <1>3, <1>4, <1>5
<1>7. a[last + 1].usec < limit
  <2>1. CASE word[p.width] = 1
    <3>1. foot = last
        BY <1>3, <2>1
    <3> HIDE DEF foot
    <3>2. a[last].usec = p.hdrmark + p.half
        BY <1>4, <2>1, <3>1 DEF Lit
    <3>3. a[last + 1].usec = p.hdrspace + IF word[1] = 1 THEN p.half ELSE 0
        BY <1>4, <3>1 DEF Dark
    <3>4. p.hdrmark + p.half < limit
        BY <1>5, <3>2
    <3> QED
        BY <1>1, <1>2, <3>3, <3>4
  <2>2. CASE word[p.width] # 1
    <3>1. foot = last + 1
        BY <2>2
    <3> HIDE DEF foot
    <3>2. a[last + 1].usec = p.hdrmark + 0
        BY <1>4, <2>2, <3>1 DEF Lit
    <3>3. a[1].usec = p.hdrmark
        BY <1>3, <1>4 DEF Lit
    <3>4. p.hdrmark < limit
        BY <1>5, <3>3
    <3> QED
        BY <1>1, <3>2, <3>4
  <2> QED
      BY <2>1, <2>2
<1> QED
    BY <1>3, <1>5, <1>6, <1>7

-----------------------------------------------------------------------------
(* What the receiver has of a message when it is decoded.                  *)
LEMMA SeesAir ==
    ASSUME Inv, Kept
    PROVE  /\ SeesAll(Cells(old), Len(buf), air)
           /\ Len(buf) \in Nat /\ Len(air) \in Nat /\ Len(buf) <= Len(air) /\ air \in Seq(Part)
           /\ ~overflow => Cells(old)[Len(buf)] = 0
           /\ timeout \in Nat
<1> DEFINE b == Cells(old)
           end == Len(buf)
<1>1. end \in Nat /\ Len(air) \in Nat /\ end <= Len(air) /\ air \in Seq(Part) /\ buf \in Seq(Nat)
    BY DEF Inv, Recorded, TypeOK
<1>2. SeesAll(b, end, air)
  <2> SUFFICES ASSUME NEW j \in 1 .. Len(air), j <= end PROVE Sees(b[j - 1], air[j])
      BY DEF SeesAll
  <2>1. j \in 1 .. Len(buf)
      BY <1>1
  <2>2. j - 1 \in 0 .. (Len(air) + 2) /\ j - 1 < Len(buf) /\ (j - 1) + 1 = j
      BY <1>1
  <2>3. b[j - 1] = buf[j]
      BY <2>2 DEF Cells
  <2> QED
      BY <2>1, <2>3 DEF Kept
<1>3. ~overflow => b[end] = 0
  <2>1. end \in 0 .. (Len(air) + 2) /\ ~(end < Len(buf)) /\ ~(end > Len(buf))
      BY <1>1
  <2> QED
      BY <2>1 DEF Cells
<1>4. timeout \in Nat
  <2>1. timeout \in 0 .. (1000 * kMaxTimeoutMs)
      BY CodecAssumption DEF Inv, TypeOK
  <2> QED
      BY <2>1
<1> QED
    BY <1>1, <1>2, <1>3, <1>4

(* The recorder goes on up to an interval that is as long as its timeout.  *)
LEMMA GoesOn ==
    ASSUME Inv, Kept, pc = "done", ~cut, NEW last \in Nat,
           \A k \in 1 .. last : air[k].usec < timeout
    PROVE  Len(buf) >= Len(air) \/ Len(buf) >= last
<1>1. Len(buf) \in Nat /\ Len(air) \in Nat
    BY SeesAir
<1>2. ~(Len(buf) < Len(air)) \/ ~(air[Len(buf) + 1].usec < timeout)
    BY DEF Kept, Arriving
<1>3. Len(buf) + 1 <= last => Len(buf) + 1 \in 1 .. last
    BY <1>1
<1> QED
    BY <1>1, <1>2, <1>3

(* AIRWELL: no other message, unless rawbuf was full; and the message, when *)
(* the capture is complete.                                                *)
LEMMA AirwellKept ==
    ASSUME Jitter <= 100, Inv, Kept, Protocol(name) = Airwell, pc = "done"
    PROVE  /\ result.ok /\ ~overflow => result.data = message
           /\ ~cut /\ Recordable => result.ok /\ result.data = message
<1> DEFINE p == proto
           b == Cells(old)
           end == Len(buf)
           word == message[1][1]
           body == Preamble(p) \o sendManchesterData(p, word)
           f == Intervals(body)
<1>1. /\ SeesAll(b, end, air) /\ end \in Nat /\ Len(air) \in Nat /\ air \in Seq(Part)
      /\ (~overflow => b[end] = 0) /\ timeout \in Nat
    BY SeesAir
<1>2. p = [Airwell EXCEPT !.timeout = timeout]
    BY DEF proto
<1>3. Hailed(p)
    BY <1>1, <1>2, AirwellHailed
<1>4. IsSingle(message, p)
  <2>1. Len(Airwell.words) = 1 /\ Airwell.words[1] = 1
      BY DEF Airwell, Usual
  <2>2. message \in Messages(Airwell)
      BY DEF Inv, TypeOK
  <2> QED
      BY <1>2, <2>1, <2>2, SingleMessage
<1> HIDE DEF p, b
<1>5. word \in [1 .. p.width -> Bit] /\ message = <<<<word>>>>
    BY <1>4, SingleIs
<1>6. result = matchMessage(b, end, p)
    BY DEF Kept, Decoded, b, p
<1>7. Repeated(p) /\ OneHalved(p) /\ p.gaps[1] = 0
    BY <1>3 DEF Hailed, Repeated
<1>8. /\ sendMessage(p, message) = body \o space(p.gaps[1])
      /\ body \in Seq(Part) /\ f \in Seq(Part) /\ f # <<>>
      /\ Grown(f, Preamble(p)) /\ FrontHeard(Preamble(p), p)
      /\ \E at : Placed(at, word, f, p)
    BY <1>4, <1>7, BodyHeard
<1>9. EndsInHeader(air, f, Len(f), word, p)
  <2>1. air = Intervals(sendGeneric(p, message))
      BY DEF Kept, p
  <2> QED
      BY <1>4, <1>7, <2>1, RepeatedOnAir
<1>10. sendMessage(p, message) = body
    BY <1>7, <1>8, ConcatEmptySeq DEF space
<1> HIDE DEF word, body
<1>11. Intervals(sendMessage(p, message)) = f
    BY <1>10
<1> HIDE DEF f
<1>12. PICK at : Placed(at, word, f, p)
    BY <1>8
<1>13. /\ result.ok /\ b[end] = 0 => result.data = message
       /\ end >= Len(f) + 1 => result.ok /\ result.data = message
  <2>1. /\ result.ok /\ b[end] = 0 => result.data = <<<<word>>>>
        /\ end >= Len(f) + 1 => result.ok /\ result.data = <<<<word>>>>
      BY <1>1, <1>3, <1>5, <1>6, <1>8, <1>9, <1>12, FarRead
  <2> QED
      BY <1>5, <2>1
<1>14. ASSUME ~cut, Recordable PROVE end >= Len(f) + 1
  <2>1. Len(f) \in Nat /\ Len(f) + 1 \in Nat
      BY <1>8
  <2>2. p.rfootermark # 0
      BY <1>2 DEF Airwell, Usual, p
  <2>3. \A k \in 1 .. Len(f) : air[k].usec < timeout
    <3>1. Len(f) - 0 = Len(f)
        BY <2>1
    <3> QED
        BY <1>11, <1>14, <2>2, <3>1 DEF Recordable, p
  <2>4. Len(air) >= Len(f) + 1 /\ air[Len(f) + 1].usec < timeout
      BY <1>1, <1>3, <1>8, <1>9, <1>12, <2>3, HeaderAsLong
  <2>5. \A k \in 1 .. Len(f) + 1 : air[k].usec < timeout
    <3>1. \A k \in 1 .. Len(f) + 1 : k \in 1 .. Len(f) \/ k = Len(f) + 1
        BY <2>1
    <3> QED
        BY <2>3, <2>4, <3>1
  <2>6. end >= Len(air) \/ end >= Len(f) + 1
      BY <1>14, <2>1, <2>5, GoesOn
  <2> QED
      BY <1>1, <2>1, <2>4, <2>6
<1> QED
    BY <1>1, <1>13, <1>14

(* ARRIS: the message, when the capture is complete.  A word of an odd     *)
(* number of bits would fill too few intervals when every bit differs from *)
(* the one before it; ARRIS has 32 of them.                                *)
LEMMA ArrisKept ==
    ASSUME Jitter <= 100, Inv, Kept, Protocol(name) = Arris, Bits % 2 = 0, pc = "done",
           ~cut, Recordable
    PROVE  result.ok /\ result.data = message
<1> DEFINE p == proto
           b == Cells(old)
           end == Len(buf)
           word == message[1][1]
           body == Preamble(p) \o sendManchesterData(p, word)
           f == Intervals(body)
<1>1. /\ SeesAll(b, end, air) /\ end \in Nat /\ Len(air) \in Nat /\ air \in Seq(Part)
      /\ timeout \in Nat
    BY SeesAir
<1>2. p = [Arris EXCEPT !.timeout = timeout]
    BY DEF proto
<1>3. Led(p)
    BY <1>1, <1>2, ArrisLed
<1>4. IsSingle(message, p)
  <2>1. Len(Arris.words) = 1 /\ Arris.words[1] = 1
      BY DEF Arris, Usual
  <2>2. message \in Messages(Arris)
      BY DEF Inv, TypeOK
  <2> QED
      BY <1>2, <2>1, <2>2, SingleMessage
<1>5. p.rfootermark = 0 /\ p.width % 2 = 0
  <2>1. p.rfootermark = 0 /\ p.width = Bits
      BY <1>2 DEF Arris, Usual
  <2> HIDE DEF p
  <2> QED
      BY <2>1
<1> HIDE DEF p, b
<1>6. word \in [1 .. p.width -> Bit] /\ message = <<<<word>>>>
    BY <1>4, SingleIs
<1>7. result = matchMessage(b, end, p)
    BY DEF Kept, Decoded, b, p
<1>8. Gapped(p) /\ OneHalved(p)
    BY <1>3 DEF Led, Gapped
<1>9. /\ sendMessage(p, message) = body \o space(p.gaps[1])
      /\ body \in Seq(Part) /\ f \in Seq(Part) /\ f # <<>>
      /\ Grown(f, Preamble(p)) /\ FrontHeard(Preamble(p), p)
      /\ \E at : Placed(at, word, f, p)
    BY <1>4, <1>8, BodyHeard
<1>10. air = Intervals(sendGeneric(p, message))
    BY DEF Kept, p
<1>11. sendGeneric(p, message) = sendMessage(p, message) /\ EndsInGap(air, f, Len(f), word[p.width], p)
    BY <1>4, <1>8, <1>10, GappedOnAir
<1>12. Intervals(sendMessage(p, message)) = air
    BY <1>10, <1>11
<1> HIDE DEF word, body, f
<1>13. PICK at : Placed(at, word, f, p)
    BY <1>9
<1>14. end + 1 >= Len(air)
  <2>1. CASE Len(air) = 0
      BY <1>1, <2>1
  <2>2. CASE Len(air) # 0
    <3>1. Len(air) - 1 \in Nat
        BY <1>1, <2>2
    <3>2. \A k \in 1 .. Len(air) - 1 : air[k].usec < timeout
        BY <1>5, <1>12 DEF Recordable, p
    <3>3. end >= Len(air) \/ end >= Len(air) - 1
        BY <3>1, <3>2, GoesOn
    <3> QED
        BY <1>1, <3>3
  <2> QED
      BY <2>1, <2>2
<1>15. result.ok /\ result.data = <<<<word>>>>
  <2>1. EndsInGap(air, f, Len(f), word[p.width], p)
      BY <1>11
  <2>2. f \in Seq(Part) /\ Grown(f, Preamble(p)) /\ FrontHeard(Preamble(p), p)
      BY <1>9
  <2>3. SeesAll(b, end, air) /\ end \in Nat /\ p.width % 2 = 0 /\ word \in [1 .. p.width -> Bit]
      BY <1>1, <1>5, <1>6
  <2> HIDE DEF end
  <2>4. end + 1 >= Len(air)
      BY <1>14
  <2>5. matchMessage(b, end, p).ok /\ matchMessage(b, end, p).data = <<<<word>>>>
      BY <1>3, <1>13, <2>1, <2>2, <2>3, <2>4, CloseRead
  <2> QED
      BY <1>7, <2>5
<1> QED
    BY <1>6, <1>15

(* Which of the two it is.                                                 *)
LEMMA ManchesterProto ==
    ASSUME Inv, Manchester
    PROVE  \/ Protocol(name) = Airwell
           \/ Protocol(name) = Arris /\ "ARRIS" \in Names /\ proto.rfootermark = 0
<1>1. name \in Names /\ name \in ProtocolNames
    BY CodecAssumption DEF Inv, TypeOK
<1>2. Protocol(name).coding = "manchester"
  <2>1. \A q, limit : [q EXCEPT !.timeout = limit].coding = q.coding
      OBVIOUS
  <2> QED
      BY <2>1 DEF Manchester, proto
<1>3. \/ name = "AIRWELL" /\ Protocol(name) = Airwell
      \/ name = "ARRIS" /\ Protocol(name) = Arris
    BY <1>1, <1>2, ManchesterNames
<1>4. Protocol(name) = Arris => proto.rfootermark = 0
    BY DEF proto, Arris, Usual
<1> QED
    BY <1>1, <1>3, <1>4

(* What a sender sends, the decode function of the same protocol reads: of *)
(* all eight protocols, for any number of bits (an even one for ARRIS),    *)
(* every message and every timeout that outlasts what is inside it, if the *)
(* sensor lengthens a mark or shortens a space by no more than 100         *)
(* microseconds.                                                           *)
THEOREM ReadBack ==
    ASSUME Jitter <= 100, "ARRIS" \in Names => Bits % 2 = 0
    PROVE  Spec => []RoundTrip
<1>1. Inv /\ Kept => RoundTrip
  <2> SUFFICES ASSUME Inv, Kept, pc = "done", ~cut, Recordable
               PROVE  result.ok /\ result.data = message
      BY DEF RoundTrip
  <2>1. CASE ~Manchester
      BY <2>1, KeptRead
  <2>2. CASE Manchester
    <3>1. CASE Protocol(name) = Airwell
        BY <3>1, AirwellKept
    <3>2. CASE Protocol(name) = Arris /\ "ARRIS" \in Names
        BY <3>2, ArrisKept
    <3> QED
        BY <2>2, <3>1, <3>2, ManchesterProto
  <2> QED
      BY <2>1, <2>2
<1> QED
    BY <1>1, InvInit, InvStep, KeptInit, KeptStep, PTL DEF Spec

(* A capture that has lost its end, wherever, is refused or read as what   *)
(* was sent; never as another message.                                     *)
THEOREM ReadAsNoOther ==
    ASSUME Jitter <= 100
    PROVE  Spec => []NeverOther
<1>1. Inv /\ Kept => NeverOther
  <2> SUFFICES ASSUME Inv, Kept, pc = "done", result.ok,
                      Manchester => proto.rfootermark # 0 /\ ~overflow
               PROVE  result.data = message
      BY DEF NeverOther
  <2>1. CASE ~Manchester
      BY <2>1, KeptRead
  <2>2. CASE Manchester
    <3>1. Protocol(name) = Airwell
        BY <2>2, ManchesterProto
    <3> QED
        BY <2>2, <3>1, AirwellKept
  <2> QED
      BY <2>1, <2>2
<1> QED
    BY <1>1, InvInit, InvStep, KeptInit, KeptStep, PTL DEF Spec
=============================================================================
