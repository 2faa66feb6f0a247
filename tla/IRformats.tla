------------------------------ MODULE IRformats ------------------------------
(***************************************************************************)
(* What the send functions of the protocols put on the air, and what the   *)
(* decode functions ask of a capture.  Both are told by sections: a header *)
(* mark and space, so many bits, a footer mark and a gap, with the         *)
(* arguments in the order of sendGeneric() and matchGeneric().             *)
(*                                                                         *)
(* IRsend and IRmatch have these two functions themselves, step by step    *)
(* and for every word of a few bits; here messages have the real number of *)
(* bits, of a few patterns, so that a section is told as a whole.          *)
(***************************************************************************)
EXTENDS IRmatch, FiniteSets

Patterns == {"zeros", "ones", "mixed"}
Bit(pattern, i) ==
    CASE pattern = "zeros" -> 0
      [] pattern = "ones" -> 1
      [] pattern = "mixed" -> IF i % 3 = 1 THEN 1 ELSE 0

(* `time` is what the section takes at least; `inverted`: its data are;    *)
(* `word`: they are always the same.                                       *)
(* `tolerance` and `excess` are those of matching, `exact` that the gap    *)
(* has to be as long as told, and no longer; `constant` is that of bits    *)
(* that all last equally long, the space of the last one in the gap.       *)
Sec(hm, hs, om, os, zm, zs, fm, gap, n) ==
    [hm |-> hm, hs |-> hs, om |-> om, os |-> os, zm |-> zm, zs |-> zs,
     fm |-> fm, gap |-> gap, n |-> n, time |-> 0, inverted |-> FALSE,
     word |-> <<>>, tolerance |-> 25, excess |-> 50, exact |-> FALSE,
     constant |-> FALSE]
Header(hm, hs) == Sec(hm, hs, 0, 0, 0, 0, 0, 0, 0)
Footer(fm, gap) == Sec(0, 0, 0, 0, 0, 0, fm, gap, 0)

Timed(usec, s) == [s EXCEPT !.time = usec]
Inverted(s) == [s EXCEPT !.inverted = TRUE]
Always(word, s) == [s EXCEPT !.word = word]
Exact(s) == [s EXCEPT !.exact = TRUE]
Constant(s) == [s EXCEPT !.constant = TRUE]
Within(tolerance, excess, s) ==
    [s EXCEPT !.tolerance = tolerance, !.excess = excess]

(* A footer that is matched by hand: the gap has no margin but tolerance.  *)
Ending(tolerance, fm, gap) ==
    <<Within(tolerance, 50, Footer(fm, 0)), Within(25, 0, Footer(0, gap))>>

Some(x) == IF x = 0 THEN <<>> ELSE <<x>>
Times(k, s) == [i \in 1..(k * Len(s)) |-> s[((i - 1) % Len(s)) + 1]]

-----------------------------------------------------------------------------
(* Sending.  A message in sections, each with its repeats, and what is     *)
(* sent once behind them; or levels, each for one unit of time.            *)

Message(secs, repeat, trail) ==
    [coding |-> "sections", secs |-> Times(repeat + 1, secs) \o trail]
Send(secs) == Message(secs, 0, <<>>)

(* levels[pattern]: 1 is light, 0 none.                                    *)
Levels(unit, gap, levels) ==
    [coding |-> "levels", unit |-> unit, gap |-> gap, levels |-> levels]

(* times[pattern]: the marks and spaces themselves.                        *)
TimesOf(times) == [coding |-> "times", times |-> times]

SentBit(s, pattern, i) ==
    IF s.word # <<>> THEN s.word[i]
    ELSE IF s.inverted THEN 1 - Bit(pattern, i) ELSE Bit(pattern, i)

Lasting(s, pattern) ==
    LET ones == Cardinality({i \in 1..s.n : SentBit(s, pattern, i) = 1})
    IN  s.hm + s.hs + s.fm + ones * (s.om + s.os) + (s.n - ones) * (s.zm + s.zs)

Gap(s, pattern) == Max({s.gap, s.time - Lasting(s, pattern)})

(* Marks and spaces by turns; a gap behind no footer lengthens the space   *)
(* of the last bit.                                                        *)
SectionAir(s, pattern) ==
    LET data == [k \in 1..(2 * s.n) |->
                   LET one == SentBit(s, pattern, (k + 1) \div 2) = 1 IN
                   IF k % 2 = 1 THEN IF one THEN s.om ELSE s.zm
                                ELSE IF one THEN s.os ELSE s.zs]
        front == Some(s.hm) \o Some(s.hs) \o data
    IN  IF s.fm # 0 THEN front \o <<s.fm>> \o Some(Gap(s, pattern))
        ELSE IF s.n = 0 THEN front
        ELSE [front EXCEPT ![Len(front)] = @ + Gap(s, pattern)]

(* The runs of equal levels, from the first light on; the gap lengthens    *)
(* the last one if it is dark.                                             *)
RunsAir(m, pattern) ==
    LET l == m.levels[pattern]
        first == CHOOSE i \in 1..Len(l) : l[i] = 1 /\ \A j \in 1..(i - 1) : l[j] = 0
        runs == FoldLeft(LAMBDA r, i :
                           IF i = first \/ l[i] # l[i - 1] THEN Append(r, m.unit)
                           ELSE [r EXCEPT ![Len(r)] = @ + m.unit],
                         <<>>, [j \in 1..(Len(l) - first + 1) |-> first + j - 1])
    IN  IF Last(l) = 0 THEN [runs EXCEPT ![Len(runs)] = @ + m.gap]
                       ELSE Append(runs, m.gap)

Air(m, pattern) ==
    IF m.coding = "levels" THEN RunsAir(m, pattern)
    ELSE IF m.coding = "times" THEN m.times[pattern]
    ELSE FlattenSeq([i \in 1..Len(m.secs) |-> SectionAir(m.secs[i], pattern)])

(* The data of the message, in the order of the air.                       *)
Data(m, pattern) ==
    IF m.coding # "sections" THEN <<>>
    ELSE FlattenSeq([i \in 1..Len(m.secs) |->
           [k \in 1..m.secs[i].n |-> SentBit(m.secs[i], pattern, k)]])

-----------------------------------------------------------------------------
(* Decoding.  A capture is the ticks of its intervals, the first a mark;   *)
(* `skipped` of them are passed over.                                      *)

(* The space of the last bit is its own when a footer follows, or when it  *)
(* tells ones from zeros.                                                  *)
Spaced(s) == ~s.constant /\ (s.fm # 0 \/ s.os # s.zs)
DataWidth(s) == IF s.n = 0 THEN 0 ELSE 2 * s.n - IF Spaced(s) THEN 0 ELSE 1
HeaderWidth(s) == Entry(s.hm) + Entry(s.hs)
(* Mutant: the gap behind the message is counted as well.                  *)
Least_WithGap(s) ==
    HeaderWidth(s) + DataWidth(s) + Entry(s.fm) + Entry(s.gap)
Least(s) == HeaderWidth(s) + DataWidth(s) + Entry(s.fm)

(* Each section with the number of intervals in front of it.               *)
Placed(secs) ==
    LET at[i \in 1..Len(secs)] ==
          IF i = 1 THEN 0
          ELSE at[i - 1] + Least(secs[i - 1]) + Entry(secs[i - 1].gap)
    IN  [i \in 1..Len(secs) |-> [at |-> at[i]] @@ secs[i]]

(* A decode function that wants a capture of at least `least` intervals    *)
(* and matches one of `ways`.  `checked`: it also looks at the data, at    *)
(* bytes that are always the same, inverted ones, or a checksum.           *)
(* `tested`: what it wants and matches besides when the library is built   *)
(* with UNIT_TEST.                                                         *)
Untested == [least |-> 0, way |-> <<>>]
OneOf(least, ways) ==
    [coding |-> "sections", least |-> least, ways |-> {Placed(w) : w \in ways},
     checked |-> FALSE, anchored |-> FALSE, tested |-> Untested]
Decode(least, secs) == OneOf(least, {secs})
Tested(least, secs, d) ==
    [d EXCEPT !.tested = [least |-> least, way |-> Placed(secs)]]
(* `anchored`: it begins with the first interval, whatever is skipped.     *)
Anchored(d) == [d EXCEPT !.anchored = TRUE]
Checked(d) == [d EXCEPT !.checked = TRUE]
Coded(coding, least) ==
    [coding |-> coding, least |-> least, checked |-> FALSE, anchored |-> FALSE,
     tested |-> Untested]

(* The interval of a capture, 0 behind its end.                            *)
Cell(c, k) == IF k \in DOMAIN c THEN c[k] ELSE 0

IsBit(c, k, s, last, themark, thespace) ==
    /\ matchMark(Cell(c, k), themark, s)
    /\ Spaced(s) \/ ~last => matchSpace(Cell(c, k + 1), thespace, s)
IsOne(c, k, s, last) == IsBit(c, k, s, last, s.om, s.os)
IsZero(c, k, s, last) == IsBit(c, k, s, last, s.zm, s.zs)

OwnSpace(c, last, s) ==
    IF ~s.constant THEN 0
    ELSE IF IsOne(c, last, s, TRUE) THEN s.os ELSE s.zs

(* Mutant: a message may be followed by more of the same.                  *)
MatchSection_AnyGap(c, o, s, timeout) ==
    LET d == o + HeaderWidth(s)
        f == d + DataWidth(s)
        p == [tolerance |-> s.tolerance, excess |-> s.excess,
              timeout |-> timeout]
    IN  /\ Len(c) - o >= Least(s)
        /\ s.hm # 0 => matchMark(Cell(c, o + 1), s.hm, p)
        /\ s.hs # 0 => matchSpace(Cell(c, d), s.hs, p)
        /\ \A i \in 1..s.n :
             LET k == d + 2 * i - 1 IN
             IsOne(c, k, s, i = s.n) \/ IsZero(c, k, s, i = s.n)
        /\ s.fm # 0 => matchMark(Cell(c, f + 1), s.fm, p)

(* matchGeneric() for a section that begins behind `o` intervals.          *)
MatchSection(c, o, s, timeout) ==
    LET d == o + HeaderWidth(s)
        f == d + DataWidth(s)
        g == f + Entry(s.fm) + 1
        p == [tolerance |-> s.tolerance, excess |-> s.excess,
              timeout |-> timeout]
    IN  /\ Len(c) - o >= Least(s)
        /\ s.hm # 0 => matchMark(Cell(c, o + 1), s.hm, p)
        /\ s.hs # 0 => matchSpace(Cell(c, d), s.hs, p)
        /\ \A i \in 1..s.n :
             LET k == d + 2 * i - 1 IN
             IsOne(c, k, s, i = s.n) \/ IsZero(c, k, s, i = s.n)
        /\ s.fm # 0 => matchMark(Cell(c, f + 1), s.fm, p)
        /\ s.gap # 0 /\ g <= Len(c) =>
             IF s.exact THEN matchSpace(c[g], s.gap, p)
                        ELSE matchAtLeast(c[g], s.gap + OwnSpace(c, f, s), p)

MatchWay(c, skipped, way, timeout) ==
    \A i \in DOMAIN way :
        MatchSection(c, skipped + way[i].at, way[i], timeout)

(* Mutant: the header is taken for the first bit.                          *)
ReadWay_HeaderNotPassed(c, skipped, way) ==
    FlattenSeq([i \in DOMAIN way |->
        [b \in 1..way[i].n |->
           IF IsOne(c, skipped + way[i].at + 2 * b - 1, way[i], b = way[i].n)
             THEN 1 ELSE 0]])

(* What is read in that way: one, if it can be one.                        *)
ReadWay(c, skipped, way) ==
    FlattenSeq([i \in DOMAIN way |->
        LET d == skipped + way[i].at + HeaderWidth(way[i]) IN
        [b \in 1..way[i].n |->
           IF IsOne(c, d + 2 * b - 1, way[i], b = way[i].n) THEN 1 ELSE 0]])

-----------------------------------------------------------------------------
(* IRrecv::getRClevel(): so many half bits of light (0 in the code) and of *)
(* dark (1), which lasts for ever in a gap and behind the capture; -1 for  *)
(* a length that fits no number of them.  The gap is compared in ticks.    *)
Dark(k) == [i \in 1..k |-> 1]
kForever == 64

Fits(width, dark, bitTime, p) ==
    {n \in 1..p.maxwidth :
        match(width, n * bitTime + IF dark THEN -p.excess ELSE p.excess,
              p.tolerance, p.delta)}

LevelsOf(width, dark, bitTime, p) ==
    IF dark /\ (width > 20000 - p.delta
                  \/ width > p.maxwidth * bitTime + p.delta)
      THEN Dark(kForever)
    ELSE IF Fits(width, dark, bitTime, p) = {} THEN <<-1>>
    ELSE [i \in 1..Max(Fits(width, dark, bitTime, p)) |-> IF dark THEN 1 ELSE 0]

(* The levels of at most `most` intervals behind the first `o`.            *)
RClevels(c, o, most, bitTime, p) ==
    FlattenSeq([k \in 1..Max({0, Min({most, Len(c) - o})}) |->
                  LevelsOf(c[o + k], (o + k) % 2 = 0, bitTime, p)])
      \o Dark(kForever)

(* How many half bits follow one another in pairs of light and dark.       *)
PairsFrom(l, i) ==
    LET n == CHOOSE n \in 0..((Len(l) - i) \div 2) :
               /\ {l[i + 2 * n], l[i + 2 * n + 1]} # {0, 1}
               /\ \A j \in 0..(n - 1) : {l[i + 2 * j], l[i + 2 * j + 1]} = {0, 1}
    IN  n
=============================================================================
