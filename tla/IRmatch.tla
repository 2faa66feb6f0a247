------------------------------- MODULE IRmatch -------------------------------
(***************************************************************************)
(* src/src/IRrecv.cpp: the functions that match captured intervals against *)
(* the timings of a protocol.  `b` is rawbuf from its first interval on, a *)
(* function from offsets to ticks; `end` is the offset behind the last     *)
(* interval of the capture, so that the code's `remaining` is end minus    *)
(* the offset reached; `p` is the protocol as in IRsend, with `timeout`,   *)
(* the receiver's params.timeout in microseconds.  A match is a record of  *)
(* whether all has matched so far, the next offset, and the bits or words  *)
(* read; every function takes the match so far and returns the one behind  *)
(* what it has read.                                                       *)
(***************************************************************************)
EXTENDS Integers, Sequences, SequencesExt

kRawTick == 2

ticksLow(usecs, tolerance, delta) ==
    Max({0, (usecs * (100 - tolerance)) \div 100 - delta})
ticksHigh(usecs, tolerance, delta) ==
    (usecs * (100 + tolerance)) \div 100 + 1 + delta

match(measured, desired, tolerance, delta) ==
    /\ kRawTick * measured >= ticksLow(desired, tolerance, delta)
    /\ kRawTick * measured <= ticksHigh(desired, tolerance, delta)

matchMark(measured, desired, p) ==
    match(measured, desired + p.excess, p.tolerance, 0)
matchSpace(measured, desired, p) ==
    match(measured, desired - p.excess, p.tolerance, 0)
matchAtLeast(measured, desired, p) ==
    \/ measured = 0
    \/ kRawTick * measured
         >= ticksLow(Min({desired, p.timeout}), p.tolerance, p.excess)

-----------------------------------------------------------------------------
From(k) == [ok |-> TRUE, next |-> k, data |-> <<>>, bank |-> 0, nr |-> 0, bit |-> 0]
Failed(r) == [r EXCEPT !.ok = FALSE]
Entry(usec) == IF usec = 0 THEN 0 ELSE 1

(* The capture has so many more intervals.  Mutant: it is not looked at.   *)
Enough_Assumed(r, end, needed) == TRUE
Enough(r, end, needed) == end - r.next >= needed

(* One interval, if the protocol has it (its time is not 0).               *)
TakeMark(b, r, usec, p) ==
    IF usec = 0 \/ ~r.ok THEN r
    ELSE [r EXCEPT !.next = @ + 1, !.ok = matchMark(b[r.next], usec, p)]
TakeSpace(b, r, usec, p) ==
    IF usec = 0 \/ ~r.ok THEN r
    ELSE [r EXCEPT !.next = @ + 1, !.ok = matchSpace(b[r.next], usec, p)]

(* The gap behind a section, unless the capture has ended before it.       *)
TakeGap(b, r, end, usec, p, exact) ==
    IF usec = 0 \/ ~r.ok \/ r.next >= end THEN r
    ELSE [r EXCEPT !.next = @ + 1,
                   !.ok = IF exact THEN matchSpace(b[r.next], usec, p)
                                   ELSE matchAtLeast(b[r.next], usec, p)]

(* A word behind those read already.                                       *)
Joined(r, word) ==
    IF r.ok /\ word.ok THEN [word EXCEPT !.data = Append(r.data, @)]
                       ELSE Failed(r)

Ordered(r, p) == IF p.msb THEN r ELSE [r EXCEPT !.data = Reverse(@)]

(* One bit: the last one is told by its mark alone when no space follows   *)
(* that belongs to it.                                                     *)
matchBit(b, r, p, spaced) ==
    LET like(themark, thespace) ==
            /\ matchMark(b[r.next], themark, p)
            /\ spaced => matchSpace(b[r.next + 1], thespace, p)
        found(bit) == [r EXCEPT !.next = @ + IF spaced THEN 2 ELSE 1,
                                !.data = Append(@, bit)]
    IN  IF ~r.ok THEN r
        ELSE IF like(p.onemark, p.onespace) THEN found(1)
        ELSE IF like(p.zeromark, p.zerospace) THEN found(0)
        ELSE Failed(r)

matchBits(b, r, p, nbits, expectlastspace) ==
    LET upto[i \in 0..nbits] ==
          IF i = 0 THEN [r EXCEPT !.data = <<>>]
          ELSE matchBit(b, upto[i - 1], p, expectlastspace \/ i < nbits)
    IN  upto[nbits]

(* Mutant: the order of the bits is not looked at.                         *)
matchData_NotReversed(b, r, p, nbits, expectlastspace) ==
    matchBits(b, r, p, nbits, expectlastspace)

matchData(b, r, p, nbits, expectlastspace) ==
    Ordered(matchBits(b, r, p, nbits, expectlastspace), p)

matchBytes(b, r, end, p, nbytes, expectlastspace) ==
    LET upto[i \in 0..nbytes] ==
          IF i = 0 THEN r
          ELSE Joined(upto[i - 1], matchData(b, upto[i - 1], p, p.width,
                                             expectlastspace \/ i < nbytes))
    IN  IF Enough(r, end, nbytes * p.width * 2 + IF expectlastspace THEN 0 ELSE 1)
          THEN upto[nbytes] ELSE Failed(r)

-----------------------------------------------------------------------------
matchWords(b, r, end, p, nwords, nbits, expectlastspace) ==
    IF ~r.ok THEN r
    ELSE IF p.coding = "bytes"
      THEN matchBytes(b, r, end, p, nwords, expectlastspace)
      ELSE Joined(r, matchData(b, r, p, nbits, expectlastspace))

(* _matchGeneric(): a section of so many words with its footer.            *)
matchGeneric(b, r, end, p, nwords, nbits, footermark, gap, exact) ==
    LET kexpectspace == footermark # 0 \/ p.onespace # p.zerospace
        min_remaining == nwords * nbits * 2 - (IF kexpectspace THEN 0 ELSE 1)
                           + Entry(p.hdrmark) + Entry(p.hdrspace) + Entry(footermark)
        header == TakeSpace(b, TakeMark(b, r, p.hdrmark, p), p.hdrspace, p)
        words == matchWords(b, header, end, p, nwords, nbits, kexpectspace)
    IN  IF ~Enough(r, end, min_remaining) THEN Failed(r)
        ELSE TakeGap(b, TakeMark(b, words, footermark, p), end, gap, p, exact)

(* A constant bit time and no footer mark: the space of the last bit runs  *)
(* into the gap, so that the bit is read from its mark.                    *)
LastBit(b, front, start, end, p) ==
    IF ~front.ok \/ front.next = start \/ end <= front.next THEN Failed(front)
    ELSE matchBit(b, [front EXCEPT !.data = Last(@)], p, FALSE)

LastGap(b, r, end, p, gap, exact) ==
    IF ~r.ok THEN r
    ELSE TakeGap(b, r, end,
                 gap + IF Last(r.data) = 1 THEN p.onespace ELSE p.zerospace,
                 p, exact)

matchGenericConstBitTime(b, r, end, p, gap, exact) ==
    LET front == matchGeneric(b, r, end, [p EXCEPT !.msb = TRUE],
                              1, p.width - 1, 0, 0, FALSE)
        last == LastBit(b, front, r.next, end, p)
    IN  Joined(r, Ordered(LastGap(b, last, end, p, gap, exact), p))

-----------------------------------------------------------------------------
(* Manchester code: `bank` is the part of an interval that is not used up  *)
(* yet, `nr` the half periods found, and `bit` the one to be added next.   *)

Half(measured, p) == match(measured, p.half, p.tolerance, p.excess)
Long(measured, p) == match(measured, p.half * 2, p.tolerance, p.excess)

(* The first half of a bit: what is in the bank, or the next interval.     *)
FirstHalf(b, r, p) ==
    IF r.bank # 0 THEN [r EXCEPT !.ok = Half(r.bank, p)]
    ELSE [r EXCEPT !.bank = b[r.next], !.next = @ + 1,
                   !.ok = Half(b[r.next], p)]

(* Behind the end of the capture a half period of space is assumed.        *)
Refilled(b, r, end, p) ==
    IF r.next < end THEN [r EXCEPT !.bank = b[r.next], !.next = @ + 1]
    ELSE [r EXCEPT !.bank = p.half \div kRawTick, !.ok = @ /\ r.next = end]

(* The second half, by itself or together with the first one of the next   *)
(* bit; the very last one may be part of a longer space.                   *)
SecondHalf(r, p, nbits) ==
    LET found == [r EXCEPT !.bank = 0, !.nr = @ + 2, !.data = Append(@, r.bit)]
    IN  IF ~r.ok THEN r
        ELSE IF Long(r.bank, p)
          THEN [found EXCEPT !.bank = r.bank - p.half \div kRawTick,
                             !.bit = 1 - @]
        ELSE IF Half(r.bank, p) THEN found
        ELSE IF r.nr + 1 = 2 * nbits - 1 /\ matchAtLeast(r.bank, p.half, p)
          THEN [found EXCEPT !.next = @ - 1]
        ELSE Failed(r)

matchManchesterBit(b, r, end, p, nbits) ==
    IF ~r.ok \/ (r.next >= end /\ r.bank = 0) THEN r
    ELSE SecondHalf(Refilled(b, FirstHalf(b, r, p), end, p), p, nbits)

(* The value of fewer bits than asked for has zeros in front.              *)
Widened(word, nbits) == [i \in 1..(nbits - Len(word)) |-> 0] \o word

ManchesterStart(r, p) ==
    LET one == IF p.rthomas THEN 1 ELSE 0
    IN  [r EXCEPT !.bank = @ \div kRawTick,
                  !.bit = IF r.bank # 0 THEN 1 - one ELSE one]

matchManchesterData(b, r, end, p, nbits) ==
    LET upto[i \in 0..nbits] ==
          IF i = 0 THEN ManchesterStart(r, p)
          ELSE matchManchesterBit(b, upto[i - 1], end, p, nbits)
    IN  IF ~r.ok \/ ~Enough(r, end, nbits) THEN Failed(r)
        ELSE Ordered([upto[nbits] EXCEPT !.data = Widened(@, nbits)], p)

(* A header interval, which the first half period may have run into: that  *)
(* part goes to the bank (in microseconds, and modulo 2^16).               *)
Over(measured, desired) == (kRawTick * measured - desired) % 2^16

HeaderMark(b, r, p) ==
    IF p.hdrmark = 0 THEN r
    ELSE IF p.hdrspace = 0 /\ matchMark(b[r.next], p.hdrmark + p.half, p)
      THEN [r EXCEPT !.next = @ + 1, !.bank = Over(b[r.next], p.hdrmark)]
    ELSE TakeMark(b, r, p.hdrmark, p)

HeaderSpace(b, r, p) ==
    IF p.hdrspace = 0 \/ ~r.ok THEN r
    ELSE IF matchSpace(b[r.next], p.hdrspace + p.half, p)
      THEN [r EXCEPT !.next = @ + 1, !.bank = Over(b[r.next], p.hdrspace)]
    ELSE TakeSpace(b, r, p.hdrspace, p)

Balanced(r, p) ==
    [r EXCEPT !.bank = IF Half(@ \div kRawTick, p) THEN @ ELSE 0]

(* The last half period may have run into the footer.  The offset moves on *)
(* behind the data even when there is no footer mark.  Mutant: the footer  *)
(* is not looked at.                                                       *)
ManchesterFooter_Skipped(b, r, p, footermark) ==
    IF ~r.ok THEN r ELSE [r EXCEPT !.next = @ + 1]

ManchesterFooter(b, r, p, footermark) ==
    IF ~r.ok THEN r
    ELSE [r EXCEPT !.next = @ + 1,
                   !.ok = \/ footermark = 0
                          \/ matchMark(b[r.next], footermark + p.half, p)
                          \/ matchMark(b[r.next], footermark, p)]

ManchesterGap(b, r, end, p, gap, exact) ==
    IF exact /\ gap # 0 /\ r.ok /\ r.next < end
         /\ matchSpace(b[r.next], gap + p.half, p)
      THEN [r EXCEPT !.next = @ + 1]
      ELSE TakeGap(b, r, end, gap, p, exact)

matchManchester(b, r, end, p, nbits, footermark, gap, exact) ==
    LET min_remaining == nbits + Entry(p.hdrmark) + Entry(p.hdrspace) + Entry(footermark)
        start == [r EXCEPT !.data = <<>>, !.bank = 0, !.nr = 0, !.bit = 0]
        header == HeaderSpace(b, HeaderMark(b, start, p), p)
        word == matchManchesterData(b, Balanced(header, p), end, p, nbits)
        foot == ManchesterFooter(b, word, p, footermark)
    IN  IF ~Enough(r, end, min_remaining) THEN Failed(r)
        ELSE Joined(r, ManchesterGap(b, foot, end, p, gap, exact))

-----------------------------------------------------------------------------
(* What the decode function of a protocol makes of it: the lead by itself, *)
(* then section after section, each from where the last one ended.         *)
matchSection(b, r, end, p, s) ==
    CASE ~r.ok -> r
      [] r.ok /\ p.coding = "manchester" ->
           matchManchester(b, r, end, p, p.width, p.rfootermark, p.rgap,
                           p.exactgap[s])
      [] r.ok /\ p.coding = "constbit" ->
           matchGenericConstBitTime(b, r, end, p, p.gaps[s], p.exactgap[s])
      [] r.ok /\ p.coding \in {"bits", "bytes"} ->
           matchGeneric(b, r, end, p, p.words[s], p.width, p.footermark,
                        p.gaps[s], p.exactgap[s])

SectionAfter(b, r, end, p, s) ==
    Joined(r, matchSection(b, [r EXCEPT !.data = <<>>], end, p, s))

matchLead(b, p) ==
    IF p.lead = <<>> THEN From(0)
    ELSE TakeSpace(b, TakeMark(b, From(0), p.lead[1], p), p.lead[2], p)

matchMessage(b, end, p) ==
    IF end < p.shortest THEN Failed(From(0))
    ELSE LET upto[s \in 0..Len(p.words)] ==
               IF s = 0 THEN matchLead(b, p)
               ELSE SectionAfter(b, upto[s - 1], end, p, s)
         IN  upto[Len(p.words)]
=============================================================================
