----------------------------- MODULE IRformatsRc -----------------------------
(***************************************************************************)
(* The send and decode functions of the protocols of television sets, toys *)
(* and the like (ir_NEC.cpp, ir_Sony.cpp, ...).  `n` is the number of bits *)
(* a function is called with where decode() calls it with several.         *)
(***************************************************************************)
EXTENDS IRformats

NecSec(n) == Sec(8960, 4480, 560, 1680, 560, 560, 560, 22400, n)
NecRepeat == Timed(108080, Sec(8960, 2240, 0, 0, 0, 0, 560, 22400, 0))
sendNEC(n, repeat) ==
    Message(<<Timed(108080, NecSec(n))>>, 0, Times(repeat, <<NecRepeat>>))
(* A repeat is told by its header; what follows is not looked at.          *)
decodeNEC(n) ==
    OneOf(3, {<<NecSec(n)>>, <<Sec(8960, 2240, 0, 0, 0, 0, 560, 0, 0)>>})

sendAiwaRCT501 == sendNEC(15 + 26 + 1, 1)
decodeAiwaRCT501 == Checked(Decode(3, <<NecSec(15 + 26 + 1)>>))

sendSanyoLC7461 == sendNEC(42, 0)
decodeSanyoLC7461 == Checked(Decode(3, <<NecSec(42)>>))

CarrierSec == Sec(8532, 4228, 628, 1320, 628, 532, 628, 20000, 32)
sendCarrierAC == Send(<<CarrierSec, Inverted(CarrierSec), CarrierSec>>)
decodeCarrierAC == Checked(Decode((2 * 32 + 4) * 3 - 1, Times(3, <<CarrierSec>>)))

PioneerSec == Sec(8506, 4191, 568, 1542, 568, 487, 568, 25181, 32)
sendPioneer == Send(Times(2, <<Timed(84906, PioneerSec)>>))
decodePioneer == Checked(Decode(2 * (64 + 4) - 1, Times(2, <<PioneerSec>>)))

sendEpson == Message(<<Timed(108080, NecSec(32))>>, 2, <<>>)
decodeEpson == Checked(Decode(2 * (2 * 32 + 4) - 1, Times(2, <<NecSec(32)>>)))

Milestag2Sec(n) == Sec(2400, 600, 1200, 600, 600, 600, 0, 32000, n)
sendMilestag2(n) == Send(<<Milestag2Sec(n)>>)
decodeMilestag2(n) == Checked(Decode(0, <<Milestag2Sec(n)>>))

SonySec(n) == Timed(45000, Sec(2400, 600, 1200, 600, 600, 600, 0, 10000, n))
sendSony(n) == Message(<<SonySec(n)>>, 2, <<>>)

MitsubishiSec == Sec(0, 0, 300, 2100, 300, 900, 300, 28080, 16)
sendMitsubishi == Message(<<Timed(53580, MitsubishiSec)>>, 1, <<>>)
decodeMitsubishi == Decode(0, <<Within(30, 50, MitsubishiSec)>>)

Mitsubishi2First == Sec(8400, 4200, 560, 1560, 560, 520, 560, 4200, 8)
Mitsubishi2Second(gap) == Sec(0, 0, 560, 1560, 560, 520, 560, gap, 8)
sendMitsubishi2 ==
    Message(<<Mitsubishi2First, Mitsubishi2Second(28500)>>, 1, <<>>)
decodeMitsubishi2 ==
    Decode(2 * 16 + 2 + 4, <<Exact(Mitsubishi2First), Mitsubishi2Second(4200)>>)

SharpSec(n) == Sec(0, 0, 260, 1820, 260, 780, 260, 43602, n)
sendSharp == Send(<<SharpSec(15), Inverted(SharpSec(15))>>)
(* One copy is enough on a device, where a gap may have ended the capture. *)
decodeSharp ==
    LET copy == Within(35, 50, SharpSec(15)) IN
    Tested(2 * (2 * 15 + 2), <<copy, copy>>, Checked(Decode(2 * 15 + 2, <<copy>>)))

PanasonicSec(n) == Sec(3456, 1728, 432, 1296, 432, 432, 432, 5000, n)
sendPanasonic(n) == Send(<<Timed(163296, [PanasonicSec(n) EXCEPT !.gap = 74736])>>)
decodePanasonic == Decode(0, <<PanasonicSec(48)>>)
decodePanasonic40 == Checked(Decode(0, <<PanasonicSec(40)>>))

(* decodeDenon() tries decodeSharp(), decodePanasonic() with Denon's       *)
(* manufacturer, and for 14 bits the timings of its own.                   *)
sendDenon(n) == IF n = 48 THEN sendPanasonic(48) ELSE sendSharp
decodeDenon(n) ==
    CASE n = 48 -> Checked(Decode(0, <<PanasonicSec(48)>>))
      [] n = 15 -> decodeSharp
      [] n = 14 -> Decode(0, <<Sec(263, 789, 263, 1841, 263, 789, 263, 0, 14)>>)

LgSec(hm, hs, mark, n) == Sec(hm, hs, mark, 1600, mark, 550, mark, 39750, n)
LgRepeat(hm, mark) == Sec(hm, 2250, mark, 1600, mark, 550, mark, 39750, 0)
sendLG(n) ==
    IF n < 32 THEN Send(<<Timed(108050, LgSec(8500, 4250, 550, n))>>)
    ELSE Send(<<Timed(108080, Sec(4480, 4480, 560, 1680, 560, 560, 560, 26880, n)),
                Timed(108050, LgRepeat(8950, 550))>>)
sendLG2 == Send(<<Timed(108050, LgSec(3200, 9900, 480, 28))>>)
(* The header's mark tells the variant.                                    *)
LgHeaders == {<<8500, 4250, 550>>, <<3200, 9900, 480>>, <<4500, 4450, 550>>}
decodeLG(n) ==
    Checked(OneOf(IF n < 32 THEN 2 * n + 2 ELSE 2 * n + 8,
          {<<Header(h[1], 0), Within(25, 0, LgSec(0, h[2], h[3], n))>>
             \o (IF n < 32 THEN <<>> ELSE <<LgRepeat(8950, h[3])>>) :
           h \in LgHeaders}))

GICableSec == Sec(9000, 4400, 550, 4400, 550, 2200, 550, 6450, 16)
sendGICable ==
    Send(<<Timed(99600, GICableSec),
           Timed(99600, Sec(9000, 2200, 0, 0, 0, 0, 550, 6450, 0))>>)
decodeGICable ==
    Decode(0, <<GICableSec, Sec(9000, 2200, 0, 0, 0, 0, 550, 0, 0)>>)

JvcSec(hm, hs) == Sec(hm, hs, 525, 1725, 525, 525, 525, 10875, 16)
sendJVC == Send(<<Timed(60000, JvcSec(8400, 4200))>>)
decodeJVC == OneOf(2 * 16 + 2, {<<JvcSec(8400, 4200)>>, <<JvcSec(0, 0)>>})

SamsungSec == Sec(4480, 4480, 560, 1680, 560, 560, 560, 26880, 32)
sendSAMSUNG == Send(<<Timed(108080, SamsungSec)>>)
decodeSAMSUNG == Checked(Decode(0, <<SamsungSec>>))

Samsung36First == Sec(4515, 4438, 512, 1468, 512, 490, 512, 4438, 16)
Samsung36Last == Sec(0, 0, 512, 1468, 512, 490, 512, 26880, 20)
sendSamsung36 == Send(<<Samsung36First, Samsung36Last>>)
decodeSamsung36 ==
    Decode(2 * 36 + 2 + 4 - 1, <<Exact(Samsung36First), Samsung36Last>>)

WhynterSecs ==
    <<Header(750, 750), Sec(2850, 2850, 750, 2150, 750, 750, 750, 12200, 32)>>
sendWhynter == Send(<<WhynterSecs[1], Timed(106500, WhynterSecs[2])>>)
decodeWhynter == Decode(2 * 32 + 4 + 2, WhynterSecs)

DishSec(hm, hs) == Sec(hm, hs, 400, 1700, 400, 2800, 400, 6100, 16)
sendDISH == Send(<<DishSec(400, 6100)>> \o Times(3, <<DishSec(0, 0)>>))
decodeDISH == Decode(0, <<Exact(DishSec(400, 6100))>>)

NikaiSec == Sec(4000, 4000, 500, 1000, 500, 2000, 500, 8500, 24)
sendNikai == Send(<<NikaiSec>>)
decodeNikai == Decode(0, <<NikaiSec>>)

LegoPfSec == Sec(158, 1026, 158, 553, 158, 263, 158, 1026, 16)
sendLegoPf == Send(<<Timed(16000 * 5, LegoPfSec)>>)
decodeLegoPf == Checked(Decode(0, <<[LegoPfSec EXCEPT !.gap = 16000]>>))

InaxSec == Sec(9000, 4500, 560, 1675, 560, 560, 560, 40000, 24)
sendInax == Message(<<InaxSec>>, 1, <<>>)
decodeInax == Decode(0, <<InaxSec>>)

DoshishaSec(gap) == Sec(3412, 1722, 420, 1310, 420, 452, 420, gap, 40)
sendDoshisha == Send(<<DoshishaSec(100000)>>)
decodeDoshisha == Checked(Decode(2 * 40 + 4 - 1, <<DoshishaSec(0)>>))

BoseSec == Sec(1100, 1350, 555, 1435, 555, 500, 555, 100000, 16)
sendBose == Send(<<BoseSec>>)
decodeBose == Decode(0, <<Within(25, 0, BoseSec)>>)

MetzSec == Sec(880, 2336, 473, 1640, 473, 940, 473, 100000, 19)
sendMetz == Send(<<MetzSec>>)
decodeMetz == Checked(Decode(0, <<Within(25, 0, MetzSec)>>))

ZepealSec == Sec(2330, 3380, 1300, 420, 420, 1300, 420, 6750, 16)
sendZepeal == Message(<<ZepealSec>>, 4, <<>>)
decodeZepeal == Checked(Decode(2 * 16 + 4 - 1, <<Within(40, 50, ZepealSec)>>))

SymphonySec == Sec(0, 0, 1250, 400, 400, 1250, 0, 6600, 12)
sendSymphony == Message(<<SymphonySec>>, 3, <<>>)
decodeSymphony == Decode(2 * 12 - 1, <<Constant(Within(25, 0, SymphonySec))>>)

ElitescreensSec == Sec(0, 0, 470, 1214, 1214, 470, 0, 29200, 32)
sendElitescreens == Message(<<ElitescreensSec>>, 1, <<>>)
decodeElitescreens == Decode(0, <<Constant(ElitescreensSec)>>)

(* A prefix of 15 bits and 24 bits of data, each twice; the long code is   *)
(* two of them, each three times.                                          *)
TotoSecs ==
    <<Sec(6197, 2754, 600, 1634, 600, 516, 0, 0, 15),
      Sec(0, 0, 600, 1634, 600, 516, 600, 38000, 24)>>
sendToto(n) == Send(Times(IF n = 24 THEN 2 ELSE 6, TotoSecs))
decodeToto(n) ==
    LET repeats == IF n = 24 THEN 1 ELSE 2 IN
    Checked(Decode((2 * (n + 15) + 4) * (repeats + 1) - 1,
                   Times((n \div 24) * (repeats + 1), TotoSecs)))

ClimaButlerSec == Sec(511, 3492, 511, 1540, 511, 548, 511, 3492, 52)
sendClimaButler == Send(<<ClimaButlerSec, Footer(511, 100000)>>)
decodeClimaButler ==
    Anchored(Decode(2 * 52 + 4,
                    <<Exact(ClimaButlerSec)>> \o Ending(25, 511, 100000)))

GorenjeSec == Sec(0, 0, 1300, 5700, 1300, 1700, 1300, 100000, 8)
sendGorenje == Send(<<GorenjeSec>>)
decodeGorenje == Decode(0, <<Within(7, 50, GorenjeSec)>>)

WowweeSec == Sec(6684, 723, 912, 3259, 912, 723, 912, 100000, 11)
sendWowwee == Send(<<WowweeSec>>)
decodeWowwee == Decode(0, <<WowweeSec>>)

-----------------------------------------------------------------------------
(* The protocols that are not read with matchGeneric().  Each takesX says  *)
(* whether decodeX() takes the capture `c` behind `o` intervals.           *)

Plain == [tolerance |-> 25, excess |-> 50, delta |-> 0, maxwidth |-> 3]
Like(measured, desired, tolerance) == match(measured, desired, tolerance, 0)

(* Sony: as many bits as come before a gap, all measured by the header.    *)
decodeSony == Coded("sony", 2 * 12 + 2 - 1)
takesSony(c, o, timeout) ==
    LET p == [timeout |-> timeout] @@ [Plain EXCEPT !.excess = 0]
        tick == (c[o + 1] * kRawTick) \div 12
        ends == {k \in (o + 2)..Len(c) :
                   /\ (k - o) % 2 = 0
                   /\ k = Len(c) \/ matchAtLeast(c[k], 50 * tick, p)}
        end == Min(ends \cup {Len(c) + 1})
    IN  /\ matchMark(c[o + 1], 2400, Plain)
        /\ \A k \in (o + 2)..(end - 1) :
             (k - o) % 2 = 0 =>
               /\ matchSpace(c[k], 3 * tick, Plain)
               /\ \/ matchMark(c[k + 1], 6 * tick, Plain)
                  \/ matchMark(c[k + 1], 3 * tick, Plain)

(* RC-5: in half bits of 889 us, a start bit, a field bit and 12 bits.  A  *)
(* one is dark and light, a zero light and dark.                           *)
Biphase(bit, ontime) == IF bit = ontime THEN <<1, 0>> ELSE <<0, 1>>
Word(pattern, n, ontime) ==
    FlattenSeq([i \in 1..n |-> Biphase(Bit(pattern, i), ontime)])
sendRC5 ==
    Levels(889, 113778 - 27 * 889,
           [p \in Patterns |->
              <<1>> \o Biphase(1 - Bit(p, 1), 0) \o Tail(Tail(Word(p, 13, 0)))])
decodeRC5 == Coded("rc5", 12)
takesRC5(c, o) ==
    LET l == RClevels(c, o, 40, 889, Plain)
    IN  l[1] = 0 /\ {l[2], l[3]} = {0, 1} /\ PairsFrom(l, 4) = 12

(* RC-6: the header and the start bit, then any number of bits, the fourth *)
(* of twice the length.  The header's mark gives the unit.                 *)
sendRC6 ==
    Levels(444, 83028,
           [p \in Patterns |->
              <<1, 1, 1, 1, 1, 1, 0, 0, 1, 0>>
                \o FlattenSeq([i \in 1..20 |->
                     LET b == Biphase(Bit(p, i), 1) IN
                     IF i = 4 THEN <<b[1], b[1], b[2], b[2]>> ELSE b])])
decodeRC6 == Coded("rc6", 9)
takesRC6(c, o) ==
    LET tick == (c[o + 1] * kRawTick) \div 6
        l == RClevels(c, o + 2, 24, tick, Plain)
    IN  /\ matchMark(c[o + 1], 2664, Plain) /\ matchSpace(c[o + 2], 2 * tick, Plain)
        /\ l[1] = 0 /\ l[2] = 1
        /\ PairsFrom(l, 3) >= 3 => l[9] = l[10] /\ l[11] = l[12]

(* RC-MM: two bits to a space, one of four lengths.                        *)
sendRCMM ==
    TimesOf([p \in Patterns |->
        LET spaces == [i \in 1..12 |->
              <<277, 444, 611, 777>>[2 * Bit(p, 2 * i - 1) + Bit(p, 2 * i) + 1]]
            front == <<416, 277>> \o FlattenSeq([i \in 1..12 |-> <<166, spaces[i]>>])
                       \o <<166>>
        IN  Append(front, Max({27778 - FoldLeft(+, 0, front), 3360}))])
decodeRCMM == Coded("rcmm", 4)
takesRCMM(c, o, timeout) ==
    LET m == (c[o + 1] * kRawTick) \div 15
        s == (c[o + 2] * kRawTick) \div 10
        words == (Min({Len(c) + 1 - 5, 64}) + 1) \div 2
        foot == o + 3 + 2 * words
    IN  /\ matchMark(c[o + 1], 416, Plain) /\ matchSpace(c[o + 2], 277, Plain)
        /\ \A i \in 1..words :
             LET k == o + 1 + 2 * i IN
             /\ Like(Cell(c, k), 6 * m, 25)
             /\ \/ Like(Cell(c, k + 1), 10 * s, 25)
                \/ Like(Cell(c, k + 1), 16 * s, 25)
                \/ Like(Cell(c, k + 1), 22 * s, 10)
                \/ Like(Cell(c, k + 1), 28 * s, 10)
        /\ Like(Cell(c, foot), 6 * m, 25)
        /\ foot < Len(c) =>
             matchAtLeast(c[foot + 1], 120 * s,
                          [Plain EXCEPT !.excess = 0] @@ [timeout |-> timeout])

(* MagiQuest: a bit lasts 1150 us, and is one by the part that is light.   *)
MagiQuestSec == Sec(0, 0, 580, 600, 280, 850, 0, 100000, 56)
sendMagiQuest == Send(<<MagiQuestSec>>)
decodeMagiQuest == Checked(Coded("magiquest", 2 * 56 - 1))
IsMagiQuestBit(m, s) ==
    m + s > 0 /\ ((m * 100) \div (m + s) <= 30 \/ (m * 100) \div (m + s) >= 38)
takesMagiQuest(c, o) ==
    LET last == o + 2 * 55 + 1 IN
    /\ last <= Len(c)
    /\ \A i \in 1..55 :
         LET k == o + 2 * i - 1 IN
         /\ matchMark(c[k] + c[k + 1], 1150, Plain)
         /\ IsMagiQuestBit(c[k], c[k + 1])
    /\ IsMagiQuestBit(c[last], (1150 \div 2 - c[last]) % 2^16)

(* Lasertag: 13 bits of two half bits of 333 us, and nothing else.         *)
sendLasertag == Levels(333, 100000, [p \in Patterns |-> Word(p, 13, 0)])
decodeLasertag == Coded("lasertag", 14)
takesLasertag(c, o) ==
    PairsFrom(RClevels(c, o, 40, 333,
                       [tolerance |-> 0, excess |-> 0, delta |-> 165,
                        maxwidth |-> 3]), 1) = 13

(* XMP: two sections of eight spaces, each one of sixteen lengths.         *)
sendXmp ==
    TimesOf([p \in Patterns |->
        LET nibble(k) == 8 * Bit(p, 4 * k - 3) + 4 * Bit(p, 4 * k - 2)
                           + 2 * Bit(p, 4 * k - 1) + Bit(p, 4 * k)
            section(s, gap) ==
              FlattenSeq([i \in 1..8 |-> <<210, 760 + 135 * nibble(8 * s + i)>>])
                \o <<210, gap>>
        IN  section(0, 13000) \o section(1, 80400)])
decodeXmp == Checked(Coded("xmp", 2 * 16 + 4 - 1))
takesXmp(c, o, timeout) ==
    LET ismark(k) == match(Cell(c, k), 210 + 50, 0, 100)
        isnibble(k) == \E v \in 0..15 : match(Cell(c, k), 760 + v * 135, 0, 135 \div 2)
    IN  /\ \A i \in 0..17 : ismark(o + 1 + 2 * i)
        /\ \A i \in (0..16) \ {8} : isnibble(o + 2 + 2 * i)
        /\ matchSpace(Cell(c, o + 18), 13000, Plain)
        /\ o + 36 <= Len(c) =>
             matchAtLeast(c[o + 36], 13000,
                          [timeout |-> timeout] @@ [Plain EXCEPT !.excess = 0])

(* Lutron: 35 bits that are light or dark for 2288 us, after one of light. *)
sendLutron ==
    Levels(2288, 150000, [p \in Patterns |-> <<1>> \o [i \in 1..35 |-> Bit(p, i)]])
decodeLutron == Coded("lutron", 0)
takesLutron(c, o, timeout) ==
    LET rest(k, j) == Max({c[k] - (2288 \div kRawTick) * j, 0})
        parts(k) == CHOOSE n \in 0..58 :
                      /\ rest(k, n) = 0 \/ kRawTick * rest(k, n) < 2288 - 400
                      /\ \A j \in 0..(n - 1) :
                           rest(k, j) # 0 /\ kRawTick * rest(k, j) >= 2288 - 400
        long(k, j) == kRawTick * rest(k, j) >= (Min({150000, timeout}) * 75) \div 100
        (* the bits up to an interval; 99 is a refusal *)
        bits[k \in o..Len(c)] ==
          IF k = o THEN -1
          ELSE LET b == bits[k - 1] light == (k - o) % 2 = 1 IN
               IF b >= 35 THEN b
               ELSE IF parts(k) = 0 THEN 99
               ELSE IF ~light /\ b + parts(k) >= 35 /\ long(k, 35 - b - 1) THEN 35
               ELSE IF light /\ ~match(rest(k, parts(k)), 400, 0, 400) THEN 99
               ELSE b + parts(k)
    IN  bits[Len(c)] \in 0..35

(* MWM: a byte is a start bit that is light, eight data bits and a stop    *)
(* bit that is dark.                                                       *)
sendMWM ==
    Levels(417, 30000,
           [p \in Patterns |->
              FlattenSeq([b \in 1..3 |->
                 <<1>> \o [i \in 1..8 |-> 1 - Bit(p, 8 * b + i)] \o <<0>>])])
decodeMWM == Checked(Coded("mwm", 7))
takesMWM(c, o) ==
    LET p == [tolerance |-> 0, excess |-> 0, delta |-> 150, maxwidth |-> 9]
        l == RClevels(c, o, Len(c), 417, p)
        seen == Len(l) - kForever
        frames == Max({f \in 0..(seen \div 10) : \A g \in 0..(f - 1) : l[10 * g + 1] = 0})
        ended == 10 * frames < seen /\ l[10 * frames + 1] = 0
        partly == IF ended THEN Min({8, seen - 10 * frames - 1}) ELSE 0
    IN  /\ \A f \in 1..frames : l[10 * f] = 1
        /\ \A i \in 1..(10 * frames) : l[i] # -1
        /\ 8 * frames + partly >= 24

(* Multibrackets: a long light and 8 bits that are light or dark for 5 ms. *)
(* The interval of the last bit has to be one of a gap, if any is left.    *)
sendMultibrackets ==
    Levels(5000, 30000, [p \in Patterns |->
        Times(2, <<1, 1, 1>> \o [i \in 1..8 |-> Bit(p, i)] \o [i \in 1..6 |-> 0])])
decodeMultibrackets == Coded("multibrackets", 0)
takesMultibrackets(c, o, timeout) ==
    LET p == [tolerance |-> 5, excess |-> 0, timeout |-> timeout]
        usable(k) == c[k] - IF k = o + 1 THEN 15000 \div kRawTick ELSE 0
        bits(k) == Cardinality({j \in 0..12 :
                     /\ usable(k) - j * (5000 \div kRawTick) > 0
                     /\ matchAtLeast(usable(k) - j * (5000 \div kRawTick), 5000, p)})
        upto[k \in o..Len(c)] == IF k = o THEN 0 ELSE upto[k - 1] + bits(k)
        last == CHOOSE k \in (o + 1)..Len(c) : upto[k] >= 8 /\ upto[k - 1] < 8
    IN  /\ matchAtLeast(c[o + 1], 15000, p)
        /\ upto[Len(c)] >= 8
        /\ matchAtLeast(c[last], 30000, p)

(* The two Manchester codes, by IRmatch's matcher.                         *)
ManchesterP(hm, hs, half, timeout) ==
    [hdrmark |-> hm, hdrspace |-> hs, half |-> half, rthomas |-> FALSE,
     msb |-> TRUE, tolerance |-> 25, excess |-> 50, timeout |-> timeout]
Buffer(c) == [k \in 0..(Len(c) + 4) |-> Cell(c, k + 1)]

(* The three messages follow one another without a gap.                    *)
sendAirwell ==
    Levels(950, 100000, [p \in Patterns |->
        Times(3, <<1, 1, 1, 0, 0, 0>> \o Word(p, 34, 0)) \o <<1, 1, 1, 1>>])
decodeAirwell == Coded("airwell", 34 + 2)
takesAirwell(c, o, timeout) ==
    matchManchester(Buffer(c), From(o), Len(c), ManchesterP(2850, 2850, 950, timeout),
                    34, 2850, 2850, FALSE).ok

sendArris ==
    Levels(320, 77184, [p \in Patterns |->
        Dark(8) \o [i \in 1..6 |-> 0] \o <<1, 1>> \o Word(p, 32, 1)])
decodeArris == Checked(Coded("arris", 32))
takesArris(c, o, timeout) ==
    /\ matchMark(c[o + 1], 2560, Plain) /\ matchSpace(c[o + 2], 1920, Plain)
    /\ matchManchester(Buffer(c), From(o + 2), Len(c), ManchesterP(640, 0, 320, timeout),
                       32, 0, 0, TRUE).ok
=============================================================================
