--------------------------- MODULE IRformatsAcRest ---------------------------
(***************************************************************************)
(* The second half of the protocols of air conditioners, from the one of   *)
(* Goodweather on: decode() tries them after those of IRformatsAc.         *)
(***************************************************************************)
EXTENDS IRformatsAc

(* Each byte is followed by its inverse.                                   *)
GoodweatherSec(hm, hs) == Sec(hm, hs, 580, 580, 580, 1860, 580, 0, 96)
sendGoodweather ==
    Send(<<[GoodweatherSec(6820, 6820) EXCEPT !.gap = 6820], Footer(580, 100000)>>)
decodeGoodweather ==
    Checked(Decode(4 * 48 + 6 - 1,
      <<Header(6820, 6820), Within(37, 50, GoodweatherSec(0, 0)), Header(0, 6820)>>
        \o Ending(37, 580, 6820)))

TrotecSec == Sec(5952, 7364, 592, 1560, 592, 592, 592, 6184, 72)
sendTrotec == Send(<<TrotecSec, Footer(592, 1500)>>)
decodeTrotec ==
    Checked(Decode(2 * 72 + 6, <<Within(25, 0, TrotecSec)>> \o Ending(25, 592, 1500)))

Trotec3550Sec == Sec(12000, 5130, 550, 1950, 550, 500, 550, 100000, 72)
sendTrotec3550 == Send(<<Trotec3550Sec>>)
decodeTrotec3550 == Checked(Decode(0, <<Exact(Trotec3550Sec)>>))

Daikin160Sec(n) == Sec(5000, 2145, 342, 1786, 342, 700, 342, 29650, n)
Daikin160Secs == <<Daikin160Sec(56), Daikin160Sec(104)>>
sendDaikin160 == Send(Daikin160Secs)
decodeDaikin160 ==
    Checked(Decode(2 * (160 + 4) - 1, ExactBefore(AllWithin(35, 50, Daikin160Secs))))

NeoclimaSec == Sec(6112, 7391, 537, 1651, 537, 571, 537, 7391, 96)
sendNeoclima == Send(<<NeoclimaSec, Footer(537, 100000)>>)
decodeNeoclima ==
    Checked(Decode(0, <<Exact(Within(25, 0, NeoclimaSec)), Footer(537, 7391)>>))

Daikin176Sec(n) == Sec(5070, 2140, 370, 1780, 370, 710, 370, 29410, n)
Daikin176Secs == <<Daikin176Sec(56), Daikin176Sec(120)>>
sendDaikin176 == Send(Daikin176Secs)
decodeDaikin176 ==
    Checked(Decode(2 * (176 + 4) - 1, ExactBefore(AllWithin(35, 50, Daikin176Secs))))

(* Daikin128, Daikin64 and CarrierAC128 have bits of nearly the same times.*)
Daikin128Sec(hm, hs, fm, gap) == Sec(hm, hs, 350, 954, 350, 382, fm, gap, 64)
Daikin128Secs == Times(2, <<Header(9800, 9800)>>)
                   \o <<Daikin128Sec(4600, 2500, 350, 20300),
                        Daikin128Sec(0, 0, 4600, 20300)>>
sendDaikin128 == Send(Daikin128Secs)
decodeDaikin128 ==
    Checked(Decode(2 * (128 + 2) + 1, ExactBefore(AllWithin(35, 50, Daikin128Secs))))

AmcorSec == Sec(8200, 4200, 1500, 600, 600, 1500, 1900, 34300, 64)
sendAmcor == Message(<<AmcorSec>>, 1, <<>>)
decodeAmcor == Checked(Decode(2 * 64 + 2, <<Within(40, 0, AmcorSec)>>))

Daikin152Secs ==
    <<Always(<<0, 0, 0, 0, 0>>, Sec(0, 0, 433, 1529, 433, 433, 433, 25182, 5)),
      Sec(3492, 1718, 433, 1529, 433, 433, 433, 25182, 152)>>
sendDaikin152 == Send(Daikin152Secs)
decodeDaikin152 ==
    Checked(Decode(2 * (5 + 152 + 2) + 1, ExactBefore(Daikin152Secs)))

(* The last gap is not looked at.                                          *)
sendDaikin64 ==
    Send(Times(2, <<Header(9800, 9800)>>)
           \o <<Daikin128Sec(4600, 2500, 350, 20300), Footer(4600, 100000)>>)
decodeDaikin64 ==
    Checked(Decode(2 * 64 + 7,
      Times(2, <<Header(9800, 9800)>>)
        \o <<Exact(Within(30, 50, Daikin128Sec(4600, 2500, 350, 20300))),
             Footer(4600, 0)>>))

DelonghiSec == Sec(8984, 4200, 572, 1558, 572, 510, 572, 100000, 64)
sendDelonghiAc == Send(<<DelonghiSec>>)
decodeDelonghiAc == Checked(Decode(2 * 64 + 1, <<DelonghiSec>>))

TrumaSecs ==
    <<Header(20200, 1000), Sec(1800, 630, 600, 630, 1200, 630, 600, 100000, 56)>>
sendTruma == Send(TrumaSecs)
decodeTruma == Checked(Decode(2 * 56 + 1, TrumaSecs))

CarrierAc40Sec == Sec(8402, 4166, 547, 1540, 547, 497, 547, 150000, 40)
sendCarrierAC40 == Message(<<CarrierAc40Sec>>, 2, <<>>)
decodeCarrierAC40 == Decode(2 * 40 + 4 - 1, <<CarrierAc40Sec>>)

CarrierAc64Sec == Sec(8940, 4556, 503, 1736, 503, 615, 503, 100000, 64)
sendCarrierAC64 == Send(<<CarrierAc64Sec>>)
decodeCarrierAC64 == Checked(Decode(2 * 64 + 4 - 1, <<CarrierAc64Sec>>))

TechnibelSec == Sec(8836, 4380, 523, 1696, 523, 564, 523, 100000, 56)
sendTechnibelAc == Send(<<TechnibelSec>>)
decodeTechnibelAc == Checked(Decode(0, <<TechnibelSec>>))

(* One section or three.                                                   *)
CoronaSec == Sec(3500, 1680, 450, 1270, 450, 420, 450, 10800, 56)
sendCoronaAc(n) == Send(Times(n \div 56, <<CoronaSec>>))
decodeCoronaAc ==
    Checked(OneOf(2 * 56 + 1,
                  {Times(k, <<Within(30, 50, CoronaSec)>>) : k \in {1, 3}}))

(* The 48 bits of a NEC message: each byte is followed by its inverse.     *)
Midea24Sec(gap) == Sec(8960, 4480, 560, 1680, 560, 560, 560, gap, 48)
sendMidea24 ==
    Send(<<Timed(108080, Midea24Sec(22400)),
           Timed(108080, Sec(8960, 2240, 0, 0, 0, 0, 560, 22400, 0))>>)
decodeMidea24 == Checked(Decode(0, <<Midea24Sec(13000)>>))

SanyoAcSec == Sec(8500, 4200, 500, 1600, 500, 550, 500, 100000, 72)
sendSanyoAc == Send(<<SanyoAcSec>>)
decodeSanyoAc == Checked(Decode(0, <<SanyoAcSec>>))

VoltasSec == Sec(0, 0, 1026, 2553, 1026, 554, 1026, 100000, 80)
sendVoltas == Send(<<VoltasSec>>)
decodeVoltas == Anchored(Checked(Decode(0, <<VoltasSec>>)))

TranscoldSec == Sec(5944, 7563, 555, 3556, 555, 1526, 555, 7563, 48)
sendTranscold == Send(<<TranscoldSec, Footer(555, 100000)>>)
decodeTranscold ==
    Checked(Decode(4 * 24 + 4, <<Exact(TranscoldSec)>> \o Ending(25, 555, 100000)))

MirageSec == Sec(8360, 4248, 554, 1592, 554, 545, 554, 100000, 120)
sendMirage == Send(<<MirageSec>>)
decodeMirage == Checked(Decode(0, <<MirageSec>>))

(* The long message is two sections of two equal blocks, the short one of  *)
(* three; behind each a header that ends it.                               *)
PanasonicAc32Block == Sec(3543, 3450, 920, 2575, 920, 828, 0, 0, 32)
PanasonicAc32Secs(n) ==
    LET section(k) == Times(k, <<PanasonicAc32Block>>)
                        \o <<Sec(3543, 3450, 0, 0, 0, 0, 920, 13946, 0)>>
    IN  IF n = 32 THEN section(2) \o section(2) ELSE section(3)
sendPanasonicAC32(n) == Send(PanasonicAc32Secs(n))
decodePanasonicAC32(n) ==
    Checked(Decode(IF n = 32 THEN 4 * (2 * 32 + 4) - 1 ELSE 3 * (4 * 16 + 2) + 1,
                   PanasonicAc32Secs(n)))

EcoclimSec(n) == Sec(5730, 1935, 440, 1739, 440, 637, 0, 0, n)
sendEcoclim(n) == Send(Times(3, <<EcoclimSec(n)>>) \o <<Footer(7820, 100000)>>)
decodeEcoclim(n) ==
    Checked(Decode((2 * n + 2) * 3 + 1,
      Times(3, <<Within(30, 50, EcoclimSec(n))>>) \o Ending(30, 7820, 100000)))

TeknopointSec == Sec(3600, 1600, 477, 1200, 477, 530, 477, 100000, 112)
sendTeknopoint == Send(<<TeknopointSec>>)
decodeTeknopoint == Checked(Decode(2 * 112 + 1, <<Within(35, 50, TeknopointSec)>>))

KelonSec(hm, hs, gap, n) == Sec(hm, hs, 560, 1680, 560, 600, 560, gap, n)
Kelon168Secs == <<KelonSec(9000, 4600, 8000, 48), KelonSec(0, 0, 8000, 64),
                  KelonSec(0, 0, 200000, 56)>>
sendKelon168 == Send(Kelon168Secs)
decodeKelon168 == Decode(2 * 168 + 6, ExactBefore(AllWithin(25, 0, Kelon168Secs)))
sendKelon == Send(<<KelonSec(9000, 4600, 200000, 48)>>)
decodeKelon == Decode(0, <<Within(25, 0, KelonSec(9000, 4600, 200000, 48))>>)

SanyoAc88Sec(gap) == Sec(5400, 2000, 500, 1500, 500, 750, 500, gap, 88)
sendSanyoAc88 ==
    Send(<<SanyoAc88Sec(3675), SanyoAc88Sec(3675), SanyoAc88Sec(103675)>>)
decodeSanyoAc88 ==
    Decode(0, ExactBefore(AllWithin(30, 50,
                <<SanyoAc88Sec(3675), SanyoAc88Sec(3675), SanyoAc88Sec(100000)>>)))

RhossSec == Sec(3042, 4248, 648, 1545, 648, 457, 648, 457, 96)
sendRhoss == Send(<<RhossSec, Footer(648, 100000)>>)
decodeRhoss ==
    Checked(Decode(2 * 96 + 4, <<Exact(RhossSec)>> \o Ending(25, 648, 100000)))

AirtonSec == Sec(6630, 3350, 400, 1260, 400, 430, 400, 100000, 56)
sendAirton == Send(<<AirtonSec>>)
decodeAirton == Checked(Decode(2 * 56 + 2, <<AirtonSec>>))

(* Coolix's times, and no inverse bytes.                                   *)
Coolix48Sec == Sec(4692, 4416, 552, 1656, 552, 552, 552, 5244, 48)
sendCoolix48 == Message(<<Coolix48Sec>>, 1, <<>>)
decodeCoolix48 == Decode(0, <<Within(30, 0, Coolix48Sec)>>)

Daikin200Sec(n) == Sec(4920, 2230, 290, 1850, 290, 780, 290, 29400, n)
Daikin200Secs == <<Daikin200Sec(56), Daikin200Sec(144)>>
sendDaikin200 == Send(Daikin200Secs)
decodeDaikin200 ==
    Checked(Decode(2 * (200 + 4) - 1, ExactBefore(AllWithin(35, 0, Daikin200Secs))))

sendHaierAC160 == sendHaierAC(160)
decodeHaierAC160 == decodeHaierAC(160)

CarrierAc128Sec(hm, hs) == Sec(hm, hs, 340, 1000, 340, 400, 340, 20600, 64)
CarrierAc128Secs ==
    <<CarrierAc128Sec(4600, 2600), Header(4600, 6700), CarrierAc128Sec(9300, 5000)>>
sendCarrierAC128 == Send(CarrierAc128Secs \o <<Footer(4600, 100000)>>)
decodeCarrierAC128 ==
    Decode(2 * (128 + 6) - 1, CarrierAc128Secs \o Ending(25, 4600, 100000))

(* Two bits to a space, one of four lengths.                               *)
kTcl96AcBitSpaces == <<360, 838, 2182, 1444>>
sendTcl96Ac ==
    TimesOf([p \in Patterns |->
        <<1056, 550>>
          \o FlattenSeq([i \in 1..48 |->
               <<600, kTcl96AcBitSpaces[2 * Bit(p, 2 * i - 1) + Bit(p, 2 * i) + 1]>>])
          \o <<600, 100000>>])
decodeTcl96Ac == Coded("tcl96", 96 + 4 - 1)
takesTcl96Ac(c, o, timeout) ==
    LET p == [timeout |-> timeout, tolerance |-> 25, excess |-> 50]
        mark(k, usecs) == matchMark(Cell(c, k), usecs, p)
        foot == o + 2 + 2 * 48 + 1
    IN  /\ mark(o + 1, 1056) /\ matchSpace(Cell(c, o + 2), 550, p)
        /\ \A i \in 1..48 :
             /\ mark(o + 1 + 2 * i, 600)
             /\ \E v \in 1..4 :
                  matchSpace(Cell(c, o + 2 + 2 * i), kTcl96AcBitSpaces[v], p)
        /\ mark(foot, 600)
        /\ foot < Len(c) => matchAtLeast(c[foot + 1], 100000, [p EXCEPT !.excess = 0])

SanyoAc152Sec(gap) == Sec(3300, 1725, 440, 1290, 440, 405, 440, gap, 152)
sendSanyoAc152 == Send(<<SanyoAc152Sec(200000)>>)
decodeSanyoAc152 == Decode(0, <<Exact(Within(38, 50, SanyoAc152Sec(100000)))>>)

Daikin312Sec(n) == Sec(3518, 1688, 453, 1275, 453, 414, 453, 35512, n)
Daikin312Secs ==
    <<Always(<<0, 0, 0, 0, 0>>, Sec(0, 0, 453, 1275, 453, 414, 453, 25100, 5)),
      Daikin312Sec(160), Daikin312Sec(152)>>
sendDaikin312 == Send(Daikin312Secs)
decodeDaikin312 ==
    Checked(Decode(2 * (312 + 9) + 1, ExactBefore(AllWithin(35, 0, Daikin312Secs))))

CarrierAc84Secs ==
    <<Sec(5850, 1175, 1175, 430, 430, 1175, 0, 0, 4),
      Sec(0, 0, 1175, 430, 430, 1175, 1175, 100000, 80)>>
sendCarrierAC84 == Send(CarrierAc84Secs)
decodeCarrierAC84 == Decode(2 * 84 + 4 - 1, AllWithin(30, 50, CarrierAc84Secs))

YorkSec == Sec(4887, 2267, 612, 1778, 612, 579, 612, 100000, 136)
sendYork == Send(<<YorkSec>>)
decodeYork == Decode(0, <<Exact(YorkSec)>>)

BluestarSec == Sec(4912, 5058, 465, 572, 465, 1548, 4912, 100000, 104)
sendBluestarHeavy == Send(<<BluestarSec>>)
decodeBluestarHeavy == Decode(0, <<BluestarSec>>)

EuromSec == Sec(3257, 3187, 454, 1162, 454, 355, 454, 50058, 96)
sendEurom == Send(<<EuromSec>>)
decodeEurom == Decode(96 - 1, <<EuromSec>>)
=============================================================================
