----------------------------- MODULE IRformatsAc -----------------------------
(***************************************************************************)
(* The send and decode functions of the protocols of air conditioners, in  *)
(* the order decode() tries them.  `n` is the number of bits of a function *)
(* that is called with several.                                            *)
(***************************************************************************)
EXTENDS IRformats

(* All sections but the last have a gap that is exactly as long as told.   *)
ExactBefore(secs) == [i \in DOMAIN secs |->
                        IF i = Len(secs) THEN secs[i] ELSE Exact(secs[i])]
AllWithin(tolerance, excess, secs) ==
    [i \in DOMAIN secs |-> Within(tolerance, excess, secs[i])]

MitsubishiAcSec == Sec(3400, 1750, 450, 1300, 450, 420, 440, 15500, 144)
sendMitsubishiAC == Message(<<MitsubishiAcSec>>, 1, <<>>)
decodeMitsubishiAC == Decode(292, <<Exact(Within(30, 0, MitsubishiAcSec))>>)

(* As many bytes as there are; the number of them tells the messages apart.*)
FujitsuSec(n) == Sec(3324, 1574, 448, 1182, 448, 390, 0, 0, n)
sendFujitsuAC(n) ==
    Send(<<Sec(3324, 1574, 448, 1182, 448, 390, 448, 8100, n)>>)
decodeFujitsuAC ==
    Checked(OneOf(2 * 48 + 4 - 1,
                  {<<Within(30, 0, FujitsuSec(n))>> \o Ending(25, 448, 8100) :
                   n \in {48, 56, 120, 128}}))

BoschSec == Sec(4366, 4415, 456, 1645, 456, 610, 456, 5235, 48)
sendBosch144 == Send(<<BoschSec, BoschSec, [BoschSec EXCEPT !.gap = 105235]>>)
decodeBosch144 ==
    Decode(2 * 144 + 3 * 4 - 1, ExactBefore(Times(3, <<BoschSec>>)))

CoolixSec(n, gap) == Sec(4692, 4416, 552, 1656, 552, 552, 552, gap, 2 * n)
sendCOOLIX == Send(<<CoolixSec(24, 5244), CoolixSec(24, 105244)>>)
decodeCOOLIX ==
    Checked(Decode(4 * 24 + 4 - 1,
      <<Header(4692, 4416), Within(30, 0, Sec(0, 0, 552, 1656, 552, 552, 0, 0, 48))>>
        \o Ending(25, 552, 5244)))

(* A command and what follows it, with three bits and a gap between them.  *)
KelvinatorBits(hm, hs, fm, gap, n) == Sec(hm, hs, 680, 1530, 680, 510, fm, gap, n)
sendKelvinator ==
    Send(Times(2, <<KelvinatorBits(9010, 4505, 0, 0, 32),
                    Always(<<0, 1, 0>>, KelvinatorBits(0, 0, 680, 19975, 3)),
                    KelvinatorBits(0, 0, 680, 39950, 32)>>))
decodeKelvinator ==
    Checked(Decode(2 * (128 + 3) + 10,
      ExactBefore(Times(2, <<KelvinatorBits(9010, 4505, 0, 0, 32),
                             KelvinatorBits(0, 0, 0, 0, 3),
                             KelvinatorBits(680, 19975, 680, 39950, 32)>>))))

DaikinSec(n) == Sec(3650, 1623, 428, 1280, 428, 428, 428, 29428, n)
DaikinSecs == <<Always(<<0, 0, 0, 0, 0>>, [DaikinSec(5) EXCEPT !.hm = 0, !.hs = 0]),
                DaikinSec(64), DaikinSec(64), DaikinSec(152)>>
sendDaikin == Send(DaikinSecs)
decodeDaikin ==
    Checked(Decode(2 * (280 + 5) + 12 + 2 - 1, ExactBefore(AllWithin(35, 50, DaikinSecs))))

Daikin2Sec(n) == Sec(3500, 1728, 460, 1270, 460, 420, 460, 35204, n)
Daikin2Secs == <<Header(10024, 25180), Daikin2Sec(160), Daikin2Sec(152)>>
sendDaikin2 == Send(Daikin2Secs)
decodeDaikin2 ==
    Checked(Decode(2 * (312 + 4) + 2 - 1, ExactBefore(AllWithin(30, 50, Daikin2Secs))))

Daikin216Sec(n) == Sec(3440, 1750, 420, 1300, 420, 450, 420, 29650, n)
Daikin216Secs == <<Daikin216Sec(64), Daikin216Sec(152)>>
sendDaikin216 == Send(Daikin216Secs)
decodeDaikin216 ==
    Checked(Decode(2 * (216 + 4) - 1, ExactBefore(AllWithin(35, 50, Daikin216Secs))))

ToshibaSec(gap, n) == Sec(4400, 4300, 580, 1600, 580, 490, 580, gap, n)
sendToshibaAC(n) == Message(<<ToshibaSec(7400, n)>>, 1, <<>>)
decodeToshibaAC(n) == Checked(Decode(0, <<ToshibaSec(4600, n)>>))

(* The message and then all its bits inverted.                             *)
MideaSec(gap, n) == Sec(4480, 4480, 560, 1680, 560, 560, 560, gap, n)
sendMidea == Send(<<MideaSec(5600, 48), Inverted(MideaSec(105600, 48))>>)
decodeMidea ==
    Checked(Decode(2 * (2 * 48 + 4) - 1,
                   ExactBefore(AllWithin(30, 50, Times(2, <<MideaSec(5600, 48)>>)))))

GreeBits(hm, hs, fm, gap, n) == Sec(hm, hs, 620, 1600, 620, 540, fm, gap, n)
sendGree ==
    Send(<<GreeBits(9000, 4500, 0, 0, 32),
           Always(<<0, 1, 0>>, GreeBits(0, 0, 620, 19980, 3)),
           GreeBits(0, 0, 620, 19980, 32)>>)
decodeGree ==
    Checked(Decode(2 * (64 + 3) + 5,
                   <<GreeBits(9000, 4500, 0, 0, 32), GreeBits(0, 0, 0, 0, 3),
                     GreeBits(620, 19980, 620, 19980, 32)>>))

(* HaierACYRW02 and HaierAC176 are longer messages of the same kind.       *)
HaierSecs(n) ==
    <<Header(3000, 3000), Sec(3000, 4300, 520, 1650, 520, 650, 520, 150000, n)>>
sendHaierAC(n) == Send(HaierSecs(n))
decodeHaierAC(n) == Checked(Decode(2 * n + 4, HaierSecs(n)))
sendHaierACYRW02 == sendHaierAC(112)
decodeHaierACYRW02 == decodeHaierAC(112)
sendHaierAC176 == sendHaierAC(176)
decodeHaierAC176 == decodeHaierAC(176)

HitachiAc424Secs ==
    <<Header(29784, 49290), Sec(3416, 1604, 463, 1208, 463, 372, 463, 100000, 424)>>
sendHitachiAc424 == Send(HitachiAc424Secs)
decodeHitachiAc424 ==
    Decode(2 * 424 + 6 - 1,
           <<HitachiAc424Secs[1], Within(25, 0, HitachiAc424Secs[2])>>)

Mitsubishi136Sec == Sec(3324, 1474, 467, 1137, 467, 351, 467, 100000, 136)
sendMitsubishi136 == Send(<<Mitsubishi136Sec>>)
decodeMitsubishi136 == Checked(Decode(0, <<Within(25, 0, Mitsubishi136Sec)>>))

HitachiAc3Sec(n) == Sec(3400, 1660, 460, 1250, 460, 410, 460, 100000, n)
sendHitachiAc3(n) == Send(<<HitachiAc3Sec(n)>>)
decodeHitachiAc3(n) ==
    Checked(Decode(2 * n + 4 - 1, <<Within(25, 0, HitachiAc3Sec(n))>>))

(* 344, 264 and 224 bits, 424 of AC2 and 104 of AC1, whose header differs. *)
HitachiAcSec(n) ==
    IF n = 104 THEN Sec(3400, 3400, 400, 1250, 400, 500, 400, 100000, n)
    ELSE Sec(3300, 1700, 400, 1250, 400, 500, 400, 100000, n)
sendHitachiAC(n) == Send(<<HitachiAcSec(n)>>)
decodeHitachiAC(n) ==
    [Decode(0, <<Within(30, 50, HitachiAcSec(n))>>) EXCEPT !.checked = n # 424]
sendHitachiAC1 == sendHitachiAC(104)
sendHitachiAC2 == sendHitachiAC(424)
sendHitachiAc264 == sendHitachiAC(264)
sendHitachiAc344 == sendHitachiAC(344)
sendHitachiAc296 == sendHitachiAC(296)
decodeHitachiAc296 == Checked(Decode(0, <<Within(25, 0, HitachiAcSec(296))>>))

WhirlpoolSec(hm, hs, gap, n) == Sec(hm, hs, 597, 1649, 597, 533, 597, gap, n)
sendWhirlpoolAC ==
    Send(<<WhirlpoolSec(8950, 4484, 7920, 48), WhirlpoolSec(0, 0, 7920, 64),
           WhirlpoolSec(0, 0, 100000, 56)>>)
decodeWhirlpoolAC ==
    Checked(Decode(2 * 168 + 8 - 1,
      <<Header(8950, 4484)>>
        \o ExactBefore(<<WhirlpoolSec(0, 0, 7920, 48), WhirlpoolSec(0, 0, 7920, 64),
                         WhirlpoolSec(0, 0, 7920, 56)>>)))

(* The mark of the header is sent for 690 us and looked for with 586.      *)
SamsungAcSec == Sec(3086, 8864, 586, 1432, 586, 436, 586, 2886, 56)
sendSamsungAC(n) ==
    Send(<<Header(690, 17844)>> \o Times(n \div 56 - 1, <<SamsungAcSec>>)
           \o <<[SamsungAcSec EXCEPT !.gap = 100000]>>)
decodeSamsungAC(n) ==
    Checked(Decode(2 * n + 6 + 4 - 1,
      <<Header(586, 17844)>>
        \o ExactBefore(AllWithin(25, 0, Times(n \div 56, <<SamsungAcSec>>)))))

ElectraSec == Sec(9166, 4470, 646, 1647, 646, 547, 646, 100000, 104)
sendElectraAC == Send(<<ElectraSec>>)
decodeElectraAC == Checked(Decode(0, <<Within(25, 0, ElectraSec)>>))

PanasonicAcSec(gap, n) == Sec(3456, 1728, 432, 1296, 432, 432, 432, gap, n)
PanasonicAcSecs(n) == <<PanasonicAcSec(10000, 64), PanasonicAcSec(100000, n - 64)>>
sendPanasonicAC(n) == Send(PanasonicAcSecs(n))
decodePanasonicAC(n) ==
    Checked(Decode(2 * n + 4, ExactBefore(AllWithin(40, 0, PanasonicAcSecs(n)))))

VestelSec(gap) == Sec(3110, 9066, 520, 1535, 520, 480, 520, gap, 56)
sendVestelAc == Send(<<VestelSec(100000)>>)
decodeVestelAc == Checked(Decode(0, <<Within(30, 50, VestelSec(0))>>))

(* The header's mark tells Mitsubishi112 from Tcl112Ac.                    *)
Mitsubishi112Sec(hm) == Sec(hm, 1696, 450, 1250, 450, 385, 450, 100000, 112)
Tcl112Sec(hm) == Sec(hm, 1650, 500, 1050, 500, 325, 500, 100000, 112)
sendMitsubishi112 == Send(<<Mitsubishi112Sec(3450)>>)
sendTcl112Ac == Send(<<Tcl112Sec(3000)>>)
decodeMitsubishi112 ==
    Checked(OneOf(2 * 112 + 4 - 1,
      {<<Within(5, 0, Header(3450, 0)), Within(25, 0, Mitsubishi112Sec(0))>>,
       <<Within(6, 0, Header(3000, 0)), Within(30, 0, Tcl112Sec(0))>>}))

TecoSec == Sec(9000, 4440, 620, 1650, 620, 580, 620, 100000, 35)
sendTeco == Send(<<TecoSec>>)
decodeTeco == Decode(0, <<TecoSec>>)

MitsubishiHeavySec(n) == Sec(3140, 1630, 370, 420, 370, 1220, 370, 100000, n)
sendMitsubishiHeavy88 == Send(<<MitsubishiHeavySec(88)>>)
sendMitsubishiHeavy152 == Send(<<MitsubishiHeavySec(152)>>)
decodeMitsubishiHeavy(n) ==
    Checked(Decode(0, <<Within(25, 0, MitsubishiHeavySec(n))>>))

(* WREM-2 sends no footer: the space of the last bit ends the message.     *)
ArgoSec(fm, gap, n) == Sec(6400, 3300, 400, 2200, 400, 900, fm, gap, n)
sendArgoWREM3(n) == Send(<<ArgoSec(400, 100000, n)>>)
decodeArgoWREM3(n) == Checked(Decode(0, <<Within(25, 0, ArgoSec(400, 100000, n))>>))
sendArgo(n) == Send(<<ArgoSec(0, 0, n)>>)
decodeArgo(n) ==
    [Decode(0, <<Within(25, 0, ArgoSec(0, 0, n))>>) EXCEPT !.checked = n = 96]

SharpAcSec == Sec(3800, 1900, 470, 1400, 470, 500, 470, 100000, 104)
sendSharpAc == Send(<<SharpAcSec>>)
decodeSharpAc == Checked(Decode(0, <<SharpAcSec>>))
=============================================================================
