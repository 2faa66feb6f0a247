------------------------------- MODULE IRdecode -------------------------------
(***************************************************************************)
(* IRrecv::decode() for one captured message: the decode functions are     *)
(* tried in a fixed order, and the first that takes the capture names the  *)
(* protocol.  If none does, so many intervals more are passed over.        *)
(*                                                                         *)
(* The capture is the message of some send function, as a receiver records *)
(* it or as the Worker is told it, perhaps with noise in front.            *)
(***************************************************************************)
EXTENDS IRformatsRc, IRformatsAcRest

(* How messages are captured: `whole`, every mark and space, the last gap  *)
(* included, as the Worker is told them, or, on a device, until it has     *)
(* been dark for `timeout` us; `error`, by how much marks are too long and *)
(* spaces too short; `noise`, marks and spaces in front of the message;    *)
(* `flash`, a flash of light in its first space; `floor`, the noise_floor  *)
(* that decode() is called with.  Flashes and noise are in ticks.          *)
CONSTANTS Receptions, max_skip

ASSUME ReceptionsAssumption ==
    /\ \A r \in Receptions :
         /\ r.timeout \in Nat \ {0} /\ r.error \in Nat
         /\ r.flash \in Nat /\ r.floor \in Nat
         /\ r.noise \in Seq(Nat) /\ Len(r.noise) % 2 = 0
    /\ max_skip \in Nat

-----------------------------------------------------------------------------
(* A call of decode(): the function, and the messages it is meant for.     *)
Try(name, decode) == [name |-> name, reads |-> {name}, decode |-> decode]
TryFor(names, name, decode) == [name |-> name, reads |-> names, decode |-> decode]

(* Mutant: NEC, the most common of them, is tried first.                   *)
FirstDecoders_NecFirst ==
    <<TryFor({"NEC"}, "NEC", Checked(decodeNEC(32))),
      Try("AiwaRCT501", decodeAiwaRCT501), Try("SanyoLC7461", decodeSanyoLC7461),
      Try("CarrierAC", decodeCarrierAC), Try("Pioneer", decodePioneer),
      Try("Epson", decodeEpson)>>
FirstDecoders ==
    <<Try("AiwaRCT501", decodeAiwaRCT501), Try("SanyoLC7461", decodeSanyoLC7461),
      Try("CarrierAC", decodeCarrierAC), Try("Pioneer", decodePioneer),
      Try("Epson", decodeEpson), TryFor({"NEC"}, "NEC", Checked(decodeNEC(32))),
      Try("Milestag2Msg", decodeMilestag2(24)), Try("Milestag2Shot", decodeMilestag2(14)),
      TryFor({"Sony12", "Sony15", "Sony20"}, "Sony", decodeSony),
      Try("Mitsubishi", decodeMitsubishi), Try("MitsubishiAC", decodeMitsubishiAC),
      Try("Mitsubishi2", decodeMitsubishi2), Try("RC5", decodeRC5),
      Try("RC6", decodeRC6), Try("RCMM", decodeRCMM),
      TryFor({"FujitsuAC48", "FujitsuAC56", "FujitsuAC120", "FujitsuAC128"},
             "FujitsuAC", decodeFujitsuAC),
      Try("Denon48", decodeDenon(48)), Try("Denon15", decodeDenon(15)),
      Try("Denon14", decodeDenon(14)), Try("Panasonic", decodePanasonic),
      Try("Panasonic40", decodePanasonic40),
      TryFor({"LG28", "LG2"}, "LG28", decodeLG(28)), Try("LG32", decodeLG(32)),
      Try("GICable", decodeGICable), Try("JVC", decodeJVC),
      Try("SAMSUNG", decodeSAMSUNG), Try("Samsung36", decodeSamsung36),
      Try("Whynter", decodeWhynter), Try("DISH", decodeDISH),
      Try("Sharp", decodeSharp), Try("Bosch144", decodeBosch144),
      Try("COOLIX", decodeCOOLIX), Try("Nikai", decodeNikai)>>

MiddleDecoders ==
    <<Try("Kelvinator", decodeKelvinator), Try("Daikin", decodeDaikin),
      Try("Daikin2", decodeDaikin2), Try("Daikin216", decodeDaikin216),
      Try("ToshibaAC72", decodeToshibaAC(72)), Try("ToshibaAC80", decodeToshibaAC(80)),
      Try("ToshibaAC56", decodeToshibaAC(56)), Try("Midea", decodeMidea),
      Try("MagiQuest", decodeMagiQuest), TryFor({"NEC", "NecLike"}, "NEC_LIKE", decodeNEC(32)),
      Try("Lasertag", decodeLasertag), Try("Gree", decodeGree),
      Try("HaierAC", decodeHaierAC(72)), Try("HaierACYRW02", decodeHaierACYRW02),
      Try("HaierAC176", decodeHaierAC176), Try("HitachiAc424", decodeHitachiAc424),
      Try("Mitsubishi136", decodeMitsubishi136),
      Try("HitachiAc3_216", decodeHitachiAc3(216)),
      Try("HitachiAc3_184", decodeHitachiAc3(184)),
      Try("HitachiAc3_168", decodeHitachiAc3(168)),
      Try("HitachiAc3_136", decodeHitachiAc3(136)),
      Try("HitachiAc3_120", decodeHitachiAc3(120)),
      Try("HitachiAc344", decodeHitachiAC(344)), Try("HitachiAc264", decodeHitachiAC(264)),
      Try("HitachiAc296", decodeHitachiAc296), Try("HitachiAC2", decodeHitachiAC(424)),
      Try("HitachiAC", decodeHitachiAC(224)), Try("HitachiAC1", decodeHitachiAC(104)),
      Try("WhirlpoolAC", decodeWhirlpoolAC),
      Try("SamsungAC168", decodeSamsungAC(168)), Try("SamsungAC112", decodeSamsungAC(112)),
      Try("ElectraAC", decodeElectraAC),
      Try("PanasonicAC216", decodePanasonicAC(216)),
      Try("PanasonicAC128", decodePanasonicAC(128)),
      Try("Lutron", decodeLutron), Try("MWM", decodeMWM), Try("VestelAc", decodeVestelAc),
      TryFor({"Mitsubishi112", "Tcl112Ac"}, "Mitsubishi112", decodeMitsubishi112),
      Try("Teco", decodeTeco), Try("LegoPf", decodeLegoPf),
      Try("MitsubishiHeavy152", decodeMitsubishiHeavy(152)),
      Try("MitsubishiHeavy88", decodeMitsubishiHeavy(88)),
      Try("ArgoWREM3_48", decodeArgoWREM3(48)), Try("ArgoWREM3_16", decodeArgoWREM3(16)),
      Try("ArgoWREM3_32", decodeArgoWREM3(32)), Try("ArgoWREM3_72", decodeArgoWREM3(72)),
      Try("Argo96", decodeArgo(96)), Try("Argo32", decodeArgo(32))>>

LastDecoders ==
    <<Try("SharpAc", decodeSharpAc), Try("Goodweather", decodeGoodweather),
      Try("Inax", decodeInax), Try("Trotec", decodeTrotec),
      Try("Trotec3550", decodeTrotec3550), Try("Daikin160", decodeDaikin160),
      Try("Neoclima", decodeNeoclima), Try("Daikin176", decodeDaikin176),
      Try("Daikin128", decodeDaikin128), Try("Amcor", decodeAmcor),
      Try("Daikin152", decodeDaikin152), Try("Symphony", decodeSymphony),
      Try("Daikin64", decodeDaikin64), Try("Airwell", decodeAirwell),
      Try("DelonghiAc", decodeDelonghiAc), Try("Doshisha", decodeDoshisha),
      Try("Truma", decodeTruma), Try("Multibrackets", decodeMultibrackets),
      Try("CarrierAC40", decodeCarrierAC40), Try("CarrierAC64", decodeCarrierAC64),
      Try("TechnibelAc", decodeTechnibelAc),
      TryFor({"CoronaAc56", "CoronaAc168"}, "CoronaAc", decodeCoronaAc),
      Try("Midea24", decodeMidea24), Try("Zepeal", decodeZepeal),
      Try("SanyoAc", decodeSanyoAc), Try("Voltas", decodeVoltas),
      Try("Metz", decodeMetz), Try("Transcold", decodeTranscold),
      Try("Mirage", decodeMirage), Try("Elitescreens", decodeElitescreens),
      Try("PanasonicAC32", decodePanasonicAC32(32)),
      Try("PanasonicAC16", decodePanasonicAC32(16)),
      Try("Ecoclim56", decodeEcoclim(56)), Try("Ecoclim15", decodeEcoclim(15)),
      Try("Xmp", decodeXmp), Try("Teknopoint", decodeTeknopoint),
      Try("Kelon168", decodeKelon168), Try("Kelon", decodeKelon),
      Try("SanyoAc88", decodeSanyoAc88), Try("Bose", decodeBose),
      Try("Arris", decodeArris), Try("Rhoss", decodeRhoss), Try("Airton", decodeAirton),
      Try("Coolix48", decodeCoolix48), Try("Daikin200", decodeDaikin200),
      Try("HaierAC160", decodeHaierAC160), Try("CarrierAC128", decodeCarrierAC128),
      Try("Toto48", decodeToto(48)), Try("Toto24", decodeToto(24)),
      Try("ClimaButler", decodeClimaButler), Try("Tcl96Ac", decodeTcl96Ac),
      Try("SanyoAc152", decodeSanyoAc152), Try("Daikin312", decodeDaikin312),
      Try("Gorenje", decodeGorenje), Try("Wowwee", decodeWowwee),
      Try("CarrierAC84", decodeCarrierAC84), Try("York", decodeYork),
      Try("BluestarHeavy", decodeBluestarHeavy), Try("Eurom", decodeEurom)>>

Decoders == FirstDecoders \o MiddleDecoders \o LastDecoders

-----------------------------------------------------------------------------
Messages ==
    [AiwaRCT501 |-> sendAiwaRCT501, SanyoLC7461 |-> sendSanyoLC7461,
     CarrierAC |-> sendCarrierAC, Pioneer |-> sendPioneer, Epson |-> sendEpson,
     NEC |-> sendNEC(32, 1), NecLike |-> sendNEC(32, 1), Milestag2Msg |-> sendMilestag2(24),
     Milestag2Shot |-> sendMilestag2(14), Sony12 |-> sendSony(12),
     Sony15 |-> sendSony(15), Sony20 |-> sendSony(20), Mitsubishi |-> sendMitsubishi,
     MitsubishiAC |-> sendMitsubishiAC, Mitsubishi2 |-> sendMitsubishi2,
     RC5 |-> sendRC5, RC6 |-> sendRC6, RCMM |-> sendRCMM,
     FujitsuAC48 |-> sendFujitsuAC(48), FujitsuAC56 |-> sendFujitsuAC(56),
     FujitsuAC120 |-> sendFujitsuAC(120), FujitsuAC128 |-> sendFujitsuAC(128),
     Denon48 |-> sendDenon(48), Denon15 |-> sendDenon(15),
     Panasonic |-> sendPanasonic(48), Panasonic40 |-> sendPanasonic(40),
     LG28 |-> sendLG(28), LG2 |-> sendLG2, LG32 |-> sendLG(32),
     GICable |-> sendGICable, JVC |-> sendJVC, SAMSUNG |-> sendSAMSUNG,
     Samsung36 |-> sendSamsung36, Whynter |-> sendWhynter, DISH |-> sendDISH,
     Sharp |-> sendSharp, Bosch144 |-> sendBosch144, COOLIX |-> sendCOOLIX,
     Nikai |-> sendNikai, Kelvinator |-> sendKelvinator, Daikin |-> sendDaikin,
     Daikin2 |-> sendDaikin2, Daikin216 |-> sendDaikin216,
     ToshibaAC72 |-> sendToshibaAC(72), ToshibaAC80 |-> sendToshibaAC(80),
     ToshibaAC56 |-> sendToshibaAC(56), Midea |-> sendMidea, MagiQuest |-> sendMagiQuest,
     Lasertag |-> sendLasertag, Gree |-> sendGree, HaierAC |-> sendHaierAC(72),
     HaierACYRW02 |-> sendHaierACYRW02, HaierAC176 |-> sendHaierAC176,
     HitachiAc424 |-> sendHitachiAc424, Mitsubishi136 |-> sendMitsubishi136,
     HitachiAc3_216 |-> sendHitachiAc3(216), HitachiAc3_184 |-> sendHitachiAc3(184),
     HitachiAc3_168 |-> sendHitachiAc3(168), HitachiAc3_136 |-> sendHitachiAc3(136),
     HitachiAc3_120 |-> sendHitachiAc3(120), HitachiAc344 |-> sendHitachiAc344,
     HitachiAc264 |-> sendHitachiAc264, HitachiAc296 |-> sendHitachiAc296,
     HitachiAC2 |-> sendHitachiAC2, HitachiAC |-> sendHitachiAC(224),
     HitachiAC1 |-> sendHitachiAC1, WhirlpoolAC |-> sendWhirlpoolAC,
     SamsungAC168 |-> sendSamsungAC(168), SamsungAC112 |-> sendSamsungAC(112),
     ElectraAC |-> sendElectraAC, PanasonicAC216 |-> sendPanasonicAC(216),
     PanasonicAC128 |-> sendPanasonicAC(128), Lutron |-> sendLutron, MWM |-> sendMWM,
     VestelAc |-> sendVestelAc, Mitsubishi112 |-> sendMitsubishi112,
     Tcl112Ac |-> sendTcl112Ac, Teco |-> sendTeco, LegoPf |-> sendLegoPf,
     MitsubishiHeavy152 |-> sendMitsubishiHeavy152,
     MitsubishiHeavy88 |-> sendMitsubishiHeavy88, ArgoWREM3_48 |-> sendArgoWREM3(48),
     ArgoWREM3_16 |-> sendArgoWREM3(16), ArgoWREM3_32 |-> sendArgoWREM3(32),
     ArgoWREM3_72 |-> sendArgoWREM3(72), Argo96 |-> sendArgo(96), Argo32 |-> sendArgo(32)]
    @@
    [SharpAc |-> sendSharpAc, Goodweather |-> sendGoodweather, Inax |-> sendInax,
     Trotec |-> sendTrotec, Trotec3550 |-> sendTrotec3550, Daikin160 |-> sendDaikin160,
     Neoclima |-> sendNeoclima, Daikin176 |-> sendDaikin176, Daikin128 |-> sendDaikin128,
     Amcor |-> sendAmcor, Daikin152 |-> sendDaikin152, Symphony |-> sendSymphony,
     Daikin64 |-> sendDaikin64, Airwell |-> sendAirwell, DelonghiAc |-> sendDelonghiAc,
     Doshisha |-> sendDoshisha, Truma |-> sendTruma, Multibrackets |-> sendMultibrackets,
     CarrierAC40 |-> sendCarrierAC40, CarrierAC64 |-> sendCarrierAC64,
     TechnibelAc |-> sendTechnibelAc, CoronaAc56 |-> sendCoronaAc(56),
     CoronaAc168 |-> sendCoronaAc(168), Midea24 |-> sendMidea24, Zepeal |-> sendZepeal,
     SanyoAc |-> sendSanyoAc, Voltas |-> sendVoltas, Metz |-> sendMetz,
     Transcold |-> sendTranscold, Mirage |-> sendMirage,
     Elitescreens |-> sendElitescreens, PanasonicAC32 |-> sendPanasonicAC32(32),
     PanasonicAC16 |-> sendPanasonicAC32(16), Ecoclim56 |-> sendEcoclim(56),
     Ecoclim15 |-> sendEcoclim(15), Xmp |-> sendXmp, Teknopoint |-> sendTeknopoint,
     Kelon168 |-> sendKelon168, Kelon |-> sendKelon, SanyoAc88 |-> sendSanyoAc88,
     Bose |-> sendBose, Arris |-> sendArris, Rhoss |-> sendRhoss, Airton |-> sendAirton,
     Coolix48 |-> sendCoolix48, Daikin200 |-> sendDaikin200,
     HaierAC160 |-> sendHaierAC160, CarrierAC128 |-> sendCarrierAC128,
     Toto48 |-> sendToto(48), Toto24 |-> sendToto(24), ClimaButler |-> sendClimaButler,
     Tcl96Ac |-> sendTcl96Ac, SanyoAc152 |-> sendSanyoAc152,
     Daikin312 |-> sendDaikin312, Gorenje |-> sendGorenje, Wowwee |-> sendWowwee,
     CarrierAC84 |-> sendCarrierAC84, York |-> sendYork,
     BluestarHeavy |-> sendBluestarHeavy, Eurom |-> sendEurom]

Sent == [name : DOMAIN Messages, pattern : Patterns]

-----------------------------------------------------------------------------
VARIABLES
    sent,       \* the message that was sent
    reception,  \* how it is captured
    rawbuf,     \* the capture, in ticks
    skipped,    \* intervals passed over: the code's offset less kStartOffset
    tried,      \* decoders tried since
    taken       \* the decoder that took it, 0 for none yet

vars == <<sent, reception, rawbuf, skipped, tried, taken>>

(* What is captured of a message: an entry has 16 bits.                    *)
UINT16_MAX == 65535
Ticks(air, r) ==
    [k \in DOMAIN air |->
       Min({(air[k] + IF k % 2 = 1 THEN r.error ELSE -r.error) \div kRawTick, UINT16_MAX})]
UntilDark(air, r) ==
    LET gaps == {k \in DOMAIN air : k % 2 = 0 /\ (air[k] >= r.timeout \/ k = Len(air))}
    IN  SubSeq(air, 1, Min(gaps \cup {Len(air) + 1}) - 1)
Heard(air, r) == IF r.whole THEN air ELSE UntilDark(air, r)
Disturbed(c, flash) ==
    IF flash = 0 \/ Len(c) < 2 THEN c
    ELSE <<c[1], (c[2] - flash) \div 2, flash,
           c[2] - flash - (c[2] - flash) \div 2>> \o SubSeq(c, 3, Len(c))

(* Mutant: what was passed over is lost.                                   *)
Merged_Lost(c, k) == SubSeq(c, 1, k - 1) \o SubSeq(c, k + 2, Len(c))

(* crudeNoiseFilter(): what is shorter than the floor and the interval     *)
(* behind it become part of the interval in front of them, in 16 bits.     *)
(* Behind the end of the capture there is a 0.                             *)
Merged(c, k) ==
    LET rest == SubSeq(c, 1, k - 1) \o SubSeq(c, k + 2, Len(c))
        longer == IF k = 1 THEN rest
                  ELSE [rest EXCEPT ![k - 1] = (@ + c[k] + Cell(c, k + 1)) % (UINT16_MAX + 1)]
    IN  SubSeq(longer, 1, Len(c) - 2)
crudeNoiseFilter(c, floor) ==
    LET short(buf, at) == {k \in at..Len(buf) : buf[k] < floor \div kRawTick}
        n == Cardinality(short(c, 1))
        passed[i \in 0..n] ==
          IF i = 0 THEN [buf |-> c, at |-> 1]
          ELSE LET s == passed[i - 1]
                   k == Min(short(s.buf, s.at))
               IN  IF short(s.buf, s.at) = {} THEN s
                   ELSE [buf |-> Merged(s.buf, k), at |-> k]
    IN  passed[n].buf

TakesAt(d, c, o, timeout) ==
    /\ Len(c) - o >= Max({d.least, 1})
    /\ CASE d.coding = "sections" -> \E w \in d.ways : MatchWay(c, o, w, timeout)
         [] d.coding = "sony" -> takesSony(c, o, timeout)
         [] d.coding = "rc5" -> takesRC5(c, o)
         [] d.coding = "rc6" -> takesRC6(c, o)
         [] d.coding = "rcmm" -> takesRCMM(c, o, timeout)
         [] d.coding = "magiquest" -> takesMagiQuest(c, o)
         [] d.coding = "lasertag" -> takesLasertag(c, o)
         [] d.coding = "xmp" -> takesXmp(c, o, timeout)
         [] d.coding = "lutron" -> takesLutron(c, o, timeout)
         [] d.coding = "mwm" -> takesMWM(c, o)
         [] d.coding = "multibrackets" -> takesMultibrackets(c, o, timeout)
         [] d.coding = "airwell" -> takesAirwell(c, o, timeout)
         [] d.coding = "arris" -> takesArris(c, o, timeout)
         [] d.coding = "tcl96" -> takesTcl96Ac(c, o, timeout)

(* The Worker's build of the library is that of the tests (UNIT_TEST).     *)
TakesTested(d, c, o, r) ==
    r.whole => /\ Len(c) - o >= d.tested.least
               /\ MatchWay(c, o, d.tested.way, r.timeout)

(* Mutant: it starts behind the pair that is passed over next.             *)
Takes_Ahead(d, c, skip, r) ==
    LET o == IF d.anchored THEN 0 ELSE skip + 2
    IN  TakesAt(d, c, o, r.timeout) /\ TakesTested(d, c, o, r)
Takes(d, c, skip, r) ==
    LET o == IF d.anchored THEN 0 ELSE skip
    IN  TakesAt(d, c, o, r.timeout) /\ TakesTested(d, c, o, r)

(* decodeHash() takes what nothing else does, but a few intervals.         *)
kUnknownThreshold == 6
Hash == Len(Decoders) + 1

Init ==
    /\ sent \in Sent
    /\ reception \in Receptions
    /\ \E air \in {Air(Messages[sent.name], sent.pattern)} :
       \E heard \in {Heard(air, reception)} :
       \E c \in {Disturbed(Ticks(heard, reception), reception.flash)} :
         rawbuf = reception.noise \o
                    IF reception.floor = 0 THEN c
                                           ELSE crudeNoiseFilter(c, reception.floor)
    /\ skipped = 0 /\ tried = 0 /\ taken = 0

(* Mutant: one pair more is passed over.                                   *)
SkipPair_OneMore ==
    /\ taken = 0 /\ tried = Len(Decoders)
    /\ skipped <= 2 * max_skip
    /\ skipped' = skipped + 2 /\ tried' = 0
    /\ UNCHANGED <<sent, reception, rawbuf, taken>>

(* Mutant: the decoders are not tried again.                               *)
SkipPair_NotRetried ==
    /\ taken = 0 /\ tried = Len(Decoders)
    /\ skipped < 2 * max_skip
    /\ skipped' = skipped + 2
    /\ UNCHANGED <<sent, reception, rawbuf, tried, taken>>

(* The decoders still to try whose timing the capture has.  Those between  *)
(* refuse it and change nothing.                                           *)
Matching ==
    {i \in (tried + 1)..Len(Decoders) :
        Takes(Decoders[i].decode, rawbuf, skipped, reception)}

(* A decoder that also looks at the data takes every message of its own,   *)
(* and perhaps one of another protocol.                                    *)
TryNext ==
    /\ taken = 0 /\ tried < Len(Decoders)
    /\ \E i \in {Min(Matching \cup {Hash})} :
         \/ /\ i # Hash
            /\ tried' = i /\ taken' = i
         \/ /\ i # Hash
            /\ Decoders[i].decode.checked /\ sent.name \notin Decoders[i].reads
            /\ tried' = i /\ taken' = 0
         \/ /\ i = Hash
            /\ tried' = Len(Decoders) /\ taken' = 0
    /\ UNCHANGED <<sent, reception, rawbuf, skipped>>

SkipPair ==
    /\ taken = 0 /\ tried = Len(Decoders)
    /\ skipped < 2 * max_skip
    /\ skipped' = skipped + 2 /\ tried' = 0
    /\ UNCHANGED <<sent, reception, rawbuf, taken>>

decodeHash ==
    /\ taken = 0 /\ tried = Len(Decoders)
    /\ skipped = 2 * max_skip
    /\ Len(rawbuf) + 1 >= kUnknownThreshold
    /\ taken' = Hash
    /\ UNCHANGED <<sent, reception, rawbuf, skipped, tried>>

Next == TryNext \/ SkipPair \/ decodeHash

Spec == Init /\ [][Next]_vars

-----------------------------------------------------------------------------
(* Types; as many pairs are passed over as were asked for.                 *)
TypeOK ==
    /\ sent \in Sent /\ reception \in Receptions
    /\ skipped \in {2 * k : k \in 0..max_skip}
    /\ tried \in 0..Len(Decoders)
    /\ taken \in {0, tried, Hash}

(* The decoders meant for the message.                                     *)
Own == {i \in DOMAIN Decoders : sent.name \in Decoders[i].reads}
TakenByOwn == taken \in Own

Noise == Len(reception.noise)
Width(way) == Last(way).at + Least(Last(way))

(* All that one of them looks at is in the capture: no gap within it has   *)
(* ended the capture.                                                      *)
Unbroken ==
    \E i \in Own :
        LET d == Decoders[i].decode IN
        Len(rawbuf) - Noise >=
            IF d.coding = "sections" THEN Min({Width(w) : w \in d.ways})
            ELSE Len(Air(Messages[sent.name], sent.pattern)) - 1

(* These decoders want an interval more than a receiver records of one     *)
(* message: their check of the length counts the gap behind it.            *)
NeedTheGap == {"MitsubishiAC", "Mitsubishi2", "Denon15", "Sharp", "LG32",
               "Whynter", "Trotec", "Argo96", "Argo32"}
(* A first space is lost, there are too few intervals, the last bits run   *)
(* into the gap, or spaces of 777 us are too short to be told apart.       *)
OddData == {<<"Lasertag", "mixed">>, <<"MWM", "zeros">>, <<"MWM", "ones">>,
            <<"Multibrackets", "zeros">>, <<"RCMM", "ones">>}
(* These look at the first intervals, whatever is skipped, or take the     *)
(* number of bits from the whole capture.                                  *)
NotBehindNoise == {"Voltas", "ClimaButler", "RCMM"}

Readable ==
    /\ Unbroken
    /\ reception.whole \/ sent.name \notin NeedTheGap
    /\ <<sent.name, sent.pattern>> \notin OddData
    /\ Noise = 0 \/ sent.name \notin NotBehindNoise

(* Every interval of every message reaches the floor, and also what a      *)
(* flash, which does not, leaves of the first space in front of it.        *)
FloorFits ==
    \A r \in Receptions, s \in Sent :
        LET c == Ticks(Heard(Air(Messages[s.name], s.pattern), r), r)
            least == r.floor \div kRawTick
        IN  r.floor # 0 =>
              /\ r.noise = <<>> /\ c \in Seq(least..UINT16_MAX)
              /\ r.flash # 0 /\ Len(c) >= 2 =>
                   r.flash < least /\ least <= (c[2] - r.flash) \div 2

(* The filter leaves nothing of a flash in a space and takes nothing of    *)
(* the message.                                                            *)
FlashForgotten ==
    tried = 0 /\ taken = 0 /\ skipped = 0 /\ reception.floor # 0 =>
      rawbuf = Ticks(Heard(Air(Messages[sent.name], sent.pattern), reception), reception)

(* A decoder has nothing to say about the capture from so many intervals   *)
(* on: its timing is another, or its own check fails.                      *)
Refuses(i, skip) ==
    Takes(Decoders[i].decode, rawbuf, skip, reception) =>
      Decoders[i].decode.checked /\ sent.name \notin Decoders[i].reads

(* Whoever takes the message, all that were asked before it have refused   *)
(* it, and nobody who looks at its timing alone is asked twice.            *)
FirstToTake ==
    /\ \A k \in 0..max_skip, i \in DOMAIN Decoders :
          2 * k < skipped => Refuses(i, 2 * k)
    /\ \A i \in 1..tried : i # taken => Refuses(i, skipped)
    /\ taken \in DOMAIN Decoders =>
          Takes(Decoders[taken].decode, rawbuf, skipped, reception)

(* What can be read has the timing that one of the decoders meant for it   *)
(* looks for, where the message begins.                                    *)
Recognised ==
    Readable => \E i \in Own : Takes(Decoders[i].decode, rawbuf, Noise, reception)

(* No decoder takes noise for the beginning of a message.                  *)
NoiseIgnored == taken \in DOMAIN Decoders => skipped >= Noise

(* What one remote sends and the library knows is not passed over: the     *)
(* decoders meant for it have not all refused it.                          *)
NeverMissed ==
    taken = 0 /\ skipped >= Noise /\ (\A i \in Own : i <= tried) => ~Readable

(* Messages that a decoder which does not look at the data takes for one   *)
(* of its own before theirs is tried, or when theirs refuses them.         *)
Lookalikes == {<<"MagiQuest", "Denon14">>, <<"Denon15", "Denon14">>,
               <<"Sharp", "Denon14">>, <<"Argo96", "Argo32">>,
               <<"Multibrackets", "Lutron">>}

(* A decoder that goes by timing alone takes no other protocol's message.  *)
Unmistaken ==
    /\ taken \in DOMAIN Decoders /\ ~TakenByOwn
    /\ ~Decoders[taken].decode.checked /\ Unbroken
    => <<sent.name, Decoders[taken].name>> \in Lookalikes

(* The comments in decode() tell why one decoder is tried before another:  *)
(* the other one would take its messages.                                  *)
ToldBefore ==
    ({"AiwaRCT501"} \X {"SanyoLC7461", "NEC"})
      \cup ({"SanyoLC7461", "CarrierAC", "Pioneer", "Epson"} \X {"NEC", "NEC_LIKE"})
      \cup ({"Milestag2Msg", "Milestag2Shot"} \X {"Sony"})
      \cup ({"FujitsuAC48", "FujitsuAC56", "FujitsuAC120", "FujitsuAC128"}
              \X {"Denon48", "Panasonic", "Panasonic40"})
      \cup ({"Denon48"} \X {"Panasonic"}) \cup ({"LG32"} \X {"SAMSUNG"})
      \cup ({"GICable"} \X {"JVC"}) \cup ({"Bosch144"} \X {"COOLIX"})
      \cup ({"Kelvinator"} \X {"Gree"})
      \cup ({"Mitsubishi136"} \X {"HitachiAc3_136"})
      \cup ({"HitachiAc424", "HitachiAc344", "HitachiAc264", "HitachiAc296",
             "HitachiAC2"} \X {"HitachiAC"})
      \cup ({"SamsungAC168"} \X {"SamsungAC112"}) \cup ({"Truma"} \X {"Multibrackets"})
      \cup ({"Toto48"} \X {"Toto24"})

TakenInOrder ==
    /\ taken \in DOMAIN Decoders
    /\ <<sent.name, Decoders[taken].name>> \in ToldBefore
    => ~Readable

(* The bits a decoder reads of its own message are those that were sent,   *)
(* from the first on.                                                      *)
Longest(way, ways) == \A w \in ways : Width(w) <= Width(way)
ReadBack ==
    TakenByOwn /\ Decoders[taken].decode.coding = "sections" =>
      LET d == Decoders[taken].decode
          o == IF d.anchored THEN 0 ELSE skipped
          matching == {w \in d.ways : MatchWay(rawbuf, o, w, reception.timeout)}
          way == CHOOSE w \in matching : Longest(w, matching)
      IN  IsPrefix(ReadWay(rawbuf, o, way), Data(Messages[sent.name], sent.pattern))
=============================================================================
